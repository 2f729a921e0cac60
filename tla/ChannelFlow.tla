----------------------------- MODULE ChannelFlow -----------------------------
(***************************************************************************)
(* From a message to an answered conversation: the poller and the webhook  *)
(* of ChannelIntake call enqueue of the job service, whose workers are     *)
(* those of ChannelJobs (app/main.py starts both).                         *)
(***************************************************************************)
EXTENDS ChannelJobs, ChannelIntake

\* Jobs are made of what the poller and the webhook enqueue.
ASSUME FlowAssumption == JobEvents = Deliverable

flowVars == <<vars, intakeVars, queued>>

FlowInit == Init /\ IntakeInit

\* enqueue inserts the job of an event that has none.
Intake(step) ==
    /\ step
    /\ IF queued' = queued THEN UNCHANGED vars
       ELSE \E e \in queued' \ queued : Enqueue(e)

Work(step) == step /\ UNCHANGED <<intakeVars, queued>>

FlowNext ==
    \/ Intake(IntakeNext)
    \/ Work(/\ Next
            /\ \A e \in JobEvents : job[e].status = "absent" => job'[e].status = "absent")

FlowSpec == FlowInit /\ [][FlowNext]_flowVars

-----------------------------------------------------------------------------
\* No message is lost on its way in: none is passed by the cursor, and what a
\* webhook accepted has its job (EmailPollingService.poll_source,
\* receive_whatsapp_webhook, ChannelJobService.enqueue).
NothingIsLost ==
    /\ IntakeTypeOK /\ queued = {e \in JobEvents : job[e].status # "absent"}
    /\ NothingIsPassed
    /\ AcceptedIsQueued

Handled(m) == \E e \in queued : e.of = m /\ job[e].status \in {"completed", "failed"}

\* A message that cannot be read stops every poll, and what came after it waits.
Behind(m) ==
    \E i, j \in DOMAIN mailbox : j <= i /\ mailbox[i] = m /\ mailbox[j] \in Unreadable

\* Every message in the mailbox is taken up and its job finished, unless the
\* server refuses it, it vanishes, or it is behind one that cannot be read
\* (EmailPollingService.run, ChannelJobService.run).
EveryMailIsHandled ==
    \A m \in Mails :
        m \in arrived ~> \/ Handled(m) \/ m \in refused \/ Behind(m)
                         \/ \A i \in DOMAIN mailbox : mailbox[i] # m

\* Every acceptable message of a webhook is (receive_whatsapp_webhook).
EveryTextIsHandled ==
    \A x \in (UNION {Payload[h] : h \in Webhooks}) \cap Acceptable : <>Handled(x)
=============================================================================
