---------------------------- MODULE MCChannelFlow ----------------------------
(* The channels for TLC, in parts: workers that crash and take over one job,  *)
(* workers that do not, website requests, pollers of one mailbox, the webhook *)
(* and its worker, and a poller and its worker.                               *)
EXTENDS ChannelFlow

CONSTANTS
    plain, late, anonymous, broken, hello, junk, h1, h2, w1, p1,
    Shared    \* bound: mails in the mailbox of several pollers

VARIABLE part

MCJobEvents == Deliverable
MCPayload == [h \in Webhooks |-> IF h = h1 THEN {hello, junk} ELSE {hello}]

MCInit == FlowInit /\ part \in {"rough", "calm", "website", "pollers", "webhook", "mail"}

\* One job, delivered by somebody.
OneJob ==
    /\ queued' = {e \in JobEvents : job'[e].status # "absent"}
    /\ queued' \subseteq {Named(plain)}
    /\ \A t \in Clients : task'[t] = task[t]
    /\ UNCHANGED intakeVars

Resting(tasks) == \A t \in tasks : task'[t] = task[t]
OnlyPoller == \A p \in Pollers \ {p1} : poller'[p] = poller[p]

MCNext ==
    /\ \/ part = "rough" /\ Next /\ OneJob /\ \A e \in JobEvents : job'[e].attempts <= 3
       \/ part = "calm" /\ Calm /\ OneJob
       \/ part = "website" /\ Next /\ UNCHANGED <<job, intakeVars, queued>>
       \/ part = "pollers" /\ FlowNext /\ UNCHANGED <<task, webhook, claim>>
                        /\ arrived' \subseteq Shared /\ refused' = {}
       \/ part = "webhook" /\ FlowNext /\ UNCHANGED <<poller, mailVars>> /\ Resting(Tasks \ {w1})
       \/ part = "mail" /\ FlowNext /\ UNCHANGED webhook /\ Resting(Tasks \ {w1}) /\ OnlyPoller
                        /\ ~StepFails(w1) /\ anonymous \notin arrived'
                        /\ (late \in arrived' => validity' = 2 /\ broken \notin arrived' /\ refused' = {})
    /\ part \in {"webhook", "mail"} => ~\E t \in Tasks : Crash(t)
    /\ UNCHANGED part

mcVars == <<flowVars, part>>

\* The application starts its pollers and workers and keeps them running, and
\* the provider repeats a webhook until it is accepted; polls and webhooks do not
\* fail for ever.
Running == {"calm", "webhook", "mail"}

doors == <<intakeVars, queued>>

\* A poll that comes to nothing.
Breaks(p) == (PollFails(p) /\ ~EndPoll(p)) \/ (FetchAfter(p) /\ ~WholeFetch(p))

MCFairness ==
    /\ WF_doors(part = "mail" /\ PollStep(p1))
    /\ \A h \in Webhooks : WF_doors(part = "webhook" /\ HookStep(h))
    /\ \A w \in Workers : WF_vars(part \in Running /\ Step(w))
    /\ WF_vars(part \in Running /\ StartWorker(w1))
    /\ WF_vars(part \in Running /\ \E w \in Workers, e \in queued : ClaimJob(w, e))
    /\ <>[][/\ \A p \in Pollers : ~Breaks(p)
            /\ \A h \in Webhooks : ~WebhookFails(h)]_mcVars

MCSpec == MCInit /\ [][MCNext]_mcVars /\ MCFairness

\* What the fairness of a part can promise: every message is taken up, and its
\* job settles (EmailPollingService.run, ChannelJobService.run).
MessagesAreHandled ==
    /\ part = "calm" => JobSettles(Named(plain))
    /\ part = "mail" => EveryMailIsHandled
    /\ part = "webhook" => EveryTextIsHandled
=============================================================================
