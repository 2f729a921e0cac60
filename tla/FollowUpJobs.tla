---------------------------- MODULE FollowUpJobs ----------------------------
(***************************************************************************)
(* The reminders of one quotation: the jobs that are scheduled when it is   *)
(* sent (app/followups/service.py), the workers that carry them out         *)
(* (app/followups/jobs.py) through the follow-up branch of the sales graph  *)
(* (app/graph2.py), and everybody who cancels or revives them: a customer   *)
(* who replies, a manager who closes the lead, an operator.                 *)
(*                                                                          *)
(* Every database transaction and the delivery are actions of their own.    *)
(* Due dates and backoff only delay a job: any open job may be due.         *)
(***************************************************************************)
EXTENDS Naturals

CONSTANTS
  Followups,    \* attempt numbers of FOLLOW_UP_SCHEDULE, one job each
  Workers,      \* worker loops, one per application process
  MaxAttempts,  \* followup_jobs.max_attempts
  MaxClaims,    \* bound: attempts a job ever gets
  None          \* no job

ASSUME ConstantsAssumption ==
  /\ None \notin Followups
  /\ MaxAttempts \in Nat \ {0}
  /\ MaxClaims \in Nat

VARIABLES
  job,        \* followup_jobs of the quotation
  record,     \* attempt numbers with a follow_up_records row
  sends,      \* how often the provider took a reminder
  quotation,  \* quotations.status, "draft" standing for all before "sent"
  replied,    \* an incoming interaction is newer than quotations.sent_at
  thread,     \* the checkpoint of the quotation's thread
  lead,       \* what is true of its lead
  unwritten,  \* commits about the lead whose checkpoint update is to come
  recovered,  \* jobs some worker start has taken from their worker
  worker

facts == <<record, sends, quotation, replied, thread, lead, unwritten>>
vars == <<job, record, sends, quotation, replied, thread, lead, unwritten, recovered, worker>>

-----------------------------------------------------------------------------
(* Types *)

JobStatuses == {"absent", "scheduled", "processing", "retry",
                "completed", "cancelled", "dead"}
JobType == [status : JobStatuses, attempts : Nat, old : BOOLEAN]
Open == {"scheduled", "retry"}

(* What a worker does next; an error at a try point is settled by "retry".   *)
TryPoints == {"load", "check", "cancel", "dead", "send", "record", "complete", "event"}
Points == TryPoints \cup {"down", "start", "idle", "retry", "dead_event"}

(* "late": when the job was claimed, its reminder was already pointless.     *)
WorkerType == [pc : Points, job : Followups \cup {None}, attempt : Nat, late : BOOLEAN]

Resting(point) == [pc |-> point, job |-> None, attempt |-> 0, late |-> FALSE]

TypeOK ==
  /\ job \in [Followups -> JobType]
  /\ record \subseteq Followups
  /\ sends \in [Followups -> Nat]
  /\ quotation \in {"draft", "sent"}
  /\ replied \in BOOLEAN
  /\ thread \in {"missing", "open", "won", "lost"}
  /\ lead \subseteq {"won", "lost"}
  /\ unwritten \subseteq {"won", "lost", "open"}
  /\ recovered \subseteq Followups
  /\ worker \in [Workers -> WorkerType]

(* A quotation sent before jobs existed has none, and maybe no checkpoint.   *)
Init ==
  /\ job = [j \in Followups |-> [status |-> "absent", attempts |-> 0, old |-> FALSE]]
  /\ record = {} /\ sends = [j \in Followups |-> 0]
  /\ \/ quotation = "draft" /\ thread = "open"
     \/ quotation = "sent" /\ thread \in {"missing", "open"}
  /\ replied = FALSE /\ lead = {} /\ unwritten = {} /\ recovered = {}
  /\ worker = [w \in Workers |-> Resting("down")]

-----------------------------------------------------------------------------
(* Helpers *)

Goto(w, point) == worker' = [worker EXCEPT ![w].pc = point]
Rest(w, point) == worker' = [worker EXCEPT ![w] = Resting(point)]
SetStatus(j, status) ==
  job' = [job EXCEPT ![j] = [@ EXCEPT !.status = status, !.old = FALSE]]

(* schedule_quotation_followups: one job per attempt, conflicts ignored. *)
Scheduled ==
  [j \in Followups |->
     IF job[j].status = "absent" THEN [job[j] EXCEPT !.status = "scheduled"] ELSE job[j]]

(* cancel_open_followup_jobs: a job in processing is left to its worker. *)
OpenCancelled ==
  [j \in Followups |->
     IF job[j].status \in Open THEN [job[j] EXCEPT !.status = "cancelled"] ELSE job[j]]

-----------------------------------------------------------------------------
(* The quotation and its thread *)

(* dispatch_quotation marks the quotation and schedules in one transaction. *)
SendQuotation ==
  /\ quotation = "draft"
  /\ quotation' = "sent" /\ job' = Scheduled
  /\ UNCHANGED <<record, sends, replied, thread, lead, unwritten, recovered, worker>>

(* The schedule_followup tool; reconcile does the same for every quotation. *)
ScheduleFollowups ==
  /\ quotation = "sent"
  /\ job' = Scheduled
  /\ UNCHANGED <<facts, recovered, worker>>

(* An incoming reply or purchase order is stored and cancels in one          *)
(* transaction; a thread without a checkpoint takes none.                    *)
Reply ==
  /\ quotation = "sent" /\ thread # "missing" /\ ~replied
  /\ replied' = TRUE /\ job' = OpenCancelled
  /\ UNCHANGED <<record, sends, quotation, thread, lead, unwritten, recovered, worker>>

(* The graph run on a reply cancels again. *)
GraphCancels ==
  /\ replied
  /\ job' = OpenCancelled
  /\ UNCHANGED <<facts, recovered, worker>>

(* mark_order_won commits; the run's checkpoint follows. *)
OrderWon ==
  /\ replied /\ thread # "missing"
  /\ job' = OpenCancelled
  /\ lead' = lead \cup {"won"} /\ unwritten' = unwritten \cup {"won"}
  /\ UNCHANGED <<record, sends, quotation, replied, thread, recovered, worker>>

(* A user closes the lead, and may reopen it; neither touches the quotation. *)
CloseLost ==
  /\ lead = {}
  /\ job' = OpenCancelled
  /\ lead' = {"lost"} /\ unwritten' = unwritten \cup {"lost"}
  /\ UNCHANGED <<record, sends, quotation, replied, thread, recovered, worker>>

ReopenLead ==
  /\ "lost" \in lead
  /\ lead' = lead \ {"lost"} /\ unwritten' = unwritten \cup {"open"}
  /\ UNCHANGED <<job, record, sends, quotation, replied, thread, recovered, worker>>

(* The status is written into the checkpoint, where order_won stays; without *)
(* a checkpoint the update makes one no reminder can be sent from.           *)
UpdateCheckpoint ==
  \E status \in unwritten :
    /\ unwritten' = unwritten \ {status}
    /\ thread' = IF thread \in {"missing", "won"} THEN thread ELSE status
    /\ UNCHANGED <<job, record, sends, quotation, replied, lead, recovered, worker>>

-----------------------------------------------------------------------------
(* The operator's endpoints *)

CancelJob(j) ==
  /\ job[j].status \in Open \cup {"processing"}
  /\ SetStatus(j, "cancelled")
  /\ UNCHANGED <<facts, recovered, worker>>

MutantRetryable == {"dead", "retry", "processing"}
Retryable == {"dead", "retry"}

RetryJob(j) ==
  /\ job[j].status \in Retryable
  /\ SetStatus(j, "retry")
  /\ UNCHANGED <<facts, recovered, worker>>

-----------------------------------------------------------------------------
(* FollowUpJobService *)

Recoverable(j) == job[j].status = "processing" /\ job[j].old

StartWorker(w) ==
  LET stale == {j \in Followups : Recoverable(j)} IN
  /\ worker[w].pc = "down"
  /\ job' = [j \in Followups |->
       IF j \in stale THEN [job[j] EXCEPT !.status = "retry", !.old = FALSE] ELSE job[j]]
  /\ recovered' = recovered \cup stale
  /\ Rest(w, "start")
  /\ UNCHANGED facts

Reconcile(w) ==
  /\ worker[w].pc \in {"start", "idle"}
  /\ job' = IF quotation = "sent" THEN Scheduled ELSE job
  /\ Rest(w, "idle")
  /\ UNCHANGED <<facts, recovered>>

ClaimDueJob(w, j) ==
  /\ worker[w].pc = "idle"
  /\ job[j].status \in Open
  /\ job[j].attempts < MaxClaims
  /\ job' = [job EXCEPT ![j] =
       [status |-> "processing", attempts |-> @.attempts + 1, old |-> FALSE]]
  /\ worker' = [worker EXCEPT ![w] =
       [pc |-> "load", job |-> j, attempt |-> job[j].attempts + 1,
        late |-> replied \/ j \in record]]
  /\ UNCHANGED <<facts, recovered>>

(* process_one reads the checkpoint ... *)
LoadState(w) ==
  /\ worker[w].pc = "load"
  /\ Goto(w, CASE thread = "missing" -> "dead"
               [] thread \in {"won", "lost"} -> "cancel"
               [] OTHER              -> "check")
  /\ UNCHANGED <<job, facts, recovered>>

(* ... and then the database: _eligibility_reason. *)
MutantEligible(j) == quotation = "sent" /\ ~replied
Eligible(j) == quotation = "sent" /\ j \notin record /\ ~replied

CheckEligibility(w) ==
  /\ worker[w].pc = "check"
  /\ Goto(w, IF Eligible(worker[w].job) THEN "send" ELSE "cancel")
  /\ UNCHANGED <<job, facts, recovered>>

(* cancel_job, called by the worker. *)
MarkCancelled(w) ==
  LET j == worker[w].job IN
  /\ worker[w].pc = "cancel"
  /\ IF job[j].status \in Open \cup {"processing"} THEN SetStatus(j, "cancelled")
     ELSE UNCHANGED job
  /\ Goto(w, "event")
  /\ UNCHANGED <<facts, recovered>>

MarkDead(w) ==
  /\ worker[w].pc = "dead"
  /\ SetStatus(worker[w].job, "dead")
  /\ Goto(w, "event")
  /\ UNCHANGED <<facts, recovered>>

(* The graph composes the reminder and hands it to the provider, which may   *)
(* take it and still report an error.                                        *)
SendReminder(w) ==
  /\ worker[w].pc = "send"
  /\ sends' = [sends EXCEPT ![worker[w].job] = @ + 1]
  /\ Goto(w, "record") \/ Goto(w, "retry")
  /\ UNCHANGED <<job, record, quotation, replied, thread, lead, unwritten, recovered>>

(* create_followup_record; the attempt number is unique. The run's last      *)
(* checkpoint overwrites what a parallel run on the thread has stored.       *)
RecordReminder(w) ==
  LET j == worker[w].job IN
  /\ worker[w].pc = "record"
  /\ IF j \in record THEN UNCHANGED <<record, thread>> /\ Goto(w, "retry")
     ELSE /\ record' = record \cup {j}
          /\ thread' \in {thread, "open"}
          /\ Goto(w, "complete")
  /\ UNCHANGED <<job, sends, quotation, replied, lead, unwritten, recovered>>

MarkCompleted(w) ==
  LET j == worker[w].job IN
  /\ worker[w].pc = "complete"
  /\ IF job[j].status = "processing" THEN SetStatus(j, "completed") ELSE UNCHANGED job
  /\ Goto(w, "event")
  /\ UNCHANGED <<facts, recovered>>

(* _record_event, in a transaction after the one it reports. *)
RecordEvent(w) ==
  /\ worker[w].pc \in {"event", "dead_event"}
  /\ Rest(w, "idle")
  /\ UNCHANGED <<job, facts, recovered>>

(* _mark_retry, whatever became of the job meanwhile. *)
MutantExhausted(w) == FALSE
Exhausted(w) == worker[w].attempt >= MaxAttempts

MarkRetry(w) ==
  LET j == worker[w].job IN
  /\ worker[w].pc = "retry"
  /\ IF Exhausted(w) THEN SetStatus(j, "dead") /\ Goto(w, "dead_event")
     ELSE SetStatus(j, "retry") /\ Rest(w, "idle")
  /\ UNCHANGED <<facts, recovered>>

-----------------------------------------------------------------------------
(* Failure and time *)

(* process_one settles whatever raised, and a run of the graph that returned *)
(* an error, or no record of the reminder.                                   *)
AfterFailure(w) == "retry"

(* Any exception before the step's transaction or delivery takes effect. *)
StepFails(w) ==
  /\ worker[w].pc \in TryPoints
  /\ Goto(w, AfterFailure(w))
  /\ UNCHANGED <<job, facts, recovered>>

(* The process dies or cancels its tasks; a failure while starting, or in    *)
(* _mark_retry, leaves run and ends the worker as well.                      *)
Crash(w) ==
  /\ worker[w].pc # "down"
  /\ Rest(w, "down")
  /\ UNCHANGED <<job, facts, recovered>>

(* 300 seconds pass since the job was claimed. *)
JobGrowsOld(j) ==
  /\ job[j].status = "processing" /\ ~job[j].old
  /\ job' = [job EXCEPT ![j].old = TRUE]
  /\ UNCHANGED <<facts, recovered, worker>>

-----------------------------------------------------------------------------
Step(w) ==
  \/ LoadState(w) \/ CheckEligibility(w) \/ MarkCancelled(w) \/ MarkDead(w)
  \/ SendReminder(w) \/ RecordReminder(w) \/ MarkCompleted(w)
  \/ RecordEvent(w) \/ MarkRetry(w)

Surroundings ==
  \/ SendQuotation \/ ScheduleFollowups \/ Reply \/ GraphCancels \/ OrderWon \/ CloseLost
  \/ ReopenLead \/ UpdateCheckpoint
  \/ \E j \in Followups : CancelJob(j) \/ JobGrowsOld(j)

Calm ==
  \/ Surroundings
  \/ \E w \in Workers :
       \/ StartWorker(w) \/ Reconcile(w) \/ Step(w) \/ StepFails(w)
       \/ \E j \in Followups : ClaimDueJob(w, j)

Next ==
  \/ Calm
  \/ \E j \in Followups : RetryJob(j)
  \/ \E w \in Workers : Crash(w)

Spec == Init /\ [][Next]_vars

-----------------------------------------------------------------------------
(* Safety *)

(* A job that says its reminder was sent has the record of it, and a record  *)
(* stands for a reminder the provider took: also after takeovers, repeated   *)
(* recordings and updates by workers that no longer own the job.             *)
CompletedWasSent ==
  \A j \in Followups :
    /\ job[j].status = "completed" => j \in record
    /\ j \in record => sends[j] > 0

(* Jobs that were cancelled can be revived (by the worker that still held    *)
(* them, or by an operator), but no run that starts after the customer has   *)
(* replied, or after the reminder was recorded, sends one.                   *)
NoLateReminder ==
  \A w \in Workers : worker[w].late => worker[w].pc \notin {"send", "record"}

(* Points at which a worker may still write the job it claimed. *)
Holding == TryPoints \cup {"retry"}

(* Two workers only ever send the same reminder at the same time if the job  *)
(* was recovered from a worker that had it for 300 seconds.                  *)
OneSender ==
  \A v, w \in Workers :
    /\ worker[v].pc \in {"send", "record"}
    /\ worker[w].pc \in {"send", "record"}
    /\ worker[v].job = worker[w].job
    /\ worker[v].job \notin recovered
    => v = w

(* The inductive invariant. A late worker has seen the reply or the record; *)
(* a thread without a checkpoint gets no reminder at all; and the job of a   *)
(* worker that may still write it is not free to be claimed by another.      *)
SoundWorker(w) ==
  LET j == worker[w].job IN
  /\ worker[w].pc \in Holding \cup {"dead_event"} => j \in Followups
  /\ worker[w].late => replied \/ j \in record
  /\ worker[w].pc = "record" => sends[j] > 0
  /\ worker[w].pc = "complete" => j \in record
  /\ worker[w].pc = "dead" => thread = "missing"
  /\ worker[w].pc \in {"check", "send", "record", "complete"} => thread # "missing"

WorkersAreSound == \A w \in Workers : SoundWorker(w)

HeldIsTaken ==
  thread = "missing" \/
  \A w \in Workers :
    LET j == worker[w].job IN
    worker[w].pc \in Holding /\ j \notin recovered =>
      job[j].status \in {"processing", "completed", "cancelled"}

OneHolder ==
  thread = "missing" \/
  \A v, w \in Workers :
    /\ worker[v].pc \in Holding /\ worker[w].pc \in Holding
    /\ worker[v].job = worker[w].job
    /\ worker[v].job \notin recovered
    => v = w

FollowUpInv ==
  /\ TypeOK
  /\ WorkersAreSound
  /\ HeldIsTaken
  /\ OneHolder
  /\ CompletedWasSent
  /\ NoLateReminder
  /\ OneSender

-----------------------------------------------------------------------------
(* Liveness: the event loop runs every worker it has started, and neither a  *)
(* crash nor a failed _mark_retry stops one; operators retry no job.         *)
Fairness ==
  /\ \A w \in Workers :
       WF_vars(Step(w)) /\ WF_vars(StartWorker(w)) /\ WF_vars(Reconcile(w))
  /\ \A j \in Followups : SF_vars(\E w \in Workers : ClaimDueJob(w, j))

CalmSpec == Init /\ [][Calm]_vars /\ Fairness

(* Whoever fails, takes over or revives it, a job is finally completed,      *)
(* cancelled or dead, and stays so.                                          *)
EveryFollowUpSettles ==
  \A j \in Followups :
    job[j].status # "absent" ~> [](job[j].status \in {"completed", "cancelled", "dead"})
=============================================================================
