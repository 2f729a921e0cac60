----------------------------- MODULE ChannelJobs -----------------------------
(***************************************************************************)
(* How a provider event becomes a sales conversation: the durable inbound   *)
(* job and its workers (app/channels/jobs.py), the ingestion service that   *)
(* runs the sales graph (app/channels/service.py), called by a worker or    *)
(* directly by a website request, and the idempotency claim both go through *)
(* (app/idempotency/service.py).                                            *)
(*                                                                          *)
(* Every database transaction and the graph call are actions of their own.  *)
(* Retry backoff only delays a pending job: any pending job may be due.     *)
(***************************************************************************)
EXTENDS Naturals

CONSTANTS
  JobEvents,    \* email and WhatsApp events, delivered through a durable job
  WebEvents,    \* website submissions, ingested by the request itself
  Workers,      \* worker loops, one per application process
  Clients,      \* website requests, which call ingest themselves
  MaxAttempts,  \* channel_inbound_jobs.max_attempts
  MaxClaims,    \* bound: attempts a job ever gets
  None          \* no event

(* Each is a (business, channel, provider, external_event_id). *)
Events == JobEvents \cup WebEvents
Tasks == Workers \cup Clients

ASSUME ConstantsAssumption ==
  /\ Workers \cap Clients = {}
  /\ JobEvents \cap WebEvents = {}
  /\ None \notin Events
  /\ MaxAttempts \in Nat \ {0}
  /\ MaxClaims \in Nat

VARIABLES
  job,        \* channel_inbound_jobs
  claim,      \* processed_events of "/channels/ingest"
  ingestion,  \* channel_ingestions.status
  runs,       \* how often the sales graph was started for an event
  answered,   \* events whose graph run returned without an error
  task        \* workers and website requests in flight

rows == <<job, claim, ingestion>>
graph == <<runs, answered>>
vars == <<job, claim, ingestion, runs, answered, task>>

-----------------------------------------------------------------------------
(* Types *)

JobStatuses == {"absent", "pending", "processing", "completed", "failed"}
JobType == [status : JobStatuses, attempts : Nat, old : BOOLEAN]

(* What a task does next; "idle" waits for work, "down" is a stopped worker. *)
TryPoints == {"claim", "continue", "insert", "invoke", "running", "finish",
              "complete", "fail_ingestion", "fail_claim", "done"}
Points == TryPoints \cup {"idle", "down", "settle"}
TaskType == [pc : Points, event : Events \cup {None}, attempt : Nat,
             error : {"none", "retryable", "terminal"}]

Waiting == [pc |-> "idle", event |-> None, attempt |-> 0, error |-> "none"]
Stopped == [Waiting EXCEPT !.pc = "down"]

TypeOK ==
  /\ job \in [Events -> JobType]
  /\ claim \in [Events -> {"none", "processing", "stale", "failed", "completed"}]
  /\ ingestion \in [Events -> {"none", "processing", "completed", "failed"}]
  /\ runs \in [Events -> Nat]
  /\ answered \subseteq Events
  /\ task \in [Tasks -> TaskType]

Init ==
  /\ job = [e \in Events |-> [status |-> "absent", attempts |-> 0, old |-> FALSE]]
  /\ claim = [e \in Events |-> "none"]
  /\ ingestion = [e \in Events |-> "none"]
  /\ runs = [e \in Events |-> 0]
  /\ answered = {}
  /\ task = [t \in Tasks |-> IF t \in Workers THEN Stopped ELSE Waiting]

-----------------------------------------------------------------------------
(* Helpers *)

Goto(t, point) == task' = [task EXCEPT ![t].pc = point]
Rest(t) == task' = [task EXCEPT ![t] = Waiting]

(* Where an exception is caught. ingest fails its ingestion row only after   *)
(* inserting it, and its claim only after getting it; what leaves ingest is  *)
(* settled by process_one, or answered as an error to the website request.   *)
CaughtAt(point) ==
  CASE point \in {"invoke", "running", "finish", "complete"} -> "fail_ingestion"
    [] point \in {"continue", "insert"}                      -> "fail_claim"
    [] OTHER                                                 -> "settle"

Fail(t, point, error) ==
  IF point = "settle" /\ t \in Clients THEN Rest(t)
  ELSE task' = [task EXCEPT ![t].pc = point, ![t].error = error]

Raise(t, error) == Fail(t, CaughtAt(task[t].pc), error)

(* claim_request succeeds: a new claim, a failed one, or one locked 900 s ago. *)
Free(e) == claim[e] \in {"none", "failed", "stale"}

-----------------------------------------------------------------------------
(* The durable job: ChannelJobService *)

(* enqueue: a second delivery of the event finds the first one's row. *)
Enqueue(e) ==
  /\ e \in JobEvents /\ job[e].status = "absent"
  /\ job' = [job EXCEPT ![e].status = "pending"]
  /\ UNCHANGED <<claim, ingestion, graph, task>>

(* run recovers stale jobs once, when it starts, then loops. *)
Recoverable(e) == job[e].status = "processing" /\ job[e].old

StartWorker(w) ==
  /\ w \in Workers /\ task[w].pc = "down"
  /\ job' = [e \in Events |->
       IF Recoverable(e) THEN [job[e] EXCEPT !.status = "pending", !.old = FALSE]
       ELSE job[e]]
  /\ Rest(w)
  /\ UNCHANGED <<claim, ingestion, graph>>

ClaimJob(w, e) ==
  /\ w \in Workers /\ task[w].pc = "idle"
  /\ job[e].status = "pending"
  /\ job[e].attempts < MaxClaims
  /\ job' = [job EXCEPT ![e] =
       [status |-> "processing", attempts |-> @.attempts + 1, old |-> FALSE]]
  /\ task' = [task EXCEPT ![w] =
       [pc |-> "claim", event |-> e, attempt |-> job[e].attempts + 1, error |-> "none"]]
  /\ UNCHANGED <<claim, ingestion, graph>>

(* The success update of process_one, whatever became of the job meanwhile. *)
CompleteJob(t) ==
  /\ task[t].pc = "done"
  /\ IF t \in Workers
     THEN job' = [job EXCEPT ![task[t].event] = [@ EXCEPT !.status = "completed", !.old = FALSE]]
     ELSE UNCHANGED job
  /\ Rest(t)
  /\ UNCHANGED <<claim, ingestion, graph>>

Settled(t) ==
  IF task[t].error = "terminal" \/ task[t].attempt >= MaxAttempts THEN "failed" ELSE "pending"

(* The failure update of process_one, as unconditional as the other. *)
SettleJob(t) ==
  /\ task[t].pc = "settle"
  /\ job' = [job EXCEPT ![task[t].event] = [@ EXCEPT !.status = Settled(t), !.old = FALSE]]
  /\ Rest(t)
  /\ UNCHANGED <<claim, ingestion, graph>>

-----------------------------------------------------------------------------
(* ChannelIngestionService.ingest *)

(* The website endpoint calls ingest in the request itself. *)
Submit(c, e) ==
  /\ c \in Clients /\ e \in WebEvents /\ task[c].pc = "idle"
  /\ task' = [task EXCEPT ![c] = [Waiting EXCEPT !.pc = "claim", !.event = e]]
  /\ UNCHANGED <<rows, graph>>

(* A completed claim answers from its stored response, a live one raises. *)
ClaimRequest(t) ==
  LET e == task[t].event IN
  /\ task[t].pc = "claim"
  /\ IF Free(e) THEN claim' = [claim EXCEPT ![e] = "processing"] /\ Goto(t, "continue")
     ELSE /\ UNCHANGED claim
          /\ IF claim[e] = "completed" THEN Goto(t, "done") ELSE Raise(t, "retryable")
  /\ UNCHANGED <<job, ingestion, graph>>

(* _continuation_state finds the open thread; two candidates are terminal. *)
FindThread(t) ==
  /\ task[t].pc = "continue"
  /\ Goto(t, "insert") \/ Raise(t, "terminal")
  /\ UNCHANGED <<rows, graph>>

(* The ingestion row is unique per event: an event with one is refused.      *)
MutantMayIngest(e) == ingestion[e] \in {"none", "failed"}
MayIngest(e) == ingestion[e] = "none"

InsertIngestion(t) ==
  LET e == task[t].event IN
  /\ task[t].pc = "insert"
  /\ IF MayIngest(e)
     THEN ingestion' = [ingestion EXCEPT ![e] = "processing"] /\ Goto(t, "invoke")
     ELSE UNCHANGED ingestion /\ Raise(t, "terminal")
  /\ UNCHANGED <<job, claim, graph>>

InvokeGraph(t) ==
  /\ task[t].pc = "invoke"
  /\ runs' = [runs EXCEPT ![task[t].event] = @ + 1]
  /\ Goto(t, "running")
  /\ UNCHANGED <<rows, answered>>

(* The graph returns a result, or one with an error, which is terminal. *)
Answer(t) == answered' = answered \cup {task[t].event} /\ Goto(t, "finish")

GraphReturns(t) ==
  /\ task[t].pc = "running"
  /\ Answer(t) \/ (UNCHANGED answered /\ Raise(t, "terminal"))
  /\ UNCHANGED <<rows, runs>>

FinishIngestion(t) ==
  /\ task[t].pc = "finish"
  /\ ingestion' = [ingestion EXCEPT ![task[t].event] = "completed"]
  /\ Goto(t, "complete")
  /\ UNCHANGED <<job, claim, graph>>

(* complete_request and fail_request write whoever holds the claim by now. *)
CompleteClaim(t) ==
  /\ task[t].pc = "complete"
  /\ claim' = [claim EXCEPT ![task[t].event] = "completed"]
  /\ Goto(t, "done")
  /\ UNCHANGED <<job, ingestion, graph>>

FailIngestion(t) ==
  /\ task[t].pc = "fail_ingestion"
  /\ ingestion' = [ingestion EXCEPT ![task[t].event] = "failed"]
  /\ Goto(t, "fail_claim")
  /\ UNCHANGED <<job, claim, graph>>

FailClaim(t) ==
  /\ task[t].pc = "fail_claim"
  /\ claim' = [claim EXCEPT ![task[t].event] = "failed"]
  /\ Fail(t, "settle", task[t].error)
  /\ UNCHANGED <<job, ingestion, graph>>

-----------------------------------------------------------------------------
(* Failure and time *)

(* An exception before the step's transaction commits (database, network, a  *)
(* node of the graph). It is no GraphExecutionError, so it may be retried.   *)
StepFails(t) ==
  /\ task[t].pc \in TryPoints
  /\ Raise(t, "retryable")
  /\ UNCHANGED <<rows, graph>>

(* The process dies or cancels its tasks on shutdown; a failure of the last  *)
(* update of process_one ends the worker's loop as well.                     *)
Crash(t) ==
  /\ task[t].pc \notin {"idle", "down"}
  /\ task' = [task EXCEPT ![t] = IF t \in Workers THEN Stopped ELSE Waiting]
  /\ UNCHANGED <<rows, graph>>

(* 300 seconds pass since the job was claimed, 900 since the claim was. *)
JobGrowsOld(e) ==
  /\ job[e].status = "processing" /\ ~job[e].old
  /\ job' = [job EXCEPT ![e].old = TRUE]
  /\ UNCHANGED <<claim, ingestion, graph, task>>

ClaimGoesStale(e) ==
  /\ claim[e] = "processing"
  /\ claim' = [claim EXCEPT ![e] = "stale"]
  /\ UNCHANGED <<job, ingestion, graph, task>>

-----------------------------------------------------------------------------
Step(t) ==
  \/ ClaimRequest(t) \/ FindThread(t) \/ InsertIngestion(t) \/ InvokeGraph(t)
  \/ GraphReturns(t) \/ FinishIngestion(t) \/ CompleteClaim(t)
  \/ FailIngestion(t) \/ FailClaim(t) \/ CompleteJob(t) \/ SettleJob(t)

Calm ==
  \/ \E e \in Events : Enqueue(e) \/ JobGrowsOld(e) \/ ClaimGoesStale(e)
  \/ \E w \in Workers : StartWorker(w) \/ \E e \in Events : ClaimJob(w, e)
  \/ \E c \in Clients, e \in Events : Submit(c, e)
  \/ \E t \in Tasks : Step(t) \/ StepFails(t)

Next == Calm \/ \E t \in Tasks : Crash(t)

Spec == Init /\ [][Next]_vars

-----------------------------------------------------------------------------
(* Safety *)

(* "A provider event ID is unique, so provider retries do not create         *)
(* duplicate leads": whatever is redelivered, retried, recovered or taken    *)
(* over, the sales graph is started at most once for an event.               *)
AtMostOneGraphRun == \A e \in Events : runs[e] <= 1

(* Success is never reported for nothing: a claim with a stored response, a  *)
(* completed job or a completed ingestion has a graph run that answered.     *)
SuccessIsReal ==
  \A e \in Events :
    /\ claim[e] = "completed" => ingestion[e] = "completed"
    /\ job[e].status = "completed" => ingestion[e] = "completed"
    /\ ingestion[e] = "completed" => e \in answered

(* The points at which a task owns the ingestion row it has inserted. *)
Owning == {"invoke", "running", "finish", "complete", "fail_ingestion"}

(* A task knows its event, and the rows say how far it has brought it. *)
SoundTask(t) ==
  LET e == task[t].event IN
  /\ task[t].pc \in TryPoints \cup {"settle"} => e \in Events
  /\ task[t].pc = "settle" => t \in Workers
  /\ task[t].pc = "invoke" => runs[e] = 0
  /\ task[t].pc \in {"invoke", "running", "finish"} => ingestion[e] = "processing"
  /\ task[t].pc \in {"finish", "complete"} => e \in answered
  /\ task[t].pc \in {"complete", "done"} => ingestion[e] = "completed"
  /\ task[t].pc \in Owning =>
       /\ ingestion[e] # "none"
       /\ claim[e] # "completed"
       /\ job[e].status # "completed"

TasksAreSound == \A t \in Tasks : SoundTask(t)

(* While a task owns the ingestion of an event, no other owns it as well or  *)
(* is about to report success for it.                                        *)
OwnerIsAlone ==
  \A t, u \in Tasks :
    /\ task[t].pc \in Owning
    /\ task[u].pc \in Owning \cup {"done"}
    /\ task[u].event = task[t].event
    => u = t

NoRunUnrecorded == \A e \in Events : ingestion[e] = "none" => runs[e] = 0

(* The inductive invariant behind the two properties. *)
IngestionInv ==
  /\ TypeOK
  /\ TasksAreSound
  /\ OwnerIsAlone
  /\ NoRunUnrecorded
  /\ AtMostOneGraphRun
  /\ SuccessIsReal

-----------------------------------------------------------------------------
(* Retries end: however its attempts fail and whoever takes it over, a job   *)
(* is finally completed or failed and stays so.                              *)
JobSettles(e) ==
  job[e].status # "absent" ~> [](job[e].status \in {"completed", "failed"})
=============================================================================
