------------------------- MODULE ChannelFlow_proofs -------------------------
(***************************************************************************)
(* Proofs about the channels, for any number of events, workers, pollers,   *)
(* webhooks and attempts.                                                   *)
(*                                                                          *)
(* The jobs: everything follows from IngestionInv: the unique ingestion row *)
(* makes one task the owner of an event, and only an owner starts the graph *)
(* or reports that it answered.                                             *)
(*                                                                          *)
(* The intake: IntakeInv says of every cursor that is stored, or that a     *)
(* poller holds however old it is, that all up to it is accounted for, and  *)
(* of every message fetched that all before it is accounted for or fetched  *)
(* as well.                                                                 *)
(***************************************************************************)
EXTENDS ChannelFlow, FiniteSetTheorems, SequenceTheorems, NaturalsInduction,
        WellFoundedInduction, TLAPS

-----------------------------------------------------------------------------
(* How a task moves *)

Alone(t) ==
  /\ task' \in [Tasks -> TaskType]
  /\ \A u \in Tasks \ {t} : task'[u] = task[u]

(* Task t goes on with its event at another point. *)
MovesTo(t, point) ==
  /\ Alone(t)
  /\ task'[t].pc = point /\ task'[t].event = task[t].event

(* Task t lets go of its event. *)
Ends(t) == Alone(t) /\ task'[t].pc \in {"idle", "down"}

Errors == {"none", "retryable", "terminal"}

LEMMA GotoMoves ==
  ASSUME TypeOK, NEW t \in Tasks, NEW point \in Points, Goto(t, point)
  PROVE  MovesTo(t, point)
PROOF
  BY DEF TypeOK, Goto, MovesTo, Alone, TaskType

LEMMA RestEnds ==
  ASSUME TypeOK, NEW t \in Tasks, Rest(t)
  PROVE  Ends(t)
PROOF
  BY DEF TypeOK, Rest, Waiting, Ends, Alone, TaskType, Points

(* An exception moves a task to a handler, or ends a website request. *)
LEMMA FailMoves ==
  ASSUME TypeOK, NEW t \in Tasks, NEW point \in Points, NEW error \in Errors,
         Fail(t, point, error)
  PROVE  Ends(t) \/ (MovesTo(t, point) /\ (point = "settle" => t \in Workers))
PROOF
  <1>1. CASE point = "settle" /\ t \in Clients
    BY <1>1, RestEnds DEF Fail
  <1>2. CASE ~(point = "settle" /\ t \in Clients)
    <2> DEFINE new == [task[t] EXCEPT !.pc = point, !.error = error]
    <2>1. new \in TaskType /\ new.pc = point /\ new.event = task[t].event
      BY DEF TypeOK, TaskType, Errors
    <2>2. task' = [task EXCEPT ![t] = new]
      BY <1>2 DEF Fail
    <2> HIDE DEF new
    <2>3. MovesTo(t, point)
      BY <2>1, <2>2 DEF TypeOK, MovesTo, Alone
    <2> QED
      BY <1>2, <2>3 DEF Tasks
  <1> QED
    BY <1>1, <1>2

(* Where each exception is caught. *)
LEMMA RaiseMoves ==
  ASSUME TypeOK, NEW t \in Tasks, NEW error \in Errors, Raise(t, error)
  PROVE  \/ Ends(t)
         \/ /\ MovesTo(t, "fail_ingestion")
            /\ task[t].pc \in {"invoke", "running", "finish", "complete"}
         \/ MovesTo(t, "fail_claim") /\ task[t].pc \in {"continue", "insert"}
         \/ MovesTo(t, "settle") /\ t \in Workers
PROOF
  <1>1. CaughtAt(task[t].pc) \in {"fail_ingestion", "fail_claim", "settle"}
    BY DEF CaughtAt
  <1>2. CaughtAt(task[t].pc) \in Points
    BY <1>1 DEF Points, TryPoints
  <1>3. Ends(t) \/ (MovesTo(t, CaughtAt(task[t].pc)) /\ (CaughtAt(task[t].pc) = "settle" => t \in Workers))
    BY <1>2, FailMoves DEF Raise
  <1> QED
    BY <1>1, <1>3 DEF CaughtAt

-----------------------------------------------------------------------------
(* Steps that gain nothing: no ingestion is written, no run started, and no  *)
(* claim or job becomes completed. The invariant only follows the task.      *)

Starts(t) ==
  Alone(t) /\ task'[t].pc = "claim" /\ task'[t].event \in Events

Moves(t) ==
  \/ Ends(t) \/ Starts(t)
  \/ /\ task[t].event \in Events
     /\ \/ MovesTo(t, "settle") /\ t \in Workers
        \/ \E point \in TryPoints \ (Owning \cup {"done"}) : MovesTo(t, point)
        \/ MovesTo(t, "fail_ingestion") /\ task[t].pc \in Owning
        \/ MovesTo(t, "done") /\ claim[task[t].event] = "completed"

NothingGained ==
  /\ job' \in [Events -> JobType]
  /\ claim' \in [Events -> {"none", "processing", "stale", "failed", "completed"}]
  /\ UNCHANGED <<ingestion, graph>>
  /\ \A e \in Events :
       /\ claim'[e] = "completed" => claim[e] = "completed"
       /\ job'[e].status = "completed" => job[e].status = "completed"

LEMMA MovingPreserves ==
  ASSUME IngestionInv, NothingGained, NEW t \in Tasks, Moves(t)
  PROVE  IngestionInv'
PROOF
  <1> USE DEF NothingGained, graph
  <1>1. TypeOK'
    BY DEF IngestionInv, TypeOK, Moves, Starts, Ends, MovesTo, Alone
  <1>2. NoRunUnrecorded' /\ AtMostOneGraphRun' /\ SuccessIsReal'
    BY DEF IngestionInv, NoRunUnrecorded, AtMostOneGraphRun, SuccessIsReal
  <1>3. ASSUME NEW u \in Tasks PROVE SoundTask(u)'
    <2>1. CASE u # t
      <3>1. task'[u] = task[u]
        BY <2>1 DEF Moves, Starts, Ends, MovesTo, Alone
      <3>2. SoundTask(u)
        BY DEF IngestionInv, TasksAreSound
      <3> QED
        BY <3>1, <3>2 DEF SoundTask, Owning, TryPoints
    <2>2. CASE u = t
      <3>1. SoundTask(t)
        BY DEF IngestionInv, TasksAreSound
      <3>2. CASE Ends(t) \/ Starts(t)
        BY <2>2, <3>2 DEF SoundTask, Starts, Ends, Alone, Owning, TryPoints
      <3>3. CASE task[t].event \in Events /\ ~Ends(t) /\ ~Starts(t)
        BY <2>2, <3>1, <3>3 DEF Moves, SoundTask, IngestionInv, SuccessIsReal, MovesTo, Owning, TryPoints
      <3> QED
        BY <3>2, <3>3 DEF Moves
    <2> QED
      BY <2>1, <2>2
  <1>4. OwnerIsAlone'
    <2> SUFFICES ASSUME NEW u \in Tasks, NEW v \in Tasks, task'[u].pc \in Owning,
                        task'[v].pc \in Owning \cup {"done"}, task'[v].event = task'[u].event
                 PROVE  v = u
      BY DEF OwnerIsAlone
    <2>0. \A x \in Tasks \ {t} : task'[x] = task[x]
      BY DEF Moves, Starts, Ends, MovesTo, Alone
    <2>1. CASE u # t /\ v # t
      BY <2>0, <2>1 DEF IngestionInv, OwnerIsAlone
    <2>2. CASE u = t
      <3>1. MovesTo(t, "fail_ingestion") /\ task[t].pc \in Owning
        BY <2>2 DEF Moves, Starts, Ends, MovesTo, Owning, TryPoints
      <3> QED
        BY <2>0, <2>2, <3>1 DEF IngestionInv, OwnerIsAlone, MovesTo
    <2>3. CASE v = t /\ u # t
      <3>1. \/ MovesTo(t, "fail_ingestion") /\ task[t].pc \in Owning
            \/ MovesTo(t, "done") /\ claim[task[t].event] = "completed"
        BY <2>3 DEF Moves, Starts, Ends, MovesTo, Owning, TryPoints
      <3>2. task'[u] = task[u]
        BY <2>0, <2>3
      <3> QED
        BY <2>3, <3>1, <3>2 DEF IngestionInv, OwnerIsAlone, TasksAreSound, SoundTask, MovesTo
    <2> QED
      BY <2>1, <2>2, <2>3
  <1> QED
    BY <1>1, <1>2, <1>3, <1>4 DEF IngestionInv, TasksAreSound

LEMMA WaitingPreserves ==
  ASSUME IngestionInv, NothingGained, UNCHANGED task
  PROVE  IngestionInv'
PROOF
  <1> USE DEF NothingGained, graph
  <1>1. TypeOK' /\ OwnerIsAlone'
    BY DEF IngestionInv, TypeOK, OwnerIsAlone
  <1>2. NoRunUnrecorded' /\ AtMostOneGraphRun' /\ SuccessIsReal'
    BY DEF IngestionInv, NoRunUnrecorded, AtMostOneGraphRun, SuccessIsReal
  <1>3. ASSUME NEW u \in Tasks PROVE SoundTask(u)'
    <2>1. SoundTask(u)
      BY DEF IngestionInv, TasksAreSound
    <2> QED
      BY <2>1 DEF SoundTask, Owning, TryPoints
  <1> QED
    BY <1>1, <1>2, <1>3 DEF IngestionInv, TasksAreSound

-----------------------------------------------------------------------------
(* The steps of an owner *)

(* Only an event without an ingestion row gets one, and an owner with it. *)
LEMMA InsertPreserves ==
  ASSUME IngestionInv, NEW t \in Tasks, InsertIngestion(t), MayIngest(task[t].event)
  PROVE  IngestionInv'
PROOF
  <1> DEFINE e == task[t].event
  <1>1. e \in Events
    BY DEF IngestionInv, TasksAreSound, SoundTask, InsertIngestion, TryPoints
  <1>2. MovesTo(t, "invoke") /\ ingestion' = [ingestion EXCEPT ![e] = "processing"]
    BY GotoMoves DEF InsertIngestion, IngestionInv, Points, TryPoints
  <1>3. UNCHANGED <<job, claim, runs, answered>>
    BY DEF InsertIngestion, graph
  <1>4. ingestion[e] = "none" /\ runs[e] = 0 /\ claim[e] # "completed" /\ job[e].status # "completed"
    BY <1>1 DEF MayIngest, IngestionInv, NoRunUnrecorded, SuccessIsReal
  <1> HIDE DEF e
  <1>5. TypeOK'
    BY <1>2, <1>3 DEF IngestionInv, TypeOK, MovesTo, Alone
  <1>6. NoRunUnrecorded' /\ AtMostOneGraphRun' /\ SuccessIsReal'
    BY <1>1, <1>2, <1>3, <1>4 DEF IngestionInv, TypeOK, NoRunUnrecorded, AtMostOneGraphRun, SuccessIsReal
  <1>7. ASSUME NEW u \in Tasks, u # t
        PROVE  /\ task'[u] = task[u]
               /\ task[u].pc \in Owning \cup {"done"} => task[u].event # e
    <2>1. SoundTask(u)
      BY DEF IngestionInv, TasksAreSound
    <2> QED
      BY <1>2, <1>4, <1>7, <2>1 DEF MovesTo, Alone, SoundTask
  <1>8. ASSUME NEW u \in Tasks PROVE SoundTask(u)'
    <2>1. CASE u # t
      <3>1. SoundTask(u)
        BY DEF IngestionInv, TasksAreSound
      <3> QED
        BY <1>1, <1>2, <1>3, <1>7, <2>1, <3>1 DEF SoundTask, Owning, TryPoints, IngestionInv, TypeOK
    <2>2. CASE u = t
      BY <1>1, <1>2, <1>3, <1>4, <2>2 DEF SoundTask, MovesTo, Owning, TryPoints, IngestionInv, TypeOK, e
    <2> QED
      BY <2>1, <2>2
  <1>9. OwnerIsAlone'
    BY <1>2, <1>7 DEF IngestionInv, OwnerIsAlone, MovesTo, Owning, e
  <1> QED
    BY <1>5, <1>6, <1>8, <1>9 DEF IngestionInv, TasksAreSound

(* An owner may rewrite the rows of its own event: no other task relies on   *)
(* them, as long as the owner's own claims about them hold again.            *)
OnlyItsEvent(t) ==
  \A x \in Events \ {task[t].event} :
    /\ job'[x] = job[x] /\ claim'[x] = claim[x] /\ ingestion'[x] = ingestion[x]
    /\ runs'[x] = runs[x]
    /\ (x \in answered') = (x \in answered)

LEMMA OwnerPreserves ==
  ASSUME IngestionInv, NEW t \in Tasks, task[t].pc \in Owning, NEW point \in Points,
         MovesTo(t, point), OnlyItsEvent(t), TypeOK', SoundTask(t)',
         ingestion'[task[t].event] # "none", runs'[task[t].event] <= 1,
         SuccessIsReal'
  PROVE  IngestionInv'
PROOF
  <1> DEFINE e == task[t].event
  <1>1. e \in Events
    BY DEF IngestionInv, TasksAreSound, SoundTask, Owning, TryPoints
  <1>2. task'[t].event = e /\ \A u \in Tasks \ {t} : task'[u] = task[u]
    BY DEF MovesTo, Alone
  <1>3. NoRunUnrecorded' /\ AtMostOneGraphRun'
    BY DEF IngestionInv, NoRunUnrecorded, AtMostOneGraphRun, OnlyItsEvent
  <1>4. ASSUME NEW u \in Tasks \ {t}, task[u].event = e
        PROVE  task[u].pc \notin Owning \cup {"done"}
    BY <1>4 DEF IngestionInv, OwnerIsAlone
  <1> HIDE DEF e
  <1>5. ASSUME NEW u \in Tasks \ {t} PROVE SoundTask(u)'
    <2>1. SoundTask(u)
      BY DEF IngestionInv, TasksAreSound
    <2>2. CASE task[u].event = e
      <3>1. task'[u].pc \notin Owning \cup {"done"}
        BY <1>2, <1>4, <2>2
      <3>2. task'[u].pc \in TryPoints \cup {"settle"} => task'[u].event \in Events
        BY <1>2, <2>1 DEF SoundTask
      <3>3. task'[u].pc = "settle" => u \in Workers
        BY <1>2, <2>1 DEF SoundTask
      <3> QED
        BY <3>1, <3>2, <3>3 DEF SoundTask, Owning
    <2>3. CASE task[u].event # e
      <3>1. CASE task[u].event \in Events
        BY <1>2, <2>1, <2>3, <3>1 DEF SoundTask, OnlyItsEvent, e
      <3>2. CASE task[u].event \notin Events
        BY <1>2, <2>1, <3>2 DEF SoundTask, TryPoints, Owning
      <3> QED
        BY <3>1, <3>2
    <2> QED
      BY <2>2, <2>3
  <1>6. OwnerIsAlone'
    <2> SUFFICES ASSUME NEW u \in Tasks, NEW v \in Tasks, task'[u].pc \in Owning,
                        task'[v].pc \in Owning \cup {"done"}, task'[v].event = task'[u].event
                 PROVE  v = u
      BY DEF OwnerIsAlone
    <2>1. CASE u = t \/ v = t
      BY <1>2, <1>4, <2>1
    <2>2. CASE u # t /\ v # t
      BY <1>2, <2>2 DEF IngestionInv, OwnerIsAlone
    <2> QED
      BY <2>1, <2>2
  <1> QED
    BY <1>3, <1>5, <1>6 DEF IngestionInv, TasksAreSound

LEMMA InvokePreserves ==
  ASSUME IngestionInv, NEW t \in Tasks, InvokeGraph(t)
  PROVE  IngestionInv'
PROOF
  <1> DEFINE e == task[t].event
  <1>1. task[t].pc = "invoke" /\ e \in Events /\ SoundTask(t)
    BY DEF IngestionInv, TasksAreSound, SoundTask, InvokeGraph, TryPoints
  <1>2. MovesTo(t, "running")
    BY GotoMoves DEF InvokeGraph, IngestionInv, Points, TryPoints
  <1>3. runs' = [runs EXCEPT ![e] = @ + 1] /\ UNCHANGED <<job, claim, ingestion, answered>>
    BY DEF InvokeGraph, rows
  <1>4. runs[e] = 0 /\ runs'[e] = 1
    BY <1>1, <1>3 DEF SoundTask, IngestionInv, TypeOK
  <1>5. TypeOK' /\ OnlyItsEvent(t)
    BY <1>1, <1>2, <1>3 DEF IngestionInv, TypeOK, MovesTo, Alone, OnlyItsEvent
  <1>6. SoundTask(t)' /\ SuccessIsReal'
    BY <1>1, <1>2, <1>3 DEF SoundTask, MovesTo, Owning, TryPoints, IngestionInv, SuccessIsReal
  <1>7. ingestion'[e] # "none"
    BY <1>1, <1>3 DEF SoundTask, Owning
  <1> QED
    BY <1>1, <1>2, <1>4, <1>5, <1>6, <1>7, OwnerPreserves DEF Owning, Points, TryPoints

LEMMA AnswerPreserves ==
  ASSUME IngestionInv, NEW t \in Tasks, task[t].pc = "running", Answer(t), UNCHANGED <<rows, runs>>
  PROVE  IngestionInv'
PROOF
  <1> DEFINE e == task[t].event
  <1>1. e \in Events /\ SoundTask(t)
    BY DEF IngestionInv, TasksAreSound, SoundTask, TryPoints
  <1>2. MovesTo(t, "finish")
    BY GotoMoves DEF Answer, IngestionInv, Points, TryPoints
  <1>3. answered' = answered \cup {e} /\ UNCHANGED <<job, claim, ingestion, runs>>
    BY DEF Answer, rows
  <1>4. TypeOK' /\ OnlyItsEvent(t)
    BY <1>1, <1>2, <1>3 DEF IngestionInv, TypeOK, MovesTo, Alone, OnlyItsEvent
  <1>5. SoundTask(t)' /\ SuccessIsReal'
    BY <1>1, <1>2, <1>3 DEF SoundTask, MovesTo, Owning, TryPoints, IngestionInv, SuccessIsReal
  <1>6. ingestion'[e] # "none" /\ runs'[e] <= 1
    BY <1>1, <1>3 DEF SoundTask, Owning, IngestionInv, AtMostOneGraphRun
  <1> QED
    BY <1>2, <1>4, <1>5, <1>6, OwnerPreserves DEF Owning, Points, TryPoints

LEMMA FinishPreserves ==
  ASSUME IngestionInv, NEW t \in Tasks, FinishIngestion(t)
  PROVE  IngestionInv'
PROOF
  <1> DEFINE e == task[t].event
  <1>1. task[t].pc = "finish" /\ e \in Events /\ SoundTask(t)
    BY DEF IngestionInv, TasksAreSound, SoundTask, FinishIngestion, TryPoints
  <1>2. MovesTo(t, "complete")
    BY GotoMoves DEF FinishIngestion, IngestionInv, Points, TryPoints
  <1>3. /\ ingestion' = [ingestion EXCEPT ![e] = "completed"]
        /\ UNCHANGED <<job, claim, runs, answered>>
    BY DEF FinishIngestion, graph
  <1>4. ingestion'[e] = "completed"
    BY <1>1, <1>3 DEF IngestionInv, TypeOK
  <1>5. TypeOK' /\ OnlyItsEvent(t)
    BY <1>1, <1>2, <1>3 DEF IngestionInv, TypeOK, MovesTo, Alone, OnlyItsEvent
  <1>6. SoundTask(t)'
    BY <1>1, <1>2, <1>3, <1>4 DEF SoundTask, MovesTo, Owning, TryPoints
  <1>7. SuccessIsReal'
    BY <1>1, <1>3, <1>4, <1>5 DEF SoundTask, IngestionInv, SuccessIsReal, TypeOK
  <1>8. runs'[e] <= 1
    BY <1>1, <1>3 DEF IngestionInv, AtMostOneGraphRun
  <1> QED
    BY <1>1, <1>2, <1>4, <1>5, <1>6, <1>7, <1>8, OwnerPreserves DEF Owning, Points, TryPoints

LEMMA CompleteClaimPreserves ==
  ASSUME IngestionInv, NEW t \in Tasks, CompleteClaim(t)
  PROVE  IngestionInv'
PROOF
  <1> DEFINE e == task[t].event
  <1>1. task[t].pc = "complete" /\ e \in Events /\ SoundTask(t)
    BY DEF IngestionInv, TasksAreSound, SoundTask, CompleteClaim, TryPoints
  <1>2. MovesTo(t, "done")
    BY GotoMoves DEF CompleteClaim, IngestionInv, Points, TryPoints
  <1>3. /\ claim' = [claim EXCEPT ![e] = "completed"]
        /\ UNCHANGED <<job, ingestion, runs, answered>>
    BY DEF CompleteClaim, graph
  <1>4. ingestion'[e] = "completed"
    BY <1>1, <1>3 DEF SoundTask
  <1>5. TypeOK' /\ OnlyItsEvent(t)
    BY <1>1, <1>2, <1>3 DEF IngestionInv, TypeOK, MovesTo, Alone, OnlyItsEvent
  <1>6. SoundTask(t)'
    BY <1>1, <1>2, <1>3, <1>4 DEF SoundTask, MovesTo, Owning, TryPoints
  <1>7. SuccessIsReal'
    BY <1>1, <1>3, <1>4 DEF IngestionInv, SuccessIsReal, TypeOK
  <1>8. runs'[e] <= 1
    BY <1>1, <1>3 DEF IngestionInv, AtMostOneGraphRun
  <1> QED
    BY <1>1, <1>2, <1>4, <1>5, <1>6, <1>7, <1>8, OwnerPreserves DEF Owning, Points, TryPoints

LEMMA FailIngestionPreserves ==
  ASSUME IngestionInv, NEW t \in Tasks, FailIngestion(t)
  PROVE  IngestionInv'
PROOF
  <1> DEFINE e == task[t].event
  <1>1. task[t].pc = "fail_ingestion" /\ e \in Events /\ SoundTask(t)
    BY DEF IngestionInv, TasksAreSound, SoundTask, FailIngestion, TryPoints
  <1>2. MovesTo(t, "fail_claim")
    BY GotoMoves DEF FailIngestion, IngestionInv, Points, TryPoints
  <1>3. /\ ingestion' = [ingestion EXCEPT ![e] = "failed"]
        /\ UNCHANGED <<job, claim, runs, answered>>
    BY DEF FailIngestion, graph
  <1>4. ingestion'[e] = "failed"
    BY <1>1, <1>3 DEF IngestionInv, TypeOK
  <1>5. TypeOK' /\ OnlyItsEvent(t)
    BY <1>1, <1>2, <1>3 DEF IngestionInv, TypeOK, MovesTo, Alone, OnlyItsEvent
  <1>6. SoundTask(t)'
    BY <1>1, <1>2 DEF SoundTask, MovesTo, Owning, TryPoints
  <1>7. claim[e] # "completed" /\ job[e].status # "completed"
    BY <1>1 DEF SoundTask, Owning
  <1>8. SuccessIsReal'
    BY <1>3, <1>7 DEF IngestionInv, SuccessIsReal, TypeOK
  <1>9. runs'[e] <= 1
    BY <1>1, <1>3 DEF IngestionInv, AtMostOneGraphRun
  <1> QED
    BY <1>1, <1>2, <1>4, <1>5, <1>6, <1>8, <1>9, OwnerPreserves DEF Owning, Points, TryPoints

(* CompleteJob ends the task; only then is the job of an answered event done. *)
LEMMA CompleteJobPreserves ==
  ASSUME IngestionInv, NEW t \in Tasks, CompleteJob(t)
  PROVE  IngestionInv'
PROOF
  <1> DEFINE e == task[t].event
  <1>1. task[t].pc = "done" /\ e \in Events /\ ingestion[e] = "completed" /\ e \in answered
    BY DEF IngestionInv, TasksAreSound, SoundTask, SuccessIsReal, CompleteJob, TryPoints
  <1>2. Ends(t)
    BY RestEnds DEF CompleteJob, IngestionInv
  <1>3. UNCHANGED <<claim, ingestion, runs, answered>>
    BY DEF CompleteJob, graph
  <1>4. job' \in [Events -> JobType] /\ \A x \in Events \ {e} : job'[x] = job[x]
    <2>1. job' = job \/ job' = [job EXCEPT ![e] = [job[e] EXCEPT !.status = "completed", !.old = FALSE]]
      BY DEF CompleteJob
    <2>2. job \in [Events -> JobType] /\ job[e] \in JobType
      BY <1>1 DEF IngestionInv, TypeOK
    <2>3. [job[e] EXCEPT !.status = "completed", !.old = FALSE] \in JobType
      BY <2>2 DEF JobType, JobStatuses
    <2> QED
      BY <2>1, <2>2, <2>3
  <1> HIDE DEF e
  <1>5. TypeOK'
    BY <1>2, <1>3, <1>4 DEF IngestionInv, TypeOK, Ends, Alone
  <1>6. NoRunUnrecorded' /\ AtMostOneGraphRun' /\ SuccessIsReal'
    BY <1>1, <1>3, <1>4 DEF IngestionInv, NoRunUnrecorded, AtMostOneGraphRun, SuccessIsReal
  <1>7. ASSUME NEW u \in Tasks PROVE SoundTask(u)'
    <2>1. CASE u = t
      BY <1>2, <2>1 DEF Ends, SoundTask, Owning, TryPoints
    <2>2. CASE u # t
      <3>1. SoundTask(u) /\ task'[u] = task[u]
        BY <1>2, <2>2 DEF IngestionInv, TasksAreSound, Ends, Alone
      <3>2. task[u].pc \in Owning => task[u].event # e
        BY <1>1, <2>2 DEF IngestionInv, OwnerIsAlone, e
      <3>3. task[u].pc \in Owning => task[u].event \in Events
        BY <3>1 DEF SoundTask, Owning, TryPoints
      <3> QED
        BY <1>3, <1>4, <3>1, <3>2, <3>3 DEF SoundTask
    <2> QED
      BY <2>1, <2>2
  <1>8. OwnerIsAlone'
    BY <1>2 DEF IngestionInv, OwnerIsAlone, Ends, Alone, Owning
  <1> QED
    BY <1>5, <1>6, <1>7, <1>8 DEF IngestionInv, TasksAreSound

-----------------------------------------------------------------------------
(* Every step preserves the invariant. *)

LEMMA RaisePreserves ==
  ASSUME IngestionInv, NEW t \in Tasks, task[t].pc \in TryPoints,
         NEW error \in Errors, Raise(t, error), UNCHANGED <<rows, graph>>
  PROVE  IngestionInv'
PROOF
  <1>1. task[t].event \in Events
    BY DEF IngestionInv, TasksAreSound, SoundTask
  <1>2. Moves(t)
    BY <1>1, RaiseMoves DEF IngestionInv, Moves, Owning, TryPoints
  <1>3. NothingGained
    BY DEF NothingGained, IngestionInv, TypeOK, rows
  <1> QED
    BY <1>2, <1>3, MovingPreserves

LEMMA EnvironmentPreserves ==
  ASSUME IngestionInv, NEW e \in Events, Enqueue(e) \/ JobGrowsOld(e) \/ ClaimGoesStale(e)
  PROVE  IngestionInv'
PROOF
  <1>1. UNCHANGED task /\ UNCHANGED <<ingestion, graph>>
    BY DEF Enqueue, JobGrowsOld, ClaimGoesStale
  <1>2. job' \in [Events -> JobType]
    <2>1. job[e] \in JobType /\ job \in [Events -> JobType]
      BY DEF IngestionInv, TypeOK
    <2>2. [job[e] EXCEPT !.status = "pending"] \in JobType /\ [job[e] EXCEPT !.old = TRUE] \in JobType
      BY <2>1 DEF JobType, JobStatuses
    <2>3. \/ job' = job
          \/ job' = [job EXCEPT ![e] = [job[e] EXCEPT !.status = "pending"]]
          \/ job' = [job EXCEPT ![e] = [job[e] EXCEPT !.old = TRUE]]
      BY DEF Enqueue, JobGrowsOld, ClaimGoesStale
    <2> QED
      BY <2>1, <2>2, <2>3
  <1>3. claim' \in [Events -> {"none", "processing", "stale", "failed", "completed"}]
    BY DEF Enqueue, JobGrowsOld, ClaimGoesStale, IngestionInv, TypeOK
  <1>4. \A x \in Events : /\ claim'[x] = "completed" => claim[x] = "completed"
                          /\ job'[x].status = "completed" => job[x].status = "completed"
    BY DEF Enqueue, JobGrowsOld, ClaimGoesStale, IngestionInv, TypeOK, JobType
  <1> QED
    BY <1>1, <1>2, <1>3, <1>4, WaitingPreserves DEF NothingGained

LEMMA WorkerPreserves ==
  ASSUME IngestionInv, NEW w \in Workers,
         StartWorker(w) \/ \E e \in Events : ClaimJob(w, e)
  PROVE  IngestionInv'
PROOF
  <1>1. w \in Tasks
    BY DEF Tasks
  <1>2. CASE StartWorker(w)
    <2>1. Moves(w)
      BY <1>1, <1>2, RestEnds DEF StartWorker, IngestionInv, Moves
    <2>2. NothingGained
      BY <1>2 DEF StartWorker, Recoverable, NothingGained, IngestionInv, TypeOK, JobType, JobStatuses
    <2> QED
      BY <1>1, <2>1, <2>2, MovingPreserves
  <1>3. ASSUME NEW e \in Events, ClaimJob(w, e) PROVE IngestionInv'
    <2> DEFINE new == [pc |-> "claim", event |-> e, attempt |-> job[e].attempts + 1, error |-> "none"]
    <2>1. job[e].attempts + 1 \in Nat
      BY DEF IngestionInv, TypeOK, JobType
    <2>2. new \in TaskType /\ new.pc = "claim" /\ new.event = e
      BY <2>1 DEF TaskType, Points, TryPoints
    <2>3. task' = [task EXCEPT ![w] = new]
      BY <1>3 DEF ClaimJob
    <2> HIDE DEF new
    <2>4. Starts(w)
      BY <1>1, <2>2, <2>3 DEF IngestionInv, TypeOK, Starts, Alone
    <2>5. NothingGained
      BY <1>3, <2>1 DEF ClaimJob, NothingGained, IngestionInv, TypeOK, JobType, JobStatuses
    <2> QED
      BY <1>1, <2>4, <2>5, MovingPreserves DEF Moves
  <1> QED
    BY <1>2, <1>3

LEMMA SubmitPreserves ==
  ASSUME IngestionInv, NEW c \in Clients, NEW e \in Events, Submit(c, e)
  PROVE  IngestionInv'
PROOF
  <1> DEFINE new == [Waiting EXCEPT !.pc = "claim", !.event = e]
  <1>1. c \in Tasks
    BY DEF Tasks
  <1>2. new \in TaskType /\ new.pc = "claim" /\ new.event = e
    BY DEF Waiting, TaskType, Points, TryPoints
  <1>3. task' = [task EXCEPT ![c] = new]
    BY DEF Submit
  <1> HIDE DEF new
  <1>4. Starts(c)
    BY <1>1, <1>2, <1>3 DEF IngestionInv, TypeOK, Starts, Alone
  <1>5. NothingGained
    BY DEF Submit, NothingGained, rows, IngestionInv, TypeOK
  <1> QED
    BY <1>1, <1>4, <1>5, MovingPreserves DEF Moves

LEMMA ClaimRequestPreserves ==
  ASSUME IngestionInv, NEW t \in Tasks, ClaimRequest(t)
  PROVE  IngestionInv'
PROOF
  <1> DEFINE e == task[t].event
  <1>1. e \in Events /\ task[t].pc = "claim"
    BY DEF IngestionInv, TasksAreSound, SoundTask, ClaimRequest, TryPoints
  <1>2. CASE Free(e)
    <2>1. MovesTo(t, "continue")
      BY <1>2, GotoMoves DEF ClaimRequest, IngestionInv, Points, TryPoints
    <2>2. Moves(t)
      BY <1>1, <2>1 DEF Moves, TryPoints, Owning
    <2>3. NothingGained
      BY <1>1, <1>2 DEF ClaimRequest, NothingGained, IngestionInv, TypeOK
    <2> QED
      BY <2>2, <2>3, MovingPreserves
  <1>3. CASE ~Free(e) /\ claim[e] = "completed"
    <2>1. MovesTo(t, "done")
      BY <1>3, GotoMoves DEF ClaimRequest, IngestionInv, Points, TryPoints
    <2>2. NothingGained
      BY <1>3 DEF ClaimRequest, NothingGained, IngestionInv, TypeOK
    <2> QED
      BY <1>1, <1>3, <2>1, <2>2, MovingPreserves DEF Moves
  <1>4. CASE ~Free(e) /\ claim[e] # "completed"
    BY <1>1, <1>4, RaisePreserves DEF ClaimRequest, Errors, TryPoints, rows
  <1> QED
    BY <1>2, <1>3, <1>4

LEMMA StepPreserves ==
  ASSUME IngestionInv, NEW t \in Tasks, Step(t)
  PROVE  IngestionInv'
PROOF
  <1>0. SoundTask(t)
    BY DEF IngestionInv, TasksAreSound
  <1>1. CASE ClaimRequest(t)
    BY <1>1, ClaimRequestPreserves
  <1>2. CASE FindThread(t)
    <2>1. CASE Goto(t, "insert")
      <3>1. MovesTo(t, "insert")
        BY <2>1, GotoMoves DEF IngestionInv, Points, TryPoints
      <3>2. NothingGained
        BY <1>2 DEF FindThread, NothingGained, rows, IngestionInv, TypeOK
      <3>3. task[t].event \in Events
        BY <1>0, <1>2 DEF FindThread, SoundTask, TryPoints
      <3> QED
        BY <3>1, <3>2, <3>3, MovingPreserves DEF Moves, TryPoints, Owning
    <2>2. CASE Raise(t, "terminal")
      BY <1>2, <2>2, RaisePreserves DEF FindThread, Errors, TryPoints
    <2> QED
      BY <1>2, <2>1, <2>2 DEF FindThread
  <1>3. CASE InsertIngestion(t)
    <2>1. CASE MayIngest(task[t].event)
      BY <1>3, <2>1, InsertPreserves
    <2>2. CASE ~MayIngest(task[t].event)
      BY <1>3, <2>2, RaisePreserves DEF InsertIngestion, Errors, TryPoints, rows
    <2> QED
      BY <2>1, <2>2
  <1>4. CASE InvokeGraph(t)
    BY <1>4, InvokePreserves
  <1>5. CASE GraphReturns(t)
    <2>1. CASE Answer(t)
      BY <1>5, <2>1, AnswerPreserves DEF GraphReturns
    <2>2. CASE UNCHANGED answered /\ Raise(t, "terminal")
      BY <1>5, <2>2, RaisePreserves DEF GraphReturns, Errors, TryPoints, graph
    <2> QED
      BY <1>5, <2>1, <2>2 DEF GraphReturns
  <1>6. CASE FinishIngestion(t)
    BY <1>6, FinishPreserves
  <1>7. CASE CompleteClaim(t)
    BY <1>7, CompleteClaimPreserves
  <1>8. CASE FailIngestion(t)
    BY <1>8, FailIngestionPreserves
  <1>9. CASE FailClaim(t)
    <2>1. task[t].event \in Events /\ task[t].error \in Errors
      BY <1>0, <1>9 DEF FailClaim, SoundTask, TryPoints, IngestionInv, TypeOK, TaskType, Errors
    <2>2. Moves(t)
      BY <1>9, <2>1, FailMoves DEF FailClaim, IngestionInv, Points, Moves
    <2>3. NothingGained
      BY <1>9, <2>1 DEF FailClaim, NothingGained, IngestionInv, TypeOK
    <2> QED
      BY <2>2, <2>3, MovingPreserves
  <1>10. CASE CompleteJob(t)
    BY <1>10, CompleteJobPreserves
  <1>11. CASE SettleJob(t)
    <2>1. Moves(t)
      BY <1>11, RestEnds DEF SettleJob, IngestionInv, Moves
    <2>2. NothingGained
      <3> DEFINE e == task[t].event
                 new == [job[e] EXCEPT !.status = Settled(t), !.old = FALSE]
      <3>1. e \in Events /\ job[e] \in JobType
        BY <1>0, <1>11 DEF SettleJob, SoundTask, IngestionInv, TypeOK
      <3>2. new \in JobType /\ new.status # "completed"
        BY <3>1 DEF Settled, JobType, JobStatuses
      <3>3. job' = [job EXCEPT ![e] = new] /\ UNCHANGED <<claim, ingestion, graph>>
        BY <1>11 DEF SettleJob
      <3> HIDE DEF new, e
      <3> QED
        BY <3>1, <3>2, <3>3 DEF NothingGained, IngestionInv, TypeOK
    <2> QED
      BY <2>1, <2>2, MovingPreserves
  <1> QED
    BY <1>1, <1>2, <1>3, <1>4, <1>5, <1>6, <1>7, <1>8, <1>9, <1>10, <1>11 DEF Step

LEMMA CrashPreserves ==
  ASSUME IngestionInv, NEW t \in Tasks, Crash(t)
  PROVE  IngestionInv'
PROOF
  <1>1. Ends(t)
    BY DEF Crash, Stopped, Waiting, Ends, Alone, IngestionInv, TypeOK, TaskType, Points
  <1>2. NothingGained
    BY DEF Crash, NothingGained, rows, IngestionInv, TypeOK
  <1> QED
    BY <1>1, <1>2, MovingPreserves DEF Moves

LEMMA IngestionInvInit == Init => IngestionInv
PROOF
  BY DEF Init, IngestionInv, TypeOK, JobType, JobStatuses, TaskType, Points, TryPoints, Waiting, Stopped,
     TasksAreSound, SoundTask, Owning, OwnerIsAlone, NoRunUnrecorded, AtMostOneGraphRun, SuccessIsReal

LEMMA IngestionInvNext == IngestionInv /\ [Next]_vars => IngestionInv'
PROOF
  <1> SUFFICES ASSUME IngestionInv, [Next]_vars PROVE IngestionInv'
    OBVIOUS
  <1>1. CASE UNCHANGED vars
    BY <1>1, WaitingPreserves DEF vars, NothingGained, IngestionInv, TypeOK, graph
  <1>2. ASSUME NEW e \in Events, Enqueue(e) \/ JobGrowsOld(e) \/ ClaimGoesStale(e)
        PROVE  IngestionInv'
    BY <1>2, EnvironmentPreserves
  <1>3. ASSUME NEW w \in Workers, StartWorker(w) \/ \E e \in Events : ClaimJob(w, e)
        PROVE  IngestionInv'
    BY <1>3, WorkerPreserves
  <1>4. ASSUME NEW c \in Clients, NEW e \in Events, Submit(c, e) PROVE IngestionInv'
    BY <1>4, SubmitPreserves
  <1>5. ASSUME NEW t \in Tasks, Step(t) PROVE IngestionInv'
    BY <1>5, StepPreserves
  <1>6. ASSUME NEW t \in Tasks, StepFails(t) PROVE IngestionInv'
    BY <1>6, RaisePreserves DEF StepFails, Errors
  <1>7. ASSUME NEW t \in Tasks, Crash(t) PROVE IngestionInv'
    BY <1>7, CrashPreserves
  <1> QED
    BY <1>1, <1>2, <1>3, <1>4, <1>5, <1>6, <1>7 DEF Next, Calm

-----------------------------------------------------------------------------
(* The invariant of the ingestion: an event has one owner, which alone runs  *)
(* the graph, and success is only reported for a run that answered.          *)
THEOREM IngestionInvariant == Spec => []IngestionInv
PROOF
  BY IngestionInvInit, IngestionInvNext, PTL DEF Spec

(* For any number of redeliveries, retries, takeovers and crashes, the sales *)
(* graph is started at most once for a provider event.                       *)
THEOREM GraphRunsOnce == Spec => []AtMostOneGraphRun
PROOF
  <1>1. IngestionInv => AtMostOneGraphRun
    BY DEF IngestionInv
  <1> QED
    BY <1>1, IngestionInvariant, PTL

(* A stored response, a completed job and a completed ingestion each mean    *)
(* that the graph has answered for the event.                                *)
THEOREM SuccessIsNeverInvented == Spec => []SuccessIsReal
PROOF
  <1>1. IngestionInv => SuccessIsReal
    BY DEF IngestionInv
  <1> QED
    BY <1>1, IngestionInvariant, PTL

-----------------------------------------------------------------------------
(* The inductive invariant of the intake *)

\* The i-th message of the mailbox has a job, or the server refused it, or a
\* torn cursor has passed it.
Accounted(i) == torn \/ HasRow(mailbox[i]) \/ mailbox[i] \in refused

\* A cursor that somebody has read or will write, however old it is by then.
CursorSound(c) ==
  /\ c \in Cursors /\ c.validity <= validity /\ (c.validity = 0 => c.uid = 0)
  /\ c.validity = validity => torn \/ (c.uid <= Len(mailbox) /\ \A i \in 1..c.uid : Accounted(i))

\* A message that was fetched, of which all that came before it is accounted
\* for or fetched as well, and so queued before it.
ItemSound(x, batch) ==
  /\ x.validity <= validity
  /\ x.validity = validity =>
        /\ x.uid \in 1..Len(mailbox) /\ mailbox[x.uid] = x.mail
        /\ \A i \in 1..Len(mailbox) :
              i < x.uid => \/ Accounted(i)
                           \/ \E y \in batch : y.uid = i /\ y.validity = validity

First(batch) == CHOOSE x \in batch : \A y \in batch : x.uid <= y.uid

PollerType == [pc : {"down", "idle", "fetch", "queue", "load", "commit"},
               last : Cursors, read : Cursors, batch : SUBSET Items]

PollerSound(s) ==
  /\ CursorSound(s.last)
  /\ \A x \in s.batch : ItemSound(x, s.batch)
  /\ s.pc \in {"load", "commit"} => s.batch # {} /\ HasRow(First(s.batch).mail)

\* The cursor a poller is about to update is the stored one unless there is
\* another poller, and a row that was there is still there.
ReadSound(p, s) ==
  s.pc = "commit" =>
     /\ s.read.validity <= validity
     /\ s.read.validity = 0 => s.read = NoCursor
     /\ s.read.validity # 0 => cursor.validity # 0
     /\ s.read = cursor \/ \E q \in Pollers : q # p

\* What it takes to tear the cursor.
TornInv == torn => validity > 1 /\ \E p, q \in Pollers : p # q

HookSound(h) ==
  webhook[h].pc \in {"queue", "accepted"} =>
      \A x \in Payload[h] \cap Acceptable : HasRow(x) \/ (webhook[h].pc = "queue" /\ x \in webhook[h].left)

\* The mailbox has no more messages than arrived.
MailboxInv == Len(mailbox) <= Cardinality(arrived)

IntakeInv ==
  /\ IntakeTypeOK /\ MailboxInv
  /\ CursorSound(cursor)
  /\ \A p \in Pollers : PollerSound(poller[p]) /\ ReadSound(p, poller[p])
  /\ \A h \in Webhooks : HookSound(h)
  /\ TornInv

-----------------------------------------------------------------------------
(* What may happen meanwhile *)

\* The mailbox only grows, unless it is made anew; jobs and refusals stay.
Later ==
  /\ queued \subseteq queued' /\ refused \subseteq refused' /\ (torn => torn')
  /\ validity' \in Nat /\ validity <= validity'
  /\ validity' = validity =>
        /\ Len(mailbox') \in Nat /\ Len(mailbox) <= Len(mailbox')
        /\ \A i \in 1..Len(mailbox) : mailbox'[i] = mailbox[i]

LEMMA RowsLast ==
  ASSUME Later, NEW m, HasRow(m) PROVE HasRow(m)'
BY DEF Later, HasRow

LEMMA AccountsLast ==
  ASSUME Later, validity' = validity, NEW i \in 1..Len(mailbox), Accounted(i)
  PROVE  Accounted(i)'
BY RowsLast DEF Later, Accounted

LEMMA Numbers == IntakeTypeOK => validity \in Nat /\ Len(mailbox) \in Nat
BY IntakeAssumption DEF IntakeTypeOK, Validities

LEMMA CursorLasts ==
  ASSUME IntakeTypeOK, Later, NEW c, CursorSound(c)
  PROVE  CursorSound(c)'
<1>1. c \in Cursors /\ c.validity \in Nat /\ c.uid \in Nat
  BY IntakeAssumption, FS_CardinalityType DEF CursorSound, Cursors
<1>2. c.validity <= validity'
  BY <1>1, Numbers DEF CursorSound, Later
<1>3. ASSUME c.validity = validity', ~torn'
      PROVE  c.uid <= Len(mailbox') /\ \A i \in 1..c.uid : Accounted(i)'
  <2>1. validity' = validity
    BY <1>1, <1>3, Numbers DEF CursorSound, Later
  <2>2. c.uid <= Len(mailbox) /\ \A i \in 1..c.uid : Accounted(i)
    BY <1>3, <2>1 DEF CursorSound, Later
  <2>3. \A i \in 1..c.uid : i \in 1..Len(mailbox)
    BY <1>1, <2>2, Numbers
  <2>4. c.uid <= Len(mailbox')
    BY <1>1, <2>1, <2>2, Numbers DEF Later
  <2> QED BY <2>1, <2>2, <2>3, <2>4, AccountsLast
<1>4. c.validity = validity' => torn' \/ (c.uid <= Len(mailbox') /\ \A i \in 1..c.uid : Accounted(i)')
  BY <1>3
<1>5. c.validity = 0 => c.uid = 0
  BY DEF CursorSound
<1> QED BY <1>1, <1>2, <1>4, <1>5 DEF CursorSound

LEMMA ItemLasts ==
  ASSUME IntakeTypeOK, Later, NEW x \in Items, NEW batch, ItemSound(x, batch)
  PROVE  ItemSound(x, batch)'
<1>1. x.validity \in Nat /\ x.uid \in Nat
  BY IntakeAssumption, FS_CardinalityType DEF Items, Uids, Validities
<1>2. x.validity <= validity'
  BY <1>1, Numbers DEF ItemSound, Later
<1>3. ASSUME x.validity = validity'
      PROVE  /\ x.uid \in 1..Len(mailbox') /\ mailbox'[x.uid] = x.mail
             /\ \A i \in 1..Len(mailbox') :
                   i < x.uid => Accounted(i)' \/ \E y \in batch : y.uid = i /\ y.validity = validity'
  <2>1. validity' = validity
    BY <1>1, <1>3, Numbers DEF ItemSound, Later
  <2>2. /\ x.uid \in 1..Len(mailbox) /\ mailbox[x.uid] = x.mail
        /\ \A i \in 1..Len(mailbox) :
              i < x.uid => Accounted(i) \/ \E y \in batch : y.uid = i /\ y.validity = validity
    BY <1>3, <2>1 DEF ItemSound
  <2>3. x.uid \in 1..Len(mailbox') /\ mailbox'[x.uid] = x.mail
    BY <2>1, <2>2, Numbers DEF Later
  <2>4. ASSUME NEW i \in 1..Len(mailbox'), i < x.uid
        PROVE  Accounted(i)' \/ \E y \in batch : y.uid = i /\ y.validity = validity'
    <3>1. i \in 1..Len(mailbox)
      BY <2>2, <2>4, <1>1, Numbers DEF Later
    <3> QED BY <2>1, <2>2, <2>4, <3>1, AccountsLast
  <2> QED BY <2>3, <2>4
<1> QED BY <1>2, <1>3 DEF ItemSound

LEMMA PollerLasts ==
  ASSUME IntakeTypeOK, Later, NEW s \in PollerType, PollerSound(s)
  PROVE  PollerSound(s)'
<1>1. s.batch \subseteq Items
  BY DEF PollerType
<1>2. CursorSound(s.last)'
  BY CursorLasts DEF PollerSound
<1>3. \A x \in s.batch : ItemSound(x, s.batch)'
  BY <1>1, ItemLasts DEF PollerSound
<1>4. s.pc \in {"load", "commit"} => s.batch # {} /\ HasRow(First(s.batch).mail)'
  BY RowsLast DEF PollerSound
<1> QED BY <1>2, <1>3, <1>4 DEF PollerSound

LEMMA PairLess ==
  ASSUME NEW x \in Nat, NEW y \in Nat, x < y
  PROVE  <<x, y>> \in OpToRel(<, Nat)
BY DEF OpToRel

\* A batch has a first message.
LEMMA FirstIsFirst ==
  ASSUME NEW batch \in SUBSET Items, batch # {}
  PROVE  First(batch) \in batch /\ \A y \in batch : First(batch).uid <= y.uid
<1>1. \A x \in batch : x.uid \in Nat
  BY IntakeAssumption, FS_CardinalityType DEF Items, Uids
<1>2. PICK U : U = {x.uid : x \in batch}
  OBVIOUS
<1>3. U \in SUBSET Nat /\ U # {}
  BY <1>1, <1>2
<1>4. PICK n \in U : \A m \in U : <<m, n>> \notin OpToRel(<, Nat)
  <2>1. IsWellFoundedOn(OpToRel(<, Nat), Nat)
    BY NatLessThanWellFounded
  <2> QED BY <1>3, <2>1, WFMin
<1>5. ASSUME NEW m \in U PROVE n <= m
  <2>1. m \in Nat /\ n \in Nat
    BY <1>3
  <2>2. ~(m < n)
    BY <1>4, <2>1, PairLess
  <2> QED BY <2>1, <2>2
<1>6. \E x \in batch : \A y \in batch : x.uid <= y.uid
  BY <1>2, <1>5
<1> QED BY <1>6 DEF First

-----------------------------------------------------------------------------
(* A step that leaves all pollers but one alone, and the webhooks *)

LEMMA OnePollerMoves ==
  ASSUME IntakeInv, NEW p \in Pollers, NEW s \in PollerType,
         poller' = [poller EXCEPT ![p] = s], UNCHANGED <<mailVars, webhook>>,
         queued \subseteq queued', queued' \subseteq Deliverable,
         refused \subseteq refused', refused' \subseteq Mails,
         torn' \in BOOLEAN, torn => torn', TornInv', CursorSound(cursor)', PollerSound(s)',
         cursor' = cursor \/ cursor'.validity # 0, ReadSound(p, s)'
  PROVE  IntakeInv'
<1>1. Later
  BY Numbers DEF Later, mailVars, IntakeInv
<1>2. poller \in [Pollers -> PollerType]
  BY DEF IntakeInv, IntakeTypeOK, PollerType
<1>3. IntakeTypeOK' /\ MailboxInv'
  BY DEF IntakeInv, IntakeTypeOK, MailboxInv, mailVars, CursorSound, PollerType
<1>4. ASSUME NEW q \in Pollers PROVE PollerSound(poller[q])'
  <2>1. CASE q = p
    BY <1>2, <2>1
  <2>2. CASE q # p
    BY <1>1, <1>2, <2>2, PollerLasts DEF IntakeInv
  <2> QED BY <2>1, <2>2
<1>5. ASSUME NEW h \in Webhooks PROVE HookSound(h)'
  BY <1>1, RowsLast DEF IntakeInv, HookSound
<1>6. ASSUME NEW q \in Pollers PROVE ReadSound(q, poller[q])'
  <2>1. CASE q = p
    BY <1>2, <2>1
  <2>2. CASE q # p
    <3>1. poller'[q] = poller[q] /\ ReadSound(q, poller[q]) /\ validity' = validity
      BY <1>2, <2>2 DEF IntakeInv, mailVars
    <3>2. cursor.validity # 0 => cursor'.validity # 0
      OBVIOUS
    <3> QED BY <2>2, <3>1, <3>2 DEF ReadSound
  <2> QED BY <2>1, <2>2
<1> QED BY <1>3, <1>4, <1>5, <1>6 DEF IntakeInv

LEMMA PollerTyped ==
  ASSUME IntakeInv, NEW p \in Pollers
  PROVE  /\ poller[p] \in PollerType /\ PollerSound(poller[p]) /\ ReadSound(p, poller[p])
         /\ poller[p].batch \subseteq Items
BY DEF IntakeInv, IntakeTypeOK, PollerType

\* A poller that has fetched nothing yet.
LEMMA EmptySound ==
  ASSUME NEW s, CursorSound(s.last), s.batch = {}, s.pc \notin {"load", "commit"}
  PROVE  PollerSound(s)
BY DEF PollerSound

LEMMA NoCursorSound == IntakeTypeOK => CursorSound(NoCursor)
<1> SUFFICES ASSUME IntakeTypeOK PROVE CursorSound(NoCursor)
  OBVIOUS
<1>1. Cardinality(Mails) \in Nat /\ MaxValidity \in Nat /\ validity \in 1..MaxValidity
  BY IntakeAssumption, FS_CardinalityType DEF IntakeTypeOK, Validities
<1> QED BY <1>1 DEF CursorSound, NoCursor, Cursors

\* A step of a poller that leaves jobs, refusals and the cursor alone.
LEMMA QuietPoller ==
  ASSUME IntakeInv, NEW p \in Pollers, NEW s \in PollerType, PollerSound(s), ReadSound(p, s),
         poller' = [poller EXCEPT ![p] = s],
         UNCHANGED <<mailVars, cursor, webhook, queued, refused, torn>>
  PROVE  IntakeInv'
<1>1. Later
  BY Numbers DEF Later, mailVars, IntakeInv
<1>2. PICK c : c = cursor
  OBVIOUS
<1>3. CursorSound(c)' /\ PollerSound(s)' /\ cursor' = c
  BY <1>1, <1>2, CursorLasts, PollerLasts DEF IntakeInv
<1>4. CursorSound(cursor)' /\ ReadSound(p, s)' /\ TornInv'
  BY <1>3 DEF ReadSound, TornInv, IntakeInv, mailVars
<1>5. torn' \in BOOLEAN /\ queued' \subseteq Deliverable /\ refused' \subseteq Mails
  BY DEF IntakeInv, IntakeTypeOK
<1> QED BY <1>3, <1>4, <1>5, OnePollerMoves

LEMMA PollerRests ==
  ASSUME IntakeInv, NEW p \in Pollers, NEW point \in {"idle", "down"},
         poller' = [poller EXCEPT ![p] = PollerAt(point)],
         UNCHANGED <<mailVars, cursor, webhook, queued, refused, torn>>
  PROVE  IntakeInv'
<1>1. PICK s : s = PollerAt(point)
  OBVIOUS
<1>2. CursorSound(NoCursor)
  BY NoCursorSound DEF IntakeInv
<1>3. s \in PollerType /\ s.last = NoCursor /\ s.batch = {} /\ s.pc \notin {"load", "commit"}
  BY <1>1, <1>2 DEF PollerAt, PollerType, CursorSound
<1>4. ReadSound(p, s)
  BY <1>3 DEF ReadSound
<1> QED BY <1>1, <1>2, <1>3, <1>4, EmptySound, QuietPoller

LEMMA ReadCursorKeeps ==
  ASSUME IntakeInv, NEW p \in Pollers, ReadCursor(p)
  PROVE  IntakeInv'
<1>1. PICK s : s = [pc |-> "fetch", last |-> cursor, read |-> NoCursor, batch |-> {}]
  OBVIOUS
<1>2. CursorSound(cursor) /\ CursorSound(NoCursor)
  BY NoCursorSound DEF IntakeInv
<1>3. s \in PollerType /\ s.last = cursor /\ s.batch = {} /\ s.pc \notin {"load", "commit"}
  BY <1>1, <1>2 DEF PollerType, CursorSound
<1>4. PollerSound(s) /\ ReadSound(p, s)
  BY <1>2, <1>3, EmptySound DEF ReadSound
<1>5. [PollerAt("fetch") EXCEPT !.last = cursor] = s
  BY <1>1 DEF PollerAt
<1> QED BY <1>3, <1>4, <1>5, QuietPoller DEF ReadCursor

-----------------------------------------------------------------------------
(* A fetch: whatever the server does not hand out, and wherever it breaks off *)

\* What was found, up to some message.
LEMMA FetchedAreItems ==
  ASSUME IntakeInv, NEW last, NEW x \in Found(last)
  PROVE  /\ x \in Items /\ x.validity = validity
         /\ x.uid \in 1..Len(mailbox) /\ x.mail = mailbox[x.uid] /\ x.mail \in Mails
<1>1. PICK i \in DOMAIN mailbox : x = Item(i)
  BY DEF Found
<1>2. mailbox \in Seq(Mails) /\ validity \in Validities /\ i \in 1..Len(mailbox)
  BY <1>1 DEF IntakeInv, IntakeTypeOK
<1>3. Len(mailbox) <= Cardinality(Mails) /\ Cardinality(Mails) \in Nat /\ Len(mailbox) \in Nat
  <2>1. arrived \subseteq Mails /\ IsFiniteSet(Mails)
    BY IntakeAssumption DEF IntakeInv, IntakeTypeOK
  <2>2. Cardinality(arrived) <= Cardinality(Mails) /\ Cardinality(arrived) \in Nat
        /\ Cardinality(Mails) \in Nat
    BY <2>1, FS_Subset, FS_CardinalityType
  <2> QED BY <2>2, Numbers DEF IntakeInv, MailboxInv
<1>4. i \in Uids /\ mailbox[i] \in Mails
  BY <1>2, <1>3 DEF Uids
<1> QED BY <1>1, <1>2, <1>4 DEF Item, Items

\* What a poller passes over as seen is accounted for.
LEMMA SeenIsAccounted ==
  ASSUME IntakeInv, NEW last, CursorSound(last), NEW i \in 1..Len(mailbox),
         i <= Seen(last, validity)
  PROVE  Accounted(i)
<1>1. last.uid \in Nat
  BY IntakeAssumption, FS_CardinalityType DEF CursorSound, Cursors
<1>2. last.validity = validity /\ i <= last.uid
  BY Numbers DEF Seen, CursorSound, IntakeInv
<1>3. i \in 1..last.uid
  BY <1>1, <1>2, Numbers DEF IntakeInv
<1>4. torn \/ \A j \in 1..last.uid : Accounted(j)
  BY <1>2 DEF CursorSound
<1>5. CASE torn
  BY <1>5 DEF Accounted
<1> QED BY <1>3, <1>4, <1>5

LEMMA FetchAfterKeeps ==
  ASSUME IntakeInv, NEW p \in Pollers, FetchAfter(p)
  PROVE  IntakeInv'
<1>1. PICK last : last = poller[p].last
  OBVIOUS
<1>2. PICK bad \in SUBSET {x.mail : x \in Found(last)}, n \in Uids \cup {Cardinality(Mails) + 1} :
         /\ refused' = refused \cup bad
         /\ poller' = [poller EXCEPT ![p].pc = "queue",
                                     ![p].batch = {x \in UpTo(Found(last), n) : x.mail \notin bad}]
  BY <1>1 DEF FetchAfter
<1>3. PICK b : b = {x \in UpTo(Found(last), n) : x.mail \notin bad}
  OBVIOUS
<1>4. poller \in [Pollers -> PollerType] /\ poller[p] \in PollerType /\ CursorSound(last)
  BY <1>1, PollerTyped DEF IntakeInv, IntakeTypeOK, PollerType, PollerSound
<1>5. PICK s : s = [poller[p] EXCEPT !.pc = "queue", !.batch = b]
  OBVIOUS
<1>6. poller' = [poller EXCEPT ![p] = s]
  BY <1>2, <1>3, <1>4, <1>5
<1>7. \A x \in b : x \in Found(last) /\ x.uid < n
  BY <1>3 DEF UpTo
<1>8. b \subseteq Items
  BY <1>7, FetchedAreItems
<1>9. s \in PollerType /\ s.pc = "queue" /\ s.last = last /\ s.batch = b
  BY <1>1, <1>4, <1>5, <1>8 DEF PollerType
<1>10. UNCHANGED <<mailVars, cursor, webhook, queued, torn>>
  BY DEF FetchAfter
<1>11. refused' \subseteq Mails
  BY <1>2, FetchedAreItems DEF IntakeInv, IntakeTypeOK
<1>12. Later
  BY <1>2, <1>10, Numbers DEF Later, mailVars, IntakeInv
<1>13. CursorSound(cursor)' /\ CursorSound(last)'
  <2>1. PICK c : c = cursor
    OBVIOUS
  <2>2. IntakeTypeOK /\ CursorSound(c)
    BY <2>1 DEF IntakeInv
  <2>3. CursorSound(c)' /\ CursorSound(last)'
    BY <1>4, <1>12, <2>2, CursorLasts
  <2>4. cursor' = c
    BY <2>1, <1>10
  <2> QED BY <2>3, <2>4
<1>14. n \in Nat
  BY IntakeAssumption, FS_CardinalityType DEF Uids
<1>15. ASSUME NEW x \in b PROVE ItemSound(x, b)'
  <2>1. x.validity = validity /\ x.uid \in 1..Len(mailbox) /\ mailbox[x.uid] = x.mail /\ x.uid < n
    BY <1>7, FetchedAreItems
  <2>2. ASSUME NEW i \in 1..Len(mailbox), i < x.uid
        PROVE  Accounted(i)' \/ \E y \in b : y.uid = i /\ y.validity = validity
    <3>1. CASE i <= Seen(last, validity)
      BY <3>1, <1>4, <1>10, <1>12, SeenIsAccounted, AccountsLast DEF mailVars
    <3>2. CASE ~(i <= Seen(last, validity))
      <4>1. Seen(last, validity) \in Nat
        BY <1>4, IntakeAssumption, FS_CardinalityType DEF Seen, CursorSound, Cursors
      <4>2. Item(i) \in Found(last) /\ Item(i).uid = i /\ Item(i).validity = validity
            /\ Item(i).mail = mailbox[i]
        BY <3>2, <4>1, Numbers DEF Found, Item, IntakeInv, IntakeTypeOK
      <4>3. i < n
        BY <2>1, <2>2, <1>14, Numbers DEF IntakeInv
      <4>4. CASE mailbox[i] \in bad
        BY <4>4, <1>2, <1>10 DEF Accounted, mailVars
      <4>5. CASE mailbox[i] \notin bad
        BY <4>2, <4>3, <4>5, <1>3 DEF UpTo
      <4> QED BY <4>4, <4>5
    <3> QED BY <3>1, <3>2
  <2> QED BY <2>1, <2>2, <1>10, Numbers DEF ItemSound, mailVars, IntakeInv
<1>16. PollerSound(s)'
  BY <1>9, <1>13, <1>15 DEF PollerSound
<1>17. queued' \subseteq Deliverable /\ torn' \in BOOLEAN /\ TornInv' /\ ReadSound(p, s)'
  BY <1>9, <1>10 DEF IntakeInv, IntakeTypeOK, TornInv, ReadSound, mailVars
<1> QED BY <1>2, <1>6, <1>9, <1>10, <1>11, <1>13, <1>16, <1>17, OnePollerMoves DEF mailVars

-----------------------------------------------------------------------------
(* A message is queued, and the cursor moves behind it *)

\* The first message of a batch has a job: so have all up to it, and what is
\* left of the batch stands.
LEMMA BehindTheFirst ==
  ASSUME IntakeInv, NEW batch \in SUBSET Items, batch # {},
         \A x \in batch : ItemSound(x, batch),
         First(batch).validity = validity => Accounted(First(batch).uid)
  PROVE  /\ CursorSound([uid |-> First(batch).uid, validity |-> First(batch).validity])
         /\ \A x \in batch \ {First(batch)} : ItemSound(x, batch \ {First(batch)})
<1>1. PICK f : f = First(batch)
  OBVIOUS
<1>2. f \in batch /\ (\A y \in batch : f.uid <= y.uid) /\ ItemSound(f, batch)
      /\ (f.validity = validity => Accounted(f.uid))
  BY <1>1, FirstIsFirst
<1>3. /\ \A x \in batch : x.uid \in Nat /\ x.validity \in Nat \ {0}
      /\ f.uid \in Uids /\ f.validity \in Validities /\ f.uid \in Nat
  BY <1>2, IntakeAssumption, FS_CardinalityType DEF Items, Uids, Validities
<1>4. CursorSound([uid |-> f.uid, validity |-> f.validity])
  <2>1. PICK c : c = [uid |-> f.uid, validity |-> f.validity]
    OBVIOUS
  <2>2. c \in Cursors /\ c.validity # 0 /\ c.uid = f.uid /\ c.validity = f.validity
    BY <1>3, <2>1, IntakeAssumption, FS_CardinalityType DEF Cursors, Uids, Validities
  <2>3. c.validity <= validity
    BY <1>2, <2>2 DEF ItemSound
  <2>4. ASSUME c.validity = validity
        PROVE  c.uid <= Len(mailbox) /\ \A i \in 1..c.uid : Accounted(i)
    <3>1. f.validity = validity /\ f.uid \in 1..Len(mailbox)
      BY <1>2, <2>2, <2>4 DEF ItemSound
    <3>2. ASSUME NEW i \in 1..c.uid PROVE Accounted(i)
      <4>1. CASE i = f.uid
        BY <4>1, <1>2, <3>1
      <4>2. CASE i # f.uid
        <5>1. i \in 1..Len(mailbox) /\ i < f.uid
          BY <4>2, <3>1, <2>2, <1>3, Numbers DEF IntakeInv
        <5>2. Accounted(i) \/ \E y \in batch : y.uid = i
          BY <5>1, <1>2, <3>1 DEF ItemSound
        <5> QED BY <5>1, <5>2, <1>2, <1>3
      <4> QED BY <4>1, <4>2
    <3> QED BY <2>2, <3>1, <3>2, <1>3, Numbers DEF IntakeInv
  <2>5. CursorSound(c)
    BY <2>2, <2>3, <2>4 DEF CursorSound
  <2> QED BY <2>1, <2>5
<1>5. ASSUME NEW x \in batch \ {f} PROVE ItemSound(x, batch \ {f})
  <2>1. ItemSound(x, batch)
    BY <1>5
  <2>2. ASSUME x.validity = validity, NEW i \in 1..Len(mailbox), i < x.uid
        PROVE  Accounted(i) \/ \E y \in batch \ {f} : y.uid = i /\ y.validity = validity
    <3>1. Accounted(i) \/ \E y \in batch : y.uid = i /\ y.validity = validity
      BY <2>1, <2>2 DEF ItemSound
    <3> QED BY <3>1, <1>2
  <2> QED BY <2>1, <2>2 DEF ItemSound
<1> QED BY <1>1, <1>4, <1>5

LEMMA OldestIsFirst == \A p \in Pollers : Oldest(p) = First(poller[p].batch)
BY DEF Oldest, First

\* The message of an item is where its UID says, as long as the mailbox stands.
LEMMA ItemsAreThere ==
  ASSUME NEW x, NEW batch, ItemSound(x, batch), x.validity = validity, HasRow(x.mail)
  PROVE  Accounted(x.uid)
BY DEF ItemSound, Accounted

LEMMA PassKeeps ==
  ASSUME IntakeInv, NEW p \in Pollers, QueueMail(p), Pass(p)
  PROVE  IntakeInv'
<1>1. PICK last, b, f : last = poller[p].last /\ b = poller[p].batch /\ f = First(b)
  OBVIOUS
<1>2. /\ poller[p] \in PollerType /\ poller[p].pc = "queue" /\ b \in SUBSET Items /\ b # {}
      /\ CursorSound(last) /\ \A x \in b : ItemSound(x, b)
      /\ Oldest(p) = f /\ f \in b /\ f \in Items
  BY <1>1, PollerTyped, OldestIsFirst, FirstIsFirst DEF QueueMail, PollerSound
<1>3. f.validity = validity => Accounted(f.uid)
  <2>1. HAVE f.validity = validity
  <2>2. f.uid \in 1..Len(mailbox)
    BY <1>2, <2>1 DEF ItemSound
  <2>3. f.uid <= Seen(last, validity)
    BY <1>1, <1>2, <2>1 DEF Pass
  <2> QED BY <1>2, <2>2, <2>3, SeenIsAccounted
<1>4. \A x \in b \ {f} : ItemSound(x, b \ {f})
  BY <1>1, <1>2, <1>3, BehindTheFirst
<1>5. PICK s : s = [poller[p] EXCEPT !.batch = b \ {f}]
  OBVIOUS
<1>6. s \in PollerType /\ s.pc = "queue" /\ s.last = last /\ s.batch = b \ {f}
  BY <1>1, <1>2, <1>5 DEF PollerType
<1>7. PollerSound(s) /\ ReadSound(p, s)
  BY <1>2, <1>4, <1>6 DEF PollerSound, ReadSound
<1>8. poller' = [poller EXCEPT ![p] = s]
      /\ UNCHANGED <<mailVars, cursor, webhook, queued, refused, torn>>
  BY <1>1, <1>2, <1>5 DEF QueueMail
<1> QED BY <1>6, <1>7, <1>8, QuietPoller

LEMMA EventsAreDeliverable ==
  ASSUME NEW x \in Items
  PROVE  EventOf(x) \in Deliverable /\ EventOf(x).of = x.mail
<1>1. x.mail \in Mails /\ x.validity \in Validities /\ x.uid \in Uids
  BY DEF Items
<1>2. CASE x.mail \in Unnamed
  BY <1>1, <1>2 DEF EventOf, Deliverable, MailEvents
<1>3. CASE x.mail \notin Unnamed
  BY <1>1, <1>3 DEF EventOf, Deliverable, MailEvents, Named
<1> QED BY <1>2, <1>3

LEMMA QueueingKeeps ==
  ASSUME IntakeInv, NEW p \in Pollers, QueueMail(p), ~Pass(p)
  PROVE  IntakeInv'
<1>1. PICK last, b, f : last = poller[p].last /\ b = poller[p].batch /\ f = First(b)
  OBVIOUS
<1>2. /\ poller[p] \in PollerType /\ poller[p].pc = "queue" /\ b \in SUBSET Items /\ b # {}
      /\ PollerSound(poller[p]) /\ CursorSound(last) /\ \A x \in b : ItemSound(x, b)
      /\ Oldest(p) = f /\ f \in b /\ f \in Items
  BY <1>1, PollerTyped, OldestIsFirst, FirstIsFirst DEF QueueMail, PollerSound
<1>3. /\ queued' = queued \cup {EventOf(f)}
      /\ poller' = [poller EXCEPT ![p].pc = "load"]
      /\ UNCHANGED <<mailVars, cursor, webhook, refused, torn>>
  BY <1>2 DEF QueueMail
<1>4. queued' \subseteq Deliverable /\ refused' \subseteq Mails
  BY <1>2, <1>3, EventsAreDeliverable DEF IntakeInv, IntakeTypeOK
<1>5. HasRow(f.mail)'
  BY <1>2, <1>3, EventsAreDeliverable DEF HasRow
<1>6. PICK s : s = [poller[p] EXCEPT !.pc = "load"]
  OBVIOUS
<1>7. s \in PollerType /\ s.pc = "load" /\ s.last = last /\ s.batch = b
  BY <1>1, <1>2, <1>6 DEF PollerType
<1>8. poller' = [poller EXCEPT ![p] = s]
  BY <1>3, <1>6
<1>9. Later
  BY <1>3, Numbers DEF Later, mailVars, IntakeInv
<1>10. \A x \in b : ItemSound(x, b)'
  BY <1>2, <1>9, ItemLasts DEF IntakeInv
<1>11. PICK c : c = cursor
  OBVIOUS
<1>12. CursorSound(c)' /\ CursorSound(last)' /\ cursor' = c
  BY <1>2, <1>3, <1>9, <1>11, CursorLasts DEF IntakeInv
<1>13. PollerSound(s)'
  BY <1>1, <1>2, <1>5, <1>7, <1>10, <1>12 DEF PollerSound
<1>14. CursorSound(cursor)'
  BY <1>12
<1>15. torn' \in BOOLEAN /\ TornInv' /\ ReadSound(p, s)'
  BY <1>3, <1>7 DEF IntakeInv, IntakeTypeOK, TornInv, ReadSound, mailVars
<1> QED BY <1>3, <1>4, <1>7, <1>8, <1>13, <1>14, <1>15, OnePollerMoves DEF mailVars

LEMMA LoadCursorKeeps ==
  ASSUME IntakeInv, NEW p \in Pollers, LoadCursor(p)
  PROVE  IntakeInv'
<1>1. PICK s : s = [poller[p] EXCEPT !.pc = "commit", !.read = cursor]
  OBVIOUS
<1>2. poller[p] \in PollerType /\ PollerSound(poller[p]) /\ poller[p].pc = "load"
      /\ CursorSound(cursor)
  BY PollerTyped DEF LoadCursor, IntakeInv
<1>3. /\ s \in PollerType /\ s.pc = "commit" /\ s.read = cursor
      /\ s.last = poller[p].last /\ s.batch = poller[p].batch
  BY <1>1, <1>2 DEF PollerType, CursorSound
<1>4. PollerSound(s)
  BY <1>2, <1>3 DEF PollerSound
<1>5. cursor.validity = 0 => cursor = NoCursor
  BY <1>2 DEF CursorSound, Cursors, NoCursor
<1>6. ReadSound(p, s)
  BY <1>2, <1>3, <1>5 DEF ReadSound, CursorSound
<1>7. poller' = [poller EXCEPT ![p] = s]
  BY <1>1 DEF LoadCursor
<1> QED BY <1>3, <1>4, <1>6, <1>7, QuietPoller DEF LoadCursor

\* An UPDATE from the row as it stands writes what was seen; any other takes two
\* pollers, and to mix two cursors it takes two validities.
LEMMA UpdateTears ==
  ASSUME IntakeInv, NEW p \in Pollers, NEW read \in Cursors, NEW seen \in Cursors,
         read.validity <= validity, read.validity = 0 => read = NoCursor,
         read.validity # 0 => cursor.validity # 0,
         read = cursor \/ \E q \in Pollers : q # p,
         read = NoCursor => cursor = NoCursor,
         seen.validity # 0, seen.validity <= validity
  PROVE  /\ Updated(read, seen) \in Cursors /\ Updated(read, seen).validity # 0
         /\ Updated(read, seen).validity <= validity
         /\ Updated(read, seen) \in {cursor, seen} \/ (validity > 1 /\ \E q \in Pollers : q # p)
<1>1. PICK u, v : u = Updated(read, seen).uid /\ v = Updated(read, seen).validity
  OBVIOUS
<1>2. /\ u = (IF seen.uid = read.uid THEN cursor.uid ELSE seen.uid)
      /\ v = (IF seen.validity = read.validity THEN cursor.validity ELSE seen.validity)
      /\ Updated(read, seen) = [uid |-> u, validity |-> v]
  BY <1>1 DEF Updated
<1>3. cursor \in Cursors /\ cursor.validity <= validity /\ validity \in Nat
  BY Numbers DEF IntakeInv, CursorSound
<1>4. /\ read.validity \in Nat /\ seen.validity \in Nat /\ cursor.validity \in Nat
      /\ cursor = [uid |-> cursor.uid, validity |-> cursor.validity]
      /\ seen = [uid |-> seen.uid, validity |-> seen.validity]
      /\ read = [uid |-> read.uid, validity |-> read.validity]
  BY <1>3, IntakeAssumption DEF Cursors
<1>5. [uid |-> u, validity |-> v] \in Cursors
  BY <1>2, <1>3 DEF Cursors
<1>6. v # 0 /\ v <= validity
  BY <1>2, <1>3
<1>7. CASE read = cursor
  BY <1>2, <1>4, <1>5, <1>6, <1>7
<1>8. CASE read # cursor
  <2>1. \E q \in Pollers : q # p
    BY <1>8
  <2>2. ASSUME ~(validity > 1) PROVE [uid |-> u, validity |-> v] \in {cursor, seen}
    <3>1. read.validity # 0
      BY <1>8
    <3>2. read.validity = 1 /\ cursor.validity = 1 /\ seen.validity = 1
      BY <2>2, <3>1, <1>3, <1>4
    <3>3. v = 1 /\ (u = cursor.uid \/ u = seen.uid)
      BY <1>2, <3>2
    <3> QED BY <3>2, <3>3, <1>4
  <2> QED BY <1>2, <1>5, <1>6, <2>1, <2>2
<1> QED BY <1>7, <1>8

LEMMA CommitCursorKeeps ==
  ASSUME IntakeInv, NEW p \in Pollers, CommitCursor(p)
  PROVE  IntakeInv'
<1>1. PICK b, f, c : b = poller[p].batch /\ f = First(b) /\ c = [uid |-> f.uid, validity |-> f.validity]
  OBVIOUS
<1>2. /\ poller[p] \in PollerType /\ poller[p].pc = "commit" /\ b \in SUBSET Items
      /\ b # {} /\ HasRow(f.mail) /\ \A x \in b : ItemSound(x, b)
      /\ ReadSound(p, poller[p])
  BY <1>1, PollerTyped DEF CommitCursor, PollerSound
<1>3. Oldest(p) = f /\ f \in b
  BY <1>1, <1>2, OldestIsFirst, FirstIsFirst
<1>4. f.validity = validity => Accounted(f.uid)
  BY <1>2, <1>3, ItemsAreThere
<1>5. CursorSound(c) /\ \A x \in b \ {f} : ItemSound(x, b \ {f})
  BY <1>1, <1>2, <1>4, BehindTheFirst
<1>6. PICK read : read = poller[p].read
  OBVIOUS
<1>7. PICK s : s = [poller[p] EXCEPT !.pc = "queue", !.last = c, !.read = NoCursor,
                                     !.batch = b \ {f}]
  OBVIOUS
<1>8. /\ cursor' = Updated(read, c) /\ torn' = (torn \/ cursor' \notin {cursor, c})
      /\ (read = NoCursor => cursor = NoCursor)
      /\ UNCHANGED <<mailVars, webhook, queued, refused>>
      /\ poller' = [poller EXCEPT ![p] = s]
  <2>1. [uid |-> Oldest(p).uid, validity |-> Oldest(p).validity] = c
    BY <1>1, <1>3
  <2>3. /\ cursor' = Updated(read, c) /\ UNCHANGED <<mailVars, webhook, queued, refused>>
        /\ read = NoCursor => cursor = NoCursor
    BY <1>6, <2>1 DEF CommitCursor
  <2>4. torn' = (torn \/ cursor' \notin {cursor, c})
    BY <2>1, Zenon DEF CommitCursor
  <2>5. poller' = [poller EXCEPT ![p] = s]
    BY <1>1, <1>3, <1>7, <2>1 DEF CommitCursor
  <2> QED BY <2>3, <2>4, <2>5
<1>9. c \in Cursors /\ c.validity # 0 /\ c.validity <= validity
  <2>1. f.validity # 0
    BY <1>2, <1>3, IntakeAssumption DEF Items, Validities
  <2> QED BY <1>1, <1>5, <2>1 DEF CursorSound
<1>10. /\ read \in Cursors /\ read.validity <= validity /\ (read.validity = 0 => read = NoCursor)
       /\ (read.validity # 0 => cursor.validity # 0)
       /\ (read = cursor \/ \E q \in Pollers : q # p)
  BY <1>2, <1>6 DEF PollerType, ReadSound
<1>11. /\ cursor' \in Cursors /\ cursor'.validity # 0 /\ cursor'.validity <= validity
       /\ cursor' \in {cursor, c} \/ (validity > 1 /\ \E q \in Pollers : q # p)
  BY <1>8, <1>9, <1>10, UpdateTears
<1>12. Later
  <2>1. torn => torn'
    BY <1>8
  <2> QED BY <1>8, <2>1, Numbers DEF Later, mailVars, IntakeInv
<1>13. NoCursor \in Cursors /\ CursorSound(cursor)
  BY NoCursorSound DEF IntakeInv, CursorSound
<1>14. s \in PollerType /\ s.pc = "queue" /\ s.last = c /\ s.batch = b \ {f}
  BY <1>2, <1>5, <1>7, <1>13 DEF PollerType, CursorSound
<1>15. PollerSound(s)
  BY <1>5, <1>14 DEF PollerSound
<1>16. PollerSound(s)' /\ CursorSound(c)'
  BY <1>5, <1>12, <1>14, <1>15, PollerLasts, CursorLasts DEF IntakeInv
<1>17. CursorSound(cursor)'
  <2>1. CASE torn'
    <3>1. PICK d : d = cursor'
      OBVIOUS
    <3>2. d.validity <= validity' /\ d \in Cursors /\ d.validity # 0
      BY <3>1, <1>8, <1>11 DEF mailVars
    <3>3. d.validity = validity' => torn'
      BY <2>1
    <3>4. CursorSound(d)'
      BY <3>2, <3>3 DEF CursorSound
    <3> QED BY <3>1, <3>4
  <2>2. CASE ~torn'
    <3>1. PICK d : d = cursor
      OBVIOUS
    <3>2. CursorSound(d)'
      BY <1>12, <1>13, <3>1, CursorLasts DEF IntakeInv
    <3>3. cursor' = d \/ cursor' = c
      BY <2>2, <3>1, <1>8
    <3> QED BY <1>16, <3>2, <3>3
  <2> QED BY <2>1, <2>2
<1>18. TornInv'
  <2>1. CASE torn
    BY <2>1, <1>8 DEF IntakeInv, TornInv, mailVars
  <2>2. CASE ~torn
    BY <2>2, <1>8, <1>11 DEF TornInv, mailVars
  <2> QED BY <2>1, <2>2
<1>19. queued' \subseteq Deliverable /\ refused' \subseteq Mails /\ torn' \in BOOLEAN
  BY <1>8 DEF IntakeInv, IntakeTypeOK
<1>20. ReadSound(p, s)'
  BY <1>14 DEF ReadSound
<1>21. cursor' = cursor \/ cursor'.validity # 0
  BY <1>11
<1> QED BY <1>8, <1>14, <1>16, <1>17, <1>18, <1>19, <1>20, <1>21, OnePollerMoves DEF mailVars

-----------------------------------------------------------------------------
(* The mailbox and the webhooks *)

\* A step that leaves the cursor and the pollers alone.
LEMMA PollersStay ==
  ASSUME IntakeInv, Later, IntakeTypeOK', MailboxInv', UNCHANGED <<cursor, poller, torn>>,
         \A h \in Webhooks : HookSound(h)'
  PROVE  IntakeInv'
<1>1. PICK c : c = cursor
  OBVIOUS
<1>2. CursorSound(c)' /\ cursor' = c
  BY <1>1, CursorLasts DEF IntakeInv
<1>3. CursorSound(cursor)'
  BY <1>2
<1>4. validity \in Nat /\ validity' \in Nat /\ validity <= validity'
  BY Numbers DEF Later, IntakeInv
<1>5. ASSUME NEW p \in Pollers PROVE PollerSound(poller[p])' /\ ReadSound(p, poller[p])'
  <2>1. PICK s : s = poller[p]
    OBVIOUS
  <2>2. s \in PollerType /\ PollerSound(s) /\ ReadSound(p, s)
    BY <2>1, PollerTyped
  <2>3. PollerSound(s)' /\ poller'[p] = s
    BY <2>1, <2>2, PollerLasts DEF IntakeInv
  <2>4. s.read.validity \in Nat
    BY <2>2, IntakeAssumption DEF PollerType, Cursors
  <2>5. ReadSound(p, s)'
    BY <2>2, <2>4, <1>4 DEF ReadSound
  <2> QED BY <2>3, <2>5
<1>6. TornInv'
  BY <1>4 DEF IntakeInv, TornInv
<1> QED BY <1>3, <1>5, <1>6 DEF IntakeInv

LEMMA ArriveKeeps ==
  ASSUME IntakeInv, NEW m \in Mails, Arrive(m)
  PROVE  IntakeInv'
<1>1. /\ mailbox' = Append(mailbox, m) /\ arrived' = arrived \cup {m} /\ m \notin arrived
      /\ UNCHANGED <<validity, cursor, poller, webhook, queued, refused, torn>>
  BY DEF Arrive
<1>2. mailbox \in Seq(Mails) /\ arrived \subseteq Mails /\ IsFiniteSet(arrived)
  BY IntakeAssumption, FS_Subset DEF IntakeInv, IntakeTypeOK
<1>3. /\ mailbox' \in Seq(Mails) /\ Len(mailbox') = Len(mailbox) + 1 /\ Len(mailbox) \in Nat
      /\ \A i \in 1..Len(mailbox) : mailbox'[i] = mailbox[i]
  BY <1>1, <1>2
<1>4. Cardinality(arrived') = Cardinality(arrived) + 1 /\ Cardinality(arrived) \in Nat
  BY <1>1, <1>2, FS_AddElement, FS_CardinalityType
<1>5. IntakeTypeOK'
  BY <1>1, <1>2, <1>3 DEF IntakeInv, IntakeTypeOK
<1>6. MailboxInv'
  BY <1>3, <1>4 DEF IntakeInv, MailboxInv
<1>7. Later
  BY <1>1, <1>3, Numbers DEF Later, IntakeInv
<1>8. \A h \in Webhooks : HookSound(h)'
  BY <1>1 DEF IntakeInv, HookSound, HasRow
<1> QED BY <1>1, <1>5, <1>6, <1>7, <1>8, PollersStay

LEMMA MakeAnewKeeps ==
  ASSUME IntakeInv, MakeAnew
  PROVE  IntakeInv'
<1>1. PICK n \in 0..Len(mailbox) : mailbox' = SubSeq(mailbox, n + 1, Len(mailbox))
  BY DEF MakeAnew
<1>2. /\ validity < MaxValidity /\ validity' = validity + 1
      /\ UNCHANGED <<arrived, cursor, poller, webhook, queued, refused, torn>>
  BY DEF MakeAnew
<1>3. mailbox \in Seq(Mails) /\ Len(mailbox) \in Nat /\ validity \in 1..MaxValidity
      /\ MaxValidity \in Nat /\ n \in Nat /\ n <= Len(mailbox)
  BY <1>1, IntakeAssumption DEF IntakeInv, IntakeTypeOK, Validities
<1>4. mailbox' \in Seq(Mails) /\ Len(mailbox') <= Len(mailbox) /\ Len(mailbox') \in Nat
  <2>1. \A i \in n + 1 .. Len(mailbox) : mailbox[i] \in Mails
    BY <1>3
  <2>2. SubSeq(mailbox, n + 1, Len(mailbox)) \in Seq(Mails)
    BY <1>3, <2>1, SubSeqProperties
  <2>3. Len(SubSeq(mailbox, n + 1, Len(mailbox))) = IF n + 1 <= Len(mailbox) THEN Len(mailbox) - (n + 1) + 1 ELSE 0
    BY <1>3, <2>1, SubSeqProperties
  <2> QED BY <1>1, <1>3, <2>2, <2>3
<1>5. IntakeTypeOK'
  BY <1>2, <1>3, <1>4 DEF IntakeInv, IntakeTypeOK, Validities
<1>6. MailboxInv'
  <2>1. Cardinality(arrived) \in Nat
    BY IntakeAssumption, FS_Subset, FS_CardinalityType DEF IntakeInv, IntakeTypeOK
  <2> QED BY <1>2, <1>3, <1>4, <2>1 DEF IntakeInv, MailboxInv
<1>7. Later
  BY <1>2, <1>3 DEF Later
<1>8. \A h \in Webhooks : HookSound(h)'
  BY <1>2 DEF IntakeInv, HookSound, HasRow
<1> QED BY <1>2, <1>5, <1>6, <1>7, <1>8, PollersStay

HookType == [pc : {"open", "queue", "accepted"}, left : SUBSET Texts]

\* A step of one webhook, that may queue a text.
LEMMA OneHookMoves ==
  ASSUME IntakeInv, NEW h \in Webhooks, NEW w \in HookType,
         webhook' = [webhook EXCEPT ![h] = w],
         UNCHANGED <<mailVars, cursor, poller, refused, torn>>,
         queued \subseteq queued', queued' \subseteq Deliverable, HookSound(h)'
  PROVE  IntakeInv'
<1>1. webhook \in [Webhooks -> HookType]
  BY DEF IntakeInv, IntakeTypeOK, HookType
<1>2. IntakeTypeOK'
  BY <1>1 DEF IntakeInv, IntakeTypeOK, HookType, mailVars
<1>3. MailboxInv'
  BY DEF IntakeInv, MailboxInv, mailVars
<1>4. Later
  BY Numbers DEF Later, mailVars, IntakeInv
<1>5. ASSUME NEW g \in Webhooks PROVE HookSound(g)'
  <2>1. CASE g # h
    <3>1. webhook'[g] = webhook[g] /\ HookSound(g)
      BY <1>1, <2>1 DEF IntakeInv
    <3> QED BY <3>1, <1>4, RowsLast DEF HookSound
  <2> QED BY <2>1
<1> QED BY <1>2, <1>3, <1>4, <1>5, PollersStay

LEMMA HookTyped ==
  ASSUME IntakeInv, NEW h \in Webhooks
  PROVE  webhook \in [Webhooks -> HookType] /\ webhook[h] \in HookType /\ HookSound(h)
BY DEF IntakeInv, IntakeTypeOK, HookType

LEMMA QueuedStays == IntakeInv /\ UNCHANGED queued => queued' \subseteq Deliverable /\ queued \subseteq queued'
BY DEF IntakeInv, IntakeTypeOK

LEMMA ReceiveKeeps ==
  ASSUME IntakeInv, NEW h \in Webhooks, Receive(h)
  PROVE  IntakeInv'
<1>1. PICK w : w = [pc |-> "queue", left |-> Payload[h] \cap Acceptable]
  OBVIOUS
<1>2. w \in HookType /\ webhook' = [webhook EXCEPT ![h] = w]
      /\ UNCHANGED <<mailVars, cursor, poller, queued, refused, torn>>
  BY <1>1, IntakeAssumption DEF Receive, HookType
<1>3. HookSound(h)'
  BY <1>1, <1>2, HookTyped DEF HookSound
<1> QED BY <1>2, <1>3, QueuedStays, OneHookMoves

LEMMA QueueTextKeeps ==
  ASSUME IntakeInv, NEW h \in Webhooks, QueueText(h)
  PROVE  IntakeInv'
<1>1. PICK x \in webhook[h].left :
         /\ queued' = queued \cup {Named(x)}
         /\ webhook' = [webhook EXCEPT ![h].left = @ \ {x}]
  BY DEF QueueText
<1>2. webhook[h].pc = "queue" /\ UNCHANGED <<mailVars, cursor, poller, refused, torn>>
  BY DEF QueueText
<1>3. PICK w : w = [webhook[h] EXCEPT !.left = @ \ {x}]
  OBVIOUS
<1>4. w \in HookType /\ w.pc = "queue" /\ w.left = webhook[h].left \ {x}
  BY <1>2, <1>3, HookTyped DEF HookType
<1>5. webhook' = [webhook EXCEPT ![h] = w]
  BY <1>1, <1>3
<1>6. x \in Texts /\ Named(x).of = x
  BY <1>1, HookTyped DEF HookType, Named
<1>7. queued' \subseteq Deliverable
  BY <1>1, <1>6 DEF Deliverable, IntakeInv, IntakeTypeOK
<1>8. HasRow(x)'
  BY <1>1, <1>6 DEF HasRow
<1>9. Later
  BY <1>1, <1>2, Numbers DEF Later, mailVars, IntakeInv
<1>10. webhook'[h] = w
  BY <1>5, HookTyped
<1>11. HookSound(h)'
  BY <1>2, <1>4, <1>8, <1>9, <1>10, RowsLast, HookTyped DEF HookSound
<1> QED BY <1>1, <1>2, <1>4, <1>5, <1>7, <1>11, OneHookMoves

LEMMA AcceptKeeps ==
  ASSUME IntakeInv, NEW h \in Webhooks, Accept(h)
  PROVE  IntakeInv'
<1>1. PICK w : w = [pc |-> "accepted", left |-> {}]
  OBVIOUS
<1>2. w \in HookType /\ webhook' = [webhook EXCEPT ![h] = w]
      /\ UNCHANGED <<mailVars, cursor, poller, queued, refused, torn>>
  BY <1>1 DEF Accept, HookType
<1>3. webhook[h].pc = "queue" /\ webhook[h].left = {}
  BY DEF Accept, Done
<1>4. \A x \in Payload[h] \cap Acceptable : HasRow(x)
  BY <1>3, HookTyped DEF HookSound
<1>5. HookSound(h)'
  BY <1>2, <1>4 DEF HookSound, HasRow
<1> QED BY <1>2, <1>5, QueuedStays, OneHookMoves

LEMMA WebhookFailsKeeps ==
  ASSUME IntakeInv, NEW h \in Webhooks, WebhookFails(h)
  PROVE  IntakeInv'
<1>1. PICK w : w = [pc |-> "open", left |-> {}]
  OBVIOUS
<1>2. w \in HookType /\ webhook' = [webhook EXCEPT ![h] = w] /\ w.pc = "open"
      /\ UNCHANGED <<mailVars, cursor, poller, queued, refused, torn>>
  BY <1>1 DEF WebhookFails, HookType
<1>3. webhook'[h] = w
  BY <1>2, HookTyped
<1>4. HookSound(h)'
  BY <1>2, <1>3 DEF HookSound
<1> QED BY <1>2, <1>4, QueuedStays, OneHookMoves

-----------------------------------------------------------------------------
(* The intake *)

LEMMA IntakeStarts == IntakeInit => IntakeInv
<1> SUFFICES ASSUME IntakeInit PROVE IntakeInv
  OBVIOUS
<1>1. IntakeTypeOK
  <2>1. MaxValidity \in Nat \ {0} /\ Cardinality(Mails) \in Nat
    BY IntakeAssumption, FS_CardinalityType
  <2>2. NoCursor \in Cursors /\ 1 \in Validities
    BY <2>1 DEF NoCursor, Cursors, Validities
  <2>3. PollerAt("down") \in PollerType
    BY <2>2 DEF PollerAt, PollerType
  <2>4. poller \in [Pollers -> PollerType] /\ torn \in BOOLEAN
    BY <2>3 DEF IntakeInit
  <2>5. webhook \in [Webhooks -> HookType] /\ queued \subseteq Deliverable
    BY DEF IntakeInit, HookType
  <2> QED BY <2>2, <2>4, <2>5 DEF IntakeInit, IntakeTypeOK, PollerType, HookType
<1>2. MailboxInv
  BY FS_EmptySet DEF IntakeInit, MailboxInv
<1>3. CursorSound(NoCursor)
  BY <1>1, NoCursorSound
<1>4. ASSUME NEW p \in Pollers PROVE PollerSound(poller[p]) /\ ReadSound(p, poller[p])
  BY <1>3 DEF IntakeInit, PollerSound, ReadSound, PollerAt
<1>5. \A h \in Webhooks : HookSound(h)
  BY DEF IntakeInit, HookSound
<1> QED BY <1>1, <1>2, <1>3, <1>4, <1>5 DEF IntakeInv, IntakeInit, TornInv

LEMMA IntakeStays ==
  ASSUME IntakeInv, UNCHANGED <<intakeVars, queued>>
  PROVE  IntakeInv'
<1>1. UNCHANGED <<mailbox, validity, arrived, cursor, poller, webhook, refused, torn, queued>>
  BY DEF intakeVars, mailVars
<1>2. IntakeTypeOK' /\ MailboxInv'
  BY <1>1 DEF IntakeInv, IntakeTypeOK, MailboxInv
<1>3. Later
  BY <1>1, Numbers DEF Later, IntakeInv
<1>4. \A h \in Webhooks : HookSound(h)'
  BY <1>1 DEF IntakeInv, HookSound, HasRow
<1> QED BY <1>1, <1>2, <1>3, <1>4, PollersStay

LEMMA IntakeStep == IntakeInv /\ [IntakeNext]_<<intakeVars, queued>> => IntakeInv'
<1> SUFFICES ASSUME IntakeInv, IntakeNext \/ UNCHANGED <<intakeVars, queued>>
             PROVE  IntakeInv'
  OBVIOUS
<1>1. CASE MakeAnew
  BY <1>1, MakeAnewKeeps
<1>2. ASSUME NEW m \in Mails, Arrive(m) PROVE IntakeInv'
  BY <1>2, ArriveKeeps
<1>3. ASSUME NEW p \in Pollers, Start(p) PROVE IntakeInv'
  BY <1>3, PollerRests DEF Start
<1>4. ASSUME NEW p \in Pollers, ReadCursor(p) PROVE IntakeInv'
  BY <1>4, ReadCursorKeeps
<1>5. ASSUME NEW p \in Pollers, FetchAfter(p) PROVE IntakeInv'
  BY <1>5, FetchAfterKeeps
<1>6. ASSUME NEW p \in Pollers, QueueMail(p) PROVE IntakeInv'
  BY <1>6, PassKeeps, QueueingKeeps
<1>7. ASSUME NEW p \in Pollers, CommitCursor(p) PROVE IntakeInv'
  BY <1>7, CommitCursorKeeps
<1>8. ASSUME NEW p \in Pollers, EndPoll(p) PROVE IntakeInv'
  BY <1>8, PollerRests DEF EndPoll
<1>9. ASSUME NEW p \in Pollers, PollFails(p) PROVE IntakeInv'
  BY <1>9, PollerRests DEF PollFails
<1>10. ASSUME NEW h \in Webhooks, HookStep(h) \/ WebhookFails(h) PROVE IntakeInv'
  BY <1>10, ReceiveKeeps, QueueTextKeeps, AcceptKeeps, WebhookFailsKeeps DEF HookStep
<1>11. ASSUME NEW p \in Pollers, LoadCursor(p) PROVE IntakeInv'
  BY <1>11, LoadCursorKeeps
<1>12. CASE UNCHANGED <<intakeVars, queued>>
  BY <1>12, IntakeStays
<1> QED BY <1>1, <1>2, <1>3, <1>4, <1>5, <1>6, <1>7, <1>8, <1>9, <1>10, <1>11, <1>12
       DEF IntakeNext, PollStep

\* What the intake keeps: what the cursor, what a poller has read or fetched
\* and what a webhook has still to queue say of the jobs, as long as no cursor is
\* torn, and what it takes to tear one (EmailPollingService,
\* receive_whatsapp_webhook).
THEOREM IntakeInvariant == IntakeSpec => []IntakeInv
<1>1. IntakeInit => IntakeInv
  BY IntakeStarts
<1>2. IntakeInv /\ [IntakeNext]_<<intakeVars, queued>> => IntakeInv'
  BY IntakeStep
<1> QED BY <1>1, <1>2, PTL DEF IntakeSpec

\* So no message is passed and no accepted text is missing.
LEMMA IntakeSafe == IntakeInv => IntakeTypeOK /\ NothingIsPassed /\ AcceptedIsQueued
<1> SUFFICES ASSUME IntakeInv PROVE IntakeTypeOK /\ NothingIsPassed /\ AcceptedIsQueued
  OBVIOUS
<1>1. IntakeTypeOK
  BY DEF IntakeInv
<1>2. ASSUME ~torn PROVE PassedIsQueued
  <2> SUFFICES ASSUME cursor.validity = validity, NEW i \in DOMAIN mailbox, i <= cursor.uid
               PROVE  HasRow(mailbox[i]) \/ mailbox[i] \in refused
    BY DEF PassedIsQueued
  <2>1. i \in 1..Len(mailbox)
    BY <1>1 DEF IntakeTypeOK
  <2>2. cursor.uid \in Nat
    BY <1>1, IntakeAssumption, FS_CardinalityType DEF IntakeTypeOK, Cursors
  <2>3. i \in 1..cursor.uid
    BY <2>1, <2>2, <1>1, Numbers
  <2> QED BY <1>2, <2>3 DEF IntakeInv, CursorSound, Accounted
<1>3. AcceptedIsQueued
  BY DEF IntakeInv, HookSound, AcceptedIsQueued
<1>4. TornInv
  BY DEF IntakeInv
<1> QED BY <1>1, <1>2, <1>3, <1>4 DEF NothingIsPassed, TornInv

-----------------------------------------------------------------------------
(* The jobs and the intake together *)

\* Every step of the flow is one of the intake or leaves it alone, and one of
\* the jobs or leaves them alone.
LEMMA FlowStepsAreSteps ==
  ASSUME [FlowNext]_flowVars
  PROVE  [Next]_vars /\ [IntakeNext]_<<intakeVars, queued>>
<1>1. CASE Intake(IntakeNext)
  <2>1. CASE queued' = queued
    BY <1>1, <2>1 DEF Intake
  <2>2. CASE queued' # queued
    <3>1. PICK e : Enqueue(e)
      BY <1>1, <2>2 DEF Intake
    <3>2. e \in Events
      BY <3>1 DEF Enqueue, Events
    <3> QED BY <1>1, <3>1, <3>2 DEF Intake, Next, Calm
  <2> QED BY <2>1, <2>2
<1>2. CASE ~Intake(IntakeNext) /\ FlowNext
  BY <1>2 DEF FlowNext, Work
<1>3. CASE UNCHANGED flowVars
  BY <1>3 DEF flowVars
<1> QED BY <1>1, <1>2, <1>3

\* The composition does what each of its parts promises: the workers see no
\* more of the poller and the webhook than calls of enqueue (app/main.py).
THEOREM FlowKeepsItsParts == FlowSpec => Spec /\ IntakeSpec
<1>1. FlowInit => Init /\ IntakeInit
  BY DEF FlowInit
<1>2. [FlowNext]_flowVars => [Next]_vars /\ [IntakeNext]_<<intakeVars, queued>>
  BY FlowStepsAreSteps
<1> QED BY <1>1, <1>2, PTL DEF FlowSpec, Spec, IntakeSpec

Present == {e \in JobEvents : job[e].status # "absent"}

\* A job, once it is there, is never deleted.
LEMMA JobsStay ==
  ASSUME IngestionInv, Next, NEW e \in Events, job[e].status # "absent"
  PROVE  job'[e].status # "absent"
<1>1. job \in [Events -> JobType]
  BY DEF IngestionInv, TypeOK
<1>2. ASSUME NEW f \in Events, NEW s \in JobType, s.status # "absent", job' = [job EXCEPT ![f] = s]
      PROVE  job'[e].status # "absent"
  BY <1>1, <1>2
<1>3. ASSUME NEW f \in Events, Enqueue(f) \/ JobGrowsOld(f) \/ ClaimGoesStale(f)
      PROVE  job'[e].status # "absent"
  BY <1>1, <1>3 DEF Enqueue, JobGrowsOld, ClaimGoesStale, JobType
<1>4. ASSUME NEW w \in Workers, StartWorker(w)
      PROVE  job'[e].status # "absent"
  BY <1>1, <1>4 DEF StartWorker, JobType
<1>5. ASSUME NEW w \in Workers, NEW f \in Events, ClaimJob(w, f)
      PROVE  job'[e].status # "absent"
  BY <1>1, <1>5 DEF ClaimJob, JobType
<1>6. ASSUME NEW t \in Tasks, CompleteJob(t) PROVE job'[e].status # "absent"
  BY <1>1, <1>6 DEF CompleteJob, JobType
<1>7. ASSUME NEW t \in Tasks, SettleJob(t) PROVE job'[e].status # "absent"
  <2>1. Settled(t) # "absent"
    BY DEF Settled
  <2> QED BY <1>1, <1>7, <2>1 DEF SettleJob, JobType
<1>8. ASSUME NEW t \in Tasks, Step(t) PROVE job'[e].status # "absent"
  BY <1>6, <1>7, <1>8 DEF Step, ClaimRequest, FindThread, InsertIngestion, InvokeGraph, GraphReturns,
     FinishIngestion, CompleteClaim, FailIngestion, FailClaim, rows
<1>9. ASSUME NEW t \in Tasks, StepFails(t) \/ Crash(t) PROVE job'[e].status # "absent"
  BY <1>9 DEF StepFails, Crash, rows
<1>10. ASSUME NEW c \in Clients, NEW f \in Events, Submit(c, f) PROVE job'[e].status # "absent"
  BY <1>10 DEF Submit, rows
<1> QED BY <1>3, <1>4, <1>5, <1>8, <1>9, <1>10 DEF Next, Calm

\* A step of the intake queues one event or none.
LEMMA OneIsQueued ==
  ASSUME IntakeNext, NEW e \in queued' \ queued
  PROVE  queued' = queued \cup {e}
<1>1. CASE MakeAnew \/ \E m \in Mails : Arrive(m)
  BY <1>1 DEF MakeAnew, Arrive
<1>2. ASSUME NEW p \in Pollers, PollStep(p) \/ PollFails(p) PROVE queued' = queued \cup {e}
  BY <1>2 DEF PollStep, PollFails, Start, ReadCursor, FetchAfter, QueueMail, LoadCursor, CommitCursor, EndPoll
<1>3. ASSUME NEW h \in Webhooks, HookStep(h) \/ WebhookFails(h) PROVE queued' = queued \cup {e}
  BY <1>3 DEF HookStep, WebhookFails, Receive, QueueText, Accept
<1> QED BY <1>1, <1>2, <1>3 DEF IntakeNext

LEMMA OnlyGrows ==
  ASSUME IntakeNext PROVE queued \subseteq queued'
<1>1. CASE MakeAnew \/ \E m \in Mails : Arrive(m)
  BY <1>1 DEF MakeAnew, Arrive
<1>2. ASSUME NEW p \in Pollers, PollStep(p) \/ PollFails(p) PROVE queued \subseteq queued'
  BY <1>2 DEF PollStep, PollFails, Start, ReadCursor, FetchAfter, QueueMail, LoadCursor, CommitCursor, EndPoll
<1>3. ASSUME NEW h \in Webhooks, HookStep(h) \/ WebhookFails(h) PROVE queued \subseteq queued'
  BY <1>3 DEF HookStep, WebhookFails, Receive, QueueText, Accept
<1> QED BY <1>1, <1>2, <1>3 DEF IntakeNext

FlowInv ==
  /\ IngestionInv
  /\ IntakeInv
  /\ queued = Present

LEMMA FlowStep == FlowInv /\ [FlowNext]_flowVars => FlowInv'
<1> SUFFICES ASSUME FlowInv, [FlowNext]_flowVars PROVE FlowInv'
  OBVIOUS
<1>1. [Next]_vars /\ [IntakeNext]_<<intakeVars, queued>>
  BY FlowStepsAreSteps
<1>2. IngestionInv' /\ IntakeInv'
  BY <1>1, IngestionInvNext, IntakeStep DEF FlowInv
<1>3. JobEvents \subseteq Events /\ job \in [Events -> JobType]
  BY DEF Events, FlowInv, IngestionInv, TypeOK
<1>4. CASE Intake(IntakeNext)
  <2>1. CASE queued' = queued
    BY <1>2, <1>4, <2>1 DEF Intake, vars, FlowInv, Present
  <2>2. CASE queued' # queued
    <3>1. PICK e \in queued' \ queued : Enqueue(e)
      BY <1>4, <2>2 DEF Intake
    <3>2. queued' = queued \cup {e}
      BY <1>4, <3>1, OneIsQueued DEF Intake
    <3>3. e \in JobEvents /\ job' = [job EXCEPT ![e].status = "pending"]
      BY <3>1 DEF Enqueue
    <3>4. \A f \in JobEvents : job'[f].status # "absent" <=> f = e \/ job[f].status # "absent"
      BY <1>3, <3>3 DEF JobType
    <3>5. Present' = Present \cup {e}
      BY <3>3, <3>4 DEF Present
    <3> QED BY <3>2, <3>5, <1>2 DEF FlowInv
  <2> QED BY <1>2, <2>1, <2>2 DEF FlowInv
<1>5. CASE ~Intake(IntakeNext) /\ FlowNext
  <2>1. /\ Next /\ queued' = queued
        /\ \A e \in JobEvents : job[e].status = "absent" => job'[e].status = "absent"
    BY <1>5 DEF FlowNext, Work
  <2>2. \A e \in JobEvents : job[e].status # "absent" => job'[e].status # "absent"
    BY <1>3, <2>1, JobsStay DEF FlowInv
  <2>3. Present' = Present
    BY <2>1, <2>2 DEF Present
  <2> QED BY <1>2, <2>1, <2>3 DEF FlowInv
<1>6. CASE UNCHANGED flowVars
  BY <1>2, <1>6 DEF flowVars, vars, FlowInv, Present
<1> QED BY <1>4, <1>5, <1>6

\* What the jobs keep, what the intake keeps, and that a row is queued for
\* exactly the events the intake has queued (ChannelJobService.enqueue).
THEOREM FlowInvariant == FlowSpec => []FlowInv
<1>1. FlowInit => FlowInv
  BY IngestionInvInit, IntakeStarts DEF FlowInit, FlowInv, Present, Init, IntakeInit, Events
<1>2. FlowInv /\ [FlowNext]_flowVars => FlowInv'
  BY FlowStep
<1> QED BY <1>1, <1>2, PTL DEF FlowSpec

\* No message is lost on its way in: the cursor passes none that has no job, and
\* what a webhook accepted has its jobs, whatever fails or reconnects. One
\* poller alone never loses one, nor do two of a mailbox that is never made anew:
\* it takes both to tear the cursor (EmailPollingService.poll_source,
\* receive_whatsapp_webhook, ChannelJobService.enqueue).
THEOREM NoMessageIsLost == FlowSpec => []NothingIsLost
<1>1. FlowInv => NothingIsLost
  BY IntakeSafe DEF FlowInv, NothingIsLost, Present
<1> QED BY <1>1, FlowInvariant, PTL
=============================================================================
