------------------------ MODULE FollowUpJobs_proofs ------------------------
(***************************************************************************)
(* Proofs about FollowUpJobs, for any number of reminders, workers and      *)
(* attempts. The argument is one of custody: the job a worker holds is not  *)
(* open, so nobody else can claim it, until its holder lets go of it or a   *)
(* starting worker recovers it.                                             *)
(***************************************************************************)
EXTENDS FollowUpJobs, TLAPS

-----------------------------------------------------------------------------
(* How facts, jobs and workers move *)

Taken == {"processing", "completed", "cancelled"}
Holds(w, j) == worker[w].pc \in Holding /\ worker[w].job = j
Prompt(w) == worker[w].late => worker[w].pc \notin {"send", "record"}

(* What is known only grows, and a missing checkpoint stays missing.         *)
FactsGrow ==
  /\ record \subseteq record'
  /\ replied => replied'
  /\ recovered \subseteq recovered'
  /\ \A j \in Followups : sends[j] > 0 => sends'[j] > 0
  /\ (thread' = "missing") <=> (thread = "missing")

(* A worker goes on with its job, or holds none afterwards.                  *)
Onward(w) ==
  worker'[w].pc \in Holding =>
    worker[w].pc \in Holding /\ worker'[w].job = worker[w].job

Releases(w, j) == Holds(w, j) /\ worker'[w].pc \notin Holding

JobsStayTaken ==
  \A j \in Followups :
    \/ thread = "missing" \/ j \in recovered'
    \/ job[j].status \in Taken => job'[j].status \in Taken
    \/ \E w \in Workers : Releases(w, j)

(* Custody: nobody gains a job, and only holders and recovery give one up.   *)
LEMMA CustodyKeeps ==
  ASSUME FollowUpInv, FactsGrow, JobsStayTaken, WorkersAreSound',
         \A w \in Workers : Onward(w)
  PROVE  HeldIsTaken' /\ OneHolder' /\ OneSender'
PROOF
  <1>1. ASSUME NEW w \in Workers, worker'[w].pc \in Holding
        PROVE  worker[w].pc \in Holding /\ worker'[w].job = worker[w].job /\ worker[w].job \in Followups
    BY <1>1 DEF Onward, FollowUpInv, WorkersAreSound, SoundWorker
  <1>2. HeldIsTaken'
    <2> SUFFICES ASSUME thread' # "missing", NEW w \in Workers,
                        worker'[w].pc \in Holding, worker'[w].job \notin recovered'
                 PROVE  job'[worker'[w].job].status \in Taken
      BY DEF HeldIsTaken, Taken
    <2> DEFINE j == worker[w].job
    <2>1. Holds(w, j) /\ j \in Followups /\ j = worker'[w].job /\ thread # "missing"
      BY <1>1 DEF Holds, FactsGrow
    <2>2. j \notin recovered /\ job[j].status \in Taken
      BY <2>1 DEF FactsGrow, FollowUpInv, HeldIsTaken, Holds, Taken
    <2>3. ~\E v \in Workers : Releases(v, j)
      BY <2>1, <2>2 DEF Releases, Holds, FollowUpInv, OneHolder
    <2>4. job'[j].status \in Taken
      BY <2>1, <2>2, <2>3 DEF JobsStayTaken
    <2> QED
      BY <2>1, <2>4 DEF Taken
  <1>3. OneHolder'
    BY <1>1 DEF OneHolder, FollowUpInv, FactsGrow
  <1>4. OneSender'
    BY <1>3 DEF OneHolder, OneSender, WorkersAreSound, SoundWorker, Holding, TryPoints
  <1> QED
    BY <1>2, <1>3, <1>4

(* A worker that does nothing stays sound when facts grow.                   *)
LEMMA SoundKeeps ==
  ASSUME FollowUpInv, FactsGrow, NEW w \in Workers, worker'[w] = worker[w]
  PROVE  SoundWorker(w)' /\ Prompt(w)' /\ Onward(w)
PROOF
  <1>1. SoundWorker(w) /\ Prompt(w)
    BY DEF FollowUpInv, WorkersAreSound, NoLateReminder, Prompt
  <1>2. worker[w].pc \in {"record", "complete"} => worker[w].job \in Followups
    BY <1>1 DEF SoundWorker, Holding, TryPoints
  <1> QED
    BY <1>1, <1>2 DEF SoundWorker, Prompt, Onward, FactsGrow, Holding, TryPoints

(* Steps of the surroundings: no worker moves.                               *)
LEMMA SurroundingsKeep ==
  ASSUME FollowUpInv, TypeOK', worker' = worker, FactsGrow, JobsStayTaken, CompletedWasSent'
  PROVE  FollowUpInv'
PROOF
  <1>1. \A w \in Workers : SoundWorker(w)' /\ Prompt(w)' /\ Onward(w)
    BY SoundKeeps
  <1>2. WorkersAreSound' /\ NoLateReminder'
    BY <1>1 DEF WorkersAreSound, NoLateReminder, Prompt
  <1>3. HeldIsTaken' /\ OneHolder' /\ OneSender'
    BY <1>1, <1>2, CustodyKeeps
  <1> QED
    BY <1>2, <1>3 DEF FollowUpInv

(* Steps of one worker.                                                      *)
OnlyMoves(w) == \A v \in Workers \ {w} : worker'[v] = worker[v]

LEMMA WorkerKeeps ==
  ASSUME FollowUpInv, TypeOK', NEW w \in Workers, OnlyMoves(w), FactsGrow, JobsStayTaken,
         CompletedWasSent', SoundWorker(w)', Prompt(w)', Onward(w)
  PROVE  FollowUpInv'
PROOF
  <1>1. \A v \in Workers : SoundWorker(v)' /\ Prompt(v)' /\ Onward(v)
    BY SoundKeeps DEF OnlyMoves
  <1>2. WorkersAreSound' /\ NoLateReminder'
    BY <1>1 DEF WorkersAreSound, NoLateReminder, Prompt
  <1>3. HeldIsTaken' /\ OneHolder' /\ OneSender'
    BY <1>1, <1>2, CustodyKeeps
  <1> QED
    BY <1>2, <1>3 DEF FollowUpInv

-----------------------------------------------------------------------------
(* Moves of a worker *)

LEMMA GotoMoves ==
  ASSUME TypeOK, NEW w \in Workers, NEW point \in Points, Goto(w, point)
  PROVE  /\ worker' \in [Workers -> WorkerType] /\ OnlyMoves(w)
         /\ worker'[w] = [worker[w] EXCEPT !.pc = point]
         /\ worker'[w].pc = point
         /\ worker'[w].job = worker[w].job /\ worker'[w].late = worker[w].late
PROOF
  BY DEF TypeOK, Goto, OnlyMoves, WorkerType

LEMMA RestMoves ==
  ASSUME TypeOK, NEW w \in Workers, NEW point \in {"down", "start", "idle"}, Rest(w, point)
  PROVE  /\ worker' \in [Workers -> WorkerType] /\ OnlyMoves(w)
         /\ worker'[w].pc = point /\ worker'[w].late = FALSE
         /\ SoundWorker(w)' /\ Prompt(w)' /\ Onward(w)
PROOF
  <1>1. Resting(point) \in WorkerType /\ Resting(point).pc = point /\ Resting(point).late = FALSE
    BY DEF Resting, WorkerType, Points
  <1>2. worker' \in [Workers -> WorkerType] /\ OnlyMoves(w) /\ worker'[w] = Resting(point)
    BY <1>1 DEF Rest, TypeOK, OnlyMoves
  <1> QED
    BY <1>1, <1>2 DEF SoundWorker, Prompt, Onward, Holding, TryPoints

(* What the batch updates do to each job. *)
LEMMA ScheduledQuiet ==
  ASSUME TypeOK
  PROVE  /\ Scheduled \in [Followups -> JobType]
         /\ \A j \in Followups :
              /\ Scheduled[j].status = "completed" => job[j].status = "completed"
              /\ job[j].status \in Taken => Scheduled[j] = job[j]
PROOF
  BY DEF TypeOK, Scheduled, JobType, JobStatuses, Taken

LEMMA OpenCancelledQuiet ==
  ASSUME TypeOK
  PROVE  /\ OpenCancelled \in [Followups -> JobType]
         /\ \A j \in Followups :
              /\ OpenCancelled[j].status = "completed" => job[j].status = "completed"
              /\ job[j].status \in Taken => OpenCancelled[j] = job[j]
PROOF
  BY DEF TypeOK, OpenCancelled, JobType, JobStatuses, Taken, Open

LEMMA SetStatusSets ==
  ASSUME TypeOK, NEW j \in Followups, NEW status \in JobStatuses, SetStatus(j, status)
  PROVE  /\ job' \in [Followups -> JobType]
         /\ job'[j].status = status
         /\ \A i \in Followups \ {j} : job'[i] = job[i]
PROOF
  BY DEF TypeOK, SetStatus, JobType

-----------------------------------------------------------------------------
(* The actions *)

(* Batch updates leave taken jobs alone and complete none. *)
LEMMA BatchPreserves ==
  ASSUME FollowUpInv, job' = Scheduled \/ job' = OpenCancelled, UNCHANGED <<worker, recovered>>,
         UNCHANGED <<record, sends, thread>>, quotation' \in {"draft", "sent"},
         replied' \in BOOLEAN, replied => replied',
         lead' \subseteq {"won", "lost"}, unwritten' \subseteq {"won", "lost", "open"}
  PROVE  FollowUpInv'
PROOF
  <1>1. /\ job' \in [Followups -> JobType]
        /\ \A j \in Followups :
             /\ job'[j].status = "completed" => job[j].status = "completed"
             /\ job[j].status \in Taken => job'[j] = job[j]
    BY ScheduledQuiet, OpenCancelledQuiet DEF FollowUpInv
  <1>2. TypeOK'
    BY <1>1 DEF FollowUpInv, TypeOK
  <1>3. FactsGrow /\ JobsStayTaken
    BY <1>1 DEF FactsGrow, JobsStayTaken, Taken
  <1>4. CompletedWasSent'
    BY <1>1 DEF FollowUpInv, CompletedWasSent
  <1> QED
    BY <1>2, <1>3, <1>4, SurroundingsKeep

LEMMA SurroundingsPreserve ==
  ASSUME FollowUpInv,
         \/ SendQuotation \/ ScheduleFollowups \/ Reply \/ GraphCancels \/ OrderWon
         \/ CloseLost \/ ReopenLead \/ UpdateCheckpoint
  PROVE  FollowUpInv'
PROOF
  <1>1. CASE SendQuotation \/ ScheduleFollowups \/ Reply \/ GraphCancels
    BY <1>1, BatchPreserves
       DEF SendQuotation, ScheduleFollowups, Reply, GraphCancels, facts, FollowUpInv, TypeOK
  <1>2. CASE OrderWon \/ CloseLost
    BY <1>2, BatchPreserves DEF OrderWon, CloseLost, FollowUpInv, TypeOK
  <1>3. CASE ReopenLead \/ UpdateCheckpoint
    <2>1. TypeOK' /\ FactsGrow /\ CompletedWasSent'
      BY <1>3 DEF ReopenLead, UpdateCheckpoint, FollowUpInv, TypeOK, FactsGrow, CompletedWasSent
    <2>2. JobsStayTaken
      BY <1>3 DEF ReopenLead, UpdateCheckpoint, JobsStayTaken, Taken
    <2> QED
      BY <1>3, <2>1, <2>2, SurroundingsKeep DEF ReopenLead, UpdateCheckpoint
  <1> QED
    BY <1>1, <1>2, <1>3

LEMMA OneJobPreserves ==
  ASSUME FollowUpInv, NEW j \in Followups, CancelJob(j) \/ RetryJob(j) \/ JobGrowsOld(j)
  PROVE  FollowUpInv'
PROOF
  <1>1. /\ job' \in [Followups -> JobType]
        /\ \A i \in Followups \ {j} : job'[i] = job[i]
        /\ job[j].status \in Taken => job'[j].status \in Taken
        /\ job'[j].status = "completed" => job[j].status = "completed"
    <2>1. CASE CancelJob(j)
      BY <2>1, SetStatusSets DEF CancelJob, FollowUpInv, JobStatuses, Taken
    <2>2. CASE RetryJob(j)
      BY <2>2, SetStatusSets DEF RetryJob, Retryable, FollowUpInv, JobStatuses, Taken
    <2>3. CASE JobGrowsOld(j)
      <3>1. job \in [Followups -> JobType]
        BY DEF FollowUpInv, TypeOK
      <3>2. job' = [job EXCEPT ![j] = [job[j] EXCEPT !.old = TRUE]]
        BY <2>3 DEF JobGrowsOld
      <3>3. [job[j] EXCEPT !.old = TRUE] \in JobType
        BY <3>1 DEF JobType
      <3>4. [job[j] EXCEPT !.old = TRUE].status = job[j].status
        BY <3>1 DEF JobType
      <3> QED
        BY <3>1, <3>2, <3>3, <3>4
    <2> QED
      BY <2>1, <2>2, <2>3
  <1>2. UNCHANGED <<facts, recovered, worker>>
    BY DEF CancelJob, RetryJob, JobGrowsOld
  <1>3. TypeOK' /\ FactsGrow /\ CompletedWasSent'
    BY <1>1, <1>2 DEF FollowUpInv, TypeOK, facts, FactsGrow, CompletedWasSent
  <1>4. JobsStayTaken
    BY <1>1 DEF JobsStayTaken, Taken
  <1> QED
    BY <1>2, <1>3, <1>4, SurroundingsKeep

LEMMA StartPreserves ==
  ASSUME FollowUpInv, NEW w \in Workers, StartWorker(w)
  PROVE  FollowUpInv'
PROOF
  <1>1. /\ worker' \in [Workers -> WorkerType] /\ OnlyMoves(w)
        /\ SoundWorker(w)' /\ Prompt(w)' /\ Onward(w)
    BY RestMoves DEF StartWorker, FollowUpInv
  <1>2. /\ job' \in [Followups -> JobType]
        /\ recovered' \subseteq Followups /\ recovered \subseteq recovered'
        /\ \A j \in Followups : j \in recovered' \/ job'[j] = job[j]
        /\ \A j \in Followups : job'[j].status = "completed" => job[j].status = "completed"
    BY DEF StartWorker, Recoverable, FollowUpInv, TypeOK, JobType, JobStatuses
  <1>3. TypeOK' /\ FactsGrow /\ CompletedWasSent'
    BY <1>1, <1>2 DEF StartWorker, facts, FollowUpInv, TypeOK, FactsGrow, CompletedWasSent
  <1>4. JobsStayTaken
    BY <1>2 DEF JobsStayTaken, Taken
  <1> QED
    BY <1>1, <1>3, <1>4, WorkerKeeps

LEMMA ReconcilePreserves ==
  ASSUME FollowUpInv, NEW w \in Workers, Reconcile(w)
  PROVE  FollowUpInv'
PROOF
  <1>1. /\ worker' \in [Workers -> WorkerType] /\ OnlyMoves(w)
        /\ SoundWorker(w)' /\ Prompt(w)' /\ Onward(w)
    BY RestMoves DEF Reconcile, FollowUpInv
  <1>2. /\ job' \in [Followups -> JobType]
        /\ \A j \in Followups :
             /\ job'[j].status = "completed" => job[j].status = "completed"
             /\ job[j].status \in Taken => job'[j] = job[j]
    BY ScheduledQuiet DEF Reconcile, FollowUpInv, TypeOK
  <1>3. TypeOK' /\ FactsGrow /\ CompletedWasSent'
    BY <1>1, <1>2 DEF Reconcile, facts, FollowUpInv, TypeOK, FactsGrow, CompletedWasSent
  <1>4. JobsStayTaken
    BY <1>2 DEF JobsStayTaken, Taken
  <1> QED
    BY <1>1, <1>3, <1>4, WorkerKeeps

(* An open job has no holder: the claim makes its worker the only one. *)
LEMMA ClaimPreserves ==
  ASSUME FollowUpInv, NEW w \in Workers, NEW j \in Followups, ClaimDueJob(w, j)
  PROVE  FollowUpInv'
PROOF
  <1>1. /\ worker' \in [Workers -> WorkerType] /\ OnlyMoves(w)
        /\ worker'[w].pc = "load" /\ worker'[w].job = j
        /\ worker'[w].late => replied \/ j \in record
    BY DEF ClaimDueJob, FollowUpInv, TypeOK, WorkerType, Points, TryPoints, OnlyMoves, JobType
  <1>2. /\ job' \in [Followups -> JobType] /\ job'[j].status = "processing"
        /\ \A i \in Followups \ {j} : job'[i] = job[i]
    BY DEF ClaimDueJob, FollowUpInv, TypeOK, JobType, JobStatuses
  <1>3. UNCHANGED <<record, sends, quotation, replied, thread, lead, unwritten, recovered>>
    BY DEF ClaimDueJob, facts
  <1>4. TypeOK' /\ FactsGrow /\ CompletedWasSent'
    BY <1>1, <1>2, <1>3 DEF FollowUpInv, TypeOK, FactsGrow, CompletedWasSent
  <1>5. \A v \in Workers : SoundWorker(v)' /\ Prompt(v)'
    <2>1. SoundWorker(w)' /\ Prompt(w)'
      BY <1>1, <1>3 DEF SoundWorker, Prompt
    <2> QED
      BY <1>1, <1>4, <2>1, SoundKeeps DEF OnlyMoves
  <1>6. WorkersAreSound' /\ NoLateReminder'
    BY <1>5 DEF WorkersAreSound, NoLateReminder, Prompt
  <1>7. thread # "missing" /\ j \notin recovered => \A v \in Workers : ~Holds(v, j)
    BY DEF ClaimDueJob, Open, FollowUpInv, HeldIsTaken, Holds
  <1>8. HeldIsTaken'
    BY <1>1, <1>2, <1>3, <1>6 DEF HeldIsTaken, FollowUpInv, OnlyMoves, WorkersAreSound, SoundWorker
  <1>9. OneHolder'
    BY <1>1, <1>3, <1>7 DEF OneHolder, FollowUpInv, OnlyMoves, Holds
  <1>10. OneSender'
    BY <1>6, <1>9 DEF OneHolder, OneSender, WorkersAreSound, SoundWorker, Holding, TryPoints
  <1> QED
    BY <1>4, <1>6, <1>8, <1>9, <1>10 DEF FollowUpInv

(* A worker goes to another point and nothing else changes. *)
LEMMA PlainMovePreserves ==
  ASSUME FollowUpInv, NEW w \in Workers, NEW point \in Points, Goto(w, point),
         worker[w].pc \in Holding, point \in Holding,
         UNCHANGED <<job, facts, recovered>>,
         worker[w].late => point \notin {"send", "record"},
         point \notin {"record", "complete"},
         point = "dead" => thread = "missing",
         point \in {"check", "send"} => thread # "missing"
  PROVE  FollowUpInv'
PROOF
  <1>1. TypeOK
    BY DEF FollowUpInv
  <1>2. /\ worker' \in [Workers -> WorkerType] /\ OnlyMoves(w)
        /\ worker'[w].pc = point
        /\ worker'[w].job = worker[w].job /\ worker'[w].late = worker[w].late
    BY <1>1, GotoMoves
  <1>3. TypeOK' /\ FactsGrow /\ CompletedWasSent' /\ JobsStayTaken
    BY <1>2 DEF FollowUpInv, TypeOK, facts, FactsGrow, CompletedWasSent, JobsStayTaken, Taken
  <1>4. SoundWorker(w)
    BY DEF FollowUpInv, WorkersAreSound
  <1>5. SoundWorker(w)' /\ Prompt(w)' /\ Onward(w)
    BY <1>2, <1>4 DEF SoundWorker, Prompt, Onward, facts
  <1> QED
    BY <1>2, <1>3, <1>5, WorkerKeeps

LEMMA ReadingPreserves ==
  ASSUME FollowUpInv, NEW w \in Workers, LoadState(w) \/ CheckEligibility(w) \/ StepFails(w)
  PROVE  FollowUpInv'
PROOF
  <1>1. SoundWorker(w)
    BY DEF FollowUpInv, WorkersAreSound
  <1>2. CASE LoadState(w)
    <2> DEFINE point == CASE thread = "missing" -> "dead"
                          [] thread \in {"won", "lost"} -> "cancel"
                          [] OTHER              -> "check"
    <2>1. point \in {"dead", "cancel", "check"} /\ (point = "dead" <=> thread = "missing")
      OBVIOUS
    <2>2. Goto(w, point) /\ UNCHANGED <<job, facts, recovered>> /\ worker[w].pc \in Holding
      BY <1>2 DEF LoadState, Holding, TryPoints
    <2> HIDE DEF point
    <2> QED
      BY <2>1, <2>2, PlainMovePreserves DEF Holding, TryPoints, Points
  <1>3. CASE CheckEligibility(w)
    <2> DEFINE point == IF Eligible(worker[w].job) THEN "send" ELSE "cancel"
    <2>1. point \in {"send", "cancel"} /\ (worker[w].late => point # "send") /\ thread # "missing"
      BY <1>1, <1>3 DEF Eligible, SoundWorker, CheckEligibility
    <2>2. Goto(w, point) /\ UNCHANGED <<job, facts, recovered>> /\ worker[w].pc \in Holding
      BY <1>3 DEF CheckEligibility, Holding, TryPoints
    <2> HIDE DEF point
    <2> QED
      BY <2>1, <2>2, PlainMovePreserves DEF Holding, TryPoints, Points
  <1>4. CASE StepFails(w)
    BY <1>4, PlainMovePreserves DEF StepFails, AfterFailure, Holding, TryPoints, Points
  <1> QED
    BY <1>2, <1>3, <1>4

(* A worker writes the status of the job it holds, and goes on to "event".   *)
LEMMA SettlingPreserves ==
  ASSUME FollowUpInv, NEW w \in Workers, MarkCancelled(w) \/ MarkDead(w) \/ MarkCompleted(w)
  PROVE  FollowUpInv'
PROOF
  <1> DEFINE j == worker[w].job
  <1>1. TypeOK /\ SoundWorker(w)
    BY DEF FollowUpInv, WorkersAreSound
  <1>2. worker[w].pc \in Holding /\ j \in Followups
    BY <1>1 DEF MarkCancelled, MarkDead, MarkCompleted, SoundWorker, Holding, TryPoints
  <1>3. Goto(w, "event") /\ UNCHANGED <<facts, recovered>>
    BY DEF MarkCancelled, MarkDead, MarkCompleted
  <1>4. /\ worker' \in [Workers -> WorkerType] /\ OnlyMoves(w)
        /\ worker'[w].pc = "event"
        /\ worker'[w].job = worker[w].job /\ worker'[w].late = worker[w].late
    BY <1>1, <1>3, GotoMoves DEF Points, TryPoints
  <1>5. /\ job' \in [Followups -> JobType]
        /\ \A i \in Followups \ {j} : job'[i] = job[i]
        /\ thread = "missing" \/ (job[j].status \in Taken => job'[j].status \in Taken)
        /\ job'[j].status = "completed" => job[j].status = "completed" \/ j \in record
    <2>1. CASE MarkCancelled(w)
      BY <1>1, <1>2, <2>1, SetStatusSets DEF MarkCancelled, TypeOK, JobStatuses, Taken
    <2>2. CASE MarkDead(w)
      BY <1>1, <1>2, <2>2, SetStatusSets DEF MarkDead, SoundWorker, JobStatuses
    <2>3. CASE MarkCompleted(w)
      BY <1>1, <1>2, <2>3, SetStatusSets DEF MarkCompleted, SoundWorker, TypeOK, JobStatuses, Taken
    <2> QED
      BY <2>1, <2>2, <2>3
  <1>6. TypeOK' /\ FactsGrow
    BY <1>1, <1>3, <1>4, <1>5 DEF TypeOK, facts, FactsGrow
  <1>7. CompletedWasSent'
    BY <1>3, <1>5 DEF facts, FollowUpInv, CompletedWasSent
  <1>8. JobsStayTaken
    BY <1>5 DEF JobsStayTaken, Taken
  <1>9. SoundWorker(w)' /\ Prompt(w)' /\ Onward(w)
    BY <1>1, <1>2, <1>3, <1>4 DEF SoundWorker, Prompt, Onward, facts
  <1> QED
    BY <1>4, <1>6, <1>7, <1>8, <1>9, WorkerKeeps

LEMMA SendPreserves ==
  ASSUME FollowUpInv, NEW w \in Workers, SendReminder(w)
  PROVE  FollowUpInv'
PROOF
  <1> DEFINE j == worker[w].job
  <1>1. TypeOK /\ SoundWorker(w) /\ Prompt(w)
    BY DEF FollowUpInv, WorkersAreSound, NoLateReminder, Prompt
  <1>2. worker[w].pc = "send" /\ j \in Followups /\ thread # "missing" /\ ~worker[w].late
    BY <1>1 DEF SendReminder, SoundWorker, Prompt, Holding, TryPoints
  <1>3. PICK point \in {"record", "retry"} : Goto(w, point)
    BY DEF SendReminder
  <1>4. /\ worker' \in [Workers -> WorkerType] /\ OnlyMoves(w)
        /\ worker'[w].pc = point
        /\ worker'[w].job = worker[w].job /\ worker'[w].late = worker[w].late
    BY <1>1, <1>3, GotoMoves DEF Points, TryPoints
  <1>5. /\ sends' \in [Followups -> Nat] /\ sends'[j] > 0
        /\ \A i \in Followups : sends[i] > 0 => sends'[i] > 0
    BY <1>1, <1>2 DEF SendReminder, TypeOK
  <1>6. UNCHANGED <<job, record, quotation, replied, thread, lead, unwritten, recovered>>
    BY DEF SendReminder
  <1>7. TypeOK' /\ FactsGrow /\ CompletedWasSent' /\ JobsStayTaken
    BY <1>1, <1>4, <1>5, <1>6 DEF FollowUpInv, TypeOK, FactsGrow, CompletedWasSent, JobsStayTaken, Taken
  <1>8. SoundWorker(w)' /\ Prompt(w)' /\ Onward(w)
    BY <1>2, <1>3, <1>4, <1>5, <1>6 DEF SoundWorker, Prompt, Onward, Holding, TryPoints
  <1> QED
    BY <1>4, <1>7, <1>8, WorkerKeeps

LEMMA RecordPreserves ==
  ASSUME FollowUpInv, NEW w \in Workers, RecordReminder(w)
  PROVE  FollowUpInv'
PROOF
  <1> DEFINE j == worker[w].job
  <1>1. TypeOK /\ SoundWorker(w) /\ Prompt(w)
    BY DEF FollowUpInv, WorkersAreSound, NoLateReminder, Prompt
  <1>2. worker[w].pc = "record" /\ j \in Followups /\ thread # "missing" /\ ~worker[w].late /\ sends[j] > 0
    BY <1>1 DEF RecordReminder, SoundWorker, Prompt, Holding, TryPoints
  <1>3. CASE j \in record
    BY <1>1, <1>2, <1>3, PlainMovePreserves
       DEF RecordReminder, facts, Holding, TryPoints, Points
  <1>4. CASE j \notin record
    <2>1. /\ record' = record \cup {j} /\ thread' \in {thread, "open"} /\ Goto(w, "complete")
          /\ UNCHANGED <<job, sends, quotation, replied, lead, unwritten, recovered>>
      BY <1>4 DEF RecordReminder
    <2>2. /\ worker' \in [Workers -> WorkerType] /\ OnlyMoves(w)
          /\ worker'[w].pc = "complete"
          /\ worker'[w].job = worker[w].job /\ worker'[w].late = worker[w].late
      BY <1>1, <2>1, GotoMoves DEF Points, TryPoints
    <2>3. TypeOK' /\ FactsGrow /\ CompletedWasSent' /\ JobsStayTaken
      BY <1>1, <1>2, <2>1, <2>2
         DEF FollowUpInv, TypeOK, FactsGrow, CompletedWasSent, JobsStayTaken, Taken
    <2>4. SoundWorker(w)' /\ Prompt(w)' /\ Onward(w)
      BY <1>2, <2>1, <2>2 DEF SoundWorker, Prompt, Onward, Holding, TryPoints
    <2> QED
      BY <2>2, <2>3, <2>4, WorkerKeeps
  <1> QED
    BY <1>3, <1>4

(* _mark_retry opens the job again, and its worker lets go of it. *)
LEMMA RetryPreserves ==
  ASSUME FollowUpInv, NEW w \in Workers, MarkRetry(w)
  PROVE  FollowUpInv'
PROOF
  <1> DEFINE j == worker[w].job
  <1>1. TypeOK /\ SoundWorker(w)
    BY DEF FollowUpInv, WorkersAreSound
  <1>2. Holds(w, j) /\ j \in Followups /\ UNCHANGED <<facts, recovered>>
    BY <1>1 DEF MarkRetry, Holds, SoundWorker, Holding
  <1>3. PICK status \in {"dead", "retry"} : SetStatus(j, status)
    BY DEF MarkRetry
  <1>4. /\ job' \in [Followups -> JobType] /\ job'[j].status # "completed"
        /\ \A i \in Followups \ {j} : job'[i] = job[i]
    BY <1>1, <1>2, <1>3, SetStatusSets DEF JobStatuses
  <1>5. /\ worker' \in [Workers -> WorkerType] /\ OnlyMoves(w)
        /\ worker'[w].pc \notin Holding
        /\ SoundWorker(w)' /\ Prompt(w)' /\ Onward(w)
    <2>1. CASE Exhausted(w)
      <3>1. /\ worker' \in [Workers -> WorkerType] /\ OnlyMoves(w)
            /\ worker'[w].pc = "dead_event"
            /\ worker'[w].job = j /\ worker'[w].late = worker[w].late
        BY <1>1, <2>1, GotoMoves DEF MarkRetry, Points
      <3> QED
        BY <1>1, <1>2, <3>1 DEF SoundWorker, Prompt, Onward, Holding, TryPoints, facts
    <2>2. CASE ~Exhausted(w)
      BY <1>1, <2>2, RestMoves DEF MarkRetry, Holding, TryPoints
    <2> QED
      BY <2>1, <2>2
  <1>6. TypeOK' /\ FactsGrow /\ CompletedWasSent'
    BY <1>1, <1>2, <1>4, <1>5 DEF TypeOK, facts, FactsGrow, FollowUpInv, CompletedWasSent
  <1>7. JobsStayTaken
    BY <1>2, <1>4, <1>5 DEF JobsStayTaken, Taken, Releases
  <1> QED
    BY <1>5, <1>6, <1>7, WorkerKeeps

LEMMA EndPreserves ==
  ASSUME FollowUpInv, NEW w \in Workers, RecordEvent(w) \/ Crash(w)
  PROVE  FollowUpInv'
PROOF
  <1>1. PICK point \in {"idle", "down"} : Rest(w, point)
    BY DEF RecordEvent, Crash
  <1>2. /\ worker' \in [Workers -> WorkerType] /\ OnlyMoves(w)
        /\ SoundWorker(w)' /\ Prompt(w)' /\ Onward(w)
    BY <1>1, RestMoves DEF FollowUpInv
  <1>3. UNCHANGED <<job, facts, recovered>>
    BY DEF RecordEvent, Crash
  <1>4. TypeOK' /\ FactsGrow /\ CompletedWasSent' /\ JobsStayTaken
    BY <1>2, <1>3 DEF FollowUpInv, TypeOK, facts, FactsGrow, CompletedWasSent, JobsStayTaken, Taken
  <1> QED
    BY <1>2, <1>4, WorkerKeeps

LEMMA FollowUpInvInit == Init => FollowUpInv
PROOF
  <1> SUFFICES ASSUME Init PROVE FollowUpInv
    OBVIOUS
  <1>1. \A w \in Workers : worker[w].pc = "down" /\ worker[w].late = FALSE
    BY DEF Init, Resting
  <1>2. worker \in [Workers -> WorkerType]
    BY DEF Init, Resting, WorkerType, Points
  <1>3. TypeOK
    BY <1>2 DEF Init, TypeOK, JobType, JobStatuses
  <1>4. WorkersAreSound /\ NoLateReminder
    BY <1>1 DEF WorkersAreSound, SoundWorker, NoLateReminder, Holding, TryPoints
  <1>5. HeldIsTaken /\ OneHolder /\ OneSender
    BY <1>1 DEF HeldIsTaken, OneHolder, OneSender, Holding, TryPoints
  <1>6. CompletedWasSent
    BY DEF Init, CompletedWasSent
  <1> QED
    BY <1>3, <1>4, <1>5, <1>6 DEF FollowUpInv

LEMMA FollowUpInvNext == FollowUpInv /\ [Next]_vars => FollowUpInv'
PROOF
  <1> SUFFICES ASSUME FollowUpInv, [Next]_vars PROVE FollowUpInv'
    OBVIOUS
  <1>1. CASE UNCHANGED vars
    <2>1. TypeOK' /\ FactsGrow /\ CompletedWasSent' /\ JobsStayTaken
      BY <1>1 DEF vars, FollowUpInv, TypeOK, FactsGrow, CompletedWasSent, JobsStayTaken, Taken
    <2> QED
      BY <1>1, <2>1, SurroundingsKeep DEF vars
  <1>2. CASE Surroundings
    BY <1>2, SurroundingsPreserve, OneJobPreserves DEF Surroundings
  <1>3. ASSUME NEW w \in Workers, StartWorker(w) \/ Reconcile(w) \/ StepFails(w) \/ Crash(w)
        PROVE  FollowUpInv'
    BY <1>3, StartPreserves, ReconcilePreserves, ReadingPreserves, EndPreserves
  <1>4. ASSUME NEW w \in Workers, NEW j \in Followups, ClaimDueJob(w, j) PROVE FollowUpInv'
    BY <1>4, ClaimPreserves
  <1>5. ASSUME NEW w \in Workers, Step(w) PROVE FollowUpInv'
    BY <1>5, ReadingPreserves, SettlingPreserves, SendPreserves, RecordPreserves, RetryPreserves, EndPreserves
       DEF Step
  <1>6. ASSUME NEW j \in Followups, RetryJob(j) PROVE FollowUpInv'
    BY <1>6, OneJobPreserves
  <1> QED
    BY <1>1, <1>2, <1>3, <1>4, <1>5, <1>6 DEF Next, Calm

-----------------------------------------------------------------------------
(* The invariant of the reminders: held jobs are taken, and have one holder  *)
(* until they are recovered.                                                 *)
THEOREM FollowUpInvariant == Spec => []FollowUpInv
PROOF
  BY FollowUpInvInit, FollowUpInvNext, PTL DEF Spec

(* Two workers never send the same reminder at the same time, unless the job *)
(* was recovered from a worker that had kept it for 300 seconds.             *)
THEOREM OneSenderAtATime == Spec => []OneSender
PROOF
  <1>1. FollowUpInv => OneSender
    BY DEF FollowUpInv
  <1> QED
    BY <1>1, FollowUpInvariant, PTL

(* No run that starts after the reply, or after the record, sends.           *)
THEOREM LateRunsSendNothing == Spec => []NoLateReminder
PROOF
  <1>1. FollowUpInv => NoLateReminder
    BY DEF FollowUpInv
  <1> QED
    BY <1>1, FollowUpInvariant, PTL

(* A completed job has a record, and a record a delivered reminder.          *)
THEOREM CompletionIsTrue == Spec => []CompletedWasSent
PROOF
  <1>1. FollowUpInv => CompletedWasSent
    BY DEF FollowUpInv
  <1> QED
    BY <1>1, FollowUpInvariant, PTL
=============================================================================
