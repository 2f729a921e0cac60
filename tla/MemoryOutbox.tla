---------------------------- MODULE MemoryOutbox ----------------------------
(***************************************************************************)
(* Notes of customers and their projection into the vector store           *)
(* (app/sales_context/worker.py, app/database/models/memory.py), composed  *)
(* with the customer records: staff merge customers while notes wait, and  *)
(* while a worker projects them from the copy of the row it claimed.       *)
(***************************************************************************)
EXTENDS CustomerRecords

CONSTANTS
    Notes,        \* note requests, each with its own idempotency key
    Workers,
    Gone,         \* the identity of a worker process that is no more
    NoNote,       \* a worker without a job
    MaxAttempts,  \* max_attempts
    MaxCrashes    \* bound: crashes of workers

ASSUME OutboxAssumption ==
    /\ Gone \notin Workers
    /\ NoNote \notin Notes
    /\ MaxAttempts \in Nat \ {0}
    /\ MaxCrashes \in Nat

VARIABLES
    note,      \* customer_notes: the customer of a note
    outbox,    \* memory_outbox
    point,     \* the customer in the payload of the note's point in Qdrant
    worker,    \* the worker loops
    crashes

outboxVars == <<note, outbox, point, worker, crashes>>
vars == <<recordVars, outboxVars>>

-----------------------------------------------------------------------------
OutboxRow == [status : {"none", "pending", "processing", "retry", "completed", "dead"},
              customer : Owner, attempts : Nat, lockedBy : Workers \cup {Gone},
              old : BOOLEAN]

WorkerState == [pc : {"down", "starting", "idle", "projecting", "settling", "failing"},
                job : Notes \cup {NoNote}, customer : Owner, attempts : Nat]

OutboxTypeOK ==
    /\ note \in [Notes -> Owner]
    /\ outbox \in [Notes -> OutboxRow]
    /\ point \in [Notes -> Owner]
    /\ worker \in [Workers -> WorkerState]
    /\ crashes \in 0..MaxCrashes

TypeOK == RecordsTypeOK /\ OutboxTypeOK

Without(pc) == [pc |-> pc, job |-> NoNote, customer |-> Nobody, attempts |-> 0]

Init ==
    /\ RecordsInit
    /\ note = [n \in Notes |-> Nobody]
    /\ outbox = [n \in Notes |-> [status |-> "none", customer |-> Nobody,
                                  attempts |-> 0, lockedBy |-> Gone, old |-> FALSE]]
    /\ point = [n \in Notes |-> Nobody]
    /\ worker = [w \in Workers |-> Without("starting")]
    /\ crashes = 0

-----------------------------------------------------------------------------
(* Writers *)

\* A note and its outbox row are one transaction; any customer that exists is
\* accepted, and a repeated request finds its note.
CreateNote(n, c) ==
    /\ note[n] = Nobody
    /\ customer[c].status # "none"
    /\ note' = [note EXCEPT ![n] = c]
    /\ outbox' = [outbox EXCEPT ![n].status = "pending", ![n].customer = c]
    /\ UNCHANGED <<recordVars, point, worker, crashes>>

\* The merge of the customer records moves notes and outbox rows as well, but
\* not what was projected.
Merge(p) ==
    LET c == review[p].candidate
    IN  /\ MergeCustomers(p)
        /\ note' = Moved(note, p, c)
        /\ outbox' = [n \in Notes |-> IF outbox[n].customer = p
                                      THEN [outbox[n] EXCEPT !.customer = c]
                                      ELSE outbox[n]]
        /\ UNCHANGED <<point, worker, crashes>>

-----------------------------------------------------------------------------
(* The worker loop *)

\* Once, when the loop starts: rows locked for too long are given back.
RecoverStale(w) ==
    /\ worker[w].pc = "starting"
    /\ worker' = [worker EXCEPT ![w].pc = "idle"]
    /\ outbox' = [n \in Notes |->
                     IF outbox[n].status = "processing" /\ outbox[n].old
                     THEN [outbox[n] EXCEPT !.status = "retry", !.lockedBy = Gone,
                                            !.old = FALSE]
                     ELSE outbox[n]]
    /\ UNCHANGED <<recordVars, note, point, crashes>>

MutantClaimable == {"pending"}
Claimable == {"pending", "retry"}

Claim(w, n) ==
    /\ worker[w].pc = "idle"
    /\ outbox[n].status \in Claimable
    /\ outbox' = [outbox EXCEPT ![n].status = "processing", ![n].lockedBy = w,
                                ![n].attempts = @ + 1]
    /\ worker' = [worker EXCEPT ![w] = [pc |-> "projecting", job |-> n,
                                        customer |-> outbox[n].customer,
                                        attempts |-> outbox[n].attempts + 1]]
    /\ UNCHANGED <<recordVars, note, point, crashes>>

\* The point has the id of the job: a second projection replaces the first.
Project(w) ==
    /\ worker[w].pc = "projecting"
    /\ point' = [point EXCEPT ![worker[w].job] = worker[w].customer]
    /\ worker' = [worker EXCEPT ![w].pc = "settling"]
    /\ UNCHANGED <<recordVars, note, outbox, crashes>>

\* The embedding, the vector store or the settling transaction raises.
Fails(w) ==
    /\ worker[w].pc \in {"projecting", "settling"}
    /\ worker' = [worker EXCEPT ![w].pc = "failing"]
    /\ UNCHANGED <<recordVars, note, outbox, point, crashes>>

\* Both outcomes are written only while the row is locked by this worker.
SettleRow(w, status) ==
    LET n == worker[w].job
    IN  /\ outbox' = IF outbox[n].lockedBy = w
                     THEN [outbox EXCEPT ![n].status = status, ![n].lockedBy = Gone,
                                         ![n].old = FALSE]
                     ELSE outbox
        /\ worker' = [worker EXCEPT ![w] = Without("idle")]
        /\ UNCHANGED <<recordVars, note, point, crashes>>

MutantComplete(w) ==
    /\ worker[w].pc \in {"projecting", "settling"}
    /\ SettleRow(w, "completed")
Complete(w) ==
    /\ worker[w].pc = "settling"
    /\ SettleRow(w, "completed")

Outcome(w) == IF worker[w].attempts >= MaxAttempts THEN "dead" ELSE "retry"

GiveBack(w) ==
    /\ worker[w].pc = "failing"
    /\ SettleRow(w, Outcome(w))

-----------------------------------------------------------------------------
(* The environment *)

GrowsOld(n) ==
    /\ outbox[n].status = "processing"
    /\ ~outbox[n].old
    /\ outbox' = [outbox EXCEPT ![n].old = TRUE]
    /\ UNCHANGED <<recordVars, note, point, worker, crashes>>

\* The process dies, or an exception leaves the loop; a new process has a new
\* worker id.
Crash(w) ==
    /\ worker[w].pc # "down"
    /\ crashes < MaxCrashes
    /\ crashes' = crashes + 1
    /\ worker' = [worker EXCEPT ![w] = Without("down")]
    /\ outbox' = [n \in Notes |-> IF outbox[n].lockedBy = w
                                  THEN [outbox[n] EXCEPT !.lockedBy = Gone]
                                  ELSE outbox[n]]
    /\ UNCHANGED <<recordVars, note, point>>

Restart(w) ==
    /\ worker[w].pc = "down"
    /\ worker' = [worker EXCEPT ![w].pc = "starting"]
    /\ UNCHANGED <<recordVars, note, outbox, point, crashes>>

-----------------------------------------------------------------------------
WorkerStep(w) ==
    \/ RecoverStale(w)
    \/ \E n \in Notes : Claim(w, n)
    \/ Project(w)
    \/ Fails(w)
    \/ Complete(w)
    \/ GiveBack(w)
    \/ Restart(w)

RecordStep == (RunStep \/ StaffStep) /\ UNCHANGED outboxVars

Next ==
    \/ RecordStep
    \/ \E p \in Customers : Merge(p)
    \/ \E n \in Notes : GrowsOld(n) \/ \E c \in Customers : CreateNote(n, c)
    \/ \E w \in Workers : WorkerStep(w) \/ Crash(w)

Spec == Init /\ [][Next]_vars

\* Processes are started again, and the loop goes on.
FairSpec == Spec /\ \A w \in Workers : WF_vars(WorkerStep(w))

-----------------------------------------------------------------------------
(* Properties *)

\* The two rows of a note name the same customer, whatever was merged
\* (worker.create_note, merge_service.LIFECYCLE_MODELS), and nothing of a note
\* stays at a merged customer unless it was written for one.
NoteFollowsMerge ==
    \A n \in Notes :
        /\ outbox[n].customer = note[n]
        /\ outbox[n].status = "none" <=> note[n] = Nobody

\* Reviews, customers and notes agree, whatever runs, staff and workers do.
CustomerInv == TypeOK /\ ReviewMatchesCustomer /\ NoteFollowsMerge

\* What was projected is found under the customer of its note, or under one
\* that has been merged since: without merges no note is ever found under
\* somebody else (worker.process_one, vector_store.search_customer_memory).
ProjectedForItsCustomer ==
    \A n \in Notes :
        /\ outbox[n].status = "completed" => point[n] # Nobody
        /\ point[n] # Nobody => point[n] = note[n] \/ Merged(point[n])

\* Nobody will take the row of a process that died, unless it is old when
\* another one starts.
Abandoned(n) == outbox[n].status = "processing" /\ outbox[n].lockedBy = Gone

\* Every note is projected in the end or declared dead, or was abandoned by a
\* crash (worker.run).
EveryNoteSettles ==
    \A n \in Notes :
        note[n] # Nobody ~> outbox[n].status \in {"completed", "dead"} \/ Abandoned(n)

\* What belongs to a customer passes to another one only in the merge of that
\* customer, to the one it is merged into, and a merge stays: no resolution that
\* read the customer before, no second review, note or projection moves it, and
\* staff only give up or change a contact (merge_service._merge_customers,
\* identity_resolver.resolve_customer_identity, crm.service.update_customer).
Passes(c, owner, next) ==
    \/ owner = c => next = c
    \/ ~Merged(c) /\ Merged(c)' /\ next = customer'[c].into

OnlyAMergeMoves ==
    [][\A c \in Customers :
          /\ Merged(c) => Merged(c)'
          /\ \A d \in Customers : /\ Passes(c, customer[d].into, customer'[d].into)
                                  /\ Passes(c, lead[d], lead'[d])
                                  /\ Passes(c, document[d], document'[d])
          /\ \A n \in Notes : Passes(c, note[n], note'[n])
          /\ \A k \in Keys : \/ Passes(c, identity[k].holder, identity'[k].holder)
                             \/ identity'[k].holder = Nobody /\ k \in released' /\ edits' > edits]_vars
=============================================================================
