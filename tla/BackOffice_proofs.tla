-------------------------- MODULE BackOffice_proofs -------------------------
(***************************************************************************)
(* What the desk of the staff and Jarvis promise, for every number of      *)
(* users, leads, tasks, requests, commands and runs.                       *)
(*                                                                         *)
(* DeskInv counts: a request may have entered an assignment as often as it *)
(* was lost, and once more only while it is applied or its claim is        *)
(* completed.  JarvisInv follows a run from point to point, and says who   *)
(* may still work for a command whose claim is free.                       *)
(***************************************************************************)
EXTENDS BackOffice, FiniteSetTheorems, TLAPS

-----------------------------------------------------------------------------
(* The desk of the staff *)

\* The types of the rows.
EntryType == [to : Users, open : BOOLEAN, by : Keys \cup {Automatic}]
LeadType == [owner : Somebody, lost : BOOLEAN]
ChoiceType == [pc : {"idle", "locked"}, pick : Somebody, free : BOOLEAN]
TaskType == [status : TaskStates, owner : Somebody, version : Nat]
RequestType == [pc : RequestStates, body : Bodies \cup {NoBody},
                version : Nat, tries : 0..MaxTries]

\* The latest assignment is the open one and names the owner.
Agrees(history, owner) ==
    /\ history = << >> <=> owner = Nobody
    /\ history # << >> =>
          history[Len(history)].open /\ history[Len(history)].to = owner
    /\ \A i \in 1..Len(history) : i # Len(history) => ~history[i].open

\* Leads, owners and assignments; a lead that the automatic assignment has
\* locked has no owner.
LeadsInv ==
    /\ lead \in [Leads -> LeadType]
    /\ account \in [Accounts -> Somebody]
    /\ assignment \in [Leads -> Seq(EntryType)]
    /\ choosing \in [Leads -> ChoiceType]
    /\ \A l \in Leads : Agrees(assignment[l], lead[l].owner)
    /\ \A l \in Leads : Locked(l) => lead[l].owner = Nobody /\ choosing[l].pick \in Users

\* Members and sessions.
StaffInv ==
    /\ member \in [Users -> {"none", "active", "inactive"}]
    /\ session \in [Users -> {"none", "open", "closed"}]

\* Between its claim and its answer a request holds the claim,
Executing == {"claimed", "applied", "refused"}

\* and it was sent with a body.
RequestsInv ==
    /\ request \in [Keys -> RequestType]
    /\ claim \in [Keys -> ClaimStates]
    /\ lost \in [Keys -> 0..MaxLosses]
    /\ \A k \in Keys : request[k].pc # "none" => request[k].body \in Bodies
    /\ \A k \in Keys : request[k].pc \in Executing => claim[k] = "processing"

\* The edits of a task, each against the version the one before it left.
InOrder(t, history) ==
    /\ t.version = (IF t.status = "none" THEN 0 ELSE 1) + Len(history)
    /\ t.status = "none" => history = << >>

\* The request of an edit was sent when it saw the version before.
TasksInv ==
    /\ task \in [Tasks -> TaskType]
    /\ activity \in [Tasks -> Nat]
    /\ edits \in [Tasks -> Seq(Keys)]
    /\ \A t \in Tasks :
          /\ InOrder(task[t], edits[t])
          /\ activity[t] = IF task[t].status = "completed" THEN 1 ELSE 0
          /\ \A i \in 1..Len(edits[t]) :
                request[edits[t][i]].version = i /\ request[edits[t][i]].pc # "none"

\* The entries a request made in the history of a lead.
Entries(history, k) == {i \in DOMAIN history : history[i].by = k}

\* An entry for each loss, and one more once a request is applied or answered.
Spent(k) == lost[k] + (IF request[k].pc = "applied" \/ claim[k] = "completed" THEN 1 ELSE 0)

\* No more of them than were spent.
EntriesInv ==
    \A k \in Keys, l \in Leads : Cardinality(Entries(assignment[l], k)) <= Spent(k)

\* The inductive invariant of the desk.
DeskInv == LeadsInv /\ StaffInv /\ RequestsInv /\ TasksInv /\ EntriesInv

\* What an entry says.
LEMMA EntryIs ==
    ASSUME NEW u \in Users, NEW k \in Keys \cup {Automatic}
    PROVE  /\ Entry(u, k) \in EntryType /\ Entry(u, k).open
           /\ Entry(u, k).to = u /\ Entry(u, k).by = k
BY DEF Entry, EntryType

\* Closing keeps all entries, and who made them.
LEMMA ClosedIs ==
    ASSUME NEW h \in Seq(EntryType)
    PROVE  /\ Closed(h) \in Seq(EntryType) /\ Len(Closed(h)) = Len(h)
           /\ \A i \in 1..Len(h) : ~Closed(h)[i].open /\ Closed(h)[i].by = h[i].by
<1>1. DOMAIN h = 1..Len(h) /\ Len(h) \in Nat /\ \A i \in 1..Len(h) : h[i] \in EntryType
  OBVIOUS
<1>2. ASSUME NEW e \in EntryType
      PROVE  [e EXCEPT !.open = FALSE] \in EntryType /\ ~[e EXCEPT !.open = FALSE].open
             /\ [e EXCEPT !.open = FALSE].by = e.by
  BY DEF EntryType
<1>3. Closed(h) = [i \in 1..Len(h) |-> [h[i] EXCEPT !.open = FALSE]]
  BY <1>1 DEF Closed
<1>4. \A i \in 1..Len(h) : Closed(h)[i] = [h[i] EXCEPT !.open = FALSE]
  BY <1>3
<1>5. \A i \in 1..Len(h) : Closed(h)[i] \in EntryType /\ ~Closed(h)[i].open /\ Closed(h)[i].by = h[i].by
  BY <1>1, <1>2, <1>4
<1>6. Closed(h) \in [1..Len(h) -> EntryType]
  BY <1>3, <1>5
<1>7. Closed(h) \in Seq(EntryType) /\ Len(Closed(h)) = Len(h)
  BY <1>1, <1>6
<1> QED BY <1>5, <1>7

\* One entry more.
LEMMA AppendedEntry ==
    ASSUME NEW h \in Seq(EntryType), NEW e \in EntryType
    PROVE  /\ Append(h, e) \in Seq(EntryType) /\ Len(Append(h, e)) = Len(h) + 1
           /\ Append(h, e)[Len(h) + 1] = e
           /\ \A i \in 1..Len(h) : Append(h, e)[i] = h[i]
OBVIOUS

\* A reassigned lead has one open entry, the new one.
LEMMA ReassignedIs ==
    ASSUME NEW h \in Seq(EntryType), NEW u \in Users, NEW k \in Keys \cup {Automatic}
    PROVE  LET r == Reassigned(h, u, k)
           IN  /\ r \in Seq(EntryType) /\ Len(r) = Len(h) + 1
               /\ r[Len(h) + 1].open /\ r[Len(h) + 1].to = u /\ r[Len(h) + 1].by = k
               /\ \A i \in 1..Len(h) : ~r[i].open /\ r[i].by = h[i].by
<1>1. PICK c \in Seq(EntryType) :
         /\ c = Closed(h) /\ Len(c) = Len(h)
         /\ \A i \in 1..Len(h) : ~c[i].open /\ c[i].by = h[i].by
  BY ClosedIs
<1>2. PICK e \in EntryType : e = Entry(u, k) /\ e.open /\ e.to = u /\ e.by = k
  BY EntryIs
<1>3. PICK r : r = Append(c, e)
  OBVIOUS
<1>4. /\ r \in Seq(EntryType) /\ Len(r) = Len(h) + 1 /\ r[Len(h) + 1] = e
      /\ \A i \in 1..Len(h) : r[i] = c[i]
  BY <1>1, <1>3, AppendedEntry
<1>5. r = Reassigned(h, u, k)
  BY <1>1, <1>2, <1>3 DEF Reassigned
<1> QED BY <1>1, <1>2, <1>4, <1>5

\* One more entry, made by k.
Longer(r, h, k) ==
    /\ r \in Seq(EntryType) /\ Len(r) = Len(h) + 1
    /\ r[Len(r)].by = k
    /\ \A i \in 1..Len(h) : r[i].by = h[i].by

\* Entries can be counted.
LEMMA FiniteEntries ==
    ASSUME NEW h \in Seq(EntryType), NEW j
    PROVE  IsFiniteSet(Entries(h, j)) /\ Cardinality(Entries(h, j)) \in Nat
<1>1. DOMAIN h = 1..Len(h) /\ Len(h) \in Nat
  OBVIOUS
<1>2. IsFiniteSet(1..Len(h))
  BY <1>1, FS_Interval
<1> QED BY <1>1, <1>2, FS_Subset, FS_CardinalityType DEF Entries

\* A longer history has one more entry at most, of the request that made it.
LEMMA LongerByOne ==
    ASSUME NEW h \in Seq(EntryType), NEW r, NEW k, Longer(r, h, k), NEW j
    PROVE  /\ IsFiniteSet(Entries(h, j)) /\ Cardinality(Entries(h, j)) \in Nat
           /\ j # k => Entries(r, j) = Entries(h, j)
           /\ Cardinality(Entries(r, j)) <= Cardinality(Entries(h, j)) + 1
<1>1. DOMAIN h = 1..Len(h) /\ Len(h) \in Nat /\ DOMAIN r = 1..(Len(h) + 1)
  BY DEF Longer
<1>3. IsFiniteSet(Entries(h, j)) /\ Cardinality(Entries(h, j)) \in Nat
  BY FiniteEntries
<1>4. j # k => Entries(r, j) = Entries(h, j)
  BY <1>1 DEF Longer, Entries
<1>5. Entries(r, k) = Entries(h, k) \cup {Len(h) + 1}
  BY <1>1 DEF Longer, Entries
<1>6. Len(h) + 1 \notin Entries(h, j)
  BY <1>1 DEF Entries
<1>7. Cardinality(Entries(h, j) \cup {Len(h) + 1}) = Cardinality(Entries(h, j)) + 1
  BY <1>3, <1>6, FS_AddElement
<1>8. CASE j = k
  <2>1. Entries(r, j) = Entries(h, j) \cup {Len(h) + 1}
    BY <1>5, <1>8
  <2>2. Cardinality(Entries(r, j)) = Cardinality(Entries(h, j)) + 1
    BY <1>7, <2>1
  <2> QED BY <1>3, <1>8, <2>2
<1>9. CASE j # k
  BY <1>3, <1>4, <1>9
<1> QED BY <1>8, <1>9

\* A lead that was never assigned has none.
LEMMA NoEntries ==
    ASSUME NEW k
    PROVE  Cardinality(Entries(<< >>, k)) = 0
<1>1. Entries(<< >>, k) = {}
  BY DEF Entries
<1> QED BY <1>1, FS_EmptySet

-----------------------------------------------------------------------------
\* Entries are spent when the claim, the request and the losses say so.
LEMMA EntriesKept ==
    ASSUME EntriesInv, UNCHANGED assignment, \A k \in Keys : Spent(k)' >= Spent(k),
           LeadsInv, RequestsInv, RequestsInv'
    PROVE  EntriesInv'
<1> SUFFICES ASSUME NEW k \in Keys, NEW l \in Leads
             PROVE  Cardinality(Entries(assignment[l], k)) <= Spent(k)'
  BY DEF EntriesInv
<1>1. Cardinality(Entries(assignment[l], k)) <= Spent(k)
  BY DEF EntriesInv
<1>2. Cardinality(Entries(assignment[l], k)) \in Nat
  BY FiniteEntries DEF LeadsInv
<1>3. Spent(k) \in Int /\ Spent(k)' \in Int
  BY DEF Spent, RequestsInv
<1> QED BY <1>1, <1>2, <1>3

\* Steps that are not about leads,
LEMMA LeadsKept ==
    ASSUME LeadsInv, UNCHANGED <<lead, account, assignment, choosing>>
    PROVE  LeadsInv'
BY DEF LeadsInv, Locked

\* not about staff.
LEMMA StaffKept ==
    ASSUME StaffInv, UNCHANGED <<member, session>>
    PROVE  StaffInv'
BY DEF StaffInv

\* A request keeps the version it was sent with.
LEMMA TasksKept ==
    ASSUME TasksInv, UNCHANGED <<task, activity, edits>>,
           \A k \in Keys : request[k].pc # "none" =>
               request'[k].pc # "none" /\ request'[k].version = request[k].version
    PROVE  TasksInv'
<1>1. ASSUME NEW t \in Tasks, NEW i \in 1..Len(edits[t])
      PROVE  request'[edits[t][i]].version = i /\ request'[edits[t][i]].pc # "none"
  <2>1. edits[t][i] \in Keys
    BY DEF TasksInv
  <2> QED BY <2>1 DEF TasksInv
<1> QED BY <1>1 DEF TasksInv

\* What a step of one request does to it.
LEMMA Pointed ==
    ASSUME RequestsInv, NEW k \in Keys, NEW pc \in RequestStates, Goto(k, pc)
    PROVE  /\ request' \in [Keys -> RequestType]
           /\ request'[k].pc = pc /\ request'[k].body = request[k].body
           /\ request'[k].version = request[k].version
           /\ \A j \in Keys : j # k => request'[j] = request[j]
BY DEF RequestsInv, Goto, RequestType

\* A claim changes,
LEMMA ClaimIs ==
    ASSUME RequestsInv, NEW k \in Keys, NEW v \in ClaimStates, claim' = [claim EXCEPT ![k] = v]
    PROVE  /\ claim' \in [Keys -> ClaimStates] /\ claim'[k] = v
           /\ \A j \in Keys : j # k => claim'[j] = claim[j]
BY DEF RequestsInv

\* a loss is counted.
LEMMA LostIs ==
    ASSUME RequestsInv, NEW k \in Keys, lost[k] < MaxLosses, lost' = [lost EXCEPT ![k] = @ + 1]
    PROVE  /\ lost' \in [Keys -> 0..MaxLosses] /\ lost'[k] = lost[k] + 1
           /\ \A j \in Keys : j # k => lost'[j] = lost[j]
<1>1. lost[k] + 1 \in 0..MaxLosses
  BY DeskAssumption DEF RequestsInv
<1> QED BY <1>1 DEF RequestsInv

\* A step of request k that leaves the rows alone.
LEMMA RequestKeeps ==
    ASSUME DeskInv, NEW k \in Keys, UNCHANGED <<member, session, rowVars, choosing>>,
           request' \in [Keys -> RequestType],
           claim' \in [Keys -> ClaimStates],
           lost' \in [Keys -> 0..MaxLosses],
           \A j \in Keys : j # k =>
              request'[j] = request[j] /\ claim'[j] = claim[j] /\ lost'[j] = lost[j],
           request'[k].pc # "none" => request'[k].body \in Bodies,
           request'[k].pc \in Executing => claim'[k] = "processing",
           request[k].pc # "none" =>
              request'[k].pc # "none" /\ request'[k].version = request[k].version,
           Spent(k)' >= Spent(k)
    PROVE  DeskInv'
<1>1. RequestsInv'
  BY DEF DeskInv, RequestsInv
<1>2. LeadsInv' /\ StaffInv'
  BY LeadsKept, StaffKept DEF DeskInv, rowVars
<1>3. TasksInv'
  BY TasksKept DEF DeskInv, rowVars
<1>4. \A j \in Keys : Spent(j)' >= Spent(j)
  <2>1. ASSUME NEW j \in Keys, j # k PROVE Spent(j)' >= Spent(j)
    <3>1. Spent(j)' = Spent(j) /\ Spent(j) \in Int
      BY <2>1 DEF Spent, DeskInv, RequestsInv
    <3> QED BY <3>1
  <2> QED BY <2>1
<1>5. EntriesInv'
  BY <1>1, <1>4, EntriesKept DEF DeskInv, rowVars
<1> QED BY <1>1, <1>2, <1>3, <1>5 DEF DeskInv

\* What is spent is the losses or one more.
LEMMA SpentIs ==
    ASSUME DeskInv, NEW k \in Keys
    PROVE  lost[k] \in Nat /\ lost[k] <= Spent(k) /\ Spent(k) <= lost[k] + 1
BY DEF Spent, DeskInv, RequestsInv

\* A request is sent,
LEMMA SendKeeps ==
    ASSUME DeskInv, NEW k \in Keys, Send(k)
    PROVE  DeskInv'
<1>1. PICK b \in Bodies :
          request' = [request EXCEPT ![k].pc = "sent", ![k].body = b,
                             ![k].version = IF b.op \in TaskEdits THEN task[b.on].version
                                            ELSE 0]
  BY DEF Send
<1>2. request[k].pc = "none" /\ request[k] \in RequestType
      /\ UNCHANGED <<member, session, rowVars, choosing, claim, lost>>
  BY DEF Send, DeskInv, RequestsInv
<1>3. PICK n \in Nat : n = IF b.op \in TaskEdits THEN task[b.on].version ELSE 0
  <2>1. b.op \in TaskEdits => task[b.on].version \in Nat
    BY DeskAssumption DEF DeskInv, TasksInv, TaskType
  <2> QED BY <2>1
<1>4. PICK u : u = [request[k] EXCEPT !.pc = "sent"]
  OBVIOUS
<1>5. u \in RequestType /\ u.pc = "sent"
  BY <1>2, <1>4 DEF RequestType, RequestStates
<1>6. PICK v : v = [u EXCEPT !.body = b]
  OBVIOUS
<1>7. v \in RequestType /\ v.pc = "sent" /\ v.body = b
  BY <1>5, <1>6 DEF RequestType
<1>8. PICK w : w = [v EXCEPT !.version = n]
  OBVIOUS
<1>9. w \in RequestType /\ w.pc = "sent" /\ w.body = b
  BY <1>7, <1>8 DEF RequestType
<1>10. request' = [request EXCEPT ![k] = w]
  BY <1>1, <1>3, <1>4, <1>6, <1>8 DEF DeskInv, RequestsInv
<1>11. /\ request' \in [Keys -> RequestType] /\ request'[k] = w
       /\ \A j \in Keys : j # k => request'[j] = request[j]
  BY <1>9, <1>10 DEF DeskInv, RequestsInv
<1>12. Spent(k)' = Spent(k)
  BY <1>2, <1>9, <1>11 DEF Spent
<1>13. Spent(k) \in Int
  BY DEF Spent, DeskInv, RequestsInv
<1> QED BY <1>2, <1>9, <1>11, <1>12, <1>13, RequestKeeps DEF DeskInv, RequestsInv, Executing

\* sent again,
LEMMA SendAgainKeeps ==
    ASSUME DeskInv, NEW k \in Keys, SendAgain(k)
    PROVE  DeskInv'
<1>1. /\ request[k].pc \in {"lost", "answered"} /\ request[k] \in RequestType
      /\ request[k].tries < MaxTries
      /\ UNCHANGED <<member, session, rowVars, choosing, claim, lost>>
      /\ request' = [request EXCEPT ![k].pc = "sent", ![k].tries = @ + 1]
  BY DEF SendAgain, DeskInv, RequestsInv
<1>2. PICK w : w = [request[k] EXCEPT !.pc = "sent"]
  OBVIOUS
<1>3. w \in RequestType /\ w.pc = "sent" /\ w.tries = request[k].tries
      /\ w.body = request[k].body /\ w.version = request[k].version
  BY <1>1, <1>2 DEF RequestType, RequestStates
<1>4. w.tries + 1 \in 0..MaxTries
  BY <1>1, <1>3, DeskAssumption DEF RequestType
<1>5. PICK v : v = [w EXCEPT !.tries = @ + 1]
  OBVIOUS
<1>6. v \in RequestType /\ v.pc = "sent"
      /\ v.body = request[k].body /\ v.version = request[k].version
  BY <1>3, <1>4, <1>5 DEF RequestType
<1>7. request' = [request EXCEPT ![k] = v]
  BY <1>1, <1>2, <1>5 DEF DeskInv, RequestsInv
<1>8. /\ request' \in [Keys -> RequestType] /\ request'[k] = v
      /\ \A j \in Keys : j # k => request'[j] = request[j]
  BY <1>6, <1>7 DEF DeskInv, RequestsInv
<1>9. Spent(k)' = Spent(k)
  BY <1>1, <1>6, <1>8 DEF Spent
<1>10. Spent(k) \in Int
  BY DEF Spent, DeskInv, RequestsInv
<1> QED BY <1>1, <1>6, <1>8, <1>9, <1>10, RequestKeeps DEF DeskInv, RequestsInv, Executing

\* claims its key unless it is completed or in progress,
LEMMA ClaimKeeps ==
    ASSUME DeskInv, NEW k \in Keys, Claim(k)
    PROVE  DeskInv'
<1>1. request[k].pc = "sent" /\ UNCHANGED <<member, session, rowVars, choosing, lost>>
  BY DEF Claim
<1>2. request[k].body \in Bodies /\ Spent(k) \in Int
  BY <1>1 DEF DeskInv, RequestsInv, Spent
<1>3. CASE Free(k) /\ claim' = [claim EXCEPT ![k] = "processing"] /\ Goto(k, "claimed")
  <2>1. /\ claim' \in [Keys -> ClaimStates] /\ claim'[k] = "processing"
        /\ \A j \in Keys : j # k => claim'[j] = claim[j]
    BY <1>3, ClaimIs DEF DeskInv, ClaimStates
  <2>2. /\ request' \in [Keys -> RequestType]
        /\ request'[k].pc = "claimed" /\ request'[k].body = request[k].body
        /\ request'[k].version = request[k].version
        /\ \A j \in Keys : j # k => request'[j] = request[j]
    BY <1>3, Pointed DEF DeskInv, RequestStates
  <2>3. Spent(k)' = Spent(k)
    BY <1>1, <1>3, <2>1, <2>2 DEF Spent, Free
  <2> QED BY <1>1, <1>2, <2>1, <2>2, <2>3, RequestKeeps DEF DeskInv, RequestsInv
<1>4. CASE ~Free(k) /\ UNCHANGED claim /\ Goto(k, "answered")
  <2>2. /\ request' \in [Keys -> RequestType]
        /\ request'[k].pc = "answered" /\ request'[k].body = request[k].body
        /\ request'[k].version = request[k].version
        /\ \A j \in Keys : j # k => request'[j] = request[j]
    BY <1>4, Pointed DEF DeskInv, RequestStates
  <2>3. Spent(k)' = Spent(k)
    BY <1>1, <1>4, <2>2 DEF Spent
  <2> QED BY <1>1, <1>2, <1>4, <2>2, <2>3, RequestKeeps DEF DeskInv, RequestsInv, Executing
<1> QED BY <1>3, <1>4 DEF Claim

\* is answered: the claim is completed only when it was applied.
LEMMA AnswerKeeps ==
    ASSUME DeskInv, NEW k \in Keys, Answer(k)
    PROVE  DeskInv'
<1>1. Goto(k, "answered") /\ UNCHANGED <<member, session, rowVars, choosing, lost>>
  BY DEF Answer
<1>2. /\ request' \in [Keys -> RequestType]
      /\ request'[k].pc = "answered" /\ request'[k].body = request[k].body
      /\ request'[k].version = request[k].version
      /\ \A j \in Keys : j # k => request'[j] = request[j]
  BY <1>1, Pointed DEF DeskInv, RequestStates
<1>3. request[k].pc # "none"
  BY DEF Answer
<1>4. request[k].body \in Bodies /\ lost[k] \in Int
  BY <1>3 DEF DeskInv, RequestsInv
<1>5. CASE request[k].pc = "applied" /\ claim' = [claim EXCEPT ![k] = "completed"]
  <2>1. /\ claim' \in [Keys -> ClaimStates] /\ claim'[k] = "completed"
        /\ \A j \in Keys : j # k => claim'[j] = claim[j]
    BY <1>5, ClaimIs DEF DeskInv, ClaimStates
  <2>2. Spent(k)' >= Spent(k)
    BY <1>1, <1>4, <1>5, <2>1 DEF Spent
  <2> QED BY <1>1, <1>2, <1>4, <2>1, <2>2, RequestKeeps DEF DeskInv, RequestsInv, Executing
<1>6. CASE request[k].pc = "refused" /\ claim' = [claim EXCEPT ![k] = "failed"]
  <2>1. /\ claim' \in [Keys -> ClaimStates] /\ claim'[k] = "failed"
        /\ \A j \in Keys : j # k => claim'[j] = claim[j]
    BY <1>6, ClaimIs DEF DeskInv, ClaimStates
  <2>2. claim[k] = "processing"
    BY <1>6 DEF DeskInv, RequestsInv, Executing
  <2>3. Spent(k)' >= Spent(k)
    BY <1>1, <1>2, <1>4, <1>6, <2>1, <2>2 DEF Spent
  <2> QED BY <1>1, <1>2, <1>4, <2>1, <2>3, RequestKeeps DEF DeskInv, RequestsInv, Executing
<1> QED BY <1>5, <1>6 DEF Answer

\* A request that dies is counted,
LEMMA LoseKeeps ==
    ASSUME DeskInv, NEW k \in Keys, Lose(k)
    PROVE  DeskInv'
<1>1. Goto(k, "lost") /\ UNCHANGED <<member, session, rowVars, choosing, claim>>
      /\ request[k].pc \in {"claimed", "applied", "refused"}
  BY DEF Lose
<1>2. /\ request' \in [Keys -> RequestType]
      /\ request'[k].pc = "lost" /\ request'[k].body = request[k].body
      /\ request'[k].version = request[k].version
      /\ \A j \in Keys : j # k => request'[j] = request[j]
  BY <1>1, Pointed DEF DeskInv, RequestStates
<1>3. /\ lost' \in [Keys -> 0..MaxLosses] /\ lost'[k] = lost[k] + 1
      /\ \A j \in Keys : j # k => lost'[j] = lost[j]
  BY LostIs DEF Lose, DeskInv
<1>4. request[k].body \in Bodies /\ lost[k] \in Int
  BY <1>1 DEF DeskInv, RequestsInv
<1>5. claim[k] = "processing"
  BY <1>1 DEF DeskInv, RequestsInv, Executing
<1>6. Spent(k)' >= Spent(k)
  BY <1>1, <1>2, <1>3, <1>4, <1>5 DEF Spent
<1> QED BY <1>1, <1>2, <1>3, <1>4, <1>6, RequestKeeps DEF DeskInv, RequestsInv, Executing

\* and so is one whose answer cannot be stored.
LEMMA AnswerFailsKeeps ==
    ASSUME DeskInv, NEW k \in Keys, AnswerFails(k)
    PROVE  DeskInv'
<1>1. Goto(k, "answered") /\ UNCHANGED <<member, session, rowVars, choosing>>
      /\ request[k].pc = "applied"
  BY DEF AnswerFails
<1>2. /\ request' \in [Keys -> RequestType]
      /\ request'[k].pc = "answered" /\ request'[k].body = request[k].body
      /\ request'[k].version = request[k].version
      /\ \A j \in Keys : j # k => request'[j] = request[j]
  BY <1>1, Pointed DEF DeskInv, RequestStates
<1>3. /\ lost' \in [Keys -> 0..MaxLosses] /\ lost'[k] = lost[k] + 1
      /\ \A j \in Keys : j # k => lost'[j] = lost[j]
  BY LostIs DEF AnswerFails, DeskInv
<1>4. /\ claim' \in [Keys -> ClaimStates] /\ claim'[k] = "failed"
      /\ \A j \in Keys : j # k => claim'[j] = claim[j]
  BY ClaimIs DEF AnswerFails, DeskInv, ClaimStates
<1>5. request[k].body \in Bodies /\ lost[k] \in Int
  BY <1>1 DEF DeskInv, RequestsInv
<1>6. Spent(k)' >= Spent(k)
  BY <1>1, <1>2, <1>3, <1>4, <1>5 DEF Spent
<1> QED BY <1>1, <1>2, <1>3, <1>4, <1>5, <1>6, RequestKeeps DEF DeskInv, RequestsInv, Executing

\* The claim of a dead request may be taken over.
LEMMA ClaimGrowsStaleKeeps ==
    ASSUME DeskInv, NEW k \in Keys, ClaimGrowsStale(k)
    PROVE  DeskInv'
<1>1. UNCHANGED <<member, session, rowVars, choosing, request, lost>>
      /\ claim[k] = "processing" /\ request[k].pc \notin Executing
  BY DEF ClaimGrowsStale, Executing
<1>2. /\ claim' \in [Keys -> ClaimStates] /\ claim'[k] = "stale"
      /\ \A j \in Keys : j # k => claim'[j] = claim[j]
  BY ClaimIs DEF ClaimGrowsStale, DeskInv, ClaimStates
<1>3. Spent(k)' = Spent(k) /\ Spent(k) \in Int
  BY <1>1, <1>2 DEF Spent, DeskInv, RequestsInv
<1> QED BY <1>1, <1>2, <1>3, RequestKeeps DEF DeskInv, RequestsInv

\* The rows of the leads after one of them gets another owner or flag.
LEMMA LeadChanges ==
    ASSUME LeadsInv, NEW l \in Leads, NEW v \in LeadType, lead' = [lead EXCEPT ![l] = v]
    PROVE  /\ lead' \in [Leads -> LeadType] /\ lead'[l] = v
           /\ \A m \in Leads : m # l => lead'[m] = lead[m]
BY DEF LeadsInv

\* The same of its history,
LEMMA HistoryChanges ==
    ASSUME LeadsInv, NEW l \in Leads, NEW h \in Seq(EntryType),
           assignment' = [assignment EXCEPT ![l] = h]
    PROVE  /\ assignment' \in [Leads -> Seq(EntryType)] /\ assignment'[l] = h
           /\ \A m \in Leads : m # l => assignment'[m] = assignment[m]
BY DEF LeadsInv

\* and of the choice that is made for it.
LEMMA ChoiceChanges ==
    ASSUME LeadsInv, NEW l \in Leads, NEW c \in ChoiceType, choosing' = [choosing EXCEPT ![l] = c]
    PROVE  /\ choosing' \in [Leads -> ChoiceType] /\ choosing'[l] = c
           /\ \A m \in Leads : m # l => choosing'[m] = choosing[m]
BY DEF LeadsInv

\* A lead gets an owner.
LEMMA OwnedBy ==
    ASSUME NEW v \in LeadType, NEW u \in Users
    PROVE  [v EXCEPT !.owner = u] \in LeadType /\ [v EXCEPT !.owner = u].owner = u
BY DEF LeadType, Somebody

\* No choice is under way.
LEMMA IdleChoice == Idle \in ChoiceType /\ Idle.pc = "idle"
BY DEF Idle, ChoiceType, Somebody

\* A history that got one more entry, which is open, by a user.
LEMMA AgreesAgain ==
    ASSUME NEW h \in Seq(EntryType), NEW r \in Seq(EntryType), NEW u \in Users,
           Len(r) = Len(h) + 1, r[Len(h) + 1].open, r[Len(h) + 1].to = u,
           \A i \in 1..Len(h) : ~r[i].open
    PROVE  Agrees(r, u)
<1>1. u # Nobody
  BY DeskAssumption
<1>2. Len(h) \in Nat /\ r # << >>
  OBVIOUS
<1> QED BY <1>1, <1>2 DEF Agrees

\* The entries of a lead, counted.
LEMMA EntriesOf ==
    ASSUME LeadsInv, EntriesInv, NEW k \in Keys, NEW l \in Leads
    PROVE  Cardinality(Entries(assignment[l], k)) \in Nat
           /\ Cardinality(Entries(assignment[l], k)) <= Spent(k)
BY FiniteEntries DEF LeadsInv, EntriesInv

\* Staff, requests and tasks of a step that is about leads.
LEMMA ElseKept ==
    ASSUME DeskInv, UNCHANGED <<member, session, task, activity, edits, requestVars>>,
           LeadsInv', EntriesInv'
    PROVE  DeskInv'
<1>1. RequestsInv'
  BY DEF DeskInv, RequestsInv, requestVars
<1>2. TasksInv' /\ StaffInv'
  BY TasksKept, StaffKept DEF DeskInv, requestVars
<1> QED BY <1>1, <1>2 DEF DeskInv

\* A step that changes no row but the choice for a lead.
LEMMA RowsElse ==
    ASSUME DeskInv, UNCHANGED <<member, session, rowVars, requestVars>>, LeadsInv'
    PROVE  DeskInv'
<1>1. EntriesInv'
  <2>1. \A k \in Keys : Spent(k)' = Spent(k)
    BY DEF Spent, requestVars
  <2> QED BY <2>1 DEF DeskInv, EntriesInv, rowVars
<1> QED BY <1>1, ElseKept DEF rowVars

\* A member is chosen for a lead without an owner, whose row stays locked.
LEMMA ChooseAssigneeKeeps ==
    ASSUME DeskInv, NEW l \in Leads, ChooseAssignee(l)
    PROVE  DeskInv'
<1>1. PICK u \in Assignees(l) :
          choosing' = [choosing EXCEPT ![l] =
                          [pc |-> "locked", pick |-> u,
                           free |-> account[AccountOf[l]] = Nobody]]
  BY DEF ChooseAssignee
<1>2. UNCHANGED <<member, session, rowVars, requestVars>> /\ lead[l].owner = Nobody
  BY DEF ChooseAssignee
<1>3. u \in Users
  <2>1. account[AccountOf[l]] \in Somebody
    BY DeskAssumption DEF DeskInv, LeadsInv
  <2> QED BY <1>1, <2>1 DEF Assignees, LeastLoaded, Somebody
<1>4. PICK b \in BOOLEAN : b = (account[AccountOf[l]] = Nobody)
  OBVIOUS
<1>5. PICK c \in ChoiceType : c = [pc |-> "locked", pick |-> u, free |-> b]
  BY <1>3 DEF ChoiceType, Somebody
<1>6. choosing' = [choosing EXCEPT ![l] = c]
  BY <1>1, <1>4, <1>5
<1>7. LeadsInv'
  <2>1. /\ choosing' \in [Leads -> ChoiceType] /\ choosing'[l] = c
        /\ \A m \in Leads : m # l => choosing'[m] = choosing[m]
    BY <1>6, ChoiceChanges DEF DeskInv
  <2>2. c.pick = u
    BY <1>5
  <2> QED BY <1>2, <1>3, <2>1, <2>2 DEF DeskInv, LeadsInv, rowVars, Locked
<1> QED BY <1>2, <1>7, RowsElse

\* The transaction may roll back,
LEMMA AutoRollsBackKeeps ==
    ASSUME DeskInv, NEW l \in Leads, AutoRollsBack(l)
    PROVE  DeskInv'
<1>1. UNCHANGED <<member, session, rowVars, requestVars>>
      /\ choosing' = [choosing EXCEPT ![l] = Idle]
  BY DEF AutoRollsBack
<1>2. /\ choosing' \in [Leads -> ChoiceType] /\ choosing'[l] = Idle
      /\ \A m \in Leads : m # l => choosing'[m] = choosing[m]
  BY <1>1, IdleChoice, ChoiceChanges DEF DeskInv
<1>3. LeadsInv'
  BY <1>1, <1>2, IdleChoice DEF DeskInv, LeadsInv, rowVars, Locked
<1> QED BY <1>1, <1>3, RowsElse

\* or commit: the lead still has no owner, so no open entry is left behind.
LEMMA AutoAssignKeeps ==
    ASSUME DeskInv, NEW l \in Leads, AutoAssign(l)
    PROVE  DeskInv'
<1> DEFINE u == choosing[l].pick h == assignment[l]
<1>1. /\ Locked(l)
      /\ lead' = [lead EXCEPT ![l].owner = u]
      /\ account' = IF choosing[l].free THEN [account EXCEPT ![AccountOf[l]] = u]
                      ELSE account
      /\ assignment' = [assignment EXCEPT ![l] = Append(@, Entry(u, Automatic))]
      /\ choosing' = [choosing EXCEPT ![l] = Idle]
      /\ UNCHANGED <<member, session, task, activity, edits, requestVars>>
  BY DEF AutoAssign
<1>2. lead[l].owner = Nobody /\ u \in Users /\ h = << >> /\ h \in Seq(EntryType)
      /\ lead[l] \in LeadType
  BY <1>1 DEF DeskInv, LeadsInv, Agrees
<1>3. PICK v \in LeadType : v = [lead[l] EXCEPT !.owner = u] /\ v.owner = u
  BY <1>2, OwnedBy
<1>4. PICK e \in EntryType : e = Entry(u, Automatic) /\ e.open /\ e.to = u /\ e.by = Automatic
  BY <1>2, EntryIs
<1>5. PICK r \in Seq(EntryType) :
         /\ r = Append(h, e) /\ Len(r) = Len(h) + 1 /\ r[Len(h) + 1] = e
         /\ \A i \in 1..Len(h) : r[i] = h[i]
  BY <1>2, AppendedEntry
<1>6. assignment' = [assignment EXCEPT ![l] = r]
  BY <1>1, <1>4, <1>5 DEF DeskInv, LeadsInv
<1>7. lead' = [lead EXCEPT ![l] = v]
  BY <1>1, <1>3 DEF DeskInv, LeadsInv
<1>8. account' \in [Accounts -> Somebody]
  BY <1>1, <1>2 DEF DeskInv, LeadsInv, Somebody
<1>9. Agrees(r, u)
  <2>1. Len(h) = 0 BY <1>2
  <2>2. r[Len(h) + 1].open /\ r[Len(h) + 1].to = u
    BY <1>4, <1>5
  <2>3. \A i \in 1..Len(h) : ~r[i].open
    BY <2>1
  <2> QED BY <1>2, <1>5, <2>2, <2>3, AgreesAgain
<1>10. /\ lead' \in [Leads -> LeadType] /\ lead'[l] = v
       /\ \A m \in Leads : m # l => lead'[m] = lead[m]
  BY <1>7, LeadChanges DEF DeskInv
<1>11. /\ assignment' \in [Leads -> Seq(EntryType)] /\ assignment'[l] = r
       /\ \A m \in Leads : m # l => assignment'[m] = assignment[m]
  BY <1>6, HistoryChanges DEF DeskInv
<1>12. /\ choosing' \in [Leads -> ChoiceType] /\ choosing'[l] = Idle
       /\ \A m \in Leads : m # l => choosing'[m] = choosing[m]
  BY <1>1, IdleChoice, ChoiceChanges DEF DeskInv
<1>13. LeadsInv'
  BY <1>3, <1>8, <1>9, <1>10, <1>11, <1>12, IdleChoice DEF DeskInv, LeadsInv, Locked
<1>14. Longer(r, h, Automatic)
  BY <1>2, <1>4, <1>5 DEF Longer
<1>15. EntriesInv'
  <2> SUFFICES ASSUME NEW k \in Keys, NEW m \in Leads
               PROVE  Cardinality(Entries(assignment'[m], k)) <= Spent(k)'
    BY DEF EntriesInv
  <2>1. Spent(k)' = Spent(k)
    BY <1>1 DEF Spent, requestVars
  <2>2. k # Automatic
    BY DeskAssumption
  <2>3. Entries(assignment'[m], k) = Entries(assignment[m], k)
    <3>1. CASE m = l
      <4>1. Entries(r, k) = Entries(h, k)
        <5>1. h \in Seq(EntryType) /\ k # Automatic /\ Longer(r, h, Automatic)
          BY <1>2, <1>14, <2>2
        <5> HIDE DEF h
        <5> QED BY <5>1, LongerByOne
      <4> QED BY <1>11, <3>1, <4>1
    <3>2. CASE m # l
      BY <1>11, <3>2
    <3> QED BY <3>1, <3>2
  <2> QED BY <2>1, <2>3, EntriesOf DEF DeskInv
<1> QED BY <1>1, <1>13, <1>15, ElseKept

\* The request after its transaction: applied or refused.
LEMMA ExecutedRequest ==
    ASSUME DeskInv, NEW k \in Keys, request[k].pc = "claimed", UNCHANGED <<claim, lost>>,
           NEW pc \in {"applied", "refused"}, Goto(k, pc)
    PROVE  /\ RequestsInv' /\ request[k].body \in Bodies
           /\ request'[k].version = request[k].version /\ request'[k].pc = pc
           /\ \A j \in Keys : Spent(j)' = IF j = k /\ pc = "applied" THEN Spent(k) + 1 ELSE Spent(j)
           /\ \A j \in Keys : request[j].pc # "none" =>
                 request'[j].pc # "none" /\ request'[j].version = request[j].version
<1>1. /\ request' \in [Keys -> RequestType]
      /\ request'[k].pc = pc /\ request'[k].body = request[k].body
      /\ request'[k].version = request[k].version
      /\ \A j \in Keys : j # k => request'[j] = request[j]
  BY Pointed DEF DeskInv, RequestStates
<1>2. request[k].body \in Bodies /\ claim[k] = "processing" /\ lost[k] \in Int
  BY DEF DeskInv, RequestsInv, Executing
<1>3. RequestsInv'
  BY <1>1, <1>2 DEF DeskInv, RequestsInv, Executing
<1>4. Spent(k)' = IF pc = "applied" THEN Spent(k) + 1 ELSE Spent(k)
  BY <1>1, <1>2 DEF Spent
<1>5. \A j \in Keys : j # k => Spent(j)' = Spent(j)
  BY <1>1 DEF Spent
<1>6. \A j \in Keys : request[j].pc # "none" =>
                 request'[j].pc # "none" /\ request'[j].version = request[j].version
  BY <1>1
<1> QED BY <1>1, <1>2, <1>3, <1>4, <1>5, <1>6

\* A transaction that makes no entry.
LEMMA NoEntry ==
    ASSUME DeskInv, NEW k \in Keys, UNCHANGED assignment,
           NEW pc \in {"applied", "refused"},
           \A j \in Keys : Spent(j)' = IF j = k /\ pc = "applied" THEN Spent(k) + 1 ELSE Spent(j),
           RequestsInv'
    PROVE  EntriesInv'
<1>1. \A j \in Keys : Spent(j) \in Int
  BY DEF DeskInv, RequestsInv, Spent
<1>2. \A j \in Keys : Spent(j)' >= Spent(j)
  BY <1>1
<1> QED BY <1>2, EntriesKept DEF DeskInv

\* The request's side of a step of its transaction.
Executed(k, pc) ==
    /\ RequestsInv'
    /\ request'[k].version = request[k].version /\ request'[k].pc = pc
    /\ \A j \in Keys : Spent(j)' = IF j = k /\ pc = "applied" THEN Spent(k) + 1 ELSE Spent(j)
    /\ \A j \in Keys : request[j].pc # "none" =>
          request'[j].pc # "none" /\ request'[j].version = request[j].version

\* A transaction that raises changes nothing.
LEMMA RefusedKeeps ==
    ASSUME DeskInv, NEW k \in Keys, UNCHANGED <<member, session, rowVars, choosing>>,
           Executed(k, "refused")
    PROVE  DeskInv'
<1>1. LeadsInv' /\ StaffInv' /\ TasksInv'
  BY LeadsKept, StaffKept, TasksKept DEF DeskInv, rowVars, Executed
<1>2. EntriesInv'
  BY NoEntry DEF Executed, rowVars
<1> QED BY <1>1, <1>2 DEF DeskInv, Executed

\* A lead is assigned by staff: the entry is paid for by the request, which
\* holds its claim.
LEMMA AssignLeadKeeps ==
    ASSUME DeskInv, NEW k \in Keys, Body(k) \in Bodies, AssignLead(k), ~Waits(k),
           UNCHANGED <<session, choosing>>, Executed(k, "applied"),
           request[k].pc = "claimed"
    PROVE  DeskInv'
<1> DEFINE l == Body(k).on u == Body(k).to h == assignment[l]
<1>1. /\ Body(k).op = "assign_lead" /\ l \in Leads /\ u \in Users
      /\ assignment' = [assignment EXCEPT ![l] = Reassigned(@, u, k)]
      /\ lead' = [lead EXCEPT ![l].owner = u]
      /\ UNCHANGED <<member, account, task, activity, edits>>
  BY DeskAssumption DEF AssignLead
<1>2. ~Locked(l)
  BY <1>1 DEF Waits
<1>3. h \in Seq(EntryType) /\ lead[l] \in LeadType
  BY <1>1 DEF DeskInv, LeadsInv
<1>4. PICK v \in LeadType : v = [lead[l] EXCEPT !.owner = u] /\ v.owner = u
  BY <1>1, <1>3, OwnedBy
<1>5. PICK r \in Seq(EntryType) :
         /\ r = Reassigned(h, u, k) /\ Len(r) = Len(h) + 1
         /\ r[Len(h) + 1].open /\ r[Len(h) + 1].to = u /\ r[Len(h) + 1].by = k
         /\ \A i \in 1..Len(h) : ~r[i].open /\ r[i].by = h[i].by
  BY <1>1, <1>3, ReassignedIs
<1>6. Agrees(r, u)
  <2>1. r[Len(h) + 1].open /\ r[Len(h) + 1].to = u /\ \A i \in 1..Len(h) : ~r[i].open
    BY <1>5
  <2> HIDE DEF h, u
  <2> QED BY <1>1, <1>3, <1>5, <2>1, AgreesAgain
<1>7. /\ lead' \in [Leads -> LeadType] /\ lead'[l] = v
      /\ \A m \in Leads : m # l => lead'[m] = lead[m]
  <2>1. lead' = [lead EXCEPT ![l] = v]
    BY <1>1, <1>4 DEF DeskInv, LeadsInv
  <2> QED BY <1>1, <2>1, LeadChanges DEF DeskInv
<1>8. /\ assignment' \in [Leads -> Seq(EntryType)] /\ assignment'[l] = r
      /\ \A m \in Leads : m # l => assignment'[m] = assignment[m]
  <2>1. assignment' = [assignment EXCEPT ![l] = r]
    BY <1>1, <1>5 DEF DeskInv, LeadsInv
  <2> QED BY <1>1, <2>1, HistoryChanges DEF DeskInv
<1>9. LeadsInv'
  BY <1>1, <1>2, <1>4, <1>6, <1>7, <1>8 DEF DeskInv, LeadsInv, Locked
<1>10. Longer(r, h, k)
  BY <1>3, <1>5 DEF Longer
<1>11. EntriesInv'
  <2> SUFFICES ASSUME NEW j \in Keys, NEW m \in Leads
               PROVE  Cardinality(Entries(assignment'[m], j)) <= Spent(j)'
    BY DEF EntriesInv
  <2>1. Cardinality(Entries(assignment[m], j)) \in Nat
        /\ Cardinality(Entries(assignment[m], j)) <= Spent(j)
    BY EntriesOf DEF DeskInv
  <2>2. Spent(j) \in Int /\ Spent(k) \in Int
    BY DEF DeskInv, RequestsInv, Spent
  <2>3. CASE m # l
    <3>1. assignment'[m] = assignment[m]
      BY <1>8, <2>3
    <3> QED BY <2>1, <2>2, <3>1 DEF Executed
  <2>4. CASE m = l /\ j # k
    <3>1. Entries(r, j) = Entries(h, j)
      BY <1>3, <1>10, <2>4, LongerByOne
    <3> QED BY <1>8, <2>1, <2>4, <3>1 DEF Executed
  <2>5. CASE m = l /\ j = k
    <3>1. Cardinality(Entries(r, k)) <= Cardinality(Entries(h, k)) + 1
      BY <1>3, <1>10, LongerByOne
    <3>2. Spent(k)' = Spent(k) + 1
      BY DEF Executed
    <3>3. Cardinality(Entries(r, k)) \in Nat
      BY <1>5, FiniteEntries
    <3> QED BY <1>8, <2>1, <2>2, <2>5, <3>1, <3>2, <3>3
  <2> QED BY <2>3, <2>4, <2>5
<1>12. StaffInv' /\ TasksInv'
  BY <1>1, StaffKept, TasksKept DEF DeskInv, Executed
<1> QED BY <1>9, <1>11, <1>12 DEF DeskInv, Executed

\* An account is assigned.
LEMMA AssignAccountKeeps ==
    ASSUME DeskInv, NEW k \in Keys, Body(k) \in Bodies, AssignAccount(k),
           UNCHANGED <<session, choosing>>, Executed(k, "applied")
    PROVE  DeskInv'
<1>1. UNCHANGED <<member, lead, assignment, task, activity, edits>>
      /\ Body(k).to \in Users /\ account' = [account EXCEPT ![Body(k).on] = Body(k).to]
  BY DeskAssumption DEF AssignAccount
<1>2. LeadsInv'
  BY <1>1 DEF DeskInv, LeadsInv, Somebody, Locked
<1>3. StaffInv' /\ TasksInv' /\ EntriesInv'
  BY <1>1, StaffKept, TasksKept, NoEntry DEF DeskInv, Executed
<1> QED BY <1>2, <1>3 DEF DeskInv, Executed

\* A lead is closed or reopened.
LEMMA CloseOrReopenKeeps ==
    ASSUME DeskInv, NEW k \in Keys, Body(k) \in Bodies, CloseOrReopen(k),
           UNCHANGED <<session, choosing>>, Executed(k, "applied")
    PROVE  DeskInv'
<1> DEFINE l == Body(k).on
<1>1. UNCHANGED <<member, account, assignment, task, activity, edits>>
      /\ l \in Leads /\ lead' = [lead EXCEPT ![l].lost = ~@]
  BY DeskAssumption DEF CloseOrReopen
<1>2. lead[l] \in LeadType
  BY <1>1 DEF DeskInv, LeadsInv
<1>3. PICK b \in BOOLEAN : b = ~lead[l].lost
  OBVIOUS
<1>4. PICK v : v = [lead[l] EXCEPT !.lost = b]
  OBVIOUS
<1>10. v \in LeadType /\ v.owner = lead[l].owner
  BY <1>2, <1>4 DEF LeadType
<1>5. lead' = [lead EXCEPT ![l] = v]
  BY <1>1, <1>3, <1>4 DEF DeskInv, LeadsInv
<1>6. /\ lead' \in [Leads -> LeadType] /\ lead'[l] = v
      /\ \A m \in Leads : m # l => lead'[m] = lead[m]
  BY <1>1, <1>10, <1>5, LeadChanges DEF DeskInv
<1>7. LeadsInv'
  BY <1>1, <1>10, <1>6 DEF DeskInv, LeadsInv, Locked
<1>8. StaffInv' /\ TasksInv' /\ EntriesInv'
  BY <1>1, StaffKept, TasksKept, NoEntry DEF DeskInv, Executed
<1> QED BY <1>7, <1>8 DEF DeskInv, Executed

\* A member is created.
LEMMA CreateMemberKeeps ==
    ASSUME DeskInv, NEW k \in Keys, CreateMember(k),
           UNCHANGED <<session, choosing>>, Executed(k, "applied")
    PROVE  DeskInv'
<1>1. UNCHANGED rowVars /\ member' = [member EXCEPT ![Body(k).on] = "active"]
  BY DEF CreateMember
<1>2. StaffInv'
  BY <1>1 DEF DeskInv, StaffInv
<1>3. LeadsInv' /\ TasksInv' /\ EntriesInv'
  BY <1>1, LeadsKept, TasksKept, NoEntry DEF DeskInv, Executed, rowVars
<1> QED BY <1>2, <1>3 DEF DeskInv, Executed

\* The rows of the tasks after one of them changed.
LEMMA TaskChanges ==
    ASSUME TasksInv, NEW t \in Tasks, NEW v \in TaskType, NEW n \in Nat, NEW h \in Seq(Keys),
           task' = [task EXCEPT ![t] = v], activity' = [activity EXCEPT ![t] = n],
           edits' = [edits EXCEPT ![t] = h],
           InOrder(v, h), n = IF v.status = "completed" THEN 1 ELSE 0,
           \A i \in 1..Len(h) : request'[h[i]].version = i /\ request'[h[i]].pc # "none",
           \A k \in Keys : request[k].pc # "none" =>
               request'[k].pc # "none" /\ request'[k].version = request[k].version
    PROVE  TasksInv'
<1>1. /\ task' \in [Tasks -> TaskType] /\ task'[t] = v
      /\ activity' \in [Tasks -> Nat] /\ activity'[t] = n
      /\ edits' \in [Tasks -> Seq(Keys)] /\ edits'[t] = h
      /\ \A u \in Tasks : u # t =>
            task'[u] = task[u] /\ activity'[u] = activity[u] /\ edits'[u] = edits[u]
  BY DEF TasksInv
<1>2. ASSUME NEW u \in Tasks
      PROVE  /\ InOrder(task'[u], edits'[u])
             /\ activity'[u] = IF task'[u].status = "completed" THEN 1 ELSE 0
             /\ \A i \in 1..Len(edits'[u]) :
                   request'[edits'[u][i]].version = i /\ request'[edits'[u][i]].pc # "none"
  <2>1. CASE u = t
    BY <1>1, <2>1
  <2>2. CASE u # t
    <3>1. task'[u] = task[u] /\ activity'[u] = activity[u] /\ edits'[u] = edits[u]
      BY <1>1, <2>2
    <3>2. ASSUME NEW i \in 1..Len(edits[u])
          PROVE  request'[edits[u][i]].version = i /\ request'[edits[u][i]].pc # "none"
      <4>1. edits[u][i] \in Keys
        BY DEF TasksInv
      <4> QED BY <4>1 DEF TasksInv
    <3> QED BY <3>1, <3>2 DEF TasksInv
  <2> QED BY <2>1, <2>2
<1> QED BY <1>1, <1>2 DEF TasksInv

\* A task is created, before any edit.
LEMMA CreateTaskKeeps ==
    ASSUME DeskInv, NEW k \in Keys, Body(k) \in Bodies, CreateTask(k),
           UNCHANGED <<session, choosing>>, Executed(k, "applied")
    PROVE  DeskInv'
<1> DEFINE t == Body(k).on v == [status |-> "open", owner |-> Body(k).to, version |-> 1]
<1>1. /\ t \in Tasks /\ Body(k).to \in Users /\ task[t].status = "none"
      /\ task' = [task EXCEPT ![t] = v]
      /\ UNCHANGED <<member, lead, account, assignment, activity, edits>>
  BY DeskAssumption DEF CreateTask
<1>2. v \in TaskType
  BY <1>1 DEF TaskType, TaskStates, Somebody
<1>3. edits[t] = << >> /\ activity[t] = 0
  BY <1>1 DEF DeskInv, TasksInv, InOrder
<1>4. activity' = [activity EXCEPT ![t] = 0] /\ edits' = [edits EXCEPT ![t] = << >>]
  BY <1>1, <1>3 DEF DeskInv, TasksInv
<1>5. InOrder(v, << >>)
  BY DEF InOrder
<1>6. TasksInv'
  <2>1. << >> \in Seq(Keys) /\ 1..Len(<< >>) = {} /\ 0 = IF v.status = "completed" THEN 1 ELSE 0
    OBVIOUS
  <2> HIDE DEF v
  <2> QED BY <1>1, <1>2, <1>4, <1>5, <2>1, TaskChanges DEF DeskInv, Executed
<1>7. LeadsInv' /\ StaffInv' /\ EntriesInv'
  BY <1>1, LeadsKept, StaffKept, NoEntry DEF DeskInv, Executed
<1> QED BY <1>6, <1>7 DEF DeskInv, Executed

\* A task is edited by a request that saw its version: the edit takes the
\* next place.
LEMMA EditTaskKeeps ==
    ASSUME DeskInv, NEW k \in Keys, Body(k) \in Bodies, EditTask(k), request[k].pc = "claimed",
           UNCHANGED <<session, choosing>>, Executed(k, "applied")
    PROVE  DeskInv'
<1> DEFINE t == Body(k).on
<1>1. /\ t \in Tasks /\ Body(k).to \in Users /\ task[t].status \in OpenTask
      /\ task[t].version = request[k].version
      /\ UNCHANGED <<member, lead, account, assignment>>
      /\ edits' = [edits EXCEPT ![t] = Append(@, k)]
  BY DeskAssumption DEF EditTask, UpToDate
<1>2. task[t] \in TaskType /\ edits[t] \in Seq(Keys) /\ activity[t] = 0
      /\ task[t].version = 1 + Len(edits[t])
  BY <1>1 DEF DeskInv, TasksInv, InOrder, OpenTask
<1>20. PICK x : x = [task EXCEPT ![t].version = @ + 1]
  OBVIOUS
<1>21. x[t].owner \in Somebody
  BY <1>1, <1>2, <1>20 DEF DeskInv, TasksInv, TaskType
<1>3. PICK s \in {"in_progress", "completed", "cancelled"}, o \in Somebody :
         /\ task' = [x EXCEPT ![t].owner = o, ![t].status = s]
         /\ activity' = IF s = "completed" THEN [activity EXCEPT ![t] = @ + 1] ELSE activity
  <2>1. CASE Body(k).op = "update_task"
    <3>1. /\ task' = [x EXCEPT ![t].owner = Body(k).to, ![t].status = "in_progress"]
          /\ UNCHANGED activity
      BY <1>20, <2>1 DEF EditTask
    <3>2. Body(k).to \in Somebody
      BY <1>1 DEF Somebody
    <3> QED BY <3>1, <3>2
  <2>2. CASE Body(k).op = "complete_task"
    <3>1. /\ task' = [x EXCEPT ![t].owner = x[t].owner, ![t].status = "completed"]
          /\ activity' = [activity EXCEPT ![t] = @ + 1]
      BY <1>20, <2>2 DEF EditTask
    <3> QED BY <1>21, <3>1
  <2>3. CASE Body(k).op = "cancel_task"
    <3>1. /\ task' = [x EXCEPT ![t].owner = x[t].owner, ![t].status = "cancelled"]
          /\ UNCHANGED activity
      BY <1>20, <2>3 DEF EditTask
    <3> QED BY <1>21, <3>1
  <2> QED BY <2>1, <2>2, <2>3 DEF EditTask, TaskEdits
<1>4. PICK a : a = [task[t] EXCEPT !.version = @ + 1]
  OBVIOUS
<1>5. a \in TaskType /\ a.version = 2 + Len(edits[t])
  BY <1>2, <1>4 DEF TaskType
<1>6. PICK b : b = [a EXCEPT !.owner = o]
  OBVIOUS
<1>7. b \in TaskType /\ b.version = 2 + Len(edits[t])
  BY <1>5, <1>6 DEF TaskType
<1>8. PICK c : c = [b EXCEPT !.status = s]
  OBVIOUS
<1>9. c \in TaskType /\ c.version = 2 + Len(edits[t]) /\ c.status = s
  BY <1>3, <1>7, <1>8 DEF TaskType, TaskStates
<1>10. task' = [task EXCEPT ![t] = c]
  BY <1>1, <1>20, <1>3, <1>4, <1>6, <1>8 DEF DeskInv, TasksInv
<1>11. PICK h : h = Append(edits[t], k)
  OBVIOUS
<1>12. /\ h \in Seq(Keys) /\ Len(h) = Len(edits[t]) + 1 /\ h[Len(edits[t]) + 1] = k /\ h # << >>
       /\ \A i \in 1..Len(edits[t]) : h[i] = edits[t][i]
  BY <1>2, <1>11
<1>13. edits' = [edits EXCEPT ![t] = h]
  BY <1>1, <1>11 DEF DeskInv, TasksInv
<1>14. InOrder(c, h)
  <2>1. c.status # "none" /\ Len(edits[t]) \in Nat
    BY <1>2, <1>3, <1>9
  <2>2. c.version = 1 + Len(h)
    BY <1>9, <1>12, <2>1
  <2> QED BY <2>1, <2>2 DEF InOrder
<1>15. PICK n \in Nat : n = IF s = "completed" THEN 1 ELSE 0
  OBVIOUS
<1>16. activity' = [activity EXCEPT ![t] = n]
  <2>1. CASE s = "completed"
    BY <1>1, <1>2, <1>3, <1>15, <2>1 DEF DeskInv, TasksInv
  <2>2. CASE s # "completed"
    BY <1>1, <1>2, <1>3, <1>15, <2>2 DEF DeskInv, TasksInv
  <2> QED BY <2>1, <2>2
<1>17. ASSUME NEW i \in 1..Len(h)
       PROVE  request'[h[i]].version = i /\ request'[h[i]].pc # "none"
  <2>1. CASE i = Len(edits[t]) + 1
    BY <1>1, <1>2, <1>12, <2>1 DEF Executed
  <2>2. CASE i # Len(edits[t]) + 1
    <3>1. i \in 1..Len(edits[t])
      BY <1>2, <1>12, <2>2
    <3>2. h[i] = edits[t][i] /\ edits[t][i] \in Keys
      BY <1>2, <1>12, <3>1
    <3>3. request[edits[t][i]].version = i /\ request[edits[t][i]].pc # "none"
      BY <1>1, <3>1 DEF DeskInv, TasksInv
    <3> QED BY <3>2, <3>3 DEF Executed
  <2> QED BY <2>1, <2>2
<1>18. TasksInv'
  BY <1>1, <1>9, <1>10, <1>12, <1>13, <1>14, <1>15, <1>16, <1>17, TaskChanges DEF DeskInv, Executed
<1>19. LeadsInv' /\ StaffInv' /\ EntriesInv'
  BY <1>1, LeadsKept, StaffKept, NoEntry DEF DeskInv, Executed
<1> QED BY <1>18, <1>19 DEF DeskInv, Executed

\* Every transaction preserves the invariant.
LEMMA ExecuteKeeps ==
    ASSUME DeskInv, NEW k \in Keys, Execute(k)
    PROVE  DeskInv'
<1>1. request[k].pc = "claimed" /\ ~Waits(k) /\ UNCHANGED <<session, choosing, claim, lost>>
  BY DEF Execute
<1>2. Body(k) \in Bodies
  BY <1>1 DEF DeskInv, RequestsInv, Body
<1>3. CASE Transaction(k) /\ Goto(k, "applied")
  <2>1. Executed(k, "applied")
    BY <1>1, <1>3, ExecutedRequest DEF Executed
  <2>2. CASE AssignLead(k)
    BY <1>1, <1>2, <2>1, <2>2, AssignLeadKeeps
  <2>3. CASE AssignAccount(k)
    BY <1>1, <1>2, <2>1, <2>3, AssignAccountKeeps
  <2>4. CASE CloseOrReopen(k)
    BY <1>1, <1>2, <2>1, <2>4, CloseOrReopenKeeps
  <2>5. CASE CreateMember(k)
    BY <1>1, <2>1, <2>5, CreateMemberKeeps
  <2>6. CASE CreateTask(k)
    BY <1>1, <1>2, <2>1, <2>6, CreateTaskKeeps
  <2>7. CASE EditTask(k)
    BY <1>1, <1>2, <2>1, <2>7, EditTaskKeeps
  <2> QED BY <1>3, <2>2, <2>3, <2>4, <2>5, <2>6, <2>7 DEF Transaction
<1>4. CASE UNCHANGED <<member, rowVars>> /\ Goto(k, "refused")
  <2>1. Executed(k, "refused")
    BY <1>1, <1>4, ExecutedRequest DEF Executed
  <2> QED BY <1>1, <1>4, <2>1, RefusedKeeps
<1> QED BY <1>3, <1>4 DEF Execute

\* Members log in and out and are deactivated.
LEMMA StaffKeeps ==
    ASSUME DeskInv, NEW u \in Users, LogIn(u) \/ LogOut(u) \/ Deactivate(u)
    PROVE  DeskInv'
<1>1. UNCHANGED <<rowVars, choosing, requestVars>>
  BY DEF LogIn, LogOut, Deactivate
<1>2. StaffInv'
  BY DEF DeskInv, StaffInv, LogIn, LogOut, Deactivate
<1>3. LeadsInv' /\ TasksInv' /\ RequestsInv'
  BY <1>1, LeadsKept, TasksKept DEF DeskInv, rowVars, requestVars, RequestsInv
<1>4. EntriesInv'
  <2>1. \A k \in Keys : Spent(k)' = Spent(k)
    BY <1>1 DEF Spent, requestVars
  <2> QED BY <1>1, <2>1 DEF DeskInv, EntriesInv, rowVars
<1> QED BY <1>2, <1>3, <1>4 DEF DeskInv

\* The invariant holds to begin with
LEMMA DeskStarts == DeskInit => DeskInv
<1> SUFFICES ASSUME DeskInit PROVE DeskInv
  OBVIOUS
<1>1. LeadsInv
  BY IdleChoice DEF DeskInit, LeadsInv, LeadType, Somebody, Agrees, Locked
<1>2. StaffInv
  BY DEF DeskInit, StaffInv
<1>3. RequestsInv
  BY DeskAssumption DEF DeskInit, RequestsInv, RequestType, RequestStates, ClaimStates, Executing
<1>4. TasksInv
  BY DEF DeskInit, TasksInv, TaskType, TaskStates, Somebody, InOrder
<1>5. EntriesInv
  <2> SUFFICES ASSUME NEW k \in Keys, NEW l \in Leads
               PROVE  Cardinality(Entries(assignment[l], k)) <= Spent(k)
    BY DEF EntriesInv
  <2>1. assignment[l] = << >> /\ lost[k] = 0 /\ claim[k] = "none" /\ request[k].pc = "none"
    BY DEF DeskInit
  <2>2. Cardinality(Entries(assignment[l], k)) = 0
    BY <2>1, NoEntries
  <2> QED BY <2>1, <2>2 DEF Spent
<1> QED BY <1>1, <1>2, <1>3, <1>4, <1>5 DEF DeskInv

\* and while nothing happens.
LEMMA DeskStutters == DeskInv /\ UNCHANGED deskVars => DeskInv'
BY DEF DeskInv, deskVars, rowVars, requestVars, LeadsInv, StaffInv, RequestsInv, TasksInv,
       EntriesInv, Spent, Locked

\* The invariant of the desk, for any staff, leads, tasks and requests.
THEOREM DeskInvariant == DeskSpec => []DeskInv
<1>1. DeskInit => DeskInv
  BY DeskStarts
<1>2. DeskInv /\ [DeskNext]_deskVars => DeskInv'
  <2> SUFFICES ASSUME DeskInv, [DeskNext]_deskVars PROVE DeskInv'
    OBVIOUS
  <2>1. ASSUME NEW u \in Users, LogIn(u) \/ LogOut(u) \/ Deactivate(u) PROVE DeskInv'
    BY <2>1, StaffKeeps
  <2>2. ASSUME NEW l \in Leads, ChooseAssignee(l) \/ AutoAssign(l) \/ AutoRollsBack(l)
        PROVE  DeskInv'
    BY <2>2, ChooseAssigneeKeeps, AutoAssignKeeps, AutoRollsBackKeeps
  <2>3. ASSUME NEW k \in Keys, Send(k) \/ SendAgain(k) \/ Claim(k) \/ Execute(k)
        PROVE  DeskInv'
    BY <2>3, SendKeeps, SendAgainKeeps, ClaimKeeps, ExecuteKeeps
  <2>4. ASSUME NEW k \in Keys, Answer(k) \/ AnswerFails(k) \/ Lose(k) \/ ClaimGrowsStale(k)
        PROVE  DeskInv'
    BY <2>4, AnswerKeeps, AnswerFailsKeeps, LoseKeeps, ClaimGrowsStaleKeeps
  <2>5. CASE UNCHANGED deskVars
    BY <2>5, DeskStutters
  <2> QED BY <2>1, <2>2, <2>3, <2>4, <2>5 DEF DeskNext
<1> QED BY <1>1, <1>2, PTL DEF DeskSpec

\* The invariant implies the types,
LEMMA InvDeskTypes == DeskInv => DeskTypeOK
BY DEF DeskInv, LeadsInv, StaffInv, RequestsInv, TasksInv, DeskTypeOK,
       LeadType, EntryType, ChoiceType, TaskType, RequestType

\* the agreement of owners and assignments,
LEMMA InvAgrees == DeskInv => AssignmentAgrees
<1> SUFFICES ASSUME DeskInv, NEW l \in Leads
             PROVE  LET history == assignment[l]
                    IN  /\ history = << >> <=> lead[l].owner = Nobody
                        /\ \A i \in DOMAIN history :
                              IF i = Len(history) THEN history[i].open /\ history[i].to = lead[l].owner
                              ELSE ~history[i].open
  BY DEF AssignmentAgrees
<1> DEFINE h == assignment[l]
<1>1. h \in Seq(EntryType) /\ Agrees(h, lead[l].owner)
  BY DEF DeskInv, LeadsInv
<1>2. DOMAIN h = 1..Len(h) /\ \A i \in DOMAIN h : h # << >>
  BY <1>1
<1> QED BY <1>1, <1>2 DEF Agrees

\* the count of entries
LEMMA InvOnce == DeskInv => AssignedOncePerRequest
<1> SUFFICES ASSUME DeskInv, NEW k \in Keys, NEW l \in Leads
             PROVE  Cardinality(Entries(assignment[l], k)) <= 1 + lost[k]
  BY DEF AssignedOncePerRequest, Entries
<1>1. Cardinality(Entries(assignment[l], k)) \in Nat
      /\ Cardinality(Entries(assignment[l], k)) <= Spent(k)
  BY EntriesOf DEF DeskInv
<1> QED BY <1>1, SpentIs DEF Spent, DeskInv, RequestsInv

\* and the order of edits.
LEMMA InvInOrder == DeskInv => TaskEditedInOrder
<1> SUFFICES ASSUME DeskInv, NEW t \in Tasks
             PROVE  /\ task[t].version = (IF task[t].status = "none" THEN 0 ELSE 1) + Len(edits[t])
                    /\ \A i \in DOMAIN edits[t] :
                          /\ request[edits[t][i]].version = i
                          /\ \A j \in DOMAIN edits[t] : edits[t][i] = edits[t][j] => i = j
                    /\ activity[t] = IF task[t].status = "completed" THEN 1 ELSE 0
  BY DEF TaskEditedInOrder
<1>1. DOMAIN edits[t] = 1..Len(edits[t])
  BY DEF DeskInv, TasksInv
<1>2. \A i \in DOMAIN edits[t] : request[edits[t][i]].version = i
  BY <1>1 DEF DeskInv, TasksInv
<1>3. \A i, j \in DOMAIN edits[t] : edits[t][i] = edits[t][j] => i = j
  BY <1>2
<1> QED BY <1>2, <1>3 DEF DeskInv, TasksInv, InOrder

\* Type correctness of the desk.
THEOREM DeskTypes == DeskSpec => []DeskTypeOK
BY DeskInvariant, InvDeskTypes, PTL

\* A lead has one open assignment, its latest, which names its owner
\* (CRMService.assign_lead, auto_assign_lead).
THEOREM AssignmentsAgree == DeskSpec => []AssignmentAgrees
BY DeskInvariant, InvAgrees, PTL

\* A request enters an assignment once, and once more only for each time it
\* died or failed once applied (router._claim).
THEOREM RequestsAssignOnce == DeskSpec => []AssignedOncePerRequest
BY DeskInvariant, InvOnce, PTL

\* No edit of a task is lost or made twice (CRMService.update_task,
\* finish_task).
THEOREM TasksAreEditedInOrder == DeskSpec => []TaskEditedInOrder
BY DeskInvariant, InvInOrder, PTL
-----------------------------------------------------------------------------
(* Jarvis *)

\* The records of a run: of the request, of jarvis_runs, of its messages.
RunType == [pc : Points, plan : 0..MaxCalls, needs : Needs, results : Seq(Outcomes)]
AnswerType == [status : Statuses, plan : 0..MaxCalls, needs : Needs, results : Seq(Outcomes)]
MessageType == [user : 0..1, tool : 0..MaxCalls, assistant : 0..1]

RunTypes ==
    /\ run \in [Runs -> RunType]
    /\ jarvis \in [Runs -> AnswerType]
    /\ ledger \in [Runs -> Seq(Outcomes)]
    /\ messages \in [Runs -> MessageType]

\* The claim of a command, and the history.
ClaimStatuses == {"none", "processing", "stale", "completed", "failed"}
ClaimType == [status : ClaimStatuses, tries : 0..MaxRuns, told : 0..MaxRuns]

TakenTypes ==
    /\ taken \in [Commands -> ClaimType]
    /\ cut \subseteq Runs
    /\ overtaken \subseteq Runs

\* The ledger has what the results say, or what became of an approval since.
Follows(l, results) ==
    /\ Len(l) = Len(results)
    /\ \A i \in 1..Len(results) : results[i] \in {l[i], "pending_approval"}

\* A status with an answer.
Tells(status) == status \in {"COMPLETED", "AWAITING_APPROVAL", "BLOCKED"}

Noted(user, tool, assistant) == [user |-> user, tool |-> tool, assistant |-> assistant]

\* The stored answer has a result for every call that was due, each noted in
\* the conversation.
Truthful(j, l, m) ==
    /\ Follows(l, j.results)
    /\ Len(j.results) = Due(j)
    /\ m = Noted(1, Due(j), 1)
    /\ j.status = StatusOf(j.results)

\* What the records of a run say at each point of the request that works for
\* it: results are kept, then noted, then answered, and at no point is the
\* ledger more than one call ahead of the conversation.
Sound(w, j, l, m) ==
    /\ Len(l) <= m.tool + 1
    /\ w.pc = "claimed" => j.status = "none" /\ l = << >> /\ m = Noted(0, 0, 0) /\ w.results = << >>
    /\ w.pc = "planning" =>
          j.status = "PLANNING" /\ l = << >> /\ m = Noted(1, 0, 0) /\ w.results = << >>
    /\ w.pc = "calling" =>
          /\ j.status = "PLANNING"
          /\ Follows(l, w.results)
          /\ Len(w.results) < Due(w)
          /\ m = Noted(1, Len(w.results), 0)
    /\ w.pc = "noting" =>
          /\ j.status = "PLANNING"
          /\ Follows(l, w.results)
          /\ Len(w.results) \in 1..Due(w)
          /\ m = Noted(1, Len(w.results) - 1, 0)
    /\ w.pc = "answering" =>
          /\ j.status = "PLANNING"
          /\ Follows(l, w.results)
          /\ Len(w.results) = Due(w)
          /\ m = Noted(1, Due(w), 0)
    /\ w.pc = "returning" => Tells(j.status)
    /\ Tells(j.status) => Truthful(j, l, m)

SoundRuns == \A r \in Runs : Sound(run[r], jarvis[r], ledger[r], messages[r])

\* A run after whose answer the command may be run again.
Excused(r) == r \in cut \cup overtaken

\* A run that was not started.
Untouched(r) ==
    /\ At(r, "idle")
    /\ run[r].results = << >>
    /\ jarvis[r].status = "none"
    /\ ledger[r] = << >>
    /\ messages[r] = Noted(0, 0, 0)

\* How the claim stands to a run of its command: an answered run that is not
\* the latest, or whose claim is free again, is excused; a run that works
\* without holding the claim was overtaken; a refusal is not the last word on
\* an answer; and a stored response is that of a run that has ended with one.
Claimed(r) ==
    LET claims == taken[r[1]]
    IN  /\ r[2] > claims.tries => Untouched(r)
        /\ claims.status = "none" => claims.tries = 0
        /\ r[2] <= claims.tries /\ (r[2] < claims.tries \/ Unclaimed(r[1])) =>
              /\ Tells(jarvis[r].status) => Excused(r)
              /\ ~At(r, "idle") => r \in overtaken
        /\ claims.status = "processing" /\ r[2] = claims.tries /\ At(r, "idle") =>
              (Tells(jarvis[r].status) => Excused(r))
        /\ At(r, "refusing") /\ Tells(jarvis[r].status) => r \in cut
        /\ claims.status = "completed" => claims.told \in 1..claims.tries
        /\ claims.status = "completed" /\ claims.told = r[2] =>
              At(r, "idle") /\ Tells(jarvis[r].status)

ClaimsInv == \A r \in Runs : Claimed(r)

\* The inductive invariant of the founder's commands.
JarvisInv == RunTypes /\ TakenTypes /\ SoundRuns /\ ClaimsInv

\* Every list of results has a status that tells an answer.
LEMMA StatusOfOutcomes ==
    ASSUME NEW results \in Seq(Outcomes)
    PROVE  StatusOf(results) \in {"COMPLETED", "AWAITING_APPROVAL", "BLOCKED"}
BY DEF StatusOf

\* A function changed at one argument.
LEMMA OthersKeep ==
    ASSUME NEW X, NEW f, f \in [Runs -> X], NEW r \in Runs, NEW v \in X
    PROVE  /\ [f EXCEPT ![r] = v] \in [Runs -> X]
           /\ [f EXCEPT ![r] = v][r] = v
           /\ \A s \in Runs : s # r => [f EXCEPT ![r] = v][s] = f[s]
OBVIOUS

\* A step that writes the records of one run.
Writes(r, w, j, l, m) ==
    /\ run' = [run EXCEPT ![r] = w]
    /\ jarvis' = [jarvis EXCEPT ![r] = j]
    /\ ledger' = [ledger EXCEPT ![r] = l]
    /\ messages' = [messages EXCEPT ![r] = m]

\* The types of the records of one run.
WellTyped(w, j, l, m) ==
    w \in RunType /\ j \in AnswerType /\ l \in Seq(Outcomes) /\ m \in MessageType

\* If what is written for one run is sound, all runs stay so.
LEMMA WritesSoundly ==
    ASSUME RunTypes, SoundRuns, NEW r \in Runs, NEW w, NEW j, NEW l, NEW m,
           Writes(r, w, j, l, m), WellTyped(w, j, l, m), Sound(w, j, l, m)
    PROVE  /\ RunTypes' /\ SoundRuns'
           /\ run'[r] = w /\ jarvis'[r] = j /\ ledger'[r] = l /\ messages'[r] = m
           /\ \A s \in Runs : s # r =>
                /\ run'[s] = run[s] /\ jarvis'[s] = jarvis[s]
                /\ ledger'[s] = ledger[s] /\ messages'[s] = messages[s]
<1>1. /\ run \in [Runs -> RunType] /\ jarvis \in [Runs -> AnswerType]
      /\ ledger \in [Runs -> Seq(Outcomes)] /\ messages \in [Runs -> MessageType]
  BY DEF RunTypes
<1>2. /\ w \in RunType /\ j \in AnswerType /\ l \in Seq(Outcomes) /\ m \in MessageType
  BY DEF WellTyped
<1>3. run' \in [Runs -> RunType] /\ run'[r] = w /\ \A s \in Runs : s # r => run'[s] = run[s]
  BY <1>1, <1>2, OthersKeep DEF Writes
<1>4. jarvis' \in [Runs -> AnswerType] /\ jarvis'[r] = j /\ \A s \in Runs : s # r => jarvis'[s] = jarvis[s]
  BY <1>1, <1>2, OthersKeep DEF Writes
<1>5. ledger' \in [Runs -> Seq(Outcomes)] /\ ledger'[r] = l /\ \A s \in Runs : s # r => ledger'[s] = ledger[s]
  BY <1>1, <1>2, OthersKeep DEF Writes
<1>6. messages' \in [Runs -> MessageType] /\ messages'[r] = m /\ \A s \in Runs : s # r => messages'[s] = messages[s]
  BY <1>1, <1>2, OthersKeep DEF Writes
<1>7. RunTypes'
  BY <1>3, <1>4, <1>5, <1>6 DEF RunTypes
<1>8. SoundRuns'
  <2> SUFFICES ASSUME NEW s \in Runs PROVE Sound(run'[s], jarvis'[s], ledger'[s], messages'[s])
    BY DEF SoundRuns
  <2>1. CASE s = r
    BY <2>1, <1>3, <1>4, <1>5, <1>6
  <2>2. CASE s # r
    BY <2>2, <1>3, <1>4, <1>5, <1>6 DEF SoundRuns
  <2> QED BY <2>1, <2>2
<1> QED BY <1>3, <1>4, <1>5, <1>6, <1>7, <1>8

\* The records of a run before a step.
LEMMA RecordsOf ==
    ASSUME RunTypes, SoundRuns, NEW r \in Runs
    PROVE  /\ WellTyped(run[r], jarvis[r], ledger[r], messages[r])
           /\ Sound(run[r], jarvis[r], ledger[r], messages[r])
           /\ run = [run EXCEPT ![r] = run[r]]
           /\ jarvis = [jarvis EXCEPT ![r] = jarvis[r]]
           /\ ledger = [ledger EXCEPT ![r] = ledger[r]]
           /\ messages = [messages EXCEPT ![r] = messages[r]]
BY DEF RunTypes, SoundRuns, WellTyped

\* A run at another point.
Moved(w, pc) == [w EXCEPT !.pc = pc]

\* Its point is the only thing that changes.
LEMMA MovedRun ==
    ASSUME NEW w \in RunType, NEW pc \in Points
    PROVE  /\ Moved(w, pc) \in RunType
           /\ Moved(w, pc).pc = pc
           /\ Moved(w, pc).plan = w.plan
           /\ Due(Moved(w, pc)) = Due(w)
           /\ Moved(w, pc).results = w.results
BY DEF Moved, RunType, Due

\* The calls that are due are no more than those planned.
LEMMA DueIsPlanned ==
    ASSUME NEW w \in RunType PROVE Due(w) \in 0..MaxCalls /\ Due(w) <= w.plan
BY JarvisAssumption DEF RunType, Due

\* A run that goes where nothing is asked of it.
LEMMA LeavesSoundly ==
    ASSUME NEW w \in RunType, NEW j, NEW l, NEW m, Sound(w, j, l, m),
           NEW pc \in {"idle", "failing", "refusing"}
    PROVE  Sound(Moved(w, pc), j, l, m)
<1>1. pc \in Points BY DEF Points
<1>2. Moved(w, pc).pc = pc BY <1>1, MovedRun
<1> QED BY <1>2 DEF Sound

\* What a run's own step does to its records.
Step(r) ==
    \E w, j, l, m : Writes(r, w, j, l, m) /\ WellTyped(w, j, l, m) /\ Sound(w, j, l, m)

\* To in those terms.
LEMMA ToMoves ==
    ASSUME RunTypes, NEW r \in Runs, NEW pc, To(r, pc)
    PROVE  run' = [run EXCEPT ![r] = Moved(run[r], pc)]
BY DEF To, RunTypes, Moved

\* A request that gives up leaves records that are sound.
LEMMA LeaveStep ==
    ASSUME RunTypes, SoundRuns, NEW r \in Runs,
           NEW pc \in {"idle", "failing", "refusing"}, To(r, pc), UNCHANGED dataVars
    PROVE  Step(r)
<1>1. run' = [run EXCEPT ![r] = Moved(run[r], pc)]
  BY ToMoves
<1>2. Moved(run[r], pc) \in RunType
  BY MovedRun, RecordsOf DEF WellTyped, Points
<1>3. Sound(Moved(run[r], pc), jarvis[r], ledger[r], messages[r])
  BY LeavesSoundly, RecordsOf DEF WellTyped
<1>4. WellTyped(Moved(run[r], pc), jarvis[r], ledger[r], messages[r])
  BY <1>2, RecordsOf DEF WellTyped
<1>5. Writes(r, Moved(run[r], pc), jarvis[r], ledger[r], messages[r])
  BY <1>1, RecordsOf DEF Writes, dataVars
<1> QED BY <1>3, <1>4, <1>5 DEF Step

\* A run is created in PLANNING, with the message that asks for it.
LEMMA CreateRunStep ==
    ASSUME RunTypes, SoundRuns, NEW r \in Runs, CreateRun(r)
    PROVE  /\ Step(r)
           /\ run'[r].pc \in {"planning", "refusing"}
           /\ run'[r].pc = "refusing" => ~Tells(jarvis'[r].status)
<1> DEFINE w == run[r] j == jarvis[r] l == ledger[r] m == messages[r]
<1>1. WellTyped(w, j, l, m) /\ Sound(w, j, l, m)
  BY RecordsOf
<1>2. w.pc = "claimed"
  BY DEF CreateRun, At
<1>3. j.status = "none" /\ l = << >> /\ m = Noted(0, 0, 0) /\ w.results = << >>
  BY <1>1, <1>2 DEF Sound
<1>4. CASE jarvis' = [jarvis EXCEPT ![r].status = "PLANNING"] /\ messages' = [messages EXCEPT ![r].user = 1]
           /\ To(r, "planning")
  <2> DEFINE v == Moved(w, "planning") p == [j EXCEPT !.status = "PLANNING"] n == Noted(1, 0, 0)
  <2>1. v \in RunType /\ v.pc = "planning" /\ v.results = << >>
    BY <1>1, <1>3, MovedRun DEF WellTyped, Points
  <2>2. p \in AnswerType /\ p.status = "PLANNING"
    BY <1>1 DEF WellTyped, AnswerType, Statuses
  <2>3. n = [m EXCEPT !.user = 1] /\ n \in MessageType
    BY <1>1, <1>3 DEF WellTyped, MessageType, Noted
  <2>4. Writes(r, v, p, l, n)
    BY <1>4, <2>3, ToMoves, RecordsOf DEF Writes, CreateRun, RunTypes
  <2>5. Sound(v, p, l, n)
    BY <2>1, <2>2, <1>3 DEF Sound, Noted, Tells
  <2>6. Step(r)
    BY <2>1, <2>2, <2>3, <2>4, <2>5, <1>1 DEF Step, WellTyped
  <2>7. run'[r].pc = "planning"
    BY <2>1, <2>4 DEF Writes, RunTypes
  <2> QED BY <2>6, <2>7
<1>5. CASE To(r, "refusing") /\ UNCHANGED <<jarvis, messages>>
  <2>1. Step(r)
    BY <1>5, LeaveStep DEF CreateRun, dataVars
  <2>2. run'[r].pc = "refusing" /\ ~Tells(jarvis'[r].status)
    BY <1>3, <1>5 DEF To, RunTypes, RunType, Tells
  <2> QED BY <2>1, <2>2
<1> QED BY <1>4, <1>5 DEF CreateRun

\* A run gets its plan,
LEMMA PlannedRun ==
    ASSUME NEW w \in RunType, NEW pc, NEW n, NEW needs
    PROVE  [w EXCEPT !.pc = pc, !.plan = n, !.needs = needs]
              = [pc |-> pc, plan |-> n, needs |-> needs, results |-> w.results]
<1>1. PICK v : v = [pc |-> pc, plan |-> w.plan, needs |-> w.needs, results |-> w.results]
  OBVIOUS
<1>2. [w EXCEPT !.pc = pc] = v
  BY <1>1 DEF RunType
<1>3. PICK u : u = [pc |-> pc, plan |-> n, needs |-> w.needs, results |-> w.results]
  OBVIOUS
<1>4. [v EXCEPT !.plan = n] = u
  BY <1>1, <1>3
<1>5. [u EXCEPT !.needs = needs] = [pc |-> pc, plan |-> n, needs |-> needs, results |-> w.results]
  BY <1>3
<1> QED BY <1>2, <1>4, <1>5

\* and a run gets a result.
LEMMA CalledRun ==
    ASSUME NEW w \in RunType, NEW pc, NEW s
    PROVE  [w EXCEPT !.pc = pc, !.results = s]
              = [pc |-> pc, plan |-> w.plan, needs |-> w.needs, results |-> s]
<1>1. PICK v : v = [pc |-> pc, plan |-> w.plan, needs |-> w.needs, results |-> w.results]
  OBVIOUS
<1>2. [w EXCEPT !.pc = pc] = v
  BY <1>1 DEF RunType
<1>3. [v EXCEPT !.results = s] = [pc |-> pc, plan |-> w.plan, needs |-> w.needs, results |-> s]
  BY <1>1
<1> QED BY <1>2, <1>3

\* The plan decides whether a tool is called.
LEMMA PlanStep ==
    ASSUME RunTypes, SoundRuns, NEW r \in Runs, Plan(r)
    PROVE  Step(r) /\ run'[r].pc \in {"answering", "calling", "failing"}
<1> DEFINE w == run[r] j == jarvis[r] l == ledger[r] m == messages[r]
<1>1. WellTyped(w, j, l, m) /\ Sound(w, j, l, m)
  BY RecordsOf
<1>2. w.pc = "planning"
  BY DEF Plan, At
<1>3. j.status = "PLANNING" /\ l = << >> /\ m = Noted(1, 0, 0) /\ w.results = << >>
  BY <1>1, <1>2 DEF Sound
<1>4. CASE \E n \in 0..MaxCalls, needs \in Needs :
              run' = [run EXCEPT
                 ![r].pc = IF Due([plan |-> n, needs |-> needs]) = 0 THEN "answering" ELSE "calling",
                 ![r].plan = n,
                 ![r].needs = needs]
  <2>1. PICK n \in 0..MaxCalls, needs \in Needs :
              run' = [run EXCEPT
                 ![r].pc = IF Due([plan |-> n, needs |-> needs]) = 0 THEN "answering" ELSE "calling",
                 ![r].plan = n,
                 ![r].needs = needs]
    BY <1>4
  <2>2. PICK pc \in {"answering", "calling"} :
            pc = IF Due([plan |-> n, needs |-> needs]) = 0 THEN "answering" ELSE "calling"
    OBVIOUS
  <2>3. PICK v : v = [pc |-> pc, plan |-> n, needs |-> needs, results |-> << >>]
    OBVIOUS
  <2>4. v \in RunType /\ v.pc = pc /\ v.results = << >> /\ Len(v.results) = 0
    BY <2>2, <2>3 DEF RunType, Points
  <2>5. run' = [run EXCEPT ![r] = v]
    <3>1. [w EXCEPT !.pc = pc, !.plan = n, !.needs = needs] = v
      <4>1. PICK x : x = w
        OBVIOUS
      <4>2. x \in RunType /\ x.results = << >>
        BY <4>1, <1>1, <1>3 DEF WellTyped
      <4>3. [x EXCEPT !.pc = pc, !.plan = n, !.needs = needs]
               = [pc |-> pc, plan |-> n, needs |-> needs, results |-> x.results]
        BY <4>2, PlannedRun, Zenon
      <4> QED BY <2>3, <4>1, <4>2, <4>3, Zenon
    <3> QED BY <2>1, <2>2, <3>1 DEF RunTypes
  <2>6. Due(v) \in Nat /\ (IF Due(v) = 0 THEN pc = "answering" ELSE pc = "calling")
    <3>1. Due(v) = Due([plan |-> n, needs |-> needs])
      BY <2>3 DEF Due
    <3>2. Due(v) \in 0..MaxCalls
      BY <2>4, DueIsPlanned
    <3> QED BY <2>2, <3>1, <3>2
  <2>7. Sound(v, j, l, m)
    BY <1>3, <2>2, <2>4, <2>6 DEF Sound, Follows, Tells, Noted
  <2>8. Writes(r, v, j, l, m)
    BY <2>5, RecordsOf DEF Plan, Writes, dataVars
  <2>9. run'[r].pc = pc
    BY <2>4, <2>5 DEF RunTypes
  <2> QED BY <2>2, <2>4, <2>7, <2>8, <2>9, <1>1 DEF Step, WellTyped
<1>5. CASE To(r, "failing")
  <2>1. Step(r)
    BY <1>5, LeaveStep DEF Plan, dataVars
  <2>2. run'[r].pc = "failing"
    BY <1>5 DEF To, RunTypes, RunType
  <2> QED BY <2>1, <2>2
<1> QED BY <1>4, <1>5 DEF Plan

\* A result that both keep extends what follows.
LEMMA FollowsOn ==
    ASSUME NEW l \in Seq(Outcomes), NEW results \in Seq(Outcomes), Follows(l, results),
           NEW o \in Outcomes
    PROVE  Follows(Append(l, o), Append(results, o))
<1> DEFINE k == Append(l, o) s == Append(results, o)
<1>1. Len(k) = Len(l) + 1 /\ Len(s) = Len(results) + 1 /\ Len(l) = Len(results) /\ Len(l) \in Nat
  BY DEF Follows
<1>2. ASSUME NEW i \in 1..Len(s) PROVE s[i] \in {k[i], "pending_approval"}
  <2>1. CASE i = Len(s)
    BY <1>1, <2>1
  <2>2. CASE i # Len(s)
    <3>1. i \in 1..Len(results) BY <1>1, <2>2
    <3>2. s[i] = results[i] /\ k[i] = l[i] BY <3>1, <1>1
    <3> QED BY <3>1, <3>2 DEF Follows
  <2> QED BY <2>1, <2>2
<1> QED BY <1>1, <1>2 DEF Follows

\* Append, by type and length.
LEMMA AppendedOne ==
    ASSUME NEW X, NEW s \in Seq(X), NEW o \in X
    PROVE  Append(s, o) \in Seq(X) /\ Len(Append(s, o)) = Len(s) + 1
OBVIOUS

\* A call that is kept is noted next; one that raises may be in the ledger.
LEMMA CallToolStep ==
    ASSUME RunTypes, SoundRuns, NEW r \in Runs, CallTool(r)
    PROVE  Step(r) /\ run'[r].pc \in {"noting", "failing"}
<1> DEFINE w == run[r] j == jarvis[r] l == ledger[r] m == messages[r]
<1>1. WellTyped(w, j, l, m) /\ Sound(w, j, l, m)
  BY RecordsOf
<1>2. w.pc = "calling"
  BY DEF CallTool, At
<1>3. /\ j.status = "PLANNING"
      /\ Follows(l, w.results)
      /\ Len(w.results) < Due(w)
      /\ m = Noted(1, Len(w.results), 0)
  BY <1>1, <1>2 DEF Sound
<1>4. w.results \in Seq(Outcomes) /\ Due(w) \in 0..MaxCalls /\ l \in Seq(Outcomes)
  BY <1>1, DueIsPlanned DEF WellTyped, RunType
<1>5. m.tool = Len(w.results)
  BY <1>3 DEF Noted
<1>6. CASE \E o \in Outcomes :
             /\ ledger' = [ledger EXCEPT ![r] = Append(@, o)]
             /\ run' = [run EXCEPT ![r].pc = "noting", ![r].results = Append(@, o)]
  <2>1. PICK o \in Outcomes :
             /\ ledger' = [ledger EXCEPT ![r] = Append(@, o)]
             /\ run' = [run EXCEPT ![r].pc = "noting", ![r].results = Append(@, o)]
    BY <1>6
  <2>2. PICK s \in Seq(Outcomes) : s = Append(w.results, o)
    BY <1>4, AppendedOne
  <2>3. PICK k \in Seq(Outcomes) : k = Append(l, o)
    BY <1>4, AppendedOne
  <2>4. Follows(k, s) /\ Len(s) = Len(w.results) + 1 /\ Len(k) = Len(s)
    <3>1. Follows(k, s)
      BY <1>3, <1>4, <2>2, <2>3, FollowsOn
    <3>2. Len(s) = Len(w.results) + 1
      BY <1>4, <2>2, AppendedOne
    <3> QED BY <3>1, <3>2 DEF Follows
  <2>5. PICK v \in RunType : v = [pc |-> "noting", plan |-> w.plan, needs |-> w.needs, results |-> s]
    BY <1>1 DEF WellTyped, RunType, Points
  <2>6. run' = [run EXCEPT ![r] = v]
    <3>1. [w EXCEPT !.pc = "noting", !.results = Append(@, o)] = v
      BY <1>1, <2>2, <2>5, CalledRun DEF WellTyped
    <3> QED BY <2>1, <3>1 DEF RunTypes
  <2>7. ledger' = [ledger EXCEPT ![r] = k]
    BY <2>1, <2>3 DEF RunTypes
  <2>8. v.pc = "noting" /\ v.results = s /\ Due(v) = Due(w)
    BY <2>5 DEF Due
  <2>9. Sound(v, j, k, m)
    BY <1>3, <1>4, <1>5, <2>4, <2>8 DEF Sound, Tells
  <2>10. Writes(r, v, j, k, m)
    BY <2>6, <2>7, RecordsOf DEF CallTool, Writes
  <2>11. run'[r].pc = "noting"
    BY <2>6, <2>8 DEF RunTypes
  <2> QED BY <2>3, <2>5, <2>9, <2>10, <2>11, <1>1 DEF Step, WellTyped
<1>7. CASE /\ ledger' \in {ledger, [ledger EXCEPT ![r] = Append(@, "completed")]}
           /\ To(r, "failing")
  <2>1. PICK k \in {l, Append(l, "completed")} : ledger' = [ledger EXCEPT ![r] = k]
    BY <1>7, RecordsOf DEF RunTypes
  <2>2. k \in Seq(Outcomes) /\ Len(k) <= Len(l) + 1
    <3>1. "completed" \in Outcomes BY DEF Outcomes
    <3>2. Append(l, "completed") \in Seq(Outcomes) /\ Len(Append(l, "completed")) = Len(l) + 1
      BY <1>4, <3>1, AppendedOne
    <3>3. Len(l) \in Nat BY <1>4
    <3>4. CASE k = l
      BY <1>4, <3>3, <3>4
    <3>5. CASE k = Append(l, "completed")
      BY <3>2, <3>3, <3>5
    <3> QED BY <2>1, <3>4, <3>5
  <2>3. Len(l) = Len(w.results)
    BY <1>3 DEF Follows
  <2> DEFINE v == Moved(w, "failing")
  <2>4. v \in RunType /\ v.pc = "failing"
    BY <1>1, MovedRun DEF WellTyped, Points
  <2>5. Sound(v, j, k, m)
    BY <1>3, <1>4, <1>5, <2>2, <2>3, <2>4 DEF Sound, Tells
  <2>6. Writes(r, v, j, k, m)
    BY <1>7, <2>1, RecordsOf, ToMoves DEF CallTool, Writes
  <2>7. run'[r].pc = "failing"
    BY <2>4, <2>6 DEF Writes, RunTypes
  <2> QED BY <2>2, <2>4, <2>5, <2>6, <2>7, <1>1 DEF Step, WellTyped
<1> QED BY <1>6, <1>7 DEF CallTool

\* A noted result brings the conversation up to the ledger.
LEMMA NoteResultStep ==
    ASSUME RunTypes, SoundRuns, NEW r \in Runs, NoteResult(r)
    PROVE  Step(r) /\ run'[r].pc \in {"answering", "calling", "failing"}
<1> DEFINE w == run[r] j == jarvis[r] l == ledger[r] m == messages[r]
<1>1. WellTyped(w, j, l, m) /\ Sound(w, j, l, m)
  BY RecordsOf
<1>2. w.pc = "noting"
  BY DEF NoteResult, At
<1>3. /\ j.status = "PLANNING"
      /\ Follows(l, w.results)
      /\ Len(w.results) \in 1..Due(w)
      /\ m = Noted(1, Len(w.results) - 1, 0)
  BY <1>1, <1>2 DEF Sound
<1>4. w.results \in Seq(Outcomes) /\ Due(w) \in 0..MaxCalls /\ l \in Seq(Outcomes)
  BY <1>1, DueIsPlanned DEF WellTyped, RunType
<1>5. m.tool = Len(w.results) - 1 /\ m \in MessageType
  BY <1>1, <1>3 DEF Noted, WellTyped
<1>6. CASE /\ messages' = [messages EXCEPT ![r].tool = @ + 1]
           /\ To(r, IF Len(w.results) = Due(w) THEN "answering" ELSE "calling")
  <2>1. PICK pc \in {"answering", "calling"} :
             pc = IF Len(w.results) = Due(w) THEN "answering" ELSE "calling"
    OBVIOUS
  <2> DEFINE v == Moved(w, pc) n == Noted(1, Len(w.results), 0)
  <2>2. v \in RunType /\ v.pc = pc /\ Due(v) = Due(w) /\ v.results = w.results
    BY <1>1, <2>1, MovedRun DEF WellTyped, Points
  <2>3. [m EXCEPT !.tool = @ + 1] = n
    BY <1>3, <1>4 DEF Noted
  <2>4. n \in MessageType
    BY <1>3, <1>4, JarvisAssumption DEF Noted, MessageType
  <2>5. messages' = [messages EXCEPT ![r] = n]
    BY <1>6, <2>3, <1>5 DEF RunTypes
  <2>6. Writes(r, v, j, l, n)
    BY <1>6, <2>1, <2>5, RecordsOf, ToMoves DEF NoteResult, Writes
  <2>7. n.tool = Len(w.results) /\ Len(l) = Len(w.results)
    BY <1>3 DEF Noted, Follows
  <2>8. Sound(v, j, l, n)
    BY <1>3, <1>4, <2>1, <2>2, <2>7 DEF Sound, Tells
  <2>9. run'[r].pc = pc
    BY <2>2, <2>6 DEF Writes, RunTypes
  <2> QED BY <2>1, <2>2, <2>4, <2>6, <2>8, <2>9, <1>1 DEF Step, WellTyped
<1>7. CASE To(r, "failing") /\ UNCHANGED messages
  <2>1. Step(r)
    BY <1>7, LeaveStep DEF NoteResult, dataVars
  <2>2. run'[r].pc = "failing"
    BY <1>7 DEF To, RunTypes, RunType
  <2> QED BY <2>1, <2>2
<1> QED BY <1>6, <1>7 DEF NoteResult

\* The answer is written from results that follow the ledger.
LEMMA CompleteRunStep ==
    ASSUME RunTypes, SoundRuns, NEW r \in Runs, CompleteRun(r)
    PROVE  Step(r) /\ run'[r].pc \in {"returning", "failing"}
<1> DEFINE w == run[r] j == jarvis[r] l == ledger[r] m == messages[r]
<1>1. WellTyped(w, j, l, m) /\ Sound(w, j, l, m)
  BY RecordsOf
<1>2. w.pc = "answering"
  BY DEF CompleteRun, At
<1>3. /\ j.status = "PLANNING"
      /\ Follows(l, w.results)
      /\ Len(w.results) = Due(w)
      /\ m = Noted(1, Due(w), 0)
  BY <1>1, <1>2 DEF Sound
<1>4. /\ w.results \in Seq(Outcomes) /\ Due(w) \in 0..MaxCalls /\ l \in Seq(Outcomes)
      /\ w.plan \in 0..MaxCalls /\ w.needs \in Needs
  BY <1>1, DueIsPlanned DEF WellTyped, RunType
<1> DEFINE p == [status |-> StatusOf(w.results), plan |-> w.plan, needs |-> w.needs,
                 results |-> w.results]
           n == Noted(1, Due(w), 1)
<1>5. CASE /\ jarvis' = [jarvis EXCEPT ![r] = p]
           /\ messages' = [messages EXCEPT ![r].assistant = 1]
           /\ To(r, "returning") \/ To(r, "failing")
  <2>1. PICK pc \in {"returning", "failing"} : To(r, pc)
    BY <1>5
  <2> DEFINE v == Moved(w, pc)
  <2>2. v \in RunType /\ v.pc = pc
    BY <1>1, <2>1, MovedRun DEF WellTyped, Points
  <2>3. p \in AnswerType /\ Tells(p.status)
    BY <1>4, StatusOfOutcomes DEF AnswerType, Statuses, Tells
  <2>4. [m EXCEPT !.assistant = 1] = n
    BY <1>3 DEF Noted
  <2>5. n \in MessageType
    BY <1>4 DEF Noted, MessageType
  <2>6. messages' = [messages EXCEPT ![r] = n]
    BY <1>5, <2>4 DEF RunTypes
  <2>7. Writes(r, v, p, l, n)
    BY <1>5, <2>1, <2>6, RecordsOf, ToMoves DEF CompleteRun, Writes
  <2>8. n.tool = Due(w) /\ Len(l) = Due(w) /\ Due(p) = Due(w)
    BY <1>3 DEF Noted, Follows, Due
  <2>9. Truthful(p, l, n)
    BY <1>3, <2>8 DEF Truthful
  <2>10. Sound(v, p, l, n)
    BY <1>4, <2>1, <2>2, <2>3, <2>8, <2>9 DEF Sound
  <2>11. run'[r].pc = pc
    BY <2>2, <2>7 DEF Writes, RunTypes
  <2> QED BY <2>1, <2>2, <2>3, <2>5, <2>7, <2>10, <2>11, <1>1 DEF Step, WellTyped
<1>6. CASE To(r, "failing") /\ UNCHANGED <<jarvis, messages>>
  <2>1. Step(r)
    BY <1>6, LeaveStep DEF CompleteRun, dataVars
  <2>2. run'[r].pc = "failing"
    BY <1>6 DEF To, RunTypes, RunType
  <2> QED BY <2>1, <2>2
<1> QED BY <1>5, <1>6 DEF CompleteRun

\* A run that is marked FAILED answers nothing.
LEMMA FailRunStep ==
    ASSUME RunTypes, SoundRuns, NEW r \in Runs, FailRun(r)
    PROVE  Step(r) /\ run'[r].pc = "refusing" /\ ~Tells(jarvis'[r].status)
<1> DEFINE w == run[r] j == jarvis[r] l == ledger[r] m == messages[r]
           v == Moved(w, "refusing") p == [j EXCEPT !.status = "FAILED"]
<1>1. WellTyped(w, j, l, m) /\ Sound(w, j, l, m)
  BY RecordsOf
<1>2. v \in RunType /\ v.pc = "refusing"
  BY <1>1, MovedRun DEF WellTyped, Points
<1>3. p \in AnswerType /\ p.status = "FAILED"
  BY <1>1 DEF WellTyped, AnswerType, Statuses
<1>4. ~Tells(p.status)
  BY <1>3 DEF Tells
<1>5. Sound(v, p, l, m)
  BY <1>1, <1>2, <1>4 DEF Sound
<1>6. Writes(r, v, p, l, m)
  BY RecordsOf, ToMoves DEF FailRun, Writes, RunTypes
<1>7. run'[r].pc = "refusing" /\ jarvis'[r] = p
  BY <1>2, <1>3, <1>6 DEF Writes, RunTypes
<1> QED BY <1>1, <1>2, <1>3, <1>4, <1>5, <1>6, <1>7 DEF Step, WellTyped

\* What the steps of a run's service leave alone.
claimVars == <<taken, cut, overtaken>>

\* The numbers of a claim, and of a run.
LEMMA TriesAre ==
    ASSUME TakenTypes, NEW r \in Runs
    PROVE  /\ r[1] \in Commands /\ r[2] \in 1..MaxRuns /\ r = <<r[1], r[2]>>
           /\ taken[r[1]].tries \in Nat /\ taken[r[1]].tries <= MaxRuns
           /\ taken[r[1]].told \in Nat
           /\ taken[r[1]].status \in ClaimStatuses
BY JarvisAssumption DEF TakenTypes, ClaimType, Runs

\* A run that works was started, and does not tell its answer yet.
LEMMA WorkingRun ==
    ASSUME TakenTypes, ClaimsInv, NEW r \in Runs, ~At(r, "idle")
    PROVE  /\ r[2] <= taken[r[1]].tries
           /\ ~(taken[r[1]].status = "completed" /\ taken[r[1]].told = r[2])
BY TriesAre DEF ClaimsInv, Claimed, Untouched

\* A step of one run, seen from all.
LEMMA WritesOne ==
    ASSUME RunTypes, SoundRuns, NEW r \in Runs, Step(r)
    PROVE  /\ RunTypes' /\ SoundRuns'
           /\ \A s \in Runs : s # r =>
                /\ run'[s] = run[s] /\ jarvis'[s] = jarvis[s]
                /\ ledger'[s] = ledger[s] /\ messages'[s] = messages[s]
BY WritesSoundly DEF Step

\* A run that nothing happened to stands as before to its claim.
LEMMA OthersClaimed ==
    ASSUME ClaimsInv, NEW s \in Runs, UNCHANGED claimVars,
           run'[s] = run[s], jarvis'[s] = jarvis[s], ledger'[s] = ledger[s],
           messages'[s] = messages[s]
    PROVE  Claimed(s)'
BY DEF ClaimsInv, Claimed, claimVars, Untouched, At, Excused, Unclaimed

\* A step of the service, in which a run goes on working, preserves the
\* invariant.
LEMMA WorksOn ==
    ASSUME JarvisInv, NEW r \in Runs, ~At(r, "idle"), Step(r), UNCHANGED claimVars,
           run'[r].pc # "idle",
           run'[r].pc = "refusing" => r \in cut \/ ~Tells(jarvis'[r].status)
    PROVE  JarvisInv'
<1>1. RunTypes' /\ SoundRuns'
  BY WritesOne DEF JarvisInv
<1>2. TakenTypes'
  BY DEF JarvisInv, TakenTypes, claimVars
<1>3. ASSUME NEW s \in Runs, s # r PROVE Claimed(s)'
  BY <1>3, WritesOne, OthersClaimed DEF JarvisInv
<1>4. Claimed(r)'
  <2>1. Claimed(r) /\ r[2] <= taken[r[1]].tries
        /\ ~(taken[r[1]].status = "completed" /\ taken[r[1]].told = r[2])
    BY WorkingRun DEF JarvisInv, ClaimsInv
  <2>2. r[2] \in Nat /\ taken[r[1]].tries \in Nat
    BY TriesAre DEF JarvisInv
  <2> QED BY <2>1, <2>2 DEF Claimed, claimVars, At, Excused, Unclaimed
<1> QED BY <1>1, <1>2, <1>3, <1>4 DEF JarvisInv, ClaimsInv

\* Every step of JarvisService.run_command is one.
LEMMA RunCommandKeeps ==
    ASSUME JarvisInv, NEW r \in Runs,
           CreateRun(r) \/ Plan(r) \/ CallTool(r) \/ NoteResult(r) \/ CompleteRun(r) \/ FailRun(r)
    PROVE  JarvisInv'
<1> USE DEF JarvisInv
<1>1. CASE CreateRun(r)
  <2>1. ~At(r, "idle") /\ UNCHANGED claimVars BY <1>1 DEF CreateRun, At, claimVars
  <2>2. run'[r].pc # "idle" BY <1>1, CreateRunStep
  <2> QED BY <1>1, <2>1, <2>2, CreateRunStep, WorksOn
<1>2. CASE Plan(r)
  <2>1. ~At(r, "idle") /\ UNCHANGED claimVars BY <1>2 DEF Plan, At, claimVars
  <2>2. run'[r].pc \notin {"idle", "refusing"} BY <1>2, PlanStep
  <2> QED BY <1>2, <2>1, <2>2, PlanStep, WorksOn
<1>3. CASE CallTool(r)
  <2>1. ~At(r, "idle") /\ UNCHANGED claimVars BY <1>3 DEF CallTool, At, claimVars
  <2>2. run'[r].pc \notin {"idle", "refusing"} BY <1>3, CallToolStep
  <2> QED BY <1>3, <2>1, <2>2, CallToolStep, WorksOn
<1>4. CASE NoteResult(r)
  <2>1. ~At(r, "idle") /\ UNCHANGED claimVars BY <1>4 DEF NoteResult, At, claimVars
  <2>2. run'[r].pc \notin {"idle", "refusing"} BY <1>4, NoteResultStep
  <2> QED BY <1>4, <2>1, <2>2, NoteResultStep, WorksOn
<1>5. CASE CompleteRun(r)
  <2>1. ~At(r, "idle") /\ UNCHANGED claimVars BY <1>5 DEF CompleteRun, At, claimVars
  <2>2. run'[r].pc \notin {"idle", "refusing"} BY <1>5, CompleteRunStep
  <2> QED BY <1>5, <2>1, <2>2, CompleteRunStep, WorksOn
<1>6. CASE FailRun(r)
  <2>1. ~At(r, "idle") /\ UNCHANGED claimVars BY <1>6 DEF FailRun, At, claimVars
  <2>2. run'[r].pc # "idle" BY <1>6, FailRunStep
  <2> QED BY <1>6, <2>1, <2>2, FailRunStep, WorksOn
<1> QED BY <1>1, <1>2, <1>3, <1>4, <1>5, <1>6

\* A claim that changes its status,
LEMMA TakenStatus ==
    ASSUME TakenTypes, NEW c \in Commands,
           NEW v \in ClaimStatuses,
           taken' = [taken EXCEPT ![c].status = v]
    PROVE  /\ taken' \in [Commands -> ClaimType]
           /\ taken'[c].status = v /\ taken'[c].tries = taken[c].tries
           /\ taken'[c].told = taken[c].told
           /\ \A d \in Commands : d # c => taken'[d] = taken[d]
BY DEF TakenTypes, ClaimType

\* one that is completed,
LEMMA TakenTold ==
    ASSUME TakenTypes, NEW c \in Commands, NEW n \in 0..MaxRuns,
           taken' = [taken EXCEPT ![c].status = "completed", ![c].told = n]
    PROVE  /\ taken' \in [Commands -> ClaimType]
           /\ taken'[c].status = "completed" /\ taken'[c].tries = taken[c].tries
           /\ taken'[c].told = n
           /\ \A d \in Commands : d # c => taken'[d] = taken[d]
<1>1. PICK t : t = [taken EXCEPT ![c].status = "completed"]
  OBVIOUS
<1>2. t \in [Commands -> ClaimType]
      /\ t[c].status = "completed" /\ t[c].tries = taken[c].tries
      /\ \A d \in Commands : d # c => t[d] = taken[d]
  BY <1>1 DEF TakenTypes, ClaimType, ClaimStatuses
<1>3. taken' = [t EXCEPT ![c].told = n]
  BY <1>1
<1>4. PICK u : u = [t[c] EXCEPT !.told = n]
  OBVIOUS
<1>5. u \in ClaimType /\ u.status = t[c].status /\ u.told = n /\ u.tries = t[c].tries
  BY <1>2, <1>4 DEF ClaimType
<1>6. taken' = [t EXCEPT ![c] = u]
  BY <1>2, <1>3, <1>4
<1> QED BY <1>2, <1>5, <1>6

\* and one that is taken again.
LEMMA TakenAgain ==
    ASSUME TakenTypes, NEW c \in Commands, NEW n \in 0..MaxRuns,
           taken' = [taken EXCEPT ![c].status = "processing", ![c].tries = n]
    PROVE  /\ taken' \in [Commands -> ClaimType]
           /\ taken'[c].status = "processing" /\ taken'[c].tries = n
           /\ taken'[c].told = taken[c].told
           /\ \A d \in Commands : d # c => taken'[d] = taken[d]
<1>1. PICK t : t = [taken EXCEPT ![c].status = "processing"]
  OBVIOUS
<1>2. t \in [Commands -> ClaimType]
      /\ t[c].status = "processing" /\ t[c].told = taken[c].told
      /\ \A d \in Commands : d # c => t[d] = taken[d]
  BY <1>1 DEF TakenTypes, ClaimType, ClaimStatuses
<1>3. taken' = [t EXCEPT ![c].tries = n]
  BY <1>1
<1>4. PICK u : u = [t[c] EXCEPT !.tries = n]
  OBVIOUS
<1>5. u \in ClaimType /\ u.status = t[c].status /\ u.tries = n /\ u.told = t[c].told
  BY <1>2, <1>4 DEF ClaimType
<1>6. taken' = [t EXCEPT ![c] = u]
  BY <1>2, <1>3, <1>4
<1> QED BY <1>2, <1>5, <1>6

\* A command that is taken again starts a run that was not touched; the runs
\* before it are excused, or were overtaken.
LEMMA CommandKeeps ==
    ASSUME JarvisInv, NEW c \in Commands, Command(c)
    PROVE  JarvisInv'
<1> DEFINE i == taken[c].tries + 1 r == <<c, i>>
<1>1. Unclaimed(c) /\ i <= MaxRuns
      /\ taken' = [taken EXCEPT ![c].status = "processing", ![c].tries = i]
      /\ To(r, "claimed") /\ UNCHANGED <<dataVars, cut, overtaken>>
  BY DEF Command
<1>2. taken[c].tries \in 0..MaxRuns
  BY DEF JarvisInv, TakenTypes, ClaimType
<1>3. i \in 1..MaxRuns
  BY <1>1, <1>2, JarvisAssumption
<1>4. r \in Runs /\ r[1] = c /\ r[2] = i
  BY <1>3 DEF Runs
<1>5. Untouched(r)
  BY <1>2, <1>4 DEF JarvisInv, ClaimsInv, Claimed
<1>6. Step(r)
  <2> DEFINE v == Moved(run[r], "claimed")
  <2>1. WellTyped(run[r], jarvis[r], ledger[r], messages[r])
        /\ Sound(run[r], jarvis[r], ledger[r], messages[r])
    BY <1>4, RecordsOf DEF JarvisInv
  <2>2. v \in RunType /\ v.pc = "claimed" /\ v.results = << >>
    BY <2>1, <1>5, MovedRun DEF WellTyped, Points, Untouched
  <2>3. Sound(v, jarvis[r], ledger[r], messages[r])
    BY <2>2, <1>5 DEF Untouched, Sound, Tells, Noted
  <2>4. Writes(r, v, jarvis[r], ledger[r], messages[r])
    BY <1>1, <1>4, RecordsOf, ToMoves DEF Writes, JarvisInv, dataVars
  <2> QED BY <2>1, <2>2, <2>3, <2>4 DEF Step, WellTyped
<1>7. /\ taken' \in [Commands -> ClaimType]
      /\ taken'[c].status = "processing" /\ taken'[c].tries = i
      /\ taken'[c].told = taken[c].told
      /\ \A d \in Commands : d # c => taken'[d] = taken[d]
  <2>1. i \in 0..MaxRuns BY <1>3
  <2> QED BY <1>1, <2>1, TakenAgain DEF JarvisInv
<1>8. RunTypes' /\ SoundRuns' /\ TakenTypes'
  BY <1>1, <1>4, <1>6, <1>7, WritesOne DEF JarvisInv, TakenTypes
<1>9. ASSUME NEW s \in Runs PROVE Claimed(s)'
  <2>1. Claimed(s) /\ s[1] \in Commands /\ s[2] \in Nat /\ s = <<s[1], s[2]>>
    BY TriesAre DEF JarvisInv, ClaimsInv
  <2>2. CASE s = r
    <3>1. run'[r].pc = "claimed" /\ jarvis'[r].status = "none"
      BY <1>1, <1>4, <1>5 DEF To, dataVars, JarvisInv, RunTypes, RunType, Untouched
    <3> QED BY <2>2, <1>4, <1>7, <1>2, <3>1 DEF Claimed, Tells, At, Unclaimed
  <2>3. CASE s # r /\ s[1] = c
    <3>1. run'[s] = run[s] /\ jarvis'[s] = jarvis[s] /\ ledger'[s] = ledger[s]
          /\ messages'[s] = messages[s]
      BY <2>3, <1>4, <1>6, WritesOne DEF JarvisInv
    <3>2. s[2] # i
      BY <2>1, <2>3
    <3> QED BY <1>1, <1>2, <1>7, <2>1, <2>3, <3>1, <3>2
        DEF Claimed, Untouched, At, Excused, Unclaimed
  <2>4. CASE s[1] # c
    <3>1. run'[s] = run[s] /\ jarvis'[s] = jarvis[s] /\ ledger'[s] = ledger[s]
          /\ messages'[s] = messages[s]
      BY <2>4, <1>4, <1>6, WritesOne DEF JarvisInv
    <3>2. taken'[s[1]] = taken[s[1]]
      BY <1>7, <2>1, <2>4
    <3> QED BY <1>1, <2>1, <3>1, <3>2 DEF Claimed, Untouched, At, Excused, Unclaimed
  <2> QED BY <2>2, <2>3, <2>4
<1> QED BY <1>8, <1>9 DEF JarvisInv, ClaimsInv

\* A request that ends changes no record but its own.
LEMMA GoesIdle ==
    ASSUME RunTypes, SoundRuns, NEW r \in Runs, NEW pc \in {"idle", "refusing"}, To(r, pc),
           UNCHANGED dataVars
    PROVE  /\ Step(r) /\ run'[r].pc = pc /\ UNCHANGED jarvis
           /\ RunTypes' /\ SoundRuns'
           /\ \A s \in Runs : s # r =>
                /\ run'[s] = run[s] /\ jarvis'[s] = jarvis[s]
                /\ ledger'[s] = ledger[s] /\ messages'[s] = messages[s]
<1>1. Step(r)
  BY LeaveStep
<1>2. run'[r].pc = pc
  BY DEF To, RunTypes, RunType
<1> QED BY <1>1, <1>2, WritesOne DEF dataVars

\* A claim that is failed excuses every other run of the command: each lost
\* the claim in that moment, or before.
LEMMA FailClaimKeeps ==
    ASSUME JarvisInv, NEW r \in Runs, ~At(r, "idle"), FailClaim(r), To(r, "idle"),
           UNCHANGED dataVars, cut' \in SUBSET Runs, cut \subseteq cut',
           Tells(jarvis[r].status) => r \in cut'
    PROVE  JarvisInv'
<1> DEFINE c == r[1]
<1>1. c \in Commands /\ r[2] \in Nat /\ r = <<c, r[2]>>
  BY TriesAre DEF JarvisInv
<1>2. /\ taken' \in [Commands -> ClaimType]
      /\ taken'[c].status = "failed" /\ taken'[c].tries = taken[c].tries
      /\ taken'[c].told = taken[c].told
      /\ \A d \in Commands : d # c => taken'[d] = taken[d]
  BY <1>1, TakenStatus DEF FailClaim, ClaimStatuses, JarvisInv
<1>3. /\ run'[r].pc = "idle" /\ UNCHANGED jarvis /\ RunTypes' /\ SoundRuns'
      /\ \A s \in Runs : s # r =>
                /\ run'[s] = run[s] /\ jarvis'[s] = jarvis[s]
                /\ ledger'[s] = ledger[s] /\ messages'[s] = messages[s]
  BY GoesIdle DEF JarvisInv
<1>4. overtaken' = overtaken \cup {s \in Runs : s[1] = c /\ s # r /\ s[2] <= taken[c].tries}
  BY DEF FailClaim
<1>5. TakenTypes'
  BY <1>2, <1>4 DEF JarvisInv, TakenTypes
<1>6. ASSUME NEW s \in Runs PROVE Claimed(s)'
  <2>1. Claimed(s) /\ s[1] \in Commands /\ s[2] \in Nat /\ taken[s[1]].tries \in Nat
    BY TriesAre DEF JarvisInv, ClaimsInv
  <2>2. CASE s = r
    <3>1. r[2] <= taken[c].tries /\ taken[c].tries # 0
      BY <1>1, WorkingRun, TriesAre DEF JarvisInv, Runs
    <3> QED BY <2>1, <2>2, <3>1, <1>2, <1>3 DEF Claimed, At, Excused, Unclaimed
  <2>3. CASE s # r /\ s[1] = c
    <3>1. s[2] <= taken[c].tries => s \in overtaken'
      BY <1>4, <2>3
    <3>2. taken[c].tries # 0
      BY <1>1, WorkingRun, TriesAre DEF JarvisInv, Runs
    <3> QED BY <2>1, <2>3, <3>1, <3>2, <1>2, <1>3 DEF Claimed, Untouched, At, Excused, Unclaimed
  <2>4. CASE s[1] # c
    <3>1. taken'[s[1]] = taken[s[1]] /\ s # r
      BY <1>2, <2>1, <2>4
    <3> QED BY <1>3, <1>4, <2>1, <3>1 DEF Claimed, Untouched, At, Excused, Unclaimed
  <2> QED BY <2>2, <2>3, <2>4
<1> QED BY <1>3, <1>5, <1>6 DEF JarvisInv, ClaimsInv

\* A response is stored for a run that answered; a refused run fails the
\* claim.
LEMMA ReturnKeeps ==
    ASSUME JarvisInv, NEW r \in Runs, Return(r)
    PROVE  JarvisInv'
<1>1. To(r, "idle") /\ UNCHANGED <<dataVars, cut>>
  BY DEF Return
<1>2. CASE At(r, "refusing") /\ FailClaim(r)
  <2>1. ~At(r, "idle")
    BY <1>2 DEF At
  <2>2. Tells(jarvis[r].status) => r \in cut
    BY <1>2 DEF JarvisInv, ClaimsInv, Claimed
  <2>3. cut' \in SUBSET Runs /\ cut \subseteq cut'
    BY <1>1 DEF JarvisInv, TakenTypes
  <2> QED BY <1>1, <1>2, <2>1, <2>2, <2>3, FailClaimKeeps
<1>3. CASE /\ At(r, "returning")
           /\ taken' = [taken EXCEPT ![r[1]].status = "completed", ![r[1]].told = r[2]]
           /\ UNCHANGED overtaken
  <2> DEFINE c == r[1]
  <2>1. c \in Commands /\ r[2] \in 1..MaxRuns /\ r = <<c, r[2]>> /\ r[2] \in 0..MaxRuns
    BY TriesAre DEF JarvisInv
  <2>2. /\ taken' \in [Commands -> ClaimType]
        /\ taken'[c].status = "completed" /\ taken'[c].tries = taken[c].tries
        /\ taken'[c].told = r[2]
        /\ \A d \in Commands : d # c => taken'[d] = taken[d]
    BY <1>3, <2>1, TakenTold DEF JarvisInv
  <2>3. /\ run'[r].pc = "idle" /\ UNCHANGED jarvis /\ RunTypes' /\ SoundRuns'
        /\ \A s \in Runs : s # r =>
                /\ run'[s] = run[s] /\ jarvis'[s] = jarvis[s]
                /\ ledger'[s] = ledger[s] /\ messages'[s] = messages[s]
    BY <1>1, GoesIdle DEF JarvisInv
  <2>4. TakenTypes'
    BY <1>1, <1>3, <2>2 DEF JarvisInv, TakenTypes
  <2>5. Tells(jarvis[r].status) /\ ~At(r, "idle")
    BY <1>3, RecordsOf DEF JarvisInv, Sound, At
  <2>6. r[2] <= taken[c].tries
    BY <2>5, WorkingRun DEF JarvisInv
  <2>7. r[2] < taken[c].tries => Excused(r)
    BY <2>5, <2>6, TriesAre DEF JarvisInv, ClaimsInv, Claimed
  <2>8. ASSUME NEW s \in Runs PROVE Claimed(s)'
    <3>1. Claimed(s) /\ s[1] \in Commands /\ s[2] \in Nat /\ taken[s[1]].tries \in Nat
          /\ s = <<s[1], s[2]>>
      BY TriesAre DEF JarvisInv, ClaimsInv
    <3>2. CASE s = r
      <4>1. taken[c].tries # 0 /\ r[2] \in 1..taken[c].tries
        BY <2>1, <2>6, <3>1, <3>2
      <4> QED BY <1>1, <1>3, <2>2, <2>3, <2>5, <2>6, <2>7, <3>1, <3>2, <4>1
          DEF Claimed, At, Excused, Unclaimed
    <3>3. CASE s # r /\ s[1] = c
      <4>1. s[2] # r[2]
        BY <2>1, <3>1, <3>3
      <4>2. r[2] \in 1..taken[c].tries
        BY <2>1, <2>6, <3>1, <3>3
      <4> QED BY <1>1, <1>3, <2>2, <2>3, <3>1, <3>3, <4>1, <4>2
          DEF Claimed, Untouched, At, Excused, Unclaimed
    <3>4. CASE s[1] # c
      <4>1. taken'[s[1]] = taken[s[1]] /\ s # r
        BY <2>2, <3>1, <3>4
      <4> QED BY <1>1, <1>3, <2>3, <3>1, <4>1 DEF Claimed, Untouched, At, Excused, Unclaimed
    <3> QED BY <3>2, <3>3, <3>4
  <2> QED BY <2>3, <2>4, <2>8 DEF JarvisInv, ClaimsInv
<1> QED BY <1>2, <1>3 DEF Return

\* A process that dies, or cannot mark its run, excuses it.
LEMMA StopKeeps ==
    ASSUME JarvisInv, NEW r \in Runs, ~At(r, "idle"), NEW pc \in {"idle", "refusing"}, To(r, pc),
           cut' = cut \cup {r}, UNCHANGED <<taken, dataVars, overtaken>>
    PROVE  JarvisInv'
<1>1. /\ run'[r].pc = pc /\ UNCHANGED jarvis /\ RunTypes' /\ SoundRuns'
      /\ \A s \in Runs : s # r =>
                /\ run'[s] = run[s] /\ jarvis'[s] = jarvis[s]
                /\ ledger'[s] = ledger[s] /\ messages'[s] = messages[s]
  BY GoesIdle DEF JarvisInv
<1>2. TakenTypes'
  BY DEF JarvisInv, TakenTypes
<1>3. ASSUME NEW s \in Runs PROVE Claimed(s)'
  <2>1. Claimed(s)
    BY DEF JarvisInv, ClaimsInv
  <2>2. CASE s = r
    <3>1. /\ r[2] <= taken[r[1]].tries
          /\ ~(taken[r[1]].status = "completed" /\ taken[r[1]].told = r[2])
      BY WorkingRun DEF JarvisInv
    <3>2. r[2] \in Nat /\ taken[r[1]].tries \in Nat
      BY TriesAre DEF JarvisInv
    <3> QED BY <1>1, <2>1, <2>2, <3>1, <3>2 DEF Claimed, At, Excused, Unclaimed
  <2>3. CASE s # r
    BY <1>1, <2>1, <2>3 DEF Claimed, Untouched, At, Excused, Unclaimed
  <2> QED BY <2>2, <2>3
<1> QED BY <1>1, <1>2, <1>3 DEF JarvisInv, ClaimsInv

\* So does a database that fails.
LEMMA DatabaseFailsKeeps ==
    ASSUME JarvisInv, NEW r \in Runs, DatabaseFails(r)
    PROVE  JarvisInv'
<1>1. cut' = cut \cup {r} /\ UNCHANGED dataVars
  BY DEF DatabaseFails
<1>2. CASE At(r, "failing") /\ To(r, "refusing") /\ UNCHANGED <<taken, overtaken>>
  <2>1. ~At(r, "idle") BY <1>2 DEF At
  <2> QED BY <1>1, <1>2, <2>1, StopKeeps
<1>3. CASE At(r, "returning") /\ To(r, "idle") /\ FailClaim(r)
  <2>1. ~At(r, "idle") BY <1>3 DEF At
  <2>2. cut' \in SUBSET Runs /\ cut \subseteq cut' /\ r \in cut'
    BY <1>1 DEF JarvisInv, TakenTypes
  <2> QED BY <1>1, <1>3, <2>1, <2>2, FailClaimKeeps
<1> QED BY <1>2, <1>3 DEF DatabaseFails

\* A claim that grows stale overtakes the runs that work.
LEMMA GrowsStaleKeeps ==
    ASSUME JarvisInv, NEW c \in Commands, GrowsStale(c)
    PROVE  JarvisInv'
<1>1. taken[c].status = "processing" /\ UNCHANGED <<run, jarvis, ledger, messages, cut>>
  BY DEF GrowsStale, dataVars
<1>2. /\ taken' \in [Commands -> ClaimType]
      /\ taken'[c].status = "stale" /\ taken'[c].tries = taken[c].tries
      /\ taken'[c].told = taken[c].told
      /\ \A d \in Commands : d # c => taken'[d] = taken[d]
  BY TakenStatus DEF GrowsStale, ClaimStatuses, JarvisInv
<1>3. overtaken' = overtaken \cup {r \in Runs : r[1] = c /\ ~At(r, "idle")}
  BY DEF GrowsStale
<1>4. RunTypes' /\ SoundRuns' /\ TakenTypes'
  BY <1>1, <1>2, <1>3 DEF JarvisInv, RunTypes, SoundRuns, TakenTypes
<1>5. ASSUME NEW s \in Runs PROVE Claimed(s)'
  <2>1. Claimed(s) /\ s[1] \in Commands /\ s[2] \in Nat /\ taken[s[1]].tries \in Nat
    BY TriesAre DEF JarvisInv, ClaimsInv
  <2>2. CASE s[1] = c
    <3>1. ~At(s, "idle") => s \in overtaken'
      BY <1>3, <2>2
    <3>2. taken[c].tries # 0 \/ s[2] > taken[c].tries
      BY <2>1, <2>2, TriesAre DEF JarvisInv
    <3>3. s[2] > taken[c].tries => Untouched(s)
      BY <2>1, <2>2 DEF Claimed
    <3>4. s[2] <= taken[c].tries => (Tells(jarvis[s].status) => Excused(s) \/ s \in overtaken')
      BY <1>1, <2>1, <2>2, <3>1 DEF Claimed
    <3> QED BY <1>1, <1>2, <1>3, <2>1, <2>2, <3>1, <3>3, <3>4
        DEF Claimed, Untouched, At, Excused, Unclaimed
  <2>3. CASE s[1] # c
    <3>1. taken'[s[1]] = taken[s[1]]
      BY <1>2, <2>1, <2>3
    <3> QED BY <1>1, <1>3, <2>1, <3>1 DEF Claimed, Untouched, At, Excused, Unclaimed
  <2> QED BY <2>2, <2>3
<1> QED BY <1>4, <1>5 DEF JarvisInv, ClaimsInv

\* What waited for an approval may be completed or declined later: the answer
\* said that it waited.
LEMMA FollowsResumed ==
    ASSUME NEW l \in Seq(Outcomes), NEW i \in DOMAIN l, l[i] = "pending_approval",
           NEW o \in Outcomes, NEW results \in Seq(Outcomes), Follows(l, results)
    PROVE  Follows([l EXCEPT ![i] = o], results)
<1> DEFINE k == [l EXCEPT ![i] = o]
<1>1. Len(k) = Len(l) /\ Len(l) = Len(results) /\ i \in 1..Len(results) /\ DOMAIN l = 1..Len(results)
  BY DEF Follows
<1>2. ASSUME NEW n \in 1..Len(results) PROVE results[n] \in {k[n], "pending_approval"}
  <2>1. results[n] \in {l[n], "pending_approval"}
    BY DEF Follows
  <2>2. CASE n = i BY <2>1, <2>2
  <2>3. CASE n # i BY <2>1, <2>3, <1>1
  <2> QED BY <2>2, <2>3
<1> QED BY <1>1, <1>2 DEF Follows

\* Resuming an action preserves the invariant,
LEMMA ResumeActionKeeps ==
    ASSUME JarvisInv, NEW r \in Runs, ResumeAction(r)
    PROVE  JarvisInv'
<1> DEFINE w == run[r] j == jarvis[r] l == ledger[r] m == messages[r]
<1>1. PICK i \in DOMAIN l, o \in {"completed", "declined"} :
          l[i] = "pending_approval" /\ ledger' = [ledger EXCEPT ![r][i] = o]
  BY DEF ResumeAction
<1>2. UNCHANGED <<taken, run, jarvis, messages, cut, overtaken>>
  BY DEF ResumeAction
<1>3. WellTyped(w, j, l, m) /\ Sound(w, j, l, m)
  BY RecordsOf DEF JarvisInv
<1>4. o \in Outcomes
  BY <1>1 DEF Outcomes
<1>5. l \in Seq(Outcomes) /\ w.results \in Seq(Outcomes) /\ j.results \in Seq(Outcomes)
  BY <1>3 DEF WellTyped, RunType, AnswerType
<1>6. PICK k : k = [l EXCEPT ![i] = o]
  OBVIOUS
<1>7. k \in Seq(Outcomes) /\ Len(k) = Len(l) /\ l # << >>
  BY <1>1, <1>4, <1>5, <1>6
<1>8. Writes(r, w, j, k, m)
  BY <1>1, <1>2, <1>6, RecordsOf DEF Writes, JarvisInv, RunTypes
<1>9. ASSUME NEW results \in Seq(Outcomes), Follows(l, results) PROVE Follows(k, results)
  BY <1>1, <1>4, <1>5, <1>6, <1>9, FollowsResumed
<1>10. Follows(l, w.results) => Follows(k, w.results)
  BY <1>5, <1>9
<1>11. Follows(l, j.results) => Follows(k, j.results)
  BY <1>5, <1>9
<1>12. Truthful(j, l, m) => Truthful(j, k, m)
  BY <1>11 DEF Truthful
<1>13. Sound(w, j, k, m)
  BY <1>3, <1>7, <1>10, <1>12 DEF Sound
<1>14. Step(r)
  BY <1>3, <1>7, <1>8, <1>13 DEF Step, WellTyped
<1>15. TakenTypes'
  BY <1>2 DEF JarvisInv, TakenTypes
<1>16. ASSUME NEW s \in Runs PROVE Claimed(s)'
  <2>1. CASE s # r
    BY <2>1, <1>2, <1>14, WritesOne, OthersClaimed DEF JarvisInv, claimVars
  <2>2. CASE s = r
    <3>1. Claimed(r) /\ ~Untouched(r)
      BY <1>7 DEF JarvisInv, ClaimsInv, Untouched
    <3> QED BY <1>2, <2>2, <3>1 DEF Claimed, At, Excused, Unclaimed
  <2> QED BY <2>1, <2>2
<1> QED BY <1>14, <1>15, <1>16, WritesOne DEF JarvisInv, ClaimsInv

\* which holds to begin with
LEMMA JarvisStarts == JarvisInit => JarvisInv
<1> SUFFICES ASSUME JarvisInit PROVE JarvisInv
  OBVIOUS
<1>1. RunTypes
  BY JarvisAssumption
  DEF JarvisInit, RunTypes, RunType, AnswerType, MessageType, Points, Statuses, Needs
<1>2. TakenTypes
  BY JarvisAssumption DEF JarvisInit, TakenTypes, ClaimType, ClaimStatuses
<1>3. ASSUME NEW r \in Runs
      PROVE  /\ run[r].pc = "idle" /\ run[r].results = << >>
             /\ jarvis[r].status = "none" /\ ledger[r] = << >> /\ messages[r] = Noted(0, 0, 0)
             /\ taken[r[1]].status = "none" /\ taken[r[1]].tries = 0 /\ r[2] > 0
  BY JarvisAssumption DEF JarvisInit, Noted, Runs
<1>4. SoundRuns
  BY <1>3 DEF SoundRuns, Sound, Tells, Noted
<1>5. ClaimsInv
  BY <1>3 DEF ClaimsInv, Claimed, Untouched, Tells, At
<1> QED BY <1>1, <1>2, <1>4, <1>5 DEF JarvisInv

\* and while nothing happens.
LEMMA JarvisStutters == JarvisInv /\ UNCHANGED jarvisVars => JarvisInv'
BY DEF JarvisInv, jarvisVars, dataVars, RunTypes, TakenTypes, SoundRuns, ClaimsInv, Claimed,
       Untouched, At, Excused, Unclaimed

\* The invariant of app/jarvis, for any number of calls, runs and failures.
THEOREM JarvisInvariant == JarvisSpec => []JarvisInv
<1>1. JarvisInit => JarvisInv
  BY JarvisStarts
<1>2. JarvisInv /\ [JarvisNext]_jarvisVars => JarvisInv'
  <2> SUFFICES ASSUME JarvisInv, [JarvisNext]_jarvisVars PROVE JarvisInv'
    OBVIOUS
  <2>1. ASSUME NEW c \in Commands, Command(c) PROVE JarvisInv'
    BY <2>1, CommandKeeps
  <2>2. ASSUME NEW c \in Commands, GrowsStale(c) PROVE JarvisInv'
    BY <2>2, GrowsStaleKeeps
  <2>3. ASSUME NEW r \in Runs, RunCommand(r) PROVE JarvisInv'
    BY <2>3, RunCommandKeeps, ReturnKeeps DEF RunCommand
  <2>4. ASSUME NEW r \in Runs, Stop(r) PROVE JarvisInv'
    BY <2>4, StopKeeps DEF Stop
  <2>5. ASSUME NEW r \in Runs, DatabaseFails(r) PROVE JarvisInv'
    BY <2>5, DatabaseFailsKeeps
  <2>6. ASSUME NEW r \in Runs, ResumeAction(r) PROVE JarvisInv'
    BY <2>6, ResumeActionKeeps
  <2>7. CASE UNCHANGED jarvisVars
    BY <2>7, JarvisStutters
  <2> QED BY <2>1, <2>2, <2>3, <2>4, <2>5, <2>6, <2>7 DEF JarvisNext
<1> QED BY <1>1, <1>2, PTL DEF JarvisSpec

\* What AnswerHidesNothing asks of an answered run.
LEMMA TruthHidesNothing ==
    ASSUME JarvisInv, NEW r \in Runs, Answered(r)
    PROVE  LET results == jarvis[r].results
           IN  /\ Len(results) = Made(jarvis[r])
               /\ messages[r] = [user |-> 1, tool |-> Made(jarvis[r]), assistant |-> 1]
               /\ Len(ledger[r]) = Len(results)
               /\ \A i \in DOMAIN results : results[i] \in {ledger[r][i], "pending_approval"}
               /\ jarvis[r].status = "COMPLETED" =>
                     \A i \in DOMAIN results : ledger[r][i] = "completed"
               /\ Has(ledger[r], "pending_approval") => jarvis[r].status = "AWAITING_APPROVAL"
<1> DEFINE j == jarvis[r] l == ledger[r] m == messages[r] results == j.results
<1>1. Truthful(j, l, m) /\ WellTyped(run[r], j, l, m)
  BY RecordsOf DEF JarvisInv, Sound, Answered, Tells
<1>2. results \in Seq(Outcomes) /\ l \in Seq(Outcomes)
  BY <1>1 DEF WellTyped, AnswerType
<1>3. /\ Len(l) = Len(results) /\ Len(results) = Made(j) /\ m = Noted(1, Made(j), 1)
      /\ \A i \in 1..Len(results) : results[i] \in {l[i], "pending_approval"}
      /\ j.status = StatusOf(results)
  BY <1>1 DEF Truthful, Follows, Due, Made
<1>4. DOMAIN results = 1..Len(results) /\ DOMAIN l = 1..Len(results)
  BY <1>2, <1>3
<1>5. \A i \in DOMAIN results : results[i] \in {"completed", "pending_approval", "declined"}
  BY <1>2 DEF Outcomes
<1>6. ASSUME j.status = "COMPLETED", NEW i \in DOMAIN results PROVE l[i] = "completed"
  <2>1. ~Has(results, "pending_approval") /\ ~Has(results, "declined")
    BY <1>3, <1>6 DEF StatusOf
  <2>2. results[i] = "completed"
    BY <1>5, <2>1 DEF Has
  <2> QED BY <1>3, <1>4, <2>2
<1>7. ASSUME Has(l, "pending_approval") PROVE j.status = "AWAITING_APPROVAL"
  <2>1. PICK i \in DOMAIN l : l[i] = "pending_approval"
    BY <1>7 DEF Has
  <2>2. results[i] = "pending_approval" /\ i \in DOMAIN results
    BY <1>3, <1>4, <2>1
  <2>3. Has(results, "pending_approval")
    BY <2>2 DEF Has
  <2> QED BY <1>3, <2>3 DEF StatusOf
<1> QED BY <1>3, <1>4, <1>6, <1>7 DEF Noted

\* The run of a number.
LEMMA RunOf ==
    ASSUME NEW c \in Commands, NEW i \in 1..MaxRuns
    PROVE  <<c, i>> \in Runs /\ <<c, i>>[1] = c /\ <<c, i>>[2] = i
BY DEF Runs

\* The invariant implies that a command acts once,
LEMMA ClaimsActOnce == JarvisInv => CommandActsOnce
<1> SUFFICES ASSUME JarvisInv, NEW c \in Commands
             PROVE  /\ \A i \in 1..MaxRuns :
                          i < taken[c].tries /\ Answered(<<c, i>>) => <<c, i>> \in cut \cup overtaken
                    /\ taken[c].status = "completed" => Answered(<<c, taken[c].told>>)
  BY DEF CommandActsOnce
<1>1. ASSUME NEW i \in 1..MaxRuns, i < taken[c].tries, Answered(<<c, i>>)
      PROVE  <<c, i>> \in cut \cup overtaken
  <2>1. Claimed(<<c, i>>) /\ <<c, i>> \in Runs /\ <<c, i>>[1] = c /\ <<c, i>>[2] = i
    BY RunOf DEF JarvisInv, ClaimsInv
  <2>2. PICK r \in Runs : r = <<c, i>> /\ Claimed(r) /\ r[1] = c /\ r[2] = i
    BY <2>1
  <2>3. Answered(r) /\ r[2] < taken[r[1]].tries
    BY <1>1, <2>2
  <2>4. Tells(jarvis[r].status) /\ r[2] <= taken[r[1]].tries
    BY <2>3, <2>2, TriesAre DEF JarvisInv, Answered, Tells
  <2>5. Excused(r)
    BY <2>2, <2>3, <2>4 DEF Claimed
  <2> QED BY <2>2, <2>5 DEF Excused
<1>2. ASSUME taken[c].status = "completed" PROVE Answered(<<c, taken[c].told>>)
  <2>1. taken[c].tries \in 0..MaxRuns
    BY DEF JarvisInv, TakenTypes, ClaimType
  <2>2. 1 \in 1..MaxRuns
    BY JarvisAssumption
  <2>3. Claimed(<<c, 1>>) /\ <<c, 1>>[1] = c
    BY <2>2, RunOf DEF JarvisInv, ClaimsInv
  <2>4. taken[c].told \in 1..taken[c].tries
    BY <1>2, <2>3 DEF Claimed
  <2> DEFINE i == taken[c].told
  <2>5. i \in 1..MaxRuns
    BY <2>1, <2>4, JarvisAssumption
  <2>6. Claimed(<<c, i>>) /\ <<c, i>>[1] = c /\ <<c, i>>[2] = i
    BY <2>5, RunOf DEF JarvisInv, ClaimsInv
  <2>7. Tells(jarvis[<<c, i>>].status)
    BY <1>2, <2>6 DEF Claimed
  <2> QED BY <2>7 DEF Answered, Tells
<1> QED BY <1>1, <1>2

\* that everything has its type,
LEMMA InvTypes == JarvisInv => JarvisTypeOK
BY DEF JarvisInv, RunTypes, TakenTypes, JarvisTypeOK, RunType, AnswerType, MessageType,
       ClaimType, ClaimStatuses

\* that results are noted
LEMMA InvNotes == JarvisInv => ResultsAreNoted
BY DEF JarvisInv, SoundRuns, Sound, ResultsAreNoted

\* and that commands answer truly.
LEMMA InvAnswers == JarvisInv => CommandsAnswerTruly
<1> SUFFICES ASSUME JarvisInv PROVE AnswerHidesNothing /\ CommandActsOnce
  BY DEF CommandsAnswerTruly
<1>1. AnswerHidesNothing
  BY TruthHidesNothing DEF AnswerHidesNothing
<1> QED BY <1>1, ClaimsActOnce

\* Type correctness of app/jarvis.
THEOREM JarvisTypes == JarvisSpec => []JarvisTypeOK
BY JarvisInvariant, InvTypes, PTL

\* What a command answers is what was done, once: however often the command
\* is repeated, its claim taken over and its calls resumed
\* (JarvisService.run_command, router.execute_jarvis_command).
THEOREM CommandsAreAnsweredTruly == JarvisSpec => []CommandsAnswerTruly
BY JarvisInvariant, InvAnswers, PTL

\* The ledger is never more than one call ahead of the conversation
\* (JarvisService._persist_tool_message).
THEOREM ResultsStayNoted == JarvisSpec => []ResultsAreNoted
BY JarvisInvariant, InvNotes, PTL

\* Beside one another, the desk and Jarvis keep their rows, assignments and
\* conversations in order (CRMService.assign_lead, JarvisService.run_command).
THEOREM BackOfficeStaysInOrder == BackOfficeSpec => []BackOfficeInv
BY DeskTypes, JarvisTypes, AssignmentsAgree, ResultsStayNoted, PTL
DEF BackOfficeSpec, BackOfficeInv
=============================================================================
