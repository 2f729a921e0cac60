------------------------- MODULE MemoryOutbox_proofs -------------------------
(***************************************************************************)
(* Customers, their reviews and their notes agree whatever is merged, for  *)
(* any number of runs, notes and workers.  RecordsInv is inductive for the *)
(* records alone, and the outbox leaves them alone (RecordsAreKept);       *)
(* OutboxInv is inductive beside it.                                       *)
(***************************************************************************)
EXTENDS MemoryOutbox, FiniteSetTheorems, TLAPS

-----------------------------------------------------------------------------
(* The inductive invariant of the records *)

Exists(c) == customer[c].status # "none"

\* A candidate of a review, and a customer others are merged into, was there
\* before the one that points to it: f counts the customers as they were
\* created.  No property asks for this order; without it a customer could be
\* merged into itself, and all it has would be lost to its next merge.
Points(f, c, d) == d \in Customers => Exists(c) /\ Exists(d) /\ f[d] < f[c]
Order(f, n) ==
  \A c \in Customers :
     /\ Exists(c) => f[c] < n
     /\ Points(f, c, review[c].candidate)
     /\ Points(f, c, customer[c].into)

Ordered == \E f \in [Customers -> Nat], n \in Nat : Order(f, n)

\* What a review says of its customer.
Reviewed(c) ==
  /\ review[c].status = "pending" =>
        customer[c].status = "provisional" /\ review[c].candidate \in Customers
  /\ customer[c].status = "provisional" => review[c].status \in {"pending", "dismissed"}
  /\ review[c].status = "kept_separate" => customer[c].status = "active"
  /\ Merged(c) <=> review[c].status = "merged"
  /\ Merged(c) <=> customer[c].into \in Customers
  /\ ~Exists(c) => review[c].status = "none"

\* What a run knows of the customer it has, at each of its points.
Resolving(r, s) ==
  /\ s.pc = "idle" => ~Exists(r) /\ s.names = {} /\ lead[r] = Nobody
  /\ s.pc = "matched" =>
        /\ lead[r] = Nobody
        /\ s.customer = r => ~Exists(r) /\ (s.candidate \in Customers => Exists(s.candidate))
        /\ s.customer # r => s.names = {}
  /\ s.pc \in {"matched", "resolved", "qualified"} => s.customer \in Customers
  /\ s.pc # "done" => document[r] = Nobody

ReviewsInv == \A c \in Customers : Reviewed(c)
RunsInv == \A r \in Customers : Resolving(r, run[r])
HoldersInv == \A k \in Keys : identity[k].holder \in Customers => Exists(identity[k].holder)

\* What a merged customer has, and the contacts a run brought.
LeftBehind(c) ==
  /\ \A k \in Keys : identity[k].holder = c => k \in late.identity
  /\ \A r \in Customers : /\ lead[r] = c => r \in late.lead
                          /\ document[r] = c => r \in late.document
Taken(c) == Merged(c) => (\E p \in Customers : customer[p].into = c) \/ LeftBehind(c)
TakenInv == \A c \in Customers : Taken(c)

Kept(r) == lead[r] # Nobody => \A k \in run[r].names : ~IsFree(k) \/ k \in released
KeptInv == \A r \in Customers : Kept(r)

RecordsInv ==
  /\ RecordsTypeOK /\ ReviewsInv /\ RunsInv /\ HoldersInv /\ Ordered
  /\ TakenInv /\ KeptInv

-----------------------------------------------------------------------------
(* What the invariant says *)

\* A customer is merged into another one, which is there.
LEMMA IntoAnother ==
  ASSUME RecordsInv, NEW c \in Customers, Merged(c)
  PROVE  customer[c].into \in Customers \ {c} /\ Exists(customer[c].into)
<1>1. PICK f \in [Customers -> Nat], n \in Nat : Order(f, n)
  BY DEF RecordsInv, Ordered
<1>2. customer[c].into \in Customers
  BY DEF RecordsInv, ReviewsInv, Reviewed
<1>3. Exists(customer[c].into) /\ f[customer[c].into] < f[c]
  BY <1>1, <1>2 DEF Order, Points
<1>4. f[c] \in Nat
  OBVIOUS
<1> QED BY <1>2, <1>3, <1>4

\* The same of the candidate of a review.
LEMMA CandidateIsAnother ==
  ASSUME RecordsInv, NEW p \in Customers, Unanswered(p)
  PROVE  /\ review[p].candidate \in Customers \ {p} /\ Exists(review[p].candidate)
         /\ customer[p].status = "provisional" /\ ~Merged(p) /\ customer[p].into \notin Customers
<1>1. PICK f \in [Customers -> Nat], n \in Nat : Order(f, n)
  BY DEF RecordsInv, Ordered
<1>2. /\ review[p].candidate \in Customers /\ customer[p].status = "provisional"
      /\ ~Merged(p) /\ customer[p].into \notin Customers
  BY DEF RecordsInv, ReviewsInv, Reviewed, Unanswered, Merged
<1>3. Exists(review[p].candidate) /\ f[review[p].candidate] < f[p]
  BY <1>1, <1>2 DEF Order, Points
<1>4. f[p] \in Nat
  OBVIOUS
<1> QED BY <1>2, <1>3, <1>4

\* A customer that is not there has nothing, and nobody points to it.
LEMMA Newcomer ==
  ASSUME RecordsInv, NEW r \in Customers, ~Exists(r)
  PROVE  /\ customer[r].into = Nobody /\ review[r].candidate = Nobody /\ review[r].status = "none"
         /\ ~Merged(r)
         /\ \A c \in Customers : customer[c].into # r /\ review[c].candidate # r
<1>1. PICK f \in [Customers -> Nat], n \in Nat : Order(f, n)
  BY DEF RecordsInv, Ordered
<1>2. customer[r] \in CustomerRow /\ review[r] \in ReviewRow
  BY DEF RecordsInv, RecordsTypeOK
<1>3. customer[r].into \notin Customers /\ review[r].candidate \notin Customers
  BY <1>1 DEF Order, Points
<1>4. \A c \in Customers : customer[c].into # r /\ review[c].candidate # r
  BY <1>1 DEF Order, Points
<1>5. review[r].status = "none" /\ ~Merged(r)
  BY DEF RecordsInv, ReviewsInv, Reviewed, Exists, Merged
<1> QED BY <1>2, <1>3, <1>4, <1>5 DEF CustomerRow, ReviewRow, Owner

-----------------------------------------------------------------------------
(* The resolution of a sender *)

\* What a sender says of himself names identities.
LEMMA WantedAreKeys ==
  ASSUME NEW q \in Inquiries PROVE Wanted(q) \subseteq Keys
<1>1. q \in [ExactTypes \cup {"company_name"} -> Values \cup {Missing}]
  BY RecordsAssumption
<1>2. \A t \in DOMAIN q : t \in Types /\ (q[t] # Missing => q[t] \in Values)
  BY <1>1 DEF Types
<1> QED BY <1>2 DEF Wanted, Keys

\* The first of the contacts that are known belongs to somebody.
LEMMA FirstIsKnown ==
  ASSUME NEW q, ExactKeys(q) # {}
  PROVE  \E k \in ExactKeys(q) : FirstExact(q) = identity[k].holder
<1> DEFINE Before(k) == \A l \in ExactKeys(q) : Rank[k[1]] <= Rank[l[1]]
<1>1. \A k \in ExactKeys(q) : k[1] \in ExactTypes
  BY DEF ExactKeys
<1>2. Rank["gstin"] = 1 /\ Rank["email"] = 2 /\ Rank["phone"] = 3
  BY DEF Rank
<1>3. \E k \in ExactKeys(q) : Before(k)
  <2>1. CASE \E k \in ExactKeys(q) : k[1] = "gstin"
    BY <2>1, <1>1, <1>2 DEF ExactTypes
  <2>2. CASE \A k \in ExactKeys(q) : k[1] # "gstin"
    <3>1. CASE \E k \in ExactKeys(q) : k[1] = "email"
      BY <3>1, <2>2, <1>1, <1>2 DEF ExactTypes
    <3>2. CASE \A k \in ExactKeys(q) : k[1] # "email"
      <4>1. \A k \in ExactKeys(q) : k[1] = "phone"
        BY <3>2, <2>2, <1>1 DEF ExactTypes
      <4> QED BY <4>1, <1>2
    <3> QED BY <3>1, <3>2
  <2> QED BY <2>1, <2>2
<1>4. LET first == CHOOSE k \in ExactKeys(q) : Before(k) IN first \in ExactKeys(q)
  BY <1>3
<1> QED BY <1>4 DEF FirstExact

\* Whom a run may name as the candidate of its review is there.
LEMMA CandidatesExist ==
  ASSUME RecordsInv, NEW q \in Inquiries
  PROVE  /\ \A c \in CompanyCandidates(q) : c \in Customers /\ Exists(c)
         /\ \A c \in ExactHolders(q) : c \in Customers /\ Exists(c)
<1>1. ASSUME NEW k \in Keys, identity[k].holder # Nobody
      PROVE  identity[k].holder \in Customers /\ Exists(identity[k].holder)
  <2>1. identity[k] \in IdentityRow
    BY DEF RecordsInv, RecordsTypeOK
  <2>2. identity[k].holder \in Customers
    BY <2>1, <1>1 DEF IdentityRow, Owner
  <2> QED BY <2>2 DEF RecordsInv, HoldersInv
<1>2. \A c \in ExactHolders(q) : c \in Customers /\ Exists(c)
  BY <1>1, WantedAreKeys DEF ExactHolders, ExactKeys, IsFree
<1>3. ASSUME NEW c \in CompanyCandidates(q)
      PROVE  \E v \in Values : c = identity[<<"company_name", v>>].holder /\ c # Nobody
  BY DEF CompanyCandidates
<1>4. \A v \in Values : <<"company_name", v>> \in Keys
  BY DEF Keys, Types
<1> QED BY <1>1, <1>2, <1>3, <1>4

-----------------------------------------------------------------------------
(* Steps that change the state of one run, and its lead or document *)

LEMMA RunGoesOn ==
  ASSUME RecordsInv, NEW r \in Customers, NEW s \in RunState, s = run'[r],
         run' = [run EXCEPT ![r] = s],
         UNCHANGED <<customer, identity, review, released, edits>>,
         lead' \in [Customers -> Owner], \A x \in Customers \ {r} : lead'[x] = lead[x],
         document' \in [Customers -> Owner], \A x \in Customers \ {r} : document'[x] = document[x],
         late' \in [identity : SUBSET Keys, lead : SUBSET Customers, document : SUBSET Customers],
         Resolving(r, s)',
         TakenInv',
         lead'[r] = Nobody \/ s.names = {} \/ (lead'[r] = lead[r] /\ s.names = run[r].names)
  PROVE  RecordsInv'
<1>1. RecordsTypeOK'
  BY DEF RecordsInv, RecordsTypeOK
<1>2. ReviewsInv' /\ HoldersInv' /\ Ordered'
  BY DEF RecordsInv, ReviewsInv, Reviewed, HoldersInv, Ordered, Order, Points, Exists, Merged
<1>3. run \in [Customers -> RunState]
  BY DEF RecordsInv, RecordsTypeOK
<1>4. \A x \in Customers \ {r} : run'[x] = run[x] /\ lead'[x] = lead[x] /\ document'[x] = document[x]
  BY <1>3
<1>5. RunsInv'
  BY <1>4 DEF RecordsInv, RunsInv, Resolving, Exists
<1>6. KeptInv'
  BY <1>4 DEF RecordsInv, KeptInv, Kept, IsFree
<1> QED BY <1>1, <1>2, <1>5, <1>6 DEF RecordsInv

\* The same when only the run changes.
LEMMA OnlyTheRun ==
  ASSUME RecordsInv, NEW r \in Customers, NEW s \in RunState,
         run' = [run EXCEPT ![r] = s],
         UNCHANGED <<customer, identity, review, lead, document, late, released, edits>>,
         Resolving(r, s),
         lead[r] = Nobody \/ s.names = {} \/ s.names = run[r].names
  PROVE  RecordsInv'
<1>1. run \in [Customers -> RunState] /\ lead \in [Customers -> Owner]
      /\ document \in [Customers -> Owner]
      /\ late \in [identity : SUBSET Keys, lead : SUBSET Customers, document : SUBSET Customers]
  BY DEF RecordsInv, RecordsTypeOK
<1>2. run'[r] = s
  BY <1>1
<1>3. Resolving(r, s)'
  BY DEF Resolving, Exists
<1>4. TakenInv'
  BY DEF RecordsInv, TakenInv, Taken, LeftBehind, Merged
<1> QED BY <1>1, <1>2, <1>3, <1>4, RunGoesOn

LEMMA MatchExistingKeeps ==
  ASSUME RecordsInv, NEW r \in Customers, NEW q \in Inquiries, MatchExisting(r, q)
  PROVE  RecordsInv'
<1>1. PICK c \in Customers :
         /\ customer[c].status \in {"active", "provisional"}
         /\ run' = [run EXCEPT ![r].pc = "matched", ![r].customer = c]
  BY DEF MatchExisting
<1>2. run \in [Customers -> RunState] /\ run[r] \in RunState /\ run[r].pc = "idle"
  BY DEF RecordsInv, RecordsTypeOK, MatchExisting
<1>3. PICK s : s = [run[r] EXCEPT !.pc = "matched", !.customer = c]
  OBVIOUS
<1>4. run' = [run EXCEPT ![r] = s]
  BY <1>1, <1>2, <1>3
<1>5. s \in RunState /\ s.pc = "matched" /\ s.customer = c /\ s.names = run[r].names
  BY <1>2, <1>3 DEF RunState, RunStates, Owner
<1>6. ~Exists(r) /\ run[r].names = {} /\ lead[r] = Nobody /\ document[r] = Nobody
  BY <1>2 DEF RecordsInv, RunsInv, Resolving
<1>7. c # r
  BY <1>1, <1>6 DEF Exists
<1>8. Resolving(r, s)
  BY <1>5, <1>6, <1>7 DEF Resolving
<1> QED BY <1>4, <1>5, <1>6, <1>8, OnlyTheRun DEF MatchExisting

LEMMA MatchNoneKeeps ==
  ASSUME RecordsInv, NEW r \in Customers, NEW q \in Inquiries, MatchNone(r, q)
  PROVE  RecordsInv'
<1> DEFINE Named == IF CompanyCandidates(q) # {} THEN CompanyCandidates(q)
                    ELSE IF Cardinality(ExactHolders(q)) > 1 THEN {FirstExact(q)}
                    ELSE {Nobody}
           Names(c) == IF c # Nobody /\ ExactHolders(q) # {}
                       THEN {k \in Wanted(q) : k[1] \notin ExactTypes}
                       ELSE Wanted(q)
<1>1. PICK c \in Named :
         run' = [run EXCEPT ![r].pc = "matched", ![r].customer = r, ![r].candidate = c,
                            ![r].names = Names(c), ![r].free = {k \in Names(c) : IsFree(k)}]
  BY DEF MatchNone
<1>2. c = Nobody \/ (c \in Customers /\ Exists(c))
  <2>1. CASE CompanyCandidates(q) # {}
    BY <2>1, CandidatesExist
  <2>2. CASE CompanyCandidates(q) = {} /\ Cardinality(ExactHolders(q)) > 1
    <3>1. ExactHolders(q) # {}
      BY <2>2, FS_EmptySet
    <3>2. FirstExact(q) \in ExactHolders(q)
      BY <3>1, FirstIsKnown DEF ExactHolders
    <3> QED BY <2>2, <3>2, CandidatesExist
  <2> QED BY <2>1, <2>2
<1>3. Names(c) \subseteq Keys
  BY WantedAreKeys
<1>4. PICK m, g : m = Names(c) /\ g = {k \in Names(c) : IsFree(k)}
  OBVIOUS
<1>5. m \in SUBSET Keys /\ g \in SUBSET Keys
  BY <1>3, <1>4
<1>6. run' = [run EXCEPT ![r].pc = "matched", ![r].customer = r, ![r].candidate = c,
                         ![r].names = m, ![r].free = g]
  BY <1>1, <1>4
<1> HIDE DEF Named, Names
<1>7. run \in [Customers -> RunState] /\ run[r] \in RunState /\ run[r].pc = "idle"
  BY DEF RecordsInv, RecordsTypeOK, MatchNone
<1>8. PICK s : s = [run[r] EXCEPT !.pc = "matched", !.customer = r, !.candidate = c,
                                  !.names = m, !.free = g]
  OBVIOUS
<1>9. run' = [run EXCEPT ![r] = s]
  BY <1>6, <1>7, <1>8
<1>10. s = [pc |-> "matched", customer |-> r, candidate |-> c, names |-> m, free |-> g]
  BY <1>7, <1>8 DEF RunState
<1>11. s \in RunState
  BY <1>2, <1>5, <1>10 DEF RunState, RunStates, Owner
<1>12. ~Exists(r) /\ lead[r] = Nobody /\ document[r] = Nobody
  BY <1>7 DEF RecordsInv, RunsInv, Resolving
<1>13. Resolving(r, s)
  BY <1>2, <1>10, <1>12, RecordsAssumption DEF Resolving
<1> QED BY <1>9, <1>11, <1>12, <1>13, OnlyTheRun DEF MatchNone

\* A step of a run that leaves all but its point.
MovesTo(r, s, pc) ==
  /\ run' = [run EXCEPT ![r] = s] /\ s = run'[r] /\ s.pc = pc
  /\ s.customer = run[r].customer /\ s.names = run[r].names

LEMMA PointMoves ==
  ASSUME RecordsInv, NEW r \in Customers, NEW pc \in RunStates,
         run' = [run EXCEPT ![r].pc = pc]
  PROVE  \E s \in RunState : MovesTo(r, s, pc)
<1>1. run \in [Customers -> RunState] /\ run[r] \in RunState
  BY DEF RecordsInv, RecordsTypeOK
<1>2. PICK s : s = [run[r] EXCEPT !.pc = pc]
  OBVIOUS
<1>3. run' = [run EXCEPT ![r] = s] /\ s = run'[r]
  BY <1>1, <1>2
<1>4. s \in RunState /\ s.pc = pc /\ s.customer = run[r].customer /\ s.names = run[r].names
  BY <1>1, <1>2 DEF RunState
<1> QED BY <1>3, <1>4 DEF MovesTo

LEMMA InsertFailsKeeps ==
  ASSUME RecordsInv, NEW r \in Customers, InsertFails(r)
  PROVE  RecordsInv'
<1>1. run' = [run EXCEPT ![r].pc = "failed"] /\ "failed" \in RunStates
  BY DEF InsertFails, RunStates
<1>2. PICK s \in RunState : MovesTo(r, s, "failed")
  BY <1>1, PointMoves
<1>3. document[r] = Nobody
  BY DEF RecordsInv, RunsInv, Resolving, InsertFails
<1>4. Resolving(r, s)
  BY <1>2, <1>3 DEF Resolving, MovesTo
<1> QED BY <1>2, <1>4, OnlyTheRun DEF InsertFails, MovesTo

LEMMA QualifyKeeps ==
  ASSUME RecordsInv, NEW r \in Customers, Qualify(r)
  PROVE  RecordsInv'
<1>1. PICK pc \in RunStates : run' = [run EXCEPT ![r].pc = pc] /\ pc \in {"failed", "qualified"}
  BY DEF Qualify, RunStates
<1>2. PICK s \in RunState : MovesTo(r, s, pc)
  BY <1>1, PointMoves
<1>3. run[r].customer \in Customers /\ document[r] = Nobody
  BY DEF RecordsInv, RunsInv, Resolving, Qualify
<1>4. Resolving(r, s)
  BY <1>1, <1>2, <1>3 DEF Resolving, MovesTo
<1> QED BY <1>2, <1>4, OnlyTheRun DEF Qualify, MovesTo

\* A row written late is noted as such, so that nothing is left behind.
LEMMA JoinCustomerKeeps ==
  ASSUME RecordsInv, NEW r \in Customers, JoinCustomer(r)
  PROVE  RecordsInv'
<1>1. PICK c : c = run[r].customer
  OBVIOUS
<1>2. /\ run' = [run EXCEPT ![r].pc = "resolved"] /\ "resolved" \in RunStates
      /\ run[r].pc = "matched" /\ c # r
  BY <1>1 DEF JoinCustomer, RunStates
<1>3. PICK s \in RunState : MovesTo(r, s, "resolved")
  BY <1>2, PointMoves
<1>4. c \in Customers /\ s.names = {} /\ lead[r] = Nobody /\ document[r] = Nobody
  BY <1>1, <1>2, <1>3 DEF RecordsInv, RunsInv, Resolving, MovesTo
<1>5. Resolving(r, s)'
  BY <1>1, <1>3, <1>4 DEF Resolving, MovesTo, JoinCustomer
<1>6. /\ lead \in [Customers -> Owner] /\ document \in [Customers -> Owner]
      /\ late \in [identity : SUBSET Keys, lead : SUBSET Customers, document : SUBSET Customers]
  BY DEF RecordsInv, RecordsTypeOK
<1>7. /\ lead' = [lead EXCEPT ![r] = c]
      /\ late' = IF Merged(c) THEN [late EXCEPT !.lead = @ \cup {r}] ELSE late
      /\ UNCHANGED <<customer, identity, review, document, released, edits>>
  BY <1>1 DEF JoinCustomer
<1>8. /\ late' \in [identity : SUBSET Keys, lead : SUBSET Customers, document : SUBSET Customers]
      /\ late'.identity = late.identity /\ late'.document = late.document
      /\ late.lead \subseteq late'.lead /\ (Merged(c) => r \in late'.lead)
  BY <1>6, <1>7
<1>9. lead' \in [Customers -> Owner] /\ lead'[r] = c /\ \A x \in Customers \ {r} : lead'[x] = lead[x]
  BY <1>4, <1>6, <1>7 DEF Owner
<1>10. ASSUME NEW d \in Customers PROVE Taken(d)'
  <2>1. Taken(d) /\ (Merged(d)' <=> Merged(d))
    BY <1>7 DEF RecordsInv, TakenInv, Merged
  <2>2. Merged(d) /\ LeftBehind(d) => LeftBehind(d)'
    BY <1>7, <1>8, <1>9 DEF LeftBehind
  <2> QED BY <1>7, <2>1, <2>2 DEF Taken
<1>11. document' \in [Customers -> Owner]
  BY <1>6, <1>7
<1> QED BY <1>3, <1>4, <1>5, <1>7, <1>8, <1>9, <1>10, <1>11, RunGoesOn DEF TakenInv, MovesTo

LEMMA RecordDocumentKeeps ==
  ASSUME RecordsInv, NEW r \in Customers, RecordDocument(r)
  PROVE  RecordsInv'
<1>1. PICK c : c = run[r].customer
  OBVIOUS
<1>2. /\ run' = [run EXCEPT ![r].pc = "done"] /\ "done" \in RunStates /\ run[r].pc = "qualified"
  BY DEF RecordDocument, RunStates
<1>3. PICK s \in RunState : MovesTo(r, s, "done")
  BY <1>2, PointMoves
<1>4. c \in Customers
  BY <1>1, <1>2 DEF RecordsInv, RunsInv, Resolving
<1>5. Resolving(r, s)'
  BY <1>3 DEF Resolving, MovesTo
<1>6. /\ lead \in [Customers -> Owner] /\ document \in [Customers -> Owner]
      /\ late \in [identity : SUBSET Keys, lead : SUBSET Customers, document : SUBSET Customers]
  BY DEF RecordsInv, RecordsTypeOK
<1>7. /\ document' = [document EXCEPT ![r] = c]
      /\ late' = IF Merged(c) THEN [late EXCEPT !.document = @ \cup {r}] ELSE late
      /\ UNCHANGED <<customer, identity, review, lead, released, edits>>
  BY <1>1 DEF RecordDocument
<1>8. /\ late' \in [identity : SUBSET Keys, lead : SUBSET Customers, document : SUBSET Customers]
      /\ late'.identity = late.identity /\ late'.lead = late.lead
      /\ late.document \subseteq late'.document /\ (Merged(c) => r \in late'.document)
  BY <1>6, <1>7
<1>9. /\ document' \in [Customers -> Owner] /\ document'[r] = c
      /\ \A x \in Customers \ {r} : document'[x] = document[x]
  BY <1>4, <1>6, <1>7 DEF Owner
<1>10. ASSUME NEW d \in Customers PROVE Taken(d)'
  <2>1. Taken(d) /\ (Merged(d)' <=> Merged(d))
    BY <1>7 DEF RecordsInv, TakenInv, Merged
  <2>2. Merged(d) /\ LeftBehind(d) => LeftBehind(d)'
    BY <1>7, <1>8, <1>9 DEF LeftBehind
  <2> QED BY <1>7, <2>1, <2>2 DEF Taken
<1>11. lead' \in [Customers -> Owner] /\ lead' = lead
  BY <1>6, <1>7
<1> QED BY <1>3, <1>5, <1>7, <1>8, <1>9, <1>10, <1>11, RunGoesOn DEF TakenInv, MovesTo

-----------------------------------------------------------------------------
(* A customer is created *)

LEMMA CreateCustomerKeeps ==
  ASSUME RecordsInv, NEW r \in Customers, CreateCustomer(r)
  PROVE  RecordsInv'
<1>1. PICK c : c = run[r].candidate
  OBVIOUS
<1>2. PICK s \in RunState : MovesTo(r, s, "resolved")
  BY PointMoves DEF CreateCustomer, RunStates
<1>3. /\ run[r].pc = "matched" /\ run[r].customer = r
      /\ ~Exists(r) /\ lead[r] = Nobody /\ document[r] = Nobody
      /\ (c \in Customers => Exists(c))
  BY <1>1 DEF RecordsInv, RunsInv, Resolving, CreateCustomer
<1>4. /\ run \in [Customers -> RunState] /\ run[r] \in RunState
      /\ customer \in [Customers -> CustomerRow] /\ review \in [Customers -> ReviewRow]
      /\ identity \in [Keys -> IdentityRow] /\ lead \in [Customers -> Owner]
  BY DEF RecordsInv, RecordsTypeOK
<1>5. c \in Owner
  BY <1>1, <1>4 DEF RunState
<1>6. PICK st : st = NewStatus(c) /\ st \in {"active", "provisional"}
  BY DEF NewStatus
<1>7. customer[r].into = Nobody /\ review[r].candidate = Nobody /\ review[r].status = "none"
      /\ ~Merged(r) /\ \A d \in Customers : customer[d].into # r /\ review[d].candidate # r
  BY <1>3, Newcomer
<1>8. PICK row : row = [status |-> st, into |-> Nobody]
  OBVIOUS
<1>9. customer' = [customer EXCEPT ![r] = row]
  <2>1. [customer[r] EXCEPT !.status = st] = row
    BY <1>4, <1>7, <1>8 DEF CustomerRow
  <2>2. customer' = [customer EXCEPT ![r].status = st]
    BY <1>1, <1>6 DEF CreateCustomer
  <2> QED BY <1>4, <2>1, <2>2
<1>10. /\ customer' \in [Customers -> CustomerRow] /\ customer'[r] = row
       /\ \A d \in Customers \ {r} : customer'[d] = customer[d]
  BY <1>4, <1>6, <1>8, <1>9 DEF CustomerRow, Owner
<1>11. PICK rv : rv = IF c = Nobody THEN review[r] ELSE [status |-> "pending", candidate |-> c]
  OBVIOUS
<1>12. /\ review' \in [Customers -> ReviewRow] /\ review'[r] = rv
       /\ \A d \in Customers \ {r} : review'[d] = review[d]
  <2>1. review' = [review EXCEPT ![r] = rv]
    BY <1>1, <1>4, <1>11 DEF CreateCustomer
  <2>2. rv \in ReviewRow
    BY <1>4, <1>5, <1>11 DEF ReviewRow
  <2> QED BY <1>4, <2>1, <2>2
<1>13. lead' = [lead EXCEPT ![r] = r] /\ UNCHANGED <<document, late, released, edits>>
  BY DEF CreateCustomer
<1>14. \A k \in Keys : \/ identity'[k] = identity[k]
                       \/ IsFree(k) /\ identity'[k].holder = r /\ identity'[k] \in IdentityRow
  BY <1>4 DEF CreateCustomer, IdentityRow, Owner
<1>15. \A k \in Keys : k \in run[r].names /\ IsFree(k) => identity'[k].holder = r
  BY DEF CreateCustomer
<1>16. \A d \in Customers : (Exists(d)' <=> Exists(d) \/ d = r) /\ (Merged(d)' <=> Merged(d))
  BY <1>6, <1>7, <1>8, <1>10 DEF Exists, Merged
<1>17. RecordsTypeOK'
  <2>1. identity' \in [Keys -> IdentityRow]
    BY <1>4, <1>14 DEF CreateCustomer
  <2>2. run' \in [Customers -> RunState] /\ lead' \in [Customers -> Owner]
    BY <1>2, <1>4, <1>13 DEF MovesTo, Owner
  <2> QED BY <1>10, <1>12, <1>13, <2>1, <2>2 DEF RecordsInv, RecordsTypeOK
<1>18. ReviewsInv'
  <2>1. ASSUME NEW d \in Customers, d # r PROVE Reviewed(d)'
    BY <2>1, <1>10, <1>12, <1>16 DEF RecordsInv, ReviewsInv, Reviewed
  <2>2. Reviewed(r)'
    BY <1>5, <1>6, <1>7, <1>8, <1>10, <1>11, <1>12, <1>16, RecordsAssumption
    DEF Reviewed, NewStatus, Owner
  <2> QED BY <2>1, <2>2 DEF ReviewsInv
<1>19. RunsInv'
  <2>1. ASSUME NEW x \in Customers, x # r PROVE Resolving(x, run[x])'
    <3>1. run'[x] = run[x] /\ lead'[x] = lead[x] /\ document'[x] = document[x]
      BY <2>1, <1>2, <1>4, <1>13 DEF MovesTo
    <3> QED BY <2>1, <3>1, <1>16 DEF RecordsInv, RunsInv, Resolving
  <2>2. Resolving(r, run[r])'
    BY <1>2, <1>3, <1>13 DEF Resolving, MovesTo
  <2> QED BY <2>1, <2>2 DEF RunsInv
<1>20. HoldersInv'
  BY <1>14, <1>16 DEF RecordsInv, HoldersInv
<1>21. Ordered'
  <2>1. PICK f \in [Customers -> Nat], n \in Nat : Order(f, n)
    BY DEF RecordsInv, Ordered
  <2>2. PICK g : g = [f EXCEPT ![r] = n]
    OBVIOUS
  <2>3. g \in [Customers -> Nat] /\ g[r] = n /\ \A d \in Customers \ {r} : g[d] = f[d]
    BY <2>1, <2>2
  <2>4. \A d \in Customers \ {r} : Exists(d) => g[d] < n
    BY <2>1, <2>3 DEF Order
  <2>5. ASSUME NEW d \in Customers, d # r
        PROVE  /\ Exists(d)' => g[d] < n + 1
               /\ Points(g, d, review[d].candidate)' /\ Points(g, d, customer[d].into)'
    <3>1. /\ Points(f, d, review[d].candidate) /\ Points(f, d, customer[d].into)
          /\ (Exists(d) => f[d] < n)
      BY <2>1 DEF Order
    <3>2. review[d].candidate # r /\ customer[d].into # r
      BY <1>7
    <3>3. Points(g, d, review[d].candidate)'
      BY <2>3, <2>5, <3>1, <3>2, <1>12, <1>16 DEF Points
    <3>4. Points(g, d, customer[d].into)'
      BY <2>3, <2>5, <3>1, <3>2, <1>10, <1>16 DEF Points
    <3>5. Exists(d)' => g[d] < n + 1
      BY <2>1, <2>3, <2>5, <3>1, <1>16
    <3> QED BY <3>3, <3>4, <3>5
  <2>6. g[r] < n + 1 /\ Points(g, r, review[r].candidate)' /\ Points(g, r, customer[r].into)'
    <3>1. g[r] < n + 1
      BY <2>1, <2>3
    <3>2. customer'[r].into = Nobody /\ (review'[r].candidate = Nobody \/ review'[r].candidate = c)
      BY <1>7, <1>8, <1>10, <1>11, <1>12
    <3>3. c \in Customers => Exists(c) /\ c # r
      BY <1>3
    <3>4. c \in Customers => g[c] < g[r]
      BY <2>3, <2>4, <3>3
    <3> QED BY <3>1, <3>2, <3>3, <3>4, <1>16, RecordsAssumption DEF Points
  <2>7. Order(g, n + 1)'
    BY <2>5, <2>6 DEF Order
  <2> QED BY <2>1, <2>3, <2>7 DEF Ordered
<1>22. TakenInv'
  <2>1. ASSUME NEW d \in Customers, Merged(d) PROVE (\E p \in Customers : customer'[p].into = d)
                                                  \/ LeftBehind(d)'
    <3>1. d # r /\ ((\E p \in Customers : customer[p].into = d) \/ LeftBehind(d))
      BY <2>1, <1>7 DEF RecordsInv, TakenInv, Taken
    <3>2. CASE \E p \in Customers : customer[p].into = d
      BY <3>2, <1>7, <1>10, RecordsAssumption
    <3>3. CASE LeftBehind(d)
      BY <3>1, <3>3, <1>4, <1>13, <1>14 DEF LeftBehind
    <3> QED BY <3>1, <3>2, <3>3
  <2> QED BY <2>1, <1>16 DEF TakenInv, Taken
<1>23. KeptInv'
  <2>1. \A k \in Keys : IsFree(k)' => IsFree(k)
    BY <1>14, RecordsAssumption DEF IsFree
  <2>2. ASSUME NEW x \in Customers, x # r PROVE Kept(x)'
    <3>1. run'[x] = run[x] /\ lead'[x] = lead[x] /\ run[x].names \subseteq Keys
      BY <2>2, <1>2, <1>4, <1>13 DEF MovesTo, RunState
    <3> QED BY <2>1, <3>1, <1>13 DEF RecordsInv, KeptInv, Kept
  <2>3. run'[r].names = run[r].names /\ run[r].names \subseteq Keys
    BY <1>2, <1>4 DEF MovesTo, RunState
  <2>4. Kept(r)'
    BY <2>1, <2>3, <1>15, RecordsAssumption DEF Kept, IsFree
  <2> QED BY <2>2, <2>4 DEF KeptInv
<1> QED BY <1>17, <1>18, <1>19, <1>20, <1>21, <1>22, <1>23 DEF RecordsInv

-----------------------------------------------------------------------------
(* Staff answer a review *)

LEMMA MergeKeeps ==
  ASSUME RecordsInv, NEW p \in Customers, MergeCustomers(p)
  PROVE  RecordsInv'
<1>1. PICK c : c = review[p].candidate
  OBVIOUS
<1>2. /\ c \in Customers \ {p} /\ Exists(c)
      /\ customer[p].status = "provisional" /\ ~Merged(p) /\ customer[p].into \notin Customers
  BY <1>1, CandidateIsAnother DEF MergeCustomers
<1>3. /\ customer \in [Customers -> CustomerRow] /\ review \in [Customers -> ReviewRow]
      /\ identity \in [Keys -> IdentityRow] /\ lead \in [Customers -> Owner]
      /\ document \in [Customers -> Owner]
  BY DEF RecordsInv, RecordsTypeOK
<1>4. /\ customer' = [x \in Customers |-> IF x = p THEN [status |-> "merged", into |-> c]
                                          ELSE IF customer[x].into = p
                                          THEN [customer[x] EXCEPT !.into = c]
                                          ELSE customer[x]]
      /\ lead' = Moved(lead, p, c) /\ document' = Moved(document, p, c)
      /\ review' = [review EXCEPT ![p].status = "merged"]
      /\ UNCHANGED <<run, late, released, edits>>
  BY <1>1 DEF MergeCustomers
<1>5. /\ customer' \in [Customers -> CustomerRow]
      /\ customer'[p].status = "merged" /\ customer'[p].into = c
      /\ \A x \in Customers \ {p} :
            /\ customer'[x].status = customer[x].status
            /\ customer'[x].into = IF customer[x].into = p THEN c ELSE customer[x].into
  <2>1. ASSUME NEW x \in Customers, x # p
        PROVE  /\ customer'[x] \in CustomerRow /\ customer'[x].status = customer[x].status
               /\ customer'[x].into = IF customer[x].into = p THEN c ELSE customer[x].into
    <3>1. customer'[x] = IF customer[x].into = p THEN [customer[x] EXCEPT !.into = c] ELSE customer[x]
      BY <2>1, <1>4
    <3>2. customer[x] \in CustomerRow
      BY <1>3
    <3> QED BY <3>1, <3>2, <1>2 DEF CustomerRow, Owner
  <2>2. customer'[p] = [status |-> "merged", into |-> c]
    BY <1>4
  <2>3. customer'[p] \in CustomerRow
    BY <2>2, <1>2 DEF CustomerRow, Owner
  <2>4. customer' \in [Customers -> CustomerRow]
    BY <1>4, <2>1, <2>3
  <2> QED BY <2>1, <2>2, <2>4
<1>6. /\ review' \in [Customers -> ReviewRow]
      /\ review'[p].status = "merged" /\ review'[p].candidate = c
      /\ \A x \in Customers \ {p} : review'[x] = review[x]
  BY <1>1, <1>3, <1>4 DEF ReviewRow
<1>7. /\ identity' \in [Keys -> IdentityRow]
      /\ \A k \in Keys : identity'[k].holder = IF identity[k].holder = p THEN c
                                               ELSE identity[k].holder
  <2>1. identity' = [k \in Keys |-> IF identity[k].holder = p THEN HandedOver(k, c) ELSE identity[k]]
    BY <1>1 DEF MergeCustomers
  <2>2. ASSUME NEW k \in Keys
        PROVE  HandedOver(k, c) \in IdentityRow /\ HandedOver(k, c).holder = c
    <3>1. identity[k] \in IdentityRow
      BY <1>3
    <3> QED BY <3>1, <1>2 DEF HandedOver, IdentityRow, Owner
  <2> QED BY <1>3, <2>1, <2>2
<1>8. /\ lead' \in [Customers -> Owner] /\ document' \in [Customers -> Owner]
      /\ \A x \in Customers : /\ lead'[x] = IF lead[x] = p THEN c ELSE lead[x]
                              /\ document'[x] = IF document[x] = p THEN c ELSE document[x]
  BY <1>2, <1>3, <1>4 DEF Moved, Owner
<1>9. \A x \in Customers : /\ Exists(x)' <=> Exists(x)
                           /\ Merged(x)' <=> Merged(x) \/ x = p
  BY <1>2, <1>5 DEF Exists, Merged
<1>10. RecordsTypeOK'
  BY <1>4, <1>5, <1>6, <1>7, <1>8 DEF RecordsInv, RecordsTypeOK
<1>11. ReviewsInv'
  <2>1. Reviewed(p)'
    BY <1>2, <1>5, <1>6 DEF Reviewed, Exists, Merged
  <2>2. ASSUME NEW x \in Customers, x # p PROVE Reviewed(x)'
    BY <2>2, <1>2, <1>5, <1>6, <1>9 DEF RecordsInv, ReviewsInv, Reviewed
  <2> QED BY <2>1, <2>2 DEF ReviewsInv
<1>12. RunsInv'
  BY <1>4, <1>8, <1>9, RecordsAssumption DEF RecordsInv, RunsInv, Resolving
<1>13. HoldersInv'
  BY <1>2, <1>7, <1>9 DEF RecordsInv, HoldersInv
<1>14. Ordered'
  <2>1. PICK f \in [Customers -> Nat], n \in Nat : Order(f, n)
    BY DEF RecordsInv, Ordered
  <2>2. Exists(p) /\ f[c] < f[p] /\ \A x \in Customers : f[x] \in Nat
    BY <2>1, <1>1, <1>2 DEF Order, Points
  <2>3. ASSUME NEW x \in Customers
        PROVE  (Exists(x)' => f[x] < n) /\ Points(f, x, review[x].candidate)'
               /\ Points(f, x, customer[x].into)'
    <3>1. /\ Exists(x) => f[x] < n
          /\ Points(f, x, review[x].candidate) /\ Points(f, x, customer[x].into)
      BY <2>1 DEF Order
    <3>2. review'[x].candidate = review[x].candidate
      BY <1>1, <1>6
    <3>3. Points(f, x, review[x].candidate)'
      BY <3>1, <3>2, <1>9 DEF Points
    <3>4. Points(f, x, customer[x].into)'
      <4>1. CASE x = p
        BY <4>1, <2>2, <1>2, <1>5, <1>9 DEF Points
      <4>2. CASE x # p /\ customer[x].into = p
        <5>1. Exists(x) /\ f[p] < f[x]
          BY <4>2, <3>1 DEF Points
        <5>2. f[c] < f[x]
          BY <5>1, <2>2, <1>2
        <5> QED BY <4>2, <5>1, <5>2, <1>2, <1>5, <1>9 DEF Points
      <4>3. CASE x # p /\ customer[x].into # p
        BY <4>3, <3>1, <1>5, <1>9 DEF Points
      <4> QED BY <4>1, <4>2, <4>3
    <3> QED BY <3>1, <3>3, <3>4, <1>9
  <2> QED BY <2>1, <2>3 DEF Ordered, Order
<1>15. TakenInv'
  <2>1. Taken(p)'
    BY <1>2, <1>7, <1>8 DEF Taken, LeftBehind
  <2>2. Taken(c)'
    BY <1>2, <1>5 DEF Taken
  <2>3. ASSUME NEW d \in Customers \ {p, c} PROVE Taken(d)'
    <3>1. Taken(d) /\ (Merged(d)' <=> Merged(d))
      BY <1>9, <2>3 DEF RecordsInv, TakenInv
    <3>2. (\E x \in Customers : customer[x].into = d) => \E x \in Customers : customer'[x].into = d
      BY <1>2, <1>5, <2>3
    <3>3. LeftBehind(d) => LeftBehind(d)'
      BY <1>4, <1>7, <1>8, <2>3 DEF LeftBehind
    <3> QED BY <3>1, <3>2, <3>3 DEF Taken
  <2> QED BY <2>1, <2>2, <2>3 DEF TakenInv
<1>16. KeptInv'
  <2>1. \A k \in Keys : IsFree(k)' => IsFree(k)
    BY <1>2, <1>7, RecordsAssumption DEF IsFree
  <2>2. \A x \in Customers : run[x].names \subseteq Keys
    BY DEF RecordsInv, RecordsTypeOK, RunState
  <2>3. \A x \in Customers : lead'[x] # Nobody => lead[x] # Nobody
    BY <1>2, <1>8, RecordsAssumption
  <2> QED BY <1>4, <2>1, <2>2, <2>3 DEF RecordsInv, KeptInv, Kept
<1> QED BY <1>10, <1>11, <1>12, <1>13, <1>14, <1>15, <1>16 DEF RecordsInv

\* A review is answered without a merge: no customer appears, goes or is merged.
LEMMA ReviewIsClosed ==
  ASSUME RecordsInv, NEW p \in Customers, NEW st, st \in {"kept_separate", "dismissed"},
         Unanswered(p),
         customer' \in [Customers -> CustomerRow],
         \A x \in Customers : customer'[x].into = customer[x].into,
         \A x \in Customers \ {p} : customer'[x].status = customer[x].status,
         customer'[p].status = IF st = "dismissed" THEN "provisional" ELSE "active",
         review' = [review EXCEPT ![p].status = st],
         UNCHANGED <<identity, run, lead, document, late, released, edits>>
  PROVE  RecordsInv'
<1>1. customer[p].status = "provisional" /\ customer[p].into \notin Customers /\ ~Merged(p)
  BY CandidateIsAnother
<1>2. review \in [Customers -> ReviewRow]
  BY DEF RecordsInv, RecordsTypeOK
<1>3. /\ review' \in [Customers -> ReviewRow] /\ review'[p].status = st
      /\ \A x \in Customers : review'[x].candidate = review[x].candidate
      /\ \A x \in Customers \ {p} : review'[x] = review[x]
  BY <1>2 DEF ReviewRow
<1>4. \A x \in Customers : (Exists(x)' <=> Exists(x)) /\ (Merged(x)' <=> Merged(x))
  BY <1>1 DEF Exists, Merged
<1>5. RecordsTypeOK'
  BY <1>3 DEF RecordsInv, RecordsTypeOK
<1>6. ReviewsInv'
  <2>1. ASSUME NEW x \in Customers, x # p PROVE Reviewed(x)'
    BY <2>1, <1>3, <1>4 DEF RecordsInv, ReviewsInv, Reviewed
  <2>2. Reviewed(p)'
    BY <1>1, <1>3, <1>4 DEF Reviewed, Exists, Merged
  <2> QED BY <2>1, <2>2 DEF ReviewsInv
<1>7. RunsInv' /\ HoldersInv'
  BY <1>4 DEF RecordsInv, RunsInv, Resolving, HoldersInv
<1>8. Ordered'
  <2>1. PICK f \in [Customers -> Nat], n \in Nat : Order(f, n)
    BY DEF RecordsInv, Ordered
  <2>2. ASSUME NEW x \in Customers
        PROVE  (Exists(x)' => f[x] < n) /\ Points(f, x, review[x].candidate)'
               /\ Points(f, x, customer[x].into)'
    BY <2>1, <1>3, <1>4 DEF Order, Points
  <2> QED BY <2>1, <2>2 DEF Ordered, Order
<1>9. TakenInv'
  BY <1>4 DEF RecordsInv, TakenInv, Taken, LeftBehind
<1>10. KeptInv'
  BY DEF RecordsInv, KeptInv, Kept, IsFree
<1> QED BY <1>5, <1>6, <1>7, <1>8, <1>9, <1>10 DEF RecordsInv

LEMMA KeepSeparateKeeps ==
  ASSUME RecordsInv, NEW p \in Customers, KeepSeparate(p)
  PROVE  RecordsInv'
<1>1. customer \in [Customers -> CustomerRow]
  BY DEF RecordsInv, RecordsTypeOK
<1>2. customer' = [customer EXCEPT ![p].status = "active"]
  BY DEF KeepSeparate
<1>3. /\ customer' \in [Customers -> CustomerRow] /\ customer'[p].status = "active"
      /\ \A x \in Customers : customer'[x].into = customer[x].into
      /\ \A x \in Customers \ {p} : customer'[x].status = customer[x].status
  BY <1>1, <1>2 DEF CustomerRow
<1>4. PICK st : st = "kept_separate"
  OBVIOUS
<1>5. review' = [review EXCEPT ![p].status = st] /\ Unanswered(p)
      /\ UNCHANGED <<identity, run, lead, document, late, released, edits>>
  BY <1>4 DEF KeepSeparate
<1>6. customer'[p].status = IF st = "dismissed" THEN "provisional" ELSE "active"
  BY <1>3, <1>4
<1> QED BY <1>3, <1>4, <1>5, <1>6, ReviewIsClosed

LEMMA DismissReviewKeeps ==
  ASSUME RecordsInv, NEW p \in Customers, DismissReview(p)
  PROVE  RecordsInv'
<1>1. customer \in [Customers -> CustomerRow] /\ customer' = customer
  BY DEF RecordsInv, RecordsTypeOK, DismissReview
<1>2. PICK st : st = "dismissed"
  OBVIOUS
<1>3. review' = [review EXCEPT ![p].status = st] /\ Unanswered(p)
      /\ UNCHANGED <<identity, run, lead, document, late, released, edits>>
  BY <1>2 DEF DismissReview
<1>4. customer'[p].status = IF st = "dismissed" THEN "provisional" ELSE "active"
  BY <1>1, <1>2, <1>3, CandidateIsAnother
<1>5. customer' \in [Customers -> CustomerRow]
      /\ (\A x \in Customers : customer'[x].into = customer[x].into)
      /\ (\A x \in Customers \ {p} : customer'[x].status = customer[x].status)
  BY <1>1
<1> QED BY <1>2, <1>3, <1>4, <1>5, ReviewIsClosed

-----------------------------------------------------------------------------
(* Staff edit the contacts of a customer *)

\* Whatever becomes of the identities, a step that leaves customers, reviews
\* and runs alone need only account for whom it gives an identity, and from
\* whom it takes one.
LEMMA ContactsChange ==
  ASSUME RecordsInv, NEW c \in Customers, Exists(c),
         UNCHANGED <<customer, review, run, lead, document>>,
         identity' \in [Keys -> IdentityRow], released' \in SUBSET Keys, edits' \in 0..MaxEdits,
         late' \in [identity : SUBSET Keys, lead : SUBSET Customers, document : SUBSET Customers],
         late'.lead = late.lead, late'.document = late.document,
         late.identity \subseteq late'.identity, released \subseteq released',
         \A k \in Keys : \/ identity'[k].holder = identity[k].holder
                         \/ identity'[k].holder = Nobody /\ k \in released'
                         \/ /\ identity'[k].holder = c
                            /\ Merged(c) => k \in late'.identity
  PROVE  RecordsInv'
<1>1. RecordsTypeOK'
  BY DEF RecordsInv, RecordsTypeOK
<1>2. ReviewsInv' /\ RunsInv' /\ Ordered'
  BY DEF RecordsInv, ReviewsInv, Reviewed, RunsInv, Resolving, Ordered, Order, Points, Exists, Merged
<1>3. HoldersInv'
  BY RecordsAssumption DEF RecordsInv, HoldersInv, Exists
<1>4. ASSUME NEW d \in Customers PROVE Taken(d)'
  <2>1. Taken(d) /\ (Merged(d)' <=> Merged(d))
    BY DEF RecordsInv, TakenInv, Merged
  <2>2. Merged(d) /\ LeftBehind(d) => LeftBehind(d)'
    BY RecordsAssumption DEF LeftBehind
  <2> QED BY <2>1, <2>2 DEF Taken
<1>5. KeptInv'
  <2>1. \A k \in Keys : IsFree(k)' => IsFree(k) \/ k \in released'
    BY RecordsAssumption DEF IsFree
  <2>2. \A x \in Customers : run[x].names \subseteq Keys
    BY DEF RecordsInv, RecordsTypeOK, RunState
  <2> QED BY <2>1, <2>2 DEF RecordsInv, KeptInv, Kept
<1> QED BY <1>1, <1>2, <1>3, <1>4, <1>5 DEF RecordsInv, TakenInv

ContactTypes == ExactTypes \cup {"company"}

LEMMA ContactKeys ==
  ASSUME NEW t \in ContactTypes, NEW v \in Values PROVE <<t, v>> \in Keys
BY DEF ContactTypes, Keys, Types

LEMMA ClearContactKeeps ==
  ASSUME RecordsInv, NEW c \in Customers, NEW t \in ContactTypes, ClearContact(c, t)
  PROVE  RecordsInv'
<1>1. PICK v \in Values : /\ identity' = [identity EXCEPT ![<<t, v>>] = Free]
                          /\ released' = released \cup {<<t, v>>}
  BY DEF ClearContact, Primary
<1>2. PICK k : k = <<t, v>>
  OBVIOUS
<1>3. k \in Keys
  BY <1>2, ContactKeys
<1>4. /\ identity \in [Keys -> IdentityRow] /\ released \subseteq Keys /\ edits \in 0..MaxEdits
      /\ late \in [identity : SUBSET Keys, lead : SUBSET Customers, document : SUBSET Customers]
  BY DEF RecordsInv, RecordsTypeOK
<1>5. Free \in IdentityRow /\ Free.holder = Nobody
  BY DEF Free, IdentityRow, Owner
<1>6. identity' = [identity EXCEPT ![k] = Free] /\ released' = released \cup {k}
  BY <1>1, <1>2
<1>7. Exists(c) /\ edits' \in 0..MaxEdits
  BY <1>4, RecordsAssumption DEF ClearContact, CanEdit, Exists
<1>8. UNCHANGED <<customer, review, run, lead, document, late>>
  BY DEF ClearContact
<1>9. /\ identity' \in [Keys -> IdentityRow] /\ released' \in SUBSET Keys
      /\ released \subseteq released'
  BY <1>3, <1>4, <1>5, <1>6
<1>10. \A l \in Keys : identity'[l].holder = identity[l].holder
                       \/ (identity'[l].holder = Nobody /\ l \in released')
  BY <1>3, <1>4, <1>5, <1>6
<1> QED BY <1>4, <1>7, <1>8, <1>9, <1>10, ContactsChange

LEMMA EditContactKeeps ==
  ASSUME RecordsInv, NEW c \in Customers, NEW t \in ContactTypes, NEW v \in Values,
         EditContact(c, t, v)
  PROVE  RecordsInv'
<1>1. PICK k : k = <<t, v>>
  OBVIOUS
<1>2. k \in Keys /\ IsFree(k)
  BY <1>1, ContactKeys DEF EditContact
<1>3. /\ identity \in [Keys -> IdentityRow] /\ released \subseteq Keys /\ edits \in 0..MaxEdits
      /\ late \in [identity : SUBSET Keys, lead : SUBSET Customers, document : SUBSET Customers]
  BY DEF RecordsInv, RecordsTypeOK
<1>4. Exists(c) /\ edits' \in 0..MaxEdits
  BY <1>3, RecordsAssumption DEF EditContact, CanEdit, Exists
<1>5. /\ UNCHANGED <<customer, review, run, lead, document>>
      /\ late' = IF Merged(c) THEN [late EXCEPT !.identity = @ \cup {k}] ELSE late
  BY <1>1 DEF EditContact
<1>6. /\ late' \in [identity : SUBSET Keys, lead : SUBSET Customers, document : SUBSET Customers]
      /\ late'.lead = late.lead /\ late'.document = late.document
      /\ late.identity \subseteq late'.identity /\ (Merged(c) => k \in late'.identity)
  BY <1>2, <1>3, <1>5
<1>7. CASE Primary(c, t) = {} /\ UNCHANGED released
           /\ identity' = [identity EXCEPT ![<<t, v>>] =
                              [holder |-> c, verified |-> FALSE, primary |-> TRUE]]
  <2>1. PICK row : row = [holder |-> c, verified |-> FALSE, primary |-> TRUE]
    OBVIOUS
  <2>2. identity' = [identity EXCEPT ![k] = row] /\ row \in IdentityRow /\ row.holder = c
    BY <1>1, <1>7, <2>1 DEF IdentityRow, Owner
  <2>3. identity' \in [Keys -> IdentityRow] /\ released' \in SUBSET Keys
    BY <1>2, <1>3, <1>7, <2>2
  <2>4. \A l \in Keys : identity'[l].holder = identity[l].holder
                        \/ (identity'[l].holder = c /\ (Merged(c) => l \in late'.identity))
    BY <1>2, <1>3, <1>6, <2>2
  <2> QED BY <1>4, <1>5, <1>6, <1>7, <2>3, <2>4, ContactsChange
<1>8. ASSUME NEW u \in Primary(c, t),
             identity' = [identity EXCEPT ![<<t, v>>] = identity[<<t, u>>], ![<<t, u>>] = Free],
             released' = released \cup {<<t, u>>}
      PROVE  RecordsInv'
  <2>1. PICK j : j = <<t, u>>
    OBVIOUS
  <2>2. j \in Keys /\ identity[j].holder = c
    BY <1>8, <2>1, ContactKeys DEF Primary
  <2>3. identity' = [identity EXCEPT ![k] = identity[j], ![j] = Free]
        /\ released' = released \cup {j}
    BY <1>1, <1>8, <2>1
  <2>4. Free \in IdentityRow /\ Free.holder = Nobody
    BY DEF Free, IdentityRow, Owner
  <2>5. identity' \in [Keys -> IdentityRow] /\ released' \in SUBSET Keys
        /\ released \subseteq released'
    BY <1>2, <1>3, <2>2, <2>3, <2>4
  <2>6. \A l \in Keys : \/ identity'[l].holder = identity[l].holder
                        \/ identity'[l].holder = Nobody /\ l \in released'
                        \/ identity'[l].holder = c /\ (Merged(c) => l \in late'.identity)
    BY <1>2, <1>3, <1>6, <2>2, <2>3, <2>4
  <2> QED BY <1>4, <1>5, <1>6, <2>5, <2>6, ContactsChange
<1> QED BY <1>7, <1>8 DEF EditContact

-----------------------------------------------------------------------------
(* The records keep their invariant *)

LEMMA RecordsStart == RecordsInit => RecordsInv
<1> SUFFICES ASSUME RecordsInit PROVE RecordsInv
  OBVIOUS
<1>1. \A k \in Keys : identity[k] = Free
  BY DEF RecordsInit
<1>2. /\ \A c \in Customers : /\ customer[c].status = "none" /\ customer[c].into = Nobody
                              /\ review[c].status = "none" /\ review[c].candidate = Nobody
                              /\ lead[c] = Nobody /\ document[c] = Nobody
                              /\ run[c].pc = "idle" /\ run[c].names = {}
      /\ Nobody \notin Customers
  BY RecordsAssumption DEF RecordsInit
<1>3. RecordsTypeOK
  BY RecordsAssumption
  DEF RecordsInit, RecordsTypeOK, CustomerRow, IdentityRow, ReviewRow, RunState, RunStates, Owner, Free
<1>4. ReviewsInv /\ RunsInv /\ TakenInv /\ KeptInv
  BY <1>2 DEF ReviewsInv, Reviewed, RunsInv, Resolving, TakenInv, Taken, KeptInv, Kept, Merged, Exists
<1>5. HoldersInv
  BY <1>1, <1>2 DEF HoldersInv, Free
<1>6. Ordered
  <2>1. PICK f : f = [c \in Customers |-> 0]
    OBVIOUS
  <2>2. f \in [Customers -> Nat]
    BY <2>1
  <2>3. Order(f, 0)
    BY <1>2 DEF Order, Points, Exists
  <2> QED BY <2>2, <2>3 DEF Ordered
<1> QED BY <1>3, <1>4, <1>5, <1>6 DEF RecordsInv

LEMMA RecordsStep == RecordsInv /\ RecordsNext => RecordsInv'
<1> SUFFICES ASSUME RecordsInv, RecordsNext PROVE RecordsInv'
  OBVIOUS
<1>1. ASSUME NEW r \in Customers, NEW q \in Inquiries, MatchExisting(r, q) \/ MatchNone(r, q)
      PROVE  RecordsInv'
  BY <1>1, MatchExistingKeeps, MatchNoneKeeps
<1>2. ASSUME NEW r \in Customers,
             JoinCustomer(r) \/ CreateCustomer(r) \/ InsertFails(r) \/ Qualify(r) \/ RecordDocument(r)
      PROVE  RecordsInv'
  BY <1>2, JoinCustomerKeeps, CreateCustomerKeeps, InsertFailsKeeps, QualifyKeeps, RecordDocumentKeeps
<1>3. ASSUME NEW c \in Customers, KeepSeparate(c) \/ DismissReview(c) \/ MergeCustomers(c)
      PROVE  RecordsInv'
  BY <1>3, KeepSeparateKeeps, DismissReviewKeeps, MergeKeeps
<1>4. ASSUME NEW c \in Customers, NEW t \in ContactTypes,
             ClearContact(c, t) \/ \E v \in Values : EditContact(c, t, v)
      PROVE  RecordsInv'
  BY <1>4, ClearContactKeeps, EditContactKeeps
<1>5. RunStep => RecordsInv'
  BY <1>1, <1>2 DEF RunStep
<1>6. StaffStep => RecordsInv'
  BY <1>3, <1>4 DEF StaffStep, ContactTypes
<1> QED BY <1>3, <1>5, <1>6 DEF RecordsNext

LEMMA RecordsStutter == RecordsInv /\ UNCHANGED recordVars => RecordsInv'
<1> SUFFICES ASSUME RecordsInv, UNCHANGED recordVars PROVE RecordsInv'
  OBVIOUS
<1> USE DEF recordVars
<1>1. RecordsTypeOK'
  BY DEF RecordsInv, RecordsTypeOK
<1>2. ReviewsInv' /\ RunsInv' /\ HoldersInv'
  BY DEF RecordsInv, ReviewsInv, Reviewed, RunsInv, Resolving, HoldersInv, Exists, Merged
<1>3. Ordered'
  BY DEF RecordsInv, Ordered, Order, Points, Exists
<1>4. TakenInv' /\ KeptInv'
  BY DEF RecordsInv, TakenInv, Taken, LeftBehind, KeptInv, Kept, Merged, IsFree
<1> QED BY <1>1, <1>2, <1>3, <1>4 DEF RecordsInv

\* The invariant of the records, for any number of customers, runs and edits.
THEOREM RecordsInvariant == RecordsSpec => []RecordsInv
<1>1. RecordsInv /\ [RecordsNext]_recordVars => RecordsInv'
  BY RecordsStep, RecordsStutter
<1> QED BY <1>1, RecordsStart, PTL DEF RecordsSpec

-----------------------------------------------------------------------------
(* The outbox beside the records *)

\* Notes, workers and crashes are nothing to the records: every step of the
\* whole is one of theirs, or leaves them alone.
LEMMA RecordsAlone == [Next]_vars => [RecordsNext]_recordVars
<1> SUFFICES ASSUME [Next]_vars PROVE [RecordsNext]_recordVars
  OBVIOUS
<1>1. CASE UNCHANGED vars
  BY <1>1 DEF vars
<1>2. CASE RecordStep
  BY <1>2 DEF RecordStep, RecordsNext
<1>3. ASSUME NEW p \in Customers, Merge(p) PROVE RecordsNext
  BY <1>3 DEF Merge, RecordsNext
<1>4. ASSUME NEW n \in Notes, GrowsOld(n) \/ \E c \in Customers : CreateNote(n, c)
      PROVE  UNCHANGED recordVars
  BY <1>4 DEF GrowsOld, CreateNote
<1>5. ASSUME NEW w \in Workers, WorkerStep(w) \/ Crash(w) PROVE UNCHANGED recordVars
  BY <1>5 DEF WorkerStep, RecoverStale, Claim, Project, Fails, Complete, GiveBack, SettleRow,
              Restart, Crash
<1> QED BY <1>1, <1>2, <1>3, <1>4, <1>5 DEF Next

\* The composition implements the records: what is proved of them holds with
\* notes and workers beside them.
THEOREM RecordsAreKept == Spec => RecordsSpec
<1>1. Init => RecordsInit
  BY DEF Init
<1> QED BY <1>1, RecordsAlone, PTL DEF Spec, RecordsSpec

\* A customer that was merged stays merged.
LEMMA MergedStays ==
  ASSUME RecordsInv, [RecordsNext]_recordVars, NEW d \in Customers, Merged(d)
  PROVE  Merged(d)'
<1>1. customer \in [Customers -> CustomerRow]
  BY DEF RecordsInv, RecordsTypeOK
<1>2. CASE customer' = customer
  BY <1>2 DEF Merged
<1>3. ASSUME NEW r \in Customers, CreateCustomer(r) PROVE Merged(d)'
  <2>1. ~Exists(r)
    BY <1>3 DEF CreateCustomer, RecordsInv, RunsInv, Resolving
  <2>2. d # r
    BY <2>1 DEF Exists, Merged
  <2> QED BY <1>1, <1>3, <2>2 DEF CreateCustomer, Merged
<1>4. ASSUME NEW p \in Customers, KeepSeparate(p) PROVE Merged(d)'
  <2>1. d # p
    BY <1>4, CandidateIsAnother DEF KeepSeparate
  <2> QED BY <1>1, <1>4, <2>1 DEF KeepSeparate, Merged
<1>5. ASSUME NEW p \in Customers, MergeCustomers(p) PROVE Merged(d)'
  <2>1. customer[d] \in CustomerRow
    BY <1>1
  <2>2. \/ customer'[d].status = "merged"
        \/ customer'[d] = customer[d]
        \/ customer'[d] = [customer[d] EXCEPT !.into = review[p].candidate]
    BY <1>5 DEF MergeCustomers
  <2> QED BY <2>1, <2>2 DEF Merged, CustomerRow
<1>6. RunStep => Merged(d)'
  BY <1>2, <1>3 DEF RunStep, MatchExisting, MatchNone, JoinCustomer, InsertFails, Qualify, RecordDocument
<1>7. StaffStep => Merged(d)'
  BY <1>2, <1>4 DEF StaffStep, DismissReview, ClearContact, EditContact
<1> QED BY <1>2, <1>5, <1>6, <1>7 DEF RecordsNext, recordVars

\* What the rows of a note say of each other, and of where it was projected.
NoteSound(n) ==
  /\ outbox[n].customer = note[n]
  /\ outbox[n].status = "none" <=> note[n] = Nobody
  /\ outbox[n].status = "completed" => point[n] # Nobody
  /\ point[n] # Nobody => note[n] # Nobody /\ (point[n] = note[n] \/ Merged(point[n]))

\* What a worker knows of the row it has claimed: the customer it read may
\* have been merged since.
WorkerSound(s) ==
  /\ s.pc \in {"projecting", "settling", "failing"} =>
        s.job \in Notes /\ s.customer \in Customers /\ note[s.job] # Nobody
  /\ s.pc = "projecting" => s.customer = note[s.job] \/ Merged(s.customer)
  /\ s.pc = "settling" => point[s.job] # Nobody

NotesInv == \A n \in Notes : NoteSound(n)
WorkersInv == \A w \in Workers : WorkerSound(worker[w])

OutboxInv == OutboxTypeOK /\ NotesInv /\ WorkersInv
MemoryInv == RecordsInv /\ OutboxInv

LEMMA RecordStepKeepsNotes ==
  ASSUME MemoryInv, [RecordsNext]_recordVars, UNCHANGED outboxVars
  PROVE  OutboxInv'
<1> USE DEF outboxVars
<1>1. OutboxTypeOK'
  BY DEF MemoryInv, OutboxInv, OutboxTypeOK
<1>2. \A d \in Customers : Merged(d) => Merged(d)'
  BY MergedStays DEF MemoryInv
<1>3. point \in [Notes -> Owner] /\ worker \in [Workers -> WorkerState]
  BY DEF MemoryInv, OutboxInv, OutboxTypeOK
<1>4. ASSUME NEW n \in Notes PROVE NoteSound(n)'
  <2>1. point[n] # Nobody => point[n] \in Customers
    BY <1>3 DEF Owner
  <2> QED BY <1>2, <2>1 DEF MemoryInv, OutboxInv, NotesInv, NoteSound
<1>5. ASSUME NEW w \in Workers PROVE WorkerSound(worker[w])'
  BY <1>2 DEF MemoryInv, OutboxInv, WorkersInv, WorkerSound
<1> QED BY <1>1, <1>4, <1>5 DEF OutboxInv, NotesInv, WorkersInv

LEMMA CreateNoteKeeps ==
  ASSUME MemoryInv, NEW n \in Notes, NEW c \in Customers, CreateNote(n, c)
  PROVE  OutboxInv'
<1>1. /\ note \in [Notes -> Owner] /\ outbox \in [Notes -> OutboxRow] /\ outbox[n] \in OutboxRow
      /\ c # Nobody
  BY RecordsAssumption DEF MemoryInv, OutboxInv, OutboxTypeOK
<1>2. PICK row : row = [outbox[n] EXCEPT !.status = "pending", !.customer = c]
  OBVIOUS
<1>3. outbox' = [outbox EXCEPT ![n] = row]
  BY <1>1, <1>2 DEF CreateNote
<1>4. row \in OutboxRow /\ row.status = "pending" /\ row.customer = c
  BY <1>1, <1>2 DEF OutboxRow, Owner
<1>5. /\ note' = [note EXCEPT ![n] = c] /\ note[n] = Nobody
      /\ UNCHANGED <<recordVars, point, worker, crashes>>
  BY DEF CreateNote
<1>6. OutboxTypeOK'
  BY <1>1, <1>3, <1>4, <1>5 DEF MemoryInv, OutboxInv, OutboxTypeOK, Owner
<1>7. UNCHANGED customer
  BY <1>5 DEF recordVars
<1>8. ASSUME NEW m \in Notes PROVE NoteSound(m)'
  <2>1. NoteSound(m)
    BY DEF MemoryInv, OutboxInv, NotesInv
  <2>2. CASE m # n
    BY <2>1, <2>2, <1>1, <1>3, <1>5, <1>7 DEF NoteSound, Merged
  <2>3. CASE m = n
    <3>1. point'[n] = Nobody
      BY <2>1, <2>3, <1>5 DEF NoteSound
    <3> QED BY <2>3, <3>1, <1>1, <1>3, <1>4, <1>5 DEF NoteSound
  <2> QED BY <2>2, <2>3
<1>9. ASSUME NEW w \in Workers PROVE WorkerSound(worker[w])'
  <2>1. WorkerSound(worker[w])
    BY DEF MemoryInv, OutboxInv, WorkersInv
  <2>2. \A m \in Notes : note[m] # Nobody => note'[m] = note[m]
    BY <1>1, <1>5
  <2> QED BY <2>1, <2>2, <1>5, <1>7 DEF WorkerSound, Merged
<1> QED BY <1>6, <1>8, <1>9 DEF OutboxInv, NotesInv, WorkersInv

\* The rows of a note move together, and what was projected stays under the
\* customer that is merged now.
LEMMA MergeKeepsNotes ==
  ASSUME MemoryInv, NEW p \in Customers, Merge(p)
  PROVE  OutboxInv'
<1>1. PICK c : c = review[p].candidate
  OBVIOUS
<1>2. c \in Customers \ {p} /\ MergeCustomers(p)
  BY <1>1, CandidateIsAnother DEF MemoryInv, Merge, MergeCustomers
<1>3. /\ note \in [Notes -> Owner] /\ outbox \in [Notes -> OutboxRow] /\ point \in [Notes -> Owner]
      /\ worker \in [Workers -> WorkerState]
  BY DEF MemoryInv, OutboxInv, OutboxTypeOK
<1>4. /\ note' = Moved(note, p, c)
      /\ outbox' = [n \in Notes |-> IF outbox[n].customer = p
                                    THEN [outbox[n] EXCEPT !.customer = c] ELSE outbox[n]]
      /\ UNCHANGED <<point, worker, crashes>>
  BY <1>1 DEF Merge
<1>5. /\ note' \in [Notes -> Owner]
      /\ \A n \in Notes : note'[n] = IF note[n] = p THEN c ELSE note[n]
  BY <1>2, <1>3, <1>4 DEF Moved, Owner
<1>6. ASSUME NEW n \in Notes
      PROVE  /\ outbox'[n] \in OutboxRow /\ outbox'[n].status = outbox[n].status
             /\ outbox'[n].customer = IF outbox[n].customer = p THEN c ELSE outbox[n].customer
  <2>1. outbox[n] \in OutboxRow
    BY <1>3
  <2>2. outbox'[n] = IF outbox[n].customer = p THEN [outbox[n] EXCEPT !.customer = c] ELSE outbox[n]
    BY <1>4
  <2> QED BY <2>1, <2>2, <1>2 DEF OutboxRow, Owner
<1>7. OutboxTypeOK'
  BY <1>3, <1>4, <1>5, <1>6 DEF MemoryInv, OutboxInv, OutboxTypeOK
<1>8. \A d \in Customers : Merged(d) => Merged(d)'
  BY <1>2, MergedStays DEF MemoryInv, RecordsNext
<1>9. Merged(p)'
  BY <1>2 DEF MergeCustomers, Merged
<1>10. ASSUME NEW n \in Notes PROVE NoteSound(n)'
  <2>1. NoteSound(n)
    BY DEF MemoryInv, OutboxInv, NotesInv
  <2>2. note'[n] = Nobody <=> note[n] = Nobody
    BY <1>2, <1>5, RecordsAssumption
  <2>3. point[n] # Nobody => point[n] \in Customers
    BY <1>3 DEF Owner
  <2> QED BY <2>1, <2>2, <2>3, <1>4, <1>5, <1>6, <1>8, <1>9 DEF NoteSound
<1>11. ASSUME NEW w \in Workers PROVE WorkerSound(worker[w])'
  <2>1. WorkerSound(worker[w]) /\ worker' = worker /\ point' = point
    BY <1>4 DEF MemoryInv, OutboxInv, WorkersInv
  <2>2. \A n \in Notes : note'[n] = Nobody <=> note[n] = Nobody
    BY <1>2, <1>5, RecordsAssumption
  <2> QED BY <2>1, <2>2, <1>5, <1>8, <1>9 DEF WorkerSound
<1> QED BY <1>7, <1>10, <1>11 DEF OutboxInv, NotesInv, WorkersInv

\* Steps that change an outbox row, or the state of a worker, and no note.
LEMMA RowsGoOn ==
  ASSUME MemoryInv, UNCHANGED <<recordVars, note, point>>, crashes' \in 0..MaxCrashes,
         outbox' \in [Notes -> OutboxRow],
         \A n \in Notes : /\ outbox'[n].customer = outbox[n].customer
                          /\ outbox'[n].status = "none" <=> outbox[n].status = "none"
                          /\ outbox'[n].status = "completed" =>
                                outbox[n].status = "completed" \/ point[n] # Nobody,
         worker' \in [Workers -> WorkerState],
         \A w \in Workers : worker'[w] = worker[w] \/ WorkerSound(worker'[w])
  PROVE  OutboxInv'
<1>1. OutboxTypeOK'
  BY DEF MemoryInv, OutboxInv, OutboxTypeOK
<1>2. UNCHANGED customer
  BY DEF recordVars
<1>3. NotesInv'
  BY <1>2 DEF MemoryInv, OutboxInv, NotesInv, NoteSound, Merged
<1>4. ASSUME NEW w \in Workers PROVE WorkerSound(worker[w])'
  <2>1. WorkerSound(worker'[w])
    BY DEF MemoryInv, OutboxInv, WorkersInv
  <2> QED BY <2>1, <1>2 DEF WorkerSound, Merged
<1> QED BY <1>1, <1>3, <1>4 DEF OutboxInv, WorkersInv

\* A worker that holds no job knows nothing.
LEMMA Resting ==
  ASSUME NEW s, s.pc \in {"down", "starting", "idle"} PROVE WorkerSound(s)
BY DEF WorkerSound

LEMMA RecoverStaleKeeps ==
  ASSUME MemoryInv, NEW w \in Workers, RecoverStale(w)
  PROVE  OutboxInv'
<1>1. /\ worker \in [Workers -> WorkerState] /\ worker[w] \in WorkerState
      /\ outbox \in [Notes -> OutboxRow] /\ crashes \in 0..MaxCrashes
  BY DEF MemoryInv, OutboxInv, OutboxTypeOK
<1>2. PICK s : s = [worker[w] EXCEPT !.pc = "idle"]
  OBVIOUS
<1>3. s \in WorkerState /\ s.pc = "idle"
  BY <1>1, <1>2 DEF WorkerState
<1>4. worker' = [worker EXCEPT ![w] = s]
  BY <1>1, <1>2 DEF RecoverStale
<1>5. worker' \in [Workers -> WorkerState]
      /\ \A v \in Workers : worker'[v] = worker[v] \/ WorkerSound(worker'[v])
  BY <1>1, <1>3, <1>4, Resting
<1>6. ASSUME NEW n \in Notes
      PROVE  /\ outbox'[n] \in OutboxRow /\ outbox'[n].customer = outbox[n].customer
             /\ outbox'[n].status = outbox[n].status
                   \/ (outbox[n].status = "processing" /\ outbox'[n].status = "retry")
  <2>1. outbox[n] \in OutboxRow
    BY <1>1
  <2>2. outbox'[n] = IF outbox[n].status = "processing" /\ outbox[n].old
                     THEN [outbox[n] EXCEPT !.status = "retry", !.lockedBy = Gone, !.old = FALSE]
                     ELSE outbox[n]
    BY DEF RecoverStale
  <2> QED BY <2>1, <2>2 DEF OutboxRow
<1>7. outbox' \in [Notes -> OutboxRow]
  BY <1>6 DEF RecoverStale
<1> QED BY <1>1, <1>5, <1>6, <1>7, RowsGoOn DEF RecoverStale

LEMMA ClaimKeeps ==
  ASSUME MemoryInv, NEW w \in Workers, NEW n \in Notes, Claim(w, n)
  PROVE  OutboxInv'
<1>1. /\ worker \in [Workers -> WorkerState] /\ outbox \in [Notes -> OutboxRow]
      /\ outbox[n] \in OutboxRow /\ crashes \in 0..MaxCrashes /\ note \in [Notes -> Owner]
  BY DEF MemoryInv, OutboxInv, OutboxTypeOK
<1>2. PICK i : i = outbox[n].attempts + 1
  OBVIOUS
<1>3. i \in Nat
  BY <1>1, <1>2 DEF OutboxRow
<1>4. PICK row : row = [outbox[n] EXCEPT !.status = "processing", !.lockedBy = w, !.attempts = i]
  OBVIOUS
<1>5. row \in OutboxRow /\ row.status = "processing" /\ row.customer = outbox[n].customer
  BY <1>1, <1>3, <1>4 DEF OutboxRow
<1>6. outbox' = [outbox EXCEPT ![n] = row]
  BY <1>1, <1>2, <1>4 DEF Claim
<1>7. outbox[n].customer = note[n] /\ note[n] \in Customers /\ outbox[n].status \in {"pending", "retry"}
  BY <1>1 DEF MemoryInv, OutboxInv, NotesInv, NoteSound, Claim, Claimable, Owner
<1>8. PICK s : s = [pc |-> "projecting", job |-> n, customer |-> note[n], attempts |-> i]
  OBVIOUS
<1>9. worker' = [worker EXCEPT ![w] = s]
  BY <1>2, <1>7, <1>8 DEF Claim
<1>10. s \in WorkerState
  BY <1>3, <1>7, <1>8 DEF WorkerState, Owner
<1>11. WorkerSound(s)
  BY <1>7, <1>8, RecordsAssumption DEF WorkerSound
<1>12. worker' \in [Workers -> WorkerState]
       /\ \A v \in Workers : worker'[v] = worker[v] \/ WorkerSound(worker'[v])
  BY <1>1, <1>9, <1>10, <1>11
<1>13. /\ outbox' \in [Notes -> OutboxRow]
       /\ \A m \in Notes : /\ outbox'[m].customer = outbox[m].customer
                           /\ outbox'[m].status = outbox[m].status
                                 \/ (m = n /\ outbox'[m].status = "processing")
  BY <1>1, <1>5, <1>6
<1> QED BY <1>1, <1>7, <1>12, <1>13, RowsGoOn DEF Claim

\* The customer of the point is the one the worker read, or it is merged.
LEMMA ProjectKeeps ==
  ASSUME MemoryInv, NEW w \in Workers, Project(w)
  PROVE  OutboxInv'
<1>1. PICK n, c : n = worker[w].job /\ c = worker[w].customer
  OBVIOUS
<1>2. /\ worker \in [Workers -> WorkerState] /\ worker[w] \in WorkerState
      /\ point \in [Notes -> Owner] /\ note \in [Notes -> Owner]
  BY DEF MemoryInv, OutboxInv, OutboxTypeOK
<1>3. /\ n \in Notes /\ c \in Customers /\ note[n] # Nobody
      /\ c = note[n] \/ Merged(c)
  BY <1>1 DEF MemoryInv, OutboxInv, WorkersInv, WorkerSound, Project
<1>4. PICK s : s = [worker[w] EXCEPT !.pc = "settling"]
  OBVIOUS
<1>5. s \in WorkerState /\ s.pc = "settling" /\ s.job = n /\ s.customer = c
  BY <1>1, <1>2, <1>4 DEF WorkerState
<1>6. worker' = [worker EXCEPT ![w] = s] /\ point' = [point EXCEPT ![n] = c]
      /\ UNCHANGED <<recordVars, note, outbox, crashes>>
  BY <1>1, <1>2, <1>4 DEF Project
<1>7. point'[n] = c /\ c # Nobody /\ \A m \in Notes \ {n} : point'[m] = point[m]
  BY <1>2, <1>3, <1>6, RecordsAssumption
<1>8. OutboxTypeOK'
  BY <1>2, <1>3, <1>5, <1>6 DEF MemoryInv, OutboxInv, OutboxTypeOK, Owner
<1>9. UNCHANGED customer
  BY <1>6 DEF recordVars
<1>10. ASSUME NEW m \in Notes PROVE NoteSound(m)'
  <2>1. NoteSound(m)
    BY DEF MemoryInv, OutboxInv, NotesInv
  <2>2. CASE m # n
    BY <2>1, <2>2, <1>6, <1>7, <1>9 DEF NoteSound, Merged
  <2>3. CASE m = n
    BY <2>1, <2>3, <1>3, <1>6, <1>7, <1>9 DEF NoteSound, Merged
  <2> QED BY <2>2, <2>3
<1>11. ASSUME NEW v \in Workers PROVE WorkerSound(worker[v])'
  <2>1. CASE v = w
    <3>1. worker'[v] = s
      BY <2>1, <1>2, <1>6
    <3> QED BY <3>1, <1>3, <1>5, <1>6, <1>7 DEF WorkerSound
  <2>2. CASE v # w
    <3>1. worker'[v] = worker[v] /\ WorkerSound(worker[v])
      BY <2>2, <1>2, <1>6 DEF MemoryInv, OutboxInv, WorkersInv
    <3>2. \A m \in Notes : point[m] # Nobody => point'[m] # Nobody
      BY <1>7
    <3> QED BY <3>1, <3>2, <1>6, <1>9 DEF WorkerSound, Merged
  <2> QED BY <2>1, <2>2
<1> QED BY <1>8, <1>10, <1>11 DEF OutboxInv, NotesInv, WorkersInv

\* A worker goes on from its row without touching it.
LEMMA FailsKeeps ==
  ASSUME MemoryInv, NEW w \in Workers, Fails(w)
  PROVE  OutboxInv'
<1>1. /\ worker \in [Workers -> WorkerState] /\ worker[w] \in WorkerState
      /\ outbox \in [Notes -> OutboxRow] /\ crashes \in 0..MaxCrashes
      /\ WorkerSound(worker[w])
  BY DEF MemoryInv, OutboxInv, OutboxTypeOK, WorkersInv
<1>2. PICK s : s = [worker[w] EXCEPT !.pc = "failing"]
  OBVIOUS
<1>3. s \in WorkerState /\ s.pc = "failing" /\ s.job = worker[w].job /\ s.customer = worker[w].customer
  BY <1>1, <1>2 DEF WorkerState
<1>4. worker' = [worker EXCEPT ![w] = s]
  BY <1>1, <1>2 DEF Fails
<1>5. WorkerSound(s)
  BY <1>1, <1>3 DEF WorkerSound, Fails
<1>6. worker' \in [Workers -> WorkerState]
      /\ \A v \in Workers : worker'[v] = worker[v] \/ WorkerSound(worker'[v])
  BY <1>1, <1>3, <1>4, <1>5
<1> QED BY <1>1, <1>6, RowsGoOn DEF Fails

LEMMA RestartKeeps ==
  ASSUME MemoryInv, NEW w \in Workers, Restart(w)
  PROVE  OutboxInv'
<1>1. /\ worker \in [Workers -> WorkerState] /\ worker[w] \in WorkerState
      /\ outbox \in [Notes -> OutboxRow] /\ crashes \in 0..MaxCrashes
  BY DEF MemoryInv, OutboxInv, OutboxTypeOK
<1>2. PICK s : s = [worker[w] EXCEPT !.pc = "starting"]
  OBVIOUS
<1>3. s \in WorkerState /\ s.pc = "starting"
  BY <1>1, <1>2 DEF WorkerState
<1>4. worker' = [worker EXCEPT ![w] = s]
  BY <1>1, <1>2 DEF Restart
<1>5. worker' \in [Workers -> WorkerState]
      /\ \A v \in Workers : worker'[v] = worker[v] \/ WorkerSound(worker'[v])
  BY <1>1, <1>3, <1>4, Resting
<1> QED BY <1>1, <1>5, RowsGoOn DEF Restart

\* A row is settled by the worker that has it, and completed once projected.
LEMMA SettleRowKeeps ==
  ASSUME MemoryInv, NEW w \in Workers, worker[w].pc \in {"settling", "failing"},
         NEW st, st \in {"completed", "dead", "retry"},
         st = "completed" => worker[w].pc = "settling",
         SettleRow(w, st)
  PROVE  OutboxInv'
<1>1. PICK n : n = worker[w].job
  OBVIOUS
<1>2. /\ worker \in [Workers -> WorkerState] /\ outbox \in [Notes -> OutboxRow]
      /\ crashes \in 0..MaxCrashes
  BY DEF MemoryInv, OutboxInv, OutboxTypeOK
<1>3. n \in Notes /\ note[n] # Nobody /\ (st = "completed" => point[n] # Nobody)
  BY <1>1 DEF MemoryInv, OutboxInv, WorkersInv, WorkerSound
<1>4. outbox[n] \in OutboxRow /\ outbox[n].status # "none"
  BY <1>2, <1>3 DEF MemoryInv, OutboxInv, NotesInv, NoteSound
<1>5. PICK row : row = [outbox[n] EXCEPT !.status = st, !.lockedBy = Gone, !.old = FALSE]
  OBVIOUS
<1>6. row \in OutboxRow /\ row.status = st /\ row.customer = outbox[n].customer
  BY <1>4, <1>5 DEF OutboxRow
<1>7. outbox' = outbox \/ outbox' = [outbox EXCEPT ![n] = row]
  BY <1>1, <1>2, <1>3, <1>5 DEF SettleRow
<1>8. /\ outbox' \in [Notes -> OutboxRow]
      /\ \A m \in Notes : /\ outbox'[m].customer = outbox[m].customer
                          /\ outbox'[m].status = outbox[m].status
                                \/ (m = n /\ outbox'[m].status = st)
  BY <1>2, <1>3, <1>6, <1>7
<1>9. PICK s : s = Without("idle")
  OBVIOUS
<1>10. s \in WorkerState /\ s.pc = "idle"
  BY <1>9 DEF Without, WorkerState, Owner
<1>11. worker' = [worker EXCEPT ![w] = s] /\ UNCHANGED <<recordVars, note, point, crashes>>
  BY <1>9 DEF SettleRow
<1>12. worker' \in [Workers -> WorkerState]
       /\ \A v \in Workers : worker'[v] = worker[v] \/ WorkerSound(worker'[v])
  BY <1>2, <1>10, <1>11, Resting
<1> QED BY <1>2, <1>3, <1>4, <1>8, <1>11, <1>12, RowsGoOn

LEMMA GrowsOldKeeps ==
  ASSUME MemoryInv, NEW n \in Notes, GrowsOld(n)
  PROVE  OutboxInv'
<1>1. /\ worker \in [Workers -> WorkerState] /\ outbox \in [Notes -> OutboxRow]
      /\ outbox[n] \in OutboxRow /\ crashes \in 0..MaxCrashes
  BY DEF MemoryInv, OutboxInv, OutboxTypeOK
<1>2. PICK row : row = [outbox[n] EXCEPT !.old = TRUE]
  OBVIOUS
<1>3. row \in OutboxRow /\ row.status = outbox[n].status /\ row.customer = outbox[n].customer
  BY <1>1, <1>2 DEF OutboxRow
<1>4. outbox' = [outbox EXCEPT ![n] = row]
  BY <1>1, <1>2 DEF GrowsOld
<1>5. /\ outbox' \in [Notes -> OutboxRow]
      /\ \A m \in Notes : /\ outbox'[m].customer = outbox[m].customer
                          /\ outbox'[m].status = outbox[m].status
  BY <1>1, <1>3, <1>4
<1> QED BY <1>1, <1>5, RowsGoOn DEF GrowsOld

LEMMA CrashKeeps ==
  ASSUME MemoryInv, NEW w \in Workers, Crash(w)
  PROVE  OutboxInv'
<1>1. /\ worker \in [Workers -> WorkerState] /\ outbox \in [Notes -> OutboxRow]
      /\ crashes \in 0..MaxCrashes
  BY DEF MemoryInv, OutboxInv, OutboxTypeOK
<1>2. crashes' \in 0..MaxCrashes
  BY <1>1, OutboxAssumption DEF Crash
<1>3. ASSUME NEW n \in Notes
      PROVE  /\ outbox'[n] \in OutboxRow /\ outbox'[n].customer = outbox[n].customer
             /\ outbox'[n].status = outbox[n].status
  <2>1. outbox[n] \in OutboxRow
    BY <1>1
  <2>2. outbox'[n] = IF outbox[n].lockedBy = w THEN [outbox[n] EXCEPT !.lockedBy = Gone] ELSE outbox[n]
    BY DEF Crash
  <2> QED BY <2>1, <2>2 DEF OutboxRow
<1>4. outbox' \in [Notes -> OutboxRow]
  BY <1>3 DEF Crash
<1>5. PICK s : s = Without("down")
  OBVIOUS
<1>6. s \in WorkerState /\ s.pc = "down"
  BY <1>5 DEF Without, WorkerState, Owner
<1>7. worker' = [worker EXCEPT ![w] = s]
  BY <1>5 DEF Crash
<1>8. worker' \in [Workers -> WorkerState]
      /\ \A v \in Workers : worker'[v] = worker[v] \/ WorkerSound(worker'[v])
  BY <1>1, <1>6, <1>7, Resting
<1> QED BY <1>2, <1>3, <1>4, <1>8, RowsGoOn DEF Crash

-----------------------------------------------------------------------------
(* The composition keeps its invariant *)

LEMMA MemoryStarts == Init => MemoryInv
<1> SUFFICES ASSUME Init PROVE MemoryInv
  OBVIOUS
<1>1. RecordsInv
  BY RecordsStart DEF Init
<1>2. OutboxTypeOK
  BY OutboxAssumption DEF Init, OutboxTypeOK, OutboxRow, WorkerState, Without, Owner
<1>3. NotesInv
  BY DEF Init, NotesInv, NoteSound
<1>4. WorkersInv
  BY Resting DEF Init, WorkersInv, Without
<1> QED BY <1>1, <1>2, <1>3, <1>4 DEF MemoryInv, OutboxInv

LEMMA WorkerStepKeeps ==
  ASSUME MemoryInv, NEW w \in Workers, WorkerStep(w) \/ Crash(w)
  PROVE  OutboxInv'
<1>1. Complete(w) => OutboxInv'
  BY SettleRowKeeps DEF Complete
<1>2. GiveBack(w) => OutboxInv'
  BY SettleRowKeeps DEF GiveBack, Outcome
<1>3. ASSUME NEW n \in Notes, Claim(w, n) PROVE OutboxInv'
  BY <1>3, ClaimKeeps
<1> QED BY <1>1, <1>2, <1>3, RecoverStaleKeeps, ProjectKeeps, FailsKeeps, RestartKeeps, CrashKeeps
        DEF WorkerStep

LEMMA MemoryStep == MemoryInv /\ [Next]_vars => MemoryInv'
<1> SUFFICES ASSUME MemoryInv, [Next]_vars PROVE MemoryInv'
  OBVIOUS
<1>1. RecordsInv'
  BY RecordsAlone, RecordsStep, RecordsStutter DEF MemoryInv
<1>2. CASE UNCHANGED vars
  BY <1>1, <1>2, RecordStepKeepsNotes DEF vars, MemoryInv
<1>3. CASE RecordStep
  BY <1>1, <1>3, RecordStepKeepsNotes DEF RecordStep, RecordsNext, MemoryInv
<1>4. ASSUME NEW p \in Customers, Merge(p) PROVE OutboxInv'
  BY <1>4, MergeKeepsNotes
<1>5. ASSUME NEW n \in Notes, GrowsOld(n) PROVE OutboxInv'
  BY <1>5, GrowsOldKeeps
<1>6. ASSUME NEW n \in Notes, NEW c \in Customers, CreateNote(n, c) PROVE OutboxInv'
  BY <1>6, CreateNoteKeeps
<1>7. ASSUME NEW w \in Workers, WorkerStep(w) \/ Crash(w) PROVE OutboxInv'
  BY <1>7, WorkerStepKeeps
<1> QED BY <1>1, <1>2, <1>3, <1>4, <1>5, <1>6, <1>7 DEF Next, MemoryInv

\* The invariant of records and outbox together, for any number of customers,
\* notes, workers and crashes.
THEOREM MemoryInvariant == Spec => []MemoryInv
<1> QED BY MemoryStarts, MemoryStep, PTL DEF Spec

\* A review agrees with its customer, and the two rows of a note with each
\* other, whatever is resolved, merged and projected meanwhile
\* (resolve_customer_identity, _merge_customers, create_note).
THEOREM CustomersStayConsistent == Spec => []CustomerInv
<1>1. ASSUME MemoryInv PROVE CustomerInv
  <2>1. TypeOK
    BY <1>1 DEF MemoryInv, RecordsInv, OutboxInv, TypeOK
  <2>2. ASSUME NEW c \in Customers, Merged(c)
        PROVE  customer[c].into \in Customers \ {c} /\ customer[customer[c].into].status # "none"
    BY <1>1, <2>2, IntoAnother DEF MemoryInv, Exists
  <2>3. ReviewMatchesCustomer
    BY <1>1, <2>2 DEF MemoryInv, RecordsInv, ReviewsInv, Reviewed, ReviewMatchesCustomer
  <2>4. NoteFollowsMerge
    BY <1>1 DEF MemoryInv, OutboxInv, NotesInv, NoteSound, NoteFollowsMerge
  <2> QED BY <2>1, <2>3, <2>4 DEF CustomerInv
<1> QED BY <1>1, MemoryInvariant, PTL

\* What belongs to a customer survives its merge, and a contact a customer was
\* created with is never lost (_merge_customers, _add_identities).
THEOREM MergesLoseNothing == Spec => []MergeLosesNothing
<1>1. MemoryInv => MergeLosesNothing
  BY DEF MemoryInv, RecordsInv, TakenInv, Taken, LeftBehind, KeptInv, Kept,
         MergeLosesNothing, MergeTakesAll, ContactKept
<1> QED BY <1>1, MemoryInvariant, PTL

\* A note is found under its customer, or under one merged since
\* (MemoryOutboxWorker.process_one).
THEOREM NotesAreProjectedForTheirCustomer == Spec => []ProjectedForItsCustomer
<1>1. MemoryInv => ProjectedForItsCustomer
  BY DEF MemoryInv, OutboxInv, NotesInv, NoteSound, ProjectedForItsCustomer
<1> QED BY <1>1, MemoryInvariant, PTL
-----------------------------------------------------------------------------
(* What a step does to the belongings of a customer *)

\* Of a row a step leaves alone, or that was not the customer's.
LEMMA NotMoved ==
  ASSUME NEW c, NEW owner, NEW next, owner # c \/ next = owner
  PROVE  Passes(c, owner, next)
BY DEF Passes

\* A merge moves all that is its customer's, and nothing else.
LEMMA MergeMoves ==
  ASSUME RecordsInv, NEW p \in Customers, MergeCustomers(p), NEW c \in Customers,
         NEW owner, NEW next, next = IF owner = p THEN review[p].candidate ELSE owner
  PROVE  Passes(c, owner, next)
<1>1. CASE owner # p
  BY <1>1, NotMoved
<1>2. CASE owner = p /\ c # p
  BY <1>2, NotMoved
<1>3. CASE owner = p /\ c = p
  <2>1. ~Merged(p)
    BY CandidateIsAnother DEF MergeCustomers
  <2>2. customer'[p] = [status |-> "merged", into |-> review[p].candidate]
    BY DEF MergeCustomers
  <2> QED BY <1>3, <2>1, <2>2 DEF Passes, Merged
<1> QED BY <1>1, <1>2, <1>3

\* The rows of the records; those of the notes are the outbox's.
RowsPass(c) ==
  \A d \in Customers : /\ Passes(c, customer[d].into, customer'[d].into)
                       /\ Passes(c, lead[d], lead'[d])
                       /\ Passes(c, document[d], document'[d])
ContactsPass(c) ==
  \A k \in Keys : \/ Passes(c, identity[k].holder, identity'[k].holder)
                  \/ identity'[k].holder = Nobody /\ k \in released' /\ edits' > edits

\* A run gives rows to a customer, and takes none from anybody: the rows it
\* writes had no customer before.
LEMMA RunMoves ==
  ASSUME RecordsInv, RunStep, NEW c \in Customers
  PROVE  RowsPass(c) /\ ContactsPass(c)
<1>1. /\ customer \in [Customers -> CustomerRow] /\ lead \in [Customers -> Owner]
      /\ document \in [Customers -> Owner] /\ c # Nobody
  BY RecordsAssumption DEF RecordsInv, RecordsTypeOK
<1>2. CASE UNCHANGED <<customer, identity, lead, document>>
  BY <1>2, NotMoved DEF RowsPass, ContactsPass
<1>3. ASSUME NEW r \in Customers, JoinCustomer(r) PROVE RowsPass(c) /\ ContactsPass(c)
  <2>1. lead[r] = Nobody
    BY <1>3 DEF RecordsInv, RunsInv, Resolving, JoinCustomer
  <2>2. \A d \in Customers : lead[d] # c \/ lead'[d] = lead[d]
    BY <1>1, <1>3, <2>1 DEF JoinCustomer
  <2>3. UNCHANGED <<customer, identity, document>>
    BY <1>3 DEF JoinCustomer
  <2> QED BY <2>2, <2>3, NotMoved DEF RowsPass, ContactsPass
<1>4. ASSUME NEW r \in Customers, RecordDocument(r) PROVE RowsPass(c) /\ ContactsPass(c)
  <2>1. document[r] = Nobody
    BY <1>4 DEF RecordsInv, RunsInv, Resolving, RecordDocument
  <2>2. \A d \in Customers : document[d] # c \/ document'[d] = document[d]
    BY <1>1, <1>4, <2>1 DEF RecordDocument
  <2>3. UNCHANGED <<customer, identity, lead>>
    BY <1>4 DEF RecordDocument
  <2> QED BY <2>2, <2>3, NotMoved DEF RowsPass, ContactsPass
<1>5. ASSUME NEW r \in Customers, CreateCustomer(r) PROVE RowsPass(c) /\ ContactsPass(c)
  <2>1. lead[r] = Nobody
    BY <1>5 DEF RecordsInv, RunsInv, Resolving, CreateCustomer
  <2>2. \A d \in Customers : lead[d] # c \/ lead'[d] = lead[d]
    BY <1>1, <1>5, <2>1 DEF CreateCustomer
  <2>3. UNCHANGED document
    BY <1>5 DEF CreateCustomer
  <2>4. PICK st : customer' = [customer EXCEPT ![r].status = st]
    BY <1>5 DEF CreateCustomer
  <2>5. \A d \in Customers : customer'[d].into = customer[d].into
    BY <1>1, <2>4 DEF CustomerRow
  <2>6. \A k \in Keys : identity[k].holder # c \/ identity'[k] = identity[k]
    BY <1>1, <1>5 DEF CreateCustomer, IsFree
  <2>7. RowsPass(c)
    BY <2>2, <2>3, <2>5, NotMoved DEF RowsPass
  <2> QED BY <2>6, <2>7, NotMoved DEF ContactsPass
<1> QED BY <1>2, <1>3, <1>4, <1>5
        DEF RunStep, MatchExisting, MatchNone, InsertFails, Qualify

\* Staff take a contact away from a customer, and move nothing.
LEMMA StaffMove ==
  ASSUME RecordsInv, StaffStep, NEW c \in Customers
  PROVE  RowsPass(c) /\ ContactsPass(c)
<1>1. /\ customer \in [Customers -> CustomerRow] /\ identity \in [Keys -> IdentityRow]
      /\ edits \in Nat /\ c # Nobody
  BY RecordsAssumption DEF RecordsInv, RecordsTypeOK
<1>2. CASE UNCHANGED <<customer, identity, lead, document>>
  BY <1>2, NotMoved DEF RowsPass, ContactsPass
<1>3. ASSUME NEW p \in Customers, KeepSeparate(p) PROVE RowsPass(c) /\ ContactsPass(c)
  <2>1. UNCHANGED <<identity, lead, document>> /\ customer' = [customer EXCEPT ![p].status = "active"]
    BY <1>3 DEF KeepSeparate
  <2>2. \A d \in Customers : customer'[d].into = customer[d].into
    BY <1>1, <2>1 DEF CustomerRow
  <2> QED BY <2>1, <2>2, NotMoved DEF RowsPass, ContactsPass
<1>4. ASSUME NEW d \in Customers, NEW t \in ContactTypes, ClearContact(d, t)
      PROVE  RowsPass(c) /\ ContactsPass(c)
  <2>1. PICK v \in Values : /\ identity' = [identity EXCEPT ![<<t, v>>] = Free]
                            /\ released' = released \cup {<<t, v>>}
    BY <1>4 DEF ClearContact, Primary
  <2>2. PICK k : k = <<t, v>>
    OBVIOUS
  <2>3. k \in Keys /\ Free.holder = Nobody
    BY <2>2, ContactKeys DEF Free
  <2>4. /\ identity' = [identity EXCEPT ![k] = Free] /\ released' = released \cup {k}
        /\ edits' > edits
    <3>1. identity' = [identity EXCEPT ![k] = Free] /\ released' = released \cup {k}
      BY <2>1, <2>2
    <3>2. edits' = edits + 1
      BY <1>4 DEF ClearContact
    <3> QED BY <1>1, <3>1, <3>2
  <2>5. \A l \in Keys : identity'[l] = identity[l] \/ (l = k /\ identity'[l].holder = Nobody)
    BY <1>1, <2>3, <2>4
  <2>6. UNCHANGED <<customer, lead, document>>
    BY <1>4 DEF ClearContact
  <2> QED BY <2>4, <2>5, <2>6, NotMoved DEF RowsPass, ContactsPass
<1>5. ASSUME NEW d \in Customers, NEW t \in ContactTypes, NEW v \in Values, EditContact(d, t, v)
      PROVE  RowsPass(c) /\ ContactsPass(c)
  <2>1. PICK k : k = <<t, v>>
    OBVIOUS
  <2>2. k \in Keys /\ identity[k].holder # c /\ edits' > edits
        /\ UNCHANGED <<customer, lead, document>>
    BY <1>1, <1>5, <2>1, ContactKeys DEF EditContact, IsFree
  <2>3. RowsPass(c)
    BY <2>2, NotMoved DEF RowsPass
  <2>4. CASE \A l \in Keys \ {k} : identity'[l] = identity[l]
    BY <2>2, <2>3, <2>4, NotMoved DEF ContactsPass
  <2>5. ASSUME NEW u \in Values,
               identity' = [identity EXCEPT ![<<t, v>>] = identity[<<t, u>>], ![<<t, u>>] = Free],
               released' = released \cup {<<t, u>>}
        PROVE  ContactsPass(c)
    <3>1. PICK j : j = <<t, u>>
      OBVIOUS
    <3>2. j \in Keys /\ j \in released' /\ Free.holder = Nobody
      BY <2>5, <3>1, ContactKeys DEF Free
    <3>3. PICK row : row = identity[j]
      OBVIOUS
    <3>4. identity' = [identity EXCEPT ![k] = row, ![j] = Free]
      BY <2>1, <2>5, <3>1, <3>3
    <3>5. \A l \in Keys : \/ l = k \/ identity'[l] = identity[l]
                          \/ l = j /\ identity'[l].holder = Nobody
      BY <1>1, <2>2, <3>2, <3>4
    <3> QED BY <2>2, <3>2, <3>5, NotMoved DEF ContactsPass
  <2>6. \/ identity' = [identity EXCEPT ![<<t, v>>] =
                           [holder |-> d, verified |-> FALSE, primary |-> TRUE]]
        \/ \E u \in Values :
              /\ identity' = [identity EXCEPT ![<<t, v>>] = identity[<<t, u>>], ![<<t, u>>] = Free]
              /\ released' = released \cup {<<t, u>>}
    BY <1>5 DEF EditContact, Primary
  <2>7. CASE identity' = [identity EXCEPT ![<<t, v>>] =
                             [holder |-> d, verified |-> FALSE, primary |-> TRUE]]
    <3>1. \A l \in Keys \ {k} : identity'[l] = identity[l]
      BY <1>1, <2>1, <2>7
    <3> QED BY <2>3, <2>4, <3>1
  <2> QED BY <2>3, <2>5, <2>6, <2>7
<1>6. \A d \in Customers : DismissReview(d) => RowsPass(c) /\ ContactsPass(c)
  BY <1>2 DEF DismissReview
<1> QED BY <1>3, <1>4, <1>5, <1>6 DEF StaffStep, ContactTypes

LEMMA MergeMovesRows ==
  ASSUME RecordsInv, NEW p \in Customers, MergeCustomers(p), NEW c \in Customers
  PROVE  RowsPass(c) /\ ContactsPass(c)
<1>1. /\ customer \in [Customers -> CustomerRow] /\ identity \in [Keys -> IdentityRow]
      /\ lead \in [Customers -> Owner] /\ document \in [Customers -> Owner]
  BY DEF RecordsInv, RecordsTypeOK
<1>2. PICK s : s = review[p].candidate
  OBVIOUS
<1>3. ASSUME NEW owner, NEW next, next = IF owner = p THEN s ELSE owner
      PROVE  Passes(c, owner, next)
  BY <1>2, <1>3, MergeMoves
<1>4. \A d \in Customers : /\ lead'[d] = IF lead[d] = p THEN s ELSE lead[d]
                           /\ document'[d] = IF document[d] = p THEN s ELSE document[d]
  BY <1>1, <1>2 DEF MergeCustomers, Moved
<1>5. \A k \in Keys : identity'[k].holder = IF identity[k].holder = p THEN s ELSE identity[k].holder
  <2>1. identity' = [k \in Keys |-> IF identity[k].holder = p THEN HandedOver(k, s) ELSE identity[k]]
    BY <1>2 DEF MergeCustomers
  <2>2. \A k \in Keys : HandedOver(k, s).holder = s
    BY <1>1 DEF HandedOver, IdentityRow
  <2> QED BY <2>1, <2>2
<1>6. ASSUME NEW d \in Customers PROVE Passes(c, customer[d].into, customer'[d].into)
  <2>1. customer' = [x \in Customers |-> IF x = p THEN [status |-> "merged", into |-> s]
                                         ELSE IF customer[x].into = p
                                         THEN [customer[x] EXCEPT !.into = s] ELSE customer[x]]
    BY <1>2 DEF MergeCustomers
  <2>2. CASE d = p
    <3>1. customer[p].into # c
      BY CandidateIsAnother DEF MergeCustomers
    <3> QED BY <2>2, <3>1, NotMoved
  <2>3. CASE d # p
    <3>1. customer[d] \in CustomerRow
      BY <1>1
    <3>2. customer'[d].into = IF customer[d].into = p THEN s ELSE customer[d].into
      BY <2>1, <2>3, <3>1 DEF CustomerRow
    <3> QED BY <1>3, <3>2
  <2> QED BY <2>2, <2>3
<1>7. RowsPass(c)
  BY <1>3, <1>4, <1>6 DEF RowsPass
<1> QED BY <1>3, <1>5, <1>7 DEF ContactsPass

LEMMA NotesMove ==
  ASSUME MemoryInv, [Next]_vars, NEW c \in Customers, NEW n \in Notes
  PROVE  Passes(c, note[n], note'[n])
<1>1. note \in [Notes -> Owner] /\ c # Nobody
  BY RecordsAssumption DEF MemoryInv, OutboxInv, OutboxTypeOK
<1>2. CASE UNCHANGED note
  BY <1>2, NotMoved
<1>3. ASSUME NEW p \in Customers, Merge(p) PROVE Passes(c, note[n], note'[n])
  <2>1. PICK s : s = review[p].candidate
    OBVIOUS
  <2>2. note'[n] = IF note[n] = p THEN s ELSE note[n]
    BY <1>1, <1>3, <2>1 DEF Merge, Moved
  <2> QED BY <1>3, <2>1, <2>2, MergeMoves DEF MemoryInv, Merge
<1>4. ASSUME NEW m \in Notes, NEW d \in Customers, CreateNote(m, d)
      PROVE  Passes(c, note[n], note'[n])
  <2>1. note[n] # c \/ note'[n] = note[n]
    BY <1>1, <1>4 DEF CreateNote
  <2> QED BY <2>1, NotMoved
<1>5. ASSUME NEW w \in Workers, WorkerStep(w) \/ Crash(w) PROVE UNCHANGED note
  BY <1>5 DEF WorkerStep, RecoverStale, Claim, Project, Fails, Complete, GiveBack, SettleRow,
              Restart, Crash
<1>6. ASSUME RecordStep \/ UNCHANGED vars \/ \E m \in Notes : GrowsOld(m) PROVE UNCHANGED note
  BY <1>6 DEF RecordStep, vars, outboxVars, GrowsOld
<1> QED BY <1>2, <1>3, <1>4, <1>5, <1>6 DEF Next

\* What belongs to a customer passes to another one only in its merge, to the
\* one it is merged into, and a merge stays, for any number of runs, staff,
\* notes and workers (merge_service._merge_customers).
THEOREM BelongingsMoveByMerge == Spec => OnlyAMergeMoves
<1> DEFINE Stays == \A c \in Customers :
             /\ Merged(c) => Merged(c)'
             /\ RowsPass(c)
             /\ \A n \in Notes : Passes(c, note[n], note'[n])
             /\ ContactsPass(c)
<1>1. ASSUME MemoryInv, [Next]_vars, NEW c \in Customers PROVE RowsPass(c) /\ ContactsPass(c)
  <2>1. [RecordsNext]_recordVars /\ RecordsInv
    BY <1>1, RecordsAlone DEF MemoryInv
  <2>2. CASE UNCHANGED recordVars
    BY <2>2, NotMoved DEF recordVars, RowsPass, ContactsPass
  <2> QED BY <2>1, <2>2, RunMoves, StaffMove, MergeMovesRows DEF RecordsNext
<1>2. ASSUME MemoryInv, [Next]_vars, NEW c \in Customers PROVE Merged(c) => Merged(c)'
  BY <1>2, RecordsAlone, MergedStays DEF MemoryInv
<1>3. MemoryInv /\ [Next]_vars => Stays
  BY <1>1, <1>2, NotesMove
<1>4. Stays => \A c \in Customers :
          /\ Merged(c) => Merged(c)'
          /\ \A d \in Customers : /\ Passes(c, customer[d].into, customer'[d].into)
                                  /\ Passes(c, lead[d], lead'[d])
                                  /\ Passes(c, document[d], document'[d])
          /\ \A n \in Notes : Passes(c, note[n], note'[n])
          /\ \A k \in Keys : \/ Passes(c, identity[k].holder, identity'[k].holder)
                             \/ identity'[k].holder = Nobody /\ k \in released' /\ edits' > edits
  BY DEF RowsPass, ContactsPass
<1> HIDE DEF Stays
<1> QED BY <1>3, <1>4, MemoryInvariant, PTL DEF Spec, OnlyAMergeMoves
=============================================================================
