--------------------------- MODULE CustomerRecords ---------------------------
(***************************************************************************)
(* Customers, their identities and the reviews that merge them             *)
(* (app/customers, app/database/models/customer.py, the customer edits of  *)
(* app/crm/service.py).                                                    *)
(*                                                                         *)
(* A run of the sales graph resolves the sender of an inquiry to a         *)
(* customer, keeps that customer in its state and writes rows for it later *)
(* on.  Staff answer the match reviews and edit contacts at any time.  The *)
(* reads of a resolution and its commit are two steps: PostgreSQL runs     *)
(* them at READ COMMITTED, and no customer row is locked.                  *)
(***************************************************************************)
EXTENDS Integers, FiniteSets

CONSTANTS
    Customers,   \* runs; the customer a run creates has the run's name
    Nobody,      \* no customer
    Values,      \* normalised identity values
    Missing,     \* no value, or one that does not normalise
    Inquiries,   \* what a sender may say of himself
    Similar,     \* pairs of company names of a ratio of 0.75 or more
    MaxEdits     \* bound: edits of contacts by staff

ExactTypes == {"gstin", "email", "phone"}
Rank == [gstin |-> 1, email |-> 2, phone |-> 3]
Types == ExactTypes \cup {"company_name", "company"}
Keys == Types \X Values

ASSUME RecordsAssumption ==
    /\ Nobody \notin Customers
    /\ Missing \notin Values
    /\ Inquiries \subseteq [ExactTypes \cup {"company_name"} -> Values \cup {Missing}]
    /\ Similar \subseteq Values \X Values
    /\ \A v \in Values : <<v, v>> \in Similar
    /\ MaxEdits \in Nat

VARIABLES
    customer,    \* customers: status and merged_into_customer_id
    identity,    \* customer_identities: one row per type and value
    review,      \* customer_match_reviews, by provisional customer
    run,         \* the runs that resolve a sender
    lead,        \* the customer of the lead of a run
    document,    \* the customer of the rows a run writes later on
    late,        \* history: rows written for a customer merged by then
    released,    \* history: identities staff took away
    edits

recordVars == <<customer, identity, review, run, lead, document, late, released, edits>>

-----------------------------------------------------------------------------
Owner == Customers \cup {Nobody}
CustomerRow == [status : {"none", "active", "provisional", "merged"}, into : Owner]
IdentityRow == [holder : Owner, verified : BOOLEAN, primary : BOOLEAN]
ReviewRow == [status : {"none", "pending", "merged", "kept_separate", "dismissed"},
              candidate : Owner]
RunStates == {"idle", "matched", "resolved", "qualified", "done", "failed"}
RunState == [pc : RunStates,
             customer : Owner, candidate : Owner,
             names : SUBSET Keys, free : SUBSET Keys]

RecordsTypeOK ==
    /\ customer \in [Customers -> CustomerRow]
    /\ identity \in [Keys -> IdentityRow]
    /\ review \in [Customers -> ReviewRow]
    /\ run \in [Customers -> RunState]
    /\ lead \in [Customers -> Owner]
    /\ document \in [Customers -> Owner]
    /\ late \in [identity : SUBSET Keys, lead : SUBSET Customers, document : SUBSET Customers]
    /\ released \subseteq Keys
    /\ edits \in 0..MaxEdits

Free == [holder |-> Nobody, verified |-> FALSE, primary |-> FALSE]

RecordsInit ==
    /\ customer = [c \in Customers |-> [status |-> "none", into |-> Nobody]]
    /\ identity = [k \in Keys |-> Free]
    /\ review = [c \in Customers |-> [status |-> "none", candidate |-> Nobody]]
    /\ run = [r \in Customers |-> [pc |-> "idle", customer |-> Nobody,
                                   candidate |-> Nobody, names |-> {}, free |-> {}]]
    /\ lead = [r \in Customers |-> Nobody]
    /\ document = [r \in Customers |-> Nobody]
    /\ late = [identity |-> {}, lead |-> {}, document |-> {}]
    /\ released = {}
    /\ edits = 0

Merged(c) == customer[c].status = "merged"
IsFree(k) == identity[k].holder = Nobody

-----------------------------------------------------------------------------
(* Resolution of a sender *)

Wanted(q) == {<<t, q[t]>> : t \in {t \in DOMAIN q : q[t] # Missing}}

ExactKeys(q) ==
    {k \in Wanted(q) : k[1] \in ExactTypes /\ ~IsFree(k) /\ identity[k].verified}

ExactHolders(q) == {identity[k].holder : k \in ExactKeys(q)}

FirstExact(q) ==
    LET first == CHOOSE k \in ExactKeys(q) :
                    \A l \in ExactKeys(q) : Rank[k[1]] <= Rank[l[1]]
    IN  identity[first].holder

\* The best match among the names of active customers: an equal name, else
\* any similar one.
CompanyCandidates(q) ==
    LET holder(v) == identity[<<"company_name", v>>].holder
        known == {v \in Values : /\ holder(v) # Nobody
                                 /\ customer[holder(v)].status = "active"
                                 /\ <<q.company_name, v>> \in Similar}
        best == IF q.company_name \in known THEN {q.company_name} ELSE known
    IN  IF q.company_name = Missing THEN {} ELSE {holder(v) : v \in best}

\* One customer holds all known contacts, and is not merged.
MatchExisting(r, q) ==
    /\ run[r].pc = "idle"
    /\ \E c \in Customers :
          /\ ExactHolders(q) = {c}
          /\ customer[c].status \in {"active", "provisional"}
          /\ run' = [run EXCEPT ![r].pc = "matched", ![r].customer = c]
    /\ UNCHANGED <<customer, identity, review, lead, document, late, released, edits>>

\* Otherwise a customer is created: a provisional one with a review when a
\* similar company is known or the contacts point at several customers.
MatchNone(r, q) ==
    LET holders == ExactHolders(q)
        similar == CompanyCandidates(q)
        candidates == IF similar # {} THEN similar
                      ELSE IF Cardinality(holders) > 1 THEN {FirstExact(q)}
                      ELSE {Nobody}
    IN  /\ run[r].pc = "idle"
        /\ ~ \E c \in Customers : /\ holders = {c}
                                  /\ customer[c].status \in {"active", "provisional"}
        /\ \E candidate \in candidates :
              LET names == IF candidate # Nobody /\ holders # {}
                           THEN {k \in Wanted(q) : k[1] \notin ExactTypes}
                           ELSE Wanted(q)
              IN  run' = [run EXCEPT ![r].pc = "matched", ![r].customer = r,
                                     ![r].candidate = candidate,
                                     ![r].names = names,
                                     ![r].free = {k \in names : IsFree(k)}]
        /\ UNCHANGED <<customer, identity, review, lead, document, late, released, edits>>

JoinCustomer(r) ==
    LET c == run[r].customer
    IN  /\ run[r].pc = "matched"
        /\ c # r
        /\ run' = [run EXCEPT ![r].pc = "resolved"]
        /\ lead' = [lead EXCEPT ![r] = c]
        /\ late' = IF Merged(c) THEN [late EXCEPT !.lead = @ \cup {r}] ELSE late
        /\ UNCHANGED <<customer, identity, review, document, released, edits>>

NewStatus(candidate) == IF candidate = Nobody THEN "active" ELSE "provisional"

\* Identities somebody has by now are left out.
CreateCustomer(r) ==
    LET candidate == run[r].candidate
    IN  /\ run[r].pc = "matched"
        /\ run[r].customer = r
        /\ customer' = [customer EXCEPT ![r].status = NewStatus(candidate)]
        /\ identity' = [k \in Keys |->
                            IF k \in run[r].names /\ IsFree(k)
                            THEN [holder |-> r, verified |-> k[1] \in ExactTypes,
                                  primary |-> TRUE]
                            ELSE identity[k]]
        /\ review' = IF candidate = Nobody THEN review
                     ELSE [review EXCEPT ![r] = [status |-> "pending",
                                                 candidate |-> candidate]]
        /\ run' = [run EXCEPT ![r].pc = "resolved"]
        /\ lead' = [lead EXCEPT ![r] = r]
        /\ UNCHANGED <<document, late, released, edits>>

\* An identity that was free when it was looked for belongs to a transaction
\* that committed first: the unique constraint fails the insert.
InsertFails(r) ==
    /\ run[r].pc = "matched"
    /\ \E k \in run[r].free : ~IsFree(k)
    /\ run' = [run EXCEPT ![r].pc = "failed"]
    /\ UNCHANGED <<customer, identity, review, lead, document, late, released, edits>>

\* The profile of a merged customer is not found.
Qualify(r) ==
    /\ run[r].pc = "resolved"
    /\ run' = [run EXCEPT ![r].pc = IF Merged(run[r].customer) THEN "failed"
                                    ELSE "qualified"]
    /\ UNCHANGED <<customer, identity, review, lead, document, late, released, edits>>

\* Quotations, orders, events ... take the customer of the run's state.
RecordDocument(r) ==
    LET c == run[r].customer
    IN  /\ run[r].pc = "qualified"
        /\ run' = [run EXCEPT ![r].pc = "done"]
        /\ document' = [document EXCEPT ![r] = c]
        /\ late' = IF Merged(c) THEN [late EXCEPT !.document = @ \cup {r}] ELSE late
        /\ UNCHANGED <<customer, identity, review, lead, released, edits>>

-----------------------------------------------------------------------------
(* Staff *)

MutantUnanswered(p) == review[p].status # "none"
Unanswered(p) == review[p].status = "pending"

MutantMoved(owner, p, c) == owner
Moved(owner, p, c) == [x \in DOMAIN owner |-> IF owner[x] = p THEN c ELSE owner[x]]

HandedOver(k, c) == [identity[k] EXCEPT !.holder = c]

MergeCustomers(p) ==
    LET c == review[p].candidate
    IN  /\ Unanswered(p)
        /\ identity' = [k \in Keys |-> IF identity[k].holder = p THEN HandedOver(k, c)
                                       ELSE identity[k]]
        /\ lead' = Moved(lead, p, c)
        /\ document' = Moved(document, p, c)
        /\ customer' = [x \in Customers |->
                            IF x = p THEN [status |-> "merged", into |-> c]
                            ELSE IF customer[x].into = p
                                 THEN [customer[x] EXCEPT !.into = c]
                                 ELSE customer[x]]
        /\ review' = [review EXCEPT ![p].status = "merged"]
        /\ UNCHANGED <<run, late, released, edits>>

KeepSeparate(p) ==
    /\ Unanswered(p)
    /\ customer' = [customer EXCEPT ![p].status = "active"]
    /\ review' = [review EXCEPT ![p].status = "kept_separate"]
    /\ UNCHANGED <<identity, run, lead, document, late, released, edits>>

DismissReview(p) ==
    /\ Unanswered(p)
    /\ review' = [review EXCEPT ![p].status = "dismissed"]
    /\ UNCHANGED <<customer, identity, run, lead, document, late, released, edits>>

Primary(c, t) == {v \in Values : /\ identity[<<t, v>>].holder = c
                                 /\ identity[<<t, v>>].primary}

CanEdit(c) == customer[c].status # "none" /\ edits < MaxEdits

ClearContact(c, t) ==
    /\ CanEdit(c)
    /\ \E v \in Primary(c, t) :
          /\ identity' = [identity EXCEPT ![<<t, v>>] = Free]
          /\ released' = released \cup {<<t, v>>}
    /\ edits' = edits + 1
    /\ UNCHANGED <<customer, review, run, lead, document, late>>

\* A value another customer has is refused; one this customer has twice
\* breaks the unique constraint.  A changed row keeps its verification.
EditContact(c, t, v) ==
    /\ CanEdit(c)
    /\ IsFree(<<t, v>>)
    /\ \/ /\ Primary(c, t) = {}
          /\ identity' = [identity EXCEPT ![<<t, v>>] =
                             [holder |-> c, verified |-> FALSE, primary |-> TRUE]]
          /\ UNCHANGED released
       \/ \E u \in Primary(c, t) :
             /\ identity' = [identity EXCEPT ![<<t, v>>] = identity[<<t, u>>],
                                             ![<<t, u>>] = Free]
             /\ released' = released \cup {<<t, u>>}
    /\ late' = IF Merged(c) THEN [late EXCEPT !.identity = @ \cup {<<t, v>>}] ELSE late
    /\ edits' = edits + 1
    /\ UNCHANGED <<customer, review, run, lead, document>>

-----------------------------------------------------------------------------
RunStep ==
    \E r \in Customers :
        \/ \E q \in Inquiries : MatchExisting(r, q) \/ MatchNone(r, q)
        \/ JoinCustomer(r)
        \/ CreateCustomer(r)
        \/ InsertFails(r)
        \/ Qualify(r)
        \/ RecordDocument(r)

StaffStep ==
    \E c \in Customers :
        \/ KeepSeparate(c)
        \/ DismissReview(c)
        \/ \E t \in ExactTypes \cup {"company"} :
              ClearContact(c, t) \/ \E v \in Values : EditContact(c, t, v)

RecordsNext ==
    \/ RunStep
    \/ StaffStep
    \/ \E p \in Customers : MergeCustomers(p)

RecordsSpec == RecordsInit /\ [][RecordsNext]_recordVars

-----------------------------------------------------------------------------
(* Properties *)

\* A review and its customer agree: a provisional customer waits for its
\* review or was dismissed with it, and a customer is merged exactly by its
\* own review, into a customer that exists
\* (merge_service.resolve_customer_match_review).
ReviewMatchesCustomer ==
    \A c \in Customers :
        /\ review[c].status = "pending" => customer[c].status = "provisional"
        /\ customer[c].status = "provisional" => review[c].status \in {"pending", "dismissed"}
        /\ review[c].status = "kept_separate" => customer[c].status = "active"
        /\ Merged(c) <=> review[c].status = "merged"
        /\ Merged(c) => /\ customer[c].into \in Customers \ {c}
                        /\ customer[customer[c].into].status # "none"

\* A merge leaves nothing at its source: what a merged customer still has was
\* written for it after its merge by somebody who had read it before, or was
\* brought by a second merge into it (merge_service._merge_customers).
MergeTakesAll ==
    \A c \in Customers :
        Merged(c) =>
            \/ \E p \in Customers : customer[p].into = c
            \/ /\ \A k \in Keys : identity[k].holder = c => k \in late.identity
               /\ \A r \in Customers :
                     /\ lead[r] = c => r \in late.lead
                     /\ document[r] = c => r \in late.document

\* A contact a customer was created with is never lost: whatever is merged,
\* some customer has it, unless staff took it away
\* (identity_resolver._add_identities, merge_service._merge_customers).
ContactKept ==
    \A r \in Customers :
        lead[r] # Nobody =>
            \A k \in run[r].names : ~IsFree(k) \/ k \in released

\* What belongs to a customer survives its merge (merge_service._merge_customers).
MergeLosesNothing == MergeTakesAll /\ ContactKept

\* "The identity-resolution flow decides whether the customers should be
\* matched or manually reviewed" (identity_resolver.py:150): a customer created
\* without a review got every identity it was to have.
SkippedIdentityIsDecided ==
    [][\A r \in Customers :
          (customer[r].status = "none" /\ customer'[r].status = "active") =>
              \A k \in run[r].names : identity'[k].holder = r]_recordVars
=============================================================================
