--------------------------- MODULE MCMemoryOutbox ---------------------------
(* The customer records and the memory outbox for TLC, in three parts: the   *)
(* records with four runs, the records with two runs and an edit, and the    *)
(* outbox beside two runs.  Senders: two of one company, a telephone, and a  *)
(* message that names contacts of two customers.                             *)
EXTENDS MemoryOutbox

CONSTANTS v1, v2, Few

VARIABLE part

Sender(email, phone, company) ==
    [gstin |-> Missing, email |-> email, phone |-> phone, company_name |-> company]

MCInquiries == {Sender(v1, Missing, v1), Sender(v2, Missing, v2),
                Sender(Missing, v1, Missing), Sender(v2, v1, Missing)}
MCSimilar == Values \X Values

\* Runs are numbered in the order in which they start.
InOrder == \A r, s \in Customers : r < s /\ run[r].pc = "idle" => run[s].pc = "idle"

\* At most two runs are under way at a time.
TwoAtATime ==
    Cardinality({r \in Customers : run[r].pc \in {"matched", "resolved", "qualified"}}) <= 2

OnlyFew(states) ==
    \A r \in Customers : run[r].pc \in IF r \in Few THEN states ELSE {"idle"}

MCInit == Init /\ part \in {"records", "edits", "memory"}

Records == RecordStep \/ \E p \in Customers : Merge(p)

RecordsPart == part = "records" /\ Records /\ TwoAtATime' /\ edits' = 0

EditsPart == part = "edits" /\ Records /\ OnlyFew(RunStates)'

MemoryPart ==
    /\ part = "memory"
    /\ Next
    /\ OnlyFew({"idle", "matched", "resolved"})'
    /\ \A k \in Keys : k[1] = "phone" => identity'[k] = Free
    /\ edits' = 0

MCNext == (RecordsPart \/ EditsPart \/ MemoryPart) /\ InOrder' /\ UNCHANGED part

MCSpec ==
    /\ MCInit /\ [][MCNext]_<<vars, part>>
    /\ \A w \in Workers : WF_vars(part = "memory" /\ WorkerStep(w))
=============================================================================
