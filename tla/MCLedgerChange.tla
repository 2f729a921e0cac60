--------------------------- MODULE MCLedgerChange ---------------------------
(* AIActionLedger for TLC while the world changes under its requests: the     *)
(* data, the policy and the grants of the principal.                          *)
EXTENDS MCAIActionLedger

Used(tools) ==
  \E a \in tools : \/ status[a] # "ABSENT"
                   \/ \E t \in Requests : req[t].action = a
                   \/ \E k \in Keys : claim[<<a, k>>] # "none"

(* Actions share no row: the mutation and the read are explored apart.       *)
OneKindOfTool == ~(Used(Reads) /\ Used(Mutations))

(* A principal that keeps its grants brings every mutation to an outcome or  *)
(* before a human (NoActionHangs); one that lost them cannot call again.     *)
NoGrantedActionHangs == []granted => NoActionHangs
=============================================================================
