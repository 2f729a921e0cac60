-------------------------- MODULE MCAIActionLedger --------------------------
(* Instances of AIActionLedger for TLC.                                       *)
EXTENDS AIActionLedger, TLC

CONSTANTS d1, d2

(* Every data value and version needs a human approval. *)
ApprovalPolicy == [x \in DataValues \X Versions |-> "REQUIRE_APPROVAL"]

(* Data decides under the first version; the next versions shut the action down. *)
MixedPolicy ==
  [x \in DataValues \X Versions |->
     IF x[2] > 1 THEN IF x[1] = d1 THEN "DENY" ELSE "BLOCKED_MASTER_DATA"
     ELSE IF x[1] = d1 THEN "REQUIRE_APPROVAL" ELSE "ALLOW"]

RequestSymmetry == Permutations(Requests)
=============================================================================
