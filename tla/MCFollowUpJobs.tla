--------------------------- MODULE MCFollowUpJobs ---------------------------
(* FollowUpJobs for TLC: calm workers, whose jobs must settle, and workers    *)
(* that crash while operators revive what they buried.                        *)
EXTENDS FollowUpJobs

VARIABLE part

PartInit ==
  /\ Init /\ part \in {"calm", "rough"}
  /\ part = "rough" => quotation = "draft"

(* A thread that is won is to calm workers what one is that was closed. *)
CalmNext == Calm /\ "won" \notin lead'

RoughNext ==
  /\ Next
  /\ \A j \in Followups : job'[j].attempts <= 2

PartNext ==
  /\ \/ part = "calm" /\ CalmNext
     \/ part = "rough" /\ RoughNext
  /\ UNCHANGED part

PartSpec == PartInit /\ [][PartNext]_<<vars, part>> /\ Fairness

(* Without crashes and without operators who retry them, jobs settle         *)
(* (EveryFollowUpSettles).                                                   *)
FollowUpsSettleWhenCalm == part = "calm" => EveryFollowUpSettles
=============================================================================
