-------------------------- MODULE AuthorisedEffect --------------------------
(***************************************************************************)
(* What the action ledger promises about a business mutation: it is first   *)
(* authorised or closed, once and for all, and only an authorised one is    *)
(* ever carried out, once. A FAILED ledger row promises nothing about the   *)
(* effect once execution has begun: such an action stays authorised.        *)
(***************************************************************************)
EXTENDS Naturals

CONSTANT Actions

VARIABLES
  phase,   \* "open", "authorised" or "closed"
  count    \* how often the effect has been carried out

effectVars == <<phase, count>>

Init ==
  /\ phase = [a \in Actions |-> "open"]
  /\ count = [a \in Actions |-> 0]

Authorise(a) ==
  /\ phase[a] = "open"
  /\ phase' = [phase EXCEPT ![a] = "authorised"]
  /\ UNCHANGED count

Close(a) ==
  /\ phase[a] = "open"
  /\ phase' = [phase EXCEPT ![a] = "closed"]
  /\ UNCHANGED count

CarryOut(a) ==
  /\ phase[a] = "authorised" /\ count[a] = 0
  /\ count' = [count EXCEPT ![a] = 1]
  /\ UNCHANGED phase

Next == \E a \in Actions : Authorise(a) \/ Close(a) \/ CarryOut(a)

Spec == Init /\ [][Next]_effectVars
=============================================================================
