------------------------------ MODULE PolicyCases ------------------------------
(***************************************************************************)
(* What a business relies on when it changes its settings: an action with  *)
(* the policy, the settings and the facts it is judged by, and tighter     *)
(* settings.                                                               *)
(***************************************************************************)
EXTENDS AuthorityRules

CONSTANT Cases

VARIABLE case

Limits ==
  [mode : Modes, minimum_margin : Int, maximum_discount : Int, maximum_value : Int, message_limit : Int]

\* The numbers the limits are compared with.
NumbersAre(a, f) ==
  /\ a \in Messages => f.sent_today \in Int
  /\ a \in Commercial => f.margin \in Int \cup {Unknown} /\ f.discount \in Int /\ f.value \in Int

ASSUME CasesAssumption ==
  \A c \in Cases : c.settings \in Limits /\ NumbersAre(c.action, c.facts)

CasesInit == case \in Cases
CasesSpec == CasesInit /\ [][UNCHANGED case]_case

\* Tighter settings: a lower mode, or one limit that allows less.
Tightened(s) ==
  {[s EXCEPT !.mode = m] : m \in {m \in Modes : Freedom(m) <= Freedom(s.mode)}}
    \cup {[s EXCEPT !.minimum_margin = @ + 1], [s EXCEPT !.maximum_discount = @ - 1],
          [s EXCEPT !.maximum_value = @ - 1], [s EXCEPT !.message_limit = @ - 1]}

-----------------------------------------------------------------------------
(* Properties of the rules *)

\* Tighter settings never let the AI do more with the same facts: no order of
\* the checks turns a lower limit into a freer answer (evaluate_policy).
TighterIsNeverFreer ==
  case.action \in Actions =>
    \A s \in Tightened(case.settings) :
      NeverFreer(case.action, s, case.settings, case.policy, case.facts)

\* Two pieces of code judge the thresholds: what the founder's preview shows as
\* allowed within them is allowed when it is done, unless the price is below the
\* floor, which the preview does not look at (AuthorityService.evaluate,
\* evaluate_policy).
PreviewPromisesNoMore ==
  case.action \in Actions => PromiseKept(case.action, case.settings, case.policy, case.facts)
=============================================================================
