------------------------- MODULE Administration_proofs -------------------------
(***************************************************************************)
(* What administrators lay down, while other calls read it: the versions   *)
(* that say what the AI may do, and the master data it decides from.       *)
(*                                                                         *)
(* The authority of the AI stays in order while administrators change it   *)
(* and evaluations run: ControlInv is inductive.  An approval names the    *)
(* versions and the facts its evaluation has read; that it asks for what   *)
(* those leave to a human holds because versions are only added, which in  *)
(* turn needs that one call at a time commits the first of them.           *)
(*                                                                         *)
(* Uploads need no lock for what is in effect afterwards, for any number   *)
(* of them, of keys and of files: an import carries with it which rows it  *)
(* saw, and what it did not see was committed beside it.                   *)
(***************************************************************************)
EXTENDS AuthorityControl, PolicyCases, StructuredDocuments,
        FiniteSetTheorems, NaturalsInduction, WellFoundedInduction, TLAPS

-----------------------------------------------------------------------------
(* The inductive invariant.  No property speaks of calls that initialise the  *)
(* business, of administrators at work or of evaluations half done; each part *)
(* says what such a step may rely on.                                         *)

(* One call at a time commits the defaults, and finds nothing before.         *)
Started ==
  /\ settings = << >> <=> policy = << >>
  /\ \A i \in Starters : starter[i] = "commit" => settings = << >>
  /\ \A i, j \in Starters : starter[i] = "commit" /\ starter[j] = "commit" => i = j

Bounded ==
  Len(settings) <= MaxVersions /\ Len(policy) <= MaxVersions /\ Len(approvals) <= MaxApprovals

(* An administrator publishes where there is a version, and writes a scope.   *)
AdminsKnow ==
  \A u \in Admins : /\ admin[u].pc \in {"grant", "revoke"} => admin[u].scope \in Scopes
                    /\ admin[u].pc = "settings" => settings # << >>
                    /\ admin[u].pc = "policy" => policy # << >>

(* What an evaluation has read exists, and it decides with all of it.         *)
EvaluationsKnow ==
  \A e \in Evaluators :
    /\ evaluation[e].settings <= Len(settings) /\ evaluation[e].policy <= Len(policy)
    /\ evaluation[e].pc # "idle" => evaluation[e].facts \in Facts
    /\ evaluation[e].pc = "decide" => /\ evaluation[e].active
                                      /\ evaluation[e].settings > 0 /\ evaluation[e].policy > 0

(* An approval is answered before it is used, and is closed by its use.       *)
Orderly(a) ==
  /\ a.status = "PENDING" => a.at = 0
  /\ a.status \in {"APPROVED", "CONSUMED"} => a.at > 0
  /\ a.status # "CONSUMED" => a.uses = 0
  /\ a.uses <= 1

ApprovalsKnow ==
  \A i \in DOMAIN approvals : /\ Orderly(approvals[i])
                              /\ approvals[i].settings <= Len(settings)
                              /\ approvals[i].policy <= Len(policy)

(* The principal of an evaluation that began too late stays revoked.          *)
LateKnows ==
  \A e \in Evaluators : evaluation[e].late =>
    /\ principal.status = "revoked" /\ evaluation[e].result \in {"none", "DENY"}
    /\ evaluation[e].pc \in {"policy", "scope"} => ~ evaluation[e].active
    /\ evaluation[e].pc # "decide"

ControlInv ==
  /\ AuthorityTypeOK /\ Started /\ Bounded /\ AdminsKnow /\ EvaluationsKnow /\ ApprovalsKnow
  /\ NothingOverwritten /\ ApprovalsAreAskedFor /\ LateKnows

(* The invariant gives the three properties.                                  *)
LEMMA ControlSuffices == ControlInv => AuthorityInv /\ ApprovalsAreAskedFor /\ RevokedIsPowerless
<1> SUFFICES ASSUME ControlInv PROVE AuthorityInv /\ ApprovalsAreAskedFor /\ RevokedIsPowerless
  OBVIOUS
<1>1. ConsumedOnce
  BY DEF ControlInv, ApprovalsKnow, Orderly, ConsumedOnce
<1>2. RevokedIsPowerless
  BY DEF ControlInv, LateKnows, RevokedIsPowerless
<1>3. QED BY <1>1, <1>2 DEF ControlInv, AuthorityInv

-----------------------------------------------------------------------------
(* The rules answer with an outcome, whatever they are given.                 *)
LEMMA RulesAnswer == ASSUME NEW a, NEW s, NEW v, NEW f PROVE EvaluatePolicy(a, s, v, f) \in Outcomes
<1> DEFINE Verdicts == Outcomes \cup {"pass"}
<1>1. MessageVerdict(s, f) \in Verdicts /\ CommercialVerdict(a, s, f) \in Verdicts
  BY DEF MessageVerdict, CommercialVerdict, Outcomes
<1>2. OrderVerdict(f) \in Verdicts /\ MergeVerdict(f) \in Verdicts
  BY DEF OrderVerdict, MergeVerdict, Outcomes
<1>3. SalesOrderVerdict(f) \in Verdicts
  BY <1>2 DEF SalesOrderVerdict, Outcomes
<1>4. CreditVerdict(f) \in Verdicts /\ DealVerdict(a, f) \in Verdicts
  BY DEF CreditVerdict, DealVerdict, Outcomes
<1>5. Verdict(a, s, f) \in Verdicts
  <2> HIDE DEF Verdicts
  <2>1. "pass" \in Verdicts
    BY DEF Verdicts
  <2>2. QED BY <1>1, <1>2, <1>3, <1>4, <2>1 DEF Verdict
<1>6. QED BY <1>5 DEF EvaluatePolicy, Outcomes

(* Among approvals with numbers one has the highest.                         *)
LEMMA HighestExists ==
  ASSUME NEW N \in Nat, NEW S, NEW at, \A i \in S : at[i] \in 0 .. N, S # {}
  PROVE  \E i \in S : \A j \in S : at[j] <= at[i]
<1> DEFINE T == {N - at[i] : i \in S}
<1>1. T \subseteq Nat /\ T # {}
  OBVIOUS
<1>2. \E x \in T : \A y \in T : <<y, x>> \notin OpToRel(<, Nat)
  <2>1. IsWellFoundedOn(OpToRel(<, Nat), Nat)
    BY NatLessThanWellFounded
  <2> HIDE DEF T
  <2>2. QED BY <1>1, <2>1, WFMin
<1>3. PICK i \in S : \A y \in T : <<y, N - at[i]>> \notin OpToRel(<, Nat)
  BY <1>2
<1>4. ASSUME NEW j \in S PROVE at[j] <= at[i]
  <2>1. N - at[j] \in T /\ N - at[j] \in Nat /\ N - at[i] \in Nat
    OBVIOUS
  <2>2. <<N - at[j], N - at[i]>> \notin OpToRel(<, Nat)
    BY <1>3, <2>1
  <2>3. ASSUME NEW x \in Nat, NEW y \in Nat, x < y PROVE <<x, y>> \in OpToRel(<, Nat)
    BY <2>3 DEF OpToRel
  <2>4. ~ (N - at[j] < N - at[i])
    BY <2>1, <2>2, <2>3
  <2>5. QED BY <2>4
<1>5. QED BY <1>4

-----------------------------------------------------------------------------
(* The rules, whatever numbers a business lays down                           *)

(* A narrower limit leaves a verdict, denies, or asks where nothing was       *)
(* asked.                                                                     *)
LEMMA VerdictTightens ==
  ASSUME NEW a, NEW s \in Limits, NEW t \in Limits, Tighter(s, t), NEW f, NumbersAre(a, f)
  PROVE  \/ Verdict(a, s, f) = Verdict(a, t, f) \/ Verdict(a, s, f) = "DENY"
         \/ Verdict(a, s, f) = "REQUIRE_APPROVAL" /\ Verdict(a, t, f) = "pass"
<1>1. CASE a \in Messages
  <2>1. Verdict(a, s, f) = MessageVerdict(s, f) /\ Verdict(a, t, f) = MessageVerdict(t, f)
    BY <1>1 DEF Verdict, Messages, Commercial, Orders, Credits, Deals
  <2>2. f.sent_today >= t.message_limit => f.sent_today >= s.message_limit
    BY <1>1 DEF Limits, Tighter, NumbersAre
  <2>3. QED BY <2>1, <2>2 DEF MessageVerdict
<1>2. CASE a \in Commercial
  <2>1. Verdict(a, s, f) = CommercialVerdict(a, s, f) /\ Verdict(a, t, f) = CommercialVerdict(a, t, f)
    BY <1>2 DEF Verdict, Messages, Commercial, Orders, Credits, Deals
  <2>2. OverLimit(a, t, f) => OverLimit(a, s, f)
    BY <1>2, RulesAssumption DEF Limits, Tighter, NumbersAre, OverLimit
  <2>3. QED BY <2>1, <2>2 DEF CommercialVerdict
<1>3. CASE a \notin Messages \cup Commercial
  BY <1>3 DEF Verdict
<1>4. QED BY <1>1, <1>2, <1>3

(* A lower mode forbids no less.                                              *)
LEMMA TighterForbids ==
  ASSUME NEW a, NEW s \in Limits, NEW t \in Limits, Tighter(s, t), NEW v
  PROVE  Forbidden(a, t, v) => Forbidden(a, s, v)
  BY DEF Limits, Tighter, Forbidden, Freedom, Modes

(* Tighter settings never let the AI do more with the same facts: no order of *)
(* the checks turns a lower limit into a freer answer (evaluate_policy).      *)
THEOREM TighterSettingsAreNeverFreer ==
  ASSUME NEW a, NEW s \in Limits, NEW t \in Limits, Tighter(s, t), NEW v,
         NEW f, NumbersAre(a, f)
  PROVE  NeverFreer(a, s, t, v, f)
<1>1. PICK x, y : x = Verdict(a, s, f) /\ y = Verdict(a, t, f)
  OBVIOUS
<1>2. x = y \/ x = "DENY" \/ (x = "REQUIRE_APPROVAL" /\ y = "pass")
  BY <1>1, VerdictTightens
<1>3. Forbidden(a, t, v) => Forbidden(a, s, v)
  BY TighterForbids
<1>4. EvaluatePolicy(a, s, v, f) \in Outcomes /\ EvaluatePolicy(a, t, v, f) \in Outcomes
  BY RulesAnswer
<1>5. /\ Rank["ALLOW"] = 3 /\ Rank["REQUIRE_APPROVAL"] = 2 /\ Rank["DENY"] = 0
      /\ \A o \in Outcomes : Rank[o] \in 0 .. 3
  BY DEF Rank, Outcomes
<1>6. \/ EvaluatePolicy(a, s, v, f) = EvaluatePolicy(a, t, v, f)
      \/ EvaluatePolicy(a, s, v, f) = "DENY" \/ EvaluatePolicy(a, t, v, f) = "ALLOW"
      \/ EvaluatePolicy(a, s, v, f) = "REQUIRE_APPROVAL" /\ EvaluatePolicy(a, t, v, f) = "REQUIRE_APPROVAL"
  BY <1>1, <1>2, <1>3 DEF EvaluatePolicy
<1>7. QED BY <1>4, <1>5, <1>6 DEF NeverFreer

(* What the preview shows as allowed within the thresholds is allowed.        *)
THEOREM PreviewsAreKept ==
  ASSUME NEW a, NEW s \in Limits, NEW v, NEW f, NumbersAre(a, f)
  PROVE  PromiseKept(a, s, v, f)
<1> SUFFICES ASSUME a \in Commercial, v.mode = "threshold_auto", f.missing = "none", ~ BelowFloor(f),
                    Preview(a, s, v, f) = "allow"
             PROVE  EvaluatePolicy(a, s, v, f) = "ALLOW"
  BY DEF PromiseKept
<1>1. s.mode \notin {"recommend_only", "prepare_only"} /\ WithinThreshold(a, s, f)
  BY DEF Preview
<1>2. ~ OverLimit(a, s, f)
  BY <1>1, RulesAssumption DEF WithinThreshold, Number, OverLimit, Limits, NumbersAre
<1>3. Verdict(a, s, f) = "pass"
  BY <1>2 DEF Verdict, CommercialVerdict, Messages, Commercial, Orders, Credits, Deals
<1>4. ~ Forbidden(a, s, v)
  BY <1>1 DEF Forbidden
<1>5. QED BY <1>3, <1>4 DEF EvaluatePolicy

(* What TLC tightens is tighter.                                              *)
LEMMA TightenedIsTighter ==
  ASSUME NEW t \in Limits, NEW s \in Tightened(t)
  PROVE  s \in Limits /\ Tighter(s, t)
<1>1. /\ t.mode \in Modes /\ t.minimum_margin \in Int /\ t.maximum_discount \in Int
      /\ t.maximum_value \in Int /\ t.message_limit \in Int
  BY DEF Limits
<1>2. Freedom(t.mode) <= Freedom(t.mode)
  BY <1>1 DEF Freedom, Modes
<1>3. CASE \E m \in Modes : Freedom(m) <= Freedom(t.mode) /\ s = [t EXCEPT !.mode = m]
  <2>1. PICK m \in Modes : Freedom(m) <= Freedom(t.mode) /\ s = [t EXCEPT !.mode = m]
    BY <1>3
  <2>2. s \in Limits /\ s.mode = m /\ s.minimum_margin = t.minimum_margin
        /\ s.maximum_discount = t.maximum_discount /\ s.maximum_value = t.maximum_value
        /\ s.message_limit = t.message_limit
    BY <2>1 DEF Limits
  <2>3. QED BY <1>1, <2>1, <2>2 DEF Tighter
<1>4. CASE \/ s = [t EXCEPT !.minimum_margin = @ + 1] \/ s = [t EXCEPT !.maximum_discount = @ - 1]
           \/ s = [t EXCEPT !.maximum_value = @ - 1] \/ s = [t EXCEPT !.message_limit = @ - 1]
  <2>1. s \in Limits /\ s.mode = t.mode
    BY <1>1, <1>4 DEF Limits
  <2>2. /\ s.minimum_margin >= t.minimum_margin /\ s.maximum_discount <= t.maximum_discount
        /\ s.maximum_value <= t.maximum_value /\ s.message_limit <= t.message_limit
    BY <1>1, <1>4 DEF Limits
  <2>3. QED BY <1>2, <2>1, <2>2 DEF Tighter
<1>5. QED BY <1>3, <1>4 DEF Tightened

(* A case stays what it is.                                                   *)
LEMMA CasesStay == CasesSpec => [](case \in Cases)
<1>1. CasesInit => case \in Cases
  BY DEF CasesInit
<1>2. case \in Cases /\ [UNCHANGED case]_case => (case \in Cases)'
  OBVIOUS
<1>3. QED BY <1>1, <1>2, PTL DEF CasesSpec

(* Of every case TLC may be given: tighter settings are never freer, whatever *)
(* the policy and the facts (evaluate_policy).                                *)
THEOREM CasesTighten == CasesSpec => []TighterIsNeverFreer
<1>1. case \in Cases => TighterIsNeverFreer
  <2>1. SUFFICES ASSUME case \in Cases, NEW s \in Tightened(case.settings)
                 PROVE  NeverFreer(case.action, s, case.settings, case.policy, case.facts)
    BY DEF TighterIsNeverFreer
  <2>2. PICK a, t, v, f : /\ a = case.action /\ t = case.settings /\ v = case.policy /\ f = case.facts
    OBVIOUS
  <2>3. t \in Limits /\ NumbersAre(a, f) /\ s \in Limits /\ Tighter(s, t)
    BY <2>1, <2>2, CasesAssumption, TightenedIsTighter
  <2>4. NeverFreer(a, s, t, v, f)
    BY <2>3, TighterSettingsAreNeverFreer
  <2>5. QED BY <2>2, <2>4
<1>2. QED BY <1>1, CasesStay, PTL

(* Of every case: what the preview shows as allowed within the thresholds is  *)
(* allowed (AuthorityService.evaluate, evaluate_policy).                      *)
THEOREM CasesKeepPreviews == CasesSpec => []PreviewPromisesNoMore
<1>1. case \in Cases => PreviewPromisesNoMore
  <2>1. SUFFICES ASSUME case \in Cases PROVE PromiseKept(case.action, case.settings, case.policy, case.facts)
    BY DEF PreviewPromisesNoMore
  <2>2. PICK a, t, v, f : /\ a = case.action /\ t = case.settings /\ v = case.policy /\ f = case.facts
    OBVIOUS
  <2>3. t \in Limits /\ NumbersAre(a, f)
    BY <2>1, <2>2, CasesAssumption
  <2>4. PromiseKept(a, t, v, f)
    BY <2>3, PreviewsAreKept
  <2>5. QED BY <2>2, <2>4
<1>2. QED BY <1>1, CasesStay, PTL

-----------------------------------------------------------------------------
(* What is published stays published.                                         *)
Grows(h, g) == Len(h) <= Len(g) /\ \A n \in DOMAIN h : g[n] = h[n]

ConfigGrows ==
  /\ Grows(settings, settings') /\ Grows(policy, policy')
  /\ settings' \in Seq(Versions(SettingsValues)) /\ policy' \in Seq(Versions(PolicyValues))

(* Approvals stay what they are when versions are added.                      *)
LEMMA ApprovalsKept ==
  ASSUME ControlInv, ConfigGrows, UNCHANGED approvals
  PROVE  ApprovalsKnow' /\ ApprovalsAreAskedFor'
<1>1. /\ settings \in Seq(Versions(SettingsValues)) /\ policy \in Seq(Versions(PolicyValues))
      /\ approvals \in Seq(Approvals)
  BY DEF ControlInv, AuthorityTypeOK
<1>2. ASSUME NEW i \in DOMAIN approvals
      PROVE  /\ approvals[i].settings \in DOMAIN settings /\ approvals[i].policy \in DOMAIN policy
             /\ approvals[i].settings <= Len(settings') /\ approvals[i].policy <= Len(policy')
  <2>1. approvals[i] \in Approvals
    BY <1>1
  <2>2. approvals[i].settings \in Nat \ {0} /\ approvals[i].policy \in Nat \ {0}
    BY <2>1 DEF Approvals
  <2>3. approvals[i].settings <= Len(settings) /\ approvals[i].policy <= Len(policy)
    BY DEF ControlInv, ApprovalsKnow
  <2>4. Len(settings) <= Len(settings') /\ Len(policy) <= Len(policy')
    BY DEF ConfigGrows, Grows
  <2>5. Len(settings) \in Nat /\ Len(policy) \in Nat /\ Len(settings') \in Nat /\ Len(policy') \in Nat
    BY <1>1 DEF ConfigGrows
  <2>6. QED BY <1>1, <2>2, <2>3, <2>4, <2>5
<1>3. ApprovalsKnow'
  BY <1>2 DEF ControlInv, ApprovalsKnow
<1>4. ASSUME NEW i \in DOMAIN approvals
      PROVE  EvaluatePolicy(Action, settings'[approvals[i].settings].value,
                            policy'[approvals[i].policy].value, approvals[i].facts) = "REQUIRE_APPROVAL"
  <2>1. /\ settings'[approvals[i].settings] = settings[approvals[i].settings]
        /\ policy'[approvals[i].policy] = policy[approvals[i].policy]
    BY <1>2 DEF ConfigGrows, Grows
  <2>2. QED BY <2>1 DEF ControlInv, ApprovalsAreAskedFor
<1>5. QED BY <1>3, <1>4 DEF ApprovalsAreAskedFor

(* Evaluations under way still know what they have read.                      *)
LEMMA EvaluationsKept ==
  ASSUME ControlInv, ConfigGrows, UNCHANGED evaluation
  PROVE  EvaluationsKnow'
<1>1. ASSUME NEW e \in Evaluators
      PROVE  evaluation[e].settings <= Len(settings') /\ evaluation[e].policy <= Len(policy')
  <2>1. evaluation[e].settings \in Nat /\ evaluation[e].policy \in Nat
    BY DEF ControlInv, AuthorityTypeOK
  <2>2. evaluation[e].settings <= Len(settings) /\ evaluation[e].policy <= Len(policy)
    BY DEF ControlInv, EvaluationsKnow
  <2>3. /\ Len(settings) <= Len(settings') /\ Len(policy) <= Len(policy')
        /\ settings \in Seq(Versions(SettingsValues)) /\ policy \in Seq(Versions(PolicyValues))
    BY DEF ConfigGrows, Grows, ControlInv, AuthorityTypeOK
  <2>4. Len(settings) \in Nat /\ Len(policy) \in Nat /\ Len(settings') \in Nat /\ Len(policy') \in Nat
    BY <2>3 DEF ConfigGrows
  <2>5. QED BY <2>1, <2>2, <2>3, <2>4
<1>2. QED BY <1>1 DEF ControlInv, EvaluationsKnow

(* Nothing revoked becomes active again.                                      *)
LEMMA LateKept ==
  ASSUME ControlInv, UNCHANGED evaluation, principal.status = "revoked" => principal'.status = "revoked"
  PROVE  LateKnows'
  BY DEF ControlInv, LateKnows

(* A version is published over the one before it.                             *)
Published(h, values) ==
  /\ h \in Seq(Versions(values)) /\ Len(h) <= MaxVersions
  /\ \A n \in DOMAIN h : h[n].seen = n - 1

(* It is one more version, over those there are.                              *)
LEMMA PublishedOn ==
  ASSUME NEW values, NEW h, Published(h, values), NEW value \in values, Len(h) < MaxVersions,
         NEW g, g = Append(h, Version(value, Len(h)))
  PROVE  Published(g, values) /\ Grows(h, g) /\ g # << >>
<1> USE DEF Published
<1>1. Version(value, Len(h)) \in Versions(values) /\ Version(value, Len(h)).seen = Len(h)
  BY ControlAssumption DEF Version, Versions
<1>2. g \in Seq(Versions(values)) /\ Len(g) = Len(h) + 1 /\ DOMAIN g = 1 .. Len(h) + 1 /\ DOMAIN h = 1 .. Len(h)
  BY <1>1
<1>3. (\A n \in DOMAIN h : g[n] = h[n]) /\ g[Len(h) + 1] = Version(value, Len(h))
  BY <1>1, <1>2
<1>4. Len(h) \in Nat /\ MaxVersions \in Nat
  BY ControlAssumption
<1>5. ASSUME NEW n \in DOMAIN g PROVE g[n].seen = n - 1
  <2>1. CASE n \in DOMAIN h
    BY <1>3, <2>1
  <2>2. CASE n = Len(h) + 1
    BY <1>1, <1>3, <1>4, <2>2
  <2>3. QED BY <1>2, <1>4, <2>1, <2>2
<1>6. QED BY <1>2, <1>3, <1>4, <1>5 DEF Grows

AdminType == [pc : {"idle", "settings", "policy", "grant", "revoke"},
              seen : 0 .. MaxVersions, scope : Scopes \cup {Unknown}]

(* An administrator at rest is typed.                                         *)
LEMMA OffTyped == Off \in AdminType
  BY ControlAssumption DEF Off, AdminType

(* An administrator goes on, beside what he changes.                          *)
LEMMA AdminNext ==
  ASSUME ControlInv, NEW u \in Admins, NEW to \in AdminType, AdminMoves(u, to), ConfigGrows,
         settings' = << >> <=> settings = << >>, policy' = << >> <=> policy = << >>,
         Len(settings') <= MaxVersions, Len(policy') <= MaxVersions, NothingOverwritten',
         principal' \in [status : {"absent", "active", "revoked"}, scopes : SUBSET Scopes],
         principal.status = "revoked" => principal'.status = "revoked",
         to.pc \in {"grant", "revoke"} => to.scope \in Scopes,
         to.pc = "settings" => settings # << >>, to.pc = "policy" => policy # << >>
  PROVE  ControlInv'
<1>1. admin \in [Admins -> AdminType]
  BY DEF ControlInv, AuthorityTypeOK, AdminType
<1>2. /\ admin' = [admin EXCEPT ![u] = to]
      /\ UNCHANGED starter /\ UNCHANGED evaluation /\ UNCHANGED approvals
  BY DEF AdminMoves
<1>3. admin' \in [Admins -> AdminType]
  BY <1>1, <1>2
<1>4. AuthorityTypeOK'
  BY <1>2, <1>3 DEF ControlInv, AuthorityTypeOK, ConfigGrows, AdminType
<1>5. Started'
  BY <1>2 DEF ControlInv, Started
<1>6. Bounded'
  BY <1>2 DEF ControlInv, Bounded
<1>7. AdminsKnow'
  BY <1>1, <1>2 DEF ControlInv, AdminsKnow
<1>8. EvaluationsKnow' /\ ApprovalsKnow' /\ ApprovalsAreAskedFor' /\ LateKnows'
  BY <1>2, EvaluationsKept, ApprovalsKept, LateKept
<1>9. QED BY <1>4, <1>5, <1>6, <1>7, <1>8 DEF ControlInv

(* Settings and policies that are not changed stay in order.                  *)
LEMMA ConfigStays ==
  ASSUME ControlInv, UNCHANGED config
  PROVE  /\ ConfigGrows /\ settings' = settings /\ policy' = policy
         /\ settings' \in Seq(Versions(SettingsValues)) /\ policy' \in Seq(Versions(PolicyValues))
         /\ Len(settings') <= MaxVersions /\ Len(policy') <= MaxVersions /\ NothingOverwritten'
<1>1. settings' = settings /\ policy' = policy
  BY DEF config
<1>2. QED BY <1>1 DEF ControlInv, AuthorityTypeOK, Bounded, NothingOverwritten, ConfigGrows, Grows

(* Settings or policies are published.                                        *)
LEMMA UpdateNext ==
  ASSUME ControlInv, NEW u \in Admins, UpdateSettings(u) \/ UpdatePolicy(u)
  PROVE  ControlInv'
<1>1. /\ settings \in Seq(Versions(SettingsValues)) /\ policy \in Seq(Versions(PolicyValues))
      /\ \A n \in DOMAIN settings : settings[n].seen = n - 1
      /\ \A n \in DOMAIN policy : policy[n].seen = n - 1
      /\ Len(settings) <= MaxVersions /\ Len(policy) <= MaxVersions
      /\ admin[u].pc = "settings" => settings # << >>
      /\ admin[u].pc = "policy" => policy # << >>
  BY DEF ControlInv, AuthorityTypeOK, NothingOverwritten, Bounded, AdminsKnow
<1>2. AdminMoves(u, Off) /\ principal' = principal
  BY DEF UpdateSettings, UpdatePolicy
<1>3. CASE UpdateSettings(u)
  <2>1. policy' = policy /\ admin[u].pc = "settings"
    BY <1>3 DEF UpdateSettings
  <2>2. /\ settings' \in Seq(Versions(SettingsValues)) /\ Grows(settings, settings')
        /\ Len(settings') <= MaxVersions /\ settings' # << >>
        /\ \A n \in DOMAIN settings' : settings'[n].seen = n - 1
    <3>1. CASE settings' = settings
      BY <1>1, <2>1, <3>1 DEF Grows
    <3>2. CASE settings' # settings
      <4>1. PICK value \in SettingsValues :
              Len(settings) < MaxVersions /\ settings' = Append(settings, Version(value, Len(settings)))
        BY <1>3, <3>2 DEF UpdateSettings, MayPublish
      <4>2. Published(settings, SettingsValues)
        BY <1>1 DEF Published
      <4>3. Published(settings', SettingsValues) /\ Grows(settings, settings') /\ settings' # << >>
        BY <4>1, <4>2, PublishedOn
      <4>4. QED BY <4>3 DEF Published
    <3>3. QED BY <3>1, <3>2
  <2>3. ConfigGrows /\ NothingOverwritten'
    BY <1>1, <2>1, <2>2 DEF ConfigGrows, Grows, NothingOverwritten
  <2>4. QED BY <1>1, <1>2, <2>1, <2>2, <2>3, AdminNext, OffTyped DEF Off, ControlInv, AuthorityTypeOK
<1>4. CASE UpdatePolicy(u)
  <2>1. settings' = settings /\ admin[u].pc = "policy"
    BY <1>4 DEF UpdatePolicy
  <2>2. /\ policy' \in Seq(Versions(PolicyValues)) /\ Grows(policy, policy')
        /\ Len(policy') <= MaxVersions /\ policy' # << >>
        /\ \A n \in DOMAIN policy' : policy'[n].seen = n - 1
    <3>1. CASE policy' = policy
      BY <1>1, <2>1, <3>1 DEF Grows
    <3>2. CASE policy' # policy
      <4>1. PICK value \in PolicyValues :
              Len(policy) < MaxVersions /\ policy' = Append(policy, Version(value, Len(policy)))
        BY <1>4, <3>2 DEF UpdatePolicy, MayPublish
      <4>2. Published(policy, PolicyValues)
        BY <1>1 DEF Published
      <4>3. Published(policy', PolicyValues) /\ Grows(policy, policy') /\ policy' # << >>
        BY <4>1, <4>2, PublishedOn
      <4>4. QED BY <4>3 DEF Published
    <3>3. QED BY <3>1, <3>2
  <2>3. ConfigGrows /\ NothingOverwritten'
    BY <1>1, <2>1, <2>2 DEF ConfigGrows, Grows, NothingOverwritten
  <2>4. QED BY <1>1, <1>2, <2>1, <2>2, <2>3, AdminNext, OffTyped DEF Off, ControlInv, AuthorityTypeOK
<1>5. QED BY <1>3, <1>4

(* Every step of an administrator preserves the invariant.                    *)
LEMMA AdministerNext ==
  ASSUME ControlInv, NEW u \in Admins, Administer(u)
  PROVE  ControlInv'
<1>1. CASE UpdateSettings(u) \/ UpdatePolicy(u)
  BY <1>1, UpdateNext
<1>2. ASSUME NEW what \in {"settings", "policy"}, NEW history,
             what = "settings" => history = settings, what = "policy" => history = policy,
             Open(u, what, history)
      PROVE  ControlInv'
  <2>1. /\ AdminMoves(u, [pc |-> what, seen |-> Len(history), scope |-> Unknown])
        /\ UNCHANGED config /\ principal' = principal /\ history # << >>
    BY <1>2 DEF Open
  <2>2. [pc |-> what, seen |-> Len(history), scope |-> Unknown] \in AdminType
    BY <1>2, ControlAssumption DEF AdminType, ControlInv, AuthorityTypeOK, Bounded
  <2>3. QED BY <1>2, <2>1, <2>2, ConfigStays, AdminNext DEF ControlInv, AuthorityTypeOK
<1>3. CASE RevokePrincipal(u)
  <2>1. /\ AdminMoves(u, Off) /\ UNCHANGED config /\ principal' = [status |-> "revoked", scopes |-> {}]
    BY <1>3 DEF RevokePrincipal
  <2>2. QED BY <2>1, OffTyped, ConfigStays, AdminNext DEF Off
<1>4. ASSUME NEW scopes \in SUBSET Scopes, CreatePrincipal(u, scopes) PROVE ControlInv'
  <2>1. /\ AdminMoves(u, Off) /\ UNCHANGED config /\ principal' = [status |-> "active", scopes |-> scopes]
        /\ principal.status = "absent"
    BY <1>4 DEF CreatePrincipal
  <2>2. QED BY <2>1, OffTyped, ConfigStays, AdminNext DEF Off
<1>5. CASE WriteScope(u)
  <2>1. /\ AdminMoves(u, Off) /\ UNCHANGED config /\ admin[u].scope \in Scopes
    BY <1>5 DEF WriteScope, ControlInv, AdminsKnow
  <2>2. principal \in [status : {"absent", "active", "revoked"}, scopes : SUBSET Scopes]
    BY DEF ControlInv, AuthorityTypeOK
  <2>3. \E scopes \in SUBSET Scopes : principal' = [principal EXCEPT !.scopes = scopes]
    <3>1. CASE admin[u].pc = "grant"
      BY <1>5, <2>1, <2>2, <3>1 DEF WriteScope
    <3>2. CASE admin[u].pc # "grant"
      BY <1>5, <2>1, <2>2, <3>2 DEF WriteScope
    <3>3. QED BY <3>1, <3>2
  <2>4. /\ principal' \in [status : {"absent", "active", "revoked"}, scopes : SUBSET Scopes]
        /\ principal'.status = principal.status
    BY <2>2, <2>3
  <2>5. QED BY <2>1, <2>4, OffTyped, ConfigStays, AdminNext DEF Off
<1>6. ASSUME NEW what \in {"grant", "revoke"}, NEW scope \in Scopes, OpenScope(u, what, scope)
      PROVE  ControlInv'
  <2>1. /\ AdminMoves(u, [pc |-> what, seen |-> 0, scope |-> scope])
        /\ UNCHANGED config /\ principal' = principal
    BY <1>6 DEF OpenScope
  <2>2. [pc |-> what, seen |-> 0, scope |-> scope] \in AdminType
    BY ControlAssumption DEF AdminType
  <2>3. QED BY <2>1, <2>2, ConfigStays, AdminNext DEF ControlInv, AuthorityTypeOK
<1>7. QED BY <1>1, <1>2, <1>3, <1>4, <1>5, <1>6 DEF Administer

(* Calls that initialise the business: one of them commits the first versions. *)
LEMMA StarterNext ==
  ASSUME ControlInv, NEW i \in Starters, NEW point \in {"new", "insert", "commit", "done", "failed"},
         StarterMoves(i, point), ConfigGrows,
         settings' = << >> <=> policy' = << >>,
         settings # << >> => settings' # << >>, policy # << >> => policy' # << >>,
         settings' # << >> => \A j \in Starters : starter'[j] # "commit",
         point = "commit" => \A j \in Starters : starter[j] # "commit",
         Len(settings') <= MaxVersions, Len(policy') <= MaxVersions, NothingOverwritten'
  PROVE  ControlInv'
<1>1. /\ starter \in [Starters -> {"new", "insert", "commit", "done", "failed"}]
      /\ starter' = [starter EXCEPT ![i] = point]
      /\ UNCHANGED principal /\ UNCHANGED admin /\ UNCHANGED evaluation /\ UNCHANGED approvals
  BY DEF ControlInv, AuthorityTypeOK, StarterMoves
<1>2. AuthorityTypeOK'
  BY <1>1 DEF ControlInv, AuthorityTypeOK, ConfigGrows
<1>3. Started'
  <2>1. \A j, k \in Starters : starter'[j] = "commit" /\ starter'[k] = "commit" => j = k
    BY <1>1 DEF ControlInv, Started
  <2>2. QED BY <2>1 DEF Started
<1>4. Bounded' /\ AdminsKnow'
  BY <1>1 DEF ControlInv, Bounded, AdminsKnow
<1>5. EvaluationsKnow' /\ ApprovalsKnow' /\ ApprovalsAreAskedFor' /\ LateKnows'
  BY <1>1, EvaluationsKept, ApprovalsKept, LateKept
<1>6. QED BY <1>2, <1>3, <1>4, <1>5 DEF ControlInv

(* The first version of a history.                                            *)
LEMMA FirstVersion ==
  ASSUME NEW values, NEW value \in values, NEW g, g = <<Version(value, 0)>>
  PROVE  Published(g, values) /\ Grows(<< >>, g) /\ g # << >>
<1>1. Version(value, 0) \in Versions(values) /\ Version(value, 0).seen = 0
  BY ControlAssumption DEF Version, Versions
<1>2. g \in Seq(Versions(values)) /\ Len(g) = 1 /\ g[1] = Version(value, 0) /\ DOMAIN g = {1}
  BY <1>1
<1>3. QED BY <1>1, <1>2, ControlAssumption DEF Published, Grows

(* Initialising the business preserves the invariant.                         *)
LEMMA InitialiseNext ==
  ASSUME ControlInv, NEW i \in Starters, Initialise(i)
  PROVE  ControlInv'
<1>0. starter \in [Starters -> {"new", "insert", "commit", "done", "failed"}]
  BY DEF ControlInv, AuthorityTypeOK
<1>1. ASSUME UNCHANGED config, NEW point \in {"new", "insert", "commit", "done", "failed"},
             StarterMoves(i, point), settings # << >> => point # "commit",
             point = "commit" => \A j \in Starters : starter[j] # "commit"
      PROVE  ControlInv'
  <2>1. settings' # << >> => \A j \in Starters : starter'[j] # "commit"
    BY <1>0, <1>1, ConfigStays DEF StarterMoves, ControlInv, Started
  <2>2. settings' = << >> <=> policy' = << >>
    BY <1>1, ConfigStays DEF ControlInv, Started
  <2>3. QED BY <1>1, <2>1, <2>2, ConfigStays, StarterNext
<1>2. CASE LookForSettings(i)
  BY <1>1, <1>2 DEF LookForSettings
<1>3. CASE InsertDefaults(i)
  BY <1>1, <1>3 DEF InsertDefaults
<1>4. CASE CommitDefaults(i)
  <2>1. settings = << >> /\ policy = << >> /\ \A j \in Starters : starter[j] = "commit" => j = i
    BY <1>4 DEF CommitDefaults, ControlInv, Started
  <2>2. /\ settings' = <<Version(DefaultSettings, 0)>>
        /\ policy' = <<Version(DefaultPolicies[Action], 0)>> /\ StarterMoves(i, "done")
    BY <1>4 DEF CommitDefaults
  <2>3. Published(settings', SettingsValues) /\ Grows(settings, settings') /\ settings' # << >>
    BY <2>1, <2>2, FirstVersion, ControlAssumption
  <2>4. Published(policy', PolicyValues) /\ Grows(policy, policy') /\ policy' # << >>
    BY <2>1, <2>2, FirstVersion, ControlAssumption
  <2>5. \A j \in Starters : starter'[j] # "commit"
    BY <1>0, <2>1, <2>2 DEF StarterMoves
  <2>6. /\ ConfigGrows /\ NothingOverwritten' /\ Len(settings') <= MaxVersions
        /\ Len(policy') <= MaxVersions
    BY <2>3, <2>4 DEF ConfigGrows, NothingOverwritten, Published
  <2>7. QED BY <2>1, <2>2, <2>3, <2>4, <2>5, <2>6, StarterNext
<1>5. QED BY <1>2, <1>3, <1>4 DEF Initialise

-----------------------------------------------------------------------------
(* Evaluations                                                                *)

EvaluationType ==
  [pc : {"idle", "settings", "principal", "policy", "scope", "decide"},
   facts : Facts \cup {Unknown}, settings : 0 .. MaxVersions, active : BOOLEAN,
   policy : 0 .. MaxVersions, scope : BOOLEAN, late : BOOLEAN, result : Outcomes \cup {"none"}]

(* What an evaluation has to be at a point.                                   *)
Informed(v, point) ==
  /\ v.settings <= Len(settings) /\ v.policy <= Len(policy)
  /\ point # "idle" => v.facts \in Facts
  /\ point = "decide" => v.active /\ v.settings > 0 /\ v.policy > 0
  /\ v.late => /\ principal.status = "revoked" /\ v.result \in {"none", "DENY"}
               /\ point \in {"policy", "scope"} => ~ v.active
               /\ point # "decide"

(* A step of an evaluation preserves the invariant if the approvals stay in   *)
(* order.                                                                     *)
LEMMA EvaluationNext ==
  ASSUME ControlInv, NEW e \in Evaluators, NEW changed \in EvaluationType,
         NEW point \in {"idle", "settings", "principal", "policy", "scope", "decide"},
         Evaluating(e, point, changed), Informed(changed, point),
         approvals' \in Seq(Approvals), Bounded', ApprovalsKnow', ApprovalsAreAskedFor'
  PROVE  ControlInv'
<1>1. /\ evaluation' = [evaluation EXCEPT ![e] = [changed EXCEPT !.pc = point]]
      /\ UNCHANGED config /\ UNCHANGED principal /\ UNCHANGED starter /\ UNCHANGED admin
  BY DEF Evaluating
<1>2. PICK v : v = [changed EXCEPT !.pc = point]
  OBVIOUS
<1>3. /\ v \in EvaluationType /\ v.pc = point /\ v.facts = changed.facts
      /\ v.settings = changed.settings /\ v.policy = changed.policy /\ v.active = changed.active
      /\ v.late = changed.late /\ v.result = changed.result
  BY <1>2 DEF EvaluationType
<1>4. evaluation \in [Evaluators -> EvaluationType]
  BY DEF ControlInv, AuthorityTypeOK, EvaluationType
<1>5. evaluation' = [evaluation EXCEPT ![e] = v]
  BY <1>1, <1>2
<1>6. /\ evaluation' \in [Evaluators -> EvaluationType] /\ evaluation'[e] = v
      /\ \A d \in Evaluators \ {e} : evaluation'[d] = evaluation[d]
  BY <1>3, <1>4, <1>5
<1>7. AuthorityTypeOK'
  BY <1>1, <1>6, ConfigStays DEF ControlInv, AuthorityTypeOK, EvaluationType
<1>8. Started' /\ AdminsKnow' /\ NothingOverwritten'
  BY <1>1, ConfigStays DEF ControlInv, Started, AdminsKnow
<1>9. EvaluationsKnow' /\ LateKnows'
  <2>1. settings' = settings /\ policy' = policy /\ principal' = principal
    BY <1>1, ConfigStays
  <2>2. EvaluationsKnow'
    BY <1>3, <1>6, <2>1 DEF Informed, ControlInv, EvaluationsKnow
  <2>3. LateKnows'
    BY <1>3, <1>6, <2>1 DEF Informed, ControlInv, LateKnows
  <2>4. QED BY <2>2, <2>3
<1>10. QED BY <1>7, <1>8, <1>9 DEF ControlInv

(* What an evaluation under way is.                                           *)
LEMMA EvaluatesTyped ==
  ASSUME ControlInv, NEW e \in Evaluators
  PROVE  evaluation[e] \in EvaluationType /\ Informed(evaluation[e], evaluation[e].pc)
  BY DEF ControlInv, AuthorityTypeOK, EvaluationType, Informed, EvaluationsKnow, LateKnows

(* A step of an evaluation that leaves the approvals alone.                   *)
LEMMA ReadingNext ==
  ASSUME ControlInv, NEW e \in Evaluators, NEW changed \in EvaluationType, UNCHANGED approvals,
         NEW point \in {"idle", "settings", "principal", "policy", "scope", "decide"},
         Evaluating(e, point, changed), Informed(changed, point)
  PROVE  ControlInv'
<1>1. UNCHANGED config
  BY DEF Evaluating
<1>2. approvals' \in Seq(Approvals) /\ Bounded' /\ ApprovalsKnow' /\ ApprovalsAreAskedFor'
  BY <1>1, ConfigStays, ApprovalsKept DEF ControlInv, AuthorityTypeOK, Bounded
<1>3. QED BY <1>2, EvaluationNext

(* What is left of an evaluation that ends.                                   *)
LEMMA EndedIs ==
  ASSUME ControlInv, NEW e \in Evaluators, NEW outcome \in Outcomes,
         evaluation[e].late => outcome = "DENY"
  PROVE  /\ [Resting EXCEPT !.late = evaluation[e].late, !.result = outcome] \in EvaluationType
         /\ Informed([Resting EXCEPT !.late = evaluation[e].late, !.result = outcome], "idle")
<1>1. Resting \in EvaluationType
  BY ControlAssumption DEF Resting, EvaluationType
<1>2. [Resting EXCEPT !.late = evaluation[e].late, !.result = outcome] \in EvaluationType
  BY <1>1, EvaluatesTyped DEF EvaluationType
<1>3. Len(settings) \in Nat /\ Len(policy) \in Nat
  BY DEF ControlInv, AuthorityTypeOK
<1>4. Informed([Resting EXCEPT !.late = evaluation[e].late, !.result = outcome], "idle")
  BY <1>3, EvaluatesTyped DEF Resting, Informed
<1>5. QED BY <1>2, <1>4

(* An evaluation ends with a denial,                                          *)
LEMMA DeniedNext ==
  ASSUME ControlInv, NEW e \in Evaluators, Incomplete(e) \/ LacksScope(e)
  PROVE  ControlInv'
<1>1. Decided(e, "DENY") /\ UNCHANGED approvals
  BY DEF Incomplete, LacksScope
<1>2. "DENY" \in Outcomes
  BY DEF Outcomes
<1>3. QED BY <1>1, <1>2, EndedIs, ReadingNext DEF Decided

(* or begins.                                                                 *)
LEMMA BeginNext ==
  ASSUME ControlInv, NEW e \in Evaluators, NEW facts \in Facts, Begin(e, facts)
  PROVE  ControlInv'
<1>0. PICK late \in BOOLEAN : late = (principal.status = "revoked")
  OBVIOUS
<1>1. PICK v : v = [Resting EXCEPT !.facts = facts, !.late = late]
  OBVIOUS
<1>2. v \in EvaluationType /\ v.facts = facts /\ v.late = late
      /\ v.settings = 0 /\ v.policy = 0 /\ v.result = "none"
  <2>1. /\ Resting \in EvaluationType /\ Resting.settings = 0 /\ Resting.policy = 0
        /\ Resting.result = "none"
    BY ControlAssumption DEF Resting, EvaluationType
  <2>2. v \in EvaluationType
    BY <1>0, <1>1, <2>1 DEF EvaluationType
  <2>3. v.facts = facts /\ v.settings = 0 /\ v.policy = 0 /\ v.result = "none"
    BY <1>1, <2>1 DEF EvaluationType
  <2>4. v.late = late
    BY <1>1, <2>1, Zenon DEF EvaluationType
  <2>5. QED BY <2>2, <2>3, <2>4
<1>3. Len(settings) \in Nat /\ Len(policy) \in Nat
  BY DEF ControlInv, AuthorityTypeOK
<1>4. v.late => principal.status = "revoked"
  BY <1>0, <1>2, Zenon
<1>5. Informed(v, "settings")
  BY <1>2, <1>3, <1>4 DEF Informed
<1>6. Evaluating(e, "settings", v) /\ UNCHANGED approvals
  BY <1>0, <1>1, Zenon DEF Begin
<1>7. QED BY <1>2, <1>5, <1>6, ReadingNext

(* Membership is a truth value.                                               *)
LEMMA TruthOf == ASSUME NEW a, NEW S PROVE \E b \in BOOLEAN : b = (a \in S)
<1>1. CASE a \in S
  <2>1. TRUE = (a \in S)
    BY <1>1
  <2>2. QED BY <2>1
<1>2. CASE a \notin S
  <2>1. FALSE = (a \in S)
    BY <1>2
  <2>2. QED BY <2>1
<1>3. QED BY <1>1, <1>2

(* The statements of an evaluation, one after the other.                      *)
LEMMA ReadNext ==
  ASSUME ControlInv, NEW e \in Evaluators,
         ReadSettings(e) \/ ReadPrincipal(e) \/ ReadPolicy(e) \/ ReadScope(e)
  PROVE  ControlInv'
<1>1. /\ evaluation[e] \in EvaluationType /\ Informed(evaluation[e], evaluation[e].pc)
      /\ Len(settings) \in 0 .. MaxVersions /\ Len(policy) \in 0 .. MaxVersions
  BY EvaluatesTyped, ControlAssumption DEF ControlInv, Bounded, AuthorityTypeOK
<1>2. PICK old \in EvaluationType : old = evaluation[e]
  BY <1>1
<1>3. Informed(old, old.pc)
  BY <1>1, <1>2
<1>4. CASE ReadSettings(e)
  <2>1. PICK v : v = [old EXCEPT !.settings = Len(settings)]
    OBVIOUS
  <2>2. v \in EvaluationType /\ v.settings = Len(settings)
        /\ v.facts = old.facts /\ v.policy = old.policy /\ v.late = old.late /\ v.result = old.result
    BY <1>1, <2>1 DEF EvaluationType
  <2>3. old.pc = "settings" /\ Evaluating(e, "principal", v) /\ UNCHANGED approvals
    BY <1>2, <1>4, <2>1 DEF ReadSettings
  <2>4. Informed(v, "principal")
    BY <1>1, <1>3, <2>2, <2>3 DEF Informed
  <2>5. QED BY <2>2, <2>3, <2>4, ReadingNext
<1>5. CASE ReadPrincipal(e)
  <2>0. PICK active \in BOOLEAN : active = IsActive
    BY DEF IsActive
  <2>1. PICK v : v = [old EXCEPT !.active = active]
    OBVIOUS
  <2>2. v \in EvaluationType /\ v.settings = old.settings /\ v.facts = old.facts
        /\ v.policy = old.policy /\ v.result = old.result
    BY <2>0, <2>1 DEF EvaluationType
  <2>3. v.late = old.late /\ v.active = active
    BY <2>1, Zenon DEF EvaluationType
  <2>4. old.pc = "principal" /\ Evaluating(e, "policy", v) /\ UNCHANGED approvals
    BY <1>2, <1>5, <2>0, <2>1, Zenon DEF ReadPrincipal
  <2>5. old.late => ~ active
    <3>1. old.late => principal.status = "revoked"
      BY <1>3 DEF Informed
    <3>2. QED BY <2>0, <3>1 DEF IsActive
  <2>6. Informed(v, "policy")
    BY <1>3, <2>2, <2>3, <2>4, <2>5 DEF Informed
  <2>7. QED BY <2>2, <2>4, <2>6, ReadingNext
<1>6. CASE ReadPolicy(e)
  <2>1. PICK v : v = [old EXCEPT !.policy = Len(policy)]
    OBVIOUS
  <2>2. v \in EvaluationType /\ v.policy = Len(policy) /\ v.settings = old.settings
        /\ v.facts = old.facts /\ v.late = old.late /\ v.result = old.result /\ v.active = old.active
    BY <1>1, <2>1 DEF EvaluationType
  <2>3. old.pc = "policy" /\ Evaluating(e, "scope", v) /\ UNCHANGED approvals
    BY <1>2, <1>6, <2>1 DEF ReadPolicy
  <2>4. Informed(v, "scope")
    BY <1>1, <1>3, <2>2, <2>3 DEF Informed
  <2>5. QED BY <2>2, <2>3, <2>4, ReadingNext
<1>7. CASE ReadScope(e)
  <2>0. PICK scope \in BOOLEAN :
          scope = (policy[evaluation[e].policy].value.scope \in principal.scopes)
    BY TruthOf, Zenon
  <2>1. PICK v : v = [old EXCEPT !.scope = scope]
    OBVIOUS
  <2>2. v \in EvaluationType /\ v.settings = old.settings /\ v.facts = old.facts
        /\ v.policy = old.policy /\ v.result = old.result
    BY <2>0, <2>1 DEF EvaluationType
  <2>3. v.late = old.late /\ v.active = old.active
    BY <2>1, Zenon DEF EvaluationType
  <2>4. /\ old.pc = "scope" /\ old.settings > 0 /\ old.active /\ old.policy > 0
        /\ UNCHANGED approvals
    BY <1>2, <1>7 DEF ReadScope
  <2>5. Evaluating(e, "decide", v)
    BY <1>2, <1>7, <2>0, <2>1, Zenon DEF ReadScope
  <2>6. Informed(v, "decide")
    BY <1>3, <2>2, <2>3, <2>4 DEF Informed
  <2>7. QED BY <2>2, <2>4, <2>5, <2>6, ReadingNext
<1>8. QED BY <1>4, <1>5, <1>6, <1>7

-----------------------------------------------------------------------------
(* Approvals                                                                  *)

(* The approval that is taken is one that fits.                               *)
LEMMA LatestFits ==
  ASSUME ControlInv, NEW e \in Evaluators, Fitting(e) # {}
  PROVE  /\ Latest(e) \in DOMAIN approvals /\ Fits(e, approvals[Latest(e)])
         /\ approvals[Latest(e)] \in Approvals /\ Orderly(approvals[Latest(e)])
<1>1. approvals \in Seq(Approvals)
  BY DEF ControlInv, AuthorityTypeOK
<1>2. PICK at : at = [i \in DOMAIN approvals |-> approvals[i].at]
  OBVIOUS
<1>3. \A i \in Fitting(e) : at[i] = approvals[i].at /\ at[i] \in 0 .. MaxApprovals
  <2>1. ASSUME NEW i \in Fitting(e) PROVE at[i] = approvals[i].at /\ at[i] \in 0 .. MaxApprovals
    <3>1. i \in DOMAIN approvals
      BY DEF Fitting
    <3>2. approvals[i] \in Approvals
      BY <1>1, <3>1
    <3>3. QED BY <1>2, <3>1, <3>2 DEF Approvals
  <2>2. QED BY <2>1
<1>4. \E i \in Fitting(e) : \A j \in Fitting(e) : at[j] <= at[i]
  BY <1>3, HighestExists, ControlAssumption
<1>5. \E i \in Fitting(e) : \A j \in Fitting(e) : approvals[j].at <= approvals[i].at
  BY <1>3, <1>4
<1>6. Latest(e) \in Fitting(e)
  BY <1>5 DEF Latest
<1>7. QED BY <1>1, <1>6 DEF Fitting, ControlInv, ApprovalsKnow

(* An approval asks about the same as before, or is asked for now.            *)
Answers(a) ==
  /\ Orderly(a) /\ a.settings <= Len(settings) /\ a.policy <= Len(policy)
  /\ EvaluatePolicy(Action, settings[a.settings].value, policy[a.policy].value, a.facts)
       = "REQUIRE_APPROVAL"

(* Every approval does.                                                       *)
LEMMA ApprovalsAnswer ==
  ASSUME ControlInv, NEW i \in DOMAIN approvals
  PROVE  approvals[i] \in Approvals /\ Answers(approvals[i])
  BY DEF ControlInv, AuthorityTypeOK, ApprovalsKnow, ApprovalsAreAskedFor, Answers

(* And approvals that do are in order.                                        *)
LEMMA ApprovalsChange ==
  ASSUME ControlInv, UNCHANGED config, approvals' \in Seq(Approvals), Len(approvals') <= MaxApprovals,
         \A i \in DOMAIN approvals' : Answers(approvals'[i])
  PROVE  Bounded' /\ ApprovalsKnow' /\ ApprovalsAreAskedFor'
  BY ConfigStays DEF Bounded, ApprovalsKnow, ApprovalsAreAskedFor, Answers

(* One approval changes, but not what it is for.                              *)
LEMMA OneChanges ==
  ASSUME ControlInv, NEW i \in DOMAIN approvals, NEW a \in Approvals, Orderly(a),
         a.facts = approvals[i].facts, a.settings = approvals[i].settings,
         a.policy = approvals[i].policy, NEW new, new = [approvals EXCEPT ![i] = a]
  PROVE  /\ new \in Seq(Approvals) /\ Len(new) <= MaxApprovals /\ DOMAIN new = DOMAIN approvals
         /\ \A j \in DOMAIN new : Answers(new[j])
<1>1. approvals \in Seq(Approvals) /\ Len(approvals) <= MaxApprovals
  BY DEF ControlInv, AuthorityTypeOK, Bounded
<1>2. /\ new \in Seq(Approvals) /\ Len(new) = Len(approvals) /\ DOMAIN new = DOMAIN approvals
      /\ new[i] = a /\ \A j \in DOMAIN approvals \ {i} : new[j] = approvals[j]
  BY <1>1
<1>3. Answers(a)
  BY ApprovalsAnswer DEF Answers
<1>4. QED BY <1>1, <1>2, <1>3, ApprovalsAnswer

(* Approvals change while nobody evaluates.                                   *)
LEMMA OldNext ==
  ASSUME ControlInv, UNCHANGED <<config, principal, starter, admin, evaluation>>,
         approvals' \in Seq(Approvals), Len(approvals') <= MaxApprovals,
         \A i \in DOMAIN approvals' : Answers(approvals'[i])
  PROVE  ControlInv'
<1>1. UNCHANGED config /\ UNCHANGED <<settings, policy>>
  BY DEF config
<1>2. Bounded' /\ ApprovalsKnow' /\ ApprovalsAreAskedFor'
  BY <1>1, ApprovalsChange
<1>3. AuthorityTypeOK' /\ Started' /\ AdminsKnow' /\ EvaluationsKnow' /\ NothingOverwritten' /\ LateKnows'
  BY <1>1 DEF ControlInv, AuthorityTypeOK, Started, AdminsKnow, EvaluationsKnow, NothingOverwritten, LateKnows
<1>4. QED BY <1>2, <1>3 DEF ControlInv

(* Positions are counted by their length.                                     *)
LEMMA IntervalCount == \A n \in Nat : IsFiniteSet(1 .. n) /\ Cardinality(1 .. n) = n
  BY FS_Interval

(* Fewer approvals are answered than there are while one is pending.          *)
LEMMA AnsweredLess ==
  ASSUME ControlInv, NEW i \in DOMAIN approvals, approvals[i].status = "PENDING"
  PROVE  Answered + 1 \in 1 .. MaxApprovals
<1> DEFINE A == {j \in DOMAIN approvals : approvals[j].at > 0}
<1>1. approvals \in Seq(Approvals) /\ Len(approvals) <= MaxApprovals /\ MaxApprovals \in Nat
  BY ControlAssumption DEF ControlInv, AuthorityTypeOK, Bounded
<1>2. DOMAIN approvals = 1 .. Len(approvals) /\ Len(approvals) \in Nat
  BY <1>1
<1>3. IsFiniteSet(DOMAIN approvals) /\ Cardinality(DOMAIN approvals) = Len(approvals)
  <2>1. IsFiniteSet(1 .. Len(approvals)) /\ Cardinality(1 .. Len(approvals)) = Len(approvals)
    BY <1>2, IntervalCount
  <2>2. QED BY <1>2, <2>1
<1>4. approvals[i].at = 0
  BY DEF ControlInv, ApprovalsKnow, Orderly
<1>5. A \subseteq DOMAIN approvals /\ A # DOMAIN approvals
  BY <1>4
<1>6. Cardinality(A) < Cardinality(DOMAIN approvals) /\ Cardinality(A) \in Nat
  BY <1>3, <1>5, FS_Subset, FS_CardinalityType
<1>7. QED BY <1>1, <1>2, <1>3, <1>6 DEF Answered

(* An approval is consumed.                                                   *)
LEMMA ConsumeNext ==
  ASSUME ControlInv, NEW e \in Evaluators, Consume(e)
  PROVE  ControlInv'
<1>1. /\ evaluation[e].pc = "decide" /\ Fitting(e) # {}
      /\ approvals' = [approvals EXCEPT ![Latest(e)] = Consumed(approvals[Latest(e)])]
      /\ Decided(e, "ALLOW")
  BY DEF Consume
<1>2. PICK i \in DOMAIN approvals : i = Latest(e)
  BY <1>1, LatestFits
<1>3. PICK a \in Approvals : a = approvals[i] /\ a.status = "APPROVED" /\ Orderly(a)
  BY <1>1, <1>2, LatestFits DEF Fits
<1>4. PICK b : b = Consumed(a)
  OBVIOUS
<1>5. b \in Approvals /\ Orderly(b) /\ b.facts = a.facts /\ b.settings = a.settings /\ b.policy = a.policy
  <2>1. b = [a EXCEPT !.status = "CONSUMED", !.uses = a.uses + 1] /\ a.uses = 0 /\ a.at > 0
    BY <1>3, <1>4 DEF Consumed, Orderly
  <2>2. b \in Approvals
    <3>1. PICK c : c = [a EXCEPT !.status = "CONSUMED"]
      OBVIOUS
    <3>2. c \in Approvals /\ c.uses = a.uses
      BY <3>1 DEF Approvals
    <3>3. b = [c EXCEPT !.uses = a.uses + 1]
      BY <2>1, <3>1 DEF Approvals
    <3>4. a.uses + 1 \in Nat
      BY <2>1
    <3>5. QED BY <3>2, <3>3, <3>4 DEF Approvals
  <2>3. /\ b.facts = a.facts /\ b.settings = a.settings /\ b.policy = a.policy
        /\ b.status = "CONSUMED" /\ b.uses = 1 /\ b.at = a.at
    BY <1>3, <2>1 DEF Approvals
  <2>4. QED BY <2>1, <2>2, <2>3 DEF Orderly
<1>6. approvals' = [approvals EXCEPT ![i] = b]
  BY <1>1, <1>2, <1>3, <1>4
<1>7. /\ approvals' \in Seq(Approvals) /\ Len(approvals') <= MaxApprovals
      /\ \A j \in DOMAIN approvals' : Answers(approvals'[j])
  BY <1>3, <1>5, <1>6, OneChanges
<1>8. UNCHANGED config
  BY <1>1 DEF Decided, Evaluating
<1>9. Bounded' /\ ApprovalsKnow' /\ ApprovalsAreAskedFor'
  BY <1>7, <1>8, ApprovalsChange
<1>10. ~ evaluation[e].late
  BY <1>1 DEF ControlInv, LateKnows
<1>11. "ALLOW" \in Outcomes
  BY DEF Outcomes
<1>12. QED BY <1>1, <1>7, <1>9, <1>10, <1>11, EndedIs, EvaluationNext DEF Decided

(* What is asked for is left to a human by the versions it names.             *)
LEMMA AskedAnswers ==
  ASSUME ControlInv, NEW e \in Evaluators, evaluation[e].pc = "decide",
         Outcome(e) = "REQUIRE_APPROVAL"
  PROVE  Asked(e) \in Approvals /\ Answers(Asked(e))
<1>1. PICK v \in EvaluationType : v = evaluation[e]
  BY EvaluatesTyped
<1>2. /\ v.facts \in Facts /\ v.settings \in 1 .. MaxVersions /\ v.policy \in 1 .. MaxVersions
      /\ v.settings <= Len(settings) /\ v.policy <= Len(policy)
  BY <1>1, EvaluatesTyped DEF Informed, EvaluationType
<1>3. PICK owner \in Evaluators \cup {Unknown} : owner = IF e \in Ledger THEN e ELSE Unknown
  OBVIOUS
<1>4. Asked(e) = [owner |-> owner, facts |-> v.facts, settings |-> v.settings, policy |-> v.policy,
                  status |-> "PENDING", old |-> FALSE, at |-> 0, uses |-> 0]
  BY <1>1, <1>3 DEF Asked
<1>5. Asked(e) \in Approvals
  BY <1>2, <1>4, ControlAssumption DEF Approvals
<1>6. Orderly(Asked(e))
  BY <1>4 DEF Orderly
<1>7. EvaluatePolicy(Action, settings[v.settings].value, policy[v.policy].value, v.facts)
        = "REQUIRE_APPROVAL"
  BY <1>1 DEF Outcome
<1>8. QED BY <1>2, <1>4, <1>5, <1>6, <1>7 DEF Answers

(* The rules decide, and a human may be asked.                                *)
LEMMA DecideNext ==
  ASSUME ControlInv, NEW e \in Evaluators, Decide(e)
  PROVE  ControlInv'
<1>0. approvals \in Seq(Approvals) /\ Len(approvals) <= MaxApprovals /\ MaxApprovals \in Nat
  BY ControlAssumption DEF ControlInv, AuthorityTypeOK, Bounded
<1>1. PICK closed : closed = [i \in DOMAIN approvals |->
                                IF Fitting(e) # {} /\ i = Latest(e)
                                THEN [approvals[i] EXCEPT !.status = "EXPIRED"] ELSE approvals[i]]
  OBVIOUS
<1>2. /\ evaluation[e].pc = "decide" /\ Decided(e, Outcome(e))
      /\ \/ approvals' = closed
         \/ /\ approvals' = Append(closed, Asked(e)) /\ Len(approvals) < MaxApprovals
            /\ Outcome(e) = "REQUIRE_APPROVAL"
  BY <1>1, Zenon DEF Decide
<1>3. /\ closed \in Seq(Approvals) /\ Len(closed) = Len(approvals)
      /\ \A j \in DOMAIN closed : Answers(closed[j])
  <2>1. CASE Fitting(e) = {}
    <3>1. closed = approvals
      BY <1>0, <1>1, <2>1
    <3>2. QED BY <1>0, <3>1, ApprovalsAnswer
  <2>2. CASE Fitting(e) # {}
    <3>1. PICK i \in DOMAIN approvals : i = Latest(e)
      BY <2>2, LatestFits
    <3>2. PICK a \in Approvals : a = approvals[i] /\ a.status = "APPROVED" /\ Orderly(a)
      BY <2>2, <3>1, LatestFits DEF Fits
    <3>3. PICK b : b = [a EXCEPT !.status = "EXPIRED"]
      OBVIOUS
    <3>4. b \in Approvals /\ Orderly(b) /\ b.facts = a.facts /\ b.settings = a.settings /\ b.policy = a.policy
      BY <3>2, <3>3 DEF Approvals, Orderly
    <3>5. closed = [approvals EXCEPT ![i] = b]
      BY <1>0, <1>1, <2>2, <3>1, <3>2, <3>3
    <3>6. /\ closed \in Seq(Approvals) /\ DOMAIN closed = DOMAIN approvals
          /\ \A j \in DOMAIN closed : Answers(closed[j])
      BY <3>2, <3>4, <3>5, OneChanges
    <3>7. Len(closed) = Len(approvals)
      BY <1>0, <3>6
    <3>8. QED BY <3>6, <3>7
  <2>3. QED BY <2>1, <2>2
<1>4. /\ approvals' \in Seq(Approvals) /\ Len(approvals') <= MaxApprovals
      /\ \A j \in DOMAIN approvals' : Answers(approvals'[j])
  <2>1. CASE approvals' = closed
    BY <1>0, <1>3, <2>1
  <2>2. CASE approvals' # closed
    <3>1. /\ Asked(e) \in Approvals /\ Answers(Asked(e))
          /\ approvals' = Append(closed, Asked(e)) /\ Len(approvals) < MaxApprovals
      BY <1>2, <2>2, AskedAnswers
    <3>2. /\ approvals' \in Seq(Approvals) /\ Len(approvals') = Len(closed) + 1
          /\ DOMAIN approvals' = 1 .. Len(closed) + 1 /\ DOMAIN closed = 1 .. Len(closed)
          /\ approvals'[Len(closed) + 1] = Asked(e)
          /\ \A j \in DOMAIN closed : approvals'[j] = closed[j]
      BY <1>3, <3>1
    <3>3. Len(closed) \in Nat
      BY <1>3
    <3>4. ASSUME NEW j \in DOMAIN approvals' PROVE Answers(approvals'[j])
      <4>1. j \in DOMAIN closed \/ j = Len(closed) + 1
        BY <3>2, <3>3
      <4>2. QED BY <1>3, <3>1, <3>2, <4>1
    <3>5. QED BY <1>0, <1>3, <3>1, <3>2, <3>4
  <2>3. QED BY <2>1, <2>2
<1>5. UNCHANGED config
  BY <1>2 DEF Decided, Evaluating
<1>6. Bounded' /\ ApprovalsKnow' /\ ApprovalsAreAskedFor'
  BY <1>4, <1>5, ApprovalsChange
<1>7. ~ evaluation[e].late /\ Outcome(e) \in Outcomes
  BY <1>2, RulesAnswer DEF ControlInv, LateKnows, Outcome
<1>8. QED BY <1>2, <1>4, <1>6, <1>7, EndedIs, EvaluationNext DEF Decided

(* Every step of an evaluation preserves the invariant.                       *)
LEMMA EvaluateNext ==
  ASSUME ControlInv, NEW e \in Evaluators, Evaluate(e)
  PROVE  ControlInv'
  BY BeginNext, ReadNext, DeniedNext, ConsumeNext, DecideNext DEF Evaluate

(* One approval grows old, or is answered.                                    *)
LEMMA AltersNext ==
  ASSUME ControlInv, NEW i \in DOMAIN approvals, NEW b \in Approvals, Orderly(b),
         b.facts = approvals[i].facts, b.settings = approvals[i].settings,
         b.policy = approvals[i].policy, approvals' = [approvals EXCEPT ![i] = b],
         UNCHANGED <<config, principal, starter, admin, evaluation>>
  PROVE  ControlInv'
<1>1. /\ approvals' \in Seq(Approvals) /\ Len(approvals') <= MaxApprovals
      /\ \A j \in DOMAIN approvals' : Answers(approvals'[j])
  BY OneChanges
<1>2. QED BY <1>1, OldNext

(* Time passes for an approval.                                               *)
LEMMA AgedNext ==
  ASSUME ControlInv, NEW i \in DOMAIN approvals, GrowsOld(i)
  PROVE  ControlInv'
<1>1. PICK a \in Approvals : a = approvals[i] /\ Orderly(a)
  BY ApprovalsAnswer DEF Answers
<1>2. PICK b : b = [a EXCEPT !.old = TRUE]
  OBVIOUS
<1>3. approvals \in Seq(Approvals)
  BY DEF ControlInv, AuthorityTypeOK
<1>4. approvals' = [approvals EXCEPT ![i] = b]
  BY <1>1, <1>2, <1>3 DEF GrowsOld
<1>5. b \in Approvals /\ Orderly(b) /\ b.facts = a.facts /\ b.settings = a.settings /\ b.policy = a.policy
  BY <1>1, <1>2 DEF Approvals, Orderly
<1>6. QED BY <1>1, <1>4, <1>5, AltersNext DEF GrowsOld

(* A member answers it.                                                       *)
LEMMA AnswerNext ==
  ASSUME ControlInv, NEW i \in DOMAIN approvals, NEW role \in Roles,
         NEW answer \in {"APPROVED", "REJECTED"}, Resolve(role, i, answer)
  PROVE  ControlInv'
<1>1. PICK a \in Approvals : a = approvals[i] /\ Orderly(a)
  BY ApprovalsAnswer DEF Answers
<1>2. a.status = "PENDING" /\ Answered + 1 \in 1 .. MaxApprovals /\ MaxApprovals \in Nat
  BY <1>1, AnsweredLess, ControlAssumption DEF Resolve
<1>3. PICK n \in 1 .. MaxApprovals : n = Answered + 1
  BY <1>2
<1>4. PICK b : b = IF a.old THEN [a EXCEPT !.status = "EXPIRED"]
                   ELSE [a EXCEPT !.status = answer, !.at = n]
  OBVIOUS
<1>5. approvals' = [approvals EXCEPT ![i] = b]
  <2>1. approvals \in Seq(Approvals)
    BY DEF ControlInv, AuthorityTypeOK
  <2>2. CASE a.old
    BY <1>1, <1>4, <2>1, <2>2 DEF Resolve
  <2>3. CASE ~ a.old
    <3>1. approvals' = [approvals EXCEPT ![i].status = answer, ![i].at = n]
      BY <1>1, <1>3, <2>3 DEF Resolve
    <3>2. QED BY <1>1, <1>4, <2>1, <2>3, <3>1
  <2>4. QED BY <2>2, <2>3
<1>6. b \in Approvals /\ Orderly(b) /\ b.facts = a.facts /\ b.settings = a.settings /\ b.policy = a.policy
  <2>1. CASE a.old
    BY <1>1, <1>2, <1>4, <2>1 DEF Approvals, Orderly
  <2>2. CASE ~ a.old
    <3>1. b = [a EXCEPT !.status = answer, !.at = n]
      BY <1>4, <2>2
    <3>2. b \in Approvals
      <4>1. PICK c : c = [a EXCEPT !.status = answer]
        OBVIOUS
      <4>2. c \in Approvals
        BY <4>1 DEF Approvals
      <4>3. b = [c EXCEPT !.at = n]
        BY <3>1, <4>1 DEF Approvals
      <4>4. n \in 0 .. MaxApprovals
        BY <1>2, <1>3
      <4>5. QED BY <4>2, <4>3, <4>4 DEF Approvals
    <3>3. /\ b.facts = a.facts /\ b.settings = a.settings /\ b.policy = a.policy
          /\ b.status = answer /\ b.uses = a.uses /\ b.at = n
      BY <1>1, <3>1 DEF Approvals
    <3>4. a.uses = 0 /\ n > 0
      BY <1>1, <1>2, <1>3 DEF Orderly
    <3>5. QED BY <3>2, <3>3, <3>4 DEF Orderly
  <2>3. QED BY <2>1, <2>2
<1>7. QED BY <1>1, <1>5, <1>6, AltersNext DEF Resolve

-----------------------------------------------------------------------------

(* The invariant holds to begin with,                                         *)
LEMMA ControlInit == AuthorityInit => ControlInv
<1> SUFFICES ASSUME AuthorityInit PROVE ControlInv
  OBVIOUS
<1>1. AuthorityTypeOK
  BY ControlAssumption DEF AuthorityInit, AuthorityTypeOK, Off, Resting
<1>2. Started /\ AdminsKnow /\ Bounded
  BY ControlAssumption DEF AuthorityInit, Started, AdminsKnow, Bounded, Off
<1>3. EvaluationsKnow /\ LateKnows
  BY DEF AuthorityInit, EvaluationsKnow, LateKnows, Resting
<1>4. ApprovalsKnow /\ NothingOverwritten /\ ApprovalsAreAskedFor
  BY DEF AuthorityInit, ApprovalsKnow, NothingOverwritten, ApprovalsAreAskedFor
<1>5. QED BY <1>1, <1>2, <1>3, <1>4 DEF ControlInv

(* and every step preserves it.                                               *)
LEMMA ControlNext == ControlInv /\ [AuthorityNext]_authorityVars => ControlInv'
<1> SUFFICES ASSUME ControlInv, [AuthorityNext]_authorityVars PROVE ControlInv'
  OBVIOUS
<1>1. ASSUME NEW i \in Starters, Initialise(i) PROVE ControlInv'
  BY <1>1, InitialiseNext
<1>2. ASSUME NEW u \in Admins, Administer(u) PROVE ControlInv'
  BY <1>2, AdministerNext
<1>3. ASSUME NEW e \in Evaluators, Evaluate(e) PROVE ControlInv'
  BY <1>3, EvaluateNext
<1>4. ASSUME NEW i \in DOMAIN approvals, GrowsOld(i) PROVE ControlInv'
  BY <1>4, AgedNext
<1>5. ASSUME NEW i \in DOMAIN approvals, NEW role \in Roles, NEW answer \in {"APPROVED", "REJECTED"},
             Resolve(role, i, answer)
      PROVE  ControlInv'
  BY <1>5, AnswerNext
<1>6. CASE UNCHANGED authorityVars
  BY <1>6, ApprovalsAnswer, OldNext DEF authorityVars, ControlInv, AuthorityTypeOK, Bounded
<1>7. QED BY <1>1, <1>2, <1>3, <1>4, <1>5, <1>6 DEF AuthorityNext

(* The authority of the AI stays in order for any number of administrators,    *)
(* evaluators and versions.                                                   *)
THEOREM ControlInvariant == AuthoritySpec => []ControlInv
<1>1. QED BY ControlInit, ControlNext, PTL DEF AuthoritySpec

(* Versions are published one on the other, and no approval serves twice       *)
(* (evaluate_action, update_settings, update_policy).                          *)
THEOREM AuthorityStaysInOrder == AuthoritySpec => []AuthorityInv
<1>1. QED BY ControlInvariant, ControlSuffices, PTL

(* A human is only asked for what the settings and the policy leave to a human.*)
THEOREM HumansAreAskedRightly == AuthoritySpec => []ApprovalsAreAskedFor
<1>1. QED BY ControlInvariant, ControlSuffices, PTL

(* An evaluation that begins after a revocation allows nothing.                *)
THEOREM RevokedStaysPowerless == AuthoritySpec => []RevokedIsPowerless
<1>1. QED BY ControlInvariant, ControlSuffices, PTL

-----------------------------------------------------------------------------
(* Uploads.  The inductive invariant: *)

Before == InTransaction \cup {"idle", "parse", "refuse"}
Retired == {"replace", "replacing", "insert", "commit"}
Replaced == {"insert", "commit"}

(* A request that is on its way has a file and a key, and no document yet.   *)
RequestsAreSound ==
  \A c \in Calls :
    /\ upload[c].pc = "idle" => upload[c].file = Absent
    /\ upload[c].pc \notin {"idle", "over"} => upload[c].file \in Files /\ upload[c].key \in Keys
    /\ upload[c].pc \in InTransaction => upload[c].file.table # Absent
    /\ upload[c].pc \in Before => ~document[c].stored
    /\ upload[c].pc \in InTransaction \cup {"parse"} => upload[c].result = Absent

(* A document was made from the file of a table, and rows from a document.   *)
DocumentsAreSound ==
  \A d \in Calls :
    /\ document[d].stored => upload[d].file \in Files /\ upload[d].file.table # Absent
    /\ document[d].active \/ rows[d] # "none" => document[d].stored

(* What an import retires are older versions of its own file, and the rows it *)
(* replaces are those of documents.                                          *)
Older(c, d) == document[d].stored /\ upload[d].file.name = upload[c].file.name

RetiresOlder ==
  \A c \in Calls :
    /\ upload[c].pc = "retiring" => \A d \in upload[c].seen : Older(c, d)
    /\ upload[c].pc \in Retired => \A d \in upload[c].retired : Older(c, d)
    /\ upload[c].pc \in Replaced => \A d \in upload[c].replaced : document[d].stored

(* Whose rows an import is going to replace, or has replaced.                *)
Covered(c) == IF upload[c].pc = "replacing" THEN upload[c].seen ELSE upload[c].replaced

(* Of the tables with the flag, an import replaces the rows of what it       *)
(* retires, and of all that was not committed beside it.                     *)
ReplacesEnough ==
  \A c \in Calls :
    upload[c].pc \in {"replacing"} \cup Replaced /\ upload[c].file.table \in Flagged =>
      \A d \in Calls : rows[d] = "active" =>
        /\ d \in upload[c].retired => d \in Covered(c)
        /\ upload[d].file.table = upload[c].file.table => d \in Covered(c) \cup beside[c]

(* An answer that may be given for the file of d.                            *)
MayAnswer(d) ==
  /\ upload[d].file \in Files
  /\ upload[d].file.table # Absent => document[d].stored
Found(d) ==
  upload[d].file.table = Absent \/ upload[d].file.catalog =>
    \E e \in indexed : upload[e].file = upload[d].file
ResultOf(c) == IF upload[c].result = Absent THEN c ELSE upload[c].result

AnswersAreReady ==
  \A c \in Calls :
    /\ upload[c].pc \in {"vectors", "respond"} => ResultOf(c) \in Calls /\ MayAnswer(ResultOf(c))
    /\ upload[c].pc = "vectors" => upload[ResultOf(c)].file = upload[c].file
    /\ upload[c].pc = "respond" => Found(ResultOf(c))

AnswersAreSound ==
  \A k \in Keys : answered[k].status = "completed" =>
    answered[k].result \in Calls /\ MayAnswer(answered[k].result) /\ Found(answered[k].result)

ImportInvariant ==
  /\ ImportTypeOK /\ RequestsAreSound /\ DocumentsAreSound /\ RetiresOlder /\ ReplacesEnough
  /\ RowsFollowTheirDocument /\ OneFileInEffect /\ AnswersAreReady /\ AnswersAreSound

-----------------------------------------------------------------------------
(* Requests as records *)

Uploads ==
  [pc : Steps, key : Keys \cup {Absent}, file : Files \cup {Absent}, seen : SUBSET Calls,
   previous : SUBSET Calls, retired : SUBSET Calls, replaced : SUBSET Calls,
   result : Calls \cup {Absent}]

LEMMA UploadsAreTyped == ImportTypeOK => upload \in [Calls -> Uploads]
  BY DEF ImportTypeOK, Uploads

LEMMA RecordMoves ==
  ASSUME NEW u \in Uploads, NEW p \in Steps
  PROVE  LET v == [u EXCEPT !.pc = p]
         IN  /\ v \in Uploads /\ v.pc = p /\ v.key = u.key /\ v.file = u.file
             /\ v.seen = u.seen /\ v.previous = u.previous /\ v.retired = u.retired
             /\ v.replaced = u.replaced /\ v.result = u.result
  BY DEF Uploads

Left(u, p, r) == [NoUpload EXCEPT !.pc = p, !.key = u.key, !.file = u.file, !.result = r]

LEMMA RecordLeaves ==
  ASSUME NEW u \in Uploads, NEW p \in Steps, NEW r \in Calls \cup {Absent}
  PROVE  /\ Left(u, p, r) \in Uploads
         /\ Left(u, p, r).pc = p /\ Left(u, p, r).key = u.key
         /\ Left(u, p, r).file = u.file /\ Left(u, p, r).result = r
  BY DEF Uploads, NoUpload, Left

Begun(k, f) == [NoUpload EXCEPT !.pc = "parse", !.key = k, !.file = f]

LEMMA RecordBegins ==
  ASSUME NEW k \in Keys, NEW f \in Files
  PROVE  /\ Begun(k, f) \in Uploads
         /\ Begun(k, f).pc = "parse" /\ Begun(k, f).key = k
         /\ Begun(k, f).file = f /\ Begun(k, f).result = Absent
  BY DEF Uploads, NoUpload, Steps, Begun

(* One request moves at a time.                                              *)
OthersStay(c) == upload' \in [Calls -> Uploads] /\ \A o \in Calls : o # c => upload'[o] = upload[o]

LEMMA OneMoves ==
  ASSUME NEW c \in Calls, upload \in [Calls -> Uploads], NEW v \in Uploads,
         upload' = [upload EXCEPT ![c] = v]
  PROVE  OthersStay(c) /\ upload'[c] = v
  BY DEF OthersStay

LEMMA MovesShape ==
  ASSUME ImportTypeOK, NEW c \in Calls, NEW from, NEW to \in Steps, Moves(c, from, to)
  PROVE  /\ OthersStay(c) /\ upload[c].pc = from /\ upload'[c].pc = to
         /\ upload'[c].key = upload[c].key /\ upload'[c].file = upload[c].file
         /\ upload'[c].seen = upload[c].seen /\ upload'[c].retired = upload[c].retired
         /\ upload'[c].replaced = upload[c].replaced /\ upload'[c].result = upload[c].result
PROOF
  <1>1. upload \in [Calls -> Uploads] /\ upload[c] \in Uploads
    BY UploadsAreTyped
  <1>2. upload' = [upload EXCEPT ![c] = [upload[c] EXCEPT !.pc = to]] /\ upload[c].pc = from
    BY DEF Moves
  <1> DEFINE v == [upload[c] EXCEPT !.pc = to]
  <1>3. /\ v \in Uploads /\ v.pc = to /\ v.key = upload[c].key /\ v.file = upload[c].file
        /\ v.seen = upload[c].seen /\ v.retired = upload[c].retired
        /\ v.replaced = upload[c].replaced /\ v.result = upload[c].result
    BY <1>1, RecordMoves
  <1>4. upload' = [upload EXCEPT ![c] = v]
    BY <1>2
  <1> HIDE DEF v
  <1>5. OthersStay(c) /\ upload'[c] = v
    BY <1>1, <1>3, <1>4, OneMoves
  <1> QED
    BY <1>2, <1>3, <1>5

LEMMA LeavesShape ==
  ASSUME ImportTypeOK, NEW c \in Calls, NEW from, NEW to \in Steps,
         NEW r \in Calls \cup {Absent}, Leaves(c, from, to, r)
  PROVE  /\ OthersStay(c) /\ upload[c].pc = from /\ upload'[c].pc = to
         /\ upload'[c].key = upload[c].key /\ upload'[c].file = upload[c].file
         /\ upload'[c].result = r
PROOF
  <1>1. upload \in [Calls -> Uploads] /\ upload[c] \in Uploads
    BY UploadsAreTyped
  <1>2. upload' = [upload EXCEPT ![c] = Left(upload[c], to, r)] /\ upload[c].pc = from
    BY DEF Leaves, Left
  <1>3. OthersStay(c) /\ upload'[c] = Left(upload[c], to, r)
    BY <1>1, <1>2, RecordLeaves, OneMoves
  <1> QED
    BY <1>1, <1>2, <1>3, RecordLeaves

-----------------------------------------------------------------------------
(* What a step does, by where the request arrives *)

Begins(c) ==
  /\ upload[c].pc = "idle" /\ upload'[c].pc \in {"parse", "over"}
  /\ upload'[c].pc = "parse" => upload'[c].file \in Files /\ upload'[c].key \in Keys
                                /\ upload'[c].result = Absent
Continues(c) ==
  /\ upload[c].pc # "idle" /\ upload'[c].pc \notin {"idle", "parse"}
  /\ upload'[c].file = upload[c].file /\ upload'[c].key = upload[c].key

InsideTransaction(c) ==
  LET u == upload[c]
      v == upload'[c]
  IN  v.pc \in InTransaction =>
        /\ u.pc \in (InTransaction \cup {"parse"}) \ {"commit"}
        /\ u.file.table # Absent /\ v.result = u.result
        /\ v.pc = "retiring" => v.seen = Active(u.file.name)
        /\ v.pc = "replace" => u.pc = "retiring" /\ v.retired \subseteq u.seen
        /\ v.pc \in Retired \ {"replace"} => u.pc \in Retired /\ v.retired = u.retired
        /\ v.pc = "replacing" => v.seen = ToReplace(c)
        /\ v.pc = "insert" => u.pc = "replacing" /\ v.replaced = {d \in u.seen : rows[d] = "active"}
        /\ v.pc = "commit" => u.pc = "insert" /\ v.replaced = u.replaced

Outside(c) ==
  LET u == upload[c]
      v == upload'[c]
  IN  /\ v.pc = "refuse" => u.pc \in {"parse", "version", "insert"}
      /\ v.pc \in {"vectors", "respond"} =>
           \/ u.pc = "parse" /\ v.pc = "vectors" /\ u.file.table = Absent /\ v.result = u.result
           \/ /\ u.pc = "version" /\ (v.pc = "vectors" \/ ~u.file.catalog)
              /\ v.result \in Stored(u.file.name)
              /\ upload[v.result].file.version = u.file.version
              /\ upload[v.result].file.content = u.file.content
           \/ u.pc = "commit" /\ v.result = c /\ (v.pc = "vectors" \/ ~u.file.catalog)
           \/ u.pc = "vectors" /\ v.pc = "respond" /\ v.result = u.result /\ c \in indexed'

(* What a commit does to documents, rows and the others.                     *)
Settles(c) ==
  LET u == upload[c]
  IN  /\ document' \in [Calls -> [stored : BOOLEAN, active : BOOLEAN]]
      /\ rows' \in [Calls -> {"none", "active", "inactive"}]
      /\ beside' \in [Calls -> SUBSET Calls]
      /\ document'[c].stored /\ document'[c].active /\ rows'[c] = "active"
      /\ \A d \in Calls : d # c =>
            /\ document'[d].stored <=> document[d].stored
            /\ document'[d].active <=> document[d].active /\ d \notin u.retired
            /\ rows'[d] = "active" <=> rows[d] = "active" /\ d \notin u.replaced
            /\ rows'[d] # "none" => rows[d] # "none" \/ d \in u.replaced
      /\ \A o \in Calls : beside[o] \subseteq beside'[o]
      /\ \A o \in Calls : o # c /\ upload[o].pc \in InTransaction => c \in beside'[o]

Keeps == document' = document /\ rows' = rows /\ beside' = beside

Commits(c) == upload[c].pc = "commit" /\ upload'[c].pc \in {"vectors", "respond"}

DataMove(c) == IF Commits(c) THEN Settles(c) ELSE Keeps

AnswersMove(c) ==
  \A k \in Keys : answered'[k].status = "completed" =>
    \/ answered[k].status = "completed" /\ answered'[k].result = answered[k].result
    \/ upload[c].pc = "respond" /\ answered'[k].result = ResultOf(c)

Shape(c) ==
  /\ OthersStay(c) /\ (Begins(c) \/ Continues(c)) /\ InsideTransaction(c) /\ Outside(c)
  /\ DataMove(c) /\ indexed \subseteq indexed' /\ indexed' \subseteq Calls /\ AnswersMove(c)

LEMMA CommitSettles ==
  ASSUME ImportTypeOK, NEW c \in Calls, Commit(c)
  PROVE  Settles(c)
PROOF
  <1> DEFINE u == upload[c]
  <1>1. /\ document \in [Calls -> [stored : BOOLEAN, active : BOOLEAN]]
        /\ rows \in [Calls -> {"none", "active", "inactive"}]
        /\ beside \in [Calls -> SUBSET Calls]
    BY DEF ImportTypeOK
  <1>2. document' = [d \in Calls |->
              IF d = c THEN [stored |-> TRUE, active |-> TRUE]
              ELSE IF d \in u.retired THEN [document[d] EXCEPT !.active = FALSE] ELSE document[d]]
    BY DEF Commit
  <1>3. rows' = [d \in Calls |->
              IF d = c THEN "active"
              ELSE IF d \notin u.replaced THEN rows[d]
              ELSE IF File(c).table \in Flagged THEN "inactive" ELSE "none"]
    BY DEF Commit
  <1>4. beside' = [o \in Calls |->
              IF o \in Importing \ {c} THEN beside[o] \cup {c} ELSE beside[o]]
    BY DEF Commit
  <1> HIDE DEF u
  <1>5. /\ document' \in [Calls -> [stored : BOOLEAN, active : BOOLEAN]]
        /\ document'[c].stored /\ document'[c].active
        /\ \A d \in Calls : d # c =>
             /\ document'[d].stored <=> document[d].stored
             /\ document'[d].active <=> document[d].active /\ d \notin u.retired
    BY <1>1, <1>2
  <1>6. /\ rows' \in [Calls -> {"none", "active", "inactive"}] /\ rows'[c] = "active"
        /\ \A d \in Calls : d # c =>
             /\ rows'[d] = "active" <=> rows[d] = "active" /\ d \notin u.replaced
             /\ rows'[d] # "none" => rows[d] # "none" \/ d \in u.replaced
    BY <1>1, <1>3
  <1>7. /\ beside' \in [Calls -> SUBSET Calls]
        /\ \A o \in Calls : beside[o] \subseteq beside'[o]
        /\ \A o \in Calls : o # c /\ upload[o].pc \in InTransaction => c \in beside'[o]
    BY <1>1, <1>4 DEF Importing
  <1> QED
    BY <1>5, <1>6, <1>7 DEF Settles, u

LEMMA StepsHaveShape ==
  ASSUME ImportTypeOK, RequestsAreSound, NEW c \in Calls,
         \/ \E k \in Keys, f \in Files : UploadDocument(c, k, f)
         \/ Ingest(c) \/ CompleteRequest(c) \/ FailRequest(c) \/ Crash(c)
  PROVE  Shape(c)
PROOF
  <1> DEFINE u == upload[c]
             v == upload'[c]
  <1>0. /\ upload \in [Calls -> Uploads] /\ u \in Uploads /\ indexed \subseteq Calls
        /\ u.pc \notin {"idle", "over"} => u.file \in Files /\ u.key \in Keys
        /\ u.pc \in InTransaction => u.file.table # Absent
        /\ u.pc \in InTransaction \cup {"parse"} => u.result = Absent
    BY UploadsAreTyped DEF ImportTypeOK, RequestsAreSound
  <1> USE DEF Retired
  <1>1. CASE \E k \in Keys, f \in Files : UploadDocument(c, k, f)
    <2> PICK k \in Keys, f \in Files : UploadDocument(c, k, f)
      BY <1>1
    <2>1. u.pc = "idle" /\ Keeps /\ indexed' = indexed
      BY DEF UploadDocument, Keeps
    <2>2. CASE upload' = [upload EXCEPT ![c].pc = "over"] /\ answered' = answered
      <3>1. "over" \in Steps
        BY DEF Steps
      <3>2. OthersStay(c) /\ v.pc = "over"
        BY <2>2, <3>1, <1>0, RecordMoves, OneMoves
      <3> QED
        BY <2>1, <2>2, <3>2, <1>0 DEF Shape, Begins, InsideTransaction, Outside, DataMove, Commits,
           AnswersMove, InTransaction
    <2>3. CASE /\ upload' = [upload EXCEPT ![c] = [NoUpload EXCEPT !.pc = "parse", !.key = k, !.file = f]]
               /\ answered' = [answered EXCEPT ![k].status = "processing", ![k].name = f.name,
                                               ![k].version = f.version]
      <3>1. OthersStay(c) /\ v.pc = "parse" /\ v.key = k /\ v.file = f /\ v.result = Absent
        <4>1. upload' = [upload EXCEPT ![c] = Begun(k, f)]
          BY <2>3 DEF Begun
        <4>2. OthersStay(c) /\ v = Begun(k, f)
          BY <4>1, <1>0, RecordBegins, OneMoves
        <4> QED
          BY <4>2, RecordBegins
      <3>2. AnswersMove(c)
        BY <2>3 DEF AnswersMove, ImportTypeOK
      <3> QED
        BY <2>1, <3>1, <3>2, <1>0 DEF Shape, Begins, InsideTransaction, Outside, DataMove, Commits,
           InTransaction
    <2> QED
      BY <2>2, <2>3 DEF UploadDocument
  <1>2. CASE Parse(c)
    <2>1. PICK to \in {"version", "vectors", "refuse"} :
             /\ Moves(c, "parse", to)
             /\ to = "version" => u.file.table # Absent
             /\ to = "vectors" => u.file.table = Absent
      BY <1>2 DEF Parse, File
    <2>2. to \in Steps
      BY DEF Steps, InTransaction
    <2>3. Keeps /\ indexed' = indexed /\ answered' = answered
      BY <1>2 DEF Parse, Keeps
    <2> QED
      BY <2>1, <2>2, <2>3, MovesShape, <1>0 DEF Shape, Continues, InsideTransaction, Outside,
         DataMove, Commits, AnswersMove, InTransaction
  <1>3. CASE FindVersion(c)
    <2>1. Keeps /\ indexed' = indexed /\ answered' = answered
      BY <1>3 DEF FindVersion, Keeps
    <2>2. CASE Moves(c, "version", "previous")
      <3>1. "previous" \in Steps
        BY DEF Steps, InTransaction
      <3> QED
        BY <2>1, <2>2, <3>1, MovesShape, <1>0 DEF Shape, Continues, InsideTransaction, Outside,
           DataMove, Commits, AnswersMove, InTransaction
    <2>3. CASE Leaves(c, "version", "refuse", Absent)
      <3>1. "refuse" \in Steps
        BY DEF Steps
      <3> QED
        BY <2>1, <2>3, <3>1, LeavesShape, <1>0 DEF Shape, Continues, InsideTransaction, Outside,
           DataMove, Commits, AnswersMove, InTransaction
    <2>4. CASE \E d \in Stored(File(c).name) :
                  /\ File(d).version = File(c).version /\ File(d).content = File(c).content
                  /\ Leaves(c, "version", AfterImport(c), d)
      <3>1. PICK d \in Stored(File(c).name) :
                  /\ File(d).version = File(c).version /\ File(d).content = File(c).content
                  /\ Leaves(c, "version", AfterImport(c), d)
        BY <2>4
      <3>2. d \in Calls /\ AfterImport(c) \in {"vectors", "respond"} /\ AfterImport(c) \in Steps
        BY DEF Stored, AfterImport, Steps
      <3>3. AfterImport(c) = "vectors" \/ ~u.file.catalog
        BY <1>0 DEF AfterImport, File
      <3> QED
        BY <2>1, <3>1, <3>2, <3>3, LeavesShape, <1>0 DEF Shape, Continues, InsideTransaction, Outside,
           DataMove, Commits, AnswersMove, InTransaction, File
    <2> QED
      BY <1>3, <2>2, <2>3, <2>4 DEF FindVersion, Stored
  <1>4. CASE FindPrevious(c)
    <2>1. /\ u.pc = "previous" /\ Keeps /\ indexed' = indexed /\ answered' = answered
          /\ upload' = [upload EXCEPT ![c] = [u EXCEPT !.pc = "retire", !.previous = Active(File(c).name)]]
      BY <1>4 DEF FindPrevious, Keeps
    <2>2. OthersStay(c) /\ v.pc = "retire" /\ v.key = u.key /\ v.file = u.file /\ v.result = u.result
      <3>1. "retire" \in Steps /\ Active(File(c).name) \in SUBSET Calls
        BY DEF Steps, InTransaction, Active, Stored
      <3> DEFINE w == [u EXCEPT !.pc = "retire", !.previous = Active(File(c).name)]
      <3>2. w \in Uploads /\ w.pc = "retire" /\ w.key = u.key /\ w.file = u.file /\ w.result = u.result
        BY <1>0, <3>1 DEF Uploads
      <3> QED
        BY <1>0, <2>1, <3>2, OneMoves
    <2> QED
      BY <2>1, <2>2, <1>0 DEF Shape, Continues, InsideTransaction, Outside,
         DataMove, Commits, AnswersMove, InTransaction
  <1>5. CASE StartRetiring(c)
    <2>1. /\ u.pc = "retire" /\ Keeps /\ indexed' = indexed /\ answered' = answered
          /\ upload' = [upload EXCEPT ![c] = [u EXCEPT !.pc = "retiring", !.seen = Active(File(c).name)]]
      BY <1>5 DEF StartRetiring, Keeps
    <2>2. OthersStay(c) /\ v.pc = "retiring" /\ v.key = u.key /\ v.file = u.file /\ v.result = u.result
          /\ v.seen = Active(u.file.name)
      <3>1. "retiring" \in Steps /\ Active(u.file.name) \in SUBSET Calls
        BY DEF Steps, InTransaction, Active, Stored
      <3> DEFINE w == [u EXCEPT !.pc = "retiring", !.seen = Active(u.file.name)]
      <3>2. w \in Uploads /\ w.pc = "retiring" /\ w.key = u.key /\ w.file = u.file /\ w.result = u.result
            /\ w.seen = Active(u.file.name)
        BY <1>0, <3>1 DEF Uploads
      <3> QED
        BY <1>0, <2>1, <3>2, OneMoves DEF File
    <2> QED
      BY <2>1, <2>2, <1>0 DEF Shape, Continues, InsideTransaction, Outside,
         DataMove, Commits, AnswersMove, InTransaction
  <1>6. CASE RetireDocuments(c)
    <2> DEFINE S == {d \in u.seen : document[d].active}
    <2>1. /\ u.pc = "retiring" /\ Keeps /\ indexed' = indexed /\ answered' = answered
          /\ upload' = [upload EXCEPT ![c] = [u EXCEPT !.pc = "replace", !.retired = S]]
      BY <1>6 DEF RetireDocuments, Keeps
    <2>2. OthersStay(c) /\ v.pc = "replace" /\ v.key = u.key /\ v.file = u.file /\ v.result = u.result
          /\ v.retired = S
      <3>1. "replace" \in Steps /\ S \in SUBSET Calls
        BY <1>0 DEF Steps, InTransaction, Uploads
      <3> DEFINE w == [u EXCEPT !.pc = "replace", !.retired = S]
      <3>2. w \in Uploads /\ w.pc = "replace" /\ w.key = u.key /\ w.file = u.file /\ w.result = u.result
            /\ w.retired = S
        <4> HIDE DEF S
        <4> QED BY <1>0, <3>1 DEF Uploads
      <3> QED
        BY <1>0, <2>1, <3>2, OneMoves
    <2> QED
      BY <2>1, <2>2, <1>0 DEF Shape, Continues, InsideTransaction, Outside,
         DataMove, Commits, AnswersMove, InTransaction
  <1>7. CASE StartReplacing(c)
    <2>1. /\ u.pc = "replace" /\ Keeps /\ indexed' = indexed /\ answered' = answered
          /\ upload' = [upload EXCEPT ![c] = [u EXCEPT !.pc = "replacing", !.seen = ToReplace(c)]]
      BY <1>7 DEF StartReplacing, Keeps
    <2>2. OthersStay(c) /\ v.pc = "replacing" /\ v.key = u.key /\ v.file = u.file /\ v.result = u.result
          /\ v.seen = ToReplace(c) /\ v.retired = u.retired
      <3>1. "replacing" \in Steps /\ ToReplace(c) \in SUBSET Calls
        BY <1>0 DEF Steps, InTransaction, ToReplace, InEffect, Uploads
      <3> DEFINE w == [u EXCEPT !.pc = "replacing", !.seen = ToReplace(c)]
      <3>2. w \in Uploads /\ w.pc = "replacing" /\ w.key = u.key /\ w.file = u.file /\ w.result = u.result
            /\ w.seen = ToReplace(c) /\ w.retired = u.retired
        BY <1>0, <3>1 DEF Uploads
      <3> QED
        BY <1>0, <2>1, <3>2, OneMoves
    <2> QED
      BY <2>1, <2>2, <1>0 DEF Shape, Continues, InsideTransaction, Outside,
         DataMove, Commits, AnswersMove, InTransaction
  <1>8. CASE ReplaceRows(c)
    <2> DEFINE S == {d \in u.seen : rows[d] = "active"}
    <2>1. /\ u.pc = "replacing" /\ Keeps /\ indexed' = indexed /\ answered' = answered
          /\ upload' = [upload EXCEPT ![c] = [u EXCEPT !.pc = "insert", !.replaced = S]]
      BY <1>8 DEF ReplaceRows, Keeps
    <2>2. OthersStay(c) /\ v.pc = "insert" /\ v.key = u.key /\ v.file = u.file /\ v.result = u.result
          /\ v.replaced = S /\ v.retired = u.retired
      <3>1. "insert" \in Steps /\ S \in SUBSET Calls
        BY <1>0 DEF Steps, InTransaction, Uploads
      <3> DEFINE w == [u EXCEPT !.pc = "insert", !.replaced = S]
      <3>2. w \in Uploads /\ w.pc = "insert" /\ w.key = u.key /\ w.file = u.file /\ w.result = u.result
            /\ w.replaced = S /\ w.retired = u.retired
        <4> HIDE DEF S
        <4> QED BY <1>0, <3>1 DEF Uploads
      <3> QED
        BY <1>0, <2>1, <3>2, OneMoves
    <2> QED
      BY <2>1, <2>2, <1>0 DEF Shape, Continues, InsideTransaction, Outside,
         DataMove, Commits, AnswersMove, InTransaction
  <1>9. CASE InsertDocument(c)
    <2>1. Keeps /\ indexed' = indexed /\ answered' = answered
      BY <1>9 DEF InsertDocument, Keeps
    <2>2. CASE Moves(c, "insert", "commit")
      <3>1. "commit" \in Steps
        BY DEF Steps, InTransaction
      <3> QED
        BY <2>1, <2>2, <3>1, MovesShape, <1>0 DEF Shape, Continues, InsideTransaction, Outside,
           DataMove, Commits, AnswersMove, InTransaction
    <2>3. CASE \E to \in {"refuse", "over"} : Leaves(c, "insert", to, Absent)
      <3>1. PICK to \in {"refuse", "over"} : Leaves(c, "insert", to, Absent)
        BY <2>3
      <3>2. to \in Steps
        BY DEF Steps
      <3> QED
        BY <2>1, <3>1, <3>2, LeavesShape, <1>0 DEF Shape, Continues, InsideTransaction, Outside,
           DataMove, Commits, AnswersMove, InTransaction
    <2> QED
      BY <1>9, <2>2, <2>3 DEF InsertDocument
  <1>10. CASE Commit(c)
    <2>1. Leaves(c, "commit", AfterImport(c), c) /\ indexed' = indexed /\ answered' = answered
      BY <1>10 DEF Commit
    <2>2. AfterImport(c) \in {"vectors", "respond"} /\ AfterImport(c) \in Steps
      BY DEF AfterImport, Steps
    <2>3. u.pc = "commit" => (AfterImport(c) = "vectors" \/ ~u.file.catalog)
      BY <1>0 DEF AfterImport, File
    <2>4. Settles(c)
      BY <1>10, CommitSettles
    <2> QED
      BY <2>1, <2>2, <2>3, <2>4, LeavesShape, <1>0 DEF Shape, Continues, InsideTransaction, Outside,
         DataMove, Commits, AnswersMove, InTransaction
  <1>11. CASE UpsertChunks(c)
    <2>1. Moves(c, "vectors", "respond") /\ Keeps /\ indexed' = indexed \cup {c} /\ answered' = answered
      BY <1>11 DEF UpsertChunks, Keeps
    <2>2. "respond" \in Steps
      BY DEF Steps
    <2> QED
      BY <2>1, <2>2, MovesShape, <1>0 DEF Shape, Continues, InsideTransaction, Outside,
         DataMove, Commits, AnswersMove, InTransaction
  <1>12. CASE CompleteRequest(c)
    <2>1. Moves(c, "respond", "over") /\ Keeps /\ indexed' = indexed
      BY <1>12 DEF CompleteRequest, Keeps
    <2>2. "over" \in Steps
      BY DEF Steps
    <2>3. AnswersMove(c)
      BY <1>12, <1>0 DEF CompleteRequest, Moves, AnswersMove, ResultOf, ImportTypeOK
    <2> QED
      BY <2>1, <2>2, <2>3, MovesShape, <1>0 DEF Shape, Continues, InsideTransaction, Outside,
         DataMove, Commits, InTransaction
  <1>13. CASE FailRequest(c)
    <2>1. Moves(c, "refuse", "over") /\ Keeps /\ indexed' = indexed
      BY <1>13 DEF FailRequest, Keeps
    <2>2. "over" \in Steps
      BY DEF Steps
    <2>3. AnswersMove(c)
      BY <1>13, <1>0 DEF FailRequest, AnswersMove, ImportTypeOK
    <2> QED
      BY <2>1, <2>2, <2>3, MovesShape, <1>0 DEF Shape, Continues, InsideTransaction, Outside,
         DataMove, Commits, InTransaction
  <1>14. CASE Crash(c)
    <2>1. Leaves(c, u.pc, "over", Absent) /\ u.pc # "idle" /\ Keeps /\ indexed' = indexed /\ answered' = answered
      BY <1>14 DEF Crash, Keeps
    <2>2. "over" \in Steps
      BY DEF Steps
    <2> QED
      BY <2>1, <2>2, LeavesShape, <1>0 DEF Shape, Continues, InsideTransaction, Outside,
         DataMove, Commits, AnswersMove, InTransaction
  <1> QED
    BY <1>1, <1>2, <1>3, <1>4, <1>5, <1>6, <1>7, <1>8, <1>9, <1>10, <1>11, <1>12, <1>13, <1>14
       DEF Ingest

(* Claims keep their type.                                                   *)
Claims ==
  [Keys -> [status : {"none", "processing", "completed", "failed"},
            name : {f.name : f \in Files} \cup {Absent},
            version : {f.version : f \in Files} \cup {Absent},
            result : Calls \cup {Absent}]]

LEMMA ClaimsAreTyped ==
  ASSUME ImportTypeOK, RequestsAreSound, NEW c \in Calls,
         \/ \E k \in Keys, f \in Files : UploadDocument(c, k, f)
         \/ Ingest(c) \/ CompleteRequest(c) \/ FailRequest(c) \/ Crash(c)
  PROVE  answered' \in Claims
PROOF
  <1>1. answered \in Claims
    BY DEF ImportTypeOK, Claims
  <1>2. upload[c].result \in Calls \cup {Absent}
    BY DEF ImportTypeOK
  <1>3. CASE \E k \in Keys, f \in Files : UploadDocument(c, k, f)
    <2> PICK k \in Keys, f \in Files : UploadDocument(c, k, f)
      BY <1>3
    <2>1. CASE answered' = answered
      BY <1>1, <2>1
    <2>2. CASE answered' = [answered EXCEPT ![k].status = "processing", ![k].name = f.name,
                                            ![k].version = f.version]
      BY <1>1, <2>2 DEF Claims
    <2> QED
      BY <2>1, <2>2 DEF UploadDocument
  <1>4. CASE CompleteRequest(c)
    <2>1. PICK k, r : /\ r \in Calls \cup {Absent}
                      /\ answered' = [answered EXCEPT ![k].status = "completed", ![k].result = r]
      <3>1. PICK r : r = IF upload[c].result = Absent THEN c ELSE upload[c].result
        OBVIOUS
      <3>2. r \in Calls \cup {Absent}
        BY <1>2, <3>1
      <3>3. QED BY <1>4, <3>1, <3>2 DEF CompleteRequest
    <2>2. QED BY <1>1, <2>1 DEF Claims
  <1>5. CASE FailRequest(c)
    BY <1>1, <1>5 DEF FailRequest, Claims
  <1>6. CASE Ingest(c) \/ Crash(c)
    BY <1>1, <1>6 DEF Ingest, Crash, Parse, FindVersion, FindPrevious, StartRetiring,
       RetireDocuments, StartReplacing, ReplaceRows, InsertDocument, Commit, UpsertChunks
  <1> QED
    BY <1>3, <1>4, <1>5, <1>6

-----------------------------------------------------------------------------
(* What stays whatever a call does *)

LEMMA TypesStay ==
  ASSUME ImportTypeOK, NEW c \in Calls, Shape(c), answered' \in Claims
  PROVE  ImportTypeOK'
PROOF
  <1>1. upload' \in [Calls -> Uploads] /\ indexed' \subseteq Calls
    BY DEF Shape, OthersStay
  <1>2. /\ document' \in [Calls -> [stored : BOOLEAN, active : BOOLEAN]]
        /\ rows' \in [Calls -> {"none", "active", "inactive"}]
        /\ beside' \in [Calls -> SUBSET Calls]
    BY DEF Shape, DataMove, Settles, Keeps, ImportTypeOK
  <1> QED
    BY <1>1, <1>2 DEF ImportTypeOK, Uploads, Claims

(* The file of a call that has begun is its file for good.                   *)
LEMMA FilesStay ==
  ASSUME ImportTypeOK, RequestsAreSound, NEW c \in Calls, Shape(c), NEW d \in Calls,
         upload[d].file \in Files
  PROVE  upload'[d].file = upload[d].file
  BY FilesAssumption DEF RequestsAreSound, Shape, OthersStay, Begins, Continues

LEMMA DocumentsStay ==
  ASSUME ImportTypeOK, RequestsAreSound, DocumentsAreSound, NEW c \in Calls, Shape(c),
         NEW d \in Calls, document[d].stored
  PROVE  document'[d].stored /\ upload'[d].file = upload[d].file /\ upload[d].file \in Files
PROOF
  <1>1. upload[d].file \in Files /\ upload'[d].file = upload[d].file
    BY FilesStay DEF DocumentsAreSound
  <1>2. document'[d].stored
    BY DEF Shape, DataMove, Settles, Keeps
  <1> QED
    BY <1>1, <1>2

LEMMA CommitsBegin ==
  ASSUME RequestsAreSound, NEW c \in Calls, Shape(c), Commits(c)
  PROVE  /\ Settles(c) /\ ~document[c].stored /\ upload[c].pc = "commit"
         /\ upload[c].file \in Files /\ upload[c].file.table # Absent
         /\ upload'[c].file = upload[c].file
  BY DEF RequestsAreSound, Shape, DataMove, Commits, Begins, Continues, Before, InTransaction

(* One name is one table.                                                    *)
LEMMA OlderIsOfTheTable ==
  ASSUME DocumentsAreSound, RetiresOlder, NEW c \in Calls, upload[c].pc \in Retired,
         upload[c].file \in Files, NEW d \in upload[c].retired, d \in Calls
  PROVE  document[d].stored /\ upload[d].file.table = upload[c].file.table
  BY FilesAssumption DEF RetiresOlder, Older, DocumentsAreSound

-----------------------------------------------------------------------------
(* Each part of the invariant *)

LEMMA RequestsStaySound ==
  ASSUME ImportTypeOK, RequestsAreSound, NEW c \in Calls, Shape(c)
  PROVE  RequestsAreSound'
PROOF
  <1> SUFFICES ASSUME NEW o \in Calls
               PROVE  /\ upload'[o].pc = "idle" => upload'[o].file = Absent
                      /\ upload'[o].pc \notin {"idle", "over"} =>
                            upload'[o].file \in Files /\ upload'[o].key \in Keys
                      /\ upload'[o].pc \in InTransaction => upload'[o].file.table # Absent
                      /\ upload'[o].pc \in Before => ~document'[o].stored
                      /\ upload'[o].pc \in InTransaction \cup {"parse"} => upload'[o].result = Absent
    BY DEF RequestsAreSound
  <1>1. CASE o # c
    <2>1. upload'[o] = upload[o] /\ (document'[o].stored <=> document[o].stored)
      BY <1>1 DEF Shape, OthersStay, DataMove, Settles, Keeps
    <2> QED
      BY <2>1 DEF RequestsAreSound
  <1>2. CASE o = c
    <2>1. upload'[c].pc \in Steps
      BY DEF Shape, OthersStay, Uploads
    <2>2. CASE Begins(c)
      <3>1. upload'[c].pc \notin InTransaction /\ ~Commits(c) /\ upload[c].pc \in Before
        BY <2>2 DEF Begins, Commits, InTransaction, Before
      <3>2. ~document'[c].stored
        BY <3>1 DEF Shape, DataMove, Keeps, RequestsAreSound
      <3> QED
        BY <1>2, <2>2, <3>1, <3>2 DEF Begins
    <2>3. CASE Continues(c)
      <3>1. upload'[c].pc # "over" => upload[c].pc \notin {"idle", "over"}
        BY <2>1, <2>3 DEF Shape, Continues, InsideTransaction, Outside, Steps, InTransaction
      <3>2. upload'[c].pc \in Before => upload[c].pc \in Before /\ ~Commits(c)
        BY <2>3 DEF Shape, Continues, InsideTransaction, Outside, Before, InTransaction, Commits
      <3>3. upload'[c].pc \in Before => ~document'[c].stored
        BY <3>2 DEF Shape, DataMove, Keeps, RequestsAreSound
      <3>4. upload'[c].pc \in InTransaction =>
              upload'[c].file.table # Absent /\ upload'[c].result = Absent
        BY <2>3 DEF Shape, Continues, InsideTransaction, RequestsAreSound
      <3> QED
        BY <1>2, <2>3, <3>1, <3>3, <3>4 DEF Continues, RequestsAreSound
    <2> QED
      BY <2>2, <2>3 DEF Shape
  <1> QED
    BY <1>1, <1>2

LEMMA DocumentsStaySound ==
  ASSUME ImportTypeOK, RequestsAreSound, DocumentsAreSound, RetiresOlder, NEW c \in Calls, Shape(c)
  PROVE  DocumentsAreSound'
PROOF
  <1> SUFFICES ASSUME NEW d \in Calls
               PROVE  /\ document'[d].stored =>
                            upload'[d].file \in Files /\ upload'[d].file.table # Absent
                      /\ document'[d].active \/ rows'[d] # "none" => document'[d].stored
    BY DEF DocumentsAreSound
  <1>1. CASE ~Commits(c)
    <2>1. document' = document /\ rows' = rows
      BY <1>1 DEF Shape, DataMove, Keeps
    <2> QED
      BY <2>1, DocumentsStay DEF DocumentsAreSound
  <1>2. CASE Commits(c)
    <2>1. /\ Settles(c) /\ upload[c].pc = "commit" /\ upload[c].file \in Files
          /\ upload[c].file.table # Absent /\ upload'[c].file = upload[c].file
      BY <1>2, CommitsBegin
    <2>2. CASE d = c
      BY <2>1, <2>2 DEF Settles
    <2>3. CASE d # c
      <3>1. d \in upload[c].replaced => document[d].stored
        BY <2>1 DEF RetiresOlder, Replaced
      <3>2. document'[d].stored => document[d].stored
        BY <2>1, <2>3 DEF Settles
      <3>3. document'[d].active \/ rows'[d] # "none" => document[d].stored
        BY <2>1, <2>3, <3>1 DEF Settles, DocumentsAreSound
      <3> QED
        BY <3>2, <3>3, DocumentsStay DEF DocumentsAreSound
    <2> QED
      BY <2>2, <2>3
  <1> QED
    BY <1>1, <1>2

LEMMA RetiresOlderStill ==
  ASSUME ImportTypeOK, RequestsAreSound, DocumentsAreSound, RetiresOlder, NEW c \in Calls, Shape(c)
  PROVE  RetiresOlder'
PROOF
  <1> SUFFICES ASSUME NEW o \in Calls
               PROVE  /\ upload'[o].pc = "retiring" => \A d \in upload'[o].seen : Older(o, d)'
                      /\ upload'[o].pc \in Retired => \A d \in upload'[o].retired : Older(o, d)'
                      /\ upload'[o].pc \in Replaced =>
                            \A d \in upload'[o].replaced : document'[d].stored
    BY DEF RetiresOlder
  <1>1. upload' \in [Calls -> Uploads] /\ upload \in [Calls -> Uploads]
    BY UploadsAreTyped DEF Shape, OthersStay
  <1>2. /\ upload'[o].seen \subseteq Calls /\ upload'[o].retired \subseteq Calls
        /\ upload'[o].replaced \subseteq Calls
    BY <1>1 DEF Uploads
  <1>3. ASSUME NEW d \in Calls, Older(o, d), upload'[o].file = upload[o].file
        PROVE  Older(o, d)'
    BY <1>3, DocumentsStay DEF Older
  <1>4. CASE o # c
    <2>1. upload'[o] = upload[o]
      BY <1>4 DEF Shape, OthersStay
    <2> QED
      BY <1>2, <1>3, <2>1, DocumentsStay DEF RetiresOlder
  <1>5. CASE o = c
    <2>1. upload'[c].pc \in {"retiring"} \cup Retired \cup Replaced =>
             upload'[c].pc \in InTransaction /\ upload'[c].file = upload[c].file
      BY DEF Shape, Begins, Continues, InTransaction, Retired, Replaced
    <2>2. ASSUME upload'[c].pc = "retiring", NEW d \in upload'[c].seen
          PROVE  Older(c, d)'
      <3>1. d \in Active(upload[c].file.name)
        BY <2>1, <2>2 DEF Shape, InsideTransaction
      <3>2. d \in Calls /\ Older(c, d)
        BY <3>1 DEF Active, Stored, File, Older
      <3> QED
        BY <1>3, <1>5, <2>1, <2>2, <3>2
    <2>3. ASSUME upload'[c].pc \in Retired, NEW d \in upload'[c].retired
          PROVE  Older(c, d)'
      <3>1. d \in Calls
        BY <1>2, <1>5, <2>3
      <3>2. Older(c, d)
        <4>1. CASE upload'[c].pc = "replace"
          BY <2>1, <2>3, <4>1 DEF Shape, InsideTransaction, RetiresOlder
        <4>2. CASE upload'[c].pc # "replace"
          BY <2>1, <2>3, <4>2 DEF Shape, InsideTransaction, RetiresOlder, Retired
        <4> QED
          BY <4>1, <4>2
      <3> QED
        BY <1>3, <1>5, <2>1, <2>3, <3>1, <3>2
    <2>4. ASSUME upload'[c].pc \in Replaced, NEW d \in upload'[c].replaced
          PROVE  document'[d].stored
      <3>1. d \in Calls
        BY <1>2, <1>5, <2>4
      <3>2. CASE upload'[c].pc = "insert"
        <4>1. rows[d] = "active"
          BY <2>1, <2>4, <3>2 DEF Shape, InsideTransaction
        <4> QED
          BY <3>1, <4>1, DocumentsStay DEF DocumentsAreSound
      <3>3. CASE upload'[c].pc = "commit"
        <4>1. upload[c].pc = "insert" /\ d \in upload[c].replaced
          BY <2>1, <2>4, <3>3 DEF Shape, InsideTransaction
        <4> QED
          BY <3>1, <4>1, DocumentsStay DEF RetiresOlder, Replaced
      <3> QED
        BY <2>4, <3>2, <3>3 DEF Replaced
    <2> QED
      BY <1>5, <2>2, <2>3, <2>4
  <1> QED
    BY <1>4, <1>5

(* Rows in effect were in effect before, or have just been committed.        *)
LEMMA RowsCameFrom ==
  ASSUME ImportTypeOK, RequestsAreSound, DocumentsAreSound, NEW c \in Calls, Shape(c),
         NEW d \in Calls, rows'[d] = "active", ~(Commits(c) /\ d = c)
  PROVE  /\ rows[d] = "active" /\ document[d].stored
         /\ upload'[d].file = upload[d].file /\ upload[d].file \in Files
         /\ Commits(c) => d # c /\ d \notin upload[c].replaced
PROOF
  <1>1. rows[d] = "active" /\ (Commits(c) => d # c /\ d \notin upload[c].replaced)
    BY DEF Shape, DataMove, Settles, Keeps
  <1>2. document[d].stored
    BY <1>1 DEF DocumentsAreSound
  <1> QED
    BY <1>1, <1>2, DocumentsStay

LEMMA ReplacesEnoughStill ==
  ASSUME ImportTypeOK, RequestsAreSound, DocumentsAreSound, RetiresOlder, ReplacesEnough,
         RetiresOlder', NEW c \in Calls, Shape(c)
  PROVE  ReplacesEnough'
PROOF
  <1> SUFFICES ASSUME NEW o \in Calls, upload'[o].pc \in {"replacing"} \cup Replaced,
                      upload'[o].file.table \in Flagged, NEW d \in Calls, rows'[d] = "active"
               PROVE  /\ d \in upload'[o].retired => d \in Covered(o)'
                      /\ upload'[d].file.table = upload'[o].file.table =>
                            d \in Covered(o)' \cup beside'[o]
    BY DEF ReplacesEnough
  <1>1. CASE o # c
    <2>1. upload'[o] = upload[o]
      BY <1>1 DEF Shape, OthersStay
    <2>2. Covered(o)' = Covered(o)
      BY <2>1 DEF Covered
    <2>3. beside[o] \subseteq beside'[o]
      BY DEF Shape, DataMove, Settles, Keeps
    <2>4. CASE Commits(c) /\ d = c
      <3>1. Settles(c) /\ ~document[c].stored
        BY <2>4, CommitsBegin
      <3>2. upload[o].pc \in InTransaction /\ upload[o].pc \in Retired
        BY <2>1 DEF InTransaction, Replaced, Retired
      <3>3. c \in beside'[o]
        BY <1>1, <3>1, <3>2 DEF Settles
      <3>4. c \notin upload[o].retired
        BY <3>1, <3>2 DEF RetiresOlder, Older
      <3> QED
        BY <2>1, <2>4, <3>3, <3>4
    <2>5. CASE ~(Commits(c) /\ d = c)
      <3>1. rows[d] = "active" /\ upload'[d].file = upload[d].file
        BY <2>5, RowsCameFrom
      <3> QED
        BY <2>1, <2>2, <2>3, <3>1 DEF ReplacesEnough
    <2> QED
      BY <2>4, <2>5
  <1>2. CASE o = c
    <2>1. /\ upload'[c].pc \in InTransaction /\ upload'[c].pc \in Retired
          /\ upload'[c].file = upload[c].file /\ ~Commits(c)
      BY <1>2 DEF Shape, Begins, Continues, Commits, InTransaction, Retired, Replaced
    <2>2. /\ rows' = rows /\ beside' = beside
          /\ rows[d] = "active" /\ upload'[d].file = upload[d].file
      BY <2>1, RowsCameFrom DEF Shape, DataMove, Keeps
    <2>3. upload[c].pc \in Retired /\ upload'[c].retired = upload[c].retired
      BY <1>2, <2>1 DEF Shape, InsideTransaction, Retired, Replaced
    <2>4. CASE upload'[c].pc = "replacing"
      <3>1. upload'[c].seen = ToReplace(c) /\ Covered(c)' = upload'[c].seen
        BY <2>1, <2>4 DEF Shape, InsideTransaction, Covered
      <3>2. Covered(c)' = InEffect(upload[c].file.table)
        BY <1>2, <2>1, <3>1 DEF ToReplace, File
      <3>3. upload[c].file \in Files
        BY <2>3 DEF RequestsAreSound, Retired
      <3>4. d \in upload[c].retired => upload[d].file.table = upload[c].file.table
        BY <2>3, <3>3, OlderIsOfTheTable
      <3>5. upload[d].file.table = upload[c].file.table => d \in Covered(c)'
        BY <2>2, <3>2 DEF InEffect, File
      <3> QED
        BY <1>2, <2>1, <2>2, <2>3, <3>4, <3>5
    <2>5. CASE upload'[c].pc \in Replaced
      <3>1. upload[c].pc \in {"replacing"} \cup Replaced
        BY <2>1, <2>5 DEF Shape, InsideTransaction, Replaced
      <3>2. d \in Covered(c) => d \in Covered(c)'
        <4>1. Covered(c)' = upload'[c].replaced
          BY <2>5 DEF Covered, Replaced
        <4>2. CASE upload'[c].pc = "insert"
          BY <2>1, <2>2, <4>1, <4>2 DEF Shape, InsideTransaction, Covered
        <4>3. CASE upload'[c].pc = "commit"
          BY <2>1, <2>2, <4>1, <4>3 DEF Shape, InsideTransaction, Covered
        <4> QED
          BY <2>5, <4>2, <4>3 DEF Replaced
      <3>3. /\ d \in upload[c].retired => d \in Covered(c)
            /\ upload[d].file.table = upload[c].file.table => d \in Covered(c) \cup beside[c]
        BY <1>2, <2>1, <2>2, <3>1 DEF ReplacesEnough
      <3> QED
        BY <1>2, <2>1, <2>2, <2>3, <3>2, <3>3
    <2> QED
      BY <1>2, <2>4, <2>5
  <1> QED
    BY <1>1, <1>2

LEMMA RowsStillFollow ==
  ASSUME ImportTypeOK, RequestsAreSound, DocumentsAreSound, RetiresOlder, ReplacesEnough,
         RowsFollowTheirDocument, DocumentsAreSound', NEW c \in Calls, Shape(c)
  PROVE  RowsFollowTheirDocument'
PROOF
  <1> SUFFICES ASSUME NEW d \in Calls, rows'[d] = "active", upload'[d].file.table \in Flagged
               PROVE  document'[d].stored /\ document'[d].active
    BY DEF RowsFollowTheirDocument, File
  <1>1. CASE Commits(c) /\ d = c
    BY <1>1, CommitsBegin DEF Settles
  <1>2. CASE ~(Commits(c) /\ d = c)
    <2>1. /\ rows[d] = "active" /\ document[d].stored /\ upload'[d].file = upload[d].file
          /\ Commits(c) => d # c /\ d \notin upload[c].replaced
      BY <1>2, RowsCameFrom
    <2>2. document[d].active
      BY <2>1 DEF RowsFollowTheirDocument, File
    <2>3. CASE ~Commits(c)
      BY <2>1, <2>2, <2>3 DEF Shape, DataMove, Keeps
    <2>4. CASE Commits(c)
      <3>1. Settles(c) /\ upload[c].pc = "commit" /\ upload[c].file \in Files
        BY <2>4, CommitsBegin
      <3>2. ASSUME d \in upload[c].retired
            PROVE  FALSE
        <4>1. upload[d].file.table = upload[c].file.table
          BY <3>1, <3>2, OlderIsOfTheTable DEF Retired
        <4>2. upload[c].file.table \in Flagged
          BY <2>1, <4>1
        <4>3. d \in Covered(c)
          BY <2>1, <3>1, <3>2, <4>2 DEF ReplacesEnough, Replaced
        <4> QED
          BY <2>1, <2>4, <3>1, <4>3 DEF Covered
      <3> QED
        BY <2>1, <2>2, <2>4, <3>1, <3>2 DEF Settles
    <2> QED
      BY <2>3, <2>4
  <1> QED
    BY <1>1, <1>2

(* What a commit leaves in effect of its own table was committed beside it.  *)
LEMMA OthersWereBeside ==
  ASSUME ImportTypeOK, RequestsAreSound, DocumentsAreSound, RetiresOlder, ReplacesEnough,
         NEW c \in Calls, Shape(c), Commits(c), NEW e \in Calls, e # c, rows'[e] = "active",
         upload'[e].file.table = upload'[c].file.table, upload'[c].file.table \in Flagged
  PROVE  e \in beside'[c]
PROOF
  <1>1. Settles(c) /\ upload[c].pc = "commit" /\ upload'[c].file = upload[c].file
    BY CommitsBegin
  <1>2. /\ rows[e] = "active" /\ upload'[e].file = upload[e].file
        /\ e \notin upload[c].replaced
    BY RowsCameFrom
  <1>3. e \in Covered(c) \cup beside[c]
    BY <1>1, <1>2 DEF ReplacesEnough, Replaced
  <1>4. Covered(c) = upload[c].replaced
    BY <1>1 DEF Covered
  <1> QED
    BY <1>1, <1>2, <1>3, <1>4 DEF Settles

LEMMA OneFileStill ==
  ASSUME ImportTypeOK, RequestsAreSound, DocumentsAreSound, RetiresOlder, ReplacesEnough,
         OneFileInEffect, NEW c \in Calls, Shape(c)
  PROVE  OneFileInEffect'
PROOF
  <1> SUFFICES ASSUME NEW d \in Calls, NEW e \in Calls, d # e, rows'[d] = "active",
                      rows'[e] = "active", upload'[d].file.table = upload'[e].file.table,
                      upload'[d].file.table \in Flagged
               PROVE  d \in beside'[e] \/ e \in beside'[d]
    BY DEF OneFileInEffect, File
  <1>1. CASE Commits(c) /\ d = c
    BY <1>1, OthersWereBeside
  <1>2. CASE Commits(c) /\ e = c
    BY <1>2, OthersWereBeside
  <1>3. CASE ~(Commits(c) /\ d = c) /\ ~(Commits(c) /\ e = c)
    <2>1. /\ rows[d] = "active" /\ upload'[d].file = upload[d].file
          /\ rows[e] = "active" /\ upload'[e].file = upload[e].file
      BY <1>3, RowsCameFrom
    <2>2. beside[d] \subseteq beside'[d] /\ beside[e] \subseteq beside'[e]
      BY DEF Shape, DataMove, Settles, Keeps
    <2> QED
      BY <2>1, <2>2 DEF OneFileInEffect, File
  <1> QED
    BY <1>1, <1>2, <1>3

-----------------------------------------------------------------------------
(* Answers *)

LEMMA MayAnswerStill ==
  ASSUME ImportTypeOK, RequestsAreSound, DocumentsAreSound, NEW c \in Calls, Shape(c),
         NEW d \in Calls, MayAnswer(d)
  PROVE  MayAnswer(d)' /\ upload'[d].file = upload[d].file
  BY FilesStay, DocumentsStay DEF MayAnswer

LEMMA FoundStill ==
  ASSUME ImportTypeOK, RequestsAreSound, DocumentsAreSound, NEW c \in Calls, Shape(c),
         NEW d \in Calls, MayAnswer(d), Found(d)
  PROVE  Found(d)'
PROOF
  <1>1. upload[d].file \in Files /\ upload'[d].file = upload[d].file
    BY MayAnswerStill DEF MayAnswer
  <1>2. CASE ~(upload[d].file.table = Absent \/ upload[d].file.catalog)
    BY <1>1, <1>2 DEF Found
  <1>3. CASE upload[d].file.table = Absent \/ upload[d].file.catalog
    <2>1. PICK e \in indexed : upload[e].file = upload[d].file
      BY <1>3 DEF Found
    <2>2. e \in Calls /\ e \in indexed'
      BY DEF ImportTypeOK, Shape
    <2>3. upload'[e].file = upload[e].file
      BY <1>1, <2>1, <2>2, FilesStay
    <2> QED
      BY <1>1, <2>1, <2>2, <2>3 DEF Found
  <1> QED
    BY <1>2, <1>3

LEMMA AnswersStayReady ==
  ASSUME ImportTypeOK, RequestsAreSound, DocumentsAreSound, AnswersAreReady,
         NEW c \in Calls, Shape(c)
  PROVE  AnswersAreReady'
PROOF
  <1> SUFFICES ASSUME NEW o \in Calls, upload'[o].pc \in {"vectors", "respond"}
               PROVE  /\ ResultOf(o)' \in Calls /\ MayAnswer(ResultOf(o))'
                      /\ upload'[o].pc = "vectors" => upload'[ResultOf(o)'].file = upload'[o].file
                      /\ upload'[o].pc = "respond" => Found(ResultOf(o))'
    BY DEF AnswersAreReady
  <1>1. CASE o # c
    <2>1. upload'[o] = upload[o] /\ ResultOf(o)' = ResultOf(o)
      BY <1>1 DEF Shape, OthersStay, ResultOf
    <2>2. /\ ResultOf(o) \in Calls /\ MayAnswer(ResultOf(o))
          /\ upload[o].pc = "vectors" => upload[ResultOf(o)].file = upload[o].file
          /\ upload[o].pc = "respond" => Found(ResultOf(o))
      BY <2>1 DEF AnswersAreReady
    <2> DEFINE r == ResultOf(o)
    <2>3. MayAnswer(r)' /\ upload'[r].file = upload[r].file
      BY <2>1, <2>2, MayAnswerStill DEF MayAnswer
    <2>4. upload[o].pc = "respond" => Found(r)'
      BY <2>1, <2>2, FoundStill DEF Found
    <2> QED
      BY <2>1, <2>2, <2>3, <2>4 DEF MayAnswer, Found
  <1>2. CASE o = c
    <2> DEFINE u == upload[c]
               v == upload'[c]
    <2>1. /\ v.pc \in {"vectors", "respond"} /\ v.file = u.file /\ u.file \in Files
          /\ Absent \notin Calls
      BY <1>2, FilesAssumption DEF Shape, Begins, Continues, Outside, RequestsAreSound,
         InTransaction
    <2>2. CASE u.pc = "parse" /\ v.pc = "vectors" /\ u.file.table = Absent /\ v.result = u.result
      <3>1. ResultOf(c)' = c
        BY <2>2 DEF ResultOf, RequestsAreSound
      <3>2. MayAnswer(c)'
        BY <2>1, <2>2 DEF MayAnswer
      <3> QED
        BY <1>2, <2>1, <2>2, <3>1, <3>2 DEF MayAnswer
    <2>3. CASE /\ u.pc = "version" /\ (v.pc = "vectors" \/ ~u.file.catalog)
               /\ v.result \in Stored(u.file.name)
               /\ upload[v.result].file.version = u.file.version
               /\ upload[v.result].file.content = u.file.content
      <3> DEFINE r == v.result
      <3>1. /\ r \in Calls /\ document[r].stored /\ upload[r].file.name = u.file.name
            /\ u.file.table # Absent
        BY <2>3 DEF Stored, File, RequestsAreSound, InTransaction
      <3>2. upload[r].file \in Files
        BY <3>1 DEF DocumentsAreSound
      <3>3. upload[r].file = u.file
        BY <2>1, <2>3, <3>1, <3>2, FilesAssumption
      <3>4. document'[r].stored /\ upload'[r].file = upload[r].file
        BY <3>1, DocumentsStay
      <3>5. ResultOf(c)' = r
        BY <2>1, <3>1 DEF ResultOf
      <3>6. /\ upload'[r].file \in Files /\ upload'[r].file = v.file
            /\ v.pc = "respond" => ~upload'[r].file.catalog /\ upload'[r].file.table # Absent
        BY <2>1, <2>3, <3>1, <3>2, <3>3, <3>4
      <3> QED
        BY <1>2, <3>1, <3>4, <3>5, <3>6 DEF MayAnswer, Found
    <2>4. CASE u.pc = "commit" /\ v.result = c /\ (v.pc = "vectors" \/ ~u.file.catalog)
      <3>1. ResultOf(c)' = c
        BY <2>4 DEF ResultOf
      <3>2. document'[c].stored /\ u.file.table # Absent
        BY <2>1, <2>4, CommitsBegin DEF Settles, Commits
      <3> QED
        BY <1>2, <2>1, <2>4, <3>1, <3>2 DEF MayAnswer, Found
    <2>5. CASE u.pc = "vectors" /\ v.pc = "respond" /\ v.result = u.result /\ c \in indexed'
      <3> DEFINE r == ResultOf(c)
      <3>1. ResultOf(c)' = r
        BY <2>5 DEF ResultOf
      <3>2. r \in Calls /\ MayAnswer(r) /\ upload[r].file = u.file
        BY <2>5 DEF AnswersAreReady
      <3>3. MayAnswer(r)' /\ upload'[r].file = upload[r].file
        BY <3>1, <3>2, MayAnswerStill DEF MayAnswer
      <3>4. \E e \in indexed' : upload'[e].file = upload'[r].file
        BY <2>1, <2>5, <3>2, <3>3
      <3> HIDE DEF r
      <3>5. r \in Calls /\ (upload'[r].file \in Files)
            /\ (upload'[r].file.table # Absent => document'[r].stored)
        <4> QED
          BY <3>1, <3>2, <3>3 DEF MayAnswer, r
      <3> QED
        BY <1>2, <2>5, <3>1, <3>4, <3>5 DEF MayAnswer, Found
    <2> QED
      BY <1>2, <2>2, <2>3, <2>4, <2>5 DEF Shape, Outside
  <1> QED
    BY <1>1, <1>2

LEMMA AnswersStaySound ==
  ASSUME ImportTypeOK, RequestsAreSound, DocumentsAreSound, AnswersAreReady, AnswersAreSound,
         NEW c \in Calls, Shape(c)
  PROVE  AnswersAreSound'
PROOF
  <1> SUFFICES ASSUME NEW k \in Keys, answered'[k].status = "completed"
               PROVE  /\ answered'[k].result \in Calls
                      /\ MayAnswer(answered[k].result)' /\ Found(answered[k].result)'
    BY DEF AnswersAreSound
  <1> DEFINE r == answered'[k].result
  <1>1. r \in Calls /\ MayAnswer(r) /\ Found(r)
    BY DEF Shape, AnswersMove, AnswersAreSound, AnswersAreReady
  <1>2. PICK d \in Calls : d = r /\ MayAnswer(d) /\ Found(d)
    BY <1>1
  <1>3. MayAnswer(d)' /\ Found(d)'
    BY <1>2, MayAnswerStill, FoundStill
  <1> QED
    BY <1>2, <1>3 DEF MayAnswer, Found

-----------------------------------------------------------------------------
(* The invariant *)

LEMMA ImportStarts == ImportInit => ImportInvariant
PROOF
  <1> SUFFICES ASSUME ImportInit PROVE ImportInvariant
    OBVIOUS
  <1>1. ImportTypeOK
    <2>1. NoUpload \in Uploads
      BY DEF NoUpload, Uploads, Steps
    <2>2. upload \in [Calls -> Uploads] /\ answered \in Claims
      BY <2>1 DEF ImportInit, Claims
    <2> QED
      BY <2>2 DEF ImportInit, ImportTypeOK, Uploads, Claims
  <1>2. \A c \in Calls : /\ upload[c].pc = "idle" /\ upload[c].file = Absent
                         /\ upload[c].result = Absent /\ ~document[c].stored
                         /\ ~document[c].active /\ rows[c] = "none"
    BY DEF ImportInit, NoUpload
  <1>3. \A k \in Keys : answered[k].status = "none"
    BY DEF ImportInit
  <1> QED
    BY <1>1, <1>2, <1>3 DEF ImportInvariant, RequestsAreSound, DocumentsAreSound, RetiresOlder,
       ReplacesEnough, RowsFollowTheirDocument, OneFileInEffect, AnswersAreReady, AnswersAreSound,
       InTransaction, Retired, Replaced

LEMMA ImportContinues ==
  ASSUME ImportInvariant, [ImportNext]_importVars
  PROVE  ImportInvariant'
PROOF
  <1> USE DEF ImportInvariant
  <1>1. CASE ImportNext
    <2>1. PICK c \in Calls : \/ \E k \in Keys, f \in Files : UploadDocument(c, k, f)
                             \/ Ingest(c) \/ CompleteRequest(c) \/ FailRequest(c) \/ Crash(c)
      BY <1>1 DEF ImportNext
    <2>2. Shape(c) /\ answered' \in Claims
      BY <2>1, StepsHaveShape, ClaimsAreTyped
    <2>3. ImportTypeOK' /\ RequestsAreSound' /\ DocumentsAreSound' /\ RetiresOlder'
      BY <2>2, TypesStay, RequestsStaySound, DocumentsStaySound, RetiresOlderStill
    <2>4. ReplacesEnough' /\ RowsFollowTheirDocument' /\ OneFileInEffect'
      BY <2>2, <2>3, ReplacesEnoughStill, RowsStillFollow, OneFileStill
    <2>5. AnswersAreReady' /\ AnswersAreSound'
      BY <2>2, AnswersStayReady, AnswersStaySound
    <2> QED
      BY <2>3, <2>4, <2>5
  <1>2. CASE UNCHANGED importVars
    BY <1>2 DEF importVars, ImportTypeOK, RequestsAreSound, DocumentsAreSound, RetiresOlder, Older,
       ReplacesEnough, Covered, RowsFollowTheirDocument, OneFileInEffect, File, AnswersAreReady,
       AnswersAreSound, MayAnswer, Found, ResultOf
  <1> QED
    BY <1>1, <1>2

(* The inductive invariant holds whatever the uploads, their order and their  *)
(* crashes (upload_document, ingest).                                         *)
THEOREM ImportInvariance == ImportSpec => []ImportInvariant
PROOF
  <1>1. ImportInit => ImportInvariant
    BY ImportStarts
  <1>2. ImportInvariant /\ [ImportNext]_importVars => ImportInvariant'
    BY ImportContinues
  <1> QED
    BY <1>1, <1>2, PTL DEF ImportSpec

(* Uploads have their types, rows in effect belong to a document in effect,   *)
(* and an answer of success is true, also when it is given again              *)
(* (upload_document, ingest, already_imported).                               *)
THEOREM ImportsHold == ImportSpec => []ImportsInv
PROOF
  <1>1. ImportInvariant => ImportsInv
    BY DEF ImportInvariant, ImportsInv, AnswersAreTrue, AnswersAreSound, MayAnswer, Found, File
  <1> QED
    BY <1>1, ImportInvariance, PTL

(* Two files feed one table of the flagged at the same time only if they were *)
(* imported at the same time (ingest).                                        *)
THEOREM FilesTakeTurns == ImportSpec => []OneFileInEffect
PROOF
  <1>1. ImportInvariant => OneFileInEffect
    BY DEF ImportInvariant
  <1> QED
    BY <1>1, ImportInvariance, PTL
=============================================================================
