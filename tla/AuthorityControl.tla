--------------------------- MODULE AuthorityControl ---------------------------
(***************************************************************************)
(* The authority of the AI in one business: its settings, the policy of    *)
(* one action, its principal and the approvals it asks for                 *)
(* (app/authority/service.py), with administrators who change them while   *)
(* evaluations run.                                                        *)
(*                                                                         *)
(* evaluate_action reads the settings, the principal, the policy and the   *)
(* scope in statements of one transaction that locks nothing (READ         *)
(* COMMITTED), so what it read may have changed when it decides; each      *)
(* statement is an action.  The approval is read FOR UPDATE.               *)
(***************************************************************************)
EXTENDS AuthorityRules, Sequences

CONSTANTS
    Action,        \* the action type under study
    Facts,         \* facts it may be judged by
    Scopes,        \* grantable scopes
    SettingsValues, PolicyValues, DefaultSettings,
    Roles,         \* of the members who answer approvals
    Starters,      \* calls that may find the business uninitialised
    Admins,
    Evaluators,
    Ledger,        \* the evaluators that speak for an action of the ledger
    Previews,      \* those that may not create an approval
    MaxVersions, MaxApprovals  \* bounds

ASSUME ControlAssumption ==
    /\ Action \in DOMAIN DefaultPolicies
    /\ Ledger \subseteq Evaluators /\ Previews \subseteq Evaluators
    /\ DefaultSettings \in SettingsValues /\ DefaultPolicies[Action] \in PolicyValues
    /\ MaxVersions \in Nat \ {0} /\ MaxApprovals \in Nat

VARIABLES
    settings,    \* business_setting_versions; the last one is in force
    policy,      \* authority_policy_versions; the last one is active
    principal,
    starter,
    admin,
    evaluation,
    approvals    \* authority_approval_requests

config == <<settings, policy>>
authorityVars == <<config, principal, starter, admin, evaluation, approvals>>

-----------------------------------------------------------------------------
\* A version and the version its author had seen.
Version(value, seen) == [value |-> value, seen |-> seen]
Versions(values) == [value : values, seen : 0..MaxVersions]

Approvals == [owner : Evaluators \cup {Unknown}, facts : Facts,
              settings : 1..MaxVersions, policy : 1..MaxVersions,
              status : {"PENDING", "APPROVED", "REJECTED", "EXPIRED", "CONSUMED"},
              old : BOOLEAN, at : 0..MaxApprovals, uses : Nat]

Resting == [pc |-> "idle", facts |-> Unknown, settings |-> 0, active |-> FALSE,
            policy |-> 0, scope |-> FALSE, late |-> FALSE, result |-> "none"]

AuthorityTypeOK ==
    /\ settings \in Seq(Versions(SettingsValues))
    /\ policy \in Seq(Versions(PolicyValues))
    /\ principal \in [status : {"absent", "active", "revoked"}, scopes : SUBSET Scopes]
    /\ starter \in [Starters -> {"new", "insert", "commit", "done", "failed"}]
    /\ admin \in [Admins -> [pc : {"idle", "settings", "policy", "grant", "revoke"},
                             seen : 0..MaxVersions, scope : Scopes \cup {Unknown}]]
    /\ evaluation \in
          [Evaluators -> [pc : {"idle", "settings", "principal", "policy", "scope", "decide"},
                          facts : Facts \cup {Unknown}, settings : 0..MaxVersions,
                          active : BOOLEAN, policy : 0..MaxVersions, scope : BOOLEAN,
                          late : BOOLEAN, result : Outcomes \cup {"none"}]]
    /\ approvals \in Seq(Approvals)

Off == [pc |-> "idle", seen |-> 0, scope |-> Unknown]

AuthorityInit ==
    /\ settings = << >> /\ policy = << >> /\ approvals = << >>
    /\ principal = [status |-> "absent", scopes |-> {}]
    /\ starter = [i \in Starters |-> "new"]
    /\ admin = [u \in Admins |-> Off]
    /\ evaluation = [e \in Evaluators |-> Resting]

-----------------------------------------------------------------------------
(* ensure_defaults: two calls may both find nothing and insert the defaults *)

StarterMoves(i, point) ==
    /\ starter' = [starter EXCEPT ![i] = point]
    /\ UNCHANGED <<principal, admin, evaluation, approvals>>

LookForSettings(i) ==
    /\ starter[i] = "new"
    /\ StarterMoves(i, IF settings = << >> THEN "insert" ELSE "done")
    /\ UNCHANGED config

\* The insert waits for another one that is not committed, and is refused by
\* the unique key at the flush, which no handler surrounds.
InsertDefaults(i) ==
    /\ starter[i] = "insert"
    /\ \A j \in Starters : starter[j] # "commit"
    /\ StarterMoves(i, IF settings = << >> THEN "commit" ELSE "failed")
    /\ UNCHANGED config

CommitDefaults(i) ==
    /\ starter[i] = "commit"
    /\ settings' = <<Version(DefaultSettings, 0)>>
    /\ policy' = <<Version(DefaultPolicies[Action], 0)>>
    /\ StarterMoves(i, "done")

-----------------------------------------------------------------------------
(* Administrators, who send the version they have seen *)

AdminMoves(u, to) ==
    /\ admin' = [admin EXCEPT ![u] = to]
    /\ UNCHANGED <<starter, evaluation, approvals>>

Open(u, what, history) ==
    /\ admin[u].pc = "idle" /\ history # << >>
    /\ AdminMoves(u, [pc |-> what, seen |-> Len(history), scope |-> Unknown])
    /\ UNCHANGED <<config, principal>>

MayPublish(u, history) == admin[u].seen = Len(history)

UpdateSettings(u) ==
    /\ admin[u].pc = "settings"
    /\ IF MayPublish(u, settings)
       THEN /\ Len(settings) < MaxVersions
            /\ \E value \in SettingsValues :
                  settings' = Append(settings, Version(value, admin[u].seen))
       ELSE UNCHANGED settings
    /\ AdminMoves(u, Off)
    /\ UNCHANGED <<policy, principal>>

UpdatePolicy(u) ==
    /\ admin[u].pc = "policy"
    /\ IF MayPublish(u, policy)
       THEN /\ Len(policy) < MaxVersions
            /\ \E value \in PolicyValues :
                  policy' = Append(policy, Version(value, admin[u].seen))
       ELSE UNCHANGED policy
    /\ AdminMoves(u, Off)
    /\ UNCHANGED <<settings, principal>>

CreatePrincipal(u, scopes) ==
    /\ admin[u].pc = "idle" /\ principal.status = "absent"
    /\ principal' = [status |-> "active", scopes |-> scopes]
    /\ AdminMoves(u, Off)
    /\ UNCHANGED config

RevokePrincipal(u) ==
    /\ admin[u].pc = "idle" /\ principal.status = "active"
    /\ principal' = [status |-> "revoked", scopes |-> {}]
    /\ AdminMoves(u, Off)
    /\ UNCHANGED config

\* change_scope reads the principal without a lock: it may be revoked before
\* the scope is written.
OpenScope(u, what, scope) ==
    /\ admin[u].pc = "idle" /\ principal.status = "active"
    /\ AdminMoves(u, [pc |-> what, seen |-> 0, scope |-> scope])
    /\ UNCHANGED <<config, principal>>

WriteScope(u) ==
    /\ admin[u].pc \in {"grant", "revoke"}
    /\ principal' = [principal EXCEPT
          !.scopes = IF admin[u].pc = "grant" THEN @ \cup {admin[u].scope}
                     ELSE @ \ {admin[u].scope}]
    /\ AdminMoves(u, Off)
    /\ UNCHANGED config

-----------------------------------------------------------------------------
(* evaluate_action *)

Evaluating(e, point, changed) ==
    /\ evaluation' = [evaluation EXCEPT ![e] = [changed EXCEPT !.pc = point]]
    /\ UNCHANGED <<config, principal, starter, admin>>

\* The evaluation ends, and what it has read with it.
Decided(e, outcome) ==
    Evaluating(e, "idle", [Resting EXCEPT !.late = evaluation[e].late, !.result = outcome])

Begin(e, facts) ==
    /\ evaluation[e].pc = "idle"
    /\ Evaluating(e, "settings", [Resting EXCEPT !.facts = facts,
                                                 !.late = principal.status = "revoked"])
    /\ UNCHANGED approvals

ReadSettings(e) ==
    /\ evaluation[e].pc = "settings"
    /\ Evaluating(e, "principal", [evaluation[e] EXCEPT !.settings = Len(settings)])
    /\ UNCHANGED approvals

MutantIsActive == principal.scopes # {}
IsActive == principal.status = "active"

ReadPrincipal(e) ==
    /\ evaluation[e].pc = "principal"
    /\ Evaluating(e, "policy", [evaluation[e] EXCEPT !.active = IsActive])
    /\ UNCHANGED approvals

ReadPolicy(e) ==
    /\ evaluation[e].pc = "policy"
    /\ Evaluating(e, "scope", [evaluation[e] EXCEPT !.policy = Len(policy)])
    /\ UNCHANGED approvals

\* Without settings, principal or policy the action is denied at once.
Incomplete(e) ==
    /\ evaluation[e].pc = "scope"
    /\ evaluation[e].settings = 0 \/ ~evaluation[e].active \/ evaluation[e].policy = 0
    /\ Decided(e, "DENY")
    /\ UNCHANGED approvals

ReadScope(e) ==
    /\ evaluation[e].pc = "scope"
    /\ evaluation[e].settings > 0 /\ evaluation[e].active /\ evaluation[e].policy > 0
    /\ Evaluating(e, "decide", [evaluation[e] EXCEPT
          !.scope = policy[evaluation[e].policy].value.scope \in principal.scopes])
    /\ UNCHANGED approvals

\* A decision that does not speak for an action takes any approval that fits.
Fits(e, a) ==
    /\ a.status = "APPROVED"
    /\ a.facts = evaluation[e].facts
    /\ a.settings = evaluation[e].settings /\ a.policy = evaluation[e].policy
    /\ e \in Ledger => a.owner = e

Fitting(e) == {i \in DOMAIN approvals : Fits(e, approvals[i])}
Latest(e) == CHOOSE i \in Fitting(e) : \A j \in Fitting(e) : approvals[j].at <= approvals[i].at

LacksScope(e) ==
    /\ evaluation[e].pc = "decide" /\ ~evaluation[e].scope
    /\ Decided(e, "DENY")
    /\ UNCHANGED approvals

MutantConsumed(a) == [a EXCEPT !.uses = @ + 1]
Consumed(a) == [a EXCEPT !.status = "CONSUMED", !.uses = @ + 1]

Consume(e) ==
    /\ evaluation[e].pc = "decide" /\ evaluation[e].scope
    /\ Fitting(e) # {} /\ ~approvals[Latest(e)].old
    /\ approvals' = [approvals EXCEPT ![Latest(e)] = Consumed(@)]
    /\ Decided(e, "ALLOW")

Asked(e) ==
    [owner |-> IF e \in Ledger THEN e ELSE Unknown, facts |-> evaluation[e].facts,
     settings |-> evaluation[e].settings, policy |-> evaluation[e].policy,
     status |-> "PENDING", old |-> FALSE, at |-> 0, uses |-> 0]

MutantOutcome(e) ==
    EvaluatePolicy(Action, settings[Len(settings)].value, policy[evaluation[e].policy].value,
                   evaluation[e].facts)
Outcome(e) ==
    EvaluatePolicy(Action, settings[evaluation[e].settings].value,
                   policy[evaluation[e].policy].value, evaluation[e].facts)

\* An approval that came too late is closed, and the rules decide.
Decide(e) ==
    LET closed == [i \in DOMAIN approvals |->
                     IF Fitting(e) # {} /\ i = Latest(e)
                     THEN [approvals[i] EXCEPT !.status = "EXPIRED"] ELSE approvals[i]]
    IN  /\ evaluation[e].pc = "decide" /\ evaluation[e].scope
        /\ Fitting(e) # {} => approvals[Latest(e)].old
        /\ IF Outcome(e) = "REQUIRE_APPROVAL" /\ e \notin Previews
           THEN /\ Len(approvals) < MaxApprovals
                /\ approvals' = Append(closed, Asked(e))
           ELSE approvals' = closed
        /\ Decided(e, Outcome(e))

-----------------------------------------------------------------------------
(* resolve_approval, by a member with a role *)

Approver(i) ==
    LET role == policy[approvals[i].policy].value.role
    IN  IF role = Unknown THEN "admin" ELSE role
MayResolve(role, i) == role \in {"admin", Approver(i)}

Answered == Cardinality({i \in DOMAIN approvals : approvals[i].at > 0})

Resolve(role, i, answer) ==
    /\ i \in DOMAIN approvals
    /\ approvals[i].status = "PENDING" /\ MayResolve(role, i)
    /\ approvals' = IF approvals[i].old THEN [approvals EXCEPT ![i].status = "EXPIRED"]
                    ELSE [approvals EXCEPT ![i].status = answer, ![i].at = Answered + 1]
    /\ UNCHANGED <<config, principal, starter, admin, evaluation>>

\* 24 hours pass.
GrowsOld(i) ==
    /\ i \in DOMAIN approvals /\ approvals[i].status \in {"PENDING", "APPROVED"}
    /\ ~approvals[i].old
    /\ approvals' = [approvals EXCEPT ![i].old = TRUE]
    /\ UNCHANGED <<config, principal, starter, admin, evaluation>>

-----------------------------------------------------------------------------
Initialise(i) == LookForSettings(i) \/ InsertDefaults(i) \/ CommitDefaults(i)

Administer(u) ==
    \/ Open(u, "settings", settings) \/ UpdateSettings(u)
    \/ Open(u, "policy", policy) \/ UpdatePolicy(u)
    \/ RevokePrincipal(u) \/ WriteScope(u)
    \/ \E scopes \in SUBSET Scopes : CreatePrincipal(u, scopes)
    \/ \E what \in {"grant", "revoke"}, scope \in Scopes : OpenScope(u, what, scope)

Evaluate(e) ==
    \/ \E facts \in Facts : Begin(e, facts)
    \/ ReadSettings(e) \/ ReadPrincipal(e) \/ ReadPolicy(e) \/ Incomplete(e) \/ ReadScope(e)
    \/ LacksScope(e) \/ Consume(e) \/ Decide(e)

AuthorityNext ==
    \/ \E i \in Starters : Initialise(i)
    \/ \E u \in Admins : Administer(u)
    \/ \E e \in Evaluators : Evaluate(e)
    \/ \E i \in DOMAIN approvals :
          GrowsOld(i) \/ \E role \in Roles, answer \in {"APPROVED", "REJECTED"} : Resolve(role, i, answer)

AuthoritySpec == AuthorityInit /\ [][AuthorityNext]_authorityVars

-----------------------------------------------------------------------------
(* Properties *)

\* "hard safety rule cannot be overridden by approval policy": whatever changes
\* while an evaluation reads, a human is only asked, and an approval only
\* given, for what the settings and the policy it names leave to a human
\* (evaluate_action, _persist_decision).
ApprovalsAreAskedFor ==
    \A i \in DOMAIN approvals :
        EvaluatePolicy(Action, settings[approvals[i].settings].value,
                       policy[approvals[i].policy].value, approvals[i].facts)
            = "REQUIRE_APPROVAL"

\* "approval is bound to exact facts and consumed once": by whichever of the
\* evaluations that find it, and only after a human has given it in time.
ConsumedOnce ==
    \A i \in DOMAIN approvals :
        /\ approvals[i].uses <= 1
        /\ approvals[i].uses = 1 => approvals[i].status = "CONSUMED" /\ approvals[i].at > 0

\* No administrator publishes over a version he has not seen (update_settings,
\* update_policy).
NothingOverwritten ==
    /\ \A n \in DOMAIN settings : settings[n].seen = n - 1
    /\ \A n \in DOMAIN policy : policy[n].seen = n - 1

\* Versions are published one on the other, and no approval serves twice.
AuthorityInv == AuthorityTypeOK /\ ConsumedOnce /\ NothingOverwritten

\* An evaluation that begins after the principal was revoked allows nothing,
\* although a scope may be granted to it after all (revoke_principal, change_scope).
RevokedIsPowerless ==
    \A e \in Evaluators : evaluation[e].late => evaluation[e].result \in {"none", "DENY"}

===============================================================================
