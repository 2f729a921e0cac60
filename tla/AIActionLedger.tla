--------------------------- MODULE AIActionLedger ---------------------------
(***************************************************************************)
(* The life of an AI action: a registered business-tool call that Jarvis    *)
(* proposes, the authority engine judges, a human may have to approve, and  *)
(* a handler finally carries out (app/business_tools/executor.py,           *)
(* app/ai_actions/, AuthorityService.evaluate_action / resolve_approval and *)
(* app/idempotency/service.py).                                             *)
(*                                                                          *)
(* Every database transaction of a request is one action of this module, so *)
(* requests interleave, fail and crash between any two of them.             *)
(***************************************************************************)
EXTENDS Integers

CONSTANTS
  Mutations,     \* calls of mutating tools: one per (principal, tool, Idempotency-Key)
  Reads,         \* calls of read-only tools, which carry no Idempotency-Key
  Requests,      \* coroutines that serve a request, one at a time each
  ResumeKeys,    \* Idempotency-Keys sent to /ai/tools/actions/{id}/execute
  OwnKey,        \* the key (if any) the call itself was proposed under
  DataValues,    \* states of the commercial master data the facts are built from
  Verdict,       \* evaluate_policy: [DataValues \X Versions -> Outcomes]
  MaxVersion,    \* bound: changes of the policy and settings versions
  MaxApprovals,  \* bound: approval requests ever created
  Revocable,     \* bound: whether the principal's grants change in a run
  None           \* the null of a nullable column

Actions == Mutations \cup Reads
Keys == ResumeKeys \cup {OwnKey}
Calls == Actions \X Keys
Versions == 1..MaxVersion
ApprovalIds == 1..MaxApprovals
NoApproval == 0

Outcomes == {"ALLOW", "REQUIRE_APPROVAL", "DENY",
             "REQUIRE_MORE_INFORMATION", "BLOCKED_MASTER_DATA"}

ASSUME ConstantsAssumption ==
  /\ Mutations \cap Reads = {}
  /\ OwnKey \notin ResumeKeys
  /\ None \notin Actions \cup DataValues
  /\ MaxVersion \in Nat \ {0}
  /\ MaxApprovals \in Nat
  /\ Revocable \in BOOLEAN
  /\ Verdict \in [DataValues \X Versions -> Outcomes]

Statuses == {"ABSENT", "PROPOSED", "EVALUATED", "ALLOWED", "AWAITING_APPROVAL",
             "DENIED", "BLOCKED", "APPROVED", "REJECTED", "EXPIRED",
             "REVALIDATING", "EXECUTING", "SUCCEEDED", "FAILED"}

FinalStatuses == {"DENIED", "BLOCKED", "REJECTED", "EXPIRED", "SUCCEEDED", "FAILED"}

ALLOWED_TRANSITIONS ==
  [s \in Statuses |->
    CASE s = "PROPOSED"          -> {"EVALUATED", "ALLOWED", "FAILED"}
      [] s = "EVALUATED"         -> {"ALLOWED", "AWAITING_APPROVAL", "DENIED",
                                     "BLOCKED", "FAILED"}
      [] s = "ALLOWED"           -> {"EXECUTING", "FAILED"}
      [] s = "AWAITING_APPROVAL" -> {"APPROVED", "REJECTED", "EXPIRED", "FAILED"}
      [] s = "APPROVED"          -> {"REVALIDATING", "FAILED"}
      [] s = "REVALIDATING"      -> {"EXECUTING", "AWAITING_APPROVAL", "DENIED",
                                     "BLOCKED", "FAILED"}
      [] s = "EXECUTING"         -> {"SUCCEEDED", "FAILED"}
      [] OTHER                   -> {}]

VARIABLES
  (* what the business changes while requests run *)
  data,        \* current commercial master data
  version,     \* current policy and settings version
  granted,     \* the AI principal is active and holds the required scope
  (* rows of the database *)
  status,      \* ai_action_requests.status
  basis,       \* the decision, facts, versions and approval the row records
  attempts,    \* ai_action_requests.execution_attempt_count
  approval,    \* authority_approval_requests
  overdue,     \* approvals older than their 24 hours
  expiring,    \* approvals a late answer holds locked, its action read as AWAITING_APPROVAL
  claim,       \* processed_events: the idempotency claim of a call
  execution,   \* ai_tool_executions.status of a call
  effects,     \* how many times the handler of an action has committed
  effectData,  \* the master data the committed effect was computed from
  (* requests in flight *)
  req,
  (* kept only to state the properties *)
  overwritten  \* actions whose EXPIRED was written over another status

environment == <<data, version, granted>>
actionRows == <<status, basis, attempts>>
approvalRows == <<approval, overdue, expiring, overwritten>>
effectRows == <<effects, effectData>>
vars == <<data, version, granted, status, basis, attempts, approval, overdue, expiring,
          overwritten, claim, execution, effects, effectData, req>>

-----------------------------------------------------------------------------
(* Types *)

ResultType == [decision : Outcomes \cup {None}, data : DataValues \cup {None},
               version : Versions \cup {0}, approval : ApprovalIds \cup {NoApproval}]
ApprovalType == [status : {"ABSENT", "PENDING", "APPROVED", "REJECTED", "EXPIRED", "CONSUMED"},
                 action : Actions \cup {None}, data : DataValues \cup {None},
                 version : Versions \cup {0}]
ClaimStatuses == {"none", "processing", "stale", "failed", "executed", "declined"}
ExecutionStatuses == {"none", "processing", "completed", "declined", "failed"}

(* Where a request is suspended: the name of the transaction it runs next. *)
TryPoints == {"revalidate", "facts", "evaluate", "record", "allow", "begin",
              "handler", "done", "finish", "decline", "complete"}
Points == TryPoints \cup {"idle", "propose", "create", "error", "error_finish", "error_claim"}
RequestType == [pc : Points, action : Actions \cup {None}, key : Keys \cup {None},
                facts : DataValues \cup {None}, result : ResultType]

NoResult == [decision |-> None, data |-> None, version |-> 0, approval |-> NoApproval]
Idle == [pc |-> "idle", action |-> None, key |-> None, facts |-> None, result |-> NoResult]

TypeOK ==
  /\ data \in DataValues /\ version \in Versions /\ granted \in BOOLEAN
  /\ status \in [Actions -> Statuses]
  /\ basis \in [Actions -> ResultType]
  /\ attempts \in [Actions -> Nat]
  /\ approval \in [ApprovalIds -> ApprovalType]
  /\ overdue \subseteq ApprovalIds
  /\ expiring \subseteq ApprovalIds /\ overwritten \subseteq Actions
  /\ claim \in [Calls -> ClaimStatuses]
  /\ execution \in [Calls -> ExecutionStatuses]
  /\ effects \in [Actions -> Nat]
  /\ effectData \in [Actions -> DataValues \cup {None}]
  /\ req \in [Requests -> RequestType]

Init ==
  /\ data \in DataValues /\ version = 1 /\ granted = TRUE
  /\ status = [a \in Actions |-> "ABSENT"]
  /\ basis = [a \in Actions |-> NoResult]
  /\ attempts = [a \in Actions |-> 0]
  /\ approval = [p \in ApprovalIds |->
       [status |-> "ABSENT", action |-> None, data |-> None, version |-> 0]]
  /\ overdue = {} /\ expiring = {} /\ overwritten = {}
  /\ claim = [c \in Calls |-> "none"]
  /\ execution = [c \in Calls |-> "none"]
  /\ effects = [a \in Actions |-> 0]
  /\ effectData = [a \in Actions |-> None]
  /\ req = [t \in Requests |-> Idle]

-----------------------------------------------------------------------------
(* Helpers *)

Call(t) == <<req[t].action, req[t].key>>
Resuming(t) == req[t].key # OwnKey
Mutating(t) == req[t].action \in Mutations

Goto(t, point) == req' = [req EXCEPT ![t].pc = point]
Return(t) == req' = [req EXCEPT ![t] = Idle]
Raise(t) ==
  req' = [req EXCEPT ![t].pc = "error", ![t].facts = None, ![t].result = NoResult]

MayBecome(s, target) == target \in ALLOWED_TRANSITIONS[s]

(* claim_request succeeds: a new claim, a failed one, or one locked 900 s ago. *)
MutantFree(c) == claim[c] \in {"none", "failed"}
Free(c) == claim[c] \in {"none", "failed", "stale"}

(* The approval_query of evaluate_action. *)
MutantMatches(p, a, d, v) ==
  /\ approval[p].status = "APPROVED"
  /\ approval[p].action = a
Matches(p, a, d, v) ==
  /\ approval[p].status = "APPROVED"
  /\ approval[p].action = a /\ approval[p].data = d /\ approval[p].version = v

StatusFor(decision) ==
  CASE decision = "ALLOW"            -> "ALLOWED"
    [] decision = "REQUIRE_APPROVAL" -> "AWAITING_APPROVAL"
    [] decision = "DENY"             -> "DENIED"
    [] OTHER                         -> "BLOCKED"

-----------------------------------------------------------------------------
(* The request of the proposing client: BusinessToolExecutor.execute *)

StartExecute(t, a) ==
  /\ req[t].pc = "idle" /\ granted
  /\ \/ /\ a \in Mutations /\ Free(<<a, OwnKey>>)
        /\ claim' = [claim EXCEPT ![<<a, OwnKey>>] = "processing"]
     \/ /\ a \in Reads /\ status[a] = "ABSENT"
        /\ \A u \in Requests : req[u].action # a
        /\ UNCHANGED claim
  /\ req' = [req EXCEPT ![t] = [Idle EXCEPT !.pc = "propose", !.action = a, !.key = OwnKey]]
  /\ UNCHANGED <<environment, actionRows, approvalRows, execution, effectRows>>

(* propose: a second proposal under the same key finds the first one's row. *)
Propose(t) ==
  /\ req[t].pc = "propose"
  /\ IF status[req[t].action] = "ABSENT"
     THEN status' = [status EXCEPT ![req[t].action] = "PROPOSED"]
     ELSE UNCHANGED status
  /\ Goto(t, "create")
  /\ UNCHANGED <<environment, basis, attempts, approvalRows, claim, execution, effectRows>>

(* allow_without_policy: a read-only tool is authorised by its scope alone. *)
AllowRead(t) ==
  /\ req[t].pc = "allow"
  /\ MayBecome(status[req[t].action], "ALLOWED")
  /\ status' = [status EXCEPT ![req[t].action] = "ALLOWED"]
  /\ Goto(t, "begin")
  /\ UNCHANGED <<environment, basis, attempts, approvalRows, claim, execution, effectRows>>

MayBegin(a) == MayBecome(status[a], "EXECUTING")

BeginExecution(t) ==
  LET a == req[t].action IN
  /\ req[t].pc = "begin"
  /\ IF MayBegin(a)
     THEN /\ status' = [status EXCEPT ![a] = "EXECUTING"]
          /\ attempts' = [attempts EXCEPT ![a] = @ + 1]
          /\ Goto(t, "handler")
     ELSE UNCHANGED <<status, attempts>> /\ Raise(t)
  /\ UNCHANGED <<environment, basis, approvalRows, claim, execution, effectRows>>

-----------------------------------------------------------------------------
(* The request that resumes an action: BusinessToolExecutor.resume *)

StartResume(t, a, k) ==
  /\ req[t].pc = "idle" /\ granted
  /\ a \in Mutations /\ status[a] # "ABSENT"
  /\ Free(<<a, k>>)
  /\ claim' = [claim EXCEPT ![<<a, k>>] = "processing"]
  /\ req' = [req EXCEPT ![t] = [Idle EXCEPT !.pc = "create", !.action = a, !.key = k]]
  /\ UNCHANGED <<environment, actionRows, approvalRows, execution, effectRows>>

MayRevalidate(s) == s = "APPROVED"

(* begin_revalidation: only an APPROVED action may go on; anything else is   *)
(* refused with a 409, which takes the error path of the request.            *)
BeginRevalidation(t) ==
  /\ req[t].pc = "revalidate"
  /\ IF MayRevalidate(status[req[t].action])
     THEN /\ status' = [status EXCEPT ![req[t].action] = "REVALIDATING"]
          /\ Goto(t, "facts")
     ELSE UNCHANGED status /\ Raise(t)
  /\ UNCHANGED <<environment, basis, attempts, approvalRows, claim, execution, effectRows>>

-----------------------------------------------------------------------------
(* Steps both requests take *)

(* _create_execution: the row of an earlier attempt is reset and reused. *)
CreateExecution(t) ==
  /\ req[t].pc = "create"
  /\ execution' = [execution EXCEPT ![Call(t)] = "processing"]
  /\ Goto(t, CASE Resuming(t) -> "revalidate"
               [] ~Resuming(t) /\ Mutating(t) -> "facts"
               [] OTHER -> "allow")
  /\ UNCHANGED <<environment, actionRows, approvalRows, claim, effectRows>>

(* build_authoritative_facts reads the master data in a transaction of its own. *)
BuildFacts(t) ==
  /\ req[t].pc = "facts"
  /\ req' = [req EXCEPT ![t].facts = data, ![t].pc = "evaluate"]
  /\ UNCHANGED <<environment, actionRows, approvalRows, claim, execution, effectRows>>

Decide(t, decision, p) ==
  req' = [req EXCEPT ![t].pc = "record", ![t].facts = None,
                     ![t].result = [decision |-> decision, data |-> req[t].facts,
                                    version |-> version, approval |-> p]]

(* evaluate_policy and _persist_decision on a table of approval requests: a  *)
(* REQUIRE_APPROVAL decision creates a pending one in the same transaction.  *)
(* Past the bound MaxApprovals that insert fails like any database error.    *)
ApplyPolicy(t, table) ==
  LET d == req[t].facts
      decision == Verdict[<<d, version>>]
      Unused == {p \in ApprovalIds : table[p].status = "ABSENT"}
  IN  \/ /\ decision = "REQUIRE_APPROVAL" /\ Unused # {}
         /\ \E p \in Unused :
              /\ \A q \in Unused : p <= q
              /\ approval' = [table EXCEPT ![p] =
                   [status |-> "PENDING", action |-> req[t].action, data |-> d, version |-> version]]
              /\ Decide(t, decision, p)
      \/ decision = "REQUIRE_APPROVAL" /\ Unused = {} /\ UNCHANGED approval /\ Raise(t)
      \/ decision # "REQUIRE_APPROVAL" /\ approval' = table /\ Decide(t, decision, NoApproval)

(* evaluate_action: no principal or scope is a denial; an approval for these *)
(* exact facts and versions is consumed, or expires; else the policy decides. *)
EvaluateAction(t) ==
  LET Matching == {p \in ApprovalIds : Matches(p, req[t].action, req[t].facts, version)} IN
  /\ req[t].pc = "evaluate"
  /\ \/ ~granted /\ UNCHANGED approval /\ Decide(t, "DENY", NoApproval)
     \/ \E p \in Matching :
           /\ granted /\ p \notin overdue
           /\ approval' = [approval EXCEPT ![p].status = "CONSUMED"]
           /\ Decide(t, "ALLOW", NoApproval)
     \/ \E p \in Matching :
           /\ granted /\ p \in overdue
           /\ ApplyPolicy(t, [approval EXCEPT ![p].status = "EXPIRED"])
     \/ granted /\ Matching = {} /\ ApplyPolicy(t, approval)
  /\ UNCHANGED <<environment, actionRows, overdue, expiring, overwritten, claim, execution,
                 effectRows>>

(* The status record_evaluation writes; a resumed action that is allowed     *)
(* starts executing in the same transaction.                                 *)
Target(t) ==
  IF Resuming(t) /\ req[t].result.decision = "ALLOW" THEN "EXECUTING"
  ELSE StatusFor(req[t].result.decision)

MutantMayRecord(t) == TRUE
MayRecord(t) ==
  LET s == status[req[t].action] IN
  MayBecome(IF ~Resuming(t) /\ s = "PROPOSED" THEN "EVALUATED" ELSE s, Target(t))

RecordEvaluation(t) ==
  LET a == req[t].action IN
  /\ req[t].pc = "record"
  /\ IF MayRecord(t)
     THEN /\ status' = [status EXCEPT ![a] = Target(t)]
          /\ basis' = [basis EXCEPT ![a] = req[t].result]
          /\ attempts' = [attempts EXCEPT ![a] = IF Target(t) = "EXECUTING" THEN @ + 1 ELSE @]
          /\ req' = [req EXCEPT
               ![t].pc = CASE Target(t) = "EXECUTING" -> "handler"
                           [] Target(t) = "ALLOWED"   -> "begin"
                           [] OTHER                   -> "decline",
               ![t].result = [NoResult EXCEPT !.decision = req[t].result.decision]]
     ELSE UNCHANGED actionRows /\ Raise(t)
  /\ UNCHANGED <<environment, approvalRows, claim, execution, effectRows>>

(* The handler commits its one transaction. prepare_quotation reads prices   *)
(* and costs again here: the effect is computed from the data of this moment. *)
HandlerCommits(t) ==
  LET a == req[t].action IN
  /\ req[t].pc = "handler"
  /\ IF Mutating(t)
     THEN /\ effects' = [effects EXCEPT ![a] = @ + 1]
          /\ effectData' = [effectData EXCEPT ![a] = data]
     ELSE UNCHANGED effectRows
  /\ Goto(t, "done")
  /\ UNCHANGED <<environment, actionRows, approvalRows, claim, execution>>

(* _finish_execution, after the handler and after a decision that is no ALLOW. *)
FinishExecution(t) ==
  /\ \/ req[t].pc = "done" /\ execution' = [execution EXCEPT ![Call(t)] = "completed"]
        /\ Goto(t, "finish")
     \/ req[t].pc = "decline" /\ execution' = [execution EXCEPT ![Call(t)] = "declined"]
        /\ Goto(t, "complete")
     \/ req[t].pc = "error" /\ execution' = [execution EXCEPT ![Call(t)] = "failed"]
        /\ Goto(t, "error_finish")
  /\ UNCHANGED <<environment, actionRows, approvalRows, claim, effectRows>>

Finish(t) ==
  /\ req[t].pc = "finish"
  /\ IF MayBecome(status[req[t].action], "SUCCEEDED")
     THEN status' = [status EXCEPT ![req[t].action] = "SUCCEEDED"] /\ Goto(t, "complete")
     ELSE UNCHANGED status /\ Raise(t)
  /\ UNCHANGED <<environment, basis, attempts, approvalRows, claim, execution, effectRows>>

(* complete_request stores the response, whoever holds the claim by now. *)
Response(t) == IF req[t].result.decision = "ALLOW" THEN "executed" ELSE "declined"

CompleteRequest(t) ==
  /\ req[t].pc = "complete"
  /\ claim' = IF Mutating(t) THEN [claim EXCEPT ![Call(t)] = Response(t)] ELSE claim
  /\ Return(t)
  /\ UNCHANGED <<environment, actionRows, approvalRows, execution, effectRows>>

-----------------------------------------------------------------------------
(* Failure paths *)

(* An await inside the try block raises before its transaction commits (the  *)
(* database, a validation, a handler that refuses).                          *)
StepFails(t) ==
  /\ req[t].pc \in TryPoints
  /\ Raise(t)
  /\ UNCHANGED <<environment, actionRows, approvalRows, claim, execution, effectRows>>

(* finish(succeeded=False). When the ledger refuses the transition, execute  *)
(* loses the fail_request that follows; resume has it in a finally block.    *)
FinishFailed(t) ==
  LET a == req[t].action IN
  /\ req[t].pc = "error_finish"
  /\ IF MayBecome(status[a], "FAILED")
     THEN status' = [status EXCEPT ![a] = "FAILED"] /\ Goto(t, "error_claim")
     ELSE /\ UNCHANGED status
          /\ IF Resuming(t) THEN Goto(t, "error_claim") ELSE Return(t)
  /\ UNCHANGED <<environment, basis, attempts, approvalRows, claim, execution, effectRows>>

FailRequest(t) ==
  /\ req[t].pc = "error_claim"
  /\ claim' = IF Mutating(t) THEN [claim EXCEPT ![Call(t)] = "failed"] ELSE claim
  /\ Return(t)
  /\ UNCHANGED <<environment, actionRows, approvalRows, execution, effectRows>>

(* The process dies, or an exception escapes outside the try block. *)
Crash(t) ==
  /\ req[t].pc # "idle"
  /\ Return(t)
  /\ UNCHANGED <<environment, actionRows, approvalRows, claim, execution, effectRows>>

-----------------------------------------------------------------------------
(* The human: AuthorityService.resolve_approval, which locks the approval    *)
(* row. An answer locks the action too and is one transaction; a refused     *)
(* ledger transition raises and rolls the whole resolution back.             *)

MutantResolvable(p) == approval[p].status = "PENDING"
Resolvable(p) == approval[p].status = "PENDING" /\ p \notin expiring

MutantMayAnswer(a, answer) == TRUE
MayAnswer(a, answer) == MayBecome(status[a], answer)

ResolveApproval(p, answer) ==
  LET a == approval[p].action IN
  /\ Resolvable(p) /\ p \notin overdue
  /\ MayAnswer(a, answer)
  /\ approval' = [approval EXCEPT ![p].status = answer]
  /\ status' = [status EXCEPT ![a] = answer]
  /\ UNCHANGED <<environment, basis, attempts, overdue, expiring, overwritten, claim,
                 execution, effectRows, req>>

(* An answer after the 24 hours expires the approval. The action is read     *)
(* without a lock, and only one read as AWAITING_APPROVAL expires with it.   *)
MayExpire(a) == status[a] = "AWAITING_APPROVAL"

ResolveTooLate(p) ==
  /\ Resolvable(p) /\ p \in overdue
  /\ IF MayExpire(approval[p].action)
     THEN expiring' = expiring \cup {p} /\ UNCHANGED approval
     ELSE approval' = [approval EXCEPT ![p].status = "EXPIRED"] /\ UNCHANGED expiring
  /\ UNCHANGED <<environment, actionRows, overdue, overwritten, claim, execution, effectRows,
                 req>>

(* The commit writes EXPIRED over whatever the action has become since. *)
CommitExpiry(p) ==
  LET a == approval[p].action IN
  /\ p \in expiring
  /\ expiring' = expiring \ {p}
  /\ approval' = [approval EXCEPT ![p].status = "EXPIRED"]
  /\ status' = [status EXCEPT ![a] = "EXPIRED"]
  /\ overwritten' = IF MayExpire(a) THEN overwritten ELSE overwritten \cup {a}
  /\ UNCHANGED <<environment, basis, attempts, overdue, claim, execution, effectRows, req>>

(* The late answer dies before its commit, and the database lets go of the row. *)
ExpiryFails(p) ==
  /\ p \in expiring
  /\ expiring' = expiring \ {p}
  /\ UNCHANGED <<environment, actionRows, approval, overdue, overwritten, claim, execution,
                 effectRows, req>>

-----------------------------------------------------------------------------
(* Time and the rest of the business *)

(* 900 seconds pass; the owner of the claim may still be at work. *)
ClaimGoesStale(c) ==
  /\ claim[c] = "processing"
  /\ claim' = [claim EXCEPT ![c] = "stale"]
  /\ UNCHANGED <<environment, actionRows, approvalRows, execution, effectRows, req>>

(* 24 hours pass. No request lives that long: one that has created this or   *)
(* an earlier approval has recorded its evaluation, failed or died by then.  *)
ApprovalLapses(p) ==
  /\ approval[p].status \in {"PENDING", "APPROVED"} /\ p \notin overdue
  /\ \A t \in Requests : req[t].pc = "record" => req[t].result.approval \notin 1..p
  /\ overdue' = overdue \cup {p}
  /\ UNCHANGED <<environment, actionRows, approval, expiring, overwritten, claim, execution,
                 effectRows, req>>

ChangeMasterData ==
  /\ data' \in DataValues \ {data}
  /\ UNCHANGED <<version, granted, actionRows, approvalRows, claim, execution, effectRows, req>>

(* update_policy and update_settings append a new version. *)
ChangePolicy ==
  /\ version < MaxVersion
  /\ version' = version + 1
  /\ UNCHANGED <<data, granted, actionRows, approvalRows, claim, execution, effectRows, req>>

(* revoke_principal and change_scope, and the grant that undoes them. *)
ChangeGrant ==
  /\ Revocable
  /\ granted' = ~granted
  /\ UNCHANGED <<data, version, actionRows, approvalRows, claim, execution, effectRows, req>>

-----------------------------------------------------------------------------
Step(t) ==
  \/ Propose(t) \/ CreateExecution(t) \/ BeginRevalidation(t) \/ BuildFacts(t)
  \/ EvaluateAction(t) \/ RecordEvaluation(t) \/ AllowRead(t) \/ BeginExecution(t)
  \/ HandlerCommits(t) \/ FinishExecution(t) \/ Finish(t) \/ CompleteRequest(t)
  \/ FinishFailed(t) \/ FailRequest(t)

Environment ==
  \/ \E p \in ApprovalIds : \E answer \in {"APPROVED", "REJECTED"} : ResolveApproval(p, answer)
  \/ \E p \in ApprovalIds :
       ResolveTooLate(p) \/ CommitExpiry(p) \/ ExpiryFails(p) \/ ApprovalLapses(p)
  \/ \E c \in Calls : ClaimGoesStale(c)
  \/ ChangeMasterData \/ ChangePolicy \/ ChangeGrant

Next ==
  \/ \E t \in Requests :
       \/ \E a \in Actions : StartExecute(t, a)
       \/ \E a \in Mutations, k \in ResumeKeys : StartResume(t, a, k)
       \/ Step(t) \/ StepFails(t) \/ Crash(t)
  \/ Environment

Spec == Init /\ [][Next]_vars

-----------------------------------------------------------------------------
(* Safety *)

(* The handler of an action commits at most once, however often the call is  *)
(* retried, resumed, taken over after 900 s or cut off by a crash: the       *)
(* ledger row enters EXECUTING once and never again.                         *)
AtMostOneEffect == \A a \in Actions : effects[a] <= 1

(* A policy decision or a consumed human approval for exactly the facts and  *)
(* versions the ledger row records.                                          *)
Authorised(a, b) ==
  \/ Verdict[<<b.data, b.version>>] = "ALLOW"
  \/ \E p \in ApprovalIds :
        /\ approval[p].status = "CONSUMED" /\ approval[p].action = a
        /\ approval[p].data = b.data /\ approval[p].version = b.version

(* No mutation without authority: whatever interleaving of requests, human   *)
(* answers and policy changes led here, a committed effect is covered by the *)
(* decision on its ledger row.                                               *)
EffectIsAuthorised ==
  \A a \in Mutations : effects[a] > 0 =>
    /\ basis[a].decision = "ALLOW"
    /\ Authorised(a, basis[a])

(* An action that was denied, blocked, rejected or left to expire has not    *)
(* been and is not being carried out. Nothing can be said of an EXPIRED that *)
(* a late answer wrote over what the action had become (CommitExpiry).       *)
Refused(a) ==
  \/ status[a] \in {"DENIED", "BLOCKED", "REJECTED"}
  \/ status[a] = "EXPIRED" /\ a \notin overwritten

RefusedHasNoEffect ==
  \A a \in Actions : Refused(a) =>
    /\ effects[a] = 0
    /\ \A t \in Requests : req[t].action = a => req[t].pc # "handler"

(* The ledger says that an action succeeded, or said so until a late answer  *)
(* wrote over it.                                                            *)
ReportedSuccess(a) == status[a] = "SUCCEEDED" \/ a \in overwritten

(* A stored response that replays an execution tells the truth: the effect   *)
(* is committed, and the ledger says so or said so.                          *)
CachedResponseIsTrue ==
  \A c \in Calls : claim[c] = "executed" => effects[c[1]] = 1 /\ ReportedSuccess(c[1])

(* A final ledger status stands against every late request, retry and second *)
(* resolution but one: the commit of a late answer that read the action when *)
(* it still waited. A human's answer stands, and only a yes is ever consumed. *)
StatusesStand ==
  \A a \in Actions : status[a] \in FinalStatuses =>
    \/ status'[a] = status[a]
    \/ status'[a] = "EXPIRED" /\ \E p \in expiring \ expiring' : approval[p].action = a

AnswersStand ==
  \A p \in ApprovalIds :
    /\ approval[p].status \in {"REJECTED", "EXPIRED", "CONSUMED"} => approval'[p] = approval[p]
    /\ approval[p].status = "APPROVED" => approval'[p].status \in {"APPROVED", "CONSUMED", "EXPIRED"}
    /\ approval'[p].status = "CONSUMED" => approval[p].status \in {"APPROVED", "CONSUMED"}

OutcomesStand == [][StatusesStand /\ AnswersStand]_vars

(* "Add current DB facts so an old approval cannot authorize changed data":  *)
(* an effect that needed a human's approval is computed from the very master *)
(* data the human was asked about.                                           *)
ApprovalCoversCommittedData ==
  \A a \in Mutations :
    effects[a] > 0 /\ Verdict[<<basis[a].data, basis[a].version>>] = "REQUIRE_APPROVAL" =>
      \E p \in ApprovalIds :
        /\ approval[p].status = "CONSUMED" /\ approval[p].action = a
        /\ approval[p].data = effectData[a]

-----------------------------------------------------------------------------
(* The inductive invariant behind these properties *)

(* A request knows what it works on, and has read what the next step needs. *)
SoundRequest(t) ==
  /\ req[t].pc # "idle" => req[t].action \in Actions /\ req[t].key \in Keys
  /\ req[t].pc \in {"revalidate", "facts", "evaluate", "record"} => req[t].action \in Mutations
  /\ req[t].pc # "idle" /\ Resuming(t) => req[t].action \in Mutations
  /\ req[t].pc = "allow" => req[t].action \in Reads
  /\ req[t].pc = "evaluate" => req[t].facts \in DataValues
  /\ req[t].pc = "record" =>
       /\ req[t].result.decision \in Outcomes
       /\ req[t].result.decision = "ALLOW" => Authorised(req[t].action, req[t].result)
  /\ req[t].pc = "decline" => req[t].result.decision # "ALLOW"

RequestsAreSound == \A t \in Requests : SoundRequest(t)

(* One request at most runs the handler of an action, only after the one     *)
(* entry into EXECUTING and before the one effect.                           *)
ExecutionIsExclusive ==
  /\ \A a \in Actions :
       /\ attempts[a] <= 1
       /\ effects[a] <= attempts[a]
       /\ attempts[a] > 0 =>
            status[a] \in {"EXECUTING", "SUCCEEDED", "FAILED"} \/ a \in overwritten
  /\ \A t \in Requests : req[t].pc = "handler" =>
       /\ attempts[req[t].action] = 1 /\ effects[req[t].action] = 0
       /\ \A u \in Requests : req[u].pc = "handler" /\ req[u].action = req[t].action => u = t

(* What is allowed, executing or executed rests on the decision of its row. *)
BasisIsAuthority ==
  /\ \A a \in Mutations : attempts[a] > 0 \/ status[a] = "ALLOWED" =>
       /\ basis[a].decision = "ALLOW"
       /\ Authorised(a, basis[a])
  /\ \A t \in Requests : req[t].pc = "begin" =>
       status[req[t].action] \in {"ALLOWED", "EXECUTING", "SUCCEEDED", "FAILED", "EXPIRED"}

(* A request that reports success has seen its effect committed. *)
ReportsAreTrue ==
  \A t \in Requests : req[t].action \in Mutations =>
    /\ req[t].pc \in {"done", "finish"} => effects[req[t].action] = 1
    /\ req[t].pc = "complete" /\ req[t].result.decision = "ALLOW" =>
         effects[req[t].action] = 1 /\ ReportedSuccess(req[t].action)

(* An approval belongs to an action; a late answer holds one nobody has       *)
(* answered, and what it has written over stays EXPIRED.                      *)
ApprovalsAreSound ==
  /\ \A p \in ApprovalIds : approval[p].status # "ABSENT" => approval[p].action \in Actions
  /\ \A p \in expiring : approval[p].status = "PENDING" /\ p \in overdue
  /\ \A a \in overwritten : status[a] = "EXPIRED"

(* The strengthening of the properties above that every step preserves. *)
LedgerInv ==
  /\ TypeOK
  /\ ApprovalsAreSound
  /\ RequestsAreSound
  /\ ExecutionIsExclusive
  /\ BasisIsAuthority
  /\ ReportsAreTrue
  /\ CachedResponseIsTrue

-----------------------------------------------------------------------------
(* The ledger implements the promise of AuthorisedEffect: execution_attempt_ *)
(* count says that the action was authorised, a final status that it never   *)
(* will be, and the effect itself is the handler's commit.                   *)
PhaseOf(a) ==
  IF attempts[a] > 0 THEN "authorised"
  ELSE IF status[a] \in FinalStatuses THEN "closed" ELSE "open"

Promise == INSTANCE AuthorisedEffect WITH
  Actions <- Mutations,
  phase <- [a \in Mutations |-> PhaseOf(a)],
  count <- [a \in Mutations |-> effects[a]]

ImplementsPromise == Promise!Spec

-----------------------------------------------------------------------------
(* Liveness: the event loop runs every coroutine it has started, a claim     *)
(* left behind grows old, clients repeat a call until it is answered, and    *)
(* the process does not crash forever.                                       *)
Fairness ==
  /\ \A t \in Requests : WF_vars(Step(t))
  /\ \A c \in Calls : WF_vars(ClaimGoesStale(c))
  /\ \A a \in Mutations : SF_vars(\E t \in Requests : StartExecute(t, a))
  /\ \A a \in Mutations, k \in ResumeKeys :
       SF_vars(\E t \in Requests : StartResume(t, a, k))
  /\ <>[][\A t \in Requests : ~Crash(t)]_vars

FairSpec == Spec /\ Fairness

UnderWay == {"PROPOSED", "EVALUATED", "ALLOWED", "REVALIDATING", "EXECUTING"}

(* Nothing recovers an action a crash left halfway, but a client that keeps  *)
(* asking brings it to an outcome or before a human.                         *)
NoActionHangs ==
  \A a \in Mutations : status[a] \in UnderWay ~> status[a] \notin UnderWay

=============================================================================
