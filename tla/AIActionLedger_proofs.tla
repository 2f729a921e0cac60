----------------------- MODULE AIActionLedger_proofs -----------------------
(***************************************************************************)
(* LedgerInv is an inductive invariant of the action ledger, for any number *)
(* of actions, requests, keys, approvals and versions and for any policy;   *)
(* the safety properties of AIActionLedger follow from it.                  *)
(***************************************************************************)
EXTENDS AIActionLedger, TLAPS

-----------------------------------------------------------------------------
(* What a step does to the request that takes it *)

(* Goto moves one request and leaves what it knows alone. *)
LEMMA GotoMoves ==
  ASSUME req \in [Requests -> RequestType], NEW t \in Requests,
         NEW point \in Points, Goto(t, point)
  PROVE  /\ req' \in [Requests -> RequestType]
         /\ req'[t].pc = point
         /\ req'[t].action = req[t].action /\ req'[t].key = req[t].key
         /\ req'[t].facts = req[t].facts /\ req'[t].result = req[t].result
         /\ \A u \in Requests \ {t} : req'[u] = req[u]
  BY DEF Goto, RequestType

(* Raise sends one request to its except branch, which has lost the result. *)
LEMMA RaiseForgets ==
  ASSUME req \in [Requests -> RequestType], NEW t \in Requests, Raise(t)
  PROVE  /\ req' \in [Requests -> RequestType]
         /\ req'[t].pc = "error"
         /\ req'[t].action = req[t].action /\ req'[t].key = req[t].key
         /\ \A u \in Requests \ {t} : req'[u] = req[u]
  <1> DEFINE new == [req[t] EXCEPT !.pc = "error", !.facts = None, !.result = NoResult]
  <1>1. NoResult \in ResultType /\ req[t] \in RequestType
    BY DEF NoResult, ResultType, NoApproval
  <1>2. /\ new \in RequestType /\ new.pc = "error"
        /\ new.action = req[t].action /\ new.key = req[t].key
    BY <1>1 DEF RequestType, Points
  <1>3. req' = [req EXCEPT ![t] = new]
    BY DEF Raise
  <1> HIDE DEF new
  <1>4. req' \in [Requests -> RequestType]
    BY <1>2, <1>3
  <1>5. req'[t] = new /\ \A u \in Requests \ {t} : req'[u] = req[u]
    BY <1>3
  <1> QED
    BY <1>2, <1>4, <1>5

(* Return ends one request. *)
LEMMA ReturnEnds ==
  ASSUME req \in [Requests -> RequestType], NEW t \in Requests, Return(t)
  PROVE  /\ req' \in [Requests -> RequestType]
         /\ req'[t].pc = "idle" /\ req'[t].action = None
         /\ \A u \in Requests \ {t} : req'[u] = req[u]
  <1>1. NoResult \in ResultType
    BY DEF NoResult, ResultType, NoApproval
  <1>2. Idle \in RequestType
    BY <1>1 DEF Idle, RequestType, Points
  <1> QED
    BY <1>2 DEF Return, Idle

(* Decide leaves one request with a decision on the facts it has read. *)
LEMMA DecideJudges ==
  ASSUME TypeOK, NEW t \in Requests, req[t].facts \in DataValues,
         NEW decision \in Outcomes, NEW p \in ApprovalIds \cup {NoApproval},
         Decide(t, decision, p)
  PROVE  /\ req' \in [Requests -> RequestType]
         /\ req'[t].pc = "record"
         /\ req'[t].action = req[t].action /\ req'[t].key = req[t].key
         /\ req'[t].result.decision = decision
         /\ req'[t].result.data = req[t].facts /\ req'[t].result.version = version
         /\ \A u \in Requests \ {t} : req'[u] = req[u]
  <1>1. [decision |-> decision, data |-> req[t].facts, version |-> version, approval |-> p]
          \in ResultType
    BY DEF TypeOK, ResultType
  <1>2. PICK judged \in ResultType :
          /\ req' = [req EXCEPT ![t].pc = "record", ![t].facts = None, ![t].result = judged]
          /\ judged.decision = decision /\ judged.data = req[t].facts
          /\ judged.version = version
    BY <1>1 DEF Decide
  <1> DEFINE new == [req[t] EXCEPT !.pc = "record", !.facts = None, !.result = judged]
  <1>3. req[t] \in RequestType /\ req \in [Requests -> RequestType]
    BY DEF TypeOK
  <1>4. /\ new \in RequestType /\ new.pc = "record" /\ new.result = judged
        /\ new.action = req[t].action /\ new.key = req[t].key
    BY <1>3 DEF RequestType, Points, TryPoints
  <1>5. req' = [req EXCEPT ![t] = new]
    BY <1>2
  <1> HIDE DEF new
  <1>6. req' \in [Requests -> RequestType]
    BY <1>3, <1>4, <1>5
  <1>7. req'[t] = new /\ \A u \in Requests \ {t} : req'[u] = req[u]
    BY <1>3, <1>5
  <1> QED
    BY <1>2, <1>4, <1>6, <1>7

(* The transitions of state_machine.py that the invariant rests on. *)
LEMMA Transitions ==
  ASSUME NEW s \in Statuses, NEW target, MayBecome(s, target)
  PROVE  /\ s \notin FinalStatuses
         /\ target \in Statuses
         /\ target = "EXECUTING" => s \in {"ALLOWED", "REVALIDATING"}
         /\ target = "SUCCEEDED" => s = "EXECUTING"
         /\ s \in {"ALLOWED", "EXECUTING"} => target \in {"EXECUTING", "SUCCEEDED", "FAILED"}
         /\ target = "ALLOWED" => s \in {"PROPOSED", "EVALUATED"}
         /\ target \in {"AWAITING_APPROVAL", "DENIED", "BLOCKED"} => s \in {"EVALUATED", "REVALIDATING"}
         /\ target \in {"APPROVED", "REJECTED", "EXPIRED"} => s = "AWAITING_APPROVAL"
  BY DEF MayBecome, ALLOWED_TRANSITIONS, Statuses, FinalStatuses

(* What a decision that record_evaluation accepts does to the ledger row. *)
LEMMA Recorded ==
  ASSUME NEW t \in Requests, status[req[t].action] \in Statuses, MayRecord(t)
  PROVE  /\ Target(t) \in {"EXECUTING", "ALLOWED", "AWAITING_APPROVAL", "DENIED", "BLOCKED"}
         /\ Target(t) \in {"EXECUTING", "ALLOWED"} <=> req[t].result.decision = "ALLOW"
         /\ status[req[t].action] \in {"PROPOSED", "EVALUATED", "REVALIDATING", "ALLOWED"}
         /\ Target(t) = "EXECUTING" => Resuming(t)
         /\ status[req[t].action] = "ALLOWED" => Target(t) = "EXECUTING"
  <1> DEFINE s == status[req[t].action]
             from == IF ~Resuming(t) /\ s = "PROPOSED" THEN "EVALUATED" ELSE s
  <1>1. from \in Statuses /\ MayBecome(from, Target(t))
    BY DEF MayRecord, Statuses
  <1>2. /\ Target(t) \in {"EXECUTING", "ALLOWED", "AWAITING_APPROVAL", "DENIED", "BLOCKED"}
        /\ Target(t) \in {"EXECUTING", "ALLOWED"} <=> req[t].result.decision = "ALLOW"
        /\ Target(t) = "EXECUTING" => Resuming(t)
    BY DEF Target, StatusFor
  <1>3. from \in {"PROPOSED", "EVALUATED", "REVALIDATING", "ALLOWED"}
    BY <1>1, <1>2, Transitions
  <1>4. s = "ALLOWED" => Target(t) = "EXECUTING"
    BY <1>1, <1>2, Transitions
  <1> QED
    BY <1>2, <1>3, <1>4

-----------------------------------------------------------------------------
(* Types *)

(* A table of approval requests keeps its type under ApplyPolicy, which      *)
(* decides on the facts and versions read and creates at most one request.   *)
LEMMA PolicyDecides ==
  ASSUME TypeOK, NEW t \in Requests, req[t].facts \in DataValues,
         NEW table \in [ApprovalIds -> ApprovalType], ApplyPolicy(t, table)
  PROVE  /\ approval' \in [ApprovalIds -> ApprovalType]
         /\ \A p \in ApprovalIds :
              \/ approval'[p] \in {table[p], approval[p]}
              \/ /\ table[p].status = "ABSENT" /\ approval'[p].status = "PENDING"
                 /\ approval'[p].action = req[t].action
         /\ \/ Raise(t)
            \/ \E p \in ApprovalIds \cup {NoApproval} :
                  Decide(t, Verdict[<<req[t].facts, version>>], p)
  <1> DEFINE d == req[t].facts
             fresh == [status |-> "PENDING", action |-> req[t].action, data |-> d, version |-> version]
             decision == Verdict[<<d, version>>]
  <1>1. fresh \in ApprovalType
    BY DEF TypeOK, ApprovalType, RequestType
  <1>2. CASE approval' = approval /\ Raise(t)
    BY <1>2 DEF TypeOK
  <1>3. CASE approval' = table /\ Decide(t, decision, NoApproval)
    BY <1>3
  <1>4. ASSUME NEW p \in ApprovalIds, table[p].status = "ABSENT",
               approval' = [table EXCEPT ![p] = fresh]
        PROVE  /\ approval' \in [ApprovalIds -> ApprovalType]
               /\ \A q \in ApprovalIds \ {p} : approval'[q] = table[q]
               /\ approval'[p].status = "PENDING" /\ approval'[p].action = req[t].action
    BY <1>1, <1>4
  <1>5. \/ approval' = approval /\ Raise(t)
        \/ approval' = table /\ Decide(t, decision, NoApproval)
        \/ \E p \in ApprovalIds : /\ table[p].status = "ABSENT"
                                 /\ approval' = [table EXCEPT ![p] = fresh]
                                 /\ Decide(t, decision, p)
    BY DEF ApplyPolicy
  <1> HIDE DEF fresh
  <1> QED
    BY <1>2, <1>3, <1>4, <1>5

(* An approval keeps its action; one that still waits for an answer waits on, *)
(* and a new one is for the action of the request that creates it.            *)
ApprovalsBelong(t) ==
  \A p \in ApprovalIds :
    /\ approval[p].status = "PENDING" => approval'[p] = approval[p]
    /\ \/ approval'[p].action = approval[p].action
             /\ (approval[p].status = "ABSENT" => approval'[p].status = "ABSENT")
       \/ approval'[p].action = req[t].action

(* evaluate_action leaves consumed approvals alone, and allows only what the *)
(* policy allows or a matching approval, consumed by this very step, covers. *)
LEMMA EvaluationJudges ==
  ASSUME TypeOK, NEW t \in Requests, req[t].facts \in DataValues, EvaluateAction(t)
  PROVE  /\ approval' \in [ApprovalIds -> ApprovalType]
         /\ req' \in [Requests -> RequestType]
         /\ \A u \in Requests \ {t} : req'[u] = req[u]
         /\ req'[t].action = req[t].action /\ req'[t].key = req[t].key
         /\ AnswersStand
         /\ ApprovalsBelong(t)
         /\ \/ req'[t].pc = "error"
            \/ /\ req'[t].pc = "record" /\ req'[t].result.decision \in Outcomes
               /\ req'[t].result.decision = "ALLOW" => Authorised(req[t].action, req[t].result)'
  <1> DEFINE d == req[t].facts
             decision == Verdict[<<d, version>>]
             Wanted(p) == Matches(p, req[t].action, d, version)
  <1>1. decision \in Outcomes
    BY ConstantsAssumption DEF TypeOK
  <1>2. "DENY" \in Outcomes /\ "ALLOW" \in Outcomes
        /\ NoApproval \in ApprovalIds \cup {NoApproval}
    BY DEF Outcomes
  <1>3. CASE UNCHANGED approval /\ Decide(t, "DENY", NoApproval)
    BY <1>2, <1>3, DecideJudges DEF TypeOK, AnswersStand, ApprovalsBelong
  <1>4. ASSUME NEW p \in ApprovalIds, Wanted(p),
               approval' = [approval EXCEPT ![p].status = "CONSUMED"],
               Decide(t, "ALLOW", NoApproval)
        PROVE  /\ approval' \in [ApprovalIds -> ApprovalType]
               /\ AnswersStand
               /\ ApprovalsBelong(t)
               /\ Authorised(req[t].action, req[t].result)'
    <2>1. approval[p] \in ApprovalType
      BY DEF TypeOK
    <2>2. approval' \in [ApprovalIds -> ApprovalType]
      BY <1>4, <2>1 DEF TypeOK, ApprovalType
    <2>3. approval'[p] = [approval[p] EXCEPT !.status = "CONSUMED"]
          /\ \A q \in ApprovalIds \ {p} : approval'[q] = approval[q]
      BY <1>4 DEF TypeOK
    <2>4. /\ approval'[p].status = "CONSUMED" /\ approval'[p].action = req[t].action
          /\ approval'[p].data = d /\ approval'[p].version = version
      BY <1>4, <2>1, <2>3 DEF Matches, ApprovalType
    <2>5. /\ req'[t].action = req[t].action
          /\ req'[t].result.data = d /\ req'[t].result.version = version
      BY <1>2, <1>4, DecideJudges
    <2>6. Authorised(req[t].action, req[t].result)'
      BY <2>4, <2>5 DEF Authorised
    <2>7. approval[p].status = "APPROVED"
      BY <1>4 DEF Matches
    <2>8. AnswersStand
      BY <2>3, <2>4, <2>7 DEF AnswersStand
    <2>9. ApprovalsBelong(t)
      BY <2>3, <2>4, <2>7 DEF ApprovalsBelong
    <2> QED
      BY <2>2, <2>6, <2>8, <2>9
  <1>5. ASSUME NEW table \in [ApprovalIds -> ApprovalType], ApplyPolicy(t, table),
               \A q \in ApprovalIds :
                 \/ table[q] = approval[q]
                 \/ /\ approval[q].status = "APPROVED" /\ table[q].status = "EXPIRED"
                    /\ table[q].action = approval[q].action
        PROVE  /\ approval' \in [ApprovalIds -> ApprovalType]
               /\ req' \in [Requests -> RequestType]
               /\ \A u \in Requests \ {t} : req'[u] = req[u]
               /\ req'[t].action = req[t].action /\ req'[t].key = req[t].key
               /\ AnswersStand
               /\ ApprovalsBelong(t)
               /\ \/ req'[t].pc = "error"
                  \/ /\ req'[t].pc = "record" /\ req'[t].result.decision \in Outcomes
                     /\ req'[t].result.decision = "ALLOW" => Authorised(req[t].action, req[t].result)'
    <2>1. /\ approval' \in [ApprovalIds -> ApprovalType]
          /\ \A p \in ApprovalIds :
               \/ approval'[p] \in {table[p], approval[p]}
               \/ /\ table[p].status = "ABSENT" /\ approval'[p].status = "PENDING"
                  /\ approval'[p].action = req[t].action
          /\ \/ Raise(t)
             \/ \E p \in ApprovalIds \cup {NoApproval} : Decide(t, decision, p)
      BY <1>5, PolicyDecides
    <2>2. AnswersStand /\ ApprovalsBelong(t)
      BY <1>5, <2>1 DEF AnswersStand, ApprovalsBelong
    <2>3. CASE Raise(t)
      BY <2>1, <2>2, <2>3, RaiseForgets DEF TypeOK
    <2>4. ASSUME NEW p \in ApprovalIds \cup {NoApproval}, Decide(t, decision, p)
          PROVE  /\ req' \in [Requests -> RequestType] /\ req'[t].pc = "record"
                 /\ \A u \in Requests \ {t} : req'[u] = req[u]
                 /\ req'[t].action = req[t].action /\ req'[t].key = req[t].key
                 /\ req'[t].result.decision \in Outcomes
                 /\ req'[t].result.decision = "ALLOW" => Authorised(req[t].action, req[t].result)'
      <3>1. /\ req' \in [Requests -> RequestType] /\ req'[t].pc = "record"
            /\ \A u \in Requests \ {t} : req'[u] = req[u]
            /\ req'[t].action = req[t].action /\ req'[t].key = req[t].key
            /\ req'[t].result.decision = decision
            /\ req'[t].result.data = d /\ req'[t].result.version = version
        BY <1>1, <2>4, DecideJudges
      <3> QED
        BY <1>1, <3>1 DEF Authorised
    <2> QED
      BY <2>1, <2>2, <2>3, <2>4
  <1>6. CASE ApplyPolicy(t, approval)
    BY <1>5, <1>6 DEF TypeOK
  <1>7. ASSUME NEW p \in ApprovalIds, Wanted(p),
               ApplyPolicy(t, [approval EXCEPT ![p].status = "EXPIRED"])
        PROVE  \E table \in [ApprovalIds -> ApprovalType] :
                 /\ ApplyPolicy(t, table)
                 /\ \A q \in ApprovalIds :
                      \/ table[q] = approval[q]
                      \/ /\ approval[q].status = "APPROVED" /\ table[q].status = "EXPIRED"
                         /\ table[q].action = approval[q].action
    <2> DEFINE table == [approval EXCEPT ![p].status = "EXPIRED"]
    <2>1. approval[p].status = "APPROVED" /\ approval[p] \in ApprovalType
      BY <1>7 DEF Matches, TypeOK
    <2>2. table \in [ApprovalIds -> ApprovalType] /\ table[p].status = "EXPIRED"
          /\ table[p].action = approval[p].action
          /\ \A q \in ApprovalIds \ {p} : table[q] = approval[q]
      BY <2>1 DEF TypeOK, ApprovalType
    <2>3. ApplyPolicy(t, table)
      BY <1>7
    <2> HIDE DEF table
    <2> QED
      BY <2>1, <2>2, <2>3
  <1>8. \/ UNCHANGED approval /\ Decide(t, "DENY", NoApproval)
        \/ \E p \in ApprovalIds : /\ Wanted(p)
                                 /\ approval' = [approval EXCEPT ![p].status = "CONSUMED"]
                                 /\ Decide(t, "ALLOW", NoApproval)
        \/ \E p \in ApprovalIds : /\ Wanted(p)
                                 /\ ApplyPolicy(t, [approval EXCEPT ![p].status = "EXPIRED"])
        \/ ApplyPolicy(t, approval)
    BY DEF EvaluateAction
  <1> QED
    <2>1. CASE \E p \in ApprovalIds : /\ Wanted(p)
                                 /\ approval' = [approval EXCEPT ![p].status = "CONSUMED"]
                                 /\ Decide(t, "ALLOW", NoApproval)
      BY <1>2, <1>4, <2>1, DecideJudges
    <2>2. CASE \E p \in ApprovalIds : /\ Wanted(p)
                                 /\ ApplyPolicy(t, [approval EXCEPT ![p].status = "EXPIRED"])
      BY <1>5, <1>7, <2>2
    <2> QED
      BY <1>3, <1>6, <1>8, <2>1, <2>2
(* record_evaluation moves the request by the decision and keeps only that. *)
LEMMA RecordingMoves ==
  ASSUME req \in [Requests -> RequestType], NEW t \in Requests,
         RecordEvaluation(t), MayRecord(t)
  PROVE  /\ req' \in [Requests -> RequestType]
         /\ req'[t].action = req[t].action /\ req'[t].key = req[t].key
         /\ req'[t].result.decision = req[t].result.decision
         /\ req'[t].pc = "handler" <=> Target(t) = "EXECUTING"
         /\ req'[t].pc = "begin" <=> Target(t) = "ALLOWED"
         /\ req'[t].pc \in {"handler", "begin", "decline"}
         /\ \A u \in Requests \ {t} : req'[u] = req[u]
  <1> DEFINE point == CASE Target(t) = "EXECUTING" -> "handler"
                        [] Target(t) = "ALLOWED"   -> "begin"
                        [] OTHER                   -> "decline"
             kept == [NoResult EXCEPT !.decision = req[t].result.decision]
             new == [req[t] EXCEPT !.pc = point, !.result = kept]
  <1>1. req[t] \in RequestType /\ req[t].result \in ResultType
    BY DEF RequestType
  <1>2. kept \in ResultType /\ kept.decision = req[t].result.decision
    BY <1>1 DEF NoResult, ResultType, NoApproval
  <1>3. /\ point \in {"handler", "begin", "decline"}
        /\ point = "handler" <=> Target(t) = "EXECUTING"
        /\ point = "begin" <=> Target(t) = "ALLOWED"
    OBVIOUS
  <1>4. point \in Points
    BY <1>3 DEF Points, TryPoints
  <1>5. req' = [req EXCEPT ![t] = new]
    BY DEF RecordEvaluation
  <1> HIDE DEF kept, point
  <1>6. /\ new \in RequestType /\ new.pc = point /\ new.result = kept
        /\ new.action = req[t].action /\ new.key = req[t].key
    BY <1>1, <1>2, <1>4 DEF RequestType
  <1> HIDE DEF new
  <1>7. req' \in [Requests -> RequestType]
    BY <1>5, <1>6
  <1>8. req'[t] = new /\ \A u \in Requests \ {t} : req'[u] = req[u]
    BY <1>5
  <1> QED
    BY <1>2, <1>3, <1>6, <1>7, <1>8
(* Every step keeps every variable in its type. *)
LEMMA TypePreserved ==
  TypeOK /\ ApprovalsAreSound /\ RequestsAreSound /\ [Next]_vars => TypeOK'
  <1> SUFFICES ASSUME TypeOK, ApprovalsAreSound, RequestsAreSound, [Next]_vars PROVE TypeOK'
    OBVIOUS
  <1> USE DEF environment, actionRows, approvalRows, effectRows
  <1>1. ASSUME NEW t \in Requests, NEW a \in Actions, StartExecute(t, a) PROVE TypeOK'
    <2>1. NoResult \in ResultType
      BY DEF NoResult, ResultType, NoApproval
    <2>2. [Idle EXCEPT !.pc = "propose", !.action = a, !.key = OwnKey] \in RequestType
      BY <2>1 DEF Idle, RequestType, Points, Keys
    <2>3. req' \in [Requests -> RequestType]
      BY <1>1, <2>2 DEF StartExecute, TypeOK
    <2>4. claim' \in [Calls -> ClaimStatuses]
      BY <1>1 DEF StartExecute, TypeOK, ClaimStatuses
    <2> QED
      BY <1>1, <2>3, <2>4 DEF StartExecute, TypeOK
  <1>2. ASSUME NEW t \in Requests, NEW a \in Mutations, NEW k \in ResumeKeys, StartResume(t, a, k)
        PROVE  TypeOK'
    <2>1. NoResult \in ResultType
      BY DEF NoResult, ResultType, NoApproval
    <2>2. [Idle EXCEPT !.pc = "create", !.action = a, !.key = k] \in RequestType
      BY <2>1 DEF Idle, RequestType, Points, Keys, Actions
    <2>3. req' \in [Requests -> RequestType]
      BY <1>2, <2>2 DEF StartResume, TypeOK
    <2>4. claim' \in [Calls -> ClaimStatuses]
      BY <1>2 DEF StartResume, TypeOK, ClaimStatuses
    <2> QED
      BY <1>2, <2>3, <2>4 DEF StartResume, TypeOK
  <1>3. ASSUME NEW t \in Requests, Propose(t) PROVE TypeOK'
    BY <1>3, GotoMoves DEF Propose, Statuses, Points, TryPoints, TypeOK
  <1>4. ASSUME NEW t \in Requests, CreateExecution(t) PROVE TypeOK'
    BY <1>4, GotoMoves DEF CreateExecution, ExecutionStatuses, Points, TryPoints, TypeOK
  <1>5. ASSUME NEW t \in Requests, BeginRevalidation(t) PROVE TypeOK'
    BY <1>5, GotoMoves, RaiseForgets DEF BeginRevalidation, Statuses, Points, TryPoints, TypeOK
  <1>6. ASSUME NEW t \in Requests, BuildFacts(t) PROVE TypeOK'
    BY <1>6 DEF BuildFacts, RequestType, Points, TryPoints, TypeOK
  <1>7. ASSUME NEW t \in Requests, EvaluateAction(t) PROVE TypeOK'
    BY <1>7, EvaluationJudges DEF EvaluateAction, RequestsAreSound, SoundRequest, TypeOK
  <1>8. ASSUME NEW t \in Requests, RecordEvaluation(t) PROVE TypeOK'
    <2>1. CASE MayRecord(t)
      <3>1. req' \in [Requests -> RequestType]
        BY <1>8, <2>1, RecordingMoves DEF TypeOK
      <3>2. Target(t) \in Statuses /\ req[t].result \in ResultType
        BY DEF Target, StatusFor, Statuses, TypeOK, RequestType
      <3> QED
        BY <1>8, <2>1, <3>1, <3>2 DEF RecordEvaluation, TypeOK
    <2>2. CASE ~MayRecord(t)
      BY <1>8, <2>2, RaiseForgets DEF RecordEvaluation, TypeOK
    <2> QED
      BY <2>1, <2>2
  <1>9. ASSUME NEW t \in Requests, AllowRead(t) PROVE TypeOK'
    BY <1>9, GotoMoves DEF AllowRead, Statuses, Points, TryPoints, TypeOK
  <1>10. ASSUME NEW t \in Requests, BeginExecution(t) PROVE TypeOK'
    BY <1>10, GotoMoves, RaiseForgets DEF BeginExecution, Statuses, Points, TryPoints, TypeOK
  <1>11. ASSUME NEW t \in Requests, HandlerCommits(t) PROVE TypeOK'
    BY <1>11, GotoMoves DEF HandlerCommits, Points, TryPoints, TypeOK
  <1>12. ASSUME NEW t \in Requests, FinishExecution(t) PROVE TypeOK'
    BY <1>12, GotoMoves DEF FinishExecution, ExecutionStatuses, Points, TryPoints, TypeOK
  <1>13. ASSUME NEW t \in Requests, Finish(t) PROVE TypeOK'
    BY <1>13, GotoMoves, RaiseForgets DEF Finish, Statuses, Points, TryPoints, TypeOK
  <1>14. ASSUME NEW t \in Requests, CompleteRequest(t) PROVE TypeOK'
    BY <1>14, ReturnEnds DEF CompleteRequest, Response, ClaimStatuses, TypeOK
  <1>15. ASSUME NEW t \in Requests, FinishFailed(t) PROVE TypeOK'
    BY <1>15, GotoMoves, ReturnEnds DEF FinishFailed, Statuses, Points, TryPoints, TypeOK
  <1>16. ASSUME NEW t \in Requests, FailRequest(t) PROVE TypeOK'
    BY <1>16, ReturnEnds DEF FailRequest, ClaimStatuses, TypeOK
  <1>17. ASSUME NEW t \in Requests, StepFails(t) PROVE TypeOK'
    BY <1>17, RaiseForgets DEF StepFails, TypeOK
  <1>18. ASSUME NEW t \in Requests, Crash(t) PROVE TypeOK'
    BY <1>18, ReturnEnds DEF Crash, TypeOK
  <1>19. ASSUME NEW p \in ApprovalIds, NEW answer \in {"APPROVED", "REJECTED"}, ResolveApproval(p, answer) PROVE TypeOK'
    BY <1>19 DEF ResolveApproval, Statuses, ApprovalType, TypeOK
  <1>20. ASSUME NEW p \in ApprovalIds, ResolveTooLate(p) \/ CommitExpiry(p) \/ ExpiryFails(p)
         PROVE  TypeOK'
    <2>1. CASE ResolveTooLate(p)
      BY <2>1 DEF ResolveTooLate, ApprovalType, TypeOK
    <2>2. CASE CommitExpiry(p)
      <3>1. approval[p].action \in Actions
        BY <2>2 DEF CommitExpiry, ApprovalsAreSound
      <3> QED
        BY <2>2, <3>1 DEF CommitExpiry, Statuses, ApprovalType, TypeOK
    <2>3. CASE ExpiryFails(p)
      BY <2>3 DEF ExpiryFails, TypeOK
    <2> QED
      BY <1>20, <2>1, <2>2, <2>3
  <1>21. ASSUME NEW p \in ApprovalIds, ApprovalLapses(p) PROVE TypeOK'
    BY <1>21 DEF ApprovalLapses, TypeOK
  <1>22. ASSUME NEW c \in Calls, ClaimGoesStale(c) PROVE TypeOK'
    BY <1>22 DEF ClaimGoesStale, ClaimStatuses, TypeOK
  <1>23. CASE ChangeMasterData
    BY <1>23 DEF ChangeMasterData, TypeOK
  <1>24. CASE ChangePolicy
    BY <1>24, ConstantsAssumption DEF ChangePolicy, Versions, TypeOK
  <1>25. CASE ChangeGrant
    BY <1>25 DEF ChangeGrant, TypeOK
  <1>26. CASE UNCHANGED vars
    BY <1>26 DEF vars, TypeOK
  <1> QED
    BY <1>1, <1>2, <1>3, <1>4, <1>5, <1>6, <1>7, <1>8, <1>9, <1>10, <1>11, <1>12, <1>13, <1>14, <1>15, <1>16, <1>17, <1>18, <1>19, <1>20, <1>21, <1>22, <1>23, <1>24, <1>25, <1>26 DEF Next, Step, Environment
-----------------------------------------------------------------------------
(* Safety *)

(* No step takes back a human's answer or touches a consumed approval. *)
LEMMA AnswersPreserved ==
  ASSUME TypeOK, ApprovalsAreSound, RequestsAreSound, [Next]_vars
  PROVE  AnswersStand
  <1>1. ASSUME NEW t \in Requests, EvaluateAction(t) PROVE AnswersStand
    <2>1. req[t].facts \in DataValues
      BY <1>1 DEF EvaluateAction, RequestsAreSound, SoundRequest
    <2> QED
      BY <1>1, <2>1, EvaluationJudges
  <1>2. ASSUME NEW q \in ApprovalIds, NEW answer \in {"APPROVED", "REJECTED"},
               ResolveApproval(q, answer) \/ ResolveTooLate(q) \/ CommitExpiry(q),
               ~UNCHANGED approval
        PROVE  AnswersStand
    <2>1. PICK new \in {"APPROVED", "REJECTED", "EXPIRED"} :
            approval' = [approval EXCEPT ![q].status = new]
      BY <1>2 DEF ResolveApproval, ResolveTooLate, CommitExpiry
    <2>2. approval[q].status = "PENDING" /\ approval[q] \in ApprovalType
      BY <1>2 DEF ResolveApproval, ResolveTooLate, CommitExpiry, ApprovalsAreSound, Resolvable, TypeOK
    <2>3. approval'[q].status = new /\ \A p \in ApprovalIds \ {q} : approval'[p] = approval[p]
      BY <2>1, <2>2 DEF TypeOK, ApprovalType
    <2> QED
      BY <2>2, <2>3 DEF AnswersStand
  <1>3. \/ \E t \in Requests : EvaluateAction(t)
        \/ \E q \in ApprovalIds, answer \in {"APPROVED", "REJECTED"} :
              ResolveApproval(q, answer) \/ ResolveTooLate(q) \/ CommitExpiry(q)
        \/ UNCHANGED approval
    BY DEF Next, Step, Environment, StartExecute, StartResume, Propose, CreateExecution,
           BeginRevalidation, BuildFacts, RecordEvaluation, AllowRead, BeginExecution,
           HandlerCommits, FinishExecution, Finish, CompleteRequest, FinishFailed, FailRequest,
           StepFails, Crash, ExpiryFails, ApprovalLapses, ClaimGoesStale, ChangeMasterData,
           ChangePolicy, ChangeGrant, approvalRows, vars
  <1>4. CASE UNCHANGED approval
    BY <1>4 DEF AnswersStand
  <1> QED
    BY <1>1, <1>2, <1>3, <1>4

(* What has authority keeps it. *)
LEMMA AuthorityStands ==
  ASSUME TypeOK, ApprovalsAreSound, RequestsAreSound, [Next]_vars, NEW a, NEW b, Authorised(a, b)
  PROVE  \/ Verdict[<<b.data, b.version>>] = "ALLOW"
         \/ \E p \in ApprovalIds :
               /\ approval'[p].status = "CONSUMED" /\ approval'[p].action = a
               /\ approval'[p].data = b.data /\ approval'[p].version = b.version
  BY AnswersPreserved DEF Authorised, AnswersStand

(* A request that another one's step leaves alone stays sound. *)
LEMMA OthersStaySound ==
  ASSUME TypeOK, ApprovalsAreSound, RequestsAreSound, [Next]_vars, NEW u \in Requests, req'[u] = req[u]
  PROVE  SoundRequest(u)'
  <1>1. req[u].pc = "record" /\ req[u].result.decision = "ALLOW"
          => Authorised(req[u].action, req[u].result)'
    BY AuthorityStands DEF RequestsAreSound, SoundRequest, Authorised
  <1> QED
    BY <1>1 DEF RequestsAreSound, SoundRequest, Resuming

(* Every step leaves every request knowing what it needs to know. *)
LEMMA SoundnessPreserved ==
  TypeOK /\ ApprovalsAreSound /\ RequestsAreSound /\ [Next]_vars => RequestsAreSound'
  <1> SUFFICES ASSUME TypeOK, ApprovalsAreSound, RequestsAreSound, [Next]_vars, NEW u \in Requests
               PROVE  SoundRequest(u)'
    BY DEF RequestsAreSound
  <1> DEFINE Sound(t) == SoundRequest(t) /\ req[t] \in RequestType /\ req \in [Requests -> RequestType]
  <1>0. \A t \in Requests : Sound(t)
    BY DEF TypeOK, RequestsAreSound
  <1>1. ASSUME NEW t \in Requests, NEW a \in Actions, StartExecute(t, a) PROVE SoundRequest(u)'
    <2>1. SoundRequest(t)' /\ (u # t => req'[u] = req[u])
      BY <1>0, <1>1 DEF StartExecute, SoundRequest, Resuming, Idle, Keys
    <2> QED
      BY <2>1, OthersStaySound
  <1>2. ASSUME NEW t \in Requests, NEW a \in Mutations, NEW k \in ResumeKeys, StartResume(t, a, k) PROVE SoundRequest(u)'
    <2>1. SoundRequest(t)' /\ (u # t => req'[u] = req[u])
      BY <1>0, <1>2 DEF StartResume, SoundRequest, Resuming, Idle, Keys, Actions
    <2> QED
      BY <2>1, OthersStaySound
  <1>3. ASSUME NEW t \in Requests, Propose(t) PROVE SoundRequest(u)'
    <2>1. SoundRequest(t)' /\ (u # t => req'[u] = req[u])
      BY <1>0, <1>3, GotoMoves DEF Propose, SoundRequest, Resuming, Points, TryPoints
    <2> QED
      BY <2>1, OthersStaySound
  <1>4. ASSUME NEW t \in Requests, CreateExecution(t) PROVE SoundRequest(u)'
    <2>1. PICK point \in {"revalidate", "facts", "allow"} :
            /\ Goto(t, point)
            /\ point = "revalidate" => Resuming(t)
            /\ point = "facts" => Mutating(t)
            /\ point = "allow" => ~Mutating(t)
      BY <1>0, <1>4 DEF CreateExecution, SoundRequest, Resuming, Mutating
    <2>2. point \in Points /\ req[t].pc = "create"
      BY <1>4 DEF CreateExecution, Points, TryPoints
    <2>3. /\ req'[t].pc = point
          /\ req'[t].action = req[t].action /\ req'[t].key = req[t].key
          /\ u # t => req'[u] = req[u]
      BY <1>0, <2>1, <2>2, GotoMoves
    <2>4. SoundRequest(t)'
      BY <1>0, <2>1, <2>2, <2>3 DEF SoundRequest, Resuming, Mutating, Actions
    <2> QED
      BY <2>3, <2>4, OthersStaySound
  <1>5. ASSUME NEW t \in Requests, BeginRevalidation(t) PROVE SoundRequest(u)'
    <2>1. SoundRequest(t)' /\ (u # t => req'[u] = req[u])
      BY <1>0, <1>5, GotoMoves, RaiseForgets DEF BeginRevalidation, SoundRequest, Resuming, Points, TryPoints
    <2> QED
      BY <2>1, OthersStaySound
  <1>6. ASSUME NEW t \in Requests, BuildFacts(t) PROVE SoundRequest(u)'
    <2>1. SoundRequest(t)' /\ (u # t => req'[u] = req[u])
      BY <1>0, <1>6 DEF BuildFacts, SoundRequest, Resuming, RequestType, TypeOK
    <2> QED
      BY <2>1, OthersStaySound
  <1>7. ASSUME NEW t \in Requests, EvaluateAction(t) PROVE SoundRequest(u)'
    <2>1. SoundRequest(t)' /\ (u # t => req'[u] = req[u])
      BY <1>0, <1>7, EvaluationJudges DEF EvaluateAction, SoundRequest, Resuming
    <2> QED
      BY <2>1, OthersStaySound
  <1>8. ASSUME NEW t \in Requests, RecordEvaluation(t) PROVE SoundRequest(u)'
    <2>1. req[t].pc = "record"
      BY <1>8 DEF RecordEvaluation
    <2>2. CASE MayRecord(t)
      <3>1. status[req[t].action] \in Statuses
        BY <1>0, <2>1 DEF SoundRequest, Resuming, TypeOK
      <3>2. SoundRequest(t)' /\ (u # t => req'[u] = req[u])
        BY <1>0, <1>8, <2>1, <2>2, <3>1, Recorded, RecordingMoves DEF SoundRequest, Resuming
      <3> QED
        BY <3>2, OthersStaySound
    <2>3. CASE ~MayRecord(t)
      <3>1. SoundRequest(t)' /\ (u # t => req'[u] = req[u])
        BY <1>0, <1>8, <2>3, RaiseForgets DEF RecordEvaluation, SoundRequest, Resuming
      <3> QED
        BY <3>1, OthersStaySound
    <2> QED
      BY <2>2, <2>3
  <1>9. ASSUME NEW t \in Requests, AllowRead(t) PROVE SoundRequest(u)'
    <2>1. SoundRequest(t)' /\ (u # t => req'[u] = req[u])
      BY <1>0, <1>9, GotoMoves DEF AllowRead, SoundRequest, Resuming, Points, TryPoints
    <2> QED
      BY <2>1, OthersStaySound
  <1>10. ASSUME NEW t \in Requests, BeginExecution(t) PROVE SoundRequest(u)'
    <2>1. SoundRequest(t)' /\ (u # t => req'[u] = req[u])
      BY <1>0, <1>10, GotoMoves, RaiseForgets DEF BeginExecution, SoundRequest, Resuming, Points, TryPoints
    <2> QED
      BY <2>1, OthersStaySound
  <1>11. ASSUME NEW t \in Requests, HandlerCommits(t) PROVE SoundRequest(u)'
    <2>1. SoundRequest(t)' /\ (u # t => req'[u] = req[u])
      BY <1>0, <1>11, GotoMoves DEF HandlerCommits, SoundRequest, Resuming, Points, TryPoints
    <2> QED
      BY <2>1, OthersStaySound
  <1>12. ASSUME NEW t \in Requests, FinishExecution(t) PROVE SoundRequest(u)'
    <2>1. SoundRequest(t)' /\ (u # t => req'[u] = req[u])
      BY <1>0, <1>12, GotoMoves DEF FinishExecution, SoundRequest, Resuming, Points, TryPoints
    <2> QED
      BY <2>1, OthersStaySound
  <1>13. ASSUME NEW t \in Requests, Finish(t) PROVE SoundRequest(u)'
    <2>1. SoundRequest(t)' /\ (u # t => req'[u] = req[u])
      BY <1>0, <1>13, GotoMoves, RaiseForgets DEF Finish, SoundRequest, Resuming, Points, TryPoints
    <2> QED
      BY <2>1, OthersStaySound
  <1>14. ASSUME NEW t \in Requests, CompleteRequest(t) PROVE SoundRequest(u)'
    <2>1. SoundRequest(t)' /\ (u # t => req'[u] = req[u])
      BY <1>0, <1>14, ReturnEnds DEF CompleteRequest, SoundRequest, Resuming
    <2> QED
      BY <2>1, OthersStaySound
  <1>15. ASSUME NEW t \in Requests, FinishFailed(t) PROVE SoundRequest(u)'
    <2>1. SoundRequest(t)' /\ (u # t => req'[u] = req[u])
      BY <1>0, <1>15, GotoMoves, ReturnEnds DEF FinishFailed, SoundRequest, Resuming, Points, TryPoints
    <2> QED
      BY <2>1, OthersStaySound
  <1>16. ASSUME NEW t \in Requests, FailRequest(t) PROVE SoundRequest(u)'
    <2>1. SoundRequest(t)' /\ (u # t => req'[u] = req[u])
      BY <1>0, <1>16, ReturnEnds DEF FailRequest, SoundRequest, Resuming
    <2> QED
      BY <2>1, OthersStaySound
  <1>17. ASSUME NEW t \in Requests, StepFails(t) PROVE SoundRequest(u)'
    <2>1. SoundRequest(t)' /\ (u # t => req'[u] = req[u])
      BY <1>0, <1>17, RaiseForgets DEF StepFails, SoundRequest, Resuming, Points, TryPoints
    <2> QED
      BY <2>1, OthersStaySound
  <1>18. ASSUME NEW t \in Requests, Crash(t) PROVE SoundRequest(u)'
    <2>1. SoundRequest(t)' /\ (u # t => req'[u] = req[u])
      BY <1>0, <1>18, ReturnEnds DEF Crash, SoundRequest, Resuming
    <2> QED
      BY <2>1, OthersStaySound
  <1>19. CASE Environment
    <2>1. UNCHANGED req
      BY <1>19 DEF Environment, ResolveApproval, ResolveTooLate, CommitExpiry, ExpiryFails, ApprovalLapses, ClaimGoesStale,
           ChangeMasterData, ChangePolicy, ChangeGrant
    <2> QED
      BY <2>1, OthersStaySound
  <1>20. CASE UNCHANGED vars
    BY <1>20, OthersStaySound DEF vars
  <1> QED
    BY <1>1, <1>2, <1>3, <1>4, <1>5, <1>6, <1>7, <1>8, <1>9, <1>10, <1>11, <1>12, <1>13, <1>14, <1>15, <1>16, <1>17, <1>18, <1>19, <1>20 DEF Next, Step
(* The handler of an action runs in one request at most, after its only entry *)
(* into EXECUTING: every way in starts from a status without an attempt.      *)
LEMMA ExclusionPreserved ==
  TypeOK /\ ApprovalsAreSound /\ RequestsAreSound /\ ExecutionIsExclusive /\ [Next]_vars => ExecutionIsExclusive'
  <1> SUFFICES ASSUME TypeOK, ApprovalsAreSound, RequestsAreSound, ExecutionIsExclusive, [Next]_vars
               PROVE  ExecutionIsExclusive'
    OBVIOUS
  <1> DEFINE Known(t) == req[t] \in RequestType /\ (req[t].pc # "idle" => req[t].action \in Actions)
  <1>0. /\ req \in [Requests -> RequestType] /\ \A t \in Requests : Known(t)
        /\ status \in [Actions -> Statuses] /\ attempts \in [Actions -> Nat]
        /\ effects \in [Actions -> Nat]
    BY DEF TypeOK, RequestsAreSound, SoundRequest
  <1> USE DEF actionRows, approvalRows, effectRows
  <1>1. ASSUME NEW t \in Requests, NEW a \in Actions, StartExecute(t, a) PROVE ExecutionIsExclusive'
    BY <1>0, <1>1 DEF StartExecute, ExecutionIsExclusive, Idle
  <1>2. ASSUME NEW t \in Requests, NEW a \in Mutations, NEW k \in ResumeKeys, StartResume(t, a, k) PROVE ExecutionIsExclusive'
    BY <1>0, <1>2 DEF StartResume, ExecutionIsExclusive, Idle
  <1>3. ASSUME NEW t \in Requests, Propose(t) PROVE ExecutionIsExclusive'
    BY <1>0, <1>3, GotoMoves DEF Propose, ExecutionIsExclusive, Points, TryPoints
  <1>4. ASSUME NEW t \in Requests, CreateExecution(t) PROVE ExecutionIsExclusive'
    BY <1>0, <1>4, GotoMoves DEF CreateExecution, ExecutionIsExclusive, Points, TryPoints
  <1>5. ASSUME NEW t \in Requests, BeginRevalidation(t) PROVE ExecutionIsExclusive'
    BY <1>0, <1>5, GotoMoves, RaiseForgets DEF BeginRevalidation, ExecutionIsExclusive, Points, TryPoints, MayRevalidate
  <1>6. ASSUME NEW t \in Requests, BuildFacts(t) PROVE ExecutionIsExclusive'
    BY <1>0, <1>6 DEF BuildFacts, ExecutionIsExclusive, RequestType
  <1>7. ASSUME NEW t \in Requests, EvaluateAction(t) PROVE ExecutionIsExclusive'
    <2>1. req[t].facts \in DataValues
      BY <1>7 DEF EvaluateAction, RequestsAreSound, SoundRequest
    <2>2. req'[t].pc # "handler" /\ \A u \in Requests \ {t} : req'[u] = req[u]
      BY <1>7, <2>1, EvaluationJudges
    <2> QED
      BY <1>7, <2>2 DEF EvaluateAction, ExecutionIsExclusive
  <1>8. ASSUME NEW t \in Requests, RecordEvaluation(t) PROVE ExecutionIsExclusive'
    <2>1. req[t].action \in Actions
      BY <1>0, <1>8 DEF RecordEvaluation
    <2>2. CASE MayRecord(t)
      <3>1. /\ req'[t].action = req[t].action
            /\ req'[t].pc = "handler" <=> Target(t) = "EXECUTING"
            /\ \A u \in Requests \ {t} : req'[u] = req[u]
        BY <1>0, <1>8, <2>2, RecordingMoves
      <3>2. attempts[req[t].action] = 0 /\ effects[req[t].action] = 0
        BY <1>0, <2>1, <2>2, Recorded DEF ExecutionIsExclusive, ApprovalsAreSound
      <3> QED
        BY <1>0, <1>8, <2>1, <2>2, <3>1, <3>2 DEF RecordEvaluation, ExecutionIsExclusive
    <2>3. CASE ~MayRecord(t)
      BY <1>0, <1>8, <2>3, RaiseForgets DEF RecordEvaluation, ExecutionIsExclusive
    <2> QED
      BY <2>2, <2>3
  <1>9. ASSUME NEW t \in Requests, AllowRead(t) PROVE ExecutionIsExclusive'
    BY <1>0, <1>9, GotoMoves, Transitions DEF AllowRead, ExecutionIsExclusive, Points, TryPoints
  <1>10. ASSUME NEW t \in Requests, BeginExecution(t) PROVE ExecutionIsExclusive'
    <2>1. req[t].action \in Actions
      BY <1>0, <1>10 DEF BeginExecution
    <2>2. MayBegin(req[t].action) => attempts[req[t].action] = 0 /\ effects[req[t].action] = 0
      BY <1>0, <2>1, Transitions DEF MayBegin, ExecutionIsExclusive, ApprovalsAreSound
    <2> QED
      BY <1>0, <1>10, <2>1, <2>2, GotoMoves, RaiseForgets DEF BeginExecution, ExecutionIsExclusive,
         Points, TryPoints
  <1>11. ASSUME NEW t \in Requests, HandlerCommits(t) PROVE ExecutionIsExclusive'
    BY <1>0, <1>11, GotoMoves DEF HandlerCommits, ExecutionIsExclusive, Points, TryPoints
  <1>12. ASSUME NEW t \in Requests, FinishExecution(t) PROVE ExecutionIsExclusive'
    BY <1>0, <1>12, GotoMoves DEF FinishExecution, ExecutionIsExclusive, Points, TryPoints
  <1>13. ASSUME NEW t \in Requests, Finish(t) PROVE ExecutionIsExclusive'
    BY <1>0, <1>13, GotoMoves, RaiseForgets, Transitions DEF Finish, ExecutionIsExclusive, Points, TryPoints
  <1>14. ASSUME NEW t \in Requests, CompleteRequest(t) PROVE ExecutionIsExclusive'
    BY <1>0, <1>14, ReturnEnds DEF CompleteRequest, ExecutionIsExclusive
  <1>15. ASSUME NEW t \in Requests, FinishFailed(t) PROVE ExecutionIsExclusive'
    BY <1>0, <1>15, GotoMoves, ReturnEnds, Transitions DEF FinishFailed, ExecutionIsExclusive, Points, TryPoints
  <1>16. ASSUME NEW t \in Requests, FailRequest(t) PROVE ExecutionIsExclusive'
    BY <1>0, <1>16, ReturnEnds DEF FailRequest, ExecutionIsExclusive
  <1>17. ASSUME NEW t \in Requests, StepFails(t) PROVE ExecutionIsExclusive'
    BY <1>0, <1>17, RaiseForgets DEF StepFails, ExecutionIsExclusive, Points, TryPoints
  <1>18. ASSUME NEW t \in Requests, Crash(t) PROVE ExecutionIsExclusive'
    BY <1>0, <1>18, ReturnEnds DEF Crash, ExecutionIsExclusive
  <1>19. ASSUME NEW p \in ApprovalIds, NEW answer \in {"APPROVED", "REJECTED"}, ResolveApproval(p, answer)
        PROVE  ExecutionIsExclusive'
    BY <1>0, <1>19, Transitions DEF ResolveApproval, MayAnswer, ExecutionIsExclusive
  <1>20. ASSUME NEW p \in ApprovalIds, CommitExpiry(p) PROVE ExecutionIsExclusive'
    <2>1. \A a \in Actions :
            status'[a] = status[a] \/ a \in overwritten' \/ status[a] = "AWAITING_APPROVAL"
      BY <1>0, <1>20 DEF CommitExpiry, MayExpire
    <2>2. overwritten \subseteq overwritten' /\ UNCHANGED <<attempts, effects, req>>
      BY <1>20 DEF CommitExpiry
    <2>3. \A a \in Actions : status[a] = "AWAITING_APPROVAL" /\ attempts[a] > 0 => a \in overwritten
      BY DEF ExecutionIsExclusive
    <2> QED
      BY <2>1, <2>2, <2>3 DEF ExecutionIsExclusive
  <1>21. CASE UNCHANGED <<actionRows, overwritten, effectRows, req>>
    BY <1>21 DEF ExecutionIsExclusive
  <1>22. CASE UNCHANGED vars
    BY <1>21, <1>22 DEF vars
  <1> QED
    BY <1>1, <1>2, <1>3, <1>4, <1>5, <1>6, <1>7, <1>8, <1>9, <1>10, <1>11, <1>12, <1>13, <1>14, <1>15, <1>16, <1>17, <1>18, <1>19, <1>20, <1>21, <1>22 DEF Next, Step, Environment, ResolveTooLate,
       ExpiryFails, ApprovalLapses, ClaimGoesStale, ChangeMasterData, ChangePolicy, ChangeGrant
(* The transactions that write ledger rows. *)
LEMMA WaysToWriteLedger ==
  ASSUME [Next]_vars
  PROVE  \/ \E t \in Requests :
              \/ Propose(t) \/ BeginRevalidation(t) \/ RecordEvaluation(t) \/ AllowRead(t)
              \/ BeginExecution(t) \/ Finish(t) \/ FinishFailed(t)
         \/ \E p \in ApprovalIds, answer \in {"APPROVED", "REJECTED"} :
              ResolveApproval(p, answer) \/ CommitExpiry(p)
         \/ UNCHANGED actionRows
  BY DEF Next, Step, Environment, StartExecute, StartResume, CreateExecution, BuildFacts,
         EvaluateAction, HandlerCommits, FinishExecution, CompleteRequest, FailRequest,
         StepFails, Crash, ResolveTooLate, ExpiryFails, ApprovalLapses, ClaimGoesStale,
         ChangeMasterData, ChangePolicy, ChangeGrant, actionRows, vars

(* The ledger row of an action moves forward only, until a late answer that   *)
(* still holds its approval writes EXPIRED over it.                           *)
LEMMA StatusesMoveForward ==
  ASSUME TypeOK, ApprovalsAreSound, RequestsAreSound, [Next]_vars, NEW a \in Actions
  PROVE  /\ status[a] \in FinalStatuses =>
              \/ status'[a] = status[a]
              \/ status'[a] = "EXPIRED" /\ \E p \in expiring \ expiring' : approval[p].action = a
         /\ status[a] \in {"ALLOWED", "EXECUTING", "SUCCEEDED", "FAILED", "EXPIRED"} =>
              status'[a] \in {"ALLOWED", "EXECUTING", "SUCCEEDED", "FAILED", "EXPIRED"}
         /\ status[a] = "SUCCEEDED" => status'[a] = "SUCCEEDED" \/ a \in overwritten'
         /\ status[a] = "EXPIRED" => status'[a] = "EXPIRED"
         /\ overwritten \subseteq overwritten'
  <1> DEFINE Forward ==
        /\ status[a] \in FinalStatuses => status'[a] = status[a]
        /\ status[a] \in {"ALLOWED", "EXECUTING", "SUCCEEDED", "FAILED", "EXPIRED"} =>
             status'[a] \in {"ALLOWED", "EXECUTING", "SUCCEEDED", "FAILED", "EXPIRED"}
  <1>0. /\ status \in [Actions -> Statuses]
        /\ \A t \in Requests : req[t].pc # "idle" => req[t].action \in Actions
    BY DEF TypeOK, RequestsAreSound, SoundRequest
  <1> USE DEF FinalStatuses
  <1>1. ASSUME NEW t \in Requests, Propose(t) PROVE Forward
    BY <1>0, <1>1 DEF Propose
  <1>2. ASSUME NEW t \in Requests, BeginRevalidation(t) PROVE Forward
    BY <1>0, <1>2 DEF BeginRevalidation, MayRevalidate
  <1>3. ASSUME NEW t \in Requests, RecordEvaluation(t) PROVE Forward
    <2>1. req[t].action \in Actions
      BY <1>0, <1>3 DEF RecordEvaluation
    <2>2. CASE MayRecord(t)
      <3>1. status' = [status EXCEPT ![req[t].action] = Target(t)]
        BY <1>3, <2>2 DEF RecordEvaluation
      <3>2. /\ status[req[t].action] \notin FinalStatuses \cup {"EXECUTING"}
            /\ status[req[t].action] = "ALLOWED" => Target(t) = "EXECUTING"
        BY <1>0, <2>1, <2>2, Recorded
      <3> QED
        BY <1>0, <3>1, <3>2
    <2>3. CASE ~MayRecord(t)
      BY <1>3, <2>3 DEF RecordEvaluation, actionRows
    <2> QED
      BY <2>2, <2>3
  <1>4. ASSUME NEW t \in Requests, AllowRead(t) PROVE Forward
    BY <1>0, <1>4, Transitions DEF AllowRead
  <1>5. ASSUME NEW t \in Requests, BeginExecution(t) PROVE Forward
    BY <1>0, <1>5, Transitions DEF BeginExecution, MayBegin
  <1>6. ASSUME NEW t \in Requests, Finish(t) PROVE Forward
    BY <1>0, <1>6, Transitions DEF Finish
  <1>7. ASSUME NEW t \in Requests, FinishFailed(t) PROVE Forward
    BY <1>0, <1>7, Transitions DEF FinishFailed
  <1>8. ASSUME NEW p \in ApprovalIds, NEW answer \in {"APPROVED", "REJECTED"}, ResolveApproval(p, answer)
        PROVE  Forward
    BY <1>0, <1>8, Transitions DEF ResolveApproval, MayAnswer
  <1>9. ASSUME UNCHANGED status PROVE Forward
    BY <1>9
  <1>10. ASSUME NEW p \in ApprovalIds, CommitExpiry(p)
         PROVE  \/ status'[a] = status[a]
                \/ /\ status'[a] = "EXPIRED"
                   /\ \E q \in expiring \ expiring' : approval[q].action = a
                   /\ status[a] # "AWAITING_APPROVAL" => a \in overwritten'
    <2>1. p \in expiring \ expiring'
      BY <1>10 DEF CommitExpiry
    <2>2. CASE approval[p].action = a
      BY <1>0, <1>10, <2>1, <2>2 DEF CommitExpiry, MayExpire
    <2>3. CASE approval[p].action # a
      BY <1>0, <1>10, <2>3 DEF CommitExpiry
    <2> QED
      BY <2>2, <2>3
  <1>11. overwritten \subseteq overwritten'
    BY DEF Next, Step, Environment, StartExecute, StartResume, Propose, CreateExecution,
           BeginRevalidation, BuildFacts, EvaluateAction, RecordEvaluation, AllowRead,
           BeginExecution, HandlerCommits, FinishExecution, Finish, CompleteRequest,
           FinishFailed, FailRequest, StepFails, Crash, ResolveApproval, ResolveTooLate,
           CommitExpiry, ExpiryFails, ApprovalLapses, ClaimGoesStale, ChangeMasterData,
           ChangePolicy, ChangeGrant, approvalRows, vars
  <1>12. Forward \/ \E p \in ApprovalIds : CommitExpiry(p)
    BY <1>1, <1>2, <1>3, <1>4, <1>5, <1>6, <1>7, <1>8, <1>9, WaysToWriteLedger DEF actionRows
  <1> QED
    BY <1>10, <1>11, <1>12

(* An approval stays with its action, a late answer with the approval it has  *)
(* locked, and nothing leaves an EXPIRED that was written over another status. *)
LEMMA ApprovalsPreserved ==
  TypeOK /\ ApprovalsAreSound /\ RequestsAreSound /\ [Next]_vars => ApprovalsAreSound'
  <1> SUFFICES ASSUME TypeOK, ApprovalsAreSound, RequestsAreSound, [Next]_vars
               PROVE  ApprovalsAreSound'
    OBVIOUS
  <1>0. /\ approval \in [ApprovalIds -> ApprovalType] /\ status \in [Actions -> Statuses]
        /\ overdue \subseteq ApprovalIds /\ expiring \subseteq ApprovalIds
        /\ overwritten \subseteq Actions
        /\ \A t \in Requests : req[t].pc # "idle" => req[t].action \in Actions
    BY DEF TypeOK, RequestsAreSound, SoundRequest
  <1>1. /\ \A p \in ApprovalIds : approval'[p].status # "ABSENT" => approval'[p].action \in Actions
        /\ \A p \in expiring' : approval'[p].status = "PENDING" /\ p \in overdue'
    <2> DEFINE Kept ==
          /\ \A p \in ApprovalIds : approval'[p].status # "ABSENT" => approval'[p].action \in Actions
          /\ \A p \in expiring' : approval'[p].status = "PENDING" /\ p \in overdue'
    <2>1. ASSUME NEW t \in Requests, EvaluateAction(t) PROVE Kept
      <3>1. req[t].facts \in DataValues /\ req[t].action \in Actions
        BY <1>0, <2>1 DEF EvaluateAction, RequestsAreSound, SoundRequest
      <3>2. ApprovalsBelong(t) /\ UNCHANGED <<overdue, expiring>>
        BY <2>1, <3>1, EvaluationJudges DEF EvaluateAction
      <3> QED
        BY <1>0, <3>1, <3>2 DEF ApprovalsBelong, ApprovalsAreSound
    <2>2. ASSUME NEW p \in ApprovalIds, NEW answer \in {"APPROVED", "REJECTED"},
                 ResolveApproval(p, answer)
          PROVE  Kept
      <3>1. p \notin expiring /\ approval[p].status = "PENDING" /\ UNCHANGED <<overdue, expiring>>
        BY <2>2 DEF ResolveApproval, Resolvable
      <3>2. /\ approval'[p].action = approval[p].action
            /\ \A q \in ApprovalIds \ {p} : approval'[q] = approval[q]
        BY <1>0, <2>2 DEF ResolveApproval, ApprovalType
      <3> QED
        BY <1>0, <3>1, <3>2 DEF ApprovalsAreSound
    <2>3. ASSUME NEW p \in ApprovalIds, ResolveTooLate(p) PROVE Kept
      <3>1. p \notin expiring /\ approval[p].status = "PENDING" /\ p \in overdue /\ UNCHANGED overdue
        BY <2>3 DEF ResolveTooLate, Resolvable
      <3>2. CASE UNCHANGED approval /\ expiring' = expiring \cup {p}
        BY <3>1, <3>2 DEF ApprovalsAreSound
      <3>3. CASE UNCHANGED expiring /\ approval' = [approval EXCEPT ![p].status = "EXPIRED"]
        <4>1. /\ approval'[p].action = approval[p].action
              /\ \A q \in ApprovalIds \ {p} : approval'[q] = approval[q]
          BY <1>0, <3>3 DEF ApprovalType
        <4> QED
          BY <1>0, <3>1, <3>3, <4>1 DEF ApprovalsAreSound
      <3> QED
        BY <2>3, <3>2, <3>3 DEF ResolveTooLate
    <2>4. ASSUME NEW p \in ApprovalIds, CommitExpiry(p) PROVE Kept
      <3>1. approval[p].status = "PENDING" /\ expiring' = expiring \ {p} /\ UNCHANGED overdue
        BY <2>4 DEF CommitExpiry, ApprovalsAreSound
      <3>2. /\ approval'[p].action = approval[p].action
            /\ \A q \in ApprovalIds \ {p} : approval'[q] = approval[q]
        BY <1>0, <2>4 DEF CommitExpiry, ApprovalType
      <3> QED
        BY <1>0, <3>1, <3>2 DEF ApprovalsAreSound
    <2>5. CASE UNCHANGED approval /\ expiring' \subseteq expiring /\ overdue \subseteq overdue'
      BY <2>5 DEF ApprovalsAreSound
    <2> HIDE DEF Kept
    <2>6. ASSUME NEW t \in Requests, Step(t) \/ StepFails(t) \/ Crash(t), ~EvaluateAction(t)
          PROVE  UNCHANGED <<approval, expiring, overdue>>
      BY <2>6 DEF Step, Propose, CreateExecution, BeginRevalidation, BuildFacts, RecordEvaluation,
             AllowRead, BeginExecution, HandlerCommits, FinishExecution, Finish, CompleteRequest,
             FinishFailed, FailRequest, StepFails, Crash, approvalRows
    <2>7. ASSUME NEW t \in Requests,
                 \/ \E a \in Actions : StartExecute(t, a)
                 \/ \E a \in Mutations, k \in ResumeKeys : StartResume(t, a, k)
          PROVE  UNCHANGED <<approval, expiring, overdue>>
      BY <2>7 DEF StartExecute, StartResume, approvalRows
    <2>8. CASE \/ \E p \in ApprovalIds : ExpiryFails(p) \/ ApprovalLapses(p)
               \/ \E c \in Calls : ClaimGoesStale(c)
               \/ ChangeMasterData \/ ChangePolicy \/ ChangeGrant
      <3>1. UNCHANGED approval /\ expiring' \subseteq expiring /\ overdue \subseteq overdue'
        BY <2>8 DEF ExpiryFails, ApprovalLapses, ClaimGoesStale, ChangeMasterData, ChangePolicy,
               ChangeGrant, approvalRows
      <3> QED
        BY <2>5, <3>1 DEF Kept
    <2>9. CASE Environment
      BY <2>2, <2>3, <2>4, <2>8, <2>9 DEF Environment, Kept
    <2>10. CASE UNCHANGED vars
      BY <2>5, <2>10 DEF vars, Kept
    <2>11. \/ \E t \in Requests : EvaluateAction(t)
           \/ UNCHANGED <<approval, expiring, overdue>>
           \/ Environment \/ UNCHANGED vars
      BY <2>6, <2>7 DEF Next
    <2> QED
      BY <2>1, <2>5, <2>9, <2>10, <2>11 DEF Kept
  <1>2. ASSUME NEW a \in overwritten' PROVE status'[a] = "EXPIRED"
    <2>1. ASSUME NEW p \in ApprovalIds, CommitExpiry(p) PROVE status'[a] = "EXPIRED"
      <3>1. approval[p].action \in Actions
        BY <2>1 DEF CommitExpiry, ApprovalsAreSound
      <3>2. a \in overwritten \/ a = approval[p].action
        BY <2>1 DEF CommitExpiry
      <3> QED
        BY <1>0, <2>1, <3>1, <3>2 DEF CommitExpiry, ApprovalsAreSound
    <2>2. CASE UNCHANGED overwritten
      <3>1. status[a] = "EXPIRED" /\ a \in Actions
        BY <1>0, <2>2 DEF ApprovalsAreSound
      <3> QED
        BY <3>1, StatusesMoveForward
    <2>3. (\E p \in ApprovalIds : CommitExpiry(p)) \/ UNCHANGED overwritten
      BY DEF Next, Step, Environment, StartExecute, StartResume, Propose, CreateExecution,
             BeginRevalidation, BuildFacts, EvaluateAction, RecordEvaluation, AllowRead,
             BeginExecution, HandlerCommits, FinishExecution, Finish, CompleteRequest,
             FinishFailed, FailRequest, StepFails, Crash, ResolveApproval, ResolveTooLate,
             ExpiryFails, ApprovalLapses, ClaimGoesStale, ChangeMasterData, ChangePolicy,
             ChangeGrant, approvalRows, vars
    <2> QED
      BY <2>1, <2>2, <2>3
  <1> QED
    BY <1>1, <1>2 DEF ApprovalsAreSound

(* The only steps that bring a request before begin_execution or past the    *)
(* handler; they are its own.                                                *)
LEMMA WaysToProceed ==
  ASSUME TypeOK, ApprovalsAreSound, RequestsAreSound, [Next]_vars, NEW u \in Requests,
         req'[u] # req[u], req'[u].pc \in {"begin", "done", "finish", "complete"}
  PROVE  /\ req'[u].action = req[u].action
         /\ \/ req'[u].pc = "begin" /\ AllowRead(u)
            \/ req'[u].pc = "begin" /\ RecordEvaluation(u) /\ MayRecord(u) /\ Target(u) = "ALLOWED"
            \/ req'[u].pc = "done" /\ HandlerCommits(u)
            \/ req'[u].pc = "finish" /\ FinishExecution(u) /\ req[u].pc = "done"
            \/ /\ req'[u].pc = "complete" /\ FinishExecution(u)
               /\ req[u].pc = "decline" /\ req'[u].result = req[u].result
            \/ req'[u].pc = "complete" /\ Finish(u) /\ MayBecome(status[req[u].action], "SUCCEEDED")
  <1>0. req \in [Requests -> RequestType]
    BY DEF TypeOK
  <1> USE DEF Points, TryPoints
  <1>1. ASSUME NEW t \in Requests, AllowRead(t)
        PROVE  t = u /\ req'[u].action = req[u].action /\ req'[u].pc = "begin"
    BY <1>0, <1>1, GotoMoves DEF AllowRead
  <1>2. ASSUME NEW t \in Requests, RecordEvaluation(t)
        PROVE  /\ t = u /\ req'[u].action = req[u].action
               /\ req'[u].pc = "begin" /\ MayRecord(u) /\ Target(u) = "ALLOWED"
    <2>1. CASE MayRecord(t)
      BY <1>0, <1>2, <2>1, RecordingMoves
    <2>2. CASE ~MayRecord(t)
      BY <1>0, <1>2, <2>2, RaiseForgets DEF RecordEvaluation
    <2> QED
      BY <2>1, <2>2
  <1>3. ASSUME NEW t \in Requests, HandlerCommits(t)
        PROVE  t = u /\ req'[u].action = req[u].action /\ req'[u].pc = "done"
    BY <1>0, <1>3, GotoMoves DEF HandlerCommits
  <1>4. ASSUME NEW t \in Requests, FinishExecution(t)
        PROVE  /\ t = u /\ req'[u].action = req[u].action
               /\ \/ req[u].pc = "done" /\ req'[u].pc = "finish"
                  \/ /\ req[u].pc = "decline" /\ req'[u].pc = "complete"
                     /\ req'[u].result = req[u].result
    BY <1>0, <1>4, GotoMoves DEF FinishExecution
  <1>5. ASSUME NEW t \in Requests, Finish(t)
        PROVE  /\ t = u /\ req'[u].action = req[u].action
               /\ req'[u].pc = "complete" /\ MayBecome(status[req[u].action], "SUCCEEDED")
    BY <1>0, <1>5, GotoMoves, RaiseForgets DEF Finish
  <1>6. ASSUME NEW t \in Requests, EvaluateAction(t) PROVE FALSE
    <2>1. req[t].facts \in DataValues
      BY <1>6 DEF EvaluateAction, RequestsAreSound, SoundRequest
    <2> QED
      BY <1>6, <2>1, EvaluationJudges
  <1>7. ASSUME NEW t \in Requests,
               \/ Propose(t) \/ CreateExecution(t) \/ BeginRevalidation(t) \/ BeginExecution(t)
               \/ CompleteRequest(t) \/ FinishFailed(t) \/ FailRequest(t) \/ StepFails(t) \/ Crash(t)
        PROVE  FALSE
    <2>1. \/ \E point \in Points \ {"begin", "done", "finish", "complete"} : Goto(t, point)
          \/ Raise(t) \/ Return(t)
      BY <1>7 DEF Propose, CreateExecution, BeginRevalidation, BeginExecution, CompleteRequest,
           FinishFailed, FailRequest, StepFails, Crash
    <2> QED
      BY <1>0, <2>1, GotoMoves, RaiseForgets, ReturnEnds
  <1>8. ASSUME NEW t \in Requests, BuildFacts(t) PROVE FALSE
    BY <1>0, <1>8 DEF BuildFacts, RequestType
  <1>9. ASSUME NEW t \in Requests, NEW a \in Actions, StartExecute(t, a) PROVE FALSE
    BY <1>0, <1>9 DEF StartExecute, Idle
  <1>10. ASSUME NEW t \in Requests, NEW a \in Mutations, NEW k \in ResumeKeys, StartResume(t, a, k)
         PROVE  FALSE
    BY <1>0, <1>10 DEF StartResume, Idle
  <1>11. ~Environment /\ ~UNCHANGED vars
    BY DEF Environment, ResolveApproval, ResolveTooLate, CommitExpiry, ExpiryFails, ApprovalLapses, ClaimGoesStale,
         ChangeMasterData, ChangePolicy, ChangeGrant, vars
  <1> QED
    BY <1>1, <1>2, <1>3, <1>4, <1>5, <1>6, <1>7, <1>8, <1>9, <1>10, <1>11 DEF Next, Step

(* What runs or has run still rests on the decision its row records. *)
LEMMA BasisPreserved ==
  TypeOK /\ ApprovalsAreSound /\ RequestsAreSound /\ ExecutionIsExclusive /\ BasisIsAuthority /\ [Next]_vars
    => BasisIsAuthority'
  <1> SUFFICES ASSUME TypeOK, ApprovalsAreSound, RequestsAreSound, ExecutionIsExclusive, BasisIsAuthority, [Next]_vars
               PROVE  BasisIsAuthority'
    OBVIOUS
  <1>0. /\ status \in [Actions -> Statuses] /\ attempts \in [Actions -> Nat]
        /\ basis \in [Actions -> ResultType]
        /\ \A t \in Requests : req[t].pc # "idle" => req[t].action \in Actions
    BY DEF TypeOK, RequestsAreSound, SoundRequest
  <1>1. ASSUME NEW a \in Mutations, attempts'[a] > 0 \/ status'[a] = "ALLOWED"
        PROVE  basis'[a].decision = "ALLOW" /\ Authorised(a, basis[a])'
    <2> DEFINE Covered == basis'[a].decision = "ALLOW" /\ Authorised(a, basis[a])'
    <2>0. a \in Actions /\ a \notin Reads
      BY ConstantsAssumption DEF Actions
    <2>1. CASE basis'[a] = basis[a] /\ (attempts[a] > 0 \/ status[a] = "ALLOWED")
      <3>1. basis[a].decision = "ALLOW" /\ Authorised(a, basis[a])
        BY <2>1 DEF BasisIsAuthority
      <3> QED
        BY <2>1, <3>1, AuthorityStands DEF Authorised
    <2>2. ASSUME NEW t \in Requests, RecordEvaluation(t), MayRecord(t), req[t].action = a PROVE Covered
      <3>1. attempts[a] = 0
        BY <1>0, <2>0, <2>2, Recorded DEF ExecutionIsExclusive, ApprovalsAreSound
      <3>2. Target(t) \in {"EXECUTING", "ALLOWED"} /\ basis'[a] = req[t].result
        BY <1>0, <1>1, <2>0, <2>2, <3>1 DEF RecordEvaluation
      <3>3. req[t].result.decision = "ALLOW" /\ Authorised(a, req[t].result)
        BY <1>0, <2>0, <2>2, <3>2, Recorded DEF RecordEvaluation, RequestsAreSound, SoundRequest
      <3> QED
        BY <3>2, <3>3, AuthorityStands DEF Authorised
    <2>3. ASSUME NEW t \in Requests, RecordEvaluation(t), ~MayRecord(t) \/ req[t].action # a PROVE Covered
      <3>1. status'[a] = status[a] /\ attempts'[a] = attempts[a] /\ basis'[a] = basis[a]
        BY <1>0, <2>0, <2>3 DEF RecordEvaluation, actionRows
      <3> QED
        BY <1>1, <2>1, <3>1
    <2>4. ASSUME NEW t \in Requests, BeginExecution(t) PROVE Covered
      <3>1. CASE MayBegin(a) /\ req[t].action = a
        BY <2>1, <2>4, <3>1, <1>0, <2>0, Transitions DEF BeginExecution, MayBegin, BasisIsAuthority
      <3>2. CASE ~(MayBegin(a) /\ req[t].action = a)
        BY <1>0, <1>1, <2>0, <2>1, <2>4, <3>2 DEF BeginExecution
      <3> QED
        BY <3>1, <3>2
    <2>5. ASSUME NEW t \in Requests, AllowRead(t) PROVE Covered
      BY <1>1, <2>0, <2>1, <2>5 DEF AllowRead, RequestsAreSound, SoundRequest
    <2>6. CASE UNCHANGED <<basis, attempts>> /\ (status'[a] = "ALLOWED" => status[a] = "ALLOWED")
      BY <1>1, <2>1, <2>6
    <2>7. ASSUME NEW t \in Requests,
                 Propose(t) \/ BeginRevalidation(t) \/ Finish(t) \/ FinishFailed(t)
          PROVE  UNCHANGED <<basis, attempts>> /\ (status'[a] = "ALLOWED" => status[a] = "ALLOWED")
      BY <1>0, <2>0, <2>7 DEF Propose, BeginRevalidation, Finish, FinishFailed
    <2>8. ASSUME NEW p \in ApprovalIds, NEW answer \in {"APPROVED", "REJECTED"},
                 ResolveApproval(p, answer) \/ CommitExpiry(p)
          PROVE  UNCHANGED <<basis, attempts>> /\ (status'[a] = "ALLOWED" => status[a] = "ALLOWED")
      BY <1>0, <2>0, <2>8 DEF ResolveApproval, CommitExpiry
    <2>9. CASE UNCHANGED actionRows
      BY <2>6, <2>9 DEF actionRows
    <2> QED
      BY <2>2, <2>3, <2>4, <2>5, <2>6, <2>7, <2>8, <2>9, WaysToWriteLedger
  <1>2. ASSUME NEW u \in Requests, req'[u].pc = "begin"
        PROVE  status'[req'[u].action] \in {"ALLOWED", "EXECUTING", "SUCCEEDED", "FAILED", "EXPIRED"}
    <2>1. CASE req'[u] = req[u]
      BY <1>0, <1>2, <2>1, StatusesMoveForward DEF BasisIsAuthority
    <2>2. CASE AllowRead(u) /\ req'[u].action = req[u].action
      BY <1>0, <2>2 DEF AllowRead
    <2>3. CASE RecordEvaluation(u) /\ MayRecord(u) /\ Target(u) = "ALLOWED" /\ req'[u].action = req[u].action
      BY <1>0, <2>3 DEF RecordEvaluation
    <2> QED
      BY <1>2, <2>1, <2>2, <2>3, WaysToProceed
  <1> QED
    BY <1>1, <1>2 DEF BasisIsAuthority

(* An effect, once committed, is never committed again nor taken back. *)
LEMMA EffectsStand ==
  ASSUME TypeOK, ApprovalsAreSound, RequestsAreSound, ExecutionIsExclusive, [Next]_vars, NEW a \in Actions
  PROVE  effects[a] = 1 => effects'[a] = 1
  <1>1. ASSUME NEW t \in Requests, HandlerCommits(t) PROVE effects[a] = 1 => effects'[a] = 1
    BY <1>1 DEF HandlerCommits, ExecutionIsExclusive, effectRows, TypeOK
  <1>2. CASE Environment
    BY <1>2 DEF Environment, ResolveApproval, ResolveTooLate, CommitExpiry, ExpiryFails,
         ApprovalLapses, ClaimGoesStale, ChangeMasterData, ChangePolicy, ChangeGrant, effectRows
  <1>3. (\E t \in Requests : HandlerCommits(t)) \/ UNCHANGED effectRows \/ Environment
    BY DEF Next, Step, StartExecute, StartResume, Propose, CreateExecution,
         BeginRevalidation, BuildFacts, EvaluateAction, RecordEvaluation, AllowRead, BeginExecution,
         FinishExecution, Finish, CompleteRequest, FinishFailed, FailRequest, StepFails, Crash,
         effectRows, vars
  <1> QED
    BY <1>1, <1>2, <1>3 DEF effectRows

(* A request past the handler has seen the effect; one that answers "executed" *)
(* has seen the ledger say so.                                                 *)
LEMMA ReportsPreserved ==
  TypeOK /\ ApprovalsAreSound /\ RequestsAreSound /\ ExecutionIsExclusive /\ ReportsAreTrue /\ [Next]_vars
    => ReportsAreTrue'
  <1> SUFFICES ASSUME TypeOK, ApprovalsAreSound, RequestsAreSound, ExecutionIsExclusive, ReportsAreTrue, [Next]_vars,
                      NEW u \in Requests, req'[u].action \in Mutations
               PROVE  /\ req'[u].pc \in {"done", "finish"} => effects'[req'[u].action] = 1
                      /\ req'[u].pc = "complete" /\ req'[u].result.decision = "ALLOW" =>
                           effects'[req'[u].action] = 1 /\ ReportedSuccess(req[u].action)'
    BY DEF ReportsAreTrue
  <1>0. req'[u].action \in Actions
    BY DEF Actions
  <1>1. CASE req'[u] = req[u]
    BY <1>0, <1>1, EffectsStand, StatusesMoveForward DEF ReportsAreTrue, ReportedSuccess
  <1>2. CASE HandlerCommits(u) /\ req'[u].pc = "done" /\ req'[u].action = req[u].action
    BY <1>0, <1>2 DEF HandlerCommits, Mutating, ExecutionIsExclusive, TypeOK
  <1>3. CASE FinishExecution(u) /\ req[u].pc = "done" /\ req'[u].pc = "finish" /\ req'[u].action = req[u].action
    BY <1>0, <1>3, EffectsStand DEF ReportsAreTrue
  <1>4. CASE FinishExecution(u) /\ req[u].pc = "decline" /\ req'[u].pc = "complete" /\ req'[u].result = req[u].result
    BY <1>4 DEF RequestsAreSound, SoundRequest
  <1>5. CASE Finish(u) /\ MayBecome(status[req[u].action], "SUCCEEDED") /\ req'[u].action = req[u].action
    <2>1. effects[req[u].action] = 1 /\ status'[req[u].action] = "SUCCEEDED"
      BY <1>0, <1>5 DEF Finish, ReportsAreTrue, TypeOK
    <2> QED
      BY <1>0, <1>5, <2>1, EffectsStand DEF ReportedSuccess
  <1> QED
    BY <1>1, <1>2, <1>3, <1>4, <1>5, WaysToProceed

(* A stored "executed" was stored by a request whose report was true. *)
LEMMA CachedResponsePreserved ==
  TypeOK /\ ApprovalsAreSound /\ RequestsAreSound /\ ExecutionIsExclusive /\ ReportsAreTrue /\ CachedResponseIsTrue
    /\ [Next]_vars => CachedResponseIsTrue'
  <1> SUFFICES ASSUME TypeOK, ApprovalsAreSound, RequestsAreSound, ExecutionIsExclusive, ReportsAreTrue,
                      CachedResponseIsTrue, [Next]_vars, NEW c \in Calls, claim'[c] = "executed"
               PROVE  effects'[c[1]] = 1 /\ ReportedSuccess(c[1])'
    BY DEF CachedResponseIsTrue
  <1>0. c[1] \in Actions
    BY DEF Calls
  <1>1. CASE claim[c] = "executed"
    BY <1>0, <1>1, EffectsStand, StatusesMoveForward DEF CachedResponseIsTrue, ReportedSuccess
  <1>2. ASSUME NEW t \in Requests, CompleteRequest(t), claim[c] # "executed"
        PROVE  effects'[c[1]] = 1 /\ ReportedSuccess(c[1])'
    <2>1. c = Call(t) /\ Mutating(t) /\ req[t].result.decision = "ALLOW" /\ req[t].pc = "complete"
      BY <1>2 DEF CompleteRequest, Response, TypeOK
    <2>2. req[t].action \in Mutations /\ c[1] = req[t].action
      BY <2>1 DEF Call, Mutating
    <2> QED
      BY <1>0, <2>1, <2>2, EffectsStand, StatusesMoveForward DEF ReportsAreTrue, ReportedSuccess
  <1>3. (\E t \in Requests : CompleteRequest(t)) \/ claim[c] = "executed"
    BY DEF Next, Step, Environment, StartExecute, StartResume, Propose, CreateExecution,
         BeginRevalidation, BuildFacts, EvaluateAction, RecordEvaluation, AllowRead, BeginExecution,
         HandlerCommits, FinishExecution, Finish, FinishFailed, FailRequest, StepFails, Crash,
         ResolveApproval, ResolveTooLate, CommitExpiry, ExpiryFails, ApprovalLapses,
         ClaimGoesStale, ChangeMasterData, ChangePolicy, ChangeGrant, TypeOK, vars
  <1> QED
    BY <1>1, <1>2, <1>3

(* The inductive invariant holds initially: nothing has been proposed. *)
LEMMA LedgerInvInit ==
  Init => LedgerInv
  <1> SUFFICES ASSUME Init PROVE LedgerInv
    OBVIOUS
  <1>1. NoResult \in ResultType /\ 1 \in Versions
    BY ConstantsAssumption DEF NoResult, ResultType, NoApproval, Versions
  <1>2. Idle \in RequestType /\ Idle.pc = "idle" /\ Idle.action = None
    BY <1>1 DEF Idle, RequestType, Points
  <1>3. TypeOK
    BY <1>1, <1>2 DEF Init, TypeOK, Statuses, ApprovalType, ClaimStatuses, ExecutionStatuses
  <1>4. RequestsAreSound /\ ApprovalsAreSound
    BY <1>2 DEF Init, RequestsAreSound, SoundRequest, ApprovalsAreSound
  <1>5. ExecutionIsExclusive /\ BasisIsAuthority
    BY <1>2 DEF Init, ExecutionIsExclusive, BasisIsAuthority, Actions
  <1>6. ReportsAreTrue /\ CachedResponseIsTrue
    BY <1>2, ConstantsAssumption DEF Init, ReportsAreTrue, CachedResponseIsTrue, Actions
  <1> QED
    BY <1>3, <1>4, <1>5, <1>6 DEF LedgerInv

(* Every step, of any request, human or clock, preserves it. *)
LEMMA LedgerInvNext ==
  LedgerInv /\ [Next]_vars => LedgerInv'
  BY TypePreserved, ApprovalsPreserved, SoundnessPreserved, ExclusionPreserved, BasisPreserved, ReportsPreserved,
     CachedResponsePreserved DEF LedgerInv

(* The inductive invariant holds throughout every behaviour of the ledger. *)
THEOREM LedgerInvariant == Spec => []LedgerInv
  <1>1. Init => LedgerInv
    BY LedgerInvInit
  <1>2. LedgerInv /\ [Next]_vars => LedgerInv'
    BY LedgerInvNext
  <1> QED
    BY <1>1, <1>2, PTL DEF Spec

(* Type correctness of every row and request. *)
THEOREM TypeCorrect == Spec => []TypeOK
  <1>1. LedgerInv => TypeOK
    BY DEF LedgerInv
  <1> QED
    BY <1>1, LedgerInvariant, PTL

(* However many requests retry, resume, take over or crash, the handler of an *)
(* action commits at most once.                                               *)
THEOREM EffectHappensOnce == Spec => []AtMostOneEffect
  <1>1. LedgerInv => AtMostOneEffect
    BY DEF LedgerInv, TypeOK, ExecutionIsExclusive, AtMostOneEffect
  <1> QED
    BY <1>1, LedgerInvariant, PTL

(* No mutation commits without a policy's ALLOW or a human approval, consumed *)
(* for it, of exactly the facts and versions on its ledger row.               *)
THEOREM EffectHasAuthority == Spec => []EffectIsAuthorised
  <1>1. LedgerInv => EffectIsAuthorised
    <2> SUFFICES ASSUME LedgerInv, NEW a \in Mutations, effects[a] > 0
                 PROVE  basis[a].decision = "ALLOW" /\ Authorised(a, basis[a])
      BY DEF EffectIsAuthorised
    <2>1. attempts[a] > 0
      BY DEF LedgerInv, TypeOK, ExecutionIsExclusive, Actions
    <2> QED
      BY <2>1 DEF LedgerInv, BasisIsAuthority
  <1> QED
    BY <1>1, LedgerInvariant, PTL

(* What was denied, blocked, rejected or left to expire is never carried out, *)
(* but for an EXPIRED that a late answer wrote over what had been approved.   *)
THEOREM RefusalHolds == Spec => []RefusedHasNoEffect
  <1>1. LedgerInv => RefusedHasNoEffect
    <2> SUFFICES ASSUME LedgerInv, NEW a \in Actions,
                        Refused(a)
                 PROVE  /\ effects[a] = 0
                        /\ \A t \in Requests : req[t].action = a => req[t].pc # "handler"
      BY DEF RefusedHasNoEffect
    <2>1. attempts[a] = 0
      BY DEF LedgerInv, TypeOK, ApprovalsAreSound, ExecutionIsExclusive, Refused
    <2> QED
      BY <2>1 DEF LedgerInv, TypeOK, ExecutionIsExclusive
  <1> QED
    BY <1>1, LedgerInvariant, PTL

(* A response replayed for an Idempotency-Key never claims an effect that is  *)
(* not there or that the ledger has not confirmed.                            *)
THEOREM CachedResponseTruth == Spec => []CachedResponseIsTrue
  <1>1. LedgerInv => CachedResponseIsTrue
    BY DEF LedgerInv
  <1> QED
    BY <1>1, LedgerInvariant, PTL

(* Human answers are never rewritten, and a final status only by the commit   *)
(* of a late answer that holds an overdue approval of the same action.        *)
THEOREM OutcomesAreFinal == Spec => OutcomesStand
  <1>1. LedgerInv /\ [Next]_vars => [StatusesStand /\ AnswersStand]_vars
    BY AnswersPreserved, StatusesMoveForward DEF LedgerInv, StatusesStand
  <1> QED
    BY <1>1, LedgerInvariant, PTL DEF Spec, OutcomesStand

-----------------------------------------------------------------------------
(* Refinement *)

(* A transaction writes the row of one action, and then no effect; what it   *)
(* finds authorised or closed it leaves so.                                  *)
LEMMA OneRowAtATime ==
  ASSUME TypeOK, ApprovalsAreSound, RequestsAreSound, ExecutionIsExclusive, [Next]_vars
  PROVE  \/ UNCHANGED actionRows
         \/ /\ UNCHANGED effects
            /\ \E a \in Actions :
                 /\ \A b \in Actions \ {a} : status'[b] = status[b] /\ attempts'[b] = attempts[b]
                 /\ attempts[a] > 0 => attempts'[a] > 0
                 /\ status[a] \in FinalStatuses => attempts'[a] = attempts[a]
  <1> DEFINE Writes(a) ==
        /\ \A b \in Actions \ {a} : status'[b] = status[b] /\ attempts'[b] = attempts[b]
        /\ attempts[a] > 0 => attempts'[a] > 0
        /\ status[a] \in FinalStatuses => attempts'[a] = attempts[a]
  <1>0. /\ status \in [Actions -> Statuses] /\ attempts \in [Actions -> Nat]
        /\ \A t \in Requests : req[t].pc # "idle" => req[t].action \in Actions
    BY DEF TypeOK, RequestsAreSound, SoundRequest
  <1> USE DEF effectRows
  <1>1. ASSUME NEW t \in Requests,
               Propose(t) \/ BeginRevalidation(t) \/ AllowRead(t) \/ Finish(t) \/ FinishFailed(t)
        PROVE  UNCHANGED effects /\ \E a \in Actions : Writes(a)
    <2>1. req[t].action \in Actions
      BY <1>0, <1>1 DEF Propose, BeginRevalidation, AllowRead, Finish, FinishFailed
    <2>2. UNCHANGED effects /\ Writes(req[t].action)
      BY <1>0, <1>1, <2>1 DEF Propose, BeginRevalidation, AllowRead, Finish, FinishFailed
    <2> QED
      BY <2>1, <2>2
  <1>2. ASSUME NEW t \in Requests, RecordEvaluation(t)
        PROVE  UNCHANGED actionRows \/ (UNCHANGED effects /\ \E a \in Actions : Writes(a))
    <2>1. req[t].action \in Actions
      BY <1>0, <1>2 DEF RecordEvaluation
    <2>2. CASE MayRecord(t)
      <3>1. status[req[t].action] \notin FinalStatuses
        BY <1>0, <2>1, <2>2, Recorded DEF FinalStatuses
      <3>2. UNCHANGED effects /\ Writes(req[t].action)
        BY <1>0, <1>2, <2>1, <2>2, <3>1 DEF RecordEvaluation
      <3> QED
        BY <2>1, <3>2
    <2>3. CASE ~MayRecord(t)
      BY <1>2, <2>3 DEF RecordEvaluation
    <2> QED
      BY <2>2, <2>3
  <1>3. ASSUME NEW t \in Requests, BeginExecution(t)
        PROVE  UNCHANGED effects /\ \E a \in Actions : Writes(a)
    <2>1. req[t].action \in Actions
      BY <1>0, <1>3 DEF BeginExecution
    <2>2. MayBegin(req[t].action) => status[req[t].action] \notin FinalStatuses
      BY <1>0, <2>1, Transitions DEF MayBegin
    <2>3. UNCHANGED effects /\ Writes(req[t].action)
      BY <1>0, <1>3, <2>1, <2>2 DEF BeginExecution
    <2> QED
      BY <2>1, <2>3
  <1>4. ASSUME NEW p \in ApprovalIds, NEW answer \in {"APPROVED", "REJECTED"},
               ResolveApproval(p, answer) \/ CommitExpiry(p)
        PROVE  UNCHANGED actionRows \/ (UNCHANGED effects /\ \E a \in Actions : Writes(a))
    <2>1. UNCHANGED <<effects, attempts>>
      BY <1>4 DEF ResolveApproval, CommitExpiry
    <2>2. \A b \in Actions \ {approval[p].action} : status'[b] = status[b]
      BY <1>0, <1>4 DEF ResolveApproval, CommitExpiry
    <2>3. CASE approval[p].action \in Actions
      BY <2>1, <2>2, <2>3
    <2>4. CASE approval[p].action \notin Actions
      BY <1>0, <1>4, <2>4 DEF ResolveApproval, CommitExpiry, actionRows
    <2> QED
      BY <2>3, <2>4
  <1> QED
    BY <1>1, <1>2, <1>3, <1>4, WaysToWriteLedger

(* An action moves from open to authorised or closed, and no further. *)
LEMMA PhasesSettle ==
  ASSUME TypeOK, ApprovalsAreSound, RequestsAreSound, ExecutionIsExclusive, [Next]_vars, NEW a \in Actions
  PROVE  PhaseOf(a) # "open" => PhaseOf(a)' = PhaseOf(a)
  <1>1. attempts \in [Actions -> Nat]
    BY DEF TypeOK
  <1> QED
    BY <1>1, OneRowAtATime, StatusesMoveForward DEF PhaseOf, FinalStatuses, actionRows

(* The ledger implements AuthorisedEffect: each mutation is authorised or     *)
(* closed once, and carried out at most once, only when authorised.           *)
THEOREM LedgerImplementsPromise == Spec => ImplementsPromise
  <1>1. Init => Promise!Init
    BY DEF Init, Promise!Init, PhaseOf, Actions, FinalStatuses
  <1>2. LedgerInv /\ [Next]_vars => [Promise!Next]_(Promise!effectVars)
    <2> SUFFICES ASSUME LedgerInv, [Next]_vars PROVE [Promise!Next]_(Promise!effectVars)
      OBVIOUS
    <2> DEFINE phase == [a \in Mutations |-> PhaseOf(a)]
               count == [a \in Mutations |-> effects[a]]
    <2>0. /\ TypeOK /\ ApprovalsAreSound /\ RequestsAreSound /\ ExecutionIsExclusive /\ BasisIsAuthority
          /\ Mutations \subseteq Actions
      BY DEF LedgerInv, Actions
    <2>1. ASSUME NEW t \in Requests, HandlerCommits(t)
          PROVE  Promise!Next \/ UNCHANGED <<phase, count>>
      <3> DEFINE a == req[t].action
      <3>1. UNCHANGED phase
        BY <2>1 DEF HandlerCommits, actionRows, PhaseOf
      <3>2. CASE a \in Mutations
        <4>1. attempts[a] = 1 /\ effects[a] = 0
          BY <2>0, <2>1 DEF HandlerCommits, ExecutionIsExclusive
        <4>2. effects' = [effects EXCEPT ![a] = 1] /\ effects \in [Actions -> Nat]
          BY <2>0, <2>1, <3>2, <4>1 DEF HandlerCommits, Mutating, TypeOK
        <4>3. count' = [count EXCEPT ![a] = 1]
          BY <2>0, <3>2, <4>2
        <4>4. phase[a] = "authorised" /\ count[a] = 0
          BY <3>2, <4>1 DEF PhaseOf
        <4> QED
          BY <3>1, <3>2, <4>3, <4>4 DEF Promise!Next, Promise!CarryOut
      <3>3. CASE a \notin Mutations
        BY <2>1, <3>1, <3>3 DEF HandlerCommits, Mutating, effectRows
      <3> QED
        BY <3>2, <3>3
    <2>2. CASE UNCHANGED effects
      <3>1. UNCHANGED count
        BY <2>2
      <3>2. CASE UNCHANGED actionRows
        BY <3>1, <3>2 DEF actionRows, PhaseOf, Promise!effectVars
      <3>3. ASSUME NEW a \in Actions,
                   \A b \in Actions \ {a} : status'[b] = status[b] /\ attempts'[b] = attempts[b]
            PROVE  Promise!Next \/ UNCHANGED <<phase, count>>
        <4>1. \A b \in Mutations \ {a} : PhaseOf(b)' = PhaseOf(b)
          BY <2>0, <3>3 DEF PhaseOf
        <4>2. CASE a \notin Mutations \/ PhaseOf(a)' = PhaseOf(a)
          BY <3>1, <4>1, <4>2
        <4>3. CASE a \in Mutations /\ PhaseOf(a)' # PhaseOf(a)
          <5>1. PhaseOf(a) = "open" /\ PhaseOf(a)' \in {"authorised", "closed"}
            BY <2>0, <4>3, PhasesSettle DEF PhaseOf
          <5>2. phase' = [phase EXCEPT ![a] = PhaseOf(a)'] /\ phase[a] = "open"
            BY <4>1, <4>3, <5>1
          <5> QED
            BY <3>1, <4>3, <5>1, <5>2 DEF Promise!Next, Promise!Authorise, Promise!Close
        <4> QED
          BY <4>2, <4>3
      <3> QED
        BY <2>0, <3>2, <3>3, OneRowAtATime DEF Promise!effectVars
    <2>3. (\E t \in Requests : HandlerCommits(t)) \/ UNCHANGED effects
      BY DEF Next, Step, Environment, StartExecute, StartResume, Propose, CreateExecution,
         BeginRevalidation, BuildFacts, EvaluateAction, RecordEvaluation, AllowRead, BeginExecution,
         FinishExecution, Finish, CompleteRequest, FinishFailed, FailRequest, StepFails, Crash,
         ResolveApproval, ResolveTooLate, CommitExpiry, ExpiryFails, ApprovalLapses,
         ClaimGoesStale, ChangeMasterData, ChangePolicy, ChangeGrant, effectRows, vars
    <2> QED
      BY <2>1, <2>2, <2>3 DEF Promise!effectVars
  <1> QED
    BY <1>1, <1>2, LedgerInvariant, PTL DEF Spec, ImplementsPromise, Promise!Spec

=============================================================================
