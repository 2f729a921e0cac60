---------------------------- MODULE AuthorityRules ----------------------------
(***************************************************************************)
(* What the AI may do by itself: the deterministic policy engine           *)
(* (app/authority/evaluators.py) on validated facts (facts.py), and the    *)
(* older evaluation the founder's preview uses (AuthorityService.evaluate). *)
(*                                                                         *)
(* Percentages and amounts are integers; a fact that is not known is       *)
(* Unknown.  The seven revalidations of an order are one fact, and so are  *)
(* the three acceptances of a won deal.                                    *)
(***************************************************************************)
EXTENDS Integers, FiniteSets, TLC

CONSTANT Unknown
ASSUME RulesAssumption == Unknown \notin Int

Modes == {"recommend_only", "prepare_only", "execute_low_risk"}
DecisionModes == {"deny", "recommend_only", "prepare_only", "approval_required",
                  "auto_execute", "threshold_auto"}
Outcomes == {"ALLOW", "REQUIRE_APPROVAL", "REQUIRE_MORE_INFORMATION",
             "BLOCKED_MASTER_DATA", "DENY"}

\* The facts an action is judged by.
Commercial == {"quotation_create", "quotation_prepare", "prepare_quotation", "quotation_send",
               "discount_apply", "negotiation_response", "negotiation_send"}
Messages == {"message_send", "routine_reminder"}
Orders == {"po_validate", "po_accept", "order_accept"}
Credits == {"credit_change", "credit_terms_change"}
Deals == {"deal_close_won", "deal_close_lost"}
Plain == {"add_customer_note", "create_task", "record_activity", "schedule_followup"}
Actions == Commercial \cup Messages \cup Orders \cup Credits \cup Deals \cup Plain
               \cup {"sales_order_create", "customer_merge"}

Preparations == {"prepare_quotation", "quotation_prepare", "negotiation_response"}

-----------------------------------------------------------------------------
(* The policies a business begins with *)

Rule(mode, scope, role) == [mode |-> mode, scope |-> scope, role |-> role]

DefaultPolicies ==
    [a \in {"add_customer_note", "create_task", "record_activity"} |->
        Rule("auto_execute", CASE a = "add_customer_note" -> "customer_note:create"
                               [] a = "create_task" -> "task:create"
                               [] OTHER -> "activity:create", Unknown)]
    @@ [a \in {"quotation_create", "prepare_quotation"} |->
        Rule(IF a = "quotation_create" THEN "threshold_auto" ELSE "prepare_only",
             "quotation:prepare", "finance_manager")]
    @@ [a \in {"po_accept", "sales_order_create"} |->
        Rule("threshold_auto", "order:accept", "production_manager")]
    @@ [a \in Deals |->
        Rule(IF a = "deal_close_won" THEN "threshold_auto" ELSE "approval_required",
             "deal:close", "sales_manager")]
    @@ [discount_apply |-> Rule("threshold_auto", "discount:apply", "finance_manager"),
        quotation_send |-> Rule("threshold_auto", "quotation:send", "finance_manager"),
        message_send |-> Rule("threshold_auto", "message:send", "sales_manager"),
        routine_reminder |-> Rule("auto_execute", "reminder:send", Unknown),
        schedule_followup |-> Rule("auto_execute", "followup:schedule", Unknown),
        po_validate |-> Rule("auto_execute", "order:prepare", "production_manager"),
        negotiation_response |-> Rule("prepare_only", "negotiation:prepare", "sales_manager"),
        order_accept |-> Rule("approval_required", "order:accept", "sales_manager"),
        credit_change |-> Rule("approval_required", "customer:read", "finance_manager"),
        customer_merge |-> Rule("approval_required", "customer:read", "admin")]

-----------------------------------------------------------------------------
(* One verdict per kind of facts, "pass" when none of its rules applies *)

MessageVerdict(s, f) ==
    IF f.opted_out THEN "DENY"
    ELSE IF ~f.recipient THEN "REQUIRE_MORE_INFORMATION"
    ELSE IF ~f.provider THEN "BLOCKED_MASTER_DATA"
    ELSE IF f.sent_today >= s.message_limit THEN "DENY"
    ELSE IF f.commitment THEN "REQUIRE_APPROVAL"
    ELSE "pass"

BelowFloor(f) == f.price # Unknown /\ f.floor # Unknown /\ f.price < f.floor

MutantOverLimit(a, s, f) ==
    \/ f.margin # Unknown /\ f.margin < s.minimum_margin
    \/ a = "discount_apply" /\ f.discount >= s.maximum_discount
    \/ a \in {"quotation_create", "quotation_send"} /\ f.value >= s.maximum_value
OverLimit(a, s, f) ==
    \/ f.margin # Unknown /\ f.margin < s.minimum_margin
    \/ a = "discount_apply" /\ f.discount > s.maximum_discount
    \/ a \in {"quotation_create", "quotation_send"} /\ f.value > s.maximum_value

CommercialVerdict(a, s, f) ==
    IF BelowFloor(f) THEN "DENY"
    ELSE IF OverLimit(a, s, f) THEN "REQUIRE_APPROVAL"
    ELSE "pass"

OrderVerdict(f) ==
    IF ~f.complete THEN "REQUIRE_MORE_INFORMATION"
    ELSE IF f.critical THEN "DENY"
    ELSE IF ~f.revalidated \/ f.minor THEN "REQUIRE_APPROVAL"
    ELSE "pass"

\* A sales order is judged as a purchase order first.
SalesOrderVerdict(f) ==
    IF OrderVerdict(f) # "pass" THEN OrderVerdict(f)
    ELSE IF ~f.validated THEN "DENY"
    ELSE IF ~f.allocated THEN "BLOCKED_MASTER_DATA"
    ELSE "pass"

MergeVerdict(f) ==
    IF ~f.both_named THEN "REQUIRE_MORE_INFORMATION"
    ELSE IF f.conflict THEN "DENY"
    ELSE "REQUIRE_APPROVAL"

CreditVerdict(f) == IF f.exposure_known THEN "REQUIRE_APPROVAL" ELSE "BLOCKED_MASTER_DATA"

DealVerdict(a, f) ==
    IF a = "deal_close_won" /\ ~f.accepted THEN "DENY"
    ELSE IF a = "deal_close_lost" /\ ~f.reason THEN "REQUIRE_MORE_INFORMATION"
    ELSE "pass"

Verdict(a, s, f) ==
    CASE a \in Messages -> MessageVerdict(s, f)
      [] a \in Commercial -> CommercialVerdict(a, s, f)
      [] a \in Orders -> OrderVerdict(f)
      [] a = "sales_order_create" -> SalesOrderVerdict(f)
      [] a = "customer_merge" -> MergeVerdict(f)
      [] a \in Credits -> CreditVerdict(f)
      [] a \in Deals -> DealVerdict(a, f)
      [] OTHER -> "pass"

\* The mode of the business or of the policy forbids execution altogether.
MutantForbidden(a, s, v) ==
    v.mode \in {"deny", "recommend_only"} \/ (s.mode = "prepare_only" /\ a \notin Preparations)
Forbidden(a, s, v) ==
    \/ s.mode = "recommend_only"
    \/ v.mode \in {"deny", "recommend_only"}
    \/ s.mode = "prepare_only" /\ a \notin Preparations

EvaluatePolicy(a, s, v, f) ==
    IF f.missing = "master_data" THEN "BLOCKED_MASTER_DATA"
    ELSE IF f.missing = "information" THEN "REQUIRE_MORE_INFORMATION"
    ELSE IF Forbidden(a, s, v) THEN "DENY"
    ELSE IF Verdict(a, s, f) # "pass" THEN Verdict(a, s, f)
    ELSE IF v.mode = "approval_required" THEN "REQUIRE_APPROVAL"
    ELSE "ALLOW"

-----------------------------------------------------------------------------
(* AuthorityService.evaluate, for a principal that has the scope *)

Number(x) == IF x = Unknown THEN 0 ELSE x
WithinThreshold(a, s, f) ==
    /\ Number(f.margin) >= s.minimum_margin
    /\ \/ a = "discount_apply" /\ f.discount <= s.maximum_discount
       \/ a = "quotation_create" /\ f.value <= s.maximum_value

Preview(a, s, v, f) ==
    IF s.mode = "recommend_only" THEN "recommend_only"
    ELSE IF v.mode \in {"deny", "recommend_only", "prepare_only", "approval_required"} THEN v.mode
    ELSE IF s.mode = "prepare_only" THEN "prepare_only"
    ELSE IF v.mode = "auto_execute" THEN "allow"
    ELSE IF a \in Commercial /\ WithinThreshold(a, s, f) THEN "allow"
    ELSE "approval_required"

-----------------------------------------------------------------------------
(* What a business may rely on when it changes its settings *)

Freedom(mode) == CASE mode = "recommend_only" -> 0 [] mode = "prepare_only" -> 1 [] OTHER -> 2

\* Settings s allow less than settings t: a lower mode, or a narrower limit.
Tighter(s, t) ==
    /\ Freedom(s.mode) <= Freedom(t.mode)
    /\ s.minimum_margin >= t.minimum_margin
    /\ s.maximum_discount <= t.maximum_discount /\ s.maximum_value <= t.maximum_value
    /\ s.message_limit <= t.message_limit

Rank == [ALLOW |-> 3, REQUIRE_APPROVAL |-> 2, REQUIRE_MORE_INFORMATION |-> 1,
         BLOCKED_MASTER_DATA |-> 1, DENY |-> 0]

\* No order of the checks turns a lower limit into a freer answer (evaluate_policy).
NeverFreer(a, s, t, v, f) ==
    Rank[EvaluatePolicy(a, s, v, f)] <= Rank[EvaluatePolicy(a, t, v, f)]

\* What the founder's preview shows as allowed within the thresholds is allowed,
\* unless the price is below the floor, which the preview does not look at
\* (AuthorityService.evaluate, evaluate_policy).
PromiseKept(a, s, v, f) ==
    (/\ a \in Commercial /\ v.mode = "threshold_auto"
     /\ f.missing = "none" /\ ~BelowFloor(f)
     /\ Preview(a, s, v, f) = "allow")
    => EvaluatePolicy(a, s, v, f) = "ALLOW"
=============================================================================
