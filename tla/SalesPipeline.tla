--------------------------- MODULE SalesPipeline ---------------------------
(***************************************************************************)
(* One sales conversation from inquiry to handed-off order: the nodes and   *)
(* routes of the sales graph (app/graph2.py), the HTTP endpoints that start *)
(* a run of it (app/main.py), the channel continuation that does the same   *)
(* (app/channels/service.py) and the CRM operations that write its          *)
(* checkpoint (app/crm).                                                    *)
(*                                                                          *)
(* A run loads the thread's checkpoint once and then works on its own copy; *)
(* after each node the copy becomes the thread's checkpoint, so of two runs *)
(* of a thread the last to finish a node decides it.                        *)
(*                                                                          *)
(* One product, a fixed quantity per order.  Statuses no guard tells apart  *)
(* are merged: "customer" is any awaiting_customer_*, awaiting_purchase_    *)
(* order and awaiting_corrected_po; "failed" also stands for retry_scheduled *)
(* and a blocked status other than missing pricing data; "processing" also  *)
(* for quotation_dispatch_pending.                                          *)
(***************************************************************************)
EXTENDS Naturals, Sequences, FiniteSets, FiniteSetsExt

CONSTANTS
  Threads,     \* sales conversations
  Tasks,       \* requests and workers that may run the graph
  Prices,      \* unit prices the master data can lead to
  Offers,      \* unit prices a customer may ask for
  Floor,       \* pricing.floor_price_per_mt
  AutoLimit,   \* the price at approval_limit_pct discount
  Large,       \* prices whose invoice needs an approval
  Near,        \* pairs of prices that differ by half a percent at most
  Rows,        \* active inventory rows of the product
  Stock,       \* available_qty of a row
  Quantity,    \* the quantity of a purchase order
  Departments, \* departments an order is handed off to
  MaxRequests, \* bound: runs started and CRM requests
  MaxCuts,     \* bound: runs and CRM requests that are cut short
  None, Impossible

ASSUME ConstantsAssumption ==
  /\ Prices \subseteq Nat \ {0} /\ Offers \subseteq Nat \ {0} /\ Large \subseteq Prices
  /\ Floor \in Nat /\ AutoLimit \in Nat /\ \A p \in Prices : Floor <= p
  /\ IsFiniteSet(Rows) /\ Stock \in [Rows -> Nat] /\ Quantity \in Nat \ {0}
  /\ Departments \in Nat \ {0}
  /\ MaxRequests \in Nat /\ MaxCuts \in Nat

VARIABLES
  checkpoint,  \* the graph state of a thread, as the checkpointer holds it
  quotes,      \* quotations of a thread with their delivery attempt
  revised,     \* quotation_versions of a thread
  purchases,   \* purchase_orders of a thread
  orders,      \* sales_orders of a thread: their purchase orders
  reserved,    \* inventory_reservations
  handoffs,    \* handoff_records of a thread, by handoff, and how many were told
  lead,        \* leads.status
  closed,      \* leads.closed_lost_at is set
  crm,         \* a CRM request between its commit and the checkpoint update
  task,        \* runs in flight
  started,     \* runs and CRM requests so far
  cuts,        \* runs and CRM requests cut short so far
  disturbed    \* threads on which two writers have overlapped, or the CRM was cut

documents == <<quotes, revised, purchases, orders, reserved, handoffs>>
leads == <<lead, closed, crm>>
counters == <<started, cuts, disturbed>>
vars == <<checkpoint, documents, leads, task, counters>>

-----------------------------------------------------------------------------
(* Types *)

Stages == {"requirement", "qualification", "feasibility", "pricing",
           "negotiation", "po", "po_revalidation"}
Statuses == {"processing", "customer", "awaiting_approval", "blocked", "failed",
             "closed_lost", "handed_off"}
PriceOrNot == Prices \cup {None, Impossible}

(* CompletePipelineState.  "offer" is the price in final_draft_json;         *)
(* "analysis" is the last negotiation_analysis, "auto" its can_auto_approve; *)
(* "missing" says that failure.code is PRICING_DATA_MISSING.                 *)
StateType == [status : Statuses, stage : Stages \cup {None}, missing : BOOLEAN,
              error : BOOLEAN, price : PriceOrNot, quote : Nat,
              offer : PriceOrNot \cup Offers, po : Nat, handoff : Nat,
              analysis : [price : Offers \cup {None}, auto : BOOLEAN]]
NewState == [status |-> "processing", stage |-> None, missing |-> FALSE,
             error |-> FALSE, price |-> None, quote |-> 0, offer |-> None, po |-> 0,
             handoff |-> 0, analysis |-> [price |-> None, auto |-> FALSE]]

Nodes ==
  {"check_trigger", "extract_inquiry", "send_inquiry_followup",
   "normalize_requirement", "exact_product_code_lookup",
   "structured_specification_match", "match_requirement",
   "resolve_customer_identity", "load_customer_360", "qualify_customer",
   "check_feasibility", "compute_pricing", "generate_quotation",
   "dispatch_quotation", "send_quotation", "compose_reminder",
   "dispatch_followup", "analyze_reply", "record_commercial_acceptance",
   "compose_positive_response", "evaluate_counteroffer",
   "prepare_revised_quotation", "compose_rejection",
   "compose_objection_response", "dispatch_message", "extract_po_fields",
   "validate_po", "revalidate_order_state", "reserve_inventory",
   "allocate_rows", "send_po_correction", "mark_order_won",
   "create_sales_order", "build_handoff_packages", "dispatch_handoff", "notify_departments",
   "finalize_audit", "request_approval"}
Triggers == {"inquiry", "followup", "customer_reply", "po_received",
             "retry_pricing", "approved"}

(* "approved" is the stage a human approved, "seen" the item it was shown. *)
Idle == [pc |-> "idle", thread |-> None, trigger |-> None, approved |-> None,
         seen |-> None, st |-> NewState]

ASSUME NoneAssumption ==
  /\ None \notin Nat \cup Threads \cup Stages \cup StateType
  /\ Impossible \notin Nat \cup {None}

TaskType == [pc : Nodes \cup {"idle", "received"}, thread : Threads \cup {None},
             trigger : Triggers \cup {None}, approved : Stages \cup {None},
             seen : Nat \cup {None, Impossible}, st : StateType]

QuoteType == [price : PriceOrNot, approved : BOOLEAN, sends : Nat,
              delivery : {"none", "sending", "sent", "failed"}]
PurchaseType == [price : PriceOrNot \cup Offers,
                 verdict : {"new", "ok", "review", "price", "other"},
                 credit : BOOLEAN, granted : SUBSET Stages]

TypeOK ==
  /\ checkpoint \in [Threads -> StateType \cup {None}]
  /\ quotes \in [Threads -> Seq(QuoteType)]
  /\ revised \in [Threads -> SUBSET [price : Offers, auto : BOOLEAN, approved : BOOLEAN]]
  /\ purchases \in [Threads -> Seq(PurchaseType)]
  /\ orders \in [Threads -> Seq(Nat)]
  /\ reserved \subseteq [thread : Threads, po : Nat, row : Rows, quantity : Nat]
  /\ handoffs \in [Threads -> Seq([po : Nat, told : 0 .. Departments, marked : BOOLEAN])]
  /\ lead \in [Threads -> {"none", "open", "won"}]
  /\ closed \in [Threads -> BOOLEAN]
  /\ crm \in [Threads -> {"none", "closing", "reopening"}]
  /\ task \in [Tasks -> TaskType]
  /\ started \in 0 .. MaxRequests /\ cuts \in 0 .. MaxCuts
  /\ disturbed \subseteq Threads

Init ==
  /\ checkpoint = [t \in Threads |-> None]
  /\ quotes = [t \in Threads |-> << >>]
  /\ revised = [t \in Threads |-> {}]
  /\ purchases = [t \in Threads |-> << >>]
  /\ orders = [t \in Threads |-> << >>]
  /\ reserved = {}
  /\ handoffs = [t \in Threads |-> << >>]
  /\ lead = [t \in Threads |-> "none"]
  /\ closed = [t \in Threads |-> FALSE]
  /\ crm = [t \in Threads |-> "none"]
  /\ task = [k \in Tasks |-> Idle]
  /\ started = 0 /\ cuts = 0 /\ disturbed = {}

-----------------------------------------------------------------------------
(* Starting a run *)

Thread(k) == task[k].thread
S(k) == task[k].st
Busy(t) == crm[t] # "none" \/ \E k \in Tasks : Thread(k) = t
Disturb(t) == disturbed' = IF Busy(t) THEN disturbed \cup {t} ELSE disturbed

(* The endpoint has read the checkpoint, passed its guards and claimed the request. *)
Receive(k, t, trigger, stage, item) ==
  /\ task[k] = Idle
  /\ started < MaxRequests
  /\ started' = started + 1
  /\ task' = [task EXCEPT ![k] = [pc |-> "received", thread |-> t, trigger |-> trigger,
                                  approved |-> stage, seen |-> item, st |-> NewState]]
  /\ Disturb(t)
  /\ UNCHANGED <<checkpoint, quotes, revised, orders, reserved, handoffs, leads, cuts>>

(* POST /inquiries/process: a new thread. *)
ProcessInquiry(k, t) ==
  /\ checkpoint[t] = None /\ ~ Busy(t)
  /\ Receive(k, t, "inquiry", None, None)
  /\ UNCHANGED purchases

(* POST /pipeline/events *)
MutantTakesEvents(c) == c.status # "awaiting_approval"
TakesEvents(c) == c.status \notin {"closed_lost", "awaiting_approval"}
ProcessPipelineEvent(k, t) ==
  /\ checkpoint[t] # None
  /\ TakesEvents(checkpoint[t])
  /\ \E trigger \in {"followup", "customer_reply", "po_received"} :
       Receive(k, t, trigger, None, None)
  /\ UNCHANGED purchases

(* A channel message of a conversation whose quotation is out. *)
ContinueConversation(k, t) ==
  /\ checkpoint[t] # None
  /\ checkpoint[t].offer # None
  /\ checkpoint[t].status \in {"customer", "awaiting_approval"}
  /\ Receive(k, t, "customer_reply", None, None)
  /\ UNCHANGED purchases

(* The follow-up worker: a quotation that was sent and has no reply.  After it an *)
(* approval waits only when the customer replied.                               *)
ProcessOne(k, t) ==
  /\ checkpoint[t] # None
  /\ TakesEvents(checkpoint[t]) /\ checkpoint[t].status # "handed_off"
  /\ \E i \in DOMAIN quotes[t] : quotes[t][i].delivery = "sent"
  /\ Receive(k, t, "followup", None, None)
  /\ UNCHANGED purchases

(* POST /pipeline/pricing/retry *)
RetryPipelinePricing(k, t) ==
  /\ checkpoint[t] # None
  /\ checkpoint[t].status = "blocked" /\ checkpoint[t].missing
  /\ Receive(k, t, "retry_pricing", None, None)
  /\ UNCHANGED purchases

(* What a human approves: the price, the customer's price or the purchase order. *)
PendingItem(st, stage) ==
  CASE stage = "pricing" -> st.price
    [] stage = "negotiation" -> st.analysis.price
    [] stage \in {"po", "po_revalidation"} -> st.po
    [] OTHER -> None

MutantPending(c, stage) == c.status = "awaiting_approval"
Pending(c, stage) == c.status = "awaiting_approval" /\ c.stage = stage
Approve(k, t, stage) ==
  LET c == checkpoint[t]
      Granted(p) == IF p = PendingItem(c, stage) /\ stage \in {"po", "po_revalidation"}
                    THEN [purchases[t][p] EXCEPT !.granted = @ \cup {stage}]
                    ELSE purchases[t][p]
  IN /\ c # None /\ Pending(c, stage)
     /\ stage = "pricing" => c.price \in Prices
     /\ Receive(k, t, "approved", stage, PendingItem(c, stage))
     /\ purchases' = [purchases EXCEPT ![t] = [p \in DOMAIN @ |-> Granted(p)]]

(* POST /pipeline/approve *)
ApprovePipelineStage(k, t) == \E stage \in Stages : Approve(k, t, stage)

(* POST /crm/approvals/{thread_id}/approve: what the role of the user permits *)
RoleStages ==
  [admin |-> Stages,
   finance_manager |-> {"qualification", "pricing"},
   sales_manager |-> {"requirement", "negotiation"},
   production_manager |-> {"feasibility", "po", "po_revalidation"}]
ApproveInCRM(k, t) ==
  \E role \in DOMAIN RoleStages : \E stage \in RoleStages[role] : Approve(k, t, stage)

(* ainvoke: the request's fields are written over the checkpoint. *)
Invoke(k) ==
  LET t == Thread(k)
      c == IF task[k].trigger = "inquiry" THEN NewState
           ELSE [checkpoint[t] EXCEPT
                   !.error = FALSE,
                   !.stage = IF task[k].trigger \in {"approved", "retry_pricing"}
                             THEN None ELSE @]
  IN /\ task[k].pc = "received"
     /\ checkpoint' = [checkpoint EXCEPT ![t] = c]
     /\ task' = [task EXCEPT ![k].st = c, ![k].pc = "check_trigger"]
     /\ UNCHANGED <<documents, leads, counters>>

-----------------------------------------------------------------------------
(* Steps of a run *)

At(k, node) == task[k].pc = node

(* The node's result is merged into the run's state and checkpointed. *)
Goes(k, st, next) ==
  /\ checkpoint' = [checkpoint EXCEPT ![Thread(k)] = st]
  /\ task' = [task EXCEPT ![k] = IF next = "end" THEN Idle
                                 ELSE [@ EXCEPT !.st = st, !.pc = next]]
  /\ UNCHANGED <<counters, closed, crm>>

(* _contract_node: an exception, or a snapshot that cannot be stored, is a failure. *)
Fails(k, next) ==
  Goes(k, [S(k) EXCEPT !.status = "failed", !.error = TRUE, !.missing = FALSE], next)

Quiet == UNCHANGED <<documents, lead>>

(* A node that changes no document: it sets the status or leaves it, or fails. *)
Passes(k, node, st, next) ==
  /\ At(k, node)
  /\ Goes(k, st, next) \/ Fails(k, "end")
  /\ Quiet

WithStatus(k, status) == [S(k) EXCEPT !.status = status]

(* A node that may ask for a human: needs_human_approval and its stage. *)
Gate(k, st, stage, next) ==
  \/ Goes(k, [st EXCEPT !.stage = stage], "request_approval")
  \/ Goes(k, [st EXCEPT !.stage = None], next)

Entry(trigger, stage) ==
  CASE trigger = "inquiry" -> "extract_inquiry"
    [] trigger = "followup" -> "compose_reminder"
    [] trigger = "customer_reply" -> "analyze_reply"
    [] trigger = "po_received" -> "extract_po_fields"
    [] trigger = "retry_pricing" -> "compute_pricing"
    [] stage = "requirement" -> "resolve_customer_identity"
    [] stage = "qualification" -> "check_feasibility"
    [] stage = "feasibility" -> "compute_pricing"
    [] stage = "pricing" -> "generate_quotation"
    [] stage = "negotiation" -> "prepare_revised_quotation"
    [] stage = "po" -> "revalidate_order_state"
    [] stage = "po_revalidation" -> "reserve_inventory"

CheckTrigger(k) ==
  Passes(k, "check_trigger", S(k), Entry(task[k].trigger, task[k].approved))

(* Inquiry to quotation *)

ExtractInquiry(k) ==
  /\ At(k, "extract_inquiry")
  /\ lead' \in {lead, [lead EXCEPT ![Thread(k)] = "open"]}
  /\ \/ /\ lead' # lead
        /\ \E next \in {"send_inquiry_followup", "normalize_requirement"} :
             Goes(k, WithStatus(k, "processing"), next)
     \/ Fails(k, "end")
  /\ UNCHANGED documents

SendInquiryFollowup(k) ==
  Passes(k, "send_inquiry_followup", WithStatus(k, "customer"), "end")

NormalizeRequirement(k) ==
  Passes(k, "normalize_requirement", WithStatus(k, "processing"), "exact_product_code_lookup")

ExactProductCodeLookup(k) ==
  \E next \in {"structured_specification_match", "match_requirement"} :
    Passes(k, "exact_product_code_lookup", S(k), next)

StructuredSpecificationMatch(k) ==
  /\ At(k, "structured_specification_match")
  /\ \/ Goes(k, S(k), "resolve_customer_identity")
     \/ Goes(k, [S(k) EXCEPT !.stage = "requirement"], "request_approval")
     \/ Fails(k, "end")
  /\ Quiet

MatchRequirement(k) ==
  /\ At(k, "match_requirement")
  /\ Gate(k, S(k), "requirement", "resolve_customer_identity") \/ Fails(k, "end")
  /\ Quiet

ResolveCustomerIdentity(k) ==
  Passes(k, "resolve_customer_identity", S(k), "load_customer_360")

LoadCustomer360(k) ==
  Passes(k, "load_customer_360", S(k), "qualify_customer")

QualifyCustomer(k) ==
  /\ At(k, "qualify_customer")
  /\ Gate(k, S(k), "qualification", "check_feasibility") \/ Fails(k, "end")
  /\ Quiet

CheckFeasibility(k) ==
  /\ At(k, "check_feasibility")
  /\ Gate(k, S(k), "feasibility", "compute_pricing") \/ Fails(k, "end")
  /\ Quiet

MutantNeedsApproval(price) == FALSE
NeedsApproval(price) == price \in Large

(* The prices, costs and discounts of the moment: any of them. *)
ComputePricing(k) ==
  /\ At(k, "compute_pricing")
  /\ \/ \E p \in Prices :
          Goes(k, [S(k) EXCEPT !.price = p,
                               !.stage = IF NeedsApproval(p) THEN "pricing" ELSE None],
               IF NeedsApproval(p) THEN "request_approval" ELSE "generate_quotation")
     \/ Goes(k, [S(k) EXCEPT !.price = Impossible, !.status = "blocked",
                             !.missing = TRUE, !.stage = None], "end")
     \/ Fails(k, "end")
  /\ Quiet

(* A failed generation still leads to the dispatch. *)
GenerateQuotation(k) ==
  LET t == Thread(k)
      q == [price |-> S(k).price, sends |-> 0, delivery |-> "none",
            approved |-> task[k].approved = "pricing" /\ task[k].seen = S(k).price]
      saved == quotes' = [quotes EXCEPT ![t] = Append(@, q)]
  IN /\ At(k, "generate_quotation")
     /\ \/ /\ S(k).price # None
           /\ saved
           /\ \/ Goes(k, [S(k) EXCEPT !.quote = Len(quotes[t]) + 1, !.offer = S(k).price,
                                      !.status = "processing"], "dispatch_quotation")
              \/ Fails(k, "dispatch_quotation")
        \/ Fails(k, "dispatch_quotation") /\ UNCHANGED quotes
     /\ UNCHANGED <<revised, purchases, orders, reserved, handoffs, lead>>

Delivered(k, delivery, sent) ==
  LET q == quotes[Thread(k)][S(k).quote]
  IN quotes' = [quotes EXCEPT ![Thread(k)][S(k).quote] =
                  [q EXCEPT !.delivery = delivery, !.sends = q.sends + sent]]
AwaitReply(k) == [S(k) EXCEPT !.status = "customer", !.missing = FALSE, !.stage = None]

(* The delivery attempt is looked up and marked before the message leaves. *)
DispatchQuotation(k) ==
  LET q == quotes[Thread(k)][S(k).quote]
  IN /\ At(k, "dispatch_quotation")
     /\ \/ Fails(k, "end") /\ UNCHANGED quotes
        \/ /\ S(k).quote # 0 /\ q.delivery = "sent"
           /\ Goes(k, AwaitReply(k), "end") /\ UNCHANGED quotes
        \/ /\ S(k).quote # 0 /\ q.delivery # "sent"
           /\ Delivered(k, "sending", 0)
           /\ task' = [task EXCEPT ![k].pc = "send_quotation"]
           /\ UNCHANGED <<checkpoint, closed, crm, counters>>
     /\ UNCHANGED <<revised, purchases, orders, reserved, handoffs, lead>>

(* An error after the provider accepted the message marks the attempt failed, *)
(* if that can be stored.                                                     *)
SendQuotation(k) ==
  /\ At(k, "send_quotation")
  /\ \/ Delivered(k, "sent", 1) /\ (Goes(k, AwaitReply(k), "end") \/ Fails(k, "end"))
     \/ \E sent \in {0, 1}, delivery \in {"sending", "failed"} :
          Delivered(k, delivery, sent) /\ Fails(k, "end")
  /\ UNCHANGED <<revised, purchases, orders, reserved, handoffs, lead>>

(* Follow-up *)

(* A reminder that could not be composed still leads to the dispatch. *)
ComposeReminder(k) ==
  /\ At(k, "compose_reminder")
  /\ (S(k).offer # None /\ Goes(k, S(k), "dispatch_followup")) \/ Fails(k, "dispatch_followup")
  /\ Quiet

DispatchFollowup(k) == Passes(k, "dispatch_followup", WithStatus(k, "customer"), "end")

(* Customer reply *)

AnalyzeReply(k) ==
  \E next \in {"evaluate_counteroffer", "compose_objection_response", "extract_po_fields",
               "record_commercial_acceptance", "compose_positive_response", "end"} :
    Passes(k, "analyze_reply", S(k), next)

(* Their edges to the dispatch are unconditional. *)
Acknowledges(k, node) ==
  /\ At(k, node)
  /\ Goes(k, WithStatus(k, "customer"), "dispatch_message") \/ Fails(k, "dispatch_message")
  /\ Quiet
RecordCommercialAcceptance(k) == Acknowledges(k, "record_commercial_acceptance")
ComposePositiveResponse(k) == Acknowledges(k, "compose_positive_response")

MutantDecision(offered, price, overCredit) ==
  IF price \notin Prices \/ overCredit THEN "needs_approval"
  ELSE IF offered >= price \/ offered >= AutoLimit THEN "acceptable"
  ELSE "below_floor"

(* Incomplete pricing or exceeded credit takes the decision to a human.       *)
(* Below the floor the answer is a rejection.                                 *)
Decision(offered, price, overCredit) ==
  IF price \notin Prices \/ overCredit THEN "needs_approval"
  ELSE IF offered >= price \/ (offered >= Floor /\ offered >= AutoLimit) THEN "acceptable"
  ELSE IF offered < Floor THEN "below_floor"
  ELSE "needs_approval"

EvaluateCounteroffer(k) ==
  /\ At(k, "evaluate_counteroffer")
  /\ \/ /\ S(k).price # None
        /\ \E offered \in Offers, overCredit \in BOOLEAN :
             LET decision == Decision(offered, S(k).price, overCredit)
             IN Goes(k, [S(k) EXCEPT
                           !.analysis = [price |-> offered, auto |-> decision = "acceptable"],
                           !.stage = IF decision = "acceptable" THEN None ELSE "negotiation",
                           !.status = "processing"],
                     CASE decision = "acceptable" -> "prepare_revised_quotation"
                       [] decision = "needs_approval" -> "request_approval"
                       [] decision = "below_floor" -> "compose_rejection")
     \/ Fails(k, "end")
  /\ Quiet

(* The quotation row keeps its draft: only the version and the state change. *)
PrepareRevisedQuotation(k) ==
  LET a == S(k).analysis
      version == [price |-> a.price, auto |-> a.auto,
                  approved |-> task[k].approved = "negotiation" /\ task[k].seen = a.price]
      saved == revised' = [revised EXCEPT ![Thread(k)] = @ \cup {version}]
  IN /\ At(k, "prepare_revised_quotation")
     /\ \/ /\ S(k).offer # None /\ a.price # None
           /\ saved
           /\ Goes(k, [S(k) EXCEPT !.offer = a.price], "dispatch_message") \/ Fails(k, "end")
        \/ Fails(k, "end") /\ UNCHANGED revised
     /\ UNCHANGED <<quotes, purchases, orders, reserved, handoffs, lead>>

ComposeRejection(k) ==
  Passes(k, "compose_rejection", WithStatus(k, "customer"), "dispatch_message")

ComposeObjectionResponse(k) ==
  Passes(k, "compose_objection_response", WithStatus(k, "customer"), "dispatch_message")

DispatchMessage(k) == Passes(k, "dispatch_message", S(k), "end")

(* Purchase order *)

QuotedPrice(t, st) == IF st.quote = 0 THEN None ELSE quotes[t][st.quote].price

(* The customer orders at the quotation's price or at that of its last version. *)
ExtractPoFields(k) ==
  LET t == Thread(k)
      saved == \E p \in {QuotedPrice(t, S(k)), S(k).offer} :
        purchases' = [purchases EXCEPT ![t] = Append(@,
          [price |-> p, verdict |-> "new", credit |-> FALSE, granted |-> {}])]
  IN /\ At(k, "extract_po_fields")
     /\ \/ /\ saved
           /\ \/ Goes(k, [S(k) EXCEPT !.po = Len(purchases[t]) + 1, !.status = "processing"],
                      "validate_po")
              \/ Fails(k, "validate_po")
        \/ Fails(k, "validate_po") /\ UNCHANGED purchases
     /\ UNCHANGED <<quotes, revised, orders, reserved, handoffs, lead>>

(* Compared with the quotation as first stored: the same purchase order gets   *)
(* the same verdict.  A critical mismatch, in the price or in another field,   *)
(* goes back to the customer, any other one to a human.                        *)
Verdicts(p, price) ==
  IF p.price # price THEN {"price"}
  ELSE IF p.verdict \in {"new", "price"} THEN {"ok", "review", "other"} ELSE {p.verdict}
ValidatePo(k) ==
  LET t == Thread(k)
      po == S(k).po
      After(v) ==
        Goes(k, [S(k) EXCEPT !.stage = IF v = "review" THEN "po" ELSE None],
             CASE S(k).error -> "end"
               [] ~ S(k).error /\ v \in {"price", "other"} -> "send_po_correction"
               [] ~ S(k).error /\ v = "review" -> "request_approval"
               [] ~ S(k).error /\ v = "ok" -> "revalidate_order_state")
  IN /\ At(k, "validate_po")
     /\ \/ /\ po # 0 /\ S(k).quote # 0
           /\ \E v \in Verdicts(purchases[t][po], QuotedPrice(t, S(k))) :
                /\ purchases' = [purchases EXCEPT ![t][po].verdict = v]
                /\ After(v)
        \/ /\ po = 0 /\ S(k).quote # 0
           /\ Goes(k, [S(k) EXCEPT !.stage = None], "end") /\ UNCHANGED purchases
        \/ Fails(k, "end") /\ UNCHANGED purchases
     /\ UNCHANGED <<quotes, revised, orders, reserved, handoffs, lead>>

(* Feasibility and pricing are computed again and replace those of the state. *)
(* Only a changed or impossible price and an expired quotation are material:  *)
(* the feasibility result has no field the comparison reads.                  *)
\* A price that changed by half a percent at most is the same to the order.
Immaterial(new, old) == new = old \/ {new, old} \in Near

RevalidateOrderState(k) ==
  LET t == Thread(k)
      Fresh(p) == IF p \in Prices THEN [S(k) EXCEPT !.price = p]
                  ELSE [S(k) EXCEPT !.price = p, !.missing = TRUE, !.status = "blocked"]
  IN /\ At(k, "revalidate_order_state")
     /\ \/ \E p \in Prices \cup {Impossible} :
             \/ /\ Goes(k, [Fresh(p) EXCEPT !.stage = "po_revalidation"], "request_approval")
                /\ purchases' = [purchases EXCEPT ![t] = [i \in DOMAIN @ |->
                     IF i = S(k).po THEN [@[i] EXCEPT !.credit = TRUE] ELSE @[i]]]
             \/ /\ p \in Prices /\ Immaterial(p, S(k).price)
                /\ Goes(k, [Fresh(p) EXCEPT !.stage = None], "reserve_inventory")
                /\ UNCHANGED purchases
             \/ /\ Goes(k, [Fresh(p) EXCEPT !.stage = None, !.status = "customer"],
                        "send_po_correction")
                /\ UNCHANGED purchases
        \/ Fails(k, "end") /\ UNCHANGED purchases
     /\ UNCHANGED <<quotes, revised, orders, reserved, handoffs, lead>>

SendPoCorrection(k) ==
  Passes(k, "send_po_correction", WithStatus(k, "customer"), "end")

(* Order *)

Total(records) == SumFunction([r \in records |-> r.quantity])
Held(t, po) == {r \in reserved : r.thread = t /\ r.po = po}
Taken(row) == Total({r \in reserved : r.row = row})
Free(row) == IF Stock[row] > Taken(row) THEN Stock[row] - Taken(row) ELSE 0
MutantAlreadyReserved(t, po) == \E r \in reserved : r.thread = t
AlreadyReserved(t, po) == Held(t, po) # {}

ReserveInventory(k) ==
  /\ At(k, "reserve_inventory")
  /\ \/ /\ S(k).po # 0 /\ AlreadyReserved(Thread(k), S(k).po)
        /\ Goes(k, S(k), "mark_order_won")
     \/ /\ S(k).po # 0 /\ ~ AlreadyReserved(Thread(k), S(k).po)
        /\ task' = [task EXCEPT ![k].pc = "allocate_rows"]
        /\ UNCHANGED <<checkpoint, closed, crm, counters>>
     \/ Fails(k, "end")
  /\ Quiet

(* Row after row: every row but the last one used is used up. *)
Allocations ==
  {a \in [Rows -> 0 .. Quantity] :
     /\ \A r \in Rows : a[r] <= Free(r)
     /\ SumFunction(a) = Quantity
     /\ Cardinality({r \in Rows : 0 < a[r] /\ a[r] < Free(r)}) <= 1}

(* The inventory rows are locked: one transaction after another.  The unique  *)
(* key (po, row) refuses a second reservation of the same row.                *)
AllocateRows(k) ==
  /\ At(k, "allocate_rows")
  /\ \/ \E a \in Allocations :
          LET new == {[thread |-> Thread(k), po |-> S(k).po, row |-> r, quantity |-> a[r]] :
                        r \in {r \in Rows : a[r] > 0}}
          IN /\ \A n \in new, r \in Held(Thread(k), S(k).po) : n.row # r.row
             /\ reserved' = reserved \cup new
             /\ Goes(k, S(k), "mark_order_won") \/ Fails(k, "end")
     \/ Fails(k, "end") /\ UNCHANGED reserved
  /\ UNCHANGED <<quotes, revised, purchases, orders, handoffs, lead>>

MutantMarkOrderWon(k) ==
  /\ At(k, "mark_order_won")
  /\ lead' \in {lead, [lead EXCEPT ![Thread(k)] = "won"]}
  /\ Goes(k, WithStatus(k, "processing"), "create_sales_order")
  /\ UNCHANGED documents
MarkOrderWon(k) ==
  /\ At(k, "mark_order_won")
  /\ lead' \in {lead, [lead EXCEPT ![Thread(k)] = "won"]}
  /\ \/ lead'[Thread(k)] = "won" /\ Goes(k, WithStatus(k, "processing"), "create_sales_order")
     \/ Fails(k, "end")
  /\ UNCHANGED documents

CreateSalesOrder(k) ==
  LET saved == orders' = [orders EXCEPT ![Thread(k)] = Append(@, S(k).po)]
  IN /\ At(k, "create_sales_order")
     /\ \/ /\ saved
           /\ Goes(k, WithStatus(k, "processing"), "build_handoff_packages") \/ Fails(k, "end")
        \/ Fails(k, "end") /\ UNCHANGED orders
     /\ UNCHANGED <<quotes, revised, purchases, reserved, handoffs, lead>>

BuildHandoffPackages(k) ==
  Passes(k, "build_handoff_packages", WithStatus(k, "processing"), "dispatch_handoff")

(* The records of all departments are one transaction.                        *)
DispatchHandoff(k) ==
  LET new == [po |-> S(k).po, told |-> 0, marked |-> FALSE]
  IN /\ At(k, "dispatch_handoff")
     /\ \/ /\ handoffs' = [handoffs EXCEPT ![Thread(k)] = Append(@, new)]
           /\ task' = [task EXCEPT ![k].pc = "notify_departments",
                                   ![k].st.handoff = Len(handoffs'[Thread(k)])]
           /\ UNCHANGED <<checkpoint, closed, crm, counters>>
        \/ Fails(k, "end") /\ UNCHANGED handoffs
     /\ UNCHANGED <<quotes, revised, purchases, orders, reserved, lead>>

(* A message that is not confirmed raises, whether it left or not; no other   *)
(* department is told then, and the marks of those that were are rolled back. *)
NotifyDepartment(k) ==
  LET t == Thread(k)
      Told == handoffs' = [handoffs EXCEPT ![t][S(k).handoff].told = @ + 1]
  IN /\ At(k, "notify_departments")
     /\ handoffs[t][S(k).handoff].told < Departments
     /\ \/ Told /\ UNCHANGED <<checkpoint, task, closed, crm, counters>>
        \/ (Told \/ UNCHANGED handoffs) /\ Fails(k, "end")
     /\ UNCHANGED <<quotes, revised, purchases, orders, reserved, lead>>

(* When all were told, one transaction marks the records. *)
MarkDepartments(k) ==
  LET t == Thread(k)
  IN /\ At(k, "notify_departments")
     /\ handoffs[t][S(k).handoff].told = Departments
     /\ \/ /\ handoffs' = [handoffs EXCEPT ![t][S(k).handoff].marked = TRUE]
           /\ Goes(k, WithStatus(k, "processing"), "finalize_audit")
        \/ Fails(k, "end") /\ UNCHANGED handoffs
     /\ UNCHANGED <<quotes, revised, purchases, orders, reserved, lead>>

FinalizeAudit(k) ==
  Passes(k, "finalize_audit", WithStatus(k, "handed_off"), "end")

RequestApproval(k) ==
  Passes(k, "request_approval", WithStatus(k, "awaiting_approval"), "end")

(* The process stops, or the request is cancelled: the checkpoint stays as it is. *)
Abandon(k) ==
  /\ task[k] # Idle
  /\ cuts < MaxCuts
  /\ cuts' = cuts + 1
  /\ task' = [task EXCEPT ![k] = Idle]
  /\ UNCHANGED <<checkpoint, documents, leads, started, disturbed>>

-----------------------------------------------------------------------------
(* The CRM *)

CloseLost(t) ==
  /\ lead[t] = "open" /\ ~ closed[t] /\ crm[t] = "none" /\ started < MaxRequests
  /\ started' = started + 1
  /\ closed' = [closed EXCEPT ![t] = TRUE]
  /\ crm' = [crm EXCEPT ![t] = "closing"]
  /\ Disturb(t)
  /\ UNCHANGED <<checkpoint, documents, lead, task, cuts>>

ReopenLead(t) ==
  /\ closed[t] /\ crm[t] = "none" /\ started < MaxRequests
  /\ started' = started + 1
  /\ closed' = [closed EXCEPT ![t] = FALSE]
  /\ crm' = [crm EXCEPT ![t] = "reopening"]
  /\ Disturb(t)
  /\ UNCHANGED <<checkpoint, documents, lead, task, cuts>>

(* The routers then write the status into the latest checkpoint. *)
UpdateCheckpoint(t) ==
  /\ crm[t] # "none"
  /\ checkpoint' = [checkpoint EXCEPT ![t].status =
                      IF crm[t] = "closing" THEN "closed_lost" ELSE "processing"]
  /\ crm' = [crm EXCEPT ![t] = "none"]
  /\ UNCHANGED <<documents, lead, closed, task, counters>>

CrmCut(t) ==
  /\ crm[t] # "none" /\ cuts < MaxCuts
  /\ cuts' = cuts + 1
  /\ crm' = [crm EXCEPT ![t] = "none"]
  /\ disturbed' = disturbed \cup {t}
  /\ UNCHANGED <<checkpoint, documents, lead, closed, task, started>>

-----------------------------------------------------------------------------
Starts(k, t) ==
  \/ ProcessInquiry(k, t) \/ ProcessPipelineEvent(k, t) \/ ContinueConversation(k, t)
  \/ ProcessOne(k, t) \/ RetryPipelinePricing(k, t) \/ ApprovePipelineStage(k, t) \/ ApproveInCRM(k, t)

QuotationNodes(k) ==
  \/ ExtractInquiry(k) \/ SendInquiryFollowup(k) \/ NormalizeRequirement(k)
  \/ ExactProductCodeLookup(k) \/ StructuredSpecificationMatch(k) \/ MatchRequirement(k)
  \/ ResolveCustomerIdentity(k) \/ LoadCustomer360(k) \/ QualifyCustomer(k)
  \/ CheckFeasibility(k) \/ ComputePricing(k) \/ GenerateQuotation(k)
  \/ DispatchQuotation(k) \/ SendQuotation(k)

ReplyNodes(k) ==
  \/ ComposeReminder(k) \/ DispatchFollowup(k) \/ AnalyzeReply(k)
  \/ RecordCommercialAcceptance(k) \/ ComposePositiveResponse(k)
  \/ EvaluateCounteroffer(k) \/ PrepareRevisedQuotation(k) \/ ComposeRejection(k)
  \/ ComposeObjectionResponse(k) \/ DispatchMessage(k)

OrderNodes(k) ==
  \/ ExtractPoFields(k) \/ ValidatePo(k) \/ RevalidateOrderState(k)
  \/ ReserveInventory(k) \/ AllocateRows(k) \/ SendPoCorrection(k) \/ MarkOrderWon(k)
  \/ CreateSalesOrder(k) \/ BuildHandoffPackages(k) \/ DispatchHandoff(k)
  \/ NotifyDepartment(k) \/ MarkDepartments(k) \/ FinalizeAudit(k) \/ RequestApproval(k)

Next ==
  \/ \E k \in Tasks, t \in Threads : Starts(k, t)
  \/ \E k \in Tasks : \/ Invoke(k) \/ CheckTrigger(k) \/ Abandon(k)
                      \/ QuotationNodes(k) \/ ReplyNodes(k) \/ OrderNodes(k)
  \/ \E t \in Threads : CloseLost(t) \/ ReopenLead(t) \/ UpdateCheckpoint(t) \/ CrmCut(t)

Spec == Init /\ [][Next]_vars

-----------------------------------------------------------------------------
(* Safety.  "disturbed" conversations are those in which a second request     *)
(* worked on the checkpoint while another was in flight, or a CRM request was *)
(* cut between its commit and its checkpoint update.                          *)

(* The documents of a conversation agree, whatever runs overlap, fail or stop: *)
(* an order and a reservation name a purchase order that exists, an order      *)
(* stands only for a lead that was won, and a lead is won only when stock is   *)
(* held for one of its purchase orders.                                        *)
DocumentsAgree ==
  /\ \A t \in Threads :
       /\ \A i \in DOMAIN orders[t] : orders[t][i] \in DOMAIN purchases[t]
       /\ orders[t] # << >> => lead[t] = "won"
       /\ lead[t] = "won" => \E r \in reserved : r.thread = t
  /\ \A r \in reserved : r.po \in DOMAIN purchases[r.thread]

(* Departments are told only of an order that was confirmed, and all of them  *)
(* are before they are recorded as told or the conversation as handed off,     *)
(* whichever message fails on the way (dispatch_all, finalize_audit).          *)
HandedOffToAll ==
  \A t \in Threads :
    /\ \A i \in DOMAIN handoffs[t] :
         LET h == handoffs[t][i]
         IN /\ \E j \in DOMAIN orders[t] : orders[t][j] = h.po
            /\ h.marked => h.told = Departments
    /\ checkpoint[t] # None /\ checkpoint[t].status = "handed_off" /\ t \notin disturbed =>
         \E i \in DOMAIN handoffs[t] :
           handoffs[t][i].marked /\ handoffs[t][i].po = orders[t][Len(orders[t])]

(* A lead closed lost is not won by a later event until it is reopened.        *)
LostStaysLost ==
  \A t \in Threads \ disturbed : ~ (closed[t] /\ lead[t] = "won")

(* What every conversation keeps.                                             *)
SalesInv == TypeOK /\ DocumentsAgree /\ HandedOffToAll /\ LostStaysLost

(* Reservations never exceed an inventory row's stock, also when two runs      *)
(* reserve at once or one is repeated after its reservations were stored; and  *)
(* every sales order's purchase order has its whole quantity reserved, exactly *)
(* once unless two runs of the conversation overlapped.                        *)
OrderReserved ==
  /\ \A row \in Rows : Total({r \in reserved : r.row = row}) <= Stock[row]
  /\ \A t \in Threads : \A i \in DOMAIN orders[t] :
       LET held == Total(Held(t, orders[t][i]))
       IN held >= Quantity /\ (t \notin disturbed => held = Quantity)

(* An order is confirmed only for a purchase order that agreed with its        *)
(* quotation, or whose differences a human approved, and only with a second    *)
(* approval where the customer's credit was exceeded; and only once.           *)
OrderApproved ==
  \A t \in Threads \ disturbed : \A i \in DOMAIN orders[t] :
    LET p == purchases[t][orders[t][i]]
    IN /\ p.verdict \in {"ok", "review"}
       /\ p.verdict = "review" => "po" \in p.granted
       /\ p.credit => "po_revalidation" \in p.granted
       /\ \A j \in DOMAIN orders[t] : orders[t][j] = orders[t][i] => i = j

(* A quotation whose price needs an approval leaves only after a human has     *)
(* approved this very price.                                                   *)
QuoteApproved ==
  \A t \in Threads \ disturbed : \A i \in DOMAIN quotes[t] :
    LET q == quotes[t][i]
    IN (q.sends > 0 \/ q.delivery = "sending") /\ q.price \in Large => q.approved

(* A lower price is offered only if it is within the automatic limit or a      *)
(* human has approved this very price, and never unseen below the floor.       *)
RevisionAuthorised ==
  \A t \in Threads \ disturbed : \A v \in revised[t] :
    /\ v.auto \/ v.approved
    /\ v.price < Floor => v.approved

(* No price leaves without the approval it needs, in a quotation or in answer   *)
(* to a counteroffer.                                                          *)
PricesAuthorised == QuoteApproved /\ RevisionAuthorised

(* A conversation at rest that awaits an approval says which, so that it can   *)
(* be given ("Approve the pending stage before sending another event.").       *)
PendingNamed ==
  \A t \in Threads \ disturbed :
    ~ Busy(t) /\ checkpoint[t] # None /\ checkpoint[t].status = "awaiting_approval"
      => checkpoint[t].stage # None

-----------------------------------------------------------------------------
(* What has been promised in a conversation, as SoundDeal speaks of it.       *)

Cleared(p) ==
  /\ p.verdict \in {"ok", "review"}
  /\ p.verdict = "review" => "po" \in p.granted
  /\ p.credit => "po_revalidation" \in p.granted

QuotedOf(t) ==
  {[price |-> quotes[t][i].price, approved |-> quotes[t][i].approved] : i \in DOMAIN quotes[t]}
DealOf(t, i) ==
  [price |-> purchases[t][i].price,
   cleared |-> Cleared(purchases[t][i]),
   held |-> Held(t, i) # {},
   ordered |-> \E j \in DOMAIN orders[t] : orders[t][j] = i,
   handed |-> \E j \in DOMAIN handoffs[t] : handoffs[t][j].marked /\ handoffs[t][j].po = i]

QuotedPrices == [t \in Threads |-> IF t \in disturbed THEN {} ELSE QuotedOf(t)]
PurchaseDeals ==
  [t \in Threads |-> IF t \in disturbed THEN << >>
                     ELSE [i \in DOMAIN purchases[t] |-> DealOf(t, i)]]
LostThreads == {t \in Threads \ disturbed : closed[t]}

Deal == INSTANCE SoundDeal WITH
  Conversations <- Threads, Approvable <- Large,
  quoted <- QuotedPrices, deals <- PurchaseDeals, lost <- LostThreads, loose <- disturbed

(* Every conversation without overlapping calls keeps the promise of SoundDeal: *)
(* from the quotation to the handoff no step is skipped, undone or repeated,   *)
(* whichever node fails, is cut short or is run again (build_nodes).           *)
CarriesOutSoundDeals == Deal!Spec
=============================================================================
