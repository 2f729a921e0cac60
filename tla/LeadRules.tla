------------------------------ MODULE LeadRules ------------------------------
(***************************************************************************)
(* What the agents make of an inquiry before it is priced: the profile and *)
(* score of the customer (agents 05, 06), the product that matches (04),   *)
(* what the stock covers (07) and when it can be delivered (08).  Nothing  *)
(* here has a state: the agents are functions of what they read.           *)
(* Money is in lakh, a percentage in tenths, as it is rounded.             *)
(***************************************************************************)
EXTENDS Integers

CONSTANT Unknown

Round(a, b) == (2 * a + b) \div (2 * b)
Greater(a, b) == IF a >= b THEN a ELSE b

-----------------------------------------------------------------------------
(* The customer *)

\* Of the ten latest orders and quotations; open quotations count as not won.
Profile(c) ==
    LET quotes == c.won + c.lost + c.open
    IN  [new |-> c.new, value |-> c.value, behavior |-> c.behavior, delay |-> c.delay,
         limit |-> c.limit, closed |-> c.won + c.lost,
         winRate |-> IF quotes = 0 THEN 0 ELSE Round(1000 * c.won, quotes),
         utilization |-> IF c.limit > 0 THEN Round(1000 * c.outstanding, c.limit) ELSE 0]

OrderHistory(p) ==
    CASE p.new -> 10
      [] ~p.new /\ p.value >= 100 -> 25
      [] ~p.new /\ p.value \in 20..99 -> 18
      [] ~p.new /\ p.value \in 5..19 -> 10
      [] OTHER -> 4

BehaviorPoints == [excellent |-> 30, good |-> 24, average |-> 14, poor |-> 4, unknown |-> 15]

Payment(p) ==
    LET points == BehaviorPoints[p.behavior]
    IN  CASE p.new -> 15
          [] ~p.new /\ p.delay > 30 -> Greater(0, points - 10)
          [] ~p.new /\ p.delay \in 16..30 -> Greater(0, points - 5)
          [] OTHER -> points

CreditHealth(p) ==
    CASE p.new \/ p.limit = 0 -> 10
      [] ~p.new /\ p.limit # 0 /\ p.utilization <= 300 -> 20
      [] ~p.new /\ p.limit # 0 /\ p.utilization \in 301..600 -> 14
      [] ~p.new /\ p.limit # 0 /\ p.utilization \in 601..850 -> 6
      [] OTHER -> 0

WinRate(p) ==
    CASE p.new \/ p.closed = 0 -> 8
      [] ~p.new /\ p.closed # 0 /\ p.winRate >= 700 -> 15
      [] ~p.new /\ p.closed # 0 /\ p.winRate \in 400..699 -> 10
      [] OTHER -> 4

Recency(p) == IF p.new THEN 10 ELSE 5

Score(p) == OrderHistory(p) + Payment(p) + CreditHealth(p) + WinRate(p) + Recency(p)

Temperature(score) ==
    CASE score >= 70 -> "hot" [] score \in 40..69 -> "warm" [] OTHER -> "cold"

Priority(temperature, p) ==
    CASE temperature = "hot" \/ (temperature = "warm" /\ p.value >= 100) -> "P1"
      [] temperature = "warm" /\ p.value < 100 -> "P2"
      [] OTHER -> "P3"

CreditRisk(p) == ~p.new /\ p.limit > 0 /\ p.utilization >= 800

Qualify(p) ==
    [score |-> Score(p), priority |-> Priority(Temperature(Score(p)), p),
     credit |-> CreditRisk(p), review |-> CreditRisk(p)]

-----------------------------------------------------------------------------
(* The product *)

MatchNeedsReview(a, documents) ==
    a.type = "custom" \/ (a.type = "near" /\ a.critical) \/ documents

Unmatched == [type |-> "custom", product |-> FALSE, review |-> TRUE]

\* What the language model answered from the documents that were retrieved, if
\* there were any, there is a model, and its answer can be read.
Semantic(s) ==
    IF ~s.chunks \/ s.answer = Unknown THEN Unmatched
    ELSE [type |-> s.answer.type, product |-> s.answer.product,
          review |-> s.answer.review \/ MatchNeedsReview(s.answer, s.documents)]

\* A product the catalog has under the code in the request needs no model; one
\* the model named must be in the catalog.
MatchRequirement(s) ==
    IF s.coded THEN [type |-> "exact", product |-> TRUE, review |-> FALSE]
    ELSE IF Semantic(s).product /\ ~s.listed THEN Unmatched ELSE Semantic(s)

-----------------------------------------------------------------------------
(* The stock *)

\* A quantity that cannot be read counts as none.
ParsedQuantity(q) == IF q = Unknown THEN 0 ELSE q

NotInCatalog == [status |-> "not_in_catalog", stock |-> 0, shortage |-> 0, cover |-> 0]

CheckInventory(requirement, quantity, available) ==
    LET n == ParsedQuantity(quantity)
    IN  IF ~requirement.product \/ available = Unknown THEN NotInCatalog
        ELSE IF available = 0
             THEN [status |-> "out_of_stock", stock |-> 0, shortage |-> n, cover |-> 0]
        ELSE IF available >= n
             THEN [status |-> "sufficient", stock |-> n, shortage |-> 0, cover |-> 1000]
        ELSE [status |-> "partial", stock |-> available, shortage |-> n - available,
              cover |-> Round(1000 * available, n)]

-----------------------------------------------------------------------------
(* The delivery *)

\* The days to a place that is not in the schedule are guessed.
TransitDays(place, priority) ==
    IF place # Unknown THEN place ELSE IF priority = "P1" THEN 3 ELSE 5

Fulfillment(stock, capacity) ==
    CASE stock.status = "not_in_catalog" -> "cannot_fulfill"
      [] stock.status = "sufficient" -> "from_stock"
      [] stock.status = "out_of_stock" ->
            IF capacity = Unknown THEN "cannot_fulfill" ELSE "from_production"
      [] stock.status = "partial" -> "partial_stock"

ProductionDays(fulfillment, capacity) ==
    IF fulfillment \in {"from_production", "partial_stock"} /\ capacity # Unknown
    THEN capacity.lead ELSE 0

MutantRisk(fulfillment, production, capacity, stock, days, required, located, type) ==
    (IF type = "custom" /\ fulfillment # "cannot_fulfill" THEN {"high"} ELSE {})
      \cup (IF required # Unknown /\ days < required THEN {"high"} ELSE {})
Risk(fulfillment, production, capacity, stock, days, required, located, type) ==
    LET dated == required \notin {Unknown, 0}
        late == dated /\ days > required
        tight == dated /\ required - days \in 1..2
        strained == capacity # Unknown /\ production > 2 * capacity.weekly
        thin == stock.status = "partial" /\ stock.cover < 300
        special == type = "custom" /\ fulfillment # "cannot_fulfill"
    IN  (IF fulfillment = "cannot_fulfill" \/ late \/ special THEN {"high"} ELSE {})
          \cup (IF strained \/ thin \/ tight THEN {"medium"} ELSE {})
          \cup (IF located THEN {} ELSE {"low"})

FeasibilityNeedsReview(risks, fulfillment, type) ==
    fulfillment = "cannot_fulfill" \/ "high" \in risks \/ type = "custom"

CheckFeasibility(requirement, qualification, stock, capacity, place, required) ==
    LET fulfillment == Fulfillment(stock, capacity)
        days == ProductionDays(fulfillment, capacity) + TransitDays(place, qualification.priority)
        risks == Risk(fulfillment, stock.shortage, capacity, stock, days, required,
                      place # Unknown, requirement.type)
    IN  [fulfillment |-> fulfillment, days |-> days, risks |-> risks,
         review |-> FeasibilityNeedsReview(risks, fulfillment, requirement.type)]

-----------------------------------------------------------------------------
(* The inquiry *)

\* What the four agents answer, one after another, and whether one of them asks
\* a human.
Answer(i) ==
    LET qualification == Qualify(Profile(i.customer))
        requirement == MatchRequirement(i.search)
        stock == CheckInventory(requirement, i.quantity, i.available)
        promise == CheckFeasibility(requirement, qualification, stock, i.capacity,
                                    i.place, i.required)
    IN  [score |-> qualification.score, priority |-> qualification.priority, days |-> promise.days,
         fulfillment |-> promise.fulfillment,
         review |-> qualification.review \/ requirement.review \/ promise.review]
==============================================================================
