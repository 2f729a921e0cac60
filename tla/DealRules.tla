------------------------------ MODULE DealRules ------------------------------
(***************************************************************************)
(* What the agents make of a price: the calculation of the quotation       *)
(* (agents 09, 10, 11), the evaluation of a counteroffer (16), the revised *)
(* quotation (17) and the comparison of a purchase order with it (19).     *)
(* Money is in hundredths, a percentage in hundredths of a percent, which  *)
(* is how the code rounds them; a quantity is in thousandths of its unit.  *)
(***************************************************************************)
EXTENDS LeadRules, Sequences

CONSTANT LargeOrder    \* LARGE_ORDER_THRESHOLD_INR

Distance(a, b) == IF a >= b THEN a - b ELSE b - a

\* What a quantity costs: every product of the two is rounded on its own.
Times(amount, quantity) == Round(amount * quantity, 1000)

-----------------------------------------------------------------------------
(* The price.  d are the price documents: a missing row is Unknown. *)

\* The first band that has the value, in thousandths of a hundredth; the bounds
\* belong to it.
Band(d, customer, value) ==
    LET fits == {i \in DOMAIN d.bands : /\ d.bands[i].customer = customer
                                        /\ value >= 1000 * d.bands[i].least
                                        /\ value <= 1000 * d.bands[i].most}
    IN  IF fits = {} THEN Unknown ELSE d.bands[CHOOSE i \in fits : \A j \in fits : i <= j]

InputsMissing(d, customer, quantity) ==
    \/ Unknown \in {d.list, d.material, d.margin, d.gst, d.transport}
    \/ d.list # Unknown /\ Band(d, customer, d.list * quantity) = Unknown

Cost(d) == d.material + Round(d.material * d.overhead, 10000) + d.transport

\* The price that keeps the smallest margin.
FloorPrice(d) == IF Cost(d) > 0 THEN Round(10000 * Cost(d), 10000 - d.margin) ELSE 0

PriceAt(price, discount) == Round(price * (10000 - discount), 10000)
MarginAt(price, cost) == Round(10000 * (price - cost), price)

\* The discount sales may give without asking is given at once, down to the floor.
Discounted(band, suggested, floor) ==
    IF band = Unknown THEN [discount |-> 0, price |-> suggested]
    ELSE LET price == PriceAt(suggested, band.limit)
         IN  IF price < floor
             THEN [discount |-> Round(10000 * (suggested - floor), suggested), price |-> floor]
             ELSE [discount |-> band.limit, price |-> price]

Totals(price, quantity, gst) ==
    LET perUnit == Round(price * gst, 10000)
        subtotal == Times(price, quantity)
        tax == Times(perUnit, quantity)
    IN  [gstPerUnit |-> perUnit, subtotal |-> subtotal, gst |-> tax, total |-> subtotal + tax]

ApprovalNeeded(discount, limit, margin, least, total) ==
    discount > limit \/ margin < least \/ total > LargeOrder

NoPrice == [possible |-> FALSE, approval |-> TRUE]

ComputePricing(d, customer, quantity) ==
    IF InputsMissing(d, customer, quantity) THEN NoPrice
    ELSE LET floor == FloorPrice(d)
             suggested == Greater(d.list, floor)
             band == Band(d, customer, 1000 * Times(suggested, quantity))
             limit == IF band = Unknown THEN 0 ELSE band.limit
             offer == Discounted(band, suggested, floor)
             totals == Totals(offer.price, quantity, d.gst)
         IN  [possible |-> TRUE, quantity |-> quantity, cost |-> Cost(d), floor |-> floor,
              suggested |-> suggested, limit |-> limit,
              max |-> IF band = Unknown THEN 0 ELSE band.max,
              discount |-> offer.discount, price |-> offer.price, gst |-> d.gst, totals |-> totals,
              margin |-> MarginAt(offer.price, Cost(d)),
              approval |-> ApprovalNeeded(offer.discount, limit, MarginAt(offer.price, Cost(d)),
                                          d.margin, totals.total)]

-----------------------------------------------------------------------------
(* The quotation and its revisions *)

Item(price, quantity, gst, total) ==
    [price |-> price, quantity |-> quantity, gst |-> gst, total |-> total]

BuildQuotation(q, feasibilityReview) ==
    [items |-> IF q.possible THEN <<Item(q.price, q.quantity, q.gst, q.totals.total)>> ELSE << >>,
     total |-> IF q.possible THEN q.totals.total ELSE 0,
     approval |-> q.approval \/ feasibilityReview]

InputsComplete(q) == q.possible /\ q.quantity > 0 /\ q.suggested > 0 /\ q.floor > 0 /\ q.cost > 0

MutantLimitPrice(q) == PriceAt(q.suggested, q.max)
LimitPrice(q) == PriceAt(q.suggested, q.limit)

\* The floor comes before the limit, and credit and missing inputs before both.
Decision(q, price, overCredit) ==
    IF overCredit \/ ~InputsComplete(q) THEN "needs_approval"
    ELSE IF price >= q.price THEN "acceptable"
    ELSE IF price < q.floor THEN "below_floor"
    ELSE IF price >= LimitPrice(q) THEN "acceptable"
    ELSE "needs_approval"

EvaluateCounteroffer(q, price, overCredit) ==
    LET subtotal == Times(price, q.quantity)
        gst == Round(subtotal * q.gst, 10000)
    IN  [price |-> price, decision |-> Decision(q, price, overCredit),
         auto |-> Decision(q, price, overCredit) = "acceptable",
         total |-> subtotal + gst]

\* An item has the tax of its unit in its price, the totals have it on the sum.
Revised(draft, a) ==
    [items |-> [i \in DOMAIN draft.items |->
        LET item == draft.items[i]
            perUnit == Round(a.price * item.gst, 10000)
        IN  Item(a.price, item.quantity, item.gst, Times(a.price + perUnit, item.quantity))],
     total |-> a.total, approval |-> ~a.auto]

\* Of the drafts of a quotation, the first and its revisions, the one an order is
\* compared with: the record of the quotation keeps the first.
MutantComparedWith(drafts) == drafts[Len(drafts)]
ComparedWith(drafts) == Head(drafts)

-----------------------------------------------------------------------------
(* The purchase order.  What it leaves out is Unknown. *)

Within(a, b, tolerance) == IF b = 0 THEN a = 0 ELSE 10000 * Distance(a, b) <= tolerance * b

Mismatch(field, severity, customer, internal) ==
    [field |-> field, severity |-> severity, customer |-> customer, internal |-> internal]
Critical(field) == Mismatch(field, "critical", TRUE, TRUE)
Agreed == {}

CompareProduct(po, draft) ==
    IF draft.items = << >> \/ po.keywords >= 2 THEN Agreed ELSE {Critical("product")}

CompareQuantity(po, draft) ==
    IF draft.items = << >> \/ po.quantity = Unknown THEN Agreed
    ELSE LET n == draft.items[1].quantity
         IN  IF Within(po.quantity, n, 0) THEN Agreed
             ELSE IF Within(po.quantity, n, 200) THEN {Mismatch("quantity", "warning", FALSE, TRUE)}
             ELSE {Critical("quantity")}

ComparePrice(po, draft) ==
    IF draft.items = << >> \/ po.price = Unknown \/ Within(po.price, draft.items[1].price, 50)
    THEN Agreed ELSE {Critical("price")}

CompareGst(po, draft) ==
    IF draft.items = << >> \/ po.gst = Unknown \/ Distance(po.gst, draft.items[1].gst) <= 10
    THEN Agreed ELSE {Critical("gst")}

ComparePaymentTerms(po) ==
    IF po.terms \in {"same", Unknown} THEN Agreed ELSE {Mismatch("terms", "warning", FALSE, TRUE)}

CompareTotal(po, draft) ==
    IF po.total = Unknown \/ Within(po.total, draft.total, 100) THEN Agreed ELSE {Critical("total")}

CheckAddress(po) == IF po.address THEN Agreed ELSE {Mismatch("address", "warning", TRUE, FALSE)}
CheckConditions(po) == IF po.conditions THEN {Mismatch("conditions", "minor", FALSE, TRUE)} ELSE Agreed

\* The difference to a quantity or a price of zero cannot be expressed in percent.
Incomparable(po, draft) ==
    /\ draft.items # << >>
    /\ \/ draft.items[1].quantity = 0 /\ po.quantity \notin {0, Unknown}
       \/ draft.items[1].price = 0 /\ po.price \notin {0, Unknown}

Mismatches(po, draft) ==
    CompareProduct(po, draft) \cup CompareQuantity(po, draft) \cup ComparePrice(po, draft)
      \cup CompareGst(po, draft) \cup ComparePaymentTerms(po) \cup CompareTotal(po, draft)
      \cup CheckAddress(po) \cup CheckConditions(po)

Verdict(mismatches) ==
    IF \E m \in mismatches : m.severity = "critical" THEN "critical_mismatch"
    ELSE IF mismatches # {} THEN "minor_mismatch" ELSE "valid"

ValidatePo(po, draft) ==
    LET found == Mismatches(po, draft)
    IN  IF Incomparable(po, draft) THEN [verdict |-> "error", proceed |-> FALSE, human |-> FALSE]
        ELSE [verdict |-> Verdict(found), proceed |-> Verdict(found) # "critical_mismatch",
              human |-> \E m \in found : m.internal]

-----------------------------------------------------------------------------
(* What a customer sends who agrees *)

\* A purchase order that repeats a line of a quotation, and its total as the
\* line or the quotation has it, or leaves something out.
Repeated(item, total) ==
    [keywords |-> 2, quantity |-> item.quantity, price |-> item.price, gst |-> item.gst,
     terms |-> "same", total |-> total, address |-> TRUE, conditions |-> FALSE]
Repeating(draft) ==
    LET item == draft.items[1]
    IN  {Repeated(item, item.total), Repeated(item, draft.total)}
LeavingOut(po) == {[po EXCEPT !.price = Unknown, !.total = Unknown], [po EXCEPT !.address = FALSE]}
==============================================================================
