--------------------------- MODULE DealCases_proofs ---------------------------
(***************************************************************************)
(* What the rules of the agents say of any inquiry and of any price        *)
(* documents, offers and purchase orders.  The cases of DealCases are the  *)
(* initial states of one variable, so that each property is one of the     *)
(* rules alone; the lemmas bound what each rule computes.                  *)
(***************************************************************************)
EXTENDS DealCases, FiniteSetTheorems, NaturalsInduction, WellFoundedInduction, TLAPS

-----------------------------------------------------------------------------
(* The price of a quotation, whatever the price documents say *)

LEMMA RoundsToItself ==
  ASSUME NEW s \in Int PROVE Agents!PriceAt(s, 0) = s
<1>1. (2 * (s * (10000 - 0)) + 10000) \div (2 * 10000) = s
  <2>1. 2 * (s * (10000 - 0)) + 10000 = 20000 * s + 10000
    OBVIOUS
  <2>2. (20000 * s + 10000) \div 20000 = s
    OBVIOUS
  <2> QED BY <2>1, <2>2
<1> QED BY <1>1 DEF Agents!PriceAt, Agents!Round

LEMMA RoundIsWhole ==
  ASSUME NEW a \in Int, NEW b \in Int, b > 0 PROVE Agents!Round(a, b) \in Int
BY DEF Agents!Round

LEMMA PriceAtIsWhole ==
  ASSUME NEW s \in Int, NEW l \in Int PROVE Agents!PriceAt(s, l) \in Int
BY RoundIsWhole DEF Agents!PriceAt

LEMMA LessIsAPair ==
  ASSUME NEW x \in Nat, NEW y \in Nat, x < y
  PROVE  <<x, y>> \in OpToRel(<, Nat)
BY DEF OpToRel

LEMMA BandIsOne ==
  ASSUME NEW d \in PriceDocuments, NEW customer, NEW value, Agents!Band(d, customer, value) # Unknown
  PROVE  Agents!Band(d, customer, value) \in BandType
<1>1. PICK fits : fits = {i \in DOMAIN d.bands : /\ d.bands[i].customer = customer
                                                /\ value >= 1000 * d.bands[i].least
                                                /\ value <= 1000 * d.bands[i].most}
  OBVIOUS
<1>2. fits # {} /\ Agents!Band(d, customer, value) = d.bands[CHOOSE i \in fits : \A j \in fits : i <= j]
  BY <1>1 DEF Agents!Band
<1>3. d.bands \in Seq(BandType) /\ fits \subseteq DOMAIN d.bands /\ fits \subseteq Nat
  BY <1>1 DEF PriceDocuments
<1>4. PICK n \in fits : \A m \in fits : <<m, n>> \notin OpToRel(<, Nat)
  BY <1>2, <1>3, NatLessThanWellFounded, WFMin
<1>5. ASSUME NEW m \in fits PROVE n <= m
  <2>1. m \in Nat /\ n \in Nat /\ ~(m < n)
    BY <1>3, <1>4, LessIsAPair
  <2> QED BY <2>1
<1>6. (CHOOSE i \in fits : \A j \in fits : i <= j) \in fits
  BY <1>5
<1> QED BY <1>2, <1>3, <1>6

LEMMA FloorIsWhole ==
  ASSUME NEW d \in PriceDocuments, Unknown \notin {d.list, d.material, d.margin, d.gst, d.transport}
  PROVE  Agents!FloorPrice(d) \in Int /\ d.list \in Int
<1>1. /\ d.list \in Int /\ d.material \in Int /\ d.overhead \in Int /\ d.transport \in Int
      /\ d.margin \in Int /\ d.margin < 10000
  BY DEF PriceDocuments
<1>2. Agents!Cost(d) \in Int
  <2>1. Agents!Round(d.material * d.overhead, 10000) \in Int
    BY <1>1, RoundIsWhole
  <2> QED BY <1>1, <2>1 DEF Agents!Cost
<1>3. Agents!Round(10000 * Agents!Cost(d), 10000 - d.margin) \in Int
  BY <1>1, <1>2, RoundIsWhole
<1> QED BY <1>1, <1>3 DEF Agents!FloorPrice

\* The price offered is the one the limit of sales allows, or the floor when
\* that is above it.
LEMMA OfferIsTheLimit ==
  ASSUME NEW band, NEW suggested \in Int, NEW floor \in Int, suggested >= floor,
         band = Unknown \/ band \in BandType
  PROVE  LET offer == Agents!Discounted(band, suggested, floor)
             limit == IF band = Unknown THEN 0 ELSE band.limit
         IN  /\ offer.price \in Int /\ Agents!PriceAt(suggested, limit) \in Int
             /\ offer.price >= floor
             /\ offer.price = floor \/ offer.price = Agents!PriceAt(suggested, limit)
<1>1. CASE band = Unknown
  BY <1>1, RoundsToItself DEF Agents!Discounted
<1>2. CASE band # Unknown
  <2>1. band.limit \in Int
    BY <1>2 DEF BandType
  <2>2. Agents!PriceAt(suggested, band.limit) \in Int
    BY <2>1, PriceAtIsWhole
  <2> QED BY <1>2, <2>1, <2>2 DEF Agents!Discounted
<1> QED BY <1>1, <1>2

\* The authority to concede is spent once: for any price documents, customer and
\* quantity, no counteroffer below the price of the quotation, or below the
\* floor, is accepted without a human (compute_pricing, evaluate_counteroffer).
THEOREM NothingBelowTheQuotation ==
  ASSUME NEW d \in PriceDocuments, NEW customer, NEW quantity, NEW price \in Int,
         NEW overCredit \in BOOLEAN,
         Agents!ComputePricing(d, customer, quantity).possible,
         Agents!EvaluateCounteroffer(Agents!ComputePricing(d, customer, quantity), price, overCredit).auto
  PROVE  /\ price >= Agents!ComputePricing(d, customer, quantity).price
         /\ price >= Agents!ComputePricing(d, customer, quantity).floor
<1>1. PICK q : q = Agents!ComputePricing(d, customer, quantity)
  OBVIOUS
<1>2. ~Agents!InputsMissing(d, customer, quantity)
  BY DEF Agents!ComputePricing, Agents!NoPrice
<1>3. PICK floor, suggested, band, limit, offer :
         /\ floor = Agents!FloorPrice(d) /\ suggested = Agents!Greater(d.list, floor)
         /\ band = Agents!Band(d, customer, 1000 * Agents!Times(suggested, quantity))
         /\ limit = IF band = Unknown THEN 0 ELSE band.limit
         /\ offer = Agents!Discounted(band, suggested, floor)
  OBVIOUS
<1>4. q.price = offer.price /\ q.floor = floor /\ q.suggested = suggested /\ q.limit = limit
  BY <1>1, <1>2, <1>3 DEF Agents!ComputePricing
<1>5. floor \in Int /\ suggested \in Int /\ suggested >= floor
  <2>1. floor \in Int /\ d.list \in Int
    BY <1>2, <1>3, FloorIsWhole DEF Agents!InputsMissing
  <2> QED BY <2>1, <1>3 DEF Agents!Greater
<1>6. band = Unknown \/ band \in BandType
  BY <1>3, BandIsOne
<1>7. /\ offer.price \in Int /\ Agents!PriceAt(suggested, limit) \in Int
      /\ offer.price >= floor
      /\ offer.price = floor \/ offer.price = Agents!PriceAt(suggested, limit)
  BY <1>3, <1>5, <1>6, OfferIsTheLimit
<1>8. Agents!LimitPrice(q) = Agents!PriceAt(suggested, limit)
  BY <1>4 DEF Agents!LimitPrice
<1>9. Agents!Decision(q, price, overCredit) = "acceptable"
  <2>1. PICK subtotal, gst : subtotal = Agents!Times(price, q.quantity) /\ gst = Agents!Round(subtotal * q.gst, 10000)
    OBVIOUS
  <2>2. PICK decision : decision = Agents!Decision(q, price, overCredit)
    OBVIOUS
  <2>3. PICK accepted : accepted = (decision = "acceptable")
    OBVIOUS
  <2>4. Agents!EvaluateCounteroffer(q, price, overCredit) =
          [price |-> price, decision |-> decision, auto |-> accepted, total |-> subtotal + gst]
    BY <2>1, <2>2, <2>3 DEF Agents!EvaluateCounteroffer
  <2>5. accepted
    BY <1>1, <2>4
  <2>6. QED BY <2>2, <2>3, <2>5
<1>10. \/ price >= q.price
       \/ ~(price < q.floor) /\ price >= Agents!LimitPrice(q)
  BY <1>9 DEF Agents!Decision
<1> QED BY <1>1, <1>4, <1>5, <1>7, <1>8, <1>10

-----------------------------------------------------------------------------
(* Purchase orders that repeat a quotation *)

\* Rounding moves a quotient by half at most.
LEMMA RoundIsNear ==
  ASSUME NEW a \in Int
  PROVE  /\ Agents!Round(a, 10000) \in Int
         /\ 10000 * Agents!Round(a, 10000) <= a + 5000
         /\ a <= 10000 * Agents!Round(a, 10000) + 5000
         /\ a >= 0 => Agents!Round(a, 10000) >= 0
BY DEF Agents!Round

LEMMA TimesIsNear ==
  ASSUME NEW a \in Nat, NEW n \in Nat
  PROVE  /\ Agents!Times(a, n) \in Nat
         /\ 1000 * Agents!Times(a, n) <= a * n + 500
         /\ a * n <= 1000 * Agents!Times(a, n) + 500
<1>1. PICK m : m = a * n
  OBVIOUS
<1>2. m \in Nat
  BY <1>1
<1>3. PICK r : r = Agents!Round(m, 1000)
  OBVIOUS
<1>4. r \in Nat /\ 1000 * r <= m + 500 /\ m <= 1000 * r + 500
  BY <1>2, <1>3 DEF Agents!Round
<1> QED BY <1>1, <1>3, <1>4 DEF Agents!Times

LEMMA ProductGrows ==
  ASSUME NEW a \in Nat, NEW b \in Nat, NEW n \in Nat, a <= b
  PROVE  a * n <= b * n /\ a * n \in Nat /\ b * n \in Nat
<1>1. PICK c \in Nat : b = a + c
  BY b - a \in Nat, b = a + (b - a)
<1>2. b * n = a * n + c * n
  BY <1>1
<1>3. c * n \in Nat /\ a * n \in Nat
  OBVIOUS
<1> QED BY <1>2, <1>3

\* What a price comes to with the tax, before anything is rounded: ten million
\* times a hundredth.
Exact(price, n, g) == 10000 * (price * n) + (price * g) * n

\* A tax of the unit that is off by half a hundredth at most, n times.
NearTax(p, n, g, u) ==
  /\ u \in Nat /\ u * n \in Nat /\ p * n \in Nat /\ (p * g) * n \in Nat
  /\ 10000 * (u * n) <= (p * g) * n + 5000 * n
  /\ (p * g) * n <= 10000 * (u * n) + 5000 * n

LEMMA UnitTaxIsNear ==
  ASSUME NEW p \in Nat, NEW n \in Nat, NEW g \in Nat, NEW u, u = Agents!Round(p * g, 10000)
  PROVE  NearTax(p, n, g, u)
<1>1. PICK a : a = p * g
  OBVIOUS
<1>2. a \in Nat
  BY <1>1
<1>3. u \in Nat /\ 10000 * u <= a + 5000 /\ a <= 10000 * u + 5000
  BY <1>1, <1>2, RoundIsNear
<1>4. (10000 * u) * n <= (a + 5000) * n /\ a * n <= (10000 * u + 5000) * n
  BY <1>2, <1>3, ProductGrows
<1>5. /\ (10000 * u) * n = 10000 * (u * n) /\ (a + 5000) * n = a * n + 5000 * n
      /\ (10000 * u + 5000) * n = 10000 * (u * n) + 5000 * n
  BY <1>2, <1>3
<1>6. u * n \in Nat /\ p * n \in Nat /\ a * n \in Nat
  BY <1>2, <1>3
<1> QED BY <1>1, <1>3, <1>4, <1>5, <1>6 DEF NearTax

\* The total of a quotation, with a sum of the prices and one of the taxes.
LEMMA TotalIsNear ==
  ASSUME NEW p \in Nat, NEW n \in Nat, NEW g \in Nat, NEW f, f = Agents!Totals(p, n, g).total
  PROVE  /\ f \in Nat /\ Exact(p, n, g) \in Nat
         /\ 1000 * (10000 * f) <= Exact(p, n, g) + 5000 * n + 1000 * 10000
         /\ Exact(p, n, g) <= 1000 * (10000 * f) + 5000 * n + 1000 * 10000
<1>1. PICK u, s, t : u = Agents!Round(p * g, 10000) /\ s = Agents!Times(p, n) /\ t = Agents!Times(u, n)
  OBVIOUS
<1>2. f = s + t
  BY <1>1 DEF Agents!Totals
<1>3. PICK m, w, e : m = p * n /\ w = u * n /\ e = (p * g) * n
  OBVIOUS
<1>4. /\ u \in Nat /\ w \in Nat /\ m \in Nat /\ e \in Nat
      /\ 10000 * w <= e + 5000 * n /\ e <= 10000 * w + 5000 * n
  <2>1. u = Agents!Round(p * g, 10000)
    BY <1>1
  <2>2. NearTax(p, n, g, u)
    BY <2>1, UnitTaxIsNear, SMT
  <2> QED BY <1>3, <2>2 DEF NearTax
<1>5. s \in Nat /\ 1000 * s <= m + 500 /\ m <= 1000 * s + 500
  BY <1>1, <1>3, TimesIsNear
<1>6. t \in Nat /\ 1000 * t <= w + 500 /\ w <= 1000 * t + 500
  BY <1>1, <1>3, <1>4, TimesIsNear
<1>7. Exact(p, n, g) = 10000 * m + e
  BY <1>3 DEF Exact
<1> QED BY <1>2, <1>4, <1>5, <1>6, <1>7

\* The total of a revised line, whose price has the tax of the unit in it.
LEMMA LineIsNear ==
  ASSUME NEW p \in Nat, NEW n \in Nat, NEW g \in Nat,
         NEW f, f = Agents!Times(p + Agents!Round(p * g, 10000), n)
  PROVE  /\ f \in Nat /\ Exact(p, n, g) \in Nat
         /\ 1000 * (10000 * f) <= Exact(p, n, g) + 5000 * n + 1000 * 5000
         /\ Exact(p, n, g) <= 1000 * (10000 * f) + 5000 * n + 1000 * 5000
<1>1. PICK u, v : u = Agents!Round(p * g, 10000) /\ v = p + u
  OBVIOUS
<1>2. PICK m, w, e : m = p * n /\ w = u * n /\ e = (p * g) * n
  OBVIOUS
<1>3. /\ u \in Nat /\ w \in Nat /\ m \in Nat /\ e \in Nat
      /\ 10000 * w <= e + 5000 * n /\ e <= 10000 * w + 5000 * n
  <2>1. u = Agents!Round(p * g, 10000)
    BY <1>1
  <2>2. NearTax(p, n, g, u)
    BY <2>1, UnitTaxIsNear, SMT
  <2> QED BY <1>2, <2>2 DEF NearTax
<1>4. v \in Nat /\ v * n = m + w
  BY <1>1, <1>2, <1>3
<1>5. f \in Nat /\ 1000 * f <= m + w + 500 /\ m + w <= 1000 * f + 500
  <2>1. f = Agents!Times(v, n)
    BY <1>1
  <2> QED BY <1>4, <2>1, TimesIsNear
<1>6. Exact(p, n, g) = 10000 * m + e
  BY <1>2 DEF Exact
<1> QED BY <1>3, <1>5, <1>6

\* The total of a revised quotation, with the tax on the sum.
LEMMA SumIsNear ==
  ASSUME NEW p \in Nat, NEW n \in Nat, NEW g \in Nat, NEW s, s = Agents!Times(p, n),
         NEW f, f = s + Agents!Round(s * g, 10000)
  PROVE  /\ f \in Nat /\ Exact(p, n, g) \in Nat
         /\ 1000 * (10000 * f) <= Exact(p, n, g) + 500 * g + 1000 * 10000
         /\ Exact(p, n, g) <= 1000 * (10000 * f) + 500 * g + 1000 * 10000
<1>1. PICK m : m = p * n
  OBVIOUS
<1>2. m \in Nat /\ s \in Nat /\ 1000 * s <= m + 500 /\ m <= 1000 * s + 500
  BY <1>1, TimesIsNear
<1>3. PICK a, tax, e : a = s * g /\ tax = Agents!Round(a, 10000) /\ e = m * g
  OBVIOUS
<1>4. a \in Nat /\ e \in Nat
  BY <1>2, <1>3
<1>5. tax \in Nat /\ 10000 * tax <= a + 5000 /\ a <= 10000 * tax + 5000
  BY <1>3, <1>4, RoundIsNear
<1>6. (1000 * s) * g <= (m + 500) * g /\ m * g <= (1000 * s + 500) * g
  BY <1>2, ProductGrows
<1>7. /\ (1000 * s) * g = 1000 * a /\ (m + 500) * g = e + 500 * g
      /\ (1000 * s + 500) * g = 1000 * a + 500 * g
  BY <1>2, <1>3
<1>8. Exact(p, n, g) = 10000 * m + e
  <2>1. (p * g) * n = (p * n) * g
    OBVIOUS
  <2> QED BY <1>1, <1>3, <2>1 DEF Exact
<1>9. f = s + tax
  BY <1>3
<1> QED BY <1>2, <1>3, <1>4, <1>5, <1>6, <1>7, <1>8, <1>9

\* Prices that differ by half a percent at most come to sums that do.
LEMMA ExactIsNear ==
  ASSUME NEW p \in Nat, NEW r \in Nat, NEW n \in Nat, NEW g \in Nat, 200 * Agents!Distance(r, p) <= p
  PROVE  /\ Exact(p, n, g) \in Nat /\ Exact(r, n, g) \in Nat
         /\ 200 * Exact(r, n, g) <= 201 * Exact(p, n, g)
         /\ 199 * Exact(p, n, g) <= 200 * Exact(r, n, g)
<1>1. 200 * r <= 201 * p /\ 199 * p <= 200 * r
  BY DEF Agents!Distance
<1>2. PICK k : k = 10000 * n + g * n
  OBVIOUS
<1>3. k \in Nat
  BY <1>2
<1>4. (200 * r) * k <= (201 * p) * k /\ (199 * p) * k <= (200 * r) * k
  BY <1>1, <1>3, ProductGrows
<1>5. PICK a, b : a = p * k /\ b = r * k
  OBVIOUS
<1>6. a \in Nat /\ b \in Nat
  BY <1>3, <1>5
<1>7. (200 * r) * k = 200 * b /\ (201 * p) * k = 201 * a /\ (199 * p) * k = 199 * a
  BY <1>3, <1>5
<1>8. Exact(p, n, g) = a /\ Exact(r, n, g) = b
  BY <1>2, <1>5 DEF Exact
<1> QED BY <1>4, <1>6, <1>7, <1>8

\* A deal of a unit or more at ten rupees or more comes to much more than is rounded.
LEMMA ExactIsLarge ==
  ASSUME NEW p \in Nat, NEW n \in Nat, NEW g \in Nat, p >= 1000, n >= 1000
  PROVE  Exact(p, n, g) >= 1000 * (10000 * n) + 1000 * (1000 * g)
<1>1. 1000 * n <= p * n /\ p * n \in Nat
  BY ProductGrows
<1>2. 1000 * g <= p * g /\ p * g \in Nat
  BY ProductGrows
<1>3. PICK a : a = p * g
  OBVIOUS
<1>4. 1000 * a <= n * a /\ n * a \in Nat
  BY <1>2, <1>3, ProductGrows
<1>5. (p * g) * n = n * a
  BY <1>2, <1>3
<1>6. Exact(p, n, g) = 10000 * (p * n) + n * a
  BY <1>5 DEF Exact
<1>7. PICK m, e : m = p * n /\ e = n * a
  OBVIOUS
<1>8. /\ m \in Nat /\ e \in Nat /\ a \in Nat /\ 1000 * n <= m /\ 1000 * g <= a /\ 1000 * a <= e
      /\ Exact(p, n, g) = 10000 * m + e
  BY <1>1, <1>2, <1>3, <1>4, <1>6, <1>7
<1> QED BY <1>8

\* So that the totals of two drafts, rounded in their ways, differ by less than a
\* percent.
LEMMA TotalsAreWithin ==
  ASSUME NEW p \in Nat, NEW r \in Nat, NEW n \in Nat, NEW g \in Nat, 200 * Agents!Distance(r, p) <= p,
         p >= 1000, n >= 1000,
         NEW f \in Nat, Exact(p, n, g) <= 1000 * (10000 * f) + 5000 * n + 1000 * 10000,
         1000 * (10000 * f) <= Exact(p, n, g) + 5000 * n + 1000 * 10000,
         NEW x \in Nat, Exact(r, n, g) <= 1000 * (10000 * x) + 5000 * n + 500 * g + 1000 * 10000,
         1000 * (10000 * x) <= Exact(r, n, g) + 5000 * n + 500 * g + 1000 * 10000
  PROVE  Agents!Within(x, f, 100)
<1>1. PICK a, b : a = Exact(p, n, g) /\ b = Exact(r, n, g)
  OBVIOUS
<1>2. a \in Nat /\ b \in Nat /\ 200 * b <= 201 * a /\ 199 * a <= 200 * b
  BY <1>1, ExactIsNear
<1>3. a >= 1000 * (10000 * n) + 1000 * (1000 * g)
  BY <1>1, ExactIsLarge
<1>4. /\ a <= 1000 * (10000 * f) + 5000 * n + 1000 * 10000 /\ 1000 * (10000 * f) <= a + 5000 * n + 1000 * 10000
      /\ b <= 1000 * (10000 * x) + 5000 * n + 500 * g + 1000 * 10000
      /\ 1000 * (10000 * x) <= b + 5000 * n + 500 * g + 1000 * 10000
  BY <1>1
<1>5. 100 * (x - f) <= f
  BY <1>2, <1>3, <1>4
<1>6. 100 * (f - x) <= f
  BY <1>2, <1>3, <1>4
<1>7. f > 0
  BY <1>2, <1>3, <1>4
<1>8. 10000 * Agents!Distance(x, f) <= 100 * f
  BY <1>5, <1>6 DEF Agents!Distance
<1> QED BY <1>7, <1>8 DEF Agents!Within

LEMMA SameIsWithin ==
  ASSUME NEW a \in Nat, NEW t \in Nat PROVE Agents!Within(a, a, t)
<1>1. Agents!Distance(a, a) = 0
  BY DEF Agents!Distance
<1>2. 10000 * Agents!Distance(a, a) <= t * a
  BY <1>1
<1> QED BY <1>2 DEF Agents!Within

\* A line that can be compared.
ItemType == [price : Nat \ {0}, quantity : Nat \ {0}, gst : Int, total : Nat]

\* An order that has the product, quantity and tax of the first line, and leaves
\* out the price and the total or has them near enough.
LEMMA RepeatedPasses ==
  ASSUME NEW draft, draft.items # << >>, draft.items[1] \in ItemType,
         NEW po, po.keywords = 2, po.quantity = draft.items[1].quantity,
         po.price = Unknown \/ Agents!Within(po.price, draft.items[1].price, 50),
         po.gst = draft.items[1].gst,
         po.terms = "same", po.conditions = FALSE, po.address \in BOOLEAN,
         po.total = Unknown \/ Agents!Within(po.total, draft.total, 100)
  PROVE  /\ Agents!ValidatePo(po, draft).proceed
         /\ po.address => Agents!ValidatePo(po, draft).verdict = "valid"
<1>1. PICK item : item = draft.items[1]
  OBVIOUS
<1>2. item.price \in Nat \ {0} /\ item.quantity \in Nat \ {0} /\ item.gst \in Int
  BY <1>1 DEF ItemType
<1>3. Agents!CompareProduct(po, draft) = {}
  BY DEF Agents!CompareProduct, Agents!Agreed
<1>4. Agents!CompareQuantity(po, draft) = {}
  BY <1>1, <1>2, SameIsWithin, ZenonT(60) DEF Agents!CompareQuantity, Agents!Agreed
<1>5. Agents!ComparePrice(po, draft) = {}
  BY DEF Agents!ComparePrice, Agents!Agreed
<1>6. Agents!CompareGst(po, draft) = {}
  <2>1. Agents!Distance(item.gst, item.gst) <= 10
    BY <1>2 DEF Agents!Distance
  <2> QED BY <1>1, <2>1 DEF Agents!CompareGst, Agents!Agreed
<1>7. Agents!ComparePaymentTerms(po) = {} /\ Agents!CheckConditions(po) = {}
      /\ Agents!CompareTotal(po, draft) = {}
  BY DEF Agents!ComparePaymentTerms, Agents!CheckConditions, Agents!CompareTotal, Agents!Agreed
<1>8. PICK found : found = Agents!Mismatches(po, draft)
  OBVIOUS
<1>9. found = Agents!CheckAddress(po)
  BY <1>3, <1>4, <1>5, <1>6, <1>7, <1>8 DEF Agents!Mismatches
<1>10. ~Agents!Incomparable(po, draft)
  BY <1>1, <1>2 DEF Agents!Incomparable
<1>11. /\ ~\E m \in found : m.severity = "critical"
       /\ po.address => found = {}
  BY <1>9 DEF Agents!CheckAddress, Agents!Agreed, Agents!Mismatch
<1>12. Agents!Verdict(found) # "critical_mismatch" /\ (po.address => Agents!Verdict(found) = "valid")
  BY <1>11 DEF Agents!Verdict
<1> QED BY <1>8, <1>10, <1>12 DEF Agents!ValidatePo

\* So does an order that repeats a draft near to the one compared with, and one
\* that leaves something out of it.
LEMMA RepeatingPasses ==
  ASSUME NEW draft, draft.items # << >>, draft.items[1] \in ItemType,
         NEW sent, sent.items # << >>, sent.items[1].quantity = draft.items[1].quantity,
         sent.items[1].gst = draft.items[1].gst,
         Agents!Within(sent.items[1].price, draft.items[1].price, 50),
         Agents!Within(sent.items[1].total, draft.total, 100),
         Agents!Within(sent.total, draft.total, 100),
         NEW po \in Agents!Repeating(sent)
  PROVE  /\ Agents!ValidatePo(po, draft).verdict = "valid"
         /\ \A p \in Agents!LeavingOut(po) : Agents!ValidatePo(p, draft).proceed
<1>1. PICK item, price : item = sent.items[1] /\ price = item.price
  OBVIOUS
<1>2. PICK total \in {item.total, sent.total} : po = Agents!Repeated(item, total)
  BY <1>1 DEF Agents!Repeating
<1>3. Agents!Within(total, draft.total, 100) /\ Agents!Within(price, draft.items[1].price, 50)
  BY <1>1, <1>2
<1>4. /\ po.keywords = 2 /\ po.quantity = item.quantity /\ po.price = price /\ po.gst = item.gst
      /\ po.terms = "same" /\ po.conditions = FALSE /\ po.address = TRUE /\ po.total = total
  BY <1>1, <1>2 DEF Agents!Repeated
<1>5. item.quantity = draft.items[1].quantity /\ item.gst = draft.items[1].gst
  BY <1>1
<1>6. Agents!ValidatePo(po, draft).verdict = "valid"
  BY <1>3, <1>4, <1>5, RepeatedPasses
<1>7. ASSUME NEW p \in Agents!LeavingOut(po) PROVE Agents!ValidatePo(p, draft).proceed
  <2>1. CASE p = [po EXCEPT !.price = Unknown, !.total = Unknown]
    <3>1. /\ p.keywords = 2 /\ p.quantity = item.quantity /\ p.price = Unknown /\ p.gst = item.gst
          /\ p.terms = "same" /\ p.conditions = FALSE /\ p.address = TRUE /\ p.total = Unknown
      BY <1>2, <2>1 DEF Agents!Repeated
    <3> QED BY <1>5, <3>1, RepeatedPasses
  <2>2. CASE p = [po EXCEPT !.address = FALSE]
    <3>1. /\ p.keywords = 2 /\ p.quantity = item.quantity /\ p.price = price /\ p.gst = item.gst
          /\ p.terms = "same" /\ p.conditions = FALSE /\ p.address = FALSE /\ p.total = total
      BY <1>1, <1>2, <2>2 DEF Agents!Repeated
    <3> QED BY <1>3, <1>5, <3>1, RepeatedPasses
  <2> QED BY <1>7, <2>1, <2>2 DEF Agents!LeavingOut
<1> QED BY <1>6, <1>7

\* An order whose price is off by more than half a percent is stopped.
LEMMA OtherPriceIsStopped ==
  ASSUME NEW draft, draft.items # << >>, draft.items[1] \in ItemType,
         NEW po, po.price \in Nat, 200 * Agents!Distance(po.price, draft.items[1].price) > draft.items[1].price
  PROVE  ~Agents!ValidatePo(po, draft).proceed
<1>1. PICK own, other : own = draft.items[1].price /\ other = po.price
  OBVIOUS
<1>2. own \in Nat \ {0} /\ other \in Nat /\ 200 * Agents!Distance(other, own) > own
  BY <1>1 DEF ItemType
<1>3. ~Agents!Within(other, own, 50)
  BY <1>2 DEF Agents!Within, Agents!Distance
<1>4. Agents!ComparePrice(po, draft) = {Agents!Critical("price")}
  BY <1>1, <1>2, <1>3, CasesAssumption DEF Agents!ComparePrice
<1>5. PICK found : found = Agents!Mismatches(po, draft)
  OBVIOUS
<1>6. Agents!Critical("price") \in found
  BY <1>4, <1>5 DEF Agents!Mismatches
<1>7. Agents!Critical("price").severity = "critical"
  BY DEF Agents!Critical, Agents!Mismatch
<1>8. Agents!Verdict(found) = "critical_mismatch"
  BY <1>6, <1>7 DEF Agents!Verdict
<1> QED BY <1>5, <1>8 DEF Agents!ValidatePo

LEMMA WholePositive == \A x \in Int : x > 0 => x \in Nat \ {0}
OBVIOUS

\* What a calculation hands on to the quotation.
LEMMA PricingIsTyped ==
  ASSUME NEW d \in PriceDocuments, NEW customer, NEW quantity,
         Agents!ComputePricing(d, customer, quantity).possible
  PROVE  LET q == Agents!ComputePricing(d, customer, quantity)
         IN  /\ q.price \in Int /\ q.quantity = quantity /\ q.gst = d.gst /\ d.gst \in Int
             /\ q.totals = Agents!Totals(q.price, quantity, d.gst)
<1>1. PICK q : q = Agents!ComputePricing(d, customer, quantity)
  OBVIOUS
<1>2. ~Agents!InputsMissing(d, customer, quantity)
  BY DEF Agents!ComputePricing, Agents!NoPrice
<1>3. PICK floor, suggested, band, offer :
         /\ floor = Agents!FloorPrice(d) /\ suggested = Agents!Greater(d.list, floor)
         /\ band = Agents!Band(d, customer, 1000 * Agents!Times(suggested, quantity))
         /\ offer = Agents!Discounted(band, suggested, floor)
  OBVIOUS
<1>4. /\ q.price = offer.price /\ q.quantity = quantity /\ q.gst = d.gst
      /\ q.totals = Agents!Totals(offer.price, quantity, d.gst)
  BY <1>1, <1>2, <1>3 DEF Agents!ComputePricing
<1>5. floor \in Int /\ suggested \in Int /\ suggested >= floor
  <2>1. floor \in Int /\ d.list \in Int
    BY <1>2, <1>3, FloorIsWhole DEF Agents!InputsMissing
  <2> QED BY <2>1, <1>3 DEF Agents!Greater
<1>6. band = Unknown \/ band \in BandType
  BY <1>3, BandIsOne
<1>7. offer.price \in Int
  BY <1>3, <1>5, <1>6, OfferIsTheLimit
<1>8. d.gst \in Int
  BY <1>2 DEF PriceDocuments, Agents!InputsMissing
<1> QED BY <1>1, <1>4, <1>7, <1>8

\* A purchase order that repeats the first quotation passes, before and after a
\* revision; one that repeats the revised quotation is stopped when the price is
\* another by more than half a percent, and passes otherwise.
OrdersPass(own, quantity, first, price, second) ==
  LET compared == Agents!ComparedWith(<<first, second>>)
      changed == 200 * Agents!Distance(price, own) > own
  IN  /\ \A po \in Agents!Repeating(first) :
            /\ Agents!ValidatePo(po, compared).verdict = "valid"
            /\ \A p \in Agents!LeavingOut(po) :
                  Agents!ValidatePo(p, Agents!ComparedWith(<<first>>)).proceed
      /\ \A po \in Agents!Repeating(second) :
            LET answer == Agents!ValidatePo(po, compared)
            IN  /\ changed => ~answer.proceed
                /\ ~changed /\ own >= 1000 /\ quantity >= 1000 => answer.verdict = "valid"

\* Whatever the price documents, the quantity, the fraction of a unit and the
\* rounding: an order that repeats the first quotation passes without a word; one
\* that repeats a revision of it is stopped when the price moved by more than half
\* a percent, and passes when it did not and the deal is of a unit or more at ten
\* rupees or more (build_quotation, build_revised_draft, validate_po).
THEOREM AgreedOrdersPass ==
  ASSUME NEW d \in PriceDocuments, d.gst \in Nat, NEW customer, NEW quantity \in Nat \ {0},
         NEW q, q = Agents!ComputePricing(d, customer, quantity), q.possible, q.price > 0,
         NEW review \in BOOLEAN, NEW price \in Nat, NEW overCredit \in BOOLEAN,
         NEW first, first = Agents!BuildQuotation(q, review),
         NEW second, second = Agents!Revised(first, Agents!EvaluateCounteroffer(q, price, overCredit))
  PROVE  OrdersPass(q.price, quantity, first, price, second)
<1>1. /\ q.price \in Nat \ {0} /\ q.quantity = quantity /\ q.gst = d.gst
      /\ q.totals = Agents!Totals(q.price, quantity, d.gst)
  BY PricingIsTyped, WholePositive
<1>2. PICK own, g : own = q.price /\ g = d.gst
  OBVIOUS
<1>3. own \in Nat \ {0} /\ g \in Nat /\ quantity \in Nat /\ quantity # 0
  BY <1>1, <1>2
<1>4. PICK f, line, sum :
         /\ f = Agents!Totals(own, quantity, g).total
         /\ line = Agents!Times(price + Agents!Round(price * g, 10000), quantity)
         /\ sum = Agents!Times(price, quantity) + Agents!Round(Agents!Times(price, quantity) * g, 10000)
  OBVIOUS
<1>5. PICK i1, i2 : /\ i1 = Agents!Item(own, quantity, g, f)
                    /\ i2 = Agents!Item(price, quantity, g, line)
  OBVIOUS
<1>6. q.totals.total = f
  BY <1>1, <1>2, <1>4
<1>7. first.items = <<i1>> /\ first.total = f
  BY <1>1, <1>2, <1>5, <1>6 DEF Agents!BuildQuotation
<1>8. second.items = <<i2>> /\ second.total = sum
  <2>1. PICK a : a = Agents!EvaluateCounteroffer(q, price, overCredit)
    OBVIOUS
  <2>2. a.price = price /\ a.total = sum
    BY <1>1, <1>2, <1>4, <2>1 DEF Agents!EvaluateCounteroffer
  <2>3. i1.quantity = quantity /\ i1.gst = g
    BY <1>5 DEF Agents!Item
  <2>4. DOMAIN first.items = {1} /\ first.items[1] = i1
    BY <1>7
  <2>5. second.items = [i \in {1} |-> i2] /\ second.total = a.total
    BY <1>4, <1>5, <2>1, <2>2, <2>3, <2>4 DEF Agents!Revised
  <2> QED BY <2>2, <2>5
<1>9. /\ i1.price = own /\ i1.quantity = quantity /\ i1.gst = g /\ i1.total = f
      /\ i2.price = price /\ i2.quantity = quantity /\ i2.gst = g /\ i2.total = line
  BY <1>5 DEF Agents!Item
<1>10. /\ f \in Nat /\ Exact(own, quantity, g) <= 1000 * (10000 * f) + 5000 * quantity + 1000 * 10000
       /\ 1000 * (10000 * f) <= Exact(own, quantity, g) + 5000 * quantity + 1000 * 10000
  BY <1>3, <1>4, TotalIsNear
<1>11. /\ line \in Nat /\ Exact(price, quantity, g) \in Nat
       /\ Exact(price, quantity, g) <= 1000 * (10000 * line) + 5000 * quantity + 1000 * 5000
       /\ 1000 * (10000 * line) <= Exact(price, quantity, g) + 5000 * quantity + 1000 * 5000
  BY <1>3, <1>4, LineIsNear
<1>12. /\ sum \in Nat
       /\ Exact(price, quantity, g) <= 1000 * (10000 * sum) + 500 * g + 1000 * 10000
       /\ 1000 * (10000 * sum) <= Exact(price, quantity, g) + 500 * g + 1000 * 10000
  BY <1>3, <1>4, SumIsNear
<1>13. PICK compared : compared = Agents!ComparedWith(<<first, second>>)
  OBVIOUS
<1>14. compared = first /\ Agents!ComparedWith(<<first>>) = first
  BY <1>13 DEF Agents!ComparedWith
<1>15. i1 \in ItemType
  BY <1>3, <1>5, <1>10 DEF Agents!Item, ItemType
<1>16. first.items # << >> /\ first.items[1] = i1 /\ second.items # << >> /\ second.items[1] = i2
  BY <1>7, <1>8
<1>17. ASSUME NEW po \in Agents!Repeating(first)
       PROVE  /\ Agents!ValidatePo(po, first).verdict = "valid"
              /\ \A p \in Agents!LeavingOut(po) : Agents!ValidatePo(p, first).proceed
  <2>1. Agents!Within(i1.price, i1.price, 50) /\ Agents!Within(f, f, 100)
    BY <1>3, <1>9, <1>10, SameIsWithin
  <2>2. Agents!Within(first.items[1].price, first.items[1].price, 50)
        /\ Agents!Within(first.items[1].total, first.total, 100) /\ Agents!Within(first.total, first.total, 100)
    BY <1>7, <1>9, <1>16, <2>1
  <2> QED BY <1>15, <1>16, <1>17, <2>2, RepeatingPasses
<1>18. ASSUME NEW po \in Agents!Repeating(second), 200 * Agents!Distance(price, own) > own
       PROVE  ~Agents!ValidatePo(po, first).proceed
  <2>1. po.price = price
    BY <1>9, <1>16, <1>18 DEF Agents!Repeating, Agents!Repeated
  <2>2. 200 * Agents!Distance(po.price, first.items[1].price) > first.items[1].price
    BY <1>9, <1>16, <1>18, <2>1
  <2> QED BY <1>15, <1>16, <2>1, <2>2, OtherPriceIsStopped
<1>19. ASSUME NEW po \in Agents!Repeating(second), ~(200 * Agents!Distance(price, own) > own),
              own >= 1000, quantity >= 1000
       PROVE  Agents!ValidatePo(po, first).verdict = "valid"
  <2>1. 200 * Agents!Distance(price, own) <= own
    BY <1>3, <1>19 DEF Agents!Distance
  <2>2. Agents!Within(price, own, 50)
    BY <1>3, <2>1 DEF Agents!Within, Agents!Distance
  <2>3. ASSUME NEW x \in Nat,
               Exact(price, quantity, g) <= 1000 * (10000 * x) + 5000 * quantity + 500 * g + 1000 * 10000,
               1000 * (10000 * x) <= Exact(price, quantity, g) + 5000 * quantity + 500 * g + 1000 * 10000
        PROVE  Agents!Within(x, f, 100)
    <3>1. own \in Nat /\ price \in Nat /\ quantity \in Nat /\ g \in Nat /\ f \in Nat
      BY <1>3, <1>10
    <3>2. own >= 1000 /\ quantity >= 1000
      BY <1>19
    <3> QED BY <1>10, <2>1, <2>3, <3>1, <3>2, TotalsAreWithin
  <2>4. Agents!Within(line, f, 100) /\ Agents!Within(sum, f, 100)
    <3>1. /\ Exact(price, quantity, g) <= 1000 * (10000 * line) + 5000 * quantity + 500 * g + 1000 * 10000
          /\ 1000 * (10000 * line) <= Exact(price, quantity, g) + 5000 * quantity + 500 * g + 1000 * 10000
      BY <1>3, <1>11
    <3>2. /\ Exact(price, quantity, g) <= 1000 * (10000 * sum) + 5000 * quantity + 500 * g + 1000 * 10000
          /\ 1000 * (10000 * sum) <= Exact(price, quantity, g) + 5000 * quantity + 500 * g + 1000 * 10000
      BY <1>3, <1>11, <1>12
    <3> QED BY <1>11, <1>12, <2>3, <3>1, <3>2
  <2>5. /\ second.items[1].quantity = first.items[1].quantity /\ second.items[1].gst = first.items[1].gst
        /\ Agents!Within(second.items[1].price, first.items[1].price, 50)
        /\ Agents!Within(second.items[1].total, first.total, 100) /\ Agents!Within(second.total, first.total, 100)
    BY <1>7, <1>8, <1>9, <1>16, <2>2, <2>4
  <2> QED BY <1>15, <1>16, <1>19, <2>5, RepeatingPasses
<1>20. \A po \in Agents!Repeating(first) :
          /\ Agents!ValidatePo(po, compared).verdict = "valid"
          /\ \A p \in Agents!LeavingOut(po) :
                Agents!ValidatePo(p, Agents!ComparedWith(<<first>>)).proceed
  BY <1>14, <1>17
<1>21. \A po \in Agents!Repeating(second) :
          LET answer == Agents!ValidatePo(po, compared)
          IN  /\ 200 * Agents!Distance(price, own) > own => ~answer.proceed
              /\ ~(200 * Agents!Distance(price, own) > own) /\ own >= 1000 /\ quantity >= 1000 =>
                    answer.verdict = "valid"
  BY <1>14, <1>18, <1>19
<1> QED BY <1>2, <1>13, <1>20, <1>21 DEF OrdersPass

-----------------------------------------------------------------------------
(* The answers to an inquiry *)

LEMMA DivGrows ==
  ASSUME NEW x \in Nat, NEW y \in Nat, NEW d \in Nat \ {0}, x <= y
  PROVE  x \div d <= y \div d /\ x \div d \in Nat /\ y \div d \in Nat
<1>1. PICK p, q : p = x \div d /\ q = y \div d
  OBVIOUS
<1>2. p \in Nat /\ q \in Nat /\ d * p <= x /\ y < d * q + d
  BY <1>1
<1>3. ASSUME q < p PROVE FALSE
  <2>1. (q + 1) * d <= p * d
    BY <1>2, <1>3, ProductGrows
  <2>2. (q + 1) * d = d * q + d /\ p * d = d * p
    BY <1>2
  <2> QED BY <1>2, <2>1, <2>2
<1> QED BY <1>1, <1>2, <1>3

LEMMA RoundGrows ==
  ASSUME NEW a \in Nat, NEW b \in Nat, NEW c \in Nat \ {0}, a <= b
  PROVE  /\ Agents!Round(a, c) <= Agents!Round(b, c)
         /\ Agents!Round(a, c) \in Nat /\ Agents!Round(b, c) \in Nat
BY DivGrows, 2 * a + c \in Nat, 2 * b + c \in Nat, 2 * c \in Nat \ {0} DEF Agents!Round

\* The same, or a customer who bought, paid or ordered better.
BetterCustomer(c, b) ==
  \/ b = c
  \/ /\ ~c.new /\ ~b.new /\ b.limit = c.limit /\ b.open = c.open
     /\ b.value >= c.value
     /\ Agents!BehaviorPoints[b.behavior] >= Agents!BehaviorPoints[c.behavior]
     /\ b.delay <= c.delay /\ b.outstanding <= c.outstanding
     /\ b.won >= c.won /\ b.won + b.lost = c.won + c.lost

ProfileType ==
  [new : BOOLEAN, value : Nat, behavior : Behaviors, delay : Int, limit : Nat, closed : Nat,
   winRate : Nat, utilization : Nat]

LEMMA ProfileIsTyped ==
  ASSUME NEW c \in CustomerType PROVE Agents!Profile(c) \in ProfileType
<1>1. /\ c.new \in BOOLEAN /\ c.value \in Nat /\ c.behavior \in Behaviors /\ c.delay \in Int
      /\ c.limit \in Nat /\ c.outstanding \in Nat /\ c.won \in Nat /\ c.lost \in Nat /\ c.open \in Nat
  BY DEF CustomerType
<1>2. PICK quoted : quoted = c.won + c.lost + c.open
  OBVIOUS
<1>3. PICK rate, used : /\ rate = IF quoted = 0 THEN 0 ELSE Agents!Round(1000 * c.won, quoted)
                        /\ used = IF c.limit > 0 THEN Agents!Round(1000 * c.outstanding, c.limit) ELSE 0
  OBVIOUS
<1>4. rate \in Nat
  <2>1. CASE quoted # 0
    <3>1. 1000 * c.won \in Nat /\ quoted \in Nat \ {0}
      BY <1>1, <1>2, <2>1
    <3> QED BY <1>3, <2>1, <3>1, RoundGrows
  <2> QED BY <1>3, <2>1
<1>5. used \in Nat
  <2>1. CASE c.limit > 0
    BY <1>1, <1>3, <2>1, RoundGrows, 1000 * c.outstanding \in Nat, c.limit \in Nat \ {0}
  <2>2. CASE ~(c.limit > 0)
    BY <1>3, <2>2
  <2> QED BY <2>1, <2>2
<1>6. Agents!Profile(c) = [new |-> c.new, value |-> c.value, behavior |-> c.behavior, delay |-> c.delay,
         limit |-> c.limit, closed |-> c.won + c.lost, winRate |-> rate, utilization |-> used]
  BY <1>2, <1>3 DEF Agents!Profile
<1> QED BY <1>1, <1>4, <1>5, <1>6 DEF ProfileType

\* A profile that is better in every respect.
BetterProfile(p, r) ==
  /\ ~p.new /\ ~r.new /\ r.limit = p.limit /\ r.closed = p.closed
  /\ r.value >= p.value /\ r.delay <= p.delay
  /\ Agents!BehaviorPoints[r.behavior] >= Agents!BehaviorPoints[p.behavior]
  /\ r.winRate >= p.winRate /\ r.utilization <= p.utilization

LEMMA BetterProfiles ==
  ASSUME NEW c \in CustomerType, NEW b \in CustomerType, BetterCustomer(c, b), b # c
  PROVE  BetterProfile(Agents!Profile(c), Agents!Profile(b))
<1>1. /\ c.value \in Nat /\ c.limit \in Nat /\ c.outstanding \in Nat /\ c.won \in Nat
      /\ c.lost \in Nat /\ c.open \in Nat /\ b.outstanding \in Nat /\ b.won \in Nat /\ b.lost \in Nat
  BY DEF CustomerType
<1>2. /\ ~c.new /\ ~b.new /\ b.limit = c.limit /\ b.open = c.open /\ b.value >= c.value
      /\ Agents!BehaviorPoints[b.behavior] >= Agents!BehaviorPoints[c.behavior]
      /\ b.delay <= c.delay /\ b.outstanding <= c.outstanding
      /\ b.won >= c.won /\ b.won + b.lost = c.won + c.lost
  BY DEF BetterCustomer
<1>3. PICK quoted : quoted = c.won + c.lost + c.open
  OBVIOUS
<1>4. quoted \in Nat /\ b.won + b.lost + b.open = quoted
  BY <1>1, <1>2, <1>3
<1>5. quoted # 0 => Agents!Round(1000 * b.won, quoted) >= Agents!Round(1000 * c.won, quoted)
  <2>1. HAVE quoted # 0
  <2>2. 1000 * c.won \in Nat /\ 1000 * b.won \in Nat /\ 1000 * c.won <= 1000 * b.won
    BY <1>1, <1>2
  <2> QED BY <1>4, <2>1, <2>2, RoundGrows
<1>6. c.limit > 0 => Agents!Round(1000 * b.outstanding, c.limit) <= Agents!Round(1000 * c.outstanding, c.limit)
  <2>1. HAVE c.limit > 0
  <2>2. 1000 * c.outstanding \in Nat /\ 1000 * b.outstanding \in Nat
        /\ 1000 * b.outstanding <= 1000 * c.outstanding /\ c.limit \in Nat \ {0}
    BY <1>1, <1>2, <2>1
  <2> QED BY <2>2, RoundGrows
<1>7. PICK p, r : p = Agents!Profile(c) /\ r = Agents!Profile(b)
  OBVIOUS
<1>8. /\ ~p.new /\ ~r.new /\ r.limit = p.limit /\ r.value >= p.value /\ r.delay <= p.delay
      /\ Agents!BehaviorPoints[r.behavior] >= Agents!BehaviorPoints[p.behavior]
  BY <1>2, <1>7 DEF Agents!Profile
<1>9. r.closed = p.closed
  BY <1>2, <1>7 DEF Agents!Profile
<1>10. r.winRate >= p.winRate
  BY <1>3, <1>4, <1>5, <1>7 DEF Agents!Profile
<1>11. r.utilization <= p.utilization
  BY <1>2, <1>6, <1>7 DEF Agents!Profile
<1> QED BY <1>7, <1>8, <1>9, <1>10, <1>11 DEF BetterProfile

CreditPoints(limit, utilization) ==
  IF limit = 0 THEN 10 ELSE IF utilization <= 300 THEN 20
  ELSE IF utilization <= 600 THEN 14 ELSE IF utilization <= 850 THEN 6 ELSE 0

LEMMA CreditHealthIs ==
  ASSUME NEW p, NEW limit \in Nat, NEW used \in Nat, ~p.new, p.limit = limit, p.utilization = used
  PROVE  Agents!CreditHealth(p) = CreditPoints(limit, used)
BY SMTT(60) DEF Agents!CreditHealth, CreditPoints

WinPoints(closed, rate) ==
  IF closed = 0 THEN 8 ELSE IF rate >= 700 THEN 15 ELSE IF rate >= 400 THEN 10 ELSE 4

LEMMA WinRateIs ==
  ASSUME NEW p, NEW closed \in Nat, NEW rate \in Nat, ~p.new, p.closed = closed, p.winRate = rate
  PROVE  Agents!WinRate(p) = WinPoints(closed, rate)
BY SMTT(60) DEF Agents!WinRate, WinPoints

LEMMA ScoreGrows ==
  ASSUME NEW p \in ProfileType, NEW r \in ProfileType, BetterProfile(p, r)
  PROVE  Agents!Score(p) \in Nat /\ Agents!Score(r) \in Nat /\ Agents!Score(r) >= Agents!Score(p)
<1>1. /\ p.value \in Nat /\ r.value \in Nat /\ p.delay \in Int /\ r.delay \in Int
      /\ p.winRate \in Nat /\ r.winRate \in Nat /\ p.utilization \in Nat /\ r.utilization \in Nat
      /\ p.limit \in Nat /\ p.closed \in Nat /\ p.behavior \in Behaviors /\ r.behavior \in Behaviors
  BY DEF ProfileType
<1>2. /\ ~p.new /\ ~r.new /\ r.limit = p.limit /\ r.closed = p.closed
      /\ r.value >= p.value /\ r.delay <= p.delay
      /\ Agents!BehaviorPoints[r.behavior] >= Agents!BehaviorPoints[p.behavior]
      /\ r.winRate >= p.winRate /\ r.utilization <= p.utilization
  BY DEF BetterProfile
<1>3. /\ Agents!OrderHistory(p) \in Nat /\ Agents!OrderHistory(r) \in Nat
      /\ Agents!OrderHistory(p) <= Agents!OrderHistory(r)
  BY <1>1, <1>2 DEF Agents!OrderHistory
<1>4. Agents!BehaviorPoints[p.behavior] \in Nat /\ Agents!BehaviorPoints[r.behavior] \in Nat
  BY <1>1 DEF Behaviors, Agents!BehaviorPoints
<1>5. /\ Agents!Payment(p) \in Nat /\ Agents!Payment(r) \in Nat /\ Agents!Payment(p) <= Agents!Payment(r)
  <2>1. PICK a, b : a = Agents!BehaviorPoints[p.behavior] /\ b = Agents!BehaviorPoints[r.behavior]
    OBVIOUS
  <2>2. Agents!Payment(p) = IF p.delay > 30 THEN Agents!Greater(0, a - 10)
                            ELSE IF p.delay > 15 THEN Agents!Greater(0, a - 5) ELSE a
    BY <1>1, <1>2, <2>1 DEF Agents!Payment
  <2>3. Agents!Payment(r) = IF r.delay > 30 THEN Agents!Greater(0, b - 10)
                            ELSE IF r.delay > 15 THEN Agents!Greater(0, b - 5) ELSE b
    BY <1>1, <1>2, <2>1 DEF Agents!Payment
  <2>4. a \in Nat /\ b \in Nat /\ a <= b
    BY <1>2, <1>4, <2>1
  <2> QED BY <1>1, <1>2, <2>2, <2>3, <2>4 DEF Agents!Greater
<1>6. /\ Agents!CreditHealth(p) \in Nat /\ Agents!CreditHealth(r) \in Nat
      /\ Agents!CreditHealth(p) <= Agents!CreditHealth(r)
  <2>1. /\ Agents!CreditHealth(p) = CreditPoints(p.limit, p.utilization)
        /\ Agents!CreditHealth(r) = CreditPoints(p.limit, r.utilization)
    BY <1>1, <1>2, CreditHealthIs
  <2> QED BY <1>1, <1>2, <2>1 DEF CreditPoints
<1>7. /\ Agents!WinRate(p) \in Nat /\ Agents!WinRate(r) \in Nat /\ Agents!WinRate(p) <= Agents!WinRate(r)
  <2>1. /\ Agents!WinRate(p) = WinPoints(p.closed, p.winRate)
        /\ Agents!WinRate(r) = WinPoints(p.closed, r.winRate)
    BY <1>1, <1>2, WinRateIs
  <2> QED BY <1>1, <1>2, <2>1 DEF WinPoints
<1>8. Agents!Recency(p) = 5 /\ Agents!Recency(r) = 5
  BY <1>2 DEF Agents!Recency
<1> QED BY <1>3, <1>5, <1>6, <1>7, <1>8 DEF Agents!Score

\* A better customer gets no lower score or priority, and raises no question of
\* credit that the other did not (build_profile, qualify_lead).
LEMMA BetterQualifies ==
  ASSUME NEW c \in CustomerType, NEW b \in CustomerType, BetterCustomer(c, b)
  PROVE  LET before == Agents!Qualify(Agents!Profile(c))
             after == Agents!Qualify(Agents!Profile(b))
         IN  /\ after.score >= before.score
             /\ before.priority = "P1" => after.priority = "P1"
             /\ Rank[after.priority] <= Rank[before.priority]
             /\ after.review => before.review
<1>1. PICK p, r : p = Agents!Profile(c) /\ r = Agents!Profile(b)
  OBVIOUS
<1>2. p \in ProfileType /\ r \in ProfileType
  BY <1>1, ProfileIsTyped
<1>3. CASE b = c
  <2>1. Agents!Score(p) \in Int
    <3>1. /\ Agents!OrderHistory(p) \in Int /\ Agents!CreditHealth(p) \in Int
          /\ Agents!WinRate(p) \in Int /\ Agents!Recency(p) \in Int
      BY DEF Agents!OrderHistory, Agents!CreditHealth, Agents!WinRate, Agents!Recency
    <3>2. Agents!BehaviorPoints[p.behavior] \in Nat
      BY <1>2 DEF ProfileType, Behaviors, Agents!BehaviorPoints
    <3>3. Agents!Payment(p) \in Int
      BY <3>2 DEF Agents!Payment, Agents!Greater
    <3> QED BY <3>1, <3>3 DEF Agents!Score
  <2>2. Agents!Qualify(p).priority \in {"P1", "P2", "P3"}
    BY DEF Agents!Qualify, Agents!Priority
  <2>3. Agents!Qualify(p).score \in Int
    BY <2>1 DEF Agents!Qualify
  <2> QED BY <1>1, <1>3, <2>2, <2>3 DEF Rank
<1>4. CASE b # c
  <2>1. BetterProfile(p, r)
    BY <1>1, <1>4, BetterProfiles
  <2>2. PICK s, t : s = Agents!Score(p) /\ t = Agents!Score(r)
    OBVIOUS
  <2>3. s \in Nat /\ t \in Nat /\ s <= t
    BY <1>2, <2>1, <2>2, ScoreGrows
  <2>4. /\ ~p.new /\ ~r.new /\ r.limit = p.limit /\ r.value >= p.value
        /\ r.utilization <= p.utilization
        /\ p.value \in Nat /\ r.value \in Nat /\ p.limit \in Nat
        /\ p.utilization \in Nat /\ r.utilization \in Nat
    BY <1>2, <2>1 DEF BetterProfile, ProfileType
  <2>5. Agents!CreditRisk(r) => Agents!CreditRisk(p)
    BY <2>4 DEF Agents!CreditRisk
  <2>6. Agents!Priority(Agents!Temperature(s), p) =
           IF s >= 70 \/ (s >= 40 /\ p.value >= 100) THEN "P1" ELSE IF s >= 40 THEN "P2" ELSE "P3"
    BY <2>3, <2>4 DEF Agents!Priority, Agents!Temperature
  <2>7. Agents!Priority(Agents!Temperature(t), r) =
           IF t >= 70 \/ (t >= 40 /\ r.value >= 100) THEN "P1" ELSE IF t >= 40 THEN "P2" ELSE "P3"
    BY <2>3, <2>4 DEF Agents!Priority, Agents!Temperature
  <2>8. PICK v, w : /\ v = Agents!Priority(Agents!Temperature(s), p)
                    /\ w = Agents!Priority(Agents!Temperature(t), r)
    OBVIOUS
  <2>9. /\ v = "P1" => w = "P1"
        /\ v = "P2" => w \in {"P1", "P2"}
        /\ v \in {"P1", "P2", "P3"} /\ w \in {"P1", "P2", "P3"}
    BY <2>3, <2>4, <2>6, <2>7, <2>8
  <2>10. Rank[w] <= Rank[v]
    BY <2>9 DEF Rank
  <2>11. /\ Agents!Qualify(p).score = s /\ Agents!Qualify(p).priority = v
         /\ Agents!Qualify(r).score = t /\ Agents!Qualify(r).priority = w
         /\ Agents!Qualify(p).review = Agents!CreditRisk(p)
         /\ Agents!Qualify(r).review = Agents!CreditRisk(r)
    BY <2>2, <2>8 DEF Agents!Qualify
  <2> QED BY <1>1, <2>3, <2>5, <2>9, <2>10, <2>11
<1> QED BY <1>3, <1>4

\* The same inquiry from a better customer, for a product that the catalog lists
\* or has under the code in the request, with more in stock, or later.
Easier(i, j) ==
  /\ BetterCustomer(i.customer, j.customer)
  /\ j.search.coded \/ j.search \in {i.search, [i.search EXCEPT !.listed = TRUE]}
  /\ j.quantity = i.quantity /\ j.capacity = i.capacity /\ j.place = i.place
  /\ IF i.available = Unknown THEN j.available = Unknown
     ELSE j.available # Unknown /\ j.available >= i.available
  /\ j.required = Unknown \/ (i.required # Unknown /\ j.required >= i.required)

\* A better match is one that no human need see where none did.
LEMMA BetterMatches ==
  ASSUME NEW s \in SearchType, NEW t \in SearchType, t.coded \/ t \in {s, [s EXCEPT !.listed = TRUE]}
  PROVE  LET before == Agents!MatchRequirement(s)
             after == Agents!MatchRequirement(t)
         IN  /\ after.review => before.review
             /\ ~before.review /\ before.product => after.product
             /\ ~before.review /\ before.type # "custom" => after.type # "custom"
<1>1. CASE t.coded
  BY <1>1 DEF Agents!MatchRequirement
<1>2. CASE ~t.coded /\ t = s
  BY <1>2
<1>3. CASE ~t.coded /\ t = [s EXCEPT !.listed = TRUE]
  <2>1. /\ t.listed = TRUE /\ t.coded = s.coded /\ t.chunks = s.chunks /\ t.answer = s.answer
        /\ t.documents = s.documents
    BY <1>3 DEF SearchType
  <2>2. Agents!Semantic(t) = Agents!Semantic(s)
    BY <2>1 DEF Agents!Semantic, Agents!MatchNeedsReview
  <2>3. Agents!MatchRequirement(t) = Agents!Semantic(s)
    BY <1>3, <2>1, <2>2 DEF Agents!MatchRequirement
  <2>4. Agents!MatchRequirement(s) = Agents!Semantic(s) \/ Agents!MatchRequirement(s).review = TRUE
    BY <1>3, <2>1 DEF Agents!MatchRequirement, Agents!Unmatched
  <2> QED BY <2>3, <2>4
<1> QED BY <1>1, <1>2, <1>3

\* What the stock says of a product that is in the catalog.
Status(n, available) ==
  IF available = 0 THEN "out_of_stock" ELSE IF available >= n THEN "sufficient" ELSE "partial"

LEMMA InventoryIs ==
  ASSUME NEW m, NEW quantity, NEW available
  PROVE  Agents!CheckInventory(m, quantity, available).status =
           IF ~m.product \/ available = Unknown THEN "not_in_catalog"
           ELSE Status(Agents!ParsedQuantity(quantity), available)
BY DEF Agents!CheckInventory, Agents!NotInCatalog, Status

\* With more in stock, production takes no longer, and what could be delivered can be.
LEMMA MoreIsFaster ==
  ASSUME NEW n \in Nat, NEW a \in Nat, NEW b \in Nat, a <= b,
         NEW capacity \in CapacityType \cup {Unknown},
         NEW s, NEW t, s.status = Status(n, a), t.status = Status(n, b),
         Agents!Fulfillment(s, capacity) # "cannot_fulfill"
  PROVE  LET f == Agents!Fulfillment(s, capacity)
             g == Agents!Fulfillment(t, capacity)
         IN  /\ g # "cannot_fulfill"
             /\ Agents!ProductionDays(f, capacity) \in Nat /\ Agents!ProductionDays(g, capacity) \in Nat
             /\ Agents!ProductionDays(g, capacity) <= Agents!ProductionDays(f, capacity)
<1>1. PICK f, g : f = Agents!Fulfillment(s, capacity) /\ g = Agents!Fulfillment(t, capacity)
  OBVIOUS
<1>2. capacity # Unknown => capacity.lead \in Nat
  BY DEF CapacityType
<1>3. CASE s.status = "sufficient"
  <2>1. t.status = "sufficient"
    BY <1>3 DEF Status
  <2>2. f = "from_stock" /\ g = "from_stock"
    BY <1>1, <1>3, <2>1 DEF Agents!Fulfillment
  <2> QED BY <1>1, <2>2 DEF Agents!ProductionDays
<1>4. CASE s.status = "partial"
  <2>1. t.status \in {"sufficient", "partial"}
    BY <1>4 DEF Status
  <2>2. f = "partial_stock" /\ g \in {"from_stock", "partial_stock"}
    BY <1>1, <1>4, <2>1 DEF Agents!Fulfillment
  <2> QED BY <1>1, <1>2, <2>2 DEF Agents!ProductionDays
<1>5. CASE s.status = "out_of_stock"
  <2>1. t.status \in {"sufficient", "partial", "out_of_stock"}
    BY DEF Status
  <2>2. /\ f = "from_production" /\ capacity # Unknown
        /\ g \in {"from_stock", "partial_stock", "from_production"}
    BY <1>1, <1>5, <2>1 DEF Agents!Fulfillment
  <2> QED BY <1>1, <1>2, <2>2 DEF Agents!ProductionDays
<1> QED BY <1>3, <1>4, <1>5 DEF Status

LEMMA HighRisk ==
  ASSUME NEW f, NEW production, NEW capacity, NEW stock, NEW days, NEW required, NEW located, NEW type
  PROVE  "high" \in Agents!Risk(f, production, capacity, stock, days, required, located, type)
           <=> \/ f = "cannot_fulfill"
               \/ required \notin {Unknown, 0} /\ days > required
               \/ type = "custom" /\ f # "cannot_fulfill"
<1>1. PICK high, medium, low :
        /\ high = IF \/ f = "cannot_fulfill" \/ (required \notin {Unknown, 0} /\ days > required)
                      \/ (type = "custom" /\ f # "cannot_fulfill") THEN {"high"} ELSE {}
        /\ medium \in SUBSET {"medium"} /\ low \in SUBSET {"low"}
        /\ Agents!Risk(f, production, capacity, stock, days, required, located, type) = high \cup medium \cup low
  BY DEF Agents!Risk
<1> QED BY <1>1

\* What a promise without a question to a human says.
LEMMA PromiseIs ==
  ASSUME NEW m, NEW q, NEW stock, NEW capacity, NEW place, NEW required
  PROVE  LET f == Agents!Fulfillment(stock, capacity)
             days == Agents!ProductionDays(f, capacity) + Agents!TransitDays(place, q.priority)
             promise == Agents!CheckFeasibility(m, q, stock, capacity, place, required)
         IN  /\ promise.days = days
             /\ promise.review <=> \/ f = "cannot_fulfill" \/ m.type = "custom"
                                   \/ required \notin {Unknown, 0} /\ days > required
<1>1. PICK f, days, risks, promise :
         /\ f = Agents!Fulfillment(stock, capacity)
         /\ days = Agents!ProductionDays(f, capacity) + Agents!TransitDays(place, q.priority)
         /\ risks = Agents!Risk(f, stock.shortage, capacity, stock, days, required, place # Unknown, m.type)
         /\ promise = Agents!CheckFeasibility(m, q, stock, capacity, place, required)
  OBVIOUS
<1>2. promise.days = days /\ promise.review = Agents!FeasibilityNeedsReview(risks, f, m.type)
  BY <1>1 DEF Agents!CheckFeasibility
<1>3. "high" \in risks
        <=> \/ f = "cannot_fulfill"
            \/ required \notin {Unknown, 0} /\ days > required
            \/ m.type = "custom" /\ f # "cannot_fulfill"
  <2>1. PICK located, shortage, type : located = (place # Unknown) /\ shortage = stock.shortage /\ type = m.type
    OBVIOUS
  <2>2. risks = Agents!Risk(f, shortage, capacity, stock, days, required, located, type)
    BY <1>1, <2>1, Zenon
  <2>3. "high" \in risks
          <=> \/ f = "cannot_fulfill"
              \/ required \notin {Unknown, 0} /\ days > required
              \/ type = "custom" /\ f # "cannot_fulfill"
    BY <2>2, HighRisk
  <2> QED BY <2>1, <2>3
<1>4. promise.review <=> \/ f = "cannot_fulfill" \/ m.type = "custom"
                         \/ required \notin {Unknown, 0} /\ days > required
  BY <1>2, <1>3 DEF Agents!FeasibilityNeedsReview
<1> QED BY <1>1, <1>2, <1>4

\* Better is never worse: for any inquiry, one that is easier in any respects gets
\* no lower score or priority, and when no agent had asked a human, none does
\* now and the promise is no later (build_profile, qualify_lead,
\* match_requirement, check_inventory, check_feasibility).
THEOREM BetterNeverWorse ==
  ASSUME NEW i \in InquiryType, NEW j \in InquiryType, Easier(i, j)
  PROVE  LET before == Agents!Answer(i)
             after == Agents!Answer(j)
         IN  /\ after.score >= before.score
             /\ Rank[after.priority] <= Rank[before.priority]
             /\ after.review => before.review
             /\ ~before.review => after.days <= before.days
<1>1. PICK q1, q2, m1, m2, s1, s2, p1, p2 :
         /\ q1 = Agents!Qualify(Agents!Profile(i.customer))
         /\ q2 = Agents!Qualify(Agents!Profile(j.customer))
         /\ m1 = Agents!MatchRequirement(i.search) /\ m2 = Agents!MatchRequirement(j.search)
         /\ s1 = Agents!CheckInventory(m1, i.quantity, i.available)
         /\ s2 = Agents!CheckInventory(m2, j.quantity, j.available)
         /\ p1 = Agents!CheckFeasibility(m1, q1, s1, i.capacity, i.place, i.required)
         /\ p2 = Agents!CheckFeasibility(m2, q2, s2, j.capacity, j.place, j.required)
  OBVIOUS
<1>2. PICK before, after : before = Agents!Answer(i) /\ after = Agents!Answer(j)
  OBVIOUS
<1>3. /\ before.score = q1.score /\ before.priority = q1.priority /\ before.days = p1.days
      /\ before.review = (q1.review \/ m1.review \/ p1.review)
      /\ after.score = q2.score /\ after.priority = q2.priority /\ after.days = p2.days
      /\ after.review = (q2.review \/ m2.review \/ p2.review)
  BY <1>1, <1>2 DEF Agents!Answer
<1>4. /\ q2.score >= q1.score /\ Rank[q2.priority] <= Rank[q1.priority]
      /\ (q1.priority = "P1" => q2.priority = "P1") /\ (q2.review => q1.review)
  BY <1>1, BetterQualifies DEF InquiryType, Easier
<1>5. ASSUME ~before.review PROVE ~after.review /\ after.days <= before.days
  <2>1. ~q1.review /\ ~m1.review /\ ~p1.review /\ ~q2.review
    BY <1>3, <1>4, <1>5
  <2>2. PICK capacity, place, n : capacity = i.capacity /\ place = i.place /\ n = Agents!ParsedQuantity(i.quantity)
    OBVIOUS
  <2>3. /\ capacity \in CapacityType \cup {Unknown} /\ n \in Nat /\ place \in Nat \cup {Unknown}
        /\ j.capacity = capacity /\ j.place = place /\ Agents!ParsedQuantity(j.quantity) = n
    BY <2>2 DEF InquiryType, Easier, Agents!ParsedQuantity
  <2>4. PICK f, g, d1, d2 :
          /\ f = Agents!Fulfillment(s1, capacity) /\ g = Agents!Fulfillment(s2, capacity)
          /\ d1 = Agents!ProductionDays(f, capacity) + Agents!TransitDays(place, q1.priority)
          /\ d2 = Agents!ProductionDays(g, capacity) + Agents!TransitDays(place, q2.priority)
    OBVIOUS
  <2>5. /\ p1.days = d1 /\ f # "cannot_fulfill" /\ m1.type # "custom"
        /\ ~(i.required \notin {Unknown, 0} /\ d1 > i.required)
    BY <1>1, <2>1, <2>2, <2>4, PromiseIs
  <2>6. s1.status # "not_in_catalog"
    BY <2>4, <2>5 DEF Agents!Fulfillment
  <2>7. m1.product /\ i.available # Unknown /\ s1.status = Status(n, i.available)
    BY <1>1, <2>2, <2>6, InventoryIs
  <2>8. ~m2.review /\ m2.product /\ m2.type # "custom"
    BY <1>1, <2>1, <2>5, <2>7, BetterMatches DEF InquiryType, Easier
  <2>9. /\ i.available \in Nat /\ j.available \in Nat /\ j.available # Unknown
        /\ i.available <= j.available
    BY <2>7 DEF InquiryType, Easier
  <2>10. s2.status = Status(n, j.available)
    BY <1>1, <2>3, <2>8, <2>9, InventoryIs
  <2>11. /\ g # "cannot_fulfill"
         /\ Agents!ProductionDays(f, capacity) \in Nat /\ Agents!ProductionDays(g, capacity) \in Nat
         /\ Agents!ProductionDays(g, capacity) <= Agents!ProductionDays(f, capacity)
    BY <2>3, <2>4, <2>5, <2>7, <2>9, <2>10, MoreIsFaster
  <2>12. /\ Agents!TransitDays(place, q1.priority) \in Nat /\ Agents!TransitDays(place, q2.priority) \in Nat
         /\ Agents!TransitDays(place, q2.priority) <= Agents!TransitDays(place, q1.priority)
    BY <1>4, <2>3 DEF Agents!TransitDays
  <2>13. d1 \in Nat /\ d2 \in Nat /\ d2 <= d1
    BY <2>4, <2>11, <2>12
  <2>14. ~(j.required \notin {Unknown, 0} /\ d2 > j.required)
    BY <2>5, <2>13 DEF InquiryType, Easier
  <2>15. p2.days = d2 /\ ~p2.review
    BY <1>1, <2>3, <2>4, <2>8, <2>11, <2>14, PromiseIs
  <2> QED BY <1>3, <2>1, <2>5, <2>8, <2>13, <2>15
<1> QED BY <1>2, <1>3, <1>4, <1>5

-----------------------------------------------------------------------------
(* The cases                                                                  *)

(* A customer who is better in one respect is better.                         *)
LEMMA BetterCustomersAre ==
  ASSUME NEW c \in CustomerType, NEW b \in BetterCustomers(c)
  PROVE  b \in CustomerType /\ BetterCustomer(c, b)
<1>1. /\ ~ c.new /\ c.new \in BOOLEAN /\ c.value \in Nat /\ c.behavior \in Behaviors /\ c.delay \in Int
      /\ c.limit \in Nat /\ c.outstanding \in Nat /\ c.won \in Nat /\ c.lost \in Nat /\ c.open \in Nat
  BY DEF BetterCustomers, CustomerType
<1>2. Agents!BehaviorPoints[c.behavior] \in Int
  BY <1>1 DEF Agents!BehaviorPoints, Behaviors
<1>3. ASSUME NEW v \in Values, v > c.value, b = [c EXCEPT !.value = v] PROVE b \in CustomerType /\ BetterCustomer(c, b)
  BY <1>1, <1>2, <1>3, CasesAssumption DEF CustomerType, BetterCustomer
<1>4. ASSUME NEW p \in BetterBehavior[c.behavior], b = [c EXCEPT !.behavior = p]
      PROVE  b \in CustomerType /\ BetterCustomer(c, b)
  <2>1. p \in Behaviors /\ Agents!BehaviorPoints[p] >= Agents!BehaviorPoints[c.behavior]
    BY <1>1, <1>4 DEF BetterBehavior, Behaviors, Agents!BehaviorPoints
  <2>2. QED BY <1>1, <1>4, <2>1 DEF CustomerType, BetterCustomer
<1>5. ASSUME NEW d \in Delays, d < c.delay, b = [c EXCEPT !.delay = d] PROVE b \in CustomerType /\ BetterCustomer(c, b)
  BY <1>1, <1>2, <1>5, CasesAssumption DEF CustomerType, BetterCustomer
<1>6. ASSUME NEW u \in Used, u < c.outstanding, b = [c EXCEPT !.outstanding = u]
      PROVE  b \in CustomerType /\ BetterCustomer(c, b)
  BY <1>1, <1>2, <1>6, CasesAssumption DEF CustomerType, BetterCustomer
<1>7. ASSUME c.lost > 0, b = [c EXCEPT !.won = @ + 1, !.lost = @ - 1] PROVE b \in CustomerType /\ BetterCustomer(c, b)
  <2>1. PICK w, l : w = c.won + 1 /\ l = c.lost - 1
    OBVIOUS
  <2>2. w \in Nat /\ l \in Nat /\ w >= c.won /\ w + l = c.won + c.lost /\ b = [c EXCEPT !.won = w, !.lost = l]
    BY <1>1, <1>7, <2>1
  <2>3. b \in CustomerType /\ b.won = w /\ b.lost = l /\ b.new = c.new /\ b.limit = c.limit /\ b.open = c.open
        /\ b.value = c.value /\ b.behavior = c.behavior /\ b.delay = c.delay /\ b.outstanding = c.outstanding
    BY <2>2 DEF CustomerType
  <2>4. QED BY <1>1, <1>2, <2>2, <2>3 DEF BetterCustomer
<1>8. QED BY <1>1, <1>3, <1>4, <1>5, <1>6, <1>7 DEF BetterCustomers

(* A request that is easier in one respect is easier.                         *)
LEMMA EasierInquiriesAre ==
  ASSUME NEW i \in InquiryType, NEW j \in EasierInquiries(i)
  PROVE  j \in InquiryType /\ Easier(i, j)
<1>1. /\ i.customer \in CustomerType /\ i.search \in SearchType
      /\ i.available \in Nat \cup {Unknown} /\ i.required \in (Nat \ {0}) \cup {Unknown}
  BY DEF InquiryType
<1>2. Unknown \notin Int /\ Most \in Nat
  BY CasesAssumption
<1>3. ASSUME NEW c \in BetterCustomers(i.customer), j = [i EXCEPT !.customer = c]
      PROVE  j \in InquiryType /\ Easier(i, j)
  <2>1. c \in CustomerType /\ BetterCustomer(i.customer, c)
    BY <1>1, <1>3, BetterCustomersAre
  <2>2. j \in InquiryType /\ j.customer = c /\ j.search = i.search /\ j.quantity = i.quantity
        /\ j.capacity = i.capacity /\ j.place = i.place /\ j.available = i.available /\ j.required = i.required
    BY <1>3, <2>1 DEF InquiryType
  <2>3. QED BY <1>1, <1>2, <2>1, <2>2 DEF Easier
<1>4. ASSUME i.available # Unknown, NEW a \in i.available + 1 .. Most, j = [i EXCEPT !.available = a]
      PROVE  j \in InquiryType /\ Easier(i, j)
  <2>1. a \in Nat /\ a >= i.available
    BY <1>1, <1>2, <1>4
  <2>2. j \in InquiryType /\ j.customer = i.customer /\ j.search = i.search /\ j.quantity = i.quantity
        /\ j.capacity = i.capacity /\ j.place = i.place /\ j.available = a /\ j.required = i.required
    BY <1>4, <2>1 DEF InquiryType
  <2>3. QED BY <1>1, <1>2, <1>4, <2>1, <2>2 DEF Easier, BetterCustomer
<1>5. ASSUME i.required # Unknown, NEW r \in (i.required + 1 .. Most) \cup {Unknown}, j = [i EXCEPT !.required = r]
      PROVE  j \in InquiryType /\ Easier(i, j)
  <2>1. r \in (Nat \ {0}) \cup {Unknown} /\ (r = Unknown \/ r >= i.required)
    BY <1>1, <1>2, <1>5
  <2>2. j \in InquiryType /\ j.customer = i.customer /\ j.search = i.search /\ j.quantity = i.quantity
        /\ j.capacity = i.capacity /\ j.place = i.place /\ j.available = i.available /\ j.required = r
    BY <1>5, <2>1 DEF InquiryType
  <2>3. QED BY <1>1, <1>2, <1>5, <2>1, <2>2 DEF Easier, BetterCustomer
<1>6. ASSUME NEW s \in {Coded, [i.search EXCEPT !.listed = TRUE]}, j = [i EXCEPT !.search = s]
      PROVE  j \in InquiryType /\ Easier(i, j)
  <2>1. s \in SearchType /\ (s.coded \/ s = [i.search EXCEPT !.listed = TRUE])
    <3>1. CASE s = Coded
      BY <3>1 DEF Coded, SearchType
    <3>2. CASE s = [i.search EXCEPT !.listed = TRUE]
      BY <1>1, <3>2 DEF SearchType
    <3>3. QED BY <1>6, <3>1, <3>2
  <2>2. j \in InquiryType /\ j.customer = i.customer /\ j.search = s /\ j.quantity = i.quantity
        /\ j.capacity = i.capacity /\ j.place = i.place /\ j.available = i.available /\ j.required = i.required
    BY <1>6, <2>1 DEF InquiryType
  <2>3. QED BY <1>1, <1>2, <2>1, <2>2 DEF Easier, BetterCustomer
<1>7. [i EXCEPT !.search.listed = TRUE] = [i EXCEPT !.search = [i.search EXCEPT !.listed = TRUE]]
  OBVIOUS
<1>8. QED BY <1>3, <1>4, <1>5, <1>6, <1>7 DEF EasierInquiries

(* A case stays what it is.                                                   *)
CasesInv == case \in Inquiries \cup Deals

LEMMA CasesStay == CasesSpec => []CasesInv
<1>1. CasesInit => CasesInv
  BY DEF CasesInit, CasesInv
<1>2. CasesInv /\ [UNCHANGED case]_case => CasesInv'
  BY DEF CasesInv
<1>3. QED BY <1>1, <1>2, PTL DEF CasesSpec

LEMMA CasesAre ==
  ASSUME CasesInv
  PROVE  /\ case.kind = "inquiry" => case \in InquiryType
         /\ case.kind = "deal" => case \in DealType
  BY CasesAssumption DEF CasesInv, InquiryType, DealType

(* Of every inquiry there may be: one that is easier is answered no worse     *)
(* (build_profile, qualify_lead, match_requirement, check_inventory,          *)
(* check_feasibility).                                                        *)
THEOREM EasierIsAnsweredNoWorse == CasesSpec => []BetterIsNeverWorse
<1>1. CasesInv => BetterIsNeverWorse
  <2>1. SUFFICES ASSUME CasesInv, case.kind = "inquiry", NEW j \in EasierInquiries(case)
                 PROVE  LET before == Agents!Answer(case)
                            after == Agents!Answer(j)
                        IN  /\ after.score >= before.score
                            /\ Rank[after.priority] <= Rank[before.priority]
                            /\ after.review => before.review
                            /\ ~before.review => after.days <= before.days
    BY DEF BetterIsNeverWorse
  <2>2. PICK i : i = case
    OBVIOUS
  <2>3. i \in InquiryType /\ j \in InquiryType /\ Easier(i, j)
    BY <2>1, <2>2, CasesAre, EasierInquiriesAre
  <2>4. QED BY <2>2, <2>3, BetterNeverWorse
<1>2. QED BY <1>1, CasesStay, PTL

(* Of every deal: no counteroffer below the quotation is accepted without a   *)
(* human (compute_pricing, evaluate_counteroffer).                            *)
THEOREM CounteroffersKeepTheQuote == CasesSpec => []NothingBelowTheQuote
<1>1. CasesInv => NothingBelowTheQuote
  <2>1. SUFFICES ASSUME CasesInv, case.kind = "deal", Pricing(case).possible,
                        NEW price \in Named, NEW overCredit \in BOOLEAN,
                        Agents!EvaluateCounteroffer(Pricing(case), price, overCredit).auto
                 PROVE  price >= Pricing(case).price /\ price >= Pricing(case).floor
    BY DEF NothingBelowTheQuote
  <2>2. PICK d, customer, n : d = case.documents /\ customer = case.customer /\ n = case.quantity
    OBVIOUS
  <2>3. d \in PriceDocuments /\ price \in Int /\ Pricing(case) = Agents!ComputePricing(d, customer, n)
    BY <2>1, <2>2, CasesAre, CasesAssumption DEF DealType, Pricing
  <2>4. QED BY <2>1, <2>3, NothingBelowTheQuotation
<1>2. QED BY <1>1, CasesStay, PTL

(* Of every deal: an order that repeats the first quotation passes, one that  *)
(* repeats a revised one passes or not as its price agrees with the first     *)
(* (build_quotation, build_revised_draft, validate_po).                       *)
THEOREM RepeatedOrdersPass == CasesSpec => []AgreedOrderPasses
<1>1. CasesInv => AgreedOrderPasses
  <2>1. SUFFICES ASSUME CasesInv, case.kind = "deal",
                        NEW q, q = Pricing(case), q.possible, q.price > 0, case.quantity > 0,
                        NEW first, first = Agents!BuildQuotation(q, FALSE)
                 PROVE  /\ \A po \in Agents!Repeating(first) :
                              \A p \in Agents!LeavingOut(po) :
                                 Agents!ValidatePo(p, Agents!ComparedWith(<<first>>)).proceed
                        /\ \A price \in Named :
                              LET second == Agents!Revised(first, Agents!EvaluateCounteroffer(q, price, FALSE))
                                  compared == Agents!ComparedWith(<<first, second>>)
                                  changed == 200 * Agents!Distance(price, q.price) > q.price
                              IN  /\ \A po \in Agents!Repeating(first) :
                                        Agents!ValidatePo(po, compared).verdict = "valid"
                                  /\ \A po \in Agents!Repeating(second) :
                                        LET answer == Agents!ValidatePo(po, compared)
                                        IN  /\ changed => ~answer.proceed
                                            /\ ~changed /\ q.price >= 1000 /\ case.quantity >= 1000 =>
                                                  answer.verdict = "valid"
    BY DEF AgreedOrderPasses
  <2>2. PICK d, customer, n : d = case.documents /\ customer = case.customer /\ n = case.quantity
    OBVIOUS
  <2>3. d \in PriceDocuments /\ n \in Nat \ {0} /\ q = Agents!ComputePricing(d, customer, n)
    BY <2>1, <2>2, CasesAre DEF DealType, Pricing
  <2>4. d.gst \in Nat
    <3>1. ~ Agents!InputsMissing(d, customer, n)
      BY <2>1, <2>3 DEF Agents!ComputePricing, Agents!NoPrice
    <3>2. d.gst # Unknown
      BY <3>1 DEF Agents!InputsMissing
    <3>3. QED BY <2>3, <3>2 DEF PriceDocuments
  <2>5. ASSUME NEW price \in Nat, NEW second,
               second = Agents!Revised(first, Agents!EvaluateCounteroffer(q, price, FALSE))
        PROVE  OrdersPass(q.price, n, first, price, second)
    <3>1. PICK f \in BOOLEAN : f = FALSE
      OBVIOUS
    <3>2. first = Agents!BuildQuotation(q, f) /\ second = Agents!Revised(first, Agents!EvaluateCounteroffer(q, price, f))
      BY <2>1, <2>5, <3>1, Zenon
    <3>3. d.gst \in Nat /\ n \in Nat \ {0} /\ q = Agents!ComputePricing(d, customer, n) /\ q.possible /\ q.price > 0
      BY <2>1, <2>3, <2>4
    <3>4. QED BY <2>3, <2>5, <3>2, <3>3, AgreedOrdersPass
  <2>6. \A po \in Agents!Repeating(first) :
          \A p \in Agents!LeavingOut(po) : Agents!ValidatePo(p, Agents!ComparedWith(<<first>>)).proceed
    <3>1. PICK price \in Nat : TRUE
      BY 100 \in Nat
    <3>2. PICK second : second = Agents!Revised(first, Agents!EvaluateCounteroffer(q, price, FALSE))
      OBVIOUS
    <3>3. OrdersPass(q.price, n, first, price, second)
      BY <2>5, <3>1, <3>2
    <3>4. QED BY <3>3 DEF OrdersPass
  <2>7. \A price \in Named : price \in Nat
    BY CasesAssumption
  <2>8. ASSUME NEW price \in Named, NEW second,
               second = Agents!Revised(first, Agents!EvaluateCounteroffer(q, price, FALSE))
        PROVE  LET compared == Agents!ComparedWith(<<first, second>>)
                   changed == 200 * Agents!Distance(price, q.price) > q.price
               IN  /\ \A po \in Agents!Repeating(first) :
                         Agents!ValidatePo(po, compared).verdict = "valid"
                   /\ \A po \in Agents!Repeating(second) :
                         LET answer == Agents!ValidatePo(po, compared)
                         IN  /\ changed => ~answer.proceed
                             /\ ~changed /\ q.price >= 1000 /\ case.quantity >= 1000 =>
                                   answer.verdict = "valid"
    <3>1. OrdersPass(q.price, n, first, price, second)
      BY <2>5, <2>7, <2>8
    <3>2. QED BY <2>2, <3>1 DEF OrdersPass
  <2>9. QED BY <2>6, <2>8
<1>2. QED BY <1>1, CasesStay, PTL
=============================================================================
