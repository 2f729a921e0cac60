------------------------------- MODULE DealCases -------------------------------
(***************************************************************************)
(* What a business relies on when the agents answer: any inquiry, and one  *)
(* that is easier; the price documents of any deal, what a customer offers *)
(* for it and orders.  A case is one inquiry or one deal.                  *)
(***************************************************************************)
EXTENDS Integers, Sequences

CONSTANTS
  Unknown, LargeOrder,
  Inquiries, Deals,
  Named,                   \* the prices a customer names
  Values, Delays, Used,    \* what customers bought, how late they pay, what they owe
  Most                     \* units in stock and days, at most

VARIABLE case

Agents == INSTANCE DealRules

-----------------------------------------------------------------------------
(* Inquiries *)

Behaviors == {"poor", "average", "good", "excellent", "unknown"}
CustomerType ==
  [new : BOOLEAN, value : Nat, behavior : Behaviors, delay : Int, limit : Nat,
   outstanding : Nat, won : Nat, lost : Nat, open : Nat]
AnswerType == [type : {"exact", "near", "custom"}, product : BOOLEAN, critical : BOOLEAN, review : BOOLEAN]
SearchType ==
  [coded : BOOLEAN, listed : BOOLEAN, chunks : BOOLEAN, documents : BOOLEAN, answer : AnswerType \cup {Unknown}]
CapacityType == [weekly : Nat, lead : Nat]
InquiryType ==
  [kind : {"inquiry"}, customer : CustomerType, search : SearchType, quantity : Nat \cup {Unknown},
   available : Nat \cup {Unknown}, capacity : CapacityType \cup {Unknown},
   place : Nat \cup {Unknown}, required : (Nat \ {0}) \cup {Unknown}]

BetterBehavior ==
  [poor |-> {"average", "good", "excellent"}, average |-> {"good", "excellent"},
   good |-> {"excellent"}, excellent |-> {}, unknown |-> {}]

\* A customer who bought, paid or ordered better, in one respect.
BetterCustomers(c) ==
  IF c.new THEN {}
  ELSE {[c EXCEPT !.value = v] : v \in {v \in Values : v > c.value}}
    \cup {[c EXCEPT !.behavior = b] : b \in BetterBehavior[c.behavior]}
    \cup {[c EXCEPT !.delay = d] : d \in {d \in Delays : d < c.delay}}
    \cup {[c EXCEPT !.outstanding = u] : u \in {u \in Used : u < c.outstanding}}
    \cup (IF c.lost > 0 THEN {[c EXCEPT !.won = @ + 1, !.lost = @ - 1]} ELSE {})

\* A product the catalog has under the code in the request.
Coded == [coded |-> TRUE, listed |-> TRUE, chunks |-> FALSE, documents |-> FALSE, answer |-> Unknown]

\* A request that is easier in one respect: more stock, less haste, a better match.
EasierInquiries(i) ==
  {[i EXCEPT !.customer = c] : c \in BetterCustomers(i.customer)}
    \cup (IF i.available = Unknown THEN {}
          ELSE {[i EXCEPT !.available = a] : a \in i.available + 1 .. Most})
    \cup (IF i.required = Unknown THEN {}
          ELSE {[i EXCEPT !.required = r] : r \in (i.required + 1 .. Most) \cup {Unknown}})
    \cup {[i EXCEPT !.search = Coded], [i EXCEPT !.search.listed = TRUE]}

-----------------------------------------------------------------------------
(* Deals *)

\* What the price documents may hold: any amounts in whole hundredths, rows that
\* are missing, and a smallest margin below one hundred percent.
BandType == [customer : {"new", "existing"}, least : Int, most : Int, limit : Int, max : Int]
PriceDocuments ==
  [list : Int \cup {Unknown}, material : Int \cup {Unknown}, overhead : Int,
   transport : Int \cup {Unknown}, margin : {m \in Int : m < 10000} \cup {Unknown},
   gst : Nat \cup {Unknown}, bands : Seq(BandType)]
DealType ==
  [kind : {"deal"}, documents : PriceDocuments, customer : {"new", "existing"}, quantity : Nat]

Pricing(deal) == Agents!ComputePricing(deal.documents, deal.customer, deal.quantity)

-----------------------------------------------------------------------------
ASSUME CasesAssumption ==
  /\ Unknown \notin Int
  /\ \A i \in Inquiries : i \in InquiryType
  /\ \A deal \in Deals : deal \in DealType
  /\ \A price \in Named : price \in Nat
  /\ (\A v \in Values : v \in Nat) /\ (\A d \in Delays : d \in Int) /\ (\A u \in Used : u \in Nat)
  /\ Most \in Nat

CasesInit == case \in Inquiries \cup Deals
CasesSpec == CasesInit /\ [][UNCHANGED case]_case

-----------------------------------------------------------------------------
(* Properties of the rules *)

Rank == [P1 |-> 1, P2 |-> 2, P3 |-> 3]

\* Better is never worse: a customer who bought more, paid sooner or owes less,
\* and a request for what is in stock or needed later, never gets a lower score
\* or priority, a later date, or a human's question it would not have got
\* otherwise; the four agents hand each other nothing that turns this round
\* (qualify_lead, match_requirement, check_inventory, check_feasibility).
BetterIsNeverWorse ==
  case.kind = "inquiry" =>
    \A j \in EasierInquiries(case) :
      LET before == Agents!Answer(case)
          after == Agents!Answer(j)
      IN  /\ after.score >= before.score
          /\ Rank[after.priority] <= Rank[before.priority]
          /\ after.review => before.review
          /\ ~before.review => after.days <= before.days

\* The authority to concede is spent once: the quotation gives the discount that
\* needs no approval, so no counteroffer below it is accepted without a human,
\* whatever floor, band, rounding or credit decides
\* (compute_pricing, evaluate_counteroffer).
NothingBelowTheQuote ==
  case.kind = "deal" =>
    LET q == Pricing(case)
    IN  q.possible =>
          \A price \in Named, overCredit \in BOOLEAN :
            Agents!EvaluateCounteroffer(q, price, overCredit).auto =>
              price >= q.price /\ price >= q.floor

\* A purchase order that repeats the first quotation passes without a word, before
\* and after a revision, because the quotation on record stays the one compared
\* with, however tax and fractions of a unit are rounded.  One that repeats the
\* revised quotation is stopped when the price differs by more than half a
\* percent, and passes when it does not, unless the deal is smaller than a unit or
\* the unit costs less than ten rupees, where rounding alone may exceed the
\* tolerance of the total (build_quotation, build_revised_draft, validate_po, which
\* does not load "the final quotation version" its head speaks of).
AgreedOrderPasses ==
  case.kind = "deal" =>
    LET q == Pricing(case)
        first == Agents!BuildQuotation(q, FALSE)
    IN  q.possible /\ q.price > 0 /\ case.quantity > 0 =>
          /\ \A po \in Agents!Repeating(first) :
                \A p \in Agents!LeavingOut(po) : Agents!ValidatePo(p, Agents!ComparedWith(<<first>>)).proceed
          /\ \A price \in Named :
                LET second == Agents!Revised(first, Agents!EvaluateCounteroffer(q, price, FALSE))
                    compared == Agents!ComparedWith(<<first, second>>)
                    changed == 200 * Agents!Distance(price, q.price) > q.price
                IN  /\ \A po \in Agents!Repeating(first) :
                          Agents!ValidatePo(po, compared).verdict = "valid"
                    /\ \A po \in Agents!Repeating(second) :
                          LET answer == Agents!ValidatePo(po, compared)
                          IN  /\ changed => ~answer.proceed
                              /\ ~changed /\ q.price >= 1000 /\ case.quantity >= 1000 =>
                                    answer.verdict = "valid"
=============================================================================
