-------------------------- MODULE MCSalesPipeline --------------------------
(* Requests on a conversation for TLC, beside them the rules the agents       *)
(* follow, on a grid of inquiries and of deals.                               *)
EXTENDS SalesPipeline, DealCases, TLC

CONSTANT Parts

VARIABLE part

Symmetry == Permutations(Tasks) \cup Permutations(Rows)
RowStock == [r \in Rows |-> 3]

-----------------------------------------------------------------------------
(* Inquiries: many customers with one request, some customers with many       *)

Customer(new, value, behavior, delay, used, answers) ==
    [new |-> new, value |-> value, behavior |-> behavior, delay |-> delay, limit |-> 100,
     outstanding |-> used, won |-> answers[1], lost |-> answers[2], open |-> 1]

MCValues == {4, 5, 20, 99, 100}
MCDelays == {15, 16, 30, 31}
MCUsed == {30, 31, 60, 79, 80, 85, 86}
Quotations == {<<0, 0>>, <<4, 5>>, <<3, 6>>, <<6, 3>>, <<7, 2>>}

Customers ==
    {Customer(FALSE, v, b, d, u, q) :
        v \in Values, b \in Behaviors \ {"unknown"}, d \in Delays, u \in Used, q \in Quotations}
Newcomer == Customer(TRUE, 0, "unknown", 0, 0, <<0, 0>>)
Typical == {Newcomer, Customer(FALSE, 100, "good", 15, 30, <<7, 2>>),
            Customer(FALSE, 4, "poor", 31, 86, <<3, 6>>)}

Answers ==
    {[type |-> t, product |-> t # "custom", critical |-> c, review |-> FALSE] :
        t \in {"exact", "near", "custom"}, c \in BOOLEAN}
Searches ==
    {[coded |-> FALSE, listed |-> l, chunks |-> TRUE, documents |-> d, answer |-> a] :
        l \in BOOLEAN, d \in BOOLEAN, a \in Answers \cup {Unknown}}
Capacity == [weekly |-> 3, lead |-> 4]

Inquiry(customer, search, quantity, available, capacity, place, required) ==
    [kind |-> "inquiry", customer |-> customer, search |-> search, quantity |-> quantity,
     available |-> available, capacity |-> capacity, place |-> place, required |-> required]

MCInquiries ==
    {Inquiry(c, Coded, 5, 5, Unknown, Unknown, 4) : c \in Customers \cup {Newcomer}}
      \cup {Inquiry(c, s, q, a, w, p, r) :
              c \in Typical, s \in Searches \cup {Coded}, q \in {5, 10, Unknown},
              a \in {Unknown, 0, 2, 5, 10}, w \in {Unknown, Capacity}, p \in {Unknown, 2},
              r \in {Unknown, 4, 6, 9}}

-----------------------------------------------------------------------------
(* Deals *)

\* Two bands that meet, and none above them.
Bands(first, second) ==
    <<[customer |-> "new", least |-> 0, most |-> 2100, limit |-> first, max |-> first + 200],
      [customer |-> "new", least |-> 2100, most |-> 6000, limit |-> second, max |-> second + 200]>>

Documents ==
    [list : {1013, 1200}, material : {850, 1000}, overhead : {0, 755}, transport : {0, 37},
     margin : {500, 1000}, gst : {500, 1800},
     bands : {Bands(0, 300), Bands(300, 0), Bands(300, 550)}]
Lacking == {[d EXCEPT !.gst = Unknown] : d \in Documents}

MCDeals == {[kind |-> "deal", documents |-> d, customer |-> c, quantity |-> n] :
            d \in Documents \cup Lacking, c \in {"new", "existing"}, n \in {0, 333, 1000, 1750, 5000}}

MCNamed == {900 + 13 * i : i \in 0..24}

-----------------------------------------------------------------------------
NoCase == [kind |-> "none"]

MCInit ==
    /\ Init
    /\ \/ part = "requests" /\ case = NoCase
       \/ part = "rules" /\ CasesInit
    /\ part \in Parts

MCNext ==
    /\ part = "requests" /\ Next
    /\ UNCHANGED <<part, case>>

MCSpec == MCInit /\ [][MCNext]_<<vars, part, case>>
=============================================================================
