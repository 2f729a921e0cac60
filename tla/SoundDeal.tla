------------------------------ MODULE SoundDeal ------------------------------
(***************************************************************************)
(* What the sales graph promises about a conversation with one customer: a *)
(* price is quoted with the approval it needs; a purchase order is cleared, *)
(* by its comparison with a price that was quoted or by a human, before    *)
(* anything is held for it, held before it is confirmed, and confirmed     *)
(* before the departments are told; none of this is done twice or undone,  *)
(* the terms of a confirmed order stand, and nothing happens in a          *)
(* conversation that is lost.  A conversation on which calls overlap comes *)
(* loose: nothing is promised of it any more.                              *)
(***************************************************************************)
EXTENDS Naturals, Sequences

CONSTANTS
  Conversations,
  Approvable      \* prices that need an approval

VARIABLES
  quoted,   \* the prices quoted in a conversation, and whether approved
  deals,    \* its purchase orders
  lost,     \* conversations closed lost
  loose     \* those nothing is promised of

dealVars == <<quoted, deals, lost, loose>>

NewDeal(price) ==
  [price |-> price, cleared |-> FALSE, held |-> FALSE, ordered |-> FALSE, handed |-> FALSE]

Init ==
  /\ quoted = [c \in Conversations |-> {}]
  /\ deals = [c \in Conversations |-> << >>]
  /\ lost = {} /\ loose = {}

Becomes(c, i, deal) ==
  /\ deals' = [deals EXCEPT ![c][i] = deal]
  /\ UNCHANGED <<quoted, lost, loose>>

Quote(c, q) ==
  /\ q.price \in Approvable => q.approved
  /\ quoted' = [quoted EXCEPT ![c] = @ \cup {q}]
  /\ UNCHANGED <<deals, lost, loose>>

Receive(c, price) ==
  /\ deals' = [deals EXCEPT ![c] = Append(@, NewDeal(price))]
  /\ UNCHANGED <<quoted, lost, loose>>

\* The comparison, a human, or a second look: until stock is held.
Judge(c, i) ==
  LET d == deals[c][i]
  IN /\ ~ d.held /\ ~ d.ordered
     /\ \/ d.cleared /\ Becomes(c, i, [d EXCEPT !.cleared = FALSE])
        \/ /\ ~ d.cleared /\ \E q \in quoted[c] : q.price = d.price
           /\ Becomes(c, i, [d EXCEPT !.cleared = TRUE])

Hold(c, i) ==
  LET d == deals[c][i]
  IN d.cleared /\ ~ d.held /\ Becomes(c, i, [d EXCEPT !.held = TRUE])

Confirm(c, i) ==
  LET d == deals[c][i]
  IN d.cleared /\ d.held /\ ~ d.ordered /\ Becomes(c, i, [d EXCEPT !.ordered = TRUE])

HandOff(c, i) ==
  LET d == deals[c][i]
  IN d.ordered /\ ~ d.handed /\ Becomes(c, i, [d EXCEPT !.handed = TRUE])

Lose(c) ==
  /\ \A i \in DOMAIN deals[c] : ~ deals[c][i].ordered
  /\ lost' = lost \cup {c}
  /\ UNCHANGED <<quoted, deals, loose>>

Reopen(c) ==
  /\ lost' = lost \ {c}
  /\ UNCHANGED <<quoted, deals, loose>>

ComesLoose(c) ==
  /\ loose' = loose \cup {c} /\ lost' = lost \ {c}
  /\ quoted' = [quoted EXCEPT ![c] = {}]
  /\ deals' = [deals EXCEPT ![c] = << >>]

Next ==
  \E c \in Conversations \ loose :
    \/ /\ c \notin lost
       /\ \/ \E q \in quoted'[c] : Quote(c, q)
          \/ \E d \in {deals'[c][i] : i \in DOMAIN deals'[c]} : Receive(c, d.price)
          \/ \E i \in DOMAIN deals[c] : \/ Judge(c, i) \/ Hold(c, i)
                                        \/ Confirm(c, i) \/ HandOff(c, i)
          \/ Lose(c)
    \/ c \in lost /\ Reopen(c)
    \/ ComesLoose(c)

Spec == Init /\ [][Next]_dealVars
=============================================================================
