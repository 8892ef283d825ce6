------------------------------ MODULE GoodsShelf ------------------------------
(***************************************************************************)
(* What online checkout promises a shop, without payments, webhooks or     *)
(* polls: goods asked for online are set aside from the shelf, and either  *)
(* leave with the customer, all of them and only once, or go back.         *)
(***************************************************************************)
EXTENDS Integers

CONSTANTS Goods, Orders, Wants, Opening

VARIABLES
  shelf,     \* goods anybody may take, per kind
  order      \* "none", "aside", "sold", "dropped" or "returned", per order

state == <<shelf, order>>

Init ==
  /\ shelf = Opening
  /\ order = [o \in Orders |-> "none"]

Move(o, from, to) == order[o] = from /\ order' = [order EXCEPT ![o] = to]
TakeFromShelf(o) == shelf' = [g \in Goods |-> shelf[g] - Wants[o][g]]
PutOnShelf(o) == shelf' = [g \in Goods |-> shelf[g] + Wants[o][g]]

SetAside(o) ==
  /\ \A g \in Goods : Wants[o][g] <= shelf[g]
  /\ Move(o, "none", "aside")
  /\ TakeFromShelf(o)

\* What was set aside leaves; the shelf is not touched.
Sell(o) == Move(o, "aside", "sold") /\ UNCHANGED shelf

Drop(o) == Move(o, "aside", "dropped") /\ PutOnShelf(o)

Return(o) == Move(o, "sold", "returned") /\ PutOnShelf(o)

Restock ==
  /\ shelf' \in [Goods -> Nat]
  /\ \A g \in Goods : shelf'[g] >= shelf[g]
  /\ UNCHANGED order

Next ==
  \/ \E o \in Orders : SetAside(o) \/ Sell(o) \/ Drop(o) \/ Return(o)
  \/ Restock

Spec == Init /\ [][Next]_state
===============================================================================
