--------------------------- MODULE SettlementWallet ---------------------------
(***************************************************************************)
(* What a merchant is promised about the settlement wallet, without rows,   *)
(* transfers or webhooks: collections are earned, the wallet pays out one   *)
(* settlement at a time, and a settlement is first set aside and then       *)
(* either paid as a whole or given back as a whole.                         *)
(***************************************************************************)
EXTENDS Integers

VARIABLES
  available,   \* what the merchant may withdraw
  on_hold,     \* what the settlement in flight has set aside
  paid_out     \* what has reached the merchant

wallet == <<available, on_hold, paid_out>>

Init == wallet = <<0, 0, 0>>

\* A collection is credited, net of the platform fee.
Earn ==
  /\ available' \in Nat
  /\ available' >= available
  /\ UNCHANGED <<on_hold, paid_out>>

\* A settlement starts: a positive part of the available money is set aside,
\* never more than there is, and only when no other settlement is in flight.
Hold ==
  /\ on_hold = 0
  /\ available' \in Nat
  /\ available' < available
  /\ on_hold' = available - available'
  /\ UNCHANGED paid_out

\* The transfer succeeded: everything set aside has been paid.
Pay ==
  /\ on_hold > 0
  /\ on_hold' = 0
  /\ paid_out' = paid_out + on_hold
  /\ UNCHANGED available

\* The transfer failed: everything set aside is available again.
Release ==
  /\ on_hold > 0
  /\ on_hold' = 0
  /\ available' = available + on_hold
  /\ UNCHANGED paid_out

Next == Earn \/ Hold \/ Pay \/ Release

Spec == Init /\ [][Next]_wallet
===============================================================================
