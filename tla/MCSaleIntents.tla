---------------------------- MODULE MCSaleIntents ----------------------------
(* Small instances of SaleIntents. *)
EXTENDS SaleIntents, TLC

CONSTANTS rice, soap, o1, o2, o3, w1

\* Two rice and a soap, one rice, one soap, two rice at the counter.
MCLines ==
  [s \in Sales |-> [k \in Items |->
     CASE s = o1 /\ k = rice -> 2 [] s = o1 /\ k = soap -> 1
       [] s = o2 /\ k = rice -> 1 [] s = w1 /\ k = rice -> 2
       [] s = o3 /\ k = soap -> 1
       [] OTHER -> 0]]

MCInitialStock == [k \in Items |-> IF k = rice THEN 3 ELSE 1]
\* Deliveries.
MCDeliveries == {1}

===============================================================================
