--------------------------- MODULE SaleIntentsProofs ---------------------------
(***************************************************************************)
(* Theorems about SaleIntents, for any items, orders, quantities, stock and *)
(* hazards.                                                                 *)
(***************************************************************************)
EXTENDS SaleIntents, Sums, TLAPS

(* Taking lines that are in stock leaves a stock; giving lines back does too. *)
LEMMA StockType ==
  ASSUME TypeOK, NEW s \in Sales
  PROVE  /\ \A lines \in SUBSET InStock(s) : Deduct(s, lines) \in [Items -> Nat]
         /\ \A lines \in SUBSET Items : Restore(s, lines) \in [Items -> Nat]
         /\ Ordered(s) \subseteq Items /\ InStock(s) \subseteq Ordered(s)
<1>1. \A k \in Items : stock[k] \in Nat /\ Lines[s][k] \in Nat
  BY SaleAssumption DEF TypeOK
<1>2. \A k \in InStock(s) : k \in Items /\ Lines[s][k] <= stock[k]
  BY DEF InStock, Ordered
<1>3. ASSUME NEW lines \in SUBSET InStock(s)
      PROVE  Deduct(s, lines) \in [Items -> Nat]
  <2>1. \A k \in Items : k \in lines => stock[k] - Lines[s][k] \in Nat
    BY <1>1, <1>2
  <2> QED
    BY <1>1, <2>1 DEF Deduct
<1>4. ASSUME NEW lines \in SUBSET Items
      PROVE  Restore(s, lines) \in [Items -> Nat]
  <2>1. \A k \in Items : stock[k] + Lines[s][k] \in Nat
    BY <1>1
  <2> QED
    BY <1>1, <2>1 DEF Restore
<1> QED
  BY <1>3, <1>4 DEF InStock, Ordered

(* Recording a whole sale keeps the types of what it writes. *)
LEMMA RecordWholeType ==
  ASSUME TypeOK, NEW s \in Sales, Recordable(s), RecordWhole(s)
  PROVE  /\ stock' \in [Items -> Nat]
         /\ sale' \in [Sales -> {"none", "completed", "voided"}]
         /\ sold_lines' \in [Sales -> SUBSET Items] /\ taken' \in [Sales -> SUBSET Items]
BY StockType DEF TypeOK, Recordable, RecordWhole

LEMMA FinalizeType ==
  ASSUME TypeOK, NEW i \in Intents, finalize_verified_payment_intent(i)
  PROVE  /\ stock' \in [Items -> Nat]
         /\ sale' \in [Sales -> {"none", "completed", "voided"}]
         /\ sold_lines' \in [Sales -> SUBSET Items] /\ taken' \in [Sales -> SUBSET Items]
         /\ linked' \subseteq Intents /\ credited' \subseteq Intents
         /\ reservation' \in [Intents -> {"none", "active", "released", "completed"}]
<1>1. i \in Sales
  BY DEF Sales
<1>2. /\ stock' \in [Items -> Nat]
      /\ sale' \in [Sales -> {"none", "completed", "voided"}]
      /\ sold_lines' \in [Sales -> SUBSET Items] /\ taken' \in [Sales -> SUBSET Items]
  BY <1>1, RecordWholeType DEF finalize_verified_payment_intent
<1> QED
  BY <1>2 DEF finalize_verified_payment_intent, TypeOK, CompletedReservation

LEMMA FinalizeHalfWayType ==
  ASSUME TypeOK, NEW i \in Intents, finalize_half_way(i)
  PROVE  /\ stock' \in [Items -> Nat]
         /\ sale' \in [Sales -> {"none", "completed", "voided"}]
         /\ sold_lines' \in [Sales -> SUBSET Items] /\ taken' \in [Sales -> SUBSET Items]
<1>1. i \in Sales
  BY DEF Sales
<1>2. PICK done \in SUBSET InStock(i), short \in Ordered(i) \ InStock(i) :
        /\ sale' = [sale EXCEPT ![i] = "completed"]
        /\ sold_lines' = [sold_lines EXCEPT ![i] = done \cup {short}]
        /\ taken' = [taken EXCEPT ![i] = done]
        /\ stock' = Deduct(i, done)
  BY DEF finalize_half_way
<1>3. done \subseteq Items /\ short \in Items
  BY <1>1, StockType
<1>4. stock' \in [Items -> Nat]
  BY <1>1, <1>2, StockType
<1> QED
  BY <1>1, <1>2, <1>3, <1>4 DEF TypeOK

(* Paystack answers with one of the payment's own statuses, and with success *)
(* only when it has the money.                                               *)
Statuses == {"none", "pending", "success", "failed", "reversed"}
LEMMA Answers ==
  ASSUME TypeOK, NEW i \in Intents, charge[i] # "none", NEW a \in PaystackSays(i)
  PROVE  /\ a \in Statuses \ {"none"}
         /\ a = "success" => Paid(i)
<1>1. charge[i] \in {"open", "abandoned", "success", "reversed"}
  BY DEF TypeOK
<1>2. \/ charge[i] = "open" /\ a = "pending"
      \/ charge[i] = "abandoned" /\ a = "failed"
      \/ charge[i] \in {"success", "reversed"} /\ a = charge[i]
      \/ a = "pending"
  <2>1. CASE charge[i] = "open"
    BY <2>1 DEF PaystackSays
  <2>2. CASE charge[i] = "abandoned"
    BY <2>2 DEF PaystackSays
  <2>3. CASE charge[i] = "success"
    BY <2>3 DEF PaystackSays
  <2>4. CASE charge[i] = "reversed"
    BY <2>4 DEF PaystackSays
  <2> QED
    BY <1>1, <2>1, <2>2, <2>3, <2>4
<1> QED
  BY <1>2 DEF Paid, Statuses

-----------------------------------------------------------------------------
(* The inductive invariant: what makes the properties below hold of one intent. *)
(* A request in flight has loaded a payment that exists, and an answer of      *)
(* success can only be true.                                                   *)
IntentInv(i) ==
  /\ payment[i] = "none" <=> charge[i] = "none"
  /\ asked[i].loaded = "none" <=> asked[i].answer = "none"
  /\ asked[i].answer # "none" => payment[i] # "none"
  /\ asked[i].answer = "success" => Paid(i)
  /\ sale[i] # "none" => Paid(i)
  /\ i \in credited <=> sale[i] # "none"
  /\ payment[i] = "success" => i \in credited
  /\ i \in linked =>
       /\ sale[i] # "none"
       /\ sold_lines[i] = Ordered(i) /\ taken[i] = Ordered(i)
       /\ reservation[i] # "active"

IInv == TypeOK /\ \A i \in Intents : IntentInv(i)

LEMMA InitInv == Init => IInv
<1> SUFFICES ASSUME Init PROVE IInv
  OBVIOUS
<1>1. TypeOK
  BY SaleAssumption DEF Init, TypeOK, NoRequest
<1>2. ASSUME NEW i \in Intents PROVE IntentInv(i)
  <2>1. i \in Sales
    BY DEF Sales
  <2> QED
    BY <2>1 DEF Init, IntentInv, NoRequest
<1> QED
  BY <1>1, <1>2 DEF IInv

-----------------------------------------------------------------------------
(* One lemma per kind of step *)

LEMMA RecordSaleStep ==
  ASSUME IInv, NEW w \in Walkins, record_sale(w)
  PROVE  IInv'
<1>1. w \in Sales /\ \A i \in Intents : i # w /\ i \in Sales
  BY SaleAssumption DEF Sales
<1>2. TypeOK'
  BY <1>1, RecordWholeType DEF IInv, record_sale, TypeOK
<1>3. ASSUME NEW i \in Intents PROVE IntentInv(i)'
  <2>1. sale'[i] = sale[i] /\ sold_lines'[i] = sold_lines[i] /\ taken'[i] = taken[i]
    BY <1>1 DEF record_sale, RecordWhole, IInv, TypeOK
  <2> QED
    BY <2>1 DEF IInv, IntentInv, record_sale, Paid, Ordered
<1> QED
  BY <1>2, <1>3 DEF IInv

LEMMA VoidStep ==
  ASSUME IInv, NEW s \in Sales, void_sale(s)
  PROVE  IInv'
<1>1. TypeOK'
  <2>1. sold_lines[s] \in SUBSET Items
    BY DEF IInv, TypeOK
  <2>2. stock' \in [Items -> Nat]
    BY <2>1, StockType DEF IInv, void_sale
  <2> QED
    BY <2>2 DEF IInv, TypeOK, void_sale
<1>2. ASSUME NEW i \in Intents PROVE IntentInv(i)'
  <2>1. i \in Sales
    BY DEF Sales
  <2>2. sale'[i] # "none" <=> sale[i] # "none"
    BY <2>1 DEF IInv, TypeOK, void_sale
  <2> QED
    BY <2>2 DEF IInv, IntentInv, void_sale, Paid, Ordered
<1> QED
  BY <1>1, <1>2 DEF IInv

LEMMA AdjustStep ==
  ASSUME IInv, NEW k \in Items, NEW change \in Adjustments, adjust_stock(k, change)
  PROVE  IInv'
<1>1. change \in Int
  BY SaleAssumption
<1>2. TypeOK'
  BY <1>1 DEF IInv, TypeOK, adjust_stock
<1>3. ASSUME NEW i \in Intents PROVE IntentInv(i)'
  BY DEF IInv, IntentInv, adjust_stock, Paid, Ordered
<1> QED
  BY <1>2, <1>3 DEF IInv

LEMMA CreateStep ==
  ASSUME IInv, NEW i \in Intents, create_paystack_sale_intent(i)
  PROVE  IInv'
<1>1. TypeOK'
  BY DEF IInv, TypeOK, create_paystack_sale_intent, goods, Released
<1>2. i \notin linked /\ sale[i] = "none" /\ asked[i].answer = "none"
  BY DEF IInv, IntentInv, create_paystack_sale_intent, Paid
<1>3. ASSUME NEW j \in Intents PROVE IntentInv(j)'
  <2>1. CASE j = i
    BY <1>2, <2>1 DEF IInv, IntentInv, TypeOK, create_paystack_sale_intent, goods, Paid
  <2>2. CASE j # i
    <3>1. /\ payment'[j] = payment[j] /\ charge'[j] = charge[j]
          /\ reservation'[j] \in {reservation[j], "released"}
      BY <2>2 DEF IInv, TypeOK, create_paystack_sale_intent, Released
    <3> QED
      BY <3>1 DEF IInv, IntentInv, create_paystack_sale_intent, goods, Paid, Ordered
  <2> QED
    BY <2>1, <2>2
<1> QED
  BY <1>1, <1>3 DEF IInv

LEMMA AskStep ==
  ASSUME IInv, NEW i \in Intents, verify_ask(i)
  PROVE  IInv'
<1>1. charge[i] # "none"
  BY DEF IInv, IntentInv, verify_ask
<1>2. PICK a : /\ a = "failed" \/ a \in PaystackSays(i)
               /\ asked' = [asked EXCEPT ![i] = [loaded |-> payment[i], answer |-> a]]
  BY DEF verify_ask
<1>3. a \in Statuses \ {"none"} /\ (a = "success" => Paid(i))
  BY <1>1, <1>2, Answers DEF IInv, Statuses
<1>4. payment[i] \in Statuses \ {"none"}
  BY DEF IInv, TypeOK, verify_ask, Statuses
<1>5. TypeOK'
  BY <1>2, <1>3, <1>4 DEF IInv, TypeOK, verify_ask, goods, Statuses
<1>6. ASSUME NEW j \in Intents PROVE IntentInv(j)'
  <2>1. CASE j = i
    BY <1>2, <1>3, <1>4, <2>1
       DEF IInv, IntentInv, TypeOK, verify_ask, goods, Paid, Ordered, Statuses
  <2>2. CASE j # i
    BY <1>2, <2>2 DEF IInv, IntentInv, TypeOK, verify_ask, goods, Paid, Ordered
  <2> QED
    BY <2>1, <2>2
<1> QED
  BY <1>5, <1>6 DEF IInv

(* What finalizing does to the intents: the others keep everything, and this one *)
(* becomes a whole, linked and credited sale.                                    *)
LEMMA FinalizeEffect ==
  ASSUME TypeOK, NEW i \in Intents, finalize_verified_payment_intent(i)
  PROVE  /\ sale[i] = "none" /\ sale'[i] = "completed"
         /\ sold_lines'[i] = Ordered(i) /\ taken'[i] = Ordered(i)
         /\ reservation'[i] # "active"
         /\ linked' = linked \cup {i} /\ credited' = credited \cup {i}
         /\ \A j \in Intents \ {i} :
              /\ sale'[j] = sale[j] /\ sold_lines'[j] = sold_lines[j] /\ taken'[j] = taken[j]
              /\ reservation'[j] = reservation[j]
<1>1. \A j \in Intents : j \in Sales
  BY DEF Sales
<1> QED
  BY <1>1 DEF finalize_verified_payment_intent, Recordable, RecordWhole, TypeOK,
              CompletedReservation

LEMMA HalfWayEffect ==
  ASSUME TypeOK, NEW i \in Intents, finalize_half_way(i)
  PROVE  /\ sale[i] = "none" /\ sale'[i] = "completed"
         /\ UNCHANGED <<linked, reservation>>
         /\ \A j \in Intents \ {i} :
              sale'[j] = sale[j] /\ sold_lines'[j] = sold_lines[j] /\ taken'[j] = taken[j]
<1>1. \A j \in Intents : j \in Sales
  BY DEF Sales
<1> QED
  BY <1>1 DEF finalize_half_way, TypeOK

LEMMA ApplyStep ==
  ASSUME IInv, NEW i \in Intents, verify_apply(i)
  PROVE  IInv'
<1> DEFINE a == asked[i].answer
           written == [payment EXCEPT ![i] = IF a = asked[i].loaded THEN @ ELSE a]
<1>1. /\ a \in Statuses \ {"none"} /\ payment[i] # "none" /\ charge[i] # "none"
      /\ asked' = [asked EXCEPT ![i] = NoRequest]
      /\ UNCHANGED <<expired, adjusted, seen, charge>>
      /\ asked[i] \in [loaded: Statuses, answer: Statuses]
  <2>1. asked[i] \in [loaded: Statuses, answer: Statuses] /\ asked[i] # NoRequest
    BY DEF IInv, TypeOK, verify_apply, Statuses
  <2>2. a # "none"
    BY <2>1 DEF IInv, IntentInv, NoRequest
  <2> QED
    BY <2>1, <2>2 DEF IInv, IntentInv, verify_apply
<1>2. /\ written \in [Intents -> Statuses] /\ written[i] # "none"
      /\ written[i] \in {payment[i], a}
      /\ \A j \in Intents \ {i} : written[j] = payment[j]
  BY <1>1 DEF IInv, TypeOK, Statuses
<1>3. asked' \in [Intents -> [loaded: Statuses, answer: Statuses]]
  BY <1>1 DEF IInv, TypeOK, NoRequest, Statuses
<1>4. asked'[i] = NoRequest /\ \A j \in Intents \ {i} : asked'[j] = asked[j]
  BY <1>1 DEF IInv, TypeOK
<1>5. CASE a = "pending" /\ payment' = written /\ UNCHANGED <<goods, linked, reservation, credited>>
  <2>1. TypeOK'
    BY <1>1, <1>2, <1>3, <1>5 DEF IInv, TypeOK, goods, Statuses
  <2>2. ASSUME NEW j \in Intents PROVE IntentInv(j)'
    BY <1>1, <1>2, <1>4, <1>5 DEF IInv, IntentInv, goods, Paid, Ordered, NoRequest
  <2> QED
    BY <2>1, <2>2 DEF IInv
<1>6. CASE /\ a \in {"failed", "reversed"} /\ payment' = written
           /\ reservation' = [reservation EXCEPT ![i] = Released(i)]
           /\ UNCHANGED <<goods, linked, credited>>
  <2>1. TypeOK'
    BY <1>1, <1>2, <1>3, <1>6 DEF IInv, TypeOK, goods, Statuses, Released
  <2>2. ASSUME NEW j \in Intents PROVE IntentInv(j)'
    <3>1. reservation'[j] \in {reservation[j], "released"}
      BY <1>6 DEF IInv, TypeOK, Released
    <3> QED
      BY <1>1, <1>2, <1>4, <1>6, <3>1 DEF IInv, IntentInv, goods, Paid, Ordered, NoRequest
  <2> QED
    BY <2>1, <2>2 DEF IInv
<1>7. CASE a = "success" /\ payment' = written /\ finalize_verified_payment_intent(i)
  <2>1. TypeOK'
    BY <1>1, <1>2, <1>3, <1>7, FinalizeType DEF IInv, TypeOK, Statuses
  <2>2. ASSUME NEW j \in Intents PROVE IntentInv(j)'
    <3>1. CASE j = i
      BY <1>1, <1>2, <1>4, <1>7, <3>1, FinalizeEffect
         DEF IInv, IntentInv, Paid, Ordered, NoRequest
    <3>2. CASE j # i
      BY <1>1, <1>2, <1>4, <1>7, <3>2, FinalizeEffect DEF IInv, IntentInv, Paid, Ordered
    <3> QED
      BY <3>1, <3>2
  <2> QED
    BY <2>1, <2>2 DEF IInv
<1>8. CASE UNCHANGED <<goods, payment, linked, reservation, credited>>
  <2>1. TypeOK'
    BY <1>1, <1>3, <1>8 DEF IInv, TypeOK, goods, Statuses
  <2>2. ASSUME NEW j \in Intents PROVE IntentInv(j)'
    BY <1>1, <1>4, <1>8 DEF IInv, IntentInv, goods, Paid, Ordered, NoRequest
  <2> QED
    BY <2>1, <2>2 DEF IInv
<1> QED
  BY <1>5, <1>6, <1>7, <1>8 DEF verify_apply

LEMMA WebhookStep ==
  ASSUME IInv, NEW i \in Intents, handle_charge_success(i)
  PROVE  IInv'
<1>1. /\ Paid(i) /\ charge[i] # "none" /\ payment[i] # "none"
      /\ seen' = seen \cup {i} /\ UNCHANGED <<expired, adjusted, asked, charge>>
  BY DEF handle_charge_success, Paid, IInv, IntentInv
<1>2. CASE UNCHANGED <<goods, payment, linked, reservation, credited>>
  <2>1. TypeOK'
    BY <1>1, <1>2 DEF IInv, TypeOK, goods
  <2>2. ASSUME NEW j \in Intents PROVE IntentInv(j)'
    BY <1>1, <1>2 DEF IInv, IntentInv, goods, Paid, Ordered
  <2> QED
    BY <2>1, <2>2 DEF IInv
<1>3. CASE payment' = [payment EXCEPT ![i] = "success"] /\ finalize_verified_payment_intent(i)
  <2>1. TypeOK'
    BY <1>1, <1>3, FinalizeType DEF IInv, TypeOK
  <2>2. ASSUME NEW j \in Intents PROVE IntentInv(j)'
    <3>1. payment'[j] = IF j = i THEN "success" ELSE payment[j]
      BY <1>3 DEF IInv, TypeOK
    <3>2. CASE j = i
      BY <1>1, <1>3, <3>1, <3>2, FinalizeEffect DEF IInv, IntentInv, Paid, Ordered
    <3>3. CASE j # i
      BY <1>1, <1>3, <3>1, <3>3, FinalizeEffect DEF IInv, IntentInv, Paid, Ordered
    <3> QED
      BY <3>2, <3>3
  <2> QED
    BY <2>1, <2>2 DEF IInv
<1>4. CASE /\ payment' = [payment EXCEPT ![i] = "success"]
           /\ finalize_half_way(i) /\ credited' = credited \cup {i}
  <2>0. UNCHANGED <<linked, reservation>>
    BY <1>4, HalfWayEffect DEF IInv
  <2>1. TypeOK'
    BY <1>1, <1>4, <2>0, FinalizeHalfWayType DEF IInv, TypeOK
  <2>2. ASSUME NEW j \in Intents PROVE IntentInv(j)'
    <3>1. payment'[j] = IF j = i THEN "success" ELSE payment[j]
      BY <1>4 DEF IInv, TypeOK
    <3>2. CASE j = i
      BY <1>1, <1>4, <3>1, <3>2, HalfWayEffect DEF IInv, IntentInv, Paid, Ordered
    <3>3. CASE j # i
      BY <1>1, <1>4, <2>0, <3>1, <3>3, HalfWayEffect DEF IInv, IntentInv, Paid, Ordered
    <3> QED
      BY <3>2, <3>3
  <2> QED
    BY <2>1, <2>2 DEF IInv
<1> QED
  BY <1>2, <1>3, <1>4 DEF handle_charge_success

(* Time, and what customers and Paystack do to a checkout, never take a payment *)
(* back that had been made.                                                     *)
LEMMA OutsideStep ==
  ASSUME IInv, NEW i \in Intents,
         expire(i) \/ customer_decides(i) \/ customer_returns(i) \/ paystack_reverses(i)
  PROVE  IInv'
<1>1. CASE expire(i)
  BY <1>1 DEF IInv, TypeOK, IntentInv, expire, goods, Paid, Ordered
<1>2. ASSUME NEW from \in {"open", "abandoned", "success"},
             NEW to \in {"success", "abandoned", "reversed"},
             from = "success" => to = "reversed", ChargeTurns(i, from, to)
      PROVE  IInv'
  <2>1. TypeOK'
    BY <1>2 DEF IInv, TypeOK, ChargeTurns, goods
  <2>2. ASSUME NEW j \in Intents PROVE IntentInv(j)'
    <3>1. Paid(j) => Paid(j)'
      BY <1>2 DEF IInv, TypeOK, ChargeTurns, Paid
    <3>2. charge'[j] = "none" <=> charge[j] = "none"
      BY <1>2 DEF IInv, TypeOK, ChargeTurns
    <3> QED
      BY <1>2, <3>1, <3>2 DEF IInv, IntentInv, ChargeTurns, goods, Ordered
  <2> QED
    BY <2>1, <2>2 DEF IInv
<1> QED
  BY <1>1, <1>2 DEF customer_decides, customer_returns, paystack_reverses

LEMMA NextInv == IInv /\ [Next]_vars => IInv'
<1> SUFFICES ASSUME IInv, [Next]_vars PROVE IInv'
  OBVIOUS
<1>1. CASE UNCHANGED vars
  BY <1>1 DEF IInv, TypeOK, IntentInv, vars, goods, Paid, Ordered
<1>2. ASSUME NEW i \in Intents,
             \/ create_paystack_sale_intent(i) \/ verify_ask(i) \/ verify_apply(i)
             \/ handle_charge_success(i) \/ expire(i)
             \/ customer_decides(i) \/ customer_returns(i) \/ paystack_reverses(i)
      PROVE  IInv'
  BY <1>2, CreateStep, AskStep, ApplyStep, WebhookStep, OutsideStep
<1>3. ASSUME NEW w \in Walkins, record_sale(w) PROVE IInv'
  BY <1>3, RecordSaleStep
<1>4. ASSUME NEW s \in Sales, void_sale(s) PROVE IInv'
  BY <1>4, VoidStep
<1>5. ASSUME NEW k \in Items, NEW change \in Adjustments, adjust_stock(k, change) PROVE IInv'
  BY <1>5, AdjustStep
<1> QED
  BY <1>1, <1>2, <1>3, <1>4, <1>5 DEF Next

LEMMA Invariance == Spec => []IInv
BY InitInv, NextInv, PTL DEF Spec

-----------------------------------------------------------------------------
(* The properties *)

(* Every column keeps its type, and stock is never negative. *)
THEOREM SaleTypeCorrect == Spec => []TypeOK
<1>1. IInv => TypeOK
  BY DEF IInv
<1> QED
  BY <1>1, Invariance, PTL

(* No sale for a checkout that was never paid. *)
THEOREM NothingSoldUnpaid == Spec => []SoldWasPaid
<1>1. IInv => SoldWasPaid
  BY DEF IInv, IntentInv, SoldWasPaid
<1> QED
  BY <1>1, Invariance, PTL

(* The settlement wallet is credited for an intent exactly when its sale is recorded. *)
THEOREM CreditWithSale == Spec => []CreditedExactlyWhenSold
<1>1. IInv => CreditedExactlyWhenSold
  BY DEF IInv, IntentInv, CreditedExactlyWhenSold
<1> QED
  BY <1>1, Invariance, PTL

(* A payment that is a success has been credited. *)
THEOREM SuccessCredited == Spec => []SuccessIsCredited
<1>1. IInv => SuccessIsCredited
  BY DEF IInv, IntentInv, SuccessIsCredited
<1> QED
  BY <1>1, Invariance, PTL

(* Nothing is sold unpaid, a paid order has its sale and its credit together. *)
THEOREM CreditAlwaysFollowsSale == Spec => []CreditFollowsSale
BY NothingSoldUnpaid, CreditWithSale, SuccessCredited, PTL DEF CreditFollowsSale

(* A sale linked to its payment is whole and holds no reservation. *)
THEOREM LinkedWhole == Spec => []LinkedSaleIsWhole
<1>1. IInv => LinkedSaleIsWhole
  BY DEF IInv, TypeOK, IntentInv, LinkedSaleIsWhole
<1> QED
  BY <1>1, Invariance, PTL

(* A voided sale is not recorded again. *)
LEMMA VoidedStep ==
  ASSUME TypeOK, [Next]_vars, NEW s \in Sales, sale[s] = "voided"
  PROVE  sale'[s] = "voided"
<1>1. CASE UNCHANGED vars
  BY <1>1 DEF vars, goods
<1>2. ASSUME NEW t \in Sales, sale[t] = "none", sale' = [sale EXCEPT ![t] = "completed"]
      PROVE  sale'[s] = "voided"
  BY <1>2 DEF TypeOK
<1>3. ASSUME NEW i \in Intents,
             \/ create_paystack_sale_intent(i) \/ verify_ask(i) \/ expire(i)
             \/ customer_decides(i) \/ customer_returns(i) \/ paystack_reverses(i)
      PROVE  sale'[s] = "voided"
  BY <1>3 DEF create_paystack_sale_intent, verify_ask, expire, customer_decides,
              customer_returns, paystack_reverses, ChargeTurns, goods
<1>4. ASSUME NEW i \in Intents, verify_apply(i) \/ handle_charge_success(i)
      PROVE  sale'[s] = "voided"
  <2>1. i \in Sales
    BY DEF Sales
  <2>2. \/ finalize_verified_payment_intent(i) \/ finalize_half_way(i) \/ UNCHANGED goods
    BY <1>4 DEF verify_apply, handle_charge_success
  <2> QED
    BY <1>2, <2>1, <2>2
       DEF finalize_verified_payment_intent, finalize_half_way, Recordable, RecordWhole, goods
<1>5. ASSUME NEW w \in Walkins, record_sale(w) PROVE sale'[s] = "voided"
  BY <1>2, <1>5 DEF record_sale, Recordable, RecordWhole, Sales
<1>6. ASSUME NEW t \in Sales, void_sale(t) PROVE sale'[s] = "voided"
  BY <1>6 DEF void_sale, TypeOK
<1>7. ASSUME NEW k \in Items, NEW change \in Adjustments, adjust_stock(k, change)
      PROVE  sale'[s] = "voided"
  BY <1>7 DEF adjust_stock
<1> QED
  BY <1>1, <1>3, <1>4, <1>5, <1>6, <1>7 DEF Next

THEOREM VoidedForGood == Spec => VoidedStaysVoided
<1>1. TypeOK /\ [Next]_vars => [\A s \in Sales : sale[s] = "voided" => sale'[s] = "voided"]_vars
  BY VoidedStep
<1> QED
  BY <1>1, SaleTypeCorrect, PTL DEF Spec, VoidedStaysVoided

-----------------------------------------------------------------------------
(* Goods leave once *)

(* Standing sales that have taken an item from the stock, and how much they took. *)
Takers(k) == {s \in Sales : sale[s] = "completed" /\ k \in taken[s]}
TakenOf(k) == SumFunctionOnSet(QuantityOf(k), Takers(k))

Recorded == {s \in Sales : sale[s] # "none"}

(* What is missing from the stock is in a standing sale that took it, and a sale *)
(* that took an item gives at least that back when it is voided.                 *)
GoodsInv ==
  /\ IsFiniteSet(Recorded)
  /\ \A s \in Sales : taken[s] \subseteq sold_lines[s]
  /\ \A k \in Items : stock[k] >= InitialStock[k] + adjusted[k] - TakenOf(k)

(* What a sale takes: done of its lines leave the stock, more may be recorded. *)
Takes(s, done, more) ==
  /\ sale[s] = "none" /\ sale' = [sale EXCEPT ![s] = "completed"]
  /\ taken' = [taken EXCEPT ![s] = done]
  /\ sold_lines' = [sold_lines EXCEPT ![s] = done \cup more]
  /\ stock' = Deduct(s, done)
  /\ UNCHANGED adjusted

LEMMA Quantities ==
  ASSUME NEW k \in Items
  PROVE  /\ \A s \in Sales : QuantityOf(k)[s] = Lines[s][k] /\ QuantityOf(k)[s] \in Nat
         /\ QuantityOf(k)' = QuantityOf(k)
BY SaleAssumption DEF QuantityOf

(* Recording a sale is the only way in which goods are taken. *)
LEMMA GoodsKinds ==
  ASSUME TypeOK, [Next]_vars
  PROVE  \/ UNCHANGED <<goods, adjusted>>
         \/ \E s \in Sales, done \in SUBSET Items, more \in SUBSET Items : Takes(s, done, more)
         \/ \E s \in Sales : void_sale(s)
         \/ \E k \in Items, change \in Adjustments : adjust_stock(k, change)
<1> DEFINE Taken == \E s \in Sales, done \in SUBSET Items, more \in SUBSET Items : Takes(s, done, more)
<1>1. ASSUME NEW s \in Sales, Recordable(s), RecordWhole(s), UNCHANGED adjusted PROVE Taken
  <2>1. Ordered(s) \in SUBSET Items /\ Ordered(s) = Ordered(s) \cup {}
    BY DEF Ordered
  <2>2. Takes(s, Ordered(s), {})
    BY <1>1, <2>1 DEF Takes, Recordable, RecordWhole
  <2> QED BY <2>1, <2>2
<1>2. ASSUME NEW s \in Intents, finalize_half_way(s), UNCHANGED adjusted PROVE Taken
  <2>1. s \in Sales
    BY DEF Sales
  <2>2. PICK done \in SUBSET InStock(s), short \in Ordered(s) \ InStock(s) :
          /\ sale' = [sale EXCEPT ![s] = "completed"]
          /\ sold_lines' = [sold_lines EXCEPT ![s] = done \cup {short}]
          /\ taken' = [taken EXCEPT ![s] = done]
          /\ stock' = Deduct(s, done)
    BY <1>2 DEF finalize_half_way
  <2>3. done \in SUBSET Items /\ {short} \in SUBSET Items
    BY <2>1, StockType
  <2>4. Takes(s, done, {short})
    BY <1>2, <2>2 DEF Takes, finalize_half_way
  <2> QED BY <2>1, <2>3, <2>4
<1>3. ASSUME NEW i \in Intents, verify_apply(i) \/ handle_charge_success(i)
      PROVE  Taken \/ UNCHANGED <<goods, adjusted>>
  <2>1. i \in Sales
    BY DEF Sales
  <2>2. \/ finalize_verified_payment_intent(i) \/ finalize_half_way(i) \/ UNCHANGED goods
    BY <1>3 DEF verify_apply, handle_charge_success
  <2>3. UNCHANGED adjusted
    BY <1>3 DEF verify_apply, handle_charge_success
  <2> HIDE DEF Taken
  <2> QED BY <1>1, <1>2, <2>1, <2>2, <2>3 DEF finalize_verified_payment_intent
<1>4. ASSUME NEW i \in Intents,
             \/ create_paystack_sale_intent(i) \/ verify_ask(i) \/ expire(i)
             \/ customer_decides(i) \/ customer_returns(i) \/ paystack_reverses(i)
      PROVE  UNCHANGED <<goods, adjusted>>
  BY <1>4 DEF create_paystack_sale_intent, verify_ask, expire, customer_decides,
              customer_returns, paystack_reverses, ChargeTurns
<1>5. ASSUME NEW w \in Walkins, record_sale(w) PROVE Taken
  BY <1>1, <1>5 DEF record_sale, Sales
<1>6. UNCHANGED vars => UNCHANGED <<goods, adjusted>>
  BY DEF vars
<1> HIDE DEF Taken
<1>7. Taken \/ UNCHANGED <<goods, adjusted>> \/ (\E s \in Sales : void_sale(s))
        \/ \E k \in Items, change \in Adjustments : adjust_stock(k, change)
  BY <1>3, <1>4, <1>5, <1>6 DEF Next
<1> QED BY <1>7 DEF Taken

LEMMA GoodsInit == Init => GoodsInv
<1> SUFFICES ASSUME Init PROVE GoodsInv
  OBVIOUS
<1>1. Recorded = {} /\ \A k \in Items : Takers(k) = {}
  BY DEF Init, Recorded, Takers
<1>2. \A k \in Items : TakenOf(k) = 0
  BY <1>1, SumEmpty DEF TakenOf
<1>3. \A k \in Items : stock[k] = InitialStock[k] /\ InitialStock[k] \in Nat /\ adjusted[k] = 0
  BY SaleAssumption DEF Init
<1>4. \A s \in Sales : taken[s] \subseteq sold_lines[s]
  BY DEF Init
<1> QED BY <1>1, <1>2, <1>3, <1>4, FS_EmptySet DEF GoodsInv

(* The sum moves with the one sale that is recorded or voided. *)
LEMMA TakenMoves ==
  ASSUME TypeOK, GoodsInv, IsFiniteSet(Recorded'), NEW s \in Sales, NEW k \in Items,
         \A t \in Sales \ {s} : sale'[t] = sale[t] /\ taken'[t] = taken[t]
  PROVE  /\ TakenOf(k) \in Nat /\ TakenOf(k)' \in Nat
         /\ TakenOf(k)' - (IF s \in Takers(k)' THEN Lines[s][k] ELSE 0)
              = TakenOf(k) - (IF s \in Takers(k) THEN Lines[s][k] ELSE 0)
<1> DEFINE f == QuantityOf(k)
           S == Takers(k)
           T == Takers(k)'
<1>1. S \in SUBSET Recorded /\ T \in SUBSET (Recorded') /\ S \subseteq Sales /\ T \subseteq Sales
  BY DEF Takers, Recorded
<1>2. IsFiniteSet(S) /\ IsFiniteSet(T)
  BY <1>1, FS_Subset DEF GoodsInv
<1>3. S \ {s} = T \ {s}
  BY DEF Takers
<1>4. /\ \A t \in S \cup T : f[t] \in Nat
      /\ f[s] = Lines[s][k]
  BY <1>1, Quantities
<1>5. TakenOf(k) = SumFunctionOnSet(f, S) /\ TakenOf(k)' = SumFunctionOnSet(f, T)
  BY Quantities DEF TakenOf
<1> HIDE DEF f, S, T
<1>6. SumFunctionOnSet(f, S) \in Nat /\ SumFunctionOnSet(f, T) \in Nat
  BY <1>2, <1>4, SumType
<1>7. SumFunctionOnSet(f, T) - (IF s \in T THEN f[s] ELSE 0)
        = SumFunctionOnSet(f, S) - (IF s \in S THEN f[s] ELSE 0)
  BY <1>2, <1>3, <1>4, SumChange
<1> QED BY <1>4, <1>5, <1>6, <1>7 DEF S, T

LEMMA GoodsStep == TypeOK /\ GoodsInv /\ [Next]_vars => GoodsInv'
<1> SUFFICES ASSUME TypeOK, GoodsInv, [Next]_vars PROVE GoodsInv'
  OBVIOUS
<1>0. \A k \in Items : stock[k] \in Nat /\ InitialStock[k] \in Nat /\ adjusted[k] \in Int
  BY SaleAssumption DEF TypeOK
<1>1. CASE UNCHANGED <<goods, adjusted>>
  <2>1. Recorded' = Recorded /\ \A k \in Items : TakenOf(k)' = TakenOf(k)
    BY <1>1, Quantities DEF goods, Recorded, TakenOf, Takers
  <2> QED BY <1>1, <2>1 DEF GoodsInv, goods
<1>2. ASSUME NEW s \in Sales, NEW done \in SUBSET Items, NEW more \in SUBSET Items,
             Takes(s, done, more)
      PROVE  GoodsInv'
  <2>1. IsFiniteSet(Recorded')
    <3>1. Recorded' \in SUBSET (Recorded \cup {s}) /\ IsFiniteSet(Recorded)
      BY <1>2 DEF Takes, Recorded, TypeOK, GoodsInv
    <3> QED BY <3>1, FS_AddElement, FS_Subset
  <2>2. \A t \in Sales : taken'[t] \subseteq sold_lines'[t]
    BY <1>2 DEF Takes, TypeOK, GoodsInv
  <2>3. ASSUME NEW k \in Items
        PROVE  stock'[k] >= InitialStock[k] + adjusted'[k] - TakenOf(k)'
    <3>1. /\ \A t \in Sales \ {s} : sale'[t] = sale[t] /\ taken'[t] = taken[t]
          /\ s \notin Takers(k) /\ (s \in Takers(k)' <=> k \in done)
      BY <1>2 DEF Takes, TypeOK, Takers
    <3>2. stock'[k] = stock[k] - (IF k \in done THEN Lines[s][k] ELSE 0)
      BY <1>0, <1>2 DEF Takes, Deduct
    <3>3. /\ TakenOf(k) \in Nat /\ TakenOf(k)' \in Nat
          /\ TakenOf(k)' = TakenOf(k) + (IF k \in done THEN Lines[s][k] ELSE 0)
      <4>1. Lines[s][k] \in Nat
        BY SaleAssumption
      <4> QED BY <2>1, <3>1, <4>1, TakenMoves
    <3>4. stock[k] >= InitialStock[k] + adjusted[k] - TakenOf(k) /\ adjusted' = adjusted
          /\ Lines[s][k] \in Nat
      BY <1>2, SaleAssumption DEF GoodsInv, Takes
    <3> QED BY <1>0, <3>2, <3>3, <3>4
  <2> QED BY <2>1, <2>2, <2>3 DEF GoodsInv
<1>3. ASSUME NEW s \in Sales, void_sale(s) PROVE GoodsInv'
  <2>1. IsFiniteSet(Recorded')
    <3>1. Recorded' = Recorded
      BY <1>3 DEF void_sale, Recorded, TypeOK
    <3> QED BY <3>1 DEF GoodsInv
  <2>2. \A t \in Sales : taken'[t] \subseteq sold_lines'[t]
    BY <1>3 DEF void_sale, GoodsInv
  <2>3. ASSUME NEW k \in Items
        PROVE  stock'[k] >= InitialStock[k] + adjusted'[k] - TakenOf(k)'
    <3>1. /\ \A t \in Sales \ {s} : sale'[t] = sale[t] /\ taken'[t] = taken[t]
          /\ s \notin Takers(k)' /\ (s \in Takers(k) => k \in sold_lines[s])
      BY <1>3 DEF void_sale, TypeOK, Takers, GoodsInv
    <3>2. stock'[k] = stock[k] + (IF k \in sold_lines[s] THEN Lines[s][k] ELSE 0)
      BY <1>0, <1>3 DEF void_sale, Restore
    <3>3. /\ TakenOf(k) \in Nat /\ TakenOf(k)' \in Nat
          /\ TakenOf(k)' = TakenOf(k) - (IF s \in Takers(k) THEN Lines[s][k] ELSE 0)
      <4>1. Lines[s][k] \in Nat
        BY SaleAssumption
      <4> QED BY <2>1, <3>1, <4>1, TakenMoves
    <3>4. stock[k] >= InitialStock[k] + adjusted[k] - TakenOf(k) /\ adjusted' = adjusted
          /\ Lines[s][k] \in Nat
      BY <1>3, SaleAssumption DEF GoodsInv, void_sale
    <3> QED BY <1>0, <3>1, <3>2, <3>3, <3>4
  <2> QED BY <2>1, <2>2, <2>3 DEF GoodsInv
<1>4. ASSUME NEW j \in Items, NEW change \in Adjustments, adjust_stock(j, change)
      PROVE  GoodsInv'
  <2>1. Recorded' = Recorded /\ \A k \in Items : TakenOf(k)' = TakenOf(k)
    BY <1>4, Quantities DEF adjust_stock, Recorded, TakenOf, Takers
  <2>2. \A k \in Items : \/ stock'[k] = stock[k] /\ adjusted'[k] = adjusted[k]
                         \/ /\ stock'[k] = stock[k] + change
                            /\ adjusted'[k] = adjusted[k] + change
    BY <1>4 DEF adjust_stock, TypeOK
  <2>3. change \in Int
    BY SaleAssumption
  <2>4. \A k \in Items : TakenOf(k) \in Nat
    <3> TAKE k \in Items
    <3>1. Takers(k) \in SUBSET Recorded /\ Takers(k) \subseteq Sales
      BY DEF Takers, Recorded
    <3>2. IsFiniteSet(Takers(k)) /\ \A t \in Takers(k) : QuantityOf(k)[t] \in Nat
      BY <3>1, FS_Subset, Quantities DEF GoodsInv
    <3> QED BY <3>2, SumType DEF TakenOf
  <2>5. \A k \in Items : stock'[k] >= InitialStock[k] + adjusted'[k] - TakenOf(k)'
    BY <1>0, <2>1, <2>2, <2>3, <2>4 DEF GoodsInv
  <2> QED BY <1>4, <2>1, <2>5 DEF GoodsInv, adjust_stock
<1> QED BY <1>1, <1>2, <1>3, <1>4, GoodsKinds

(* The goods of a sale leave the stock at most once, whatever is polled, delivered *)
(* or retried.                                                                     *)
THEOREM GoodsLeaveAtMostOnce == Spec => []GoodsLeaveOnce
<1>1. TypeOK /\ GoodsInv => GoodsLeaveOnce
  <2> SUFFICES ASSUME TypeOK, GoodsInv, NEW k \in Items
               PROVE  stock[k] >= InitialStock[k] + adjusted[k] - SoldOf(k)
    BY DEF GoodsLeaveOnce
  <2> DEFINE Sold == {s \in Sales : sale[s] = "completed"}
  <2>1. Sold \in SUBSET Recorded /\ Takers(k) \in SUBSET Sold /\ Sold \subseteq Sales
    BY DEF Recorded, Takers
  <2>2. IsFiniteSet(Sold) /\ IsFiniteSet(Takers(k))
    BY <2>1, FS_Subset DEF GoodsInv
  <2>3. \A s \in Sold : QuantityOf(k)[s] \in Nat /\ QuantityOf(k)[s] <= QuantityOf(k)[s]
    BY <2>1, Quantities
  <2>4. SoldOf(k) = SumFunctionOnSet(QuantityOf(k), Sold)
    BY DEF SoldOf
  <2> HIDE DEF Sold
  <2>5. TakenOf(k) <= SoldOf(k) /\ TakenOf(k) \in Nat /\ SoldOf(k) \in Nat
    <3> DEFINE f == QuantityOf(k)
               T == Takers(k)
    <3>1. TakenOf(k) = SumFunctionOnSet(f, T) /\ T \in SUBSET Sold /\ IsFiniteSet(T)
          /\ \A x \in T : f[x] <= f[x]
      BY <2>1, <2>2, <2>3 DEF TakenOf
    <3>2. \A x \in Sold : f[x] \in Nat
      BY <2>3
    <3> HIDE DEF f, T
    <3>3. SumFunctionOnSet(f, T) <= SumFunctionOnSet(f, Sold)
      BY <2>2, <3>1, <3>2, SumMonotonic
    <3>4. SumFunctionOnSet(f, T) \in Nat /\ SumFunctionOnSet(f, Sold) \in Nat
      BY <2>2, <3>1, <3>2, SumType
    <3> QED BY <2>4, <3>1, <3>3, <3>4 DEF f
  <2>6. stock[k] \in Nat /\ InitialStock[k] \in Nat /\ adjusted[k] \in Int
    BY SaleAssumption DEF TypeOK
  <2> QED BY <2>5, <2>6 DEF GoodsInv
<1>2. Spec => []GoodsInv
  BY SaleTypeCorrect, GoodsInit, GoodsStep, PTL DEF Spec
<1> QED BY <1>1, <1>2, SaleTypeCorrect, PTL

-----------------------------------------------------------------------------
(* The shop without trouble: nobody at the counter, nothing goes wrong.  Stock *)
(* arrives, and leaves through orders only.                                    *)
NoTrouble == Hazards = {} /\ Walkins = {} /\ Adjustments \subseteq Nat

(* Payment, reservation and sale of an order tell the same story, and so does a *)
(* verify request in flight, which nothing can overtake.                        *)
OrderInv(i) ==
  /\ payment[i] # "reversed" /\ charge[i] # "reversed"
  /\ payment[i] = "none" <=> reservation[i] = "none"
  /\ payment[i] = "pending" <=> reservation[i] = "active"
  /\ payment[i] = "success" <=> reservation[i] = "completed"
  /\ payment[i] = "failed" <=> reservation[i] = "released"
  /\ payment[i] = "failed" => charge[i] = "abandoned"
  /\ payment[i] = "success" <=> i \in linked
  /\ sale[i] # "none" <=> i \in linked
  /\ asked[i] # NoRequest =>
       /\ asked[i].loaded = payment[i] /\ payment[i] # "success"
       /\ asked[i].answer = "failed" => charge[i] = "abandoned"
       /\ asked[i].answer = "success" => payment[i] = "pending"
       /\ asked[i].answer = "pending" => payment[i] = "pending"
       /\ asked[i].answer # "reversed"

ShopInv ==
  /\ expired = {} /\ IsFiniteSet(Holding) /\ IsFiniteSet(Recorded)
  /\ \A i \in Intents : OrderInv(i)
  /\ StockCoversOrders

Completed == {s \in Sales : sale[s] = "completed"}

(* All other orders than i keep what there is of them. *)
OthersKept(i) ==
  /\ expired' = {}
  /\ \A j \in Intents \ {i} :
       /\ payment'[j] = payment[j] /\ sale'[j] = sale[j] /\ reservation'[j] = reservation[j]
       /\ asked'[j] = asked[j] /\ charge'[j] = charge[j] /\ (j \in linked' <=> j \in linked)

LEMMA OthersInv ==
  ASSUME ShopInv, NEW i \in Intents, OthersKept(i), OrderInv(i)'
  PROVE  \A j \in Intents : OrderInv(j)'
<1>1. ASSUME NEW j \in Intents \ {i} PROVE OrderInv(j)'
  BY <1>1 DEF ShopInv, OrderInv, OthersKept, NoRequest
<1> QED BY <1>1

LEMMA TotalMoves ==
  ASSUME NEW S \in SUBSET Sales, NEW T \in SUBSET Sales, IsFiniteSet(S), IsFiniteSet(T),
         NEW s, S \ {s} = T \ {s}, NEW k \in Items
  PROVE  /\ SumFunctionOnSet(QuantityOf(k), S) \in Nat
         /\ SumFunctionOnSet(QuantityOf(k), T) \in Nat
         /\ SumFunctionOnSet(QuantityOf(k), T) - (IF s \in T THEN Lines[s][k] ELSE 0)
              = SumFunctionOnSet(QuantityOf(k), S) - (IF s \in S THEN Lines[s][k] ELSE 0)
<1> DEFINE f == QuantityOf(k)
<1>1. \A t \in S \cup T : f[t] \in Nat /\ f[t] = Lines[t][k]
  BY Quantities
<1> HIDE DEF f
<1>2. SumFunctionOnSet(f, S) \in Nat /\ SumFunctionOnSet(f, T) \in Nat
  BY <1>1, SumType
<1>3. SumFunctionOnSet(f, T) - (IF s \in T THEN f[s] ELSE 0)
        = SumFunctionOnSet(f, S) - (IF s \in S THEN f[s] ELSE 0)
  BY <1>1, SumChange
<1> QED BY <1>1, <1>2, <1>3 DEF f

(* What is held and what is sold move with the order that moves. *)
LEMMA ShopMoves ==
  ASSUME NoTrouble, ShopInv, NEW i \in Intents, OthersKept(i)
  PROVE  /\ IsFiniteSet(Holding)' /\ IsFiniteSet(Recorded)'
         /\ \A k \in Items :
              /\ {Reserved(k), Reserved(k)', SoldOf(k), SoldOf(k)'} \subseteq Nat
              /\ Lines[i][k] \in Nat
              /\ Reserved(k)' - (IF i \in Holding' THEN Lines[i][k] ELSE 0)
                   = Reserved(k) - (IF i \in Holding THEN Lines[i][k] ELSE 0)
              /\ SoldOf(k)' - (IF i \in Completed' THEN Lines[i][k] ELSE 0)
                   = SoldOf(k) - (IF i \in Completed THEN Lines[i][k] ELSE 0)
<1>1. Sales = Intents
  BY DEF NoTrouble, Sales
<1>2. /\ Holding' \in SUBSET (Holding \cup {i}) /\ Holding' \ {i} = Holding \ {i}
      /\ Holding \in SUBSET Sales /\ Holding' \in SUBSET Sales
  BY <1>1 DEF ShopInv, OthersKept, Holding
<1>3. /\ Recorded' \in SUBSET (Recorded \cup {i}) /\ Completed' \ {i} = Completed \ {i}
      /\ Completed \in SUBSET Sales /\ Completed' \in SUBSET Sales
      /\ Completed \in SUBSET Recorded /\ Completed' \in SUBSET (Recorded')
  BY <1>1 DEF OthersKept, Recorded, Completed
<1>4. IsFiniteSet(Holding) /\ IsFiniteSet(Recorded)
  BY DEF ShopInv
<1>5. IsFiniteSet(Holding') /\ IsFiniteSet(Recorded')
  BY <1>2, <1>3, <1>4, FS_AddElement, FS_Subset
<1>6. IsFiniteSet(Completed) /\ IsFiniteSet(Completed')
  BY <1>3, <1>4, <1>5, FS_Subset
<1>7. ASSUME NEW k \in Items
      PROVE  /\ {Reserved(k), Reserved(k)', SoldOf(k), SoldOf(k)'} \subseteq Nat
             /\ Lines[i][k] \in Nat
             /\ Reserved(k)' - (IF i \in Holding' THEN Lines[i][k] ELSE 0)
                  = Reserved(k) - (IF i \in Holding THEN Lines[i][k] ELSE 0)
             /\ SoldOf(k)' - (IF i \in Completed' THEN Lines[i][k] ELSE 0)
                  = SoldOf(k) - (IF i \in Completed THEN Lines[i][k] ELSE 0)
  <2>1. /\ Reserved(k) = SumFunctionOnSet(QuantityOf(k), Holding)
        /\ Reserved(k)' = SumFunctionOnSet(QuantityOf(k), Holding')
        /\ SoldOf(k) = SumFunctionOnSet(QuantityOf(k), Completed)
        /\ SoldOf(k)' = SumFunctionOnSet(QuantityOf(k), Completed')
    BY Quantities DEF Reserved, SoldOf, Completed
  <2>2. Lines[i][k] \in Nat
    BY <1>1, SaleAssumption
  <2>3. /\ {Reserved(k), Reserved(k)'} \subseteq Nat
        /\ Reserved(k)' - (IF i \in Holding' THEN Lines[i][k] ELSE 0)
             = Reserved(k) - (IF i \in Holding THEN Lines[i][k] ELSE 0)
    BY <1>2, <1>4, <1>5, <2>1, TotalMoves
  <2>4. /\ {SoldOf(k), SoldOf(k)'} \subseteq Nat
        /\ SoldOf(k)' - (IF i \in Completed' THEN Lines[i][k] ELSE 0)
             = SoldOf(k) - (IF i \in Completed THEN Lines[i][k] ELSE 0)
    BY <1>3, <1>6, <2>1, TotalMoves
  <2> QED BY <2>2, <2>3, <2>4
<1> QED BY <1>5, <1>7

(* Where an order stands, in the abstract shelf's words. *)
Standing(i) ==
  IF sale[i] = "voided" THEN "returned"
  ELSE IF payment[i] = "success" THEN "sold"
  ELSE IF payment[i] = "pending" THEN "aside"
  ELSE IF payment[i] = "failed" THEN "dropped" ELSE "none"
AllStand == \A i \in Intents : OrderInv(i) => OrderOf(i) = Standing(i)

LEMMA OrdersStand == TypeOK => AllStand
<1> SUFFICES ASSUME TypeOK, NEW i \in Intents, OrderInv(i) PROVE OrderOf(i) = Standing(i)
  BY DEF AllStand
<1>1. payment[i] \in {"none", "pending", "success", "failed"}
  BY DEF TypeOK, OrderInv
<1>2. sale[i] = "voided" => i \in linked
  BY DEF OrderInv
<1>3. CASE sale[i] = "voided"
  BY <1>3, <1>2 DEF OrderOf, Standing
<1>4. CASE sale[i] # "voided" /\ payment[i] = "success"
  BY <1>4 DEF OrderOf, OrderInv, Standing
<1>5. CASE sale[i] # "voided" /\ payment[i] = "pending"
  BY <1>5 DEF OrderOf, OrderInv, Standing
<1>6. CASE sale[i] # "voided" /\ payment[i] = "failed"
  BY <1>6 DEF OrderOf, OrderInv, Standing
<1>7. CASE sale[i] # "voided" /\ payment[i] = "none"
  BY <1>7 DEF OrderOf, OrderInv, Standing
<1> QED BY <1>1, <1>3, <1>4, <1>5, <1>6, <1>7

LEMMA OrdersStandNext == TypeOK' => AllStand'
BY OrdersStand, PTL

LEMMA OrderIs ==
  ASSUME TypeOK, TypeOK', NEW i \in Intents
  PROVE  /\ OrderInv(i) => OrderOf(i) = Standing(i)
         /\ OrderInv(i)' => OrderOf(i)' = Standing(i)'
BY OrdersStand, OrdersStandNext DEF AllStand

LEMMA OthersStand ==
  ASSUME TypeOK, TypeOK', ShopInv, NEW i \in Intents, OthersKept(i), OrderInv(i)',
         NEW j \in Intents \ {i}
  PROVE  OrderOf(j)' = OrderOf(j)
<1>1. payment'[j] = payment[j] /\ sale'[j] = sale[j]
  BY DEF OthersKept
<1>2. OrderInv(j) /\ OrderInv(j)'
  BY OthersInv DEF ShopInv
<1> QED BY <1>1, <1>2, OrderIs DEF Standing

LEMMA OrderMoves ==
  ASSUME TypeOK, TypeOK', ShopInv, NEW i \in Intents, OthersKept(i), OrderInv(i)',
         NEW from, NEW to, OrderOf(i) = from, OrderOf(i)' = to
  PROVE  Shelf!Move(i, from, to)
<1>1. \A j \in Intents \ {i} : OrderOf(j)' = OrderOf(j)
  BY OthersStand
<1>2. [j \in Intents |-> OrderOf(j)']
        = [[j \in Intents |-> OrderOf(j)] EXCEPT ![i] = to]
  BY <1>1
<1> QED BY <1>2 DEF Shelf!Move

(* An order that stays where it is, and the stock with it, is not seen. *)
LEMMA ShopRests ==
  ASSUME NoTrouble, TypeOK, TypeOK', ShopInv, NEW i \in Intents, OthersKept(i), OrderInv(i)',
         UNCHANGED <<stock, sale, adjusted>>, payment'[i] = payment[i],
         reservation'[i] = reservation[i]
  PROVE  ShopInv' /\ UNCHANGED Shelf!state
<1>1. Holding' = Holding /\ Recorded' = Recorded
  BY DEF ShopInv, OthersKept, Holding, Recorded
<1>2. \A k \in Items : Reserved(k)' = Reserved(k) /\ SoldOf(k)' = SoldOf(k)
  BY <1>1, Quantities DEF Reserved, SoldOf
<1>3. \A j \in Intents : OrderInv(j)'
  BY OthersInv
<1>4. ShopInv'
  BY <1>1, <1>2, <1>3 DEF ShopInv, StockCoversOrders, StockMatchesSales, ReservationsHonoured,
                          OthersKept
<1>5. OrderOf(i)' = OrderOf(i)
  BY OrderIs DEF ShopInv, Standing
<1>6. \A j \in Intents : OrderOf(j)' = OrderOf(j)
  BY <1>5, OthersStand
<1> QED BY <1>2, <1>4, <1>6 DEF Shelf!state

LEMMA ShopCreate ==
  ASSUME NoTrouble, IInv, TypeOK', ShopInv, NEW i \in Intents, create_paystack_sale_intent(i)
  PROVE  ShopInv' /\ Shelf!SetAside(i)
<1>1. OthersKept(i)
  BY DEF create_paystack_sale_intent, OthersKept, ShopInv, IInv, TypeOK, goods
<1>2. OrderInv(i) /\ IntentInv(i) /\ payment[i] = "none"
  BY DEF ShopInv, IInv, create_paystack_sale_intent
<1>3. /\ payment'[i] = "pending" /\ reservation'[i] = "active" /\ charge'[i] = "open"
      /\ asked' = asked /\ linked' = linked /\ sale' = sale /\ stock' = stock
      /\ adjusted' = adjusted /\ expired' = {}
  BY DEF create_paystack_sale_intent, IInv, TypeOK, goods, ShopInv
<1>4. asked[i] = NoRequest /\ sale[i] = "none" /\ i \notin linked /\ reservation[i] = "none"
  BY <1>2 DEF OrderInv, IntentInv, IInv, TypeOK, NoRequest
<1>5. OrderInv(i)'
  BY <1>3, <1>4 DEF OrderInv, NoRequest
<1>6. \A j \in Intents : OrderInv(j)'
  BY <1>1, <1>5, OthersInv
<1>7. /\ i \notin Holding /\ i \in Holding' /\ i \notin Completed /\ i \notin Completed'
  BY <1>3, <1>4 DEF Holding, Completed
<1>8. /\ IsFiniteSet(Holding)' /\ IsFiniteSet(Recorded)'
      /\ \A k \in Items : /\ Reserved(k)' = Reserved(k) + Lines[i][k] /\ SoldOf(k)' = SoldOf(k)
                           /\ {Reserved(k), SoldOf(k), Lines[i][k], stock[k]} \subseteq Nat
  <2>1. \A k \in Items : stock[k] \in Nat
    BY DEF IInv, TypeOK
  <2> QED BY <1>1, <1>7, <2>1, ShopMoves
<1>9. \A k \in Items : Lines[i][k] <= stock[k] - Reserved(k)
  <2> TAKE k \in Items
  <2>1. CASE k \in Ordered(i)
    BY <2>1 DEF create_paystack_sale_intent, Available
  <2>2. CASE k \notin Ordered(i)
    <3>1. Lines[i][k] = 0
      BY <1>8, <2>2 DEF Ordered
    <3>2. Reserved(k) <= stock[k]
      BY DEF ShopInv, StockCoversOrders, ReservationsHonoured
    <3> QED BY <1>8, <3>1, <3>2
  <2> QED BY <2>1, <2>2
<1>10. StockCoversOrders'
  <2>1. StockMatchesSales'
    BY <1>3, <1>8 DEF ShopInv, StockCoversOrders, StockMatchesSales
  <2>2. ReservationsHonoured'
    BY <1>3, <1>8, <1>9 DEF ReservationsHonoured
  <2> QED BY <2>1, <2>2 DEF StockCoversOrders
<1>11. OrderOf(i) = "none" /\ OrderOf(i)' = "aside"
  <2>1. OrderOf(i) = "none"
    BY <1>2, <1>4, OrderIs DEF IInv, Standing
  <2>2. OrderOf(i)' = "aside"
    BY <1>3, <1>4 DEF OrderOf
  <2> QED BY <2>1, <2>2
<1>12. Shelf!Move(i, "none", "aside")
  BY <1>1, <1>5, <1>11, OrderMoves DEF IInv
<1>13. [k \in Items |-> stock'[k] - Reserved(k)']
         = [k \in Items |-> [g \in Items |-> stock[g] - Reserved(g)][k] - Lines[i][k]]
  BY <1>3, <1>8
<1> QED BY <1>3, <1>6, <1>8, <1>9, <1>10, <1>12, <1>13
        DEF ShopInv, Shelf!SetAside, Shelf!TakeFromShelf

(* What is set aside for an order is there when it is paid. *)
LEMMA HeldIsThere ==
  ASSUME NoTrouble, TypeOK, ShopInv, NEW i \in Intents, i \in Holding
  PROVE  /\ InStock(i) = Ordered(i)
         /\ \A k \in Items : Lines[i][k] <= Reserved(k) /\ Reserved(k) \in Nat /\ Lines[i][k] \in Nat
<1>1. i \in Sales /\ Holding \subseteq Sales /\ IsFiniteSet(Holding) /\ \A k \in Items : stock[k] \in Nat
  BY DEF Sales, Holding, ShopInv, TypeOK
<1>2. ASSUME NEW k \in Items
      PROVE  Lines[i][k] <= Reserved(k) /\ Reserved(k) \in Nat /\ Lines[i][k] \in Nat
  <2> DEFINE f == QuantityOf(k)
  <2>1. \A t \in Holding : f[t] \in Nat /\ f[t] = Lines[t][k]
    BY <1>1, Quantities
  <2>2. Reserved(k) = SumFunctionOnSet(f, Holding) /\ Lines[i][k] \in Nat
    BY <1>1, SaleAssumption DEF Reserved
  <2> HIDE DEF f
  <2>3. SumFunctionOnSet(f, Holding) = f[i] + SumFunctionOnSet(f, Holding \ {i})
    BY <1>1, <2>1, SumRemove
  <2>4. IsFiniteSet(Holding \ {i}) /\ \A t \in Holding \ {i} : f[t] \in Nat
    BY <1>1, <2>1, FS_RemoveElement
  <2>5. SumFunctionOnSet(f, Holding \ {i}) \in Nat
    BY <2>4, SumType
  <2> QED BY <2>1, <2>2, <2>3, <2>5
<1>3. \A k \in Items : Reserved(k) <= stock[k]
  BY DEF ShopInv, StockCoversOrders, ReservationsHonoured
<1> QED BY <1>1, <1>2, <1>3 DEF InStock, Ordered

(* A paid order leaves the shelf as a whole. *)
LEMMA ShopFinalize ==
  ASSUME NoTrouble, IInv, TypeOK', ShopInv, NEW i \in Intents, OthersKept(i), i \in Holding,
         finalize_verified_payment_intent(i), payment'[i] = "success", asked'[i] = NoRequest,
         charge'[i] # "reversed", adjusted' = adjusted
  PROVE  ShopInv' /\ Shelf!Sell(i)
<1>1. OrderInv(i) /\ i \in Sales /\ payment[i] = "pending" /\ sale[i] = "none"
  BY DEF ShopInv, Holding, Sales, OrderInv, finalize_verified_payment_intent, Recordable
<1>2. /\ sale'[i] = "completed" /\ i \in linked' /\ reservation'[i] = "completed"
      /\ stock' = Deduct(i, Ordered(i))
  BY <1>1 DEF finalize_verified_payment_intent, RecordWhole, IInv, TypeOK, CompletedReservation,
              Holding
<1>3. OrderInv(i)'
  BY <1>2 DEF OrderInv
<1>4. \A j \in Intents : OrderInv(j)'
  BY <1>3, OthersInv
<1>5. i \notin Holding' /\ i \notin Completed /\ i \in Completed'
  BY <1>1, <1>2 DEF Holding, Completed
<1>6. ASSUME NEW k \in Items
      PROVE  /\ stock'[k] = stock[k] - Lines[i][k] /\ Reserved(k)' = Reserved(k) - Lines[i][k]
             /\ SoldOf(k)' = SoldOf(k) + Lines[i][k]
             /\ {stock[k], Reserved(k), SoldOf(k), Lines[i][k], Reserved(k)'} \subseteq Nat
  <2>1. stock[k] \in Nat /\ Lines[i][k] \in Nat
    BY <1>1, SaleAssumption DEF IInv, TypeOK
  <2>2. stock'[k] = IF k \in Ordered(i) THEN stock[k] - Lines[i][k] ELSE stock[k]
    BY <1>2 DEF Deduct
  <2>3. k \notin Ordered(i) => Lines[i][k] = 0
    BY <2>1 DEF Ordered
  <2> QED BY <1>5, <2>1, <2>2, <2>3, ShopMoves
<1>7. StockCoversOrders'
  <2>1. StockMatchesSales'
    <3>1. \A k \in Items : InitialStock[k] \in Nat /\ adjusted[k] \in Int
      BY SaleAssumption DEF IInv, TypeOK
    <3> QED BY <1>6, <3>1 DEF ShopInv, StockCoversOrders, StockMatchesSales
  <2>2. ReservationsHonoured'
    BY <1>6 DEF ShopInv, StockCoversOrders, ReservationsHonoured
  <2> QED BY <2>1, <2>2 DEF StockCoversOrders
<1>8. ShopInv'
  BY <1>4, <1>7, ShopMoves DEF ShopInv, OthersKept
<1>9. OrderOf(i) = "aside" /\ OrderOf(i)' = "sold"
  BY <1>1, <1>2, <1>3, OrderIs DEF IInv, Standing
<1>10. Shelf!Move(i, "aside", "sold")
  BY <1>3, <1>9, OrderMoves DEF IInv
<1>11. \A k \in Items : stock'[k] - Reserved(k)' = stock[k] - Reserved(k)
  BY <1>6
<1> QED BY <1>8, <1>10, <1>11 DEF Shelf!Sell

LEMMA ShopVoid ==
  ASSUME NoTrouble, IInv, TypeOK', ShopInv, NEW i \in Intents, void_sale(i)
  PROVE  ShopInv' /\ Shelf!Return(i)
<1>1. i \in Sales /\ OthersKept(i)
  BY DEF Sales, void_sale, OthersKept, ShopInv, IInv, TypeOK
<1>2. /\ OrderInv(i) /\ i \in linked /\ payment[i] = "success" /\ sale[i] = "completed"
      /\ sold_lines[i] = Ordered(i)
  BY DEF ShopInv, OrderInv, IInv, IntentInv, void_sale
<1>3. /\ sale'[i] = "voided" /\ stock' = Restore(i, Ordered(i))
      /\ UNCHANGED <<payment, linked, reservation, adjusted, asked, charge>>
  BY <1>1, <1>2 DEF void_sale, IInv, TypeOK
<1>4. OrderInv(i)'
  BY <1>2, <1>3 DEF OrderInv, NoRequest
<1>5. \A j \in Intents : OrderInv(j)'
  BY <1>1, <1>4, OthersInv
<1>6. i \notin Holding /\ i \notin Holding' /\ i \in Completed /\ i \notin Completed'
  BY <1>1, <1>2, <1>3 DEF Holding, Completed, OrderInv
<1>7. ASSUME NEW k \in Items
      PROVE  /\ stock'[k] = stock[k] + Lines[i][k] /\ Reserved(k)' = Reserved(k)
             /\ SoldOf(k)' = SoldOf(k) - Lines[i][k]
             /\ {stock[k], Reserved(k), SoldOf(k), Lines[i][k]} \subseteq Nat
  <2>1. stock[k] \in Nat /\ Lines[i][k] \in Nat
    BY <1>1, SaleAssumption DEF IInv, TypeOK
  <2>2. stock'[k] = IF k \in Ordered(i) THEN stock[k] + Lines[i][k] ELSE stock[k]
    BY <1>3 DEF Restore
  <2>3. k \notin Ordered(i) => Lines[i][k] = 0
    BY <2>1 DEF Ordered
  <2> QED BY <1>1, <1>6, <2>1, <2>2, <2>3, ShopMoves
<1>8. StockCoversOrders'
  <2>1. StockMatchesSales'
    <3>1. \A k \in Items : InitialStock[k] \in Nat /\ adjusted[k] \in Int
      BY SaleAssumption DEF IInv, TypeOK
    <3> QED BY <1>3, <1>7, <3>1 DEF ShopInv, StockCoversOrders, StockMatchesSales
  <2>2. ReservationsHonoured'
    BY <1>7 DEF ShopInv, StockCoversOrders, ReservationsHonoured
  <2> QED BY <2>1, <2>2 DEF StockCoversOrders
<1>9. ShopInv'
  BY <1>1, <1>5, <1>8, ShopMoves DEF ShopInv, OthersKept
<1>10. OrderOf(i) = "sold" /\ OrderOf(i)' = "returned"
  BY <1>2, <1>3, <1>4, OrderIs DEF IInv, Standing
<1>11. Shelf!Move(i, "sold", "returned")
  BY <1>1, <1>4, <1>10, OrderMoves DEF IInv
<1>12. [k \in Items |-> stock'[k] - Reserved(k)']
         = [k \in Items |-> [g \in Items |-> stock[g] - Reserved(g)][k] + Lines[i][k]]
  BY <1>7
<1> QED BY <1>9, <1>11, <1>12 DEF Shelf!Return, Shelf!PutOnShelf

LEMMA ShopRelease ==
  ASSUME NoTrouble, IInv, TypeOK', ShopInv, NEW i \in Intents, OthersKept(i), i \in Holding,
         UNCHANGED <<goods, linked, adjusted>>, payment'[i] = "failed",
         reservation'[i] = "released", asked'[i] = NoRequest, charge'[i] = "abandoned"
  PROVE  ShopInv' /\ Shelf!Drop(i)
<1>1. OrderInv(i) /\ payment[i] = "pending" /\ sale[i] = "none" /\ i \notin linked
  BY DEF ShopInv, OrderInv, Holding, IInv, TypeOK
<1>2. OrderInv(i)'
  BY <1>1 DEF OrderInv, goods
<1>3. \A j \in Intents : OrderInv(j)'
  BY <1>2, OthersInv
<1>4. i \notin Holding' /\ i \notin Completed /\ i \notin Completed'
  BY <1>1 DEF Holding, Completed, goods
<1>5. ASSUME NEW k \in Items
      PROVE  /\ stock'[k] = stock[k] /\ Reserved(k)' = Reserved(k) - Lines[i][k]
             /\ SoldOf(k)' = SoldOf(k)
             /\ {stock[k], Reserved(k), SoldOf(k), Lines[i][k], Reserved(k)'} \subseteq Nat
  <2>1. stock[k] \in Nat /\ stock' = stock
    BY DEF IInv, TypeOK, goods
  <2> QED BY <1>4, <2>1, ShopMoves
<1>6. StockCoversOrders'
  BY <1>5 DEF ShopInv, StockCoversOrders, StockMatchesSales, ReservationsHonoured
<1>7. ShopInv'
  BY <1>3, <1>6, ShopMoves DEF ShopInv, OthersKept
<1>8. OrderOf(i) = "aside" /\ OrderOf(i)' = "dropped"
  BY <1>1, <1>2, OrderIs DEF IInv, Standing, goods
<1>9. Shelf!Move(i, "aside", "dropped")
  BY <1>2, <1>8, OrderMoves DEF IInv
<1>10. [k \in Items |-> stock'[k] - Reserved(k)']
         = [k \in Items |-> [g \in Items |-> stock[g] - Reserved(g)][k] + Lines[i][k]]
  BY <1>5
<1> QED BY <1>7, <1>9, <1>10 DEF Shelf!Drop, Shelf!PutOnShelf

LEMMA ShopInit == ASSUME NoTrouble, Init PROVE ShopInv /\ Shelf!Init
<1>1. Holding = {} /\ Recorded = {} /\ Completed = {} /\ IsFiniteSet({})
  BY FS_EmptySet DEF Init, Holding, Recorded, Completed
<1>2. \A k \in Items : Reserved(k) = 0 /\ SoldOf(k) = 0 /\ InitialStock[k] \in Nat
  BY <1>1, SumEmpty, SaleAssumption DEF Reserved, SoldOf, Completed
<1>3. \A i \in Intents : OrderInv(i)
  BY DEF Init, OrderInv, NoRequest, Sales
<1>4. StockCoversOrders
  BY <1>2 DEF Init, StockCoversOrders, StockMatchesSales, ReservationsHonoured
<1>5. ShopInv
  BY <1>1, <1>3, <1>4 DEF ShopInv, Init
<1>6. \A i \in Intents : OrderOf(i) = "none"
  BY DEF Init, OrderOf, Sales
<1>7. [k \in Items |-> stock[k] - Reserved(k)] = InitialStock
  BY <1>2, SaleAssumption DEF Init
<1> QED BY <1>5, <1>6, <1>7 DEF Shelf!Init

LEMMA ShopAdjust ==
  ASSUME NoTrouble, IInv, TypeOK', ShopInv, NEW k \in Items, NEW change \in Adjustments,
         adjust_stock(k, change)
  PROVE  ShopInv' /\ Shelf!Restock
<1>1. /\ change \in Nat /\ stock \in [Items -> Nat] /\ stock' \in [Items -> Nat]
      /\ adjusted \in [Items -> Int] /\ InitialStock \in [Items -> Nat]
  BY SaleAssumption DEF NoTrouble, IInv, TypeOK
<1>2. /\ stock' = [stock EXCEPT ![k] = stock[k] + change]
      /\ adjusted' = [adjusted EXCEPT ![k] = adjusted[k] + change]
      /\ UNCHANGED <<sale, payment, linked, reservation, expired, asked, charge>>
  BY DEF adjust_stock
<1>3. Holding' = Holding /\ Recorded' = Recorded /\ Completed' = Completed
  BY <1>2 DEF Holding, Recorded, Completed
<1>4. \A g \in Items :
        /\ Reserved(g)' = Reserved(g) /\ SoldOf(g)' = SoldOf(g)
        /\ Reserved(g) \in Nat /\ SoldOf(g) \in Nat
  <2>1. /\ Holding \in SUBSET Sales /\ Completed \in SUBSET Sales
        /\ IsFiniteSet(Holding) /\ IsFiniteSet(Completed)
    <3>1. Holding \in SUBSET Sales /\ Completed \in SUBSET Sales /\ Completed \in SUBSET Recorded
      BY DEF Sales, Holding, Completed, Recorded
    <3> QED BY <3>1, FS_Subset DEF ShopInv
  <2> TAKE g \in Items
  <2>2. /\ Reserved(g) = SumFunctionOnSet(QuantityOf(g), Holding)
        /\ Reserved(g)' = SumFunctionOnSet(QuantityOf(g), Holding')
        /\ SoldOf(g) = SumFunctionOnSet(QuantityOf(g), Completed)
        /\ SoldOf(g)' = SumFunctionOnSet(QuantityOf(g), Completed')
    BY Quantities DEF Reserved, SoldOf, Completed
  <2>3. \A s \in Sales : QuantityOf(g)[s] \in Nat
    BY Quantities, SaleAssumption
  <2> DEFINE f == QuantityOf(g)
             H == Holding
             C == Completed
  <2>4. \A s \in H \cup C : f[s] \in Nat
    BY <2>1, <2>3
  <2>5. IsFiniteSet(H) /\ IsFiniteSet(C)
    BY <2>1
  <2> HIDE DEF f, H, C
  <2>6. SumFunctionOnSet(f, H) \in Nat /\ SumFunctionOnSet(f, C) \in Nat
    BY <2>4, <2>5, SumType
  <2> QED BY <1>3, <2>2, <2>6 DEF f, H, C
<1>5. \A i \in Intents : OrderInv(i)'
  BY <1>2 DEF ShopInv, OrderInv
<1>6. StockCoversOrders'
  <2>1. ASSUME NEW g \in Items
        PROVE  /\ stock'[g] = InitialStock[g] + adjusted'[g] - SoldOf(g)'
               /\ Reserved(g)' <= stock'[g]
    <3>1. stock[g] = InitialStock[g] + adjusted[g] - SoldOf(g) /\ Reserved(g) <= stock[g]
      BY DEF ShopInv, StockCoversOrders, StockMatchesSales, ReservationsHonoured
    <3> QED BY <1>1, <1>2, <1>4, <3>1
  <2> QED BY <2>1 DEF StockCoversOrders, StockMatchesSales, ReservationsHonoured
<1>7. ShopInv'
  BY <1>2, <1>3, <1>5, <1>6 DEF ShopInv
<1>8. \A i \in Intents : OrderOf(i)' = OrderOf(i)
  BY <1>2 DEF OrderOf
<1>9. \A g \in Items :
        /\ stock'[g] - Reserved(g)' \in Nat
        /\ stock'[g] - Reserved(g)' >= stock[g] - Reserved(g)
  <2> TAKE g \in Items
  <2>1. Reserved(g) <= stock[g]
    BY DEF ShopInv, StockCoversOrders, ReservationsHonoured
  <2> QED BY <1>1, <1>2, <1>4, <2>1
<1> QED BY <1>7, <1>8, <1>9 DEF Shelf!Restock

(* A request loads the payment as it is, and is answered by the checkout as it is. *)
LEMMA ShopAsk ==
  ASSUME NoTrouble, IInv, TypeOK', ShopInv, NEW i \in Intents, verify_ask(i)
  PROVE  ShopInv' /\ UNCHANGED Shelf!state
<1>1. PICK a \in PaystackSays(i) : asked' = [asked EXCEPT ![i] = [loaded |-> payment[i], answer |-> a]]
  BY DEF verify_ask, ShopInv
<1>2. /\ UNCHANGED <<stock, sale, adjusted, payment, linked, reservation, expired, charge>>
      /\ payment[i] # "none" /\ i \notin linked
  BY DEF verify_ask, goods
<1>3. OrderInv(i) /\ IntentInv(i)
  BY DEF ShopInv, IInv
<1>4. /\ charge[i] \in {"open", "abandoned", "success"}
      /\ payment[i] \in {"pending", "failed"}
  BY <1>2, <1>3 DEF OrderInv, IntentInv, IInv, TypeOK
<1>5. /\ a = "failed" => charge[i] = "abandoned"
      /\ a = "success" => charge[i] = "success"
      /\ a = "pending" => charge[i] = "open"
      /\ a # "reversed"
  BY <1>4 DEF PaystackSays, NoTrouble
<1>6. asked'[i] = [loaded |-> payment[i], answer |-> a]
  BY <1>1 DEF IInv, TypeOK
<1>7. OrderInv(i)'
  BY <1>2, <1>3, <1>4, <1>5, <1>6 DEF OrderInv
<1>8. OthersKept(i)
  BY <1>1, <1>2 DEF OthersKept, ShopInv
<1> QED BY <1>2, <1>7, <1>8, ShopRests DEF IInv

(* Nothing has overtaken the request: what it writes continues what it loaded. *)
LEMMA ShopApply ==
  ASSUME NoTrouble, IInv, TypeOK', ShopInv, NEW i \in Intents, verify_apply(i)
  PROVE  ShopInv' /\ (UNCHANGED Shelf!state \/ Shelf!Drop(i) \/ Shelf!Sell(i))
<1>1. OrderInv(i) /\ IntentInv(i) /\ asked[i] # NoRequest
  BY DEF ShopInv, IInv, verify_apply
<1>2. /\ asked[i].loaded = payment[i] /\ payment[i] \in {"pending", "failed"}
      /\ asked[i].answer = "failed" => charge[i] = "abandoned"
      /\ asked[i].answer \in {"success", "pending"} => payment[i] = "pending"
      /\ asked[i].answer # "reversed"
  <2>1. asked[i].loaded = "none" => asked[i].answer = "none"
    BY <1>1 DEF IntentInv
  <2>2. asked[i] = [loaded |-> asked[i].loaded, answer |-> asked[i].answer]
    BY DEF IInv, TypeOK
  <2>3. payment[i] # "none"
    BY <1>1, <2>1, <2>2 DEF OrderInv, NoRequest
  <2> QED BY <1>1, <2>3 DEF OrderInv, IInv, TypeOK
<1>3. /\ asked'[i] = NoRequest /\ charge' = charge /\ expired' = expired /\ adjusted' = adjusted
      /\ \A j \in Intents \ {i} : asked'[j] = asked[j]
  BY DEF verify_apply, IInv, TypeOK
<1>4. i \in Holding <=> payment[i] = "pending"
  BY <1>1 DEF Holding, ShopInv, OrderInv
<1>5. CASE asked[i].answer = "pending"
  <2>1. UNCHANGED <<stock, sale, linked, reservation>> /\ payment' = payment
    BY <1>2, <1>5 DEF verify_apply, IInv, TypeOK, goods
  <2>2. OrderInv(i)'
    BY <1>1, <1>3, <2>1 DEF OrderInv
  <2>3. OthersKept(i)
    BY <1>3, <2>1 DEF OthersKept, ShopInv
  <2> QED BY <1>3, <2>1, <2>2, <2>3, ShopRests DEF IInv
<1>6. CASE asked[i].answer = "failed" /\ payment[i] = "pending"
  <2>1. UNCHANGED <<goods, linked>> /\ payment' = [payment EXCEPT ![i] = "failed"]
    BY <1>2, <1>6 DEF verify_apply, IInv, TypeOK
  <2>2. reservation' = [reservation EXCEPT ![i] = Released(i)]
    BY <1>6 DEF verify_apply
  <2>3. payment'[i] = "failed" /\ reservation'[i] = "released"
    BY <1>1, <1>6, <2>1, <2>2 DEF IInv, TypeOK, OrderInv, Released
  <2>4. OthersKept(i)
    BY <1>3, <2>1, <2>2 DEF OthersKept, ShopInv, goods, IInv, TypeOK
  <2>5. i \in Holding /\ charge'[i] = "abandoned"
    BY <1>2, <1>3, <1>4, <1>6
  <2> QED BY <1>3, <2>1, <2>3, <2>4, <2>5, ShopRelease
<1>7. CASE asked[i].answer = "failed" /\ payment[i] = "failed"
  <2>1. UNCHANGED <<stock, sale, linked>> /\ payment' = payment
    BY <1>2, <1>7 DEF verify_apply, IInv, TypeOK, goods
  <2>2. reservation' = reservation
    BY <1>1, <1>7 DEF verify_apply, IInv, TypeOK, OrderInv, Released
  <2>3. OrderInv(i)'
    BY <1>1, <1>3, <2>1, <2>2 DEF OrderInv
  <2>4. OthersKept(i)
    BY <1>3, <2>1, <2>2 DEF OthersKept, ShopInv
  <2> QED BY <1>3, <2>1, <2>2, <2>3, <2>4, ShopRests DEF IInv
<1>8. CASE asked[i].answer = "success"
  <2>1. i \in Holding /\ sale[i] = "none"
    BY <1>1, <1>2, <1>4, <1>8 DEF OrderInv
  <2>2. Recordable(i)
    BY <2>1, HeldIsThere DEF Recordable, IInv
  <2>3. /\ finalize_verified_payment_intent(i)
        /\ payment' = [payment EXCEPT ![i] = "success"]
    BY <1>2, <1>8, <2>2 DEF verify_apply
  <2>4. OthersKept(i)
    <3>1. \A j \in Intents \ {i} : sale'[j] = sale[j] /\ reservation'[j] = reservation[j]
      BY <2>3, FinalizeEffect DEF IInv
    <3>2. linked' = linked \cup {i}
      BY <2>3, FinalizeEffect DEF IInv
    <3>3. \A j \in Intents \ {i} : payment'[j] = payment[j]
      BY <2>3 DEF IInv, TypeOK
    <3> QED BY <1>3, <3>1, <3>2, <3>3 DEF OthersKept, ShopInv
  <2>5. payment'[i] = "success" /\ charge'[i] # "reversed"
    BY <1>1, <1>3, <2>3 DEF IInv, TypeOK, OrderInv
  <2> QED BY <1>3, <2>1, <2>3, <2>4, <2>5, ShopFinalize
<1> QED
  <2>1. asked[i].answer \in {"pending", "success", "failed", "reversed"}
    BY DEF verify_apply
  <2> QED BY <1>2, <1>5, <1>6, <1>7, <1>8, <2>1

LEMMA ShopWebhook ==
  ASSUME NoTrouble, IInv, TypeOK', ShopInv, NEW i \in Intents, handle_charge_success(i)
  PROVE  ShopInv' /\ (UNCHANGED Shelf!state \/ Shelf!Sell(i))
<1>1. /\ OrderInv(i) /\ IntentInv(i) /\ charge[i] = "success" /\ asked[i] = NoRequest
      /\ UNCHANGED <<expired, adjusted, asked, charge>>
  BY DEF ShopInv, IInv, handle_charge_success, NoTrouble, Paid, OrderInv
<1>2. CASE payment[i] = "success"
  <2>1. UNCHANGED <<goods, payment, linked, reservation>>
    BY <1>2 DEF handle_charge_success
  <2>2. OrderInv(i)'
    BY <1>1, <2>1 DEF OrderInv, goods
  <2>3. OthersKept(i)
    BY <1>1, <2>1 DEF OthersKept, ShopInv, goods
  <2> QED BY <1>1, <2>1, <2>2, <2>3, ShopRests DEF IInv, goods
<1>3. CASE payment[i] # "success"
  <2>1. payment[i] = "pending" /\ i \in Holding /\ sale[i] = "none"
    BY <1>1, <1>3 DEF OrderInv, IntentInv, IInv, TypeOK, Holding, ShopInv
  <2>2. InStock(i) = Ordered(i)
    BY <2>1, HeldIsThere DEF IInv
  <2>3. ~finalize_half_way(i)
    BY <2>2 DEF finalize_half_way
  <2>4. /\ finalize_verified_payment_intent(i)
        /\ payment' = [payment EXCEPT ![i] = "success"]
    BY <1>3, <2>3 DEF handle_charge_success, NoTrouble
  <2>5. OthersKept(i)
    <3>1. \A j \in Intents \ {i} : sale'[j] = sale[j] /\ reservation'[j] = reservation[j]
      BY <2>4, FinalizeEffect DEF IInv
    <3>2. linked' = linked \cup {i}
      BY <2>4, FinalizeEffect DEF IInv
    <3>3. \A j \in Intents \ {i} : payment'[j] = payment[j]
      BY <2>4 DEF IInv, TypeOK
    <3> QED BY <1>1, <3>1, <3>2, <3>3 DEF OthersKept, ShopInv
  <2>6. payment'[i] = "success" /\ charge'[i] # "reversed" /\ asked'[i] = NoRequest
    BY <1>1, <2>4 DEF IInv, TypeOK
  <2> QED BY <1>1, <2>1, <2>4, <2>5, <2>6, ShopFinalize
<1> QED BY <1>2, <1>3

LEMMA ShopCustomer ==
  ASSUME NoTrouble, IInv, TypeOK', ShopInv, NEW i \in Intents, customer_decides(i)
  PROVE  ShopInv' /\ UNCHANGED Shelf!state
<1>1. /\ charge[i] = "open" /\ charge'[i] \in {"success", "abandoned"}
      /\ \A j \in Intents \ {i} : charge'[j] = charge[j]
      /\ UNCHANGED <<stock, sale, payment, linked, reservation, expired, adjusted, asked>>
  BY DEF customer_decides, ChargeTurns, goods, IInv, TypeOK
<1>2. OrderInv(i)
  BY DEF ShopInv
<1>3. OrderInv(i)'
  BY <1>1, <1>2 DEF OrderInv
<1>4. OthersKept(i)
  BY <1>1 DEF OthersKept, ShopInv
<1> QED BY <1>1, <1>3, <1>4, ShopRests DEF IInv

LEMMA ShopStep ==
  NoTrouble /\ IInv /\ TypeOK' /\ ShopInv /\ [Next]_vars => ShopInv' /\ [Shelf!Next]_(Shelf!state)
<1> SUFFICES ASSUME NoTrouble, IInv, TypeOK', ShopInv, [Next]_vars
             PROVE  ShopInv' /\ (Shelf!Next \/ UNCHANGED Shelf!state)
  OBVIOUS
<1>1. CASE UNCHANGED vars
  <2>1. UNCHANGED <<stock, sale, payment, linked, reservation, expired, adjusted, asked, charge>>
    BY <1>1 DEF vars, goods
  <2>2. Holding' = Holding /\ Recorded' = Recorded
    BY <2>1 DEF Holding, Recorded
  <2>3. \A k \in Items : Reserved(k)' = Reserved(k) /\ SoldOf(k)' = SoldOf(k)
    BY <2>1, <2>2, Quantities DEF Reserved, SoldOf
  <2>4. \A i \in Intents : OrderInv(i)' /\ OrderOf(i)' = OrderOf(i)
    BY <2>1 DEF ShopInv, OrderInv, OrderOf
  <2>5. ShopInv'
    BY <2>1, <2>2, <2>3, <2>4
       DEF ShopInv, StockCoversOrders, StockMatchesSales, ReservationsHonoured
  <2> QED BY <2>1, <2>3, <2>4, <2>5 DEF Shelf!state
<1>2. ASSUME NEW i \in Intents,
             \/ create_paystack_sale_intent(i) \/ verify_ask(i) \/ verify_apply(i)
             \/ handle_charge_success(i) \/ expire(i)
             \/ customer_decides(i) \/ customer_returns(i) \/ paystack_reverses(i)
      PROVE  ShopInv' /\ (Shelf!Next \/ UNCHANGED Shelf!state)
  <2>1. ~expire(i) /\ ~customer_returns(i) /\ ~paystack_reverses(i)
    BY DEF NoTrouble, expire, customer_returns, paystack_reverses
  <2>2. CASE create_paystack_sale_intent(i)
    BY <2>2, ShopCreate DEF Shelf!Next
  <2>3. CASE verify_ask(i) \/ customer_decides(i)
    BY <2>3, ShopAsk, ShopCustomer
  <2>4. CASE verify_apply(i)
    BY <2>4, ShopApply DEF Shelf!Next
  <2>5. CASE handle_charge_success(i)
    BY <2>5, ShopWebhook DEF Shelf!Next
  <2> QED BY <1>2, <2>1, <2>2, <2>3, <2>4, <2>5
<1>3. ASSUME NEW w \in Walkins, record_sale(w) PROVE FALSE
  BY DEF NoTrouble
<1>4. ASSUME NEW s \in Sales, void_sale(s)
      PROVE  ShopInv' /\ (Shelf!Next \/ UNCHANGED Shelf!state)
  <2>1. s \in Intents
    BY DEF NoTrouble, Sales
  <2> QED BY <1>4, <2>1, ShopVoid DEF Shelf!Next
<1>5. ASSUME NEW k \in Items, NEW change \in Adjustments, adjust_stock(k, change)
      PROVE  ShopInv' /\ (Shelf!Next \/ UNCHANGED Shelf!state)
  BY <1>5, ShopAdjust DEF Shelf!Next
<1> QED BY <1>1, <1>2, <1>3, <1>4, <1>5 DEF Next

(* Without walk-in sales, withdrawals, expiry and lost requests the stock is what
   the standing sales and the deliveries leave of the first stock, and every live
   reservation is covered by it. *)
THEOREM StockCovers ==
  ASSUME NoTrouble PROVE Spec => []StockCoversOrders
<1>1. ShopInv => StockCoversOrders
  BY DEF ShopInv
<1>2. Init => ShopInv
  BY ShopInit
<1> QED BY <1>1, <1>2, Invariance, SaleTypeCorrect, ShopStep, PTL DEF Spec

(* In the same shop the service implements the shelf: what is ordered online is set
   aside only if it is there, and leaves the shop as a whole and once, or goes back. *)
THEOREM ShelfKept ==
  ASSUME NoTrouble PROVE Spec => ImplementsShelf
<1>1. Init => ShopInv /\ Shelf!Init
  BY ShopInit
<1> QED BY <1>1, Invariance, SaleTypeCorrect, ShopStep, PTL DEF Spec, ImplementsShelf, Shelf!Spec
===============================================================================
