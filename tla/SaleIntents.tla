------------------------------ MODULE SaleIntents ------------------------------
(***************************************************************************)
(* Online sales of one shop (modules/sales, modules/payments,              *)
(* modules/inventory): a payment intent reserves stock and opens a Paystack *)
(* checkout; the webhook, or the merchant's waiting screen polling verify,  *)
(* turns a paid intent into a sale that takes the stock and is credited to  *)
(* the settlement wallet.  Walk-in sales and stock adjustments share the    *)
(* stock.                                                                   *)
(*                                                                          *)
(* Each request is one database transaction.  verify is two steps, because  *)
(* it loads the payment, waits for Paystack and then writes what it was     *)
(* told over whatever was committed meanwhile.                              *)
(***************************************************************************)
EXTENDS Integers, Functions

CONSTANTS
  Items,
  Intents,         \* online sales, by payment
  Walkins,         \* sales recorded at the counter
  Lines,           \* the quantity of each item in each sale; 0: not in it
  InitialStock,
  Adjustments,     \* quantities a stock adjustment may add (or take)
  MaxAdjusted,     \* bound: how far adjustments may move an item's stock
  Hazards          \* which kinds of trouble a run lets happen

AllHazards == {"expiry",        \* checkouts outlive their reservation
               "abandon",       \* an abandoned checkout is paid after all
               "reversal",      \* a successful charge is reversed
               "verify_error",  \* Paystack answers a poll with an HTTP error
               "slow_verify",   \* the webhook overtakes a poll that waits for Paystack
               "crash"}         \* the webhook's request dies after its deduplication key is set

Sales == Intents \cup Walkins

ASSUME SaleAssumption ==
  /\ Intents \cap Walkins = {}
  /\ Lines \in [Sales -> [Items -> Nat]]
  /\ InitialStock \in [Items -> Nat]
  /\ Adjustments \subseteq Int /\ MaxAdjusted \in Nat
  /\ Hazards \subseteq AllHazards

VARIABLES
  stock,        \* Item.current_stock
  payment,      \* Payment.status of each intent; "none": not created
  linked,       \* intents whose Payment.sale_id is set
  reservation,  \* status of the intent's StockReservation rows, which move together
  expired,      \* intents whose fifteen minutes are over
  sale,         \* Sale.status; "none": no row
  sold_lines,   \* items of the sale's SaleItem rows
  taken,        \* items the sale has a StockTransaction of type "sale" for
  adjusted,     \* history: what adjustments, voids aside, added to the stock
  credited,     \* intents with a credit in the settlement ledger
  asked,        \* a verify request in flight: the status it loaded and Paystack's answer
  seen,         \* Redis: charge.success events marked as seen
  charge        \* Paystack: the checkout behind each intent

goods == <<stock, sale, sold_lines, taken>>
vars == <<goods, payment, linked, reservation, expired, adjusted, credited, asked, seen, charge>>

-----------------------------------------------------------------------------
Ordered(s) == {k \in Items : Lines[s][k] > 0}

\* What each sale is about, of one item.
QuantityOf(k) == [s \in Sales |-> Lines[s][k]]

\* What live reservations hold of an item.
Holding == {i \in Intents : reservation[i] = "active" /\ i \notin expired}
Reserved(k) == SumFunctionOnSet(QuantityOf(k), Holding)

\* What a new intent may still ask for.
Available(k) == stock[k] - Reserved(k)

\* Mutant: the stock is not looked at.
InStock_any(s) == Ordered(s)

\* Lines deduct_stock_for_sale lets through.
InStock(s) == {k \in Ordered(s) : Lines[s][k] <= stock[k]}

\* Mutant: nothing comes back.
Restore_forgotten(s, lines) == stock

\* The stock after the given lines of s have been deducted, or given back.
Deduct(s, lines) == [k \in Items |-> IF k \in lines THEN stock[k] - Lines[s][k] ELSE stock[k]]
Restore(s, lines) == [k \in Items |-> IF k \in lines THEN stock[k] + Lines[s][k] ELSE stock[k]]

\* Has the customer's money been taken, so that charge.success was sent?
Paid(i) == charge[i] \in {"success", "reversed"}

Released(i) == IF reservation[i] = "active" THEN "released" ELSE reservation[i]

\* Mutant: the reservation of a finished sale is left alone.
CompletedReservation_forgotten(i) == reservation[i]

CompletedReservation(i) == IF reservation[i] = "active" THEN "completed" ELSE reservation[i]

-----------------------------------------------------------------------------
(* Sales *)

\* Insert the sale with all its lines, the stock of each deducted.
RecordWhole(s) ==
  /\ sale' = [sale EXCEPT ![s] = "completed"]
  /\ sold_lines' = [sold_lines EXCEPT ![s] = Ordered(s)]
  /\ taken' = [taken EXCEPT ![s] = Ordered(s)]
  /\ stock' = Deduct(s, Ordered(s))

\* Mutant: idempotency keys are not unique.
Recordable_no_key(s) == InStock(s) = Ordered(s)

\* Nothing stands in the way of recording s: its idempotency key, unique among
\* sales, is unused and every line is in stock.
Recordable(s) == sale[s] = "none" /\ InStock(s) = Ordered(s)

\* A sale at the counter; it does not look at reservations.
record_sale(w) ==
  /\ Recordable(w)
  /\ RecordWhole(w)
  /\ UNCHANGED <<payment, linked, reservation, expired, adjusted, credited, asked, seen, charge>>

void_sale(s) ==
  /\ sale[s] = "completed"
  /\ sale' = [sale EXCEPT ![s] = "voided"]
  /\ stock' = Restore(s, sold_lines[s])
  /\ UNCHANGED <<sold_lines, taken, payment, linked, reservation, expired, adjusted, credited,
                 asked, seen, charge>>

adjust_stock(k, change) ==
  /\ stock[k] + change >= 0
  /\ adjusted[k] + change \in -MaxAdjusted .. MaxAdjusted
  /\ stock' = [stock EXCEPT ![k] = @ + change]
  /\ adjusted' = [adjusted EXCEPT ![k] = @ + change]
  /\ UNCHANGED <<sale, sold_lines, taken, payment, linked, reservation, expired, credited,
                 asked, seen, charge>>

-----------------------------------------------------------------------------
(* Intents *)

\* First releases every expired reservation; when stock is short, or Paystack
\* refuses, the request raises and none of this has happened.
create_paystack_sale_intent(i) ==
  /\ payment[i] = "none"
  /\ \A k \in Ordered(i) : Lines[i][k] <= Available(k)
  /\ payment' = [payment EXCEPT ![i] = "pending"]
  /\ reservation' = [j \in Intents |-> IF j = i THEN "active"
                                       ELSE IF j \in expired THEN Released(j)
                                       ELSE reservation[j]]
  /\ charge' = [charge EXCEPT ![i] = "open"]
  /\ UNCHANGED <<goods, linked, expired, adjusted, credited, asked, seen>>

\* Mutant: the payment is not linked to its sale.
finalize_verified_payment_intent_unlinked(i) ==
  /\ Recordable(i)
  /\ RecordWhole(i)
  /\ reservation' = [reservation EXCEPT ![i] = CompletedReservation(i)]
  /\ credited' = credited \cup {i}
  /\ UNCHANGED linked

\* finalize_verified_payment_intent, up to and including credit_collection.
finalize_verified_payment_intent(i) ==
  /\ Recordable(i)
  /\ RecordWhole(i)
  /\ linked' = linked \cup {i}
  /\ reservation' = [reservation EXCEPT ![i] = CompletedReservation(i)]
  /\ credited' = credited \cup {i}

\* The same, when a line is out of stock and the caller swallows the exception:
\* the sale and the lines up to that one are committed, the payment not linked.
finalize_half_way(i) ==
  /\ sale[i] = "none"
  /\ \E done \in SUBSET InStock(i), short \in Ordered(i) \ InStock(i) :
       /\ sale' = [sale EXCEPT ![i] = "completed"]
       /\ sold_lines' = [sold_lines EXCEPT ![i] = done \cup {short}]
       /\ taken' = [taken EXCEPT ![i] = done]
       /\ stock' = Deduct(i, done)
  /\ UNCHANGED <<linked, reservation>>

NoRequest == [loaded |-> "none", answer |-> "none"]

\* Mutant: a checkout nobody has paid yet counts as paid.
PaystackSays_paid(i) == {"success"}

\* What Paystack may answer, in the payment's own terms.
PaystackSays(i) ==
  {CASE charge[i] = "open" -> "pending"
     [] charge[i] = "abandoned" -> "failed"
     [] OTHER -> charge[i]}
  \cup {"pending" : h \in Hazards \cap {"verify_error"}}

\* verify_paystack_sale_intent, up to Paystack's answer.  A payment that is not a
\* success when its time is over fails, whatever Paystack would say.
verify_ask(i) ==
  /\ payment[i] # "none"
  /\ i \notin linked
  /\ asked[i] = NoRequest
  /\ \E answer \in IF i \in expired /\ payment[i] # "success" THEN {"failed"} ELSE PaystackSays(i) :
       asked' = [asked EXCEPT ![i] = [loaded |-> payment[i], answer |-> answer]]
  /\ UNCHANGED <<goods, payment, linked, reservation, expired, adjusted, credited, seen, charge>>

\* The rest of it.  Only a status that differs from the loaded one is written.
verify_apply(i) ==
  LET loaded == asked[i].loaded
      answer == asked[i].answer
      write == payment' = [payment EXCEPT ![i] = IF answer = loaded THEN @ ELSE answer]
  IN
  /\ asked[i] # NoRequest
  /\ asked' = [asked EXCEPT ![i] = NoRequest]
  /\ \/ /\ answer = "pending" /\ write
        /\ UNCHANGED <<goods, linked, reservation, credited>>
     \/ /\ answer \in {"failed", "reversed"} /\ write
        /\ reservation' = [reservation EXCEPT ![i] = Released(i)]
        /\ UNCHANGED <<goods, linked, credited>>
     \/ /\ answer = "success" /\ write
        /\ finalize_verified_payment_intent(i)
     \/ /\ answer = "success" /\ ~Recordable(i)
        /\ UNCHANGED <<goods, payment, linked, reservation, credited>>
  /\ UNCHANGED <<expired, adjusted, seen, charge>>

\* The webhook.  Its deduplication key is set in Redis first and stays set when
\* the request dies.  credit_collection runs also when the sale could not be
\* finalized.
handle_charge_success(i) ==
  /\ Paid(i) /\ i \notin seen
  /\ asked[i] = NoRequest \/ "slow_verify" \in Hazards
  /\ seen' = seen \cup {i}
  /\ \/ /\ payment[i] = "success" \/ "crash" \in Hazards
        /\ UNCHANGED <<goods, payment, linked, reservation, credited>>
     \/ /\ payment[i] # "success"
        /\ payment' = [payment EXCEPT ![i] = "success"]
        /\ finalize_verified_payment_intent(i)
     \/ /\ payment[i] # "success"
        /\ payment' = [payment EXCEPT ![i] = "success"]
        /\ finalize_half_way(i)
        /\ credited' = credited \cup {i}
  /\ UNCHANGED <<expired, adjusted, asked, charge>>

-----------------------------------------------------------------------------
(* The customer, Paystack and the clock *)

expire(i) ==
  /\ "expiry" \in Hazards
  /\ payment[i] # "none" /\ i \notin expired
  /\ expired' = expired \cup {i}
  /\ UNCHANGED <<goods, payment, linked, reservation, adjusted, credited, asked, seen, charge>>

ChargeTurns(i, from, to) ==
  /\ charge[i] = from
  /\ charge' = [charge EXCEPT ![i] = to]
  /\ UNCHANGED <<goods, payment, linked, reservation, expired, adjusted, credited, asked, seen>>

customer_decides(i) == ChargeTurns(i, "open", "success") \/ ChargeTurns(i, "open", "abandoned")
customer_returns(i) == "abandon" \in Hazards /\ ChargeTurns(i, "abandoned", "success")
paystack_reverses(i) == "reversal" \in Hazards /\ ChargeTurns(i, "success", "reversed")

-----------------------------------------------------------------------------
Init ==
  /\ stock = InitialStock
  /\ payment = [i \in Intents |-> "none"]
  /\ linked = {} /\ expired = {} /\ credited = {} /\ seen = {}
  /\ reservation = [i \in Intents |-> "none"]
  /\ sale = [s \in Sales |-> "none"]
  /\ sold_lines = [s \in Sales |-> {}] /\ taken = [s \in Sales |-> {}]
  /\ adjusted = [k \in Items |-> 0]
  /\ asked = [i \in Intents |-> NoRequest]
  /\ charge = [i \in Intents |-> "none"]

Next ==
  \/ \E i \in Intents :
       \/ create_paystack_sale_intent(i) \/ verify_ask(i) \/ verify_apply(i)
       \/ handle_charge_success(i) \/ expire(i)
       \/ customer_decides(i) \/ customer_returns(i) \/ paystack_reverses(i)
  \/ \E w \in Walkins : record_sale(w)
  \/ \E s \in Sales : void_sale(s)
  \/ \E k \in Items, change \in Adjustments : adjust_stock(k, change)

Spec == Init /\ [][Next]_vars

\* Paystack repeats a webhook until it is answered, and a request that was sent
\* to the server is served.  Nobody has to poll.
FairSpec ==
  Spec /\ \A i \in Intents : WF_vars(handle_charge_success(i)) /\ WF_vars(verify_apply(i))

-----------------------------------------------------------------------------
(* Properties *)

\* Every column has its type; stock is never negative.
TypeOK ==
  /\ stock \in [Items -> Nat]
  /\ payment \in [Intents -> {"none", "pending", "success", "failed", "reversed"}]
  /\ linked \subseteq Intents /\ expired \subseteq Intents
  /\ credited \subseteq Intents /\ seen \subseteq Intents
  /\ reservation \in [Intents -> {"none", "active", "released", "completed"}]
  /\ sale \in [Sales -> {"none", "completed", "voided"}]
  /\ sold_lines \in [Sales -> SUBSET Items] /\ taken \in [Sales -> SUBSET Items]
  /\ adjusted \in [Items -> Int]
  /\ asked \in [Intents -> [loaded: {"none", "pending", "success", "failed", "reversed"},
                            answer: {"none", "pending", "success", "failed", "reversed"}]]
  /\ charge \in [Intents -> {"none", "open", "abandoned", "success", "reversed"}]

\* However polls and webhooks interleave, no sale is recorded for a checkout that
\* was never paid.
SoldWasPaid == \A i \in Intents : sale[i] # "none" => Paid(i)

\* The settlement wallet is credited for an intent exactly when its sale is
\* recorded, also when the sale stopped half way and when it was voided since.
CreditedExactlyWhenSold == \A i \in Intents : i \in credited <=> sale[i] # "none"

\* A payment that is a success has been credited: status and ledger are
\* written by the same transaction.
SuccessIsCredited == \A i \in Intents : payment[i] = "success" => i \in credited

\* Payment, ledger and sale agree for every intent, however polls, webhooks,
\* expiry and voids interleave: credited if and only if sold, sold only if paid,
\* and not a success without its credit.
CreditFollowsSale == SoldWasPaid /\ CreditedExactlyWhenSold /\ SuccessIsCredited

\* A sale linked to its payment is whole: every line is recorded and taken from
\* the stock, and the intent holds no reservation any more.
LinkedSaleIsWhole ==
  \A i \in linked :
    /\ sale[i] # "none"
    /\ sold_lines[i] = Ordered(i) /\ taken[i] = Ordered(i)
    /\ reservation[i] # "active"

\* A voided sale is not recorded again by a late poll or webhook.
VoidedStaysVoided == [][\A s \in Sales : sale[s] = "voided" => sale'[s] = "voided"]_vars

\* What the sales that stand have sold of an item.
SoldOf(k) == SumFunctionOnSet(QuantityOf(k), {s \in Sales : sale[s] = "completed"})

\* However often an intent is polled, delivered and retried, its goods leave the
\* stock at most once: the stock is never below what the standing sales explain.
GoodsLeaveOnce == \A k \in Items : stock[k] >= InitialStock[k] + adjusted[k] - SoldOf(k)

\* The stock is what the standing sales and the adjustments leave of the first stock.
StockMatchesSales == \A k \in Items : stock[k] = InitialStock[k] + adjusted[k] - SoldOf(k)

\* What is reserved is there.
ReservationsHonoured == \A k \in Items : Reserved(k) <= stock[k]

\* As long as nothing else touches the stock, it is what the standing sales leave,
\* and it covers what is reserved.
StockCoversOrders == StockMatchesSales /\ ReservationsHonoured

\* A sale the customer has paid for is recorded and linked to its payment.
PaidIsSold == \A i \in Intents : Paid(i) ~> i \in linked

\* Goods set aside leave as a whole and once, or go back on the shelf.
OrderOf(i) ==
  CASE sale[i] = "voided" -> "returned"
    [] sale[i] # "voided" /\ i \in linked -> "sold"
    [] i \notin linked /\ reservation[i] = "active" -> "aside"
    [] i \notin linked /\ reservation[i] = "released" -> "dropped"
    [] i \notin linked /\ reservation[i] = "none" -> "none"
Shelf == INSTANCE GoodsShelf WITH
  Goods <- Items, Orders <- Intents, Wants <- Lines, Opening <- InitialStock,
  shelf <- [k \in Items |-> stock[k] - Reserved(k)],
  order <- [i \in Intents |-> OrderOf(i)]
ImplementsShelf == Shelf!Spec
===============================================================================
