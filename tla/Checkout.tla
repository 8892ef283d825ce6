-------------------------------- MODULE Checkout --------------------------------
(***************************************************************************)
(* The two screens of the mobile app that sell: the sell screen with its   *)
(* stages, payment links and QR codes, and the till of a cashier.  A cart  *)
(* is a number, a new one after every change; 0 is the empty cart.  A call *)
(* and what becomes of it is one step, its answer a later one, and the     *)
(* owner may tap in between as far as the screen lets him.                 *)
(***************************************************************************)
EXTENDS Integers, FiniteSets, Sequences

CONSTANTS
  MaxCustomers,   \* bound: customers, one after the other
  MaxCarts,       \* bound: carts
  MaxLinks,       \* bound: payment links
  MaxSales,       \* bound: sales
  MaxChecks,      \* bound: checks of a payment link in flight
  CheckoutWorlds  \* the circumstances under which the screens are used

\* Answers come late, a link that can be paid is left, calls fail, the answer of a
\* sale that was booked is lost, a link is paid that was given up; sales on credit,
\* and amounts that are no item.
CheckoutHazards == {"late", "link_left", "failure", "lost_reply", "paid_late", "credit", "custom"}

ASSUME CheckoutAssumption ==
  /\ MaxCustomers \in Nat \ {0} /\ {MaxCarts, MaxLinks, MaxSales, MaxChecks} \subseteq Nat
  /\ CheckoutWorlds \subseteq [screen: {"sell", "till"}, taps: SUBSET CheckoutHazards]

VARIABLES
  pos,     \* the state of the sell screen
  till,    \* the state of the cashier's screen
  links,   \* the payment links the server has made
  sold,    \* the sales that were recorded, on the server or in the queue
  counter  \* the circumstances, the customer who is served, and the carts so far

checkoutVars == <<pos, till, links, sold, counter>>

Carts == 0..MaxCarts
Customers == 0..MaxCustomers
Methods == {"none", "cash", "credit", "ghqr", "paystack"}
NoCall == [cart |-> 0, method |-> "none", details |-> 0, consent |-> 0, ok |-> FALSE]
NoLink == [id |-> 0, status |-> "pending"]

PosCall == [cart: Carts, method: Methods, details: Customers, consent: Customers, ok: BOOLEAN]
Link == [id: 0..MaxLinks, status: {"pending", "sold", "failed"}]

\* A link that was given up may still be paid, and the sale be made.
LinkStates == {"open", "paid", "sold", "dead", "dead_paid", "dead_sold"}

\* "sold" holds the customer who was served, the cart, how it was paid, whose
\* details were sent along, whose consent to reminders, and whether the screen was
\* not told that there is no such sale.
CheckoutTypeOK ==
  /\ pos \in [stage: {"cart", "method", "credit", "paystack", "ghqr", "success"},
              cart: Carts, method: Methods, details: Customers, consent: Customers,
              recording: PosCall, creating: Link \cup {[id |-> 0, status |-> "none"]},
              confirming: BOOLEAN, link: Link, checks: SUBSET Link, qr: BOOLEAN,
              receipt: Carts]
  /\ till \in [cart: Carts, custom: BOOLEAN, method: Methods, details: Customers,
               consent: Customers, terms: BOOLEAN, charging: PosCall, receipt: Carts]
  /\ links \in Seq([cart: Carts, customer: Customers, st: LinkStates])
  /\ sold \in Seq([customer: Customers, cart: Carts, method: Methods, details: Customers,
                   consent: Customers, told: BOOLEAN])
  /\ counter \in [world: CheckoutWorlds, customer: 1..MaxCustomers, carts: Carts]

NotCreating == [id |-> 0, status |-> "none"]

CheckoutInit ==
  /\ pos = [stage |-> "cart", cart |-> 0, method |-> "none", details |-> 0, consent |-> 0,
            recording |-> NoCall, creating |-> NotCreating, confirming |-> FALSE,
            link |-> NoLink, checks |-> {}, qr |-> FALSE, receipt |-> 0]
  /\ till = [cart |-> 0, custom |-> FALSE, method |-> "cash", details |-> 0, consent |-> 0,
             terms |-> FALSE, charging |-> NoCall, receipt |-> 0]
  /\ links = <<>>
  /\ sold = <<>>
  /\ counter \in [world: CheckoutWorlds, customer: {1}, carts: {0}]

Tap(h) == h \in counter.world.taps
Selling == counter.world.screen = "sell"
AtTill == counter.world.screen = "till"
customer == counter.customer

\* Nothing is in flight, or answers may be overtaken by taps.
PosIdle ==
  Tap("late") \/ (pos.recording = NoCall /\ pos.creating = NotCreating /\ pos.checks = {} /\ ~pos.qr)
TillIdle == Tap("late") \/ till.charging = NoCall

NextCart == counter.carts + 1
NewCart == NextCart <= MaxCarts /\ counter' = [counter EXCEPT !.carts = NextCart]
NextCustomer ==
  customer < MaxCustomers /\ counter' = [counter EXCEPT !.customer = @ + 1]

\* A sale that is recorded, and what the screen is told of it.
Sale(call, told) ==
  [customer |-> customer, cart |-> call.cart, method |-> call.method,
   details |-> call.details, consent |-> call.consent, told |-> told]

-----------------------------------------------------------------------------
(* The sell screen. *)

\* The stage of the cart, and the items that can be added to it.
CartShown == Selling /\ pos.stage = "cart" /\ PosIdle

ItemsOffered == CartShown /\ counter.carts < MaxCarts

\* updateQty: one piece more or less, within the stock that was loaded; the cart
\* may become empty.
UpdateQty ==
  /\ ItemsOffered
  /\ \/ pos' = [pos EXCEPT !.cart = NextCart] /\ NewCart
     \/ pos.cart # 0 /\ pos' = [pos EXCEPT !.cart = 0] /\ UNCHANGED counter
  /\ UNCHANGED <<till, links, sold>>

\* The camera is shown over the cart.
ScannerShown == ItemsOffered

\* A scanned code adds one piece: the camera reports a code many times, and the
\* scanner is locked at the first report.
ScanBarcode ==
  /\ ScannerShown
  /\ pos' = [pos EXCEPT !.cart = NextCart] /\ NewCart
  /\ UNCHANGED <<till, links, sold>>

CheckoutOffered == CartShown /\ pos.cart # 0

GoToMethods ==
  /\ CheckoutOffered
  /\ pos' = [pos EXCEPT !.stage = "method"]
  /\ UNCHANGED <<till, links, sold, counter>>

\* The stage of the methods; they are disabled while a sale is recorded, the way
\* back is not.
MethodsShown == Selling /\ pos.stage = "method" /\ PosIdle
MethodsOffered == MethodsShown /\ pos.recording = NoCall

BackToCart ==
  /\ MethodsShown
  /\ pos' = [pos EXCEPT !.stage = "cart"]
  /\ UNCHANGED <<till, links, sold, counter>>

\* Details can be given for a sale that is paid at once, too.
GiveDetails ==
  /\ Tap("credit")
  /\ MethodsShown
  /\ pos' = [pos EXCEPT !.details = customer]
  /\ UNCHANGED <<till, links, sold, counter>>

\* recordSaleOnlineFirst: the server books the sale, or the queue of the phone does
\* when the server does not answer, under a key of its own.  A refusal is told by an
\* alert, and nothing was recorded.  When the answer is lost, the server has booked
\* the sale too, and when the queue fails then, the alert says otherwise.
Booked(call) ==
  \/ /\ call.ok /\ Len(sold) < MaxSales
     /\ sold' = Append(sold, Sale(call, TRUE))
  \/ /\ ~call.ok /\ Tap("failure")
     /\ UNCHANGED sold
  \/ /\ call.ok /\ Tap("lost_reply") /\ Len(sold) + 1 < MaxSales
     /\ sold' = sold \o <<Sale(call, FALSE), Sale(call, TRUE)>>
  \/ /\ ~call.ok /\ Tap("lost_reply") /\ Tap("failure") /\ Len(sold) < MaxSales
     /\ sold' = Append(sold, Sale(call, FALSE))

\* completeSale: recordSaleOnlineFirst with the cart and the details of the form.
Record(method, state) ==
  LET call(ok) == [cart |-> pos.cart, method |-> method, details |-> pos.details,
                   consent |-> IF method = "credit" THEN pos.consent ELSE 0, ok |-> ok]
  IN  \E ok \in BOOLEAN :
        Booked(call(ok)) /\ pos' = [state EXCEPT !.recording = call(ok)]

\* handlePick.
PickPaystack ==
  /\ MethodsOffered
  /\ pos' = [pos EXCEPT !.method = "paystack", !.stage = "paystack", !.link = NoLink]
  /\ UNCHANGED <<till, links, sold, counter>>

PickCash ==
  /\ MethodsOffered
  /\ Record("cash", [pos EXCEPT !.method = "cash"])
  /\ UNCHANGED <<till, links, counter>>

PickCredit ==
  /\ Tap("credit")
  /\ MethodsOffered
  /\ pos' = [pos EXCEPT !.method = "credit", !.stage = "credit"]
  /\ UNCHANGED <<till, links, sold, counter>>

PickGhQR ==
  /\ MethodsOffered /\ ~pos.qr
  /\ pos' = [pos EXCEPT !.method = "ghqr", !.qr = TRUE]
  /\ UNCHANGED <<till, links, sold, counter>>

\* The QR code is shown whatever stage the screen is in by now.
QrGenerated ==
  /\ pos.qr
  /\ \/ pos' = [pos EXCEPT !.qr = FALSE, !.stage = "ghqr"]
     \/ Tap("failure") /\ pos' = [pos EXCEPT !.qr = FALSE]
  /\ UNCHANGED <<till, links, sold, counter>>

QrShown == Selling /\ pos.stage = "ghqr" /\ PosIdle

ConfirmQr ==
  /\ QrShown /\ pos.recording = NoCall /\ pos.cart # 0
  /\ Record("ghqr", pos)
  /\ UNCHANGED <<till, links, counter>>

\* reset() forgets a QR code that is being made.
CancelQr ==
  /\ QrShown
  /\ pos' = [pos EXCEPT !.qr = FALSE, !.stage = "method"]
  /\ UNCHANGED <<till, links, sold, counter>>

\* The form of the credit terms, on both screens: the details are those of the
\* customer who stands there, consent is a switch.
Terms(form) ==
  {[form EXCEPT !.details = customer],
   [form EXCEPT !.consent = IF @ = 0 THEN customer ELSE 0]}

CreditShown == Selling /\ pos.stage = "credit"

FillTerms ==
  /\ CreditShown /\ PosIdle
  /\ pos' \in Terms(pos)
  /\ UNCHANGED <<till, links, sold, counter>>

\* buildSaleDraft asks for details with every credit sale.
DetailsGiven(form) == form.details # 0

ConfirmCredit ==
  /\ CreditShown /\ PosIdle
  /\ pos.recording = NoCall /\ DetailsGiven(pos)
  /\ Record("credit", pos)
  /\ UNCHANGED <<till, links, counter>>

BackFromCredit ==
  /\ CreditShown /\ PosIdle
  /\ pos' = [pos EXCEPT !.stage = "method"]
  /\ UNCHANGED <<till, links, sold, counter>>

\* Mutant: the stage is left as it is.
SaleCompleted_staying ==
  /\ pos.recording # NoCall
  /\ pos' = IF pos.recording.ok
            THEN [pos EXCEPT !.recording = NoCall, !.receipt = pos.recording.cart]
            ELSE [pos EXCEPT !.recording = NoCall]
  /\ UNCHANGED <<till, links, sold, counter>>

\* The answer of completeSale: the receipt, or an alert and nothing else.
SaleCompleted ==
  /\ pos.recording # NoCall
  /\ pos' = IF pos.recording.ok
            THEN [pos EXCEPT !.recording = NoCall, !.receipt = pos.recording.cart,
                             !.stage = "success"]
            ELSE [pos EXCEPT !.recording = NoCall]
  /\ UNCHANGED <<till, links, sold, counter>>

\* The stage of the payment link.
PaymentShown == Selling /\ pos.stage = "paystack"

\* handleCreatePaystack, unless there is a link already.
CreateLink ==
  /\ PaymentShown /\ PosIdle
  /\ pos.link = NoLink /\ ~pos.confirming
  /\ \/ /\ Len(links) < MaxLinks
        /\ links' = Append(links, [cart |-> pos.cart, customer |-> customer, st |-> "open"])
        /\ pos' = [pos EXCEPT !.confirming = TRUE,
                              !.creating = [id |-> Len(links) + 1, status |-> "pending"]]
     \/ /\ Tap("failure")
        /\ pos' = [pos EXCEPT !.confirming = TRUE,
                              !.creating = [id |-> 0, status |-> "failed"]]
        /\ UNCHANGED links
  /\ UNCHANGED <<till, sold, counter>>

LinkCreated ==
  /\ pos.creating # NotCreating
  /\ pos' = [pos EXCEPT !.creating = NotCreating, !.confirming = FALSE,
                        !.link = IF pos.creating.status = "failed" THEN @ ELSE pos.creating]
  /\ UNCHANGED <<till, links, sold, counter>>

\* The customer pays a link, while the screen waits for it or later: Paystack takes
\* the payment of a link that the server has given up, too.
PayLink(k) ==
  /\ \/ /\ links[k].st = "open"
        /\ links' = [links EXCEPT ![k].st = "paid"]
     \/ /\ Tap("paid_late") /\ links[k].st = "dead"
        /\ links' = [links EXCEPT ![k].st = "dead_paid"]
  /\ UNCHANGED <<pos, till, sold, counter>>

\* The server gives a link up after fifteen minutes, without asking whether it was
\* paid, or when Paystack says that a payment of it failed.
ExpireLink(k) ==
  /\ Tap("failure")
  /\ \/ /\ links[k].st = "open"
        /\ links' = [links EXCEPT ![k].st = "dead"]
     \/ /\ Tap("paid_late") /\ links[k].st = "paid"
        /\ links' = [links EXCEPT ![k].st = "dead_paid"]
  /\ UNCHANGED <<pos, till, sold, counter>>

\* finalize_verified_payment_intent: the sale of a link that is paid, once.
SellLink(k) ==
  /\ links[k].st \in {"paid", "dead_paid"} /\ Len(sold) < MaxSales
  /\ links' = [links EXCEPT ![k].st = IF @ = "paid" THEN "sold" ELSE "dead_sold"]
  /\ sold' = Append(sold, [customer |-> links[k].customer, cart |-> links[k].cart,
                           method |-> "paystack", details |-> 0, consent |-> 0,
                           told |-> links[k].st = "paid"])

\* verify: a link whose time is over stays given up.
VerifyLink(k) == SellLink(k) \/ (links[k].st # "paid" /\ UNCHANGED <<links, sold>>)

\* The webhook may come before any check, and after the link was given up.
Finalize(k) ==
  /\ SellLink(k)
  /\ UNCHANGED <<pos, till, counter>>

LinkStatus(k) == CASE links'[k].st \in {"sold", "dead_sold"} -> "sold"
               [] links'[k].st \in {"dead", "dead_paid"} -> "failed"
               [] OTHER -> "pending"

\* checkPaystackPayment, by hand.
CheckNow ==
  /\ PaymentShown /\ PosIdle
  /\ pos.link # NoLink /\ ~pos.confirming
  /\ Cardinality(pos.checks) < MaxChecks
  /\ VerifyLink(pos.link.id)
  /\ pos' = [pos EXCEPT !.confirming = TRUE,
                        !.checks = @ \cup {[id |-> pos.link.id, status |-> LinkStatus(pos.link.id)]}]
  /\ UNCHANGED <<till, counter>>

\* Every three seconds, whether or not a check is in flight: the effect holds the
\* function of the drawing in which the link came.
Poll ==
  /\ PaymentShown
  /\ pos.link # NoLink /\ pos.link.status = "pending"
  /\ Cardinality(pos.checks) < MaxChecks
  /\ VerifyLink(pos.link.id)
  /\ pos' = [pos EXCEPT !.confirming = TRUE,
                        !.checks = @ \cup {[id |-> pos.link.id, status |-> LinkStatus(pos.link.id)]}]
  /\ UNCHANGED <<till, counter>>

\* The answer installs the link it is of, and ends the sale that is on the screen.
Checked(c) ==
  /\ pos' = IF c.status = "sold"
            THEN [pos EXCEPT !.checks = @ \ {c}, !.confirming = FALSE, !.link = c,
                             !.receipt = links[c.id].cart, !.method = "paystack",
                             !.stage = "success"]
            ELSE [pos EXCEPT !.checks = @ \ {c}, !.confirming = FALSE, !.link = c]
  /\ UNCHANGED <<till, links, sold, counter>>

\* A check that fails changes nothing but the spinner.
CheckLost(c) ==
  /\ Tap("failure")
  /\ pos' = [pos EXCEPT !.checks = @ \ {c}, !.confirming = FALSE]
  /\ UNCHANGED <<till, links, sold, counter>>

\* Who turns away from a link that can still be paid leaves it behind.
CancelPayment ==
  /\ PaymentShown /\ PosIdle
  /\ Tap("link_left") \/ pos.link = NoLink \/ pos.link.status = "failed"
  /\ pos' = [pos EXCEPT !.stage = "method"]
  /\ UNCHANGED <<till, links, sold, counter>>

\* The receipt shows the lines of the cart on the screen.
ReceiptShown == Selling /\ pos.stage = "success"

\* resetSale: consent to reminders is not reset. Like every tap it waits for the
\* answers unless they may be late.
ResetSale(state) ==
  [state EXCEPT !.cart = 0, !.method = "none", !.details = 0, !.link = NoLink,
                !.stage = "cart", !.receipt = 0]

FinishSale ==
  /\ ReceiptShown /\ PosIdle
  /\ pos' = ResetSale(pos)
  /\ NextCustomer
  /\ UNCHANGED <<till, links, sold>>

Sell ==
  \/ UpdateQty \/ ScanBarcode
  \/ GoToMethods \/ BackToCart \/ GiveDetails \/ PickPaystack \/ PickCash \/ PickCredit
  \/ PickGhQR \/ QrGenerated \/ ConfirmQr \/ CancelQr
  \/ FillTerms \/ ConfirmCredit \/ BackFromCredit \/ SaleCompleted
  \/ CreateLink \/ LinkCreated \/ CheckNow \/ Poll \/ CancelPayment \/ FinishSale
  \/ \E k \in DOMAIN links : PayLink(k) \/ Finalize(k) \/ ExpireLink(k)
  \/ \E c \in pos.checks : Checked(c) \/ CheckLost(c)

-----------------------------------------------------------------------------
(* The till. *)

\* The receipt covers everything else.
TillShown == AtTill /\ till.receipt = 0 /\ TillIdle

\* Tiles add, the rows of the cart take more or less, without regard to stock or
\* to a charge under way.
ChangeTill ==
  /\ TillShown /\ ~till.terms
  /\ \/ counter.carts < MaxCarts /\ till' = [till EXCEPT !.cart = NextCart] /\ NewCart
     \/ till.cart # 0 /\ till' = [till EXCEPT !.cart = 0, !.custom = FALSE] /\ UNCHANGED counter
  /\ UNCHANGED <<pos, links, sold>>

\* The custom tile adds an amount that is no item of the inventory.
AddCustomAmount ==
  /\ Tap("custom")
  /\ TillShown /\ ~till.terms /\ counter.carts < MaxCarts
  /\ till' = [till EXCEPT !.cart = NextCart, !.custom = TRUE] /\ NewCart
  /\ UNCHANGED <<pos, links, sold>>

\* The next customer comes when the cart is empty.
NextInLine ==
  /\ TillShown /\ till.cart = 0 /\ till.charging = NoCall
  /\ NextCustomer
  /\ UNCHANGED <<pos, till, links, sold>>

\* Credit opens the sheet with the terms.
ChooseMethod(method) ==
  /\ TillShown /\ ~till.terms
  /\ method = "credit" => Tap("credit")
  /\ till' = [till EXCEPT !.method = method, !.terms = (method = "credit")]
  /\ UNCHANGED <<pos, links, sold, counter>>

GiveTillDetails ==
  /\ Tap("credit")
  /\ TillShown /\ ~till.terms
  /\ till' = [till EXCEPT !.details = customer]
  /\ UNCHANGED <<pos, links, sold, counter>>

FillTillTerms ==
  /\ TillShown /\ till.terms
  /\ till' \in Terms(till) \cup {[till EXCEPT !.terms = FALSE]}
  /\ UNCHANGED <<pos, links, sold, counter>>

\* recordSaleOnlineFirst: an amount that is no item is told to have failed after
\* it was queued.
ChargeSale(state) ==
  LET call(ok) == [cart |-> till.cart, method |-> till.method, details |-> till.details,
                   consent |-> IF till.method = "credit" THEN till.consent ELSE 0, ok |-> ok]
  IN  \/ /\ till.custom /\ Len(sold) < MaxSales
         /\ till' = [state EXCEPT !.charging = call(FALSE)]
         /\ sold' = Append(sold, Sale(call(FALSE), FALSE))
      \/ /\ ~till.custom
         /\ \E ok \in BOOLEAN :
              Booked(call(ok)) /\ till' = [state EXCEPT !.charging = call(ok)]

\* The cart is kept when a payment link is shared, and nobody waits for it.
ShareLink ==
  /\ ~till.custom /\ Len(links) < MaxLinks
  /\ links' = Append(links, [cart |-> till.cart, customer |-> customer, st |-> "open"])
  /\ UNCHANGED <<till, sold>>

\* handleCharge, from the bar or from the sheet with the terms.
ChargeTill ==
  /\ TillShown
  /\ till.cart # 0 /\ till.charging = NoCall
  /\ till.method = "credit" => DetailsGiven(till)
  /\ IF till.method = "paystack" THEN ShareLink
     ELSE ChargeSale([till EXCEPT !.terms = FALSE]) /\ UNCHANGED links
  /\ UNCHANGED <<pos, counter>>

\* The answer empties the cart, whatever was added meanwhile, and the receipt is
\* made from the cart as it was charged. Details, consent and method stay.
Charged ==
  /\ till.charging # NoCall
  /\ till' = IF till.charging.ok
             THEN [till EXCEPT !.charging = NoCall, !.receipt = till.charging.cart,
                               !.cart = 0, !.custom = FALSE]
             ELSE [till EXCEPT !.charging = NoCall]
  /\ UNCHANGED <<pos, links, sold, counter>>

TillReceiptShown == AtTill /\ till.receipt # 0

NextTillSale ==
  /\ TillReceiptShown
  /\ till' = [till EXCEPT !.receipt = 0]
  /\ NextCustomer
  /\ UNCHANGED <<pos, links, sold>>

Till ==
  \/ ChangeTill \/ AddCustomAmount \/ NextInLine \/ GiveTillDetails \/ FillTillTerms
  \/ ChargeTill \/ Charged \/ NextTillSale
  \/ \E m \in Methods \ {"none"} : ChooseMethod(m)

CheckoutNext == Sell \/ Till

CheckoutSpec == CheckoutInit /\ [][CheckoutNext]_checkoutVars

-----------------------------------------------------------------------------
(* Properties. *)

SalesTo(c) == {k \in DOMAIN sold : sold[k].customer = c}

\* Those the screen knows of, or will be told of.
ToldTo(c) == {k \in SalesTo(c) : sold[k].told}

\* What a customer buys is sold once, on the sell screen, as long as no answer is
\* overtaken by a tap and no link is left that can be paid: whichever checks, webhooks
\* and failures meet.  It is sold again only behind the screen's back, when the answer
\* of a sale was lost or a link was paid that had been given up.
GoodsSoldOnce ==
  Selling /\ ~Tap("late") /\ ~Tap("link_left") =>
    \A c \in 1..MaxCustomers :
      /\ Cardinality(ToldTo(c)) <= 1
      /\ Tap("lost_reply") \/ Tap("paid_late") \/ ToldTo(c) = SalesTo(c)

\* The receipt on the screen is of a sale that was recorded for the customer who
\* stands there: on the sell screen when no answer is late, at the till always.
\* Also a receipt that comes late is of a sale.
ReceiptIsOfSale ==
  /\ pos.receipt # 0 => \E k \in DOMAIN sold : sold[k].cart = pos.receipt
  /\ ReceiptShown /\ ~Tap("late") =>
       /\ pos.receipt = pos.cart
       /\ \E k \in SalesTo(customer) : sold[k].cart = pos.receipt
  /\ TillReceiptShown => \E k \in SalesTo(customer) : sold[k].cart = till.receipt

\* What a customer buys is sold once, and the receipt shown is of that sale.
SoldAsShown == GoodsSoldOnce /\ ReceiptIsOfSale
=============================================================================
