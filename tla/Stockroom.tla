-------------------------------- MODULE Stockroom --------------------------------
(***************************************************************************)
(* The owner's inventory screen: the forms in which items, suppliers and   *)
(* purchase orders are entered, the scanner that fills in a barcode, and   *)
(* the goods of an order that arrive with their input VAT.  A form has a    *)
(* number, a new one whenever it is emptied, and its details are named by  *)
(* the form they were entered in; 0 stands for empty fields.  A call and   *)
(* what becomes of it at the server is one step, its answer a later one,   *)
(* and the owner may close and open forms in between.                      *)
(***************************************************************************)
EXTENDS Integers, FiniteSets, Sequences

CONSTANTS
  MaxForms,   \* bound: forms that are begun
  MaxRows,    \* bound: suppliers, or items, or orders
  MaxAsked,   \* bound: calls in flight
  StockRooms  \* the sections of the screen that are used, and whether calls fail

ASSUME StockroomAssumption ==
  /\ MaxForms \in Nat \ {0} /\ {MaxRows, MaxAsked} \subseteq Nat
  /\ StockRooms \subseteq [section: {"items", "suppliers", "orders"}, failures: BOOLEAN]

VARIABLES
  room,     \* the section that is shown, whether calls may fail, and the forms so far
  entry,    \* the form that is shown, and its fields
  awaited,  \* the calls in flight
  rows,     \* the rows of the section, on the server
  vats      \* the input VAT that the server has recorded

stockroomVars == <<room, entry, awaited, rows, vats>>

FormNumbers == 0..MaxForms
RowNumbers == 0..MaxRows
Orders == {"draft", "received"}

Asked == [what: {"create", "update", "delete", "restock", "receive", "vat"}, of: RowNumbers,
          details: FormNumbers, in: FormNumbers, code: FormNumbers, vat: RowNumbers,
          ok: BOOLEAN]

\* "of" is the row that a form is about, 0 for a new one; "code" is the form for
\* which the barcode was scanned, "vat" the order whose VAT is filled in.
StockroomTypeOK ==
  /\ room \in [section: {"items", "suppliers", "orders"}, failures: BOOLEAN, forms: FormNumbers]
  /\ entry \in [shown: {"none", "details", "scanner", "item", "restock", "receive"},
               of: RowNumbers, number: FormNumbers, details: FormNumbers, code: FormNumbers,
               scanning: FormNumbers, step: 1..3, vat: RowNumbers]
  /\ awaited \subseteq Asked /\ IsFiniteSet(awaited)
  /\ rows \in Seq([details: FormNumbers, in: FormNumbers, code: FormNumbers, kept: BOOLEAN,
                   status: Orders, stocked: Nat])
  /\ vats \in Seq([of: RowNumbers, amount: RowNumbers])

NoForm == [shown |-> "none", of |-> 0, number |-> 1, details |-> 0, code |-> 0,
           scanning |-> 0, step |-> 1, vat |-> 0]

StockroomInit ==
  /\ room \in {[section |-> r.section, failures |-> r.failures, forms |-> 1] : r \in StockRooms}
  /\ entry = NoForm
  /\ awaited = {}
  /\ rows = <<>>
  /\ vats = <<>>

InSection(s) == room.section = s
Awaiting(what) == \E call \in awaited : call.what = what
Failing == room.failures

\* resetItemForm, resetSupplierForm, resetPoForm: the fields are empty, and what
\* is entered from now on is about something else.
NextForm == room.forms + 1
Emptied(f) == [f EXCEPT !.number = NextForm, !.details = 0, !.code = 0, !.step = 1]
NewForm == NextForm <= MaxForms /\ room' = [room EXCEPT !.forms = NextForm]

Row(call) == [details |-> call.details, in |-> call.in, code |-> call.code, kept |-> TRUE,
              status |-> "draft", stocked |-> 0]

ToServer(what) == [what |-> what, of |-> entry.of, details |-> entry.details, in |-> entry.number,
                   code |-> entry.code, vat |-> entry.vat, ok |-> TRUE]

\* What is shown of a call that fails is an error, and the form stays.
Error(what) == [what |-> what, of |-> 0, details |-> 0, in |-> 0, code |-> 0, vat |-> 0, ok |-> FALSE]
Fails(call) == Failing /\ awaited' = awaited \cup {Error(call.what)}
Succeeds(call) == awaited' = awaited \cup {call}

\* A call is refused and changes nothing, or done is the change it makes, of which
\* the reply may be lost.
Posts(call, done) ==
  /\ Cardinality(awaited) < MaxAsked
  /\ \/ Succeeds(call) /\ done
     \/ Fails(call) /\ done
     \/ Fails(call) /\ UNCHANGED rows

FormShown(name) == entry.shown = name

\* The fields are filled in.
Write ==
  /\ entry.details # entry.number
  /\ entry' = [entry EXCEPT !.details = entry.number]
  /\ UNCHANGED <<room, awaited, rows, vats>>

\* A form is dismissed by a tap beside it, or the key back: its fields stay.
Dismiss ==
  /\ entry' = [entry EXCEPT !.shown = "none", !.of = 0]
  /\ UNCHANGED <<room, awaited, rows, vats>>

-----------------------------------------------------------------------------
(* Items. *)

\* The list of the items, as they are in the phone's own database.
ItemsListed == InSection("items") /\ FormShown("none")

\* The button +.  The fields of an item that was not sent are still there.
AddItemForm ==
  /\ ItemsListed
  /\ entry' = [entry EXCEPT !.shown = "details"]
  /\ UNCHANGED <<room, awaited, rows, vats>>

ItemFormShown == InSection("items") /\ FormShown("details")

WriteItemForm == ItemFormShown /\ Write

CloseItemForm == ItemFormShown /\ Dismiss

\* openBarcodeScanner: the form makes room for the camera.
OpenBarcodeScanner ==
  /\ ItemFormShown
  /\ entry' = [entry EXCEPT !.shown = "scanner", !.scanning = entry.number]
  /\ UNCHANGED <<room, awaited, rows, vats>>

ScannerOpen == InSection("items") /\ FormShown("scanner")

\* handleBarcodeScanned: the first code that is seen goes into the form.
BarcodeScanned ==
  /\ ScannerOpen
  /\ entry' = [entry EXCEPT !.shown = "details", !.code = entry.scanning]
  /\ UNCHANGED <<room, awaited, rows, vats>>

\* closeBarcodeScanner.
CloseBarcodeScanner ==
  /\ ScannerOpen
  /\ entry' = [entry EXCEPT !.shown = "details"]
  /\ UNCHANGED <<room, awaited, rows, vats>>

\* A row is created with what the form holds.
Create ==
  LET call == [ToServer("create") EXCEPT !.of = 0] IN
  /\ ~Awaiting("create")
  /\ Len(rows) < MaxRows
  /\ Posts(call, rows' = Append(rows, Row(call)))
  /\ UNCHANGED <<room, entry, vats>>

AddItem == ItemFormShown /\ entry.details # 0 /\ Create

\* Mutant: the fields stay as they are when the item was added.
ItemAdded_keeping ==
  \E call \in awaited :
    /\ InSection("items") /\ call.what = "create" /\ call.ok
    /\ awaited' = awaited \ {call}
    /\ entry' = [entry EXCEPT !.shown = IF @ = "details" THEN "none" ELSE @]
    /\ UNCHANGED <<room, rows, vats>>

\* The item was added: the form closes, whatever it holds by now, and is emptied.
\* The scanner stays open if it is.
ItemAdded ==
  \E call \in awaited :
    /\ InSection("items") /\ call.what = "create" /\ call.ok
    /\ awaited' = awaited \ {call}
    /\ NewForm
    /\ entry' = Emptied([entry EXCEPT !.shown = IF @ = "details" THEN "none" ELSE @])
    /\ UNCHANGED <<rows, vats>>

\* An error is shown, and everything stays.
ShowError ==
  \E call \in awaited :
    /\ call.what # "vat" /\ ~call.ok
    /\ awaited' = awaited \ {call}
    /\ UNCHANGED <<room, entry, rows, vats>>

\* An item is opened.  What is shown is a copy that does not change any more.
ShowItem ==
  /\ ItemsListed
  /\ \E i \in 1..Len(rows) : entry' = [entry EXCEPT !.shown = "item", !.of = i]
  /\ UNCHANGED <<room, awaited, rows, vats>>

ItemShown == InSection("items") /\ FormShown("item")

BackToItems == ItemShown /\ Dismiss

OpenRestock ==
  /\ ItemShown
  /\ entry' = [entry EXCEPT !.shown = "restock"]
  /\ UNCHANGED <<room, awaited, rows, vats>>

RestockShown == InSection("items") /\ FormShown("restock")

CloseRestock ==
  /\ RestockShown
  /\ entry' = [entry EXCEPT !.shown = "item"]
  /\ UNCHANGED <<room, awaited, rows, vats>>

\* The item is named by its key in the phone's database, which the server does
\* not know: it refuses.
Restock ==
  /\ RestockShown /\ ~Awaiting("restock") /\ Cardinality(awaited) < MaxAsked
  /\ awaited' = awaited \cup {Error("restock")}
  /\ UNCHANGED <<room, entry, rows, vats>>

-----------------------------------------------------------------------------
(* Suppliers. *)

SuppliersListed == InSection("suppliers") /\ FormShown("none")

AddSupplierForm ==
  /\ SuppliersListed
  /\ NewForm
  /\ entry' = [Emptied(entry) EXCEPT !.shown = "details", !.of = 0]
  /\ UNCHANGED <<awaited, rows, vats>>

\* openEditSupplier: the fields hold what is known of the supplier.
OpenEditSupplier ==
  /\ SuppliersListed
  /\ NewForm
  /\ \E s \in 1..Len(rows) :
       /\ rows[s].kept
       /\ entry' = [Emptied(entry) EXCEPT !.shown = "details", !.of = s, !.details = NextForm]
  /\ UNCHANGED <<awaited, rows, vats>>

SupplierFormShown == InSection("suppliers") /\ FormShown("details")

WriteSupplier == SupplierFormShown /\ Write

CloseSupplierForm == SupplierFormShown /\ Dismiss

\* The button of the form: a name is given, and nothing is being saved or deleted.
SaveOffered ==
  SupplierFormShown /\ entry.details # 0 /\ ~Awaiting("create") /\ ~Awaiting("update") /\ ~Awaiting("delete")

SaveSupplier ==
  /\ SaveOffered
  /\ \/ entry.of = 0 /\ Create
     \/ /\ entry.of # 0
        /\ Posts(ToServer("update"),
                 rows' = [rows EXCEPT ![entry.of].details = entry.details, ![entry.of].in = entry.number])
        /\ UNCHANGED <<room, entry, vats>>

\* Deleting is offered while the supplier is being saved, too.
DeleteSupplier ==
  /\ SupplierFormShown /\ entry.of # 0
  /\ Posts(ToServer("delete"), rows' = [rows EXCEPT ![entry.of].kept = FALSE])
  /\ UNCHANGED <<room, entry, vats>>

\* The form that is open closes if it is of the kind that was sent, of whichever
\* supplier it is now; saving empties the fields as well, of either kind.
SupplierSaved ==
  \E call \in awaited :
    /\ InSection("suppliers") /\ call.what \in {"create", "update"} /\ call.ok
    /\ awaited' = awaited \ {call}
    /\ entry' = [entry EXCEPT !.details = 0,
                            !.shown = IF (call.what = "create") = (entry.of = 0) THEN "none" ELSE @,
                            !.of = IF call.what = "update" THEN 0 ELSE @]
    /\ UNCHANGED <<room, rows, vats>>

SupplierDeleted ==
  \E call \in awaited :
    /\ call.what = "delete" /\ call.ok
    /\ awaited' = awaited \ {call}
    /\ entry' = [entry EXCEPT !.shown = IF entry.of # 0 THEN "none" ELSE @, !.of = 0]
    /\ UNCHANGED <<room, rows, vats>>

-----------------------------------------------------------------------------
(* Purchase orders. *)

OrdersListed == InSection("orders") /\ FormShown("none")

CreateOrderForm ==
  /\ OrdersListed
  /\ NewForm
  /\ entry' = [Emptied(entry) EXCEPT !.shown = "details"]
  /\ UNCHANGED <<awaited, rows, vats>>

OrderFormShown == InSection("orders") /\ FormShown("details")

\* A supplier is chosen, and items are added, each of them once.
FillOrder == OrderFormShown /\ entry.step < 3 /\ Write

\* Next, when the step is filled in, and back.
OrderStep ==
  /\ OrderFormShown
  /\ \/ entry.step < 3 /\ entry.details # 0 /\ ~Awaiting("create") /\ entry' = [entry EXCEPT !.step = @ + 1]
     \/ entry.step > 1 /\ entry' = [entry EXCEPT !.step = @ - 1]
  /\ UNCHANGED <<room, awaited, rows, vats>>

\* The form of an order is emptied when it is dismissed.
CloseOrderForm ==
  /\ OrderFormShown
  /\ NewForm
  /\ entry' = [Emptied(entry) EXCEPT !.shown = "none"]
  /\ UNCHANGED <<awaited, rows, vats>>

CreateOrder == OrderFormShown /\ entry.step = 3 /\ entry.details # 0 /\ Create

OrderCreated ==
  \E call \in awaited :
    /\ InSection("orders") /\ call.what = "create" /\ call.ok
    /\ awaited' = awaited \ {call}
    /\ NewForm
    /\ entry' = Emptied([entry EXCEPT !.shown = IF @ = "details" THEN "none" ELSE @])
    /\ UNCHANGED <<rows, vats>>

\* An order that can be received, in the list as the phone last read it: an order
\* received since may still be offered.
OrderOffered(o) == o \in 1..Len(rows)

\* The form is filled in with the order's number, its sum, and 15 % of it as VAT.
OpenReceive ==
  /\ OrdersListed
  /\ \E o \in 1..Len(rows) :
       OrderOffered(o) /\ entry' = [entry EXCEPT !.shown = "receive", !.of = o, !.vat = o]
  /\ UNCHANGED <<room, awaited, rows, vats>>

ReceiveFormShown == InSection("orders") /\ FormShown("receive")

\* The owner sets the VAT to 0.
NoVat ==
  /\ ReceiveFormShown
  /\ entry' = [entry EXCEPT !.vat = 0]
  /\ UNCHANGED <<room, awaited, rows, vats>>

CloseReceive == ReceiveFormShown /\ Dismiss

\* The server takes in what has not arrived yet of the order.
TakeIn(o) ==
  rows' = [rows EXCEPT ![o].status = "received",
                       ![o].stocked = @ + IF rows[o].status = "received" THEN 0 ELSE 1]

\* Confirm: the amounts are those of this moment.
ConfirmReceived ==
  /\ ReceiveFormShown /\ ~Awaiting("receive")
  /\ Posts(ToServer("receive"), TakeIn(entry.of))
  /\ UNCHANGED <<room, entry, vats>>

\* The VAT that is recorded after the goods were taken in.
RecordVat(call, amount) ==
  LET answered(vat) == awaited' = (awaited \ {call}) \cup {vat} IN
  /\ Len(vats) < MaxRows + 1
  /\ \/ vats' = Append(vats, [of |-> call.of, amount |-> amount]) /\ answered([call EXCEPT !.what = "vat"])
     \/ Failing /\ answered(Error("vat"))
        /\ vats' \in {vats, Append(vats, [of |-> call.of, amount |-> amount])}

\* The goods are in.  The VAT is recorded, if there is any; or else the form
\* closes, of whichever order it is now.
Received ==
  \E call \in awaited :
    /\ call.what = "receive" /\ call.ok
    /\ \/ call.vat # 0 /\ RecordVat(call, call.vat) /\ UNCHANGED entry
       \/ call.vat = 0 /\ awaited' = awaited \ {call} /\ UNCHANGED vats
          /\ entry' = [entry EXCEPT !.shown = IF @ = "receive" THEN "none" ELSE @, !.of = 0]
    /\ UNCHANGED <<room, rows>>

\* "Received", or "Partially received": the form closes in both cases.
VatAnswered ==
  \E call \in awaited :
    /\ call.what = "vat"
    /\ awaited' = awaited \ {call}
    /\ entry' = [entry EXCEPT !.shown = IF @ = "receive" THEN "none" ELSE @, !.of = 0]
    /\ UNCHANGED <<room, rows, vats>>

-----------------------------------------------------------------------------

ItemsNext ==
  \/ AddItemForm \/ WriteItemForm \/ CloseItemForm \/ OpenBarcodeScanner \/ BarcodeScanned
  \/ CloseBarcodeScanner \/ AddItem \/ ItemAdded \/ ShowItem \/ BackToItems
  \/ OpenRestock \/ CloseRestock \/ Restock

SuppliersNext ==
  \/ AddSupplierForm \/ OpenEditSupplier \/ WriteSupplier \/ CloseSupplierForm
  \/ SaveSupplier \/ DeleteSupplier \/ SupplierSaved \/ SupplierDeleted

OrdersNext ==
  \/ CreateOrderForm \/ FillOrder \/ OrderStep \/ CloseOrderForm \/ CreateOrder \/ OrderCreated
  \/ OpenReceive \/ NoVat \/ CloseReceive \/ ConfirmReceived \/ Received \/ VatAnswered

StockroomNext == ItemsNext \/ SuppliersNext \/ OrdersNext \/ ShowError

StockroomSpec == StockroomInit /\ [][StockroomNext]_stockroomVars

-----------------------------------------------------------------------------
(* Properties. *)

\* Without failures, what was entered in one form is added at most once, however
\* often the button is tapped and whenever the form is closed and opened again.
AddedOnce ==
  ~Failing => \A i, j \in 1..Len(rows) : rows[i].in = rows[j].in => i = j

\* What is saved of a supplier, an item or an order was entered, or shown, in the
\* form that was saved: nothing is left over from a form before it.
SavedAsShown == \A i \in 1..Len(rows) : rows[i].details = rows[i].in

\* The input VAT that is recorded for an order is the order's own, and its goods
\* are in stock by then, once.
VatOfItsOrder ==
  \A v \in 1..Len(vats) : vats[v].amount = vats[v].of /\ rows[vats[v].of].stocked = 1

\* What the owner saves in the stockroom is saved once, from the form that showed
\* it, and the goods of an order come with that order's VAT.
SavedOnceAsShown == AddedOnce /\ SavedAsShown /\ VatOfItsOrder
=============================================================================
