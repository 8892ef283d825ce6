------------------------------ MODULE OfflineSync ------------------------------
(***************************************************************************)
(* Selling on the phone: the local database of the mobile app, sales that  *)
(* are sent to the server first and queued when that fails, local edits    *)
(* and stock adjustments, the sync service that pushes unsynced rows and   *)
(* pulls the server's, and the wipe of local data when another business    *)
(* is entered.                                                             *)
(*                                                                         *)
(* A call and what the server does with it are one step; the answer, if it *)
(* arrives, is handled in a later one.  Every sale is of one piece of one  *)
(* item; an edit number stands for an item's name, prices and threshold.   *)
(***************************************************************************)
EXTENDS Integers, FiniteSets, Sequences

CONSTANTS
  Items,        \* inventory items, of any business
  Sales,        \* sales the owner may make on this phone
  Adjustments,  \* stock adjustments made on this phone
  Category,     \* the category created on this phone
  Shops,        \* businesses the user can enter
  NoRow,        \* no row of any table
  PAGE_SIZE,    \* items in a page of the server's list
  MaxStock,     \* bound: pieces of an item
  MaxEdits,     \* bound: edits of items
  MaxLosses,    \* bound: calls or answers that are lost, spells without network
  SyncWorlds    \* the circumstances under which the phone is used

SyncHazards == {"network", "refusal", "overlap", "enter", "leave_unsynced",
                "add_business", "edits", "adjusts", "colleague"}

ASSUME SyncAssumption ==
  /\ PAGE_SIZE \in Nat \ {0} /\ MaxStock \in Nat /\ MaxEdits \in Nat /\ MaxLosses \in Nat
  /\ NoRow \notin Items \cup Sales \cup Adjustments \cup {Category}
  /\ IsFiniteSet(Items) /\ IsFiniteSet(Sales) /\ IsFiniteSet(Adjustments)
  /\ \A rows \in {Items, Sales, Adjustments} : Category \notin rows
  /\ Items \cap Sales = {} /\ Items \cap Adjustments = {} /\ Sales \cap Adjustments = {}
  /\ SyncWorlds \subseteq
       [hazards: SUBSET SyncHazards, home: [Items -> Shops],
        stocked: SUBSET Items, stock: 1..MaxStock, sales: Nat, tenant: Shops]

VARIABLES
  tenant,      \* the business of the session's token
  item,        \* rows of the local table items, by item
  sale,        \* the sales of this phone, with their rows in the local tables
  adjustment,  \* rows of the local table stock_transactions
  category,    \* the row of the local table item_categories
  shown,       \* the items as a screen has loaded them last
  sync,        \* the run of syncNow that is in flight
  server,      \* what the server has recorded
  pendingCount, \* the number of unsynced records the app shows
  offline,     \* NetInfo has reported that there is no network
  reset,       \* a wipe of the local data is under way
  losses,      \* number of losses so far
  edits,       \* number of edits so far
  agreed,      \* history: since the last change a sync has begun, or ended well
  circumstances \* the world of this behaviour

local == <<item, sale, adjustment, category, shown, pendingCount>>
history == <<losses, edits, agreed, circumstances>>
syncVars == <<tenant, local, sync, server, offline, reset, history>>

Stocks == 0..MaxStock
Keys == {"online", "queue"}
\* The tables in the order of pushChanges and pullChanges; the pulled tables
\* nothing here is read from count as one.
Tables == <<"item_categories", "items", "sales", "stock_transactions",
            "pull items", "pull others">>
Rows == Items \cup Sales \cup Adjustments \cup {Category}

NoItem == [here |-> FALSE, known |-> FALSE, stock |-> 0, edit |-> 0,
           synced |-> TRUE, deleted |-> FALSE]
NotShown == [here |-> FALSE, known |-> FALSE, stock |-> 0, live |-> FALSE]
NoPage == [i \in Items |-> [there |-> FALSE, stock |-> 0, edit |-> 0]]
NoSync == [step |-> 0, todo |-> {}, row |-> NoRow, answer |-> "none",
           failed |-> FALSE, page |-> NoPage]

SyncTypeOK ==
  /\ tenant \in Shops
  /\ item \in [Items -> [here: BOOLEAN, known: BOOLEAN, stock: Stocks,
                         edit: 0..MaxEdits, synced: BOOLEAN, deleted: BOOLEAN]]
  /\ sale \in [Sales -> [st: {"new", "accepted", "refused", "lost", "told", "denied"},
                         row: {"none", "unsynced", "synced"}, item: Items \cup {NoRow},
                         cart: Stocks, live: BOOLEAN, shop: Shops]]
  /\ adjustment \in [Adjustments -> [st: {"new", "ok", "error", "done"},
                                     row: {"none", "unsynced", "synced"},
                                     item: Items \cup {NoRow}, after: Stocks,
                                     live: BOOLEAN]]
  /\ category \in {"none", "unsynced", "synced"}
  /\ shown \in [Items -> [here: BOOLEAN, known: BOOLEAN, stock: Stocks, live: BOOLEAN]]
  /\ sync \in [step: 0..(Len(Tables) + 1), todo: SUBSET Rows, row: Rows \cup {NoRow},
               answer: {"none", "ok", "error"}, failed: BOOLEAN,
               page: [Items -> [there: BOOLEAN, stock: Stocks, edit: 0..MaxEdits]]]
  /\ server \in [stock: [Items -> Stocks], edit: [Items -> 0..MaxEdits],
                 copies: [Items -> 0..2], gone: SUBSET Items,
                 booked: [Sales -> SUBSET (Keys \X Shops)],
                 adjusted: [Adjustments -> 0..2], categories: 0..1]
  /\ pendingCount \in Nat
  /\ offline \in BOOLEAN /\ reset \in BOOLEAN
  /\ losses \in 0..MaxLosses /\ edits \in 0..MaxEdits
  /\ agreed \in {"no", "syncing", "yes"}
  /\ circumstances \in SyncWorlds

SyncInit ==
  /\ circumstances \in SyncWorlds
  /\ tenant = circumstances.tenant
  /\ item = [i \in Items |-> NoItem]
  /\ sale = [s \in Sales |-> [st |-> "new", row |-> "none", item |-> NoRow, cart |-> 0,
                              live |-> FALSE, shop |-> circumstances.tenant]]
  /\ adjustment = [t \in Adjustments |-> [st |-> "new", row |-> "none", item |-> NoRow,
                                          after |-> 0, live |-> FALSE]]
  /\ category = "none"
  /\ shown = [i \in Items |-> NotShown]
  /\ sync = NoSync
  /\ server = [stock |-> [i \in Items |-> IF i \in circumstances.stocked
                                          THEN circumstances.stock ELSE 0],
               edit |-> [i \in Items |-> 0],
               copies |-> [i \in Items |-> IF i \in circumstances.stocked THEN 1 ELSE 0],
               gone |-> {}, booked |-> [s \in Sales |-> {}],
               adjusted |-> [t \in Adjustments |-> 0], categories |-> 0]
  /\ pendingCount = 0
  /\ offline = FALSE /\ reset = FALSE
  /\ losses = 0 /\ edits = 0
  /\ agreed = "no"

Hazard(h) == h \in circumstances.hazards
home == circumstances.home

-----------------------------------------------------------------------------
(* Calls of the API. *)

\* How a call may end that the server would accept or not: answered, refused,
\* never sent, or done and its answer lost.
Outcomes(acceptable) ==
  IF offline THEN {"unsent"}
  ELSE (IF acceptable THEN {"ok"} ELSE {"refused"})
       \cup (IF Hazard("refusal") THEN {"refused"} ELSE {})
       \cup (IF Hazard("network") /\ losses < MaxLosses
             THEN {"unsent"} \cup (IF acceptable THEN {"lost"} ELSE {}) ELSE {})

Done(outcome) == outcome \in {"ok", "lost"}

CountLoss(outcome) ==
  losses' = IF ~offline /\ outcome \in {"unsent", "lost"} THEN losses + 1 ELSE losses

\* record_sale: the answer for a key is kept per business, and a key is in the
\* sales of one business only.  A line with an item takes it from the stock of
\* that business, a line with a description takes nothing.
Sellable(s, i, key, linked) ==
  \/ <<key, tenant>> \in server.booked[s]
  \/ /\ \A b \in Shops : <<key, b>> \notin server.booked[s]
     /\ linked => home[i] = tenant /\ i \notin server.gone /\ server.stock[i] > 0

Book(s, i, key, linked) ==
  [server EXCEPT !.booked[s] = @ \cup {<<key, tenant>>},
                 !.stock[i] = IF linked /\ <<key, tenant>> \notin server.booked[s]
                              THEN @ - 1 ELSE @]

\* adjustStock has no key: what is asked again is done again.
Adjustable(i, change) ==
  home[i] = tenant /\ i \notin server.gone /\ server.stock[i] + change \in Stocks

Adjust(t, i, change) ==
  [server EXCEPT !.stock[i] = @ + change, !.adjusted[t] = IF @ = 0 THEN 1 ELSE 2]

\* createItem has no key either; updateItem and deleteItem name the item.
SaveItem(i) ==
  IF item[i].deleted THEN [server EXCEPT !.gone = @ \cup {i}]
  ELSE IF item[i].known THEN [server EXCEPT !.edit[i] = item[i].edit]
  ELSE [server EXCEPT !.copies[i] = IF @ = 0 THEN 1 ELSE 2,
                      !.stock[i] = item[i].stock, !.edit[i] = item[i].edit]

Savable(i) == item[i].known => home[i] = tenant /\ i \notin server.gone

\* create_category gets the category if there is one of its name.
SaveCategory == [server EXCEPT !.categories = 1]

-----------------------------------------------------------------------------
(* The local tables. *)

Unsynced(table) ==
  CASE table = "item_categories" -> IF category = "unsynced" THEN {Category} ELSE {}
    [] table = "items" -> {i \in Items : item[i].here /\ ~item[i].synced}
    [] table = "sales" -> {s \in Sales : sale[s].row = "unsynced"}
    [] table = "stock_transactions" -> {t \in Adjustments : adjustment[t].row = "unsynced"}
    [] OTHER -> {}

\* countPendingRecords: a sale counts with its line.
PendingRecords ==
  Cardinality(Unsynced("item_categories")) + Cardinality(Unsynced("items"))
    + 2 * Cardinality(Unsynced("sales")) + Cardinality(Unsynced("stock_transactions"))

\* refreshPendingCount after a write.
RefreshPendingCount == pendingCount' = PendingRecords'

Touch == agreed' = "no"

\* Mutant: the stock may fall below zero.
Less_signed(stock, n) == stock - n

Less(stock, n) == IF stock > n THEN stock - n ELSE 0

\* useLocalItems: a screen loads the items when it is mounted and when it gets
\* the focus, and not after a sale.
ShowItems ==
  /\ shown' = [i \in Items |->
       IF item[i].here /\ ~item[i].deleted
       THEN [here |-> TRUE, known |-> item[i].known, stock |-> item[i].stock, live |-> TRUE]
       ELSE NotShown]
  /\ shown' # shown
  /\ UNCHANGED <<tenant, item, sale, adjustment, category, pendingCount, sync, server,
                 offline, reset, history>>

\* recordOfflineSale: the sale, its line, and the stock of the item less what is
\* sold, counted from the stock in the cart. Without a row for the item the
\* owner is told that it failed, but the sale and the line stay.
RecordOfflineSale(s, i, cart, live) ==
  LET found == live /\ item[i].here
  IN  /\ sale' = [sale EXCEPT ![s].st = IF found THEN "told" ELSE "denied",
                              ![s].row = "unsynced", ![s].item = i, ![s].live = live,
                              ![s].shop = tenant, ![s].cart = 0]
      /\ item' = IF found
                 THEN [item EXCEPT ![i].stock = Less(cart, 1), ![i].synced = FALSE]
                 ELSE item

\* looksNetworkRelated: the API client's errors carry neither the response nor a
\* code, so all of them look like errors of the network.
LooksNetworkRelated(outcome) == outcome \in {"lost", "unsent", "refused"}

\* A wipe is short, and an adjustment is answered, before anything else begins,
\* unless overlap is a hazard.
Settled ==
  Hazard("overlap") \/ (~reset /\ \A t \in Adjustments : adjustment[t].st \in {"new", "done"})

\* The bound of the circumstances on the number of sales.
MaySell == Cardinality({s \in Sales : sale[s].st # "new"}) < circumstances.sales

\* The cart takes what the screen shows in stock.
InCart(i) == shown[i].here /\ shown[i].stock > 0 /\ MaySell /\ Settled

\* recordSaleOnlineFirst without network, or with an item the server does not
\* know: the sale is queued.
SellOffline(s, i) ==
  /\ sale[s].st = "new"
  /\ InCart(i)
  /\ offline \/ ~shown[i].known
  /\ RecordOfflineSale(s, i, shown[i].stock, shown[i].live)
  /\ Touch
  /\ UNCHANGED <<tenant, adjustment, category, shown, sync, server, offline, reset, losses,
                 edits, circumstances>>
  /\ RefreshPendingCount

\* recordSaleOnlineFirst: the sale is sent with a key of its own.
SellOnline(s, i) ==
  /\ sale[s].st = "new"
  /\ InCart(i)
  /\ ~offline /\ shown[i].known
  /\ \E outcome \in Outcomes(Sellable(s, i, "online", TRUE)) :
       /\ server' = IF Done(outcome) THEN Book(s, i, "online", TRUE) ELSE server
       /\ sale' = [sale EXCEPT ![s].st = CASE outcome = "ok" -> "accepted"
                                           [] outcome = "refused" -> "refused"
                                           [] OTHER -> "lost",
                               ![s].item = i, ![s].cart = shown[i].stock,
                               ![s].live = shown[i].live, ![s].shop = tenant]
       /\ CountLoss(outcome)
  /\ Touch
  /\ UNCHANGED <<tenant, item, adjustment, category, shown, pendingCount, sync, offline,
                 reset, edits, circumstances>>

\* The receipt of a sale the server has recorded. (Its syncNow is StartSync.)
SaleAccepted(s) ==
  /\ sale[s].st = "accepted"
  /\ sale' = [sale EXCEPT ![s].st = "told", ![s].cart = 0]
  /\ UNCHANGED <<tenant, item, adjustment, category, shown, pendingCount, sync, server,
                 offline, reset, history>>

\* The call failed: queued, with a new key, when it looks like the network.
SaleFailed(s) ==
  /\ sale[s].st \in {"refused", "lost"}
  /\ IF LooksNetworkRelated(sale[s].st)
     THEN RecordOfflineSale(s, sale[s].item, sale[s].cart, sale[s].live)
     ELSE sale' = [sale EXCEPT ![s].st = "denied", ![s].cart = 0] /\ UNCHANGED item
  /\ Touch
  /\ UNCHANGED <<tenant, adjustment, category, shown, sync, server, offline, reset, losses,
                 edits, circumstances>>
  /\ RefreshPendingCount

-----------------------------------------------------------------------------
(* Local edits. *)

\* Edits and adjustments happen not to meet a sync, unless overlap is a hazard.
Calm == Settled /\ (Hazard("overlap") \/ sync.step = 0)

Editing == Hazard("edits") /\ Calm


WriteRow(i, row) ==
  /\ item' = [item EXCEPT ![i] = row]
  /\ Touch
  /\ UNCHANGED <<tenant, sale, adjustment, category, shown, sync, server, offline, reset,
                 losses, circumstances>>
  /\ RefreshPendingCount

CreateLocalItem(i, n) ==
  /\ Editing
  /\ i \notin circumstances.stocked /\ home[i] = tenant
  /\ ~item[i].here /\ server.copies[i] = 0
  /\ UNCHANGED edits
  /\ WriteRow(i, [NoItem EXCEPT !.here = TRUE, !.stock = n, !.synced = FALSE])

UpdateLocalItem(i, n) ==
  /\ Editing
  /\ shown[i].here /\ shown[i].live /\ item[i].here
  /\ edits < MaxEdits /\ edits' = edits + 1
  /\ WriteRow(i, [item[i] EXCEPT !.stock = n, !.edit = edits + 1, !.synced = FALSE])

DeleteLocalItem(i) ==
  /\ Editing
  /\ shown[i].here /\ shown[i].live /\ item[i].here /\ ~item[i].deleted
  /\ UNCHANGED edits
  /\ WriteRow(i, [item[i] EXCEPT !.deleted = TRUE, !.synced = FALSE])

CreateLocalCategory ==
  /\ Hazard("adjusts") /\ Calm
  /\ category = "none" /\ server.categories = 0
  /\ category' = "unsynced"
  /\ Touch
  /\ UNCHANGED <<tenant, item, sale, adjustment, shown, sync, server, offline, reset, losses,
                 edits, circumstances>>
  /\ RefreshPendingCount

\* adjustLocalStock: the row and the stock are written first, then the server is
\* asked at once if it knows the item.
AdjustLocalStock(t, i, change) ==
  LET next == IF change < 0 THEN Less(shown[i].stock, -change) ELSE shown[i].stock + change
  IN
  /\ Hazard("adjusts") /\ Calm
  /\ adjustment[t].st = "new"
  /\ shown[i].here /\ shown[i].live /\ item[i].here
  /\ next <= MaxStock
  /\ item' = [item EXCEPT ![i].stock = next, ![i].synced = FALSE]
  /\ IF shown[i].known
     THEN \E outcome \in Outcomes(Adjustable(i, change)) :
            /\ server' = IF Done(outcome) THEN Adjust(t, i, change) ELSE server
            /\ adjustment' = [adjustment EXCEPT ![t] =
                 [st |-> IF outcome = "ok" THEN "ok" ELSE "error", row |-> "unsynced",
                  item |-> i, after |-> server'.stock[i], live |-> TRUE]]
            /\ CountLoss(outcome)
     ELSE /\ adjustment' = [adjustment EXCEPT ![t] =
               [st |-> "error", row |-> "unsynced", item |-> i, after |-> 0, live |-> TRUE]]
          /\ UNCHANGED <<server, losses>>
  /\ Touch
  /\ UNCHANGED <<tenant, sale, category, shown, sync, offline, reset, edits, circumstances>>
  /\ RefreshPendingCount

\* The server's answer makes both rows synced; an error leaves them to the sync.
LocalStockAdjusted(t) ==
  LET i == adjustment[t].item
      done == adjustment[t].st = "ok" /\ adjustment[t].live
  IN
  /\ adjustment[t].st \in {"ok", "error"}
  /\ adjustment' = [adjustment EXCEPT ![t].st = "done", ![t].after = 0,
                                      ![t].row = IF done THEN "synced" ELSE @]
  /\ item' = IF done THEN [item EXCEPT ![i].stock = adjustment[t].after, ![i].synced = TRUE]
             ELSE item
  /\ Touch
  /\ UNCHANGED <<tenant, sale, category, shown, sync, server, offline, reset, losses, edits,
                 circumstances>>
  /\ RefreshPendingCount

-----------------------------------------------------------------------------
(* The sync service. *)

\* The button of the sync screen works whenever no sync runs, without network too.
SyncByHand == sync.step = 0

\* The service syncs when the network comes back, when the app comes to the
\* foreground, and every five minutes.
SyncByService == sync.step = 0 /\ ~offline

\* syncNow, single flight.
StartSync ==
  /\ SyncByHand \/ SyncByService
  /\ Settled
  /\ sync' = [NoSync EXCEPT !.step = 1, !.todo = Unsynced(Tables[1])]
  /\ agreed' = IF agreed = "no" THEN "syncing" ELSE agreed
  /\ UNCHANGED <<tenant, local, server, offline, reset, losses, edits, circumstances>>

\* The next table, with the rows that are unsynced now.
NextTable(failed) ==
  LET step == sync.step + 1
  IN  sync' = [NoSync EXCEPT !.step = step, !.failed = failed,
                             !.todo = IF step <= Len(Tables) THEN Unsynced(Tables[step])
                                      ELSE {}]

Pushing(table) == sync.step > 0 /\ sync.step <= 4 /\ Tables[sync.step] = table

TableDone ==
  /\ sync.step \in 1..4
  /\ sync.todo = {} /\ sync.row = NoRow
  /\ NextTable(sync.failed)
  /\ UNCHANGED <<tenant, local, server, offline, reset, history>>

\* The rest of a push: one row at a time, as long as nothing fails.
Push(r, acceptable, result) ==
  /\ r \in sync.todo /\ sync.row = NoRow
  /\ \E outcome \in Outcomes(acceptable) :
       /\ server' = IF Done(outcome) THEN result ELSE server
       /\ sync' = [sync EXCEPT !.row = r, !.answer = IF outcome = "ok" THEN "ok" ELSE "error"]
       /\ CountLoss(outcome)
  /\ UNCHANGED <<tenant, local, offline, reset, edits, agreed, circumstances>>

PushCategory == Pushing("item_categories") /\ Push(Category, TRUE, SaveCategory)

\* An item that was created and deleted here needs no call.
PushItem(i) ==
  /\ Pushing("items")
  /\ ~(item[i].deleted /\ ~item[i].known)
  /\ Push(i, Savable(i), SaveItem(i))

ForgetItem(i) ==
  /\ Pushing("items")
  /\ i \in sync.todo /\ sync.row = NoRow
  /\ item[i].deleted /\ ~item[i].known
  /\ item' = [item EXCEPT ![i].synced = TRUE]
  /\ sync' = [sync EXCEPT !.todo = @ \ {i}]
  /\ UNCHANGED <<tenant, sale, adjustment, category, shown, pendingCount, server, offline,
                 reset, history>>

\* The key of a queued sale is made once and kept in its row.
QueueKey(s) == "queue"

\* findServerId: a line is of an item if the row of the item is there and known.
KnownLine(r) == r.live /\ item[r.item].here /\ item[r.item].known

PushSale(s) ==
  /\ Pushing("sales")
  /\ s \in sync.todo
  /\ LET linked == KnownLine(sale[s])
     IN  Push(s, Sellable(s, sale[s].item, QueueKey(s), linked),
              Book(s, sale[s].item, QueueKey(s), linked))

ChangeOf(t) == -1

PushStockTransaction(t) ==
  /\ Pushing("stock_transactions")
  /\ t \in sync.todo
  /\ KnownLine(adjustment[t])
  /\ Push(t, Adjustable(adjustment[t].item, ChangeOf(t)), Adjust(t, adjustment[t].item, ChangeOf(t)))

\* An adjustment of an item the server does not know yet ends the table.
StockTransactionTooEarly(t) ==
  /\ Pushing("stock_transactions")
  /\ t \in sync.todo /\ sync.row = NoRow
  /\ ~KnownLine(adjustment[t])
  /\ NextTable(TRUE)
  /\ UNCHANGED <<tenant, local, server, offline, reset, history>>

\* A row whose call failed ends its table: the rows after it stay for the next
\* run. (A 403 was to end it without an error, but the client's errors have no
\* response to tell one from another.)
PushFailed ==
  /\ sync.step \in 1..4
  /\ sync.answer = "error"
  /\ NextTable(TRUE)
  /\ UNCHANGED <<tenant, local, server, offline, reset, history>>

\* The row is still in its table.
Stands(r) ==
  CASE r = Category -> category # "none"
    [] r \in Items -> item[r].here
    [] r \in Sales -> sale[r].row # "none"
    [] OTHER -> adjustment[r].row # "none"

\* markSynced, with the id the server gave.
MarkSynced(r) ==
  /\ item' = IF r \in Items
             THEN [item EXCEPT ![r].synced = TRUE, ![r].known = TRUE] ELSE item
  /\ sale' = IF r \in Sales THEN [sale EXCEPT ![r].row = "synced"] ELSE sale
  /\ adjustment' = IF r \in Adjustments THEN [adjustment EXCEPT ![r].row = "synced"]
                   ELSE adjustment
  /\ category' = IF r = Category THEN "synced" ELSE category

RowPushed ==
  /\ sync.step \in 1..4
  /\ sync.answer = "ok"
  /\ Stands(sync.row)
  /\ MarkSynced(sync.row)
  /\ sync' = [sync EXCEPT !.row = NoRow, !.answer = "none", !.todo = @ \ {sync.row}]
  /\ UNCHANGED <<tenant, shown, pendingCount, server, offline, reset, history>>

\* Updating a row that has been wiped throws.
RowWiped ==
  /\ sync.step \in 1..4
  /\ sync.answer = "ok"
  /\ ~Stands(sync.row)
  /\ NextTable(TRUE)
  /\ UNCHANGED <<tenant, local, server, offline, reset, history>>

\* get_items: the items of the business of the token, in the order of their names.
ItemsOfShop == {i \in Items : home[i] = tenant /\ server.copies[i] > 0 /\ i \notin server.gone}

Page(first) ==
  [i \in Items |-> IF i \in first
                   THEN [there |-> TRUE, stock |-> server.stock[i], edit |-> server.edit[i]]
                   ELSE NoPage[i]]

\* The phone asks for no page, gets the first, and does not ask whether there are
\* more. (The server does not look at changed_since.)  Which names come first is
\* left open.
FirstPages ==
  {Page(first) : first \in {some \in SUBSET ItemsOfShop :
     \/ some = ItemsOfShop /\ Cardinality(ItemsOfShop) <= PAGE_SIZE
     \/ Cardinality(some) = PAGE_SIZE}}

PullTable ==
  /\ sync.step \in 5..6
  /\ sync.answer = "none"
  /\ \E outcome \in Outcomes(TRUE), list \in FirstPages :
       /\ sync' = [sync EXCEPT !.answer = IF outcome = "ok" THEN "ok" ELSE "error",
                               !.page = IF outcome = "ok" /\ Tables[sync.step] = "pull items"
                                        THEN list ELSE @]
       /\ CountLoss(outcome)
  /\ UNCHANGED <<tenant, local, server, offline, reset, edits, agreed, circumstances>>

PullFailed ==
  /\ sync.step \in 5..6
  /\ sync.answer = "error"
  /\ NextTable(TRUE)
  /\ UNCHANGED <<tenant, local, server, offline, reset, history>>

\* Mutant: rows with changes of their own are left alone, and so are all others.
Upserted_new(i, row) == IF row.known THEN row ELSE
  [row EXCEPT !.here = TRUE, !.known = TRUE, !.stock = sync.page[i].stock,
              !.edit = sync.page[i].edit, !.synced = TRUE]

\* mapServerItem over the row with the server's id, or a new row. (A row the
\* server does not know yet by its id stays as it is, beside a second one.)
Upserted(i, row) ==
  IF row.here /\ ~row.known THEN row
  ELSE [here |-> TRUE, known |-> TRUE, stock |-> sync.page[i].stock,
        edit |-> sync.page[i].edit, synced |-> TRUE, deleted |-> FALSE]

\* Pulled sales, categories and customers are rows nothing is pushed from; a
\* sale that is unsynced here keeps its row.
TablePulled ==
  /\ sync.step \in 5..6
  /\ sync.answer = "ok"
  /\ item' = [i \in Items |-> IF sync.page[i].there THEN Upserted(i, item[i]) ELSE item[i]]
  /\ NextTable(sync.failed)
  /\ UNCHANGED <<tenant, sale, adjustment, category, shown, pendingCount, server, offline,
                 reset, history>>

FinishSync ==
  /\ sync.step = Len(Tables) + 1
  /\ pendingCount' = PendingRecords
  /\ sync' = NoSync
  /\ agreed' = IF agreed = "syncing" THEN (IF sync.failed THEN "no" ELSE "yes") ELSE agreed
  /\ UNCHANGED <<tenant, item, sale, adjustment, category, shown, server, offline, reset,
                 losses, edits, circumstances>>

-----------------------------------------------------------------------------
(* The session, the network and other people. *)

\* Signing in and switching replace the token and begin to wipe the local data;
\* the screens are mounted anew. The runbook asks for an empty queue first.
EnterShop(b) ==
  /\ Hazard("enter")
  /\ ~reset
  /\ Hazard("overlap") \/ (sync.step = 0 /\ \A s \in Sales : sale[s].st \in {"new", "told", "denied"})
  /\ Hazard("leave_unsynced") \/ pendingCount = 0
  /\ tenant' = b
  /\ reset' = TRUE
  /\ shown' = [i \in Items |-> NotShown]
  /\ Touch
  /\ UNCHANGED <<item, sale, adjustment, category, pendingCount, sync, server, offline,
                 losses, edits, circumstances>>

\* Adding a business replaces the token and wipes nothing.
AddBusinessShop(b) ==
  /\ Hazard("add_business")
  /\ b # tenant
  /\ tenant' = b
  /\ shown' = [i \in Items |-> NotShown]
  /\ Touch
  /\ UNCHANGED <<item, sale, adjustment, category, pendingCount, sync, server, offline,
                 reset, losses, edits, circumstances>>

\* Mutant: only the inventory is wiped.
ResetScopedLocalData_items ==
  /\ reset
  /\ reset' = FALSE
  /\ item' = [i \in Items |-> NoItem]
  /\ pendingCount' = 0
  /\ Touch
  /\ UNCHANGED <<tenant, sale, adjustment, category, shown, sync, server, offline, losses,
                 edits, circumstances>>

ResetScopedLocalData ==
  /\ reset
  /\ reset' = FALSE
  /\ item' = [i \in Items |-> NoItem]
  /\ sale' = [s \in Sales |-> [sale[s] EXCEPT !.row = "none", !.live = FALSE]]
  /\ adjustment' = [t \in Adjustments |-> [adjustment[t] EXCEPT !.row = "none", !.live = FALSE]]
  /\ category' = "none"
  /\ shown' = [i \in Items |-> [shown[i] EXCEPT !.live = FALSE]]
  /\ pendingCount' = 0
  /\ Touch
  /\ UNCHANGED <<tenant, sync, server, offline, losses, edits, circumstances>>

GoOffline ==
  /\ Hazard("network") /\ ~offline /\ losses < MaxLosses
  /\ offline' = TRUE
  /\ losses' = losses + 1
  /\ UNCHANGED <<tenant, local, sync, server, reset, edits, agreed, circumstances>>

\* The sync that the listener starts is StartSync.
GoOnline ==
  /\ offline
  /\ offline' = FALSE
  /\ UNCHANGED <<tenant, local, sync, server, reset, history>>

\* Another phone, the web, or a screen of this phone that writes to the server
\* only (Add item, Apply threshold), changes an item.
ServerChange(i) ==
  /\ Hazard("colleague")
  /\ server.copies[i] > 0 /\ i \notin server.gone
  /\ \/ /\ server.stock[i] > 0
        /\ server' = [server EXCEPT !.stock[i] = @ - 1]
        /\ UNCHANGED edits
     \/ /\ edits < MaxEdits /\ edits' = edits + 1
        /\ server' = [server EXCEPT !.edit[i] = edits + 1]
  /\ Touch
  /\ UNCHANGED <<tenant, local, sync, offline, reset, losses, circumstances>>

-----------------------------------------------------------------------------
Sells ==
  \/ ShowItems
  \/ \E s \in Sales : SaleAccepted(s) \/ SaleFailed(s)
                      \/ \E i \in Items : SellOffline(s, i) \/ SellOnline(s, i)

Edits ==
  \/ CreateLocalCategory
  \/ \E i \in Items : DeleteLocalItem(i)
                      \/ \E n \in Stocks : CreateLocalItem(i, n) \/ UpdateLocalItem(i, n)
  \/ \E t \in Adjustments : LocalStockAdjusted(t)
                            \/ \E i \in Items : AdjustLocalStock(t, i, ChangeOf(t))

Syncs ==
  \/ StartSync \/ TableDone \/ PushCategory \/ PushFailed \/ RowPushed \/ RowWiped
  \/ \E i \in Items : PushItem(i) \/ ForgetItem(i)
  \/ \E s \in Sales : PushSale(s)
  \/ \E t \in Adjustments : PushStockTransaction(t) \/ StockTransactionTooEarly(t)
  \/ PullTable \/ PullFailed \/ TablePulled \/ FinishSync

SyncNext ==
  \/ Sells \/ Edits \/ Syncs
  \/ ResetScopedLocalData \/ GoOffline \/ GoOnline
  \/ \E b \in Shops : EnterShop(b) \/ AddBusinessShop(b)
  \/ \E i \in Items : ServerChange(i)

SyncSpec == SyncInit /\ [][SyncNext]_syncVars

-----------------------------------------------------------------------------
(* Properties. *)

QueuedUnder(s) == {b \in server.booked[s] : b[1] # "online"}

\* A change made on the phone reaches the server once. A queued sale is booked
\* once, in one business, whatever is lost and retried; the rest is safe only
\* as long as no answer is lost (an online sale is queued under a second key, an
\* adjustment and a new item have none) and no sync meets an adjustment.
ReachesServerOnce ==
  /\ \A s \in Sales : Cardinality(QueuedUnder(s)) <= 1
  /\ circumstances.hazards \cap {"network", "overlap", "add_business"} = {} =>
       /\ \A s \in Sales : Cardinality(server.booked[s]) <= 1
       /\ \A t \in Adjustments : server.adjusted[t] <= 1
       /\ \A i \in Items : server.copies[i] <= 1

\* A sale the owner was told is recorded is on the server or in the queue of the
\* phone, also after the business was switched on the word of the pending count.
NothingForgotten ==
  circumstances.hazards \cap {"leave_unsynced", "overlap"} = {} =>
    \A s \in Sales : sale[s].st = "told" =>
                       server.booked[s] # {} \/ sale[s].row = "unsynced"

\* A sale is booked in the business it was made in: a switch wipes what is left in
\* the queue before the next sync begins.
StaysInShop ==
  circumstances.hazards \cap {"overlap", "add_business"} = {} =>
    \A s \in Sales : \A b \in server.booked[s] : b[2] = sale[s].shop

\* What was sold is booked, in the business that sold it, and once, through lost
\* answers, refusals, retries and switches of the business.
SalesArriveOnce == ReachesServerOnce /\ NothingForgotten /\ StaysInShop

\* When nothing has changed since a sync began and the sync ended without an error,
\* the phone shows what the server has of the items of a first page, whatever
\* overlapped before.  Of the items after the first page it may know nothing.
AgreesAfterSync ==
  agreed = "yes" =>
    /\ Unsynced("sales") = {}
    /\ \E list \in FirstPages : \A i \in Items : list[i].there =>
         /\ item[i].here
         /\ item[i].known => item[i].stock = list[i].stock /\ item[i].edit = list[i].edit
=============================================================================
