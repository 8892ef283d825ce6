------------------------------ MODULE ClientsProofs ------------------------------
(***************************************************************************)
(* Proofs about the offline database of the phone and its sync, for any    *)
(* items, sales, adjustments and businesses and any number of losses, and  *)
(* about all the apps side by side: each keeps what was proved of it alone. *)
(***************************************************************************)
EXTENDS MCClients, PayProofs, ShopProofs

-----------------------------------------------------------------------------
(* The offline database and the sync. *)

SaleStage == {"new", "accepted", "refused", "lost", "told", "denied"}
AdjustmentStage == {"new", "ok", "error", "done"}
Mark == {"none", "unsynced", "synced"}
Answer == {"none", "ok", "error"}
Edition == 0..MaxEdits
Count == 0..2

ItemRow == [here: BOOLEAN, known: BOOLEAN, stock: Stocks, edit: Edition, synced: BOOLEAN, deleted: BOOLEAN]
SoldRow == [st: SaleStage, row: Mark, item: Items \cup {NoRow}, cart: Stocks, live: BOOLEAN, shop: Shops]
AdjustmentRow == [st: AdjustmentStage, row: Mark, item: Items \cup {NoRow}, after: Stocks, live: BOOLEAN]
ShownItem == [here: BOOLEAN, known: BOOLEAN, stock: Stocks, live: BOOLEAN]
PageRow == [there: BOOLEAN, stock: Stocks, edit: Edition]
SyncRun == [step: 0..7, todo: SUBSET Rows, row: Rows \cup {NoRow}, answer: Answer,
            failed: BOOLEAN, page: [Items -> PageRow]]
ServerRecord == [stock: [Items -> Stocks], edit: [Items -> Edition], copies: [Items -> Count], gone: SUBSET Items,
                 booked: [Sales -> SUBSET (Keys \X Shops)], adjusted: [Adjustments -> Count], categories: {0, 1}]

SyncTypes ==
  /\ tenant \in Shops
  /\ item \in [Items -> ItemRow] /\ sale \in [Sales -> SoldRow] /\ adjustment \in [Adjustments -> AdjustmentRow]
  /\ category \in Mark /\ shown \in [Items -> ShownItem]
  /\ sync \in SyncRun /\ server \in ServerRecord
  /\ pendingCount \in Nat /\ offline \in BOOLEAN /\ reset \in BOOLEAN
  /\ losses \in 0..MaxLosses /\ edits \in Edition
  /\ agreed \in {"no", "syncing", "yes"} /\ circumstances \in SyncWorlds

\* A sync that does not run has nothing to push; a row of those to push is in
\* flight only while rows are pushed, and a page only while the items are pulled.
RunInv ==
  /\ sync.step = 0 => sync.todo = {}
  /\ sync.row # NoRow => sync.step \in 1..4 /\ sync.row \in sync.todo
  /\ sync.row = NoRow /\ sync.step \in 1..4 => sync.answer = "none"
  /\ sync.step # 5 => sync.page = NoPage

\* The call for the row was answered, and the answer is not handled yet.
Sent(r) == sync.row = r /\ sync.answer = "ok"

\* A sale that was told is booked unless it waits in the queue, and the pending
\* count knows of the queue.
SaleInv(s) ==
  /\ sale[s].st = "new" => server.booked[s] = {} /\ sale[s].row = "none" /\ s \notin sync.todo /\ s # sync.row
  /\ sale[s].st = "accepted" => server.booked[s] # {}
  /\ Sent(s) => server.booked[s] # {}
  /\ circumstances.hazards \cap {"leave_unsynced", "overlap"} = {} =>
       (sale[s].st = "told" => server.booked[s] # {} \/ sale[s].row = "unsynced")
  /\ sale[s].row = "unsynced" => pendingCount > 0
  /\ \A b \in server.booked[s] : b[1] \in {"online", "queue"}
  /\ \A b, c \in server.booked[s] : b[1] = c[1] => b[2] = c[2]

\* When nothing overlaps, a wipe meets no sync and no call.
CalmInv ==
  ~Hazard("overlap") =>
    /\ reset => sync.step = 0 /\ \A s \in Sales : sale[s].st \in {"new", "told", "denied"}
    /\ reset /\ ~Hazard("leave_unsynced") => \A s \in Sales : sale[s].row # "unsynced"
    /\ sync.step > 0 => \A t \in Adjustments : adjustment[t].st \in {"new", "done"}
    /\ \A i \in Items : i \in sync.todo => item[i].here

\* What is asked, queued or pushed was sold in the business of the token.
ShopInv ==
  circumstances.hazards \cap {"overlap", "add_business"} = {} =>
    \A s \in Sales :
      /\ sale[s].st \in {"accepted", "refused", "lost"} => sale[s].shop = tenant
      /\ sale[s].row = "unsynced" /\ ~reset => sale[s].shop = tenant
      /\ s \in sync.todo => sale[s].shop = tenant
      /\ \A b \in server.booked[s] : b[2] = sale[s].shop

\* What is to be pushed the server does not have, unless it has just answered.
OnceInv ==
  circumstances.hazards \cap {"network", "overlap", "add_business"} = {} =>
    /\ \A s \in Sales : (\E b \in server.booked[s] : b[1] = "online") =>
         sale[s].st \in {"accepted", "told"} /\ sale[s].row = "none" /\ s \notin sync.todo /\ s # sync.row
    /\ \A s \in Sales : \A b, c \in server.booked[s] : b[1] = c[1]
    /\ \A t \in Adjustments :
         /\ server.adjusted[t] \in {0, 1}
         /\ adjustment[t].st = "new" => server.adjusted[t] = 0 /\ adjustment[t].row = "none" /\ t \notin sync.todo
         /\ adjustment[t].row # "none" => adjustment[t].live
         /\ adjustment[t].row = "unsynced" => server.adjusted[t] = 0 \/ adjustment[t].st = "ok" \/ Sent(t)
         /\ t \in sync.todo => server.adjusted[t] = 0 \/ Sent(t)
    /\ \A i \in Items :
         /\ server.copies[i] \in {0, 1}
         /\ item[i].here /\ ~item[i].known => server.copies[i] = 0 \/ Sent(i)
    /\ server.categories \in {0, 1}
    /\ category = "unsynced" => server.categories = 0 \/ Sent(Category)
    /\ Category \in sync.todo => server.categories = 0 \/ Sent(Category)

Agrees ==
  \E list \in FirstPages : \A i \in Items : list[i].there =>
    /\ item[i].here
    /\ item[i].known => item[i].stock = list[i].stock /\ item[i].edit = list[i].edit

\* A table that was pushed leaves nothing unsynced, and the page is the server's.
SyncingInv ==
  agreed = "syncing" =>
    /\ sync.step > 0
    /\ ~sync.failed =>
         /\ sync.step = 2 => Unsynced("items") \subseteq sync.todo
         /\ sync.step > 2 => Unsynced("items") = {}
         /\ sync.step = 3 => Unsynced("sales") \subseteq sync.todo
         /\ sync.step > 3 => Unsynced("sales") = {}
         /\ sync.step = 4 => Unsynced("stock_transactions") \subseteq sync.todo
         /\ sync.step > 4 => Unsynced("stock_transactions") = {}
         /\ sync.step = 5 /\ sync.answer = "ok" => sync.page \in FirstPages
         /\ sync.step > 5 => Agrees

\* Where the phone agrees, a sync has nothing to push that the items depend on.
AgreedInv ==
  agreed = "yes" =>
    /\ Unsynced("items") = {} /\ Unsynced("sales") = {} /\ Unsynced("stock_transactions") = {}
    /\ sync.todo \subseteq {Category} /\ sync.row \in {NoRow, Category}
    /\ sync.step = 5 /\ sync.answer = "ok" => sync.page \in FirstPages
    /\ Agrees

SyncInv ==
  /\ SyncTypes /\ RunInv
  /\ \A s \in Sales : SaleInv(s)
  /\ CalmInv /\ ShopInv /\ OnceInv /\ SyncingInv /\ AgreedInv

-----------------------------------------------------------------------------
LEMMA SyncFacts ==
  /\ MaxStock \in Nat /\ MaxEdits \in Nat /\ MaxLosses \in Nat /\ 0 \in Stocks /\ 0 \in Edition
  /\ Edition \subseteq Nat /\ Stocks \subseteq Nat
  /\ NoRow \notin Rows /\ Category \in Rows /\ Items \subseteq Rows /\ Sales \subseteq Rows /\ Adjustments \subseteq Rows
  /\ Category \notin Items /\ Category \notin Sales /\ Category \notin Adjustments
  /\ \A r : ~(r \in Items /\ r \in Sales) /\ ~(r \in Items /\ r \in Adjustments) /\ ~(r \in Sales /\ r \in Adjustments)
  /\ IsFiniteSet(Items) /\ IsFiniteSet(Sales) /\ IsFiniteSet(Adjustments)
<1>1. \A table \in {Items, Sales, Adjustments} : Category \notin table
  BY SyncAssumption
<1> QED BY <1>1, SyncAssumption DEF Rows, Stocks, Edition

LEMMA ItemFields ==
  ASSUME NEW r \in ItemRow
  PROVE  /\ r.here \in BOOLEAN /\ r.known \in BOOLEAN /\ r.stock \in Stocks /\ r.edit \in Edition
         /\ r.synced \in BOOLEAN /\ r.deleted \in BOOLEAN
BY DEF ItemRow

LEMMA SaleFields ==
  ASSUME NEW r \in SoldRow
  PROVE  /\ r.st \in SaleStage /\ r.row \in Mark /\ r.item \in Items \cup {NoRow} /\ r.cart \in Stocks
         /\ r.live \in BOOLEAN /\ r.shop \in Shops
BY DEF SoldRow

LEMMA AdjustmentFields ==
  ASSUME NEW r \in AdjustmentRow
  PROVE  /\ r.st \in AdjustmentStage /\ r.row \in Mark /\ r.item \in Items \cup {NoRow} /\ r.after \in Stocks
         /\ r.live \in BOOLEAN
BY DEF AdjustmentRow

LEMMA RunFields ==
  ASSUME NEW r \in SyncRun
  PROVE  /\ r.step \in 0..7 /\ r.todo \subseteq Rows /\ r.row \in Rows \cup {NoRow} /\ r.answer \in Answer
         /\ r.failed \in BOOLEAN /\ r.page \in [Items -> PageRow]
BY DEF SyncRun

LEMMA ServerFields ==
  ASSUME NEW r \in ServerRecord
  PROVE  /\ r.stock \in [Items -> Stocks] /\ r.edit \in [Items -> Edition] /\ r.copies \in [Items -> Count]
         /\ r.gone \subseteq Items /\ r.booked \in [Sales -> SUBSET (Keys \X Shops)]
         /\ r.adjusted \in [Adjustments -> Count] /\ r.categories \in {0, 1}
BY DEF ServerRecord

\* The rows of each table.
LEMMA TableRows ==
  /\ Len(Tables) = 6
  /\ Unsynced(Tables[1]) = Unsynced("item_categories") /\ Unsynced(Tables[2]) = Unsynced("items")
  /\ Unsynced(Tables[3]) = Unsynced("sales") /\ Unsynced(Tables[4]) = Unsynced("stock_transactions")
  /\ Unsynced(Tables[5]) = {} /\ Unsynced(Tables[6]) = {}
  /\ Tables[1] = "item_categories" /\ Tables[2] = "items" /\ Tables[3] = "sales"
  /\ Tables[4] = "stock_transactions" /\ Tables[5] = "pull items" /\ Tables[6] = "pull others"
BY DEF Tables, Unsynced

LEMMA UnsyncedRows ==
  /\ Unsynced("item_categories") = IF category = "unsynced" THEN {Category} ELSE {}
  /\ Unsynced("items") = {i \in Items : item[i].here /\ ~item[i].synced}
  /\ Unsynced("sales") = {s \in Sales : sale[s].row = "unsynced"}
  /\ Unsynced("stock_transactions") = {t \in Adjustments : adjustment[t].row = "unsynced"}
BY DEF Unsynced

LEMMA Counted ==
  ASSUME RefreshPendingCount
  PROVE  pendingCount' \in Nat /\ \A s \in Sales : sale'[s].row = "unsynced" => pendingCount' > 0
<1>1. PICK C, I, S, T : /\ C = Unsynced("item_categories")' /\ I = Unsynced("items")'
                        /\ S = Unsynced("sales")' /\ T = Unsynced("stock_transactions")'
  OBVIOUS
<1>2. C \in {{Category}, {}} /\ I \subseteq Items /\ T \subseteq Adjustments
  BY <1>1 DEF Unsynced
<1>3. S = {s \in Sales : sale'[s].row = "unsynced"}
  BY <1>1 DEF Unsynced
<1>4. pendingCount' = Cardinality(C) + Cardinality(I) + 2 * Cardinality(S) + Cardinality(T)
  BY <1>1 DEF RefreshPendingCount, PendingRecords
<1>5. IsFiniteSet(C) /\ IsFiniteSet(I) /\ IsFiniteSet(S) /\ IsFiniteSet(T)
  <2>1. IsFiniteSet({Category}) /\ IsFiniteSet({})
    BY FS_Singleton, FS_EmptySet
  <2>2. IsFiniteSet(I) /\ IsFiniteSet(T)
    BY <1>2, SyncFacts, FS_Subset
  <2>3. S \subseteq Sales
    BY <1>3
  <2> QED BY <1>2, <2>1, <2>2, <2>3, SyncFacts, FS_Subset
<1>6. Cardinality(C) \in Nat /\ Cardinality(I) \in Nat /\ Cardinality(S) \in Nat /\ Cardinality(T) \in Nat
  BY <1>5, FS_CardinalityType
<1>7. S # {} => Cardinality(S) # 0
  BY <1>5, FS_EmptySet
<1>8. \A s \in Sales : sale'[s].row = "unsynced" => S # {}
  BY <1>3
<1> QED BY <1>4, <1>6, <1>7, <1>8

LEMMA OutcomeFacts ==
  ASSUME losses \in 0..MaxLosses, NEW acceptable \in BOOLEAN, NEW outcome \in Outcomes(acceptable)
  PROVE  /\ outcome \in {"ok", "refused", "unsent", "lost"}
         /\ Done(outcome) => acceptable
         /\ outcome = "lost" => Hazard("network")
         /\ CountLoss(outcome) => losses' \in 0..MaxLosses
BY SyncFacts DEF Outcomes, Done, CountLoss

LEMMA RowChange ==
  ASSUME NEW S, NEW R, NEW f \in [S -> R], NEW x \in S, NEW v \in R
  PROVE  /\ [f EXCEPT ![x] = v] \in [S -> R] /\ [f EXCEPT ![x] = v][x] = v
         /\ \A y \in S \ {x} : [f EXCEPT ![x] = v][y] = f[y]
OBVIOUS

LEMMA BookEffect ==
  ASSUME server \in ServerRecord, tenant \in Shops, NEW s \in Sales, NEW i, NEW key \in Keys, NEW linked,
         \A b, c \in server.booked[s] : b[1] = c[1] => b[2] = c[2],
         Sellable(s, i, key, linked), NEW new, new = Book(s, i, key, linked)
  PROVE  /\ new \in ServerRecord
         /\ new.booked[s] = server.booked[s] \cup {<<key, tenant>>}
         /\ \A r \in Sales \ {s} : new.booked[r] = server.booked[r]
         /\ \A b \in server.booked[s] : b[1] = key => b[2] = tenant
         /\ new.edit = server.edit /\ new.copies = server.copies /\ new.gone = server.gone
         /\ new.adjusted = server.adjusted /\ new.categories = server.categories
<1>1. server.stock \in [Items -> Stocks] /\ server.booked \in [Sales -> SUBSET (Keys \X Shops)]
  BY ServerFields
<1>2. PICK stock \in [Items -> Stocks] :
        stock = [server.stock EXCEPT ![i] = IF linked /\ <<key, tenant>> \notin server.booked[s] THEN @ - 1 ELSE @]
  <2>1. CASE i \in Items /\ linked /\ <<key, tenant>> \notin server.booked[s]
    <3>1. server.stock[i] \in Stocks /\ server.stock[i] > 0
      BY <1>1, <2>1 DEF Sellable
    <3>2. server.stock[i] - 1 \in Stocks
      BY <3>1, SyncFacts DEF Stocks
    <3> QED BY <1>1, <2>1, <3>2
  <2>2. CASE ~(i \in Items /\ linked /\ <<key, tenant>> \notin server.booked[s])
    BY <1>1, <2>2
  <2> QED BY <2>1, <2>2
<1>3. PICK booked \in [Sales -> SUBSET (Keys \X Shops)] :
        booked = [server.booked EXCEPT ![s] = @ \cup {<<key, tenant>>}]
  <2>1. server.booked[s] \cup {<<key, tenant>>} \in SUBSET (Keys \X Shops)
    BY <1>1
  <2> QED BY <1>1, <2>1
<1>4. Book(s, i, key, linked) = [server EXCEPT !.booked = booked, !.stock = stock]
  BY <1>2, <1>3 DEF Book
<1>5. new \in ServerRecord /\ new.booked = booked
  BY <1>4 DEF ServerRecord
<1>6. /\ new.edit = server.edit /\ new.copies = server.copies /\ new.gone = server.gone
      /\ new.adjusted = server.adjusted /\ new.categories = server.categories
  BY <1>4 DEF ServerRecord
<1>7. /\ booked[s] = server.booked[s] \cup {<<key, tenant>>}
      /\ \A r \in Sales \ {s} : booked[r] = server.booked[r]
  BY <1>1, <1>3
<1>8. ASSUME NEW b \in server.booked[s], b[1] = key
      PROVE  b[2] = tenant
  <2>1. b = <<key, b[2]>> /\ b[2] \in Shops
    BY <1>1, <1>8
  <2>2. CASE <<key, tenant>> \in server.booked[s]
    <3> DEFINE own == <<key, tenant>>
    <3>1. own \in server.booked[s] /\ own[1] = b[1] /\ own[2] = tenant
      BY <1>8, <2>2
    <3> HIDE DEF own
    <3> QED BY <1>8, <3>1
  <2>3. CASE \A shop \in Shops : <<key, shop>> \notin server.booked[s]
    BY <1>8, <2>1, <2>3
  <2> QED BY <2>2, <2>3 DEF Sellable
<1> QED BY <1>5, <1>6, <1>7, <1>8

\* A count of what the server has done twice stays at two.
LEMMA OneMore ==
  ASSUME NEW S, NEW f \in [S -> Count], NEW x
  PROVE  \E new \in [S -> Count] : new = [f EXCEPT ![x] = IF @ = 0 THEN 1 ELSE 2]
<1>1. (IF f[x] = 0 THEN 1 ELSE 2) \in Count
  BY DEF Count
<1> DEFINE v == IF f[x] = 0 THEN 1 ELSE 2
<1>2. v \in Count /\ [f EXCEPT ![x] = IF @ = 0 THEN 1 ELSE 2] = [f EXCEPT ![x] = v]
  BY <1>1
<1> HIDE DEF v
<1>3. [f EXCEPT ![x] = v] \in [S -> Count]
  BY <1>2
<1> QED BY <1>2, <1>3

LEMMA AdjustEffect ==
  ASSUME server \in ServerRecord, NEW t \in Adjustments, NEW i \in Items \cup {NoRow}, NEW change \in Int,
         Adjustable(i, change), NEW new, new = Adjust(t, i, change)
  PROVE  /\ new \in ServerRecord
         /\ server.adjusted[t] = 0 => new.adjusted[t] = 1
         /\ \A u \in Adjustments \ {t} : new.adjusted[u] = server.adjusted[u]
         /\ new.edit = server.edit /\ new.copies = server.copies /\ new.gone = server.gone
         /\ new.booked = server.booked /\ new.categories = server.categories
<1>1. server.stock \in [Items -> Stocks] /\ server.adjusted \in [Adjustments -> Count]
  BY ServerFields
<1>2. PICK stock \in [Items -> Stocks] : stock = [server.stock EXCEPT ![i] = @ + change]
  BY <1>1 DEF Adjustable
<1>3. PICK adjusted \in [Adjustments -> Count] : adjusted = [server.adjusted EXCEPT ![t] = IF @ = 0 THEN 1 ELSE 2]
  BY <1>1, OneMore
<1>4. Adjust(t, i, change) = [server EXCEPT !.stock = stock, !.adjusted = adjusted]
  BY <1>2, <1>3 DEF Adjust
<1>5. (server.adjusted[t] = 0 => adjusted[t] = 1) /\ \A u \in Adjustments \ {t} : adjusted[u] = server.adjusted[u]
  BY <1>1, <1>3
<1>6. new \in ServerRecord /\ new.adjusted = adjusted
  BY <1>4 DEF ServerRecord
<1>7. /\ new.edit = server.edit /\ new.copies = server.copies /\ new.gone = server.gone
      /\ new.booked = server.booked /\ new.categories = server.categories
  BY <1>4 DEF ServerRecord
<1> QED BY <1>5, <1>6, <1>7

\* What the server saves, and what becomes of its items.
LEMMA SaveEffect ==
  ASSUME server \in ServerRecord, item \in [Items -> ItemRow], NEW i \in Items, NEW new, new = SaveItem(i)
  PROVE  /\ new \in ServerRecord
         /\ \/ new.copies[i] = server.copies[i]
            \/ ~item[i].deleted /\ ~item[i].known /\ (server.copies[i] = 0 => new.copies[i] = 1)
         /\ \A j \in Items \ {i} : new.copies[j] = server.copies[j]
         /\ new.booked = server.booked /\ new.adjusted = server.adjusted /\ new.categories = server.categories
<1>1. /\ server.stock \in [Items -> Stocks] /\ server.edit \in [Items -> Edition]
      /\ server.copies \in [Items -> Count] /\ server.gone \subseteq Items
  BY ServerFields
<1>2. item[i].stock \in Stocks /\ item[i].edit \in Edition
  BY ItemFields
<1>3. CASE item[i].deleted
  <2>1. PICK gone \in SUBSET Items : gone = server.gone \cup {i}
    BY <1>1
  <2>2. new = [server EXCEPT !.gone = gone]
    BY <1>3, <2>1 DEF SaveItem
  <2>3. new \in ServerRecord
    BY <2>2 DEF ServerRecord
  <2>4. /\ new.copies = server.copies /\ new.booked = server.booked
        /\ new.adjusted = server.adjusted /\ new.categories = server.categories
    BY <2>2 DEF ServerRecord
  <2> QED BY <2>3, <2>4
<1>4. PICK edit \in [Items -> Edition] : edit = [server.edit EXCEPT ![i] = item[i].edit]
  BY <1>1, <1>2
<1>5. CASE ~item[i].deleted /\ item[i].known
  <2>1. new = [server EXCEPT !.edit = edit]
    BY <1>5, <1>4 DEF SaveItem
  <2>2. new \in ServerRecord
    BY <2>1 DEF ServerRecord
  <2>3. /\ new.copies = server.copies /\ new.booked = server.booked
        /\ new.adjusted = server.adjusted /\ new.categories = server.categories
    BY <2>1 DEF ServerRecord
  <2> QED BY <2>2, <2>3
<1>6. CASE ~item[i].deleted /\ ~item[i].known
  <2>1. PICK copies \in [Items -> Count] : copies = [server.copies EXCEPT ![i] = IF @ = 0 THEN 1 ELSE 2]
    <3>1. PICK before \in [Items -> Count] : before = server.copies
      BY <1>1
    <3>2. \E copies \in [Items -> Count] : copies = [before EXCEPT ![i] = IF @ = 0 THEN 1 ELSE 2]
      BY OneMore
    <3> QED BY <3>1, <3>2
  <2>2. PICK stock \in [Items -> Stocks] : stock = [server.stock EXCEPT ![i] = item[i].stock]
    BY <1>1, <1>2
  <2>3. new = [server EXCEPT !.copies = copies, !.stock = stock, !.edit = edit]
    BY <1>4, <1>6, <2>1, <2>2 DEF SaveItem
  <2>4. (server.copies[i] = 0 => copies[i] = 1) /\ \A j \in Items \ {i} : copies[j] = server.copies[j]
    BY <1>1, <2>1
  <2>5. new \in ServerRecord /\ new.copies = copies
    BY <2>3 DEF ServerRecord
  <2>6. new.booked = server.booked /\ new.adjusted = server.adjusted /\ new.categories = server.categories
    BY <2>3 DEF ServerRecord
  <2> QED BY <1>6, <2>4, <2>5, <2>6
<1> QED BY <1>3, <1>5, <1>6

LEMMA CategoryEffect ==
  ASSUME server \in ServerRecord, NEW new, new = SaveCategory
  PROVE  /\ new \in ServerRecord
         /\ server.categories = 0 => new.categories = 1
         /\ new.stock = server.stock /\ new.edit = server.edit /\ new.copies = server.copies
         /\ new.gone = server.gone /\ new.booked = server.booked /\ new.adjusted = server.adjusted
<1>1. PICK n \in {0, 1} : n = 1
  OBVIOUS
<1>2. new = [server EXCEPT !.categories = n]
  BY <1>1 DEF SaveCategory
<1> QED BY <1>1, <1>2 DEF ServerRecord

LEMMA Typed ==
  ASSUME SyncTypes
  PROVE  /\ tenant \in Shops
         /\ item \in [Items -> ItemRow] /\ sale \in [Sales -> SoldRow] /\ adjustment \in [Adjustments -> AdjustmentRow]
         /\ category \in Mark /\ shown \in [Items -> ShownItem]
         /\ sync \in SyncRun /\ server \in ServerRecord
         /\ losses \in 0..MaxLosses /\ edits \in Edition /\ pendingCount \in Nat
         /\ \A i \in Items : item[i] \in ItemRow
         /\ \A s \in Sales : sale[s] \in SoldRow
         /\ \A t \in Adjustments : adjustment[t] \in AdjustmentRow
         /\ \A i \in Items : shown[i].stock \in Stocks /\ shown[i].live \in BOOLEAN
BY DEF SyncTypes, ShownItem

-----------------------------------------------------------------------------
\* A queued sale is one of this business, and was not booked under the other key.
LEMMA RecordEffect ==
  ASSUME SyncTypes, NEW s \in Sales, NEW i \in Items \cup {NoRow}, NEW cart \in Stocks, NEW live \in BOOLEAN,
         RecordOfflineSale(s, i, cart, live)
  PROVE  /\ sale' \in [Sales -> SoldRow] /\ item' \in [Items -> ItemRow]
         /\ sale'[s].st \in {"told", "denied"} /\ sale'[s].row = "unsynced" /\ sale'[s].shop = tenant
         /\ \A r \in Sales \ {s} : sale'[r] = sale[r]
         /\ \A j \in Items : item'[j].here = item[j].here /\ item'[j].known = item[j].known
<1>1. PICK st \in {"told", "denied"}, row \in Mark, none \in Stocks, shop \in Shops :
        /\ row = "unsynced" /\ none = 0 /\ shop = tenant
        /\ sale' = [sale EXCEPT ![s].st = st, ![s].row = row, ![s].item = i, ![s].live = live,
                                ![s].shop = shop, ![s].cart = none]
  BY Typed, SyncFacts DEF RecordOfflineSale, Mark
<1>2. st \in SaleStage /\ sale \in [Sales -> SoldRow]
  BY <1>1, Typed DEF SaleStage
<1> DEFINE new == [sale[s] EXCEPT !.st = st, !.row = row, !.item = i, !.live = live, !.shop = shop, !.cart = none]
<1>3. new \in SoldRow /\ new.st = st /\ new.row = row /\ new.shop = shop
  <2>1. sale[s] \in SoldRow
    BY <1>2
  <2> QED BY <1>2, <2>1 DEF SoldRow
<1>4. sale' = [sale EXCEPT ![s] = new]
  BY <1>1
<1> HIDE DEF new
<1>5. sale' \in [Sales -> SoldRow] /\ sale'[s] = new /\ \A r \in Sales \ {s} : sale'[r] = sale[r]
  BY <1>2, <1>3, <1>4, RowChange
<1>6. item' = [item EXCEPT ![i].stock = Less(cart, 1), ![i].synced = FALSE] \/ item' = item
  BY DEF RecordOfflineSale
<1>7. PICK less \in Stocks : less = Less(cart, 1)
  BY SyncFacts DEF Less, Stocks
<1>8. item \in [Items -> ItemRow]
  BY Typed
<1>9. item' \in [Items -> ItemRow] /\ \A j \in Items : item'[j].here = item[j].here /\ item'[j].known = item[j].known
  <2>1. item' = [item EXCEPT ![i].stock = less, ![i].synced = FALSE] \/ item' = item
    BY <1>6, <1>7
  <2> QED BY <1>8, <2>1 DEF ItemRow
<1> QED BY <1>1, <1>3, <1>5, <1>9

LEMMA QueuedKeeps ==
  ASSUME SyncInv, NEW s \in Sales, sale[s].st \in {"new", "refused", "lost"}, Hazard("overlap") \/ ~reset,
         sale' \in [Sales -> SoldRow], item' \in [Items -> ItemRow],
         sale'[s].st \in {"told", "denied"}, sale'[s].row = "unsynced", sale'[s].shop = tenant,
         \A r \in Sales \ {s} : sale'[r] = sale[r],
         \A j \in Items : item'[j].here = item[j].here /\ item'[j].known = item[j].known,
         agreed' = "no", RefreshPendingCount,
         UNCHANGED <<tenant, adjustment, category, shown, sync, server, offline, reset, losses, edits, circumstances>>
  PROVE  SyncInv'
<1>1. SyncTypes'
  BY Counted DEF SyncInv, SyncTypes
<1>2. RunInv'
  BY DEF SyncInv, RunInv
<1>3. \A r \in Sales : SaleInv(r)'
  BY Counted DEF SyncInv, SaleInv, Sent
<1>4. CalmInv'
  BY DEF SyncInv, CalmInv, Hazard
<1>5. ShopInv'
  BY DEF SyncInv, ShopInv, SaleInv, CalmInv, Hazard
<1>6. OnceInv'
  BY DEF SyncInv, OnceInv, SaleInv, Sent
<1> QED BY <1>1, <1>2, <1>3, <1>4, <1>5, <1>6 DEF SyncInv, SyncingInv, AgreedInv

LEMMA SellOfflineKeeps ==
  ASSUME SyncInv, NEW s \in Sales, NEW i \in Items, SellOffline(s, i)
  PROVE  SyncInv'
<1>1. RecordOfflineSale(s, i, shown[i].stock, shown[i].live) /\ Settled /\ sale[s].st = "new"
  BY DEF SellOffline, InCart
<1>2. SyncTypes
  BY DEF SyncInv
<1> QED BY <1>1, <1>2, Typed, RecordEffect, QueuedKeeps DEF SellOffline, Settled, Touch

LEMMA SaleFailedKeeps ==
  ASSUME SyncInv, NEW s \in Sales, SaleFailed(s)
  PROVE  SyncInv'
<1>1. RecordOfflineSale(s, sale[s].item, sale[s].cart, sale[s].live) /\ sale[s].st \in {"refused", "lost"}
  BY DEF SaleFailed, LooksNetworkRelated
<1>2. SyncTypes
  BY DEF SyncInv
<1>3. Hazard("overlap") \/ ~reset
  BY <1>1 DEF SyncInv, CalmInv
<1>4. sale[s].item \in Items \cup {NoRow} /\ sale[s].cart \in Stocks /\ sale[s].live \in BOOLEAN
  BY <1>2, Typed, SaleFields
<1> QED BY <1>1, <1>2, <1>3, <1>4, RecordEffect, QueuedKeeps DEF SaleFailed, Touch

\* A sale that is asked has not been booked before.
LEMMA SellOnlineKeeps ==
  ASSUME SyncInv, NEW s \in Sales, NEW i \in Items, SellOnline(s, i)
  PROVE  SyncInv'
<1>1. SyncTypes
  BY DEF SyncInv
<1>2. PICK outcome \in Outcomes(Sellable(s, i, "online", TRUE)) :
        /\ server' = IF Done(outcome) THEN Book(s, i, "online", TRUE) ELSE server
        /\ sale' = [sale EXCEPT ![s].st = CASE outcome = "ok" -> "accepted"
                                            [] outcome = "refused" -> "refused"
                                            [] OTHER -> "lost",
                                ![s].item = i, ![s].cart = shown[i].stock,
                                ![s].live = shown[i].live, ![s].shop = tenant]
        /\ CountLoss(outcome)
  BY DEF SellOnline
<1>3. PICK st \in {"accepted", "refused", "lost"}, shop \in Shops :
        /\ st = "accepted" <=> outcome = "ok"
        /\ shop = tenant
        /\ sale' = [sale EXCEPT ![s].st = st, ![s].item = i, ![s].cart = shown[i].stock,
                                ![s].live = shown[i].live, ![s].shop = shop]
  BY <1>1, <1>2, Typed
<1>4. PICK cart \in Stocks, live \in BOOLEAN : cart = shown[i].stock /\ live = shown[i].live
  BY <1>1, Typed
<1>5. st \in SaleStage /\ sale \in [Sales -> SoldRow] /\ i \in Items \cup {NoRow}
  BY <1>1, Typed DEF SaleStage
<1> DEFINE new == [sale[s] EXCEPT !.st = st, !.item = i, !.cart = cart, !.live = live, !.shop = shop]
<1>6. new \in SoldRow /\ new.st = st /\ new.row = sale[s].row /\ new.shop = shop
  <2>1. sale[s] \in SoldRow
    BY <1>5
  <2> QED BY <1>5, <2>1 DEF SoldRow
<1>7. sale' = [sale EXCEPT ![s] = new]
  BY <1>3, <1>4
<1> HIDE DEF new
<1>8. sale' \in [Sales -> SoldRow] /\ sale'[s] = new /\ \A r \in Sales \ {s} : sale'[r] = sale[r]
  BY <1>5, <1>6, <1>7, RowChange
<1>9. sale'[s].st = st /\ sale'[s].row = sale[s].row /\ sale'[s].shop = tenant
  BY <1>3, <1>6, <1>8
<1>10. /\ outcome \in {"ok", "refused", "unsent", "lost"} /\ losses' \in 0..MaxLosses
       /\ Done(outcome) => Sellable(s, i, "online", TRUE)
       /\ outcome = "lost" => Hazard("network")
  <2>1. Sellable(s, i, "online", TRUE) \in BOOLEAN
    BY DEF Sellable
  <2> QED BY <1>1, <1>2, <2>1, Typed, OutcomeFacts
<1>11. /\ server' \in ServerRecord
       /\ server'.copies = server.copies /\ server'.adjusted = server.adjusted /\ server'.categories = server.categories
       /\ server'.booked[s] = IF Done(outcome) THEN server.booked[s] \cup {<<"online", tenant>>} ELSE server.booked[s]
       /\ \A r \in Sales \ {s} : server'.booked[r] = server.booked[r]
  <2>1. "online" \in Keys
    BY DEF Keys
  <2>2. CASE Done(outcome)
    <3>1. server \in ServerRecord /\ tenant \in Shops
      BY <1>1, Typed
    <3>2. Sellable(s, i, "online", TRUE)
      BY <1>10, <2>2
    <3>3. server' = Book(s, i, "online", TRUE)
      BY <1>2, <2>2
    <3>4. PICK linked \in BOOLEAN : Sellable(s, i, "online", linked) /\ server' = Book(s, i, "online", linked)
      BY <3>2, <3>3
    <3>5. /\ server' \in ServerRecord
          /\ server'.copies = server.copies /\ server'.adjusted = server.adjusted
          /\ server'.categories = server.categories
          /\ server'.booked[s] = server.booked[s] \cup {<<"online", tenant>>}
          /\ \A r \in Sales \ {s} : server'.booked[r] = server.booked[r]
      <4>1. \A made : made = Book(s, i, "online", linked) =>
              /\ made \in ServerRecord
              /\ made.copies = server.copies /\ made.adjusted = server.adjusted
              /\ made.categories = server.categories
              /\ made.booked[s] = server.booked[s] \cup {<<"online", tenant>>}
              /\ \A r \in Sales \ {s} : made.booked[r] = server.booked[r]
        <5>1. \A b, c \in server.booked[s] : b[1] = c[1] => b[2] = c[2]
          BY DEF SyncInv, SaleInv
        <5> QED BY <2>1, <3>1, <3>4, <5>1, BookEffect
      <4> QED BY <3>4, <4>1
    <3> QED BY <2>2, <3>5
  <2>3. CASE ~Done(outcome)
    BY <1>1, <1>2, <2>3, Typed
  <2> QED BY <2>2, <2>3
<1>12. /\ server'.booked[s] = IF Done(outcome) THEN server.booked[s] \cup {<<"online", tenant>>} ELSE server.booked[s]
       /\ \A r \in Sales \ {s} : server'.booked[r] = server.booked[r]
  BY <1>11
<1>13. /\ sale[s].st = "new" /\ Settled /\ agreed' = "no"
       /\ UNCHANGED <<tenant, item, adjustment, category, shown, pendingCount, sync, offline, reset, edits, circumstances>>
  BY DEF SellOnline, InCart, Touch
<1>14. server.booked[s] = {} /\ sale[s].row = "none" /\ s \notin sync.todo /\ s # sync.row
  BY <1>13 DEF SyncInv, SaleInv
<1>15. \A b \in server'.booked[s] : b = <<"online", tenant>> /\ Done(outcome)
  BY <1>12, <1>14
<1>16. outcome = "ok" => server'.booked[s] # {}
  BY <1>12 DEF Done
<1> HIDE DEF SyncInv
<1>17. SyncTypes'
  BY <1>1, <1>8, <1>10, <1>11, <1>13 DEF SyncTypes
<1>18. RunInv'
  BY <1>13 DEF SyncInv, RunInv
<1>19. \A r \in Sales : SaleInv(r)'
  <2>1. SaleInv(s)'
    BY <1>3, <1>9, <1>13, <1>14, <1>15, <1>16 DEF SaleInv, Sent
  <2>2. \A r \in Sales \ {s} : SaleInv(r)'
    BY <1>8, <1>12, <1>13 DEF SyncInv, SaleInv, Sent
  <2> QED BY <2>1, <2>2
<1>20. CalmInv'
  BY <1>13 DEF SyncInv, CalmInv, Hazard, Settled
<1>21. ShopInv'
  BY <1>8, <1>9, <1>12, <1>13, <1>14, <1>15 DEF SyncInv, ShopInv
<1>22. OnceInv'
  <2>1. ~Hazard("network") => (Done(outcome) => st = "accepted")
    BY <1>3, <1>10 DEF Done
  <2> QED BY <1>8, <1>9, <1>11, <1>12, <1>13, <1>14, <1>15, <2>1 DEF SyncInv, OnceInv, Sent, Hazard
<1> QED BY <1>13, <1>17, <1>18, <1>19, <1>20, <1>21, <1>22 DEF SyncInv, SyncingInv, AgreedInv

LEMMA SaleAcceptedKeeps ==
  ASSUME SyncInv, NEW s \in Sales, SaleAccepted(s)
  PROVE  SyncInv'
<1>1. /\ sale[s].st = "accepted" /\ sale' = [sale EXCEPT ![s].st = "told", ![s].cart = 0]
      /\ UNCHANGED <<tenant, item, adjustment, category, shown, pendingCount, sync, server, offline, reset,
                     losses, edits, agreed, circumstances>>
  BY DEF SaleAccepted, history
<1>2. sale \in [Sales -> SoldRow] /\ 0 \in Stocks
  BY Typed, SyncFacts DEF SyncInv
<1>3. /\ sale' \in [Sales -> SoldRow] /\ \A r \in Sales \ {s} : sale'[r] = sale[r]
      /\ sale'[s].st = "told" /\ sale'[s].row = sale[s].row /\ sale'[s].shop = sale[s].shop
  BY <1>1, <1>2 DEF SoldRow, SaleStage
<1>4. \A r \in Sales : sale'[r].row = sale[r].row /\ sale'[r].shop = sale[r].shop
  BY <1>3
<1>5. SyncTypes'
  BY <1>1, <1>3 DEF SyncInv, SyncTypes
<1>6. RunInv'
  BY <1>1 DEF SyncInv, RunInv
<1>7. \A r \in Sales : SaleInv(r)'
  BY <1>1, <1>3 DEF SyncInv, SaleInv, Sent
<1>8. CalmInv'
  BY <1>1, <1>3 DEF SyncInv, CalmInv, Hazard
<1>9. ShopInv'
  BY <1>1, <1>3 DEF SyncInv, ShopInv
<1>10. OnceInv'
  BY <1>1, <1>3 DEF SyncInv, OnceInv, Sent
<1>11. Unsynced("sales")' = Unsynced("sales") /\ Unsynced("items")' = Unsynced("items")
       /\ Unsynced("stock_transactions")' = Unsynced("stock_transactions") /\ FirstPages' = FirstPages
  BY <1>1, <1>4 DEF Unsynced, FirstPages, ItemsOfShop, Page, home
<1>12. SyncingInv' /\ AgreedInv'
  BY <1>1, <1>11 DEF SyncInv, SyncingInv, AgreedInv, Agrees
<1> QED BY <1>5, <1>6, <1>7, <1>8, <1>9, <1>10, <1>12 DEF SyncInv

-----------------------------------------------------------------------------
\* What the phone agrees on does not depend on what a screen shows.
LEMMA AgreementStays ==
  ASSUME SyncingInv, AgreedInv, UNCHANGED <<tenant, item, sale, adjustment, sync, server, agreed, circumstances>>
  PROVE  SyncingInv' /\ AgreedInv'
<1>1. /\ Unsynced("sales")' = Unsynced("sales") /\ Unsynced("items")' = Unsynced("items")
      /\ Unsynced("stock_transactions")' = Unsynced("stock_transactions")
  BY DEF Unsynced
<1>2. FirstPages' = FirstPages
  BY DEF FirstPages, ItemsOfShop, Page, home
<1> QED BY <1>1, <1>2 DEF SyncingInv, AgreedInv, Agrees

LEMMA ShowsKeep ==
  ASSUME SyncInv, ShowItems \/ GoOffline \/ GoOnline
  PROVE  SyncInv'
<1>1. /\ UNCHANGED <<tenant, item, sale, adjustment, category, pendingCount, sync, server, reset, edits, agreed,
                     circumstances>>
      /\ offline' \in BOOLEAN
  BY DEF ShowItems, GoOffline, GoOnline, local, history, SyncInv, SyncTypes
<1>2. shown' \in [Items -> ShownItem] /\ losses' \in 0..MaxLosses
  <2>1. CASE ShowItems
    <3>1. \A i \in Items : item[i].known \in BOOLEAN /\ item[i].stock \in Stocks
      BY Typed, ItemFields DEF SyncInv
    <3>2. NotShown \in ShownItem
      BY SyncFacts DEF NotShown, ShownItem
    <3>3. \A i \in Items : [here |-> TRUE, known |-> item[i].known, stock |-> item[i].stock, live |-> TRUE] \in ShownItem
      BY <3>1 DEF ShownItem
    <3>4. losses' = losses /\ losses \in 0..MaxLosses
      BY <2>1 DEF ShowItems, history, SyncInv, SyncTypes
    <3> QED BY <2>1, <3>2, <3>3, <3>4 DEF ShowItems
  <2>2. CASE GoOffline \/ GoOnline
    BY <2>2, SyncFacts DEF GoOffline, GoOnline, local, history, SyncInv, SyncTypes
  <2> QED BY <2>1, <2>2
<1>3. SyncTypes'
  BY <1>1, <1>2 DEF SyncInv, SyncTypes
<1>4. RunInv' /\ CalmInv' /\ ShopInv' /\ \A s \in Sales : SaleInv(s)'
  BY <1>1 DEF SyncInv, RunInv, CalmInv, ShopInv, SaleInv, Hazard, Sent
<1>5. OnceInv'
  BY <1>1 DEF SyncInv, OnceInv, Sent
<1>6. SyncingInv' /\ AgreedInv'
  BY <1>1, AgreementStays DEF SyncInv
<1> QED BY <1>3, <1>4, <1>5, <1>6 DEF SyncInv

\* A row that is written is here, and the server has it only if that is known.
LEMMA WrittenKeeps ==
  ASSUME SyncInv, NEW i \in Items, NEW row \in ItemRow, WriteRow(i, row), edits' \in Edition, row.here,
         \/ item[i].here /\ row.known = item[i].known
         \/ server.copies[i] = 0
  PROVE  SyncInv'
<1>1. /\ item' = [item EXCEPT ![i] = row] /\ agreed' = "no" /\ RefreshPendingCount
      /\ UNCHANGED <<tenant, sale, adjustment, category, shown, sync, server, offline, reset, losses, circumstances>>
  BY DEF WriteRow, Touch
<1>2. item \in [Items -> ItemRow]
  BY Typed DEF SyncInv
<1>3. item' \in [Items -> ItemRow] /\ item'[i] = row /\ \A j \in Items \ {i} : item'[j] = item[j]
  BY <1>1, <1>2
<1>4. pendingCount' \in Nat /\ \A s \in Sales : sale'[s].row = "unsynced" => pendingCount' > 0
  BY <1>1, Counted
<1>5. SyncTypes'
  BY <1>1, <1>3, <1>4 DEF SyncInv, SyncTypes
<1>6. RunInv' /\ ShopInv' /\ \A s \in Sales : SaleInv(s)'
  BY <1>1, <1>4 DEF SyncInv, RunInv, ShopInv, SaleInv, Sent
<1>7. CalmInv'
  BY <1>1, <1>3 DEF SyncInv, CalmInv, Hazard
<1>8. OnceInv'
  BY <1>1, <1>3 DEF SyncInv, OnceInv, Sent
<1> QED BY <1>1, <1>5, <1>6, <1>7, <1>8 DEF SyncInv, SyncingInv, AgreedInv

LEMMA EditsKeep ==
  ASSUME SyncInv, NEW i \in Items,
         DeleteLocalItem(i) \/ \E n \in Stocks : CreateLocalItem(i, n) \/ UpdateLocalItem(i, n)
  PROVE  SyncInv'
<1>1. item[i] \in ItemRow /\ edits \in Edition
  BY Typed DEF SyncInv
<1>2. ASSUME NEW n \in Stocks, CreateLocalItem(i, n)
      PROVE  SyncInv'
  <2> DEFINE row == [NoItem EXCEPT !.here = TRUE, !.stock = n, !.synced = FALSE]
  <2>1. row \in ItemRow /\ row.here
    BY SyncFacts DEF NoItem, ItemRow
  <2>2. WriteRow(i, row) /\ edits' = edits /\ server.copies[i] = 0
    BY <1>2 DEF CreateLocalItem
  <2> HIDE DEF row
  <2> QED BY <1>1, <2>1, <2>2, WrittenKeeps
<1>3. ASSUME NEW n \in Stocks, UpdateLocalItem(i, n)
      PROVE  SyncInv'
  <2>1. PICK e \in Edition : e = edits + 1
    <3>1. edits < MaxEdits /\ edits \in 0..MaxEdits /\ MaxEdits \in Nat
      BY <1>1, <1>3, SyncFacts DEF UpdateLocalItem, Edition
    <3>2. edits + 1 \in Edition
      BY <3>1 DEF Edition
    <3> QED BY <3>2
  <2> DEFINE row == [item[i] EXCEPT !.stock = n, !.edit = e, !.synced = FALSE]
  <2>2. item[i].here /\ WriteRow(i, row) /\ edits' = e
    BY <1>3, <2>1 DEF UpdateLocalItem
  <2>3. row \in ItemRow /\ row.here = item[i].here /\ row.known = item[i].known
    BY <1>1, <2>1 DEF ItemRow
  <2> HIDE DEF row
  <2> QED BY <2>1, <2>2, <2>3, WrittenKeeps
<1>4. CASE DeleteLocalItem(i)
  <2> DEFINE row == [item[i] EXCEPT !.deleted = TRUE, !.synced = FALSE]
  <2>1. item[i].here /\ WriteRow(i, row) /\ edits' = edits
    BY <1>4 DEF DeleteLocalItem
  <2>2. row \in ItemRow /\ row.here = item[i].here /\ row.known = item[i].known
    BY <1>1 DEF ItemRow
  <2> HIDE DEF row
  <2> QED BY <1>1, <2>1, <2>2, WrittenKeeps
<1> QED BY <1>2, <1>3, <1>4

LEMMA CategoryKeeps ==
  ASSUME SyncInv, CreateLocalCategory
  PROVE  SyncInv'
<1>1. /\ category' = "unsynced" /\ server.categories = 0 /\ agreed' = "no" /\ RefreshPendingCount
      /\ UNCHANGED <<tenant, item, sale, adjustment, shown, sync, server, offline, reset, losses, edits, circumstances>>
  BY DEF CreateLocalCategory, Touch
<1>2. pendingCount' \in Nat /\ \A s \in Sales : sale'[s].row = "unsynced" => pendingCount' > 0
  BY <1>1, Counted
<1>3. SyncTypes'
  BY <1>1, <1>2 DEF SyncInv, SyncTypes, Mark
<1>4. RunInv' /\ CalmInv' /\ ShopInv' /\ \A s \in Sales : SaleInv(s)'
  BY <1>1, <1>2 DEF SyncInv, RunInv, CalmInv, ShopInv, SaleInv, Hazard, Sent
<1>5. OnceInv'
  BY <1>1 DEF SyncInv, OnceInv, Sent
<1> QED BY <1>1, <1>3, <1>4, <1>5 DEF SyncInv, SyncingInv, AgreedInv

LEMMA AdjustKeeps ==
  ASSUME SyncInv, NEW t \in Adjustments, NEW i \in Items, AdjustLocalStock(t, i, ChangeOf(t))
  PROVE  SyncInv'
<1>1. SyncTypes
  BY DEF SyncInv
<1>2. PICK change \in Int : change = ChangeOf(t) /\ change = -1
  BY DEF ChangeOf
<1>3. PICK next \in Stocks : item' = [item EXCEPT ![i].stock = next, ![i].synced = FALSE]
  <2>1. shown[i].stock \in Stocks
    BY <1>1, Typed
  <2> DEFINE next == IF ChangeOf(t) < 0 THEN Less(shown[i].stock, -ChangeOf(t)) ELSE shown[i].stock + ChangeOf(t)
  <2>2. item' = [item EXCEPT ![i].stock = next, ![i].synced = FALSE]
    BY DEF AdjustLocalStock
  <2>3. next = Less(shown[i].stock, 1)
    BY DEF ChangeOf
  <2>4. Less(shown[i].stock, 1) \in Stocks
    BY <2>1, SyncFacts DEF Less, Stocks
  <2> HIDE DEF next
  <2> QED BY <2>2, <2>3, <2>4
<1>4. /\ item' \in [Items -> ItemRow]
      /\ \A j \in Items : item'[j].here = item[j].here /\ item'[j].known = item[j].known
  BY <1>1, <1>3, Typed DEF ItemRow
<1>5. /\ adjustment[t].st = "new" /\ Calm /\ agreed' = "no" /\ RefreshPendingCount
      /\ UNCHANGED <<tenant, sale, category, shown, sync, offline, reset, edits, circumstances>>
  BY DEF AdjustLocalStock, Touch
<1>6. PICK st \in {"ok", "error"}, after \in Stocks :
        /\ adjustment' = [adjustment EXCEPT ![t] =
             [st |-> st, row |-> "unsynced", item |-> i, after |-> after, live |-> TRUE]]
        /\ server' \in ServerRecord /\ losses' \in 0..MaxLosses
        /\ server'.booked = server.booked /\ server'.copies = server.copies /\ server'.categories = server.categories
        /\ \A u \in Adjustments \ {t} : server'.adjusted[u] = server.adjusted[u]
        /\ \/ server'.adjusted[t] = server.adjusted[t]
           \/ server.adjusted[t] = 0 /\ server'.adjusted[t] = 1 /\ (st = "ok" \/ Hazard("network"))
           \/ server.adjusted[t] # 0
  <2>1. CASE shown[i].known
    <3>1. PICK outcome \in Outcomes(Adjustable(i, change)) :
            /\ server' = IF Done(outcome) THEN Adjust(t, i, change) ELSE server
            /\ adjustment' = [adjustment EXCEPT ![t] =
                 [st |-> IF outcome = "ok" THEN "ok" ELSE "error", row |-> "unsynced",
                  item |-> i, after |-> server'.stock[i], live |-> TRUE]]
            /\ CountLoss(outcome)
      BY <1>2, <2>1 DEF AdjustLocalStock
    <3>2. /\ outcome \in {"ok", "refused", "unsent", "lost"} /\ losses' \in 0..MaxLosses
          /\ Done(outcome) => Adjustable(i, change)
          /\ outcome = "lost" => Hazard("network")
      <4>1. Adjustable(i, change) \in BOOLEAN
        BY DEF Adjustable
      <4> QED BY <1>1, <3>1, <4>1, Typed, OutcomeFacts
    <3>3. CASE Done(outcome)
      <4>1. server \in ServerRecord /\ Adjustable(i, change) /\ server' = Adjust(t, i, change) /\ i \in Items \cup {NoRow}
        BY <1>1, <3>1, <3>2, <3>3, Typed
      <4>2. /\ server' \in ServerRecord /\ (server.adjusted[t] = 0 => server'.adjusted[t] = 1)
            /\ \A u \in Adjustments \ {t} : server'.adjusted[u] = server.adjusted[u]
            /\ server'.booked = server.booked /\ server'.copies = server.copies /\ server'.categories = server.categories
        BY <4>1, AdjustEffect
      <4>3. server'.stock[i] \in Stocks
        BY <4>2, ServerFields
      <4>4. outcome = "ok" \/ Hazard("network")
        BY <3>2, <3>3 DEF Done
      <4> QED BY <3>1, <3>2, <4>2, <4>3, <4>4
    <3>4. CASE ~Done(outcome)
      <4>1. server' = server /\ server \in ServerRecord
        BY <1>1, <3>1, <3>4, Typed
      <4>2. server'.stock[i] \in Stocks
        BY <4>1, ServerFields
      <4> QED BY <3>1, <3>2, <4>1, <4>2
    <3> QED BY <3>3, <3>4
  <2>2. CASE ~shown[i].known
    <3>1. server' = server /\ losses' = losses /\ server \in ServerRecord /\ losses \in 0..MaxLosses
      BY <1>1, <2>2, Typed DEF AdjustLocalStock
    <3>2. adjustment' = [adjustment EXCEPT ![t] =
            [st |-> "error", row |-> "unsynced", item |-> i, after |-> 0, live |-> TRUE]]
      BY <2>2 DEF AdjustLocalStock
    <3> QED BY <3>1, <3>2, SyncFacts
  <2> QED BY <2>1, <2>2
<1> DEFINE new == [st |-> st, row |-> "unsynced", item |-> i, after |-> after, live |-> TRUE]
<1>7. new \in AdjustmentRow /\ new.st = st /\ new.row = "unsynced" /\ new.live
  BY <1>6 DEF AdjustmentRow, AdjustmentStage, Mark
<1>8. adjustment' = [adjustment EXCEPT ![t] = new]
  BY <1>6
<1> HIDE DEF new
<1>9. /\ adjustment' \in [Adjustments -> AdjustmentRow] /\ adjustment'[t] = new
      /\ \A u \in Adjustments \ {t} : adjustment'[u] = adjustment[u]
  BY <1>1, <1>7, <1>8, Typed
<1>10. pendingCount' \in Nat /\ \A s \in Sales : sale'[s].row = "unsynced" => pendingCount' > 0
  BY <1>5, Counted
<1>11. SyncTypes'
  BY <1>1, <1>4, <1>5, <1>6, <1>9, <1>10 DEF SyncTypes
<1>12. RunInv' /\ ShopInv' /\ \A s \in Sales : SaleInv(s)'
  BY <1>5, <1>6, <1>10 DEF SyncInv, RunInv, ShopInv, SaleInv, Sent
<1>13. CalmInv'
  BY <1>4, <1>5, <1>9 DEF SyncInv, CalmInv, Hazard, Calm
<1>14. OnceInv'
  <2>1. ASSUME circumstances.hazards \cap {"network", "overlap", "add_business"} = {}
        PROVE  sync.todo = {} /\ ~Hazard("network") /\ OnceInv
    BY <1>5, <2>1 DEF Calm, Hazard, SyncInv, RunInv
  <2> SUFFICES ASSUME circumstances.hazards \cap {"network", "overlap", "add_business"} = {}
               PROVE  OnceInv'
    BY <1>5 DEF OnceInv
  <2>2. server.adjusted[t] = 0 /\ OnceInv /\ sync.todo = {}
    BY <1>5, <2>1 DEF OnceInv
  <2>3. server'.adjusted[t] = 0 \/ (server'.adjusted[t] = 1 /\ st = "ok")
    BY <1>6, <2>1, <2>2
  <2> QED BY <1>4, <1>5, <1>6, <1>7, <1>9, <2>2, <2>3 DEF OnceInv, Sent
<1> QED BY <1>5, <1>11, <1>12, <1>13, <1>14 DEF SyncInv, SyncingInv, AgreedInv

LEMMA AdjustedKeeps ==
  ASSUME SyncInv, NEW t \in Adjustments, LocalStockAdjusted(t)
  PROVE  SyncInv'
<1>1. SyncTypes
  BY DEF SyncInv
<1> DEFINE done == adjustment[t].st = "ok" /\ adjustment[t].live
           i == adjustment[t].item
<1>2. /\ adjustment' = [adjustment EXCEPT ![t].st = "done", ![t].after = 0,
                                          ![t].row = IF done THEN "synced" ELSE @]
      /\ item' = IF done THEN [item EXCEPT ![i].stock = adjustment[t].after, ![i].synced = TRUE] ELSE item
  BY DEF LocalStockAdjusted
<1>3. adjustment[t] \in AdjustmentRow /\ adjustment[t].after \in Stocks /\ adjustment[t].row \in Mark
  BY <1>1, Typed, AdjustmentFields
<1>4. PICK st \in AdjustmentStage, none \in Stocks, row \in Mark :
        st = "done" /\ none = 0 /\ row = IF done THEN "synced" ELSE adjustment[t].row
  BY <1>3, SyncFacts DEF AdjustmentStage, Mark
<1> DEFINE new == [adjustment[t] EXCEPT !.st = st, !.after = none, !.row = row]
<1>5. adjustment' = [adjustment EXCEPT ![t] = new]
  BY <1>2, <1>4
<1>6. new \in AdjustmentRow /\ new.st = "done" /\ new.row = row /\ new.live = adjustment[t].live
  BY <1>3, <1>4 DEF AdjustmentRow
<1> HIDE DEF new
<1>7. /\ adjustment' \in [Adjustments -> AdjustmentRow] /\ adjustment'[t] = new
      /\ \A u \in Adjustments \ {t} : adjustment'[u] = adjustment[u]
  BY <1>1, <1>5, <1>6, Typed
<1>8. /\ item' \in [Items -> ItemRow]
      /\ \A j \in Items : item'[j].here = item[j].here /\ item'[j].known = item[j].known
  <2>1. PICK after \in Stocks : after = adjustment[t].after
    BY <1>3
  <2>2. item' = item \/ item' = [item EXCEPT ![i].stock = after, ![i].synced = TRUE]
    BY <1>2, <2>1
  <2>3. item \in [Items -> ItemRow]
    BY <1>1, Typed
  <2> QED BY <2>2, <2>3 DEF ItemRow
<1>9. /\ agreed' = "no" /\ RefreshPendingCount
      /\ UNCHANGED <<tenant, sale, category, shown, sync, server, offline, reset, losses, edits, circumstances>>
  BY DEF LocalStockAdjusted, Touch
<1>10. pendingCount' \in Nat /\ \A s \in Sales : sale'[s].row = "unsynced" => pendingCount' > 0
  BY <1>9, Counted
<1>11. SyncTypes'
  BY <1>1, <1>7, <1>8, <1>9, <1>10 DEF SyncTypes
<1>12. RunInv' /\ ShopInv' /\ \A s \in Sales : SaleInv(s)'
  BY <1>9, <1>10 DEF SyncInv, RunInv, ShopInv, SaleInv, Sent
<1>13. CalmInv'
  BY <1>6, <1>7, <1>8, <1>9 DEF SyncInv, CalmInv, Hazard
<1>14. OnceInv'
  <2> SUFFICES ASSUME circumstances.hazards \cap {"network", "overlap", "add_business"} = {}, OnceInv
               PROVE  OnceInv'
    BY <1>9 DEF SyncInv, OnceInv
  <2>1. /\ adjustment'[t].row = "unsynced" => adjustment[t].row = "unsynced" /\ ~done
        /\ adjustment'[t].row # "none" => adjustment[t].row # "none" \/ adjustment[t].live
        /\ adjustment'[t].live = adjustment[t].live /\ adjustment'[t].st = "done"
    BY <1>4, <1>6, <1>7
  <2>2. /\ server.adjusted[t] \in {0, 1}
        /\ adjustment[t].row # "none" => adjustment[t].live
        /\ adjustment[t].row = "unsynced" => server.adjusted[t] = 0 \/ adjustment[t].st = "ok" \/ Sent(t)
    BY DEF OnceInv
  <2>3. /\ adjustment'[t].row # "none" => adjustment'[t].live
        /\ adjustment'[t].row = "unsynced" => server.adjusted[t] = 0 \/ Sent(t)
        /\ adjustment'[t].st # "new"
    BY <2>1, <2>2
  <2> QED BY <1>7, <1>8, <1>9, <2>3 DEF OnceInv, Sent
<1> QED BY <1>9, <1>11, <1>12, <1>13, <1>14 DEF SyncInv, SyncingInv, AgreedInv

-----------------------------------------------------------------------------
\* The token changes only while nothing of the phone is asked or pushed.
LEMMA EnterKeeps ==
  ASSUME SyncInv, NEW b \in Shops, EnterShop(b) \/ AddBusinessShop(b)
  PROVE  SyncInv'
<1>1. /\ tenant' = b /\ agreed' = "no" /\ reset' \in BOOLEAN
      /\ shown' = [i \in Items |-> NotShown]
      /\ UNCHANGED <<item, sale, adjustment, category, pendingCount, sync, server, offline, losses, edits,
                     circumstances>>
  BY DEF EnterShop, AddBusinessShop, Touch, SyncInv, SyncTypes
<1>2. shown' \in [Items -> ShownItem]
  <2>1. NotShown \in ShownItem
    BY SyncFacts DEF NotShown, ShownItem
  <2> QED BY <1>1, <2>1
<1>3. SyncTypes'
  BY <1>1, <1>2 DEF SyncInv, SyncTypes
<1>4. RunInv' /\ \A s \in Sales : SaleInv(s)'
  BY <1>1 DEF SyncInv, RunInv, SaleInv, Sent
<1>5. CalmInv'
  <2>1. CASE EnterShop(b)
    <3>1. ~Hazard("overlap") => sync.step = 0 /\ \A s \in Sales : sale[s].st \in {"new", "told", "denied"}
      BY <2>1 DEF EnterShop
    <3>2. ~Hazard("leave_unsynced") => \A s \in Sales : sale[s].row # "unsynced"
      BY <2>1 DEF EnterShop, SyncInv, SaleInv
    <3> QED BY <1>1, <3>1, <3>2 DEF SyncInv, CalmInv, Hazard
  <2>2. CASE AddBusinessShop(b)
    BY <1>1, <2>2 DEF AddBusinessShop, SyncInv, CalmInv, Hazard
  <2> QED BY <2>1, <2>2
<1>6. ShopInv'
  <2>1. CASE EnterShop(b)
    <3>1. circumstances.hazards \cap {"overlap", "add_business"} = {} =>
            sync.step = 0 /\ sync.todo = {} /\ reset' /\ \A s \in Sales : sale[s].st \in {"new", "told", "denied"}
      BY <2>1 DEF EnterShop, Hazard, SyncInv, RunInv
    <3> QED BY <1>1, <3>1 DEF SyncInv, ShopInv
  <2>2. CASE AddBusinessShop(b)
    BY <1>1, <2>2 DEF AddBusinessShop, ShopInv, Hazard
  <2> QED BY <2>1, <2>2
<1>7. OnceInv'
  BY <1>1 DEF SyncInv, OnceInv, Sent
<1> QED BY <1>1, <1>3, <1>4, <1>5, <1>6, <1>7 DEF SyncInv, SyncingInv, AgreedInv

\* A wipe leaves nothing to push.
LEMMA ResetKeeps ==
  ASSUME SyncInv, ResetScopedLocalData
  PROVE  SyncInv'
<1>1. /\ reset /\ reset' = FALSE /\ category' = "none" /\ pendingCount' = 0 /\ agreed' = "no"
      /\ item' = [i \in Items |-> NoItem]
      /\ sale' = [s \in Sales |-> [sale[s] EXCEPT !.row = "none", !.live = FALSE]]
      /\ adjustment' = [t \in Adjustments |-> [adjustment[t] EXCEPT !.row = "none", !.live = FALSE]]
      /\ shown' = [i \in Items |-> [shown[i] EXCEPT !.live = FALSE]]
      /\ UNCHANGED <<tenant, sync, server, offline, losses, edits, circumstances>>
  BY DEF ResetScopedLocalData, Touch
<1>2. /\ \A s \in Sales : sale[s] \in SoldRow
      /\ \A t \in Adjustments : adjustment[t] \in AdjustmentRow
      /\ \A i \in Items : shown[i] \in ShownItem
  BY DEF SyncInv, SyncTypes
<1>3. NoItem \in ItemRow /\ ~NoItem.here
  BY SyncFacts DEF NoItem, ItemRow
<1>4. item' \in [Items -> ItemRow] /\ \A i \in Items : ~item'[i].here
  BY <1>1, <1>3
<1>5. \A s \in Sales : /\ [sale[s] EXCEPT !.row = "none", !.live = FALSE] \in SoldRow
                       /\ [sale[s] EXCEPT !.row = "none", !.live = FALSE].st = sale[s].st
                       /\ [sale[s] EXCEPT !.row = "none", !.live = FALSE].shop = sale[s].shop
                       /\ [sale[s] EXCEPT !.row = "none", !.live = FALSE].row = "none"
  BY <1>2 DEF SoldRow, Mark
<1>6. /\ sale' \in [Sales -> SoldRow]
      /\ \A s \in Sales : sale'[s].st = sale[s].st /\ sale'[s].shop = sale[s].shop /\ sale'[s].row = "none"
  BY <1>1, <1>5
<1>7. \A t \in Adjustments : /\ [adjustment[t] EXCEPT !.row = "none", !.live = FALSE] \in AdjustmentRow
                             /\ [adjustment[t] EXCEPT !.row = "none", !.live = FALSE].st = adjustment[t].st
                             /\ [adjustment[t] EXCEPT !.row = "none", !.live = FALSE].row = "none"
  BY <1>2 DEF AdjustmentRow, Mark
<1>8. /\ adjustment' \in [Adjustments -> AdjustmentRow]
      /\ \A t \in Adjustments : adjustment'[t].st = adjustment[t].st /\ adjustment'[t].row = "none"
  BY <1>1, <1>7
<1>9. shown' \in [Items -> ShownItem]
  BY <1>1, <1>2 DEF ShownItem
<1>10. SyncTypes'
  BY <1>1, <1>4, <1>6, <1>8, <1>9 DEF SyncInv, SyncTypes, Mark
<1>11. RunInv'
  BY <1>1 DEF SyncInv, RunInv
<1>12. ~Hazard("overlap") => /\ sync.step = 0 /\ sync.todo = {}
                             /\ \A s \in Sales : sale[s].st \in {"new", "told", "denied"}
                             /\ ~Hazard("leave_unsynced") => \A s \in Sales : sale[s].row # "unsynced"
  BY <1>1 DEF SyncInv, CalmInv, RunInv
<1>13. \A hs : circumstances.hazards \cap hs = {} =>
          /\ "overlap" \in hs => ~Hazard("overlap")
          /\ "leave_unsynced" \in hs => ~Hazard("leave_unsynced")
  BY DEF Hazard
<1>14. \A s \in Sales : SaleInv(s)'
  <2> SUFFICES ASSUME NEW s \in Sales
               PROVE  SaleInv(s)'
    OBVIOUS
  <2>1. SaleInv(s)
    BY DEF SyncInv
  <2>2. circumstances.hazards \cap {"leave_unsynced", "overlap"} = {} => sale[s].row # "unsynced"
    BY <1>12, <1>13
  <2> QED BY <1>1, <1>6, <2>1, <2>2 DEF SaleInv, Sent
<1>15. CalmInv'
  <2> SUFFICES ASSUME ~Hazard("overlap")'
               PROVE  CalmInv'
    BY DEF CalmInv
  <2>1. sync'.step = 0 /\ sync'.todo = {} /\ reset' = FALSE
    BY <1>1, <1>12 DEF Hazard
  <2> QED BY <2>1 DEF CalmInv
<1>16. ShopInv'
  <2> SUFFICES ASSUME circumstances.hazards \cap {"overlap", "add_business"} = {}
               PROVE  ShopInv'
    BY <1>1 DEF ShopInv
  <2>1. sync.todo = {} /\ \A s \in Sales : sale[s].st \in {"new", "told", "denied"}
    BY <1>12, <1>13
  <2>2. \A s \in Sales : \A b \in server.booked[s] : b[2] = sale[s].shop
    BY DEF SyncInv, ShopInv
  <2> QED BY <1>1, <1>6, <2>1, <2>2 DEF ShopInv
<1>17. OnceInv'
  <2> SUFFICES ASSUME circumstances.hazards \cap {"network", "overlap", "add_business"} = {}
               PROVE  OnceInv'
    BY <1>1 DEF OnceInv
  <2>1. sync.todo = {} /\ OnceInv
    BY <1>12, <1>13 DEF SyncInv
  <2>2. \A s \in Sales : (\E b \in server.booked[s] : b[1] = "online") => sale[s].st \in {"accepted", "told"} /\ s # sync.row
    BY <2>1 DEF OnceInv
  <2>3. \A t \in Adjustments : server.adjusted[t] \in {0, 1} /\ (adjustment[t].st = "new" => server.adjusted[t] = 0)
    BY <2>1 DEF OnceInv
  <2>4. (\A i \in Items : server.copies[i] \in {0, 1}) /\ server.categories \in {0, 1}
    BY <2>1 DEF OnceInv
  <2>5. sync' = sync /\ server' = server /\ category' = "none" /\ sync'.todo = {} /\ circumstances' = circumstances
    BY <1>1, <2>1
  <2>8. \A s \in Sales : \A b, c \in server.booked[s] : b[1] = c[1]
    BY <2>1 DEF OnceInv
  <2> QED BY <1>4, <1>6, <1>8, <2>2, <2>3, <2>4, <2>5, <2>8 DEF OnceInv
<1> QED BY <1>1, <1>10, <1>11, <1>14, <1>15, <1>16, <1>17 DEF SyncInv, SyncingInv, AgreedInv

\* Others change what an item is, and neither sales nor how often a thing was done.
LEMMA ServerChangeKeeps ==
  ASSUME SyncInv, NEW i \in Items, ServerChange(i)
  PROVE  SyncInv'
<1>1. /\ agreed' = "no"
      /\ UNCHANGED <<tenant, item, sale, adjustment, category, shown, pendingCount, sync, offline, reset, losses,
                     circumstances>>
  BY DEF ServerChange, Touch, local
<1>2. server \in ServerRecord /\ edits \in Edition
  BY DEF SyncInv, SyncTypes
<1>3. server.stock \in [Items -> Stocks] /\ server.edit \in [Items -> Edition]
  BY <1>2, ServerFields
<1>4. /\ server' \in ServerRecord /\ edits' \in Edition
      /\ server'.copies = server.copies /\ server'.booked = server.booked
      /\ server'.adjusted = server.adjusted /\ server'.categories = server.categories
  <2>1. CASE server.stock[i] > 0 /\ server' = [server EXCEPT !.stock[i] = @ - 1] /\ edits' = edits
    <3>1. PICK stock \in [Items -> Stocks] : stock = [server.stock EXCEPT ![i] = @ - 1]
      <4>1. server.stock[i] - 1 \in Stocks
        BY <1>3, <2>1, SyncFacts DEF Stocks
      <4> QED BY <1>3, <4>1
    <3>2. server' = [server EXCEPT !.stock = stock]
      BY <2>1, <3>1
    <3> QED BY <1>2, <2>1, <3>2 DEF ServerRecord
  <2>2. CASE edits < MaxEdits /\ edits' = edits + 1 /\ server' = [server EXCEPT !.edit[i] = edits + 1]
    <3>1. edits + 1 \in Edition
      BY <1>2, <2>2, SyncFacts DEF Edition
    <3>2. PICK edit \in [Items -> Edition] : edit = [server.edit EXCEPT ![i] = edits + 1]
      BY <1>3, <3>1
    <3>3. server' = [server EXCEPT !.edit = edit]
      BY <2>2, <3>2
    <3> QED BY <1>2, <2>2, <3>1, <3>3 DEF ServerRecord
  <2> QED BY <2>1, <2>2 DEF ServerChange
<1>5. SyncTypes'
  BY <1>1, <1>4 DEF SyncInv, SyncTypes
<1>6. RunInv' /\ \A s \in Sales : SaleInv(s)'
  BY <1>1, <1>4 DEF SyncInv, RunInv, SaleInv, Sent
<1>7. CalmInv' /\ ShopInv'
  BY <1>1, <1>4 DEF SyncInv, CalmInv, ShopInv, Hazard
<1>8. OnceInv'
  BY <1>1, <1>4 DEF SyncInv, OnceInv, Sent
<1> QED BY <1>1, <1>5, <1>6, <1>7, <1>8 DEF SyncInv, SyncingInv, AgreedInv

-----------------------------------------------------------------------------
LEMMA NoRun ==
  /\ NoPage \in [Items -> PageRow] /\ NoSync \in SyncRun
  /\ NoSync.step = 0 /\ NoSync.todo = {} /\ NoSync.row = NoRow /\ NoSync.answer = "none"
  /\ NoSync.failed = FALSE /\ NoSync.page = NoPage /\ \A i \in Items : NoPage[i].there = FALSE
<1>1. NoPage \in [Items -> PageRow] /\ \A i \in Items : NoPage[i].there = FALSE
  BY SyncFacts DEF NoPage, PageRow
<1> QED BY <1>1 DEF NoSync, SyncRun, Answer

\* The rows of the next table are those that are unsynced now.
LEMMA NextFields ==
  ASSUME sync.step \in 1..6, NEW failed \in BOOLEAN, NextTable(failed)
  PROVE  /\ sync' \in SyncRun
         /\ sync'.step = sync.step + 1 /\ sync'.row = NoRow /\ sync'.answer = "none" /\ sync'.failed = failed
         /\ sync'.page = NoPage
         /\ sync'.step = 2 => sync'.todo = Unsynced("items")
         /\ sync'.step = 3 => sync'.todo = Unsynced("sales")
         /\ sync'.step = 4 => sync'.todo = Unsynced("stock_transactions")
         /\ sync'.step > 4 => sync'.todo = {}
<1> DEFINE todo == IF sync.step + 1 <= Len(Tables) THEN Unsynced(Tables[sync.step + 1]) ELSE {}
<1>1. /\ sync.step + 1 = 2 => todo = Unsynced("items")
      /\ sync.step + 1 = 3 => todo = Unsynced("sales")
      /\ sync.step + 1 = 4 => todo = Unsynced("stock_transactions")
      /\ sync.step + 1 > 4 => todo = {}
  <2>1. PICK n \in 2..7 : n = sync.step + 1
    OBVIOUS
  <2>2. (n <= 6 => todo = Unsynced(Tables[n])) /\ (n = 7 => todo = {})
    <3>1. Len(Tables) = 6
      BY TableRows
    <3> QED BY <2>1, <3>1
  <2> HIDE DEF todo
  <2>3. /\ n = 2 => todo = Unsynced(Tables[2])
        /\ n = 3 => todo = Unsynced(Tables[3])
        /\ n = 4 => todo = Unsynced(Tables[4])
        /\ n = 5 => todo = Unsynced(Tables[5])
        /\ n = 6 => todo = Unsynced(Tables[6])
    BY <2>2
  <2>4. /\ n = 2 => todo = Unsynced("items")
        /\ n = 3 => todo = Unsynced("sales")
        /\ n = 4 => todo = Unsynced("stock_transactions")
        /\ n = 5 \/ n = 6 => todo = {}
    BY <2>3, TableRows, Zenon
  <2> QED BY <2>1, <2>2, <2>4
<1>2. todo \subseteq Rows
  <2>1. /\ Unsynced("items") \subseteq Items /\ Unsynced("sales") \subseteq Sales
        /\ Unsynced("stock_transactions") \subseteq Adjustments
    BY UnsyncedRows
  <2>2. sync.step + 1 = 2 \/ sync.step + 1 = 3 \/ sync.step + 1 = 4 \/ sync.step + 1 > 4
    OBVIOUS
  <2> QED BY <1>1, <2>1, <2>2, SyncFacts
<1>3. sync' = [NoSync EXCEPT !.step = sync.step + 1, !.failed = failed, !.todo = todo]
  BY DEF NextTable
<1> HIDE DEF todo
<1>4. PICK step \in 0..7 : step = sync.step + 1
  OBVIOUS
<1>5. NoSync \in SyncRun /\ NoSync.row = NoRow /\ NoSync.answer = "none" /\ NoSync.page = NoPage
  BY NoRun
<1>6. sync' = [NoSync EXCEPT !.step = step, !.failed = failed, !.todo = todo]
  BY <1>3, <1>4
<1>7. /\ sync' \in SyncRun /\ sync'.step = step /\ sync'.row = NoRow /\ sync'.answer = "none"
      /\ sync'.failed = failed /\ sync'.page = NoPage /\ sync'.todo = todo
  BY <1>2, <1>5, <1>6 DEF SyncRun
<1> QED BY <1>1, <1>4, <1>7

\* Going on to the next table loses nothing: what is unsynced is taken up, and no
\* answer waits to be handled. Rows may be here that were not.
LEMMA NextKeeps ==
  ASSUME SyncInv, sync.step \in 1..6, NEW failed \in BOOLEAN, NextTable(failed),
         sync.row = NoRow \/ sync.answer = "error" \/ ~Stands(sync.row),
         item' \in [Items -> ItemRow],
         \A i \in Items : /\ item[i].here => item'[i].here
                          /\ item'[i].here /\ ~item'[i].known => item[i].here /\ ~item[i].known,
         UNCHANGED <<tenant, sale, adjustment, category, shown, pendingCount, server, offline, reset, history>>
  PROVE  /\ SyncTypes' /\ RunInv' /\ CalmInv' /\ ShopInv' /\ OnceInv'
         /\ \A s \in Sales : SaleInv(s)'
<1>1. /\ sync' \in SyncRun
      /\ sync'.step = sync.step + 1 /\ sync'.row = NoRow /\ sync'.answer = "none" /\ sync'.page = NoPage
      /\ sync'.step = 2 => sync'.todo = Unsynced("items")
      /\ sync'.step = 3 => sync'.todo = Unsynced("sales")
      /\ sync'.step = 4 => sync'.todo = Unsynced("stock_transactions")
      /\ sync'.step > 4 => sync'.todo = {}
  BY NextFields
<1>2. /\ \A i \in Items : i \in sync'.todo => item[i].here
      /\ \A s \in Sales : s \in sync'.todo => sale[s].row = "unsynced"
      /\ \A t \in Adjustments : t \in sync'.todo => adjustment[t].row = "unsynced"
      /\ Category \notin sync'.todo
  <2>1. sync'.step = 2 \/ sync'.step = 3 \/ sync'.step = 4 \/ sync'.step > 4
    BY <1>1
  <2> QED BY <1>1, <2>1, UnsyncedRows, SyncFacts
<1>3. /\ \A i \in Items : Sent(i) => ~item[i].here
      /\ \A t \in Adjustments : Sent(t) => adjustment[t].row = "none"
      /\ Sent(Category) => category = "none"
  BY SyncFacts DEF Sent, Stands
<1>4. SyncTypes'
  BY <1>1 DEF SyncInv, SyncTypes, history
<1>5. RunInv'
  BY <1>1 DEF RunInv
<1>6. CalmInv'
  BY <1>1, <1>2 DEF SyncInv, CalmInv, Hazard, history
<1>7. ShopInv'
  <2> SUFFICES ASSUME circumstances.hazards \cap {"overlap", "add_business"} = {}
               PROVE  ShopInv'
    BY DEF ShopInv, history
  <2>1. ~reset
    BY DEF SyncInv, CalmInv, Hazard
  <2> QED BY <1>2, <2>1 DEF SyncInv, ShopInv
<1>8. \A s \in Sales : SaleInv(s)'
  <2> SUFFICES ASSUME NEW s \in Sales
               PROVE  SaleInv(s)'
    OBVIOUS
  <2>1. SaleInv(s) /\ s # NoRow
    BY SyncFacts DEF SyncInv
  <2> QED BY <1>1, <1>2, <2>1 DEF SaleInv, Sent, history
<1>9. OnceInv'
  <2> SUFFICES ASSUME circumstances.hazards \cap {"network", "overlap", "add_business"} = {}
               PROVE  OnceInv'
    BY DEF OnceInv, history
  <2>1. OnceInv /\ \A t \in Adjustments : adjustment[t].st \in {"new", "done"}
    BY DEF SyncInv, CalmInv, Hazard
  <2>2. \A t \in Adjustments : adjustment[t].row = "unsynced" => server.adjusted[t] = 0
    BY <1>3, <2>1 DEF OnceInv
  <2>3. \A i \in Items : item[i].here /\ ~item[i].known => server.copies[i] = 0
    BY <1>3, <2>1 DEF OnceInv
  <2>4. category = "unsynced" => server.categories = 0
    BY <1>3, <2>1 DEF OnceInv
  <2>5. \A s \in Sales : (\E b \in server.booked[s] : b[1] = "online") =>
          sale[s].st \in {"accepted", "told"} /\ sale[s].row = "none" /\ s \notin sync'.todo /\ s # sync'.row
    BY <1>1, <1>2, <2>1, SyncFacts DEF OnceInv
  <2>6. \A t \in Adjustments : /\ server.adjusted[t] \in {0, 1}
                               /\ adjustment[t].st = "new" => server.adjusted[t] = 0 /\ adjustment[t].row = "none"
                                                              /\ t \notin sync'.todo
                               /\ adjustment[t].row # "none" => adjustment[t].live
                               /\ t \in sync'.todo => server.adjusted[t] = 0
    BY <1>2, <2>1, <2>2 DEF OnceInv
  <2>7. /\ \A i \in Items : server.copies[i] \in {0, 1} /\ (item'[i].here /\ ~item'[i].known => server.copies[i] = 0)
        /\ server.categories \in {0, 1}
    BY <2>1, <2>3 DEF OnceInv
  <2>8. \A s \in Sales : \A b, c \in server.booked[s] : b[1] = c[1]
    BY <2>1 DEF OnceInv
  <2> QED BY <1>2, <2>2, <2>4, <2>5, <2>6, <2>7, <2>8 DEF OnceInv
<1> QED BY <1>4, <1>5, <1>6, <1>7, <1>8, <1>9

\* A table that is ended by an error promises nothing.
LEMMA FailedKeeps ==
  ASSUME SyncInv, TableDone \/ PushFailed \/ RowWiped \/ PullFailed \/ \E t \in Adjustments : StockTransactionTooEarly(t)
  PROVE  SyncInv'
<1>1. PICK failed \in BOOLEAN : /\ NextTable(failed) /\ sync.step \in 1..6
                                /\ failed \/ (sync.step \in 1..4 /\ sync.todo = {} /\ failed = sync.failed)
                                /\ sync.row = NoRow \/ sync.answer = "error" \/ ~Stands(sync.row)
                                /\ UNCHANGED <<tenant, local, server, offline, reset, history>>
  <2>1. CASE TableDone
    <3>1. sync.failed \in BOOLEAN
      BY RunFields DEF SyncInv, SyncTypes
    <3> QED BY <2>1, <3>1 DEF TableDone
  <2>2. CASE PushFailed \/ RowWiped \/ PullFailed
    <3>1. NextTable(TRUE)
      BY <2>2 DEF PushFailed, RowWiped, PullFailed
    <3>2. PICK failed \in BOOLEAN : failed /\ NextTable(failed)
      BY <3>1, Zenon
    <3>3. /\ sync.step \in 1..4 \/ sync.step \in 5..6
          /\ sync.answer = "error" \/ ~Stands(sync.row)
          /\ UNCHANGED <<tenant, local, server, offline, reset, history>>
      BY <2>2, Zenon DEF PushFailed, RowWiped, PullFailed
    <3>4. sync.step \in 1..6 /\ (sync.row = NoRow \/ sync.answer = "error" \/ ~Stands(sync.row))
      BY <3>3
    <3> QED BY <3>2, <3>3, <3>4, Zenon
  <2>3. CASE \E t \in Adjustments : StockTransactionTooEarly(t)
    <3>1. NextTable(TRUE)
      BY <2>3, Zenon DEF StockTransactionTooEarly
    <3>2. PICK failed \in BOOLEAN : failed /\ NextTable(failed)
      BY <3>1, Zenon
    <3>3. sync.step \in 0..7
      BY RunFields DEF SyncInv, SyncTypes
    <3>4. /\ sync.row = NoRow /\ sync.step \in 1..6
          /\ UNCHANGED <<tenant, local, server, offline, reset, history>>
      BY <2>3, <3>3 DEF StockTransactionTooEarly, Pushing
    <3> QED BY <3>2, <3>4
  <2> QED BY <2>1, <2>2, <2>3
<1>2. UNCHANGED <<tenant, item, sale, adjustment, category, shown, pendingCount, server, offline, reset, history>>
  BY <1>1 DEF local
<1>3. item' \in [Items -> ItemRow]
  BY <1>2 DEF SyncInv, SyncTypes
<1>4. /\ SyncTypes' /\ RunInv' /\ CalmInv' /\ ShopInv' /\ OnceInv'
      /\ \A s \in Sales : SaleInv(s)'
  BY <1>1, <1>2, <1>3, NextKeeps
<1>5. /\ sync'.step = sync.step + 1 /\ sync'.row = NoRow /\ sync'.answer = "none" /\ sync'.failed = failed
      /\ sync'.step = 2 => sync'.todo = Unsynced("items")
      /\ sync'.step = 3 => sync'.todo = Unsynced("sales")
      /\ sync'.step = 4 => sync'.todo = Unsynced("stock_transactions")
      /\ sync'.step > 4 => sync'.todo = {}
  BY <1>1, NextFields
<1>6. /\ Unsynced("sales")' = Unsynced("sales") /\ Unsynced("items")' = Unsynced("items")
      /\ Unsynced("stock_transactions")' = Unsynced("stock_transactions") /\ FirstPages' = FirstPages
  BY <1>2 DEF Unsynced, FirstPages, ItemsOfShop, Page, home, history
<1>7. SyncingInv'
  <2> SUFFICES ASSUME agreed = "syncing"
               PROVE  SyncingInv'
    BY <1>2 DEF SyncingInv, history
  <2>1. CASE failed
    BY <1>1, <1>5, <2>1 DEF SyncingInv
  <2>2. CASE ~failed
    <3>1. sync.step \in 1..4 /\ sync.todo = {} /\ ~sync.failed /\ SyncingInv
      BY <1>1, <2>2 DEF SyncInv
    <3>2. sync.step > 1 => Unsynced("items") = {}
      BY <3>1 DEF SyncingInv
    <3>3. sync.step > 2 => Unsynced("sales") = {}
      BY <3>1 DEF SyncingInv
    <3>4. sync.step > 3 => Unsynced("stock_transactions") = {}
      BY <3>1 DEF SyncingInv
    <3> QED BY <1>5, <1>6, <3>1, <3>2, <3>3, <3>4 DEF SyncingInv
  <2> QED BY <2>1, <2>2
<1>8. AgreedInv'
  <2> SUFFICES ASSUME agreed = "yes"
               PROVE  AgreedInv'
    BY <1>2 DEF AgreedInv, history
  <2>1. AgreedInv
    BY DEF SyncInv
  <2>2. sync'.todo = {}
    <3>1. sync'.step = 2 \/ sync'.step = 3 \/ sync'.step = 4 \/ sync'.step > 4
      BY <1>1, <1>5
    <3> QED BY <1>5, <2>1, <3>1 DEF AgreedInv
  <2>3. Agrees'
    BY <1>2, <1>6, <2>1 DEF AgreedInv, Agrees
  <2> QED BY <1>5, <1>6, <2>1, <2>2, <2>3 DEF AgreedInv
<1> QED BY <1>4, <1>7, <1>8 DEF SyncInv

-----------------------------------------------------------------------------
\* A row is pushed whose call was not made yet in this run: what the server does
\* with it, it does once, unless an answer was lost before.
LEMMA PushRuns ==
  ASSUME SyncInv, NEW r, NEW acceptable \in BOOLEAN, NEW result, Push(r, acceptable, result)
  PROVE  /\ r \in sync.todo /\ sync.row = NoRow /\ losses' \in 0..MaxLosses
         /\ UNCHANGED <<tenant, item, sale, adjustment, category, shown, pendingCount, offline, reset, edits, agreed,
                        circumstances>>
         /\ sync' \in SyncRun /\ sync'.row = r /\ sync'.answer \in {"ok", "error"}
         /\ sync'.step = sync.step /\ sync'.todo = sync.todo /\ sync'.failed = sync.failed /\ sync'.page = sync.page
         /\ \/ server' = server /\ sync'.answer = "error"
            \/ acceptable /\ server' = result /\ (sync'.answer = "ok" \/ Hazard("network"))
<1>1. PICK outcome \in Outcomes(acceptable) :
        /\ server' = IF Done(outcome) THEN result ELSE server
        /\ sync' = [sync EXCEPT !.row = r, !.answer = IF outcome = "ok" THEN "ok" ELSE "error"]
        /\ CountLoss(outcome)
  BY DEF Push
<1>2. losses \in 0..MaxLosses /\ sync \in SyncRun
  BY DEF SyncInv, SyncTypes
<1>3. /\ outcome \in {"ok", "refused", "unsent", "lost"} /\ losses' \in 0..MaxLosses
      /\ Done(outcome) => acceptable
      /\ outcome = "lost" => Hazard("network")
  BY <1>1, <1>2, OutcomeFacts
<1>4. /\ r \in sync.todo /\ sync.row = NoRow
      /\ UNCHANGED <<tenant, item, sale, adjustment, category, shown, pendingCount, offline, reset, edits, agreed,
                     circumstances>>
  BY DEF Push, local
<1>5. PICK answer \in {"ok", "error"} : answer = IF outcome = "ok" THEN "ok" ELSE "error"
  OBVIOUS
<1>6. r \in Rows \cup {NoRow} /\ answer \in Answer
  BY <1>2, <1>4, RunFields DEF Answer
<1>7. sync' = [sync EXCEPT !.row = r, !.answer = answer]
  BY <1>1, <1>5
<1>8. /\ sync' \in SyncRun /\ sync'.row = r /\ sync'.answer = answer
      /\ sync'.step = sync.step /\ sync'.todo = sync.todo /\ sync'.failed = sync.failed /\ sync'.page = sync.page
  BY <1>2, <1>6, <1>7 DEF SyncRun
<1>9. \/ server' = server /\ answer = "error"
      \/ acceptable /\ server' = result /\ (answer = "ok" \/ Hazard("network"))
  BY <1>1, <1>3, <1>5 DEF Done
<1> QED BY <1>3, <1>4, <1>8, <1>9

LEMMA PushKeeps ==
  ASSUME SyncInv, sync.step \in 1..4, NEW r \in Rows, r \in sync.todo, sync.row = NoRow, losses' \in 0..MaxLosses,
         UNCHANGED <<tenant, item, sale, adjustment, category, shown, pendingCount, offline, reset, edits, agreed,
                     circumstances>>,
         sync' \in SyncRun, sync'.row = r, sync'.answer \in {"ok", "error"},
         sync'.step = sync.step, sync'.todo = sync.todo, sync'.failed = sync.failed, sync'.page = sync.page,
         server' \in ServerRecord,
         \A s \in Sales : \/ server'.booked[s] = server.booked[s]
                          \/ /\ s = r /\ server'.booked[s] = server.booked[s] \cup {<<"queue", tenant>>}
                             /\ \A b \in server.booked[s] : b[1] = "queue" => b[2] = tenant,
         r \in Sales /\ sync'.answer = "ok" => server'.booked[r] # {},
         \A t \in Adjustments :
           \/ server'.adjusted[t] = server.adjusted[t]
           \/ t = r /\ (server.adjusted[t] = 0 => server'.adjusted[t] = 1) /\ (sync'.answer = "ok" \/ Hazard("network")),
         \A i \in Items :
           \/ server'.copies[i] = server.copies[i]
           \/ /\ i = r /\ ~item[i].known
              /\ server.copies[i] = 0 => server'.copies[i] = 1
              /\ sync'.answer = "ok" \/ Hazard("network"),
         \/ server'.categories = server.categories
         \/ /\ r = Category
            /\ server.categories = 0 => server'.categories = 1
            /\ sync'.answer = "ok" \/ Hazard("network"),
         r = Category => server'.stock = server.stock /\ server'.edit = server.edit /\ server'.copies = server.copies
                         /\ server'.gone = server.gone
  PROVE  SyncInv'
<1>1. SyncTypes'
  BY DEF SyncInv, SyncTypes
<1>2. RunInv'
  BY SyncFacts DEF SyncInv, RunInv
<1>3. \A s \in Sales : SaleInv(s)'
  <2> SUFFICES ASSUME NEW s \in Sales
               PROVE  SaleInv(s)'
    OBVIOUS
  <2>1. SaleInv(s)
    BY DEF SyncInv
  <2>2. \A b \in server'.booked[s] : b \in server.booked[s] \/ b = <<"queue", tenant>>
    OBVIOUS
  <2>3. server.booked[s] # {} => server'.booked[s] # {}
    OBVIOUS
  <2>4. Sent(s)' => s = r /\ sync'.answer = "ok"
    BY DEF Sent
  <2>5. sale[s].st = "new" => s # r /\ server'.booked[s] = server.booked[s]
    BY <2>1 DEF SaleInv
  <2>6. \A b, c \in server'.booked[s] : b[1] = c[1] => b[2] = c[2]
    <3>1. CASE server'.booked[s] = server.booked[s]
      BY <2>1, <3>1 DEF SaleInv
    <3>2. CASE \A b \in server.booked[s] : b[1] = "queue" => b[2] = tenant
      <4>1. \A b \in server'.booked[s] : b \in server.booked[s] \/ (b[1] = "queue" /\ b[2] = tenant)
        BY <2>2
      <4>2. \A b \in server'.booked[s] : b[1] = "queue" => b[2] = tenant
        BY <3>2, <4>1
      <4>3. \A b, c \in server.booked[s] : b[1] = c[1] => b[2] = c[2]
        BY <2>1 DEF SaleInv
      <4> QED BY <4>1, <4>2, <4>3
    <3> QED BY <3>1, <3>2
  <2>7. \A b \in server'.booked[s] : b[1] \in {"online", "queue"}
    BY <2>1, <2>2 DEF SaleInv
  <2> QED BY <2>1, <2>2, <2>3, <2>4, <2>5, <2>6, <2>7 DEF SaleInv
<1>4. CalmInv'
  BY DEF SyncInv, CalmInv, Hazard
<1>5. ShopInv'
  <2> SUFFICES ASSUME circumstances.hazards \cap {"overlap", "add_business"} = {}
               PROVE  ShopInv'
    BY DEF ShopInv
  <2>1. ShopInv
    BY DEF SyncInv
  <2>2. ASSUME NEW s \in Sales, NEW b \in server'.booked[s]
        PROVE  b[2] = sale[s].shop
    <3>1. CASE b \in server.booked[s]
      BY <2>1, <3>1 DEF ShopInv
    <3>2. CASE b \notin server.booked[s]
      <4>1. b = <<"queue", tenant>> /\ s = r
        BY <2>2, <3>2
      <4> QED BY <2>1, <4>1 DEF ShopInv
    <3> QED BY <3>1, <3>2
  <2> QED BY <2>1, <2>2 DEF ShopInv
<1>6. OnceInv'
  <2> SUFFICES ASSUME circumstances.hazards \cap {"network", "overlap", "add_business"} = {}
               PROVE  OnceInv'
    BY DEF OnceInv
  <2>1. OnceInv /\ ~Hazard("network") /\ (\A i \in Items : i \in sync.todo => item[i].here)
    BY DEF SyncInv, CalmInv, Hazard
  <2>2. \A x \in Rows : ~Sent(x) /\ (Sent(x)' <=> x = r /\ sync'.answer = "ok")
    BY SyncFacts DEF Sent
  <2>3. ASSUME NEW s \in Sales, NEW b \in server'.booked[s], b[1] = "online"
        PROVE  sale[s].st \in {"accepted", "told"} /\ sale[s].row = "none" /\ s \notin sync.todo /\ s # r
    <3>1. b \in server.booked[s]
      BY <2>3
    <3> QED BY <2>1, <2>3, <3>1 DEF OnceInv
  <2>4. ASSUME NEW t \in Adjustments
        PROVE  /\ server'.adjusted[t] \in {0, 1}
               /\ adjustment[t].st = "new" => server'.adjusted[t] = 0 /\ adjustment[t].row = "none" /\ t \notin sync.todo
               /\ adjustment[t].row # "none" => adjustment[t].live
               /\ adjustment[t].row = "unsynced" => server'.adjusted[t] = 0 \/ adjustment[t].st = "ok" \/ Sent(t)'
               /\ t \in sync.todo => server'.adjusted[t] = 0 \/ Sent(t)'
    <3>1. /\ server.adjusted[t] \in {0, 1}
          /\ adjustment[t].st = "new" => server.adjusted[t] = 0 /\ adjustment[t].row = "none" /\ t \notin sync.todo
          /\ adjustment[t].row # "none" => adjustment[t].live
          /\ adjustment[t].row = "unsynced" => server.adjusted[t] = 0 \/ adjustment[t].st = "ok"
          /\ t \in sync.todo => server.adjusted[t] = 0
      BY <2>1, <2>2, SyncFacts DEF OnceInv
    <3>2. CASE server'.adjusted[t] = server.adjusted[t]
      BY <3>1, <3>2
    <3>3. CASE t = r /\ (server.adjusted[t] = 0 => server'.adjusted[t] = 1) /\ sync'.answer = "ok"
      <4>1. adjustment[t].st # "new"
        BY <3>1, <3>3
      <4> QED BY <2>2, <3>1, <3>3, <4>1
    <3> QED BY <2>1, <3>2, <3>3
  <2>5. ASSUME NEW i \in Items
        PROVE  /\ server'.copies[i] \in {0, 1}
               /\ item[i].here /\ ~item[i].known => server'.copies[i] = 0 \/ Sent(i)'
    <3>1. /\ server.copies[i] \in {0, 1}
          /\ item[i].here /\ ~item[i].known => server.copies[i] = 0
          /\ i \in sync.todo => item[i].here
      BY <2>1, <2>2, SyncFacts DEF OnceInv
    <3> QED BY <2>1, <2>2, <3>1
  <2>6. /\ server'.categories \in {0, 1}
        /\ category = "unsynced" => server'.categories = 0 \/ Sent(Category)'
        /\ Category \in sync.todo => server'.categories = 0 \/ Sent(Category)'
    <3>1. /\ server.categories \in {0, 1}
          /\ category = "unsynced" => server.categories = 0
          /\ Category \in sync.todo => server.categories = 0
      BY <2>1, <2>2, SyncFacts DEF OnceInv
    <3> QED BY <2>1, <2>2, <3>1
  <2>7. ASSUME NEW s \in Sales, NEW b \in server'.booked[s], NEW c \in server'.booked[s]
        PROVE  b[1] = c[1]
    <3>1. \A d \in server.booked[s] : d[1] \in {"online", "queue"}
      BY DEF SyncInv, SaleInv
    <3>2. CASE server'.booked[s] = server.booked[s]
      BY <2>1, <3>2 DEF OnceInv
    <3>3. CASE s = r /\ server'.booked[s] = server.booked[s] \cup {<<"queue", tenant>>}
      <4>1. \A d \in server.booked[s] : d[1] = "queue"
        BY <2>3, <3>1, <3>3
      <4>2. \A d \in server'.booked[s] : d[1] = "queue"
        BY <3>3, <4>1
      <4> QED BY <4>2
    <3> QED BY <3>2, <3>3
  <2> QED BY <2>3, <2>4, <2>5, <2>6, <2>7 DEF OnceInv
<1>7. /\ Unsynced("sales")' = Unsynced("sales") /\ Unsynced("items")' = Unsynced("items")
      /\ Unsynced("stock_transactions")' = Unsynced("stock_transactions")
  BY DEF Unsynced
<1>8. SyncingInv'
  BY <1>7 DEF SyncInv, SyncingInv
<1>9. AgreedInv'
  <2> SUFFICES ASSUME agreed = "yes"
               PROVE  AgreedInv'
    BY DEF AgreedInv
  <2>1. AgreedInv /\ r = Category
    BY DEF SyncInv, AgreedInv
  <2>2. FirstPages' = FirstPages
    <3>1. /\ server'.stock = server.stock /\ server'.edit = server.edit /\ server'.copies = server.copies
          /\ server'.gone = server.gone /\ tenant' = tenant /\ circumstances' = circumstances
      BY <2>1
    <3> QED BY <3>1 DEF FirstPages, ItemsOfShop, Page, home
  <2>3. Agrees'
    BY <2>1, <2>2 DEF AgreedInv, Agrees
  <2> QED BY <1>7, <2>1, <2>2, <2>3 DEF AgreedInv
<1> QED BY <1>1, <1>2, <1>3, <1>4, <1>5, <1>6, <1>8, <1>9 DEF SyncInv

LEMMA PushCategoryKeeps ==
  ASSUME SyncInv, PushCategory
  PROVE  SyncInv'
<1>1. PICK acceptable \in BOOLEAN : Push(Category, acceptable, SaveCategory)
  <2>1. Push(Category, TRUE, SaveCategory)
    BY Zenon DEF PushCategory
  <2> QED BY <2>1, Zenon
<1>2. sync.step \in 1..4
  <2>1. sync.step \in 0..7
    BY RunFields DEF SyncInv, SyncTypes
  <2> QED BY <2>1 DEF PushCategory, Pushing
<1>3. server \in ServerRecord
  BY DEF SyncInv, SyncTypes
<1>4. \A new : new = SaveCategory =>
        /\ new \in ServerRecord
        /\ server.categories = 0 => new.categories = 1
        /\ new.stock = server.stock /\ new.edit = server.edit /\ new.copies = server.copies
        /\ new.gone = server.gone /\ new.booked = server.booked /\ new.adjusted = server.adjusted
  BY <1>3, CategoryEffect
<1>5. /\ Category \in sync.todo /\ sync.row = NoRow /\ losses' \in 0..MaxLosses
      /\ UNCHANGED <<tenant, item, sale, adjustment, category, shown, pendingCount, offline, reset, edits, agreed,
                     circumstances>>
      /\ sync' \in SyncRun /\ sync'.row = Category /\ sync'.answer \in {"ok", "error"}
      /\ sync'.step = sync.step /\ sync'.todo = sync.todo /\ sync'.failed = sync.failed /\ sync'.page = sync.page
      /\ \/ server' = server /\ sync'.answer = "error"
         \/ server' = SaveCategory /\ (sync'.answer = "ok" \/ Hazard("network"))
  BY <1>1, PushRuns
<1>6. /\ server' \in ServerRecord
      /\ server'.stock = server.stock /\ server'.edit = server.edit /\ server'.copies = server.copies
      /\ server'.gone = server.gone /\ server'.booked = server.booked /\ server'.adjusted = server.adjusted
      /\ \/ server'.categories = server.categories
         \/ (server.categories = 0 => server'.categories = 1) /\ (sync'.answer = "ok" \/ Hazard("network"))
  BY <1>3, <1>4, <1>5
<1> QED BY <1>2, <1>5, <1>6, SyncFacts, PushKeeps

LEMMA PushItemKeeps ==
  ASSUME SyncInv, NEW i \in Items, PushItem(i)
  PROVE  SyncInv'
<1>1. PICK acceptable \in BOOLEAN : Push(i, acceptable, SaveItem(i))
  <2>1. Push(i, Savable(i), SaveItem(i)) /\ Savable(i) \in BOOLEAN
    BY DEF PushItem, Savable
  <2> QED BY <2>1
<1>2. sync.step \in 1..4
  <2>1. sync.step \in 0..7
    BY RunFields DEF SyncInv, SyncTypes
  <2> QED BY <2>1 DEF PushItem, Pushing
<1>3. server \in ServerRecord /\ item \in [Items -> ItemRow]
  BY DEF SyncInv, SyncTypes
<1>4. /\ i \in sync.todo /\ sync.row = NoRow /\ losses' \in 0..MaxLosses
      /\ UNCHANGED <<tenant, item, sale, adjustment, category, shown, pendingCount, offline, reset, edits, agreed,
                     circumstances>>
      /\ sync' \in SyncRun /\ sync'.row = i /\ sync'.answer \in {"ok", "error"}
      /\ sync'.step = sync.step /\ sync'.todo = sync.todo /\ sync'.failed = sync.failed /\ sync'.page = sync.page
      /\ \/ server' = server /\ sync'.answer = "error"
         \/ server' = SaveItem(i) /\ (sync'.answer = "ok" \/ Hazard("network"))
  BY <1>1, PushRuns
<1>5. /\ server' \in ServerRecord
      /\ server'.booked = server.booked /\ server'.adjusted = server.adjusted
      /\ server'.categories = server.categories
      /\ \A j \in Items \ {i} : server'.copies[j] = server.copies[j]
      /\ \/ server'.copies[i] = server.copies[i]
         \/ /\ ~item[i].known /\ (server.copies[i] = 0 => server'.copies[i] = 1)
            /\ sync'.answer = "ok" \/ Hazard("network")
  <2>1. CASE server' = server
    BY <1>3, <2>1
  <2>2. CASE server' = SaveItem(i) /\ (sync'.answer = "ok" \/ Hazard("network"))
    <3>1. /\ server' \in ServerRecord
          /\ \/ server'.copies[i] = server.copies[i]
             \/ ~item[i].deleted /\ ~item[i].known /\ (server.copies[i] = 0 => server'.copies[i] = 1)
          /\ \A j \in Items \ {i} : server'.copies[j] = server.copies[j]
          /\ server'.booked = server.booked /\ server'.adjusted = server.adjusted
          /\ server'.categories = server.categories
      BY <1>3, <2>2, SaveEffect
    <3> QED BY <2>2, <3>1
  <2> QED BY <1>4, <2>1, <2>2
<1>6. i \in Rows /\ i # Category /\ i \notin Sales /\ i \notin Adjustments
  BY SyncFacts
<1> QED BY <1>2, <1>4, <1>5, <1>6, PushKeeps

\* A sale is booked under the key of the queue.
LEMMA PushSaleKeeps ==
  ASSUME SyncInv, NEW s \in Sales, PushSale(s)
  PROVE  SyncInv'
<1>1. PICK linked \in BOOLEAN : Push(s, Sellable(s, sale[s].item, "queue", linked), Book(s, sale[s].item, "queue", linked))
  <2>1. KnownLine(sale[s]) \in BOOLEAN
    BY DEF KnownLine
  <2> QED BY <2>1 DEF PushSale, QueueKey
<1>2. sync.step \in 1..4
  <2>1. sync.step \in 0..7
    BY RunFields DEF SyncInv, SyncTypes
  <2> QED BY <2>1 DEF PushSale, Pushing
<1>3. server \in ServerRecord /\ tenant \in Shops /\ "queue" \in Keys
  BY DEF SyncInv, SyncTypes, Keys
<1>4. Sellable(s, sale[s].item, "queue", linked) \in BOOLEAN
  BY DEF Sellable
<1>5. /\ s \in sync.todo /\ sync.row = NoRow /\ losses' \in 0..MaxLosses
      /\ UNCHANGED <<tenant, item, sale, adjustment, category, shown, pendingCount, offline, reset, edits, agreed,
                     circumstances>>
      /\ sync' \in SyncRun /\ sync'.row = s /\ sync'.answer \in {"ok", "error"}
      /\ sync'.step = sync.step /\ sync'.todo = sync.todo /\ sync'.failed = sync.failed /\ sync'.page = sync.page
      /\ \/ server' = server /\ sync'.answer = "error"
         \/ Sellable(s, sale[s].item, "queue", linked) /\ server' = Book(s, sale[s].item, "queue", linked)
  BY <1>1, <1>4, PushRuns
<1>6. /\ server' \in ServerRecord
      /\ server'.copies = server.copies /\ server'.adjusted = server.adjusted
      /\ server'.categories = server.categories
      /\ \A r \in Sales \ {s} : server'.booked[r] = server.booked[r]
      /\ \/ server'.booked[s] = server.booked[s] /\ sync'.answer = "error"
         \/ /\ server'.booked[s] = server.booked[s] \cup {<<"queue", tenant>>}
            /\ \A b \in server.booked[s] : b[1] = "queue" => b[2] = tenant
  <2>1. CASE server' = server /\ sync'.answer = "error"
    BY <1>3, <2>1
  <2>2. CASE Sellable(s, sale[s].item, "queue", linked) /\ server' = Book(s, sale[s].item, "queue", linked)
    <3>1. \A b, c \in server.booked[s] : b[1] = c[1] => b[2] = c[2]
      BY DEF SyncInv, SaleInv
    <3> QED BY <1>3, <2>2, <3>1, BookEffect
  <2> QED BY <1>5, <2>1, <2>2
<1>7. s \in Rows /\ s # Category /\ s \notin Items /\ s \notin Adjustments
  BY SyncFacts
<1>8. sync'.answer = "ok" => server'.booked[s] # {}
  BY <1>6
<1> QED BY <1>2, <1>5, <1>6, <1>7, <1>8, PushKeeps

LEMMA PushStockTransactionKeeps ==
  ASSUME SyncInv, NEW t \in Adjustments, PushStockTransaction(t)
  PROVE  SyncInv'
<1>1. PICK i \in Items \cup {NoRow}, change \in Int : Push(t, Adjustable(i, change), Adjust(t, i, change))
  <2>1. ChangeOf(t) \in Int /\ adjustment[t].item \in Items \cup {NoRow}
    BY Typed, AdjustmentFields DEF ChangeOf, SyncInv
  <2>2. Push(t, Adjustable(adjustment[t].item, ChangeOf(t)), Adjust(t, adjustment[t].item, ChangeOf(t)))
    BY DEF PushStockTransaction
  <2> QED BY <2>1, <2>2
<1>2. sync.step \in 1..4
  <2>1. sync.step \in 0..7
    BY RunFields DEF SyncInv, SyncTypes
  <2> QED BY <2>1 DEF PushStockTransaction, Pushing
<1>3. server \in ServerRecord
  BY DEF SyncInv, SyncTypes
<1>4. Adjustable(i, change) \in BOOLEAN
  BY DEF Adjustable
<1>5. /\ t \in sync.todo /\ sync.row = NoRow /\ losses' \in 0..MaxLosses
      /\ UNCHANGED <<tenant, item, sale, adjustment, category, shown, pendingCount, offline, reset, edits, agreed,
                     circumstances>>
      /\ sync' \in SyncRun /\ sync'.row = t /\ sync'.answer \in {"ok", "error"}
      /\ sync'.step = sync.step /\ sync'.todo = sync.todo /\ sync'.failed = sync.failed /\ sync'.page = sync.page
      /\ \/ server' = server /\ sync'.answer = "error"
         \/ /\ Adjustable(i, change) /\ server' = Adjust(t, i, change)
            /\ sync'.answer = "ok" \/ Hazard("network")
  BY <1>1, <1>4, PushRuns
<1>6. /\ server' \in ServerRecord
      /\ server'.copies = server.copies /\ server'.booked = server.booked /\ server'.categories = server.categories
      /\ \A u \in Adjustments \ {t} : server'.adjusted[u] = server.adjusted[u]
      /\ \/ server'.adjusted[t] = server.adjusted[t]
         \/ (server.adjusted[t] = 0 => server'.adjusted[t] = 1) /\ (sync'.answer = "ok" \/ Hazard("network"))
  <2>1. CASE server' = server
    BY <1>3, <2>1
  <2>2. CASE Adjustable(i, change) /\ server' = Adjust(t, i, change) /\ (sync'.answer = "ok" \/ Hazard("network"))
    <3>1. /\ server' \in ServerRecord
          /\ server.adjusted[t] = 0 => server'.adjusted[t] = 1
          /\ \A u \in Adjustments \ {t} : server'.adjusted[u] = server.adjusted[u]
          /\ server'.copies = server.copies /\ server'.booked = server.booked /\ server'.categories = server.categories
      BY <1>3, <2>2, AdjustEffect
    <3> QED BY <2>2, <3>1
  <2> QED BY <1>5, <2>1, <2>2
<1>7. t \in Rows /\ t # Category /\ t \notin Items /\ t \notin Sales
  BY SyncFacts
<1> QED BY <1>2, <1>5, <1>6, <1>7, PushKeeps

-----------------------------------------------------------------------------
\* A row that is done leaves the list, and is no longer unsynced.
LEMMA HandledKeeps ==
  ASSUME SyncInv, sync.step \in 1..4, NEW r \in Rows, r \in sync.todo, sync.row \in {NoRow, r},
         item' \in [Items -> ItemRow], sale' \in [Sales -> SoldRow], adjustment' \in [Adjustments -> AdjustmentRow],
         category' \in Mark, sync' \in SyncRun,
         sync'.step = sync.step, sync'.row = NoRow, sync'.answer = "none", sync'.failed = sync.failed,
         sync'.page = sync.page, sync'.todo = sync.todo \ {r},
         UNCHANGED <<tenant, shown, pendingCount, server, offline, reset, losses, edits, agreed, circumstances>>,
         \A i \in Items \ {r} : item'[i] = item[i],
         \A s \in Sales \ {r} : sale'[s] = sale[s],
         \A t \in Adjustments \ {r} : adjustment'[t] = adjustment[t],
         r # Category => category' = category,
         r = Category => category' # "unsynced",
         r \in Items => /\ item'[r].here = item[r].here /\ item'[r].synced
                        /\ item'[r].stock = item[r].stock /\ item'[r].edit = item[r].edit
                        /\ ~item'[r].known => ~item[r].known /\ ~Sent(r),
         r \in Sales => /\ Sent(r) /\ sale[r].row # "none"
                        /\ sale'[r].st = sale[r].st /\ sale'[r].row = "synced" /\ sale'[r].shop = sale[r].shop,
         r \in Adjustments => /\ adjustment[r].row # "none" /\ adjustment'[r].st = adjustment[r].st
                              /\ adjustment'[r].row = "synced" /\ adjustment'[r].live = adjustment[r].live
  PROVE  SyncInv'
<1>1. SyncTypes'
  BY DEF SyncInv, SyncTypes
<1>2. RunInv'
  BY DEF SyncInv, RunInv
<1>3. /\ \A x \in Rows \ {r} : ~Sent(x)
      /\ \A x \in Rows : ~Sent(x)'
  BY SyncFacts DEF Sent
<1>4. \A s \in Sales : SaleInv(s)'
  <2> SUFFICES ASSUME NEW s \in Sales
               PROVE  SaleInv(s)'
    OBVIOUS
  <2>1. SaleInv(s) /\ s # NoRow /\ s \in Rows
    BY SyncFacts DEF SyncInv
  <2>2. CASE s = r
    BY <1>3, <2>1, <2>2 DEF SaleInv
  <2>3. CASE s # r
    BY <1>3, <2>1, <2>3 DEF SaleInv
  <2> QED BY <2>2, <2>3
<1>5. CalmInv'
  <2>1. \A s \in Sales : sale'[s].st = sale[s].st
    OBVIOUS
  <2>2. \A t \in Adjustments : adjustment'[t].st = adjustment[t].st
    OBVIOUS
  <2>3. \A i \in Items : item'[i].here = item[i].here
    OBVIOUS
  <2>4. \A s \in Sales : sale'[s].row = "unsynced" => sale[s].row = "unsynced"
    OBVIOUS
  <2> QED BY <2>1, <2>2, <2>3, <2>4 DEF SyncInv, CalmInv, Hazard
<1>6. ShopInv'
  <2>1. \A s \in Sales : /\ sale'[s].st = sale[s].st /\ sale'[s].shop = sale[s].shop
                         /\ sale'[s].row = "unsynced" => sale[s].row = "unsynced"
    OBVIOUS
  <2> QED BY <2>1 DEF SyncInv, ShopInv
<1>7. OnceInv'
  <2> SUFFICES ASSUME circumstances.hazards \cap {"network", "overlap", "add_business"} = {}
               PROVE  OnceInv'
    BY DEF OnceInv
  <2>1. OnceInv
    BY DEF SyncInv
  <2>2. ASSUME NEW s \in Sales, \E b \in server.booked[s] : b[1] = "online"
        PROVE  sale'[s].st \in {"accepted", "told"} /\ sale'[s].row = "none" /\ s \notin sync'.todo /\ s # sync'.row
    <3>1. /\ sale[s].st \in {"accepted", "told"} /\ sale[s].row = "none" /\ s \notin sync.todo
          /\ s # NoRow
      BY <2>1, <2>2, SyncFacts DEF OnceInv
    <3> QED BY <3>1
  <2>3. ASSUME NEW t \in Adjustments
        PROVE  /\ server.adjusted[t] \in {0, 1}
               /\ adjustment'[t].st = "new" => server.adjusted[t] = 0 /\ adjustment'[t].row = "none"
                                               /\ t \notin sync'.todo
               /\ adjustment'[t].row # "none" => adjustment'[t].live
               /\ adjustment'[t].row = "unsynced" => server.adjusted[t] = 0 \/ adjustment'[t].st = "ok"
               /\ t \in sync'.todo => server.adjusted[t] = 0
    <3>1. /\ server.adjusted[t] \in {0, 1}
          /\ adjustment[t].st = "new" => server.adjusted[t] = 0 /\ adjustment[t].row = "none" /\ t \notin sync.todo
          /\ adjustment[t].row # "none" => adjustment[t].live
          /\ adjustment[t].row = "unsynced" => server.adjusted[t] = 0 \/ adjustment[t].st = "ok" \/ Sent(t)
          /\ t \in sync.todo => server.adjusted[t] = 0 \/ Sent(t)
      BY <2>1 DEF OnceInv
    <3>2. t # r => ~Sent(t)
      BY <1>3, SyncFacts
    <3> QED BY <3>1, <3>2
  <2>4. ASSUME NEW i \in Items
        PROVE  /\ server.copies[i] \in {0, 1}
               /\ item'[i].here /\ ~item'[i].known => server.copies[i] = 0
    <3>1. /\ server.copies[i] \in {0, 1}
          /\ item[i].here /\ ~item[i].known => server.copies[i] = 0 \/ Sent(i)
      BY <2>1 DEF OnceInv
    <3>2. i # r => ~Sent(i)
      BY <1>3, SyncFacts
    <3> QED BY <3>1, <3>2
  <2>5. /\ server.categories \in {0, 1}
        /\ category' = "unsynced" => server.categories = 0
        /\ Category \in sync'.todo => server.categories = 0
    <3>1. /\ server.categories \in {0, 1}
          /\ category = "unsynced" => server.categories = 0 \/ Sent(Category)
          /\ Category \in sync.todo => server.categories = 0 \/ Sent(Category)
      BY <2>1 DEF OnceInv
    <3>2. Category # r => ~Sent(Category)
      BY <1>3, SyncFacts
    <3> QED BY <3>1, <3>2
  <2>8. \A s \in Sales : \A b, c \in server.booked[s] : b[1] = c[1]
    BY <2>1 DEF OnceInv
  <2> QED BY <2>2, <2>3, <2>4, <2>5, <2>8 DEF OnceInv
<1>8. /\ Unsynced("items")' \subseteq Unsynced("items") \ {r}
      /\ Unsynced("sales")' \subseteq Unsynced("sales") \ {r}
      /\ Unsynced("stock_transactions")' \subseteq Unsynced("stock_transactions") \ {r}
      /\ FirstPages' = FirstPages
  BY DEF Unsynced, FirstPages, ItemsOfShop, Page, home
<1>9. SyncingInv'
  BY <1>8 DEF SyncInv, SyncingInv
<1>10. AgreedInv'
  <2> SUFFICES ASSUME agreed = "yes"
               PROVE  AgreedInv'
    BY DEF AgreedInv
  <2>1. AgreedInv /\ r = Category
    BY DEF SyncInv, AgreedInv
  <2>2. \A i \in Items : item'[i] = item[i]
    BY <2>1, SyncFacts
  <2>3. Agrees'
    BY <1>8, <2>1, <2>2 DEF AgreedInv, Agrees
  <2> QED BY <1>8, <2>1, <2>3 DEF AgreedInv
<1> QED BY <1>1, <1>2, <1>4, <1>5, <1>6, <1>7, <1>9, <1>10 DEF SyncInv

LEMMA ForgetKeeps ==
  ASSUME SyncInv, NEW i \in Items, ForgetItem(i)
  PROVE  SyncInv'
<1>1. /\ i \in sync.todo /\ sync.row = NoRow /\ item' = [item EXCEPT ![i].synced = TRUE]
      /\ sync' = [sync EXCEPT !.todo = @ \ {i}]
      /\ UNCHANGED <<tenant, sale, adjustment, category, shown, pendingCount, server, offline, reset, losses, edits,
                     agreed, circumstances>>
  BY DEF ForgetItem, history
<1>2. /\ item \in [Items -> ItemRow] /\ sync \in SyncRun
      /\ sale' \in [Sales -> SoldRow] /\ adjustment' \in [Adjustments -> AdjustmentRow] /\ category' \in Mark
  BY <1>1 DEF SyncInv, SyncTypes
<1>3. /\ item' \in [Items -> ItemRow] /\ \A j \in Items \ {i} : item'[j] = item[j]
      /\ item'[i].here = item[i].here /\ item'[i].known = item[i].known /\ item'[i].synced
      /\ item'[i].stock = item[i].stock /\ item'[i].edit = item[i].edit
  BY <1>1, <1>2 DEF ItemRow
<1>4. PICK todo \in SUBSET Rows : todo = sync.todo \ {i}
  BY <1>2, RunFields
<1>5. /\ sync' \in SyncRun /\ sync'.todo = sync.todo \ {i} /\ sync'.step = sync.step /\ sync'.row = NoRow
      /\ sync'.answer = sync.answer /\ sync'.failed = sync.failed /\ sync'.page = sync.page
  BY <1>1, <1>2, <1>4 DEF SyncRun
<1>6. sync.step \in 1..4
  <2>1. sync.step \in 0..7
    BY <1>2, RunFields
  <2> QED BY <2>1 DEF ForgetItem, Pushing
<1>7. i \in Rows /\ i # Category /\ i \notin Sales /\ i \notin Adjustments /\ ~Sent(i)
  BY <1>1, SyncFacts DEF Sent
<1>8. sync'.answer = "none"
  BY <1>1, <1>5, <1>6 DEF SyncInv, RunInv
<1> QED BY <1>1, <1>2, <1>3, <1>5, <1>6, <1>7, <1>8, HandledKeeps

\* What the server has taken is marked in the table of its row.
LEMMA RowPushedKeeps ==
  ASSUME SyncInv, RowPushed
  PROVE  SyncInv'
<1>1. PICK r : r = sync.row
  OBVIOUS
<1>2. /\ sync.step \in 1..4 /\ sync.answer = "ok" /\ Stands(r) /\ MarkSynced(r)
      /\ sync' = [sync EXCEPT !.row = NoRow, !.answer = "none", !.todo = @ \ {r}]
      /\ UNCHANGED <<tenant, shown, pendingCount, server, offline, reset, losses, edits, agreed, circumstances>>
  BY <1>1 DEF RowPushed, history
<1>3. /\ item \in [Items -> ItemRow] /\ sale \in [Sales -> SoldRow] /\ adjustment \in [Adjustments -> AdjustmentRow]
      /\ category \in Mark /\ sync \in SyncRun
  BY DEF SyncInv, SyncTypes
<1>4. r \in sync.todo /\ r \in Rows /\ Sent(r)
  BY <1>1, <1>2, <1>3, RunFields DEF SyncInv, RunInv, Sent
<1>5. item' \in [Items -> ItemRow] /\ (\A i \in Items \ {r} : item'[i] = item[i])
      /\ (r \in Items => /\ item'[r].here = item[r].here /\ item'[r].synced /\ item'[r].known
                         /\ item'[r].stock = item[r].stock /\ item'[r].edit = item[r].edit)
  <2>1. CASE r \in Items
    <3>1. item[r] \in ItemRow
      BY <1>3, <2>1
    <3> DEFINE new == [item[r] EXCEPT !.synced = TRUE, !.known = TRUE]
    <3>2. item' = [item EXCEPT ![r] = new]
      BY <1>2, <2>1 DEF MarkSynced
    <3>3. /\ new \in ItemRow /\ new.here = item[r].here /\ new.synced /\ new.known
          /\ new.stock = item[r].stock /\ new.edit = item[r].edit
      BY <3>1 DEF ItemRow
    <3> HIDE DEF new
    <3> QED BY <1>3, <2>1, <3>2, <3>3
  <2>2. CASE r \notin Items
    BY <1>2, <1>3, <2>2 DEF MarkSynced
  <2> QED BY <2>1, <2>2
<1>6. sale' \in [Sales -> SoldRow] /\ (\A s \in Sales \ {r} : sale'[s] = sale[s])
      /\ (r \in Sales => sale'[r].st = sale[r].st /\ sale'[r].row = "synced" /\ sale'[r].shop = sale[r].shop)
  <2>1. CASE r \in Sales
    <3>1. sale' = [sale EXCEPT ![r].row = "synced"]
      BY <1>2, <2>1 DEF MarkSynced
    <3> QED BY <1>3, <2>1, <3>1 DEF SoldRow, Mark
  <2>2. CASE r \notin Sales
    BY <1>2, <1>3, <2>2 DEF MarkSynced
  <2> QED BY <2>1, <2>2
<1>7. adjustment' \in [Adjustments -> AdjustmentRow] /\ (\A t \in Adjustments \ {r} : adjustment'[t] = adjustment[t])
      /\ (r \in Adjustments => /\ adjustment'[r].st = adjustment[r].st /\ adjustment'[r].row = "synced"
                               /\ adjustment'[r].live = adjustment[r].live)
  <2>1. CASE r \in Adjustments
    <3>1. adjustment' = [adjustment EXCEPT ![r].row = "synced"]
      BY <1>2, <2>1 DEF MarkSynced
    <3> QED BY <1>3, <2>1, <3>1 DEF AdjustmentRow, Mark
  <2>2. CASE r \notin Adjustments
    BY <1>2, <1>3, <2>2 DEF MarkSynced
  <2> QED BY <2>1, <2>2
<1>8. category' \in Mark /\ (r # Category => category' = category) /\ (r = Category => category' # "unsynced")
  BY <1>2, <1>3 DEF MarkSynced, Mark
<1>9. PICK todo \in SUBSET Rows, none \in Answer, row \in Rows \cup {NoRow} :
        todo = sync.todo \ {r} /\ none = "none" /\ row = NoRow
  BY <1>3, RunFields DEF Answer
<1>10. /\ sync' \in SyncRun /\ sync'.todo = sync.todo \ {r} /\ sync'.step = sync.step /\ sync'.row = NoRow
       /\ sync'.answer = "none"
       /\ sync'.failed = sync.failed /\ sync'.page = sync.page
  <2>1. sync' = [sync EXCEPT !.row = row, !.answer = none, !.todo = todo]
    BY <1>2, <1>9
  <2> QED BY <1>3, <1>9, <2>1 DEF SyncRun
<1>11. /\ r \in Sales => sale[r].row # "none"
       /\ r \in Adjustments => adjustment[r].row # "none"
  BY <1>2, SyncFacts DEF Stands
<1> QED BY <1>1, <1>2, <1>4, <1>5, <1>6, <1>7, <1>8, <1>10, <1>11, HandledKeeps

-----------------------------------------------------------------------------
\* A sync takes up what is unsynced when it begins.
LEMMA StartKeeps ==
  ASSUME SyncInv, StartSync
  PROVE  SyncInv'
<1>1. /\ sync.step = 0 /\ Settled
      /\ sync' = [NoSync EXCEPT !.step = 1, !.todo = Unsynced(Tables[1])]
      /\ agreed' = IF agreed = "no" THEN "syncing" ELSE agreed
      /\ UNCHANGED <<tenant, item, sale, adjustment, category, shown, pendingCount, server, offline, reset, losses,
                     edits, circumstances>>
  BY DEF StartSync, SyncByHand, SyncByService, local
<1>2. PICK todo \in SUBSET Rows : todo = Unsynced(Tables[1])
  BY TableRows, UnsyncedRows, SyncFacts
<1>3. todo \subseteq {Category} /\ (Category \in todo => category = "unsynced")
  <2>1. todo = IF category = "unsynced" THEN {Category} ELSE {}
    BY <1>2, TableRows, UnsyncedRows
  <2> QED BY <2>1
<1>4. /\ sync' \in SyncRun /\ sync'.step = 1 /\ sync'.todo = todo /\ sync'.row = NoRow /\ sync'.answer = "none"
      /\ sync'.page = NoPage
  <2>1. sync' = [NoSync EXCEPT !.step = 1, !.todo = todo]
    BY <1>1, <1>2
  <2>2. NoSync \in SyncRun /\ NoSync.row = NoRow /\ NoSync.answer = "none" /\ NoSync.page = NoPage
    BY NoRun
  <2>3. PICK step \in 0..7 : step = 1
    OBVIOUS
  <2>4. sync' = [NoSync EXCEPT !.step = step, !.todo = todo]
    BY <2>1, <2>3
  <2>5. /\ sync' \in SyncRun /\ sync'.step = step /\ sync'.todo = todo /\ sync'.row = NoRow /\ sync'.answer = "none"
        /\ sync'.page = NoPage
    BY <2>2, <2>4 DEF SyncRun
  <2> QED BY <2>3, <2>5
<1>5. sync.row = NoRow /\ (\A x \in Rows : ~Sent(x)) /\ (\A x \in Rows : ~Sent(x)')
  <2>1. sync.row = NoRow
    BY <1>1 DEF SyncInv, RunInv
  <2> QED BY <2>1, <1>4, SyncFacts DEF Sent
<1>6. SyncTypes'
  BY <1>1, <1>4 DEF SyncInv, SyncTypes
<1>7. RunInv'
  BY <1>4 DEF RunInv
<1>8. \A r \in Rows : r # Category => r \notin sync'.todo
  BY <1>3, <1>4
<1>9. \A s \in Sales : SaleInv(s)'
  <2> SUFFICES ASSUME NEW s \in Sales
               PROVE  SaleInv(s)'
    OBVIOUS
  <2>1. SaleInv(s) /\ s \in Rows /\ s # Category /\ s # NoRow
    BY SyncFacts DEF SyncInv
  <2> QED BY <1>1, <1>4, <1>5, <1>8, <2>1 DEF SaleInv
<1>10. CalmInv'
  <2>1. \A i \in Items : i \notin sync'.todo
    BY <1>8, SyncFacts
  <2> QED BY <1>1, <1>4, <2>1 DEF SyncInv, CalmInv, Settled, Hazard
<1>11. ShopInv'
  <2>1. \A s \in Sales : s \notin sync'.todo
    BY <1>8, SyncFacts
  <2> QED BY <1>1, <2>1 DEF SyncInv, ShopInv
<1>12. OnceInv'
  <2> SUFFICES ASSUME circumstances.hazards \cap {"network", "overlap", "add_business"} = {}
               PROVE  OnceInv'
    BY <1>1 DEF OnceInv
  <2>1. OnceInv
    BY DEF SyncInv
  <2>2. /\ \A s \in Sales : s \notin sync'.todo /\ s # sync'.row
        /\ \A t \in Adjustments : t \notin sync'.todo
    BY <1>4, <1>8, SyncFacts
  <2>3. /\ \A t \in Adjustments : ~Sent(t)
        /\ \A i \in Items : ~Sent(i)
        /\ ~Sent(Category)
    BY <1>5, SyncFacts
  <2>4. Category \in sync'.todo => server.categories = 0
    BY <1>3, <1>4, <2>1, <2>3 DEF OnceInv
  <2> QED BY <1>1, <2>1, <2>2, <2>3, <2>4 DEF OnceInv
<1>13. /\ Unsynced("sales")' = Unsynced("sales") /\ Unsynced("items")' = Unsynced("items")
       /\ Unsynced("stock_transactions")' = Unsynced("stock_transactions") /\ FirstPages' = FirstPages
  BY <1>1 DEF Unsynced, FirstPages, ItemsOfShop, Page, home
<1>14. SyncingInv'
  BY <1>4 DEF SyncingInv
<1>15. AgreedInv'
  <2> SUFFICES ASSUME agreed = "yes"
               PROVE  AgreedInv'
    BY <1>1 DEF AgreedInv
  <2>1. Agrees'
    BY <1>1, <1>13 DEF SyncInv, AgreedInv, Agrees
  <2> QED BY <1>3, <1>4, <1>13, <2>1 DEF SyncInv, AgreedInv
<1> QED BY <1>6, <1>7, <1>9, <1>10, <1>11, <1>12, <1>14, <1>15 DEF SyncInv

\* The page that arrives is the server's at that moment.
LEMMA PullKeeps ==
  ASSUME SyncInv, PullTable
  PROVE  SyncInv'
<1>0. PICK acceptable \in BOOLEAN :
        \E outcome \in Outcomes(acceptable), list \in FirstPages :
          /\ sync' = [sync EXCEPT !.answer = IF outcome = "ok" THEN "ok" ELSE "error",
                                  !.page = IF outcome = "ok" /\ Tables[sync.step] = "pull items" THEN list ELSE @]
          /\ CountLoss(outcome)
  <2>1. \E outcome \in Outcomes(TRUE), list \in FirstPages :
          /\ sync' = [sync EXCEPT !.answer = IF outcome = "ok" THEN "ok" ELSE "error",
                                  !.page = IF outcome = "ok" /\ Tables[sync.step] = "pull items" THEN list ELSE @]
          /\ CountLoss(outcome)
    BY Zenon DEF PullTable
  <2> QED BY <2>1, Zenon
<1>1. PICK outcome \in Outcomes(acceptable), list \in FirstPages :
        /\ sync' = [sync EXCEPT !.answer = IF outcome = "ok" THEN "ok" ELSE "error",
                                !.page = IF outcome = "ok" /\ Tables[sync.step] = "pull items" THEN list ELSE @]
        /\ CountLoss(outcome)
  BY <1>0
<1>2. /\ sync.step \in 5..6 /\ sync.answer = "none"
      /\ UNCHANGED <<tenant, item, sale, adjustment, category, shown, pendingCount, server, offline, reset, edits,
                     agreed, circumstances>>
  BY DEF PullTable, local
<1>3. losses \in 0..MaxLosses /\ sync \in SyncRun /\ server \in ServerRecord /\ sync.page \in [Items -> PageRow]
  BY RunFields DEF SyncInv, SyncTypes
<1>4. losses' \in 0..MaxLosses
  BY <1>1, <1>3, OutcomeFacts
<1>5. list \in [Items -> PageRow]
  <2>1. \A i \in Items : server.stock[i] \in Stocks /\ server.edit[i] \in Edition
    BY <1>3, ServerFields
  <2>2. \A i \in Items : [there |-> TRUE, stock |-> server.stock[i], edit |-> server.edit[i]] \in PageRow
    BY <2>1 DEF PageRow
  <2>3. \A i \in Items : NoPage[i] \in PageRow
    BY NoRun
  <2>4. PICK first : list = Page(first)
    BY DEF FirstPages
  <2> QED BY <2>2, <2>3, <2>4 DEF Page
<1>6. PICK answer \in {"ok", "error"} : answer = IF outcome = "ok" THEN "ok" ELSE "error"
  OBVIOUS
<1>7. PICK pulled \in [Items -> PageRow] :
        pulled = IF outcome = "ok" /\ Tables[sync.step] = "pull items" THEN list ELSE sync.page
  BY <1>3, <1>5
<1>8. /\ sync' \in SyncRun /\ sync'.answer = answer /\ sync'.page = pulled /\ sync'.step = sync.step
      /\ sync'.todo = sync.todo /\ sync'.row = sync.row /\ sync'.failed = sync.failed
  <2>1. sync' = [sync EXCEPT !.answer = answer, !.page = pulled]
    BY <1>1, <1>6, <1>7
  <2> QED BY <1>3, <2>1 DEF SyncRun, Answer
<1>9. sync.step = 5 /\ answer = "ok" => pulled \in FirstPages
  BY <1>6, <1>7, TableRows
<1>10. sync.step = 6 => pulled = NoPage
  <2> SUFFICES ASSUME sync.step = 6
               PROVE  pulled = NoPage
    OBVIOUS
  <2>1. Tables[sync.step] = Tables[6]
    OBVIOUS
  <2>2. Tables[6] # "pull items"
    BY TableRows
  <2>3. pulled = sync.page
    BY <1>7, <2>1, <2>2
  <2> QED BY <2>3 DEF SyncInv, RunInv
<1>11. sync.row = NoRow
  BY <1>2 DEF SyncInv, RunInv
<1>12. (\A x \in Rows : ~Sent(x)) /\ (\A x \in Rows : ~Sent(x)')
  BY <1>8, <1>11, SyncFacts DEF Sent
<1>13. SyncTypes'
  BY <1>2, <1>4, <1>8 DEF SyncInv, SyncTypes
<1>14. RunInv'
  BY <1>2, <1>8, <1>10, <1>11 DEF RunInv
<1>15. \A s \in Sales : SaleInv(s)'
  <2> SUFFICES ASSUME NEW s \in Sales
               PROVE  SaleInv(s)'
    OBVIOUS
  <2>1. SaleInv(s) /\ s \in Rows
    BY SyncFacts DEF SyncInv
  <2> QED BY <1>2, <1>8, <1>12, <2>1 DEF SaleInv
<1>16. CalmInv' /\ ShopInv'
  BY <1>2, <1>8 DEF SyncInv, CalmInv, ShopInv, Hazard
<1>17. OnceInv'
  <2>1. /\ \A t \in Adjustments : ~Sent(t)
        /\ \A i \in Items : ~Sent(i)
        /\ ~Sent(Category)
    BY <1>12, SyncFacts
  <2> QED BY <1>2, <1>8, <2>1 DEF SyncInv, OnceInv
<1>18. /\ Unsynced("sales")' = Unsynced("sales") /\ Unsynced("items")' = Unsynced("items")
       /\ Unsynced("stock_transactions")' = Unsynced("stock_transactions") /\ FirstPages' = FirstPages
  BY <1>2 DEF Unsynced, FirstPages, ItemsOfShop, Page, home
<1>19. Agrees => Agrees'
  BY <1>2, <1>18 DEF Agrees
<1>20. SyncingInv'
  BY <1>2, <1>8, <1>9, <1>18, <1>19 DEF SyncInv, SyncingInv
<1>21. AgreedInv'
  BY <1>2, <1>8, <1>9, <1>18, <1>19 DEF SyncInv, AgreedInv
<1> QED BY <1>13, <1>14, <1>15, <1>16, <1>17, <1>20, <1>21 DEF SyncInv

\* A page that is taken over makes the phone agree where it can.
LEMMA PulledKeeps ==
  ASSUME SyncInv, TablePulled
  PROVE  SyncInv'
<1>1. /\ sync.step \in 5..6 /\ sync.answer = "ok" /\ NextTable(sync.failed)
      /\ item' = [i \in Items |-> IF sync.page[i].there THEN Upserted(i, item[i]) ELSE item[i]]
      /\ UNCHANGED <<tenant, sale, adjustment, category, shown, pendingCount, server, offline, reset, history>>
  BY DEF TablePulled
<1>2. item \in [Items -> ItemRow] /\ sync.failed \in BOOLEAN /\ sync.page \in [Items -> PageRow]
  BY RunFields DEF SyncInv, SyncTypes
<1>3. ASSUME NEW i \in Items, sync.page[i].there
      PROVE  /\ item'[i] \in ItemRow /\ item'[i].here
             /\ item[i].here /\ ~item[i].known => item'[i] = item[i]
             /\ ~(item[i].here /\ ~item[i].known) =>
                  item'[i].known /\ item'[i].synced /\ item'[i].stock = sync.page[i].stock
                                 /\ item'[i].edit = sync.page[i].edit
  <2>1. item'[i] = Upserted(i, item[i]) /\ item[i] \in ItemRow /\ sync.page[i] \in PageRow
    BY <1>1, <1>2, <1>3
  <2>2. sync.page[i].stock \in Stocks /\ sync.page[i].edit \in Edition
    BY <2>1 DEF PageRow
  <2>3. CASE item[i].here /\ ~item[i].known
    BY <2>1, <2>3 DEF Upserted
  <2>4. CASE ~(item[i].here /\ ~item[i].known)
    <3>1. item'[i] = [here |-> TRUE, known |-> TRUE, stock |-> sync.page[i].stock, edit |-> sync.page[i].edit,
                      synced |-> TRUE, deleted |-> FALSE]
      BY <2>1, <2>4 DEF Upserted
    <3> QED BY <2>2, <2>4, <3>1 DEF ItemRow
  <2> QED BY <2>3, <2>4
<1>4. \A i \in Items : ~sync.page[i].there => item'[i] = item[i]
  BY <1>1
<1>5. item' \in [Items -> ItemRow]
  <2>1. \A i \in Items : item'[i] \in ItemRow
    BY <1>2, <1>3, <1>4
  <2>2. item' = [i \in Items |-> item'[i]]
    BY <1>1
  <2> QED BY <2>1, <2>2
<1>6. \A i \in Items : /\ item[i].here => item'[i].here
                       /\ item'[i].here /\ ~item'[i].known => item[i].here /\ ~item[i].known
  BY <1>3, <1>4
<1>7. sync.row = NoRow
  BY <1>1 DEF SyncInv, RunInv
<1>8. /\ SyncTypes' /\ RunInv' /\ CalmInv' /\ ShopInv' /\ OnceInv'
      /\ \A s \in Sales : SaleInv(s)'
  BY <1>1, <1>2, <1>5, <1>6, <1>7, NextKeeps
<1>9. /\ sync'.step = sync.step + 1 /\ sync'.row = NoRow /\ sync'.answer = "none" /\ sync'.failed = sync.failed
      /\ sync'.todo = {}
  <2>1. /\ sync'.step = sync.step + 1 /\ sync'.row = NoRow /\ sync'.answer = "none" /\ sync'.failed = sync.failed
        /\ sync'.step > 4 => sync'.todo = {}
    BY <1>1, <1>2, NextFields
  <2> QED BY <1>1, <2>1
<1>10. /\ Unsynced("sales")' = Unsynced("sales") /\ FirstPages' = FirstPages
       /\ Unsynced("stock_transactions")' = Unsynced("stock_transactions")
  BY <1>1 DEF Unsynced, FirstPages, ItemsOfShop, Page, home, history
<1>11. Unsynced("items")' \subseteq Unsynced("items")
  <2>1. ASSUME NEW i \in Items, item'[i].here, ~item'[i].synced
        PROVE  item[i].here /\ ~item[i].synced
    BY <1>3, <1>4, <2>1
  <2> QED BY <2>1 DEF Unsynced
<1>12. ASSUME sync.step = 5 => sync.page \in FirstPages, sync.step = 6 => Agrees
       PROVE  Agrees'
  <2>1. CASE sync.step = 5
    <3>1. \A i \in Items : sync.page[i].there =>
            /\ item'[i].here
            /\ item'[i].known => item'[i].stock = sync.page[i].stock /\ item'[i].edit = sync.page[i].edit
      BY <1>3, <2>1
    <3>2. sync.page \in FirstPages'
      BY <1>10, <1>12, <2>1
    <3> QED BY <3>1, <3>2 DEF Agrees
  <2>2. CASE sync.step = 6
    <3>1. \A i \in Items : item'[i] = item[i]
      BY <1>4, <2>2, NoRun DEF SyncInv, RunInv
    <3> QED BY <1>1, <1>10, <1>12, <2>2, <3>1 DEF Agrees
  <2> QED BY <1>1, <2>1, <2>2
<1>13. SyncingInv'
  <2> SUFFICES ASSUME agreed = "syncing", ~sync.failed
               PROVE  SyncingInv'
    BY <1>1, <1>9 DEF SyncingInv, history
  <2>1. /\ Unsynced("items") = {} /\ Unsynced("sales") = {} /\ Unsynced("stock_transactions") = {}
        /\ sync.step = 5 => sync.page \in FirstPages
        /\ sync.step = 6 => Agrees
    BY <1>1 DEF SyncInv, SyncingInv
  <2> QED BY <1>1, <1>9, <1>10, <1>11, <1>12, <2>1 DEF SyncingInv
<1>14. AgreedInv'
  <2> SUFFICES ASSUME agreed = "yes"
               PROVE  AgreedInv'
    BY <1>1 DEF AgreedInv, history
  <2>1. /\ Unsynced("items") = {} /\ Unsynced("sales") = {} /\ Unsynced("stock_transactions") = {}
        /\ sync.step = 5 => sync.page \in FirstPages
        /\ Agrees
    BY <1>1 DEF SyncInv, AgreedInv
  <2> QED BY <1>1, <1>9, <1>10, <1>11, <1>12, <2>1 DEF AgreedInv
<1> QED BY <1>8, <1>13, <1>14 DEF SyncInv

\* A sync that ended well, with nothing changed since it began, makes the phone agree.
LEMMA EndKeeps ==
  ASSUME SyncInv, FinishSync
  PROVE  SyncInv'
<1>1. /\ sync.step = 7 /\ pendingCount' = PendingRecords /\ sync' = NoSync
      /\ agreed' = IF agreed = "syncing" THEN (IF sync.failed THEN "no" ELSE "yes") ELSE agreed
      /\ UNCHANGED <<tenant, item, sale, adjustment, category, shown, server, offline, reset, losses, edits,
                     circumstances>>
  <2>1. Len(Tables) = 6
    BY TableRows
  <2> QED BY <2>1 DEF FinishSync
<1>2. pendingCount' \in Nat /\ \A s \in Sales : sale'[s].row = "unsynced" => pendingCount' > 0
  <2>1. PendingRecords' = PendingRecords
    BY <1>1 DEF PendingRecords, Unsynced
  <2>2. RefreshPendingCount
    BY <1>1, <2>1 DEF RefreshPendingCount
  <2> QED BY <2>2, Counted
<1>3. /\ sync' \in SyncRun /\ sync'.step = 0 /\ sync'.todo = {} /\ sync'.row = NoRow /\ sync'.answer = "none"
      /\ sync'.page = NoPage
  BY <1>1, NoRun
<1>4. sync.row = NoRow /\ (\A x \in Rows : ~Sent(x)) /\ (\A x \in Rows : ~Sent(x)')
  <2>1. sync.row = NoRow
    BY <1>1 DEF SyncInv, RunInv
  <2> QED BY <1>3, <2>1, SyncFacts DEF Sent
<1>5. SyncTypes'
  BY <1>1, <1>2, <1>3 DEF SyncInv, SyncTypes
<1>6. RunInv'
  BY <1>3 DEF RunInv
<1>7. \A s \in Sales : SaleInv(s)'
  <2> SUFFICES ASSUME NEW s \in Sales
               PROVE  SaleInv(s)'
    OBVIOUS
  <2>1. SaleInv(s) /\ s \in Rows /\ s # NoRow
    BY SyncFacts DEF SyncInv
  <2> QED BY <1>1, <1>2, <1>3, <1>4, <2>1 DEF SaleInv
<1>8. CalmInv' /\ ShopInv'
  BY <1>1, <1>3 DEF SyncInv, CalmInv, ShopInv, Hazard
<1>9. OnceInv'
  <2>1. /\ \A t \in Adjustments : ~Sent(t)
        /\ \A i \in Items : ~Sent(i)
        /\ \A s \in Sales : s # sync'.row
        /\ ~Sent(Category)
    BY <1>3, <1>4, SyncFacts
  <2> QED BY <1>1, <1>3, <2>1 DEF SyncInv, OnceInv
<1>10. /\ Unsynced("sales")' = Unsynced("sales") /\ Unsynced("items")' = Unsynced("items")
       /\ Unsynced("stock_transactions")' = Unsynced("stock_transactions") /\ FirstPages' = FirstPages
  BY <1>1 DEF Unsynced, FirstPages, ItemsOfShop, Page, home
<1>11. SyncingInv'
  BY <1>1 DEF SyncingInv
<1>12. AgreedInv'
  <2> SUFFICES ASSUME agreed' = "yes"
               PROVE  AgreedInv'
    BY DEF AgreedInv
  <2>1. Unsynced("items") = {} /\ Unsynced("sales") = {} /\ Unsynced("stock_transactions") = {} /\ Agrees
    <3>1. CASE agreed = "yes"
      BY <3>1 DEF SyncInv, AgreedInv
    <3>2. CASE agreed = "syncing" /\ ~sync.failed
      BY <1>1, <3>2 DEF SyncInv, SyncingInv
    <3> QED BY <1>1, <3>1, <3>2
  <2>2. Agrees'
    BY <1>1, <1>10, <2>1 DEF Agrees
  <2> QED BY <1>3, <1>10, <2>1, <2>2 DEF AgreedInv
<1> QED BY <1>5, <1>6, <1>7, <1>8, <1>9, <1>11, <1>12 DEF SyncInv

LEMMA SyncInitial ==
  ASSUME SyncInit
  PROVE  SyncInv
<1>1. /\ circumstances \in SyncWorlds /\ tenant = circumstances.tenant
      /\ item = [i \in Items |-> NoItem]
      /\ sale = [s \in Sales |-> [st |-> "new", row |-> "none", item |-> NoRow, cart |-> 0, live |-> FALSE,
                                  shop |-> circumstances.tenant]]
      /\ adjustment = [t \in Adjustments |-> [st |-> "new", row |-> "none", item |-> NoRow, after |-> 0, live |-> FALSE]]
      /\ category = "none" /\ shown = [i \in Items |-> NotShown] /\ sync = NoSync
      /\ pendingCount = 0 /\ offline = FALSE /\ reset = FALSE /\ losses = 0 /\ edits = 0 /\ agreed = "no"
  BY DEF SyncInit
<1>2. circumstances.tenant \in Shops /\ circumstances.stock \in 1..MaxStock
  <2>1. circumstances \in [hazards: SUBSET SyncHazards, home: [Items -> Shops],
                           stocked: SUBSET Items, stock: 1..MaxStock, sales: Nat, tenant: Shops]
    BY <1>1, SyncAssumption
  <2> QED BY <2>1
<1>3. /\ server \in ServerRecord
      /\ \A s \in Sales : server.booked[s] = {}
      /\ \A t \in Adjustments : server.adjusted[t] = 0
      /\ \A i \in Items : server.copies[i] \in {0, 1}
      /\ server.categories = 0
  <2>1. PICK stock \in [Items -> Stocks] :
          stock = [i \in Items |-> IF i \in circumstances.stocked THEN circumstances.stock ELSE 0]
    <3>1. circumstances.stock \in Stocks /\ 0 \in Stocks
      BY <1>2, SyncFacts DEF Stocks
    <3> QED BY <3>1
  <2>2. PICK edit \in [Items -> Edition] : edit = [i \in Items |-> 0]
    BY SyncFacts
  <2>3. PICK copies \in [Items -> Count] : copies = [i \in Items |-> IF i \in circumstances.stocked THEN 1 ELSE 0]
    <3>1. 0 \in Count /\ 1 \in Count
      BY DEF Count
    <3> QED BY <3>1
  <2>4. PICK booked \in [Sales -> SUBSET (Keys \X Shops)] : booked = [s \in Sales |-> {}]
    <3>1. [s \in Sales |-> {}] \in [Sales -> SUBSET (Keys \X Shops)]
      OBVIOUS
    <3> QED BY <3>1
  <2>5. PICK adjusted \in [Adjustments -> Count] : adjusted = [t \in Adjustments |-> 0]
    <3>1. 0 \in Count
      BY DEF Count
    <3> QED BY <3>1
  <2>6. server = [stock |-> stock, edit |-> edit, copies |-> copies, gone |-> {}, booked |-> booked,
                  adjusted |-> adjusted, categories |-> 0]
    BY <2>1, <2>2, <2>3, <2>4, <2>5 DEF SyncInit
  <2>7. server \in ServerRecord
    <3>1. {} \in SUBSET Items /\ 0 \in Count
      BY DEF Count
    <3> QED BY <2>6, <3>1 DEF ServerRecord
  <2>8. /\ server.copies = copies /\ server.booked = booked /\ server.adjusted = adjusted /\ server.categories = 0
    BY <2>6
  <2> QED BY <2>3, <2>4, <2>5, <2>7, <2>8
<1>4. NoItem \in ItemRow /\ ~NoItem.here /\ NotShown \in ShownItem
  BY SyncFacts DEF NoItem, ItemRow, NotShown, ShownItem
<1>5. [st |-> "new", row |-> "none", item |-> NoRow, cart |-> 0, live |-> FALSE, shop |-> circumstances.tenant]
        \in SoldRow
  BY <1>2, SyncFacts DEF SoldRow, SaleStage, Mark
<1>6. [st |-> "new", row |-> "none", item |-> NoRow, after |-> 0, live |-> FALSE] \in AdjustmentRow
  BY SyncFacts DEF AdjustmentRow, AdjustmentStage, Mark
<1>7. SyncTypes
  <2>1. /\ item \in [Items -> ItemRow] /\ shown \in [Items -> ShownItem] /\ sync \in SyncRun
        /\ adjustment \in [Adjustments -> AdjustmentRow]
    BY <1>1, <1>4, <1>6, NoRun
  <2>2. sale \in [Sales -> SoldRow]
    BY <1>1, <1>5
  <2>3. category \in Mark /\ losses \in 0..MaxLosses /\ edits \in Edition /\ tenant \in Shops
    BY <1>1, <1>2, SyncFacts DEF Mark
  <2> QED BY <1>1, <1>3, <2>1, <2>2, <2>3 DEF SyncTypes
<1>8. /\ sync.step = 0 /\ sync.todo = {} /\ sync.row = NoRow /\ sync.answer = "none" /\ sync.page = NoPage
  BY <1>1, NoRun
<1>9. /\ \A s \in Sales : sale[s].st = "new" /\ sale[s].row = "none"
      /\ \A t \in Adjustments : adjustment[t].st = "new" /\ adjustment[t].row = "none"
      /\ \A i \in Items : ~item[i].here
  BY <1>1, <1>4
<1>10. RunInv
  BY <1>8 DEF RunInv
<1>11. \A s \in Sales : SaleInv(s)
  BY <1>3, <1>8, <1>9, SyncFacts DEF SaleInv, Sent
<1>12. CalmInv
  BY <1>1, <1>8 DEF CalmInv
<1>13. ShopInv
  BY <1>3, <1>8, <1>9 DEF ShopInv
<1>14. OnceInv
  BY <1>1, <1>3, <1>8, <1>9 DEF OnceInv
<1> QED BY <1>1, <1>7, <1>10, <1>11, <1>12, <1>13, <1>14 DEF SyncInv, SyncingInv, AgreedInv

LEMMA SyncStutters ==
  ASSUME SyncInv, UNCHANGED syncVars
  PROVE  SyncInv'
<1>1. UNCHANGED <<tenant, item, sale, adjustment, category, shown, pendingCount, sync, server, offline, reset,
                  losses, edits, agreed, circumstances>>
  BY DEF syncVars, local, history
<1>2. SyncTypes' /\ RunInv'
  BY <1>1 DEF SyncInv, SyncTypes, RunInv
<1>3. CalmInv' /\ ShopInv' /\ \A s \in Sales : SaleInv(s)'
  BY <1>1 DEF SyncInv, CalmInv, ShopInv, SaleInv, Hazard, Sent
<1>4. OnceInv'
  BY <1>1 DEF SyncInv, OnceInv, Sent
<1>5. SyncingInv' /\ AgreedInv'
  BY <1>1, AgreementStays DEF SyncInv
<1> QED BY <1>2, <1>3, <1>4, <1>5 DEF SyncInv

LEMMA SyncStep ==
  ASSUME SyncInv, [SyncNext]_syncVars
  PROVE  SyncInv'
<1>1. CASE Sells
  BY <1>1, ShowsKeep, SaleAcceptedKeeps, SaleFailedKeeps, SellOfflineKeeps, SellOnlineKeeps DEF Sells
<1>2. CASE Edits
  BY <1>2, CategoryKeeps, EditsKeep, AdjustedKeeps, AdjustKeeps DEF Edits
<1>3. CASE Syncs
  BY <1>3, StartKeeps, FailedKeeps, PushCategoryKeeps, RowPushedKeeps, PushItemKeeps, ForgetKeeps, PushSaleKeeps,
     PushStockTransactionKeeps, PullKeeps, PulledKeeps, EndKeeps DEF Syncs
<1>4. CASE ResetScopedLocalData \/ GoOffline \/ GoOnline
  BY <1>4, ResetKeeps, ShowsKeep
<1>5. CASE (\E b \in Shops : EnterShop(b) \/ AddBusinessShop(b)) \/ (\E i \in Items : ServerChange(i))
  BY <1>5, EnterKeeps, ServerChangeKeeps
<1>6. CASE UNCHANGED syncVars
  BY <1>6, SyncStutters
<1> QED BY <1>1, <1>2, <1>3, <1>4, <1>5, <1>6 DEF SyncNext

LEMMA SyncInvariant == SyncSpec => []SyncInv
<1>1. SyncInit => SyncInv
  BY SyncInitial
<1>2. SyncInv /\ [SyncNext]_syncVars => SyncInv'
  BY SyncStep
<1> QED BY <1>1, <1>2, PTL DEF SyncSpec

-----------------------------------------------------------------------------
\* Type correctness of the phone's tables, of the sync that runs and of what the
\* server has recorded.
THEOREM SyncTypeCorrect == SyncSpec => []SyncTypeOK
<1>1. SyncInv => SyncTypeOK
  <2>1. Len(Tables) = 6
    BY TableRows
  <2> SUFFICES ASSUME SyncTypes
               PROVE  SyncTypeOK
    BY DEF SyncInv
  <2>2. /\ tenant \in Shops /\ category \in Mark
        /\ pendingCount \in Nat /\ offline \in BOOLEAN /\ reset \in BOOLEAN
        /\ losses \in 0..MaxLosses /\ edits \in 0..MaxEdits
        /\ agreed \in {"no", "syncing", "yes"} /\ circumstances \in SyncWorlds
    BY DEF SyncTypes, Edition
  <2>3. /\ item \in [Items -> [here: BOOLEAN, known: BOOLEAN, stock: Stocks, edit: 0..MaxEdits, synced: BOOLEAN,
                               deleted: BOOLEAN]]
        /\ shown \in [Items -> [here: BOOLEAN, known: BOOLEAN, stock: Stocks, live: BOOLEAN]]
    BY DEF SyncTypes, ItemRow, ShownItem, Edition
  <2>4. sale \in [Sales -> [st: {"new", "accepted", "refused", "lost", "told", "denied"},
                            row: {"none", "unsynced", "synced"}, item: Items \cup {NoRow},
                            cart: Stocks, live: BOOLEAN, shop: Shops]]
    BY DEF SyncTypes, SoldRow, SaleStage, Mark
  <2>5. adjustment \in [Adjustments -> [st: {"new", "ok", "error", "done"}, row: {"none", "unsynced", "synced"},
                                        item: Items \cup {NoRow}, after: Stocks, live: BOOLEAN]]
    BY DEF SyncTypes, AdjustmentRow, AdjustmentStage, Mark
  <2>6. sync \in [step: 0..(Len(Tables) + 1), todo: SUBSET Rows, row: Rows \cup {NoRow},
                  answer: {"none", "ok", "error"}, failed: BOOLEAN,
                  page: [Items -> [there: BOOLEAN, stock: Stocks, edit: 0..MaxEdits]]]
    BY <2>1 DEF SyncTypes, SyncRun, Answer, PageRow, Edition
  <2>7. server \in [stock: [Items -> Stocks], edit: [Items -> 0..MaxEdits], copies: [Items -> 0..2],
                    gone: SUBSET Items, booked: [Sales -> SUBSET (Keys \X Shops)],
                    adjusted: [Adjustments -> 0..2], categories: 0..1]
    <3>1. 0..1 = {0, 1}
      OBVIOUS
    <3> QED BY <3>1 DEF SyncTypes, ServerRecord, Edition, Count
  <2> QED BY <2>2, <2>3, <2>4, <2>5, <2>6, <2>7 DEF SyncTypeOK, Mark
<1> QED BY <1>1, SyncInvariant, PTL

LEMMA AtMostOne ==
  ASSUME NEW S, NEW x, S \subseteq {x}
  PROVE  Cardinality(S) <= 1
<1>1. IsFiniteSet({x}) /\ Cardinality({x}) = 1
  BY FS_Singleton
<1> QED BY <1>1, FS_Subset, FS_CardinalityType

\* A sale that is queued and pushed again after a lost answer or a failed run is
\* booked once and in the business that sold it, and none that the owner was told
\* of is on neither side: what recordSaleOnlineFirst, the sync and the wipe do together.
THEOREM SalesArrive == SyncSpec => []SalesArriveOnce
<1>1. SyncInv => ReachesServerOnce
  <2> SUFFICES ASSUME SyncInv
               PROVE  ReachesServerOnce
    OBVIOUS
  <2>1. ASSUME NEW s \in Sales
        PROVE  \A b \in server.booked[s] : b = <<b[1], b[2]>> /\ b[1] \in {"online", "queue"}
    <3>1. server.booked[s] \subseteq Keys \X Shops
      BY ServerFields DEF SyncInv, SyncTypes
    <3> QED BY <3>1 DEF SyncInv, SaleInv
  <2>2. ASSUME NEW s \in Sales
        PROVE  Cardinality(QueuedUnder(s)) <= 1
    <3>1. \A b, c \in server.booked[s] : b[1] = c[1] => b[2] = c[2]
      BY DEF SyncInv, SaleInv
    <3>2. \A b, c \in QueuedUnder(s) : b = c
      BY <2>1, <3>1 DEF QueuedUnder
    <3>3. PICK b : QueuedUnder(s) \subseteq {b}
      BY <3>2
    <3> QED BY <3>3, AtMostOne
  <2>3. ASSUME circumstances.hazards \cap {"network", "overlap", "add_business"} = {}
        PROVE  /\ \A s \in Sales : Cardinality(server.booked[s]) <= 1
               /\ \A t \in Adjustments : server.adjusted[t] <= 1
               /\ \A i \in Items : server.copies[i] <= 1
    <3>1. OnceInv /\ circumstances.hazards \cap {"overlap", "add_business"} = {}
      BY <2>3 DEF SyncInv
    <3>2. ASSUME NEW s \in Sales
          PROVE  Cardinality(server.booked[s]) <= 1
      <4>1. \A b, c \in server.booked[s] : b[1] = c[1] /\ b[2] = c[2]
        BY <2>3, <3>1 DEF SyncInv, OnceInv, ShopInv
      <4>2. \A b, c \in server.booked[s] : b = c
        BY <2>1, <4>1
      <4>3. PICK b : server.booked[s] \subseteq {b}
        BY <4>2
      <4> QED BY <4>3, AtMostOne
    <3>3. /\ \A t \in Adjustments : server.adjusted[t] \in {0, 1}
          /\ \A i \in Items : server.copies[i] \in {0, 1}
      BY <2>3, <3>1 DEF OnceInv
    <3> QED BY <3>2, <3>3
  <2> QED BY <2>2, <2>3 DEF ReachesServerOnce
<1>2. SyncInv => NothingForgotten
  BY DEF SyncInv, SaleInv, NothingForgotten
<1>3. SyncInv => StaysInShop
  BY DEF SyncInv, ShopInv, StaysInShop
<1> QED BY <1>1, <1>2, <1>3, SyncInvariant, PTL DEF SalesArriveOnce

\* A run of syncNow that ended without an error, with nothing changed since it
\* began, has left the phone with the server's stock and names of every item the
\* server shows, and with no sale in the queue.
THEOREM AgreesWithServer == SyncSpec => []AgreesAfterSync
<1>1. SyncInv => AgreesAfterSync
  BY DEF SyncInv, AgreedInv, Agrees, AgreesAfterSync
<1> QED BY <1>1, SyncInvariant, PTL

-----------------------------------------------------------------------------
(* The apps side by side. *)

\* The composition implements each app's specification: the apps share the server
\* and nothing of their own, so a step of one is no step of another.
THEOREM EachAppAlone ==
  ClientsSpec => /\ SyncSpec /\ CheckoutSpec /\ QueryCacheSpec /\ StockroomSpec /\ PayrollSpec
                 /\ WalletSpec /\ LenderSpec /\ BillingSpec /\ OnboardSpec
<1>1. ClientsInit => /\ SyncInit /\ CheckoutInit /\ QueryCacheInit /\ StockroomInit /\ PayrollInit
                     /\ WalletInit /\ LenderInit /\ BillingInit /\ OnboardInit
  BY DEF ClientsInit
<1>2. ASSUME [ClientsNext]_clientsVars
      PROVE  /\ [SyncNext]_syncVars /\ [CheckoutNext]_checkoutVars /\ [QueryCacheNext]_cacheVars
             /\ [StockroomNext]_stockroomVars /\ [PayrollNext]_payrollVars /\ [WalletNext]_walletVars
             /\ [LenderNext]_deskVars /\ [BillingNext]_billingVars /\ [OnboardNext]_onboardVars
  <2>1. CASE UNCHANGED clientsVars
    BY <2>1 DEF clientsVars
  <2>2. CASE ClientsNext
    BY <2>2 DEF ClientsNext, Others
  <2> QED BY <1>2, <2>1, <2>2
<1> QED BY <1>1, <1>2, PTL DEF ClientsSpec, SyncSpec, CheckoutSpec, QueryCacheSpec, StockroomSpec, PayrollSpec,
           WalletSpec, LenderSpec, BillingSpec, OnboardSpec

\* The app in use keeps the types of its variables.
THEOREM ClientsTypeCorrect == ClientsSpec => []ClientsTypeOK
<1>1. ClientsInit => inUse \in Apps
  BY DEF ClientsInit
<1>2. inUse \in Apps /\ [ClientsNext]_clientsVars => (inUse \in Apps)'
  BY DEF ClientsNext, Others, clientsVars
<1>3. /\ inUse \in Apps /\ SyncTypeOK /\ CheckoutTypeOK /\ QueryCacheTypeOK /\ StockroomTypeOK /\ PayrollTypeOK
      /\ WalletTypeOK /\ LenderTypeOK /\ BillingTypeOK /\ OnboardTypeOK
      => ClientsTypeOK
  BY DEF ClientsTypeOK
<1>4. ClientsSpec => [](inUse \in Apps)
  BY <1>1, <1>2, PTL DEF ClientsSpec
<1> QED BY <1>3, <1>4, EachAppAlone, SyncTypeCorrect, CheckoutTypeCorrect, CacheTypeCorrect, StockroomTypeCorrect,
           PayrollTypeCorrect, WalletTypeCorrect, LenderTypeCorrect, BillingTypeCorrect, OnboardTypeCorrect, PTL

\* What is proved of each app holds of all of them side by side: what is sold, saved,
\* paid, decided and added on one screen is what that screen showed.
THEOREM ClientsKeepTheirWord ==
  ClientsSpec => /\ [](SalesArriveOnce /\ AgreesAfterSync /\ SoldAsShown /\ CacheIsCurrent /\ SavedOnceAsShown)
                 /\ [](PaidAsAsked /\ PaidOutAsTold /\ DecidedOnItsOwn /\ PlanPaidAndShown /\ AddedWithinPlan)
                 /\ ChargedWhenRunOut
BY EachAppAlone, SalesArrive, AgreesWithServer, GoodsSoldAsShown, CacheStaysCurrent, StockSavedOnce, PaysAsAsked,
   PaysOutAsTold, DecidesOnItsOwn, PlansPaidAndShown, AddsWithinPlan, ChargesWhenRunOut, PTL
=============================================================================
