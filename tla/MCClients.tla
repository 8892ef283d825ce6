------------------------------- MODULE MCClients -------------------------------
(* The screens of the mobile app and of the web portals, and the sync under   *)
(* them.  They share the server and nothing else, so a behaviour uses one of  *)
(* them, the app in use, while the others rest in a first state of theirs.    *)
EXTENDS OfflineSync, Checkout, QueryCache, Stockroom, Payroll, WalletScreen,
        LenderDesk, Billing, AgentOnboard

CONSTANTS i1, i2, b1, b2, a1, ama, kofi

VARIABLE inUse   \* the app in use

Apps == {"sync", "checkout", "cache", "stockroom", "payroll", "wallet",
         "lender", "billing", "onboard"}

-----------------------------------------------------------------------------
(* The circumstances that are checked. *)

SyncWorld(hazards, home2, stocked, stock, sales) ==
  [hazards |-> hazards, home |-> (i1 :> b1) @@ (i2 :> home2),
   stocked |-> stocked, stock |-> stock, sales |-> sales, tenant |-> b1]

\* Lost calls and refusals; two businesses, entered with an empty queue or not;
\* edits of known and of new items; adjustments, also of items the server does not
\* know; somebody else who sells and edits; a switch that meets everything; a
\* business that is added.
MCSyncWorlds ==
  {SyncWorld({"network", "refusal"}, b1, {i1}, 2, 2),
   SyncWorld({"network", "enter", "leave_unsynced"}, b2, {i1, i2}, 1, 1),
   SyncWorld({"adjusts", "network"}, b1, {i1}, 2, 1),
   SyncWorld({"edits", "adjusts"}, b2, {}, 1, 0),
   SyncWorld({"edits", "refusal"}, b2, {}, 1, 0),
   SyncWorld({"colleague"}, b1, {i1, i2}, 1, 2),
   SyncWorld({"enter", "leave_unsynced", "overlap"}, b2, {i1}, 1, 1),
   SyncWorld({"add_business", "refusal"}, b2, {i1, i2}, 2, 1)}

\* Answers that are late or lost, links that are left or paid late, calls that
\* fail, sales on credit and carts of no items.
MCCheckoutWorlds ==
  {[screen |-> "sell", taps |-> taps] :
     taps \in {{"failure", "credit"}, {"failure", "lost_reply"}, {"failure", "paid_late"}, {"late"}, {"link_left"}}}
    \cup [screen: {"till"}, taps: {{"late", "failure", "lost_reply"}, {"credit"}, {"custom"}}]

\* A query and a mutation of every kind: the others behave like one of these.
TopicKind(t) == <<t.app, t.always, t.polled, t.drops, <<t.mutation, t.query>> \in Forgotten>>
MCTopics == {CHOOSE t \in CacheTopics : TopicKind(t) = k : k \in {TopicKind(t) : t \in CacheTopics}}

MCStockRooms == [section: {"items", "suppliers", "orders"}, failures: BOOLEAN]

\* One employee is new, and leaves, and is changed while another one is; or an
\* owner who waits for no answer pays one of them for a month, or a patient one
\* pays two of them for a month or one for two.
MCPayrollWorlds ==
  {w \in [part: {"team", "payments"}, patient: BOOLEAN, failures: BOOLEAN,
          hired: SUBSET Staff, months: Month] :
     IF w.part = "team" THEN w.months = 1 /\ ~w.patient
     ELSE <<w.hired, w.months, w.patient>> \in {<<{ama}, 1, FALSE>>, <<{ama}, 2, TRUE>>, <<Staff, 1, TRUE>>}}

\* Payouts with one wallet, through one form or two, or two wallets and no
\* payouts, with one call at a time or two; when calls fail, one of each.
MCWalletUses ==
  {u \in [part: {"payouts", "wallets"}, failures: BOOLEAN, visits: Visit, calls: 1..MaxSent] :
     u.visits + u.calls = IF u.failures THEN 2 ELSE 3}

\* A reviewer who closes every panel, when calls fail, or one who does not.
MCReviewers == {r \in [tidy: BOOLEAN, failures: BOOLEAN] : r.failures = r.tidy}
MCPageOf == [a \in Applications |-> IF a = a1 THEN 1 ELSE 0]

\* Days pass: without a number, when no charge of the night is sent, or with
\* one, when charges may be declined.  Or calls fail, or the owner picks twice, or
\* plans are given, on one day or on several.
MCBillingWorlds ==
  [phone: {FALSE}, failures: {FALSE}, nights: BOOLEAN, charges: {MaxCharges}, uses: {{}}]
    \cup [phone: {TRUE}, failures: {TRUE}, nights: {TRUE}, charges: {MaxCharges}, uses: {{}}]
    \cup {[phone |-> FALSE, failures |-> u = "cancel", nights |-> FALSE, charges |-> 1, uses |-> {u}] :
            u \in {"interval", "cancel", "change", "callback", "events"}}
    \cup {[phone |-> TRUE, failures |-> TRUE, nights |-> TRUE, charges |-> 1, uses |-> {u}] :
            u \in {"change", "callback"}}

\* A trader the agent is the first to meet; one with a shop on Free, or two on
\* Pro; and one who is back on Free with three.
MCSignedUp ==
  LET With(names) == [owner: {"0244"}, shop: names] IN
  {[shops |-> With({}), pro |-> {}], [shops |-> With({"Esi"}), pro |-> {}],
   [shops |-> With({"Esi", "Ama"}), pro |-> {"0244"}],
   [shops |-> With({"Esi", "Ama", "Akua"}), pro |-> {}]}

-----------------------------------------------------------------------------
\* The first state in which an app rests that is not in use.
Rests(app) ==
  inUse # app =>
    CASE app = "sync"      -> circumstances = CHOOSE w \in MCSyncWorlds : TRUE
      [] app = "checkout"  -> counter.world = CHOOSE w \in MCCheckoutWorlds : TRUE
      [] app = "cache"     -> topic = CHOOSE t \in MCTopics : TRUE
      [] app = "stockroom" -> room.section = "items" /\ ~room.failures
      [] app = "payroll"   -> work = (CHOOSE w \in MCPayrollWorlds : w.hired = {})
      [] app = "wallet"    -> use = CHOOSE u \in MCWalletUses : u.part = "wallets"
      [] app = "lender"    -> reviewer = CHOOSE r \in MCReviewers : TRUE
      [] app = "billing"   -> setting = CHOOSE w \in MCBillingWorlds : TRUE
      [] app = "onboard"   -> network.shops = {}

ClientsInit ==
  /\ inUse \in Apps
  /\ SyncInit /\ Rests("sync")
  /\ CheckoutInit /\ Rests("checkout")
  /\ QueryCacheInit /\ topic \in MCTopics /\ Rests("cache")
  /\ StockroomInit /\ Rests("stockroom")
  /\ PayrollInit /\ Rests("payroll")
  /\ WalletInit /\ Rests("wallet")
  /\ LenderInit /\ Rests("lender")
  /\ BillingInit /\ Rests("billing")
  /\ OnboardInit /\ Rests("onboard")

\* All but the app in use keep their states.
Others(app) ==
  /\ inUse = app
  /\ UNCHANGED inUse
  /\ app # "sync" => UNCHANGED syncVars
  /\ app # "checkout" => UNCHANGED checkoutVars
  /\ app # "cache" => UNCHANGED cacheVars
  /\ app # "stockroom" => UNCHANGED stockroomVars
  /\ app # "payroll" => UNCHANGED payrollVars
  /\ app # "wallet" => UNCHANGED walletVars
  /\ app # "lender" => UNCHANGED deskVars
  /\ app # "billing" => UNCHANGED billingVars
  /\ app # "onboard" => UNCHANGED onboardVars

ClientsNext ==
  \/ Others("sync") /\ SyncNext
  \/ Others("checkout") /\ CheckoutNext
  \/ Others("cache") /\ QueryCacheNext
  \/ Others("stockroom") /\ StockroomNext
  \/ Others("payroll") /\ PayrollNext
  \/ Others("wallet") /\ WalletNext
  \/ Others("lender") /\ LenderNext
  \/ Others("billing") /\ BillingNext
  \/ Others("onboard") /\ OnboardNext

clientsVars ==
  <<inUse, syncVars, checkoutVars, cacheVars, stockroomVars, payrollVars, walletVars,
    deskVars, billingVars, onboardVars>>

ClientsSpec == ClientsInit /\ [][ClientsNext]_clientsVars

\* The app in use keeps the types of its variables.
ClientsTypeOK ==
  /\ inUse \in Apps
  /\ inUse = "sync" => SyncTypeOK
  /\ inUse = "checkout" => CheckoutTypeOK
  /\ inUse = "cache" => QueryCacheTypeOK
  /\ inUse = "stockroom" => StockroomTypeOK
  /\ inUse = "payroll" => PayrollTypeOK
  /\ inUse = "wallet" => WalletTypeOK
  /\ inUse = "lender" => LenderTypeOK
  /\ inUse = "billing" => BillingTypeOK
  /\ inUse = "onboard" => OnboardTypeOK
=============================================================================
