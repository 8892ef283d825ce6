---------------------------------- MODULE AgentOnboard ----------------------------------
(* A field agent signs a trader up on the phone: one form, five calls, and  *)
(* a server that pays the agent for each shop it attributes to the agent.   *)
(* Any of the calls may fail, or do its work and lose its reply; the agent  *)
(* then corrects the form and starts again from the first call.             *)
EXTENDS Integers, FiniteSets

CONSTANTS
  Traders,     \* the phone numbers of traders, as the agent types them
  ShopNames,
  MaxTries,    \* bound: how often the agent submits the form
  SignedUp     \* the shops there may be before the agent comes, and who is on the Pro plan

ASSUME OnboardAssumption ==
  /\ IsFiniteSet(Traders) /\ IsFiniteSet(ShopNames) /\ MaxTries \in Nat
  /\ \A before \in SignedUp :
       /\ before.shops \subseteq [owner: Traders, shop: ShopNames]
       /\ before.pro \subseteq {shop.owner : shop \in before.shops}
       /\ \A owner \in Traders : Cardinality({shop \in before.shops : shop.owner = owner}) <= 3

VARIABLES traderForm, chain, report, network, tries

onboardVars == <<traderForm, chain, report, network, tries>>

\* What the picker offers, and what the server's schema lets through.
PickerTypes == {"market_stall", "retail_shop"}
BusinessTypes == {"market_stall", "shop"}

\* How many shops a plan allows: one on Free and Starter, three on Pro.
BusinessesAllowed(onPro) == IF onPro THEN 3 ELSE 1

EmptyForm == [phone |-> "", shop |-> "", type |-> "market_stall", card |-> FALSE]

Idle == [step |-> "idle", form |-> EmptyForm]

TraderShops == [owner: Traders, shop: ShopNames]
ShopOf(form) == [owner |-> form.phone, shop |-> form.shop]

\* A trader may have signed up, with shops, before the agent came.  One who is
\* back from Pro on Free keeps the shops of the larger plan.
OnboardInit ==
  /\ traderForm = EmptyForm
  /\ chain = Idle
  /\ report = [kind |-> "none"]
  /\ \E before \in SignedUp :
       network = [users |-> {shop.owner : shop \in before.shops}, shops |-> before.shops,
                  pro |-> before.pro, referrals |-> {}, wallets |-> {}, active |-> {}]
  /\ tries = 0

-----------------------------------------------------------------------------
\* The form.  Its fields stay open while the calls are under way.
TypeTrader ==
  /\ report.kind # "added"
  /\ \E phone \in Traders, shop \in ShopNames, card \in BOOLEAN :
       traderForm' = [traderForm EXCEPT !.phone = phone, !.shop = shop, !.card = card]
  /\ UNCHANGED <<chain, report, network, tries>>

PickType ==
  /\ report.kind # "added"
  /\ \E type \in PickerTypes : traderForm' = [traderForm EXCEPT !.type = type]
  /\ UNCHANGED <<chain, report, network, tries>>

SubmitTrader ==
  /\ report.kind # "added" /\ chain = Idle
  /\ traderForm.phone # "" /\ traderForm.shop # ""
  /\ tries < MaxTries
  /\ tries' = tries + 1
  /\ chain' = [step |-> "start", form |-> traderForm]
  /\ report' = [kind |-> "none"]
  /\ UNCHANGED <<traderForm, network>>

\* A trader with a shop takes the Pro plan, in an app of the trader's own.
TraderUpgrades ==
  /\ \E shop \in network.shops : network' = [network EXCEPT !.pro = @ \cup {shop.owner}]
  /\ UNCHANGED <<traderForm, chain, report, tries>>

-----------------------------------------------------------------------------
\* The server's side of each call: what it refuses, and what it leaves behind.
Owned(owner) == {shop \in network.shops : shop.owner = owner}

\* Mutant: one shop too many is allowed.
OverLimit_one_more(owner) == Cardinality(Owned(owner)) > BusinessesAllowed(owner \in network.pro)

\* The plan asked is that of the trader's first shop; without a shop there is no limit.
OverLimit(owner) ==
  Owned(owner) # {} /\ Cardinality(Owned(owner)) >= BusinessesAllowed(owner \in network.pro)

\* The referral of a shop is found, or made, and the agent paid for it.
Attributed(net, shop) == [net EXCEPT !.referrals = @ \cup {shop}]

\* The limit comes first and is not a conflict; the same name, once below the
\* limit, would be one, and the shop that has it would be used.
CreateTraderBusiness(form) ==
  IF form.type \notin BusinessTypes \/ OverLimit(form.phone) THEN {}
  ELSE {Attributed([network EXCEPT !.shops = @ \cup {ShopOf(form)}], ShopOf(form))}

\* The schema of the KYC call demands a registration number the app never sends.
SubmitTraderKyc(form) == {}

Served(step, form) ==
  CASE step = "start"    -> {[network EXCEPT !.users = @ \cup {form.phone}]}
    [] step = "business" -> CreateTraderBusiness(form)
    [] step = "wallet"   -> {[network EXCEPT !.wallets = @ \cup {ShopOf(form)}]}
    [] step = "kyc"      -> SubmitTraderKyc(form)
    [] step = "complete" -> {[Attributed(network, ShopOf(form)) EXCEPT !.active = @ \cup {ShopOf(form)}]}

\* KYC is submitted only if there is a card or a TIN to submit.
StepAfter(step, form) ==
  CASE step = "start"    -> "business"
    [] step = "business" -> "wallet"
    [] step = "wallet"   -> IF form.card THEN "kyc" ELSE "complete"
    [] step = "kyc"      -> "complete"
    [] step = "complete" -> "end"

OnboardTraderFull ==
  /\ chain # Idle
  /\ \E after \in Served(chain.step, chain.form) :
       LET next == StepAfter(chain.step, chain.form) IN
       /\ network' = after
       /\ IF next = "end"
          THEN /\ chain' = Idle
               /\ report' = [kind |-> "added", shop |-> ShopOf(chain.form)]
          ELSE /\ chain' = [chain EXCEPT !.step = next]
               /\ UNCHANGED report
  /\ UNCHANGED <<traderForm, tries>>

\* A call is refused, fails, or loses its reply: the rest is not called.
OnboardingFailed ==
  /\ chain # Idle
  /\ network' \in Served(chain.step, chain.form) \cup {network}
  /\ chain' = Idle
  /\ report' = [kind |-> "failed"]
  /\ UNCHANGED <<traderForm, tries>>

\* "Onboard another trader", or "Collect KYC documents", which only resets.
OnboardAnother ==
  /\ report.kind = "added"
  /\ traderForm' = EmptyForm
  /\ report' = [kind |-> "none"]
  /\ UNCHANGED <<chain, network, tries>>

OnboardNext ==
  \/ TypeTrader \/ PickType \/ SubmitTrader
  \/ TraderUpgrades \/ OnboardTraderFull \/ OnboardingFailed \/ OnboardAnother

OnboardSpec == OnboardInit /\ [][OnboardNext]_onboardVars

-----------------------------------------------------------------------------
Forms == [phone: Traders \cup {""}, shop: ShopNames \cup {""}, type: PickerTypes, card: BOOLEAN]

\* Every variable keeps its type.
OnboardTypeOK ==
  /\ traderForm \in Forms
  /\ chain \in [step: {"idle", "start", "business", "wallet", "kyc", "complete"}, form: Forms]
  /\ network.users \subseteq Traders /\ network.pro \subseteq Traders
  /\ network.shops \subseteq TraderShops /\ network.referrals \subseteq network.shops
  /\ network.wallets \subseteq network.shops /\ network.active \subseteq network.shops
  /\ tries \in 0..MaxTries

\* However often replies are lost, the shop's name is corrected and the form is
\* sent again, a trader whose shop the agent is paid for has no more shops than
\* the trader's plan allows: the agent is paid once, unless the trader is on Pro.
\* For a trader on Pro, a lost reply and a corrected name do pay twice.
PaidWithinPlan ==
  \A paid \in network.referrals :
    Cardinality(Owned(paid.owner)) <= BusinessesAllowed(paid.owner \in network.pro)

\* The agent is told that a trader was added only when the shop is active,
\* attributed to the agent, and has a wallet.
AddedIsReady ==
  report.kind = "added" =>
    report.shop \in network.active \cap network.referrals \cap network.wallets

\* Traders are added within their plans, and completely.
AddedWithinPlan == PaidWithinPlan /\ AddedIsReady
=============================================================================
