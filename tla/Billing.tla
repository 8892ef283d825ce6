----------------------------------- MODULE Billing -----------------------------------
(***************************************************************************)
(* The plan of a business: the screen where the owner picks it and pays    *)
(* for it in a browser, the screens it opens, and on the server the        *)
(* payment's two witnesses (the app, which asks Paystack, and Paystack's   *)
(* webhook), the nightly charge of the plans that have run out, and the    *)
(* ways to a plan that ask for no payment: the API's change of the plan,   *)
(* the provider's callback and Paystack's subscription events.             *)
(***************************************************************************)
EXTENDS Integers, Sequences, FiniteSets

CONSTANTS
  MonthDays,    \* days a month's payment lasts
  YearDays,     \* days a year's payment lasts
  GraceDays,    \* days between the first failure and the next attempt
  WarningDays,  \* days between the second failure and the next attempt
  LastDay,      \* bound: days
  MaxCharges,   \* bound: charges
  MaxGiven,     \* bound: plans given, when changes and events come
  BillingWorlds \* the circumstances of a behaviour

Tier == {"free", "starter", "pro"}
Interval == {"monthly", "annual"}

ASSUME BillingAssumption ==
  /\ {MonthDays, YearDays, GraceDays, WarningDays, MaxCharges, MaxGiven} \subseteq Nat \ {0}
  /\ MonthDays < YearDays /\ LastDay \in Nat
  /\ BillingWorlds \subseteq [phone: BOOLEAN, failures: BOOLEAN, nights: BOOLEAN, charges: 1..MaxCharges,
                             uses: SUBSET {"interval", "cancel", "change", "callback", "events"}]

VARIABLES
  setting,        \* the circumstances: a mobile money number is known, things fail, days pass, and what is used
  today,        \* the day
  subscription, \* the subscription of the business
  charges,      \* the charges, oldest first, each with the screen's part in it
  workspace,    \* what the app knows of the subscription, and its fetch in flight
  chooser       \* the screen of plans, and the calls it waits for

billingVars == <<setting, today, subscription, charges, workspace, chooser>>

\* What may fail: the calls of the app and the webhooks, or, when days pass,
\* the charges of the night.
CallsFail == setting.failures /\ ~setting.nights

NoDay == -1
Day == {NoDay} \cup Nat
Known == [plan: Tier, interval: Interval, status: {"active", "past_due"}, ending: BOOLEAN]
Choice == [tier: Tier, interval: Interval]

\* History: "since" are the plans the business has had since the app was told
\* that the charge had activated its plan ("told" is that alert), and "given" those
\* it got without paying for them.
ChargeRow == [kind: {"upgrade", "renewal"}, tier: Tier, interval: Interval,
           status: {"pending", "success", "failed"}, paid: BOOLEAN, news: BOOLEAN,
           stage: {"none", "browsing", "checking", "refreshing", "told", "closed"}, since: SUBSET Tier]

BillingTypeOK ==
  /\ setting \in BillingWorlds /\ today \in 0..LastDay
  /\ subscription \in [plan: Tier, interval: Interval, status: {"active", "past_due"}, ending: BOOLEAN,
                       until: Day, retries: 0..3, retry: Day, rewarded: BOOLEAN, given: SUBSET Tier]
  /\ charges \in Seq(ChargeRow) /\ Len(charges) <= MaxCharges
  /\ workspace \in [state: {"loading", "data", "error"}, known: Known, limits: Tier,
                    fetching: BOOLEAN, readKnown: SUBSET Known, readLimits: SUBSET Tier]
  /\ chooser \in [interval: Interval, asked: SUBSET Choice, cancelling: BOOLEAN]

BillingInit ==
  /\ setting \in BillingWorlds /\ today = 0
  /\ subscription = [plan |-> "free", interval |-> "monthly", status |-> "active", ending |-> FALSE,
                     until |-> NoDay, retries |-> 0, retry |-> NoDay, rewarded |-> FALSE, given |-> {}]
  /\ charges = << >>
  /\ workspace = [state |-> "loading",
                  known |-> [plan |-> "free", interval |-> "monthly", status |-> "active", ending |-> FALSE],
                  limits |-> "free", fetching |-> TRUE, readKnown |-> {}, readLimits |-> {}]
  /\ chooser = [interval |-> "monthly", asked |-> {}, cancelling |-> FALSE]

-----------------------------------------------------------------------------
(* The subscription, on the server *)

Period(interval) == IF interval = "annual" THEN YearDays ELSE MonthDays
Later(d, e) == IF d < e THEN e ELSE d

\* Mutant: a renewal leaves the date of the next attempt.
Renewed_retrying(s) ==
  [s EXCEPT !.until = Later(s.until, today) + Period(s.interval), !.status = "active", !.retries = 0]

\* A paid period begins where the last one ends, or today.
Renewed(s) ==
  [s EXCEPT !.until = Later(s.until, today) + Period(s.interval), !.status = "active",
            !.retries = 0, !.retry = NoDay]

\* A payment confirmed: the plan it was for, if it is an upgrade, and a period
\* more.  Whether the charge had been confirmed before is not asked, and a
\* cancellation stays.
Confirmed(c, s) ==
  Renewed(IF charges[c].kind = "upgrade"
            THEN [s EXCEPT !.plan = charges[c].tier, !.interval = charges[c].interval]
            ELSE s)

\* A charge that failed: a time of grace, a last warning, and the free plan.
Dunned(s, day) ==
  LET f == [s EXCEPT !.status = "past_due", !.retries = @ + 1] IN
  CASE f.retries = 1 -> [f EXCEPT !.retry = day + GraceDays]
    [] f.retries = 2 -> [f EXCEPT !.retry = day + WarningDays]
    [] OTHER -> [f EXCEPT !.retries = 3, !.plan = "free", !.interval = "monthly", !.ending = TRUE, !.retry = NoDay]

Changed(s, tier, interval) ==
  [s EXCEPT !.plan = tier, !.interval = interval, !.status = "active", !.ending = FALSE]

\* The plans had since, in the history of every charge that was activated.
Had(cs, tier) == [c \in DOMAIN cs |-> IF cs[c].since = {} THEN cs[c] ELSE [cs[c] EXCEPT !.since = @ \cup {tier}]]

\* The webhook of a charge that was paid, or the provider's callback.  It is
\* processed once; when that fails it is not sent again.
ConfirmationArrives ==
  /\ \E c \in DOMAIN charges :
       /\ charges[c].news
       /\ \/ LET s == Confirmed(c, subscription) IN
             /\ subscription' = s
             /\ charges' = Had([charges EXCEPT ![c].news = FALSE, ![c].status = "success"], s.plan)
          \/ /\ CallsFail
             /\ charges' = [charges EXCEPT ![c].news = FALSE]
             /\ UNCHANGED subscription
  /\ UNCHANGED <<setting, today, workspace, chooser>>

\* The owner pays: on Paystack's page, or by approving a renewal on the phone.
Pay ==
  /\ \E c \in DOMAIN charges :
       /\ ~charges[c].paid
       /\ charges[c].kind = "upgrade" => charges[c].stage # "none"
       /\ charges[c].kind = "renewal" => charges[c].status = "success"
       /\ charges' = [charges EXCEPT ![c].paid = TRUE, ![c].news = TRUE]
  /\ UNCHANGED <<setting, today, subscription, workspace, chooser>>

\* What the nightly task selects: the plans that have run out, and those whose
\* next attempt is due.
DueOn(day) ==
  /\ subscription.plan # "free" /\ ~subscription.ending
  /\ \/ subscription.until # NoDay /\ subscription.until <= day
     \/ subscription.retry # NoDay /\ subscription.retry <= day

\* A charge the provider accepts counts as paid.
ChargeDue ==
  IF ~setting.phone THEN subscription' = Dunned(subscription, today') /\ charges' = Had(charges, subscription'.plan)
  ELSE /\ Len(charges) < setting.charges
       /\ \E accepted \in {TRUE, ~setting.failures} :
            LET s == [subscription EXCEPT !.until = Later(subscription.until, today')]
                charge == [kind |-> "renewal", tier |-> s.plan, interval |-> s.interval,
                           status |-> IF accepted THEN "success" ELSE "failed", paid |-> FALSE, news |-> FALSE,
                           stage |-> "none", since |-> {}] IN
            /\ subscription' = IF accepted THEN Renewed(s) ELSE Dunned(subscription, today')
            /\ charges' = Had(Append(charges, charge), subscription'.plan)

\* Calls of the app are answered before the night.
NightPasses ==
  /\ setting.nights /\ today < LastDay
  /\ ~workspace.fetching /\ chooser.asked = {} /\ ~chooser.cancelling
  /\ today' = today + 1
  /\ IF DueOn(today') THEN ChargeDue ELSE UNCHANGED <<subscription, charges>>
  /\ UNCHANGED <<setting, workspace, chooser>>

\* A referral's reward: a month of the starter plan for who has none.
GrantPremiumMonth ==
  /\ setting.nights
  /\ subscription.plan = "free" /\ ~subscription.rewarded
  /\ subscription' = [subscription EXCEPT !.plan = "starter", !.status = "active",
                                          !.until = today + MonthDays, !.rewarded = TRUE,
                                          !.given = @ \cup {"starter"}]
  /\ charges' = Had(charges, "starter")
  /\ UNCHANGED <<setting, today, workspace, chooser>>

\* A plan that nobody is asked to pay for.
Gives(s) ==
  /\ Cardinality(subscription.given) < MaxGiven
  /\ subscription' = [s EXCEPT !.given = @ \cup {s.plan}]
  /\ charges' = Had(charges, s.plan)
  /\ UNCHANGED <<setting, today, workspace, chooser>>

Offered == {c \in Choice : c.tier = "free" => c.interval = "monthly"}

\* POST /billing/subscription/change: any plan at once, unless it is there already.
ChangePlan ==
  /\ "change" \in setting.uses
  /\ \E c \in Offered :
       /\ <<subscription.plan, subscription.interval>> # <<c.tier, c.interval>>
       /\ Gives(Changed(subscription, c.tier, c.interval))

\* An event of a subscription at Paystack; what was paid until stays.
HandlePaystackEvent ==
  /\ "events" \in setting.uses
  /\ \E c \in Offered :
       Gives([subscription EXCEPT
         !.plan = c.tier, !.interval = c.interval, !.ending = (c.tier = "free"),
         !.status = IF c.tier = "free" THEN @ ELSE "active"])

\* Bound: how far ahead a callback that is repeated extends the period.
AheadBound == LastDay + YearDays

\* POST /billing/callback is believed, whether or not the charge was paid, and as
\* often as it comes.
CallbackArrives ==
  /\ "callback" \in setting.uses /\ subscription.until < AheadBound
  /\ \E c \in DOMAIN charges :
       LET s == Confirmed(c, subscription) IN
       /\ subscription' = IF charges[c].paid \/ charges[c].kind = "renewal" THEN s
                          ELSE [s EXCEPT !.given = @ \cup {s.plan}]
       /\ charges' = Had([charges EXCEPT ![c].status = "success"], s.plan)
  /\ UNCHANGED <<setting, today, workspace, chooser>>

-----------------------------------------------------------------------------
(* What the app knows of it *)

Unread(w) == [w EXCEPT !.fetching = TRUE, !.readKnown = {}, !.readLimits = {}]

\* Another screen asks for the workspace.
ReadWorkspace ==
  /\ ~setting.nights /\ ~workspace.fetching
  /\ workspace' = Unread(workspace)
  /\ UNCHANGED <<setting, today, subscription, charges, chooser>>

\* Its parts are read by requests of their own.
ReadSubscription ==
  /\ workspace.fetching /\ workspace.readKnown = {}
  /\ workspace' = [workspace EXCEPT !.readKnown =
       {[plan |-> subscription.plan, interval |-> subscription.interval,
         status |-> subscription.status, ending |-> subscription.ending]}]
  /\ UNCHANGED <<setting, today, subscription, charges, chooser>>

ReadPlanUsage ==
  /\ workspace.fetching /\ workspace.readLimits = {}
  /\ workspace' = [workspace EXCEPT !.readLimits = {subscription.plan}]
  /\ UNCHANGED <<setting, today, subscription, charges, chooser>>

\* The screen that waited for the fetch goes on when it is over, or is replaced
\* by a newer one: "Plan activated!", if the plan was.
Released(cs) ==
  [c \in DOMAIN cs |->
     IF cs[c].stage # "refreshing" THEN cs[c]
     ELSE [cs[c] EXCEPT !.stage = IF cs[c].since # {} THEN "told" ELSE "closed"]]

WorkspaceRead ==
  /\ workspace.fetching
  /\ \/ /\ workspace.readKnown # {} /\ workspace.readLimits # {}
        /\ \E k \in workspace.readKnown, t \in workspace.readLimits :
             workspace' = [workspace EXCEPT !.state = "data", !.known = k, !.limits = t, !.fetching = FALSE]
     \/ /\ CallsFail
        /\ workspace' = [workspace EXCEPT !.state = "error", !.fetching = FALSE]
  /\ charges' = Released(charges)
  /\ UNCHANGED <<setting, today, subscription, chooser>>

Unlimited == -1
Feature == {"payroll", "team", "tax_summary", "gra_submission", "add_business"}

\* The limits of a plan; what is included or not counts as 1 or 0.
PlanLimit(tier, feature) ==
  CASE feature = "payroll" -> [free |-> 0, starter |-> 3, pro |-> Unlimited][tier]
    [] feature = "team" -> [free |-> 1, starter |-> 1, pro |-> 6][tier]
    [] feature = "tax_summary" -> [free |-> 0, starter |-> 1, pro |-> 1][tier]
    [] feature = "gra_submission" -> [free |-> 0, starter |-> 0, pro |-> 1][tier]
    [] feature = "add_business" -> [free |-> 1, starter |-> 1, pro |-> 3][tier]

\* A business is added below the limit, and the owner has one.
Allows(limit, feature) == IF feature = "add_business" THEN 1 < limit ELSE limit > 0

\* The screens of a feature are shown as long as nothing is known.
GateOpen(feature) == workspace.state # "data" \/ Allows(PlanLimit(workspace.limits, feature), feature)

LockedScreens == {feature \in Feature : ~GateOpen(feature)}

-----------------------------------------------------------------------------
(* The screen of plans *)

CurrentPlan(tier, interval) ==
  /\ workspace.known.plan = tier
  /\ tier = "free" \/ workspace.known.interval = interval

ChooseInterval ==
  /\ "interval" \in setting.uses /\ workspace.state = "data"
  /\ \E i \in Interval \ {chooser.interval} : chooser' = [chooser EXCEPT !.interval = i]
  /\ UNCHANGED <<setting, today, subscription, charges, workspace>>

HandleSelect ==
  /\ workspace.state = "data" /\ chooser.asked = {}
  /\ \E tier \in Tier :
       /\ ~CurrentPlan(tier, chooser.interval)
       /\ chooser' = [chooser EXCEPT !.asked = {[tier |-> tier, interval |-> chooser.interval]}]
  /\ UNCHANGED <<setting, today, subscription, charges, workspace>>

\* A mutation that succeeds reads the workspace again.
Invalidated(cs) ==
  /\ workspace' = Unread(workspace)
  /\ charges' = Released(cs)

\* The free plan at once, unless it is there already.
ChangeToFree ==
  IF subscription.plan = "free"
    THEN UNCHANGED <<subscription, charges, workspace>>
    ELSE /\ subscription' = Changed(subscription, "free", "monthly")
         /\ \/ Invalidated(Had(charges, "free"))
            \/ (CallsFail /\ charges' = Had(charges, "free") /\ UNCHANGED workspace)

\* Mutant: a plan that has no page to pay on is taken for one that costs nothing.
Subscribe_unpaid(choice) ==
  /\ Len(charges) < setting.charges
  /\ \E page \in {TRUE, ~CallsFail} :
       LET charge == [kind |-> "upgrade", tier |-> choice.tier, interval |-> choice.interval,
                      status |-> "pending", paid |-> FALSE, news |-> FALSE,
                      stage |-> IF page THEN "browsing" ELSE "none", since |-> {}] IN
       /\ subscription' = IF page THEN subscription ELSE Changed(subscription, choice.tier, choice.interval)
       /\ Invalidated(Append(charges, charge))

\* A paid plan awaits its payment, on Paystack's page; it may have none.
Subscribe(choice) ==
  /\ Len(charges) < setting.charges
  /\ \E page \in {TRUE, ~CallsFail}, told \in {TRUE, ~CallsFail} :
       LET charge == [kind |-> "upgrade", tier |-> choice.tier, interval |-> choice.interval,
                      status |-> "pending", paid |-> FALSE, news |-> FALSE,
                      stage |-> IF page /\ told THEN "browsing" ELSE "none", since |-> {}] IN
       IF told THEN Invalidated(Append(charges, charge))
               ELSE charges' = Append(charges, charge) /\ UNCHANGED workspace
  /\ UNCHANGED subscription

PlanSelected ==
  /\ \E choice \in chooser.asked : IF choice.tier = "free" THEN ChangeToFree ELSE Subscribe(choice)
  /\ chooser' = [chooser EXCEPT !.asked = {}]
  /\ UNCHANGED <<setting, today>>

SelectionFails ==
  /\ CallsFail /\ chooser.asked # {}
  /\ chooser' = [chooser EXCEPT !.asked = {}]
  /\ UNCHANGED <<setting, today, subscription, charges, workspace>>

\* The browser is closed, or is reported open and may stay so.
BrowserReturns ==
  /\ ~setting.nights
  /\ \E c \in DOMAIN charges :
       charges[c].stage = "browsing" /\ charges' = [charges EXCEPT ![c].stage = "checking"]
  /\ UNCHANGED <<setting, today, subscription, workspace, chooser>>

\* The app asks whether the charge was paid, which activates the plan unless
\* it is active already, and reads the workspace again whatever the answer.
VerifyAndActivate ==
  /\ \E c \in DOMAIN charges :
       /\ charges[c].stage = "checking"
       /\ \/ /\ charges[c].paid \/ charges[c].status = "success"
             /\ subscription' = IF charges[c].status = "success" THEN subscription ELSE Confirmed(c, subscription)
             /\ \E since \in {{subscription'.plan}} \cup (IF CallsFail THEN {{}} ELSE {}) :
                  charges' = Had([Released(charges) EXCEPT ![c].stage = "refreshing", ![c].status = "success",
                                                           ![c].since = since], subscription'.plan)
          \/ /\ CallsFail \/ ~(charges[c].paid \/ charges[c].status = "success")
             /\ charges' = [Released(charges) EXCEPT ![c].stage = "refreshing"]
             /\ UNCHANGED subscription
  /\ workspace' = Unread(workspace)
  /\ UNCHANGED <<setting, today, chooser>>

HandleCancel ==
  /\ "cancel" \in setting.uses /\ workspace.state = "data" /\ ~chooser.cancelling
  /\ workspace.known.status = "active" /\ workspace.known.plan # "free" /\ ~workspace.known.ending
  /\ chooser' = [chooser EXCEPT !.cancelling = TRUE]
  /\ UNCHANGED <<setting, today, subscription, charges, workspace>>

Cancelled ==
  /\ chooser.cancelling
  /\ chooser' = [chooser EXCEPT !.cancelling = FALSE]
  /\ \/ /\ subscription.plan # "free"
        /\ subscription' = [subscription EXCEPT !.ending = TRUE]
        /\ Invalidated(charges) \/ (CallsFail /\ UNCHANGED <<charges, workspace>>)
     \/ /\ subscription.plan = "free" \/ CallsFail
        /\ UNCHANGED <<subscription, charges, workspace>>
  /\ UNCHANGED <<setting, today>>

-----------------------------------------------------------------------------
BillingNext ==
  \/ ConfirmationArrives \/ Pay \/ NightPasses \/ GrantPremiumMonth
  \/ ChangePlan \/ HandlePaystackEvent \/ CallbackArrives
  \/ ReadWorkspace \/ ReadSubscription \/ ReadPlanUsage \/ WorkspaceRead
  \/ ChooseInterval \/ HandleSelect \/ PlanSelected \/ SelectionFails \/ BrowserReturns \/ VerifyAndActivate
  \/ HandleCancel \/ Cancelled

BillingSpec == BillingInit /\ [][BillingNext]_billingVars

-----------------------------------------------------------------------------
(* What they promise *)

\* The app's way to a plan, the renewals, the failures that are counted and the
\* confirmations of a charge, in whatever order they meet, lead to no plan that the
\* business did not pay for; it may be given one: as a reward, by a change through
\* the API, by a callback or by an event of Paystack's.
PlanWasPaid ==
  subscription.plan # "free" =>
    \/ \E c \in DOMAIN charges : charges[c].tier = subscription.plan /\ charges[c].paid
    \/ subscription.plan \in subscription.given

\* Once the owner is told "Plan activated!", the app shows, and gates its
\* screens by, a plan the business has had since, unless it knows that it does
\* not know.
ActivatedIsShown ==
  \A c \in DOMAIN charges :
    charges[c].stage = "told" /\ workspace.state = "data" /\ ~workspace.fetching =>
      /\ workspace.known.plan \in charges[c].since
      /\ \A feature \in LockedScreens :
           \E tier \in charges[c].since : ~Allows(PlanLimit(tier, feature), feature)

\* The plan the app gates its screens by is one the business had, and paid for or
\* was given.
PlanPaidAndShown == PlanWasPaid /\ ActivatedIsShown

\* A renewal is charged, or counted as failed, only when what was paid for has
\* run out: an attempt that had been put off is forgotten when the owner pays
\* in the meantime.  A referral's reward does not forget it.
ChargedWhenRunOut ==
  [][\/ Len(charges') > Len(charges) /\ charges'[Len(charges')].kind = "renewal"
     \/ subscription'.retries > subscription.retries
     => subscription.rewarded \/ subscription.until <= today']_billingVars
=============================================================================
