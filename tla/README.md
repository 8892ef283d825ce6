# SMEflow: a verification project

SMEflow is a back office for small shops in Ghana: a FastAPI monolith
(`src/api`, PostgreSQL, Redis, Celery, Paystack) with a Next.js admin site
(`src/Web`) and an Expo app (`src/mobile`).  This directory holds TLA+ models of
the services that move money and stock and of the clients that ask for it (the
session, the offline database and the screens of the app and the portals), TLC
configurations that check them on small instances, and proofs, checked by TLAPS,
that hold for every instance.

    cd tla
    tlc -workers 2 -config MCMerchantSettlement_nominal.cfg MCMerchantSettlement
    tlc -workers 2 -config MCClients_clients.cfg MCClients
    tlapm MerchantSettlementProofs.tla

## Inventory

All services are Python classes over one SQLAlchemy session.  An API request is
one transaction: `get_db` (`api/apps/api/core/database.py:53`) commits after the
handler and rolls back on an exception.  Isolation is READ COMMITTED; only
`referral/service.py:106` takes a row lock, and balances are read, computed in
Python and written back as values.  Celery tasks run on a Beat schedule, with
late acknowledgement, and may die between two of their own commits.  Paystack is
reached by HTTP inside the transaction, and reports back by webhooks that are
deduplicated in Redis.

| Part | State | Operations | What is hard | What makes it correct |
| --- | --- | --- | --- | --- |
| settlements | `Business.unsettled_balance`, `total_settled`, ledger entries, settlement rows; Paystack's transfers | credit, request, approve, cancel, force, retry, daily task, webhooks, reconcile | lost replies, repeated and late webhooks, crash between commit and transfer, checks that go stale | funds stay covered, one credit and one debit each, one settlement in flight, a completed one was paid and stays so, processing ends |
| online sales | payments, sales, reservations, stock, Redis keys | create intent, verify, charge webhook, counter sale, void, adjust | polls racing webhooks, expiry during payment, swallowed exceptions, dropped events | nothing sold unpaid, sale and credit together, goods leave once, paid means sold |
| credit sales | receivables, repayment intents, mixed payments | record payment, reconcile, repayment intent | partial payments applied twice or clamped | balance due equals what is owed |
| credit and lending | loan request, disbursement transfer, instalments, lender revenue | apply, approve, confirm, disburse, retry, collect, default | late webhooks after a retry, two ways to collect | money is sent once, only what was sent is lent, a loan is closed exactly when it is settled, an instalment is given up last |
| agent network | commissions, payout batches, attributions | onboard, hold, release, four payout paths, finalize | paths that overlap, bulk failures, onboarding that stops half way | a commission is paid once, a trader is paid for within the plan |
| billing | subscription, billing transactions | choose, pay, verify, webhook, renew, dunning, reward | two witnesses of one payment, renewals beside payments, pending counted as paid | no plan without a payment or a gift, charged only when run out |
| payroll | runs, payslips, transfers | run, execute in bulk, pay one | bulk and single payment of one slip, replies lost after transfers left | nobody is paid twice without being asked |
| invoicing | invoice numbers, payments | generate, pay, void | counting to number | numbers unique |
| referral | invites, rewards | invite, register, reward | concurrent redemption | one reward per invitee |
| idempotency, dispatch, breaker | Redis keys | get, set, claim, open | get and set are two steps; set before commit | an operation's effect happens once |
| business, KYC, admin | profile columns | verify, suspend, configure | gates that change under a running settlement | see settlements |
| auth | token pairs, memberships | sign in, refresh, choose a business | a refresh token is used once | see mobile session |
| USSD, chat, notifications, tax, analytics | messages, aggregates | request-local | little shared state | not modelled |
| mobile session | token pair, business, role, profile, requests in flight | sign in, refresh, switch, create, sign out, redirect, restart | shared refresh after 401s, late answers after a switch, three guards | a refresh token is used once, nobody waits forever, session and calls are of the chosen business |
| offline database and sync | local tables, queue, sync in flight | sell, edit, adjust, push, pull, wipe | lost answers, switches, edits during a sync | queued sales arrive once and in their shop, phone and server agree after a sync |
| checkout screens | cart, stage, link, receipt | record, link, verify, QR, credit terms | late answers, two ways to verify | sold once, receipt of that sale |
| query cache | cached answers, fetches and mutations in flight | open, fetch, mutate, drop, switch | answers that come after a switch or a mutation | what is shown as up to date is |
| stockroom, payroll, wallet, plan, lender, onboarding screens | forms, what was last read, calls in flight | enter, save, pay, decide | late answers, forms that change under them, lost replies | done once, and as the form said |

Interactions: a charge webhook (payments) finalizes a sale (sales), which takes
stock (inventory), clears reservations and credits the wallet (settlements); a
transfer webhook is offered in turn to settlements, loans and agent payouts,
told apart by reference; the app's sales, payouts, payroll runs, plans and
traders, and the lender's decisions, are calls of these services whose answers
may be late or lost; a switch of the business changes session, local database
and query cache at once; KYC, suspension and MoMo verification (business, kyc,
admin) gate settlements; the nightly tasks repair credits and send settlements.

`PROJECT.json` lists every component with its sources and every hazard at its
line.

## The plan

1. *Done:* `MerchantSettlement` and its abstraction `SettlementWallet`; proofs in
   `MerchantSettlementProofs`.
2. *Done:* `SaleIntents` and its abstraction `GoodsShelf`; proofs in
   `SaleIntentsProofs`.  Both rest on `Sums`, the lemmas about sums over sets.
3. *Done:* `LoanService` and its abstraction `LoanContract`; proofs in
   `LoanServiceProofs`.
4. *Done:* the clients: `ClientSession`; and `OfflineSync`, `Checkout`,
   `QueryCache`, `Stockroom`, `Payroll`, `WalletScreen`, `LenderDesk`, `Billing`
   and `AgentOnboard`, checked together by `MCClients`.  `Payroll`, `Billing` and
   `AgentOnboard` carry the services behind their screens; proofs in
   `ClientSessionProofs`, `PayProofs` (payroll, wallet, plan, the lender's page and
   the agent's onboarding), `ShopProofs` (query cache, stockroom and checkout) and
   `ClientsProofs` (the sync, and the apps side by side).
5. `RowSessions`: two sessions at READ COMMITTED over one balance and one stock
   row, absolute writes, idempotency keys read and set around the transaction.
   It carries what 1 and 2 leave out by taking a request as one step.
6. `AgentCommissions`: hold, release and the four payout paths.
7. `CreditSales`: receivables, repayment intents, mixed payments and
   `reconcile_confirmed_payment`; composed with `SaleIntents` through the
   payment row.
8. Referral and invoicing, as time allows.

The checks are kept small: a run that only shows a known disagreement gives way
when a new module needs its place, and is described in the text instead.  No
module a proof reaches uses a RECURSIVE operator: sums are folds of the community
modules, and `Sums` proves what a fold gains or loses with one element.  It does
so without induction over a predicate, which the provers cannot instantiate: of
the subsets for which a lemma failed it takes a smallest one
(`FS_StrictSubsetOrderingWellFounded`) and refutes that.

## MerchantSettlement

One merchant.  Code: `settlements/service.py`, `workers/tasks/payout_tasks.py`,
`payments/paystack_handlers.py`, and what they need of `kyc`, `business`,
`admin` and the Paystack client.

| TLA+ | Code |
| --- | --- |
| `unsettled_balance`, `total_settled` | the columns of `Business` |
| `ledger` | `merchant_ledger_entries` of the merchant |
| `row` | `merchant_settlements`, by row id; `coded`: is `paystack_transfer_code` set |
| `profile` | KYC status, payout switch and threshold, MoMo verification, suspension |
| `outcome` | the Python list `all_outcomes` of a running daily task |
| `reconcile_due` | reconcile tasks queued by the daily task |
| `transfer`, `events` | Paystack |
| `answered` | the webhooks' deduplication keys in Redis |
| `overtaken` | history: settlements one of whose webhooks came before the commit that would have let it find its row |
| `held`, `credited` | history: total in processing, total credited net |

Amounts are pesewas.  The Paystack reference is built from the row id, so a
settlement, its reference and its transfer share one name.  A call to Paystack
inside a request either happens with the rest of the transaction, is refused
(nothing happens), or is accepted while its reply is lost (the transaction rolls
back).  The daily task is split where the code commits: rows and holds, bulk
transfer, outcomes.  A webhook may arrive late and in any order.  Its key is set
before it is handled (`webhook_security.py:77`), so a delivery after the first is
dropped, also when the first one found no row; two that come at once both pass, as
does one after the key's seven days (hazard `repeat`).

Between a call to Paystack and the commit of its request a webhook may come
(hazard `overtaken`).  Nothing else is allowed in between, so the call, the webhook
and the commit are one step with both effects (`Overtake`, `Commit`).  A request or a
forced payout has not committed its row: the webhook finds none, is answered, and
the settlement stays in processing for good.  An approval has: the webhook
completes or fails the row, and the commit writes "processing" and the balance it had
read over that.  A retry has changed the row before the call, so that the webhook
that finds it waits for the commit; the other verdict is dropped.

`Hazards` switches trouble on: forced payouts, retries, lost replies, reversals,
webhooks that overtake a commit or are repeated, workers that die.  `MutableGates`
is a bound: the columns of the profile that change in a run; `nominal` changes all
three.  `MaxLedger` stops retries.  `KeywordMatches` says whether the callers of
`confirm_settlement` and `fail_settlement` pass a keyword the functions have.  **In
the code it is FALSE**: they pass `transfer_code=`, the parameter is
`paystack_transfer_code`, the call raises.  The run `keyword` checks the code as it
stands; the others set it to TRUE and show what the service does once the argument
is named right.  The safety proofs hold for both values.

Runs (two settlements and one or two collections are enough for every overlap:
one in flight, one starting; the second collection matters for the fee of a
second plan and for crediting in between):

| Run | Shows |
| --- | --- |
| `nominal` | without hazards but repeated webhooks: ledger and balance explain each other and never more is sent than was credited (`LedgerBacksTransfers`), the books are exact (`NominalInv`), and `SettlementWallet` is implemented |
| `hazards` | with all hazards: types, funds covered, one credit and one debit and only for what was paid (`BookedOnce`), one in flight, completed is final |
| `liveness` | processing ends, unless a webhook overtook the commit, with retries, lost replies and reversals; one amount, no forced payouts, and no crash, which fairness excludes |
| `keyword` | violation: with the wrong keyword processing never ends |

Fairness (`FairSpec`): Paystack decides on every transfer and sends each webhook
until it is answered once, whatever that answer did; the daily task, once it has
committed, runs on (Celery redelivers, but a redelivered run skips a merchant in
flight, so this excludes the crash hazard).  Nothing is assumed of merchants and
admins, nor of the reconcile task.

`ProcessingEnds` and `DebitedOnce` speak of the settlements that were not overtaken:
an overtaken one may stay in processing for ever, or have been debited by the webhook
and go on.

Seen while modelling, without a run of their own: with lost replies more may be sent
than was credited (the request rolls back and the next one has another row, so
another reference); `fail_settlement` returns early on a completed settlement, so a
transfer reversed after its success restores nothing; approval does not look at the
KYC status or the balance again; the daily task pays amounts above the auto-approve
ceiling (`docs/merchant-settlement-plan.md:99` wants a review); disbursing writes no
ledger entry while failing writes a positive reversal, so the entries alone do not
add up to the balance after a failure.  The invariants are stated so that they are
true of this behaviour: `LedgerExplainsBalance` leaves reversals out and adds what
is held.

### Proofs

`MerchantSettlementProofs` assumes only `AmountAssumption` and `BoundAssumption`:
naturals for amounts, a positive minimum, known plans. `TypeCorrect`,
`FundsCovered`, `CreditOnce`, `DebitOnce`, `BookOnce` and `CompletedStays` hold for
any collections, settlements, amounts and hazards.  `FundsCovered` needs `held` to
be the sum of the rows in processing; instead of a sum over a set, `SetRow` updates
`held` with the row, and the proof only needs what each action does to both.
`DebitOnce` is proved with a strengthening that says where in the ledger a
settlement's debit entries may be.  `BookOnce` adds that a completed settlement was
paid (`PaidInv`): the daily task completes from an answer it has kept and the
reconcile task from a transfer's status, and both must go back to a success that
Paystack has announced.  `NominalBooks` (no hazard but `repeat`) is proved with
`NominalInv`, which is inductive together with `TypeOK`: exactness of the books
alone is not, because confirming twice, or failing what was paid, has to be excluded
by relating the row, the transfer, its webhooks and the daily task's outcome, per
settlement (`SettlementInv`).  `NominalWallet` uses it to map every step to a step
of `SettlementWallet` or a stutter.

`OneFlight` (all hazards) is proved with `FlightInv`, which says of two settlements
in flight that do not involve an admin which of them was written first and what the
ledger must hold: `StepWrites` classifies every step by the rows and entries it
writes, and the entries of a reversal stay.  `LedgerBacks` (no hazard but `repeat`)
needs three sums over sets: `BookInv` (the entries add up to what was credited and
not yet paid out), `SpentInv` (`held` and `total_settled` are the sum over the rows)
and `AmountInv` (a transfer carries its row's amount).  `NeverOverpays` then follows
from `BooksStep`.  Under hazards `LedgerBacksTransfers` is false of the code.

Only model-checked: `ProcessingEnds` (liveness under fairness).

## SaleIntents

One shop.  Code: `sales/service.py`, `payments/router.py`,
`inventory/service.py`, `core/webhook_security.py` and the Paystack client's
status map.

| TLA+ | Code |
| --- | --- |
| `stock` | `Item.current_stock` |
| `payment`, `linked` | `Payment.status`; is `Payment.sale_id` set |
| `reservation`, `expired` | the intent's `stock_reservations`; is `expires_at` past |
| `sale`, `sold_lines`, `taken` | `Sale.status`, its `SaleItem` rows, its "sale" stock transactions |
| `credited` | a credit entry in the settlement ledger (see `MerchantSettlement`) |
| `asked` | a verify request waiting for Paystack: what it loaded, what it is told |
| `seen` | the webhook's deduplication keys in Redis |
| `charge` | Paystack's checkout |
| `adjusted` | history: stock added by adjustments |

A request is one step, except `verify`, which is two: it loads the payment,
waits for Paystack and writes the answer over whatever was committed meanwhile
(SQLAlchemy writes only a changed column, hence the comparison with the loaded
status).  One verify per intent is in flight at a time.  A sale has at most one
line per item, with the item's whole quantity.  `finalize_half_way` is what the
webhook commits when it swallows the exception of a line out of stock: the
sale, the lines before the short one and the short one itself, and no link to
the payment; which lines came before is left open.  Lines without an item,
prices, customers, receivables, deleted items, the retired MoMo intents and the
task that releases expired reservations (defined, never scheduled) are left
out.  Two requests that overlap inside the database, which can lose an update
of `current_stock`, are left to `RowSessions`.

Hazards: `expiry` (a checkout outlives its fifteen minutes), `abandon` (Paystack's
"abandoned" counts as failed, the customer pays after all), `reversal`,
`verify_error` (an HTTP error counts as pending), `slow_verify` (the webhook
overtakes a poll), `crash` (the request dies after the deduplication key is
set).  Counter sales and adjustments are switched by the constants `Walkins`
and `Adjustments`; `MaxAdjusted` bounds the latter.

| Run | Instance | Shows |
| --- | --- | --- |
| `sale_nominal` | three orders for three rice and one soap, so that two of them exclude each other; one delivery | stock matches the sales and covers the reservations (`StockCoversOrders`), what is paid is sold, `GoodsShelf` is implemented |
| `sale_hazards` | two orders of two and one items, a counter sale, all hazards | types, nothing sold unpaid, credit exactly with the sale, success means credited (`CreditFollowsSale`), a linked sale is whole, goods leave at most once, voided stays voided |
| `lost_event` | a dying webhook | violation: the paid order is never sold |

Fairness: a webhook is repeated until it is answered, and a request the server
has received is served.  Polling is not assumed: the merchant may close the
screen.

`SaleIntentsProofs` proves all safety properties of `sale_hazards` for any items,
orders, quantities and hazards, from `SaleAssumption` (orders and counter sales
differ, quantities are naturals).  The inductive invariant `IInv` relates the
payment to the checkout and to the request in flight: an answer of success in flight
can only be true, because a payment is never taken back to unpaid, only reversed.
`GoodsLeaveAtMostOnce` adds `GoodsInv`: the stock of an item is what the sales that
stand have taken of it, which is at most their quantity, line by line.

`StockCovers` and `ShelfKept` are the properties of `sale_nominal`, and state its
circumstances as their assumption `NoTrouble`: no hazard, no counter sale, and
adjustments that only add.  There `ShopInv` says of each order how its payment, its
reservation, its sale and its lines go together (`OrderInv`), and of each item that
the sum of what is held for orders is on the shelf; every step then moves one order
as `GoodsShelf` allows or none.  `PaidIsSold` (liveness) stays with TLC.

With a counter sale or an adjustment beside an intent, `StockMatchesSales` does
not hold of the code: the webhook commits a sale that has not taken its goods
(`finalize_half_way`), which is why `sale_nominal` has neither.

## LoanService

The loans of one business.  Code: `credit/service.py`, `credit/models.py`, the
loan actions of `admin/service.py` and of the lender and payout routers,
`workers/tasks/payout_tasks.py`, `workers/tasks/credit_tasks.py` and the transfer
webhooks.

| TLA+ | Code |
| --- | --- |
| `status`, `rate`, `code` | the columns of `LoanRequest`; of the rate, whether it is unset, zero or positive; the transfer code as the transfer it names |
| `otp` | the confirmation code in Redis |
| `initiation` | an `initiate_disbursement` waiting to write what Paystack answered |
| `retries` | queued `retry_failed_disbursement` tasks, with attempts used |
| `instalment`, `attempts` | `RepaymentInstalment.status`, `collection_attempts` |
| `days` | how many due dates and ends of grace have passed since the loan was paid out |
| `outcome` | the session of the running daily task: what it did with each instalment it loaded |
| `transfer`, `events`, `charge` | Paystack's transfers, their webhooks, charges |
| `seen` | the webhooks' deduplication keys in Redis |

A request is one step except `initiate_disbursement`, which reads the loan,
waits for Paystack, and then writes status and code over whatever was committed
meanwhile (`initiation_commits`), and `collect_due_repayments`, which is a step
per instalment and one commit at the end; a worker that dies in between
(`collect_dies`) leaves the charges behind and nothing in the database.  The
code's references are deterministic per loan and per instalment; the model takes
from the code's comments that Paystack does not pay or charge a reference again
while it is in progress or done (`InUse`, `Chargeable`).

`TaskKnown` says whether workers know the collection task by the name the
schedule sends.  **In the code it is FALSE**: Beat sends
`apps.api.workers.tasks.credit_tasks.collect_due_repayments`
(`celery_app.py:127`), the task is registered as
`credit_tasks.collect_due_repayments` (`credit_tasks.py:16`), so a worker
discards the message and no active loan is ever collected or closed.  The runs
set it to TRUE and show what the task does once it is found.

Hazards: `admin_approval` (an admin approves a loan no lender has priced),
`overlap` (other requests about a loan run while an initiation waits, and
between a last failed retry and its escalation), `lost_reply`, `reversal`,
`crash` (a webhook's request dies after its key is set, or the task dies).

| Run | Instance | Shows |
| --- | --- | --- |
| `loan_contract` | two loans in turn, two instalments, one attempt each, transfers and charges that may fail | the service implements `LoanContract`, loans close exactly when settled, disbursements end and active loans close (`LoansMoveOn`), a merchant is asked only for what he owes (`AsksWhatIsOwed`) |
| `loan_hazards` | one loan, two initiations, two transfers, two attempts, one retry, all hazards | types, money sent once and lent means sent (`LentOnce`), given up last |
| `zero_rate` | an admin's approval | violation: the success webhook raises and the loan stays in disbursing |

Two initiations are the smallest overlap and two transfers the smallest double
payment; one loan is enough there, since loans of one business share nothing but
the test for an open one, which `loan_contract` has a second loan for.
Collections of two instalments have every mixture of paid, open and given up.
`ImplementsContract`, `ClosedWhenSettled` and `AsksWhatIsOwed` do not hold with
`overlap`: an active loan can be written back to disbursing, and the task looks at the
instalments, not at their loan.

Fairness (`FairSpec`): an initiation that waits is answered, Paystack decides and
repeats its webhooks, a day passes even though the task runs again and again
(strong fairness: the task is short and days are long), and the task runs and
comes to its end.  Nothing is assumed of merchants, lenders and admins; no
liveness is checked with hazards that lose a webhook.

### Proofs

`LoanServiceProofs` needs only `LoanAssumption` (positive bounds, a natural number
of retries).  For any number of loans, requests, transfers, instalments, attempts
and retries, and for all hazards: `TypeCorrect`, `SentAtMostOnce` (inductive as it
stands, from the guard on Paystack's side), `LentOnlyWhatWasSent` (the two about the
money together are `LentAtMostOnce`) and `GivenUpOnlyLast`.  The last two come from
`LentInv`, which adds that a success webhook tells of a transfer that was made
(`Told`), that the task works only on instalments that are open, and has given up
only those whose turn it was (`InTurn`), and that a schedule is made as a whole
(`Whole`).

Without `overlap` (the other hazards allowed), `LoansCloseWhenSettled`,
`AsksOnlyWhatIsOwed` and `ServiceKeepsContract`: the invariant `Orderly` adds that a
loan has a schedule exactly from the time it is paid out, that an initiation waits
alone and for a confirmed loan, and that money is only asked for once the merchant
has confirmed.  With it each step maps to a step of `LoanContract` or a stutter:
Paystack's success is `Send`, its webhook `Lend`, the task's commit `Collect`.
`LoanCloses` and `DisbursementEnds` are liveness and stay with TLC.

Not modelled: scores, products, consents and amounts; `mark_loan_active`,
`initiate_repayment_charge` and the metadata that would trigger
`confirm_repayment`, none of which has a caller; the lender's revenue row, which is
written with the schedule and unique in the database; the `collecting` status,
which the task never commits.  Seen while modelling, without a run of their own: a
charge that Paystack reports as pending marks its instalment as paid
(`credit_tasks.py:184`); a reversed transfer leaves an active loan active; a
webhook that overtakes the commit of the transfer's code finds no loan and is not
handled again.

## ClientSession

The session of the mobile app.  Code: `src/api/client.ts`, `src/store/auth.ts`,
`src/api/hooks/sessionHooks.ts`, `src/navigation/authRouting.ts`, the layouts and
the screens of sign-in and onboarding under `app/`.

| TLA+ | Code |
| --- | --- |
| `store` | the auth store, and what the root layout remembers of it (profile, checked, unlocked) |
| `req`, `refresh` | requests in flight with their caller, `failedQueue`, `isRefreshing` |
| `screen` | the screen group that is shown |
| `issued`, `scope`, `expired`, `presented`, `revoked`, `primary`, `members` | the tokens and memberships of `auth/service.py` |
| `position` | `member.role` in each business: owner, manager or staff |
| `wanted` | history: the business the user chose last |

A request is sent with the access token of the moment, answered, refused with a
401, lost, parked in the queue of the interceptor while another one refreshes,
and sent once more; what its caller then does is a step of its own, so that a
late answer meets another session.  Tokens are numbered in the order the server
issues them.  `world` says what may go wrong: calls that fail (`network`), an app
that is killed (`restart`), changes of the session that meet other calls
(`overlap`), a user who joins more than one business (`second_business`); and whether
the user is a field agent, and joined the first business as its owner, a manager or
on the staff.  The server gives that role with every pair (`auth/service.py:203`), and
the redirects treat whoever is not an owner or an agent as the app does.

A user who has created a business may be refused a second one: its plan may not
include more (`business/service.py:48`; `OverLimit`, `Decline`).  One assumption about
time is a guard of `Expire`: except under `overlap`, an access token, which lives for
fifteen minutes, does not expire while a call is sent again with it.

The run `session` has two requests, two businesses and up to three tokens, for a
member of a business and for a field agent: two are the smallest number that share a
refresh, and three tokens are a sign-in, a switch and a refresh; staff, managers and
owners each occur in one of its circumstances.  It checks `RefreshShared` (a refresh
token is presented once, nobody waits for a refresh that is over), `RedirectsSettle`
(the guards of three layouts agree) and `SessionAgrees` (store, profile and calls
are of the business the user chose; a retried call runs once and in the business its
caller was looking at).  The last is claimed without `overlap`, because the code
does not have it there: the retry of a 401 takes whatever token is current, and when
the token of a switch expires before its answer is handled, the refresh that follows
may be answered last and puts the old business back.  The two requests are
interchangeable, hence the symmetry.

### Proofs

`ClientSessionProofs` proves the four properties for any number of requests, tokens
and businesses, from `SessionAssumption` alone.  The actions are first brought into
fourteen shapes (`Rests`, `Grants`, `Serves`, `SignsIn`...), each of which
says field by field what a step may change; `Shapes` shows that every step has one of
them, and every later invariant is proved shape by shape.

- `SafeInv`, whatever goes wrong: types, `KindInv` (a request is idle exactly if
  it is nothing), `WaitInv` (who waits, waits for a refresh under way, started by one
  request), `KnownInv` (tokens are known only after they were issued), `HandInv`
  (tokens on their way in an answer are fresh, different and of the business
  asked for), `StoreInv` (store and tokens agree), `OnceInv` and `RunInv` (a refresh
  token is presented once, a call runs once).  It gives `SessionTypeCorrect`,
  `RedirectsAgree` and `RefreshesShared`.
- `CalmInv`, as long as changes of the session meet no other call: `AloneInv` (such
  a change is alone), `CreateInv` (during a creation a refresh leads to no business
  or to the primary one), `WantInv`, `CallInv` and `ProfileInv` (the session, the
  calls and the profile are of a business the user chose).  It gives
  `SessionsAgree`.

Looking for `CalmInv` showed that three claims TLC had accepted held only
because three tokens are too few to break them, and the properties now say what is
true of the code.  While a user's first business is being created, a refresh answered
after the server has created it makes the session one of the new business before the
app knows (`Chosen`).  When the answer to that creation is lost, the app goes on
without a business until a refresh brings it, and a second attempt is refused by the
plan's limit.  And a profile fetched on coming to the foreground is applied without
asking whether the session has changed meanwhile (`app/_layout.tsx:106`), so that such
a user may be shown none (`ProfileMatchesBusiness`).

Seen while modelling: a new owner keeps the role `none`
(`onboarding/business.tsx:88` replaces it only if it is null), so that the layouts
send the owner back to the first step after the wizard, until a refresh brings the
role; `setBusinessContext` leaves the old refresh token, so a refresh after a
business was created signs in to the one before; signing out in the owner's
settings neither tells the server nor clears the cache; any error while a stored
session is validated, one of the network included, ends it.

## The screens and the sync (MCClients)

The screens share the server and nothing else, so `MCClients` puts them side by
side: a behaviour uses one of nine (`inUse`) while the others rest in a first state.
Each has a module with its own `Init`, `Next` and properties.  A call and what the
server does with it are one step (a payment of salaries two: the transfer leaves
before the service keeps it) and its answer a later one; between the two the user
taps as far as the screen lets him, which is where the code is hard to test.  A call
may fail without effect, or take effect and lose its reply.  What is typed is
represented by where it belongs: the form, the customer or the loan it was entered
for.  The services behind the screens are modelled by their code where the screen's
properties depend on it (`Payroll`, `Billing`, `AgentOnboard`, the sales and items
in `OfflineSync`), and otherwise as external, by what the screen can tell.

| Module | Code | Shows |
| --- | --- | --- |
| `OfflineSync` | `mobile/src/db/sync/*`, `db/scopedData.ts`, `features/localData.ts`, `features/onlineSales.ts` | `SalesArriveOnce`: a queued sale is booked once, in its own shop, and none that was told as recorded is forgotten; `AgreesAfterSync`: after a sync during which nothing changed the phone shows what the server has on a first page of its list |
| `Checkout` | `app/owner/sell.tsx`, `app/owner/cashier.tsx` | `SoldAsShown`: a customer's goods are sold once as far as the screen is told, and the receipt is of that sale |
| `QueryCache` | the hooks of `mobile/src/api/hooks` and `Web/src/hooks` | `CacheIsCurrent`: what is shown as up to date is of the business signed in, and not older than the user's own changes |
| `Stockroom` | `app/owner/inventory.tsx` | `SavedOnceAsShown`: an entry is saved once, from the form that showed it; input VAT is of the order received |
| `Payroll` | `app/owner/payroll.tsx`, `modules/payroll/service.py` | `PaidAsAsked`: what left is kept at the service or still under way; a patient owner pays nobody twice who was not shown as paid or skipped; details are of the employee edited |
| `WalletScreen` | `app/owner/payments-history.tsx` | `PaidOutAsTold`: one payout for a form, held for an admin only if the form said so, at most one primary wallet |
| `LenderDesk` | `Web/src/app/lender/(app)/loans/page.tsx` | `DecidedOnItsOwn`: terms and reasons are of the loan they were typed for |
| `Billing` | `app/owner/billing.tsx`, `hooks/planGate.ts`, `modules/billing/service.py` | `PlanPaidAndShown`: no plan that was neither paid for nor given, and "Plan activated!" is followed by what it opens; `ChargedWhenRunOut`: a renewal is charged only when what was paid for has run out |
| `AgentOnboard` | `app/agent/onboard.tsx`, `modules/agent_network/router.py` | `AddedWithinPlan`: the agent is paid for a trader's shops within the trader's plan, so once unless the trader is on Pro, and told so only when the shop is active and has a wallet |

The circumstances (`SyncWorlds`, `CheckoutWorlds`, `PayrollWorlds`, `WalletUses`,
`Reviewers`, `BillingWorlds`, `StockRooms`, `SignedUp`) are constants: each says
which hazards a behaviour may meet.  Bounds, and why they are enough: two items, two
sales and one adjustment, with one loss, are one row that is pushed while another
waits, in two businesses, and with one item a page (`PAGE_SIZE`) an item of the
first and one after it; two customers, two carts, two links, two sales and two
checks are one sale and the next, and the sell screen's timer beside its button; of
the query cache one query and one mutation for every kind of pair (`TopicKind`: app,
polling, refetching, dropped or forgotten), since the others behave like one of
these; two rows and five forms are a form, its retry and the form after it; two
employees for one month, or one for two, with two payments each (`MaxPays`), the
first and the one that would be too many; two calls in flight everywhere, an answer
that is late and one that overtakes it; four days for a plan of two, one plan given
without payment (`MaxGiven`) and paid-for time of at most `AheadBound`; a trader the
agent is the first to meet, one with a shop on Free, one with two on Pro, one back
on Free with three.  Deadlock is not checked for the clients: their counters run
out.

What the properties do not claim is as much a finding of these models as what they
do.  Where a circumstance breaks a property the property excludes it by name:

- `OfflineSync`: the phone asks for the list of items without a page and gets the
  first 20 (`pull.ts:174`, `core/dependencies.py:168`); `has_more` is not looked at, so
  items after the first page are never pulled, and nothing is claimed of them.  The
  Redis copy of an answer that `record_sale` keeps before its transaction commits is
  not modelled.  An online sale whose reply is lost is queued under a second key
  and booked twice; so is one the server refuses, because `api/client.ts:56-68`
  strips status and code and every refusal looks like an error of the network
  (`onlineSales.ts:103`), and the owner is told that it is recorded.  An edit made
  while its row is being pushed is marked as synced; a pull after a failed push
  overwrites what was not pushed; restocking, and new items, have no key; deletions
  are never pulled; a business that is added leaves the rows of the one before.
- `Checkout`: on the sell screen a late answer of a check, a QR or a sale meets the
  next cart, because the way back is open while a sale is recorded; a link that is
  left, or given up as expired or failed, can still be paid, because Paystack's
  checkout stays open and the webhook finalizes it (`sales/service.py:401`), and
  then the goods may have been sold for cash; a sale whose answer is lost is booked
  and queued under a second key (`onlineSales.ts:159`).  In these circumstances
  (`paid_late`, `lost_reply`) only what the screen is told is sold once.  The
  cashier's details, consent and method stay for the next customer, and goods added
  while a sale is charged are dropped from it.
- `QueryCache`: `Forgotten` lists the pairs of a mutation and a query it changes and
  does not drop; the portals keep their cache over a log-out and log-in that load no
  page (`PortalLogOut`; a refused call loads one and clears it, `SentAway`, except
  in the admin portal, which renews its cookie and asks again), which is why the
  business of what is cached is claimed for the phone alone; a fetch that is the
  first of its query cannot be cancelled.
- `Stockroom`: with lost replies an entry is added again; an item may get the code
  that was scanned for the one before (`inventory.tsx:1139`); the input VAT of an
  order can be recorded twice (`inventory.tsx:1515`).
- `Payroll`: the payslips are not read anew after a bulk transfer, so they show as
  skipped who was paid, and "Pay now" then pays again (counted in `repaid`, like
  "Repay"); "Disbursed to all employees" is told whatever was sent, and a refused batch
  leaves its payslips marked.  An owner who does not wait pays twice: by a bulk transfer
  while a single payment is in flight, or singly from an old list.  When a reply of
  Paystack's is lost the request rolls back and nothing is known of a transfer that
  left (`payroll/service.py:311-335`), hence "as long as no call fails".  Batches of a
  hundred are one, and a call that has failed for the app has ended at the server.
- `WalletScreen`: a small payout whose reply is lost is paid again when it is asked
  for again; linking the primary wallet's number once more makes it pending.
- `LenderDesk`: the panel of one loan becomes that of the next (`page.tsx:762` has
  no key), and terms typed for one can be approved for another; the property speaks
  of a lender who closes each panel.
- `Billing`: plans are also given.  `POST /billing/subscription/change` activates any
  plan at once without a payment (`billing/service.py:52`; `test_billing.py:68` expects
  it), the callback at `billing/router.py:368` is believed and may be repeated, a reward
  gives days, and the provider's events activate and cancel
  (`billing/service.py:760`).  `PlanWasPaid` says that the app's own way, renewals and
  confirmations give no plan beyond those: whatever was given stands in `given`, a
  history.  `planGate.ts:35` takes the server's unlimited, -1, for zero and locks
  what the highest plan includes; a payment confirmed by the app and by the webhook
  renews twice, a renewal pending at the provider counts as paid, and a cancelled
  plan never ends, although `billing.tsx:103` says that it will.
- `AgentOnboard`: the limit is the trader's plan (one business on Free and Starter,
  three on Pro, `billing/models.py:142`), so a lost reply and a corrected name give
  a trader on Pro a second shop and the agent a second commission; plans go up in
  the model (`TraderUpgrades`), not down.  The endpoint that creates the shop calls
  itself idempotent (`agent_network/router.py:334`), but the plan's limit is asked
  before, so a retry after a later failure is refused; KYC is refused whenever a
  card was typed, for want of a registration number the app has no field for.

No fairness is assumed of the clients and no liveness is claimed of them.

### Proofs

The screens and the sync are proved for every size of their sets and every bound.
The proofs speak of each app's own specification; `EachAppAlone` carries them to
the composition `MCClients`, of which the run checks an instance.

- `PayProofs`, payroll (`PaysAsAsked`).  `SteadyService`, as long as no call fails:
  a transfer that left is kept, or of a call that is at work, and a month without a
  payroll has neither payslips nor transfers, so that running it forgets no payment.
  `PatientOwner` adds what the list shows: who is shown as due was sent nothing, but
  by a single payment that is ordered or a bulk transfer the screen does not know of
  (`BulkUnknown`), and a patient owner does not pay while one of these is open.
- `PayProofs`, the lender's page (`DecidesOnItsOwn`).  `PanelOfOne`: at most one loan is
  selected, and what the panel holds, and the answer it waits for, are about it.
  It holds of a lender who closes each panel, because only closing makes a new one.
- `PayProofs`, the onboarding (`AddsWithinPlan`).  `WithinPlan` counts the shops of
  whoever the agent is paid for: a shop is attributed as it is created, which the
  plan allows or refuses, and a trader with a shop too many gets no other;
  `ChainGrounded` says what each later call of the chain may rely on.  It needs the
  traders and names to be finite.
- `PayProofs`, the wallet (`PaysOutAsTold`).  `PayoutInv`: a form has taken a payout
  only if the answer that closes it is on its way or was lost; an amount previewed
  as payable needs no approval, and rounding to two decimals does not lift an
  amount over the ceiling, which `WalletAssumption` has in whole pesewas; a payout
  that waits is covered by the balance.  `WalletsInv`: no list of wallets, also
  none on its way, has two primary ones.
- `PayProofs`, the plan (`PlansPaidAndShown`, `ChargesWhenRunOut`).  `ShownRow` follows
  what the app reads after a charge: every plan it has read since then, and is
  reading, the business has had since; the screen that waits for a fetch is
  released by its end, so that whoever was told sees what that fetch read.
  `PaidRow`: a confirmation comes only of a charge that was paid, and any other way to
  a plan leaves it in `given`.  `PutOffInv`: an
  attempt is put off only when what was paid for has run out, because a payment
  forgets the attempt; a reward does not, which is why the action property excepts
  it.
- `ShopProofs`, the query cache (`CacheStaysCurrent`), for every pair of a mutation
  and a query.  `OfTheShop`: what is cached, or on its way, on the phone is of the
  business signed in, because a switch clears both at once.  `Dropped`: what was
  read before a change the user was told of, cached or on its way, was made out of
  date when the mutation was answered.
  That the hooks drop what they change unless `Forgotten` lists the pair is
  `HooksAssumption`, a statement about the tables of hooks, which TLC evaluates.
- `ShopProofs`, the stockroom (`StockSavedOnce`).  `FormInv`: a form
  holds what was entered in it or nothing, and every row what its form showed.
  `VatInv` carries the order from the form to the call and to the VAT recorded.
  `AddedOnceInv`, if no call fails: a form whose entry is on the server waits for
  the answer that empties it.
- `ShopProofs`, the screens that sell (`GoodsSoldAsShown`).  `LinksInv`: what the
  screen knows of a link the server has said, and a link is sold with its sale.
  `PromptInv`, as long as answers are not overtaken by taps, says that what is
  awaited is of the cart shown. `SoldOnceInv` says that a customer has at most one
  sale the screen knows of, or one link that may still become one; it needs that
  links are not left behind.  `AllTold`: where no answer is lost and no link is paid
  late, the screen knows of every sale.  With more than one check in flight this
  holds because the receipt, too, is closed only when none is, which `FinishSale`
  now says as every other tap does.

- `ClientsProofs`, the sync (`SalesArrive`, `AgreesWithServer`).  `OnceInv`: what is
  still to be pushed the server does not have, unless it has just answered for it,
  so that pushing it again books nothing twice; a key is in the sales of one
  business only.  `ShopInv`: what is asked, queued or about to be pushed was sold in
  the business of the token; `CalmInv`: without an overlap a wipe meets no sync and
  no call.  `SyncingInv` follows a run that nothing disturbed: each table pushed
  leaves nothing unsynced, and the page fetched is a first page of the server's;
  `AgreedInv` keeps that until something changes.  The sets of rows are finite and
  disjoint (`SyncAssumption`), as the rows of different tables are.  The proof
  needed no exclusion of overlapping syncs or of a business added, which
  `AgreesAfterSync` once had: it is now claimed without them.
- `ClientsProofs`, the apps side by side (`EachAppAlone`): the composition implements
  the specification of every app, because a step of one leaves the others' variables
  alone.  `ClientsTypeCorrect` and `ClientsKeepTheirWord` then state everything the
  run checks of the very specification it checks.

Every property of that run is proved.

## What is not modelled

Everything PROJECT.json lists as `not_modelled`, with its reason; in the modelled
parts: HTTP, authentication, notifications, audit rows, metrics and the wording
of messages.
