-------------------------- MODULE MerchantSettlement --------------------------
(***************************************************************************)
(* The settlement wallet of one merchant (modules/settlements): collections *)
(* credit it net of the platform fee, settlements pay it out through        *)
(* Paystack transfers, webhooks and the reconcile task finish them, failed   *)
(* ones are retried.  Each service call is one database transaction here;    *)
(* what a webhook does between a call to Paystack and the commit is kept, as  *)
(* is the commit the daily task makes before it calls Paystack.              *)
(*                                                                           *)
(* Amounts are integers, in pesewas.  A settlement and the Paystack          *)
(* reference built from its row id are the same thing here.                  *)
(***************************************************************************)
EXTENDS Integers, Sequences, Functions

CONSTANTS
  Payments,           \* collections
  GrossOf,            \* the amount of each collection
  Plans,              \* subscription plans the merchant may be on
  Settlements,        \* row ids, each used at most once
  Amounts,            \* amounts a merchant or an admin may ask for
  Thresholds,         \* values of settlement_threshold
  SETTLEMENT_MIN,
  SETTLEMENT_AUTO_APPROVE_CEILING,
  SETTLEMENT_MAX,     \* the literal 50000.00 of request_settlement
  Hazards,            \* which kinds of trouble a run lets happen
  MutableGates,       \* bound: the gates of profile that may change
  MaxLedger,          \* bound: no retry once the ledger is this long
  KeywordMatches      \* do callers pass confirm/fail_settlement a keyword they have?

AllHazards == {"force",       \* an admin forces settlements
               "retry",       \* failed settlements are retried
               "lost_reply",  \* Paystack accepts a transfer but its reply is lost
               "reversal",    \* a transfer that had succeeded is reversed
               "overtaken",   \* a webhook comes before the commit of its transfer's request
               "repeat",      \* two deliveries come at once, or after the key has expired
               "crash"}       \* the daily task dies between its commit and its transfer

Gates == {"kyc_verified", "settlement_enabled", "momo_verified", "is_active"}

ASSUME AmountAssumption ==
  /\ GrossOf \in [Payments -> Nat]
  /\ Amounts \subseteq Nat /\ Thresholds \subseteq Nat
  /\ SETTLEMENT_MIN \in Nat /\ SETTLEMENT_MIN > 0
  /\ SETTLEMENT_AUTO_APPROVE_CEILING \in Nat /\ SETTLEMENT_MAX \in Nat

ASSUME BoundAssumption ==
  /\ Plans \subseteq {"free", "starter", "pro"}
  /\ Hazards \subseteq AllHazards /\ MutableGates \subseteq Gates
  /\ MaxLedger \in Nat /\ KeywordMatches \in BOOLEAN

VARIABLES
  confirmed,          \* collections whose Payment row is a success
  unsettled_balance,  \* Business.unsettled_balance
  total_settled,      \* Business.total_settled
  ledger,             \* the merchant's MerchantLedgerEntry rows, in insertion order
  row,                \* the MerchantSettlement rows; status "none": no row
  profile,            \* the columns of the merchant the gates read
  outcome,            \* the daily task's own data on each transfer of its chunk
  reconcile_due,      \* settlements a scheduled reconcile task will look at
  transfer,           \* Paystack: the transfer behind each reference
  events,             \* Paystack: webhooks sent; may be late or reordered
  answered,           \* the webhooks whose key is in Redis
  overtaken,          \* history: settlements whose webhook came before the commit
  held,               \* history: total amount of the rows in processing
  credited            \* history: total of the net amounts credited

wallet == <<unsettled_balance, total_settled, ledger>>
paystack == <<transfer, events, answered, overtaken>>
task == <<outcome, reconcile_due>>
vars == <<confirmed, wallet, row, profile, task, paystack, held, credited>>

-----------------------------------------------------------------------------
(* Pure parts of the service *)

\* PLATFORM_FEE_RATES, per thousand.
FeeRate(plan) == CASE plan = "free" -> 25 [] plan = "starter" -> 15 [] plan = "pro" -> 10

\* Rounded half up to the pesewa.
calculate_fee(amount, plan) == (amount * FeeRate(plan) + 500) \div 1000

\* Mutant: the clamp at zero is forgotten.
BalanceAfterHold_unclamped(balance, amount) == balance - amount

\* The balance once a disbursement has set its amount aside.
BalanceAfterHold(balance, amount) == IF amount > balance THEN 0 ELSE balance - amount

\* Mutant: a failure gives nothing back.
BalanceAfterFailure_forgotten(balance, amount) == balance

\* The balance once a failed settlement has given its amount back.
BalanceAfterFailure(balance, amount) == balance + amount

InFlightStatuses == {"pending", "approved", "processing"}
InFlight == {s \in Settlements : row[s].status \in InFlightStatuses}

\* Mutant: a late failure is applied to a completed settlement.
FinishedStatuses_no_completed == {"failed", "cancelled"}

\* fail_settlement leaves these alone.
FinishedStatuses == {"completed", "failed", "cancelled"}
Finished(r) == r.status \in FinishedStatuses

\* confirm_settlement leaves this one alone.
Completed(r) == r.status = "completed"

\* Mutant: the query is gone.
AlreadyCredited_never(p) == FALSE

\* The query that makes credit_collection idempotent.
AlreadyCredited(p) == \E i \in DOMAIN ledger : ledger[i].type = "credit" /\ ledger[i].of = p

Entry(type, of, amount, balance_after) ==
  [type |-> type, of |-> of, amount |-> amount, balance_after |-> balance_after]

NoRow == [status |-> "none", amount |-> 0, mode |-> "manual", coded |-> FALSE]
NewRow(status, amount, mode) ==
  [status |-> status, amount |-> amount, mode |-> mode, coded |-> FALSE]

NoTransfer == [status |-> "none", amount |-> 0]

\* A row id that was never used, not even by a transaction that rolled back.
Fresh(s) == row[s] = NoRow /\ transfer[s] = NoTransfer

HeldBy(r) == IF r.status = "processing" THEN r.amount ELSE 0

\* Write row s; held follows.
SetRow(s, r) ==
  /\ row' = [row EXCEPT ![s] = r]
  /\ held' = held + HeldBy(r) - HeldBy(row[s])

-----------------------------------------------------------------------------
(* Collections *)

\* A collection turns into a success.
payment_success(p) ==
  /\ p \notin confirmed
  /\ confirmed' = confirmed \cup {p}
  /\ UNCHANGED <<wallet, row, profile, task, paystack, held, credited>>

credit_collection(p, plan) ==
  LET fee == calculate_fee(GrossOf[p], plan)
      after_credit == unsettled_balance + GrossOf[p]
  IN
  /\ p \in confirmed
  /\ ~AlreadyCredited(p)
  /\ ledger' = ledger \o <<Entry("credit", p, GrossOf[p], after_credit),
                           Entry("fee", p, -fee, after_credit - fee)>>
  /\ unsettled_balance' = after_credit - fee
  /\ credited' = credited + GrossOf[p] - fee
  /\ UNCHANGED <<confirmed, total_settled, row, profile, task, paystack, held>>

-----------------------------------------------------------------------------
(* Starting a settlement *)

\* Paystack takes a transfer; a reference it already has in progress, or has
\* paid, is not paid again.
Accept(s, amount) ==
  transfer' = IF transfer[s].status \in {"pending", "success"} THEN transfer
              ELSE [transfer EXCEPT ![s] = [status |-> "pending", amount |-> amount]]

\* What the webhook of a transfer writes before the transaction that asked for it
\* commits.  A row not committed yet is not found; one that waits for its approval
\* is confirmed or failed; one being retried is locked, and failed as far as the
\* webhook can see.
OvertakingWrites(s, verdict) ==
  \/ /\ row[s].status = "pending" /\ KeywordMatches /\ verdict = "success"
     /\ ledger' = Append(ledger, Entry("debit", s, -row[s].amount, unsettled_balance))
     /\ total_settled' = total_settled + row[s].amount
  \/ /\ row[s].status = "pending" /\ KeywordMatches /\ verdict = "failed"
     /\ ledger' = Append(ledger, Entry("reversal", s, row[s].amount,
                                       BalanceAfterFailure(unsettled_balance, row[s].amount)))
     /\ UNCHANGED total_settled
  \/ /\ row[s].status = "pending" => ~KeywordMatches
     /\ row[s].status = "failed" => verdict = "failed"
     /\ UNCHANGED <<total_settled, ledger>>

\* The transfer is decided, and its webhook answered, within the request.  The
\* commit then writes the row and the balance over what the webhook left there.
\* Nothing else comes in between here.
Overtake(s, amount) ==
  \E verdict \in {"success", "failed"} :
    /\ "overtaken" \in Hazards
    /\ transfer[s].status = "success" => verdict = "success"
    /\ transfer' = [transfer EXCEPT ![s] = [status |-> verdict, amount |-> amount]]
    /\ events' = events \cup {<<s, verdict>>}
    /\ answered' = answered \cup {<<s, verdict>>}
    /\ overtaken' = overtaken \cup {s}
    /\ OvertakingWrites(s, verdict)

\* The row and the balance once Paystack has answered.
Commit(s, r) ==
  /\ SetRow(s, [r EXCEPT !.status = "processing", !.coded = TRUE])
  /\ unsettled_balance' = BalanceAfterHold(unsettled_balance, r.amount)

\* r is the row as this transaction has left it.  The transfer comes first; if
\* Paystack refuses it nothing has happened, and if only its reply is lost the
\* transaction rolls back behind a transfer that exists.
disburse_settlement(s, r) ==
  /\ \/ /\ Accept(s, r.amount)
        /\ \/ Commit(s, r)
           \/ "lost_reply" \in Hazards /\ UNCHANGED <<row, held, unsettled_balance>>
        /\ UNCHANGED <<total_settled, ledger, events, answered, overtaken>>
     \/ Overtake(s, r.amount) /\ Commit(s, r)
  /\ UNCHANGED <<confirmed, profile, task, credited>>

\* Mutant: a settlement in processing does not count as in flight (gate 5).
request_settlement_over_processing(s, amount) ==
  /\ Fresh(s)
  /\ profile.kyc_verified
  /\ profile.settlement_enabled
  /\ profile.momo_verified
  /\ amount \in SETTLEMENT_MIN .. SETTLEMENT_AUTO_APPROVE_CEILING
  /\ amount <= unsettled_balance
  /\ \A t \in InFlight : row[t].status = "processing"
  /\ disburse_settlement(s, NewRow("pending", amount, "manual"))

request_settlement(s, amount) ==
  /\ Fresh(s)
  /\ profile.kyc_verified
  /\ profile.settlement_enabled
  /\ amount \in SETTLEMENT_MIN .. SETTLEMENT_MAX
  /\ amount <= unsettled_balance
  /\ InFlight = {}
  /\ profile.momo_verified
  /\ \/ /\ amount <= SETTLEMENT_AUTO_APPROVE_CEILING
        /\ disburse_settlement(s, NewRow("pending", amount, "manual"))
     \/ /\ amount > SETTLEMENT_AUTO_APPROVE_CEILING
        /\ SetRow(s, NewRow("pending", amount, "manual"))
        /\ UNCHANGED <<confirmed, wallet, profile, task, paystack, credited>>

\* Mutant: a settlement already being processed may be approved again.
approve_settlement_twice(s) ==
  /\ row[s].status \in InFlightStatuses
  /\ profile.momo_verified
  /\ disburse_settlement(s, row[s])

approve_settlement(s) ==
  /\ row[s].status = "pending"
  /\ profile.momo_verified
  /\ disburse_settlement(s, row[s])

cancel_settlement(s) ==
  /\ row[s].status = "pending"
  /\ SetRow(s, [row[s] EXCEPT !.status = "cancelled"])
  /\ UNCHANGED <<confirmed, wallet, profile, task, paystack, credited>>

admin_force_settle(s, amount) ==
  /\ "force" \in Hazards
  /\ Fresh(s)
  /\ amount > 0
  /\ amount <= unsettled_balance
  /\ profile.momo_verified
  /\ disburse_settlement(s, NewRow("pending", amount, "admin"))

\* The retry task, queued by a failure or by an admin.
retry_failed_merchant_settlement(s) ==
  /\ "retry" \in Hazards
  /\ Len(ledger) < MaxLedger
  /\ row[s].status = "failed"
  /\ profile.momo_verified
  /\ disburse_settlement(s, [row[s] EXCEPT !.status = "pending"])

-----------------------------------------------------------------------------
(* Finishing a settlement *)

\* The row once a webhook or the reconcile task has found it by its code or reference.
Found(s) == [row[s] EXCEPT !.coded = TRUE]

confirm_settlement(s) ==
  \/ /\ Completed(Found(s))
     /\ SetRow(s, Found(s))
     /\ UNCHANGED <<unsettled_balance, total_settled, ledger>>
  \/ /\ ~Completed(Found(s))
     /\ SetRow(s, [Found(s) EXCEPT !.status = "completed"])
     /\ ledger' = Append(ledger, Entry("debit", s, -row[s].amount, unsettled_balance))
     /\ total_settled' = total_settled + row[s].amount
     /\ UNCHANGED unsettled_balance

fail_settlement(s) ==
  \/ /\ Finished(Found(s))
     /\ SetRow(s, Found(s))
     /\ UNCHANGED <<unsettled_balance, total_settled, ledger>>
  \/ /\ ~Finished(Found(s))
     /\ SetRow(s, [Found(s) EXCEPT !.status = "failed"])
     /\ unsettled_balance' = BalanceAfterFailure(unsettled_balance, row[s].amount)
     /\ ledger' = Append(ledger, Entry("reversal", s, row[s].amount, unsettled_balance'))
     /\ UNCHANGED total_settled

\* mark_webhook_seen: the key is set when a webhook is first looked at, whatever
\* comes of it, and keeps its repeats out.
Delivered(s, event) ==
  /\ <<s, event>> \in events
  /\ <<s, event>> \in answered => "repeat" \in Hazards
  /\ answered' = answered \cup {<<s, event>>}
  /\ UNCHANGED <<transfer, events, overtaken>>

\* A reference whose row was rolled back finds no row; when the keyword does not
\* match the call raises and the request rolls back.  Only the key is left.
Dropped(s) ==
  /\ row[s].status = "none" \/ ~KeywordMatches
  /\ UNCHANGED <<wallet, row, held>>

\* Mutant: a failure that is not a reversal is answered and nothing is done.
handle_transfer_failure_reversed(s, reason) ==
  /\ Delivered(s, reason)
  /\ \/ row[s].status # "none" /\ KeywordMatches /\ reason = "reversed" /\ fail_settlement(s)
     \/ reason = "failed" /\ UNCHANGED <<wallet, row, held>>
     \/ Dropped(s)
  /\ UNCHANGED <<confirmed, profile, task, credited>>

\* The webhooks.
handle_transfer_success(s) ==
  /\ Delivered(s, "success")
  /\ \/ row[s].status # "none" /\ KeywordMatches /\ confirm_settlement(s)
     \/ Dropped(s)
  /\ UNCHANGED <<confirmed, profile, task, credited>>

handle_transfer_failure(s, reason) ==
  /\ Delivered(s, reason)
  /\ \/ row[s].status # "none" /\ KeywordMatches /\ fail_settlement(s)
     \/ Dropped(s)
  /\ UNCHANGED <<confirmed, profile, task, credited>>

-----------------------------------------------------------------------------
(* The daily task *)

\* prepare_auto_settlement_batch and the task's first transaction: it commits the
\* row and the hold before any transfer is asked for.
daily_merchant_auto_settlement(s) ==
  /\ Fresh(s)
  /\ profile.is_active
  /\ profile.settlement_enabled
  /\ profile.kyc_verified
  /\ profile.momo_verified
  /\ unsettled_balance >= profile.settlement_threshold
  /\ InFlight = {}
  /\ SetRow(s, NewRow("processing", unsettled_balance, "auto"))
  /\ unsettled_balance' = BalanceAfterHold(unsettled_balance, unsettled_balance)
  /\ outcome' = [outcome EXCEPT ![s] = "unsent"]
  /\ UNCHANGED <<confirmed, total_settled, ledger, profile, reconcile_due, paystack, credited>>

\* The bulk transfer: accepted or paid at once, with or without a transfer code in
\* the reply; refused; or, with its reply lost, accepted but reported as failed.
send_chunk(s) ==
  /\ outcome[s] = "unsent"
  /\ \/ /\ Accept(s, row[s].amount)
        /\ \/ outcome' = [outcome EXCEPT ![s] = "pending"]
           \/ outcome' = [outcome EXCEPT ![s] = "uncoded"]
           \/ "lost_reply" \in Hazards /\ outcome' = [outcome EXCEPT ![s] = "failed"]
        /\ UNCHANGED <<events, answered, overtaken>>
     \/ /\ transfer' = [transfer EXCEPT ![s] = [status |-> "success", amount |-> row[s].amount]]
        /\ events' = events \cup {<<s, "success">>}
        /\ UNCHANGED <<answered, overtaken>>
        /\ \/ outcome' = [outcome EXCEPT ![s] = "success"]
           \/ outcome' = [outcome EXCEPT ![s] = "uncoded"]
     \/ /\ outcome' = [outcome EXCEPT ![s] = "failed"]
        /\ UNCHANGED paystack
  /\ UNCHANGED <<confirmed, wallet, row, profile, reconcile_due, held, credited>>

\* apply_bulk_transfer_outcomes and the end of the task, one transaction: codes
\* are stored, a paid transfer is confirmed, a failed one restores the balance.
\* When the keyword does not match, the latter two raise: nothing is written and
\* no reconciliation is scheduled.
apply_bulk_transfer_outcomes(s) ==
  /\ outcome[s] \in {"pending", "uncoded", "success", "failed"}
  /\ outcome' = [outcome EXCEPT ![s] = "none"]
  /\ \/ /\ outcome[s] \in {"pending", "uncoded"}
        /\ SetRow(s, [row[s] EXCEPT !.coded = @ \/ outcome[s] = "pending"])
        /\ reconcile_due' = reconcile_due \cup {s}
        /\ UNCHANGED wallet
     \/ /\ KeywordMatches
        /\ \/ outcome[s] = "success" /\ confirm_settlement(s)
           \/ outcome[s] = "failed" /\ fail_settlement(s)
        /\ reconcile_due' = reconcile_due \cup {s}
     \/ /\ ~KeywordMatches /\ outcome[s] \in {"success", "failed"}
        /\ UNCHANGED <<wallet, row, held, reconcile_due>>
  /\ UNCHANGED <<confirmed, profile, paystack, credited>>

\* The worker dies and its data is gone; a second run of the task would skip
\* the merchant, whose settlement is in flight.
worker_crash(s) ==
  /\ "crash" \in Hazards
  /\ outcome[s] # "none"
  /\ outcome' = [outcome EXCEPT ![s] = "none"]
  /\ UNCHANGED <<confirmed, wallet, row, profile, reconcile_due, paystack, held, credited>>

\* Runs once per batch; asks Paystack about the rows that are in processing and
\* have a transfer code.
reconcile_merchant_settlement_batch(s) ==
  /\ s \in reconcile_due
  /\ reconcile_due' = reconcile_due \ {s}
  /\ LET asked == row[s].status = "processing" /\ row[s].coded /\ KeywordMatches
         answer == transfer[s].status
     IN \/ asked /\ answer = "success" /\ confirm_settlement(s)
        \/ asked /\ answer \in {"failed", "reversed"} /\ fail_settlement(s)
        \/ /\ ~asked \/ answer \in {"none", "pending"}
           /\ UNCHANGED <<wallet, row, held>>
  /\ UNCHANGED <<confirmed, profile, outcome, paystack, credited>>

-----------------------------------------------------------------------------
(* Gates and configuration *)

\* An admin pauses or resumes payouts, or moves the threshold.
update_settlement_config(enabled, threshold) ==
  /\ enabled # profile.settlement_enabled => "settlement_enabled" \in MutableGates
  /\ threshold # profile.settlement_threshold => threshold >= SETTLEMENT_MIN
  /\ profile' = [profile EXCEPT !.settlement_enabled = enabled,
                               !.settlement_threshold = threshold]
  /\ UNCHANGED <<confirmed, wallet, row, task, paystack, held, credited>>

\* A review verifies or rejects; a new submission is pending again.
kyc_changes ==
  /\ "kyc_verified" \in MutableGates
  /\ profile' = [profile EXCEPT !.kyc_verified = ~@]
  /\ UNCHANGED <<confirmed, wallet, row, task, paystack, held, credited>>

momo_changes ==
  /\ "momo_verified" \in MutableGates
  /\ profile' = [profile EXCEPT !.momo_verified = ~@]
  /\ UNCHANGED <<confirmed, wallet, row, task, paystack, held, credited>>

suspend_changes ==
  /\ "is_active" \in MutableGates
  /\ profile' = [profile EXCEPT !.is_active = ~@]
  /\ UNCHANGED <<confirmed, wallet, row, task, paystack, held, credited>>

-----------------------------------------------------------------------------
(* Paystack *)

\* A transfer made again after a failure has webhooks, and keys, of its own.
Resolve(s, from, to) ==
  /\ transfer[s].status = from
  /\ transfer' = [transfer EXCEPT ![s].status = to]
  /\ events' = events \cup {<<s, to>>}
  /\ answered' = answered \ {<<s, to>>}
  /\ UNCHANGED <<confirmed, wallet, row, profile, task, overtaken, held, credited>>

paystack_resolves(s) ==
  \/ Resolve(s, "pending", "success")
  \/ Resolve(s, "pending", "failed")

paystack_reverses(s) ==
  /\ "reversal" \in Hazards
  /\ Resolve(s, "success", "reversed")

-----------------------------------------------------------------------------
Init ==
  /\ confirmed = {}
  /\ unsettled_balance = 0 /\ total_settled = 0 /\ ledger = <<>>
  /\ row = [s \in Settlements |-> NoRow]
  /\ profile \in {[kyc_verified |-> TRUE, settlement_enabled |-> TRUE,
                   momo_verified |-> TRUE, is_active |-> TRUE,
                   settlement_threshold |-> t] : t \in Thresholds \ 0 .. SETTLEMENT_MIN - 1}
  /\ outcome = [s \in Settlements |-> "none"]
  /\ reconcile_due = {}
  /\ transfer = [s \in Settlements |-> NoTransfer]
  /\ events = {} /\ answered = {} /\ overtaken = {}
  /\ held = 0 /\ credited = 0

Next ==
  \/ \E p \in Payments : payment_success(p) \/ \E plan \in Plans : credit_collection(p, plan)
  \/ \E s \in Settlements, a \in Amounts : request_settlement(s, a) \/ admin_force_settle(s, a)
  \/ \E s \in Settlements :
       \/ approve_settlement(s) \/ cancel_settlement(s) \/ retry_failed_merchant_settlement(s)
       \/ handle_transfer_success(s)
       \/ \E reason \in {"failed", "reversed"} : handle_transfer_failure(s, reason)
       \/ daily_merchant_auto_settlement(s) \/ send_chunk(s)
       \/ apply_bulk_transfer_outcomes(s) \/ worker_crash(s)
       \/ reconcile_merchant_settlement_batch(s)
       \/ paystack_resolves(s) \/ paystack_reverses(s)
  \/ \E e \in BOOLEAN, t \in Thresholds : update_settlement_config(e, t)
  \/ kyc_changes \/ momo_changes \/ suspend_changes

Spec == Init /\ [][Next]_vars

\* Paystack decides on every transfer and sends its webhook until it is answered,
\* which is once, whatever came of it; the daily task runs on.
FairSpec ==
  /\ Spec
  /\ \A s \in Settlements :
       /\ WF_vars(paystack_resolves(s))
       /\ WF_vars(<<s, "success">> \notin answered /\ handle_transfer_success(s))
       /\ \A reason \in {"failed", "reversed"} :
            WF_vars(<<s, reason>> \notin answered /\ handle_transfer_failure(s, reason))
       /\ WF_vars(send_chunk(s)) /\ WF_vars(apply_bulk_transfer_outcomes(s))

-----------------------------------------------------------------------------
(* Properties *)

RowType ==
  [status: {"none"} \cup InFlightStatuses \cup FinishedStatuses,
   amount: Nat, mode: {"manual", "auto", "admin"}, coded: BOOLEAN]

EntryType ==
  [type: {"credit", "fee", "debit", "reversal"}, of: Payments \cup Settlements,
   amount: Int, balance_after: Nat]

TransferType == [status: {"none", "pending", "success", "failed", "reversed"}, amount: Nat]

\* Every column has its type; balances are never negative, whatever happens.
TypeOK ==
  /\ confirmed \subseteq Payments
  /\ unsettled_balance \in Nat /\ total_settled \in Nat
  /\ ledger \in Seq(EntryType)
  /\ row \in [Settlements -> RowType]
  /\ profile \in [kyc_verified: BOOLEAN, settlement_enabled: BOOLEAN, momo_verified: BOOLEAN,
                  is_active: BOOLEAN, settlement_threshold: Thresholds]
  /\ outcome \in [Settlements -> {"none", "unsent", "pending", "uncoded",
                                 "success", "failed"}]
  /\ reconcile_due \subseteq Settlements
  /\ transfer \in [Settlements -> TransferType]
  /\ events \subseteq Settlements \X {"success", "failed", "reversed"}
  /\ answered \subseteq events /\ overtaken \subseteq Settlements
  /\ held \in Int /\ credited \in Int

\* The books never lose a merchant's money: what was credited is still in the
\* balance, in a settlement being processed, or counted as settled, however
\* payouts are forced, retried, clamped at zero, and webhooks repeated.
MerchantFundsCovered == credited <= unsettled_balance + held + total_settled

\* A collection is credited, and charged its fee, at most once.
CreditedOnce ==
  \A i, j \in DOMAIN ledger :
    ledger[i].type \in {"credit", "fee"} /\ ledger[j].type = ledger[i].type
      /\ ledger[j].of = ledger[i].of => i = j

\* A settlement has exactly one debit entry once it is completed, and none before,
\* however often it failed, was retried and was confirmed.  Where a webhook overtook
\* the commit, its debit is there and the row is not completed.
DebitedOnce ==
  \A s \in Settlements \ overtaken :
    LET debits == {i \in DOMAIN ledger : ledger[i].type = "debit" /\ ledger[i].of = s}
    IN IF row[s].status = "completed" THEN \E i \in debits : debits = {i} ELSE debits = {}

\* A completed settlement stays completed, with its amount.  (The approval that
\* writes over what its overtaking webhook completed does so within one step.)
CompletedIsFinal ==
  [][\A s \in Settlements : row[s].status = "completed" =>
        row'[s].status = "completed" /\ row'[s].amount = row[s].amount]_vars

\* Merchants' requests and the daily task never start a second settlement; only
\* an admin's force and the retry of a failed one can overlap another.
OneInFlight ==
  \A s, t \in InFlight :
    \/ s = t
    \/ row[s].mode = "admin" \/ row[t].mode = "admin"
    \/ \E i \in DOMAIN ledger : ledger[i].type = "reversal" /\ ledger[i].of \in {s, t}

\* No settlement is completed without money having left Paystack for it.
CompletedWasPaid ==
  \A s \in Settlements :
    row[s].status = "completed" => <<s, "success">> \in events

\* However webhooks, verifications and the nightly tasks repeat each other, the
\* ledger has each collection once, and each settlement once: when it is
\* completed, which it is only after money has left for it.
BookedOnce == CreditedOnce /\ DebitedOnce /\ CompletedWasPaid

\* What left, or is leaving, through Paystack never exceeds what was credited.
Outgoing == {s \in Settlements : transfer[s].status \in {"pending", "success"}}
SentAmounts == [s \in Settlements |-> transfer[s].amount]
NeverOverpays == SumFunctionOnSet(SentAmounts, Outgoing) <= credited

\* The books balance to the pesewa.
ExactAccounting == credited = unsettled_balance + held + total_settled

\* The ledger explains the balance: the sum of the credits, fees and debits is
\* the balance plus what a settlement in processing has set aside.
BookedAmounts == [i \in DOMAIN ledger |-> ledger[i].amount]
Booked(types) == {i \in DOMAIN ledger : ledger[i].type \in types}
LedgerSum(types) == SumFunctionOnSet(BookedAmounts, Booked(types))
LedgerExplainsBalance == LedgerSum({"credit", "fee", "debit"}) = unsettled_balance + held

\* When nothing goes wrong, the ledger accounts for the balance and the balance
\* backs every transfer.
LedgerBacksTransfers == LedgerExplainsBalance /\ NeverOverpays

\* One settlement at a time, set aside and then paid or given back as a whole.
Wallet == INSTANCE SettlementWallet WITH
  available <- unsettled_balance, on_hold <- held, paid_out <- total_settled
ImplementsWallet == Wallet!Spec

\* A settlement being processed is finished in the end, unless its only webhook
\* came before the row it speaks of was committed.
ProcessingEnds ==
  \A s \in Settlements :
    row[s].status = "processing" ~>
      row[s].status \in {"completed", "failed"} \/ s \in overtaken

\* Why the books balance when nothing goes wrong, per settlement: before a transfer
\* exists the row is not past processing, and what Paystack says of the transfer,
\* what its webhooks say and what the daily task was told all agree with the row.
SettlementInv(s) ==
  LET status == row[s].status
      sent == transfer[s].status
  IN
  /\ status \in {"none", "pending", "cancelled"} => sent = "none" /\ outcome[s] = "none"
  /\ status \in InFlightStatuses => row[s].amount > 0
  /\ status = "pending" => row[s].amount <= unsettled_balance
  /\ status = "processing" => held = row[s].amount
  /\ sent = "pending" => status = "processing"
  /\ sent = "success" => status \in {"processing", "completed"}
  /\ sent = "failed" => status \in {"processing", "failed"}
  /\ <<s, "success">> \in events => sent = "success"
  /\ <<s, "failed">> \in events => sent = "failed"
  /\ sent # "reversed" /\ <<s, "reversed">> \notin events
  /\ outcome[s] \in {"unsent", "failed"} => sent = "none" /\ status = "processing"
  /\ outcome[s] = "success" => sent = "success"

\* When nothing goes wrong the one settlement in flight holds all that is held,
\* its amount is covered by the balance as long as it is pending, and the row, the
\* transfer, its webhooks and the daily task never contradict each other.
NominalInv ==
  /\ ExactAccounting
  /\ \A s, t \in InFlight : s = t
  /\ (\A s \in Settlements : row[s].status # "processing") => held = 0
  /\ profile.settlement_threshold >= SETTLEMENT_MIN
  /\ \A s \in Settlements : SettlementInv(s)
===============================================================================
