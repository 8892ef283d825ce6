------------------------------ MODULE LoanService ------------------------------
(***************************************************************************)
(* The loans of one business (modules/credit, the loan part of modules/     *)
(* admin, workers/tasks): request, decision, confirmation by code, the      *)
(* transfer that pays a loan out, its webhooks and retries, and the daily   *)
(* task that collects instalments and closes the loan.                      *)
(*                                                                          *)
(* Each request is one database transaction, except for two that wait for   *)
(* Paystack between reading and writing.  initiate_disbursement is two      *)
(* steps: it reads the loan and asks for the transfer, and later writes over *)
(* whatever was committed meanwhile.  collect_due_repayments is one step    *)
(* per instalment and one commit at the end.                                *)
(***************************************************************************)
EXTENDS Integers

CONSTANTS
  Loans,
  Requests,        \* initiations of one loan that may be under way at once
  MaxTransfers,    \* bound: transfers Paystack accepts for one loan
  Instalments,     \* instalments of a loan's schedule, numbered from 1
  MAX_COLLECTION_ATTEMPTS,
  MaxRetries,      \* max_retries of retry_failed_disbursement
  TaskKnown,       \* do workers know the collection task by the name Beat sends?
                   \* In the code: FALSE
  Hazards          \* which kinds of trouble a run lets happen

AllHazards == {"admin_approval",  \* an admin approves a loan no lender has priced
               "overlap",         \* other requests run while an initiation waits for Paystack
               "lost_reply",      \* Paystack acts but its reply does not arrive
               "reversal",        \* a successful transfer is reversed
               "crash"}           \* a process dies: a webhook after its key is set, the task midway

ASSUME LoanAssumption ==
  /\ MaxTransfers \in Nat \ {0} /\ Instalments \in Nat \ {0}
  /\ MAX_COLLECTION_ATTEMPTS \in Nat \ {0} /\ MaxRetries \in Nat
  /\ TaskKnown \in BOOLEAN /\ Hazards \subseteq AllHazards

Parts == 1 .. Instalments
Codes == 1 .. MaxTransfers

VARIABLES
  status,       \* LoanRequest.status; "none": no row
  rate,         \* LoanRequest.interest_rate: "unset", "zero" or "positive"
  otp,          \* Redis: loans with a live confirmation code
  code,         \* LoanRequest.disbursement_transfer_code, by transfer; 0: unset
  initiation,   \* initiations waiting to write the code Paystack gave them; 0: none
  retries,      \* queued retries of a disbursement, with the attempts they have used
  instalment,   \* RepaymentInstalment.status; "none": no row
  attempts,     \* RepaymentInstalment.collection_attempts, counted up to the maximum
  days,         \* due dates and grace periods that have passed since the loan was disbursed
  outcome,      \* the daily task under way: what it has done with each instalment it loaded
  transfer,     \* Paystack: the transfers asked for each loan
  events,       \* transfer webhooks Paystack has sent, and goes on repeating
  seen,         \* Redis: webhooks marked as seen
  charge        \* Paystack: the charge behind each instalment

loan_rows == <<status, rate, code>>
schedule == <<instalment, attempts>>
paystack == <<transfer, events>>
vars == <<loan_rows, otp, initiation, retries, schedule, days, outcome, paystack, seen, charge>>

-----------------------------------------------------------------------------
(* The status machine *)

Open == {"pending_partner", "approved", "confirmed", "disbursing", "active"}
Disbursed == {"active", "repaid", "defaulted"}

Transitions ==
  {<<"pending_partner", "approved">>, <<"pending_partner", "rejected">>,
   <<"approved", "confirmed">>, <<"confirmed", "disbursing">>,
   <<"disbursing", "active">>, <<"disbursing", "confirmed">>,
   <<"active", "repaid">>, <<"active", "defaulted">>}

\* Anything the machine does not allow raises, and the request rolls back.
Transition(l, to) ==
  /\ <<status[l], to>> \in Transitions
  /\ status' = [status EXCEPT ![l] = to]

\* May a request about l run now?  Unless they overlap, not while an initiation waits
\* and not between the last retry and its escalation.
Undisturbed(l) ==
  \/ "overlap" \in Hazards
  \/ (\A r \in Requests : initiation[l][r] = 0) /\ <<l, MaxRetries + 1>> \notin retries

-----------------------------------------------------------------------------
(* Request, decision, confirmation *)

\* Mutant: a loan being disbursed is forgotten.
create_loan_request_while_disbursing(l) ==
  /\ status[l] = "none"
  /\ \A other \in Loans : status[other] \notin Open \ {"disbursing"}
  /\ status' = [status EXCEPT ![l] = "pending_partner"]
  /\ UNCHANGED <<rate, otp, code, initiation, retries, schedule, days, outcome, paystack, seen, charge>>

create_loan_request(l) ==
  /\ status[l] = "none"
  /\ \A other \in Loans : status[other] \notin Open
  /\ status' = [status EXCEPT ![l] = "pending_partner"]
  /\ UNCHANGED <<rate, otp, code, initiation, retries, schedule, days, outcome, paystack, seen, charge>>

\* The router refuses a lender's decision without a rate, or with a zero one.
lender_approve(l) ==
  /\ Transition(l, "approved")
  /\ rate' = [rate EXCEPT ![l] = "positive"]
  /\ otp' = otp \cup {l}
  /\ UNCHANGED <<code, initiation, retries, schedule, days, outcome, paystack, seen, charge>>

\* An admin's approval sets a missing rate to zero and sends no code.
admin_approve(l) ==
  /\ "admin_approval" \in Hazards
  /\ Transition(l, "approved")
  /\ rate' = [rate EXCEPT ![l] = "zero"]
  /\ UNCHANGED <<otp, code, initiation, retries, schedule, days, outcome, paystack, seen, charge>>

lender_reject(l) ==
  /\ Transition(l, "rejected")
  /\ UNCHANGED <<rate, otp, code, initiation, retries, schedule, days, outcome, paystack, seen, charge>>

send_loan_confirm_otp(l) ==
  /\ status[l] = "approved"
  /\ otp' = otp \cup {l}
  /\ UNCHANGED <<loan_rows, initiation, retries, schedule, days, outcome, paystack, seen, charge>>

otp_expires(l) ==
  /\ l \in otp
  /\ otp' = otp \ {l}
  /\ UNCHANGED <<loan_rows, initiation, retries, schedule, days, outcome, paystack, seen, charge>>

confirm_loan(l) ==
  /\ Transition(l, "confirmed")
  /\ l \in otp
  /\ otp' = otp \ {l}
  /\ UNCHANGED <<rate, code, initiation, retries, schedule, days, outcome, paystack, seen, charge>>

-----------------------------------------------------------------------------
(* Disbursement *)

\* Mutant: every attempt has a reference of its own.
InUse_never(l) == {}

\* The transfers Paystack has in progress, or has paid, under the loan's reference,
\* which is the same for every attempt: it does not pay the reference again.
InUse(l) == {n \in Codes : transfer[l][n] \in {"pending", "success"}}

Untried(l) == {n \in Codes : transfer[l][n] = "none"}

Accept(l, n) == n \in Untried(l) /\ transfer' = [transfer EXCEPT ![l][n] = "pending"]

\* Paystack answers with a transfer: a new one, or the one it already has.
Answered(l, r) ==
  \E n \in Codes :
    /\ initiation' = [initiation EXCEPT ![l][r] = n]
    /\ \/ InUse(l) = {} /\ Accept(l, n)
       \/ n \in InUse(l) /\ UNCHANGED transfer

\* Paystack refuses, or its reply is lost: the call raises and the request rolls back.
Unanswered(l) ==
  /\ UNCHANGED initiation
  /\ \/ UNCHANGED transfer
     \/ "lost_reply" \in Hazards /\ InUse(l) = {} /\ \E n \in Codes : Accept(l, n)

\* initiate_disbursement up to Paystack's answer, for an admin.
disburse_loan(l, r) ==
  /\ status[l] = "confirmed"
  /\ initiation[l][r] = 0
  /\ Undisturbed(l)
  /\ Answered(l, r) \/ Unanswered(l)
  /\ UNCHANGED <<loan_rows, otp, retries, schedule, days, outcome, events, seen, charge>>

\* Its second half: status and code are written over what the row holds by now.
initiation_commits(l, r) ==
  /\ initiation[l][r] # 0
  /\ status' = [status EXCEPT ![l] = "disbursing"]
  /\ code' = [code EXCEPT ![l] = initiation[l][r]]
  /\ initiation' = [initiation EXCEPT ![l][r] = 0]
  /\ UNCHANGED <<rate, otp, retries, schedule, days, outcome, paystack, seen, charge>>

\* An admin queues a retry by hand.
retry_disbursement(l) ==
  /\ status[l] \in {"confirmed", "disbursing"}
  /\ retries' = retries \cup {<<l, 0>>}
  /\ UNCHANGED <<loan_rows, otp, initiation, schedule, days, outcome, paystack, seen, charge>>

\* Mutant: one retry too many.
MayRetry_once_more(used) == used <= MaxRetries + 1

MayRetry(used) == used <= MaxRetries

\* The task: a loan that is not confirmed is left alone, a call that raises is
\* tried again, and after the last retry escalated.
retry_failed_disbursement(l, used, r) ==
  /\ <<l, used>> \in retries /\ MayRetry(used)
  /\ Undisturbed(l)
  /\ \/ /\ status[l] # "confirmed"
        /\ retries' = retries \ {<<l, used>>}
        /\ UNCHANGED <<initiation, transfer>>
     \/ /\ status[l] = "confirmed"
        /\ initiation[l][r] = 0
        /\ \/ Answered(l, r) /\ retries' = retries \ {<<l, used>>}
           \/ Unanswered(l) /\ retries' = (retries \ {<<l, used>>}) \cup {<<l, used + 1>>}
  /\ UNCHANGED <<loan_rows, otp, schedule, days, outcome, events, seen, charge>>

\* The last attempt has failed; a loan somebody else has moved to disbursing
\* meanwhile is moved back.
escalate_disbursement_failure(l) ==
  /\ <<l, MaxRetries + 1>> \in retries
  /\ retries' = retries \ {<<l, MaxRetries + 1>>}
  /\ status' = IF status[l] = "disbursing" THEN [status EXCEPT ![l] = "confirmed"] ELSE status
  /\ UNCHANGED <<rate, otp, code, initiation, schedule, days, outcome, paystack, seen, charge>>

-----------------------------------------------------------------------------
(* Webhooks *)

Scheduled(l) == \E k \in Parts : instalment[l][k] # "none"

\* _ensure_repayment_schedule; it raises when the rate is missing, or zero.
EnsureSchedule(l) ==
  \/ Scheduled(l) /\ UNCHANGED schedule
  \/ /\ ~Scheduled(l)
     /\ rate[l] = "positive"
     /\ instalment' = [instalment EXCEPT ![l] = [k \in Parts |-> "pending"]]
     /\ attempts' = [attempts EXCEPT ![l] = [k \in Parts |-> 0]]

\* Does confirm_disbursement go through for a loan it has found?
Confirmable(l) == status[l] = "disbursing" /\ (Scheduled(l) \/ rate[l] = "positive")

\* The loan is looked up by the transfer's code.
Matches(l, n) == code[l] = n

\* A webhook is marked as seen before it is handled, and stays so when the handler
\* raises, or dies.
handle_transfer_success(l, n) ==
  LET event == <<l, n, "success">> IN
  /\ event \in events \ seen
  /\ Undisturbed(l)
  /\ seen' = seen \cup {event}
  /\ \/ /\ Matches(l, n) /\ Confirmable(l)
        /\ Transition(l, "active")
        /\ EnsureSchedule(l)
     \/ /\ (Matches(l, n) /\ Confirmable(l)) => "crash" \in Hazards
        /\ UNCHANGED <<status, schedule>>
  /\ UNCHANGED <<rate, code, otp, initiation, retries, days, outcome, paystack, charge>>

\* Whatever the status of the loan it finds, a retry is queued.
handle_transfer_failure(l, n, kind) ==
  LET event == <<l, n, kind>> IN
  /\ kind \in {"failed", "reversed"}
  /\ event \in events \ seen
  /\ Undisturbed(l)
  /\ seen' = seen \cup {event}
  /\ \/ /\ Matches(l, n)
        /\ \/ status[l] = "disbursing" /\ Transition(l, "confirmed")
           \/ status[l] # "disbursing" /\ UNCHANGED status
        /\ retries' = retries \cup {<<l, 0>>}
     \/ /\ Matches(l, n) => "crash" \in Hazards
        /\ UNCHANGED <<status, retries>>
  /\ UNCHANGED <<rate, code, otp, initiation, schedule, days, outcome, paystack, charge>>

-----------------------------------------------------------------------------
(* Collection *)

Collecting == \E l \in Loans, k \in Parts : outcome[l][k] # "idle"

\* Each instalment's due date and, three days later, the end of its grace.
Due(l, k) == days[l] >= 2 * k - 1
PastGrace(l, k) == days[l] >= 2 * k

\* Mutant: a failed instalment is not looked at again.
Collectable_once(l, k) == instalment[l][k] = "pending" /\ Due(l, k)

Collectable(l, k) == instalment[l][k] \in {"pending", "failed"} /\ Due(l, k)

\* Beat sends the task every day; a worker discards a name it does not know.  The
\* task loads what is due.
collect_due_repayments ==
  /\ TaskKnown
  /\ ~Collecting
  /\ \E l \in Loans, k \in Parts : Collectable(l, k)
  /\ outcome' = [l \in Loans |-> [k \in Parts |-> IF Collectable(l, k) THEN "loaded" ELSE "idle"]]
  /\ UNCHANGED <<loan_rows, otp, initiation, retries, schedule, days, paystack, seen, charge>>

\* Mutant: an instalment is given up without asking for it often enough.
GivenUp_early(l, k) == PastGrace(l, k)

GivenUp(l, k) == PastGrace(l, k) /\ attempts[l][k] >= MAX_COLLECTION_ATTEMPTS

\* Paystack does not charge a reference again that is in progress or paid.
Chargeable(l, k) == charge[l][k] \in {"none", "failed"}

\* Paystack's answer to a charge; a pending one counts as paid.
attempt_collection(l, k, result) ==
  \/ /\ Chargeable(l, k)
     /\ \E answer \in {"pending", "success", "failed"} :
          /\ charge' = [charge EXCEPT ![l][k] = answer]
          /\ \/ result = (IF answer = "failed" THEN "failed" ELSE "paid")
             \/ "lost_reply" \in Hazards /\ result = "failed"
  \/ result = "failed" /\ UNCHANGED charge

\* One instalment, in the order of due dates.
collect_instalment(l, k) ==
  /\ outcome[l][k] = "loaded"
  /\ \A j \in Parts : j < k => outcome[l][j] # "loaded"
  /\ \E result \in {"paid", "failed", "defaulted"} :
       /\ outcome' = [outcome EXCEPT ![l][k] = result]
       /\ \/ GivenUp(l, k) /\ result = "defaulted" /\ UNCHANGED charge
          \/ ~GivenUp(l, k) /\ attempt_collection(l, k, result)
  /\ UNCHANGED <<loan_rows, otp, initiation, retries, schedule, days, paystack, seen>>

\* The status of an instalment, and its attempts, as the task's session has them.
Status(l, k) == IF outcome[l][k] = "idle" THEN instalment[l][k] ELSE outcome[l][k]
Attempts(l, k) ==
  IF outcome[l][k] \in {"paid", "failed"} /\ attempts[l][k] < MAX_COLLECTION_ATTEMPTS
  THEN attempts[l][k] + 1 ELSE attempts[l][k]

Unpaid(l) == {k \in Parts : Status(l, k) # "paid"}

\* Mutant: one defaulted instalment defaults the loan.
check_and_mark_defaulted_any(l) ==
  IF Unpaid(l) = {} THEN "repaid"
  ELSE IF \E k \in Unpaid(l) : Status(l, k) = "defaulted" THEN "defaulted" ELSE "active"

check_and_mark_defaulted(l) ==
  IF Unpaid(l) = {} THEN "repaid"
  ELSE IF \A k \in Unpaid(l) : Status(l, k) = "defaulted" THEN "defaulted" ELSE "active"

\* The end of the task: loans it has touched are closed if they are settled, and
\* everything is committed.
collect_commits ==
  /\ Collecting
  /\ \A l \in Loans, k \in Parts : outcome[l][k] # "loaded"
  /\ instalment' = [l \in Loans |-> [k \in Parts |-> Status(l, k)]]
  /\ attempts' = [l \in Loans |-> [k \in Parts |-> Attempts(l, k)]]
  /\ status' = [l \in Loans |->
                  IF status[l] = "active" /\ \E k \in Parts : outcome[l][k] # "idle"
                  THEN check_and_mark_defaulted(l) ELSE status[l]]
  /\ outcome' = [l \in Loans |-> [k \in Parts |-> "idle"]]
  /\ UNCHANGED <<rate, code, otp, initiation, retries, days, paystack, seen, charge>>

\* The worker is killed, at the latest by its time limit; nothing was committed.
collect_dies ==
  /\ "crash" \in Hazards
  /\ Collecting
  /\ outcome' = [l \in Loans |-> [k \in Parts |-> "idle"]]
  /\ UNCHANGED <<loan_rows, otp, initiation, retries, schedule, days, paystack, seen, charge>>

-----------------------------------------------------------------------------
(* Time, Paystack, customers *)

\* A due date, or the end of a grace period: far longer than a request or a run of
\* the task takes.
day_passes(l) ==
  /\ Scheduled(l) /\ days[l] < 2 * Instalments
  /\ ~Collecting
  /\ \A r \in Requests : initiation[l][r] = 0
  /\ days' = [days EXCEPT ![l] = @ + 1]
  /\ UNCHANGED <<loan_rows, otp, initiation, retries, schedule, outcome, paystack, seen, charge>>

Resolve(l, n, from, to) ==
  /\ transfer[l][n] = from
  /\ transfer' = [transfer EXCEPT ![l][n] = to]
  /\ events' = events \cup {<<l, n, to>>}
  /\ UNCHANGED <<loan_rows, otp, initiation, retries, schedule, days, outcome, seen, charge>>

paystack_resolves(l, n) ==
  Resolve(l, n, "pending", "success") \/ Resolve(l, n, "pending", "failed")

paystack_reverses(l, n) ==
  "reversal" \in Hazards /\ Resolve(l, n, "success", "reversed")

\* The merchant answers the prompt.  No webhook of a charge the task has made
\* finds its instalment.
merchant_decides(l, k) ==
  /\ charge[l][k] = "pending"
  /\ \E answer \in {"success", "failed"} : charge' = [charge EXCEPT ![l][k] = answer]
  /\ UNCHANGED <<loan_rows, otp, initiation, retries, schedule, days, outcome, paystack, seen>>

-----------------------------------------------------------------------------
Init ==
  /\ status = [l \in Loans |-> "none"]
  /\ rate = [l \in Loans |-> "unset"]
  /\ otp = {}
  /\ code = [l \in Loans |-> 0]
  /\ initiation = [l \in Loans |-> [r \in Requests |-> 0]]
  /\ retries = {}
  /\ instalment = [l \in Loans |-> [k \in Parts |-> "none"]]
  /\ attempts = [l \in Loans |-> [k \in Parts |-> 0]]
  /\ days = [l \in Loans |-> 0]
  /\ outcome = [l \in Loans |-> [k \in Parts |-> "idle"]]
  /\ transfer = [l \in Loans |-> [n \in Codes |-> "none"]]
  /\ events = {} /\ seen = {}
  /\ charge = [l \in Loans |-> [k \in Parts |-> "none"]]

Disburse(l) ==
  \/ \E r \in Requests :
       \/ disburse_loan(l, r) \/ initiation_commits(l, r)
       \/ \E used \in 0 .. MaxRetries + 1 : retry_failed_disbursement(l, used, r)
  \/ retry_disbursement(l) \/ escalate_disbursement_failure(l)
  \/ \E n \in Codes :
       \/ handle_transfer_success(l, n)
       \/ \E kind \in {"failed", "reversed"} : handle_transfer_failure(l, n, kind)
       \/ paystack_resolves(l, n) \/ paystack_reverses(l, n)

Next ==
  \/ \E l \in Loans :
       \/ create_loan_request(l)
       \/ lender_approve(l) \/ admin_approve(l) \/ lender_reject(l)
       \/ send_loan_confirm_otp(l) \/ otp_expires(l) \/ confirm_loan(l)
       \/ Disburse(l)
       \/ day_passes(l)
       \/ \E k \in Parts : collect_instalment(l, k) \/ merchant_decides(l, k)
  \/ collect_due_repayments \/ collect_commits \/ collect_dies

Spec == Init /\ [][Next]_vars

\* Paystack decides on every transfer and repeats its webhooks, requests and tasks
\* end, and days pass with the daily task run on each of them.
FairSpec ==
  /\ Spec
  /\ \A l \in Loans :
       /\ WF_vars(\E r \in Requests : initiation_commits(l, r))
       /\ \A n \in Codes :
            /\ WF_vars(paystack_resolves(l, n))
            /\ WF_vars(handle_transfer_success(l, n))
            /\ \A kind \in {"failed", "reversed"} : WF_vars(handle_transfer_failure(l, n, kind))
       /\ SF_vars(day_passes(l))
       /\ \A k \in Parts : WF_vars(collect_instalment(l, k))
  /\ WF_vars(collect_due_repayments) /\ WF_vars(collect_commits)

-----------------------------------------------------------------------------
TypeOK ==
  /\ status \in [Loans -> Open \cup {"none", "rejected", "repaid", "defaulted"}]
  /\ rate \in [Loans -> {"unset", "zero", "positive"}]
  /\ otp \subseteq Loans
  /\ code \in [Loans -> {0} \cup Codes]
  /\ initiation \in [Loans -> [Requests -> {0} \cup Codes]]
  /\ retries \subseteq Loans \X (0 .. MaxRetries + 1)
  /\ instalment \in [Loans -> [Parts -> {"none", "pending", "paid", "failed", "defaulted"}]]
  /\ attempts \in [Loans -> [Parts -> 0 .. MAX_COLLECTION_ATTEMPTS]]
  /\ days \in [Loans -> 0 .. 2 * Instalments]
  /\ outcome \in [Loans -> [Parts -> {"idle", "loaded", "paid", "failed", "defaulted"}]]
  /\ transfer \in [Loans -> [Codes -> {"none", "pending", "success", "failed", "reversed"}]]
  /\ events \subseteq Loans \X Codes \X {"success", "failed", "reversed"}
  /\ seen \subseteq events
  /\ charge \in [Loans -> [Parts -> {"none", "pending", "success", "failed"}]]

\* However often a loan's disbursement is started, retried or escalated, and by how
\* many at once, its money is not on its way, or with the merchant, twice.
SentOnce ==
  \A l \in Loans, m, n \in Codes :
    {transfer[l][m], transfer[l][n]} \subseteq {"pending", "success"} => m = n

\* A merchant is only made to repay what was sent.
LentWasSent ==
  \A l \in Loans :
    status[l] \in Disbursed \/ Scheduled(l) =>
      \E n \in Codes : transfer[l][n] \in {"success", "reversed"}

\* Money is sent for a loan once, and a loan counts as lent only if it was sent,
\* whichever of the attempts, retries and webhooks comes last.
LentOnce == SentOnce /\ LentWasSent

\* The daily task closes a loan when, and only when, all its instalments are settled,
\* as repaid only if all of them were paid.
ClosedWhenSettled ==
  \A l \in Loans : status[l] \in Disbursed =>
    /\ (status[l] = "active") <=> \E k \in Parts : instalment[l][k] \in {"pending", "failed"}
    /\ (status[l] = "repaid") <=> \A k \in Parts : instalment[l][k] = "paid"

\* An instalment is given up only after its grace and the full number of attempts,
\* however often the task died.
GivenUpLast ==
  \A l \in Loans, k \in Parts :
    instalment[l][k] = "defaulted" => PastGrace(l, k) /\ attempts[l][k] = MAX_COLLECTION_ATTEMPTS

\* A merchant is asked only for what he owes: a charge is begun for an instalment that
\* is due and not settled, of a loan that is lent and not closed, although the task
\* looks at the instalments and not at their loan, and others change the loan.
AsksWhatIsOwed ==
  [][\A l \in Loans, k \in Parts :
       charge'[l][k] # charge[l][k] /\ charge[l][k] # "pending" =>
         status[l] = "active" /\ instalment[l][k] \in {"pending", "failed"} /\ Due(l, k)]_vars

\* An active loan ends, repaid or defaulted, if the daily task runs.
LoanCloses == \A l \in Loans : status[l] = "active" ~> status[l] \in {"repaid", "defaulted"}

\* A loan being disbursed becomes active, or can be disbursed again.
DisbursementEnds == \A l \in Loans : status[l] = "disbursing" ~> status[l] # "disbursing"

\* No loan stays on its way: it is disbursed or can be disbursed again, and once
\* it is active it is closed.
LoansMoveOn == LoanCloses /\ DisbursementEnds

-----------------------------------------------------------------------------
(* The contract *)

Stage(state) ==
  CASE state = "pending_partner" -> "asked"
    [] state \in {"approved", "confirmed", "disbursing"} -> "agreed"
    [] state = "rejected" -> "refused"
    [] state = "active" -> "lent"
    [] OTHER -> state

stage == [l \in Loans |-> Stage(status[l])]
sent == {l \in Loans : \E n \in Codes : transfer[l][n] \in {"success", "reversed"}}
owed == [l \in Loans |-> {k \in Parts : instalment[l][k] \in {"pending", "failed"}}]
lost == [l \in Loans |-> {k \in Parts : instalment[l][k] = "defaulted"}]

Contract == INSTANCE LoanContract

\* As long as no other request runs while an initiation waits for Paystack, the
\* service keeps the contract, through lost replies, reversals and crashes.
ImplementsContract == Contract!Spec
===============================================================================
