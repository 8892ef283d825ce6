--------------------------- MODULE LoanServiceProofs ---------------------------
(***************************************************************************)
(* Theorems about LoanService, for any number of loans, requests,          *)
(* instalments, attempts and retries.  Those about the contract assume that *)
(* no other request about a loan runs while an initiation waits.           *)
(***************************************************************************)
EXTENDS LoanService, TLAPS

-----------------------------------------------------------------------------
(* Types *)

Transfers == {"none", "pending", "success", "failed", "reversed"}

(* One entry of a table, written over. *)
LEMMA EntryType ==
  ASSUME NEW A, NEW B, NEW S, NEW f \in [A -> [B -> S]], NEW a \in A, NEW b \in B, NEW v \in S
  PROVE  [f EXCEPT ![a][b] = v] \in [A -> [B -> S]]
OBVIOUS

LEMMA AcceptType ==
  ASSUME TypeOK, NEW l \in Loans, NEW n \in Codes, Accept(l, n)
  PROVE  transfer' \in [Loans -> [Codes -> Transfers]]
<1>1. transfer \in [Loans -> [Codes -> Transfers]] /\ "pending" \in Transfers
  BY DEF TypeOK, Transfers
<1>2. [transfer EXCEPT ![l][n] = "pending"] \in [Loans -> [Codes -> Transfers]]
  BY <1>1, EntryType
<1> QED
  BY <1>2 DEF Accept

(* What Paystack's answer to an initiation does to the types. *)
LEMMA AnswerType ==
  ASSUME TypeOK, NEW l \in Loans, NEW r \in Requests,
         Answered(l, r) \/ Unanswered(l)
  PROVE  /\ initiation' \in [Loans -> [Requests -> {0} \cup Codes]]
         /\ transfer' \in [Loans -> [Codes -> Transfers]]
<1>0. /\ transfer \in [Loans -> [Codes -> Transfers]]
      /\ initiation \in [Loans -> [Requests -> {0} \cup Codes]]
  BY DEF TypeOK, Transfers
<1>1. CASE Answered(l, r)
  <2>1. PICK n \in Codes : /\ initiation' = [initiation EXCEPT ![l][r] = n]
                           /\ Accept(l, n) \/ UNCHANGED transfer
    BY <1>1 DEF Answered
  <2>2. initiation' \in [Loans -> [Requests -> {0} \cup Codes]]
    BY <1>0, <2>1, EntryType
  <2> QED
    BY <1>0, <2>1, <2>2, AcceptType
<1>2. CASE Unanswered(l)
  BY <1>0, <1>2, AcceptType DEF Unanswered
<1> QED
  BY <1>1, <1>2

LEMMA TransitionType ==
  ASSUME TypeOK, NEW l \in Loans, NEW to, Transition(l, to)
  PROVE  status' \in [Loans -> Open \cup {"none", "rejected", "repaid", "defaulted"}]
<1>1. to \in Open \cup {"rejected", "repaid", "defaulted"}
  BY DEF Transition, Transitions, Open
<1> QED
  BY <1>1 DEF Transition, TypeOK

LEMMA RetryQueued ==
  ASSUME NEW l \in Loans, NEW used \in 0 .. MaxRetries, retries \subseteq Loans \X (0 .. MaxRetries + 1)
  PROVE  /\ retries \cup {<<l, 0>>} \subseteq Loans \X (0 .. MaxRetries + 1)
         /\ (retries \ {<<l, used>>}) \cup {<<l, used + 1>>} \subseteq Loans \X (0 .. MaxRetries + 1)
<1>1. 0 \in 0 .. MaxRetries + 1 /\ used + 1 \in 0 .. MaxRetries + 1
  BY LoanAssumption
<1> QED
  BY <1>1

LEMMA InitType == Init => TypeOK
BY LoanAssumption DEF Init, TypeOK

LEMMA RequestType ==
  ASSUME TypeOK, NEW l \in Loans,
         \/ create_loan_request(l) \/ lender_approve(l) \/ admin_approve(l) \/ lender_reject(l)
         \/ send_loan_confirm_otp(l) \/ otp_expires(l) \/ confirm_loan(l)
  PROVE  TypeOK'
<1>1. CASE create_loan_request(l)
  BY <1>1 DEF create_loan_request, TypeOK, Open, schedule, paystack
<1>2. CASE lender_approve(l)
  BY <1>2, TransitionType DEF lender_approve, TypeOK, schedule, paystack
<1>3. CASE admin_approve(l)
  BY <1>3, TransitionType DEF admin_approve, TypeOK, schedule, paystack
<1>4. CASE lender_reject(l)
  BY <1>4, TransitionType DEF lender_reject, TypeOK, schedule, paystack
<1>5. CASE send_loan_confirm_otp(l)
  BY <1>5 DEF send_loan_confirm_otp, TypeOK, schedule, paystack, loan_rows
<1>6. CASE otp_expires(l)
  BY <1>6 DEF otp_expires, TypeOK, schedule, paystack, loan_rows
<1>7. CASE confirm_loan(l)
  BY <1>7, TransitionType DEF confirm_loan, TypeOK, schedule, paystack
<1> QED
  BY <1>1, <1>2, <1>3, <1>4, <1>5, <1>6, <1>7

LEMMA DisburseType ==
  ASSUME TypeOK, NEW l \in Loans, Disburse(l)
  PROVE  TypeOK'
<1>1. ASSUME NEW r \in Requests, disburse_loan(l, r) PROVE TypeOK'
  BY <1>1, AnswerType DEF disburse_loan, TypeOK, Transfers, schedule, loan_rows
<1>2. ASSUME NEW r \in Requests, initiation_commits(l, r) PROVE TypeOK'
  BY <1>2 DEF initiation_commits, TypeOK, Open, schedule, paystack
<1>3. ASSUME NEW r \in Requests, NEW used \in 0 .. MaxRetries + 1,
             retry_failed_disbursement(l, used, r)
      PROVE  TypeOK'
  <2>1. used \in 0 .. MaxRetries
    BY <1>3, LoanAssumption DEF retry_failed_disbursement, MayRetry
  <2>2. retries' \subseteq Loans \X (0 .. MaxRetries + 1)
    BY <1>3, <2>1, RetryQueued DEF retry_failed_disbursement, TypeOK
  <2>3. /\ initiation' \in [Loans -> [Requests -> {0} \cup Codes]]
        /\ transfer' \in [Loans -> [Codes -> Transfers]]
    BY <1>3, AnswerType DEF retry_failed_disbursement, TypeOK, Transfers
  <2> QED
    BY <1>3, <2>2, <2>3 DEF retry_failed_disbursement, TypeOK, Transfers, schedule, loan_rows
<1>4. CASE retry_disbursement(l)
  <2>1. retries' \subseteq Loans \X (0 .. MaxRetries + 1)
    BY <1>4, RetryQueued, LoanAssumption DEF retry_disbursement, TypeOK
  <2> QED
    BY <1>4, <2>1 DEF retry_disbursement, TypeOK, schedule, paystack, loan_rows
<1>5. CASE escalate_disbursement_failure(l)
  BY <1>5 DEF escalate_disbursement_failure, TypeOK, Open, schedule, paystack
<1>6. ASSUME NEW n \in Codes, handle_transfer_success(l, n) PROVE TypeOK'
  <2>1. status' \in [Loans -> Open \cup {"none", "rejected", "repaid", "defaulted"}]
    BY <1>6, TransitionType DEF handle_transfer_success, TypeOK
  <2>2. /\ instalment' \in [Loans -> [Parts -> {"none", "pending", "paid", "failed", "defaulted"}]]
        /\ attempts' \in [Loans -> [Parts -> 0 .. MAX_COLLECTION_ATTEMPTS]]
    <3>1. CASE UNCHANGED schedule
      BY <3>1 DEF schedule, TypeOK
    <3>2. CASE EnsureSchedule(l) /\ ~UNCHANGED schedule
      <4>1. 0 \in 0 .. MAX_COLLECTION_ATTEMPTS
        BY LoanAssumption
      <4>2. /\ instalment' = [instalment EXCEPT ![l] = [k \in Parts |-> "pending"]]
            /\ attempts' = [attempts EXCEPT ![l] = [k \in Parts |-> 0]]
        BY <3>2 DEF EnsureSchedule
      <4> QED
        BY <4>1, <4>2 DEF TypeOK
    <3> QED
      BY <1>6, <3>1, <3>2 DEF handle_transfer_success
  <2>3. seen' \subseteq events
    BY <1>6 DEF handle_transfer_success, TypeOK
  <2> QED
    BY <1>6, <2>1, <2>2, <2>3 DEF handle_transfer_success, TypeOK, paystack
<1>7. ASSUME NEW n \in Codes, NEW kind \in {"failed", "reversed"}, handle_transfer_failure(l, n, kind)
      PROVE  TypeOK'
  <2>1. status' \in [Loans -> Open \cup {"none", "rejected", "repaid", "defaulted"}]
    BY <1>7, TransitionType DEF handle_transfer_failure, TypeOK
  <2>2. retries' \subseteq Loans \X (0 .. MaxRetries + 1)
    BY <1>7, RetryQueued, LoanAssumption DEF handle_transfer_failure, TypeOK
  <2>3. seen' \subseteq events
    BY <1>7 DEF handle_transfer_failure, TypeOK
  <2> QED
    BY <1>7, <2>1, <2>2, <2>3 DEF handle_transfer_failure, TypeOK, paystack, schedule
<1>8. ASSUME NEW n \in Codes, paystack_resolves(l, n) \/ paystack_reverses(l, n)
      PROVE  TypeOK'
  <2>1. PICK from \in Transfers, to \in {"success", "failed", "reversed"} : Resolve(l, n, from, to)
    BY <1>8 DEF paystack_resolves, paystack_reverses, Transfers
  <2>2. transfer' \in [Loans -> [Codes -> Transfers]]
    <3>1. transfer \in [Loans -> [Codes -> Transfers]] /\ to \in Transfers
      BY DEF TypeOK, Transfers
    <3>2. [transfer EXCEPT ![l][n] = to] \in [Loans -> [Codes -> Transfers]]
      BY <3>1, EntryType
    <3> QED
      BY <2>1, <3>2 DEF Resolve
  <2>3. /\ events' \subseteq Loans \X Codes \X {"success", "failed", "reversed"}
        /\ seen' \subseteq events'
    BY <2>1 DEF Resolve, TypeOK
  <2> QED
    BY <2>1, <2>2, <2>3 DEF Resolve, TypeOK, Transfers, schedule, loan_rows
<1> QED
  BY <1>1, <1>2, <1>3, <1>4, <1>5, <1>6, <1>7, <1>8 DEF Disburse

LEMMA CollectType ==
  ASSUME TypeOK,
         \/ collect_due_repayments \/ collect_commits \/ collect_dies
         \/ \E l \in Loans : \/ day_passes(l)
                             \/ \E k \in Parts : collect_instalment(l, k) \/ merchant_decides(l, k)
  PROVE  TypeOK'
<1>1. CASE collect_due_repayments
  BY <1>1 DEF collect_due_repayments, TypeOK, schedule, paystack, loan_rows
<1>2. CASE collect_commits
  <2>1. instalment' \in [Loans -> [Parts -> {"none", "pending", "paid", "failed", "defaulted"}]]
    BY <1>2 DEF collect_commits, TypeOK, Status
  <2>2. ASSUME NEW l \in Loans, NEW k \in Parts
        PROVE  Attempts(l, k) \in 0 .. MAX_COLLECTION_ATTEMPTS
    BY LoanAssumption DEF TypeOK, Attempts
  <2>3. attempts' \in [Loans -> [Parts -> 0 .. MAX_COLLECTION_ATTEMPTS]]
    BY <1>2, <2>2 DEF collect_commits
  <2>4. status' \in [Loans -> Open \cup {"none", "rejected", "repaid", "defaulted"}]
    BY <1>2 DEF collect_commits, TypeOK, Open, check_and_mark_defaulted
  <2> QED
    BY <1>2, <2>1, <2>3, <2>4 DEF collect_commits, TypeOK, paystack
<1>3. CASE collect_dies
  BY <1>3 DEF collect_dies, TypeOK, schedule, paystack, loan_rows
<1>4. ASSUME NEW l \in Loans, day_passes(l) PROVE TypeOK'
  <2>1. days[l] + 1 \in 0 .. 2 * Instalments
    BY <1>4, LoanAssumption DEF day_passes, TypeOK
  <2> QED
    BY <1>4, <2>1 DEF day_passes, TypeOK, schedule, paystack, loan_rows
<1>5. ASSUME NEW l \in Loans, NEW k \in Parts, collect_instalment(l, k) PROVE TypeOK'
  <2>1. charge' \in [Loans -> [Parts -> {"none", "pending", "success", "failed"}]]
    <3>1. PICK answer \in {"none", "pending", "success", "failed"} :
            charge' = [charge EXCEPT ![l][k] = answer] \/ UNCHANGED charge
      BY <1>5 DEF collect_instalment, attempt_collection
    <3>2. [charge EXCEPT ![l][k] = answer]
             \in [Loans -> [Parts -> {"none", "pending", "success", "failed"}]]
      BY EntryType DEF TypeOK
    <3> QED
      BY <3>1, <3>2 DEF TypeOK
  <2>2. outcome' \in [Loans -> [Parts -> {"idle", "loaded", "paid", "failed", "defaulted"}]]
    <3>1. PICK result \in {"idle", "loaded", "paid", "failed", "defaulted"} :
            outcome' = [outcome EXCEPT ![l][k] = result]
      BY <1>5 DEF collect_instalment
    <3> QED
      BY <3>1, EntryType DEF TypeOK
  <2> QED
    BY <1>5, <2>1, <2>2 DEF collect_instalment, TypeOK, schedule, paystack, loan_rows
<1>6. ASSUME NEW l \in Loans, NEW k \in Parts, merchant_decides(l, k) PROVE TypeOK'
  BY <1>6 DEF merchant_decides, TypeOK, schedule, paystack, loan_rows
<1> QED
  BY <1>1, <1>2, <1>3, <1>4, <1>5, <1>6

LEMMA TypeStep == TypeOK /\ [Next]_vars => TypeOK'
<1> SUFFICES ASSUME TypeOK, [Next]_vars PROVE TypeOK'
  OBVIOUS
<1>1. CASE Next
  BY <1>1, RequestType, DisburseType, CollectType DEF Next
<1>2. CASE UNCHANGED vars
  BY <1>2 DEF vars, loan_rows, schedule, paystack, TypeOK
<1> QED
  BY <1>1, <1>2

(* Every column, key and queue keeps its type; in particular no retry goes on  *)
(* past its last attempt.                                                      *)
THEOREM TypeCorrect == Spec => []TypeOK
BY InitType, TypeStep, PTL DEF Spec
-----------------------------------------------------------------------------
(* Transfers and charges *)

LEMMA AcceptOnce ==
  ASSUME TypeOK, SentOnce, NEW l \in Loans, NEW n \in Codes, Accept(l, n), InUse(l) = {}
  PROVE  SentOnce'
<1>1. transfer' = [transfer EXCEPT ![l][n] = "pending"]
  BY DEF Accept
<1>2. \A m \in Codes : transfer[l][m] \notin {"pending", "success"}
  BY DEF InUse
<1>3. ASSUME NEW k \in Loans, NEW m \in Codes, transfer'[k][m] \in {"pending", "success"}
      PROVE  IF k = l THEN m = n ELSE transfer[k][m] \in {"pending", "success"}
  BY <1>1, <1>2, <1>3 DEF TypeOK
<1>4. ASSUME NEW k \in Loans, NEW m1 \in Codes, NEW m2 \in Codes,
             {transfer'[k][m1], transfer'[k][m2]} \subseteq {"pending", "success"}
      PROVE  m1 = m2
  <2>1. transfer'[k][m1] \in {"pending", "success"} /\ transfer'[k][m2] \in {"pending", "success"}
    BY <1>4
  <2> QED
    BY <1>3, <2>1 DEF SentOnce
<1> QED
  BY <1>4 DEF SentOnce

LEMMA AnswerOnce ==
  ASSUME TypeOK, SentOnce, NEW l \in Loans, NEW r \in Requests, Answered(l, r) \/ Unanswered(l)
  PROVE  SentOnce'
BY AcceptOnce DEF Answered, Unanswered, SentOnce

LEMMA ResolveOnce ==
  ASSUME TypeOK, SentOnce, NEW l \in Loans, NEW n \in Codes,
         paystack_resolves(l, n) \/ paystack_reverses(l, n)
  PROVE  SentOnce'
<1>1. PICK from \in {"pending", "success"}, to \in Transfers : Resolve(l, n, from, to)
  BY DEF paystack_resolves, paystack_reverses, Transfers
<1>2. transfer[l][n] \in {"pending", "success"} /\ transfer' = [transfer EXCEPT ![l][n] = to]
  BY <1>1 DEF Resolve
<1>3. ASSUME NEW k \in Loans, NEW m \in Codes, transfer'[k][m] \in {"pending", "success"}
      PROVE  transfer[k][m] \in {"pending", "success"}
  BY <1>2, <1>3 DEF TypeOK
<1>4. ASSUME NEW k \in Loans, NEW m1 \in Codes, NEW m2 \in Codes,
             {transfer'[k][m1], transfer'[k][m2]} \subseteq {"pending", "success"}
      PROVE  m1 = m2
  <2>1. transfer'[k][m1] \in {"pending", "success"} /\ transfer'[k][m2] \in {"pending", "success"}
    BY <1>4
  <2> QED
    BY <1>3, <2>1 DEF SentOnce
<1> QED
  BY <1>4 DEF SentOnce

(* The steps that leave Paystack's transfers alone. *)
Quiet ==
  \/ \E l \in Loans :
       \/ create_loan_request(l)
       \/ lender_approve(l) \/ admin_approve(l) \/ lender_reject(l)
       \/ send_loan_confirm_otp(l) \/ otp_expires(l) \/ confirm_loan(l)
       \/ \E r \in Requests : initiation_commits(l, r)
       \/ retry_disbursement(l) \/ escalate_disbursement_failure(l)
       \/ \E n \in Codes :
            \/ handle_transfer_success(l, n)
            \/ \E kind \in {"failed", "reversed"} : handle_transfer_failure(l, n, kind)
       \/ day_passes(l)
       \/ \E k \in Parts : collect_instalment(l, k) \/ merchant_decides(l, k)
  \/ collect_due_repayments \/ collect_commits \/ collect_dies

LEMMA QuietTransfers ==
  ASSUME Quiet PROVE UNCHANGED transfer
<1>1. ASSUME NEW l \in Loans,
             \/ create_loan_request(l)
             \/ lender_approve(l) \/ admin_approve(l) \/ lender_reject(l)
             \/ send_loan_confirm_otp(l) \/ otp_expires(l) \/ confirm_loan(l)
      PROVE  UNCHANGED transfer
  BY <1>1 DEF create_loan_request, lender_approve, admin_approve, lender_reject,
              send_loan_confirm_otp, otp_expires, confirm_loan, paystack
<1>2. ASSUME NEW l \in Loans,
             \/ \E r \in Requests : initiation_commits(l, r)
             \/ retry_disbursement(l) \/ escalate_disbursement_failure(l)
      PROVE  UNCHANGED transfer
  BY <1>2 DEF initiation_commits, retry_disbursement, escalate_disbursement_failure, paystack
<1>3. ASSUME NEW l \in Loans, NEW n \in Codes, handle_transfer_success(l, n)
      PROVE  UNCHANGED transfer
  BY <1>3 DEF handle_transfer_success, paystack
<1>4. ASSUME NEW l \in Loans, NEW n \in Codes, NEW kind \in {"failed", "reversed"},
             handle_transfer_failure(l, n, kind)
      PROVE  UNCHANGED transfer
  BY <1>4 DEF handle_transfer_failure, paystack
<1>5. ASSUME NEW l \in Loans,
             \/ day_passes(l)
             \/ \E k \in Parts : collect_instalment(l, k) \/ merchant_decides(l, k)
      PROVE  UNCHANGED transfer
  BY <1>5 DEF day_passes, collect_instalment, merchant_decides, paystack
<1>6. CASE collect_due_repayments \/ collect_commits \/ collect_dies
  BY <1>6 DEF collect_due_repayments, collect_commits, collect_dies, paystack
<1> QED
  BY <1>1, <1>2, <1>3, <1>4, <1>5, <1>6 DEF Quiet

(* Every step asks for a transfer, settles one, or leaves them alone. *)
LEMMA StepKinds ==
  ASSUME Next
  PROVE  \/ Quiet
         \/ \E l \in Loans, r \in Requests :
              \/ disburse_loan(l, r)
              \/ \E used \in 0 .. MaxRetries + 1 : retry_failed_disbursement(l, used, r)
         \/ \E l \in Loans, n \in Codes : paystack_resolves(l, n) \/ paystack_reverses(l, n)
BY Zenon DEF Next, Disburse, Quiet

LEMMA SentOnceStep == TypeOK /\ SentOnce /\ [Next]_vars => SentOnce'
<1> SUFFICES ASSUME TypeOK, SentOnce, [Next]_vars PROVE SentOnce'
  OBVIOUS
<1>1. CASE Quiet
  BY <1>1, QuietTransfers DEF SentOnce
<1>2. ASSUME NEW l \in Loans, NEW r \in Requests,
             \/ disburse_loan(l, r)
             \/ \E used \in 0 .. MaxRetries + 1 : retry_failed_disbursement(l, used, r)
      PROVE  SentOnce'
  <2>1. Answered(l, r) \/ Unanswered(l) \/ UNCHANGED transfer
    BY <1>2 DEF disburse_loan, retry_failed_disbursement
  <2> QED
    BY <2>1, AnswerOnce DEF SentOnce
<1>3. ASSUME NEW l \in Loans, NEW n \in Codes, paystack_resolves(l, n) \/ paystack_reverses(l, n)
      PROVE  SentOnce'
  BY <1>3, ResolveOnce
<1>4. CASE UNCHANGED vars
  BY <1>4 DEF vars, paystack, SentOnce
<1> QED
  BY <1>1, <1>2, <1>3, <1>4, StepKinds

(* Through any number of admins, retries, lost replies, reversals and crashes, a *)
(* loan's money is not on its way, or with the merchant, twice.                  *)
THEOREM SentAtMostOnce == Spec => []SentOnce
<1>1. Init => SentOnce
  BY DEF Init, SentOnce
<1> QED
  BY <1>1, SentOnceStep, TypeCorrect, PTL DEF Spec

-----------------------------------------------------------------------------
(* What was lent, and what was given up *)

(* A webhook tells of a transfer that was made. *)
Told ==
  \A l \in Loans, n \in Codes :
    <<l, n, "success">> \in events => transfer[l][n] \in {"success", "reversed"}

(* The task works on instalments of a schedule that are due, and defaults one in its *)
(* turn.                                                                              *)
InTurn ==
  \A l \in Loans, k \in Parts :
    /\ outcome[l][k] # "idle" => instalment[l][k] \in {"pending", "failed"} /\ Due(l, k)
    /\ outcome[l][k] = "defaulted" => GivenUp(l, k)

(* A schedule is made as a whole. *)
Whole == \A l \in Loans : Scheduled(l) => \A k \in Parts : instalment[l][k] # "none"

LentInv == Told /\ LentWasSent /\ InTurn /\ Whole /\ GivenUpLast

(* Steps that leave the money, the schedule and the task alone, and lend nothing. *)
LEMMA LentStatus ==
  ASSUME LentInv, UNCHANGED <<transfer, events, instalment, attempts, days, outcome>>,
         \A l \in Loans : status'[l] \in Disbursed => status[l] \in Disbursed
  PROVE  LentInv'
BY DEF LentInv, Told, LentWasSent, InTurn, Whole, GivenUpLast, GivenUp, PastGrace, Due, Scheduled

LEMMA LentTransition ==
  ASSUME TypeOK, NEW l \in Loans, NEW to \in {"approved", "rejected", "confirmed"}, Transition(l, to)
  PROVE  \A k \in Loans : status'[k] \in Disbursed => status[k] \in Disbursed
BY DEF Transition, TypeOK, Disbursed

LEMMA RequestLent ==
  ASSUME TypeOK, LentInv, NEW l \in Loans,
         \/ create_loan_request(l) \/ lender_approve(l) \/ admin_approve(l) \/ lender_reject(l)
         \/ send_loan_confirm_otp(l) \/ otp_expires(l) \/ confirm_loan(l)
         \/ \E r \in Requests : initiation_commits(l, r)
         \/ retry_disbursement(l) \/ escalate_disbursement_failure(l)
         \/ \E n \in Codes, kind \in {"failed", "reversed"} : handle_transfer_failure(l, n, kind)
         \/ \E k \in Parts : merchant_decides(l, k)
  PROVE  LentInv'
<1>1. UNCHANGED <<transfer, events, instalment, attempts, days, outcome>>
  BY DEF create_loan_request, lender_approve, admin_approve, lender_reject, send_loan_confirm_otp,
         otp_expires, confirm_loan, initiation_commits, retry_disbursement,
         escalate_disbursement_failure, handle_transfer_failure, merchant_decides, schedule, paystack
<1>2. \A k \in Loans : status'[k] \in Disbursed => status[k] \in Disbursed
  <2>1. CASE UNCHANGED status
    BY <2>1
  <2>2. CASE \E to \in {"approved", "rejected", "confirmed"} : Transition(l, to)
    BY <2>2, LentTransition
  <2>3. CASE \E to \in {"pending_partner", "disbursing", "confirmed"} :
               status' = [status EXCEPT ![l] = to]
    BY <2>3 DEF TypeOK, Disbursed
  <2> QED
    BY <2>1, <2>2, <2>3
       DEF create_loan_request, lender_approve, admin_approve, lender_reject, send_loan_confirm_otp,
           otp_expires, confirm_loan, initiation_commits, retry_disbursement,
           escalate_disbursement_failure, handle_transfer_failure, merchant_decides, loan_rows
<1> QED
  BY <1>1, <1>2, LentStatus

LEMMA TransferLent ==
  ASSUME TypeOK, LentInv, NEW l \in Loans, NEW n \in Codes, NEW to,
         transfer' = [transfer EXCEPT ![l][n] = to],
         \/ transfer[l][n] = "none" /\ UNCHANGED events
         \/ transfer[l][n] = "pending" /\ events' = events \cup {<<l, n, to>>}
         \/ /\ transfer[l][n] = "success" /\ to = "reversed"
            /\ events' = events \cup {<<l, n, to>>},
         UNCHANGED <<status, instalment, attempts, days, outcome>>
  PROVE  LentInv'
<1>1. ASSUME NEW k \in Loans, NEW m \in Codes, transfer[k][m] \in {"success", "reversed"}
      PROVE  transfer'[k][m] \in {"success", "reversed"}
  <2>1. CASE k = l /\ m = n
    BY <1>1, <2>1 DEF TypeOK
  <2>2. CASE ~(k = l /\ m = n)
    BY <1>1, <2>2 DEF TypeOK
  <2> QED
    BY <2>1, <2>2
<1>2. Told'
  <2> SUFFICES ASSUME NEW k \in Loans, NEW m \in Codes, <<k, m, "success">> \in events'
               PROVE  transfer'[k][m] \in {"success", "reversed"}
    BY DEF Told
  <2>1. CASE <<k, m, "success">> \in events
    BY <1>1, <2>1 DEF LentInv, Told
  <2>2. CASE <<k, m, "success">> \notin events
    <3>1. k = l /\ m = n /\ to = "success"
      BY <2>2
    <3> QED
      BY <3>1 DEF TypeOK
  <2> QED
    BY <2>1, <2>2
<1>3. LentWasSent'
  BY <1>1 DEF LentInv, LentWasSent, Scheduled
<1> QED
  BY <1>2, <1>3 DEF LentInv, InTurn, Whole, GivenUpLast, GivenUp, PastGrace, Due, Scheduled

LEMMA DisburseLent ==
  ASSUME TypeOK, LentInv, NEW l \in Loans, NEW r \in Requests,
         \/ disburse_loan(l, r)
         \/ \E used \in 0 .. MaxRetries + 1 : retry_failed_disbursement(l, used, r)
  PROVE  LentInv'
<1>1. /\ UNCHANGED <<status, instalment, attempts, days, outcome, events>>
      /\ UNCHANGED transfer \/ \E n \in Codes : Accept(l, n)
  BY DEF disburse_loan, retry_failed_disbursement, Answered, Unanswered, schedule, loan_rows
<1>2. CASE UNCHANGED transfer
  BY <1>1, <1>2, LentStatus
<1>3. ASSUME NEW n \in Codes, Accept(l, n) PROVE LentInv'
  BY <1>1, <1>3, TransferLent DEF Accept, Untried
<1> QED
  BY <1>1, <1>2, <1>3

LEMMA ResolveLent ==
  ASSUME TypeOK, LentInv, NEW l \in Loans, NEW n \in Codes,
         paystack_resolves(l, n) \/ paystack_reverses(l, n)
  PROVE  LentInv'
BY TransferLent DEF paystack_resolves, paystack_reverses, Resolve, schedule, loan_rows

LEMMA ScheduleLent ==
  ASSUME TypeOK, LentInv, NEW l \in Loans, NEW n \in Codes, handle_transfer_success(l, n)
  PROVE  LentInv'
<1>1. UNCHANGED <<transfer, events, days, outcome>>
  BY DEF handle_transfer_success, paystack
<1>2. CASE UNCHANGED <<status, schedule>>
  BY <1>1, <1>2, LentStatus DEF schedule
<1>3. CASE Transition(l, "active") /\ EnsureSchedule(l)
  <2>1. transfer[l][n] \in {"success", "reversed"}
    BY DEF handle_transfer_success, LentInv, Told, TypeOK
  <2>2. \A k \in Loans : k # l =>
          /\ status'[k] = status[k] /\ instalment'[k] = instalment[k] /\ attempts'[k] = attempts[k]
    BY <1>3 DEF Transition, EnsureSchedule, schedule, TypeOK
  <2>3. LentWasSent'
    BY <1>1, <2>1, <2>2 DEF LentInv, LentWasSent, Scheduled
  <2>4. CASE Scheduled(l) /\ UNCHANGED schedule
    BY <1>1, <2>3, <2>4
       DEF LentInv, Told, InTurn, Whole, GivenUpLast, GivenUp, PastGrace, Due, Scheduled, schedule
  <2>5. CASE ~Scheduled(l) /\ instalment' = [instalment EXCEPT ![l] = [k \in Parts |-> "pending"]]
    <3>1. \A k \in Parts : outcome[l][k] = "idle" /\ instalment'[l][k] = "pending"
      <4>1. \A k \in Parts : outcome[l][k] = "idle"
        BY <2>5 DEF LentInv, InTurn, Scheduled
      <4>2. instalment'[l] = [k \in Parts |-> "pending"]
        BY <2>5 DEF TypeOK
      <4> QED
        BY <4>1, <4>2
    <3>2. InTurn'
      BY <1>1, <2>2, <3>1 DEF LentInv, InTurn, GivenUp, PastGrace, Due
    <3>3. Whole' /\ GivenUpLast'
      BY <1>1, <2>2, <3>1 DEF LentInv, Whole, GivenUpLast, PastGrace, Due, Scheduled
    <3> QED
      BY <1>1, <2>3, <3>2, <3>3 DEF LentInv, Told
  <2> QED
    BY <1>3, <2>4, <2>5 DEF EnsureSchedule
<1> QED
  BY <1>2, <1>3 DEF handle_transfer_success

LEMMA DayLent ==
  ASSUME TypeOK, LentInv, NEW l \in Loans, day_passes(l)
  PROVE  LentInv'
<1>1. \A k \in Loans : days[k] \in Nat /\ days'[k] \in Nat /\ days'[k] >= days[k]
  BY LoanAssumption DEF day_passes, TypeOK
<1>2. \A k \in Loans, j \in Parts :
        (PastGrace(k, j) => PastGrace(k, j)') /\ (Due(k, j) => Due(k, j)')
  BY <1>1, LoanAssumption DEF PastGrace, Due, Parts
<1>3. UNCHANGED <<transfer, events, status, instalment, attempts, outcome>>
  BY DEF day_passes, paystack, schedule, loan_rows
<1> QED
  BY <1>2, <1>3 DEF LentInv, Told, LentWasSent, InTurn, Whole, GivenUpLast, GivenUp, Scheduled

LEMMA LoadLent ==
  ASSUME TypeOK, LentInv, collect_due_repayments \/ collect_dies
  PROVE  LentInv'
<1>1. UNCHANGED <<transfer, events, status, instalment, attempts, days>>
  BY DEF collect_due_repayments, collect_dies, paystack, schedule, loan_rows
<1>2. \A l \in Loans, k \in Parts :
        outcome'[l][k] = "idle" \/ (outcome'[l][k] = "loaded" /\ Collectable(l, k))
  BY DEF collect_due_repayments, collect_dies
<1> QED
  BY <1>1, <1>2 DEF LentInv, Told, LentWasSent, InTurn, Whole, GivenUpLast, GivenUp, PastGrace, Due,
                    Scheduled, Collectable

LEMMA CollectLent ==
  ASSUME TypeOK, LentInv, NEW l \in Loans, NEW k \in Parts, collect_instalment(l, k)
  PROVE  LentInv'
<1>1. UNCHANGED <<transfer, events, status, instalment, attempts, days>>
  BY DEF collect_instalment, paystack, schedule, loan_rows
<1>2. PICK result \in {"paid", "failed", "defaulted"} :
        /\ outcome' = [outcome EXCEPT ![l][k] = result]
        /\ result = "defaulted" => GivenUp(l, k)
  BY DEF collect_instalment, attempt_collection
<1>3. InTurn'
  <2> SUFFICES ASSUME NEW m \in Loans, NEW j \in Parts
               PROVE  /\ outcome'[m][j] # "idle" => instalment[m][j] \in {"pending", "failed"} /\ Due(m, j)
                      /\ outcome'[m][j] = "defaulted" => GivenUp(m, j)
    BY <1>1 DEF InTurn, GivenUp, PastGrace, Due
  <2>1. CASE m = l /\ j = k
    BY <1>2, <2>1 DEF LentInv, InTurn, collect_instalment, TypeOK
  <2>2. CASE ~(m = l /\ j = k)
    BY <1>2, <2>2 DEF LentInv, InTurn, TypeOK
  <2> QED
    BY <2>1, <2>2
<1> QED
  BY <1>1, <1>3 DEF LentInv, Told, LentWasSent, Whole, GivenUpLast, PastGrace, Due, Scheduled

LEMMA CommitLent ==
  ASSUME TypeOK, LentInv, collect_commits
  PROVE  LentInv'
<1>1. UNCHANGED <<transfer, events, days>>
  BY DEF collect_commits, paystack
<1>2. ASSUME NEW l \in Loans, NEW k \in Parts
      PROVE  /\ instalment'[l][k] = Status(l, k) /\ attempts'[l][k] = Attempts(l, k)
             /\ outcome'[l][k] = "idle" /\ outcome[l][k] # "loaded"
             /\ (instalment'[l][k] = "none") <=> (instalment[l][k] = "none")
  <2>1. /\ instalment'[l][k] = Status(l, k) /\ attempts'[l][k] = Attempts(l, k)
        /\ outcome'[l][k] = "idle" /\ outcome[l][k] # "loaded"
    BY DEF collect_commits
  <2>2. outcome[l][k] # "idle" => Status(l, k) # "none" /\ instalment[l][k] # "none"
    <3>1. outcome[l][k] \in {"idle", "loaded", "paid", "failed", "defaulted"}
      BY DEF TypeOK
    <3>2. outcome[l][k] # "idle" => instalment[l][k] # "none"
      BY DEF LentInv, InTurn
    <3> QED
      BY <3>1, <3>2 DEF Status
  <2> QED
    BY <2>1, <2>2 DEF Status
<1>3. ASSUME NEW l \in Loans PROVE status'[l] \in Disbursed => status[l] \in Disbursed
  BY DEF collect_commits, Disbursed
<1>4. \A l \in Loans : Scheduled(l)' => Scheduled(l)
  BY <1>2 DEF Scheduled
<1>5. LentWasSent'
  BY <1>1, <1>3, <1>4 DEF LentInv, LentWasSent
<1>6. Whole'
  BY <1>2, <1>4 DEF LentInv, Whole
<1>7. GivenUpLast'
  <2> SUFFICES ASSUME NEW l \in Loans, NEW k \in Parts, instalment'[l][k] = "defaulted"
               PROVE  PastGrace(l, k) /\ attempts'[l][k] = MAX_COLLECTION_ATTEMPTS
    BY <1>1 DEF GivenUpLast, PastGrace, Due
  <2>1. CASE outcome[l][k] = "idle"
    BY <1>2, <2>1 DEF Status, Attempts, LentInv, GivenUpLast
  <2>2. CASE outcome[l][k] = "defaulted"
    <3>1. PastGrace(l, k) /\ attempts[l][k] >= MAX_COLLECTION_ATTEMPTS
      BY <2>2 DEF LentInv, InTurn, GivenUp
    <3>2. attempts[l][k] \in 0 .. MAX_COLLECTION_ATTEMPTS
      BY DEF TypeOK
    <3>3. attempts'[l][k] = attempts[l][k]
      BY <1>2, <2>2 DEF Attempts
    <3> QED
      BY <3>1, <3>2, <3>3, LoanAssumption
  <2> QED
    BY <1>2, <2>1, <2>2 DEF Status
<1> QED
  BY <1>1, <1>2, <1>5, <1>6, <1>7 DEF LentInv, Told, InTurn

LEMMA LentStep == TypeOK /\ LentInv /\ [Next]_vars => LentInv'
<1> SUFFICES ASSUME TypeOK, LentInv, [Next]_vars PROVE LentInv'
  OBVIOUS
<1>1. ASSUME NEW l \in Loans, Disburse(l) PROVE LentInv'
  BY <1>1, RequestLent, DisburseLent, ScheduleLent, ResolveLent DEF Disburse
<1>2. CASE UNCHANGED vars
  BY <1>2, LentStatus DEF vars, paystack, schedule, loan_rows
<1> QED
  BY <1>1, <1>2, RequestLent, DayLent, LoadLent, CollectLent, CommitLent DEF Next

LEMMA LentInit == Init => LentInv
BY DEF Init, LentInv, Told, LentWasSent, InTurn, Whole, GivenUpLast, Scheduled, Disbursed, Due

(* Only money that was sent is to be repaid, whatever webhooks, admins and crashes *)
(* come in between.                                                              *)
THEOREM LentOnlyWhatWasSent == Spec => []LentWasSent
<1>1. LentInv => LentWasSent
  BY DEF LentInv
<1> QED
  BY <1>1, LentInit, LentStep, TypeCorrect, PTL DEF Spec

(* A loan's money is sent at most once, and only what was sent is lent. *)
THEOREM LentAtMostOnce == Spec => []LentOnce
BY SentAtMostOnce, LentOnlyWhatWasSent, PTL DEF LentOnce

(* An instalment is given up only after its grace and every attempt. *)
THEOREM GivenUpOnlyLast == Spec => []GivenUpLast
<1>1. LentInv => GivenUpLast
  BY DEF LentInv
<1> QED
  BY <1>1, LentInit, LentStep, TypeCorrect, PTL DEF Spec
-----------------------------------------------------------------------------
(* One request at a time about each loan: the invariant *)

(* A loan has a schedule exactly from the time it is paid out. *)
OnSchedule == \A l \in Loans : status[l] \in Disbursed <=> Scheduled(l)

(* An initiation waits for a confirmed loan, and no other waits with it. *)
Waiting ==
  \A l \in Loans, r \in Requests :
    initiation[l][r] # 0 =>
      /\ status[l] = "confirmed"
      /\ \A other \in Requests : initiation[l][other] # 0 => other = r

(* Money is only asked for once the merchant has confirmed. *)
AskedFor ==
  \A l \in Loans, n \in Codes :
    transfer[l][n] # "none" => status[l] \in {"confirmed", "disbursing"} \cup Disbursed

Orderly == OnSchedule /\ Waiting /\ AskedFor /\ ClosedWhenSettled

LEMMA OrderlySame ==
  ASSUME Orderly, UNCHANGED <<status, instalment, initiation, transfer>>
  PROVE  Orderly'
BY DEF Orderly, OnSchedule, Waiting, AskedFor, ClosedWhenSettled, Scheduled

(* The status of a loan no initiation waits for changes, before it is paid out. *)
LEMMA OrderlyStatus ==
  ASSUME TypeOK, Orderly, NEW l \in Loans, NEW to, to \notin Disbursed,
         status[l] \notin Disbursed \cup {"confirmed"},
         to \in {"confirmed", "disbursing"} \/ status[l] # "disbursing",
         status' = [status EXCEPT ![l] = to],
         UNCHANGED <<instalment, initiation, transfer>>
  PROVE  Orderly'
<1>1. \A k \in Loans : k # l => status'[k] = status[k]
  BY DEF TypeOK
<1>2. status'[l] = to
  BY DEF TypeOK
<1>3. OnSchedule'
  BY <1>1, <1>2 DEF Orderly, OnSchedule, Scheduled
<1>4. Waiting'
  BY <1>1, <1>2 DEF Orderly, Waiting
<1>5. AskedFor'
  BY <1>1, <1>2 DEF Orderly, AskedFor
<1>6. ClosedWhenSettled'
  BY <1>1, <1>2 DEF Orderly, ClosedWhenSettled
<1> QED
  BY <1>3, <1>4, <1>5, <1>6 DEF Orderly

LEMMA RequestOrderly ==
  ASSUME TypeOK, Orderly, NEW l \in Loans,
         \/ create_loan_request(l) \/ lender_approve(l) \/ admin_approve(l) \/ lender_reject(l)
         \/ send_loan_confirm_otp(l) \/ otp_expires(l) \/ confirm_loan(l)
         \/ retry_disbursement(l) \/ escalate_disbursement_failure(l)
         \/ \E n \in Codes, kind \in {"failed", "reversed"} : handle_transfer_failure(l, n, kind)
         \/ \E k \in Parts : merchant_decides(l, k)
  PROVE  Orderly'
<1>1. UNCHANGED <<instalment, initiation, transfer>>
  BY DEF create_loan_request, lender_approve, admin_approve, lender_reject, send_loan_confirm_otp,
         otp_expires, confirm_loan, retry_disbursement, escalate_disbursement_failure,
         handle_transfer_failure, merchant_decides, schedule, paystack
<1>2. CASE UNCHANGED status
  BY <1>1, <1>2, OrderlySame
<1>3. CASE \E from \in {"none", "pending_partner", "approved"},
               to \in {"pending_partner", "approved", "rejected", "confirmed"} :
             status[l] = from /\ status' = [status EXCEPT ![l] = to]
  BY <1>1, <1>3, OrderlyStatus DEF Disbursed
<1>4. CASE status[l] = "disbursing" /\ status' = [status EXCEPT ![l] = "confirmed"]
  BY <1>1, <1>4, OrderlyStatus DEF Disbursed
<1> QED
  BY <1>2, <1>3, <1>4
     DEF create_loan_request, lender_approve, admin_approve, lender_reject, send_loan_confirm_otp,
         otp_expires, confirm_loan, retry_disbursement, escalate_disbursement_failure,
         handle_transfer_failure, merchant_decides, loan_rows, Transition, Transitions

LEMMA DisburseOrderly ==
  ASSUME TypeOK, Orderly, "overlap" \notin Hazards, NEW l \in Loans, NEW r \in Requests,
         \/ disburse_loan(l, r)
         \/ \E used \in 0 .. MaxRetries + 1 : retry_failed_disbursement(l, used, r)
  PROVE  Orderly'
<1>1. UNCHANGED <<status, instalment>>
  BY DEF disburse_loan, retry_failed_disbursement, schedule, loan_rows
<1>2. CASE UNCHANGED <<initiation, transfer>>
  BY <1>1, <1>2, OrderlySame
<1>3. CASE status[l] = "confirmed" /\ (Answered(l, r) \/ Unanswered(l))
  <2>1. \A other \in Requests : initiation[l][other] = 0
    BY DEF disburse_loan, retry_failed_disbursement, Undisturbed
  <2>2. PICK v : initiation' = [initiation EXCEPT ![l][r] = v] \/ UNCHANGED initiation
    BY <1>3 DEF Answered, Unanswered
  <2>3. PICK n : transfer' = [transfer EXCEPT ![l][n] = "pending"] \/ UNCHANGED transfer
    BY <1>3 DEF Answered, Unanswered, Accept
  <2>4. Waiting'
    <3>1. \A k \in Loans, q \in Requests :
            ~(k = l /\ q = r) => initiation'[k][q] = initiation[k][q]
      BY <2>2 DEF TypeOK
    <3> QED
      BY <1>1, <1>3, <2>1, <3>1 DEF Orderly, Waiting
  <2>5. AskedFor'
    <3>1. \A k \in Loans, m \in Codes : k # l => transfer'[k][m] = transfer[k][m]
      BY <2>3 DEF TypeOK
    <3> QED
      BY <1>1, <1>3, <3>1 DEF Orderly, AskedFor
  <2> QED
    BY <1>1, <2>4, <2>5 DEF Orderly, OnSchedule, ClosedWhenSettled, Scheduled
<1> QED
  BY <1>2, <1>3 DEF disburse_loan, retry_failed_disbursement

LEMMA CommitOrderly ==
  ASSUME TypeOK, Orderly, NEW l \in Loans, NEW r \in Requests, initiation_commits(l, r)
  PROVE  Orderly'
<1>1. status[l] = "confirmed" /\ \A other \in Requests : initiation'[l][other] = 0
  BY DEF initiation_commits, Orderly, Waiting, TypeOK
<1>2. status'[l] = "disbursing" /\ UNCHANGED <<instalment, transfer>>
  BY DEF initiation_commits, TypeOK, schedule, paystack
<1>3. \A k \in Loans : k # l => status'[k] = status[k] /\ initiation'[k] = initiation[k]
  BY DEF initiation_commits, TypeOK
<1>4. OnSchedule'
  BY <1>1, <1>2, <1>3 DEF Orderly, OnSchedule, Scheduled, Disbursed
<1>5. Waiting'
  BY <1>1, <1>3 DEF Orderly, Waiting
<1>6. AskedFor'
  BY <1>2, <1>3 DEF Orderly, AskedFor
<1>7. ClosedWhenSettled'
  BY <1>2, <1>3 DEF Orderly, ClosedWhenSettled, Disbursed
<1> QED
  BY <1>4, <1>5, <1>6, <1>7 DEF Orderly

(* What a successful transfer's webhook does to the loan it finds. *)
LEMMA SuccessStep ==
  ASSUME TypeOK, LentInv, Orderly, NEW l \in Loans, NEW n \in Codes,
         handle_transfer_success(l, n), ~UNCHANGED <<status, schedule>>
  PROVE  /\ status[l] = "disbursing" /\ status' = [status EXCEPT ![l] = "active"]
         /\ \A k \in Parts : instalment[l][k] = "none"
         /\ instalment' = [instalment EXCEPT ![l] = [k \in Parts |-> "pending"]]
<1>1. Transition(l, "active") /\ EnsureSchedule(l)
  BY DEF handle_transfer_success
<1>2. status[l] = "disbursing" /\ status' = [status EXCEPT ![l] = "active"]
  BY <1>1 DEF Transition, Transitions
<1>3. ~Scheduled(l)
  BY <1>2 DEF Orderly, OnSchedule, Disbursed
<1> QED
  BY <1>1, <1>2, <1>3 DEF EnsureSchedule, Scheduled

LEMMA SuccessOrderly ==
  ASSUME TypeOK, LentInv, Orderly, NEW l \in Loans, NEW n \in Codes, handle_transfer_success(l, n)
  PROVE  Orderly'
<1>1. UNCHANGED <<initiation, transfer>>
  BY DEF handle_transfer_success, paystack
<1>2. CASE UNCHANGED <<status, schedule>>
  BY <1>1, <1>2, OrderlySame DEF schedule
<1>3. CASE ~UNCHANGED <<status, schedule>>
  <2>1. /\ status[l] = "disbursing" /\ status'[l] = "active"
        /\ \A k \in Parts : instalment'[l][k] = "pending"
    BY <1>3, SuccessStep DEF TypeOK
  <2>2. \A k \in Loans : k # l => status'[k] = status[k] /\ instalment'[k] = instalment[k]
    BY <1>3, SuccessStep DEF TypeOK
  <2>3. 1 \in Parts
    BY LoanAssumption DEF Parts
  <2>4. OnSchedule'
    BY <2>1, <2>2, <2>3 DEF Orderly, OnSchedule, Scheduled, Disbursed
  <2>5. Waiting'
    BY <1>1, <2>1, <2>2 DEF Orderly, Waiting
  <2>6. AskedFor'
    BY <1>1, <2>1, <2>2 DEF Orderly, AskedFor, Disbursed
  <2>7. ClosedWhenSettled'
    BY <2>1, <2>2, <2>3 DEF Orderly, ClosedWhenSettled
  <2> QED
    BY <2>4, <2>5, <2>6, <2>7 DEF Orderly
<1> QED
  BY <1>2, <1>3
LEMMA ResolveOrderly ==
  ASSUME TypeOK, Orderly, NEW l \in Loans, NEW n \in Codes,
         paystack_resolves(l, n) \/ paystack_reverses(l, n)
  PROVE  Orderly'
<1>1. UNCHANGED <<status, instalment, initiation>> /\ transfer[l][n] # "none"
  BY DEF paystack_resolves, paystack_reverses, Resolve, schedule, loan_rows
<1>2. \A k \in Loans, m \in Codes : transfer'[k][m] # "none" => transfer[k][m] # "none"
  <2> SUFFICES ASSUME NEW k \in Loans, NEW m \in Codes, transfer'[k][m] # transfer[k][m]
               PROVE  transfer[k][m] # "none"
    OBVIOUS
  <2>1. PICK to : transfer' = [transfer EXCEPT ![l][n] = to]
    BY DEF paystack_resolves, paystack_reverses, Resolve
  <2>2. k = l /\ m = n
    BY <2>1 DEF TypeOK
  <2> QED
    BY <1>1, <2>2
<1> QED
  BY <1>1, <1>2 DEF Orderly, OnSchedule, Waiting, AskedFor, ClosedWhenSettled, Scheduled

(* A loan the task has touched is active. *)
LEMMA Touched ==
  ASSUME LentInv, Orderly, NEW l \in Loans, NEW k \in Parts, outcome[l][k] # "idle"
  PROVE  status[l] = "active"
<1>1. instalment[l][k] \in {"pending", "failed"}
  BY DEF LentInv, InTurn
<1>2. status[l] \in Disbursed
  BY <1>1 DEF Orderly, OnSchedule, Scheduled
<1> QED
  BY <1>1, <1>2 DEF Orderly, ClosedWhenSettled

(* What the task's commit makes of a loan that has been paid out. *)
LEMMA CollectClose ==
  ASSUME TypeOK, LentInv, Orderly, collect_commits, NEW l \in Loans, status[l] \in Disbursed
  PROVE  /\ status[l] = "active" => status'[l] = check_and_mark_defaulted(l)
         /\ status[l] # "active" => status'[l] = status[l] /\ instalment'[l] = instalment[l]
         /\ \A k \in Parts : /\ instalment'[l][k] = Status(l, k)
                             /\ Status(l, k) \in {"pending", "paid", "failed", "defaulted"}
<1>1. \A k \in Parts : /\ instalment'[l][k] = Status(l, k)
                        /\ Status(l, k) \in {"pending", "paid", "failed", "defaulted"}
  <2> SUFFICES ASSUME NEW k \in Parts
               PROVE  /\ instalment'[l][k] = Status(l, k)
                      /\ Status(l, k) \in {"pending", "paid", "failed", "defaulted"}
    OBVIOUS
  <2>1. outcome[l][k] \in {"idle", "paid", "failed", "defaulted"}
    BY DEF collect_commits, TypeOK
  <2>2. instalment[l][k] \in {"pending", "paid", "failed", "defaulted"}
    BY DEF TypeOK, LentInv, Whole, Orderly, OnSchedule
  <2>3. instalment'[l][k] = Status(l, k)
    BY DEF collect_commits
  <2> QED
    BY <2>1, <2>2, <2>3 DEF Status
<1>2. CASE \E k \in Parts : outcome[l][k] # "idle"
  <2>1. status[l] = "active"
    BY <1>2, Touched
  <2> QED
    BY <1>1, <1>2, <2>1 DEF collect_commits
<1>3. CASE \A k \in Parts : outcome[l][k] = "idle"
  <2>1. status'[l] = status[l] /\ \A k \in Parts : Status(l, k) = instalment[l][k]
    BY <1>3 DEF collect_commits, Status
  <2>2. instalment'[l] = instalment[l]
    BY <2>1 DEF collect_commits, TypeOK
  <2>3. ASSUME status[l] = "active" PROVE status'[l] = check_and_mark_defaulted(l)
    <3>1. PICK k \in Parts : instalment[l][k] \in {"pending", "failed"}
      BY <2>3 DEF Orderly, ClosedWhenSettled, Disbursed
    <3>2. k \in Unpaid(l) /\ Status(l, k) # "defaulted"
      BY <2>1, <3>1 DEF Unpaid
    <3> QED
      BY <2>1, <2>3, <3>2 DEF check_and_mark_defaulted
  <2> QED
    BY <1>1, <2>1, <2>2, <2>3
<1> QED
  BY <1>2, <1>3

LEMMA CollectOrderly ==
  ASSUME TypeOK, LentInv, Orderly, collect_commits
  PROVE  Orderly'
<1>1. UNCHANGED <<initiation, transfer>>
  BY DEF collect_commits, paystack
<1>2. ASSUME NEW l \in Loans, status[l] \in Disbursed
      PROVE  status'[l] \in Disbursed /\ \A k \in Parts : instalment'[l][k] # "none"
  BY <1>2, CollectClose DEF check_and_mark_defaulted, Disbursed
<1>3. ASSUME NEW l \in Loans, status[l] \notin Disbursed
      PROVE  status'[l] = status[l] /\ \A k \in Parts : instalment'[l][k] = "none"
  <2>1. \A k \in Parts : instalment[l][k] = "none"
    BY <1>3 DEF Orderly, OnSchedule, Scheduled
  <2>2. \A k \in Parts : outcome[l][k] = "idle"
    BY <2>1 DEF LentInv, InTurn
  <2> QED
    BY <1>3, <2>1, <2>2 DEF collect_commits, Status, Disbursed
<1>4. 1 \in Parts
  BY LoanAssumption DEF Parts
<1>5. OnSchedule'
  BY <1>2, <1>3, <1>4 DEF OnSchedule, Scheduled
<1>6. Waiting'
  BY <1>1, <1>3 DEF Orderly, Waiting, Disbursed
<1>7. AskedFor'
  BY <1>1, <1>2, <1>3 DEF Orderly, AskedFor
<1>8. ASSUME NEW l \in Loans, status'[l] \in Disbursed
      PROVE  /\ (status'[l] = "active") <=> \E k \in Parts : instalment'[l][k] \in {"pending", "failed"}
             /\ (status'[l] = "repaid") <=> \A k \in Parts : instalment'[l][k] = "paid"
  <2>1. status[l] \in Disbursed
    BY <1>3, <1>8
  <2>2. CASE status[l] # "active"
    BY <2>1, <2>2, CollectClose DEF Orderly, ClosedWhenSettled
  <2>3. CASE status[l] = "active"
    <3>1. /\ status'[l] = check_and_mark_defaulted(l)
          /\ \A k \in Parts : /\ instalment'[l][k] = Status(l, k)
                              /\ Status(l, k) \in {"pending", "paid", "failed", "defaulted"}
      BY <2>1, <2>3, CollectClose
    <3> QED
      BY <3>1 DEF check_and_mark_defaulted, Unpaid
  <2> QED
    BY <2>2, <2>3
<1>9. ClosedWhenSettled'
  BY <1>8 DEF ClosedWhenSettled
<1> QED
  BY <1>5, <1>6, <1>7, <1>9 DEF Orderly

LEMMA OrderlyStep ==
  ASSUME TypeOK, LentInv, Orderly, "overlap" \notin Hazards, [Next]_vars
  PROVE  Orderly'
<1>1. ASSUME NEW l \in Loans, Disburse(l) PROVE Orderly'
  BY <1>1, RequestOrderly, DisburseOrderly, CommitOrderly, SuccessOrderly, ResolveOrderly DEF Disburse
<1>2. CASE \/ UNCHANGED vars \/ collect_due_repayments \/ collect_dies
           \/ \E l \in Loans : day_passes(l) \/ \E k \in Parts : collect_instalment(l, k)
  BY <1>2, OrderlySame DEF vars, collect_due_repayments, collect_dies, day_passes, collect_instalment,
                           paystack, schedule, loan_rows
<1> QED
  BY <1>1, <1>2, RequestOrderly, CollectOrderly DEF Next

LEMMA OrderlyInit == Init => Orderly
<1> SUFFICES ASSUME Init PROVE Orderly
  OBVIOUS
<1>1. OnSchedule
  BY DEF Init, OnSchedule, Scheduled, Disbursed
<1>2. ClosedWhenSettled
  BY DEF Init, ClosedWhenSettled, Disbursed
<1> QED
  BY <1>1, <1>2 DEF Init, Orderly, Waiting, AskedFor

(* Unless requests about one loan overlap, the daily task closes a loan when, and *)
(* only when, its instalments are settled, and never too early or as the wrong one. *)
THEOREM LoansCloseWhenSettled ==
  ASSUME "overlap" \notin Hazards
  PROVE  Spec => []ClosedWhenSettled
<1>1. TypeOK /\ LentInv /\ Orderly /\ [Next]_vars => Orderly'
  BY OrderlyStep
<1>2. Orderly => ClosedWhenSettled
  BY DEF Orderly
<1> QED
  BY <1>1, <1>2, OrderlyInit, LentInit, LentStep, TypeCorrect, PTL DEF Spec

(* A step that begins a charge is the task's, at an instalment it has loaded. *)
LEMMA ChargeBegun ==
  ASSUME TypeOK, [Next]_vars, NEW l \in Loans, NEW k \in Parts,
         charge'[l][k] # charge[l][k], charge[l][k] # "pending"
  PROVE  outcome[l][k] = "loaded"
<1>0. charge'[l][k] # charge[l][k] /\ charge[l][k] # "pending"
  OBVIOUS
<1>1. ASSUME NEW m \in Loans, NEW j \in Parts, collect_instalment(m, j)
      PROVE  outcome[l][k] = "loaded"
  <2>1. UNCHANGED charge \/ \E answer \in {"pending", "success", "failed"} :
                                charge' = [charge EXCEPT ![m][j] = answer]
    BY <1>1 DEF collect_instalment, attempt_collection
  <2>2. ASSUME m # l \/ j # k PROVE charge'[l][k] = charge[l][k]
    BY <2>1, <2>2 DEF TypeOK
  <2>3. m = l /\ j = k
    BY <1>0, <2>2
  <2> QED
    BY <1>1, <2>3 DEF collect_instalment
<1>2. ASSUME NEW m \in Loans, NEW j \in Parts, merchant_decides(m, j)
      PROVE  FALSE
  BY <1>2 DEF merchant_decides, TypeOK
<1>3. ASSUME NEW m \in Loans, Disburse(m) PROVE UNCHANGED charge
  BY <1>3 DEF Disburse, disburse_loan, initiation_commits, retry_failed_disbursement,
              retry_disbursement, escalate_disbursement_failure, handle_transfer_success,
              handle_transfer_failure, paystack_resolves, paystack_reverses, Resolve
<1>4. ASSUME NEW m \in Loans,
             \/ create_loan_request(m)
             \/ lender_approve(m) \/ admin_approve(m) \/ lender_reject(m)
             \/ send_loan_confirm_otp(m) \/ otp_expires(m) \/ confirm_loan(m) \/ day_passes(m)
      PROVE  UNCHANGED charge
  BY <1>4 DEF create_loan_request, lender_approve, admin_approve, lender_reject,
              send_loan_confirm_otp, otp_expires, confirm_loan, day_passes
<1>5. CASE collect_due_repayments \/ collect_commits \/ collect_dies
  BY <1>5 DEF collect_due_repayments, collect_commits, collect_dies
<1>6. CASE UNCHANGED vars
  BY <1>6 DEF vars
<1> QED
  BY <1>1, <1>2, <1>3, <1>4, <1>5, <1>6 DEF Next

(* Unless requests about one loan overlap, a merchant is asked only for instalments *)
(* that are due and not settled, of a loan that is lent and not closed, through lost *)
(* replies, reversals and a task that dies after it has charged.                     *)
THEOREM AsksOnlyWhatIsOwed ==
  ASSUME "overlap" \notin Hazards
  PROVE  Spec => AsksWhatIsOwed
<1>1. TypeOK /\ LentInv /\ Orderly /\ [Next]_vars => Orderly'
  BY OrderlyStep
<1>2. ASSUME TypeOK, LentInv, Orderly, [Next]_vars, NEW l \in Loans, NEW k \in Parts,
             charge'[l][k] # charge[l][k], charge[l][k] # "pending"
      PROVE  status[l] = "active" /\ instalment[l][k] \in {"pending", "failed"} /\ Due(l, k)
  <2>1. outcome[l][k] # "idle"
    BY <1>2, ChargeBegun
  <2> QED
    BY <1>2, <2>1, Touched DEF LentInv, InTurn
<1>3. TypeOK /\ LentInv /\ Orderly /\ [Next]_vars =>
        [\A l \in Loans, k \in Parts :
           charge'[l][k] # charge[l][k] /\ charge[l][k] # "pending" =>
             status[l] = "active" /\ instalment[l][k] \in {"pending", "failed"} /\ Due(l, k)]_vars
  BY <1>2
<1> QED
  BY <1>1, <1>3, OrderlyInit, LentInit, LentStep, TypeCorrect, PTL DEF Spec, AsksWhatIsOwed
-----------------------------------------------------------------------------
(* The contract: every step is one of its steps, or none *)

LEMMA StageStep ==
  ASSUME TypeOK, NEW l \in Loans, NEW to, status' = [status EXCEPT ![l] = to]
  PROVE  stage' = [stage EXCEPT ![l] = Stage(to)]
BY DEF stage, TypeOK

LEMMA StageSame ==
  ASSUME TypeOK, NEW l \in Loans, NEW to, status' = [status EXCEPT ![l] = to],
         Stage(to) = Stage(status[l])
  PROVE  UNCHANGED stage
BY DEF stage, TypeOK

LEMMA ContractSame ==
  ASSUME UNCHANGED <<stage, instalment, sent>>
  PROVE  UNCHANGED Contract!contract
BY DEF Contract!contract, owed, lost

LEMMA SentSame ==
  ASSUME UNCHANGED transfer PROVE UNCHANGED sent
BY DEF sent

LEMMA RequestContract ==
  ASSUME TypeOK, NEW l \in Loans,
         \/ create_loan_request(l) \/ lender_approve(l) \/ admin_approve(l) \/ lender_reject(l)
  PROVE  Contract!Next
<1>1. UNCHANGED <<sent, owed, lost>>
  BY SentSame DEF create_loan_request, lender_approve, admin_approve, lender_reject, schedule, paystack,
                  owed, lost
<1>2. CASE create_loan_request(l)
  <2>1. status[l] = "none" /\ status' = [status EXCEPT ![l] = "pending_partner"]
    BY <1>2 DEF create_loan_request
  <2>2. \A other \in Loans : stage[other] \in {"none", "refused", "repaid", "defaulted"}
    BY <1>2 DEF create_loan_request, stage, Stage, Open, TypeOK
  <2>3. stage[l] = "none" /\ stage' = [stage EXCEPT ![l] = "asked"]
    BY <2>1, StageStep DEF stage, Stage
  <2> QED
    BY <1>1, <2>2, <2>3 DEF Contract!Next, Contract!Ask, Contract!Move
<1>3. CASE lender_approve(l) \/ admin_approve(l)
  <2>1. status[l] = "pending_partner" /\ status' = [status EXCEPT ![l] = "approved"]
    BY <1>3 DEF lender_approve, admin_approve, Transition, Transitions
  <2>2. stage[l] = "asked" /\ stage' = [stage EXCEPT ![l] = "agreed"]
    BY <2>1, StageStep DEF stage, Stage
  <2> QED
    BY <1>1, <2>2 DEF Contract!Next, Contract!Agree, Contract!Move
<1>4. CASE lender_reject(l)
  <2>1. status[l] = "pending_partner" /\ status' = [status EXCEPT ![l] = "rejected"]
    BY <1>4 DEF lender_reject, Transition, Transitions
  <2>2. stage[l] = "asked" /\ stage' = [stage EXCEPT ![l] = "refused"]
    BY <2>1, StageStep DEF stage, Stage
  <2> QED
    BY <1>1, <2>2 DEF Contract!Next, Contract!Refuse, Contract!Move
<1> QED
  BY <1>2, <1>3, <1>4

(* Steps the contract does not see. *)
LEMMA HiddenContract ==
  ASSUME TypeOK, Orderly, NEW l \in Loans,
         \/ send_loan_confirm_otp(l) \/ otp_expires(l) \/ confirm_loan(l) \/ day_passes(l)
         \/ \E r \in Requests : initiation_commits(l, r)
         \/ retry_disbursement(l) \/ escalate_disbursement_failure(l)
         \/ \E n \in Codes, kind \in {"failed", "reversed"} : handle_transfer_failure(l, n, kind)
         \/ \E k \in Parts : collect_instalment(l, k) \/ merchant_decides(l, k)
  PROVE  UNCHANGED Contract!contract
<1>1. UNCHANGED <<transfer, instalment>>
  BY DEF send_loan_confirm_otp, otp_expires, confirm_loan, initiation_commits, retry_disbursement, day_passes,
         escalate_disbursement_failure, handle_transfer_failure, collect_instalment, merchant_decides,
         schedule, paystack
<1>2. \/ UNCHANGED status
      \/ \E from, to \in {"approved", "confirmed", "disbursing"} :
           status[l] = from /\ status' = [status EXCEPT ![l] = to]
  BY DEF send_loan_confirm_otp, otp_expires, confirm_loan, initiation_commits, retry_disbursement, day_passes,
         escalate_disbursement_failure, handle_transfer_failure, collect_instalment, merchant_decides,
         loan_rows, Transition, Transitions, Orderly, Waiting
<1>3. UNCHANGED stage
  <2>1. CASE UNCHANGED status
    BY <2>1 DEF stage
  <2>2. CASE \E from, to \in {"approved", "confirmed", "disbursing"} :
               status[l] = from /\ status' = [status EXCEPT ![l] = to]
    BY <2>2, StageSame DEF Stage
  <2> QED
    BY <1>2, <2>1, <2>2
<1> QED
  BY <1>1, <1>3, SentSame, ContractSame

LEMMA DisburseContract ==
  ASSUME TypeOK, NEW l \in Loans, NEW r \in Requests,
         \/ disburse_loan(l, r)
         \/ \E used \in 0 .. MaxRetries + 1 : retry_failed_disbursement(l, used, r)
  PROVE  UNCHANGED Contract!contract
<1>1. /\ UNCHANGED <<status, instalment>>
      /\ UNCHANGED transfer \/ \E n \in Codes : Accept(l, n)
  BY DEF disburse_loan, retry_failed_disbursement, Answered, Unanswered, schedule, loan_rows
<1>2. ASSUME NEW n \in Codes, Accept(l, n) PROVE UNCHANGED sent
  <2>1. transfer[l][n] = "none" /\ transfer' = [transfer EXCEPT ![l][n] = "pending"]
    BY <1>2 DEF Accept, Untried
  <2>2. \A k \in Loans, m \in Codes :
          transfer'[k][m] \in {"success", "reversed"} <=> transfer[k][m] \in {"success", "reversed"}
    <3> SUFFICES ASSUME NEW k \in Loans, NEW m \in Codes
                 PROVE  transfer'[k][m] \in {"success", "reversed"}
                          <=> transfer[k][m] \in {"success", "reversed"}
      OBVIOUS
    <3>1. CASE k = l /\ m = n
      BY <2>1, <3>1 DEF TypeOK
    <3>2. CASE ~(k = l /\ m = n)
      BY <2>1, <3>2 DEF TypeOK
    <3> QED
      BY <3>1, <3>2
  <2> QED
    BY <2>2 DEF sent
<1> QED
  BY <1>1, <1>2, SentSame, ContractSame DEF stage

LEMMA ResolveContract ==
  ASSUME TypeOK, LentInv, Orderly, NEW l \in Loans, NEW n \in Codes,
         paystack_resolves(l, n) \/ paystack_reverses(l, n)
  PROVE  Contract!Next \/ UNCHANGED Contract!contract
<1>1. UNCHANGED <<status, instalment>>
  BY DEF paystack_resolves, paystack_reverses, Resolve, schedule, loan_rows
<1>2. PICK from, to : /\ transfer[l][n] = from /\ transfer' = [transfer EXCEPT ![l][n] = to]
                      /\ <<from, to>> \in {<<"pending", "success">>, <<"pending", "failed">>,
                                           <<"success", "reversed">>}
  BY DEF paystack_resolves, paystack_reverses, Resolve
<1>3. \A k \in Loans, m \in Codes :
        ~(k = l /\ m = n) => transfer'[k][m] = transfer[k][m]
  BY <1>2 DEF TypeOK
<1>4. transfer'[l][n] = to
  BY <1>2 DEF TypeOK
<1>5. sent' = IF to = "failed" THEN sent ELSE sent \cup {l}
  BY <1>2, <1>3, <1>4 DEF sent
<1>6. CASE sent' = sent
  BY <1>1, <1>6, ContractSame DEF stage
<1>7. CASE sent' # sent
  <2>1. l \notin sent /\ sent' = sent \cup {l}
    BY <1>5, <1>7
  <2>2. status[l] \in {"confirmed", "disbursing"}
    BY <1>2, <2>1 DEF Orderly, AskedFor, LentInv, LentWasSent, sent
  <2>3. stage[l] = "agreed"
    BY <2>2 DEF stage, Stage
  <2> QED
    BY <1>1, <2>1, <2>3 DEF Contract!Next, Contract!Send, stage, owed, lost
<1> QED
  BY <1>6, <1>7

LEMMA SuccessContract ==
  ASSUME TypeOK, LentInv, Orderly, NEW l \in Loans, NEW n \in Codes, handle_transfer_success(l, n)
  PROVE  Contract!Next \/ UNCHANGED Contract!contract
<1>1. UNCHANGED sent
  BY SentSame DEF handle_transfer_success, paystack
<1>2. CASE UNCHANGED <<status, schedule>>
  BY <1>1, <1>2, ContractSame DEF stage, schedule
<1>3. CASE ~UNCHANGED <<status, schedule>>
  <2>1. /\ status[l] = "disbursing" /\ status' = [status EXCEPT ![l] = "active"]
        /\ \A k \in Parts : instalment[l][k] = "none"
        /\ instalment' = [instalment EXCEPT ![l] = [k \in Parts |-> "pending"]]
    BY <1>3, SuccessStep
  <2>2. l \in sent
    BY DEF handle_transfer_success, LentInv, Told, TypeOK, sent
  <2>3. stage[l] = "agreed" /\ stage' = [stage EXCEPT ![l] = "lent"]
    BY <2>1, StageStep DEF stage, Stage
  <2>4. owed' = [owed EXCEPT ![l] = Parts]
    BY <2>1 DEF owed, TypeOK
  <2>5. lost' = lost
    BY <2>1 DEF lost, TypeOK
  <2> QED
    BY <1>1, <2>2, <2>3, <2>4, <2>5 DEF Contract!Next, Contract!Lend, Contract!Move
<1> QED
  BY <1>2, <1>3
Paid == [l \in Loans |-> {k \in Parts : outcome[l][k] = "paid"}]
NowGivenUp == [l \in Loans |-> {k \in Parts : outcome[l][k] = "defaulted"}]

(* The task's commit collects what it was paid and gives up what it defaulted. *)
LEMMA CollectContract ==
  ASSUME TypeOK, LentInv, Orderly, collect_commits
  PROVE  Contract!Next
<1>1. UNCHANGED sent
  BY SentSame DEF collect_commits, paystack
<1>2. Paid \in [Loans -> SUBSET Parts] /\ NowGivenUp \in [Loans -> SUBSET Parts]
  BY DEF Paid, NowGivenUp
<1>3. ASSUME NEW l \in Loans, NEW k \in Parts
      PROVE  /\ instalment'[l][k] = Status(l, k)
             /\ outcome[l][k] \in {"idle", "paid", "failed", "defaulted"}
             /\ outcome[l][k] # "idle" => instalment[l][k] \in {"pending", "failed"}
  BY DEF collect_commits, TypeOK, LentInv, InTurn
<1>4. ASSUME NEW l \in Loans
      PROVE  /\ Paid[l] \cup NowGivenUp[l] \subseteq owed[l] /\ Paid[l] \cap NowGivenUp[l] = {}
             /\ owed'[l] = Contract!Left(l, Paid[l], NowGivenUp[l])
             /\ lost'[l] = lost[l] \cup NowGivenUp[l]
  BY <1>3 DEF Paid, NowGivenUp, owed, lost, Status, Contract!Left
<1>5. /\ owed' = [l \in Loans |-> Contract!Left(l, Paid[l], NowGivenUp[l])]
      /\ lost' = [l \in Loans |-> lost[l] \cup NowGivenUp[l]]
  BY <1>4 DEF owed, lost
<1>6. ASSUME NEW l \in Loans
      PROVE  stage'[l] = IF stage[l] = "lent" THEN Contract!Outcome(l, Paid[l], NowGivenUp[l])
                         ELSE stage[l]
  <2>1. CASE status[l] # "active"
    <3>1. status'[l] = status[l]
      BY <2>1 DEF collect_commits
    <3>2. stage[l] # "lent"
      BY <2>1 DEF stage, Stage, Open, TypeOK
    <3> QED
      BY <3>1, <3>2 DEF stage
  <2>2. CASE status[l] = "active"
    <3>1. /\ status'[l] = check_and_mark_defaulted(l)
          /\ \A k \in Parts : /\ instalment'[l][k] = Status(l, k)
                              /\ Status(l, k) \in {"pending", "paid", "failed", "defaulted"}
      BY <2>2, CollectClose DEF Disbursed
    <3>2. stage[l] = "lent"
      BY <2>2 DEF stage, Stage
    <3>3. /\ owed'[l] = {k \in Parts : Status(l, k) \in {"pending", "failed"}}
          /\ lost'[l] = {k \in Parts : Status(l, k) = "defaulted"}
      BY <3>1 DEF owed, lost
    <3>4. Unpaid(l) = owed'[l] \cup lost'[l]
      BY <3>1, <3>3 DEF Unpaid
    <3>5. check_and_mark_defaulted(l) = IF owed'[l] # {} THEN "active"
                                        ELSE IF lost'[l] = {} THEN "repaid" ELSE "defaulted"
      BY <3>3, <3>4 DEF check_and_mark_defaulted
    <3>6. stage'[l] = Stage(check_and_mark_defaulted(l))
      BY <3>1 DEF stage
    <3>7. Stage("active") = "lent" /\ Stage("repaid") = "repaid" /\ Stage("defaulted") = "defaulted"
      BY DEF Stage
    <3> QED
      BY <1>4, <3>2, <3>5, <3>6, <3>7 DEF Contract!Outcome
  <2> QED
    BY <2>1, <2>2
<1>7. stage' = [l \in Loans |-> IF stage[l] = "lent"
                                THEN Contract!Outcome(l, Paid[l], NowGivenUp[l]) ELSE stage[l]]
  BY <1>6 DEF stage
<1> QED
  BY <1>1, <1>2, <1>4, <1>5, <1>7 DEF Contract!Next, Contract!Collect

LEMMA ContractStep ==
  ASSUME TypeOK, LentInv, Orderly, [Next]_vars
  PROVE  [Contract!Next]_Contract!contract
<1>1. ASSUME NEW l \in Loans, Disburse(l) PROVE [Contract!Next]_Contract!contract
  BY <1>1, HiddenContract, DisburseContract, SuccessContract, ResolveContract DEF Disburse
<1>2. CASE UNCHANGED vars \/ collect_due_repayments \/ collect_dies
  BY <1>2, SentSame, ContractSame
     DEF vars, collect_due_repayments, collect_dies, paystack, schedule, loan_rows, stage
<1> QED
  BY <1>1, <1>2, RequestContract, HiddenContract, CollectContract DEF Next

LEMMA ContractInit == Init => Contract!Init
BY DEF Init, Contract!Init, stage, Stage, sent, owed, lost

(* Unless requests about one loan overlap, the service keeps the contract of       *)
(* LoanContract, through lost replies, reversals and crashes: one loan at a time,  *)
(* lent only after it was agreed and sent, closed exactly when it is settled.      *)
THEOREM ServiceKeepsContract ==
  ASSUME "overlap" \notin Hazards
  PROVE  Spec => ImplementsContract
<1>1. TypeOK /\ LentInv /\ Orderly /\ [Next]_vars => Orderly'
  BY OrderlyStep
<1>2. TypeOK /\ LentInv /\ Orderly /\ [Next]_vars => [Contract!Next]_Contract!contract
  BY ContractStep
<1> QED
  BY <1>1, <1>2, OrderlyInit, ContractInit, LentInit, LentStep, TypeCorrect, PTL
     DEF Spec, ImplementsContract, Contract!Spec
===============================================================================
