----------------------- MODULE MerchantSettlementProofs -----------------------
(***************************************************************************)
(* Theorems about MerchantSettlement, for any payments, settlements,         *)
(* amounts, limits and plans.                                                *)
(***************************************************************************)
EXTENDS MerchantSettlement, Sums, TLAPS

(* The fee is never negative and never more than the collection. *)
LEMMA FeeBounds ==
  ASSUME NEW amount \in Nat, NEW plan \in Plans
  PROVE  calculate_fee(amount, plan) \in 0 .. amount
<1>1. FeeRate(plan) \in {10, 15, 25}
  BY BoundAssumption DEF FeeRate
<1>2. CASE FeeRate(plan) = 10
  BY <1>2, SMT DEF calculate_fee
<1>3. CASE FeeRate(plan) = 15
  BY <1>3, SMT DEF calculate_fee
<1>4. CASE FeeRate(plan) = 25
  BY <1>4, SMT DEF calculate_fee
<1> QED
  BY <1>1, <1>2, <1>3, <1>4

(* Rewriting the status or the code of a row leaves a row. *)
LEMMA RowUpdate ==
  ASSUME NEW r \in RowType, NEW c \in BOOLEAN,
         NEW st \in {"pending", "processing", "completed", "failed", "cancelled"}
  PROVE  /\ r.amount \in Nat
         /\ [r EXCEPT !.status = st] \in RowType
         /\ [r EXCEPT !.coded = c] \in RowType
         /\ [r EXCEPT !.status = st, !.coded = c] \in RowType
BY DEF RowType, InFlightStatuses, FinishedStatuses

(* Writing a well-typed row keeps the rows and their held total well typed. *)
LEMMA SetRowType ==
  ASSUME TypeOK, NEW s \in Settlements, NEW r \in RowType, SetRow(s, r)
  PROVE  row' \in [Settlements -> RowType] /\ held' \in Int
BY DEF TypeOK, SetRow, HeldBy, RowType

(* Setting an amount aside and giving it back stay within the naturals. *)
LEMMA BalanceType ==
  ASSUME NEW b \in Nat, NEW a \in Nat
  PROVE  /\ BalanceAfterHold(b, a) \in Nat
         /\ BalanceAfterFailure(b, a) \in Nat
BY DEF BalanceAfterHold, BalanceAfterFailure

-----------------------------------------------------------------------------
(* Type correctness *)

(* A transfer that starts, or changes its status, is a transfer. *)
LEMMA AcceptType ==
  ASSUME TypeOK, NEW s \in Settlements, NEW a \in Nat, Accept(s, a)
  PROVE  transfer' \in [Settlements -> TransferType]
<1>1. [status |-> "pending", amount |-> a] \in TransferType
  BY DEF TransferType
<1> QED
  BY <1>1 DEF Accept, TypeOK

LEMMA ResolveType ==
  ASSUME TypeOK, NEW s \in Settlements, NEW from, NEW to \in {"success", "failed", "reversed"},
         Resolve(s, from, to)
  PROVE  TypeOK'
<1>1. transfer[s] \in TransferType
  BY DEF TypeOK
<1>2. [transfer[s] EXCEPT !.status = to] \in TransferType
  BY <1>1 DEF TransferType
<1>3. transfer' = [transfer EXCEPT ![s] = [transfer[s] EXCEPT !.status = to]]
  BY DEF Resolve
<1>4. transfer' \in [Settlements -> TransferType]
  BY <1>2, <1>3 DEF TypeOK
<1> QED
  BY <1>4 DEF Resolve, TypeOK, wallet, task

\* The entry a webhook has left behind when its disbursement commits.
LeftDebit(s) ==
  /\ ledger' = Append(ledger, Entry("debit", s, -row[s].amount, unsettled_balance))
  /\ total_settled' = total_settled + row[s].amount

LeftReversal(s) ==
  /\ \E b \in Nat : ledger' = Append(ledger, Entry("reversal", s, row[s].amount, b))
  /\ UNCHANGED total_settled

(* A disbursement writes its row, or nothing; a webhook that overtakes it leaves at
   most one entry. *)
LEMMA DisburseParts ==
  ASSUME TypeOK, NEW s \in Settlements, NEW r \in RowType, disburse_settlement(s, r)
  PROVE  /\ Commit(s, r) \/ UNCHANGED <<row, held, unsettled_balance, total_settled, ledger>>
         /\ \/ UNCHANGED <<ledger, total_settled>>
            \/ /\ "overtaken" \in Hazards /\ s \in overtaken' /\ row[s].status = "pending"
               /\ LeftDebit(s) \/ LeftReversal(s)
<1>1. /\ row[s].amount \in Nat /\ unsettled_balance \in Nat
      /\ BalanceAfterFailure(unsettled_balance, row[s].amount) \in Nat
  BY BalanceType DEF TypeOK, RowType
<1>2. CASE /\ Commit(s, r) \/ UNCHANGED <<row, held, unsettled_balance>>
           /\ UNCHANGED <<total_settled, ledger>>
  BY <1>2
<1>3. CASE Overtake(s, r.amount) /\ Commit(s, r)
  <2>1. PICK verdict \in {"success", "failed"} :
          /\ "overtaken" \in Hazards
          /\ overtaken' = overtaken \cup {s}
          /\ OvertakingWrites(s, verdict)
    BY <1>3 DEF Overtake
  <2> QED
    BY <1>1, <1>3, <2>1 DEF OvertakingWrites, LeftDebit, LeftReversal
<1> QED
  BY <1>2, <1>3 DEF disburse_settlement

LEMMA OvertakeType ==
  ASSUME TypeOK, NEW s \in Settlements, NEW a \in Nat, Overtake(s, a)
  PROVE  /\ transfer' \in [Settlements -> TransferType]
         /\ events' \subseteq Settlements \X {"success", "failed", "reversed"}
         /\ answered' \subseteq events' /\ overtaken' \subseteq Settlements
<1>1. PICK verdict \in {"success", "failed"} :
        /\ transfer' = [transfer EXCEPT ![s] = [status |-> verdict, amount |-> a]]
        /\ events' = events \cup {<<s, verdict>>}
        /\ answered' = answered \cup {<<s, verdict>>}
        /\ overtaken' = overtaken \cup {s}
  BY DEF Overtake
<1>2. [status |-> verdict, amount |-> a] \in TransferType
  BY DEF TransferType
<1> QED
  BY <1>1, <1>2 DEF TypeOK

(* A disbursement keeps the types, whichever row it is given. *)
LEMMA DisburseType ==
  ASSUME TypeOK, NEW s \in Settlements, NEW r \in RowType, disburse_settlement(s, r)
  PROVE  TypeOK'
<1>0. /\ r.amount \in Nat /\ row[s].amount \in Nat /\ unsettled_balance \in Nat
      /\ ledger \in Seq(EntryType) /\ total_settled \in Nat
  BY DEF TypeOK, RowType
<1>1. [r EXCEPT !.status = "processing", !.coded = TRUE] \in RowType
  BY RowUpdate
<1>2. /\ row' \in [Settlements -> RowType] /\ held' \in Int
      /\ unsettled_balance' \in Nat
  <2>1. CASE Commit(s, r)
    BY <1>0, <1>1, <2>1, SetRowType, BalanceType DEF Commit
  <2>2. CASE UNCHANGED <<row, held, unsettled_balance>>
    BY <2>2 DEF TypeOK
  <2> QED
    BY <2>1, <2>2, DisburseParts
<1>3. ledger' \in Seq(EntryType) /\ total_settled' \in Nat
  <2>1. CASE UNCHANGED <<ledger, total_settled>>
    BY <1>0, <2>1
  <2>2. CASE LeftDebit(s)
    <3>1. Entry("debit", s, -row[s].amount, unsettled_balance) \in EntryType
      BY <1>0 DEF Entry, EntryType
    <3>2. Append(ledger, Entry("debit", s, -row[s].amount, unsettled_balance)) \in Seq(EntryType)
      BY <1>0, <3>1
    <3> QED
      BY <1>0, <2>2, <3>2 DEF LeftDebit
  <2>3. CASE LeftReversal(s)
    <3>1. PICK b \in Nat : ledger' = Append(ledger, Entry("reversal", s, row[s].amount, b))
      BY <2>3 DEF LeftReversal
    <3>2. Entry("reversal", s, row[s].amount, b) \in EntryType
      BY <1>0 DEF Entry, EntryType
    <3>3. Append(ledger, Entry("reversal", s, row[s].amount, b)) \in Seq(EntryType)
      BY <1>0, <3>2
    <3> QED
      BY <1>0, <2>3, <3>1, <3>3 DEF LeftReversal
  <2> QED
    BY <2>1, <2>2, <2>3, DisburseParts
<1>4. /\ transfer' \in [Settlements -> TransferType]
      /\ events' \subseteq Settlements \X {"success", "failed", "reversed"}
      /\ answered' \subseteq events' /\ overtaken' \subseteq Settlements
  <2>1. CASE Accept(s, r.amount) /\ UNCHANGED <<events, answered, overtaken>>
    <3>1. transfer' \in [Settlements -> TransferType]
      BY <1>0, <2>1, AcceptType
    <3> QED
      BY <2>1, <3>1 DEF TypeOK
  <2>2. CASE Overtake(s, r.amount)
    BY <1>0, <2>2, OvertakeType
  <2> QED
    BY <2>1, <2>2 DEF disburse_settlement
<1>5. UNCHANGED <<confirmed, profile, task, credited>>
  BY DEF disburse_settlement
<1> QED
  BY <1>2, <1>3, <1>4, <1>5 DEF TypeOK, task

(* Confirming keeps the types of the row and of the wallet. *)
LEMMA ConfirmType ==
  ASSUME TypeOK, NEW s \in Settlements, confirm_settlement(s)
  PROVE  /\ row' \in [Settlements -> RowType] /\ held' \in Int
         /\ unsettled_balance' \in Nat /\ total_settled' \in Nat
         /\ ledger' \in Seq(EntryType)
<1>0. row[s] \in RowType
  BY DEF TypeOK
<1>1. /\ row[s].amount \in Nat
      /\ Found(s) \in RowType
  BY <1>0, RowUpdate DEF Found
<1>1a. [Found(s) EXCEPT !.status = "completed"] \in RowType
  BY <1>1, RowUpdate
<1> DEFINE debit == Entry("debit", s, -row[s].amount, unsettled_balance)
<1>2. debit \in EntryType
  BY <1>1 DEF TypeOK, Entry, EntryType
<1>3. row' \in [Settlements -> RowType] /\ held' \in Int
  BY <1>1, <1>1a, SetRowType DEF confirm_settlement
<1>4. /\ ledger \in Seq(EntryType) /\ unsettled_balance \in Nat /\ total_settled \in Nat
  BY DEF TypeOK
<1>5. ledger' = ledger \/ ledger' = Append(ledger, debit)
  BY DEF confirm_settlement
<1> HIDE DEF debit
<1>6. ledger' \in Seq(EntryType)
  BY <1>2, <1>4, <1>5
<1> QED
  BY <1>1, <1>3, <1>4, <1>6 DEF confirm_settlement

(* Failing keeps the types of the row and of the wallet. *)
LEMMA FailType ==
  ASSUME TypeOK, NEW s \in Settlements, fail_settlement(s)
  PROVE  /\ row' \in [Settlements -> RowType] /\ held' \in Int
         /\ unsettled_balance' \in Nat /\ total_settled' \in Nat
         /\ ledger' \in Seq(EntryType)
<1>0. row[s] \in RowType
  BY DEF TypeOK
<1>1. /\ row[s].amount \in Nat
      /\ Found(s) \in RowType
  BY <1>0, RowUpdate DEF Found
<1>1a. [Found(s) EXCEPT !.status = "failed"] \in RowType
  BY <1>1, RowUpdate
<1>2. row' \in [Settlements -> RowType] /\ held' \in Int
  BY <1>1, <1>1a, SetRowType DEF fail_settlement
<1>3. unsettled_balance' \in Nat /\ total_settled' \in Nat
  BY <1>1, BalanceType DEF fail_settlement, TypeOK
<1>4. Entry("reversal", s, row[s].amount, unsettled_balance') \in EntryType
  BY <1>1, <1>3 DEF Entry, EntryType
<1>5. ledger \in Seq(EntryType)
  BY DEF TypeOK
<1>6. Append(ledger, Entry("reversal", s, row[s].amount, unsettled_balance')) \in Seq(EntryType)
  BY <1>4, <1>5
<1> QED
  BY <1>2, <1>3, <1>5, <1>6 DEF fail_settlement

LEMMA TypeInit == Init => TypeOK
<1> SUFFICES ASSUME Init PROVE TypeOK
  OBVIOUS
<1>1. NoRow \in RowType
  BY DEF NoRow, RowType
<1>2. NoTransfer \in TransferType
  BY DEF NoTransfer, TransferType
<1>3. profile \in [kyc_verified: BOOLEAN, settlement_enabled: BOOLEAN, momo_verified: BOOLEAN,
                  is_active: BOOLEAN, settlement_threshold: Thresholds]
  <2>1. PICK t \in Thresholds :
          profile = [kyc_verified |-> TRUE, settlement_enabled |-> TRUE, momo_verified |-> TRUE,
                     is_active |-> TRUE, settlement_threshold |-> t]
    BY Zenon DEF Init
  <2> QED
    BY <2>1
<1>4. ledger \in Seq(EntryType)
  BY DEF Init
<1> QED
  BY <1>1, <1>2, <1>3, <1>4 DEF Init, TypeOK

(* Every step keeps the types: one step of the proof per action. *)
LEMMA TypeStep == TypeOK /\ [Next]_vars => TypeOK'
<1> SUFFICES ASSUME TypeOK, [Next]_vars PROVE TypeOK'
  OBVIOUS
<1>0. CASE UNCHANGED vars
  BY <1>0 DEF TypeOK, vars, wallet, task, paystack
<1>1. ASSUME NEW p \in Payments, payment_success(p) PROVE TypeOK'
  BY <1>1 DEF payment_success, TypeOK, wallet, task, paystack
<1>2. ASSUME NEW p \in Payments, NEW plan \in Plans, credit_collection(p, plan) PROVE TypeOK'
  <2> DEFINE fee == calculate_fee(GrossOf[p], plan)
             after_credit == unsettled_balance + GrossOf[p]
             credit == Entry("credit", p, GrossOf[p], after_credit)
             charge == Entry("fee", p, -fee, after_credit - fee)
  <2>1. /\ GrossOf[p] \in Nat /\ unsettled_balance \in Nat
        /\ fee \in 0 .. GrossOf[p] /\ credited \in Int
    BY AmountAssumption, FeeBounds DEF TypeOK
  <2> HIDE DEF fee
  <2>2. /\ after_credit \in Nat /\ after_credit - fee \in Nat /\ -fee \in Int
        /\ credited + GrossOf[p] - fee \in Int
    BY <2>1
  <2>3. credit \in EntryType /\ charge \in EntryType
    BY <2>1, <2>2 DEF Entry, EntryType
  <2> HIDE DEF credit, charge, after_credit
  <2>4. ledger \o <<credit, charge>> \in Seq(EntryType)
    BY <2>3 DEF TypeOK
  <2>5. /\ ledger' = ledger \o <<credit, charge>>
        /\ unsettled_balance' = after_credit - fee
        /\ credited' = credited + GrossOf[p] - fee
    BY <1>2 DEF credit_collection, credit, charge, after_credit, fee
  <2> QED
    BY <1>2, <2>2, <2>4, <2>5 DEF credit_collection, TypeOK, task, paystack
<1>3. ASSUME NEW s \in Settlements, NEW a \in Amounts, request_settlement(s, a) PROVE TypeOK'
  <2>1. NewRow("pending", a, "manual") \in RowType
    BY AmountAssumption DEF NewRow, RowType, InFlightStatuses
  <2>2. CASE disburse_settlement(s, NewRow("pending", a, "manual"))
    BY <2>1, <2>2, DisburseType
  <2>3. CASE /\ SetRow(s, NewRow("pending", a, "manual"))
             /\ UNCHANGED <<confirmed, wallet, profile, task, paystack, credited>>
    BY <2>1, <2>3, SetRowType DEF TypeOK, wallet, task, paystack
  <2> QED
    BY <1>3, <2>2, <2>3 DEF request_settlement
<1>4. ASSUME NEW s \in Settlements, NEW a \in Amounts, admin_force_settle(s, a) PROVE TypeOK'
  <2>1. NewRow("pending", a, "admin") \in RowType
    BY AmountAssumption DEF NewRow, RowType, InFlightStatuses
  <2> QED
    BY <1>4, <2>1, DisburseType DEF admin_force_settle
<1>5. ASSUME NEW s \in Settlements, approve_settlement(s) PROVE TypeOK'
  BY <1>5, DisburseType DEF approve_settlement, TypeOK
<1>6. ASSUME NEW s \in Settlements, cancel_settlement(s) PROVE TypeOK'
  <2>0. row[s] \in RowType
    BY DEF TypeOK
  <2>1. [row[s] EXCEPT !.status = "cancelled"] \in RowType
    BY <2>0, RowUpdate
  <2> QED
    BY <1>6, <2>1, SetRowType DEF cancel_settlement, TypeOK, wallet, task, paystack
<1>7. ASSUME NEW s \in Settlements, retry_failed_merchant_settlement(s) PROVE TypeOK'
  <2>0. row[s] \in RowType
    BY DEF TypeOK
  <2>1. [row[s] EXCEPT !.status = "pending"] \in RowType
    BY <2>0, RowUpdate
  <2> QED
    BY <1>7, <2>1, DisburseType DEF retry_failed_merchant_settlement
<1>8. ASSUME NEW s \in Settlements, handle_transfer_success(s) PROVE TypeOK'
  <2>1. /\ events' = events /\ transfer' = transfer /\ overtaken' = overtaken
        /\ answered' \subseteq events'
    BY <1>8 DEF handle_transfer_success, Delivered, TypeOK
  <2>2. CASE confirm_settlement(s)
    BY <1>8, <2>1, <2>2, ConfirmType DEF handle_transfer_success, TypeOK, task
  <2>3. CASE Dropped(s)
    BY <1>8, <2>1, <2>3 DEF handle_transfer_success, Dropped, TypeOK, task, wallet
  <2> QED
    BY <1>8, <2>2, <2>3 DEF handle_transfer_success
<1>9. ASSUME NEW s \in Settlements, NEW reason \in {"failed", "reversed"},
             handle_transfer_failure(s, reason)
      PROVE  TypeOK'
  <2>1. /\ events' = events /\ transfer' = transfer /\ overtaken' = overtaken
        /\ answered' \subseteq events'
    BY <1>9 DEF handle_transfer_failure, Delivered, TypeOK
  <2>2. CASE fail_settlement(s)
    BY <1>9, <2>1, <2>2, FailType DEF handle_transfer_failure, TypeOK, task
  <2>3. CASE Dropped(s)
    BY <1>9, <2>1, <2>3 DEF handle_transfer_failure, Dropped, TypeOK, task, wallet
  <2> QED
    BY <1>9, <2>2, <2>3 DEF handle_transfer_failure
<1>10. ASSUME NEW s \in Settlements, daily_merchant_auto_settlement(s) PROVE TypeOK'
  <2>1. NewRow("processing", unsettled_balance, "auto") \in RowType
    BY DEF TypeOK, NewRow, RowType, InFlightStatuses
  <2>2. row' \in [Settlements -> RowType] /\ held' \in Int
    BY <1>10, <2>1, SetRowType DEF daily_merchant_auto_settlement
  <2>3. unsettled_balance' \in Nat
    BY <1>10, BalanceType DEF daily_merchant_auto_settlement, TypeOK
  <2> QED
    BY <1>10, <2>2, <2>3 DEF daily_merchant_auto_settlement, TypeOK, paystack
<1>11. ASSUME NEW s \in Settlements, send_chunk(s) PROVE TypeOK'
  <2>1. row[s].amount \in Nat
    BY DEF TypeOK, RowType
  <2>2. [status |-> "success", amount |-> row[s].amount] \in TransferType
    BY <2>1 DEF TransferType
  <2>3. transfer' \in [Settlements -> TransferType]
    BY <1>11, <2>1, <2>2, AcceptType DEF send_chunk, TypeOK, paystack
  <2>4. /\ events' \subseteq Settlements \X {"success", "failed", "reversed"}
        /\ answered' \subseteq events' /\ overtaken' \subseteq Settlements
    BY <1>11 DEF send_chunk, TypeOK, paystack
  <2>5. outcome' \in [Settlements -> {"none", "unsent", "pending", "uncoded", "success", "failed"}]
    BY <1>11 DEF send_chunk, TypeOK
  <2>6. UNCHANGED <<confirmed, wallet, row, profile, reconcile_due, held, credited>>
    BY <1>11 DEF send_chunk
  <2> QED
    BY <2>3, <2>4, <2>5, <2>6 DEF TypeOK, wallet
<1>12. ASSUME NEW s \in Settlements, apply_bulk_transfer_outcomes(s) PROVE TypeOK'
  <2>0. row[s] \in RowType /\ (row[s].coded \/ outcome[s] = "pending") \in BOOLEAN
    BY DEF TypeOK, RowType
  <2>1. [row[s] EXCEPT !.coded = @ \/ outcome[s] = "pending"] \in RowType
    BY <2>0, RowUpdate
  <2>2. /\ row' \in [Settlements -> RowType] /\ held' \in Int
        /\ unsettled_balance' \in Nat /\ total_settled' \in Nat
        /\ ledger' \in Seq(EntryType) /\ reconcile_due' \subseteq Settlements
    BY <1>12, <2>1, SetRowType, ConfirmType, FailType
    DEF apply_bulk_transfer_outcomes, TypeOK, wallet
  <2> QED
    BY <1>12, <2>2 DEF apply_bulk_transfer_outcomes, TypeOK, paystack
<1>13. ASSUME NEW s \in Settlements, worker_crash(s) PROVE TypeOK'
  BY <1>13 DEF worker_crash, TypeOK, wallet, paystack
<1>14. ASSUME NEW s \in Settlements, reconcile_merchant_settlement_batch(s) PROVE TypeOK'
  <2>1. /\ row' \in [Settlements -> RowType] /\ held' \in Int
        /\ unsettled_balance' \in Nat /\ total_settled' \in Nat
        /\ ledger' \in Seq(EntryType)
    BY <1>14, ConfirmType, FailType
    DEF reconcile_merchant_settlement_batch, TypeOK, wallet
  <2> QED
    BY <1>14, <2>1 DEF reconcile_merchant_settlement_batch, TypeOK, paystack
<1>15. ASSUME NEW s \in Settlements, paystack_resolves(s) \/ paystack_reverses(s) PROVE TypeOK'
  BY <1>15, ResolveType DEF paystack_resolves, paystack_reverses
<1>16. ASSUME NEW e \in BOOLEAN, NEW t \in Thresholds, update_settlement_config(e, t)
       PROVE  TypeOK'
  BY <1>16 DEF update_settlement_config, TypeOK, wallet, task, paystack
<1>17. CASE kyc_changes \/ momo_changes \/ suspend_changes
  BY <1>17 DEF kyc_changes, momo_changes, suspend_changes, TypeOK, wallet, task, paystack
<1> QED
  BY <1>0, <1>1, <1>2, <1>3, <1>4, <1>5, <1>6, <1>7, <1>8, <1>9, <1>10, <1>11, <1>12,
     <1>13, <1>14, <1>15, <1>16, <1>17 DEF Next

(* Balances, rows, ledger and transfers keep their types, whatever goes wrong; in
   particular neither balance is ever negative. *)
THEOREM TypeCorrect == Spec => []TypeOK
BY TypeInit, TypeStep, PTL DEF Spec

-----------------------------------------------------------------------------
(* The ledger: what a step may add to it, and what that does to the rows *)

\* The step adds no entry and completes no settlement.
Quiet ==
  /\ ledger' = ledger
  /\ \A s \in Settlements :
       /\ row'[s].status = "completed" <=> row[s].status = "completed"
       /\ row[s].status = "completed" => row'[s].amount = row[s].amount

Debits(s) ==
  /\ row[s].status # "completed" /\ row'[s].status = "completed"
  /\ ledger' = Append(ledger, Entry("debit", s, -row[s].amount, unsettled_balance))
  /\ \A t \in Settlements \ {s} : row'[t] = row[t]

Reverses(s) ==
  /\ row[s].status # "completed" /\ row'[s].status # "completed"
  /\ ledger' = Append(ledger, Entry("reversal", s, row[s].amount, unsettled_balance'))
  /\ \A t \in Settlements \ {s} : row'[t] = row[t]

\* The webhook's entry for a row the disbursement then writes over.
Overtakes(s) ==
  /\ row[s].status # "completed" /\ row'[s].status # "completed" /\ s \in overtaken'
  /\ \E e : e.type \in {"debit", "reversal"} /\ e.of = s /\ ledger' = Append(ledger, e)
  /\ \A t \in Settlements \ {s} : row'[t] = row[t]

Credits(p) ==
  /\ ~AlreadyCredited(p)
  /\ \E x, y, a, b : ledger' = ledger \o <<Entry("credit", p, x, a), Entry("fee", p, y, b)>>
  /\ row' = row

(* Writing one row that is, and stays, not completed is quiet. *)
LEMMA SetRowQuiet ==
  ASSUME TypeOK, NEW s \in Settlements, NEW r, SetRow(s, r), UNCHANGED ledger,
         row[s].status # "completed", r.status # "completed"
  PROVE  Quiet
BY DEF TypeOK, SetRow, Quiet

LEMMA DisburseKind ==
  ASSUME TypeOK, NEW s \in Settlements, NEW r \in RowType, disburse_settlement(s, r),
         row[s].status # "completed"
  PROVE  Quiet \/ Overtakes(s)
<1> DEFINE q == [r EXCEPT !.status = "processing", !.coded = TRUE]
<1>1. q.status # "completed"
  BY DEF RowType
<1>2. CASE UNCHANGED <<row, ledger>>
  BY <1>2 DEF Quiet
<1>3. CASE Commit(s, r) /\ UNCHANGED ledger
  BY <1>1, <1>3, SetRowQuiet DEF Commit
<1>4. CASE Commit(s, r) /\ s \in overtaken' /\ (LeftDebit(s) \/ LeftReversal(s))
  <2>1. /\ row'[s].status # "completed"
        /\ \A t \in Settlements \ {s} : row'[t] = row[t]
    BY <1>1, <1>4 DEF Commit, SetRow, TypeOK
  <2>2. \E e : e.type \in {"debit", "reversal"} /\ e.of = s /\ ledger' = Append(ledger, e)
    BY <1>4 DEF LeftDebit, LeftReversal, Entry
  <2> QED
    BY <1>4, <2>1, <2>2 DEF Overtakes
<1> QED
  BY <1>2, <1>3, <1>4, DisburseParts

(* Finding a row, or giving it its transfer code, changes neither status nor amount. *)
LEMMA CodeQuiet ==
  ASSUME TypeOK, NEW s \in Settlements, NEW c \in BOOLEAN,
         SetRow(s, [row[s] EXCEPT !.coded = c]), UNCHANGED ledger
  PROVE  Quiet
<1>1. row[s] \in RowType
  BY DEF TypeOK
<1>2. /\ [row[s] EXCEPT !.coded = c].status = row[s].status
      /\ [row[s] EXCEPT !.coded = c].amount = row[s].amount
  BY <1>1 DEF RowType
<1> QED
  BY <1>2 DEF TypeOK, SetRow, Quiet

LEMMA ConfirmKind ==
  ASSUME TypeOK, NEW s \in Settlements, confirm_settlement(s)
  PROVE  Quiet \/ Debits(s)
<1>1. row[s] \in RowType /\ row \in [Settlements -> RowType]
  BY DEF TypeOK
<1>2. Found(s).status = row[s].status
  BY <1>1 DEF Found, RowType
<1>3. [Found(s) EXCEPT !.status = "completed"].status = "completed"
  BY <1>1 DEF Found, RowType
<1>4. CASE SetRow(s, Found(s)) /\ UNCHANGED ledger
  BY <1>4, CodeQuiet DEF Found
<1>5. CASE /\ ~Completed(Found(s))
           /\ SetRow(s, [Found(s) EXCEPT !.status = "completed"])
           /\ ledger' = Append(ledger, Entry("debit", s, -row[s].amount, unsettled_balance))
  BY <1>1, <1>2, <1>3, <1>5 DEF SetRow, Completed, Debits
<1> QED
  BY <1>4, <1>5 DEF confirm_settlement

LEMMA FailKind ==
  ASSUME TypeOK, NEW s \in Settlements, fail_settlement(s)
  PROVE  Quiet \/ Reverses(s)
<1>1. row[s] \in RowType /\ row \in [Settlements -> RowType]
  BY DEF TypeOK
<1>2. Found(s).status = row[s].status
  BY <1>1 DEF Found, RowType
<1>3. [Found(s) EXCEPT !.status = "failed"].status = "failed"
  BY <1>1 DEF Found, RowType
<1>4. CASE SetRow(s, Found(s)) /\ UNCHANGED ledger
  BY <1>4, CodeQuiet DEF Found
<1>5. CASE /\ ~Finished(Found(s))
           /\ SetRow(s, [Found(s) EXCEPT !.status = "failed"])
           /\ ledger' = Append(ledger, Entry("reversal", s, row[s].amount, unsettled_balance'))
  BY <1>1, <1>2, <1>3, <1>5 DEF SetRow, Finished, FinishedStatuses, Reverses
<1> QED
  BY <1>4, <1>5 DEF fail_settlement

(* Every step of the system is one of the five kinds. *)
LEMMA StepKinds ==
  ASSUME TypeOK, [Next]_vars
  PROVE  \/ Quiet
         \/ \E p \in Payments : Credits(p)
         \/ \E s \in Settlements : Debits(s) \/ Reverses(s) \/ Overtakes(s)
<1> DEFINE Goal == \/ Quiet
                   \/ \E p \in Payments : Credits(p)
                   \/ \E s \in Settlements : Debits(s) \/ Reverses(s) \/ Overtakes(s)
<1>0. ASSUME UNCHANGED <<ledger, row>> PROVE Quiet
  BY <1>0 DEF Quiet
<1>1. CASE UNCHANGED vars
  BY <1>0, <1>1 DEF vars, wallet
<1>2. ASSUME NEW p \in Payments, payment_success(p) PROVE Goal
  BY <1>0, <1>2 DEF payment_success, wallet
<1>3. ASSUME NEW p \in Payments, NEW plan \in Plans, credit_collection(p, plan) PROVE Goal
  BY <1>3 DEF credit_collection, Credits
<1>4. ASSUME NEW s \in Settlements, NEW a \in Amounts,
             request_settlement(s, a) \/ admin_force_settle(s, a)
      PROVE  Goal
  <2>1. /\ NewRow("pending", a, "manual") \in RowType
        /\ NewRow("pending", a, "admin") \in RowType
        /\ NewRow("pending", a, "manual").status # "completed"
    BY AmountAssumption DEF NewRow, RowType, InFlightStatuses
  <2>2. row[s].status # "completed"
    BY <1>4 DEF request_settlement, admin_force_settle, Fresh, NoRow
  <2>3. CASE SetRow(s, NewRow("pending", a, "manual")) /\ UNCHANGED ledger
    BY <2>1, <2>2, <2>3, SetRowQuiet
  <2> QED
    BY <1>4, <2>1, <2>2, <2>3, DisburseKind DEF request_settlement, admin_force_settle, wallet
<1>5. ASSUME NEW s \in Settlements, approve_settlement(s) PROVE Goal
  BY <1>5, DisburseKind DEF approve_settlement, TypeOK
<1>6. ASSUME NEW s \in Settlements, cancel_settlement(s) PROVE Goal
  <2>1. [row[s] EXCEPT !.status = "cancelled"].status # "completed"
    BY DEF TypeOK, RowType
  <2> QED
    BY <1>6, <2>1, SetRowQuiet DEF cancel_settlement, wallet
<1>7. ASSUME NEW s \in Settlements, retry_failed_merchant_settlement(s) PROVE Goal
  <2>1. row[s] \in RowType
    BY DEF TypeOK
  <2>2. [row[s] EXCEPT !.status = "pending"] \in RowType
    BY <2>1, RowUpdate
  <2> QED
    BY <1>7, <2>2, DisburseKind DEF retry_failed_merchant_settlement
<1>8. ASSUME NEW s \in Settlements, handle_transfer_success(s) PROVE Goal
  BY <1>0, <1>8, ConfirmKind DEF handle_transfer_success, Dropped, wallet
<1>9. ASSUME NEW s \in Settlements, NEW reason \in {"failed", "reversed"},
             handle_transfer_failure(s, reason)
      PROVE  Goal
  BY <1>0, <1>9, FailKind DEF handle_transfer_failure, Dropped, wallet
<1>10. ASSUME NEW s \in Settlements, daily_merchant_auto_settlement(s) PROVE Goal
  <2>1. NewRow("processing", unsettled_balance, "auto").status # "completed"
    BY DEF NewRow
  <2>2. row[s].status # "completed"
    BY <1>10 DEF daily_merchant_auto_settlement, Fresh, NoRow
  <2> QED
    BY <1>10, <2>1, <2>2, SetRowQuiet DEF daily_merchant_auto_settlement
<1>11. ASSUME NEW s \in Settlements,
              send_chunk(s) \/ worker_crash(s) \/ paystack_resolves(s) \/ paystack_reverses(s)
       PROVE  Goal
  BY <1>0, <1>11 DEF send_chunk, worker_crash, paystack_resolves, paystack_reverses, Resolve, wallet
<1>12. ASSUME NEW s \in Settlements, apply_bulk_transfer_outcomes(s) PROVE Goal
  <2>0. (row[s].coded \/ outcome[s] = "pending") \in BOOLEAN
    BY DEF TypeOK, RowType
  <2>1. CASE /\ SetRow(s, [row[s] EXCEPT !.coded = @ \/ outcome[s] = "pending"])
             /\ UNCHANGED wallet
    BY <2>0, <2>1, CodeQuiet DEF wallet
  <2>2. CASE UNCHANGED <<wallet, row, held, reconcile_due>>
    BY <1>0, <2>2 DEF wallet
  <2> QED
    BY <1>12, <2>1, <2>2, ConfirmKind, FailKind DEF apply_bulk_transfer_outcomes
<1>13. ASSUME NEW s \in Settlements, reconcile_merchant_settlement_batch(s) PROVE Goal
  BY <1>0, <1>13, ConfirmKind, FailKind DEF reconcile_merchant_settlement_batch, wallet
<1>14. ASSUME NEW e \in BOOLEAN, NEW t \in Thresholds, update_settlement_config(e, t) PROVE Goal
  BY <1>0, <1>14 DEF update_settlement_config, wallet
<1>15. CASE kyc_changes \/ momo_changes \/ suspend_changes
  BY <1>0, <1>15 DEF kyc_changes, momo_changes, suspend_changes, wallet
<1> QED
  BY <1>1, <1>2, <1>3, <1>4, <1>5, <1>6, <1>7, <1>8, <1>9, <1>10, <1>11, <1>12, <1>13,
     <1>14, <1>15 DEF Next

(* A completed settlement stays completed, with its amount: no late failure, no
   retry and no reconciliation undoes it. *)
THEOREM CompletedStays == Spec => CompletedIsFinal
<1>1. TypeOK /\ [Next]_vars =>
        [\A s \in Settlements : row[s].status = "completed" =>
            row'[s].status = "completed" /\ row'[s].amount = row[s].amount]_vars
  BY StepKinds DEF Quiet, Credits, Debits, Reverses, Overtakes
<1> QED
  BY <1>1, TypeCorrect, PTL DEF Spec, CompletedIsFinal

(* Appending one entry: the old positions keep their entries, one is new. *)
LEMMA Appended ==
  ASSUME TypeOK, NEW e, ledger' = Append(ledger, e)
  PROVE  \E k \in Nat :
           /\ k \notin DOMAIN ledger
           /\ DOMAIN ledger' = DOMAIN ledger \cup {k}
           /\ ledger'[k] = e
           /\ \A i \in DOMAIN ledger : ledger'[i] = ledger[i]
<1>1. ledger \in Seq(EntryType)
  BY DEF TypeOK
<1>2. /\ Len(ledger) + 1 \notin DOMAIN ledger
      /\ DOMAIN ledger' = DOMAIN ledger \cup {Len(ledger) + 1}
      /\ ledger'[Len(ledger) + 1] = e
      /\ \A i \in DOMAIN ledger : ledger'[i] = ledger[i]
  BY <1>1
<1>3. Len(ledger) + 1 \in Nat
  BY <1>1
<1> QED
  BY <1>2, <1>3

(* The same for the two entries of a collection. *)
LEMMA AppendedTwo ==
  ASSUME TypeOK, NEW p, Credits(p)
  PROVE  \E k, m \in Nat :
           /\ k # m /\ k \notin DOMAIN ledger /\ m \notin DOMAIN ledger
           /\ DOMAIN ledger' = DOMAIN ledger \cup {k, m}
           /\ ledger'[k].type = "credit" /\ ledger'[k].of = p
           /\ ledger'[m].type = "fee" /\ ledger'[m].of = p
           /\ \A i \in DOMAIN ledger : ledger'[i] = ledger[i]
<1>1. PICK x, y, a, b : ledger' = ledger \o <<Entry("credit", p, x, a), Entry("fee", p, y, b)>>
  BY Zenon DEF Credits
<1> DEFINE d == Entry("credit", p, x, a)
           e == Entry("fee", p, y, b)
<1>2. d.type = "credit" /\ d.of = p /\ e.type = "fee" /\ e.of = p
  BY DEF Entry
<1>3. ledger' = ledger \o <<d, e>>
  BY <1>1
<1> HIDE DEF d, e
<1>4. ledger \in Seq(EntryType)
  BY DEF TypeOK
<1>5. Len(ledger) \in Nat /\ DOMAIN ledger = 1 .. Len(ledger)
  BY <1>4
<1>6. /\ DOMAIN ledger' = 1 .. Len(ledger) + 2
      /\ ledger'[Len(ledger) + 1] = d /\ ledger'[Len(ledger) + 2] = e
      /\ \A i \in DOMAIN ledger : ledger'[i] = ledger[i]
  BY <1>3, <1>4, <1>5
<1>7. DOMAIN ledger' = DOMAIN ledger \cup {Len(ledger) + 1, Len(ledger) + 2}
  BY <1>5, <1>6
<1> QED
  BY <1>2, <1>5, <1>6, <1>7

\* CreditedOnce is not inductive: the guard looks at credits only, so a fee must
\* come with one.
CreditInv ==
  /\ CreditedOnce
  /\ \A i \in DOMAIN ledger : ledger[i].type = "fee" => AlreadyCredited(ledger[i].of)

LEMMA CreditStep == TypeOK /\ CreditInv /\ [Next]_vars => CreditInv'
<1> SUFFICES ASSUME TypeOK, CreditInv, [Next]_vars PROVE CreditInv'
  OBVIOUS
<1>1. CASE Quiet
  BY <1>1 DEF Quiet, CreditInv, CreditedOnce, AlreadyCredited
<1>2. ASSUME NEW s \in Settlements, Debits(s) \/ Reverses(s) \/ Overtakes(s)
      PROVE  CreditInv'
  <2>1. PICK e : ledger' = Append(ledger, e) /\ e.type \notin {"credit", "fee"}
    BY <1>2 DEF Debits, Reverses, Overtakes, Entry
  <2>2. PICK k \in Nat : /\ k \notin DOMAIN ledger
                         /\ DOMAIN ledger' = DOMAIN ledger \cup {k}
                         /\ ledger'[k] = e
                         /\ \A i \in DOMAIN ledger : ledger'[i] = ledger[i]
    BY <2>1, Appended
  <2> QED
    BY <2>1, <2>2 DEF CreditInv, CreditedOnce, AlreadyCredited
<1>3. ASSUME NEW p \in Payments, Credits(p) PROVE CreditInv'
  <2>2. PICK k, m \in Nat :
          /\ k # m /\ k \notin DOMAIN ledger /\ m \notin DOMAIN ledger
          /\ DOMAIN ledger' = DOMAIN ledger \cup {k, m}
          /\ ledger'[k].type = "credit" /\ ledger'[k].of = p
          /\ ledger'[m].type = "fee" /\ ledger'[m].of = p
          /\ \A i \in DOMAIN ledger : ledger'[i] = ledger[i]
    BY <1>3, AppendedTwo
  <2>3. \A i \in DOMAIN ledger : ledger[i].type \in {"credit", "fee"} => ledger[i].of # p
    BY <1>3 DEF Credits, AlreadyCredited, CreditInv
  <2>4. CreditedOnce'
    BY <2>2, <2>3 DEF CreditInv, CreditedOnce
  <2>5. (\A i \in DOMAIN ledger : ledger[i].type = "fee" => AlreadyCredited(ledger[i].of))'
    BY <2>2 DEF CreditInv, AlreadyCredited
  <2> QED
    BY <2>4, <2>5 DEF CreditInv
<1> QED
  BY <1>1, <1>2, <1>3, StepKinds

(* No collection is credited or charged twice, whatever else happens. *)
THEOREM CreditOnce == Spec => []CreditedOnce
<1>1. Init => CreditInv
  BY DEF Init, CreditInv, CreditedOnce
<1>2. CreditInv => CreditedOnce
  BY DEF CreditInv
<1> QED
  BY <1>1, <1>2, TypeCorrect, CreditStep, PTL DEF Spec

(* What has been overtaken stays so. *)
LEMMA OvertakenGrows ==
  ASSUME [Next]_vars PROVE overtaken \subseteq overtaken'
<1> DEFINE Goal == overtaken \subseteq overtaken'
<1>0. ASSUME UNCHANGED paystack PROVE Goal
  BY <1>0 DEF paystack
<1>1. ASSUME NEW s \in Settlements, NEW r, disburse_settlement(s, r) PROVE Goal
  BY <1>1 DEF disburse_settlement, Overtake
<1>2. ASSUME NEW p \in Payments, payment_success(p) \/ \E plan \in Plans : credit_collection(p, plan)
      PROVE  Goal
  BY <1>0, <1>2 DEF payment_success, credit_collection
<1>3. ASSUME NEW s \in Settlements, NEW a \in Amounts,
             request_settlement(s, a) \/ admin_force_settle(s, a)
      PROVE  Goal
  BY <1>0, <1>1, <1>3 DEF request_settlement, admin_force_settle
<1>4. ASSUME NEW s \in Settlements, approve_settlement(s) \/ retry_failed_merchant_settlement(s)
      PROVE  Goal
  BY <1>1, <1>4 DEF approve_settlement, retry_failed_merchant_settlement
<1>5. ASSUME NEW s \in Settlements,
             \/ handle_transfer_success(s)
             \/ \E reason \in {"failed", "reversed"} : handle_transfer_failure(s, reason)
      PROVE  Goal
  BY <1>5 DEF handle_transfer_success, handle_transfer_failure, Delivered
<1>6. ASSUME NEW s \in Settlements,
             \/ cancel_settlement(s) \/ daily_merchant_auto_settlement(s)
             \/ apply_bulk_transfer_outcomes(s) \/ worker_crash(s)
             \/ reconcile_merchant_settlement_batch(s)
      PROVE  Goal
  BY <1>0, <1>6 DEF cancel_settlement, daily_merchant_auto_settlement,
     apply_bulk_transfer_outcomes, worker_crash, reconcile_merchant_settlement_batch
<1>7. ASSUME NEW s \in Settlements,
             send_chunk(s) \/ paystack_resolves(s) \/ paystack_reverses(s)
      PROVE  Goal
  BY <1>7 DEF send_chunk, paystack_resolves, paystack_reverses, Resolve, paystack
<1>8. ASSUME NEW e \in BOOLEAN, NEW t \in Thresholds, update_settlement_config(e, t) PROVE Goal
  BY <1>0, <1>8 DEF update_settlement_config
<1>9. ASSUME kyc_changes \/ momo_changes \/ suspend_changes \/ UNCHANGED vars PROVE Goal
  BY <1>0, <1>9 DEF kyc_changes, momo_changes, suspend_changes, vars
<1> HIDE DEF Goal
<1>10. ASSUME NEW s \in Settlements,
              \/ approve_settlement(s) \/ cancel_settlement(s)
              \/ retry_failed_merchant_settlement(s)
              \/ handle_transfer_success(s)
              \/ \E reason \in {"failed", "reversed"} : handle_transfer_failure(s, reason)
              \/ daily_merchant_auto_settlement(s) \/ send_chunk(s)
              \/ apply_bulk_transfer_outcomes(s) \/ worker_crash(s)
              \/ reconcile_merchant_settlement_batch(s)
              \/ paystack_resolves(s) \/ paystack_reverses(s)
       PROVE  Goal
  BY <1>4, <1>5, <1>6, <1>7, <1>10
<1>11. Goal
  BY <1>2, <1>3, <1>8, <1>9, <1>10 DEF Next
<1> QED
  BY <1>11 DEF Goal

LEMMA DebitStep == TypeOK /\ DebitedOnce /\ [Next]_vars => DebitedOnce'
<1> SUFFICES ASSUME TypeOK, DebitedOnce, [Next]_vars PROVE DebitedOnce'
  OBVIOUS
<1> DEFINE debits(s) == {i \in DOMAIN ledger : ledger[i].type = "debit" /\ ledger[i].of = s}
<1>o. overtaken \subseteq overtaken'
  BY OvertakenGrows
<1>0. \A s \in Settlements \ overtaken :
        IF row[s].status = "completed" THEN \E i \in debits(s) : debits(s) = {i}
        ELSE debits(s) = {}
  BY DEF DebitedOnce
<1>1. CASE Quiet
  <2>1. \A s \in Settlements : debits(s)' = debits(s)
    BY <1>1 DEF Quiet
  <2> QED
    BY <1>o, <1>0, <1>1, <2>1 DEF Quiet, DebitedOnce
<1>2. ASSUME NEW s \in Settlements, Debits(s) PROVE DebitedOnce'
  <2>1. PICK e : ledger' = Append(ledger, e) /\ e.type = "debit" /\ e.of = s
    BY <1>2 DEF Debits, Entry
  <2>2. PICK k \in Nat : /\ k \notin DOMAIN ledger
                         /\ DOMAIN ledger' = DOMAIN ledger \cup {k}
                         /\ ledger'[k] = e
                         /\ \A i \in DOMAIN ledger : ledger'[i] = ledger[i]
    BY <2>1, Appended
  <2>3. s \notin overtaken => debits(s)' = {k}
    BY <1>0, <1>2, <2>1, <2>2 DEF Debits
  <2>4. \A t \in Settlements \ {s} : debits(t)' = debits(t) /\ row'[t] = row[t]
    BY <1>2, <2>1, <2>2 DEF Debits
  <2>5. \A t \in Settlements \ overtaken' :
          IF row'[t].status = "completed" THEN \E i \in debits(t)' : debits(t)' = {i}
          ELSE debits(t)' = {}
    <3>1. row'[s].status = "completed"
      BY <1>2 DEF Debits
    <3> HIDE DEF debits
    <3> QED
      BY <1>o, <1>0, <2>3, <2>4, <3>1
  <2> QED
    BY <2>5 DEF DebitedOnce
<1>3. ASSUME NEW s \in Settlements, Reverses(s) PROVE DebitedOnce'
  <2>1. PICK e : ledger' = Append(ledger, e) /\ e.type # "debit"
    BY <1>3 DEF Reverses, Entry
  <2>2. PICK k \in Nat : /\ k \notin DOMAIN ledger
                         /\ DOMAIN ledger' = DOMAIN ledger \cup {k}
                         /\ ledger'[k] = e
                         /\ \A i \in DOMAIN ledger : ledger'[i] = ledger[i]
    BY <2>1, Appended
  <2>3. \A t \in Settlements : debits(t)' = debits(t)
    BY <2>1, <2>2
  <2> QED
    BY <1>o, <1>0, <1>3, <2>3 DEF DebitedOnce, Reverses
<1>4. ASSUME NEW p \in Payments, Credits(p) PROVE DebitedOnce'
  <2>2. PICK k, m \in Nat :
          /\ k # m /\ k \notin DOMAIN ledger /\ m \notin DOMAIN ledger
          /\ DOMAIN ledger' = DOMAIN ledger \cup {k, m}
          /\ ledger'[k].type = "credit" /\ ledger'[k].of = p
          /\ ledger'[m].type = "fee" /\ ledger'[m].of = p
          /\ \A i \in DOMAIN ledger : ledger'[i] = ledger[i]
    BY <1>4, AppendedTwo
  <2>3. \A t \in Settlements : debits(t)' = debits(t)
    BY <2>2
  <2>4. row' = row
    BY <1>4 DEF Credits
  <2>5. \A t \in Settlements \ overtaken' :
          IF row'[t].status = "completed" THEN \E i \in debits(t)' : debits(t)' = {i}
          ELSE debits(t)' = {}
    <3> HIDE DEF debits
    <3> QED
      BY <1>o, <1>0, <2>3, <2>4
  <2> QED
    BY <2>5 DEF DebitedOnce
<1>5. ASSUME NEW s \in Settlements, Overtakes(s) PROVE DebitedOnce'
  <2>1. PICK e : ledger' = Append(ledger, e) /\ e.of = s
    BY <1>5 DEF Overtakes
  <2>2. PICK k \in Nat : /\ k \notin DOMAIN ledger
                         /\ DOMAIN ledger' = DOMAIN ledger \cup {k}
                         /\ ledger'[k] = e
                         /\ \A i \in DOMAIN ledger : ledger'[i] = ledger[i]
    BY <2>1, Appended
  <2>3. \A t \in Settlements \ {s} : debits(t)' = debits(t)
    BY <2>1, <2>2
  <2> QED
    BY <1>o, <1>0, <1>5, <2>3 DEF DebitedOnce, Overtakes
<1> QED
  BY <1>1, <1>2, <1>3, <1>4, <1>5, StepKinds

(* Every completed settlement has exactly one debit entry, every other one none,
   unless its webhook came before the commit. *)
THEOREM DebitOnce == Spec => []DebitedOnce
<1>1. Init => DebitedOnce
  BY DEF Init, DebitedOnce, NoRow
<1> QED
  BY <1>1, TypeCorrect, DebitStep, PTL DEF Spec

-----------------------------------------------------------------------------
(* Nothing is completed unpaid *)

\* CompletedWasPaid is not inductive: the daily task completes a settlement from
\* the answer it kept, the reconcile task from the transfer's status.  Both must
\* go back to a payment Paystack has announced.
PaidInv ==
  /\ CompletedWasPaid
  /\ \A s \in Settlements :
       transfer[s].status \in {"success", "reversed"} \/ outcome[s] = "success"
         => <<s, "success">> \in events

\* Steps that add no paid transfer, keep no new answer and complete nothing.
LEMMA PaidKept ==
  ASSUME PaidInv, events \subseteq events',
         \A t \in Settlements :
           /\ transfer'[t].status \in {"success", "reversed"} =>
                \/ transfer[t].status \in {"success", "reversed"}
                \/ <<t, "success">> \in events'
           /\ outcome'[t] = "success" =>
                outcome[t] = "success" \/ <<t, "success">> \in events'
           /\ row'[t].status = "completed" =>
                row[t].status = "completed" \/ <<t, "success">> \in events'
  PROVE  PaidInv'
BY DEF PaidInv, CompletedWasPaid

LEMMA WrittenRow ==
  ASSUME TypeOK, NEW s \in Settlements, NEW r, SetRow(s, r),
         r.status = "completed" => row[s].status = "completed"
  PROVE  \A t \in Settlements :
           row'[t].status = "completed" => row[t].status = "completed"
BY DEF SetRow, TypeOK

LEMMA ConfirmedRow ==
  ASSUME TypeOK, NEW s \in Settlements, confirm_settlement(s)
  PROVE  \A t \in Settlements : row'[t].status = "completed" =>
           t = s \/ row[t].status = "completed"
BY DEF confirm_settlement, SetRow, TypeOK

LEMMA FailedRow ==
  ASSUME TypeOK, NEW s \in Settlements, fail_settlement(s)
  PROVE  \A t \in Settlements :
           row'[t].status = "completed" => row[t].status = "completed"
<1>0. row[s] \in RowType
  BY DEF TypeOK
<1>1. Found(s).status = row[s].status /\ Found(s) \in RowType
  BY <1>0 DEF Found, RowType
<1>2. [Found(s) EXCEPT !.status = "failed"].status # "completed"
  BY <1>1 DEF RowType
<1> QED
  BY <1>1, <1>2, WrittenRow DEF fail_settlement

LEMMA DisbursedPays ==
  ASSUME TypeOK, PaidInv, NEW s \in Settlements, NEW r \in RowType, disburse_settlement(s, r)
  PROVE  PaidInv'
<1>0. [r EXCEPT !.status = "processing", !.coded = TRUE].status # "completed"
  BY DEF RowType
<1>1. \A t \in Settlements :
        row'[t].status = "completed" => row[t].status = "completed"
  <2>1. CASE Commit(s, r)
    BY <1>0, <2>1, WrittenRow DEF Commit
  <2>2. CASE row' = row
    BY <2>2
  <2> QED
    BY <2>1, <2>2, DisburseParts
<1>2. /\ events \subseteq events'
      /\ \A t \in Settlements : transfer'[t].status \in {"success", "reversed"} =>
           transfer[t].status \in {"success", "reversed"} \/ <<t, "success">> \in events'
  <2>1. CASE Accept(s, r.amount) /\ UNCHANGED events
    BY <2>1 DEF Accept, TypeOK
  <2>2. CASE Overtake(s, r.amount)
    BY <2>2 DEF Overtake, TypeOK
  <2> QED
    BY <2>1, <2>2 DEF disburse_settlement
<1>3. outcome' = outcome
  BY DEF disburse_settlement, task
<1> QED
  BY <1>1, <1>2, <1>3, PaidKept

LEMMA PaidStep == TypeOK /\ PaidInv /\ [Next]_vars => PaidInv'
<1> SUFFICES ASSUME TypeOK, PaidInv, [Next]_vars PROVE PaidInv'
  OBVIOUS
<1>0. CASE UNCHANGED vars
  BY <1>0, PaidKept DEF vars, task, paystack
<1>1. ASSUME NEW p \in Payments, payment_success(p) PROVE PaidInv'
  BY <1>1, PaidKept DEF payment_success, task, paystack
<1>2. ASSUME NEW p \in Payments, NEW plan \in Plans, credit_collection(p, plan) PROVE PaidInv'
  BY <1>2, PaidKept DEF credit_collection, task, paystack
<1>3. ASSUME NEW s \in Settlements, NEW a \in Amounts, request_settlement(s, a) PROVE PaidInv'
  <2>1. NewRow("pending", a, "manual") \in RowType
    BY AmountAssumption DEF NewRow, RowType, InFlightStatuses
  <2>2. CASE disburse_settlement(s, NewRow("pending", a, "manual"))
    BY <2>1, <2>2, DisbursedPays
  <2>3. CASE /\ SetRow(s, NewRow("pending", a, "manual"))
             /\ UNCHANGED <<confirmed, wallet, profile, task, paystack, credited>>
    BY <2>3, PaidKept DEF SetRow, NewRow, TypeOK, task, paystack
  <2> QED
    BY <1>3, <2>2, <2>3 DEF request_settlement
<1>4. ASSUME NEW s \in Settlements, NEW a \in Amounts, admin_force_settle(s, a) PROVE PaidInv'
  <2>1. NewRow("pending", a, "admin") \in RowType
    BY AmountAssumption DEF NewRow, RowType, InFlightStatuses
  <2> QED
    BY <1>4, <2>1, DisbursedPays DEF admin_force_settle
<1>5. ASSUME NEW s \in Settlements, approve_settlement(s) PROVE PaidInv'
  BY <1>5, DisbursedPays DEF approve_settlement, TypeOK
<1>6. ASSUME NEW s \in Settlements, cancel_settlement(s) PROVE PaidInv'
  <2>1. \A t \in Settlements :
          row'[t].status = "completed" => row[t].status = "completed"
    BY <1>6 DEF cancel_settlement, SetRow, TypeOK, RowType
  <2> QED
    BY <1>6, <2>1, PaidKept DEF cancel_settlement, task, paystack
<1>7. ASSUME NEW s \in Settlements, retry_failed_merchant_settlement(s) PROVE PaidInv'
  <2>0. row[s] \in RowType
    BY DEF TypeOK
  <2>1. [row[s] EXCEPT !.status = "pending"] \in RowType
    BY <2>0, RowUpdate
  <2> QED
    BY <1>7, <2>1, DisbursedPays DEF retry_failed_merchant_settlement
<1>8. ASSUME NEW s \in Settlements, handle_transfer_success(s) PROVE PaidInv'
  <2>1. /\ <<s, "success">> \in events /\ events' = events /\ transfer' = transfer
        /\ outcome' = outcome
    BY <1>8 DEF handle_transfer_success, Delivered, task
  <2>2. confirm_settlement(s) \/ row' = row
    BY <1>8 DEF handle_transfer_success, Dropped
  <2> QED
    BY <2>1, <2>2, ConfirmedRow, PaidKept
<1>9. ASSUME NEW s \in Settlements, NEW reason \in {"failed", "reversed"},
             handle_transfer_failure(s, reason)
      PROVE  PaidInv'
  <2>1. events' = events /\ transfer' = transfer /\ outcome' = outcome
    BY <1>9 DEF handle_transfer_failure, Delivered, task
  <2>2. fail_settlement(s) \/ row' = row
    BY <1>9 DEF handle_transfer_failure, Dropped
  <2> QED
    BY <2>1, <2>2, FailedRow, PaidKept
<1>10. ASSUME NEW s \in Settlements, daily_merchant_auto_settlement(s) PROVE PaidInv'
  BY <1>10, PaidKept DEF daily_merchant_auto_settlement, SetRow, NewRow, TypeOK, paystack
<1>11. ASSUME NEW s \in Settlements, send_chunk(s) PROVE PaidInv'
  <2>1. row' = row
    BY <1>11 DEF send_chunk
  <2>2. CASE /\ Accept(s, row[s].amount)
             /\ outcome' \in {[outcome EXCEPT ![s] = o] : o \in {"pending", "uncoded", "failed"}}
             /\ UNCHANGED events
    BY <2>1, <2>2, PaidKept DEF Accept, TypeOK
  <2>3. CASE /\ transfer' = [transfer EXCEPT ![s] =
                               [status |-> "success", amount |-> row[s].amount]]
             /\ events' = events \cup {<<s, "success">>}
             /\ outcome' \in {[outcome EXCEPT ![s] = o] : o \in {"success", "uncoded"}}
    BY <2>1, <2>3, PaidKept DEF TypeOK
  <2>4. CASE /\ outcome' = [outcome EXCEPT ![s] = "failed"]
             /\ UNCHANGED paystack
    BY <2>1, <2>4, PaidKept DEF TypeOK, paystack
  <2> QED
    BY <1>11, <2>2, <2>3, <2>4 DEF send_chunk
<1>12. ASSUME NEW s \in Settlements, apply_bulk_transfer_outcomes(s) PROVE PaidInv'
  <2>1. /\ events' = events /\ transfer' = transfer
        /\ \A t \in Settlements : outcome'[t] = "success" => outcome[t] = "success"
    BY <1>12 DEF apply_bulk_transfer_outcomes, TypeOK, paystack
  <2>2. outcome[s] = "success" => <<s, "success">> \in events
    BY DEF PaidInv
  <2>3. \A t \in Settlements : row'[t].status = "completed" =>
          row[t].status = "completed" \/ <<t, "success">> \in events
    <3>1. CASE SetRow(s, [row[s] EXCEPT !.coded = @ \/ outcome[s] = "pending"])
      BY <3>1 DEF SetRow, TypeOK, RowType
    <3>2. CASE outcome[s] = "success" /\ confirm_settlement(s)
      BY <2>2, <3>2, ConfirmedRow
    <3>3. CASE fail_settlement(s)
      BY <3>3, FailedRow
    <3>4. CASE row' = row
      BY <3>4
    <3> QED
      BY <1>12, <3>1, <3>2, <3>3, <3>4 DEF apply_bulk_transfer_outcomes
  <2> QED
    BY <2>1, <2>3, PaidKept
<1>13. ASSUME NEW s \in Settlements, worker_crash(s) PROVE PaidInv'
  BY <1>13, PaidKept DEF worker_crash, TypeOK, paystack
<1>14. ASSUME NEW s \in Settlements, reconcile_merchant_settlement_batch(s) PROVE PaidInv'
  <2>1. transfer[s].status = "success" => <<s, "success">> \in events
    BY DEF PaidInv
  <2>2. \A t \in Settlements : row'[t].status = "completed" =>
          row[t].status = "completed" \/ <<t, "success">> \in events
    <3>1. CASE transfer[s].status = "success" /\ confirm_settlement(s)
      BY <2>1, <3>1, ConfirmedRow
    <3>2. CASE fail_settlement(s)
      BY <3>2, FailedRow
    <3>3. CASE row' = row
      BY <3>3
    <3> QED
      BY <1>14, <3>1, <3>2, <3>3 DEF reconcile_merchant_settlement_batch
  <2> QED
    BY <1>14, <2>2, PaidKept DEF reconcile_merchant_settlement_batch, paystack
<1>15. ASSUME NEW s \in Settlements, NEW from, NEW to, Resolve(s, from, to),
              to = "reversed" => from = "success"
       PROVE  PaidInv'
  <2>1. \A t \in Settlements : transfer'[t].status \in {"success", "reversed"} =>
          \/ transfer[t].status \in {"success", "reversed"}
          \/ <<t, "success">> \in events'
    BY <1>15 DEF Resolve, TypeOK, TransferType
  <2> QED
    BY <1>15, <2>1, PaidKept DEF Resolve, task
<1>16. ASSUME NEW e \in BOOLEAN, NEW t \in Thresholds, update_settlement_config(e, t)
       PROVE  PaidInv'
  BY <1>16, PaidKept DEF update_settlement_config, task, paystack
<1>17. CASE kyc_changes \/ momo_changes \/ suspend_changes
  BY <1>17, PaidKept DEF kyc_changes, momo_changes, suspend_changes, task, paystack
<1> QED
  BY <1>0, <1>1, <1>2, <1>3, <1>4, <1>5, <1>6, <1>7, <1>8, <1>9, <1>10, <1>11, <1>12,
     <1>13, <1>14, <1>15, <1>16, <1>17 DEF Next, paystack_resolves, paystack_reverses

(* However webhooks, verifications and the nightly tasks repeat each other, each
   collection and each settlement is booked once, and what is booked as paid was. *)
THEOREM BookOnce == Spec => []BookedOnce
<1>1. Init => PaidInv
  BY DEF Init, PaidInv, CompletedWasPaid, NoRow, NoTransfer
<1>2. PaidInv => CompletedWasPaid
  BY DEF PaidInv
<1>3. CreditedOnce /\ DebitedOnce /\ CompletedWasPaid => BookedOnce
  BY DEF BookedOnce
<1> QED
  BY <1>1, <1>2, <1>3, TypeCorrect, PaidStep, CreditOnce, DebitOnce, PTL DEF Spec

-----------------------------------------------------------------------------
(* The books never lose a merchant's money *)

Books == unsettled_balance + held + total_settled

LEMMA HeldByType == \A r \in RowType : HeldBy(r) \in Nat
BY DEF HeldBy, RowType

(* A disbursement sets aside at least what it takes: the clamp at zero can only
   make the books larger. *)
LEMMA DisburseBooks ==
  ASSUME TypeOK, NEW s \in Settlements, NEW r \in RowType, disburse_settlement(s, r),
         row[s].status # "processing"
  PROVE  Books' >= Books /\ credited' = credited
<1> DEFINE sent == [r EXCEPT !.status = "processing", !.coded = TRUE]
<1>1. HeldBy(sent) = r.amount /\ r.amount \in Nat /\ HeldBy(row[s]) = 0
  BY DEF HeldBy, RowType
<1> HIDE DEF sent
<1>t. /\ unsettled_balance \in Nat /\ held \in Int /\ total_settled \in Nat
      /\ row[s].amount \in Nat
  BY DEF TypeOK, RowType
<1>2. CASE Commit(s, r)
  <2>1. held' = held + r.amount /\ unsettled_balance' = BalanceAfterHold(unsettled_balance, r.amount)
    BY <1>1, <1>2, <1>t DEF Commit, SetRow, sent
  <2>2. total_settled' = total_settled \/ total_settled' = total_settled + row[s].amount
    BY DisburseParts DEF LeftDebit, LeftReversal
  <2>3. unsettled_balance' + held' >= unsettled_balance + held
    BY <1>1, <1>t, <2>1 DEF BalanceAfterHold
  <2>4. unsettled_balance' \in Int /\ held' \in Int
    BY <1>1, <1>t, <2>1 DEF BalanceAfterHold
  <2> QED
    BY <1>t, <2>2, <2>3, <2>4 DEF Books, disburse_settlement
<1>3. CASE UNCHANGED <<row, held, unsettled_balance, total_settled>>
  BY <1>3, <1>t DEF disburse_settlement, Books
<1> QED
  BY <1>2, <1>3, DisburseParts

(* Finding a row moves no money. *)
LEMMA CodeHeld ==
  ASSUME TypeOK, NEW s \in Settlements, NEW c \in BOOLEAN,
         SetRow(s, [row[s] EXCEPT !.coded = c])
  PROVE  held' = held
<1>1. row[s] \in RowType /\ held \in Int
  BY DEF TypeOK
<1>2. HeldBy([row[s] EXCEPT !.coded = c]) = HeldBy(row[s])
  BY <1>1 DEF HeldBy, RowType
<1> QED
  BY <1>1, <1>2, HeldByType DEF SetRow

(* Confirming counts as settled at least what it stops holding. *)
LEMMA ConfirmBooks ==
  ASSUME TypeOK, NEW s \in Settlements, confirm_settlement(s)
  PROVE  Books' >= Books
<1> DEFINE done == [Found(s) EXCEPT !.status = "completed"]
<1>1. /\ row[s] \in RowType /\ row[s].amount \in Nat /\ held \in Int
      /\ unsettled_balance \in Nat /\ total_settled \in Nat
  BY DEF TypeOK, RowType
<1>2. HeldBy(done) = 0 /\ HeldBy(row[s]) \in 0 .. row[s].amount
  BY <1>1 DEF HeldBy, Found, RowType
<1> HIDE DEF done
<1>3. CASE SetRow(s, Found(s)) /\ UNCHANGED <<unsettled_balance, total_settled, ledger>>
  <2>1. held' = held
    BY <1>3, CodeHeld DEF Found
  <2> QED
    BY <1>1, <1>3, <2>1 DEF Books
<1>4. CASE /\ SetRow(s, done) /\ unsettled_balance' = unsettled_balance
           /\ total_settled' = total_settled + row[s].amount
  <2>1. held' = held - HeldBy(row[s])
    BY <1>1, <1>2, <1>4 DEF SetRow
  <2> QED
    BY <1>1, <1>2, <1>4, <2>1 DEF Books
<1> QED
  BY <1>3, <1>4 DEF confirm_settlement, done

(* Failing gives back at least what it stops holding. *)
LEMMA FailBooks ==
  ASSUME TypeOK, NEW s \in Settlements, fail_settlement(s)
  PROVE  Books' >= Books
<1> DEFINE done == [Found(s) EXCEPT !.status = "failed"]
<1>1. /\ row[s] \in RowType /\ row[s].amount \in Nat /\ held \in Int
      /\ unsettled_balance \in Nat /\ total_settled \in Nat
  BY DEF TypeOK, RowType
<1>2. HeldBy(done) = 0 /\ HeldBy(row[s]) \in 0 .. row[s].amount
  BY <1>1 DEF HeldBy, Found, RowType
<1> HIDE DEF done
<1>3. CASE SetRow(s, Found(s)) /\ UNCHANGED <<unsettled_balance, total_settled, ledger>>
  <2>1. held' = held
    BY <1>3, CodeHeld DEF Found
  <2> QED
    BY <1>1, <1>3, <2>1 DEF Books
<1>4. CASE /\ SetRow(s, done) /\ total_settled' = total_settled
           /\ unsettled_balance' = BalanceAfterFailure(unsettled_balance, row[s].amount)
  <2>1. held' = held - HeldBy(row[s])
    BY <1>1, <1>2, <1>4 DEF SetRow
  <2> QED
    BY <1>1, <1>2, <1>4, <2>1 DEF Books, BalanceAfterFailure
<1> QED
  BY <1>3, <1>4 DEF fail_settlement, done

LEMMA Difference ==
  ASSUME NEW x \in Int, NEW y \in Int, NEW z \in Int, x >= y
  PROVE  x - z >= y - z
OBVIOUS

(* No step credits more than it adds to the books, or takes from the books. *)
LEMMA BooksStep == TypeOK /\ [Next]_vars => Books' - credited' >= Books - credited
<1> SUFFICES ASSUME TypeOK, [Next]_vars PROVE Books' - credited' >= Books - credited
  OBVIOUS
<1> DEFINE Goal == Books' - credited' >= Books - credited
<1>t. /\ unsettled_balance \in Int /\ held \in Int /\ total_settled \in Int /\ credited \in Int
      /\ unsettled_balance' \in Int /\ held' \in Int /\ total_settled' \in Int
  BY TypeStep DEF TypeOK
<1>i. ASSUME Books' >= Books, credited' = credited PROVE Goal
  <2>1. Books \in Int /\ Books' \in Int
    BY <1>t DEF Books
  <2> QED
    BY <1>t, <1>i, <2>1, Difference
<1>u. ASSUME UNCHANGED <<wallet, held, credited>> PROVE Goal
  BY <1>u, <1>t DEF wallet, Books
<1>0. CASE UNCHANGED vars
  BY <1>0, <1>u DEF vars
<1>1. ASSUME NEW p \in Payments, payment_success(p) PROVE Goal
  BY <1>1, <1>u DEF payment_success
<1>2. ASSUME NEW p \in Payments, NEW plan \in Plans, credit_collection(p, plan) PROVE Goal
  <2>1. calculate_fee(GrossOf[p], plan) \in Int /\ GrossOf[p] \in Nat
    BY AmountAssumption, FeeBounds
  <2> DEFINE net == GrossOf[p] - calculate_fee(GrossOf[p], plan)
  <2>2. net \in Int
    BY <2>1
  <2>3. unsettled_balance' = unsettled_balance + net /\ credited' = credited + net
    BY <1>2, <1>t, <2>1 DEF credit_collection
  <2>4. held' = held /\ total_settled' = total_settled
    BY <1>2 DEF credit_collection
  <2> HIDE DEF net
  <2> QED
    BY <1>t, <2>2, <2>3, <2>4 DEF Books
<1>3. ASSUME NEW s \in Settlements, NEW a \in Amounts,
             request_settlement(s, a) \/ admin_force_settle(s, a)
      PROVE  Goal
  <2>1. /\ NewRow("pending", a, "manual") \in RowType
        /\ NewRow("pending", a, "admin") \in RowType
        /\ HeldBy(NewRow("pending", a, "manual")) = 0
    BY AmountAssumption DEF NewRow, RowType, InFlightStatuses, HeldBy
  <2>2. row[s].status # "processing"
    BY <1>3 DEF request_settlement, admin_force_settle, Fresh, NoRow
  <2>3. CASE /\ SetRow(s, NewRow("pending", a, "manual"))
             /\ UNCHANGED <<wallet, credited>>
    <3>1. held' = held
      BY <2>1, <2>2, <2>3 DEF SetRow, HeldBy, TypeOK
    <3> QED
      BY <2>3, <3>1, <1>u
  <2> QED
    BY <1>3, <2>1, <2>2, <2>3, <1>i, DisburseBooks DEF request_settlement, admin_force_settle
<1>4. ASSUME NEW s \in Settlements, approve_settlement(s) PROVE Goal
  BY <1>4, <1>i, DisburseBooks DEF approve_settlement, TypeOK
<1>5. ASSUME NEW s \in Settlements, cancel_settlement(s) PROVE Goal
  <2>1. HeldBy([row[s] EXCEPT !.status = "cancelled"]) = 0 /\ HeldBy(row[s]) = 0
    BY <1>5 DEF cancel_settlement, TypeOK, RowType, HeldBy
  <2>2. held' = held
    BY <1>5, <2>1 DEF cancel_settlement, SetRow, TypeOK
  <2> QED
    BY <1>5, <2>2, <1>u DEF cancel_settlement
<1>6. ASSUME NEW s \in Settlements, retry_failed_merchant_settlement(s) PROVE Goal
  <2>1. row[s] \in RowType
    BY DEF TypeOK
  <2>2. [row[s] EXCEPT !.status = "pending"] \in RowType
    BY <2>1, RowUpdate
  <2> QED
    BY <1>6, <2>2, <1>i, DisburseBooks DEF retry_failed_merchant_settlement
<1>7. ASSUME NEW s \in Settlements,
             \/ handle_transfer_success(s)
             \/ \E reason \in {"failed", "reversed"} : handle_transfer_failure(s, reason)
      PROVE  Goal
  <2>1. credited' = credited /\ (confirm_settlement(s) \/ fail_settlement(s) \/ Dropped(s))
    BY <1>7 DEF handle_transfer_success, handle_transfer_failure
  <2> QED
    BY <2>1, <1>i, <1>u, ConfirmBooks, FailBooks DEF Dropped
<1>8. ASSUME NEW s \in Settlements, daily_merchant_auto_settlement(s) PROVE Goal
  <2>1. /\ HeldBy(NewRow("processing", unsettled_balance, "auto")) = unsettled_balance
        /\ HeldBy(row[s]) = 0
    BY <1>8 DEF daily_merchant_auto_settlement, NewRow, HeldBy, Fresh, NoRow
  <2>2. held' = held + unsettled_balance
    BY <1>8, <2>1 DEF daily_merchant_auto_settlement, SetRow, TypeOK
  <2>3. unsettled_balance' = 0
    BY <1>8 DEF daily_merchant_auto_settlement, BalanceAfterHold, TypeOK
  <2> QED
    BY <1>8, <1>i, <2>2, <2>3 DEF daily_merchant_auto_settlement, Books, TypeOK
<1>9. ASSUME NEW s \in Settlements,
             send_chunk(s) \/ worker_crash(s) \/ paystack_resolves(s) \/ paystack_reverses(s)
      PROVE  Goal
  BY <1>9, <1>u DEF send_chunk, worker_crash, paystack_resolves, paystack_reverses, Resolve
<1>10. ASSUME NEW s \in Settlements, apply_bulk_transfer_outcomes(s) PROVE Goal
  <2>0. (row[s].coded \/ outcome[s] = "pending") \in BOOLEAN
    BY DEF TypeOK, RowType
  <2>1. CASE /\ SetRow(s, [row[s] EXCEPT !.coded = @ \/ outcome[s] = "pending"])
             /\ UNCHANGED <<wallet, credited>>
    <3>1. held' = held
      BY <2>0, <2>1, CodeHeld
    <3> QED
      BY <2>1, <3>1, <1>u
  <2> QED
    BY <1>10, <2>1, <1>i, <1>u, ConfirmBooks, FailBooks DEF apply_bulk_transfer_outcomes
<1>11. ASSUME NEW s \in Settlements, reconcile_merchant_settlement_batch(s) PROVE Goal
  BY <1>11, <1>i, <1>u, ConfirmBooks, FailBooks DEF reconcile_merchant_settlement_batch
<1>12. ASSUME NEW e \in BOOLEAN, NEW t \in Thresholds, update_settlement_config(e, t) PROVE Goal
  BY <1>12, <1>u DEF update_settlement_config
<1>13. CASE kyc_changes \/ momo_changes \/ suspend_changes
  BY <1>13, <1>u DEF kyc_changes, momo_changes, suspend_changes
<1> QED
  BY <1>0, <1>1, <1>2, <1>3, <1>4, <1>5, <1>6, <1>7, <1>8, <1>9, <1>10, <1>11, <1>12,
     <1>13 DEF Next

(* Whatever is forced, retried, clamped, lost, repeated or reversed, what a merchant
   was credited is in the balance, on its way, or counted as settled. *)
THEOREM FundsCovered == Spec => []MerchantFundsCovered
<1>1. Init => MerchantFundsCovered
  BY DEF Init, MerchantFundsCovered
<1>2. TypeOK /\ MerchantFundsCovered /\ [Next]_vars => MerchantFundsCovered'
  BY TypeStep, BooksStep DEF MerchantFundsCovered, Books, TypeOK
<1> QED
  BY <1>1, <1>2, TypeCorrect, PTL DEF Spec

-----------------------------------------------------------------------------
(* When nothing goes wrong: the books balance and the wallet is implemented *)

(* A settlement the step does not touch keeps its invariant, if the step leaves a
   pending one covered and what a processing one holds. *)
LEMMA Frame ==
  ASSUME NEW t \in Settlements, SettlementInv(t),
         row'[t] = row[t], transfer'[t] = transfer[t], outcome'[t] = outcome[t],
         \A e : <<t, e>> \in events' => <<t, e>> \in events,
         row[t].status = "pending" => row[t].amount <= unsettled_balance',
         row[t].status = "processing" => held' = held
  PROVE  SettlementInv(t)'
BY DEF SettlementInv

(* The slot in flight stays one, when only s may enter it and no other is in it. *)
LEMMA OneSlot ==
  ASSUME NominalInv, NEW s \in Settlements,
         \A t \in Settlements \ {s} : row'[t].status = row[t].status,
         row'[s].status \in InFlightStatuses => row[s].status \in InFlightStatuses \/ InFlight = {}
  PROVE  (\A a, b \in InFlight : a = b)'
BY DEF NominalInv, InFlight

(* A step that only moves collections, gates and reconciliations changes nothing here. *)
LEMMA NominalStutter ==
  ASSUME TypeOK, NominalInv, profile'.settlement_threshold >= SETTLEMENT_MIN,
         UNCHANGED <<unsettled_balance, total_settled, row, outcome, transfer, events, held,
                     credited>>
  PROVE  NominalInv' /\ UNCHANGED Wallet!wallet
<1>1. \A s \in Settlements : SettlementInv(s)'
  BY DEF NominalInv, SettlementInv
<1> QED
  BY <1>1 DEF NominalInv, ExactAccounting, InFlight, Wallet!wallet

(* A disbursement of an amount the balance covers, into the free slot. *)
LEMMA NominalDisburse ==
  ASSUME Hazards \subseteq {"repeat"}, TypeOK, NominalInv,
         NEW s \in Settlements, NEW r \in RowType, disburse_settlement(s, r),
         r.amount > 0, r.amount <= unsettled_balance,
         row[s].status \in {"none", "pending"}, \A t \in InFlight : t = s
  PROVE  NominalInv' /\ Wallet!Hold
<1> DEFINE sent == [r EXCEPT !.status = "processing", !.coded = TRUE]
<1>1. /\ sent.status = "processing" /\ sent.amount = r.amount
      /\ r.amount \in Nat /\ HeldBy(sent) = r.amount
  BY DEF RowType, HeldBy
<1> HIDE DEF sent
<1>2. /\ SetRow(s, sent)
      /\ unsettled_balance' = BalanceAfterHold(unsettled_balance, r.amount)
      /\ Accept(s, r.amount)
      /\ UNCHANGED <<confirmed, total_settled, ledger, profile, task, events, credited>>
  BY DEF disburse_settlement, Commit, Overtake, sent
<1>3. \A t \in Settlements : row[t].status # "processing"
  BY DEF InFlight, InFlightStatuses
<1>4. held = 0 /\ transfer[s].status = "none" /\ outcome[s] = "none"
  BY <1>3 DEF NominalInv, SettlementInv
<1>5. /\ row' = [row EXCEPT ![s] = sent]
      /\ held' = r.amount
  BY <1>1, <1>2, <1>3, <1>4 DEF SetRow, HeldBy
<1>6. /\ unsettled_balance' = unsettled_balance - r.amount
      /\ transfer' = [transfer EXCEPT ![s] = [status |-> "pending", amount |-> r.amount]]
      /\ UNCHANGED <<total_settled, profile, outcome, events, credited>>
  BY <1>1, <1>2, <1>4 DEF BalanceAfterHold, Accept, task, TypeOK
<1>7. ExactAccounting'
  BY <1>1, <1>4, <1>5, <1>6 DEF NominalInv, ExactAccounting, TypeOK
<1>8. \A t \in Settlements \ {s} : row'[t] = row[t] /\ transfer'[t] = transfer[t]
  BY <1>5, <1>6 DEF TypeOK
<1>9. row'[s] = sent /\ transfer'[s].status = "pending"
  BY <1>5, <1>6 DEF TypeOK
<1>10. (\A a, b \in InFlight : a = b)'
  BY <1>8, <1>9, OneSlot DEF InFlight
<1>11. SettlementInv(s)'
  BY <1>1, <1>4, <1>5, <1>6, <1>9 DEF NominalInv, SettlementInv, InFlightStatuses
<1>12. \A t \in Settlements \ {s} : SettlementInv(t)'
  <2> SUFFICES ASSUME NEW t \in Settlements \ {s} PROVE SettlementInv(t)'
    OBVIOUS
  <2>1. row[t].status # "pending" /\ row[t].status # "processing"
    BY DEF InFlight, InFlightStatuses
  <2> QED
    BY <1>6, <1>8, <2>1, Frame DEF NominalInv
<1>13. NominalInv'
  BY <1>1, <1>6, <1>7, <1>9, <1>10, <1>11, <1>12 DEF NominalInv
<1>14. Wallet!Hold
  BY <1>1, <1>4, <1>5, <1>6 DEF Wallet!Hold, TypeOK
<1> QED
  BY <1>13, <1>14

(* Giving a row its transfer code, or finding it, changes nothing here. *)
LEMMA NominalCode ==
  ASSUME TypeOK, NominalInv, NEW s \in Settlements, NEW c \in BOOLEAN,
         SetRow(s, [row[s] EXCEPT !.coded = c]),
         outcome' \in {outcome, [outcome EXCEPT ![s] = "none"]},
         UNCHANGED <<unsettled_balance, total_settled, profile, transfer, events, credited>>
  PROVE  NominalInv' /\ UNCHANGED Wallet!wallet
<1> DEFINE r == [row[s] EXCEPT !.coded = c]
<1>1. row[s] \in RowType
  BY DEF TypeOK
<1>2. r.status = row[s].status /\ r.amount = row[s].amount
  BY <1>1 DEF RowType
<1>3. held' = held
  BY CodeHeld
<1>4. row' = [row EXCEPT ![s] = r]
  BY DEF SetRow
<1> HIDE DEF r
<1>5. \A t \in Settlements :
        row'[t].status = row[t].status /\ row'[t].amount = row[t].amount
  BY <1>2, <1>4 DEF TypeOK
<1>6. \A t \in Settlements : outcome'[t] \in {outcome[t], "none"}
  BY DEF TypeOK
<1>7. \A t \in Settlements : SettlementInv(t)'
  <2> SUFFICES ASSUME NEW t \in Settlements PROVE SettlementInv(t)'
    OBVIOUS
  <2> QED
    BY <1>3, <1>5, <1>6 DEF NominalInv, SettlementInv
<1> QED
  BY <1>3, <1>5, <1>7 DEF NominalInv, ExactAccounting, InFlight, Wallet!wallet

(* A confirmation of a transfer that succeeded pays all that is held. *)
LEMMA NominalConfirm ==
  ASSUME TypeOK, NominalInv, NEW s \in Settlements, confirm_settlement(s),
         transfer[s].status = "success",
         outcome' \in {outcome, [outcome EXCEPT ![s] = "none"]},
         UNCHANGED <<profile, transfer, events, credited>>
  PROVE  NominalInv' /\ (Wallet!Pay \/ UNCHANGED Wallet!wallet)
<1> DEFINE done == [Found(s) EXCEPT !.status = "completed"]
<1>1. /\ row[s] \in RowType /\ Found(s).status = row[s].status
      /\ done.status = "completed" /\ HeldBy(done) = 0
  BY DEF TypeOK, RowType, Found, HeldBy
<1> HIDE DEF done
<1>2. CASE SetRow(s, Found(s)) /\ UNCHANGED <<unsettled_balance, total_settled, ledger>>
  BY <1>2, NominalCode DEF Found
<1>3. CASE /\ ~Completed(Found(s)) /\ SetRow(s, done) /\ unsettled_balance' = unsettled_balance
           /\ total_settled' = total_settled + row[s].amount
  <2>1. /\ row[s].status = "processing" /\ held = row[s].amount
        /\ row[s].amount > 0 /\ row[s].amount \in Nat
    BY <1>1, <1>3 DEF NominalInv, SettlementInv, Completed, InFlightStatuses, RowType
  <2>2. row' = [row EXCEPT ![s] = done] /\ held' = 0
    BY <1>1, <1>3, <2>1 DEF SetRow, HeldBy
  <2>3. ExactAccounting'
    BY <1>3, <2>1, <2>2 DEF NominalInv, ExactAccounting, TypeOK
  <2>4. /\ \A t \in Settlements \ {s} : row'[t] = row[t] /\ outcome'[t] = outcome[t]
        /\ row'[s] = done /\ outcome'[s] \in {outcome[s], "none"}
    BY <2>2 DEF TypeOK
  <2>5. \A t \in Settlements \ {s} : row[t].status \notin {"pending", "processing"}
    BY <2>1 DEF NominalInv, InFlight, InFlightStatuses
  <2>6. (\A a, b \in InFlight : a = b)'
    BY <1>1, <2>4, OneSlot DEF InFlightStatuses
  <2>7. SettlementInv(s)'
    BY <1>1, <2>1, <2>4 DEF NominalInv, SettlementInv, InFlightStatuses
  <2>8. \A t \in Settlements \ {s} : SettlementInv(t)'
    BY <2>4, <2>5, Frame DEF NominalInv
  <2>9. NominalInv'
    BY <2>2, <2>3, <2>6, <2>7, <2>8 DEF NominalInv
  <2>10. Wallet!Pay
    BY <1>3, <2>1, <2>2 DEF Wallet!Pay
  <2> QED
    BY <2>9, <2>10
<1> QED
  BY <1>2, <1>3 DEF confirm_settlement, done

(* A failure of a transfer that failed, or that Paystack refused, gives back all
   that is held. *)
LEMMA NominalFail ==
  ASSUME TypeOK, NominalInv, NEW s \in Settlements, fail_settlement(s),
         \/ transfer[s].status = "failed" /\ outcome' = outcome
         \/ outcome[s] = "failed" /\ outcome' = [outcome EXCEPT ![s] = "none"],
         UNCHANGED <<profile, transfer, events, credited>>
  PROVE  NominalInv' /\ (Wallet!Release \/ UNCHANGED Wallet!wallet)
<1> DEFINE done == [Found(s) EXCEPT !.status = "failed"]
<1>1. /\ row[s] \in RowType /\ Found(s).status = row[s].status
      /\ done.status = "failed" /\ HeldBy(done) = 0
  BY DEF TypeOK, RowType, Found, HeldBy
<1> HIDE DEF done
<1>2. CASE SetRow(s, Found(s)) /\ UNCHANGED <<unsettled_balance, total_settled, ledger>>
  BY <1>2, NominalCode DEF Found
<1>3. CASE /\ ~Finished(Found(s)) /\ SetRow(s, done) /\ total_settled' = total_settled
           /\ unsettled_balance' = BalanceAfterFailure(unsettled_balance, row[s].amount)
  <2>1. /\ row[s].status = "processing" /\ held = row[s].amount
        /\ row[s].amount > 0 /\ row[s].amount \in Nat
    BY <1>1, <1>3
    DEF NominalInv, SettlementInv, Finished, FinishedStatuses, InFlightStatuses, RowType
  <2>2. /\ row' = [row EXCEPT ![s] = done] /\ held' = 0
        /\ unsettled_balance' = unsettled_balance + row[s].amount
    BY <1>1, <1>3, <2>1 DEF SetRow, HeldBy, BalanceAfterFailure
  <2>3. ExactAccounting'
    BY <1>3, <2>1, <2>2 DEF NominalInv, ExactAccounting, TypeOK
  <2>4. /\ \A t \in Settlements \ {s} : row'[t] = row[t] /\ outcome'[t] = outcome[t]
        /\ row'[s] = done
        /\ \/ outcome[s] = "failed" /\ outcome'[s] = "none"
           \/ transfer[s].status = "failed" /\ outcome'[s] = outcome[s]
    BY <2>2 DEF TypeOK
  <2>5. \A t \in Settlements \ {s} : row[t].status \notin {"pending", "processing"}
    BY <2>1 DEF NominalInv, InFlight, InFlightStatuses
  <2>6. (\A a, b \in InFlight : a = b)'
    BY <1>1, <2>4, OneSlot DEF InFlightStatuses
  <2>7. SettlementInv(s)'
    BY <1>1, <2>1, <2>4 DEF NominalInv, SettlementInv, InFlightStatuses
  <2>8. \A t \in Settlements \ {s} : SettlementInv(t)'
    BY <2>4, <2>5, Frame DEF NominalInv
  <2>9. NominalInv'
    BY <2>2, <2>3, <2>6, <2>7, <2>8 DEF NominalInv
  <2>10. Wallet!Release
    BY <1>3, <2>1, <2>2 DEF Wallet!Release
  <2> QED
    BY <2>9, <2>10
<1> QED
  BY <1>2, <1>3 DEF fail_settlement, done

LEMMA NominalInit == Init => NominalInv /\ Wallet!Init
<1> SUFFICES ASSUME Init PROVE NominalInv /\ Wallet!Init
  OBVIOUS
<1>1. Wallet!Init
  BY DEF Init, Wallet!Init, Wallet!wallet
<1>2. PICK t \in Thresholds \ 0 .. SETTLEMENT_MIN - 1 :
        profile = [kyc_verified |-> TRUE, settlement_enabled |-> TRUE, momo_verified |-> TRUE,
                   is_active |-> TRUE, settlement_threshold |-> t]
  BY Zenon DEF Init
<1>3. profile.settlement_threshold >= SETTLEMENT_MIN
  BY <1>2, AmountAssumption
<1>4. \A s \in Settlements : SettlementInv(s) /\ row[s].status = "none"
  BY DEF Init, SettlementInv, NoRow, NoTransfer, InFlightStatuses
<1>5. InFlight = {}
  BY <1>4 DEF InFlight, InFlightStatuses
<1>6. ExactAccounting /\ held = 0
  BY DEF Init, ExactAccounting
<1> QED
  BY <1>1, <1>3, <1>4, <1>5, <1>6 DEF NominalInv

(* Every step keeps the invariant and is a step of the wallet or none: one step of
   the proof per action. *)
LEMMA NominalStep ==
  ASSUME Hazards \subseteq {"repeat"}, TypeOK, NominalInv, [Next]_vars
  PROVE  NominalInv' /\ (Wallet!Next \/ UNCHANGED Wallet!wallet)
<1> DEFINE Goal == NominalInv' /\ (Wallet!Next \/ UNCHANGED Wallet!wallet)
<1>i. /\ profile.settlement_threshold >= SETTLEMENT_MIN
      /\ \A s \in Settlements : SettlementInv(s)
  BY DEF NominalInv
<1>0. CASE UNCHANGED vars
  BY <1>0, <1>i, NominalStutter DEF vars, wallet, task, paystack
<1>1. ASSUME NEW p \in Payments, payment_success(p) PROVE Goal
  BY <1>1, <1>i, NominalStutter DEF payment_success, wallet, task, paystack
<1>2. ASSUME NEW p \in Payments, NEW plan \in Plans, credit_collection(p, plan) PROVE Goal
  <2> DEFINE net == GrossOf[p] - calculate_fee(GrossOf[p], plan)
  <2>1. net \in Nat /\ GrossOf[p] \in Nat /\ calculate_fee(GrossOf[p], plan) \in Int
    BY AmountAssumption, FeeBounds
  <2>2. unsettled_balance' = unsettled_balance + net /\ credited' = credited + net
    BY <1>2, <2>1 DEF credit_collection, TypeOK
  <2>3. UNCHANGED <<total_settled, row, profile, outcome, transfer, events, held>>
    BY <1>2 DEF credit_collection, task, paystack
  <2> HIDE DEF net
  <2>4. ExactAccounting'
    BY <2>1, <2>2, <2>3 DEF NominalInv, ExactAccounting, TypeOK
  <2>5. \A s \in Settlements : SettlementInv(s)'
    <3> SUFFICES ASSUME NEW s \in Settlements PROVE SettlementInv(s)'
      OBVIOUS
    <3>1. row[s].status = "pending" => row[s].amount <= unsettled_balance'
      <4>1. row[s].amount \in Nat /\ unsettled_balance \in Nat
        BY DEF TypeOK, RowType
      <4>2. row[s].amount <= unsettled_balance => row[s].amount <= unsettled_balance + net
        BY <2>1, <4>1
      <4> QED
        BY <1>i, <2>2, <4>2 DEF SettlementInv
    <3> QED
      BY <1>i, <2>3, <3>1, Frame
  <2>6. Wallet!Earn
    BY <2>1, <2>2, <2>3 DEF Wallet!Earn, TypeOK
  <2> QED
    BY <2>3, <2>4, <2>5, <2>6 DEF NominalInv, InFlight, Wallet!Next
<1>3. ASSUME NEW s \in Settlements, NEW a \in Amounts, request_settlement(s, a) PROVE Goal
  <2> DEFINE r == NewRow("pending", a, "manual")
  <2>1. r \in RowType /\ r.amount = a /\ r.status = "pending" /\ a \in Nat /\ HeldBy(r) = 0
    BY AmountAssumption DEF NewRow, RowType, InFlightStatuses, HeldBy
  <2>2. /\ row[s].status = "none" /\ transfer[s].status = "none" /\ HeldBy(row[s]) = 0
        /\ a > 0 /\ a <= unsettled_balance /\ InFlight = {}
    BY <1>3, <2>1, AmountAssumption
    DEF request_settlement, Fresh, NoRow, NoTransfer, HeldBy
  <2> HIDE DEF r
  <2>3. CASE disburse_settlement(s, r)
    BY <2>1, <2>2, <2>3, NominalDisburse DEF Wallet!Next
  <2>4. CASE SetRow(s, r) /\ UNCHANGED <<confirmed, wallet, profile, task, paystack, credited>>
    <3>1. row' = [row EXCEPT ![s] = r] /\ held' = held
      BY <2>1, <2>2, <2>4 DEF SetRow, TypeOK
    <3>2. UNCHANGED <<unsettled_balance, total_settled, profile, outcome, transfer, events, credited>>
      BY <2>4 DEF wallet, task, paystack
    <3>3. row'[s] = r /\ \A t \in Settlements \ {s} : row'[t] = row[t]
      BY <3>1 DEF TypeOK
    <3>4. (\A x, y \in InFlight : x = y)'
      BY <2>2, <3>3, OneSlot
    <3>5. SettlementInv(s)'
      BY <1>i, <2>1, <2>2, <3>1, <3>2, <3>3 DEF SettlementInv, InFlightStatuses
    <3>6. \A t \in Settlements \ {s} : SettlementInv(t)'
      BY <1>i, <2>2, <3>1, <3>2, <3>3, Frame DEF InFlight, InFlightStatuses
    <3>7. held = 0
      BY <2>2 DEF NominalInv, InFlight, InFlightStatuses
    <3>8. NominalInv'
      BY <3>1, <3>2, <3>4, <3>5, <3>6, <3>7 DEF NominalInv, ExactAccounting
    <3> QED
      BY <3>1, <3>2, <3>8 DEF Wallet!wallet
  <2> QED
    BY <1>3, <2>3, <2>4 DEF request_settlement, r
<1>4. ASSUME NEW s \in Settlements, approve_settlement(s) PROVE Goal
  <2>1. row[s] \in RowType /\ row[s].status = "pending" /\ disburse_settlement(s, row[s])
    BY <1>4 DEF approve_settlement, TypeOK
  <2>2. row[s].amount > 0 /\ row[s].amount <= unsettled_balance
    BY <1>i, <2>1 DEF SettlementInv, InFlightStatuses
  <2>3. \A t \in InFlight : t = s
    BY <2>1 DEF NominalInv, InFlight, InFlightStatuses
  <2> QED
    BY <2>1, <2>2, <2>3, NominalDisburse DEF Wallet!Next
<1>5. ASSUME NEW s \in Settlements, cancel_settlement(s) PROVE Goal
  <2> DEFINE r == [row[s] EXCEPT !.status = "cancelled"]
  <2>1. row[s].status = "pending" /\ r.status = "cancelled" /\ HeldBy(r) = 0 /\ HeldBy(row[s]) = 0
    BY <1>5 DEF cancel_settlement, TypeOK, RowType, HeldBy
  <2>2. /\ row' = [row EXCEPT ![s] = r] /\ held' = held
        /\ UNCHANGED <<unsettled_balance, total_settled, profile, outcome, transfer, events, credited>>
    BY <1>5, <2>1 DEF cancel_settlement, SetRow, TypeOK, wallet, task, paystack
  <2> HIDE DEF r
  <2>3. row'[s] = r /\ \A t \in Settlements \ {s} : row'[t] = row[t]
    BY <2>2 DEF TypeOK
  <2>4. (\A x, y \in InFlight : x = y)'
    BY <2>1, <2>3, OneSlot DEF InFlightStatuses
  <2>5. SettlementInv(s)'
    BY <1>i, <2>1, <2>2, <2>3 DEF SettlementInv, InFlightStatuses
  <2>6. \A t \in Settlements \ {s} : SettlementInv(t)'
    <3> SUFFICES ASSUME NEW t \in Settlements \ {s} PROVE SettlementInv(t)'
      OBVIOUS
    <3>1. row[t].status = "pending" => row[t].amount <= unsettled_balance'
      BY <1>i, <2>2 DEF SettlementInv
    <3> QED
      BY <1>i, <2>2, <2>3, <3>1, Frame
  <2>7. held = 0
    BY <2>1 DEF NominalInv, InFlight, InFlightStatuses
  <2>8. NominalInv'
    BY <2>2, <2>4, <2>5, <2>6, <2>7 DEF NominalInv, ExactAccounting
  <2> QED
    BY <2>2, <2>8 DEF Wallet!wallet
<1>6. ASSUME NEW s \in Settlements, handle_transfer_success(s) PROVE Goal
  <2>1. transfer[s].status = "success"
    BY <1>6, <1>i DEF handle_transfer_success, Delivered, SettlementInv
  <2>2. UNCHANGED <<profile, outcome, transfer, events, credited>>
    BY <1>6 DEF handle_transfer_success, Delivered, task
  <2>3. CASE confirm_settlement(s)
    BY <2>1, <2>2, <2>3, NominalConfirm DEF Wallet!Next
  <2>4. CASE Dropped(s)
    BY <1>i, <2>2, <2>4, NominalStutter DEF Dropped, wallet
  <2> QED
    BY <1>6, <2>3, <2>4 DEF handle_transfer_success
<1>7. ASSUME NEW s \in Settlements, NEW reason \in {"failed", "reversed"},
             handle_transfer_failure(s, reason)
      PROVE  Goal
  <2>1. transfer[s].status = "failed"
    BY <1>7, <1>i DEF handle_transfer_failure, Delivered, SettlementInv
  <2>2. UNCHANGED <<profile, outcome, transfer, events, credited>>
    BY <1>7 DEF handle_transfer_failure, Delivered, task
  <2>3. CASE fail_settlement(s)
    BY <2>1, <2>2, <2>3, NominalFail DEF Wallet!Next
  <2>4. CASE Dropped(s)
    BY <1>i, <2>2, <2>4, NominalStutter DEF Dropped, wallet
  <2> QED
    BY <1>7, <2>3, <2>4 DEF handle_transfer_failure
<1>8. ASSUME NEW s \in Settlements, daily_merchant_auto_settlement(s) PROVE Goal
  <2> DEFINE r == NewRow("processing", unsettled_balance, "auto")
  <2>1. /\ r.status = "processing" /\ r.amount = unsettled_balance
        /\ HeldBy(r) = unsettled_balance /\ HeldBy(row[s]) = 0
        /\ transfer[s].status = "none" /\ InFlight = {} /\ row[s].status = "none"
    BY <1>8 DEF daily_merchant_auto_settlement, NewRow, HeldBy, Fresh, NoRow, NoTransfer
  <2>2. unsettled_balance \in Nat /\ unsettled_balance > 0
    <3>1. profile.settlement_threshold \in Nat
      BY AmountAssumption DEF TypeOK
    <3> QED
      BY <1>8, <1>i, <3>1, AmountAssumption DEF daily_merchant_auto_settlement, TypeOK
  <2>3. held = 0
    BY <2>1 DEF NominalInv, InFlight, InFlightStatuses
  <2> HIDE DEF r
  <2>4. /\ row' = [row EXCEPT ![s] = r] /\ held' = unsettled_balance /\ unsettled_balance' = 0
        /\ outcome' = [outcome EXCEPT ![s] = "unsent"]
        /\ UNCHANGED <<total_settled, profile, transfer, events, credited>>
    BY <1>8, <2>1, <2>2, <2>3
    DEF daily_merchant_auto_settlement, SetRow, BalanceAfterHold, paystack, r
  <2>5. /\ row'[s] = r /\ outcome'[s] = "unsent"
        /\ \A t \in Settlements \ {s} : row'[t] = row[t] /\ outcome'[t] = outcome[t]
    BY <2>4 DEF TypeOK
  <2>6. ExactAccounting'
    BY <2>2, <2>3, <2>4 DEF NominalInv, ExactAccounting, TypeOK
  <2>7. (\A x, y \in InFlight : x = y)'
    BY <2>1, <2>5, OneSlot
  <2>8. SettlementInv(s)'
    BY <1>i, <2>1, <2>2, <2>4, <2>5 DEF SettlementInv, InFlightStatuses
  <2>9. \A t \in Settlements \ {s} : SettlementInv(t)'
    BY <1>i, <2>1, <2>4, <2>5, Frame DEF InFlight, InFlightStatuses
  <2>10. NominalInv'
    BY <1>i, <2>1, <2>4, <2>5, <2>6, <2>7, <2>8, <2>9 DEF NominalInv
  <2>11. Wallet!Hold
    BY <2>2, <2>3, <2>4 DEF Wallet!Hold
  <2> QED
    BY <2>10, <2>11 DEF Wallet!Next
<1>9. ASSUME NEW s \in Settlements, send_chunk(s) PROVE Goal
  <2>1. /\ UNCHANGED <<unsettled_balance, total_settled, row, profile, held, credited>>
        /\ outcome[s] = "unsent"
    BY <1>9 DEF send_chunk, wallet
  <2>2. transfer[s].status = "none" /\ row[s].status = "processing"
    BY <1>i, <2>1 DEF SettlementInv
  <2>3. \A t \in Settlements \ {s} :
          /\ transfer'[t] = transfer[t] /\ outcome'[t] = outcome[t]
          /\ \A e : <<t, e>> \in events' => <<t, e>> \in events
    BY <1>9, <2>2 DEF send_chunk, Accept, TypeOK, paystack
  <2>4. \/ /\ transfer'[s].status = "pending" /\ events' = events
           /\ outcome'[s] \in {"pending", "uncoded"}
        \/ /\ transfer'[s].status = "success" /\ events' = events \cup {<<s, "success">>}
           /\ outcome'[s] \in {"success", "uncoded"}
        \/ /\ transfer'[s] = transfer[s] /\ events' = events /\ outcome'[s] = "failed"
    BY <1>9, <2>2 DEF send_chunk, Accept, TypeOK, paystack
  <2>5. SettlementInv(s)'
    BY <1>i, <2>1, <2>2, <2>4 DEF SettlementInv
  <2>6. \A t \in Settlements \ {s} : SettlementInv(t)'
    <3> SUFFICES ASSUME NEW t \in Settlements \ {s} PROVE SettlementInv(t)'
      OBVIOUS
    <3>1. row[t].status = "pending" => row[t].amount <= unsettled_balance'
      BY <1>i, <2>1 DEF SettlementInv
    <3> QED
      BY <1>i, <2>1, <2>3, <3>1, Frame
  <2> QED
    BY <2>1, <2>5, <2>6 DEF NominalInv, ExactAccounting, InFlight, Wallet!wallet
<1>10. ASSUME NEW s \in Settlements, apply_bulk_transfer_outcomes(s) PROVE Goal
  <2>0. (row[s].coded \/ outcome[s] = "pending") \in BOOLEAN
    BY DEF TypeOK, RowType
  <2>1. /\ outcome' = [outcome EXCEPT ![s] = "none"]
        /\ UNCHANGED <<profile, transfer, events, credited>>
    BY <1>10 DEF apply_bulk_transfer_outcomes, paystack
  <2>2. CASE /\ SetRow(s, [row[s] EXCEPT !.coded = @ \/ outcome[s] = "pending"])
             /\ UNCHANGED wallet
    BY <2>0, <2>1, <2>2, NominalCode DEF wallet
  <2>3. CASE outcome[s] = "success" /\ confirm_settlement(s)
    BY <1>i, <2>1, <2>3, NominalConfirm DEF SettlementInv, Wallet!Next
  <2>4. CASE outcome[s] = "failed" /\ fail_settlement(s)
    BY <2>1, <2>4, NominalFail DEF Wallet!Next
  <2>5. CASE UNCHANGED <<wallet, row, held, reconcile_due>>
    <3>1. \A t \in Settlements : SettlementInv(t)'
      <4> SUFFICES ASSUME NEW t \in Settlements PROVE SettlementInv(t)'
        OBVIOUS
      <4>1. outcome'[t] \in {outcome[t], "none"}
        BY <2>1 DEF TypeOK
      <4> QED
        BY <1>i, <2>1, <2>5, <4>1 DEF SettlementInv, wallet
    <3> QED
      BY <2>1, <2>5, <3>1 DEF NominalInv, ExactAccounting, InFlight, wallet, Wallet!wallet
  <2> QED
    BY <1>10, <2>2, <2>3, <2>4, <2>5 DEF apply_bulk_transfer_outcomes
<1>11. ASSUME NEW s \in Settlements, reconcile_merchant_settlement_batch(s) PROVE Goal
  <2>1. UNCHANGED <<confirmed, profile, outcome, transfer, events, credited>>
    BY <1>11 DEF reconcile_merchant_settlement_batch, paystack
  <2>2. CASE transfer[s].status = "success" /\ confirm_settlement(s)
    BY <2>1, <2>2, NominalConfirm DEF Wallet!Next
  <2>3. CASE transfer[s].status \in {"failed", "reversed"} /\ fail_settlement(s)
    <3>1. transfer[s].status = "failed"
      BY <1>i, <2>3 DEF SettlementInv
    <3> QED
      BY <2>1, <2>3, <3>1, NominalFail DEF Wallet!Next
  <2>4. CASE UNCHANGED <<wallet, row, held>>
    BY <1>i, <2>1, <2>4, NominalStutter DEF wallet
  <2> QED
    BY <1>11, <2>2, <2>3, <2>4 DEF reconcile_merchant_settlement_batch
<1>12. ASSUME NEW s \in Settlements, paystack_resolves(s) PROVE Goal
  <2>1. PICK to \in {"success", "failed"} : Resolve(s, "pending", to)
    BY <1>12 DEF paystack_resolves
  <2>2. /\ UNCHANGED <<unsettled_balance, total_settled, row, profile, outcome, held, credited>>
        /\ transfer[s].status = "pending" /\ events' = events \cup {<<s, to>>}
    BY <2>1 DEF Resolve, wallet, task
  <2>3. transfer'[s].status = to /\ \A t \in Settlements \ {s} : transfer'[t] = transfer[t]
    BY <2>1 DEF Resolve, TypeOK, TransferType
  <2>4. SettlementInv(s)'
    BY <1>i, <2>2, <2>3 DEF SettlementInv
  <2>5. \A t \in Settlements \ {s} : SettlementInv(t)'
    <3> SUFFICES ASSUME NEW t \in Settlements \ {s} PROVE SettlementInv(t)'
      OBVIOUS
    <3>1. row[t].status = "pending" => row[t].amount <= unsettled_balance'
      BY <1>i, <2>2 DEF SettlementInv
    <3> QED
      BY <1>i, <2>2, <2>3, <3>1, Frame
  <2> QED
    BY <2>2, <2>4, <2>5 DEF NominalInv, ExactAccounting, InFlight, Wallet!wallet
<1>13. ASSUME NEW e \in BOOLEAN, NEW t \in Thresholds, update_settlement_config(e, t) PROVE Goal
  <2>1. t \in Nat /\ profile.settlement_threshold \in Nat
    BY AmountAssumption DEF TypeOK
  <2>2. profile'.settlement_threshold = t /\ t >= SETTLEMENT_MIN
    BY <1>13, <1>i, <2>1 DEF update_settlement_config, TypeOK
  <2> QED
    BY <1>13, <2>2, NominalStutter DEF update_settlement_config, wallet, task, paystack
<1>14. CASE kyc_changes \/ momo_changes \/ suspend_changes
  <2>1. profile'.settlement_threshold = profile.settlement_threshold
    BY <1>14 DEF kyc_changes, momo_changes, suspend_changes, TypeOK
  <2> QED
    BY <1>14, <1>i, <2>1, NominalStutter
    DEF kyc_changes, momo_changes, suspend_changes, wallet, task, paystack
<1>15. \A s \in Settlements, a \in Amounts : ~admin_force_settle(s, a)
  BY DEF admin_force_settle
<1>16. \A s \in Settlements :
         ~retry_failed_merchant_settlement(s) /\ ~worker_crash(s) /\ ~paystack_reverses(s)
  BY DEF retry_failed_merchant_settlement, worker_crash, paystack_reverses
<1>17. CASE \E p \in Payments : payment_success(p) \/ \E plan \in Plans : credit_collection(p, plan)
  BY <1>1, <1>2, <1>17
<1>18. CASE \E s \in Settlements, a \in Amounts : request_settlement(s, a) \/ admin_force_settle(s, a)
  BY <1>3, <1>15, <1>18
<1>19. CASE \E s \in Settlements :
              \/ approve_settlement(s) \/ cancel_settlement(s)
              \/ retry_failed_merchant_settlement(s)
              \/ handle_transfer_success(s)
              \/ \E reason \in {"failed", "reversed"} : handle_transfer_failure(s, reason)
              \/ daily_merchant_auto_settlement(s) \/ send_chunk(s)
              \/ apply_bulk_transfer_outcomes(s) \/ worker_crash(s)
              \/ reconcile_merchant_settlement_batch(s)
              \/ paystack_resolves(s) \/ paystack_reverses(s)
  BY <1>4, <1>5, <1>6, <1>7, <1>8, <1>9, <1>10, <1>11, <1>12, <1>16, <1>19
<1>20. CASE \E e \in BOOLEAN, t \in Thresholds : update_settlement_config(e, t)
  BY <1>13, <1>20
<1> QED
  BY <1>0, <1>14, <1>17, <1>18, <1>19, <1>20 DEF Next

(* When nothing goes wrong the books balance to the pesewa, one settlement at most
   is in flight, and the row, the transfer, its webhooks and the daily task agree. *)
THEOREM NominalBooks ==
  ASSUME Hazards \subseteq {"repeat"} PROVE Spec => []NominalInv
BY TypeCorrect, NominalInit, NominalStep, PTL DEF Spec

(* When nothing goes wrong the service implements the wallet: it never sets aside
   more than there is, has one settlement in flight, and pays it or gives it back
   as a whole. *)
THEOREM NominalWallet ==
  ASSUME Hazards \subseteq {"repeat"} PROVE Spec => ImplementsWallet
BY TypeCorrect, NominalInit, NominalStep, PTL DEF Spec, ImplementsWallet, Wallet!Spec

-----------------------------------------------------------------------------
(* What a step does to a row, and what it books for it *)

(* Row s, if r is in flight, is in flight already, or an admin's, or retried, or *)
(* the only one.                                                                 *)
Starts(s, r) ==
  r.status \in InFlightStatuses =>
    \/ s \in InFlight /\ r.mode = row[s].mode
    \/ r.mode = "admin" \/ row[s].status = "failed" \/ InFlight = {}

Writes(s, r) ==
  /\ SetRow(s, r) /\ r \in RowType /\ Starts(s, r)
  /\ r.amount = row[s].amount \/ Fresh(s)
  /\ credited' = credited
  /\ \/ /\ r.status = "completed" <=> row[s].status = "completed"
        /\ r.status = "failed" => row[s].status = "failed"
        /\ UNCHANGED <<ledger, total_settled>>
     \/ /\ row[s].status # "completed" /\ r.status # "completed"
        /\ LeftReversal(s)
     \/ /\ "overtaken" \in Hazards /\ row[s].status # "completed" /\ r.status = "processing"
        /\ LeftDebit(s)
     \/ /\ row[s].status # "completed" /\ r.status = "completed" /\ r.amount = row[s].amount
        /\ ledger' = Append(ledger, Entry("debit", s, -row[s].amount, unsettled_balance))
        /\ total_settled' = total_settled + row[s].amount

Collects(p) ==
  /\ \E x, y \in Int, a, b \in Nat :
       /\ ledger' = ledger \o <<Entry("credit", p, x, a), Entry("fee", p, y, b)>>
       /\ credited' = credited + x + y
  /\ UNCHANGED <<row, held, total_settled>>

Rests == UNCHANGED <<row, held, total_settled, ledger, credited>>

LEMMA RowParts ==
  ASSUME NEW r \in RowType, NEW c \in BOOLEAN,
         NEW st \in {"pending", "processing", "completed", "failed", "cancelled"}
  PROVE  /\ LET q == [r EXCEPT !.coded = c]
            IN q \in RowType /\ q.status = r.status /\ q.amount = r.amount /\ q.mode = r.mode
         /\ LET q == [r EXCEPT !.status = st]
            IN q \in RowType /\ q.status = st /\ q.amount = r.amount /\ q.mode = r.mode
         /\ LET q == [r EXCEPT !.status = st, !.coded = c]
            IN q \in RowType /\ q.status = st /\ q.amount = r.amount /\ q.mode = r.mode
BY DEF RowType, InFlightStatuses, FinishedStatuses

LEMMA CodeWrites ==
  ASSUME TypeOK, NEW s \in Settlements, NEW c \in BOOLEAN, SetRow(s, [row[s] EXCEPT !.coded = c]),
         UNCHANGED <<ledger, total_settled, credited>>
  PROVE  \E r : Writes(s, r)
<1> DEFINE q == [row[s] EXCEPT !.coded = c]
<1>1. row[s] \in RowType
  BY DEF TypeOK
<1>2. q \in RowType /\ q.status = row[s].status /\ q.amount = row[s].amount /\ q.mode = row[s].mode
  BY <1>1 DEF RowType
<1>3. SetRow(s, q)
  OBVIOUS
<1> HIDE DEF q
<1>4. Writes(s, q)
  BY <1>2, <1>3 DEF Writes, Starts, InFlight
<1> QED BY <1>4

LEMMA DisburseWrites ==
  ASSUME TypeOK, NEW s \in Settlements, NEW r \in RowType, disburse_settlement(s, r),
         r.amount = row[s].amount \/ Fresh(s), row[s].status # "completed",
         \/ s \in InFlight /\ r.mode = row[s].mode
         \/ r.mode = "admin" \/ row[s].status = "failed" \/ InFlight = {}
  PROVE  Rests \/ \E q : Writes(s, q)
<1> DEFINE q == [r EXCEPT !.status = "processing", !.coded = TRUE]
<1>1. q \in RowType /\ q.status = "processing" /\ q.amount = r.amount /\ q.mode = r.mode
  BY RowParts
<1>2. CASE UNCHANGED <<row, held, unsettled_balance, total_settled, ledger>>
  BY <1>2 DEF disburse_settlement, Rests
<1>3. CASE Commit(s, r)
  <2>1. SetRow(s, q) /\ credited' = credited
    BY <1>3 DEF Commit, disburse_settlement
  <2>2. \/ UNCHANGED <<ledger, total_settled>>
        \/ "overtaken" \in Hazards /\ (LeftDebit(s) \/ LeftReversal(s))
    BY DisburseParts
  <2> HIDE DEF q
  <2>3. Writes(s, q)
    BY <1>1, <2>1, <2>2 DEF Writes, Starts
  <2> QED BY <2>3
<1> QED BY <1>2, <1>3, DisburseParts

LEMMA ConfirmWrites ==
  ASSUME TypeOK, NEW s \in Settlements, confirm_settlement(s), credited' = credited
  PROVE  \E r : Writes(s, r)
<1> DEFINE q == [Found(s) EXCEPT !.status = "completed"]
<1>1. row[s] \in RowType
  BY DEF TypeOK
<1>2. /\ Found(s) \in RowType /\ Found(s).status = row[s].status
      /\ Found(s).amount = row[s].amount
  BY <1>1, RowParts DEF Found
<1>3. q \in RowType /\ q.status = "completed" /\ q.amount = row[s].amount
  BY <1>2, RowParts
<1>4. CASE SetRow(s, Found(s)) /\ UNCHANGED <<ledger, total_settled>>
  BY <1>4, CodeWrites DEF Found
<1>5. CASE /\ ~Completed(Found(s)) /\ SetRow(s, q)
           /\ ledger' = Append(ledger, Entry("debit", s, -row[s].amount, unsettled_balance))
           /\ total_settled' = total_settled + row[s].amount
  <2> HIDE DEF q
  <2>1. Writes(s, q)
    BY <1>2, <1>3, <1>5 DEF Writes, Starts, Completed, InFlightStatuses
  <2> QED BY <2>1
<1> QED BY <1>4, <1>5 DEF confirm_settlement

LEMMA FailWrites ==
  ASSUME TypeOK, NEW s \in Settlements, fail_settlement(s), credited' = credited
  PROVE  \E r : Writes(s, r)
<1> DEFINE q == [Found(s) EXCEPT !.status = "failed"]
<1>1. row[s] \in RowType
  BY DEF TypeOK
<1>2. /\ Found(s) \in RowType /\ Found(s).status = row[s].status
      /\ Found(s).amount = row[s].amount
  BY <1>1, RowParts DEF Found
<1>3. q \in RowType /\ q.status = "failed" /\ q.amount = row[s].amount
  BY <1>2, RowParts
<1>4. CASE SetRow(s, Found(s)) /\ UNCHANGED <<ledger, total_settled>>
  BY <1>4, CodeWrites DEF Found
<1>5. CASE /\ ~Finished(Found(s)) /\ SetRow(s, q) /\ UNCHANGED total_settled
           /\ ledger' = Append(ledger, Entry("reversal", s, row[s].amount, unsettled_balance'))
  <2>0. LeftReversal(s)
    <3>1. unsettled_balance' \in Nat
      BY FailType
    <3> QED BY <1>5, <3>1 DEF LeftReversal
  <2> HIDE DEF q
  <2>1. Writes(s, q)
    BY <1>2, <1>3, <1>5, <2>0 DEF Writes, Starts, Finished, FinishedStatuses, InFlightStatuses
  <2> QED BY <2>1
<1> QED BY <1>4, <1>5 DEF fail_settlement

(* Every step writes a row, books a collection, or leaves rows and books alone. *)
LEMMA StepWrites ==
  ASSUME TypeOK, [Next]_vars
  PROVE  \/ Rests
         \/ \E p \in Payments : Collects(p)
         \/ \E s \in Settlements, r \in RowType : Writes(s, r)
<1> DEFINE Goal == \/ Rests
                   \/ \E p \in Payments : Collects(p)
                   \/ \E s \in Settlements, r \in RowType : Writes(s, r)
<1>0. ASSUME NEW s \in Settlements, NEW r, Writes(s, r) PROVE Goal
  BY <1>0 DEF Writes
<1> HIDE DEF Goal
<1>r. Rests => Goal
  BY DEF Goal
<1>1. CASE UNCHANGED vars
  BY <1>r, <1>1 DEF vars, wallet, Rests
<1>2. ASSUME NEW p \in Payments, payment_success(p) PROVE Goal
  BY <1>r, <1>2 DEF payment_success, wallet, Rests
<1>3. ASSUME NEW p \in Payments, NEW plan \in Plans, credit_collection(p, plan) PROVE Goal
  <2> DEFINE fee == calculate_fee(GrossOf[p], plan)
             x == GrossOf[p]
             y == -fee
             a == unsettled_balance + GrossOf[p]
             b == a - fee
  <2>1. /\ GrossOf[p] \in Nat /\ unsettled_balance \in Nat
        /\ fee \in 0 .. GrossOf[p] /\ credited \in Int
    BY AmountAssumption, FeeBounds DEF TypeOK
  <2>2. /\ ledger' = ledger \o <<Entry("credit", p, x, a), Entry("fee", p, y, b)>>
        /\ credited' = credited + GrossOf[p] - fee
        /\ UNCHANGED <<row, held, total_settled>>
    BY <1>3 DEF credit_collection
  <2> HIDE DEF fee
  <2>3. x \in Int /\ y \in Int /\ a \in Nat /\ b \in Nat /\ credited' = credited + x + y
    BY <2>1, <2>2
  <2> HIDE DEF x, y, a, b
  <2>4. Collects(p)
    BY <2>2, <2>3 DEF Collects
  <2> QED BY <2>4 DEF Goal
<1>4. ASSUME NEW s \in Settlements, NEW a \in Amounts, request_settlement(s, a) PROVE Goal
  <2> DEFINE r == NewRow("pending", a, "manual")
  <2>1. r \in RowType /\ r.status = "pending"
    BY AmountAssumption DEF NewRow, RowType, InFlightStatuses
  <2>2. Fresh(s) /\ row[s].status # "completed" /\ InFlight = {}
    BY <1>4 DEF request_settlement, Fresh, NoRow
  <2>3. disburse_settlement(s, r) \/ (SetRow(s, r) /\ UNCHANGED <<wallet, credited>>)
    BY <1>4 DEF request_settlement
  <2> HIDE DEF r
  <2>4. CASE disburse_settlement(s, r)
    BY <1>0, <1>r, <2>1, <2>2, <2>4, DisburseWrites
  <2>5. CASE SetRow(s, r) /\ UNCHANGED <<wallet, credited>>
    <3>1. Writes(s, r)
      BY <2>1, <2>2, <2>5 DEF Writes, Starts, wallet
    <3> QED BY <1>0, <3>1
  <2> QED BY <2>3, <2>4, <2>5
<1>5. ASSUME NEW s \in Settlements, NEW a \in Amounts, admin_force_settle(s, a) PROVE Goal
  <2> DEFINE r == NewRow("pending", a, "admin")
  <2>1. r \in RowType /\ r.mode = "admin"
    BY AmountAssumption DEF NewRow, RowType, InFlightStatuses
  <2>2. Fresh(s) /\ row[s].status # "completed" /\ disburse_settlement(s, r)
    BY <1>5 DEF admin_force_settle, Fresh, NoRow
  <2> HIDE DEF r
  <2> QED BY <1>0, <1>r, <2>1, <2>2, DisburseWrites
<1>6. ASSUME NEW s \in Settlements, approve_settlement(s) PROVE Goal
  <2>1. /\ row[s] \in RowType /\ s \in InFlight /\ row[s].status # "completed"
        /\ disburse_settlement(s, row[s])
    BY <1>6 DEF approve_settlement, TypeOK, InFlight, InFlightStatuses
  <2> QED BY <1>0, <1>r, <2>1, DisburseWrites
<1>7. ASSUME NEW s \in Settlements, cancel_settlement(s) PROVE Goal
  <2> DEFINE r == [row[s] EXCEPT !.status = "cancelled"]
  <2>1. row[s] \in RowType
    BY DEF TypeOK
  <2>2. r \in RowType /\ r.status = "cancelled" /\ r.amount = row[s].amount
    BY <2>1, RowParts
  <2>3. SetRow(s, r) /\ row[s].status = "pending" /\ UNCHANGED <<wallet, credited>>
    BY <1>7 DEF cancel_settlement
  <2> HIDE DEF r
  <2>4. Writes(s, r)
    BY <2>2, <2>3 DEF Writes, Starts, wallet, InFlightStatuses
  <2> QED BY <1>0, <2>4
<1>8. ASSUME NEW s \in Settlements, retry_failed_merchant_settlement(s) PROVE Goal
  <2> DEFINE r == [row[s] EXCEPT !.status = "pending"]
  <2>1. row[s] \in RowType
    BY DEF TypeOK
  <2>2. r \in RowType /\ r.amount = row[s].amount
    BY <2>1, RowParts
  <2>3. row[s].status = "failed" /\ disburse_settlement(s, r)
    BY <1>8 DEF retry_failed_merchant_settlement
  <2> HIDE DEF r
  <2> QED BY <1>0, <1>r, <2>2, <2>3, DisburseWrites
<1>9. ASSUME NEW s \in Settlements,
             \/ handle_transfer_success(s)
             \/ \E reason \in {"failed", "reversed"} : handle_transfer_failure(s, reason)
      PROVE  Goal
  <2>1. /\ credited' = credited
        /\ confirm_settlement(s) \/ fail_settlement(s) \/ UNCHANGED <<wallet, row, held>>
    BY <1>9 DEF handle_transfer_success, handle_transfer_failure, Dropped
  <2>2. CASE UNCHANGED <<wallet, row, held>>
    BY <1>r, <2>1, <2>2 DEF wallet, Rests
  <2> QED BY <1>0, <2>1, <2>2, ConfirmWrites, FailWrites
<1>10. ASSUME NEW s \in Settlements, daily_merchant_auto_settlement(s) PROVE Goal
  <2> DEFINE r == NewRow("processing", unsettled_balance, "auto")
  <2>1. r \in RowType /\ r.status = "processing"
    BY DEF TypeOK, NewRow, RowType, InFlightStatuses
  <2>2. /\ Fresh(s) /\ row[s].status = "none" /\ InFlight = {} /\ SetRow(s, r)
        /\ UNCHANGED <<total_settled, ledger, credited>>
    BY <1>10 DEF daily_merchant_auto_settlement, Fresh, NoRow
  <2> HIDE DEF r
  <2>3. Writes(s, r)
    BY <2>1, <2>2 DEF Writes, Starts
  <2> QED BY <1>0, <2>3
<1>11. ASSUME NEW s \in Settlements,
              send_chunk(s) \/ worker_crash(s) \/ paystack_resolves(s) \/ paystack_reverses(s)
       PROVE  Goal
  BY <1>r, <1>11
     DEF send_chunk, worker_crash, paystack_resolves, paystack_reverses, Resolve, wallet, Rests
<1>12. ASSUME NEW s \in Settlements, apply_bulk_transfer_outcomes(s) PROVE Goal
  <2> DEFINE c == row[s].coded \/ outcome[s] = "pending"
  <2>0. c \in BOOLEAN
    BY DEF TypeOK, RowType
  <2>1. credited' = credited
    BY <1>12 DEF apply_bulk_transfer_outcomes
  <2>2. \/ SetRow(s, [row[s] EXCEPT !.coded = c]) /\ UNCHANGED wallet
        \/ UNCHANGED <<wallet, row, held>>
        \/ confirm_settlement(s) \/ fail_settlement(s)
    BY <1>12 DEF apply_bulk_transfer_outcomes
  <2> HIDE DEF c
  <2>3. CASE SetRow(s, [row[s] EXCEPT !.coded = c]) /\ UNCHANGED wallet
    BY <1>0, <2>0, <2>1, <2>3, CodeWrites DEF wallet
  <2>4. CASE UNCHANGED <<wallet, row, held>>
    BY <1>r, <2>1, <2>4 DEF wallet, Rests
  <2> QED BY <1>0, <2>1, <2>2, <2>3, <2>4, ConfirmWrites, FailWrites
<1>13. ASSUME NEW s \in Settlements, reconcile_merchant_settlement_batch(s) PROVE Goal
  <2>1. /\ credited' = credited
        /\ confirm_settlement(s) \/ fail_settlement(s) \/ UNCHANGED <<wallet, row, held>>
    BY <1>13 DEF reconcile_merchant_settlement_batch
  <2>2. CASE UNCHANGED <<wallet, row, held>>
    BY <1>r, <2>1, <2>2 DEF wallet, Rests
  <2> QED BY <1>0, <2>1, <2>2, ConfirmWrites, FailWrites
<1>14. ASSUME NEW e \in BOOLEAN, NEW t \in Thresholds, update_settlement_config(e, t) PROVE Goal
  BY <1>r, <1>14 DEF update_settlement_config, wallet, Rests
<1>15. CASE kyc_changes \/ momo_changes \/ suspend_changes
  BY <1>r, <1>15 DEF kyc_changes, momo_changes, suspend_changes, wallet, Rests
<1>16. ASSUME NEW s \in Settlements,
              \/ approve_settlement(s) \/ cancel_settlement(s) \/ retry_failed_merchant_settlement(s)
              \/ handle_transfer_success(s)
              \/ \E reason \in {"failed", "reversed"} : handle_transfer_failure(s, reason)
              \/ daily_merchant_auto_settlement(s) \/ send_chunk(s)
              \/ apply_bulk_transfer_outcomes(s) \/ worker_crash(s)
              \/ reconcile_merchant_settlement_batch(s)
              \/ paystack_resolves(s) \/ paystack_reverses(s)
       PROVE  Goal
  BY <1>6, <1>7, <1>8, <1>9, <1>10, <1>11, <1>12, <1>13, <1>16
<1>17. ASSUME UNCHANGED vars \/ kyc_changes \/ momo_changes \/ suspend_changes PROVE Goal
  BY <1>1, <1>15, <1>17 DEF Goal
<1>18. Goal
  BY <1>2, <1>3, <1>4, <1>5, <1>14, <1>16, <1>17 DEF Next
<1> QED BY <1>18 DEF Goal

(* An entry booked once stays. *)
LEMMA LedgerGrows ==
  ASSUME TypeOK, NEW d, NEW e,
         ledger' \in {ledger, Append(ledger, e), ledger \o <<d, e>>}
  PROVE  \A i \in DOMAIN ledger : i \in DOMAIN ledger' /\ ledger'[i] = ledger[i]
<1>1. ledger \in Seq(EntryType)
  BY DEF TypeOK
<1>2. Len(ledger) \in Nat /\ DOMAIN ledger = 1 .. Len(ledger)
  BY <1>1
<1>3. CASE ledger' = Append(ledger, e)
  BY <1>1, <1>2, <1>3
<1>4. CASE ledger' = ledger \o <<d, e>>
  BY <1>1, <1>2, <1>4
<1> QED BY <1>3, <1>4

-----------------------------------------------------------------------------
(* One settlement in flight *)

Reversed(s) == \E i \in DOMAIN ledger : ledger[i].type = "reversal" /\ ledger[i].of = s

\* OneInFlight is not inductive: that a failed settlement has been reversed must be
\* known before its retry.
FlightInv ==
  /\ OneInFlight
  /\ \A s \in Settlements : row[s].status = "failed" => Reversed(s)

LEMMA FlightStep == TypeOK /\ FlightInv /\ [Next]_vars => FlightInv'
<1> SUFFICES ASSUME TypeOK, FlightInv, [Next]_vars PROVE FlightInv'
  OBVIOUS
<1>1. CASE Rests
  BY <1>1 DEF Rests, FlightInv, OneInFlight, InFlight, Reversed
<1>2. ASSUME NEW p \in Payments, Collects(p) PROVE FlightInv'
  <2>1. PICK d, e : ledger' = ledger \o <<d, e>>
    BY <1>2 DEF Collects
  <2>2. \A i \in DOMAIN ledger : i \in DOMAIN ledger' /\ ledger'[i] = ledger[i]
    BY <2>1, LedgerGrows
  <2> QED BY <1>2, <2>2 DEF Collects, FlightInv, OneInFlight, InFlight, Reversed
<1>3. ASSUME NEW s \in Settlements, NEW r \in RowType, Writes(s, r) PROVE FlightInv'
  <2>1. row'[s] = r /\ \A t \in Settlements \ {s} : row'[t] = row[t]
    BY <1>3 DEF Writes, SetRow, TypeOK
  <2>2. PICK e : ledger' = ledger \/ ledger' = Append(ledger, e)
    BY <1>3 DEF Writes, LeftReversal, LeftDebit
  <2>3. \A i \in DOMAIN ledger : i \in DOMAIN ledger' /\ ledger'[i] = ledger[i]
    BY <2>2, LedgerGrows
  <2>4. \A t \in Settlements : Reversed(t) => Reversed(t)'
    BY <2>3 DEF Reversed
  <2>5. r.status = "failed" => Reversed(s)'
    <3>1. CASE row[s].status = "failed"
      BY <2>4, <3>1 DEF FlightInv
    <3>2. CASE LeftReversal(s)
      <4>0. PICK b \in Nat : ledger' = Append(ledger, Entry("reversal", s, row[s].amount, b))
        BY <3>2 DEF LeftReversal
      <4> DEFINE f == Entry("reversal", s, row[s].amount, b)
      <4>1. f.type = "reversal" /\ f.of = s
        BY DEF Entry
      <4>2. ledger' = Append(ledger, f)
        BY <4>0
      <4> HIDE DEF f
      <4>3. PICK k \in Nat : DOMAIN ledger' = DOMAIN ledger \cup {k} /\ ledger'[k] = f
        BY <4>2, Appended
      <4>4. k \in DOMAIN ledger' /\ ledger'[k].type = "reversal" /\ ledger'[k].of = s
        BY <4>1, <4>3
      <4> QED BY <4>4 DEF Reversed
    <3> QED BY <1>3, <3>1, <3>2 DEF Writes
  <2>6. \A t \in Settlements : row'[t].status = "failed" => Reversed(t)'
    BY <2>1, <2>4, <2>5 DEF FlightInv
  <2>7. ASSUME NEW t \in InFlight', NEW u \in InFlight', t # u
        PROVE  \/ row'[t].mode = "admin" \/ row'[u].mode = "admin"
               \/ Reversed(t)' \/ Reversed(u)'
    <3>1. \A v \in InFlight' \ {s} : v \in InFlight /\ row'[v].mode = row[v].mode
      BY <2>1 DEF InFlight
    <3>2. \A v, w \in InFlight : v = w \/ row[v].mode = "admin" \/ row[w].mode = "admin"
                                  \/ Reversed(v) \/ Reversed(w)
      BY DEF FlightInv, OneInFlight, Reversed
    <3>3. s \in InFlight' => \/ s \in InFlight /\ row'[s].mode = row[s].mode
                             \/ row'[s].mode = "admin" \/ Reversed(s)' \/ InFlight = {}
      BY <1>3, <2>1, <2>4 DEF Writes, Starts, InFlight, FlightInv
    <3>4. t \in Settlements /\ u \in Settlements
      BY DEF InFlight
    <3> QED BY <2>4, <2>7, <3>1, <3>2, <3>3, <3>4
  <2>8. OneInFlight'
    BY <2>7 DEF OneInFlight, Reversed
  <2> QED BY <2>6, <2>8 DEF FlightInv
<1> QED BY <1>1, <1>2, <1>3, StepWrites

(* However requests, the daily task, forced payouts, retries and late webhooks
   interleave, two settlements are in flight together only if an admin forced one of
   them or one has been reversed before. *)
THEOREM OneFlight == Spec => []OneInFlight
<1>1. Init => FlightInv
  BY DEF Init, FlightInv, OneInFlight, InFlight, InFlightStatuses, NoRow
<1>2. FlightInv => OneInFlight
  BY DEF FlightInv
<1> QED BY <1>1, <1>2, TypeCorrect, FlightStep, PTL DEF Spec

-----------------------------------------------------------------------------
(* What the ledger adds up to *)

Accounts == {"credit", "fee", "debit"}
Counts(e) == IF e.type \in Accounts THEN e.amount ELSE 0
SumOfBook(L) ==
  SumFunctionOnSet([i \in DOMAIN L |-> L[i].amount], {i \in DOMAIN L : L[i].type \in Accounts})

LEMMA SumIsOfBook ==
  LedgerSum(Accounts) = SumOfBook(ledger) /\ LedgerSum(Accounts)' = SumOfBook(ledger')
BY DEF LedgerSum, SumOfBook, Booked, BookedAmounts

(* One more entry adds its amount, if it counts. *)
LEMMA SumOfOneMore ==
  ASSUME NEW L \in Seq(EntryType), NEW e \in EntryType
  PROVE  /\ Append(L, e) \in Seq(EntryType)
         /\ SumOfBook(L) \in Int /\ Counts(e) \in Int
         /\ SumOfBook(Append(L, e)) = SumOfBook(L) + Counts(e)
<1> DEFINE k == Len(L) + 1
           M == Append(L, e)
           S == {i \in DOMAIN L : L[i].type \in Accounts}
           T == {i \in DOMAIN M : M[i].type \in Accounts}
           f == [i \in DOMAIN L |-> L[i].amount]
           g == [i \in DOMAIN M |-> M[i].amount]
<1>1. Len(L) \in Nat /\ DOMAIN L = 1 .. Len(L) /\ \A i \in DOMAIN L : L[i] \in EntryType
  OBVIOUS
<1>2. /\ M \in Seq(EntryType) /\ DOMAIN M = DOMAIN L \cup {k} /\ k \notin DOMAIN L
      /\ M[k] = e /\ \A i \in DOMAIN L : M[i] = L[i]
  BY <1>1
<1>3. IsFiniteSet(DOMAIN L)
  BY <1>1, FS_Interval
<1>4. e.amount \in Int /\ \A i \in DOMAIN L : L[i].amount \in Int
  BY <1>1 DEF EntryType
<1> HIDE DEF M, k
<1>5. /\ IsFiniteSet(S) /\ k \notin S
      /\ \A i \in S : f[i] = g[i] /\ f[i] \in Int
      /\ g[k] = e.amount
  BY <1>2, <1>3, <1>4, FS_Subset
<1>6. T = IF e.type \in Accounts THEN S \cup {k} ELSE S
  BY <1>2
<1>7. SumOfBook(L) = SumFunctionOnSet(f, S) /\ SumOfBook(M) = SumFunctionOnSet(g, T)
  BY DEF SumOfBook
<1> HIDE DEF S, T, f, g
<1>8. \A i \in S \cup {k} : g[i] \in Int
  BY <1>4, <1>5
<1>9. SumFunctionOnSet(g, S) = SumFunctionOnSet(f, S) /\ SumFunctionOnSet(f, S) \in Int
  BY <1>5, SumAgrees, SumType
<1>10. SumFunctionOnSet(g, S \cup {k}) = g[k] + SumFunctionOnSet(g, S)
  BY <1>5, <1>8, SumAdd
<1>11. SumOfBook(M) = SumOfBook(L) + Counts(e)
  <2>1. CASE e.type \in Accounts
    BY <1>4, <1>5, <1>6, <1>7, <1>9, <1>10, <2>1 DEF Counts
  <2>2. CASE e.type \notin Accounts
    BY <1>6, <1>7, <1>9, <2>2 DEF Counts
  <2> QED BY <2>1, <2>2
<1> QED BY <1>2, <1>4, <1>7, <1>9, <1>11 DEF M, Counts

\* Whatever goes wrong, the ledger's credits, fees and debits are what was credited
\* less what was settled.
BookInv == LedgerSum(Accounts) = credited - total_settled

LEMMA BookStep == TypeOK /\ TypeOK' /\ BookInv /\ [Next]_vars => BookInv'
<1> SUFFICES ASSUME TypeOK, TypeOK', BookInv, [Next]_vars PROVE BookInv'
  OBVIOUS
<1>1. /\ ledger \in Seq(EntryType) /\ credited \in Int /\ total_settled \in Nat
      /\ unsettled_balance \in Nat /\ unsettled_balance' \in Nat
  BY DEF TypeOK
<1>2. SumOfBook(ledger) = credited - total_settled
  BY SumIsOfBook DEF BookInv
<1>3. SUFFICES SumOfBook(ledger') = credited' - total_settled'
  BY SumIsOfBook DEF BookInv
<1>4. CASE Rests
  BY <1>2, <1>4 DEF Rests
<1>5. ASSUME NEW p \in Payments, Collects(p) PROVE SumOfBook(ledger') = credited' - total_settled'
  <2>1. PICK x \in Int, y \in Int, a \in Nat, b \in Nat :
          /\ ledger' = ledger \o <<Entry("credit", p, x, a), Entry("fee", p, y, b)>>
          /\ credited' = credited + x + y
    BY <1>5 DEF Collects
  <2> DEFINE d == Entry("credit", p, x, a)
             e == Entry("fee", p, y, b)
  <2>2. /\ d \in EntryType /\ e \in EntryType
        /\ Counts(d) = x /\ Counts(e) = y
    BY DEF Entry, EntryType, Counts, Accounts
  <2>3. ledger' = ledger \o <<d, e>> /\ total_settled' = total_settled
    BY <1>5, <2>1 DEF Collects
  <2> HIDE DEF d, e
  <2>4. ledger' = Append(Append(ledger, d), e)
    BY <1>1, <2>2, <2>3
  <2>5. /\ Append(ledger, d) \in Seq(EntryType)
        /\ SumOfBook(Append(ledger, d)) = SumOfBook(ledger) + x
    BY <1>1, <2>2, SumOfOneMore
  <2>6. SumOfBook(ledger') = SumOfBook(Append(ledger, d)) + y
    BY <2>2, <2>4, <2>5, SumOfOneMore
  <2> QED BY <1>1, <1>2, <2>1, <2>3, <2>5, <2>6
<1>6. ASSUME NEW s \in Settlements, NEW r \in RowType, Writes(s, r)
      PROVE  SumOfBook(ledger') = credited' - total_settled'
  <2>1. row[s].amount \in Nat /\ credited' = credited
    BY <1>6 DEF Writes, TypeOK, RowType
  <2>2. CASE UNCHANGED <<ledger, total_settled>>
    BY <1>2, <2>1, <2>2
  <2>3. CASE LeftReversal(s)
    <3>0. PICK b \in Nat : ledger' = Append(ledger, Entry("reversal", s, row[s].amount, b))
      BY <2>3 DEF LeftReversal
    <3> DEFINE e == Entry("reversal", s, row[s].amount, b)
    <3>1. e \in EntryType /\ Counts(e) = 0
      BY <1>1, <2>1 DEF Entry, EntryType, Counts, Accounts
    <3> HIDE DEF e
    <3>2. SumOfBook(Append(ledger, e)) = SumOfBook(ledger) + 0 /\ SumOfBook(ledger) \in Int
      BY <1>1, <3>1, SumOfOneMore
    <3>3. ledger' = Append(ledger, e) /\ total_settled' = total_settled
      BY <2>3, <3>0 DEF LeftReversal, e
    <3> QED BY <1>2, <2>1, <3>2, <3>3
  <2>4. CASE /\ ledger' = Append(ledger, Entry("debit", s, -row[s].amount, unsettled_balance))
             /\ total_settled' = total_settled + row[s].amount
    <3> DEFINE e == Entry("debit", s, -row[s].amount, unsettled_balance)
    <3>1. e \in EntryType /\ Counts(e) = -row[s].amount
      BY <1>1, <2>1 DEF Entry, EntryType, Counts, Accounts
    <3> HIDE DEF e
    <3>2. SumOfBook(Append(ledger, e)) = SumOfBook(ledger) - row[s].amount
      BY <1>1, <1>2, <2>1, <3>1, SumOfOneMore
    <3>3. ledger' = Append(ledger, e)
      BY <2>4 DEF e
    <3> QED BY <1>1, <1>2, <2>1, <2>4, <3>2, <3>3
  <2> QED BY <1>6, <2>2, <2>3, <2>4 DEF Writes, LeftDebit
<1> QED BY <1>4, <1>5, <1>6, StepWrites

LEMMA BookStart == Init => BookInv
<1> SUFFICES ASSUME Init PROVE BookInv
  OBVIOUS
<1>1. Booked(Accounts) = {}
  BY DEF Init, Booked
<1> QED BY <1>1, SumEmpty DEF BookInv, LedgerSum, Init

-----------------------------------------------------------------------------
(* What the rows add up to *)

Started == {s \in Settlements : row[s].status # "none"}
Spent(r) == IF r.status \in {"processing", "completed"} THEN r.amount ELSE 0
SpentOn == [s \in Settlements |-> Spent(row[s])]

\* What is being processed or has been settled is the total of the rows that are in
\* processing or completed, unless a webhook settles what its row then processes.
SpentInv == IsFiniteSet(Started) /\ SumFunctionOnSet(SpentOn, Started) = held + total_settled

LEMMA SpentType == TypeOK => \A s \in Settlements : SpentOn[s] = Spent(row[s]) /\ SpentOn[s] \in Nat
BY DEF TypeOK, SpentOn, Spent, RowType

LEMMA SpentTypeNext ==
  TypeOK' => \A s \in Settlements : SpentOn'[s] = Spent(row'[s]) /\ SpentOn'[s] \in Nat
BY DEF TypeOK, SpentOn, Spent, RowType

LEMMA SpentStep ==
  Hazards \subseteq {"repeat"} /\ TypeOK /\ TypeOK' /\ SpentInv /\ [Next]_vars => SpentInv'
<1> SUFFICES ASSUME Hazards \subseteq {"repeat"}, TypeOK, TypeOK', SpentInv, [Next]_vars
             PROVE  SpentInv'
  OBVIOUS
<1>1. ASSUME UNCHANGED <<row, held, total_settled>> PROVE SpentInv'
  BY <1>1 DEF SpentInv, Started, SpentOn
<1>2. ASSUME NEW s \in Settlements, NEW r \in RowType, Writes(s, r) PROVE SpentInv'
  <2>1. /\ row'[s] = r /\ \A t \in Settlements \ {s} : row'[t] = row[t]
        /\ held' = held + HeldBy(r) - HeldBy(row[s])
    BY <1>2 DEF Writes, SetRow, TypeOK
  <2>2. /\ held \in Int /\ total_settled \in Nat /\ r.amount \in Nat /\ row[s].amount \in Nat
        /\ row[s] \in RowType
    BY DEF TypeOK, RowType
  <2>3. held' + total_settled' - Spent(r) = held + total_settled - Spent(row[s])
    <3>1. CASE UNCHANGED total_settled /\ (r.status = "completed" <=> row[s].status = "completed")
      <4>1. row[s].status = "completed" => r.amount = row[s].amount
        BY <1>2 DEF Writes, Fresh, NoRow
      <4> QED BY <2>1, <2>2, <3>1, <4>1 DEF HeldBy, Spent
    <3>2. CASE /\ row[s].status # "completed" /\ r.status = "completed"
               /\ r.amount = row[s].amount /\ total_settled' = total_settled + row[s].amount
      BY <2>1, <2>2, <3>2 DEF HeldBy, Spent
    <3> QED BY <1>2, <3>1, <3>2 DEF Writes, LeftReversal
  <2> DEFINE f == SpentOn
             g == SpentOn'
             S == Started
             T == Started'
  <2>4. /\ S \ {s} = T \ {s} /\ T \subseteq S \cup {s} /\ S \subseteq Settlements
        /\ T \subseteq Settlements
    BY <2>1 DEF Started
  <2>5. IsFiniteSet(S) /\ IsFiniteSet(T)
    <3>1. IsFiniteSet(Started) /\ IsFiniteSet(Started \cup {s})
      BY FS_AddElement DEF SpentInv
    <3> QED BY <2>4, <3>1, FS_Subset
  <2>6. /\ \A t \in Settlements : f[t] \in Int /\ g[t] \in Int
        /\ \A t \in S \ {s} : f[t] = g[t]
        /\ g[s] = Spent(r) /\ f[s] = Spent(row[s])
    <3>1. \A t \in Settlements : /\ f[t] = Spent(row[t]) /\ f[t] \in Nat
                                 /\ g[t] = Spent(row'[t]) /\ g[t] \in Nat
      BY SpentType, SpentTypeNext
    <3>2. \A t \in S \ {s} : t \in Settlements \ {s}
      BY DEF Started
    <3> HIDE DEF f, g, S
    <3> QED BY <2>1, <3>1, <3>2
  <2>7. (s \notin T => g[s] = 0) /\ (s \notin S => f[s] = 0)
    BY <2>1, <2>6 DEF Started, Spent
  <2>8. SumFunctionOnSet(f, S) = held + total_settled
    BY DEF SpentInv
  <2> SUFFICES IsFiniteSet(T) /\ SumFunctionOnSet(g, T) = held' + total_settled'
    BY DEF SpentInv
  <2> HIDE DEF f, g, S, T
  <2>9. SumFunctionOnSet(g, T) - (IF s \in T THEN g[s] ELSE 0)
          = SumFunctionOnSet(f, S) - (IF s \in S THEN f[s] ELSE 0)
    BY <2>4, <2>5, <2>6, SumChange
  <2>10. SumFunctionOnSet(g, T) \in Int
    BY <2>4, <2>5, <2>6, SumType
  <2>11. SumFunctionOnSet(g, T) - g[s] = SumFunctionOnSet(f, S) - f[s]
    BY <2>7, <2>9
  <2>12. held' \in Int /\ total_settled' \in Nat /\ f[s] \in Int /\ g[s] \in Int
    BY <2>6 DEF TypeOK
  <2>13. SumFunctionOnSet(g, T) = held + total_settled - f[s] + g[s]
    BY <2>2, <2>8, <2>10, <2>11, <2>12
  <2>14. f[s] = Spent(row[s]) /\ g[s] = Spent(r)
    BY <2>6
  <2>15. held' + total_settled' = held + total_settled - f[s] + g[s]
    BY <2>2, <2>3, <2>12, <2>14
  <2> QED BY <2>5, <2>13, <2>15
<1> QED BY <1>1, <1>2, StepWrites DEF Rests, Collects

LEMMA SpentStart == Init => SpentInv
<1> SUFFICES ASSUME Init PROVE SpentInv
  OBVIOUS
<1>1. Started = {}
  BY DEF Init, Started, NoRow
<1> QED BY <1>1, SumEmpty, FS_EmptySet DEF SpentInv, Init

-----------------------------------------------------------------------------
(* The ledger explains the balance, and the balance backs the transfers *)

\* A transfer that is on its way, or has arrived, is of its row's amount.
AmountInv ==
  \A s \in Settlements :
    transfer[s].status \in {"pending", "success"} => transfer[s].amount = row[s].amount

LEMMA AmountsKept ==
  ASSUME TypeOK, [Next]_vars, NEW s \in Settlements
  PROVE  row'[s].amount = row[s].amount \/ Fresh(s)
<1>1. CASE row' = row
  BY <1>1
<1>2. ASSUME NEW t \in Settlements, NEW r \in RowType, Writes(t, r)
      PROVE  row'[s].amount = row[s].amount \/ Fresh(s)
  BY <1>2 DEF Writes, SetRow, TypeOK
<1> QED BY <1>1, <1>2, StepWrites DEF Rests, Collects

LEMMA AmountDisburse ==
  ASSUME TypeOK, Hazards \subseteq {"repeat"}, AmountInv, NEW s \in Settlements, NEW r \in RowType,
         disburse_settlement(s, r), r.amount = row[s].amount \/ Fresh(s)
  PROVE  AmountInv'
<1> DEFINE q == [r EXCEPT !.status = "processing", !.coded = TRUE]
<1>1. q.amount = r.amount
  BY RowParts
<1>2. SetRow(s, q) /\ Accept(s, r.amount)
  BY DEF disburse_settlement, Commit, Overtake
<1> HIDE DEF q
<1>3. row'[s].amount = r.amount /\ \A t \in Settlements \ {s} : row'[t] = row[t]
  BY <1>1, <1>2 DEF SetRow, TypeOK
<1>4. \A t \in Settlements \ {s} : transfer'[t] = transfer[t]
  BY <1>2 DEF Accept, TypeOK
<1>5. CASE transfer[s].status \in {"pending", "success"}
  <2>1. ~Fresh(s) /\ transfer' = transfer
    BY <1>2, <1>5 DEF Fresh, NoTransfer, Accept
  <2> QED BY <1>3, <1>4, <2>1 DEF AmountInv
<1>6. CASE transfer[s].status \notin {"pending", "success"}
  <2>1. transfer'[s].amount = r.amount
    BY <1>2, <1>6 DEF Accept, TypeOK
  <2> QED BY <1>3, <1>4, <2>1 DEF AmountInv
<1> QED BY <1>5, <1>6

LEMMA AmountStep == TypeOK /\ Hazards \subseteq {"repeat"} /\ AmountInv /\ [Next]_vars => AmountInv'
<1> SUFFICES ASSUME TypeOK, Hazards \subseteq {"repeat"}, AmountInv, [Next]_vars PROVE AmountInv'
  OBVIOUS
<1>1. ASSUME transfer' = transfer PROVE AmountInv'
  <2>1. \A s \in Settlements : row'[s].amount = row[s].amount \/ Fresh(s)
    BY AmountsKept
  <2> QED BY <1>1, <2>1 DEF AmountInv, Fresh, NoTransfer
<1>2. ASSUME NEW s \in Settlements, NEW a \in Amounts, request_settlement(s, a) PROVE AmountInv'
  <2> DEFINE r == NewRow("pending", a, "manual")
  <2>1. r \in RowType
    BY AmountAssumption DEF NewRow, RowType, InFlightStatuses
  <2>2. Fresh(s) /\ (disburse_settlement(s, r) \/ UNCHANGED paystack)
    BY <1>2 DEF request_settlement
  <2> HIDE DEF r
  <2> QED BY <1>1, <2>1, <2>2, AmountDisburse DEF paystack
<1>3. ASSUME NEW s \in Settlements, approve_settlement(s) PROVE AmountInv'
  <2>1. row[s] \in RowType /\ disburse_settlement(s, row[s])
    BY <1>3 DEF approve_settlement, TypeOK
  <2> QED BY <2>1, AmountDisburse
<1>4. ASSUME NEW s \in Settlements, send_chunk(s) PROVE AmountInv'
  <2>1. row' = row /\ \A t \in Settlements \ {s} : transfer'[t] = transfer[t]
    BY <1>4 DEF send_chunk, Accept, paystack, TypeOK
  <2>2. transfer'[s] = transfer[s] \/ transfer'[s].amount = row[s].amount
    BY <1>4 DEF send_chunk, Accept, paystack, TypeOK
  <2> QED BY <2>1, <2>2 DEF AmountInv
<1>5. ASSUME NEW s \in Settlements, paystack_resolves(s) PROVE AmountInv'
  <2>1. PICK to \in {"success", "failed"} : Resolve(s, "pending", to)
    BY <1>5 DEF paystack_resolves
  <2>2. transfer[s] \in TransferType /\ transfer \in [Settlements -> TransferType]
    BY DEF TypeOK
  <2>3. /\ row' = row /\ transfer[s].status = "pending"
        /\ transfer' = [transfer EXCEPT ![s] = [transfer[s] EXCEPT !.status = to]]
    BY <2>1 DEF Resolve
  <2>4. [transfer[s] EXCEPT !.status = to].amount = transfer[s].amount
    BY <2>2 DEF TransferType
  <2>5. /\ transfer'[s].amount = transfer[s].amount
        /\ \A t \in Settlements \ {s} : transfer'[t] = transfer[t]
    BY <2>2, <2>3, <2>4
  <2> QED BY <2>3, <2>5 DEF AmountInv
<1>6. ASSUME NEW s \in Settlements,
             \/ cancel_settlement(s) \/ handle_transfer_success(s)
             \/ \E reason \in {"failed", "reversed"} : handle_transfer_failure(s, reason)
             \/ daily_merchant_auto_settlement(s) \/ apply_bulk_transfer_outcomes(s)
             \/ worker_crash(s) \/ reconcile_merchant_settlement_batch(s)
      PROVE  transfer' = transfer
  BY <1>6 DEF cancel_settlement, handle_transfer_success, handle_transfer_failure, Delivered,
     daily_merchant_auto_settlement, apply_bulk_transfer_outcomes, worker_crash,
     reconcile_merchant_settlement_batch, paystack
<1>7. ASSUME NEW s \in Settlements,
             \/ approve_settlement(s) \/ cancel_settlement(s) \/ retry_failed_merchant_settlement(s)
             \/ handle_transfer_success(s)
             \/ \E reason \in {"failed", "reversed"} : handle_transfer_failure(s, reason)
             \/ daily_merchant_auto_settlement(s) \/ send_chunk(s)
             \/ apply_bulk_transfer_outcomes(s) \/ worker_crash(s)
             \/ reconcile_merchant_settlement_batch(s)
             \/ paystack_resolves(s) \/ paystack_reverses(s)
      PROVE  AmountInv'
  <2>1. ~retry_failed_merchant_settlement(s) /\ ~paystack_reverses(s)
    BY DEF retry_failed_merchant_settlement, paystack_reverses
  <2> QED BY <1>1, <1>3, <1>4, <1>5, <1>6, <1>7, <2>1
<1>8. ASSUME NEW s \in Settlements, NEW a \in Amounts,
             request_settlement(s, a) \/ admin_force_settle(s, a)
      PROVE  AmountInv'
  <2>1. ~admin_force_settle(s, a)
    BY DEF admin_force_settle
  <2> QED BY <1>2, <1>8, <2>1
<1>9. ASSUME NEW p \in Payments, payment_success(p) \/ \E plan \in Plans : credit_collection(p, plan)
      PROVE  AmountInv'
  BY <1>1, <1>9 DEF payment_success, credit_collection, paystack
<1>10. ASSUME NEW e \in BOOLEAN, NEW t \in Thresholds, update_settlement_config(e, t)
       PROVE  AmountInv'
  BY <1>1, <1>10 DEF update_settlement_config, paystack
<1>11. ASSUME kyc_changes \/ momo_changes \/ suspend_changes \/ UNCHANGED vars PROVE AmountInv'
  BY <1>1, <1>11 DEF kyc_changes, momo_changes, suspend_changes, vars, paystack
<1> QED BY <1>7, <1>8, <1>9, <1>10, <1>11 DEF Next

LEMMA BacksTransfers ==
  ASSUME TypeOK, NominalInv, BookInv, SpentInv, AmountInv
  PROVE  LedgerBacksTransfers
<1>1. /\ unsettled_balance \in Nat /\ total_settled \in Nat /\ held \in Int /\ credited \in Int
      /\ credited = unsettled_balance + held + total_settled
  BY DEF TypeOK, NominalInv, ExactAccounting
<1>2. LedgerExplainsBalance
  BY <1>1 DEF LedgerExplainsBalance, BookInv, Accounts
<1>3. \A s \in Outgoing :
        /\ s \in Settlements /\ row[s].status \in {"processing", "completed"}
        /\ transfer[s].amount = row[s].amount
  BY DEF Outgoing, NominalInv, SettlementInv, AmountInv
<1> DEFINE f == SentAmounts
           g == SpentOn
           S == Started
           T == Outgoing
<1>4. T \in SUBSET S /\ IsFiniteSet(S)
  BY <1>3 DEF Started, SpentInv
<1>5. \A s \in Settlements : f[s] \in Nat /\ g[s] \in Nat
  BY DEF TypeOK, TransferType, RowType, SentAmounts, SpentOn, Spent
<1>6. \A s \in T : f[s] <= g[s]
  <2> SUFFICES ASSUME NEW s \in Outgoing PROVE SentAmounts[s] <= SpentOn[s]
    OBVIOUS
  <2>1. SentAmounts[s] = row[s].amount /\ SpentOn[s] = row[s].amount /\ row[s].amount \in Nat
    BY <1>3 DEF SentAmounts, SpentOn, Spent, TypeOK, RowType
  <2> QED BY <2>1
<1>7. \A s \in S : f[s] \in Nat /\ g[s] \in Nat
  BY <1>5 DEF Started
<1>8. SumFunctionOnSet(g, S) = held + total_settled
  BY DEF SpentInv
<1>9. T \subseteq S /\ IsFiniteSet(T)
  BY <1>4, FS_Subset
<1>10. NeverOverpays <=> SumFunctionOnSet(f, T) <= credited
  BY DEF NeverOverpays
<1> HIDE DEF f, g, S, T
<1>11. SumFunctionOnSet(f, T) <= SumFunctionOnSet(g, S)
  BY <1>4, <1>6, <1>7, SumMonotonic
<1>12. SumFunctionOnSet(f, T) \in Nat
  <2>1. \A s \in T : f[s] \in Nat
    BY <1>7, <1>9
  <2> QED BY <1>9, <2>1, SumType
<1> QED BY <1>1, <1>2, <1>8, <1>10, <1>11, <1>12 DEF LedgerBacksTransfers

(* When nothing goes wrong the ledger's entries add up to what the merchant still has
   and has on hold, and what left or is leaving through Paystack never exceeds what
   was credited. *)
THEOREM LedgerBacks ==
  ASSUME Hazards \subseteq {"repeat"} PROVE Spec => []LedgerBacksTransfers
<1>1. Init => AmountInv
  BY DEF Init, AmountInv, NoTransfer
<1>2. TypeOK /\ NominalInv /\ BookInv /\ SpentInv /\ AmountInv => LedgerBacksTransfers
  BY BacksTransfers
<1>3. Spec => [](BookInv /\ SpentInv)
  BY TypeCorrect, BookStart, BookStep, SpentStart, SpentStep, PTL DEF Spec
<1>4. Spec => []AmountInv
  BY <1>1, TypeCorrect, AmountStep, PTL DEF Spec
<1> QED BY <1>2, <1>3, <1>4, TypeCorrect, NominalBooks, PTL
===============================================================================
