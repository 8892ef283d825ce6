--------------------------------- MODULE Payroll ---------------------------------
(***************************************************************************)
(* Payroll: the owner's screen, with the employees, the payroll of a month *)
(* and its payslips, and the service that pays them: all that are due in   *)
(* one bulk transfer, or a single one as often as it is asked to.  The     *)
(* screen shows what it last read.  A payment is sent in one step and kept *)
(* by the service in a later one; its answer, and the lists that are read  *)
(* anew then, come after that.  Any other call is one step.                *)
(***************************************************************************)
EXTENDS Integers, FiniteSets, Sequences

CONSTANTS
  Staff,          \* the employees, there or to come
  MaxMonths,      \* bound: months that are paid
  MaxPays,        \* bound: single payments of a payslip
  MaxOrders,      \* bound: calls in flight
  PayrollWorlds   \* how the screen is used

Month == 1..MaxMonths

ASSUME PayrollAssumption ==
  /\ {MaxMonths, MaxPays, MaxOrders} \subseteq Nat /\ IsFiniteSet(Staff)
  /\ PayrollWorlds \subseteq [part: {"team", "payments"}, patient: BOOLEAN, failures: BOOLEAN,
                             hired: SUBSET Staff, months: Month]

VARIABLES
  work,    \* the circumstances of a behaviour
  team,    \* the employees, on the server
  payroll, \* the payslips of every month, and whether the month was paid in bulk
  money,   \* the transfers of every payslip that have left
  desk,    \* the screen
  orders   \* the calls in flight

payrollVars == <<work, team, payroll, money, desk, orders>>

Slips == [Staff -> {"none", "due", "paid"}]
MonthStatus == {"none", "completed", "disbursed"}

\* "stale" are the months whose payslips are read when they are shown next,
\* "entered" is the employee whose fields the form was filled with, "of" the one
\* it is about; "repaid" counts what the owner sent to somebody who was shown as
\* paid, or as skipped.  A call is "open" as long as the service has not kept its
\* payments; its transfers were "sent" when Paystack said so.
PayrollTypeOK ==
  /\ work \in PayrollWorlds
  /\ team \in [Staff -> [state: {"absent", "employed", "left"}, phone: BOOLEAN, entered: SUBSET Staff]]
  /\ payroll \in [Month -> [status: MonthStatus, slips: Slips]]
  /\ money \in [Month -> [Staff -> [bulk: Nat, single: Nat, repaid: Nat]]]
  /\ desk \in [tab: {"team", "history"}, form: {"none", "add", "edit", "month"},
               of: SUBSET Staff, entered: SUBSET Staff, open: 0..MaxMonths, stale: SUBSET Month,
               runs: [Month -> MonthStatus], slips: [Month -> Slips]]
  /\ orders \subseteq [what: {"run", "disburse", "pay", "add", "edit"}, month: 0..MaxMonths,
                       who: SUBSET Staff, ok: BOOLEAN, last: BOOLEAN,
                       open: BOOLEAN, sent: BOOLEAN]

NoSlips == [s \in Staff |-> "none"]

PayrollInit ==
  /\ work \in PayrollWorlds
  /\ \E phones \in SUBSET work.hired :
       team = [s \in Staff |-> [state |-> IF s \in work.hired THEN "employed" ELSE "absent",
                               phone |-> s \in phones, entered |-> {}]]
  /\ payroll = [m \in Month |-> [status |-> "none", slips |-> NoSlips]]
  /\ money = [m \in Month |-> [s \in Staff |-> [bulk |-> 0, single |-> 0, repaid |-> 0]]]
  /\ desk = [tab |-> "team", form |-> "none", of |-> {}, entered |-> {}, open |-> 0, stale |-> Month,
             runs |-> [m \in Month |-> "none"], slips |-> [m \in Month |-> NoSlips]]
  /\ orders = {}

Team == work.part = "team"
Payments == work.part = "payments"
Ordered(what) == \E o \in orders : o.what = what

\* A patient owner waits for the answer and for the lists that are read then.
Reading == desk.open \in desk.stale
Free == work.patient => orders = {} /\ ~Reading
TeamTab == Free /\ desk.tab = "team" /\ desk.form = "none"
HistoryTab == Free /\ desk.tab = "history" /\ desk.form = "none"

Order(what, month, who, ok) ==
  [what |-> what, month |-> month, who |-> who, ok |-> ok, last |-> TRUE,
   open |-> FALSE, sent |-> FALSE]
InHand(order, sent) == [order EXCEPT !.open = TRUE, !.sent = sent]

\* The hook of a mutation knows its last call only: an earlier one that is still
\* in flight is forgotten.
Asks(order) ==
  /\ Cardinality(orders) < MaxOrders
  /\ orders' = {[o EXCEPT !.last = @ /\ o.what # order.what] : o \in orders} \cup {order}

\* The call is answered, or fails at the client, whatever the server does.
Answers == {TRUE} \cup (IF work.failures THEN {FALSE} ELSE {})

-----------------------------------------------------------------------------
(* The service. *)

\* run_payroll: a payslip for everyone who is employed, once for a month.
CanRun(m) == payroll[m].status = "none" /\ \E s \in Staff : team[s].state = "employed"

RunPayroll(m) ==
  payroll' = [payroll EXCEPT
    ![m] = [status |-> "completed",
            slips |-> [s \in Staff |-> IF team[s].state = "employed" THEN "due" ELSE "none"]]]

\* Mutant: payslips that have a payment are paid in bulk, too.
ToBePaid_again(m) == {s \in Staff : payroll[m].slips[s] # "none" /\ team[s].phone}

\* execute_payroll_via_paystack pays what has no payment yet and a number to
\* pay it to.
ToBePaid(m) == {s \in Staff : payroll[m].slips[s] = "due" /\ team[s].phone}

\* The transfers of a month with one more to everyone who is due.
BulkPaid(m, due) ==
  [s \in Staff |-> [money[m][s] EXCEPT !.bulk = @ + IF s \in due THEN 1 ELSE 0]]

\* What a payslip is shown as: one without a payment, in a month that was paid in
\* bulk, is taken for one that was skipped.
PayslipStatus(s) ==
  IF desk.slips[desk.open][s] = "due" /\ desk.runs[desk.open] = "disbursed" THEN "skipped"
  ELSE desk.slips[desk.open][s]

\* The transfers are sent as one: they all leave, or are refused, or they leave
\* and Paystack's reply is lost, which the service takes for a refusal.  A
\* transfer that was made before under the payslip's reference is refused by
\* Paystack, and all of them with it.
Disburse(m, ok) ==
  LET due == ToBePaid(m)
      fresh == \A s \in due : money[m][s].bulk = 0 IN
  IF payroll[m].status = "disbursed" THEN UNCHANGED money /\ Asks(Order("disburse", m, {}, ok))
  ELSE \E heard \in BOOLEAN :
         /\ IF heard THEN fresh ELSE work.failures \/ ~fresh
         /\ \/ fresh /\ money' = [money EXCEPT ![m] = BulkPaid(m, due)]
            \/ ~heard /\ UNCHANGED money
         /\ Asks(InHand(Order("disburse", m, due, ok), heard /\ due # {}))

\* pay_single_payslip: whatever was paid before, the transfer has a reference of
\* its own.
PayPayslip(m, s, ok) ==
  /\ money[m][s].single < MaxPays
  /\ money' = [money EXCEPT ![m][s].single = @ + 1,
                            ![m][s].repaid = @ + IF PayslipStatus(s) = "due" THEN 0 ELSE 1]
  /\ Asks(InHand(Order("pay", m, {s}, ok), FALSE))

\* What the service keeps of the payments of a call: the payslips have them,
\* also when a bulk transfer was refused; the month is disbursed if it was sent.
\* Or the service stops, and keeps nothing.
PaymentsKept ==
  \E o \in orders :
    /\ o.open
    /\ \/ /\ payroll' = [payroll EXCEPT
               ![o.month] = [status |-> IF o.sent THEN "disbursed" ELSE @.status,
                             slips |-> [s \in Staff |-> IF s \in o.who THEN "paid" ELSE @.slips[s]]]]
          /\ orders' = (orders \ {o}) \cup {[o EXCEPT !.open = FALSE]}
       \/ /\ work.failures /\ UNCHANGED payroll
          /\ orders' = (orders \ {o}) \cup {[o EXCEPT !.open = FALSE, !.ok = FALSE]}
    /\ UNCHANGED <<work, team, money, desk>>

-----------------------------------------------------------------------------
(* The employees. *)

AddEmployeeForm ==
  /\ Team /\ TeamTab
  /\ desk' = [desk EXCEPT !.form = "add"]
  /\ UNCHANGED <<work, team, payroll, money, orders>>

\* The list of the employees holds those who have left, too.
Listed(s) == team[s].state # "absent"

\* openEdit: the fields hold what is known of the employee.
OpenEdit ==
  /\ Team /\ TeamTab
  /\ \E s \in Staff :
       Listed(s) /\ desk' = [desk EXCEPT !.form = "edit", !.of = {s}, !.entered = {s}]
  /\ UNCHANGED <<work, team, payroll, money, orders>>

AddFormShown == Team /\ desk.form = "add"
EditFormShown == Team /\ desk.form = "edit"

CloseForm ==
  /\ AddFormShown \/ EditFormShown
  /\ desk' = [desk EXCEPT !.form = "none", !.of = {}]
  /\ UNCHANGED <<work, team, payroll, money, orders>>

AddEmployee ==
  /\ AddFormShown /\ ~Ordered("add")
  /\ \E s \in Staff, phone \in BOOLEAN, ok \in Answers :
       /\ team[s].state = "absent"
       /\ team' = [team EXCEPT ![s] = [state |-> "employed", phone |-> phone, entered |-> {s}]]
       /\ Asks(Order("add", 0, {s}, ok))
  /\ UNCHANGED <<work, payroll, money, desk>>

\* An update of the employee whose form it is.
Update(changed) ==
  /\ EditFormShown
  /\ \E s \in desk.of, ok \in Answers :
       team' = [team EXCEPT ![s] = changed[s]] /\ Asks(Order("edit", 0, {s}, ok))
  /\ UNCHANGED <<work, payroll, money, desk>>

\* handleSaveEdit: an empty number leaves the one that is known.
SaveEdit ==
  /\ ~Ordered("edit")
  /\ \E phone \in BOOLEAN :
       Update([s \in Staff |-> [team[s] EXCEPT !.phone = @ \/ phone, !.entered = desk.entered]])

\* Offered while the employee is being saved, too.
Deactivate == Update([s \in Staff |-> [team[s] EXCEPT !.state = "left"]])

\* The form closes; the answer to an edit closes that of any employee.
EmployeeSaved ==
  \E o \in orders :
    /\ o.what \in {"add", "edit"}
    /\ orders' = orders \ {o}
    /\ desk' = IF o.ok /\ o.last /\ desk.form = o.what THEN [desk EXCEPT !.form = "none", !.of = {}]
               ELSE desk
    /\ UNCHANGED <<work, team, payroll, money>>

-----------------------------------------------------------------------------
(* The payroll of a month. *)

OpenTab(tab) ==
  /\ Free /\ desk.form = "none" /\ desk.tab # tab
  /\ desk' = [desk EXCEPT !.tab = tab]
  /\ UNCHANGED <<work, team, payroll, money, orders>>

OpenPicker ==
  /\ Payments /\ Free /\ desk.form = "none" /\ ~Ordered("run")
  /\ \E s \in Staff : Listed(s)
  /\ desk' = [desk EXCEPT !.form = "month"]
  /\ UNCHANGED <<work, team, payroll, money, orders>>

PickerShown == Payments /\ desk.form = "month"

ClosePicker ==
  /\ PickerShown
  /\ desk' = [desk EXCEPT !.form = "none"]
  /\ UNCHANGED <<work, team, payroll, money, orders>>

\* handleRunPayroll: a month is chosen and confirmed.
ConfirmRun ==
  /\ PickerShown /\ ~Ordered("run")
  /\ \E m \in 1..work.months, ok \in Answers :
       /\ IF CanRun(m) THEN RunPayroll(m) /\ Asks(Order("run", m, {}, ok))
          ELSE UNCHANGED payroll /\ Asks(Order("run", m, {}, FALSE))
  /\ UNCHANGED <<work, team, money, desk>>

\* What the list of the months shows; the latest of them has the button.
Latest(m) == desk.runs[m] # "none" /\ \A n \in Month : n > m => desk.runs[n] = "none"

DisburseOffered(m) == TeamTab /\ Latest(m) /\ desk.runs[m] = "completed" /\ ~Ordered("disburse")

ConfirmDisburse ==
  /\ Payments
  /\ \E m \in Month, ok \in Answers :
       DisburseOffered(m) /\ Disburse(m, ok)
  /\ UNCHANGED <<work, team, payroll, desk>>

\* toggleExpand: the payslips of a month are shown as they were last read, and are
\* read anew when that is more than a minute ago.
ExpandRun ==
  /\ Payments /\ HistoryTab
  /\ \E m \in Month :
       /\ desk.runs[m] # "none" /\ m # desk.open
       /\ \E old \in SUBSET {m} : desk' = [desk EXCEPT !.open = m, !.stale = @ \cup old]
  /\ UNCHANGED <<work, team, payroll, money, orders>>

CollapseRun ==
  /\ Payments /\ HistoryTab /\ desk.open # 0
  /\ desk' = [desk EXCEPT !.open = 0]
  /\ UNCHANGED <<work, team, payroll, money, orders>>

\* The button of a payslip; it waits for the last payment that was sent, if that
\* is its own.
PayOffered(s) ==
  /\ Payments /\ HistoryTab /\ desk.open # 0 /\ desk.slips[desk.open][s] # "none"
  /\ ~ \E o \in orders : o.what = "pay" /\ o.last /\ o.month = desk.open /\ o.who = {s}

\* Pay now, or Repay; the call may fail before anything leaves.
ConfirmPay ==
  \E s \in Staff, ok \in Answers :
    /\ PayOffered(s) /\ team[s].phone
    /\ \/ PayPayslip(desk.open, s, ok)
       \/ work.failures /\ UNCHANGED money /\ Asks(Order("pay", desk.open, {s}, FALSE))
    /\ UNCHANGED <<work, team, payroll, desk>>

\* What the owner is told does not depend on how many transfers were sent.  An
\* answer has the months read anew; that of a payment the payslips, too, and
\* until they are there the old ones are shown.
Answered ==
  \E o \in orders :
    /\ o.what \in {"run", "disburse", "pay"} /\ ~o.open
    /\ orders' = orders \ {o}
    /\ desk' = [desk EXCEPT !.form = IF o.ok /\ o.what = "run" /\ @ = "month" THEN "none" ELSE @,
                            !.runs = IF o.ok THEN [m \in Month |-> payroll[m].status] ELSE @,
                            !.stale = IF o.ok /\ o.what = "pay" THEN Month ELSE @]
    /\ UNCHANGED <<work, team, payroll, money>>

SlipsRead ==
  /\ Reading
  /\ desk' = [desk EXCEPT !.stale = @ \ {desk.open}, !.slips[desk.open] = payroll[desk.open].slips]
  /\ UNCHANGED <<work, team, payroll, money, orders>>

-----------------------------------------------------------------------------

TeamNext ==
  AddEmployeeForm \/ OpenEdit \/ CloseForm \/ AddEmployee \/ SaveEdit \/ Deactivate \/ EmployeeSaved

PaymentsNext ==
  \/ OpenPicker \/ ClosePicker \/ ConfirmRun \/ ConfirmDisburse \/ ExpandRun \/ CollapseRun
  \/ ConfirmPay \/ PaymentsKept \/ Answered \/ SlipsRead
  \/ Payments /\ \E tab \in {"team", "history"} : OpenTab(tab)

PayrollNext == TeamNext \/ PaymentsNext

PayrollSpec == PayrollInit /\ [][PayrollNext]_payrollVars

-----------------------------------------------------------------------------
(* Properties. *)

\* As long as no call fails, what has no payment at the service was not paid:
\* every transfer is kept, or is of a call that is still at work.
DueIsUnpaid ==
  ~work.failures =>
    \A m \in Month, s \in Staff :
      payroll[m].slips[s] = "due" /\ money[m][s].bulk + money[m][s].single > 0 =>
        \E o \in orders : o.open /\ o.month = m /\ s \in o.who

\* A patient owner, who pays in bulk and one by one in any order, pays nobody
\* twice without having sent money to somebody who was shown as paid or skipped.
RepaidOnPurpose ==
  work.patient /\ ~work.failures =>
    \A m \in Month, s \in Staff :
      money[m][s].bulk + money[m][s].single <= 1 + money[m][s].repaid

\* What is saved of an employee was shown in the form as that employee's.
OwnDetailsSaved == \A s \in Staff : team[s].entered \subseteq {s}

\* Bulk and single payments do not meet unless the owner asks for it, and an
\* employee's wallet is the one that was entered as that employee's.
PaidAsAsked == DueIsUnpaid /\ RepaidOnPurpose /\ OwnDetailsSaved
=============================================================================
