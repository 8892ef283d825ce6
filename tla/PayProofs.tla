-------------------------------- MODULE PayProofs --------------------------------
(***************************************************************************)
(* Proofs about the screens that pay, and about the desks that lend and    *)
(* sign up: the payroll, for any staff and any number of months, payments  *)
(* and orders, the wallet, for any numbers, amounts and bounds, the plan,  *)
(* for any periods, charges and nights, the lender's page, for every set   *)
(* of loans, however they are spread over the pages, and the field agent's *)
(* onboarding of traders, for any finite sets of traders and names, and    *)
(* any number of attempts.                                                 *)
(***************************************************************************)
EXTENDS Payroll, WalletScreen, Billing, LenderDesk, AgentOnboard, FiniteSetTheorems, TLAPS

-----------------------------------------------------------------------------
(* The payroll screen. *)

PaySum == [bulk: Nat, single: Nat, repaid: Nat]
Money == [Month -> [Staff -> PaySum]]
Employee == [state: {"absent", "employed", "left"}, phone: BOOLEAN, entered: SUBSET Staff]
MonthPay == [status: MonthStatus, slips: Slips]
Desk == [tab: {"team", "history"}, form: {"none", "add", "edit", "month"},
         of: SUBSET Staff, entered: SUBSET Staff, open: 0..MaxMonths, stale: SUBSET Month,
         runs: [Month -> MonthStatus], slips: [Month -> Slips]]
Call == [what: {"run", "disburse", "pay", "add", "edit"}, month: 0..MaxMonths,
         who: SUBSET Staff, ok: BOOLEAN, last: BOOLEAN, open: BOOLEAN, sent: BOOLEAN]

PayrollTypes ==
  /\ work \in PayrollWorlds
  /\ team \in [Staff -> Employee]
  /\ payroll \in [Month -> MonthPay]
  /\ money \in Money /\ desk \in Desk /\ orders \subseteq Call

\* The fields of the form hold what is known of the employee it is about.
FormIsOfOne == \A s \in desk.of : desk.entered \subseteq {s}

Paying == {"disburse", "pay"}

\* A call that is sending this payslip, in bulk or singly.
BulkOf(o, m, s) == o.what = "disburse" /\ o.open /\ o.sent /\ o.month = m /\ s \in o.who
SingleOf(o, m, s) == o.what = "pay" /\ o.open /\ o.month = m /\ s \in o.who

KeptOrAtWork ==
  \A m \in Month, s \in Staff : payroll[m].slips[s] = "due" =>
    /\ money[m][s].bulk > 0 => \E o \in orders : BulkOf(o, m, s)
    /\ money[m][s].single > 0 => \E o \in orders : SingleOf(o, m, s)

NothingBeforeRun ==
  \A m \in Month, s \in Staff : payroll[m].status = "none" =>
    payroll[m].slips[s] = "none" /\ money[m][s].bulk = 0 /\ money[m][s].single = 0

CallsAtWork ==
  \A o \in orders :
    /\ o.open => o.what \in Paying /\ o.month \in Month
    /\ o.open => o.who = {} \/ payroll[o.month].status # "none"
    /\ o.what \in Paying => o.ok

ShownWasRun ==
  /\ \A m \in Month, s \in Staff : desk.slips[m][s] # "none" => payroll[m].status # "none"
  /\ \A m \in Month : desk.runs[m] = "disbursed" => payroll[m].status = "disbursed"

\* What holds as long as no call fails.
SteadyService == KeptOrAtWork /\ NothingBeforeRun /\ CallsAtWork /\ ShownWasRun

\* A bulk transfer of the month was sent, and the screen does not know yet.
BulkUnknown(m) ==
  \E o \in orders : o.what = "disburse" /\ o.month = m
                    /\ ((o.open /\ o.sent) \/ payroll[m].status = "disbursed")

\* Who is shown as due, in a list that is not read anew, was sent nothing, but by
\* a call whose answer will change what is shown.
ShownDueIsUnpaid ==
  \A m \in Month \ desk.stale, s \in Staff :
    /\ desk.slips[m][s] = "due" /\ desk.runs[m] # "disbursed"
    /\ money[m][s].bulk + money[m][s].single > 0
    => Ordered("pay") \/ BulkUnknown(m)

PaidOnceOrRepaid ==
  \A m \in Month, s \in Staff : money[m][s].bulk + money[m][s].single <= 1 + money[m][s].repaid

PatientOwner == ShownDueIsUnpaid /\ PaidOnceOrRepaid

PayInv ==
  /\ PayrollTypes /\ OwnDetailsSaved /\ FormIsOfOne
  /\ ~work.failures => SteadyService
  /\ work.patient /\ ~work.failures => PatientOwner

-----------------------------------------------------------------------------
\* Calls that differ at most in whether they are the last of their kind.
Alike(o, q) == /\ o.what = q.what /\ o.month = q.month /\ o.who = q.who
               /\ o.ok = q.ok /\ o.open = q.open /\ o.sent = q.sent

\* A call that is sent joins those in flight, which change nothing but whether
\* they are the last of their kind.
LEMMA AskedCalls ==
  ASSUME orders \subseteq Call, NEW order \in Call, Asks(order)
  PROVE  /\ orders' \subseteq Call
         /\ order \in orders'
         /\ \A o \in orders' : o = order \/ \E q \in orders : Alike(o, q)
         /\ \A q \in orders : \E o \in orders' : Alike(o, q)
<1> DEFINE Aged(o) == [o EXCEPT !.last = @ /\ o.what # order.what]
<1>1. orders' = {Aged(o) : o \in orders} \cup {order}
  BY DEF Asks
<1>2. \A o \in orders : Aged(o) \in Call /\ Alike(Aged(o), o)
  BY DEF Call, Alike
<1> HIDE DEF Aged
<1> QED BY <1>1, <1>2

LEMMA OrderType ==
  ASSUME NEW what \in {"run", "disburse", "pay", "add", "edit"}, NEW month \in 0..MaxMonths,
         NEW who \in SUBSET Staff, NEW ok \in BOOLEAN
  PROVE  /\ Order(what, month, who, ok) \in Call
         /\ Order(what, month, who, ok).what = what /\ Order(what, month, who, ok).ok = ok
         /\ Order(what, month, who, ok).month = month /\ Order(what, month, who, ok).who = who
         /\ ~Order(what, month, who, ok).open
BY DEF Order, Call

LEMMA InHandType ==
  ASSUME NEW o \in Call, NEW left \in BOOLEAN
  PROVE  /\ InHand(o, left) \in Call
         /\ InHand(o, left).what = o.what /\ InHand(o, left).ok = o.ok
         /\ InHand(o, left).month = o.month /\ InHand(o, left).who = o.who
         /\ InHand(o, left).open /\ InHand(o, left).sent = left
<1>1. InHand(o, left) = [o EXCEPT !.open = TRUE, !.sent = left]
  BY DEF InHand
<1>2. CASE left = TRUE
  BY <1>1, <1>2 DEF Call
<1>3. CASE left = FALSE
  BY <1>1, <1>3 DEF Call
<1> QED BY <1>2, <1>3

LEMMA AnswersType == /\ Answers \subseteq BOOLEAN
                     /\ ~work.failures => Answers = {TRUE}
BY DEF Answers

\* What an update of one row leaves.
LEMMA RowUpdated ==
  ASSUME NEW I, NEW R, NEW f \in [I -> R], NEW i \in I, NEW r \in R
  PROVE  /\ [f EXCEPT ![i] = r] \in [I -> R] /\ [f EXCEPT ![i] = r][i] = r
         /\ \A j \in I : j # i => [f EXCEPT ![i] = r][j] = f[j]
OBVIOUS

\* What a single payment does to the transfers.
LEMMA PaidSingly ==
  ASSUME money \in Money, NEW m \in Month, NEW s \in Staff, NEW d \in Nat,
         money' = [money EXCEPT ![m][s].single = @ + 1, ![m][s].repaid = @ + d]
  PROVE  /\ money' \in Money
         /\ money'[m][s].single = money[m][s].single + 1
         /\ money'[m][s].repaid = money[m][s].repaid + d
         /\ money'[m][s].bulk = money[m][s].bulk
         /\ \A n \in Month, t \in Staff : n # m \/ t # s => money'[n][t] = money[n][t]
<1>1. money[m] \in [Staff -> PaySum] /\ money[m][s] \in PaySum
  BY DEF Money
<1> DEFINE one == [money[m][s] EXCEPT !.single = money[m][s].single + 1]
           two == [one EXCEPT !.repaid = one.repaid + d]
           mid == [money EXCEPT ![m][s].single = money[m][s].single + 1]
<1>2. one \in PaySum /\ one.single = money[m][s].single + 1 /\ one.repaid = money[m][s].repaid
      /\ one.bulk = money[m][s].bulk
  BY <1>1 DEF PaySum
<1>3. mid = [money EXCEPT ![m] = [money[m] EXCEPT ![s] = one]]
  OBVIOUS
<1>4. money' = [mid EXCEPT ![m][s].repaid = money[m][s].repaid + d]
  OBVIOUS
<1> HIDE DEF one, mid
<1>5. mid \in Money /\ mid[m] \in [Staff -> PaySum] /\ mid[m][s] = one
      /\ \A n \in Month, t \in Staff : n # m \/ t # s => mid[n][t] = money[n][t]
  BY <1>1, <1>2, <1>3 DEF Money
<1>6. two \in PaySum /\ two.single = one.single /\ two.repaid = money[m][s].repaid + d
      /\ two.bulk = one.bulk
  BY <1>1, <1>2 DEF PaySum
<1>7. money' = [mid EXCEPT ![m] = [mid[m] EXCEPT ![s] = two]]
  BY <1>2, <1>4, <1>5
<1> HIDE DEF two
<1> DEFINE row == [mid[m] EXCEPT ![s] = two]
<1>8. /\ row \in [Staff -> PaySum] /\ row[s] = two
      /\ \A t \in Staff : t # s => row[t] = mid[m][t]
  BY <1>5, <1>6
<1>9. money' = [mid EXCEPT ![m] = row]
  BY <1>7
<1> HIDE DEF row
<1>10. /\ money' \in Money /\ money'[m] = row
       /\ \A n \in Month : n # m => money'[n] = mid[n]
  <2> DEFINE R == [Staff -> PaySum]
  <2>1. mid \in [Month -> R] /\ row \in R /\ Money = [Month -> R]
    BY <1>5, <1>8 DEF Money
  <2> HIDE DEF R
  <2>2. /\ [mid EXCEPT ![m] = row] \in [Month -> R] /\ [mid EXCEPT ![m] = row][m] = row
        /\ \A n \in Month : n # m => [mid EXCEPT ![m] = row][n] = mid[n]
    BY ONLY <2>1, m \in Month, RowUpdated
  <2> QED BY ONLY <2>1, <2>2, <1>9
<1>11. ASSUME NEW n \in Month, NEW t \in Staff, n # m \/ t # s
       PROVE  money'[n][t] = money[n][t]
  <2>1. CASE n # m
    BY <1>5, <1>10, <2>1
  <2>2. CASE n = m
    BY <1>5, <1>8, <1>10, <1>11, <2>2
  <2> QED BY <2>1, <2>2
<1> QED BY <1>2, <1>6, <1>8, <1>10, <1>11

\* What a bulk transfer does to them.
LEMMA PaidInBulk ==
  ASSUME money \in Money, NEW m \in Month, NEW due \in SUBSET Staff,
         money' = [money EXCEPT ![m] = BulkPaid(m, due)]
  PROVE  /\ money' \in Money
         /\ \A n \in Month, s \in Staff :
              /\ money'[n][s].single = money[n][s].single
              /\ money'[n][s].repaid = money[n][s].repaid
              /\ money'[n][s].bulk = money[n][s].bulk + IF n = m /\ s \in due THEN 1 ELSE 0
<1>1. money[m] \in [Staff -> PaySum]
  BY DEF Money
<1>2. \A s \in Staff :
        /\ BulkPaid(m, due)[s] \in PaySum /\ BulkPaid(m, due)[s].single = money[m][s].single
        /\ BulkPaid(m, due)[s].repaid = money[m][s].repaid
        /\ BulkPaid(m, due)[s].bulk = money[m][s].bulk + IF s \in due THEN 1 ELSE 0
  BY <1>1 DEF BulkPaid, PaySum
<1>3. BulkPaid(m, due) \in [Staff -> PaySum]
  BY <1>2 DEF BulkPaid
<1>4. \A n \in Month, s \in Staff : money[n][s] \in PaySum /\ money[n][s].bulk \in Nat
  BY DEF Money, PaySum
<1>5. money' \in Money
  BY <1>3 DEF Money
<1>6. \A n \in Month, s \in Staff : money'[n][s] = IF n = m THEN BulkPaid(m, due)[s] ELSE money[n][s]
  BY DEF Money
<1> QED BY <1>2, <1>4, <1>5, <1>6

-----------------------------------------------------------------------------
\* Steps of the screen and of the employees, which neither pay nor read payslips.
LEMMA ScreenKeeps ==
  ASSUME PayInv, UNCHANGED <<work, payroll, money>>,
         team' \in [Staff -> Employee], OwnDetailsSaved',
         desk' \in Desk, FormIsOfOne', desk'.slips = desk.slips, desk'.runs = desk.runs,
         desk.stale \subseteq desk'.stale, orders' \subseteq Call,
         \A o \in orders' : (~o.open /\ o.what \notin Paying) \/ \E q \in orders : Alike(o, q),
         \A q \in orders : q.what \in Paying => \E o \in orders' : Alike(o, q)
  PROVE  PayInv'
<1>1. PayrollTypes'
  BY DEF PayInv, PayrollTypes
<1>2. ASSUME ~work.failures PROVE SteadyService'
  <2>1. KeptOrAtWork /\ NothingBeforeRun /\ CallsAtWork /\ ShownWasRun
    BY <1>2 DEF PayInv, SteadyService
  <2>2. ASSUME NEW m \in Month, NEW s \in Staff, payroll[m].slips[s] = "due"
        PROVE  /\ money[m][s].bulk > 0 => \E o \in orders' : BulkOf(o, m, s)
               /\ money[m][s].single > 0 => \E o \in orders' : SingleOf(o, m, s)
    <3>1. /\ money[m][s].bulk > 0 => \E q \in orders : BulkOf(q, m, s)
          /\ money[m][s].single > 0 => \E q \in orders : SingleOf(q, m, s)
      BY <2>1, <2>2 DEF KeptOrAtWork
    <3> QED BY <3>1 DEF BulkOf, SingleOf, Alike, Paying
  <2>3. KeptOrAtWork'
    BY <2>2 DEF KeptOrAtWork
  <2>4. CallsAtWork'
    BY <2>1 DEF CallsAtWork, Alike
  <2>5. NothingBeforeRun' /\ ShownWasRun'
    BY <2>1 DEF NothingBeforeRun, ShownWasRun
  <2> QED BY <2>3, <2>4, <2>5 DEF SteadyService
<1>3. ASSUME work.patient /\ ~work.failures PROVE PatientOwner'
  <2>1. ShownDueIsUnpaid /\ PaidOnceOrRepaid
    BY <1>3 DEF PayInv, PatientOwner
  <2>2. Ordered("pay") => Ordered("pay")'
    BY DEF Ordered, Alike, Paying
  <2>3. \A m \in Month : BulkUnknown(m) => BulkUnknown(m)'
    BY DEF BulkUnknown, Alike, Paying
  <2>4. ShownDueIsUnpaid'
    BY <2>1, <2>2, <2>3 DEF ShownDueIsUnpaid
  <2> QED BY <2>1, <2>4 DEF PatientOwner, PaidOnceOrRepaid
<1> QED BY <1>1, <1>2, <1>3 DEF PayInv

LEMMA RunKeeps ==
  ASSUME PayInv, NEW m \in Month, NEW ok \in Answers,
         CanRun(m), RunPayroll(m), Asks(Order("run", m, {}, ok)),
         UNCHANGED <<work, team, money, desk>>
  PROVE  PayInv'
<1> DEFINE new == [s \in Staff |-> IF team[s].state = "employed" THEN "due" ELSE "none"]
<1>1. /\ payroll' \in [Month -> MonthPay]
      /\ payroll'[m].status = "completed"
      /\ \A n \in Month : n # m => payroll'[n] = payroll[n]
  <2>1. new \in Slips
    BY DEF Slips
  <2>2. payroll' = [payroll EXCEPT ![m] = [status |-> "completed", slips |-> new]]
    BY DEF RunPayroll
  <2> HIDE DEF new
  <2> QED BY <2>1, <2>2 DEF PayInv, PayrollTypes, MonthStatus, MonthPay
<1> HIDE DEF new
<1>2. /\ orders' \subseteq Call
      /\ \A o \in orders' : (~o.open /\ o.what \notin Paying) \/ \E q \in orders : Alike(o, q)
      /\ \A q \in orders : \E o \in orders' : Alike(o, q)
  <2>1. /\ Order("run", m, {}, ok) \in Call /\ Order("run", m, {}, ok).what = "run"
        /\ ~Order("run", m, {}, ok).open
    BY OrderType, AnswersType, PayrollAssumption DEF Month
  <2> QED BY <2>1, AskedCalls DEF PayInv, PayrollTypes, Paying
<1>3. PayrollTypes' /\ OwnDetailsSaved' /\ FormIsOfOne'
  BY <1>1, <1>2 DEF PayInv, PayrollTypes, OwnDetailsSaved, FormIsOfOne
<1>4. payroll[m].status = "none"
  BY DEF CanRun
<1>5. ASSUME ~work.failures PROVE SteadyService'
  <2>1. KeptOrAtWork /\ NothingBeforeRun /\ CallsAtWork /\ ShownWasRun
    BY <1>5 DEF PayInv, SteadyService
  <2>2. ASSUME NEW n \in Month, NEW s \in Staff, payroll'[n].slips[s] = "due"
        PROVE  /\ money[n][s].bulk > 0 => \E o \in orders' : BulkOf(o, n, s)
               /\ money[n][s].single > 0 => \E o \in orders' : SingleOf(o, n, s)
    <3>1. CASE n = m
      BY <2>1, <1>4, <3>1 DEF NothingBeforeRun
    <3>2. CASE n # m
      <4>1. payroll[n].slips[s] = "due"
        BY <1>1, <2>2, <3>2
      <4>2. /\ money[n][s].bulk > 0 => \E q \in orders : BulkOf(q, n, s)
            /\ money[n][s].single > 0 => \E q \in orders : SingleOf(q, n, s)
        BY <2>1, <4>1 DEF KeptOrAtWork
      <4> QED BY <4>2, <1>2 DEF BulkOf, SingleOf, Alike
    <3> QED BY <3>1, <3>2
  <2>3. KeptOrAtWork'
    BY <2>2 DEF KeptOrAtWork
  <2>4. \A n \in Month : payroll'[n].status = "none" => payroll'[n] = payroll[n]
    BY <1>1
  <2>5. NothingBeforeRun'
    BY <2>1, <2>4 DEF NothingBeforeRun
  <2>6. \A n \in Month : /\ payroll[n].status # "none" => payroll'[n].status # "none"
                         /\ payroll[n].status = "disbursed" => payroll'[n].status = "disbursed"
    BY <1>1, <1>4
  <2>7. CallsAtWork'
    BY <2>1, <1>2, <2>6 DEF CallsAtWork, Alike
  <2>8. ShownWasRun'
    BY <2>1, <2>6 DEF ShownWasRun
  <2> QED BY <2>3, <2>5, <2>7, <2>8 DEF SteadyService
<1>6. ASSUME work.patient /\ ~work.failures PROVE PatientOwner'
  <2>1. ShownDueIsUnpaid /\ PaidOnceOrRepaid
    BY <1>6 DEF PayInv, PatientOwner
  <2>2. Ordered("pay") => Ordered("pay")'
    BY <1>2 DEF Ordered, Alike
  <2>3. ASSUME NEW n \in Month, BulkUnknown(n) PROVE BulkUnknown(n)'
    <3>1. payroll[n].status = "disbursed" => payroll'[n].status = "disbursed"
      BY <1>1, <1>4
    <3> QED BY <2>3, <3>1, <1>2 DEF BulkUnknown, Alike
  <2>4. ShownDueIsUnpaid'
    BY <2>1, <2>2, <2>3 DEF ShownDueIsUnpaid
  <2> QED BY <2>1, <2>4 DEF PatientOwner, PaidOnceOrRepaid
<1> QED BY <1>3, <1>5, <1>6, UNCHANGED work DEF PayInv

\* A bulk transfer is sent: to nobody who was sent anything, if the owner is patient.
LEMMA DisburseKeeps ==
  ASSUME PayInv, NEW m \in Month, NEW ok \in Answers,
         DisburseOffered(m), Disburse(m, ok),
         UNCHANGED <<work, team, payroll, desk>>
  PROVE  PayInv'
<1> DEFINE due == ToBePaid(m)
           fresh == \A s \in due : money[m][s].bulk = 0
           leave == money' = [money EXCEPT ![m] = BulkPaid(m, due)]
<1>1. due \in SUBSET Staff /\ \A s \in due : payroll[m].slips[s] = "due"
  BY DEF ToBePaid
<1>2. PICK order \in Call :
        /\ Asks(order)
        /\ order.what = "disburse" /\ order.month = m /\ order.ok = ok
        /\ order.open => order.who = due
        /\ \/ UNCHANGED money
           \/ fresh /\ leave /\ order.open /\ (order.sent \/ work.failures \/ due = {})
  <2>1. m \in 0..MaxMonths /\ ok \in BOOLEAN
    BY AnswersType, PayrollAssumption DEF Month
  <2>2. CASE payroll[m].status = "disbursed"
    <3> DEFINE order == Order("disburse", m, {}, ok)
    <3>1. Asks(order) /\ UNCHANGED money
      BY <2>2 DEF Disburse
    <3>2. order \in Call /\ order.what = "disburse" /\ order.month = m /\ order.ok = ok /\ ~order.open
      BY <2>1, OrderType
    <3> QED BY <3>1, <3>2
  <2>3. CASE payroll[m].status # "disbursed"
    <3>1. PICK heard \in BOOLEAN :
            /\ IF heard THEN fresh ELSE work.failures \/ ~fresh
            /\ \/ fresh /\ leave
               \/ ~heard /\ UNCHANGED money
            /\ Asks(InHand(Order("disburse", m, due, ok), heard /\ due # {}))
      BY <2>3 DEF Disburse
    <3> DEFINE told == heard /\ due # {}
               base == Order("disburse", m, due, ok)
               order == InHand(base, told)
    <3>2. told \in BOOLEAN
      OBVIOUS
    <3>3. base \in Call /\ base.what = "disburse" /\ base.month = m /\ base.ok = ok /\ base.who = due
      BY <1>1, <2>1, OrderType
    <3> HIDE DEF base, told
    <3>4. /\ order \in Call /\ order.what = "disburse" /\ order.month = m /\ order.ok = ok
          /\ order.who = due /\ order.open /\ order.sent = told
      BY <3>2, <3>3, InHandType
    <3>5. Asks(order)
      BY <3>1 DEF base, told
    <3> HIDE DEF order
    <3>6. UNCHANGED money \/ (fresh /\ leave /\ (order.sent \/ work.failures \/ due = {}))
      BY <3>1, <3>4 DEF told
    <3> HIDE DEF due
    <3> QED BY <3>4, <3>5, <3>6
  <2> QED BY <2>2, <2>3
<1> HIDE DEF due
<1>3. /\ orders' \subseteq Call /\ order \in orders'
      /\ \A o \in orders' : o = order \/ \E q \in orders : Alike(o, q)
      /\ \A q \in orders : \E o \in orders' : Alike(o, q)
  BY <1>2, AskedCalls DEF PayInv, PayrollTypes
<1>4. /\ money' \in Money
      /\ \A n \in Month, s \in Staff :
           /\ money'[n][s].single = money[n][s].single
           /\ money'[n][s].repaid = money[n][s].repaid
           /\ \/ money'[n][s].bulk = money[n][s].bulk
              \/ /\ money'[n][s].bulk = money[n][s].bulk + 1
                 /\ n = m /\ s \in due /\ order.open /\ (order.sent \/ work.failures)
  <2>1. CASE UNCHANGED money
    BY <2>1 DEF PayInv, PayrollTypes
  <2>2. CASE leave /\ order.open /\ (order.sent \/ work.failures \/ due = {})
    <3>1. /\ money' \in Money
          /\ \A n \in Month, s \in Staff :
               /\ money'[n][s].single = money[n][s].single
               /\ money'[n][s].repaid = money[n][s].repaid
               /\ money'[n][s].bulk = money[n][s].bulk + IF n = m /\ s \in due THEN 1 ELSE 0
      <4>1. money \in Money /\ money' = [money EXCEPT ![m] = BulkPaid(m, due)]
        BY <2>2 DEF PayInv, PayrollTypes
      <4>2. due \in SUBSET Staff
        BY <1>1
      <4> QED BY <4>1, <4>2, PaidInBulk
    <3>2. \A n \in Month, s \in Staff : money[n][s].bulk \in Nat
      BY DEF PayInv, PayrollTypes, Money, PaySum
    <3> QED BY <3>1, <3>2, <2>2
  <2> QED BY <1>2, <2>1, <2>2
<1>5. PayrollTypes' /\ OwnDetailsSaved' /\ FormIsOfOne'
  BY <1>3, <1>4 DEF PayInv, PayrollTypes, OwnDetailsSaved, FormIsOfOne
<1>6. ASSUME ~work.failures PROVE SteadyService'
  <2>1. KeptOrAtWork /\ NothingBeforeRun /\ CallsAtWork /\ ShownWasRun
    BY <1>6 DEF PayInv, SteadyService
  <2>2. ASSUME NEW n \in Month, NEW s \in Staff, payroll[n].slips[s] = "due"
        PROVE  /\ money'[n][s].bulk > 0 => \E o \in orders' : BulkOf(o, n, s)
               /\ money'[n][s].single > 0 => \E o \in orders' : SingleOf(o, n, s)
    <3>1. /\ money[n][s].bulk > 0 => \E q \in orders : BulkOf(q, n, s)
          /\ money[n][s].single > 0 => \E q \in orders : SingleOf(q, n, s)
      BY <2>1, <2>2 DEF KeptOrAtWork
    <3>2. /\ money[n][s].bulk > 0 => \E o \in orders' : BulkOf(o, n, s)
          /\ money[n][s].single > 0 => \E o \in orders' : SingleOf(o, n, s)
      BY <3>1, <1>3 DEF BulkOf, SingleOf, Alike
    <3>3. n = m /\ s \in due /\ order.open /\ order.sent => BulkOf(order, n, s)
      BY <1>2 DEF BulkOf
    <3> QED BY <3>2, <3>3, <1>3, <1>4, <1>6
  <2>3. KeptOrAtWork'
    BY <2>2 DEF KeptOrAtWork
  <2>4. \A s \in due : payroll[m].status # "none"
    BY <2>1, <1>1 DEF NothingBeforeRun
  <2>5. NothingBeforeRun'
    BY <2>1, <2>4, <1>4 DEF NothingBeforeRun
  <2>6. CallsAtWork'
    <3>1. order.ok /\ order.what \in Paying /\ order.month \in Month
      BY <1>2, <1>6, AnswersType DEF Paying
    <3>2. order.open => order.who = {} \/ payroll[order.month].status # "none"
      BY <1>1, <1>2, <2>4
    <3> QED BY <2>1, <1>3, <3>1, <3>2 DEF CallsAtWork, Alike
  <2>7. ShownWasRun'
    BY <2>1 DEF ShownWasRun
  <2> QED BY <2>3, <2>5, <2>6, <2>7 DEF SteadyService
<1>7. ASSUME work.patient /\ ~work.failures PROVE PatientOwner'
  <2>1. ShownDueIsUnpaid /\ PaidOnceOrRepaid /\ KeptOrAtWork
    BY <1>7 DEF PayInv, PatientOwner, SteadyService
  <2>2. Ordered("pay") => Ordered("pay")'
    BY <1>3 DEF Ordered, Alike
  <2>3. \A n \in Month : BulkUnknown(n) => BulkUnknown(n)'
    BY <1>3 DEF BulkUnknown, Alike
  <2>4. order.open /\ order.sent => BulkUnknown(m)'
    BY <1>2, <1>3 DEF BulkUnknown
  <2>5. ASSUME NEW n \in Month \ desk.stale, NEW s \in Staff,
               desk.slips[n][s] = "due" /\ desk.runs[n] # "disbursed",
               money'[n][s].bulk + money'[n][s].single > 0
        PROVE  Ordered("pay")' \/ BulkUnknown(n)'
    <3>1. CASE money'[n][s].bulk = money[n][s].bulk
      <4>1. Ordered("pay") \/ BulkUnknown(n)
        BY <2>1, <2>5, <3>1, <1>4 DEF ShownDueIsUnpaid
      <4> QED BY <4>1, <2>2, <2>3
    <3>2. CASE n = m /\ order.open /\ order.sent
      BY <2>4, <3>2
    <3> QED BY <3>1, <3>2, <1>4, <1>7
  <2>6. ShownDueIsUnpaid'
    BY <2>5 DEF ShownDueIsUnpaid
  <2>7. orders = {}
    BY <1>7 DEF DisburseOffered, TeamTab, Free
  <2>8. ASSUME NEW s \in due PROVE money[m][s].bulk = 0 /\ money[m][s].single = 0
    <3>1. s \in Staff /\ ~(money[m][s].bulk > 0) /\ ~(money[m][s].single > 0)
      BY <1>1, <2>1, <2>7 DEF KeptOrAtWork
    <3>2. money[m][s].bulk \in Nat /\ money[m][s].single \in Nat
      BY <3>1 DEF PayInv, PayrollTypes, Money, PaySum
    <3> QED BY <3>1, <3>2
  <2>9. ASSUME NEW n \in Month, NEW s \in Staff
        PROVE  money'[n][s].bulk + money'[n][s].single <= 1 + money'[n][s].repaid
    <3>1. money[n][s].bulk + money[n][s].single <= 1 + money[n][s].repaid
      BY <2>1 DEF PaidOnceOrRepaid
    <3>2. money[n][s].repaid \in Nat
      BY DEF PayInv, PayrollTypes, Money, PaySum
    <3>3. CASE money'[n][s].bulk = money[n][s].bulk
      BY <3>1, <3>3, <1>4
    <3>4. CASE money'[n][s].bulk = money[n][s].bulk + 1 /\ n = m /\ s \in due
      BY <3>2, <3>4, <1>4, <2>8
    <3> QED BY <3>3, <3>4, <1>4
  <2> QED BY <2>6, <2>9 DEF PatientOwner, PaidOnceOrRepaid
<1> QED BY <1>5, <1>6, <1>7, UNCHANGED work DEF PayInv

\* A single payment is sent: if the owner is patient, to somebody who was sent
\* nothing, or was shown as paid or skipped.
LEMMA PayKeeps ==
  ASSUME PayInv, NEW s \in Staff, NEW ok \in Answers, PayOffered(s),
         PayPayslip(desk.open, s, ok), UNCHANGED <<work, team, payroll, desk>>
  PROVE  PayInv'
<1> DEFINE m == desk.open
           again == IF PayslipStatus(s) = "due" THEN 0 ELSE 1
           base == Order("pay", m, {s}, ok)
           order == InHand(base, FALSE)
<1>1. m \in Month /\ Free /\ desk.slips[m][s] # "none"
  BY PayrollAssumption DEF PayOffered, HistoryTab, PayInv, PayrollTypes, Desk, Month
<1>2. /\ money' \in Money
      /\ money'[m][s].single = money[m][s].single + 1
      /\ money'[m][s].repaid = money[m][s].repaid + again
      /\ money'[m][s].bulk = money[m][s].bulk
      /\ \A n \in Month, t \in Staff : n # m \/ t # s => money'[n][t] = money[n][t]
  <2>1. again \in Nat /\ money' = [money EXCEPT ![m][s].single = @ + 1, ![m][s].repaid = @ + again]
    BY DEF PayPayslip
  <2> HIDE DEF again, m
  <2> QED BY <1>1, <2>1, PaidSingly DEF PayInv, PayrollTypes
<1>3. /\ order \in Call /\ order.what = "pay" /\ order.month = m /\ order.ok = ok
      /\ order.who = {s} /\ order.open
  <2>1. m \in 0..MaxMonths /\ ok \in BOOLEAN /\ {s} \in SUBSET Staff
    BY <1>1, AnswersType, PayrollAssumption DEF Month
  <2> HIDE DEF m
  <2>2. base \in Call /\ base.what = "pay" /\ base.month = m /\ base.ok = ok /\ base.who = {s}
    BY <2>1, OrderType
  <2> HIDE DEF base
  <2> QED BY <2>2, InHandType
<1>4. Asks(order)
  BY DEF PayPayslip
<1> HIDE DEF m, again, base, order
<1>5. /\ orders' \subseteq Call /\ order \in orders'
      /\ \A o \in orders' : o = order \/ \E q \in orders : Alike(o, q)
      /\ \A q \in orders : \E o \in orders' : Alike(o, q)
  BY <1>3, <1>4, AskedCalls DEF PayInv, PayrollTypes
<1>6. PayrollTypes' /\ OwnDetailsSaved' /\ FormIsOfOne'
  BY <1>2, <1>5 DEF PayInv, PayrollTypes, OwnDetailsSaved, FormIsOfOne
<1>7. ASSUME ~work.failures PROVE SteadyService'
  <2>1. KeptOrAtWork /\ NothingBeforeRun /\ CallsAtWork /\ ShownWasRun
    BY <1>7 DEF PayInv, SteadyService
  <2>2. ASSUME NEW n \in Month, NEW t \in Staff, payroll[n].slips[t] = "due"
        PROVE  /\ money'[n][t].bulk > 0 => \E o \in orders' : BulkOf(o, n, t)
               /\ money'[n][t].single > 0 => \E o \in orders' : SingleOf(o, n, t)
    <3>1. /\ money[n][t].bulk > 0 => \E q \in orders : BulkOf(q, n, t)
          /\ money[n][t].single > 0 => \E q \in orders : SingleOf(q, n, t)
      BY <2>1, <2>2 DEF KeptOrAtWork
    <3>2. /\ money[n][t].bulk > 0 => \E o \in orders' : BulkOf(o, n, t)
          /\ money[n][t].single > 0 => \E o \in orders' : SingleOf(o, n, t)
      BY <3>1, <1>5 DEF BulkOf, SingleOf, Alike
    <3>3. n = m /\ t = s => SingleOf(order, n, t)
      BY <1>3 DEF SingleOf
    <3> QED BY <3>2, <3>3, <1>2, <1>5
  <2>3. KeptOrAtWork'
    BY <2>2 DEF KeptOrAtWork
  <2>4. payroll[m].status # "none"
    BY <1>1, <2>1 DEF ShownWasRun
  <2>5. NothingBeforeRun'
    BY <2>1, <2>4, <1>2 DEF NothingBeforeRun
  <2>6. order.ok /\ order.what \in Paying
    BY <1>3, <1>7, AnswersType DEF Paying
  <2>7. CallsAtWork'
    BY <2>1, <2>4, <2>6, <1>1, <1>3, <1>5 DEF CallsAtWork, Alike
  <2>8. ShownWasRun'
    BY <2>1 DEF ShownWasRun
  <2> QED BY <2>3, <2>5, <2>7, <2>8 DEF SteadyService
<1>8. ASSUME work.patient /\ ~work.failures PROVE PatientOwner'
  <2>1. ShownDueIsUnpaid /\ PaidOnceOrRepaid /\ orders = {} /\ m \notin desk.stale
    BY <1>1, <1>8 DEF PayInv, PatientOwner, Free, Reading, m
  <2>2. Ordered("pay")'
    BY <1>3, <1>5 DEF Ordered
  <2>3. ShownDueIsUnpaid'
    BY <2>2 DEF ShownDueIsUnpaid
  <2>4. /\ money[m][s].bulk \in Nat /\ money[m][s].single \in Nat /\ money[m][s].repaid \in Nat
        /\ money[m][s].bulk + money[m][s].single <= 1 + money[m][s].repaid
    BY <1>1, <2>1 DEF PayInv, PayrollTypes, Money, PaySum, PaidOnceOrRepaid
  <2>5. CASE PayslipStatus(s) = "due"
    <3>1. desk.slips[m][s] = "due" /\ desk.runs[m] # "disbursed"
      BY <2>5 DEF PayslipStatus, m
    <3>2. ~Ordered("pay") /\ ~BulkUnknown(m)
      BY <2>1 DEF Ordered, BulkUnknown
    <3>3. ~(money[m][s].bulk + money[m][s].single > 0)
      BY <1>1, <2>1, <3>1, <3>2 DEF ShownDueIsUnpaid
    <3>4. money'[m][s].bulk + money'[m][s].single <= 1 + money'[m][s].repaid
      BY <3>3, <2>4, <2>5, <1>2 DEF again
    <3> QED BY <3>4, <2>1, <2>3, <1>2 DEF PatientOwner, PaidOnceOrRepaid
  <2>6. CASE PayslipStatus(s) # "due"
    <3>1. money'[m][s].bulk + money'[m][s].single <= 1 + money'[m][s].repaid
      BY <2>4, <2>6, <1>2 DEF again
    <3> QED BY <3>1, <2>1, <2>3, <1>2 DEF PatientOwner, PaidOnceOrRepaid
  <2> QED BY <2>5, <2>6
<1> QED BY <1>6, <1>7, <1>8, UNCHANGED work DEF PayInv

\* The service keeps what a call has sent, or stops.
LEMMA PaymentsKeptKeeps == ASSUME PayInv, PaymentsKept PROVE PayInv'
<1>1. PICK o \in orders :
        /\ o.open
        /\ \/ /\ payroll' = [payroll EXCEPT
                   ![o.month] = [status |-> IF o.sent THEN "disbursed" ELSE @.status,
                                 slips |-> [s \in Staff |-> IF s \in o.who THEN "paid" ELSE @.slips[s]]]]
              /\ orders' = (orders \ {o}) \cup {[o EXCEPT !.open = FALSE]}
           \/ /\ work.failures /\ UNCHANGED payroll
              /\ orders' = (orders \ {o}) \cup {[o EXCEPT !.open = FALSE, !.ok = FALSE]}
        /\ UNCHANGED <<work, team, money, desk>>
  BY DEF PaymentsKept
<1>T. /\ o \in Call /\ orders \subseteq Call /\ payroll \in [Month -> MonthPay]
  BY DEF PayInv, PayrollTypes
<1> DEFINE closed == [o EXCEPT !.open = FALSE]
           failed == [o EXCEPT !.open = FALSE, !.ok = FALSE]
<1>2. /\ closed \in Call /\ failed \in Call
      /\ closed.what = o.what /\ closed.month = o.month /\ closed.who = o.who
      /\ closed.ok = o.ok /\ closed.sent = o.sent /\ ~closed.open
  BY <1>T DEF Call
<1> HIDE DEF closed, failed
<1>3. orders' \subseteq Call /\ (orders' = (orders \ {o}) \cup {closed} \/ work.failures)
  BY <1>1, <1>2, <1>T DEF closed, failed
<1> DEFINE marked == [s \in Staff |-> IF s \in o.who THEN "paid" ELSE payroll[o.month].slips[s]]
           status == IF o.sent THEN "disbursed" ELSE payroll[o.month].status
<1>4. /\ payroll' \in [Month -> MonthPay]
      /\ \/ UNCHANGED payroll /\ work.failures
         \/ \A n \in Month :
              IF n = o.month THEN payroll'[n].status = status /\ payroll'[n].slips = marked
              ELSE payroll'[n] = payroll[n]
  <2>1. CASE UNCHANGED payroll /\ work.failures
    BY <2>1, <1>T
  <2>2. CASE payroll' = [payroll EXCEPT ![o.month] = [status |-> status, slips |-> marked]]
    <3>1. o.month \in Month => status \in MonthStatus /\ marked \in Slips
      BY <1>T DEF MonthPay, MonthStatus, Slips
    <3> HIDE DEF status, marked
    <3> QED BY <1>T, <2>2, <3>1 DEF MonthPay
  <2> QED BY <1>1, <2>1, <2>2
<1>5. PayrollTypes' /\ OwnDetailsSaved' /\ FormIsOfOne'
  BY <1>1, <1>3, <1>4 DEF PayInv, PayrollTypes, OwnDetailsSaved, FormIsOfOne
<1>6. ASSUME NEW n \in Month, NEW s \in Staff, ~work.failures
      PROVE  /\ payroll'[n].slips[s] = IF n = o.month /\ s \in o.who THEN "paid" ELSE payroll[n].slips[s]
             /\ payroll'[n].status = IF n = o.month /\ o.sent THEN "disbursed" ELSE payroll[n].status
  <2> HIDE DEF closed, failed
  <2>1. CASE n = o.month
    <3>1. payroll'[n].status = status /\ payroll'[n].slips = marked
      BY <1>4, <1>6, <2>1
    <3>2. marked[s] = IF s \in o.who THEN "paid" ELSE payroll[n].slips[s]
      BY <2>1
    <3>3. status = IF o.sent THEN "disbursed" ELSE payroll[n].status
      BY <2>1
    <3> HIDE DEF status, marked
    <3> QED BY <2>1, <3>1, <3>2, <3>3
  <2>2. CASE n # o.month
    BY <1>4, <1>6, <2>2
  <2> QED BY <2>1, <2>2
<1>7. ASSUME ~work.failures PROVE SteadyService'
  <2>1. KeptOrAtWork /\ NothingBeforeRun /\ CallsAtWork /\ ShownWasRun
    BY <1>7 DEF PayInv, SteadyService
  <2>2. orders' = (orders \ {o}) \cup {closed}
    BY <1>3, <1>7
  <2>3. ASSUME NEW n \in Month, NEW s \in Staff, payroll'[n].slips[s] = "due"
        PROVE  /\ money[n][s].bulk > 0 => \E q \in orders' : BulkOf(q, n, s)
               /\ money[n][s].single > 0 => \E q \in orders' : SingleOf(q, n, s)
    <3>1. payroll[n].slips[s] = "due" /\ ~(n = o.month /\ s \in o.who)
      BY <1>6, <1>7, <2>3
    <3>2. /\ money[n][s].bulk > 0 => \E q \in orders : BulkOf(q, n, s)
          /\ money[n][s].single > 0 => \E q \in orders : SingleOf(q, n, s)
      BY <2>1, <3>1 DEF KeptOrAtWork
    <3> QED BY <2>2, <3>1, <3>2 DEF BulkOf, SingleOf
  <2>4. KeptOrAtWork'
    BY <1>1, <2>3 DEF KeptOrAtWork
  <2>5. o.who = {} \/ payroll[o.month].status # "none"
    BY <1>1, <2>1 DEF CallsAtWork
  <2>6. ASSUME NEW n \in Month, NEW s \in Staff, payroll'[n].status = "none"
        PROVE  payroll'[n].slips[s] = "none" /\ money[n][s].bulk = 0 /\ money[n][s].single = 0
    <3>1. payroll[n].status = "none" /\ (n = o.month => o.who = {})
      BY <1>6, <1>7, <2>5, <2>6
    <3>2. payroll[n].slips[s] = "none" /\ money[n][s].bulk = 0 /\ money[n][s].single = 0
      BY <2>1, <3>1 DEF NothingBeforeRun
    <3> QED BY <1>6, <1>7, <3>1, <3>2
  <2>7. NothingBeforeRun'
    BY <1>1, <2>6 DEF NothingBeforeRun
  <2>8. \A n \in Month : /\ payroll[n].status # "none" => payroll'[n].status # "none"
                         /\ payroll[n].status = "disbursed" => payroll'[n].status = "disbursed"
    BY <1>4, <1>7
  <2>9. CallsAtWork'
    BY <2>1, <2>2, <2>8, <1>2 DEF CallsAtWork
  <2>10. ShownWasRun'
    BY <1>1, <2>1, <2>8 DEF ShownWasRun
  <2> QED BY <2>4, <2>7, <2>9, <2>10 DEF SteadyService
<1>8. ASSUME work.patient /\ ~work.failures PROVE PatientOwner'
  <2>1. ShownDueIsUnpaid /\ PaidOnceOrRepaid
    BY <1>8 DEF PayInv, PatientOwner
  <2>2. orders' = (orders \ {o}) \cup {closed}
    BY <1>3, <1>8
  <2>3. Ordered("pay") => Ordered("pay")'
    BY <2>2, <1>2 DEF Ordered
  <2>4. ASSUME NEW n \in Month, BulkUnknown(n) PROVE BulkUnknown(n)'
    <3>1. PICK q \in orders : /\ q.what = "disburse" /\ q.month = n
                              /\ (q.open /\ q.sent) \/ payroll[n].status = "disbursed"
      BY <2>4 DEF BulkUnknown
    <3>2. payroll[n].status = "disbursed" => payroll'[n].status = "disbursed"
      BY <1>4, <1>8
    <3>3. CASE q # o
      BY <2>2, <3>1, <3>2, <3>3 DEF BulkUnknown
    <3>4. CASE q = o
      <4>1. payroll'[n].status = "disbursed"
        BY <1>4, <1>8, <3>1, <3>2, <3>4
      <4> QED BY <2>2, <1>2, <3>1, <3>4, <4>1 DEF BulkUnknown
    <3> QED BY <3>3, <3>4
  <2>5. ShownDueIsUnpaid'
    BY <1>1, <2>1, <2>3, <2>4 DEF ShownDueIsUnpaid
  <2> QED BY <1>1, <2>1, <2>5 DEF PatientOwner, PaidOnceOrRepaid
<1> QED BY <1>1, <1>5, <1>7, <1>8 DEF PayInv

\* A call is answered, and the months are read.
LEMMA AnsweredKeeps == ASSUME PayInv, Answered PROVE PayInv'
<1>1. PICK o \in orders :
        /\ o.what \in {"run", "disburse", "pay"} /\ ~o.open
        /\ orders' = orders \ {o}
        /\ desk' = [desk EXCEPT !.form = IF o.ok /\ o.what = "run" /\ @ = "month" THEN "none" ELSE @,
                                !.runs = IF o.ok THEN [m \in Month |-> payroll[m].status] ELSE @,
                                !.stale = IF o.ok /\ o.what = "pay" THEN Month ELSE @]
        /\ UNCHANGED <<work, team, payroll, money>>
  BY DEF Answered
<1>T. desk \in Desk /\ orders \subseteq Call /\ payroll \in [Month -> MonthPay] /\ o \in Call
  BY DEF PayInv, PayrollTypes
<1> DEFINE read == [m \in Month |-> payroll[m].status]
<1>2. read \in [Month -> MonthStatus] /\ \A m \in Month : read[m] = payroll[m].status
  BY <1>T DEF MonthPay
<1> HIDE DEF read
<1>3. /\ desk' \in Desk /\ desk'.slips = desk.slips /\ desk'.of = desk.of /\ desk'.entered = desk.entered
      /\ desk'.stale = IF o.ok /\ o.what = "pay" THEN Month ELSE desk.stale
      /\ desk'.runs = IF o.ok THEN read ELSE desk.runs
  BY <1>T, <1>1, <1>2 DEF Desk, read
<1>4. PayrollTypes' /\ OwnDetailsSaved' /\ FormIsOfOne'
  BY <1>1, <1>3, <1>T DEF PayInv, PayrollTypes, FormIsOfOne, OwnDetailsSaved
<1>5. ASSUME ~work.failures PROVE SteadyService'
  <2>1. KeptOrAtWork /\ NothingBeforeRun /\ CallsAtWork /\ ShownWasRun
    BY <1>5 DEF PayInv, SteadyService
  <2>2. KeptOrAtWork'
    <3> SUFFICES ASSUME NEW m \in Month, NEW s \in Staff, payroll[m].slips[s] = "due"
                 PROVE  /\ money[m][s].bulk > 0 => \E q \in orders' : BulkOf(q, m, s)
                        /\ money[m][s].single > 0 => \E q \in orders' : SingleOf(q, m, s)
      BY <1>1 DEF KeptOrAtWork
    <3>1. /\ money[m][s].bulk > 0 => \E q \in orders : BulkOf(q, m, s)
          /\ money[m][s].single > 0 => \E q \in orders : SingleOf(q, m, s)
      BY <2>1 DEF KeptOrAtWork
    <3> QED BY <1>1, <3>1 DEF BulkOf, SingleOf
  <2>3. NothingBeforeRun' /\ CallsAtWork'
    BY <1>1, <2>1 DEF NothingBeforeRun, CallsAtWork
  <2>4. ShownWasRun'
    BY <1>1, <1>2, <1>3, <2>1 DEF ShownWasRun
  <2> QED BY <2>2, <2>3, <2>4 DEF SteadyService
<1>6. ASSUME work.patient /\ ~work.failures PROVE PatientOwner'
  <2>1. ShownDueIsUnpaid /\ PaidOnceOrRepaid /\ CallsAtWork /\ ShownWasRun
    BY <1>6 DEF PayInv, PatientOwner, SteadyService
  <2>2. o.what \in Paying => o.ok
    BY <2>1 DEF CallsAtWork
  <2>3. ASSUME NEW m \in Month \ desk'.stale, NEW s \in Staff,
               desk'.slips[m][s] = "due", desk'.runs[m] # "disbursed",
               money[m][s].bulk + money[m][s].single > 0
        PROVE  Ordered("pay")' \/ BulkUnknown(m)'
    <3>1. o.what # "pay" /\ m \notin desk.stale
      BY <1>3, <2>2, <2>3 DEF Paying
    <3>2. desk.runs[m] # "disbursed" /\ (o.what = "disburse" => payroll[m].status # "disbursed")
      BY <1>2, <1>3, <2>1, <2>2, <2>3 DEF ShownWasRun, Paying
    <3>3. Ordered("pay") \/ BulkUnknown(m)
      BY <1>3, <2>1, <2>3, <3>1, <3>2 DEF ShownDueIsUnpaid
    <3>4. CASE Ordered("pay")
      BY <1>1, <3>1, <3>4 DEF Ordered
    <3>5. CASE BulkUnknown(m)
      <4>1. PICK q \in orders : /\ q.what = "disburse" /\ q.month = m
                                /\ (q.open /\ q.sent) \/ payroll[m].status = "disbursed"
        BY <3>5 DEF BulkUnknown
      <4>2. q # o
        BY <1>1, <3>2, <4>1
      <4> QED BY <1>1, <4>1, <4>2 DEF BulkUnknown
    <3> QED BY <3>3, <3>4, <3>5
  <2>4. ShownDueIsUnpaid'
    BY <1>1, <2>3 DEF ShownDueIsUnpaid
  <2> QED BY <1>1, <2>1, <2>4 DEF PatientOwner, PaidOnceOrRepaid
<1> QED BY <1>1, <1>4, <1>5, <1>6 DEF PayInv

\* The payslips of the month that is open are read.
LEMMA ReadKeeps == ASSUME PayInv, SlipsRead PROVE PayInv'
<1> DEFINE m == desk.open
<1>1. m \in Month /\ desk \in Desk /\ payroll[m].slips \in Slips
      /\ UNCHANGED <<work, team, payroll, money, orders>>
  BY DEF SlipsRead, Reading, PayInv, PayrollTypes, Desk, MonthPay
<1>2. /\ desk' \in Desk /\ desk'.stale = desk.stale \ {m} /\ desk'.runs = desk.runs
      /\ desk'.of = desk.of /\ desk'.entered = desk.entered
      /\ desk'.slips = [desk.slips EXCEPT ![m] = payroll[m].slips]
  <2>1. desk' = [desk EXCEPT !.stale = @ \ {m}, !.slips = [desk.slips EXCEPT ![m] = payroll[m].slips]]
    BY <1>1 DEF SlipsRead, Desk
  <2>2. [desk.slips EXCEPT ![m] = payroll[m].slips] \in [Month -> Slips]
    BY <1>1 DEF Desk
  <2> HIDE DEF m
  <2> QED BY <1>1, <2>1, <2>2 DEF Desk
<1> HIDE DEF m
<1>3. PayrollTypes' /\ OwnDetailsSaved' /\ FormIsOfOne'
  BY <1>1, <1>2 DEF PayInv, PayrollTypes, OwnDetailsSaved, FormIsOfOne
<1>4. \A n \in Month : desk'.slips[n] = IF n = m THEN payroll[m].slips ELSE desk.slips[n]
  BY <1>1, <1>2 DEF Desk
<1>5. ASSUME ~work.failures PROVE SteadyService'
  <2>1. KeptOrAtWork /\ NothingBeforeRun /\ CallsAtWork /\ ShownWasRun
    BY <1>5 DEF PayInv, SteadyService
  <2>2. ShownWasRun'
    <3>1. \A s \in Staff : payroll[m].slips[s] # "none" => payroll[m].status # "none"
      BY <1>1, <2>1 DEF NothingBeforeRun
    <3> QED BY <1>1, <1>2, <1>4, <2>1, <3>1 DEF ShownWasRun
  <2>3. KeptOrAtWork' /\ NothingBeforeRun' /\ CallsAtWork'
    BY <1>1, <2>1 DEF KeptOrAtWork, NothingBeforeRun, CallsAtWork
  <2> QED BY <2>2, <2>3 DEF SteadyService
<1>6. ASSUME work.patient /\ ~work.failures PROVE PatientOwner'
  <2>1. ShownDueIsUnpaid /\ PaidOnceOrRepaid /\ KeptOrAtWork
    BY <1>6 DEF PayInv, PatientOwner, SteadyService
  <2>2. ASSUME NEW s \in Staff, payroll[m].slips[s] = "due",
               money[m][s].bulk + money[m][s].single > 0
        PROVE  Ordered("pay") \/ BulkUnknown(m)
    <3>1. money[m][s].bulk \in Nat /\ money[m][s].single \in Nat
      BY <1>1 DEF PayInv, PayrollTypes, Money, PaySum
    <3>2. CASE money[m][s].bulk > 0
      <4>1. PICK o \in orders : BulkOf(o, m, s)
        BY <1>1, <2>1, <2>2, <3>2 DEF KeptOrAtWork
      <4> QED BY <4>1 DEF BulkOf, BulkUnknown
    <3>3. CASE money[m][s].single > 0
      <4>1. PICK o \in orders : SingleOf(o, m, s)
        BY <1>1, <2>1, <2>2, <3>3 DEF KeptOrAtWork
      <4> QED BY <4>1 DEF SingleOf, Ordered
    <3> QED BY <2>2, <3>1, <3>2, <3>3
  <2>3. ASSUME NEW n \in Month \ desk'.stale, NEW s \in Staff,
               desk'.slips[n][s] = "due", desk.runs[n] # "disbursed",
               money[n][s].bulk + money[n][s].single > 0
        PROVE  Ordered("pay") \/ BulkUnknown(n)
    <3>1. CASE n = m
      BY <1>4, <2>2, <2>3, <3>1
    <3>2. CASE n # m
      BY <1>2, <1>4, <2>1, <2>3, <3>2 DEF ShownDueIsUnpaid
    <3> QED BY <3>1, <3>2
  <2>4. ShownDueIsUnpaid'
    BY <1>1, <1>2, <2>3 DEF ShownDueIsUnpaid, Ordered, BulkUnknown
  <2> QED BY <1>1, <2>1, <2>4 DEF PatientOwner, PaidOnceOrRepaid
<1> QED BY <1>1, <1>3, <1>5, <1>6 DEF PayInv

-----------------------------------------------------------------------------
LEMMA PayrollInitial == PayrollInit => PayInv
<1> SUFFICES ASSUME PayrollInit PROVE PayInv
  OBVIOUS
<1>1. PICK phones \in SUBSET work.hired :
        team = [s \in Staff |-> [state |-> IF s \in work.hired THEN "employed" ELSE "absent",
                                phone |-> s \in phones, entered |-> {}]]
  BY DEF PayrollInit
<1>2. team \in [Staff -> Employee] /\ \A s \in Staff : team[s].entered = {}
  BY <1>1 DEF Employee
<1>3. NoSlips \in Slips /\ \A s \in Staff : NoSlips[s] = "none"
  BY DEF NoSlips, Slips
<1>4. money \in Money /\ \A m \in Month, s \in Staff :
        money[m][s].bulk = 0 /\ money[m][s].single = 0 /\ money[m][s].repaid = 0
  BY DEF PayrollInit, Money, PaySum
<1>5. /\ desk \in Desk /\ desk.of = {} /\ desk.stale = Month
      /\ \A m \in Month : desk.slips[m] = NoSlips /\ desk.runs[m] = "none"
  <2>1. 0 \in 0..MaxMonths
    BY PayrollAssumption
  <2> QED BY <1>3, <2>1 DEF PayrollInit, Desk, MonthStatus
<1>6. /\ payroll \in [Month -> MonthPay]
      /\ \A m \in Month : payroll[m].slips = NoSlips
  BY <1>3 DEF PayrollInit, MonthStatus, MonthPay
<1>7. PayrollTypes
  BY <1>2, <1>4, <1>5, <1>6 DEF PayrollInit, PayrollTypes
<1>8. orders = {}
  BY DEF PayrollInit
<1>9. KeptOrAtWork /\ NothingBeforeRun /\ CallsAtWork /\ ShownWasRun
  BY <1>3, <1>4, <1>5, <1>6, <1>8 DEF KeptOrAtWork, NothingBeforeRun, CallsAtWork, ShownWasRun
<1>10. ShownDueIsUnpaid /\ PaidOnceOrRepaid
  BY <1>4, <1>5 DEF ShownDueIsUnpaid, PaidOnceOrRepaid
<1> QED BY <1>2, <1>5, <1>7, <1>9, <1>10 DEF PayInv, SteadyService, PatientOwner, OwnDetailsSaved, FormIsOfOne

\* A step that changes only the screen.
LEMMA DeskKeeps ==
  ASSUME PayInv, UNCHANGED <<work, team, payroll, money, orders>>,
         desk' \in Desk, FormIsOfOne', desk'.slips = desk.slips, desk'.runs = desk.runs,
         desk.stale \subseteq desk'.stale
  PROVE  PayInv'
<1>1. team' \in [Staff -> Employee] /\ OwnDetailsSaved' /\ orders' \subseteq Call
  BY DEF PayInv, PayrollTypes, OwnDetailsSaved
<1>2. \A o \in orders : Alike(o, o)
  BY DEF Alike
<1> QED BY <1>1, <1>2, ScreenKeeps

LEMMA TeamStep == ASSUME PayInv, TeamNext PROVE PayInv'
<1>T. /\ desk \in Desk /\ team \in [Staff -> Employee] /\ orders \subseteq Call
      /\ desk.of \subseteq Staff /\ desk.entered \subseteq Staff
  BY DEF PayInv, PayrollTypes, Desk
<1>1. CASE AddEmployeeForm
  BY <1>1, <1>T, DeskKeeps DEF AddEmployeeForm, PayInv, FormIsOfOne, Desk
<1>2. CASE OpenEdit
  <2>1. PICK s \in Staff : desk' = [desk EXCEPT !.form = "edit", !.of = {s}, !.entered = {s}]
    BY <1>2 DEF OpenEdit
  <2>2. desk' \in Desk /\ FormIsOfOne'
    BY <2>1, <1>T DEF FormIsOfOne, Desk
  <2> QED BY <1>2, <1>T, <2>1, <2>2, DeskKeeps DEF OpenEdit, Desk
<1>3. CASE CloseForm
  BY <1>3, <1>T, DeskKeeps DEF CloseForm, FormIsOfOne, Desk
<1>4. CASE AddEmployee
  <2>1. PICK s \in Staff, phone \in BOOLEAN, ok \in Answers :
          /\ team' = [team EXCEPT ![s] = [state |-> "employed", phone |-> phone, entered |-> {s}]]
          /\ Asks(Order("add", 0, {s}, ok))
    BY <1>4 DEF AddEmployee
  <2>2. team' \in [Staff -> Employee] /\ OwnDetailsSaved'
    BY <2>1, <1>T DEF Employee, OwnDetailsSaved, PayInv
  <2>3. Order("add", 0, {s}, ok) \in Call /\ Order("add", 0, {s}, ok).what = "add"
       /\ ~Order("add", 0, {s}, ok).open
    BY OrderType, AnswersType, PayrollAssumption
  <2>4. /\ orders' \subseteq Call
        /\ \A o \in orders' : (~o.open /\ o.what \notin Paying) \/ \E q \in orders : Alike(o, q)
        /\ \A q \in orders : \E o \in orders' : Alike(o, q)
    BY <1>T, <2>1, <2>3, AskedCalls DEF Paying
  <2> QED BY <1>4, <1>T, <2>2, <2>4, ScreenKeeps DEF AddEmployee, PayInv, FormIsOfOne
<1>5. ASSUME NEW changed \in [Staff -> Employee], Update(changed),
             \A s \in desk.of : changed[s].entered \subseteq {s}
      PROVE  PayInv'
  <2>1. PICK s \in desk.of, ok \in Answers :
          team' = [team EXCEPT ![s] = changed[s]] /\ Asks(Order("edit", 0, {s}, ok))
    BY <1>5 DEF Update
  <2>2. team' \in [Staff -> Employee] /\ OwnDetailsSaved'
    BY <2>1, <1>T, <1>5 DEF OwnDetailsSaved, PayInv
  <2>3. Order("edit", 0, {s}, ok) \in Call /\ Order("edit", 0, {s}, ok).what = "edit"
       /\ ~Order("edit", 0, {s}, ok).open
    BY <1>T, OrderType, AnswersType, PayrollAssumption
  <2>4. /\ orders' \subseteq Call
        /\ \A o \in orders' : (~o.open /\ o.what \notin Paying) \/ \E q \in orders : Alike(o, q)
        /\ \A q \in orders : \E o \in orders' : Alike(o, q)
    BY <1>T, <2>1, <2>3, AskedCalls DEF Paying
  <2> QED BY <1>5, <1>T, <2>2, <2>4, ScreenKeeps DEF Update, PayInv, FormIsOfOne
<1>6. CASE SaveEdit
  <2>1. PICK phone \in BOOLEAN :
          Update([s \in Staff |-> [team[s] EXCEPT !.phone = @ \/ phone, !.entered = desk.entered]])
    BY <1>6 DEF SaveEdit
  <2> DEFINE changed == [s \in Staff |-> [team[s] EXCEPT !.phone = @ \/ phone, !.entered = desk.entered]]
  <2>2. \A s \in Staff : (team[s].phone \/ phone) \in BOOLEAN
    OBVIOUS
  <2>3. changed \in [Staff -> Employee] /\ \A s \in Staff : changed[s].entered = desk.entered
    <3>1. ASSUME NEW s \in Staff
          PROVE  /\ changed[s] \in Employee /\ changed[s].entered = desk.entered
      <4> DEFINE shown == team[s].phone \/ phone
      <4>1. shown \in BOOLEAN /\ changed[s] = [team[s] EXCEPT !.phone = shown, !.entered = desk.entered]
        OBVIOUS
      <4> HIDE DEF shown, changed
      <4>2. team[s] \in Employee
        BY <1>T
      <4>3. CASE shown = TRUE
        BY <1>T, <4>1, <4>2, <4>3 DEF Employee
      <4>4. CASE shown = FALSE
        BY <1>T, <4>1, <4>2, <4>4 DEF Employee
      <4> QED BY <4>1, <4>3, <4>4
    <3> QED BY <3>1
  <2>4. Update(changed)
    BY <2>1
  <2> HIDE DEF changed
  <2> QED BY <1>5, <1>T, <2>3, <2>4 DEF PayInv, FormIsOfOne
<1>7. CASE Deactivate
  <2> DEFINE changed == [s \in Staff |-> [team[s] EXCEPT !.state = "left"]]
  <2>1. changed \in [Staff -> Employee] /\ \A s \in Staff : changed[s].entered = team[s].entered
    BY <1>T DEF Employee
  <2>2. Update(changed)
    BY <1>7 DEF Deactivate
  <2> HIDE DEF changed
  <2> QED BY <1>5, <1>T, <2>1, <2>2 DEF PayInv, OwnDetailsSaved
<1>8. CASE EmployeeSaved
  <2>1. PICK o \in orders :
          /\ o.what \in {"add", "edit"} /\ orders' = orders \ {o}
          /\ desk' \in {desk, [desk EXCEPT !.form = "none", !.of = {}]}
          /\ UNCHANGED <<work, team, payroll, money>>
    BY <1>8 DEF EmployeeSaved
  <2>2. /\ desk' \in Desk /\ desk'.slips = desk.slips /\ desk'.stale = desk.stale
        /\ desk'.runs = desk.runs
        /\ desk'.of \subseteq desk.of /\ desk'.entered = desk.entered
    BY <1>T, <2>1 DEF Desk
  <2>3. FormIsOfOne' /\ OwnDetailsSaved'
    BY <2>1, <2>2 DEF PayInv, FormIsOfOne, OwnDetailsSaved
  <2>4. /\ \A q \in orders : Alike(q, q)
        /\ \A q \in orders : q.what \in Paying => q \in orders'
    BY <2>1 DEF Alike, Paying
  <2> QED BY <1>T, <2>1, <2>2, <2>3, <2>4, ScreenKeeps
<1> QED BY <1>1, <1>2, <1>3, <1>4, <1>6, <1>7, <1>8 DEF TeamNext

LEMMA PaymentsStep == ASSUME PayInv, PaymentsNext PROVE PayInv'
<1>T. /\ desk \in Desk /\ orders \subseteq Call
      /\ payroll \in [Month -> MonthPay]
  BY DEF PayInv, PayrollTypes
<1>1. CASE OpenPicker
  BY <1>1, <1>T, DeskKeeps DEF OpenPicker, PayInv, FormIsOfOne, Desk
<1>2. CASE ClosePicker
  BY <1>2, <1>T, DeskKeeps DEF ClosePicker, PayInv, FormIsOfOne, Desk
<1>3. CASE ConfirmRun
  <2>1. PICK m \in 1..work.months, ok \in Answers :
          /\ IF CanRun(m) THEN RunPayroll(m) /\ Asks(Order("run", m, {}, ok))
             ELSE UNCHANGED payroll /\ Asks(Order("run", m, {}, FALSE))
          /\ UNCHANGED <<work, team, money, desk>>
    BY <1>3 DEF ConfirmRun
  <2>2. m \in Month /\ m \in 0..MaxMonths
    BY PayrollAssumption DEF PayInv, PayrollTypes, Month
  <2>3. CASE CanRun(m)
    BY <2>1, <2>2, <2>3, RunKeeps
  <2>4. CASE ~CanRun(m)
    <3>1. Order("run", m, {}, FALSE) \in Call /\ Order("run", m, {}, FALSE).what = "run"
          /\ ~Order("run", m, {}, FALSE).open
      BY <2>2 DEF Order, Call
    <3>2. /\ orders' \subseteq Call
          /\ \A o \in orders' : (~o.open /\ o.what \notin Paying) \/ \E q \in orders : Alike(o, q)
          /\ \A q \in orders : \E o \in orders' : Alike(o, q)
      BY <1>T, <2>1, <2>4, <3>1, AskedCalls DEF Paying
    <3>3. team' \in [Staff -> Employee] /\ OwnDetailsSaved' /\ FormIsOfOne' /\ desk' \in Desk
      BY <2>1 DEF PayInv, PayrollTypes, OwnDetailsSaved, FormIsOfOne
    <3> QED BY <2>1, <2>4, <3>2, <3>3, ScreenKeeps
  <2> QED BY <2>3, <2>4
<1>4. CASE ConfirmDisburse
  BY <1>4, DisburseKeeps DEF ConfirmDisburse
<1>5. CASE ExpandRun
  <2>1. PICK m \in Month, old \in SUBSET Month :
          desk' = [desk EXCEPT !.open = m, !.stale = @ \cup old]
    BY <1>5 DEF ExpandRun
  <2>2. m \in 0..MaxMonths
    BY <2>1, PayrollAssumption DEF Month
  <2> QED BY <1>5, <1>T, <2>1, <2>2, DeskKeeps DEF ExpandRun, PayInv, FormIsOfOne, Desk
<1>6. CASE CollapseRun
  <2>1. 0 \in 0..MaxMonths
    BY PayrollAssumption
  <2> QED BY <1>6, <1>T, <2>1, DeskKeeps DEF CollapseRun, PayInv, FormIsOfOne, Desk
<1>7. CASE ConfirmPay
  <2>1. PICK s \in Staff, ok \in Answers :
          /\ PayOffered(s)
          /\ \/ PayPayslip(desk.open, s, ok)
             \/ work.failures /\ UNCHANGED money /\ Asks(Order("pay", desk.open, {s}, FALSE))
          /\ UNCHANGED <<work, team, payroll, desk>>
    BY <1>7 DEF ConfirmPay
  <2>2. CASE PayPayslip(desk.open, s, ok)
    BY <2>1, <2>2, PayKeeps
  <2>3. CASE work.failures /\ UNCHANGED money /\ Asks(Order("pay", desk.open, {s}, FALSE))
    <3>1. Order("pay", desk.open, {s}, FALSE) \in Call
      BY <1>T DEF Desk, Order, Call
    <3>2. orders' \subseteq Call
      BY <1>T, <2>3, <3>1, AskedCalls
    <3>3. PayrollTypes' /\ OwnDetailsSaved' /\ FormIsOfOne' /\ work'.failures
      BY <2>1, <2>3, <3>2 DEF PayInv, PayrollTypes, OwnDetailsSaved, FormIsOfOne
    <3> QED BY <3>3 DEF PayInv
  <2> QED BY <2>1, <2>2, <2>3
<1>8. CASE Answered
  BY <1>8, AnsweredKeeps
<1>11. CASE PaymentsKept
  BY <1>11, PaymentsKeptKeeps
<1>9. CASE SlipsRead
  BY <1>9, ReadKeeps
<1>10. CASE Payments /\ \E tab \in {"team", "history"} : OpenTab(tab)
  BY <1>10, <1>T, DeskKeeps DEF OpenTab, PayInv, FormIsOfOne, Desk
<1> QED BY <1>1, <1>2, <1>3, <1>4, <1>5, <1>6, <1>7, <1>8, <1>9, <1>10, <1>11 DEF PaymentsNext

LEMMA PayrollStep == PayInv /\ [PayrollNext]_payrollVars => PayInv'
<1> SUFFICES ASSUME PayInv, [PayrollNext]_payrollVars PROVE PayInv'
  OBVIOUS
<1>1. CASE UNCHANGED payrollVars
  <2>1. UNCHANGED <<work, team, payroll, money, desk, orders>>
    BY <1>1 DEF payrollVars
  <2>2. team' \in [Staff -> Employee] /\ OwnDetailsSaved' /\ FormIsOfOne' /\ desk' \in Desk
        /\ orders' \subseteq Call
    BY <2>1 DEF PayInv, PayrollTypes, OwnDetailsSaved, FormIsOfOne
  <2>3. \A o \in orders : Alike(o, o)
    BY DEF Alike
  <2> QED BY <2>1, <2>2, <2>3, ScreenKeeps
<1> QED BY <1>1, TeamStep, PaymentsStep DEF PayrollNext

\* Every variable keeps its type.
THEOREM PayrollTypeCorrect == PayrollSpec => []PayrollTypeOK
<1>1. PayInv => PayrollTypeOK
  BY DEF PayInv, PayrollTypes, Employee, MonthPay, Money, PaySum, Desk, Call, PayrollTypeOK
<1> QED BY <1>1, PayrollInitial, PayrollStep, PTL DEF PayrollSpec

\* As long as no call fails, every transfer that left is kept at the service or is
\* of a call at work; a patient owner pays nobody twice, in bulk or singly, who was
\* not shown as paid or skipped; and what is saved of an employee was entered as
\* that employee's.
THEOREM PaysAsAsked == PayrollSpec => []PaidAsAsked
<1>1. PayInv => PaidAsAsked
  <2> SUFFICES ASSUME PayInv PROVE PaidAsAsked
    OBVIOUS
  <2>1. DueIsUnpaid
    <3> SUFFICES ASSUME ~work.failures, NEW m \in Month, NEW s \in Staff,
                        payroll[m].slips[s] = "due", money[m][s].bulk + money[m][s].single > 0
                 PROVE  \E o \in orders : o.open /\ o.month = m /\ s \in o.who
      BY DEF DueIsUnpaid
    <3>1. money[m][s].bulk \in Nat /\ money[m][s].single \in Nat
      BY DEF PayInv, PayrollTypes, Money, PaySum
    <3>2. \/ \E o \in orders : BulkOf(o, m, s)
          \/ \E o \in orders : SingleOf(o, m, s)
      BY <3>1 DEF PayInv, SteadyService, KeptOrAtWork
    <3> QED BY <3>2 DEF BulkOf, SingleOf
  <2>2. RepaidOnPurpose
    BY DEF PayInv, PatientOwner, PaidOnceOrRepaid, RepaidOnPurpose
  <2> QED BY <2>1, <2>2 DEF PayInv, PaidAsAsked
<1> QED BY <1>1, PayrollInitial, PayrollStep, PTL DEF PayrollSpec

-----------------------------------------------------------------------------
(* The wallet screen. *)

Bank == [balance: 0..PayBalance, payout: Payouts, taken: [Visit -> Nat], wallets: Wallets, dva: BOOLEAN]
Screen == [form: {"none", "payout", "wallet"}, amount: Nat,
           visit: 0..MaxVisits, unheard: SUBSET Visit, balance: 0..PayBalance, payout: Payouts,
           previews: [PayAmounts -> {"none", "awaited", "payable", "held", "refused", "failed"}],
           wallets: Wallets, tried: SUBSET Numbers, dva: BOOLEAN]
Whats == {"preview", "request", "cancel", "add", "selfverify", "verify", "bootstrap", "dva"}
SentCall == [what: Whats, about: Nat, of: SUBSET Numbers, wallets: Wallets, ok: BOOLEAN]
Wallet == [state: {"none", "pending", "verified"}, primary: BOOLEAN]

\* A payout was taken, and its answer is on the way.
Taking(c) == c.what = "request" /\ c.ok

\* The form is open for an amount that can be entered; what a preview calls
\* payable needs no approval; a payout that waits is covered by the balance; a
\* form has taken a payout only if the answer that closes it is on the way, or
\* was lost.
PayoutInv ==
  /\ screen.form = "payout" => screen.amount \in PayAmounts /\ screen.visit \in Visit
  /\ \A a \in PayAmounts : screen.previews[a] = "payable" => a <= PayCeiling
  /\ HeldAsTold
  /\ bank.payout.status = "pending" => bank.payout.amount <= bank.balance
  /\ \A v \in Visit : v > screen.visit => bank.taken[v] = 0
  /\ OncePerForm
  /\ screen.form = "payout" /\ (\A c \in sent : ~Taking(c)) =>
       bank.taken[screen.visit] = 0 \/ screen.visit \in screen.unheard

One(w) == \A m, n \in Numbers : m # n => ~(w[m].primary /\ w[n].primary)

\* No list of wallets, also none on its way, has two primary ones.
WalletsInv == One(bank.wallets) /\ One(screen.wallets) /\ \A c \in sent : One(c.wallets)

ScreenTypes == use \in WalletUses /\ bank \in Bank /\ screen \in Screen /\ sent \subseteq SentCall

WalletInv == ScreenTypes /\ PayoutInv /\ WalletsInv

-----------------------------------------------------------------------------
LEMMA Naturals ==
  /\ PayMin \in Nat /\ PayCeiling \in Nat /\ PayBalance \in Nat /\ MaxVisits \in Nat /\ MaxSent \in Nat
  /\ PayAmounts \subseteq Nat /\ \A a \in PayAmounts : a > 0
  /\ Visit = 1..MaxVisits
BY WalletAssumption DEF Visit

\* A call that is sent carries the wallets the server has then.
LEMMA SentCalls ==
  ASSUME sent \subseteq SentCall, bank' \in Bank,
         NEW what \in Whats, NEW about \in Nat, NEW of \in SUBSET Numbers, NEW ok \in BOOLEAN,
         SendsCall(what, about, of, ok)
  PROVE  /\ sent' \subseteq SentCall /\ sent \subseteq sent'
         /\ \A c \in sent' : c \in sent \/ c.wallets = bank'.wallets
         /\ \E c \in sent' : c.what = what /\ c.ok = ok
<1> DEFINE new == WalletCall(what, about, of, ok)
<1>1. new \in SentCall /\ new.wallets = bank'.wallets /\ new.what = what /\ new.ok = ok
  BY DEF WalletCall, SentCall, Bank
<1>2. sent' = sent \cup {new}
  BY DEF SendsCall
<1> HIDE DEF new
<1> QED BY <1>1, <1>2

\* Steps that take no payout and change none.
LEMMA PayoutsStay ==
  ASSUME WalletInv, use' = use, bank' \in Bank, screen' \in Screen, sent' \subseteq SentCall,
         bank'.payout = bank.payout, bank'.balance = bank.balance, bank'.taken = bank.taken,
         screen'.visit = screen.visit, screen'.unheard = screen.unheard,
         \A a \in PayAmounts : screen'.previews[a] = "payable" => a <= PayCeiling,
         screen'.form = "payout" =>
           /\ screen.form = "payout" /\ screen'.amount \in PayAmounts
           /\ \A c \in sent : Taking(c) => c \in sent',
         WalletsInv'
  PROVE  WalletInv'
<1>1. ScreenTypes'
  BY DEF WalletInv, ScreenTypes
<1>2. PayoutInv'
  BY DEF WalletInv, PayoutInv, HeldAsTold, OncePerForm
<1> QED BY <1>1, <1>2 DEF WalletInv

\* Steps that change no wallet.
LEMMA WalletsStay ==
  ASSUME WalletInv, bank'.wallets = bank.wallets, screen'.wallets = screen.wallets,
         \A c \in sent' : c \in sent \/ c.wallets = bank'.wallets
  PROVE  WalletsInv'
BY DEF WalletInv, WalletsInv, One

\* Taps that only change the form.
LEMMA FormKeeps ==
  ASSUME WalletInv, UNCHANGED <<use, bank, sent>>, screen' \in Screen,
         screen'.visit = screen.visit, screen'.unheard = screen.unheard,
         screen'.previews = screen.previews, screen'.wallets = screen.wallets,
         screen'.form = "payout" => screen.form = "payout" /\ screen'.amount \in PayAmounts
  PROVE  WalletInv'
<1>1. WalletsInv'
  BY WalletsStay
<1>2. bank' \in Bank /\ sent' \subseteq SentCall
  BY DEF WalletInv, ScreenTypes
<1>3. \A a \in PayAmounts : screen'.previews[a] = "payable" => a <= PayCeiling
  BY DEF WalletInv, PayoutInv
<1> QED BY <1>1, <1>2, <1>3, PayoutsStay

\* An answer that only leaves.
LEMMA AnswerLeaves ==
  ASSUME WalletInv, UNCHANGED <<use, bank>>, screen' \in Screen, NEW c \in sent, sent' = sent \ {c},
         screen'.visit = screen.visit, screen'.unheard = screen.unheard,
         screen'.wallets = screen.wallets, screen'.amount = screen.amount,
         \A a \in PayAmounts : screen'.previews[a] = "payable" => a <= PayCeiling,
         screen'.form = "payout" => screen.form = "payout" /\ ~Taking(c)
  PROVE  WalletInv'
<1>1. WalletsInv'
  BY WalletsStay
<1>2. bank' \in Bank /\ sent' \subseteq SentCall
  BY DEF WalletInv, ScreenTypes
<1>3. screen'.form = "payout" => screen'.amount \in PayAmounts
  BY DEF WalletInv, PayoutInv
<1> QED BY <1>1, <1>2, <1>3, PayoutsStay

-----------------------------------------------------------------------------
\* What becomes of lists with one primary wallet.
LEMMA LinkedOne ==
  ASSUME bank \in Bank, One(bank.wallets), NEW n \in Numbers, NEW primary \in BOOLEAN
  PROVE  LinkedNumbers(n, primary) \in Wallets /\ One(LinkedNumbers(n, primary))
<1>1. bank.wallets \in [Numbers -> Wallet]
  BY DEF Bank, Wallets, Wallet
<1>2. ASSUME NEW m \in Numbers
      PROVE  /\ LinkedNumbers(n, primary)[m] \in Wallet
             /\ m = n => LinkedNumbers(n, primary)[m].primary = primary
             /\ m # n => (LinkedNumbers(n, primary)[m].primary <=> bank.wallets[m].primary /\ ~primary)
  <2>1. CASE m = n
    BY <2>1 DEF LinkedNumbers, Wallet
  <2>2. CASE m # n
    <3> DEFINE kept == bank.wallets[m].primary /\ ~primary
    <3>1. kept \in BOOLEAN /\ LinkedNumbers(n, primary)[m] = [bank.wallets[m] EXCEPT !.primary = kept]
      BY <2>2 DEF LinkedNumbers
    <3>2. bank.wallets[m] \in Wallet
      BY <1>1
    <3> HIDE DEF kept
    <3>3. LinkedNumbers(n, primary)[m] \in Wallet /\ LinkedNumbers(n, primary)[m].primary = kept
      BY <3>1, <3>2 DEF Wallet
    <3> QED BY <2>2, <3>3 DEF kept
  <2> QED BY <2>1, <2>2
<1>3. LinkedNumbers(n, primary) \in Wallets
  BY <1>2 DEF LinkedNumbers, Wallets, Wallet
<1>4. One(LinkedNumbers(n, primary))
  BY <1>2 DEF One
<1> QED BY <1>3, <1>4

LEMMA VerifiedOne ==
  ASSUME bank \in Bank, One(bank.wallets), NEW n \in Numbers
  PROVE  SelfVerified(n) \in Wallets /\ One(SelfVerified(n))
<1>1. bank.wallets \in [Numbers -> Wallet]
  BY DEF Bank, Wallets, Wallet
<1> DEFINE new == [bank.wallets[n] EXCEPT !.state = "verified"]
<1>2. new \in Wallet /\ new.primary = bank.wallets[n].primary
  BY <1>1 DEF Wallet
<1>3. SelfVerified(n) = [bank.wallets EXCEPT ![n] = new]
  BY DEF SelfVerified
<1> HIDE DEF new
<1>4. SelfVerified(n) \in Wallets
  BY <1>1, <1>2, <1>3 DEF Wallets, Wallet
<1>5. \A m \in Numbers : SelfVerified(n)[m].primary = bank.wallets[m].primary
  BY <1>1, <1>2, <1>3
<1> QED BY <1>4, <1>5 DEF One

LEMMA ReplacedOne ==
  ASSUME screen \in Screen, One(screen.wallets), NEW n \in Numbers, NEW record \in Wallet
  PROVE  Replaced(n, record) \in Wallets /\ One(Replaced(n, record))
<1>1. screen.wallets \in [Numbers -> Wallet]
  BY DEF Screen, Wallets, Wallet
<1>2. ASSUME NEW m \in Numbers
      PROVE  /\ Replaced(n, record)[m] \in Wallet
             /\ m = n => Replaced(n, record)[m] = record
             /\ m # n => (Replaced(n, record)[m].primary <=> screen.wallets[m].primary /\ ~record.primary)
  <2>1. CASE m = n
    BY <2>1 DEF Replaced
  <2>2. CASE m # n
    <3> DEFINE kept == screen.wallets[m].primary /\ ~record.primary
    <3>1. kept \in BOOLEAN /\ Replaced(n, record)[m] = [screen.wallets[m] EXCEPT !.primary = kept]
      BY <2>2 DEF Replaced
    <3>2. screen.wallets[m] \in Wallet
      BY <1>1
    <3> HIDE DEF kept
    <3>3. Replaced(n, record)[m] \in Wallet /\ Replaced(n, record)[m].primary = kept
      BY <3>1, <3>2 DEF Wallet
    <3> QED BY <2>2, <3>3 DEF kept
  <2> QED BY <2>1, <2>2
<1>3. Replaced(n, record) \in Wallets
  BY <1>2 DEF Replaced, Wallets, Wallet
<1>4. One(Replaced(n, record))
  BY <1>2 DEF One
<1> QED BY <1>3, <1>4

-----------------------------------------------------------------------------
\* Rounding to two decimals does not carry an amount over the ceiling.
LEMMA RoundedBelow ==
  ASSUME NEW amount \in Nat
  PROVE  Rounded(amount) \in Nat /\ (Rounded(amount) > PayCeiling => amount > PayCeiling)
<1>1. PayCeiling \in Nat /\ PayCeiling % 2 = 0
  BY WalletAssumption
<1>2. PICK k \in Nat : PayCeiling = 2 * k
  BY <1>1
<1> QED BY <1>2 DEF Rounded

LEMMA Grants ==
  ASSUME bank \in Bank, screen.visit \in Visit, NEW amount \in Nat, amount <= bank.balance,
         NEW told \in BOOLEAN
  PROVE  /\ Grant(amount, told) \in Bank
         /\ Grant(amount, told).wallets = bank.wallets
         /\ Grant(amount, told).payout.amount = amount /\ Grant(amount, told).payout.told = told
         /\ Grant(amount, told).payout.status = "pending" =>
              amount > PayCeiling /\ Grant(amount, told).balance = bank.balance
         /\ Grant(amount, told).taken[screen.visit] = bank.taken[screen.visit] + 1
         /\ \A v \in Visit : v # screen.visit => Grant(amount, told).taken[v] = bank.taken[v]
<1> DEFINE held == amount > PayCeiling
           payout == [status |-> IF held THEN "pending" ELSE "processing", amount |-> amount, told |-> told]
           taken == [bank.taken EXCEPT ![screen.visit] = @ + 1]
           balance == IF held THEN bank.balance ELSE bank.balance - amount
<1>1. payout \in Payouts /\ payout.amount = amount /\ payout.told = told
      /\ (payout.status = "pending" => held)
  BY DEF Payouts
<1>2. bank.taken \in [Visit -> Nat] /\ bank.balance \in 0..PayBalance
  BY DEF Bank
<1>3. taken \in [Visit -> Nat] /\ taken[screen.visit] = bank.taken[screen.visit] + 1
      /\ \A v \in Visit : v # screen.visit => taken[v] = bank.taken[v]
  BY <1>2
<1>4. balance \in 0..PayBalance /\ (held => balance = bank.balance)
  BY <1>2, Naturals
<1>5. Grant(amount, told) = [bank EXCEPT !.payout = payout, !.taken = taken, !.balance = balance]
  BY DEF Grant, Bank
<1> HIDE DEF payout, taken, balance
<1> QED BY <1>1, <1>3, <1>4, <1>5 DEF Bank

LEMMA SubmitKeeps == ASSUME WalletInv, SubmitRequestPayout PROVE WalletInv'
<1> DEFINE amount == Rounded(screen.amount)
           told == ToldOfApproval
           granted == Granted(amount)
<1>1. PICK heard \in BOOLEAN :
        /\ bank' = IF granted THEN Grant(amount, told) ELSE bank
        /\ SendsCall("request", screen.visit, {}, granted /\ heard)
        /\ screen' = [screen EXCEPT !.unheard = IF heard THEN @ ELSE @ \cup {screen.visit}]
        /\ use' = use
  BY DEF SubmitRequestPayout, WalletInv, ScreenTypes
<1>2. /\ screen.form = "payout" /\ ~Outstanding("request")
      /\ screen.amount \in PayAmounts /\ screen.amount \in Nat /\ screen.visit \in Visit
      /\ bank \in Bank /\ screen \in Screen /\ sent \subseteq SentCall
  BY Naturals DEF SubmitRequestPayout, PayoutFormReady, WalletInv, ScreenTypes, PayoutInv
<1>3. amount \in Nat /\ (amount > PayCeiling => screen.amount > PayCeiling)
  BY <1>2, RoundedBelow
<1>4. told \in BOOLEAN /\ (amount > PayCeiling => told)
  <2>1. Preview = "payable" => screen.amount <= PayCeiling
    BY <1>2 DEF Preview, WalletInv, PayoutInv
  <2> QED BY <2>1, <1>2, <1>3, Naturals DEF ToldOfApproval
<1>5. bank.taken[screen.visit] = 0 \/ screen.visit \in screen.unheard
  BY <1>2 DEF WalletInv, PayoutInv, Outstanding, Taking
<1>6. granted => amount <= bank.balance
  BY DEF Granted, Payable
<1> HIDE DEF amount, told, granted
<1>7. /\ bank' \in Bank /\ bank'.wallets = bank.wallets
      /\ ~granted => bank' = bank
      /\ granted => /\ bank'.payout.amount = amount /\ bank'.payout.told = told
                    /\ bank'.payout.status = "pending" => amount > PayCeiling /\ bank'.balance = bank.balance
                    /\ bank'.taken[screen.visit] = bank.taken[screen.visit] + 1
                    /\ \A v \in Visit : v # screen.visit => bank'.taken[v] = bank.taken[v]
  BY <1>1, <1>2, <1>3, <1>4, <1>6, Grants
<1>8. /\ screen' \in Screen /\ screen'.form = screen.form /\ screen'.amount = screen.amount
      /\ screen'.visit = screen.visit /\ screen'.previews = screen.previews
      /\ screen'.wallets = screen.wallets
      /\ screen'.unheard = IF heard THEN screen.unheard ELSE screen.unheard \cup {screen.visit}
  BY <1>1, <1>2 DEF Screen
<1>9. /\ sent' \subseteq SentCall /\ sent \subseteq sent'
      /\ \A c \in sent' : c \in sent \/ c.wallets = bank'.wallets
      /\ granted /\ heard => \E c \in sent' : Taking(c)
  <2>1. "request" \in Whats /\ screen.visit \in Nat /\ {} \in SUBSET Numbers /\ (granted /\ heard) \in BOOLEAN
    BY <1>2, Naturals DEF Whats, Screen
  <2>2. /\ sent' \subseteq SentCall /\ sent \subseteq sent'
        /\ \A c \in sent' : c \in sent \/ c.wallets = bank'.wallets
        /\ \E c \in sent' : c.what = "request" /\ c.ok = (granted /\ heard)
    BY <1>1, <1>2, <1>7, <2>1, SentCalls
  <2> QED BY <2>2 DEF Taking
<1>10. WalletsInv'
  BY <1>7, <1>8, <1>9, WalletsStay
<1>11. HeldAsTold' /\ (bank'.payout.status = "pending" => bank'.payout.amount <= bank'.balance)
  BY <1>4, <1>6, <1>7 DEF HeldAsTold, WalletInv, PayoutInv
<1>12. \A v \in Visit : v > screen'.visit => bank'.taken[v] = 0
  BY <1>2, <1>7, <1>8, Naturals DEF WalletInv, PayoutInv
<1>13. OncePerForm'
  <2> SUFFICES ASSUME NEW v \in Visit PROVE bank'.taken[v] <= 1 \/ v \in screen'.unheard
    BY DEF OncePerForm
  <2>1. bank.taken[v] <= 1 \/ v \in screen.unheard
    BY DEF WalletInv, PayoutInv, OncePerForm
  <2> QED BY <2>1, <1>5, <1>7, <1>8
<1>14. (\A c \in sent' : ~Taking(c)) => bank'.taken[screen'.visit] = 0 \/ screen'.visit \in screen'.unheard
  BY <1>5, <1>7, <1>8, <1>9
<1>15. ScreenTypes'
  BY <1>1, <1>7, <1>8, <1>9 DEF WalletInv, ScreenTypes
<1>16. PayoutInv'
  BY <1>2, <1>8, <1>11, <1>12, <1>13, <1>14 DEF WalletInv, PayoutInv
<1> QED BY <1>10, <1>15, <1>16 DEF WalletInv

\* A payout that goes on, or is withdrawn.
LEMMA PayoutMoves ==
  ASSUME WalletInv, UNCHANGED <<use, screen>>, sent' \subseteq SentCall, sent \subseteq sent',
         \A c \in sent' : c \in sent \/ c.wallets = bank'.wallets,
         bank' \in Bank, bank'.payout.status # "pending", bank'.taken = bank.taken,
         bank'.wallets = bank.wallets
  PROVE  WalletInv'
<1>1. WalletsInv'
  BY WalletsStay
<1>2. PayoutInv'
  BY DEF WalletInv, PayoutInv, HeldAsTold, OncePerForm
<1>3. ScreenTypes'
  BY DEF WalletInv, ScreenTypes
<1> QED BY <1>1, <1>2, <1>3 DEF WalletInv

\* A payout keeps its type when its status changes.
LEMMA StatusType ==
  ASSUME bank \in Bank, NEW status \in {"processing", "completed", "cancelled"}
  PROVE  /\ [bank.payout EXCEPT !.status = status] \in Payouts
         /\ [bank.payout EXCEPT !.status = status].status = status
         /\ [bank EXCEPT !.payout.status = status] =
              [bank EXCEPT !.payout = [bank.payout EXCEPT !.status = status]]
BY DEF Bank, Payouts

\* The wallets change on the server, and a call tells what they are then.
LEMMA BankWalletsChange ==
  ASSUME WalletInv, use' = use, NEW wallets \in Wallets, One(wallets),
         bank' = [bank EXCEPT !.wallets = wallets],
         screen' \in Screen, screen'.visit = screen.visit, screen'.unheard = screen.unheard,
         screen'.previews = screen.previews, screen'.wallets = screen.wallets,
         screen'.form = screen.form, screen'.amount = screen.amount,
         sent' \subseteq SentCall, \A c \in sent : Taking(c) => c \in sent',
         \A c \in sent' : One(c.wallets)
  PROVE  WalletInv'
<1>1. /\ bank' \in Bank /\ bank'.wallets = wallets /\ bank'.payout = bank.payout
      /\ bank'.balance = bank.balance /\ bank'.taken = bank.taken
  BY DEF WalletInv, ScreenTypes, Bank
<1>2. WalletsInv'
  BY <1>1 DEF WalletInv, WalletsInv, One
<1>3. /\ \A a \in PayAmounts : screen'.previews[a] = "payable" => a <= PayCeiling
      /\ screen'.form = "payout" => screen'.amount \in PayAmounts
  BY DEF WalletInv, PayoutInv
<1> QED BY <1>1, <1>2, <1>3, PayoutsStay

LEMMA VerifyKeeps ==
  ASSUME WalletInv, NEW n \in Numbers, VerifyNumber(n),
         screen' \in Screen, screen'.visit = screen.visit, screen'.unheard = screen.unheard,
         screen'.previews = screen.previews, screen'.wallets = screen.wallets,
         screen'.form = screen.form, screen'.amount = screen.amount
  PROVE  WalletInv'
<1>1. PICK reached \in BOOLEAN, heard \in BOOLEAN :
        /\ bank' = IF reached THEN [bank EXCEPT !.wallets = SelfVerified(n)] ELSE bank
        /\ SendsCall("verify", 0, {n}, reached /\ heard)
        /\ use' = use
  BY DEF VerifyNumber, WalletInv, ScreenTypes
<1>2. bank \in Bank /\ sent \subseteq SentCall /\ One(bank.wallets) /\ bank.wallets \in Wallets
  BY DEF WalletInv, ScreenTypes, WalletsInv, Bank
<1>3. PICK wallets \in Wallets : One(wallets) /\ bank' = [bank EXCEPT !.wallets = wallets]
  <2>1. CASE reached
    BY <1>1, <1>2, <2>1, VerifiedOne
  <2>2. CASE ~reached
    <3>1. bank' = [bank EXCEPT !.wallets = bank.wallets]
      BY <1>1, <1>2, <2>2 DEF Bank
    <3> QED BY <1>2, <3>1
  <2> QED BY <2>1, <2>2
<1>4. bank' \in Bank /\ bank'.wallets = wallets
  BY <1>2, <1>3 DEF Bank
<1>5. /\ sent' \subseteq SentCall /\ sent \subseteq sent'
      /\ \A c \in sent' : c \in sent \/ c.wallets = wallets
  <2>1. "verify" \in Whats /\ {n} \in SUBSET Numbers /\ 0 \in Nat /\ (reached /\ heard) \in BOOLEAN
    BY DEF Whats
  <2> QED BY <1>1, <1>2, <1>4, <2>1, SentCalls
<1>6. \A c \in sent' : One(c.wallets)
  BY <1>3, <1>5 DEF WalletInv, WalletsInv
<1> QED BY <1>1, <1>3, <1>5, <1>6, BankWalletsChange

-----------------------------------------------------------------------------
LEMMA WalletInitial == WalletInit => WalletInv
<1> SUFFICES ASSUME WalletInit PROVE WalletInv
  OBVIOUS
<1>1. PICK first \in Numbers :
        LET linked == [n \in Numbers |-> IF use.part = "payouts" /\ n = first
                                        THEN [state |-> "verified", primary |-> TRUE] ELSE Unlinked]
        IN
         /\ bank = [balance |-> PayBalance, payout |-> [status |-> "none", amount |-> 0, told |-> FALSE],
                    taken |-> [v \in Visit |-> 0], wallets |-> linked, dva |-> FALSE]
         /\ screen = [form |-> "none", amount |-> 0, visit |-> 0, unheard |-> {},
                      balance |-> PayBalance, payout |-> bank.payout, previews |-> [a \in PayAmounts |-> "none"],
                      wallets |-> linked, tried |-> {}, dva |-> FALSE]
  BY DEF WalletInit
<1> DEFINE linked == [n \in Numbers |-> IF use.part = "payouts" /\ n = first
                                       THEN [state |-> "verified", primary |-> TRUE] ELSE Unlinked]
<1>2. linked \in Wallets /\ One(linked)
  BY DEF Wallets, Unlinked, One
<1>3. bank.wallets = linked /\ screen.wallets = linked
  BY <1>1
<1>4. bank \in Bank /\ screen \in Screen
  <2>1. bank = [balance |-> PayBalance, payout |-> [status |-> "none", amount |-> 0, told |-> FALSE],
                taken |-> [v \in Visit |-> 0], wallets |-> linked, dva |-> FALSE]
    BY <1>1
  <2>2. screen = [form |-> "none", amount |-> 0, visit |-> 0, unheard |-> {},
                  balance |-> PayBalance, payout |-> bank.payout, previews |-> [a \in PayAmounts |-> "none"],
                  wallets |-> linked, tried |-> {}, dva |-> FALSE]
    BY <1>1
  <2> HIDE DEF linked
  <2>3. bank \in Bank
    BY <2>1, <1>2, Naturals DEF Bank, Payouts
  <2>4. screen \in Screen
    BY <2>1, <2>2, <1>2, Naturals DEF Screen, Payouts
  <2> QED BY <2>3, <2>4
<1>5. ScreenTypes
  BY <1>4 DEF WalletInit, ScreenTypes
<1>6. WalletsInv
  BY <1>2, <1>3 DEF WalletInit, WalletsInv
<1>7. PayoutInv
  BY <1>1 DEF WalletInit, PayoutInv, HeldAsTold, OncePerForm
<1> QED BY <1>5, <1>6, <1>7 DEF WalletInv

LEMMA TapsStep == ASSUME WalletInv, WalletTaps PROVE WalletInv'
<1>T. /\ use \in WalletUses /\ bank \in Bank /\ screen \in Screen /\ sent \subseteq SentCall
      /\ One(bank.wallets) /\ One(screen.wallets) /\ bank.wallets \in Wallets
      /\ screen.form = "payout" => screen.amount \in PayAmounts
      /\ \A a \in PayAmounts : screen.previews[a] = "payable" => a <= PayCeiling
  BY DEF WalletInv, ScreenTypes, WalletsInv, PayoutInv, Bank
<1>1. CASE RefetchBalance
  <2>1. /\ screen' \in Screen /\ screen'.form = screen.form /\ screen'.amount = screen.amount
        /\ screen'.visit = screen.visit /\ screen'.unheard = screen.unheard
        /\ screen'.previews = screen.previews /\ screen'.wallets = screen.wallets
    BY <1>1, <1>T DEF RefetchBalance, Screen, Bank
  <2> QED BY <1>1, <1>T, <2>1, FormKeeps DEF RefetchBalance
<1>2. CASE OpenRequestPayout
  <2>1. /\ screen.visit + 1 \in Visit /\ screen.visit \in Nat
        /\ screen.balance \in PayAmounts /\ screen.balance \in Nat
    BY <1>2, <1>T, Naturals, WalletAssumption DEF OpenRequestPayout, Screen
  <2>2. /\ screen' \in Screen /\ screen'.form = "payout" /\ screen'.amount = screen.balance
        /\ screen'.visit = screen.visit + 1 /\ screen'.unheard = screen.unheard
        /\ screen'.previews = screen.previews /\ screen'.wallets = screen.wallets
        /\ UNCHANGED <<use, bank, sent>>
    <3> DEFINE opened == [screen EXCEPT !.form = "payout", !.amount = screen.balance,
                                        !.visit = screen.visit + 1]
    <3>1. screen' = opened /\ UNCHANGED <<use, bank, sent>>
      BY <1>2 DEF OpenRequestPayout
    <3>2. screen.visit + 1 \in 0..MaxVisits
      BY <2>1, Naturals
    <3>3. opened \in Screen
      BY <1>T, <2>1, <3>2 DEF Screen
    <3>4. /\ opened.form = "payout" /\ opened.amount = screen.balance
          /\ opened.visit = screen.visit + 1 /\ opened.unheard = screen.unheard
          /\ opened.previews = screen.previews /\ opened.wallets = screen.wallets
      BY <1>T DEF Screen
    <3> QED BY <3>1, <3>3, <3>4
  <2>3. PayoutInv'
    BY <2>1, <2>2, Naturals DEF WalletInv, PayoutInv, HeldAsTold, OncePerForm
  <2>4. WalletsInv'
    BY <2>2, WalletsStay
  <2>5. ScreenTypes'
    BY <2>2, <1>T DEF ScreenTypes
  <2> QED BY <2>3, <2>4, <2>5 DEF WalletInv
<1>3. CASE EnterAmount
  <2>1. PICK amount \in PayAmounts : screen' = [screen EXCEPT !.amount = amount]
    BY <1>3 DEF EnterAmount
  <2>2. /\ screen' \in Screen /\ screen'.form = screen.form /\ screen'.amount = amount
        /\ screen'.visit = screen.visit /\ screen'.unheard = screen.unheard
        /\ screen'.previews = screen.previews /\ screen'.wallets = screen.wallets
    BY <1>T, <2>1, Naturals DEF Screen
  <2> QED BY <1>3, <2>1, <2>2, FormKeeps DEF EnterAmount
<1>4. CASE CloseWalletForm
  <2>1. /\ screen' \in Screen /\ screen'.form = "none"
        /\ screen'.visit = screen.visit /\ screen'.unheard = screen.unheard
        /\ screen'.previews = screen.previews /\ screen'.wallets = screen.wallets
    BY <1>4, <1>T DEF CloseWalletForm, Screen
  <2> QED BY <1>4, <2>1, FormKeeps DEF CloseWalletForm
<1>5. CASE ReadPreview
  <2>1. PICK ok \in BOOLEAN : SendsCall("preview", screen.amount, {}, ok)
    BY <1>5, <1>T DEF ReadPreview
  <2>2. UNCHANGED <<use, bank>> /\ screen.form = "payout" /\ screen.amount \in PayAmounts
    BY <1>5, <1>T DEF ReadPreview
  <2> DEFINE seen == screen.previews[screen.amount]
             shown == [screen.previews EXCEPT ![screen.amount] = IF seen \in {"none", "failed"} THEN "awaited" ELSE seen]
  <2>3. screen' = [screen EXCEPT !.previews = shown]
    BY <1>5, <1>T DEF ReadPreview, Screen
  <2>4. /\ shown \in [PayAmounts -> {"none", "awaited", "payable", "held", "refused", "failed"}]
        /\ \A a \in PayAmounts : shown[a] = "payable" => a <= PayCeiling
    BY <1>T, <2>2 DEF Screen
  <2> HIDE DEF shown, seen
  <2>5. /\ screen' \in Screen /\ screen'.form = screen.form /\ screen'.amount = screen.amount
        /\ screen'.visit = screen.visit /\ screen'.unheard = screen.unheard
        /\ screen'.previews = shown /\ screen'.wallets = screen.wallets
    BY <1>T, <2>3, <2>4 DEF Screen
  <2>6. /\ sent' \subseteq SentCall /\ sent \subseteq sent'
        /\ \A c \in sent' : c \in sent \/ c.wallets = bank'.wallets
    BY <1>T, <2>1, <2>2, Naturals, SentCalls DEF Whats
  <2>7. WalletsInv'
    BY <2>2, <2>5, <2>6, WalletsStay
  <2>8. bank' \in Bank
    BY <1>T, <2>2
  <2> QED BY <2>2, <2>4, <2>5, <2>6, <2>7, <2>8, PayoutsStay
<1>6. CASE SubmitRequestPayout
  BY <1>6, SubmitKeeps
<1>7. CASE CancelSettlement
  <2>1. PICK heard \in BOOLEAN :
          /\ bank' = IF bank.payout.status = "pending" THEN [bank EXCEPT !.payout.status = "cancelled"] ELSE bank
          /\ SendsCall("cancel", 0, {}, heard /\ bank.payout.status = "pending")
          /\ UNCHANGED <<use, screen>>
    BY <1>7, <1>T DEF CancelSettlement
  <2>2. /\ bank' \in Bank /\ bank'.payout.status # "pending" /\ bank'.taken = bank.taken
        /\ bank'.wallets = bank.wallets
    <3>1. CASE bank.payout.status = "pending"
      BY <1>T, <2>1, <3>1, StatusType DEF Bank
    <3>2. CASE bank.payout.status # "pending"
      BY <1>T, <2>1, <3>2
    <3> QED BY <3>1, <3>2
  <2>3. /\ sent' \subseteq SentCall /\ sent \subseteq sent'
        /\ \A c \in sent' : c \in sent \/ c.wallets = bank'.wallets
    <3>1. "cancel" \in Whats /\ 0 \in Nat /\ {} \in SUBSET Numbers
          /\ (heard /\ bank.payout.status = "pending") \in BOOLEAN
      BY DEF Whats
    <3> QED BY <1>T, <2>1, <2>2, <3>1, SentCalls
  <2> QED BY <2>1, <2>2, <2>3, PayoutMoves
<1>8. CASE VerifyWallet
  BY <1>8, <1>T, VerifyKeeps DEF VerifyWallet, Unverified
<1>9. CASE OpenAddWallet
  <2>1. /\ screen' \in Screen /\ screen'.form = "wallet"
        /\ screen'.visit = screen.visit /\ screen'.unheard = screen.unheard
        /\ screen'.previews = screen.previews /\ screen'.wallets = screen.wallets
    BY <1>9, <1>T DEF OpenAddWallet, Screen
  <2> QED BY <1>9, <2>1, FormKeeps DEF OpenAddWallet
<1>10. CASE LinkWallet
  <2> DEFINE primary == \A m \in Numbers : screen.wallets[m].state = "none"
  <2>1. PICK n \in Numbers, reached \in BOOLEAN, heard \in BOOLEAN :
          /\ bank' = IF reached THEN [bank EXCEPT !.wallets = LinkedNumbers(n, primary)] ELSE bank
          /\ SendsCall("add", 0, {n}, reached /\ heard)
          /\ UNCHANGED <<use, screen>>
    BY <1>10, <1>T DEF LinkWallet
  <2>2. primary \in BOOLEAN
    OBVIOUS
  <2> HIDE DEF primary
  <2>3. PICK wallets \in Wallets : One(wallets) /\ bank' = [bank EXCEPT !.wallets = wallets]
    <3>1. CASE reached
      BY <1>T, <2>1, <2>2, <3>1, LinkedOne
    <3>2. CASE ~reached
      <4>1. bank' = [bank EXCEPT !.wallets = bank.wallets]
        BY <1>T, <2>1, <3>2 DEF Bank
      <4> QED BY <1>T, <4>1
    <3> QED BY <3>1, <3>2
  <2>4. bank' \in Bank /\ bank'.wallets = wallets
    BY <1>T, <2>3 DEF Bank
  <2>5. /\ sent' \subseteq SentCall /\ sent \subseteq sent'
        /\ \A c \in sent' : c \in sent \/ c.wallets = wallets
    <3>1. "add" \in Whats /\ 0 \in Nat /\ {n} \in SUBSET Numbers /\ (reached /\ heard) \in BOOLEAN
      BY DEF Whats
    <3> QED BY <1>T, <2>1, <2>4, <3>1, SentCalls
  <2>6. \A c \in sent' : One(c.wallets)
    BY <2>3, <2>5 DEF WalletInv, WalletsInv
  <2> QED BY <1>T, <2>1, <2>3, <2>5, <2>6, BankWalletsChange
<1>11. CASE RetryDva
  <2>1. PICK given \in BOOLEAN :
          /\ bank' = [bank EXCEPT !.dva = @ \/ given]
          /\ SendsCall("dva", 0, {}, bank'.dva)
          /\ UNCHANGED <<use, screen>>
    BY <1>11 DEF RetryDva
  <2>2. /\ bank' \in Bank /\ bank'.wallets = bank.wallets /\ bank'.payout = bank.payout
        /\ bank'.balance = bank.balance /\ bank'.taken = bank.taken
    <3> DEFINE dva == bank.dva \/ given
    <3>1. dva \in BOOLEAN /\ bank' = [bank EXCEPT !.dva = dva]
      BY <2>1
    <3> HIDE DEF dva
    <3> QED BY <1>T, <3>1 DEF Bank
  <2>3. /\ sent' \subseteq SentCall /\ sent \subseteq sent'
        /\ \A c \in sent' : c \in sent \/ c.wallets = bank'.wallets
    <3>1. "dva" \in Whats /\ 0 \in Nat /\ {} \in SUBSET Numbers /\ bank'.dva \in BOOLEAN
      BY <2>2 DEF Whats, Bank
    <3> QED BY <1>T, <2>1, <2>2, <3>1, SentCalls
  <2>4. WalletsInv'
    BY <2>1, <2>2, <2>3, WalletsStay
  <2> QED BY <1>T, <2>1, <2>2, <2>3, <2>4, PayoutsStay
<1> QED
  BY <1>1, <1>2, <1>3, <1>4, <1>5, <1>6, <1>7, <1>8, <1>9, <1>10, <1>11 DEF WalletTaps

\* The wallets on the phone are replaced by an answer's.
LEMMA PhoneWalletsChange ==
  ASSUME WalletInv, UNCHANGED <<use, bank>>, NEW wallets \in Wallets, One(wallets),
         NEW form \in {screen.form, "none"},
         screen' = [screen EXCEPT !.wallets = wallets, !.form = form],
         sent' \subseteq SentCall, \A c \in sent : Taking(c) => c \in sent',
         \A c \in sent' : One(c.wallets)
  PROVE  WalletInv'
<1>1. /\ screen' \in Screen /\ screen'.wallets = wallets /\ screen'.form = form
      /\ screen'.visit = screen.visit /\ screen'.unheard = screen.unheard
      /\ screen'.previews = screen.previews /\ screen'.amount = screen.amount
  BY DEF WalletInv, ScreenTypes, Screen
<1>2. WalletsInv'
  BY <1>1 DEF WalletInv, WalletsInv, One
<1>3. /\ bank' \in Bank
      /\ \A a \in PayAmounts : screen'.previews[a] = "payable" => a <= PayCeiling
      /\ screen'.form = "payout" => screen.form = "payout" /\ screen'.amount \in PayAmounts
  BY <1>1 DEF WalletInv, ScreenTypes, PayoutInv
<1> QED BY <1>1, <1>2, <1>3, PayoutsStay

\* The session is read anew behind an answer that is no payout's.
LEMMA BootstrapSent ==
  ASSUME WalletInv, UNCHANGED bank, NEW c \in sent, ~Taking(c), sent' = Bootstrapped(c)
  PROVE  /\ sent' \subseteq SentCall /\ \A d \in sent : Taking(d) => d \in sent'
         /\ \A d \in sent' : One(d.wallets)
<1> DEFINE new == WalletCall("bootstrap", 0, {}, TRUE)
<1>1. sent' = (sent \ {c}) \cup {new}
  BY DEF Bootstrapped
<1>2. new \in SentCall /\ new.wallets = bank.wallets
  BY DEF WalletCall, SentCall, Whats, WalletInv, ScreenTypes, Bank
<1> HIDE DEF new
<1> QED BY <1>1, <1>2 DEF WalletInv, ScreenTypes, WalletsInv

LEMMA AnswersStep == ASSUME WalletInv, WalletAnswers PROVE WalletInv'
<1>T. /\ use \in WalletUses /\ bank \in Bank /\ screen \in Screen /\ sent \subseteq SentCall
      /\ One(bank.wallets) /\ One(screen.wallets) /\ screen.wallets \in Wallets
      /\ \A c \in sent : One(c.wallets) /\ c.wallets \in Wallets /\ c.of \subseteq Numbers
      /\ \A a \in PayAmounts : screen.previews[a] = "payable" => a <= PayCeiling
  BY DEF WalletInv, ScreenTypes, WalletsInv, PayoutInv, Screen, SentCall
<1>0. screen.wallets = screen.wallets /\ \A c \in sent, n \in Numbers : c.wallets[n] \in Wallet
  BY <1>T DEF Wallets, Wallet
<1>1. CASE PreviewAnswered
  <2>1. PICK c \in sent :
          /\ c.what = "preview" /\ sent' = sent \ {c} /\ UNCHANGED <<use, bank>>
          /\ screen' = [screen EXCEPT !.previews[c.about] =
               IF c.ok THEN (IF ~Payable(c.about) THEN "refused" ELSE IF c.about > PayCeiling THEN "held" ELSE "payable")
               ELSE IF @ = "awaited" THEN "failed" ELSE @]
    BY <1>1 DEF PreviewAnswered
  <2> DEFINE seen == screen.previews[c.about]
             answer == IF c.ok THEN (IF ~Payable(c.about) THEN "refused" ELSE IF c.about > PayCeiling THEN "held" ELSE "payable")
                       ELSE IF seen = "awaited" THEN "failed" ELSE seen
             shown == [screen.previews EXCEPT ![c.about] = answer]
  <2>2. screen' = [screen EXCEPT !.previews = shown]
    BY <2>1
  <2>3. c.about \in PayAmounts => answer \in {"none", "awaited", "payable", "held", "refused", "failed"}
    BY <1>T DEF Screen
  <2>4. c.about \in PayAmounts => (answer = "payable" => c.about <= PayCeiling)
    <3> SUFFICES ASSUME c.about \in PayAmounts, answer = "payable"
                 PROVE  c.about <= PayCeiling
      OBVIOUS
    <3>1. CASE c.ok
      <4>1. answer = IF ~Payable(c.about) THEN "refused" ELSE IF c.about > PayCeiling THEN "held" ELSE "payable"
        BY <3>1
      <4>2. CASE c.about > PayCeiling
        <5>1. answer \in {"refused", "held"}
          BY <4>1, <4>2
        <5> QED BY <5>1
      <4>3. c.about \in Nat /\ PayCeiling \in Nat
        BY Naturals
      <4>4. CASE ~(c.about > PayCeiling)
        BY ONLY <4>3, <4>4
      <4> QED BY <4>2, <4>4
    <3>2. CASE ~c.ok
      <4>1. seen = "payable"
        BY <3>2
      <4> QED BY <4>1, <1>T
    <3> QED BY <3>1, <3>2
  <2> HIDE DEF answer, seen
  <2>5. /\ shown \in [PayAmounts -> {"none", "awaited", "payable", "held", "refused", "failed"}]
        /\ \A a \in PayAmounts : shown[a] = "payable" => a <= PayCeiling
    BY <1>T, <2>3, <2>4 DEF Screen
  <2> HIDE DEF shown
  <2>6. /\ screen' \in Screen /\ screen'.form = screen.form /\ screen'.amount = screen.amount
        /\ screen'.visit = screen.visit /\ screen'.unheard = screen.unheard
        /\ screen'.previews = shown /\ screen'.wallets = screen.wallets
    BY <1>T, <2>2, <2>5 DEF Screen
  <2>7. ~Taking(c)
    BY <2>1 DEF Taking
  <2> QED BY <2>1, <2>5, <2>6, <2>7, AnswerLeaves
<1>2. CASE RequestAnswered
  <2>1. PICK c \in sent :
          /\ sent' = sent \ {c} /\ UNCHANGED <<use, bank>>
          /\ screen' = [screen EXCEPT !.form = IF c.ok THEN "none" ELSE @]
    BY <1>2 DEF RequestAnswered
  <2>2. /\ screen' \in Screen /\ screen'.form = (IF c.ok THEN "none" ELSE screen.form)
        /\ screen'.amount = screen.amount /\ screen'.visit = screen.visit
        /\ screen'.unheard = screen.unheard /\ screen'.previews = screen.previews
        /\ screen'.wallets = screen.wallets
    BY <1>T, <2>1 DEF Screen
  <2> QED BY <1>T, <2>1, <2>2, AnswerLeaves DEF Taking
<1>3. CASE CancelAnswered
  <2>1. PICK c \in sent : ~Taking(c) /\ sent' = sent \ {c} /\ UNCHANGED <<use, bank, screen>>
    BY <1>3 DEF CancelAnswered, Taking
  <2>2. screen' \in Screen
    BY <1>T, <2>1
  <2> QED BY <1>T, <2>1, <2>2, AnswerLeaves
<1>4. CASE VerifyAnswered
  <2>1. PICK c \in sent, n \in Numbers :
          /\ c.what = "verify" /\ UNCHANGED <<use, bank>>
          /\ screen' = [screen EXCEPT !.wallets = IF c.ok THEN Replaced(n, c.wallets[n]) ELSE @]
          /\ sent' = IF c.ok THEN Bootstrapped(c) ELSE sent \ {c}
    BY <1>4, <1>T DEF VerifyAnswered
  <2>2. ~Taking(c)
    BY <2>1 DEF Taking
  <2>3. CASE c.ok
    <3>1. Replaced(n, c.wallets[n]) \in Wallets /\ One(Replaced(n, c.wallets[n]))
      BY <1>T, <1>0, ReplacedOne
    <3>2. screen' = [screen EXCEPT !.wallets = Replaced(n, c.wallets[n]), !.form = screen.form]
      BY <1>T, <2>1, <2>3 DEF Screen
    <3>3. /\ sent' \subseteq SentCall /\ \A d \in sent : Taking(d) => d \in sent'
          /\ \A d \in sent' : One(d.wallets)
      BY <2>1, <2>2, <2>3, BootstrapSent
    <3> QED BY <2>1, <3>1, <3>2, <3>3, PhoneWalletsChange
  <2>4. CASE ~c.ok
    <3>1. screen' = screen
      BY <1>T, <2>1, <2>4 DEF Screen
    <3>2. screen' \in Screen
      BY <1>T, <3>1
    <3> QED BY <1>T, <2>1, <2>2, <2>4, <3>1, <3>2, AnswerLeaves
  <2> QED BY <2>3, <2>4
<1>5. CASE BootstrapAnswered
  <2>1. PICK c \in sent :
          /\ ~Taking(c) /\ UNCHANGED <<use, bank>> /\ sent' = sent \ {c}
          /\ screen' = [screen EXCEPT !.wallets = c.wallets]
    BY <1>5 DEF BootstrapAnswered, Taking
  <2>2. screen' = [screen EXCEPT !.wallets = c.wallets, !.form = screen.form]
    BY <1>T, <2>1 DEF Screen
  <2>3. /\ sent' \subseteq SentCall /\ \A d \in sent : Taking(d) => d \in sent'
        /\ \A d \in sent' : One(d.wallets)
    BY <1>T, <2>1
  <2> QED BY <1>T, <2>1, <2>2, <2>3, PhoneWalletsChange
<1>6. CASE LinkAnswered
  <2> DEFINE told(c, n, reached) ==
        [WalletCall("selfverify", 0, {n}, TRUE) EXCEPT !.wallets = IF reached THEN @ ELSE c.wallets]
  <2>1. PICK c \in sent, n \in Numbers, reached \in BOOLEAN :
          /\ c.what = "add" /\ UNCHANGED <<use, screen>>
          /\ bank' = IF c.ok /\ reached THEN [bank EXCEPT !.wallets = SelfVerified(n)] ELSE bank
          /\ sent' = (sent \ {c}) \cup IF ~c.ok THEN {} ELSE {told(c, n, reached)}
    BY <1>6, <1>T DEF LinkAnswered
  <2>2. PICK wallets \in Wallets : One(wallets) /\ bank' = [bank EXCEPT !.wallets = wallets]
    <3>1. CASE c.ok /\ reached
      BY <1>T, <2>1, <3>1, VerifiedOne
    <3>2. CASE ~(c.ok /\ reached)
      <4>1. bank' = [bank EXCEPT !.wallets = bank.wallets] /\ bank.wallets \in Wallets
        BY <1>T, <2>1, <3>2 DEF Bank
      <4> QED BY <1>T, <4>1
    <3> QED BY <3>1, <3>2
  <2>3. bank'.wallets = wallets
    BY <1>T, <2>2 DEF Bank
  <2>4. told(c, n, reached) \in SentCall /\ One(told(c, n, reached).wallets)
    <3> DEFINE new == WalletCall("selfverify", 0, {n}, TRUE)
    <3>1. new \in SentCall /\ new.wallets = wallets
      BY <2>3 DEF WalletCall, SentCall, Whats
    <3>2. told(c, n, reached) = [new EXCEPT !.wallets = IF reached THEN wallets ELSE c.wallets]
      BY <3>1
    <3> HIDE DEF new, told
    <3>3. (IF reached THEN wallets ELSE c.wallets) \in Wallets /\ One(IF reached THEN wallets ELSE c.wallets)
      BY <1>T, <2>2
    <3> QED BY <3>1, <3>2, <3>3 DEF SentCall
  <2> HIDE DEF told
  <2>5. /\ sent' \subseteq SentCall /\ \A d \in sent : Taking(d) => d \in sent'
        /\ \A d \in sent' : One(d.wallets)
    BY <1>T, <2>1, <2>4 DEF Taking
  <2> QED BY <1>T, <2>1, <2>2, <2>5, BankWalletsChange
<1>7. CASE LinkedAndVerified
  <2>1. PICK c \in sent, n \in Numbers :
          /\ c.what = "selfverify" /\ UNCHANGED <<use, bank>>
          /\ screen' = [screen EXCEPT !.wallets = Replaced(n, c.wallets[n]), !.form = "none"]
          /\ sent' = Bootstrapped(c)
    BY <1>7, <1>T DEF LinkedAndVerified
  <2>2. Replaced(n, c.wallets[n]) \in Wallets /\ One(Replaced(n, c.wallets[n]))
    BY <1>T, <1>0, ReplacedOne
  <2>3. /\ sent' \subseteq SentCall /\ \A d \in sent : Taking(d) => d \in sent'
        /\ \A d \in sent' : One(d.wallets)
    BY <2>1, BootstrapSent DEF Taking
  <2> QED BY <2>1, <2>2, <2>3, PhoneWalletsChange
<1>8. CASE DvaAnswered
  <2>1. PICK c \in sent :
          /\ ~Taking(c) /\ UNCHANGED <<use, bank>> /\ sent' = sent \ {c}
          /\ screen' = [screen EXCEPT !.dva = c.ok]
    BY <1>8 DEF DvaAnswered, Taking
  <2>2. /\ screen' \in Screen /\ screen'.form = screen.form /\ screen'.amount = screen.amount
        /\ screen'.visit = screen.visit /\ screen'.unheard = screen.unheard
        /\ screen'.previews = screen.previews /\ screen'.wallets = screen.wallets
    BY <1>T, <2>1 DEF Screen, SentCall
  <2> QED BY <1>T, <2>1, <2>2, AnswerLeaves
<1> QED BY <1>1, <1>2, <1>3, <1>4, <1>5, <1>6, <1>7, <1>8 DEF WalletAnswers

LEMMA WalletStep == WalletInv /\ [WalletNext]_walletVars => WalletInv'
<1> SUFFICES ASSUME WalletInv, [WalletNext]_walletVars PROVE WalletInv'
  OBVIOUS
<1>T. bank \in Bank /\ screen \in Screen /\ sent \subseteq SentCall
  BY DEF WalletInv, ScreenTypes
<1>1. CASE AutoVerify
  <2>1. PICK n \in Numbers : VerifyNumber(n) /\ screen' = [screen EXCEPT !.tried = @ \cup {n}]
    BY <1>1 DEF AutoVerify, Unverified
  <2>2. /\ screen' \in Screen /\ screen'.form = screen.form /\ screen'.amount = screen.amount
        /\ screen'.visit = screen.visit /\ screen'.unheard = screen.unheard
        /\ screen'.previews = screen.previews /\ screen'.wallets = screen.wallets
    BY <1>T, <2>1 DEF Screen
  <2> QED BY <2>1, <2>2, VerifyKeeps
<1>2. CASE Transferred
  <2>1. /\ bank' \in Bank /\ bank'.payout.status = "completed" /\ bank'.taken = bank.taken
        /\ bank'.wallets = bank.wallets
    BY <1>2, <1>T, StatusType DEF Transferred, Bank
  <2> QED BY <1>2, <1>T, <2>1, PayoutMoves DEF Transferred
<1>3. CASE Approved
  <2> DEFINE payout == [bank.payout EXCEPT !.status = "processing"]
             balance == bank.balance - bank.payout.amount
  <2>1. payout \in Payouts /\ payout.status = "processing"
    BY <1>T, StatusType
  <2>2. balance \in 0..PayBalance
    <3>1. /\ bank.balance \in 0..PayBalance /\ bank.payout.amount \in Nat
          /\ bank.payout.amount <= bank.balance
      BY <1>3, <1>T DEF Approved, Bank, Payouts, WalletInv, PayoutInv
    <3> QED BY <3>1, Naturals
  <2>3. bank' = [bank EXCEPT !.payout = payout, !.balance = balance]
    BY <1>3, <1>T DEF Approved, Bank
  <2> HIDE DEF payout, balance
  <2>4. /\ bank' \in Bank /\ bank'.payout.status # "pending" /\ bank'.taken = bank.taken
        /\ bank'.wallets = bank.wallets
    BY <1>T, <2>1, <2>2, <2>3 DEF Bank
  <2> QED BY <1>3, <1>T, <2>4, PayoutMoves DEF Approved
<1>4. CASE UNCHANGED walletVars
  BY <1>4 DEF walletVars, WalletInv, ScreenTypes, PayoutInv, HeldAsTold, OncePerForm, WalletsInv, One
<1> QED BY <1>1, <1>2, <1>3, <1>4, TapsStep, AnswersStep DEF WalletNext

\* Every variable keeps its type.
THEOREM WalletTypeCorrect == WalletSpec => []WalletTypeOK
<1>1. WalletInv => WalletTypeOK
  BY DEF WalletInv, ScreenTypes, Bank, Screen, SentCall, Whats, WalletTypeOK
<1> QED BY <1>1, WalletInitial, WalletStep, PTL DEF WalletSpec

\* A payout waits for an admin only when the form said so, one form leads to one
\* payout unless an answer was lost, and at most one wallet is the primary one,
\* in whatever order the answers come.
THEOREM PaysOutAsTold == WalletSpec => []PaidOutAsTold
<1>1. WalletInv => PaidOutAsTold
  BY DEF WalletInv, PayoutInv, WalletsInv, One, PaidOutAsTold, OnePrimary
<1> QED BY <1>1, WalletInitial, WalletStep, PTL DEF WalletSpec

-----------------------------------------------------------------------------
(* The plan. *)

Standing == {"active", "past_due"}
Tries == 0..3
PlanType == [plan: Tier, interval: Interval, status: Standing, ending: BOOLEAN,
             until: Day, retries: Tries, retry: Day, rewarded: BOOLEAN, given: SUBSET Tier]
WorkspaceType == [state: {"loading", "data", "error"}, known: Known, limits: Tier,
                  fetching: BOOLEAN, readKnown: SUBSET Known, readLimits: SUBSET Tier]
ChooserType == [interval: Interval, asked: SUBSET Choice, cancelling: BOOLEAN]

\* News of a charge come when it was paid; a renewal has no part in the screen.
PaidRow(r) ==
  /\ r.news => r.paid
  /\ r.kind = "renewal" => r.stage = "none"

PaidFor(cs, s) ==
  s.plan # "free" =>
    \/ \E c \in DOMAIN cs : cs[c].tier = s.plan /\ cs[c].paid
    \/ s.plan \in s.given

\* What the app has read since it was told that a charge activated its plan, the
\* business has had since.
ShownRow(r, plan, w) ==
  /\ r.stage = "told" => r.since # {}
  /\ r.stage = "refreshing" => w.fetching
  /\ r.since # {} =>
       /\ r.stage \in {"refreshing", "told"} /\ plan \in r.since
       /\ \A k \in w.readKnown : k.plan \in r.since
       /\ w.readLimits \subseteq r.since
  /\ r.stage = "told" /\ w.state = "data" /\ ~w.fetching =>
       w.known.plan \in r.since /\ w.limits \in r.since

Accounted(cs, s, w) ==
  /\ cs \in Seq(ChargeRow) /\ Len(cs) <= MaxCharges
  /\ PaidFor(cs, s)
  /\ \A c \in DOMAIN cs : PaidRow(cs[c]) /\ ShownRow(cs[c], s.plan, w)

\* An attempt is put off only when what was paid for has run out.
PutOffInv ==
  subscription.retry # NoDay /\ ~subscription.rewarded => subscription.until <= today

PlanTypes ==
  /\ setting \in BillingWorlds /\ today \in 0..LastDay
  /\ subscription \in PlanType
  /\ workspace \in WorkspaceType
  /\ chooser \in ChooserType

BillingInv == PlanTypes /\ Accounted(charges, subscription, workspace) /\ PutOffInv

LEMMA PlanFacts ==
  /\ NoDay \in Int /\ Day \subseteq Int /\ Nat \subseteq Day /\ NoDay \in Day
  /\ \A i \in Interval : Period(i) \in Nat
  /\ \A d \in Day, e \in Nat : Later(d, e) \in Nat
  /\ GraceDays \in Nat /\ WarningDays \in Nat /\ MonthDays \in Nat /\ 0..LastDay \subseteq Nat /\ 0 \in 0..LastDay
  /\ MaxCharges \in Nat /\ NoDay = -1
  /\ \A w \in BillingWorlds : w.charges <= MaxCharges /\ w.charges \in Nat
  /\ "free" \in Tier /\ "starter" \in Tier /\ "monthly" \in Interval
  /\ "active" \in Standing /\ "past_due" \in Standing
  /\ 0 \in Tries /\ 3 \in Tries /\ \A n \in Tries : n \in {0, 1, 2, 3} /\ (n < 3 => n + 1 \in Tries)
BY BillingAssumption DEF NoDay, Day, Period, Later, Tier, Interval, Standing, Tries

LEMMA PlanFields ==
  ASSUME NEW s \in PlanType
  PROVE  /\ s.plan \in Tier /\ s.interval \in Interval /\ s.status \in Standing
         /\ s.ending \in BOOLEAN /\ s.until \in Day /\ s.retries \in Tries /\ s.retry \in Day
         /\ s.rewarded \in BOOLEAN /\ s.given \subseteq Tier
BY DEF PlanType

LEMMA RenewedPlan ==
  ASSUME NEW s \in PlanType, today \in 0..LastDay
  PROVE  /\ Renewed(s) \in PlanType /\ Renewed(s).retry = NoDay /\ Renewed(s).retries = 0
         /\ Renewed(s).plan = s.plan /\ Renewed(s).rewarded = s.rewarded
         /\ Renewed(s).given = s.given
<1>1. Later(s.until, today) \in Nat /\ Period(s.interval) \in Nat
  BY PlanFields, PlanFacts
<1>2. PICK u \in Day : u = Later(s.until, today) + Period(s.interval)
  BY <1>1 DEF Day
<1>3. PICK z \in Tries, n \in Day, a \in Standing : z = 0 /\ n = NoDay /\ a = "active"
  BY PlanFacts
<1>4. Renewed(s) = [s EXCEPT !.until = u, !.status = a, !.retries = z, !.retry = n]
  BY <1>2, <1>3 DEF Renewed
<1> QED BY <1>3, <1>4 DEF PlanType

LEMMA DunnedPlan ==
  ASSUME NEW s \in PlanType, NEW day \in Nat
  PROVE  /\ Dunned(s, day) \in PlanType /\ Dunned(s, day).plan \in {s.plan, "free"}
         /\ Dunned(s, day).until = s.until /\ Dunned(s, day).rewarded = s.rewarded
         /\ Dunned(s, day).given = s.given
<1>1. PICK g \in Day, w \in Day : g = day + GraceDays /\ w = day + WarningDays
  BY PlanFacts DEF Day
<1>2. s.retries \in Tries /\ s.retries \in {0, 1, 2, 3} /\ "past_due" \in Standing
  BY PlanFields, PlanFacts
<1> DEFINE f == [s EXCEPT !.status = "past_due", !.retries = s.retries + 1]
<1>3. Dunned(s, day) =
        CASE f.retries = 1 -> [f EXCEPT !.retry = day + GraceDays]
          [] f.retries = 2 -> [f EXCEPT !.retry = day + WarningDays]
          [] OTHER -> [f EXCEPT !.retries = 3, !.plan = "free", !.interval = "monthly",
                                !.ending = TRUE, !.retry = NoDay]
  BY DEF Dunned
<1>4. f.retries = s.retries + 1
  BY DEF PlanType
<1>5. CASE s.retries \in {0, 1}
  <2>1. PICK n \in Tries : n = s.retries + 1 /\ n \in {1, 2}
    BY <1>5 DEF Tries
  <2> HIDE DEF f
  <2>2. PICK d \in Day : Dunned(s, day) = [f EXCEPT !.retry = d]
    <3>1. CASE n = 1
      BY <1>1, <1>3, <1>4, <2>1, <3>1
    <3>2. CASE n = 2
      BY <1>1, <1>3, <1>4, <2>1, <3>2
    <3> QED BY <2>1, <3>1, <3>2
  <2>3. Dunned(s, day) = [s EXCEPT !.status = "past_due", !.retries = n, !.retry = d]
    BY <2>1, <2>2 DEF f
  <2> QED BY <1>2, <2>3 DEF PlanType
<1>6. CASE s.retries \in {2, 3}
  <2>1. PICK n \in Tries, d \in Day, p \in Tier, i \in Interval :
          n = 3 /\ d = NoDay /\ p = "free" /\ i = "monthly"
    BY PlanFacts
  <2>2. Dunned(s, day) = [f EXCEPT !.retries = n, !.plan = p, !.interval = i,
                                   !.ending = TRUE, !.retry = d]
    BY <1>3, <1>4, <1>6, <2>1
  <2>3. Dunned(s, day) = [s EXCEPT !.status = "past_due", !.retries = n, !.plan = p,
                                   !.interval = i, !.ending = TRUE, !.retry = d]
    BY <2>2
  <2> HIDE DEF f
  <2> QED BY <1>2, <2>1, <2>3 DEF PlanType
<1> QED BY <1>2, <1>5, <1>6

LEMMA ConfirmedPlan ==
  ASSUME PlanTypes, charges \in Seq(ChargeRow), NEW c \in DOMAIN charges
  PROVE  /\ Confirmed(c, subscription) \in PlanType
         /\ Confirmed(c, subscription).retry = NoDay /\ Confirmed(c, subscription).retries = 0
         /\ Confirmed(c, subscription).plan =
              IF charges[c].kind = "upgrade" THEN charges[c].tier ELSE subscription.plan
         /\ Confirmed(c, subscription).rewarded = subscription.rewarded
         /\ Confirmed(c, subscription).given = subscription.given
<1> DEFINE s == IF charges[c].kind = "upgrade"
                  THEN [subscription EXCEPT !.plan = charges[c].tier, !.interval = charges[c].interval]
                  ELSE subscription
<1>1. charges[c] \in ChargeRow
  OBVIOUS
<1>2. charges[c].tier \in Tier /\ charges[c].interval \in Interval
  BY <1>1 DEF ChargeRow
<1>3. s \in PlanType /\ s.rewarded = subscription.rewarded /\ s.given = subscription.given
      /\ s.plan = IF charges[c].kind = "upgrade" THEN charges[c].tier ELSE subscription.plan
  BY <1>2 DEF PlanTypes, PlanType
<1>4. Confirmed(c, subscription) = Renewed(s)
  BY DEF Confirmed
<1> HIDE DEF s
<1> QED BY <1>3, <1>4, RenewedPlan DEF PlanTypes

LEMMA RowFields ==
  ASSUME NEW r \in ChargeRow
  PROVE  /\ r.kind \in {"upgrade", "renewal"} /\ r.tier \in Tier /\ r.since \subseteq Tier
         /\ r.paid \in BOOLEAN /\ r.news \in BOOLEAN
         /\ r.stage \in {"none", "browsing", "checking", "refreshing", "told", "closed"}
BY DEF ChargeRow

\* The history of the charges takes in the plan that the business has now.
LEMMA HadAccounted ==
  ASSUME NEW cs, NEW s, NEW w, Accounted(cs, s, w), NEW t \in PlanType, PaidFor(cs, t)
  PROVE  /\ Accounted(Had(cs, t.plan), t, w)
         /\ DOMAIN Had(cs, t.plan) = DOMAIN cs /\ Len(Had(cs, t.plan)) = Len(cs)
         /\ \A c \in DOMAIN cs :
              /\ Had(cs, t.plan)[c].stage = cs[c].stage /\ Had(cs, t.plan)[c].kind = cs[c].kind
              /\ Had(cs, t.plan)[c].tier = cs[c].tier /\ Had(cs, t.plan)[c].paid = cs[c].paid
<1> DEFINE new == Had(cs, t.plan)
<1>1. cs \in Seq(ChargeRow) /\ t.plan \in Tier
  BY PlanFields DEF Accounted
<1>2. \A c \in DOMAIN cs : cs[c] \in ChargeRow
  BY <1>1
<1>3. \A c \in DOMAIN cs : new[c] = IF cs[c].since = {} THEN cs[c]
                                    ELSE [cs[c] EXCEPT !.since = cs[c].since \cup {t.plan}]
  BY DEF Had
<1>4. \A c \in DOMAIN cs :
        /\ new[c] \in ChargeRow /\ new[c].kind = cs[c].kind /\ new[c].tier = cs[c].tier
        /\ new[c].paid = cs[c].paid /\ new[c].news = cs[c].news /\ new[c].status = cs[c].status
        /\ new[c].stage = cs[c].stage
        /\ new[c].since = IF cs[c].since = {} THEN {} ELSE cs[c].since \cup {t.plan}
  <2> TAKE c \in DOMAIN cs
  <2>1. PICK x \in SUBSET Tier : x = IF cs[c].since = {} THEN {} ELSE cs[c].since \cup {t.plan}
    BY <1>1, <1>2, RowFields
  <2>2. new[c] = [cs[c] EXCEPT !.since = x]
    BY <1>2, <1>3, <2>1 DEF ChargeRow
  <2> HIDE DEF new
  <2> QED BY <1>2, <2>1, <2>2 DEF ChargeRow
<1>5. DOMAIN cs = 1..Len(cs) /\ Len(cs) \in Nat
  BY <1>1
<1>6. DOMAIN new = 1..Len(cs) /\ new = [c \in 1..Len(cs) |-> new[c]]
  BY <1>5 DEF Had
<1> HIDE DEF new
<1>7. new \in Seq(ChargeRow) /\ Len(new) = Len(cs)
  <2>1. \A c \in 1..Len(cs) : new[c] \in ChargeRow
    BY <1>4, <1>5
  <2> QED BY <1>5, <1>6, <2>1
<1>8. PaidFor(new, t)
  BY <1>4, <1>5, <1>6 DEF PaidFor
<1>9. \A c \in DOMAIN cs : PaidRow(new[c])
  BY <1>4 DEF PaidRow, Accounted
<1>10. \A c \in DOMAIN cs : ShownRow(new[c], t.plan, w)
  BY <1>4 DEF ShownRow, Accounted
<1>11. Accounted(new, t, w)
  BY <1>5, <1>6, <1>7, <1>8, <1>9, <1>10 DEF Accounted
<1> QED BY <1>4, <1>5, <1>6, <1>7, <1>11 DEF new

\* The screen that waited for a fetch goes on, and the next fetch begins.
LEMMA ReleasedRows ==
  ASSUME NEW cs \in Seq(ChargeRow)
  PROVE  /\ Released(cs) \in Seq(ChargeRow) /\ DOMAIN Released(cs) = DOMAIN cs
         /\ Len(Released(cs)) = Len(cs)
         /\ \A c \in DOMAIN cs :
              LET new == Released(cs)[c] IN
              /\ new \in ChargeRow /\ new.kind = cs[c].kind /\ new.tier = cs[c].tier
              /\ new.paid = cs[c].paid /\ new.news = cs[c].news /\ new.status = cs[c].status
              /\ new.since = cs[c].since
              /\ new.stage = IF cs[c].stage # "refreshing" THEN cs[c].stage
                             ELSE IF cs[c].since # {} THEN "told" ELSE "closed"
<1> DEFINE new == Released(cs)
<1>1. \A c \in DOMAIN cs : cs[c] \in ChargeRow
  OBVIOUS
<1>2. \A c \in DOMAIN cs : new[c] = IF cs[c].stage # "refreshing" THEN cs[c]
         ELSE [cs[c] EXCEPT !.stage = IF cs[c].since # {} THEN "told" ELSE "closed"]
  BY DEF Released
<1>3. \A c \in DOMAIN cs :
        /\ new[c] \in ChargeRow /\ new[c].kind = cs[c].kind /\ new[c].tier = cs[c].tier
        /\ new[c].paid = cs[c].paid /\ new[c].news = cs[c].news /\ new[c].status = cs[c].status
        /\ new[c].since = cs[c].since
        /\ new[c].stage = IF cs[c].stage # "refreshing" THEN cs[c].stage
                          ELSE IF cs[c].since # {} THEN "told" ELSE "closed"
  <2> TAKE c \in DOMAIN cs
  <2>1. PICK x \in {"none", "browsing", "checking", "refreshing", "told", "closed"} :
          x = IF cs[c].stage # "refreshing" THEN cs[c].stage
              ELSE IF cs[c].since # {} THEN "told" ELSE "closed"
    BY <1>1, RowFields
  <2>2. new[c] = [cs[c] EXCEPT !.stage = x]
    BY <1>1, <1>2, <2>1 DEF ChargeRow
  <2> HIDE DEF new
  <2> QED BY <1>1, <2>1, <2>2 DEF ChargeRow
<1>4. DOMAIN cs = 1..Len(cs) /\ Len(cs) \in Nat
  OBVIOUS
<1>5. DOMAIN new = 1..Len(cs) /\ new = [c \in 1..Len(cs) |-> new[c]]
  BY <1>4 DEF Released
<1> HIDE DEF new
<1>6. new \in Seq(ChargeRow) /\ Len(new) = Len(cs)
  <2>1. \A c \in 1..Len(cs) : new[c] \in ChargeRow
    BY <1>3, <1>4
  <2> QED BY <1>4, <1>5, <2>1
<1> QED BY <1>3, <1>4, <1>5, <1>6 DEF new

LEMMA ReleasedAccounted ==
  ASSUME NEW cs, NEW s, NEW w, NEW v, Accounted(cs, s, w),
         v.fetching => v.readKnown = {} /\ v.readLimits = {},
         ~v.fetching /\ v.state = "data" =>
           \A c \in DOMAIN cs : cs[c].since # {} => v.known.plan \in cs[c].since /\ v.limits \in cs[c].since,
         v.readKnown \subseteq w.readKnown /\ v.readLimits \subseteq w.readLimits
  PROVE  Accounted(Released(cs), s, v)
<1> DEFINE new == Released(cs)
<1>1. cs \in Seq(ChargeRow) /\ Len(cs) <= MaxCharges /\ PaidFor(cs, s)
      /\ \A c \in DOMAIN cs : PaidRow(cs[c]) /\ ShownRow(cs[c], s.plan, w)
  BY DEF Accounted
<1>2. /\ new \in Seq(ChargeRow) /\ DOMAIN new = DOMAIN cs /\ Len(new) = Len(cs)
      /\ \A c \in DOMAIN cs :
           /\ new[c].kind = cs[c].kind /\ new[c].tier = cs[c].tier
           /\ new[c].paid = cs[c].paid /\ new[c].news = cs[c].news /\ new[c].status = cs[c].status
           /\ new[c].since = cs[c].since
           /\ new[c].stage = IF cs[c].stage # "refreshing" THEN cs[c].stage
                             ELSE IF cs[c].since # {} THEN "told" ELSE "closed"
  BY <1>1, ReleasedRows
<1> HIDE DEF new
<1>3. PaidFor(new, s)
  BY <1>1, <1>2 DEF PaidFor
<1>4. \A c \in DOMAIN cs : PaidRow(new[c])
  BY <1>1, <1>2 DEF PaidRow
<1>5. \A c \in DOMAIN cs : ShownRow(new[c], s.plan, v)
  BY <1>1, <1>2 DEF ShownRow
<1>6. Accounted(new, s, v)
  BY <1>1, <1>2, <1>3, <1>4, <1>5 DEF Accounted
<1> QED BY <1>6 DEF new

LEMMA UnreadAccounted ==
  ASSUME NEW cs, NEW s, NEW w \in WorkspaceType, Accounted(cs, s, w)
  PROVE  Accounted(Released(cs), s, Unread(w)) /\ Unread(w) \in WorkspaceType
<1>1. /\ Unread(w) \in WorkspaceType /\ Unread(w).fetching
      /\ Unread(w).readKnown = {} /\ Unread(w).readLimits = {}
  BY DEF Unread, WorkspaceType
<1>2. Accounted(Released(cs), s, Unread(w))
  BY <1>1, ReleasedAccounted
<1> QED BY <1>1, <1>2

\* The history takes in a plan, and a row changes, without a charge more.
LEMMA HadLength ==
  ASSUME NEW cs, NEW n \in Nat, DOMAIN cs = 1..n, NEW tier
  PROVE  Len(Had(cs, tier)) = n
BY DEF Had

\* A history is as long as its domain.
LEMMA ChangeLength ==
  ASSUME NEW cs \in Seq(ChargeRow), NEW ds, DOMAIN ds = DOMAIN cs
  PROVE  Len(ds) = Len(cs)
<1>1. DOMAIN ds = 1..Len(cs) /\ Len(cs) \in Nat
  OBVIOUS
<1> QED BY <1>1

LEMMA ChangeDomain == \A cs, tier : DOMAIN Had(cs, tier) = DOMAIN cs /\ DOMAIN Released(cs) = DOMAIN cs
BY DEF Had, Released

\* One charge moves on, or is new.
LEMMA RowAccounted ==
  ASSUME NEW cs, NEW s, NEW w, Accounted(cs, s, w), NEW c \in DOMAIN cs, NEW row \in ChargeRow,
         row.tier = cs[c].tier, cs[c].paid => row.paid, PaidRow(row), ShownRow(row, s.plan, w)
  PROVE  Accounted([cs EXCEPT ![c] = row], s, w)
<1> DEFINE new == [cs EXCEPT ![c] = row]
<1>1. cs \in Seq(ChargeRow) /\ Len(cs) <= MaxCharges /\ PaidFor(cs, s)
      /\ \A d \in DOMAIN cs : PaidRow(cs[d]) /\ ShownRow(cs[d], s.plan, w)
  BY DEF Accounted
<1>2. new \in Seq(ChargeRow) /\ DOMAIN new = DOMAIN cs /\ Len(new) = Len(cs)
      /\ \A d \in DOMAIN cs : new[d] = IF d = c THEN row ELSE cs[d]
  BY <1>1
<1> HIDE DEF new
<1>3. PaidFor(new, s)
  BY <1>1, <1>2 DEF PaidFor
<1>4. Accounted(new, s, w)
  BY <1>1, <1>2, <1>3 DEF Accounted
<1> QED BY <1>4 DEF new

LEMMA AppendAccounted ==
  ASSUME NEW cs, NEW s, NEW w, Accounted(cs, s, w), Len(cs) < MaxCharges, NEW row \in ChargeRow,
         PaidRow(row), row.since = {}, row.stage \in {"none", "browsing"}
  PROVE  Accounted(Append(cs, row), s, w)
<1> DEFINE new == Append(cs, row)
<1>1. cs \in Seq(ChargeRow) /\ Len(cs) <= MaxCharges /\ PaidFor(cs, s)
      /\ \A d \in DOMAIN cs : PaidRow(cs[d]) /\ ShownRow(cs[d], s.plan, w)
  BY DEF Accounted
<1>2. new \in Seq(ChargeRow) /\ DOMAIN new = DOMAIN cs \cup {Len(cs) + 1} /\ Len(new) = Len(cs) + 1
      /\ (\A d \in DOMAIN cs : new[d] = cs[d]) /\ new[Len(cs) + 1] = row
  BY <1>1
<1> HIDE DEF new
<1>3. PaidFor(new, s)
  BY <1>1, <1>2 DEF PaidFor
<1>4. ShownRow(row, s.plan, w)
  BY DEF ShownRow
<1>5. Len(cs) \in Nat /\ MaxCharges \in Nat
  BY <1>1, PlanFacts
<1>6. Accounted(new, s, w)
  BY <1>1, <1>2, <1>3, <1>4, <1>5 DEF Accounted
<1> QED BY <1>6 DEF new

LEMMA BillingInitial == BillingInit => BillingInv
<1> SUFFICES ASSUME BillingInit PROVE BillingInv
  OBVIOUS
<1> USE PlanFacts
<1>1. charges = << >> /\ charges \in Seq(ChargeRow) /\ Len(charges) = 0 /\ DOMAIN charges = {}
  BY DEF BillingInit
<1>2. subscription \in PlanType /\ subscription.plan = "free" /\ subscription.retry = NoDay
  BY DEF BillingInit, PlanType
<1>3. workspace \in WorkspaceType /\ chooser \in ChooserType
  BY DEF BillingInit, WorkspaceType, ChooserType, Known, Standing
<1>4. PaidFor(charges, subscription)
  BY <1>2 DEF PaidFor
<1> QED BY <1>1, <1>2, <1>3, <1>4 DEF BillingInit, BillingInv, PlanTypes, Accounted, PutOffInv

\* A subscription of the same plan, and facts of every charge.
LEMMA InvFacts ==
  ASSUME BillingInv
  PROVE  /\ setting \in BillingWorlds /\ today \in 0..LastDay /\ today \in Nat
         /\ subscription \in PlanType /\ workspace \in WorkspaceType /\ chooser \in ChooserType
         /\ charges \in Seq(ChargeRow) /\ Len(charges) <= MaxCharges
         /\ Len(charges) \in Nat
         /\ PaidFor(charges, subscription) /\ PutOffInv
         /\ Accounted(charges, subscription, workspace)
         /\ \A c \in DOMAIN charges :
              charges[c] \in ChargeRow /\ PaidRow(charges[c]) /\ ShownRow(charges[c], subscription.plan, workspace)
<1>1. /\ setting \in BillingWorlds /\ today \in 0..LastDay
      /\ subscription \in PlanType /\ workspace \in WorkspaceType /\ chooser \in ChooserType
      /\ Accounted(charges, subscription, workspace) /\ PutOffInv
  BY DEF BillingInv, PlanTypes
<1>2. /\ charges \in Seq(ChargeRow) /\ Len(charges) <= MaxCharges
      /\ PaidFor(charges, subscription)
      /\ \A c \in DOMAIN charges : PaidRow(charges[c]) /\ ShownRow(charges[c], subscription.plan, workspace)
  BY <1>1 DEF Accounted
<1>3. Len(charges) \in Nat /\ \A c \in DOMAIN charges : charges[c] \in ChargeRow
  BY <1>2
<1>4. today \in Nat
  BY <1>1, PlanFacts
<1> QED BY <1>1, <1>2, <1>3, <1>4

LEMMA SamePlan ==
  ASSUME NEW cs, NEW s, NEW w, NEW t, Accounted(cs, s, w), t.plan = s.plan, s.given \subseteq t.given
  PROVE  Accounted(cs, t, w)
BY DEF Accounted, PaidFor

LEMMA ConfirmationKeeps == ASSUME BillingInv, ConfirmationArrives PROVE BillingInv'
<1> USE InvFacts
<1>1. PICK c \in DOMAIN charges :
        /\ charges[c].news
        /\ \/ LET s == Confirmed(c, subscription) IN
              /\ subscription' = s
              /\ charges' = Had([charges EXCEPT ![c].news = FALSE, ![c].status = "success"], s.plan)
           \/ /\ CallsFail
              /\ charges' = [charges EXCEPT ![c].news = FALSE]
              /\ UNCHANGED subscription
  BY DEF ConfirmationArrives
<1>2. UNCHANGED <<setting, today, workspace, chooser>>
  BY DEF ConfirmationArrives
<1>3. charges[c] \in ChargeRow /\ charges[c].paid
  BY <1>1 DEF PaidRow
<1>4. CASE charges' = [charges EXCEPT ![c].news = FALSE] /\ UNCHANGED subscription
  <2> DEFINE row == [charges[c] EXCEPT !.news = FALSE]
  <2>1. /\ row \in ChargeRow /\ row.tier = charges[c].tier /\ row.paid = charges[c].paid /\ ~row.news
        /\ row.kind = charges[c].kind /\ row.status = charges[c].status
        /\ row.stage = charges[c].stage /\ row.since = charges[c].since
    BY <1>3 DEF ChargeRow
  <2>2. charges' = [charges EXCEPT ![c] = row]
    BY <1>4
  <2> HIDE DEF row
  <2>3. PaidRow(row) /\ ShownRow(row, subscription.plan, workspace)
    BY <2>1 DEF PaidRow, ShownRow
  <2>4. Accounted(charges', subscription, workspace)
    BY <2>1, <2>2, <2>3, RowAccounted
  <2> QED BY <1>2, <1>4, <2>4 DEF BillingInv, PlanTypes, PutOffInv
<1>5. CASE /\ subscription' = Confirmed(c, subscription)
           /\ charges' = Had([charges EXCEPT ![c].news = FALSE, ![c].status = "success"],
                             Confirmed(c, subscription).plan)
  <2> DEFINE row == [charges[c] EXCEPT !.news = FALSE, !.status = "success"]
             cs == [charges EXCEPT ![c] = row]
  <2>1. /\ row \in ChargeRow /\ row.tier = charges[c].tier /\ row.paid = charges[c].paid /\ ~row.news
        /\ row.kind = charges[c].kind /\ row.stage = charges[c].stage /\ row.since = charges[c].since
    BY <1>3 DEF ChargeRow
  <2>2. [charges EXCEPT ![c].news = FALSE, ![c].status = "success"] = cs
    BY <1>3
  <2> HIDE DEF row
  <2>3. PaidRow(row) /\ ShownRow(row, subscription.plan, workspace)
    BY <1>3, <2>1 DEF PaidRow, ShownRow
  <2>4. Accounted(cs, subscription, workspace)
    BY <2>1, <2>3, RowAccounted
  <2>5. DOMAIN cs = DOMAIN charges /\ cs[c] = row
    OBVIOUS
  <2> HIDE DEF cs
  <2>6. /\ subscription' \in PlanType /\ subscription'.retry = NoDay
        /\ subscription'.rewarded = subscription.rewarded /\ subscription'.given = subscription.given
        /\ subscription'.plan = IF charges[c].kind = "upgrade" THEN charges[c].tier ELSE subscription.plan
    BY <1>5, ConfirmedPlan DEF BillingInv
  <2>7. PaidFor(cs, subscription')
    BY <1>3, <2>1, <2>4, <2>5, <2>6 DEF PaidFor, Accounted
  <2>8. Accounted(charges', subscription', workspace)
    BY <1>5, <2>2, <2>4, <2>6, <2>7, HadAccounted
  <2> QED BY <1>2, <2>6, <2>8 DEF BillingInv, PlanTypes, PutOffInv
<1> QED BY <1>1, <1>4, <1>5

LEMMA ChargePaidKeeps == ASSUME BillingInv, Pay PROVE BillingInv'
<1> USE InvFacts
<1>1. PICK c \in DOMAIN charges :
        /\ charges' = [charges EXCEPT ![c].paid = TRUE, ![c].news = TRUE]
        /\ UNCHANGED <<setting, today, subscription, workspace, chooser>>
  BY DEF Pay
<1> DEFINE row == [charges[c] EXCEPT !.paid = TRUE, !.news = TRUE]
<1>2. /\ row \in ChargeRow /\ row.tier = charges[c].tier /\ row.paid /\ row.news
      /\ row.kind = charges[c].kind /\ row.status = charges[c].status
      /\ row.stage = charges[c].stage /\ row.since = charges[c].since
  BY DEF ChargeRow
<1>3. charges' = [charges EXCEPT ![c] = row]
  BY <1>1
<1> HIDE DEF row
<1>4. PaidRow(row) /\ ShownRow(row, subscription.plan, workspace)
  BY <1>2 DEF PaidRow, ShownRow
<1>5. Accounted(charges', subscription, workspace)
  BY <1>2, <1>3, <1>4, RowAccounted
<1> QED BY <1>1, <1>5 DEF BillingInv, PlanTypes, PutOffInv

\* A night: what was put off and is due again had run out before.
LEMMA NightKeeps == ASSUME BillingInv, NightPasses PROVE BillingInv'
<1> USE InvFacts
<1>1. today' = today + 1 /\ today' \in 0..LastDay /\ today' \in Nat
      /\ UNCHANGED <<setting, workspace, chooser>>
  BY BillingAssumption DEF NightPasses
<1>2. subscription.until \in Int /\ subscription.retry \in Int
  BY PlanFields, PlanFacts
<1>3. CASE UNCHANGED <<subscription, charges>>
  BY <1>1, <1>2, <1>3 DEF BillingInv, PlanTypes, PutOffInv
<1>4. CASE DueOn(today') /\ ChargeDue
  <2>1. ~subscription.rewarded => subscription.until <= today'
    BY <1>1, <1>2, <1>4 DEF DueOn, PutOffInv
  <2> DEFINE d == Dunned(subscription, today')
  <2>2. d \in PlanType /\ d.plan \in {subscription.plan, "free"} /\ d.until = subscription.until
        /\ d.rewarded = subscription.rewarded /\ d.given = subscription.given
    BY <1>1, DunnedPlan
  <2> HIDE DEF d
  <2>3. PaidFor(charges, d)
    BY <2>2 DEF PaidFor
  <2>4. CASE ~setting.phone
    <3>1. subscription' = d /\ charges' = Had(charges, d.plan)
      BY <1>4, <2>4 DEF ChargeDue, d
    <3>2. Accounted(charges', d, workspace)
      BY <2>2, <2>3, <3>1, HadAccounted
    <3> QED BY <1>1, <2>1, <2>2, <3>1, <3>2 DEF BillingInv, PlanTypes, PutOffInv
  <2>5. CASE setting.phone
    <3> DEFINE s == [subscription EXCEPT !.until = Later(subscription.until, today')]
    <3>1. PICK accepted \in BOOLEAN :
            LET charge == [kind |-> "renewal", tier |-> s.plan, interval |-> s.interval,
                           status |-> IF accepted THEN "success" ELSE "failed", paid |-> FALSE,
                           news |-> FALSE, stage |-> "none", since |-> {}]
            IN  /\ Len(charges) < setting.charges
                /\ subscription' = IF accepted THEN Renewed(s) ELSE d
                /\ charges' = Had(Append(charges, charge), subscription'.plan)
      BY <1>4, <2>5 DEF ChargeDue, d, CallsFail
    <3> DEFINE charge == [kind |-> "renewal", tier |-> s.plan, interval |-> s.interval,
                          status |-> IF accepted THEN "success" ELSE "failed", paid |-> FALSE,
                          news |-> FALSE, stage |-> "none", since |-> {}]
               cs == Append(charges, charge)
    <3>2. Later(subscription.until, today') \in Day
      BY <1>1, PlanFields, PlanFacts DEF Day
    <3>3. s \in PlanType /\ s.plan = subscription.plan /\ s.rewarded = subscription.rewarded
          /\ s.given = subscription.given
      BY <3>2 DEF PlanType
    <3> HIDE DEF s
    <3>4. s.plan \in Tier /\ s.interval \in Interval
      BY <3>3, PlanFields
    <3>5. charge \in ChargeRow /\ PaidRow(charge) /\ charge.since = {} /\ charge.stage = "none"
      BY <3>4 DEF ChargeRow, PaidRow
    <3>6. charges' = Had(cs, subscription'.plan) /\ Len(charges) < setting.charges
          /\ subscription' = IF accepted THEN Renewed(s) ELSE d
      BY <3>1
    <3> HIDE DEF charge
    <3>7. Len(charges) < MaxCharges
      <4>1. setting.charges \in Nat /\ setting.charges <= MaxCharges /\ MaxCharges \in Nat
        BY PlanFacts
      <4> QED BY <3>6, <4>1
    <3>8. Accounted(cs, subscription, workspace)
      BY <3>5, <3>7, AppendAccounted
    <3> HIDE DEF cs
    <3>9. /\ subscription' \in PlanType /\ subscription'.plan \in {subscription.plan, "free"}
          /\ subscription'.rewarded = subscription.rewarded /\ subscription'.given = subscription.given
          /\ subscription'.retry # NoDay => subscription'.until = subscription.until
      BY <2>2, <3>3, <3>6, RenewedPlan
    <3>10. PaidFor(cs, subscription')
      BY <3>8, <3>9 DEF PaidFor, Accounted
    <3>11. Accounted(charges', subscription', workspace)
      BY <3>6, <3>8, <3>9, <3>10, HadAccounted
    <3> QED BY <1>1, <2>1, <3>9, <3>11 DEF BillingInv, PlanTypes, PutOffInv
  <2> QED BY <2>4, <2>5
<1> QED BY <1>3, <1>4 DEF NightPasses

LEMMA GrantKeeps == ASSUME BillingInv, GrantPremiumMonth PROVE BillingInv'
<1> USE InvFacts
<1>1. /\ subscription' = [subscription EXCEPT !.plan = "starter", !.status = "active",
                                              !.until = today + MonthDays, !.rewarded = TRUE,
                                              !.given = subscription.given \cup {"starter"}]
      /\ charges' = Had(charges, "starter") /\ UNCHANGED <<setting, today, workspace, chooser>>
  BY DEF GrantPremiumMonth
<1>2. PICK p \in Tier, a \in Standing, u \in Day : p = "starter" /\ a = "active" /\ u = today + MonthDays
  <2>1. today \in Nat
    OBVIOUS
  <2>2. MonthDays \in Nat
    BY PlanFacts
  <2>3. today + MonthDays \in Nat
    BY <2>1, <2>2
  <2> QED BY <2>3, PlanFacts
<1>3. PICK g \in SUBSET Tier : g = subscription.given \cup {p}
  BY PlanFields
<1>4. subscription' = [subscription EXCEPT !.plan = p, !.status = a, !.until = u, !.rewarded = TRUE,
                                           !.given = g]
  BY <1>1, <1>2, <1>3
<1>5. /\ subscription' \in PlanType /\ subscription'.plan = "starter" /\ subscription'.rewarded
      /\ subscription'.plan \in subscription'.given
  BY <1>2, <1>3, <1>4 DEF PlanType
<1>6. PaidFor(charges, subscription')
  BY <1>5 DEF PaidFor
<1>7. charges' = Had(charges, subscription'.plan)
  BY <1>1, <1>5
<1>8. Accounted(charges', subscription', workspace)
  BY <1>5, <1>6, <1>7, HadAccounted
<1> QED BY <1>1, <1>5, <1>8 DEF BillingInv, PlanTypes, PutOffInv

\* A plan that is given: what is paid until, and what is put off, stay.
LEMMA GivesKeep ==
  ASSUME BillingInv, NEW s \in PlanType, Gives(s), s.until = subscription.until,
         s.retry = subscription.retry, s.rewarded = subscription.rewarded
  PROVE  BillingInv'
<1> USE InvFacts
<1>1. /\ subscription' = [s EXCEPT !.given = s.given \cup {s.plan}] /\ charges' = Had(charges, s.plan)
      /\ UNCHANGED <<setting, today, workspace, chooser>>
  BY DEF Gives
<1>2. PICK g \in SUBSET Tier : g = s.given \cup {s.plan}
  BY PlanFields
<1>3. subscription' = [s EXCEPT !.given = g]
  BY <1>1, <1>2
<1>4. /\ subscription' \in PlanType /\ subscription'.plan = s.plan /\ subscription'.plan \in subscription'.given
      /\ subscription'.until = subscription.until /\ subscription'.retry = subscription.retry
      /\ subscription'.rewarded = subscription.rewarded
  BY <1>2, <1>3 DEF PlanType
<1>5. PaidFor(charges, subscription')
  BY <1>4 DEF PaidFor
<1>6. charges' = Had(charges, subscription'.plan)
  BY <1>1, <1>4
<1>7. Accounted(charges', subscription', workspace)
  BY <1>4, <1>5, <1>6, HadAccounted
<1> QED BY <1>1, <1>4, <1>7 DEF BillingInv, PlanTypes, PutOffInv

\* What the API's change of the plan, and an event of Paystack's, make of the subscription.
LEMMA GivenPlan ==
  ASSUME BillingInv, ChangePlan \/ HandlePaystackEvent
  PROVE  \E s \in PlanType :
           /\ Gives(s) /\ s.until = subscription.until /\ s.retry = subscription.retry
           /\ s.rewarded = subscription.rewarded /\ s.retries = subscription.retries
<1> USE InvFacts
<1>1. CASE ChangePlan
  <2>1. PICK c \in Offered : Gives(Changed(subscription, c.tier, c.interval))
    BY <1>1 DEF ChangePlan
  <2>2. c.tier \in Tier /\ c.interval \in Interval /\ "active" \in Standing
    BY PlanFacts DEF Offered, Choice
  <2> DEFINE s == Changed(subscription, c.tier, c.interval)
  <2>3. /\ s \in PlanType /\ s.until = subscription.until /\ s.retry = subscription.retry
        /\ s.rewarded = subscription.rewarded /\ s.retries = subscription.retries
    BY <2>2 DEF Changed, PlanType
  <2> HIDE DEF s
  <2>4. Gives(s)
    BY <2>1 DEF s
  <2> QED BY <2>3, <2>4
<1>2. CASE HandlePaystackEvent
  <2>1. PICK c \in Offered :
          Gives([subscription EXCEPT !.plan = c.tier, !.interval = c.interval, !.ending = (c.tier = "free"),
                   !.status = IF c.tier = "free" THEN subscription.status ELSE "active"])
    BY <1>2 DEF HandlePaystackEvent
  <2>2. PICK t \in Tier, i \in Interval, e \in BOOLEAN, a \in Standing :
          /\ t = c.tier /\ i = c.interval /\ e = (c.tier = "free")
          /\ a = IF c.tier = "free" THEN subscription.status ELSE "active"
    BY PlanFacts, PlanFields DEF Offered, Choice
  <2> DEFINE s == [subscription EXCEPT !.plan = t, !.interval = i, !.ending = e, !.status = a]
  <2>3. /\ s \in PlanType /\ s.until = subscription.until /\ s.retry = subscription.retry
        /\ s.rewarded = subscription.rewarded /\ s.retries = subscription.retries
    BY DEF PlanType
  <2>4. Gives(s)
    BY <2>1, <2>2
  <2> HIDE DEF s
  <2> QED BY <2>3, <2>4
<1> QED BY <1>1, <1>2

LEMMA GivenKeeps == ASSUME BillingInv, ChangePlan \/ HandlePaystackEvent PROVE BillingInv'
BY GivenPlan, GivesKeep

\* The callback is believed: a charge that was paid is accounted for, and a plan
\* that was not is given.
LEMMA CallbackKeeps == ASSUME BillingInv, CallbackArrives PROVE BillingInv'
<1> USE InvFacts
<1>1. PICK c \in DOMAIN charges :
        LET s == Confirmed(c, subscription) IN
        /\ subscription' = IF charges[c].paid \/ charges[c].kind = "renewal" THEN s
                           ELSE [s EXCEPT !.given = s.given \cup {s.plan}]
        /\ charges' = Had([charges EXCEPT ![c].status = "success"], s.plan)
  BY DEF CallbackArrives
<1>2. UNCHANGED <<setting, today, workspace, chooser>>
  BY DEF CallbackArrives
<1> DEFINE s == Confirmed(c, subscription)
           row == [charges[c] EXCEPT !.status = "success"]
           cs == [charges EXCEPT ![c] = row]
<1>3. /\ s \in PlanType /\ s.retry = NoDay
      /\ s.rewarded = subscription.rewarded /\ s.given = subscription.given
      /\ s.plan = IF charges[c].kind = "upgrade" THEN charges[c].tier ELSE subscription.plan
  BY ConfirmedPlan DEF BillingInv
<1>4. /\ subscription' = IF charges[c].paid \/ charges[c].kind = "renewal" THEN s
                         ELSE [s EXCEPT !.given = s.given \cup {s.plan}]
      /\ charges' = Had([charges EXCEPT ![c].status = "success"], s.plan)
  BY <1>1
<1> HIDE DEF s
<1>5. PICK g \in SUBSET Tier : g = s.given \cup {s.plan}
  BY <1>3, PlanFields
<1>6. /\ subscription' \in PlanType /\ subscription'.retry = NoDay /\ subscription'.plan = s.plan
      /\ s.given \subseteq subscription'.given
      /\ charges[c].paid \/ charges[c].kind = "renewal" \/ s.plan \in subscription'.given
  BY <1>3, <1>4, <1>5 DEF PlanType
<1>7. /\ row \in ChargeRow /\ row.tier = charges[c].tier /\ row.paid = charges[c].paid
      /\ row.news = charges[c].news /\ row.kind = charges[c].kind
      /\ row.stage = charges[c].stage /\ row.since = charges[c].since
  BY DEF ChargeRow
<1>8. [charges EXCEPT ![c].status = "success"] = cs
  OBVIOUS
<1> HIDE DEF row
<1>9. PaidRow(row) /\ ShownRow(row, subscription.plan, workspace)
  BY <1>7 DEF PaidRow, ShownRow
<1>10. Accounted(cs, subscription, workspace)
  BY <1>7, <1>9, RowAccounted
<1>11. DOMAIN cs = DOMAIN charges /\ cs[c] = row
  OBVIOUS
<1> HIDE DEF cs
<1>12. charges[c].kind \in {"upgrade", "renewal"}
  BY RowFields
<1>13. PaidFor(cs, subscription')
  <2>1. CASE charges[c].kind = "renewal"
    BY <1>3, <1>6, <1>10, <2>1 DEF PaidFor, Accounted
  <2>2. CASE charges[c].kind = "upgrade"
    BY <1>3, <1>6, <1>7, <1>11, <2>2 DEF PaidFor
  <2> QED BY <1>12, <2>1, <2>2
<1>14. Accounted(charges', subscription', workspace)
  BY <1>4, <1>6, <1>8, <1>10, <1>13, HadAccounted
<1> QED BY <1>2, <1>6, <1>14 DEF BillingInv, PlanTypes, PutOffInv

\* The app reads the plan of the moment.
LEMMA ReadsKeep ==
  ASSUME BillingInv, ReadWorkspace \/ ReadSubscription \/ ReadPlanUsage
  PROVE  BillingInv'
<1> USE InvFacts
<1>1. UNCHANGED <<setting, today, subscription, charges, chooser>>
  BY DEF ReadWorkspace, ReadSubscription, ReadPlanUsage
<1>2. subscription.plan \in Tier
  BY PlanFields
<1>3. /\ workspace' \in WorkspaceType /\ workspace'.state = workspace.state
      /\ workspace'.fetching
      /\ workspace'.readKnown = workspace.readKnown \/ \A k \in workspace'.readKnown : k.plan = subscription.plan
      /\ workspace'.readLimits = workspace.readLimits \/ workspace'.readLimits \subseteq {subscription.plan}
  <2>1. CASE ReadWorkspace
    BY <2>1 DEF ReadWorkspace, Unread, WorkspaceType
  <2>2. CASE ReadSubscription
    <3> DEFINE k == [plan |-> subscription.plan, interval |-> subscription.interval,
                     status |-> subscription.status, ending |-> subscription.ending]
    <3>1. k \in Known /\ k.plan = subscription.plan
      BY PlanFields DEF Known, Standing
    <3>2. workspace.fetching /\ workspace' = [workspace EXCEPT !.readKnown = {k}]
      BY <2>2 DEF ReadSubscription
    <3> HIDE DEF k
    <3> QED BY <3>1, <3>2 DEF WorkspaceType
  <2>3. CASE ReadPlanUsage
    BY <1>2, <2>3 DEF ReadPlanUsage, WorkspaceType
  <2> QED BY <2>1, <2>2, <2>3
<1>4. \A c \in DOMAIN charges : ShownRow(charges[c], subscription.plan, workspace')
  BY <1>3 DEF ShownRow
<1>5. Accounted(charges, subscription, workspace')
  BY <1>4 DEF Accounted
<1> QED BY <1>1, <1>3, <1>5 DEF BillingInv, PlanTypes, PutOffInv

\* What was read since the plan was activated is shown.
LEMMA WorkspaceKeeps == ASSUME BillingInv, WorkspaceRead PROVE BillingInv'
<1> USE InvFacts
<1>1. UNCHANGED <<setting, today, subscription, chooser>> /\ charges' = Released(charges)
  BY DEF WorkspaceRead
<1>2. /\ workspace' \in WorkspaceType /\ ~workspace'.fetching
      /\ workspace'.readKnown = workspace.readKnown /\ workspace'.readLimits = workspace.readLimits
      /\ \/ workspace'.state = "error"
         \/ workspace'.known \in workspace.readKnown /\ workspace'.limits \in workspace.readLimits
  <2>1. CASE workspace' = [workspace EXCEPT !.state = "error", !.fetching = FALSE]
    BY <2>1 DEF WorkspaceType
  <2>2. CASE \E k \in workspace.readKnown, t \in workspace.readLimits :
               workspace' = [workspace EXCEPT !.state = "data", !.known = k, !.limits = t, !.fetching = FALSE]
    <3>1. PICK k \in workspace.readKnown, t \in workspace.readLimits :
            workspace' = [workspace EXCEPT !.state = "data", !.known = k, !.limits = t, !.fetching = FALSE]
      BY <2>2
    <3>2. k \in Known /\ t \in Tier
      BY DEF WorkspaceType
    <3> QED BY <3>1, <3>2 DEF WorkspaceType
  <2> QED BY <2>1, <2>2 DEF WorkspaceRead
<1>3. \A c \in DOMAIN charges : charges[c].since # {} =>
        /\ \A k \in workspace.readKnown : k.plan \in charges[c].since
        /\ workspace.readLimits \subseteq charges[c].since
  BY DEF ShownRow
<1>4. ~workspace'.fetching /\ workspace'.state = "data" =>
        \A c \in DOMAIN charges : charges[c].since # {} =>
          workspace'.known.plan \in charges[c].since /\ workspace'.limits \in charges[c].since
  BY <1>2, <1>3
<1>5. Accounted(charges', subscription, workspace')
  BY <1>1, <1>2, <1>4, ReleasedAccounted
<1> QED BY <1>1, <1>2, <1>5 DEF BillingInv, PlanTypes, PutOffInv

\* What the owner picks is asked of the server, which changes nothing yet.
LEMMA ChooserKeeps ==
  ASSUME BillingInv, ChooseInterval \/ HandleSelect \/ SelectionFails \/ HandleCancel
  PROVE  BillingInv'
<1> USE InvFacts
<1>1. UNCHANGED <<setting, today, subscription, charges, workspace>>
  BY DEF ChooseInterval, HandleSelect, SelectionFails, HandleCancel
<1>2. chooser' \in ChooserType
  <2>1. CASE ChooseInterval
    BY <2>1 DEF ChooseInterval, ChooserType
  <2>2. CASE HandleSelect
    BY <2>2 DEF HandleSelect, ChooserType, Choice
  <2>3. CASE SelectionFails \/ HandleCancel
    BY <2>3 DEF SelectionFails, HandleCancel, ChooserType
  <2> QED BY <2>1, <2>2, <2>3
<1> QED BY <1>1, <1>2 DEF BillingInv, PlanTypes, PutOffInv

LEMMA FreeKeeps == ASSUME BillingInv, ChangeToFree, UNCHANGED <<setting, today>>, chooser' \in ChooserType
                   PROVE  BillingInv'
<1> USE InvFacts
<1>1. CASE UNCHANGED <<subscription, charges, workspace>>
  BY <1>1 DEF BillingInv, PlanTypes, PutOffInv
<1>2. CASE subscription.plan # "free"
  <2>1. /\ subscription' = [subscription EXCEPT !.plan = "free", !.interval = "monthly",
                                                !.status = "active", !.ending = FALSE]
        /\ \/ workspace' = Unread(workspace) /\ charges' = Released(Had(charges, "free"))
           \/ UNCHANGED workspace /\ charges' = Had(charges, "free")
    BY <1>2 DEF ChangeToFree, Changed, Invalidated
  <2>2. PICK p \in Tier, i \in Interval, a \in Standing : p = "free" /\ i = "monthly" /\ a = "active"
    BY PlanFacts
  <2>3. subscription' = [subscription EXCEPT !.plan = p, !.interval = i, !.status = a, !.ending = FALSE]
    BY <2>1, <2>2
  <2>4. /\ subscription' \in PlanType /\ subscription'.plan = "free"
        /\ subscription'.until = subscription.until /\ subscription'.retry = subscription.retry
        /\ subscription'.rewarded = subscription.rewarded /\ subscription'.given = subscription.given
    BY <2>2, <2>3 DEF PlanType
  <2>5. Accounted(Had(charges, "free"), subscription', workspace)
    BY <2>4, HadAccounted DEF PaidFor
  <2>6. Accounted(charges', subscription', workspace') /\ workspace' \in WorkspaceType
    BY <2>1, <2>5, UnreadAccounted
  <2> QED BY <2>4, <2>6 DEF BillingInv, PlanTypes, PutOffInv
<1> QED BY <1>1, <1>2 DEF ChangeToFree

LEMMA SubscribeKeeps ==
  ASSUME BillingInv, NEW choice \in Choice, Subscribe(choice), UNCHANGED <<setting, today>>,
         chooser' \in ChooserType
  PROVE  BillingInv'
<1> USE InvFacts
<1>1. PICK page \in BOOLEAN, told \in BOOLEAN :
        LET charge == [kind |-> "upgrade", tier |-> choice.tier, interval |-> choice.interval,
                       status |-> "pending", paid |-> FALSE, news |-> FALSE,
                       stage |-> IF page /\ told THEN "browsing" ELSE "none", since |-> {}]
        IN  IF told THEN workspace' = Unread(workspace) /\ charges' = Released(Append(charges, charge))
            ELSE charges' = Append(charges, charge) /\ UNCHANGED workspace
  BY DEF Subscribe, Invalidated, CallsFail
<1> DEFINE charge == [kind |-> "upgrade", tier |-> choice.tier, interval |-> choice.interval,
                      status |-> "pending", paid |-> FALSE, news |-> FALSE,
                      stage |-> IF page /\ told THEN "browsing" ELSE "none", since |-> {}]
           cs == Append(charges, charge)
<1>2. choice.tier \in Tier /\ choice.interval \in Interval
  BY DEF Choice
<1>3. charge \in ChargeRow /\ PaidRow(charge) /\ charge.since = {} /\ charge.stage \in {"none", "browsing"}
  BY <1>2 DEF ChargeRow, PaidRow
<1>4. \/ workspace' = Unread(workspace) /\ charges' = Released(cs)
      \/ charges' = cs /\ UNCHANGED workspace
  BY <1>1
<1> HIDE DEF charge
<1>5. UNCHANGED subscription /\ Len(charges) < MaxCharges
  <2>1. setting.charges \in Nat /\ setting.charges <= MaxCharges /\ MaxCharges \in Nat
    BY PlanFacts
  <2> QED BY <2>1 DEF Subscribe
<1>6. Accounted(cs, subscription, workspace)
  BY <1>3, <1>5, AppendAccounted
<1> HIDE DEF cs
<1>7. Accounted(charges', subscription, workspace') /\ workspace' \in WorkspaceType
  BY <1>4, <1>6, UnreadAccounted
<1> QED BY <1>5, <1>7 DEF BillingInv, PlanTypes, PutOffInv

LEMMA SelectedKeeps == ASSUME BillingInv, PlanSelected PROVE BillingInv'
<1>1. PICK choice \in chooser.asked : IF choice.tier = "free" THEN ChangeToFree ELSE Subscribe(choice)
  BY DEF PlanSelected
<1>2. choice \in Choice /\ chooser' \in ChooserType /\ UNCHANGED <<setting, today>>
  BY InvFacts DEF PlanSelected, ChooserType
<1> QED BY <1>1, <1>2, FreeKeeps, SubscribeKeeps

LEMMA BrowserKeeps == ASSUME BillingInv, BrowserReturns PROVE BillingInv'
<1> USE InvFacts
<1>1. PICK c \in DOMAIN charges :
        charges[c].stage = "browsing" /\ charges' = [charges EXCEPT ![c].stage = "checking"]
  BY DEF BrowserReturns
<1>2. UNCHANGED <<setting, today, subscription, workspace, chooser>>
  BY DEF BrowserReturns
<1> DEFINE row == [charges[c] EXCEPT !.stage = "checking"]
<1>3. /\ row \in ChargeRow /\ row.tier = charges[c].tier /\ row.paid = charges[c].paid
      /\ row.news = charges[c].news /\ row.kind = charges[c].kind /\ row.status = charges[c].status
      /\ row.stage = "checking" /\ row.since = charges[c].since
  BY DEF ChargeRow
<1>4. charges' = [charges EXCEPT ![c] = row]
  BY <1>1
<1> HIDE DEF row
<1>5. PaidRow(row) /\ ShownRow(row, subscription.plan, workspace)
  BY <1>1, <1>3 DEF PaidRow, ShownRow
<1>6. Accounted(charges', subscription, workspace)
  BY <1>3, <1>4, <1>5, RowAccounted
<1> QED BY <1>2, <1>6 DEF BillingInv, PlanTypes, PutOffInv

LEMMA CancelledKeeps == ASSUME BillingInv, Cancelled PROVE BillingInv'
<1> USE InvFacts
<1>1. /\ UNCHANGED <<setting, today>>
      /\ subscription' = subscription \/ subscription' = [subscription EXCEPT !.ending = TRUE]
      /\ \/ workspace' = Unread(workspace) /\ charges' = Released(charges)
         \/ UNCHANGED <<charges, workspace>>
  BY DEF Cancelled, Invalidated
<1>2. chooser' \in ChooserType
  BY DEF Cancelled, ChooserType
<1>3. /\ subscription' \in PlanType /\ subscription'.plan = subscription.plan
      /\ subscription'.until = subscription.until /\ subscription'.retry = subscription.retry
      /\ subscription'.rewarded = subscription.rewarded /\ subscription'.given = subscription.given
  BY <1>1 DEF PlanType
<1>4. Accounted(charges', subscription, workspace') /\ workspace' \in WorkspaceType
  BY <1>1, UnreadAccounted
<1>5. Accounted(charges', subscription', workspace')
  BY <1>3, <1>4, SamePlan
<1> QED BY <1>1, <1>2, <1>3, <1>4, <1>5 DEF BillingInv, PlanTypes, PutOffInv

\* The app is told that a payment was confirmed, and fetches what it opens.
LEMMA ActivateKeeps == ASSUME BillingInv, VerifyAndActivate PROVE BillingInv'
<1> USE InvFacts
<1>1. workspace' = Unread(workspace) /\ UNCHANGED <<setting, today, chooser>>
  BY DEF VerifyAndActivate
<1> DEFINE cs == Released(charges)
<1>2. PICK c \in DOMAIN charges :
        /\ charges[c].stage = "checking"
        /\ \/ /\ charges[c].paid \/ charges[c].status = "success"
              /\ subscription' = IF charges[c].status = "success" THEN subscription
                                 ELSE Confirmed(c, subscription)
              /\ \E since \in {{subscription'.plan}, {}} :
                   charges' = Had([cs EXCEPT ![c].stage = "refreshing", ![c].status = "success",
                                             ![c].since = since], subscription'.plan)
           \/ /\ charges' = [cs EXCEPT ![c].stage = "refreshing"]
              /\ UNCHANGED subscription
  BY DEF VerifyAndActivate
<1>3. /\ cs \in Seq(ChargeRow) /\ DOMAIN cs = DOMAIN charges
      /\ Accounted(cs, subscription, workspace') /\ workspace' \in WorkspaceType
      /\ workspace'.fetching /\ workspace'.readKnown = {} /\ workspace'.readLimits = {}
  BY <1>1, ReleasedRows, UnreadAccounted DEF Unread, WorkspaceType
<1>4. /\ cs[c] \in ChargeRow /\ cs[c].tier = charges[c].tier /\ cs[c].paid = charges[c].paid
      /\ cs[c].kind = charges[c].kind /\ cs[c].status = charges[c].status
      /\ cs[c].stage = "checking" /\ cs[c].since = {}
      /\ PaidRow(cs[c]) /\ cs[c].kind = "upgrade"
  <2>1. /\ cs[c] \in ChargeRow /\ cs[c].tier = charges[c].tier /\ cs[c].paid = charges[c].paid
        /\ cs[c].kind = charges[c].kind /\ cs[c].status = charges[c].status
        /\ cs[c].stage = "checking" /\ cs[c].since = charges[c].since
    BY <1>2, ReleasedRows
  <2>2. charges[c].since = {}
    BY <1>2 DEF ShownRow
  <2>3. PaidRow(cs[c])
    BY <1>3 DEF Accounted
  <2>4. cs[c].kind = "upgrade"
    BY <2>1, <2>3, RowFields DEF PaidRow
  <2> QED BY <2>1, <2>2, <2>3, <2>4
<1> HIDE DEF cs
<1>5. CASE charges' = [cs EXCEPT ![c].stage = "refreshing"] /\ UNCHANGED subscription
  <2> DEFINE row == [cs[c] EXCEPT !.stage = "refreshing"]
  <2>1. /\ row \in ChargeRow /\ row.tier = cs[c].tier /\ row.paid = cs[c].paid
        /\ row.news = cs[c].news /\ row.kind = cs[c].kind /\ row.status = cs[c].status
        /\ row.stage = "refreshing" /\ row.since = {}
    BY <1>4 DEF ChargeRow
  <2>2. charges' = [cs EXCEPT ![c] = row]
    BY <1>5
  <2> HIDE DEF row
  <2>3. PaidRow(row) /\ ShownRow(row, subscription.plan, workspace')
    BY <1>3, <1>4, <2>1 DEF PaidRow, ShownRow
  <2>4. Accounted(charges', subscription, workspace')
    BY <1>3, <2>1, <2>2, <2>3, RowAccounted
  <2> QED BY <1>1, <1>3, <1>5, <2>4 DEF BillingInv, PlanTypes, PutOffInv
<1>6. CASE /\ charges[c].paid \/ charges[c].status = "success"
           /\ subscription' = IF charges[c].status = "success" THEN subscription
                              ELSE Confirmed(c, subscription)
           /\ \E since \in {{subscription'.plan}, {}} :
                charges' = Had([cs EXCEPT ![c].stage = "refreshing", ![c].status = "success",
                                          ![c].since = since], subscription'.plan)
  <2>1. PICK since \in {{subscription'.plan}, {}} :
          charges' = Had([cs EXCEPT ![c].stage = "refreshing", ![c].status = "success",
                                    ![c].since = since], subscription'.plan)
    BY <1>6
  <2>2. subscription' = subscription \/ charges[c].paid
    BY <1>6
  <2>3. /\ subscription' \in PlanType
        /\ subscription'.rewarded = subscription.rewarded /\ subscription'.given = subscription.given
        /\ subscription'.plan \in {subscription.plan, charges[c].tier}
        /\ subscription' = subscription \/ subscription'.retry = NoDay
    BY <1>6, ConfirmedPlan DEF BillingInv
  <2>4. since \subseteq Tier
    BY <2>3, PlanFields
  <2> DEFINE row == [cs[c] EXCEPT !.stage = "refreshing", !.status = "success", !.since = since]
             new == [Had(cs, subscription'.plan) EXCEPT ![c] = row]
  <2>5. /\ row \in ChargeRow /\ row.tier = cs[c].tier /\ row.paid = cs[c].paid
        /\ row.news = cs[c].news /\ row.kind = cs[c].kind /\ row.status = "success"
        /\ row.stage = "refreshing" /\ row.since = since
    BY <1>4, <2>4 DEF ChargeRow
  <2>6. [cs EXCEPT ![c].stage = "refreshing", ![c].status = "success", ![c].since = since]
        = [cs EXCEPT ![c] = row]
    BY <1>3
  <2> HIDE DEF row
  <2>7. Had([cs EXCEPT ![c] = row], subscription'.plan) = new
    <3> DEFINE p == subscription'.plan
               rows == [cs EXCEPT ![c] = row]
    <3>1. DOMAIN rows = DOMAIN cs /\ c \in DOMAIN cs
      BY <1>3
    <3>2. Had(rows, p) = [d \in DOMAIN cs |-> IF rows[d].since = {} THEN rows[d]
                                              ELSE [rows[d] EXCEPT !.since = rows[d].since \cup {p}]]
      BY <3>1 DEF Had
    <3>3. Had(cs, p) = [d \in DOMAIN cs |-> IF cs[d].since = {} THEN cs[d]
                                            ELSE [cs[d] EXCEPT !.since = cs[d].since \cup {p}]]
      BY DEF Had
    <3>4. row.since # {} => [row EXCEPT !.since = row.since \cup {p}] = row
      <4>1. row.since # {} => row.since \cup {p} = row.since
        BY <2>5
      <4> QED BY <2>5, <4>1 DEF ChargeRow
    <3>5. Had(rows, p)[c] = row
      BY <3>1, <3>2, <3>4
    <3>6. \A d \in DOMAIN cs \ {c} : Had(rows, p)[d] = Had(cs, p)[d]
      <4> TAKE d \in DOMAIN cs \ {c}
      <4>1. rows[d] = cs[d]
        BY <1>3
      <4> HIDE DEF rows, p
      <4> QED BY <3>2, <3>3, <4>1
    <3> QED BY <3>1, <3>2, <3>3, <3>5, <3>6
  <2>8. charges' = new
    BY <2>1, <2>6, <2>7
  <2>9. PaidFor(cs, subscription')
    BY <1>3, <1>4, <2>2, <2>3 DEF PaidFor, Accounted
  <2>10. Accounted(Had(cs, subscription'.plan), subscription', workspace')
         /\ c \in DOMAIN Had(cs, subscription'.plan)
         /\ Had(cs, subscription'.plan)[c].tier = cs[c].tier
         /\ Had(cs, subscription'.plan)[c].paid = cs[c].paid
    BY <1>3, <2>3, <2>9, HadAccounted
  <2>11. PaidRow(row) /\ ShownRow(row, subscription'.plan, workspace')
    BY <1>3, <1>4, <2>5 DEF PaidRow, ShownRow
  <2>12. Accounted(charges', subscription', workspace')
    BY <2>5, <2>8, <2>10, <2>11, RowAccounted
  <2> QED BY <1>1, <1>3, <2>3, <2>12 DEF BillingInv, PlanTypes, PutOffInv
<1> QED BY <1>2, <1>5, <1>6

LEMMA BillingStep == BillingInv /\ [BillingNext]_billingVars => BillingInv'
<1>1. BillingInv /\ UNCHANGED billingVars => BillingInv'
  BY DEF BillingInv, PlanTypes, PutOffInv, billingVars
<1>2. BillingInv /\ BillingNext => BillingInv'
  BY ConfirmationKeeps, ChargePaidKeeps, NightKeeps, GrantKeeps, GivenKeeps, CallbackKeeps, ReadsKeep, WorkspaceKeeps, ChooserKeeps,
     SelectedKeeps, BrowserKeeps, ActivateKeeps, CancelledKeeps DEF BillingNext
<1> QED BY <1>1, <1>2

\* The subscription, the charges, the app's copy and the chooser keep their types.
THEOREM BillingTypeCorrect == BillingSpec => []BillingTypeOK
<1>1. BillingInv => BillingTypeOK
  BY DEF BillingInv, PlanTypes, Accounted, BillingTypeOK, PlanType, WorkspaceType, ChooserType,
         Standing, Tries
<1> QED BY <1>1, BillingInitial, BillingStep, PTL DEF BillingSpec

\* However payments, webhooks, checks, nights and the app's reads interleave: no
\* plan without a payment, but for those the business was given (a reward, the API's
\* change of the plan, the callback, Paystack's events), and after "Plan activated!"
\* the app shows, and opens its screens by, a plan the business has had since
\* (billing.tsx, planGate.ts, billing/service.py).
THEOREM PlansPaidAndShown == BillingSpec => []PlanPaidAndShown
<1>1. BillingInv => PlanPaidAndShown
  <2> SUFFICES ASSUME BillingInv PROVE PlanPaidAndShown
    OBVIOUS
  <2>1. PlanWasPaid
    BY InvFacts DEF PlanWasPaid, PaidFor
  <2>2. ActivatedIsShown
    <3> SUFFICES ASSUME NEW c \in DOMAIN charges, charges[c].stage = "told",
                        workspace.state = "data", ~workspace.fetching
                 PROVE  /\ workspace.known.plan \in charges[c].since
                        /\ \A feature \in LockedScreens :
                             \E tier \in charges[c].since : ~Allows(PlanLimit(tier, feature), feature)
      BY DEF ActivatedIsShown
    <3>1. workspace.known.plan \in charges[c].since /\ workspace.limits \in charges[c].since
      BY InvFacts DEF ShownRow
    <3> QED BY <3>1 DEF LockedScreens, GateOpen
  <2> QED BY <2>1, <2>2 DEF PlanPaidAndShown
<1> QED BY <1>1, BillingInitial, BillingStep, PTL DEF BillingSpec

\* By day no renewal is charged and no failure is counted.
LEMMA DayIsQuiet ==
  ASSUME BillingInv, BillingNext, ~NightPasses
  PROVE  /\ Len(charges') = Len(charges) \/ charges'[Len(charges')].kind = "upgrade"
         /\ subscription'.retries <= subscription.retries
<1> USE InvFacts
<1>1. subscription.retries \in Nat
  BY PlanFields DEF Tries
<1>2. CASE ConfirmationArrives
  <2>1. PICK c \in DOMAIN charges :
          \/ LET s == Confirmed(c, subscription) IN
             /\ subscription' = s
             /\ charges' = Had([charges EXCEPT ![c].news = FALSE, ![c].status = "success"], s.plan)
          \/ /\ charges' = [charges EXCEPT ![c].news = FALSE]
             /\ UNCHANGED subscription
    BY <1>2 DEF ConfirmationArrives
  <2>2. Confirmed(c, subscription).retries = 0
    BY ConfirmedPlan DEF BillingInv
  <2>3. DOMAIN charges' = DOMAIN charges
    BY <2>1, ChangeDomain
  <2> QED BY <1>1, <2>1, <2>2, <2>3, ChangeLength
<1>3. CASE Pay \/ BrowserReturns
  <2>1. DOMAIN charges' = DOMAIN charges /\ UNCHANGED subscription
    BY <1>3 DEF Pay, BrowserReturns
  <2> QED BY <1>1, <2>1, ChangeLength
<1>4. CASE GrantPremiumMonth
  <2>1. subscription'.retries = subscription.retries
    BY <1>4 DEF GrantPremiumMonth, PlanType
  <2>2. DOMAIN charges' = DOMAIN charges
    BY <1>4, ChangeDomain DEF GrantPremiumMonth
  <2> QED BY <1>1, <2>1, <2>2, ChangeLength
<1>10. CASE ChangePlan \/ HandlePaystackEvent
  <2>1. PICK s \in PlanType : Gives(s) /\ s.retries = subscription.retries
    BY <1>10, GivenPlan
  <2>2. subscription'.retries = subscription.retries /\ DOMAIN charges' = DOMAIN charges
    BY <2>1, ChangeDomain DEF Gives, PlanType
  <2> QED BY <1>1, <2>2, ChangeLength
<1>11. CASE CallbackArrives
  <2>1. PICK c \in DOMAIN charges :
          LET s == Confirmed(c, subscription) IN
          /\ subscription' = IF charges[c].paid \/ charges[c].kind = "renewal" THEN s
                             ELSE [s EXCEPT !.given = s.given \cup {s.plan}]
          /\ charges' = Had([charges EXCEPT ![c].status = "success"], s.plan)
    BY <1>11 DEF CallbackArrives
  <2>2. Confirmed(c, subscription).retries = 0 /\ Confirmed(c, subscription) \in PlanType
    BY ConfirmedPlan DEF BillingInv
  <2>3. subscription'.retries = 0
    BY <2>1, <2>2 DEF PlanType
  <2>4. DOMAIN charges' = DOMAIN charges
    BY <2>1, ChangeDomain
  <2> QED BY <1>1, <2>3, <2>4, ChangeLength
<1>5. CASE ReadWorkspace \/ ReadSubscription \/ ReadPlanUsage \/ WorkspaceRead
  <2>1. DOMAIN charges' = DOMAIN charges /\ UNCHANGED subscription
    BY <1>5, ChangeDomain DEF ReadWorkspace, ReadSubscription, ReadPlanUsage, WorkspaceRead
  <2> QED BY <1>1, <2>1, ChangeLength
<1>6. CASE ChooseInterval \/ HandleSelect \/ SelectionFails \/ HandleCancel
  BY <1>1, <1>6 DEF ChooseInterval, HandleSelect, SelectionFails, HandleCancel
<1>7. CASE PlanSelected
  <2>1. PICK choice \in chooser.asked : IF choice.tier = "free" THEN ChangeToFree ELSE Subscribe(choice)
    BY <1>7 DEF PlanSelected
  <2>2. CASE ChangeToFree
    <3>1. subscription'.retries = subscription.retries
      BY <2>2 DEF ChangeToFree, Changed, PlanType
    <3>2. DOMAIN charges' = DOMAIN charges
      BY <2>2, ChangeDomain DEF ChangeToFree, Invalidated
    <3> QED BY <1>1, <3>1, <3>2, ChangeLength
  <2>3. CASE Subscribe(choice)
    <3>1. PICK stage \in {"browsing", "none"} :
            LET charge == [kind |-> "upgrade", tier |-> choice.tier, interval |-> choice.interval,
                           status |-> "pending", paid |-> FALSE, news |-> FALSE,
                           stage |-> stage, since |-> {}]
            IN  charges' = Released(Append(charges, charge)) \/ charges' = Append(charges, charge)
      BY <2>3 DEF Subscribe, Invalidated
    <3> DEFINE charge == [kind |-> "upgrade", tier |-> choice.tier, interval |-> choice.interval,
                          status |-> "pending", paid |-> FALSE, news |-> FALSE,
                          stage |-> stage, since |-> {}]
               cs == Append(charges, charge)
    <3>2. charge \in ChargeRow /\ charge.kind = "upgrade"
      BY DEF ChargeRow, ChooserType, Choice
    <3>3. charges' = Released(cs) \/ charges' = cs
      BY <3>1
    <3> HIDE DEF charge
    <3>4. cs \in Seq(ChargeRow) /\ Len(cs) = Len(charges) + 1 /\ Len(cs) \in DOMAIN cs
          /\ cs[Len(cs)].kind = "upgrade"
      BY <3>2
    <3> HIDE DEF cs
    <3>5. charges'[Len(charges')].kind = "upgrade"
      BY <3>3, <3>4, ReleasedRows
    <3> QED BY <1>1, <2>3, <3>5 DEF Subscribe
  <2> QED BY <2>1, <2>2, <2>3
<1>8. CASE VerifyAndActivate
  <2>1. PICK c \in DOMAIN charges :
          \/ /\ subscription' \in {subscription, Confirmed(c, subscription)}
             /\ \E ds : DOMAIN ds = DOMAIN charges /\ charges' = Had(ds, subscription'.plan)
          \/ /\ DOMAIN charges' = DOMAIN charges
             /\ UNCHANGED subscription
    <3>1. PICK c \in DOMAIN charges :
            \/ /\ subscription' = IF charges[c].status = "success" THEN subscription ELSE Confirmed(c, subscription)
               /\ \E since :
                    charges' = Had([Released(charges) EXCEPT ![c].stage = "refreshing", ![c].status = "success",
                                                             ![c].since = since], subscription'.plan)
            \/ /\ charges' = [Released(charges) EXCEPT ![c].stage = "refreshing"]
               /\ UNCHANGED subscription
      BY <1>8 DEF VerifyAndActivate
    <3>2. ASSUME NEW since,
                 charges' = Had([Released(charges) EXCEPT ![c].stage = "refreshing", ![c].status = "success",
                                                          ![c].since = since], subscription'.plan)
          PROVE  \E ds : DOMAIN ds = DOMAIN charges /\ charges' = Had(ds, subscription'.plan)
      <4> DEFINE ds == [Released(charges) EXCEPT ![c].stage = "refreshing", ![c].status = "success",
                                                 ![c].since = since]
      <4>1. DOMAIN ds = DOMAIN charges /\ charges' = Had(ds, subscription'.plan)
        BY <3>2, ChangeDomain
      <4> HIDE DEF ds
      <4> QED BY <4>1
    <3>3. DOMAIN [Released(charges) EXCEPT ![c].stage = "refreshing"] = DOMAIN charges
      BY ChangeDomain
    <3> QED BY <3>1, <3>2, <3>3
  <2>2. Confirmed(c, subscription).retries = 0
    BY ConfirmedPlan DEF BillingInv
  <2>3. DOMAIN charges' = DOMAIN charges
    BY <2>1, ChangeDomain
  <2> QED BY <1>1, <2>1, <2>2, <2>3, ChangeLength
<1>9. CASE Cancelled
  <2>1. subscription' = subscription \/ subscription' = [subscription EXCEPT !.ending = TRUE]
    BY <1>9 DEF Cancelled
  <2>2. subscription'.retries = subscription.retries
    BY <2>1 DEF PlanType
  <2>3. DOMAIN charges' = DOMAIN charges
    BY <1>9, ChangeDomain DEF Cancelled, Invalidated
  <2> QED BY <1>1, <2>2, <2>3, ChangeLength
<1> QED BY <1>2, <1>3, <1>4, <1>5, <1>6, <1>7, <1>8, <1>9, <1>10, <1>11 DEF BillingNext

LEMMA NightIsDue ==
  ASSUME BillingInv, NightPasses
  PROVE  UNCHANGED <<subscription, charges>> \/ subscription.rewarded \/ subscription.until <= today'
<1>1. today' = today + 1 /\ today \in Nat
  BY InvFacts DEF NightPasses
<1>2. subscription.until \in Int /\ subscription.retry \in Int
  BY InvFacts, PlanFields, PlanFacts
<1> QED BY <1>1, <1>2, InvFacts DEF NightPasses, DueOn, PutOffInv

\* A renewal is charged, or counted as failed, only when what was paid for has run out
\* (the nightly task of billing/service.py), whatever was paid and put off before.
THEOREM ChargesWhenRunOut == BillingSpec => ChargedWhenRunOut
<1> DEFINE Charged ==
      \/ Len(charges') > Len(charges) /\ charges'[Len(charges')].kind = "renewal"
      \/ subscription'.retries > subscription.retries
<1>1. BillingInv /\ BillingNext /\ Charged => subscription.rewarded \/ subscription.until <= today'
  <2> SUFFICES ASSUME BillingInv, BillingNext, Charged
               PROVE  subscription.rewarded \/ subscription.until <= today'
    OBVIOUS
  <2>1. Len(charges) \in Nat /\ subscription.retries \in Nat /\ subscription'.retries \in Nat
    <3>1. subscription \in PlanType /\ subscription' \in PlanType /\ Len(charges) \in Nat
      BY BillingStep, InvFacts DEF BillingInv, PlanTypes
    <3> QED BY <3>1, PlanFields DEF Tries
  <2>2. CASE NightPasses
    <3>1. ~UNCHANGED <<subscription, charges>>
      BY <2>1
    <3> QED BY <2>2, <3>1, NightIsDue
  <2>3. CASE ~NightPasses
    BY <2>1, <2>3, DayIsQuiet
  <2> QED BY <2>2, <2>3
<1>2. BillingInv /\ [BillingNext]_billingVars =>
        [Charged => subscription.rewarded \/ subscription.until <= today']_billingVars
  BY <1>1
<1> HIDE DEF Charged
<1> QED BY <1>2, BillingInitial, BillingStep, PTL DEF BillingSpec, ChargedWhenRunOut, Charged

-----------------------------------------------------------------------------
(* The lender's page. *)

\* What the panel holds is about the loan that is selected, the answer it waits
\* for is about that loan too, and no more than one loan is selected.
PanelOfOne ==
  /\ \A a, b \in panel.selected : a = b
  /\ panel.terms \cup panel.reason \cup panel.error \subseteq panel.selected
  /\ decision.loan \subseteq panel.selected

TermsOfTheirOwn == \A a \in Applications : requests[a].terms \cup requests[a].reason \subseteq {a}

DeskInv == LenderTypeOK /\ (reviewer.tidy => PanelOfOne /\ TermsOfTheirOwn)

LoanRequest == [state: State, terms: SUBSET Applications, reason: SUBSET Applications]
Panel == [page: 0..LastPage, selected: SUBSET Applications, approving: BOOLEAN, declining: BOOLEAN,
          terms: SUBSET Applications, reason: SUBSET Applications, error: SUBSET Applications]

LEMMA EmptyPanelType ==
  ASSUME NEW page \in 0..LastPage, NEW selected \in SUBSET Applications
  PROVE  /\ EmptyPanel(page, selected) \in Panel
         /\ EmptyPanel(page, selected).selected = selected
         /\ EmptyPanel(page, selected).terms \subseteq selected
         /\ EmptyPanel(page, selected).reason = {}
         /\ EmptyPanel(page, selected).error = {}
BY DEF EmptyPanel, Panel

LEMMA NoDecisionType == NoDecision \in Waiting /\ NoDecision.loan = {}
BY DEF NoDecision, Waiting

\* A panel that was made anew holds only what belongs to its loan.
LEMMA UnmountKeeps ==
  ASSUME DeskInv, UNCHANGED <<reviewer, requests, listed>>,
         NEW page \in 0..LastPage, NEW selected \in SUBSET Applications,
         reviewer.tidy => \A a, b \in selected : a = b,
         Unmount(page, selected)
  PROVE  DeskInv'
<1>1. panel' \in Panel /\ panel'.selected = selected /\ panel'.terms \subseteq selected
      /\ panel'.reason = {} /\ panel'.error = {}
  BY EmptyPanelType DEF Unmount
<1>2. decision' \in Waiting /\ decision'.loan = {}
  BY NoDecisionType DEF Unmount
<1>3. LenderTypeOK'
  BY <1>1, <1>2 DEF DeskInv, LenderTypeOK, Panel
<1>4. ASSUME reviewer'.tidy PROVE PanelOfOne' /\ TermsOfTheirOwn'
  BY <1>1, <1>2, <1>4 DEF DeskInv, PanelOfOne, TermsOfTheirOwn
<1> QED BY <1>3, <1>4 DEF DeskInv

\* A decision is taken with what belongs to the loan: its record stays about it.
LEMMA DecideKeeps ==
  ASSUME DeskInv, UNCHANGED <<reviewer, listed>>,
         panel' = [panel EXCEPT !.error = {}],
         NEW record \in LoanRequest,
         reviewer.tidy => record.terms \cup record.reason \subseteq panel.terms \cup panel.reason,
         Decide(record)
  PROVE  DeskInv'
<1>1. PICK a \in Shown, reached \in BOOLEAN, heard \in BOOLEAN :
        LET decides == reached /\ requests[a].state = "pending_partner"
        IN /\ requests' = IF decides THEN [requests EXCEPT ![a] = record] ELSE requests
           /\ decision' = [loan |-> {a}, ok |-> decides /\ heard]
  BY DEF Decide, DeskInv, LenderTypeOK
<1>2. a \in Applications /\ a \in panel.selected
  BY DEF Shown, DeskInv, LenderTypeOK
<1>3. requests' \in [Applications -> LoanRequest]
  BY <1>1, <1>2 DEF DeskInv, LenderTypeOK, LoanRequest
<1>4. decision' \in Waiting /\ decision'.loan = {a}
  BY <1>1, <1>2 DEF Waiting
<1>5. panel' \in Panel /\ panel'.selected = panel.selected /\ panel'.error = {}
      /\ panel'.terms = panel.terms /\ panel'.reason = panel.reason
  BY DEF DeskInv, LenderTypeOK, Panel
<1>6. LenderTypeOK'
  BY <1>3, <1>4, <1>5 DEF DeskInv, LenderTypeOK, LoanRequest, Panel
<1>7. ASSUME reviewer'.tidy PROVE PanelOfOne' /\ TermsOfTheirOwn'
  <2>1. reviewer.tidy /\ PanelOfOne /\ TermsOfTheirOwn
    BY <1>7 DEF DeskInv
  <2>2. record.terms \cup record.reason \subseteq {a}
    BY <2>1, <1>2 DEF PanelOfOne
  <2>3. PanelOfOne'
    BY <2>1, <1>2, <1>4, <1>5 DEF PanelOfOne
  <2>4. ASSUME NEW b \in Applications
        PROVE  requests'[b].terms \cup requests'[b].reason \subseteq {b}
    <3>1. requests'[b] = requests[b] \/ (b = a /\ requests'[b] = record)
      BY <1>1, <1>2, <2>4 DEF DeskInv, LenderTypeOK
    <3> QED BY <3>1, <2>1, <2>2, <2>4 DEF TermsOfTheirOwn
  <2> QED BY <2>3, <2>4 DEF TermsOfTheirOwn
<1> QED BY <1>6, <1>7 DEF DeskInv

\* A step that changes only what is typed into the panel, or which loan it is on.
LEMMA TypedKeeps ==
  ASSUME DeskInv, UNCHANGED <<reviewer, requests, listed, decision>>,
         panel' \in Panel,
         reviewer.tidy =>
           /\ panel'.selected = panel.selected
           /\ panel'.terms \cup panel'.reason \cup panel'.error
                \subseteq panel.selected \cup panel.terms \cup panel.reason \cup panel.error
  PROVE  DeskInv'
<1>1. LenderTypeOK'
  BY DEF DeskInv, LenderTypeOK, Panel
<1>2. ASSUME reviewer'.tidy PROVE PanelOfOne' /\ TermsOfTheirOwn'
  BY <1>2 DEF DeskInv, PanelOfOne, TermsOfTheirOwn
<1> QED BY <1>1, <1>2 DEF DeskInv

LEMMA DeskInitial == LenderInit => DeskInv
<1> SUFFICES ASSUME LenderInit PROVE DeskInv
  OBVIOUS
<1>1. panel \in Panel /\ panel.selected = {} /\ panel.terms \subseteq {}
      /\ panel.reason = {} /\ panel.error = {}
  BY EmptyPanelType DEF LenderInit, LastPage
<1>2. decision \in Waiting /\ decision.loan = {}
  BY NoDecisionType DEF LenderInit
<1>3. LenderTypeOK
  BY <1>1, <1>2 DEF LenderInit, LenderTypeOK, Panel, State
<1>4. PanelOfOne /\ TermsOfTheirOwn
  BY <1>1, <1>2 DEF LenderInit, PanelOfOne, TermsOfTheirOwn
<1> QED BY <1>3, <1>4 DEF DeskInv

LEMMA DeskStep == DeskInv /\ [LenderNext]_deskVars => DeskInv'
<1> SUFFICES ASSUME DeskInv, [LenderNext]_deskVars PROVE DeskInv'
  OBVIOUS
<1>T. /\ panel \in Panel /\ Shown \in SUBSET Applications /\ Shown \subseteq panel.selected
      /\ decision \in Waiting /\ requests \in [Applications -> LoanRequest]
  BY DEF DeskInv, LenderTypeOK, Panel, LoanRequest, Shown
<1>1. CASE ReadList
  <2>1. LenderTypeOK'
    BY <1>1 DEF ReadList, DeskInv, LenderTypeOK, State
  <2> QED BY <1>1, <2>1 DEF ReadList, DeskInv, PanelOfOne, TermsOfTheirOwn
<1>2. CASE TurnPage
  <2>1. PICK page \in 0..LastPage : Unmount(page, panel.selected)
    BY <1>2 DEF TurnPage
  <2> QED BY <1>2, <1>T, <2>1, UnmountKeeps DEF TurnPage, DeskInv, PanelOfOne, Panel
<1>3. CASE SelectLoan
  <2>1. PICK a \in Applications :
          IF Shown = {} THEN Unmount(panel.page, {a})
          ELSE ~reviewer.tidy /\ panel' = [panel EXCEPT !.selected = {a}] /\ UNCHANGED decision
    BY <1>3 DEF SelectLoan
  <2>2. CASE Shown = {}
    BY <1>3, <1>T, <2>1, <2>2, UnmountKeeps DEF SelectLoan, Panel
  <2>3. CASE Shown # {}
    BY <1>3, <1>T, <2>1, <2>3, TypedKeeps DEF SelectLoan, Panel
  <2> QED BY <2>2, <2>3
<1>4. CASE ClosePanel
  BY <1>4, <1>T, UnmountKeeps DEF ClosePanel, Panel
<1>5. CASE OpenApproval
  BY <1>5, <1>T, TypedKeeps DEF OpenApproval, Panel
<1>6. CASE TypeTerms
  BY <1>6, <1>T, TypedKeeps DEF TypeTerms, Panel
<1>7. CASE CancelApproval
  BY <1>7, <1>T, TypedKeeps DEF CancelApproval, Panel
<1>8. CASE OpenDecline
  BY <1>8, <1>T, TypedKeeps DEF OpenDecline, Panel
<1>9. CASE TypeReason
  BY <1>9, <1>T, TypedKeeps DEF TypeReason, Panel
<1>10. CASE DismissDecline
  <2>1. PICK cleared \in BOOLEAN :
          panel' = [panel EXCEPT !.declining = FALSE, !.reason = IF cleared THEN {} ELSE @]
    BY <1>10 DEF DismissDecline
  <2> QED BY <1>10, <1>T, <2>1, TypedKeeps DEF DismissDecline, Panel
<1>11. CASE Approve
  <2> DEFINE record == [state |-> "approved", terms |-> panel.terms, reason |-> {}]
  <2>1. record \in LoanRequest /\ record.terms \cup record.reason \subseteq panel.terms \cup panel.reason
    BY <1>T DEF LoanRequest, Panel, State
  <2> HIDE DEF record
  <2>2. Decide(record) /\ panel' = [panel EXCEPT !.error = {}] /\ UNCHANGED <<reviewer, listed>>
    BY <1>11 DEF Approve, record
  <2> QED BY <2>1, <2>2, DecideKeeps
<1>12. CASE Reject
  <2> DEFINE record == [state |-> "rejected", terms |-> {}, reason |-> panel.reason]
  <2>1. record \in LoanRequest /\ record.terms \cup record.reason \subseteq panel.terms \cup panel.reason
    BY <1>T DEF LoanRequest, Panel, State
  <2> HIDE DEF record
  <2>2. Decide(record) /\ panel' = [panel EXCEPT !.error = {}] /\ UNCHANGED <<reviewer, listed>>
    BY <1>12 DEF Reject, record
  <2> QED BY <2>1, <2>2, DecideKeeps
<1>13. CASE Decided
  BY <1>13, <1>T, UnmountKeeps DEF Decided, Panel
<1>14. CASE Failed
  <2>1. /\ panel' \in Panel /\ panel'.selected = panel.selected
        /\ panel'.terms = panel.terms /\ panel'.reason = panel.reason
        /\ panel'.error = decision.loan
    BY <1>14, <1>T DEF Failed, Panel, Waiting
  <2>2. decision' \in Waiting /\ decision'.loan = {}
    BY <1>14, NoDecisionType DEF Failed
  <2>3. LenderTypeOK'
    BY <1>14, <2>1, <2>2 DEF Failed, DeskInv, LenderTypeOK, Panel
  <2>4. ASSUME reviewer'.tidy PROVE PanelOfOne' /\ TermsOfTheirOwn'
    BY <1>14, <2>1, <2>2, <2>4 DEF Failed, DeskInv, PanelOfOne, TermsOfTheirOwn
  <2> QED BY <2>3, <2>4 DEF DeskInv
<1>15. CASE DecidedElsewhere
  <2>1. PICK a \in Applications :
          requests' = [requests EXCEPT ![a] = [state |-> "rejected", terms |-> {}, reason |-> {a}]]
    BY <1>15 DEF DecidedElsewhere
  <2>2. requests' \in [Applications -> LoanRequest]
    BY <1>T, <2>1 DEF LoanRequest, State
  <2>3. LenderTypeOK'
    BY <1>15, <2>2 DEF DecidedElsewhere, DeskInv, LenderTypeOK, LoanRequest
  <2>4. ASSUME reviewer'.tidy PROVE PanelOfOne' /\ TermsOfTheirOwn'
    BY <1>15, <1>T, <2>1, <2>4 DEF DecidedElsewhere, DeskInv, PanelOfOne, TermsOfTheirOwn
  <2> QED BY <2>3, <2>4 DEF DeskInv
<1>16. CASE UNCHANGED deskVars
  BY <1>16 DEF deskVars, DeskInv, LenderTypeOK, PanelOfOne, TermsOfTheirOwn
<1> QED
  BY <1>1, <1>2, <1>3, <1>4, <1>5, <1>6, <1>7, <1>8, <1>9, <1>10, <1>11, <1>12, <1>13, <1>14,
     <1>15, <1>16 DEF LenderNext

\* Every variable of the page keeps its type.
THEOREM LenderTypeCorrect == LenderSpec => []LenderTypeOK
<1>1. DeskInv => LenderTypeOK
  BY DEF DeskInv
<1> QED BY <1>1, DeskInitial, DeskStep, PTL DEF LenderSpec

\* When every panel is closed before the next is opened, a loan is approved with
\* its own terms and declined with its own reason, and an error is told of the
\* loan it is about, whatever answers are late or lost and whoever decides
\* meanwhile.
THEOREM DecidesOnItsOwn == LenderSpec => []DecidedOnItsOwn
<1>1. DeskInv => DecidedOnItsOwn
  BY DEF DeskInv, PanelOfOne, TermsOfTheirOwn, DecidedOnItsOwn
<1> QED BY <1>1, DeskInitial, DeskStep, PTL DEF LenderSpec

-----------------------------------------------------------------------------
(* The onboarding of traders. *)

Network == [users: SUBSET Traders, shops: SUBSET TraderShops, pro: SUBSET Traders,
            referrals: SUBSET TraderShops, wallets: SUBSET TraderShops, active: SUBSET TraderShops]

Steps == {"idle", "start", "business", "wallet", "kyc", "complete"}

\* A form whose calls are under way is filled in.
ChainType ==
  /\ chain \in [step: Steps, form: Forms]
  /\ chain.step = "idle" => chain = Idle
  /\ chain.step # "idle" => ShopOf(chain.form) \in TraderShops

NetworkType ==
  /\ network \in Network
  /\ network.referrals \cup network.wallets \cup network.active \subseteq network.shops

\* The shops of a trader in a network, and how many the trader may have in it.
ShopsIn(net, owner) == {shop \in net.shops : shop.owner = owner}
AllowedIn(net, owner) == BusinessesAllowed(owner \in net.pro)

\* Whoever the agent is paid for is within the plan.
WithinPlan(net) ==
  \A paid \in net.referrals : Cardinality(ShopsIn(net, paid.owner)) <= AllowedIn(net, paid.owner)

\* The later calls are about a shop that exists and was attributed to the agent,
\* and the last one about a shop that has a wallet.
ChainGrounded ==
  /\ chain.step \in {"wallet", "kyc", "complete"} => ShopOf(chain.form) \in network.referrals
  /\ chain.step = "complete" => ShopOf(chain.form) \in network.wallets

OnboardInv ==
  /\ traderForm \in Forms /\ tries \in 0..MaxTries
  /\ ChainType /\ NetworkType /\ WithinPlan(network) /\ ChainGrounded /\ AddedIsReady

LEMMA EmptyFormType == EmptyForm \in Forms /\ Idle \in [step: Steps, form: Forms] /\ Idle.step = "idle"
BY DEF EmptyForm, Idle, Forms, PickerTypes, Steps

LEMMA FiniteShops == IsFiniteSet(TraderShops)
<1>1. IsFiniteSet(Traders \X ShopNames)
  BY FS_Product, OnboardAssumption
<1> DEFINE f == [p \in Traders \X ShopNames |-> [owner |-> p[1], shop |-> p[2]]]
<1>2. \A s \in TraderShops : s = f[<<s.owner, s.shop>>] /\ <<s.owner, s.shop>> \in Traders \X ShopNames
  BY DEF TraderShops
<1>3. f \in [Traders \X ShopNames -> TraderShops]
  BY DEF TraderShops
<1> HIDE DEF f
<1>4. f \in Surjection(Traders \X ShopNames, TraderShops)
  BY <1>2, <1>3 DEF Surjection
<1> QED BY <1>1, <1>4, FS_Surjection

\* A plan allows one shop or three, and Pro no fewer than the others.
LEMMA PlanAllows ==
  ASSUME NEW net, NEW owner
  PROVE  /\ AllowedIn(net, owner) \in {1, 3}
         /\ owner \in net.pro => AllowedIn(net, owner) = 3
         /\ owner \notin net.pro => AllowedIn(net, owner) = 1
<1>1. CASE owner \in net.pro
  BY <1>1 DEF AllowedIn, BusinessesAllowed
<1>2. CASE owner \notin net.pro
  BY <1>2 DEF AllowedIn, BusinessesAllowed
<1> QED BY <1>1, <1>2

\* A shop made below the limit leaves its owner within the plan.
LEMMA BelowLimit ==
  ASSUME NetworkType, NEW owner, NEW shop \in TraderShops, ~OverLimit(owner)
  PROVE  Cardinality(Owned(owner) \cup {shop}) <= AllowedIn(network, owner)
<1>1. IsFiniteSet(Owned(owner)) /\ Cardinality(Owned(owner)) \in Nat
  BY FiniteShops, FS_Subset, FS_CardinalityType DEF Owned, NetworkType, Network
<1>2. AllowedIn(network, owner) \in {1, 3}
  BY PlanAllows
<1>3. Cardinality(Owned(owner)) = 0 \/ ~(Cardinality(Owned(owner)) >= AllowedIn(network, owner))
  <2>1. CASE Owned(owner) = {}
    BY <2>1, FS_EmptySet
  <2>2. CASE Owned(owner) # {}
    BY <2>2 DEF OverLimit, AllowedIn
  <2> QED BY <2>1, <2>2
<1>4. Cardinality(Owned(owner) \cup {shop}) \in {Cardinality(Owned(owner)), Cardinality(Owned(owner)) + 1}
  BY <1>1, FS_AddElement
<1> QED BY <1>1, <1>2, <1>3, <1>4

\* A call that leaves the shops and the plans as they are, and pays only for owners
\* the agent is already paid for, keeps everybody within the plan.
LEMMA SameShops ==
  ASSUME NEW net, NEW after, WithinPlan(net),
         after.shops = net.shops, after.pro = net.pro,
         \A paid \in after.referrals : \E before \in net.referrals : before.owner = paid.owner
  PROVE  WithinPlan(after)
<1> SUFFICES ASSUME NEW paid \in after.referrals
    PROVE  Cardinality(ShopsIn(after, paid.owner)) <= AllowedIn(after, paid.owner)
  BY DEF WithinPlan
<1>1. PICK before \in net.referrals : before.owner = paid.owner
  OBVIOUS
<1>2. ShopsIn(after, paid.owner) = ShopsIn(net, paid.owner)
  BY DEF ShopsIn
<1>3. AllowedIn(after, paid.owner) = AllowedIn(net, paid.owner)
  BY DEF AllowedIn
<1>4. Cardinality(ShopsIn(net, before.owner)) <= AllowedIn(net, before.owner)
  BY DEF WithinPlan
<1> QED BY <1>1, <1>2, <1>3, <1>4

\* What the server does in a call: what was there stays, and only the second call
\* makes a shop, for a trader within the plan.
LEMMA ServedCall ==
  ASSUME OnboardInv, chain.step # "idle",
         NEW after \in Served(chain.step, chain.form)
  PROVE  /\ after \in Network
         /\ after.referrals \cup after.wallets \cup after.active \subseteq after.shops
         /\ network.referrals \subseteq after.referrals
         /\ network.wallets \subseteq after.wallets /\ network.active \subseteq after.active
         /\ WithinPlan(after)
         /\ chain.step = "business" => ShopOf(chain.form) \in after.referrals
         /\ chain.step = "wallet" => ShopOf(chain.form) \in after.wallets
         /\ chain.step = "complete" => ShopOf(chain.form) \in after.active
<1> DEFINE shop == ShopOf(chain.form)
<1>1. /\ shop \in TraderShops /\ shop.owner = chain.form.phone /\ chain.form.phone \in Traders
      /\ network \in Network
  BY DEF OnboardInv, ChainType, NetworkType, ShopOf, TraderShops
<1>0. WithinPlan(network)
  BY DEF OnboardInv
<1> HIDE DEF shop
<1>2. CASE chain.step = "start"
  <2>1. after = [network EXCEPT !.users = @ \cup {chain.form.phone}]
    BY <1>2 DEF Served
  <2>2. /\ after \in Network /\ after.shops = network.shops /\ after.pro = network.pro
        /\ after.referrals = network.referrals
        /\ after.wallets = network.wallets /\ after.active = network.active
    BY <1>1, <2>1 DEF Network
  <2>3. WithinPlan(after)
    BY <1>0, <2>2, SameShops
  <2> QED BY <1>2, <2>2, <2>3 DEF OnboardInv, NetworkType
<1>3. CASE chain.step = "business"
  <2>1. /\ after = Attributed([network EXCEPT !.shops = @ \cup {shop}], shop)
        /\ ~OverLimit(chain.form.phone)
    BY <1>3 DEF Served, CreateTraderBusiness, shop
  <2>2. Cardinality(Owned(shop.owner) \cup {shop}) <= AllowedIn(network, shop.owner)
    BY <1>1, <2>1, BelowLimit DEF OnboardInv
  <2>3. /\ after \in Network /\ after.shops = network.shops \cup {shop} /\ after.pro = network.pro
        /\ after.referrals = network.referrals \cup {shop}
        /\ after.wallets = network.wallets /\ after.active = network.active
    BY <1>1, <2>1 DEF Network, Attributed
  <2>4. WithinPlan(after)
    <3> SUFFICES ASSUME NEW paid \in after.referrals
        PROVE  Cardinality(ShopsIn(after, paid.owner)) <= AllowedIn(after, paid.owner)
      BY DEF WithinPlan
    <3>1. AllowedIn(after, paid.owner) = AllowedIn(network, paid.owner)
      BY <2>3 DEF AllowedIn
    <3>2. CASE paid.owner = shop.owner
      <4>1. ShopsIn(after, paid.owner) = Owned(shop.owner) \cup {shop}
        BY <2>3, <3>2 DEF ShopsIn, Owned
      <4> QED BY <2>2, <3>1, <3>2, <4>1
    <3>3. CASE paid.owner # shop.owner
      <4>1. ShopsIn(after, paid.owner) = ShopsIn(network, paid.owner) /\ paid \in network.referrals
        BY <2>3, <3>3 DEF ShopsIn
      <4> QED BY <1>0, <3>1, <4>1 DEF WithinPlan
    <3> QED BY <3>2, <3>3
  <2> QED BY <1>3, <2>3, <2>4 DEF OnboardInv, NetworkType, shop
<1>4. CASE chain.step = "wallet"
  <2>1. after = [network EXCEPT !.wallets = @ \cup {shop}]
    BY <1>4 DEF Served, shop
  <2>2. shop \in network.shops
    BY <1>4 DEF OnboardInv, ChainGrounded, NetworkType, shop
  <2>3. /\ after \in Network /\ after.shops = network.shops /\ after.referrals = network.referrals
        /\ after.pro = network.pro
        /\ after.wallets = network.wallets \cup {shop} /\ after.active = network.active
    BY <1>1, <2>1 DEF Network
  <2>4. WithinPlan(after)
    BY <1>0, <2>3, SameShops
  <2> QED BY <1>4, <2>2, <2>3, <2>4 DEF OnboardInv, NetworkType, shop
<1>5. CASE chain.step = "kyc"
  BY <1>5 DEF Served, SubmitTraderKyc
<1>6. CASE chain.step = "complete"
  <2>1. after = [Attributed(network, shop) EXCEPT !.active = @ \cup {shop}]
    BY <1>6 DEF Served, shop
  <2>2. shop \in network.shops /\ shop \in network.referrals
    BY <1>6 DEF OnboardInv, ChainGrounded, NetworkType, shop
  <2>3. /\ after \in Network /\ after.shops = network.shops
        /\ after.referrals = network.referrals \cup {shop} /\ after.pro = network.pro
        /\ after.wallets = network.wallets /\ after.active = network.active \cup {shop}
    BY <1>1, <2>1 DEF Network, Attributed
  <2>4. WithinPlan(after)
    BY <1>0, <2>2, <2>3, SameShops
  <2> QED BY <1>6, <2>2, <2>3, <2>4 DEF OnboardInv, NetworkType, shop
<1> QED BY <1>2, <1>3, <1>4, <1>5, <1>6 DEF OnboardInv, ChainType, Steps

LEMMA OnboardInitial ==
  ASSUME OnboardInit PROVE OnboardInv
<1>1. PICK before \in SignedUp :
        network = [users |-> {shop.owner : shop \in before.shops}, shops |-> before.shops,
                   pro |-> before.pro, referrals |-> {}, wallets |-> {}, active |-> {}]
  BY DEF OnboardInit
<1>2. NetworkType
  <2>1. before.shops \in SUBSET TraderShops
    BY OnboardAssumption DEF TraderShops
  <2>2. {shop.owner : shop \in before.shops} \in SUBSET Traders
    BY <2>1 DEF TraderShops
  <2>3. before.pro \in SUBSET Traders
    BY <2>2, OnboardAssumption
  <2> QED BY <1>1, <2>1, <2>2, <2>3 DEF NetworkType, Network
<1>4. traderForm \in Forms /\ tries \in 0..MaxTries
  BY EmptyFormType, OnboardAssumption DEF OnboardInit
<1>5. ChainType /\ ChainGrounded
  BY EmptyFormType DEF OnboardInit, ChainType, ChainGrounded
<1>6. WithinPlan(network)
  BY <1>1 DEF WithinPlan
<1>7. AddedIsReady
  BY DEF OnboardInit, AddedIsReady
<1> QED BY <1>2, <1>4, <1>5, <1>6, <1>7 DEF OnboardInv

LEMMA OnboardStep == OnboardInv /\ [OnboardNext]_onboardVars => OnboardInv'
<1> SUFFICES ASSUME OnboardInv, [OnboardNext]_onboardVars PROVE OnboardInv'
  OBVIOUS
<1> USE DEF OnboardInv
<1>1. CASE TypeTrader
  <2>1. traderForm' \in Forms
    BY <1>1 DEF TypeTrader, Forms
  <2> QED BY <1>1, <2>1 DEF TypeTrader, ChainType, NetworkType, WithinPlan, ShopsIn, AllowedIn, ChainGrounded, AddedIsReady
<1>2. CASE PickType
  <2>1. traderForm' \in Forms
    BY <1>2 DEF PickType, Forms
  <2> QED BY <1>2, <2>1 DEF PickType, ChainType, NetworkType, WithinPlan, ShopsIn, AllowedIn, ChainGrounded, AddedIsReady
<1>3. CASE SubmitTrader
  <2>1. ShopOf(traderForm) \in TraderShops
    BY <1>3 DEF SubmitTrader, Forms, ShopOf, TraderShops
  <2>2. ChainType' /\ ChainGrounded'
    BY <1>3, <2>1 DEF SubmitTrader, ChainType, ChainGrounded, ShopOf, Steps
  <2>3. tries' \in 0..MaxTries
    <3>1. tries \in 0..MaxTries /\ tries < MaxTries /\ tries' = tries + 1 /\ MaxTries \in Nat
      BY <1>3, OnboardAssumption DEF SubmitTrader
    <3> QED BY <3>1
  <2> QED BY <1>3, <2>2, <2>3 DEF SubmitTrader, NetworkType, WithinPlan, ShopsIn, AllowedIn, AddedIsReady
<1>4. CASE OnboardTraderFull
  <2>1. chain.step # "idle"
    BY <1>4 DEF OnboardTraderFull, ChainType
  <2>2. /\ network' \in Served(chain.step, chain.form)
        /\ UNCHANGED <<traderForm, tries>>
        /\ IF StepAfter(chain.step, chain.form) = "end"
           THEN chain' = Idle /\ report' = [kind |-> "added", shop |-> ShopOf(chain.form)]
           ELSE chain' = [chain EXCEPT !.step = StepAfter(chain.step, chain.form)] /\ UNCHANGED report
    BY <1>4 DEF OnboardTraderFull
  <2>3. NetworkType' /\ WithinPlan(network)'
    BY <2>1, <2>2, ServedCall DEF NetworkType, WithinPlan, ShopsIn, AllowedIn
  <2>4. CASE chain.step = "complete"
    <3>1. chain' = Idle /\ report' = [kind |-> "added", shop |-> ShopOf(chain.form)]
      BY <2>2, <2>4 DEF StepAfter
    <3>2. AddedIsReady'
      BY <2>1, <2>2, <2>4, <3>1, ServedCall DEF AddedIsReady, ChainGrounded
    <3>3. ChainType' /\ ChainGrounded'
      BY <3>1, EmptyFormType DEF ChainType, ChainGrounded
    <3> QED BY <2>2, <2>3, <3>2, <3>3
  <2>5. CASE chain.step # "complete"
    <3>1. /\ StepAfter(chain.step, chain.form) \in Steps \ {"idle"}
          /\ StepAfter(chain.step, chain.form) \in {"wallet", "kyc", "complete"} =>
               chain.step \in {"business", "wallet", "kyc"}
          /\ StepAfter(chain.step, chain.form) = "complete" => chain.step \in {"wallet", "kyc"}
      BY <2>1, <2>5 DEF StepAfter, ChainType, Steps
    <3>2. /\ chain' = [chain EXCEPT !.step = StepAfter(chain.step, chain.form)]
          /\ UNCHANGED report
      BY <2>2, <3>1 DEF Steps
    <3>3. chain.step # "kyc"
      BY <2>2 DEF Served, SubmitTraderKyc
    <3>4. ChainType' /\ chain'.form = chain.form
      BY <2>1, <3>1, <3>2 DEF ChainType
    <3>5. ChainGrounded'
      BY <2>1, <2>2, <3>1, <3>2, <3>3, <3>4, ServedCall DEF ChainGrounded, ChainType
    <3>6. AddedIsReady'
      BY <2>1, <2>2, <3>2, ServedCall DEF AddedIsReady
    <3> QED BY <2>2, <2>3, <3>4, <3>5, <3>6
  <2> QED BY <2>4, <2>5
<1>5. CASE OnboardingFailed
  <2>1. chain.step # "idle"
    BY <1>5 DEF OnboardingFailed, ChainType
  <2>2. NetworkType' /\ WithinPlan(network)'
    BY <1>5, <2>1, ServedCall DEF OnboardingFailed, NetworkType, WithinPlan, ShopsIn, AllowedIn
  <2>3. ChainType' /\ ChainGrounded'
    BY <1>5, EmptyFormType DEF OnboardingFailed, ChainType, ChainGrounded
  <2> QED BY <1>5, <2>2, <2>3 DEF OnboardingFailed, AddedIsReady
<1>6. CASE OnboardAnother
  BY <1>6, EmptyFormType
     DEF OnboardAnother, ChainType, NetworkType, WithinPlan, ShopsIn, AllowedIn, ChainGrounded, AddedIsReady
<1>8. CASE TraderUpgrades
  <2>1. PICK shop \in network.shops : network' = [network EXCEPT !.pro = @ \cup {shop.owner}]
    BY <1>8 DEF TraderUpgrades
  <2>2. shop.owner \in Traders /\ network \in Network
    BY DEF NetworkType, Network, TraderShops
  <2>3. /\ network' \in Network
        /\ network'.shops = network.shops /\ network'.referrals = network.referrals
        /\ network'.wallets = network.wallets /\ network'.active = network.active
        /\ network'.pro = network.pro \cup {shop.owner}
    BY <2>1, <2>2 DEF Network
  <2>4. WithinPlan(network)'
    <3> SUFFICES ASSUME NEW paid \in network'.referrals
        PROVE  Cardinality(ShopsIn(network', paid.owner)) <= AllowedIn(network', paid.owner)
      BY DEF WithinPlan
    <3>1. ShopsIn(network', paid.owner) = ShopsIn(network, paid.owner)
      BY <2>3 DEF ShopsIn
    <3>2. Cardinality(ShopsIn(network, paid.owner)) <= AllowedIn(network, paid.owner)
      BY <2>3 DEF WithinPlan
    <3>3. IsFiniteSet(ShopsIn(network, paid.owner)) /\ Cardinality(ShopsIn(network, paid.owner)) \in Nat
      BY <2>2, FiniteShops, FS_Subset, FS_CardinalityType DEF ShopsIn, Network
    <3>4. AllowedIn(network, paid.owner) <= AllowedIn(network', paid.owner)
      <4>1. CASE paid.owner \in network.pro
        <5>1. AllowedIn(network, paid.owner) = 3 /\ AllowedIn(network', paid.owner) = 3
          BY <2>3, <4>1, PlanAllows
        <5> QED BY <5>1
      <4>2. CASE paid.owner \notin network.pro
        <5>1. AllowedIn(network, paid.owner) = 1 /\ AllowedIn(network', paid.owner) \in {1, 3}
          BY <4>2, PlanAllows
        <5> QED BY <5>1
      <4> QED BY <4>1, <4>2
    <3>5. AllowedIn(network, paid.owner) \in {1, 3} /\ AllowedIn(network', paid.owner) \in {1, 3}
      BY PlanAllows
    <3> QED BY <3>1, <3>2, <3>3, <3>4, <3>5
  <2>5. ChainType' /\ ChainGrounded' /\ AddedIsReady'
    BY <1>8, <2>3 DEF TraderUpgrades, ChainType, ChainGrounded, AddedIsReady
  <2> QED BY <1>8, <2>3, <2>4, <2>5 DEF TraderUpgrades, NetworkType
<1>7. CASE UNCHANGED onboardVars
  BY <1>7 DEF onboardVars, ChainType, NetworkType, WithinPlan, ShopsIn, AllowedIn, ChainGrounded, AddedIsReady
<1> QED BY <1>1, <1>2, <1>3, <1>4, <1>5, <1>6, <1>7, <1>8 DEF OnboardNext

\* Every variable keeps its type.
THEOREM OnboardTypeCorrect == OnboardSpec => []OnboardTypeOK
<1>1. OnboardInv => OnboardTypeOK
  BY DEF OnboardInv, ChainType, NetworkType, Network, Steps, OnboardTypeOK
<1> QED BY <1>1, OnboardInitial, OnboardStep, PTL DEF OnboardSpec

\* Whichever calls fail or lose their replies, and however often the form is
\* corrected and sent again, the agent is paid for a trader's shops within the
\* trader's plan, and is told that a trader was added only when the shop is there,
\* complete.
THEOREM AddsWithinPlan == OnboardSpec => []AddedWithinPlan
<1>1. OnboardInv => AddedWithinPlan
  <2> SUFFICES ASSUME OnboardInv PROVE AddedWithinPlan
    OBVIOUS
  <2>1. WithinPlan(network) => PaidWithinPlan
    BY DEF WithinPlan, PaidWithinPlan, ShopsIn, Owned, AllowedIn
  <2> QED BY <2>1 DEF OnboardInv, AddedWithinPlan
<1> QED BY <1>1, OnboardInitial, OnboardStep, PTL DEF OnboardSpec
=============================================================================
