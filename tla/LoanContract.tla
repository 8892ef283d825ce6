----------------------------- MODULE LoanContract -----------------------------
(***************************************************************************)
(* What a loan promises the merchant and the lender, without Paystack,     *)
(* retries or tasks: one loan at a time, lent only after it was agreed and *)
(* sent, and closed as soon as no part of it is owed, as repaid when every *)
(* part was paid and as defaulted when some part had to be given up.       *)
(***************************************************************************)
CONSTANTS Loans, Parts

VARIABLES
  stage,   \* of each loan
  sent,    \* loans whose money has left
  owed,    \* the parts each loan's merchant still owes
  lost     \* the parts each loan's lender has given up

contract == <<stage, sent, owed, lost>>

Init ==
  /\ stage = [l \in Loans |-> "none"]
  /\ sent = {}
  /\ owed = [l \in Loans |-> {}]
  /\ lost = [l \in Loans |-> {}]

Move(l, from, to) == stage[l] = from /\ stage' = [stage EXCEPT ![l] = to]

Ask(l) ==
  /\ \A other \in Loans : stage[other] \in {"none", "refused", "repaid", "defaulted"}
  /\ Move(l, "none", "asked")
  /\ UNCHANGED <<sent, owed, lost>>

Agree(l) == Move(l, "asked", "agreed") /\ UNCHANGED <<sent, owed, lost>>

Refuse(l) == Move(l, "asked", "refused") /\ UNCHANGED <<sent, owed, lost>>

Send(l) ==
  /\ stage[l] = "agreed"
  /\ sent' = sent \cup {l}
  /\ UNCHANGED <<stage, owed, lost>>

Lend(l) ==
  /\ l \in sent
  /\ Move(l, "agreed", "lent")
  /\ owed' = [owed EXCEPT ![l] = Parts]
  /\ UNCHANGED <<sent, lost>>

\* What a day's collection leaves of the loan's parts.
Left(l, paid, given_up) == owed[l] \ (paid \cup given_up)

Outcome(l, paid, given_up) ==
  IF Left(l, paid, given_up) # {} THEN "lent"
  ELSE IF lost[l] \cup given_up = {} THEN "repaid" ELSE "defaulted"

\* A day's collection: every lent loan closes if, and only if, it is settled.
Collect ==
  \E paid, given_up \in [Loans -> SUBSET Parts] :
    /\ \A l \in Loans : /\ paid[l] \cup given_up[l] \subseteq owed[l]
                        /\ paid[l] \cap given_up[l] = {}
    /\ owed' = [l \in Loans |-> Left(l, paid[l], given_up[l])]
    /\ lost' = [l \in Loans |-> lost[l] \cup given_up[l]]
    /\ stage' = [l \in Loans |-> IF stage[l] = "lent" THEN Outcome(l, paid[l], given_up[l])
                                 ELSE stage[l]]
    /\ UNCHANGED sent

Next ==
  \/ \E l \in Loans : Ask(l) \/ Agree(l) \/ Refuse(l) \/ Send(l) \/ Lend(l)
  \/ Collect

Spec == Init /\ [][Next]_contract
===============================================================================
