----------------------------- MODULE MCLoanService -----------------------------
(* Small instances of LoanService. *)
EXTENDS LoanService, TLC

LoanSymmetry == Permutations(Loans) \cup Permutations(Requests)
===============================================================================
