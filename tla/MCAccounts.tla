----------------------------- MODULE MCAccounts -----------------------------
(* Instances of Accounts for TLC. *)
EXTENDS Accounts, TLC

\* Addresses are alike, and so are workers.
Symmetry == Permutations(Users) \cup Permutations(Procs)
=============================================================================
