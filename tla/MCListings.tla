----------------------------- MODULE MCListings -----------------------------
(* Instances of Listings and Browse for TLC. *)
EXTENDS Browse, TLC

\* Accounts are alike, and so are workers.
Symmetry == Permutations(Users) \cup Permutations(Procs)
=============================================================================
