--------------------------- MODULE MCListingEdit ---------------------------
(* The constants and the symmetry of the runs of ListingEdit. *)
EXTENDS ListingEdit, TLC

Symmetry == Permutations(ListingIds) \cup Permutations(Procs) \cup
            Permutations(Photos) \cup Permutations(Places)
=============================================================================
