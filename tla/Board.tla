-------------------------------- MODULE Board --------------------------------
(***************************************************************************)
(* What the notice board promises, without workers, readings and commits:  *)
(* the abstract specification that Listings implements.                    *)
(*                                                                         *)
(* A listing is posted once, by a member, and from then on belongs to that *)
(* member.  It can be completed and taken down.  Taking it down is final,  *)
(* but for one case that the program has and the board admits: somebody    *)
(* who was completing the listing while it was active may still do so.     *)
(* Members write to the owners of listings, and to nobody else.            *)
(***************************************************************************)
CONSTANTS Users, NoUser, ListingIds

VARIABLES
    members,   \* those who may post and write
    status,    \* of each listing
    owner,     \* of each listing
    contested, \* the listings somebody has begun to complete
    letters    \* what was written, about which listing, from whom, to whom

vars == <<members, status, owner, contested, letters>>

Init ==
    /\ members = {}
    /\ status = [l \in ListingIds |-> "none"]
    /\ owner = [l \in ListingIds |-> NoUser]
    /\ contested = {}
    /\ letters = {}

Join(u) ==
    /\ members' = members \cup {u}
    /\ UNCHANGED <<status, owner, contested, letters>>

Post(u, l) ==
    /\ u \in members
    /\ status[l] = "none"
    /\ status' = [status EXCEPT ![l] = "active"]
    /\ owner' = [owner EXCEPT ![l] = u]
    /\ UNCHANGED <<members, contested, letters>>

Write(u, l) ==
    /\ u \in members
    /\ status[l] # "none"
    /\ u # owner[l]
    /\ letters' = letters \cup {[about |-> l, sender |-> u, recipient |-> owner[l]]}
    /\ UNCHANGED <<members, status, owner, contested>>

Contest(l) ==
    /\ status[l] = "active"
    /\ contested' = contested \cup {l}
    /\ UNCHANGED <<members, status, owner, letters>>

Settle(l) ==
    /\ contested' = contested \ {l}
    /\ UNCHANGED <<members, status, owner, letters>>

\* Others may be completing it as well.
Complete(l) ==
    /\ l \in contested
    /\ status' = [status EXCEPT ![l] = "completed"]
    /\ contested' \in {contested, contested \ {l}}
    /\ UNCHANGED <<members, owner, letters>>

TakeDown(l) ==
    /\ status[l] # "none"
    /\ status' = [status EXCEPT ![l] = "removed"]
    /\ UNCHANGED <<members, owner, contested, letters>>

Next ==
    \/ \E u \in Users : Join(u)
    \/ \E u \in Users, l \in ListingIds : Post(u, l) \/ Write(u, l)
    \/ \E l \in ListingIds : Contest(l) \/ Settle(l) \/ Complete(l) \/ TakeDown(l)

Spec == Init /\ [][Next]_vars
=============================================================================
