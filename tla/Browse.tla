------------------------------- MODULE Browse -------------------------------
(***************************************************************************)
(* What becomes of the links to a listing and of what was written about    *)
(* it: listing_detail and inbox of src/app/routes/listings.py, over the    *)
(* state of Listings.  A link is followed long after the page that shows   *)
(* it was rendered: an old tab, a map that a shared cache keeps for a      *)
(* minute, a site map that it keeps for an hour.                           *)
(***************************************************************************)
EXTENDS Listings

\* NoUser is somebody who is not signed in.
Viewers == Users \cup {NoUser}

\* listing_detail: not a 404.
Opens(l, v) ==
    /\ Exists(l)
    /\ listings[l].status = "removed" => listings[l].owner = v

\* The inbox: the listings its messages are about, and one's own.
inbox(u) == {m.about : m \in {n \in messages : n.recipient = u}}
            \cup {l \in ListingIds : listings[l].owner = u}

-----------------------------------------------------------------------------
(* Properties. *)

\* A listing can be completed, flagged and taken down, in any order and beside
\* requests about it that are still under way, and nothing recorded about it goes:
\* not a report, which goes on naming a row and through it whoever posted it
\* ("silently destroying moderation history", src/app/routes/listings.py:484-486),
\* not a count of the events, and not a link of somebody's inbox, which goes on
\* opening.  (All three tables refer to listings with ON DELETE CASCADE.)
RecordsOutliveListings ==
    [][/\ \A r \in reports :
            /\ r \in reports'
            /\ Exists(r.about)'
            /\ listings'[r.about].owner = listings[r.about].owner
       /\ events \subseteq events'
       /\ \A l \in ListingIds : completions[l] <= completions'[l]
       /\ \A u \in Users : \A l \in inbox(u) : l \in inbox(u)' /\ Opens(l, u)']_vars

\* A page that opened once opens again, from an old tab or a cached map, unless
\* the owner has taken the listing down since; the owner's own link never dies.
LinksLast ==
    [][\A l \in ListingIds, v \in Viewers :
         Opens(l, v) /\ ~Opens(l, v)'
            => \E p \in Procs : /\ DeleteCommit(p)
                                /\ req[p].lid = l
                                /\ req[p].uid = listings[l].owner
                                /\ v # listings[l].owner]_vars
=============================================================================
