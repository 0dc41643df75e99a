------------------------------ MODULE Listings ------------------------------
(***************************************************************************)
(* The life of a listing and what people send each other about it:         *)
(* src/app/routes/listings.py over the listings, messages, reports and    *)
(* event_log tables of src/app/models.py.                                  *)
(*                                                                         *)
(* As in Accounts, a handler reads in one step and commits in a later one, *)
(* under READ COMMITTED, and an UPDATE names only the columns the handler  *)
(* changed.  An analytics event is a second transaction of the same        *)
(* request, after the one it records; the mail about a request leaves      *)
(* after its response, and is lost with the process.                       *)
(*                                                                         *)
(* The text, tags, place and photo of a listing are not part of this       *)
(* module, and editing them changes nothing in it; nor are the event rows  *)
(* of mere views, which nothing reads.  Whoever makes a request is signed  *)
(* in as the user it names: what that takes is in Accounts.                *)
(***************************************************************************)
EXTENDS Naturals, FiniteSets

CONSTANTS
    Users,      \* the accounts
    NoUser,     \* no account: an idle worker's, or the operator's
    ListingIds, \* the primary keys the listings table will hand out
    NoListing,  \* no listing
    Procs       \* the worker threads, of all the instances together

ASSUME ListingsAssumption ==
    /\ NoUser \notin Users
    /\ NoListing \notin ListingIds
    /\ IsFiniteSet(Procs)

VARIABLES
    verified,    \* the accounts whose address is proven; Accounts only adds to them
    listings,    \* the listings table: a row for each key, or NoRow
    messages,    \* the messages table
    reports,     \* the reports table
    feedback,    \* whether the feedback table has a row; who wrote it is left out
    events,      \* the listing_created and contact_sent rows of event_log
    completions, \* the listing_completed rows of event_log, by listing
    pending,     \* mails handed to a background task and not sent yet
    req,         \* the request each worker is in the middle of
    completed    \* history: how many commits completed the listing

tables == <<listings, messages, reports, feedback, events, completions>>
vars   == <<verified, tables, pending, req, completed>>

-----------------------------------------------------------------------------
(* The data. *)

Statuses == {"none", "active", "completed", "removed"}

Rows == [owner : Users \cup {NoUser}, status : Statuses, is_seed : BOOLEAN]

\* The key has not been used.
NoRow == [owner |-> NoUser, status |-> "none", is_seed |-> FALSE]

\* Mutant: a new listing belongs to nobody.
NewRow_Orphan(u) == [owner |-> NoUser, status |-> "active", is_seed |-> FALSE]

\* Listing(...) with the column defaults of the model.
NewRow(u) == [owner |-> u, status |-> "active", is_seed |-> FALSE]

Exists(l) == listings[l].status # "none"

Messages == [about : ListingIds, sender : Users, recipient : Users]

\* Message(...) of a contact request.
MessageOf(r) == [about |-> r.lid, sender |-> r.uid, recipient |-> r.row.owner]

Reports == [about : ListingIds, reporter : Users]
ReportOf(r) == [about |-> r.lid, reporter |-> r.uid]

Events == [type : {"listing_created", "contact_sent"},
           listing : ListingIds, user : Users]

\* A notification of a message, a report or feedback: what it announces, and whom
\* it goes to (NoUser: the operator).
Mails == [kind : {"message", "report", "feedback"}, about : ListingIds \cup {NoListing},
          by : Users \cup {NoUser}, to : Users \cup {NoUser}]

MessageMail(r) == [kind |-> "message", about |-> r.lid, by |-> r.uid, to |-> r.row.owner]
ReportMail(r) == [kind |-> "report", about |-> r.lid, by |-> r.uid, to |-> NoUser]
FeedbackMail == [kind |-> "feedback", about |-> NoListing, by |-> NoUser, to |-> NoUser]

\* What a worker knows of its request: who made it, about what, and the row as
\* it was loaded.
Request(pc, u, l, row) == [pc |-> pc, uid |-> u, lid |-> l, row |-> row]
Idle == Request("idle", NoUser, NoListing, NoRow)

IsIdle(p) == req[p] = Idle
At(p, pc) == req[p].pc = pc
Goto(p, pc) == req' = [req EXCEPT ![p].pc = pc]
Finish(p) == req' = [req EXCEPT ![p] = Idle]

\* The first reading of a request: the listing, as _get_listing loads it.
Load(p, pc, u, l) ==
    /\ IsIdle(p)
    /\ Exists(l)
    /\ req' = [req EXCEPT ![p] = Request(pc, u, l, listings[l])]
    /\ UNCHANGED <<verified, tables, pending, completed>>

\* The check of every handler that changes a listing.
OwnedBy(u, l) == listings[l].owner = u

-----------------------------------------------------------------------------
(* Posting. *)

\* What create_listing and send_contact ask of the account.
MayReachOthers(u) == u \in verified

\* create_listing up to the INSERT: the form is good, the photo uploaded.
CreateCheck(p, u) ==
    /\ IsIdle(p)
    /\ MayReachOthers(u)
    /\ req' = [req EXCEPT ![p] = Request("create", u, NoListing, NoRow)]
    /\ UNCHANGED <<verified, tables, pending, completed>>

\* The INSERT, under a key that was never used.
CreateCommit(p, l) ==
    /\ At(p, "create")
    /\ ~Exists(l)
    /\ listings' = [listings EXCEPT ![l] = NewRow(req[p].uid)]
    /\ req' = [req EXCEPT ![p] = Request("created", req[p].uid, l, NewRow(req[p].uid))]
    /\ UNCHANGED <<verified, messages, reports, feedback, events, completions, pending, completed>>

-----------------------------------------------------------------------------
(* Writing to the owner. *)

\* send_contact up to the INSERT.  Nothing looks at the listing's status.
ContactRead(p, u, l) ==
    /\ MayReachOthers(u)
    /\ ~OwnedBy(u, l)
    /\ Load(p, "contact", u, l)

\* Mutant: the handler does not commit, and the row is rolled back.
ContactCommit_Rollback(p) ==
    /\ At(p, "contact")
    /\ Goto(p, "contacted")
    /\ UNCHANGED <<verified, tables, pending, completed>>

\* The INSERT of the message.
ContactCommit(p) ==
    /\ At(p, "contact")
    /\ messages' = messages \cup {MessageOf(req[p])}
    /\ Goto(p, "contacted")
    /\ UNCHANGED <<verified, listings, reports, feedback, events, completions, pending, completed>>

\* The event, then the response, which takes the notification along.
ContactLog(p) ==
    /\ At(p, "contacted")
    /\ events' = events \cup
                 {[type |-> "contact_sent", listing |-> req[p].lid, user |-> req[p].uid]}
    /\ pending' = pending \cup {MessageMail(req[p])}
    /\ Finish(p)
    /\ UNCHANGED <<verified, listings, messages, reports, feedback, completions, completed>>

-----------------------------------------------------------------------------
(* Reports and feedback, which go to the operator. *)

\* report_listing up to the INSERT: any signed-in account, verified or not.
ReportRead(p, u, l) == Load(p, "report", u, l)

ReportCommit(p) ==
    /\ At(p, "report")
    /\ reports' = reports \cup {ReportOf(req[p])}
    /\ pending' = pending \cup {ReportMail(req[p])}
    /\ Finish(p)
    /\ UNCHANGED <<verified, listings, messages, feedback, events, completions, completed>>

\* submit_feedback up to the INSERT: anybody, signed in or not.
FeedbackRead(p) ==
    /\ IsIdle(p)
    /\ req' = [req EXCEPT ![p] = Request("feedback", NoUser, NoListing, NoRow)]
    /\ UNCHANGED <<verified, tables, pending, completed>>

\* Mutant: the mail is handed over, the row never committed.
FeedbackCommit_Rollback(p) ==
    /\ At(p, "feedback")
    /\ pending' = pending \cup {FeedbackMail}
    /\ Finish(p)
    /\ UNCHANGED <<verified, tables, completed>>

FeedbackCommit(p) ==
    /\ At(p, "feedback")
    /\ feedback' = TRUE
    /\ pending' = pending \cup {FeedbackMail}
    /\ Finish(p)
    /\ UNCHANGED <<verified, listings, messages, reports, events, completions, completed>>

-----------------------------------------------------------------------------
(* The owner's operations. *)

\* Mutant: the status is not looked at.
Completable_Any(row) == row.status # "none"

\* What mark_completed asks of the row it loaded.
Completable(row) == row.status = "active"

\* mark_completed, on an active listing; on any other it does nothing.
CompleteRead(p, u, l) ==
    /\ OwnedBy(u, l)
    /\ Completable(listings[l])
    /\ Load(p, "complete", u, l)

\* Mutant: the whole loaded row is written back.
CompleteCommit_WholeRow(p) ==
    /\ At(p, "complete")
    /\ listings' = [listings EXCEPT ![req[p].lid] = [req[p].row EXCEPT !.status = "completed"]]
    /\ completed' = [completed EXCEPT ![req[p].lid] = @ + 1]
    /\ Goto(p, "completed")
    /\ UNCHANGED <<verified, messages, reports, feedback, events, completions, pending>>

\* UPDATE listings SET status: whatever the status is by now.
CompleteCommit(p) ==
    /\ At(p, "complete")
    /\ listings' = [listings EXCEPT ![req[p].lid].status = "completed"]
    /\ completed' = [completed EXCEPT ![req[p].lid] = @ + 1]
    /\ Goto(p, "completed")
    /\ UNCHANGED <<verified, messages, reports, feedback, events, completions, pending>>

\* toggle_demo flips the flag as it was loaded.
ToggleRead(p, u, l) ==
    /\ OwnedBy(u, l)
    /\ Load(p, "toggle", u, l)

\* Mutant: the whole loaded row is written back, not the one changed column.
ToggleCommit_WholeRow(p) ==
    /\ At(p, "toggle")
    /\ listings' = [listings EXCEPT ![req[p].lid] = [req[p].row EXCEPT !.is_seed = ~@]]
    /\ Finish(p)
    /\ UNCHANGED <<verified, messages, reports, feedback, events, completions, pending, completed>>

ToggleCommit(p) ==
    /\ At(p, "toggle")
    /\ listings' = [listings EXCEPT ![req[p].lid].is_seed = ~req[p].row.is_seed]
    /\ Finish(p)
    /\ UNCHANGED <<verified, messages, reports, feedback, events, completions, pending, completed>>

\* delete_listing: a soft delete.  On a row loaded as removed it changes nothing.
DeleteRead(p, u, l) ==
    /\ OwnedBy(u, l)
    /\ listings[l].status # "removed"
    /\ Load(p, "delete", u, l)

\* Mutant: the row goes, and with it, by ON DELETE CASCADE, what refers to it.
DeleteCommit_Hard(p) ==
    LET l == req[p].lid IN
    /\ At(p, "delete")
    /\ listings' = [listings EXCEPT ![l] = NoRow]
    /\ messages' = {m \in messages : m.about # l}
    /\ reports' = {r \in reports : r.about # l}
    /\ events' = {e \in events : e.listing # l}
    /\ completions' = [completions EXCEPT ![l] = 0]
    /\ Finish(p)
    /\ UNCHANGED <<verified, feedback, pending, completed>>

DeleteCommit(p) ==
    /\ At(p, "delete")
    /\ listings' = [listings EXCEPT ![req[p].lid].status = "removed"]
    /\ Finish(p)
    /\ UNCHANGED <<verified, messages, reports, feedback, events, completions, pending, completed>>

-----------------------------------------------------------------------------
(* The analytics event of a request: log_event, a transaction of its own. *)

LogCreated(p) ==
    /\ At(p, "created")
    /\ events' = events \cup
                 {[type |-> "listing_created", listing |-> req[p].lid, user |-> req[p].uid]}
    /\ Finish(p)
    /\ UNCHANGED <<verified, listings, messages, reports, feedback, completions, pending, completed>>

LogCompleted(p) ==
    /\ At(p, "completed")
    /\ completions' = [completions EXCEPT ![req[p].lid] = @ + 1]
    /\ Finish(p)
    /\ UNCHANGED <<verified, listings, messages, reports, feedback, events, pending, completed>>

-----------------------------------------------------------------------------
(* The surroundings. *)

\* An account proves its address (Accounts: VerifyCommit, ResetCommit).
Verify(u) ==
    /\ u \notin verified
    /\ verified' = verified \cup {u}
    /\ UNCHANGED <<tables, pending, req, completed>>

\* A mail is sent, or refused by the provider, or dies with the process.
MailEnds(m) ==
    /\ pending' = pending \ {m}
    /\ UNCHANGED <<verified, tables, req, completed>>

\* A request ends early: an error, or the process dies.  Committed work stays.
Abort(p) ==
    /\ ~IsIdle(p)
    /\ Finish(p)
    /\ UNCHANGED <<verified, tables, pending, completed>>

-----------------------------------------------------------------------------
Init ==
    /\ verified = {}
    /\ listings = [l \in ListingIds |-> NoRow]
    /\ messages = {}
    /\ reports = {}
    /\ feedback = FALSE
    /\ events = {}
    /\ completions = [l \in ListingIds |-> 0]
    /\ pending = {}
    /\ req = [p \in Procs |-> Idle]
    /\ completed = [l \in ListingIds |-> 0]

\* A request arrives at an idle worker.
Arrive(p) ==
    \/ \E u \in Users : CreateCheck(p, u)
    \/ FeedbackRead(p)
    \/ \E u \in Users, l \in ListingIds :
         \/ ContactRead(p, u, l)
         \/ ReportRead(p, u, l)
         \/ CompleteRead(p, u, l)
         \/ ToggleRead(p, u, l)
         \/ DeleteRead(p, u, l)

\* The steps of a worker in the middle of a request.
Proceed(p) ==
    \/ \E l \in ListingIds : CreateCommit(p, l)
    \/ LogCreated(p)
    \/ ContactCommit(p) \/ ContactLog(p)
    \/ ReportCommit(p) \/ FeedbackCommit(p)
    \/ CompleteCommit(p) \/ LogCompleted(p)
    \/ ToggleCommit(p)
    \/ DeleteCommit(p)

Next ==
    \/ \E p \in Procs : Arrive(p) \/ Proceed(p) \/ Abort(p)
    \/ \E u \in Users : Verify(u)
    \/ \E m \in pending : MailEnds(m)

Spec == Init /\ [][Next]_vars

-----------------------------------------------------------------------------
(* Properties. *)

Pcs == {"idle", "create", "created", "contact", "contacted", "report", "feedback",
        "complete", "completed", "toggle", "delete"}

\* Every variable has its type.
TypeOK ==
    /\ verified \subseteq Users
    /\ listings \in [ListingIds -> Rows]
    /\ \A l \in ListingIds : Exists(l) => listings[l].owner \in Users
    /\ messages \subseteq Messages
    /\ reports \subseteq Reports
    /\ feedback \in BOOLEAN
    /\ events \subseteq Events
    /\ completions \in [ListingIds -> Nat]
    /\ pending \subseteq Mails
    /\ req \in [Procs -> [pc : Pcs, uid : Users \cup {NoUser},
                          lid : ListingIds \cup {NoListing}, row : Rows]]
    /\ completed \in [ListingIds -> Nat]

\* A mail announces only what is in the database already, and tells only the
\* person concerned: the recipient of the message, or the operator.
MailFollowsCommit ==
    \A m \in pending :
        CASE m.kind = "message" ->
               [about |-> m.about, sender |-> m.by, recipient |-> m.to] \in messages
          [] m.kind = "report" ->
               m.to = NoUser /\ [about |-> m.about, reporter |-> m.by] \in reports
          [] m.kind = "feedback" -> m.to = NoUser /\ feedback

\* An event is logged only for what was committed before it: the message of a
\* contact_sent, the listing of a listing_created, a completion for each
\* listing_completed (log_event is the last thing a handler does).
EventsFollowCommit ==
    /\ \A e \in events :
         /\ e.type = "listing_created" => listings[e.listing].owner = e.user
         /\ e.type = "contact_sent" =>
              \E m \in messages : m.about = e.listing /\ m.sender = e.user
    /\ \A l \in ListingIds : completions[l] <= completed[l]

\* However requests overlap, a listing is completed at most once by each of the
\* workers that were looking at it while it was active.
CompletedOncePerWorker ==
    \A l \in ListingIds : completed[l] <= Cardinality(Procs)

\* Nothing but a toggle by its owner changes the demo flag: what other requests
\* loaded of it before the toggle, they do not write back.
FlagOnlyByToggle ==
    [][\A l \in ListingIds :
         listings[l].is_seed # listings'[l].is_seed
            => \E p \in Procs : /\ ToggleCommit(p)
                                /\ req[p].lid = l
                                /\ req[p].uid = listings[l].owner]_vars

\* Listings implements the board: a listing is contested while a request is
\* between its look at the status and its commit.
Contested == {l \in ListingIds : \E p \in Procs : At(p, "complete") /\ req[p].lid = l}

TheBoard == INSTANCE Board WITH
    members <- verified,
    status <- [l \in ListingIds |-> listings[l].status],
    owner <- [l \in ListingIds |-> listings[l].owner],
    contested <- Contested,
    letters <- messages

ImplementsBoard == TheBoard!Spec

-----------------------------------------------------------------------------
(* What being a board means for the tables: each of these follows from     *)
(* ImplementsBoard, which the run checks, and ListingsProofs proves each.  *)

\* Nothing another person sees comes from an account whose address is unproven:
\* no listing and no message (create_listing, send_contact), however long the
\* request took.
OnlyVerifiedReachOthers ==
    /\ \A l \in ListingIds : Exists(l) => listings[l].owner \in verified
    /\ \A m \in messages : m.sender \in verified

\* A message is filed with the owner of the listing it is about and nobody else,
\* never with its own sender (send_contact, the only channel between the two).
MessagesReachTheOwner ==
    \A m \in messages :
        /\ Exists(m.about)
        /\ m.recipient = listings[m.about].owner
        /\ m.recipient # m.sender

\* A listing that was taken down or completed is never active again, it keeps
\* its owner and its row, and reporting or flagging it as a demo does
\* not move it (delete_listing is a soft delete so that reports survive).
NeverRelisted ==
    [][\A l \in ListingIds :
         Exists(l) => /\ listings'[l].owner = listings[l].owner
                      /\ listings'[l].status # "none"
                      /\ listings'[l].status = "active" => listings[l].status = "active"]_vars

\* Only a completion that found the listing active before it was removed brings
\* it back; no request that starts after the removal does (mark_completed).
RevivedOnlyByOverlap ==
    [][\A l \in ListingIds :
         listings[l].status = "removed" /\ listings'[l].status # "removed"
            => \E p \in Procs : /\ CompleteCommit(p)
                                /\ req[p].lid = l
                                /\ req[p].row.status = "active"]_vars

-----------------------------------------------------------------------------
(* What the program says of itself and does not keep. *)

\* What delete_listing and listing_detail say of a removed listing ("gone to
\* everyone but the owner"): nothing brings it back in view.
RemovedIsFinal ==
    [][\A l \in ListingIds :
         listings[l].status = "removed" => listings'[l].status = "removed"]_vars
=============================================================================
