---------------------------- MODULE ListingsProofs ----------------------------
(***************************************************************************)
(* Proofs about Listings and Browse, for any number of accounts, listings  *)
(* and workers.                                                            *)
(*                                                                         *)
(* Every table only grows, and a row keeps its owner (Monotone): what a    *)
(* worker was sure of when it read stays true until it commits, except the *)
(* status and the flag, which the invariant therefore says nothing of.     *)
(***************************************************************************)
EXTENDS Browse, FiniteSetTheorems, TLAPS

-----------------------------------------------------------------------------
(* The inductive invariant. *)

\* The worker has loaded a row, and it is still there, with the same owner.
Sees(r) ==
    /\ r.lid \in ListingIds
    /\ Exists(r.lid)
    /\ r.row.owner = listings[r.lid].owner

\* What a worker in the middle of a request may rely on.
Informed(r) ==
    /\ r.pc \notin {"idle", "feedback"} => r.uid \in Users
    /\ r.pc \in {"create", "contact", "contacted"} => r.uid \in verified
    /\ r.pc \notin {"idle", "feedback", "create"} => Sees(r)
    /\ r.pc \in {"contact", "contacted"} => r.uid # r.row.owner
    /\ r.pc = "contacted" => MessageOf(r) \in messages
    /\ r.pc \in {"created", "complete", "completed", "toggle", "delete"}
         => r.uid = r.row.owner
    /\ r.pc = "complete" => r.row.status = "active"

RowsOK == \A l \in ListingIds : Exists(l) \/ listings[l] = NoRow

Completing(l) == {p \in Procs : req[p].pc = "complete" /\ req[p].lid = l}
Logging(l)    == {p \in Procs : req[p].pc = "completed" /\ req[p].lid = l}

\* Completions are paid for by workers that loaded the row while it was active,
\* and the logged ones by workers that have completed.
Counted(l) ==
    /\ listings[l].status \in {"none", "active"} => completed[l] = 0
    /\ completed[l] + Cardinality(Completing(l)) <= Cardinality(Procs)
    /\ completions[l] + Cardinality(Logging(l)) <= completed[l]

EventsTrue ==
    \A e \in events :
        /\ e.type = "listing_created" => listings[e.listing].owner = e.user
        /\ e.type = "contact_sent" =>
             \E m \in messages : m.about = e.listing /\ m.sender = e.user

\* What was reported is there to be looked at.
ReportsOK == \A r \in reports : Exists(r.about)

IInv ==
    /\ TypeOK
    /\ RowsOK
    /\ ReportsOK
    /\ \A p \in Procs : Informed(req[p])
    /\ OnlyVerifiedReachOthers
    /\ MessagesReachTheOwner
    /\ MailFollowsCommit
    /\ EventsTrue
    /\ \A l \in ListingIds : Counted(l)

-----------------------------------------------------------------------------
(* Types. *)

Requests ==
    [pc : Pcs, uid : Users \cup {NoUser}, lid : ListingIds \cup {NoListing}, row : Rows]

\* A worker without a request has its type.
LEMMA IdleType == Idle \in Requests
  BY DEF Idle, Request, Requests, NoRow, Pcs, Rows, Statuses

\* A request that loads a listing keeps the types.
LEMMA LoadType ==
    ASSUME TypeOK, NEW p \in Procs, NEW u \in Users, NEW l \in ListingIds,
           NEW pc \in Pcs, Load(p, pc, u, l)
    PROVE  TypeOK'
<1>1. Request(pc, u, l, listings[l]) \in Requests
  BY DEF Request, Requests, TypeOK
<1> QED
  BY <1>1 DEF Load, TypeOK, Requests, tables, Exists

\* A commit: the row, if any, the request and the tables have their types.
LEMMA NextType == ASSUME IInv, [Next]_vars PROVE TypeOK'
<1> USE DEF IInv
<1>0. CASE UNCHANGED vars
  BY <1>0 DEF TypeOK, vars, tables, Exists
<1>1. ASSUME NEW p \in Procs, Arrive(p) PROVE TypeOK'
  <2>1. ASSUME NEW u \in Users, CreateCheck(p, u) PROVE TypeOK'
    <3>1. Request("create", u, NoListing, NoRow) \in Requests
      BY DEF Request, Requests, NoRow, Pcs, Rows, Statuses
    <3> QED BY <2>1, <3>1 DEF CreateCheck, TypeOK, tables, Exists, Requests
  <2>2. CASE FeedbackRead(p)
    <3>1. Request("feedback", NoUser, NoListing, NoRow) \in Requests
      BY DEF Request, Requests, NoRow, Pcs, Rows, Statuses
    <3> QED BY <2>2, <3>1 DEF FeedbackRead, TypeOK, tables, Exists, Requests
  <2>3. ASSUME NEW u \in Users, NEW l \in ListingIds, NEW pc \in Pcs, Load(p, pc, u, l)
        PROVE  TypeOK'
    BY <2>3, LoadType
  <2> QED
    BY <1>1, <2>1, <2>2, <2>3
       DEF Arrive, ContactRead, ReportRead, CompleteRead, ToggleRead, DeleteRead, Pcs
<1>2. ASSUME NEW p \in Procs, Proceed(p) PROVE TypeOK'
  <2>0. req[p] \in Requests /\ Informed(req[p])
    BY DEF TypeOK, Requests
  <2>1. ASSUME NEW l \in ListingIds, CreateCommit(p, l) PROVE TypeOK'
    <3>1. req[p].uid \in Users
      BY <2>0, <2>1 DEF CreateCommit, At, Informed
    <3>2. NewRow(req[p].uid) \in Rows
      BY <3>1 DEF NewRow, Rows, Statuses
    <3>3. Request("created", req[p].uid, l, NewRow(req[p].uid)) \in Requests
      BY <3>1, <3>2 DEF Request, Requests, Pcs
    <3>4. NewRow(req[p].uid).owner \in Users
      BY <3>1 DEF NewRow
    <3>5. listings' \in [ListingIds -> Rows] /\ req' \in [Procs -> Requests]
      BY <2>1, <3>2, <3>3 DEF CreateCommit, TypeOK, Requests
    <3>6. \A k \in ListingIds : Exists(k)' => listings'[k].owner \in Users
      BY <2>1, <3>4 DEF CreateCommit, TypeOK, Exists
    <3> QED BY <2>1, <3>5, <3>6 DEF CreateCommit, TypeOK, Requests
  <2>2. CASE ContactCommit(p)
    <3>1. MessageOf(req[p]) \in Messages
      BY <2>0, <2>2 DEF ContactCommit, At, Informed, Sees, MessageOf, Messages, TypeOK
    <3>2. req' \in [Procs -> Requests]
      BY <2>2 DEF ContactCommit, Goto, TypeOK, Requests, Pcs
    <3> QED BY <2>2, <3>1, <3>2 DEF ContactCommit, TypeOK, Exists, Requests
  <2>3. CASE ContactLog(p)
    <3>1. MessageMail(req[p]) \in Mails
      BY <2>0, <2>3 DEF MessageMail, Mails, Requests, Rows
    <3>2. [type |-> "contact_sent", listing |-> req[p].lid, user |-> req[p].uid] \in Events
      BY <2>0, <2>3 DEF ContactLog, At, Informed, Sees, Events
    <3> QED
      BY <2>3, <3>1, <3>2, IdleType DEF ContactLog, Finish, TypeOK, Exists, Requests
  <2>4. CASE ReportCommit(p)
    <3>1. ReportOf(req[p]) \in Reports
      BY <2>0, <2>4 DEF ReportCommit, At, Informed, Sees, ReportOf, Reports
    <3>2. ReportMail(req[p]) \in Mails
      BY <2>0 DEF ReportMail, Mails, Requests
    <3> QED
      BY <2>4, <3>1, <3>2, IdleType DEF ReportCommit, Finish, TypeOK, Exists, Requests
  <2>5. CASE FeedbackCommit(p)
    <3>1. FeedbackMail \in Mails
      BY DEF FeedbackMail, Mails
    <3> QED
      BY <2>5, <3>1, IdleType DEF FeedbackCommit, Finish, TypeOK, Exists, Requests
  <2>6. ASSUME NEW s \in Statuses \ {"none"}, NEW l \in ListingIds, Exists(l),
               listings' = [listings EXCEPT ![l].status = s]
        PROVE  /\ listings' \in [ListingIds -> Rows]
               /\ \A k \in ListingIds : Exists(k)' => listings'[k].owner \in Users
    BY <2>6 DEF TypeOK, Exists, Rows
  <2>7. CASE CompleteCommit(p)
    <3>1. req' \in [Procs -> Requests]
      BY <2>7 DEF CompleteCommit, Goto, TypeOK, Requests, Pcs
    <3>2. req[p].lid \in ListingIds /\ Exists(req[p].lid)
      BY <2>0, <2>7 DEF CompleteCommit, At, Informed, Sees
    <3>3. completed' \in [ListingIds -> Nat]
      BY <2>7, <3>2 DEF CompleteCommit, TypeOK
    <3>4. /\ listings' \in [ListingIds -> Rows]
          /\ \A k \in ListingIds : Exists(k)' => listings'[k].owner \in Users
      BY <2>6, <2>7, <3>2 DEF CompleteCommit, Statuses
    <3> QED BY <2>7, <3>1, <3>3, <3>4 DEF CompleteCommit, TypeOK, Requests
  <2>8. CASE LogCompleted(p)
    BY <2>0, <2>8, IdleType
       DEF LogCompleted, At, Informed, Sees, Finish, TypeOK, Exists, Requests
  <2>9. CASE LogCreated(p)
    <3>1. [type |-> "listing_created", listing |-> req[p].lid, user |-> req[p].uid] \in Events
      BY <2>0, <2>9 DEF LogCreated, At, Informed, Sees, Events
    <3> QED BY <2>9, <3>1, IdleType DEF LogCreated, Finish, TypeOK, Exists, Requests
  <2>10. CASE ToggleCommit(p)
    <3>1. req[p].lid \in ListingIds
      BY <2>0, <2>10 DEF ToggleCommit, At, Informed, Sees
    <3>2. PICK b \in BOOLEAN : listings' = [listings EXCEPT ![req[p].lid].is_seed = b]
      BY <2>10 DEF ToggleCommit
    <3>3. listings' \in [ListingIds -> Rows]
      BY <3>1, <3>2 DEF TypeOK, Rows
    <3>4. \A k \in ListingIds : Exists(k)' => listings'[k].owner \in Users
      BY <3>1, <3>2 DEF TypeOK, Exists, Rows
    <3> QED BY <2>10, <3>3, <3>4, IdleType DEF ToggleCommit, Finish, TypeOK, Requests
  <2>11. CASE DeleteCommit(p)
    <3>1. req[p].lid \in ListingIds /\ Exists(req[p].lid)
      BY <2>0, <2>11 DEF DeleteCommit, At, Informed, Sees
    <3>2. /\ listings' \in [ListingIds -> Rows]
          /\ \A k \in ListingIds : Exists(k)' => listings'[k].owner \in Users
      BY <2>6, <2>11, <3>1 DEF DeleteCommit, Statuses
    <3> QED BY <2>11, <3>2, IdleType DEF DeleteCommit, Finish, TypeOK, Requests
  <2> QED
    BY <1>2, <2>1, <2>2, <2>3, <2>4, <2>5, <2>7, <2>8, <2>9, <2>10, <2>11 DEF Proceed
<1>3. ASSUME NEW p \in Procs, Abort(p) PROVE TypeOK'
  BY <1>3, IdleType DEF Abort, Finish, TypeOK, tables, Exists, Requests
<1>4. ASSUME NEW u \in Users, Verify(u) PROVE TypeOK'
  BY <1>4 DEF Verify, TypeOK, tables, Exists
<1>5. ASSUME NEW m \in pending, MailEnds(m) PROVE TypeOK'
  BY <1>5 DEF MailEnds, TypeOK, tables, Exists
<1> QED
  BY <1>0, <1>1, <1>2, <1>3, <1>4, <1>5 DEF Next

-----------------------------------------------------------------------------
(* What only grows. *)

\* A commit writes one column of one row.
LEMMA OneColumn ==
    ASSUME TypeOK, NEW l \in ListingIds, Exists(l),
           \/ \E s \in Statuses \ {"none"} : listings' = [listings EXCEPT ![l].status = s]
           \/ \E b \in BOOLEAN : listings' = [listings EXCEPT ![l].is_seed = b]
    PROVE  /\ \A k \in ListingIds : Exists(k)' = Exists(k)
           /\ \A k \in ListingIds : listings'[k].owner = listings[k].owner
<1>1. CASE \E s \in Statuses \ {"none"} : listings' = [listings EXCEPT ![l].status = s]
  BY <1>1 DEF TypeOK, Exists, Rows
<1>2. ASSUME NEW b \in BOOLEAN, listings' = [listings EXCEPT ![l].is_seed = b]
      PROVE  \A k \in ListingIds : /\ listings'[k].owner = listings[k].owner
                                   /\ listings'[k].status = listings[k].status
  BY <1>2 DEF TypeOK, Rows
<1> QED
  BY <1>1, <1>2 DEF Exists

\* To arrive is to read.
LEMMA ArriveChangesNothing ==
    ASSUME NEW p \in Procs, Arrive(p)
    PROVE  UNCHANGED <<verified, tables, pending, completed>>
  BY DEF Arrive, CreateCheck, FeedbackRead, ContactRead, ReportRead, CompleteRead,
         ToggleRead, DeleteRead, Load

\* What is verified, written or reported stays so, and a listing keeps its owner.
LEMMA Monotone ==
    ASSUME IInv, [Next]_vars
    PROVE  /\ verified \subseteq verified'
           /\ messages \subseteq messages'
           /\ reports \subseteq reports'
           /\ feedback => feedback'
           /\ \A l \in ListingIds : Exists(l) => /\ Exists(l)'
                                                 /\ listings'[l].owner = listings[l].owner
           /\ \A l \in ListingIds : ~Exists(l) /\ ~Exists(l)' => listings'[l] = listings[l]
<1> DEFINE Grows == /\ verified \subseteq verified'
                    /\ messages \subseteq messages'
                    /\ reports \subseteq reports'
                    /\ feedback => feedback'
           Keeps == /\ \A l \in ListingIds :
                         Exists(l) => /\ Exists(l)'
                                      /\ listings'[l].owner = listings[l].owner
                    /\ \A l \in ListingIds :
                         ~Exists(l) /\ ~Exists(l)' => listings'[l] = listings[l]
<1>1. Grows
  <2>1. ASSUME NEW p \in Procs, Proceed(p) PROVE Grows
    BY <2>1 DEF Proceed, CreateCommit, LogCreated, ContactCommit, ContactLog, ReportCommit,
                FeedbackCommit, CompleteCommit, LogCompleted, ToggleCommit, DeleteCommit
  <2>2. CASE UNCHANGED <<verified, tables>>
    BY <2>2 DEF tables
  <2> QED
    BY <2>1, <2>2, ArriveChangesNothing DEF Next, vars, Abort, Verify, MailEnds, tables
<1>2. Keeps
  <2>1. CASE listings' = listings
    BY <2>1 DEF Exists
  <2>2. ASSUME NEW p \in Procs, NEW l \in ListingIds, CreateCommit(p, l) PROVE Keeps
    BY <2>2 DEF CreateCommit, NewRow, Exists, IInv, TypeOK
  <2>3. ASSUME NEW p \in Procs,
               CompleteCommit(p) \/ ToggleCommit(p) \/ DeleteCommit(p)
        PROVE  Keeps
    <3>1. Informed(req[p])
      BY DEF IInv
    <3>2. req[p].lid \in ListingIds /\ Exists(req[p].lid)
      BY <2>3, <3>1 DEF CompleteCommit, ToggleCommit, DeleteCommit, At, Informed, Sees
    <3>3. \/ listings' = [listings EXCEPT ![req[p].lid].status = "completed"]
          \/ listings' = [listings EXCEPT ![req[p].lid].status = "removed"]
          \/ listings' = [listings EXCEPT ![req[p].lid].is_seed = ~req[p].row.is_seed]
      BY <2>3 DEF CompleteCommit, ToggleCommit, DeleteCommit
    <3>4. \/ \E s \in Statuses \ {"none"} :
               listings' = [listings EXCEPT ![req[p].lid].status = s]
          \/ \E b \in BOOLEAN : listings' = [listings EXCEPT ![req[p].lid].is_seed = b]
      BY <3>3 DEF Statuses
    <3>5. \A k \in ListingIds : k # req[p].lid => listings'[k] = listings[k]
      BY <3>2, <3>3 DEF IInv, TypeOK
    <3> QED
      BY <3>2, <3>4, <3>5, OneColumn DEF IInv
  <2> QED
    BY <2>1, <2>2, <2>3
       DEF Next, vars, tables, Arrive, Proceed, CreateCheck, FeedbackRead, ContactRead,
           ReportRead, CompleteRead, ToggleRead, DeleteRead, Load, LogCreated,
           ContactCommit, ContactLog, ReportCommit, FeedbackCommit, LogCompleted,
           Abort, Verify, MailEnds
<1> QED
  BY <1>1, <1>2

\* The ways a listing's status changes.
LEMMA StatusSteps ==
    ASSUME IInv, [Next]_vars, NEW l \in ListingIds
    PROVE  \/ listings'[l].status = listings[l].status
           \/ /\ \E p \in Procs : CreateCommit(p, l)
              /\ ~Exists(l)
              /\ listings'[l].status = "active"
           \/ /\ \E p \in Procs : CompleteCommit(p) /\ req[p].lid = l
              /\ Exists(l)
              /\ listings'[l].status = "completed"
           \/ /\ \E p \in Procs : DeleteCommit(p) /\ req[p].lid = l
              /\ Exists(l)
              /\ listings'[l].status = "removed"
<1> USE DEF IInv, TypeOK
<1>1. CASE listings' = listings
  BY <1>1
<1>2. ASSUME NEW p \in Procs, NEW k \in ListingIds, CreateCommit(p, k)
      PROVE  IF k = l THEN ~Exists(l) /\ listings'[l].status = "active"
                      ELSE listings'[l] = listings[l]
  BY <1>2 DEF CreateCommit, NewRow
<1>3. ASSUME NEW p \in Procs, CompleteCommit(p)
      PROVE  IF req[p].lid = l THEN listings'[l].status = "completed"
                               ELSE listings'[l] = listings[l]
  BY <1>3 DEF CompleteCommit, Rows
<1>4. ASSUME NEW p \in Procs, DeleteCommit(p)
      PROVE  IF req[p].lid = l THEN listings'[l].status = "removed"
                               ELSE listings'[l] = listings[l]
  BY <1>4 DEF DeleteCommit, Rows
<1>5. ASSUME NEW p \in Procs, ToggleCommit(p)
      PROVE  listings'[l].status = listings[l].status
  <2>1. PICK b \in BOOLEAN : listings' = [listings EXCEPT ![req[p].lid].is_seed = b]
    BY <1>5 DEF ToggleCommit
  <2> QED BY <2>1 DEF Rows
<1>6. ASSUME NEW p \in Procs, CompleteCommit(p) \/ DeleteCommit(p) PROVE Exists(req[p].lid)
  BY <1>6 DEF CompleteCommit, DeleteCommit, At, Informed, Sees
<1> QED
  BY <1>1, <1>2, <1>3, <1>4, <1>5, <1>6, ArriveChangesNothing
     DEF Next, vars, tables, Proceed, LogCreated, ContactCommit, ContactLog, ReportCommit,
         FeedbackCommit, LogCompleted, Abort, Verify, MailEnds

\* At most one worker moves, and the step is its.
LEMMA OneWorker ==
    ASSUME IInv, [Next]_vars
    PROVE  \/ req' = req
           \/ \E p \in Procs : /\ Arrive(p) \/ Proceed(p) \/ Abort(p)
                               /\ req' = [req EXCEPT ![p] = req'[p]]
<1>1. ASSUME NEW p \in Procs, NEW r, req' = [req EXCEPT ![p] = r]
      PROVE  req' = [req EXCEPT ![p] = req'[p]]
  BY <1>1 DEF IInv, TypeOK
<1>2. ASSUME NEW p \in Procs, Arrive(p) PROVE \E r : req' = [req EXCEPT ![p] = r]
  BY <1>2 DEF Arrive, CreateCheck, FeedbackRead, ContactRead, ReportRead, CompleteRead,
              ToggleRead, DeleteRead, Load
<1>3. ASSUME NEW p \in Procs, Proceed(p) PROVE \E r : req' = [req EXCEPT ![p] = r]
  <2>1. ASSUME Finish(p) PROVE \E r : req' = [req EXCEPT ![p] = r]
    BY <2>1 DEF Finish
  <2>2. ASSUME NEW pc, Goto(p, pc) PROVE \E r : req' = [req EXCEPT ![p] = r]
    BY <2>2 DEF Goto
  <2>3. ASSUME NEW l \in ListingIds, CreateCommit(p, l)
        PROVE  \E r : req' = [req EXCEPT ![p] = r]
    BY <2>3 DEF CreateCommit
  <2> QED
    BY <1>3, <2>1, <2>2, <2>3
       DEF Proceed, LogCreated, ContactCommit, ContactLog, ReportCommit, FeedbackCommit,
           CompleteCommit, LogCompleted, ToggleCommit, DeleteCommit
<1>4. ASSUME NEW p \in Procs, Abort(p) PROVE \E r : req' = [req EXCEPT ![p] = r]
  BY <1>4 DEF Abort, Finish
<1> QED
  BY <1>1, <1>2, <1>3, <1>4 DEF Next, vars, Verify, MailEnds

-----------------------------------------------------------------------------
(* What a worker relies on stays true. *)

\* What a request knows of the tables stays true of them.
LEMMA InformedStays ==
    ASSUME IInv, [Next]_vars, NEW r \in Requests, Informed(r)
    PROVE  Informed(r)'
<1>1. Sees(r) => Sees(r)'
  BY Monotone DEF Sees
<1> QED
  BY <1>1, Monotone DEF Informed, MessageOf

\* Whatever a request is told by a step, the tables say.
LEMMA NextInformed ==
    ASSUME IInv, [Next]_vars, NEW q \in Procs PROVE Informed(req[q])'
<1> USE DEF IInv
<1>1. CASE req'[q] = req[q]
  <2>1. req[q] \in Requests /\ Informed(req[q])
    BY DEF TypeOK, Requests
  <2> QED BY <1>1, <2>1, InformedStays DEF Informed, Sees
<1>2. ASSUME Arrive(q) PROVE Informed(req[q])'
  <2>1. ASSUME NEW u \in Users, CreateCheck(q, u) PROVE Informed(req[q])'
    BY <2>1 DEF CreateCheck, MayReachOthers, Informed, Request, TypeOK
  <2>2. CASE FeedbackRead(q)
    BY <2>2 DEF FeedbackRead, Informed, Request, TypeOK
  <2>3. ASSUME NEW u \in Users, NEW l \in ListingIds, NEW pc \in Pcs, Load(q, pc, u, l)
        PROVE  /\ req'[q].pc = pc /\ req'[q].uid = u /\ req'[q].row = listings[l]
               /\ Sees(req[q])'
               /\ verified' = verified
    BY <2>3 DEF Load, Request, TypeOK, Sees, Exists, tables
  <2>4. ASSUME NEW u \in Users, NEW l \in ListingIds, ContactRead(q, u, l)
        PROVE  Informed(req[q])'
    BY <2>3, <2>4 DEF ContactRead, MayReachOthers, OwnedBy, Pcs, Informed
  <2>5. ASSUME NEW u \in Users, NEW l \in ListingIds, ReportRead(q, u, l)
        PROVE  Informed(req[q])'
    BY <2>3, <2>5 DEF ReportRead, Pcs, Informed
  <2>6. ASSUME NEW u \in Users, NEW l \in ListingIds, CompleteRead(q, u, l)
        PROVE  Informed(req[q])'
    BY <2>3, <2>6 DEF CompleteRead, OwnedBy, Completable, Pcs, Informed
  <2>7. ASSUME NEW u \in Users, NEW l \in ListingIds, ToggleRead(q, u, l)
        PROVE  Informed(req[q])'
    BY <2>3, <2>7 DEF ToggleRead, OwnedBy, Pcs, Informed
  <2>8. ASSUME NEW u \in Users, NEW l \in ListingIds, DeleteRead(q, u, l)
        PROVE  Informed(req[q])'
    BY <2>3, <2>8 DEF DeleteRead, OwnedBy, Pcs, Informed
  <2> QED BY <1>2, <2>1, <2>2, <2>4, <2>5, <2>6, <2>7, <2>8 DEF Arrive
<1>3. ASSUME Proceed(q) PROVE Informed(req[q])'
  <2>0. req[q] \in Requests /\ Informed(req[q]) /\ Informed(req[q])
    BY DEF TypeOK, Requests
  <2>1. ASSUME NEW l \in ListingIds, CreateCommit(q, l) PROVE Informed(req[q])'
    <3>1. req[q].uid \in Users /\ req[q].uid \in verified
      BY <2>0, <2>1 DEF CreateCommit, At, Informed
    <3>2. /\ req'[q] = [pc |-> "created", uid |-> req[q].uid, lid |-> l,
                        row |-> NewRow(req[q].uid)]
          /\ listings'[l] = NewRow(req[q].uid)
      BY <2>1 DEF CreateCommit, Request, TypeOK
    <3> QED BY <3>1, <3>2 DEF Informed, Sees, Exists, NewRow
  <2>2. CASE ContactCommit(q)
    <3>1. req'[q] = [req[q] EXCEPT !.pc = "contacted"]
      BY <2>2 DEF ContactCommit, Goto, TypeOK
    <3>2. /\ req'[q].pc = "contacted" /\ req'[q].uid = req[q].uid
          /\ req'[q].lid = req[q].lid /\ req'[q].row = req[q].row
      BY <2>0, <3>1 DEF Requests
    <3>3. Sees(req[q]) /\ req[q].uid \in Users /\ req[q].uid \in verified
          /\ req[q].uid # req[q].row.owner
      BY <2>0, <2>2 DEF ContactCommit, At, Informed
    <3>4. MessageOf(req[q]) \in messages'
      BY <2>2 DEF ContactCommit
    <3> QED
      BY <2>2, <3>2, <3>3, <3>4 DEF ContactCommit, Informed, Sees, Exists, MessageOf
  <2>3. CASE CompleteCommit(q)
    <3>1. req'[q] = [req[q] EXCEPT !.pc = "completed"]
      BY <2>3 DEF CompleteCommit, Goto, TypeOK
    <3>2. /\ req'[q].pc = "completed" /\ req'[q].uid = req[q].uid
          /\ req'[q].lid = req[q].lid /\ req'[q].row = req[q].row
      BY <2>0, <3>1 DEF Requests
    <3>3. Sees(req[q]) /\ req[q].uid \in Users /\ req[q].uid = req[q].row.owner
      BY <2>0, <2>3 DEF CompleteCommit, At, Informed
    <3>4. Sees(req[q])'
      BY <3>2, <3>3, Monotone DEF Sees
    <3> QED BY <3>2, <3>3, <3>4 DEF Informed
  <2>4. CASE Finish(q)
    BY <2>4 DEF Finish, Idle, Request, Informed, TypeOK
  <2> QED
    BY <1>3, <2>1, <2>2, <2>3, <2>4
       DEF Proceed, LogCreated, ContactLog, ReportCommit, FeedbackCommit, LogCompleted,
           ToggleCommit, DeleteCommit
<1>4. ASSUME Abort(q) PROVE Informed(req[q])'
  BY <1>4 DEF Abort, Finish, Idle, Request, Informed, TypeOK
<1> QED
  BY <1>1, <1>2, <1>3, <1>4, OneWorker DEF TypeOK

-----------------------------------------------------------------------------
(* Messages, mails and events. *)

\* No step makes a row of a listing that does not exist.
LEMMA NextRows == ASSUME IInv, [Next]_vars PROVE RowsOK'
<1>1. ASSUME NEW l \in ListingIds, ~Exists(l)' PROVE listings'[l] = NoRow
  BY <1>1, Monotone DEF IInv, RowsOK
<1> QED BY <1>1 DEF RowsOK

\* A report is filed by a request that has seen the listing, if only as it was.
LEMMA NextReports == ASSUME IInv, [Next]_vars PROVE ReportsOK'
<1>1. ASSUME NEW r \in reports', r \notin reports PROVE r.about \in ListingIds /\ Exists(r.about)
  <2>1. PICK p \in Procs : ReportCommit(p)
    BY <1>1, ArriveChangesNothing
       DEF Next, vars, tables, Proceed, CreateCommit, LogCreated, ContactCommit, ContactLog,
           FeedbackCommit, CompleteCommit, LogCompleted, ToggleCommit, DeleteCommit, Abort,
           Verify, MailEnds
  <2>2. r = ReportOf(req[p]) /\ Informed(req[p])
    BY <1>1, <2>1 DEF ReportCommit, IInv
  <2> QED BY <2>1, <2>2 DEF ReportCommit, At, Informed, Sees, ReportOf
<1>2. ASSUME NEW r \in reports PROVE r.about \in ListingIds /\ Exists(r.about)
  BY <1>2 DEF IInv, TypeOK, Reports, ReportsOK
<1>3. \A r \in reports' : r.about \in ListingIds /\ Exists(r.about)
  BY <1>1, <1>2
<1> QED BY <1>3, Monotone DEF ReportsOK

\* What a step adds to a table, the worker's request vouches for.
LEMMA NextReach ==
    ASSUME IInv, [Next]_vars PROVE OnlyVerifiedReachOthers' /\ MessagesReachTheOwner'
<1>0. TypeOK'
  BY NextType
<1>1. ASSUME NEW l \in ListingIds, Exists(l)' PROVE listings'[l].owner \in verified'
  <2>1. CASE Exists(l)
    BY <2>1, Monotone DEF IInv, OnlyVerifiedReachOthers
  <2>2. ASSUME ~Exists(l), NEW p \in Procs, CreateCommit(p, l)
        PROVE  listings'[l].owner \in verified'
    <3>1. Informed(req[p])
      BY DEF IInv
    <3>2. listings'[l] = NewRow(req[p].uid)
      BY <2>2 DEF IInv, TypeOK, CreateCommit
    <3>3. req[p].uid \in verified /\ verified' = verified
      BY <2>2, <3>1 DEF CreateCommit, At, Informed
    <3> QED BY <3>2, <3>3 DEF NewRow
  <2>3. CASE ~Exists(l) /\ ~\E p \in Procs : CreateCommit(p, l)
    BY <1>1, <2>3, StatusSteps DEF Exists
  <2> QED BY <2>1, <2>2, <2>3
<1>2. ASSUME NEW m \in messages', m \notin messages
      PROVE  /\ m.sender \in verified
             /\ m.about \in ListingIds /\ Exists(m.about)
             /\ m.recipient = listings[m.about].owner
             /\ m.recipient # m.sender
  <2>1. PICK p \in Procs : ContactCommit(p)
    BY <1>2, ArriveChangesNothing
       DEF Next, vars, tables, Proceed, CreateCommit, LogCreated, ContactLog, ReportCommit,
           FeedbackCommit, CompleteCommit, LogCompleted, ToggleCommit, DeleteCommit, Abort,
           Verify, MailEnds
  <2>2. m = MessageOf(req[p]) /\ Informed(req[p])
    BY <1>2, <2>1 DEF ContactCommit, IInv
  <2> QED BY <2>1, <2>2 DEF ContactCommit, At, Informed, Sees, MessageOf
<1>3. ASSUME NEW m \in messages
      PROVE  /\ m.sender \in verified
             /\ m.about \in ListingIds /\ Exists(m.about)
             /\ m.recipient = listings[m.about].owner
             /\ m.recipient # m.sender
  BY <1>3 DEF IInv, TypeOK, Messages, OnlyVerifiedReachOthers, MessagesReachTheOwner
<1>4. \A m \in messages' : /\ m.sender \in verified
                           /\ m.about \in ListingIds /\ Exists(m.about)
                           /\ m.recipient = listings[m.about].owner
                           /\ m.recipient # m.sender
  BY <1>2, <1>3
<1> QED
  BY <1>1, <1>4, Monotone DEF OnlyVerifiedReachOthers, MessagesReachTheOwner

\* No step sends a mail about something that is not in the tables.
LEMMA NextMail == ASSUME IInv, [Next]_vars PROVE MailFollowsCommit'
<1> DEFINE Told(m) ==
      /\ m.kind = "message" =>
           [about |-> m.about, sender |-> m.by, recipient |-> m.to] \in messages
      /\ m.kind = "report" =>
           m.to = NoUser /\ [about |-> m.about, reporter |-> m.by] \in reports
      /\ m.kind = "feedback" => m.to = NoUser /\ feedback
<1>1. ASSUME NEW m \in Mails
      PROVE  Told(m) <=>
        CASE m.kind = "message" ->
               [about |-> m.about, sender |-> m.by, recipient |-> m.to] \in messages
          [] m.kind = "report" ->
               m.to = NoUser /\ [about |-> m.about, reporter |-> m.by] \in reports
          [] m.kind = "feedback" -> m.to = NoUser /\ feedback
  BY DEF Mails
<1>2. ASSUME NEW m \in Mails
      PROVE  Told(m)' <=>
       (CASE m.kind = "message" ->
               [about |-> m.about, sender |-> m.by, recipient |-> m.to] \in messages
          [] m.kind = "report" ->
               m.to = NoUser /\ [about |-> m.about, reporter |-> m.by] \in reports
          [] m.kind = "feedback" -> m.to = NoUser /\ feedback)'
  BY DEF Mails
<1>3. pending \subseteq Mails /\ pending' \subseteq Mails
  BY NextType DEF IInv, TypeOK
<1>4. \A m \in pending : Told(m)
  BY <1>1, <1>3 DEF IInv, MailFollowsCommit
<1>5. ASSUME NEW m \in pending PROVE Told(m)'
  BY <1>4, Monotone
<1>6. ASSUME NEW p \in Procs, Proceed(p), NEW m \in pending', m \notin pending
      PROVE  Told(m)'
  <2>0. Informed(req[p])
    BY DEF IInv
  <2>1. CASE ContactLog(p)
    BY <1>6, <2>0, <2>1 DEF ContactLog, At, Informed, MessageMail, MessageOf
  <2>2. CASE ReportCommit(p)
    BY <1>6, <2>2 DEF ReportCommit, ReportMail, ReportOf
  <2>3. CASE FeedbackCommit(p)
    BY <1>6, <2>3 DEF FeedbackCommit, FeedbackMail
  <2> QED
    BY <1>6, <2>1, <2>2, <2>3
       DEF Proceed, CreateCommit, LogCreated, ContactCommit, CompleteCommit, LogCompleted,
           ToggleCommit, DeleteCommit
<1>7. \A m \in pending' : Told(m)'
  <2>1. CASE pending' \subseteq pending
    BY <1>5, <2>1
  <2> QED
    BY <1>5, <1>6, <2>1, ArriveChangesNothing DEF Next, vars, Abort, Verify, MailEnds
<1> QED
  BY <1>2, <1>3, <1>7 DEF MailFollowsCommit

\* No step logs an event about something that is not in the tables.
LEMMA NextEvents == ASSUME IInv, [Next]_vars PROVE EventsTrue'
<1> DEFINE True(e) ==
      /\ e.type = "listing_created" => listings[e.listing].owner = e.user
      /\ e.type = "contact_sent" =>
           \E m \in messages : m.about = e.listing /\ m.sender = e.user
<1>1. ASSUME NEW e \in events PROVE True(e)'
  <2>1. True(e) /\ e \in Events
    BY DEF IInv, EventsTrue, TypeOK
  <2>2. e.type = "listing_created" => Exists(e.listing)
    BY <2>1, ListingsAssumption DEF IInv, RowsOK, NoRow, Events
  <2> QED BY <2>1, <2>2, Monotone DEF Events
<1>2. ASSUME NEW p \in Procs, Proceed(p), NEW e \in events', e \notin events
      PROVE  True(e)'
  <2>0. Informed(req[p])
    BY DEF IInv
  <2>1. CASE LogCreated(p)
    BY <1>2, <2>0, <2>1 DEF LogCreated, At, Informed, Sees
  <2>2. CASE ContactLog(p)
    BY <1>2, <2>0, <2>2 DEF ContactLog, At, Informed, MessageOf
  <2> QED
    BY <1>2, <2>1, <2>2
       DEF Proceed, CreateCommit, ContactCommit, ReportCommit, FeedbackCommit,
           CompleteCommit, LogCompleted, ToggleCommit, DeleteCommit
<1>3. CASE events' = events
  BY <1>1, <1>3 DEF EventsTrue
<1> QED
  BY <1>1, <1>2, <1>3, ArriveChangesNothing
     DEF EventsTrue, Next, vars, tables, Abort, Verify, MailEnds

-----------------------------------------------------------------------------
(* Completions, counted. *)

\* What the step of a worker does to the two sets of workers.
LEMMA Moves ==
    ASSUME TypeOK, NEW p \in Procs, req' = [req EXCEPT ![p] = req'[p]], NEW l
    PROVE  /\ Completing(l)' = IF req'[p].pc = "complete" /\ req'[p].lid = l
                                 THEN Completing(l) \cup {p} ELSE Completing(l) \ {p}
           /\ Logging(l)' = IF req'[p].pc = "completed" /\ req'[p].lid = l
                                 THEN Logging(l) \cup {p} ELSE Logging(l) \ {p}
  BY DEF TypeOK, Completing, Logging

\* The workers are finitely many, and those at one step of a listing are counted.
LEMMA Finite ==
    ASSUME NEW l
    PROVE  /\ Completing(l) \subseteq Procs /\ IsFiniteSet(Completing(l))
           /\ Logging(l) \subseteq Procs /\ IsFiniteSet(Logging(l))
           /\ Cardinality(Completing(l)) \in Nat /\ Cardinality(Logging(l)) \in Nat
           /\ Cardinality(Procs) \in Nat
<1>1. Completing(l) \subseteq Procs /\ Logging(l) \subseteq Procs
  BY DEF Completing, Logging
<1>2. IsFiniteSet(Completing(l)) /\ IsFiniteSet(Logging(l))
  BY <1>1, FS_Subset, ListingsAssumption
<1> QED
  BY <1>1, <1>2, FS_CardinalityType, ListingsAssumption

\* The same of the next state.
LEMMA FinitePrimed ==
    ASSUME NEW l
    PROVE  /\ Completing(l)' \subseteq Procs /\ IsFiniteSet(Completing(l)')
           /\ Logging(l)' \subseteq Procs /\ IsFiniteSet(Logging(l)')
           /\ Cardinality(Completing(l)') \in Nat /\ Cardinality(Logging(l)') \in Nat
<1>1. Completing(l)' \subseteq Procs /\ Logging(l)' \subseteq Procs
  BY DEF Completing, Logging
<1>2. IsFiniteSet(Completing(l)') /\ IsFiniteSet(Logging(l)')
  BY <1>1, FS_Subset, ListingsAssumption
<1> QED
  BY <1>1, <1>2, FS_CardinalityType

\* A step after which no more workers are completing or logging the listing.
LEMMA CountedCalm ==
    ASSUME IInv, [Next]_vars, NEW l \in ListingIds,
           Completing(l)' \subseteq Completing(l), Logging(l)' \subseteq Logging(l),
           completed'[l] = completed[l], completions'[l] = completions[l]
    PROVE  Counted(l)'
<1>1. Counted(l) /\ completed[l] \in Nat /\ completions[l] \in Nat
  BY DEF IInv, TypeOK
<1>2. /\ Cardinality(Completing(l)') <= Cardinality(Completing(l))
      /\ Cardinality(Logging(l)') <= Cardinality(Logging(l))
  BY Finite, FS_Subset
<1>3. listings'[l].status \in {"none", "active"} => listings[l].status \in {"none", "active"}
  BY StatusSteps DEF Exists
<1> QED
  BY <1>1, <1>2, <1>3, Finite, FinitePrimed DEF Counted

\* Every step keeps the count of completions and their events.
LEMMA NextCounted ==
    ASSUME IInv, [Next]_vars, NEW l \in ListingIds PROVE Counted(l)'
<1>0. Counted(l) /\ completed[l] \in Nat /\ completions[l] \in Nat
  BY DEF IInv, TypeOK
<1>1. ASSUME req' = req, UNCHANGED <<completed, completions>> PROVE Counted(l)'
  BY <1>1, CountedCalm DEF Completing, Logging
<1>2. ASSUME NEW p \in Procs, req' = [req EXCEPT ![p] = req'[p]],
             ~(req'[p].pc \in {"complete", "completed"} /\ req'[p].lid = l),
             completed'[l] = completed[l], completions'[l] = completions[l]
      PROVE  Counted(l)'
  BY <1>2, Moves, CountedCalm DEF IInv
<1>3. ASSUME NEW p \in Procs, NEW u \in Users, NEW k \in ListingIds, CompleteRead(p, u, k),
             req' = [req EXCEPT ![p] = req'[p]]
      PROVE  Counted(l)'
  <2>1. /\ req'[p].pc = "complete" /\ req'[p].lid = k
        /\ listings[k].status = "active"
        /\ UNCHANGED <<listings, completed, completions>>
    BY <1>3 DEF CompleteRead, Completable, Load, Request, tables, IInv, TypeOK
  <2>2. CASE k # l
    BY <1>2, <1>3, <2>1, <2>2
  <2>3. CASE k = l
    <3>1. Logging(l)' \subseteq Logging(l)
      BY <1>3, <2>1, Moves DEF IInv
    <3>2. Cardinality(Logging(l)') <= Cardinality(Logging(l))
      BY <3>1, Finite, FS_Subset
    <3>3. Cardinality(Completing(l)') <= Cardinality(Procs)
      BY FinitePrimed, FS_Subset, ListingsAssumption
    <3>4. completed[l] = 0
      BY <1>0, <2>1, <2>3 DEF Counted
    <3> QED
      BY <1>0, <2>1, <3>2, <3>3, <3>4, Finite, FinitePrimed DEF Counted
  <2> QED BY <2>2, <2>3
<1>4. ASSUME NEW p \in Procs, CompleteCommit(p), req' = [req EXCEPT ![p] = req'[p]]
      PROVE  Counted(l)'
  <2>0. Informed(req[p]) /\ TypeOK
    BY DEF IInv
  <2>1. /\ req[p].pc = "complete" /\ req[p].lid \in ListingIds
        /\ req'[p].pc = "completed" /\ req'[p].lid = req[p].lid
        /\ completions' = completions
    BY <1>4, <2>0 DEF CompleteCommit, At, Goto, TypeOK, Informed, Sees
  <2>2. CASE req[p].lid # l
    <3>1. completed'[l] = completed[l]
      BY <1>4, <2>2, <2>0 DEF CompleteCommit, TypeOK
    <3> QED BY <1>2, <1>4, <2>1, <2>2, <3>1
  <2>3. CASE req[p].lid = l
    <3>1. completed'[l] = completed[l] + 1
      BY <1>4, <2>0, <2>1, <2>3 DEF CompleteCommit, TypeOK
    <3>2. listings'[l].status = "completed"
      BY <1>4, <2>0, <2>1, <2>3 DEF CompleteCommit, TypeOK, Rows
    <3>3. /\ Completing(l)' = Completing(l) \ {p} /\ p \in Completing(l)
          /\ Logging(l)' = Logging(l) \cup {p} /\ p \notin Logging(l)
      <4>1. Completing(l)' = Completing(l) \ {p} /\ Logging(l)' = Logging(l) \cup {p}
        BY <1>4, <2>0, <2>1, <2>3, Moves
      <4> QED BY <2>1, <2>3, <4>1 DEF Completing, Logging
    <3>4. Cardinality(Completing(l)') = Cardinality(Completing(l)) - 1
      BY <3>3, Finite, FS_RemoveElement
    <3>5. Cardinality(Logging(l)') = Cardinality(Logging(l)) + 1
      BY <3>3, Finite, FS_AddElement
    <3> QED
      BY <1>0, <2>1, <3>1, <3>2, <3>4, <3>5, Finite, FinitePrimed DEF Counted
  <2> QED BY <2>2, <2>3
<1>5. ASSUME NEW p \in Procs, LogCompleted(p), req' = [req EXCEPT ![p] = req'[p]]
      PROVE  Counted(l)'
  <2>0. Informed(req[p]) /\ TypeOK
    BY DEF IInv
  <2>1. /\ req[p].pc = "completed" /\ req[p].lid \in ListingIds
        /\ req'[p].pc = "idle"
        /\ UNCHANGED <<listings, completed>>
    BY <1>5, <2>0 DEF LogCompleted, At, Finish, Idle, Request, TypeOK, Informed, Sees
  <2>2. CASE req[p].lid # l
    <3>1. completions'[l] = completions[l]
      BY <1>5, <2>2, <2>0 DEF LogCompleted, TypeOK
    <3> QED BY <1>2, <1>5, <2>1, <2>2, <3>1
  <2>3. CASE req[p].lid = l
    <3>1. completions'[l] = completions[l] + 1
      BY <1>5, <2>0, <2>1, <2>3 DEF LogCompleted, TypeOK
    <3>2. Completing(l)' \subseteq Completing(l) /\ Logging(l)' = Logging(l) \ {p}
      BY <1>5, <2>0, <2>1, <2>3, Moves
    <3>3. p \in Logging(l)
      BY <2>1, <2>3 DEF Logging
    <3>4. Cardinality(Completing(l)') <= Cardinality(Completing(l))
      BY <3>2, Finite, FS_Subset
    <3>5. Cardinality(Logging(l)') = Cardinality(Logging(l)) - 1
      BY <3>2, <3>3, Finite, FS_RemoveElement
    <3> QED
      BY <1>0, <2>1, <3>1, <3>4, <3>5, Finite, FinitePrimed DEF Counted
  <2> QED BY <2>2, <2>3
<1>6. ASSUME NEW p \in Procs, req' = [req EXCEPT ![p] = req'[p]],
             Arrive(p) \/ Proceed(p) \/ Abort(p),
             ~\E u \in Users, k \in ListingIds : CompleteRead(p, u, k),
             ~CompleteCommit(p), ~LogCompleted(p)
      PROVE  Counted(l)'
  <2>1. UNCHANGED <<completed, completions>>
    BY <1>6, ArriveChangesNothing
       DEF Proceed, CreateCommit, LogCreated, ContactCommit, ContactLog, ReportCommit,
           FeedbackCommit, ToggleCommit, DeleteCommit, Abort, tables
  <2>2. req'[p].pc \notin {"complete", "completed"}
    BY <1>6
       DEF IInv, TypeOK, Arrive, CreateCheck, FeedbackRead, ContactRead, ReportRead,
           ToggleRead, DeleteRead, Load, Proceed, CreateCommit, LogCreated, ContactCommit,
           ContactLog, ReportCommit, FeedbackCommit, ToggleCommit, DeleteCommit, Abort,
           Goto, Finish, Request, Idle
  <2> QED BY <1>2, <1>6, <2>1, <2>2
<1>7. CASE req' = req /\ UNCHANGED <<completed, completions>>
  BY <1>1, <1>7
<1>8. CASE req' = req /\ ~UNCHANGED <<completed, completions>>
  <2>1. ASSUME NEW p \in Procs, CompleteCommit(p) \/ LogCompleted(p)
        PROVE  req' = [req EXCEPT ![p] = req'[p]]
    BY <1>8 DEF IInv, TypeOK
  <2>2. \E p \in Procs : CompleteCommit(p) \/ LogCompleted(p)
    BY <1>8, ArriveChangesNothing
       DEF Next, vars, tables, Proceed, CreateCommit, LogCreated, ContactCommit, ContactLog,
           ReportCommit, FeedbackCommit, ToggleCommit, DeleteCommit, Abort, Verify, MailEnds
  <2> QED BY <1>4, <1>5, <2>1, <2>2
<1> QED
  BY <1>3, <1>4, <1>5, <1>6, <1>7, <1>8, OneWorker

-----------------------------------------------------------------------------
(* The invariant, and what follows from it. *)

\* Empty tables and idle workers.
LEMMA Start == Init => IInv
<1> SUFFICES ASSUME Init PROVE IInv
  OBVIOUS
<1>1. TypeOK
  BY IdleType DEF Init, TypeOK, Requests, NoRow, Rows, Statuses, Exists
<1>2. RowsOK /\ ReportsOK /\ \A p \in Procs : Informed(req[p])
  BY DEF Init, RowsOK, ReportsOK, NoRow, Informed, Idle, Request
<1>3. /\ OnlyVerifiedReachOthers /\ MessagesReachTheOwner
      /\ MailFollowsCommit /\ EventsTrue
  BY DEF Init, OnlyVerifiedReachOthers, MessagesReachTheOwner, MailFollowsCommit,
         EventsTrue, Exists, NoRow
<1>4. ASSUME NEW l \in ListingIds PROVE Counted(l)
  <2>1. Completing(l) = {} /\ Logging(l) = {}
    BY DEF Init, Completing, Logging, Idle, Request
  <2>2. Cardinality(Completing(l)) = 0 /\ Cardinality(Logging(l)) = 0
    BY <2>1, FS_EmptySet
  <2> QED BY <2>2, Finite DEF Init, Counted
<1> QED BY <1>1, <1>2, <1>3, <1>4 DEF IInv

\* The invariant is inductive.
LEMMA Step == IInv /\ [Next]_vars => IInv'
<1> SUFFICES ASSUME IInv, [Next]_vars PROVE IInv'
  OBVIOUS
<1>1. \A p \in Procs : Informed(req[p])'
  BY NextInformed
<1>2. \A l \in ListingIds : Counted(l)'
  BY NextCounted
<1> QED
  BY <1>1, <1>2, NextType, NextRows, NextReports, NextReach, NextMail, NextEvents DEF IInv

\* The invariant holds of every behaviour.
LEMMA Invariant == Spec => []IInv
  BY Start, Step, PTL DEF Spec

\* Every variable has its type, in every reachable state.
THEOREM TypeCorrect == Spec => []TypeOK
<1>1. IInv => TypeOK
  BY DEF IInv
<1> QED BY <1>1, Invariant, PTL

\* No listing and no message comes from an account whose address is unproven.
THEOREM UnverifiedStaySilent == Spec => []OnlyVerifiedReachOthers
<1>1. IInv => OnlyVerifiedReachOthers
  BY DEF IInv
<1> QED BY <1>1, Invariant, PTL

\* Messages go to the owner of the listing they are about, and to nobody else.
THEOREM OwnersAreReached == Spec => []MessagesReachTheOwner
<1>1. IInv => MessagesReachTheOwner
  BY DEF IInv
<1> QED BY <1>1, Invariant, PTL

\* A mail announces what is committed, to the person concerned.
THEOREM MailIsTrue == Spec => []MailFollowsCommit
<1>1. IInv => MailFollowsCommit
  BY DEF IInv
<1> QED BY <1>1, Invariant, PTL

\* The events of event_log record what was committed before them.
THEOREM EventsAreTrue == Spec => []EventsFollowCommit
<1>1. ASSUME IInv, NEW l \in ListingIds PROVE completions[l] <= completed[l]
  <2>1. Counted(l) /\ completed[l] \in Nat /\ completions[l] \in Nat
    BY <1>1 DEF IInv, TypeOK
  <2> QED BY <2>1, Finite DEF Counted
<1>2. IInv => EventsFollowCommit
  BY <1>1 DEF IInv, EventsTrue, EventsFollowCommit
<1> QED BY <1>2, Invariant, PTL

\* Overlapping completions of a listing are at most as many as the workers.
THEOREM CompletionsAreBounded == Spec => []CompletedOncePerWorker
<1>1. ASSUME IInv, NEW l \in ListingIds PROVE completed[l] <= Cardinality(Procs)
  <2>1. Counted(l) /\ completed[l] \in Nat
    BY <1>1 DEF IInv, TypeOK
  <2> QED BY <2>1, Finite DEF Counted
<1>2. IInv => CompletedOncePerWorker
  BY <1>1 DEF CompletedOncePerWorker
<1> QED BY <1>2, Invariant, PTL

\* A listing never becomes active again and never changes hands.
THEOREM ListingsStayClosed == Spec => NeverRelisted
<1>1. ASSUME IInv, [Next]_vars, NEW l \in ListingIds, Exists(l)
      PROVE  /\ listings'[l].owner = listings[l].owner
             /\ listings'[l].status # "none"
             /\ listings'[l].status = "active" => listings[l].status = "active"
  BY <1>1, Monotone, StatusSteps DEF Exists
<1>2. IInv /\ [Next]_vars =>
        [\A l \in ListingIds :
           Exists(l) => /\ listings'[l].owner = listings[l].owner
                        /\ listings'[l].status # "none"
                        /\ listings'[l].status = "active" => listings[l].status = "active"]_vars
  BY <1>1
<1> QED BY <1>2, Invariant, PTL DEF Spec, NeverRelisted

\* Only a completion begun before the removal revives a removed listing.
THEOREM RevivalIsAnOverlap == Spec => RevivedOnlyByOverlap
<1>1. ASSUME IInv, [Next]_vars, NEW l \in ListingIds,
             listings[l].status = "removed", listings'[l].status # "removed"
      PROVE  \E p \in Procs : CompleteCommit(p) /\ req[p].lid = l /\ req[p].row.status = "active"
  <2>1. PICK p \in Procs : CompleteCommit(p) /\ req[p].lid = l
    BY <1>1, StatusSteps DEF Exists
  <2>2. req[p].row.status = "active"
    BY <1>1, <2>1 DEF IInv, Informed, CompleteCommit, At
  <2> QED BY <2>1, <2>2
<1>2. IInv /\ [Next]_vars =>
        [\A l \in ListingIds :
           listings[l].status = "removed" /\ listings'[l].status # "removed"
              => \E p \in Procs : /\ CompleteCommit(p)
                                  /\ req[p].lid = l
                                  /\ req[p].row.status = "active"]_vars
  BY <1>1
<1> QED BY <1>2, Invariant, PTL DEF Spec, RevivedOnlyByOverlap

\* Only the owner's toggle changes the demo flag.
THEOREM FlagsAreToggled == Spec => FlagOnlyByToggle
<1>1. ASSUME IInv, [Next]_vars, NEW l \in ListingIds,
             listings[l].is_seed # listings'[l].is_seed
      PROVE  \E p \in Procs : ToggleCommit(p) /\ req[p].lid = l /\ req[p].uid = listings[l].owner
  <2>0. /\ TypeOK /\ listings \in [ListingIds -> Rows]
        /\ RowsOK /\ \A p \in Procs : Informed(req[p])
        /\ listings'[l] # listings[l]
    BY <1>1 DEF IInv, TypeOK
  <2>1. ASSUME NEW p \in Procs, ToggleCommit(p)
        PROVE  req[p].lid = l /\ req[p].uid = listings[l].owner
    <3>1. PICK b \in BOOLEAN : listings' = [listings EXCEPT ![req[p].lid].is_seed = b]
      BY <2>1 DEF ToggleCommit
    <3>2. req[p].lid = l
      BY <2>0, <3>1
    <3> QED BY <2>0, <2>1, <3>2 DEF ToggleCommit, At, Informed, Sees
  <2>2. ASSUME NEW p \in Procs, NEW k \in ListingIds, CreateCommit(p, k) PROVE FALSE
    <3>1. listings' = [listings EXCEPT ![k] = NewRow(req[p].uid)] /\ ~Exists(k)
      BY <2>2 DEF CreateCommit
    <3>2. k = l
      BY <2>0, <3>1
    <3>3. listings[l] = NoRow /\ listings'[l] = NewRow(req[p].uid)
      BY <2>0, <3>1, <3>2 DEF RowsOK
    <3>4. listings[l].is_seed = FALSE /\ listings'[l].is_seed = FALSE
      BY <3>3 DEF NoRow, NewRow
    <3> QED BY <1>1, <3>4
  <2>3. ASSUME NEW p \in Procs, CompleteCommit(p) \/ DeleteCommit(p) PROVE FALSE
    <3>1. \E s : listings' = [listings EXCEPT ![req[p].lid].status = s]
      BY <2>3 DEF CompleteCommit, DeleteCommit
    <3>2. listings'[l].is_seed = listings[l].is_seed
      BY <2>0, <3>1 DEF Rows
    <3> QED BY <1>1, <3>2
  <2> QED
    BY <2>0, <2>1, <2>2, <2>3, <1>1, ArriveChangesNothing
       DEF Next, vars, tables, Proceed, LogCreated, ContactCommit, ContactLog, ReportCommit,
           FeedbackCommit, LogCompleted, Abort, Verify, MailEnds
<1>2. IInv /\ [Next]_vars =>
        [\A l \in ListingIds :
           listings[l].is_seed # listings'[l].is_seed
              => \E p \in Procs : /\ ToggleCommit(p)
                                  /\ req[p].lid = l
                                  /\ req[p].uid = listings[l].owner]_vars
  BY <1>1
<1> QED BY <1>2, Invariant, PTL DEF Spec, FlagOnlyByToggle

-----------------------------------------------------------------------------
(* Links and records. *)

\* Events are never taken back either, nor counted down.
LEMMA EventsGrow ==
    ASSUME TypeOK, [Next]_vars
    PROVE  /\ events \subseteq events'
           /\ \A l \in ListingIds : completions[l] <= completions'[l]
<1> DEFINE Grow == /\ events \subseteq events'
                   /\ \A l \in ListingIds : completions[l] <= completions'[l]
<1>1. \A l \in ListingIds : completions[l] \in Nat
  BY DEF TypeOK
<1>2. CASE UNCHANGED <<events, completions>>
  BY <1>1, <1>2
<1>3. ASSUME NEW p \in Procs, LogCreated(p) \/ ContactLog(p) PROVE Grow
  BY <1>1, <1>3 DEF LogCreated, ContactLog
<1>4. ASSUME NEW p \in Procs, LogCompleted(p) PROVE Grow
  BY <1>1, <1>4 DEF LogCompleted, TypeOK
<1> QED
  BY <1>2, <1>3, <1>4, ArriveChangesNothing
     DEF Next, vars, tables, Proceed, CreateCommit, ContactCommit, ReportCommit,
         FeedbackCommit, CompleteCommit, ToggleCommit, DeleteCommit, Abort, Verify, MailEnds

\* A link of an inbox is to a listing whose row is there, of the person whose inbox
\* it is, and it opens.
LEMMA InboxLinks ==
    ASSUME TypeOK, RowsOK, MessagesReachTheOwner, NEW u \in Users, NEW l \in inbox(u)
    PROVE  l \in ListingIds /\ Exists(l) /\ listings[l].owner = u /\ Opens(l, u)
<1>1. CASE \E m \in messages : m.recipient = u /\ m.about = l
  BY <1>1 DEF TypeOK, Messages, MessagesReachTheOwner, Opens
<1>2. CASE l \in ListingIds /\ listings[l].owner = u
  BY <1>2, ListingsAssumption DEF RowsOK, NoRow, Opens
<1> QED BY <1>1, <1>2 DEF inbox

\* Whatever becomes of a listing, the reports, events and messages about it stay,
\* with the row that says whose it was, and the inbox's link to it opens.
THEOREM NothingRecordedIsLost == Spec => RecordsOutliveListings
<1> DEFINE Stay ==
      /\ \A r \in reports :
           /\ r \in reports'
           /\ Exists(r.about)'
           /\ listings'[r.about].owner = listings[r.about].owner
      /\ events \subseteq events'
      /\ \A l \in ListingIds : completions[l] <= completions'[l]
      /\ \A u \in Users : \A l \in inbox(u) : l \in inbox(u)' /\ Opens(l, u)'
<1>1. ASSUME IInv, IInv', [Next]_vars PROVE Stay
  <2>1. ASSUME NEW r \in reports
        PROVE  /\ r \in reports'
               /\ Exists(r.about)'
               /\ listings'[r.about].owner = listings[r.about].owner
    <3>1. r.about \in ListingIds /\ Exists(r.about)
      BY <1>1 DEF IInv, TypeOK, Reports, ReportsOK
    <3> QED BY <1>1, <3>1, Monotone
  <2>2. ASSUME NEW u \in Users, NEW l \in inbox(u)
        PROVE  l \in inbox(u)' /\ Opens(l, u)'
    <3>1. l \in ListingIds /\ Exists(l) /\ listings[l].owner = u
      BY <1>1, InboxLinks DEF IInv
    <3>2. Exists(l)' /\ listings'[l].owner = u
      BY <1>1, <3>1, Monotone
    <3> QED BY <3>1, <3>2 DEF inbox, Opens
  <2> QED BY <1>1, <2>1, <2>2, EventsGrow DEF IInv
<1>2. IInv /\ IInv' /\ [Next]_vars => [Stay]_vars
  BY <1>1
<1> QED BY <1>2, Invariant, PTL DEF Spec, RecordsOutliveListings

\* A page that opened opens again, unless its owner has taken the listing down.
THEOREM LinksStayAlive == Spec => LinksLast
<1>1. ASSUME IInv, [Next]_vars, NEW l \in ListingIds, NEW v \in Viewers,
             Opens(l, v), ~Opens(l, v)'
      PROVE  \E p \in Procs : /\ DeleteCommit(p)
                              /\ req[p].lid = l
                              /\ req[p].uid = listings[l].owner
                              /\ v # listings[l].owner
  <2>1. /\ Exists(l) /\ Exists(l)'
        /\ listings'[l].owner = listings[l].owner
        /\ listings'[l].status = "removed"
        /\ listings[l].status # "removed"
        /\ v # listings[l].owner
    BY <1>1, Monotone DEF Opens
  <2>2. PICK p \in Procs : DeleteCommit(p) /\ req[p].lid = l
    BY <1>1, <2>1, StatusSteps
  <2>3. req[p].uid = listings[l].owner
    BY <1>1, <2>2 DEF IInv, Informed, Sees, DeleteCommit, At
  <2> QED BY <2>1, <2>2, <2>3
<1>2. IInv /\ [Next]_vars =>
        [\A l \in ListingIds, v \in Viewers :
           Opens(l, v) /\ ~Opens(l, v)'
              => \E p \in Procs : /\ DeleteCommit(p)
                                  /\ req[p].lid = l
                                  /\ req[p].uid = listings[l].owner
                                  /\ v # listings[l].owner]_vars
  BY <1>1
<1> QED BY <1>2, Invariant, PTL DEF Spec, LinksLast

-----------------------------------------------------------------------------
(* Listings implements Board. *)

\* A step of one worker makes a listing contested or not only by coming to the
\* completion of it, or by leaving it.
LEMMA ContestedBy ==
    ASSUME NEW p \in Procs, \A q \in Procs : q # p => req'[q] = req[q], NEW l
    PROVE  /\ (l \in Contested) => (l \in Contested' \/ (req[p].pc = "complete" /\ req[p].lid = l))
           /\ (l \in Contested') => \/ l \in Contested
                                    \/ req'[p].pc = "complete" /\ req'[p].lid = l
           /\ req'[p].pc = "complete" /\ req'[p].lid = l /\ l \in ListingIds => l \in Contested'
<1>1. l \in Contested <=>
        l \in ListingIds /\ \E q \in Procs : req[q].pc = "complete" /\ req[q].lid = l
  BY DEF Contested, At
<1>2. l \in Contested' <=>
        l \in ListingIds /\ \E q \in Procs : req'[q].pc = "complete" /\ req'[q].lid = l
  BY DEF Contested, At
<1>3. (l \in Contested) => (l \in Contested' \/ (req[p].pc = "complete" /\ req[p].lid = l))
  BY <1>1, <1>2
<1>4. (l \in Contested') => \/ l \in Contested
                            \/ req'[p].pc = "complete" /\ req'[p].lid = l
  BY <1>1, <1>2
<1>5. req'[p].pc = "complete" /\ req'[p].lid = l /\ l \in ListingIds => l \in Contested'
  BY <1>2
<1> QED
  BY <1>3, <1>4, <1>5

\* A step from and to elsewhere leaves the contested listings as they are.
LEMMA ContestedSame ==
    ASSUME TypeOK, NEW p \in Procs, req' = [req EXCEPT ![p] = req'[p]],
           req[p].pc # "complete", req'[p].pc # "complete"
    PROVE  Contested' = Contested
<1>0. \A q \in Procs : q # p => req'[q] = req[q]
  BY DEF TypeOK
<1>1. \A l : l \in Contested' <=> l \in Contested
  BY <1>0, ContestedBy
<1> QED BY <1>1

\* A request that comes to the completion of a listing contests it.
LEMMA ContestedGrows ==
    ASSUME TypeOK, NEW p \in Procs, req' = [req EXCEPT ![p] = req'[p]], NEW k \in ListingIds,
           req[p].pc # "complete", req'[p].pc = "complete", req'[p].lid = k
    PROVE  Contested' = Contested \cup {k}
<1>0. \A q \in Procs : q # p => req'[q] = req[q]
  BY DEF TypeOK
<1>1. \A l : l \in Contested' <=> l \in Contested \/ l = k
  BY <1>0, ContestedBy
<1> QED BY <1>1

\* One that leaves the completion takes at most its own listing away.
LEMMA ContestedShrinks ==
    ASSUME TypeOK, NEW p \in Procs, req' = [req EXCEPT ![p] = req'[p]], NEW k \in ListingIds,
           req[p].pc = "complete", req[p].lid = k, req'[p].pc # "complete"
    PROVE  Contested' = Contested \/ Contested' = Contested \ {k}
<1>0. \A q \in Procs : q # p => req'[q] = req[q]
  BY DEF TypeOK
<1>1. \A l : (l \in Contested' => l \in Contested) /\ (l \in Contested /\ l # k => l \in Contested')
  BY <1>0, ContestedBy
<1> QED BY <1>1

\* The initial states of Listings are those of the board.
LEMMA BoardInit == Init => TheBoard!Init
<1> SUFFICES ASSUME Init PROVE TheBoard!Init
  OBVIOUS
<1>1. Contested = {}
  BY DEF Init, Contested, At, Idle, Request
<1> QED
  BY <1>1 DEF Init, TheBoard!Init, NoRow

\* Every step of Listings is a step of the board, or none.
LEMMA BoardStep == IInv /\ [Next]_vars => [TheBoard!Next]_(TheBoard!vars)
<1> SUFFICES ASSUME IInv, [Next]_vars PROVE [TheBoard!Next]_(TheBoard!vars)
  OBVIOUS
<1> DEFINE status == [l \in ListingIds |-> listings[l].status]
           owner == [l \in ListingIds |-> listings[l].owner]
<1>0. TypeOK /\ \A p \in Procs : Informed(req[p])
  BY DEF IInv
<1>1. CASE UNCHANGED <<verified, listings, messages, Contested>>
  BY <1>1 DEF TheBoard!vars
<1>2. ASSUME NEW u \in Users, Verify(u) PROVE TheBoard!Next
  BY <1>2 DEF Verify, tables, Contested, At, TheBoard!Next, TheBoard!Join
<1>3. ASSUME NEW p \in Procs, NEW l \in ListingIds, CreateCommit(p, l),
             req' = [req EXCEPT ![p] = req'[p]]
      PROVE  TheBoard!Next
  <2>1. Contested' = Contested
    BY <1>0, <1>3, ContestedSame DEF CreateCommit, At, Request, TypeOK
  <2>2. req[p].uid \in Users /\ req[p].uid \in verified
    BY <1>0, <1>3 DEF CreateCommit, At, Informed
  <2>3. TheBoard!Post(req[p].uid, l)
    BY <1>0, <1>3, <2>1, <2>2 DEF CreateCommit, TheBoard!Post, Exists, NewRow, TypeOK
  <2> QED BY <2>2, <2>3 DEF TheBoard!Next
<1>4. ASSUME NEW p \in Procs, ContactCommit(p), req' = [req EXCEPT ![p] = req'[p]]
      PROVE  TheBoard!Next
  <2>1. Contested' = Contested
    BY <1>0, <1>4, ContestedSame DEF ContactCommit, At, Goto, TypeOK
  <2>2. /\ req[p].uid \in Users /\ req[p].uid \in verified
        /\ req[p].lid \in ListingIds /\ Exists(req[p].lid)
        /\ req[p].uid # listings[req[p].lid].owner
        /\ req[p].row.owner = listings[req[p].lid].owner
    BY <1>0, <1>4 DEF ContactCommit, At, Informed, Sees
  <2>3. TheBoard!Write(req[p].uid, req[p].lid)
    BY <1>4, <2>1, <2>2 DEF ContactCommit, TheBoard!Write, Exists, MessageOf
  <2> QED BY <2>2, <2>3 DEF TheBoard!Next
<1>5. ASSUME NEW p \in Procs, NEW u \in Users, NEW l \in ListingIds, CompleteRead(p, u, l),
             req' = [req EXCEPT ![p] = req'[p]]
      PROVE  TheBoard!Next
  <2>0. req[p].pc = "idle" /\ req'[p].pc = "complete" /\ req'[p].lid = l
    BY <1>0, <1>5 DEF CompleteRead, Load, IsIdle, Idle, Request, TypeOK
  <2>1. Contested' = Contested \cup {l}
    BY <1>0, <1>5, <2>0, ContestedGrows
  <2>2. TheBoard!Contest(l)
    BY <1>5, <2>1 DEF CompleteRead, Completable, Load, tables, TheBoard!Contest
  <2> QED BY <2>2 DEF TheBoard!Next
<1>6. ASSUME NEW p \in Procs, CompleteCommit(p), req' = [req EXCEPT ![p] = req'[p]]
      PROVE  TheBoard!Next
  <2>1. /\ req[p].pc = "complete" /\ req'[p].pc = "completed"
        /\ req[p].lid \in ListingIds
    BY <1>0, <1>6 DEF CompleteCommit, At, Goto, Informed, Sees, TypeOK
  <2>2. PICK l \in ListingIds : l = req[p].lid
    BY <2>1
  <2>3. Contested' \in {Contested, Contested \ {l}}
    BY <1>0, <1>6, <2>1, <2>2, ContestedShrinks
  <2>4. l \in Contested
    BY <2>1, <2>2 DEF Contested, At
  <2>5. /\ listings' = [listings EXCEPT ![l].status = "completed"]
        /\ UNCHANGED <<verified, messages>>
    BY <1>6, <2>2 DEF CompleteCommit
  <2>6. status' = [status EXCEPT ![l] = "completed"] /\ owner' = owner
    BY <1>0, <2>5 DEF TypeOK, Rows
  <2>7. TheBoard!Complete(l)
    BY <2>3, <2>4, <2>5, <2>6 DEF TheBoard!Complete
  <2> QED BY <2>7 DEF TheBoard!Next
<1>7. ASSUME NEW p \in Procs, DeleteCommit(p), req' = [req EXCEPT ![p] = req'[p]]
      PROVE  TheBoard!Next
  <2>1. /\ req[p].pc = "delete" /\ req'[p].pc = "idle"
        /\ req[p].lid \in ListingIds /\ Exists(req[p].lid)
    BY <1>0, <1>7 DEF DeleteCommit, At, Finish, Idle, Request, Informed, Sees, TypeOK
  <2>2. PICK l \in ListingIds : l = req[p].lid
    BY <2>1
  <2>3. Contested' = Contested
    BY <1>0, <1>7, <2>1, ContestedSame
  <2>4. /\ listings' = [listings EXCEPT ![l].status = "removed"]
        /\ UNCHANGED <<verified, messages>>
        /\ listings[l].status # "none"
    BY <1>7, <2>1, <2>2 DEF DeleteCommit, Exists
  <2>5. status' = [status EXCEPT ![l] = "removed"] /\ owner' = owner
    BY <1>0, <2>4 DEF TypeOK, Rows
  <2>6. TheBoard!TakeDown(l)
    BY <2>3, <2>4, <2>5 DEF TheBoard!TakeDown
  <2> QED BY <2>6 DEF TheBoard!Next
<1>8. ASSUME NEW p \in Procs, ToggleCommit(p), req' = [req EXCEPT ![p] = req'[p]]
      PROVE  UNCHANGED TheBoard!vars
  <2>1. req[p].pc = "toggle" /\ req[p].lid \in ListingIds /\ Exists(req[p].lid)
    BY <1>0, <1>8 DEF ToggleCommit, At, Informed, Sees
  <2>2. Contested' = Contested
    BY <1>0, <1>8, <2>1, ContestedSame DEF ToggleCommit, Finish, Idle, Request, TypeOK
  <2>3. PICK b \in BOOLEAN : listings' = [listings EXCEPT ![req[p].lid].is_seed = b]
    BY <1>8 DEF ToggleCommit
  <2>4. status' = status /\ owner' = owner
    BY <1>0, <2>1, <2>3 DEF TypeOK, Rows
  <2> QED BY <1>8, <2>2, <2>4 DEF ToggleCommit, TheBoard!vars
<1>9. ASSUME NEW p \in Procs, Abort(p), req' = [req EXCEPT ![p] = req'[p]]
      PROVE  [TheBoard!Next]_(TheBoard!vars)
  <2>1. req'[p].pc = "idle" /\ UNCHANGED <<verified, listings, messages>>
    BY <1>0, <1>9 DEF Abort, Finish, Idle, Request, tables, TypeOK
  <2>2. CASE req[p].pc # "complete"
    <3>1. Contested' = Contested
      BY <1>0, <1>9, <2>1, <2>2, ContestedSame
    <3> QED BY <1>1, <2>1, <3>1
  <2>3. CASE req[p].pc = "complete"
    <3>1. req[p].lid \in ListingIds
      BY <1>0, <2>3 DEF Informed, Sees
    <3>2. Contested' = Contested \/ Contested' = Contested \ {req[p].lid}
      BY <1>0, <1>9, <2>1, <2>3, <3>1, ContestedShrinks
    <3>3. CASE Contested' = Contested \ {req[p].lid}
      <4>1. TheBoard!Settle(req[p].lid)
        BY <2>1, <3>3 DEF TheBoard!Settle
      <4> QED BY <3>1, <4>1 DEF TheBoard!Next
    <3> QED BY <1>1, <2>1, <3>2, <3>3
  <2> QED BY <2>2, <2>3
<1>10. ASSUME NEW p \in Procs, req' = [req EXCEPT ![p] = req'[p]],
              \/ Arrive(p) /\ ~\E u \in Users, l \in ListingIds : CompleteRead(p, u, l)
              \/ LogCreated(p) \/ ContactLog(p) \/ ReportCommit(p) \/ FeedbackCommit(p)
              \/ LogCompleted(p)
       PROVE  [TheBoard!Next]_(TheBoard!vars)
  <2>1. UNCHANGED <<verified, listings, messages>>
    BY <1>10, ArriveChangesNothing
       DEF LogCreated, ContactLog, ReportCommit, FeedbackCommit, LogCompleted, tables
  <2>2. req[p].pc # "complete" /\ req'[p].pc # "complete"
    BY <1>0, <1>10
       DEF Arrive, CreateCheck, FeedbackRead, ContactRead, ReportRead, ToggleRead,
           DeleteRead, Load, IsIdle, Idle, Request, LogCreated, ContactLog, ReportCommit,
           FeedbackCommit, LogCompleted, At, Finish, TypeOK
  <2>3. Contested' = Contested
    BY <1>0, <1>10, <2>2, ContestedSame
  <2> QED BY <1>1, <2>1, <2>3
<1>11. ASSUME NEW p \in Procs, Arrive(p) \/ Proceed(p) \/ Abort(p),
              req' = [req EXCEPT ![p] = req'[p]]
       PROVE  [TheBoard!Next]_(TheBoard!vars)
  BY <1>3, <1>4, <1>5, <1>6, <1>7, <1>8, <1>9, <1>10, <1>11 DEF Proceed
<1>12. CASE req' = req
  <2>1. Contested' = Contested
    BY <1>12 DEF Contested, At
  <2>2. ASSUME NEW p \in Procs, Arrive(p) \/ Proceed(p) \/ Abort(p)
        PROVE  [TheBoard!Next]_(TheBoard!vars)
    <3>1. req' = [req EXCEPT ![p] = req'[p]]
      BY <1>0, <1>12 DEF TypeOK
    <3> QED BY <1>11, <2>2, <3>1
  <2> QED
    BY <1>1, <1>2, <2>1, <2>2 DEF Next, vars, tables, MailEnds
<1> QED
  BY <1>11, <1>12, OneWorker

\* The listings code keeps the promises of the notice board.
THEOREM BoardIsImplemented == Spec => ImplementsBoard
  BY BoardInit, BoardStep, Invariant, PTL DEF Spec, ImplementsBoard, TheBoard!Spec

-----------------------------------------------------------------------------
(* What a lock on the listing's row would give.                            *)
(*                                                                         *)
(* Two more things would hold of a listing if mark_completed kept the row  *)
(* locked from its look at the status to its commit: a removal would be    *)
(* final, and a listing would be completed once.  The hypotheses say only  *)
(* what overlaps they exclude; every other pair of requests may interleave. *)

\* No completion of a listing is in flight together with its removal.
RemovalsApart ==
    \A p, q \in Procs :
        At(p, "complete") /\ At(q, "delete") => req[p].lid # req[q].lid

\* No two completions of a listing are in flight together.
CompletionsApart ==
    \A p, q \in Procs :
        At(p, "complete") /\ At(q, "complete") /\ req[p].lid = req[q].lid => p = q

\* What a completion in flight found is still so: the listing has not been removed.
StillThere ==
    \A p \in Procs : At(p, "complete") => listings[req[p].lid].status # "removed"

\* Nobody has completed a listing that is still open, or that somebody is completing.
StillOpen ==
    /\ \A p \in Procs : At(p, "complete") => completed[req[p].lid] = 0
    /\ \A l \in ListingIds : completed[l] <= 1

\* A completion in flight was in flight before, or has just found the listing active.
LEMMA Completers ==
    ASSUME IInv, [Next]_vars, NEW p \in Procs, At(p, "complete")'
    PROVE  /\ req'[p].lid \in ListingIds
           /\ \/ req'[p] = req[p]
              \/ /\ listings[req'[p].lid].status = "active"
                 /\ UNCHANGED <<listings, completed>>
<1> USE DEF At
<1>1. CASE req'[p] = req[p]
  BY <1>1 DEF IInv, Informed, Sees
<1>2. CASE req'[p] # req[p]
  <2>1. Arrive(p) \/ Proceed(p) \/ Abort(p)
    BY <1>2, OneWorker DEF IInv, TypeOK
  <2>2. ASSUME NEW u \in Users, NEW l \in ListingIds, CompleteRead(p, u, l)
        PROVE  /\ req'[p].lid = l /\ listings[l].status = "active"
               /\ UNCHANGED <<listings, completed>>
    BY <2>2 DEF CompleteRead, Completable, Load, Request, tables, IInv, TypeOK
  <2>3. ASSUME NEW u \in Users, NEW l \in ListingIds, NEW pc, pc # "complete"
        PROVE  ~Load(p, pc, u, l)
    BY <2>3 DEF Load, Request, IInv, TypeOK
  <2>4. ASSUME NEW pc, Goto(p, pc) PROVE req'[p].pc = pc
    BY <2>4 DEF Goto, IInv, TypeOK
  <2>5. ASSUME Finish(p) PROVE req'[p].pc = "idle"
    BY <2>5 DEF Finish, Idle, Request, IInv, TypeOK
  <2>6. ASSUME NEW l \in ListingIds, CreateCommit(p, l) PROVE req'[p].pc = "created"
    BY <2>6 DEF CreateCommit, Request, IInv, TypeOK
  <2>7. /\ ~ \E l \in ListingIds : CreateCommit(p, l)
        /\ ~Finish(p)
        /\ ~Goto(p, "contacted") /\ ~Goto(p, "completed")
    BY <2>4, <2>5, <2>6
  <2>8. \E u \in Users, l \in ListingIds : CompleteRead(p, u, l)
    <3>1. ~Proceed(p) /\ ~Abort(p)
      BY <2>7
         DEF Proceed, LogCreated, ContactCommit, ContactLog, ReportCommit, FeedbackCommit,
             CompleteCommit, LogCompleted, ToggleCommit, DeleteCommit, Abort
    <3>2. ASSUME NEW u \in Users, NEW l \in ListingIds
          PROVE  /\ ~ContactRead(p, u, l) /\ ~ReportRead(p, u, l)
                 /\ ~ToggleRead(p, u, l) /\ ~DeleteRead(p, u, l)
      <4>1. /\ ~Load(p, "contact", u, l) /\ ~Load(p, "report", u, l)
            /\ ~Load(p, "toggle", u, l) /\ ~Load(p, "delete", u, l)
        BY <2>3
      <4> QED BY <4>1 DEF ContactRead, ReportRead, ToggleRead, DeleteRead
    <3>3. ~FeedbackRead(p) /\ \A u \in Users : ~CreateCheck(p, u)
      BY DEF CreateCheck, FeedbackRead, Request, IInv, TypeOK
    <3> QED
      BY <2>1, <3>1, <3>2, <3>3 DEF Arrive
  <2> QED BY <2>2, <2>8
<1> QED BY <1>1, <1>2

\* A step that counts a completion is the commit of that completion.
LEMMA CompletedSteps ==
    ASSUME IInv, [Next]_vars, NEW l \in ListingIds
    PROVE  \/ completed'[l] = completed[l]
           \/ \E p \in Procs : /\ CompleteCommit(p) /\ req[p].lid = l
                               /\ completed'[l] = completed[l] + 1
                               /\ req'[p].pc = "completed"
                               /\ \A q \in Procs : q # p => req'[q] = req[q]
<1>1. ASSUME NEW p \in Procs, CompleteCommit(p)
      PROVE  /\ completed'[l] = IF req[p].lid = l THEN completed[l] + 1 ELSE completed[l]
             /\ req'[p].pc = "completed"
             /\ \A q \in Procs : q # p => req'[q] = req[q]
  BY <1>1 DEF CompleteCommit, Goto, IInv, TypeOK
<1>2. UNCHANGED completed \/ \E p \in Procs : CompleteCommit(p)
  BY ArriveChangesNothing
     DEF Next, vars, tables, Proceed, CreateCommit, LogCreated, ContactCommit, ContactLog,
         ReportCommit, FeedbackCommit, LogCompleted, ToggleCommit, DeleteCommit, Abort,
         Verify, MailEnds
<1> QED BY <1>1, <1>2

\* With removals apart no listing is removed while a completion of it is under way.
LEMMA StillTherePreserved == IInv /\ RemovalsApart /\ StillThere /\ [Next]_vars => StillThere'
<1> SUFFICES ASSUME IInv, RemovalsApart, StillThere, [Next]_vars,
                    NEW p \in Procs, At(p, "complete")'
             PROVE  listings'[req'[p].lid].status # "removed"
  BY DEF StillThere, At
<1>1. CASE req'[p] = req[p]
  <2>1. At(p, "complete") /\ req[p].lid \in ListingIds /\ listings[req[p].lid].status # "removed"
    BY <1>1, Completers DEF StillThere, At
  <2>2. ~ \E q \in Procs : DeleteCommit(q) /\ req[q].lid = req[p].lid
    BY <2>1 DEF RemovalsApart, DeleteCommit
  <2> QED BY <1>1, <2>1, <2>2, StatusSteps
<1>2. CASE listings[req'[p].lid].status = "active" /\ UNCHANGED listings
  BY <1>2
<1> QED BY <1>1, <1>2, Completers

\* Without completions that overlap it, a removal is final: a listing its owner
\* took down is never in view again (listings.py:486-487).
THEOREM RemovalIsFinalApart == Spec /\ []RemovalsApart => RemovedIsFinal
<1>1. Init => StillThere
  BY DEF Init, StillThere, At, Idle, Request
<1>2. Spec /\ []RemovalsApart => []StillThere
  BY <1>1, StillTherePreserved, Invariant, PTL DEF Spec
<1>3. ASSUME IInv, StillThere, [Next]_vars, NEW l \in ListingIds,
             listings[l].status = "removed"
      PROVE  listings'[l].status = "removed"
  <2>1. ~ \E p \in Procs : CompleteCommit(p) /\ req[p].lid = l
    BY <1>3 DEF StillThere, CompleteCommit
  <2> QED BY <1>3, <2>1, StatusSteps DEF Exists
<1>4. IInv /\ StillThere /\ [Next]_vars =>
        [\A l \in ListingIds :
           listings[l].status = "removed" => listings'[l].status = "removed"]_vars
  BY <1>3
<1> QED BY <1>2, <1>4, Invariant, PTL DEF Spec, RemovedIsFinal

\* With completions apart no listing is completed twice, or while another is at it.
LEMMA StillOpenPreserved == IInv /\ CompletionsApart /\ StillOpen /\ [Next]_vars => StillOpen'
<1> SUFFICES ASSUME IInv, CompletionsApart, StillOpen, [Next]_vars PROVE StillOpen'
  OBVIOUS
<1>1. \A l \in ListingIds : completed[l] \in Nat
  BY DEF IInv, TypeOK
<1>2. ASSUME NEW p \in Procs, At(p, "complete")' PROVE completed'[req'[p].lid] = 0
  <2>1. CASE req'[p] = req[p]
    <3>1. At(p, "complete") /\ req[p].lid \in ListingIds /\ completed[req[p].lid] = 0
      BY <1>2, <2>1, Completers DEF StillOpen, At
    <3>2. ASSUME NEW q \in Procs, CompleteCommit(q), req[q].lid = req[p].lid,
                 req'[q].pc = "completed"
          PROVE  FALSE
      BY <1>2, <3>1, <3>2 DEF CompletionsApart, CompleteCommit, At
    <3> QED BY <2>1, <3>1, <3>2, CompletedSteps
  <2>2. CASE listings[req'[p].lid].status = "active" /\ UNCHANGED completed
    BY <1>2, <2>2, Completers DEF IInv, Counted
  <2> QED BY <1>2, <2>1, <2>2, Completers
<1>3. ASSUME NEW l \in ListingIds PROVE completed'[l] <= 1
  <2>1. CASE completed'[l] = completed[l]
    BY <2>1 DEF StillOpen
  <2>2. ASSUME NEW p \in Procs, CompleteCommit(p), req[p].lid = l,
               completed'[l] = completed[l] + 1
        PROVE  completed'[l] <= 1
    BY <2>2 DEF StillOpen, CompleteCommit
  <2> QED BY <2>1, <2>2, CompletedSteps
<1> QED BY <1>2, <1>3 DEF StillOpen

\* Without completions that overlap one another, a listing is completed once in its
\* life, and its completion is logged at most once (mark_completed, log_event).
THEOREM CompletedOnceApart ==
    Spec /\ []CompletionsApart =>
        []\A l \in ListingIds : completed[l] <= 1 /\ completions[l] <= completed[l]
<1>1. Init => StillOpen
  BY DEF Init, StillOpen, At, Idle, Request
<1>2. Spec /\ []CompletionsApart => []StillOpen
  BY <1>1, StillOpenPreserved, Invariant, PTL DEF Spec
<1>3. ASSUME IInv, StillOpen, NEW l \in ListingIds
      PROVE  completed[l] <= 1 /\ completions[l] <= completed[l]
  <2>1. completed[l] \in Nat /\ completions[l] \in Nat /\ Counted(l)
    BY <1>3 DEF IInv, TypeOK
  <2> QED BY <1>3, <2>1, Finite DEF Counted, StillOpen
<1>4. IInv /\ StillOpen =>
        \A l \in ListingIds : completed[l] <= 1 /\ completions[l] <= completed[l]
  BY <1>3
<1> QED BY <1>2, <1>4, Invariant, PTL
=============================================================================
