---------------------------- MODULE ListingEdit ----------------------------
(***************************************************************************)
(* What a listing holds that its owner can change: its tags, its pin and   *)
(* its photo.  create_listing and edit_listing of                          *)
(* src/app/routes/listings.py, with src/app/geo.py, src/app/images.py and  *)
(* src/app/storage.py below them.                                          *)
(*                                                                         *)
(* Both handlers are coroutines: between the SELECT that loads the listing *)
(* and the commit they wait for the upload to be read and for a thread to  *)
(* re-encode it and push it to the object store, and other requests run.   *)
(* The commit is the difference between what was loaded and what was       *)
(* submitted: an UPDATE of the columns that differ, a DELETE for each tag  *)
(* that was loaded and is not wanted, an INSERT for each that is wanted    *)
(* and was not loaded, nothing for a tag that is both.                     *)
(*                                                                         *)
(* Every request here is of the listing's owner, signed in and verified    *)
(* (module Listings has the others), from any of the pages, old or new,    *)
(* the owner has open.                                                     *)
(***************************************************************************)
EXTENDS Naturals, FiniteSets

CONSTANTS
    ListingIds,   \* the rows of listings the model has room for
    Procs,        \* the requests the instances can be in the middle of
    Tags,         \* the vocabulary of templating.TAGS
    Other,        \* the tag of a form that names none
    Junk,         \* a tag a form may name that is not in the vocabulary
    Places,       \* what a browser may report: exact coordinates
    Photos,       \* the generated file names
    None,         \* a NULL column, an empty form field, no listing
    MaxDraws      \* bound: the number of times fuzz is called

\* A pair of coordinates: the place it started from, how many times it was
\* jittered since, and the last draw of the jitter, which makes it different
\* from every other (that two draws agree to five decimals is left out).
Coords == [of : Places, depth : 0 .. MaxDraws, draw : 0 .. MaxDraws]

ASSUME ListingEditAssumption ==
    /\ Other \in Tags
    /\ Junk \notin Tags
    /\ None \notin ListingIds \cup Photos \cup Coords
    /\ MaxDraws \in Nat

VARIABLES
    rows,      \* the listings table: one row for each identifier, or NoRow
    tags,      \* the rows of listing_tags: the tags of each listing
    bucket,    \* the files in the object store
    pages,     \* the pins in the edit forms the owner has open
    req,       \* the request each worker is in the middle of
    draws      \* the number of times fuzz was called

vars == <<rows, tags, bucket, pages, req, draws>>

-----------------------------------------------------------------------------
(* Coordinates. *)

Exact(place) == [of |-> place, depth |-> 0, draw |-> 0]

\* Mutant: a radius of zero.
fuzz_Zero(c, n) == c

\* fuzz, with a positive radius: the n-th draw.
fuzz(c, n) == [c EXCEPT !.depth = @ + 1, !.draw = n]

\* What the owner's browser can put into a form: nothing, or a place it reports
\* or the owner points at; and, from an edit form, the pin it was rendered with.
NewCoords == {None} \cup {Exact(place) : place \in Places}
EditCoords == NewCoords \cup pages

\* edit_listing keeps the pin it loaded: no coordinates, or those very ones.
KeepsPin(c, pin) == c = None \/ c = pin

-----------------------------------------------------------------------------
(* Rows and requests. *)

NoRow == [exists |-> FALSE, pin |-> None, photo |-> None]

Rows == [exists : BOOLEAN, pin : Coords \cup {None}, photo : Photos \cup {None}]

\* Mutant: the submitted tags are not checked against the vocabulary.
selected_tags_Raw(ts) == IF ts = {} THEN {Other} ELSE ts

\* Mutant: no tag stands for no tag.
selected_tags_None(ts) == ts \cap Tags

\* The submitted tags of the vocabulary, or "other".
selected_tags(ts) == IF ts \cap Tags = {} THEN {Other} ELSE ts \cap Tags

\* A request in flight: the listing, its row and its tags as they were loaded,
\* the form it carries, and the photo it will store.
Request(pc, l, row, seen, c, ts, f) ==
    [pc |-> pc, lid |-> l, row |-> row, seen |-> seen,
     coords |-> c, chosen |-> ts, photo |-> f]

Idle == Request("idle", None, NoRow, {}, None, {}, None)

IsIdle(p) == req[p] = Idle
At(p, pc) == req[p].pc = pc
Finish(p) == req' = [req EXCEPT ![p] = Idle]

\* The first step after the checks: the upload, if there is one.
FirstPc(withPhoto) == IF withPhoto THEN "upload" ELSE "write"

-----------------------------------------------------------------------------
(* The upload: process_upload in a thread, while other requests run. *)

\* A name nobody has: 16 random bytes.
FreshName(f) ==
    /\ f \notin bucket
    /\ \A q \in Procs : req[q].photo # f

\* The re-encoded picture is stored, and the handler goes on with its name.
UploadSaved(p, f) ==
    /\ At(p, "upload")
    /\ FreshName(f)
    /\ bucket' = bucket \cup {f}
    /\ req' = [req EXCEPT ![p].pc = "write", ![p].photo = f]
    /\ UNCHANGED <<rows, tags, pages, draws>>

\* A save that raises may have left the file in the store all the same: only the
\* answer was late.
AfterFailedSave(f) == {bucket, bucket \cup {f}}

\* Mutant: a StorageError is logged, and the handler goes on with the name.
UploadFails_GoesOn(p, f) ==
    /\ At(p, "upload")
    /\ FreshName(f)
    /\ req' = [req EXCEPT ![p].pc = "write", ![p].photo = f]
    /\ UNCHANGED <<rows, tags, bucket, pages, draws>>

\* ImageRejected or StorageError: the form comes back (_new_listing_error) and
\* nothing is written.
UploadFails(p, f) ==
    /\ At(p, "upload")
    /\ FreshName(f)
    /\ bucket' \in AfterFailedSave(f)
    /\ Finish(p)
    /\ UNCHANGED <<rows, tags, pages, draws>>

-----------------------------------------------------------------------------
(* create_listing. *)

CreateStart(p, c, ts, withPhoto) ==
    /\ IsIdle(p)
    /\ req' = [req EXCEPT ![p] =
                 Request(FirstPc(withPhoto), None, NoRow, {}, c, selected_tags(ts), None)]
    /\ UNCHANGED <<rows, tags, bucket, pages, draws>>

\* INSERT of the listing and of its tags, the pin jittered.
CreateCommit(p, l) ==
    /\ At(p, "write")
    /\ req[p].lid = None
    /\ ~rows[l].exists
    /\ LET r     == req[p]
           fresh == r.coords # None
       IN  /\ fresh => draws < MaxDraws
           /\ draws' = IF fresh THEN draws + 1 ELSE draws
           /\ rows' = [rows EXCEPT ![l] =
                        [exists |-> TRUE,
                         pin    |-> IF fresh THEN fuzz(r.coords, draws + 1) ELSE None,
                         photo  |-> r.photo]]
           /\ tags' = [tags EXCEPT ![l] = r.chosen]
    /\ Finish(p)
    /\ UNCHANGED <<bucket, pages>>

-----------------------------------------------------------------------------
(* edit_listing. *)

\* The stored pin goes into the hidden fields of the form.
edit_listing_form(l) ==
    /\ rows[l].pin # None
    /\ pages' = pages \cup {rows[l].pin}
    /\ UNCHANGED <<rows, tags, bucket, req, draws>>

\* The listing is loaded, its tags with it; the photo stays unless a new one
\* comes with the form.
EditStart(p, l, c, ts, withPhoto) ==
    /\ IsIdle(p)
    /\ rows[l].exists
    /\ req' = [req EXCEPT ![p] =
                 Request(FirstPc(withPhoto), l, rows[l], tags[l],
                         c, selected_tags(ts), rows[l].photo)]
    /\ UNCHANGED <<rows, tags, bucket, pages, draws>>

\* Mutant: every column is written, changed or not.
Assigned_Always(loaded, wanted, current) == wanted

\* What the UPDATE leaves in a column: the new value if it differs from the one
\* that was loaded, else whatever is there.
Assigned(loaded, wanted, current) == IF wanted = loaded THEN current ELSE wanted

\* Mutant: the new tags join the old ones.
TagsAfter_Added(seen, chosen, current) == current \cup chosen

\* DELETE of the loaded tags that are not chosen, INSERT of the chosen ones that
\* were not loaded.
TagsAfter(seen, chosen, current) == (current \ (seen \ chosen)) \cup (chosen \ seen)

\* The primary key of listing_tags refuses an INSERT of a row that is there.
TagsCollide(seen, chosen, current) == (chosen \ seen) \cap current # {}

EditCommit(p) ==
    /\ At(p, "write")
    /\ req[p].lid # None
    /\ LET r     == req[p]
           l     == r.lid
           fresh == ~KeepsPin(r.coords, r.row.pin)
           pin   == IF fresh THEN fuzz(r.coords, draws + 1) ELSE r.row.pin
       IN  /\ ~TagsCollide(r.seen, r.chosen, tags[l])
           /\ fresh => draws < MaxDraws
           /\ draws' = IF fresh THEN draws + 1 ELSE draws
           /\ rows' = [rows EXCEPT
                        ![l].pin   = Assigned(r.row.pin, pin, @),
                        ![l].photo = Assigned(r.row.photo, r.photo, @)]
           /\ tags' = [tags EXCEPT ![l] = TagsAfter(r.seen, r.chosen, @)]
    /\ Finish(p)
    /\ UNCHANGED <<bucket, pages>>

\* A request ends early: the tags collide, the form names one twice, another
\* database error, the process dies.  The file it stored stays in the bucket.
Abort(p) ==
    /\ ~IsIdle(p)
    /\ Finish(p)
    /\ UNCHANGED <<rows, tags, bucket, pages, draws>>

-----------------------------------------------------------------------------
Init ==
    /\ rows = [l \in ListingIds |-> NoRow]
    /\ tags = [l \in ListingIds |-> {}]
    /\ bucket = {}
    /\ pages = {}
    /\ req = [p \in Procs |-> Idle]
    /\ draws = 0

\* The owner submits a form: any tags of the vocabulary, or one that is not in it.
Submit(p) ==
    \E ts \in SUBSET Tags \cup {{Junk}}, withPhoto \in BOOLEAN :
        \/ \E c \in NewCoords : CreateStart(p, c, ts, withPhoto)
        \/ \E l \in ListingIds, c \in EditCoords : EditStart(p, l, c, ts, withPhoto)

Next ==
    \/ \E l \in ListingIds : edit_listing_form(l)
    \/ \E p \in Procs :
         \/ Submit(p)
         \/ \E f \in Photos : UploadSaved(p, f) \/ UploadFails(p, f)
         \/ \E l \in ListingIds : CreateCommit(p, l)
         \/ EditCommit(p)
         \/ Abort(p)

Spec == Init /\ [][Next]_vars

-----------------------------------------------------------------------------
(* Properties. *)

\* Every variable has its type, and an edit in flight is of a listing that exists.
TypeOK ==
    /\ rows \in [ListingIds -> Rows]
    /\ tags \in [ListingIds -> SUBSET Tags]
    /\ bucket \subseteq Photos
    /\ pages \subseteq Coords
    /\ req \in [Procs -> [pc : {"idle", "upload", "write"}, lid : ListingIds \cup {None},
                          row : Rows, seen : SUBSET Tags, coords : Coords \cup {None},
                          chosen : SUBSET Tags, photo : Photos \cup {None}]]
    /\ \A p \in Procs : req[p].lid # None => rows[req[p].lid].exists
    /\ draws \in 0 .. MaxDraws

\* The exact place is never stored (the comment on Listing.lat): every stored
\* pin, and so every pin a page shows, went through fuzz.
NoExactPin ==
    /\ \A l \in ListingIds : rows[l].pin # None => rows[l].pin.depth > 0
    /\ \A c \in pages : c.depth > 0

\* The photo a listing names is in the store, whatever failed or died between
\* the upload and the commit (process_upload saves before the handler writes).
PhotoIsStored == \A l \in ListingIds : rows[l].photo # None => rows[l].photo \in bucket

\* An edit never brings back what it merely loaded: a pin that changes is a
\* fresh draw, a photo that changes is one uploaded since, so the new location
\* or photo that another tab saved meanwhile survives.
NothingIsReverted ==
    [][\A l \in ListingIds :
         /\ rows'[l].pin # rows[l].pin =>
              rows'[l].pin # None /\ rows'[l].pin.draw = draws + 1
         /\ rows'[l].photo # rows[l].photo =>
              \E p \in Procs : /\ req[p].photo = rows'[l].photo
                               /\ req[p].row.photo # rows'[l].photo]_vars

\* A file that no listing names and no request has just uploaded is never named
\* again, so that whoever clears the bucket of the files left behind (by failures
\* after the upload, and by photos replaced) takes no photo from a listing.
Named(f) ==
    \/ \E l \in ListingIds : rows[l].photo = f
    \/ \E p \in Procs : req[p].photo = f /\ req[p].row.photo # f

DroppedStayDropped == [][\A f \in bucket : ~Named(f) => ~Named(f)']_vars

\* An edit leaves exactly the tags that were submitted, unless another edit of
\* the tags was committed between its loading and its commit.
EditReplacesTags ==
    [][\A p \in Procs :
         EditCommit(p) /\ tags[req[p].lid] = req[p].seen
            => tags'[req[p].lid] = req[p].chosen]_vars

\* Only an overlap of two edits takes the last tag of a listing away.
UntaggedOnlyByOverlap ==
    [][\A l \in ListingIds :
         rows'[l].exists /\ tags'[l] = {} /\ tags'[l] # tags[l]
            => \E p \in Procs : EditCommit(p) /\ req[p].lid = l /\ req[p].seen # tags[l]]_vars

\* A pin is jittered once: what was stored already is never jittered again
\* (the comment in edit_listing).
JitteredOnce == \A l \in ListingIds : rows[l].pin # None => rows[l].pin.depth <= 1
=============================================================================
