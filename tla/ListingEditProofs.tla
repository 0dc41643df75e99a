------------------------- MODULE ListingEditProofs --------------------------
(***************************************************************************)
(* Proofs about ListingEdit, for any rows, requests, tags, places and file *)
(* names, and any number of draws.                                         *)
(***************************************************************************)
EXTENDS ListingEdit, TLAPS

-----------------------------------------------------------------------------
(* The inductive invariant. *)

\* A pin that is stored, or was, has been jittered.
Jittered(pin) == pin \in Coords /\ pin.depth > 0 /\ pin.depth <= draws

\* What the browser sends was jittered at most as often as there were draws.
Known(c) == c \in Coords /\ c.depth <= draws

\* A key without a listing has an empty row.
RowsOK ==
    /\ \A l \in ListingIds : ~rows[l].exists => rows[l] = NoRow
    /\ \A l \in ListingIds : rows[l].pin # None => Jittered(rows[l].pin)
    /\ \A l \in ListingIds : rows[l].photo # None => rows[l].photo \in bucket

PagesOK == \A c \in pages : Jittered(c)

\* A request under way: the row it loaded was a row as they are, the coordinates come
\* from a page or from the browser, some tag is chosen, and the photo it names is stored.
RequestOK(r) ==
    /\ r.row.pin # None => Jittered(r.row.pin)
    /\ r.row.photo # None => r.row.photo \in bucket
    /\ r.coords # None => Known(r.coords)
    /\ r.pc # "idle" => r.chosen # {}
    /\ r.photo # None => r.photo \in bucket
    /\ r.lid = None => r.row = NoRow

RequestsOK == \A p \in Procs : RequestOK(req[p])

IInv == TypeOK /\ RowsOK /\ PagesOK /\ RequestsOK

-----------------------------------------------------------------------------
(* Lemmas. *)

\* The type of a request.
Requests == [pc : {"idle", "upload", "write"}, lid : ListingIds \cup {None},
             row : Rows, seen : SUBSET Tags, coords : Coords \cup {None},
             chosen : SUBSET Tags, photo : Photos \cup {None}]

\* An idle request is a request, and claims nothing.
LEMMA IdleOK == Idle \in Requests /\ NoRow \in Rows /\ RequestOK(Idle) /\ Idle.lid = None
  BY DEF Idle, Request, NoRow, Rows, Requests, RequestOK

\* fuzz draws: the result was jittered, and is the newest.
LEMMA FuzzDraws ==
  ASSUME NEW c \in Coords, draws \in Nat, draws < MaxDraws, c.depth <= draws
  PROVE  /\ fuzz(c, draws + 1) \in Coords
         /\ fuzz(c, draws + 1).depth > 0
         /\ fuzz(c, draws + 1).depth <= draws + 1
         /\ fuzz(c, draws + 1).draw = draws + 1
         /\ fuzz(c, draws + 1) # None
  <1>1. /\ c.of \in Places /\ c.depth + 1 \in 0 .. MaxDraws /\ c.depth + 1 > 0
        /\ c.depth + 1 <= draws + 1 /\ draws + 1 \in 0 .. MaxDraws
    BY ListingEditAssumption DEF Coords
  <1> PICK d, n : d = c.depth + 1 /\ n = draws + 1
    OBVIOUS
  <1>2. d \in 0 .. MaxDraws /\ n \in 0 .. MaxDraws /\ fuzz(c, n) = [c EXCEPT !.depth = d, !.draw = n]
    BY <1>1 DEF fuzz
  <1>3. fuzz(c, n) \in Coords /\ fuzz(c, n).depth = d /\ fuzz(c, n).draw = n
    BY <1>2 DEF Coords
  <1> QED
    BY <1>1, <1>3, ListingEditAssumption

\* selected_tags always leaves a tag of the vocabulary.
LEMMA SomeTag ==
  ASSUME NEW ts PROVE selected_tags(ts) \in SUBSET Tags /\ selected_tags(ts) # {}
  BY ListingEditAssumption DEF selected_tags

\* Nothing is loaded yet, and every page is empty.
LEMMA Start == Init => IInv
  BY IdleOK, ListingEditAssumption
  DEF Init, IInv, TypeOK, RowsOK, PagesOK, RequestsOK, Requests, NoRow, Rows, Idle, Request

\* A step that changes one request, and keeps rows, tags, pages and draws, keeps the
\* invariant when the new request is right.
LEMMA RequestStep ==
  ASSUME IInv, NEW p \in Procs, NEW r \in Requests,
         UNCHANGED <<rows, tags, pages, draws>>,
         req' = [req EXCEPT ![p] = r],
         bucket \subseteq bucket', bucket' \subseteq Photos,
         r.lid # None => rows[r.lid].exists,
         /\ r.row.pin # None => Jittered(r.row.pin)
         /\ r.row.photo # None => r.row.photo \in bucket'
         /\ r.coords # None => Known(r.coords)
         /\ r.pc # "idle" => r.chosen # {}
         /\ r.photo # None => r.photo \in bucket'
         /\ r.lid = None => r.row = NoRow
  PROVE  IInv'
  <1> USE DEF IInv
  <1>1. /\ req \in [Procs -> Requests]
        /\ \A q \in Procs : req[q].lid # None => rows[req[q].lid].exists
    BY DEF TypeOK, Requests
  <1>2. /\ req' \in [Procs -> Requests]
        /\ req'[p] = r
        /\ \A q \in Procs : q # p => req'[q] = req[q]
    BY <1>1
  <1>3. \A q \in Procs : req'[q].lid # None => rows[req'[q].lid].exists
    BY <1>1, <1>2
  <1>4. TypeOK'
    BY <1>2, <1>3 DEF TypeOK, Requests
  <1>5. RowsOK'
    BY DEF RowsOK, Jittered
  <1>6. PagesOK'
    BY DEF PagesOK, Jittered
  <1>7. ASSUME NEW q \in Procs PROVE RequestOK(req[q])'
    <2>1. CASE q = p
      BY <1>2, <2>1 DEF RequestOK, Jittered, Known
    <2>2. CASE q # p
      <3>1. RequestOK(req[q])
        BY DEF RequestsOK
      <3> QED
        BY <1>2, <2>2, <3>1 DEF RequestOK, Jittered, Known
    <2> QED
      BY <2>1, <2>2
  <1> QED
    BY <1>4, <1>5, <1>6, <1>7 DEF RequestsOK

\* A request ends, and a file may stay behind.
LEMMA FinishStep ==
  ASSUME IInv, NEW p \in Procs, Finish(p), UNCHANGED <<rows, tags, pages, draws>>,
         bucket \subseteq bucket', bucket' \subseteq Photos
  PROVE  IInv'
  <1>1. req' = [req EXCEPT ![p] = Idle]
    BY DEF Finish
  <1>2. /\ Idle \in Requests /\ Idle.lid = None
        /\ Idle.row = NoRow /\ Idle.coords = None /\ Idle.pc = "idle" /\ Idle.photo = None
        /\ NoRow.pin = None /\ NoRow.photo = None
    BY IdleOK DEF Idle, Request, NoRow
  <1> QED
    BY <1>1, <1>2, RequestStep

\* A commit: one row and its tags are written, a draw may be used up, one request ends.
LEMMA CommitStep ==
  ASSUME IInv, NEW p \in Procs, NEW l \in ListingIds, NEW row \in Rows, NEW ts \in SUBSET Tags,
         Finish(p), UNCHANGED <<bucket, pages>>,
         rows' = [rows EXCEPT ![l] = row], tags' = [tags EXCEPT ![l] = ts],
         draws' \in 0 .. MaxDraws, draws <= draws',
         row.exists,
         row.pin # None => row.pin \in Coords /\ row.pin.depth > 0 /\ row.pin.depth <= draws',
         row.photo # None => row.photo \in bucket
  PROVE  IInv'
  <1> USE DEF IInv
  <1>1. /\ req \in [Procs -> Requests] /\ rows \in [ListingIds -> Rows]
        /\ tags \in [ListingIds -> SUBSET Tags] /\ draws \in 0 .. MaxDraws
        /\ \A q \in Procs : req[q].lid # None => rows[req[q].lid].exists
    BY DEF TypeOK, Requests
  <1>2. /\ req' \in [Procs -> Requests] /\ req'[p] = Idle
        /\ \A q \in Procs : q # p => req'[q] = req[q]
    BY <1>1, IdleOK DEF Finish
  <1>3. /\ rows' \in [ListingIds -> Rows] /\ rows'[l] = row
        /\ \A k \in ListingIds : k # l => rows'[k] = rows[k]
    BY <1>1
  <1>4. \A k \in ListingIds : rows[k].exists => rows'[k].exists
    BY <1>3
  <1>5. \A q \in Procs : req'[q].lid # None => rows'[req'[q].lid].exists
    <2> SUFFICES ASSUME NEW q \in Procs, req'[q].lid # None PROVE rows'[req'[q].lid].exists
      OBVIOUS
    <2>1. q # p
      BY <1>2, IdleOK
    <2>2. req[q].lid \in ListingIds /\ rows[req[q].lid].exists
      BY <1>1, <1>2, <2>1 DEF Requests
    <2> QED
      BY <1>2, <1>4, <2>1, <2>2
  <1>6. TypeOK'
    BY <1>1, <1>2, <1>3, <1>5 DEF TypeOK, Requests
  <1>7. \A pin : Jittered(pin) => Jittered(pin)'
    BY <1>1 DEF Jittered, Coords
  <1>8. \A c : Known(c) => Known(c)'
    BY <1>1 DEF Known, Coords
  <1>9. RowsOK'
    BY <1>3, <1>7 DEF RowsOK, Jittered
  <1>10. PagesOK'
    BY <1>7 DEF PagesOK
  <1>11. ASSUME NEW q \in Procs PROVE RequestOK(req[q])'
    <2>1. CASE q = p
      BY <1>2, <2>1 DEF RequestOK, Idle, Request, NoRow
    <2>2. CASE q # p
      <3>1. RequestOK(req[q]) /\ req'[q] = req[q]
        BY <1>2, <2>2 DEF RequestsOK
      <3> QED
        BY <1>7, <1>8, <3>1 DEF RequestOK
    <2> QED
      BY <2>1, <2>2
  <1> QED
    BY <1>6, <1>9, <1>10, <1>11 DEF RequestsOK

-----------------------------------------------------------------------------
(* The steps. *)

\* The submitted coordinates are exact, or those of a page.
LEMMA SubmitKeeps == ASSUME IInv, NEW p \in Procs, Submit(p) PROVE IInv'
  <1> USE DEF IInv
  <1>1. PICK ts \in SUBSET Tags \cup {{Junk}}, withPhoto \in BOOLEAN :
           \/ \E c \in NewCoords : CreateStart(p, c, ts, withPhoto)
           \/ \E l \in ListingIds, c \in EditCoords : EditStart(p, l, c, ts, withPhoto)
    BY DEF Submit
  <1>2. draws \in 0 .. MaxDraws /\ pages \subseteq Coords /\ MaxDraws \in Nat /\ bucket \subseteq Photos
        /\ rows \in [ListingIds -> Rows] /\ tags \in [ListingIds -> SUBSET Tags]
    BY ListingEditAssumption DEF TypeOK
  <1>3. \A c \in NewCoords : c # None => Known(c)
    BY <1>2 DEF NewCoords, Known, Exact, Coords
  <1>4. \A c \in EditCoords : c # None => Known(c)
    BY <1>2, <1>3 DEF EditCoords, PagesOK, Jittered, Known
  <1>5. FirstPc(withPhoto) \in {"upload", "write"}
    BY DEF FirstPc
  <1>6. selected_tags(ts) \in SUBSET Tags /\ selected_tags(ts) # {}
    BY SomeTag
  <1>7. ASSUME NEW c \in NewCoords, CreateStart(p, c, ts, withPhoto) PROVE IInv'
    <2> PICK r : r = Request(FirstPc(withPhoto), None, NoRow, {}, c, selected_tags(ts), None)
      OBVIOUS
    <2>1. c \in Coords \cup {None}
      BY <1>3 DEF Known
    <2>2. r \in Requests /\ r.lid = None /\ r.row = NoRow /\ r.coords = c
          /\ r.chosen # {} /\ r.photo = None /\ NoRow.pin = None /\ NoRow.photo = None
      BY <1>5, <1>6, <2>1, IdleOK DEF Request, Requests, NoRow
    <2> QED
      BY <1>2, <1>3, <1>7, <2>2, RequestStep DEF CreateStart
  <1>8. ASSUME NEW l \in ListingIds, NEW c \in EditCoords, EditStart(p, l, c, ts, withPhoto)
        PROVE IInv'
    <2> PICK r : r = Request(FirstPc(withPhoto), l, rows[l], tags[l], c, selected_tags(ts),
                             rows[l].photo)
      OBVIOUS
    <2>1. c \in Coords \cup {None}
      BY <1>4 DEF Known
    <2>2. rows[l] \in Rows /\ tags[l] \in SUBSET Tags /\ rows[l].photo \in Photos \cup {None}
      BY <1>2 DEF Rows
    <2>3. r \in Requests /\ r.lid = l /\ r.row = rows[l] /\ r.coords = c
          /\ r.chosen # {} /\ r.photo = rows[l].photo
      BY <1>5, <1>6, <2>1, <2>2 DEF Request, Requests
    <2>4. l # None
      BY ListingEditAssumption
    <2> QED
      BY <1>2, <1>4, <1>8, <2>3, <2>4, RequestStep DEF EditStart, RowsOK
  <1> QED
    BY <1>1, <1>7, <1>8

\* The file is stored before the request names it.
LEMMA UploadKeeps ==
  ASSUME IInv, NEW p \in Procs, NEW f \in Photos, UploadSaved(p, f) \/ UploadFails(p, f)
  PROVE  IInv'
  <1>1. bucket \subseteq Photos /\ req[p] \in Requests /\ RequestOK(req[p])
        /\ (req[p].lid # None => rows[req[p].lid].exists)
    BY DEF IInv, TypeOK, Requests, RequestsOK
  <1>2. CASE UploadSaved(p, f)
    <2> PICK r : r = [req[p] EXCEPT !.pc = "write", !.photo = f]
      OBVIOUS
    <2>1. req' = [req EXCEPT ![p] = r]
      BY <1>2 DEF UploadSaved
    <2>2. r \in Requests /\ r.lid = req[p].lid /\ r.row = req[p].row /\ r.coords = req[p].coords
          /\ r.chosen = req[p].chosen /\ r.photo = f
      BY <1>1 DEF Requests
    <2>3. bucket' = bucket \cup {f} /\ req[p].pc # "idle"
      BY <1>2 DEF UploadSaved, At
    <2>4. bucket \subseteq bucket' /\ bucket' \subseteq Photos /\ f \in bucket'
      BY <1>1, <2>3
    <2>5. /\ r.row.pin # None => Jittered(r.row.pin)
          /\ r.row.photo # None => r.row.photo \in bucket'
          /\ r.coords # None => Known(r.coords)
          /\ r.pc # "idle" => r.chosen # {}
          /\ r.photo # None => r.photo \in bucket'
          /\ r.lid = None => r.row = NoRow
          /\ r.lid # None => rows[r.lid].exists
      BY <1>1, <2>2, <2>3, <2>4 DEF RequestOK
    <2>6. UNCHANGED <<rows, tags, pages, draws>>
      BY <1>2 DEF UploadSaved
    <2> QED
      BY <2>1, <2>2, <2>4, <2>5, <2>6, RequestStep
  <1>3. CASE UploadFails(p, f)
    BY <1>1, <1>3, FinishStep DEF UploadFails, AfterFailedSave
  <1> QED
    BY <1>2, <1>3

\* A listing is created with a pin that is drawn, or none.
LEMMA CreateKeeps ==
  ASSUME IInv, NEW p \in Procs, NEW l \in ListingIds, CreateCommit(p, l) PROVE IInv'
  <1>1. req[p] \in Requests /\ RequestOK(req[p]) /\ draws \in 0 .. MaxDraws /\ MaxDraws \in Nat
    BY ListingEditAssumption DEF IInv, TypeOK, Requests, RequestsOK
  <1> PICK r : r = req[p]
    OBVIOUS
  <1> DEFINE fresh == r.coords # None
  <1> PICK pin : pin = IF fresh THEN fuzz(r.coords, draws + 1) ELSE None
    OBVIOUS
  <1> PICK row : row = [exists |-> TRUE, pin |-> pin, photo |-> r.photo]
    OBVIOUS
  <1>2. /\ fresh => draws < MaxDraws
        /\ draws' = IF fresh THEN draws + 1 ELSE draws
        /\ rows' = [rows EXCEPT ![l] = row]
        /\ tags' = [tags EXCEPT ![l] = r.chosen]
        /\ Finish(p) /\ UNCHANGED <<bucket, pages>>
    BY DEF CreateCommit
  <1>3. draws' \in 0 .. MaxDraws /\ draws <= draws'
    BY <1>1, <1>2
  <1>4. r.chosen \in SUBSET Tags /\ r.photo \in Photos \cup {None} /\ r.coords \in Coords \cup {None}
    BY <1>1 DEF Requests
  <1>5. pin # None => pin \in Coords /\ pin.depth > 0 /\ pin.depth <= draws'
    BY <1>1, <1>2, <1>4, FuzzDraws DEF RequestOK, Known
  <1>6. row \in Rows /\ row.exists /\ row.pin = pin /\ row.photo = r.photo
    BY <1>4, <1>5 DEF Rows
  <1> QED
    BY <1>1, <1>2, <1>3, <1>4, <1>5, <1>6, CommitStep DEF RequestOK

\* An edit keeps the pin and the photo that are there, or writes those it has loaded,
\* drawn or uploaded.
LEMMA EditKeeps == ASSUME IInv, NEW p \in Procs, EditCommit(p) PROVE IInv'
  <1>1. req[p] \in Requests /\ RequestOK(req[p]) /\ draws \in 0 .. MaxDraws /\ MaxDraws \in Nat
        /\ rows \in [ListingIds -> Rows] /\ tags \in [ListingIds -> SUBSET Tags] /\ RowsOK
        /\ (req[p].lid # None => rows[req[p].lid].exists)
    BY ListingEditAssumption DEF IInv, TypeOK, Requests, RequestsOK
  <1> PICK r : r = req[p]
    OBVIOUS
  <1> PICK l : l = r.lid
    OBVIOUS
  <1>2. l \in ListingIds /\ rows[l].exists
    BY <1>1 DEF EditCommit, Requests
  <1> DEFINE fresh == ~KeepsPin(r.coords, r.row.pin)
  <1> PICK pin : pin = IF fresh THEN fuzz(r.coords, draws + 1) ELSE r.row.pin
    OBVIOUS
  <1> PICK pin2, photo2 : /\ pin2 = Assigned(r.row.pin, pin, rows[l].pin)
                          /\ photo2 = Assigned(r.row.photo, r.photo, rows[l].photo)
    OBVIOUS
  <1> PICK row : row = [rows[l] EXCEPT !.pin = pin2, !.photo = photo2]
    OBVIOUS
  <1> PICK ts : ts = TagsAfter(r.seen, r.chosen, tags[l])
    OBVIOUS
  <1>3. /\ fresh => draws < MaxDraws
        /\ draws' = IF fresh THEN draws + 1 ELSE draws
        /\ rows' = [rows EXCEPT ![l] = row]
        /\ tags' = [tags EXCEPT ![l] = ts]
        /\ Finish(p) /\ UNCHANGED <<bucket, pages>>
    BY <1>1, <1>2 DEF EditCommit
  <1>4. draws' \in 0 .. MaxDraws /\ draws <= draws'
    BY <1>1, <1>3
  <1>5. /\ r.photo \in Photos \cup {None} /\ r.coords \in Coords \cup {None}
        /\ r.row \in Rows /\ rows[l] \in Rows /\ r.chosen \in SUBSET Tags /\ r.seen \in SUBSET Tags
    BY <1>1, <1>2 DEF Requests
  <1>6. fresh => pin \in Coords /\ pin.depth > 0 /\ pin.depth <= draws'
    BY <1>1, <1>3, <1>5, FuzzDraws DEF RequestOK, Known, KeepsPin
  <1>7. pin # None => pin \in Coords /\ pin.depth > 0 /\ pin.depth <= draws'
    <2>1. CASE fresh
      BY <1>6, <2>1
    <2>2. CASE ~fresh
      BY <1>1, <1>4, <2>2 DEF RequestOK, Jittered, Coords
    <2> QED
      BY <2>1, <2>2
  <1>8. rows[l].pin # None => rows[l].pin \in Coords /\ rows[l].pin.depth > 0 /\ rows[l].pin.depth <= draws'
    BY <1>1, <1>2, <1>4 DEF RowsOK, Jittered, Coords
  <1>9. pin2 # None => pin2 \in Coords /\ pin2.depth > 0 /\ pin2.depth <= draws'
    BY <1>7, <1>8 DEF Assigned
  <1>10. photo2 \in Photos \cup {None} /\ (photo2 # None => photo2 \in bucket)
    BY <1>1, <1>2, <1>5 DEF Assigned, RowsOK, RequestOK, Rows
  <1>11. row \in Rows /\ row.exists /\ row.pin = pin2 /\ row.photo = photo2
    <2>1. row = [exists |-> rows[l].exists, pin |-> pin2, photo |-> photo2]
      BY <1>5 DEF Rows
    <2>2. pin2 \in Coords \cup {None}
      BY <1>9
    <2> QED
      BY <1>2, <1>5, <1>10, <2>1, <2>2 DEF Rows
  <1>12. ts \in SUBSET Tags
    BY <1>1, <1>2, <1>5 DEF TagsAfter
  <1>13. /\ row.pin # None => row.pin \in Coords /\ row.pin.depth > 0 /\ row.pin.depth <= draws'
         /\ row.photo # None => row.photo \in bucket
    BY <1>9, <1>10, <1>11
  <1>14. /\ rows' = [rows EXCEPT ![l] = row] /\ tags' = [tags EXCEPT ![l] = ts]
         /\ Finish(p) /\ UNCHANGED <<bucket, pages>>
    BY <1>3
  <1> QED
    BY <1>2, <1>4, <1>11, <1>12, <1>13, <1>14, CommitStep

\* A form shows a pin that is stored.
LEMMA FormKeeps == ASSUME IInv, NEW l \in ListingIds, edit_listing_form(l) PROVE IInv'
  <1> USE DEF IInv
  <1>1. Jittered(rows[l].pin)
    BY DEF edit_listing_form, RowsOK
  <1>2. pages' = pages \cup {rows[l].pin} /\ UNCHANGED <<rows, tags, bucket, req, draws>>
    BY DEF edit_listing_form
  <1>3. TypeOK'
    BY <1>1, <1>2 DEF TypeOK, Jittered
  <1>4. RowsOK' /\ RequestsOK'
    BY <1>2 DEF RowsOK, RequestsOK, RequestOK, Jittered, Known
  <1>5. PagesOK'
    BY <1>1, <1>2 DEF PagesOK, Jittered
  <1> QED
    BY <1>3, <1>4, <1>5

\* The invariant is inductive.
LEMMA NextIInv == IInv /\ [Next]_vars => IInv'
  <1> SUFFICES ASSUME IInv, [Next]_vars PROVE IInv'
    OBVIOUS
  <1>1. CASE UNCHANGED vars
    BY <1>1 DEF vars, IInv, TypeOK, RowsOK, PagesOK, RequestsOK, RequestOK, Jittered, Known
  <1>2. ASSUME NEW p \in Procs, Abort(p) PROVE IInv'
    BY <1>2, FinishStep DEF Abort, IInv, TypeOK
  <1> QED
    BY <1>1, <1>2, SubmitKeeps, UploadKeeps, CreateKeeps, EditKeeps, FormKeeps DEF Next

\* The invariant holds of every behaviour.
THEOREM Inductive == Spec => []IInv
  BY Start, NextIInv, PTL DEF Spec

-----------------------------------------------------------------------------
(* Theorems. *)

\* Every variable has its type.
THEOREM TypeCorrect == Spec => []TypeOK
  BY Inductive, PTL DEF IInv

\* The exact place is never stored nor shown.
THEOREM ExactPinsAreDropped == Spec => []NoExactPin
  <1>1. IInv => NoExactPin
    BY DEF IInv, RowsOK, PagesOK, Jittered, NoExactPin
  <1> QED
    BY <1>1, Inductive, PTL

\* The photo a listing names is in the store.
THEOREM PhotosAreThere == Spec => []PhotoIsStored
  <1>1. IInv => PhotoIsStored
    BY DEF IInv, RowsOK, PhotoIsStored
  <1> QED
    BY <1>1, Inductive, PTL

\* How a step changes a listing: it is created, or an edit is committed.
LEMMA WhoWrites ==
  ASSUME IInv, [Next]_vars, NEW l \in ListingIds,
         rows'[l] # rows[l] \/ tags'[l] # tags[l]
  PROVE  \E p \in Procs :
           \/ CreateCommit(p, l) /\ rows[l] = NoRow
           \/ EditCommit(p) /\ req[p].lid = l
  <1>1. rows \in [ListingIds -> Rows] /\ tags \in [ListingIds -> SUBSET Tags]
    BY DEF IInv, TypeOK
  <1>2. ~UNCHANGED <<rows, tags>>
    OBVIOUS
  <1>3. PICK p \in Procs : EditCommit(p) \/ \E k \in ListingIds : CreateCommit(p, k)
    BY <1>2 DEF Next, vars, Submit, CreateStart, EditStart, UploadSaved, UploadFails, Abort,
                edit_listing_form
  <1>4. CASE EditCommit(p)
    <2>1. l = req[p].lid
      BY <1>1, <1>4 DEF EditCommit
    <2> QED
      BY <1>4, <2>1
  <1>5. ASSUME NEW k \in ListingIds, CreateCommit(p, k)
        PROVE  CreateCommit(p, l) /\ rows[l] = NoRow
    <2>1. k = l
      BY <1>1, <1>5 DEF CreateCommit
    <2> QED
      BY <1>5, <2>1 DEF CreateCommit, IInv, RowsOK
  <1> QED
    BY <1>3, <1>4, <1>5

\* An edit never brings back what it merely loaded.
THEOREM EditsKeepTheRest == Spec => NothingIsReverted
  <1> DEFINE Step(l) ==
         /\ rows'[l].pin # rows[l].pin =>
              rows'[l].pin # None /\ rows'[l].pin.draw = draws + 1
         /\ rows'[l].photo # rows[l].photo =>
              \E p \in Procs : /\ req[p].photo = rows'[l].photo
                               /\ req[p].row.photo # rows'[l].photo
  <1>1. ASSUME IInv, [Next]_vars, NEW l \in ListingIds PROVE Step(l)
    <2>1. rows \in [ListingIds -> Rows] /\ req \in [Procs -> Requests] /\ draws \in Nat
      BY <1>1, ListingEditAssumption DEF IInv, TypeOK, Requests
    <2>2. CASE rows'[l] = rows[l]
      BY <2>2
    <2>3. CASE rows'[l] # rows[l]
      <3>1. PICK p \in Procs : \/ CreateCommit(p, l) /\ rows[l] = NoRow
                               \/ EditCommit(p) /\ req[p].lid = l
        BY <1>1, <2>3, WhoWrites
      <3>2. RequestOK(req[p]) /\ req[p] \in Requests
        BY <1>1, <2>1 DEF IInv, RequestsOK
      <3> PICK r : r = req[p]
        OBVIOUS
      <3>3. r.coords \in Coords \cup {None} /\ r.row \in Rows
        BY <3>2 DEF Requests
      <3>4. ASSUME r.coords # None, draws < MaxDraws
            PROVE  fuzz(r.coords, draws + 1) # None /\ fuzz(r.coords, draws + 1).draw = draws + 1
        BY <2>1, <3>2, <3>3, <3>4, FuzzDraws DEF RequestOK, Known
      <3>5. CASE CreateCommit(p, l) /\ rows[l] = NoRow
        <4>1. /\ rows'[l].pin = IF r.coords # None THEN fuzz(r.coords, draws + 1) ELSE None
              /\ rows'[l].photo = r.photo
              /\ r.coords # None => draws < MaxDraws
              /\ r.lid = None
          BY <2>1, <3>5 DEF CreateCommit
        <4>2. rows[l].pin = None /\ rows[l].photo = None /\ r.row.photo = None
          BY <3>2, <3>5, <4>1 DEF NoRow, RequestOK
        <4> QED
          BY <3>4, <4>1, <4>2
      <3>6. CASE EditCommit(p) /\ req[p].lid = l
        <4> PICK pin : pin = IF ~KeepsPin(r.coords, r.row.pin)
                               THEN fuzz(r.coords, draws + 1) ELSE r.row.pin
          OBVIOUS
        <4>1. /\ rows'[l].pin = Assigned(r.row.pin, pin, rows[l].pin)
              /\ rows'[l].photo = Assigned(r.row.photo, r.photo, rows[l].photo)
              /\ ~KeepsPin(r.coords, r.row.pin) => draws < MaxDraws
          BY <2>1, <3>6 DEF EditCommit, Rows
        <4> QED
          BY <3>4, <4>1 DEF Assigned, KeepsPin
      <3> QED
        BY <3>1, <3>5, <3>6
    <2> QED
      BY <2>2, <2>3
  <1>2. IInv /\ [Next]_vars => [\A l \in ListingIds : Step(l)]_vars
    BY <1>1
  <1> QED
    BY <1>2, Inductive, PTL DEF Spec, NothingIsReverted

\* A file that was dropped stays dropped: a commit writes the photo that is there, or
\* one its own request has uploaded.
THEOREM DroppedFilesStay == Spec => DroppedStayDropped
  <1>1. ASSUME IInv, [Next]_vars, NEW f \in bucket, ~Named(f) PROVE ~Named(f)'
    <2>1. /\ rows \in [ListingIds -> Rows] /\ req \in [Procs -> Requests] /\ f \in Photos
          /\ None \notin Photos
      BY <1>1, ListingEditAssumption DEF IInv, TypeOK, Requests
    <2>2. \A l \in ListingIds : rows[l].photo # f
      BY <1>1 DEF Named
    <2>3. \A p \in Procs : req[p].photo = f => req[p].row.photo = f
      BY <1>1 DEF Named
    <2>4. ASSUME NEW l \in ListingIds PROVE rows'[l].photo # f
      <3>1. CASE rows'[l] = rows[l]
        BY <2>2, <3>1
      <3>2. CASE rows'[l] # rows[l]
        <4>1. PICK p \in Procs : \/ CreateCommit(p, l) /\ rows[l] = NoRow
                                 \/ EditCommit(p) /\ req[p].lid = l
          BY <1>1, <3>2, WhoWrites
        <4>2. CASE CreateCommit(p, l) /\ rows[l] = NoRow
          <5>1. rows'[l].photo = req[p].photo /\ req[p].lid = None
            BY <2>1, <4>2 DEF CreateCommit
          <5>2. req[p].row.photo = None
            BY <1>1, <5>1 DEF IInv, RequestsOK, RequestOK, NoRow
          <5> QED
            BY <2>1, <2>3, <5>1, <5>2
        <4>3. CASE EditCommit(p) /\ req[p].lid = l
          <5>1. rows'[l].photo = Assigned(req[p].row.photo, req[p].photo, rows[l].photo)
            BY <2>1, <4>3 DEF EditCommit, Rows
          <5> QED
            BY <2>2, <2>3, <5>1 DEF Assigned
        <4> QED
          BY <4>1, <4>2, <4>3
      <3> QED
        BY <3>1, <3>2
    <2>5. ASSUME NEW p \in Procs PROVE req'[p].photo = f => req'[p].row.photo = f
      <3>1. Idle.photo = None
        BY DEF Idle, Request
      <3>2. req'[p] = req[p] \/ req'[p] = Idle
            \/ (\E c, ts, w : CreateStart(p, c, ts, w))
            \/ (\E l \in ListingIds : \E c, ts, w : EditStart(p, l, c, ts, w))
            \/ \E g \in Photos : UploadSaved(p, g)
        <4>1. CASE UNCHANGED req
          BY <4>1
        <4>2. CASE req' # req
          <5>1. PICK q \in Procs :
                  \/ Submit(q)
                  \/ \E g \in Photos : UploadSaved(q, g) \/ UploadFails(q, g)
                  \/ \E l \in ListingIds : CreateCommit(q, l)
                  \/ EditCommit(q)
                  \/ Abort(q)
            BY <1>1, <4>2 DEF Next, vars, edit_listing_form
          <5>2. CASE Finish(q)
            BY <2>1, <5>2 DEF Finish
          <5>3. CASE Submit(q)
            <6>1. CASE q = p
              BY <5>3, <6>1 DEF Submit
            <6>2. CASE q # p
              BY <2>1, <5>3, <6>2 DEF Submit, CreateStart, EditStart
            <6> QED
              BY <6>1, <6>2
          <5>4. ASSUME NEW g \in Photos, UploadSaved(q, g)
                PROVE  req'[p] = req[p] \/ UploadSaved(p, g)
            BY <2>1, <5>4 DEF UploadSaved
          <5> QED
            BY <5>1, <5>2, <5>3, <5>4 DEF UploadFails, CreateCommit, EditCommit, Abort
        <4> QED
          BY <4>1, <4>2
      <3>3. ASSUME NEW c, NEW ts, NEW w, CreateStart(p, c, ts, w) PROVE req'[p].photo = None
        BY <2>1, <3>3 DEF CreateStart, Request
      <3>4. ASSUME NEW l \in ListingIds, NEW c, NEW ts, NEW w, EditStart(p, l, c, ts, w)
            PROVE  req'[p].photo = req'[p].row.photo
        BY <2>1, <3>4 DEF EditStart, Request
      <3>5. ASSUME NEW g \in Photos, UploadSaved(p, g) PROVE req'[p].photo # f
        <4>1. req'[p].photo = g
          BY <2>1, <3>5 DEF UploadSaved, Requests
        <4>2. g \notin bucket
          BY <3>5 DEF UploadSaved, FreshName
        <4> QED
          BY <1>1, <4>1, <4>2
      <3> QED
        BY <2>1, <2>3, <3>1, <3>2, <3>3, <3>4, <3>5
    <2> QED
      BY <2>4, <2>5 DEF Named
  <1>2. IInv /\ [Next]_vars => [\A f \in bucket : ~Named(f) => ~Named(f)']_vars
    BY <1>1
  <1> QED
    BY <1>2, Inductive, PTL DEF Spec, DroppedStayDropped

\* An edit alone leaves exactly the tags that were submitted.
THEOREM TagsAreReplaced == Spec => EditReplacesTags
  <1>1. ASSUME IInv, NEW p \in Procs, EditCommit(p), tags[req[p].lid] = req[p].seen
        PROVE  tags'[req[p].lid] = req[p].chosen
    <2>1. req[p].lid \in ListingIds /\ tags \in [ListingIds -> SUBSET Tags]
      BY <1>1 DEF IInv, TypeOK, EditCommit
    <2>2. tags'[req[p].lid] = TagsAfter(req[p].seen, req[p].chosen, tags[req[p].lid])
      BY <1>1, <2>1 DEF EditCommit
    <2> QED
      BY <1>1, <2>2 DEF TagsAfter
  <1>2. IInv /\ [Next]_vars =>
          [\A p \in Procs : EditCommit(p) /\ tags[req[p].lid] = req[p].seen
             => tags'[req[p].lid] = req[p].chosen]_vars
    BY <1>1
  <1> QED
    BY <1>2, Inductive, PTL DEF Spec, EditReplacesTags

\* Only an overlap of two edits takes the last tag away: somebody always chose one.
THEOREM TagsAreKept == Spec => UntaggedOnlyByOverlap
  <1>1. ASSUME IInv, [Next]_vars, NEW l \in ListingIds,
               rows'[l].exists, tags'[l] = {}, tags'[l] # tags[l]
        PROVE  \E p \in Procs : EditCommit(p) /\ req[p].lid = l /\ req[p].seen # tags[l]
    <2>1. PICK p \in Procs : \/ CreateCommit(p, l) /\ rows[l] = NoRow
                             \/ EditCommit(p) /\ req[p].lid = l
      BY <1>1, WhoWrites
    <2>2. tags \in [ListingIds -> SUBSET Tags] /\ RequestOK(req[p])
      BY <1>1 DEF IInv, TypeOK, RequestsOK
    <2>3. CASE CreateCommit(p, l)
      <3>1. tags'[l] = req[p].chosen /\ req[p].pc = "write"
        BY <2>2, <2>3 DEF CreateCommit, At
      <3> QED
        BY <1>1, <2>2, <3>1 DEF RequestOK
    <2>4. CASE EditCommit(p) /\ req[p].lid = l
      <3>1. tags'[l] = TagsAfter(req[p].seen, req[p].chosen, tags[l]) /\ req[p].pc = "write"
        BY <2>2, <2>4 DEF EditCommit, At
      <3>2. req[p].chosen # {}
        BY <2>2, <3>1 DEF RequestOK
      <3>3. req[p].seen # tags[l]
        BY <1>1, <3>1, <3>2 DEF TagsAfter
      <3> QED
        BY <2>4, <3>3
    <2> QED
      BY <2>1, <2>3, <2>4
  <1>2. IInv /\ [Next]_vars =>
          [\A l \in ListingIds :
             rows'[l].exists /\ tags'[l] = {} /\ tags'[l] # tags[l]
               => \E p \in Procs : EditCommit(p) /\ req[p].lid = l /\ req[p].seen # tags[l]]_vars
    BY <1>1
  <1> QED
    BY <1>2, Inductive, PTL DEF Spec, UntaggedOnlyByOverlap

-----------------------------------------------------------------------------
(* What would make an edit exact.                                          *)
(*                                                                         *)
(* Overlapping edits may leave a mixture of tags, or none, and an old form *)
(* may have a pin jittered twice.  What the code would have to exclude is  *)
(* named here, and no more of it than the conclusion needs.                *)

\* No two edits of one listing are in flight together.
EditsApart ==
    \A p, q \in Procs : req[p].lid # None /\ req[p].lid = req[q].lid => p = q

\* A form that carries a pin carries the one its listing had when it was submitted.
FormsCurrent ==
    \A p \in Procs :
        req[p].lid # None /\ req[p].coords \in pages => req[p].coords = req[p].row.pin

\* What an edit has loaded is what the tables hold.
LoadedIsCurrent ==
    \A p \in Procs : req[p].lid # None =>
        req[p].row = rows[req[p].lid] /\ req[p].seen = tags[req[p].lid]

\* Every listing has a tag.
Tagged == \A l \in ListingIds : rows[l].exists => tags[l] # {}

\* What a step does to a request: nothing that matters here, or it ends, or it is the
\* beginning of a new listing or of an edit.
LEMMA Requested ==
  ASSUME IInv, [Next]_vars, NEW q \in Procs
  PROVE  \/ /\ req'[q].lid = req[q].lid /\ req'[q].row = req[q].row
            /\ req'[q].seen = req[q].seen /\ req'[q].coords = req[q].coords
            /\ req'[q].chosen = req[q].chosen
         \/ req'[q].lid = None /\ req'[q].coords \in NewCoords
         \/ /\ req'[q].lid \in ListingIds /\ req'[q].coords \in EditCoords
            /\ req'[q].row = rows[req'[q].lid] /\ req'[q].seen = tags[req'[q].lid]
            /\ UNCHANGED <<rows, tags, pages>>
  <1> DEFINE Ok ==
         \/ /\ req'[q].lid = req[q].lid /\ req'[q].row = req[q].row
            /\ req'[q].seen = req[q].seen /\ req'[q].coords = req[q].coords
            /\ req'[q].chosen = req[q].chosen
         \/ req'[q].lid = None /\ req'[q].coords \in NewCoords
         \/ /\ req'[q].lid \in ListingIds /\ req'[q].coords \in EditCoords
            /\ req'[q].row = rows[req'[q].lid] /\ req'[q].seen = tags[req'[q].lid]
            /\ UNCHANGED <<rows, tags, pages>>
  <1>0. req \in [Procs -> Requests]
    BY DEF IInv, TypeOK, Requests
  <1>1. CASE req' = req
    BY <1>1
  <1>2. ASSUME NEW p \in Procs, Finish(p) PROVE Ok
    <2>1. Idle.lid = None /\ Idle.coords = None
      BY DEF Idle, Request
    <2> QED
      BY <1>0, <1>2, <2>1 DEF Finish, NewCoords
  <1>3. ASSUME NEW p \in Procs, Submit(p) PROVE Ok
    <2>1. PICK ts \in SUBSET Tags \cup {{Junk}}, withPhoto \in BOOLEAN :
             \/ \E c \in NewCoords : CreateStart(p, c, ts, withPhoto)
             \/ \E l \in ListingIds, c \in EditCoords : EditStart(p, l, c, ts, withPhoto)
      BY <1>3 DEF Submit
    <2>2. ASSUME NEW c \in NewCoords, CreateStart(p, c, ts, withPhoto) PROVE Ok
      BY <1>0, <2>2 DEF CreateStart, Request
    <2>3. ASSUME NEW l \in ListingIds, NEW c \in EditCoords, EditStart(p, l, c, ts, withPhoto)
          PROVE  Ok
      BY <1>0, <2>3 DEF EditStart, Request
    <2> QED
      BY <2>1, <2>2, <2>3
  <1>4. ASSUME NEW p \in Procs, NEW f \in Photos, UploadSaved(p, f) PROVE Ok
    BY <1>0, <1>4 DEF UploadSaved, Requests
  <1> QED
    BY <1>1, <1>2, <1>3, <1>4
       DEF Next, vars, edit_listing_form, UploadFails, CreateCommit, EditCommit, Abort

\* A step of somebody else changes no listing that an edit has loaded.
LEMMA LoadedPreserved == IInv /\ EditsApart /\ LoadedIsCurrent /\ [Next]_vars => LoadedIsCurrent'
  <1> SUFFICES ASSUME IInv, EditsApart, LoadedIsCurrent, [Next]_vars,
                      NEW p \in Procs, req'[p].lid # None
               PROVE  req'[p].row = rows'[req'[p].lid] /\ req'[p].seen = tags'[req'[p].lid]
    BY DEF LoadedIsCurrent
  <1>1. CASE req'[p].lid = req[p].lid /\ req'[p].row = req[p].row /\ req'[p].seen = req[p].seen
    <2>1. /\ req[p].lid \in ListingIds /\ rows[req[p].lid].exists
          /\ req[p].row = rows[req[p].lid] /\ req[p].seen = tags[req[p].lid]
      BY <1>1 DEF IInv, TypeOK, LoadedIsCurrent
    <2>2. ASSUME NEW q \in Procs, CreateCommit(q, req[p].lid) PROVE FALSE
      BY <2>1, <2>2 DEF CreateCommit
    <2>3. ASSUME NEW q \in Procs, EditCommit(q), req[q].lid = req[p].lid PROVE FALSE
      <3>1. q = p
        BY <1>1, <2>3 DEF EditsApart
      <3>2. req'[p] = Idle
        BY <2>3, <3>1 DEF EditCommit, Finish, IInv, TypeOK
      <3> QED
        BY <3>2, IdleOK
    <2> QED
      BY <1>1, <2>1, <2>2, <2>3, WhoWrites
  <1> QED
    BY <1>1, Requested

\* What a commit of an edit writes, when nothing it loaded has changed since.
LEMMA ExactEdit ==
  ASSUME IInv, LoadedIsCurrent, NEW p \in Procs, EditCommit(p), NEW l, l = req[p].lid
  PROVE  /\ l \in ListingIds
         /\ tags'[l] = req[p].chosen /\ req[p].chosen # {}
         /\ rows'[l].photo = req[p].photo
         /\ rows'[l].pin = IF KeepsPin(req[p].coords, rows[l].pin)
                             THEN rows[l].pin ELSE fuzz(req[p].coords, draws + 1)
  <1> PICK r : r = req[p]
    OBVIOUS
  <1>1. /\ l \in ListingIds /\ rows \in [ListingIds -> Rows] /\ tags \in [ListingIds -> SUBSET Tags]
        /\ r.row = rows[l] /\ r.seen = tags[l] /\ RequestOK(r) /\ r.pc = "write"
    BY DEF IInv, TypeOK, EditCommit, LoadedIsCurrent, RequestsOK, At
  <1> PICK pin : pin = IF ~KeepsPin(r.coords, r.row.pin)
                         THEN fuzz(r.coords, draws + 1) ELSE r.row.pin
    OBVIOUS
  <1>2. /\ rows'[l].pin = Assigned(r.row.pin, pin, rows[l].pin)
        /\ rows'[l].photo = Assigned(r.row.photo, r.photo, rows[l].photo)
        /\ tags'[l] = TagsAfter(r.seen, r.chosen, tags[l])
    BY <1>1 DEF EditCommit, Rows
  <1>3. tags'[l] = r.chosen /\ r.chosen # {}
    BY <1>1, <1>2 DEF TagsAfter, RequestOK
  <1> QED
    BY <1>1, <1>2, <1>3 DEF Assigned

\* Edits apart find the listing as they loaded it.
LEMMA LoadedInductive == Spec /\ []EditsApart => []LoadedIsCurrent
  <1>1. Init => LoadedIsCurrent
    BY IdleOK DEF Init, LoadedIsCurrent
  <1> QED
    BY <1>1, LoadedPreserved, Inductive, PTL DEF Spec

\* With the edits of one listing one after the other, an edit that is committed leaves
\* exactly what its form said: the submitted tags and photo, and the stored pin unless
\* the form moves it (edit_listing).
THEOREM EditsApartAreExact ==
  Spec /\ []EditsApart =>
    [][\A p \in Procs : EditCommit(p) =>
         /\ tags'[req[p].lid] = req[p].chosen
         /\ rows'[req[p].lid].photo = req[p].photo
         /\ KeepsPin(req[p].coords, rows[req[p].lid].pin)
              => rows'[req[p].lid].pin = rows[req[p].lid].pin]_vars
  <1> DEFINE Exact1(p) ==
         EditCommit(p) =>
           /\ tags'[req[p].lid] = req[p].chosen
           /\ rows'[req[p].lid].photo = req[p].photo
           /\ KeepsPin(req[p].coords, rows[req[p].lid].pin)
                => rows'[req[p].lid].pin = rows[req[p].lid].pin
  <1>1. ASSUME IInv, LoadedIsCurrent, NEW p \in Procs PROVE Exact1(p)
    BY <1>1, ExactEdit
  <1>2. IInv /\ LoadedIsCurrent /\ [Next]_vars => [\A p \in Procs : Exact1(p)]_vars
    BY <1>1
  <1> QED
    BY <1>2, LoadedInductive, Inductive, PTL DEF Spec

\* With the edits of one listing one after the other, no edit is refused for its tags,
\* and no listing is ever without one, so that every search by tags can find it.
THEOREM EditsApartKeepATag ==
  Spec /\ []EditsApart =>
    []/\ \A l \in ListingIds : rows[l].exists => tags[l] # {}
      /\ \A p \in Procs :
           req[p].lid # None => ~TagsCollide(req[p].seen, req[p].chosen, tags[req[p].lid])
  <1>1. Init => Tagged
    BY DEF Init, Tagged, NoRow
  <1>2. ASSUME IInv, LoadedIsCurrent, Tagged, [Next]_vars, NEW l \in ListingIds,
               rows'[l].exists
        PROVE  tags'[l] # {}
    <2>1. CASE rows'[l] = rows[l] /\ tags'[l] = tags[l]
      BY <1>2, <2>1 DEF Tagged
    <2>2. ASSUME NEW p \in Procs, CreateCommit(p, l) PROVE tags'[l] # {}
      <3>1. tags'[l] = req[p].chosen /\ req[p].pc = "write" /\ RequestOK(req[p])
        BY <1>2, <2>2 DEF CreateCommit, At, IInv, TypeOK, RequestsOK
      <3> QED
        BY <3>1 DEF RequestOK
    <2>3. ASSUME NEW p \in Procs, EditCommit(p), req[p].lid = l PROVE tags'[l] # {}
      BY <1>2, <2>3, ExactEdit
    <2> QED
      BY <1>2, <2>1, <2>2, <2>3, WhoWrites
  <1>3. IInv /\ LoadedIsCurrent /\ Tagged /\ [Next]_vars => Tagged'
    BY <1>2 DEF Tagged
  <1>4. IInv /\ LoadedIsCurrent /\ Tagged =>
          /\ \A l \in ListingIds : rows[l].exists => tags[l] # {}
          /\ \A p \in Procs :
               req[p].lid # None => ~TagsCollide(req[p].seen, req[p].chosen, tags[req[p].lid])
    BY DEF Tagged, LoadedIsCurrent, TagsCollide
  <1> QED
    BY <1>1, <1>3, <1>4, LoadedInductive, Inductive, PTL DEF Spec

-----------------------------------------------------------------------------
(* Old forms. *)

\* Pins were jittered once, and what a request brings was jittered at most when it
\* came from a page.
OnceOK ==
    /\ JitteredOnce
    /\ \A p \in Procs : req[p].coords # None /\ req[p].coords.depth > 0 =>
         req[p].lid # None /\ req[p].coords \in pages

\* A coordinate drawn from an exact one is drawn once, from forms that are current.
LEMMA OncePreserved == IInv /\ FormsCurrent /\ OnceOK /\ [Next]_vars => OnceOK'
  <1> SUFFICES ASSUME IInv, FormsCurrent, OnceOK, [Next]_vars PROVE OnceOK'
    OBVIOUS
  <1>1. \A c \in NewCoords : c # None => c.depth = 0
    BY DEF NewCoords, Exact
  <1>2. pages \subseteq pages'
    BY DEF Next, vars, Submit, CreateStart, EditStart, UploadSaved, UploadFails,
           CreateCommit, EditCommit, edit_listing_form, Abort
  <1>3. ASSUME NEW p \in Procs, req'[p].coords # None, req'[p].coords.depth > 0
        PROVE  req'[p].lid # None /\ req'[p].coords \in pages'
    BY <1>1, <1>2, <1>3, Requested, ListingEditAssumption DEF OnceOK, EditCoords
  <1>4. ASSUME NEW c \in Coords, c.depth <= 0, draws < MaxDraws
        PROVE  fuzz(c, draws + 1).depth <= 1
    <2>1. /\ c.depth = 0 /\ 1 \in 0 .. MaxDraws /\ draws + 1 \in 0 .. MaxDraws
      BY <1>4, ListingEditAssumption DEF IInv, TypeOK, Coords
    <2> QED
      BY <2>1 DEF fuzz, Coords
  <1>5. ASSUME NEW l \in ListingIds, rows'[l].pin # None PROVE rows'[l].pin.depth <= 1
    <2>1. CASE rows'[l] = rows[l]
      BY <1>5, <2>1 DEF OnceOK, JitteredOnce
    <2>2. CASE rows'[l] # rows[l]
      <3>1. PICK p \in Procs : \/ CreateCommit(p, l) /\ rows[l] = NoRow
                               \/ EditCommit(p) /\ req[p].lid = l
        BY <2>2, WhoWrites
      <3> PICK r : r = req[p]
        OBVIOUS
      <3>2. /\ r.coords \in Coords \cup {None} /\ rows \in [ListingIds -> Rows]
            /\ r.coords # None => r.coords.depth \in Nat
        BY DEF IInv, TypeOK, Coords
      <3>3. CASE CreateCommit(p, l)
        <4>1. /\ rows'[l].pin = IF r.coords # None THEN fuzz(r.coords, draws + 1) ELSE None
              /\ r.coords # None => draws < MaxDraws
              /\ r.lid = None
          BY <3>2, <3>3 DEF CreateCommit
        <4>2. r.coords # None /\ r.coords.depth <= 0
          BY <1>5, <3>2, <4>1 DEF OnceOK
        <4> QED
          BY <1>4, <3>2, <4>1, <4>2
      <3>4. CASE EditCommit(p) /\ req[p].lid = l
        <4> PICK pin : pin = IF ~KeepsPin(r.coords, r.row.pin)
                               THEN fuzz(r.coords, draws + 1) ELSE r.row.pin
          OBVIOUS
        <4>1. /\ rows'[l].pin = Assigned(r.row.pin, pin, rows[l].pin)
              /\ ~KeepsPin(r.coords, r.row.pin) => draws < MaxDraws
              /\ r.lid # None
          BY <3>2, <3>4 DEF EditCommit, Rows
        <4>2. CASE KeepsPin(r.coords, r.row.pin)
          BY <1>5, <4>1, <4>2 DEF Assigned, OnceOK, JitteredOnce
        <4>3. CASE ~KeepsPin(r.coords, r.row.pin)
          <5>1. r.coords # None /\ r.coords # r.row.pin
            BY <4>3 DEF KeepsPin
          <5>2. r.coords \notin pages
            BY <4>1, <5>1 DEF FormsCurrent
          <5>3. r.coords.depth <= 0
            BY <3>2, <5>1, <5>2 DEF OnceOK
          <5>4. pin.depth <= 1
            BY <1>4, <3>2, <4>1, <4>3, <5>1, <5>3
          <5> QED
            BY <1>5, <4>1, <5>4 DEF Assigned, OnceOK, JitteredOnce
        <4> QED
          BY <4>2, <4>3
      <3> QED
        BY <3>1, <3>3, <3>4
    <2> QED
      BY <2>1, <2>2
  <1> QED
    BY <1>3, <1>5 DEF OnceOK, JitteredOnce

\* With no form older than the pin it carries, a pin is jittered once, as the comment
\* in edit_listing means it; edits may still overlap in every other way.
THEOREM CurrentFormsJitterOnce == Spec /\ []FormsCurrent => []JitteredOnce
  <1>1. Init => OnceOK
    BY DEF Init, OnceOK, JitteredOnce, NoRow, Idle, Request
  <1>2. OnceOK => JitteredOnce
    BY DEF OnceOK
  <1> QED
    BY <1>1, <1>2, OncePreserved, Inductive, PTL DEF Spec
=============================================================================
