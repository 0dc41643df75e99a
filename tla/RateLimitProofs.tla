-------------------------- MODULE RateLimitProofs ---------------------------
(***************************************************************************)
(* Proofs about RateLimit, for any limit, any finite set of workers and    *)
(* any set of keys.                                                        *)
(***************************************************************************)
EXTENDS RateLimit, FiniteSetTheorems, TLAPS

-----------------------------------------------------------------------------
(* The inductive invariant. *)

\* The workers whose commit will make the table longer: they have counted, found
\* room, and have deleted nothing that would make up for the row they add.
Growing == {p \in Procs : At(p, "admit") /\ check[p].locked = {}}

\* No more than k checks are between a count that found room and their INSERT.
Together(k) == Cardinality(Growing) <= k

\* Every row in the table, or about to be, was let in by a count below the limit,
\* and after the table reached the limit only the checks that had counted by then,
\* k of them at most, can still add theirs.
Room(k) ==
    /\ IsFiniteSet(hits)
    /\ Cardinality(hits) + Cardinality(Growing) <= Limit - 1 + k

RoomOK == Room(Cardinality(Procs))

\* Every request within the window has its row, and so is counted.
WindowKept == window \subseteq hits

\* What a check knows of the rows, up to its commit: those it takes for old are, and
\* those it has deleted no other check has.
ViewsOK ==
    /\ \A p \in Procs :
         /\ check[p].pc \in {"idle", "begun"} => check[p].locked = {}
         /\ check[p].doomed \cap window = {}
    /\ \A p, q \in Procs : p # q => check[p].locked \cap check[q].locked = {}

IInv == TypeOK /\ RoomOK /\ WindowKept /\ ViewsOK /\ OldHitsNotCounted

-----------------------------------------------------------------------------
(* Cardinalities. *)

\* Growing is part of Procs, and so finite.
LEMMA GrowingFinite ==
    /\ IsFiniteSet(Growing)
    /\ Cardinality(Growing) \in Nat
    /\ Cardinality(Growing) <= Cardinality(Procs)
    /\ Cardinality(Procs) \in Nat
  <1>1. Growing \subseteq Procs /\ IsFiniteSet(Procs)
    BY RateLimitAssumption DEF Growing
  <1> QED BY <1>1, FS_Subset, FS_CardinalityType

\* The bound holds of the empty table, and is a bound on the hits.
LEMMA RoomStart == ASSUME NEW N \in Nat, Init PROVE Room(N)
  <1>1. Growing = {}
    BY DEF Init, Growing, At, Idle, Check
  <1>2. IsFiniteSet(hits) /\ Cardinality(hits) = 0 /\ Cardinality(Growing) = 0
    BY <1>1, FS_EmptySet DEF Init
  <1> QED BY <1>2, RateLimitAssumption DEF Room

\* The room left for checks under way bounds the rows that are there.
LEMMA RoomBounds == ASSUME NEW N \in Nat, Room(N) PROVE Cardinality(hits) <= Limit - 1 + N
  <1>1. Cardinality(hits) \in Nat /\ Cardinality(Growing) \in Nat
    BY GrowingFinite, FS_CardinalityType DEF Room
  <1> QED BY <1>1, RateLimitAssumption DEF Room

\* Taking a non-empty part of a set away and adding one element does not make the
\* set longer.
LEMMA ReplaceBound ==
    ASSUME NEW S, NEW D, NEW i, IsFiniteSet(S), D \subseteq S, D # {}
    PROVE  /\ IsFiniteSet((S \ D) \cup {i})
           /\ Cardinality((S \ D) \cup {i}) <= Cardinality(S)
  <1>1. PICK x \in D : TRUE
    OBVIOUS
  <1>2. IsFiniteSet(S \ {x}) /\ Cardinality(S \ {x}) = Cardinality(S) - 1
    BY <1>1, FS_RemoveElement
  <1>3. S \ D \subseteq S \ {x}
    BY <1>1
  <1>4. IsFiniteSet(S \ D) /\ Cardinality(S \ D) <= Cardinality(S) - 1
    BY <1>2, <1>3, FS_Subset
  <1>5. Cardinality(S \ D) \in Nat /\ Cardinality(S) \in Nat
    BY <1>4, FS_CardinalityType
  <1> DEFINE T == S \ D
  <1>6. IsFiniteSet(T \cup {i}) /\ Cardinality(T \cup {i}) <= Cardinality(T) + 1
    <2>1. IsFiniteSet(T) /\ Cardinality(T) \in Nat
      BY <1>4, <1>5
    <2> HIDE DEF T
    <2> QED BY <2>1, FS_AddElement
  <1>7. Cardinality((S \ D) \cup {i}) \in Nat
    BY <1>6, FS_CardinalityType
  <1> QED BY <1>4, <1>5, <1>6, <1>7

\* The invariant holds of the empty table.
LEMMA InitIInv == Init => IInv
  <1> SUFFICES ASSUME Init PROVE IInv
    OBVIOUS
  <1>1. TypeOK
    BY DEF Init, TypeOK, Idle, Check
  <1>2. WindowKept /\ ViewsOK /\ OldHitsNotCounted
    BY DEF Init, WindowKept, ViewsOK, OldHitsNotCounted, Idle, Check, Seen
  <1>3. RoomOK
    BY GrowingFinite, RoomStart DEF RoomOK
  <1> QED BY <1>1, <1>2, <1>3 DEF IInv

\* Every step of a check keeps the types.
LEMMA TypePreserved == IInv /\ [Next]_vars => TypeOK'
  <1> SUFFICES ASSUME IInv, [Next]_vars PROVE TypeOK'
    OBVIOUS
  <1> USE DEF IInv, TypeOK, Check, Idle, At
  <1>1. ASSUME NEW p \in Procs, Begin(p) PROVE TypeOK'
    BY <1>1 DEF Begin, Doomed
  <1>2. ASSUME NEW p \in Procs, DeleteExpired(p) PROVE TypeOK'
    BY <1>2 DEF DeleteExpired
  <1>3. ASSUME NEW p \in Procs, CountHits(p) PROVE TypeOK'
    BY <1>3 DEF CountHits
  <1>4. ASSUME NEW p \in Procs, Refuse(p) PROVE TypeOK'
    BY <1>4 DEF Refuse, Seen, ViewsOK
  <1>5. ASSUME NEW p \in Procs, Admit(p) PROVE TypeOK'
    BY <1>5 DEF Admit, Seen, Unused, ViewsOK
  <1>6. ASSUME NEW p \in Procs, Abort(p) PROVE TypeOK'
    BY <1>6 DEF Abort
  <1>7. ASSUME NEW h \in window, Expire(h) PROVE TypeOK'
    BY <1>7 DEF Expire
  <1>8. CASE UNCHANGED vars
    BY <1>8 DEF vars
  <1> QED
    BY <1>1, <1>2, <1>3, <1>4, <1>5, <1>6, <1>7, <1>8 DEF Next, Proceed

\* What the checks know of the rows stays true, and no row goes before its time.
LEMMA ViewsPreserved ==
    IInv /\ [Next]_vars => (WindowKept /\ ViewsOK /\ OldHitsNotCounted)'
  <1> DEFINE V == WindowKept /\ ViewsOK /\ OldHitsNotCounted
  <1> SUFFICES ASSUME IInv, [Next]_vars PROVE V'
    OBVIOUS
  <1> USE DEF IInv, TypeOK, WindowKept, ViewsOK, OldHitsNotCounted, Check, Idle, At, Seen
  <1>1. ASSUME NEW p \in Procs, Begin(p) PROVE V'
    BY <1>1 DEF Begin, Doomed
  <1>2. ASSUME NEW p \in Procs, DeleteExpired(p) PROVE V'
    BY <1>2 DEF DeleteExpired
  <1>3. ASSUME NEW p \in Procs, CountHits(p) PROVE V'
    BY <1>3 DEF CountHits
  <1>4. ASSUME NEW p \in Procs, Refuse(p) PROVE V'
    BY <1>4 DEF Refuse
  <1>5. ASSUME NEW p \in Procs, Admit(p) PROVE V'
    BY <1>5 DEF Admit, Unused
  <1>6. ASSUME NEW p \in Procs, Abort(p) PROVE V'
    BY <1>6 DEF Abort
  <1>7. ASSUME NEW h \in window, Expire(h) PROVE V'
    BY <1>7 DEF Expire
  <1>8. CASE UNCHANGED vars
    BY <1>8 DEF vars
  <1> QED
    BY <1>1, <1>2, <1>3, <1>4, <1>5, <1>6, <1>7, <1>8 DEF Next, Proceed

\* The table and the checks about to lengthen it stay within the bound, as long as no
\* more than N checks are about to.
LEMMA RoomKept ==
    ASSUME NEW N \in Nat, TypeOK, Room(N), Together(N)', [Next]_vars
    PROVE  Room(N)'
  <1>1. /\ IsFiniteSet(hits) /\ Cardinality(hits) \in Nat
        /\ Cardinality(hits) + Cardinality(Growing) <= Limit - 1 + N
        /\ IsFiniteSet(Growing) /\ Cardinality(Growing) \in Nat /\ N \in Nat /\ Limit \in Nat
    BY GrowingFinite, FS_CardinalityType, RateLimitAssumption DEF Room
  <1>2. IsFiniteSet(Growing') /\ Cardinality(Growing') \in Nat /\ Cardinality(Growing') <= N
    <2>1. Growing' \subseteq Procs /\ IsFiniteSet(Procs)
      BY RateLimitAssumption DEF Growing
    <2> QED BY <2>1, FS_Subset, FS_CardinalityType DEF Together
  \* Steps that leave the table and make nobody grow.
  <1>3. ASSUME UNCHANGED hits, Growing' \subseteq Growing PROVE Room(N)'
    <2>1. Cardinality(Growing') <= Cardinality(Growing)
      BY <1>1, <1>3, FS_Subset
    <2> QED BY <1>1, <1>2, <1>3, <2>1 DEF Room
  <1> USE DEF Check, Idle, At
  <1>4. ASSUME NEW p \in Procs, Begin(p) \/ DeleteExpired(p) \/ Abort(p) PROVE Room(N)'
    <2>1. UNCHANGED hits /\ Growing' \subseteq Growing
      BY <1>4 DEF Begin, DeleteExpired, Abort, Growing, TypeOK
    <2> QED BY <1>3, <2>1
  <1>5. ASSUME NEW p \in Procs, CountHits(p) PROVE Room(N)'
    <2>1. CASE p \in Growing'
      <3>1. check[p].locked = {} /\ ~Full(p)
        BY <1>5, <2>1 DEF CountHits, Growing, TypeOK
      <3>2. Seen(p) = hits
        BY <3>1 DEF Seen
      <3>3. Cardinality(hits) <= Limit - 1
        BY <1>1, <3>1, <3>2 DEF Full
      <3>4. hits' = hits
        BY <1>5 DEF CountHits
      <3> QED BY <1>1, <1>2, <3>3, <3>4 DEF Room
    <2>2. CASE p \notin Growing'
      <3>1. UNCHANGED hits /\ Growing' \subseteq Growing
        BY <1>5, <2>2 DEF CountHits, Growing, TypeOK
      <3> QED BY <1>3, <3>1
    <2> QED BY <2>1, <2>2
  <1>6. ASSUME NEW p \in Procs, Refuse(p) PROVE Room(N)'
    <2>1. hits' \subseteq hits /\ Growing' \subseteq Growing
      BY <1>6 DEF Refuse, Seen, Growing, TypeOK
    <2>2. /\ IsFiniteSet(hits') /\ Cardinality(hits') <= Cardinality(hits)
          /\ Cardinality(Growing') <= Cardinality(Growing)
      BY <1>1, <2>1, FS_Subset
    <2>3. Cardinality(hits') \in Nat
      BY <2>2, FS_CardinalityType
    <2> QED BY <1>1, <1>2, <2>2, <2>3 DEF Room
  <1>7. ASSUME NEW p \in Procs, Admit(p) PROVE Room(N)'
    <2>1. PICK i \in Unused : hits' = Seen(p) \cup {i}
      BY <1>7 DEF Admit
    <2>2. Growing' = Growing \ {p}
      BY <1>7 DEF Admit, Growing, TypeOK
    <2>3. CASE check[p].locked = {}
      <3>1. hits' = hits \cup {i} /\ p \in Growing
        BY <1>7, <2>1, <2>3 DEF Admit, Seen, Growing
      <3>2. Cardinality(Growing') = Cardinality(Growing) - 1
        BY <1>1, <2>2, <3>1, FS_RemoveElement
      <3>3. IsFiniteSet(hits') /\ Cardinality(hits') <= Cardinality(hits) + 1
        <4>1. /\ IsFiniteSet(hits \cup {i})
              /\ Cardinality(hits \cup {i}) = Cardinality(hits)
                 \/ Cardinality(hits \cup {i}) = Cardinality(hits) + 1
          BY <1>1, FS_AddElement
        <4> QED BY <1>1, <3>1, <4>1
      <3>4. Cardinality(hits') \in Nat
        BY <3>3, FS_CardinalityType
      <3> QED BY <1>1, <1>2, <3>2, <3>3, <3>4 DEF Room
    <2>4. CASE check[p].locked # {}
      <3>1. check[p].locked \subseteq hits
        BY DEF TypeOK
      <3>2. hits' = (hits \ check[p].locked) \cup {i}
        BY <2>1 DEF Seen
      <3>3. IsFiniteSet(hits') /\ Cardinality(hits') <= Cardinality(hits)
        BY <1>1, <2>4, <3>1, <3>2, ReplaceBound
      <3>4. Cardinality(hits') \in Nat
        BY <3>3, FS_CardinalityType
      <3>5. Cardinality(Growing') <= Cardinality(Growing)
        BY <1>1, <2>2, FS_Subset
      <3> QED BY <1>1, <1>2, <3>3, <3>4, <3>5 DEF Room
    <2> QED BY <2>3, <2>4
  <1>8. ASSUME NEW h \in window, Expire(h) PROVE Room(N)'
    <2>1. UNCHANGED hits /\ Growing' \subseteq Growing
      BY <1>8 DEF Expire, Growing
    <2> QED BY <1>3, <2>1
  <1>9. CASE UNCHANGED vars
    <2>1. UNCHANGED hits /\ Growing' \subseteq Growing
      BY <1>9 DEF vars, Growing
    <2> QED BY <1>3, <2>1
  <1> QED
    BY <1>4, <1>5, <1>6, <1>7, <1>8, <1>9 DEF Next, Proceed

\* There are never more checks about to add a hit than workers.
LEMMA RoomPreserved == IInv /\ [Next]_vars => RoomOK'
  <1> SUFFICES ASSUME IInv, [Next]_vars PROVE RoomOK'
    OBVIOUS
  <1> PICK N \in Nat : N = Cardinality(Procs)
    BY GrowingFinite
  <1>1. Growing' \subseteq Procs
    BY DEF Growing
  <1>2. Together(N)'
    BY <1>1, FS_Subset, RateLimitAssumption DEF Together
  <1> QED BY <1>2, RoomKept DEF IInv, RoomOK

-----------------------------------------------------------------------------
(* The theorems. *)

\* The invariant is inductive.
LEMMA NextIInv == IInv /\ [Next]_vars => IInv'
  BY TypePreserved, ViewsPreserved, RoomPreserved DEF IInv

\* The inductive invariant holds in every reachable state.
THEOREM Inductive == Spec => []IInv
  BY InitIInv, NextIInv, PTL DEF Spec

\* Every variable keeps its type, and only rows that exist are locked.
THEOREM TypeCorrect == Spec => []TypeOK
  <1>1. IInv => TypeOK
    BY DEF IInv
  <1> QED BY <1>1, Inductive, PTL

\* The table of a bucket never grows beyond the limit by more than the workers
\* that can have counted together, less one: on one worker the limit is exact.
THEOREM Overshoot == Spec => []BoundedOvershoot
  <1>1. IInv => BoundedOvershoot
    <2> SUFFICES ASSUME IInv PROVE BoundedOvershoot
      OBVIOUS
    <2>1. Cardinality(hits) \in Nat
      BY FS_CardinalityType DEF IInv, RoomOK, Room
    <2> QED BY <2>1, GrowingFinite, RateLimitAssumption DEF IInv, RoomOK, Room, BoundedOvershoot
  <1> QED BY <1>1, Inductive, PTL

\* No more than Limit - 1 + |Procs| requests are let in within one window: the rows
\* bound them, since a row outlives its request's time in the window.
THEOREM WindowIsBounded == Spec => []WindowBound
  <1>1. IInv => WindowBound
    <2> SUFFICES ASSUME IInv PROVE WindowBound
      OBVIOUS
    <2>1. /\ IsFiniteSet(hits) /\ Cardinality(hits) \in Nat
          /\ Cardinality(hits) <= Limit - 1 + Cardinality(Procs)
      BY RoomBounds, GrowingFinite, FS_CardinalityType DEF IInv, RoomOK, Room
    <2>2. Cardinality(window) <= Cardinality(hits) /\ Cardinality(window) \in Nat
      BY <2>1, FS_Subset, FS_CardinalityType DEF IInv, WindowKept
    <2> QED BY <2>1, <2>2, GrowingFinite, RateLimitAssumption DEF WindowBound
  <1> QED BY <1>1, Inductive, PTL

\* No refusal counts a hit the cutoff of the check had already passed.
THEOREM FairCount == Spec => []OldHitsNotCounted
  <1>1. IInv => OldHitsNotCounted
    BY DEF IInv
  <1> QED BY <1>1, Inductive, PTL

-----------------------------------------------------------------------------
(* What the limit needs. *)

\* The overshoot is bought by overlap alone: where no more than K checks are ever
\* between their count and their INSERT, on however many workers, the table holds
\* at most K - 1 hits beyond the limit (check).
THEOREM OvershootIsOverlap ==
    ASSUME NEW CONSTANT K, K \in Nat
    PROVE  Spec /\ []Together(K) => [](Cardinality(hits) <= Limit - 1 + K)
  <1>1. Init => Room(K)
    BY RoomStart
  <1>2. TypeOK /\ Together(K)' /\ Room(K) /\ [Next]_vars => Room(K)'
    BY RoomKept
  <1>3. Room(K) => Cardinality(hits) <= Limit - 1 + K
    BY RoomBounds
  <1> QED BY <1>1, <1>2, <1>3, TypeCorrect, PTL DEF Spec

\* With one check at a time between its count and its INSERT, the table never holds
\* more hits than the limit, as the comment on the key says (ratelimit.py:47-48).
THEOREM AloneNeverMoreThanLimit == Spec /\ []Together(1) => [](Cardinality(hits) <= Limit)
  <1>1. Init => Room(1)
    BY RoomStart
  <1>2. TypeOK /\ Together(1)' /\ Room(1) /\ [Next]_vars => Room(1)'
    BY RoomKept
  <1>3. Room(1) => Cardinality(hits) <= Limit
    <2> SUFFICES ASSUME Room(1) PROVE Cardinality(hits) <= Limit
      OBVIOUS
    <2>1. Cardinality(hits) <= Limit - 1 + 1
      BY RoomBounds
    <2> QED BY <2>1, RateLimitAssumption
  <1> QED BY <1>1, <1>2, <1>3, TypeCorrect, PTL DEF Spec
=============================================================================
