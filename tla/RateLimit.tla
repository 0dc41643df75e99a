----------------------------- MODULE RateLimit ------------------------------
(***************************************************************************)
(* The rate limiter of src/app/ratelimit.py, over the rate_limit_hits      *)
(* table: the rows of one bucket and one client key, which no check of     *)
(* another bucket or key reads or deletes.                                 *)
(*                                                                         *)
(* A check is one transaction, under READ COMMITTED, run by any worker of  *)
(* any instance: it deletes the hits that are older than the window,       *)
(* counts the others, and adds one of its own or refuses.  It sees its own *)
(* deletions and what the others have committed; it waits only to delete a *)
(* row that another open transaction has deleted.                          *)
(*                                                                         *)
(* Time is what makes a hit old: a request leaves the window at some step, *)
(* whether or not its row is still there, and the cutoff a check computes  *)
(* when it begins is the set of the rows whose requests have left it by    *)
(* then.                                                                   *)
(***************************************************************************)
EXTENDS Naturals, FiniteSets

CONSTANTS
    Limit,  \* the hits a bucket admits in its window
    Ids,    \* bound: the primary keys of the table
    Procs   \* the worker threads, of all the instances together

ASSUME RateLimitAssumption ==
    /\ Limit \in Nat \ {0}
    /\ IsFiniteSet(Procs)

VARIABLES
    hits,    \* the committed rows
    window,  \* the requests let in that are not older than the window, by their hits
    check    \* the check each worker is in the middle of

vars == <<hits, window, check>>

-----------------------------------------------------------------------------
\* doomed: the rows older than the cutoff; locked: those of them this
\* transaction has deleted and not committed.
Check(pc, doomed, locked) == [pc |-> pc, doomed |-> doomed, locked |-> locked]
Idle == Check("idle", {}, {})

At(p, pc) == check[p].pc = pc

\* The rows the transaction of p sees.
Seen(p) == hits \ check[p].locked

\* A new hit gets a key that no row has and no check refers to.
Unused == {i \in Ids \ (hits \cup window) : \A p \in Procs : i \notin check[p].doomed}

\* Mutant: one hit too many is let in.
Full_OffByOne(p) == Cardinality(Seen(p)) > Limit

\* The count has reached the limit.
Full(p) == Cardinality(Seen(p)) >= Limit

\* Mutant: nothing is ever deleted.
Doomed_None(p) == {h \in hits : p \notin Procs}

\* Mutant: the cutoff is the present, the window is not subtracted.
Doomed_Now(p) == hits

\* created_at < cutoff
Doomed(p) == hits \ window

-----------------------------------------------------------------------------
\* The cutoff is computed.
Begin(p) ==
    /\ At(p, "idle")
    /\ check' = [check EXCEPT ![p] = Check("begun", Doomed(p), {})]
    /\ UNCHANGED <<hits, window>>

\* Mutant: the DELETE does not wait for the others' locks.
DeleteExpired_NoWait(p) ==
    /\ At(p, "begun")
    /\ check' = [check EXCEPT ![p] =
                   Check("deleted", @.doomed, @.doomed \cap hits)]
    /\ UNCHANGED <<hits, window>>

\* Mutant: the DELETE skips the rows the others have locked.
DeleteExpired_SkipLocked(p) ==
    /\ At(p, "begun")
    /\ check' = [check EXCEPT ![p] =
                   Check("deleted", @.doomed,
                         {h \in @.doomed \cap hits :
                            \A q \in Procs : h \notin check[q].locked})]
    /\ UNCHANGED <<hits, window>>

\* DELETE, once no other transaction holds one of the rows; those that are gone
\* by then are skipped.
DeleteExpired(p) ==
    /\ At(p, "begun")
    /\ \A q \in Procs : check[q].locked \cap check[p].doomed = {}
    /\ check' = [check EXCEPT ![p] =
                   Check("deleted", @.doomed, @.doomed \cap hits)]
    /\ UNCHANGED <<hits, window>>

\* SELECT count(*)
CountHits(p) ==
    /\ At(p, "deleted")
    /\ check' = [check EXCEPT ![p].pc = IF Full(p) THEN "refuse" ELSE "admit"]
    /\ UNCHANGED <<hits, window>>

\* Mutant: a refusal leaves its transaction open.
Refuse_LeftOpen(p) == At(p, "refuse") /\ UNCHANGED vars

\* 429: only the deletions are committed.
Refuse(p) ==
    /\ At(p, "refuse")
    /\ hits' = Seen(p)
    /\ check' = [check EXCEPT ![p] = Idle]
    /\ UNCHANGED window

\* INSERT and commit; the request goes on to its handler.
Admit(p) ==
    /\ At(p, "admit")
    /\ \E i \in Unused : hits' = Seen(p) \cup {i} /\ window' = window \cup {i}
    /\ check' = [check EXCEPT ![p] = Idle]

\* The request fails or the process dies: the transaction is rolled back.
Abort(p) ==
    /\ ~At(p, "idle")
    /\ check' = [check EXCEPT ![p] = Idle]
    /\ UNCHANGED <<hits, window>>

\* A request grows older than the window.
Expire(h) ==
    /\ h \in window
    /\ window' = window \ {h}
    /\ UNCHANGED <<hits, check>>

Init ==
    /\ hits = {}
    /\ window = {}
    /\ check = [p \in Procs |-> Idle]

\* The steps of a check once it has begun.
Proceed(p) == DeleteExpired(p) \/ CountHits(p) \/ Refuse(p) \/ Admit(p)

Next ==
    \/ \E p \in Procs : Begin(p) \/ Proceed(p) \/ Abort(p)
    \/ \E h \in window : Expire(h)

Spec == Init /\ [][Next]_vars

\* Time passes; a database statement returns, and a lock somebody waits for is
\* granted in turn; a client that was refused tries again.
Fairness ==
    /\ \A i \in Ids : WF_vars(Expire(i))
    /\ \A p \in Procs :
         /\ WF_vars(Begin(p))
         /\ SF_vars(DeleteExpired(p))
         /\ WF_vars(CountHits(p) \/ Refuse(p) \/ Admit(p))

FairSpec == Spec /\ Fairness

-----------------------------------------------------------------------------
(* Properties. *)

\* Every variable has its type; only rows that exist are locked.
TypeOK ==
    /\ hits \subseteq Ids
    /\ window \subseteq Ids
    /\ check \in [Procs -> [pc : {"idle", "begun", "deleted", "refuse", "admit"},
                            doomed : SUBSET Ids, locked : SUBSET Ids]]
    /\ \A p \in Procs : check[p].locked \subseteq hits \cap check[p].doomed

\* Counting and adding are two statements, so checks that count together all get
\* in; but a bucket never holds more than one hit beyond the limit for each
\* worker but one (check: the count, then the INSERT).
BoundedOvershoot ==
    Cardinality(hits) <= Limit - 1 + Cardinality(Procs)

\* What the limit is for: however checks overlap, fail half-way and clear away each
\* other's rows, no more requests than that are let in within one window.  The limiter
\* never counts them, only the rows that are left; so no row may go while its request
\* can still be held against the client (check: the cutoff, the DELETE).
WindowBound ==
    Cardinality(window) <= Limit - 1 + Cardinality(Procs)

\* Nobody is refused for a hit that was too old already when the check began,
\* even one that another check was deleting at the time.
OldHitsNotCounted ==
    \A p \in Procs :
        check[p].pc \in {"deleted", "refuse", "admit"} =>
            Seen(p) \cap check[p].doomed = {}

\* A full bucket opens again: as long as somebody keeps trying and requests do
\* not fail for ever before the answer is known, requests keep being admitted,
\* since a refusal costs no hit and a check clears what has expired by itself.
KeepsAdmitting ==
    <>[][\A p \in Procs : ~At(p, "refuse") => ~Abort(p)]_vars
        => []<>(\E p \in Procs : At(p, "admit"))

\* No check waits for a row for ever.
ChecksEnd ==
    \A p \in Procs : At(p, "begun") ~> At(p, "idle")
=============================================================================
