------------------------------- MODULE Deploy -------------------------------
(***************************************************************************)
(* How a new version reaches production (src/.githooks/pre-push,           *)
(* src/migrations/).  Three things move on their own: the repository, the  *)
(* schema of the production database, and the instances that serve.  A     *)
(* push starts instances of the new code while the old ones still serve;   *)
(* migrations are run by hand, before the push or after the roll-over, as  *)
(* the hook and the README say.                                            *)
(*                                                                         *)
(* A version of the code is named by the newest revision it was written    *)
(* for; test_migrations.py keeps models and revisions together.            *)
(***************************************************************************)
EXTENDS Naturals, Sequences

CONSTANTS Chain,     \* the revisions, oldest first: [adds, removes, post_deploy]
          is_remote  \* the hook has production's address

ASSUME ChainAssumption ==
  /\ Chain \in Seq([adds : BOOLEAN, removes : BOOLEAN, post_deploy : BOOLEAN])
  /\ Chain # <<>>
  /\ is_remote \in BOOLEAN

\* A revision that is marked only removes.
ASSUME PostDeployAssumption ==
  \A k \in DOMAIN Chain : Chain[k].post_deploy => ~Chain[k].adds

VARIABLES head,    \* the newest revision of the repository
          schema,  \* the revision production's database is at
          live     \* the versions of the code that serve

vars == <<head, schema, live>>

Versions == 1..Len(Chain)
Pending == (schema + 1)..head

\* Version g reads something that no revision up to s has added yet.
Lacks(g, s) == \E k \in (s + 1)..g : Chain[k].adds

\* The pending revisions remove something that version g reads.
Breaks(g) == \E k \in Pending : g < k /\ Chain[k].removes

\* Production is up to date and settled.
Init ==
  \E v \in Versions : head = v /\ schema = v /\ live = {v}

----------------------------------------------------------------------------
\* Mutant: one marked revision among the pending ones is enough.
pending_are_all_post_deploy_Any == \E k \in Pending : Chain[k].post_deploy

pending_are_all_post_deploy == \A k \in Pending : Chain[k].post_deploy

\* Without production's address the hook warns and lets the push pass.
HookPasses == is_remote => schema = head \/ pending_are_all_post_deploy

\* Mutant: the operator migrates as soon as the push has landed.
Advised_AtOnce == pending_are_all_post_deploy => head \in live

\* When the operator migrates: before the push if the hook refuses it, after
\* the roll-over if the hook lets the push land ahead.
Advised == pending_are_all_post_deploy => live = {head}

\* A change of the models is committed with its revision.
Revise ==
  /\ head < Len(Chain)
  /\ head' = head + 1
  /\ UNCHANGED <<schema, live>>

Push ==
  /\ \A g \in live : g < head
  /\ HookPasses
  /\ live' = live \cup {head}
  /\ UNCHANGED <<head, schema>>

\* upgrade head applies everything that is pending, in one transaction.
Migrate ==
  /\ schema < head
  /\ Advised
  /\ schema' = head
  /\ UNCHANGED <<head, live>>

\* Mutant: the platform stops an instance before its successor serves.
Retire_First(g) ==
  /\ live' = live \ {g}
  /\ UNCHANGED <<head, schema>>

\* The roll-over: the last instance of an older version stops.
Retire(g) ==
  /\ \E h \in live : g < h
  /\ live' = live \ {g}
  /\ UNCHANGED <<head, schema>>

Next == Revise \/ Push \/ Migrate \/ \E g \in live : Retire(g)

Spec == Init /\ [][Next]_vars

----------------------------------------------------------------------------
\* Somebody always serves, and neither code nor schema is ahead of the
\* repository.
TypeOK ==
  /\ head \in Versions
  /\ schema \in 1..head
  /\ live # {} /\ live \subseteq 1..head

\* Every instance that serves finds what its version added: the hook keeps a
\* push back "if even one ordinary migration is mixed in"
\* (src/migrations/deploy_safety.py:11), provided it can ask production.
NewCodeFindsItsSchema == is_remote => \A g \in live : ~Lacks(g, schema)

\* The operator's migration takes something from an instance that serves only if
\* the pending revisions had one that removes and is not marked, or a marked one
\* together with an ordinary one.
BreaksOnlyUnmarkedOrMixed ==
  [][Migrate /\ (\E g \in live : Breaks(g)) =>
       \/ \E k \in Pending : Chain[k].removes /\ ~Chain[k].post_deploy
       \/ \E j, k \in Pending : Chain[j].post_deploy /\ ~Chain[k].post_deploy]_vars

\* src/README.md:101-103: "Applying an ordinary migration first is safe because it's
\* additive and the old instances keep working through the rollover".
OrdinaryMigrationIsSafe ==
  [][Migrate /\ (\A k \in Pending : ~Chain[k].post_deploy) =>
       \A g \in live : ~Breaks(g)]_vars
=============================================================================
