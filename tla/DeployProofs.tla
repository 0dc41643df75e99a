---------------------------- MODULE DeployProofs ----------------------------
(* Deploy, for every chain of revisions. *)
EXTENDS Deploy, TLAPS

(* Type correctness: somebody always serves, and neither the code nor the    *)
(* schema is ahead of the repository (Retire, Push, Migrate).                *)
THEOREM TypeCorrect == Spec => []TypeOK
<1>1. Init => TypeOK
  BY DEF Init, TypeOK, Versions
<1>2. TypeOK /\ [Next]_vars => TypeOK'
  <2> SUFFICES ASSUME TypeOK, [Next]_vars PROVE TypeOK'
    OBVIOUS
  <2> USE DEF TypeOK, Versions
  <2>0. Len(Chain) \in Nat /\ head \in Nat /\ schema \in Nat
    BY ChainAssumption
  <2>1. CASE Revise
    BY <2>0, <2>1 DEF Revise
  <2>2. CASE Push
    BY <2>0, <2>2 DEF Push
  <2>3. CASE Migrate
    BY <2>0, <2>3 DEF Migrate
  <2>4. ASSUME NEW g \in live, Retire(g) PROVE TypeOK'
    <3>1. PICK h \in live : g < h
      BY <2>4 DEF Retire
    <3>2. g # h
      BY <2>0, <3>1
    <3>3. h \in live'
      BY <2>4, <3>1, <3>2 DEF Retire
    <3> QED
      BY <2>0, <2>4, <3>3 DEF Retire
  <2>5. CASE UNCHANGED vars
    BY <2>5 DEF vars
  <2> QED
    BY <2>1, <2>2, <2>3, <2>4, <2>5 DEF Next
<1> QED
  BY <1>1, <1>2, PTL DEF Spec

(* What the hook answers is enough for the code it lets pass: when nothing is *)
(* pending, or only revisions that remove, the repository's version lacks     *)
(* nothing.                                                                   *)
LEMMA PassedCodeFits ==
  ASSUME TypeOK, is_remote, HookPasses
  PROVE  ~Lacks(head, schema)
<1>0. Len(Chain) \in Nat /\ head \in Nat /\ schema \in Nat /\ DOMAIN Chain = 1..Len(Chain)
  BY ChainAssumption DEF TypeOK, Versions
<1> SUFFICES ASSUME NEW k \in (schema + 1)..head, Chain[k].adds PROVE FALSE
  BY DEF Lacks
<1>1. k \in Pending /\ k \in DOMAIN Chain
  BY <1>0 DEF TypeOK, Versions, Pending
<1>2. schema # head
  BY <1>0
<1>3. Chain[k].post_deploy
  BY <1>1, <1>2 DEF HookPasses, pending_are_all_post_deploy
<1> QED
  BY <1>1, <1>3, PostDeployAssumption

(* With production's address, no version that serves ever lacks something its *)
(* own revisions add (the hook, deploy_safety.py).                            *)
THEOREM CodeFindsItsSchema == Spec => []NewCodeFindsItsSchema
<1>1. Init => NewCodeFindsItsSchema
  <2> SUFFICES ASSUME Init, NEW g \in live, NEW k \in (schema + 1)..g PROVE FALSE
    BY DEF NewCodeFindsItsSchema, Lacks
  <2>1. Len(Chain) \in Nat
    BY ChainAssumption
  <2> QED
    BY <2>1 DEF Init, Versions
<1>2. TypeOK /\ TypeOK' /\ NewCodeFindsItsSchema /\ [Next]_vars => NewCodeFindsItsSchema'
  <2> SUFFICES ASSUME TypeOK, TypeOK', NewCodeFindsItsSchema, [Next]_vars, is_remote,
                      NEW g \in live'
               PROVE  ~Lacks(g, schema')
    BY DEF NewCodeFindsItsSchema, Lacks
  <2>0. head \in Nat /\ schema \in Nat /\ schema' \in Nat /\ schema <= head
        /\ head' \in Nat /\ g \in 1..head'
    <3>1. Len(Chain) \in Nat
      BY ChainAssumption
    <3> QED
      BY <3>1 DEF TypeOK, Versions
  <2>1. ASSUME g \in live, schema' = schema PROVE ~Lacks(g, schema')
    BY <2>1 DEF NewCodeFindsItsSchema
  <2>2. CASE Revise
    BY <2>1, <2>2 DEF Revise
  <2>3. CASE Push
    <3>1. CASE g \in live
      BY <2>1, <2>3, <3>1 DEF Push
    <3>2. CASE g = head
      BY <2>3, <3>2, PassedCodeFits DEF Push
    <3> QED
      BY <2>3, <3>1, <3>2 DEF Push
  <2>4. CASE Migrate
    <3>1. schema' = head /\ g \in 1..head
      BY <2>0, <2>4 DEF Migrate
    <3> QED
      BY <2>0, <3>1 DEF Lacks
  <2>5. ASSUME NEW h \in live, Retire(h) PROVE ~Lacks(g, schema')
    BY <2>1, <2>5 DEF Retire
  <2>6. CASE UNCHANGED vars
    BY <2>1, <2>6 DEF vars
  <2> QED
    BY <2>2, <2>3, <2>4, <2>5, <2>6 DEF Next
<1> QED
  BY <1>1, <1>2, TypeCorrect, PTL DEF Spec

(* If an operator who follows the hook breaks a serving instance, the pending *)
(* revisions were mixed, or one that removes was not marked: the order the    *)
(* hook asks for is safe for every other chain.                               *)
THEOREM SafeOtherwise == Spec => BreaksOnlyUnmarkedOrMixed
<1> DEFINE Culprit ==
      \/ \E k \in Pending : Chain[k].removes /\ ~Chain[k].post_deploy
      \/ \E j, k \in Pending : Chain[j].post_deploy /\ ~Chain[k].post_deploy
           Step == Migrate /\ (\E g \in live : Breaks(g)) => Culprit
<1>1. TypeOK /\ [Next]_vars => [Step]_vars
  <2> SUFFICES ASSUME TypeOK, Migrate, NEW g \in live, Breaks(g) PROVE Culprit
    OBVIOUS
  <2>0. head \in Nat /\ g \in Nat
    <3>1. Len(Chain) \in Nat
      BY ChainAssumption
    <3> QED
      BY <3>1 DEF TypeOK, Versions
  <2>1. PICK k \in Pending : g < k /\ Chain[k].removes
    BY DEF Breaks
  <2>2. CASE ~Chain[k].post_deploy
    BY <2>1, <2>2
  <2>3. CASE Chain[k].post_deploy
    <3>1. live # {head}
      BY <2>0, <2>1 DEF Pending, TypeOK
    <3>2. ~pending_are_all_post_deploy
      BY <3>1 DEF Migrate, Advised
    <3> QED
      BY <2>3, <3>2 DEF pending_are_all_post_deploy
  <2> QED
    BY <2>2, <2>3
<1> QED
  BY <1>1, TypeCorrect, PTL DEF Spec, BreaksOnlyUnmarkedOrMixed

(***************************************************************************)
(* What the order would need of the revisions: each one that removes is    *)
(* marked, and no marked one waits together with an ordinary one.          *)
(***************************************************************************)
AllMarked == \A k \in DOMAIN Chain : Chain[k].removes => Chain[k].post_deploy

Unmixed == ~ \E j, k \in Pending : Chain[j].post_deploy /\ ~Chain[k].post_deploy

(* A version that serves finds in the schema all it reads: nothing it needs  *)
(* is still to be added, and nothing it reads has been removed.              *)
Finds(g) == ~Lacks(g, schema) /\ \A k \in (g + 1)..schema : ~Chain[k].removes

EveryoneFinds == \A g \in live : Finds(g)

(* A revision that waits is one of the chain. *)
LEMMA PendingInChain ==
  ASSUME TypeOK
  PROVE  /\ Pending \subseteq DOMAIN Chain
         /\ head \in Nat /\ schema \in Nat /\ schema <= head
         /\ \A g \in live : g \in Nat /\ g <= head
<1>1. Len(Chain) \in Nat /\ DOMAIN Chain = 1..Len(Chain)
  BY ChainAssumption
<1> QED
  BY <1>1 DEF TypeOK, Versions, Pending

(* Where every revision that removes is marked, and marked ones are deployed *)
(* by themselves, a team that follows the hook and can reach production      *)
(* never has an instance serve on a schema that lacks what it reads, at no   *)
(* point of the roll-over.                                                   *)
THEOREM NobodyBreaks ==
  ASSUME AllMarked, is_remote
  PROVE  Spec /\ []Unmixed => []EveryoneFinds
<1> DEFINE Kept == \A g \in live : \A k \in (g + 1)..schema : ~Chain[k].removes
<1>1. Init => Kept
  <2> SUFFICES ASSUME Init, NEW g \in live, NEW k \in (g + 1)..schema PROVE FALSE
    OBVIOUS
  <2>1. Len(Chain) \in Nat
    BY ChainAssumption
  <2> QED
    BY <2>1 DEF Init, Versions
<1>2. TypeOK /\ Unmixed /\ Kept /\ [Next]_vars => Kept'
  <2> SUFFICES ASSUME TypeOK, Unmixed, Kept, [Next]_vars,
                      NEW g \in live', NEW k \in (g + 1)..schema', Chain[k].removes
               PROVE  FALSE
    OBVIOUS
  <2>1. ~(g \in live /\ schema' = schema)
    OBVIOUS
  <2>2. CASE Push
    <3>1. g = head /\ schema' = schema
      BY <2>1, <2>2 DEF Push
    <3> QED
      BY <3>1, PendingInChain
  <2>3. CASE Migrate
    <3>1. schema' = head /\ g \in live /\ g \in Nat /\ head \in Nat /\ schema \in Nat
      BY <2>3, PendingInChain DEF Migrate
    <3>2. k \in Pending /\ g < k
      <4>1. k \in Nat /\ g < k /\ k <= head
        BY <3>1
      <4>2. ~(k <= schema)
        BY <3>1, <4>1
      <4> QED
        BY <3>1, <4>1, <4>2 DEF Pending
    <3>3. Chain[k].post_deploy
      BY <3>2, PendingInChain DEF AllMarked
    <3>4. pending_are_all_post_deploy
      BY <3>2, <3>3 DEF Unmixed, pending_are_all_post_deploy
    <3>5. g = head
      BY <2>3, <3>1, <3>4 DEF Migrate, Advised
    <3> QED
      BY <3>1, <3>2, <3>5 DEF Pending
  <2> QED
    BY <2>1, <2>2, <2>3 DEF Next, Revise, Retire, vars
<1>3. NewCodeFindsItsSchema /\ Kept => EveryoneFinds
  BY DEF NewCodeFindsItsSchema, EveryoneFinds, Finds
<1> QED
  BY <1>1, <1>2, <1>3, TypeCorrect, CodeFindsItsSchema, PTL DEF Spec
=============================================================================
