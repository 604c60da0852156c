------------------------------ MODULE PlacerProofs ------------------------------
(***************************************************************************)
(* What the placer returns does not depend on the constraints being right:  *)
(* the invariant of LocalSearchProofs holds for the weights that any list   *)
(* of constraints computes, integer overflow and all, because every step of *)
(* the placer is a step of the search for some weight.                      *)
(*                                                                         *)
(* The rest of the module is about the constraints: for a list of           *)
(* constraints whose weights fit their integers (ExactList), the weights    *)
(* that trials and commits maintain by differences, through two layers of   *)
(* maps and a tree of partial sums, are those of the committed              *)
(* arrangement and of the one on trial, so that the placer is the search    *)
(* for the cost that its constraints state.                                 *)
(*                                                                         *)
(* The last part needs no such list: a capacity whose consistency is BOTH   *)
(* and the two trees of a load-balancing constraint keep values that are    *)
(* no sums over the arrangement, and MeasureInv says what they are.         *)
(***************************************************************************)
EXTENDS Placer, LocalSearchProofs, SumTheorems

(* Every step of the placer is a step of the search's control, judged by
   whatever weight the constraints computed. *)
LEMMA PlacerStepIsSearchStep == [Next]_vars => AnyStep
  <1> SUFFICES ASSUME [Next]_vars PROVE AnyStep
    OBVIOUS
  <1>1. CASE ConstructConstraint
    BY <1>1 DEF ConstructConstraint, AnyStep
  <1>2. CASE Solve
    BY <1>2 DEF Solve, AnyStep
  <1>3. CASE OrderBins
    BY <1>3 DEF OrderBins, AnyStep
  <1>4. CASE Walk
    BY <1>4 DEF Walk, AnyStep
  <1>5. CASE \E s \in Shards, b \in Bins : Reject(s, b)
    <2>1. PICK s \in Shards, b \in Bins : Reject(s, b)
      BY <1>5
    <2>2. \E w : RejectMove(s, b, w)
      BY <2>1 DEF Reject
    <2> QED BY <2>2 DEF AnyStep
  <1>6. CASE \E s \in Shards, b \in Bins : Accept(s, b)
    <2>1. PICK s \in Shards, b \in Bins : Accept(s, b)
      BY <1>6
    <2>2. \E w : AcceptMove(s, b, w)
      BY <2>1 DEF Accept
    <2> QED BY <2>2 DEF AnyStep
  <1>7. CASE Finished \/ UNCHANGED vars
    BY <1>7 DEF Finished, vars, AnyStep
  <1> QED BY <1>1, <1>2, <1>3, <1>4, <1>5, <1>6, <1>7 DEF Next

(* The search's inductive invariant holds of the placer. *)
LEMMA PlacerInvariant == Spec => []SearchInv
  <1>1. Init => SearchInv
    BY SearchInvInit DEF Init
  <1>2. SearchInv /\ [Next]_vars => SearchInv'
    BY SearchInvStep, PlacerStepIsSearchStep
  <1> QED BY <1>1, <1>2, PTL DEF Spec

(* For every list of constraints, the MovementMap solve builds has exactly
   inverse indexes and sends no shard to the bin it is in. *)
THEOREM PlacerMovesAreConsistent == Spec => []CommittedMovesConsistent
  <1>1. SearchInv => CommittedMovesConsistent
    BY DEF SearchInv
  <1> QED BY <1>1, PlacerInvariant, PTL

(* For every list of constraints, solve moves one shard per iteration. *)
THEOREM PlacerIterationsCountMoves == Spec => []OneShardPerIteration
  <1>1. SearchInv => OneShardPerIteration
    BY DEF SearchInv
  <1> QED BY <1>1, PlacerInvariant, PTL

(* For every list of constraints, a committed move is final. *)
THEOREM PlacerMovesAreFinal == Spec => CommittedMovesAreFinal
  <1>1. SearchInv /\ [Next]_vars
          => [\A s \in MovedShards(committedMoves) :
                 committedMoves'.next[s] = committedMoves.next[s]]_searchVars
    BY StepKeepsMoves, PlacerStepIsSearchStep
  <1> QED BY <1>1, PlacerInvariant, PTL DEF Spec, CommittedMovesAreFinal

--------------------------------------------------------------------------------
(***************************************************************************)
(* The canary layer. Between two trials nothing is left in the canary      *)
(* layer of the weights or of a constraint, so that an iteration starts    *)
(* from what is committed.                                                 *)
(***************************************************************************)

\* A CommittableMap and a CommittableKey.
IsMap(m) == /\ m = [committed |-> m.committed, canary |-> m.canary]
            /\ m.committed = [k \in DOMAIN m.committed |-> m.committed[k]]

IsKey(k) == k = [committed |-> k.committed, canary |-> k.canary]

(* An empty map. *)
LEMMA EmptyMapFacts ==
  /\ IsMap(EmptyMap) /\ EmptyMap.canary = <<>>
  /\ \A k, v : MapGetOr(EmptyMap, k, v) = v /\ MapCommittedOr(EmptyMap, k, v) = v
  BY DEF EmptyMap, IsMap, MapGetOr, MapCommittedOr

(* clear drops the canary layer and no more. *)
LEMMA MapClearFacts ==
  ASSUME NEW m, IsMap(m)
  PROVE  /\ IsMap(MapClear(m)) /\ MapClear(m).canary = <<>>
         /\ MapClear(m).committed = m.committed
         /\ \A k, v : /\ MapGetOr(MapClear(m), k, v) = MapCommittedOr(m, k, v)
                      /\ MapCommittedOr(MapClear(m), k, v) = MapCommittedOr(m, k, v)
  <1>1. MapClear(m) = [committed |-> m.committed, canary |-> <<>>]
    BY DEF IsMap, MapClear
  <1> QED BY <1>1 DEF IsMap, MapGetOr, MapCommittedOr

(* Values set in the canary layer hide the others and leave the committed ones. *)
LEMMA MapSetFacts ==
  ASSUME NEW m, IsMap(m), NEW f
  PROVE  /\ IsMap(MapSetCanary(m, f))
         /\ MapSetCanary(m, f).committed = m.committed
         /\ \A k, v : /\ MapGetOr(MapSetCanary(m, f), k, v)
                            = IF k \in DOMAIN f THEN f[k] ELSE MapGetOr(m, k, v)
                      /\ MapCommittedOr(MapSetCanary(m, f), k, v) = MapCommittedOr(m, k, v)
  <1>1. MapSetCanary(m, f) = [committed |-> m.committed, canary |-> SetMap(m.canary, f)]
    BY DEF IsMap, MapSetCanary
  <1>2. /\ DOMAIN SetMap(m.canary, f) = DOMAIN f \cup DOMAIN m.canary
        /\ \A k \in DOMAIN f \cup DOMAIN m.canary :
              SetMap(m.canary, f)[k] = IF k \in DOMAIN f THEN f[k] ELSE m.canary[k]
    BY DEF SetMap
  <1>3. IsMap(MapSetCanary(m, f)) /\ MapSetCanary(m, f).committed = m.committed
    BY <1>1 DEF IsMap
  <1>4. ASSUME NEW k, NEW v
        PROVE  /\ MapGetOr(MapSetCanary(m, f), k, v)
                            = IF k \in DOMAIN f THEN f[k] ELSE MapGetOr(m, k, v)
               /\ MapCommittedOr(MapSetCanary(m, f), k, v) = MapCommittedOr(m, k, v)
    BY <1>1, <1>2 DEF MapGetOr, MapCommittedOr
  <1> QED BY <1>3, <1>4

(* commit makes the values that get returns the committed ones. *)
LEMMA MapCommitFacts ==
  ASSUME NEW m, IsMap(m)
  PROVE  /\ IsMap(MapCommit(m)) /\ MapCommit(m).canary = <<>>
         /\ \A k, v : /\ MapCommittedOr(MapCommit(m), k, v) = MapGetOr(m, k, v)
                      /\ MapGetOr(MapCommit(m), k, v) = MapGetOr(m, k, v)
  <1>1. MapCommit(m) = [committed |-> SetMap(m.committed, m.canary), canary |-> <<>>]
    <2> DEFINE new == SetMap(m.committed, m.canary)
    <2>1. [m EXCEPT !.committed = new] = [committed |-> new, canary |-> m.canary]
      <3> HIDE DEF new
      <3> QED BY DEF IsMap
    <2>2. MapClear([committed |-> new, canary |-> m.canary]) = [committed |-> new, canary |-> <<>>]
      <3> HIDE DEF new
      <3> QED BY DEF MapClear
    <2> HIDE DEF new
    <2>3. MapCommit(m) = MapClear([m EXCEPT !.committed = new])
      BY DEF MapCommit, CopyChanges, new
    <2> QED BY <2>1, <2>2, <2>3 DEF new
  <1>2. /\ DOMAIN SetMap(m.committed, m.canary) = DOMAIN m.canary \cup DOMAIN m.committed
        /\ \A k \in DOMAIN m.canary \cup DOMAIN m.committed :
              SetMap(m.committed, m.canary)[k]
                 = IF k \in DOMAIN m.canary THEN m.canary[k] ELSE m.committed[k]
        /\ SetMap(m.committed, m.canary)
             = [k \in DOMAIN SetMap(m.committed, m.canary) |-> SetMap(m.committed, m.canary)[k]]
    BY DEF SetMap
  <1>3. IsMap(MapCommit(m)) /\ MapCommit(m).canary = <<>>
    BY <1>1, <1>2 DEF IsMap
  <1>4. ASSUME NEW k, NEW v
        PROVE  /\ MapCommittedOr(MapCommit(m), k, v) = MapGetOr(m, k, v)
               /\ MapGetOr(MapCommit(m), k, v) = MapGetOr(m, k, v)
    BY <1>1, <1>2 DEF MapGetOr, MapCommittedOr
  <1> QED BY <1>3, <1>4

(* There is nothing to commit in a map without canary values. *)
LEMMA CleanMapCommits ==
  ASSUME NEW m, IsMap(m), m.canary = <<>>
  PROVE  MapCommit(MapClear(m)) = m
  <1>1. SetMap(m.committed, <<>>) = m.committed
    BY DEF SetMap, IsMap
  <1> QED BY <1>1 DEF IsMap, MapCommit, MapClear, CopyChanges

\* BinWeightInfo has the shape its constructor gives it.
WeightsShape(w) == /\ w = [bin |-> w.bin, total |-> w.total]
                   /\ IsMap(w.bin)
                   /\ IsKey(w.total)

(* The operations on the weights keep that shape. *)
LEMMA WeightsKeepShape ==
  ASSUME NEW w, WeightsShape(w), NEW evals
  PROVE  /\ WeightsShape(ClearWeights(w))
         /\ WeightsShape(CommitWeights(w))
         /\ WeightsShape(AddWeights(w, evals))
         /\ CommitWeights(w).bin.canary = <<>> /\ CommitWeights(w).total.canary = {}
  <1>1. WeightsShape(ClearWeights(w))
    BY MapClearFacts DEF WeightsShape, ClearWeights, IsKey, KeyClear
  <1>2. WeightsShape(CommitWeights(w)) /\ CommitWeights(w).bin.canary = <<>> /\ CommitWeights(w).total.canary = {}
    BY MapCommitFacts DEF WeightsShape, CommitWeights, IsKey, KeyCommit
  <1>3. PICK f, t : AddWeights(w, evals) = [bin |-> MapSetCanary(w.bin, f), total |-> t] /\ IsKey(t)
    <2>1. PICK f, v, a : AddWeights(w, evals) = [bin |-> MapSetCanary(w.bin, f), total |-> IF a THEN w.total ELSE KeySetCanary(w.total, v)]
      BY DEF AddWeights
    <2>2. IsKey(w.total) /\ IsKey(KeySetCanary(w.total, v))
      BY DEF WeightsShape, IsKey, KeySetCanary
    <2> QED BY <2>1, <2>2
  <1>4. WeightsShape(AddWeights(w, evals))
    BY <1>3, MapSetFacts DEF WeightsShape
  <1> QED BY <1>1, <1>2, <1>4

(* A constraint has nothing in its canary layers after commitMoves. *)
LEMMA CommittedConstraintIsClean ==
  ASSUME NEW c, NEW st
  PROVE  ClearConstraint(c, CommitConstraint(c, st)) = CommitConstraint(c, st)
  <1>1. \A m : MapClear(MapCommit(m)) = MapCommit(m)
    BY DEF MapClear, MapCommit
  <1> QED BY <1>1 DEF ClearConstraint, CommitConstraint

\* Nothing in the canary layers.
CleanWeights(w) == w.bin.canary = <<>> /\ w.total.canary = {}

CleanConstraints == \A i \in DOMAIN ConstraintList :
                       constraints[i] = ClearConstraint(ConstraintList[i], constraints[i])

\* The inductive invariant behind IterationsStartClean.
CleanInv == /\ WeightsShape(weights)
            /\ DOMAIN constraints = DOMAIN ConstraintList
            /\ pc \in {"start", "iterate"} => CleanWeights(weights) /\ CleanConstraints

(* Everything is clean before the first constraint is built. *)
LEMMA CleanInvInit == Init => CleanInv
  <1> SUFFICES ASSUME Init PROVE CleanInv
    OBVIOUS
  <1>1. weights = EmptyWeights /\ constraints = [i \in DOMAIN ConstraintList |-> EmptyConstraint(ConstraintList[i])]
    BY DEF Init
  <1>2. WeightsShape(weights) /\ CleanWeights(weights)
    BY <1>1, EmptyMapFacts DEF EmptyWeights, WeightsShape, CleanWeights, IsKey, EmptyKey
  <1>3. CleanConstraints
    <2>1. MapClear(EmptyMap) = EmptyMap
      BY DEF MapClear, EmptyMap
    <2>2. \A c : ClearConstraint(c, EmptyConstraint(c)) = EmptyConstraint(c)
      BY <2>1 DEF ClearConstraint, EmptyConstraint
    <2> QED BY <1>1, <2>2 DEF CleanConstraints
  <1> QED BY <1>1, <1>2, <1>3 DEF CleanInv

(* A step either leaves the values alone, or commits them, or stays in its iteration. *)
LEMMA CleanInvStep == CleanInv /\ [Next]_vars => CleanInv'
  <1> SUFFICES ASSUME CleanInv, [Next]_vars PROVE CleanInv'
    OBVIOUS
  <1>1. CASE ConstructConstraint
    <2> DEFINE i == built + 1
               eval == InitializeMetricState(ConstraintList[i], constraints[i])
    <2>1. /\ constraints' = [constraints EXCEPT ![i] = CommitConstraint(ConstraintList[i], eval.state)]
          /\ weights' = CommitWeights(AddWeights(weights, <<eval>>))
      BY <1>1 DEF ConstructConstraint
    <2> HIDE DEF i, eval
    <2>2. WeightsShape(weights') /\ CleanWeights(weights')
      BY <2>1, WeightsKeepShape DEF CleanInv, CleanWeights
    <2>3. pc = "start"
      BY <1>1 DEF ConstructConstraint
    <2>4. CleanConstraints'
      BY <2>1, <2>3, CommittedConstraintIsClean DEF CleanInv, CleanConstraints
    <2> QED BY <2>1, <2>2, <2>4 DEF CleanInv
  <1>2. CASE UNCHANGED <<constraints, weights>> /\ (pc' \in {"start", "iterate"} => pc \in {"start", "iterate"})
    BY <1>2 DEF CleanInv, CleanWeights, CleanConstraints
  <1>3. CASE Solve
    <2>1. UNCHANGED <<constraints, weights>> /\ pc = "start"
      BY <1>3 DEF Solve, SolveStart
    <2> QED BY <2>1, <1>2
  <1>4. CASE OrderBins
    BY <1>2, <1>4 DEF OrderBins, StartIteration
  <1>5. CASE Walk
    BY <1>2, <1>5 DEF Walk, IterationsExhausted, SkipBin, EnterBin, NoMoveFound, PickShard, GiveUpBin, TriesExhausted
  <1>6. CASE \E s \in Shards, b \in Bins : Reject(s, b)
    <2>1. PICK s \in Shards, b \in Bins : Reject(s, b)
      BY <1>6
    <2>2. /\ pc' = "try" /\ weights' = AddWeights(ClearWeights(weights), Evaluations(s, b))
          /\ DOMAIN constraints' = DOMAIN ConstraintList
      BY <2>1 DEF Reject, RejectMove, TrialWeights, Evaluations
    <2>3. WeightsShape(weights')
      BY <2>2, WeightsKeepShape DEF CleanInv
    <2> QED BY <2>2, <2>3 DEF CleanInv
  <1>7. CASE \E s \in Shards, b \in Bins : Accept(s, b)
    <2>1. PICK s \in Shards, b \in Bins : Accept(s, b)
      BY <1>7
    <2> DEFINE evals == Evaluations(s, b)
    <2>2. /\ weights' = CommitWeights(AddWeights(ClearWeights(weights), evals))
          /\ DOMAIN evals = DOMAIN ConstraintList
          /\ constraints' = [i \in DOMAIN evals |-> CommitConstraint(ConstraintList[i], evals[i].state)]
      BY <2>1 DEF Accept, TrialWeights, Evaluations
    <2> HIDE DEF evals
    <2>3. WeightsShape(weights') /\ CleanWeights(weights')
      BY <2>2, WeightsKeepShape DEF CleanInv, CleanWeights
    <2>4. CleanConstraints'
      BY <2>2, CommittedConstraintIsClean DEF CleanConstraints
    <2> QED BY <2>2, <2>3, <2>4 DEF CleanInv
  <1>8. CASE Finished \/ UNCHANGED vars
    <2>1. UNCHANGED <<pc, constraints, weights>>
      BY <1>8 DEF Finished, vars, searchVars
    <2> QED BY <1>2, <2>1
  <1> QED BY <1>1, <1>3, <1>4, <1>5, <1>6, <1>7, <1>8 DEF Next

(* Whatever the constraints are, an iteration of solve starts without a trace of the
   trials of the one before. *)
THEOREM PlacerIterationsStartClean == Spec => []IterationsStartClean
  <1>1. CleanInv => IterationsStartClean
    <2> SUFFICES ASSUME CleanInv, pc = "iterate" PROVE weights = CommitWeights(ClearWeights(weights))
      BY DEF CleanInv, CleanConstraints, IterationsStartClean
    <2>1. MapCommit(MapClear(weights.bin)) = weights.bin
      BY CleanMapCommits DEF CleanInv, WeightsShape, CleanWeights
    <2>2. KeyCommit(KeyClear(weights.total)) = weights.total
      BY DEF CleanInv, WeightsShape, CleanWeights, IsKey, KeyCommit, KeyClear
    <2> QED BY <2>1, <2>2 DEF CleanInv, WeightsShape, CommitWeights, ClearWeights
  <1> QED BY <1>1, CleanInvInit, CleanInvStep, PTL DEF Spec

--------------------------------------------------------------------------------
(***************************************************************************)
(* Paths in the mapping tree: the node above a bin, in every domain.       *)
(***************************************************************************)

(* Induction over numbers, as a least counterexample. *)
LEMMA SmallestNumber ==
  ASSUME NEW B, B \subseteq Nat, B # {}
  PROVE  \E n \in B : \A m \in B : n <= m
  <1>1. PICK n \in B : \A m \in B : ~(<<m, n>> \in OpToRel(<, Nat))
    BY WFMin, NatLessThanWellFounded
  <1>2. \A m \in B : ~(m < n)
    BY <1>1 DEF OpToRel
  <1> QED BY <1>2

\* The nodes above bin b, up to domain m.
IsPath(g, b, m) == g = [d \in 1 .. m |-> IF d = 1 THEN b ELSE UpperTree[d - 1][g[d - 1]]]

(* There is such a path. *)
LEMMA PathExists ==
  ASSUME NEW b, NEW m \in Nat
  PROVE  \E g : IsPath(g, b, m)
  <1> DEFINE B == {n \in Nat : ~\E g : IsPath(g, b, n)}
  <1> SUFFICES ASSUME B # {} PROVE FALSE
    OBVIOUS
  <1>1. PICK n \in B : \A k \in B : n <= k
    <2>1. B \subseteq Nat
      OBVIOUS
    <2> HIDE DEF B
    <2> QED BY <2>1, SmallestNumber
  <1>2. n # 0
    <2>1. IsPath([d \in 1 .. 0 |-> b], b, 0)
      BY DEF IsPath
    <2> QED BY <1>1, <2>1
  <1>3. n - 1 \in Nat /\ n - 1 \notin B
    BY <1>1, <1>2
  <1>4. PICK g : IsPath(g, b, n - 1)
    BY <1>3
  <1> DEFINE h == [d \in 1 .. n |-> IF d = 1 THEN b ELSE UpperTree[d - 1][g[d - 1]]]
  <1>5. \A d \in 1 .. n - 1 : h[d] = g[d]
    BY SMTT(30), <1>4, <1>3 DEF IsPath
  <1>6. \A d \in 1 .. n : h[d] = IF d = 1 THEN b ELSE UpperTree[d - 1][h[d - 1]]
    <2>1. \A d \in 1 .. n : d # 1 => d - 1 \in 1 .. n - 1
      BY <1>3
    <2>2. \A d \in 1 .. n : d # 1 => h[d - 1] = g[d - 1]
      BY <1>5, <2>1
    <2> QED BY <2>2
  <1>7. IsPath(h, b, n)
    BY <1>6 DEF IsPath
  <1> QED BY <1>1, <1>7

(* A bin is its own node in domain 1; in every other domain its node is the parent of the
   one below. *)
LEMMA NodeOfStep ==
  ASSUME NEW b \in Bins
  PROVE  /\ NodeOf(b, 1) = b
         /\ \A d \in 1 .. Len(UpperTree) : NodeOf(b, d + 1) = UpperTree[d][NodeOf(b, d)]
  <1> DEFINE N == Len(UpperTree) + 1
             g == CHOOSE g : IsPath(g, b, N)
  <1>1. N \in Nat /\ N >= 1 /\ Len(UpperTree) \in Nat
    BY UpperTreeAssumption
  <1>2. IsPath(g, b, N)
    BY <1>1, PathExists
  <1>3. \A d : NodeOf(b, d) = g[d]
    BY DEF NodeOf, IsPath
  <1> HIDE DEF g
  <1>4. \A d \in 1 .. N : g[d] = IF d = 1 THEN b ELSE UpperTree[d - 1][g[d - 1]]
    BY <1>2 DEF IsPath
  <1>5. g[1] = b
    BY <1>1, <1>4
  <1>6. ASSUME NEW d \in 1 .. Len(UpperTree) PROVE g[d + 1] = UpperTree[d][g[d]]
    <2>1. d + 1 \in 1 .. N /\ d + 1 # 1 /\ (d + 1) - 1 = d
      BY <1>1
    <2> QED BY <1>4, <2>1
  <1> QED BY <1>3, <1>5, <1>6

(* The node of a bin is an id of the domain. *)
LEMMA NodeOfType ==
  ASSUME NEW b \in Bins, NEW d \in 1 .. Len(UpperTree) + 1
  PROVE  NodeOf(b, d) \in DomainIds(d)
  <1> DEFINE B == {n \in Nat : n \in 1 .. Len(UpperTree) + 1 /\ NodeOf(b, n) \notin DomainIds(n)}
  <1>0. Len(UpperTree) \in Nat
    BY UpperTreeAssumption
  <1> SUFFICES ASSUME B # {} PROVE FALSE
    BY <1>0
  <1>1. PICK n \in B : \A k \in B : n <= k
    <2>1. B \subseteq Nat
      OBVIOUS
    <2> HIDE DEF B
    <2> QED BY <2>1, SmallestNumber
  <1>2. n # 1
    BY <1>1, NodeOfStep DEF DomainIds
  <1>3. PICK k \in 1 .. Len(UpperTree) : n = k + 1
    <2>1. n - 1 \in 1 .. Len(UpperTree) /\ n = (n - 1) + 1
      BY <1>0, <1>1, <1>2
    <2> QED BY <2>1
  <1>4. NodeOf(b, k) \in DomainIds(k)
    BY <1>0, <1>1, <1>3
  <1>5. NodeOf(b, k + 1) = UpperTree[k][NodeOf(b, k)] /\ UpperTree[k] \in [DomainIds(k) -> DomainIds(k + 1)]
    BY <1>3, NodeOfStep, UpperTreeAssumption
  <1> QED BY <1>1, <1>3, <1>4, <1>5

(* Every domain has finitely many ids. *)
LEMMA DomainIdsFinite ==
  ASSUME NEW d \in 1 .. Len(UpperTree) + 1
  PROVE  IsFiniteSet(DomainIds(d))
  <1> DEFINE B == {n \in Nat : n \in 1 .. Len(UpperTree) + 1 /\ ~IsFiniteSet(DomainIds(n))}
  <1>0. Len(UpperTree) \in Nat
    BY UpperTreeAssumption
  <1> SUFFICES ASSUME B # {} PROVE FALSE
    BY <1>0
  <1>1. PICK n \in B : \A k \in B : n <= k
    <2>1. B \subseteq Nat
      OBVIOUS
    <2> HIDE DEF B
    <2> QED BY <2>1, SmallestNumber
  <1>2. n # 1
    BY <1>1, SearchAssumption DEF DomainIds
  <1>3. n - 1 \in 1 .. Len(UpperTree) /\ n - 1 \notin B
    BY <1>0, <1>1, <1>2
  <1>4. IsFiniteSet(DomainIds(n - 1)) /\ DOMAIN UpperTree[n - 1] = DomainIds(n - 1)
    BY <1>0, <1>3, UpperTreeAssumption
  <1>5. DomainIds(n) = {UpperTree[n - 1][x] : x \in DomainIds(n - 1)}
    BY <1>2, <1>4 DEF DomainIds
  <1> DEFINE S == DomainIds(n - 1)
             f == [x \in S |-> UpperTree[n - 1][x]]
  <1>6. DomainIds(n) = {f[x] : x \in S}
    BY <1>5
  <1>7. IsFiniteSet({f[x] : x \in S})
    <2>1. f \in Surjection(S, {f[x] : x \in S})
      BY DEF Surjection
    <2> QED BY <1>4, <2>1, FS_Surjection
  <1> QED BY <1>1, <1>6, <1>7

--------------------------------------------------------------------------------
(***************************************************************************)
(* The trees that a constraint keeps, and setting the values of one domain *)
(* after the other. Both are recursive functions over the domains; they    *)
(* are shown to exist and unfolded step by step.                           *)
(***************************************************************************)

\* The nodes of t below ids of domain top, from domain bottom up.
IsKept(g, t, bottom, top, ids) ==
    g = [d \in bottom .. top |-> IF d = top THEN ids ELSE {n \in t.nodes[d] : t.up[d][n] \in g[d + 1]}]

(* There is such a function. *)
LEMMA KeptExists ==
  ASSUME NEW t, NEW top \in Nat \ {0}, NEW ids
  PROVE  \E g : IsKept(g, t, 1, top, ids)
  <1> DEFINE B == {n \in Nat : n <= top /\ ~\E g : IsKept(g, t, top - n + 1, top, ids)}
  <1>0. top \notin B => \E g : IsKept(g, t, 1, top, ids)
    OBVIOUS
  <1> SUFFICES ASSUME B # {} PROVE FALSE
    BY <1>0
  <1>1. PICK n \in B : \A k \in B : n <= k
    <2>1. B \subseteq Nat
      OBVIOUS
    <2> HIDE DEF B
    <2> QED BY <2>1, SmallestNumber
  <1>2. n # 0
    <2>1. IsKept([d \in top - 0 + 1 .. top |-> ids], t, top - 0 + 1, top, ids)
      BY DEF IsKept
    <2> QED BY <1>1, <2>1
  <1>3. n - 1 \in Nat /\ n - 1 \notin B /\ n - 1 <= top /\ n <= top
    BY <1>1, <1>2
  <1> DEFINE m == top - n + 1
  <1>4. top - (n - 1) + 1 = m + 1 /\ m \in 1 .. top /\ m \in Nat
    BY <1>3
  <1>5. PICK g : IsKept(g, t, m + 1, top, ids)
    BY <1>3, <1>4
  <1> DEFINE h == [d \in m .. top |-> IF d = top THEN ids ELSE {x \in t.nodes[d] : t.up[d][x] \in g[d + 1]}]
  <1> HIDE DEF m, B
  <1>6. \A d \in m + 1 .. top : h[d] = g[d]
    <2>1. \A d \in m + 1 .. top : d \in m .. top
      BY <1>4
    <2>2. \A d \in m + 1 .. top : g[d] = IF d = top THEN ids ELSE {x \in t.nodes[d] : t.up[d][x] \in g[d + 1]}
      BY <1>5 DEF IsKept
    <2> QED BY <2>1, <2>2
  <1>7. \A d \in m .. top : h[d] = IF d = top THEN ids ELSE {x \in t.nodes[d] : t.up[d][x] \in h[d + 1]}
    <2>1. \A d \in m .. top : d # top => d + 1 \in m + 1 .. top
      BY <1>4
    <2>2. \A d \in m .. top : d # top => h[d + 1] = g[d + 1]
      BY <1>6, <2>1
    <2> QED BY <2>2
  <1>8. IsKept(h, t, m, top, ids)
    BY <1>7 DEF IsKept
  <1> QED BY <1>1, <1>3, <1>8 DEF B, m

\* A constraint on a domain of the assignment tree, of a kind without a root of its own.
Placed(c) == /\ c.domain \in 1 .. Len(UpperTree) + 1
             /\ c.ids \subseteq DomainIds(c.domain)
             /\ c.kind # "balance"

TreeOf(c) == ConstraintTree(c, AssignmentTree)

(* What the constructor's partial tree holds. *)
LEMMA PartialTree ==
  ASSUME NEW c, Placed(c)
  PROVE  /\ Height(TreeOf(c)) = c.domain
         /\ TreeOf(c).nodes[c.domain] = c.ids
         /\ \A d \in 1 .. c.domain - 1 :
               /\ TreeOf(c).nodes[d] = {n \in DomainIds(d) : UpperTree[d][n] \in TreeOf(c).nodes[d + 1]}
               /\ TreeOf(c).up[d] = [n \in TreeOf(c).nodes[d] |-> UpperTree[d][n]]
         /\ \A d \in 1 .. c.domain : TreeOf(c).nodes[d] \subseteq DomainIds(d)
         /\ TreeOf(c).binOf = [s \in Shards |-> IF initialBin[s] \in TreeOf(c).nodes[1]
                                                THEN initialBin[s] ELSE NoBin]
  <1> DEFINE D == c.domain
             a == AssignmentTree
             k == CHOOSE g : IsKept(g, a, 1, D, c.ids)
             t == TreeOf(c)
  <1>0. D \in Nat \ {0} /\ Len(UpperTree) \in Nat /\ D <= Len(UpperTree) + 1
    BY UpperTreeAssumption DEF Placed
  <1>1. IsKept(k, a, 1, D, c.ids)
    BY <1>0, KeptExists
  <1>2. t = [nodes |-> [d \in 1 .. D |-> k[d]],
             up    |-> [d \in 1 .. D - 1 |-> [n \in k[d] |-> a.up[d][n]]],
             binOf |-> [s \in Shards |-> IF a.binOf[s] \in k[1] THEN a.binOf[s] ELSE NoBin]]
    BY DEF TreeOf, ConstraintTree, CreatePartialTree, IsKept, Placed
  <1>3. /\ a.nodes = [d \in 1 .. Len(UpperTree) + 1 |-> DomainIds(d)]
        /\ a.up = UpperTree /\ a.binOf = initialBin
    BY DEF AssignmentTree
  <1> HIDE DEF k, a, t, D
  <1>4. /\ t.nodes = [d \in 1 .. D |-> k[d]]
        /\ t.up = [d \in 1 .. D - 1 |-> [n \in k[d] |-> a.up[d][n]]]
        /\ t.binOf = [s \in Shards |-> IF a.binOf[s] \in k[1] THEN a.binOf[s] ELSE NoBin]
    BY <1>2
  <1>5. Height(t) = D
    <2> DEFINE X == {k[d] : d \in 1 .. D}
    <2>1. t.nodes \in [1 .. D -> X]
      BY <1>4
    <2>2. t.nodes \in Seq(X)
      <3> HIDE DEF X
      <3> QED BY SMTT(30), <1>0, <2>1
    <2>3. Len(t.nodes) \in Nat /\ DOMAIN t.nodes = 1 .. Len(t.nodes)
      BY <2>2
    <2>4. 1 .. Len(t.nodes) = 1 .. D
      BY <2>3, <1>4
    <2> QED BY <1>0, <2>3, <2>4 DEF Height
  <1>6. \A d \in 1 .. D : k[d] = IF d = D THEN c.ids ELSE {n \in a.nodes[d] : a.up[d][n] \in k[d + 1]}
    BY <1>1 DEF IsKept
  <1>7. t.nodes[D] = c.ids
    <2>1. D \in 1 .. D
      BY <1>0
    <2> QED BY <1>4, <1>6, <2>1
  <1>8. ASSUME NEW d \in 1 .. D - 1
        PROVE  /\ t.nodes[d] = {n \in DomainIds(d) : UpperTree[d][n] \in t.nodes[d + 1]}
               /\ t.up[d] = [n \in t.nodes[d] |-> UpperTree[d][n]]
    <2>1. d \in 1 .. D /\ d + 1 \in 1 .. D /\ d # D /\ d \in 1 .. Len(UpperTree) + 1
      BY <1>0
    <2>2. a.nodes[d] = DomainIds(d) /\ a.up = UpperTree
      BY <1>3, <2>1
    <2>3. t.nodes[d] = k[d] /\ t.nodes[d + 1] = k[d + 1]
      BY <1>4, <2>1
    <2>4. k[d] = {n \in DomainIds(d) : UpperTree[d][n] \in k[d + 1]}
      <3>1. k[d] = {n \in a.nodes[d] : a.up[d][n] \in k[d + 1]}
        BY <1>6, <2>1
      <3> QED BY <2>2, <3>1
    <2>5. t.up[d] = [n \in k[d] |-> UpperTree[d][n]]
      BY <1>4, <2>2
    <2> QED BY <2>3, <2>4, <2>5
  <1>9. \A d \in 1 .. D : t.nodes[d] \subseteq DomainIds(d)
    <2> SUFFICES ASSUME NEW d \in 1 .. D PROVE t.nodes[d] \subseteq DomainIds(d)
      OBVIOUS
    <2>1. CASE d = D
      BY <1>7, <2>1 DEF Placed, D
    <2>2. CASE d # D
      <3>1. d \in 1 .. D - 1
        BY <1>0, <2>2
      <3> QED BY <1>8, <3>1
    <2> QED BY <2>1, <2>2
  <1>10. t.binOf = [s \in Shards |-> IF initialBin[s] \in t.nodes[1] THEN initialBin[s] ELSE NoBin]
    <2>1. t.nodes[1] = k[1]
      BY <1>0, <1>4
    <2> QED BY <1>3, <1>4, <2>1
  <1> QED BY <1>5, <1>7, <1>8, <1>9, <1>10 DEF t, D

--------------------------------------------------------------------------------

\* The levels of a propagation through the tree e over t, up to domain m.
IsLevels(g, c, e, t, metrics0, maps, shards, m) ==
    g = [d \in 0 .. m |->
           IF d = 0 THEN [metrics |-> metrics0, values |-> <<>>, changed |-> shards]
           ELSE PropagateToDomain(c, e, t, maps, d, g[d - 1])]

(* There are such levels. *)
LEMMA LevelsExist ==
  ASSUME NEW c, NEW e, NEW t, NEW metrics0, NEW maps, NEW shards, NEW m \in Nat
  PROVE  \E g : IsLevels(g, c, e, t, metrics0, maps, shards, m)
  <1> DEFINE Is(g, n) == IsLevels(g, c, e, t, metrics0, maps, shards, n)
             B == {n \in Nat : ~\E g : Is(g, n)}
             bottom == [metrics |-> metrics0, values |-> <<>>, changed |-> shards]
             Up(d, below) == PropagateToDomain(c, e, t, maps, d, below)
  <1>0. \A g, n : Is(g, n) <=> g = [d \in 0 .. n |-> IF d = 0 THEN bottom ELSE Up(d, g[d - 1])]
    BY DEF IsLevels
  <1> HIDE DEF Is, bottom, Up
  <1>01. SUFFICES ASSUME B # {} PROVE FALSE
    BY DEF Is
  <1>1. PICK n \in B : \A k \in B : n <= k
    <2>1. B \subseteq Nat
      OBVIOUS
    <2> HIDE DEF B
    <2> QED BY <1>01, <2>1, SmallestNumber
  <1>2. n # 0
    <2> DEFINE zero == [d \in 0 .. 0 |-> bottom]
    <2>1. \A d \in 0 .. 0 : d = 0 /\ zero[d] = IF d = 0 THEN bottom ELSE Up(d, zero[d - 1])
      OBVIOUS
    <2>2. zero = [d \in 0 .. 0 |-> zero[d]]
      OBVIOUS
    <2> HIDE DEF zero
    <2>3. Is(zero, 0)
      BY <1>0, <2>1, <2>2
    <2> QED BY <1>1, <2>3
  <1>3. n - 1 \in Nat /\ n - 1 \notin B
    BY <1>1, <1>2
  <1>4. PICK g : Is(g, n - 1)
    BY <1>3
  <1> DEFINE h == [d \in 0 .. n |-> IF d = 0 THEN bottom ELSE Up(d, g[d - 1])]
  <1>5. \A d \in 0 .. n - 1 : h[d] = g[d]
    <2>1. \A d \in 0 .. n - 1 : g[d] = IF d = 0 THEN bottom ELSE Up(d, g[d - 1])
      BY <1>0, <1>4
    <2>2. \A d \in 0 .. n - 1 : d \in 0 .. n
      BY <1>3
    <2> QED BY <2>1, <2>2
  <1>6. \A d \in 0 .. n : h[d] = IF d = 0 THEN bottom ELSE Up(d, h[d - 1])
    <2>1. \A d \in 0 .. n : d # 0 => d - 1 \in 0 .. n - 1
      BY <1>3
    <2>2. \A d \in 0 .. n : d # 0 => h[d - 1] = g[d - 1]
      BY <1>5, <2>1
    <2> QED BY <2>2
  <1>7. Is(h, n)
    <2>1. h = [d \in 0 .. n |-> h[d]]
      OBVIOUS
    <2> HIDE DEF h
    <2> QED BY <1>0, <1>6, <2>1
  <1> QED BY <1>1, <1>7

(* What propagateChanges returns, domain by domain. *)
LEMMA PropagateSteps ==
  ASSUME NEW c, NEW e, NEW t, NEW metrics0, NEW maps, NEW shards, Height(t) \in Nat,
         NEW level, level = Propagate(c, e, t, metrics0, maps, shards)
  PROVE  /\ level[0] = [metrics |-> metrics0, values |-> <<>>, changed |-> shards]
         /\ \A d \in 1 .. Height(t) : level[d] = PropagateToDomain(c, e, t, maps, d, level[d - 1])
  <1>1. level = CHOOSE g : IsLevels(g, c, e, t, metrics0, maps, shards, Height(t))
    BY DEF Propagate, IsLevels
  <1>2. IsLevels(level, c, e, t, metrics0, maps, shards, Height(t))
    BY <1>1, LevelsExist
  <1> DEFINE bottom == [metrics |-> metrics0, values |-> <<>>, changed |-> shards]
             Up(d, below) == PropagateToDomain(c, e, t, maps, d, below)
  <1>3. level = [d \in 0 .. Height(t) |-> IF d = 0 THEN bottom ELSE Up(d, level[d - 1])]
    BY <1>2 DEF IsLevels
  <1> HIDE DEF bottom, Up
  <1>4. level[0] = bottom
    <2>1. 0 \in 0 .. Height(t)
      OBVIOUS
    <2> QED BY <1>3, <2>1
  <1>5. \A d \in 1 .. Height(t) : level[d] = Up(d, level[d - 1])
    <2>1. \A d \in 1 .. Height(t) : d \in 0 .. Height(t) /\ d # 0
      OBVIOUS
    <2> QED BY <1>3, <2>1
  <1> QED BY <1>4, <1>5 DEF bottom, Up

--------------------------------------------------------------------------------
(***************************************************************************)
(* Setting values is exact: when the values of the bins are right, so are  *)
(* those of every domain above them, and what is recorded as changed is    *)
(* what changed.                                                           *)
(***************************************************************************)

\* The shape of a partial tree.
IsTree(t) == /\ Height(t) \in Nat \ {0}
             /\ \A d \in 1 .. Height(t) : IsFiniteSet(t.nodes[d])
             /\ \A d \in 1 .. Height(t) - 1 : \A k \in t.nodes[d] : t.up[d][k] \in t.nodes[d + 1]

\* Loads of the nodes of a tree: a node above the bins has those of its children.
AreLoads(f, t) ==
    /\ \A d \in 1 .. Height(t) : \A n \in t.nodes[d] : f[d][n] \in 0 .. IntLimit - 1
    /\ \A d \in 1 .. Height(t) - 1 : \A n \in t.nodes[d + 1] :
          f[d + 1][n] = SumFunctionOnSet(f[d], {k \in t.nodes[d] : t.up[d][k] = n})

\* The values computed for domain d take the old loads to the new ones.
AreValues(values, d, t, old, new) ==
    /\ DOMAIN values \subseteq t.nodes[d]
    /\ \A n \in DOMAIN values : values[n] = new[d][n]
    /\ \A n \in t.nodes[d] \ DOMAIN values : new[d][n] = old[d][n]

\* The metrics hold the new loads up to domain d, the old ones above and in the committed layer.
MetricsUpTo(m, d, t, old, new) ==
    /\ IsMap(m)
    /\ \A x \in 1 .. Height(t) : \A n \in t.nodes[x] :
          /\ MapCommittedOr(m, <<x, n>>, 0) = old[x][n]
          /\ MapGetOr(m, <<x, n>>, 0) = IF x <= d THEN new[x][n] ELSE old[x][n]

\* Where a propagation is after domain d.
LevelOK(l, d, t, old, new) ==
    /\ MetricsUpTo(l.metrics, d, t, old, new)
    /\ AreValues(l.values, d, t, old, new)
    /\ l.changed \subseteq t.nodes[d]
    /\ \A n \in t.nodes[d] \ l.changed : new[d][n] = old[d][n]

(* A number in the range of an int is not changed by a conversion to int. *)
LEMMA ToIntIdentity == ASSUME NEW x \in 0 .. IntLimit - 1 PROVE ToInt(x) = x
  <1>1. IntLimit \in Nat \ {0} /\ x \in Nat /\ x < IntLimit
    BY IntLimitAssumption
  <1>2. x + IntLimit < 2 * IntLimit
    BY <1>1
  <1>3. (x + IntLimit) % (2 * IntLimit) = x + IntLimit
    BY <1>1, <1>2
  <1> QED BY <1>1, <1>3 DEF ToInt

(* Recording the values of a domain: those that metricsMap_ does not take are there already. *)
LEMMA SetValuesLevel ==
  ASSUME NEW t, IsTree(t), NEW old, NEW new, NEW m, NEW d \in 1 .. Height(t),
         MetricsUpTo(m, d - 1, t, old, new),
         NEW values, AreValues(values, d, t, old, new)
  PROVE  LevelOK(SetValues(m, d, values), d, t, old, new)
  <1> DEFINE changed == {n \in DOMAIN values : ValueChanged(m, <<d, n>>, values[n])}
             f == [node \in {d} \X changed |-> values[node[2]]]
             l == SetValues(m, d, values)
  <1>1. l = [metrics |-> MapSetCanary(m, f), values |-> values, changed |-> changed]
    BY DEF SetValues
  <1>2. changed \subseteq t.nodes[d]
    BY DEF AreValues
  <1>3. \A n \in DOMAIN values \ changed : new[d][n] = old[d][n]
    <2> SUFFICES ASSUME NEW n \in DOMAIN values \ changed PROVE new[d][n] = old[d][n]
      OBVIOUS
    <2>1. MapGetOr(m, <<d, n>>, 0) = values[n]
      BY DEF ValueChanged
    <2>2. n \in t.nodes[d] /\ ~(d <= d - 1) /\ values[n] = new[d][n]
      BY DEF AreValues
    <2>3. MapGetOr(m, <<d, n>>, 0) = old[d][n]
      BY <2>2 DEF MetricsUpTo
    <2> QED BY <2>1, <2>2, <2>3
  <1>4. \A n \in t.nodes[d] \ changed : new[d][n] = old[d][n]
    BY <1>3 DEF AreValues
  <1> HIDE DEF changed
  <1>5. /\ DOMAIN f = {d} \X changed
        /\ \A x, n : <<x, n>> \in {d} \X changed <=> x = d /\ n \in changed
        /\ \A n \in changed : f[<<d, n>>] = values[n]
    OBVIOUS
  <1> HIDE DEF f
  <1>6. /\ IsMap(MapSetCanary(m, f))
        /\ \A k, v : /\ MapGetOr(MapSetCanary(m, f), k, v)
                            = IF k \in DOMAIN f THEN f[k] ELSE MapGetOr(m, k, v)
                     /\ MapCommittedOr(MapSetCanary(m, f), k, v) = MapCommittedOr(m, k, v)
    BY MapSetFacts DEF MetricsUpTo
  <1>7. ASSUME NEW x \in 1 .. Height(t), NEW n \in t.nodes[x]
        PROVE  /\ MapCommittedOr(MapSetCanary(m, f), <<x, n>>, 0) = old[x][n]
               /\ MapGetOr(MapSetCanary(m, f), <<x, n>>, 0) = IF x <= d THEN new[x][n] ELSE old[x][n]
    <2>1. /\ MapCommittedOr(m, <<x, n>>, 0) = old[x][n]
          /\ MapGetOr(m, <<x, n>>, 0) = IF x <= d - 1 THEN new[x][n] ELSE old[x][n]
      BY DEF MetricsUpTo
    <2>2. MapCommittedOr(MapSetCanary(m, f), <<x, n>>, 0) = old[x][n]
      BY <1>6, <2>1
    <2>3. CASE x = d /\ n \in changed
      <3>1. MapGetOr(MapSetCanary(m, f), <<x, n>>, 0) = values[n]
        BY <1>5, <1>6, <2>3
      <3>2. values[n] = new[d][n]
        BY <2>3 DEF AreValues, changed
      <3> QED BY <2>2, <2>3, <3>1, <3>2
    <2>4. CASE x = d /\ n \notin changed
      <3>1. MapGetOr(MapSetCanary(m, f), <<x, n>>, 0) = MapGetOr(m, <<x, n>>, 0)
        BY <1>5, <1>6, <2>4
      <3> QED BY <1>4, <2>1, <2>2, <2>4, <3>1
    <2>5. CASE x # d
      <3>1. MapGetOr(MapSetCanary(m, f), <<x, n>>, 0) = MapGetOr(m, <<x, n>>, 0)
        BY <1>5, <1>6, <2>5
      <3>2. x <= d <=> x <= d - 1
        BY <2>5 DEF IsTree
      <3> QED BY <2>1, <2>2, <3>1, <3>2
    <2> QED BY <2>3, <2>4, <2>5
  <1>8. MetricsUpTo(l.metrics, d, t, old, new)
    BY <1>1, <1>6, <1>7 DEF MetricsUpTo
  <1> QED BY <1>1, <1>2, <1>4, <1>8 DEF LevelOK

(* Above the bins sumOperator adds to a node what its changed children have gained. *)
LEMMA SumAboveBins ==
  ASSUME NEW t, IsTree(t), NEW old, AreLoads(old, t), NEW new, AreLoads(new, t),
         NEW d \in 2 .. Height(t), NEW below, LevelOK(below, d - 1, t, old, new),
         NEW c, c.kind = "capacity", NEW e, NEW maps
  PROVE  AreValues([n \in ParentsWithChanges(t, maps, d - 1, below.changed) |->
                      Calculate(c, e, t, maps, below.metrics, d, n,
                                ChangedChildren(t, maps, d, n, below.changed))], d, t, old, new)
  <1> DEFINE b == d - 1
             changed == below.changed
             parents == ParentsWithChanges(t, maps, b, changed)
             Children(n) == ChangedChildren(t, maps, d, n, changed)
             All(n) == {k \in t.nodes[b] : t.up[b][k] = n}
             gain == [k \in t.nodes[b] |-> new[b][k] - old[b][k]]
  <1>1. /\ b \in 1 .. Height(t) - 1 /\ b \in 1 .. Height(t) /\ b + 1 = d /\ d \in 1 .. Height(t)
        /\ b # 0 /\ d # 1 /\ b < Height(t) /\ b <= b /\ ~(d <= b) /\ d - 1 = b
    BY DEF IsTree
  <1>2. parents = {t.up[b][k] : k \in changed}
    BY <1>1 DEF ParentsWithChanges
  <1>3. \A n : Children(n) = {k \in changed : t.up[b][k] = n}
    BY <1>1 DEF ChangedChildren
  <1>4. changed \subseteq t.nodes[b] /\ (\A k \in t.nodes[b] : t.up[b][k] \in t.nodes[d])
    BY <1>1 DEF LevelOK, IsTree
  <1>5. parents \subseteq t.nodes[d]
    BY <1>2, <1>4
  <1>6. /\ \A k \in t.nodes[b] : old[b][k] \in Int /\ new[b][k] \in Int /\ gain[k] \in Int
        /\ \A k \in t.nodes[b] : gain[k] = new[b][k] - old[b][k]
        /\ \A n \in t.nodes[d] : old[d][n] \in Int /\ new[d][n] \in 0 .. IntLimit - 1
    BY <1>1, IntLimitAssumption DEF AreLoads
  <1>7. \A k \in t.nodes[b] \ changed : gain[k] = 0
    <2>1. \A k \in t.nodes[b] \ changed : new[b][k] = old[b][k]
      BY DEF LevelOK
    <2> HIDE DEF gain, b
    <2> QED BY <1>6, <2>1
  <1> HIDE DEF gain
  <1>8. ASSUME NEW n \in t.nodes[d]
        PROVE  SumFunctionOnSet(gain, Children(n)) = new[d][n] - old[d][n]
    <2>1. IsFiniteSet(All(n)) /\ Children(n) \in SUBSET All(n)
      BY <1>1, <1>3, <1>4, FS_Subset DEF IsTree
    <2>2. \A k \in All(n) \ Children(n) : gain[k] = 0
      BY <1>3, <1>7
    <2>3. \A k \in All(n) : gain[k] \in Int /\ gain[k] = new[b][k] - old[b][k] /\ old[b][k] \in Int /\ new[b][k] \in Int
      BY <1>6
    <2>4. old[d][n] = SumFunctionOnSet(old[b], All(n)) /\ new[d][n] = SumFunctionOnSet(new[b], All(n))
      BY <1>1 DEF AreLoads
    <2> HIDE DEF All, Children
    <2>5. SumFunctionOnSet(gain, All(n)) = SumFunctionOnSet(gain, Children(n))
      BY <2>1, <2>2, <2>3, SumSupport
    <2>6. SumFunctionOnSet(gain, All(n)) = SumFunctionOnSet(new[b], All(n)) - SumFunctionOnSet(old[b], All(n))
      BY <2>1, <2>3, SumDifference
    <2> QED BY <2>4, <2>5, <2>6
  <1>9. ASSUME NEW n \in t.nodes[d]
        PROVE  Calculate(c, e, t, maps, below.metrics, d, n, Children(n)) = new[d][n]
    <2> DEFINE delta == [k \in Children(n) |-> MapGetOr(below.metrics, <<d - 1, k>>, 0)
                                                 - MapCommittedOr(below.metrics, <<d - 1, k>>, 0)]
    <2>1. Calculate(c, e, t, maps, below.metrics, d, n, Children(n))
             = ToInt(MapGetOr(below.metrics, <<d, n>>, 0) + SumFunction(delta))
      BY <1>1 DEF Calculate, SumOperator
    <2>2. MetricsUpTo(below.metrics, b, t, old, new)
      BY DEF LevelOK
    <2>3. MapGetOr(below.metrics, <<d, n>>, 0) = old[d][n]
      BY <1>1, <2>2 DEF MetricsUpTo
    <2>4. \A k \in Children(n) : delta[k] = gain[k]
      <3> SUFFICES ASSUME NEW k \in Children(n) PROVE delta[k] = gain[k]
        OBVIOUS
      <3>1. k \in t.nodes[b]
        BY <1>3, <1>4
      <3>2. /\ MapGetOr(below.metrics, <<b, k>>, 0) = new[b][k]
            /\ MapCommittedOr(below.metrics, <<b, k>>, 0) = old[b][k]
        BY <1>1, <2>2, <3>1 DEF MetricsUpTo
      <3> QED BY <1>1, <1>6, <3>1, <3>2
    <2>5. DOMAIN delta = Children(n) /\ IsFiniteSet(Children(n))
      <3>1. Children(n) \subseteq t.nodes[b] /\ IsFiniteSet(t.nodes[b])
        BY <1>1, <1>3, <1>4 DEF IsTree
      <3> QED BY <3>1, FS_Subset
    <2> HIDE DEF delta, Children
    <2>6. SumFunction(delta) = SumFunctionOnSet(gain, Children(n))
      BY <2>4, <2>5, SumEqual DEF SumFunction
    <2>7. MapGetOr(below.metrics, <<d, n>>, 0) + SumFunction(delta) = new[d][n]
      BY <1>6, <1>8, <2>3, <2>6
    <2> QED BY <1>6, <2>1, <2>7, ToIntIdentity
  <1>10. ASSUME NEW n \in t.nodes[d] \ parents
         PROVE  new[d][n] = old[d][n]
    <2>1. Children(n) = {}
      BY <1>2, <1>3
    <2>2. new[d][n] - old[d][n] = 0
      BY <1>8, <2>1, SumEmpty
    <2>3. new[d][n] \in Int /\ old[d][n] \in Int
      BY <1>6, IntLimitAssumption
    <2> QED BY <2>2, <2>3
  <1> HIDE DEF parents, Children
  <1>11. AreValues([n \in parents |-> Calculate(c, e, t, maps, below.metrics, d, n, Children(n))], d, t, old, new)
    BY <1>5, <1>9, <1>10 DEF AreValues
  <1> QED BY <1>11 DEF parents, Children

(* If the values of the bins are right, so are those of every node above them. *)
LEMMA PropagateExact ==
  ASSUME NEW t, IsTree(t), NEW old, AreLoads(old, t), NEW new, AreLoads(new, t),
         NEW c, c.kind = "capacity" \/ Height(t) = 1, NEW e, NEW maps, NEW shards,
         NEW metrics0, MetricsUpTo(metrics0, 0, t, old, new),
         AreValues([n \in ParentsWithChanges(t, maps, 0, shards) |->
                      Calculate(c, e, t, maps, metrics0, 1, n,
                                ChangedChildren(t, maps, 1, n, shards))], 1, t, old, new),
         NEW level, level = Propagate(c, e, t, metrics0, maps, shards)
  PROVE  \A d \in 1 .. Height(t) : LevelOK(level[d], d, t, old, new)
  <1> DEFINE H == Height(t)
             B == {n \in Nat : n \in 1 .. H /\ ~LevelOK(level[n], n, t, old, new)}
  <1>0. H \in Nat \ {0}
    BY DEF IsTree
  <1> SUFFICES ASSUME B # {} PROVE FALSE
    BY <1>0
  <1>1. PICK d \in B : \A k \in B : d <= k
    <2>1. B \subseteq Nat
      OBVIOUS
    <2> HIDE DEF B
    <2> QED BY <2>1, SmallestNumber
  <1>2. d \in 1 .. H /\ ~LevelOK(level[d], d, t, old, new)
    BY <1>1
  <1>3. /\ level[0] = [metrics |-> metrics0, values |-> <<>>, changed |-> shards]
        /\ \A x \in 1 .. H : level[x] = PropagateToDomain(c, e, t, maps, x, level[x - 1])
    BY <1>0, PropagateSteps
  <1> DEFINE below == level[d - 1]
             values == [n \in ParentsWithChanges(t, maps, d - 1, below.changed) |->
                          Calculate(c, e, t, maps, below.metrics, d, n,
                                    ChangedChildren(t, maps, d, n, below.changed))]
  <1>4. level[d] = SetValues(below.metrics, d, values)
    BY <1>2, <1>3 DEF PropagateToDomain
  <1>5. MetricsUpTo(below.metrics, d - 1, t, old, new) /\ AreValues(values, d, t, old, new)
    <2>1. CASE d = 1
      <3>1. d - 1 = 0 /\ below.metrics = metrics0 /\ below.changed = shards
        BY <1>3, <2>1
      <3> QED BY <2>1, <3>1
    <2>2. CASE d # 1
      <3>1. d \in 2 .. H /\ d - 1 \in 1 .. H /\ d - 1 \in Nat /\ d - 1 < d
        BY <1>0, <1>2, <2>2
      <3>2. LevelOK(below, d - 1, t, old, new)
        BY <1>1, <3>1
      <3>3. c.kind = "capacity"
        BY <1>0, <3>1
      <3>4. AreValues(values, d, t, old, new)
        BY <3>1, <3>2, <3>3, SumAboveBins
      <3> QED BY <3>2, <3>4 DEF LevelOK
    <2> QED BY <2>1, <2>2
  <1> HIDE DEF values, below
  <1> QED BY <1>2, <1>4, <1>5, SetValuesLevel

--------------------------------------------------------------------------------
(***************************************************************************)
(* The loads of an arrangement: bounds, the load of a node from its        *)
(* children, and how loads add up when shards are added.                   *)
(***************************************************************************)

\* The loads of an arrangement on the nodes of a constraint's tree.
LoadsOf(c, A) == [d \in 1 .. c.domain |-> [n \in TreeOf(c).nodes[d] |-> Load(c, A, d, n)]]

\* No loads, which is what a constraint without values has.
ZeroLoads(c) == [d \in 1 .. c.domain |-> [n \in TreeOf(c).nodes[d] |-> 0]]

(* The constraints that are exact have a place in the assignment tree. *)
LEMMA ExactIsPlaced ==
  ASSUME NEW c, IsExact(c)
  PROVE  /\ Placed(c) /\ c.domain \in Nat \ {0} /\ IsTree(TreeOf(c))
         /\ c.kind = "capacity" \/ Height(TreeOf(c)) = 1
  <1>0. Len(UpperTree) \in Nat
    BY UpperTreeAssumption
  <1>1. Placed(c) /\ c.domain \in Nat \ {0}
    BY <1>0 DEF IsExact, FitsInt, Placed
  <1> DEFINE t == TreeOf(c)
  <1>2. /\ Height(t) = c.domain
        /\ \A d \in 1 .. c.domain - 1 :
               /\ t.nodes[d] = {n \in DomainIds(d) : UpperTree[d][n] \in t.nodes[d + 1]}
               /\ t.up[d] = [n \in t.nodes[d] |-> UpperTree[d][n]]
        /\ \A d \in 1 .. c.domain : t.nodes[d] \subseteq DomainIds(d)
    BY <1>1, PartialTree
  <1> HIDE DEF t
  <1>3. \A d \in 1 .. c.domain : IsFiniteSet(t.nodes[d])
    <2> SUFFICES ASSUME NEW d \in 1 .. c.domain PROVE IsFiniteSet(t.nodes[d])
      OBVIOUS
    <2>1. d \in 1 .. Len(UpperTree) + 1
      BY <1>0, <1>1 DEF Placed
    <2> QED BY <1>2, <2>1, DomainIdsFinite, FS_Subset
  <1>4. \A d \in 1 .. c.domain - 1 : \A k \in t.nodes[d] : t.up[d][k] \in t.nodes[d + 1]
    BY <1>2
  <1>5. c.kind = "capacity" \/ c.domain = 1
    BY DEF IsExact
  <1> QED BY <1>1, <1>2, <1>3, <1>4, <1>5 DEF IsTree, t

(* The load of a node is a number below IntLimit. *)
LEMMA LoadBounds ==
  ASSUME NEW c, FitsInt(c, 1), NEW A, NEW d, NEW n
  PROVE  /\ Load(c, A, d, n) \in 0 .. IntLimit - 1
         /\ Load(c, A, d, n) <= SumFunction(ShardLoad(c))
         /\ SumFunction(ShardLoad(c)) \in Nat
  <1> DEFINE f == ShardLoad(c)
             T == {s \in Shards : NodeOf(A[s], d) = n}
  <1>1. IsFiniteSet(Shards) /\ T \in SUBSET Shards /\ (\A s \in Shards : f[s] \in Nat) /\ DOMAIN f = Shards
    BY SearchAssumption DEF FitsInt, ShardLoad
  <1> HIDE DEF f, T
  <1>2. /\ SumFunctionOnSet(f, T) \in Nat /\ SumFunctionOnSet(f, Shards) \in Nat
        /\ SumFunctionOnSet(f, T) <= SumFunctionOnSet(f, Shards)
    BY <1>1, SumSubset
  <1>3. SumFunction(f) = SumFunctionOnSet(f, Shards)
    BY <1>1 DEF SumFunction
  <1>4. 1 * SumFunction(f) < IntLimit
    BY DEF FitsInt, f
  <1>5. Load(c, A, d, n) = SumFunctionOnSet(f, T)
    BY DEF Load, f, T
  <1> QED BY <1>2, <1>3, <1>4, <1>5, IntLimitAssumption DEF f

(* The load of a node above the bins is the sum of its children's loads. *)
LEMMA LoadOfChildren ==
  ASSUME NEW c, IsExact(c), NEW A \in [Shards -> Bins],
         NEW d \in 1 .. c.domain - 1, NEW n \in TreeOf(c).nodes[d + 1]
  PROVE  Load(c, A, d + 1, n)
           = SumFunctionOnSet(LoadsOf(c, A)[d], {k \in TreeOf(c).nodes[d] : TreeOf(c).up[d][k] = n})
  <1> DEFINE t == TreeOf(c)
             S == {s \in Shards : NodeOf(A[s], d + 1) = n}
             K == {k \in t.nodes[d] : t.up[d][k] = n}
             f == ShardLoad(c)
             g == LoadsOf(c, A)[d]
             p == [s \in Shards |-> NodeOf(A[s], d)]
  <1>1. /\ Placed(c) /\ c.domain \in Nat \ {0} /\ IsTree(t) /\ Height(t) = c.domain
        /\ t.nodes[d] = {k \in DomainIds(d) : UpperTree[d][k] \in t.nodes[d + 1]}
        /\ t.up[d] = [k \in t.nodes[d] |-> UpperTree[d][k]]
    <2>1. Placed(c) /\ c.domain \in Nat \ {0} /\ IsTree(t)
      BY ExactIsPlaced
    <2>2. /\ Height(t) = c.domain
          /\ \A x \in 1 .. c.domain - 1 :
               /\ t.nodes[x] = {k \in DomainIds(x) : UpperTree[x][k] \in t.nodes[x + 1]}
               /\ t.up[x] = [k \in t.nodes[x] |-> UpperTree[x][k]]
      BY <2>1, PartialTree
    <2> HIDE DEF t
    <2> QED BY <2>1, <2>2
  <1>2. d \in 1 .. c.domain /\ d \in 1 .. Len(UpperTree) /\ d \in 1 .. Len(UpperTree) + 1
    BY <1>1, UpperTreeAssumption DEF Placed
  <1> HIDE DEF t
  <1>3. g = [k \in t.nodes[d] |-> Load(c, A, d, k)]
    BY <1>2 DEF LoadsOf, t
  <1>4. IsFiniteSet(S) /\ IsFiniteSet(K)
    <2>1. IsFiniteSet(t.nodes[d])
      BY <1>1, <1>2 DEF IsTree
    <2> QED BY <2>1, SearchAssumption, FS_Subset
  <1>5. \A s \in Shards : /\ p[s] \in DomainIds(d) /\ NodeOf(A[s], d + 1) = UpperTree[d][p[s]]
                          /\ p[s] = NodeOf(A[s], d)
    BY <1>2, NodeOfStep, NodeOfType
  <1>6. \A s \in S : f[s] \in Int /\ p[s] \in K
    <2> SUFFICES ASSUME NEW s \in S PROVE f[s] \in Int /\ p[s] \in K
      OBVIOUS
    <2>1. f[s] \in Int
      BY DEF IsExact, FitsInt
    <2>2. p[s] \in DomainIds(d) /\ UpperTree[d][p[s]] = n
      BY <1>5
    <2> HIDE DEF p, S
    <2>3. n \in t.nodes[d + 1]
      BY DEF t
    <2>4. p[s] \in t.nodes[d]
      BY <1>1, <2>2, <2>3
    <2> QED BY <1>1, <2>1, <2>2, <2>4
  <1> DEFINE members == [k \in K |-> {s \in S : p[s] = k}]
  <1>7. /\ \A k \in K : \A s : s \in members[k] <=> s \in S /\ p[s] = k
        /\ \A k \in K : g[k] = SumFunctionOnSet(f, members[k])
    <2> SUFFICES ASSUME NEW k \in K PROVE g[k] = SumFunctionOnSet(f, {s \in S : p[s] = k})
      OBVIOUS
    <2>1. k \in t.nodes[d] /\ UpperTree[d][k] = n
      BY <1>1
    <2>2. g[k] = Load(c, A, d, k)
      BY <1>3, <2>1
    <2>3. {s \in S : p[s] = k} = {s \in Shards : NodeOf(A[s], d) = k}
      BY <1>5, <2>1
    <2> QED BY <2>2, <2>3 DEF Load
  <1> HIDE DEF S, K, f, g, p, members
  <1>8. SumFunctionOnSet(f, S) = SumFunctionOnSet(g, K)
    <2>1. ClassSums(S, K, f, g, p, members)
      BY <1>4, <1>6, <1>7 DEF ClassSums
    <2> QED BY <2>1, SumFibers
  <1> QED BY <1>8 DEF Load, S, K, f, g, t

(* The loads of an arrangement, and no loads at all, add up along a constraint's tree. *)
LEMMA LoadsAdd ==
  ASSUME NEW c, IsExact(c), NEW A \in [Shards -> Bins]
  PROVE  AreLoads(LoadsOf(c, A), TreeOf(c)) /\ AreLoads(ZeroLoads(c), TreeOf(c))
  <1> DEFINE t == TreeOf(c)
             f == LoadsOf(c, A)
             z == ZeroLoads(c)
  <1>1. IsTree(t) /\ Height(t) = c.domain /\ c.domain \in Nat \ {0}
    BY ExactIsPlaced, PartialTree
  <1> HIDE DEF t
  <1>2. /\ \A d \in 1 .. c.domain : \A n \in t.nodes[d] : f[d][n] = Load(c, A, d, n) /\ z[d][n] = 0
    BY DEF LoadsOf, ZeroLoads, t
  <1>3. /\ \A d \in 1 .. c.domain : \A n \in t.nodes[d] : f[d][n] \in 0 .. IntLimit - 1
        /\ \A d \in 1 .. c.domain : \A n \in t.nodes[d] : z[d][n] \in 0 .. IntLimit - 1
    BY <1>2, LoadBounds, IntLimitAssumption DEF IsExact
  <1> HIDE DEF f, z
  <1>4. ASSUME NEW d \in 1 .. c.domain - 1, NEW n \in t.nodes[d + 1]
        PROVE  /\ f[d + 1][n] = SumFunctionOnSet(f[d], {k \in t.nodes[d] : t.up[d][k] = n})
               /\ z[d + 1][n] = SumFunctionOnSet(z[d], {k \in t.nodes[d] : t.up[d][k] = n})
    <2>1. d + 1 \in 1 .. c.domain /\ d \in 1 .. c.domain
      BY <1>1
    <2>2. f[d + 1][n] = SumFunctionOnSet(f[d], {k \in t.nodes[d] : t.up[d][k] = n})
      BY <1>2, <2>1, LoadOfChildren DEF f, t
    <2> DEFINE K == {k \in t.nodes[d] : t.up[d][k] = n}
    <2>3. SumFunctionOnSet(z[d], K) = 0
      <3>1. IsFiniteSet(K) /\ {} \in SUBSET K
        BY <1>1, <2>1, FS_Subset DEF IsTree
      <3>2. \A k \in K : z[d][k] = 0 /\ z[d][k] \in Int
        BY <1>2, <2>1
      <3> HIDE DEF K
      <3>3. SumFunctionOnSet(z[d], K) = SumFunctionOnSet(z[d], {})
        BY <3>1, <3>2, SumSupport
      <3> QED BY <3>3, SumEmpty
    <2>4. z[d + 1][n] = 0
      BY <1>2, <2>1
    <2> QED BY <2>2, <2>3, <2>4
  <1>5. AreLoads(f, t) /\ AreLoads(z, t)
    BY <1>1, <1>3, <1>4 DEF AreLoads
  <1> QED BY <1>5 DEF f, z, t

(* The value of a bin: every changed shard counts as often as the bin is named for it. *)
LEMMA BinValue ==
  ASSUME NEW c, c.kind = "drain" \/ (c.kind = "capacity" /\ c.metric = 0),
         NEW e, NEW t, NEW maps, NEW m, NEW n, NEW children \in SUBSET Shards,
         NEW delta, DOMAIN delta = children, IsFiniteSet(children),
         \A k \in children : delta[k] = ParentTimes(t, maps, k, n) * Sign(c, maps, k, n) * ShardLoad(c)[k],
         \A k \in children : ParentTimes(t, maps, k, n) * Sign(c, maps, k, n) \in Int
  PROVE  Calculate(c, e, t, maps, m, 1, n, children)
           = ToInt(MapGetOr(m, <<1, n>>, 0) + SumFunctionOnSet(delta, children))
  <1>1. CASE c.kind = "drain"
    <2> DEFINE h == [k \in children |-> ParentTimes(t, maps, k, n) * Sign(c, maps, k, n)]
    <2>1. Calculate(c, e, t, maps, m, 1, n, children) = ToInt(MapGetOr(m, <<1, n>>, 0) + SumFunction(h))
      BY <1>1 DEF Calculate, ShardCountOperator
    <2>2. \A k \in children : h[k] = delta[k]
      BY <1>1 DEF ShardLoad
    <2>3. DOMAIN h = children
      OBVIOUS
    <2> HIDE DEF h
    <2>4. SumFunction(h) = SumFunctionOnSet(delta, children)
      BY <2>2, <2>3, SumEqual DEF SumFunction
    <2> QED BY <2>1, <2>4
  <1>2. CASE c.kind = "capacity" /\ c.metric = 0
    <2> DEFINE h == [k \in children |-> ParentTimes(t, maps, k, n) * Sign(c, maps, k, n) * SumMetric(c)[k]]
    <2>1. Calculate(c, e, t, maps, m, 1, n, children) = ToInt(MapGetOr(m, <<1, n>>, 0) + SumFunction(h))
      BY <1>2 DEF Calculate, SumOperator
    <2>2. \A k \in children : h[k] = delta[k]
      BY <1>2 DEF ShardLoad, SumMetric
    <2>3. DOMAIN h = children
      OBVIOUS
    <2> HIDE DEF h
    <2>4. SumFunction(h) = SumFunctionOnSet(delta, children)
      BY <2>2, <2>3, SumEqual DEF SumFunction
    <2> QED BY <2>1, <2>4
  <1> QED BY <1>1, <1>2

--------------------------------------------------------------------------------
(***************************************************************************)
(* The values of the bins, when a constraint is built and when a shard is  *)
(* moved.                                                                  *)
(***************************************************************************)

\* The values that are computed for the bins.
BinValues(c, e, t, maps, m, shards) ==
    [n \in ParentsWithChanges(t, maps, 0, shards) |->
       Calculate(c, e, t, maps, m, 1, n, ChangedChildren(t, maps, 1, n, shards))]

\* A constraint whose bins sumOperator or shardCountOperator compute from the loads, and
\* which counts a shard in its bin while nothing moves.
IsSummed(c) == /\ Placed(c) /\ FitsInt(c, 1)
               /\ c.kind = "drain" \/ (c.kind = "capacity" /\ c.metric = 0)
               /\ c.consistency \in {"AFTER", "BOTH"}

(* The exact constraints are such, and so are the BOTH capacities of bins. *)
LEMMA SummedConstraints ==
  ASSUME NEW c
  PROVE  /\ IsExact(c) => IsSummed(c)
         /\ IsBothCapacity(c) => IsSummed(c)
         /\ IsSummed(c) => c.domain \in Nat \ {0}
  <1>1. IsExact(c) => IsSummed(c)
    BY ExactIsPlaced DEF IsExact, IsSummed
  <1>2. ASSUME IsBothCapacity(c) PROVE IsSummed(c)
    <2>1. FitsInt(c, 2) /\ c.domain = 1 /\ c.kind = "capacity"
      BY <1>2 DEF IsBothCapacity
    <2>2. Placed(c)
      BY <2>1 DEF FitsInt, Placed
    <2>3. FitsInt(c, 1)
      <3> DEFINE total == SumFunction(ShardLoad(c))
      <3>1. 2 * total < IntLimit /\ (\A s \in Shards : ShardLoad(c)[s] \in Nat)
        BY <2>1 DEF FitsInt
      <3>2. total \in Nat
        BY <3>1, SearchAssumption, SumSubset DEF SumFunction, ShardLoad
      <3> HIDE DEF total
      <3>3. 1 * total < IntLimit
        BY <3>1, <3>2, IntLimitAssumption
      <3> QED BY <2>1, <3>3 DEF FitsInt, total
    <2> QED BY <1>2, <2>2, <2>3 DEF IsBothCapacity, IsSummed
  <1>3. IsSummed(c) => c.domain \in Nat \ {0}
    BY UpperTreeAssumption DEF IsSummed, Placed
  <1> QED BY <1>1, <1>2, <1>3

(* When a constraint is built every shard of its tree is added to its bin. *)
LEMMA BinsWhenBuilt ==
  ASSUME NEW c, IsSummed(c), initialBin \in [Shards -> Bins], NEW e, NEW m,
         NEW t, t = TreeOf(c),
         MetricsUpTo(m, 0, t, ZeroLoads(c), LoadsOf(c, initialBin))
  PROVE  AreValues(BinValues(c, e, t, <<EmptyMovements>>, m, AllShards(t)), 1, t,
                   ZeroLoads(c), LoadsOf(c, initialBin))
  <1> DEFINE maps == <<EmptyMovements>>
             shards == AllShards(t)
             Of(n) == {s \in Shards : initialBin[s] = n}
             parents == ParentsWithChanges(t, maps, 0, shards)
  <1>1. /\ c.domain \in Nat \ {0} /\ Height(t) = c.domain /\ 1 \in 1 .. c.domain
        /\ t.nodes[1] \subseteq Bins
        /\ t.binOf = [s \in Shards |-> IF initialBin[s] \in t.nodes[1] THEN initialBin[s] ELSE NoBin]
    <2>1. Placed(c) /\ c.domain \in Nat \ {0}
      BY SummedConstraints DEF IsSummed
    <2>2. 1 \in 1 .. c.domain /\ DomainIds(1) = Bins
      BY <2>1 DEF DomainIds
    <2> QED BY <2>1, <2>2, PartialTree
  <1>2. \A n \in t.nodes[1] : n # NoBin /\ n \in Bins
    BY <1>1, NoBinAssumption
  <1>3. shards = {s \in Shards : initialBin[s] \in t.nodes[1]}
    BY <1>1, <1>2 DEF AllShards
  <1>4. \A s \in Shards : maps[1].next[s] = NoBin /\ DOMAIN maps = {1}
    BY DEF EmptyMovements
  <1>5. \A n \in t.nodes[1], s \in Shards :
           ParentTimes(t, maps, s, n) = IF initialBin[s] = n THEN 1 ELSE 0
    <2> SUFFICES ASSUME NEW n \in t.nodes[1], NEW s \in Shards
                 PROVE  ParentTimes(t, maps, s, n) = IF initialBin[s] = n THEN 1 ELSE 0
      OBVIOUS
    <2>1. {i \in DOMAIN maps : maps[i].next[s] = n} = {}
      BY <1>2, <1>4
    <2>2. Cardinality({i \in DOMAIN maps : maps[i].next[s] = n}) = 0
      BY <2>1, FS_EmptySet
    <2>3. t.binOf[s] = n <=> initialBin[s] = n
      BY <1>1, <1>2
    <2> HIDE DEF maps
    <2> QED BY <2>2, <2>3 DEF ParentTimes
  <1>6. \A n \in t.nodes[1], s \in Shards : Sign(c, maps, s, n) = 1
    BY <1>4 DEF Sign, ShouldConsiderShard, IsSummed
  <1> HIDE DEF maps
  <1>7. parents = {n \in t.nodes[1] : \E s \in shards : initialBin[s] = n}
    <2>1. \A n \in t.nodes[1], s \in Shards : ParentTimes(t, maps, s, n) > 0 <=> initialBin[s] = n
      BY <1>5
    <2> QED BY <1>3, <2>1 DEF ParentsWithChanges
  <1>8. \A n \in t.nodes[1] : ChangedChildren(t, maps, 1, n, shards) = Of(n)
    <2>1. \A n \in t.nodes[1], s \in Shards : ParentTimes(t, maps, s, n) > 0 <=> initialBin[s] = n
      BY <1>5
    <2> QED BY <1>3, <2>1 DEF ChangedChildren
  <1> HIDE DEF shards
  <1>9. \A n \in t.nodes[1] : /\ LoadsOf(c, initialBin)[1][n] = Load(c, initialBin, 1, n)
                              /\ ZeroLoads(c)[1][n] = 0
    BY <1>1 DEF LoadsOf, ZeroLoads
  <1>10. \A n \in t.nodes[1] : Load(c, initialBin, 1, n) = SumFunctionOnSet(ShardLoad(c), Of(n))
    <2>1. \A s \in Shards : NodeOf(initialBin[s], 1) = initialBin[s]
      BY NodeOfStep
    <2>2. \A n : {s \in Shards : NodeOf(initialBin[s], 1) = n} = Of(n)
      BY <2>1
    <2> QED BY <2>2 DEF Load
  <1>11. ASSUME NEW n \in t.nodes[1]
         PROVE  Calculate(c, e, t, maps, m, 1, n, ChangedChildren(t, maps, 1, n, shards))
                  = Load(c, initialBin, 1, n)
    <2>1. MapGetOr(m, <<1, n>>, 0) = 0
      BY <1>1, <1>9 DEF MetricsUpTo
    <2> DEFINE delta == [s \in Of(n) |-> ShardLoad(c)[s]]
    <2>2. Of(n) \in SUBSET Shards /\ DOMAIN delta = Of(n) /\ IsFiniteSet(Of(n))
      BY SearchAssumption, FS_Subset
    <2>3. \A s \in Of(n) : /\ ShardLoad(c)[s] \in Nat
                           /\ ParentTimes(t, maps, s, n) = 1 /\ Sign(c, maps, s, n) = 1
                           /\ delta[s] = ShardLoad(c)[s]
      BY <1>5, <1>6 DEF IsSummed, FitsInt
    <2> HIDE DEF delta, Of
    <2>4. \A s \in Of(n) : /\ delta[s] = ParentTimes(t, maps, s, n) * Sign(c, maps, s, n) * ShardLoad(c)[s]
                           /\ ParentTimes(t, maps, s, n) * Sign(c, maps, s, n) \in Int
      BY <2>3
    <2>5. Calculate(c, e, t, maps, m, 1, n, Of(n)) = ToInt(MapGetOr(m, <<1, n>>, 0) + SumFunctionOnSet(delta, Of(n)))
      <3>1. c.kind = "drain" \/ (c.kind = "capacity" /\ c.metric = 0)
        BY DEF IsSummed
      <3> QED BY <2>2, <2>4, <3>1, BinValue
    <2>6. SumFunctionOnSet(delta, Of(n)) = Load(c, initialBin, 1, n)
      BY <1>10, <2>2, <2>3, SumEqual
    <2>7. Load(c, initialBin, 1, n) \in 0 .. IntLimit - 1
      BY LoadBounds DEF IsSummed
    <2>8. ToInt(0 + Load(c, initialBin, 1, n)) = Load(c, initialBin, 1, n)
      BY <2>7, ToIntIdentity, IntLimitAssumption
    <2> QED BY <1>8, <2>1, <2>5, <2>6, <2>8
  <1>12. ASSUME NEW n \in t.nodes[1] \ parents
         PROVE  Load(c, initialBin, 1, n) = 0
    <2>1. Of(n) = {}
      BY <1>3, <1>7
    <2> QED BY <1>10, <2>1, SumEmpty
  <1> HIDE DEF parents
  <1>13. AreValues([n \in parents |-> Calculate(c, e, t, maps, m, 1, n, ChangedChildren(t, maps, 1, n, shards))],
                   1, t, ZeroLoads(c), LoadsOf(c, initialBin))
    <2>1. parents \subseteq t.nodes[1]
      BY <1>7
    <2> QED BY <1>9, <1>11, <1>12, <2>1 DEF AreValues
  <1> QED BY <1>13 DEF BinValues, parents, maps, shards

\* The arrangement B is A after the move of s to another bin, b.
IsMove(A, s, b, B) == /\ A \in [Shards -> Bins] /\ s \in Shards /\ b \in Bins
                      /\ b # A[s]
                      /\ B = [A EXCEPT ![s] = b]

(* A move changes the load of two bins. *)
LEMMA MoveChangesLoads ==
  ASSUME NEW c, FitsInt(c, 1), NEW A, NEW s, NEW b, NEW A2, IsMove(A, s, b, A2), NEW n \in Bins
  PROVE  /\ ShardLoad(c)[s] \in Nat
         /\ Load(c, A2, 1, n)
               = IF n = b THEN Load(c, A, 1, n) + ShardLoad(c)[s]
                 ELSE IF n = A[s] THEN Load(c, A, 1, n) - ShardLoad(c)[s]
                 ELSE Load(c, A, 1, n)
  <1> DEFINE S == {x \in Shards : A[x] = n}
             S2 == {x \in Shards : A2[x] = n}
             f == ShardLoad(c)
  <1> USE DEF IsMove
  <1>1. Load(c, A, 1, n) = SumFunctionOnSet(f, S) /\ Load(c, A2, 1, n) = SumFunctionOnSet(f, S2)
    <2>1. \A x \in Shards : NodeOf(A[x], 1) = A[x] /\ NodeOf(A2[x], 1) = A2[x]
      BY NodeOfStep
    <2>2. {x \in Shards : NodeOf(A[x], 1) = n} = S /\ {x \in Shards : NodeOf(A2[x], 1) = n} = S2
      BY <2>1
    <2> QED BY <2>2 DEF Load
  <1>2. IsFiniteSet(S) /\ IsFiniteSet(S2) /\ (\A x \in Shards : f[x] \in Nat)
    BY SearchAssumption, FS_Subset DEF FitsInt
  <1>3. (\A x \in S : f[x] \in Int) /\ (\A x \in S2 : f[x] \in Int) /\ f[s] \in Int
    BY <1>2
  <1>4. CASE n = b
    <2>1. S2 = S \cup {s} /\ s \notin S
      BY <1>4
    <2> HIDE DEF S, S2, f
    <2>2. SumFunctionOnSet(f, S2) = f[s] + SumFunctionOnSet(f, S) /\ SumFunctionOnSet(f, S) \in Int
      BY <1>2, <1>3, <2>1, SumAdd, SumType
    <2> QED BY <1>1, <1>2, <1>3, <1>4, <2>2 DEF f
  <1>5. CASE n # b /\ n = A[s]
    <2>1. S2 = S \ {s} /\ s \in S
      BY <1>5
    <2> HIDE DEF S, S2, f
    <2>2. SumFunctionOnSet(f, S) = f[s] + SumFunctionOnSet(f, S2) /\ SumFunctionOnSet(f, S2) \in Int
      BY <1>2, <1>3, <2>1, SumRemove, SumType
    <2> QED BY <1>1, <1>2, <1>3, <1>5, <2>2 DEF f
  <1>6. CASE n # b /\ n # A[s]
    <2>1. S2 = S
      BY <1>6
    <2> QED BY <1>1, <1>2, <1>6, <2>1
  <1> QED BY <1>4, <1>5, <1>6

(* A trial takes its shard out of its bin and adds it to its target. *)
LEMMA BinsWhenTried ==
  ASSUME NEW c, IsExact(c), initialBin \in [Shards -> Bins], NEW e, NEW m,
         NEW t, t = TreeOf(c), NEW A \in [Shards -> Bins], NEW s \in Shards, NEW b \in Bins,
         A[s] = initialBin[s], b # A[s],
         NEW m2, m2.next[s] = NoBin, NEW m3, m3.next[s] = b,
         MetricsUpTo(m, 0, t, LoadsOf(c, A), LoadsOf(c, [A EXCEPT ![s] = b]))
  PROVE  AreValues(BinValues(c, e, t, <<EmptyMovements, m2, m3>>, m, {s}), 1, t,
                   LoadsOf(c, A), LoadsOf(c, [A EXCEPT ![s] = b]))
  <1> DEFINE maps == <<EmptyMovements, m2, m3>>
             A2 == [A EXCEPT ![s] = b]
             parents == ParentsWithChanges(t, maps, 0, {s})
  <1>1. /\ c.domain \in Nat \ {0} /\ Height(t) = c.domain /\ 1 \in 1 .. c.domain
        /\ t.nodes[1] \subseteq Bins
        /\ t.binOf[s] = IF A[s] \in t.nodes[1] THEN A[s] ELSE NoBin
    <2>1. Placed(c) /\ c.domain \in Nat \ {0}
      BY ExactIsPlaced
    <2>2. 1 \in 1 .. c.domain /\ DomainIds(1) = Bins
      BY <2>1 DEF DomainIds
    <2>3. t.binOf = [x \in Shards |-> IF initialBin[x] \in t.nodes[1] THEN initialBin[x] ELSE NoBin]
      BY <2>1, PartialTree
    <2> QED BY <2>1, <2>2, <2>3, PartialTree
  <1>2. \A n \in t.nodes[1] : n # NoBin /\ n \in Bins
    BY <1>1, NoBinAssumption
  <1>3. /\ DOMAIN maps = {1, 2, 3}
        /\ maps[1].next[s] = NoBin /\ maps[2].next[s] = NoBin /\ maps[3].next[s] = b
    BY DEF EmptyMovements
  <1>4. b # NoBin /\ A[s] # NoBin
    BY NoBinAssumption
  <1> HIDE DEF maps
  <1>a. IsMove(A, s, b, A2)
    BY DEF IsMove
  <1>5. \A n \in t.nodes[1] : ParentTimes(t, maps, s, n) = IF n = b \/ n = A[s] THEN 1 ELSE 0
    <2> SUFFICES ASSUME NEW n \in t.nodes[1]
                 PROVE  ParentTimes(t, maps, s, n) = IF n = b \/ n = A[s] THEN 1 ELSE 0
      OBVIOUS
    <2>1. {i \in DOMAIN maps : maps[i].next[s] = n} = IF n = b THEN {3} ELSE {}
      BY <1>2, <1>3
    <2>2. Cardinality({3}) = 1 /\ Cardinality({}) = 0
      BY FS_EmptySet, FS_Singleton
    <2>3. Cardinality({i \in DOMAIN maps : maps[i].next[s] = n}) = IF n = b THEN 1 ELSE 0
      BY <2>1, <2>2
    <2>4. t.binOf[s] = n <=> n = A[s]
      BY <1>1, <1>2
    <2> QED BY <2>3, <2>4 DEF ParentTimes
  <1>6. \A n \in t.nodes[1] : Sign(c, maps, s, n) = IF n = b THEN 1 ELSE -1
    <2> SUFFICES ASSUME NEW n \in t.nodes[1]
                 PROVE  Sign(c, maps, s, n) = IF n = b THEN 1 ELSE -1
      OBVIOUS
    <2>1. (\A i \in DOMAIN maps : maps[i].next[s] \in {NoBin, n}) <=> n = b
      BY <1>3, <1>4
    <2> QED BY <2>1 DEF Sign, ShouldConsiderShard, IsExact
  <1>7. parents = {n \in t.nodes[1] : n = b \/ n = A[s]}
    BY <1>5 DEF ParentsWithChanges
  <1>8. \A n \in parents : ChangedChildren(t, maps, 1, n, {s}) = {s}
    BY <1>5, <1>7 DEF ChangedChildren
  <1>9. \A n \in t.nodes[1] : /\ LoadsOf(c, A)[1][n] = Load(c, A, 1, n)
                              /\ LoadsOf(c, A2)[1][n] = Load(c, A2, 1, n)
    BY <1>1 DEF LoadsOf
  <1>10. \A n \in t.nodes[1] :
            /\ ShardLoad(c)[s] \in Nat
            /\ Load(c, A2, 1, n) = IF n = b THEN Load(c, A, 1, n) + ShardLoad(c)[s]
                                   ELSE IF n = A[s] THEN Load(c, A, 1, n) - ShardLoad(c)[s]
                                   ELSE Load(c, A, 1, n)
    <2> SUFFICES ASSUME NEW n \in t.nodes[1]
                 PROVE  /\ ShardLoad(c)[s] \in Nat
                        /\ Load(c, A2, 1, n) = IF n = b THEN Load(c, A, 1, n) + ShardLoad(c)[s]
                                               ELSE IF n = A[s] THEN Load(c, A, 1, n) - ShardLoad(c)[s]
                                               ELSE Load(c, A, 1, n)
      OBVIOUS
    <2>1. n \in Bins
      BY <1>2
    <2> HIDE DEF A2
    <2> QED BY <1>a, <2>1, MoveChangesLoads DEF IsExact
  <1> HIDE DEF A2
  <1>11. ASSUME NEW n \in parents
         PROVE  Calculate(c, e, t, maps, m, 1, n, ChangedChildren(t, maps, 1, n, {s})) = Load(c, A2, 1, n)
    <2>0. n \in t.nodes[1]
      BY <1>7
    <2>1. MapGetOr(m, <<1, n>>, 0) = Load(c, A, 1, n)
      <3>1. ~(1 <= 0)
        OBVIOUS
      <3> QED BY <1>1, <1>9, <2>0, <3>1 DEF MetricsUpTo
    <2> DEFINE p == ParentTimes(t, maps, s, n) * Sign(c, maps, s, n)
               delta == [k \in {s} |-> p * ShardLoad(c)[k]]
    <2>2. /\ p = IF n = b THEN 1 ELSE -1
          /\ ShardLoad(c)[s] \in Nat
      <3>1. ParentTimes(t, maps, s, n) = 1
        BY <1>5, <1>7
      <3> QED BY <1>6, <1>10, <2>0, <3>1
    <2>3. delta[s] = IF n = b THEN ShardLoad(c)[s] ELSE -ShardLoad(c)[s]
      <3> HIDE DEF p
      <3> QED BY <2>2
    <2>4. DOMAIN delta = {s} /\ IsFiniteSet({s}) /\ {s} \in SUBSET Shards
      BY FS_Singleton
    <2>5. (\A k \in {s} : delta[k] = ParentTimes(t, maps, k, n) * Sign(c, maps, k, n) * ShardLoad(c)[k])
      OBVIOUS
    <2>6. (\A k \in {s} : ParentTimes(t, maps, k, n) * Sign(c, maps, k, n) \in Int)
      BY <2>2
    <2> HIDE DEF p, delta
    <2>7. Calculate(c, e, t, maps, m, 1, n, {s}) = ToInt(MapGetOr(m, <<1, n>>, 0) + SumFunctionOnSet(delta, {s}))
      <3>1. c.kind = "drain" \/ (c.kind = "capacity" /\ c.metric = 0)
        BY DEF IsExact
      <3> QED BY <2>4, <2>5, <2>6, <3>1, BinValue
    <2>8. SumFunctionOnSet(delta, {s}) = delta[s]
      <3>1. delta[s] \in Int
        BY <2>2, <2>3
      <3> QED BY <3>1, SumSingleton
    <2>9. Load(c, A, 1, n) \in Int /\ Load(c, A2, 1, n) \in 0 .. IntLimit - 1
      BY LoadBounds, IntLimitAssumption DEF IsExact
    <2>10. Load(c, A, 1, n) + delta[s] = Load(c, A2, 1, n)
      BY <1>7, <1>10, <2>0, <2>2, <2>3, <2>9
    <2> QED BY <1>8, <2>1, <2>7, <2>8, <2>9, <2>10, ToIntIdentity
  <1>12. ASSUME NEW n \in t.nodes[1] \ parents PROVE Load(c, A2, 1, n) = Load(c, A, 1, n)
    BY <1>7, <1>10
  <1>13. parents \subseteq t.nodes[1]
    BY <1>7
  <1> HIDE DEF parents
  <1>14. AreValues([n \in parents |-> Calculate(c, e, t, maps, m, 1, n, ChangedChildren(t, maps, 1, n, {s}))],
                   1, t, LoadsOf(c, A), LoadsOf(c, A2))
    <2> DEFINE v == [n \in parents |-> Calculate(c, e, t, maps, m, 1, n, ChangedChildren(t, maps, 1, n, {s}))]
    <2>1. DOMAIN v = parents /\ \A n \in parents : v[n] = Load(c, A2, 1, n)
      BY <1>11
    <2> HIDE DEF v
    <2>2. AreValues(v, 1, t, LoadsOf(c, A), LoadsOf(c, A2))
      BY <1>9, <1>12, <1>13, <2>1 DEF AreValues
    <2> QED BY <2>2 DEF v
  <1> QED BY <1>14 DEF BinValues, parents, maps, A2

--------------------------------------------------------------------------------
(***************************************************************************)
(* The evaluation of a constraint: its faults fit their integer, and the   *)
(* deltas it adds to the weights are the differences of its faults.        *)
(***************************************************************************)

\* What a node with the load x costs.
Fault(c, x) == IF c.kind = "capacity"
               THEN IF x > c.limit THEN (x - c.limit) * c.faultWeight ELSE 0
               ELSE x * c.faultWeight

\* The committed values of the state of constraint c are those of the loads f.
StateOf(c, st, f) ==
    /\ IsMap(st.metrics["sum"]) /\ IsMap(st.faults)
    /\ \A d \in 1 .. c.domain : \A n \in TreeOf(c).nodes[d] :
          MapCommittedOr(st.metrics["sum"], <<d, n>>, 0) = f[d][n]
    /\ \A n \in c.ids : MapCommittedOr(st.faults, n, 0) = Fault(c, f[c.domain][n])

\* The values of its canary layers are those of the loads f.
CanaryOf(c, st, f) ==
    /\ \A d \in 1 .. c.domain : \A n \in TreeOf(c).nodes[d] :
          MapGetOr(st.metrics["sum"], <<d, n>>, 0) = f[d][n]
    /\ \A n \in c.ids : MapGetOr(st.faults, n, 0) = Fault(c, f[c.domain][n])

\* The weights that an evaluation adds take the cost of the old loads to that of the new.
DeltasOf(c, eval, old, new) ==
    /\ eval.toBins = (c.domain = 1)
    /\ DOMAIN eval.deltas \subseteq c.ids
    /\ \A n \in c.ids : IF n \in DOMAIN eval.deltas
                        THEN eval.deltas[n] = Fault(c, new[c.domain][n]) - Fault(c, old[c.domain][n])
                        ELSE Fault(c, new[c.domain][n]) = Fault(c, old[c.domain][n])

(* A constraint without values has those of no loads; the cost of no load is 0. *)
LEMMA NoLoadNoFault == ASSUME NEW c, IsExact(c) PROVE Fault(c, 0) = 0
  BY DEF Fault, IsExact

(* The cost of a load is an integer, and that of a load that occurs fits an int. *)
LEMMA FaultFits ==
  ASSUME NEW c, IsExact(c), NEW x \in Nat
  PROVE  /\ Fault(c, x) \in Int
         /\ x <= SumFunction(ShardLoad(c)) /\ c.kind = "capacity" => CapacityFault(c, x) = Fault(c, x)
         /\ c.kind = "drain" => DrainFault(c, x) = Fault(c, x)
  <1> DEFINE S == SumFunction(ShardLoad(c))
             w == c.faultWeight
  <1>1. w \in Nat /\ S \in Nat
    BY LoadBounds DEF IsExact
  <1>2. CASE c.kind = "drain"
    BY <1>1, <1>2 DEF Fault, DrainFault
  <1>3. CASE c.kind = "capacity"
    <2>1. c.limit \in Nat /\ S * w < IntLimit
      BY <1>3 DEF IsExact
    <2> DEFINE y == x - c.limit
    <2>2. CASE x > c.limit
      <3>1. y \in Nat /\ y \in Int /\ x = y + c.limit
        BY <2>1, <2>2
      <3> HIDE DEF y, S, w
      <3>2. y * w \in Nat
        BY <1>1, <3>1
      <3>3. ASSUME x <= S PROVE y * w < IntLimit
        <4>1. S - y \in Nat /\ (S - y) * w \in Nat
          <5>1. S - y \in Nat
            BY <1>1, <2>1, <3>1, <3>3
          <5> QED BY <1>1, <5>1
        <4>2. (S - y) * w = S * w - y * w
          BY <1>1, <3>1
        <4>3. S * w \in Nat
          BY <1>1
        <4> QED BY <2>1, <3>2, <4>1, <4>2, <4>3, IntLimitAssumption
      <3>4. ASSUME x <= S PROVE ToInt(y * w) = y * w
        <4>1. y * w \in 0 .. IntLimit - 1
          BY <3>2, <3>3, <3>4, IntLimitAssumption
        <4> QED BY <4>1, ToIntIdentity
      <3> QED BY <1>3, <2>2, <3>2, <3>4 DEF Fault, CapacityFault, y, S, w
    <2>3. CASE ~(x > c.limit)
      BY <1>3, <2>3 DEF Fault, CapacityFault
    <2> QED BY <2>2, <2>3
  <1> QED BY <1>2, <1>3 DEF IsExact

\* What an evaluation needs to know: the loads that the constraint's clean state
\* stands for, and the values it computes for the bins.
Evaluates(c, st, t, maps, shards, old, new) ==
    /\ t = TreeOf(c)
    /\ AreLoads(old, t) /\ AreLoads(new, t)
    /\ \A n \in c.ids : new[c.domain][n] <= SumFunction(ShardLoad(c))
    /\ StateOf(c, st, old) /\ CanaryOf(c, st, old)
    /\ AreValues(BinValues(c, "sum", t, maps, st.metrics["sum"], shards), 1, t, old, new)

(* An evaluation leaves the new loads, and what they cost, in the canary layers and the
   old ones in the committed layers; its deltas are what the cost changes by. *)
LEMMA EvaluateExact ==
  ASSUME NEW c, IsExact(c), NEW st, NEW t, NEW maps, NEW shards, NEW old, NEW new,
         Evaluates(c, st, t, maps, shards, old, new),
         NEW eval, eval = Evaluate(c, st, t, maps, shards)
  PROVE  /\ StateOf(c, eval.state, old)
         /\ CanaryOf(c, eval.state, new)
         /\ DeltasOf(c, eval, old, new)
  <1> DEFINE m == st.metrics["sum"]
             level == Propagate(c, "sum", t, m, maps, shards)
             H == c.domain
             values == level[H].values
             faults == [n \in DOMAIN values |-> IF c.kind = "capacity" THEN CapacityFault(c, values[n])
                                                ELSE DrainFault(c, values[n])]
  <1>1. /\ H \in Nat \ {0} /\ H \in 1 .. H /\ IsTree(t) /\ Height(t) = H /\ t.nodes[H] = c.ids
        /\ c.kind = "capacity" \/ Height(t) = 1
        /\ c.kind = "capacity" \/ c.kind = "drain"
    <2>1. t = TreeOf(c)
      BY DEF Evaluates
    <2>2. /\ Placed(c) /\ H \in Nat \ {0} /\ IsTree(t)
          /\ c.kind = "capacity" \/ Height(t) = 1
      BY <2>1, ExactIsPlaced
    <2>3. Height(t) = H /\ t.nodes[H] = c.ids
      BY <2>1, <2>2, PartialTree
    <2>4. c.kind = "capacity" \/ c.kind = "drain"
      BY DEF IsExact
    <2> QED BY <2>2, <2>3, <2>4
  <1>2. MetricsUpTo(m, 0, t, old, new)
    <2>1. \A x \in 1 .. H : ~(x <= 0)
      BY <1>1
    <2> QED BY <1>1, <2>1 DEF MetricsUpTo, Evaluates, StateOf, CanaryOf
  <1>3. \A d \in 1 .. H : LevelOK(level[d], d, t, old, new)
    <2>1. AreValues([n \in ParentsWithChanges(t, maps, 0, shards) |->
                      Calculate(c, "sum", t, maps, m, 1, n,
                                ChangedChildren(t, maps, 1, n, shards))], 1, t, old, new)
      BY DEF Evaluates, BinValues
    <2>2. level = Propagate(c, "sum", t, m, maps, shards)
      OBVIOUS
    <2>3. AreLoads(old, t) /\ AreLoads(new, t)
      BY DEF Evaluates
    <2> HIDE DEF level, m
    <2> QED BY <1>1, <1>2, <2>1, <2>2, <2>3, PropagateExact
  <1>4. /\ MetricsUpTo(level[H].metrics, H, t, old, new)
        /\ AreValues(values, H, t, old, new)
    BY <1>1, <1>3 DEF LevelOK
  <1>5. eval = Evaluation([e \in {"sum"} |-> level[H].metrics], MapSetCanary(st.faults, faults), H = 1,
                          [n \in {n \in DOMAIN values : faults[n] - MapGetOr(st.faults, n, 0) # 0}
                             |-> faults[n] - MapGetOr(st.faults, n, 0)])
    <2>1. Trees(c) = {"sum"} /\ c.kind # "balance"
      BY <1>1 DEF Trees
    <2>2. PICK levels : levels = [e \in {"sum"} |-> Propagate(c, e, t, st.metrics[e], maps, shards)]
      OBVIOUS
    <2>3. levels["sum"] = level
      BY <2>2
    <2>4. eval = Weigh(c, st, t, levels)
      BY <2>1, <2>2 DEF Evaluate
    <2>5. [e \in {"sum"} |-> levels[e][H].metrics] = [e \in {"sum"} |-> level[H].metrics]
      BY <2>3
    <2> HIDE DEF level
    <2>6. eval = UpdateWeightIfPossible(c, [e \in {"sum"} |-> level[H].metrics], st.faults, values)
      BY <1>1, <2>1, <2>3, <2>4, <2>5 DEF Weigh
    <2> HIDE DEF values
    <2> QED BY <2>6 DEF UpdateWeightIfPossible
  <1> DEFINE deltas == [n \in {n \in DOMAIN values : faults[n] - MapGetOr(st.faults, n, 0) # 0}
                             |-> faults[n] - MapGetOr(st.faults, n, 0)]
             F(n) == Fault(c, new[H][n])
             G(n) == Fault(c, old[H][n])
  <1>6. /\ eval.state.metrics["sum"] = level[H].metrics
        /\ eval.state.faults = MapSetCanary(st.faults, faults)
        /\ eval.toBins = (H = 1)
        /\ eval.deltas = deltas
    <2> HIDE DEF level, values, faults
    <2> QED BY <1>5 DEF Evaluation
  <1>7. ASSUME NEW n \in c.ids
        PROVE  /\ F(n) \in Int /\ G(n) \in Int
               /\ n \in DOMAIN values => faults[n] = F(n)
               /\ n \notin DOMAIN values => F(n) = G(n)
               /\ MapGetOr(st.faults, n, 0) = G(n) /\ MapCommittedOr(st.faults, n, 0) = G(n)
    <2>1. old[H][n] \in Nat /\ new[H][n] \in Nat /\ new[H][n] <= SumFunction(ShardLoad(c))
      BY <1>1, IntLimitAssumption DEF Evaluates, AreLoads
    <2>2. F(n) \in Int /\ G(n) \in Int
      BY <2>1, FaultFits
    <2>3. n \in DOMAIN values => values[n] = new[H][n]
      BY <1>4 DEF AreValues
    <2>4. n \notin DOMAIN values => new[H][n] = old[H][n]
      BY <1>1, <1>4 DEF AreValues
    <2> HIDE DEF values
    <2>5. ASSUME n \in DOMAIN values PROVE faults[n] = F(n)
      <3>1. faults[n] = IF c.kind = "capacity" THEN CapacityFault(c, new[H][n]) ELSE DrainFault(c, new[H][n])
        BY <2>3, <2>5
      <3>2. CASE c.kind = "capacity"
        BY <2>1, <3>1, <3>2, FaultFits
      <3>3. CASE c.kind = "drain"
        BY <2>1, <3>1, <3>3, FaultFits
      <3> QED BY <1>1, <3>2, <3>3
    <2>6. MapGetOr(st.faults, n, 0) = G(n) /\ MapCommittedOr(st.faults, n, 0) = G(n)
      BY DEF Evaluates, StateOf, CanaryOf
    <2> QED BY <2>2, <2>4, <2>5, <2>6
  <1>8. DOMAIN values \subseteq c.ids /\ DOMAIN faults = DOMAIN values
    BY <1>1, <1>4 DEF AreValues
  <1> HIDE DEF level, values, faults, F, G
  <1>9. /\ DOMAIN deltas = {n \in DOMAIN values : faults[n] - MapGetOr(st.faults, n, 0) # 0}
        /\ \A n \in DOMAIN deltas : deltas[n] = faults[n] - MapGetOr(st.faults, n, 0)
    OBVIOUS
  <1> HIDE DEF deltas
  <1>10. DeltasOf(c, eval, old, new)
    <2>1. DOMAIN deltas \subseteq c.ids
      BY <1>8, <1>9
    <2>2. ASSUME NEW n \in c.ids
          PROVE  IF n \in DOMAIN deltas THEN deltas[n] = F(n) - G(n) ELSE F(n) = G(n)
      BY <1>7, <1>9
    <2> QED BY <1>6, <2>1, <2>2 DEF DeltasOf, F, G
  <1>11. IsMap(st.faults)
    BY DEF Evaluates, StateOf
  <1>12. /\ IsMap(eval.state.faults)
         /\ \A n \in c.ids : MapCommittedOr(eval.state.faults, n, 0) = G(n)
         /\ \A n \in c.ids : MapGetOr(eval.state.faults, n, 0) = F(n)
    <2>1. /\ IsMap(eval.state.faults)
          /\ \A n : /\ MapGetOr(eval.state.faults, n, 0)
                            = IF n \in DOMAIN values THEN faults[n] ELSE MapGetOr(st.faults, n, 0)
                    /\ MapCommittedOr(eval.state.faults, n, 0) = MapCommittedOr(st.faults, n, 0)
      BY <1>6, <1>8, <1>11, MapSetFacts
    <2> QED BY <1>7, <2>1
  <1>13. /\ IsMap(level[H].metrics)
         /\ \A d \in 1 .. H : \A n \in t.nodes[d] :
                /\ MapCommittedOr(level[H].metrics, <<d, n>>, 0) = old[d][n]
                /\ MapGetOr(level[H].metrics, <<d, n>>, 0) = new[d][n]
    BY <1>1, <1>4 DEF MetricsUpTo
  <1>14. t = TreeOf(c)
    BY DEF Evaluates
  <1> QED BY <1>6, <1>10, <1>12, <1>13, <1>14 DEF StateOf, CanaryOf, F, G

--------------------------------------------------------------------------------
(***************************************************************************)
(* Clearing, committing and building a constraint, and evaluating it for a *)
(* trial.                                                                  *)
(***************************************************************************)

(* clear makes the committed values the ones that are read. *)
LEMMA ClearedState ==
  ASSUME NEW c, IsExact(c), NEW st, NEW f, StateOf(c, st, f)
  PROVE  StateOf(c, ClearConstraint(c, st), f) /\ CanaryOf(c, ClearConstraint(c, st), f)
  <1>1. "sum" \in Trees(c)
    BY DEF Trees, IsExact
  <1>2. /\ ClearConstraint(c, st).metrics["sum"] = MapClear(st.metrics["sum"])
        /\ ClearConstraint(c, st).faults = MapClear(st.faults)
    BY <1>1 DEF ClearConstraint
  <1>3. IsMap(st.metrics["sum"]) /\ IsMap(st.faults)
    BY DEF StateOf
  <1>4. /\ IsMap(ClearConstraint(c, st).metrics["sum"])
        /\ \A k, v : /\ MapGetOr(ClearConstraint(c, st).metrics["sum"], k, v) = MapCommittedOr(st.metrics["sum"], k, v)
                     /\ MapCommittedOr(ClearConstraint(c, st).metrics["sum"], k, v) = MapCommittedOr(st.metrics["sum"], k, v)
    BY <1>2, <1>3, MapClearFacts
  <1>5. /\ IsMap(ClearConstraint(c, st).faults)
        /\ \A k, v : /\ MapGetOr(ClearConstraint(c, st).faults, k, v) = MapCommittedOr(st.faults, k, v)
                     /\ MapCommittedOr(ClearConstraint(c, st).faults, k, v) = MapCommittedOr(st.faults, k, v)
    BY <1>2, <1>3, MapClearFacts
  <1> QED BY <1>4, <1>5 DEF StateOf, CanaryOf

(* commitMoves makes the canary values the committed ones. *)
LEMMA CommittedState ==
  ASSUME NEW c, IsExact(c), NEW st, NEW old, NEW new, StateOf(c, st, old), CanaryOf(c, st, new)
  PROVE  StateOf(c, CommitConstraint(c, st), new)
  <1>1. "sum" \in Trees(c)
    BY DEF Trees, IsExact
  <1>2. /\ CommitConstraint(c, st).metrics["sum"] = MapCommit(st.metrics["sum"])
        /\ CommitConstraint(c, st).faults = MapCommit(st.faults)
    BY <1>1 DEF CommitConstraint
  <1>3. IsMap(st.metrics["sum"]) /\ IsMap(st.faults)
    BY DEF StateOf
  <1>4. /\ IsMap(CommitConstraint(c, st).metrics["sum"])
        /\ \A k, v : MapCommittedOr(CommitConstraint(c, st).metrics["sum"], k, v) = MapGetOr(st.metrics["sum"], k, v)
    BY <1>2, <1>3, MapCommitFacts
  <1>5. /\ IsMap(CommitConstraint(c, st).faults)
        /\ \A k, v : MapCommittedOr(CommitConstraint(c, st).faults, k, v) = MapGetOr(st.faults, k, v)
    BY <1>2, <1>3, MapCommitFacts
  <1> QED BY <1>4, <1>5 DEF StateOf, CanaryOf

(* A constraint that was not built has the values of no loads. *)
LEMMA EmptyState ==
  ASSUME NEW c, IsExact(c)
  PROVE  StateOf(c, EmptyConstraint(c), ZeroLoads(c)) /\ CanaryOf(c, EmptyConstraint(c), ZeroLoads(c))
  <1>1. "sum" \in Trees(c)
    BY DEF Trees, IsExact
  <1>2. EmptyConstraint(c).metrics["sum"] = EmptyMap /\ EmptyConstraint(c).faults = EmptyMap
    BY <1>1 DEF EmptyConstraint
  <1>3. \A d \in 1 .. c.domain : \A n \in TreeOf(c).nodes[d] : ZeroLoads(c)[d][n] = 0
    BY DEF ZeroLoads
  <1>4. \A n \in c.ids : Fault(c, ZeroLoads(c)[c.domain][n]) = 0
    <2>1. c.domain \in Nat \ {0} /\ c.ids = TreeOf(c).nodes[c.domain]
      BY ExactIsPlaced, PartialTree
    <2> QED BY <1>3, <2>1, NoLoadNoFault
  <1> QED BY <1>2, <1>3, <1>4, EmptyMapFacts DEF StateOf, CanaryOf

(* The constructor of a constraint computes the loads of the assignment tree. *)
LEMMA BuiltEvaluation ==
  ASSUME NEW c, IsExact(c), initialBin \in [Shards -> Bins],
         NEW eval, eval = InitializeMetricState(c, EmptyConstraint(c))
  PROVE  /\ StateOf(c, eval.state, ZeroLoads(c))
         /\ CanaryOf(c, eval.state, LoadsOf(c, initialBin))
         /\ DeltasOf(c, eval, ZeroLoads(c), LoadsOf(c, initialBin))
  <1> DEFINE t == TreeOf(c)
             st == EmptyConstraint(c)
             new == LoadsOf(c, initialBin)
             old == ZeroLoads(c)
             maps == <<EmptyMovements>>
  <1>1. ConstraintTree(c, AssignmentTree) = t
    BY DEF ConstraintTree, TreeOf, IsExact
  <1>2. eval = Evaluate(c, st, t, maps, AllShards(t))
    BY <1>1 DEF InitializeMetricState
  <1>3. StateOf(c, st, old) /\ CanaryOf(c, st, old)
    BY EmptyState
  <1>4. AreLoads(old, t) /\ AreLoads(new, t)
    BY LoadsAdd
  <1>5. Height(t) = c.domain /\ t.nodes[c.domain] = c.ids /\ c.domain \in Nat \ {0}
    BY ExactIsPlaced, PartialTree
  <1>6. MetricsUpTo(st.metrics["sum"], 0, t, old, new)
    <2>1. \A x \in 1 .. c.domain : ~(x <= 0)
      BY <1>5
    <2> QED BY <1>3, <1>5, <2>1 DEF MetricsUpTo, StateOf, CanaryOf
  <1>7. AreValues(BinValues(c, "sum", t, maps, st.metrics["sum"], AllShards(t)), 1, t, old, new)
    <2>1. t = TreeOf(c)
      OBVIOUS
    <2> HIDE DEF t
    <2> QED BY <1>6, <2>1, BinsWhenBuilt, SummedConstraints
  <1>8. \A n \in c.ids : new[c.domain][n] <= SumFunction(ShardLoad(c))
    BY <1>5, LoadBounds DEF LoadsOf, IsExact
  <1> HIDE DEF st, new, old, maps
  <1>9. Evaluates(c, st, t, maps, AllShards(t), old, new)
    BY <1>3, <1>4, <1>7, <1>8 DEF Evaluates
  <1> HIDE DEF t
  <1>10. /\ StateOf(c, eval.state, old) /\ CanaryOf(c, eval.state, new)
         /\ DeltasOf(c, eval, old, new)
    BY <1>2, <1>9, EvaluateExact
  <1> QED BY <1>10 DEF old, new

(* canaryMoves of a trial computes the loads of the arrangement that the trial leads to. *)
LEMMA TriedEvaluation ==
  ASSUME NEW c, IsExact(c), initialBin \in [Shards -> Bins],
         NEW A, NEW s, NEW b, NEW B, IsMove(A, s, b, B), A[s] = initialBin[s],
         NEW m2, m2.next[s] = NoBin, NEW m3, m3.next[s] = b,
         NEW st, StateOf(c, st, LoadsOf(c, A)),
         NEW eval, eval = Evaluate(c, ClearConstraint(c, st), ConstraintTree(c, AssignmentTree),
                                   <<EmptyMovements, m2, m3>>, {s})
  PROVE  /\ StateOf(c, eval.state, LoadsOf(c, A))
         /\ CanaryOf(c, eval.state, LoadsOf(c, B))
         /\ DeltasOf(c, eval, LoadsOf(c, A), LoadsOf(c, B))
  <1> DEFINE t == TreeOf(c)
             clear == ClearConstraint(c, st)
             new == LoadsOf(c, B)
             old == LoadsOf(c, A)
             maps == <<EmptyMovements, m2, m3>>
  <1>0. A \in [Shards -> Bins] /\ B \in [Shards -> Bins] /\ s \in Shards /\ b \in Bins /\ b # A[s] /\ B = [A EXCEPT ![s] = b]
    BY DEF IsMove
  <1>1. ConstraintTree(c, AssignmentTree) = t
    BY DEF ConstraintTree, TreeOf, IsExact
  <1>2. eval = Evaluate(c, clear, t, maps, {s})
    BY <1>1
  <1>3. StateOf(c, clear, old) /\ CanaryOf(c, clear, old)
    BY ClearedState
  <1>4. AreLoads(old, t) /\ AreLoads(new, t)
    BY <1>0, LoadsAdd
  <1>5. Height(t) = c.domain /\ t.nodes[c.domain] = c.ids /\ c.domain \in Nat \ {0}
    BY ExactIsPlaced, PartialTree
  <1>6. MetricsUpTo(clear.metrics["sum"], 0, t, old, new)
    <2>1. \A x \in 1 .. c.domain : ~(x <= 0)
      BY <1>5
    <2> HIDE DEF clear, old, new
    <2> QED BY <1>3, <1>5, <2>1 DEF MetricsUpTo, StateOf, CanaryOf
  <1>7. AreValues(BinValues(c, "sum", t, maps, clear.metrics["sum"], {s}), 1, t, old, new)
    <2>1. t = TreeOf(c)
      OBVIOUS
    <2> HIDE DEF t, clear
    <2> QED BY <1>0, <1>6, <2>1, BinsWhenTried
  <1>8. \A n \in c.ids : new[c.domain][n] <= SumFunction(ShardLoad(c))
    BY <1>5, LoadBounds DEF LoadsOf, IsExact
  <1> HIDE DEF clear, new, old, maps
  <1>9. Evaluates(c, clear, t, maps, {s}, old, new)
    BY <1>3, <1>4, <1>7, <1>8 DEF Evaluates
  <1> HIDE DEF t
  <1>10. /\ StateOf(c, eval.state, old) /\ CanaryOf(c, eval.state, new)
         /\ DeltasOf(c, eval, old, new)
    BY <1>2, <1>9, EvaluateExact
  <1> QED BY <1>10 DEF old, new

--------------------------------------------------------------------------------
(***************************************************************************)
(* Costs as sums of faults, and what adding the deltas of the constraints  *)
(* does to the weights.                                                    *)
(***************************************************************************)

\* What loads f cost on the nodes of a constraint, and in all.
FaultsOf(c, f) == [n \in c.ids |-> Fault(c, f[c.domain][n])]
CostOf(c, f) == SumFunction(FaultsOf(c, f))

(* The cost of a node, computed afresh, is that of its load. *)
LEMMA NodeCostIsFault ==
  ASSUME NEW c, IsExact(c), NEW A, NEW n \in c.ids
  PROVE  NodeCost(c, A, n) = Fault(c, LoadsOf(c, A)[c.domain][n])
  <1>1. c.domain \in Nat \ {0} /\ c.ids = TreeOf(c).nodes[c.domain]
    BY ExactIsPlaced, PartialTree
  <1>2. LoadsOf(c, A)[c.domain][n] = Load(c, A, c.domain, n)
    BY <1>1 DEF LoadsOf
  <1>3. CASE c.kind = "capacity"
    BY <1>2, <1>3 DEF NodeCost, Fault
  <1>4. CASE c.kind = "drain"
    BY <1>2, <1>4 DEF NodeCost, Fault
  <1> QED BY <1>3, <1>4 DEF IsExact

(* The cost of a constraint, computed afresh, is that of the loads. *)
LEMMA ConstraintCostIsFaults ==
  ASSUME NEW c, IsExact(c), NEW A
  PROVE  ConstraintCost(c, A) = CostOf(c, LoadsOf(c, A))
  <1>1. [n \in c.ids |-> NodeCost(c, A, n)] = FaultsOf(c, LoadsOf(c, A))
    BY NodeCostIsFault DEF FaultsOf
  <1> QED BY <1>1 DEF ConstraintCost, CostOf

(* Costs are integers, and the nodes of a constraint are finitely many. *)
LEMMA CostType ==
  ASSUME NEW c, IsExact(c), NEW f, AreLoads(f, TreeOf(c))
  PROVE  /\ IsFiniteSet(c.ids)
         /\ \A n \in c.ids : Fault(c, f[c.domain][n]) \in Int
         /\ CostOf(c, f) \in Int
  <1>1. /\ c.domain \in Nat \ {0} /\ c.ids = TreeOf(c).nodes[c.domain] /\ Height(TreeOf(c)) = c.domain
        /\ IsTree(TreeOf(c))
    BY ExactIsPlaced, PartialTree
  <1>2. IsFiniteSet(c.ids)
    BY <1>1 DEF IsTree
  <1>3. \A n \in c.ids : f[c.domain][n] \in Nat
    BY <1>1, IntLimitAssumption DEF AreLoads
  <1>4. \A n \in c.ids : Fault(c, f[c.domain][n]) \in Int
    BY <1>3, FaultFits
  <1>5. SumFunctionOnSet(FaultsOf(c, f), c.ids) \in Int /\ DOMAIN FaultsOf(c, f) = c.ids
    <2>1. \A n \in c.ids : FaultsOf(c, f)[n] \in Int
      BY <1>4 DEF FaultsOf
    <2> QED BY <1>2, <2>1, SumType DEF FaultsOf
  <1> QED BY <1>2, <1>4, <1>5 DEF CostOf, SumFunction

(* No load costs nothing. *)
LEMMA ZeroCost ==
  ASSUME NEW c, IsExact(c), NEW A \in [Shards -> Bins]
  PROVE  CostOf(c, ZeroLoads(c)) = 0
  <1> DEFINE g == FaultsOf(c, ZeroLoads(c))
  <1>1. c.domain \in Nat \ {0} /\ c.ids = TreeOf(c).nodes[c.domain]
    BY ExactIsPlaced, PartialTree
  <1>2. \A n \in c.ids : g[n] = 0 /\ g[n] \in Int
    BY <1>1, NoLoadNoFault DEF FaultsOf, ZeroLoads
  <1>3. IsFiniteSet(c.ids) /\ DOMAIN g = c.ids /\ {} \in SUBSET c.ids
    BY LoadsAdd, CostType DEF FaultsOf
  <1> HIDE DEF g
  <1>4. SumFunctionOnSet(g, c.ids) = SumFunctionOnSet(g, {})
    BY <1>2, <1>3, SumSupport
  <1> QED BY <1>3, <1>4, SumEmpty DEF CostOf, SumFunction, g

(* The deltas of an evaluation add up to what the cost changes by. *)
LEMMA DeltaSum ==
  ASSUME NEW c, IsExact(c), NEW old, NEW new, AreLoads(old, TreeOf(c)), AreLoads(new, TreeOf(c)),
         NEW eval, DeltasOf(c, eval, old, new)
  PROVE  /\ SumFunction(eval.deltas) = CostOf(c, new) - CostOf(c, old)
         /\ \A n \in DOMAIN eval.deltas : eval.deltas[n] \in Int
  <1> DEFINE f == FaultsOf(c, new)
             g == FaultsOf(c, old)
             D == DOMAIN eval.deltas
             h == [n \in c.ids |-> f[n] - g[n]]
  <1>1. IsFiniteSet(c.ids) /\ DOMAIN f = c.ids /\ DOMAIN g = c.ids
    BY CostType DEF FaultsOf
  <1>2. \A n \in c.ids : f[n] \in Int /\ g[n] \in Int
    BY CostType DEF FaultsOf
  <1>3. \A n \in c.ids : f[n] = Fault(c, new[c.domain][n]) /\ g[n] = Fault(c, old[c.domain][n])
    BY DEF FaultsOf
  <1> HIDE DEF f, g
  <1>4. \A n \in c.ids : h[n] = f[n] - g[n] /\ h[n] \in Int
    BY <1>2
  <1> HIDE DEF h
  <1>5. D \in SUBSET c.ids /\ IsFiniteSet(D)
    BY <1>1, FS_Subset DEF DeltasOf
  <1>6. \A n \in D : eval.deltas[n] = h[n]
    BY <1>3, <1>4, <1>5 DEF DeltasOf
  <1>7. \A n \in c.ids \ D : h[n] = 0
    <2> SUFFICES ASSUME NEW n \in c.ids \ D PROVE h[n] = 0
      OBVIOUS
    <2>1. f[n] = g[n]
      BY <1>3 DEF DeltasOf
    <2> QED BY <1>2, <1>4, <2>1
  <1>8. SumFunction(eval.deltas) = SumFunctionOnSet(h, D)
    BY <1>5, <1>6, SumEqual DEF SumFunction
  <1>9. SumFunctionOnSet(h, c.ids) = SumFunctionOnSet(h, D)
    BY <1>1, <1>4, <1>5, <1>7, SumSupport
  <1>10. SumFunctionOnSet(h, c.ids) = SumFunctionOnSet(f, c.ids) - SumFunctionOnSet(g, c.ids)
    BY <1>1, <1>2, <1>4, SumDifference
  <1>11. \A n \in D : eval.deltas[n] \in Int
    BY <1>4, <1>5, <1>6
  <1> QED BY <1>1, <1>8, <1>9, <1>10, <1>11 DEF CostOf, SumFunction, f, g

\* The evaluations of the constraints in I have finitely many deltas, all integers.
AreEvaluations(evals, I) ==
    /\ IsFiniteSet(I) /\ DOMAIN evals = I
    /\ \A i \in I : IsFiniteSet(DOMAIN evals[i].deltas)
    /\ \A i \in I : \A n \in DOMAIN evals[i].deltas : evals[i].deltas[n] \in Int

\* What an evaluation adds to the weight of bin n.
BinDelta(eval, n) == IF eval.toBins /\ n \in DOMAIN eval.deltas THEN eval.deltas[n] ELSE 0

\* f is what the evaluations add to the weight of bin n.
AreBinDeltas(f, evals, I, n) == DOMAIN f = I /\ \A i \in I : f[i] = BinDelta(evals[i], n)

(* addTotalWeight of every delta. *)
LEMMA AddedTotal ==
  ASSUME NEW w, WeightsShape(w), NEW evals, NEW I, AreEvaluations(evals, I),
         NEW f, DOMAIN f = I, \A i \in I : f[i] = SumFunction(evals[i].deltas),
         KeyGetOr(w.total, 0) \in Int
  PROVE  /\ KeyGetOr(AddWeights(w, evals).total, 0) = KeyGetOr(w.total, 0) + SumFunctionOnSet(f, I)
         /\ KeyClear(AddWeights(w, evals).total) = KeyClear(w.total)
  <1> DEFINE adding == {i \in DOMAIN evals : DOMAIN evals[i].deltas # {}}
             g == [i \in adding |-> SumFunction(evals[i].deltas)]
  <1>1. AddWeights(w, evals).total = IF adding = {} THEN w.total
                                     ELSE KeySetCanary(w.total, KeyGetOr(w.total, 0) + SumFunction(g))
    BY DEF AddWeights
  <1>2. \A i \in I : f[i] \in Int
    BY SumType DEF AreEvaluations, SumFunction
  <1>3. adding \in SUBSET I /\ IsFiniteSet(I) /\ IsFiniteSet(adding) /\ DOMAIN g = adding
    BY FS_Subset DEF AreEvaluations
  <1>4. \A i \in I \ adding : f[i] = 0
    BY SumEmpty DEF AreEvaluations, SumFunction
  <1>5. \A i \in adding : f[i] = g[i]
    BY <1>3
  <1> HIDE DEF adding, g
  <1>6. SumFunctionOnSet(f, I) = SumFunctionOnSet(f, adding)
    BY <1>2, <1>3, <1>4, SumSupport
  <1>7. SumFunctionOnSet(f, adding) = SumFunctionOnSet(g, adding)
    BY <1>3, <1>5, SumEqual
  <1>8. IsKey(w.total)
    BY DEF WeightsShape
  <1>9. CASE adding = {}
    BY <1>1, <1>6, <1>9, SumEmpty
  <1>10. CASE adding # {}
    <2> DEFINE v == KeyGetOr(w.total, 0) + SumFunction(g)
    <2>1. v = KeyGetOr(w.total, 0) + SumFunctionOnSet(f, I)
      BY <1>3, <1>6, <1>7 DEF SumFunction
    <2> HIDE DEF v
    <2>2. KeySetCanary(w.total, v) = [committed |-> w.total.committed, canary |-> {v}]
      <3> DEFINE k == w.total
      <3>1. k = [committed |-> k.committed, canary |-> k.canary]
        BY <1>8 DEF IsKey
      <3>2. PICK a, z : k = [committed |-> a, canary |-> z]
        BY <3>1
      <3> HIDE DEF k
      <3>3. [k EXCEPT !.canary = {v}] = [committed |-> k.committed, canary |-> {v}]
        BY <3>2
      <3> QED BY <3>3 DEF KeySetCanary, k
    <2>3. KeyGetOr(KeySetCanary(w.total, v), 0) = v
      <3>1. (CHOOSE x \in {v} : TRUE) = v
        OBVIOUS
      <3> QED BY <2>2, <3>1 DEF KeyGetOr
    <2>4. KeyClear(KeySetCanary(w.total, v)) = KeyClear(w.total)
      BY <1>8, <2>2 DEF KeyClear, IsKey
    <2> QED BY <1>1, <1>10, <2>1, <2>3, <2>4 DEF v
  <1> QED BY <1>9, <1>10

(* addBinWeight of every delta of a constraint on bins. *)
LEMMA AddedBin ==
  ASSUME NEW w, WeightsShape(w), NEW evals, NEW I, AreEvaluations(evals, I),
         NEW n, NEW f, AreBinDeltas(f, evals, I, n),
         MapGetOr(w.bin, n, 0) \in Int
  PROVE  /\ MapGetOr(AddWeights(w, evals).bin, n, 0) = MapGetOr(w.bin, n, 0) + SumFunctionOnSet(f, I)
         /\ MapCommittedOr(AddWeights(w, evals).bin, n, 0) = MapCommittedOr(w.bin, n, 0)
  <1> DEFINE adding == {i \in DOMAIN evals : DOMAIN evals[i].deltas # {}}
             binning(x) == {i \in adding : evals[i].toBins /\ x \in DOMAIN evals[i].deltas}
             bins == UNION {DOMAIN evals[i].deltas : i \in {i \in adding : evals[i].toBins}}
             sum(x) == [i \in binning(x) |-> evals[i].deltas[x]]
             new == [x \in bins |-> MapGetOr(w.bin, x, 0) + SumFunction(sum(x))]
  <1>1. AddWeights(w, evals).bin = MapSetCanary(w.bin, new)
    BY DEF AddWeights
  <1>2. n \in bins => new[n] = MapGetOr(w.bin, n, 0) + SumFunction(sum(n))
    OBVIOUS
  <1>3. DOMAIN new = bins
    OBVIOUS
  <1> HIDE DEF new
  <1>4. \A i \in I : f[i] \in Int
    BY DEF AreEvaluations, BinDelta, AreBinDeltas
  <1>5. binning(n) \in SUBSET I /\ IsFiniteSet(I) /\ IsFiniteSet(binning(n)) /\ DOMAIN sum(n) = binning(n)
    BY FS_Subset DEF AreEvaluations
  <1>6. \A i \in I \ binning(n) : f[i] = 0
    BY DEF AreEvaluations, BinDelta, AreBinDeltas
  <1>7. \A i \in binning(n) : f[i] = sum(n)[i]
    BY <1>5 DEF BinDelta, AreBinDeltas
  <1>8. n \notin bins => binning(n) = {}
    OBVIOUS
  <1> HIDE DEF bins, binning, sum
  <1>9. SumFunctionOnSet(f, I) = SumFunctionOnSet(f, binning(n))
    BY <1>4, <1>5, <1>6, SumSupport
  <1>10. SumFunctionOnSet(f, binning(n)) = SumFunctionOnSet(sum(n), binning(n))
    BY <1>5, <1>7, SumEqual
  <1>11. SumFunction(sum(n)) = SumFunctionOnSet(f, I)
    BY <1>5, <1>9, <1>10 DEF SumFunction
  <1>12. IsMap(w.bin)
    BY DEF WeightsShape
  <1>13. /\ MapGetOr(MapSetCanary(w.bin, new), n, 0) = IF n \in bins THEN new[n] ELSE MapGetOr(w.bin, n, 0)
         /\ MapCommittedOr(MapSetCanary(w.bin, new), n, 0) = MapCommittedOr(w.bin, n, 0)
    BY <1>3, <1>12, MapSetFacts
  <1>14. CASE n \in bins
    BY <1>1, <1>2, <1>11, <1>13, <1>14
  <1>15. CASE n \notin bins
    <2>1. SumFunctionOnSet(f, I) = 0
      BY <1>8, <1>9, <1>15, SumEmpty
    <2> QED BY <1>1, <1>13, <1>15, <2>1
  <1> QED BY <1>14, <1>15

--------------------------------------------------------------------------------
(***************************************************************************)
(* The weights are the costs of the constraints that are built.            *)
(***************************************************************************)

\* What loads f of constraint c cost a bin.
BinFault(c, f, b) == IF c.domain = 1 /\ b \in c.ids THEN Fault(c, f[c.domain][b]) ELSE 0

\* What every constraint costs in all, and for a bin.
CostList(A) == [i \in DOMAIN ConstraintList |-> ConstraintCost(ConstraintList[i], A)]
BinCostList(A, b) == [i \in DOMAIN ConstraintList |->
                        LET c == ConstraintList[i] IN BinFault(c, LoadsOf(c, A), b)]

\* The committed weights are those of arrangement A under the first k constraints.
WeightsUpTo(w, k, A) ==
    /\ WeightsShape(w)
    /\ KeyGetOr(KeyClear(w.total), 0) = SumFunctionOnSet(CostList(A), 1 .. k)
    /\ \A b \in Bins : MapCommittedOr(w.bin, b, 0) = SumFunctionOnSet(BinCostList(A, b), 1 .. k)

(* The costs of an exact constraint are integers. *)
LEMMA CostListTypes ==
  ASSUME ExactList, NEW A \in [Shards -> Bins]
  PROVE  /\ \A i \in DOMAIN ConstraintList : CostList(A)[i] \in Int
         /\ \A b : \A i \in DOMAIN ConstraintList : BinCostList(A, b)[i] \in Int
  <1> SUFFICES ASSUME NEW i \in DOMAIN ConstraintList
               PROVE  CostList(A)[i] \in Int /\ \A b : BinCostList(A, b)[i] \in Int
    OBVIOUS
  <1> DEFINE c == ConstraintList[i]
  <1>1. IsExact(c)
    BY DEF ExactList
  <1> HIDE DEF c
  <1>2. AreLoads(LoadsOf(c, A), TreeOf(c))
    BY <1>1, LoadsAdd
  <1>3. /\ \A n \in c.ids : Fault(c, LoadsOf(c, A)[c.domain][n]) \in Int
        /\ CostOf(c, LoadsOf(c, A)) \in Int
    BY <1>1, <1>2, CostType
  <1>4. ConstraintCost(c, A) \in Int
    BY <1>1, <1>3, ConstraintCostIsFaults
  <1>5. \A b : BinFault(c, LoadsOf(c, A), b) \in Int
    BY <1>3 DEF BinFault
  <1> QED BY <1>4, <1>5 DEF CostList, BinCostList, c

(* The sums over all the constraints are Cost and BinCost. *)
LEMMA AllWeights ==
  ASSUME ExactList, NEW A \in [Shards -> Bins], NEW k, k = Len(ConstraintList)
  PROVE  /\ SumFunctionOnSet(CostList(A), 1 .. k) = Cost(A)
         /\ \A b \in Bins : SumFunctionOnSet(BinCostList(A, b), 1 .. k) = BinCost(A, b)
  <1> DEFINE I == DOMAIN ConstraintList
  <1>1. I = 1 .. k /\ DOMAIN CostList(A) = I
    BY ConstraintListAssumption DEF CostList
  <1>a. IsFiniteSet(I)
    BY ConstraintListAssumption, FS_Interval
  <1>2. SumFunctionOnSet(CostList(A), 1 .. k) = Cost(A)
    BY <1>1 DEF Cost, CostList, SumFunction
  <1>3. ASSUME NEW b \in Bins
        PROVE  SumFunctionOnSet(BinCostList(A, b), 1 .. k) = BinCost(A, b)
    <2> DEFINE costing == {i \in I : ConstraintList[i].domain = 1 /\ b \in ConstraintList[i].ids}
               f == [i \in costing |-> NodeCost(ConstraintList[i], A, b)]
               g == BinCostList(A, b)
    <2>1. BinCost(A, b) = SumFunction(f) /\ DOMAIN f = costing
      BY DEF BinCost
    <2>2. \A i \in costing : f[i] = g[i]
      <3> SUFFICES ASSUME NEW i \in costing PROVE f[i] = g[i]
        OBVIOUS
      <3> DEFINE c == ConstraintList[i]
      <3>1. IsExact(c) /\ c.domain = 1 /\ b \in c.ids
        BY DEF ExactList
      <3>2. g[i] = BinFault(c, LoadsOf(c, A), b) /\ f[i] = NodeCost(c, A, b)
        BY DEF BinCostList
      <3> HIDE DEF c, f, g
      <3>3. NodeCost(c, A, b) = Fault(c, LoadsOf(c, A)[c.domain][b])
        BY <3>1, NodeCostIsFault
      <3> QED BY <3>1, <3>2, <3>3 DEF BinFault
    <2>3. \A i \in I \ costing : g[i] = 0
      BY DEF BinCostList, BinFault
    <2>4. \A i \in I : g[i] \in Int
      BY CostListTypes
    <2>5. costing \in SUBSET I
      OBVIOUS
    <2>a. IsFiniteSet(costing)
      <3> HIDE DEF costing, I
      <3> QED BY <1>a, <2>5, FS_Subset
    <2> HIDE DEF I, costing, f, g
    <2>6. SumFunctionOnSet(g, I) = SumFunctionOnSet(g, costing)
      BY <1>a, <2>3, <2>4, <2>5, SumSupport
    <2>7. SumFunctionOnSet(f, costing) = SumFunctionOnSet(g, costing)
      BY <2>2, <2>a, SumEqual
    <2> QED BY <1>1, <2>1, <2>6, <2>7 DEF SumFunction, g
  <1> QED BY <1>2, <1>3

(* What an evaluation adds to a bin is what the bin's cost changes by. *)
LEMMA BinDeltaIsChange ==
  ASSUME NEW c, IsExact(c), NEW old, NEW new, NEW eval, DeltasOf(c, eval, old, new),
         AreLoads(old, TreeOf(c)), AreLoads(new, TreeOf(c)), NEW b
  PROVE  BinDelta(eval, b) = BinFault(c, new, b) - BinFault(c, old, b)
  <1>1. \A n \in c.ids : Fault(c, old[c.domain][n]) \in Int /\ Fault(c, new[c.domain][n]) \in Int
    BY CostType
  <1>2. CASE eval.toBins /\ b \in DOMAIN eval.deltas
    <2>1. c.domain = 1 /\ b \in c.ids
      BY <1>2 DEF DeltasOf
    <2>2. eval.deltas[b] = Fault(c, new[c.domain][b]) - Fault(c, old[c.domain][b])
      BY <1>2, <2>1 DEF DeltasOf
    <2> QED BY <1>2, <2>1, <2>2 DEF BinDelta, BinFault
  <1>3. CASE ~(eval.toBins /\ b \in DOMAIN eval.deltas)
    <2>1. CASE c.domain = 1 /\ b \in c.ids
      <3>1. Fault(c, new[c.domain][b]) = Fault(c, old[c.domain][b])
        BY <1>3, <2>1 DEF DeltasOf
      <3> QED BY <1>1, <1>3, <2>1, <3>1 DEF BinDelta, BinFault
    <2>2. CASE ~(c.domain = 1 /\ b \in c.ids)
      BY <1>3, <2>2 DEF BinDelta, BinFault
    <2> QED BY <2>1, <2>2
  <1> QED BY <1>2, <1>3

(* commit makes the weights that are read the committed ones. *)
LEMMA CommittedWeights ==
  ASSUME NEW w, WeightsShape(w)
  PROVE  /\ KeyGetOr(KeyClear(CommitWeights(w).total), 0) = KeyGetOr(w.total, 0)
         /\ \A b : MapCommittedOr(CommitWeights(w).bin, b, 0) = MapGetOr(w.bin, b, 0)
  <1>1. CommitWeights(w).total = KeyCommit(w.total) /\ CommitWeights(w).bin = MapCommit(w.bin)
    BY DEF CommitWeights
  <1>2. KeyGetOr(KeyClear(KeyCommit(w.total)), 0) = KeyGetOr(w.total, 0)
    BY DEF KeyGetOr, KeyClear, KeyCommit
  <1>3. \A b : MapCommittedOr(MapCommit(w.bin), b, 0) = MapGetOr(w.bin, b, 0)
    BY MapCommitFacts DEF WeightsShape
  <1> QED BY <1>1, <1>2, <1>3

(* clear makes the committed weights the ones that are read. *)
LEMMA ClearedWeights ==
  ASSUME NEW w, WeightsShape(w)
  PROVE  /\ WeightsShape(ClearWeights(w))
         /\ KeyGetOr(ClearWeights(w).total, 0) = KeyGetOr(KeyClear(w.total), 0)
         /\ KeyClear(ClearWeights(w).total) = KeyClear(w.total)
         /\ \A b : /\ MapGetOr(ClearWeights(w).bin, b, 0) = MapCommittedOr(w.bin, b, 0)
                   /\ MapCommittedOr(ClearWeights(w).bin, b, 0) = MapCommittedOr(w.bin, b, 0)
  <1>1. ClearWeights(w).total = KeyClear(w.total) /\ ClearWeights(w).bin = MapClear(w.bin)
    BY DEF ClearWeights
  <1>2. KeyClear(KeyClear(w.total)) = KeyClear(w.total)
    BY DEF KeyClear
  <1>3. \A b : /\ MapGetOr(MapClear(w.bin), b, 0) = MapCommittedOr(w.bin, b, 0)
               /\ MapCommittedOr(MapClear(w.bin), b, 0) = MapCommittedOr(w.bin, b, 0)
    BY MapClearFacts DEF WeightsShape
  <1> QED BY <1>1, <1>2, <1>3, WeightsKeepShape

(* The evaluations that an update of the weights adds are finite sums of integers. *)
LEMMA ExactEvaluations ==
  ASSUME NEW evals, NEW I, IsFiniteSet(I), DOMAIN evals = I,
         NEW c, \A i \in I : IsExact(c[i]),
         NEW old, NEW new, \A i \in I : AreLoads(old[i], TreeOf(c[i])) /\ AreLoads(new[i], TreeOf(c[i])),
         \A i \in I : DeltasOf(c[i], evals[i], old[i], new[i])
  PROVE  AreEvaluations(evals, I)
  <1> SUFFICES ASSUME NEW i \in I
               PROVE  /\ IsFiniteSet(DOMAIN evals[i].deltas)
                      /\ \A n \in DOMAIN evals[i].deltas : evals[i].deltas[n] \in Int
    BY DEF AreEvaluations
  <1>1. /\ IsExact(c[i]) /\ AreLoads(old[i], TreeOf(c[i])) /\ AreLoads(new[i], TreeOf(c[i]))
        /\ DeltasOf(c[i], evals[i], old[i], new[i])
    OBVIOUS
  <1>2. \A n \in DOMAIN evals[i].deltas : evals[i].deltas[n] \in Int
    BY <1>1, DeltaSum
  <1>3. IsFiniteSet(DOMAIN evals[i].deltas)
    <2>1. IsFiniteSet(c[i].ids)
      BY <1>1, CostType
    <2>2. DOMAIN evals[i].deltas \in SUBSET c[i].ids
      BY <1>1 DEF DeltasOf
    <2> QED BY <2>1, <2>2, FS_Subset
  <1> QED BY <1>2, <1>3

\* The evaluations of all the constraints take the cost of arrangement A to that of B.
AreDeltas(evals, A, B) ==
    /\ DOMAIN evals = DOMAIN ConstraintList
    /\ \A i \in DOMAIN ConstraintList :
          DeltasOf(ConstraintList[i], evals[i], LoadsOf(ConstraintList[i], A), LoadsOf(ConstraintList[i], B))

(* A trial is weighed exactly, on the committed weights and nothing else. *)
LEMMA TriedWeights ==
  ASSUME ExactList, NEW A \in [Shards -> Bins], NEW B \in [Shards -> Bins],
         NEW w, WeightsUpTo(w, Len(ConstraintList), A),
         NEW evals, AreDeltas(evals, A, B),
         NEW new, new = AddWeights(ClearWeights(w), evals)
  PROVE  /\ KeyGetOr(new.total, 0) = Cost(B)
         /\ WeightsUpTo(new, Len(ConstraintList), A)
         /\ WeightsUpTo(CommitWeights(new), Len(ConstraintList), B)
  <1> DEFINE N == Len(ConstraintList)
             I == DOMAIN ConstraintList
             clear == ClearWeights(w)
  <1>0. /\ DOMAIN evals = I
        /\ \A i \in I : DeltasOf(ConstraintList[i], evals[i], LoadsOf(ConstraintList[i], A), LoadsOf(ConstraintList[i], B))
    BY DEF AreDeltas
  <1>1. I = 1 .. N /\ IsFiniteSet(I)
    BY ConstraintListAssumption, FS_Interval
  <1>2. \A i \in I : IsExact(ConstraintList[i])
    BY DEF ExactList
  <1>3. \A i \in I : /\ AreLoads(LoadsOf(ConstraintList[i], A), TreeOf(ConstraintList[i]))
                     /\ AreLoads(LoadsOf(ConstraintList[i], B), TreeOf(ConstraintList[i]))
    BY <1>2, LoadsAdd
  <1>4. AreEvaluations(evals, I)
    <2> DEFINE old == [i \in I |-> LoadsOf(ConstraintList[i], A)]
               nw == [i \in I |-> LoadsOf(ConstraintList[i], B)]
    <2>1. \A i \in I : AreLoads(old[i], TreeOf(ConstraintList[i])) /\ AreLoads(nw[i], TreeOf(ConstraintList[i]))
      BY <1>3
    <2>2. \A i \in I : DeltasOf(ConstraintList[i], evals[i], old[i], nw[i])
      BY <1>0
    <2> HIDE DEF old, nw, I
    <2> QED BY <1>0, <1>1, <1>2, <2>1, <2>2, ExactEvaluations
  <1>5. /\ WeightsShape(w) /\ WeightsShape(clear)
        /\ KeyGetOr(clear.total, 0) = SumFunctionOnSet(CostList(A), I)
        /\ KeyClear(clear.total) = KeyClear(w.total)
        /\ \A b \in Bins : /\ MapGetOr(clear.bin, b, 0) = SumFunctionOnSet(BinCostList(A, b), I)
                           /\ MapCommittedOr(clear.bin, b, 0) = MapCommittedOr(w.bin, b, 0)
    BY <1>1, ClearedWeights DEF WeightsUpTo
  <1>6. /\ \A i \in I : CostList(A)[i] \in Int /\ CostList(B)[i] \in Int
        /\ \A b : \A i \in I : BinCostList(A, b)[i] \in Int /\ BinCostList(B, b)[i] \in Int
    BY CostListTypes
  <1> HIDE DEF clear
  <1> DEFINE f == [i \in I |-> SumFunction(evals[i].deltas)]
  <1>7. \A i \in I : f[i] = CostList(B)[i] - CostList(A)[i]
    <2> SUFFICES ASSUME NEW i \in I PROVE SumFunction(evals[i].deltas) = CostList(B)[i] - CostList(A)[i]
      OBVIOUS
    <2> DEFINE c == ConstraintList[i]
    <2>1. CostList(B)[i] = ConstraintCost(c, B) /\ CostList(A)[i] = ConstraintCost(c, A)
      BY DEF CostList
    <2>2. /\ IsExact(c) /\ AreLoads(LoadsOf(c, A), TreeOf(c)) /\ AreLoads(LoadsOf(c, B), TreeOf(c))
          /\ DeltasOf(c, evals[i], LoadsOf(c, A), LoadsOf(c, B))
      BY <1>0, <1>2, <1>3
    <2> HIDE DEF c
    <2>3. SumFunction(evals[i].deltas) = CostOf(c, LoadsOf(c, B)) - CostOf(c, LoadsOf(c, A))
      BY <2>2, DeltaSum
    <2> QED BY <2>1, <2>2, <2>3, ConstraintCostIsFaults
  <1>8. DOMAIN f = I /\ (\A i \in I : f[i] = SumFunction(evals[i].deltas))
    OBVIOUS
  <1> HIDE DEF f, I
  <1>9. SumFunctionOnSet(f, I) = SumFunctionOnSet(CostList(B), I) - SumFunctionOnSet(CostList(A), I)
    <2>1. \A i \in I : /\ CostList(B)[i] \in Int /\ CostList(A)[i] \in Int
                      /\ f[i] = CostList(B)[i] - CostList(A)[i]
      BY <1>6, <1>7
    <2>2. IsFiniteSet(I)
      BY <1>1
    <2> QED BY <2>1, <2>2, SumDifference
  <1>10. SumFunctionOnSet(CostList(A), I) \in Int /\ SumFunctionOnSet(CostList(B), I) \in Int
    BY <1>1, <1>6, SumType
  <1>11. /\ KeyGetOr(new.total, 0) = SumFunctionOnSet(CostList(B), I)
         /\ KeyClear(new.total) = KeyClear(w.total)
    <2>1. /\ KeyGetOr(AddWeights(clear, evals).total, 0) = KeyGetOr(clear.total, 0) + SumFunctionOnSet(f, I)
          /\ KeyClear(AddWeights(clear, evals).total) = KeyClear(clear.total)
      BY <1>4, <1>5, <1>8, <1>10, AddedTotal
    <2>2. new = AddWeights(clear, evals)
      BY DEF clear
    <2> QED BY <1>5, <1>9, <1>10, <2>1, <2>2
  <1>12. ASSUME NEW b \in Bins
         PROVE  /\ MapGetOr(new.bin, b, 0) = SumFunctionOnSet(BinCostList(B, b), I)
                /\ MapCommittedOr(new.bin, b, 0) = MapCommittedOr(w.bin, b, 0)
    <2> DEFINE g == [i \in I |-> BinDelta(evals[i], b)]
    <2>1. \A i \in I : g[i] = BinCostList(B, b)[i] - BinCostList(A, b)[i]
      <3> SUFFICES ASSUME NEW i \in I PROVE BinDelta(evals[i], b) = BinCostList(B, b)[i] - BinCostList(A, b)[i]
        OBVIOUS
      <3> DEFINE c == ConstraintList[i]
      <3>1. /\ BinCostList(B, b)[i] = BinFault(c, LoadsOf(c, B), b)
            /\ BinCostList(A, b)[i] = BinFault(c, LoadsOf(c, A), b)
        BY DEF BinCostList, I
      <3>2. /\ IsExact(c) /\ AreLoads(LoadsOf(c, A), TreeOf(c)) /\ AreLoads(LoadsOf(c, B), TreeOf(c))
            /\ DeltasOf(c, evals[i], LoadsOf(c, A), LoadsOf(c, B))
        BY <1>0, <1>2, <1>3 DEF I
      <3> HIDE DEF c
      <3>3. BinDelta(evals[i], b) = BinFault(c, LoadsOf(c, B), b) - BinFault(c, LoadsOf(c, A), b)
        BY <3>2, BinDeltaIsChange
      <3> QED BY <3>1, <3>3
    <2>2. AreBinDeltas(g, evals, I, b)
      BY DEF AreBinDeltas
    <2> HIDE DEF g
    <2>3. SumFunctionOnSet(g, I) = SumFunctionOnSet(BinCostList(B, b), I) - SumFunctionOnSet(BinCostList(A, b), I)
      <3>1. \A i \in I : /\ BinCostList(B, b)[i] \in Int /\ BinCostList(A, b)[i] \in Int
                        /\ g[i] = BinCostList(B, b)[i] - BinCostList(A, b)[i]
        BY <1>6, <2>1
      <3> DEFINE x == BinCostList(B, b)
                 y == BinCostList(A, b)
      <3>2. \A i \in I : x[i] \in Int /\ y[i] \in Int /\ g[i] = x[i] - y[i]
        BY <3>1
      <3> HIDE DEF x, y
      <3>3. IsFiniteSet(I)
        BY <1>1
      <3>4. SumFunctionOnSet(g, I) = SumFunctionOnSet(x, I) - SumFunctionOnSet(y, I)
        BY <3>2, <3>3, SumDifference
      <3> QED BY <3>4 DEF x, y
    <2>4. SumFunctionOnSet(BinCostList(A, b), I) \in Int /\ SumFunctionOnSet(BinCostList(B, b), I) \in Int
      BY <1>1, <1>6, SumType
    <2>5. /\ MapGetOr(AddWeights(clear, evals).bin, b, 0) = MapGetOr(clear.bin, b, 0) + SumFunctionOnSet(g, I)
          /\ MapCommittedOr(AddWeights(clear, evals).bin, b, 0) = MapCommittedOr(clear.bin, b, 0)
      <3>1. MapGetOr(clear.bin, b, 0) \in Int /\ WeightsShape(clear)
        BY <1>5, <2>4
      <3> QED BY <1>4, <2>2, <3>1, AddedBin
    <2>6. new = AddWeights(clear, evals)
      BY DEF clear
    <2> QED BY <1>5, <2>3, <2>4, <2>5, <2>6
  <1>13. WeightsShape(new) /\ WeightsShape(CommitWeights(new))
    BY <1>5, WeightsKeepShape DEF clear
  <1>14. WeightsUpTo(new, N, A)
    BY <1>11, <1>12, <1>13 DEF WeightsUpTo
  <1>15. WeightsUpTo(CommitWeights(new), N, B)
    BY <1>1, <1>11, <1>12, <1>13, CommittedWeights DEF WeightsUpTo
  <1>16. SumFunctionOnSet(CostList(B), I) = Cost(B)
    BY <1>1, AllWeights
  <1> QED BY <1>11, <1>14, <1>15, <1>16

(* The constructor of a constraint adds its cost to the weights. *)
LEMMA BuiltWeights ==
  ASSUME ExactList, NEW A \in [Shards -> Bins], NEW k \in Nat, k < Len(ConstraintList),
         NEW w, WeightsUpTo(w, k, A), CleanWeights(w),
         NEW c, c = ConstraintList[k + 1], NEW eval, DeltasOf(c, eval, ZeroLoads(c), LoadsOf(c, A))
  PROVE  WeightsUpTo(CommitWeights(AddWeights(w, <<eval>>)), k + 1, A)
  <1> DEFINE evals == <<eval>>
             I == 1 .. k
             J == 1 .. k + 1
             new == AddWeights(w, evals)
  <1>1. /\ IsFiniteSet(I) /\ J = I \cup {k + 1} /\ k + 1 \notin I
        /\ J \subseteq DOMAIN ConstraintList
    <2>1. IsFiniteSet(I)
      BY FS_Interval
    <2>2. J = I \cup {k + 1} /\ k + 1 \notin I
      OBVIOUS
    <2>3. J \subseteq DOMAIN ConstraintList
      BY ConstraintListAssumption
    <2> QED BY <2>1, <2>2, <2>3
  <1>2. IsExact(c)
    BY <1>1 DEF ExactList
  <1>3. AreLoads(ZeroLoads(c), TreeOf(c)) /\ AreLoads(LoadsOf(c, A), TreeOf(c))
    BY <1>2, LoadsAdd
  <1>4. DOMAIN evals = {1} /\ evals[1] = eval /\ IsFiniteSet({1})
    <2>1. DOMAIN evals = 1 .. 1 /\ evals[1] = eval
      OBVIOUS
    <2> HIDE DEF evals
    <2>2. 1 .. 1 = {1}
      OBVIOUS
    <2>3. IsFiniteSet({1})
      BY FS_Singleton
    <2> QED BY <2>1, <2>2, <2>3
  <1> HIDE DEF evals, I, J
  <1>5. AreEvaluations(evals, {1})
    <2> DEFINE cc == [i \in {1} |-> c]
               old == [i \in {1} |-> ZeroLoads(c)]
               nw == [i \in {1} |-> LoadsOf(c, A)]
    <2>1. \A i \in {1} : /\ cc[i] = c /\ old[i] = ZeroLoads(c) /\ nw[i] = LoadsOf(c, A) /\ evals[i] = eval
      BY <1>4
    <2> HIDE DEF cc, old, nw
    <2>2. /\ \A i \in {1} : IsExact(cc[i])
          /\ \A i \in {1} : AreLoads(old[i], TreeOf(cc[i])) /\ AreLoads(nw[i], TreeOf(cc[i]))
          /\ \A i \in {1} : DeltasOf(cc[i], evals[i], old[i], nw[i])
      BY <1>2, <1>3, <2>1
    <2> QED BY <1>4, <2>2, ExactEvaluations
  <1>6. /\ KeyClear(w.total) = w.total
        /\ \A b : MapGetOr(w.bin, b, 0) = MapCommittedOr(w.bin, b, 0)
    <2>1. KeyClear(w.total) = w.total
      BY DEF CleanWeights, WeightsUpTo, WeightsShape, IsKey, KeyClear
    <2>2. \A b : MapGetOr(w.bin, b, 0) = MapCommittedOr(w.bin, b, 0)
      BY DEF CleanWeights, MapGetOr, MapCommittedOr
    <2> QED BY <2>1, <2>2
  <1>7. /\ WeightsShape(w)
        /\ KeyGetOr(w.total, 0) = SumFunctionOnSet(CostList(A), I)
        /\ \A b \in Bins : MapGetOr(w.bin, b, 0) = SumFunctionOnSet(BinCostList(A, b), I)
    BY <1>6 DEF WeightsUpTo, I
  <1>8. /\ \A i \in J : CostList(A)[i] \in Int
        /\ \A b : \A i \in J : BinCostList(A, b)[i] \in Int
    BY <1>1, CostListTypes
  <1>9. /\ SumFunctionOnSet(CostList(A), J) = CostList(A)[k + 1] + SumFunctionOnSet(CostList(A), I)
        /\ SumFunctionOnSet(CostList(A), I) \in Int /\ CostList(A)[k + 1] \in Int
    BY <1>1, <1>8, SumAdd, SumType
  <1>10. ASSUME NEW b
         PROVE  /\ SumFunctionOnSet(BinCostList(A, b), J) = BinCostList(A, b)[k + 1] + SumFunctionOnSet(BinCostList(A, b), I)
                /\ SumFunctionOnSet(BinCostList(A, b), I) \in Int /\ BinCostList(A, b)[k + 1] \in Int
    BY <1>1, <1>8, SumAdd, SumType
  <1> DEFINE f == [i \in {1} |-> SumFunction(evals[i].deltas)]
  <1>11. f[1] = CostList(A)[k + 1]
    <2>1. f[1] = CostOf(c, LoadsOf(c, A)) - CostOf(c, ZeroLoads(c))
      BY <1>2, <1>3, <1>4, DeltaSum
    <2>2. CostOf(c, ZeroLoads(c)) = 0 /\ CostOf(c, LoadsOf(c, A)) = ConstraintCost(c, A) /\ CostOf(c, LoadsOf(c, A)) \in Int
      BY <1>2, <1>3, ZeroCost, ConstraintCostIsFaults, CostType
    <2>3. CostList(A)[k + 1] = ConstraintCost(c, A)
      BY <1>1 DEF CostList
    <2> QED BY <2>1, <2>2, <2>3
  <1>12. DOMAIN f = {1} /\ (\A i \in {1} : f[i] = SumFunction(evals[i].deltas))
    OBVIOUS
  <1> HIDE DEF f
  <1>13. SumFunctionOnSet(f, {1}) = CostList(A)[k + 1]
    BY <1>9, <1>11, SumSingleton
  <1>14. KeyGetOr(new.total, 0) = SumFunctionOnSet(CostList(A), J)
    <2>1. KeyGetOr(AddWeights(w, evals).total, 0) = KeyGetOr(w.total, 0) + SumFunctionOnSet(f, {1})
      BY <1>5, <1>7, <1>9, <1>12, AddedTotal
    <2> QED BY <1>7, <1>9, <1>13, <2>1
  <1>15. ASSUME NEW b \in Bins PROVE MapGetOr(new.bin, b, 0) = SumFunctionOnSet(BinCostList(A, b), J)
    <2> DEFINE g == [i \in {1} |-> BinDelta(evals[i], b)]
    <2>1. g[1] = BinCostList(A, b)[k + 1]
      <3>1. BinDelta(evals[1], b) = BinFault(c, LoadsOf(c, A), b) - BinFault(c, ZeroLoads(c), b)
        BY <1>2, <1>3, <1>4, BinDeltaIsChange
      <3>2. BinCostList(A, b)[k + 1] = BinFault(c, LoadsOf(c, A), b)
        BY <1>1 DEF BinCostList
      <3>3. BinFault(c, ZeroLoads(c), b) = 0
        <4>1. c.domain \in Nat \ {0} /\ c.ids = TreeOf(c).nodes[c.domain]
          BY <1>2, ExactIsPlaced, PartialTree
        <4> QED BY <1>2, <4>1, NoLoadNoFault DEF BinFault, ZeroLoads
      <3> QED BY <1>10, <3>1, <3>2, <3>3
    <2>2. AreBinDeltas(g, evals, {1}, b)
      BY DEF AreBinDeltas
    <2> HIDE DEF g
    <2>3. SumFunctionOnSet(g, {1}) = BinCostList(A, b)[k + 1]
      BY <1>10, <2>1, SumSingleton
    <2>4. MapGetOr(AddWeights(w, evals).bin, b, 0) = MapGetOr(w.bin, b, 0) + SumFunctionOnSet(g, {1})
      <3>1. MapGetOr(w.bin, b, 0) \in Int /\ WeightsShape(w)
        BY <1>7, <1>10
      <3> QED BY <1>5, <2>2, <3>1, AddedBin
    <2> QED BY <1>7, <1>10, <2>3, <2>4
  <1>16. WeightsShape(new) /\ WeightsShape(CommitWeights(new))
    BY <1>7, WeightsKeepShape
  <1> HIDE DEF new
  <1>17. WeightsUpTo(CommitWeights(new), k + 1, A)
    BY <1>14, <1>15, <1>16, CommittedWeights DEF WeightsUpTo, J
  <1> QED BY <1>17 DEF new, evals

--------------------------------------------------------------------------------
(***************************************************************************)
(* The inductive invariant of the weights, and what a trial computes.      *)
(***************************************************************************)

\* The inductive invariant of the weights: what is committed are the values of the
\* committed arrangement, for the constraints that are built.
WeightInv ==
    /\ built \in 0 .. Len(ConstraintList)
    /\ pc = "start" => committedMoves = EmptyMovements
    /\ pc # "start" => built = Len(ConstraintList) /\ currentWeight = Cost(After(committedMoves))
    /\ \A i \in DOMAIN ConstraintList :
          IF i <= built
          THEN StateOf(ConstraintList[i], constraints[i], LoadsOf(ConstraintList[i], After(committedMoves)))
          ELSE constraints[i] = EmptyConstraint(ConstraintList[i])
    /\ WeightsUpTo(weights, built, After(committedMoves))

(* The assignment tree is never changed, nor are the trees that are made from it. *)
LEMMA TreeStays == ASSUME initialBin' = initialBin, NEW c PROVE TreeOf(c)' = TreeOf(c)
  BY DEF TreeOf, AssignmentTree

(* What is to be shown for the invariant to hold after a step, in terms of the
   assignment tree before it. *)
LEMMA WeightInvAfter ==
  ASSUME initialBin' = initialBin,
         NEW A, A = After(committedMoves'),
         built' \in 0 .. Len(ConstraintList),
         pc' = "start" => committedMoves' = EmptyMovements,
         pc' # "start" => built' = Len(ConstraintList) /\ currentWeight' = Cost(A),
         \A i \in DOMAIN ConstraintList :
            IF i <= built'
            THEN StateOf(ConstraintList[i], constraints'[i], LoadsOf(ConstraintList[i], A))
            ELSE constraints'[i] = EmptyConstraint(ConstraintList[i]),
         WeightsUpTo(weights', built', A)
  PROVE  WeightInv'
  <1>1. After(committedMoves)' = A
    BY DEF After
  <1>2. \A c : LoadsOf(c, After(committedMoves))' = LoadsOf(c, A)
    BY <1>1, TreeStays DEF LoadsOf
  <1>3. \A b : BinCostList(After(committedMoves), b)' = BinCostList(A, b)
    BY <1>2 DEF BinCostList
  <1>4. WeightsUpTo(weights, built, After(committedMoves))'
    BY <1>1, <1>3 DEF WeightsUpTo, CostList
  <1>5. \A i \in DOMAIN ConstraintList :
          StateOf(ConstraintList[i], constraints'[i], LoadsOf(ConstraintList[i], A))
            => StateOf(ConstraintList[i], constraints[i], LoadsOf(ConstraintList[i], After(committedMoves)))'
    BY <1>2, TreeStays DEF StateOf
  <1> QED BY <1>1, <1>4, <1>5 DEF WeightInv

(* Arrangements. *)
LEMMA AfterType ==
  ASSUME SearchInv
  PROVE  /\ After(committedMoves) \in [Shards -> Bins]
         /\ initialBin \in [Shards -> Bins]
         /\ After(EmptyMovements) = initialBin
  <1>1. /\ initialBin \in [Shards -> Bins]
        /\ committedMoves.next \in [Shards -> Bins \cup {NoBin}]
    BY DEF SearchInv, ControlTypeOK, MovementMaps
  <1>2. After(committedMoves) \in [Shards -> Bins]
    BY <1>1 DEF After
  <1>3. After(EmptyMovements) = initialBin
    BY <1>1 DEF After, EmptyMovements
  <1> QED BY <1>1, <1>2, <1>3

(* The movement map with a trial added sends the trial's shard to its target. *)
LEMMA CommittedTrial ==
  ASSUME NEW m \in MovementMaps, NEW s \in Shards, NEW b \in Bins
  PROVE  AddMovements(m, Trial(s, b)).next = [m.next EXCEPT ![s] = b]
  <1>1. PICK n : n = AddMovements(m, Trial(s, b))
    OBVIOUS
  <1>2. /\ n \in MovementMaps
        /\ n.next = [m.next EXCEPT ![s] = b]
        /\ n.incoming = [m.incoming EXCEPT ![b] = @ \cup {s}]
    BY <1>1, CommitTrial
  <1> QED BY <1>1, <1>2

\* The trial of s to b would take the committed arrangement A to B.
TrialOf(s, b, A, B) == A = After(committedMoves) /\ B = [A EXCEPT ![s] = b]

(* A pending trial moves a shard that is where it was at first. *)
LEMMA TrialIsMove ==
  ASSUME SearchInv, NEW s \in Shards, NEW b \in Bins, <<s, b>> \in tries,
         NEW A, NEW B, TrialOf(s, b, A, B)
  PROVE  /\ IsMove(A, s, b, B) /\ A[s] = initialBin[s]
         /\ A \in [Shards -> Bins] /\ B \in [Shards -> Bins]
         /\ committedMoves.next[s] = NoBin /\ Trial(s, b).next[s] = b
         /\ After(AddMovements(committedMoves, Trial(s, b))) = B
  <1>1. committedMoves.next[s] = NoBin /\ b # initialBin[s]
    BY DEF SearchInv, TriesAreFresh
  <1>2. A \in [Shards -> Bins]
    BY AfterType DEF TrialOf
  <1>3. A[s] = initialBin[s]
    BY <1>1 DEF After, TrialOf
  <1>4. Trial(s, b).next[s] = b
    BY TrialIsOneMove
  <1>5. /\ AddMovements(committedMoves, Trial(s, b)).next = [committedMoves.next EXCEPT ![s] = b]
        /\ committedMoves.next \in [Shards -> Bins \cup {NoBin}]
    <2>1. committedMoves \in MovementMaps
      BY DEF SearchInv, ControlTypeOK
    <2>2. AddMovements(committedMoves, Trial(s, b)).next = [committedMoves.next EXCEPT ![s] = b]
      BY <2>1, CommittedTrial
    <2>3. committedMoves.next \in [Shards -> Bins \cup {NoBin}]
      BY <2>1 DEF MovementMaps
    <2> QED BY <2>2, <2>3
  <1> DEFINE m == AddMovements(committedMoves, Trial(s, b))
  <1>6. After(m) = B
    <2>1. m.next = [committedMoves.next EXCEPT ![s] = b]
      BY <1>5
    <2> HIDE DEF m
    <2>2. \A x \in Shards : After(m)[x] = IF x = s THEN b ELSE A[x]
      BY <1>5, <2>1, NoBinAssumption DEF After, TrialOf
    <2>3. DOMAIN After(m) = Shards /\ After(m) = [x \in Shards |-> After(m)[x]]
      BY DEF After
    <2> QED BY <1>2, <2>2, <2>3 DEF TrialOf
  <1> QED BY <1>1, <1>2, <1>3, <1>4, <1>6 DEF IsMove, TrialOf

\* What the evaluations of a trial that takes A to B leave, when the weights w are new.
TrialResult(evals, new, A, B) ==
    /\ DOMAIN evals = DOMAIN ConstraintList
    /\ \A i \in DOMAIN ConstraintList :
          /\ StateOf(ConstraintList[i], evals[i].state, LoadsOf(ConstraintList[i], A))
          /\ CanaryOf(ConstraintList[i], evals[i].state, LoadsOf(ConstraintList[i], B))
    /\ KeyGetOr(new.total, 0) = Cost(B)
    /\ WeightsUpTo(new, Len(ConstraintList), A)
    /\ WeightsUpTo(CommitWeights(new), Len(ConstraintList), B)

(* Every constraint evaluates a trial exactly, whatever was tried before it. *)
LEMMA TrialIsExact ==
  ASSUME ExactList, SearchInv, WeightInv, pc # "start",
         NEW s \in Shards, NEW b \in Bins, <<s, b>> \in tries,
         NEW A, NEW B, TrialOf(s, b, A, B)
  PROVE  TrialResult(Evaluations(s, b), TrialWeights(Evaluations(s, b)), A, B)
  <1> DEFINE evals == Evaluations(s, b)
             new == TrialWeights(evals)
  <1>1. /\ IsMove(A, s, b, B) /\ A[s] = initialBin[s]
        /\ committedMoves.next[s] = NoBin /\ Trial(s, b).next[s] = b
    BY TrialIsMove
  <1>2. A \in [Shards -> Bins] /\ B \in [Shards -> Bins] /\ initialBin \in [Shards -> Bins]
    BY AfterType, TrialIsMove
  <1>3. DOMAIN evals = DOMAIN ConstraintList
    BY DEF Evaluations
  <1>4. ASSUME NEW i \in DOMAIN ConstraintList
        PROVE  /\ StateOf(ConstraintList[i], evals[i].state, LoadsOf(ConstraintList[i], A))
               /\ CanaryOf(ConstraintList[i], evals[i].state, LoadsOf(ConstraintList[i], B))
               /\ DeltasOf(ConstraintList[i], evals[i], LoadsOf(ConstraintList[i], A), LoadsOf(ConstraintList[i], B))
    <2> DEFINE c == ConstraintList[i]
               eval == evals[i]
               st == constraints[i]
    <2>1. IsExact(c)
      BY DEF ExactList
    <2>2. i <= built
      BY ConstraintListAssumption DEF WeightInv
    <2>3. StateOf(c, st, LoadsOf(c, A))
      BY <2>2 DEF WeightInv, TrialOf
    <2>4. eval = Evaluate(c, ClearConstraint(c, st), ConstraintTree(c, AssignmentTree),
                          <<EmptyMovements, committedMoves, Trial(s, b)>>, {s})
      BY DEF Evaluations, MovementMapsOf
    <2> DEFINE m2 == committedMoves
               m3 == Trial(s, b)
    <2>5. /\ m2.next[s] = NoBin /\ m3.next[s] = b
          /\ eval = Evaluate(c, ClearConstraint(c, st), ConstraintTree(c, AssignmentTree),
                             <<EmptyMovements, m2, m3>>, {s})
      BY <1>1, <2>4
    <2> HIDE DEF c, eval, st, m2, m3
    <2>6. /\ StateOf(c, eval.state, LoadsOf(c, A)) /\ CanaryOf(c, eval.state, LoadsOf(c, B))
          /\ DeltasOf(c, eval, LoadsOf(c, A), LoadsOf(c, B))
      BY <1>1, <1>2, <2>1, <2>3, <2>5, TriedEvaluation
    <2> QED BY <2>6 DEF c, eval
  <1>5. WeightsUpTo(weights, Len(ConstraintList), A)
    BY DEF WeightInv, TrialOf
  <1>6. new = AddWeights(ClearWeights(weights), evals)
    BY DEF TrialWeights
  <1> HIDE DEF evals, new
  <1>7. AreDeltas(evals, A, B)
    BY <1>3, <1>4 DEF AreDeltas
  <1>8. /\ KeyGetOr(new.total, 0) = Cost(B)
        /\ WeightsUpTo(new, Len(ConstraintList), A)
        /\ WeightsUpTo(CommitWeights(new), Len(ConstraintList), B)
    BY <1>2, <1>5, <1>6, <1>7, TriedWeights
  <1> QED BY <1>3, <1>4, <1>8 DEF TrialResult, evals, new

--------------------------------------------------------------------------------
(***************************************************************************)
(* Every step keeps the weights exact.                                     *)
(***************************************************************************)

(* No constraint is built and nothing weighs anything at first. *)
LEMMA WeightInvInit == Init => WeightInv
  <1> SUFFICES ASSUME Init PROVE WeightInv
    OBVIOUS
  <1>1. /\ built = 0 /\ pc = "start" /\ committedMoves = EmptyMovements /\ weights = EmptyWeights
        /\ constraints = [i \in DOMAIN ConstraintList |-> EmptyConstraint(ConstraintList[i])]
    BY DEF Init, SearchInit
  <1>2. \A i \in DOMAIN ConstraintList : ~(i <= 0)
    BY ConstraintListAssumption
  <1>3. WeightsUpTo(weights, 0, After(committedMoves))
    <2>1. weights.bin = EmptyMap /\ weights.total = EmptyKey
      BY <1>1 DEF EmptyWeights
    <2>2. WeightsShape(weights)
      BY <1>1, EmptyMapFacts DEF EmptyWeights, WeightsShape, IsKey, EmptyKey
    <2>3. KeyGetOr(KeyClear(weights.total), 0) = 0
      BY <2>1 DEF KeyGetOr, KeyClear, EmptyKey
    <2>4. 1 .. 0 = {}
      OBVIOUS
    <2>5. \A b \in Bins : MapCommittedOr(weights.bin, b, 0) = 0
      BY <2>1, EmptyMapFacts
    <2> QED BY <2>2, <2>3, <2>4, <2>5, SumEmpty DEF WeightsUpTo
  <1> QED BY <1>1, <1>2, <1>3, ConstraintListAssumption DEF WeightInv

(* The constructor of a constraint preserves the invariant. *)
LEMMA ConstructPreserves ==
  ASSUME ExactList, SearchInv, CleanInv, WeightInv, ConstructConstraint
  PROVE  WeightInv'
  <1> DEFINE k == built
             c == ConstraintList[k + 1]
             eval == InitializeMetricState(c, constraints[k + 1])
             A == After(committedMoves)
  <1>1. /\ pc = "start" /\ k < Len(ConstraintList) /\ k \in Nat /\ built' = k + 1
        /\ constraints' = [constraints EXCEPT ![k + 1] = CommitConstraint(c, eval.state)]
        /\ weights' = CommitWeights(AddWeights(weights, <<eval>>))
        /\ UNCHANGED <<initialBin, pc, committedMoves, currentWeight>>
    BY ConstraintListAssumption DEF ConstructConstraint, searchVars, WeightInv
  <1>2. A = initialBin /\ A \in [Shards -> Bins]
    BY <1>1, AfterType DEF WeightInv
  <1>3. /\ k + 1 \in DOMAIN ConstraintList /\ built' \in 0 .. Len(ConstraintList)
        /\ constraints[k + 1] = EmptyConstraint(c)
    <2>1. k + 1 \in DOMAIN ConstraintList /\ built' \in 0 .. Len(ConstraintList)
      BY <1>1, ConstraintListAssumption
    <2>2. ~(k + 1 <= built)
      BY <1>1
    <2> QED BY <2>1, <2>2 DEF WeightInv
  <1>4. IsExact(c)
    BY <1>3 DEF ExactList
  <1>5. /\ StateOf(c, eval.state, ZeroLoads(c)) /\ CanaryOf(c, eval.state, LoadsOf(c, A))
        /\ DeltasOf(c, eval, ZeroLoads(c), LoadsOf(c, A))
    <2>1. eval = InitializeMetricState(c, EmptyConstraint(c)) /\ initialBin \in [Shards -> Bins]
      BY <1>2, <1>3
    <2>2. /\ StateOf(c, eval.state, ZeroLoads(c)) /\ CanaryOf(c, eval.state, LoadsOf(c, initialBin))
          /\ DeltasOf(c, eval, ZeroLoads(c), LoadsOf(c, initialBin))
      <3> HIDE DEF eval, c
      <3> QED BY <1>4, <2>1, BuiltEvaluation
    <2> QED BY <1>2, <2>2
  <1>6. StateOf(c, CommitConstraint(c, eval.state), LoadsOf(c, A))
    <2> HIDE DEF eval, c, A
    <2> QED BY <1>4, <1>5, CommittedState
  <1>7. WeightsUpTo(weights', k + 1, A)
    <2>1. WeightsUpTo(weights, k, A) /\ CleanWeights(weights)
      BY <1>1 DEF WeightInv, CleanInv
    <2>2. c = ConstraintList[k + 1]
      OBVIOUS
    <2>3. DeltasOf(c, eval, ZeroLoads(c), LoadsOf(c, A))
      BY <1>5
    <2>4. k \in Nat /\ k < Len(ConstraintList)
      BY <1>1
    <2> HIDE DEF eval, c, A, k
    <2>5. WeightsUpTo(CommitWeights(AddWeights(weights, <<eval>>)), k + 1, A)
      BY <1>2, <2>1, <2>2, <2>3, <2>4, BuiltWeights
    <2> QED BY <1>1, <2>5
  <1>8. \A i \in DOMAIN ConstraintList :
            IF i <= built'
            THEN StateOf(ConstraintList[i], constraints'[i], LoadsOf(ConstraintList[i], A))
            ELSE constraints'[i] = EmptyConstraint(ConstraintList[i])
    <2> SUFFICES ASSUME NEW i \in DOMAIN ConstraintList
                 PROVE  IF i <= built'
                        THEN StateOf(ConstraintList[i], constraints'[i], LoadsOf(ConstraintList[i], A))
                        ELSE constraints'[i] = EmptyConstraint(ConstraintList[i])
      OBVIOUS
    <2>0. DOMAIN constraints = DOMAIN ConstraintList /\ i \in Nat
      BY ConstraintListAssumption DEF CleanInv
    <2>1. CASE i = k + 1
      <3>1. constraints'[i] = CommitConstraint(c, eval.state) /\ i <= built'
        BY <1>1, <2>0, <2>1
      <3> QED BY <1>6, <2>1, <3>1
    <2>2. CASE i # k + 1
      <3>1. constraints'[i] = constraints[i] /\ (i <= built' <=> i <= built)
        BY <1>1, <2>0, <2>2
      <3> QED BY <3>1 DEF WeightInv
    <2> QED BY <2>1, <2>2
  <1>9. A = After(committedMoves')
    BY <1>1
  <1>10. pc' = "start" /\ committedMoves' = EmptyMovements /\ built' = k + 1 /\ initialBin' = initialBin
    BY <1>1 DEF WeightInv
  <1> HIDE DEF A, k, c, eval
  <1> QED BY <1>3, <1>7, <1>8, <1>9, <1>10, WeightInvAfter

(* solve starts with the cost of the assignment tree. *)
LEMMA SolvePreserves ==
  ASSUME ExactList, SearchInv, CleanInv, WeightInv, Solve
  PROVE  WeightInv'
  <1> DEFINE A == After(committedMoves)
  <1>1. /\ pc = "start" /\ pc' # "start" /\ built = Len(ConstraintList)
        /\ currentWeight' = KeyGetOr(weights.total, 0)
        /\ UNCHANGED <<initialBin, committedMoves, built, constraints, weights>>
    BY DEF Solve, SolveStart
  <1>2. WeightsUpTo(weights, built, A) /\ A \in [Shards -> Bins]
    BY AfterType DEF WeightInv
  <1>3. KeyClear(weights.total) = weights.total
    BY <1>1 DEF CleanInv, CleanWeights, WeightsShape, IsKey, KeyClear
  <1>4. currentWeight' = SumFunctionOnSet(CostList(A), 1 .. built)
    BY <1>1, <1>2, <1>3 DEF WeightsUpTo
  <1> HIDE DEF A
  <1>5. currentWeight' = Cost(A)
    BY <1>1, <1>2, <1>4, AllWeights
  <1>6. A = After(committedMoves')
    BY <1>1 DEF A
  <1>7. \A i \in DOMAIN ConstraintList :
            IF i <= built'
            THEN StateOf(ConstraintList[i], constraints'[i], LoadsOf(ConstraintList[i], A))
            ELSE constraints'[i] = EmptyConstraint(ConstraintList[i])
    BY <1>1 DEF WeightInv, A
  <1>8. built' \in 0 .. Len(ConstraintList) /\ WeightsUpTo(weights', built', A)
    BY <1>1, <1>2 DEF WeightInv
  <1> QED BY <1>1, <1>5, <1>6, <1>7, <1>8, WeightInvAfter

(* A step of the search that evaluates nothing preserves the invariant. *)
LEMMA QuietWeights ==
  ASSUME WeightInv, pc = "start" <=> pc' = "start",
         UNCHANGED <<initialBin, committedMoves, currentWeight, built, constraints, weights>>
  PROVE  WeightInv'
  <1> DEFINE A == After(committedMoves)
  <1>1. A = After(committedMoves')
    OBVIOUS
  <1>2. \A i \in DOMAIN ConstraintList :
            IF i <= built'
            THEN StateOf(ConstraintList[i], constraints'[i], LoadsOf(ConstraintList[i], A))
            ELSE constraints'[i] = EmptyConstraint(ConstraintList[i])
    BY DEF WeightInv
  <1>3. built' \in 0 .. Len(ConstraintList) /\ WeightsUpTo(weights', built', A)
    BY DEF WeightInv
  <1>4. /\ pc' = "start" => committedMoves' = EmptyMovements
        /\ pc' # "start" => built' = Len(ConstraintList) /\ currentWeight' = Cost(A)
    BY DEF WeightInv
  <1> HIDE DEF A
  <1> QED BY <1>1, <1>2, <1>3, <1>4, WeightInvAfter

(* A rejected trial leaves the committed values alone, and its own are exact. *)
LEMMA RejectPreserves ==
  ASSUME ExactList, SearchInv, WeightInv, NEW s \in Shards, NEW b \in Bins, Reject(s, b)
  PROVE  WeightInv' /\ TrialWeightExact'
  <1> DEFINE A == After(committedMoves)
             B == [A EXCEPT ![s] = b]
             evals == Evaluations(s, b)
             new == TrialWeights(evals)
  <1>1. /\ pc = "try" /\ <<s, b>> \in tries /\ canariedMoves' = Trial(s, b)
        /\ UNCHANGED <<initialBin, pc, committedMoves, currentWeight, built>>
        /\ constraints' = [i \in DOMAIN evals |-> evals[i].state]
        /\ weights' = new
    BY DEF Reject, RejectMove
  <1>2. TrialOf(s, b, A, B)
    BY DEF TrialOf
  <1> HIDE DEF A, B
  <1>3. TrialResult(evals, new, A, B)
    BY <1>1, <1>2, TrialIsExact
  <1>4. After(AddMovements(committedMoves, Trial(s, b))) = B
    BY <1>1, <1>2, TrialIsMove
  <1> HIDE DEF evals, new
  <1>5. built = Len(ConstraintList) /\ currentWeight = Cost(A) /\ pc # "start"
    BY <1>1 DEF WeightInv, A
  <1>6. WeightInv'
    <2>1. A = After(committedMoves')
      BY <1>1 DEF A
    <2>2. \A i \in DOMAIN ConstraintList :
            IF i <= built'
            THEN StateOf(ConstraintList[i], constraints'[i], LoadsOf(ConstraintList[i], A))
            ELSE constraints'[i] = EmptyConstraint(ConstraintList[i])
      BY <1>1, <1>3, <1>5, ConstraintListAssumption DEF TrialResult
    <2>3. built' \in 0 .. Len(ConstraintList) /\ WeightsUpTo(weights', built', A)
      BY <1>1, <1>3, <1>5, ConstraintListAssumption DEF TrialResult
    <2>4. pc' # "start" /\ built' = Len(ConstraintList) /\ currentWeight' = Cost(A)
      BY <1>1, <1>5
    <2> QED BY <1>1, <2>1, <2>2, <2>3, <2>4, WeightInvAfter
  <1>7. KeyGetOr(weights'.total, 0) = Cost(B)
    BY <1>1, <1>3 DEF TrialResult
  <1>8. After(AddMovements(committedMoves, canariedMoves))' = B
    <2>1. AddMovements(committedMoves', canariedMoves') = AddMovements(committedMoves, Trial(s, b))
      BY <1>1
    <2> QED BY <1>1, <1>4, <2>1 DEF After
  <1>9. TrialWeightExact'
    BY <1>7, <1>8 DEF TrialWeightExact
  <1> QED BY <1>6, <1>9

(* An accepted trial makes its values the committed ones. *)
LEMMA AcceptPreservesWeights ==
  ASSUME ExactList, SearchInv, WeightInv, NEW s \in Shards, NEW b \in Bins, Accept(s, b)
  PROVE  /\ WeightInv'
         /\ Cost([After(committedMoves) EXCEPT ![s] = b]) < Cost(After(committedMoves))
         /\ After(committedMoves)' = [After(committedMoves) EXCEPT ![s] = b]
  <1> DEFINE A == After(committedMoves)
             B == [A EXCEPT ![s] = b]
             evals == Evaluations(s, b)
             new == TrialWeights(evals)
  <1>1. /\ pc = "try" /\ pc' = "iterate" /\ <<s, b>> \in tries
        /\ committedMoves' = AddMovements(committedMoves, Trial(s, b))
        /\ UNCHANGED <<initialBin, built>>
        /\ constraints' = [i \in DOMAIN evals |-> CommitConstraint(ConstraintList[i], evals[i].state)]
        /\ weights' = CommitWeights(new)
        /\ currentWeight' = KeyGetOr(new.total, 0)
        /\ KeyGetOr(new.total, 0) < currentWeight
    BY DEF Accept, AcceptMove
  <1>2. TrialOf(s, b, A, B)
    BY DEF TrialOf
  <1> HIDE DEF A, B
  <1>3. TrialResult(evals, new, A, B)
    BY <1>1, <1>2, TrialIsExact
  <1>4. After(AddMovements(committedMoves, Trial(s, b))) = B
    BY <1>1, <1>2, TrialIsMove
  <1> HIDE DEF evals, new
  <1>5. built = Len(ConstraintList) /\ currentWeight = Cost(A) /\ pc # "start"
    BY <1>1 DEF WeightInv, A
  <1>6. currentWeight' = Cost(B) /\ Cost(B) < Cost(A)
    BY <1>1, <1>3, <1>5 DEF TrialResult
  <1>7. B = After(committedMoves')
    BY <1>1, <1>4
  <1>8. \A i \in DOMAIN ConstraintList :
            StateOf(ConstraintList[i], constraints'[i], LoadsOf(ConstraintList[i], B))
    <2> SUFFICES ASSUME NEW i \in DOMAIN ConstraintList
                 PROVE  StateOf(ConstraintList[i], constraints'[i], LoadsOf(ConstraintList[i], B))
      OBVIOUS
    <2> DEFINE c == ConstraintList[i]
               st == evals[i].state
    <2>1. constraints'[i] = CommitConstraint(c, st)
      BY <1>1, <1>3 DEF TrialResult
    <2>2. IsExact(c) /\ StateOf(c, st, LoadsOf(c, A)) /\ CanaryOf(c, st, LoadsOf(c, B))
      BY <1>3 DEF TrialResult, ExactList
    <2> HIDE DEF c, st
    <2>3. StateOf(c, CommitConstraint(c, st), LoadsOf(c, B))
      BY <2>2, CommittedState
    <2> QED BY <2>1, <2>3 DEF c
  <1>9. WeightInv'
    <2>1. \A i \in DOMAIN ConstraintList :
            IF i <= built'
            THEN StateOf(ConstraintList[i], constraints'[i], LoadsOf(ConstraintList[i], B))
            ELSE constraints'[i] = EmptyConstraint(ConstraintList[i])
      <3>1. \A i \in DOMAIN ConstraintList : i <= built'
        BY <1>1, <1>5, ConstraintListAssumption
      <3> QED BY <1>8, <3>1
    <2>2. built' \in 0 .. Len(ConstraintList) /\ WeightsUpTo(weights', built', B)
      BY <1>1, <1>3, <1>5, ConstraintListAssumption DEF TrialResult
    <2>3. pc' # "start" /\ built' = Len(ConstraintList) /\ currentWeight' = Cost(B)
      BY <1>1, <1>5, <1>6
    <2> QED BY <1>1, <1>7, <2>1, <2>2, <2>3, WeightInvAfter
  <1>10. After(committedMoves)' = B
    BY <1>1, <1>7 DEF After
  <1> QED BY <1>6, <1>9, <1>10 DEF A, B

(* A step that evaluates nothing keeps what is known of the last trial. *)
LEMMA QuietTrial ==
  ASSUME TrialWeightExact, UNCHANGED <<initialBin, committedMoves, weights>>,
         \/ pc' \notin {"pick", "try"}
         \/ canariedMoves' = EmptyMovements
         \/ pc \in {"pick", "try"} /\ canariedMoves' = canariedMoves
  PROVE  TrialWeightExact'
  <1>1. CASE pc' \notin {"pick", "try"}
    BY <1>1 DEF TrialWeightExact
  <1>2. CASE canariedMoves' = EmptyMovements
    <2>1. MovedShards(canariedMoves') = {}
      BY <1>2 DEF MovedShards, EmptyMovements
    <2> QED BY <2>1 DEF TrialWeightExact
  <1>3. CASE pc \in {"pick", "try"} /\ canariedMoves' = canariedMoves
    <2>1. After(AddMovements(committedMoves, canariedMoves))' = After(AddMovements(committedMoves, canariedMoves))
      BY <1>3 DEF After
    <2>2. MovedShards(canariedMoves)' = MovedShards(canariedMoves)
      BY <1>3
    <2> QED BY <1>3, <2>1, <2>2 DEF TrialWeightExact
  <1> QED BY <1>1, <1>2, <1>3

(* Every step of the placer preserves the invariant of the weights and what is
   known of the last trial. *)
LEMMA WeightInvStep ==
  ASSUME ExactList, SearchInv, CleanInv, WeightInv, TrialWeightExact, [Next]_vars
  PROVE  WeightInv' /\ TrialWeightExact'
  <1>1. CASE ConstructConstraint
    <2>1. pc' \notin {"pick", "try"} /\ WeightInv'
      BY <1>1, ConstructPreserves DEF ConstructConstraint, searchVars
    <2> QED BY <2>1 DEF TrialWeightExact
  <1>2. CASE Solve
    <2>1. pc' \notin {"pick", "try"} /\ WeightInv'
      BY <1>2, SolvePreserves DEF Solve, SolveStart
    <2> QED BY <2>1 DEF TrialWeightExact
  <1>3. CASE OrderBins
    BY <1>3, QuietWeights, QuietTrial DEF OrderBins, StartIteration
  <1>4. CASE Walk
    <2>1. /\ UNCHANGED <<initialBin, committedMoves, currentWeight, built, constraints, weights>>
          /\ pc # "start" /\ pc' # "start"
          /\ \/ pc' \notin {"pick", "try"}
             \/ canariedMoves' = EmptyMovements
             \/ pc \in {"pick", "try"} /\ canariedMoves' = canariedMoves
      BY <1>4 DEF Walk, IterationsExhausted, SkipBin, EnterBin, NoMoveFound, PickShard, GiveUpBin, TriesExhausted
    <2>2. WeightInv'
      BY <2>1, QuietWeights
    <2>3. TrialWeightExact'
      BY <2>1, QuietTrial
    <2> QED BY <2>2, <2>3
  <1>5. CASE \E s \in Shards, b \in Bins : Reject(s, b)
    BY <1>5, RejectPreserves
  <1>6. CASE \E s \in Shards, b \in Bins : Accept(s, b)
    <2>1. PICK s \in Shards, b \in Bins : Accept(s, b)
      BY <1>6
    <2>2. pc' = "iterate"
      BY <2>1 DEF Accept, AcceptMove
    <2>3. WeightInv'
      BY <2>1, AcceptPreservesWeights
    <2> QED BY <2>2, <2>3 DEF TrialWeightExact
  <1>7. CASE Finished \/ UNCHANGED vars
    <2>1. UNCHANGED <<initialBin, pc, committedMoves, currentWeight, canariedMoves, built, constraints, weights>>
      BY <1>7 DEF Finished, vars, searchVars
    <2>2. WeightInv'
      BY <2>1, QuietWeights
    <2>3. TrialWeightExact'
      <3>1. /\ After(AddMovements(committedMoves, canariedMoves))' = After(AddMovements(committedMoves, canariedMoves))
            /\ MovedShards(canariedMoves)' = MovedShards(canariedMoves)
        BY <2>1 DEF After
      <3> QED BY <2>1, <3>1 DEF TrialWeightExact
    <2> QED BY <2>2, <2>3
  <1> QED BY <1>1, <1>2, <1>3, <1>4, <1>5, <1>6, <1>7 DEF Next

(* The invariant of the weights, with the invariants it rests on. *)
LEMMA WeightInvariant ==
  ASSUME ExactList
  PROVE  Spec => [](SearchInv /\ WeightInv /\ TrialWeightExact)
  <1> DEFINE Inv == SearchInv /\ CleanInv /\ WeightInv /\ TrialWeightExact
  <1>1. Init => Inv
    <2>1. Init => pc = "start"
      BY DEF Init, SearchInit
    <2>2. pc = "start" => TrialWeightExact
      BY DEF TrialWeightExact
    <2>3. Init => SearchInv
      BY SearchInvInit DEF Init
    <2> QED BY <2>1, <2>2, <2>3, CleanInvInit, WeightInvInit
  <1>2. Inv /\ [Next]_vars => Inv'
    BY WeightInvStep, CleanInvStep, SearchInvStep, PlacerStepIsSearchStep
  <1> QED BY <1>1, <1>2, PTL DEF Spec

(* The weights of an exact list of constraints are exact: after any number of rejected
   trials and committed moves, the incrementally kept weights are the cost of the
   committed arrangement computed afresh, in total and for every bin. *)
THEOREM PlacerWeightsAreExact ==
  ASSUME ExactList
  PROVE  Spec => []CommittedWeightsExact
  <1>1. SearchInv /\ WeightInv => CommittedWeightsExact
    <2> SUFFICES ASSUME SearchInv, WeightInv, pc # "start"
                 PROVE  /\ currentWeight = Cost(After(committedMoves))
                        /\ KeyGetOr(KeyClear(weights.total), 0) = currentWeight
                        /\ \A b \in Bins : MapCommittedOr(weights.bin, b, 0) = BinCost(After(committedMoves), b)
      BY DEF CommittedWeightsExact
    <2> DEFINE A == After(committedMoves)
               k == Len(ConstraintList)
    <2>1. A \in [Shards -> Bins]
      BY AfterType
    <2>2. currentWeight = Cost(A) /\ WeightsUpTo(weights, k, A)
      BY DEF WeightInv
    <2> HIDE DEF A
    <2>3. /\ SumFunctionOnSet(CostList(A), 1 .. k) = Cost(A)
          /\ \A b \in Bins : SumFunctionOnSet(BinCostList(A, b), 1 .. k) = BinCost(A, b)
      BY <2>1, AllWeights
    <2> QED BY <2>2, <2>3 DEF WeightsUpTo, A
  <1> QED BY <1>1, WeightInvariant, PTL

(* Every trial is judged by the cost of the arrangement that it leads to. *)
THEOREM PlacerTrialsAreExact ==
  ASSUME ExactList
  PROVE  Spec => []TrialWeightExact
  BY WeightInvariant, PTL

(* The placer is a hill climb: each committed move takes one shard that was never moved
   to another bin and makes the arrangement strictly better. *)
THEOREM PlacerClimbsHill ==
  ASSUME ExactList
  PROVE  Spec => ClimbsHill
  <1>1. Init => Abstract!Init
    <2> SUFFICES ASSUME Init PROVE Abstract!Init
      OBVIOUS
    <2>1. SearchInv /\ committedMoves = EmptyMovements
      BY SearchInvInit DEF Init, SearchInit
    <2>2. After(committedMoves) \in [Shards -> Bins]
      BY <2>1, AfterType
    <2>3. MovedShards(committedMoves) = {}
      BY <2>1 DEF MovedShards, EmptyMovements
    <2> QED BY <2>2, <2>3 DEF Abstract!Init
  <1>2. SearchInv /\ WeightInv /\ [Next]_vars
          => [Abstract!Next]_<<After(committedMoves), MovedShards(committedMoves)>>
    <2> SUFFICES ASSUME SearchInv, WeightInv, [Next]_vars
                 PROVE  [Abstract!Next]_<<After(committedMoves), MovedShards(committedMoves)>>
      OBVIOUS
    <2>1. CASE \E s \in Shards, b \in Bins : Accept(s, b)
      <3>1. PICK s \in Shards, b \in Bins : Accept(s, b)
        BY <2>1
      <3> DEFINE A == After(committedMoves)
                 B == [A EXCEPT ![s] = b]
      <3>2. Cost(B) < Cost(A) /\ A' = B
        BY <3>1, AcceptPreservesWeights
      <3>3. <<s, b>> \in tries
        BY <3>1 DEF Accept, AcceptMove
      <3>4. TrialOf(s, b, A, B)
        BY DEF TrialOf
      <3>5. IsMove(A, s, b, B) /\ committedMoves.next[s] = NoBin
        <4> HIDE DEF A, B
        <4> QED BY <3>3, <3>4, TrialIsMove
      <3>6. committedMoves'.next = [committedMoves.next EXCEPT ![s] = b]
        <4>1. PICK w : AcceptMove(s, b, w)
          BY <3>1 DEF Accept
        <4> QED BY <4>1, AcceptRedirects
      <3>7. s \notin MovedShards(committedMoves) /\ MovedShards(committedMoves)' = MovedShards(committedMoves) \cup {s}
        <4>1. committedMoves.next \in [Shards -> Bins \cup {NoBin}]
          BY DEF SearchInv, ControlTypeOK, MovementMaps
        <4> QED BY <3>5, <3>6, <4>1, NoBinAssumption DEF MovedShards
      <3>8. Abstract!Move(s, b)
        BY <3>2, <3>5, <3>7 DEF Abstract!Move, IsMove
      <3> QED BY <3>8 DEF Abstract!Next
    <2>2. CASE UNCHANGED <<initialBin, committedMoves>>
      <3>1. UNCHANGED <<After(committedMoves), MovedShards(committedMoves)>>
        BY <2>2 DEF After
      <3> QED BY <3>1
    <2>3. CASE ConstructConstraint
      BY <2>2, <2>3 DEF ConstructConstraint, searchVars
    <2>4. CASE Solve
      BY <2>2, <2>4 DEF Solve, SolveStart
    <2>5. CASE OrderBins
      BY <2>2, <2>5 DEF OrderBins, StartIteration
    <2>6. CASE Walk
      BY <2>2, <2>6 DEF Walk, IterationsExhausted, SkipBin, EnterBin, NoMoveFound, PickShard, GiveUpBin, TriesExhausted
    <2>7. CASE \E s \in Shards, b \in Bins : Reject(s, b)
      BY <2>2, <2>7 DEF Reject, RejectMove
    <2>8. CASE Finished \/ UNCHANGED vars
      BY <2>2, <2>8 DEF Finished, vars, searchVars
    <2> QED BY <2>1, <2>3, <2>4, <2>5, <2>6, <2>7, <2>8 DEF Next
  <1> QED BY <1>1, <1>2, WeightInvariant, PTL DEF Spec, ClimbsHill, Abstract!Spec

--------------------------------------------------------------------------------
(***************************************************************************)
(* Where the search stops: if its samples have every bin, a shard that is  *)
(* alone in its bin has no better place.                                   *)
(***************************************************************************)

\* The move of s to b would not make the committed arrangement better.
NotBetter(s, b) == Cost([After(committedMoves) EXCEPT ![s] = b]) >= Cost(After(committedMoves))

\* A shard that is the only one left in the bin has no better place.
BinDone(bin) == \A s \in Shards : ShardsInBin(bin) = {s} => \A b \in Bins : NotBetter(s, b)

Queued == {binQueue[i] : i \in DOMAIN binQueue}

\* The inductive invariant behind LoneShardsAreOptimal: the bins that solve has passed in
\* this iteration are done, and so is the one at hand once a shard of it was tried.
LoneInv ==
    /\ pc \in {"bins", "pick", "try"} => \A bin \in Bins \ Queued : BinDone(bin)
    /\ pc = "pick" /\ picks > 0 => BinDone(Head(binQueue))
    /\ pc = "try" => /\ picks > 0
                     /\ \A s \in Shards : ShardsInBin(Head(binQueue)) = {s} =>
                           \A b \in Bins : <<s, b>> \in tries \/ NotBetter(s, b)
    /\ pc = "done" /\ iter < MaxIterations => \A bin \in Bins : BinDone(bin)

(* The order of the bins has every bin. *)
LEMMA OrderHasAllBins ==
  ASSUME NEW q \in BinOrders
  PROVE  \A bin \in Bins : \E i \in DOMAIN q : q[i] = bin
  <1> DEFINE n == Cardinality(Bins)
  <1>1. n \in Nat /\ IsFiniteSet(Bins)
    BY SearchAssumption, FS_CardinalityType
  <1>2. IsFiniteSet(1 .. n) /\ Cardinality(1 .. n) = n
    BY <1>1, FS_Interval
  <1>3. q \in [1 .. n -> Bins] /\ \A i, j \in 1 .. n : q[i] = q[j] => i = j
    BY DEF BinOrders
  <1> HIDE DEF n
  <1>4. q \in Injection(1 .. n, Bins)
    BY <1>3 DEF Injection, IsInjective
  <1>5. q \in Surjection(1 .. n, Bins)
    BY <1>1, <1>2, <1>4, FS_Injection DEF n
  <1> QED BY <1>3, <1>5 DEF Surjection

(* If the sample is large enough, binSet has all the other bins. *)
LEMMA SampleHasAllBins ==
  ASSUME SampleSize >= Cardinality(Bins) - 1, NEW bin \in Bins, NEW B \in BinSets(bin)
  PROVE  B = Bins \ {bin}
  <1> DEFINE others == Cardinality(Bins) - 1
  <1>1. IsFiniteSet(Bins) /\ Cardinality(Bins) \in Nat /\ SampleSize \in Nat
    BY SearchAssumption, FS_CardinalityType
  <1>2. IsFiniteSet(Bins \ {bin}) /\ Cardinality(Bins \ {bin}) = others
    BY <1>1, FS_RemoveElement
  <1>3. B \in SUBSET (Bins \ {bin}) /\ Cardinality(B) = IF others < SampleSize THEN others ELSE SampleSize
    BY DEF BinSets
  <1>4. Cardinality(B) = others
    BY <1>1, <1>3
  <1> QED BY <1>2, <1>3, <1>4, FS_Subset

(* A shard that stays where it is costs the same. *)
LEMMA StayingIsNotBetter ==
  ASSUME ExactList, SearchInv, NEW s \in Shards, NEW b \in Bins, b = After(committedMoves)[s]
  PROVE  NotBetter(s, b)
  <1> DEFINE A == After(committedMoves)
             N == Len(ConstraintList)
  <1>1. A \in [Shards -> Bins]
    BY AfterType
  <1>2. [A EXCEPT ![s] = b] = A
    BY <1>1
  <1> HIDE DEF A
  <1>3. SumFunctionOnSet(CostList(A), 1 .. N) = Cost(A)
    BY <1>1, AllWeights
  <1>4. N \in Nat /\ 1 .. N = DOMAIN ConstraintList
    BY ConstraintListAssumption
  <1>a. \A i \in 1 .. N : CostList(A)[i] \in Int
    BY <1>1, <1>4, CostListTypes
  <1> HIDE DEF N
  <1>b. IsFiniteSet(1 .. N)
    BY <1>4, FS_Interval
  <1>5. Cost(A) \in Int
    BY <1>3, <1>a, <1>b, SumType
  <1>6. Cost([A EXCEPT ![s] = b]) >= Cost(A)
    BY <1>2, <1>5
  <1> QED BY <1>6 DEF NotBetter, A

(* What a bin has left and what is better depend on the committed moves alone. *)
LEMMA DoneStays ==
  ASSUME UNCHANGED <<initialBin, committedMoves>>
  PROVE  /\ \A s, b : NotBetter(s, b)' = NotBetter(s, b)
         /\ \A bin : ShardsInBin(bin)' = ShardsInBin(bin)
         /\ \A bin : BinDone(bin)' = BinDone(bin)
  <1>1. After(committedMoves)' = After(committedMoves)
    BY DEF After
  <1>2. \A s, b : NotBetter(s, b)' = NotBetter(s, b)
    BY <1>1 DEF NotBetter
  <1>3. \A bin : ShardsInBin(bin)' = ShardsInBin(bin)
    BY DEF ShardsInBin
  <1> QED BY <1>2, <1>3 DEF BinDone

(* A queue of bins loses only its head. *)
LEMMA QueueTail ==
  ASSUME SearchInv, binQueue # <<>>, binQueue' = Tail(binQueue), NEW bin \in Bins \ Queued'
  PROVE  bin \notin Queued \/ bin = Head(binQueue)
  <1> SUFFICES ASSUME NEW i \in DOMAIN binQueue, bin = binQueue[i], i # 1 PROVE FALSE
    BY DEF Queued
  <1>1. binQueue \in Seq(Bins)
    BY DEF SearchInv, ControlTypeOK
  <1>2. i \in 1 .. Len(binQueue) /\ Len(binQueue) \in Nat
    BY <1>1
  <1>3. i - 1 \in DOMAIN Tail(binQueue) /\ Tail(binQueue)[i - 1] = binQueue[i]
    BY <1>1, <1>2
  <1> QED BY <1>3 DEF Queued

(* Every step of the placer preserves the invariant: a shard that is alone in its bin is
   the one that is picked, and all its targets are tried. *)
LEMMA LoneInvStep ==
  ASSUME ExactList, MaxPicks >= 1, SampleSize >= Cardinality(Bins) - 1,
         SearchInv, WeightInv, LoneInv, [Next]_vars
  PROVE  LoneInv'
  <1>0. /\ binQueue \in Seq(Bins) /\ picks \in Nat /\ MaxPicks \in Nat /\ iter \in Nat /\ MaxIterations \in Nat
        /\ pc \in {"pick", "try"} => binQueue # <<>> /\ Head(binQueue) \in Bins
    <2>1. /\ binQueue \in Seq(Bins) /\ picks \in Nat /\ MaxPicks \in Nat /\ iter \in Nat /\ MaxIterations \in Nat
          /\ pc \in {"pick", "try"} => binQueue # <<>>
      BY SearchAssumption DEF SearchInv, ControlTypeOK, BinAtHead
    <2> QED BY <2>1
  <1>1. CASE pc' \in {"start", "iterate"}
    BY <1>1 DEF LoneInv
  <1>2. CASE OrderBins
    <2>1. PICK q \in BinOrders : StartIteration(q)
      BY <1>2 DEF OrderBins
    <2>2. pc' = "bins" /\ binQueue' = q
      BY <2>1 DEF StartIteration
    <2>3. Bins \ Queued' = {}
      BY <2>2, OrderHasAllBins DEF Queued
    <2> QED BY <2>2, <2>3 DEF LoneInv
  <1>3. CASE IterationsExhausted
    <2>1. pc' = "done" /\ ~(iter' < MaxIterations)
      BY <1>0, <1>3 DEF IterationsExhausted
    <2> QED BY <2>1 DEF LoneInv
  <1>4. CASE SkipBin
    <2>1. /\ pc = "bins" /\ pc' = "bins" /\ binQueue # <<>> /\ binQueue' = Tail(binQueue)
          /\ ShardsInBin(Head(binQueue)) = {} /\ UNCHANGED <<initialBin, committedMoves>>
      BY <1>4 DEF SkipBin
    <2>2. BinDone(Head(binQueue))
      BY <2>1 DEF BinDone
    <2>3. \A bin \in Bins \ Queued' : BinDone(bin)
      BY <2>1, <2>2, QueueTail DEF LoneInv
    <2>4. \A bin \in Bins \ Queued' : BinDone(bin)'
      BY <2>1, <2>3, DoneStays
    <2> QED BY <2>1, <2>4 DEF LoneInv
  <1>5. CASE EnterBin
    <2>1. /\ pc = "bins" /\ pc' = "pick" /\ picks' = 0
          /\ UNCHANGED <<initialBin, committedMoves, binQueue>>
      BY <1>5 DEF EnterBin
    <2>2. Queued' = Queued
      BY <2>1 DEF Queued
    <2>3. \A bin \in Bins \ Queued' : BinDone(bin)'
      BY <2>1, <2>2, DoneStays DEF LoneInv
    <2> QED BY <2>1, <2>3 DEF LoneInv
  <1>6. CASE NoMoveFound
    <2>1. /\ pc = "bins" /\ pc' = "done" /\ binQueue = <<>> /\ UNCHANGED <<initialBin, committedMoves>>
      BY <1>6 DEF NoMoveFound
    <2>2. Queued = {}
      BY <2>1 DEF Queued
    <2>3. \A bin \in Bins : BinDone(bin)'
      BY <2>1, <2>2, DoneStays DEF LoneInv
    <2> QED BY <2>1, <2>3 DEF LoneInv
  <1>7. CASE \E s \in Shards, B \in SUBSET Bins : PickShard(s, B)
    <2>1. PICK s \in Shards, B \in SUBSET Bins : PickShard(s, B)
      BY <1>7
    <2> DEFINE bin == Head(binQueue)
    <2>2. /\ pc = "pick" /\ pc' = "try" /\ s \in ShardsInBin(bin) /\ B \in BinSets(bin)
          /\ picks' = picks + 1 /\ tries' = {s} \X B
          /\ UNCHANGED <<initialBin, committedMoves, binQueue>>
      BY <2>1 DEF PickShard
    <2>3. B = Bins \ {bin} /\ bin \in Bins
      BY <1>0, <2>2, SampleHasAllBins
    <2>4. NotBetter(s, bin)
      <3>1. After(committedMoves)[s] = bin
        BY <2>2 DEF ShardsInBin, After
      <3> QED BY <2>3, <3>1, StayingIsNotBetter
    <2>5. Queued' = Queued
      BY <2>2 DEF Queued
    <2>6. \A x \in Bins \ Queued' : BinDone(x)'
      BY <2>2, <2>5, DoneStays DEF LoneInv
    <2>7. ASSUME NEW x \in Shards, ShardsInBin(bin) = {x}, NEW b \in Bins
          PROVE  <<x, b>> \in tries' \/ NotBetter(x, b)
      <3>1. x = s
        BY <2>2, <2>7
      <3>2. CASE b = bin
        BY <2>4, <3>1, <3>2
      <3>3. CASE b # bin
        BY <2>2, <2>3, <3>1, <3>3
      <3> QED BY <3>2, <3>3
    <2>8. \A x \in Shards : ShardsInBin(Head(binQueue))' = {x} =>
             \A b \in Bins : <<x, b>> \in tries' \/ NotBetter(x, b)'
      <3>1. ShardsInBin(Head(binQueue))' = ShardsInBin(bin)
        BY <2>2 DEF ShardsInBin
      <3> QED BY <2>2, <2>7, <3>1, DoneStays
    <2>9. picks' > 0
      BY <1>0, <2>2
    <2> QED BY <2>2, <2>6, <2>8, <2>9 DEF LoneInv
  <1>8. CASE GiveUpBin
    <2>1. /\ pc = "pick" /\ pc' = "bins" /\ picks = MaxPicks /\ binQueue' = Tail(binQueue)
          /\ UNCHANGED <<initialBin, committedMoves>>
      BY <1>8 DEF GiveUpBin
    <2>2. BinDone(Head(binQueue)) /\ binQueue # <<>>
      BY <1>0, <2>1 DEF LoneInv
    <2>3. \A bin \in Bins \ Queued' : BinDone(bin)
      BY <2>1, <2>2, QueueTail DEF LoneInv
    <2>4. \A bin \in Bins \ Queued' : BinDone(bin)'
      BY <2>1, <2>3, DoneStays
    <2> QED BY <2>1, <2>4 DEF LoneInv
  <1>9. CASE TriesExhausted
    <2>1. /\ pc = "try" /\ pc' = "pick" /\ tries = {} /\ UNCHANGED <<initialBin, committedMoves, binQueue>>
      BY <1>9 DEF TriesExhausted
    <2>2. BinDone(Head(binQueue))
      BY <2>1 DEF LoneInv, BinDone
    <2>3. BinDone(Head(binQueue))'
      <3>1. /\ After(committedMoves)' = After(committedMoves)
            /\ ShardsInBin(Head(binQueue))' = ShardsInBin(Head(binQueue))
        BY <2>1 DEF After, ShardsInBin
      <3> QED BY <2>2, <3>1 DEF BinDone, NotBetter
    <2>4. Queued' = Queued
      BY <2>1 DEF Queued
    <2>5. \A bin \in Bins \ Queued' : BinDone(bin)'
      BY <2>1, <2>4, DoneStays DEF LoneInv
    <2> QED BY <2>1, <2>3, <2>5 DEF LoneInv
  <1>10. CASE \E s \in Shards, b \in Bins : Reject(s, b)
    <2>1. PICK s \in Shards, b \in Bins : Reject(s, b)
      BY <1>10
    <2>2. /\ pc = "try" /\ pc' = "try" /\ <<s, b>> \in tries /\ tries' = tries \ {<<s, b>>}
          /\ KeyGetOr(TrialWeights(Evaluations(s, b)).total, 0) >= currentWeight
          /\ UNCHANGED <<initialBin, committedMoves, binQueue, picks>>
      BY <2>1 DEF Reject, RejectMove
    <2>3. NotBetter(s, b)
      <3> DEFINE A == After(committedMoves)
                 B == [A EXCEPT ![s] = b]
      <3>1. TrialOf(s, b, A, B)
        BY DEF TrialOf
      <3>2. currentWeight = Cost(A)
        BY <2>2 DEF WeightInv
      <3> HIDE DEF A, B
      <3>3. TrialResult(Evaluations(s, b), TrialWeights(Evaluations(s, b)), A, B)
        BY <2>2, <3>1, TrialIsExact
      <3>4. Cost(B) >= Cost(A)
        BY <2>2, <3>2, <3>3 DEF TrialResult
      <3> QED BY <3>4 DEF NotBetter, A, B
    <2>4. Queued' = Queued
      BY <2>2 DEF Queued
    <2>5. \A bin \in Bins \ Queued' : BinDone(bin)'
      BY <2>2, <2>4, DoneStays DEF LoneInv
    <2>6. \A x \in Shards : ShardsInBin(Head(binQueue)) = {x} =>
             \A y \in Bins : <<x, y>> \in tries' \/ NotBetter(x, y)
      BY <2>2, <2>3 DEF LoneInv
    <2>7. \A x \in Shards : ShardsInBin(Head(binQueue))' = {x} =>
             \A y \in Bins : <<x, y>> \in tries' \/ NotBetter(x, y)'
      <3>1. ShardsInBin(Head(binQueue))' = ShardsInBin(Head(binQueue))
        BY <2>2 DEF ShardsInBin
      <3> QED BY <2>2, <2>6, <3>1, DoneStays
    <2>8. picks' > 0
      BY <2>2 DEF LoneInv
    <2> QED BY <2>2, <2>5, <2>7, <2>8 DEF LoneInv
  <1>11. CASE Finished \/ UNCHANGED vars
    <2>1. UNCHANGED <<initialBin, pc, iter, committedMoves, binQueue, picks, tries>>
      BY <1>11 DEF Finished, vars, searchVars
    <2>2. /\ After(committedMoves)' = After(committedMoves) /\ Queued' = Queued
          /\ ShardsInBin(Head(binQueue))' = ShardsInBin(Head(binQueue))
      BY <2>1 DEF After, ShardsInBin, Queued
    <2>3. \A bin : BinDone(bin)' = BinDone(bin)
      BY <2>1, DoneStays
    <2>4. \A s, b : NotBetter(s, b)' = NotBetter(s, b)
      BY <2>1, DoneStays
    <2>5. BinDone(Head(binQueue))' = BinDone(Head(binQueue))
      BY <2>2, <2>4 DEF BinDone
    <2> QED BY <2>1, <2>2, <2>3, <2>4, <2>5 DEF LoneInv
  <1>12. CASE ConstructConstraint \/ Solve \/ \E s \in Shards, b \in Bins : Accept(s, b)
    BY <1>1, <1>12 DEF ConstructConstraint, searchVars, Solve, SolveStart, Accept, AcceptMove
  <1> QED BY <1>2, <1>3, <1>4, <1>5, <1>6, <1>7, <1>8, <1>9, <1>10, <1>11, <1>12 DEF Next, Walk

(* If the random sample has room for all the bins and at least one shard per bin is
   tried, then no shard that is alone in its bin has a better place when solve stops. *)
THEOREM PlacerLoneShardsAreOptimal ==
  ASSUME ExactList, MaxPicks >= 1, SampleSize >= Cardinality(Bins) - 1
  PROVE  Spec => []LoneShardsAreOptimal
  <1>1. Init => LoneInv
    BY DEF Init, SearchInit, LoneInv
  <1>2. SearchInv /\ WeightInv /\ LoneInv /\ [Next]_vars => LoneInv'
    BY LoneInvStep
  <1>3. SearchInv /\ LoneInv => LoneShardsAreOptimal
    <2> SUFFICES ASSUME SearchInv, LoneInv, pc = "done", iter < MaxIterations,
                        NEW s \in Shards, ShardsInBin(initialBin[s]) = {s}, NEW b \in Bins
                 PROVE  Cost([After(committedMoves) EXCEPT ![s] = b]) >= Cost(After(committedMoves))
      BY DEF LoneShardsAreOptimal
    <2>1. BinDone(initialBin[s])
      BY DEF LoneInv, SearchInv, ControlTypeOK
    <2>2. NotBetter(s, b)
      BY <2>1 DEF BinDone
    <2> QED BY <2>2 DEF NotBetter
  <1> QED BY <1>1, <1>2, <1>3, WeightInvariant, PTL DEF Spec

--------------------------------------------------------------------------------
(***************************************************************************)
(* The default bin: a drain that outweighs the other constraints keeps     *)
(* shards assigned.                                                        *)
(***************************************************************************)

(* No fault is negative. *)
LEMMA FaultsAreNatural ==
  ASSUME NEW c, IsExact(c), NEW x \in Nat
  PROVE  Fault(c, x) \in Nat
  <1>1. c.faultWeight \in Nat
    BY DEF IsExact
  <1>2. CASE c.kind = "capacity"
    <2>1. c.limit \in Nat
      BY <1>2 DEF IsExact
    <2>2. CASE x > c.limit
      <3>1. x - c.limit \in Nat
        BY <2>1, <2>2
      <3>2. (x - c.limit) * c.faultWeight \in Nat
        BY <1>1, <3>1
      <3> QED BY <1>2, <2>2, <3>2 DEF Fault
    <2>3. CASE ~(x > c.limit)
      BY <1>2, <2>3 DEF Fault
    <2> QED BY <2>2, <2>3
  <1>3. CASE c.kind # "capacity"
    <2>1. x * c.faultWeight \in Nat
      BY <1>1
    <2> QED BY <1>3, <2>1 DEF Fault
  <1> QED BY <1>2, <1>3

(* No constraint has a negative cost, so none costs more than all of them. *)
LEMMA CostOfOne ==
  ASSUME ExactList, NEW A \in [Shards -> Bins], NEW i \in DOMAIN ConstraintList
  PROVE  /\ ConstraintCost(ConstraintList[i], A) \in Nat /\ Cost(A) \in Nat
         /\ ConstraintCost(ConstraintList[i], A) <= Cost(A)
  <1> DEFINE I == DOMAIN ConstraintList
  <1>1. IsFiniteSet(I)
    BY ConstraintListAssumption, FS_Interval
  <1>2. ASSUME NEW j \in I
        PROVE  CostList(A)[j] \in Nat
    <2> DEFINE c == ConstraintList[j]
               f == LoadsOf(c, A)
    <2>1. IsExact(c)
      BY DEF ExactList
    <2>2. CostList(A)[j] = ConstraintCost(c, A)
      BY DEF CostList
    <2> HIDE DEF c
    <2>3. AreLoads(f, TreeOf(c))
      BY <2>1, LoadsAdd
    <2> HIDE DEF f
    <2>4. IsFiniteSet(c.ids)
      BY <2>1, <2>3, CostType
    <2>5. /\ c.domain \in Nat \ {0} /\ c.ids = TreeOf(c).nodes[c.domain]
          /\ Height(TreeOf(c)) = c.domain
      BY <2>1, ExactIsPlaced, PartialTree
    <2>6. \A n \in c.ids : f[c.domain][n] \in Nat
      BY <2>3, <2>5, IntLimitAssumption DEF AreLoads
    <2>7. \A n \in c.ids : FaultsOf(c, f)[n] \in Nat
      BY <2>1, <2>6, FaultsAreNatural DEF FaultsOf
    <2>8. SumFunctionOnSet(FaultsOf(c, f), c.ids) \in Nat /\ DOMAIN FaultsOf(c, f) = c.ids
      <3>1. c.ids \in SUBSET c.ids
        OBVIOUS
      <3> QED BY <2>4, <2>7, <3>1, SumSubset DEF FaultsOf
    <2>9. ConstraintCost(c, A) \in Nat
      BY <2>1, <2>8, ConstraintCostIsFaults DEF CostOf, SumFunction, f
    <2> QED BY <2>2, <2>9
  <1>3. Cost(A) = SumFunctionOnSet(CostList(A), I)
    BY DEF Cost, CostList, SumFunction
  <1>4. CostList(A)[i] = ConstraintCost(ConstraintList[i], A)
    BY DEF CostList
  <1>5. \A j \in I : CostList(A)[j] \in Nat
    BY <1>2
  <1>6. i \in I /\ {i} \in SUBSET I
    OBVIOUS
  <1> HIDE DEF I
  <1>7. SumFunctionOnSet(CostList(A), {i}) = CostList(A)[i]
    <2>1. CostList(A)[i] \in Int
      BY <1>5, <1>6
    <2> QED BY <2>1, SumSingleton
  <1>8. /\ SumFunctionOnSet(CostList(A), I) \in Nat
        /\ SumFunctionOnSet(CostList(A), {i}) <= SumFunctionOnSet(CostList(A), I)
    BY <1>1, <1>5, <1>6, SumSubset
  <1> QED BY <1>3, <1>4, <1>5, <1>6, <1>7, <1>8

(* A drain costs its weight for every shard of its bin. *)
LEMMA DrainCost ==
  ASSUME NEW c, IsExact(c), c.kind = "drain", NEW bin, c.ids = {bin}, NEW A \in [Shards -> Bins]
  PROVE  /\ bin \in Bins
         /\ Load(c, A, 1, bin) \in Nat
         /\ ConstraintCost(c, A) = Load(c, A, 1, bin) * c.faultWeight
  <1>1. c.domain = 1 /\ bin \in Bins /\ c.faultWeight \in Nat
    BY DEF IsExact, FitsInt, DomainIds
  <1>2. Load(c, A, 1, bin) \in Nat
    BY LoadBounds, IntLimitAssumption DEF IsExact
  <1>3. NodeCost(c, A, bin) = Load(c, A, 1, bin) * c.faultWeight
    BY <1>1 DEF NodeCost
  <1> DEFINE f == [n \in c.ids |-> NodeCost(c, A, n)]
  <1>4. f[bin] = NodeCost(c, A, bin) /\ DOMAIN f = {bin}
    OBVIOUS
  <1>5. f[bin] \in Int
    <2>1. Load(c, A, 1, bin) * c.faultWeight \in Int
      BY <1>1, <1>2
    <2> QED BY <2>1, <1>3, <1>4
  <1>6. ConstraintCost(c, A) = SumFunctionOnSet(f, DOMAIN f)
    BY DEF ConstraintCost, SumFunction
  <1> HIDE DEF f
  <1>7. SumFunctionOnSet(f, {bin}) = f[bin]
    BY <1>5, SumSingleton
  <1> QED BY <1>1, <1>2, <1>3, <1>4, <1>6, <1>7

(* Unassigning a shard never makes the arrangement better. *)
LEMMA UnassigningIsNotBetter ==
  ASSUME ExactList, DrainOutweighs, NEW A, NEW s, NEW B, IsMove(A, s, kDefaultBin, B)
  PROVE  Cost(B) >= Cost(A)
  <1>1. PICK i \in DOMAIN ConstraintList :
           /\ ConstraintList[i].kind = "drain" /\ ConstraintList[i].ids = {kDefaultBin}
           /\ \A X \in [Shards -> Bins] :
                 Cost(X) - ConstraintCost(ConstraintList[i], X) <= ConstraintList[i].faultWeight
    BY DEF DrainOutweighs
  <1> DEFINE c == ConstraintList[i]
             w == c.faultWeight
             k == kDefaultBin
             L == Load(c, A, 1, k)
  <1>2. A \in [Shards -> Bins] /\ B \in [Shards -> Bins] /\ s \in Shards
    BY DEF IsMove
  <1>3. IsExact(c) /\ c.kind = "drain" /\ c.ids = {k}
    BY <1>1 DEF ExactList
  <1>4. /\ ConstraintCost(c, A) \in Nat /\ Cost(A) \in Nat
        /\ Cost(B) \in Nat /\ ConstraintCost(c, B) <= Cost(B)
    BY <1>2, CostOfOne
  <1>5. Cost(A) - ConstraintCost(c, A) <= w
    BY <1>1, <1>2
  <1> HIDE DEF c, k
  <1>6. /\ k \in Bins /\ L \in Nat /\ ConstraintCost(c, A) = L * w
        /\ ConstraintCost(c, B) = Load(c, B, 1, k) * w
    BY <1>2, <1>3, DrainCost
  <1>7. Load(c, B, 1, k) = L + 1
    <2>1. ShardLoad(c)[s] = 1
      BY <1>2, <1>3 DEF ShardLoad
    <2>2. IsMove(A, s, k, B)
      BY DEF k
    <2> QED BY <1>3, <1>6, <2>1, <2>2, MoveChangesLoads DEF IsExact
  <1>8. w \in Nat
    BY <1>3 DEF IsExact
  <1> HIDE DEF L, w
  <1>9. (L + 1) * w = L * w + w /\ L * w \in Nat
    BY <1>6, <1>8
  <1> QED BY <1>4, <1>5, <1>6, <1>7, <1>8, <1>9

(* If the default bin is drained at a weight that the other constraints never exceed,
   the placer unassigns no shard: what solve returns has no more unassigned shards
   than what it was given. *)
THEOREM PlacerUnassignsNothing ==
  ASSUME ExactList, DrainOutweighs
  PROVE  Spec => UnassignedOnlyShrinks
  <1>1. SearchInv /\ WeightInv /\ [Next]_vars
          => [\A s \in Shards : After(committedMoves)'[s] = kDefaultBin
                            => After(committedMoves)[s] = kDefaultBin]_vars
    <2> SUFFICES ASSUME SearchInv, WeightInv, Next, NEW x \in Shards,
                        After(committedMoves)'[x] = kDefaultBin,
                        After(committedMoves)[x] # kDefaultBin
                 PROVE  FALSE
      OBVIOUS
    <2>1. CASE UNCHANGED <<initialBin, committedMoves>>
      BY <2>1 DEF After
    <2>2. CASE \E s \in Shards, b \in Bins : Accept(s, b)
      <3>1. PICK s \in Shards, b \in Bins : Accept(s, b)
        BY <2>2
      <3> DEFINE A == After(committedMoves)
                 B == [A EXCEPT ![s] = b]
      <3>2. Cost(B) < Cost(A) /\ A' = B
        BY <3>1, AcceptPreservesWeights
      <3>3. <<s, b>> \in tries
        BY <3>1 DEF Accept, AcceptMove
      <3>4. TrialOf(s, b, A, B)
        BY DEF TrialOf
      <3>5. A \in [Shards -> Bins]
        BY AfterType
      <3>6. s = x /\ b = kDefaultBin
        BY <3>2, <3>5
      <3> HIDE DEF A, B
      <3>7. IsMove(A, s, b, B)
        BY <3>3, <3>4, TrialIsMove
      <3>8. Cost(B) >= Cost(A)
        BY <3>6, <3>7, UnassigningIsNotBetter
      <3>9. Cost(A) \in Nat /\ Cost(B) \in Nat
        <4>1. PICK i : i \in DOMAIN ConstraintList
          BY DEF DrainOutweighs
        <4>2. A \in [Shards -> Bins] /\ B \in [Shards -> Bins]
          BY <3>7 DEF IsMove
        <4> QED BY <4>1, <4>2, CostOfOne
      <3> QED BY <3>2, <3>8, <3>9
    <2>3. CASE ConstructConstraint
      BY <2>1, <2>3 DEF ConstructConstraint, searchVars
    <2>4. CASE Solve
      BY <2>1, <2>4 DEF Solve, SolveStart
    <2>5. CASE OrderBins
      BY <2>1, <2>5 DEF OrderBins, StartIteration
    <2>6. CASE Walk
      BY <2>1, <2>6 DEF Walk, IterationsExhausted, SkipBin, EnterBin, NoMoveFound, PickShard, GiveUpBin, TriesExhausted
    <2>7. CASE \E s \in Shards, b \in Bins : Reject(s, b)
      BY <2>1, <2>7 DEF Reject, RejectMove
    <2>8. CASE Finished
      BY <2>1, <2>8 DEF Finished, vars, searchVars
    <2> QED BY <2>2, <2>3, <2>4, <2>5, <2>6, <2>7, <2>8 DEF Next
  <1> QED BY <1>1, WeightInvariant, PTL DEF Spec, UnassignedOnlyShrinks

--------------------------------------------------------------------------------
(***************************************************************************)
(* The values that the other constraints keep: those of a BOTH capacity,   *)
(* which counts a shard that moves in both its bins, and those of the      *)
(* load-balancing trees, which hold extrema of the values that are known.  *)
(* Neither are sums over the arrangement, so that MetricsUpTo does not     *)
(* describe them, and neither need ExactList.                              *)
(***************************************************************************)

\* The children of node n of domain d, and the values that V has for them.
Kids(t, d, n) == {k \in t.nodes[d - 1] : t.up[d - 1][k] = n}
KnownKids(t, V, d, n) == {k \in Kids(t, d, n) : <<d - 1, k>> \in DOMAIN V}
KnownValues(t, V, d, n) == {V[<<d - 1, k>>] : k \in KnownKids(t, V, d, n)}

Extremum(e, S) == IF e = "min" THEN Min(S) ELSE Max(S)

\* A value above the bins is the extremum of the children's, and there is one.
IsExtremum(t, e, V, d, n) ==
    <<d, n>> \in DOMAIN V => /\ KnownValues(t, V, d, n) # {}
                             /\ V[<<d, n>>] = Extremum(e, KnownValues(t, V, d, n))

OnTree(t, V) == \A k \in DOMAIN V : \E d \in 1 .. Height(t) : \E n \in t.nodes[d] : k = <<d, n>>

\* The values V of the bins are their loads.
AreBinLoads(c, t, V, A) == \A n \in t.nodes[1] : <<1, n>> \in DOMAIN V => V[<<1, n>>] = Load(c, A, 1, n)

\* The values V of tree e over t are those of arrangement A.
Balanced(c, t, e, V, A) == /\ OnTree(t, V)
                           /\ AreBinLoads(c, t, V, A)
                           /\ \A d \in 2 .. Height(t) : \A n \in t.nodes[d] : IsExtremum(t, e, V, d, n)

\* A load-balancing constraint: both its trees are in step with the arrangement.
BalancedState(c, st, A) ==
    \A e \in {"min", "max"} : /\ IsMap(st.metrics[e])
                              /\ Balanced(c, TreeOf(c), e, st.metrics[e].committed, A)

\* A BOTH capacity: the values f of its bins cover the loads before and after the moves,
\* and are not above what all shards, and the moved ones once more, amount to.
Covers(c, f, moves) ==
    \A n \in c.ids : /\ f[n] \in Nat
                     /\ f[n] >= Load(c, initialBin, 1, n)
                     /\ f[n] >= Load(c, After(moves), 1, n)
                     /\ f[n] <= SumFunction(ShardLoad(c)) + SumFunctionOnSet(ShardLoad(c), MovedShards(moves))

\* The values of its bins that are committed, and those that are read.
CommittedBins(c, st) == [n \in c.ids |-> MapCommittedOr(st.metrics["sum"], <<1, n>>, 0)]
ReadBins(c, st) == [n \in c.ids |-> MapGetOr(st.metrics["sum"], <<1, n>>, 0)]

CoveredState(c, st, moves) == IsMap(st.metrics["sum"]) /\ Covers(c, CommittedBins(c, st), moves)

Measured(c, st, moves) == /\ IsBalance(c) => BalancedState(c, st, After(moves))
                          /\ IsBothCapacity(c) => CoveredState(c, st, moves)

\* The inductive invariant behind BalanceMetricsExact and BothCoversBeforeAndAfter.
MeasureInv ==
    /\ built \in 0 .. Len(ConstraintList)
    /\ pc = "start" => committedMoves = EmptyMovements
    /\ pc # "start" => built = Len(ConstraintList)
    /\ \A i \in DOMAIN ConstraintList :
          IF i <= built THEN Measured(ConstraintList[i], constraints[i], committedMoves)
          ELSE constraints[i] = EmptyConstraint(ConstraintList[i])

--------------------------------------------------------------------------------

(* addMapping of a root: what Append does to the two sequences of a partial tree. *)
LEMMA AppendFacts ==
  ASSUME NEW n \in Nat, NEW q, q = [i \in 1 .. n |-> q[i]], NEW x
  PROVE  /\ Len(q) = n
         /\ Len(Append(q, x)) = n + 1
         /\ Append(q, x)[n + 1] = x
         /\ \A i \in 1 .. n : Append(q, x)[i] = q[i]
  <1> DEFINE X == {q[i] : i \in 1 .. n} \cup {x}
  <1>1. q \in [1 .. n -> X] /\ x \in X
    OBVIOUS
  <1> HIDE DEF X
  <1>2. q \in Seq(X)
    BY <1>1
  <1>3. Len(q) = n
    <2>1. Len(q) \in Nat /\ DOMAIN q = 1 .. Len(q) /\ DOMAIN q = 1 .. n
      BY <1>1, <1>2
    <2> QED BY <2>1
  <1> QED BY <1>1, <1>2, <1>3

(* The tree of a load-balancing constraint is a partial tree under a root. *)
LEMMA BalanceTree ==
  ASSUME NEW c, IsBalance(c), NEW t, t = TreeOf(c)
  PROVE  /\ Height(t) = c.domain + 1 /\ c.domain \in Nat \ {0} /\ IsTree(t)
         /\ t.nodes[c.domain] = c.ids /\ t.nodes[c.domain + 1] = {0}
         /\ \A n \in c.ids : t.up[c.domain][n] = 0
         /\ \A d \in 1 .. c.domain - 1 :
               /\ t.nodes[d] = {n \in DomainIds(d) : UpperTree[d][n] \in t.nodes[d + 1]}
               /\ \A n \in t.nodes[d] : t.up[d][n] = UpperTree[d][n]
         /\ t.nodes[1] \subseteq Bins
         /\ \A s \in Shards : t.binOf[s] = IF initialBin[s] \in t.nodes[1] THEN initialBin[s] ELSE NoBin
  <1> DEFINE D == c.domain
             c2 == [kind |-> "capacity", domain |-> D, ids |-> c.ids]
             p == TreeOf(c2)
  <1>0. D \in Nat \ {0} /\ Len(UpperTree) \in Nat /\ D \in 1 .. Len(UpperTree) + 1 /\ c.kind = "balance"
    BY UpperTreeAssumption DEF IsBalance, FitsInt
  <1>1. Placed(c2)
    BY <1>0 DEF Placed, IsBalance, FitsInt
  <1>2. c2.domain = D /\ c2.ids = c.ids
    OBVIOUS
  <1>3. t = AddRoot(p, 0)
    BY <1>0 DEF TreeOf, ConstraintTree
  <1> HIDE DEF c2
  <1>4. /\ Height(p) = D /\ p.nodes[D] = c.ids
        /\ \A d \in 1 .. D - 1 :
               /\ p.nodes[d] = {n \in DomainIds(d) : UpperTree[d][n] \in p.nodes[d + 1]}
               /\ p.up[d] = [n \in p.nodes[d] |-> UpperTree[d][n]]
        /\ \A d \in 1 .. D : p.nodes[d] \subseteq DomainIds(d)
        /\ p.binOf = [s \in Shards |-> IF initialBin[s] \in p.nodes[1] THEN initialBin[s] ELSE NoBin]
    BY <1>1, <1>2, PartialTree
  <1>5. /\ p = [nodes |-> p.nodes, up |-> p.up, binOf |-> p.binOf]
        /\ p.nodes = [d \in 1 .. D |-> p.nodes[d]]
        /\ p.up = [d \in 1 .. D - 1 |-> p.up[d]]
    <2>1. c2.kind # "balance"
      BY DEF c2
    <2>2. p = CreatePartialTree(AssignmentTree, D, c.ids)
      BY <1>2, <2>1 DEF TreeOf, ConstraintTree
    <2> DEFINE a == AssignmentTree
               k == CHOOSE g : IsKept(g, a, 1, D, c.ids)
    <2>3. p = [nodes |-> [d \in 1 .. D |-> k[d]],
               up    |-> [d \in 1 .. D - 1 |-> [n \in k[d] |-> a.up[d][n]]],
               binOf |-> [s \in Shards |-> IF a.binOf[s] \in k[1] THEN a.binOf[s] ELSE NoBin]]
      BY <2>2 DEF CreatePartialTree, IsKept
    <2> HIDE DEF p, a, k
    <2> QED BY <2>3
  <1> HIDE DEF p
  <1> DEFINE roots == [n \in p.nodes[Height(p)] |-> 0]
  <1>6. roots = [n \in c.ids |-> 0]
    BY <1>4
  <1>7. /\ t.nodes = Append(p.nodes, {0}) /\ t.up = Append(p.up, roots) /\ t.binOf = p.binOf
    <2> DEFINE x == Append(p.nodes, {0})
               y == Append(p.up, roots)
    <2>1. t = [p EXCEPT !.nodes = x, !.up = y]
      BY <1>3 DEF AddRoot
    <2> HIDE DEF x, y
    <2>2. DOMAIN p = {"nodes", "up", "binOf"}
      BY <1>5
    <2>3. t.nodes = x /\ t.up = y /\ t.binOf = p.binOf
      BY <2>1, <2>2
    <2> QED BY <2>3 DEF x, y
  <1> HIDE DEF roots
  <1>8. /\ Height(t) = D + 1 /\ t.nodes[D + 1] = {0}
        /\ \A d \in 1 .. D : t.nodes[d] = p.nodes[d]
    BY <1>0, <1>5, <1>7, AppendFacts DEF Height
  <1>9. t.up[D] = roots /\ (\A d \in 1 .. D - 1 : t.up[d] = p.up[d])
    <2>1. D - 1 \in Nat /\ (D - 1) + 1 = D
      BY <1>0
    <2>2. \A d \in 1 .. D - 1 : Append(p.up, roots)[d] = p.up[d]
      BY <1>5, <2>1, AppendFacts
    <2>3. Append(p.up, roots)[(D - 1) + 1] = roots
      BY <1>5, <2>1, AppendFacts
    <2> QED BY <1>7, <2>1, <2>2, <2>3
  <1>10. \A d \in 1 .. D - 1 :
               /\ t.nodes[d] = {n \in DomainIds(d) : UpperTree[d][n] \in t.nodes[d + 1]}
               /\ t.up[d] = [n \in t.nodes[d] |-> UpperTree[d][n]]
    <2>1. \A d \in 1 .. D - 1 : d \in 1 .. D /\ d + 1 \in 1 .. D
      BY <1>0
    <2> QED BY <1>4, <1>8, <1>9, <2>1
  <1>11. t.nodes[1] \subseteq Bins /\ t.nodes[1] = p.nodes[1] /\ t.nodes[D] = c.ids
    <2>1. 1 \in 1 .. D /\ D \in 1 .. D
      BY <1>0
    <2> QED BY <1>4, <1>8, <2>1 DEF DomainIds
  <1>12. IsTree(t)
    <2>1. \A d \in 1 .. D + 1 : IsFiniteSet(t.nodes[d])
      <3> SUFFICES ASSUME NEW d \in 1 .. D + 1 PROVE IsFiniteSet(t.nodes[d])
        OBVIOUS
      <3>1. CASE d = D + 1
        BY <1>8, <3>1, FS_Singleton
      <3>2. CASE d # D + 1
        <4>1. d \in 1 .. D /\ d \in 1 .. Len(UpperTree) + 1
          BY <1>0, <3>2
        <4> QED BY <1>4, <1>8, <4>1, DomainIdsFinite, FS_Subset
      <3> QED BY <3>1, <3>2
    <2>2. \A d \in 1 .. D : \A k \in t.nodes[d] : t.up[d][k] \in t.nodes[d + 1]
      <3> SUFFICES ASSUME NEW d \in 1 .. D, NEW k \in t.nodes[d] PROVE t.up[d][k] \in t.nodes[d + 1]
        OBVIOUS
      <3>1. CASE d = D
        BY <1>6, <1>8, <1>9, <1>11, <3>1
      <3>2. CASE d # D
        <4>1. d \in 1 .. D - 1
          BY <1>0, <3>2
        <4>2. /\ t.nodes[d] = {n \in DomainIds(d) : UpperTree[d][n] \in t.nodes[d + 1]}
              /\ t.up[d] = [n \in t.nodes[d] |-> UpperTree[d][n]]
          BY <1>10, <4>1
        <4> QED BY <4>2
      <3> QED BY <3>1, <3>2
    <2> QED BY <1>0, <1>8, <2>1, <2>2 DEF IsTree
  <1>13. t.binOf = [s \in Shards |-> IF initialBin[s] \in t.nodes[1] THEN initialBin[s] ELSE NoBin]
    BY <1>4, <1>7, <1>11
  <1>14. \A s \in Shards : t.binOf[s] = IF initialBin[s] \in t.nodes[1] THEN initialBin[s] ELSE NoBin
    BY <1>13
  <1>15. \A n \in c.ids : t.up[c.domain][n] = 0
    BY <1>6, <1>9
  <1>16. \A d \in 1 .. c.domain - 1 :
               /\ t.nodes[d] = {n \in DomainIds(d) : UpperTree[d][n] \in t.nodes[d + 1]}
               /\ \A n \in t.nodes[d] : t.up[d][n] = UpperTree[d][n]
    <2> SUFFICES ASSUME NEW d \in 1 .. c.domain - 1
                 PROVE  /\ t.nodes[d] = {n \in DomainIds(d) : UpperTree[d][n] \in t.nodes[d + 1]}
                        /\ \A n \in t.nodes[d] : t.up[d][n] = UpperTree[d][n]
      OBVIOUS
    <2>1. t.up[d] = [n \in t.nodes[d] |-> UpperTree[d][n]]
      BY <1>10
    <2>2. t.nodes[d] = {n \in DomainIds(d) : UpperTree[d][n] \in t.nodes[d + 1]}
      BY <1>10
    <2>3. \A n \in t.nodes[d] : t.up[d][n] = UpperTree[d][n]
      BY <2>1
    <2> QED BY <2>2, <2>3
  <1> QED BY <1>0, <1>8, <1>11, <1>12, <1>14, <1>15, <1>16

--------------------------------------------------------------------------------

\* What a map holds, canary values before committed ones.
View(m) == SetMap(m.committed, m.canary)

(* The values that get returns, and what the operations on a map do to them. *)
LEMMA ViewFacts ==
  ASSUME NEW m, IsMap(m)
  PROVE  /\ \A k : k \in DOMAIN View(m) <=> MapHas(m, k)
         /\ \A k \in DOMAIN View(m) : MapGetOr(m, k, 0) = View(m)[k]
         /\ View(MapClear(m)) = m.committed
         /\ MapCommit(m).committed = View(m)
         /\ \A f : /\ DOMAIN View(MapSetCanary(m, f)) = DOMAIN f \cup DOMAIN View(m)
                   /\ \A k \in DOMAIN f \cup DOMAIN View(m) :
                         View(MapSetCanary(m, f))[k] = IF k \in DOMAIN f THEN f[k] ELSE View(m)[k]
  <1>1. /\ DOMAIN View(m) = DOMAIN m.canary \cup DOMAIN m.committed
        /\ \A k \in DOMAIN View(m) :
              View(m)[k] = IF k \in DOMAIN m.canary THEN m.canary[k] ELSE m.committed[k]
    BY DEF View, SetMap
  <1>2. (\A k : k \in DOMAIN View(m) <=> MapHas(m, k)) /\ (\A k \in DOMAIN View(m) : MapGetOr(m, k, 0) = View(m)[k])
    BY <1>1 DEF MapHas, MapGetOr
  <1>3. View(MapClear(m)) = m.committed
    <2>1. MapClear(m).canary = <<>> /\ MapClear(m).committed = m.committed
      BY MapClearFacts
    <2>2. SetMap(m.committed, <<>>) = m.committed
      BY DEF SetMap, IsMap
    <2> QED BY <2>1, <2>2 DEF View
  <1>4. MapCommit(m).committed = View(m)
    <2> DEFINE new == View(m)
    <2>1. [m EXCEPT !.committed = CopyChanges(m.canary, @)] = [m EXCEPT !.committed = new]
      BY DEF CopyChanges, View
    <2>2. MapCommit(m) = MapClear([m EXCEPT !.committed = new])
      BY <2>1 DEF MapCommit
    <2> HIDE DEF new
    <2>3. MapClear([m EXCEPT !.committed = new]).committed = new
      BY DEF IsMap, MapClear
    <2> QED BY <2>2, <2>3 DEF new
  <1>5. ASSUME NEW f
        PROVE  /\ DOMAIN View(MapSetCanary(m, f)) = DOMAIN f \cup DOMAIN View(m)
               /\ \A k \in DOMAIN f \cup DOMAIN View(m) :
                     View(MapSetCanary(m, f))[k] = IF k \in DOMAIN f THEN f[k] ELSE View(m)[k]
    <2> DEFINE n == MapSetCanary(m, f)
    <2>1. n.canary = SetMap(m.canary, f) /\ n.committed = m.committed
      <3> DEFINE g == SetMap(m.canary, f)
      <3>1. n = [m EXCEPT !.canary = g]
        BY DEF MapSetCanary
      <3> HIDE DEF n, g
      <3>2. n.canary = g /\ n.committed = m.committed
        BY <3>1 DEF IsMap
      <3> QED BY <3>2 DEF g
    <2>2. /\ DOMAIN SetMap(m.canary, f) = DOMAIN f \cup DOMAIN m.canary
          /\ \A k \in DOMAIN f \cup DOMAIN m.canary :
                SetMap(m.canary, f)[k] = IF k \in DOMAIN f THEN f[k] ELSE m.canary[k]
      BY DEF SetMap
    <2> HIDE DEF n
    <2>3. /\ DOMAIN View(n) = DOMAIN n.canary \cup DOMAIN n.committed
          /\ \A k \in DOMAIN n.canary \cup DOMAIN n.committed :
                View(n)[k] = IF k \in DOMAIN n.canary THEN n.canary[k] ELSE n.committed[k]
      BY DEF View, SetMap
    <2>4. DOMAIN View(n) = DOMAIN f \cup DOMAIN View(m)
      BY <1>1, <2>1, <2>2, <2>3
    <2>5. \A k \in DOMAIN f \cup DOMAIN View(m) : View(n)[k] = IF k \in DOMAIN f THEN f[k] ELSE View(m)[k]
      BY <1>1, <2>1, <2>2, <2>3
    <2> QED BY <2>4, <2>5 DEF n
  <1> QED BY <1>2, <1>3, <1>4, <1>5

--------------------------------------------------------------------------------
(***************************************************************************)
(* Propagation through a load-balancing tree: the values above the bins    *)
(* are the extrema of their children's, domain after domain.               *)
(***************************************************************************)

\* V and W hold the same for k.
Same(V, W, k) == /\ k \in DOMAIN V <=> k \in DOMAIN W
                 /\ k \in DOMAIN V => V[k] = W[k]

(* Recording values of domain d: all of them are there, and no other has changed. *)
LEMMA SetValuesView ==
  ASSUME NEW m, IsMap(m), NEW d, NEW values, NEW l, l = SetValues(m, d, values)
  PROVE  /\ IsMap(l.metrics) /\ l.metrics.committed = m.committed
         /\ l.changed \subseteq DOMAIN values
         /\ \A n \in DOMAIN values : /\ <<d, n>> \in DOMAIN View(l.metrics)
                                     /\ View(l.metrics)[<<d, n>>] = values[n]
         /\ \A n \in DOMAIN values \ l.changed : Same(View(m), View(l.metrics), <<d, n>>)
         /\ \A k : k \notin {d} \X DOMAIN values => Same(View(m), View(l.metrics), k)
  <1> DEFINE changed == {n \in DOMAIN values : ValueChanged(m, <<d, n>>, values[n])}
             f == [node \in {d} \X changed |-> values[node[2]]]
             W == View(m)
             W2 == View(MapSetCanary(m, f))
  <1>1. l = [metrics |-> MapSetCanary(m, f), values |-> values, changed |-> changed]
    BY DEF SetValues
  <1>2. changed \subseteq DOMAIN values
    OBVIOUS
  <1>3. \A n \in DOMAIN values \ changed : <<d, n>> \in DOMAIN W /\ W[<<d, n>>] = values[n]
    BY ViewFacts DEF ValueChanged
  <1> HIDE DEF changed
  <1>4. /\ DOMAIN f = {d} \X changed
        /\ \A n : <<d, n>> \in {d} \X changed <=> n \in changed
        /\ \A n \in changed : f[<<d, n>>] = values[n]
    OBVIOUS
  <1> HIDE DEF f, W
  <1>5. /\ DOMAIN W2 = DOMAIN f \cup DOMAIN W
        /\ \A k \in DOMAIN f \cup DOMAIN W : W2[k] = IF k \in DOMAIN f THEN f[k] ELSE W[k]
    BY ViewFacts DEF W
  <1>6. IsMap(MapSetCanary(m, f)) /\ MapSetCanary(m, f).committed = m.committed
    BY MapSetFacts
  <1> HIDE DEF W2
  <1>7. \A n \in DOMAIN values : <<d, n>> \in DOMAIN W2 /\ W2[<<d, n>>] = values[n]
    BY <1>3, <1>4, <1>5
  <1>8. \A n \in DOMAIN values \ changed : Same(W, W2, <<d, n>>)
    BY <1>3, <1>7 DEF Same
  <1>9. \A k : k \notin {d} \X DOMAIN values => Same(W, W2, k)
    <2>1. \A k : k \notin {d} \X DOMAIN values => k \notin DOMAIN f
      BY <1>2, <1>4
    <2> QED BY <1>5, <2>1 DEF Same
  <1> QED BY <1>1, <1>2, <1>6, <1>7, <1>8, <1>9 DEF W, W2

(* The values known of a node's children depend on the children alone. *)
LEMMA KnownStays ==
  ASSUME NEW t, NEW V, NEW W, NEW d, NEW n, \A k \in Kids(t, d, n) : Same(V, W, <<d - 1, k>>)
  PROVE  KnownValues(t, W, d, n) = KnownValues(t, V, d, n)
  <1>1. KnownKids(t, W, d, n) = KnownKids(t, V, d, n)
    BY DEF KnownKids, Same
  <1>2. \A k \in KnownKids(t, V, d, n) : V[<<d - 1, k>>] = W[<<d - 1, k>>]
    BY DEF KnownKids, Same
  <1> QED BY <1>1, <1>2 DEF KnownValues

(* So does its being their extremum. *)
LEMMA ExtremumStays ==
  ASSUME NEW t, NEW e, NEW V, NEW W, NEW d, NEW n, IsExtremum(t, e, V, d, n),
         Same(V, W, <<d, n>>), \A k \in Kids(t, d, n) : Same(V, W, <<d - 1, k>>)
  PROVE  IsExtremum(t, e, W, d, n)
  <1>1. KnownValues(t, W, d, n) = KnownValues(t, V, d, n)
    BY KnownStays
  <1> QED BY <1>1 DEF IsExtremum, Same

(* calculate above the bins: the extremum of the children that have a value. *)
LEMMA BalanceValue ==
  ASSUME NEW c, c.kind = "balance", NEW e, NEW t, NEW maps, NEW m, IsMap(m),
         NEW d, d # 1, NEW n, NEW children, KnownValues(t, View(m), d, n) # {}
  PROVE  Calculate(c, e, t, maps, m, d, n, children) = Extremum(e, KnownValues(t, View(m), d, n))
  <1> DEFINE known == {MapGetOr(m, <<d - 1, k>>, 0) :
                         k \in {k \in t.nodes[d - 1] : t.up[d - 1][k] = n /\ MapHas(m, <<d - 1, k>>)}}
             W == View(m)
  <1>1. Calculate(c, e, t, maps, m, d, n, children)
          = IF known = {} THEN 0 ELSE IF e = "min" THEN Min(known) ELSE Max(known)
    BY DEF Calculate, BalanceOperator
  <1>2. /\ \A k : k \in DOMAIN W <=> MapHas(m, k)
        /\ \A k \in DOMAIN W : MapGetOr(m, k, 0) = W[k]
    BY ViewFacts
  <1> HIDE DEF W
  <1>3. {k \in t.nodes[d - 1] : t.up[d - 1][k] = n /\ MapHas(m, <<d - 1, k>>)} = KnownKids(t, W, d, n)
    BY <1>2 DEF KnownKids, Kids
  <1>4. known = {MapGetOr(m, <<d - 1, k>>, 0) : k \in KnownKids(t, W, d, n)}
    BY <1>3
  <1>5. \A k \in KnownKids(t, W, d, n) : MapGetOr(m, <<d - 1, k>>, 0) = W[<<d - 1, k>>]
    BY <1>2 DEF KnownKids
  <1>6. known = KnownValues(t, W, d, n)
    BY <1>4, <1>5 DEF KnownValues
  <1> HIDE DEF known
  <1> QED BY <1>1, <1>6 DEF Extremum, W

\* Where a propagation through tree e is after domain d, when V is what was committed.
BalancedUpTo(l, d, t, e, V) ==
    /\ IsMap(l.metrics) /\ l.metrics.committed = V
    /\ OnTree(t, View(l.metrics))
    /\ \A x \in 2 .. d : \A n \in t.nodes[x] : IsExtremum(t, e, View(l.metrics), x, n)
    /\ \A x \in d + 1 .. Height(t) : \A n \in t.nodes[x] : Same(V, View(l.metrics), <<x, n>>)
    /\ \A n \in t.nodes[d] \ l.changed : Same(V, View(l.metrics), <<d, n>>)
    /\ l.changed \subseteq t.nodes[d]
    /\ \A n \in l.changed : <<d, n>> \in DOMAIN View(l.metrics)

(* The propagation to a domain above the bins computes its extrema and changes nothing
   in the others. *)
LEMMA BalanceAbove ==
  ASSUME NEW t, IsTree(t), NEW c, c.kind = "balance", NEW e, NEW V, NEW maps,
         NEW d \in 2 .. Height(t), \A n \in t.nodes[d] : IsExtremum(t, e, V, d, n),
         NEW below, BalancedUpTo(below, d - 1, t, e, V),
         NEW l, l = PropagateToDomain(c, e, t, maps, d, below)
  PROVE  /\ BalancedUpTo(l, d, t, e, V)
         /\ \A n : Same(View(below.metrics), View(l.metrics), <<1, n>>)
  <1> DEFINE b == d - 1
             changed == below.changed
             parents == ParentsWithChanges(t, maps, b, changed)
             m == below.metrics
             values == [n \in parents |-> Calculate(c, e, t, maps, m, d, n, ChangedChildren(t, maps, d, n, changed))]
             W == View(m)
             W2 == View(l.metrics)
             H == Height(t)
  <1>1. /\ H \in Nat /\ b \in 1 .. H /\ b + 1 = d /\ b # 0 /\ b < H /\ d # 1 /\ d - 1 = b /\ d \in d .. H
        /\ b \in 1 .. H - 1 /\ d \in Nat /\ b \in Nat
    BY DEF IsTree
  <1>2. /\ IsMap(m) /\ m.committed = V
        /\ OnTree(t, W)
        /\ \A x \in 2 .. b : \A n \in t.nodes[x] : IsExtremum(t, e, W, x, n)
        /\ \A x \in d .. H : \A n \in t.nodes[x] : Same(V, W, <<x, n>>)
        /\ \A n \in t.nodes[b] \ changed : Same(V, W, <<b, n>>)
        /\ changed \subseteq t.nodes[b]
        /\ \A n \in changed : <<b, n>> \in DOMAIN W
    BY <1>1 DEF BalancedUpTo
  <1>3. parents = {t.up[b][k] : k \in changed} /\ parents \subseteq t.nodes[d]
    <2>1. parents = {t.up[b][k] : k \in changed}
      BY <1>1 DEF ParentsWithChanges
    <2>2. \A k \in t.nodes[b] : t.up[b][k] \in t.nodes[d]
      BY <1>1 DEF IsTree
    <2> QED BY <1>2, <2>1, <2>2
  <1>4. ASSUME NEW n \in parents
        PROVE  /\ KnownValues(t, W, d, n) # {}
               /\ values[n] = Extremum(e, KnownValues(t, W, d, n))
    <2>1. PICK k \in changed : t.up[b][k] = n
      BY <1>3
    <2>2. k \in KnownKids(t, W, d, n)
      BY <1>1, <1>2, <2>1 DEF KnownKids, Kids
    <2>3. W[<<d - 1, k>>] \in KnownValues(t, W, d, n)
      BY <2>2 DEF KnownValues
    <2>4. values[n] = Calculate(c, e, t, maps, m, d, n, ChangedChildren(t, maps, d, n, changed))
      OBVIOUS
    <2> HIDE DEF values, parents, m, changed
    <2> QED BY <1>1, <1>2, <2>3, <2>4, BalanceValue DEF W
  <1>5. l = SetValues(m, d, values)
    BY <1>1 DEF PropagateToDomain
  <1>6. DOMAIN values = parents
    OBVIOUS
  <1> HIDE DEF values
  <1>7. /\ IsMap(l.metrics) /\ l.metrics.committed = V
        /\ l.changed \subseteq parents
        /\ \A n \in parents : <<d, n>> \in DOMAIN W2 /\ W2[<<d, n>>] = values[n]
        /\ \A n \in parents \ l.changed : Same(W, W2, <<d, n>>)
        /\ \A k : k \notin {d} \X parents => Same(W, W2, k)
    <2> HIDE DEF m, parents
    <2> QED BY <1>2, <1>5, <1>6, SetValuesView DEF W
  <1> HIDE DEF W, W2, parents, changed, m, b
  <1>8. /\ \A x, n : x # d => Same(W, W2, <<x, n>>)
        /\ \A n : n \notin parents => Same(W, W2, <<d, n>>)
    BY <1>7
  <1>9. OnTree(t, W2)
    <2> SUFFICES ASSUME NEW k \in DOMAIN W2 PROVE \E x \in 1 .. H : \E n \in t.nodes[x] : k = <<x, n>>
      BY DEF OnTree
    <2>1. CASE k \in {d} \X parents
      <3>1. PICK n \in parents : k = <<d, n>>
        BY <2>1
      <3>2. d \in 1 .. H /\ n \in t.nodes[d]
        BY <1>1, <1>3
      <3> QED BY <3>1, <3>2
    <2>2. CASE k \notin {d} \X parents
      <3>1. k \in DOMAIN W
        BY <1>7, <2>2 DEF Same
      <3> QED BY <1>2, <3>1 DEF OnTree
    <2> QED BY <2>1, <2>2
  <1>10. ASSUME NEW x \in 2 .. d, NEW n \in t.nodes[x] PROVE IsExtremum(t, e, W2, x, n)
    <2>1. x - 1 # d /\ x \in Nat
      BY <1>1
    <2>2. \A k \in Kids(t, x, n) : Same(W, W2, <<x - 1, k>>)
      BY <1>8, <2>1
    <2>3. KnownValues(t, W2, x, n) = KnownValues(t, W, x, n)
      BY <2>2, KnownStays
    <2>4. CASE x # d
      <3>1. x \in 2 .. b
        BY <1>1, <2>4
      <3>2. IsExtremum(t, e, W, x, n) /\ Same(W, W2, <<x, n>>)
        BY <1>2, <1>8, <2>4, <3>1
      <3> QED BY <2>2, <3>2, ExtremumStays
    <2>5. CASE x = d /\ n \in parents
      BY <1>4, <1>7, <2>3, <2>5 DEF IsExtremum
    <2>6. CASE x = d /\ n \notin parents
      <3>1. IsExtremum(t, e, V, d, n) /\ Same(V, W, <<d, n>>)
        BY <1>1, <1>2, <2>6
      <3>2. \A k \in Kids(t, d, n) : Same(V, W, <<d - 1, k>>)
        <4>1. \A k \in Kids(t, d, n) : k \in t.nodes[b] \ changed
          BY <1>1, <1>3, <2>6 DEF Kids
        <4> QED BY <1>1, <1>2, <4>1
      <3>3. IsExtremum(t, e, W, d, n)
        BY <3>1, <3>2, ExtremumStays
      <3> QED BY <1>8, <2>2, <2>6, <3>3, ExtremumStays
    <2> QED BY <2>4, <2>5, <2>6
  <1>11. ASSUME NEW x \in d + 1 .. H, NEW n \in t.nodes[x] PROVE Same(V, W2, <<x, n>>)
    <2>1. x \in d .. H /\ x # d
      BY <1>1
    <2> QED BY <1>2, <1>8, <2>1 DEF Same
  <1>12. ASSUME NEW n \in t.nodes[d] \ l.changed PROVE Same(V, W2, <<d, n>>)
    <2>1. Same(V, W, <<d, n>>)
      BY <1>1, <1>2
    <2>2. Same(W, W2, <<d, n>>)
      BY <1>7, <1>8
    <2> QED BY <2>1, <2>2 DEF Same
  <1>13. l.changed \subseteq t.nodes[d] /\ (\A n \in l.changed : <<d, n>> \in DOMAIN W2)
    BY <1>3, <1>7
  <1>14. BalancedUpTo(l, d, t, e, V)
    BY <1>7, <1>9, <1>10, <1>11, <1>12, <1>13 DEF BalancedUpTo, W2
  <1>15. \A n : Same(W, W2, <<1, n>>)
    BY <1>1, <1>8
  <1> QED BY <1>14, <1>15 DEF W, W2, m

--------------------------------------------------------------------------------
(***************************************************************************)
(* The bins of a load-balancing tree: calculate counts a shard in the bin  *)
(* that the movement maps lead it to, and nowhere else.                    *)
(***************************************************************************)

\* The maps take the assignment tree to the arrangement B: each has inverse indexes, and
\* a shard is moved by one of them if B has it in another bin, else by none.
LeadTo(maps, B) ==
    /\ B \in [Shards -> Bins]
    /\ \A i \in DOMAIN maps : \A b \in Bins :
          maps[i].incoming[b] = {s \in Shards : maps[i].next[s] = b}
    /\ \A s \in Shards :
          IF B[s] = initialBin[s] THEN \A i \in DOMAIN maps : maps[i].next[s] = NoBin
          ELSE \E j \in DOMAIN maps : /\ maps[j].next[s] = B[s]
                                      /\ \A i \in DOMAIN maps \ {j} : maps[i].next[s] = NoBin

(* A shard counts once in its bin. *)
LEMMA ShardCountsOnce ==
  ASSUME NEW maps, NEW B, LeadTo(maps, B), NEW t, NEW s \in Shards, NEW n \in Bins,
         t.binOf[s] = n <=> initialBin[s] = n
  PROVE  /\ ShouldConsiderShard("AFTER", maps, s, n) => ChildTimes(t, maps, n, s) = IF B[s] = n THEN 1 ELSE 0
         /\ B[s] = n => ShouldConsiderShard("AFTER", maps, s, n)
  <1> DEFINE I == {i \in DOMAIN maps : s \in maps[i].incoming[n]}
  <1>1. I = {i \in DOMAIN maps : maps[i].next[s] = n}
    BY DEF LeadTo
  <1>2. ShouldConsiderShard("AFTER", maps, s, n) <=> \A i \in DOMAIN maps : maps[i].next[s] \in {NoBin, n}
    BY DEF ShouldConsiderShard
  <1>3. ChildTimes(t, maps, n, s) = Cardinality(I) + (IF initialBin[s] = n THEN 1 ELSE 0)
    BY DEF ChildTimes
  <1>4. n # NoBin /\ B[s] \in Bins /\ B[s] # NoBin
    BY NoBinAssumption DEF LeadTo
  <1> HIDE DEF I
  <1>5. Cardinality({}) = 0 /\ \A j : Cardinality({j}) = 1
    BY FS_EmptySet, FS_Singleton
  <1>6. CASE B[s] = initialBin[s]
    <2>1. \A i \in DOMAIN maps : maps[i].next[s] = NoBin
      BY <1>6 DEF LeadTo
    <2>2. I = {} /\ ShouldConsiderShard("AFTER", maps, s, n)
      BY <1>1, <1>2, <1>4, <2>1
    <2> QED BY <1>3, <1>5, <1>6, <2>2
  <1>7. CASE B[s] # initialBin[s]
    <2>1. PICK j \in DOMAIN maps : /\ maps[j].next[s] = B[s]
                                   /\ \A i \in DOMAIN maps \ {j} : maps[i].next[s] = NoBin
      BY <1>7 DEF LeadTo
    <2>2. CASE B[s] = n
      <3>1. I = {j} /\ ShouldConsiderShard("AFTER", maps, s, n)
        BY <1>1, <1>2, <1>4, <2>1, <2>2
      <3>2. Cardinality(I) = 1
        BY <1>5, <3>1
      <3>3. ChildTimes(t, maps, n, s) = 1
        BY <1>3, <1>7, <2>2, <3>2
      <3> QED BY <2>2, <3>1, <3>3
    <2>3. CASE B[s] # n
      <3>1. ~ShouldConsiderShard("AFTER", maps, s, n)
        BY <1>2, <1>4, <2>1, <2>3
      <3> QED BY <2>3, <3>1
    <2> QED BY <2>2, <2>3
  <1> QED BY <1>6, <1>7

(* calculate yields the load that a bin has after the moves. *)
LEMMA BalanceBin ==
  ASSUME NEW c, IsBalance(c), NEW maps, NEW B, LeadTo(maps, B), initialBin \in [Shards -> Bins],
         NEW t, t = TreeOf(c), NEW n \in t.nodes[1], NEW e, NEW m, NEW children
  PROVE  Calculate(c, e, t, maps, m, 1, n, children) = Load(c, B, 1, n)
  <1> DEFINE load(s) == IF ShouldConsiderShard("AFTER", maps, s, n)
                        THEN ChildTimes(t, maps, n, s) * ShardMetric[c.metric][s] ELSE 0
             f == [s \in Shards |-> load(s)]
             T == {s \in Shards : B[s] = n}
  <1>1. Calculate(c, e, t, maps, m, 1, n, children) = ToInt(SumFunction(f))
    BY DEF Calculate, BalanceOperator, IsBalance
  <1>2. t.nodes[1] \subseteq Bins /\ \A s \in Shards : t.binOf[s] = IF initialBin[s] \in t.nodes[1] THEN initialBin[s] ELSE NoBin
    <2> HIDE DEF f, T
    <2> QED BY BalanceTree
  <1>3. n \in Bins /\ n # NoBin /\ \A s \in Shards : t.binOf[s] = n <=> initialBin[s] = n
    BY <1>2, NoBinAssumption
  <1>4. ASSUME NEW s \in Shards
        PROVE  /\ f[s] = IF B[s] = n THEN ShardLoad(c)[s] ELSE 0
               /\ ShardLoad(c)[s] \in Nat
    <2>1. ShardLoad(c)[s] \in Nat /\ ShardLoad(c)[s] = ShardMetric[c.metric][s]
      BY DEF IsBalance, FitsInt, ShardLoad
    <2>2. /\ ShouldConsiderShard("AFTER", maps, s, n) => ChildTimes(t, maps, n, s) = IF B[s] = n THEN 1 ELSE 0
          /\ B[s] = n => ShouldConsiderShard("AFTER", maps, s, n)
      BY <1>3, ShardCountsOnce
    <2> QED BY <2>1, <2>2
  <1>5. DOMAIN f = Shards
    OBVIOUS
  <1> HIDE DEF f
  <1>6. SumFunction(f) = SumFunctionOnSet(f, T)
    <2>1. T \in SUBSET Shards /\ (\A s \in Shards : f[s] \in Int) /\ (\A s \in Shards \ T : f[s] = 0)
      BY <1>4
    <2> QED BY <1>5, <2>1, SumSupport, SearchAssumption DEF SumFunction
  <1>7. SumFunctionOnSet(f, T) = SumFunctionOnSet(ShardLoad(c), T)
    <2>1. IsFiniteSet(T) /\ \A s \in T : f[s] = ShardLoad(c)[s]
      BY <1>4, SearchAssumption, FS_Subset
    <2> QED BY <2>1, SumEqual
  <1>8. SumFunctionOnSet(ShardLoad(c), T) = Load(c, B, 1, n)
    <2>1. \A s \in Shards : NodeOf(B[s], 1) = B[s]
      BY NodeOfStep DEF LeadTo
    <2>2. {s \in Shards : NodeOf(B[s], 1) = n} = T
      BY <2>1
    <2> QED BY <2>2 DEF Load
  <1>9. Load(c, B, 1, n) \in 0 .. IntLimit - 1
    BY LoadBounds DEF IsBalance
  <1> QED BY <1>1, <1>6, <1>7, <1>8, <1>9, ToIntIdentity

\* The map m has nothing in its canary layer that hides the values V.
Holds(m, V) == IsMap(m) /\ m.committed = V /\ View(m) = V

(* The bins whose shards changed get their loads; the others keep theirs. *)
LEMMA BalanceBins ==
  ASSUME NEW c, IsBalance(c), NEW maps, NEW B, LeadTo(maps, B), initialBin \in [Shards -> Bins],
         NEW t, t = TreeOf(c), NEW e, NEW m, NEW V, Holds(m, V), OnTree(t, V), NEW shards,
         \A n \in t.nodes[1] \ ParentsWithChanges(t, maps, 0, shards) :
            <<1, n>> \in DOMAIN V => V[<<1, n>>] = Load(c, B, 1, n),
         NEW l, l = SetValues(m, 1, BinValues(c, e, t, maps, m, shards))
  PROVE  BalancedUpTo(l, 1, t, e, V) /\ AreBinLoads(c, t, View(l.metrics), B)
  <1> DEFINE parents == ParentsWithChanges(t, maps, 0, shards)
             values == BinValues(c, e, t, maps, m, shards)
             W == View(l.metrics)
             H == Height(t)
  <1>1. parents \subseteq t.nodes[1]
    BY DEF ParentsWithChanges
  <1>2. H \in Nat \ {0} /\ 1 \in 1 .. H
    BY BalanceTree DEF IsTree
  <1>3. /\ DOMAIN values = parents
        /\ \A n \in parents : values[n] = Load(c, B, 1, n)
    BY <1>1, BalanceBin DEF BinValues
  <1> HIDE DEF values
  <1>4. /\ IsMap(l.metrics) /\ l.metrics.committed = m.committed
        /\ l.changed \subseteq DOMAIN values
        /\ \A n \in DOMAIN values : <<1, n>> \in DOMAIN W /\ W[<<1, n>>] = values[n]
        /\ \A n \in DOMAIN values \ l.changed : Same(View(m), W, <<1, n>>)
        /\ \A k : k \notin {1} \X DOMAIN values => Same(View(m), W, k)
    <2>1. IsMap(m) /\ l = SetValues(m, 1, values)
      BY DEF Holds, values
    <2> QED BY <2>1, SetValuesView
  <1> HIDE DEF W, parents
  <1>5. /\ IsMap(l.metrics) /\ l.metrics.committed = V
        /\ l.changed \subseteq parents
        /\ \A n \in parents : <<1, n>> \in DOMAIN W /\ W[<<1, n>>] = Load(c, B, 1, n)
        /\ \A n \in parents \ l.changed : Same(V, W, <<1, n>>)
        /\ \A k : k \notin {1} \X parents => Same(V, W, k)
    BY <1>3, <1>4 DEF Holds
  <1>6. OnTree(t, W)
    <2> SUFFICES ASSUME NEW k \in DOMAIN W PROVE \E x \in 1 .. H : \E n \in t.nodes[x] : k = <<x, n>>
      BY DEF OnTree
    <2>1. CASE k \in {1} \X parents
      <3>1. PICK n \in parents : k = <<1, n>>
        BY <2>1
      <3> QED BY <1>1, <1>2, <3>1
    <2>2. CASE k \notin {1} \X parents
      <3>1. k \in DOMAIN V
        BY <1>5, <2>2 DEF Same
      <3> QED BY <3>1 DEF OnTree
    <2> QED BY <2>1, <2>2
  <1>7. \A x \in 1 + 1 .. H : \A n \in t.nodes[x] : Same(V, W, <<x, n>>)
    <2>1. \A x \in 1 + 1 .. H : x # 1
      OBVIOUS
    <2> QED BY <1>5, <2>1
  <1>8. \A n \in t.nodes[1] : n \notin parents => Same(V, W, <<1, n>>)
    BY <1>5
  <1>9. \A n \in t.nodes[1] \ l.changed : Same(V, W, <<1, n>>)
    BY <1>5, <1>8
  <1>10. l.changed \subseteq t.nodes[1] /\ \A n \in l.changed : <<1, n>> \in DOMAIN W
    BY <1>1, <1>5
  <1>11. AreBinLoads(c, t, W, B)
    <2> SUFFICES ASSUME NEW n \in t.nodes[1], <<1, n>> \in DOMAIN W PROVE W[<<1, n>>] = Load(c, B, 1, n)
      BY DEF AreBinLoads
    <2>1. CASE n \in parents
      BY <1>5, <2>1
    <2>2. CASE n \notin parents
      BY <1>8, <2>2 DEF Same, parents
    <2> QED BY <2>1, <2>2
  <1>12. 2 .. 1 = {}
    OBVIOUS
  <1>13. BalancedUpTo(l, 1, t, e, V)
    BY <1>5, <1>6, <1>7, <1>9, <1>10, <1>12 DEF BalancedUpTo, W
  <1> QED BY <1>11, <1>13 DEF W

(* A propagation through tree e leaves the values of arrangement B in the map. *)
LEMMA BalancePropagates ==
  ASSUME NEW c, IsBalance(c), NEW maps, NEW B, LeadTo(maps, B), initialBin \in [Shards -> Bins],
         NEW t, t = TreeOf(c), NEW e, NEW m, NEW V, Holds(m, V), OnTree(t, V), NEW shards,
         \A d \in 2 .. Height(t) : \A n \in t.nodes[d] : IsExtremum(t, e, V, d, n),
         \A n \in t.nodes[1] \ ParentsWithChanges(t, maps, 0, shards) :
            <<1, n>> \in DOMAIN V => V[<<1, n>>] = Load(c, B, 1, n),
         NEW level, level = Propagate(c, e, t, m, maps, shards)
  PROVE  /\ IsMap(level[Height(t)].metrics) /\ level[Height(t)].metrics.committed = V
         /\ Balanced(c, t, e, View(level[Height(t)].metrics), B)
  <1> DEFINE H == Height(t)
             Good(d) == BalancedUpTo(level[d], d, t, e, V) /\ AreBinLoads(c, t, View(level[d].metrics), B)
             Bad == {n \in Nat : n \in 1 .. H /\ ~Good(n)}
  <1>0. H \in Nat \ {0} /\ IsTree(t)
    BY BalanceTree DEF IsTree
  <1>1. /\ level[0] = [metrics |-> m, values |-> <<>>, changed |-> shards]
        /\ \A x \in 1 .. H : level[x] = PropagateToDomain(c, e, t, maps, x, level[x - 1])
    BY <1>0, PropagateSteps
  <1>2. Good(1)
    <2>1. level[1] = PropagateToDomain(c, e, t, maps, 1, level[0])
      BY <1>0, <1>1
    <2>2. level[1] = SetValues(m, 1, BinValues(c, e, t, maps, m, shards))
      BY <1>1, <2>1 DEF PropagateToDomain, BinValues
    <2> QED BY <2>2, BalanceBins
  <1>3. ASSUME NEW d \in 2 .. H, Good(d - 1) PROVE Good(d)
    <2>1. level[d] = PropagateToDomain(c, e, t, maps, d, level[d - 1])
      BY <1>0, <1>1
    <2> DEFINE below == level[d - 1]
               l == level[d]
    <2>2. BalancedUpTo(below, d - 1, t, e, V) /\ l = PropagateToDomain(c, e, t, maps, d, below) /\ c.kind = "balance"
      BY <1>3, <2>1 DEF IsBalance
    <2>3. AreBinLoads(c, t, View(below.metrics), B)
      BY <1>3
    <2> HIDE DEF below, l, Good
    <2>4. BalancedUpTo(l, d, t, e, V) /\ \A n : Same(View(below.metrics), View(l.metrics), <<1, n>>)
      BY <1>0, <2>2, BalanceAbove
    <2>5. AreBinLoads(c, t, View(l.metrics), B)
      BY <2>3, <2>4 DEF AreBinLoads, Same
    <2> QED BY <2>4, <2>5 DEF Good, l
  <1> HIDE DEF Good
  <1>4. Good(H)
    <2> SUFFICES ASSUME Bad # {} PROVE FALSE
      BY <1>0
    <2>1. PICK d \in Bad : \A k \in Bad : d <= k
      <3>1. Bad \subseteq Nat
        OBVIOUS
      <3> HIDE DEF Bad
      <3> QED BY <3>1, SmallestNumber
    <2>2. d # 1 /\ d \in 2 .. H /\ d - 1 \in 1 .. H /\ d - 1 \in Nat /\ ~(d <= d - 1)
      BY <1>0, <1>2, <2>1
    <2>3. Good(d - 1)
      BY <2>1, <2>2
    <2> QED BY <1>3, <2>1, <2>2, <2>3
  <1>5. BalancedUpTo(level[H], H, t, e, V) /\ AreBinLoads(c, t, View(level[H].metrics), B)
    BY <1>4 DEF Good
  <1> HIDE DEF H
  <1> QED BY <1>5 DEF BalancedUpTo, Balanced, H

--------------------------------------------------------------------------------

(* While a constraint is built no shard is moved. *)
LEMMA BuiltMapsLead ==
  ASSUME initialBin \in [Shards -> Bins]
  PROVE  LeadTo(<<EmptyMovements>>, initialBin)
  <1> DEFINE maps == <<EmptyMovements>>
  <1>1. \A i \in DOMAIN maps : maps[i] = EmptyMovements
    OBVIOUS
  <1> HIDE DEF maps
  <1>2. \A b \in Bins : EmptyMovements.incoming[b] = {s \in Shards : EmptyMovements.next[s] = b}
    BY NoBinAssumption DEF EmptyMovements
  <1>3. \A s \in Shards : EmptyMovements.next[s] = NoBin
    BY DEF EmptyMovements
  <1>4. LeadTo(maps, initialBin)
    BY <1>1, <1>2, <1>3 DEF LeadTo
  <1> QED BY <1>4 DEF maps

(* The search's two maps take a shard to its bin after the trial. *)
LEMMA TriedMapsLead ==
  ASSUME SearchInv, NEW s \in Shards, NEW b \in Bins, <<s, b>> \in tries,
         NEW A, NEW B, TrialOf(s, b, A, B)
  PROVE  LeadTo(<<EmptyMovements, committedMoves, Trial(s, b)>>, B)
  <1> DEFINE m3 == Trial(s, b)
             maps == <<EmptyMovements, committedMoves, m3>>
  <1>1. /\ A \in [Shards -> Bins] /\ B \in [Shards -> Bins] /\ B = [A EXCEPT ![s] = b]
        /\ A[s] = initialBin[s] /\ b # A[s] /\ committedMoves.next[s] = NoBin
        /\ A = After(committedMoves)
    BY TrialIsMove DEF IsMove, TrialOf
  <1>2. /\ \A x \in Shards : m3.next[x] = IF x = s THEN b ELSE NoBin
        /\ \A x \in Bins : m3.incoming[x] = {y \in Shards : m3.next[y] = x}
    <2>1. m3 = [next |-> [x \in Shards |-> IF x = s THEN b ELSE NoBin],
                incoming |-> [x \in Bins |-> IF x = b THEN {s} ELSE {}]]
      BY DEF Trial, ClearMovements, AddMovement, EmptyMovements
    <2> HIDE DEF m3
    <2>2. \A x \in Shards : m3.next[x] = IF x = s THEN b ELSE NoBin
      BY <2>1
    <2>3. \A x \in Bins : m3.incoming[x] = IF x = b THEN {s} ELSE {}
      BY <2>1
    <2>4. \A x \in Bins : {y \in Shards : m3.next[y] = x} = IF x = b THEN {s} ELSE {}
      BY <2>2, NoBinAssumption
    <2> QED BY <2>2, <2>3, <2>4
  <1> HIDE DEF m3
  <1>3. /\ DOMAIN maps = {1, 2, 3}
        /\ maps[1] = EmptyMovements /\ maps[2] = committedMoves /\ maps[3] = m3
    OBVIOUS
  <1> HIDE DEF maps
  <1>4. /\ \A b2 \in Bins : EmptyMovements.incoming[b2] = {x \in Shards : EmptyMovements.next[x] = b2}
        /\ \A x \in Shards : EmptyMovements.next[x] = NoBin
    BY NoBinAssumption DEF EmptyMovements
  <1>5. \A b2 \in Bins : committedMoves.incoming[b2] = {x \in Shards : committedMoves.next[x] = b2}
    BY DEF SearchInv, CommittedMovesConsistent
  <1>6. \A i \in DOMAIN maps : \A b2 \in Bins : maps[i].incoming[b2] = {x \in Shards : maps[i].next[x] = b2}
    BY <1>2, <1>3, <1>4, <1>5
  <1>7. ASSUME NEW x \in Shards
        PROVE  IF B[x] = initialBin[x] THEN \A i \in DOMAIN maps : maps[i].next[x] = NoBin
               ELSE \E j \in DOMAIN maps : /\ maps[j].next[x] = B[x]
                                           /\ \A i \in DOMAIN maps \ {j} : maps[i].next[x] = NoBin
    <2>1. CASE x = s
      <3>1. B[x] = b /\ b # initialBin[x] /\ maps[3].next[x] = b
        BY <1>1, <1>2, <1>3, <2>1
      <3>2. \A i \in DOMAIN maps \ {3} : maps[i].next[x] = NoBin
        BY <1>1, <1>3, <1>4, <2>1
      <3> QED BY <1>3, <3>1, <3>2
    <2>2. CASE x # s
      <3>1. B[x] = IF committedMoves.next[x] = NoBin THEN initialBin[x] ELSE committedMoves.next[x]
        BY <1>1, <2>2 DEF After
      <3>2. \A i \in DOMAIN maps \ {2} : maps[i].next[x] = NoBin
        BY <1>2, <1>3, <1>4, <2>2
      <3>3. committedMoves.next[x] # initialBin[x]
        BY DEF SearchInv, CommittedMovesConsistent
      <3>4. CASE committedMoves.next[x] = NoBin
        BY <1>3, <3>1, <3>2, <3>4
      <3>5. CASE committedMoves.next[x] # NoBin
        <4>1. B[x] # initialBin[x] /\ maps[2].next[x] = B[x]
          BY <1>3, <3>1, <3>3, <3>5
        <4> QED BY <1>3, <3>2, <4>1
      <3> QED BY <3>4, <3>5
    <2> QED BY <2>1, <2>2
  <1>8. LeadTo(maps, B)
    BY <1>1, <1>6, <1>7 DEF LeadTo
  <1> QED BY <1>8 DEF maps, m3

\* The third of the search's maps moves shard s to b, and no other does.
OnlyLast(maps, s, b) == /\ DOMAIN maps = {1, 2, 3}
                        /\ maps[1].next[s] = NoBin /\ maps[2].next[s] = NoBin
                        /\ maps[3].next[s] = b

(* The bins that getParents names for the shard of a trial: the one it is in and the one
   it is to go to, once each. *)
LEMMA TriedParents ==
  ASSUME NEW t, t.nodes[1] \subseteq Bins, NEW s \in Shards, NEW b, b # initialBin[s],
         initialBin \in [Shards -> Bins],
         t.binOf[s] = (IF initialBin[s] \in t.nodes[1] THEN initialBin[s] ELSE NoBin),
         NEW maps, OnlyLast(maps, s, b), NEW n \in t.nodes[1]
  PROVE  ParentTimes(t, maps, s, n) = IF n = b \/ n = initialBin[s] THEN 1 ELSE 0
  <1>0. n # NoBin
    BY NoBinAssumption
  <1>1. {i \in DOMAIN maps : maps[i].next[s] = n} = IF n = b THEN {3} ELSE {}
    BY <1>0 DEF OnlyLast
  <1>2. Cardinality({3}) = 1 /\ Cardinality({}) = 0
    BY FS_EmptySet, FS_Singleton
  <1>3. Cardinality({i \in DOMAIN maps : maps[i].next[s] = n}) = IF n = b THEN 1 ELSE 0
    BY <1>1, <1>2
  <1>4. t.binOf[s] = n <=> n = initialBin[s]
    BY <1>0
  <1> QED BY <1>3, <1>4 DEF ParentTimes

\* The values V of tree e can be brought to arrangement B by way of the bins touched.
Ready(c, t, e, V, touched, B) ==
    /\ OnTree(t, V)
    /\ \A d \in 2 .. Height(t) : \A n \in t.nodes[d] : IsExtremum(t, e, V, d, n)
    /\ \A n \in t.nodes[1] \ touched : <<1, n>> \in DOMAIN V => V[<<1, n>>] = Load(c, B, 1, n)

\* What is read in both trees of a load-balancing constraint, canary values first, is B's.
BalancedView(c, st, B) == \A e \in {"min", "max"} : /\ IsMap(st.metrics[e])
                                                    /\ Balanced(c, TreeOf(c), e, View(st.metrics[e]), B)

(* An evaluation computes the values of the arrangement that the maps lead to, and
   leaves the committed ones. *)
LEMMA BalanceEvaluation ==
  ASSUME NEW c, IsBalance(c), NEW maps, NEW B, LeadTo(maps, B), initialBin \in [Shards -> Bins],
         NEW t, t = TreeOf(c), NEW st, NEW shards,
         \A e \in {"min", "max"} :
            /\ Holds(st.metrics[e], st.metrics[e].committed)
            /\ Ready(c, t, e, st.metrics[e].committed, ParentsWithChanges(t, maps, 0, shards), B),
         NEW eval, eval = Evaluate(c, st, t, maps, shards)
  PROVE  /\ BalancedView(c, eval.state, B)
         /\ \A e \in {"min", "max"} : eval.state.metrics[e].committed = st.metrics[e].committed
  <1> DEFINE level == [e \in Trees(c) |-> Propagate(c, e, t, st.metrics[e], maps, shards)]
             H == Height(t)
             metrics == [e \in Trees(c) |-> level[e][H].metrics]
  <1>1. Trees(c) = {"min", "max"} /\ c.kind = "balance"
    BY DEF Trees, IsBalance
  <1>2. eval = Weigh(c, st, t, level)
    BY DEF Evaluate
  <1>3. \A e \in {"min", "max"} : level[e] = Propagate(c, e, t, st.metrics[e], maps, shards)
    BY <1>1
  <1> HIDE DEF level
  <1>4. \E root, updated : eval = UpdateWeights(c, metrics, st.faults, root, updated)
    BY <1>1, <1>2 DEF Weigh
  <1>5. \A e \in {"min", "max"} : metrics[e] = level[e][H].metrics
    BY <1>1
  <1> HIDE DEF metrics
  <1>6. eval.state.metrics = metrics
    <2>1. PICK root, updated : eval = UpdateWeights(c, metrics, st.faults, root, updated)
      BY <1>4
    <2>2. \E deltas : eval = Evaluation(metrics, st.faults, TRUE, deltas)
      BY <2>1 DEF UpdateWeights
    <2> QED BY <2>2 DEF Evaluation
  <1>7. ASSUME NEW e \in {"min", "max"}
        PROVE  /\ IsMap(metrics[e]) /\ metrics[e].committed = st.metrics[e].committed
               /\ Balanced(c, t, e, View(metrics[e]), B)
    <2> DEFINE m == st.metrics[e]
               V == m.committed
               l == level[e]
    <2>1. l = Propagate(c, e, t, m, maps, shards) /\ metrics[e] = l[H].metrics
      BY <1>3, <1>5
    <2>2. /\ Holds(m, V) /\ OnTree(t, V)
          /\ \A d \in 2 .. H : \A n \in t.nodes[d] : IsExtremum(t, e, V, d, n)
          /\ \A n \in t.nodes[1] \ ParentsWithChanges(t, maps, 0, shards) :
                <<1, n>> \in DOMAIN V => V[<<1, n>>] = Load(c, B, 1, n)
      BY DEF Ready
    <2> HIDE DEF m, V, l
    <2>3. /\ IsMap(l[H].metrics) /\ l[H].metrics.committed = V
          /\ Balanced(c, t, e, View(l[H].metrics), B)
      BY <2>1, <2>2, BalancePropagates
    <2> QED BY <2>1, <2>3 DEF m, V
  <1> QED BY <1>6, <1>7 DEF BalancedView

(* The constructor of a load-balancing constraint. *)
LEMMA BuiltBalance ==
  ASSUME NEW c, IsBalance(c), initialBin \in [Shards -> Bins],
         NEW eval, eval = InitializeMetricState(c, EmptyConstraint(c))
  PROVE  BalancedView(c, eval.state, initialBin)
  <1> DEFINE t == TreeOf(c)
             st == EmptyConstraint(c)
             maps == <<EmptyMovements>>
             shards == AllShards(t)
             touched == ParentsWithChanges(t, maps, 0, shards)
  <1>1. eval = Evaluate(c, st, t, maps, shards)
    BY DEF InitializeMetricState, TreeOf
  <1>2. LeadTo(maps, initialBin)
    BY BuiltMapsLead
  <1>3. \A e \in {"min", "max"} : st.metrics[e] = EmptyMap
    BY DEF EmptyConstraint, Trees, IsBalance
  <1>4. EmptyMap.committed = <<>> /\ Holds(EmptyMap, <<>>) /\ DOMAIN <<>> = {}
    <2>1. EmptyMap.committed = <<>> /\ EmptyMap.canary = <<>> /\ IsMap(EmptyMap)
      BY EmptyMapFacts DEF EmptyMap
    <2>2. SetMap(<<>>, <<>>) = <<>>
      BY DEF SetMap
    <2> QED BY <2>1, <2>2 DEF Holds, View
  <1>5. \A e \in {"min", "max"} : Ready(c, t, e, <<>>, touched, initialBin)
    BY <1>4 DEF Ready, OnTree, IsExtremum
  <1> HIDE DEF maps, st, touched, shards
  <1>6. \A e \in {"min", "max"} :
            /\ Holds(st.metrics[e], st.metrics[e].committed)
            /\ Ready(c, t, e, st.metrics[e].committed, ParentsWithChanges(t, maps, 0, shards), initialBin)
    BY <1>3, <1>4, <1>5 DEF touched
  <1> HIDE DEF t
  <1> QED BY <1>1, <1>2, <1>6, BalanceEvaluation DEF t

(* canaryMoves of a trial, for a load-balancing constraint. *)
LEMMA TriedBalance ==
  ASSUME SearchInv, NEW s \in Shards, NEW b \in Bins, <<s, b>> \in tries,
         NEW A, NEW B, TrialOf(s, b, A, B),
         NEW c, IsBalance(c), NEW st, BalancedState(c, st, A),
         NEW eval, eval = Evaluate(c, ClearConstraint(c, st), ConstraintTree(c, AssignmentTree),
                                   <<EmptyMovements, committedMoves, Trial(s, b)>>, {s})
  PROVE  BalancedView(c, eval.state, B) /\ BalancedState(c, eval.state, A)
  <1> DEFINE t == TreeOf(c)
             clear == ClearConstraint(c, st)
             maps == <<EmptyMovements, committedMoves, Trial(s, b)>>
             touched == ParentsWithChanges(t, maps, 0, {s})
  <1>1. eval = Evaluate(c, clear, t, maps, {s})
    BY DEF TreeOf
  <1>2. LeadTo(maps, B)
    BY TriedMapsLead
  <1>3. /\ IsMove(A, s, b, B) /\ A[s] = initialBin[s] /\ A[s] \in Bins /\ b # A[s]
        /\ initialBin \in [Shards -> Bins]
        /\ committedMoves.next[s] = NoBin /\ Trial(s, b).next[s] = b
    BY TrialIsMove, AfterType DEF IsMove
  <1>4. \A e \in {"min", "max"} : clear.metrics[e] = MapClear(st.metrics[e])
    BY DEF ClearConstraint, Trees, IsBalance
  <1> HIDE DEF clear
  <1>5. \A e \in {"min", "max"} : /\ clear.metrics[e].committed = st.metrics[e].committed
                                  /\ Holds(clear.metrics[e], st.metrics[e].committed)
                                  /\ Balanced(c, t, e, st.metrics[e].committed, A)
    BY <1>4, MapClearFacts, ViewFacts DEF BalancedState, Holds
  <1>6. /\ t.nodes[1] \subseteq Bins
        /\ t.binOf[s] = IF initialBin[s] \in t.nodes[1] THEN initialBin[s] ELSE NoBin
    BY BalanceTree
  <1>7. OnlyLast(maps, s, b)
    BY <1>3 DEF EmptyMovements, OnlyLast
  <1> HIDE DEF maps, t
  <1>8. \A n \in t.nodes[1] : ParentTimes(t, maps, s, n) = IF n = b \/ n = initialBin[s] THEN 1 ELSE 0
    BY <1>3, <1>6, <1>7, TriedParents
  <1>9. \A n \in t.nodes[1] \ touched : n # b /\ n # A[s] /\ n \in Bins
    BY <1>3, <1>6, <1>8 DEF ParentsWithChanges
  <1> HIDE DEF touched
  <1>10. \A n \in t.nodes[1] \ touched : Load(c, B, 1, n) = Load(c, A, 1, n)
    BY <1>3, <1>9, MoveChangesLoads DEF IsBalance
  <1>11. \A e \in {"min", "max"} :
            /\ Holds(clear.metrics[e], clear.metrics[e].committed)
            /\ Ready(c, t, e, clear.metrics[e].committed, touched, B)
    BY <1>5, <1>10 DEF Ready, Balanced, AreBinLoads
  <1>12. /\ BalancedView(c, eval.state, B)
         /\ \A e \in {"min", "max"} : eval.state.metrics[e].committed = clear.metrics[e].committed
    BY <1>1, <1>2, <1>3, <1>11, BalanceEvaluation DEF t, touched
  <1>13. BalancedState(c, eval.state, A)
    BY <1>5, <1>12 DEF BalancedState, BalancedView, t
  <1> QED BY <1>12, <1>13

(* commitMoves makes what was computed the committed values. *)
LEMMA CommittedBalance ==
  ASSUME NEW c, IsBalance(c), NEW st, NEW B, BalancedView(c, st, B)
  PROVE  BalancedState(c, CommitConstraint(c, st), B)
  <1>1. \A e \in {"min", "max"} : CommitConstraint(c, st).metrics[e] = MapCommit(st.metrics[e])
    BY DEF CommitConstraint, Trees, IsBalance
  <1> QED BY <1>1, MapCommitFacts, ViewFacts DEF BalancedState, BalancedView

--------------------------------------------------------------------------------
(***************************************************************************)
(* A BOTH capacity of bins.                                                *)
(***************************************************************************)

(* Its tree are its bins, and its values are recorded as they were computed. *)
LEMMA BothTree ==
  ASSUME NEW c, IsBothCapacity(c), NEW t, t = TreeOf(c)
  PROVE  /\ Placed(c) /\ IsTree(t) /\ Height(t) = 1 /\ t.nodes[1] = c.ids /\ c.ids \subseteq Bins
         /\ \A s \in Shards : t.binOf[s] = IF initialBin[s] \in c.ids THEN initialBin[s] ELSE NoBin
  <1>1. Placed(c) /\ c.domain = 1
    BY SummedConstraints DEF IsSummed, IsBothCapacity
  <1>2. Height(t) = 1 /\ t.nodes[1] = c.ids
    BY <1>1, PartialTree
  <1>3. c.ids \subseteq Bins
    BY <1>1 DEF Placed, DomainIds
  <1>4. t.binOf = [s \in Shards |-> IF initialBin[s] \in t.nodes[1] THEN initialBin[s] ELSE NoBin]
    BY <1>1, PartialTree
  <1>5. IsTree(t)
    <2>1. IsFiniteSet(c.ids)
      BY <1>3, SearchAssumption, FS_Subset
    <2> QED BY <1>2, <2>1 DEF IsTree
  <1> QED BY <1>1, <1>2, <1>3, <1>4, <1>5

\* The values f of its bins as a function on the domains of its tree.
OneDomain(f) == [d \in 1 .. 1 |-> f]

\* The values f are in the range of an int, and they are the ones that a clean state holds.
AreInts(c, f) == f = [n \in c.ids |-> f[n]] /\ \A n \in c.ids : f[n] \in 0 .. IntLimit - 1

HoldsBins(c, st, f) == IsMap(st.metrics["sum"]) /\ CommittedBins(c, st) = f /\ ReadBins(c, st) = f

\* The values g are f after a move of s to b, counted in both its bins.
CountsBoth(c, f, s, b, g) ==
    \A n \in c.ids : g[n] = f[n] + (IF n = b \/ n = initialBin[s] THEN ShardLoad(c)[s] ELSE 0)

(* An evaluation takes the values that are read from f to g, and leaves the committed ones. *)
LEMMA BothEvaluation ==
  ASSUME NEW c, IsBothCapacity(c), NEW t, t = TreeOf(c), NEW maps, NEW st, NEW shards,
         NEW f, NEW g, HoldsBins(c, st, f), AreInts(c, f), AreInts(c, g),
         AreValues(BinValues(c, "sum", t, maps, st.metrics["sum"], shards), 1, t, OneDomain(f), OneDomain(g)),
         NEW eval, eval = Evaluate(c, st, t, maps, shards)
  PROVE  /\ IsMap(eval.state.metrics["sum"])
         /\ CommittedBins(c, eval.state) = f /\ ReadBins(c, eval.state) = g
  <1> DEFINE m == st.metrics["sum"]
             level == Propagate(c, "sum", t, m, maps, shards)
             old == OneDomain(f)
             new == OneDomain(g)
  <1>1. /\ IsTree(t) /\ Height(t) = 1 /\ t.nodes[1] = c.ids
        /\ Trees(c) = {"sum"} /\ c.domain = 1 /\ c.kind = "capacity"
    BY BothTree DEF Trees, IsBothCapacity
  <1>2. old[1] = f /\ new[1] = g
    BY DEF OneDomain
  <1> HIDE DEF old, new
  <1>3. AreLoads(old, t) /\ AreLoads(new, t)
    <2>1. \A d \in 1 .. Height(t) : d = 1
      BY <1>1
    <2>2. 1 .. Height(t) - 1 = {}
      BY <1>1
    <2> QED BY <1>1, <1>2, <2>1, <2>2 DEF AreLoads, AreInts
  <1>4. \A n \in c.ids : MapCommittedOr(m, <<1, n>>, 0) = f[n] /\ MapGetOr(m, <<1, n>>, 0) = f[n]
    BY DEF CommittedBins, ReadBins, HoldsBins
  <1>5. MetricsUpTo(m, 0, t, old, new)
    <2>1. \A d \in 1 .. Height(t) : d = 1 /\ ~(d <= 0)
      BY <1>1
    <2> HIDE DEF m
    <2>2. IsMap(m)
      BY DEF m, HoldsBins
    <2> QED BY <1>1, <1>2, <1>4, <2>1, <2>2 DEF MetricsUpTo
  <1>6. AreValues([n \in ParentsWithChanges(t, maps, 0, shards) |->
                      Calculate(c, "sum", t, maps, m, 1, n,
                                ChangedChildren(t, maps, 1, n, shards))], 1, t, old, new)
    BY DEF BinValues, old, new
  <1> HIDE DEF m
  <1>7. LevelOK(level[1], 1, t, old, new)
    <2>1. 1 \in 1 .. Height(t)
      BY <1>1
    <2> QED BY <1>1, <1>3, <1>5, <1>6, <2>1, PropagateExact
  <1> HIDE DEF level
  <1> DEFINE r == level[1].metrics
  <1>8. /\ IsMap(r)
        /\ \A n \in c.ids : MapCommittedOr(r, <<1, n>>, 0) = f[n] /\ MapGetOr(r, <<1, n>>, 0) = g[n]
    <2>1. 1 \in 1 .. Height(t) /\ 1 <= 1
      BY <1>1
    <2> QED BY <1>1, <1>2, <1>7, <2>1 DEF LevelOK, MetricsUpTo
  <1>9. eval.state.metrics["sum"] = r
    <2> DEFINE levels == [e \in Trees(c) |-> Propagate(c, e, t, st.metrics[e], maps, shards)]
               metrics == [e \in Trees(c) |-> levels[e][Height(t)].metrics]
    <2>1. eval = Weigh(c, st, t, levels)
      BY DEF Evaluate
    <2>2. levels["sum"] = level
      BY <1>1 DEF level, m
    <2> HIDE DEF levels
    <2>3. \E values : eval = UpdateWeightIfPossible(c, metrics, st.faults, values)
      BY <1>1, <2>1 DEF Weigh
    <2>4. metrics["sum"] = r
      BY <1>1, <2>2
    <2> HIDE DEF metrics
    <2>5. PICK values : eval = UpdateWeightIfPossible(c, metrics, st.faults, values)
      BY <2>3
    <2>7. eval.state.metrics = metrics
      BY <2>5 DEF UpdateWeightIfPossible, Evaluation
    <2> QED BY <2>4, <2>7
  <1> HIDE DEF r
  <1>10. CommittedBins(c, eval.state) = [n \in c.ids |-> f[n]] /\ ReadBins(c, eval.state) = [n \in c.ids |-> g[n]]
    BY <1>8, <1>9 DEF CommittedBins, ReadBins
  <1>11. f = [n \in c.ids |-> f[n]] /\ g = [n \in c.ids |-> g[n]]
    BY DEF AreInts
  <1> QED BY <1>8, <1>9, <1>10, <1>11

(* A trial is added to both bins of its shard. *)
LEMMA BothTriedBins ==
  ASSUME NEW c, IsBothCapacity(c), NEW t, t = TreeOf(c), NEW s \in Shards, NEW b, b # initialBin[s],
         initialBin \in [Shards -> Bins], NEW maps, OnlyLast(maps, s, b),
         NEW m, NEW f, NEW g, \A n \in c.ids : MapGetOr(m, <<1, n>>, 0) = f[n],
         AreInts(c, f), AreInts(c, g), CountsBoth(c, f, s, b, g)
  PROVE  AreValues(BinValues(c, "sum", t, maps, m, {s}), 1, t, OneDomain(f), OneDomain(g))
  <1> DEFINE parents == ParentsWithChanges(t, maps, 0, {s})
  <1>1. /\ t.nodes[1] = c.ids /\ c.ids \subseteq Bins
        /\ t.binOf[s] = IF initialBin[s] \in t.nodes[1] THEN initialBin[s] ELSE NoBin
    BY BothTree
  <1>2. \A n \in c.ids : ParentTimes(t, maps, s, n) = IF n = b \/ n = initialBin[s] THEN 1 ELSE 0
    BY <1>1, TriedParents
  <1>3. parents = {n \in c.ids : n = b \/ n = initialBin[s]}
    BY <1>1, <1>2 DEF ParentsWithChanges
  <1>4. \A n \in parents : ChangedChildren(t, maps, 1, n, {s}) = {s}
    BY <1>2, <1>3 DEF ChangedChildren
  <1>5. ASSUME NEW n \in parents
        PROVE  Calculate(c, "sum", t, maps, m, 1, n, ChangedChildren(t, maps, 1, n, {s})) = g[n]
    <2>1. n \in c.ids /\ g[n] = f[n] + ShardLoad(c)[s] /\ ParentTimes(t, maps, s, n) = 1
      BY <1>2, <1>3 DEF CountsBoth
    <2>2. Sign(c, maps, s, n) = 1
      BY DEF Sign, ShouldConsiderShard, IsBothCapacity
    <2>3. ShardLoad(c)[s] \in Nat
      BY DEF IsBothCapacity, FitsInt
    <2> DEFINE delta == [k \in {s} |-> ShardLoad(c)[k]]
    <2>4. DOMAIN delta = {s} /\ IsFiniteSet({s}) /\ {s} \in SUBSET Shards /\ delta[s] = ShardLoad(c)[s]
      BY FS_Singleton
    <2> HIDE DEF delta, parents
    <2>5. \A k \in {s} : /\ delta[k] = ParentTimes(t, maps, k, n) * Sign(c, maps, k, n) * ShardLoad(c)[k]
                         /\ ParentTimes(t, maps, k, n) * Sign(c, maps, k, n) \in Int
      BY <2>1, <2>2, <2>3, <2>4
    <2>6. Calculate(c, "sum", t, maps, m, 1, n, {s}) = ToInt(MapGetOr(m, <<1, n>>, 0) + SumFunctionOnSet(delta, {s}))
      <3>1. c.kind = "drain" \/ (c.kind = "capacity" /\ c.metric = 0)
        BY DEF IsBothCapacity
      <3> QED BY <2>4, <2>5, <3>1, BinValue
    <2>7. SumFunctionOnSet(delta, {s}) = ShardLoad(c)[s]
      BY <2>3, <2>4, SumSingleton
    <2>8. MapGetOr(m, <<1, n>>, 0) = f[n] /\ g[n] \in 0 .. IntLimit - 1
      BY <2>1 DEF AreInts
    <2> QED BY <1>4, <2>1, <2>6, <2>7, <2>8, ToIntIdentity
  <1>6. ASSUME NEW n \in t.nodes[1] \ parents PROVE g[n] = f[n]
    <2>1. n \in c.ids /\ ~(n = b \/ n = initialBin[s])
      BY <1>1, <1>3
    <2>2. f[n] \in 0 .. IntLimit - 1 /\ g[n] = f[n] + 0
      BY <2>1 DEF AreInts, CountsBoth
    <2> QED BY <2>2
  <1>7. parents \subseteq t.nodes[1]
    BY <1>1, <1>3
  <1> HIDE DEF parents
  <1> DEFINE v == BinValues(c, "sum", t, maps, m, {s})
  <1>8. DOMAIN v = parents /\ \A n \in parents : v[n] = g[n]
    BY <1>5 DEF BinValues, parents
  <1> HIDE DEF v
  <1>9. AreValues(v, 1, t, OneDomain(f), OneDomain(g))
    BY <1>6, <1>7, <1>8 DEF AreValues, OneDomain
  <1> QED BY <1>9 DEF v

(* The constructor computes the loads of the assignment tree. *)
LEMMA BuiltBoth ==
  ASSUME SearchInv, NEW c, IsBothCapacity(c),
         NEW eval, eval = InitializeMetricState(c, EmptyConstraint(c))
  PROVE  IsMap(eval.state.metrics["sum"]) /\ Covers(c, ReadBins(c, eval.state), EmptyMovements)
  <1> DEFINE t == TreeOf(c)
             st == EmptyConstraint(c)
             maps == <<EmptyMovements>>
             f == [n \in c.ids |-> 0]
             g == [n \in c.ids |-> Load(c, initialBin, 1, n)]
  <1>1. /\ initialBin \in [Shards -> Bins] /\ After(EmptyMovements) = initialBin
        /\ eval = Evaluate(c, st, t, maps, AllShards(t))
    BY AfterType DEF InitializeMetricState, TreeOf
  <1>2. IsSummed(c) /\ Height(t) = 1 /\ t.nodes[1] = c.ids /\ c.domain = 1
    BY SummedConstraints, BothTree DEF IsBothCapacity
  <1>3. st.metrics["sum"] = EmptyMap
    BY DEF EmptyConstraint, Trees, IsBothCapacity
  <1>4. HoldsBins(c, st, f)
    BY <1>3, EmptyMapFacts DEF HoldsBins, CommittedBins, ReadBins
  <1>5. FitsInt(c, 1)
    BY <1>2 DEF IsSummed
  <1>6. /\ \A n \in c.ids : ZeroLoads(c)[1][n] = f[n] /\ LoadsOf(c, initialBin)[1][n] = g[n]
        /\ OneDomain(f)[1] = f /\ OneDomain(g)[1] = g
    BY <1>2 DEF ZeroLoads, LoadsOf, OneDomain
  <1>7. /\ f = [n \in c.ids |-> f[n]] /\ g = [n \in c.ids |-> g[n]]
        /\ \A n \in c.ids : f[n] = 0 /\ g[n] = Load(c, initialBin, 1, n)
    OBVIOUS
  <1> HIDE DEF f, g, st, maps
  <1>8. AreInts(c, f) /\ AreInts(c, g)
    BY <1>5, <1>7, LoadBounds, IntLimitAssumption DEF AreInts
  <1>9. AreValues(BinValues(c, "sum", t, maps, EmptyMap, AllShards(t)), 1, t, OneDomain(f), OneDomain(g))
    <2>1. MetricsUpTo(EmptyMap, 0, t, ZeroLoads(c), LoadsOf(c, initialBin))
      <3> HIDE DEF t
      <3>1. \A d \in 1 .. Height(t) : d = 1 /\ ~(d <= 0)
        BY <1>2
      <3>2. \A d \in 1 .. Height(t) : \A n \in t.nodes[d] : ZeroLoads(c)[d][n] = 0
        BY <1>2, <1>6, <1>7, <3>1
      <3> QED BY <3>1, <3>2, EmptyMapFacts DEF MetricsUpTo
    <2>2. t = TreeOf(c)
      OBVIOUS
    <2> HIDE DEF t
    <2>3. AreValues(BinValues(c, "sum", t, maps, EmptyMap, AllShards(t)), 1, t, ZeroLoads(c), LoadsOf(c, initialBin))
      BY <1>1, <1>2, <2>1, <2>2, BinsWhenBuilt DEF maps
    <2> QED BY <1>2, <1>6, <2>3 DEF AreValues
  <1>10. t = TreeOf(c)
    OBVIOUS
  <1> HIDE DEF t
  <1>11. IsMap(eval.state.metrics["sum"]) /\ ReadBins(c, eval.state) = g
    BY <1>1, <1>3, <1>4, <1>8, <1>9, <1>10, BothEvaluation
  <1>12. SumFunctionOnSet(ShardLoad(c), MovedShards(EmptyMovements)) = 0
    <2>1. MovedShards(EmptyMovements) = {}
      BY DEF MovedShards, EmptyMovements
    <2> QED BY <2>1, SumEmpty
  <1>13. Covers(c, g, EmptyMovements)
    <2>1. \A n \in c.ids : /\ g[n] \in Nat /\ g[n] <= SumFunction(ShardLoad(c))
                           /\ g[n] = Load(c, initialBin, 1, n) /\ SumFunction(ShardLoad(c)) \in Nat
      BY <1>5, <1>7, LoadBounds, IntLimitAssumption
    <2> QED BY <1>1, <1>12, <2>1 DEF Covers
  <1> QED BY <1>11, <1>13

(* A trial's values still cover both arrangements, and they do not leave the range of an
   int: a shard is only ever moved once. *)
LEMMA TrialCovers ==
  ASSUME SearchInv, NEW s \in Shards, NEW b \in Bins, <<s, b>> \in tries,
         NEW A, NEW B, TrialOf(s, b, A, B), NEW c, IsBothCapacity(c),
         NEW f, Covers(c, f, committedMoves), NEW g, CountsBoth(c, f, s, b, g)
  PROVE  /\ Covers(c, g, AddMovements(committedMoves, Trial(s, b)))
         /\ \A n \in c.ids : f[n] \in 0 .. IntLimit - 1 /\ g[n] \in 0 .. IntLimit - 1
  <1> DEFINE m == committedMoves
             m2 == AddMovements(committedMoves, Trial(s, b))
             all == SumFunction(ShardLoad(c))
             moved == SumFunctionOnSet(ShardLoad(c), MovedShards(m))
             moved2 == SumFunctionOnSet(ShardLoad(c), MovedShards(m2))
             x == ShardLoad(c)[s]
  <1>1. /\ IsMove(A, s, b, B) /\ A[s] = initialBin[s] /\ m.next[s] = NoBin
        /\ A = After(m) /\ B = After(m2) /\ A \in [Shards -> Bins]
    <2>1. A = After(committedMoves)
      BY DEF TrialOf
    <2>2. /\ IsMove(A, s, b, B) /\ A[s] = initialBin[s] /\ committedMoves.next[s] = NoBin
          /\ After(AddMovements(committedMoves, Trial(s, b))) = B /\ A \in [Shards -> Bins]
      BY TrialIsMove
    <2> QED BY <2>1, <2>2
  <1>2. m2.next = [m.next EXCEPT ![s] = b] /\ m.next \in [Shards -> Bins \cup {NoBin}]
    <2>1. m \in MovementMaps
      BY DEF SearchInv, ControlTypeOK
    <2> QED BY <2>1, CommittedTrial DEF MovementMaps
  <1> HIDE DEF m2, m
  <1>3. MovedShards(m2) = MovedShards(m) \cup {s} /\ s \notin MovedShards(m) /\ MovedShards(m) \in SUBSET Shards
    BY <1>1, <1>2, NoBinAssumption DEF MovedShards
  <1>4. \A y \in Shards : ShardLoad(c)[y] \in Nat
    BY DEF IsBothCapacity, FitsInt
  <1>5. /\ moved2 = x + moved /\ x \in Nat /\ moved \in Nat /\ moved2 \in Nat /\ all \in Nat
        /\ moved2 <= all /\ 2 * all < IntLimit
    <2>1. DOMAIN ShardLoad(c) = Shards
      BY DEF ShardLoad
    <2>2. IsFiniteSet(Shards) /\ MovedShards(m2) \in SUBSET Shards /\ IsFiniteSet(MovedShards(m))
      BY <1>3, SearchAssumption, FS_Subset
    <2>3. /\ moved \in Nat /\ moved2 \in Nat /\ all \in Nat /\ moved2 <= all
      BY <1>3, <1>4, <2>1, <2>2, SumSubset DEF SumFunction
    <2>4. moved2 = x + moved
      <3> DEFINE M == MovedShards(m)
      <3>1. \A y \in M \cup {s} : ShardLoad(c)[y] \in Int
        BY <1>3, <1>4
      <3>2. IsFiniteSet(M) /\ s \notin M /\ MovedShards(m2) = M \cup {s}
        BY <1>3, <2>2
      <3> HIDE DEF M
      <3>3. SumFunctionOnSet(ShardLoad(c), M \cup {s}) = ShardLoad(c)[s] + SumFunctionOnSet(ShardLoad(c), M)
        BY <3>1, <3>2, SumAdd
      <3> QED BY <3>2, <3>3 DEF M
    <2> QED BY <1>4, <2>3, <2>4 DEF IsBothCapacity, FitsInt
  <1>6. ASSUME NEW n \in c.ids
        PROVE  /\ g[n] \in Nat /\ g[n] >= Load(c, initialBin, 1, n) /\ g[n] >= Load(c, After(m2), 1, n)
               /\ g[n] <= all + moved2
               /\ f[n] \in 0 .. IntLimit - 1 /\ g[n] \in 0 .. IntLimit - 1
    <2>1. /\ f[n] \in Nat /\ f[n] >= Load(c, initialBin, 1, n) /\ f[n] >= Load(c, A, 1, n)
          /\ f[n] <= all + moved
      BY <1>1 DEF Covers, m
    <2>2. g[n] = f[n] + (IF n = b \/ n = initialBin[s] THEN x ELSE 0)
      BY DEF CountsBoth
    <2>3. n \in Bins /\ FitsInt(c, 1)
      BY BothTree, SummedConstraints DEF IsSummed
    <2>4. Load(c, initialBin, 1, n) \in Nat /\ Load(c, A, 1, n) \in Nat /\ IntLimit \in Nat
      BY <2>3, LoadBounds, IntLimitAssumption
    <2>5. Load(c, B, 1, n) = IF n = b THEN Load(c, A, 1, n) + x
                             ELSE IF n = A[s] THEN Load(c, A, 1, n) - x
                             ELSE Load(c, A, 1, n)
      BY <1>1, <2>3, MoveChangesLoads
    <2> HIDE DEF x, all, moved, moved2
    <2>6. g[n] \in Nat /\ g[n] >= f[n] /\ g[n] <= f[n] + x
      BY <1>5, <2>1, <2>2
    <2>7. g[n] >= Load(c, B, 1, n)
      BY <1>1, <1>5, <2>1, <2>2, <2>4, <2>5
    <2>8. g[n] <= all + moved2 /\ g[n] < IntLimit /\ f[n] < IntLimit
      BY <1>5, <2>1, <2>4, <2>6
    <2> QED BY <1>1, <2>1, <2>4, <2>6, <2>7, <2>8
  <1> QED BY <1>6 DEF Covers, m2

(* canaryMoves of a trial. *)
LEMMA TriedBoth ==
  ASSUME SearchInv, NEW s \in Shards, NEW b \in Bins, <<s, b>> \in tries,
         NEW A, NEW B, TrialOf(s, b, A, B), NEW c, IsBothCapacity(c),
         NEW st, CoveredState(c, st, committedMoves),
         NEW eval, eval = Evaluate(c, ClearConstraint(c, st), ConstraintTree(c, AssignmentTree),
                                   <<EmptyMovements, committedMoves, Trial(s, b)>>, {s})
  PROVE  /\ CoveredState(c, eval.state, committedMoves)
         /\ Covers(c, ReadBins(c, eval.state), AddMovements(committedMoves, Trial(s, b)))
  <1> DEFINE t == TreeOf(c)
             clear == ClearConstraint(c, st)
             maps == <<EmptyMovements, committedMoves, Trial(s, b)>>
             f == CommittedBins(c, st)
             g == [n \in c.ids |-> f[n] + (IF n = b \/ n = initialBin[s] THEN ShardLoad(c)[s] ELSE 0)]
  <1>1. eval = Evaluate(c, clear, t, maps, {s}) /\ t = TreeOf(c)
    BY DEF TreeOf
  <1>2. /\ IsMove(A, s, b, B) /\ A[s] = initialBin[s] /\ b # initialBin[s]
        /\ initialBin \in [Shards -> Bins]
        /\ committedMoves.next[s] = NoBin /\ Trial(s, b).next[s] = b
    BY TrialIsMove, AfterType DEF IsMove
  <1>3. OnlyLast(maps, s, b)
    BY <1>2 DEF EmptyMovements, OnlyLast
  <1>4. clear.metrics["sum"] = MapClear(st.metrics["sum"])
    BY DEF ClearConstraint, Trees, IsBothCapacity
  <1> HIDE DEF clear, maps
  <1>5. /\ HoldsBins(c, clear, f)
        /\ \A n \in c.ids : MapGetOr(clear.metrics["sum"], <<1, n>>, 0) = f[n]
    BY <1>4, MapClearFacts DEF CoveredState, CommittedBins, ReadBins, HoldsBins
  <1>6. Covers(c, f, committedMoves) /\ f = [n \in c.ids |-> f[n]]
    BY DEF CoveredState, CommittedBins
  <1>7. CountsBoth(c, f, s, b, g) /\ g = [n \in c.ids |-> g[n]]
    BY DEF CountsBoth
  <1> HIDE DEF f, g, t
  <1>8. /\ Covers(c, g, AddMovements(committedMoves, Trial(s, b)))
        /\ \A n \in c.ids : f[n] \in 0 .. IntLimit - 1 /\ g[n] \in 0 .. IntLimit - 1
    BY <1>6, <1>7, TrialCovers
  <1>9. AreInts(c, f) /\ AreInts(c, g)
    BY <1>6, <1>7, <1>8 DEF AreInts
  <1>10. AreValues(BinValues(c, "sum", t, maps, clear.metrics["sum"], {s}), 1, t, OneDomain(f), OneDomain(g))
    BY <1>1, <1>2, <1>3, <1>5, <1>7, <1>9, BothTriedBins
  <1>11. /\ IsMap(eval.state.metrics["sum"])
         /\ CommittedBins(c, eval.state) = f /\ ReadBins(c, eval.state) = g
    BY <1>1, <1>5, <1>9, <1>10, BothEvaluation
  <1> QED BY <1>6, <1>8, <1>11 DEF CoveredState

(* commitMoves makes the values that were read the committed ones. *)
LEMMA CommittedBoth ==
  ASSUME NEW c, IsBothCapacity(c), NEW st, NEW moves,
         IsMap(st.metrics["sum"]), Covers(c, ReadBins(c, st), moves)
  PROVE  CoveredState(c, CommitConstraint(c, st), moves)
  <1>1. CommitConstraint(c, st).metrics["sum"] = MapCommit(st.metrics["sum"])
    BY DEF CommitConstraint, Trees, IsBothCapacity
  <1>2. /\ IsMap(CommitConstraint(c, st).metrics["sum"])
        /\ CommittedBins(c, CommitConstraint(c, st)) = ReadBins(c, st)
    BY <1>1, MapCommitFacts DEF CommittedBins, ReadBins
  <1> QED BY <1>2 DEF CoveredState

--------------------------------------------------------------------------------

(* A constraint that is built measures the assignment tree. *)
LEMMA MeasuredWhenBuilt ==
  ASSUME SearchInv, NEW c, NEW eval, eval = InitializeMetricState(c, EmptyConstraint(c))
  PROVE  Measured(c, CommitConstraint(c, eval.state), EmptyMovements)
  <1>1. initialBin \in [Shards -> Bins] /\ After(EmptyMovements) = initialBin
    BY AfterType
  <1>2. ASSUME IsBalance(c) PROVE BalancedState(c, CommitConstraint(c, eval.state), initialBin)
    BY <1>1, <1>2, BuiltBalance, CommittedBalance
  <1>3. ASSUME IsBothCapacity(c) PROVE CoveredState(c, CommitConstraint(c, eval.state), EmptyMovements)
    BY <1>3, BuiltBoth, CommittedBoth
  <1> QED BY <1>1, <1>2, <1>3 DEF Measured

(* A trial leaves the committed measures alone, and committed it has its own. *)
LEMMA MeasuredWhenTried ==
  ASSUME SearchInv, NEW s \in Shards, NEW b \in Bins, <<s, b>> \in tries,
         NEW c, NEW st, Measured(c, st, committedMoves),
         NEW eval, eval = Evaluate(c, ClearConstraint(c, st), ConstraintTree(c, AssignmentTree),
                                   <<EmptyMovements, committedMoves, Trial(s, b)>>, {s})
  PROVE  /\ Measured(c, eval.state, committedMoves)
         /\ Measured(c, CommitConstraint(c, eval.state), AddMovements(committedMoves, Trial(s, b)))
  <1> DEFINE A == After(committedMoves)
             B == [A EXCEPT ![s] = b]
             m2 == AddMovements(committedMoves, Trial(s, b))
  <1>1. TrialOf(s, b, A, B)
    BY DEF TrialOf
  <1>2. A = After(committedMoves)
    OBVIOUS
  <1> HIDE DEF A, B
  <1>3. After(m2) = B
    BY <1>1, TrialIsMove
  <1>4. ASSUME IsBalance(c)
        PROVE  BalancedState(c, eval.state, A) /\ BalancedState(c, CommitConstraint(c, eval.state), B)
    <2>1. BalancedState(c, st, A)
      BY <1>2, <1>4 DEF Measured
    <2>2. BalancedView(c, eval.state, B) /\ BalancedState(c, eval.state, A)
      BY <1>1, <1>4, <2>1, TriedBalance
    <2> QED BY <1>4, <2>2, CommittedBalance
  <1>5. ASSUME IsBothCapacity(c)
        PROVE  CoveredState(c, eval.state, committedMoves) /\ CoveredState(c, CommitConstraint(c, eval.state), m2)
    <2>1. CoveredState(c, st, committedMoves)
      BY <1>5 DEF Measured
    <2>2. CoveredState(c, eval.state, committedMoves) /\ Covers(c, ReadBins(c, eval.state), m2)
      BY <1>1, <1>5, <2>1, TriedBoth
    <2>3. IsMap(eval.state.metrics["sum"])
      BY <2>2 DEF CoveredState
    <2> HIDE DEF m2
    <2> QED BY <1>5, <2>2, <2>3, CommittedBoth
  <1> QED BY <1>2, <1>3, <1>4, <1>5 DEF Measured

(* What is to be shown for the invariant to hold after a step, in terms of the
   assignment tree before it. *)
LEMMA MeasureInvAfter ==
  ASSUME initialBin' = initialBin,
         built' \in 0 .. Len(ConstraintList),
         pc' = "start" => committedMoves' = EmptyMovements,
         pc' # "start" => built' = Len(ConstraintList),
         \A i \in DOMAIN ConstraintList :
            IF i <= built' THEN Measured(ConstraintList[i], constraints'[i], committedMoves')
            ELSE constraints'[i] = EmptyConstraint(ConstraintList[i])
  PROVE  MeasureInv'
  <1>1. After(committedMoves)' = After(committedMoves')
    BY DEF After
  <1>2. \A i \in DOMAIN ConstraintList :
          BalancedState(ConstraintList[i], constraints'[i], After(committedMoves'))
            => BalancedState(ConstraintList[i], constraints[i], After(committedMoves))'
    BY <1>1, TreeStays DEF BalancedState
  <1>3. \A i \in DOMAIN ConstraintList :
          CoveredState(ConstraintList[i], constraints'[i], committedMoves')
            => CoveredState(ConstraintList[i], constraints[i], committedMoves)'
    BY <1>1 DEF CoveredState, Covers, CommittedBins
  <1>4. \A i \in DOMAIN ConstraintList :
          Measured(ConstraintList[i], constraints'[i], committedMoves')
            => Measured(ConstraintList[i], constraints[i], committedMoves)'
    BY <1>2, <1>3 DEF Measured
  <1> QED BY <1>4 DEF MeasureInv

(* No constraint is built at first. *)
LEMMA MeasureInvInit == Init => MeasureInv
  <1> SUFFICES ASSUME Init PROVE MeasureInv
    OBVIOUS
  <1>1. /\ built = 0 /\ pc = "start" /\ committedMoves = EmptyMovements
        /\ constraints = [i \in DOMAIN ConstraintList |-> EmptyConstraint(ConstraintList[i])]
    BY DEF Init, SearchInit
  <1>2. \A i \in DOMAIN ConstraintList : ~(i <= 0)
    BY ConstraintListAssumption
  <1> QED BY <1>1, <1>2, ConstraintListAssumption DEF MeasureInv

(* The constructor of a constraint. *)
LEMMA ConstructMeasures ==
  ASSUME SearchInv, CleanInv, MeasureInv, ConstructConstraint
  PROVE  MeasureInv'
  <1> DEFINE k == built
             c == ConstraintList[k + 1]
             eval == InitializeMetricState(c, constraints[k + 1])
  <1>1. /\ pc = "start" /\ k < Len(ConstraintList) /\ k \in Nat /\ built' = k + 1
        /\ constraints' = [constraints EXCEPT ![k + 1] = CommitConstraint(c, eval.state)]
        /\ UNCHANGED <<initialBin, pc, committedMoves>>
        /\ committedMoves = EmptyMovements
    BY ConstraintListAssumption DEF ConstructConstraint, searchVars, MeasureInv
  <1>2. /\ k + 1 \in DOMAIN ConstraintList /\ built' \in 0 .. Len(ConstraintList)
        /\ constraints[k + 1] = EmptyConstraint(c)
    <2>1. k + 1 \in DOMAIN ConstraintList /\ built' \in 0 .. Len(ConstraintList)
      BY <1>1, ConstraintListAssumption
    <2>2. ~(k + 1 <= built)
      BY <1>1
    <2> QED BY <2>1, <2>2 DEF MeasureInv
  <1>3. eval = InitializeMetricState(c, EmptyConstraint(c))
    BY <1>2
  <1>4. \A i \in DOMAIN ConstraintList : i \in Nat
    BY ConstraintListAssumption
  <1>5. Measured(c, CommitConstraint(c, eval.state), committedMoves')
    <2> HIDE DEF c, eval
    <2>1. Measured(c, CommitConstraint(c, eval.state), EmptyMovements)
      BY <1>3, MeasuredWhenBuilt
    <2> QED BY <1>1, <2>1
  <1>6. ASSUME NEW i \in DOMAIN ConstraintList
        PROVE  IF i <= built' THEN Measured(ConstraintList[i], constraints'[i], committedMoves')
               ELSE constraints'[i] = EmptyConstraint(ConstraintList[i])
    <2>0. DOMAIN constraints = DOMAIN ConstraintList /\ i \in Nat
      BY <1>4 DEF CleanInv
    <2>1. CASE i = k + 1
      <3>1. constraints'[i] = CommitConstraint(c, eval.state) /\ i <= built'
        BY <1>1, <2>0, <2>1
      <3> QED BY <1>5, <2>1, <3>1
    <2>2. CASE i # k + 1
      <3>1. constraints'[i] = constraints[i] /\ (i <= built' <=> i <= built)
        BY <1>1, <2>0, <2>2
      <3> QED BY <1>1, <3>1 DEF MeasureInv
    <2> QED BY <2>1, <2>2
  <1>7. pc' = "start" /\ committedMoves' = EmptyMovements /\ initialBin' = initialBin
    BY <1>1
  <1> HIDE DEF k, c, eval
  <1> QED BY <1>2, <1>6, <1>7, MeasureInvAfter

(* A step that evaluates nothing; solve may start when every constraint is built. *)
LEMMA QuietMeasures ==
  ASSUME MeasureInv, UNCHANGED <<initialBin, committedMoves, built, constraints>>,
         pc' = "start" => pc = "start",
         pc' # "start" => pc # "start" \/ built = Len(ConstraintList)
  PROVE  MeasureInv'
  <1>1. \A i \in DOMAIN ConstraintList :
            IF i <= built' THEN Measured(ConstraintList[i], constraints'[i], committedMoves')
            ELSE constraints'[i] = EmptyConstraint(ConstraintList[i])
    BY DEF MeasureInv
  <1>2. /\ built' \in 0 .. Len(ConstraintList)
        /\ pc' = "start" => committedMoves' = EmptyMovements
        /\ pc' # "start" => built' = Len(ConstraintList)
    BY DEF MeasureInv
  <1> QED BY <1>1, <1>2, MeasureInvAfter

(* Every constraint's evaluation of a trial, whatever was tried before it. *)
LEMMA TrialMeasures ==
  ASSUME SearchInv, MeasureInv, pc # "start", NEW s \in Shards, NEW b \in Bins, <<s, b>> \in tries,
         NEW i \in DOMAIN ConstraintList
  PROVE  /\ Measured(ConstraintList[i], Evaluations(s, b)[i].state, committedMoves)
         /\ Measured(ConstraintList[i], CommitConstraint(ConstraintList[i], Evaluations(s, b)[i].state),
                     AddMovements(committedMoves, Trial(s, b)))
         /\ i <= Len(ConstraintList)
  <1> DEFINE c == ConstraintList[i]
             st == constraints[i]
             eval == Evaluations(s, b)[i]
  <1>1. i <= Len(ConstraintList)
    BY ConstraintListAssumption
  <1>2. Measured(c, st, committedMoves)
    BY <1>1 DEF MeasureInv
  <1>3. eval = Evaluate(c, ClearConstraint(c, st), ConstraintTree(c, AssignmentTree),
                        <<EmptyMovements, committedMoves, Trial(s, b)>>, {s})
    BY DEF Evaluations, MovementMapsOf
  <1> HIDE DEF c, st, eval
  <1>4. /\ Measured(c, eval.state, committedMoves)
        /\ Measured(c, CommitConstraint(c, eval.state), AddMovements(committedMoves, Trial(s, b)))
    BY <1>2, <1>3, MeasuredWhenTried
  <1> QED BY <1>1, <1>4 DEF c, eval

(* A rejected trial leaves the committed values alone. *)
LEMMA RejectMeasures ==
  ASSUME SearchInv, MeasureInv, NEW s \in Shards, NEW b \in Bins, Reject(s, b)
  PROVE  MeasureInv'
  <1> DEFINE evals == Evaluations(s, b)
  <1>1. /\ pc = "try" /\ <<s, b>> \in tries
        /\ UNCHANGED <<initialBin, pc, committedMoves, built>>
        /\ constraints' = [i \in DOMAIN evals |-> evals[i].state]
        /\ DOMAIN evals = DOMAIN ConstraintList
    BY DEF Reject, RejectMove, Evaluations
  <1>2. pc # "start" /\ built = Len(ConstraintList) /\ built \in 0 .. Len(ConstraintList)
    BY <1>1 DEF MeasureInv
  <1>3. \A i \in DOMAIN ConstraintList : /\ Measured(ConstraintList[i], evals[i].state, committedMoves)
                                         /\ i <= Len(ConstraintList)
    BY <1>1, <1>2, TrialMeasures
  <1> HIDE DEF evals
  <1>4. \A i \in DOMAIN ConstraintList :
            IF i <= built' THEN Measured(ConstraintList[i], constraints'[i], committedMoves')
            ELSE constraints'[i] = EmptyConstraint(ConstraintList[i])
    BY <1>1, <1>2, <1>3
  <1> QED BY <1>1, <1>2, <1>4, MeasureInvAfter

(* An accepted trial makes its values the committed ones. *)
LEMMA AcceptMeasures ==
  ASSUME SearchInv, MeasureInv, NEW s \in Shards, NEW b \in Bins, Accept(s, b)
  PROVE  MeasureInv'
  <1> DEFINE evals == Evaluations(s, b)
             m2 == AddMovements(committedMoves, Trial(s, b))
  <1>1. /\ pc = "try" /\ pc' = "iterate" /\ <<s, b>> \in tries
        /\ committedMoves' = m2
        /\ UNCHANGED <<initialBin, built>>
        /\ constraints' = [i \in DOMAIN evals |-> CommitConstraint(ConstraintList[i], evals[i].state)]
        /\ DOMAIN evals = DOMAIN ConstraintList
    BY DEF Accept, AcceptMove, Evaluations
  <1>2. pc # "start" /\ built = Len(ConstraintList) /\ built \in 0 .. Len(ConstraintList)
    BY <1>1 DEF MeasureInv
  <1>3. \A i \in DOMAIN ConstraintList :
           /\ Measured(ConstraintList[i], CommitConstraint(ConstraintList[i], evals[i].state), m2)
           /\ i <= Len(ConstraintList)
    BY <1>1, <1>2, TrialMeasures
  <1> HIDE DEF evals, m2
  <1>4. \A i \in DOMAIN ConstraintList :
            IF i <= built' THEN Measured(ConstraintList[i], constraints'[i], committedMoves')
            ELSE constraints'[i] = EmptyConstraint(ConstraintList[i])
    BY <1>1, <1>2, <1>3
  <1>5. pc' # "start" /\ built' = Len(ConstraintList) /\ built' \in 0 .. Len(ConstraintList)
    BY <1>1, <1>2
  <1> QED BY <1>1, <1>4, <1>5, MeasureInvAfter

(* Every step of the placer keeps the measures in step with the committed moves. *)
LEMMA MeasureInvStep ==
  ASSUME SearchInv, CleanInv, MeasureInv, [Next]_vars
  PROVE  MeasureInv'
  <1>1. CASE ConstructConstraint
    BY <1>1, ConstructMeasures
  <1>2. CASE Solve
    <2>1. /\ UNCHANGED <<initialBin, committedMoves, built, constraints>>
          /\ pc' # "start" /\ built = Len(ConstraintList)
      BY <1>2 DEF Solve, SolveStart
    <2> QED BY <2>1, QuietMeasures
  <1>3. CASE OrderBins \/ Walk
    <2>1. /\ UNCHANGED <<initialBin, committedMoves, built, constraints>>
          /\ pc # "start" /\ pc' # "start"
      BY <1>3 DEF OrderBins, StartIteration, Walk, IterationsExhausted, SkipBin, EnterBin, NoMoveFound,
                  PickShard, GiveUpBin, TriesExhausted
    <2> QED BY <2>1, QuietMeasures
  <1>4. CASE \E s \in Shards, b \in Bins : Reject(s, b)
    BY <1>4, RejectMeasures
  <1>5. CASE \E s \in Shards, b \in Bins : Accept(s, b)
    BY <1>5, AcceptMeasures
  <1>6. CASE Finished \/ UNCHANGED vars
    <2>1. UNCHANGED <<initialBin, pc, committedMoves, built, constraints>>
      BY <1>6 DEF Finished, vars, searchVars
    <2> QED BY <2>1, QuietMeasures
  <1> QED BY <1>1, <1>2, <1>3, <1>4, <1>5, <1>6 DEF Next

(* The invariant of the measures, with the one it rests on. *)
LEMMA MeasureInvariant == Spec => [](SearchInv /\ MeasureInv)
  <1> DEFINE Inv == SearchInv /\ CleanInv /\ MeasureInv
  <1>1. Init => Inv
    <2>1. Init => SearchInv
      BY SearchInvInit DEF Init
    <2> QED BY <2>1, CleanInvInit, MeasureInvInit
  <1>2. Inv /\ [Next]_vars => Inv'
    BY MeasureInvStep, CleanInvStep, SearchInvStep, PlacerStepIsSearchStep
  <1> QED BY <1>1, <1>2, PTL DEF Spec

(* A capacity whose consistency is BOTH makes room for the moves themselves: as long as
   no bin's values leave the range of an int, the metric that is committed for a bin is
   at least the bin's load before the moves and at least its load after them. *)
THEOREM PlacerBothCovers ==
  ASSUME BothFits
  PROVE  Spec => []BothCoversBeforeAndAfter
  <1>1. SearchInv /\ MeasureInv => BothCoversBeforeAndAfter
    <2> SUFFICES ASSUME MeasureInv, pc # "start", NEW i \in DOMAIN ConstraintList,
                        ConstraintList[i].kind = "capacity", ConstraintList[i].consistency = "BOTH",
                        ConstraintList[i].domain = 1, NEW b \in ConstraintList[i].ids
                 PROVE  LET v == MapCommittedOr(constraints[i].metrics["sum"], <<1, b>>, 0)
                        IN  /\ v >= Load(ConstraintList[i], initialBin, 1, b)
                            /\ v >= Load(ConstraintList[i], After(committedMoves), 1, b)
      BY DEF BothCoversBeforeAndAfter
    <2>1. IsBothCapacity(ConstraintList[i])
      BY DEF BothFits
    <2>2. i <= built
      BY ConstraintListAssumption DEF MeasureInv
    <2>3. Covers(ConstraintList[i], CommittedBins(ConstraintList[i], constraints[i]), committedMoves)
      BY <2>1, <2>2 DEF MeasureInv, Measured, CoveredState
    <2> QED BY <2>3 DEF Covers, CommittedBins
  <1> QED BY <1>1, MeasureInvariant, PTL

\* The values that BalanceMetricsExact reads for the children of a node.
KnownBelow(c, V, d, n) ==
    LET children == IF d > c.domain THEN c.ids
                    ELSE {k \in DOMAIN UpperTree[d - 1] : UpperTree[d - 1][k] = n}
    IN  ({d - 1} \X children) \cap DOMAIN V

ValuesBelow(c, V, d, n) == {V[k] : k \in KnownBelow(c, V, d, n)}

(* The partial tree of a load-balancing constraint has all the children of its nodes. *)
LEMMA BalanceChildren ==
  ASSUME NEW c, IsBalance(c), NEW t, t = TreeOf(c), NEW V,
         NEW d \in 2 .. Height(t), NEW n \in t.nodes[d]
  PROVE  ValuesBelow(c, V, d, n) = KnownValues(t, V, d, n)
  <1> DEFINE children == IF d > c.domain THEN c.ids
                         ELSE {k \in DOMAIN UpperTree[d - 1] : UpperTree[d - 1][k] = n}
  <1>1. /\ Height(t) = c.domain + 1 /\ c.domain \in Nat \ {0}
        /\ t.nodes[c.domain] = c.ids /\ t.nodes[c.domain + 1] = {0}
        /\ \A x \in c.ids : t.up[c.domain][x] = 0
        /\ \A x \in 1 .. c.domain - 1 :
               /\ t.nodes[x] = {y \in DomainIds(x) : UpperTree[x][y] \in t.nodes[x + 1]}
               /\ \A y \in t.nodes[x] : t.up[x][y] = UpperTree[x][y]
    BY BalanceTree
  <1>2. Kids(t, d, n) = children
    <2>1. CASE d > c.domain
      <3>1. d = c.domain + 1 /\ d - 1 = c.domain
        BY <1>1, <2>1
      <3>2. n = 0
        BY <1>1, <3>1
      <3> QED BY <1>1, <2>1, <3>1, <3>2 DEF Kids
    <2>2. CASE ~(d > c.domain)
      <3> DEFINE x == d - 1
      <3>1. x \in 1 .. c.domain - 1 /\ x + 1 = d
        BY <1>1, <2>2
      <3>2. x \in 1 .. Len(UpperTree)
        BY <1>1, <3>1, UpperTreeAssumption DEF IsBalance, FitsInt
      <3>3. DOMAIN UpperTree[x] = DomainIds(x)
        BY <3>2, UpperTreeAssumption
      <3> HIDE DEF x
      <3>4. /\ t.nodes[x] = {y \in DomainIds(x) : UpperTree[x][y] \in t.nodes[d]}
            /\ \A y \in t.nodes[x] : t.up[x][y] = UpperTree[x][y]
        BY <1>1, <3>1
      <3>5. {y \in t.nodes[x] : t.up[x][y] = n} = {y \in DOMAIN UpperTree[x] : UpperTree[x][y] = n}
        BY <3>3, <3>4
      <3> QED BY <2>2, <3>5 DEF Kids, x
    <2> QED BY <2>1, <2>2
  <1>3. KnownBelow(c, V, d, n) = ({d - 1} \X children) \cap DOMAIN V
    BY DEF KnownBelow
  <1> HIDE DEF children
  <1>4. ASSUME NEW v \in ValuesBelow(c, V, d, n) PROVE v \in KnownValues(t, V, d, n)
    <2>1. PICK k \in children : <<d - 1, k>> \in DOMAIN V /\ v = V[<<d - 1, k>>]
      BY <1>3 DEF ValuesBelow
    <2> QED BY <1>2, <2>1 DEF KnownValues, KnownKids
  <1>5. ASSUME NEW v \in KnownValues(t, V, d, n) PROVE v \in ValuesBelow(c, V, d, n)
    <2>1. PICK k \in children : <<d - 1, k>> \in DOMAIN V /\ v = V[<<d - 1, k>>]
      BY <1>2 DEF KnownValues, KnownKids
    <2>2. <<d - 1, k>> \in KnownBelow(c, V, d, n)
      BY <1>3, <2>1
    <2> QED BY <2>1, <2>2 DEF ValuesBelow
  <1> QED BY <1>4, <1>5

(* The values that the load-balancing trees keep are those of the committed arrangement,
   whatever was tried in between: the load of every bin, and above the bins the least
   or the greatest value of the children, which a move may raise as well as lower. *)
THEOREM PlacerBalanceIsExact ==
  ASSUME BalanceFits
  PROVE  Spec => []BalanceMetricsExact
  <1>1. SearchInv /\ MeasureInv => BalanceMetricsExact
    <2> SUFFICES ASSUME MeasureInv, pc # "start", NEW i \in DOMAIN ConstraintList,
                        ConstraintList[i].kind = "balance", NEW e \in {"min", "max"},
                        NEW node \in DOMAIN constraints[i].metrics[e].committed
                 PROVE  LET c == ConstraintList[i]
                            value == constraints[i].metrics[e].committed
                        IN  value[node] = IF node[1] = 1 THEN Load(c, After(committedMoves), 1, node[2])
                                          ELSE Extremum(e, ValuesBelow(c, value, node[1], node[2]))
      BY DEF BalanceMetricsExact, Extremum, ValuesBelow, KnownBelow
    <2> DEFINE c == ConstraintList[i]
               V == constraints[i].metrics[e].committed
               t == TreeOf(c)
    <2>1. IsBalance(c)
      BY DEF BalanceFits
    <2>2. i <= built
      BY ConstraintListAssumption DEF MeasureInv
    <2>3. Balanced(c, t, e, V, After(committedMoves))
      BY <2>1, <2>2 DEF MeasureInv, Measured, BalancedState
    <2>4. node \in DOMAIN V
      OBVIOUS
    <2>5. Height(t) \in Nat /\ t = TreeOf(c)
      BY <2>1, BalanceTree
    <2> HIDE DEF c, V, t
    <2>6. PICK d \in 1 .. Height(t) : \E n \in t.nodes[d] : node = <<d, n>>
      BY <2>3, <2>4 DEF Balanced, OnTree
    <2>7. PICK n \in t.nodes[d] : node = <<d, n>>
      BY <2>6
    <2>8. node[1] = d /\ node[2] = n
      BY <2>7
    <2>9. ASSUME d = 1 PROVE V[node] = Load(c, After(committedMoves), 1, n)
      BY <2>3, <2>4, <2>7, <2>9 DEF Balanced, AreBinLoads
    <2>10. ASSUME d # 1 PROVE V[node] = Extremum(e, ValuesBelow(c, V, d, n))
      <3>1. d \in 2 .. Height(t)
        BY <2>5, <2>10
      <3>2. V[node] = Extremum(e, KnownValues(t, V, d, n))
        BY <2>3, <2>4, <2>7, <3>1 DEF Balanced, IsExtremum
      <3>3. ValuesBelow(c, V, d, n) = KnownValues(t, V, d, n)
        BY <2>1, <2>5, <3>1, BalanceChildren
      <3> QED BY <3>2, <3>3
    <2> QED BY <2>8, <2>9, <2>10 DEF c, V
  <1> QED BY <1>1, MeasureInvariant, PTL

================================================================================
