--------------------------------- MODULE Placer ---------------------------------
(***************************************************************************)
(* The placer as a whole: a SolvingState with its assignment tree and       *)
(* weights, the constraints built on it one after the other, and            *)
(* IterativeLocalSearch::solve, whose every trial is evaluated by the       *)
(* constraints' expression trees.  The control is that of LocalSearch; here *)
(* its weights and its bin order are the ones the code computes.            *)
(*                                                                          *)
(* SolvingState::movementMap_ is taken to be an allocated, empty map: the    *)
(* code never assigns it, and a null pointer would end every run at the     *)
(* first shard that a constraint's constructor looks up.                    *)
(***************************************************************************)
EXTENDS LocalSearch, Constraints

CONSTANTS
    UpperTree,   \* domainMapping above the bins: UpperTree[d] takes an id of
                 \* domain d to its parent in domain d + 1
    ConstraintList  \* the constraints, in the order they are built and passed

ASSUME ConstraintListAssumption == /\ Len(ConstraintList) \in Nat
                                   /\ DOMAIN ConstraintList = 1 .. Len(ConstraintList)

VARIABLES
    built,        \* how many constraints are built
    constraints,  \* the state of every constraint
    weights       \* binWeightInfo_

vars == <<searchVars, built, constraints, weights>>

kDefaultBin == 0

\* The ids of a domain above the shards: the bins, then the parents of the domain below.
DomainIds(d) == IF d = 1 THEN Bins ELSE {UpperTree[d - 1][n] : n \in DOMAIN UpperTree[d - 1]}

\* Every id has one parent, up to the top domain.
ASSUME UpperTreeAssumption ==
    /\ Len(UpperTree) \in Nat
    /\ \A d \in 1 .. Len(UpperTree) : UpperTree[d] \in [DomainIds(d) -> DomainIds(d + 1)]

\* assignmentTree_, as SolvingState's constructor fills it.
AssignmentTree ==
    [nodes |-> [d \in 1 .. Len(UpperTree) + 1 |-> DomainIds(d)],
     up    |-> UpperTree,
     binOf |-> initialBin]

\* The state's movementMap_ and the search's two maps, in the code's order.
MovementMapsOf(canaried) == <<EmptyMovements, committedMoves, canaried>>

\* What the constraints compute for a trial of s to b, in the order of
\* updateWeights; the weights are cleared first.
Evaluations(s, b) ==
    [i \in DOMAIN ConstraintList |->
        LET c == ConstraintList[i]
        IN  Evaluate(c, ClearConstraint(c, constraints[i]), ConstraintTree(c, AssignmentTree),
                     MovementMapsOf(Trial(s, b)), {s})]

\* What a constraint computes when it is built: every shard of its tree is new.
InitializeMetricState(c, st) ==
    LET t == ConstraintTree(c, AssignmentTree)
    IN  Evaluate(c, st, t, <<EmptyMovements>>, AllShards(t))

TrialWeights(evals) == AddWeights(ClearWeights(weights), evals)

\* std::greater on the pairs (weight, bin): binWeights keeps int32_t weights.
Hotter(a, b) == LET weight(bin) == ToInt(MapGetOr(weights.bin, bin, 0))
                IN  weight(a) > weight(b) \/ (weight(a) = weight(b) /\ a > b)

HottestFirst(q) == \A i, j \in DOMAIN q : i < j => Hotter(q[i], q[j])

--------------------------------------------------------------------------------

Init == /\ SearchInit
        /\ built = 0
        /\ constraints = [i \in DOMAIN ConstraintList |-> EmptyConstraint(ConstraintList[i])]
        /\ weights = EmptyWeights

\* The constructor of the next constraint: its metrics are initialized from
\* every shard of its partial tree, its weights added, everything committed.
ConstructConstraint ==
    /\ pc = "start"
    /\ built < Len(ConstraintList)
    /\ LET i    == built + 1
           c    == ConstraintList[i]
           eval == InitializeMetricState(c, constraints[i])
       IN  /\ built' = i
           /\ constraints' = [constraints EXCEPT ![i] = CommitConstraint(c, eval.state)]
           /\ weights' = CommitWeights(AddWeights(weights, <<eval>>))
    /\ UNCHANGED searchVars

Solve == /\ built = Len(ConstraintList)
         /\ SolveStart(KeyGetOr(weights.total, 0))
         /\ UNCHANGED <<built, constraints, weights>>

OrderBins == /\ \E q \in BinOrders : HottestFirst(q) /\ StartIteration(q)
             /\ UNCHANGED <<built, constraints, weights>>

\* The steps of the search that touch no weight.
Walk == /\ \/ IterationsExhausted
           \/ SkipBin
           \/ EnterBin
           \/ NoMoveFound
           \/ \E s \in Shards, B \in SUBSET Bins : PickShard(s, B)
           \/ GiveUpBin
           \/ TriesExhausted
        /\ UNCHANGED <<built, constraints, weights>>

\* A trial that is not better leaves its values in every canary layer.
Reject(s, b) ==
    LET evals == Evaluations(s, b)
        new   == TrialWeights(evals)
    IN  /\ RejectMove(s, b, KeyGetOr(new.total, 0))
        /\ constraints' = [i \in DOMAIN evals |-> evals[i].state]
        /\ weights' = new
        /\ UNCHANGED built

\* A better trial is committed in every constraint and in the weights.
Accept(s, b) ==
    LET evals == Evaluations(s, b)
        new   == TrialWeights(evals)
    IN  /\ AcceptMove(s, b, KeyGetOr(new.total, 0))
        /\ constraints' = [i \in DOMAIN evals |-> CommitConstraint(ConstraintList[i], evals[i].state)]
        /\ weights' = CommitWeights(new)
        /\ UNCHANGED built

Finished == pc = "done" /\ UNCHANGED vars

Next == \/ ConstructConstraint
        \/ Solve
        \/ OrderBins
        \/ Walk
        \/ \E s \in Shards, b \in Bins : Reject(s, b)
        \/ \E s \in Shards, b \in Bins : Accept(s, b)
        \/ Finished

\* That solve returns is a property of the control alone: LocalSearch.
Spec == Init /\ [][Next]_vars

--------------------------------------------------------------------------------
(* What the weights are meant to be: the cost of an arrangement, computed
   afresh from the bins of the shards, without trees and without int32_t. *)

\* The arrangement that a movement map leads to.
After(m) == [s \in Shards |-> IF m.next[s] = NoBin THEN initialBin[s] ELSE m.next[s]]

\* The node of the domain that a bin belongs to.
NodeOf(bin, domain) ==
    LET up[d \in 1 .. Len(UpperTree) + 1] == IF d = 1 THEN bin ELSE UpperTree[d - 1][up[d - 1]]
    IN  up[domain]

\* What every shard counts for the constraint.
ShardLoad(c) == [s \in Shards |-> IF c.kind = "drain" THEN 1 ELSE ShardMetric[c.metric][s]]

Load(c, arrangement, domain, n) ==
    SumFunctionOnSet(ShardLoad(c), {s \in Shards : NodeOf(arrangement[s], domain) = n})

NodeCost(c, arrangement, n) ==
    LET excess(x) == IF x > c.limit THEN (x - c.limit) * c.faultWeight ELSE 0
        bins(ids) == {b \in Bins : NodeOf(b, c.domain) \in ids}
        loads(ids) == {Load(c, arrangement, 1, b) : b \in bins(ids)}
    IN  CASE c.kind = "capacity" -> excess(Load(c, arrangement, c.domain, n))
          [] c.kind = "drain"    -> Load(c, arrangement, c.domain, n) * c.faultWeight
          [] c.kind = "balance"  -> excess(Max(loads({n})) - Min(loads(c.ids)))

BinCost(arrangement, bin) ==
    LET costing == {i \in DOMAIN ConstraintList : /\ ConstraintList[i].domain = 1
                                                  /\ bin \in ConstraintList[i].ids}
    IN  SumFunction([i \in costing |-> NodeCost(ConstraintList[i], arrangement, bin)])

ConstraintCost(c, arrangement) == SumFunction([n \in c.ids |-> NodeCost(c, arrangement, n)])

Cost(arrangement) ==
    SumFunction([i \in DOMAIN ConstraintList |-> ConstraintCost(ConstraintList[i], arrangement)])

\* The loads of a constraint's nodes, taken so many times, stay in the range of an int.
FitsInt(c, times) ==
    /\ c.domain \in 1 .. Len(UpperTree) + 1
    /\ c.ids \subseteq DomainIds(c.domain)
    /\ \A s \in Shards : ShardLoad(c)[s] \in Nat
    /\ times * SumFunction(ShardLoad(c)) < IntLimit

\* The constraints whose weights are meant to be exact: they are about the
\* arrangement after the moves, a capacity is about the metric that sumOperator
\* reads, a drain about bins, and neither the loads nor the capacity faults
\* leave the range of an int.
IsExact(c) ==
    /\ c.consistency = "AFTER"
    /\ FitsInt(c, 1)
    /\ c.faultWeight \in Nat
    /\ \/ /\ c.kind = "drain"
          /\ c.domain = 1
       \/ /\ c.kind = "capacity"
          /\ c.metric = 0
          /\ c.limit \in Nat
          /\ SumFunction(ShardLoad(c)) * c.faultWeight < IntLimit

ExactList == \A i \in DOMAIN ConstraintList : IsExact(ConstraintList[i])

IsBalance(c) == c.kind = "balance" /\ FitsInt(c, 1)

\* A BOTH capacity of bins counts a shard that moves in two of them; sumOperator
\* reads metric 0.
IsBothCapacity(c) == /\ c.kind = "capacity" /\ c.consistency = "BOTH" /\ c.domain = 1
                     /\ c.metric = 0
                     /\ FitsInt(c, 2)

\* The constraints that BothCoversBeforeAndAfter and BalanceMetricsExact are about
\* are of these kinds; the others may be any.
BothFits == \A i \in DOMAIN ConstraintList :
    LET c == ConstraintList[i]
    IN  c.kind = "capacity" /\ c.consistency = "BOTH" /\ c.domain = 1 => IsBothCapacity(c)

BalanceFits == \A i \in DOMAIN ConstraintList :
    ConstraintList[i].kind = "balance" => IsBalance(ConstraintList[i])

\* The default bin is drained, on its own, at a weight that the other constraints
\* together never exceed.
DrainOutweighs ==
    \E i \in DOMAIN ConstraintList :
        LET c == ConstraintList[i]
        IN  /\ c.kind = "drain" /\ c.ids = {kDefaultBin}
            /\ \A arrangement \in [Shards -> Bins] :
                  Cost(arrangement) - ConstraintCost(c, arrangement) <= c.faultWeight

--------------------------------------------------------------------------------

(* The weights the constraints keep incrementally, one delta per committed
   move, equal the cost of the committed arrangement computed afresh, in total
   and for every bin, and the search's own copy of the total is in step. *)
CommittedWeightsExact ==
    pc # "start" =>
        /\ currentWeight = Cost(After(committedMoves))
        /\ KeyGetOr(KeyClear(weights.total), 0) = currentWeight
        /\ \A b \in Bins : MapCommittedOr(weights.bin, b, 0) = BinCost(After(committedMoves), b)

(* A trial is judged on its own: the weight it was evaluated to is the cost of
   the arrangement it would lead to, whatever was tried before it. *)
TrialWeightExact ==
    pc \in {"pick", "try"} /\ MovedShards(canariedMoves) # {} =>
        KeyGetOr(weights.total, 0) = Cost(After(AddMovements(committedMoves, canariedMoves)))

(* Nothing of a rejected trial survives into the next iteration, whose bin
   order is read through the canary layer. *)
IterationsStartClean ==
    pc = "iterate" => /\ weights = CommitWeights(ClearWeights(weights))
                      /\ \A i \in DOMAIN ConstraintList :
                            constraints[i] = ClearConstraint(ConstraintList[i], constraints[i])

(* When solve stops for want of a move, a shard that is the only one of its bin
   still unmoved has no better bin (all its targets were tried). *)
LoneShardsAreOptimal ==
    pc = "done" /\ iter < MaxIterations =>
        \A s \in Shards : ShardsInBin(initialBin[s]) = {s} =>
            \A b \in Bins : Cost([After(committedMoves) EXCEPT ![s] = b]) >= Cost(After(committedMoves))

(* README.md:4, one direction: a trial that would make the arrangement better
   is not turned down. *)
BetterMovesAreTaken ==
    pc \in {"pick", "try"} /\ MovedShards(canariedMoves) # {} =>
        Cost(After(AddMovements(committedMoves, canariedMoves))) >= Cost(After(committedMoves))

(* README.md:4, the other direction: the moves that solve has committed make
   the arrangement better than the one it started from. *)
BetterThanInitial ==
    MovedShards(committedMoves) # {} => Cost(After(committedMoves)) < Cost(initialBin)

(* README.md:3: the unassigned shards come first, so no other bin is being
   tried while the default bin, with shards left to move, waits behind it. *)
UnassignedFirst ==
    pc \in {"pick", "try"} /\ ShardsInBin(kDefaultBin) # {} =>
        \A i \in 2 .. Len(binQueue) : binQueue[i] # kDefaultBin

(* The placer implements HillClimb on the arrangement of the committed moves
   and the cost computed afresh. *)
Abstract == INSTANCE HillClimb WITH Score <- Cost,
                                    arrangement <- After(committedMoves),
                                    moved <- MovedShards(committedMoves)
ClimbsHill == Abstract!Spec

(* With the default bin drained at a weight above every capacity fault, a
   shard that has a bin is never sent back to the unassigned ones. *)
UnassignedOnlyShrinks ==
    [][\A s \in Shards : After(committedMoves)'[s] = kDefaultBin
                            => After(committedMoves)[s] = kDefaultBin]_vars

(* A BOTH capacity constraint covers the move itself: a bin's committed metric
   is at least its load before the moves and at least its load after them. *)
BothCoversBeforeAndAfter ==
    pc # "start" =>
        \A i \in DOMAIN ConstraintList :
            LET c == ConstraintList[i]
                value(b) == MapCommittedOr(constraints[i].metrics["sum"], <<1, b>>, 0)
            IN  c.kind = "capacity" /\ c.consistency = "BOTH" /\ c.domain = 1 =>
                    \A b \in c.ids : /\ value(b) >= Load(c, initialBin, 1, b)
                                     /\ value(b) >= Load(c, After(committedMoves), 1, b)

(* The values of the load-balancing trees are those of the committed
   arrangement: every bin's load, and above the bins the extremum of the
   children that have a value. *)
BalanceMetricsExact ==
    pc # "start" =>
        \A i \in {i \in DOMAIN ConstraintList : ConstraintList[i].kind = "balance"} :
        \A e \in {"min", "max"} :
            LET c == ConstraintList[i]
                value == constraints[i].metrics[e].committed
                Extremum(S) == IF e = "min" THEN Min(S) ELSE Max(S)
                children(d, n) == IF d > c.domain THEN c.ids
                                  ELSE {k \in DOMAIN UpperTree[d - 1] : UpperTree[d - 1][k] = n}
                known(d, n) == ({d - 1} \X children(d, n)) \cap DOMAIN value
            IN  \A node \in DOMAIN value :
                    value[node] = IF node[1] = 1 THEN Load(c, After(committedMoves), 1, node[2])
                                  ELSE Extremum({value[k] : k \in known(node[1], node[2])})

================================================================================
