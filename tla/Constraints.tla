------------------------------ MODULE Constraints ------------------------------
(***************************************************************************)
(* The placer's constraints (psychopomp/placer/constraints): how each kind  *)
(* evaluates a set of moves incrementally and what it adds to the weights.  *)
(* A constraint (see ConstraintUtils) has the state [metrics: one           *)
(* MetricsMap per expression tree, faults: domainFaultMap_].                *)
(***************************************************************************)
EXTENDS ExpressionTree

\* The expression trees a constraint keeps.
Trees(c) == IF c.kind = "balance" THEN {"min", "max"} ELSE {"sum"}

EmptyConstraint(c) == [metrics |-> [e \in Trees(c) |-> EmptyMap], faults |-> EmptyMap]

\* The constructor's partial tree; load balancing puts a root over its nodes.
ConstraintTree(c, tree) ==
    LET partial == CreatePartialTree(tree, c.domain, c.ids)
    IN  IF c.kind = "balance" THEN AddRoot(partial, 0) ELSE partial

\* A capacity fault is kept in an int.
CapacityFault(c, value) == IF value > c.limit THEN ToInt((value - c.limit) * c.faultWeight) ELSE 0

DrainFault(c, value) == value * c.faultWeight

\* What canaryMoves does before it propagates.
ClearConstraint(c, st) == [metrics |-> [e \in Trees(c) |-> MapClear(st.metrics[e])],
                           faults  |-> MapClear(st.faults)]

\* commitMoves
CommitConstraint(c, st) == [metrics |-> [e \in Trees(c) |-> MapCommit(st.metrics[e])],
                            faults  |-> MapCommit(st.faults)]

\* What an evaluation yields: the constraint's new state and its weight deltas,
\* for addBinWeight if toBins, else for addTotalWeight alone.
Evaluation(metrics, faults, toBins, deltas) ==
    [state |-> [metrics |-> metrics, faults |-> faults], toBins |-> toBins, deltas |-> deltas]

\* updateWeightIfPossible for every node of the constraint that was calculated.
UpdateWeightIfPossible(c, metrics, faults, values) ==
    LET new == [n \in DOMAIN values |-> IF c.kind = "capacity" THEN CapacityFault(c, values[n])
                                        ELSE DrainFault(c, values[n])]
        delta(n) == new[n] - MapGetOr(faults, n, 0)
    IN  Evaluation(metrics, MapSetCanary(faults, new), c.domain = 1,
                   [n \in {n \in DOMAIN values : delta(n) # 0} |-> delta(n)])

\* LoadBalancingConstraint::updateWeights: domainFaultMap_ is read but never set.
UpdateWeights(c, metrics, faults, root, updated) ==
    LET minimum   == MapGetOr(metrics["min"], root, 0)
        spread(n) == Magnitude(MapGetOr(metrics["max"], <<c.domain, n>>, 0) - minimum)
        weight(n) == IF spread(n) >= c.limit THEN (spread(n) - c.limit) * c.faultWeight ELSE 0
    IN  Evaluation(metrics, faults, TRUE,
                   [n \in updated |-> weight(n) - MapGetOr(faults, n, 0)])

\* The weights that follow from the levels of the constraint's trees over t.
Weigh(c, st, t, level) ==
    LET metrics == [e \in Trees(c) |-> level[e][Height(t)].metrics]
        updated == UNION {DOMAIN level[e][c.domain].values : e \in Trees(c)}
    IN  IF c.kind = "balance"
        THEN UpdateWeights(c, metrics, st.faults, <<Height(t), 0>>, updated)
        ELSE UpdateWeightIfPossible(c, metrics, st.faults, level["sum"][c.domain].values)

\* Propagation of the changed shards through the trees of the constraint.
Evaluate(c, st, t, maps, shards) ==
    Weigh(c, st, t, [e \in Trees(c) |-> Propagate(c, e, t, st.metrics[e], maps, shards)])

--------------------------------------------------------------------------------

\* BinWeightInfo
EmptyWeights == [bin |-> EmptyMap, total |-> EmptyKey]

\* Plausible slip: the weights of the previous trial are kept.
ClearWeightsForgotten(w) == w

ClearWeights(w) == [bin |-> MapClear(w.bin), total |-> KeyClear(w.total)]

CommitWeights(w) == [bin |-> MapCommit(w.bin), total |-> KeyCommit(w.total)]

\* addBinWeight / addTotalWeight for every delta of every evaluation.
AddWeights(w, evals) ==
    LET adding  == {i \in DOMAIN evals : DOMAIN evals[i].deltas # {}}
        binning(n) == {i \in adding : evals[i].toBins /\ n \in DOMAIN evals[i].deltas}
        bins    == UNION {DOMAIN evals[i].deltas : i \in {i \in adding : evals[i].toBins}}
        total   == SumFunction([i \in adding |-> SumFunction(evals[i].deltas)])
        binSum(n) == SumFunction([i \in binning(n) |-> evals[i].deltas[n]])
    IN  [bin   |-> MapSetCanary(w.bin, [n \in bins |-> MapGetOr(w.bin, n, 0) + binSum(n)]),
         total |-> IF adding = {} THEN w.total
                   ELSE KeySetCanary(w.total, KeyGetOr(w.total, 0) + total)]

================================================================================
