---------------------------- MODULE ExpressionTree ----------------------------
(***************************************************************************)
(* ExpressionTree::propagateChanges: values recomputed from the changed     *)
(* shards upwards, a node's parents only when the node's value changed.     *)
(* The recursion over toUpdate / nextToUpdate goes up one domain per call,  *)
(* because every node has its parents in the next domain; the nodes of one  *)
(* domain do not read each other, so their order is irrelevant.             *)
(***************************************************************************)
EXTENDS ConstraintUtils

\* Plausible slip: a node whose value is new but was never set is not recorded.
ValueChangedKnownOnly(metrics, node, value) ==
    MapHas(metrics, node) /\ MapGetOr(metrics, node, 0) # value

ValueChanged(metrics, node, value) ==
    ~MapHas(metrics, node) \/ MapGetOr(metrics, node, 0) # value

\* The values calculated for nodes of domain d, of which metricsMap_ takes those
\* that changed.
SetValues(metrics, d, values) ==
    LET changed == {n \in DOMAIN values : ValueChanged(metrics, <<d, n>>, values[n])}
    IN  [metrics |-> MapSetCanary(metrics, [node \in {d} \X changed |-> values[node[2]]]),
         values  |-> values,
         changed |-> changed]

\* One call of propagateChanges: the nodes of domain d above those that changed
\* in the domain below.
PropagateToDomain(c, e, t, maps, d, below) ==
    SetValues(below.metrics, d,
              [n \in ParentsWithChanges(t, maps, d - 1, below.changed) |->
                 Calculate(c, e, t, maps, below.metrics, d, n,
                           ChangedChildren(t, maps, d, n, below.changed))])

\* In the tree e of the constraint, the result for every domain: the metrics map
\* so far, the values calculated in this domain (for every node that was
\* reached) and the nodes that changed.
Propagate(c, e, t, metrics0, maps, shards) ==
    LET level[d \in 0 .. Height(t)] ==
          IF d = 0 THEN [metrics |-> metrics0, values |-> <<>>, changed |-> shards]
          ELSE PropagateToDomain(c, e, t, maps, d, level[d - 1])
    IN  level

================================================================================
