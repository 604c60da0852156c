--------------------------- MODULE SparseMappingTree ---------------------------
(***************************************************************************)
(* Queries of psychopomp/placer/SparseMappingTree as operators on a tree    *)
(* value.  Domain 0 are the shards, 1 the bins, 2 and up the groups of bins *)
(* (racks, data centers).  A tree is a record                               *)
(*   nodes : for every domain from 1 up, the ids that are parents in it     *)
(*           (the keys of parentToChildMap_[domain]),                       *)
(*   up    : for every domain but the last, the parent of every id          *)
(*           (childToParentMap_, one parent per node),                      *)
(*   binOf : the bin of every shard, NoBin if no bin of the tree has it.    *)
(***************************************************************************)
EXTENDS MovementMap, Sequences

Height(t) == Len(t.nodes)

\* createPartialTree: the nodes below ids of the domain, found breadth first.
CreatePartialTree(t, domain, ids) ==
    LET kept[d \in 1 .. domain] ==
            IF d = domain THEN ids ELSE {n \in t.nodes[d] : t.up[d][n] \in kept[d + 1]}
    IN  [nodes |-> [d \in 1 .. domain |-> kept[d]],
         up    |-> [d \in 1 .. domain - 1 |-> [n \in kept[d] |-> t.up[d][n]]],
         binOf |-> [s \in Shards |-> IF t.binOf[s] \in kept[1] THEN t.binOf[s] ELSE NoBin]]

\* addMapping of one new parent over the top of a partial tree.
AddRoot(t, root) ==
    [t EXCEPT !.nodes = Append(@, {root}),
              !.up = Append(@, [n \in t.nodes[Height(t)] |-> root])]

\* getAllDomainIds of the shard domain.
AllShards(t) == {s \in Shards : t.binOf[s] # NoBin}

\* How often getParents(shardDomain, s, maps) lists bin b: once for the tree,
\* once for every movement map that sends the shard to b, if the tree has b.
ParentTimes(t, maps, s, b) ==
    IF b \notin t.nodes[1] THEN 0
    ELSE Cardinality({i \in DOMAIN maps : maps[i].next[s] = b})
         + (IF t.binOf[s] = b THEN 1 ELSE 0)

\* How often getChildren(binDomain, b, maps) lists shard s.
ChildTimes(t, maps, b, s) ==
    Cardinality({i \in DOMAIN maps : s \in maps[i].incoming[b]})
    + (IF t.binOf[s] = b THEN 1 ELSE 0)

\* Plausible slip: the parents of a moved shard are those of the tree only.
ParentsWithChangesTreeOnly(t, maps, domain, changed) ==
    IF domain = 0 THEN {t.binOf[s] : s \in changed} \cap t.nodes[1]
    ELSE IF domain < Height(t) THEN {t.up[domain][n] : n \in changed}
    ELSE {}

\* The nodes of the next domain that getParents names for the changed nodes.
ParentsWithChanges(t, maps, domain, changed) ==
    IF domain = 0 THEN {b \in t.nodes[1] : \E s \in changed : ParentTimes(t, maps, s, b) > 0}
    ELSE IF domain < Height(t) THEN {t.up[domain][n] : n \in changed}
    ELSE {}

\* The children of n, of the next lower domain, among the changed ones.
ChangedChildren(t, maps, domain, n, changed) ==
    IF domain = 1 THEN {s \in changed : ParentTimes(t, maps, s, n) > 0}
    ELSE {k \in changed : t.up[domain - 1][k] = n}

================================================================================
