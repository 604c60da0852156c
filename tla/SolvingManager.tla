------------------------------ MODULE SolvingManager ----------------------------
(***************************************************************************)
(* populateShardMap of the solving manager: every service of a call that    *)
(* has no shards yet gets those that generateShardKeyRangeMap cuts, under   *)
(* random ids.  Ids serve only to tell shards apart, so a mapping is the    *)
(* sequence of the ranges whose shard was kept.                             *)
(***************************************************************************)
EXTENDS ShardKeyRanges

CONSTANTS Services, NoService, NoMapping

VARIABLES shardMappings,      \* shardMappings_
          serviceIds,         \* the services populateShardMap has still to visit
          svcId,              \* the one it is at
          tempShardMapping,
          visited,            \* ranges of the current service that have got an id
          collided            \* history: services with an id drawn twice

manager == <<shardMappings, serviceIds, svcId, tempShardMapping, visited, collided>>
managerVars == <<genVars, manager>>

ManagerInit == /\ args \in Calls
               /\ genAt = "idle"
               /\ start = args.start
               /\ index = 0
               /\ ranges = <<>>
               /\ shardMappings = [s \in Services |-> NoMapping]
               /\ serviceIds = {}
               /\ svcId = NoService
               /\ tempShardMapping = <<>>
               /\ visited = 0
               /\ collided = {}

PopulateShardMap(ids) ==
    /\ serviceIds = {}
    /\ serviceIds' = ids
    /\ UNCHANGED <<genVars, shardMappings, svcId, tempShardMapping, visited, collided>>

\* Plausible slip: the loop does not get past a service that has its shards.
SkipMappedStays(s) ==
    /\ svcId = NoService
    /\ s \in serviceIds
    /\ shardMappings[s] # NoMapping
    /\ UNCHANGED managerVars

SkipMapped(s) ==
    /\ svcId = NoService
    /\ s \in serviceIds
    /\ shardMappings[s] # NoMapping
    /\ serviceIds' = serviceIds \ {s}
    /\ UNCHANGED <<genVars, shardMappings, svcId, tempShardMapping, visited, collided>>

\* The call of generateShardKeyRangeMap.
GenerateFor(s) ==
    /\ svcId = NoService
    /\ s \in serviceIds
    /\ shardMappings[s] = NoMapping
    /\ svcId' = s
    /\ genAt' = "begin"
    /\ start' = args.start
    /\ index' = 0
    /\ ranges' = <<>>
    /\ UNCHANGED <<args, shardMappings, serviceIds, tempShardMapping, visited, collided>>

Generate == GenNext /\ UNCHANGED manager

\* emplace: a shard whose random id is taken is lost.
AddShard ==
    /\ genAt = "returned"
    /\ svcId # NoService
    /\ visited < Len(ranges)
    /\ visited' = visited + 1
    /\ \/ /\ tempShardMapping' = Append(tempShardMapping, ranges[visited + 1])
          /\ UNCHANGED collided
       \/ /\ tempShardMapping # <<>>
          /\ collided' = collided \cup {svcId}
          /\ UNCHANGED tempShardMapping
    /\ UNCHANGED <<genVars, shardMappings, serviceIds, svcId>>

\* Plausible slip: the shards of the last service stay in the temporary mapping.
StoreMappingUncleared ==
    /\ genAt = "returned"
    /\ svcId # NoService
    /\ visited = Len(ranges)
    /\ shardMappings' = [shardMappings EXCEPT ![svcId] = tempShardMapping]
    /\ serviceIds' = serviceIds \ {svcId}
    /\ svcId' = NoService
    /\ visited' = 0
    /\ UNCHANGED <<genVars, tempShardMapping, collided>>

StoreMapping ==
    /\ genAt = "returned"
    /\ svcId # NoService
    /\ visited = Len(ranges)
    /\ shardMappings' = [shardMappings EXCEPT ![svcId] = tempShardMapping]
    /\ serviceIds' = serviceIds \ {svcId}
    /\ svcId' = NoService
    /\ tempShardMapping' = <<>>
    /\ visited' = 0
    /\ UNCHANGED <<genVars, collided>>

Populating == \/ \E s \in Services : SkipMapped(s) \/ GenerateFor(s)
              \/ Generate
              \/ AddShard
              \/ StoreMapping

ManagerNext == Populating \/ \E ids \in SUBSET Services : PopulateShardMap(ids)

\* populateShardMap runs on.
ManagerSpec == ManagerInit /\ [][ManagerNext]_managerVars /\ WF_managerVars(Populating)

--------------------------------------------------------------------------------

(* However often and for whatever services populateShardMap is called, the shards of a
   service hold every key once they are there, each key in one shard (or in the two of
   the doubled first range), unless two shards drew the same random id. *)
ServiceKeysCovered ==
    \A s \in Services :
       shardMappings[s] # NoMapping /\ s \notin collided /\ range > 0 =>
          \A k \in args.start .. args.end :
             LET holders == {i \in DOMAIN shardMappings[s] : In(k, shardMappings[s][i])}
             IN  holders # {} /\ (holders \subseteq {1, 2} \/ \E i \in holders : holders = {i})

(* populateShardMap returns: the loop over the key space reaches its end. *)
PopulateReturns == serviceIds # {} ~> serviceIds = {}

================================================================================
