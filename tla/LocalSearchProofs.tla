--------------------------- MODULE LocalSearchProofs ---------------------------
(***************************************************************************)
(* Theorems about LocalSearch, for any finite sets of shards and bins, any  *)
(* bounds and any weights.                                                  *)
(*                                                                          *)
(* CommittedMovesConsistent and OneShardPerIteration are not inductive: an  *)
(* accepted trial preserves them only because its shard has no committed    *)
(* move yet and its target is not the shard's own bin.  TriesAreFresh says  *)
(* so of every pending trial; it holds because committedMoves changes only  *)
(* when the pending trials are dropped.                                     *)
(***************************************************************************)
EXTENDS LocalSearch, FiniteSetTheorems, TLAPS

\* Every pending trial moves an unmoved shard to another bin.
TriesAreFresh ==
    \A s \in Shards, b \in Bins :
        <<s, b>> \in tries => committedMoves.next[s] = NoBin /\ b # initialBin[s]

\* While a bin is being tried it is at the head of the queue.
BinAtHead == pc \in {"pick", "try"} => binQueue # <<>>

\* The types of everything but the weight.
ControlTypeOK ==
    /\ initialBin \in [Shards -> Bins]
    /\ pc \in {"start", "iterate", "bins", "pick", "try", "done"}
    /\ iter \in Nat
    /\ committedMoves \in MovementMaps
    /\ binQueue \in Seq(Bins)
    /\ picks \in 0 .. MaxPicks
    /\ tries \in SUBSET (Shards \X Bins)
    /\ canariedMoves \in MovementMaps

\* The inductive invariant, silent about the weights.
SearchInv == /\ ControlTypeOK
             /\ BinAtHead
             /\ TriesAreFresh
             /\ CommittedMovesConsistent
             /\ OneShardPerIteration

--------------------------------------------------------------------------------

(* A new MovementMap has no movement (MovementMap.cpp clearMovements). *)
LEMMA EmptyMovementsType == EmptyMovements \in MovementMaps
  BY DEF EmptyMovements, MovementMaps

(* addMovement on a cleared map gives a map of exactly one movement. *)
LEMMA TrialIsOneMove ==
  ASSUME NEW s \in Shards, NEW b \in Bins
  PROVE  /\ Trial(s, b) \in MovementMaps
         /\ Trial(s, b).next = [x \in Shards |-> IF x = s THEN b ELSE NoBin]
  BY DEF Trial, ClearMovements, AddMovement, EmptyMovements, MovementMaps

(* addMovements of a trial redirects its shard and touches no other. *)
LEMMA CommitTrial ==
  ASSUME NEW m \in MovementMaps, NEW s \in Shards, NEW b \in Bins
  PROVE  /\ AddMovements(m, Trial(s, b)) \in MovementMaps
         /\ AddMovements(m, Trial(s, b)).next = [m.next EXCEPT ![s] = b]
         /\ AddMovements(m, Trial(s, b)).incoming = [m.incoming EXCEPT ![b] = @ \cup {s}]
  <1> DEFINE n == AddMovements(m, Trial(s, b))
  <1>1. b # NoBin
    BY NoBinAssumption
  <1>2. PICK next : next = Trial(s, b).next
    OBVIOUS
  <1>3. next = [x \in Shards |-> IF x = s THEN b ELSE NoBin]
    BY <1>2, TrialIsOneMove
  <1>4. /\ m.next \in [Shards -> Bins \cup {NoBin}]
        /\ m.incoming \in [Bins -> SUBSET Shards]
    BY DEF MovementMaps
  <1>5. n = [next |-> [x \in Shards |-> IF next[x] = NoBin THEN m.next[x] ELSE next[x]],
             incoming |-> [c \in Bins |-> m.incoming[c] \cup {x \in Shards : next[x] = c}]]
    BY <1>2 DEF AddMovements
  <1>6. [x \in Shards |-> IF next[x] = NoBin THEN m.next[x] ELSE next[x]] = [m.next EXCEPT ![s] = b]
    BY <1>1, <1>3, <1>4
  <1>7. \A c \in Bins : {x \in Shards : next[x] = c} = IF c = b THEN {s} ELSE {}
    BY <1>1, <1>3, NoBinAssumption
  <1>8. [c \in Bins |-> m.incoming[c] \cup {x \in Shards : next[x] = c}]
           = [m.incoming EXCEPT ![b] = @ \cup {s}]
    BY <1>4, <1>7
  <1>9. n = [next |-> [m.next EXCEPT ![s] = b], incoming |-> [m.incoming EXCEPT ![b] = @ \cup {s}]]
    BY <1>5, <1>6, <1>8
  <1> HIDE DEF n
  <1> QED BY <1>4, <1>9 DEF MovementMaps, n

--------------------------------------------------------------------------------

\* A step of the search, whatever the weight it is judged by.
AnyStep ==
    \/ \E w : SolveStart(w)
    \/ \E q \in BinOrders : StartIteration(q)
    \/ IterationsExhausted
    \/ SkipBin
    \/ EnterBin
    \/ NoMoveFound
    \/ \E s \in Shards, B \in SUBSET Bins : PickShard(s, B)
    \/ GiveUpBin
    \/ \E s \in Shards, b \in Bins : \E w : RejectMove(s, b, w)
    \/ \E s \in Shards, b \in Bins : \E w : AcceptMove(s, b, w)
    \/ TriesExhausted
    \/ UNCHANGED searchVars

(* Any order of the bins that solve walks is a sequence of bins. *)
LEMMA BinOrdersAreSequences == BinOrders \subseteq Seq(Bins)
  <1>1. Cardinality(Bins) \in Nat
    BY SearchAssumption, FS_CardinalityType
  <1> QED BY <1>1 DEF BinOrders

(* Before solve is called nothing is moved and nothing is tried. *)
LEMMA SearchInvInit == SearchInit => SearchInv
  <1> SUFFICES ASSUME SearchInit PROVE SearchInv
    OBVIOUS
  <1>1. ControlTypeOK
    BY EmptyMovementsType, SearchAssumption DEF SearchInit, ControlTypeOK
  <1>2. BinAtHead /\ TriesAreFresh
    BY DEF SearchInit, BinAtHead, TriesAreFresh
  <1>3. CommittedMovesConsistent
    BY NoBinAssumption DEF SearchInit, CommittedMovesConsistent, EmptyMovements
  <1>4. MovedShards(committedMoves) = {}
    BY DEF SearchInit, MovedShards, EmptyMovements
  <1>5. OneShardPerIteration
    BY <1>4, FS_EmptySet DEF SearchInit, OneShardPerIteration
  <1> QED BY <1>1, <1>2, <1>3, <1>5 DEF SearchInv

(* solve adds the one movement of an accepted trial to the committed ones. *)
LEMMA AcceptRedirects ==
  ASSUME SearchInv, NEW s \in Shards, NEW b \in Bins, NEW w, AcceptMove(s, b, w)
  PROVE  /\ committedMoves' \in MovementMaps
         /\ committedMoves'.next = [committedMoves.next EXCEPT ![s] = b]
         /\ committedMoves'.incoming = [committedMoves.incoming EXCEPT ![b] = @ \cup {s}]
  <1>1. committedMoves' = AddMovements(committedMoves, Trial(s, b))
    BY DEF AcceptMove
  <1>2. committedMoves \in MovementMaps
    BY DEF SearchInv, ControlTypeOK
  <1> QED BY <1>1, <1>2, CommitTrial

(* An accepted trial (IterativeLocalSearch.h:115-119, 51-57) preserves the
   invariant whatever weight it was accepted for. *)
LEMMA AcceptPreserves ==
  ASSUME SearchInv, NEW s \in Shards, NEW b \in Bins, NEW w, AcceptMove(s, b, w)
  PROVE  SearchInv'
  <1> DEFINE next2 == [committedMoves.next EXCEPT ![s] = b]
             incoming2 == [committedMoves.incoming EXCEPT ![b] = @ \cup {s}]
  <1>1. /\ committedMoves' \in MovementMaps
        /\ committedMoves'.next = next2
        /\ committedMoves'.incoming = incoming2
    BY AcceptRedirects
  <1>2. /\ committedMoves.next[s] = NoBin
        /\ b # initialBin[s]
        /\ b # NoBin
    BY NoBinAssumption DEF SearchInv, TriesAreFresh, AcceptMove
  <1>3. /\ committedMoves.next \in [Shards -> Bins \cup {NoBin}]
        /\ committedMoves.incoming \in [Bins -> SUBSET Shards]
        /\ initialBin' = initialBin
    BY DEF SearchInv, ControlTypeOK, MovementMaps, AcceptMove
  <1>4. ControlTypeOK'
    BY <1>1, EmptyMovementsType, SearchAssumption DEF SearchInv, ControlTypeOK, AcceptMove
  <1>5. BinAtHead' /\ TriesAreFresh'
    BY DEF AcceptMove, BinAtHead, TriesAreFresh
  <1>6. CommittedMovesConsistent'
    <2>1. \A c \in Bins : incoming2[c] = {x \in Shards : next2[x] = c}
      BY <1>2, <1>3, NoBinAssumption DEF SearchInv, CommittedMovesConsistent
    <2>2. \A x \in Shards : next2[x] # initialBin[x]
      BY <1>2, <1>3 DEF SearchInv, CommittedMovesConsistent
    <2> QED BY <1>1, <1>3, <2>1, <2>2 DEF CommittedMovesConsistent
  <1>7. OneShardPerIteration'
    <2>1. MovedShards(committedMoves') = MovedShards(committedMoves) \cup {s}
      BY <1>1, <1>2, <1>3 DEF MovedShards
    <2>2. s \notin MovedShards(committedMoves)
      BY <1>2 DEF MovedShards
    <2>3. IsFiniteSet(MovedShards(committedMoves))
      BY SearchAssumption, FS_Subset DEF MovedShards
    <2>4. Cardinality(MovedShards(committedMoves')) = Cardinality(MovedShards(committedMoves)) + 1
      BY <2>1, <2>2, <2>3, FS_AddElement
    <2> QED BY <2>4 DEF SearchInv, OneShardPerIteration, AcceptMove
  <1> QED BY <1>4, <1>5, <1>6, <1>7 DEF SearchInv

(* A step that leaves the committed moves alone can only disturb the types,
   the queue and the pending trials. *)
LEMMA QuietStep ==
  ASSUME SearchInv, UNCHANGED <<initialBin, iter, committedMoves>>,
         ControlTypeOK', BinAtHead', TriesAreFresh'
  PROVE  SearchInv'
  BY DEF SearchInv, CommittedMovesConsistent, OneShardPerIteration

(* Every step of the search preserves the invariant. *)
LEMMA SearchInvStep == SearchInv /\ AnyStep => SearchInv'
  <1> SUFFICES ASSUME SearchInv, AnyStep PROVE SearchInv'
    OBVIOUS
  <1> USE SearchAssumption DEF ControlTypeOK
  <1>1. CASE \E w : SolveStart(w)
    BY <1>1, QuietStep DEF SearchInv, SolveStart, BinAtHead, TriesAreFresh
  <1>2. CASE \E q \in BinOrders : StartIteration(q)
    BY <1>2, QuietStep, BinOrdersAreSequences DEF SearchInv, StartIteration, BinAtHead, TriesAreFresh
  <1>3. CASE IterationsExhausted
    BY <1>3, QuietStep DEF SearchInv, IterationsExhausted, BinAtHead, TriesAreFresh
  <1>4. CASE SkipBin
    BY <1>4, QuietStep DEF SearchInv, SkipBin, BinAtHead, TriesAreFresh
  <1>5. CASE EnterBin
    BY <1>5, QuietStep, EmptyMovementsType DEF SearchInv, EnterBin, BinAtHead, TriesAreFresh
  <1>6. CASE NoMoveFound
    BY <1>6, QuietStep DEF SearchInv, NoMoveFound, BinAtHead, TriesAreFresh
  <1>7. CASE \E s \in Shards, B \in SUBSET Bins : PickShard(s, B)
    <2>1. PICK s \in Shards, B \in SUBSET Bins : PickShard(s, B)
      BY <1>7
    <2>2. ControlTypeOK'
      BY <2>1 DEF SearchInv, PickShard
    <2>3. BinAtHead'
      BY <2>1 DEF SearchInv, PickShard, BinAtHead
    <2>4. TriesAreFresh'
      BY <2>1 DEF PickShard, TriesAreFresh, ShardsInBin, BinSets
    <2> QED BY <2>1, <2>2, <2>3, <2>4, QuietStep DEF PickShard
  <1>8. CASE GiveUpBin
    BY <1>8, QuietStep, EmptyMovementsType DEF SearchInv, GiveUpBin, BinAtHead, TriesAreFresh
  <1>9. CASE \E s \in Shards, b \in Bins : \E w : RejectMove(s, b, w)
    <2>1. PICK s \in Shards, b \in Bins : \E w : RejectMove(s, b, w)
      BY <1>9
    <2>2. canariedMoves' \in MovementMaps
      BY <2>1, TrialIsOneMove DEF RejectMove
    <2> QED BY <2>1, <2>2, QuietStep DEF SearchInv, RejectMove, BinAtHead, TriesAreFresh
  <1>10. CASE \E s \in Shards, b \in Bins : \E w : AcceptMove(s, b, w)
    BY <1>10, AcceptPreserves
  <1>11. CASE TriesExhausted
    BY <1>11, QuietStep DEF SearchInv, TriesExhausted, BinAtHead, TriesAreFresh
  <1>12. CASE UNCHANGED searchVars
    BY <1>12, QuietStep DEF SearchInv, searchVars, BinAtHead, TriesAreFresh
  <1> QED
    BY <1>1, <1>2, <1>3, <1>4, <1>5, <1>6, <1>7, <1>8, <1>9, <1>10, <1>11, <1>12 DEF AnyStep

(* The steps of the specification are steps of the search. *)
LEMMA NextIsAnyStep == [SearchNext]_searchVars => AnyStep
  BY DEF SearchNext, AnyStep, Returned

(* The inductive invariant holds in every reachable state. *)
LEMMA SearchInvariant == SearchSpec => []SearchInv
  BY SearchInvInit, SearchInvStep, NextIsAnyStep, PTL DEF SearchSpec

(* The MovementMap that solve builds always has exactly inverse indexes and
   sends no shard to the bin it is in (IterativeLocalSearch.h:21-68). *)
THEOREM CommittedMovesAreConsistent == SearchSpec => []CommittedMovesConsistent
  <1>1. SearchInv => CommittedMovesConsistent
    BY DEF SearchInv
  <1> QED BY <1>1, SearchInvariant, PTL

(* Each completed iteration of solve has moved one shard more, so solve runs
   through at most as many iterations as there are shards. *)
THEOREM IterationsCountMoves == SearchSpec => []OneShardPerIteration
  <1>1. SearchInv => OneShardPerIteration
    BY DEF SearchInv
  <1> QED BY <1>1, SearchInvariant, PTL

(* A step of the search keeps every committed move: an accepted trial's shard
   had none. *)
LEMMA StepKeepsMoves ==
  SearchInv /\ AnyStep
    => \A s \in MovedShards(committedMoves) : committedMoves'.next[s] = committedMoves.next[s]
  <1> SUFFICES ASSUME SearchInv, AnyStep, NEW x \in MovedShards(committedMoves)
               PROVE  committedMoves'.next[x] = committedMoves.next[x]
    OBVIOUS
  <1>1. CASE \E s \in Shards, b \in Bins : \E w : AcceptMove(s, b, w)
    <2>0. PICK s \in Shards, b \in Bins : \E w : AcceptMove(s, b, w)
      BY <1>1
    <2>1. PICK w : AcceptMove(s, b, w)
      BY <2>0
    <2>2. committedMoves'.next = [committedMoves.next EXCEPT ![s] = b]
      BY <2>1, AcceptRedirects
    <2>3. committedMoves.next[s] = NoBin
      BY <2>1 DEF AcceptMove, SearchInv, TriesAreFresh
    <2>4. committedMoves.next \in [Shards -> Bins \cup {NoBin}]
      BY DEF SearchInv, ControlTypeOK, MovementMaps
    <2> QED BY <2>2, <2>3, <2>4 DEF MovedShards
  <1>2. CASE UNCHANGED committedMoves
    BY <1>2
  <1> QED
    BY <1>1, <1>2 DEF AnyStep, SolveStart, StartIteration, IterationsExhausted, SkipBin, EnterBin,
       NoMoveFound, PickShard, GiveUpBin, RejectMove, TriesExhausted, searchVars

(* No iteration of solve redirects or drops a move that an earlier one
   committed. *)
THEOREM MovesAreFinal == SearchSpec => CommittedMovesAreFinal
  <1>1. SearchInv /\ [SearchNext]_searchVars
          => [\A s \in MovedShards(committedMoves) :
                 committedMoves'.next[s] = committedMoves.next[s]]_searchVars
    BY StepKeepsMoves, NextIsAnyStep
  <1> QED BY <1>1, SearchInvariant, PTL DEF SearchSpec, CommittedMovesAreFinal

(* The weights of the search are integers and its locals keep their types. *)
THEOREM SearchTypes == SearchSpec => []SearchTypeOK
  <1> DEFINE WeightTypeOK == currentWeight \in Int
  <1>1. SearchInit => WeightTypeOK
    BY DEF SearchInit
  <1>2. WeightTypeOK /\ [SearchNext]_searchVars => WeightTypeOK'
    BY SearchAssumption DEF SearchNext, searchVars, SolveStart, StartIteration,
       IterationsExhausted, SkipBin, EnterBin, NoMoveFound, PickShard, GiveUpBin, RejectMove,
       AcceptMove, TriesExhausted, Returned
  <1>3. SearchInv /\ WeightTypeOK => SearchTypeOK
    BY DEF SearchInv, ControlTypeOK, SearchTypeOK
  <1> HIDE DEF WeightTypeOK
  <1> QED BY <1>1, <1>2, <1>3, SearchInvariant, PTL DEF SearchSpec

================================================================================
