-------------------------- MODULE HeatEvaluatorProofs --------------------------
(***************************************************************************)
(* The table of the heat evaluator counts every access, for any number of  *)
(* blocks and of threads that update the scores from copies.               *)
(***************************************************************************)
EXTENDS HeatEvaluator, TLAPS

\* AccessesCounted, and the types of what the updates have in hand.
HeatInv ==
  /\ HeatTypeOK
  /\ DOMAIN computed = Updaters
  /\ AccessesCounted

-----------------------------------------------------------------------------
(* Scores *)

LEMMA FrequencyType ==
  ASSUME NEW n \in 0..9
  PROVE  Frequency(n) \in Int
BY DEF Frequency

LEMMA RecencyType ==
  ASSUME NEW last \in Nat, NEW time \in Nat
  PROVE  Recency(last, time) \in Int
<1>1. CASE last = 0 \/ last > time
  BY <1>1 DEF Recency
<1>2. CASE ~(last = 0 \/ last > time)
  <2>1. time - last \in Nat
    BY <1>2
  <2>2. \A d \in Nat : Decay(d) \in Int
    BY DEF Decay
  <2>3. QED BY <1>2, <2>1, <2>2 DEF Recency
<1>3. QED BY <1>1, <1>2

LEMMA ImportanceType ==
  ASSUME HeatTypeOK, NEW b
  PROVE  Importance(LayerOf(b)) \in Int
<1>1. LayerOf(b) \in Nat
  BY HeatAssumption DEF LayerOf, Lookup, HeatTypeOK, Range
<1>2. num_layers_ \in Nat
  BY HeatAssumption DEF HeatTypeOK
<1>3. QED BY <1>1, <1>2 DEF Importance

\* The total score is a percentage.
LEMMA ScoreType ==
  ASSUME HeatTypeOK, NEW b, NEW entry \in Entry, NEW time \in Nat
  PROVE  Score(b, entry, time) \in 0..100
<1>1. \A x \in Int : Clamped(x) \in 0..100
  BY DEF Clamped, Lesser
<1>2. /\ entry.count \in 0..9 /\ entry.last \in Nat
  BY HeatAssumption DEF Entry
<1>3. /\ Frequency(entry.count) \in Int /\ Recency(entry.last, time) \in Int
      /\ Importance(LayerOf(b)) \in Int
  BY <1>2, FrequencyType, RecencyType, ImportanceType
<1>4. (50 * Frequency(entry.count) + 30 * Recency(entry.last, time)
         + 20 * Importance(LayerOf(b))) \div 100 \in Int
  BY <1>3
<1>5. QED BY <1>1, <1>4 DEF Score

LEMMA RescoredType ==
  ASSUME HeatTypeOK, NEW b, NEW entry \in Entry, NEW time \in 0..MaxTime
  PROVE  /\ Rescored(entry, Score(b, entry, time), time) \in Entry
         /\ Rescored(entry, Score(b, entry, time), time).count = entry.count
<1>1. Score(b, entry, time) \in 0..100
  BY ScoreType
<1>2. \A s : ClassifyTier(s) \in Tiers
  BY DEF ClassifyTier, Tiers
<1>3. QED BY <1>1, <1>2 DEF Rescored, Entry

LEMMA MergedType ==
  ASSUME NEW entry \in Entry, NEW one \in Entry
  PROVE  Merged(entry, one) \in Entry /\ Merged(entry, one).count = entry.count
BY DEF Merged, Entry

-----------------------------------------------------------------------------
(* Steps *)

LEMMA HeatStart == HeatInit => HeatInv
<1> SUFFICES ASSUME HeatInit PROVE HeatInv
  OBVIOUS
<1>1. block_heat_info_ \in [Registered -> Entry] /\ Registered = {}
  BY DEF HeatInit, Registered
<1>2. \A u \in Updaters : DOMAIN computed[u] = {} /\ computed[u] \in [DOMAIN computed[u] -> Entry]
  BY DEF HeatInit
<1>3. AccessesCounted
  BY DEF HeatInit, AccessesCounted, Registered
<1>4. DOMAIN block_to_layer_ \subseteq Blocks /\ Range(block_to_layer_) \subseteq Layers
  BY DEF HeatInit, Range
<1>5. QED
  BY <1>1, <1>2, <1>3, <1>4, HeatAssumption DEF HeatInit, HeatInv, HeatTypeOK

\* A new table with the types and the counts of its own accesses.
LEMMA TableStep ==
  ASSUME HeatInv, UNCHANGED <<updates, now>>,
         DOMAIN block_heat_info_' \subseteq Blocks,
         block_heat_info_' \in [DOMAIN block_heat_info_' -> Entry],
         DOMAIN block_to_layer_' \subseteq Blocks, Range(block_to_layer_)' \subseteq Layers,
         num_layers_' \in LayerCounts \cup {0},
         accesses' \in [DOMAIN accesses' -> Nat], DOMAIN accesses' = DOMAIN block_heat_info_',
         \A b \in DOMAIN block_heat_info_' : block_heat_info_'[b].count = accesses'[b]
  PROVE  HeatInv'
<1>1. HeatTypeOK'
  BY DEF HeatInv, HeatTypeOK, Registered, updates
<1>2. AccessesCounted'
  BY DEF AccessesCounted, Registered
<1>3. QED BY <1>1, <1>2 DEF HeatInv, updates

\* What AccessesCounted says of each block.
LEMMA Counts ==
  ASSUME HeatInv
  PROVE  /\ DOMAIN accesses = Registered
         /\ \A b \in Registered : block_heat_info_[b].count = accesses[b]
BY DEF HeatInv, AccessesCounted

LEMMA ProcessStep ==
  ASSUME HeatInv, NEW bs \in SUBSET Blocks, NEW n \in BatchSizes \cup {1}, NEW layer \in Layers,
         ProcessAccessBatch(bs, n, layer)
  PROVE  HeatInv'
<1> DEFINE before(b) == Lookup(block_heat_info_, b, FreshEntry)
           counted(b) == [before(b) EXCEPT !.count = @ + n, !.last = now]
<1>1. n \in Nat /\ now \in 0..MaxTime
  BY HeatAssumption DEF HeatInv, HeatTypeOK
<1>2. \A b : before(b) \in Entry
  BY HeatAssumption DEF HeatInv, HeatTypeOK, Lookup, Registered, FreshEntry, Entry, Tiers
<1>3. \A b : before(b).count = Lookup(accesses, b, 0) /\ before(b).count \in Nat
  BY <1>2, Counts DEF Lookup, Registered, FreshEntry, Entry
<1>4. \A b \in bs : counted(b).count <= MaxCount
  BY DEF ProcessAccessBatch
<1>5. \A b \in bs : counted(b) \in Entry /\ counted(b).count = before(b).count + n
  <2> SUFFICES ASSUME NEW b \in bs
               PROVE  counted(b) \in Entry /\ counted(b).count = before(b).count + n
    OBVIOUS
  <2> DEFINE e == before(b)
  <2>1. e \in Entry
    BY <1>2
  <2>2. [e EXCEPT !.count = @ + n, !.last = now].count <= MaxCount
    BY <1>4
  <2> HIDE DEF e
  <2>3. [e EXCEPT !.count = @ + n, !.last = now].count = e.count + n
    BY <2>1 DEF Entry
  <2>4. e.count + n \in 0..MaxCount
    BY <1>1, <2>1, <2>2, <2>3, HeatAssumption DEF Entry
  <2>5. [e EXCEPT !.count = @ + n, !.last = now] \in Entry
    BY <1>1, <2>1, <2>4 DEF Entry
  <2>6. QED BY <2>3, <2>5 DEF e
<1>6. /\ DOMAIN block_heat_info_' = Registered \cup bs
      /\ \A b \in bs : block_heat_info_'[b] = counted(b)
      /\ \A b \in Registered \ bs : block_heat_info_'[b] = block_heat_info_[b]
      /\ block_heat_info_' = [b \in Registered \cup bs |-> block_heat_info_'[b]]
  BY DEF ProcessAccessBatch
<1> HIDE DEF before, counted
<1>7. block_heat_info_' \in [DOMAIN block_heat_info_' -> Entry]
      /\ DOMAIN block_heat_info_' \subseteq Blocks
  BY <1>5, <1>6 DEF HeatInv, HeatTypeOK
<1>8. DOMAIN block_to_layer_' \subseteq Blocks /\ Range(block_to_layer_)' \subseteq Layers
  BY DEF ProcessAccessBatch, HeatInv, HeatTypeOK, Range
<1>9. /\ DOMAIN accesses' = DOMAIN block_heat_info_'
      /\ \A b \in bs : accesses'[b] = Lookup(accesses, b, 0) + n
      /\ \A b \in Registered \ bs : accesses'[b] = Lookup(accesses, b, 0) + 0
      /\ accesses' = [b \in DOMAIN accesses' |-> accesses'[b]]
  BY <1>6, Counts DEF ProcessAccessBatch
<1>10. \A b \in DOMAIN block_heat_info_' :
         block_heat_info_'[b].count = accesses'[b] /\ accesses'[b] \in Nat
  BY <1>1, <1>3, <1>5, <1>6, <1>9, Counts DEF Lookup
<1>11. QED
  BY <1>7, <1>8, <1>9, <1>10, TableStep DEF ProcessAccessBatch, HeatInv, HeatTypeOK

LEMMA RegisterStep ==
  ASSUME HeatInv, NEW b \in Blocks, RegisterBlock(b)
  PROVE  HeatInv'
<1>1. FreshEntry \in Entry /\ FreshEntry.count = 0
  BY HeatAssumption DEF FreshEntry, Entry, Tiers
<1>2. /\ DOMAIN block_heat_info_' = Registered \cup {b}
      /\ block_heat_info_' \in [DOMAIN block_heat_info_' -> Entry]
      /\ DOMAIN accesses' = Registered \cup {b}
      /\ accesses' \in [DOMAIN accesses' -> Nat]
      /\ \A x \in Registered \cup {b} : block_heat_info_'[x].count = accesses'[x]
  BY <1>1, Counts DEF RegisterBlock, Added, HeatInv, HeatTypeOK, Registered
<1>3. QED
  BY <1>2, TableStep DEF RegisterBlock, HeatInv, HeatTypeOK, Range

LEMMA UnregisterStep ==
  ASSUME HeatInv, NEW b \in Blocks, UnregisterBlock(b)
  PROVE  HeatInv'
<1>1. /\ DOMAIN block_heat_info_' = Registered \ {b}
      /\ block_heat_info_' \in [DOMAIN block_heat_info_' -> Entry]
      /\ DOMAIN accesses' = Registered \ {b}
      /\ accesses' \in [DOMAIN accesses' -> Nat]
      /\ \A x \in Registered \ {b} : block_heat_info_'[x].count = accesses'[x]
  BY Counts DEF UnregisterBlock, Without, Restrict, HeatInv, HeatTypeOK, Registered
<1>2. QED
  BY <1>1, TableStep DEF UnregisterBlock, HeatInv, HeatTypeOK, Range

\* An entry that keeps its count.
LEMMA EntryStep ==
  ASSUME HeatInv, UNCHANGED <<block_to_layer_, num_layers_, accesses, updates, now>>,
         NEW b \in Registered, NEW e \in Entry, e.count = block_heat_info_[b].count,
         block_heat_info_' = [block_heat_info_ EXCEPT ![b] = e]
  PROVE  HeatInv'
<1>1. /\ DOMAIN block_heat_info_' = Registered
      /\ block_heat_info_' \in [DOMAIN block_heat_info_' -> Entry]
      /\ DOMAIN accesses = Registered
      /\ \A x \in Registered : block_heat_info_'[x].count = accesses'[x]
  BY Counts DEF HeatInv, HeatTypeOK, Registered
<1>2. QED
  BY <1>1, TableStep DEF HeatInv, HeatTypeOK, Range

\* An updater takes a copy, which has the type of an entry.
LEMMA ComputeStep ==
  ASSUME HeatInv, NEW u \in Updaters, NEW b \in Blocks, ComputeHeat(u, b)
  PROVE  HeatInv'
<1> USE DEF HeatInv, HeatTypeOK
<1>1. todo' \in [Updaters -> SUBSET Blocks]
  BY DEF ComputeHeat
<1>2. /\ DOMAIN computed' = Updaters
      /\ \A v \in Updaters : /\ DOMAIN computed'[v] \subseteq Blocks
                             /\ computed'[v] \in [DOMAIN computed'[v] -> Entry]
  <2>1. CASE b \in Registered
    <3> DEFINE one == Rescored(block_heat_info_[b], Score(b, block_heat_info_[b], at[u]), at[u])
    <3>1. block_heat_info_[b] \in Entry /\ at[u] \in 0..MaxTime
      BY <2>1, HeatAssumption DEF NotUpdating
    <3>2. one \in Entry
      BY <3>1, RescoredType
    <3>3. computed' = [computed EXCEPT ![u] = Added(@, b, one)]
      BY <2>1 DEF ComputeHeat
    <3> HIDE DEF one
    <3>4. Added(computed[u], b, one) \in [DOMAIN computed[u] \cup {b} -> Entry]
      BY <3>2 DEF Added
    <3>5. QED BY <3>3, <3>4
  <2>2. CASE b \notin Registered
    BY <2>2 DEF ComputeHeat
  <2>3. QED BY <2>1, <2>2
<1>3. UNCHANGED <<table, at, now>>
  BY DEF ComputeHeat
<1>4. AccessesCounted'
  BY <1>3 DEF AccessesCounted, Registered, table
<1>5. HeatTypeOK'
  BY <1>1, <1>2, <1>3 DEF Registered, table, Range
<1>6. QED BY <1>2, <1>4, <1>5

\* Writing a copy back leaves the counts alone.
LEMMA WriteBackStep ==
  ASSUME HeatInv, NEW u \in Updaters, NEW b \in Blocks, WriteBack(u, b)
  PROVE  HeatInv'
<1> USE DEF HeatInv, HeatTypeOK
<1>1. /\ DOMAIN computed' = Updaters
      /\ \A v \in Updaters : /\ DOMAIN computed'[v] \subseteq Blocks
                             /\ computed'[v] \in [DOMAIN computed'[v] -> Entry]
  <2>1. Without(computed[u], {b}) \in [DOMAIN computed[u] \ {b} -> Entry]
    BY DEF Without, Restrict
  <2>2. QED BY <2>1 DEF WriteBack
<1>2. /\ DOMAIN block_heat_info_' = Registered
      /\ block_heat_info_' \in [Registered -> Entry]
      /\ \A x \in Registered : block_heat_info_'[x].count = block_heat_info_[x].count
  <2>1. CASE b \in Registered
    <3>1. block_heat_info_[b] \in Entry /\ computed[u][b] \in Entry
      BY <2>1 DEF WriteBack
    <3>2. /\ Merged(block_heat_info_[b], computed[u][b]) \in Entry
          /\ Merged(block_heat_info_[b], computed[u][b]).count = block_heat_info_[b].count
      BY <3>1, MergedType
    <3>3. block_heat_info_' =
            [block_heat_info_ EXCEPT ![b] = Merged(block_heat_info_[b], computed[u][b])]
      BY <2>1 DEF WriteBack
    <3>4. QED BY <3>2, <3>3 DEF Registered
  <2>2. CASE b \notin Registered
    BY <2>2 DEF WriteBack, Registered
  <2>3. QED BY <2>1, <2>2
<1>3. UNCHANGED <<block_to_layer_, num_layers_, accesses, at, todo, now>>
  BY DEF WriteBack
<1>4. AccessesCounted'
  BY <1>2, <1>3, Counts DEF AccessesCounted, Registered
<1>5. HeatTypeOK'
  BY <1>1, <1>2, <1>3 DEF Registered, Range
<1>6. QED BY <1>1, <1>4, <1>5

LEMMA HeatStep == HeatInv /\ [HeatNext]_heatVars => HeatInv'
<1> SUFFICES ASSUME HeatInv, [HeatNext]_heatVars PROVE HeatInv'
  OBVIOUS
<1>1. ASSUME NEW b \in Blocks, NEW layer \in Layers, ProcessAccess(b, layer) PROVE HeatInv'
  BY <1>1, ProcessStep DEF ProcessAccess
<1>2. ASSUME NEW bs \in SUBSET Blocks \ {{}}, NEW n \in BatchSizes, NEW layer \in Layers,
             ProcessAccessBatch(bs, n, layer)
      PROVE  HeatInv'
  BY <1>2, ProcessStep
<1>3. ASSUME NEW b \in Blocks, RegisterBlock(b) \/ UnregisterBlock(b) PROVE HeatInv'
  BY <1>3, RegisterStep, UnregisterStep
<1>4. ASSUME NEW b \in Blocks, UpdateBlockHeat(b) PROVE HeatInv'
  <2>1. b \in Registered /\ block_heat_info_[b] \in Entry /\ now \in 0..MaxTime
    BY <1>4 DEF UpdateBlockHeat, HeatInv, HeatTypeOK
  <2>2. QED BY <1>4, <2>1, RescoredType, EntryStep DEF UpdateBlockHeat, HeatInv
<1>5. ASSUME NEW b \in Blocks, NEW tier \in Moves, SetBlockTier(b, tier) PROVE HeatInv'
  <2>1. b \in Registered /\ block_heat_info_[b] \in Entry /\ tier \in Tiers
    BY <1>5, HeatAssumption DEF SetBlockTier, HeatInv, HeatTypeOK, Tiers
  <2>2. /\ [block_heat_info_[b] EXCEPT !.tier = tier] \in Entry
        /\ [block_heat_info_[b] EXCEPT !.tier = tier].count = block_heat_info_[b].count
    BY <2>1 DEF Entry
  <2>3. block_heat_info_' =
          [block_heat_info_ EXCEPT ![b] = [block_heat_info_[b] EXCEPT !.tier = tier]]
    BY <1>5 DEF SetBlockTier
  <2>4. QED BY <1>5, <2>1, <2>2, <2>3, EntryStep DEF SetBlockTier
<1>6. ASSUME NEW n \in LayerCounts, SetNumLayers(n) PROVE HeatInv'
  BY <1>6, TableStep, Counts DEF SetNumLayers, HeatInv, HeatTypeOK, Registered, Range
<1>7. ASSUME NEW u \in Updaters, BeginUpdate(u) \/ EndUpdate(u) PROVE HeatInv'
  <2>1. UNCHANGED <<table, computed, now>>
    BY <1>7 DEF BeginUpdate, EndUpdate
  <2>2. /\ at' \in [Updaters -> {NotUpdating} \cup 1..MaxTime]
        /\ todo' \in [Updaters -> SUBSET Blocks]
    BY <1>7 DEF BeginUpdate, EndUpdate, HeatInv, HeatTypeOK
  <2>3. HeatTypeOK'
    BY <2>1, <2>2 DEF HeatInv, HeatTypeOK, table, Registered, Range
  <2>4. QED BY <2>1, <2>3 DEF HeatInv, AccessesCounted, table, Registered
<1>8. ASSUME NEW u \in Updaters, NEW b \in Blocks, ComputeHeat(u, b) \/ WriteBack(u, b)
      PROVE  HeatInv'
  BY <1>8, ComputeStep, WriteBackStep
<1>9. CASE ClearHeat
  <2>1. DOMAIN block_heat_info_' = {} /\ DOMAIN accesses' = {}
        /\ block_heat_info_' \in [{} -> Entry] /\ accesses' \in [{} -> Nat]
    BY <1>9 DEF ClearHeat
  <2>2. QED BY <1>9, <2>1, TableStep DEF ClearHeat, HeatInv, HeatTypeOK, Range
<1>10. CASE TimePasses \/ UNCHANGED heatVars
  <2>1. UNCHANGED <<table, updates>> /\ now' \in 1..MaxTime
    BY <1>10, HeatAssumption DEF TimePasses, heatVars, HeatInv, HeatTypeOK
  <2>2. QED
    BY <2>1 DEF HeatInv, HeatTypeOK, AccessesCounted, table, updates, Registered, Range
<1>11. QED
  BY <1>1, <1>2, <1>3, <1>4, <1>5, <1>6, <1>7, <1>8, <1>9, <1>10 DEF HeatNext, UpdateStep

LEMMA HeatInvHolds == HeatSpec => []HeatInv
  BY HeatStart, HeatStep, PTL DEF HeatSpec

\* The types of the table and of what the updates have copied.
THEOREM HeatTyped == HeatSpec => []HeatTypeOK
<1>1. HeatInv => HeatTypeOK
  BY DEF HeatInv
<1>2. QED BY <1>1, HeatInvHolds, PTL

\* The table holds exactly the blocks registered or accessed since they were last
\* unregistered, with the number of their accesses: an update that writes back
\* what it copied before loses no access and brings no block back.
THEOREM EveryAccessCounted == HeatSpec => []AccessesCounted
<1>1. HeatInv => AccessesCounted
  BY DEF HeatInv
<1>2. QED BY <1>1, HeatInvHolds, PTL

=============================================================================
