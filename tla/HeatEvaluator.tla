---------------------------- MODULE HeatEvaluator ----------------------------
(***************************************************************************)
(* The heat evaluator (src/monitor/heat_evaluator.cpp): a table of blocks, *)
(* how often and when each was accessed, and the tier its score argues for.*)
(*                                                                         *)
(* updateAllHeatScores runs in three phases: it collects the ids, then for *)
(* each id (an OpenMP loop: in any order, several at once) copies the entry*)
(* and computes the score from the copy, then writes the score back if the *)
(* id is still there.  Accesses, registrations and other updates come in   *)
(* between; every critical section of heat_mutex_ is one action here.      *)
(*                                                                         *)
(* Abstracted: scores are whole percents (Frequency and Decay tabulate the *)
(* logarithm and the exponential), a unit of time is 100 seconds.  Left    *)
(* out: layer_blocks_, tier_blocks_ and total_evaluations_, which nothing  *)
(* reads, and the three partial scores stored beside the total.            *)
(***************************************************************************)
EXTENDS Integers, FiniteSets, Functions, MapOps

CONSTANTS
  Blocks,       \* block ids
  Layers,       \* layers named by the access records
  LayerCounts,  \* the numbers of layers ever set
  Moves,        \* tiers a block is reported to have moved to
  Updaters,     \* threads that call updateAllHeatScores
  BatchSizes,   \* how often a batch of records names a block
  MaxTime,      \* bound: units of time
  MaxCount      \* bound: accesses of an entry

ASSUME HeatAssumption ==
  /\ IsFiniteSet(Blocks)
  /\ Layers \subseteq Nat /\ LayerCounts \subseteq Nat /\ Moves \subseteq {"HOT", "WARM", "COLD"}
  /\ BatchSizes \subseteq Nat \ {0}
  /\ MaxTime \in Nat \ {0}
  /\ MaxCount \in 0..9

Tiers == {"HOT", "WARM", "COLD"}
NotUpdating == 0

VARIABLES
  block_heat_info_,  \* id -> entry
  block_to_layer_,   \* id -> layer of the last access; never erased
  num_layers_,
  now,               \* getCurrentTimestamp
  at,                \* the current_time of each running update
  todo,              \* ids it has collected and not yet copied
  computed,          \* id -> its copy, with the new score
  accesses           \* history: accesses of each entry since it was created

table == <<block_heat_info_, block_to_layer_, num_layers_, accesses>>
updates == <<at, todo, computed>>
heatVars == <<table, updates, now>>

Entry == [tier : Tiers, recommended : Tiers, last : 0..MaxTime,
          count : 0..MaxCount, heat : 0..100, evaluated : 0..MaxTime]

FreshEntry == [tier |-> "HOT", recommended |-> "HOT", last |-> 0,
               count |-> 0, heat |-> 0, evaluated |-> 0]

Registered == DOMAIN block_heat_info_

HeatTypeOK ==
  /\ Registered \subseteq Blocks
  /\ block_heat_info_ \in [Registered -> Entry]
  /\ DOMAIN block_to_layer_ \subseteq Blocks /\ Range(block_to_layer_) \subseteq Layers
  /\ num_layers_ \in LayerCounts \cup {0}
  /\ now \in 1..MaxTime
  /\ at \in [Updaters -> {NotUpdating} \cup 1..MaxTime]
  /\ todo \in [Updaters -> SUBSET Blocks]
  /\ \A u \in Updaters : /\ DOMAIN computed[u] \subseteq Blocks
                         /\ computed[u] \in [DOMAIN computed[u] -> Entry]
  /\ accesses \in [DOMAIN accesses -> Nat]

HeatInit ==
  /\ block_heat_info_ = <<>> /\ block_to_layer_ = <<>> /\ num_layers_ = 0
  /\ now = 1
  /\ at = [u \in Updaters |-> NotUpdating]
  /\ todo = [u \in Updaters |-> {}]
  /\ computed = [u \in Updaters |-> <<>>]
  /\ accesses = <<>>

-----------------------------------------------------------------------------
(* The score, in percent *)

\* log1p(n) / log(100) for n = 1..9.
Frequency(n) == IF n = 0 THEN 0 ELSE <<15, 24, 30, 35, 39, 42, 45, 48, 50>>[n]

\* exp(-0.01 s) for s = 100, 200, ... seconds.
Decay(d) == IF d = 0 THEN 100 ELSE IF d > 5 THEN 0 ELSE <<37, 14, 5, 2, 1>>[d]

\* Timestamps are unsigned: an access later than the evaluation's current
\* time is an eternity ago.
Recency(last, time) == IF last = 0 \/ last > time THEN 0 ELSE Decay(time - last)

Importance(layer) ==
  IF num_layers_ = 0 THEN 100 ELSE 100 - (100 * layer) \div num_layers_

\* Fault: no lower bound, a layer beyond num_layers_ makes the score negative.
ClampedAbove(score) == Lesser(score, 100)

Clamped(score) == IF score < 0 THEN 0 ELSE Lesser(score, 100)

LayerOf(b) == Lookup(block_to_layer_, b, 0)

Score(b, entry, time) ==
  Clamped((50 * Frequency(entry.count) + 30 * Recency(entry.last, time)
             + 20 * Importance(LayerOf(b))) \div 100)

ClassifyTier(score) ==
  IF score >= 70 THEN "HOT" ELSE IF score >= 30 THEN "WARM" ELSE "COLD"

Rescored(entry, score, time) ==
  [entry EXCEPT !.heat = score, !.recommended = ClassifyTier(score), !.evaluated = time]

-----------------------------------------------------------------------------
(* Accesses and registrations *)

\* n records of each block of bs in one critical section; processAccess is a
\* batch of one.
ProcessAccessBatch(bs, n, layer) ==
  LET before(b) == Lookup(block_heat_info_, b, FreshEntry)
      counted(b) == [before(b) EXCEPT !.count = @ + n, !.last = now]
  IN /\ \A b \in bs : counted(b).count <= MaxCount
     /\ block_heat_info_' = [b \in Registered \cup bs |->
                               IF b \in bs THEN counted(b) ELSE block_heat_info_[b]]
     /\ block_to_layer_' = [b \in DOMAIN block_to_layer_ \cup bs |->
                              IF b \in bs THEN layer ELSE block_to_layer_[b]]
     /\ accesses' = [b \in DOMAIN accesses \cup bs |->
                       Lookup(accesses, b, 0) + (IF b \in bs THEN n ELSE 0)]
     /\ UNCHANGED <<num_layers_, updates, now>>

ProcessAccess(b, layer) == ProcessAccessBatch({b}, 1, layer)

\* A block registered again starts over; its layer is not recorded.
RegisterBlock(b) ==
  /\ block_heat_info_' = Added(block_heat_info_, b, FreshEntry)
  /\ accesses' = Added(accesses, b, 0)
  /\ UNCHANGED <<block_to_layer_, num_layers_, updates, now>>

UnregisterBlock(b) ==
  /\ block_heat_info_' = Without(block_heat_info_, {b})
  /\ accesses' = Without(accesses, {b})
  /\ UNCHANGED <<block_to_layer_, num_layers_, updates, now>>

ClearHeat ==
  /\ block_heat_info_' = <<>> /\ accesses' = <<>>
  /\ UNCHANGED <<block_to_layer_, num_layers_, updates, now>>

SetBlockTier(b, tier) ==
  /\ b \in Registered
  /\ block_heat_info_' = [block_heat_info_ EXCEPT ![b].tier = tier]
  /\ UNCHANGED <<block_to_layer_, num_layers_, accesses, updates, now>>

SetNumLayers(n) ==
  /\ num_layers_' = n
  /\ UNCHANGED <<block_heat_info_, block_to_layer_, accesses, updates, now>>

-----------------------------------------------------------------------------
(* Updates *)

UpdateBlockHeat(b) ==
  /\ b \in Registered
  /\ block_heat_info_' = [block_heat_info_ EXCEPT ![b] = Rescored(@, Score(b, @, now), now)]
  /\ UNCHANGED <<block_to_layer_, num_layers_, accesses, updates, now>>

\* First phase: current_time is taken and the ids are collected.
BeginUpdate(u) ==
  /\ at[u] = NotUpdating
  /\ at' = [at EXCEPT ![u] = now]
  /\ todo' = [todo EXCEPT ![u] = Registered]
  /\ UNCHANGED <<table, computed, now>>

\* Second phase, under the shared lock: copy the entry, if it is still there.
ComputeHeat(u, b) ==
  /\ b \in todo[u]
  /\ todo' = [todo EXCEPT ![u] = @ \ {b}]
  /\ computed' =
       IF b \in Registered
       THEN [computed EXCEPT ![u] =
               Added(@, b, Rescored(block_heat_info_[b],
                                    Score(b, block_heat_info_[b], at[u]), at[u]))]
       ELSE computed
  /\ UNCHANGED <<table, at, now>>

\* Fault: the copy replaces the entry.
Replaced(entry, copy) == copy

\* Fault: nothing is written back.
Forgotten(entry, copy) == entry

\* What the table holds after write-back: the entry with the copy's score.
Merged(entry, copy) ==
  [entry EXCEPT !.heat = copy.heat, !.recommended = copy.recommended,
                !.evaluated = copy.evaluated]

\* Third phase, under the unique lock.
WriteBack(u, b) ==
  /\ b \in DOMAIN computed[u]
  /\ computed' = [computed EXCEPT ![u] = Without(@, {b})]
  /\ block_heat_info_' =
       IF b \in Registered
       THEN [block_heat_info_ EXCEPT ![b] = Merged(@, computed[u][b])]
       ELSE block_heat_info_
  /\ UNCHANGED <<block_to_layer_, num_layers_, accesses, at, todo, now>>

UpdateDone(u) == at[u] # NotUpdating /\ todo[u] = {} /\ DOMAIN computed[u] = {}

EndUpdate(u) ==
  /\ UpdateDone(u)
  /\ at' = [at EXCEPT ![u] = NotUpdating]
  /\ UNCHANGED <<table, todo, computed, now>>

TimePasses ==
  /\ now < MaxTime
  /\ now' = now + 1
  /\ UNCHANGED <<table, updates>>

-----------------------------------------------------------------------------
UpdateStep(u) ==
  \/ \E b \in Blocks : ComputeHeat(u, b) \/ WriteBack(u, b)
  \/ EndUpdate(u)

HeatNext ==
  \/ \E b \in Blocks, layer \in Layers : ProcessAccess(b, layer)
  \/ \E bs \in SUBSET Blocks \ {{}}, n \in BatchSizes, layer \in Layers :
       ProcessAccessBatch(bs, n, layer)
  \/ \E b \in Blocks : \/ RegisterBlock(b) \/ UnregisterBlock(b) \/ UpdateBlockHeat(b)
                       \/ \E tier \in Moves : SetBlockTier(b, tier)
  \/ \E n \in LayerCounts : SetNumLayers(n)
  \/ \E u \in Updaters : BeginUpdate(u) \/ UpdateStep(u)
  \/ ClearHeat
  \/ TimePasses

HeatSpec == HeatInit /\ [][HeatNext]_heatVars

-----------------------------------------------------------------------------
(* Properties *)

\* The table holds exactly the blocks registered or accessed since they were
\* last unregistered, each with the number of its accesses, though updates
\* that copied an entry before an access, or before it was unregistered,
\* write to it afterwards.
AccessesCounted == [b \in Registered |-> block_heat_info_[b].count] = accesses

=============================================================================
