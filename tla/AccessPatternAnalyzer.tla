------------------------ MODULE AccessPatternAnalyzer ------------------------
(***************************************************************************)
(* The access pattern analyzer (src/monitor/access_pattern_analyzer.cpp):  *)
(* counts and a window of the last accesses, patterns of each layer cached *)
(* until the next access, and predictions of the block that comes next.    *)
(*                                                                         *)
(* Every call is one critical section of mutex_, but two: suggestions and  *)
(* reports call predictNextAccess, which locks the mutex its caller holds. *)
(* Such a call never returns, and no later one gets the mutex.             *)
(*                                                                         *)
(* block_sequence_ is not kept apart: it is pushed, trimmed and cleared    *)
(* with access_history_ and holds its blocks.  Left out: the ratio and the *)
(* intervals of a pattern, the entropy of a report, layer_access_times_.   *)
(***************************************************************************)
EXTENDS Integers, Sequences, FiniteSets, MapOps, SequencesExt

CONSTANTS
  AnalyzerCallers,
  AnalyzedBlocks,    \* integers: patterns look at their differences
  AnalyzedLayers, AnalyzedHeads,
  HistoryWindow,     \* history_window_size_
  PredictionWindow,  \* prediction_window_size_
  TopHeads,          \* 3 in the code
  MaxAccesses,       \* bound: accesses processed
  MaxInits           \* bound: calls of initialize and reset

ASSUME AnalyzerAssumption ==
  /\ AnalyzedBlocks \subseteq Int /\ IsFiniteSet(AnalyzedBlocks)
  /\ AnalyzedLayers \subseteq Nat /\ AnalyzedHeads \subseteq Nat
  /\ HistoryWindow \in Nat \ {0} /\ PredictionWindow \in Nat /\ TopHeads \in Nat \ {0}
  /\ MaxAccesses \in Nat /\ MaxInits \in Nat

VARIABLES
  access_history_,
  access_counts,          \* <<layer, head>> -> head_access_counts_; a layer's
                          \* layer_access_counts_ is the sum over its heads
  transition_counts_,     \* <<from, to>> -> count
  block_access_times_,    \* block -> how many times are kept
  cached_layer_patterns_,
  patterns_dirty_,
  shape_,                 \* <<num_layers_, num_heads_>>
  stuck,                  \* callers that wait for mutex_ for ever
  aborted,                \* the process died of an invalid read or division
  processedAccesses, inits,
  followed                \* history: pairs of blocks accessed one after the
                          \* other since the transitions were cleared

counted == <<access_history_, access_counts, transition_counts_, block_access_times_>>
patterns == <<cached_layer_patterns_, patterns_dirty_>>
fate == <<stuck, aborted>>
analyzerVars == <<counted, patterns, shape_, fate, processedAccesses, inits, followed>>

PatternTypes == {"SEQUENTIAL", "RANDOM", "STRIDE", "CLUSTERED", "REPEATING", "UNKNOWN"}
Access == [block : AnalyzedBlocks, layer : AnalyzedLayers, head : AnalyzedHeads]
Pattern == [total : Nat, type : PatternTypes, hot : SUBSET AnalyzedHeads,
            cold : SUBSET AnalyzedHeads]

AnalyzerTypeOK ==
  /\ access_history_ \in Seq(Access) /\ Len(access_history_) <= HistoryWindow
  /\ DOMAIN access_counts \subseteq AnalyzedLayers \X AnalyzedHeads
  /\ DOMAIN transition_counts_ \subseteq AnalyzedBlocks \X AnalyzedBlocks
  /\ Range(access_counts) \cup Range(transition_counts_) \cup Range(block_access_times_) \subseteq Nat
  /\ DOMAIN cached_layer_patterns_ \subseteq AnalyzedLayers
  /\ Range(cached_layer_patterns_) \subseteq Pattern
  /\ patterns_dirty_ \in BOOLEAN /\ aborted \in BOOLEAN
  /\ stuck \subseteq AnalyzerCallers

AnalyzerInit ==
  /\ access_history_ = <<>> /\ access_counts = <<>> /\ transition_counts_ = <<>>
  /\ block_access_times_ = <<>>
  /\ cached_layer_patterns_ = <<>> /\ patterns_dirty_ = TRUE
  /\ shape_ = <<0, 0>>
  /\ stuck = {} /\ aborted = FALSE
  /\ processedAccesses = 0 /\ inits = 0 /\ followed = {}

\* mutex_ is free for a caller that does not wait already.
Enters(c) == ~aborted /\ stuck = {}

block_sequence_ == [i \in DOMAIN access_history_ |-> access_history_[i].block]

-----------------------------------------------------------------------------
(* Accesses *)

Bumped(f, key) == Added(f, key, Lookup(f, key, 0) + 1)

Windowed(s) == IF Len(s) > HistoryWindow THEN Tail(s) ELSE s

\* Fault: the pair is counted the wrong way round.
PairReversed(access) == <<access.block, Last(block_sequence_)>>

Pair(access) == <<Last(block_sequence_), access.block>>

\* processAccess.
Process(access) ==
  /\ processedAccesses < MaxAccesses
  /\ processedAccesses' = processedAccesses + 1
  /\ access_history_' = Windowed(Append(access_history_, access))
  /\ transition_counts_' = IF block_sequence_ = <<>> THEN transition_counts_
                           ELSE Bumped(transition_counts_, Pair(access))
  /\ followed' = IF access_history_ = <<>> THEN followed
                 ELSE followed \cup {<<Last(access_history_).block, access.block>>}
  /\ access_counts' = Bumped(access_counts, <<access.layer, access.head>>)
  /\ block_access_times_' = Bumped(block_access_times_, access.block)
  /\ patterns_dirty_' = TRUE
  /\ UNCHANGED <<cached_layer_patterns_, shape_, fate, inits>>

\* initialize keeps the cached patterns and the times of blocks; reset does not.
InitializeAnalyzer(layers, heads) ==
  /\ inits < MaxInits
  /\ inits' = inits + 1
  /\ shape_' = <<layers, heads>>
  /\ access_history_' = <<>> /\ access_counts' = <<>> /\ transition_counts_' = <<>>
  /\ followed' = {}
  /\ patterns_dirty_' = TRUE
  /\ UNCHANGED <<block_access_times_, cached_layer_patterns_, fate, processedAccesses>>

ResetAnalyzer ==
  /\ inits < MaxInits
  /\ inits' = inits + 1
  /\ access_history_' = <<>> /\ access_counts' = <<>> /\ transition_counts_' = <<>>
  /\ block_access_times_' = <<>> /\ cached_layer_patterns_' = <<>>
  /\ followed' = {}
  /\ patterns_dirty_' = TRUE
  /\ UNCHANGED <<shape_, fate, processedAccesses>>

-----------------------------------------------------------------------------
(* Patterns *)

Differences(s) == [i \in 1..(Len(s) - 1) |-> s[i + 1] - s[i]]

detectPatternType(s) ==
  LET steps == Range(Differences(s))
      unique == Cardinality(Range(s))
  IN CASE Len(s) < 3 -> "UNKNOWN"
       [] Len(s) >= 3 /\ steps = {1} -> "SEQUENTIAL"
       [] Len(s) >= 3 /\ steps \notin {{0}, {1}} /\ Cardinality(steps) = 1 -> "STRIDE"
       [] OTHER -> IF unique <= Len(s) \div 2 THEN "REPEATING"
                   ELSE IF unique <= Len(s) \div 4 THEN "CLUSTERED" ELSE "RANDOM"

HeadsOf(layer) == {h \in AnalyzedHeads : <<layer, h>> \in DOMAIN access_counts}
HeadCount(layer, h) == access_counts[<<layer, h>>]

\* The n heads of a layer that come first, or last, when sorted by count.
FirstHeads(layer, n) ==
  CHOOSE S \in SUBSET HeadsOf(layer) :
    /\ Cardinality(S) = n
    /\ \A h \in S, g \in HeadsOf(layer) \ S : HeadCount(layer, h) >= HeadCount(layer, g)

LayerPattern(layer) ==
  LET mine == FoldLeft(LAMBDA found, a :
                         IF a.layer = layer THEN Append(found, a.block) ELSE found,
                       <<>>, access_history_)
      n == Cardinality(HeadsOf(layer))
      top == Lesser(TopHeads, n)
  IN [total |-> FoldSet(LAMBDA h, sum : sum + HeadCount(layer, h), 0, HeadsOf(layer)),
      type |-> detectPatternType(mine),
      hot |-> FirstHeads(layer, top),
      cold |-> IF n > top THEN HeadsOf(layer) \ FirstHeads(layer, n - top) ELSE {}]

LayerPatterns == [layer \in {k[1] : k \in DOMAIN access_counts} |-> LayerPattern(layer)]

\* A cache that is valid and not empty is returned as it is.
analyzeLayerPatterns ==
  /\ patterns_dirty_ \/ cached_layer_patterns_ = <<>>
  /\ cached_layer_patterns_' = LayerPatterns
  /\ patterns_dirty_' = FALSE
  /\ UNCHANGED <<counted, shape_, fate, processedAccesses, inits, followed>>

\* Before initialize the threshold of analyzeHeadPatterns divides by zero.
analyzeHeadPatterns ==
  /\ access_counts # <<>> /\ shape_[1] * shape_[2] = 0
  /\ aborted' = TRUE
  /\ UNCHANGED <<counted, patterns, shape_, stuck, processedAccesses, inits, followed>>

-----------------------------------------------------------------------------
(* Predictions *)

Successors(b) == {k[2] : k \in {p \in DOMAIN transition_counts_ : p[1] = b}}

\* Markov predictions first, the most frequent successors of b in front (sort
\* leaves the order of equals open), then what followed b in the window, in its
\* order and with repetitions.
MarkovPredictions(b) ==
  CHOOSE q \in [1..Cardinality(Successors(b)) -> Successors(b)] :
    /\ IsInjective(q)
    /\ \A i, j \in DOMAIN q :
         i < j => transition_counts_[<<b, q[i]>>] >= transition_counts_[<<b, q[j]>>]

SequencePredictions(b) ==
  FoldLeftDomain(LAMBDA found, i :
      IF i < Len(block_sequence_) /\ block_sequence_[i] = b
      THEN Append(found, block_sequence_[i + 1]) ELSE found,
    <<>>, block_sequence_)

Predictions(b) ==
  LET all == MarkovPredictions(b) \o SequencePredictions(b)
  IN SubSeq(all, 1, Lesser(PredictionWindow, Len(all)))

\* With nothing in the sequence its size less one wraps and the search reads
\* beyond it.
predictNextAccess ==
  /\ block_sequence_ = <<>>
  /\ aborted' = TRUE
  /\ UNCHANGED <<counted, patterns, shape_, stuck, processedAccesses, inits, followed>>

\* predictNextAccess, called with the mutex held.
Relocks(c) ==
  /\ stuck' = stuck \cup {c}
  /\ UNCHANGED <<counted, patterns, shape_, aborted, processedAccesses, inits, followed>>

\* Both return, with nothing to predict, while the sequence is empty.
getPrefetchSuggestions(c) == block_sequence_ # <<>> /\ Relocks(c)

\* The hot and cold blocks and the matrix of the report are never returned.
generateReport(c) == block_sequence_ # <<>> /\ Relocks(c)

\* Any call made when the mutex is lost.
WaitsForEver(c) ==
  /\ ~aborted /\ stuck # {} /\ c \notin stuck
  /\ stuck' = stuck \cup {c}
  /\ UNCHANGED <<counted, patterns, shape_, aborted, processedAccesses, inits, followed>>

-----------------------------------------------------------------------------
AnalyzerNext ==
  \E c \in AnalyzerCallers :
    \/ /\ Enters(c)
       /\ \/ \E access \in Access : Process(access)
          \/ \E layers \in AnalyzedLayers, heads \in AnalyzedHeads :
               InitializeAnalyzer(layers + 1, heads + 1)
          \/ ResetAnalyzer
          \/ analyzeLayerPatterns \/ analyzeHeadPatterns
          \/ predictNextAccess \/ getPrefetchSuggestions(c) \/ generateReport(c)
    \/ WaitsForEver(c)

AnalyzerSpec == AnalyzerInit /\ [][AnalyzerNext]_analyzerVars

-----------------------------------------------------------------------------
(* Properties *)

\* The blocks predicted after a block are those that were accessed right after
\* it since the analyzer was initialized or reset, whatever has left the window.
PredictionsObserved ==
  PredictionWindow >= Cardinality(AnalyzedBlocks) =>
    \A b \in AnalyzedBlocks :
      Range(Predictions(b)) = {p[2] : p \in {q \in followed : q[1] = b}}

\* Patterns that are not marked dirty are those of the accesses so far.
CacheFresh == ~patterns_dirty_ => cached_layer_patterns_ = LayerPatterns

\* What the analyzer answers is about the accesses it was told of, all of them
\* for predictions, and none left out of patterns that come from the cache.
AnswersCurrent == PredictionsObserved /\ CacheFresh

=============================================================================
