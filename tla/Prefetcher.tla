------------------------------- MODULE Prefetcher -------------------------------
(***************************************************************************)
(* The prefetcher (src/migration/prefetcher.cpp): a window of the last     *)
(* accesses, counts of which block followed which, and predictions.        *)
(*                                                                         *)
(* triggerPrefetch and getPrefetchSuggestions predict in one critical      *)
(* section of mutex_ and judge the predictions in another, where           *)
(* computePrefetchPriority locks the mutex its caller holds: such a call   *)
(* never returns, and no later one gets the mutex.  So no block ever is    *)
(* prefetched: prefetched_blocks_ stays empty, calls about a prefetched    *)
(* block change nothing, and both statistics stay zero.                    *)
(***************************************************************************)
EXTENDS Integers, SequencesExt, MapOps

CONSTANTS
  PrefetchCallers,
  PrefetchBlocks,   \* integers: sequential predictions add to them
  Strategies,       \* of SEQUENTIAL, MARKOV, ADAPTIVE and ORACLE
  Windows,          \* values of max_prefetch_window
  Lookahead,        \* prefetch_lookahead
  MaxModelUpdates,  \* bound: calls of updateModel
  MaxConfigs        \* bound: calls of setConfig

ASSUME PrefetchAssumption ==
  /\ PrefetchBlocks \subseteq Nat
  /\ Strategies \subseteq {"SEQUENTIAL", "MARKOV", "ADAPTIVE", "ORACLE"}
  /\ Windows \subseteq Nat /\ Lookahead \in Nat
  /\ MaxModelUpdates \in Nat /\ MaxConfigs \in Nat

VARIABLES
  config_,            \* strategy and window
  recent_accesses_,
  transition_matrix_, \* <<from, to>> -> count
  predictions,        \* caller -> predictions it has made and not judged
  waiting_,           \* callers that wait for mutex_ for ever
  configs,
  accessed,           \* history: all accesses
  narrow              \* history: the window has been less than two

model == <<recent_accesses_, transition_matrix_, accessed>>
prefetchVars == <<config_, model, predictions, waiting_, configs, narrow>>

NotPredicted == <<-1>>

PrefetcherTypeOK ==
  /\ config_ \in [strategy : Strategies, window : Windows]
  /\ recent_accesses_ \in Seq(PrefetchBlocks)
  /\ DOMAIN transition_matrix_ \subseteq PrefetchBlocks \X PrefetchBlocks
  /\ Range(transition_matrix_) \subseteq Nat
  /\ predictions \in [PrefetchCallers -> Seq(Nat) \cup {NotPredicted}]
  /\ waiting_ \subseteq PrefetchCallers

PrefetcherInit ==
  /\ config_ \in [strategy : Strategies, window : Windows]
  /\ recent_accesses_ = <<>> /\ transition_matrix_ = <<>> /\ accessed = <<>>
  /\ predictions = [c \in PrefetchCallers |-> NotPredicted]
  /\ waiting_ = {} /\ configs = 0
  /\ narrow = (config_.window < 2)

MutexFree == waiting_ = {}
Free(c) == MutexFree /\ predictions[c] = NotPredicted

-----------------------------------------------------------------------------
\* Fault: the window is full one access too early.
TrimmedEarly(s) == IF Len(s) >= config_.window THEN Tail(s) ELSE s

\* One access leaves, even if the window has shrunk by more.
TrimmedWindow(s) == IF Len(s) > config_.window THEN Tail(s) ELSE s

UpdateModel(b) ==
  LET recent == TrimmedWindow(Append(recent_accesses_, b))
      pair == <<recent[Len(recent) - 1], b>>
  IN /\ Len(accessed) < MaxModelUpdates
     /\ accessed' = Append(accessed, b)
     /\ recent_accesses_' = recent
     /\ transition_matrix_' =
          IF Len(recent) >= 2
          THEN Added(transition_matrix_, pair, Lookup(transition_matrix_, pair, 0) + 1)
          ELSE transition_matrix_
     /\ UNCHANGED <<config_, predictions, waiting_, configs, narrow>>

SetConfig(strategy, window) ==
  /\ configs < MaxConfigs
  /\ configs' = configs + 1
  /\ config_' = [strategy |-> strategy, window |-> window]
  /\ narrow' = (narrow \/ window < 2)
  /\ UNCHANGED <<model, predictions, waiting_>>

-----------------------------------------------------------------------------
(* Predictions *)

Followers(b) == {k[2] : k \in {p \in DOMAIN transition_matrix_ : p[1] = b}}

\* The blocks markovPredict may return: of several followers that came most
\* often, the first in the order of a hash table.
MarkovPredict(b) ==
  {x \in Followers(b) : \A y \in Followers(b) :
     transition_matrix_[<<b, x>>] >= transition_matrix_[<<b, y>>]}

Sequential(b) == [i \in 1..Lookahead |-> b + i]

\* The Markov prediction, then those of the next blocks that differ from it
\* while there is room in the window.
Adaptive(first, b) ==
  LET same == IF first = <<>> THEN 0 ELSE first[1] - b
      rest == IF same \in 1..Lookahead THEN RemoveAt(Sequential(b), same) ELSE Sequential(b)
      room == Greater(0, config_.window - Len(first))
  IN first \o SubSeq(rest, 1, Lesser(room, Len(rest)))

MarkovSequences(b) ==
  IF Followers(b) = {} THEN {<<>>} ELSE {<<x>> : x \in MarkovPredict(b)}

PredictNextBlocks(b) ==
  CASE config_.strategy = "SEQUENTIAL" -> {Sequential(b)}
    [] config_.strategy = "MARKOV" -> MarkovSequences(b)
    [] config_.strategy = "ADAPTIVE" -> {Adaptive(first, b) : first \in MarkovSequences(b)}
    [] config_.strategy = "ORACLE" -> {<<>>}

Predict(c, b) ==
  /\ Free(c)
  /\ \E p \in PredictNextBlocks(b) : predictions' = [predictions EXCEPT ![c] = p]
  /\ UNCHANGED <<config_, model, waiting_, configs, narrow>>

\* Nothing predicted: the call returns.
ReturnsEmpty(c) ==
  /\ MutexFree /\ predictions[c] = <<>>
  /\ predictions' = [predictions EXCEPT ![c] = NotPredicted]
  /\ UNCHANGED <<config_, model, waiting_, configs, narrow>>

\* The priority of the first prediction is computed: the mutex is locked again.
LocksAgain(c) ==
  /\ MutexFree /\ predictions[c] \notin {<<>>, NotPredicted}
  /\ waiting_' = waiting_ \cup {c}
  /\ UNCHANGED <<config_, model, predictions, configs, narrow>>

-----------------------------------------------------------------------------
PrefetcherNext ==
  \E c \in PrefetchCallers :
    \/ /\ Free(c)
       /\ \/ \E b \in PrefetchBlocks : UpdateModel(b)
          \/ \E strategy \in Strategies, window \in Windows : SetConfig(strategy, window)
    \/ \E b \in PrefetchBlocks : Predict(c, b)
    \/ ReturnsEmpty(c) \/ LocksAgain(c)

PrefetcherSpec == PrefetcherInit /\ [][PrefetcherNext]_prefetchVars

-----------------------------------------------------------------------------
(* Properties *)

Pairs(s) == {<<s[i], s[i + 1]>> : i \in 1..(Len(s) - 1)}
Times(s, pair) == Cardinality({i \in 1..(Len(s) - 1) : <<s[i], s[i + 1]>> = pair})

\* The matrix counts every pair of consecutive accesses, however few of them
\* the window keeps and however it is changed, as long as it never is less than
\* two; and it never counts more.
TransitionsCounted ==
  /\ DOMAIN transition_matrix_ \subseteq Pairs(accessed)
  /\ \A pair \in DOMAIN transition_matrix_ : transition_matrix_[pair] <= Times(accessed, pair)
  /\ ~narrow => transition_matrix_ = [pair \in Pairs(accessed) |-> Times(accessed, pair)]

=============================================================================
