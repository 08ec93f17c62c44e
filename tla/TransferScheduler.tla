----------------------------- MODULE TransferScheduler -----------------------------
(***************************************************************************)
(* The transfer scheduler (src/migration/transfer_scheduler.cpp): requests,*)
(* bandwidth estimates, and a queue of the streams transfers run on.       *)
(*                                                                         *)
(* Every call is one critical section of mutex_.  submitRequest stores its *)
(* request and computes its score, for which getEstimatedBandwidth locks   *)
(* the mutex again: the call never returns, and no later one gets the      *)
(* mutex.  So no request ever is in priority_queue_: scheduleNext finds it *)
(* empty, and cancelRequest, reorderTasks and clear find nothing to do.    *)
(*                                                                         *)
(* Abstracted: a bandwidth is known or estimated by default.  Left out:    *)
(* the contents of requests, and calls that change no state.               *)
(***************************************************************************)
EXTENDS Integers, Sequences, FiniteSets, Functions, MapOps

CONSTANTS
  SchedulerUsers,
  TransferStreams,
  StreamSets,       \* the pools that setStreamPool is given
  MaxPoolChanges    \* bound: calls of setStreamPool

ASSUME SchedulerAssumption ==
  /\ IsFiniteSet(TransferStreams)
  /\ StreamSets \subseteq SUBSET TransferStreams /\ MaxPoolChanges \in Nat

VARIABLES
  requests_,            \* ids
  next_request_id_,
  bandwidth_stats_,     \* <<from, to>> pairs that were measured
  stream_pool_,
  available_streams_,
  inUse,                \* streams each user has allocated
  locked_,              \* users that wait for mutex_ for ever
  poolChanges,
  replaced              \* history: the pool was replaced while streams were in use

streamQueue == <<stream_pool_, available_streams_, inUse, poolChanges, replaced>>
schedulerVars == <<requests_, next_request_id_, bandwidth_stats_, streamQueue, locked_>>

SchedulerTypeOK ==
  /\ requests_ \subseteq 1..(next_request_id_ - 1)
  /\ bandwidth_stats_ \subseteq {"HOT", "WARM", "COLD"} \X {"HOT", "WARM", "COLD"}
  /\ stream_pool_ \subseteq TransferStreams /\ available_streams_ \in Seq(TransferStreams)
  /\ inUse \in [SchedulerUsers -> SUBSET TransferStreams]
  /\ locked_ \subseteq SchedulerUsers
  /\ replaced \in BOOLEAN

SchedulerInit ==
  /\ requests_ = {} /\ next_request_id_ = 1 /\ bandwidth_stats_ = {}
  /\ stream_pool_ = {} /\ available_streams_ = <<>>
  /\ inUse = [u \in SchedulerUsers |-> {}]
  /\ locked_ = {} /\ poolChanges = 0 /\ replaced = FALSE

\* A batch of requests gets stuck in its first.
SubmitRequest(u) ==
  /\ requests_' = requests_ \cup {next_request_id_}
  /\ next_request_id_' = next_request_id_ + 1
  /\ locked_' = locked_ \cup {u}
  /\ UNCHANGED <<bandwidth_stats_, streamQueue>>

UpdateBandwidth(from, to) ==
  /\ bandwidth_stats_' = bandwidth_stats_ \cup {<<from, to>>}
  /\ UNCHANGED <<requests_, next_request_id_, streamQueue, locked_>>

-----------------------------------------------------------------------------
(* Streams *)

InUse == UNION Range(inUse)

\* All streams are available at once, those in use too.
SetStreamPool(S) ==
  /\ poolChanges < MaxPoolChanges
  /\ poolChanges' = poolChanges + 1
  /\ stream_pool_' = S
  /\ available_streams_' = CHOOSE q \in [1..Cardinality(S) -> S] : Range(q) = S
  /\ replaced' = (replaced \/ InUse # {})
  /\ UNCHANGED <<requests_, next_request_id_, bandwidth_stats_, inUse, locked_>>

RestOfQueue == Tail(available_streams_)

AllocateStream(u) ==
  /\ available_streams_ # <<>>
  /\ inUse' = [inUse EXCEPT ![u] = @ \cup {Head(available_streams_)}]
  /\ available_streams_' = RestOfQueue
  /\ UNCHANGED <<requests_, next_request_id_, bandwidth_stats_, stream_pool_, poolChanges,
                 replaced, locked_>>

\* A user gives back what it allocated, once.
ReleaseStream(u, s) ==
  /\ s \in inUse[u]
  /\ inUse' = [inUse EXCEPT ![u] = @ \ {s}]
  /\ available_streams_' = Append(available_streams_, s)
  /\ UNCHANGED <<requests_, next_request_id_, bandwidth_stats_, stream_pool_, poolChanges,
                 replaced, locked_>>

-----------------------------------------------------------------------------
SchedulerNext ==
  \E u \in SchedulerUsers :
    /\ locked_ = {}
    /\ \/ SubmitRequest(u)
       \/ UpdateBandwidth("HOT", "WARM")
       \/ \E S \in StreamSets : SetStreamPool(S)
       \/ AllocateStream(u)
       \/ \E s \in inUse[u] : ReleaseStream(u, s)

SchedulerSpec == SchedulerInit /\ [][SchedulerNext]_schedulerVars

-----------------------------------------------------------------------------
(* Properties *)

\* Every stream of the pool is available or in use by one user, never both, as
\* long as the pool is not replaced while streams are in use.
StreamsConserved ==
  ~replaced =>
    /\ IsInjective(available_streams_)
    /\ Range(available_streams_) = stream_pool_ \ InUse /\ InUse \subseteq stream_pool_
    /\ \A u, v \in SchedulerUsers : u # v => inUse[u] \cap inUse[v] = {}

=============================================================================
