------------------------------ MODULE StreamManager ------------------------------
(***************************************************************************)
(* The stream pool and its C interface (src/cuda/stream_manager.cu).  A    *)
(* pool lends its streams and creates temporary ones when all are lent; a  *)
(* stream that comes back is pooled again or, if it is not of the pool,    *)
(* destroyed.                                                              *)
(*                                                                         *)
(* The calls of a pool are critical sections of its mutex_.  The C         *)
(* functions around them test and change g_initialized and the pointer     *)
(* g_stream_manager without one.  Each test of the pointer, each load of   *)
(* it for a call and the call itself are steps of their own; assigning to  *)
(* the unique_ptr, or resetting it, loads the old pointer, stores the new  *)
(* one and deletes the old pool.  So a pool may be lost, deleted twice, or *)
(* called when it is gone; the last two end the behaviour (fallen).        *)
(*                                                                         *)
(* A creation that fails in initialize calls cleanup, which locks the      *)
(* mutex again: the thread never returns, and nobody gets the mutex        *)
(* (jammed).  The driver hands out the lowest handle that is not in use,   *)
(* so handles come back; creation may fail at any time.                    *)
(***************************************************************************)
EXTENDS Integers, Sequences, FiniteSets, Functions, MapOps

CONSTANTS
  StreamUsers,    \* threads in the C interface
  DriverHandles,  \* stream handles of the driver
  PoolSize,       \* pool_size
  MaxPools        \* bound: pools ever made

ASSUME StreamAssumption ==
  /\ DriverHandles \subseteq Nat \ {0} /\ IsFiniteSet(DriverHandles)
  /\ PoolSize \in Nat /\ MaxPools \in Nat

VARIABLES
  live,               \* handles the driver knows
  g_initialized,
  g_stream_manager,   \* the pool it points to, or Null
  pools, dead,        \* how many pools were made, and those that were deleted
  pool_initialized,   \* pools whose initialized_ is set
  streams_, pooled_,  \* streams of each pool, and its available_
  jammed,             \* pools whose mutex is held for ever
  upc,                \* where each thread is
  loaded,             \* the pool whose pointer each thread has loaded
  made,               \* the pool each thread is putting in place
  lent,               \* streams each thread has acquired and not released
  careless,           \* history: a stream outlived its pool, or went to another
  overlapped,         \* history: two threads initialized or cleaned up at once
  fallen              \* the process used what is not there

globals == <<g_initialized, g_stream_manager>>
contents == <<pool_initialized, streams_, pooled_, live>>
pointers == <<loaded, made>>
streamVars == <<globals, pools, dead, contents, jammed, upc, pointers, lent, careless,
                overlapped, fallen>>

Pools == 1..MaxPools
Null == 0
Unread == -1    \* no pointer was loaded

\* Where a thread initializes or cleans up, and where it calls a pool.
Managing == {"swap", "store", "delete", "fill", "flag", "clean", "unflag", "jammed"}
Calling == {"fill", "clean", "acquire", "release"}
Places == Managing \cup {"idle", "found", "acquire", "release"}

StreamTypeOK ==
  /\ live \subseteq DriverHandles
  /\ {g_initialized, careless, overlapped, fallen} \subseteq BOOLEAN
  /\ g_stream_manager \in 0..MaxPools /\ pools \in 0..MaxPools
  /\ dead \subseteq Pools /\ pool_initialized \subseteq Pools /\ jammed \subseteq Pools
  /\ streams_ \in [Pools -> SUBSET DriverHandles] /\ pooled_ \in [Pools -> Seq(DriverHandles)]
  /\ upc \in [StreamUsers -> Places]
  /\ loaded \in [StreamUsers -> -1..MaxPools] /\ made \in [StreamUsers -> 0..MaxPools]
  /\ lent \in [StreamUsers -> SUBSET DriverHandles]

StreamInit ==
  /\ live = {} /\ pools = 0 /\ dead = {} /\ pool_initialized = {} /\ jammed = {}
  /\ streams_ = [p \in Pools |-> {}] /\ pooled_ = [p \in Pools |-> <<>>]
  /\ g_initialized = FALSE /\ g_stream_manager = Null
  /\ upc = [u \in StreamUsers |-> "idle"]
  /\ loaded = [u \in StreamUsers |-> Unread] /\ made = [u \in StreamUsers |-> Null]
  /\ lent = [u \in StreamUsers |-> {}]
  /\ careless = FALSE /\ overlapped = FALSE /\ fallen = FALSE

Exists(p) == p \in 1..pools \ dead

GoUser(u, from, to) == upc[u] = from /\ upc' = [upc EXCEPT ![u] = to]

\* Pointers that are not needed any more.
Forget(u) == loaded' = [loaded EXCEPT ![u] = Unread] /\ made' = [made EXCEPT ![u] = Null]

LentStreams == UNION Range(lent)

Overlaps(u) ==
  overlapped' = (overlapped \/ \E v \in StreamUsers \ {u} : upc[v] \in Managing)

\* cleanup of a pool that exists and whose mutex is free.
EmptyPool(p) ==
  /\ Exists(p) /\ p \notin jammed
  /\ live' = live \ streams_[p]
  /\ streams_' = [streams_ EXCEPT ![p] = {}]
  /\ pooled_' = [pooled_ EXCEPT ![p] = <<>>]
  /\ pool_initialized' = pool_initialized \ {p}
  /\ careless' = (careless \/ streams_[p] \cap LentStreams # {})

\* The n lowest handles that are not in use.
FreshHandles(n) ==
  CHOOSE S \in SUBSET (DriverHandles \ live) :
    Cardinality(S) = n /\ \A s \in S, h \in DriverHandles \ live : h < s => h \in S

Ascending(S) ==
  CHOOSE q \in [1..Cardinality(S) -> S] : \A i, j \in 1..Cardinality(S) : i < j => q[i] < q[j]

\* A thread loads the pointer that it calls through.
LoadPointer(u) ==
  /\ upc[u] \in Calling /\ loaded[u] = Unread
  /\ loaded' = [loaded EXCEPT ![u] = g_stream_manager]
  /\ UNCHANGED <<globals, pools, dead, contents, jammed, upc, made, lent, careless,
                 overlapped, fallen>>

\* What it loaded is null, or no longer a pool.
UseDangling(u) ==
  /\ upc[u] \in Calling \cup {"delete"} /\ loaded[u] # Unread /\ ~Exists(loaded[u])
  /\ fallen' = TRUE
  /\ UNCHANGED <<globals, pools, dead, contents, jammed, upc, pointers, lent, careless,
                 overlapped>>

-----------------------------------------------------------------------------
(* The unique_ptr: assignment and reset *)

LoadOld(u) ==
  /\ GoUser(u, "swap", "store")
  /\ loaded' = [loaded EXCEPT ![u] = g_stream_manager]
  /\ UNCHANGED <<globals, pools, dead, contents, jammed, made, lent, careless, overlapped,
                 fallen>>

\* initialize goes on with the new pool, cleanup with the flag.
AfterSwap(u) == IF made[u] # Null THEN "fill" ELSE "unflag"

StoreNew(u) ==
  /\ GoUser(u, "store", IF loaded[u] = Null THEN AfterSwap(u) ELSE "delete")
  /\ g_stream_manager' = made[u]
  /\ loaded' = IF loaded[u] = Null THEN [loaded EXCEPT ![u] = Unread] ELSE loaded
  /\ UNCHANGED <<g_initialized, pools, dead, contents, jammed, made, lent, careless,
                 overlapped, fallen>>

\* The destructor cleans up, what came into the pool meanwhile too.
DeleteOld(u) ==
  /\ GoUser(u, "delete", AfterSwap(u))
  /\ EmptyPool(loaded[u])
  /\ dead' = dead \cup {loaded[u]}
  /\ loaded' = [loaded EXCEPT ![u] = Unread]
  /\ UNCHANGED <<globals, pools, jammed, made, lent, overlapped, fallen>>

-----------------------------------------------------------------------------
(* stream_manager_initialize *)

BeginInitialize(u) ==
  /\ ~g_initialized /\ pools < MaxPools
  /\ GoUser(u, "idle", "swap")
  /\ pools' = pools + 1 /\ made' = [made EXCEPT ![u] = pools + 1]
  /\ Overlaps(u)
  /\ UNCHANGED <<globals, dead, contents, jammed, loaded, lent, careless, fallen>>

\* New streams for a pool that has none.
FilledWith(p, n) ==
  LET new == FreshHandles(n)
  IN /\ live' = live \cup new
     /\ streams_' = [streams_ EXCEPT ![p] = new]
     /\ pooled_' = [pooled_ EXCEPT ![p] = Ascending(new)]

\* It need not be the pool that the thread has made.
FillPool(u) ==
  /\ Exists(loaded[u]) /\ loaded[u] \notin jammed
  /\ \/ /\ loaded[u] \in pool_initialized
        /\ GoUser(u, "fill", "flag")
        /\ UNCHANGED <<contents, jammed>>
     \/ /\ loaded[u] \notin pool_initialized /\ Cardinality(DriverHandles \ live) >= PoolSize
        /\ GoUser(u, "fill", "flag")
        /\ FilledWith(loaded[u], PoolSize)
        /\ pool_initialized' = pool_initialized \cup {loaded[u]}
        /\ UNCHANGED jammed
     \/ \E n \in 0..Lesser(PoolSize - 1, Cardinality(DriverHandles \ live)) :
          /\ loaded[u] \notin pool_initialized
          /\ GoUser(u, "fill", "jammed")
          /\ FilledWith(loaded[u], n)
          /\ jammed' = jammed \cup {loaded[u]}
          /\ UNCHANGED pool_initialized
  /\ Forget(u)
  /\ UNCHANGED <<globals, pools, dead, lent, careless, overlapped, fallen>>

FlagInitialized(u) ==
  /\ GoUser(u, "flag", "idle")
  /\ g_initialized' = TRUE
  /\ UNCHANGED <<g_stream_manager, pools, dead, contents, jammed, pointers, lent, careless,
                 overlapped, fallen>>

-----------------------------------------------------------------------------
(* stream_manager_cleanup *)

\* Without a pool there is nothing to clean, and the rest is done all the same.
BeginCleanUp(u) ==
  /\ GoUser(u, "idle", IF g_stream_manager # Null THEN "clean" ELSE "swap")
  /\ Overlaps(u)
  /\ UNCHANGED <<globals, pools, dead, contents, jammed, pointers, lent, careless, fallen>>

CleanPool(u) ==
  /\ GoUser(u, "clean", "swap")
  /\ EmptyPool(loaded[u])
  /\ loaded' = [loaded EXCEPT ![u] = Unread]
  /\ UNCHANGED <<globals, pools, dead, jammed, made, lent, overlapped, fallen>>

UnflagInitialized(u) ==
  /\ GoUser(u, "unflag", "idle")
  /\ g_initialized' = FALSE
  /\ UNCHANGED <<g_stream_manager, pools, dead, contents, jammed, pointers, lent, careless,
                 overlapped, fallen>>

-----------------------------------------------------------------------------
(* stream_acquire and stream_release *)

BeginAcquire(u) ==
  /\ g_initialized
  /\ GoUser(u, "idle", "found")
  /\ UNCHANGED <<globals, pools, dead, contents, jammed, pointers, lent, careless,
                 overlapped, fallen>>

FindPool(u) ==
  /\ GoUser(u, "found", IF g_stream_manager # Null THEN "acquire" ELSE "idle")
  /\ UNCHANGED <<globals, pools, dead, contents, jammed, pointers, lent, careless,
                 overlapped, fallen>>

Acquire(u) ==
  /\ Exists(loaded[u]) /\ loaded[u] \notin jammed
  /\ GoUser(u, "acquire", "idle")
  /\ IF pooled_[loaded[u]] # <<>>
     THEN /\ lent' = [lent EXCEPT ![u] = @ \cup {Head(pooled_[loaded[u]])}]
          /\ pooled_' = [pooled_ EXCEPT ![loaded[u]] = Tail(@)]
          /\ UNCHANGED live
     ELSE \/ UNCHANGED <<lent, live, pooled_>>
          \/ /\ DriverHandles \ live # {}
             /\ live' = live \cup FreshHandles(1)
             /\ lent' = [lent EXCEPT ![u] = @ \cup FreshHandles(1)]
             /\ UNCHANGED pooled_
  /\ Forget(u)
  /\ UNCHANGED <<globals, pools, dead, pool_initialized, streams_, jammed, careless,
                 overlapped, fallen>>

\* A user gives back what it acquired, once.
BeginRelease(u) ==
  /\ g_stream_manager # Null /\ lent[u] # {}
  /\ GoUser(u, "idle", "release")
  /\ UNCHANGED <<globals, pools, dead, contents, jammed, pointers, lent, careless,
                 overlapped, fallen>>

\* Fault: every stream that comes back is pooled.
AlwaysPooled(p, s) == TRUE

OfPool(p, s) == s \in streams_[p]

\* A stream of another pool is taken for a temporary one, and destroyed.
Release(u, s) ==
  /\ Exists(loaded[u]) /\ loaded[u] \notin jammed
  /\ GoUser(u, "release", "idle")
  /\ s \in lent[u] /\ lent' = [lent EXCEPT ![u] = @ \ {s}]
  /\ pooled_' = IF OfPool(loaded[u], s) THEN [pooled_ EXCEPT ![loaded[u]] = Append(@, s)] ELSE pooled_
  /\ live' = IF OfPool(loaded[u], s) THEN live ELSE live \ {s}
  /\ careless' = (careless \/ \E p \in Pools \ {loaded[u]} : s \in streams_[p])
  /\ Forget(u)
  /\ UNCHANGED <<globals, pools, dead, pool_initialized, streams_, jammed, overlapped, fallen>>

\* Without a pool the call does nothing, and the stream is nobody's.
ReleaseNowhere(u, s) ==
  /\ g_stream_manager = Null
  /\ upc[u] = "idle" /\ s \in lent[u] /\ lent' = [lent EXCEPT ![u] = @ \ {s}]
  /\ careless' = TRUE
  /\ UNCHANGED <<globals, pools, dead, contents, jammed, upc, pointers, overlapped, fallen>>

-----------------------------------------------------------------------------
StreamNext ==
  /\ ~fallen
  /\ \E u \in StreamUsers :
       \/ LoadPointer(u) \/ UseDangling(u) \/ LoadOld(u) \/ StoreNew(u) \/ DeleteOld(u)
       \/ BeginInitialize(u) \/ FillPool(u) \/ FlagInitialized(u)
       \/ BeginCleanUp(u) \/ CleanPool(u) \/ UnflagInitialized(u)
       \/ BeginAcquire(u) \/ FindPool(u) \/ Acquire(u) \/ BeginRelease(u)
       \/ \E s \in lent[u] : Release(u, s) \/ ReleaseNowhere(u, s)

StreamSpec == StreamInit /\ [][StreamNext]_streamVars

-----------------------------------------------------------------------------
(* Properties *)

\* As long as streams are given back to the pool they came from, and pools are not
\* cleaned while their streams are lent, and however threads initialize and clean
\* up meanwhile: no stream is lent twice, or lent and available, or in two pools;
\* and the driver's streams are those of the pools, the lost ones included, and
\* those that are lent.
StreamsAccounted ==
  ~careless =>
    /\ \A u, v \in StreamUsers : u # v => lent[u] \cap lent[v] = {}
    /\ \A p, q \in Pools : p # q => streams_[p] \cap streams_[q] = {}
    /\ \A p \in Pools : /\ IsInjective(pooled_[p])
                        /\ Range(pooled_[p]) = streams_[p] \ LentStreams
    /\ live = (UNION Range(streams_)) \cup LentStreams

\* A thread has yet to put the pool in place, or to delete it.
InHand(u, p) ==
  \/ upc[u] \in {"swap", "store"} /\ made[u] = p
  \/ upc[u] = "delete" /\ loaded[u] = p

\* As long as no two threads initialize or clean up at once, every pool that exists
\* can be reached, and none is deleted twice.
PoolsKept ==
  ~overlapped =>
    /\ \A p \in 1..pools \ dead :
         p = g_stream_manager \/ \E u \in StreamUsers : InHand(u, p)
    /\ \A u \in StreamUsers : upc[u] = "delete" => Exists(loaded[u])

=============================================================================
