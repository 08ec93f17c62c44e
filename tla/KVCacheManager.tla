---------------------------- MODULE KVCacheManager ----------------------------
(***************************************************************************)
(* The facade HetKVCache (src/core/kv_cache_manager.cpp) with the parts it *)
(* drives: handles and the blocks each owns, the allocator as the queue of *)
(* its free VRAM blocks, the heat evaluator, and the background worker that*)
(* rescores all blocks and asks the migration engine to move some.  The    *)
(* engine is never initialized: what is submitted stays queued.            *)
(*                                                                         *)
(* handle_mutex_ is held through allocateKVCache, extendKVCache and        *)
(* deallocateKVCache; each turn of their loops is one action, because the  *)
(* evaluator's updates run between them without that mutex.                *)
(*                                                                         *)
(* The lock-free monitor is always chosen, so monitor_ is null and every   *)
(* call that uses it ends the process (crashed).  The evaluator therefore  *)
(* never sees an access.                                                   *)
(*                                                                         *)
(* Abstracted: heads, dimensions and sizes.  Left out: releaseBlock, which *)
(* unlocks a block nothing locked, and calls that change no state.         *)
(***************************************************************************)
EXTENDS HeatEvaluator, Sequences

CONSTANTS
  Clients,      \* threads that call the facade
  Background,   \* background_thread_
  Shapes,       \* the <<num_layers, blocks per layer>> they ask for
  MaxHandles,   \* bound: handles ever allocated
  Calls         \* which of OptionalCalls are made

OptionalCalls == {"extend", "trigger", "access", "destroy"}
Unheld == "unheld"    \* handle_mutex_ while no client holds it

ASSUME ManagerAssumption ==
  /\ Updaters = Clients \cup {Background} /\ Background \notin Clients
  /\ Unheld \notin Clients
  /\ Shapes \subseteq LayerCounts \X Nat
  /\ MaxHandles \in Nat \ {0}
  /\ Calls \subseteq OptionalCalls
  /\ Cardinality(Blocks) <= 10     \* a query of 10 or 100 blocks returns all

VARIABLES
  initialized_,
  running_,
  owner,             \* the thread that creates and destroys the instance
  lockfree_monitor_, \* TRUE where it was chosen and monitor_ is null
  crashed,
  handle_mutex_,     \* the client that holds it, or Unheld
  handles_,          \* handle -> what was asked for and the blocks
  next_handle_,
  block_to_handle_,
  free_blocks,       \* the allocator's free list of VRAM blocks
  cpc,               \* where each client is
  call,              \* handle and shape it works on, blocks done and left
  bpc,               \* where the background worker is
  submitted          \* tasks queued in the engine

lifecycle == <<initialized_, running_, owner, lockfree_monitor_>>
ownership == <<handles_, next_handle_, block_to_handle_, free_blocks>>
client == <<handle_mutex_, cpc, call>>
managerVars == <<heatVars, lifecycle, crashed, ownership, client, bpc, submitted>>

INVALID_HANDLE == 0

Handles == 1..MaxHandles
HandleInfo == [num_layers : LayerCounts, num_blocks : Nat, blocks : Seq(Blocks)]
Call == [handle : 0..MaxHandles, num_layers : LayerCounts \cup {0}, extra : Nat,
         left : Nat, blocks : Seq(Blocks)]
NoCall == [handle |-> INVALID_HANDLE, num_layers |-> 0, extra |-> 0, left |-> 0, blocks |-> <<>>]
Task == [block : Blocks, from : Tiers, to : Tiers, priority : 0..3]

ManagerTypeOK ==
  /\ HeatTypeOK
  /\ initialized_ \in BOOLEAN /\ running_ \in BOOLEAN /\ crashed \in BOOLEAN
  /\ lockfree_monitor_ \in BOOLEAN
  /\ owner \in {"create", "run", "join", "destroyed"}
  /\ handle_mutex_ \in Clients \cup {Unheld}
  /\ DOMAIN handles_ \subseteq Handles /\ handles_ \in [DOMAIN handles_ -> HandleInfo]
  /\ next_handle_ \in 1..(MaxHandles + 1)
  /\ DOMAIN block_to_handle_ \subseteq Blocks /\ Range(block_to_handle_) \subseteq Handles
  /\ free_blocks \in Seq(Blocks)
  /\ cpc \in [Clients -> {"idle", "allocate", "extend", "deallocate", "update", "recommend"}]
  /\ call \in [Clients -> Call]
  /\ bpc \in {"none", "check", "update", "recommend", "ended"}
  /\ submitted \subseteq Task

\* Fault: handles are counted from INVALID_HANDLE.
FirstHandleZero == 0

FirstHandle == 1

\* use_lockfree_monitor_ starts out true and the configuration is or-ed to it.
LockfreeChosen(configured) == configured \/ TRUE

ManagerInit ==
  /\ HeatInit
  /\ initialized_ = FALSE /\ running_ = FALSE /\ owner = "create" /\ crashed = FALSE
  /\ \E configured \in BOOLEAN : lockfree_monitor_ = LockfreeChosen(configured)
  /\ handle_mutex_ = Unheld
  /\ handles_ = <<>> /\ next_handle_ = FirstHandle /\ block_to_handle_ = <<>>
  /\ free_blocks = <<>>
  /\ cpc = [c \in Clients |-> "idle"]
  /\ call = [c \in Clients |-> NoCall]
  /\ bpc = "none"
  /\ submitted = {}

-----------------------------------------------------------------------------
(* Lifecycle: nobody else uses the instance before create returns or once  *)
(* destroy is called.                                                      *)

\* initialize: the allocator comes up with all blocks free, in some order,
\* and the background thread starts.
Create ==
  /\ owner = "create"
  /\ owner' = "run" /\ initialized_' = TRUE /\ running_' = TRUE
  /\ free_blocks' = CHOOSE s \in [1..Cardinality(Blocks) -> Blocks] : Range(s) = Blocks
  /\ bpc' = "check"
  /\ UNCHANGED <<heatVars, lockfree_monitor_, crashed, handles_, next_handle_,
                 block_to_handle_, client, submitted>>

Destroy ==
  /\ "destroy" \in Calls /\ owner = "run" /\ \A c \in Clients : cpc[c] = "idle"
  /\ owner' = "join" /\ running_' = FALSE
  /\ UNCHANGED <<heatVars, initialized_, lockfree_monitor_, crashed, ownership, client,
                 bpc, submitted>>

\* The thread has ended: the allocator is shut down and the instance deleted.
Joined ==
  /\ owner = "join" /\ bpc = "ended"
  /\ owner' = "destroyed" /\ initialized_' = FALSE
  /\ free_blocks' = <<>> /\ handles_' = <<>> /\ block_to_handle_' = <<>>
  /\ UNCHANGED <<heatVars, running_, lockfree_monitor_, crashed, next_handle_, client,
                 bpc, submitted>>

-----------------------------------------------------------------------------
(* Allocation *)

Acquired(c, pc, request) ==
  /\ owner = "run" /\ cpc[c] = "idle" /\ handle_mutex_ = Unheld
  /\ handle_mutex_' = c
  /\ cpc' = [cpc EXCEPT ![c] = pc]
  /\ call' = [call EXCEPT ![c] = request]

Released(c) ==
  /\ handle_mutex_' = Unheld
  /\ cpc' = [cpc EXCEPT ![c] = "idle"]
  /\ call' = [call EXCEPT ![c] = NoCall]

\* A shape of <<layers, n>> takes n blocks for each layer.
BeginAllocate(c, shape) ==
  /\ next_handle_ <= MaxHandles
  /\ Acquired(c, "allocate", [handle |-> next_handle_, num_layers |-> shape[1], extra |-> shape[2],
                              left |-> shape[1] * shape[2], blocks |-> <<>>])
  /\ next_handle_' = next_handle_ + 1
  /\ UNCHANGED <<heatVars, lifecycle, crashed, handles_, block_to_handle_, free_blocks,
                 bpc, submitted>>

BeginExtend(c, h, n) ==
  /\ "extend" \in Calls /\ h \in DOMAIN handles_
  /\ Acquired(c, "extend", [handle |-> h, num_layers |-> handles_[h].num_layers, extra |-> n,
                            left |-> handles_[h].num_layers * n, blocks |-> <<>>])
  /\ UNCHANGED <<heatVars, lifecycle, crashed, ownership, bpc, submitted>>

Mapped(b, h) == Added(block_to_handle_, b, h)

\* One turn of the loops: a free block is taken, recorded and registered with
\* the evaluator.  extendKVCache appends to the handle at once, allocateKVCache
\* to a record of its own.
AllocateOne(c) ==
  /\ cpc[c] \in {"allocate", "extend"} /\ call[c].left > 0 /\ free_blocks # <<>>
  /\ LET b == Head(free_blocks)
         h == call[c].handle
     IN /\ free_blocks' = Tail(free_blocks)
        /\ block_to_handle_' = Mapped(b, h)
        /\ RegisterBlock(b)
        /\ call' = [call EXCEPT ![c].left = @ - 1, ![c].blocks = Append(@, b)]
        /\ handles_' = IF cpc[c] = "extend"
                       THEN [handles_ EXCEPT ![h].blocks = Append(@, b)]
                       ELSE handles_
  /\ UNCHANGED <<lifecycle, crashed, next_handle_, handle_mutex_, cpc, bpc, submitted>>

\* VRAM is full: allocateBlock throws out of the call.  Blocks already taken
\* keep their owner, which for allocateKVCache is a handle nobody has.
AllocationThrows(c) ==
  /\ cpc[c] \in {"allocate", "extend"} /\ call[c].left > 0 /\ free_blocks = <<>>
  /\ Released(c)
  /\ UNCHANGED <<heatVars, lifecycle, crashed, ownership, bpc, submitted>>

EndAllocate(c) ==
  /\ cpc[c] = "allocate" /\ call[c].left = 0
  /\ handles_' = Added(handles_, call[c].handle,
                       [num_layers |-> call[c].num_layers, num_blocks |-> call[c].extra,
                        blocks |-> call[c].blocks])
  /\ SetNumLayers(call[c].num_layers)
  /\ Released(c)
  /\ UNCHANGED <<lifecycle, crashed, next_handle_, block_to_handle_, free_blocks, bpc, submitted>>

EndExtend(c) ==
  /\ cpc[c] = "extend" /\ call[c].left = 0
  /\ handles_' = [handles_ EXCEPT ![call[c].handle].num_blocks = @ + Len(call[c].blocks)]
  /\ Released(c)
  /\ UNCHANGED <<heatVars, lifecycle, crashed, next_handle_, block_to_handle_, free_blocks,
                 bpc, submitted>>

-----------------------------------------------------------------------------
(* Deallocation *)

BeginDeallocate(c, h) ==
  /\ h \in DOMAIN handles_
  /\ Acquired(c, "deallocate", [NoCall EXCEPT !.handle = h, !.blocks = handles_[h].blocks])
  /\ UNCHANGED <<heatVars, lifecycle, crashed, ownership, bpc, submitted>>

\* Fault: a freed block keeps its owner.
OwnerKept(b) == block_to_handle_

OwnerErased(b) == Without(block_to_handle_, {b})

DeallocateOne(c) ==
  /\ cpc[c] = "deallocate" /\ call[c].blocks # <<>>
  /\ LET b == Head(call[c].blocks)
     IN /\ free_blocks' = Append(free_blocks, b)
        /\ block_to_handle_' = OwnerErased(b)
        /\ UnregisterBlock(b)
  /\ call' = [call EXCEPT ![c].blocks = Tail(@)]
  /\ UNCHANGED <<lifecycle, crashed, handles_, next_handle_, handle_mutex_, cpc, bpc, submitted>>

EndDeallocate(c) ==
  /\ cpc[c] = "deallocate" /\ call[c].blocks = <<>>
  /\ handles_' = Without(handles_, {call[c].handle})
  /\ Released(c)
  /\ UNCHANGED <<heatVars, lifecycle, crashed, next_handle_, block_to_handle_, free_blocks,
                 bpc, submitted>>

-----------------------------------------------------------------------------
(* Access: the first thing the call does is to use monitor_, and so do the *)
(* statistics, their reset and the access callback.                        *)

UseMonitor(c) ==
  /\ "access" \in Calls /\ owner = "run" /\ cpc[c] = "idle" /\ lockfree_monitor_
  /\ crashed' = TRUE
  /\ UNCHANGED <<heatVars, lifecycle, ownership, client, bpc, submitted>>

\* accessBlock, and accessBlocks, getKCache and getVCache that call it.
accessBlock(c) == UseMonitor(c)

\* getStatistics and resetStatistics.
Statistics(c) == UseMonitor(c)

setAccessCallback(c) == UseMonitor(c)

-----------------------------------------------------------------------------
(* Migration *)

Hotter(t) == CASE t = "HOT" -> 0 [] t = "WARM" -> 1 [] t = "COLD" -> 2

MigrationPriority(entry) ==
  (IF Hotter(entry.recommended) < Hotter(entry.tier) THEN entry.heat ELSE 100 - entry.heat)
    + Lesser(entry.count, 50)

\* getBlocksForMigration.
Recommended(from, to) ==
  {[block |-> b, from |-> from, to |-> to, priority |-> MigrationPriority(block_heat_info_[b])] :
     b \in {r \in Registered : /\ block_heat_info_[r].tier = from
                               /\ block_heat_info_[r].recommended = to}}

\* The engine scales the priority and queues the tasks.
processHeatRecommendations(recs) ==
  submitted' = submitted \cup {[rec EXCEPT !.priority = Lesser(@ \div 25, 3)] : rec \in recs}

BeginTrigger(c) ==
  /\ "trigger" \in Calls /\ owner = "run" /\ cpc[c] = "idle"
  /\ cpc' = [cpc EXCEPT ![c] = "update"]
  /\ BeginUpdate(c)
  /\ UNCHANGED <<lifecycle, crashed, ownership, handle_mutex_, call, bpc, submitted>>

TriggerUpdated(c) ==
  /\ cpc[c] = "update"
  /\ cpc' = [cpc EXCEPT ![c] = "recommend"]
  /\ EndUpdate(c)
  /\ UNCHANGED <<lifecycle, crashed, ownership, handle_mutex_, call, bpc, submitted>>

EndTrigger(c) ==
  /\ cpc[c] = "recommend"
  /\ cpc' = [cpc EXCEPT ![c] = "idle"]
  /\ processHeatRecommendations(
       Recommended("HOT", "WARM") \cup Recommended("WARM", "COLD")
         \cup Recommended("WARM", "HOT") \cup Recommended("COLD", "WARM"))
  /\ UNCHANGED <<heatVars, lifecycle, crashed, ownership, handle_mutex_, call, bpc>>

\* Fault: the worker does not look at running_.
RunsForEver == TRUE

KeepsRunning == running_

BackgroundStarts ==
  /\ bpc = "check" /\ KeepsRunning
  /\ bpc' = "update"
  /\ BeginUpdate(Background)
  /\ UNCHANGED <<lifecycle, crashed, ownership, client, submitted>>

BackgroundUpdated ==
  /\ bpc = "update"
  /\ bpc' = "recommend"
  /\ EndUpdate(Background)
  /\ UNCHANGED <<lifecycle, crashed, ownership, client, submitted>>

\* processMigrationRecommendations, then 100 ms of sleep.
BackgroundRecommends ==
  /\ bpc = "recommend"
  /\ bpc' = "check"
  /\ processHeatRecommendations(Recommended("HOT", "WARM"))
  /\ UNCHANGED <<heatVars, lifecycle, crashed, ownership, client>>

BackgroundEnds ==
  /\ bpc = "check" /\ ~KeepsRunning
  /\ bpc' = "ended"
  /\ UNCHANGED <<heatVars, lifecycle, crashed, ownership, client, submitted>>

\* Any updater goes on with an update it has begun.
Updating(u) ==
  /\ \E b \in Blocks : ComputeHeat(u, b) \/ WriteBack(u, b)
  /\ UNCHANGED <<lifecycle, crashed, ownership, client, bpc, submitted>>

-----------------------------------------------------------------------------
BackgroundStep ==
  \/ BackgroundStarts \/ Updating(Background) \/ BackgroundUpdated
  \/ BackgroundRecommends \/ BackgroundEnds

\* What a client does once it is in a call.
Continue(c) ==
  \/ AllocateOne(c) \/ AllocationThrows(c) \/ EndAllocate(c) \/ EndExtend(c)
  \/ DeallocateOne(c) \/ EndDeallocate(c)
  \/ Updating(c) \/ TriggerUpdated(c) \/ EndTrigger(c)

Begin(c) ==
  \/ \E shape \in Shapes : \/ BeginAllocate(c, shape)
                           \/ \E h \in Handles : BeginExtend(c, h, shape[2])
  \/ \E h \in Handles : BeginDeallocate(c, h)
  \/ BeginTrigger(c)
  \/ accessBlock(c) \/ Statistics(c) \/ setAccessCallback(c)

ManagerNext ==
  /\ ~crashed
  /\ \/ Create \/ Destroy \/ Joined
     \/ BackgroundStep
     \/ \E c \in Clients : Begin(c) \/ Continue(c)

\* Threads that can run do run: the background worker, the owner waiting to
\* join it, and clients inside a call.  Nobody has to make a call.
ManagerFairness ==
  /\ WF_managerVars(~crashed /\ BackgroundStep)
  /\ WF_managerVars(~crashed /\ Joined)
  /\ \A c \in Clients : WF_managerVars(~crashed /\ Continue(c))

ManagerSpec == ManagerInit /\ [][ManagerNext]_managerVars /\ ManagerFairness

-----------------------------------------------------------------------------
(* Properties *)

\* Whenever no call holds handle_mutex_, the four places that know of a block
\* agree: the allocator has it free or block_to_handle_ names its owner, the
\* evaluator has an entry for exactly the owned ones, and an existing handle
\* lists once each exactly the blocks it owns, whatever calls failed halfway
\* and whatever updates were under way.
OwnersAgree ==
  owner = "run" /\ handle_mutex_ = Unheld =>
    /\ Registered = DOMAIN block_to_handle_
    /\ Range(free_blocks) = Blocks \ DOMAIN block_to_handle_
    /\ \A h \in DOMAIN handles_ :
         /\ IsInjective(handles_[h].blocks)
         /\ Range(handles_[h].blocks) =
              {b \in DOMAIN block_to_handle_ : block_to_handle_[b] = h}

\* A block in use gets its score from the background worker, unless it is
\* freed or the instance stops.
BlocksScored ==
  \A b \in Blocks :
    b \in Registered ~> \/ b \notin Registered
                        \/ block_heat_info_[b].evaluated # 0
                        \/ ~running_ \/ crashed

\* destroy returns: the background worker sees running_ and ends.
DestroyEnds == owner = "join" ~> owner = "destroyed"

\* The documented tiering: a block whose recommended tier is COLD while it is
\* in VRAM is at last queued for migration, unless it is freed or the instance
\* stops.
ColdBlocksMove ==
  \A b \in Blocks :
    b \in Registered /\ block_heat_info_[b].recommended = "COLD"
      ~> \/ b \notin Registered
         \/ \E task \in submitted : task.block = b
         \/ ~running_ \/ crashed

=============================================================================
