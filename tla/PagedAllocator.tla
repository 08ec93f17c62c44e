--------------------------- MODULE PagedAllocator ---------------------------
(***************************************************************************)
(* The paged block allocator (src/allocator/paged_allocator.cpp): tiers of *)
(* fixed-size blocks, a FIFO free list per tier, the index of used blocks  *)
(* by tier and by layer, usage counters and statistics, all behind one     *)
(* std::shared_mutex (mutex_).                                             *)
(*                                                                         *)
(* A call that keeps mutex_ from its first to its last access is one       *)
(* action.  allocateSequence is not such a call: it takes the mutex once   *)
(* per block, links the blocks without it and takes it again for every     *)
(* block it rolls back, so it is a loop of actions driven by pc.  So is a  *)
(* caller's read-modify-write of a block's metadata.                       *)
(*                                                                         *)
(* Abstracted: the bytes of the blocks and their addresses, head ids,      *)
(* timestamps, ref_count (1 while the block is used, never read), and      *)
(* heat_score, which only orders eviction candidates.  mutex_ itself does  *)
(* not appear: no call of the allocator blocks while it keeps it.          *)
(***************************************************************************)
EXTENDS Integers, Sequences, FiniteSets

CONSTANTS
  Clients,        \* the threads that call the allocator
  Layers,         \* the layer ids they pass
  VramBlocks,     \* vram_pool_size / block_size
  RamBlocks,      \* ram_pool_size / block_size
  MaxBlockId,     \* bound: the last id next_block_id_ gives out
  MaxSequence,    \* bound: num_blocks of an allocateSequence call
  Calls,          \* which of OptionalCalls the clients make
  MaxListed,      \* how often an id is listed in tier_blocks_ or layer_blocks_
                  \* is counted up to here
  MaxSize,        \* SIZE_MAX: the counters of type size_t count modulo MaxSize + 1
  Exclusive       \* TRUE: clients lock or migrate only blocks they hold; FALSE:
                  \* any id that getAllBlockIds lists, those of FREE blocks too

OptionalCalls ==
  {"sequence", "lock", "migrate", "metadata", "defragment", "resetStats", "restart"}

ASSUME ConfigAssumption ==
  /\ Layers \subseteq Nat
  /\ VramBlocks \in Nat
  /\ RamBlocks \in Nat
  /\ MaxBlockId \in Nat
  /\ MaxSequence \in Nat \ {0}
  /\ MaxListed \in Nat \ {0}
  /\ MaxSize \in Nat /\ MaxBlockId <= MaxSize
  /\ Calls \subseteq OptionalCalls
  /\ Exclusive \in BOOLEAN

Tiers == {"HOT", "WARM", "COLD"}
BlockStates == {"FREE", "ALLOCATED", "LOCKED"}
BlockId == 1..MaxBlockId
NoBlock == 0                      \* for INVALID_BLOCK_ID (UINT64_MAX), no id
Metadata == [state : BlockStates, tier : Tiers,
             layer : Layers \cup {0}, next : BlockId \cup {NoBlock}]

VARIABLES
  initialized_,
  next_block_id_,
  block_metadata_,  \* a map from the ids of the existing blocks
  free_lists_,      \* [tier -> queue of ids]
  tier_blocks_,     \* [tier -> [id -> how often the vector holds it]]
  layer_blocks_,    \* [layer -> [id -> how often the vector holds it]]
  tier_usages_,
  net_allocations_, \* total_allocations_ - total_deallocations_
  peak_usage_,
  pc,               \* where each client is
  request,          \* layer and length of its allocateSequence call
  blocks,           \* the blocks that call has so far
  copy,             \* the metadata a client has read and will write back
  held             \* the ids a client was given and has not given up

pool == <<initialized_, next_block_id_, block_metadata_, free_lists_,
          tier_blocks_, layer_blocks_, tier_usages_>>
stats == <<net_allocations_, peak_usage_>>
local == <<pc, request, blocks, copy>>
vars == <<pool, stats, local, held>>

NoRequest == [layer |-> 0, count |-> 0]
NoCopy == [id |-> NoBlock,
           metadata |-> [state |-> "FREE", tier |-> "HOT", layer |-> 0, next |-> NoBlock]]

Exists(b) == b \in DOMAIN block_metadata_
Allocated(b) == Exists(b) /\ block_metadata_[b].state = "ALLOCATED"
InUse(b) == Exists(b) /\ block_metadata_[b].state # "FREE"

\* Arithmetic of std::size_t.
Plus(m, n) == IF m + n > MaxSize THEN m + n - (MaxSize + 1) ELSE m + n


LessOne(n) == IF n = 0 THEN MaxSize ELSE n - 1

Usage == Plus(Plus(tier_usages_["HOT"], tier_usages_["WARM"]), tier_usages_["COLD"])

PoolTypeOK ==
  /\ initialized_ \in BOOLEAN
  /\ next_block_id_ \in 1..MaxBlockId + 1
  /\ DOMAIN block_metadata_ \subseteq BlockId
  /\ block_metadata_ \in [DOMAIN block_metadata_ -> Metadata]
  /\ free_lists_ \in [Tiers -> Seq(BlockId)]
  /\ tier_blocks_ \in [Tiers -> [BlockId -> Nat]]
  /\ layer_blocks_ \in [Layers \cup {0} -> [BlockId -> Nat]]
  /\ tier_usages_ \in [Tiers -> 0..MaxSize]
  /\ net_allocations_ \in 0..MaxSize
  /\ peak_usage_ \in 0..MaxSize

ClientTypeOK ==
  /\ pc \in [Clients -> {"idle", "allocate", "link", "rollback", "rewrite"}]
  /\ request \in [Clients -> [layer : Layers \cup {0}, count : 0..MaxSequence]]
  /\ blocks \in [Clients -> Seq(BlockId)]
  /\ copy \in [Clients -> [id : BlockId \cup {NoBlock}, metadata : Metadata]]
  /\ held \in [Clients -> SUBSET BlockId]

TypeOK == PoolTypeOK /\ ClientTypeOK

Init ==
  /\ initialized_ = FALSE
  /\ next_block_id_ = 1
  /\ block_metadata_ = <<>>
  /\ free_lists_ = [t \in Tiers |-> <<>>]
  /\ tier_blocks_ = [t \in Tiers |-> [b \in BlockId |-> 0]]
  /\ layer_blocks_ = [l \in Layers \cup {0} |-> [b \in BlockId |-> 0]]
  /\ tier_usages_ = [t \in Tiers |-> 0]
  /\ net_allocations_ = 0
  /\ peak_usage_ = 0
  /\ pc = [c \in Clients |-> "idle"]
  /\ request = [c \in Clients |-> NoRequest]
  /\ blocks = [c \in Clients |-> <<>>]
  /\ copy = [c \in Clients |-> NoCopy]
  /\ held = [c \in Clients |-> {}]

-----------------------------------------------------------------------------
(* Lifecycle.  Neither call takes mutex_: the owner of the allocator makes *)
(* them while no other call is running.                                    *)

\* Fault: every initialization numbers its blocks from 1.
RestartedIds == 1

\* Fault: ids start at 0.
IdsFromZero == next_block_id_ - 1

\* allocateBlockId never gives the same id twice.
FirstNewId == next_block_id_
LastNewId == FirstNewId + VramBlocks + RamBlocks - 1

\* The ids of a new pool: VramBlocks HOT ones, then RamBlocks WARM ones.
NewIds(t) == CASE t = "HOT"  -> [i \in 1..VramBlocks |-> FirstNewId + i - 1]
               [] t = "WARM" -> [i \in 1..RamBlocks |-> FirstNewId + VramBlocks + i - 1]
               [] t = "COLD" -> <<>>
NewTier(b) == IF b < FirstNewId + VramBlocks THEN "HOT" ELSE "WARM"
FreshMetadata(t) == [state |-> "FREE", tier |-> t, layer |-> 0, next |-> NoBlock]

\* COLD has a capacity but gets neither blocks nor free list entries.
Initialize ==
  /\ ~initialized_
  /\ \A c \in Clients : pc[c] = "idle"
  /\ LastNewId <= MaxBlockId
  /\ initialized_' = TRUE
  /\ next_block_id_' = LastNewId + 1
  /\ free_lists_' = [t \in Tiers |-> free_lists_[t] \o NewIds(t)]
  /\ block_metadata_' =
       [b \in DOMAIN block_metadata_ \cup FirstNewId..LastNewId |->
          IF b >= FirstNewId THEN FreshMetadata(NewTier(b)) ELSE block_metadata_[b]]
  /\ UNCHANGED <<tier_blocks_, layer_blocks_, tier_usages_, stats, local, held>>

\* The metadata and the free lists go; the used-block index, the usage
\* counters, the statistics and the id counter stay as they are.
Shutdown ==
  /\ "restart" \in Calls
  /\ initialized_
  /\ \A c \in Clients : pc[c] = "idle"
  /\ initialized_' = FALSE
  /\ block_metadata_' = <<>>
  /\ free_lists_' = [t \in Tiers |-> <<>>]
  /\ UNCHANGED <<next_block_id_, tier_blocks_, layer_blocks_, tier_usages_,
                 stats, local, held>>

-----------------------------------------------------------------------------
(* allocateBlock *)

\* allocateFromTier is tried on the preferred tier, then on HOT.
Serves(t, preferred) ==
  /\ free_lists_[t] # <<>>
  /\ t = preferred \/ (t = "HOT" /\ free_lists_[preferred] = <<>>)
Exhausted(preferred) == free_lists_[preferred] = <<>> /\ free_lists_["HOT"] = <<>>

\* selectEvictionCandidates: the ALLOCATED blocks the index lists for a tier.
EvictionCandidates(t) ==
  {b \in DOMAIN block_metadata_ :
     tier_blocks_[t][b] > 0 /\ Allocated(b)}

PeakAfterTake == IF Plus(Usage, 1) > peak_usage_ THEN Plus(Usage, 1) ELSE peak_usage_

\* Fault: the front block is read but not popped.
Peeked(queue) == queue

Popped(queue) == Tail(queue)

\* push_back onto a vector of the index, counted up to MaxListed.
OnceMore(n) == IF n < MaxListed THEN n + 1 ELSE n

\* The success path of allocateBlock with the front block of tier t.
Take(t, layer) ==
  LET b == Head(free_lists_[t])
      home == block_metadata_[b].tier
  IN
  /\ free_lists_' = [free_lists_ EXCEPT ![t] = Popped(@)]
  /\ block_metadata_' =
       [block_metadata_ EXCEPT ![b].state = "ALLOCATED", ![b].layer = layer]
  /\ tier_blocks_' = [tier_blocks_ EXCEPT ![home][b] = OnceMore(@)]
  /\ layer_blocks_' = [layer_blocks_ EXCEPT ![layer][b] = OnceMore(@)]
  /\ tier_usages_' = [tier_usages_ EXCEPT ![home] = Plus(@, 1)]
  /\ net_allocations_' = Plus(net_allocations_, 1)
  /\ peak_usage_' = PeakAfterTake
  /\ UNCHANGED <<initialized_, next_block_id_>>

\* No free block and nothing to evict: allocateBlock reports "Out of memory".
OutOfMemory(preferred) == Exhausted(preferred) /\ EvictionCandidates(preferred) = {}

\* No free block but a candidate: tryEvictAndAllocate calls migrateBlock,
\* which locks mutex_ again.  Relocking a std::shared_mutex is undefined;
\* libstdc++ over glibc's pthread_rwlock_wrlock gets EDEADLK and throws
\* std::system_error, which leaves allocateBlock with nothing changed.
EvictionThrows(preferred) == Exhausted(preferred) /\ EvictionCandidates(preferred) # {}

AllocateBlock(c, layer, preferred) ==
  /\ pc[c] = "idle"
  /\ \/ \E t \in Tiers :
          /\ Serves(t, preferred)
          /\ Take(t, layer)
          /\ held' = [held EXCEPT ![c] = @ \cup {Head(free_lists_[t])}]
     \/ /\ OutOfMemory(preferred) \/ EvictionThrows(preferred)
        /\ UNCHANGED <<pool, stats, held>>
  /\ UNCHANGED local

-----------------------------------------------------------------------------
(* deallocateBlock: nothing happens unless the block is ALLOCATED. *)

Releasable(b) == Allocated(b)

\* Fault: the layer is reset before the block leaves its layer's list.
LayerAfterReset(b) == 0

FormerLayer(b) == block_metadata_[b].layer

\* Fault: the link to the next block of the sequence survives.
ResetKeepsNext(b) == [block_metadata_[b] EXCEPT !.state = "FREE", !.layer = 0]

Reset(b) == FreshMetadata(block_metadata_[b].tier)

\* Fault: freed blocks are reused last in, first out.
PushedInFront(queue, b) == <<b>> \o queue

Pushed(queue, b) == Append(queue, b)

Release(b) ==
  \/ /\ Releasable(b)
     /\ LET t == block_metadata_[b].tier
            layer == FormerLayer(b)
        IN
        /\ tier_blocks_' = [tier_blocks_ EXCEPT ![t][b] = 0]
        /\ layer_blocks_' = [layer_blocks_ EXCEPT ![layer][b] = 0]
        /\ block_metadata_' = [block_metadata_ EXCEPT ![b] = Reset(b)]
        /\ free_lists_' = [free_lists_ EXCEPT ![t] = Pushed(@, b)]
        /\ tier_usages_' = [tier_usages_ EXCEPT ![t] = LessOne(@)]
     /\ net_allocations_' = LessOne(net_allocations_)
     /\ UNCHANGED <<initialized_, next_block_id_, peak_usage_>>
  \/ /\ ~Releasable(b)
     /\ UNCHANGED <<pool, stats>>

\* Also one round of deallocateSequence.  The caller gives the id up.
DeallocateBlock(c, b) ==
  /\ pc[c] = "idle"
  /\ b \in held[c]
  /\ Release(b)
  /\ held' = [held EXCEPT ![c] = @ \ {b}]
  /\ UNCHANGED local

-----------------------------------------------------------------------------
(* allocateSequence: always prefers HOT. *)

AllocateSequence(c, layer, n) ==
  /\ "sequence" \in Calls
  /\ pc[c] = "idle"
  /\ pc' = [pc EXCEPT ![c] = "allocate"]
  /\ request' = [request EXCEPT ![c] = [layer |-> layer, count |-> n]]
  /\ UNCHANGED <<pool, stats, blocks, copy, held>>

Return(c) ==
  /\ pc' = [pc EXCEPT ![c] = "idle"]
  /\ request' = [request EXCEPT ![c] = NoRequest]
  /\ blocks' = [blocks EXCEPT ![c] = <<>>]
  /\ UNCHANGED copy

\* One allocateBlock call of the loop.  An exception unwinds the whole call:
\* the blocks it already has are neither rolled back nor returned.
SequenceAllocate(c) ==
  /\ pc[c] = "allocate"
  /\ \/ /\ Serves("HOT", "HOT")
        /\ Take("HOT", request[c].layer)
        /\ blocks' = [blocks EXCEPT ![c] = Append(@, Head(free_lists_["HOT"]))]
        /\ pc' = [pc EXCEPT ![c] = "link"]
        /\ UNCHANGED <<request, copy>>
     \/ /\ OutOfMemory("HOT")
        /\ pc' = [pc EXCEPT ![c] = "rollback"]
        /\ UNCHANGED <<pool, stats, request, blocks, copy>>
     \/ /\ EvictionThrows("HOT")
        /\ Return(c)
        /\ UNCHANGED <<pool, stats>>
  /\ UNCHANGED held

\* The link from the previous block, written without mutex_; then the loop
\* goes on or the call returns its blocks.
SequenceLink(c) ==
  LET n == Len(blocks[c]) IN
  /\ pc[c] = "link"
  /\ block_metadata_' =
       IF n > 1 /\ Exists(blocks[c][n - 1])
       THEN [block_metadata_ EXCEPT ![blocks[c][n - 1]].next = blocks[c][n]]
       ELSE block_metadata_
  /\ \/ /\ n < request[c].count
        /\ pc' = [pc EXCEPT ![c] = "allocate"]
        /\ UNCHANGED <<request, blocks, copy, held>>
     \/ /\ n >= request[c].count
        /\ held' = [held EXCEPT ![c] = @ \cup {blocks[c][i] : i \in 1..n}]
        /\ Return(c)
  /\ UNCHANGED <<initialized_, next_block_id_, free_lists_, tier_blocks_,
                 layer_blocks_, tier_usages_, stats>>

\* Fault: the loop stays at a block it could not free.
UntilFreed(queue) == IF Releasable(Head(queue)) THEN Tail(queue) ELSE queue

Remaining(queue) == Tail(queue)

\* One deallocateBlock of the rollback loop, or its end.
SequenceRollback(c) ==
  /\ pc[c] = "rollback"
  /\ \/ /\ blocks[c] # <<>>
        /\ Release(Head(blocks[c]))
        /\ blocks' = [blocks EXCEPT ![c] = Remaining(@)]
        /\ UNCHANGED <<pc, request, copy>>
     \/ /\ blocks[c] = <<>>
        /\ Return(c)
        /\ UNCHANGED <<pool, stats>>
  /\ UNCHANGED held

-----------------------------------------------------------------------------
(* Calls on a block: what they check of it is that it exists. *)

Targets(c) == IF Exclusive THEN held[c] ELSE DOMAIN block_metadata_

SetState(b, state) ==
  /\ block_metadata_' = [block_metadata_ EXCEPT ![b].state = state]
  /\ UNCHANGED <<initialized_, next_block_id_, free_lists_, tier_blocks_,
                 layer_blocks_, tier_usages_, stats, local, held>>

LockBlock(c, b) ==
  /\ "lock" \in Calls
  /\ pc[c] = "idle"
  /\ b \in Targets(c)
  /\ Exists(b)
  /\ SetState(b, "LOCKED")

\* HetKVCache::releaseBlock passes on any id its user gives it.
UnlockBlock(c, b) ==
  /\ pc[c] = "idle"
  /\ Exists(b)
  /\ block_metadata_[b].state = "LOCKED"
  /\ SetState(b, "ALLOCATED")

\* Fault: the source tier goes on counting the block.
UsageInBoth(source, target) == [tier_usages_ EXCEPT ![target] = Plus(@, 1)]

UsageAfterMove(source, target) ==
  [tier_usages_ EXCEPT ![source] = LessOne(@), ![target] = Plus(@, 1)]

\* Fault: the contents arrive as an ordinary block.
StateForgotten(b) == "ALLOCATED"

StateMoved(b) == block_metadata_[b].state

\* Neither the used-block index nor the caller learns the new id: the block
\* the caller named is FREE afterwards, so the caller gives that id up.  A
\* LOCKED block moves like any other.  A FREE one moves too: it is listed a
\* second time, and the block it is moved to is listed no more.
MigrateBlock(c, b, target) ==
  LET source == block_metadata_[b].tier
      new == Head(free_lists_[target])
  IN
  /\ "migrate" \in Calls
  /\ pc[c] = "idle"
  /\ b \in Targets(c)
  /\ Exists(b)
  /\ source # target
  /\ free_lists_[target] # <<>>
  /\ block_metadata_' =
       [block_metadata_ EXCEPT ![new].state = StateMoved(b),
                               ![new].layer = block_metadata_[b].layer,
                               ![b].state = "FREE"]
  /\ free_lists_' = [free_lists_ EXCEPT ![target] = Tail(@), ![source] = Append(@, b)]
  /\ tier_usages_' = UsageAfterMove(source, target)
  /\ held' = [held EXCEPT ![c] = @ \ {b}]
  /\ UNCHANGED <<initialized_, next_block_id_, tier_blocks_, layer_blocks_,
                 stats, local>>

\* getBlockMetadata ... updateBlockMetadata: the caller changes fields this
\* module abstracts (heat, sequence range) in a copy it writes back whole.
ReadMetadata(c, b) ==
  /\ "metadata" \in Calls
  /\ pc[c] = "idle"
  /\ b \in held[c]
  /\ Exists(b)
  /\ pc' = [pc EXCEPT ![c] = "rewrite"]
  /\ copy' = [copy EXCEPT ![c] = [id |-> b, metadata |-> block_metadata_[b]]]
  /\ UNCHANGED <<pool, stats, request, blocks, held>>

WriteMetadata(c) ==
  /\ pc[c] = "rewrite"
  /\ block_metadata_' =
       [b \in DOMAIN block_metadata_ \cup {copy[c].id} |->
          IF b = copy[c].id THEN copy[c].metadata ELSE block_metadata_[b]]
  /\ pc' = [pc EXCEPT ![c] = "idle"]
  /\ copy' = [copy EXCEPT ![c] = NoCopy]
  /\ UNCHANGED <<initialized_, next_block_id_, free_lists_, tier_blocks_,
                 layer_blocks_, tier_usages_, stats, request, blocks, held>>

-----------------------------------------------------------------------------
(* Maintenance *)

\* The order-preserving enumerations of a set of positions.
Enumerations(positions) ==
  {f \in [1..Cardinality(positions) -> positions] :
     /\ \A i, j \in DOMAIN f : i < j => f[i] < f[j]
     /\ \A p \in positions : \E i \in DOMAIN f : f[i] = p}

\* Fault: the loop stops before the last entry of the old list.
KeptShort(queue) == 1..Len(queue) - 1

\* defragment pops every free list empty and pushes back the FREE blocks.
Kept(queue) == {i \in 1..Len(queue) : Exists(queue[i]) /\ ~InUse(queue[i])}
Refills(queue) == {[i \in DOMAIN f |-> queue[f[i]]] : f \in Enumerations(Kept(queue))}

Defragment(c) ==
  /\ "defragment" \in Calls
  /\ pc[c] = "idle"
  /\ \E hot \in Refills(free_lists_["HOT"]), warm \in Refills(free_lists_["WARM"]),
        cold \in Refills(free_lists_["COLD"]) :
       free_lists_' = [free_lists_ EXCEPT !["HOT"] = hot, !["WARM"] = warm, !["COLD"] = cold]
  /\ UNCHANGED <<initialized_, next_block_id_, block_metadata_, tier_blocks_,
                 layer_blocks_, tier_usages_, stats, local, held>>

\* Three stores without mutex_; one step here: a client call that comes in
\* between only shifts the counters, which are off after the reset anyway.
ResetStats ==
  /\ "resetStats" \in Calls
  /\ net_allocations_' = 0
  /\ peak_usage_' = 0
  /\ UNCHANGED <<pool, local, held>>

-----------------------------------------------------------------------------
ClientNext(c) ==
  \/ \E l \in Layers, t \in Tiers : AllocateBlock(c, l, t)
  \/ \E b \in held[c] : DeallocateBlock(c, b)
  \/ \E l \in Layers, n \in 1..MaxSequence : AllocateSequence(c, l, n)
  \/ SequenceAllocate(c)
  \/ SequenceLink(c)
  \/ SequenceRollback(c)
  \/ \E b \in Targets(c) : LockBlock(c, b)
  \/ \E b \in DOMAIN block_metadata_ : UnlockBlock(c, b)
  \/ \E b \in Targets(c), t \in Tiers : MigrateBlock(c, b, t)
  \/ \E b \in held[c] : ReadMetadata(c, b)
  \/ WriteMetadata(c)
  \/ Defragment(c)

Next == Initialize \/ Shutdown \/ ResetStats \/ \E c \in Clients : ClientNext(c)

Spec == Init /\ [][Next]_vars

-----------------------------------------------------------------------------
(* Properties *)

IdsIn(queue) == {queue[i] : i \in 1..Len(queue)}
FreeIn(t) == {b \in DOMAIN block_metadata_ : ~InUse(b) /\ block_metadata_[b].tier = t}
UsedIn(t) == {b \in DOMAIN block_metadata_ : InUse(b) /\ block_metadata_[b].tier = t}
NoDuplicates(queue) == \A i, j \in 1..Len(queue) : queue[i] = queue[j] => i = j

\* The free list of a tier holds each FREE block of the tier exactly once and
\* no other: a block listed twice would be handed out twice by allocateBlock,
\* a FREE one that is missing could never be handed out again.
FreeListsExact ==
  \A t \in Tiers :
    NoDuplicates(free_lists_[t]) /\ IdsIn(free_lists_[t]) = FreeIn(t)

\* Until a shutdown, the pool consists of all the ids that were given out.
NothingClosed == DOMAIN block_metadata_ = 1..next_block_id_ - 1

\* Until a shutdown, tier_usages_, which HetKVCache reports as used bytes,
\* counts the blocks of the tier that are in use, also after blocks have moved
\* between tiers: the unsigned counters neither wrap nor drift.
UsageCountsBlocks ==
  NothingClosed => \A t \in Tiers : tier_usages_[t] = Cardinality(UsedIn(t))


\* The used-block index that eviction and getBlocksByTier/getBlocksByLayer
\* read lists every block in use once, under its tier and its layer, and no
\* other existing block.
IndexExact ==
  \A b \in DOMAIN block_metadata_ :
    /\ \A t \in Tiers :
         tier_blocks_[t][b] = IF InUse(b) /\ block_metadata_[b].tier = t THEN 1 ELSE 0
    /\ \A l \in DOMAIN layer_blocks_ :
         layer_blocks_[l][b] = IF InUse(b) /\ block_metadata_[b].layer = l THEN 1 ELSE 0

\* What a client may take for its own: the ids it holds and those its
\* running allocateSequence call has taken so far.
Owned(c) == held[c] \cup IdsIn(blocks[c])

\* No block belongs to two clients, and a block that belongs to a client is
\* not FREE, so allocateBlock cannot hand it to another: also while sequences
\* are built and rolled back, and for ids kept across a restart.
HeldExclusively ==
  /\ \A c, d \in Clients : c # d => Owned(c) \cap Owned(d) = {}
  /\ \A c \in Clients : \A b \in Owned(c) : Exists(b) => InUse(b)
  /\ \A c \in Clients : NoDuplicates(blocks[c]) /\ held[c] \cap IdsIn(blocks[c]) = {}

\* getStats: until a shutdown, free_blocks, computed as the number of blocks
\* minus the difference of two counters, is what the free lists really hold,
\* and the usage of the moment is not above peak_usage.
StatsMatchPool ==
  NothingClosed =>
    /\ Cardinality(DOMAIN block_metadata_) - net_allocations_ =
         Len(free_lists_["HOT"]) + Len(free_lists_["WARM"]) + Len(free_lists_["COLD"])
    /\ Usage <= peak_usage_

\* A call of allocateSequence that returns blocks has linked them: next_block
\* leads from each to the following one, and from the last one nowhere.
Linked(s) ==
  \A i \in 1..Len(s) :
    block_metadata_'[s[i]].next = IF i = Len(s) THEN NoBlock ELSE s[i + 1]
SequenceLinked ==
  [][\A c \in Clients : pc[c] = "link" /\ pc'[c] = "idle" => Linked(blocks[c])]_vars

\* No lock is ever lost, whoever frees, migrates, rolls back or writes back
\* metadata: a block that is LOCKED stays in use in its layer or, where its
\* holder has migrated it, a block that was FREE is LOCKED in its stead.
LockHolds ==
  [][\A b \in DOMAIN block_metadata_ \cap DOMAIN block_metadata_' :
       block_metadata_[b].state = "LOCKED" =>
         \E n \in DOMAIN block_metadata_' :
           /\ block_metadata_'[n].layer = block_metadata_[b].layer
           /\ \/ n = b /\ block_metadata_'[n].state # "FREE"
              \/ ~InUse(n) /\ block_metadata_'[n].state = "LOCKED"]_vars

\* "LOCKED: must not be migrated" (types.h): a LOCKED block of the pool stays
\* what it is until it is unlocked; no call frees it.
LockedNotMigrated ==
  [][\A b \in DOMAIN block_metadata_ \cap DOMAIN block_metadata_' :
       block_metadata_[b].state = "LOCKED" => block_metadata_'[b].state # "FREE"]_vars

\* "Try to evict and allocate": where the preferred tier is full but holds a
\* block that may be evicted, and the next tier has room for it, the
\* allocation succeeds.  Seen in the loop of allocateSequence.
EvictionMakesRoom ==
  [][\A c \in Clients :
       /\ pc[c] = "allocate" /\ pc'[c] # "allocate"
       /\ EvictionCandidates("HOT") # {} /\ free_lists_["WARM"] # <<>>
       => Len(blocks'[c]) > Len(blocks[c])]_vars

-----------------------------------------------------------------------------
(* The inductive invariant of exclusive use, behind FreeListsExact and the *)
(* others                                                                  *)

\* Existing blocks and all ids clients have were given out before.
IdsIssued ==
  /\ \A b \in DOMAIN block_metadata_ : b < next_block_id_
  /\ \A c \in Clients : \A b \in Owned(c) : b < next_block_id_

\* What a client is about to write back agrees with the block's metadata in
\* the tier, and in that the block is in use.
CopyCurrent ==
  \A c \in Clients : pc[c] = "rewrite" =>
    /\ copy[c].id \in held[c] /\ InUse(copy[c].id)
    /\ copy[c].metadata.state # "FREE"
    /\ copy[c].metadata.tier = block_metadata_[copy[c].id].tier

PoolInv ==
  /\ TypeOK
  /\ IdsIssued
  /\ CopyCurrent
  /\ FreeListsExact
  /\ HeldExclusively

-----------------------------------------------------------------------------
(* Liveness *)

\* A thread inside a call is scheduled again.
Fairness == \A c \in Clients :
  WF_vars(SequenceAllocate(c) \/ SequenceLink(c) \/ SequenceRollback(c) \/ WriteMetadata(c))
FairSpec == Spec /\ Fairness

\* Every allocateSequence call ends, with its blocks, without any, or with an
\* exception, whatever the other clients lock or free meanwhile.
SequenceEnds == \A c \in Clients :
  pc[c] \in {"allocate", "link", "rollback"} ~> pc[c] = "idle"

TakesFrom(t) == free_lists_[t] # <<>> /\ \E l \in Layers : Take(t, l)

\* Reuse is first in, first out: while blocks keep being taken from a tier,
\* no FREE block of it is passed over for ever.
FreeBlocksRotate ==
  \A t \in Tiers, b \in BlockId :
    []<><<TakesFrom(t)>>_vars =>
      [](b \in IdsIn(free_lists_[t]) => <>(b \notin IdsIn(free_lists_[t])))

=============================================================================
