------------------------ MODULE PagedAllocatorProofs ------------------------
(***************************************************************************)
(* Theorems about PagedAllocator for every pool size, every set of         *)
(* clients and every combination of calls.                                 *)
(***************************************************************************)
EXTENDS PagedAllocator, FiniteSetTheorems, SequenceTheorems, TLAPS

-----------------------------------------------------------------------------
(* Queues as sets *)

\* A value is one of a queue's ids exactly when some position holds it.
LEMMA IdsInMember ==
  ASSUME NEW S, NEW queue \in Seq(S), NEW b
  PROVE  b \in IdsIn(queue) <=> \E i \in 1..Len(queue) : queue[i] = b
  BY DEF IdsIn

\* Popping a queue without duplicates removes its front id from the set.
LEMMA PopIds ==
  ASSUME NEW S, NEW queue \in Seq(S), queue # <<>>, NoDuplicates(queue)
  PROVE  /\ Tail(queue) \in Seq(S)
         /\ Head(queue) \in S
         /\ NoDuplicates(Tail(queue))
         /\ Head(queue) \in IdsIn(queue)
         /\ IdsIn(Tail(queue)) = IdsIn(queue) \ {Head(queue)}
<1>1. /\ Tail(queue) \in Seq(S) /\ Head(queue) = queue[1] /\ Len(queue) \in Nat \ {0}
      /\ Len(Tail(queue)) = Len(queue) - 1
      /\ \A i \in 1..Len(queue) - 1 : Tail(queue)[i] = queue[i + 1]
      /\ \A i \in 1..Len(queue) : queue[i] \in S
  OBVIOUS
<1>2. NoDuplicates(Tail(queue))
  BY <1>1 DEF NoDuplicates
<1>3. ASSUME NEW b
      PROVE  b \in IdsIn(Tail(queue)) <=> b \in IdsIn(queue) \ {Head(queue)}
  <2>1. ASSUME b \in IdsIn(Tail(queue)) PROVE b \in IdsIn(queue) \ {Head(queue)}
    <3>1. PICK i \in 1..Len(queue) - 1 : Tail(queue)[i] = b
      BY <1>1, <2>1 DEF IdsIn
    <3>2. i + 1 \in 1..Len(queue) /\ queue[i + 1] = b /\ i + 1 # 1
      BY <1>1, <3>1
    <3>3. QED BY <1>1, <3>2 DEF IdsIn, NoDuplicates
  <2>2. ASSUME b \in IdsIn(queue) \ {Head(queue)} PROVE b \in IdsIn(Tail(queue))
    <3>1. PICK i \in 1..Len(queue) : queue[i] = b
      BY <2>2 DEF IdsIn
    <3>2. i - 1 \in 1..Len(queue) - 1 /\ Tail(queue)[i - 1] = b
      BY <1>1, <2>2, <3>1
    <3>3. QED BY <1>1, <3>2 DEF IdsIn
  <2>3. QED BY <2>1, <2>2
<1>4. Head(queue) \in IdsIn(queue)
  BY <1>1 DEF IdsIn
<1>5. QED BY <1>1, <1>2, <1>3, <1>4

\* Pushing an id a queue does not hold adds it to the set.
LEMMA PushIds ==
  ASSUME NEW S, NEW queue \in Seq(S), NEW b \in S, NoDuplicates(queue), b \notin IdsIn(queue)
  PROVE  /\ Append(queue, b) \in Seq(S)
         /\ NoDuplicates(Append(queue, b))
         /\ IdsIn(Append(queue, b)) = IdsIn(queue) \cup {b}
<1>1. /\ Append(queue, b) \in Seq(S) /\ Len(queue) \in Nat
      /\ Len(Append(queue, b)) = Len(queue) + 1
      /\ \A i \in 1..Len(queue) : Append(queue, b)[i] = queue[i]
      /\ Append(queue, b)[Len(queue) + 1] = b
  BY AppendProperties
<1>2. \A i \in 1..Len(queue) : queue[i] # b
  BY DEF IdsIn
<1>3. NoDuplicates(Append(queue, b))
  BY <1>1, <1>2 DEF NoDuplicates
<1>4. ASSUME NEW x
      PROVE  x \in IdsIn(Append(queue, b)) <=> x \in IdsIn(queue) \cup {b}
  <2>1. ASSUME x \in IdsIn(Append(queue, b)) PROVE x \in IdsIn(queue) \cup {b}
    BY <1>1, <2>1 DEF IdsIn
  <2>2. ASSUME x \in IdsIn(queue) PROVE x \in IdsIn(Append(queue, b))
    <3>1. PICK i \in 1..Len(queue) : queue[i] = x
      BY <2>2 DEF IdsIn
    <3>2. i \in 1..Len(queue) + 1 /\ Append(queue, b)[i] = x
      BY <1>1, <3>1
    <3>3. QED BY <1>1, <3>2 DEF IdsIn
  <2>3. b \in IdsIn(Append(queue, b))
    BY <1>1 DEF IdsIn
  <2>4. QED BY <2>1, <2>2, <2>3
<1>5. QED BY <1>1, <1>3, <1>4

-----------------------------------------------------------------------------
(* Types *)

\* A client that rewrites metadata has read that of an existing id.
CopyNamesBlock == \A c \in Clients : pc[c] = "rewrite" => copy[c].id \in BlockId
TypeInv == TypeOK /\ CopyNamesBlock

\* A map of metadata stays one when the metadata of one id changes.
LEMMA MetadataUpdate ==
  ASSUME NEW D, NEW f \in [D -> Metadata], NEW b, NEW m, b \in D => m \in Metadata
  PROVE  /\ [f EXCEPT ![b] = m] \in [D -> Metadata]
         /\ DOMAIN [f EXCEPT ![b] = m] = D
  OBVIOUS

\* Sums and differences of size_t are values of size_t; below SIZE_MAX they are
\* the ordinary ones.
LEMMA SizeArithmetic ==
  /\ \A m, n \in 0..MaxSize : Plus(m, n) \in 0..MaxSize
  /\ \A m, n \in 0..MaxSize : m + n <= MaxSize => Plus(m, n) = m + n
  /\ \A n \in 0..MaxSize : LessOne(n) \in 0..MaxSize
  /\ \A n \in 0..MaxSize : n # 0 => LessOne(n) = n - 1
  /\ 0 \in 0..MaxSize
BY ConfigAssumption DEF Plus, LessOne

\* One block fits in size_t when there is one.
LEMMA OneSize == ASSUME NEW b \in BlockId PROVE 1 \in 0..MaxSize
BY ConfigAssumption DEF BlockId

LEMMA TakeType ==
  ASSUME PoolTypeOK, NEW t \in Tiers, NEW layer \in Layers \cup {0},
         free_lists_[t] # <<>>, Take(t, layer)
  PROVE  PoolTypeOK'
<1>1. Tail(free_lists_[t]) \in Seq(BlockId)
  BY DEF PoolTypeOK
<1>2. free_lists_' \in [Tiers -> Seq(BlockId)]
  BY <1>1 DEF PoolTypeOK, Take, Popped
<1>3. DOMAIN block_metadata_' = DOMAIN block_metadata_
      /\ block_metadata_' \in [DOMAIN block_metadata_ -> Metadata]
  <2> DEFINE b == Head(free_lists_[t])
             m == [block_metadata_[b] EXCEPT !.state = "ALLOCATED", !.layer = layer]
  <2>1. block_metadata_' = [block_metadata_ EXCEPT ![b] = m]
    BY DEF Take
  <2>2. b \in DOMAIN block_metadata_ => m \in Metadata
    BY DEF PoolTypeOK, Metadata, BlockStates
  <2>3. QED BY <2>1, <2>2, MetadataUpdate DEF PoolTypeOK
<1>4. tier_blocks_' \in [Tiers -> [BlockId -> Nat]]
      /\ layer_blocks_' \in [Layers \cup {0} -> [BlockId -> Nat]]
  <2> DEFINE b == Head(free_lists_[t])
             home == block_metadata_[b].tier
  <2>0. \A n \in Nat : OnceMore(n) \in Nat
    BY DEF OnceMore
  <2>1. b \in BlockId
    BY DEF PoolTypeOK
  <2>2. layer_blocks_' \in [Layers \cup {0} -> [BlockId -> Nat]]
    BY <2>0, <2>1 DEF PoolTypeOK, Take
  <2>3. tier_blocks_' = [tier_blocks_ EXCEPT ![home][b] = OnceMore(@)]
        /\ tier_blocks_ \in [Tiers -> [BlockId -> Nat]]
    BY DEF PoolTypeOK, Take
  <2>4. tier_blocks_' \in [Tiers -> [BlockId -> Nat]]
    <3>1. CASE home \in Tiers
      BY <2>0, <2>1, <2>3, <3>1
    <3>2. CASE home \notin Tiers
      BY <2>3, <3>2
    <3>3. QED BY <3>1, <3>2
  <2>5. QED BY <2>2, <2>4
<1>5. /\ tier_usages_' \in [Tiers -> 0..MaxSize]
      /\ net_allocations_' \in 0..MaxSize /\ peak_usage_' \in 0..MaxSize
  <2> DEFINE home == block_metadata_[Head(free_lists_[t])].tier
  <2>0. 1 \in 0..MaxSize
    <3>1. Head(free_lists_[t]) \in BlockId
      BY DEF PoolTypeOK
    <3>2. QED BY <3>1, OneSize
  <2>1. Usage \in 0..MaxSize
    <3>1. \A s \in Tiers : tier_usages_[s] \in 0..MaxSize
      BY DEF PoolTypeOK
    <3>2. QED BY <3>1, SizeArithmetic DEF Usage, Tiers
  <2>2. net_allocations_' \in 0..MaxSize /\ peak_usage_' \in 0..MaxSize
    <3>1. net_allocations_ \in 0..MaxSize /\ peak_usage_ \in 0..MaxSize
      BY DEF PoolTypeOK
    <3>2. net_allocations_' = Plus(net_allocations_, 1) /\ peak_usage_' = PeakAfterTake
      BY DEF Take
    <3>3. QED BY <2>0, <2>1, <3>1, <3>2, SizeArithmetic DEF PeakAfterTake
  <2>3. tier_usages_' = [tier_usages_ EXCEPT ![home] = Plus(@, 1)]
        /\ tier_usages_ \in [Tiers -> 0..MaxSize]
    BY DEF PoolTypeOK, Take
  <2>4. \A s \in Tiers : Plus(tier_usages_[s], 1) \in 0..MaxSize
    BY <2>0, <2>3, SizeArithmetic
  <2>5. QED BY <2>2, <2>3, <2>4
<1>6. QED BY <1>2, <1>3, <1>4, <1>5 DEF PoolTypeOK, Take

LEMMA ReleaseType ==
  ASSUME PoolTypeOK, NEW b \in BlockId, Release(b)
  PROVE  PoolTypeOK'
<1>1. CASE ~Releasable(b)
  BY <1>1 DEF Release, PoolTypeOK, pool, stats
<1>2. CASE Releasable(b)
  <2> DEFINE t == block_metadata_[b].tier
             layer == block_metadata_[b].layer
  <2>1. t \in Tiers /\ b \in DOMAIN block_metadata_ /\ layer \in Layers \cup {0}
    BY <1>2 DEF PoolTypeOK, Releasable, Allocated, Exists, Metadata
  <2>2. /\ tier_blocks_' = [tier_blocks_ EXCEPT ![t][b] = 0]
        /\ layer_blocks_' = [layer_blocks_ EXCEPT ![layer][b] = 0]
        /\ block_metadata_' = [block_metadata_ EXCEPT ![b] = FreshMetadata(t)]
        /\ free_lists_' = [free_lists_ EXCEPT ![t] = Append(@, b)]
        /\ tier_usages_' = [tier_usages_ EXCEPT ![t] = LessOne(@)]
        /\ net_allocations_' = LessOne(net_allocations_)
        /\ UNCHANGED <<initialized_, next_block_id_, peak_usage_>>
    BY <1>2 DEF Release, Reset, FormerLayer, Pushed
  <2>3. free_lists_' \in [Tiers -> Seq(BlockId)]
    BY <2>1, <2>2 DEF PoolTypeOK
  <2>4. FreshMetadata(t) \in Metadata
    BY <2>1 DEF FreshMetadata, Metadata, BlockStates
  <2>5. DOMAIN block_metadata_' = DOMAIN block_metadata_
        /\ block_metadata_' \in [DOMAIN block_metadata_ -> Metadata]
    BY <2>1, <2>2, <2>4, MetadataUpdate DEF PoolTypeOK
  <2>6. tier_blocks_' \in [Tiers -> [BlockId -> Nat]]
        /\ layer_blocks_' \in [Layers \cup {0} -> [BlockId -> Nat]]
    BY <2>1, <2>2 DEF PoolTypeOK
  <2>7. tier_usages_' \in [Tiers -> 0..MaxSize] /\ net_allocations_' \in 0..MaxSize
    BY <2>1, <2>2, SizeArithmetic DEF PoolTypeOK
  <2>8. QED BY <2>2, <2>3, <2>5, <2>6, <2>7 DEF PoolTypeOK
<1>3. QED BY <1>1, <1>2

\* The enumerations of the kept positions of a queue give queues of its ids.
LEMMA RefillType ==
  ASSUME NEW S, NEW queue \in Seq(S), NEW refill \in Refills(queue)
  PROVE  refill \in Seq(S)
<1>1. PICK f \in Enumerations(Kept(queue)) : refill = [i \in DOMAIN f |-> queue[f[i]]]
  BY DEF Refills
<1>2. IsFiniteSet(Kept(queue)) /\ Cardinality(Kept(queue)) \in Nat
  <2>1. Len(queue) \in Nat /\ IsFiniteSet(1..Len(queue))
    BY FS_Interval
  <2>2. Kept(queue) \subseteq 1..Len(queue)
    BY DEF Kept
  <2>3. QED BY <2>1, <2>2, FS_Subset, FS_CardinalityType
<1>3. f \in [1..Cardinality(Kept(queue)) -> Kept(queue)]
  BY DEF Enumerations
<1>4. \A i \in 1..Cardinality(Kept(queue)) : queue[f[i]] \in S
  BY <1>3 DEF Kept
<1>5. refill \in [1..Cardinality(Kept(queue)) -> S]
  BY <1>1, <1>3, <1>4
<1>6. QED BY <1>2, <1>5

LEMMA InitializeType ==
  ASSUME TypeInv, Initialize
  PROVE  PoolTypeOK'
<1> DEFINE next == next_block_id_
           last == next + VramBlocks + RamBlocks - 1
<1>1. next \in 1..MaxBlockId + 1 /\ last \in Nat /\ last <= MaxBlockId /\ last + 1 >= next
      /\ VramBlocks \in Nat /\ RamBlocks \in Nat /\ MaxBlockId \in Nat
  BY ConfigAssumption DEF TypeInv, TypeOK, PoolTypeOK, Initialize, LastNewId, FirstNewId
<1>2. initialized_' \in BOOLEAN /\ next_block_id_' \in 1..MaxBlockId + 1
  BY <1>1 DEF Initialize, LastNewId, FirstNewId
<1>3. free_lists_' \in [Tiers -> Seq(BlockId)]
  <2>1. \A t \in Tiers : NewIds(t) \in Seq(BlockId)
    <3>1. \A i \in 1..VramBlocks : next + i - 1 \in BlockId
      BY <1>1 DEF BlockId
    <3>2. \A i \in 1..RamBlocks : next + VramBlocks + i - 1 \in BlockId
      BY <1>1 DEF BlockId
    <3>3. [i \in 1..VramBlocks |-> next + i - 1] \in Seq(BlockId)
      BY <1>1, <3>1
    <3>4. [i \in 1..RamBlocks |-> next + VramBlocks + i - 1] \in Seq(BlockId)
      BY <1>1, <3>2
    <3>5. NewIds("HOT") \in Seq(BlockId)
      BY <3>3 DEF NewIds, FirstNewId
    <3>6. NewIds("WARM") \in Seq(BlockId)
      BY <3>4 DEF NewIds, FirstNewId
    <3>7. NewIds("COLD") \in Seq(BlockId)
      BY DEF NewIds
    <3>8. QED BY <3>5, <3>6, <3>7 DEF Tiers
  <2>2. \A t \in Tiers : free_lists_[t] \o NewIds(t) \in Seq(BlockId)
    BY <2>1 DEF TypeInv, TypeOK, PoolTypeOK
  <2>3. QED BY <2>2 DEF Initialize
<1>4. DOMAIN block_metadata_' \subseteq BlockId
      /\ block_metadata_' \in [DOMAIN block_metadata_' -> Metadata]
  <2> DEFINE D == DOMAIN block_metadata_ \cup next..last
             m(b) == IF b >= next THEN FreshMetadata(NewTier(b)) ELSE block_metadata_[b]
  <2>1. block_metadata_' = [b \in D |-> m(b)]
    BY DEF Initialize, LastNewId, FirstNewId
  <2>2. D \subseteq BlockId
    BY <1>1 DEF TypeInv, TypeOK, PoolTypeOK, BlockId
  <2>3. \A b : FreshMetadata(NewTier(b)) \in Metadata
    BY DEF FreshMetadata, NewTier, Metadata, BlockStates, Tiers
  <2>4. \A b \in D : m(b) \in Metadata
    BY <1>1, <2>2, <2>3 DEF TypeInv, TypeOK, PoolTypeOK, BlockId
  <2>5. QED BY <2>1, <2>2, <2>4
<1>5. QED BY <1>2, <1>3, <1>4 DEF Initialize, PoolTypeOK, TypeInv, TypeOK, stats

\* Every step keeps the types.
LEMMA TypeStep == TypeInv /\ [Next]_vars => TypeInv'
<1> SUFFICES ASSUME TypeInv, [Next]_vars PROVE TypeInv'
  OBVIOUS
<1> USE DEF TypeInv, TypeOK
<1>1. CASE Initialize
  <2>1. PoolTypeOK'
    BY <1>1, InitializeType
  <2>2. ClientTypeOK' /\ CopyNamesBlock'
    BY <1>1 DEF Initialize, local, ClientTypeOK, CopyNamesBlock
  <2>3. QED BY <2>1, <2>2
<1>2. CASE Shutdown
  <2>1. free_lists_' \in [Tiers -> Seq(BlockId)]
    BY <1>2 DEF Shutdown
  <2>2. DOMAIN block_metadata_' \subseteq BlockId
        /\ block_metadata_' \in [DOMAIN block_metadata_' -> Metadata]
    <3>1. block_metadata_' = <<>> /\ DOMAIN <<>> = {}
      BY <1>2 DEF Shutdown
    <3>2. QED BY <3>1
  <2>3. PoolTypeOK'
    BY <1>2, <2>1, <2>2 DEF Shutdown, PoolTypeOK, stats
  <2>4. QED BY <1>2, <2>3 DEF Shutdown, local, ClientTypeOK, CopyNamesBlock
<1>3. CASE ResetStats
  BY <1>3, SizeArithmetic DEF ResetStats, pool, local, PoolTypeOK, ClientTypeOK, CopyNamesBlock
<1>4. ASSUME NEW c \in Clients, NEW l \in Layers, NEW t \in Tiers, AllocateBlock(c, l, t)
      PROVE  TypeInv'
  <2>1. CASE /\ OutOfMemory(t) \/ EvictionThrows(t)
             /\ UNCHANGED <<pool, stats, held>>
    BY <1>4, <2>1 DEF AllocateBlock, pool, stats, local, PoolTypeOK, ClientTypeOK, CopyNamesBlock
  <2>2. ASSUME NEW s \in Tiers, Serves(s, t), Take(s, l),
               held' = [held EXCEPT ![c] = @ \cup {Head(free_lists_[s])}]
        PROVE  TypeInv'
    <3>1. PoolTypeOK'
      BY <2>2, TakeType DEF Serves
    <3>2. Head(free_lists_[s]) \in BlockId
      BY <2>2 DEF Serves, PoolTypeOK
    <3>3. held' \in [Clients -> SUBSET BlockId]
      BY <2>2, <3>2 DEF ClientTypeOK
    <3>4. QED BY <1>4, <3>1, <3>3 DEF AllocateBlock, local, ClientTypeOK, CopyNamesBlock
  <2>3. QED BY <1>4, <2>1, <2>2 DEF AllocateBlock
<1>5. ASSUME NEW c \in Clients, NEW b \in held[c], DeallocateBlock(c, b)
      PROVE  TypeInv'
  <2>1. b \in BlockId /\ Release(b)
    BY <1>5 DEF DeallocateBlock, ClientTypeOK
  <2>2. PoolTypeOK'
    BY <2>1, ReleaseType
  <2>3. held' \in [Clients -> SUBSET BlockId]
    BY <1>5 DEF DeallocateBlock, ClientTypeOK
  <2>4. QED BY <1>5, <2>2, <2>3 DEF DeallocateBlock, local, ClientTypeOK, CopyNamesBlock
<1>6. ASSUME NEW c \in Clients, NEW l \in Layers, NEW n \in 1..MaxSequence,
             AllocateSequence(c, l, n)
      PROVE  TypeInv'
  <2>1. request' \in [Clients -> [layer : Layers \cup {0}, count : 0..MaxSequence]]
    BY <1>6, ConfigAssumption DEF AllocateSequence, ClientTypeOK
  <2>2. QED BY <1>6, <2>1
        DEF AllocateSequence, pool, stats, PoolTypeOK, ClientTypeOK, CopyNamesBlock
<1>7. ASSUME NEW c \in Clients, SequenceAllocate(c)
      PROVE  TypeInv'
  <2>0. request' \in [Clients -> [layer : Layers \cup {0}, count : 0..MaxSequence]]
        /\ copy' = copy /\ held' = held
    BY <1>7, ConfigAssumption DEF SequenceAllocate, Return, NoRequest, ClientTypeOK
  <2>1. CASE Serves("HOT", "HOT") /\ Take("HOT", request[c].layer)
             /\ blocks' = [blocks EXCEPT ![c] = Append(@, Head(free_lists_["HOT"]))]
             /\ pc' = [pc EXCEPT ![c] = "link"]
    <3>1. "HOT" \in Tiers /\ request[c].layer \in Layers \cup {0}
      BY DEF Tiers, ClientTypeOK
    <3>2. PoolTypeOK'
      BY <2>1, <3>1, TakeType DEF Serves
    <3>3. Head(free_lists_["HOT"]) \in BlockId
      BY <2>1, <3>1 DEF Serves, PoolTypeOK
    <3>4. blocks' \in [Clients -> Seq(BlockId)]
      BY <2>1, <3>3 DEF ClientTypeOK
    <3>5. QED BY <2>0, <2>1, <3>2, <3>4 DEF ClientTypeOK, CopyNamesBlock
  <2>2. CASE UNCHANGED <<pool, stats>>
             /\ (pc' = [pc EXCEPT ![c] = "rollback"] \/ pc' = [pc EXCEPT ![c] = "idle"])
             /\ (blocks' = blocks \/ blocks' = [blocks EXCEPT ![c] = <<>>])
    <3>1. PoolTypeOK'
      BY <2>2 DEF pool, stats, PoolTypeOK
    <3>2. blocks' \in [Clients -> Seq(BlockId)]
      <4>1. blocks \in [Clients -> Seq(BlockId)] /\ <<>> \in Seq(BlockId)
        BY DEF ClientTypeOK
      <4>2. QED BY <2>2, <4>1
    <3>3. QED BY <2>0, <2>2, <3>1, <3>2 DEF ClientTypeOK, CopyNamesBlock
  <2>3. QED BY <1>7, <2>1, <2>2 DEF SequenceAllocate, Return
<1>8. ASSUME NEW c \in Clients, SequenceLink(c)
      PROVE  TypeInv'
  <2> DEFINE n == Len(blocks[c])
  <2>1. DOMAIN block_metadata_' = DOMAIN block_metadata_
        /\ block_metadata_' \in [DOMAIN block_metadata_ -> Metadata]
    <3>1. CASE n > 1 /\ Exists(blocks[c][n - 1])
      <4> DEFINE b == blocks[c][n - 1]
                 m == [block_metadata_[b] EXCEPT !.next = blocks[c][n]]
      <4>1. n \in Nat /\ b \in BlockId /\ blocks[c][n] \in BlockId
        BY <3>1 DEF ClientTypeOK
      <4>2. m \in Metadata
        BY <3>1, <4>1 DEF PoolTypeOK, Exists, Metadata
      <4>3. block_metadata_' = [block_metadata_ EXCEPT ![b] = m]
        BY <1>8, <3>1 DEF SequenceLink
      <4>4. QED BY <4>2, <4>3, MetadataUpdate DEF PoolTypeOK
    <3>2. CASE ~(n > 1 /\ Exists(blocks[c][n - 1]))
      BY <1>8, <3>2 DEF SequenceLink, PoolTypeOK
    <3>3. QED BY <3>1, <3>2
  <2>2. PoolTypeOK'
    BY <1>8, <2>1 DEF SequenceLink, PoolTypeOK, stats
  <2>3. ClientTypeOK' /\ CopyNamesBlock'
    <3>1. CASE pc' = [pc EXCEPT ![c] = "allocate"] /\ UNCHANGED <<request, blocks, copy, held>>
      BY <3>1 DEF ClientTypeOK, CopyNamesBlock
    <3>2. CASE held' = [held EXCEPT ![c] = @ \cup {blocks[c][i] : i \in 1..n}] /\ Return(c)
      <4>1. {blocks[c][i] : i \in 1..n} \subseteq BlockId
        BY DEF ClientTypeOK
      <4>2. held' \in [Clients -> SUBSET BlockId]
        BY <3>2, <4>1 DEF ClientTypeOK
      <4>3. QED BY <3>2, <4>2, ConfigAssumption DEF Return, NoRequest, ClientTypeOK, CopyNamesBlock
    <3>3. QED BY <1>8, <3>1, <3>2 DEF SequenceLink
  <2>4. QED BY <2>2, <2>3
<1>9. ASSUME NEW c \in Clients, SequenceRollback(c)
      PROVE  TypeInv'
  <2>1. CASE blocks[c] # <<>> /\ Release(Head(blocks[c]))
             /\ blocks' = [blocks EXCEPT ![c] = Tail(@)] /\ UNCHANGED <<pc, request, copy, held>>
    <3>1. Head(blocks[c]) \in BlockId /\ Tail(blocks[c]) \in Seq(BlockId)
      BY <2>1 DEF ClientTypeOK
    <3>2. PoolTypeOK'
      BY <2>1, <3>1, ReleaseType
    <3>3. blocks' \in [Clients -> Seq(BlockId)]
      BY <2>1, <3>1 DEF ClientTypeOK
    <3>4. QED BY <2>1, <3>2, <3>3 DEF ClientTypeOK, CopyNamesBlock
  <2>2. CASE Return(c) /\ UNCHANGED <<pool, stats, held>>
    BY <2>2, ConfigAssumption
    DEF Return, NoRequest, pool, stats, PoolTypeOK, ClientTypeOK, CopyNamesBlock
  <2>3. QED BY <1>9, <2>1, <2>2 DEF SequenceRollback, Remaining
<1>10. ASSUME NEW c \in Clients, NEW b, NEW state \in BlockStates, Exists(b), SetState(b, state)
       PROVE  TypeInv'
  <2> DEFINE m == [block_metadata_[b] EXCEPT !.state = state]
  <2>1. m \in Metadata
    BY <1>10 DEF PoolTypeOK, Exists, Metadata
  <2>2. block_metadata_' = [block_metadata_ EXCEPT ![b] = m]
    BY <1>10 DEF SetState
  <2>3. DOMAIN block_metadata_' = DOMAIN block_metadata_
        /\ block_metadata_' \in [DOMAIN block_metadata_ -> Metadata]
    BY <2>1, <2>2, MetadataUpdate DEF PoolTypeOK
  <2>4. QED BY <1>10, <2>3 DEF SetState, stats, local, PoolTypeOK, ClientTypeOK, CopyNamesBlock
<1>11. ASSUME NEW c \in Clients, NEW b, NEW t \in Tiers, MigrateBlock(c, b, t)
       PROVE  TypeInv'
  <2> DEFINE source == block_metadata_[b].tier
             new == Head(free_lists_[t])
             m1 == [block_metadata_[new] EXCEPT !.state = block_metadata_[b].state,
                                                !.layer = block_metadata_[b].layer]
             mid == [block_metadata_ EXCEPT ![new] = m1]
             m2 == [mid[b] EXCEPT !.state = "FREE"]
  <2>0. 1 \in 0..MaxSize
    BY <1>11, OneSize DEF MigrateBlock, Exists, PoolTypeOK
  <2>1. b \in DOMAIN block_metadata_ /\ b \in BlockId /\ source \in Tiers
        /\ block_metadata_[b].state \in BlockStates /\ block_metadata_[b].layer \in Layers \cup {0}
    BY <1>11 DEF MigrateBlock, Exists, PoolTypeOK, Metadata
  <2>2. new \in DOMAIN block_metadata_ => m1 \in Metadata
    BY <2>1 DEF PoolTypeOK, Metadata
  <2>3. mid \in [DOMAIN block_metadata_ -> Metadata] /\ DOMAIN mid = DOMAIN block_metadata_
    <3>1. block_metadata_ \in [DOMAIN block_metadata_ -> Metadata]
      BY DEF PoolTypeOK
    <3> HIDE DEF m1
    <3>2. QED BY <2>2, <3>1, MetadataUpdate
  <2>4. m2 \in Metadata
    <3>1. mid[b] \in Metadata
      BY <2>1, <2>3
    <3>2. QED BY <3>1 DEF Metadata, BlockStates
  <2>5. block_metadata_' = [mid EXCEPT ![b] = m2]
    BY <1>11 DEF MigrateBlock, StateMoved
  <2>6. DOMAIN block_metadata_' = DOMAIN block_metadata_
        /\ block_metadata_' \in [DOMAIN block_metadata_ -> Metadata]
    BY <2>3, <2>4, <2>5, MetadataUpdate
  <2>7. free_lists_' \in [Tiers -> Seq(BlockId)] /\ tier_usages_' \in [Tiers -> 0..MaxSize]
    <3>1. /\ free_lists_' = [free_lists_ EXCEPT ![t] = Tail(@), ![source] = Append(@, b)]
          /\ tier_usages_' =
               [tier_usages_ EXCEPT ![source] = LessOne(@), ![t] = Plus(@, 1)]
          /\ source # t /\ free_lists_[t] # <<>>
      BY <1>11 DEF MigrateBlock, UsageAfterMove
    <3>2. Tail(free_lists_[t]) \in Seq(BlockId) /\ Append(free_lists_[source], b) \in Seq(BlockId)
      BY <2>1, <3>1 DEF PoolTypeOK
    <3>3. free_lists_' \in [Tiers -> Seq(BlockId)]
      BY <3>1, <3>2 DEF PoolTypeOK
    <3>4. tier_usages_' \in [Tiers -> 0..MaxSize]
      <4>1. tier_usages_ \in [Tiers -> 0..MaxSize]
        BY DEF PoolTypeOK
      <4>2. \A s \in Tiers : /\ LessOne(tier_usages_[s]) \in 0..MaxSize
                            /\ Plus(tier_usages_[s], 1) \in 0..MaxSize
        BY <2>0, <4>1, SizeArithmetic
      <4>3. QED BY <2>1, <3>1, <4>1, <4>2
    <3>5. QED BY <3>3, <3>4
  <2>8. PoolTypeOK'
    BY <1>11, <2>6, <2>7 DEF MigrateBlock, PoolTypeOK, stats
  <2>9. held' \in [Clients -> SUBSET BlockId]
    BY <1>11 DEF MigrateBlock, ClientTypeOK
  <2>10. QED BY <1>11, <2>8, <2>9 DEF MigrateBlock, local, ClientTypeOK, CopyNamesBlock
<1>12. ASSUME NEW c \in Clients, NEW b \in held[c], ReadMetadata(c, b)
       PROVE  TypeInv'
  <2>1. b \in BlockId /\ block_metadata_[b] \in Metadata
    BY <1>12 DEF ReadMetadata, Exists, PoolTypeOK, ClientTypeOK
  <2>2. copy' \in [Clients -> [id : BlockId \cup {NoBlock}, metadata : Metadata]]
    BY <1>12, <2>1 DEF ReadMetadata, ClientTypeOK
  <2>3. CopyNamesBlock'
    BY <1>12, <2>1 DEF ReadMetadata, ClientTypeOK, CopyNamesBlock
  <2>4. QED BY <1>12, <2>2, <2>3 DEF ReadMetadata, pool, stats, PoolTypeOK, ClientTypeOK
<1>13. ASSUME NEW c \in Clients, WriteMetadata(c)
       PROVE  TypeInv'
  <2>1. copy[c].id \in BlockId /\ copy[c].metadata \in Metadata
    BY <1>13 DEF WriteMetadata, ClientTypeOK, CopyNamesBlock
  <2>2. DOMAIN block_metadata_' \subseteq BlockId
        /\ block_metadata_' \in [DOMAIN block_metadata_' -> Metadata]
    BY <1>13, <2>1 DEF WriteMetadata, PoolTypeOK
  <2>3. PoolTypeOK'
    BY <1>13, <2>2 DEF WriteMetadata, PoolTypeOK, stats
  <2>4. NoCopy \in [id : BlockId \cup {NoBlock}, metadata : Metadata]
    BY DEF NoCopy, Metadata, BlockStates, Tiers
  <2>5. QED BY <1>13, <2>3, <2>4 DEF WriteMetadata, ClientTypeOK, CopyNamesBlock
<1>14. ASSUME NEW c \in Clients, Defragment(c)
       PROVE  TypeInv'
  <2>1. free_lists_' \in [Tiers -> Seq(BlockId)]
    BY <1>14, RefillType DEF Defragment, PoolTypeOK, Tiers
  <2>2. QED BY <1>14, <2>1
        DEF Defragment, stats, local, PoolTypeOK, ClientTypeOK, CopyNamesBlock
<1>15. CASE UNCHANGED vars
  BY <1>15 DEF vars, pool, stats, local, PoolTypeOK, ClientTypeOK, CopyNamesBlock
<1>16. QED
  <2>1. ASSUME NEW c \in Clients, NEW b, LockBlock(c, b) PROVE TypeInv'
    BY <2>1, <1>10 DEF LockBlock, BlockStates
  <2>2. ASSUME NEW c \in Clients, NEW b, UnlockBlock(c, b) PROVE TypeInv'
    BY <2>2, <1>10 DEF UnlockBlock, BlockStates
  <2>3. QED
    BY <1>1, <1>2, <1>3, <1>4, <1>5, <1>6, <1>7, <1>8, <1>9, <1>11, <1>12, <1>13, <1>14,
       <1>15, <2>1, <2>2 DEF Next, ClientNext

\* The allocator starts within its types.
LEMMA TypeStart == Init => TypeInv
<1> SUFFICES ASSUME Init PROVE TypeInv
  OBVIOUS
<1>1. block_metadata_ = <<>> /\ DOMAIN <<>> = {} /\ <<>> \in [{} -> Metadata]
  BY DEF Init
<1>2. \A t \in Tiers : free_lists_[t] = <<>> /\ <<>> \in Seq(BlockId)
  BY DEF Init
<1>3. free_lists_ \in [Tiers -> Seq(BlockId)]
  BY <1>2 DEF Init
<1>4. /\ tier_blocks_ \in [Tiers -> [BlockId -> Nat]]
      /\ layer_blocks_ \in [Layers \cup {0} -> [BlockId -> Nat]]
      /\ tier_usages_ \in [Tiers -> 0..MaxSize]
  BY SizeArithmetic DEF Init
<1>5. next_block_id_ = 1 /\ net_allocations_ = 0 /\ peak_usage_ = 0
  BY DEF Init
<1>6. next_block_id_ \in 1..MaxBlockId + 1
  BY <1>5, ConfigAssumption
<1>7. initialized_ \in BOOLEAN
  BY DEF Init
<1>8. PoolTypeOK
  BY <1>1, <1>3, <1>4, <1>5, <1>6, <1>7, SizeArithmetic DEF PoolTypeOK
<1>9. ClientTypeOK /\ CopyNamesBlock
  BY ConfigAssumption
  DEF Init, ClientTypeOK, CopyNamesBlock, NoRequest, NoCopy, Metadata, BlockStates, Tiers
<1>10. QED BY <1>8, <1>9 DEF TypeInv, TypeOK

\* Type correctness: whatever the clients do, the allocator's state and theirs
\* stay within their types.
THEOREM TypeCorrect == Spec => []TypeOK
<1>1. Init => TypeInv
  BY TypeStart
<1>2. TypeInv /\ [Next]_vars => TypeInv'
  BY TypeStep
<1>3. TypeInv => TypeOK
  BY DEF TypeInv
<1>4. QED BY <1>1, <1>2, <1>3, PTL DEF Spec

-----------------------------------------------------------------------------
(* What the calls do to the free lists and to the blocks in use *)

\* Taking the front block: it was FREE and of its list's tier, it is the one
\* block whose use changes, and the free lists stay exact.
LEMMA TakeEffect ==
  ASSUME PoolTypeOK, FreeListsExact, NEW t \in Tiers, NEW layer,
         free_lists_[t] # <<>>, Take(t, layer)
  PROVE  LET b == Head(free_lists_[t]) IN
         /\ b \in DOMAIN block_metadata_ /\ ~InUse(b) /\ block_metadata_[b].tier = t
         /\ DOMAIN block_metadata_' = DOMAIN block_metadata_
         /\ \A x \in DOMAIN block_metadata_ :
              /\ block_metadata_'[x].tier = block_metadata_[x].tier
              /\ InUse(x)' <=> InUse(x) \/ x = b
         /\ FreeListsExact'
<1> DEFINE b == Head(free_lists_[t])
<1>1. /\ b \in IdsIn(free_lists_[t]) /\ NoDuplicates(Tail(free_lists_[t]))
      /\ IdsIn(Tail(free_lists_[t])) = IdsIn(free_lists_[t]) \ {b}
      /\ \A s \in Tiers : NoDuplicates(free_lists_[s]) /\ IdsIn(free_lists_[s]) = FreeIn(s)
  BY PopIds DEF PoolTypeOK, FreeListsExact
<1>2. b \in DOMAIN block_metadata_ /\ ~InUse(b) /\ block_metadata_[b].tier = t
  BY <1>1 DEF FreeIn
<1>3. /\ DOMAIN block_metadata_' = DOMAIN block_metadata_
      /\ block_metadata_'[b].tier = t /\ block_metadata_'[b].state = "ALLOCATED"
      /\ \A x \in DOMAIN block_metadata_ : x # b => block_metadata_'[x] = block_metadata_[x]
  BY <1>2 DEF PoolTypeOK, Take, Metadata
<1>4. \A x \in DOMAIN block_metadata_ :
        /\ block_metadata_'[x].tier = block_metadata_[x].tier
        /\ InUse(x)' <=> InUse(x) \/ x = b
  BY <1>2, <1>3 DEF InUse, Exists
<1>5. FreeListsExact'
  <2> SUFFICES ASSUME NEW s \in Tiers
               PROVE  NoDuplicates(free_lists_'[s]) /\ IdsIn(free_lists_'[s]) = FreeIn(s)'
    BY DEF FreeListsExact, NoDuplicates, IdsIn
  <2>1. free_lists_'[s] = IF s = t THEN Tail(free_lists_[t]) ELSE free_lists_[s]
    BY DEF PoolTypeOK, Take, Popped
  <2>2. FreeIn(s)' = FreeIn(s) \ {b}
    BY <1>3, <1>4 DEF FreeIn
  <2>3. s # t => b \notin FreeIn(s)
    BY <1>2 DEF FreeIn
  <2>4. QED BY <1>1, <2>1, <2>2, <2>3
<1>6. QED BY <1>2, <1>3, <1>4, <1>5

\* Freeing a block: an ALLOCATED one stops being in use and joins the free
\* list of its tier; any other id changes nothing.
LEMMA ReleaseEffect ==
  ASSUME PoolTypeOK, FreeListsExact, NEW b \in BlockId, Release(b)
  PROVE  /\ DOMAIN block_metadata_' = DOMAIN block_metadata_
         /\ \A x \in DOMAIN block_metadata_ :
              /\ block_metadata_'[x].tier = block_metadata_[x].tier
              /\ x # b => (InUse(x)' <=> InUse(x))
         /\ FreeListsExact'
<1>1. CASE ~Releasable(b)
  <2>1. UNCHANGED <<block_metadata_, free_lists_>>
    BY <1>1 DEF Release, pool
  <2>2. QED BY <2>1 DEF InUse, Exists, FreeListsExact, FreeIn, NoDuplicates, IdsIn
<1>2. CASE Releasable(b)
  <2> DEFINE t == block_metadata_[b].tier
  <2>1. b \in DOMAIN block_metadata_ /\ InUse(b) /\ t \in Tiers
    BY <1>2 DEF PoolTypeOK, Releasable, Allocated, InUse, Exists, Metadata
  <2>2. /\ block_metadata_' = [block_metadata_ EXCEPT ![b] = FreshMetadata(t)]
        /\ free_lists_' = [free_lists_ EXCEPT ![t] = Append(@, b)]
    BY <1>2 DEF Release, Reset, Pushed
  <2>3. /\ DOMAIN block_metadata_' = DOMAIN block_metadata_
        /\ block_metadata_'[b].tier = t /\ block_metadata_'[b].state = "FREE"
        /\ \A x \in DOMAIN block_metadata_ : x # b => block_metadata_'[x] = block_metadata_[x]
    BY <2>1, <2>2 DEF PoolTypeOK, FreshMetadata
  <2>4. \A x \in DOMAIN block_metadata_ :
          /\ block_metadata_'[x].tier = block_metadata_[x].tier
          /\ x # b => (InUse(x)' <=> InUse(x))
    BY <2>3 DEF InUse, Exists
  <2>5. FreeListsExact'
    <3> SUFFICES ASSUME NEW s \in Tiers
                 PROVE  NoDuplicates(free_lists_'[s]) /\ IdsIn(free_lists_'[s]) = FreeIn(s)'
      BY DEF FreeListsExact, NoDuplicates, IdsIn
    <3>1. free_lists_'[s] = IF s = t THEN Append(free_lists_[t], b) ELSE free_lists_[s]
      BY <2>1, <2>2 DEF PoolTypeOK
    <3>2. ~InUse(b)'
      BY <2>3 DEF InUse
    <3>3. FreeIn(s)' = IF s = t THEN FreeIn(s) \cup {b} ELSE FreeIn(s)
      BY <2>1, <2>3, <2>4, <3>2 DEF FreeIn
    <3>4. /\ NoDuplicates(free_lists_[s]) /\ IdsIn(free_lists_[s]) = FreeIn(s)
          /\ free_lists_[s] \in Seq(BlockId)
      BY DEF FreeListsExact, PoolTypeOK
    <3>5. b \notin FreeIn(s)
      BY <2>1 DEF FreeIn
    <3>6. CASE s = t
      <4>1. NoDuplicates(Append(free_lists_[s], b))
            /\ IdsIn(Append(free_lists_[s], b)) = IdsIn(free_lists_[s]) \cup {b}
        BY <3>4, <3>5, PushIds
      <4>2. QED BY <3>1, <3>3, <3>4, <3>6, <4>1
    <3>7. CASE s # t
      BY <3>1, <3>3, <3>4, <3>7
    <3>8. QED BY <3>6, <3>7
  <2>6. QED BY <2>3, <2>4, <2>5
<1>3. QED BY <1>1, <1>2

\* Moving a block in use: the front block of the target tier takes its place,
\* and the block itself becomes FREE.
LEMMA MigrateEffect ==
  ASSUME PoolTypeOK, FreeListsExact, NEW c, NEW b, NEW t \in Tiers,
         MigrateBlock(c, b, t), InUse(b)
  PROVE  LET new == Head(free_lists_[t]) IN
         /\ new \in DOMAIN block_metadata_ /\ ~InUse(new) /\ new # b
         /\ DOMAIN block_metadata_' = DOMAIN block_metadata_
         /\ \A x \in DOMAIN block_metadata_ :
              /\ block_metadata_'[x].tier = block_metadata_[x].tier
              /\ InUse(x)' <=> x # b /\ (InUse(x) \/ x = new)
         /\ FreeListsExact'
<1> DEFINE source == block_metadata_[b].tier
           new == Head(free_lists_[t])
<1>1. /\ b \in DOMAIN block_metadata_ /\ b \in BlockId /\ source \in Tiers /\ source # t
      /\ block_metadata_[b].state \in BlockStates \ {"FREE"} /\ free_lists_[t] # <<>>
      /\ block_metadata_' =
           [block_metadata_ EXCEPT ![new].state = block_metadata_[b].state,
                                   ![new].layer = block_metadata_[b].layer,
                                   ![b].state = "FREE"]
      /\ free_lists_' = [free_lists_ EXCEPT ![t] = Tail(@), ![source] = Append(@, b)]
  BY DEF MigrateBlock, StateMoved, InUse, Exists, PoolTypeOK, Metadata
<1>2. /\ new \in IdsIn(free_lists_[t]) /\ NoDuplicates(Tail(free_lists_[t]))
      /\ IdsIn(Tail(free_lists_[t])) = IdsIn(free_lists_[t]) \ {new}
      /\ \A s \in Tiers : NoDuplicates(free_lists_[s]) /\ IdsIn(free_lists_[s]) = FreeIn(s)
  BY <1>1, PopIds DEF PoolTypeOK, FreeListsExact
<1>3. new \in DOMAIN block_metadata_ /\ ~InUse(new) /\ new # b /\ block_metadata_[new].tier = t
  BY <1>2 DEF FreeIn
<1>4. /\ DOMAIN block_metadata_' = DOMAIN block_metadata_
      /\ block_metadata_'[b].state = "FREE" /\ block_metadata_'[b].tier = source
      /\ block_metadata_'[new].state # "FREE" /\ block_metadata_'[new].tier = t
      /\ \A x \in DOMAIN block_metadata_ \ {b, new} : block_metadata_'[x] = block_metadata_[x]
  BY <1>1, <1>3 DEF PoolTypeOK, Metadata
<1>5. \A x \in DOMAIN block_metadata_ :
        /\ block_metadata_'[x].tier = block_metadata_[x].tier
        /\ InUse(x)' <=> x # b /\ (InUse(x) \/ x = new)
  BY <1>3, <1>4 DEF InUse, Exists
<1>6. FreeListsExact'
  <2> SUFFICES ASSUME NEW s \in Tiers
               PROVE  NoDuplicates(free_lists_'[s]) /\ IdsIn(free_lists_'[s]) = FreeIn(s)'
    BY DEF FreeListsExact, NoDuplicates, IdsIn
  <2>1. free_lists_'[s] = IF s = t THEN Tail(free_lists_[t])
                          ELSE IF s = source THEN Append(free_lists_[source], b)
                          ELSE free_lists_[s]
    BY <1>1 DEF PoolTypeOK
  <2>2. FreeIn(s)' = (IF s = source THEN FreeIn(s) \cup {b} ELSE FreeIn(s)) \ {new}
    BY <1>1, <1>3, <1>4, <1>5 DEF FreeIn
  <2>3. s # t => new \notin FreeIn(s)
    BY <1>3 DEF FreeIn
  <2>4. CASE s = t
    BY <1>1, <1>2, <2>1, <2>2, <2>4
  <2>5. CASE s = source
    <3>1. b \notin IdsIn(free_lists_[s]) /\ free_lists_[s] \in Seq(BlockId)
      BY <1>2 DEF FreeIn, PoolTypeOK
    <3>2. NoDuplicates(Append(free_lists_[s], b))
          /\ IdsIn(Append(free_lists_[s], b)) = IdsIn(free_lists_[s]) \cup {b}
      BY <1>1, <1>2, <3>1, PushIds
    <3>3. QED BY <1>1, <1>2, <1>3, <2>1, <2>2, <2>3, <2>5, <3>2
  <2>6. CASE s # t /\ s # source
    BY <1>2, <2>1, <2>2, <2>3, <2>6
  <2>7. QED BY <2>4, <2>5, <2>6
<1>7. QED BY <1>3, <1>4, <1>5, <1>6

=============================================================================
