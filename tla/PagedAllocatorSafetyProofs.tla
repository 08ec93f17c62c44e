--------------------- MODULE PagedAllocatorSafetyProofs ---------------------
(***************************************************************************)
(* The inductive invariant PoolInv of PagedAllocator and what follows from *)
(* it: under disciplined use the free lists stay exact and no block ever   *)
(* belongs to two clients; the allocator implements BlockPool; and, each   *)
(* with an invariant of its own, the counters and statistics, the locks,   *)
(* the used-block index and the links of sequences are right.              *)
(***************************************************************************)
EXTENDS PagedAllocatorProofs, PagedAllocatorPool

-----------------------------------------------------------------------------
(* Effects on the free lists, continued *)

\* Two queues without duplicates and without a common id make one.
LEMMA ConcatIds ==
  ASSUME NEW S, NEW q \in Seq(S), NEW r \in Seq(S),
         NoDuplicates(q), NoDuplicates(r), IdsIn(q) \cap IdsIn(r) = {}
  PROVE  NoDuplicates(q \o r) /\ IdsIn(q \o r) = IdsIn(q) \cup IdsIn(r)
<1>1. /\ Len(q) \in Nat /\ Len(r) \in Nat /\ Len(q \o r) = Len(q) + Len(r)
      /\ \A i \in 1..Len(q) : (q \o r)[i] = q[i]
      /\ \A i \in 1..Len(r) : (q \o r)[Len(q) + i] = r[i]
  OBVIOUS
<1>2. \A i \in 1..Len(q \o r) : i \in 1..Len(q) \/ i - Len(q) \in 1..Len(r)
  BY <1>1
<1>3. \A i \in 1..Len(q \o r) : i - Len(q) \in 1..Len(r) => (q \o r)[i] = r[i - Len(q)]
  BY <1>1
<1>4. \A i \in 1..Len(q), j \in 1..Len(r) : q[i] # r[j]
  BY DEF IdsIn
<1>5. NoDuplicates(q \o r)
  <2> SUFFICES ASSUME NEW i \in 1..Len(q \o r), NEW j \in 1..Len(q \o r),
                      (q \o r)[i] = (q \o r)[j]
               PROVE  i = j
    BY DEF NoDuplicates
  <2>1. CASE i \in 1..Len(q) /\ j \in 1..Len(q)
    BY <1>1, <2>1 DEF NoDuplicates
  <2>2. CASE i - Len(q) \in 1..Len(r) /\ j - Len(q) \in 1..Len(r)
    <3>1. i - Len(q) = j - Len(q)
      BY <1>3, <2>2 DEF NoDuplicates
    <3>2. QED BY <1>1, <3>1
  <2>3. CASE i \in 1..Len(q) /\ j - Len(q) \in 1..Len(r)
    BY <1>1, <1>3, <1>4, <2>3
  <2>4. CASE i - Len(q) \in 1..Len(r) /\ j \in 1..Len(q)
    BY <1>1, <1>3, <1>4, <2>4
  <2>5. QED BY <1>2, <2>1, <2>2, <2>3, <2>4
<1>6. ASSUME NEW b PROVE b \in IdsIn(q \o r) <=> b \in IdsIn(q) \/ b \in IdsIn(r)
  <2>1. ASSUME b \in IdsIn(q \o r) PROVE b \in IdsIn(q) \/ b \in IdsIn(r)
    <3>1. PICK i \in 1..Len(q \o r) : (q \o r)[i] = b
      BY <2>1 DEF IdsIn
    <3>2. CASE i \in 1..Len(q)
      BY <1>1, <3>1, <3>2 DEF IdsIn
    <3>3. CASE i - Len(q) \in 1..Len(r)
      BY <1>3, <3>1, <3>3 DEF IdsIn
    <3>4. QED BY <1>2, <3>2, <3>3
  <2>2. ASSUME b \in IdsIn(q) PROVE b \in IdsIn(q \o r)
    <3>1. PICK i \in 1..Len(q) : q[i] = b
      BY <2>2 DEF IdsIn
    <3>2. i \in 1..Len(q \o r) /\ (q \o r)[i] = b
      BY <1>1, <3>1
    <3>3. QED BY <3>2 DEF IdsIn
  <2>3. ASSUME b \in IdsIn(r) PROVE b \in IdsIn(q \o r)
    <3>1. PICK i \in 1..Len(r) : r[i] = b
      BY <2>3 DEF IdsIn
    <3>2. Len(q) + i \in 1..Len(q \o r) /\ (q \o r)[Len(q) + i] = b
      BY <1>1, <3>1
    <3>3. QED BY <3>2 DEF IdsIn
  <2>4. QED BY <2>1, <2>2, <2>3
<1>7. QED BY <1>5, <1>6

\* One round of defragment rebuilds a free list with exactly its old ids.
LEMMA RefillEffect ==
  ASSUME PoolTypeOK, FreeListsExact, NEW t \in Tiers, NEW refill \in Refills(free_lists_[t])
  PROVE  NoDuplicates(refill) /\ IdsIn(refill) = FreeIn(t)
<1> DEFINE queue == free_lists_[t]
           kept == Kept(queue)
           n == Cardinality(kept)
<1>1. queue \in Seq(BlockId) /\ NoDuplicates(queue) /\ IdsIn(queue) = FreeIn(t)
      /\ Len(queue) \in Nat
  BY DEF PoolTypeOK, FreeListsExact
<1>2. kept = 1..Len(queue)
  BY <1>1 DEF Kept, IdsIn, FreeIn, Exists
<1>3. n \in Nat
  <2>1. IsFiniteSet(1..Len(queue))
    BY <1>1, FS_Interval
  <2>2. IsFiniteSet(kept)
    BY <1>2, <2>1
  <2>3. QED BY <2>2, FS_CardinalityType
<1>4. PICK f \in Enumerations(kept) : refill = [i \in DOMAIN f |-> queue[f[i]]]
  BY DEF Refills
<1>5. /\ f \in [1..n -> kept]
      /\ \A i, j \in 1..n : i < j => f[i] < f[j]
      /\ \A p \in kept : \E i \in 1..n : f[i] = p
  BY <1>4 DEF Enumerations
<1> HIDE DEF n, kept
<1>6. \A i, j \in 1..n : f[i] = f[j] => i = j
  BY <1>1, <1>2, <1>3, <1>5
<1>7. Len(refill) = n /\ \A i \in 1..n : refill[i] = queue[f[i]] /\ f[i] \in 1..Len(queue)
  BY <1>2, <1>3, <1>4, <1>5
<1>8. NoDuplicates(refill)
  BY <1>1, <1>6, <1>7 DEF NoDuplicates
<1>9. IdsIn(refill) = IdsIn(queue)
  <2>1. \A i \in 1..Len(queue) : \E j \in 1..n : refill[j] = queue[i]
    BY <1>2, <1>5, <1>7
  <2>2. QED BY <1>7, <2>1 DEF IdsIn
<1>10. QED BY <1>1, <1>8, <1>9

LEMMA DefragmentEffect ==
  ASSUME PoolTypeOK, FreeListsExact, NEW c, Defragment(c)
  PROVE  FreeListsExact'
<1>1. PICK hot \in Refills(free_lists_["HOT"]), warm \in Refills(free_lists_["WARM"]),
           cold \in Refills(free_lists_["COLD"]) :
        free_lists_' =
          [free_lists_ EXCEPT !["HOT"] = hot, !["WARM"] = warm, !["COLD"] = cold]
  BY DEF Defragment
<1>2. /\ NoDuplicates(hot) /\ IdsIn(hot) = FreeIn("HOT")
      /\ NoDuplicates(warm) /\ IdsIn(warm) = FreeIn("WARM")
      /\ NoDuplicates(cold) /\ IdsIn(cold) = FreeIn("COLD")
  BY RefillEffect DEF Tiers
<1>3. free_lists_'["HOT"] = hot /\ free_lists_'["WARM"] = warm /\ free_lists_'["COLD"] = cold
  BY <1>1 DEF PoolTypeOK, Tiers
<1>4. \A t \in Tiers : NoDuplicates(free_lists_'[t]) /\ IdsIn(free_lists_'[t]) = FreeIn(t)
  BY <1>2, <1>3 DEF Tiers
<1>5. \A t \in Tiers : FreeIn(t)' = FreeIn(t)
  BY DEF Defragment, FreeIn, InUse, Exists
<1>6. QED BY <1>4, <1>5 DEF FreeListsExact, NoDuplicates, IdsIn

\* A new pool adds FREE blocks with new ids and leaves the old blocks alone.
LEMMA InitializeEffect ==
  ASSUME PoolTypeOK, IdsIssued, FreeListsExact, Initialize
  PROVE  /\ next_block_id_' \in Int /\ next_block_id_' >= next_block_id_
         /\ \A b \in DOMAIN block_metadata_' :
              /\ b < next_block_id_'
              /\ b < next_block_id_ =>
                   /\ b \in DOMAIN block_metadata_
                   /\ block_metadata_'[b] = block_metadata_[b]
         /\ DOMAIN block_metadata_ \subseteq DOMAIN block_metadata_'
         /\ FreeListsExact'
<1> DEFINE next == next_block_id_
           last == next + VramBlocks + RamBlocks - 1
<1>1. /\ next \in Nat /\ VramBlocks \in Nat /\ RamBlocks \in Nat /\ last \in Int
      /\ last + 1 >= next /\ last <= MaxBlockId /\ MaxBlockId \in Nat /\ next >= 1
      /\ next_block_id_' = last + 1
      /\ free_lists_' = [t \in Tiers |-> free_lists_[t] \o NewIds(t)]
      /\ block_metadata_' =
           [b \in DOMAIN block_metadata_ \cup next..last |->
              IF b >= next THEN FreshMetadata(NewTier(b)) ELSE block_metadata_[b]]
  BY ConfigAssumption DEF PoolTypeOK, Initialize, LastNewId, FirstNewId
<1>2. \A b \in DOMAIN block_metadata_ : b \in Nat /\ b < next
  BY <1>1 DEF PoolTypeOK, BlockId, IdsIssued
<1>3. /\ DOMAIN block_metadata_' = DOMAIN block_metadata_ \cup next..last
      /\ \A b \in DOMAIN block_metadata_ : block_metadata_'[b] = block_metadata_[b]
      /\ \A b \in next..last : block_metadata_'[b] = FreshMetadata(NewTier(b))
  BY <1>1, <1>2
<1>4. \A t \in Tiers :
        /\ NewIds(t) \in Seq(BlockId) /\ NoDuplicates(NewIds(t))
        /\ IdsIn(NewIds(t)) = {b \in next..last : NewTier(b) = t}
  <2>1. /\ NewIds("HOT") \in Seq(BlockId) /\ NoDuplicates(NewIds("HOT"))
        /\ IdsIn(NewIds("HOT")) = {b \in next..last : NewTier(b) = "HOT"}
    <3>1. NewIds("HOT") = [i \in 1..VramBlocks |-> next + i - 1]
      BY DEF NewIds, FirstNewId
    <3>2. /\ NewIds("HOT") \in Seq(BlockId) /\ Len(NewIds("HOT")) = VramBlocks
          /\ \A i \in 1..VramBlocks : NewIds("HOT")[i] = next + i - 1
      BY <1>1, <3>1 DEF BlockId
    <3>3. NoDuplicates(NewIds("HOT"))
      BY <1>1, <3>2 DEF NoDuplicates
    <3>4. ASSUME NEW b \in IdsIn(NewIds("HOT"))
          PROVE  b \in next..last /\ NewTier(b) = "HOT"
      BY <1>1, <3>2 DEF IdsIn, NewTier, FirstNewId
    <3>5. ASSUME NEW b \in next..last, NewTier(b) = "HOT"
          PROVE  b \in IdsIn(NewIds("HOT"))
      <4>1. b - next + 1 \in 1..VramBlocks
        BY <1>1, <3>5 DEF NewTier, FirstNewId
      <4>2. NewIds("HOT")[b - next + 1] = b
        BY <1>1, <3>2, <4>1
      <4>3. QED BY <3>2, <4>1, <4>2 DEF IdsIn
    <3>6. QED BY <3>2, <3>3, <3>4, <3>5
  <2>2. /\ NewIds("WARM") \in Seq(BlockId) /\ NoDuplicates(NewIds("WARM"))
        /\ IdsIn(NewIds("WARM")) = {b \in next..last : NewTier(b) = "WARM"}
    <3>1. NewIds("WARM") = [i \in 1..RamBlocks |-> next + VramBlocks + i - 1]
      BY DEF NewIds, FirstNewId
    <3>2. /\ NewIds("WARM") \in Seq(BlockId) /\ Len(NewIds("WARM")) = RamBlocks
          /\ \A i \in 1..RamBlocks : NewIds("WARM")[i] = next + VramBlocks + i - 1
      BY <1>1, <3>1 DEF BlockId
    <3>3. NoDuplicates(NewIds("WARM"))
      BY <1>1, <3>2 DEF NoDuplicates
    <3>4. ASSUME NEW b \in IdsIn(NewIds("WARM"))
          PROVE  b \in next..last /\ NewTier(b) = "WARM"
      BY <1>1, <3>2 DEF IdsIn, NewTier, FirstNewId
    <3>5. ASSUME NEW b \in next..last, NewTier(b) = "WARM"
          PROVE  b \in IdsIn(NewIds("WARM"))
      <4>1. b - next - VramBlocks + 1 \in 1..RamBlocks
        BY <1>1, <3>5 DEF NewTier, FirstNewId
      <4>2. NewIds("WARM")[b - next - VramBlocks + 1] = b
        BY <1>1, <3>2, <4>1
      <4>3. QED BY <3>2, <4>1, <4>2 DEF IdsIn
    <3>6. QED BY <3>2, <3>3, <3>4, <3>5
  <2>3. /\ NewIds("COLD") \in Seq(BlockId) /\ NoDuplicates(NewIds("COLD"))
        /\ IdsIn(NewIds("COLD")) = {b \in next..last : NewTier(b) = "COLD"}
    <3>1. NewIds("COLD") = <<>>
      BY DEF NewIds
    <3>2. Len(NewIds("COLD")) = 0
      BY <3>1
    <3>3. IdsIn(NewIds("COLD")) = {} /\ NoDuplicates(NewIds("COLD"))
      BY <3>2 DEF IdsIn, NoDuplicates
    <3>4. NewIds("COLD") \in Seq(BlockId)
      <4>1. <<>> \in Seq(BlockId)
        OBVIOUS
      <4>2. QED BY <3>1, <4>1
    <3>5. \A b \in next..last : NewTier(b) # "COLD"
      BY <1>1 DEF NewTier, FirstNewId
    <3>6. QED BY <3>3, <3>4, <3>5
  <2>4. QED BY <2>1, <2>2, <2>3 DEF Tiers
<1>5. FreeListsExact'
  <2> SUFFICES ASSUME NEW t \in Tiers
               PROVE  NoDuplicates(free_lists_'[t]) /\ IdsIn(free_lists_'[t]) = FreeIn(t)'
    BY DEF FreeListsExact, NoDuplicates, IdsIn
  <2>1. /\ free_lists_[t] \in Seq(BlockId) /\ NoDuplicates(free_lists_[t])
        /\ IdsIn(free_lists_[t]) = FreeIn(t)
        /\ free_lists_'[t] = free_lists_[t] \o NewIds(t)
    BY <1>1 DEF PoolTypeOK, FreeListsExact
  <2>2. IdsIn(free_lists_[t]) \cap IdsIn(NewIds(t)) = {}
    BY <1>1, <1>2, <1>4, <2>1 DEF FreeIn
  <2>3. NoDuplicates(free_lists_'[t])
        /\ IdsIn(free_lists_'[t]) = FreeIn(t) \cup {b \in next..last : NewTier(b) = t}
    BY <1>4, <2>1, <2>2, ConcatIds
  <2>4. \A b \in next..last :
          block_metadata_'[b].state = "FREE" /\ block_metadata_'[b].tier = NewTier(b)
    <3>1. \A b : FreshMetadata(NewTier(b)).state = "FREE"
                /\ FreshMetadata(NewTier(b)).tier = NewTier(b)
      BY DEF FreshMetadata
    <3>2. QED BY <1>3, <3>1
  <2>5. FreeIn(t)' = FreeIn(t) \cup {b \in next..last : NewTier(b) = t}
    <3>1. \A b \in DOMAIN block_metadata_' :
            b \in next..last \/ b \in DOMAIN block_metadata_
      BY <1>3
    <3>2. \A b \in next..last : b \in FreeIn(t)' <=> NewTier(b) = t
      BY <1>3, <2>4 DEF FreeIn, InUse, Exists
    <3>3. \A b \in DOMAIN block_metadata_ : b \in FreeIn(t)' <=> b \in FreeIn(t)
      BY <1>3 DEF FreeIn, InUse, Exists
    <3>4. FreeIn(t)' \subseteq DOMAIN block_metadata_' /\ FreeIn(t) \subseteq DOMAIN block_metadata_
      BY DEF FreeIn
    <3>5. QED BY <1>1, <1>2, <3>1, <3>2, <3>3, <3>4
  <2>6. QED BY <2>3, <2>5
<1>6. QED BY <1>1, <1>2, <1>3, <1>5

-----------------------------------------------------------------------------
(* The invariant *)

\* A step of client c keeps the invariant if the free lists stay exact, the
\* tiers of the blocks stay, the other clients' blocks stay in use, and what
\* c ends up with was issued, is in use and belongs to nobody else.
LEMMA ClientStep ==
  ASSUME PoolInv, NEW c \in Clients,
         TypeOK', FreeListsExact', next_block_id_' = next_block_id_,
         \A d \in Clients \ {c} :
           /\ pc'[d] = pc[d] /\ copy'[d] = copy[d]
           /\ held'[d] = held[d] /\ blocks'[d] = blocks[d],
         DOMAIN block_metadata_' = DOMAIN block_metadata_,
         \A b \in DOMAIN block_metadata_ : block_metadata_'[b].tier = block_metadata_[b].tier,
         \A d \in Clients \ {c} : \A b \in Owned(d) : InUse(b) => InUse(b)',
         \A b \in held'[c] \cup IdsIn(blocks'[c]) : b < next_block_id_,
         \A b \in held'[c] \cup IdsIn(blocks'[c]) :
           /\ Exists(b) => InUse(b)'
           /\ \A d \in Clients \ {c} : b \notin Owned(d),
         NoDuplicates(blocks'[c]), held'[c] \cap IdsIn(blocks'[c]) = {},
         pc'[c] = "rewrite" =>
           /\ copy'[c].id \in held'[c] /\ InUse(copy'[c].id)
           /\ InUse(copy[c].id)' /\ copy'[c].metadata.state # "FREE"
           /\ copy'[c].metadata.tier = block_metadata_[copy'[c].id].tier
  PROVE  PoolInv'
<1>1. \A d \in Clients : Owned(d)' = held'[d] \cup IdsIn(blocks'[d])
  BY DEF Owned, IdsIn
<1>2. \A d \in Clients \ {c} : Owned(d)' = Owned(d)
  BY <1>1 DEF Owned
<1>3. IdsIssued'
  BY <1>1, <1>2 DEF PoolInv, IdsIssued
<1>4. CopyCurrent'
  <2> SUFFICES ASSUME NEW d \in Clients, pc'[d] = "rewrite"
               PROVE  /\ copy'[d].id \in held'[d] /\ InUse(copy[d].id)'
                      /\ copy'[d].metadata.state # "FREE"
                      /\ copy'[d].metadata.tier = block_metadata_'[copy'[d].id].tier
    BY DEF CopyCurrent, InUse, Exists
  <2>1. CASE d = c
    BY <2>1 DEF InUse, Exists
  <2>2. CASE d # c
    BY <2>2 DEF PoolInv, CopyCurrent, Owned, InUse, Exists
  <2>3. QED BY <2>1, <2>2
<1>5. HeldExclusively'
  <2>1. ASSUME NEW d \in Clients, NEW e \in Clients, d # e
        PROVE  Owned(d)' \cap Owned(e)' = {}
    BY <1>1, <1>2, <2>1 DEF PoolInv, HeldExclusively
  <2>2. ASSUME NEW d \in Clients, NEW b \in Owned(d)', Exists(b)'
        PROVE  InUse(b)'
    <3>1. Exists(b)
      BY <2>2 DEF Exists
    <3>2. CASE d = c
      BY <1>1, <3>1, <3>2
    <3>3. CASE d # c
      <4>1. b \in Owned(d) /\ InUse(b)
        BY <1>2, <3>1, <3>3 DEF PoolInv, HeldExclusively
      <4>2. QED BY <3>3, <4>1
    <3>4. QED BY <3>2, <3>3
  <2>3. ASSUME NEW d \in Clients
        PROVE  NoDuplicates(blocks'[d]) /\ held'[d] \cap IdsIn(blocks'[d]) = {}
    <3>1. CASE d = c
      BY <3>1
    <3>2. CASE d # c
      BY <3>2 DEF PoolInv, HeldExclusively
    <3>3. QED BY <3>1, <3>2
  <2>4. QED BY <2>1, <2>2, <2>3 DEF HeldExclusively, NoDuplicates, IdsIn
<1>6. QED BY <1>3, <1>4, <1>5 DEF PoolInv

\* Facts about the state before a step of one client, in the form the steps
\* below use them.
LEMMA PoolFacts ==
  ASSUME PoolInv
  PROVE  /\ TypeOK /\ PoolTypeOK /\ ClientTypeOK /\ FreeListsExact
         /\ IdsIssued /\ CopyCurrent /\ HeldExclusively
         /\ TypeInv
         /\ \A b \in DOMAIN block_metadata_ : b < next_block_id_
         /\ \A c \in Clients : \A b \in held[c] \cup IdsIn(blocks[c]) : b < next_block_id_
         /\ \A c, d \in Clients : c # d =>
              \A b \in held[c] \cup IdsIn(blocks[c]) : b \notin Owned(d)
         /\ \A c \in Clients :
              /\ \A b \in held[c] \cup IdsIn(blocks[c]) : Exists(b) => InUse(b)
              /\ NoDuplicates(blocks[c]) /\ held[c] \cap IdsIn(blocks[c]) = {}
<1>1. CopyNamesBlock
  BY DEF PoolInv, TypeOK, ClientTypeOK, CopyCurrent, CopyNamesBlock
<1>2. /\ \A c \in Clients : \A b \in held[c] \cup IdsIn(blocks[c]) : b < next_block_id_
      /\ \A b \in DOMAIN block_metadata_ : b < next_block_id_
  BY DEF PoolInv, IdsIssued, Owned
<1>3. \A c, d \in Clients : c # d =>
        \A b \in held[c] \cup IdsIn(blocks[c]) : b \notin Owned(d)
  BY DEF PoolInv, HeldExclusively, Owned
<1>4. \A c \in Clients :
        /\ \A b \in held[c] \cup IdsIn(blocks[c]) : Exists(b) => InUse(b)
        /\ NoDuplicates(blocks[c]) /\ held[c] \cap IdsIn(blocks[c]) = {}
  BY DEF PoolInv, HeldExclusively, Owned
<1>5. QED BY <1>1, <1>2, <1>3, <1>4 DEF PoolInv, TypeOK, TypeInv

\* The calls that take no block away and give none: the state of the blocks
\* changes at most from one kind of use to another.
LEMMA QuietStep ==
  ASSUME PoolInv, NEW c \in Clients, TypeOK', FreeListsExact',
         next_block_id_' = next_block_id_,
         \A d \in Clients \ {c} :
           /\ pc'[d] = pc[d] /\ copy'[d] = copy[d]
           /\ held'[d] = held[d] /\ blocks'[d] = blocks[d],
         DOMAIN block_metadata_' = DOMAIN block_metadata_,
         \A b \in DOMAIN block_metadata_ :
           /\ block_metadata_'[b].tier = block_metadata_[b].tier
           /\ InUse(b)' <=> InUse(b),
         held'[c] \cup IdsIn(blocks'[c]) \subseteq held[c] \cup IdsIn(blocks[c]),
         blocks'[c] = <<>> \/ (held'[c] = held[c] /\ blocks'[c] = blocks[c]),
         pc'[c] # "rewrite" \/ (pc'[c] = pc[c] /\ copy'[c] = copy[c] /\ held'[c] = held[c])
  PROVE  PoolInv'
<1>1. \A d \in Clients : \A b \in Owned(d) : InUse(b) => InUse(b)'
  BY DEF InUse, Exists
<1>2. \A b \in held'[c] \cup IdsIn(blocks'[c]) : Exists(b) /\ InUse(b) => InUse(b)'
  BY DEF Exists
<1>3. NoDuplicates(blocks'[c]) /\ held'[c] \cap IdsIn(blocks'[c]) = {}
  <2>1. CASE blocks'[c] = <<>>
    BY <2>1 DEF NoDuplicates, IdsIn
  <2>2. CASE held'[c] = held[c] /\ blocks'[c] = blocks[c]
    BY <2>2, PoolFacts
  <2>3. QED BY <2>1, <2>2
<1>4. pc'[c] = "rewrite" =>
        /\ copy'[c].id \in held'[c] /\ InUse(copy'[c].id)
        /\ InUse(copy[c].id)' /\ copy'[c].metadata.state # "FREE"
        /\ copy'[c].metadata.tier = block_metadata_[copy'[c].id].tier
  BY DEF PoolInv, CopyCurrent, InUse, Exists
<1>5. QED BY <1>1, <1>2, <1>3, <1>4, PoolFacts, ClientStep

\* allocateBlock and one round of allocateSequence: what the client gets was
\* FREE, so it was nobody's.
LEMMA TakeStep ==
  ASSUME PoolInv, NEW c \in Clients, NEW t \in Tiers, NEW layer, TypeOK',
         free_lists_[t] # <<>>, Take(t, layer), pc[c] # "rewrite", pc'[c] # "rewrite",
         \A d \in Clients \ {c} :
           /\ pc'[d] = pc[d] /\ copy'[d] = copy[d]
           /\ held'[d] = held[d] /\ blocks'[d] = blocks[d],
         \/ /\ held'[c] = held[c] \cup {Head(free_lists_[t])}
            /\ blocks'[c] = blocks[c]
         \/ /\ held'[c] = held[c]
            /\ blocks'[c] = Append(blocks[c], Head(free_lists_[t]))
  PROVE  PoolInv'
<1> DEFINE b == Head(free_lists_[t])
<1>1. /\ b \in DOMAIN block_metadata_ /\ b \in BlockId /\ ~InUse(b)
      /\ DOMAIN block_metadata_' = DOMAIN block_metadata_
      /\ \A x \in DOMAIN block_metadata_ :
           /\ block_metadata_'[x].tier = block_metadata_[x].tier
           /\ InUse(x)' <=> InUse(x) \/ x = b
      /\ FreeListsExact' /\ next_block_id_' = next_block_id_
  BY TakeEffect, PoolFacts DEF Take, PoolTypeOK
<1> HIDE DEF b
<1>2. \A d \in Clients : b \notin Owned(d)
  BY <1>1 DEF PoolInv, HeldExclusively, Exists
<1>3. b \notin held[c] /\ b \notin IdsIn(blocks[c])
  BY <1>2 DEF Owned
<1>4. /\ NoDuplicates(blocks'[c]) /\ held'[c] \cap IdsIn(blocks'[c]) = {}
      /\ held'[c] \cup IdsIn(blocks'[c]) \subseteq held[c] \cup IdsIn(blocks[c]) \cup {b}
  <2>1. CASE held'[c] = held[c] \cup {b} /\ blocks'[c] = blocks[c]
    BY <1>3, <2>1, PoolFacts
  <2>2. CASE held'[c] = held[c] /\ blocks'[c] = Append(blocks[c], b)
    <3>1. blocks[c] \in Seq(BlockId)
      BY PoolFacts DEF ClientTypeOK
    <3>2. IdsIn(blocks'[c]) \subseteq IdsIn(blocks[c]) \cup {b}
      <4>1. /\ Len(blocks'[c]) = Len(blocks[c]) + 1
            /\ \A i \in 1..Len(blocks[c]) : blocks'[c][i] = blocks[c][i]
            /\ blocks'[c][Len(blocks[c]) + 1] = b
        BY <1>1, <2>2, <3>1
      <4>2. QED BY <3>1, <4>1 DEF IdsIn
    <3>3. NoDuplicates(blocks'[c])
      BY <1>1, <1>3, <2>2, <3>1, PushIds, PoolFacts
    <3>4. QED BY <1>3, <2>2, <3>2, <3>3, PoolFacts
  <2>3. QED BY <2>1, <2>2 DEF b
<1>5. \A x \in held'[c] \cup IdsIn(blocks'[c]) : x < next_block_id_
  BY <1>1, <1>4, PoolFacts
<1>6. \A x \in held'[c] \cup IdsIn(blocks'[c]) :
        /\ Exists(x) => InUse(x)'
        /\ \A d \in Clients \ {c} : x \notin Owned(d)
  <2>1. ASSUME NEW x \in held[c] \cup IdsIn(blocks[c]), Exists(x)
        PROVE  InUse(x)'
    BY <1>1, <2>1, PoolFacts DEF Exists
  <2>2. \A x : x = b => InUse(x)'
    BY <1>1 DEF InUse, Exists
  <2>3. QED BY <1>2, <1>4, <2>1, <2>2, PoolFacts
<1>7. \A d \in Clients \ {c} : \A x \in Owned(d) : InUse(x) => InUse(x)'
  BY <1>1 DEF InUse, Exists
<1>8. QED BY <1>1, <1>4, <1>5, <1>6, <1>7, ClientStep

\* deallocateBlock and one round of the rollback: the block was the client's
\* own, so nobody else loses anything.
LEMMA ReleaseStep ==
  ASSUME PoolInv, NEW c \in Clients, NEW b, b \in held[c] \cup IdsIn(blocks[c]), TypeOK',
         Release(b), pc[c] # "rewrite", pc'[c] = pc[c],
         \A d \in Clients \ {c} :
           /\ pc'[d] = pc[d] /\ copy'[d] = copy[d]
           /\ held'[d] = held[d] /\ blocks'[d] = blocks[d],
         held'[c] \subseteq held[c],
         IdsIn(blocks'[c]) \subseteq IdsIn(blocks[c]),
         NoDuplicates(blocks[c]) => NoDuplicates(blocks'[c]),
         b \notin held'[c] \cup IdsIn(blocks'[c])
  PROVE  PoolInv'
<1>1. b \in BlockId
  <2>1. held[c] \subseteq BlockId /\ blocks[c] \in Seq(BlockId)
    BY PoolFacts DEF ClientTypeOK
  <2>2. QED BY <2>1 DEF IdsIn
<1>2. /\ DOMAIN block_metadata_' = DOMAIN block_metadata_
      /\ \A x \in DOMAIN block_metadata_ :
           /\ block_metadata_'[x].tier = block_metadata_[x].tier
           /\ x # b => (InUse(x)' <=> InUse(x))
      /\ FreeListsExact' /\ next_block_id_' = next_block_id_
  BY <1>1, PoolFacts, ReleaseEffect DEF Release, pool
<1>3. \A d \in Clients \ {c} : b \notin Owned(d)
  BY PoolFacts
<1>4. \A d \in Clients \ {c} : \A x \in Owned(d) : InUse(x) => InUse(x)'
  BY <1>2, <1>3 DEF InUse, Exists
<1>5. /\ \A x \in held'[c] \cup IdsIn(blocks'[c]) :
           /\ Exists(x) => InUse(x)'
           /\ \A d \in Clients \ {c} : x \notin Owned(d)
      /\ NoDuplicates(blocks'[c]) /\ held'[c] \cap IdsIn(blocks'[c]) = {}
  BY <1>2, PoolFacts DEF Exists
<1>6. QED BY <1>2, <1>4, <1>5, PoolFacts, ClientStep

\* Every step keeps the invariant when clients lock and migrate only
\* blocks of their own: one step per action of Next.
LEMMA PoolStep == Exclusive /\ PoolInv /\ [Next]_vars => PoolInv'
<1> SUFFICES ASSUME Exclusive, PoolInv, [Next]_vars PROVE PoolInv'
  OBVIOUS
<1>1. /\ TypeInv /\ TypeOK /\ PoolTypeOK /\ ClientTypeOK /\ FreeListsExact /\ CopyCurrent
      /\ TypeOK'
  BY PoolFacts, TypeStep DEF TypeInv
<1>2. CASE Initialize
  <2>1. /\ next_block_id_' \in Int /\ next_block_id_' >= next_block_id_
        /\ \A b \in DOMAIN block_metadata_' :
             /\ b < next_block_id_'
             /\ b < next_block_id_ =>
                  b \in DOMAIN block_metadata_ /\ block_metadata_'[b] = block_metadata_[b]
        /\ DOMAIN block_metadata_ \subseteq DOMAIN block_metadata_'
        /\ FreeListsExact'
    BY <1>1, <1>2, PoolFacts, InitializeEffect
  <2>2. pc' = pc /\ held' = held /\ blocks' = blocks /\ copy' = copy
        /\ \A c \in Clients : pc[c] = "idle"
    BY <1>2 DEF Initialize, local
  <2>3. \A c \in Clients : Owned(c)' = Owned(c) /\ \A b \in Owned(c) : b \in Nat
    <3>1. BlockId \subseteq Nat
      BY ConfigAssumption DEF BlockId
    <3>2. \A c \in Clients : held[c] \subseteq BlockId /\ blocks[c] \in Seq(BlockId)
      BY <1>1 DEF ClientTypeOK
    <3>3. \A c \in Clients : Owned(c) \subseteq BlockId
      BY <3>2 DEF Owned, IdsIn
    <3>4. QED BY <2>2, <3>1, <3>3 DEF Owned, IdsIn
  <2>4. IdsIssued'
    <3>1. next_block_id_ \in Int
      BY <1>1 DEF PoolTypeOK
    <3>2. \A c \in Clients : \A b \in Owned(c)' : b < next_block_id_'
      BY <2>1, <2>3, <3>1 DEF PoolInv, IdsIssued
    <3>3. QED BY <2>1, <3>2 DEF IdsIssued
  <2>5. CopyCurrent'
    BY <2>2 DEF CopyCurrent
  <2>6. HeldExclusively'
    <3>1. \A c \in Clients : \A b \in Owned(c) : Exists(b)' => InUse(b)'
      BY <2>1 DEF PoolInv, HeldExclusively, IdsIssued, Exists, InUse
    <3>2. \A c \in Clients : \A b \in Owned(c)' : Exists(b)' => InUse(b)'
      BY <2>3, <3>1
    <3>3. /\ \A c, d \in Clients : c # d => Owned(c)' \cap Owned(d)' = {}
          /\ \A c \in Clients :
               NoDuplicates(blocks'[c]) /\ held'[c] \cap IdsIn(blocks'[c]) = {}
      BY <2>2, <2>3 DEF PoolInv, HeldExclusively
    <3>4. QED BY <3>2, <3>3 DEF HeldExclusively, NoDuplicates, IdsIn
  <2>7. QED BY <1>1, <2>1, <2>4, <2>5, <2>6 DEF PoolInv
<1>3. CASE Shutdown
  <2>1. /\ DOMAIN block_metadata_' = {} /\ next_block_id_' = next_block_id_
        /\ \A t \in Tiers : free_lists_'[t] = <<>>
        /\ held' = held /\ blocks' = blocks /\ pc' = pc
        /\ \A c \in Clients : pc[c] = "idle"
    BY <1>3 DEF Shutdown, local
  <2>2. \A c \in Clients : Owned(c)' = Owned(c)
    BY <2>1 DEF Owned, IdsIn
  <2>3. IdsIssued'
    BY <2>1, <2>2 DEF PoolInv, IdsIssued
  <2>4. CopyCurrent'
    BY <2>1 DEF CopyCurrent
  <2>5. FreeListsExact'
    BY <2>1 DEF FreeListsExact, NoDuplicates, IdsIn, FreeIn
  <2>6. HeldExclusively'
    <3>1. \A b : ~Exists(b)'
      BY <2>1 DEF Exists
    <3>2. /\ \A c, d \in Clients : c # d => Owned(c)' \cap Owned(d)' = {}
          /\ \A c \in Clients :
               NoDuplicates(blocks'[c]) /\ held'[c] \cap IdsIn(blocks'[c]) = {}
      BY <2>1, <2>2 DEF PoolInv, HeldExclusively
    <3>3. QED BY <3>1, <3>2 DEF HeldExclusively, NoDuplicates, IdsIn
  <2>7. QED BY <1>1, <2>3, <2>4, <2>5, <2>6 DEF PoolInv
<1>4. CASE ResetStats \/ UNCHANGED vars
  <2>1. UNCHANGED <<pool, local, held>>
    BY <1>4 DEF ResetStats, vars
  <2>2. IdsIssued' /\ CopyCurrent' /\ FreeListsExact' /\ HeldExclusively'
    BY <2>1 DEF pool, local, PoolInv, IdsIssued, CopyCurrent, FreeListsExact, HeldExclusively,
                Owned, InUse, Exists, FreeIn, IdsIn, NoDuplicates
  <2>3. QED BY <1>1, <2>2 DEF PoolInv
<1>5. ASSUME NEW c \in Clients, NEW l \in Layers, NEW t \in Tiers, AllocateBlock(c, l, t)
      PROVE  PoolInv'
  <2>1. pc' = pc /\ copy' = copy /\ blocks' = blocks /\ pc[c] = "idle"
    BY <1>5 DEF AllocateBlock, local
  <2>2. CASE UNCHANGED <<pool, stats, held>>
    <3>1. /\ UNCHANGED <<block_metadata_, free_lists_, next_block_id_, held>>
          /\ FreeListsExact'
      BY <1>1, <2>2 DEF pool, FreeListsExact, FreeIn, InUse, Exists, IdsIn, NoDuplicates
    <3>2. QED BY <1>1, <2>1, <3>1, QuietStep DEF InUse, Exists
  <2>3. ASSUME NEW s \in Tiers, Serves(s, t), Take(s, l),
               held' = [held EXCEPT ![c] = @ \cup {Head(free_lists_[s])}]
        PROVE  PoolInv'
    <3>1. /\ held'[c] = held[c] \cup {Head(free_lists_[s])}
          /\ \A d \in Clients \ {c} : held'[d] = held[d]
      BY <1>1, <2>3 DEF ClientTypeOK
    <3>2. QED BY <1>1, <2>1, <2>3, <3>1, TakeStep DEF Serves
  <2>4. QED BY <1>5, <2>2, <2>3 DEF AllocateBlock
<1>6. ASSUME NEW c \in Clients, NEW b \in held[c], DeallocateBlock(c, b)
      PROVE  PoolInv'
  <2>1. /\ Release(b) /\ pc' = pc /\ copy' = copy /\ blocks' = blocks /\ pc[c] = "idle"
        /\ held'[c] = held[c] \ {b}
        /\ \A d \in Clients \ {c} : held'[d] = held[d]
    BY <1>1, <1>6 DEF DeallocateBlock, local, ClientTypeOK
  <2>2. b \notin held'[c] \cup IdsIn(blocks'[c])
    BY <2>1, PoolFacts
  <2>3. QED BY <1>1, <2>1, <2>2, ReleaseStep
<1>7. ASSUME NEW c \in Clients, NEW l \in Layers, NEW n \in 1..MaxSequence,
             AllocateSequence(c, l, n)
      PROVE  PoolInv'
  <2>1. /\ copy' = copy /\ blocks' = blocks /\ held' = held
        /\ pc'[c] = "allocate" /\ \A d \in Clients \ {c} : pc'[d] = pc[d]
        /\ UNCHANGED <<block_metadata_, free_lists_, next_block_id_>>
    BY <1>1, <1>7 DEF AllocateSequence, pool, ClientTypeOK
  <2>2. FreeListsExact'
    BY <1>1, <2>1 DEF FreeListsExact, FreeIn, InUse, Exists, IdsIn, NoDuplicates
  <2>3. QED BY <1>1, <2>1, <2>2, QuietStep DEF InUse, Exists
<1>8. ASSUME NEW c \in Clients, SequenceAllocate(c)
      PROVE  PoolInv'
  <2>0. held' = held /\ copy' = copy /\ pc[c] = "allocate"
    BY <1>8 DEF SequenceAllocate, Return
  <2>1. CASE Serves("HOT", "HOT") /\ Take("HOT", request[c].layer)
             /\ blocks' = [blocks EXCEPT ![c] = Append(@, Head(free_lists_["HOT"]))]
             /\ pc' = [pc EXCEPT ![c] = "link"]
    <3>1. /\ blocks'[c] = Append(blocks[c], Head(free_lists_["HOT"])) /\ pc'[c] = "link"
          /\ \A d \in Clients \ {c} : blocks'[d] = blocks[d] /\ pc'[d] = pc[d]
          /\ "HOT" \in Tiers /\ free_lists_["HOT"] # <<>>
      BY <1>1, <2>1 DEF ClientTypeOK, Serves, Tiers
    <3>2. QED BY <1>1, <2>0, <2>1, <3>1, TakeStep
  <2>2. CASE UNCHANGED <<pool, stats>>
             /\ (pc' = [pc EXCEPT ![c] = "rollback"] \/ pc' = [pc EXCEPT ![c] = "idle"])
             /\ (blocks' = blocks \/ blocks' = [blocks EXCEPT ![c] = <<>>])
    <3>1. /\ UNCHANGED <<block_metadata_, free_lists_, next_block_id_>>
          /\ pc'[c] # "rewrite" /\ (blocks'[c] = <<>> \/ blocks'[c] = blocks[c])
          /\ \A d \in Clients \ {c} : blocks'[d] = blocks[d] /\ pc'[d] = pc[d]
      BY <1>1, <2>2 DEF pool, ClientTypeOK
    <3>2. IdsIn(blocks'[c]) \subseteq IdsIn(blocks[c])
      BY <3>1 DEF IdsIn
    <3>3. FreeListsExact'
      BY <1>1, <3>1 DEF FreeListsExact, FreeIn, InUse, Exists, IdsIn, NoDuplicates
    <3>4. QED BY <1>1, <2>0, <3>1, <3>2, <3>3, QuietStep DEF InUse, Exists
  <2>3. QED BY <1>8, <2>1, <2>2 DEF SequenceAllocate, Return
<1>9. ASSUME NEW c \in Clients, SequenceLink(c)
      PROVE  PoolInv'
  <2> DEFINE n == Len(blocks[c])
             p == blocks[c][n - 1]
  <2>1. /\ pc[c] = "link" /\ copy' = copy /\ next_block_id_' = next_block_id_
        /\ free_lists_' = free_lists_
        /\ block_metadata_' = IF n > 1 /\ Exists(p)
                              THEN [block_metadata_ EXCEPT ![p].next = blocks[c][n]]
                              ELSE block_metadata_
    BY <1>9 DEF SequenceLink, Return
  <2>2. /\ DOMAIN block_metadata_' = DOMAIN block_metadata_
        /\ \A b \in DOMAIN block_metadata_ :
             /\ block_metadata_'[b].tier = block_metadata_[b].tier
             /\ block_metadata_'[b].state = block_metadata_[b].state
    BY <1>1, <2>1 DEF PoolTypeOK, Metadata, Exists
  <2>3. \A b : InUse(b)' <=> InUse(b)
    BY <2>2 DEF InUse, Exists
  <2>4. FreeListsExact'
    <3>1. \A t \in Tiers : FreeIn(t)' = FreeIn(t)
      BY <2>2, <2>3 DEF FreeIn
    <3>2. QED BY <1>1, <2>1, <3>1 DEF FreeListsExact, NoDuplicates, IdsIn
  <2>5. /\ \A d \in Clients \ {c} : /\ pc'[d] = pc[d] /\ held'[d] = held[d]
                                   /\ blocks'[d] = blocks[d]
        /\ pc'[c] # "rewrite"
        /\ blocks'[c] = <<>> \/ (held'[c] = held[c] /\ blocks'[c] = blocks[c])
        /\ held'[c] \cup IdsIn(blocks'[c]) \subseteq held[c] \cup IdsIn(blocks[c])
    <3>1. CASE pc' = [pc EXCEPT ![c] = "allocate"] /\ UNCHANGED <<request, blocks, copy, held>>
      BY <1>1, <3>1 DEF ClientTypeOK
    <3>2. CASE /\ held' = [held EXCEPT ![c] = @ \cup {blocks[c][i] : i \in 1..n}]
               /\ Return(c)
      <4>1. /\ held'[c] = held[c] \cup IdsIn(blocks[c]) /\ blocks'[c] = <<>>
            /\ pc'[c] = "idle"
            /\ \A d \in Clients \ {c} : /\ pc'[d] = pc[d] /\ held'[d] = held[d]
                                       /\ blocks'[d] = blocks[d]
        BY <1>1, <3>2 DEF ClientTypeOK, Return, IdsIn
      <4>2. IdsIn(blocks'[c]) = {}
        BY <4>1 DEF IdsIn
      <4>3. QED BY <4>1, <4>2
    <3>3. QED BY <1>9, <3>1, <3>2 DEF SequenceLink
  <2>6. QED BY <1>1, <2>1, <2>2, <2>3, <2>4, <2>5, QuietStep
<1>10. ASSUME NEW c \in Clients, SequenceRollback(c)
       PROVE  PoolInv'
  <2>0. held' = held /\ copy' = copy /\ pc[c] = "rollback"
    BY <1>10 DEF SequenceRollback, Return
  <2>1. CASE /\ blocks[c] # <<>> /\ Release(Head(blocks[c]))
             /\ blocks' = [blocks EXCEPT ![c] = Tail(@)] /\ UNCHANGED <<pc, request, copy>>
    <3> DEFINE b == Head(blocks[c])
    <3>1. /\ blocks[c] \in Seq(BlockId) /\ blocks'[c] = Tail(blocks[c])
          /\ \A d \in Clients \ {c} : blocks'[d] = blocks[d]
      BY <1>1, <2>1 DEF ClientTypeOK
    <3>2. IdsIn(Tail(blocks[c])) \subseteq IdsIn(blocks[c]) /\ b \in IdsIn(blocks[c])
      <4>1. /\ Len(blocks[c]) \in Nat \ {0} /\ Len(Tail(blocks[c])) = Len(blocks[c]) - 1
            /\ b = blocks[c][1]
            /\ \A i \in 1..Len(blocks[c]) - 1 : Tail(blocks[c])[i] = blocks[c][i + 1]
        BY <2>1, <3>1
      <4>2. QED BY <4>1 DEF IdsIn
    <3>3. NoDuplicates(blocks[c]) =>
            NoDuplicates(Tail(blocks[c])) /\ b \notin IdsIn(Tail(blocks[c]))
      BY <2>1, <3>1, PopIds
    <3>4. b \notin held'[c] \cup IdsIn(blocks'[c])
      BY <2>0, <3>1, <3>2, <3>3, PoolFacts
    <3>5. QED BY <1>1, <2>0, <2>1, <3>1, <3>2, <3>3, <3>4, ReleaseStep
  <2>2. CASE blocks[c] = <<>> /\ Return(c) /\ UNCHANGED <<pool, stats>>
    <3>1. /\ UNCHANGED <<block_metadata_, free_lists_, next_block_id_>>
          /\ pc'[c] = "idle" /\ blocks'[c] = <<>>
          /\ \A d \in Clients \ {c} : blocks'[d] = blocks[d] /\ pc'[d] = pc[d]
      BY <1>1, <2>2 DEF pool, ClientTypeOK, Return
    <3>2. FreeListsExact'
      BY <1>1, <3>1 DEF FreeListsExact, FreeIn, InUse, Exists, IdsIn, NoDuplicates
    <3>3. held'[c] \cup IdsIn(blocks'[c]) \subseteq held[c] \cup IdsIn(blocks[c])
      BY <2>0, <2>2, <3>1
    <3>4. QED BY <1>1, <2>0, <3>1, <3>2, <3>3, QuietStep DEF InUse, Exists
  <2>3. QED BY <1>10, <2>1, <2>2 DEF SequenceRollback, Remaining
<1>11. ASSUME NEW c \in Clients, NEW b, InUse(b),
              NEW state \in BlockStates \ {"FREE"}, SetState(b, state)
       PROVE  PoolInv'
  <2>1. /\ UNCHANGED <<free_lists_, next_block_id_, pc, copy, held, blocks>>
        /\ block_metadata_' = [block_metadata_ EXCEPT ![b].state = state]
    BY <1>11 DEF SetState, local
  <2>2. /\ DOMAIN block_metadata_' = DOMAIN block_metadata_
        /\ \A x \in DOMAIN block_metadata_ :
             /\ block_metadata_'[x].tier = block_metadata_[x].tier
             /\ block_metadata_'[x].state = IF x = b THEN state ELSE block_metadata_[x].state
    BY <1>1, <1>11, <2>1 DEF PoolTypeOK, Metadata, InUse, Exists
  <2>3. \A x : InUse(x)' <=> InUse(x)
    BY <1>11, <2>2 DEF InUse, Exists
  <2>4. FreeListsExact'
    <3>1. \A t \in Tiers : FreeIn(t)' = FreeIn(t)
      BY <2>2, <2>3 DEF FreeIn
    <3>2. QED BY <1>1, <2>1, <3>1 DEF FreeListsExact, NoDuplicates, IdsIn
  <2>5. QED BY <1>1, <2>1, <2>2, <2>3, <2>4, QuietStep
<1>12. \A c \in Clients : \A b \in Targets(c) : Exists(b) => InUse(b)
  BY PoolFacts DEF Targets
<1>13. ASSUME NEW c \in Clients, NEW b \in Targets(c), LockBlock(c, b)
       PROVE  PoolInv'
  BY <1>11, <1>12, <1>13 DEF LockBlock, BlockStates
<1>14. ASSUME NEW c \in Clients, NEW b \in DOMAIN block_metadata_, UnlockBlock(c, b)
       PROVE  PoolInv'
  BY <1>11, <1>14 DEF UnlockBlock, BlockStates, InUse
<1>15. ASSUME NEW c \in Clients, NEW b \in Targets(c), NEW t \in Tiers, MigrateBlock(c, b, t)
       PROVE  PoolInv'
  <2>1. InUse(b)
    BY <1>12, <1>15 DEF MigrateBlock
  <2>2. /\ pc[c] = "idle" /\ UNCHANGED <<next_block_id_, pc, copy, blocks>>
        /\ held'[c] = held[c] \ {b}
        /\ \A d \in Clients \ {c} : held'[d] = held[d]
    BY <1>1, <1>15 DEF MigrateBlock, local, ClientTypeOK
  <2>3. /\ DOMAIN block_metadata_' = DOMAIN block_metadata_
        /\ \A x \in DOMAIN block_metadata_ :
             /\ block_metadata_'[x].tier = block_metadata_[x].tier
             /\ InUse(x) /\ x # b => InUse(x)'
        /\ FreeListsExact'
    BY <1>1, <1>15, <2>1, MigrateEffect
  <2>4. /\ b \in held[c] /\ b \notin IdsIn(blocks[c])
        /\ \A d \in Clients \ {c} : b \notin Owned(d)
    BY <1>15, PoolFacts DEF Targets
  <2>5. \A d \in Clients \ {c} : \A x \in Owned(d) : InUse(x) => InUse(x)'
    BY <2>3, <2>4 DEF InUse, Exists
  <2>6. /\ \A x \in held'[c] \cup IdsIn(blocks'[c]) :
             /\ Exists(x) => InUse(x)'
             /\ \A d \in Clients \ {c} : x \notin Owned(d)
        /\ NoDuplicates(blocks'[c]) /\ held'[c] \cap IdsIn(blocks'[c]) = {}
    BY <2>2, <2>3, <2>4, PoolFacts DEF Exists
  <2>7. \A x \in held'[c] \cup IdsIn(blocks'[c]) : x < next_block_id_
    BY <2>2, PoolFacts
  <2>8. QED BY <1>1, <2>2, <2>3, <2>5, <2>6, <2>7, ClientStep
<1>16. ASSUME NEW c \in Clients, NEW b \in held[c], ReadMetadata(c, b)
       PROVE  PoolInv'
  <2>1. /\ UNCHANGED <<block_metadata_, free_lists_, next_block_id_, blocks, held>>
        /\ pc'[c] = "rewrite"
        /\ copy'[c].id = b /\ copy'[c].metadata = block_metadata_[b]
        /\ \A d \in Clients \ {c} : pc'[d] = pc[d] /\ copy'[d] = copy[d]
    BY <1>1, <1>16 DEF ReadMetadata, pool, ClientTypeOK
  <2>2. Exists(b)
    BY <1>16 DEF ReadMetadata
  <2>3. InUse(b)
    BY <2>2, PoolFacts
  <2>4. \A x : InUse(x)' <=> InUse(x)
    BY <2>1 DEF InUse, Exists
  <2>5. InUse(copy[c].id)' /\ copy'[c].metadata.state # "FREE"
    BY <2>1, <2>3 DEF InUse, Exists
  <2>6. FreeListsExact'
    BY <1>1, <2>1 DEF FreeListsExact, FreeIn, InUse, Exists, IdsIn, NoDuplicates
  <2>7. QED BY <1>1, <2>1, <2>2, <2>3, <2>4, <2>5, <2>6, PoolFacts, ClientStep
<1>17. ASSUME NEW c \in Clients, WriteMetadata(c)
       PROVE  PoolInv'
  <2> DEFINE b == copy[c].id
             m == copy[c].metadata
  <2>1. /\ UNCHANGED <<free_lists_, next_block_id_, blocks, held>>
        /\ pc[c] = "rewrite" /\ pc'[c] = "idle"
        /\ block_metadata_' = [x \in DOMAIN block_metadata_ \cup {b} |->
                                 IF x = b THEN m ELSE block_metadata_[x]]
        /\ \A d \in Clients \ {c} : pc'[d] = pc[d] /\ copy'[d] = copy[d]
    BY <1>1, <1>17 DEF WriteMetadata, ClientTypeOK
  <2>2. /\ InUse(b) /\ b \in DOMAIN block_metadata_ /\ m.state # "FREE"
        /\ m.tier = block_metadata_[b].tier
    BY <1>1, <2>1 DEF CopyCurrent, InUse, Exists
  <2>3. /\ DOMAIN block_metadata_' = DOMAIN block_metadata_
        /\ \A x \in DOMAIN block_metadata_ :
             block_metadata_'[x] = IF x = b THEN m ELSE block_metadata_[x]
    BY <2>1, <2>2
  <2>4. \A x \in DOMAIN block_metadata_ : block_metadata_'[x].tier = block_metadata_[x].tier
    BY <2>2, <2>3
  <2>5. \A x : InUse(x)' <=> InUse(x)
    BY <2>2, <2>3 DEF InUse, Exists
  <2>6. FreeListsExact'
    <3>1. \A t \in Tiers : FreeIn(t)' = FreeIn(t)
      BY <2>3, <2>4, <2>5 DEF FreeIn
    <3>2. QED BY <1>1, <2>1, <3>1 DEF FreeListsExact, NoDuplicates, IdsIn
  <2>7. QED BY <1>1, <2>1, <2>3, <2>4, <2>5, <2>6, QuietStep
<1>18. ASSUME NEW c \in Clients, Defragment(c)
       PROVE  PoolInv'
  <2>1. UNCHANGED <<block_metadata_, next_block_id_, pc, copy, blocks, held>>
    BY <1>18 DEF Defragment, local
  <2>2. FreeListsExact'
    BY <1>1, <1>18, DefragmentEffect
  <2>3. QED BY <1>1, <2>1, <2>2, QuietStep DEF InUse, Exists
<1>19. ASSUME NEW c \in Clients, ClientNext(c) PROVE PoolInv'
  BY <1>5, <1>6, <1>7, <1>8, <1>9, <1>10, <1>13, <1>14, <1>15, <1>16, <1>17, <1>18, <1>19
  DEF ClientNext
<1>20. QED BY <1>2, <1>3, <1>4, <1>19 DEF Next

\* The invariant holds from the start.
LEMMA PoolInit == Init => PoolInv
<1> SUFFICES ASSUME Init PROVE PoolInv
  OBVIOUS
<1>1. TypeOK
  BY TypeStart DEF TypeInv
<1>2. /\ DOMAIN block_metadata_ = {}
      /\ \A t \in Tiers : free_lists_[t] = <<>>
      /\ \A c \in Clients : held[c] = {} /\ blocks[c] = <<>> /\ pc[c] = "idle"
  BY DEF Init
<1>3. \A c \in Clients : Owned(c) = {}
  BY <1>2 DEF Owned, IdsIn
<1>4. FreeListsExact
  BY <1>2 DEF FreeListsExact, FreeIn, IdsIn, NoDuplicates
<1>5. IdsIssued /\ CopyCurrent /\ HeldExclusively
  BY <1>2, <1>3 DEF IdsIssued, CopyCurrent, HeldExclusively, Owned, NoDuplicates, IdsIn
<1>6. QED BY <1>1, <1>4, <1>5 DEF PoolInv

-----------------------------------------------------------------------------
(* Theorems *)

\* The free lists of the allocator are exact in every reachable state: no
\* block is listed twice and no FREE block is missing, for any number of
\* threads and any mixture of calls, as long as clients lock and
\* migrate only blocks they hold.  Calls on any other id, which migrateBlock
\* and lockBlock accept, can list a block twice.
THEOREM FreeListsStayExact ==
  ASSUME Exclusive
  PROVE  Spec => []FreeListsExact
<1>1. PoolInv => FreeListsExact
  BY DEF PoolInv
<1>2. Exclusive /\ PoolInv /\ [Next]_vars => PoolInv'
  BY PoolStep
<1>3. PoolInv /\ [Next]_vars => PoolInv'
  BY <1>2
<1>4. QED BY PoolInit, <1>1, <1>3, PTL DEF Spec

\* No block ever belongs to two clients and none that belongs to a client is
\* FREE, when clients lock, migrate and rewrite only blocks of their own: also
\* while sequences are built and rolled back and across restarts.
THEOREM BlocksStayExclusive ==
  ASSUME Exclusive
  PROVE  Spec => []HeldExclusively
<1>1. PoolInv => HeldExclusively
  BY DEF PoolInv
<1>2. PoolInv /\ [Next]_vars => PoolInv'
  BY PoolStep
<1>3. QED BY PoolInit, <1>1, <1>2, PTL DEF Spec

-----------------------------------------------------------------------------
(* The refinement of BlockPool *)

Holders == [b \in BlockId |-> HolderOf(b)]

\* What HolderOf says of a block, in the cases that occur when blocks belong
\* to one client each.
LEMMA HolderCases ==
  ASSUME PoolInv, Exclusive, NEW b \in BlockId
  PROVE  /\ ~Exists(b) /\ b < next_block_id_ => HolderOf(b) = "retired"
         /\ ~Exists(b) /\ ~(b < next_block_id_) => HolderOf(b) = "new"
         /\ Exists(b) /\ ~InUse(b) => HolderOf(b) = "free"
         /\ \A c \in Clients : Exists(b) /\ b \in Owned(c) => HolderOf(b) = c /\ InUse(b)
         /\ Exists(b) /\ InUse(b) /\ (\A c \in Clients : b \notin Owned(c)) => HolderOf(b) = "lost"
<1>1. /\ \A c, d \in Clients : c # d => Owned(c) \cap Owned(d) = {}
      /\ \A c \in Clients : \A x \in Owned(c) : Exists(x) => InUse(x)
  BY DEF PoolInv, HeldExclusively
<1>2. ASSUME NEW c \in Clients, Exists(b), b \in Owned(c) PROVE HolderOf(b) = c /\ InUse(b)
  <2>1. InUse(b)
    BY <1>1, <1>2
  <2>2. HolderOf(b) = CHOOSE d \in Clients : b \in Owned(d)
    BY <1>2, <2>1 DEF HolderOf
  <2>3. \A d \in Clients : b \in Owned(d) => d = c
    BY <1>1, <1>2
  <2>4. QED BY <1>2, <2>1, <2>2, <2>3
<1>3. QED BY <1>2 DEF HolderOf

\* The same after a step.
LEMMA HolderCasesNext ==
  ASSUME PoolInv', Exclusive, NEW b \in BlockId
  PROVE  /\ ~Exists(b)' /\ b < next_block_id_' => HolderOf(b)' = "retired"
         /\ ~Exists(b)' /\ ~(b < next_block_id_') => HolderOf(b)' = "new"
         /\ Exists(b)' /\ ~InUse(b)' => HolderOf(b)' = "free"
         /\ \A c \in Clients : Exists(b)' /\ b \in Owned(c)' => HolderOf(b)' = c /\ InUse(b)'
         /\ Exists(b)' /\ InUse(b)' /\ (\A c \in Clients : b \notin Owned(c)')
              => HolderOf(b)' = "lost"
<1>1. /\ \A c, d \in Clients : c # d => Owned(c)' \cap Owned(d)' = {}
      /\ \A c \in Clients : \A x \in Owned(c)' : Exists(x)' => InUse(x)'
  BY DEF PoolInv, HeldExclusively
<1>2. ASSUME NEW c \in Clients, Exists(b)', b \in Owned(c)' PROVE HolderOf(b)' = c /\ InUse(b)'
  <2>1. InUse(b)'
    BY <1>1, <1>2
  <2>2. HolderOf(b)' = CHOOSE d \in Clients : b \in Owned(d)'
    BY <1>2, <2>1 DEF HolderOf
  <2>3. \A d \in Clients : b \in Owned(d)' => d = c
    BY <1>1, <1>2
  <2>4. QED BY <1>2, <2>1, <2>2, <2>3
<1>3. QED BY <1>2 DEF HolderOf

\* A block keeps its holder when it exists, is in use and belongs to the same
\* clients as before.
LEMMA HolderStays ==
  ASSUME NEW b \in BlockId,
         (b < next_block_id_') <=> (b < next_block_id_),
         Exists(b)' <=> Exists(b),
         Exists(b) => (InUse(b)' <=> InUse(b)),
         Exists(b) => \A c \in Clients : b \in Owned(c)' <=> b \in Owned(c)
  PROVE  HolderOf(b)' = HolderOf(b)
<1>1. CASE ~Exists(b)
  BY <1>1 DEF HolderOf
<1>2. CASE Exists(b) /\ ~InUse(b)
  BY <1>2 DEF HolderOf
<1>3. CASE Exists(b) /\ InUse(b)
  <2>1. (CHOOSE c \in Clients : b \in Owned(c)') = (CHOOSE c \in Clients : b \in Owned(c))
    BY <1>3
  <2>2. (\E c \in Clients : b \in Owned(c)') <=> (\E c \in Clients : b \in Owned(c))
    BY <1>3
  <2>3. QED BY <1>3, <2>1, <2>2 DEF HolderOf
<1>4. QED BY <1>1, <1>2, <1>3

\* The abstract steps, block by block.
LEMMA HoldersStay ==
  ASSUME \A x \in BlockId : HolderOf(x)' = HolderOf(x)
  PROVE  Holders' = Holders
  BY DEF Holders

LEMMA HolderAcquires ==
  ASSUME NEW c \in Clients, NEW b \in BlockId, HolderOf(b) = "free", HolderOf(b)' = c,
         \A x \in BlockId : x # b => HolderOf(x)' = HolderOf(x)
  PROVE  Pool!Next
<1>1. Holders[b] = "free" /\ Holders' = [Holders EXCEPT ![b] = c]
  BY DEF Holders
<1>2. Pool!Acquire(c, b)
  BY <1>1 DEF Pool!Acquire, Pool!Free, Holders
<1>3. QED BY <1>2 DEF Pool!Next

LEMMA HolderGivesUp ==
  ASSUME NEW c \in Clients, NEW b \in BlockId, HolderOf(b) = c,
         HolderOf(b)' \in {"free", "lost"},
         \A x \in BlockId : x # b => HolderOf(x)' = HolderOf(x)
  PROVE  Pool!Next
<1> PICK state : state = HolderOf(b)'
  OBVIOUS
<1>1. Holders[b] = c /\ Holders' = [Holders EXCEPT ![b] = state]
  BY DEF Holders
<1>2. Pool!GiveUp(c, b)
  BY <1>1 DEF Pool!GiveUp, Pool!Free, Pool!Lost, Holders
<1>3. QED BY <1>2 DEF Pool!Next

LEMMA HolderMoves ==
  ASSUME NEW c \in Clients, NEW b \in BlockId, NEW to \in BlockId, b # to,
         HolderOf(b) = c, HolderOf(to) = "free",
         HolderOf(b)' = "free", HolderOf(to)' = "lost",
         \A x \in BlockId : x # b /\ x # to => HolderOf(x)' = HolderOf(x)
  PROVE  Pool!Next
<1>1. /\ Holders[b] = c /\ Holders[to] = "free"
      /\ Holders' = [Holders EXCEPT ![b] = "free", ![to] = "lost"]
  BY DEF Holders
<1>2. Pool!Move(c, b, to)
  BY <1>1 DEF Pool!Move, Pool!Free, Pool!Lost, Holders
<1>3. QED BY <1>2 DEF Pool!Next

LEMMA HolderAbandons ==
  ASSUME NEW c \in Clients, NEW some \in SUBSET BlockId,
         \A x \in some : HolderOf(x) = c /\ HolderOf(x)' = "lost",
         \A x \in BlockId \ some : HolderOf(x)' = HolderOf(x)
  PROVE  Pool!Next
<1>1. /\ \A x \in some : Holders[x] = c
      /\ Holders' = [b \in BlockId |-> IF b \in some THEN "lost" ELSE Holders[b]]
  BY DEF Holders
<1>2. Pool!Abandon(c, some)
  BY <1>1 DEF Pool!Abandon, Pool!Lost, Holders
<1>3. QED BY <1>2 DEF Pool!Next

LEMMA HoldersGrow ==
  ASSUME \A x \in BlockId :
           HolderOf(x)' = HolderOf(x) \/ (HolderOf(x) = "new" /\ HolderOf(x)' = "free")
  PROVE  Pool!Next
<1> DEFINE fresh == {x \in BlockId : HolderOf(x) = "new" /\ HolderOf(x)' = "free"}
<1>1. /\ fresh \in SUBSET {x \in BlockId : Holders[x] = "new"}
      /\ Holders' = [b \in BlockId |-> IF b \in fresh THEN "free" ELSE Holders[b]]
  BY DEF Holders
<1>2. Pool!Grow
  BY <1>1 DEF Pool!Grow, Pool!New, Pool!Free, Holders
<1>3. QED BY <1>2 DEF Pool!Next

LEMMA HoldersRetire ==
  ASSUME \A x \in BlockId : HolderOf(x)' = IF HolderOf(x) = "new" THEN "new" ELSE "retired"
  PROVE  Pool!Next
<1>1. Holders' = [b \in BlockId |-> IF Holders[b] = "new" THEN "new" ELSE "retired"]
  BY DEF Holders
<1>2. Pool!Retire
  BY <1>1 DEF Pool!Retire, Pool!New, Pool!Retired, Holders
<1>3. QED BY <1>2 DEF Pool!Next

-----------------------------------------------------------------------------
(* The steps of the allocator *)

\* The blocks of a client are ids, and after a step they are read off anew.
LEMMA OwnedFacts ==
  ASSUME PoolInv
  PROVE  /\ \A c \in Clients : Owned(c) \subseteq BlockId
         /\ \A c \in Clients : Owned(c)' = held'[c] \cup IdsIn(blocks'[c])
         /\ \A x \in DOMAIN block_metadata_ : x \in BlockId
         /\ next_block_id_ \in Int /\ BlockId \subseteq Nat
<1>1. \A c \in Clients : held[c] \subseteq BlockId /\ blocks[c] \in Seq(BlockId)
  BY PoolFacts DEF ClientTypeOK
<1>2. \A c \in Clients : Owned(c) \subseteq BlockId
  BY <1>1 DEF Owned, IdsIn
<1>3. \A c \in Clients : Owned(c)' = held'[c] \cup IdsIn(blocks'[c])
  BY DEF Owned, IdsIn
<1>4. /\ \A x \in DOMAIN block_metadata_ : x \in BlockId
      /\ next_block_id_ \in Int /\ BlockId \subseteq Nat
  BY ConfigAssumption, PoolFacts DEF PoolTypeOK, BlockId
<1>5. QED BY <1>2, <1>3, <1>4

\* A step that leaves the use and the owners of all blocks changes no holder.
LEMMA QuietHolders ==
  ASSUME PoolInv, next_block_id_' = next_block_id_,
         DOMAIN block_metadata_' = DOMAIN block_metadata_,
         \A x \in DOMAIN block_metadata_ : InUse(x)' <=> InUse(x),
         \A c \in Clients : \A x : x \in Owned(c)' <=> x \in Owned(c)
  PROVE  Holders' = Holders
<1>1. \A x \in BlockId : HolderOf(x)' = HolderOf(x)
  BY HolderStays DEF Exists
<1>2. QED BY <1>1, HoldersStay

\* A client that takes the front block of a list acquires it.
LEMMA TakeAcquires ==
  ASSUME PoolInv, PoolInv', Exclusive, NEW c \in Clients, NEW t \in Tiers, NEW layer,
         free_lists_[t] # <<>>, Take(t, layer),
         Owned(c)' = Owned(c) \cup {Head(free_lists_[t])},
         \A d \in Clients \ {c} : Owned(d)' = Owned(d)
  PROVE  Pool!Next
<1> PICK b : b = Head(free_lists_[t])
  OBVIOUS
<1>1. /\ b \in DOMAIN block_metadata_ /\ b \in BlockId /\ ~InUse(b)
      /\ DOMAIN block_metadata_' = DOMAIN block_metadata_
      /\ \A x \in DOMAIN block_metadata_ : InUse(x)' <=> InUse(x) \/ x = b
      /\ next_block_id_' = next_block_id_
  BY TakeEffect, PoolFacts, OwnedFacts DEF Take
<1>2. HolderOf(b) = "free"
  BY <1>1, HolderCases DEF Exists
<1>3. HolderOf(b)' = c
  <2>1. Exists(b)' /\ b \in Owned(c)'
    BY <1>1 DEF Exists
  <2>2. QED BY <1>1, <2>1, HolderCasesNext
<1>4. ASSUME NEW x \in BlockId, x # b PROVE HolderOf(x)' = HolderOf(x)
  <2>1. \A d \in Clients : x \in Owned(d)' <=> x \in Owned(d)
    BY <1>4
  <2>2. QED BY <1>1, <1>4, <2>1, HolderStays DEF Exists
<1>5. QED BY <1>1, <1>2, <1>3, <1>4, HolderAcquires

\* A client that frees a block of its own gives it up, unless it is gone: an
\* ALLOCATED block becomes free and a LOCKED one is lost.
LEMMA ReleaseGivesUp ==
  ASSUME PoolInv, PoolInv', Exclusive, NEW c \in Clients, NEW b \in Owned(c), Release(b),
         Owned(c)' = Owned(c) \ {b},
         \A d \in Clients \ {c} : Owned(d)' = Owned(d)
  PROVE  Pool!Next \/ Holders' = Holders
<1>1. /\ b \in BlockId
      /\ DOMAIN block_metadata_' = DOMAIN block_metadata_
      /\ \A x \in DOMAIN block_metadata_ : x # b => (InUse(x)' <=> InUse(x))
      /\ next_block_id_' = next_block_id_
  BY ReleaseEffect, PoolFacts, OwnedFacts DEF Release, pool
<1>2. ASSUME NEW x \in BlockId, x # b PROVE HolderOf(x)' = HolderOf(x)
  <2>1. \A d \in Clients : x \in Owned(d)' <=> x \in Owned(d)
    BY <1>2
  <2>2. QED BY <1>1, <1>2, <2>1, HolderStays DEF Exists
<1>3. CASE ~Exists(b)
  <2>1. HolderOf(b)' = HolderOf(b)
    BY <1>1, <1>3, HolderStays DEF Exists
  <2>2. QED BY <1>2, <2>1, HoldersStay
<1>4. CASE Exists(b)
  <2>1. HolderOf(b) = c
    BY <1>1, <1>4, HolderCases
  <2>2. \A d \in Clients : b \notin Owned(d)'
    BY DEF PoolInv, HeldExclusively
  <2>3. HolderOf(b)' \in {"free", "lost"}
    BY <1>1, <1>4, <2>2, HolderCasesNext DEF Exists
  <2>4. QED BY <1>1, <1>2, <2>1, <2>3, HolderGivesUp
<1>5. QED BY <1>3, <1>4

\* A new pool makes new ids free, and closing it retires all the others.
LEMMA LifecycleHolders ==
  ASSUME PoolInv, PoolInv', Exclusive, Initialize \/ Shutdown
  PROVE  Pool!Next
<1>1. \A c \in Clients : Owned(c)' = Owned(c)
  BY DEF Initialize, Shutdown, local, Owned, IdsIn
<1>2. CASE Initialize
  <2>1. /\ next_block_id_' \in Int /\ next_block_id_' >= next_block_id_
        /\ \A b \in DOMAIN block_metadata_' :
             /\ b < next_block_id_'
             /\ b < next_block_id_ =>
                  b \in DOMAIN block_metadata_ /\ block_metadata_'[b] = block_metadata_[b]
        /\ DOMAIN block_metadata_ \subseteq DOMAIN block_metadata_'
        /\ \A b \in DOMAIN block_metadata_ : b < next_block_id_
    BY <1>2, PoolFacts, InitializeEffect
  <2>2. ASSUME NEW b \in BlockId, b \in DOMAIN block_metadata_' => b < next_block_id_,
               b < next_block_id_ \/ ~(b < next_block_id_')
        PROVE  HolderOf(b)' = HolderOf(b)
    <3>1. /\ b \in DOMAIN block_metadata_' <=> b \in DOMAIN block_metadata_
          /\ b \in DOMAIN block_metadata_ => block_metadata_'[b] = block_metadata_[b]
      BY <2>1, <2>2
    <3>2. (b < next_block_id_') <=> (b < next_block_id_)
      BY <2>1, <2>2, OwnedFacts
    <3>3. QED BY <1>1, <3>1, <3>2, HolderStays DEF Exists, InUse
  <2>3. ASSUME NEW b \in BlockId, ~(b < next_block_id_), b < next_block_id_'
        PROVE  HolderOf(b) = "new" /\ HolderOf(b)' = "free"
    <3>1. ~Exists(b)
      BY <2>1, <2>3 DEF Exists
    <3>2. HolderOf(b) = "new"
      BY <2>3, <3>1 DEF HolderOf
    <3>3. Exists(b)' /\ ~InUse(b)'
      <4>1. b \in FirstNewId..LastNewId
        BY <1>2, <2>3, OwnedFacts, ConfigAssumption DEF Initialize, FirstNewId, LastNewId
      <4>2. block_metadata_' =
              [x \in DOMAIN block_metadata_ \cup FirstNewId..LastNewId |->
                 IF x >= FirstNewId THEN FreshMetadata(NewTier(x)) ELSE block_metadata_[x]]
        BY <1>2 DEF Initialize
      <4>3. b \in DOMAIN block_metadata_' /\ block_metadata_'[b] = FreshMetadata(NewTier(b))
        BY <2>3, <4>1, <4>2, OwnedFacts DEF FirstNewId
      <4>4. QED BY <4>3 DEF Exists, InUse, FreshMetadata
    <3>4. QED BY <3>2, <3>3, HolderCasesNext
  <2>4. \A b \in BlockId :
          HolderOf(b)' = HolderOf(b) \/ (HolderOf(b) = "new" /\ HolderOf(b)' = "free")
    <3> SUFFICES ASSUME NEW b \in BlockId
                 PROVE  \/ HolderOf(b)' = HolderOf(b)
                        \/ HolderOf(b) = "new" /\ HolderOf(b)' = "free"
      OBVIOUS
    <3>1. CASE b < next_block_id_
      BY <2>2, <3>1
    <3>2. CASE ~(b < next_block_id_) /\ b < next_block_id_'
      BY <2>3, <3>2
    <3>3. CASE ~(b < next_block_id_) /\ ~(b < next_block_id_')
      BY <2>1, <2>2, <3>3
    <3>4. QED BY <3>1, <3>2, <3>3
  <2>5. QED BY <2>4, HoldersGrow
<1>3. CASE Shutdown
  <2>1. DOMAIN block_metadata_' = {} /\ next_block_id_' = next_block_id_
    BY <1>3 DEF Shutdown
  <2>2. \A b \in DOMAIN block_metadata_ : b < next_block_id_
    BY PoolFacts
  <2>3. ASSUME NEW b \in BlockId
        PROVE  HolderOf(b)' = IF HolderOf(b) = "new" THEN "new" ELSE "retired"
    <3>1. HolderOf(b)' = IF b < next_block_id_ THEN "retired" ELSE "new"
      BY <2>1 DEF HolderOf, Exists
    <3>2. CASE ~Exists(b)
      BY <3>1, <3>2 DEF HolderOf
    <3>3. CASE Exists(b)
      <4>1. HolderOf(b) \in Clients \cup {"free", "lost"}
        BY <3>3 DEF HolderOf
      <4>2. HolderOf(b) # "new"
        BY <4>1, ClientNames
      <4>3. QED BY <2>2, <3>1, <3>3, <4>2 DEF Exists
    <3>4. QED BY <3>2, <3>3
  <2>4. QED BY <2>3, HoldersRetire
<1>4. QED BY <1>2, <1>3

\* One round of allocateSequence: it takes a block, or finds none, or unwinds
\* and abandons what it has.
LEMMA SequenceAllocateHolders ==
  ASSUME PoolInv, PoolInv', Exclusive, NEW c \in Clients, SequenceAllocate(c)
  PROVE  Pool!Next \/ Holders' = Holders
<1>1. /\ held' = held /\ PoolTypeOK /\ ClientTypeOK
      /\ blocks[c] \in Seq(BlockId)
  BY PoolFacts DEF SequenceAllocate, ClientTypeOK
<1>2. CASE Serves("HOT", "HOT") /\ Take("HOT", request[c].layer)
           /\ blocks' = [blocks EXCEPT ![c] = Append(@, Head(free_lists_["HOT"]))]
  <2> PICK b : b = Head(free_lists_["HOT"])
    OBVIOUS
  <2>1. /\ blocks'[c] = Append(blocks[c], b) /\ free_lists_["HOT"] # <<>> /\ "HOT" \in Tiers
        /\ \A d \in Clients \ {c} : blocks'[d] = blocks[d]
    BY <1>1, <1>2 DEF ClientTypeOK, Serves, Tiers
  <2>2. b \in BlockId /\ ~InUse(b) /\ Exists(b)
    BY <1>1, <1>2, <2>1, TakeEffect, PoolFacts, OwnedFacts DEF Exists
  <2>3. b \notin IdsIn(blocks[c]) /\ NoDuplicates(blocks[c])
    BY <2>2, PoolFacts
  <2>4. IdsIn(blocks'[c]) = IdsIn(blocks[c]) \cup {b}
    BY <1>1, <2>1, <2>2, <2>3, PushIds
  <2>5. /\ Owned(c)' = Owned(c) \cup {Head(free_lists_["HOT"])}
        /\ \A d \in Clients \ {c} : Owned(d)' = Owned(d)
    BY <1>1, <2>1, <2>4, OwnedFacts DEF Owned
  <2>6. QED BY <1>2, <2>1, <2>5, TakeAcquires
<1>3. CASE UNCHANGED <<pool, stats, request, blocks, copy>>
  BY <1>1, <1>3, QuietHolders DEF pool, InUse, Exists, Owned, IdsIn
<1>4. CASE Return(c) /\ UNCHANGED <<pool, stats>>
  <2>1. /\ blocks'[c] = <<>> /\ \A d \in Clients \ {c} : blocks'[d] = blocks[d]
        /\ UNCHANGED <<block_metadata_, next_block_id_>>
    BY <1>1, <1>4 DEF Return, ClientTypeOK, pool
  <2>2. IdsIn(blocks'[c]) = {}
    BY <2>1 DEF IdsIn
  <2>3. Owned(c)' = held[c] /\ \A d \in Clients \ {c} : Owned(d)' = Owned(d)
    BY <1>1, <2>1, <2>2, OwnedFacts DEF Owned
  <2> DEFINE some == {b \in IdsIn(blocks[c]) : Exists(b)}
  <2>4. some \in SUBSET BlockId
    BY OwnedFacts DEF Owned
  <2>5. ASSUME NEW x \in some PROVE HolderOf(x) = c /\ HolderOf(x)' = "lost"
    <3>1. x \in Owned(c) /\ Exists(x) /\ x \in BlockId /\ InUse(x)
      BY <2>4, PoolFacts DEF Owned
    <3>2. \A d \in Clients : x \notin Owned(d)'
      BY <2>3, PoolFacts
    <3>3. Exists(x)' /\ InUse(x)'
      BY <2>1, <3>1 DEF Exists, InUse
    <3>4. QED BY <3>1, <3>2, <3>3, HolderCases, HolderCasesNext
  <2>6. ASSUME NEW x \in BlockId \ some PROVE HolderOf(x)' = HolderOf(x)
    <3>1. Exists(x) => x \notin IdsIn(blocks[c])
      BY <2>6
    <3>2. Exists(x) => \A d \in Clients : x \in Owned(d)' <=> x \in Owned(d)
      BY <2>3, <3>1 DEF Owned
    <3>3. QED BY <2>1, <3>2, HolderStays DEF Exists, InUse
  <2> HIDE DEF some
  <2>7. QED BY <2>4, <2>5, <2>6, HolderAbandons
<1>5. QED BY <1>2, <1>3, <1>4 DEF SequenceAllocate

\* Linking a block changes no holder, and a call that returns its blocks hands
\* them to its own client.
LEMMA SequenceLinkHolders ==
  ASSUME PoolInv, PoolInv', Exclusive, NEW c \in Clients, SequenceLink(c)
  PROVE  Holders' = Holders
<1> DEFINE n == Len(blocks[c])
           p == blocks[c][n - 1]
<1>1. /\ next_block_id_' = next_block_id_ /\ PoolTypeOK /\ ClientTypeOK
      /\ block_metadata_' = IF n > 1 /\ Exists(p)
                            THEN [block_metadata_ EXCEPT ![p].next = blocks[c][n]]
                            ELSE block_metadata_
  BY PoolFacts DEF SequenceLink
<1>2. /\ DOMAIN block_metadata_' = DOMAIN block_metadata_
      /\ \A b \in DOMAIN block_metadata_ :
           block_metadata_'[b].state = block_metadata_[b].state
  BY <1>1 DEF PoolTypeOK, Metadata, Exists
<1>3. \A x \in DOMAIN block_metadata_ : InUse(x)' <=> InUse(x)
  BY <1>2 DEF InUse, Exists
<1>4. \A d \in Clients : Owned(d)' = Owned(d)
  <2>1. CASE UNCHANGED <<request, blocks, copy, held>>
    BY <2>1 DEF Owned, IdsIn
  <2>2. CASE held' = [held EXCEPT ![c] = @ \cup {blocks[c][i] : i \in 1..n}] /\ Return(c)
    <3>1. /\ held'[c] = held[c] \cup IdsIn(blocks[c]) /\ blocks'[c] = <<>>
          /\ \A d \in Clients \ {c} : held'[d] = held[d] /\ blocks'[d] = blocks[d]
      BY <1>1, <2>2 DEF ClientTypeOK, Return, IdsIn
    <3>2. IdsIn(blocks'[c]) = {}
      BY <3>1 DEF IdsIn
    <3>3. QED BY <3>1, <3>2, OwnedFacts DEF Owned
  <2>3. QED BY <2>1, <2>2 DEF SequenceLink
<1>5. QED BY <1>1, <1>2, <1>3, <1>4, QuietHolders

LEMMA SequenceRollbackHolders ==
  ASSUME PoolInv, PoolInv', Exclusive, NEW c \in Clients, SequenceRollback(c)
  PROVE  Pool!Next \/ Holders' = Holders
<1>1. held' = held /\ ClientTypeOK /\ blocks[c] \in Seq(BlockId)
  BY PoolFacts DEF SequenceRollback, ClientTypeOK
<1>2. CASE /\ blocks[c] # <<>> /\ Release(Head(blocks[c]))
           /\ blocks' = [blocks EXCEPT ![c] = Tail(@)]
  <2> PICK b : b = Head(blocks[c])
    OBVIOUS
  <2>1. /\ blocks'[c] = Tail(blocks[c]) /\ Release(b)
        /\ \A d \in Clients \ {c} : blocks'[d] = blocks[d]
    BY <1>1, <1>2 DEF ClientTypeOK
  <2>2. /\ NoDuplicates(blocks[c]) /\ held[c] \cap IdsIn(blocks[c]) = {}
    BY PoolFacts
  <2>3. b \in IdsIn(blocks[c]) /\ IdsIn(blocks'[c]) = IdsIn(blocks[c]) \ {b}
    BY <1>1, <1>2, <2>1, <2>2, PopIds
  <2>4. b \in Owned(c) /\ Owned(c)' = Owned(c) \ {b}
    BY <1>1, <2>2, <2>3, OwnedFacts DEF Owned
  <2>5. \A d \in Clients \ {c} : Owned(d)' = Owned(d)
    BY <1>1, <2>1, OwnedFacts DEF Owned
  <2>6. QED BY <2>1, <2>4, <2>5, ReleaseGivesUp
<1>3. CASE blocks[c] = <<>> /\ Return(c) /\ UNCHANGED <<pool, stats>>
  <2>1. blocks' = blocks
    BY <1>1, <1>3 DEF Return, ClientTypeOK
  <2>2. QED BY <1>1, <1>3, <2>1, QuietHolders DEF pool, InUse, Exists, Owned, IdsIn
<1>4. QED BY <1>2, <1>3 DEF SequenceRollback, Remaining

\* A migration frees the client's block and loses the one it moves to.
LEMMA MigrateMoves ==
  ASSUME PoolInv, PoolInv', Exclusive, NEW c \in Clients, NEW b \in held[c], NEW t \in Tiers,
         MigrateBlock(c, b, t)
  PROVE  Pool!Next
<1> PICK to : to = Head(free_lists_[t])
  OBVIOUS
<1>1. /\ b \in BlockId /\ b \in Owned(c) /\ Exists(b) /\ InUse(b)
  BY PoolFacts, OwnedFacts DEF MigrateBlock, Owned
<1>2. /\ to \in DOMAIN block_metadata_ /\ to \in BlockId /\ ~InUse(to) /\ to # b
      /\ DOMAIN block_metadata_' = DOMAIN block_metadata_
      /\ \A x \in DOMAIN block_metadata_ : InUse(x)' <=> x # b /\ (InUse(x) \/ x = to)
      /\ next_block_id_' = next_block_id_
  <2>1. /\ Head(free_lists_[t]) \in DOMAIN block_metadata_
        /\ ~InUse(Head(free_lists_[t])) /\ Head(free_lists_[t]) # b
        /\ DOMAIN block_metadata_' = DOMAIN block_metadata_
        /\ \A x \in DOMAIN block_metadata_ :
             InUse(x)' <=> x # b /\ (InUse(x) \/ x = Head(free_lists_[t]))
    BY <1>1, MigrateEffect, PoolFacts
  <2>2. QED BY <2>1, OwnedFacts DEF MigrateBlock
<1>3. /\ held'[c] = held[c] \ {b} /\ \A d \in Clients \ {c} : held'[d] = held[d]
      /\ blocks' = blocks
  BY PoolFacts DEF MigrateBlock, local, ClientTypeOK
<1>4. b \notin IdsIn(blocks[c])
  BY PoolFacts
<1>5. Owned(c)' = Owned(c) \ {b} /\ \A d \in Clients \ {c} : Owned(d)' = Owned(d)
  BY <1>3, <1>4, OwnedFacts DEF Owned
<1>6. HolderOf(b) = c /\ HolderOf(to) = "free"
  BY <1>1, <1>2, HolderCases DEF Exists
<1>7. HolderOf(b)' = "free"
  BY <1>1, <1>2, HolderCasesNext DEF Exists
<1>8. HolderOf(to)' = "lost"
  <2>1. \A d \in Clients : to \notin Owned(d)
    BY <1>2 DEF PoolInv, HeldExclusively, Exists
  <2>2. \A d \in Clients : to \notin Owned(d)'
    BY <1>5, <2>1
  <2>3. QED BY <1>2, <2>2, HolderCasesNext DEF Exists
<1>9. ASSUME NEW x \in BlockId, x # b, x # to PROVE HolderOf(x)' = HolderOf(x)
  <2>1. \A d \in Clients : x \in Owned(d)' <=> x \in Owned(d)
    BY <1>5, <1>9
  <2>2. QED BY <1>2, <1>9, <2>1, HolderStays DEF Exists
<1>10. QED BY <1>1, <1>2, <1>6, <1>7, <1>8, <1>9, HolderMoves

\* Locking, unlocking, rewriting and rebuilding free lists change no holder.
LEMMA OtherHolders ==
  ASSUME PoolInv, Exclusive, NEW c \in Clients, NEW b,
         \/ (LockBlock(c, b) /\ b \in Targets(c)) \/ UnlockBlock(c, b)
         \/ ReadMetadata(c, b) \/ WriteMetadata(c) \/ Defragment(c)
  PROVE  Holders' = Holders
<1>1. UNCHANGED <<next_block_id_, held, blocks>>
  BY DEF LockBlock, UnlockBlock, SetState, ReadMetadata, WriteMetadata, Defragment, pool, local
<1>2. DOMAIN block_metadata_' = DOMAIN block_metadata_
      /\ \A x \in DOMAIN block_metadata_ : InUse(x)' <=> InUse(x)
  <2>1. ASSUME NEW state \in {"LOCKED", "ALLOCATED"}, SetState(b, state), InUse(b)
        PROVE  DOMAIN block_metadata_' = DOMAIN block_metadata_
               /\ \A x \in DOMAIN block_metadata_ : InUse(x)' <=> InUse(x)
    <3>1. block_metadata_' = [block_metadata_ EXCEPT ![b].state = state]
      BY <2>1 DEF SetState
    <3>2. /\ DOMAIN block_metadata_' = DOMAIN block_metadata_
          /\ \A x \in DOMAIN block_metadata_ :
               block_metadata_'[x].state = IF x = b THEN state ELSE block_metadata_[x].state
      BY <3>1, PoolFacts DEF PoolTypeOK, Metadata
    <3>3. QED BY <2>1, <3>2 DEF InUse, Exists
  <2>2. CASE LockBlock(c, b) /\ b \in Targets(c)
    <3>1. InUse(b)
      BY <2>2, PoolFacts DEF LockBlock, Targets
    <3>2. QED BY <2>1, <2>2, <3>1 DEF LockBlock
  <2>3. CASE UnlockBlock(c, b)
    BY <2>1, <2>3 DEF UnlockBlock, InUse
  <2>4. CASE ReadMetadata(c, b) \/ Defragment(c)
    BY <2>4 DEF ReadMetadata, Defragment, pool, InUse, Exists
  <2>5. CASE WriteMetadata(c)
    <3> PICK x : x = copy[c].id
      OBVIOUS
    <3>1. InUse(x) /\ copy[c].metadata.state # "FREE"
      BY <2>5, PoolFacts DEF WriteMetadata, CopyCurrent, InUse, Exists
    <3>2. /\ DOMAIN block_metadata_' = DOMAIN block_metadata_
          /\ \A y \in DOMAIN block_metadata_ :
               block_metadata_'[y] = IF y = x THEN copy[c].metadata ELSE block_metadata_[y]
      BY <2>5, <3>1 DEF WriteMetadata, InUse, Exists
    <3>3. QED BY <3>1, <3>2 DEF InUse, Exists
  <2>6. QED BY <2>2, <2>3, <2>4, <2>5
<1>3. \A d \in Clients : Owned(d)' = Owned(d)
  BY <1>1 DEF Owned, IdsIn
<1>4. QED BY <1>1, <1>2, <1>3, QuietHolders

\* Every step of the allocator is a step of the abstract pool or changes
\* nothing it shows: one step per action.
LEMMA PoolSimulation ==
  Exclusive /\ PoolInv /\ PoolInv' /\ [Next]_vars => [Pool!Next]_Holders
<1> SUFFICES ASSUME Exclusive, PoolInv, PoolInv', [Next]_vars
             PROVE  Pool!Next \/ Holders' = Holders
  OBVIOUS
<1>1. CASE Initialize \/ Shutdown
  BY <1>1, LifecycleHolders
<1>2. CASE ResetStats \/ UNCHANGED vars
  <2>1. UNCHANGED <<pool, local, held>>
    BY <1>2 DEF ResetStats, vars
  <2>2. QED BY <2>1, QuietHolders DEF pool, local, InUse, Exists, Owned, IdsIn
<1>3. ASSUME NEW c \in Clients, NEW l \in Layers, NEW t \in Tiers, AllocateBlock(c, l, t)
      PROVE  Pool!Next \/ Holders' = Holders
  <2>1. CASE UNCHANGED <<pool, stats, held>>
    BY <1>3, <2>1, QuietHolders DEF AllocateBlock, pool, local, InUse, Exists, Owned, IdsIn
  <2>2. ASSUME NEW s \in Tiers, Serves(s, t), Take(s, l),
               held' = [held EXCEPT ![c] = @ \cup {Head(free_lists_[s])}]
        PROVE  Pool!Next
    <3>1. /\ held'[c] = held[c] \cup {Head(free_lists_[s])} /\ blocks' = blocks
          /\ \A d \in Clients \ {c} : held'[d] = held[d]
      BY <1>3, <2>2, PoolFacts DEF AllocateBlock, local, ClientTypeOK
    <3>2. /\ Owned(c)' = Owned(c) \cup {Head(free_lists_[s])}
          /\ \A d \in Clients \ {c} : Owned(d)' = Owned(d)
      BY <3>1, OwnedFacts DEF Owned
    <3>3. QED BY <2>2, <3>2, TakeAcquires DEF Serves
  <2>3. QED BY <1>3, <2>1, <2>2 DEF AllocateBlock
<1>4. ASSUME NEW c \in Clients, NEW b \in held[c], DeallocateBlock(c, b)
      PROVE  Pool!Next \/ Holders' = Holders
  <2>1. /\ Release(b) /\ blocks' = blocks /\ held'[c] = held[c] \ {b}
        /\ \A d \in Clients \ {c} : held'[d] = held[d]
    BY <1>4, PoolFacts DEF DeallocateBlock, local, ClientTypeOK
  <2>2. b \in Owned(c) /\ b \notin IdsIn(blocks[c])
    BY PoolFacts DEF Owned
  <2>3. Owned(c)' = Owned(c) \ {b} /\ \A d \in Clients \ {c} : Owned(d)' = Owned(d)
    BY <2>1, <2>2, OwnedFacts DEF Owned
  <2>4. QED BY <2>1, <2>2, <2>3, ReleaseGivesUp
<1>5. ASSUME NEW c \in Clients, NEW l \in Layers, NEW n \in 1..MaxSequence,
             AllocateSequence(c, l, n)
      PROVE  Holders' = Holders
  BY <1>5, QuietHolders DEF AllocateSequence, pool, InUse, Exists, Owned, IdsIn
<1>6. ASSUME NEW c \in Clients, ClientNext(c) PROVE Pool!Next \/ Holders' = Holders
  <2>1. \A b : b \in Targets(c) => b \in held[c]
    BY DEF Targets
  <2>2. ASSUME NEW b \in Targets(c), NEW t \in Tiers, MigrateBlock(c, b, t) PROVE Pool!Next
    BY <2>1, <2>2, MigrateMoves
  <2>3. CASE SequenceAllocate(c) \/ SequenceLink(c) \/ SequenceRollback(c)
    BY <2>3, SequenceAllocateHolders, SequenceLinkHolders, SequenceRollbackHolders
  <2>4. ASSUME NEW b, \/ (LockBlock(c, b) /\ b \in Targets(c)) \/ UnlockBlock(c, b)
                      \/ ReadMetadata(c, b) \/ WriteMetadata(c) \/ Defragment(c)
        PROVE  Holders' = Holders
    BY <2>4, OtherHolders
  <2>5. QED BY <1>3, <1>4, <1>5, <1>6, <2>2, <2>3, <2>4 DEF ClientNext
<1>7. QED BY <1>1, <1>2, <1>6 DEF Next

\* All blocks are new at the start.
LEMMA PoolSimulationStart == Init => Pool!Init
<1> SUFFICES ASSUME Init PROVE Pool!Init
  OBVIOUS
<1>1. \A b \in BlockId : HolderOf(b) = "new"
  <2>1. DOMAIN block_metadata_ = {} /\ next_block_id_ = 1
    BY DEF Init
  <2>2. \A b \in BlockId : ~(b < next_block_id_) /\ ~Exists(b)
    BY <2>1, ConfigAssumption DEF BlockId, Exists
  <2>3. QED BY <2>2 DEF HolderOf
<1>2. QED BY <1>1 DEF Pool!Init, Pool!New

\* The allocator, used exclusively, is the abstract pool for any number of
\* clients and blocks, restarts included: a block changes hands only through
\* the free state, and what is lost or retired never comes back to a client.
THEOREM AllocatorIsPool ==
  ASSUME Exclusive
  PROVE  Spec => ImplementsPool
<1>1. PoolInv /\ [Next]_vars => PoolInv'
  BY PoolStep
<1>2. PoolInv /\ PoolInv' /\ [Next]_vars => [Pool!Next]_([b \in BlockId |-> HolderOf(b)])
  BY PoolSimulation DEF Holders
<1>3. QED BY PoolInit, PoolSimulationStart, <1>1, <1>2, PTL DEF Spec, ImplementsPool, Pool!Spec

-----------------------------------------------------------------------------
(* The counters *)

UsageIsCount == \A t \in Tiers : tier_usages_[t] = Cardinality(UsedIn(t))

\* The usage counters count blocks, and while nobody resets the statistics the
\* blocks in use are the allocations that were not undone.
CountsExact ==
  /\ UsageIsCount
  /\ "resetStats" \notin Calls => net_allocations_ = Usage /\ Usage <= peak_usage_

CountsInv == NothingClosed => CountsExact

\* The number of some blocks is a number of size_t.
LEMMA BlocksFit ==
  ASSUME NEW S \in SUBSET BlockId
  PROVE  /\ IsFiniteSet(S) /\ Cardinality(S) \in Nat
         /\ Cardinality(S) <= MaxBlockId /\ MaxBlockId <= MaxSize
         /\ MaxBlockId \in Nat /\ MaxSize \in Nat
<1>1. MaxBlockId \in Nat /\ MaxSize \in Nat /\ MaxBlockId <= MaxSize
  BY ConfigAssumption
<1>2. IsFiniteSet(BlockId) /\ Cardinality(BlockId) = MaxBlockId
  BY <1>1, FS_Interval DEF BlockId
<1>3. IsFiniteSet(S) /\ Cardinality(S) <= Cardinality(BlockId)
  BY <1>2, FS_Subset
<1>4. QED BY <1>1, <1>2, <1>3, FS_CardinalityType

\* The blocks of three parts are together no more than there are.
LEMMA ThreeFit ==
  ASSUME NEW S \in SUBSET BlockId, NEW T \in SUBSET BlockId, NEW U \in SUBSET BlockId,
         S \cap T = {}, S \cap U = {}, T \cap U = {}
  PROVE  Cardinality(S) + Cardinality(T) + Cardinality(U) <= MaxBlockId
<1>1. S \cup T \in SUBSET BlockId /\ (S \cup T) \cup U \in SUBSET BlockId
  OBVIOUS
<1>2. /\ IsFiniteSet(S) /\ IsFiniteSet(T) /\ IsFiniteSet(U) /\ IsFiniteSet(S \cup T)
      /\ Cardinality(S) \in Nat /\ Cardinality(T) \in Nat /\ Cardinality(U) \in Nat
      /\ Cardinality(S \cup T) \in Nat
      /\ Cardinality((S \cup T) \cup U) <= MaxBlockId
  BY <1>1, BlocksFit
<1>3. Cardinality(S \cap T) = 0 /\ Cardinality((S \cup T) \cap U) = 0
  <2>1. S \cap T = {} /\ (S \cup T) \cap U = {}
    OBVIOUS
  <2>2. QED BY <2>1, FS_EmptySet
<1>4. Cardinality(S \cup T) = Cardinality(S) + Cardinality(T)
  <2>1. Cardinality(S \cup T) = Cardinality(S) + Cardinality(T) - Cardinality(S \cap T)
    BY <1>2, FS_Union
  <2>2. QED BY <1>2, <1>3, <2>1
<1>5. Cardinality((S \cup T) \cup U) = Cardinality(S \cup T) + Cardinality(U)
  <2>1. Cardinality((S \cup T) \cup U) =
          Cardinality(S \cup T) + Cardinality(U) - Cardinality((S \cup T) \cap U)
    BY <1>2, FS_Union
  <2>2. QED BY <1>2, <1>3, <2>1
<1>6. QED BY <1>2, <1>4, <1>5

\* Counters that count blocks add up without a wrap.
LEMMA UsageSum ==
  ASSUME NEW usages, NEW used, used \in [Tiers -> SUBSET BlockId],
         \A t \in Tiers : usages[t] = Cardinality(used[t]),
         \A s, t \in Tiers : s # t => used[s] \cap used[t] = {}
  PROVE  \E h, w, c \in Nat :
           /\ usages["HOT"] = h /\ usages["WARM"] = w /\ usages["COLD"] = c
           /\ Plus(Plus(usages["HOT"], usages["WARM"]), usages["COLD"]) = h + w + c
           /\ h + w + c <= MaxSize
<1>1. /\ used["HOT"] \in SUBSET BlockId /\ used["WARM"] \in SUBSET BlockId
      /\ used["COLD"] \in SUBSET BlockId
      /\ used["HOT"] \cap used["WARM"] = {} /\ used["HOT"] \cap used["COLD"] = {}
      /\ used["WARM"] \cap used["COLD"] = {}
  BY DEF Tiers
<1> PICK h, w, c : h = Cardinality(used["HOT"]) /\ w = Cardinality(used["WARM"])
                   /\ c = Cardinality(used["COLD"])
  OBVIOUS
<1>2. h \in Nat /\ w \in Nat /\ c \in Nat /\ MaxSize \in Nat /\ MaxBlockId \in Nat
      /\ MaxBlockId <= MaxSize
  BY <1>1, BlocksFit
<1>3. h + w + c <= MaxBlockId
  BY <1>1, ThreeFit
<1>4. usages["HOT"] = h /\ usages["WARM"] = w /\ usages["COLD"] = c
  BY DEF Tiers
<1>5. Plus(h, w) = h + w /\ Plus(h + w, c) = h + w + c
  BY <1>2, <1>3 DEF Plus
<1>6. h + w + c <= MaxSize
  BY <1>2, <1>3
<1>7. QED BY <1>2, <1>4, <1>5, <1>6

LEMMA UsedFinite ==
  ASSUME PoolTypeOK, NEW t
  PROVE  /\ IsFiniteSet(UsedIn(t)) /\ Cardinality(UsedIn(t)) \in Nat
         /\ IsFiniteSet(FreeIn(t)) /\ Cardinality(FreeIn(t)) \in Nat
         /\ UsedIn(t) \in SUBSET BlockId
<1>1. UsedIn(t) \in SUBSET BlockId /\ FreeIn(t) \in SUBSET BlockId
  BY DEF PoolTypeOK, UsedIn, FreeIn
<1>2. QED BY <1>1, BlocksFit

\* What that says of the counters of this moment.
LEMMA UsageNow ==
  ASSUME PoolTypeOK, UsageIsCount
  PROVE  \E h, w, c \in Nat :
           /\ tier_usages_["HOT"] = h /\ tier_usages_["WARM"] = w /\ tier_usages_["COLD"] = c
           /\ Usage = h + w + c /\ h + w + c <= MaxSize
<1> PICK used : used = [t \in Tiers |-> UsedIn(t)]
  OBVIOUS
<1>1. used \in [Tiers -> SUBSET BlockId]
  BY UsedFinite
<1>2. \A t \in Tiers : tier_usages_[t] = Cardinality(used[t])
  BY DEF UsageIsCount
<1>3. \A s, t \in Tiers : s # t => used[s] \cap used[t] = {}
  BY DEF UsedIn
<1>4. QED BY <1>1, <1>2, <1>3, UsageSum DEF Usage

\* And after a step that leaves every block in its tier.
LEMMA UsageNext ==
  ASSUME PoolTypeOK, UsageIsCount', DOMAIN block_metadata_' = DOMAIN block_metadata_
  PROVE  \E h, w, c \in Nat :
           /\ tier_usages_'["HOT"] = h /\ tier_usages_'["WARM"] = w
           /\ tier_usages_'["COLD"] = c
           /\ Usage' = h + w + c /\ h + w + c <= MaxSize
<1> PICK used : used = [t \in Tiers |-> UsedIn(t)']
  OBVIOUS
<1>1. used \in [Tiers -> SUBSET BlockId]
  BY DEF UsedIn, PoolTypeOK
<1>2. \A t \in Tiers : tier_usages_'[t] = Cardinality(used[t])
  BY DEF UsageIsCount
<1>3. \A s, t \in Tiers : s # t => used[s] \cap used[t] = {}
  BY DEF UsedIn
<1>4. QED BY <1>1, <1>2, <1>3, UsageSum DEF Usage

\* A queue without duplicates is as long as it has ids.
LEMMA LengthCounts ==
  ASSUME NEW S, NEW queue \in Seq(S), NoDuplicates(queue)
  PROVE  IsFiniteSet(IdsIn(queue)) /\ Cardinality(IdsIn(queue)) = Len(queue)
<1>1. Len(queue) \in Nat /\ queue \in [1..Len(queue) -> IdsIn(queue)]
  BY DEF IdsIn
<1>2. queue \in Bijection(1..Len(queue), IdsIn(queue))
  <2>1. IsInjective(queue)
    BY <1>1 DEF NoDuplicates, IsInjective
  <2>2. \A b \in IdsIn(queue) : \E i \in 1..Len(queue) : queue[i] = b
    BY DEF IdsIn
  <2>3. QED BY <1>1, <2>1, <2>2 DEF Bijection, Injection, Surjection
<1>3. ExistsBijection(1..Len(queue), IdsIn(queue))
  BY <1>2 DEF ExistsBijection
<1>4. IsFiniteSet(1..Len(queue)) /\ Cardinality(1..Len(queue)) = Len(queue)
  BY <1>1, FS_Interval
<1>5. QED BY <1>3, <1>4, FS_Bijection

\* The counters after a step that uses one more block, or one less.
LEMMA CountsStay ==
  ASSUME CountsExact, \A t \in Tiers : UsedIn(t)' = UsedIn(t),
         tier_usages_' = tier_usages_,
         "resetStats" \notin Calls => UNCHANGED stats
  PROVE  CountsExact'
<1>1. UsageIsCount'
  BY DEF CountsExact, UsageIsCount
<1>2. Usage' = Usage
  BY DEF Usage
<1>3. QED BY <1>1, <1>2 DEF CountsExact, stats

LEMMA TakeCounts ==
  ASSUME PoolTypeOK, FreeListsExact, CountsExact, NEW t \in Tiers, NEW layer,
         free_lists_[t] # <<>>, Take(t, layer)
  PROVE  CountsExact'
<1> PICK b : b = Head(free_lists_[t])
  OBVIOUS
<1>1. /\ b \in DOMAIN block_metadata_ /\ ~InUse(b) /\ block_metadata_[b].tier = t
      /\ DOMAIN block_metadata_' = DOMAIN block_metadata_
      /\ \A x \in DOMAIN block_metadata_ :
           /\ block_metadata_'[x].tier = block_metadata_[x].tier
           /\ InUse(x)' <=> InUse(x) \/ x = b
  BY TakeEffect
<1>2. /\ tier_usages_' = [tier_usages_ EXCEPT ![t] = Plus(@, 1)]
      /\ net_allocations_' = Plus(net_allocations_, 1) /\ peak_usage_' = PeakAfterTake
  BY <1>1 DEF Take
<1>3. /\ peak_usage_ \in Nat /\ MaxSize \in Nat
      /\ \A s \in Tiers :
           tier_usages_'[s] = IF s = t THEN Plus(tier_usages_[s], 1) ELSE tier_usages_[s]
  BY <1>2, ConfigAssumption DEF PoolTypeOK
<1>4. UsageIsCount'
  <2> SUFFICES ASSUME NEW s \in Tiers
               PROVE  tier_usages_'[s] = Cardinality(UsedIn(s)')
    BY DEF UsageIsCount
  <2>1. UsedIn(s)' = IF s = t THEN UsedIn(s) \cup {b} ELSE UsedIn(s)
    BY <1>1 DEF UsedIn
  <2>2. b \notin UsedIn(s)
    BY <1>1 DEF UsedIn
  <2>3. Cardinality(UsedIn(s) \cup {b}) = Cardinality(UsedIn(s)) + 1
    BY <2>2, UsedFinite, FS_AddElement
  <2>4. tier_usages_[s] = Cardinality(UsedIn(s))
    BY DEF CountsExact, UsageIsCount
  <2>5. UsedIn(s) \cup {b} \in SUBSET BlockId
    BY <1>1, UsedFinite DEF PoolTypeOK
  <2>6. Cardinality(UsedIn(s) \cup {b}) <= MaxSize /\ Cardinality(UsedIn(s)) \in Nat
    <3>1. Cardinality(UsedIn(s) \cup {b}) \in Nat
      BY <2>5, BlocksFit
    <3>2. QED BY <2>5, <3>1, BlocksFit, UsedFinite
  <2>7. Plus(Cardinality(UsedIn(s)), 1) = Cardinality(UsedIn(s)) + 1
    BY <1>3, <2>3, <2>6 DEF Plus
  <2>8. QED BY <1>3, <2>1, <2>3, <2>4, <2>7
<1>5. Usage \in Nat /\ Usage' = Usage + 1 /\ Usage' <= MaxSize
  <2>1. PICK h, w, c \in Nat :
          /\ tier_usages_["HOT"] = h /\ tier_usages_["WARM"] = w /\ tier_usages_["COLD"] = c
          /\ Usage = h + w + c /\ h + w + c <= MaxSize
    BY UsageNow DEF CountsExact
  <2>2. PICK i, x, d \in Nat :
          /\ tier_usages_'["HOT"] = i /\ tier_usages_'["WARM"] = x /\ tier_usages_'["COLD"] = d
          /\ Usage' = i + x + d /\ i + x + d <= MaxSize
    BY <1>1, <1>4, UsageNext
  <2>3. \A s \in Tiers : tier_usages_[s] \in Nat /\ tier_usages_'[s] \in Nat
    BY <2>1, <2>2 DEF Tiers
  <2>4. \A n \in Nat : Plus(n, 1) \in Nat => Plus(n, 1) = n + 1 \/ Plus(n, 1) <= n
    BY <1>3 DEF Plus
  <2>5. tier_usages_'[t] = tier_usages_[t] + 1
    <3>1. UsedIn(t)' = UsedIn(t) \cup {b} /\ b \notin UsedIn(t)
      BY <1>1 DEF UsedIn
    <3>2. Cardinality(UsedIn(t)') = Cardinality(UsedIn(t)) + 1
      BY <3>1, UsedFinite, FS_AddElement
    <3>3. QED BY <1>4, <3>2 DEF CountsExact, UsageIsCount
  <2>6. QED BY <1>3, <2>1, <2>2, <2>5 DEF Tiers
<1>6. Plus(Usage, 1) = Usage + 1
  BY <1>3, <1>5 DEF Plus
<1>7. peak_usage_' = IF Usage + 1 > peak_usage_ THEN Usage + 1 ELSE peak_usage_
  BY <1>2, <1>6 DEF PeakAfterTake
<1>8. "resetStats" \notin Calls => net_allocations_' = Usage' /\ Usage' <= peak_usage_'
  BY <1>2, <1>3, <1>5, <1>6, <1>7 DEF CountsExact
<1>9. QED BY <1>4, <1>8 DEF CountsExact

LEMMA ReleaseCounts ==
  ASSUME PoolTypeOK, FreeListsExact, CountsExact, NEW b \in BlockId, Release(b)
  PROVE  CountsExact'
<1>1. CASE ~Releasable(b)
  <2>1. UNCHANGED <<pool, stats>>
    BY <1>1 DEF Release
  <2>2. QED BY <2>1, CountsStay DEF pool, UsedIn, InUse, Exists
<1>2. CASE Releasable(b)
  <2> PICK t : t = block_metadata_[b].tier
    OBVIOUS
  <2>1. b \in DOMAIN block_metadata_ /\ InUse(b) /\ t \in Tiers
    BY <1>2 DEF PoolTypeOK, Releasable, Allocated, InUse, Exists, Metadata
  <2>2. /\ block_metadata_' = [block_metadata_ EXCEPT ![b] = FreshMetadata(t)]
        /\ tier_usages_' = [tier_usages_ EXCEPT ![t] = LessOne(@)]
        /\ net_allocations_' = LessOne(net_allocations_) /\ peak_usage_' = peak_usage_
    BY <1>2 DEF Release, Reset
  <2>3. /\ DOMAIN block_metadata_' = DOMAIN block_metadata_
        /\ \A x \in DOMAIN block_metadata_ : block_metadata_'[x].tier = block_metadata_[x].tier
        /\ \A x \in DOMAIN block_metadata_ : InUse(x)' <=> InUse(x) /\ x # b
    BY <2>1, <2>2 DEF PoolTypeOK, FreshMetadata, InUse, Exists
  <2>4. /\ peak_usage_ \in Nat
        /\ \A s \in Tiers :
             tier_usages_'[s] = IF s = t THEN LessOne(tier_usages_[s]) ELSE tier_usages_[s]
    BY <2>2 DEF PoolTypeOK
  <2>5. tier_usages_[t] \in Nat /\ tier_usages_[t] > 0
        /\ Cardinality(UsedIn(t) \ {b}) = tier_usages_[t] - 1
    <3>1. b \in UsedIn(t)
      BY <2>1 DEF UsedIn
    <3>2. Cardinality(UsedIn(t) \ {b}) = Cardinality(UsedIn(t)) - 1
      BY <3>1, UsedFinite, FS_RemoveElement
    <3>3. Cardinality(UsedIn(t)) \in Nat /\ Cardinality(UsedIn(t)) # 0
      BY <3>1, UsedFinite, FS_EmptySet
    <3>4. tier_usages_[t] = Cardinality(UsedIn(t))
      BY <2>1 DEF CountsExact, UsageIsCount
    <3>5. QED BY <3>2, <3>3, <3>4
  <2>6. tier_usages_'[t] = tier_usages_[t] - 1
    BY <2>1, <2>4, <2>5 DEF LessOne
  <2>7. UsageIsCount'
    <3> SUFFICES ASSUME NEW s \in Tiers
                 PROVE  tier_usages_'[s] = Cardinality(UsedIn(s)')
      BY DEF UsageIsCount
    <3>1. UsedIn(s)' = IF s = t THEN UsedIn(s) \ {b} ELSE UsedIn(s)
      BY <2>1, <2>3 DEF UsedIn
    <3>2. tier_usages_[s] = Cardinality(UsedIn(s))
      BY DEF CountsExact, UsageIsCount
    <3>3. QED BY <2>4, <2>5, <2>6, <3>1, <3>2
  <2>8. Usage \in Nat /\ Usage > 0 /\ Usage' = Usage - 1
    <3>1. PICK h, w, c \in Nat :
            /\ tier_usages_["HOT"] = h /\ tier_usages_["WARM"] = w /\ tier_usages_["COLD"] = c
            /\ Usage = h + w + c /\ h + w + c <= MaxSize
      BY UsageNow DEF CountsExact
    <3>2. PICK i, x, d \in Nat :
            /\ tier_usages_'["HOT"] = i /\ tier_usages_'["WARM"] = x /\ tier_usages_'["COLD"] = d
            /\ Usage' = i + x + d /\ i + x + d <= MaxSize
      BY <2>3, <2>7, UsageNext
    <3>3. QED BY <2>1, <2>4, <2>5, <2>6, <3>1, <3>2 DEF Tiers
  <2>9. "resetStats" \notin Calls => net_allocations_' = Usage' /\ Usage' <= peak_usage_'
    BY <2>2, <2>4, <2>8 DEF CountsExact, LessOne
  <2>10. QED BY <2>7, <2>9 DEF CountsExact
<1>3. QED BY <1>1, <1>2

\* A migration takes from one tier what it adds to another.
LEMMA MigrateCounts ==
  ASSUME PoolTypeOK, FreeListsExact, CountsExact, NEW c, NEW b, NEW t \in Tiers,
         MigrateBlock(c, b, t), InUse(b)
  PROVE  CountsExact'
<1> PICK source : source = block_metadata_[b].tier
  OBVIOUS
<1> PICK new : new = Head(free_lists_[t])
  OBVIOUS
<1>1. /\ new \in DOMAIN block_metadata_ /\ ~InUse(new) /\ new # b
      /\ DOMAIN block_metadata_' = DOMAIN block_metadata_
      /\ \A x \in DOMAIN block_metadata_ :
           /\ block_metadata_'[x].tier = block_metadata_[x].tier
           /\ InUse(x)' <=> x # b /\ (InUse(x) \/ x = new)
  BY MigrateEffect
<1>2. /\ b \in DOMAIN block_metadata_ /\ source \in Tiers /\ source # t
      /\ tier_usages_' = [tier_usages_ EXCEPT ![source] = LessOne(@), ![t] = Plus(@, 1)]
      /\ UNCHANGED stats
  BY DEF MigrateBlock, Exists, PoolTypeOK, Metadata, UsageAfterMove
<1>3. block_metadata_[new].tier = t
  <2>1. new \in IdsIn(free_lists_[t])
    BY PopIds DEF MigrateBlock, PoolTypeOK, FreeListsExact
  <2>2. QED BY <2>1 DEF FreeListsExact, FreeIn
<1>4. \A s \in Tiers : tier_usages_'[s] = IF s = t THEN Plus(tier_usages_[s], 1)
                                          ELSE IF s = source THEN LessOne(tier_usages_[s])
                                          ELSE tier_usages_[s]
  BY <1>2 DEF PoolTypeOK
<1>5. \A s \in Tiers : tier_usages_[s] = Cardinality(UsedIn(s)) /\ tier_usages_[s] \in Nat
  BY UsedFinite DEF CountsExact, UsageIsCount
<1>6. /\ tier_usages_'[t] = tier_usages_[t] + 1
      /\ tier_usages_'[t] = Cardinality(UsedIn(t) \cup {new})
  <2>1. new \notin UsedIn(t)
    BY <1>1 DEF UsedIn
  <2>2. Cardinality(UsedIn(t) \cup {new}) = tier_usages_[t] + 1
    BY <1>5, <2>1, UsedFinite, FS_AddElement
  <2>3. UsedIn(t) \cup {new} \in SUBSET BlockId
    BY <1>1, UsedFinite DEF PoolTypeOK
  <2>4. tier_usages_[t] + 1 <= MaxSize
    <3>1. /\ Cardinality(UsedIn(t) \cup {new}) \in Nat /\ MaxSize \in Nat
          /\ MaxBlockId \in Nat /\ MaxBlockId <= MaxSize
          /\ Cardinality(UsedIn(t) \cup {new}) <= MaxBlockId
      BY <2>3, BlocksFit
    <3>2. QED BY <1>5, <2>2, <3>1
  <2>5. Plus(tier_usages_[t], 1) = tier_usages_[t] + 1
    BY <1>5, <2>4, ConfigAssumption DEF Plus
  <2>6. QED BY <1>4, <2>2, <2>5
<1>7. /\ tier_usages_'[source] = tier_usages_[source] - 1
      /\ tier_usages_'[source] = Cardinality(UsedIn(source) \ {b})
  <2>1. b \in UsedIn(source)
    BY <1>2 DEF UsedIn
  <2>2. Cardinality(UsedIn(source) \ {b}) = tier_usages_[source] - 1
    <3>1. IsFiniteSet(UsedIn(source))
      BY UsedFinite
    <3>2. Cardinality(UsedIn(source) \ {b}) = Cardinality(UsedIn(source)) - 1
      BY <2>1, <3>1, FS_RemoveElement
    <3>3. QED BY <1>2, <1>5, <3>2
  <2>3. tier_usages_[source] # 0
    BY <1>2, <1>5, <2>1, UsedFinite, FS_EmptySet
  <2>4. QED BY <1>2, <1>4, <2>2, <2>3 DEF LessOne
<1>8. UsageIsCount'
  <2> SUFFICES ASSUME NEW s \in Tiers
               PROVE  tier_usages_'[s] = Cardinality(UsedIn(s)')
    BY DEF UsageIsCount
  <2>1. UsedIn(s)' = IF s = t THEN UsedIn(s) \cup {new}
                     ELSE IF s = source THEN UsedIn(s) \ {b}
                     ELSE UsedIn(s)
    BY <1>1, <1>2, <1>3 DEF UsedIn
  <2>2. QED BY <1>2, <1>4, <1>5, <1>6, <1>7, <2>1
<1>9. Usage' = Usage
  <2>1. PICK h, w, d \in Nat :
          /\ tier_usages_["HOT"] = h /\ tier_usages_["WARM"] = w /\ tier_usages_["COLD"] = d
          /\ Usage = h + w + d /\ h + w + d <= MaxSize
    BY UsageNow DEF CountsExact
  <2>2. PICK i, x, e \in Nat :
          /\ tier_usages_'["HOT"] = i /\ tier_usages_'["WARM"] = x /\ tier_usages_'["COLD"] = e
          /\ Usage' = i + x + e /\ i + x + e <= MaxSize
    BY <1>1, <1>8, UsageNext
  <2>3. /\ \A s \in Tiers : tier_usages_[s] \in Nat /\ tier_usages_'[s] \in Nat
        /\ \A s \in Tiers : s # t /\ s # source => tier_usages_'[s] = tier_usages_[s]
    BY <1>4, <2>1, <2>2 DEF Tiers
  <2>4. t # source /\ t \in {"HOT", "WARM", "COLD"} /\ source \in {"HOT", "WARM", "COLD"}
    BY <1>2 DEF Tiers
  <2>5. i + x + e = h + w + d
    <3>1. tier_usages_'[t] = tier_usages_[t] + 1
      BY <1>6
    <3>2. tier_usages_'[source] = tier_usages_[source] - 1
      BY <1>7
    <3>3. CASE t = "HOT"
      BY <2>1, <2>2, <2>3, <2>4, <3>1, <3>2, <3>3 DEF Tiers
    <3>4. CASE t = "WARM"
      BY <2>1, <2>2, <2>3, <2>4, <3>1, <3>2, <3>4 DEF Tiers
    <3>5. CASE t = "COLD"
      BY <2>1, <2>2, <2>3, <2>4, <3>1, <3>2, <3>5 DEF Tiers
    <3>6. QED BY <2>4, <3>3, <3>4, <3>5
  <2>6. QED BY <2>1, <2>2, <2>5
<1>10. QED BY <1>2, <1>8, <1>9 DEF CountsExact, stats

\* Every block of a new pool is FREE.
LEMMA NewBlocksFree ==
  ASSUME PoolInv, Initialize, NEW b \in DOMAIN block_metadata_'
  PROVE  \/ b < next_block_id_ /\ b \in DOMAIN block_metadata_
            /\ block_metadata_'[b] = block_metadata_[b]
         \/ ~(b < next_block_id_) /\ block_metadata_'[b] = FreshMetadata(NewTier(b))
<1>1. block_metadata_' =
        [x \in DOMAIN block_metadata_ \cup FirstNewId..LastNewId |->
           IF x >= FirstNewId THEN FreshMetadata(NewTier(x)) ELSE block_metadata_[x]]
  BY DEF Initialize
<1>2. /\ next_block_id_ \in Int /\ b \in Int
      /\ \A x \in DOMAIN block_metadata_ : x < next_block_id_ /\ x \in Int
  <2>1. /\ next_block_id_ \in Int /\ DOMAIN block_metadata_ \subseteq Int
        /\ LastNewId \in Int
    BY PoolFacts, ConfigAssumption DEF PoolTypeOK, BlockId, LastNewId, FirstNewId
  <2>2. QED BY <1>1, <2>1, PoolFacts DEF FirstNewId
<1>3. QED BY <1>1, <1>2 DEF FirstNewId

\* The blocks of a pool stay the same through every client's step.
LEMMA SameBlocks ==
  ASSUME PoolInv, NEW c \in Clients, ClientNext(c)
  PROVE  DOMAIN block_metadata_' = DOMAIN block_metadata_ /\ next_block_id_' = next_block_id_
<1>1. PoolTypeOK /\ CopyCurrent
  BY PoolFacts
<1>2. DOMAIN block_metadata_' = DOMAIN block_metadata_
  <2>1. ASSUME NEW t \in Tiers, NEW layer, Take(t, layer)
        PROVE  DOMAIN block_metadata_' = DOMAIN block_metadata_
    BY <1>1, <2>1 DEF Take, PoolTypeOK
  <2>2. ASSUME NEW b, Release(b)
        PROVE  DOMAIN block_metadata_' = DOMAIN block_metadata_
    BY <1>1, <2>2 DEF Release, pool, PoolTypeOK
  <2>3. ASSUME NEW b, NEW t \in Tiers, MigrateBlock(c, b, t)
        PROVE  DOMAIN block_metadata_' = DOMAIN block_metadata_
    BY <1>1, <2>3 DEF MigrateBlock, PoolTypeOK
  <2>4. CASE SequenceLink(c)
    BY <1>1, <2>4 DEF SequenceLink, PoolTypeOK
  <2>5. CASE WriteMetadata(c)
    BY <1>1, <2>5 DEF WriteMetadata, CopyCurrent, InUse, Exists
  <2>6. ASSUME NEW b, NEW state, SetState(b, state)
        PROVE  DOMAIN block_metadata_' = DOMAIN block_metadata_
    BY <1>1, <2>6 DEF SetState, PoolTypeOK
  <2>7. ASSUME NEW l \in Layers, NEW t \in Tiers, AllocateBlock(c, l, t)
        PROVE  DOMAIN block_metadata_' = DOMAIN block_metadata_
    BY <2>1, <2>7 DEF AllocateBlock, pool
  <2>8. CASE SequenceAllocate(c) \/ SequenceRollback(c)
    BY <2>1, <2>2, <2>8 DEF SequenceAllocate, SequenceRollback, pool, Tiers
  <2>9. ASSUME NEW b, \/ DeallocateBlock(c, b) \/ LockBlock(c, b) \/ UnlockBlock(c, b)
                      \/ ReadMetadata(c, b)
        PROVE  DOMAIN block_metadata_' = DOMAIN block_metadata_
    BY <2>2, <2>6, <2>9 DEF DeallocateBlock, LockBlock, UnlockBlock, ReadMetadata, pool
  <2>10. ASSUME NEW l \in Layers, NEW n \in 1..MaxSequence, AllocateSequence(c, l, n)
         PROVE  DOMAIN block_metadata_' = DOMAIN block_metadata_
    BY <2>10 DEF AllocateSequence, pool
  <2>11. CASE Defragment(c)
    BY <2>11 DEF Defragment
  <2>12. QED BY <2>3, <2>4, <2>5, <2>7, <2>8, <2>9, <2>10, <2>11 DEF ClientNext
<1>3. next_block_id_' = next_block_id_
  <2>1. CASE SequenceAllocate(c) \/ SequenceRollback(c) \/ SequenceLink(c)
    BY <2>1 DEF SequenceAllocate, SequenceRollback, SequenceLink, Take, Release, pool
  <2>2. ASSUME NEW l \in Layers, NEW t \in Tiers, AllocateBlock(c, l, t)
        PROVE  next_block_id_' = next_block_id_
    BY <2>2 DEF AllocateBlock, Take, pool
  <2>3. ASSUME NEW b, \/ DeallocateBlock(c, b) \/ LockBlock(c, b) \/ UnlockBlock(c, b)
                      \/ ReadMetadata(c, b)
        PROVE  next_block_id_' = next_block_id_
    BY <2>3 DEF DeallocateBlock, LockBlock, UnlockBlock, ReadMetadata, SetState, Release, pool
  <2>4. ASSUME NEW b, NEW t \in Tiers, MigrateBlock(c, b, t)
        PROVE  next_block_id_' = next_block_id_
    BY <2>4 DEF MigrateBlock
  <2>5. ASSUME NEW l \in Layers, NEW n \in 1..MaxSequence, AllocateSequence(c, l, n)
        PROVE  next_block_id_' = next_block_id_
    BY <2>5 DEF AllocateSequence, pool
  <2>6. CASE WriteMetadata(c) \/ Defragment(c)
    BY <2>6 DEF WriteMetadata, Defragment
  <2>7. QED BY <2>1, <2>2, <2>3, <2>4, <2>5, <2>6 DEF ClientNext
<1>4. QED BY <1>2, <1>3

LEMMA CountsStep ==
  Exclusive /\ PoolInv /\ CountsInv /\ [Next]_vars => CountsInv'
<1> SUFFICES ASSUME Exclusive, PoolInv, CountsInv, [Next]_vars, NothingClosed'
             PROVE  CountsExact'
  BY DEF CountsInv
<1>1. PoolTypeOK /\ ClientTypeOK /\ FreeListsExact /\ CopyCurrent
  BY PoolFacts
<1>2. CASE Initialize
  <2>1. /\ next_block_id_' >= next_block_id_
        /\ \A b \in DOMAIN block_metadata_' :
             /\ b < next_block_id_'
             /\ b < next_block_id_ => b \in DOMAIN block_metadata_
        /\ DOMAIN block_metadata_ \subseteq DOMAIN block_metadata_'
        /\ next_block_id_' \in Int /\ next_block_id_ \in Int
        /\ \A b \in DOMAIN block_metadata_ : b < next_block_id_ /\ b \in Nat \ {0}
    BY <1>1, <1>2, PoolFacts, InitializeEffect, ConfigAssumption DEF PoolTypeOK, BlockId
  <2>2. NothingClosed
    <3>1. \A b \in 1..next_block_id_ - 1 : b \in DOMAIN block_metadata_
      BY <2>1 DEF NothingClosed
    <3>2. \A b \in DOMAIN block_metadata_ : b \in 1..next_block_id_ - 1
      BY <2>1
    <3>3. QED BY <3>1, <3>2 DEF NothingClosed
  <2>3. \A t \in Tiers : UsedIn(t)' = UsedIn(t)
    <3>1. \A b \in DOMAIN block_metadata_' :
            InUse(b)' => b \in DOMAIN block_metadata_ /\ block_metadata_'[b] = block_metadata_[b]
      BY <1>2, NewBlocksFree DEF InUse, FreshMetadata
    <3>2. \A b \in DOMAIN block_metadata_ : block_metadata_'[b] = block_metadata_[b]
      BY <1>2, <2>1, NewBlocksFree
    <3>3. QED BY <2>1, <3>1, <3>2 DEF UsedIn, InUse, Exists
  <2>4. UNCHANGED <<tier_usages_, stats>>
    BY <1>2 DEF Initialize
  <2>5. QED BY <2>2, <2>3, <2>4, CountsStay DEF CountsInv
<1>3. CASE Shutdown
  <2>1. DOMAIN block_metadata_' = {} /\ next_block_id_' = next_block_id_
        /\ UNCHANGED <<tier_usages_, stats>>
    BY <1>3 DEF Shutdown
  <2>2. DOMAIN block_metadata_ = {}
    <3>1. 1..next_block_id_ - 1 = {} /\ next_block_id_ \in Nat
      BY <1>1, <2>1, ConfigAssumption DEF NothingClosed, PoolTypeOK
    <3>2. next_block_id_ <= 1
      BY <3>1
    <3>3. \A b \in DOMAIN block_metadata_ : b < next_block_id_ /\ b \in Nat \ {0}
      BY <1>1, PoolFacts, ConfigAssumption DEF PoolTypeOK, BlockId
    <3>4. QED BY <3>1, <3>2, <3>3
  <2>3. NothingClosed
    BY <2>1, <2>2 DEF NothingClosed
  <2>4. \A t \in Tiers : UsedIn(t)' = UsedIn(t)
    BY <2>1, <2>2 DEF UsedIn
  <2>5. QED BY <2>1, <2>3, <2>4, CountsStay DEF CountsInv
<1>4. CASE ResetStats \/ UNCHANGED vars
  <2>1. /\ UNCHANGED <<block_metadata_, next_block_id_, tier_usages_>>
        /\ "resetStats" \notin Calls => UNCHANGED stats
    BY <1>4 DEF ResetStats, vars, pool
  <2>2. NothingClosed /\ \A t \in Tiers : UsedIn(t)' = UsedIn(t)
    BY <2>1 DEF NothingClosed, UsedIn, InUse, Exists
  <2>3. QED BY <2>1, <2>2, CountsStay DEF CountsInv
<1>5. ASSUME NEW c \in Clients, ClientNext(c) PROVE CountsExact'
  <2>1. NothingClosed /\ DOMAIN block_metadata_' = DOMAIN block_metadata_
    BY <1>5, SameBlocks DEF NothingClosed
  <2>2. CountsExact
    BY <2>1 DEF CountsInv
  <2>3. ASSUME tier_usages_' = tier_usages_, UNCHANGED stats,
               \A b \in DOMAIN block_metadata_ :
                 block_metadata_'[b].tier = block_metadata_[b].tier /\ (InUse(b)' <=> InUse(b))
        PROVE  CountsExact'
    <3>1. \A t \in Tiers : UsedIn(t)' = UsedIn(t)
      BY <2>1, <2>3 DEF UsedIn
    <3>2. QED BY <2>2, <2>3, <3>1, CountsStay
  <2>4. ASSUME UNCHANGED <<block_metadata_, tier_usages_, stats>> PROVE CountsExact'
    BY <2>3, <2>4 DEF InUse, Exists
  <2>5. ASSUME NEW l \in Layers, NEW t \in Tiers, AllocateBlock(c, l, t) PROVE CountsExact'
    BY <1>1, <2>2, <2>4, <2>5, TakeCounts DEF AllocateBlock, Serves, pool
  <2>6. ASSUME NEW b \in held[c], DeallocateBlock(c, b) PROVE CountsExact'
    BY <1>1, <2>2, <2>6, ReleaseCounts DEF DeallocateBlock, ClientTypeOK
  <2>7. ASSUME NEW l \in Layers, NEW n \in 1..MaxSequence, AllocateSequence(c, l, n)
        PROVE  CountsExact'
    BY <2>4, <2>7 DEF AllocateSequence, pool
  <2>8. CASE SequenceAllocate(c)
    BY <1>1, <2>2, <2>4, <2>8, TakeCounts DEF SequenceAllocate, Serves, pool, Tiers
  <2>9. CASE SequenceLink(c)
    <3> PICK p, q : p = blocks[c][Len(blocks[c]) - 1] /\ q = blocks[c][Len(blocks[c])]
      OBVIOUS
    <3>1. /\ UNCHANGED <<tier_usages_, stats>>
          /\ block_metadata_' = IF Len(blocks[c]) > 1 /\ Exists(p)
                                THEN [block_metadata_ EXCEPT ![p].next = q]
                                ELSE block_metadata_
      BY <2>9 DEF SequenceLink
    <3>2. \A b \in DOMAIN block_metadata_ :
            /\ block_metadata_'[b].tier = block_metadata_[b].tier
            /\ block_metadata_'[b].state = block_metadata_[b].state
      BY <1>1, <3>1 DEF PoolTypeOK, Metadata, Exists
    <3>3. \A b \in DOMAIN block_metadata_ : InUse(b)' <=> InUse(b)
      BY <2>1, <3>2 DEF InUse, Exists
    <3>4. QED BY <2>3, <3>1, <3>2, <3>3
  <2>10. CASE SequenceRollback(c)
    <3>1. CASE blocks[c] # <<>> /\ Release(Head(blocks[c]))
      <4>1. Head(blocks[c]) \in BlockId
        BY <1>1, <3>1 DEF ClientTypeOK
      <4>2. QED BY <1>1, <2>2, <3>1, <4>1, ReleaseCounts
    <3>2. CASE UNCHANGED <<pool, stats>>
      BY <2>4, <3>2 DEF pool
    <3>3. QED BY <2>10, <3>1, <3>2 DEF SequenceRollback
  <2>11. ASSUME NEW b, NEW state, state # "FREE", SetState(b, state), InUse(b)
         PROVE  CountsExact'
    <3>1. /\ UNCHANGED <<tier_usages_, stats>>
          /\ block_metadata_' = [block_metadata_ EXCEPT ![b].state = state]
      BY <2>11 DEF SetState
    <3>2. \A x \in DOMAIN block_metadata_ :
            /\ block_metadata_'[x].tier = block_metadata_[x].tier
            /\ block_metadata_'[x].state = IF x = b THEN state ELSE block_metadata_[x].state
      BY <1>1, <3>1 DEF PoolTypeOK, Metadata
    <3>3. \A x \in DOMAIN block_metadata_ : InUse(x)' <=> InUse(x)
      BY <2>1, <2>11, <3>2 DEF InUse, Exists
    <3>4. QED BY <2>3, <3>1, <3>2, <3>3
  <2>12. \A b \in Targets(c) : Exists(b) => InUse(b)
    BY PoolFacts DEF Targets
  <2>13. ASSUME NEW b \in Targets(c), LockBlock(c, b) PROVE CountsExact'
    BY <2>11, <2>12, <2>13 DEF LockBlock
  <2>14. ASSUME NEW b, UnlockBlock(c, b) PROVE CountsExact'
    BY <2>11, <2>14 DEF UnlockBlock, InUse
  <2>15. ASSUME NEW b \in Targets(c), NEW t \in Tiers, MigrateBlock(c, b, t) PROVE CountsExact'
    <3>1. InUse(b)
      BY <2>12, <2>15 DEF MigrateBlock
    <3>2. QED BY <1>1, <2>2, <2>15, <3>1, MigrateCounts
  <2>16. ASSUME NEW b, ReadMetadata(c, b) PROVE CountsExact'
    BY <2>4, <2>16 DEF ReadMetadata, pool
  <2>17. CASE WriteMetadata(c)
    <3> PICK b : b = copy[c].id
      OBVIOUS
    <3>1. /\ InUse(b) /\ copy[c].metadata.state # "FREE"
          /\ copy[c].metadata.tier = block_metadata_[b].tier
      BY <1>1, <2>17 DEF WriteMetadata, CopyCurrent, InUse, Exists
    <3>2. /\ UNCHANGED <<tier_usages_, stats>>
          /\ \A x \in DOMAIN block_metadata_ :
               block_metadata_'[x] = IF x = b THEN copy[c].metadata ELSE block_metadata_[x]
      BY <2>17 DEF WriteMetadata
    <3>3. \A x \in DOMAIN block_metadata_ : InUse(x)' <=> InUse(x)
      BY <2>1, <3>1, <3>2 DEF InUse, Exists
    <3>4. \A x \in DOMAIN block_metadata_ : block_metadata_'[x].tier = block_metadata_[x].tier
      BY <3>1, <3>2
    <3>5. QED BY <2>3, <3>2, <3>3, <3>4
  <2>18. CASE Defragment(c)
    BY <2>4, <2>18 DEF Defragment
  <2>19. QED
    BY <1>5, <2>5, <2>6, <2>7, <2>8, <2>9, <2>10, <2>13, <2>14, <2>15, <2>16, <2>17, <2>18
    DEF ClientNext
<1>6. QED BY <1>2, <1>3, <1>4, <1>5 DEF Next

LEMMA CountsStart == Init => CountsInv
<1> SUFFICES ASSUME Init PROVE CountsInv
  OBVIOUS
<1>1. DOMAIN block_metadata_ = {}
  BY DEF Init
<1>2. \A t \in Tiers : UsedIn(t) = {} /\ tier_usages_[t] = 0
  BY <1>1 DEF UsedIn, Init
<1>3. UsageIsCount
  BY <1>2, FS_EmptySet DEF UsageIsCount
<1>4. Usage = 0 /\ net_allocations_ = 0 /\ peak_usage_ = 0
  BY <1>2, ConfigAssumption DEF Usage, Tiers, Init, Plus
<1>5. QED BY <1>3, <1>4 DEF CountsInv, CountsExact

\* What the counters say of the free lists: the six parts of the pool, free
\* and used blocks of each tier, add up to all its blocks.
LEMMA CountsGiveStats ==
  ASSUME PoolInv, CountsInv, "resetStats" \notin Calls
  PROVE  StatsMatchPool
<1> SUFFICES ASSUME NothingClosed
             PROVE  /\ Cardinality(DOMAIN block_metadata_) - net_allocations_ =
                         Len(free_lists_["HOT"]) + Len(free_lists_["WARM"])
                           + Len(free_lists_["COLD"])
                    /\ Usage <= peak_usage_
  BY DEF StatsMatchPool
<1>1. /\ net_allocations_ = Usage /\ Usage <= peak_usage_
      /\ \A t \in Tiers : tier_usages_[t] = Cardinality(UsedIn(t))
  BY DEF CountsInv, CountsExact, UsageIsCount
<1>2. PoolTypeOK /\ FreeListsExact
  BY PoolFacts
<1> DEFINE In(t) == {b \in DOMAIN block_metadata_ : block_metadata_[b].tier = t}
<1>3. \A t \in Tiers : /\ IsFiniteSet(In(t)) /\ Cardinality(In(t)) \in Nat
                       /\ Cardinality(In(t)) = tier_usages_[t] + Len(free_lists_[t])
                       /\ Len(free_lists_[t]) \in Nat /\ tier_usages_[t] \in Int
  <2> SUFFICES ASSUME NEW t \in Tiers
               PROVE  /\ IsFiniteSet(In(t)) /\ Cardinality(In(t)) \in Nat
                      /\ Cardinality(In(t)) = tier_usages_[t] + Len(free_lists_[t])
                      /\ Len(free_lists_[t]) \in Nat /\ tier_usages_[t] \in Int
    OBVIOUS
  <2>1. In(t) = UsedIn(t) \cup FreeIn(t) /\ UsedIn(t) \cap FreeIn(t) = {}
    BY DEF UsedIn, FreeIn
  <2>2. /\ IsFiniteSet(UsedIn(t)) /\ Cardinality(UsedIn(t)) \in Nat
        /\ IsFiniteSet(FreeIn(t)) /\ Cardinality(FreeIn(t)) \in Nat
    BY <1>2, UsedFinite
  <2>3. Cardinality(FreeIn(t)) = Len(free_lists_[t])
    BY <1>2, LengthCounts DEF FreeListsExact, PoolTypeOK
  <2>4. /\ IsFiniteSet(UsedIn(t) \cup FreeIn(t))
        /\ Cardinality(UsedIn(t) \cup FreeIn(t)) =
             Cardinality(UsedIn(t)) + Cardinality(FreeIn(t)) - Cardinality(UsedIn(t) \cap FreeIn(t))
    BY <2>2, FS_Union
  <2>5. Cardinality(UsedIn(t) \cap FreeIn(t)) = 0
    BY <2>1, FS_EmptySet
  <2>6. Cardinality(UsedIn(t) \cup FreeIn(t)) = Cardinality(UsedIn(t)) + Cardinality(FreeIn(t))
    BY <2>2, <2>4, <2>5
  <2> HIDE DEF In
  <2>7. Len(free_lists_[t]) \in Nat /\ tier_usages_[t] \in Int
    BY <1>1, <2>2, <2>3
  <2>8. Cardinality(In(t)) = tier_usages_[t] + Len(free_lists_[t])
    BY <1>1, <2>1, <2>3, <2>6
  <2>9. IsFiniteSet(In(t)) /\ Cardinality(In(t)) \in Nat
    BY <2>1, <2>4, FS_CardinalityType
  <2>10. QED BY <2>7, <2>8, <2>9
<1>4. /\ DOMAIN block_metadata_ = In("HOT") \cup In("WARM") \cup In("COLD")
      /\ In("HOT") \cap In("WARM") = {} /\ (In("HOT") \cup In("WARM")) \cap In("COLD") = {}
  BY <1>2 DEF PoolTypeOK, Metadata, Tiers
<1> HIDE DEF In
<1>5. \A S, T : IsFiniteSet(S) /\ IsFiniteSet(T) /\ S \cap T = {} =>
        IsFiniteSet(S \cup T) /\ Cardinality(S \cup T) = Cardinality(S) + Cardinality(T)
  <2> SUFFICES ASSUME NEW S, NEW T, IsFiniteSet(S), IsFiniteSet(T), S \cap T = {}
               PROVE  /\ IsFiniteSet(S \cup T)
                      /\ Cardinality(S \cup T) = Cardinality(S) + Cardinality(T)
    OBVIOUS
  <2>1. Cardinality(S) \in Nat /\ Cardinality(T) \in Nat /\ Cardinality(S \cap T) = 0
    BY FS_CardinalityType, FS_EmptySet
  <2>2. Cardinality(S \cup T) = Cardinality(S) + Cardinality(T) - Cardinality(S \cap T)
        /\ IsFiniteSet(S \cup T)
    BY FS_Union
  <2>3. QED BY <2>1, <2>2
<1>6. Cardinality(DOMAIN block_metadata_) =
        Cardinality(In("HOT")) + Cardinality(In("WARM")) + Cardinality(In("COLD"))
  BY <1>3, <1>4, <1>5 DEF Tiers
<1>7. Usage = tier_usages_["HOT"] + tier_usages_["WARM"] + tier_usages_["COLD"]
  BY <1>1, <1>2, UsageNow DEF UsageIsCount
<1>8. \A t \in {"HOT", "WARM", "COLD"} :
        /\ Cardinality(In(t)) = tier_usages_[t] + Len(free_lists_[t])
        /\ Len(free_lists_[t]) \in Int /\ tier_usages_[t] \in Int
  BY <1>3 DEF Tiers
<1>9. \A t \in {"HOT", "WARM", "COLD"} :
        \E u, n \in Int : /\ tier_usages_[t] = u /\ Len(free_lists_[t]) = n
                          /\ Cardinality(In(t)) = u + n
  BY <1>8
<1> PICK uh \in Int, lh \in Int :
      /\ tier_usages_["HOT"] = uh /\ Len(free_lists_["HOT"]) = lh
      /\ Cardinality(In("HOT")) = uh + lh
  BY <1>9
<1> PICK uw \in Int, lw \in Int :
      /\ tier_usages_["WARM"] = uw /\ Len(free_lists_["WARM"]) = lw
      /\ Cardinality(In("WARM")) = uw + lw
  BY <1>9
<1> PICK uc \in Int, lc \in Int :
      /\ tier_usages_["COLD"] = uc /\ Len(free_lists_["COLD"]) = lc
      /\ Cardinality(In("COLD")) = uc + lc
  BY <1>9
<1>10. Cardinality(DOMAIN block_metadata_) = (uh + lh) + (uw + lw) + (uc + lc)
  BY <1>6
<1>11. Usage = uh + uw + uc
  BY <1>7
<1>12. QED BY <1>1, <1>10, <1>11

\* Until the pool is shut down, which leaves the counters behind, the usage
\* counters count the blocks in use of each tier, whatever clients allocate,
\* free and, of their own blocks, lock and migrate.
THEOREM UsageStaysExact ==
  ASSUME Exclusive
  PROVE  Spec => []UsageCountsBlocks
<1>1. Exclusive /\ PoolInv /\ CountsInv /\ [Next]_vars => PoolInv' /\ CountsInv'
  BY PoolStep, CountsStep
<1>2. PoolInv /\ CountsInv /\ [Next]_vars => PoolInv' /\ CountsInv'
  BY <1>1
<1>3. CountsInv => UsageCountsBlocks
  BY DEF CountsInv, CountsExact, UsageIsCount, UsageCountsBlocks
<1>4. QED BY PoolInit, CountsStart, <1>2, <1>3, PTL DEF Spec

\* The statistics are true of the pool until it is shut down: what they
\* report as free is what the free lists hold, and the usage of the moment is
\* never above the peak, while clients lock and migrate blocks of their own
\* only and nobody resets the statistics.
THEOREM StatisticsMatch ==
  ASSUME Exclusive, "resetStats" \notin Calls
  PROVE  Spec => []StatsMatchPool
<1>1. Exclusive /\ PoolInv /\ CountsInv /\ [Next]_vars => PoolInv' /\ CountsInv'
  BY PoolStep, CountsStep
<1>2. PoolInv /\ CountsInv /\ [Next]_vars => PoolInv' /\ CountsInv'
  BY <1>1
<1>3. "resetStats" \notin Calls /\ PoolInv /\ CountsInv => StatsMatchPool
  BY CountsGiveStats
<1>4. PoolInv /\ CountsInv => StatsMatchPool
  BY <1>3
<1>5. QED BY PoolInit, CountsStart, <1>2, <1>4, PTL DEF Spec

-----------------------------------------------------------------------------
(* What a client's step does to one block *)

Taken(b) ==
  /\ ~InUse(b) /\ block_metadata_'[b].state = "ALLOCATED"
  /\ block_metadata_'[b].tier = block_metadata_[b].tier
  /\ block_metadata_'[b].next = block_metadata_[b].next

Released(c, b) ==
  /\ block_metadata_[b].state = "ALLOCATED" /\ b \in Owned(c)
  /\ block_metadata_'[b] = FreshMetadata(block_metadata_[b].tier)

\* Locked or unlocked.
Restated(b) ==
  /\ InUse(b) /\ block_metadata_'[b].state # "FREE"
  /\ block_metadata_'[b].tier = block_metadata_[b].tier
  /\ block_metadata_'[b].layer = block_metadata_[b].layer
  /\ block_metadata_'[b].next = block_metadata_[b].next

Relinked(c, b) ==
  /\ pc[c] = "link" /\ b \in Owned(c)
  /\ block_metadata_'[b].state = block_metadata_[b].state
  /\ block_metadata_'[b].tier = block_metadata_[b].tier
  /\ block_metadata_'[b].layer = block_metadata_[b].layer

Rewritten(c, b) ==
  pc[c] = "rewrite" /\ b = copy[c].id /\ block_metadata_'[b] = copy[c].metadata

Fate(c, b) ==
  \/ block_metadata_'[b] = block_metadata_[b]
  \/ Taken(b)
  \/ Released(c, b)
  \/ Restated(b)
  \/ Relinked(c, b)
  \/ Rewritten(c, b)

Migrates(c) == \E b \in Targets(c), t \in Tiers : MigrateBlock(c, b, t)

LEMMA NoMigration == ASSUME "migrate" \notin Calls, NEW c PROVE ~Migrates(c)
BY DEF Migrates, MigrateBlock

\* The steps of a client but migrations, and what they may do to a block.
LEMMA BlockFate ==
  ASSUME PoolInv, Exclusive, NEW c \in Clients, ClientNext(c), ~Migrates(c),
         NEW b \in DOMAIN block_metadata_
  PROVE  Fate(c, b)
<1>1. PoolTypeOK /\ ClientTypeOK /\ FreeListsExact
  BY PoolFacts
<1>2. ASSUME block_metadata_' = block_metadata_ PROVE Fate(c, b)
  BY <1>2 DEF Fate
<1>3. ASSUME NEW t \in Tiers, NEW layer, free_lists_[t] # <<>>, Take(t, layer)
      PROVE  Fate(c, b)
  <2> PICK new : new = Head(free_lists_[t])
    OBVIOUS
  <2>1. /\ ~InUse(new) /\ new \in DOMAIN block_metadata_
        /\ block_metadata_' =
             [block_metadata_ EXCEPT ![new].state = "ALLOCATED", ![new].layer = layer]
    BY <1>1, <1>3, TakeEffect DEF Take
  <2>2. CASE b # new
    <3>1. block_metadata_'[b] = block_metadata_[b]
      BY <1>1, <2>1, <2>2 DEF PoolTypeOK
    <3>2. QED BY <3>1 DEF Fate
  <2>3. CASE b = new
    <3>1. Taken(b)
      BY <1>1, <2>1, <2>3 DEF PoolTypeOK, Metadata, Taken
    <3>2. QED BY <3>1 DEF Fate
  <2>4. QED BY <2>2, <2>3
<1>4. ASSUME NEW x \in Owned(c), Release(x) PROVE Fate(c, b)
  <2>1. CASE Releasable(x)
    <3>1. block_metadata_' = [block_metadata_ EXCEPT ![x] = FreshMetadata(block_metadata_[x].tier)]
          /\ block_metadata_[x].state = "ALLOCATED"
      BY <1>4, <2>1 DEF Release, Reset, Releasable, Allocated
    <3>2. CASE b # x
      <4>1. block_metadata_'[b] = block_metadata_[b]
        BY <1>1, <3>1, <3>2 DEF PoolTypeOK
      <4>2. QED BY <4>1 DEF Fate
    <3>3. CASE b = x
      <4>1. Released(c, b)
        BY <1>1, <1>4, <3>1, <3>3 DEF PoolTypeOK, Released
      <4>2. QED BY <4>1 DEF Fate
    <3>4. QED BY <3>2, <3>3
  <2>2. CASE ~Releasable(x)
    BY <1>2, <1>4, <2>2 DEF Release, pool
  <2>3. QED BY <2>1, <2>2
<1>5. ASSUME NEW x, NEW state \in BlockStates \ {"FREE"}, SetState(x, state), InUse(x)
      PROVE  Fate(c, b)
  <2>1. block_metadata_' = [block_metadata_ EXCEPT ![x].state = state]
    BY <1>5 DEF SetState
  <2>2. CASE b # x
    <3>1. block_metadata_'[b] = block_metadata_[b]
      BY <1>1, <2>1, <2>2 DEF PoolTypeOK
    <3>2. QED BY <3>1 DEF Fate
  <2>3. CASE b = x
    <3>1. Restated(b)
      BY <1>1, <1>5, <2>1, <2>3 DEF PoolTypeOK, Metadata, Restated
    <3>2. QED BY <3>1 DEF Fate
  <2>4. QED BY <2>2, <2>3
<1>6. ASSUME NEW l \in Layers, NEW t \in Tiers, AllocateBlock(c, l, t) PROVE Fate(c, b)
  BY <1>2, <1>3, <1>6 DEF AllocateBlock, Serves, pool
<1>7. ASSUME NEW x \in held[c], DeallocateBlock(c, x) PROVE Fate(c, b)
  BY <1>4, <1>7 DEF DeallocateBlock, Owned
<1>8. CASE SequenceAllocate(c)
  BY <1>2, <1>3, <1>8 DEF SequenceAllocate, Serves, pool, Tiers
<1>9. CASE SequenceLink(c)
  <2> PICK n, p, q : n = Len(blocks[c]) /\ p = blocks[c][n - 1] /\ q = blocks[c][n]
    OBVIOUS
  <2>1. /\ pc[c] = "link" /\ n \in Nat /\ blocks[c] \in Seq(BlockId)
        /\ block_metadata_' = IF n > 1 /\ Exists(p)
                              THEN [block_metadata_ EXCEPT ![p].next = q]
                              ELSE block_metadata_
    BY <1>1, <1>9 DEF SequenceLink, ClientTypeOK
  <2>2. CASE n > 1 /\ Exists(p) /\ b = p
    <3>1. n - 1 \in 1..Len(blocks[c])
      BY <2>1, <2>2
    <3>2. b \in Owned(c)
      BY <2>2, <3>1 DEF Owned, IdsIn
    <3>3. Relinked(c, b)
      BY <1>1, <2>1, <2>2, <3>2 DEF PoolTypeOK, Metadata, Relinked
    <3>4. QED BY <3>3 DEF Fate
  <2>3. CASE ~(n > 1 /\ Exists(p) /\ b = p)
    <3>1. block_metadata_'[b] = block_metadata_[b]
      BY <1>1, <2>1, <2>3 DEF PoolTypeOK
    <3>2. QED BY <3>1 DEF Fate
  <2>4. QED BY <2>2, <2>3
<1>10. CASE SequenceRollback(c)
  <2>1. CASE blocks[c] # <<>> /\ Release(Head(blocks[c]))
    <3>1. blocks[c] \in Seq(BlockId)
      BY <1>1 DEF ClientTypeOK
    <3>2. Len(blocks[c]) \in Nat \ {0} /\ Head(blocks[c]) = blocks[c][1]
      BY <2>1, <3>1
    <3>3. Head(blocks[c]) \in Owned(c)
      BY <3>2 DEF Owned, IdsIn
    <3>4. QED BY <1>4, <2>1, <3>3
  <2>2. CASE UNCHANGED <<pool, stats>>
    BY <1>2, <2>2 DEF pool
  <2>3. QED BY <1>10, <2>1, <2>2 DEF SequenceRollback
<1>11. ASSUME NEW x \in Targets(c), LockBlock(c, x) PROVE Fate(c, b)
  <2>1. InUse(x)
    BY <1>11, PoolFacts DEF LockBlock, Targets
  <2>2. QED BY <1>5, <1>11, <2>1 DEF LockBlock, BlockStates
<1>12. ASSUME NEW x, UnlockBlock(c, x) PROVE Fate(c, b)
  BY <1>5, <1>12 DEF UnlockBlock, BlockStates, InUse
<1>13. CASE WriteMetadata(c)
  <2>1. /\ pc[c] = "rewrite"
        /\ block_metadata_'[b] = IF b = copy[c].id THEN copy[c].metadata ELSE block_metadata_[b]
    BY <1>13 DEF WriteMetadata
  <2>2. QED BY <2>1 DEF Fate, Rewritten
<1>14. CASE Defragment(c)
  BY <1>2, <1>14 DEF Defragment
<1>15. ASSUME NEW x, ReadMetadata(c, x) PROVE Fate(c, b)
  BY <1>2, <1>15 DEF ReadMetadata, pool
<1>16. ASSUME NEW l \in Layers, NEW n \in 1..MaxSequence, AllocateSequence(c, l, n)
       PROVE  Fate(c, b)
  BY <1>2, <1>16 DEF AllocateSequence, pool
<1>17. QED
  BY <1>6, <1>7, <1>8, <1>9, <1>10, <1>11, <1>12, <1>13, <1>14, <1>15, <1>16
  DEF ClientNext, Migrates

\* A migration touches the client's own block and one that was FREE, which
\* carries on the state and the layer of the other.
LEMMA BlocksMigrated ==
  ASSUME PoolInv, Exclusive, NEW c \in Clients, Migrates(c)
  PROVE  \E b \in held[c] :
           /\ pc[c] = "idle" /\ UNCHANGED <<pc, copy>>
           /\ DOMAIN block_metadata_' = DOMAIN block_metadata_
           /\ \E n \in DOMAIN block_metadata_ :
                /\ ~InUse(n)
                /\ block_metadata_'[n].state = block_metadata_[b].state
                /\ block_metadata_'[n].layer = block_metadata_[b].layer
                /\ \A x \in DOMAIN block_metadata_ \ {b, n} :
                     block_metadata_'[x] = block_metadata_[x]
<1> PICK b \in held[c], t \in Tiers : MigrateBlock(c, b, t)
  BY DEF Migrates, Targets
<1> PICK n : n = Head(free_lists_[t])
  OBVIOUS
<1>1. PoolTypeOK /\ ClientTypeOK /\ FreeListsExact
  BY PoolFacts
<1>2. InUse(b)
  BY PoolFacts DEF MigrateBlock
<1>3. n \in DOMAIN block_metadata_ /\ ~InUse(n) /\ n # b
      /\ DOMAIN block_metadata_' = DOMAIN block_metadata_
  BY <1>1, <1>2, MigrateEffect
<1>4. block_metadata_' =
        [block_metadata_ EXCEPT ![n].state = block_metadata_[b].state,
                                ![n].layer = block_metadata_[b].layer,
                                ![b].state = "FREE"]
  BY DEF MigrateBlock, StateMoved
<1>5. /\ block_metadata_'[n].state = block_metadata_[b].state
      /\ block_metadata_'[n].layer = block_metadata_[b].layer
      /\ \A x \in DOMAIN block_metadata_ \ {b, n} : block_metadata_'[x] = block_metadata_[x]
  BY <1>1, <1>3, <1>4 DEF PoolTypeOK, Metadata
<1>6. pc[c] = "idle" /\ UNCHANGED <<pc, copy>>
  BY DEF MigrateBlock, local
<1>7. QED BY <1>3, <1>5, <1>6

\* What belongs to one client, no other client's step relinks, frees or moves
\* to another layer.
LEMMA OthersBlocks ==
  ASSUME PoolInv, Exclusive,
         NEW c \in Clients, ClientNext(c), NEW d \in Clients, d # c,
         NEW b \in Owned(d), Exists(b)
  PROVE  /\ Exists(b)' /\ InUse(b)'
         /\ block_metadata_'[b].layer = block_metadata_[b].layer
         /\ block_metadata_'[b].next = block_metadata_[b].next
<1>1. b \notin Owned(c) /\ InUse(b)
  BY DEF PoolInv, HeldExclusively
<1>0. CASE Migrates(c)
  <2>1. PICK x \in held[c] :
          /\ DOMAIN block_metadata_' = DOMAIN block_metadata_
          /\ \E n \in DOMAIN block_metadata_ :
               ~InUse(n) /\ \A y \in DOMAIN block_metadata_ \ {x, n} :
                              block_metadata_'[y] = block_metadata_[y]
    BY <1>0, BlocksMigrated
  <2>2. block_metadata_'[b] = block_metadata_[b]
    BY <1>1, <2>1 DEF Owned, Exists
  <2>3. QED BY <1>1, <2>1, <2>2 DEF InUse, Exists
<1> SUFFICES ASSUME ~Migrates(c)
             PROVE  /\ Exists(b)' /\ InUse(b)'
                    /\ block_metadata_'[b].layer = block_metadata_[b].layer
                    /\ block_metadata_'[b].next = block_metadata_[b].next
  BY <1>0
<1>2. Fate(c, b) /\ Exists(b)'
  BY BlockFate, SameBlocks DEF Exists
<1>3. ~Rewritten(c, b)
  BY <1>1, PoolFacts DEF Rewritten, CopyCurrent, Owned
<1>4. ~Taken(b) /\ ~Released(c, b) /\ ~Relinked(c, b)
  BY <1>1 DEF Taken, Released, Relinked
<1>5. CASE block_metadata_'[b] = block_metadata_[b]
  BY <1>1, <1>2, <1>5 DEF InUse
<1>6. CASE Restated(b)
  BY <1>2, <1>6 DEF Restated, InUse
<1>7. QED BY <1>2, <1>3, <1>4, <1>5, <1>6 DEF Fate

-----------------------------------------------------------------------------
(* Locks and the index *)

\* What a client is about to write back is the block's layer of the moment.
CopyOfLayer ==
  \A c \in Clients : pc[c] = "rewrite" =>
    copy[c].metadata.layer = block_metadata_[copy[c].id].layer

LEMMA CopyOfLayerStep ==
  Exclusive /\ PoolInv /\ CopyOfLayer /\ [Next]_vars => CopyOfLayer'
<1> SUFFICES ASSUME Exclusive, PoolInv, CopyOfLayer, [Next]_vars,
                    NEW d \in Clients, pc'[d] = "rewrite"
             PROVE  copy'[d].metadata.layer = block_metadata_'[copy'[d].id].layer
  BY DEF CopyOfLayer
<1>1. ClientTypeOK /\ CopyCurrent
  BY PoolFacts
<1>2. CASE Initialize \/ Shutdown
  BY <1>2 DEF Initialize, Shutdown, local
<1>3. CASE ResetStats \/ UNCHANGED vars
  BY <1>3 DEF ResetStats, vars, pool, local, CopyOfLayer
<1>4. ASSUME NEW c \in Clients, ClientNext(c)
      PROVE  copy'[d].metadata.layer = block_metadata_'[copy'[d].id].layer
  <2>1. CASE d # c
    <3>1. pc'[d] = pc[d] /\ copy'[d] = copy[d]
      <4>1. CASE SequenceAllocate(c) \/ SequenceLink(c) \/ SequenceRollback(c)
                 \/ WriteMetadata(c) \/ Defragment(c)
        BY <1>1, <2>1, <4>1
        DEF SequenceAllocate, SequenceLink, SequenceRollback, WriteMetadata, Defragment,
            Return, local, ClientTypeOK
      <4>2. CASE \E l \in Layers, n \in 1..MaxSequence : AllocateSequence(c, l, n)
        BY <1>1, <2>1, <4>2 DEF AllocateSequence, ClientTypeOK
      <4>3. CASE \E b \in held[c] : ReadMetadata(c, b)
        BY <1>1, <2>1, <4>3 DEF ReadMetadata, ClientTypeOK
      <4>4. CASE UNCHANGED local
        BY <4>4 DEF local
      <4>5. QED
        BY <1>4, <4>1, <4>2, <4>3, <4>4
        DEF ClientNext, AllocateBlock, DeallocateBlock, LockBlock, UnlockBlock, SetState,
            MigrateBlock
    <3>2. copy[d].id \in Owned(d) /\ Exists(copy[d].id)
      BY <1>1, <3>1 DEF CopyCurrent, Owned, InUse
    <3>3. block_metadata_'[copy[d].id].layer = block_metadata_[copy[d].id].layer
      BY <1>4, <2>1, <3>2, OthersBlocks
    <3>4. QED BY <3>1, <3>3 DEF CopyOfLayer
  <2>2. CASE d = c
    <3>1. CASE \E b \in held[c] : ReadMetadata(c, b)
      <4>1. PICK b \in held[c] : ReadMetadata(c, b)
        BY <3>1
      <4>2. copy'[c].id = b /\ copy'[c].metadata = block_metadata_[b]
            /\ block_metadata_' = block_metadata_
        BY <1>1, <4>1 DEF ReadMetadata, pool, ClientTypeOK
      <4>3. QED BY <2>2, <4>2
    <3>2. CASE ~(\E b \in held[c] : ReadMetadata(c, b))
      <4>1. CASE pc[c] = "rewrite"
        <5>1. WriteMetadata(c)
          BY <1>4, <3>2, <4>1
          DEF ClientNext, AllocateBlock, DeallocateBlock, AllocateSequence, SequenceAllocate,
              SequenceLink, SequenceRollback, LockBlock, UnlockBlock, MigrateBlock, Defragment
        <5>2. QED BY <1>1, <2>2, <5>1 DEF WriteMetadata, ClientTypeOK
      <4>2. CASE pc[c] # "rewrite"
        <5>1. pc'[c] # "rewrite"
          BY <1>1, <1>4, <3>2, <4>2
          DEF ClientNext, AllocateBlock, DeallocateBlock, AllocateSequence, SequenceAllocate,
              SequenceLink, SequenceRollback, LockBlock, UnlockBlock, SetState, MigrateBlock,
              Defragment, WriteMetadata, Return, local, ClientTypeOK
        <5>2. QED BY <2>2, <5>1
      <4>3. QED BY <4>1, <4>2
    <3>3. QED BY <3>1, <3>2
  <2>3. QED BY <2>1, <2>2
<1>5. QED BY <1>2, <1>3, <1>4 DEF Next

LEMMA LockStep ==
  Exclusive /\ PoolInv /\ CopyOfLayer /\ [Next]_vars =>
    \A b \in DOMAIN block_metadata_ \cap DOMAIN block_metadata_' :
      block_metadata_[b].state = "LOCKED" =>
        \E n \in DOMAIN block_metadata_' :
          /\ block_metadata_'[n].layer = block_metadata_[b].layer
          /\ \/ n = b /\ block_metadata_'[n].state # "FREE"
             \/ ~InUse(n) /\ block_metadata_'[n].state = "LOCKED"
<1> SUFFICES ASSUME Exclusive, PoolInv, CopyOfLayer, [Next]_vars,
                    NEW b \in DOMAIN block_metadata_, b \in DOMAIN block_metadata_',
                    block_metadata_[b].state = "LOCKED"
             PROVE  \E n \in DOMAIN block_metadata_' :
                      /\ block_metadata_'[n].layer = block_metadata_[b].layer
                      /\ \/ n = b /\ block_metadata_'[n].state # "FREE"
                         \/ ~InUse(n) /\ block_metadata_'[n].state = "LOCKED"
  OBVIOUS
<1> DEFINE KeptLocked == /\ block_metadata_'[b].state # "FREE"
                   /\ block_metadata_'[b].layer = block_metadata_[b].layer
           MovedLocked == \E n \in DOMAIN block_metadata_' :
                      /\ block_metadata_'[n].layer = block_metadata_[b].layer
                      /\ ~InUse(n) /\ block_metadata_'[n].state = "LOCKED"
<1>1. CASE block_metadata_'[b] = block_metadata_[b]
  BY <1>1
<1>2. CASE Initialize
  BY <1>1, <1>2, PoolFacts, NewBlocksFree
<1>3. CASE Shutdown
  BY <1>3 DEF Shutdown
<1>4. CASE ResetStats \/ UNCHANGED vars
  BY <1>1, <1>4 DEF ResetStats, vars, pool
<1>5. ASSUME NEW c \in Clients, ClientNext(c), ~Migrates(c)
      PROVE  KeptLocked
  <2>1. Fate(c, b)
    BY <1>5, BlockFate
  <2>2. InUse(b)
    BY DEF InUse, Exists
  <2>3. CASE Restated(b) \/ Relinked(c, b)
    BY <2>3 DEF Restated, Relinked
  <2>4. CASE Rewritten(c, b)
    BY <2>4, PoolFacts DEF Rewritten, CopyCurrent, CopyOfLayer
  <2>5. ~Taken(b) /\ ~Released(c, b)
    BY <2>2 DEF Taken, Released
  <2>6. CASE block_metadata_'[b] = block_metadata_[b]
    BY <2>6
  <2>7. QED BY <2>1, <2>3, <2>4, <2>5, <2>6 DEF Fate
<1>6. ASSUME NEW c \in Clients, Migrates(c)
      PROVE  KeptLocked \/ MovedLocked
  <2>1. PICK x \in held[c], n \in DOMAIN block_metadata_ :
          /\ DOMAIN block_metadata_' = DOMAIN block_metadata_
          /\ ~InUse(n)
          /\ block_metadata_'[n].state = block_metadata_[x].state
          /\ block_metadata_'[n].layer = block_metadata_[x].layer
          /\ \A y \in DOMAIN block_metadata_ \ {x, n} : block_metadata_'[y] = block_metadata_[y]
    BY <1>6, BlocksMigrated
  <2>2. b # n
    BY <2>1 DEF InUse, Exists
  <2>3. CASE b = x
    BY <2>1, <2>3
  <2>4. CASE b # x
    BY <2>1, <2>2, <2>4
  <2>5. QED BY <2>3, <2>4
<1>7. QED BY <1>2, <1>3, <1>4, <1>5, <1>6 DEF Next

LEMMA CopyOfLayerStart == Init => CopyOfLayer
  BY DEF Init, CopyOfLayer

\* A lock holds against every client that locks and migrates blocks of its
\* own: no call frees a LOCKED block, hands it out or moves it to another
\* layer, but for the migration of its holder, which leaves a block that was
\* FREE LOCKED in its stead.
THEOREM LocksAlwaysHold ==
  ASSUME Exclusive
  PROVE  Spec => LockHolds
<1>1. Exclusive /\ PoolInv /\ CopyOfLayer /\ [Next]_vars => PoolInv' /\ CopyOfLayer'
  BY PoolStep, CopyOfLayerStep
<1>2. PoolInv /\ CopyOfLayer /\ [Next]_vars => PoolInv' /\ CopyOfLayer'
  BY <1>1
<1>3. PoolInv /\ CopyOfLayer /\ [Next]_vars =>
        [\A b \in DOMAIN block_metadata_ \cap DOMAIN block_metadata_' :
           block_metadata_[b].state = "LOCKED" =>
             \E n \in DOMAIN block_metadata_' :
               /\ block_metadata_'[n].layer = block_metadata_[b].layer
               /\ \/ n = b /\ block_metadata_'[n].state # "FREE"
                  \/ ~InUse(n) /\ block_metadata_'[n].state = "LOCKED"]_vars
  BY LockStep
<1>4. QED BY PoolInit, CopyOfLayerStart, <1>2, <1>3, PTL DEF Spec, LockHolds

\* How often the index lists a block under a tier and under a layer.
Listed(b, t) == IF InUse(b) /\ block_metadata_[b].tier = t THEN 1 ELSE 0
ListedUnder(b, l) == IF InUse(b) /\ block_metadata_[b].layer = l THEN 1 ELSE 0

\* Ids that were not given out are listed nowhere.
NewUnlisted ==
  \A b \in BlockId : ~(b < next_block_id_) =>
    /\ \A t \in Tiers : tier_blocks_[t][b] = 0
    /\ \A l \in Layers \cup {0} : layer_blocks_[l][b] = 0

IndexInv == IndexExact /\ NewUnlisted /\ CopyOfLayer

LEMMA IndexForm ==
  ASSUME PoolTypeOK
  PROVE  IndexExact <=>
           \A b \in DOMAIN block_metadata_ :
             /\ \A t \in Tiers : tier_blocks_[t][b] = Listed(b, t)
             /\ \A l \in Layers \cup {0} : layer_blocks_[l][b] = ListedUnder(b, l)
<1>1. DOMAIN layer_blocks_ = Layers \cup {0}
  BY DEF PoolTypeOK
<1>2. QED BY <1>1 DEF IndexExact, Listed, ListedUnder

LEMMA IndexFormNext ==
  ASSUME PoolTypeOK'
  PROVE  IndexExact' <=>
           \A b \in DOMAIN block_metadata_' :
             /\ \A t \in Tiers : tier_blocks_'[t][b] = Listed(b, t)'
             /\ \A l \in Layers \cup {0} : layer_blocks_'[l][b] = ListedUnder(b, l)'
<1>1. DOMAIN layer_blocks_' = Layers \cup {0}
  BY DEF PoolTypeOK
<1>2. QED BY <1>1 DEF IndexExact, Listed, ListedUnder

\* The index stays exact when it stays and no block changes what it lists.
LEMMA IndexStays ==
  ASSUME PoolTypeOK, PoolTypeOK', IndexExact, UNCHANGED <<tier_blocks_, layer_blocks_>>,
         DOMAIN block_metadata_' = DOMAIN block_metadata_,
         \A b \in DOMAIN block_metadata_ :
           /\ InUse(b)' <=> InUse(b)
           /\ InUse(b) => /\ block_metadata_'[b].tier = block_metadata_[b].tier
                          /\ block_metadata_'[b].layer = block_metadata_[b].layer
  PROVE  IndexExact'
<1>1. \A b \in DOMAIN block_metadata_ :
        /\ \A t \in Tiers : Listed(b, t)' = Listed(b, t)
        /\ \A l \in Layers \cup {0} : ListedUnder(b, l)' = ListedUnder(b, l)
  BY DEF Listed, ListedUnder
<1>2. QED BY <1>1, IndexForm, IndexFormNext

\* A block that is taken was listed nowhere and is listed once afterwards.
LEMMA TakeIndexed ==
  ASSUME PoolTypeOK, PoolTypeOK', FreeListsExact, IndexExact,
         NEW t \in Tiers, NEW layer \in Layers \cup {0}, free_lists_[t] # <<>>, Take(t, layer)
  PROVE  IndexExact'
<1> PICK new : new = Head(free_lists_[t])
  OBVIOUS
<1>1. /\ new \in DOMAIN block_metadata_ /\ new \in BlockId /\ ~InUse(new)
      /\ block_metadata_[new].tier = t
      /\ DOMAIN block_metadata_' = DOMAIN block_metadata_
      /\ \A x \in DOMAIN block_metadata_ :
           /\ block_metadata_'[x].tier = block_metadata_[x].tier
           /\ InUse(x)' <=> InUse(x) \/ x = new
  BY TakeEffect DEF PoolTypeOK
<1>2. /\ tier_blocks_' = [tier_blocks_ EXCEPT ![t][new] = OnceMore(@)]
      /\ layer_blocks_' = [layer_blocks_ EXCEPT ![layer][new] = OnceMore(@)]
      /\ block_metadata_' =
           [block_metadata_ EXCEPT ![new].state = "ALLOCATED", ![new].layer = layer]
  BY <1>1 DEF Take
<1>3. /\ block_metadata_'[new].layer = layer
      /\ \A x \in DOMAIN block_metadata_ : x # new => block_metadata_'[x] = block_metadata_[x]
  BY <1>1, <1>2 DEF PoolTypeOK, Metadata
<1>4. OnceMore(0) = 1
  BY ConfigAssumption DEF OnceMore
<1>5. /\ \A s \in Tiers : tier_blocks_[s][new] = 0
      /\ \A l \in Layers \cup {0} : layer_blocks_[l][new] = 0
  BY <1>1, IndexForm DEF Listed, ListedUnder
<1>6. ASSUME NEW x \in DOMAIN block_metadata_, NEW s \in Tiers
      PROVE  tier_blocks_'[s][x] = Listed(x, s)'
  <2>1. x \in BlockId /\ tier_blocks_[s][x] = Listed(x, s)
    BY <1>6, IndexForm DEF PoolTypeOK
  <2>2. tier_blocks_'[s][x] = IF s = t /\ x = new THEN 1 ELSE tier_blocks_[s][x]
    BY <1>1, <1>2, <1>4, <1>5, <2>1 DEF PoolTypeOK
  <2>3. QED BY <1>1, <1>5, <2>1, <2>2 DEF Listed
<1>7. ASSUME NEW x \in DOMAIN block_metadata_, NEW l \in Layers \cup {0}
      PROVE  layer_blocks_'[l][x] = ListedUnder(x, l)'
  <2>1. x \in BlockId /\ layer_blocks_[l][x] = ListedUnder(x, l)
    BY <1>7, IndexForm DEF PoolTypeOK
  <2>2. layer_blocks_'[l][x] = IF l = layer /\ x = new THEN 1 ELSE layer_blocks_[l][x]
    BY <1>1, <1>2, <1>4, <1>5, <2>1 DEF PoolTypeOK
  <2>3. QED BY <1>1, <1>3, <1>5, <2>1, <2>2 DEF ListedUnder
<1>8. QED BY <1>1, <1>6, <1>7, IndexFormNext

\* A block that is freed leaves the list of its tier and that of its layer,
\* and it was in no other.
LEMMA ReleaseIndexed ==
  ASSUME PoolTypeOK, PoolTypeOK', IndexExact, NEW b \in BlockId, Release(b)
  PROVE  IndexExact'
<1>1. CASE ~Releasable(b)
  <2>1. UNCHANGED <<block_metadata_, tier_blocks_, layer_blocks_>>
    BY <1>1 DEF Release, pool
  <2>2. QED BY <2>1, IndexStays DEF InUse, Exists
<1>2. CASE Releasable(b)
  <2> PICK t, layer : t = block_metadata_[b].tier /\ layer = block_metadata_[b].layer
    OBVIOUS
  <2>1. b \in DOMAIN block_metadata_ /\ InUse(b) /\ t \in Tiers /\ layer \in Layers \cup {0}
    BY <1>2 DEF PoolTypeOK, Releasable, Allocated, InUse, Exists, Metadata
  <2>2. /\ block_metadata_' = [block_metadata_ EXCEPT ![b] = FreshMetadata(t)]
        /\ tier_blocks_' = [tier_blocks_ EXCEPT ![t][b] = 0]
        /\ layer_blocks_' = [layer_blocks_ EXCEPT ![layer][b] = 0]
    BY <1>2 DEF Release, Reset, FormerLayer
  <2>3. /\ DOMAIN block_metadata_' = DOMAIN block_metadata_
        /\ block_metadata_'[b].state = "FREE"
        /\ \A x \in DOMAIN block_metadata_ : x # b => block_metadata_'[x] = block_metadata_[x]
    BY <2>1, <2>2 DEF PoolTypeOK, FreshMetadata
  <2>4. /\ ~InUse(b)'
        /\ \A x \in DOMAIN block_metadata_ : x # b => (InUse(x)' <=> InUse(x))
    BY <2>3 DEF InUse, Exists
  <2>5. ASSUME NEW x \in DOMAIN block_metadata_, NEW s \in Tiers
        PROVE  tier_blocks_'[s][x] = Listed(x, s)'
    <3>1. x \in BlockId /\ tier_blocks_[s][x] = Listed(x, s)
      BY <2>5, IndexForm DEF PoolTypeOK
    <3>2. tier_blocks_'[s][x] = IF s = t /\ x = b THEN 0 ELSE tier_blocks_[s][x]
      BY <2>1, <2>2, <3>1 DEF PoolTypeOK
    <3>3. QED BY <2>1, <2>3, <2>4, <3>1, <3>2 DEF Listed
  <2>6. ASSUME NEW x \in DOMAIN block_metadata_, NEW l \in Layers \cup {0}
        PROVE  layer_blocks_'[l][x] = ListedUnder(x, l)'
    <3>1. x \in BlockId /\ layer_blocks_[l][x] = ListedUnder(x, l)
      BY <2>6, IndexForm DEF PoolTypeOK
    <3>2. layer_blocks_'[l][x] = IF l = layer /\ x = b THEN 0 ELSE layer_blocks_[l][x]
      BY <2>1, <2>2, <3>1 DEF PoolTypeOK
    <3>3. QED BY <2>1, <2>3, <2>4, <3>1, <3>2 DEF ListedUnder
  <2>7. QED BY <2>3, <2>5, <2>6, IndexFormNext
<1>3. QED BY <1>1, <1>2

\* Blocks of a new pool are FREE and listed nowhere.
LEMMA InitializeIndexed ==
  ASSUME PoolInv, PoolInv', IndexExact, NewUnlisted, Initialize
  PROVE  IndexExact' /\ NewUnlisted'
<1>1. /\ PoolTypeOK /\ PoolTypeOK' /\ UNCHANGED <<tier_blocks_, layer_blocks_>>
  BY PoolFacts DEF PoolInv, TypeOK, Initialize
<1>2. /\ next_block_id_' >= next_block_id_ /\ next_block_id_' \in Int /\ next_block_id_ \in Int
      /\ BlockId \subseteq Int
  BY <1>1, PoolFacts, InitializeEffect, ConfigAssumption DEF PoolTypeOK, BlockId
<1>3. NewUnlisted'
  <2>1. \A b \in BlockId : ~(b < next_block_id_') => ~(b < next_block_id_)
    BY <1>2
  <2>2. QED BY <1>1, <2>1 DEF NewUnlisted
<1>4. ASSUME NEW b \in DOMAIN block_metadata_'
      PROVE  /\ \A t \in Tiers : tier_blocks_'[t][b] = Listed(b, t)'
             /\ \A l \in Layers \cup {0} : layer_blocks_'[l][b] = ListedUnder(b, l)'
  <2>1. b \in BlockId
    BY <1>1, <1>4 DEF PoolTypeOK
  <2>2. CASE b \in DOMAIN block_metadata_ /\ block_metadata_'[b] = block_metadata_[b]
    <3>1. InUse(b)' <=> InUse(b)
      BY <1>4, <2>2 DEF InUse, Exists
    <3>2. /\ \A t \in Tiers : tier_blocks_[t][b] = Listed(b, t)
          /\ \A l \in Layers \cup {0} : layer_blocks_[l][b] = ListedUnder(b, l)
      BY <1>1, <2>2, IndexForm
    <3>3. QED BY <1>1, <2>2, <3>1, <3>2 DEF Listed, ListedUnder
  <2>3. CASE ~(b < next_block_id_) /\ block_metadata_'[b] = FreshMetadata(NewTier(b))
    <3>1. ~InUse(b)'
      BY <2>3 DEF InUse, FreshMetadata
    <3>2. QED BY <1>1, <2>1, <2>3, <3>1 DEF NewUnlisted, Listed, ListedUnder
  <2>4. QED BY <1>4, <2>2, <2>3, NewBlocksFree
<1>5. QED BY <1>1, <1>3, <1>4, IndexFormNext

LEMMA NewUnlistedTake ==
  ASSUME PoolInv, NewUnlisted, NEW t \in Tiers, NEW layer, free_lists_[t] # <<>>, Take(t, layer)
  PROVE  NewUnlisted'
<1> PICK new, home : new = Head(free_lists_[t]) /\ home = block_metadata_[new].tier
  OBVIOUS
<1>1. new \in DOMAIN block_metadata_ /\ new < next_block_id_
  BY TakeEffect, PoolFacts
<1>2. /\ tier_blocks_' = [tier_blocks_ EXCEPT ![home][new] = OnceMore(@)]
      /\ layer_blocks_' = [layer_blocks_ EXCEPT ![layer][new] = OnceMore(@)]
      /\ next_block_id_' = next_block_id_
  BY DEF Take
<1>3. /\ tier_blocks_ \in [Tiers -> [BlockId -> Nat]]
      /\ layer_blocks_ \in [Layers \cup {0} -> [BlockId -> Nat]]
  BY PoolFacts DEF PoolTypeOK
<1>4. \A b \in BlockId : b # new =>
        /\ \A s \in Tiers : tier_blocks_'[s][b] = tier_blocks_[s][b]
        /\ \A l \in Layers \cup {0} : layer_blocks_'[l][b] = layer_blocks_[l][b]
  BY <1>2, <1>3
<1>5. QED BY <1>1, <1>2, <1>4 DEF NewUnlisted

LEMMA NewUnlistedRelease ==
  ASSUME PoolInv, NewUnlisted, NEW b \in BlockId, Release(b)
  PROVE  NewUnlisted'
<1>1. CASE ~Releasable(b)
  BY <1>1 DEF Release, pool, NewUnlisted
<1>2. CASE Releasable(b)
  <2> PICK t, layer : t = block_metadata_[b].tier /\ layer = block_metadata_[b].layer
    OBVIOUS
  <2>1. /\ tier_blocks_' = [tier_blocks_ EXCEPT ![t][b] = 0]
        /\ layer_blocks_' = [layer_blocks_ EXCEPT ![layer][b] = 0]
        /\ next_block_id_' = next_block_id_
    BY <1>2 DEF Release, FormerLayer
  <2>2. /\ tier_blocks_ \in [Tiers -> [BlockId -> Nat]]
        /\ layer_blocks_ \in [Layers \cup {0} -> [BlockId -> Nat]]
    BY PoolFacts DEF PoolTypeOK
  <2>3. \A x \in BlockId :
          /\ \A s \in Tiers : tier_blocks_'[s][x] = 0 \/ tier_blocks_'[s][x] = tier_blocks_[s][x]
          /\ \A l \in Layers \cup {0} :
               layer_blocks_'[l][x] = 0 \/ layer_blocks_'[l][x] = layer_blocks_[l][x]
    BY <2>1, <2>2
  <2>4. QED BY <2>1, <2>3 DEF NewUnlisted
<1>3. QED BY <1>1, <1>2

LEMMA IndexStep ==
  /\ Exclusive /\ PoolInv /\ PoolInv' /\ IndexInv /\ "migrate" \notin Calls /\ [Next]_vars
  => IndexExact' /\ NewUnlisted'
<1> SUFFICES ASSUME Exclusive, PoolInv, PoolInv', IndexInv, "migrate" \notin Calls,
                    [Next]_vars
             PROVE  IndexExact' /\ NewUnlisted'
  OBVIOUS
<1>1. /\ PoolTypeOK /\ PoolTypeOK' /\ ClientTypeOK /\ FreeListsExact
      /\ IndexExact /\ NewUnlisted /\ CopyOfLayer
  BY PoolFacts DEF PoolInv, TypeOK, IndexInv
<1>2. ASSUME UNCHANGED <<tier_blocks_, layer_blocks_, next_block_id_>>,
             DOMAIN block_metadata_' = DOMAIN block_metadata_,
             \A b \in DOMAIN block_metadata_ :
               /\ InUse(b)' <=> InUse(b)
               /\ InUse(b) => /\ block_metadata_'[b].tier = block_metadata_[b].tier
                              /\ block_metadata_'[b].layer = block_metadata_[b].layer
      PROVE  IndexExact' /\ NewUnlisted'
  BY <1>1, <1>2, IndexStays DEF NewUnlisted
<1>3. ASSUME UNCHANGED <<tier_blocks_, layer_blocks_, next_block_id_, block_metadata_>>
      PROVE  IndexExact' /\ NewUnlisted'
  BY <1>2, <1>3 DEF InUse, Exists
<1>4. CASE Initialize
  BY <1>1, <1>4, InitializeIndexed
<1>5. CASE Shutdown
  <2>1. DOMAIN block_metadata_' = {}
        /\ UNCHANGED <<tier_blocks_, layer_blocks_, next_block_id_>>
    BY <1>5 DEF Shutdown
  <2>2. QED BY <1>1, <2>1 DEF IndexExact, NewUnlisted
<1>6. CASE ResetStats \/ UNCHANGED vars
  BY <1>3, <1>6 DEF ResetStats, vars, pool
<1>7. ASSUME NEW t \in Tiers, NEW layer \in Layers \cup {0}, free_lists_[t] # <<>>,
             Take(t, layer)
      PROVE  IndexExact' /\ NewUnlisted'
  BY <1>1, <1>7, TakeIndexed, NewUnlistedTake
<1>8. ASSUME NEW b \in BlockId, Release(b) PROVE IndexExact' /\ NewUnlisted'
  BY <1>1, <1>8, ReleaseIndexed, NewUnlistedRelease
<1>9. ASSUME NEW c \in Clients, ClientNext(c) PROVE IndexExact' /\ NewUnlisted'
  <2>1. CASE UNCHANGED <<tier_blocks_, layer_blocks_>>
             /\ \A b \in DOMAIN block_metadata_ : ~Taken(b) /\ ~Released(c, b)
    <3>1. DOMAIN block_metadata_' = DOMAIN block_metadata_ /\ next_block_id_' = next_block_id_
      BY <1>9, SameBlocks
    <3>2. ASSUME NEW b \in DOMAIN block_metadata_
          PROVE  /\ InUse(b)' <=> InUse(b)
                 /\ InUse(b) => /\ block_metadata_'[b].tier = block_metadata_[b].tier
                                /\ block_metadata_'[b].layer = block_metadata_[b].layer
      <4>1. Fate(c, b)
        BY <1>9, BlockFate, NoMigration
      <4>2. CASE block_metadata_'[b] = block_metadata_[b]
        BY <3>1, <4>2 DEF InUse, Exists
      <4>3. CASE Restated(b)
        BY <3>1, <4>3 DEF Restated, InUse, Exists
      <4>4. CASE Relinked(c, b)
        BY <3>1, <4>4 DEF Relinked, InUse, Exists
      <4>5. CASE Rewritten(c, b)
        BY <1>1, <3>1, <4>5, PoolFacts DEF Rewritten, CopyCurrent, CopyOfLayer, InUse, Exists
      <4>6. QED BY <2>1, <3>2, <4>1, <4>2, <4>3, <4>4, <4>5 DEF Fate
    <3>3. QED BY <1>2, <2>1, <3>1, <3>2
  <2>2. ASSUME NEW l \in Layers, NEW t \in Tiers, AllocateBlock(c, l, t)
        PROVE  IndexExact' /\ NewUnlisted'
    BY <1>3, <1>7, <2>2 DEF AllocateBlock, Serves, pool
  <2>3. ASSUME NEW b \in held[c], DeallocateBlock(c, b) PROVE IndexExact' /\ NewUnlisted'
    BY <1>1, <1>8, <2>3 DEF DeallocateBlock, ClientTypeOK
  <2>4. CASE SequenceAllocate(c)
    <3>1. request[c].layer \in Layers \cup {0}
      BY <1>1 DEF ClientTypeOK
    <3>2. QED BY <1>3, <1>7, <2>4, <3>1 DEF SequenceAllocate, Serves, pool, Tiers
  <2>5. CASE SequenceRollback(c)
    <3>1. blocks[c] # <<>> => Head(blocks[c]) \in BlockId
      BY <1>1 DEF ClientTypeOK
    <3>2. QED BY <1>3, <1>8, <2>5, <3>1 DEF SequenceRollback, pool
  <2>6. ASSUME NEW l \in Layers, NEW n \in 1..MaxSequence, AllocateSequence(c, l, n)
        PROVE  IndexExact' /\ NewUnlisted'
    BY <1>3, <2>6 DEF AllocateSequence, pool
  <2>7. CASE Defragment(c) \/ \E b \in held[c] : ReadMetadata(c, b)
    BY <1>3, <2>7 DEF Defragment, ReadMetadata, pool
  <2>8. CASE \/ SequenceLink(c) \/ WriteMetadata(c)
             \/ \E b \in Targets(c) : LockBlock(c, b)
             \/ \E b \in DOMAIN block_metadata_ : UnlockBlock(c, b)
    <3>1. UNCHANGED <<tier_blocks_, layer_blocks_, free_lists_>>
      BY <2>8 DEF SequenceLink, WriteMetadata, LockBlock, UnlockBlock, SetState
    <3>2. FreeListsExact'
      BY DEF PoolInv
    <3>3. ASSUME NEW b \in DOMAIN block_metadata_ PROVE InUse(b)' <=> InUse(b)
      <4>1. b \in DOMAIN block_metadata_'
        BY <1>9, SameBlocks
      <4>2. block_metadata_[b].tier \in Tiers /\ block_metadata_'[b].tier \in Tiers
        BY <1>1, <4>1 DEF PoolTypeOK, Metadata
      <4>3. ~InUse(b) <=> \E t \in Tiers : b \in IdsIn(free_lists_[t])
        BY <1>1, <4>2 DEF FreeListsExact, FreeIn
      <4>4. ~InUse(b)' <=> \E t \in Tiers : b \in IdsIn(free_lists_'[t])
        BY <3>2, <4>1, <4>2 DEF FreeListsExact, FreeIn, IdsIn
      <4>5. QED BY <3>1, <4>3, <4>4
    <3>4. \A b \in DOMAIN block_metadata_ : ~Taken(b) /\ ~Released(c, b)
      <4>1. DOMAIN block_metadata_' = DOMAIN block_metadata_
        BY <1>9, SameBlocks
      <4>2. QED BY <3>3, <4>1 DEF Taken, Released, InUse, Exists, FreshMetadata
    <3>5. QED BY <2>1, <3>1, <3>4
  <2>9. QED
    BY <1>9, <2>2, <2>3, <2>4, <2>5, <2>6, <2>7, <2>8 DEF ClientNext, MigrateBlock
<1>10. QED BY <1>4, <1>5, <1>6, <1>9 DEF Next

LEMMA IndexStart == Init => IndexInv
<1> SUFFICES ASSUME Init PROVE IndexInv
  OBVIOUS
<1>1. DOMAIN block_metadata_ = {}
  BY DEF Init
<1>2. NewUnlisted
  BY DEF Init, NewUnlisted
<1>3. QED BY <1>1, <1>2, CopyOfLayerStart DEF IndexInv, IndexExact

\* The used-block index lists every block in use once under its tier and once
\* under its layer, and no other block of the pool, for any clients and any
\* calls but migrations, which do not tell the index of the new id; also of
\* pools that were closed and opened again, though a shutdown clears no index.
THEOREM IndexStaysExact ==
  ASSUME Exclusive, "migrate" \notin Calls
  PROVE  Spec => []IndexExact
<1>1. Exclusive /\ "migrate" \notin Calls /\ PoolInv /\ IndexInv /\ [Next]_vars
        => PoolInv' /\ IndexInv'
  BY PoolStep, IndexStep, CopyOfLayerStep DEF IndexInv
<1>2. PoolInv /\ IndexInv /\ [Next]_vars => PoolInv' /\ IndexInv'
  BY <1>1
<1>3. IndexInv => IndexExact
  BY DEF IndexInv
<1>4. QED BY PoolInit, IndexStart, <1>2, <1>3, PTL DEF Spec

-----------------------------------------------------------------------------
(* Sequences *)

\* The first n blocks of a sequence are linked in metadata m, and lead nowhere
\* from the n-th.
Chain(m, s, n) ==
  \A i \in 1..n : m[s[i]].next = IF i = n THEN NoBlock ELSE s[i + 1]

\* A free block has no successor, so that one that is taken has none.
FreeUnlinked == \A b \in DOMAIN block_metadata_ : ~InUse(b) => block_metadata_[b].next = NoBlock

\* A call of allocateSequence has only existing blocks, all linked but for the
\* last one while that is to be linked yet.
CallLinked(c) ==
  /\ pc[c] \in {"idle", "rewrite"} => blocks[c] = <<>>
  /\ \A b \in IdsIn(blocks[c]) : Exists(b)
  /\ pc[c] = "allocate" => Chain(block_metadata_, blocks[c], Len(blocks[c]))
  /\ pc[c] = "link" =>
       /\ blocks[c] # <<>>
       /\ Chain(block_metadata_, blocks[c], Len(blocks[c]) - 1)
       /\ block_metadata_[blocks[c][Len(blocks[c])]].next = NoBlock

LinkInv == FreeUnlinked /\ \A c \in Clients : CallLinked(c)

\* A client's step leaves where the others are and what they have.
LEMMA OthersKeep ==
  ASSUME ClientTypeOK, NEW c \in Clients, ClientNext(c), NEW d \in Clients, d # c
  PROVE  pc'[d] = pc[d] /\ blocks'[d] = blocks[d]
<1>1. CASE SequenceAllocate(c) \/ SequenceLink(c) \/ SequenceRollback(c)
           \/ WriteMetadata(c) \/ Defragment(c)
  BY <1>1
  DEF SequenceAllocate, SequenceLink, SequenceRollback, WriteMetadata, Defragment,
      Return, local, ClientTypeOK
<1>2. CASE \E l \in Layers, n \in 1..MaxSequence : AllocateSequence(c, l, n)
  BY <1>2 DEF AllocateSequence, ClientTypeOK
<1>3. CASE \E b \in held[c] : ReadMetadata(c, b)
  BY <1>3 DEF ReadMetadata, ClientTypeOK
<1>4. CASE UNCHANGED local
  BY <1>4 DEF local
<1>5. QED
  BY <1>1, <1>2, <1>3, <1>4
  DEF ClientNext, AllocateBlock, DeallocateBlock, LockBlock, UnlockBlock, SetState,
      MigrateBlock

\* The call of one client under the step of another.
LEMMA OthersCallLinked ==
  ASSUME PoolInv, Exclusive, "migrate" \notin Calls, NEW c \in Clients, ClientNext(c),
         NEW d \in Clients, d # c, CallLinked(d)
  PROVE  CallLinked(d)'
<1>1. pc'[d] = pc[d] /\ blocks'[d] = blocks[d] /\ blocks[d] \in Seq(BlockId)
  BY OthersKeep, PoolFacts DEF ClientTypeOK
<1>2. \A b \in IdsIn(blocks[d]) :
        Exists(b)' /\ block_metadata_'[b].next = block_metadata_[b].next
  BY OthersBlocks DEF CallLinked, Owned
<1>3. \A i \in 1..Len(blocks[d]) : blocks[d][i] \in IdsIn(blocks[d])
  BY DEF IdsIn
<1>4. \A i \in 1..Len(blocks[d]) :
        block_metadata_'[blocks[d][i]].next = block_metadata_[blocks[d][i]].next
  BY <1>2, <1>3
<1>5. \A b \in IdsIn(blocks'[d]) : Exists(b)'
  BY <1>1, <1>2
<1>6. pc'[d] = "allocate" => Chain(block_metadata_', blocks'[d], Len(blocks'[d]))
  BY <1>1, <1>4 DEF CallLinked, Chain
<1>7. ASSUME pc'[d] = "link"
      PROVE  /\ blocks'[d] # <<>>
             /\ Chain(block_metadata_', blocks'[d], Len(blocks'[d]) - 1)
             /\ block_metadata_'[blocks'[d][Len(blocks'[d])]].next = NoBlock
  <2>1. /\ blocks[d] # <<>> /\ Len(blocks[d]) \in Nat \ {0}
        /\ Chain(block_metadata_, blocks[d], Len(blocks[d]) - 1)
        /\ block_metadata_[blocks[d][Len(blocks[d])]].next = NoBlock
    BY <1>1, <1>7 DEF CallLinked
  <2>2. Chain(block_metadata_', blocks[d], Len(blocks[d]) - 1)
    <3> SUFFICES ASSUME NEW i \in 1..Len(blocks[d]) - 1
                 PROVE  block_metadata_'[blocks[d][i]].next
                          = IF i = Len(blocks[d]) - 1 THEN NoBlock ELSE blocks[d][i + 1]
      BY DEF Chain
    <3>1. i \in 1..Len(blocks[d])
      BY <2>1
    <3>2. block_metadata_[blocks[d][i]].next
            = IF i = Len(blocks[d]) - 1 THEN NoBlock ELSE blocks[d][i + 1]
      BY <2>1 DEF Chain
    <3>3. QED BY <1>4, <3>1, <3>2
  <2>3. block_metadata_'[blocks[d][Len(blocks[d])]].next = NoBlock
    BY <1>4, <2>1
  <2>4. QED BY <1>1, <2>1, <2>2, <2>3
<1>8. pc'[d] \in {"idle", "rewrite"} => blocks'[d] = <<>>
  BY <1>1 DEF CallLinked
<1>9. QED BY <1>5, <1>6, <1>7, <1>8 DEF CallLinked, Exists, IdsIn

\* Free blocks stay without successors.
LEMMA FreeUnlinkedStep ==
  ASSUME PoolInv, Exclusive, "migrate" \notin Calls, FreeUnlinked, NEW c \in Clients,
         ClientNext(c)
  PROVE  FreeUnlinked'
<1> SUFFICES ASSUME NEW b \in DOMAIN block_metadata_', ~InUse(b)'
             PROVE  block_metadata_'[b].next = NoBlock
  BY DEF FreeUnlinked
<1>1. b \in DOMAIN block_metadata_ /\ Fate(c, b) /\ block_metadata_'[b].state = "FREE"
  BY SameBlocks, BlockFate, NoMigration DEF InUse, Exists
<1>2. CASE block_metadata_'[b] = block_metadata_[b]
  BY <1>1, <1>2 DEF FreeUnlinked, InUse, Exists
<1>3. CASE Released(c, b)
  BY <1>3 DEF Released, FreshMetadata
<1>4. ~Taken(b) /\ ~Restated(b)
  BY <1>1 DEF Taken, Restated
<1>5. ~Relinked(c, b)
  BY <1>1 DEF Relinked, PoolInv, HeldExclusively, InUse, Exists
<1>6. ~Rewritten(c, b)
  BY <1>1, PoolFacts DEF Rewritten, CopyCurrent
<1>7. QED BY <1>1, <1>2, <1>3, <1>4, <1>5, <1>6 DEF Fate

\* The block that allocateBlock hands to the call has no successor yet, and the
\* blocks before it keep theirs.
LEMMA SequenceTakes ==
  ASSUME PoolInv, Exclusive, "migrate" \notin Calls, LinkInv, NEW c \in Clients,
         pc[c] = "allocate", Take("HOT", request[c].layer), free_lists_["HOT"] # <<>>,
         blocks' = [blocks EXCEPT ![c] = Append(@, Head(free_lists_["HOT"]))],
         pc' = [pc EXCEPT ![c] = "link"]
  PROVE  CallLinked(c)'
<1> PICK b, n : b = Head(free_lists_["HOT"]) /\ n = Len(blocks[c])
  OBVIOUS
<1>1. /\ b \in DOMAIN block_metadata_ /\ b \in BlockId /\ ~InUse(b)
      /\ DOMAIN block_metadata_' = DOMAIN block_metadata_
      /\ PoolTypeOK /\ ClientTypeOK
  BY TakeEffect, PoolFacts DEF Tiers, PoolTypeOK
<1>2. block_metadata_' = [block_metadata_ EXCEPT ![b].state = "ALLOCATED",
                                                 ![b].layer = request[c].layer]
  BY DEF Take
<1>3. \A x \in DOMAIN block_metadata_ : block_metadata_'[x].next = block_metadata_[x].next
  BY <1>1, <1>2 DEF PoolTypeOK, Metadata
<1>4. blocks[c] \in Seq(BlockId) /\ blocks'[c] = Append(blocks[c], b) /\ pc'[c] = "link"
  BY <1>1 DEF ClientTypeOK
<1>5. /\ n \in Nat /\ Len(blocks'[c]) = n + 1 /\ blocks'[c] # <<>>
      /\ \A i \in 1..n : blocks'[c][i] = blocks[c][i]
      /\ blocks'[c][n + 1] = b
  BY <1>1, <1>4, AppendProperties
<1>6. /\ \A i \in 1..n : Exists(blocks[c][i])
      /\ Chain(block_metadata_, blocks[c], n)
      /\ block_metadata_[b].next = NoBlock
  BY <1>1 DEF LinkInv, CallLinked, FreeUnlinked, IdsIn
<1>7. \A x \in IdsIn(blocks'[c]) : x \in DOMAIN block_metadata_'
  <2> SUFFICES ASSUME NEW i \in 1..n + 1 PROVE blocks'[c][i] \in DOMAIN block_metadata_'
    BY <1>5 DEF IdsIn
  <2>1. CASE i \in 1..n
    BY <1>1, <1>5, <1>6, <2>1 DEF Exists
  <2>2. CASE i = n + 1
    BY <1>1, <1>5, <2>2 DEF Exists
  <2>3. QED BY <1>5, <2>1, <2>2
<1>8. Chain(block_metadata_', blocks'[c], Len(blocks'[c]) - 1)
  <2> SUFFICES ASSUME NEW i \in 1..n
               PROVE  block_metadata_'[blocks'[c][i]].next
                        = IF i = n THEN NoBlock ELSE blocks'[c][i + 1]
    BY <1>5 DEF Chain
  <2>1. block_metadata_'[blocks'[c][i]].next = block_metadata_[blocks[c][i]].next
    BY <1>3, <1>5, <1>6 DEF Exists
  <2>2. i # n => i + 1 \in 1..n
    BY <1>5
  <2>3. QED BY <1>5, <1>6, <2>1, <2>2 DEF Chain
<1>9. block_metadata_'[blocks'[c][Len(blocks'[c])]].next = NoBlock
  BY <1>1, <1>3, <1>5, <1>6
<1>10. QED BY <1>4, <1>5, <1>7, <1>8, <1>9 DEF CallLinked, Exists, IdsIn

\* The link from the previous block completes the chain.
LEMMA SequenceLinks ==
  ASSUME PoolInv, Exclusive, NEW c \in Clients, CallLinked(c), SequenceLink(c)
  PROVE  Chain(block_metadata_', blocks[c], Len(blocks[c])) /\ CallLinked(c)'
<1> PICK s, n : s = blocks[c] /\ n = Len(s)
  OBVIOUS
<1>1. /\ PoolTypeOK /\ ClientTypeOK /\ s \in Seq(BlockId) /\ n \in Nat \ {0}
      /\ pc[c] = "link" /\ NoDuplicates(s)
      /\ \A i \in 1..n : s[i] \in DOMAIN block_metadata_
      /\ Chain(block_metadata_, s, n - 1) /\ block_metadata_[s[n]].next = NoBlock
  <2>1. pc[c] = "link" /\ PoolTypeOK /\ ClientTypeOK /\ s \in Seq(BlockId) /\ NoDuplicates(s)
    BY PoolFacts DEF SequenceLink, ClientTypeOK
  <2>2. s # <<>> /\ Chain(block_metadata_, s, n - 1) /\ block_metadata_[s[n]].next = NoBlock
        /\ \A i \in 1..n : s[i] \in DOMAIN block_metadata_
    BY <2>1 DEF CallLinked, IdsIn, Exists
  <2>3. n \in Nat \ {0}
    BY <2>1, <2>2
  <2>4. QED BY <2>1, <2>2, <2>3
<1>2. block_metadata_' = IF n > 1 THEN [block_metadata_ EXCEPT ![s[n - 1]].next = s[n]]
                         ELSE block_metadata_
  <2>1. n > 1 => Exists(s[n - 1])
    BY <1>1 DEF Exists
  <2>2. QED BY <2>1 DEF SequenceLink
<1>3. DOMAIN block_metadata_' = DOMAIN block_metadata_
  BY <1>1, <1>2 DEF PoolTypeOK
<1>4. ASSUME NEW i \in 1..n
      PROVE  block_metadata_'[s[i]].next = IF i = n THEN NoBlock ELSE s[i + 1]
  <2>1. CASE i = n - 1
    <3>1. n > 1 /\ s[n - 1] \in DOMAIN block_metadata_
      BY <1>1, <2>1
    <3>2. block_metadata_'[s[n - 1]].next = s[n]
      BY <1>1, <1>2, <3>1 DEF PoolTypeOK, Metadata
    <3>3. QED BY <1>1, <2>1, <3>2
  <2>2. CASE i # n - 1
    <3>1. block_metadata_'[s[i]] = block_metadata_[s[i]]
      <4>1. n > 1 => s[i] # s[n - 1]
        BY <1>1, <2>2 DEF NoDuplicates
      <4>2. s[i] \in DOMAIN block_metadata_
        BY <1>1
      <4>3. QED BY <1>1, <1>2, <4>1, <4>2 DEF PoolTypeOK
    <3>2. CASE i = n
      BY <1>1, <3>1, <3>2
    <3>3. CASE i # n
      <4>1. i \in 1..n - 1
        BY <1>1, <3>3
      <4>2. QED BY <1>1, <2>2, <3>1, <3>3, <4>1 DEF Chain
    <3>4. QED BY <3>2, <3>3
  <2>3. QED BY <2>1, <2>2
<1>5. Chain(block_metadata_', s, n)
  BY <1>4 DEF Chain
<1>6. CallLinked(c)'
  <2>1. CASE pc' = [pc EXCEPT ![c] = "allocate"] /\ UNCHANGED <<request, blocks, copy, held>>
    <3>1. pc'[c] = "allocate" /\ blocks'[c] = s
      BY <1>1, <2>1 DEF ClientTypeOK
    <3>2. \A b \in IdsIn(blocks'[c]) : b \in DOMAIN block_metadata_'
      BY <1>1, <1>3, <3>1 DEF IdsIn
    <3>3. QED BY <1>5, <3>1, <3>2 DEF CallLinked, Exists, IdsIn
  <2>2. CASE Return(c)
    <3>1. pc'[c] = "idle" /\ blocks'[c] = <<>>
      BY <1>1, <2>2 DEF Return, ClientTypeOK
    <3>2. Len(blocks'[c]) = 0
      BY <3>1
    <3>3. QED BY <3>1, <3>2 DEF CallLinked, IdsIn
  <2>3. QED BY <2>1, <2>2 DEF SequenceLink
<1>7. QED BY <1>5, <1>6

\* A client without a call: nothing is to be linked.
LEMMA IdleCallLinked ==
  ASSUME NEW c \in Clients, pc'[c] \in {"idle", "rewrite", "allocate"}, blocks'[c] = <<>>
  PROVE  CallLinked(c)'
<1>1. Len(blocks'[c]) = 0
  OBVIOUS
<1>2. QED BY <1>1 DEF CallLinked, Chain, IdsIn

LEMMA OwnCallLinked ==
  ASSUME PoolInv, Exclusive, "migrate" \notin Calls, LinkInv, NEW c \in Clients, ClientNext(c)
  PROVE  CallLinked(c)'
<1>1. ClientTypeOK /\ CallLinked(c) /\ blocks[c] \in Seq(BlockId)
      /\ DOMAIN block_metadata_' = DOMAIN block_metadata_
  BY PoolFacts, SameBlocks DEF LinkInv, ClientTypeOK
<1>2. CASE SequenceAllocate(c)
  <2>1. CASE /\ Serves("HOT", "HOT") /\ Take("HOT", request[c].layer)
             /\ blocks' = [blocks EXCEPT ![c] = Append(@, Head(free_lists_["HOT"]))]
             /\ pc' = [pc EXCEPT ![c] = "link"]
    BY <1>2, <2>1, SequenceTakes DEF SequenceAllocate, Serves
  <2>2. CASE pc' = [pc EXCEPT ![c] = "rollback"] /\ blocks' = blocks
    <3>1. pc'[c] = "rollback" /\ blocks'[c] = blocks[c]
      BY <1>1, <2>2 DEF ClientTypeOK
    <3>2. \A b \in IdsIn(blocks'[c]) : b \in DOMAIN block_metadata_'
      BY <1>1, <3>1 DEF CallLinked, Exists
    <3>3. QED BY <3>1, <3>2 DEF CallLinked, Exists, IdsIn
  <2>3. CASE Return(c)
    BY <1>1, <2>3, IdleCallLinked DEF Return, ClientTypeOK
  <2>4. QED BY <1>2, <2>1, <2>2, <2>3 DEF SequenceAllocate
<1>3. CASE SequenceLink(c)
  BY <1>1, <1>3, SequenceLinks
<1>4. CASE SequenceRollback(c)
  <2>1. CASE blocks[c] # <<>> /\ blocks' = [blocks EXCEPT ![c] = Tail(@)] /\ pc' = pc
    <3>1. pc'[c] = "rollback" /\ blocks'[c] = Tail(blocks[c])
      BY <1>1, <1>4, <2>1 DEF SequenceRollback, ClientTypeOK
    <3>2. \A b \in IdsIn(Tail(blocks[c])) : b \in IdsIn(blocks[c])
      <4>1. /\ Len(blocks[c]) \in Nat \ {0} /\ Len(Tail(blocks[c])) = Len(blocks[c]) - 1
            /\ \A i \in 1..Len(blocks[c]) - 1 : Tail(blocks[c])[i] = blocks[c][i + 1]
        BY <1>1, <2>1
      <4>2. QED BY <4>1 DEF IdsIn
    <3>3. \A b \in IdsIn(blocks'[c]) : b \in DOMAIN block_metadata_'
      BY <1>1, <3>1, <3>2 DEF CallLinked, Exists
    <3>4. QED BY <3>1, <3>3 DEF CallLinked, Exists, IdsIn
  <2>2. CASE Return(c)
    BY <1>1, <2>2, IdleCallLinked DEF Return, ClientTypeOK
  <2>3. QED BY <1>4, <2>1, <2>2 DEF SequenceRollback, Remaining
<1>5. CASE pc[c] \in {"idle", "rewrite"}
  <2>1. blocks[c] = <<>>
    BY <1>1, <1>5 DEF CallLinked
  <2>2. blocks' = blocks /\ pc'[c] \in {"idle", "rewrite", "allocate"}
    <3>1. CASE WriteMetadata(c) \/ \E b \in held[c] : ReadMetadata(c, b)
      BY <1>1, <3>1 DEF WriteMetadata, ReadMetadata, ClientTypeOK
    <3>2. CASE \E l \in Layers, n \in 1..MaxSequence : AllocateSequence(c, l, n)
      BY <1>1, <3>2 DEF AllocateSequence, ClientTypeOK
    <3>3. CASE UNCHANGED local
      BY <1>5, <3>3 DEF local
    <3>4. QED
      BY <1>5, <3>1, <3>2, <3>3
      DEF ClientNext, AllocateBlock, DeallocateBlock, SequenceAllocate, SequenceLink,
          SequenceRollback, LockBlock, UnlockBlock, SetState, MigrateBlock, Defragment
  <2>3. QED BY <2>1, <2>2, IdleCallLinked
<1>6. CASE pc[c] \notin {"idle", "rewrite"}
  <2>1. SequenceAllocate(c) \/ SequenceLink(c) \/ SequenceRollback(c)
    BY <1>6
    DEF ClientNext, AllocateBlock, DeallocateBlock, AllocateSequence, LockBlock, UnlockBlock,
        MigrateBlock, ReadMetadata, WriteMetadata, Defragment
  <2>2. QED BY <1>2, <1>3, <1>4, <2>1
<1>7. QED BY <1>5, <1>6

\* A call that ends with its blocks has linked them.
LinkedOnReturn == \A c \in Clients : pc[c] = "link" /\ pc'[c] = "idle" => Linked(blocks[c])

LEMMA LinkStep ==
  Exclusive /\ PoolInv /\ LinkInv /\ "migrate" \notin Calls /\ [Next]_vars
    => LinkInv' /\ LinkedOnReturn
<1> SUFFICES ASSUME Exclusive, PoolInv, LinkInv, "migrate" \notin Calls, [Next]_vars
             PROVE  LinkInv' /\ LinkedOnReturn
  OBVIOUS
<1>1. CASE Initialize \/ Shutdown
  <2>1. /\ pc' = pc /\ blocks' = blocks
        /\ \A c \in Clients : pc[c] = "idle" /\ blocks[c] = <<>>
    BY <1>1 DEF Initialize, Shutdown, local, LinkInv, CallLinked
  <2>2. \A c \in Clients : CallLinked(c)'
    BY <2>1, IdleCallLinked
  <2>3. FreeUnlinked'
    <3>1. CASE Initialize
      <4>1. \A b \in DOMAIN block_metadata_' :
              \/ b \in DOMAIN block_metadata_ /\ block_metadata_'[b] = block_metadata_[b]
              \/ block_metadata_'[b].next = NoBlock
        BY <3>1, NewBlocksFree DEF FreshMetadata
      <4>2. QED BY <4>1 DEF LinkInv, FreeUnlinked, InUse, Exists
    <3>2. CASE Shutdown
      BY <3>2 DEF Shutdown, FreeUnlinked
    <3>3. QED BY <1>1, <3>1, <3>2
  <2>4. QED BY <2>1, <2>2, <2>3 DEF LinkInv, LinkedOnReturn
<1>2. CASE ResetStats \/ UNCHANGED vars
  <2>1. UNCHANGED <<block_metadata_, pc, blocks>>
    BY <1>2 DEF ResetStats, vars, pool, local
  <2>2. QED
    BY <2>1 DEF LinkInv, FreeUnlinked, CallLinked, Chain, InUse, Exists, IdsIn, LinkedOnReturn
<1>3. ASSUME NEW c \in Clients, ClientNext(c) PROVE LinkInv' /\ LinkedOnReturn
  <2>1. FreeUnlinked'
    BY <1>3, FreeUnlinkedStep DEF LinkInv
  <2>2. \A d \in Clients : CallLinked(d)'
    BY <1>3, OwnCallLinked, OthersCallLinked DEF LinkInv
  <2>3. ASSUME NEW d \in Clients, pc[d] = "link", pc'[d] = "idle" PROVE Linked(blocks[d])
    <3>1. d = c
      BY <1>3, <2>3, OthersKeep, PoolFacts
    <3>2. SequenceLink(d)
      BY <1>3, <2>3, <3>1
      DEF ClientNext, AllocateBlock, DeallocateBlock, AllocateSequence, SequenceAllocate,
          SequenceRollback, LockBlock, UnlockBlock, MigrateBlock, ReadMetadata, WriteMetadata,
          Defragment
    <3>3. Chain(block_metadata_', blocks[d], Len(blocks[d]))
      BY <3>2, SequenceLinks DEF LinkInv
    <3>4. QED BY <3>3 DEF Chain, Linked
  <2>4. QED BY <2>1, <2>2, <2>3 DEF LinkInv, LinkedOnReturn
<1>4. QED BY <1>1, <1>2, <1>3 DEF Next

LEMMA LinkStart == Init => LinkInv
<1> SUFFICES ASSUME Init PROVE LinkInv
  OBVIOUS
<1>1. DOMAIN block_metadata_ = {}
      /\ \A c \in Clients : pc[c] = "idle" /\ blocks[c] = <<>> /\ Len(blocks[c]) = 0
  BY DEF Init
<1>2. QED BY <1>1 DEF LinkInv, FreeUnlinked, CallLinked, IdsIn

\* A call of allocateSequence that returns blocks has linked each to the next,
\* though it writes the links without the mutex and other clients allocate,
\* free, lock and rewrite their blocks in between, when nobody migrates.
THEOREM SequencesAreLinked ==
  ASSUME Exclusive, "migrate" \notin Calls
  PROVE  Spec => SequenceLinked
<1>1. Exclusive /\ PoolInv /\ LinkInv /\ "migrate" \notin Calls /\ [Next]_vars
        => PoolInv' /\ LinkInv' /\ LinkedOnReturn
  BY PoolStep, LinkStep
<1>2. PoolInv /\ LinkInv /\ [Next]_vars => PoolInv' /\ LinkInv'
  BY <1>1
<1>3. PoolInv /\ LinkInv /\ [Next]_vars
        => [\A c \in Clients : pc[c] = "link" /\ pc'[c] = "idle" => Linked(blocks[c])]_vars
  BY <1>1 DEF LinkedOnReturn
<1>4. QED BY PoolInit, LinkStart, <1>2, <1>3, PTL DEF Spec, SequenceLinked

=============================================================================
