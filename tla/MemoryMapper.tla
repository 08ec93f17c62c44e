------------------------------ MODULE MemoryMapper ------------------------------
(***************************************************************************)
(* The memory mapper (src/allocator/memory_mapper.cpp): which tiers hold a *)
(* copy of a block, how many copies each tier has, and the space of the SSD*)
(* file, handed out first-fit from a list of freed ranges.                 *)
(*                                                                         *)
(* Every call is one critical section of mutex_.  allocateSSDSpace appends *)
(* the rest of a split range to the vector it iterates over; if the vector *)
(* has to grow, its iterator is invalid and what follows is undefined: the *)
(* model stops there (ruined).                                             *)
(*                                                                         *)
(* Abstracted: a location is whether it is valid; pointers and sizes of    *)
(* locations, and compression, which no code ever switches on.             *)
(***************************************************************************)
EXTENDS Integers, SequencesExt, MapOps

CONSTANTS
  MappedBlocks,
  RangeSizes,     \* sizes of SSD ranges asked for
  FileSize,       \* bound: the SSD space ever handed out
  MaxMapperCalls, \* bound: registrations
  MaxWipes        \* bound: calls of initialize and clear

ASSUME MapperAssumption ==
  /\ IsFiniteSet(MappedBlocks)
  /\ RangeSizes \subseteq Nat \ {0}
  /\ FileSize \in Nat /\ MaxMapperCalls \in Nat /\ MaxWipes \in Nat

MapTiers == {"HOT", "WARM", "COLD"}

VARIABLES
  mappings_,         \* id -> primary tier, tiers with a valid location
  tier_counts_,
  ssd_free_blocks_,  \* a vector of ranges, and its capacity
  ssd_capacity_,
  ssd_next_offset_,
  handedOut,         \* history: ranges the callers hold
  ruined,
  recounts,          \* history: registrations of a copy that was there already
  registrations, wipes

locations == <<mappings_, tier_counts_, recounts, registrations>>
space == <<ssd_free_blocks_, ssd_capacity_, ssd_next_offset_, handedOut, ruined>>
mapperVars == <<locations, space, wipes>>

FileRange == [offset : 0..FileSize, size : 1..FileSize]

MapperTypeOK ==
  /\ DOMAIN mappings_ \subseteq MappedBlocks
  /\ mappings_ \in [DOMAIN mappings_ -> [primary : MapTiers, valid : SUBSET MapTiers]]
  /\ tier_counts_ \in [MapTiers -> Nat]
  /\ ssd_free_blocks_ \in Seq(FileRange) /\ Len(ssd_free_blocks_) <= ssd_capacity_
  /\ ssd_next_offset_ \in 0..FileSize
  /\ handedOut \subseteq FileRange
  /\ ruined \in BOOLEAN

NoCopies == [t \in MapTiers |-> 0]

MapperInit ==
  /\ mappings_ = <<>> /\ tier_counts_ = NoCopies
  /\ ssd_free_blocks_ = <<>> /\ ssd_capacity_ = 0 /\ ssd_next_offset_ = 0
  /\ handedOut = {} /\ ruined = FALSE
  /\ recounts = NoCopies /\ registrations = 0 /\ wipes = 0

\* initialize, and clear, which leaves the base addresses alone: everything is
\* forgotten, the space the callers hold too.
Wipe ==
  /\ wipes < MaxWipes
  /\ wipes' = wipes + 1
  /\ mappings_' = <<>> /\ tier_counts_' = NoCopies
  /\ ssd_free_blocks_' = <<>> /\ ssd_next_offset_' = 0
  /\ handedOut' = {} /\ recounts' = NoCopies
  /\ UNCHANGED <<ssd_capacity_, ruined, registrations>>

-----------------------------------------------------------------------------
(* Locations *)

CopiesOf(b) == IF b \in DOMAIN mappings_ THEN mappings_[b].valid ELSE {}

\* The tier counts one copy more, whether it was there or not.
RegisterMapping(b, tier) ==
  /\ registrations < MaxMapperCalls
  /\ registrations' = registrations + 1
  /\ mappings_' = Added(mappings_, b, [primary |-> tier, valid |-> CopiesOf(b) \cup {tier}])
  /\ tier_counts_' = [tier_counts_ EXCEPT ![tier] = @ + 1]
  /\ recounts' = [recounts EXCEPT ![tier] = @ + (IF tier \in CopiesOf(b) THEN 1 ELSE 0)]
  /\ UNCHANGED <<space, wipes>>

\* Fault: the block leaves the count of its primary tier only.
PrimaryOnly(b) == {mappings_[b].primary}

LeavesTiers(b) == CopiesOf(b)

UnregisterMapping(b) ==
  /\ b \in DOMAIN mappings_
  /\ tier_counts_' = [t \in MapTiers |-> tier_counts_[t] - (IF t \in LeavesTiers(b) THEN 1 ELSE 0)]
  /\ mappings_' = Without(mappings_, {b})
  /\ UNCHANGED <<recounts, registrations, space, wipes>>

\* updateLocation; updateSSDLocation is this for COLD.
UpdateLocation(b, tier) ==
  /\ b \in DOMAIN mappings_ /\ tier \notin CopiesOf(b)
  /\ mappings_' = [mappings_ EXCEPT ![b].valid = @ \cup {tier}]
  /\ tier_counts_' = [tier_counts_ EXCEPT ![tier] = @ + 1]
  /\ UNCHANGED <<recounts, registrations, space, wipes>>

\* The tier need not hold a copy.
SetPrimaryTier(b, tier) ==
  /\ b \in DOMAIN mappings_
  /\ mappings_' = [mappings_ EXCEPT ![b].primary = tier]
  /\ UNCHANGED <<tier_counts_, recounts, registrations, space, wipes>>

-----------------------------------------------------------------------------
(* Space of the SSD file *)

\* push_back doubles the capacity when the vector is full.
Grown == IF Len(ssd_free_blocks_) < ssd_capacity_ THEN ssd_capacity_
         ELSE Greater(1, 2 * ssd_capacity_)

Fits(size) == {i \in DOMAIN ssd_free_blocks_ : ssd_free_blocks_[i].size >= size}
FirstFit(size) == CHOOSE i \in Fits(size) : \A j \in Fits(size) : i <= j

\* Fault: the rest keeps the offset of the whole.
RestFromStart(r, size) == [offset |-> r.offset, size |-> r.size - size]

RestOf(r, size) == [offset |-> r.offset + size, size |-> r.size - size]

ReuseRange(size) ==
  /\ Fits(size) # {}
  /\ LET i == FirstFit(size)
         r == ssd_free_blocks_[i]
         split == r.size > size
     IN IF split /\ Grown # ssd_capacity_
        THEN /\ ruined' = TRUE
             /\ UNCHANGED <<ssd_free_blocks_, ssd_capacity_, handedOut>>
        ELSE /\ ssd_free_blocks_' =
                  RemoveAt(IF split THEN Append(ssd_free_blocks_, RestOf(r, size))
                           ELSE ssd_free_blocks_, i)
             /\ handedOut' = handedOut \cup {[offset |-> r.offset, size |-> size]}
             /\ UNCHANGED <<ssd_capacity_, ruined>>
  /\ UNCHANGED <<locations, ssd_next_offset_, wipes>>

NewRange(size) ==
  /\ Fits(size) = {} /\ ssd_next_offset_ + size <= FileSize
  /\ handedOut' = handedOut \cup {[offset |-> ssd_next_offset_, size |-> size]}
  /\ ssd_next_offset_' = ssd_next_offset_ + size
  /\ UNCHANGED <<locations, ssd_free_blocks_, ssd_capacity_, ruined, wipes>>

\* Callers free what they hold, once.
FreeRange(r) ==
  /\ r \in handedOut
  /\ handedOut' = handedOut \ {r}
  /\ ssd_free_blocks_' = Append(ssd_free_blocks_, r)
  /\ ssd_capacity_' = Grown
  /\ UNCHANGED <<locations, ssd_next_offset_, ruined, wipes>>

-----------------------------------------------------------------------------
MapperNext ==
  /\ ~ruined
  /\ \/ Wipe
     \/ \E b \in MappedBlocks :
          \/ UnregisterMapping(b)
          \/ \E t \in MapTiers : RegisterMapping(b, t) \/ UpdateLocation(b, t) \/ SetPrimaryTier(b, t)
     \/ \E size \in RangeSizes : ReuseRange(size) \/ NewRange(size)
     \/ \E r \in handedOut : FreeRange(r)

MapperSpec == MapperInit /\ [][MapperNext]_mapperVars

-----------------------------------------------------------------------------
(* Properties *)

\* Each tier counts its copies exactly, through updates, moves of the primary
\* tier and removals in any order; only registering a copy that is there already
\* counts it once too often, for good.
TierCountsExact ==
  tier_counts_ = [t \in MapTiers |->
                    Cardinality({b \in DOMAIN mappings_ : t \in mappings_[b].valid}) + recounts[t]]

Bytes(r) == r.offset .. (r.offset + r.size - 1)

\* No byte of the SSD file is handed out twice, or handed out and free, and none
\* below the end is lost, for any sequence of allocations, splits and frees up to
\* the first split of which the vector grows under its iterator.  (That may be the
\* first split of all: a vector of one range is full.  Its effect is undefined, and
\* the property does not speak of it or of what follows.)
SpaceDisjoint ==
  LET free == {ssd_free_blocks_[i] : i \in DOMAIN ssd_free_blocks_}
  IN ~ruined =>
       /\ IsInjective(ssd_free_blocks_) /\ free \cap handedOut = {}
       /\ \A r, s \in free \cup handedOut : r # s => Bytes(r) \cap Bytes(s) = {}
       /\ UNION {Bytes(r) : r \in free \cup handedOut} = 0..(ssd_next_offset_ - 1)

=============================================================================
