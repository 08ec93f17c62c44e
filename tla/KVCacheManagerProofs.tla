------------------------- MODULE KVCacheManagerProofs -------------------------
(***************************************************************************)
(* The facade's records of the blocks agree with the allocator's and the   *)
(* evaluator's, for any number of blocks, handles and clients, and the     *)
(* facade uses the evaluator only as HeatEvaluator describes.              *)
(***************************************************************************)
EXTENDS KVCacheManager, HeatEvaluatorProofs, FiniteSetTheorems, SequenceTheorems

Owned(h) == {b \in DOMAIN block_to_handle_ : block_to_handle_[b] = h}

\* A list names once each exactly the blocks of a handle.
Lists(list, h) == IsInjective(list) /\ Range(list) = Owned(h)

Mutexed == {"allocate", "extend", "deallocate"}

\* handle_mutex_ is held by the client inside a call that takes it, and only
\* between create and destroy is anybody inside a call.
CallsInv ==
  /\ \A c \in Clients : cpc[c] \in Mutexed <=> handle_mutex_ = c
  /\ \A c \in Clients : cpc[c] \in Mutexed => call[c].handle \in Handles
  /\ \A c \in Clients : cpc[c] \in {"allocate", "extend"} => call[c].num_layers \in LayerCounts
  /\ owner # "run" => \A c \in Clients : cpc[c] = "idle"
  /\ owner = "create" => /\ handles_ = <<>> /\ block_to_handle_ = <<>> /\ Registered = {}

\* handles_ still has the handle whose blocks are being freed.
Deallocating(h) == \E c \in Clients : cpc[c] = "deallocate" /\ call[c].handle = h

\* OwnersAgree at every step of a call: the list that agrees with the owners is
\* the handle's, or the call's own while it allocates or frees the handle.
OwnersInv ==
  /\ Registered = DOMAIN block_to_handle_
  /\ IsInjective(free_blocks) /\ Range(free_blocks) = Blocks \ DOMAIN block_to_handle_
  /\ \A b \in DOMAIN block_to_handle_ : block_to_handle_[b] < next_handle_
  /\ \A h \in DOMAIN handles_ : /\ h < next_handle_
                                /\ ~Deallocating(h) => Lists(handles_[h].blocks, h)
  /\ \A c \in Clients :
       /\ cpc[c] \in {"extend", "deallocate"} => call[c].handle \in DOMAIN handles_
       /\ cpc[c] = "allocate" => /\ call[c].handle < next_handle_
                                 /\ call[c].handle \notin DOMAIN handles_
       /\ cpc[c] \in {"allocate", "deallocate"} => Lists(call[c].blocks, call[c].handle)

ManagerInv ==
  /\ HeatInv /\ ManagerTypeOK /\ CallsInv
  /\ owner = "run" => OwnersInv

-----------------------------------------------------------------------------
(* Lists of blocks *)

\* Taking the first of a list without duplicates.
LEMMA TailUnique ==
  ASSUME NEW S, NEW s \in Seq(S), s # <<>>, IsInjective(s)
  PROVE  /\ Head(s) \in S /\ Head(s) \in Range(s)
         /\ Tail(s) \in Seq(S) /\ IsInjective(Tail(s))
         /\ Range(Tail(s)) = Range(s) \ {Head(s)}
<1> DEFINE t == Tail(s)
<1>1. /\ t \in Seq(S) /\ Head(s) \in S /\ Head(s) = s[1] /\ Len(s) \in Nat \ {0}
      /\ DOMAIN s = 1..Len(s) /\ DOMAIN t = 1..(Len(s) - 1)
  BY HeadTailProperties, LenProperties, EmptySeq
<1>2. \A i \in 1..(Len(s) - 1) : t[i] = s[i + 1]
  BY <1>1, HeadTailProperties
<1> HIDE DEF t
<1>3. IsInjective(t)
  <2>1. \A i \in 1..(Len(s) - 1) : i \in Int /\ i + 1 \in DOMAIN s
    BY <1>1
  <2>2. \A i, j \in 1..(Len(s) - 1) : t[i] = t[j] => i + 1 = j + 1
    BY <1>2, <2>1 DEF IsInjective
  <2>3. QED BY <1>1, <2>1, <2>2 DEF IsInjective
<1>4. 1 \in DOMAIN s
  BY <1>1
<1>5. ASSUME NEW x \in Range(t) PROVE x \in Range(s) \ {Head(s)}
  <2>1. PICK i \in 1..(Len(s) - 1) : x = t[i]
    BY <1>1 DEF Range
  <2>2. i + 1 \in DOMAIN s /\ i + 1 # 1 /\ x = s[i + 1]
    BY <1>1, <1>2, <2>1
  <2>3. QED BY <1>1, <1>4, <2>2 DEF Range, IsInjective
<1>6. ASSUME NEW x \in Range(s) \ {Head(s)} PROVE x \in Range(t)
  <2>1. PICK i \in DOMAIN s : x = s[i] /\ i # 1
    BY <1>1 DEF Range
  <2>2. i - 1 \in DOMAIN t /\ x = t[i - 1]
    BY <1>1, <1>2, <2>1
  <2>3. QED BY <2>2 DEF Range
<1>7. Range(t) = Range(s) \ {Head(s)} /\ Head(s) \in Range(s)
  BY <1>1, <1>4, <1>5, <1>6 DEF Range
<1>8. QED BY <1>1, <1>3, <1>7 DEF t

\* Appending what a list without duplicates lacks.
LEMMA AppendUnique ==
  ASSUME NEW S, NEW s \in Seq(S), NEW x \in S, x \notin Range(s), IsInjective(s)
  PROVE  /\ Append(s, x) \in Seq(S) /\ IsInjective(Append(s, x))
         /\ Range(Append(s, x)) = Range(s) \cup {x}
<1> DEFINE t == Append(s, x)
<1>1. /\ t \in Seq(S) /\ Len(s) \in Nat
      /\ DOMAIN s = 1..Len(s) /\ DOMAIN t = 1..(Len(s) + 1)
  BY AppendProperties, LenProperties
<1>2. (\A i \in 1..Len(s) : t[i] = s[i]) /\ t[Len(s) + 1] = x
  BY AppendProperties
<1> HIDE DEF t
<1>3. \A i \in 1..Len(s) : t[i] # x
  BY <1>1, <1>2 DEF Range
<1>4. \A i : i \in 1..(Len(s) + 1) <=> i \in 1..Len(s) \/ i = Len(s) + 1
  BY <1>1
<1>5. IsInjective(t)
  BY <1>1, <1>2, <1>3, <1>4 DEF IsInjective
<1>6. Range(t) = Range(s) \cup {x}
  BY <1>1, <1>2, <1>4 DEF Range
<1>7. QED BY <1>1, <1>5, <1>6 DEF t

\* The allocator can come up with its blocks in some order, each of them once.
LEMMA SomeOrder ==
  LET order == CHOOSE s \in [1..Cardinality(Blocks) -> Blocks] : Range(s) = Blocks
  IN  order \in Seq(Blocks) /\ IsInjective(order) /\ Range(order) = Blocks
<1> DEFINE n == Cardinality(Blocks)
           order == CHOOSE s \in [1..n -> Blocks] : Range(s) = Blocks
<1>1. n \in Nat /\ ExistsBijection(1..n, Blocks)
  BY HeatAssumption, FS_CardinalityType
<1>2. \E s \in [1..n -> Blocks] : Range(s) = Blocks
  BY <1>1 DEF ExistsBijection, Bijection, Surjection, Range
<1>3. order \in [1..n -> Blocks] /\ Range(order) = Blocks
  BY <1>2
<1> HIDE DEF order
<1>4. order \in Surjection(1..n, Blocks)
  BY <1>3 DEF Surjection, Range
<1>5. IsFiniteSet(1..n) /\ Cardinality(1..n) = n
  <2>1. \A a, z \in Int : /\ IsFiniteSet(a..z)
                          /\ Cardinality(a..z) = IF a > z THEN 0 ELSE z - a + 1
    BY FS_Interval
  <2>2. n \in Int /\ 1 \in Int
    BY <1>1
  <2>3. QED BY <1>1, <2>1, <2>2
<1>6. order \in Injection(1..n, Blocks)
  <2> HIDE DEF n
  <2>1. Cardinality(1..n) = Cardinality(Blocks)
    BY <1>5 DEF n
  <2>2. QED BY <1>4, <1>5, <2>1, FS_SurjSameCardinalityImpliesInj
<1>7. order \in Seq(Blocks)
  BY <1>1, <1>3
<1>8. QED BY <1>3, <1>6, <1>7 DEF Injection, order

-----------------------------------------------------------------------------
(* The evaluator *)

\* A step of the facade is a step of the evaluator, or leaves it alone.
LEMMA UsesEvaluator ==
  ASSUME ManagerInv, [ManagerNext]_managerVars
  PROVE  [HeatNext]_heatVars
<1> USE DEF heatVars
<1>1. CASE Create \/ Destroy \/ Joined
  BY <1>1 DEF Create, Destroy, Joined
<1>2. ASSUME NEW u \in Updaters, BeginUpdate(u) \/ EndUpdate(u) PROVE HeatNext
  BY <1>2 DEF HeatNext, UpdateStep
<1>3. ASSUME NEW u \in Updaters, Updating(u) PROVE HeatNext
  BY <1>3 DEF Updating, HeatNext, UpdateStep
<1>4. Background \in Updaters /\ Clients \subseteq Updaters
  BY ManagerAssumption
<1>5. CASE BackgroundStep
  BY <1>2, <1>3, <1>4, <1>5
  DEF BackgroundStep, BackgroundStarts, BackgroundUpdated, BackgroundRecommends, BackgroundEnds
<1>6. ASSUME NEW c \in Clients, Begin(c) PROVE HeatNext \/ UNCHANGED heatVars
  BY <1>2, <1>4, <1>6
  DEF Begin, BeginAllocate, BeginExtend, BeginDeallocate, BeginTrigger, accessBlock, Statistics,
      setAccessCallback, UseMonitor
<1>7. ASSUME NEW c \in Clients, Continue(c) PROVE HeatNext \/ UNCHANGED heatVars
  <2>1. CASE AllocateOne(c)
    <3>1. Head(free_blocks) \in Blocks /\ RegisterBlock(Head(free_blocks))
      BY <2>1, HeadTailProperties DEF AllocateOne, ManagerInv, ManagerTypeOK
    <3>2. QED BY <3>1 DEF HeatNext
  <2>2. CASE DeallocateOne(c)
    <3>1. call[c].blocks \in Seq(Blocks) /\ call[c].blocks # <<>>
      BY <2>2 DEF DeallocateOne, ManagerInv, ManagerTypeOK, Call
    <3>2. Head(call[c].blocks) \in Blocks /\ UnregisterBlock(Head(call[c].blocks))
      BY <2>2, <3>1, HeadTailProperties DEF DeallocateOne
    <3>3. QED BY <3>2 DEF HeatNext
  <2>3. CASE EndAllocate(c)
    <3>1. call[c].num_layers \in LayerCounts /\ SetNumLayers(call[c].num_layers)
      BY <2>3 DEF EndAllocate, ManagerInv, CallsInv
    <3>2. QED BY <3>1 DEF HeatNext
  <2>4. QED
    BY <1>2, <1>3, <1>4, <1>7, <2>1, <2>2, <2>3
    DEF Continue, AllocationThrows, EndExtend, EndDeallocate, TriggerUpdated, EndTrigger
<1>8. QED
  BY <1>1, <1>3, <1>5, <1>6, <1>7 DEF ManagerNext, managerVars

-----------------------------------------------------------------------------
(* Steps that leave the ownership alone *)

LEMMA NoCallType == NoCall \in Call
<1>1. <<>> \in Seq(Blocks) /\ 0 \in 0..MaxHandles
  BY EmptySeq, ManagerAssumption
<1>2. QED BY <1>1 DEF NoCall, Call, INVALID_HANDLE

LEMMA ManagerStart == ManagerInit => ManagerInv
<1> SUFFICES ASSUME ManagerInit PROVE ManagerInv
  OBVIOUS
<1>1. HeatInv
  BY HeatStart DEF ManagerInit
<1>2. NoCall \in Call
  BY NoCallType
<1>3. /\ DOMAIN handles_ = {} /\ handles_ \in [DOMAIN handles_ -> HandleInfo]
      /\ DOMAIN block_to_handle_ = {} /\ Range(block_to_handle_) = {}
      /\ free_blocks \in Seq(Blocks)
  BY EmptySeq DEF ManagerInit, Range
<1>4. ManagerTypeOK
  <2>1. lockfree_monitor_ \in BOOLEAN
    BY Zenon DEF ManagerInit, LockfreeChosen
  <2>2. next_handle_ \in 1..(MaxHandles + 1)
    BY ManagerAssumption DEF ManagerInit, FirstHandle
  <2>3. call \in [Clients -> Call]
    BY <1>2 DEF ManagerInit
  <2>4. QED
    BY <1>1, <1>3, <2>1, <2>2, <2>3 DEF ManagerInit, ManagerTypeOK, HeatInv
<1>5. CallsInv
  BY <1>3, ManagerAssumption DEF ManagerInit, CallsInv, Mutexed, HeatInit, Registered
<1>6. QED BY <1>1, <1>4, <1>5 DEF ManagerInv, ManagerInit

\* Where the ownership, the mutex and the calls that hold it stay, so do the
\* invariants.
LEMMA QuietStep ==
  ASSUME ManagerInv, HeatInv', UNCHANGED <<lifecycle, ownership, handle_mutex_, call>>,
         Registered' = Registered, crashed' \in BOOLEAN,
         cpc' \in [Clients -> {"idle", "allocate", "extend", "deallocate", "update", "recommend"}],
         \A c \in Clients : \/ cpc'[c] = cpc[c]
                            \/ cpc[c] \notin Mutexed /\ cpc'[c] \notin Mutexed /\ owner = "run",
         bpc' \in {"none", "check", "update", "recommend", "ended"},
         submitted' \subseteq Task
  PROVE  ManagerInv'
<1> USE DEF lifecycle, ownership
<1>1. ManagerTypeOK'
  BY DEF ManagerInv, ManagerTypeOK, HeatInv, Range
<1>2. \A c \in Clients : /\ cpc'[c] \in Mutexed <=> cpc[c] \in Mutexed
                         /\ cpc[c] \in Mutexed => cpc'[c] = cpc[c]
  OBVIOUS
<1>3. \A c \in Clients, pc \in Mutexed : cpc'[c] = pc <=> cpc[c] = pc
  BY <1>2
<1>4. CallsInv'
  BY <1>2, <1>3, Zenon DEF ManagerInv, CallsInv, Mutexed
<1>5. ASSUME OwnersInv PROVE OwnersInv'
  <2>1. \A h : Owned(h)' = Owned(h) /\ Deallocating(h)' = Deallocating(h)
    BY <1>3, Zenon DEF Owned, Deallocating, Mutexed
  <2>2. \A list, h : Lists(list, h)' = Lists(list, h)
    BY DEF Lists, Owned
  <2>3. QED BY <1>3, <1>5, <2>1, <2>2 DEF OwnersInv, Mutexed
<1>6. QED BY <1>1, <1>4, <1>5 DEF ManagerInv

\* What the evaluator recommends becomes tasks of the engine.
LEMMA RecommendedType ==
  ASSUME HeatTypeOK, NEW from \in Tiers, NEW to \in Tiers, NEW rec \in Recommended(from, to)
  PROVE  [rec EXCEPT !.priority = Lesser(@ \div 25, 3)] \in Task
<1>1. PICK b \in Registered :
        rec = [block |-> b, from |-> from, to |-> to,
               priority |-> MigrationPriority(block_heat_info_[b])]
  BY DEF Recommended
<1>2. b \in Blocks /\ block_heat_info_[b] \in Entry
  BY DEF HeatTypeOK
<1>3. MigrationPriority(block_heat_info_[b]) \in Nat
  BY <1>2, HeatAssumption DEF MigrationPriority, Lesser, Entry
<1>4. \A n \in Nat : Lesser(n \div 25, 3) \in 0..3
  BY DEF Lesser
<1>5. QED BY <1>1, <1>2, <1>3, <1>4 DEF Task

LEMMA QueuedType ==
  ASSUME HeatTypeOK, submitted \subseteq Task, NEW recs,
         recs \subseteq UNION {Recommended(from, to) : from \in Tiers, to \in Tiers},
         processHeatRecommendations(recs)
  PROVE  submitted' \subseteq Task
<1>1. \A rec \in recs : [rec EXCEPT !.priority = Lesser(@ \div 25, 3)] \in Task
  <2> SUFFICES ASSUME NEW rec \in recs
               PROVE  [rec EXCEPT !.priority = Lesser(@ \div 25, 3)] \in Task
    OBVIOUS
  <2>1. PICK from \in Tiers, to \in Tiers : rec \in Recommended(from, to)
    OBVIOUS
  <2>2. QED BY <2>1, RecommendedType
<1>2. QED BY <1>1, Zenon DEF processHeatRecommendations

\* The updates keep the set of registered blocks.
LEMMA SameBlocks ==
  ASSUME NEW u, BeginUpdate(u) \/ EndUpdate(u) \/ Updating(u)
  PROVE  Registered' = Registered
BY DEF BeginUpdate, EndUpdate, Updating, ComputeHeat, WriteBack, table, Registered

LEMMA UpdateSteps ==
  ASSUME ManagerInv, HeatInv',
         \/ BackgroundStep
         \/ \E c \in Clients : \/ Updating(c) \/ TriggerUpdated(c) \/ EndTrigger(c)
                               \/ BeginTrigger(c) \/ UseMonitor(c)
  PROVE  ManagerInv'
<1> USE DEF lifecycle, ownership, client
<1>1. /\ HeatTypeOK /\ submitted \subseteq Task /\ crashed \in BOOLEAN
      /\ cpc \in [Clients -> {"idle", "allocate", "extend", "deallocate", "update", "recommend"}]
      /\ bpc \in {"none", "check", "update", "recommend", "ended"}
  BY DEF ManagerInv, ManagerTypeOK
<1>2. CASE BackgroundStarts \/ BackgroundUpdated \/ BackgroundEnds
  <2>1. Registered' = Registered
    BY <1>2, SameBlocks
    DEF BackgroundStarts, BackgroundUpdated, BackgroundEnds, heatVars, table, Registered
  <2>2. /\ UNCHANGED <<lifecycle, ownership, crashed, client, submitted>>
        /\ bpc' \in {"none", "check", "update", "recommend", "ended"}
    BY <1>2 DEF BackgroundStarts, BackgroundUpdated, BackgroundEnds
  <2>3. QED BY <1>1, <2>1, <2>2, QuietStep
<1>3. CASE BackgroundRecommends
  <2>1. /\ UNCHANGED <<heatVars, lifecycle, ownership, crashed, client>> /\ bpc' = "check"
        /\ processHeatRecommendations(Recommended("HOT", "WARM"))
    BY <1>3 DEF BackgroundRecommends
  <2>2. Registered' = Registered
    BY <2>1 DEF heatVars, table, Registered
  <2>3. submitted' \subseteq Task
    <3>1. Recommended("HOT", "WARM")
            \subseteq UNION {Recommended(from, to) : from \in Tiers, to \in Tiers}
      BY DEF Tiers
    <3>2. QED BY <1>1, <2>1, <3>1, QueuedType
  <2>4. QED BY <1>1, <2>1, <2>2, <2>3, QuietStep
<1>4. ASSUME NEW u \in Updaters, Updating(u) PROVE ManagerInv'
  <2>1. Registered' = Registered /\ UNCHANGED <<lifecycle, crashed, ownership, client, bpc, submitted>>
    BY <1>4, SameBlocks DEF Updating
  <2>2. QED BY <1>1, <2>1, QuietStep
<1>5. ASSUME NEW c \in Clients, BeginTrigger(c) \/ TriggerUpdated(c) PROVE ManagerInv'
  <2>1. /\ UNCHANGED <<lifecycle, ownership, crashed, handle_mutex_, call, bpc, submitted>>
        /\ Registered' = Registered
    BY <1>5, SameBlocks DEF BeginTrigger, TriggerUpdated
  <2>2. \E pc \in {"update", "recommend"} : cpc' = [cpc EXCEPT ![c] = pc]
    BY <1>5 DEF BeginTrigger, TriggerUpdated
  <2>3. cpc[c] \notin Mutexed /\ owner = "run"
    BY <1>5 DEF BeginTrigger, TriggerUpdated, Mutexed, ManagerInv, CallsInv
  <2>4. QED BY <1>1, <2>1, <2>2, <2>3, QuietStep DEF Mutexed
<1>6. ASSUME NEW c \in Clients, EndTrigger(c) PROVE ManagerInv'
  <2>1. /\ UNCHANGED <<heatVars, lifecycle, crashed, ownership, handle_mutex_, call, bpc>>
        /\ cpc[c] \notin Mutexed /\ owner = "run"
    BY <1>6 DEF EndTrigger, Mutexed, ManagerInv, CallsInv
  <2>2. Registered' = Registered /\ cpc' = [cpc EXCEPT ![c] = "idle"]
    BY <1>6, <2>1 DEF EndTrigger, heatVars, table, Registered
  <2>3. submitted' \subseteq Task
    <3>1. Recommended("HOT", "WARM") \cup Recommended("WARM", "COLD")
            \cup Recommended("WARM", "HOT") \cup Recommended("COLD", "WARM")
            \subseteq UNION {Recommended(from, to) : from \in Tiers, to \in Tiers}
      BY DEF Tiers
    <3>2. QED BY <1>1, <1>6, <3>1, QueuedType DEF EndTrigger
  <2>4. QED BY <1>1, <2>1, <2>2, <2>3, QuietStep DEF Mutexed
<1>7. ASSUME NEW c \in Clients, UseMonitor(c) PROVE ManagerInv'
  <2>1. Registered' = Registered
    BY <1>7 DEF UseMonitor, heatVars, table, Registered
  <2>2. QED BY <1>1, <1>7, <2>1, QuietStep DEF UseMonitor
<1>8. QED
  BY <1>2, <1>3, <1>4, <1>5, <1>6, <1>7, ManagerAssumption DEF BackgroundStep

-----------------------------------------------------------------------------
(* The lifecycle *)

LEMMA LifecycleStep ==
  ASSUME ManagerInv, HeatInv', Create \/ Destroy \/ Joined
  PROVE  ManagerInv'
<1> USE DEF client
<1>1. CASE Create
  <2> DEFINE order == CHOOSE s \in [1..Cardinality(Blocks) -> Blocks] : Range(s) = Blocks
  <2>1. /\ owner = "create" /\ owner' = "run" /\ free_blocks' = order /\ bpc' = "check"
        /\ initialized_' = TRUE /\ running_' = TRUE
        /\ UNCHANGED <<heatVars, lockfree_monitor_, crashed, handles_, next_handle_,
                       block_to_handle_, client, submitted>>
    BY <1>1 DEF Create
  <2>2. order \in Seq(Blocks) /\ IsInjective(order) /\ Range(order) = Blocks
    BY SomeOrder
  <2> HIDE DEF order
  <2>3. ManagerTypeOK'
    BY <2>1, <2>2 DEF ManagerInv, ManagerTypeOK, HeatInv, Range
  <2>4. /\ \A c \in Clients : cpc[c] = "idle"
        /\ DOMAIN handles_ = {} /\ DOMAIN block_to_handle_ = {} /\ Registered = {}
    BY <2>1 DEF ManagerInv, CallsInv
  <2>5. Registered' = {}
    BY <2>1, <2>4 DEF heatVars, table, Registered
  <2>6. CallsInv'
    BY <2>1 DEF ManagerInv, CallsInv
  <2>7. OwnersInv'
    BY <2>1, <2>2, <2>4, <2>5 DEF OwnersInv
  <2>8. QED BY <2>3, <2>6, <2>7 DEF ManagerInv
<1>2. CASE Destroy
  <2>1. ManagerTypeOK'
    BY <1>2 DEF Destroy, ownership, ManagerInv, ManagerTypeOK, HeatInv, Range
  <2>2. CallsInv'
    BY <1>2 DEF Destroy, ownership, ManagerInv, CallsInv
  <2>3. QED BY <1>2, <2>1, <2>2 DEF ManagerInv, Destroy
<1>3. CASE Joined
  <2>1. /\ handles_' = <<>> /\ block_to_handle_' = <<>> /\ free_blocks' = <<>>
        /\ owner = "join" /\ owner' = "destroyed" /\ initialized_' = FALSE
        /\ UNCHANGED <<heatVars, running_, lockfree_monitor_, crashed, next_handle_, client,
                       bpc, submitted>>
    BY <1>3 DEF Joined
  <2>2. /\ DOMAIN handles_' = {} /\ handles_' \in [{} -> HandleInfo]
        /\ DOMAIN block_to_handle_' = {} /\ Range(block_to_handle_)' = {}
        /\ free_blocks' \in Seq(Blocks)
    BY <2>1, EmptySeq DEF Range
  <2>3. ManagerTypeOK'
    BY <2>1, <2>2 DEF ManagerInv, ManagerTypeOK, HeatInv
  <2>4. CallsInv'
    BY <2>1 DEF ManagerInv, CallsInv
  <2>5. QED BY <2>1, <2>3, <2>4 DEF ManagerInv
<1>4. QED BY <1>1, <1>2, <1>3

-----------------------------------------------------------------------------
(* Calls that take handle_mutex_ *)

\* Nobody holds it: a call begins.
LEMMA AcquireStep ==
  ASSUME ManagerInv, HeatInv', NEW c \in Clients, NEW pc \in Mutexed, NEW request \in Call,
         Acquired(c, pc, request), request.handle \in Handles,
         pc \in {"allocate", "extend"} => request.num_layers \in LayerCounts,
         pc \in {"extend", "deallocate"} => request.handle \in DOMAIN handles_,
         pc = "allocate" => request.handle < next_handle_' /\ request.handle \notin DOMAIN handles_,
         OwnersInv /\ pc \in {"allocate", "deallocate"} => Lists(request.blocks, request.handle),
         next_handle_' \in 1..(MaxHandles + 1), next_handle_ <= next_handle_',
         UNCHANGED <<heatVars, lifecycle, crashed, handles_, block_to_handle_, free_blocks,
                     bpc, submitted>>
  PROVE  ManagerInv'
<1> USE DEF lifecycle
<1>1. /\ owner = "run" /\ handle_mutex_ = Unheld /\ handle_mutex_' = c
      /\ cpc \in [Clients -> {"idle", "allocate", "extend", "deallocate", "update", "recommend"}]
      /\ call \in [Clients -> Call] /\ OwnersInv
      /\ cpc' = [cpc EXCEPT ![c] = pc] /\ call' = [call EXCEPT ![c] = request]
  BY DEF Acquired, ManagerInv, ManagerTypeOK
<1>2. \A d \in Clients : cpc[d] \notin Mutexed
  BY <1>1, ManagerAssumption DEF ManagerInv, CallsInv
<1>3. /\ cpc'[c] = pc /\ call'[c] = request
      /\ \A d \in Clients \ {c} : cpc'[d] = cpc[d] /\ cpc'[d] \notin Mutexed
  BY <1>1, <1>2
<1>4. ManagerTypeOK'
  BY <1>1 DEF ManagerInv, ManagerTypeOK, HeatInv, Range, Mutexed
<1>5. CallsInv'
  BY <1>1, <1>3 DEF CallsInv, Mutexed
<1>6. \A h : ~Deallocating(h)
  BY <1>2 DEF Deallocating, Mutexed
<1>7. \A list, h : Lists(list, h)' = Lists(list, h)
  BY DEF Lists, Owned
<1>8. Registered' = Registered
  BY DEF heatVars, table, Registered
<1>9. \A h \in DOMAIN handles_ : h < next_handle_ /\ h \in Int /\ Lists(handles_[h].blocks, h)
  BY <1>1, <1>6 DEF OwnersInv, ManagerInv, ManagerTypeOK, Handles
<1>10. \A b \in DOMAIN block_to_handle_ : block_to_handle_[b] < next_handle_
                                        /\ block_to_handle_[b] \in Int
  BY <1>1 DEF OwnersInv, ManagerInv, ManagerTypeOK, Handles, Range
<1>11. next_handle_ \in Int /\ next_handle_' \in Int
  BY DEF ManagerInv, ManagerTypeOK
<1>12. /\ \A h \in DOMAIN handles_ : h < next_handle_'
       /\ \A b \in DOMAIN block_to_handle_ : block_to_handle_[b] < next_handle_'
  BY <1>9, <1>10, <1>11
<1>13. \A d \in Clients :
         /\ cpc'[d] \in {"extend", "deallocate"} => call'[d].handle \in DOMAIN handles_
         /\ cpc'[d] = "allocate" => /\ call'[d].handle < next_handle_'
                                    /\ call'[d].handle \notin DOMAIN handles_
         /\ cpc'[d] \in {"allocate", "deallocate"} => Lists(call'[d].blocks, call'[d].handle)
  BY <1>1, <1>3 DEF Mutexed
<1>14. OwnersInv'
  BY <1>1, <1>7, <1>8, <1>9, <1>12, <1>13 DEF OwnersInv
<1>15. QED BY <1>4, <1>5, <1>14 DEF ManagerInv

LEMMA BeginStep ==
  ASSUME ManagerInv, HeatInv', NEW c \in Clients,
         \/ \E shape \in Shapes : \/ BeginAllocate(c, shape)
                                  \/ \E h \in Handles : BeginExtend(c, h, shape[2])
         \/ \E h \in Handles : BeginDeallocate(c, h)
  PROVE  ManagerInv'
<1>1. <<>> \in Seq(Blocks) /\ IsInjective(<<>>) /\ Range(<<>>) = {}
  BY EmptySeq DEF IsInjective, Range
<1>2. next_handle_ \in 1..(MaxHandles + 1) /\ MaxHandles \in Nat
  BY ManagerAssumption DEF ManagerInv, ManagerTypeOK
<1>3. \A n, m \in Nat : n * m \in Nat
  OBVIOUS
<1>4. ASSUME NEW shape \in Shapes, BeginAllocate(c, shape) PROVE ManagerInv'
  <2> DEFINE request == [handle |-> next_handle_, num_layers |-> shape[1], extra |-> shape[2],
                         left |-> shape[1] * shape[2], blocks |-> <<>>]
  <2>1. shape[1] \in LayerCounts /\ shape[1] \in Nat /\ shape[2] \in Nat
    BY ManagerAssumption, HeatAssumption
  <2>2. next_handle_ \in Handles /\ next_handle_' = next_handle_ + 1
    BY <1>2, <1>4 DEF BeginAllocate, Handles
  <2>3. request \in Call /\ request.handle = next_handle_ /\ request.num_layers = shape[1]
        /\ request.blocks = <<>>
    BY <1>1, <1>2, <1>3, <2>1, <2>2 DEF Call, Handles
  <2>4. Acquired(c, "allocate", request)
        /\ UNCHANGED <<heatVars, lifecycle, crashed, handles_, block_to_handle_, free_blocks,
                       bpc, submitted>>
    BY <1>4 DEF BeginAllocate
  <2> HIDE DEF request
  <2>5. /\ next_handle_' \in 1..(MaxHandles + 1) /\ next_handle_ <= next_handle_'
        /\ next_handle_ < next_handle_' /\ next_handle_ \in Int
    BY <1>2, <2>2 DEF Handles
  <2>6. ASSUME OwnersInv PROVE next_handle_ \notin DOMAIN handles_ /\ Owned(next_handle_) = {}
    BY <2>5, <2>6 DEF OwnersInv, Owned
  <2>7. OwnersInv
    BY <2>4 DEF Acquired, ManagerInv
  <2>8. Lists(request.blocks, request.handle)
    BY <1>1, <2>3, <2>6, <2>7 DEF Lists
  <2>9. QED
    BY <2>1, <2>2, <2>3, <2>4, <2>5, <2>6, <2>7, <2>8, AcquireStep DEF Mutexed
<1>5. ASSUME NEW shape \in Shapes, NEW h \in Handles, BeginExtend(c, h, shape[2])
      PROVE  ManagerInv'
  <2> DEFINE request == [handle |-> h, num_layers |-> handles_[h].num_layers, extra |-> shape[2],
                         left |-> handles_[h].num_layers * shape[2], blocks |-> <<>>]
  <2>1. h \in DOMAIN handles_ /\ handles_[h].num_layers \in LayerCounts /\ shape[2] \in Nat
    BY <1>5, ManagerAssumption DEF BeginExtend, ManagerInv, ManagerTypeOK, HandleInfo
  <2>2. handles_[h].num_layers \in Nat
    BY <2>1, HeatAssumption
  <2>3. h \in 0..MaxHandles
    BY <1>2 DEF Handles
  <2>4. request \in Call /\ request.handle = h /\ request.num_layers \in LayerCounts
    BY <1>1, <1>3, <2>1, <2>2, <2>3 DEF Call
  <2>5. Acquired(c, "extend", request)
        /\ UNCHANGED <<heatVars, lifecycle, crashed, ownership, bpc, submitted>>
    BY <1>5 DEF BeginExtend
  <2> HIDE DEF request
  <2>6. next_handle_' = next_handle_
    BY <2>5 DEF ownership
  <2>7. QED BY <1>2, <2>1, <2>4, <2>5, <2>6, AcquireStep DEF Mutexed, ownership
<1>6. ASSUME NEW h \in Handles, BeginDeallocate(c, h) PROVE ManagerInv'
  <2> DEFINE request == [NoCall EXCEPT !.handle = h, !.blocks = handles_[h].blocks]
  <2>1. h \in DOMAIN handles_ /\ handles_[h].blocks \in Seq(Blocks)
    BY <1>6 DEF BeginDeallocate, ManagerInv, ManagerTypeOK, HandleInfo
  <2>2. h \in 0..MaxHandles
    BY <1>2 DEF Handles
  <2>3. request \in Call /\ request.handle = h /\ request.blocks = handles_[h].blocks
    BY <2>1, <2>2, NoCallType DEF Call
  <2>4. Acquired(c, "deallocate", request)
        /\ UNCHANGED <<heatVars, lifecycle, crashed, ownership, bpc, submitted>>
    BY <1>6 DEF BeginDeallocate
  <2> HIDE DEF request
  <2>5. next_handle_' = next_handle_
    BY <2>4 DEF ownership
  <2>6. ~Deallocating(h)
    BY <2>4, ManagerAssumption DEF Acquired, Deallocating, ManagerInv, CallsInv, Mutexed
  <2>7. OwnersInv
    BY <2>4 DEF Acquired, ManagerInv
  <2>8. Lists(request.blocks, request.handle)
    BY <2>1, <2>3, <2>6, <2>7 DEF OwnersInv
  <2>9. QED BY <1>2, <2>1, <2>3, <2>4, <2>5, <2>8, AcquireStep DEF Mutexed, ownership
<1>7. QED BY <1>4, <1>5, <1>6

\* The client that holds the mutex is the only one inside such a call.
LEMMA Holder ==
  ASSUME ManagerInv, NEW c \in Clients, cpc[c] \in Mutexed
  PROVE  /\ owner = "run" /\ handle_mutex_ = c /\ OwnersInv
         /\ \A d \in Clients \ {c} : cpc[d] \notin Mutexed
         /\ \A h : Deallocating(h) <=> cpc[c] = "deallocate" /\ call[c].handle = h
<1>1. cpc[c] # "idle"
  BY DEF Mutexed
<1>2. owner = "run" /\ handle_mutex_ = c /\ OwnersInv
  BY <1>1 DEF ManagerInv, CallsInv
<1>3. \A d \in Clients \ {c} : cpc[d] \notin Mutexed
  BY <1>2 DEF ManagerInv, CallsInv
<1>4. QED BY <1>2, <1>3 DEF Deallocating, Mutexed

\* A call ends: every handle's own list agrees again.
LEMMA ReleaseStep ==
  ASSUME ManagerInv, HeatInv', NEW c \in Clients, cpc[c] \in Mutexed, Released(c),
         UNCHANGED <<block_heat_info_, lifecycle, crashed, next_handle_, block_to_handle_,
                     free_blocks, bpc, submitted>>,
         handles_' \in [DOMAIN handles_' -> HandleInfo], DOMAIN handles_' \subseteq Handles,
         \A h \in DOMAIN handles_' : h < next_handle_ /\ Lists(handles_'[h].blocks, h)
  PROVE  ManagerInv'
<1> USE DEF lifecycle
<1>1. /\ owner = "run" /\ OwnersInv /\ \A d \in Clients \ {c} : cpc[d] \notin Mutexed
      /\ cpc \in [Clients -> {"idle", "allocate", "extend", "deallocate", "update", "recommend"}]
      /\ call \in [Clients -> Call]
  BY Holder DEF ManagerInv, ManagerTypeOK
<1>2. /\ cpc' = [cpc EXCEPT ![c] = "idle"] /\ call' = [call EXCEPT ![c] = NoCall]
      /\ handle_mutex_' = Unheld
  BY DEF Released
<1>3. \A d \in Clients : cpc'[d] \notin Mutexed
  BY <1>1, <1>2 DEF Mutexed
<1>4. ManagerTypeOK'
  BY <1>1, <1>2, NoCallType DEF ManagerInv, ManagerTypeOK, HeatInv, Range
<1>5. CallsInv'
  BY <1>1, <1>2, <1>3, ManagerAssumption DEF CallsInv, Mutexed
<1>6. \A list, h : Lists(list, h)' = Lists(list, h)
  BY DEF Lists, Owned
<1>7. Registered' = Registered
  BY DEF Registered
<1>8. OwnersInv'
  BY <1>1, <1>3, <1>6, <1>7 DEF OwnersInv, Mutexed
<1>9. QED BY <1>4, <1>5, <1>8 DEF ManagerInv

LEMMA EndStep ==
  ASSUME ManagerInv, HeatInv', NEW c \in Clients,
         AllocationThrows(c) \/ EndAllocate(c) \/ EndExtend(c) \/ EndDeallocate(c)
  PROVE  ManagerInv'
<1>1. /\ cpc[c] \in Mutexed /\ Released(c)
      /\ UNCHANGED <<lifecycle, crashed, next_handle_, block_to_handle_, free_blocks,
                     bpc, submitted>>
  BY DEF AllocationThrows, EndAllocate, EndExtend, EndDeallocate, Mutexed, ownership
<1>2. UNCHANGED block_heat_info_
  BY DEF AllocationThrows, EndAllocate, EndExtend, EndDeallocate, SetNumLayers, heatVars, table
<1>3. /\ OwnersInv /\ call[c].handle \in Handles
      /\ \A h : Deallocating(h) <=> cpc[c] = "deallocate" /\ call[c].handle = h
  BY <1>1, Holder DEF ManagerInv, CallsInv
<1>4. /\ handles_ \in [DOMAIN handles_ -> HandleInfo] /\ DOMAIN handles_ \subseteq Handles
      /\ call[c] \in Call
  BY DEF ManagerInv, ManagerTypeOK
<1>5. \A h \in DOMAIN handles_ : h < next_handle_
                                 /\ (~Deallocating(h) => Lists(handles_[h].blocks, h))
  BY <1>3 DEF OwnersInv
<1>6. CASE AllocationThrows(c)
  <2>1. handles_' = handles_ /\ cpc[c] # "deallocate"
    BY <1>6 DEF AllocationThrows, ownership
  <2>2. \A h : ~Deallocating(h)
    BY <1>3, <2>1
  <2>3. QED BY <1>1, <1>2, <1>4, <1>5, <2>1, <2>2, ReleaseStep
<1>7. CASE EndAllocate(c)
  <2> DEFINE info == [num_layers |-> call[c].num_layers, num_blocks |-> call[c].extra,
                      blocks |-> call[c].blocks]
  <2>1. cpc[c] = "allocate" /\ handles_' = Added(handles_, call[c].handle, info)
    BY <1>7 DEF EndAllocate
  <2>2. /\ call[c].num_layers \in LayerCounts /\ call[c].handle < next_handle_
        /\ Lists(call[c].blocks, call[c].handle)
    BY <1>3, <2>1 DEF ManagerInv, CallsInv, OwnersInv
  <2>3. info \in HandleInfo /\ info.blocks = call[c].blocks
    BY <1>4, <2>2 DEF HandleInfo, Call
  <2> HIDE DEF info
  <2>4. /\ DOMAIN handles_' = DOMAIN handles_ \cup {call[c].handle}
        /\ handles_' \in [DOMAIN handles_' -> HandleInfo]
        /\ \A h \in DOMAIN handles_' :
             handles_'[h] = IF h = call[c].handle THEN info ELSE handles_[h]
    BY <1>4, <2>1, <2>3 DEF Added
  <2>5. \A h : ~Deallocating(h)
    BY <1>3, <2>1
  <2>6. \A h \in DOMAIN handles_' : h < next_handle_ /\ Lists(handles_'[h].blocks, h)
    BY <1>5, <2>2, <2>3, <2>4, <2>5
  <2>7. QED BY <1>1, <1>2, <1>3, <1>4, <2>4, <2>6, ReleaseStep
<1>8. CASE EndExtend(c)
  <2>1. /\ cpc[c] = "extend"
        /\ handles_' = [handles_ EXCEPT ![call[c].handle].num_blocks = @ + Len(call[c].blocks)]
    BY <1>8 DEF EndExtend
  <2>2. call[c].handle \in DOMAIN handles_
    BY <1>3, <2>1 DEF OwnersInv
  <2>3. Len(call[c].blocks) \in Nat
    BY <1>4, LenProperties DEF Call
  <2> DEFINE info == handles_[call[c].handle]
             n == Len(call[c].blocks)
             longer == [info EXCEPT !.num_blocks = @ + n]
  <2>4. info \in HandleInfo
    BY <1>4, <2>2
  <2>5. handles_' = [handles_ EXCEPT ![call[c].handle] = longer]
    BY <2>1
  <2> HIDE DEF info, n
  <2>6. longer \in HandleInfo /\ longer.blocks = info.blocks
    BY <2>3, <2>4 DEF HandleInfo, n
  <2> HIDE DEF longer
  <2>7. /\ DOMAIN handles_' = DOMAIN handles_
        /\ handles_' \in [DOMAIN handles_ -> HandleInfo]
        /\ \A h \in DOMAIN handles_ : handles_'[h].blocks = handles_[h].blocks
    BY <1>4, <2>2, <2>5, <2>6 DEF info
  <2>8. \A h : ~Deallocating(h)
    BY <1>3, <2>1
  <2>9. QED BY <1>1, <1>2, <1>4, <1>5, <2>7, <2>8, ReleaseStep
<1>9. CASE EndDeallocate(c)
  <2>1. handles_' = Without(handles_, {call[c].handle})
    BY <1>9 DEF EndDeallocate
  <2>2. /\ DOMAIN handles_' = DOMAIN handles_ \ {call[c].handle}
        /\ handles_' \in [DOMAIN handles_' -> HandleInfo]
        /\ \A h \in DOMAIN handles_' : handles_'[h] = handles_[h]
    BY <1>4, <2>1 DEF Without, Restrict
  <2>3. \A h \in DOMAIN handles_' : ~Deallocating(h)
    BY <1>3, <2>2
  <2>4. QED BY <1>1, <1>2, <1>4, <1>5, <2>2, <2>3, ReleaseStep
<1>10. QED BY <1>6, <1>7, <1>8, <1>9

\* What one turn of a loop leaves to prove: the lists and the owners.
LEMMA TurnStep ==
  ASSUME ManagerInv, HeatInv', NEW c \in Clients, cpc[c] \in Mutexed,
         UNCHANGED <<lifecycle, crashed, next_handle_, handle_mutex_, cpc, bpc, submitted>>,
         NEW request \in Call, call' = [call EXCEPT ![c] = request],
         request.handle = call[c].handle, request.num_layers = call[c].num_layers,
         free_blocks' \in Seq(Blocks),
         DOMAIN block_to_handle_' \subseteq Blocks, Range(block_to_handle_)' \subseteq Handles,
         handles_' \in [DOMAIN handles_ -> HandleInfo],
         OwnersInv'
  PROVE  ManagerInv'
<1> USE DEF lifecycle
<1>1. \A d \in Clients : /\ call'[d].handle = call[d].handle
                         /\ call'[d].num_layers = call[d].num_layers
  BY DEF ManagerInv, ManagerTypeOK
<1>2. DOMAIN handles_' = DOMAIN handles_
  OBVIOUS
<1>3. ManagerTypeOK'
  BY <1>2 DEF ManagerInv, ManagerTypeOK, HeatInv
<1>4. owner = "run" /\ owner' = "run"
  BY Holder
<1>5. CallsInv'
  BY <1>1, <1>4 DEF ManagerInv, CallsInv
<1>6. QED BY <1>3, <1>5 DEF ManagerInv

LEMMA AllocateOneStep ==
  ASSUME ManagerInv, HeatInv', NEW c \in Clients, AllocateOne(c)
  PROVE  ManagerInv'
<1>1. PICK b, h, request : /\ b = Head(free_blocks) /\ h = call[c].handle
                           /\ request = [call[c] EXCEPT !.left = @ - 1, !.blocks = Append(@, b)]
  OBVIOUS
<1>2. /\ cpc[c] \in {"allocate", "extend"} /\ call[c].left > 0 /\ free_blocks # <<>>
      /\ free_blocks' = Tail(free_blocks) /\ block_to_handle_' = Added(block_to_handle_, b, h)
      /\ RegisterBlock(b) /\ call' = [call EXCEPT ![c] = request]
      /\ UNCHANGED <<lifecycle, crashed, next_handle_, handle_mutex_, cpc, bpc, submitted>>
  BY <1>1 DEF AllocateOne, Mapped
<1>3. handles_' = IF cpc[c] = "extend"
                  THEN [handles_ EXCEPT ![h].blocks = Append(@, b)] ELSE handles_
  BY <1>1 DEF AllocateOne
<1>4. /\ cpc[c] \in Mutexed /\ OwnersInv /\ h \in Handles
      /\ \A d \in Clients \ {c} : cpc[d] \notin Mutexed
      /\ \A x : ~Deallocating(x)
  BY <1>1, <1>2, Holder DEF Mutexed, ManagerInv, CallsInv
<1>5. /\ call \in [Clients -> Call] /\ call[c] \in Call /\ free_blocks \in Seq(Blocks)
      /\ DOMAIN block_to_handle_ \subseteq Blocks /\ Range(block_to_handle_) \subseteq Handles
      /\ handles_ \in [DOMAIN handles_ -> HandleInfo]
  BY DEF ManagerInv, ManagerTypeOK
<1>6. /\ b \in Blocks /\ b \in Range(free_blocks) /\ Tail(free_blocks) \in Seq(Blocks)
      /\ IsInjective(Tail(free_blocks)) /\ Range(Tail(free_blocks)) = Range(free_blocks) \ {b}
  BY <1>1, <1>2, <1>4, <1>5, TailUnique DEF OwnersInv
<1>7. b \notin DOMAIN block_to_handle_
  BY <1>4, <1>6 DEF OwnersInv
<1>8. /\ DOMAIN block_to_handle_' = DOMAIN block_to_handle_ \cup {b}
      /\ block_to_handle_'[b] = h
      /\ \A x \in DOMAIN block_to_handle_ : block_to_handle_'[x] = block_to_handle_[x]
      /\ Range(block_to_handle_)' \subseteq Handles
  BY <1>2, <1>4, <1>5, <1>7 DEF Added, Range
<1>9. Owned(h)' = Owned(h) \cup {b} /\ \A x : x # h => Owned(x)' = Owned(x)
  BY <1>7, <1>8 DEF Owned
<1>10. ASSUME NEW s \in Seq(Blocks), Lists(s, h)
       PROVE  /\ Append(s, b) \in Seq(Blocks) /\ IsInjective(Append(s, b))
              /\ Range(Append(s, b)) = Owned(h)'
  <2>1. b \notin Range(s) /\ IsInjective(s) /\ Range(s) = Owned(h)
    BY <1>7, <1>10 DEF Lists, Owned
  <2>2. /\ Append(s, b) \in Seq(Blocks) /\ IsInjective(Append(s, b))
        /\ Range(Append(s, b)) = Range(s) \cup {b}
    BY <1>6, <2>1, AppendUnique
  <2>3. QED BY <1>9, <2>1, <2>2
<1>11. \A s, x : x # h /\ Lists(s, x) => IsInjective(s) /\ Range(s) = Owned(x)'
  BY <1>9 DEF Lists
<1>12. /\ request \in Call /\ request.handle = h /\ request.num_layers = call[c].num_layers
       /\ request.blocks = Append(call[c].blocks, b) /\ call[c].blocks \in Seq(Blocks)
  <2>1. /\ call[c].blocks \in Seq(Blocks) /\ call[c].left \in Nat
        /\ Append(call[c].blocks, b) \in Seq(Blocks)
    BY <1>5, <1>6, AppendProperties DEF Call
  <2>2. call[c].left - 1 \in Nat
    BY <1>2, <2>1
  <2>3. QED BY <1>1, <1>5, <2>1, <2>2 DEF Call
<1>13. /\ handles_' \in [DOMAIN handles_ -> HandleInfo]
       /\ \A x \in DOMAIN handles_ : /\ IsInjective(handles_'[x].blocks)
                                     /\ Range(handles_'[x].blocks) = Owned(x)'
  <2>1. \A x \in DOMAIN handles_ : Lists(handles_[x].blocks, x)
    BY <1>4 DEF OwnersInv
  <2>2. CASE cpc[c] = "extend"
    <3>1. h \in DOMAIN handles_
      BY <1>1, <1>4, <2>2 DEF OwnersInv
    <3>2. PICK info, longer : info = handles_[h]
                              /\ longer = [info EXCEPT !.blocks = Append(info.blocks, b)]
      OBVIOUS
    <3>3. info \in HandleInfo /\ info.blocks \in Seq(Blocks) /\ Lists(info.blocks, h)
      BY <1>5, <2>1, <3>1, <3>2 DEF HandleInfo
    <3>4. /\ Append(info.blocks, b) \in Seq(Blocks) /\ IsInjective(Append(info.blocks, b))
          /\ Range(Append(info.blocks, b)) = Owned(h)'
      BY <1>10, <3>3
    <3>5. longer \in HandleInfo /\ longer.blocks = Append(info.blocks, b)
      BY <3>2, <3>3, <3>4 DEF HandleInfo
    <3>6. handles_' = [handles_ EXCEPT ![h] = longer]
      BY <1>3, <2>2, <3>2
    <3>7. handles_' \in [DOMAIN handles_ -> HandleInfo]
      BY <1>5, <3>5, <3>6
    <3>8. handles_'[h].blocks = Append(info.blocks, b)
      BY <1>5, <3>1, <3>5, <3>6
    <3>9. \A x \in DOMAIN handles_ \ {h} : handles_'[x] = handles_[x]
      BY <1>5, <3>6
    <3>10. QED BY <1>11, <2>1, <3>4, <3>7, <3>8, <3>9
  <2>3. CASE cpc[c] = "allocate"
    <3>1. h \notin DOMAIN handles_ /\ handles_' = handles_
      BY <1>1, <1>3, <1>4, <2>3 DEF OwnersInv
    <3>2. QED BY <1>5, <1>11, <2>1, <3>1
  <2>4. QED BY <1>2, <2>2, <2>3
<1>14. /\ call'[c] = request
       /\ \A d \in Clients : cpc'[d] \in Mutexed => d = c
  BY <1>2, <1>4, <1>5
<1>15. \A h1 \in DOMAIN handles_' : h1 < next_handle_' /\ Lists(handles_[h1].blocks, h1)'
  BY <1>2, <1>4, <1>13 DEF OwnersInv, Lists
<1>16. /\ h < next_handle_
       /\ cpc[c] = "extend" => h \in DOMAIN handles_
       /\ cpc[c] = "allocate" => /\ h \notin DOMAIN handles_ /\ IsInjective(request.blocks)
                                 /\ Range(request.blocks) = Owned(h)'
  BY <1>1, <1>2, <1>4, <1>10, <1>12 DEF OwnersInv
<1>17. \A d \in Clients :
         /\ cpc'[d] \in {"extend", "deallocate"} => call'[d].handle \in DOMAIN handles_'
         /\ cpc'[d] = "allocate" => /\ call'[d].handle < next_handle_'
                                    /\ call'[d].handle \notin DOMAIN handles_'
         /\ cpc'[d] \in {"allocate", "deallocate"} => Lists(call[d].blocks, call[d].handle)'
  <2> SUFFICES ASSUME NEW d \in Clients, cpc'[d] \in Mutexed
               PROVE  /\ cpc'[d] \in {"extend", "deallocate"} => call'[d].handle \in DOMAIN handles_'
                      /\ cpc'[d] = "allocate" => /\ call'[d].handle < next_handle_'
                                                 /\ call'[d].handle \notin DOMAIN handles_'
                      /\ cpc'[d] \in {"allocate", "deallocate"} =>
                           Lists(call[d].blocks, call[d].handle)'
    BY DEF Mutexed
  <2>1. d = c /\ cpc'[d] = cpc[c] /\ call'[d].handle = h /\ call'[d].blocks = request.blocks
        /\ next_handle_' = next_handle_ /\ DOMAIN handles_' = DOMAIN handles_
    BY <1>2, <1>12, <1>13, <1>14
  <2>2. QED BY <1>2, <1>16, <2>1 DEF Lists
<1>18. Registered' = DOMAIN block_to_handle_'
  <2>1. Registered' = Registered \cup {b}
    BY <1>2 DEF RegisterBlock, Added, Registered
  <2>2. QED BY <1>4, <1>8, <2>1 DEF OwnersInv
<1>19. /\ IsInjective(free_blocks)' /\ Range(free_blocks)' = Blocks \ DOMAIN block_to_handle_'
       /\ \A x \in DOMAIN block_to_handle_' : block_to_handle_'[x] < next_handle_'
  BY <1>2, <1>4, <1>6, <1>8, <1>16 DEF OwnersInv
<1>20. OwnersInv'
  BY <1>15, <1>17, <1>18, <1>19 DEF OwnersInv
<1>21. QED
  BY <1>1, <1>2, <1>4, <1>5, <1>6, <1>8, <1>12, <1>13, <1>20, TurnStep

LEMMA DeallocateOneStep ==
  ASSUME ManagerInv, HeatInv', NEW c \in Clients, DeallocateOne(c)
  PROVE  ManagerInv'
<1>1. PICK b, h, request : /\ b = Head(call[c].blocks) /\ h = call[c].handle
                           /\ request = [call[c] EXCEPT !.blocks = Tail(@)]
  OBVIOUS
<1>2. /\ cpc[c] = "deallocate" /\ call[c].blocks # <<>>
      /\ free_blocks' = Append(free_blocks, b)
      /\ block_to_handle_' = Without(block_to_handle_, {b})
      /\ UnregisterBlock(b) /\ call' = [call EXCEPT ![c] = request]
      /\ UNCHANGED <<lifecycle, crashed, handles_, next_handle_, handle_mutex_, cpc, bpc, submitted>>
  BY <1>1 DEF DeallocateOne, OwnerErased
<1>3. /\ cpc[c] \in Mutexed /\ OwnersInv /\ h \in DOMAIN handles_
      /\ \A d \in Clients \ {c} : cpc[d] \notin Mutexed
      /\ \A x : Deallocating(x) <=> x = h
  BY <1>1, <1>2, Holder DEF Mutexed, OwnersInv
<1>4. /\ call \in [Clients -> Call] /\ call[c] \in Call /\ free_blocks \in Seq(Blocks)
      /\ call[c].blocks \in Seq(Blocks)
      /\ DOMAIN block_to_handle_ \subseteq Blocks /\ Range(block_to_handle_) \subseteq Handles
      /\ handles_ \in [DOMAIN handles_ -> HandleInfo]
  BY DEF ManagerInv, ManagerTypeOK, Call
<1>5. IsInjective(call[c].blocks) /\ Range(call[c].blocks) = Owned(h)
  BY <1>1, <1>2, <1>3 DEF OwnersInv, Lists
<1>6. /\ b \in Blocks /\ b \in Owned(h) /\ Tail(call[c].blocks) \in Seq(Blocks)
      /\ IsInjective(Tail(call[c].blocks)) /\ Range(Tail(call[c].blocks)) = Owned(h) \ {b}
  BY <1>1, <1>2, <1>4, <1>5, TailUnique
<1>7. /\ DOMAIN block_to_handle_' = DOMAIN block_to_handle_ \ {b}
      /\ \A x \in DOMAIN block_to_handle_ \ {b} : block_to_handle_'[x] = block_to_handle_[x]
      /\ Range(block_to_handle_)' \subseteq Handles
  BY <1>2, <1>4 DEF Without, Restrict, Range
<1>8. /\ Owned(h)' = Owned(h) \ {b} /\ b \in DOMAIN block_to_handle_
      /\ \A x : x # h => Owned(x)' = Owned(x)
  BY <1>6, <1>7 DEF Owned
<1>9. request \in Call /\ request.handle = h /\ request.num_layers = call[c].num_layers
      /\ request.blocks = Tail(call[c].blocks)
  BY <1>1, <1>4, <1>6 DEF Call
<1>10. /\ free_blocks' \in Seq(Blocks) /\ IsInjective(free_blocks')
       /\ Range(free_blocks') = Blocks \ DOMAIN block_to_handle_'
  <2>1. b \notin Range(free_blocks) /\ IsInjective(free_blocks)
    BY <1>3, <1>8 DEF OwnersInv
  <2>2. Range(free_blocks) = Blocks \ DOMAIN block_to_handle_
    BY <1>3 DEF OwnersInv
  <2>3. /\ Append(free_blocks, b) \in Seq(Blocks) /\ IsInjective(Append(free_blocks, b))
        /\ Range(Append(free_blocks, b)) = Range(free_blocks) \cup {b}
    BY <1>4, <1>6, <2>1, AppendUnique
  <2>4. QED BY <1>2, <1>6, <1>7, <2>2, <2>3
<1>11. /\ call'[c] = request /\ handles_' = handles_
       /\ \A d \in Clients : cpc'[d] \in Mutexed => d = c
  BY <1>2, <1>3, <1>4
<1>12. ASSUME NEW x \in DOMAIN handles_
       PROVE  x < next_handle_' /\ (~Deallocating(x)' => Lists(handles_[x].blocks, x)')
  <2>1. x < next_handle_'
    BY <1>2, <1>3 DEF OwnersInv
  <2>2. cpc'[c] = "deallocate" /\ call'[c].handle = h
    BY <1>2, <1>9, <1>11
  <2>3. ~Deallocating(x)' => x # h
    BY <2>2 DEF Deallocating
  <2>4. x # h => Lists(handles_[x].blocks, x)
    BY <1>3 DEF OwnersInv
  <2>5. x # h => Lists(handles_[x].blocks, x)'
    BY <1>8, <1>11, <2>4 DEF Lists
  <2>6. QED BY <2>1, <2>3, <2>5
<1>13. ASSUME NEW d \in Clients, cpc'[d] \in Mutexed
       PROVE  /\ cpc'[d] = "deallocate" /\ call'[d].handle \in DOMAIN handles_'
              /\ Lists(call[d].blocks, call[d].handle)'
  <2>1. d = c /\ cpc'[d] = cpc[c] /\ call'[d].handle = h /\ call'[d].blocks = Tail(call[c].blocks)
    BY <1>2, <1>9, <1>11, <1>13
  <2>2. QED BY <1>2, <1>3, <1>6, <1>8, <1>11, <2>1 DEF Lists
<1>14. Registered' = DOMAIN block_to_handle_'
  <2>1. Registered' = Registered \ {b}
    BY <1>2 DEF UnregisterBlock, Without, Restrict, Registered
  <2>2. QED BY <1>3, <1>7, <2>1 DEF OwnersInv
<1>15. \A x \in DOMAIN block_to_handle_' : block_to_handle_'[x] < next_handle_'
  BY <1>2, <1>3, <1>7 DEF OwnersInv
<1>16. OwnersInv'
  BY <1>10, <1>11, <1>12, <1>13, <1>14, <1>15 DEF OwnersInv, Mutexed
<1>17. DOMAIN block_to_handle_' \subseteq Blocks /\ handles_' \in [DOMAIN handles_ -> HandleInfo]
  BY <1>4, <1>7, <1>11
<1>18. request.handle = call[c].handle /\ request.num_layers = call[c].num_layers
  BY <1>1, <1>9
<1>19. QED
  BY <1>2, <1>3, <1>7, <1>9, <1>10, <1>16, <1>17, <1>18, TurnStep

-----------------------------------------------------------------------------
LEMMA ManagerStep == ManagerInv /\ [ManagerNext]_managerVars => ManagerInv'
<1> SUFFICES ASSUME ManagerInv, [ManagerNext]_managerVars PROVE ManagerInv'
  OBVIOUS
<1>1. HeatInv'
  BY UsesEvaluator, HeatStep DEF ManagerInv
<1>2. CASE Create \/ Destroy \/ Joined
  BY <1>1, <1>2, LifecycleStep
<1>3. CASE BackgroundStep
  BY <1>1, <1>3, UpdateSteps
<1>4. ASSUME NEW c \in Clients, Begin(c) PROVE ManagerInv'
  <2>1. CASE BeginTrigger(c) \/ accessBlock(c) \/ Statistics(c) \/ setAccessCallback(c)
    BY <1>1, <2>1, UpdateSteps DEF accessBlock, Statistics, setAccessCallback
  <2>2. QED BY <1>1, <1>4, <2>1, BeginStep DEF Begin
<1>5. ASSUME NEW c \in Clients, Continue(c) PROVE ManagerInv'
  <2>1. CASE Updating(c) \/ TriggerUpdated(c) \/ EndTrigger(c)
    BY <1>1, <2>1, UpdateSteps
  <2>2. QED BY <1>1, <1>5, <2>1, AllocateOneStep, DeallocateOneStep, EndStep DEF Continue
<1>6. CASE UNCHANGED managerVars
  BY <1>1, <1>6, QuietStep
  DEF managerVars, heatVars, table, client, Registered, ManagerInv, ManagerTypeOK
<1>7. QED BY <1>2, <1>3, <1>4, <1>5, <1>6 DEF ManagerNext

LEMMA ManagerInvHolds == ManagerSpec => []ManagerInv
  BY ManagerStart, ManagerStep, PTL DEF ManagerSpec

\* The facade's variables keep their types.
THEOREM ManagerTyped == ManagerSpec => []ManagerTypeOK
<1>1. ManagerInv => ManagerTypeOK
  BY DEF ManagerInv
<1>2. QED BY <1>1, ManagerInvHolds, PTL

\* Whenever no call holds handle_mutex_, the free list, the owners, the handles'
\* own lists and the evaluator's table say the same of every block.
THEOREM RecordsAgree == ManagerSpec => []OwnersAgree
<1>1. ManagerInv => OwnersAgree
  <2> SUFFICES ASSUME ManagerInv, owner = "run", handle_mutex_ = Unheld
               PROVE  /\ Registered = DOMAIN block_to_handle_
                      /\ Range(free_blocks) = Blocks \ DOMAIN block_to_handle_
                      /\ \A h \in DOMAIN handles_ : Lists(handles_[h].blocks, h)
    BY DEF OwnersAgree, Lists, Owned
  <2>1. \A c \in Clients : cpc[c] \notin Mutexed
    BY ManagerAssumption DEF ManagerInv, CallsInv
  <2>2. \A h : ~Deallocating(h)
    BY <2>1 DEF Deallocating, Mutexed
  <2>3. QED BY <2>2 DEF ManagerInv, OwnersInv
<1>2. QED BY <1>1, ManagerInvHolds, PTL

\* The facade with all its clients and its background worker drives the evaluator
\* only through the evaluator's own steps: every behaviour of the facade is one
\* of HeatEvaluator, and what is proved of the evaluator holds inside the facade.
THEOREM FacadeImplementsHeat == ManagerSpec => HeatSpec
<1>1. ManagerInit => HeatInit
  BY DEF ManagerInit
<1>2. ManagerInv /\ [ManagerNext]_managerVars => [HeatNext]_heatVars
  BY UsesEvaluator
<1>3. QED BY <1>1, <1>2, ManagerInvHolds, PTL DEF ManagerSpec, HeatSpec

=============================================================================
