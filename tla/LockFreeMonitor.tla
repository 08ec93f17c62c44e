---------------------------- MODULE LockFreeMonitor ----------------------------
(***************************************************************************)
(* The lock-free access monitor (include/hetkvcache/monitor/               *)
(* lockfree_monitor.h, src/monitor/lockfree_monitor.cpp) and its ring      *)
(* buffer.  Producers count an access and push a record of it; the         *)
(* processing thread pops records, and so does a thread in clearHistory.   *)
(*                                                                         *)
(* push and pop are modelled one atomic access at a time: load the cursor, *)
(* load the cell's sequence, compare-and-swap the cursor, touch the data,  *)
(* release the cell.  The buffer is documented for a single producer; the  *)
(* monitor lets any thread push.  A weak compare-and-swap may fail for no  *)
(* reason.  Every atomic is taken to be sequentially consistent: the       *)
(* sequence is stored with release and loaded with acquire, and the        *)
(* cursors carry no data.                                                  *)
(*                                                                         *)
(* Abstracted: a record is its number, block and kind.  Left out: the      *)
(* counters of layers and heads, kept as those of blocks; pending_count_   *)
(* and notify_pending_, which nothing waits for; the time of an access.    *)
(***************************************************************************)
EXTENDS Integers, Sequences, FiniteSets

CONSTANTS
  Producers,    \* threads in recordAccess
  Processor,    \* processing_thread_
  Clearer,      \* a thread that calls clearHistory
  Capacity,     \* RING_BUFFER_SIZE
  BATCH_SIZE,   \* records the processor takes before it looks at running_
  Kinds,        \* the <<block, access type>> pairs recorded
  max_blocks_,  \* blocks below it have a counter
  SampleRange,  \* 256 in the code: the sampling counter is taken modulo it
  Modes,        \* of FULL and SAMPLED
  MaxCalls,     \* bound: calls of recordAccess while active
  MaxStarts,    \* bound: initializations
  MaxClears     \* bound: calls of clearHistory

Consumers == {Processor, Clearer}

ASSUME RingAssumption ==
  /\ Processor # Clearer
  /\ Capacity \in Nat \ {0, 1} /\ BATCH_SIZE \in Nat \ {0}
  /\ Kinds \subseteq Nat \X {"READ", "WRITE"}
  /\ max_blocks_ \in Nat
  /\ SampleRange \in Nat \ {0}
  /\ Modes \subseteq {"FULL", "SAMPLED"}
  /\ MaxCalls \in Nat /\ MaxStarts \in Nat /\ MaxClears \in Nat

VARIABLES
  head_, tail_,        \* cursors; positions are never reused
  buffer_,             \* cells of a sequence and a record
  ppc, ppos, prec,     \* producers: where, position loaded, record
  kpc, kpos, got,      \* consumers: where, position loaded, last record
  processed,           \* records of the processor's current batch
  monitoring_active_, running_, mode_,
  lifecycle,           \* where the thread of initialize and shutdown is
  block_counts_, total_accesses_, read_accesses_, write_accesses_,
  sample_state_,
  numbered,            \* history: records numbered so far
  starts, clears       \* for the bounds

ring == <<head_, tail_, buffer_>>
producer == <<ppc, ppos, prec>>
consumer == <<kpc, kpos, got, processed>>
ringCounters == <<block_counts_, total_accesses_, read_accesses_, write_accesses_,
              sample_state_>>
ringState == <<monitoring_active_, running_, mode_, lifecycle, starts>>
ringVars == <<ring, producer, consumer, ringCounters, ringState, numbered, clears>>

NoRecord == [number |-> 0, block |-> 0, kind |-> "READ"]
Record == [number : 0..MaxCalls, block : {0} \cup {k[1] : k \in Kinds}, kind : {"READ", "WRITE"}]
CountedBlocks == 0..(max_blocks_ - 1)
Index(pos) == pos % Capacity

RingTypeOK ==
  /\ head_ \in Nat /\ tail_ \in Nat
  /\ buffer_ \in [0..(Capacity - 1) -> [sequence : Nat, data : Record]]
  /\ ppc \in [Producers -> {"idle", "total", "load", "check", "claim", "write",
                            "release"}]
  /\ ppos \in [Producers -> Nat] /\ prec \in [Producers -> Record]
  /\ kpc \in [Consumers -> {"idle", "load", "check", "claim", "copy", "release",
                            "resetTotals", "resetBlocks"}]
  /\ kpos \in [Consumers -> Nat] /\ got \in [Consumers -> Record]
  /\ processed \in 0..BATCH_SIZE
  /\ monitoring_active_ \in BOOLEAN /\ running_ \in BOOLEAN /\ mode_ \in Modes
  /\ lifecycle \in {"down", "up", "join"}
  /\ block_counts_ \in [CountedBlocks -> Nat]
  /\ {total_accesses_, read_accesses_, write_accesses_, sample_state_} \subseteq Nat
  /\ numbered \in 0..MaxCalls /\ starts \in 0..MaxStarts /\ clears \in 0..MaxClears

ZeroCounts == [b \in CountedBlocks |-> 0]

RingInit ==
  /\ head_ = 0 /\ tail_ = 0
  /\ buffer_ = [i \in 0..(Capacity - 1) |-> [sequence |-> i, data |-> NoRecord]]
  /\ ppc = [p \in Producers |-> "idle"] /\ ppos = [p \in Producers |-> 0]
  /\ prec = [p \in Producers |-> NoRecord]
  /\ kpc = [k \in Consumers |-> "idle"] /\ kpos = [k \in Consumers |-> 0]
  /\ got = [k \in Consumers |-> NoRecord]
  /\ processed = 0
  /\ monitoring_active_ = FALSE /\ running_ = FALSE /\ mode_ \in Modes
  /\ lifecycle = "down"
  /\ block_counts_ = ZeroCounts
  /\ total_accesses_ = 0 /\ read_accesses_ = 0 /\ write_accesses_ = 0
  /\ sample_state_ = 0 /\ numbered = 0
  /\ starts = 0 /\ clears = 0

\* The locals of a call are gone when it returns.
EndPush(p, from) ==
  /\ ppc[p] = from
  /\ ppc' = [ppc EXCEPT ![p] = "idle"]
  /\ ppos' = [ppos EXCEPT ![p] = 0]
  /\ prec' = [prec EXCEPT ![p] = NoRecord]

GoProducer(p, from, to) == ppc[p] = from /\ ppc' = [ppc EXCEPT ![p] = to]
GoConsumer(k, from, to) == kpc[k] = from /\ kpc' = [kpc EXCEPT ![k] = to]

-----------------------------------------------------------------------------
(* Lifecycle *)

\* The block counters are allocated anew; records a former run left in the
\* ring are still there, and so are the totals.
InitializeRing ==
  /\ lifecycle = "down" /\ starts < MaxStarts
  /\ lifecycle' = "up" /\ starts' = starts + 1
  /\ mode_' \in Modes
  /\ running_' = TRUE
  /\ block_counts_' = ZeroCounts
  /\ GoConsumer(Processor, "idle", "load")
  /\ processed' = 0
  /\ UNCHANGED <<ring, producer, kpos, got, total_accesses_, read_accesses_, write_accesses_,
                 sample_state_, monitoring_active_, numbered, clears>>

StartMonitoring ==
  /\ lifecycle = "up" /\ ~monitoring_active_
  /\ monitoring_active_' = TRUE
  /\ UNCHANGED <<ring, producer, consumer, ringCounters, running_, mode_, lifecycle, starts,
                 numbered, clears>>

StopMonitoring ==
  /\ lifecycle = "up" /\ monitoring_active_
  /\ monitoring_active_' = FALSE
  /\ UNCHANGED <<ring, producer, consumer, ringCounters, running_, mode_, lifecycle, starts,
                 numbered, clears>>

ShutdownRing ==
  /\ lifecycle = "up"
  /\ lifecycle' = "join" /\ monitoring_active_' = FALSE /\ running_' = FALSE
  /\ UNCHANGED <<ring, producer, consumer, ringCounters, mode_, starts, numbered, clears>>

JoinProcessor ==
  /\ lifecycle = "join" /\ kpc[Processor] = "idle"
  /\ lifecycle' = "down"
  /\ UNCHANGED <<ring, producer, consumer, ringCounters, monitoring_active_, running_, mode_,
                 starts, numbered, clears>>

-----------------------------------------------------------------------------
(* recordAccess *)

\* sample_threshold_, for a sample rate of 1.
SampleThreshold == SampleRange - 1

Sampled(n) == n % SampleRange < SampleThreshold

\* Active and not sampled out: the block's counter comes first.
RecordAccess(p, access) ==
  LET recorded == mode_ = "FULL" \/ Sampled(sample_state_)
  IN /\ monitoring_active_ /\ numbered < MaxCalls
     /\ numbered' = numbered + 1
     /\ sample_state_' = sample_state_ + (IF mode_ = "SAMPLED" THEN 1 ELSE 0)
     /\ IF recorded
        THEN /\ GoProducer(p, "idle", "total")
             /\ prec' = [prec EXCEPT ![p] = [number |-> numbered + 1, block |-> access[1],
                                             kind |-> access[2]]]
             /\ block_counts_' = [b \in CountedBlocks |->
                                    block_counts_[b] + (IF b = access[1] THEN 1 ELSE 0)]
        ELSE ppc[p] = "idle" /\ UNCHANGED <<ppc, prec, block_counts_>>
     /\ UNCHANGED <<ring, ppos, consumer, total_accesses_, read_accesses_, write_accesses_,
                    ringState, clears>>

CountAccess(p) ==
  /\ GoProducer(p, "total", "load")
  /\ total_accesses_' = total_accesses_ + 1
  /\ read_accesses_' = read_accesses_ + (IF prec[p].kind = "READ" THEN 1 ELSE 0)
  /\ write_accesses_' = write_accesses_ + (IF prec[p].kind = "READ" THEN 0 ELSE 1)
  /\ UNCHANGED <<ring, ppos, prec, consumer, block_counts_, sample_state_, ringState,
                 numbered, clears>>

-----------------------------------------------------------------------------
(* push *)

PushLoad(p) ==
  /\ GoProducer(p, "load", "check")
  /\ ppos' = [ppos EXCEPT ![p] = tail_]
  /\ UNCHANGED <<ring, prec, consumer, ringCounters, ringState, numbered, clears>>

\* The cell is free for this position, or the record is dropped: the ring is
\* full, or another producer was faster.
PushCheck(p) ==
  /\ ppc[p] = "check"
  /\ IF buffer_[Index(ppos[p])].sequence = ppos[p]
     THEN GoProducer(p, "check", "claim") /\ UNCHANGED <<ppos, prec>>
     ELSE EndPush(p, "check")
  /\ UNCHANGED <<ring, consumer, ringCounters, ringState, numbered, clears>>

\* Fault: the cursor is advanced without comparing it.
ClaimBlindly(p) == TRUE

Claimable(p) == tail_ = ppos[p]

PushClaim(p) ==
  /\ GoProducer(p, "claim", "write")
  /\ Claimable(p)
  /\ tail_' = ppos[p] + 1
  /\ UNCHANGED <<head_, buffer_, ppos, prec, consumer, ringCounters, ringState, numbered, clears>>

\* The compare-and-swap fails, perhaps for no reason: the record is dropped.
PushGiveUp(p) ==
  /\ EndPush(p, "claim")
  /\ UNCHANGED <<ring, consumer, ringCounters, ringState, numbered, clears>>

PushWrite(p) ==
  /\ GoProducer(p, "write", "release")
  /\ buffer_' = [buffer_ EXCEPT ![Index(ppos[p])].data = prec[p]]
  /\ UNCHANGED <<head_, tail_, ppos, prec, consumer, ringCounters, ringState, numbered, clears>>

PushRelease(p) ==
  /\ EndPush(p, "release")
  /\ buffer_' = [buffer_ EXCEPT ![Index(ppos[p])].sequence = ppos[p] + 1]
  /\ UNCHANGED <<head_, tail_, consumer, ringCounters, ringState, numbered, clears>>

-----------------------------------------------------------------------------
(* pop, and the loops around it *)

\* Fault: the processor ends when there is nothing to take.
StayWhileFull == running_ /\ tail_ # head_

Stay == running_

\* The processor at the head of its loop; within a batch it pops again without
\* looking at running_.  A batch that took nothing sleeps, which is no step.
PopLoad(k) ==
  /\ kpc[k] = "load"
  /\ k = Processor /\ processed = 0 => Stay
  /\ GoConsumer(k, "load", "check")
  /\ kpos' = [kpos EXCEPT ![k] = head_]
  /\ UNCHANGED <<ring, producer, got, processed, ringCounters, ringState, numbered, clears>>

ProcessorEnds ==
  /\ kpc[Processor] = "load" /\ processed = 0 /\ ~Stay
  /\ GoConsumer(Processor, "load", "idle")
  /\ UNCHANGED <<ring, producer, kpos, got, processed, ringCounters, ringState, numbered, clears>>

\* pop returned false: the processor's batch is over, clearHistory goes on to
\* reset the counters.
PopFails(k, from) ==
  /\ GoConsumer(k, from, IF k = Processor THEN "load" ELSE "resetTotals")
  /\ processed' = IF k = Processor THEN 0 ELSE processed
  /\ kpos' = [kpos EXCEPT ![k] = 0]
  /\ UNCHANGED <<ring, producer, got, ringCounters, ringState, numbered, clears>>

Filled(k) == buffer_[Index(kpos[k])].sequence = kpos[k] + 1

PopCheck(k) ==
  \/ /\ Filled(k)
     /\ GoConsumer(k, "check", "claim")
     /\ UNCHANGED <<ring, producer, kpos, got, processed, ringCounters, ringState, numbered, clears>>
  \/ ~Filled(k) /\ PopFails(k, "check")

PopClaim(k) ==
  /\ GoConsumer(k, "claim", "copy")
  /\ head_ = kpos[k]
  /\ head_' = kpos[k] + 1
  /\ UNCHANGED <<tail_, buffer_, producer, kpos, got, processed, ringCounters, ringState, numbered, clears>>

PopGiveUp(k) == PopFails(k, "claim")

PopCopy(k) ==
  /\ GoConsumer(k, "copy", "release")
  /\ got' = [got EXCEPT ![k] = buffer_[Index(kpos[k])].data]
  /\ UNCHANGED <<ring, producer, kpos, processed, ringCounters, ringState, numbered, clears>>

\* The sequence a cell waits for in the next round.
NextRound(pos) == pos + Capacity

PopRelease(k) ==
  /\ GoConsumer(k, "release", "load")
  /\ buffer_' = [buffer_ EXCEPT ![Index(kpos[k])].sequence = NextRound(kpos[k])]
  /\ processed' = IF k = Processor THEN (processed + 1) % BATCH_SIZE ELSE processed
  /\ kpos' = [kpos EXCEPT ![k] = 0]
  /\ got' = [got EXCEPT ![k] = NoRecord]
  /\ UNCHANGED <<head_, tail_, producer, ringCounters, ringState, numbered, clears>>

ClearHistory ==
  /\ clears < MaxClears
  /\ clears' = clears + 1
  /\ GoConsumer(Clearer, "idle", "load")
  /\ UNCHANGED <<ring, producer, kpos, got, processed, ringCounters, ringState, numbered>>

\* resetStats stores zeros while producers may be adding.
ResetTotals ==
  /\ GoConsumer(Clearer, "resetTotals", "resetBlocks")
  /\ total_accesses_' = 0 /\ read_accesses_' = 0 /\ write_accesses_' = 0
  /\ UNCHANGED <<ring, producer, kpos, got, processed, block_counts_, sample_state_,
                 ringState, numbered, clears>>

ResetBlocks ==
  /\ GoConsumer(Clearer, "resetBlocks", "idle")
  /\ block_counts_' = ZeroCounts
  /\ sample_state_' = 0
  /\ UNCHANGED <<ring, producer, kpos, got, processed, total_accesses_, read_accesses_,
                 write_accesses_, ringState, numbered, clears>>

-----------------------------------------------------------------------------
Recording(p) ==
  \/ CountAccess(p)
  \/ PushLoad(p) \/ PushCheck(p) \/ PushClaim(p) \/ PushGiveUp(p) \/ PushWrite(p) \/ PushRelease(p)

Popping(k) ==
  PopLoad(k) \/ PopCheck(k) \/ PopClaim(k) \/ PopGiveUp(k) \/ PopCopy(k) \/ PopRelease(k)

ProcessLoop == Popping(Processor) \/ ProcessorEnds

RingNext ==
  \/ InitializeRing \/ StartMonitoring \/ StopMonitoring \/ ShutdownRing \/ JoinProcessor
  \/ \E p \in Producers : Recording(p) \/ \E access \in Kinds : RecordAccess(p, access)
  \/ ProcessLoop
  \/ Popping(Clearer) \/ ClearHistory \/ ResetTotals \/ ResetBlocks

\* A producer in the middle of a call goes on, the processing thread runs, and a
\* compare-and-swap of it that could succeed again and again at last does.
RingFairness ==
  /\ \A p \in Producers : WF_ringVars(Recording(p))
  /\ WF_ringVars(ProcessLoop) /\ SF_ringVars(PopClaim(Processor))

RingSpec == RingInit /\ [][RingNext]_ringVars /\ RingFairness

-----------------------------------------------------------------------------
(* Properties *)

\* The record at a position of the ring: its producer may not have written it.
RecordAt(pos) ==
  IF \E p \in Producers : ppc[p] = "write" /\ ppos[p] = pos
  THEN prec[CHOOSE p \in Producers : ppc[p] = "write" /\ ppos[p] = pos]
  ELSE buffer_[Index(pos)].data

Queue == INSTANCE LossyQueue WITH
  Items <- Record, NoItem <- NoRecord,
  queue <- [i \in 1..(tail_ - head_) |-> RecordAt(head_ + i - 1)],
  taken <- [k \in Consumers |-> IF kpc[k] = "copy" THEN buffer_[Index(kpos[k])].data ELSE got[k]]

\* The ring is a bounded first-in first-out queue for any number of producers
\* and two consumers: a push takes effect when it advances tail_, a pop when it
\* advances head_, and what is copied afterwards is the record that was pushed.
ImplementsQueue == Queue!QueueSpec

\* A running monitor takes every record out of the ring.
RingDrains == tail_ # head_ ~> tail_ = head_ \/ ~running_

=============================================================================
