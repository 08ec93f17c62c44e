------------------------- MODULE LockFreeMonitorProofs -------------------------
(***************************************************************************)
(* The ring buffer of the lock-free monitor is a first-in first-out queue, *)
(* for any capacity above one and any number of producers, though push and *)
(* pop read the cursors and the cells one at a time.                       *)
(***************************************************************************)
EXTENDS LockFreeMonitor, SequenceTheorems, TLAPS

-----------------------------------------------------------------------------
(* Cells of positions *)

LEMMA Division ==
  ASSUME NEW a \in Nat
  PROVE  \E q \in Nat : a = Capacity * q + Index(a)
<1>1. a = Capacity * (a \div Capacity) + (a % Capacity)
  BY RingAssumption
<1>2. a \div Capacity \in Nat
  BY RingAssumption
<1>3. QED BY <1>1, <1>2 DEF Index

LEMMA SameRemainder ==
  ASSUME NEW C \in Nat \ {0}, NEW p \in Nat, NEW q \in Nat,
         NEW r \in 0..(C - 1), NEW s \in 0..(C - 1), C * p + r = C * q + s
  PROVE  r = s
<1>1. C * (p - q) = s - r
  OBVIOUS
<1>2. p - q < 1
  <2> SUFFICES ASSUME p - q >= 1 PROVE FALSE
    OBVIOUS
  <2>1. C * (p - q) >= C
    OBVIOUS
  <2>2. QED BY <1>1, <2>1
<1>3. q - p < 1
  <2> SUFFICES ASSUME q - p >= 1 PROVE FALSE
    OBVIOUS
  <2>1. C * (q - p) >= C
    OBVIOUS
  <2>2. C * (q - p) = r - s
    BY <1>1
  <2>3. QED BY <2>1, <2>2
<1>4. p = q
  BY <1>2, <1>3
<1>5. QED BY <1>4

LEMMA IndexType ==
  ASSUME NEW a \in Nat
  PROVE  Index(a) \in 0..(Capacity - 1)
BY RingAssumption DEF Index

\* A position of the next round has the same cell.
LEMMA IndexRound ==
  ASSUME NEW a \in Nat
  PROVE  Index(a + Capacity) = Index(a)
<1>1. Capacity \in Nat \ {0} /\ a + Capacity \in Nat
  BY RingAssumption
<1>2. PICK q \in Nat : a = Capacity * q + Index(a)
  BY Division
<1>3. PICK p \in Nat : a + Capacity = Capacity * p + Index(a + Capacity)
  BY <1>1, Division
<1>4. PICK r, s, n : r = Index(a) /\ s = Index(a + Capacity) /\ n = q + 1
  OBVIOUS
<1>5. r \in 0..(Capacity - 1) /\ s \in 0..(Capacity - 1) /\ n \in Nat
  BY <1>1, <1>4, IndexType
<1>6. Capacity * n = Capacity * q + Capacity
  BY <1>1, <1>4
<1>7. Capacity * n + r = Capacity * p + s
  BY <1>1, <1>2, <1>3, <1>4, <1>5, <1>6
<1>8. r = s
  BY <1>1, <1>5, <1>7, SameRemainder
<1>9. QED BY <1>4, <1>8

\* Positions less than a round apart have different cells.
LEMMA IndexApart ==
  ASSUME NEW a \in Nat, NEW b \in Nat, a < b, b < a + Capacity
  PROVE  Index(a) # Index(b)
<1> SUFFICES ASSUME Index(a) = Index(b) PROVE FALSE
  OBVIOUS
<1>1. Capacity \in Nat \ {0}
  BY RingAssumption
<1>2. PICK q \in Nat : a = Capacity * q + Index(a)
  BY Division
<1>3. PICK p \in Nat : b = Capacity * p + Index(b)
  BY Division
<1>4. PICK r : r = Index(a)
  OBVIOUS
<1>5. r \in Nat
  BY <1>1, <1>4, IndexType
<1>6. 0 < Capacity * (p - q) /\ Capacity * (p - q) < Capacity
  BY <1>1, <1>2, <1>3, <1>4, <1>5
<1>7. p - q >= 1 => Capacity * (p - q) >= Capacity
  BY <1>1
<1>8. p - q < 1 => Capacity * (p - q) <= 0
  BY <1>1
<1>9. QED BY <1>1, <1>6, <1>7, <1>8

-----------------------------------------------------------------------------
(* Types *)

LEMMA NoRecordType == NoRecord \in Record
  BY RingAssumption DEF NoRecord, Record

\* RingTypeOK, in parts.
CellsOK ==
  /\ head_ \in Nat /\ tail_ \in Nat
  /\ buffer_ \in [0..(Capacity - 1) -> [sequence : Nat, data : Record]]
ProducersOK ==
  /\ ppc \in [Producers -> {"idle", "total", "load", "check", "claim", "write", "release"}]
  /\ ppos \in [Producers -> Nat] /\ prec \in [Producers -> Record]
ConsumersOK ==
  /\ kpc \in [Consumers -> {"idle", "load", "check", "claim", "copy", "release",
                            "resetTotals", "resetBlocks"}]
  /\ kpos \in [Consumers -> Nat] /\ got \in [Consumers -> Record]
  /\ processed \in 0..BATCH_SIZE
CountersOK ==
  /\ block_counts_ \in [CountedBlocks -> Nat]
  /\ total_accesses_ \in Nat /\ read_accesses_ \in Nat /\ write_accesses_ \in Nat
  /\ sample_state_ \in Nat
StateOK ==
  /\ monitoring_active_ \in BOOLEAN /\ running_ \in BOOLEAN /\ mode_ \in Modes
  /\ lifecycle \in {"down", "up", "join"} /\ starts \in 0..MaxStarts
BoundsOK == numbered \in 0..MaxCalls /\ clears \in 0..MaxClears

LEMMA TypeParts ==
  /\ RingTypeOK <=> CellsOK /\ ProducersOK /\ ConsumersOK /\ CountersOK /\ StateOK /\ BoundsOK
  /\ UNCHANGED ring /\ CellsOK => CellsOK'
  /\ UNCHANGED producer /\ ProducersOK => ProducersOK'
  /\ UNCHANGED consumer /\ ConsumersOK => ConsumersOK'
  /\ UNCHANGED ringCounters /\ CountersOK => CountersOK'
  /\ UNCHANGED ringState /\ StateOK => StateOK'
  /\ CellsOK' /\ ProducersOK' /\ ConsumersOK' /\ CountersOK' /\ StateOK' /\ BoundsOK' => RingTypeOK'
<1>1. RingTypeOK <=> CellsOK /\ ProducersOK /\ ConsumersOK /\ CountersOK /\ StateOK /\ BoundsOK
  BY DEF RingTypeOK, CellsOK, ProducersOK, ConsumersOK, CountersOK, StateOK, BoundsOK
<1>2. UNCHANGED ring /\ CellsOK => CellsOK'
  BY DEF ring, CellsOK
<1>3. UNCHANGED producer /\ ProducersOK => ProducersOK'
  BY DEF producer, ProducersOK
<1>4. UNCHANGED consumer /\ ConsumersOK => ConsumersOK'
  BY DEF consumer, ConsumersOK
<1>5. UNCHANGED ringCounters /\ CountersOK => CountersOK'
  BY DEF ringCounters, CountersOK
<1>6. UNCHANGED ringState /\ StateOK => StateOK'
  BY DEF ringState, StateOK
<1>7. CellsOK' /\ ProducersOK' /\ ConsumersOK' /\ CountersOK' /\ StateOK' /\ BoundsOK' => RingTypeOK'
  BY DEF RingTypeOK, CellsOK, ProducersOK, ConsumersOK, CountersOK, StateOK, BoundsOK
<1>8. QED BY <1>1, <1>2, <1>3, <1>4, <1>5, <1>6, <1>7

\* A producer's step keeps the types of what it has, and so does a consumer's.
LEMMA ProducerMoves ==
  ASSUME ProducersOK, NEW p \in Producers,
         NEW pc \in {"idle", "total", "load", "check", "claim", "write", "release"},
         NEW pos \in Nat, NEW record \in Record,
         ppc' = [ppc EXCEPT ![p] = pc],
         ppos' = ppos \/ ppos' = [ppos EXCEPT ![p] = pos],
         prec' = prec \/ prec' = [prec EXCEPT ![p] = record]
  PROVE  ProducersOK'
BY DEF ProducersOK

LEMMA ConsumerMoves ==
  ASSUME ConsumersOK, NEW k \in Consumers,
         NEW pc \in {"idle", "load", "check", "claim", "copy", "release",
                     "resetTotals", "resetBlocks"},
         NEW pos \in Nat, NEW record \in Record,
         kpc' = [kpc EXCEPT ![k] = pc],
         kpos' = kpos \/ kpos' = [kpos EXCEPT ![k] = pos],
         got' = got \/ got' = [got EXCEPT ![k] = record],
         processed' \in 0..BATCH_SIZE
  PROVE  ConsumersOK'
BY DEF ConsumersOK

LEMMA RingTypes ==
  ASSUME RingTypeOK, [RingNext]_ringVars
  PROVE  RingTypeOK'
<1> USE DEF GoProducer, GoConsumer
<1>1. /\ CellsOK /\ ProducersOK /\ ConsumersOK /\ CountersOK /\ StateOK /\ BoundsOK
      /\ head_ \in Nat /\ tail_ \in Nat /\ processed \in 0..BATCH_SIZE
      /\ numbered \in 0..MaxCalls /\ clears \in 0..MaxClears /\ starts \in 0..MaxStarts
  BY TypeParts DEF CellsOK, ConsumersOK, BoundsOK, StateOK
<1>2. /\ NoRecord \in Record /\ 0 \in Nat /\ 0 \in 0..BATCH_SIZE
      /\ (processed + 1) % BATCH_SIZE \in 0..BATCH_SIZE
  BY <1>1, NoRecordType, RingAssumption
<1>3. Processor \in Consumers /\ Clearer \in Consumers
  BY DEF Consumers
<1>4. CASE InitializeRing
  <2>1. UNCHANGED <<ring, producer>> /\ UNCHANGED <<numbered, clears>>
    BY <1>4 DEF InitializeRing
  <2>2. CountersOK' /\ StateOK'
    BY <1>1, <1>4, RingAssumption DEF InitializeRing, CountersOK, StateOK, ZeroCounts
  <2>3. ConsumersOK'
    BY <1>1, <1>2, <1>3, <1>4, ConsumerMoves DEF InitializeRing
  <2>4. QED BY <1>1, <2>1, <2>2, <2>3, TypeParts DEF BoundsOK
<1>5. CASE StartMonitoring \/ StopMonitoring \/ ShutdownRing \/ JoinProcessor
  <2>1. UNCHANGED <<ring, producer, consumer, ringCounters, numbered, clears>>
    BY <1>5 DEF StartMonitoring, StopMonitoring, ShutdownRing, JoinProcessor
  <2>2. StateOK'
    BY <1>1, <1>5 DEF StartMonitoring, StopMonitoring, ShutdownRing, JoinProcessor, StateOK
  <2>3. QED BY <1>1, <2>1, <2>2, TypeParts DEF BoundsOK
<1>6. ASSUME NEW p \in Producers, NEW access \in Kinds, RecordAccess(p, access)
      PROVE  RingTypeOK'
  <2> DEFINE record == [number |-> numbered + 1, block |-> access[1], kind |-> access[2]]
  <2>1. UNCHANGED <<ring, ppos, consumer, ringState, clears, total_accesses_,
                    read_accesses_, write_accesses_>> /\ numbered' = numbered + 1
        /\ numbered < MaxCalls
    BY <1>6 DEF RecordAccess
  <2>2. numbered + 1 \in 0..MaxCalls
    BY <1>1, <2>1, RingAssumption
  <2>3. access[1] \in {x[1] : x \in Kinds} /\ access[2] \in {"READ", "WRITE"}
    BY RingAssumption
  <2>4. record \in Record
    BY <2>2, <2>3 DEF Record
  <2>5. ProducersOK'
    <3>1. CASE mode_ = "FULL" \/ Sampled(sample_state_)
      <4>1. ppc' = [ppc EXCEPT ![p] = "total"] /\ prec' = [prec EXCEPT ![p] = record]
        BY <1>6, <3>1 DEF RecordAccess
      <4> HIDE DEF record
      <4>2. QED BY <1>1, <1>2, <2>1, <2>4, <4>1, ProducerMoves
    <3>2. CASE ~(mode_ = "FULL" \/ Sampled(sample_state_))
      BY <1>1, <1>6, <2>1, <3>2, TypeParts DEF RecordAccess, producer
    <3>3. QED BY <3>1, <3>2
  <2>6. CountersOK'
    <3>1. sample_state_' = sample_state_ + (IF mode_ = "SAMPLED" THEN 1 ELSE 0)
          /\ (block_counts_' = block_counts_
              \/ block_counts_' = [b \in CountedBlocks |->
                                     block_counts_[b] + (IF b = access[1] THEN 1 ELSE 0)])
      BY <1>6, Zenon DEF RecordAccess
    <3>2. QED BY <1>1, <2>1, <3>1 DEF CountersOK
  <2>7. QED BY <1>1, <2>1, <2>2, <2>5, <2>6, TypeParts DEF BoundsOK
<1>7. ASSUME NEW p \in Producers, CountAccess(p) PROVE RingTypeOK'
  <2>1. UNCHANGED <<ring, ppos, prec, consumer, ringState, numbered, clears>>
    BY <1>7 DEF CountAccess
  <2>2. CountersOK'
    BY <1>1, <1>7 DEF CountAccess, CountersOK
  <2>3. ProducersOK'
    BY <1>1, <1>2, <1>7, <2>1, ProducerMoves DEF CountAccess
  <2>4. QED BY <1>1, <2>1, <2>2, <2>3, TypeParts DEF BoundsOK
<1>8. ASSUME NEW p \in Producers,
             \/ PushLoad(p) \/ PushCheck(p) \/ PushClaim(p) \/ PushGiveUp(p)
             \/ PushWrite(p) \/ PushRelease(p)
      PROVE  RingTypeOK'
  <2> USE DEF PushLoad, PushCheck, PushClaim, PushGiveUp, PushWrite, PushRelease
  <2>1. UNCHANGED <<consumer, ringCounters, ringState, numbered, clears>>
    BY <1>8
  <2>2. ProducersOK'
    <3>1. CASE PushLoad(p)
      BY <1>1, <1>2, <3>1, ProducerMoves
    <3>2. CASE PushCheck(p)
      BY <1>1, <1>2, <3>2, ProducerMoves DEF EndPush
    <3>3. CASE PushClaim(p) \/ PushWrite(p)
      BY <1>1, <1>2, <3>3, ProducerMoves
    <3>4. CASE PushGiveUp(p) \/ PushRelease(p)
      BY <1>1, <1>2, <3>4, ProducerMoves DEF EndPush
    <3>5. QED BY <1>8, <3>1, <3>2, <3>3, <3>4
  <2>3. CellsOK'
    <3>1. CASE PushLoad(p) \/ PushCheck(p) \/ PushGiveUp(p)
      BY <1>1, <3>1, TypeParts
    <3>2. CASE PushClaim(p)
      BY <1>1, <3>2 DEF CellsOK, ProducersOK
    <3>3. CASE PushWrite(p) \/ PushRelease(p)
      <4>1. ppos[p] \in Nat /\ prec[p] \in Record /\ ppos[p] + 1 \in Nat
        BY <1>1 DEF ProducersOK
      <4>2. buffer_' \in [0..(Capacity - 1) -> [sequence : Nat, data : Record]]
        BY <1>1, <3>3, <4>1 DEF CellsOK
      <4>3. QED BY <1>1, <3>3, <4>2 DEF CellsOK
    <3>4. QED BY <1>8, <3>1, <3>2, <3>3
  <2>4. QED BY <1>1, <2>1, <2>2, <2>3, TypeParts DEF BoundsOK
<1>9. ASSUME NEW k \in Consumers,
             \/ PopLoad(k) \/ PopCheck(k) \/ PopClaim(k) \/ PopGiveUp(k)
             \/ PopCopy(k) \/ PopRelease(k)
      PROVE  RingTypeOK'
  <2> USE DEF PopLoad, PopCheck, PopClaim, PopGiveUp, PopCopy, PopRelease, PopFails
  <2>1. UNCHANGED <<producer, ringCounters, ringState, numbered, clears>>
    BY <1>9
  <2>2. ConsumersOK'
    <3>1. CASE PopLoad(k) \/ PopClaim(k)
      BY <1>1, <1>2, <3>1, ConsumerMoves
    <3>2. CASE PopCheck(k) \/ PopGiveUp(k)
      BY <1>1, <1>2, <3>2, ConsumerMoves
    <3>3. CASE PopCopy(k)
      <4>1. buffer_[Index(kpos[k])].data \in Record
        <5>1. Index(kpos[k]) \in 0..(Capacity - 1)
          BY <1>1, IndexType DEF ConsumersOK
        <5>2. QED BY <1>1, <5>1 DEF CellsOK
      <4>2. QED BY <1>1, <1>2, <3>3, <4>1, ConsumerMoves
    <3>4. CASE PopRelease(k)
      <4>1. processed' \in 0..BATCH_SIZE
        BY <1>1, <1>2, <3>4
      <4>2. QED BY <1>1, <1>2, <3>4, <4>1, ConsumerMoves
    <3>5. QED BY <1>9, <3>1, <3>2, <3>3, <3>4
  <2>3. CellsOK'
    <3>1. CASE PopLoad(k) \/ PopCheck(k) \/ PopGiveUp(k) \/ PopCopy(k)
      BY <1>1, <3>1, TypeParts
    <3>2. CASE PopClaim(k)
      BY <1>1, <3>2 DEF CellsOK, ConsumersOK
    <3>3. CASE PopRelease(k)
      <4>1. NextRound(kpos[k]) \in Nat
        BY <1>1, RingAssumption DEF NextRound, ConsumersOK
      <4>2. buffer_' \in [0..(Capacity - 1) -> [sequence : Nat, data : Record]]
        BY <1>1, <3>3, <4>1 DEF CellsOK
      <4>3. QED BY <1>1, <3>3, <4>2 DEF CellsOK
    <3>4. QED BY <1>9, <3>1, <3>2, <3>3
  <2>4. QED BY <1>1, <2>1, <2>2, <2>3, TypeParts DEF BoundsOK
<1>10. CASE ProcessorEnds \/ ClearHistory \/ ResetTotals \/ ResetBlocks
  <2>1. UNCHANGED <<ring, producer, ringState, numbered>>
    BY <1>10 DEF ProcessorEnds, ClearHistory, ResetTotals, ResetBlocks
  <2>2. CountersOK' /\ clears' \in 0..MaxClears
    BY <1>1, <1>10, RingAssumption
    DEF ProcessorEnds, ClearHistory, ResetTotals, ResetBlocks, ringCounters, CountersOK, ZeroCounts
  <2>3. ConsumersOK'
    <3>1. UNCHANGED <<kpos, got, processed>>
          /\ \E k \in Consumers, pc \in {"idle", "load", "resetBlocks"} :
               kpc' = [kpc EXCEPT ![k] = pc]
      BY <1>3, <1>10 DEF ProcessorEnds, ClearHistory, ResetTotals, ResetBlocks
    <3>2. QED BY <1>1, <1>2, <3>1, ConsumerMoves
  <2>4. QED BY <1>1, <2>1, <2>2, <2>3, TypeParts DEF BoundsOK
<1>11. CASE UNCHANGED ringVars
  BY <1>1, <1>11, TypeParts DEF ringVars, BoundsOK
<1>12. QED
  BY <1>3, <1>4, <1>5, <1>6, <1>7, <1>8, <1>9, <1>10, <1>11
  DEF RingNext, Recording, ProcessLoop, Popping

LEMMA RingStartTypes == RingInit => RingTypeOK
<1> SUFFICES ASSUME RingInit PROVE RingTypeOK
  OBVIOUS
<1>1. ProducersOK /\ ConsumersOK
  BY NoRecordType, RingAssumption DEF RingInit, ProducersOK, ConsumersOK
<1>2. CountersOK /\ StateOK /\ BoundsOK
  <2>1. CountersOK
    BY DEF RingInit, CountersOK, ZeroCounts
  <2>2. monitoring_active_ \in BOOLEAN /\ running_ \in BOOLEAN
    BY DEF RingInit
  <2>3. QED BY <2>1, <2>2, RingAssumption DEF RingInit, StateOK, BoundsOK
<1>3. CellsOK
  BY NoRecordType, RingAssumption DEF RingInit, CellsOK
<1>4. QED BY <1>1, <1>2, <1>3, TypeParts

-----------------------------------------------------------------------------
(* The invariant *)

\* A producer that has its position and has not released the cell, and a
\* consumer likewise.
Writing(p) == ppc[p] \in {"write", "release"}
Reading(k) == kpc[k] \in {"copy", "release"}

BeingWritten(pos) == \E p \in Producers : Writing(p) /\ ppos[p] = pos
BeingRead(pos) == \E k \in Consumers : Reading(k) /\ kpos[k] = pos

SequenceAt(pos) == buffer_[Index(pos)].sequence

\* Writers have positions of their own in the queue, readers positions of their
\* own behind it, less than a round before the first free one.
HoldersInv ==
  /\ head_ <= tail_ /\ tail_ <= head_ + Capacity
  /\ \A p \in Producers : Writing(p) => head_ <= ppos[p] /\ ppos[p] < tail_
  /\ \A p, q \in Producers : Writing(p) /\ Writing(q) /\ ppos[p] = ppos[q] => p = q
  /\ \A k \in Consumers : Reading(k) => kpos[k] < head_ /\ tail_ <= kpos[k] + Capacity
  /\ \A j, k \in Consumers : Reading(j) /\ Reading(k) /\ kpos[j] = kpos[k] => j = k

\* The sequence of a cell says where the position stands that it is used for.
CellsInv ==
  /\ \A pos \in Nat : head_ <= pos /\ pos < tail_ =>
       SequenceAt(pos) = IF BeingWritten(pos) THEN pos ELSE pos + 1
  /\ \A pos \in Nat : tail_ <= pos /\ pos < head_ + Capacity =>
       SequenceAt(pos) = IF BeingRead(pos - Capacity) THEN pos - Capacity + 1 ELSE pos

\* A cursor that still has the value loaded guards a cell that is still as found.
ClaimsInv ==
  /\ \A p \in Producers : ppc[p] \in {"check", "claim"} => ppos[p] <= tail_
  /\ \A p \in Producers : ppc[p] = "claim" /\ ppos[p] = tail_ => SequenceAt(tail_) = tail_
  /\ \A k \in Consumers : kpc[k] \in {"check", "claim"} => kpos[k] <= head_
  /\ \A k \in Consumers : kpc[k] = "claim" /\ kpos[k] = head_ => SequenceAt(head_) = head_ + 1

RingInv == RingTypeOK /\ HoldersInv /\ CellsInv /\ ClaimsInv

LEMMA Cursors ==
  ASSUME RingInv
  PROVE  /\ head_ \in Nat /\ tail_ \in Nat /\ head_ <= tail_ /\ tail_ <= head_ + Capacity
         /\ Capacity \in Nat /\ Capacity > 1
         /\ \A p \in Producers : ppos[p] \in Nat
         /\ \A k \in Consumers : kpos[k] \in Nat
         /\ DOMAIN buffer_ = 0..(Capacity - 1)
BY RingAssumption DEF RingInv, HoldersInv, RingTypeOK

\* The first free position, when its cell is free for it.
LEMMA FreeCell ==
  ASSUME RingInv, SequenceAt(tail_) = tail_
  PROVE  tail_ < head_ + Capacity /\ ~BeingRead(tail_ - Capacity)
<1>1. tail_ < head_ + Capacity
  <2> SUFFICES ASSUME tail_ = head_ + Capacity PROVE FALSE
    BY Cursors
  <2>1. SequenceAt(head_) = tail_
    BY Cursors, IndexRound DEF SequenceAt
  <2>2. SequenceAt(head_) \in {head_, head_ + 1}
    BY Cursors DEF RingInv, CellsInv
  <2>3. QED BY <2>1, <2>2, Cursors
<1>2. ~BeingRead(tail_ - Capacity)
  BY <1>1, Cursors DEF RingInv, CellsInv
<1>3. QED BY <1>1, <1>2

\* The first position of the queue, when its cell is filled.
LEMMA FilledCell ==
  ASSUME RingInv, SequenceAt(head_) = head_ + 1
  PROVE  head_ < tail_ /\ ~BeingWritten(head_)
<1>1. head_ < tail_
  <2> SUFFICES ASSUME head_ = tail_ PROVE FALSE
    BY Cursors
  <2>1. SequenceAt(head_) \in {head_, head_ - Capacity + 1}
    BY Cursors DEF RingInv, CellsInv
  <2>2. QED BY <2>1, Cursors
<1>2. ~BeingWritten(head_)
  BY <1>1, Cursors DEF RingInv, CellsInv
<1>3. QED BY <1>1, <1>2

\* Positions that are being written or read.
LEMMA Holders ==
  ASSUME RingInv
  PROVE  /\ \A pos : BeingWritten(pos) => pos \in Nat /\ head_ <= pos /\ pos < tail_
         /\ \A pos : BeingRead(pos) => pos \in Nat /\ pos < head_ /\ tail_ <= pos + Capacity
BY Cursors DEF RingInv, HoldersInv, BeingWritten, BeingRead

\* A step that leaves the ring and those who hold a position alone.
LEMMA LocalStep ==
  ASSUME RingInv, RingTypeOK', UNCHANGED ring, ClaimsInv',
         \A p \in Producers : \/ ppc'[p] = ppc[p] /\ ppos'[p] = ppos[p]
                              \/ ~Writing(p) /\ ppc'[p] \notin {"write", "release"}
                              \/ /\ Writing(p) /\ ppc'[p] \in {"write", "release"}
                                 /\ ppos'[p] = ppos[p],
         \A k \in Consumers : \/ kpc'[k] = kpc[k] /\ kpos'[k] = kpos[k]
                              \/ ~Reading(k) /\ kpc'[k] \notin {"copy", "release"}
                              \/ /\ Reading(k) /\ kpc'[k] \in {"copy", "release"}
                                 /\ kpos'[k] = kpos[k]
  PROVE  RingInv'
<1>1. \A p \in Producers : Writing(p)' <=> Writing(p)
  BY DEF Writing
<1>2. \A p \in Producers : Writing(p) => ppos'[p] = ppos[p]
  BY DEF Writing
<1>3. \A k \in Consumers : Reading(k)' <=> Reading(k)
  BY DEF Reading
<1>4. \A k \in Consumers : Reading(k) => kpos'[k] = kpos[k]
  BY DEF Reading
<1>5. \A pos : (BeingWritten(pos)' <=> BeingWritten(pos)) /\ (BeingRead(pos)' <=> BeingRead(pos))
  BY <1>1, <1>2, <1>3, <1>4, Zenon DEF BeingWritten, BeingRead
<1>6. HoldersInv'
  <2>1. \A p \in Producers : Writing(p)' => head_' <= ppos'[p] /\ ppos'[p] < tail_'
    BY <1>1, <1>2 DEF RingInv, HoldersInv, ring
  <2>2. \A p, q \in Producers : Writing(p)' /\ Writing(q)' /\ ppos'[p] = ppos'[q] => p = q
    BY <1>1, <1>2 DEF RingInv, HoldersInv
  <2>3. \A k \in Consumers : Reading(k)' => kpos'[k] < head_' /\ tail_' <= kpos'[k] + Capacity
    BY <1>3, <1>4 DEF RingInv, HoldersInv, ring
  <2>4. \A j, k \in Consumers : Reading(j)' /\ Reading(k)' /\ kpos'[j] = kpos'[k] => j = k
    BY <1>3, <1>4 DEF RingInv, HoldersInv
  <2>5. head_' <= tail_' /\ tail_' <= head_' + Capacity
    BY DEF RingInv, HoldersInv, ring
  <2>6. QED BY <2>1, <2>2, <2>3, <2>4, <2>5 DEF HoldersInv
<1>7. CellsInv'
  <2>1. \A pos : SequenceAt(pos)' = SequenceAt(pos)
    BY DEF SequenceAt, ring
  <2>2. head_' = head_ /\ tail_' = tail_
    BY DEF ring
  <2>3. QED BY <1>5, <2>1, <2>2 DEF RingInv, CellsInv
<1>8. QED BY <1>6, <1>7 DEF RingInv

\* The ring stays and one producer moves outside the queue.
LEMMA ProducerLocal ==
  ASSUME RingInv, RingTypeOK', UNCHANGED <<ring, kpc, kpos>>, NEW p \in Producers,
         NEW pc, NEW pos \in Nat,
         ppc' = [ppc EXCEPT ![p] = pc], ppos' = [ppos EXCEPT ![p] = pos],
         \/ ~Writing(p) /\ pc \notin {"write", "release"}
         \/ Writing(p) /\ pc = "release" /\ pos = ppos[p],
         pc \in {"check", "claim"} => pos <= tail_,
         pc = "claim" /\ pos = tail_ => SequenceAt(tail_) = tail_
  PROVE  RingInv'
<1>1. /\ ppc'[p] = pc /\ ppos'[p] = pos
      /\ \A q \in Producers \ {p} : ppc'[q] = ppc[q] /\ ppos'[q] = ppos[q]
  BY DEF RingInv, RingTypeOK
<1>2. ClaimsInv'
  BY <1>1 DEF RingInv, ClaimsInv, SequenceAt, ring
<1>3. QED BY <1>1, <1>2, LocalStep

LEMMA ConsumerLocal ==
  ASSUME RingInv, RingTypeOK', UNCHANGED <<ring, ppc, ppos>>, NEW k \in Consumers,
         NEW pc, NEW pos \in Nat,
         kpc' = [kpc EXCEPT ![k] = pc], kpos' = [kpos EXCEPT ![k] = pos],
         \/ ~Reading(k) /\ pc \notin {"copy", "release"}
         \/ Reading(k) /\ pc = "release" /\ pos = kpos[k],
         pc \in {"check", "claim"} => pos <= head_,
         pc = "claim" /\ pos = head_ => SequenceAt(head_) = head_ + 1
  PROVE  RingInv'
<1>1. /\ kpc'[k] = pc /\ kpos'[k] = pos
      /\ \A j \in Consumers \ {k} : kpc'[j] = kpc[j] /\ kpos'[j] = kpos[j]
  BY DEF RingInv, RingTypeOK
<1>2. ClaimsInv'
  BY <1>1 DEF RingInv, ClaimsInv, SequenceAt, ring
<1>3. QED BY <1>1, <1>2, LocalStep

-----------------------------------------------------------------------------
(* Steps that move a cursor or touch a cell *)

LEMMA PushClaimStep ==
  ASSUME RingInv, RingTypeOK', NEW p \in Producers, PushClaim(p)
  PROVE  RingInv'
<1>1. /\ ppc[p] = "claim" /\ ppc' = [ppc EXCEPT ![p] = "write"]
      /\ ppos[p] = tail_ /\ tail_' = tail_ + 1
      /\ UNCHANGED <<head_, buffer_, ppos, kpc, kpos>>
  BY DEF PushClaim, Claimable, GoProducer, consumer
<1>2. SequenceAt(tail_) = tail_
  BY <1>1 DEF RingInv, ClaimsInv
<1>3. tail_ < head_ + Capacity /\ ~BeingRead(tail_ - Capacity)
  BY <1>2, FreeCell
<1>4. /\ ~Writing(p) /\ Writing(p)'
      /\ \A q \in Producers \ {p} : (Writing(q)' <=> Writing(q)) /\ ppc'[q] = ppc[q]
      /\ \A k \in Consumers : Reading(k)' <=> Reading(k)
  BY <1>1 DEF Writing, Reading, RingInv, RingTypeOK
<1>5. \A pos : (BeingRead(pos)' <=> BeingRead(pos))
  BY <1>1 DEF BeingRead, Reading
<1>6. \A pos : BeingWritten(pos)' <=> BeingWritten(pos) \/ pos = tail_
  BY <1>1, <1>4 DEF BeingWritten
<1>7. \A k \in Consumers : Reading(k) => kpos[k] < head_ /\ tail_ + 1 <= kpos[k] + Capacity
  <2> SUFFICES ASSUME NEW k \in Consumers, Reading(k)
               PROVE  kpos[k] < head_ /\ tail_ + 1 <= kpos[k] + Capacity
    OBVIOUS
  <2>1. kpos[k] < head_ /\ tail_ <= kpos[k] + Capacity
    BY DEF RingInv, HoldersInv
  <2>2. kpos[k] # tail_ - Capacity
    BY <1>3 DEF BeingRead
  <2>3. QED BY <2>1, <2>2, Cursors
<1>8. HoldersInv'
  <2>1. \A q \in Producers : Writing(q)' => head_' <= ppos'[q] /\ ppos'[q] < tail_'
    BY <1>1, <1>4, Cursors DEF RingInv, HoldersInv
  <2>2. \A q, r \in Producers : Writing(q)' /\ Writing(r)' /\ ppos'[q] = ppos'[r] => q = r
    BY <1>1, <1>4, Cursors DEF RingInv, HoldersInv
  <2>3. \A k \in Consumers : Reading(k)' => kpos'[k] < head_' /\ tail_' <= kpos'[k] + Capacity
    BY <1>1, <1>4, <1>7
  <2>4. \A j, k \in Consumers : Reading(j)' /\ Reading(k)' /\ kpos'[j] = kpos'[k] => j = k
    BY <1>1, <1>4 DEF RingInv, HoldersInv
  <2>5. head_' <= tail_' /\ tail_' <= head_' + Capacity
    BY <1>1, <1>3, Cursors
  <2>6. QED BY <2>1, <2>2, <2>3, <2>4, <2>5 DEF HoldersInv
<1>9. CellsInv'
  <2>1. \A pos : SequenceAt(pos)' = SequenceAt(pos)
    BY <1>1 DEF SequenceAt
  <2>2. \A pos \in Nat : head_ <= pos /\ pos < tail_ + 1 =>
          SequenceAt(pos) = IF BeingWritten(pos) \/ pos = tail_ THEN pos ELSE pos + 1
    BY <1>2, Cursors DEF RingInv, CellsInv
  <2>3. \A pos \in Nat : tail_ + 1 <= pos /\ pos < head_ + Capacity =>
          SequenceAt(pos) = IF BeingRead(pos - Capacity) THEN pos - Capacity + 1 ELSE pos
    BY Cursors DEF RingInv, CellsInv
  <2>4. QED BY <1>1, <1>5, <1>6, <2>1, <2>2, <2>3 DEF CellsInv
<1>10. ClaimsInv'
  <2>1. \A q \in Producers : ppc'[q] \in {"check", "claim"} => q # p /\ ppos[q] <= tail_
    BY <1>1, <1>4 DEF RingInv, ClaimsInv, RingTypeOK
  <2>2. \A q \in Producers : ppc'[q] \in {"check", "claim"} => ppos'[q] < tail_'
    BY <1>1, <2>1, Cursors
  <2>3. \A q \in Producers : ppos'[q] < tail_' => ppos'[q] <= tail_' /\ ppos'[q] # tail_'
    BY <1>1, Cursors
  <2>4. QED BY <1>1, <2>2, <2>3 DEF RingInv, ClaimsInv, SequenceAt
<1>11. QED BY <1>8, <1>9, <1>10 DEF RingInv

\* Who holds a position stays, and the sequences too.
LEMMA PushWriteStep ==
  ASSUME RingInv, RingTypeOK', NEW p \in Producers, PushWrite(p)
  PROVE  RingInv'
<1>1. /\ ppc[p] = "write" /\ ppc' = [ppc EXCEPT ![p] = "release"]
      /\ buffer_' = [buffer_ EXCEPT ![Index(ppos[p])].data = prec[p]]
      /\ UNCHANGED <<head_, tail_, ppos, kpc, kpos>>
  BY DEF PushWrite, GoProducer, consumer
<1>2. \A pos \in Nat : SequenceAt(pos)' = SequenceAt(pos)
  <2>1. \A i \in 0..(Capacity - 1) : buffer_'[i].sequence = buffer_[i].sequence
    BY <1>1, Cursors DEF RingInv, RingTypeOK
  <2>2. QED BY <2>1, IndexType DEF SequenceAt
<1>3. \A q \in Producers : /\ Writing(q)' <=> Writing(q)
                           /\ ppc'[q] \in {"check", "claim"} => ppc'[q] = ppc[q]
  BY <1>1 DEF Writing, RingInv, RingTypeOK
<1>4. \A k \in Consumers : Reading(k)' <=> Reading(k)
  BY <1>1 DEF Reading
<1>5. \A pos : (BeingWritten(pos)' <=> BeingWritten(pos)) /\ (BeingRead(pos)' <=> BeingRead(pos))
  BY <1>1, <1>3, <1>4 DEF BeingWritten, BeingRead
<1>6. HoldersInv'
  BY <1>1, <1>3, <1>4 DEF RingInv, HoldersInv
<1>7. CellsInv'
  BY <1>1, <1>2, <1>5 DEF RingInv, CellsInv
<1>8. ClaimsInv'
  <2>1. SequenceAt(tail_)' = SequenceAt(tail_) /\ SequenceAt(head_)' = SequenceAt(head_)
    BY <1>1, <1>2, Cursors DEF SequenceAt
  <2>2. QED BY <1>1, <1>3, <2>1 DEF RingInv, ClaimsInv
<1>9. QED BY <1>6, <1>7, <1>8 DEF RingInv

\* A new sequence for the cell of one position of the round from head_ on.
LEMMA OneCell ==
  ASSUME RingInv, NEW pos \in Nat, head_ <= pos, pos < head_ + Capacity, NEW s \in Nat,
         buffer_' = [buffer_ EXCEPT ![Index(pos)].sequence = s]
  PROVE  /\ buffer_'[Index(pos)].sequence = s
         /\ \A x \in Nat : head_ <= x /\ x < head_ + Capacity /\ x # pos =>
              buffer_'[Index(x)].sequence = SequenceAt(x)
<1>1. \A i \in 0..(Capacity - 1) :
        buffer_'[i].sequence = IF i = Index(pos) THEN s ELSE buffer_[i].sequence
  BY DEF RingInv, RingTypeOK
<1>2. \A x \in Nat : head_ <= x /\ x < head_ + Capacity /\ x # pos => Index(x) # Index(pos)
  <2> SUFFICES ASSUME NEW x \in Nat, head_ <= x, x < head_ + Capacity, x # pos
               PROVE  Index(x) # Index(pos)
    OBVIOUS
  <2>1. CASE x < pos
    BY <2>1, Cursors, IndexApart
  <2>2. CASE pos < x
    BY <2>2, Cursors, IndexApart
  <2>3. QED BY <2>1, <2>2
<1>3. QED BY <1>1, <1>2, IndexType DEF SequenceAt

LEMMA PushReleaseStep ==
  ASSUME RingInv, RingTypeOK', NEW p \in Producers, PushRelease(p)
  PROVE  RingInv'
<1>1. PICK pos : pos = ppos[p]
  OBVIOUS
<1>2. /\ ppc[p] = "release" /\ ppc' = [ppc EXCEPT ![p] = "idle"]
      /\ ppos' = [ppos EXCEPT ![p] = 0]
      /\ buffer_' = [buffer_ EXCEPT ![Index(pos)].sequence = pos + 1]
      /\ UNCHANGED <<head_, tail_, kpc, kpos>>
  BY <1>1 DEF PushRelease, EndPush, consumer
<1>3. Writing(p) /\ pos \in Nat /\ head_ <= pos /\ pos < tail_ /\ pos < head_ + Capacity
      /\ pos + 1 \in Nat
  BY <1>1, <1>2, Cursors DEF Writing, RingInv, HoldersInv
<1>4. /\ buffer_'[Index(pos)].sequence = pos + 1
      /\ \A x \in Nat : head_ <= x /\ x < head_ + Capacity /\ x # pos =>
           buffer_'[Index(x)].sequence = SequenceAt(x)
  BY <1>2, <1>3, OneCell
<1>5. /\ ~Writing(p)' /\ ppc'[p] = "idle"
      /\ \A q \in Producers \ {p} : /\ Writing(q)' <=> Writing(q)
                                    /\ ppc'[q] = ppc[q] /\ ppos'[q] = ppos[q]
      /\ \A k \in Consumers : Reading(k)' <=> Reading(k)
  BY <1>2 DEF Writing, Reading, RingInv, RingTypeOK
<1>6. \A q \in Producers \ {p} : Writing(q) => ppos[q] # pos
  BY <1>1, <1>3 DEF RingInv, HoldersInv
<1>7. \A x : BeingWritten(x)' <=> BeingWritten(x) /\ x # pos
  BY <1>1, <1>5, <1>6 DEF BeingWritten
<1>8. \A x : (BeingRead(x)' <=> BeingRead(x))
  BY <1>2 DEF BeingRead, Reading
<1>9. HoldersInv'
  <2>1. \A q \in Producers : Writing(q)' => head_' <= ppos'[q] /\ ppos'[q] < tail_'
    BY <1>2, <1>5 DEF RingInv, HoldersInv
  <2>2. \A q, r \in Producers : Writing(q)' /\ Writing(r)' /\ ppos'[q] = ppos'[r] => q = r
    BY <1>5 DEF RingInv, HoldersInv
  <2>3. QED BY <1>2, <1>5, <2>1, <2>2 DEF RingInv, HoldersInv
<1>10. CellsInv'
  <2>1. \A x \in Nat : head_ <= x /\ x < tail_ =>
          buffer_'[Index(x)].sequence = IF BeingWritten(x) /\ x # pos THEN x ELSE x + 1
    <3> SUFFICES ASSUME NEW x \in Nat, head_ <= x, x < tail_
                 PROVE  buffer_'[Index(x)].sequence =
                          IF BeingWritten(x) /\ x # pos THEN x ELSE x + 1
      OBVIOUS
    <3>1. SequenceAt(x) = IF BeingWritten(x) THEN x ELSE x + 1
      BY DEF RingInv, CellsInv
    <3>2. x # pos => buffer_'[Index(x)].sequence = SequenceAt(x)
      BY <1>4, Cursors
    <3>3. QED BY <1>4, <3>1, <3>2
  <2>2. \A x \in Nat : tail_ <= x /\ x < head_ + Capacity =>
          buffer_'[Index(x)].sequence =
            IF BeingRead(x - Capacity) THEN x - Capacity + 1 ELSE x
    <3> SUFFICES ASSUME NEW x \in Nat, tail_ <= x, x < head_ + Capacity
                 PROVE  buffer_'[Index(x)].sequence =
                          IF BeingRead(x - Capacity) THEN x - Capacity + 1 ELSE x
      OBVIOUS
    <3>1. SequenceAt(x) = IF BeingRead(x - Capacity) THEN x - Capacity + 1 ELSE x
      BY DEF RingInv, CellsInv
    <3>2. buffer_'[Index(x)].sequence = SequenceAt(x)
      BY <1>3, <1>4, Cursors
    <3>3. QED BY <3>1, <3>2
  <2>3. QED BY <1>2, <1>7, <1>8, <2>1, <2>2 DEF CellsInv, SequenceAt
<1>11. ClaimsInv'
  <2>1. SequenceAt(tail_) = tail_ => buffer_'[Index(tail_)].sequence = tail_
    BY <1>3, <1>4, FreeCell, Cursors
  <2>2. SequenceAt(head_) = head_ + 1 => buffer_'[Index(head_)].sequence = head_ + 1
    <3>1. SequenceAt(head_) = head_ + 1 => head_ # pos
      BY <1>1, <1>3, FilledCell DEF BeingWritten
    <3>2. QED BY <1>4, <3>1, Cursors
  <2>3. \A q \in Producers : ppc'[q] \in {"check", "claim"} =>
          q # p /\ ppc'[q] = ppc[q] /\ ppos'[q] = ppos[q]
    BY <1>5
  <2>4. QED BY <1>2, <2>1, <2>2, <2>3 DEF RingInv, ClaimsInv, SequenceAt
<1>12. QED BY <1>9, <1>10, <1>11 DEF RingInv

LEMMA PopClaimStep ==
  ASSUME RingInv, RingTypeOK', NEW k \in Consumers, PopClaim(k)
  PROVE  RingInv'
<1>1. /\ kpc[k] = "claim" /\ kpc' = [kpc EXCEPT ![k] = "copy"]
      /\ kpos[k] = head_ /\ head_' = head_ + 1
      /\ UNCHANGED <<tail_, buffer_, kpos, ppc, ppos>>
  BY DEF PopClaim, GoConsumer, producer
<1>2. SequenceAt(head_) = head_ + 1
  BY <1>1 DEF RingInv, ClaimsInv
<1>3. head_ < tail_ /\ ~BeingWritten(head_)
  BY <1>2, FilledCell
<1>4. /\ ~Reading(k) /\ Reading(k)' /\ kpc'[k] = "copy"
      /\ \A j \in Consumers \ {k} : (Reading(j)' <=> Reading(j)) /\ kpc'[j] = kpc[j]
      /\ \A p \in Producers : Writing(p)' <=> Writing(p)
  BY <1>1 DEF Writing, Reading, RingInv, RingTypeOK
<1>5. \A pos : BeingWritten(pos)' <=> BeingWritten(pos)
  BY <1>1 DEF BeingWritten, Writing
<1>6. \A pos : BeingRead(pos)' <=> BeingRead(pos) \/ pos = head_
  BY <1>1, <1>4 DEF BeingRead
<1>7. \A p \in Producers : Writing(p) => head_ + 1 <= ppos[p] /\ ppos[p] < tail_
  <2> SUFFICES ASSUME NEW p \in Producers, Writing(p)
               PROVE  head_ + 1 <= ppos[p] /\ ppos[p] < tail_
    OBVIOUS
  <2>1. head_ <= ppos[p] /\ ppos[p] < tail_
    BY DEF RingInv, HoldersInv
  <2>2. ppos[p] # head_
    BY <1>3 DEF BeingWritten
  <2>3. QED BY <2>1, <2>2, Cursors
<1>8. HoldersInv'
  <2>1. \A p \in Producers : Writing(p)' => head_' <= ppos'[p] /\ ppos'[p] < tail_'
    BY <1>1, <1>4, <1>7
  <2>2. \A p, q \in Producers : Writing(p)' /\ Writing(q)' /\ ppos'[p] = ppos'[q] => p = q
    BY <1>1, <1>4 DEF RingInv, HoldersInv
  <2>3. \A j \in Consumers : Reading(j)' => kpos'[j] < head_' /\ tail_' <= kpos'[j] + Capacity
    BY <1>1, <1>4, Cursors DEF RingInv, HoldersInv
  <2>4. \A i, j \in Consumers : Reading(i)' /\ Reading(j)' /\ kpos'[i] = kpos'[j] => i = j
    BY <1>1, <1>4, Cursors DEF RingInv, HoldersInv
  <2>5. head_' <= tail_' /\ tail_' <= head_' + Capacity
    BY <1>1, <1>3, Cursors
  <2>6. QED BY <2>1, <2>2, <2>3, <2>4, <2>5 DEF HoldersInv
<1>9. CellsInv'
  <2>1. \A pos : SequenceAt(pos)' = SequenceAt(pos)
    BY <1>1 DEF SequenceAt
  <2>2. \A pos \in Nat : head_ + 1 <= pos /\ pos < tail_ =>
          SequenceAt(pos) = IF BeingWritten(pos) THEN pos ELSE pos + 1
    BY Cursors DEF RingInv, CellsInv
  <2>3. ASSUME NEW pos \in Nat, tail_ <= pos, pos < head_ + 1 + Capacity
        PROVE  SequenceAt(pos) = IF BeingRead(pos - Capacity) \/ pos - Capacity = head_
                                 THEN pos - Capacity + 1 ELSE pos
    <3>1. CASE pos = head_ + Capacity
      <4>1. pos - Capacity = head_
        BY <3>1, Cursors
      <4>2. Index(pos) = Index(head_)
        BY <3>1, Cursors, IndexRound
      <4>3. SequenceAt(pos) = head_ + 1
        BY <1>2, <4>2 DEF SequenceAt
      <4>4. QED BY <4>1, <4>3
    <3>2. CASE pos # head_ + Capacity
      <4>1. pos < head_ + Capacity /\ pos - Capacity # head_
        BY <2>3, <3>2, Cursors
      <4>2. QED BY <2>3, <4>1 DEF RingInv, CellsInv
    <3>3. QED BY <3>1, <3>2
  <2>4. QED BY <1>1, <1>5, <1>6, <2>1, <2>2, <2>3 DEF CellsInv
<1>10. ClaimsInv'
  <2>1. \A j \in Consumers : kpc'[j] \in {"check", "claim"} => j # k /\ kpos[j] <= head_
    BY <1>1, <1>4 DEF RingInv, ClaimsInv
  <2>2. \A j \in Consumers : kpc'[j] \in {"check", "claim"} => kpos'[j] < head_'
    BY <1>1, <2>1, Cursors
  <2>3. \A j \in Consumers : kpos'[j] < head_' => kpos'[j] <= head_' /\ kpos'[j] # head_'
    BY <1>1, Cursors
  <2>4. QED BY <1>1, <2>2, <2>3 DEF RingInv, ClaimsInv, SequenceAt
<1>11. QED BY <1>8, <1>9, <1>10 DEF RingInv

LEMMA PopReleaseStep ==
  ASSUME RingInv, RingTypeOK', NEW k \in Consumers, PopRelease(k)
  PROVE  RingInv'
<1>1. PICK old, pos : old = kpos[k] /\ pos = old + Capacity
  OBVIOUS
<1>2. /\ kpc[k] = "release" /\ kpc' = [kpc EXCEPT ![k] = "load"]
      /\ kpos' = [kpos EXCEPT ![k] = 0]
      /\ buffer_' = [buffer_ EXCEPT ![Index(old)].sequence = pos]
      /\ UNCHANGED <<head_, tail_, ppc, ppos>>
  BY <1>1 DEF PopRelease, NextRound, GoConsumer, producer
<1>3. /\ Reading(k) /\ old \in Nat /\ pos \in Nat /\ old < head_ /\ tail_ <= pos
      /\ head_ <= pos /\ pos < head_ + Capacity /\ pos - Capacity = old
  BY <1>1, <1>2, Cursors DEF Reading, RingInv, HoldersInv
<1>4. buffer_' = [buffer_ EXCEPT ![Index(pos)].sequence = pos]
  BY <1>1, <1>2, <1>3, IndexRound
<1>5. /\ buffer_'[Index(pos)].sequence = pos
      /\ \A x \in Nat : head_ <= x /\ x < head_ + Capacity /\ x # pos =>
           buffer_'[Index(x)].sequence = SequenceAt(x)
  BY <1>3, <1>4, OneCell
<1>6. /\ ~Reading(k)' /\ kpc'[k] = "load"
      /\ \A j \in Consumers \ {k} : /\ Reading(j)' <=> Reading(j)
                                    /\ kpc'[j] = kpc[j] /\ kpos'[j] = kpos[j]
      /\ \A p \in Producers : Writing(p)' <=> Writing(p)
  BY <1>2 DEF Writing, Reading, RingInv, RingTypeOK
<1>7. \A j \in Consumers \ {k} : Reading(j) => kpos[j] # old
  BY <1>1, <1>3 DEF RingInv, HoldersInv
<1>8. \A x : BeingRead(x)' <=> BeingRead(x) /\ x # old
  BY <1>1, <1>6, <1>7 DEF BeingRead
<1>9. \A x : (BeingWritten(x)' <=> BeingWritten(x))
  BY <1>2 DEF BeingWritten, Writing
<1>10. HoldersInv'
  <2>1. \A j \in Consumers : Reading(j)' => kpos'[j] < head_' /\ tail_' <= kpos'[j] + Capacity
    BY <1>2, <1>6 DEF RingInv, HoldersInv
  <2>2. \A i, j \in Consumers : Reading(i)' /\ Reading(j)' /\ kpos'[i] = kpos'[j] => i = j
    BY <1>6 DEF RingInv, HoldersInv
  <2>3. QED BY <1>2, <1>6, <2>1, <2>2 DEF RingInv, HoldersInv
<1>11. CellsInv'
  <2>1. \A x \in Nat : head_ <= x /\ x < tail_ =>
          buffer_'[Index(x)].sequence = IF BeingWritten(x) THEN x ELSE x + 1
    <3> SUFFICES ASSUME NEW x \in Nat, head_ <= x, x < tail_
                 PROVE  buffer_'[Index(x)].sequence = IF BeingWritten(x) THEN x ELSE x + 1
      OBVIOUS
    <3>1. SequenceAt(x) = IF BeingWritten(x) THEN x ELSE x + 1
      BY DEF RingInv, CellsInv
    <3>2. buffer_'[Index(x)].sequence = SequenceAt(x)
      BY <1>3, <1>5, Cursors
    <3>3. QED BY <3>1, <3>2
  <2>2. \A x \in Nat : tail_ <= x /\ x < head_ + Capacity =>
          buffer_'[Index(x)].sequence =
            IF BeingRead(x - Capacity) /\ x - Capacity # old THEN x - Capacity + 1 ELSE x
    <3> SUFFICES ASSUME NEW x \in Nat, tail_ <= x, x < head_ + Capacity
                 PROVE  buffer_'[Index(x)].sequence =
                          IF BeingRead(x - Capacity) /\ x - Capacity # old
                          THEN x - Capacity + 1 ELSE x
      OBVIOUS
    <3>1. SequenceAt(x) = IF BeingRead(x - Capacity) THEN x - Capacity + 1 ELSE x
      BY DEF RingInv, CellsInv
    <3>2. x # pos => x - Capacity # old /\ buffer_'[Index(x)].sequence = SequenceAt(x)
      BY <1>1, <1>3, <1>5, Cursors
    <3>3. QED BY <1>3, <1>5, <3>1, <3>2
  <2>3. QED BY <1>2, <1>8, <1>9, <2>1, <2>2 DEF CellsInv, SequenceAt
<1>12. ClaimsInv'
  <2>1. SequenceAt(tail_) = tail_ => buffer_'[Index(tail_)].sequence = tail_
    <3>1. SequenceAt(tail_) = tail_ => tail_ # pos /\ tail_ < head_ + Capacity
      BY <1>1, <1>3, FreeCell DEF BeingRead
    <3>2. QED BY <1>5, <3>1, Cursors
  <2>2. SequenceAt(head_) = head_ + 1 => buffer_'[Index(head_)].sequence = head_ + 1
    BY <1>3, <1>5, FilledCell, Cursors
  <2>3. \A j \in Consumers : kpc'[j] \in {"check", "claim"} =>
          j # k /\ kpc'[j] = kpc[j] /\ kpos'[j] = kpos[j]
    BY <1>6
  <2>4. QED BY <1>2, <2>1, <2>2, <2>3 DEF RingInv, ClaimsInv, SequenceAt
<1>13. QED BY <1>10, <1>11, <1>12 DEF RingInv

LEMMA RingStart == RingInit => RingInv
<1> SUFFICES ASSUME RingInit PROVE RingInv
  OBVIOUS
<1>1. RingTypeOK
  BY RingStartTypes
<1>2. /\ head_ = 0 /\ tail_ = 0 /\ Capacity \in Nat /\ Capacity > 1
      /\ \A p \in Producers : ppc[p] = "idle"
      /\ \A k \in Consumers : kpc[k] = "idle"
  BY RingAssumption DEF RingInit
<1>3. (\A p \in Producers : ~Writing(p)) /\ (\A k \in Consumers : ~Reading(k))
  BY <1>2 DEF Writing, Reading
<1>4. HoldersInv
  BY <1>2, <1>3 DEF HoldersInv
<1>5. \A pos \in Nat : pos < Capacity => SequenceAt(pos) = pos
  <2>1. \A pos \in Nat : pos < Capacity => Index(pos) = pos
    BY <1>2, SMT DEF Index
  <2>2. QED BY <1>2, <2>1 DEF RingInit, SequenceAt
<1>6. CellsInv
  BY <1>2, <1>3, <1>5 DEF CellsInv, BeingRead
<1>7. ClaimsInv
  BY <1>2 DEF ClaimsInv
<1>8. QED BY <1>1, <1>4, <1>6, <1>7 DEF RingInv

\* Steps of a producer that leave the ring alone.
LEMMA ProducerSteps ==
  ASSUME RingInv, RingTypeOK', NEW p \in Producers,
         \/ \E access \in Kinds : RecordAccess(p, access)
         \/ CountAccess(p) \/ PushLoad(p) \/ PushCheck(p) \/ PushGiveUp(p)
  PROVE  RingInv'
<1> USE DEF GoProducer, EndPush, consumer
<1>1. /\ ppos[p] \in Nat /\ tail_ \in Nat /\ ppos \in [Producers -> Nat]
      /\ ppc \in [Producers -> {"idle", "total", "load", "check", "claim", "write", "release"}]
  BY DEF RingInv, RingTypeOK
<1>2. ppos = [ppos EXCEPT ![p] = ppos[p]] /\ ppc = [ppc EXCEPT ![p] = ppc[p]]
  BY <1>1
<1>3. CASE PushLoad(p)
  <2>1. /\ ppc' = [ppc EXCEPT ![p] = "check"] /\ ppos' = [ppos EXCEPT ![p] = tail_]
        /\ UNCHANGED <<ring, kpc, kpos>> /\ ~Writing(p) /\ tail_ <= tail_
    BY <1>1, <1>3 DEF PushLoad, Writing
  <2>2. QED BY <1>1, <2>1, ProducerLocal
<1>4. CASE PushCheck(p)
  <2>1. CASE buffer_[Index(ppos[p])].sequence = ppos[p]
    <3>1. ppos[p] = tail_ => SequenceAt(tail_) = tail_
      BY <2>1 DEF SequenceAt
    <3>2. ppos[p] <= tail_ /\ ~Writing(p)
      BY <1>4 DEF PushCheck, RingInv, ClaimsInv, Writing
    <3>3. /\ ppc' = [ppc EXCEPT ![p] = "claim"] /\ ppos' = [ppos EXCEPT ![p] = ppos[p]]
          /\ UNCHANGED <<ring, kpc, kpos>>
      BY <1>2, <1>4, <2>1 DEF PushCheck
    <3>4. QED BY <1>1, <3>1, <3>2, <3>3, ProducerLocal
  <2>2. CASE buffer_[Index(ppos[p])].sequence # ppos[p]
    BY <1>4, <2>2, ProducerLocal DEF PushCheck, Writing
  <2>3. QED BY <2>1, <2>2
<1>5. CASE PushGiveUp(p)
  BY <1>5, ProducerLocal DEF PushGiveUp, Writing
<1>6. CASE CountAccess(p)
  BY <1>1, <1>2, <1>6, ProducerLocal DEF CountAccess, Writing
<1>7. ASSUME NEW access \in Kinds, RecordAccess(p, access) PROVE RingInv'
  <2>1. /\ ppc[p] = "idle" /\ UNCHANGED <<ring, ppos, kpc, kpos>>
        /\ ppc' = [ppc EXCEPT ![p] = "total"] \/ ppc' = [ppc EXCEPT ![p] = "idle"]
    BY <1>2, <1>7 DEF RecordAccess
  <2>2. QED BY <1>1, <1>2, <2>1, ProducerLocal DEF Writing
<1>8. QED BY <1>3, <1>4, <1>5, <1>6, <1>7

\* Steps of a consumer that leave the ring alone.
LEMMA ConsumerSteps ==
  ASSUME RingInv, RingTypeOK',
         \/ \E k \in Consumers : PopLoad(k) \/ PopCheck(k) \/ PopGiveUp(k) \/ PopCopy(k)
         \/ InitializeRing \/ ProcessorEnds \/ ClearHistory \/ ResetTotals \/ ResetBlocks
  PROVE  RingInv'
<1> USE DEF GoConsumer, producer
<1>1. \A k \in Consumers : /\ kpos[k] \in Nat /\ kpos = [kpos EXCEPT ![k] = kpos[k]]
                           /\ Processor \in Consumers /\ Clearer \in Consumers
  BY DEF RingInv, RingTypeOK, Consumers
<1>2. head_ \in Nat
  BY Cursors
<1>3. ASSUME NEW k \in Consumers, NEW from \in {"check", "claim"}, PopFails(k, from)
      PROVE  RingInv'
  <2>1. \E pc \in {"load", "resetTotals"} : kpc' = [kpc EXCEPT ![k] = pc]
    BY <1>3 DEF PopFails
  <2>2. /\ kpos' = [kpos EXCEPT ![k] = 0] /\ UNCHANGED <<ring, ppc, ppos>> /\ ~Reading(k)
    BY <1>3 DEF PopFails, Reading
  <2>3. QED BY <2>1, <2>2, ConsumerLocal
<1>4. ASSUME NEW k \in Consumers, PopLoad(k) PROVE RingInv'
  <2>1. /\ kpc' = [kpc EXCEPT ![k] = "check"] /\ kpos' = [kpos EXCEPT ![k] = head_]
        /\ UNCHANGED <<ring, ppc, ppos>> /\ ~Reading(k) /\ head_ <= head_
    BY <1>2, <1>4 DEF PopLoad, Reading
  <2>2. QED BY <1>2, <2>1, ConsumerLocal
<1>5. ASSUME NEW k \in Consumers, PopCheck(k) PROVE RingInv'
  <2>1. CASE Filled(k) /\ kpc' = [kpc EXCEPT ![k] = "claim"] /\ UNCHANGED <<ring, producer, kpos>>
    <3>1. kpos[k] = head_ => SequenceAt(head_) = head_ + 1
      BY <2>1 DEF SequenceAt, Filled
    <3>2. kpos[k] <= head_ /\ ~Reading(k)
      BY <1>5 DEF PopCheck, PopFails, RingInv, ClaimsInv, Reading
    <3>3. QED BY <1>1, <2>1, <3>1, <3>2, ConsumerLocal
  <2>2. CASE PopFails(k, "check")
    BY <1>3, <2>2
  <2>3. QED BY <1>5, <2>1, <2>2 DEF PopCheck
<1>6. ASSUME NEW k \in Consumers, PopGiveUp(k) PROVE RingInv'
  BY <1>6, <1>3 DEF PopGiveUp
<1>7. ASSUME NEW k \in Consumers, PopCopy(k) PROVE RingInv'
  BY <1>1, <1>7, ConsumerLocal DEF PopCopy, Reading
<1>8. CASE InitializeRing \/ ProcessorEnds \/ ClearHistory \/ ResetTotals \/ ResetBlocks
  <2>1. /\ UNCHANGED <<ring, ppc, ppos, kpos>>
        /\ \E k \in Consumers, pc \in {"load", "idle", "resetBlocks"} :
             /\ kpc[k] \in {"idle", "load", "resetTotals", "resetBlocks"}
             /\ kpc' = [kpc EXCEPT ![k] = pc]
    BY <1>8 DEF InitializeRing, ProcessorEnds, ClearHistory, ResetTotals, ResetBlocks, Consumers
  <2>2. QED BY <1>1, <2>1, ConsumerLocal DEF Reading
<1>9. QED BY <1>4, <1>5, <1>6, <1>7, <1>8

LEMMA RingStep == RingInv /\ [RingNext]_ringVars => RingInv'
<1> SUFFICES ASSUME RingInv, [RingNext]_ringVars PROVE RingInv'
  OBVIOUS
<1>1. RingTypeOK'
  BY RingTypes DEF RingInv
<1>2. Processor \in Consumers /\ Clearer \in Consumers
  BY DEF Consumers
<1>3. CASE \/ StartMonitoring \/ StopMonitoring \/ ShutdownRing \/ JoinProcessor
           \/ UNCHANGED ringVars
  <2>1. UNCHANGED <<ring, ppc, ppos, kpc, kpos>>
    BY <1>3 DEF StartMonitoring, StopMonitoring, ShutdownRing, JoinProcessor, ringVars,
                producer, consumer
  <2>2. ClaimsInv'
    BY <2>1 DEF RingInv, ClaimsInv, SequenceAt, ring
  <2>3. QED BY <1>1, <2>1, <2>2, LocalStep
<1>4. ASSUME NEW p \in Producers, Recording(p) \/ \E access \in Kinds : RecordAccess(p, access)
      PROVE  RingInv'
  BY <1>1, <1>4, ProducerSteps, PushClaimStep, PushWriteStep, PushReleaseStep DEF Recording
<1>5. ASSUME NEW k \in Consumers, Popping(k) PROVE RingInv'
  BY <1>1, <1>5, ConsumerSteps, PopClaimStep, PopReleaseStep DEF Popping
<1>6. CASE InitializeRing \/ ProcessorEnds \/ ClearHistory \/ ResetTotals \/ ResetBlocks
  BY <1>1, <1>6, ConsumerSteps
<1>7. QED
  BY <1>2, <1>3, <1>4, <1>5, <1>6 DEF RingNext, ProcessLoop

LEMMA RingInvHolds == RingSpec => []RingInv
  BY RingStart, RingStep, PTL DEF RingSpec

\* The cursors, the cells and the counters keep their types.
THEOREM RingTyped == RingSpec => []RingTypeOK
<1>1. RingInv => RingTypeOK
  BY DEF RingInv
<1>2. QED BY <1>1, RingInvHolds, PTL

-----------------------------------------------------------------------------
(* The ring implements the queue *)

\* What the queue of ImplementsQueue and the items in hand are.
RingQueue == [i \in 1..(tail_ - head_) |-> RecordAt(head_ + i - 1)]
InHand == [k \in Consumers |-> IF kpc[k] = "copy" THEN buffer_[Index(kpos[k])].data ELSE got[k]]

ToWrite(p, pos) == ppc[p] = "write" /\ ppos[p] = pos

\* A function on 1..n is a sequence of length n.
LEMMA FunctionIsSeq ==
  ASSUME NEW n \in Nat, NEW S, NEW f \in [1..n -> S]
  PROVE  f \in Seq(S) /\ Len(f) = n
<1>1. f \in Seq(S)
  BY SeqDef
<1>2. Len(f) \in Nat /\ DOMAIN f = 1..Len(f)
  BY <1>1, LenProperties
<1>3. 1..Len(f) = 1..n
  BY <1>2
<1>4. Len(f) = n
  BY <1>2, <1>3
<1>5. QED BY <1>1, <1>4

\* The record of a position is with its producer until it is written to the cell.
LEMMA RecordOfWriter ==
  ASSUME RingInv, NEW p \in Producers, ppc[p] = "write"
  PROVE  RecordAt(ppos[p]) = prec[p]
<1>1. \A q \in Producers : ppc[q] = "write" /\ ppos[q] = ppos[p] => q = p
  BY DEF RingInv, HoldersInv, Writing
<1>2. (CHOOSE q \in Producers : ppc[q] = "write" /\ ppos[q] = ppos[p]) = p
  BY <1>1
<1>3. QED BY <1>2 DEF RecordAt

LEMMA RecordOfWriterNext ==
  ASSUME RingInv', NEW p \in Producers, ppc'[p] = "write", NEW pos, pos = ppos'[p]
  PROVE  RecordAt(pos)' = prec'[p]
<1>1. \A q \in Producers : ppc'[q] = "write" /\ ppos'[q] = pos => q = p
  BY DEF RingInv, HoldersInv, Writing
<1>2. (CHOOSE q \in Producers : ppc'[q] = "write" /\ ppos'[q] = pos) = p
  BY <1>1
<1>3. QED BY <1>2 DEF RecordAt

LEMMA RecordOfCell ==
  ASSUME NEW pos
  PROVE  /\ (\A p \in Producers : ~ToWrite(p, pos)) => RecordAt(pos) = buffer_[Index(pos)].data
         /\ (\A p \in Producers : ~ToWrite(p, pos)') => 
              RecordAt(pos)' = buffer_'[Index(pos)].data
BY DEF RecordAt, ToWrite

LEMMA RecordType ==
  ASSUME RingTypeOK, NEW pos \in Nat
  PROVE  RecordAt(pos) \in Record
<1>1. CASE \E p \in Producers : ppc[p] = "write" /\ ppos[p] = pos
  <2>1. (CHOOSE p \in Producers : ppc[p] = "write" /\ ppos[p] = pos) \in Producers
    BY <1>1
  <2>2. QED BY <1>1, <2>1 DEF RecordAt, RingTypeOK
<1>2. CASE ~ \E p \in Producers : ppc[p] = "write" /\ ppos[p] = pos
  <2>1. RecordAt(pos) = buffer_[Index(pos)].data /\ Index(pos) \in 0..(Capacity - 1)
    BY <1>2, IndexType DEF RecordAt
  <2>2. QED BY <2>1 DEF RingTypeOK
<1>3. QED BY <1>1, <1>2

LEMMA RingQueueType ==
  ASSUME RingInv
  PROVE  /\ RingQueue \in Seq(Record)
         /\ Len(RingQueue) = tail_ - head_
         /\ \A i \in 1..(tail_ - head_) : RingQueue[i] = RecordAt(head_ + i - 1)
<1>1. tail_ - head_ \in Nat
  BY Cursors
<1>2. \A i \in 1..(tail_ - head_) : RecordAt(head_ + i - 1) \in Record
  <2> SUFFICES ASSUME NEW i \in 1..(tail_ - head_) PROVE RecordAt(head_ + i - 1) \in Record
    OBVIOUS
  <2>1. head_ + i - 1 \in Nat
    BY Cursors
  <2>2. QED BY <2>1, RecordType DEF RingInv
<1>3. RingQueue \in [1..(tail_ - head_) -> Record]
  BY <1>2 DEF RingQueue
<1>4. QED BY <1>1, <1>3, FunctionIsSeq DEF RingQueue

LEMMA RingQueueTypeNext ==
  ASSUME RingInv'
  PROVE  /\ RingQueue' \in Seq(Record)
         /\ Len(RingQueue') = tail_' - head_'
         /\ \A i \in 1..(tail_' - head_') : \A pos :
              pos = head_' + i - 1 => RingQueue'[i] = RecordAt(pos)'
<1>1. (RingInv => /\ RingQueue \in Seq(Record)
                  /\ Len(RingQueue) = tail_ - head_
                  /\ \A i \in 1..(tail_ - head_) : RingQueue[i] = RecordAt(head_ + i - 1))'
  BY RingQueueType, PTL
<1>2. ASSUME NEW i \in 1..(tail_' - head_'), NEW pos, pos = head_' + i - 1
      PROVE  RingQueue'[i] = RecordAt(pos)'
  <2>1. RingQueue'[i] = RecordAt(head_ + i - 1)'
    BY <1>1
  <2>2. QED BY <1>2, <2>1 DEF RecordAt
<1>3. QED BY <1>1, <1>2

\* The queue stays when the cursors and the records between them do.
LEMMA SameQueue ==
  ASSUME RingInv, RingInv', head_' = head_, tail_' = tail_,
         \A pos \in Nat : head_ <= pos /\ pos < tail_ => RecordAt(pos)' = RecordAt(pos)
  PROVE  RingQueue' = RingQueue
<1>1. Len(RingQueue') = Len(RingQueue)
  BY RingQueueType, RingQueueTypeNext
<1>2. ASSUME NEW i \in 1..Len(RingQueue) PROVE RingQueue'[i] = RingQueue[i]
  <2> PICK pos : pos = head_ + i - 1
    OBVIOUS
  <2>1. i \in 1..(tail_ - head_)
    BY RingQueueType
  <2>2. pos \in Nat /\ head_ <= pos /\ pos < tail_
    BY <2>1, Cursors
  <2>3. RecordAt(pos)' = RecordAt(pos)
    BY <2>2
  <2>4. RingQueue[i] = RecordAt(pos)
    BY <2>1, RingQueueType
  <2>5. RingQueue'[i] = RecordAt(pos)'
    BY <2>1, RingQueueTypeNext
  <2>6. QED BY <2>3, <2>4, <2>5
<1>3. QED BY <1>1, <1>2, RingQueueType, RingQueueTypeNext, SeqEqual

\* A push takes effect when the cursor moves.
LEMMA PushClaimPuts ==
  ASSUME RingInv, RingInv', NEW p \in Producers, PushClaim(p)
  PROVE  Queue!Put(prec[p])
<1>0. PICK end : end = tail_
  OBVIOUS
<1>1. /\ ppc[p] = "claim" /\ ppc' = [ppc EXCEPT ![p] = "write"]
      /\ ppos[p] = tail_ /\ tail_' = tail_ + 1
      /\ UNCHANGED <<head_, buffer_, ppos, prec, kpc, kpos, got>>
  BY DEF PushClaim, Claimable, GoProducer, consumer
<1>2. tail_ < head_ + Capacity
  <2>1. SequenceAt(tail_) = tail_
    BY <1>1 DEF RingInv, ClaimsInv
  <2>2. QED BY <2>1, FreeCell
<1>3. Len(RingQueue) < Capacity
  BY <1>2, RingQueueType, Cursors
<1>4. \A q \in Producers : q # p => ppc'[q] = ppc[q]
  BY <1>1 DEF RingInv, RingTypeOK
<1>5. RecordAt(end)' = prec[p]
  <2>1. ppc'[p] = "write" /\ ppos'[p] = end /\ prec'[p] = prec[p]
    BY <1>0, <1>1 DEF RingInv, RingTypeOK
  <2>2. QED BY <2>1, RecordOfWriterNext
<1>6. ASSUME NEW pos \in Nat, pos < tail_ PROVE RecordAt(pos)' = RecordAt(pos)
  <2>1. pos # tail_
    BY <1>6, Cursors
  <2>2. \A q \in Producers : (ppc'[q] = "write" /\ ppos'[q] = pos)
                             <=> (ppc[q] = "write" /\ ppos[q] = pos)
    BY <1>1, <1>4, <2>1
  <2>3. (CHOOSE q \in Producers : ppc'[q] = "write" /\ ppos'[q] = pos)
        = (CHOOSE q \in Producers : ppc[q] = "write" /\ ppos[q] = pos)
    BY <2>2
  <2>4. QED BY <1>1, <2>2, <2>3 DEF RecordAt
<1>7. RingQueue' = Append(RingQueue, prec[p])
  <2>1. prec[p] \in Record
    BY DEF RingInv, RingTypeOK
  <2> DEFINE longer == Append(RingQueue, prec[p])
  <2>2. /\ longer \in Seq(Record) /\ Len(longer) = Len(RingQueue) + 1
        /\ \A i \in 1..Len(RingQueue) : longer[i] = RingQueue[i]
        /\ longer[Len(RingQueue) + 1] = prec[p]
    BY <2>1, RingQueueType, AppendProperties
  <2> HIDE DEF longer
  <2>3. Len(RingQueue') = Len(longer) /\ Len(longer) = tail_ - head_ + 1
    BY <1>1, <2>2, RingQueueType, RingQueueTypeNext, Cursors
  <2>4. ASSUME NEW i \in 1..Len(longer) PROVE RingQueue'[i] = longer[i]
    <3> PICK pos : pos = head_ + i - 1
      OBVIOUS
    <3>1. RingQueue'[i] = RecordAt(pos)'
      <4>1. i \in 1..(tail_' - head_')
        BY <1>1, <2>3, Cursors
      <4>2. QED BY <1>1, <4>1, RingQueueTypeNext
    <3>2. CASE i = tail_ - head_ + 1
      <4>1. pos = end
        BY <1>0, <3>2, Cursors
      <4>2. longer[i] = prec[p]
        BY <2>2, <3>2, RingQueueType
      <4>3. QED BY <1>5, <3>1, <4>1, <4>2
    <3>3. CASE i # tail_ - head_ + 1
      <4>1. i \in 1..(tail_ - head_) /\ pos \in Nat /\ pos < tail_
        BY <2>3, <3>3, Cursors
      <4>2. longer[i] = RecordAt(pos)
        BY <2>2, <4>1, RingQueueType
      <4>3. QED BY <1>6, <3>1, <4>1, <4>2
    <3>4. QED BY <3>2, <3>3
  <2>5. RingQueue' = longer
    BY <2>2, <2>3, <2>4, RingQueueTypeNext, SeqEqual
  <2>6. QED BY <2>5 DEF longer
<1>8. InHand' = InHand
  BY <1>1 DEF InHand
<1>9. QED BY <1>3, <1>7, <1>8 DEF Queue!Put, RingQueue, InHand

\* A pop takes effect when the cursor moves: the record stays in its cell.
LEMMA PopClaimTakes ==
  ASSUME RingInv, RingInv', NEW k \in Consumers, PopClaim(k)
  PROVE  Queue!Take(k)
<1>1. /\ kpc[k] = "claim" /\ kpc' = [kpc EXCEPT ![k] = "copy"]
      /\ kpos[k] = head_ /\ head_' = head_ + 1
      /\ UNCHANGED <<tail_, buffer_, kpos, ppc, ppos, prec, got>>
  BY DEF PopClaim, GoConsumer, producer
<1>2. head_ < tail_ /\ ~BeingWritten(head_)
  <2>1. SequenceAt(head_) = head_ + 1
    BY <1>1 DEF RingInv, ClaimsInv
  <2>2. QED BY <2>1, FilledCell
<1>3. RecordAt(head_) = buffer_[Index(head_)].data
  BY <1>2, RecordOfCell DEF BeingWritten, ToWrite, Writing
<1>4. RingQueue # <<>>
  <2>1. Len(RingQueue) > 0
    BY <1>2, RingQueueType, Cursors
  <2>2. QED BY <2>1
<1>5. \A pos : RecordAt(pos)' = RecordAt(pos)
  BY <1>1 DEF RecordAt
<1>6. RingQueue' = Tail(RingQueue)
  <2> DEFINE shorter == Tail(RingQueue)
  <2>1. /\ shorter \in Seq(Record) /\ Len(shorter) = Len(RingQueue) - 1
        /\ \A i \in 1..Len(shorter) : shorter[i] = RingQueue[i + 1]
    BY <1>4, RingQueueType, HeadTailProperties
  <2> HIDE DEF shorter
  <2>2. Len(RingQueue') = Len(shorter) /\ Len(shorter) = tail_ - head_ - 1
    <3>1. Len(shorter) = tail_ - head_ - 1
      BY <2>1, RingQueueType
    <3>2. Len(RingQueue') = tail_ - (head_ + 1)
      BY <1>1, RingQueueTypeNext
    <3>3. QED BY <3>1, <3>2, Cursors
  <2>3. ASSUME NEW i \in 1..Len(shorter) PROVE RingQueue'[i] = shorter[i]
    <3> PICK pos : pos = head_ + i
      OBVIOUS
    <3>1. i \in 1..(tail_' - head_') /\ head_' + i - 1 = pos
          /\ i + 1 \in 1..(tail_ - head_) /\ head_ + (i + 1) - 1 = pos
      BY <1>1, <2>2, Cursors
    <3>2. RingQueue'[i] = RecordAt(pos)'
      BY <3>1, RingQueueTypeNext
    <3>3. shorter[i] = RecordAt(pos)
      BY <2>1, <3>1, RingQueueType
    <3>4. QED BY <1>5, <3>2, <3>3
  <2>4. RingQueue' = shorter
    BY <2>1, <2>2, <2>3, RingQueueTypeNext, SeqEqual
  <2>5. QED BY <2>4 DEF shorter
<1>7. Head(RingQueue) = buffer_[Index(kpos[k])].data
  <2>1. Head(RingQueue) = RingQueue[1]
    BY <1>4, RingQueueType
  <2>2. RingQueue[1] = RecordAt(head_)
    BY <1>2, RingQueueType, Cursors
  <2>3. QED BY <1>1, <1>3, <2>1, <2>2
<1>8. InHand' = [InHand EXCEPT ![k] = Head(RingQueue)]
  <2>1. /\ kpc'[k] = "copy" /\ \A j \in Consumers : j # k => kpc'[j] = kpc[j]
    BY <1>1 DEF RingInv, RingTypeOK
  <2>2. QED BY <1>1, <1>7, <2>1 DEF InHand
<1>9. QED BY <1>4, <1>6, <1>8 DEF Queue!Take, RingQueue, InHand

\* Steps that neither write a record nor move a cursor leave the queue, and the
\* consumer's other than the copy what it has in hand.
LEMMA DataStays ==
  ASSUME RingInv, RingInv', head_' = head_, tail_' = tail_,
         \A i \in 0..(Capacity - 1) : buffer_'[i].data = buffer_[i].data,
         \A p \in Producers : \/ ppc'[p] = ppc[p] /\ ppos'[p] = ppos[p] /\ prec'[p] = prec[p]
                              \/ ppc[p] # "write" /\ ppc'[p] # "write"
  PROVE  RingQueue' = RingQueue
<1>1. ASSUME NEW pos \in Nat PROVE RecordAt(pos)' = RecordAt(pos)
  <2>1. \A q \in Producers : /\ ToWrite(q, pos)' <=> ToWrite(q, pos)
                             /\ ToWrite(q, pos) => prec'[q] = prec[q]
    BY DEF ToWrite
  <2>2. (CHOOSE q \in Producers : ppc'[q] = "write" /\ ppos'[q] = pos)
        = (CHOOSE q \in Producers : ppc[q] = "write" /\ ppos[q] = pos)
    BY <2>1 DEF ToWrite
  <2>3. buffer_'[Index(pos)].data = buffer_[Index(pos)].data
    BY IndexType
  <2>4. CASE \E q \in Producers : ToWrite(q, pos)
    <3>1. PICK q : q = CHOOSE r \in Producers : ppc[r] = "write" /\ ppos[r] = pos
      OBVIOUS
    <3>2. q \in Producers /\ ToWrite(q, pos)
      BY <2>4, <3>1 DEF ToWrite
    <3>3. RecordAt(pos) = prec[q] /\ RecordAt(pos)' = prec'[q]
      BY <2>1, <2>2, <3>1, <3>2 DEF RecordAt, ToWrite
    <3>4. QED BY <2>1, <3>2, <3>3
  <2>5. CASE ~ \E q \in Producers : ToWrite(q, pos)
    BY <2>1, <2>3, <2>5, RecordOfCell
  <2>6. QED BY <2>4, <2>5
<1>2. QED BY <1>1, SameQueue

LEMMA HandStays ==
  ASSUME RingInv, RingInv',
         \A i \in 0..(Capacity - 1) : buffer_'[i].data = buffer_[i].data,
         \A k \in Consumers : \/ kpc'[k] = kpc[k] /\ kpos'[k] = kpos[k] /\ got'[k] = got[k]
                              \/ kpc[k] # "copy" /\ kpc'[k] # "copy" /\ got'[k] = got[k]
  PROVE  InHand' = InHand
<1>1. \A k \in Consumers : Index(kpos[k]) \in 0..(Capacity - 1)
  BY Cursors, IndexType
<1>2. QED BY <1>1 DEF InHand

LEMMA ReleaseKeepsData ==
  ASSUME RingInv, NEW pos \in Nat, NEW sequence,
         buffer_' = [buffer_ EXCEPT ![Index(pos)].sequence = sequence]
  PROVE  \A i \in 0..(Capacity - 1) : buffer_'[i].data = buffer_[i].data
BY DEF RingInv, RingTypeOK

\* The record goes from the producer to its cell, which nobody else uses.
LEMMA PushWriteStays ==
  ASSUME RingInv, RingInv', NEW p \in Producers, PushWrite(p)
  PROVE  RingQueue' = RingQueue /\ InHand' = InHand
<1>1. PICK at : at = ppos[p]
  OBVIOUS
<1>2. /\ ppc[p] = "write" /\ ppc' = [ppc EXCEPT ![p] = "release"]
      /\ buffer_' = [buffer_ EXCEPT ![Index(at)].data = prec[p]]
      /\ UNCHANGED <<head_, tail_, ppos, prec, kpc, kpos, got>>
  BY <1>1 DEF PushWrite, GoProducer, consumer
<1>3. /\ ppc'[p] = "release" /\ \A q \in Producers : q # p => ppc'[q] = ppc[q]
  BY <1>2 DEF RingInv, RingTypeOK
<1>4. /\ at \in Nat /\ head_ <= at /\ at < tail_
      /\ \A q \in Producers : q # p /\ Writing(q) => ppos[q] # at
  BY <1>1, <1>2, Cursors DEF RingInv, HoldersInv, Writing
<1>5. /\ buffer_'[Index(at)].data = prec[p]
      /\ \A i \in 0..(Capacity - 1) : i # Index(at) => buffer_'[i].data = buffer_[i].data
  BY <1>2, <1>4, IndexType DEF RingInv, RingTypeOK
<1>6. ASSUME NEW pos \in Nat, head_ <= pos, pos < tail_ PROVE RecordAt(pos)' = RecordAt(pos)
  <2>1. CASE pos = at
    <3>1. RecordAt(pos) = prec[p]
      BY <1>1, <1>2, <2>1, RecordOfWriter
    <3>2. \A q \in Producers : ~ToWrite(q, pos)'
      BY <1>2, <1>3, <1>4, <2>1 DEF ToWrite, Writing
    <3>3. RecordAt(pos)' = buffer_'[Index(pos)].data
      BY <3>2, RecordOfCell
    <3>4. QED BY <1>5, <2>1, <3>1, <3>3
  <2>2. CASE pos # at
    <3>1. Index(pos) # Index(at)
      <4>1. CASE pos < at
        BY <1>4, <1>6, <4>1, Cursors, IndexApart
      <4>2. CASE at < pos
        BY <1>4, <1>6, <4>2, Cursors, IndexApart
      <4>3. QED BY <1>4, <2>2, <4>1, <4>2
    <3>2. buffer_'[Index(pos)].data = buffer_[Index(pos)].data
      BY <1>5, <3>1, IndexType
    <3>3. \A q \in Producers : (ppc'[q] = "write" /\ ppos'[q] = pos)
                               <=> (ppc[q] = "write" /\ ppos[q] = pos)
      BY <1>1, <1>2, <1>3, <2>2
    <3>4. (CHOOSE q \in Producers : ppc'[q] = "write" /\ ppos'[q] = pos)
          = (CHOOSE q \in Producers : ppc[q] = "write" /\ ppos[q] = pos)
      BY <3>3
    <3>5. prec' = prec
      BY <1>2
    <3>6. QED BY <3>2, <3>3, <3>4, <3>5 DEF RecordAt
  <2>3. QED BY <2>1, <2>2
<1>7. RingQueue' = RingQueue
  BY <1>2, <1>6, SameQueue
<1>8. ASSUME NEW k \in Consumers, kpc[k] = "copy"
      PROVE  buffer_'[Index(kpos[k])].data = buffer_[Index(kpos[k])].data
  <2>1. kpos[k] \in Nat /\ kpos[k] < head_ /\ tail_ <= kpos[k] + Capacity
    BY <1>8, Cursors DEF RingInv, HoldersInv, Reading
  <2>2. kpos[k] < at /\ at < kpos[k] + Capacity
    BY <1>4, <2>1, Cursors
  <2>3. Index(kpos[k]) # Index(at)
    BY <1>4, <2>1, <2>2, IndexApart
  <2>4. QED BY <1>5, <2>1, <2>3, IndexType
<1>9. InHand' = InHand
  BY <1>2, <1>8 DEF InHand
<1>10. QED BY <1>7, <1>9

LEMMA PopReleaseDiscards ==
  ASSUME RingInv, RingInv', NEW k \in Consumers, PopRelease(k)
  PROVE  Queue!Discard(k)
<1>1. /\ kpc[k] = "release" /\ kpc' = [kpc EXCEPT ![k] = "load"]
      /\ kpos' = [kpos EXCEPT ![k] = 0] /\ got' = [got EXCEPT ![k] = NoRecord]
      /\ UNCHANGED <<head_, tail_, ppc, ppos, prec>>
  BY DEF PopRelease, GoConsumer, producer
<1>2. \A i \in 0..(Capacity - 1) : buffer_'[i].data = buffer_[i].data
  <2>1. buffer_' = [buffer_ EXCEPT ![Index(kpos[k])].sequence = NextRound(kpos[k])]
    BY DEF PopRelease
  <2>2. QED BY <2>1, ReleaseKeepsData, Cursors
<1>3. RingQueue' = RingQueue
  BY <1>1, <1>2, DataStays
<1>4. InHand' = [InHand EXCEPT ![k] = NoRecord]
  <2>1. /\ kpc'[k] = "load" /\ got'[k] = NoRecord
        /\ \A j \in Consumers : j # k =>
             kpc'[j] = kpc[j] /\ kpos'[j] = kpos[j] /\ got'[j] = got[j]
    BY <1>1 DEF RingInv, RingTypeOK
  <2>2. \A j \in Consumers : Index(kpos[j]) \in 0..(Capacity - 1)
    BY Cursors, IndexType
  <2>3. QED BY <1>2, <2>1, <2>2 DEF InHand
<1>5. QED BY <1>3, <1>4 DEF Queue!Discard, RingQueue, InHand

\* The other steps of those who push.
LEMMA PushStays ==
  ASSUME RingInv, RingInv', NEW p \in Producers,
         \/ \E access \in Kinds : RecordAccess(p, access)
         \/ CountAccess(p) \/ PushLoad(p) \/ PushCheck(p) \/ PushGiveUp(p) \/ PushRelease(p)
  PROVE  RingQueue' = RingQueue /\ InHand' = InHand
<1> USE DEF GoProducer, EndPush, consumer, ring
<1>1. UNCHANGED <<head_, tail_, kpc, kpos, got>>
  BY DEF RecordAccess, CountAccess, PushLoad, PushCheck, PushGiveUp, PushRelease
<1>2. \A i \in 0..(Capacity - 1) : buffer_'[i].data = buffer_[i].data
  <2>1. CASE PushRelease(p)
    BY <2>1, ReleaseKeepsData, Cursors DEF PushRelease
  <2>2. CASE ~PushRelease(p)
    BY <2>2 DEF RecordAccess, CountAccess, PushLoad, PushCheck, PushGiveUp
  <2>3. QED BY <2>1, <2>2
<1>3. \A q \in Producers \ {p} : ppc'[q] = ppc[q] /\ ppos'[q] = ppos[q] /\ prec'[q] = prec[q]
  <2>1. /\ ppc' = ppc \/ \E x : ppc' = [ppc EXCEPT ![p] = x]
        /\ ppos' = ppos \/ \E x : ppos' = [ppos EXCEPT ![p] = x]
        /\ prec' = prec \/ \E x : prec' = [prec EXCEPT ![p] = x]
    BY DEF RecordAccess, CountAccess, PushLoad, PushCheck, PushGiveUp, PushRelease
  <2>2. QED BY <2>1 DEF RingInv, RingTypeOK
<1>4. ppc[p] # "write" /\ ppc'[p] # "write"
  <2>1. ppc \in [Producers -> {"idle", "total", "load", "check", "claim", "write", "release"}]
    BY DEF RingInv, RingTypeOK
  <2>2. QED BY <2>1 DEF RecordAccess, CountAccess, PushLoad, PushCheck, PushGiveUp, PushRelease
<1>5. QED BY <1>1, <1>2, <1>3, <1>4, DataStays, HandStays

\* The other steps of those who pop.
LEMMA PopStays ==
  ASSUME RingInv, RingInv',
         \/ \E k \in Consumers : PopLoad(k) \/ PopCheck(k) \/ PopGiveUp(k) \/ PopCopy(k)
         \/ InitializeRing \/ ProcessorEnds \/ ClearHistory \/ ResetTotals \/ ResetBlocks
  PROVE  RingQueue' = RingQueue /\ InHand' = InHand
<1> USE DEF GoConsumer, producer, ring
<1>1. UNCHANGED <<head_, tail_, buffer_, ppc, ppos, prec>>
  BY DEF PopLoad, PopCheck, PopGiveUp, PopCopy, PopFails, InitializeRing, ProcessorEnds,
         ClearHistory, ResetTotals, ResetBlocks
<1>2. RingQueue' = RingQueue
  BY <1>1, DataStays
<1>3. /\ kpc \in [Consumers -> {"idle", "load", "check", "claim", "copy", "release",
                                "resetTotals", "resetBlocks"}]
      /\ kpos \in [Consumers -> Nat] /\ got \in [Consumers -> Record]
      /\ Processor \in Consumers /\ Clearer \in Consumers
  BY DEF RingInv, RingTypeOK, Consumers
<1>4. ASSUME NEW k \in Consumers, PopCopy(k) PROVE InHand' = InHand
  <2>1. /\ kpc[k] = "copy" /\ kpc'[k] = "release" /\ got'[k] = buffer_[Index(kpos[k])].data
        /\ \A j \in Consumers : j # k => kpc'[j] = kpc[j] /\ got'[j] = got[j]
    BY <1>3, <1>4 DEF PopCopy
  <2>2. kpos' = kpos
    BY <1>4 DEF PopCopy
  <2>3. QED BY <1>1, <2>1, <2>2 DEF InHand
<1>5. ASSUME NEW k \in Consumers, PopLoad(k) \/ PopCheck(k) \/ PopGiveUp(k)
      PROVE  InHand' = InHand
  <2>1. /\ kpc[k] # "copy" /\ kpc'[k] # "copy" /\ got' = got
        /\ \A j \in Consumers : j # k => kpc'[j] = kpc[j] /\ kpos'[j] = kpos[j]
    BY <1>3, <1>5 DEF PopLoad, PopCheck, PopGiveUp, PopFails
  <2>2. QED BY <1>1, <2>1, HandStays
<1>6. CASE InitializeRing \/ ProcessorEnds \/ ClearHistory \/ ResetTotals \/ ResetBlocks
  <2>1. /\ kpos' = kpos /\ got' = got
        /\ \E k \in Consumers, from, to \in {"idle", "load", "resetTotals", "resetBlocks"} :
             kpc[k] = from /\ kpc' = [kpc EXCEPT ![k] = to]
    BY <1>3, <1>6 DEF InitializeRing, ProcessorEnds, ClearHistory, ResetTotals, ResetBlocks
  <2>2. PICK k \in Consumers : /\ kpc[k] # "copy" /\ kpc'[k] # "copy"
                               /\ \A j \in Consumers : j # k => kpc'[j] = kpc[j]
    BY <1>3, <2>1
  <2>3. \A j \in Consumers : \/ kpc'[j] = kpc[j] /\ kpos'[j] = kpos[j] /\ got'[j] = got[j]
                             \/ kpc[j] # "copy" /\ kpc'[j] # "copy" /\ got'[j] = got[j]
    BY <2>1, <2>2
  <2>4. \A i \in 0..(Capacity - 1) : buffer_'[i].data = buffer_[i].data
    BY <1>1
  <2>5. QED BY <1>2, <2>3, <2>4, HandStays
<1>7. QED BY <1>2, <1>4, <1>5, <1>6

LEMMA RingQueueStep ==
  RingInv /\ RingInv' /\ [RingNext]_ringVars => [Queue!QueueNext]_Queue!queueVars
<1> SUFFICES ASSUME RingInv, RingInv', [RingNext]_ringVars
             PROVE  [Queue!QueueNext]_Queue!queueVars
  OBVIOUS
<1>1. RingQueue' = RingQueue /\ InHand' = InHand => UNCHANGED Queue!queueVars
  BY DEF Queue!queueVars, RingQueue, InHand
<1>2. CASE \/ StartMonitoring \/ StopMonitoring \/ ShutdownRing \/ JoinProcessor
           \/ UNCHANGED ringVars
  <2>1. UNCHANGED <<head_, tail_, buffer_, ppc, ppos, prec, kpc, kpos, got>>
    BY <1>2 DEF StartMonitoring, StopMonitoring, ShutdownRing, JoinProcessor, ringVars,
                ring, producer, consumer
  <2>2. QED BY <1>1, <2>1, DataStays, HandStays
<1>3. ASSUME NEW p \in Producers, Recording(p) \/ \E access \in Kinds : RecordAccess(p, access)
      PROVE  [Queue!QueueNext]_Queue!queueVars
  <2>1. CASE PushClaim(p)
    <3>1. Queue!Put(prec[p]) /\ prec[p] \in Record
      BY <2>1, PushClaimPuts DEF RingInv, RingTypeOK
    <3>2. QED BY <3>1 DEF Queue!QueueNext
  <2>2. CASE PushWrite(p)
    BY <1>1, <2>2, PushWriteStays
  <2>3. CASE ~PushClaim(p) /\ ~PushWrite(p)
    BY <1>1, <1>3, <2>3, PushStays DEF Recording
  <2>4. QED BY <2>1, <2>2, <2>3
<1>4. ASSUME NEW k \in Consumers, Popping(k) PROVE [Queue!QueueNext]_Queue!queueVars
  <2>1. CASE PopClaim(k)
    BY <2>1, PopClaimTakes DEF Queue!QueueNext
  <2>2. CASE PopRelease(k)
    BY <2>2, PopReleaseDiscards DEF Queue!QueueNext
  <2>3. CASE ~PopClaim(k) /\ ~PopRelease(k)
    BY <1>1, <1>4, <2>3, PopStays DEF Popping
  <2>4. QED BY <2>1, <2>2, <2>3
<1>5. CASE InitializeRing \/ ProcessorEnds \/ ClearHistory \/ ResetTotals \/ ResetBlocks
  BY <1>1, <1>5, PopStays
<1>6. Processor \in Consumers /\ Clearer \in Consumers
  BY DEF Consumers
<1>7. QED
  BY <1>2, <1>3, <1>4, <1>5, <1>6 DEF RingNext, ProcessLoop

LEMMA RingQueueStart == RingInit => Queue!QueueInit
<1> SUFFICES ASSUME RingInit PROVE Queue!QueueInit
  OBVIOUS
<1>1. RingInv
  BY RingStart
<1>2. RingQueue = <<>>
  <2>1. Len(RingQueue) = 0 /\ RingQueue \in Seq(Record)
    BY <1>1, RingQueueType DEF RingInit
  <2>2. QED BY <2>1, EmptySeq
<1>3. InHand = [k \in Consumers |-> NoRecord]
  BY DEF InHand, RingInit
<1>4. QED BY <1>2, <1>3 DEF Queue!QueueInit, RingQueue, InHand

\* The ring is a first-in first-out queue of at most Capacity records: what was
\* pushed is taken once, by one consumer, in the order of the pushes, whatever
\* the producers and the consumers do between the accesses of one another.
THEOREM RingIsQueue == RingSpec => ImplementsQueue
  BY RingQueueStart, RingQueueStep, RingInvHolds, PTL DEF RingSpec, ImplementsQueue, Queue!QueueSpec

=============================================================================
