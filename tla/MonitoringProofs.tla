-------------------------- MODULE MonitoringProofs --------------------------
(***************************************************************************)
(* The locked monitor and the analyzer, and the types of the four parts    *)
(* that monitor accesses.  The history of the locked monitor is a window   *)
(* of the records in the order in which they were queued; the analyzer     *)
(* answers from all it has been told.                                      *)
(*                                                                         *)
(* A fold of the community modules is a recursive function over the        *)
(* subsets of a set.  FoldExists shows that there is one, and FoldTyped    *)
(* where its values are, each by a smallest counterexample.                *)
(***************************************************************************)
EXTENDS MCMonitoring, HeatEvaluatorProofs, LockFreeMonitorProofs, FiniteSetTheorems,
        SequenceTheorems, WellFoundedInduction, TLAPS

-----------------------------------------------------------------------------
(* The locked monitor: types, and what is known of the threads *)

\* Threads that hold a record hold a typed one, and the processing thread runs
\* only between initialize and the end of shutdown.
HandsInv ==
  /\ recorded \in Nat
  /\ \A r \in Recorders : rpc[r] = "deliver" => rec[r] \in AccessRec
  /\ wpc_ \in {"history", "count"} => inHand \in AccessRec
  /\ owner_ = "down" => wpc_ = "ended"

RecordersOK ==
  /\ rpc \in [Recorders -> {"idle", "deliver"}]
  /\ rec \in [Recorders -> AccessRec \cup {Nothing}]
  /\ recorded \in Nat
  /\ \A r \in Recorders : rpc[r] = "deliver" => rec[r] \in AccessRec

WorkerOK ==
  /\ wpc_ \in {"ended", "loop", "wait", "block", "asleep", "history", "count"}
  /\ inHand \in AccessRec \cup {Nothing}
  /\ wpc_ \in {"history", "count"} => inHand \in AccessRec

OwnerOK ==
  /\ monitor \in [active : BOOLEAN, running : BOOLEAN, mode : {"FULL"} \cup MonitorModes,
                 callback : BOOLEAN]
  /\ owner_ \in {"down", "up", "notify", "join"}
  /\ owner_ = "down" => wpc_ = "ended"

CountsOK ==
  /\ DOMAIN block_access_counts_ \subseteq RecordedBlocks
  /\ \A b \in DOMAIN block_access_counts_ : block_access_counts_[b] \in Nat

QueuesOK ==
  /\ access_queue_ \in Seq(AccessRec) /\ history_buffer_ \in Seq(AccessRec)
  /\ accepted \in Seq(AccessRec)

OthersOK == totals \in Nat /\ clearing \in BOOLEAN /\ forgotten \in Nat

LEMMA EmptyIsTyped == DOMAIN <<>> = {} /\ <<>> \in Seq(AccessRec)
<1>1. <<>> \in Seq(AccessRec) /\ Len(<<>>) = 0
  OBVIOUS
<1>2. DOMAIN <<>> = 1..0
  BY <1>1, LenProperties
<1>3. QED BY <1>1, <1>2

LEMMA MonitorTypeParts ==
  MonitorTypeOK /\ HandsInv <=>
    RecordersOK /\ WorkerOK /\ OwnerOK /\ CountsOK /\ QueuesOK /\ OthersOK
<1>1. Range(block_access_counts_) \subseteq Nat
        <=> \A b \in DOMAIN block_access_counts_ : block_access_counts_[b] \in Nat
  BY DEF Range
<1>2. QED
  BY <1>1 DEF MonitorTypeOK, HandsInv, RecordersOK, WorkerOK, OwnerOK, CountsOK, QueuesOK, OthersOK

-----------------------------------------------------------------------------
(* The history buffer and the queue are windows of the accepted records *)

InHistory == IF wpc_ = "history" THEN 1 ELSE 0
FirstKept == Greater(forgotten, Passed - HistorySize) + 1

\* The two windows element by element, with their places.
WindowsInv ==
  /\ Passed \in Nat /\ forgotten <= Passed
  /\ \A i \in 1..Len(access_queue_) :
       access_queue_[i] = accepted[Len(accepted) - Len(access_queue_) + i]
  /\ Len(history_buffer_) = Passed - FirstKept + 1
  /\ \A i \in 1..Len(history_buffer_) : history_buffer_[i] = accepted[FirstKept + i - 1]
  /\ wpc_ = "history" => inHand = accepted[Passed + 1]

MonitorInv == MonitorTypeOK /\ HandsInv /\ WindowsInv

LEMMA MonitorStart == MonitorInit => MonitorInv
<1> SUFFICES ASSUME MonitorInit PROVE MonitorInv
  OBVIOUS
<1>1. MonitorTypeOK
  <2>1. RecordersOK /\ WorkerOK /\ OwnerOK
    BY DEF MonitorInit, RecordersOK, WorkerOK, OwnerOK
  <2>2. CountsOK /\ QueuesOK /\ OthersOK
    BY EmptyIsTyped DEF MonitorInit, CountsOK, QueuesOK, OthersOK
  <2>3. QED BY <2>1, <2>2, MonitorTypeParts
<1>2. HandsInv
  BY DEF MonitorInit, HandsInv
<1>3. Passed = 0 /\ FirstKept = 1 /\ Len(access_queue_) = 0 /\ Len(history_buffer_) = 0
      /\ wpc_ # "history" /\ forgotten = 0
  BY MonitorAssumption DEF MonitorInit, Passed, FirstKept, Greater
<1>4. WindowsInv
  BY <1>3 DEF WindowsInv
<1>5. QED BY <1>1, <1>2, <1>4 DEF MonitorInv

\* A step that leaves the sequences alone, and neither begins nor ends to add
\* to the history, keeps the windows.
LEMMA WindowsKept ==
  ASSUME WindowsInv, UNCHANGED <<accepted, access_queue_, history_buffer_, forgotten>>,
         wpc_' = "history" <=> wpc_ = "history",
         wpc_ = "history" => inHand' = inHand
  PROVE  WindowsInv'
<1>1. Passed' = Passed
  BY DEF Passed
<1>2. FirstKept' = FirstKept
  BY <1>1 DEF FirstKept
<1>3. QED BY <1>1, <1>2 DEF WindowsInv

\* An accepted record goes to the end of the queue.
LEMMA WindowsEnqueue ==
  ASSUME MonitorTypeOK, WindowsInv, NEW x \in AccessRec,
         access_queue_' = Append(access_queue_, x), accepted' = Append(accepted, x),
         UNCHANGED <<history_buffer_, forgotten, inHand>>,
         wpc_' = "history" <=> wpc_ = "history"
  PROVE  WindowsInv'
<1>1. /\ accepted \in Seq(AccessRec) /\ access_queue_ \in Seq(AccessRec)
      /\ history_buffer_ \in Seq(AccessRec) /\ forgotten \in Nat
  BY DEF MonitorTypeOK
<1>2. /\ Len(access_queue_') = Len(access_queue_) + 1 /\ Len(accepted') = Len(accepted) + 1
      /\ \A i \in 1..Len(access_queue_) : access_queue_'[i] = access_queue_[i]
      /\ \A i \in 1..Len(accepted) : accepted'[i] = accepted[i]
      /\ access_queue_'[Len(access_queue_) + 1] = x /\ accepted'[Len(accepted) + 1] = x
  BY <1>1, AppendProperties
<1>3. Len(access_queue_) \in Nat /\ Len(accepted) \in Nat /\ Len(history_buffer_) \in Nat
  BY <1>1, LenProperties
<1>4. Passed' = Passed
  BY <1>2, <1>3 DEF Passed
<1>5. FirstKept' = FirstKept
  BY <1>4 DEF FirstKept
<1>6. Passed \in Nat /\ FirstKept \in Nat \ {0} /\ FirstKept <= Passed + 1
  <2>1. Passed \in Nat /\ forgotten <= Passed /\ HistorySize \in Nat
    BY MonitorAssumption DEF WindowsInv
  <2>2. QED BY <1>1, <2>1 DEF FirstKept, Greater
<1>7. Passed <= Len(accepted) - Len(access_queue_) /\ Passed <= Len(accepted)
      /\ (wpc_ = "history" => Passed + 1 = Len(accepted) - Len(access_queue_))
  BY <1>3 DEF Passed
<1>8. ASSUME NEW i \in 1..Len(access_queue_')
      PROVE  access_queue_'[i] = accepted'[Len(accepted') - Len(access_queue_') + i]
  <2>1. CASE i = Len(access_queue_) + 1
    BY <2>1, <1>2, <1>3
  <2>2. CASE i # Len(access_queue_) + 1
    <3>1. i \in 1..Len(access_queue_)
      BY <2>2, <1>2, <1>3
    <3>2. access_queue_[i] = accepted[Len(accepted) - Len(access_queue_) + i]
      BY <3>1 DEF WindowsInv
    <3>3. Len(accepted) - Len(access_queue_) + i \in 1..Len(accepted)
      BY <3>1, <1>3, <1>6, <1>7
    <3>4. Len(accepted') - Len(access_queue_') + i = Len(accepted) - Len(access_queue_) + i
      BY <3>1, <1>2, <1>3
    <3>5. QED BY <3>1, <3>2, <3>3, <3>4, <1>2
  <2>3. QED BY <2>1, <2>2
<1>9. ASSUME NEW i \in 1..Len(history_buffer_)
      PROVE  history_buffer_[i] = accepted'[FirstKept + i - 1]
  <2>1. history_buffer_[i] = accepted[FirstKept + i - 1] /\ Len(history_buffer_) = Passed - FirstKept + 1
    BY DEF WindowsInv
  <2>2. FirstKept + i - 1 \in 1..Len(accepted)
    BY <2>1, <1>3, <1>6, <1>7
  <2>3. QED BY <2>1, <2>2, <1>2
<1>10. ASSUME wpc_' = "history"
       PROVE  inHand = accepted'[Passed + 1]
  <2>1. inHand = accepted[Passed + 1] /\ Passed + 1 = Len(accepted) - Len(access_queue_)
    BY <1>10, <1>7 DEF WindowsInv
  <2>2. Passed + 1 \in 1..Len(accepted)
    BY <2>1, <1>3, <1>6
  <2>3. QED BY <2>1, <2>2, <1>2
<1>11. Len(history_buffer_) = Passed - FirstKept + 1 /\ forgotten <= Passed
  BY DEF WindowsInv
<1>12. QED BY <1>4, <1>5, <1>6, <1>8, <1>9, <1>10, <1>11 DEF WindowsInv

\* The first record of the queue is in hand.
LEMMA WindowsTake ==
  ASSUME MonitorTypeOK, WindowsInv, TakeRecord
  PROVE  WindowsInv'
<1>1. /\ accepted \in Seq(AccessRec) /\ access_queue_ \in Seq(AccessRec)
      /\ history_buffer_ \in Seq(AccessRec) /\ forgotten \in Nat
  BY DEF MonitorTypeOK
<1>2. /\ wpc_ = "wait" /\ wpc_' = "history" /\ access_queue_ # <<>>
      /\ access_queue_' = Tail(access_queue_) /\ inHand' = Head(access_queue_)
      /\ UNCHANGED <<accepted, history_buffer_, forgotten>>
  BY DEF TakeRecord, Go, past
<1>3. Len(access_queue_) \in Nat \ {0} /\ Len(accepted) \in Nat /\ Len(history_buffer_) \in Nat
  BY <1>1, <1>2, LenProperties, EmptySeq
<1>4. /\ Len(access_queue_') = Len(access_queue_) - 1
      /\ \A i \in 1..Len(access_queue_') : access_queue_'[i] = access_queue_[i + 1]
  BY <1>1, <1>2, <1>3, HeadTailProperties
<1>5. Passed' = Passed /\ Passed = Len(accepted) - Len(access_queue_)
  BY <1>2, <1>3, <1>4 DEF Passed
<1>6. FirstKept' = FirstKept
  BY <1>2, <1>5 DEF FirstKept
<1>7. inHand' = accepted[Passed + 1]
  <2>1. Head(access_queue_) = access_queue_[1]
    BY <1>1, <1>3, HeadTailProperties
  <2>2. access_queue_[1] = accepted[Len(accepted) - Len(access_queue_) + 1]
    BY <1>3 DEF WindowsInv
  <2>3. QED BY <1>2, <1>5, <2>1, <2>2
<1>8. ASSUME NEW i \in 1..Len(access_queue_')
      PROVE  access_queue_'[i] = accepted[Len(accepted) - Len(access_queue_') + i]
  <2>1. i + 1 \in 1..Len(access_queue_)
    BY <1>3, <1>4
  <2>2. access_queue_[i + 1] = accepted[Len(accepted) - Len(access_queue_) + (i + 1)]
    BY <2>1 DEF WindowsInv
  <2>3. Len(accepted) - Len(access_queue_) + (i + 1) = Len(accepted) - Len(access_queue_') + i
    BY <1>3, <1>4
  <2>4. QED BY <1>4, <2>2, <2>3
<1>9. QED BY <1>2, <1>5, <1>6, <1>7, <1>8 DEF WindowsInv

\* The record in hand goes to the end of the history, which lets the first go
\* when it has become too long.
LEMMA WindowsAdd ==
  ASSUME MonitorTypeOK, HandsInv, WindowsInv, AddToHistory
  PROVE  WindowsInv'
<1>1. /\ accepted \in Seq(AccessRec) /\ access_queue_ \in Seq(AccessRec)
      /\ history_buffer_ \in Seq(AccessRec) /\ forgotten \in Nat
  BY DEF MonitorTypeOK
<1>2. /\ wpc_ = "history" /\ wpc_' = "count" /\ inHand \in AccessRec
      /\ history_buffer_' = Trimmed(Append(history_buffer_, inHand))
      /\ UNCHANGED <<accepted, access_queue_, forgotten, inHand>>
  BY DEF AddToHistory, Go, past, HandsInv
<1>3. Len(access_queue_) \in Nat /\ Len(accepted) \in Nat /\ Len(history_buffer_) \in Nat
  BY <1>1, LenProperties
<1>4. Passed' = Passed + 1
  BY <1>2, <1>3 DEF Passed
<1>5. Passed \in Nat /\ forgotten <= Passed /\ HistorySize \in Nat
      /\ Len(history_buffer_) = Passed - FirstKept + 1 /\ inHand = accepted[Passed + 1]
  BY <1>2, MonitorAssumption DEF WindowsInv
<1>6. FirstKept \in Nat \ {0} /\ FirstKept <= Passed + 1
  BY <1>1, <1>5 DEF FirstKept, Greater
<1> DEFINE longer == Append(history_buffer_, inHand)
<1>7. /\ longer \in Seq(AccessRec) /\ Len(longer) = Len(history_buffer_) + 1
      /\ \A i \in 1..Len(history_buffer_) : longer[i] = history_buffer_[i]
      /\ longer[Len(history_buffer_) + 1] = inHand
  BY <1>1, <1>2, AppendProperties
<1>8. history_buffer_' = IF Len(longer) > HistorySize THEN Tail(longer) ELSE longer
  BY <1>2 DEF Trimmed
<1> HIDE DEF longer
<1>9. ASSUME NEW i \in 1..Len(longer)
      PROVE  longer[i] = accepted[FirstKept + i - 1]
  <2>1. CASE i = Len(history_buffer_) + 1
    <3>1. FirstKept + i - 1 = Passed + 1
      BY <2>1, <1>3, <1>5, <1>6
    <3>2. QED BY <2>1, <3>1, <1>5, <1>7
  <2>2. CASE i # Len(history_buffer_) + 1
    <3>1. i \in 1..Len(history_buffer_)
      BY <2>2, <1>3, <1>7
    <3>2. QED BY <3>1, <1>7 DEF WindowsInv
  <2>3. QED BY <2>1, <2>2
<1>10. Len(longer) = Passed - FirstKept + 2 /\ Len(longer) \in Nat
  BY <1>3, <1>5, <1>6, <1>7
<1>11. FirstKept' = Greater(forgotten, Passed + 1 - HistorySize) + 1
  <2>1. FirstKept' = Greater(forgotten', Passed' - HistorySize) + 1
    BY DEF FirstKept
  <2>2. forgotten' = forgotten
    BY <1>2
  <2>3. Passed' - HistorySize = Passed + 1 - HistorySize
    BY <1>4, <1>5
  <2>4. QED BY <2>1, <2>2, <2>3
<1>12. FirstKept = Greater(forgotten, Passed - HistorySize) + 1
  BY DEF FirstKept
<1>13. CASE Len(longer) > HistorySize
  <2>1. FirstKept' = FirstKept + 1
    BY <1>1, <1>5, <1>10, <1>11, <1>12, <1>13 DEF Greater
  <2>2. history_buffer_' = Tail(longer) /\ longer # <<>>
    BY <1>5, <1>8, <1>10, <1>13, <1>7, EmptySeq
  <2>3. Len(history_buffer_') = Len(longer) - 1
        /\ \A i \in 1..Len(history_buffer_') : history_buffer_'[i] = longer[i + 1]
    BY <1>7, <2>2, HeadTailProperties
  <2>4. Len(history_buffer_') = Passed' - FirstKept' + 1
    BY <2>1, <2>3, <1>4, <1>5, <1>6, <1>10
  <2>5. ASSUME NEW i \in 1..Len(history_buffer_')
        PROVE  history_buffer_'[i] = accepted[FirstKept' + i - 1]
    <3>1. i + 1 \in 1..Len(longer)
      BY <2>3, <1>10
    <3>2. longer[i + 1] = accepted[FirstKept + (i + 1) - 1]
      BY <3>1, <1>9
    <3>3. FirstKept + (i + 1) - 1 = FirstKept' + i - 1
      BY <2>1, <1>6
    <3>4. QED BY <2>3, <3>2, <3>3
  <2>6. Passed' \in Nat /\ forgotten <= Passed'
    BY <1>1, <1>4, <1>5
  <2>7. QED BY <1>2, <2>4, <2>5, <2>6 DEF WindowsInv
<1>14. CASE ~(Len(longer) > HistorySize)
  <2>1. FirstKept' = FirstKept
    BY <1>1, <1>5, <1>10, <1>11, <1>12, <1>14 DEF Greater
  <2>2. history_buffer_' = longer
    BY <1>8, <1>14
  <2>3. Len(history_buffer_') = Passed' - FirstKept' + 1
    BY <2>1, <2>2, <1>4, <1>5, <1>6, <1>10
  <2>4. \A i \in 1..Len(history_buffer_') : history_buffer_'[i] = accepted[FirstKept' + i - 1]
    BY <2>1, <2>2, <1>9
  <2>5. Passed' \in Nat /\ forgotten <= Passed'
    BY <1>1, <1>4, <1>5
  <2>6. QED BY <1>2, <2>3, <2>4, <2>5 DEF WindowsInv
<1>15. QED BY <1>13, <1>14

\* The history begins anew after what has been passed on.
LEMMA WindowsCleared ==
  ASSUME MonitorTypeOK, WindowsInv, history_buffer_' = <<>>, forgotten' = Passed,
         UNCHANGED <<accepted, access_queue_, inHand>>,
         wpc_' = "history" <=> wpc_ = "history"
  PROVE  WindowsInv'
<1>1. Passed' = Passed /\ Passed \in Nat /\ HistorySize \in Nat
  BY MonitorAssumption DEF Passed, WindowsInv
<1>2. FirstKept' = Passed + 1
  BY <1>1 DEF FirstKept, Greater
<1>3. Len(history_buffer_') = 0
  OBVIOUS
<1>4. QED BY <1>1, <1>2, <1>3 DEF WindowsInv

-----------------------------------------------------------------------------
(* Types, action by action *)

LEMMA SameTypeParts ==
  /\ RecordersOK /\ UNCHANGED recorder => RecordersOK'
  /\ WorkerOK /\ UNCHANGED processing => WorkerOK'
  /\ CountsOK /\ UNCHANGED block_access_counts_ => CountsOK'
  /\ QueuesOK /\ UNCHANGED <<access_queue_, history_buffer_, accepted>> => QueuesOK'
  /\ OthersOK /\ UNCHANGED <<totals, clearing, forgotten>> => OthersOK'
  /\ OwnerOK /\ UNCHANGED <<monitor, owner_>> /\ (wpc_' = wpc_ \/ wpc_ # "ended") => OwnerOK'
BY DEF RecordersOK, WorkerOK, CountsOK, QueuesOK, OthersOK, OwnerOK, recorder, processing

LEMMA LifecycleTypes ==
  ASSUME MonitorTypeOK, HandsInv, Passed \in Nat,
         \/ InitializeMonitor \/ SetAccessCallback \/ ShutdownMonitor
         \/ ShutdownNotifies \/ ShutdownJoins
         \/ \E active \in BOOLEAN : SetMonitoring(active)
  PROVE  MonitorTypeOK' /\ HandsInv'
<1>1. RecordersOK /\ WorkerOK /\ OwnerOK /\ CountsOK /\ QueuesOK /\ OthersOK
  BY MonitorTypeParts
<1>2. CASE InitializeMonitor
  <2>1. RecordersOK' /\ CountsOK'
    BY <1>1, <1>2, SameTypeParts DEF InitializeMonitor
  <2>2. QueuesOK' /\ OthersOK'
    BY <1>1, <1>2, EmptyIsTyped DEF InitializeMonitor, QueuesOK, OthersOK
  <2>3. WorkerOK'
    BY <1>1, <1>2 DEF InitializeMonitor, WorkerOK
  <2>4. OwnerOK'
    BY <1>1, <1>2 DEF InitializeMonitor, OwnerOK
  <2>5. QED BY <2>1, <2>2, <2>3, <2>4, MonitorTypeParts, PTL
<1>3. CASE SetAccessCallback
  <2>1. RecordersOK' /\ CountsOK' /\ QueuesOK' /\ OthersOK' /\ WorkerOK'
    BY <1>1, <1>3, SameTypeParts DEF SetAccessCallback, queueState, past
  <2>2. OwnerOK'
    BY <1>1, <1>3 DEF SetAccessCallback, OwnerOK, processing
  <2>3. QED BY <2>1, <2>2, MonitorTypeParts, PTL
<1>4. CASE ShutdownMonitor
  <2>1. RecordersOK' /\ CountsOK' /\ QueuesOK' /\ OthersOK' /\ WorkerOK'
    BY <1>1, <1>4, SameTypeParts DEF ShutdownMonitor, queueState, past
  <2>2. OwnerOK'
    BY <1>1, <1>4 DEF ShutdownMonitor, OwnerOK
  <2>3. QED BY <2>1, <2>2, MonitorTypeParts, PTL
<1>5. CASE ShutdownNotifies
  <2>1. RecordersOK' /\ CountsOK' /\ QueuesOK' /\ OthersOK'
    BY <1>1, <1>5, SameTypeParts DEF ShutdownNotifies, queueState, past
  <2>2. WorkerOK'
    BY <1>1, <1>5 DEF ShutdownNotifies, WorkerOK
  <2>3. OwnerOK'
    BY <1>1, <1>5 DEF ShutdownNotifies, OwnerOK
  <2>4. QED BY <2>1, <2>2, <2>3, MonitorTypeParts, PTL
<1>6. CASE ShutdownJoins
  <2>1. RecordersOK' /\ CountsOK' /\ QueuesOK' /\ OthersOK' /\ WorkerOK'
    BY <1>1, <1>6, SameTypeParts DEF ShutdownJoins, queueState, past
  <2>2. OwnerOK'
    BY <1>1, <1>6 DEF ShutdownJoins, OwnerOK, processing
  <2>3. QED BY <2>1, <2>2, MonitorTypeParts, PTL
<1>7. CASE \E active \in BOOLEAN : SetMonitoring(active)
  <2>1. PICK active \in BOOLEAN : SetMonitoring(active)
    BY <1>7
  <2>2. RecordersOK' /\ CountsOK' /\ QueuesOK' /\ OthersOK' /\ WorkerOK'
    BY <1>1, <2>1, SameTypeParts DEF SetMonitoring, queueState, past
  <2>3. OwnerOK'
    BY <1>1, <2>1 DEF SetMonitoring, OwnerOK, processing
  <2>4. QED BY <2>2, <2>3, MonitorTypeParts, PTL
<1>8. QED BY <1>2, <1>3, <1>4, <1>5, <1>6, <1>7

LEMMA RecorderTypes ==
  ASSUME MonitorTypeOK, HandsInv, NEW r \in Recorders,
         \/ Enqueue(r) \/ CallBack(r) \/ \E b \in RecordedBlocks : BeginRecord(r, b)
  PROVE  MonitorTypeOK' /\ HandsInv'
<1>1. RecordersOK /\ WorkerOK /\ OwnerOK /\ CountsOK /\ QueuesOK /\ OthersOK
  BY MonitorTypeParts
<1>2. ASSUME Delivered(r)
      PROVE  RecordersOK' /\ totals' \in Nat
  BY <1>1, <1>2 DEF Delivered, RecordersOK, OthersOK
<1>3. CASE Enqueue(r)
  <2>1. RecordersOK' /\ CountsOK' /\ totals' \in Nat
    BY <1>1, <1>2, <1>3, SameTypeParts DEF Enqueue
  <2>2. OthersOK'
    BY <1>1, <1>3, <2>1 DEF Enqueue, OthersOK
  <2>3. rec[r] \in AccessRec
    BY <1>1, <1>3 DEF Enqueue, RecordersOK
  <2>4. QueuesOK'
    BY <1>1, <1>3, <2>3 DEF Enqueue, QueuesOK
  <2>5. WorkerOK'
    BY <1>1, <1>3 DEF Enqueue, WorkerOK, NotifiedWorker
  <2>6. OwnerOK'
    BY <1>1, <1>3 DEF Enqueue, OwnerOK, NotifiedWorker, control
  <2>7. QED BY <2>1, <2>2, <2>4, <2>5, <2>6, MonitorTypeParts, PTL
<1>4. CASE CallBack(r)
  <2>1. RecordersOK' /\ CountsOK' /\ QueuesOK' /\ WorkerOK' /\ totals' \in Nat
    BY <1>1, <1>2, <1>4, SameTypeParts DEF CallBack, queueState, past
  <2>2. OthersOK'
    BY <1>1, <1>4, <2>1 DEF CallBack, OthersOK, past
  <2>3. OwnerOK'
    BY <1>1, <1>4 DEF CallBack, OwnerOK, control, processing
  <2>4. QED BY <2>1, <2>2, <2>3, MonitorTypeParts, PTL
<1>5. CASE \E b \in RecordedBlocks : BeginRecord(r, b)
  <2>1. PICK b \in RecordedBlocks : BeginRecord(r, b)
    BY <1>5
  <2>2. CountsOK' /\ QueuesOK' /\ OthersOK' /\ WorkerOK'
    BY <1>1, <2>1, SameTypeParts DEF BeginRecord, queueState, past
  <2>3. OwnerOK'
    BY <1>1, <2>1 DEF BeginRecord, OwnerOK, control, processing
  <2>4. [number |-> recorded + 1, block |-> b] \in AccessRec
    BY <1>1, <2>1, MonitorAssumption DEF BeginRecord, RecordersOK, AccessRec
  <2>5. RecordersOK'
    <3>1. recorded' \in Nat
      BY <1>1, <2>1 DEF BeginRecord, RecordersOK
    <3>2. CASE UNCHANGED <<rpc, rec>>
      BY <1>1, <3>1, <3>2 DEF RecordersOK
    <3>3. CASE /\ rpc' = [rpc EXCEPT ![r] = "deliver"]
               /\ rec' = [rec EXCEPT ![r] = [number |-> recorded + 1, block |-> b]]
      <4> DEFINE one == [number |-> recorded + 1, block |-> b]
      <4>1. one \in AccessRec /\ rec' = [rec EXCEPT ![r] = one]
        BY <2>4, <3>3
      <4> HIDE DEF one
      <4>2. QED BY <1>1, <3>1, <3>3, <4>1 DEF RecordersOK
    <3>4. QED BY <2>1, <3>2, <3>3 DEF BeginRecord
  <2>6. QED BY <2>2, <2>3, <2>5, MonitorTypeParts, PTL
<1>6. QED BY <1>3, <1>4, <1>5

LEMMA ProcessingTypes ==
  ASSUME MonitorTypeOK, HandsInv, Passed \in Nat,
         \/ Processing \/ ClearCounts \/ \E zeroed \in BOOLEAN : ClearHistoryBuffer(zeroed)
  PROVE  MonitorTypeOK' /\ HandsInv'
<1>1. RecordersOK /\ WorkerOK /\ OwnerOK /\ CountsOK /\ QueuesOK /\ OthersOK
  BY MonitorTypeParts
<1>2. CASE LoopTest \/ FindNothing \/ FallAsleep
  <2>1. RecordersOK' /\ CountsOK' /\ QueuesOK' /\ OthersOK'
    BY <1>1, <1>2, SameTypeParts DEF LoopTest, FindNothing, FallAsleep, queueState, past
  <2>2. WorkerOK'
    BY <1>1, <1>2 DEF LoopTest, FindNothing, FallAsleep, Go, WorkerOK
  <2>3. OwnerOK'
    BY <1>1, <1>2, SameTypeParts DEF LoopTest, FindNothing, FallAsleep, control
  <2>4. QED BY <2>1, <2>2, <2>3, MonitorTypeParts, PTL
<1>3. CASE TakeRecord
  <2>1. RecordersOK' /\ CountsOK' /\ OthersOK'
    BY <1>1, <1>3, SameTypeParts DEF TakeRecord, past
  <2>2. OwnerOK'
    BY <1>1, <1>3, SameTypeParts DEF TakeRecord, control
  <2>3. Head(access_queue_) \in AccessRec /\ Tail(access_queue_) \in Seq(AccessRec)
    BY <1>1, <1>3, HeadTailProperties DEF QueuesOK, TakeRecord
  <2>4. WorkerOK'
    BY <1>1, <1>3, <2>3 DEF TakeRecord, Go, WorkerOK
  <2>5. QueuesOK'
    BY <1>1, <1>3, <2>3 DEF TakeRecord, QueuesOK, past
  <2>6. QED BY <2>1, <2>2, <2>4, <2>5, MonitorTypeParts, PTL
<1>4. CASE AddToHistory
  <2>1. RecordersOK' /\ CountsOK' /\ OthersOK'
    BY <1>1, <1>4, SameTypeParts DEF AddToHistory, past
  <2>2. OwnerOK'
    BY <1>1, <1>4, SameTypeParts DEF AddToHistory, control
  <2>3. WorkerOK'
    BY <1>1, <1>4 DEF AddToHistory, Go, WorkerOK
  <2>4. inHand \in AccessRec /\ history_buffer_ \in Seq(AccessRec)
    BY <1>1, <1>4 DEF AddToHistory, WorkerOK, QueuesOK
  <2> DEFINE longer == Append(history_buffer_, inHand)
  <2>5. longer \in Seq(AccessRec) /\ Len(longer) = Len(history_buffer_) + 1
    BY <2>4, AppendProperties
  <2>6. history_buffer_' = Trimmed(longer)
    BY <1>4 DEF AddToHistory
  <2> HIDE DEF longer
  <2>7. longer # <<>>
    BY <2>4, <2>5, LenProperties
  <2>8. Trimmed(longer) \in Seq(AccessRec)
    BY <2>5, <2>7, HeadTailProperties DEF Trimmed
  <2>9. QueuesOK'
    BY <1>1, <1>4, <2>6, <2>8 DEF AddToHistory, QueuesOK, past
  <2>10. QED BY <2>1, <2>2, <2>3, <2>9, MonitorTypeParts, PTL
<1>5. CASE UpdateCounts
  <2>1. RecordersOK' /\ OthersOK' /\ QueuesOK'
    BY <1>1, <1>5, SameTypeParts DEF UpdateCounts, past
  <2>2. OwnerOK'
    BY <1>1, <1>5, SameTypeParts DEF UpdateCounts, control
  <2>3. WorkerOK'
    BY <1>1, <1>5 DEF UpdateCounts, Go, WorkerOK
  <2>4. inHand.block \in RecordedBlocks
    BY <1>1, <1>5 DEF UpdateCounts, WorkerOK, AccessRec
  <2>5. Lookup(block_access_counts_, inHand.block, 0) \in Nat
    BY <1>1 DEF CountsOK, Lookup
  <2>6. CountsOK'
    BY <1>1, <1>5, <2>4, <2>5 DEF UpdateCounts, CountsOK, Added
  <2>7. QED BY <2>1, <2>2, <2>3, <2>6, MonitorTypeParts, PTL
<1>6. CASE ClearCounts
  <2>1. RecordersOK' /\ QueuesOK' /\ WorkerOK'
    BY <1>1, <1>6, SameTypeParts DEF ClearCounts, past
  <2>2. OwnerOK' /\ OthersOK' /\ CountsOK'
    BY <1>1, <1>6, EmptyIsTyped DEF ClearCounts, OwnerOK, OthersOK, CountsOK, control, past, processing
  <2>3. QED BY <2>1, <2>2, MonitorTypeParts, PTL
<1>7. CASE \E zeroed \in BOOLEAN : ClearHistoryBuffer(zeroed)
  <2>1. PICK zeroed \in BOOLEAN : ClearHistoryBuffer(zeroed)
    BY <1>7
  <2>2. RecordersOK' /\ CountsOK' /\ WorkerOK'
    BY <1>1, <2>1, SameTypeParts DEF ClearHistoryBuffer
  <2>3. OwnerOK'
    BY <1>1, <2>1 DEF ClearHistoryBuffer, OwnerOK, control, processing
  <2>4. QueuesOK' /\ OthersOK'
    BY <1>1, <2>1 DEF ClearHistoryBuffer, QueuesOK, OthersOK
  <2>5. QED BY <2>2, <2>3, <2>4, MonitorTypeParts, PTL
<1>8. QED BY <1>2, <1>3, <1>4, <1>5, <1>6, <1>7 DEF Processing

-----------------------------------------------------------------------------
LEMMA MonitorStep == MonitorInv /\ [MonitorNext]_monitorVars => MonitorInv'
<1> SUFFICES ASSUME MonitorInv, [MonitorNext]_monitorVars PROVE MonitorInv'
  OBVIOUS
<1>1. MonitorTypeOK /\ HandsInv /\ WindowsInv /\ Passed \in Nat
  BY DEF MonitorInv, WindowsInv
<1>2. CASE \/ InitializeMonitor \/ SetAccessCallback \/ ShutdownMonitor
           \/ ShutdownNotifies \/ ShutdownJoins
           \/ \E active \in BOOLEAN : SetMonitoring(active)
  <2>1. MonitorTypeOK' /\ HandsInv'
    BY <1>1, <1>2, LifecycleTypes
  <2>2. CASE InitializeMonitor
    <3>1. wpc_ = "ended" /\ wpc_' = "loop"
      BY <1>1, <2>2 DEF HandsInv, InitializeMonitor
    <3>2. WindowsInv'
      BY <1>1, <2>2, <3>1, WindowsCleared DEF InitializeMonitor
    <3>3. QED BY <2>1, <3>2 DEF MonitorInv
  <2>3. CASE ~InitializeMonitor
    <3>1. UNCHANGED <<accepted, access_queue_, history_buffer_, forgotten, inHand>>
      BY <1>2, <2>3 DEF SetAccessCallback, ShutdownMonitor, ShutdownNotifies, ShutdownJoins,
                        SetMonitoring, queueState, past, processing
    <3>2. wpc_' = "history" <=> wpc_ = "history"
      BY <1>2, <2>3 DEF SetAccessCallback, ShutdownMonitor, ShutdownNotifies, ShutdownJoins,
                        SetMonitoring, processing
    <3>3. WindowsInv'
      BY <1>1, <3>1, <3>2, WindowsKept
    <3>4. QED BY <2>1, <3>3 DEF MonitorInv
  <2>4. QED BY <2>2, <2>3
<1>3. CASE \E r \in Recorders : \/ Enqueue(r) \/ CallBack(r)
                                \/ \E b \in RecordedBlocks : BeginRecord(r, b)
  <2>1. PICK r \in Recorders : \/ Enqueue(r) \/ CallBack(r)
                               \/ \E b \in RecordedBlocks : BeginRecord(r, b)
    BY <1>3
  <2>2. MonitorTypeOK' /\ HandsInv'
    BY <1>1, <2>1, RecorderTypes
  <2>3. CASE Enqueue(r)
    <3>1. rec[r] \in AccessRec
      BY <1>1, <2>3 DEF HandsInv, Enqueue
    <3>2. /\ access_queue_' = Append(access_queue_, rec[r])
          /\ accepted' = Append(accepted, rec[r])
          /\ UNCHANGED <<history_buffer_, forgotten, inHand>>
          /\ wpc_' = "history" <=> wpc_ = "history"
      BY <2>3 DEF Enqueue, NotifiedWorker
    <3>3. WindowsInv'
      BY <1>1, <3>1, <3>2, WindowsEnqueue
    <3>4. QED BY <2>2, <3>3 DEF MonitorInv
  <2>4. CASE ~Enqueue(r)
    <3>1. /\ UNCHANGED <<accepted, access_queue_, history_buffer_, forgotten, inHand>>
          /\ wpc_' = "history" <=> wpc_ = "history"
      BY <2>1, <2>4 DEF CallBack, BeginRecord, queueState, past, processing
    <3>2. WindowsInv'
      BY <1>1, <3>1, WindowsKept
    <3>3. QED BY <2>2, <3>2 DEF MonitorInv
  <2>5. QED BY <2>3, <2>4
<1>4. CASE Processing \/ ClearCounts \/ \E zeroed \in BOOLEAN : ClearHistoryBuffer(zeroed)
  <2>1. MonitorTypeOK' /\ HandsInv'
    BY <1>1, <1>4, ProcessingTypes
  <2>2. CASE LoopTest \/ FindNothing \/ FallAsleep \/ UpdateCounts \/ ClearCounts
    <3>1. /\ UNCHANGED <<accepted, access_queue_, history_buffer_, forgotten>>
          /\ wpc_' = "history" <=> wpc_ = "history"
          /\ wpc_ = "history" => inHand' = inHand
      BY <2>2 DEF LoopTest, FindNothing, FallAsleep, UpdateCounts, ClearCounts, Go, queueState,
                  past, processing
    <3>2. WindowsInv'
      BY <1>1, <3>1, WindowsKept
    <3>3. QED BY <2>1, <3>2 DEF MonitorInv
  <2>3. CASE TakeRecord
    BY <1>1, <2>1, <2>3, WindowsTake DEF MonitorInv
  <2>4. CASE AddToHistory
    BY <1>1, <2>1, <2>4, WindowsAdd DEF MonitorInv
  <2>5. CASE \E zeroed \in BOOLEAN : ClearHistoryBuffer(zeroed)
    <3>1. PICK zeroed \in BOOLEAN : ClearHistoryBuffer(zeroed)
      BY <2>5
    <3>2. /\ history_buffer_' = <<>> /\ forgotten' = Passed
          /\ UNCHANGED <<accepted, access_queue_, inHand>>
          /\ wpc_' = "history" <=> wpc_ = "history"
      BY <3>1 DEF ClearHistoryBuffer, processing
    <3>3. WindowsInv'
      BY <1>1, <3>2, WindowsCleared
    <3>4. QED BY <2>1, <3>3 DEF MonitorInv
  <2>6. QED BY <1>4, <2>2, <2>3, <2>4, <2>5 DEF Processing
<1>5. CASE UNCHANGED monitorVars
  <2>1. UNCHANGED <<recorder, processing, block_access_counts_, access_queue_, history_buffer_,
                    accepted, totals, clearing, forgotten, monitor, owner_>>
    BY <1>5 DEF monitorVars, control, queueState, past
  <2>2. MonitorTypeOK' /\ HandsInv'
    <3>1. RecordersOK /\ WorkerOK /\ OwnerOK /\ CountsOK /\ QueuesOK /\ OthersOK
      BY <1>1, MonitorTypeParts
    <3>2. wpc_' = wpc_
      BY <2>1 DEF processing
    <3>3. RecordersOK' /\ WorkerOK' /\ OwnerOK' /\ CountsOK' /\ QueuesOK' /\ OthersOK'
      BY <2>1, <3>1, <3>2, SameTypeParts
    <3>4. QED BY <3>3, MonitorTypeParts, PTL
  <2>3. WindowsInv'
    <3>1. inHand' = inHand /\ wpc_' = wpc_
      BY <2>1 DEF processing
    <3>2. QED BY <1>1, <2>1, <3>1, WindowsKept
  <2>4. QED BY <2>2, <2>3 DEF MonitorInv
<1>6. QED BY <1>2, <1>3, <1>4, <1>5 DEF MonitorNext

LEMMA MonitorInvHolds == MonitorInit /\ [][MonitorNext]_monitorVars => []MonitorInv
BY MonitorStart, MonitorStep, PTL

\* The windows as sequences.
LEMMA WindowsInOrder ==
  ASSUME MonitorTypeOK, WindowsInv
  PROVE  HistoryInOrder
<1>1. /\ accepted \in Seq(AccessRec) /\ access_queue_ \in Seq(AccessRec)
      /\ history_buffer_ \in Seq(AccessRec) /\ forgotten \in Nat
  BY DEF MonitorTypeOK
<1>2. Len(access_queue_) \in Nat /\ Len(accepted) \in Nat /\ Len(history_buffer_) \in Nat
  BY <1>1, LenProperties
<1>3. Passed \in Nat /\ FirstKept \in Nat \ {0} /\ FirstKept <= Passed + 1
      /\ Passed <= Len(accepted) /\ Len(access_queue_) <= Len(accepted)
  <2>1. Passed \in Nat /\ forgotten <= Passed /\ HistorySize \in Nat
    BY MonitorAssumption DEF WindowsInv
  <2>2. FirstKept \in Nat \ {0} /\ FirstKept <= Passed + 1
    BY <1>1, <2>1 DEF FirstKept, Greater
  <2>3. Passed = Len(accepted) - Len(access_queue_) - InHistory
        /\ InHistory \in Nat
    BY DEF Passed, InHistory
  <2>4. Passed <= Len(accepted) /\ Len(access_queue_) <= Len(accepted)
    BY <1>2, <2>1, <2>3
  <2>5. QED BY <2>1, <2>2, <2>4
<1>4. history_buffer_ = SubSeq(accepted, FirstKept, Passed)
  <2> DEFINE window == SubSeq(accepted, FirstKept, Passed)
  <2>1. /\ window \in Seq(AccessRec)
        /\ Len(window) = Passed - FirstKept + 1
        /\ \A i \in 1..(Passed - FirstKept + 1) : window[i] = accepted[FirstKept + i - 1]
    BY <1>1, <1>2, <1>3, SubSeqProperties
  <2> HIDE DEF window
  <2>2. Len(history_buffer_) = Len(window)
        /\ \A i \in 1..Len(history_buffer_) : history_buffer_[i] = window[i]
    BY <2>1 DEF WindowsInv
  <2>3. history_buffer_ = window
    BY <1>1, <2>1, <2>2, SeqEqual
  <2>4. QED BY <2>3 DEF window
<1>5. access_queue_ = SubSeq(accepted, Len(accepted) - Len(access_queue_) + 1, Len(accepted))
  <2> DEFINE from == Len(accepted) - Len(access_queue_) + 1
             window == SubSeq(accepted, from, Len(accepted))
  <2>1. from \in Nat \ {0} /\ from <= Len(accepted) + 1
    BY <1>2, <1>3
  <2>2. /\ window \in Seq(AccessRec)
        /\ Len(window) = Len(accepted) - from + 1
        /\ \A i \in 1..(Len(accepted) - from + 1) : window[i] = accepted[from + i - 1]
    <3> HIDE DEF from
    <3>1. QED BY <1>1, <1>2, <2>1, SubSeqProperties
  <2>3. Len(accepted) - from + 1 = Len(access_queue_)
    BY <1>2
  <2>4. \A i \in 1..Len(access_queue_) : access_queue_[i] = accepted[from + i - 1]
    <3>1. \A i \in 1..Len(access_queue_) : from + i - 1 = Len(accepted) - Len(access_queue_) + i
      BY <1>2
    <3>2. QED BY <3>1 DEF WindowsInv
  <2> HIDE DEF from, window
  <2>5. access_queue_ = window
    BY <1>1, <2>2, <2>3, <2>4, SeqEqual
  <2>6. QED BY <2>5 DEF window, from
<1>6. wpc_ = "history" => inHand = accepted[Passed + 1]
  BY DEF WindowsInv
<1>7. QED BY <1>4, <1>5, <1>6 DEF HistoryInOrder, FirstKept

-----------------------------------------------------------------------------
(* The analyzer: folds and rankings *)

LEMMA LeastOf ==
  ASSUME NEW T, T \subseteq Nat, T # {}
  PROVE  \E x \in T : \A y \in T : x <= y
<1>1. PICK x \in T : \A y \in T : ~ (<<y, x>> \in OpToRel(<, Nat))
  BY NatLessThanWellFounded, WFMin
<1>2. \A y \in T : ~ (y < x)
  BY <1>1 DEF OpToRel
<1>3. QED BY <1>2

\* A finite set of numbers has a greatest one.
LEMMA GreatestOf ==
  ASSUME NEW T, T \subseteq Nat, T # {}, NEW m \in Nat, \A y \in T : y <= m
  PROVE  \E x \in T : \A y \in T : y <= x
<1> DEFINE bounds == {b \in Nat : \A y \in T : y <= b}
<1>1. PICK b \in bounds : \A c \in bounds : b <= c
  <2>1. m \in bounds
    OBVIOUS
  <2>2. QED BY <2>1, LeastOf
<1>2. b \in Nat /\ \A y \in T : y <= b
  BY <1>1
<1>3. b \in T
  <2> SUFFICES ASSUME b \notin T PROVE FALSE
    OBVIOUS
  <2>1. \A y \in T : y < b
    BY <1>2
  <2>2. PICK y \in T : TRUE
    OBVIOUS
  <2>3. b - 1 \in Nat
    BY <1>2, <2>1, <2>2
  <2>4. \A z \in T : z <= b - 1
    BY <1>2, <2>1
  <2>5. b - 1 \in bounds /\ ~(b <= b - 1)
    BY <1>2, <2>3, <2>4
  <2>6. QED BY <1>1, <2>5
<1>4. QED BY <1>2, <1>3

\* The values of a function over a finite set are finitely many.
LEMMA FiniteRange ==
  ASSUME NEW S, IsFiniteSet(S), NEW f
  PROVE  IsFiniteSet({f[x] : x \in S})
<1> DEFINE T == {f[x] : x \in S}
           g == [x \in S |-> f[x]]
<1>1. g \in Surjection(S, T)
  BY DEF Surjection
<1>2. QED BY <1>1, FS_Surjection

\* What a fold computes over the subsets of a set, one element at a time.
Folds(f, S, base, c, G) ==
  \A s \in SUBSET S : f[s] = IF s = {} THEN base ELSE G[<<c[s], f[s \ {c[s]}]>>]

SmallSets(S, n) == {s \in SUBSET S : Cardinality(s) <= n}

FoldsTo(f, n, S, V, base, c, G) ==
  /\ f \in [SmallSets(S, n) -> V]
  /\ \A s \in SmallSets(S, n) : f[s] = IF s = {} THEN base ELSE G[<<c[s], f[s \ {c[s]}]>>]

LEMMA SmallerSet ==
  ASSUME NEW S, IsFiniteSet(S), NEW n \in Nat, NEW s \in SmallSets(S, n), NEW x \in s
  PROVE  n # 0 /\ s \ {x} \in SmallSets(S, n - 1) /\ s \ {x} \in SmallSets(S, n)
<1>1. s \subseteq S /\ Cardinality(s) <= n
  BY DEF SmallSets
<1>2. IsFiniteSet(s)
  BY <1>1, FS_Subset
<1>3. Cardinality(s \ {x}) = Cardinality(s) - 1 /\ Cardinality(s) \in Nat
      /\ Cardinality(s \ {x}) \in Nat /\ s \ {x} \subseteq S
  BY <1>1, <1>2, FS_RemoveElement, FS_CardinalityType
<1>4. QED BY <1>1, <1>3 DEF SmallSets

LEMMA FoldExists ==
  ASSUME NEW S, IsFiniteSet(S), NEW V, NEW base \in V, NEW c, NEW G,
         \A s \in SUBSET S : s # {} => c[s] \in s,
         \A x \in S, v \in V : G[<<x, v>>] \in V
  PROVE  \E f : f \in [SUBSET S -> V] /\ Folds(f, S, base, c, G)
<1> DEFINE N == Cardinality(S)
           bad == {n \in 0..N : ~ \E f : FoldsTo(f, n, S, V, base, c, G)}
<1>1. N \in Nat
  BY FS_CardinalityType
<1> HIDE DEF N
<1>2. bad = {}
  <2> SUFFICES ASSUME bad # {} PROVE FALSE
    OBVIOUS
  <2>1. bad \subseteq Nat
    BY <1>1
  <2>2. PICK n \in bad : \A l \in bad : n <= l
    BY <2>1, LeastOf
  <2>3. n \in 0..N /\ n \in Nat /\ ~ \E f : FoldsTo(f, n, S, V, base, c, G)
    BY <2>1, <2>2
  <2>4. PICK f : n # 0 => FoldsTo(f, n - 1, S, V, base, c, G)
    <3>1. CASE n = 0
      BY <3>1
    <3>2. CASE n # 0
      <4>1. n - 1 \in 0..N /\ ~(n <= n - 1)
        BY <1>1, <2>3, <3>2
      <4>2. n - 1 \notin bad
        BY <2>2, <4>1
      <4>3. QED BY <4>1, <4>2
    <3>3. QED BY <3>1, <3>2
  <2> HIDE DEF bad
  <2> DEFINE g == [s \in SmallSets(S, n) |-> IF s = {} THEN base ELSE G[<<c[s], f[s \ {c[s]}]>>]]
  <2>5. ASSUME NEW s \in SmallSets(S, n), s # {}
        PROVE  /\ n # 0 /\ c[s] \in s /\ c[s] \in S
               /\ s \ {c[s]} \in SmallSets(S, n - 1) /\ s \ {c[s]} \in SmallSets(S, n)
    <3>1. s \in SUBSET S
      BY DEF SmallSets
    <3>2. c[s] \in s
      BY <2>5, <3>1
    <3>3. QED BY <2>3, <3>1, <3>2, SmallerSet
  <2>6. ASSUME NEW s \in SmallSets(S, n), s # {}
        PROVE  f[s \ {c[s]}] \in V /\ g[s \ {c[s]}] = f[s \ {c[s]}]
    <3>1. FoldsTo(f, n - 1, S, V, base, c, G)
      BY <2>4, <2>5, <2>6
    <3> DEFINE t == s \ {c[s]}
    <3>2. t \in SmallSets(S, n - 1) /\ t \in SmallSets(S, n)
      BY <2>5, <2>6
    <3> HIDE DEF t
    <3>3. f[t] \in V /\ f[t] = IF t = {} THEN base ELSE G[<<c[t], f[t \ {c[t]}]>>]
      BY <3>1, <3>2 DEF FoldsTo
    <3>4. g[t] = f[t]
      BY <3>2, <3>3
    <3>5. QED BY <3>3, <3>4 DEF t
  <2>7. g \in [SmallSets(S, n) -> V]
    <3>1. ASSUME NEW s \in SmallSets(S, n)
          PROVE  (IF s = {} THEN base ELSE G[<<c[s], f[s \ {c[s]}]>>]) \in V
      <4>1. CASE s = {}
        BY <4>1
      <4>2. CASE s # {}
        <5>1. f[s \ {c[s]}] \in V /\ c[s] \in S
          BY <2>5, <2>6, <4>2
        <5>2. G[<<c[s], f[s \ {c[s]}]>>] \in V
          BY <5>1
        <5>3. QED BY <4>2, <5>2
      <4>3. QED BY <4>1, <4>2
    <3>2. QED BY <3>1
  <2>8. ASSUME NEW s \in SmallSets(S, n)
        PROVE  g[s] = IF s = {} THEN base ELSE G[<<c[s], g[s \ {c[s]}]>>]
    <3>1. g[s] = IF s = {} THEN base ELSE G[<<c[s], f[s \ {c[s]}]>>]
      OBVIOUS
    <3>2. s # {} => g[s \ {c[s]}] = f[s \ {c[s]}]
      BY <2>6
    <3> HIDE DEF g
    <3>3. QED BY <3>1, <3>2
  <2> HIDE DEF g
  <2>9. FoldsTo(g, n, S, V, base, c, G)
    BY <2>7, <2>8 DEF FoldsTo
  <2>10. QED BY <2>3, <2>9
<1>3. PICK f : FoldsTo(f, N, S, V, base, c, G)
  <2>1. N \in 0..N
    BY <1>1
  <2>2. QED BY <1>2, <2>1
<1>4. SmallSets(S, N) = SUBSET S
  <2>1. ASSUME NEW s \in SUBSET S PROVE s \in SmallSets(S, N)
    <3>1. Cardinality(s) <= N
      BY FS_Subset DEF N
    <3>2. QED BY <3>1 DEF SmallSets
  <2>2. QED BY <2>1 DEF SmallSets
<1>5. QED BY <1>3, <1>4 DEF FoldsTo, Folds

\* A function that goes on like a fold from typed values has typed values.
FoldsTyped(f, S, V, base, c, G) ==
  /\ \A s \in SUBSET S : s # {} => c[s] \in s
  /\ \A x \in S, v \in V : G[<<x, v>>] \in V
  /\ f[{}] = base
  /\ \A s \in SUBSET S : s # {} /\ f[s \ {c[s]}] \in V => f[s] = G[<<c[s], f[s \ {c[s]}]>>]

LEMMA FoldTyped ==
  ASSUME NEW S, IsFiniteSet(S), NEW V, NEW base \in V, NEW c, NEW G, NEW f,
         FoldsTyped(f, S, V, base, c, G)
  PROVE  f[S] \in V
<1>0. /\ \A s \in SUBSET S : s # {} => c[s] \in s
      /\ \A x \in S, v \in V : G[<<x, v>>] \in V
      /\ f[{}] = base
      /\ \A s \in SUBSET S : s # {} /\ f[s \ {c[s]}] \in V => f[s] = G[<<c[s], f[s \ {c[s]}]>>]
  BY DEF FoldsTyped
<1> DEFINE bad == {n \in Nat : \E s \in SUBSET S : Cardinality(s) = n /\ f[s] \notin V}
<1>1. bad = {}
  <2> SUFFICES ASSUME bad # {} PROVE FALSE
    OBVIOUS
  <2>1. PICK n \in bad : \A l \in bad : n <= l
    BY LeastOf
  <2>2. PICK s \in SUBSET S : Cardinality(s) = n /\ f[s] \notin V
    BY <2>1
  <2>3. s # {} /\ c[s] \in s /\ c[s] \in S
    BY <1>0, <2>2
  <2>4. IsFiniteSet(s)
    BY FS_Subset
  <2>5. Cardinality(s \ {c[s]}) = n - 1 /\ n - 1 \in Nat
    <3>1. IsFiniteSet(s \ {c[s]}) /\ Cardinality(s \ {c[s]}) = Cardinality(s) - 1
      BY <2>3, <2>4, FS_RemoveElement
    <3>2. Cardinality(s \ {c[s]}) \in Nat
      BY <3>1, FS_CardinalityType
    <3>3. QED BY <2>2, <3>1, <3>2
  <2>6. n - 1 \notin bad
    BY <2>1, <2>5
  <2>7. f[s \ {c[s]}] \in V
    BY <2>5, <2>6
  <2>8. f[s] = G[<<c[s], f[s \ {c[s]}]>>]
    BY <1>0, <2>3, <2>7
  <2>9. QED BY <1>0, <2>2, <2>3, <2>7, <2>8
<1>2. Cardinality(S) \in Nat
  BY FS_CardinalityType
<1>3. QED BY <1>1, <1>2

\* The first n members of S in an order of growing weight.
Sorted(g, n, S, w) ==
  /\ g \in [1..n -> S]
  /\ \A i, j \in 1..n : i # j => g[i] # g[j]
  /\ \A i, j \in 1..n : i < j => w[g[i]] <= w[g[j]]
  /\ \A i \in 1..n, h \in S : (\A j \in 1..n : h # g[j]) => w[g[i]] <= w[h]

LEMMA SortedCount ==
  ASSUME NEW S, IsFiniteSet(S), NEW w, NEW n \in Nat, NEW g, Sorted(g, n, S, w)
  PROVE  /\ Range(g) \subseteq S /\ Cardinality(Range(g)) = n
         /\ n = Cardinality(S) => Range(g) = S
<1>1. g \in [1..n -> S] /\ \A i, j \in 1..n : i # j => g[i] # g[j]
  BY DEF Sorted
<1>2. Range(g) \subseteq S
  BY <1>1 DEF Range
<1>3. g \in [1..n -> Range(g)] /\ (\A x \in Range(g) : \E i \in 1..n : g[i] = x)
  BY <1>1 DEF Range
<1>4. g \in Bijection(1..n, Range(g))
  BY <1>1, <1>3 DEF Bijection, Injection, Surjection, IsInjective
<1>5. IsFiniteSet(1..n) /\ Cardinality(1..n) = n
  BY FS_Interval
<1>6. IsFiniteSet(Range(g)) /\ Cardinality(Range(g)) = Cardinality(1..n)
  BY <1>4, <1>5, FS_Bijection DEF ExistsBijection
<1>7. ASSUME n = Cardinality(S) PROVE Range(g) = S
  BY <1>2, <1>5, <1>6, <1>7, FS_Subset
<1>8. QED BY <1>2, <1>5, <1>6, <1>7

\* One more member in order.
LEMMA SortedNext ==
  ASSUME NEW S, NEW w, \A h \in S : w[h] \in Nat, NEW n \in Nat, NEW g, Sorted(g, n, S, w),
         NEW m \in S \ Range(g), \A h \in S \ Range(g) : w[m] <= w[h]
  PROVE  Sorted([i \in 1..(n + 1) |-> IF i <= n THEN g[i] ELSE m], n + 1, S, w)
<1> DEFINE f == [i \in 1..(n + 1) |-> IF i <= n THEN g[i] ELSE m]
<1>1. /\ g \in [1..n -> S]
      /\ \A i, j \in 1..n : i # j => g[i] # g[j]
      /\ \A i, j \in 1..n : i < j => w[g[i]] <= w[g[j]]
      /\ \A i \in 1..n, h \in S : (\A j \in 1..n : h # g[j]) => w[g[i]] <= w[h]
  BY DEF Sorted
<1>2. \A x : x \in Range(g) <=> \E i \in 1..n : x = g[i]
  BY <1>1 DEF Range
<1>3. \A i \in 1..n : g[i] # m /\ w[g[i]] <= w[m] /\ g[i] \in S
  BY <1>1, <1>2
<1>4. \A i \in 1..n : i \in 1..(n + 1) /\ f[i] = g[i]
  OBVIOUS
<1>5. n + 1 \in 1..(n + 1) /\ f[n + 1] = m
  OBVIOUS
<1>6. f \in [1..(n + 1) -> S]
  BY <1>1
<1> HIDE DEF f
<1>7. \A i \in 1..(n + 1) : i \in 1..n \/ i = n + 1
  OBVIOUS
<1>8. \A i, j \in 1..(n + 1) : i # j => f[i] # f[j]
  BY <1>1, <1>3, <1>4, <1>5, <1>7
<1>9. ASSUME NEW i \in 1..(n + 1), NEW j \in 1..(n + 1), i < j PROVE w[f[i]] <= w[f[j]]
  <2>1. i \in 1..n
    BY <1>9
  <2>2. CASE j \in 1..n
    BY <1>1, <1>4, <1>9, <2>1, <2>2
  <2>3. CASE j = n + 1
    BY <1>3, <1>4, <1>5, <2>1, <2>3
  <2>4. QED BY <1>7, <2>2, <2>3
<1>10. ASSUME NEW i \in 1..(n + 1), NEW h \in S, \A j \in 1..(n + 1) : h # f[j]
       PROVE  w[f[i]] <= w[h]
  <2>1. \A j \in 1..n : h # g[j]
    BY <1>4, <1>10
  <2>2. CASE i \in 1..n
    BY <1>1, <1>4, <2>1, <2>2
  <2>3. CASE i = n + 1
    <3>1. h \in S \ Range(g)
      BY <1>2, <2>1
    <3>2. QED BY <1>5, <2>3, <3>1
  <2>4. QED BY <1>7, <2>2, <2>3
<1>11. Sorted(f, n + 1, S, w)
  BY <1>6, <1>8, <1>9, <1>10 DEF Sorted
<1>12. QED BY <1>11 DEF f

LEMMA SortedExists ==
  ASSUME NEW S, IsFiniteSet(S), NEW w, \A h \in S : w[h] \in Nat
  PROVE  \E g : Sorted(g, Cardinality(S), S, w)
<1> DEFINE N == Cardinality(S)
           bad == {n \in 0..N : ~ \E g : Sorted(g, n, S, w)}
<1>1. N \in Nat
  BY FS_CardinalityType
<1>2. bad = {}
  <2> SUFFICES ASSUME bad # {} PROVE FALSE
    OBVIOUS
  <2>1. bad \subseteq Nat
    BY <1>1
  <2>2. PICK n \in bad : \A l \in bad : n <= l
    BY <2>1, LeastOf
  <2>3. n \in 0..N /\ n \in Nat /\ ~ \E g : Sorted(g, n, S, w)
    BY <2>1, <2>2
  <2>4. n # 0
    <3>1. Sorted([i \in 1..0 |-> 0], 0, S, w)
      BY DEF Sorted
    <3>2. QED BY <2>3, <3>1
  <2>5. PICK k : k = n - 1
    OBVIOUS
  <2>6. k \in Nat /\ k + 1 = n /\ k < N /\ k \in 0..N /\ ~(n <= k)
    BY <1>1, <2>3, <2>4, <2>5
  <2>7. PICK g : Sorted(g, k, S, w)
    <3>1. k \notin bad
      BY <2>2, <2>6
    <3>2. QED BY <2>6, <3>1
  <2> HIDE DEF bad
  <2>8. Range(g) \subseteq S /\ Cardinality(Range(g)) = k
    BY <2>6, <2>7, SortedCount
  <2>9. S \ Range(g) # {}
    <3>1. Range(g) # S
      BY <1>1, <2>6, <2>8
    <3>2. QED BY <2>8, <3>1
  <2> DEFINE weights == {w[h] : h \in S \ Range(g)}
  <2>10. weights \subseteq Nat /\ weights # {}
    BY <2>9
  <2>11. PICK x \in weights : \A y \in weights : x <= y
    BY <2>10, LeastOf
  <2>12. PICK m \in S \ Range(g) : w[m] = x
    BY <2>11
  <2>13. \A h \in S \ Range(g) : w[m] <= w[h]
    BY <2>11, <2>12
  <2>14. Sorted([i \in 1..(k + 1) |-> IF i <= k THEN g[i] ELSE m], k + 1, S, w)
    BY <2>6, <2>7, <2>12, <2>13, SortedNext
  <2>15. QED BY <2>3, <2>6, <2>14
<1>3. N \in 0..N
  BY <1>1
<1>4. QED BY <1>2, <1>3

\* A finite set in an order of falling weight.
Ranked(d, S, w) ==
  /\ d \in [1..Cardinality(S) -> S]
  /\ \A i, j \in 1..Cardinality(S) : i # j => d[i] # d[j]
  /\ \A i, j \in 1..Cardinality(S) : i < j => w[d[i]] >= w[d[j]]
  /\ \A h \in S : \E i \in 1..Cardinality(S) : d[i] = h

LEMMA RankedExists ==
  ASSUME NEW S, IsFiniteSet(S), NEW w, \A h \in S : w[h] \in Nat
  PROVE  \E d : Ranked(d, S, w)
<1> DEFINE N == Cardinality(S)
<1>1. N \in Nat
  BY FS_CardinalityType
<1>2. PICK g : Sorted(g, N, S, w)
  BY SortedExists
<1>3. /\ g \in [1..N -> S]
      /\ \A i, j \in 1..N : i # j => g[i] # g[j]
      /\ \A i, j \in 1..N : i < j => w[g[i]] <= w[g[j]]
  BY <1>2 DEF Sorted
<1>4. Range(g) = S
  BY <1>1, <1>2, SortedCount
<1> HIDE DEF N
<1> DEFINE d == [i \in 1..N |-> g[N + 1 - i]]
<1>5. \A i \in 1..N : N + 1 - i \in 1..N
  BY <1>1
<1>6. \A i \in 1..N : d[i] = g[N + 1 - i]
  OBVIOUS
<1>7. d \in [1..N -> S]
  BY <1>3, <1>5
<1> HIDE DEF d
<1>8. ASSUME NEW i \in 1..N, NEW j \in 1..N, i # j PROVE d[i] # d[j]
  <2>1. N + 1 - i # N + 1 - j
    BY <1>1, <1>8
  <2>2. QED BY <1>3, <1>5, <1>6, <2>1
<1>9. ASSUME NEW i \in 1..N, NEW j \in 1..N, i < j PROVE w[d[i]] >= w[d[j]]
  <2>1. N + 1 - j < N + 1 - i
    BY <1>1, <1>9
  <2>2. w[g[N + 1 - j]] <= w[g[N + 1 - i]]
    BY <1>3, <1>5, <2>1
  <2>3. d[i] \in S /\ d[j] \in S
    BY <1>7
  <2>4. QED BY <1>6, <2>2, <2>3
<1>10. ASSUME NEW h \in S PROVE \E i \in 1..N : d[i] = h
  <2>1. PICK k \in 1..N : g[k] = h
    BY <1>3, <1>4 DEF Range
  <2>2. N + 1 - k \in 1..N /\ N + 1 - (N + 1 - k) = k
    BY <1>1
  <2>3. QED BY <1>6, <2>1, <2>2
<1>11. QED BY <1>7, <1>8, <1>9, <1>10 DEF Ranked, N

-----------------------------------------------------------------------------
(* The analyzer: its values *)

\* Accesses are counted in numbers, for finitely many keys; block by block the
\* window is part of what was followed, and the transitions are all of that.
KeysInv == IsFiniteSet(DOMAIN access_counts) /\ IsFiniteSet(DOMAIN transition_counts_)

FollowedInv ==
  /\ DOMAIN transition_counts_ = followed
  /\ \A i \in 1..(Len(access_history_) - 1) :
       <<access_history_[i].block, access_history_[i + 1].block>> \in followed

LEMMA MemberOfRange ==
  ASSUME NEW f, NEW x
  PROVE  x \in Range(f) <=> \E i \in DOMAIN f : x = f[i]
BY DEF Range

\* Counts, as numbers of a map.
LEMMA CountsAreNumbers ==
  ASSUME AnalyzerTypeOK
  PROVE  /\ \A k \in DOMAIN access_counts : access_counts[k] \in Nat
         /\ \A k \in DOMAIN transition_counts_ : transition_counts_[k] \in Nat
         /\ \A k \in DOMAIN block_access_times_ : block_access_times_[k] \in Nat
<1>1. Range(access_counts) \subseteq Nat /\ Range(transition_counts_) \subseteq Nat
      /\ Range(block_access_times_) \subseteq Nat
  BY DEF AnalyzerTypeOK
<1>2. QED BY <1>1, MemberOfRange

\* A map counts in numbers, over keys of a set, finitely many.
Tally(f, K) ==
  /\ DOMAIN f \subseteq K
  /\ \A k \in DOMAIN f : f[k] \in Nat
  /\ IsFiniteSet(DOMAIN f)

LEMMA BumpedTally ==
  ASSUME NEW f, NEW K, NEW key \in K, Tally(f, K)
  PROVE  Tally(Bumped(f, key), K) /\ DOMAIN Bumped(f, key) = DOMAIN f \cup {key}
<1>1. PICK n : n = Lookup(f, key, 0) + 1
  OBVIOUS
<1>2. n \in Nat
  BY <1>1 DEF Lookup, Tally
<1>3. Bumped(f, key) = [x \in DOMAIN f \cup {key} |-> IF x = key THEN n ELSE f[x]]
  BY <1>1 DEF Bumped, Added
<1>4. IsFiniteSet(DOMAIN f \cup {key})
  BY FS_AddElement DEF Tally
<1> DEFINE g == [x \in DOMAIN f \cup {key} |-> IF x = key THEN n ELSE f[x]]
<1>5. DOMAIN g = DOMAIN f \cup {key} /\ \A x \in DOMAIN g : g[x] \in Nat
  BY <1>2 DEF Tally
<1> HIDE DEF g
<1>6. Tally(g, K) /\ DOMAIN g = DOMAIN f \cup {key}
  BY <1>4, <1>5 DEF Tally
<1>7. QED BY <1>3, <1>6 DEF g

LEMMA HeadsTyped ==
  ASSUME AnalyzerTypeOK, KeysInv, NEW layer
  PROVE  /\ HeadsOf(layer) \subseteq AnalyzedHeads /\ IsFiniteSet(HeadsOf(layer))
         /\ \A h \in HeadsOf(layer) : HeadCount(layer, h) \in Nat
<1>1. HeadsOf(layer) \subseteq AnalyzedHeads
  BY DEF HeadsOf
<1>2. IsFiniteSet(HeadsOf(layer))
  <2> DEFINE seconds == {k[2] : k \in DOMAIN access_counts}
  <2>1. IsFiniteSet(seconds)
    <3>1. IsFiniteSet(DOMAIN access_counts)
      BY DEF KeysInv
    <3>2. PICK f : f = [k \in DOMAIN access_counts |-> k[2]]
      OBVIOUS
    <3>3. seconds = {f[k] : k \in DOMAIN access_counts}
      BY <3>2
    <3>4. QED BY <3>1, <3>2, <3>3, FiniteRange
  <2>2. HeadsOf(layer) \subseteq seconds
    <3>1. ASSUME NEW h \in HeadsOf(layer) PROVE h \in seconds
      <4>1. <<layer, h>> \in DOMAIN access_counts
        BY DEF HeadsOf
      <4>2. QED BY <4>1
    <3>2. QED BY <3>1
  <2>3. QED BY <2>1, <2>2, FS_Subset
<1>3. \A h \in HeadsOf(layer) : HeadCount(layer, h) \in Nat
  BY CountsAreNumbers DEF HeadsOf, HeadCount
<1>4. QED BY <1>1, <1>2, <1>3

\* The heads that come first exist, however many there are.
LEMMA FirstHeadsTyped ==
  ASSUME AnalyzerTypeOK, KeysInv, NEW layer, NEW n \in 0..Cardinality(HeadsOf(layer))
  PROVE  FirstHeads(layer, n) \subseteq HeadsOf(layer)
<1> DEFINE H == HeadsOf(layer)
           w == [h \in H |-> HeadCount(layer, h)]
           N == Cardinality(H)
<1>1. IsFiniteSet(H) /\ \A h \in H : HeadCount(layer, h) \in Nat
  BY HeadsTyped
<1>2. \A h \in H : w[h] = HeadCount(layer, h) /\ w[h] \in Nat
  BY <1>1
<1>3. N \in Nat /\ n \in Nat /\ n <= N
  BY <1>1, FS_CardinalityType
<1> HIDE DEF w
<1>4. PICK d : Ranked(d, H, w)
  BY <1>1, <1>2, RankedExists
<1> HIDE DEF H
<1>5. /\ d \in [1..N -> H]
      /\ \A i, j \in 1..N : i # j => d[i] # d[j]
      /\ \A i, j \in 1..N : i < j => w[d[i]] >= w[d[j]]
      /\ \A h \in H : \E i \in 1..N : d[i] = h
  BY <1>4 DEF Ranked
<1> HIDE DEF N
<1> DEFINE S == {d[i] : i \in 1..n}
<1>6. S \in SUBSET H /\ \A i \in 1..n : i \in 1..N
  BY <1>3, <1>5
<1>7. Cardinality(S) = n
  <2> DEFINE e == [i \in 1..n |-> d[i]]
  <2>1. e \in Bijection(1..n, S)
    BY <1>5, <1>6 DEF Bijection, Injection, Surjection, IsInjective
  <2>2. IsFiniteSet(1..n) /\ Cardinality(1..n) = n
    BY <1>3, FS_Interval
  <2>3. QED BY <2>1, <2>2, FS_Bijection DEF ExistsBijection
<1>8. ASSUME NEW h \in S, NEW g \in H \ S PROVE HeadCount(layer, h) >= HeadCount(layer, g)
  <2>1. PICK i \in 1..n : h = d[i]
    OBVIOUS
  <2>2. PICK j \in 1..N : g = d[j]
    BY <1>5
  <2>3. j \notin 1..n
    BY <2>2
  <2>4. i < j /\ i \in 1..N
    BY <1>3, <2>3
  <2>5. w[h] >= w[g]
    BY <1>5, <2>1, <2>2, <2>4
  <2>6. h \in H /\ g \in H
    BY <1>6
  <2>7. QED BY <1>2, <2>5, <2>6
<1> HIDE DEF S
<1>9. FirstHeads(layer, n) \in SUBSET H
  BY <1>6, <1>7, <1>8 DEF FirstHeads, H
<1>10. QED BY <1>9 DEF H

LEMMA TotalTyped ==
  ASSUME AnalyzerTypeOK, KeysInv, NEW layer
  PROVE  FoldSet(LAMBDA h, sum : sum + HeadCount(layer, h), 0, HeadsOf(layer)) \in Nat
<1> DEFINE H == HeadsOf(layer)
           one(s) == CHOOSE x \in s : TRUE
           c == [s \in SUBSET H |-> one(s)]
           G == [p \in H \X Nat |-> p[2] + HeadCount(layer, p[1])]
           Sum(f) == [s \in SUBSET H |-> IF s = {} THEN 0
                                         ELSE f[s \ {one(s)}] + HeadCount(layer, one(s))]
           chosen == CHOOSE f : f = Sum(f)
<1>1. IsFiniteSet(H) /\ \A h \in H : HeadCount(layer, h) \in Nat
  BY HeadsTyped
<1>2. FoldSet(LAMBDA h, sum : sum + HeadCount(layer, h), 0, H) = chosen[H]
  BY DEF FoldSet, MapThenFoldSet
<1> HIDE DEF H
<1>3. \A s \in SUBSET H : s # {} => one(s) \in s /\ one(s) \in H /\ c[s] = one(s) /\ c[s] \in s
  OBVIOUS
<1>4. \A x \in H, v \in Nat : G[<<x, v>>] = v + HeadCount(layer, x) /\ G[<<x, v>>] \in Nat
  <2>1. ASSUME NEW x \in H, NEW v \in Nat
        PROVE  G[<<x, v>>] = v + HeadCount(layer, x) /\ G[<<x, v>>] \in Nat
    <3>1. <<x, v>> \in H \X Nat
      OBVIOUS
    <3>2. G[<<x, v>>] = v + HeadCount(layer, x)
      BY <3>1
    <3>3. HeadCount(layer, x) \in Nat
      BY <1>1
    <3> HIDE DEF G
    <3>4. QED BY <3>2, <3>3
  <2>2. QED BY <2>1
<1> HIDE DEF one, c, G
<1>5. PICK f : f \in [SUBSET H -> Nat] /\ Folds(f, H, 0, c, G)
  <2>1. \A s \in SUBSET H : s # {} => c[s] \in s
    BY <1>3
  <2>2. \A x \in H, v \in Nat : G[<<x, v>>] \in Nat
    BY <1>4
  <2>3. 0 \in Nat
    OBVIOUS
  <2>4. QED BY <1>1, <2>1, <2>2, <2>3, FoldExists
<1>6. f = Sum(f)
  <2>1. ASSUME NEW s \in SUBSET H
        PROVE  f[s] = IF s = {} THEN 0 ELSE f[s \ {one(s)}] + HeadCount(layer, one(s))
    <3>1. f[s] = IF s = {} THEN 0 ELSE G[<<c[s], f[s \ {c[s]}]>>]
      BY <1>5 DEF Folds
    <3>2. CASE s = {}
      BY <3>1, <3>2
    <3>3. CASE s # {}
      <4>1. one(s) \in H /\ c[s] = one(s)
        BY <1>3, <3>3
      <4>2. f[s \ {one(s)}] \in Nat
        BY <1>5
      <4>3. G[<<one(s), f[s \ {one(s)}]>>] = f[s \ {one(s)}] + HeadCount(layer, one(s))
        BY <1>4, <4>1, <4>2
      <4>4. QED BY <3>1, <3>3, <4>1, <4>3
    <3>4. QED BY <3>2, <3>3
  <2>2. QED BY <1>5, <2>1
<1>7. chosen = Sum(chosen)
  BY <1>6
<1> HIDE DEF chosen
<1>8. \A s \in SUBSET H :
        chosen[s] = IF s = {} THEN 0 ELSE chosen[s \ {one(s)}] + HeadCount(layer, one(s))
  BY <1>7
<1>9. chosen[{}] = 0
  BY <1>8
<1>10. ASSUME NEW s \in SUBSET H, s # {}, chosen[s \ {c[s]}] \in Nat
       PROVE  chosen[s] = G[<<c[s], chosen[s \ {c[s]}]>>]
  <2>1. one(s) \in H /\ c[s] = one(s)
    BY <1>3, <1>10
  <2>2. chosen[s] = chosen[s \ {one(s)}] + HeadCount(layer, one(s))
    BY <1>8, <1>10
  <2>3. G[<<one(s), chosen[s \ {one(s)}]>>] = chosen[s \ {one(s)}] + HeadCount(layer, one(s))
    BY <1>4, <1>10, <2>1
  <2>4. QED BY <2>1, <2>2, <2>3
<1>11. chosen[H] \in Nat
  <2>1. \A s \in SUBSET H : s # {} => c[s] \in s
    BY <1>3
  <2>2. \A x \in H, v \in Nat : G[<<x, v>>] \in Nat
    BY <1>4
  <2>3. \A s \in SUBSET H : s # {} /\ chosen[s \ {c[s]}] \in Nat
                             => chosen[s] = G[<<c[s], chosen[s \ {c[s]}]>>]
    BY <1>10
  <2>4. 0 \in Nat
    OBVIOUS
  <2>5. FoldsTyped(chosen, H, Nat, 0, c, G)
    BY <1>9, <2>1, <2>2, <2>3 DEF FoldsTyped
  <2>6. QED BY <1>1, <2>4, <2>5, FoldTyped
<1>12. QED BY <1>2, <1>11 DEF H

LEMMA TypeOfPattern ==
  ASSUME NEW s
  PROVE  detectPatternType(s) \in PatternTypes
BY DEF detectPatternType, PatternTypes

LEMMA PatternTyped ==
  ASSUME AnalyzerTypeOK, KeysInv, NEW layer
  PROVE  LayerPattern(layer) \in Pattern
<1> DEFINE H == HeadsOf(layer)
           N == Cardinality(H)
           top == Lesser(TopHeads, N)
           mine == FoldLeft(LAMBDA found, a :
                              IF a.layer = layer THEN Append(found, a.block) ELSE found,
                            <<>>, access_history_)
           total == FoldSet(LAMBDA h, sum : sum + HeadCount(layer, h), 0, H)
           type == detectPatternType(mine)
           hot == FirstHeads(layer, top)
           cold == IF N > top THEN H \ FirstHeads(layer, N - top) ELSE {}
<1>1. LayerPattern(layer) = [total |-> total, type |-> type, hot |-> hot, cold |-> cold]
  BY DEF LayerPattern
<1>2. total \in Nat
  BY TotalTyped
<1>3. type \in PatternTypes
  BY TypeOfPattern
<1>4. H \subseteq AnalyzedHeads /\ IsFiniteSet(H)
  BY HeadsTyped
<1>5. N \in Nat
  BY <1>4, FS_CardinalityType
<1> HIDE DEF N
<1>6. top \in 0..N
  BY <1>5, AnalyzerAssumption DEF Lesser
<1> HIDE DEF top, total, type, mine
<1>7. hot \subseteq H
  BY <1>6, FirstHeadsTyped DEF N
<1> HIDE DEF H, hot
<1>8. hot \in SUBSET AnalyzedHeads /\ cold \in SUBSET AnalyzedHeads
  BY <1>4, <1>7
<1> HIDE DEF cold
<1>9. QED BY <1>1, <1>2, <1>3, <1>8 DEF Pattern

LEMMA PatternsTyped ==
  ASSUME AnalyzerTypeOK, KeysInv
  PROVE  /\ DOMAIN LayerPatterns \subseteq AnalyzedLayers
         /\ Range(LayerPatterns) \subseteq Pattern
<1>1. DOMAIN LayerPatterns = {k[1] : k \in DOMAIN access_counts}
  BY DEF LayerPatterns
<1>2. \A layer \in DOMAIN LayerPatterns : LayerPatterns[layer] = LayerPattern(layer)
  BY DEF LayerPatterns
<1>3. \A layer \in DOMAIN LayerPatterns : LayerPatterns[layer] \in Pattern
  BY <1>2, PatternTyped
<1>4. Range(LayerPatterns) \subseteq Pattern
  BY <1>3, MemberOfRange
<1>5. DOMAIN LayerPatterns \subseteq AnalyzedLayers
  BY <1>1 DEF AnalyzerTypeOK
<1>6. QED BY <1>4, <1>5

\* Patterns look at the window and the counts alone.
LEMMA PatternsSame ==
  ASSUME UNCHANGED <<access_history_, access_counts>>
  PROVE  LayerPatterns' = LayerPatterns
<1>1. access_history_' = access_history_ /\ access_counts' = access_counts
  OBVIOUS
<1>2. ASSUME NEW layer PROVE LayerPattern(layer)' = LayerPattern(layer)
  BY <1>1 DEF LayerPattern, HeadsOf, HeadCount, FirstHeads, FoldSet, FoldLeft, MapThenFoldSet
<1>3. QED BY <1>1, <1>2 DEF LayerPatterns

LEMMA BlockSequence ==
  ASSUME AnalyzerTypeOK
  PROVE  /\ Len(access_history_) \in Nat
         /\ DOMAIN block_sequence_ = 1..Len(access_history_)
         /\ Len(block_sequence_) = Len(access_history_)
         /\ \A i \in 1..Len(access_history_) :
              block_sequence_[i] = access_history_[i].block /\ block_sequence_[i] \in AnalyzedBlocks
         /\ block_sequence_ \in Seq(AnalyzedBlocks)
<1>1. access_history_ \in Seq(Access) /\ Len(access_history_) \in Nat
      /\ DOMAIN access_history_ = 1..Len(access_history_)
      /\ \A i \in 1..Len(access_history_) : access_history_[i] \in Access
  BY LenProperties, ElementOfSeq DEF AnalyzerTypeOK
<1>2. \A i \in 1..Len(access_history_) : access_history_[i].block \in AnalyzedBlocks
  BY <1>1 DEF Access
<1>3. block_sequence_ = [i \in 1..Len(access_history_) |-> access_history_[i].block]
  BY <1>1 DEF block_sequence_
<1>4. block_sequence_ \in [1..Len(access_history_) -> AnalyzedBlocks]
  BY <1>2, <1>3
<1>5. block_sequence_ \in Seq(AnalyzedBlocks)
  BY <1>1, <1>4
<1>6. Len(block_sequence_) = Len(access_history_)
  BY <1>1, <1>4, <1>5, LenProperties
<1>7. QED BY <1>1, <1>2, <1>3, <1>5, <1>6

\* What is predicted from the window has followed.
LEMMA SequenceTyped ==
  ASSUME AnalyzerTypeOK, FollowedInv, NEW b
  PROVE  SequencePredictions(b) \in Seq(Successors(b))
<1> DEFINE q == block_sequence_
           n == Len(access_history_)
           D == 1..n
           V == Seq(Successors(b))
           c == [s \in SUBSET D |-> Max(s)]
           G == [p \in D \X V |-> IF p[1] < Len(q) /\ q[p[1]] = b
                                  THEN Append(p[2], q[p[1] + 1]) ELSE p[2]]
           Found(f) == [s \in SUBSET DOMAIN [j \in DOMAIN q |-> j] |->
                          IF s = {} THEN <<>>
                          ELSE IF [j \in DOMAIN q |-> j][Max(s)] < Len(q)
                                  /\ q[[j \in DOMAIN q |-> j][Max(s)]] = b
                               THEN Append(f[s \ {Max(s)}], q[[j \in DOMAIN q |-> j][Max(s)] + 1])
                               ELSE f[s \ {Max(s)}]]
           Plain(f) == [s \in SUBSET D |->
                          IF s = {} THEN <<>>
                          ELSE IF Max(s) < Len(q) /\ q[Max(s)] = b
                               THEN Append(f[s \ {Max(s)}], q[Max(s) + 1]) ELSE f[s \ {Max(s)}]]
           chosen == CHOOSE f : f = Found(f)
<1>1. SequencePredictions(b) = chosen[DOMAIN [j \in DOMAIN q |-> j]]
  BY DEF SequencePredictions, FoldLeftDomain, FoldLeft, MapThenFoldSet
<1>2. n \in Nat /\ DOMAIN q = D /\ Len(q) = n
      /\ \A i \in D : q[i] = access_history_[i].block /\ q[i] \in AnalyzedBlocks
  BY BlockSequence
<1>3. \A i \in D : i < n => <<q[i], q[i + 1]>> \in followed
  <2>1. \A i \in D : i < n => i \in 1..(n - 1) /\ i + 1 \in D
    BY <1>2
  <2>2. QED BY <1>2, <2>1 DEF FollowedInv
<1> HIDE DEF q
<1>4. DOMAIN [j \in DOMAIN q |-> j] = D
  BY <1>2
<1>5. \A s \in SUBSET D : s # {} => Max(s) \in s /\ Max(s) \in D /\ c[s] = Max(s)
  <2>1. ASSUME NEW s \in SUBSET D, s # {}
        PROVE  Max(s) \in s
    <3>1. s \subseteq Nat /\ \A y \in s : y <= n
      BY <1>2
    <3>2. PICK x \in s : \A y \in s : y <= x
      BY <1>2, <2>1, <3>1, GreatestOf
    <3>3. \A y \in s : x >= y
      BY <3>1, <3>2
    <3>4. QED BY <3>3 DEF Max
  <2>2. QED BY <2>1
<1>6. \A f : Found(f) = Plain(f)
  <2>1. ASSUME NEW f PROVE Found(f) = Plain(f)
    <3>1. \A s \in SUBSET D : s # {} => [j \in DOMAIN q |-> j][Max(s)] = Max(s)
      BY <1>2, <1>5
    <3>2. QED BY <1>4, <3>1
  <2>2. QED BY <2>1
<1>7. ASSUME NEW x \in D, NEW v \in V
      PROVE  /\ G[<<x, v>>] = IF x < Len(q) /\ q[x] = b THEN Append(v, q[x + 1]) ELSE v
             /\ G[<<x, v>>] \in V
  <2>1. <<x, v>> \in D \X V
    OBVIOUS
  <2>2. G[<<x, v>>] = IF x < Len(q) /\ q[x] = b THEN Append(v, q[x + 1]) ELSE v
    BY <2>1
  <2> HIDE DEF G
  <2>3. CASE x < Len(q) /\ q[x] = b
    <3>1. <<b, q[x + 1]>> \in followed
      BY <1>2, <1>3, <2>3
    <3>2. q[x + 1] \in Successors(b)
      BY <3>1 DEF FollowedInv, Successors
    <3>3. QED BY <2>2, <2>3, <3>2
  <2>4. CASE ~(x < Len(q) /\ q[x] = b)
    BY <2>2, <2>4
  <2>5. QED BY <2>3, <2>4
<1>8. IsFiniteSet(D) /\ <<>> \in V
  BY <1>2, FS_Interval
<1> HIDE DEF c, G, V, D
<1>9. PICK f : f \in [SUBSET D -> V] /\ Folds(f, D, <<>>, c, G)
  <2>1. \A s \in SUBSET D : s # {} => c[s] \in s
    BY <1>5
  <2>2. \A x \in D, v \in V : G[<<x, v>>] \in V
    BY <1>7
  <2>3. QED BY <1>8, <2>1, <2>2, FoldExists
<1>10. f = Plain(f)
  <2>1. ASSUME NEW s \in SUBSET D
        PROVE  f[s] = IF s = {} THEN <<>>
                      ELSE IF Max(s) < Len(q) /\ q[Max(s)] = b
                           THEN Append(f[s \ {Max(s)}], q[Max(s) + 1]) ELSE f[s \ {Max(s)}]
    <3>1. f[s] = IF s = {} THEN <<>> ELSE G[<<c[s], f[s \ {c[s]}]>>]
      BY <1>9 DEF Folds
    <3>2. CASE s = {}
      BY <3>1, <3>2
    <3>3. CASE s # {}
      <4>1. Max(s) \in D /\ c[s] = Max(s)
        BY <1>5, <3>3
      <4>2. f[s \ {Max(s)}] \in V
        BY <1>9
      <4>3. QED BY <1>7, <3>1, <3>3, <4>1, <4>2
    <3>4. QED BY <3>2, <3>3
  <2>2. QED BY <1>9, <2>1
<1>11. chosen = Plain(chosen)
  <2>1. f = Found(f)
    BY <1>6, <1>10
  <2>2. chosen = Found(chosen)
    BY <2>1
  <2>3. QED BY <1>6, <2>2
<1> HIDE DEF chosen
<1>12. \A s \in SUBSET D :
         chosen[s] = IF s = {} THEN <<>>
                     ELSE IF Max(s) < Len(q) /\ q[Max(s)] = b
                          THEN Append(chosen[s \ {Max(s)}], q[Max(s) + 1])
                          ELSE chosen[s \ {Max(s)}]
  BY <1>11
<1>13. ASSUME NEW s \in SUBSET D, s # {}, chosen[s \ {c[s]}] \in V
       PROVE  chosen[s] = G[<<c[s], chosen[s \ {c[s]}]>>]
  <2>1. Max(s) \in D /\ c[s] = Max(s)
    BY <1>5, <1>13
  <2>2. QED BY <1>7, <1>12, <1>13, <2>1
<1>14. FoldsTyped(chosen, D, V, <<>>, c, G)
  <2>1. \A s \in SUBSET D : s # {} => c[s] \in s
    BY <1>5
  <2>2. \A x \in D, v \in V : G[<<x, v>>] \in V
    BY <1>7
  <2>3. chosen[{}] = <<>>
    BY <1>12
  <2>4. QED BY <1>13, <2>1, <2>2, <2>3 DEF FoldsTyped
<1>15. chosen[D] \in V
  BY <1>8, <1>14, FoldTyped
<1>16. QED BY <1>1, <1>4, <1>15 DEF V

\* Markov predictions are the successors, each once.
LEMMA MarkovTyped ==
  ASSUME AnalyzerTypeOK, KeysInv, FollowedInv, NEW b
  PROVE  /\ IsFiniteSet(Successors(b))
         /\ MarkovPredictions(b) \in [1..Cardinality(Successors(b)) -> Successors(b)]
         /\ \A x \in Successors(b) :
              \E i \in 1..Cardinality(Successors(b)) : MarkovPredictions(b)[i] = x
<1> DEFINE S == Successors(b)
           N == Cardinality(S)
           w == [x \in S |-> transition_counts_[<<b, x>>]]
           Orders(q) == /\ IsInjective(q)
                        /\ \A i, j \in DOMAIN q :
                             i < j => transition_counts_[<<b, q[i]>>] >= transition_counts_[<<b, q[j]>>]
           m == MarkovPredictions(b)
<1>1. \A x \in S : <<b, x>> \in DOMAIN transition_counts_
  <2>1. ASSUME NEW x \in S PROVE <<b, x>> \in DOMAIN transition_counts_
    <3>1. PICK k \in DOMAIN transition_counts_ : k[1] = b /\ k[2] = x
      BY DEF Successors
    <3>2. k \in AnalyzedBlocks \X AnalyzedBlocks
      BY <3>1 DEF AnalyzerTypeOK
    <3>3. k = <<b, x>>
      BY <3>1, <3>2
    <3>4. QED BY <3>1, <3>3
  <2>2. QED BY <2>1
<1>2. IsFiniteSet(S)
  <2> DEFINE K == DOMAIN transition_counts_
             second == [k \in K |-> k[2]]
             T == {second[k] : k \in K}
  <2>1. IsFiniteSet(K)
    BY DEF KeysInv
  <2>2. \A k \in K : second[k] = k[2]
    OBVIOUS
  <2> HIDE DEF second
  <2>3. IsFiniteSet(T)
    BY <2>1, FiniteRange
  <2>4. S \subseteq T
    <3>1. ASSUME NEW x \in S PROVE x \in T
      <4>1. PICK k \in K : k[2] = x
        BY DEF Successors
      <4>2. QED BY <2>2, <4>1
    <3>2. QED BY <3>1
  <2>5. QED BY <2>3, <2>4, FS_Subset
<1>3. \A x \in S : w[x] = transition_counts_[<<b, x>>] /\ w[x] \in Nat
  BY <1>1, CountsAreNumbers
<1>4. m = CHOOSE q \in [1..N -> S] : Orders(q)
  BY DEF MarkovPredictions
<1> HIDE DEF S, w, m
<1>5. PICK d : Ranked(d, S, w)
  BY <1>2, <1>3, RankedExists
<1>6. /\ d \in [1..N -> S]
      /\ \A i, j \in 1..N : i # j => d[i] # d[j]
      /\ \A i, j \in 1..N : i < j => w[d[i]] >= w[d[j]]
  BY <1>5 DEF Ranked
<1>7. Orders(d)
  <2>1. IsInjective(d) /\ DOMAIN d = 1..N
    BY <1>6 DEF IsInjective
  <2>2. \A i \in 1..N : w[d[i]] = transition_counts_[<<b, d[i]>>]
    BY <1>3, <1>6
  <2>3. QED BY <1>6, <2>1, <2>2
<1>8. m \in [1..N -> S] /\ IsInjective(m)
  <2> HIDE DEF N
  <2>1. m \in [1..N -> S] /\ Orders(m)
    <3> HIDE DEF Orders
    <3>1. QED BY <1>4, <1>6, <1>7
  <2>2. QED BY <2>1
<1>9. \A x \in S : \E i \in 1..N : m[i] = x
  <2>1. N \in Nat
    BY <1>2, FS_CardinalityType
  <2> HIDE DEF N
  <2>2. m \in Injection(1..N, S)
    BY <1>8 DEF Injection, IsInjective
  <2>3. IsFiniteSet(1..N) /\ Cardinality(1..N) = Cardinality(S)
    BY <2>1, FS_Interval DEF N
  <2>4. m \in Surjection(1..N, S)
    BY <1>2, <2>2, <2>3, FS_Injection
  <2>5. QED BY <2>4 DEF Surjection
<1>10. QED BY <1>2, <1>8, <1>9 DEF S, m

LEMMA PredictionsSound ==
  ASSUME AnalyzerTypeOK, KeysInv, FollowedInv
  PROVE  PredictionsObserved
<1> SUFFICES ASSUME PredictionWindow >= Cardinality(AnalyzedBlocks), NEW b \in AnalyzedBlocks
             PROVE  Range(Predictions(b)) = {p[2] : p \in {q \in followed : q[1] = b}}
  BY DEF PredictionsObserved
<1> DEFINE S == Successors(b)
           N == Cardinality(S)
           m == MarkovPredictions(b)
           s == SequencePredictions(b)
           all == m \o s
           cut == Lesser(PredictionWindow, Len(all))
           pred == SubSeq(all, 1, cut)
<1>1. S = {p[2] : p \in {q \in followed : q[1] = b}}
  BY DEF Successors, FollowedInv
<1>2. Predictions(b) = pred
  BY DEF Predictions
<1>3. /\ IsFiniteSet(S) /\ m \in [1..N -> S] /\ s \in Seq(S)
      /\ \A x \in S : \E i \in 1..N : m[i] = x
  BY MarkovTyped, SequenceTyped
<1>4. N \in Nat
  BY <1>3, FS_CardinalityType
<1>5. N <= PredictionWindow /\ PredictionWindow \in Nat
  <2>1. S \subseteq AnalyzedBlocks
    <3>1. ASSUME NEW x \in S PROVE x \in AnalyzedBlocks
      <4>1. PICK k \in DOMAIN transition_counts_ : k[2] = x
        BY DEF Successors
      <4>2. k \in AnalyzedBlocks \X AnalyzedBlocks
        BY DEF AnalyzerTypeOK
      <4>3. QED BY <4>1, <4>2
    <3>2. QED BY <3>1
  <2>2. IsFiniteSet(AnalyzedBlocks) /\ PredictionWindow \in Nat
    BY AnalyzerAssumption
  <2>3. N <= Cardinality(AnalyzedBlocks) /\ Cardinality(AnalyzedBlocks) \in Nat
    BY <2>1, <2>2, FS_Subset, FS_CardinalityType
  <2>4. QED BY <1>4, <2>2, <2>3
<1> HIDE DEF S, N, m, s
<1>6. m \in Seq(S) /\ Len(m) = N
  <2>1. m \in Seq(S)
    BY <1>3, <1>4
  <2>2. DOMAIN m = 1..N
    BY <1>3
  <2>3. QED BY <1>4, <2>1, <2>2, LenProperties
<1>7. /\ all \in Seq(S) /\ Len(all) = N + Len(s) /\ Len(s) \in Nat
      /\ \A i \in 1..N : all[i] = m[i]
  <2>1. Len(s) \in Nat
    BY <1>3, LenProperties
  <2>2. /\ m \o s \in Seq(S) /\ Len(m \o s) = Len(m) + Len(s)
        /\ \A i \in 1..(Len(m) + Len(s)) :
             (m \o s)[i] = IF i <= Len(m) THEN m[i] ELSE s[i - Len(m)]
    BY <1>3, <1>6, ConcatProperties
  <2>3. \A i \in 1..N : i \in 1..(Len(m) + Len(s)) /\ i <= Len(m)
    BY <1>4, <1>6, <2>1
  <2>4. \A i \in 1..N : (m \o s)[i] = m[i]
    BY <2>2, <2>3
  <2>5. QED BY <1>6, <2>1, <2>2, <2>4
<1> HIDE DEF all
<1>8. cut \in Nat /\ N <= cut /\ cut <= Len(all) /\ Len(all) \in Nat
  BY <1>4, <1>5, <1>7 DEF Lesser
<1> HIDE DEF cut
<1>9. /\ pred \in Seq(S) /\ Len(pred) = cut
      /\ \A i \in 1..cut : pred[i] = all[i]
  <2>1. /\ pred \in Seq(S) /\ Len(pred) = (IF 1 <= cut THEN cut - 1 + 1 ELSE 0)
        /\ \A i \in 1..(cut - 1 + 1) : pred[i] = all[1 + i - 1]
    <3>1. 1 \in 1..(Len(all) + 1) /\ cut \in (1 - 1)..Len(all)
      BY <1>8
    <3>2. QED BY <1>7, <1>8, <3>1, SubSeqProperties
  <2>2. \A i \in 1..cut : 1 + i - 1 = i /\ i \in 1..(cut - 1 + 1)
    BY <1>8
  <2>3. QED BY <1>8, <2>1, <2>2
<1> HIDE DEF pred
<1>10. DOMAIN pred = 1..cut /\ \A i \in 1..cut : pred[i] \in S
  BY <1>8, <1>9, LenProperties, ElementOfSeq
<1>11. Range(pred) = S
  <2>1. ASSUME NEW x \in Range(pred) PROVE x \in S
    BY <1>10 DEF Range
  <2>2. ASSUME NEW x \in S PROVE x \in Range(pred)
    <3>1. PICK i \in 1..N : m[i] = x
      BY <1>3
    <3>2. i \in 1..cut /\ pred[i] = x
      BY <1>4, <1>7, <1>8, <1>9, <3>1
    <3>3. QED BY <1>10, <3>2 DEF Range
  <2>3. QED BY <2>1, <2>2
<1>12. QED BY <1>1, <1>2, <1>11

-----------------------------------------------------------------------------
(* The analyzer: its steps *)

AnalyzerInv == AnalyzerTypeOK /\ KeysInv /\ FollowedInv /\ CacheFresh

\* What a step may change, part by part.
WindowOK == access_history_ \in Seq(Access) /\ Len(access_history_) <= HistoryWindow
CacheOK ==
  /\ DOMAIN cached_layer_patterns_ \subseteq AnalyzedLayers
  /\ Range(cached_layer_patterns_) \subseteq Pattern
  /\ patterns_dirty_ \in BOOLEAN
FateOK == aborted \in BOOLEAN /\ stuck \subseteq AnalyzerCallers
TalliesOK ==
  /\ Tally(access_counts, AnalyzedLayers \X AnalyzedHeads)
  /\ Tally(transition_counts_, AnalyzedBlocks \X AnalyzedBlocks)
  /\ \A k \in DOMAIN block_access_times_ : block_access_times_[k] \in Nat

LEMMA AnalyzerParts ==
  AnalyzerTypeOK /\ KeysInv <=> WindowOK /\ CacheOK /\ FateOK /\ TalliesOK
<1>1. /\ Range(access_counts) \subseteq Nat
           <=> \A k \in DOMAIN access_counts : access_counts[k] \in Nat
      /\ Range(transition_counts_) \subseteq Nat
           <=> \A k \in DOMAIN transition_counts_ : transition_counts_[k] \in Nat
      /\ Range(block_access_times_) \subseteq Nat
           <=> \A k \in DOMAIN block_access_times_ : block_access_times_[k] \in Nat
  BY DEF Range
<1>2. Range(access_counts) \cup Range(transition_counts_) \cup Range(block_access_times_) \subseteq Nat
        <=> /\ Range(access_counts) \subseteq Nat /\ Range(transition_counts_) \subseteq Nat
            /\ Range(block_access_times_) \subseteq Nat
  OBVIOUS
<1>3. QED
  BY <1>1, <1>2 DEF AnalyzerTypeOK, KeysInv, WindowOK, CacheOK, FateOK, TalliesOK, Tally

LEMMA EmptyMap == DOMAIN <<>> = {} /\ <<>> \in Seq(Access) /\ Len(<<>>) = 0 /\ IsFiniteSet({})
                  /\ \A K : Tally(<<>>, K)
<1>1. <<>> \in Seq(Access) /\ Len(<<>>) = 0
  OBVIOUS
<1>2. DOMAIN <<>> = 1..0
  BY <1>1, LenProperties
<1>3. DOMAIN <<>> = {}
  BY <1>2
<1>4. IsFiniteSet({})
  BY FS_EmptySet
<1>5. QED BY <1>1, <1>3, <1>4 DEF Tally

LEMMA AnalyzerStart == AnalyzerInit => AnalyzerInv
<1> SUFFICES ASSUME AnalyzerInit PROVE AnalyzerInv
  OBVIOUS
<1>1. WindowOK /\ FateOK /\ TalliesOK
  <2>1. WindowOK /\ FateOK
    <3>1. access_history_ = <<>> /\ stuck = {} /\ aborted = FALSE
      BY DEF AnalyzerInit
    <3>2. HistoryWindow \in Nat
      BY AnalyzerAssumption
    <3>3. WindowOK
      BY <3>1, <3>2, EmptyMap DEF WindowOK
    <3>4. QED BY <3>1, <3>3 DEF FateOK
  <2>2. access_counts = <<>> /\ transition_counts_ = <<>> /\ block_access_times_ = <<>>
    BY DEF AnalyzerInit
  <2>3. TalliesOK
    BY <2>2, EmptyMap DEF TalliesOK
  <2>4. QED BY <2>1, <2>3
<1>2. CacheOK
  BY EmptyMap DEF AnalyzerInit, CacheOK, Range
<1>3. FollowedInv
  BY EmptyMap DEF AnalyzerInit, FollowedInv
<1>4. CacheFresh
  BY DEF AnalyzerInit, CacheFresh
<1>5. QED BY <1>1, <1>2, <1>3, <1>4, AnalyzerParts DEF AnalyzerInv

LEMMA AnalyzerSame ==
  /\ WindowOK /\ access_history_' = access_history_ => WindowOK'
  /\ CacheOK /\ UNCHANGED patterns => CacheOK'
  /\ FateOK /\ UNCHANGED fate => FateOK'
  /\ TalliesOK /\ UNCHANGED counted => TalliesOK'
  /\ FollowedInv /\ UNCHANGED <<counted, followed>> => FollowedInv'
BY DEF WindowOK, CacheOK, FateOK, TalliesOK, FollowedInv, Tally, patterns, fate, counted

LEMMA FreshSame ==
  ASSUME CacheFresh, UNCHANGED counted, UNCHANGED patterns
  PROVE  CacheFresh'
<1>1. LayerPatterns' = LayerPatterns
  BY PatternsSame DEF counted
<1>2. QED BY <1>1 DEF CacheFresh, patterns

\* The window after an access: the last one is followed by it.
LEMMA WindowMoves ==
  ASSUME WindowOK, FollowedInv, NEW access \in Access,
         access_history_' = Windowed(Append(access_history_, access)),
         followed \subseteq followed',
         access_history_ # <<>> => <<Last(access_history_).block, access.block>> \in followed'
  PROVE  /\ WindowOK'
         /\ \A i \in 1..(Len(access_history_') - 1) :
              <<access_history_'[i].block, access_history_'[i + 1].block>> \in followed'
<1> DEFINE h == access_history_
           n == Len(h)
           l == Append(h, access)
<1>1. h \in Seq(Access) /\ n \in Nat /\ n <= HistoryWindow /\ HistoryWindow \in Nat \ {0}
  BY AnalyzerAssumption, LenProperties DEF WindowOK
<1>2. /\ l \in Seq(Access) /\ Len(l) = n + 1 /\ l[n + 1] = access
      /\ \A i \in 1..n : l[i] = h[i]
  BY <1>1, AppendProperties
<1>3. \A i \in 1..(n - 1) : <<h[i].block, h[i + 1].block>> \in followed
  BY DEF FollowedInv
<1>4. n # 0 => <<h[n].block, access.block>> \in followed'
  <2>1. n # 0 => h # <<>>
    BY <1>1, EmptySeq
  <2>2. QED BY <2>1 DEF Last
<1>5. access_history_' = IF Len(l) > HistoryWindow THEN Tail(l) ELSE l
  BY DEF Windowed
<1> HIDE DEF l, n
<1>6. ASSUME NEW i \in 1..n
      PROVE  <<l[i].block, l[i + 1].block>> \in followed'
  <2>1. CASE i = n
    BY <1>1, <1>2, <1>4, <2>1
  <2>2. CASE i # n
    <3>1. i \in 1..(n - 1) /\ i + 1 \in 1..n
      BY <1>1, <2>2
    <3>2. QED BY <1>2, <1>3, <3>1
  <2>3. QED BY <2>1, <2>2
<1>7. CASE Len(l) > HistoryWindow
  <2>1. l # <<>>
    BY <1>1, <1>2, EmptySeq
  <2>2. /\ Tail(l) \in Seq(Access) /\ Len(Tail(l)) = n
        /\ \A i \in 1..n : Tail(l)[i] = l[i + 1]
    BY <1>1, <1>2, <2>1, HeadTailProperties
  <2>3. access_history_' = Tail(l)
    BY <1>5, <1>7
  <2>4. ASSUME NEW i \in 1..(n - 1)
        PROVE  <<Tail(l)[i].block, Tail(l)[i + 1].block>> \in followed'
    <3>1. i \in 1..n /\ i + 1 \in 1..n
      BY <1>1
    <3>2. <<l[i + 1].block, l[(i + 1) + 1].block>> \in followed'
      BY <1>6, <3>1
    <3>3. QED BY <2>2, <3>1, <3>2
  <2>5. QED BY <1>1, <2>2, <2>3, <2>4 DEF WindowOK
<1>8. CASE ~(Len(l) > HistoryWindow)
  <2>1. access_history_' = l
    BY <1>5, <1>8
  <2>2. Len(l) <= HistoryWindow /\ Len(l) - 1 = n
    BY <1>1, <1>2, <1>8
  <2>3. QED BY <1>2, <1>6, <2>1, <2>2 DEF WindowOK
<1>9. QED BY <1>7, <1>8

LEMMA ProcessAccessStep ==
  ASSUME AnalyzerInv, NEW access \in Access, Process(access)
  PROVE  AnalyzerInv'
<1>1. WindowOK /\ CacheOK /\ FateOK /\ TalliesOK /\ FollowedInv /\ AnalyzerTypeOK
  BY AnalyzerParts DEF AnalyzerInv
<1>2. access.block \in AnalyzedBlocks /\ access.layer \in AnalyzedLayers /\ access.head \in AnalyzedHeads
  BY DEF Access
<1> DEFINE h == access_history_
           n == Len(h)
           pair == <<h[n].block, access.block>>
<1>3. h \in Seq(Access) /\ n \in Nat /\ (h = <<>> <=> n = 0)
  BY <1>1, LenProperties, EmptySeq DEF WindowOK
<1>4. block_sequence_ = <<>> <=> h = <<>>
  <2>1. Len(block_sequence_) = n /\ block_sequence_ \in Seq(AnalyzedBlocks)
    BY <1>1, BlockSequence
  <2>2. block_sequence_ = <<>> <=> n = 0
    BY <2>1, EmptySeq
  <2>3. QED BY <1>3, <2>2
<1>5. h # <<>> => pair \in AnalyzedBlocks \X AnalyzedBlocks /\ Pair(access) = pair
                  /\ Last(h) = h[n]
  <2> SUFFICES ASSUME h # <<>>
               PROVE  pair \in AnalyzedBlocks \X AnalyzedBlocks /\ Pair(access) = pair
                      /\ Last(h) = h[n]
    OBVIOUS
  <2>1. n \in 1..n
    BY <1>3
  <2>2. Len(block_sequence_) = n /\ block_sequence_[n] = h[n].block
        /\ block_sequence_[n] \in AnalyzedBlocks
    BY <1>1, <2>1, BlockSequence
  <2>3. QED BY <1>2, <2>2 DEF Pair, Last
<1> HIDE DEF h, n, pair
<1>6. /\ access_history_' = Windowed(Append(access_history_, access))
      /\ transition_counts_' = IF h = <<>> THEN transition_counts_ ELSE Bumped(transition_counts_, pair)
      /\ followed' = IF h = <<>> THEN followed ELSE followed \cup {pair}
      /\ access_counts' = Bumped(access_counts, <<access.layer, access.head>>)
      /\ block_access_times_' = Bumped(block_access_times_, access.block)
      /\ patterns_dirty_' = TRUE
      /\ UNCHANGED <<cached_layer_patterns_, fate>>
  <2>1. h # <<>> => <<Last(h).block, access.block>> = pair
    BY <1>5 DEF pair
  <2>2. QED BY <1>4, <1>5, <2>1 DEF Process, h
<1>7. followed \subseteq followed'
      /\ (access_history_ # <<>> => <<Last(access_history_).block, access.block>> \in followed')
  BY <1>5, <1>6 DEF h, pair
<1>8. /\ WindowOK'
      /\ \A i \in 1..(Len(access_history_') - 1) :
           <<access_history_'[i].block, access_history_'[i + 1].block>> \in followed'
  BY <1>1, <1>6, <1>7, WindowMoves
<1>9. Tally(access_counts', AnalyzedLayers \X AnalyzedHeads)
  BY <1>1, <1>2, <1>6, BumpedTally DEF TalliesOK
<1>10. Tally(transition_counts_', AnalyzedBlocks \X AnalyzedBlocks)
       /\ DOMAIN transition_counts_' = followed'
  <2>1. Tally(transition_counts_, AnalyzedBlocks \X AnalyzedBlocks)
        /\ DOMAIN transition_counts_ = followed
    BY <1>1 DEF TalliesOK, FollowedInv
  <2>2. CASE h = <<>>
    BY <1>6, <2>1, <2>2
  <2>3. CASE h # <<>>
    BY <1>5, <1>6, <2>1, <2>3, BumpedTally
  <2>4. QED BY <2>2, <2>3
<1>11. \A k \in DOMAIN block_access_times_' : block_access_times_'[k] \in Nat
  <2>1. \A k \in DOMAIN block_access_times_ : block_access_times_[k] \in Nat
    BY <1>1 DEF TalliesOK
  <2>2. QED BY <1>6, <2>1 DEF Bumped, Added, Lookup
<1>12. TalliesOK'
  BY <1>9, <1>10, <1>11 DEF TalliesOK
<1>13. CacheOK' /\ FateOK'
  BY <1>1, <1>6 DEF CacheOK, FateOK, fate
<1>14. FollowedInv'
  BY <1>8, <1>10 DEF FollowedInv
<1>15. CacheFresh'
  BY <1>6 DEF CacheFresh
<1>16. AnalyzerTypeOK' /\ KeysInv'
  BY <1>8, <1>12, <1>13, AnalyzerParts, PTL
<1>17. QED BY <1>14, <1>15, <1>16 DEF AnalyzerInv

\* initialize and reset empty the window and the counts.
LEMMA AnalyzerCleared ==
  ASSUME AnalyzerInv, access_history_' = <<>>, access_counts' = <<>>,
         transition_counts_' = <<>>, followed' = {}, patterns_dirty_' = TRUE, UNCHANGED fate,
         block_access_times_' \in {block_access_times_, <<>>},
         cached_layer_patterns_' \in {cached_layer_patterns_, <<>>}
  PROVE  AnalyzerInv'
<1>1. WindowOK /\ CacheOK /\ FateOK /\ TalliesOK
  BY AnalyzerParts DEF AnalyzerInv
<1>2. WindowOK' /\ FateOK'
  BY <1>1, EmptyMap, AnalyzerAssumption DEF WindowOK, FateOK, fate
<1>3. CacheOK'
  <2>1. Range(<<>>) = {}
    BY EmptyMap DEF Range
  <2>2. QED BY <1>1, <2>1, EmptyMap DEF CacheOK
<1>4. TalliesOK'
  BY <1>1, EmptyMap DEF TalliesOK
<1>5. FollowedInv'
  BY EmptyMap DEF FollowedInv
<1>6. CacheFresh'
  BY DEF CacheFresh
<1>7. AnalyzerTypeOK' /\ KeysInv'
  BY <1>2, <1>3, <1>4, AnalyzerParts, PTL
<1>8. QED BY <1>5, <1>6, <1>7 DEF AnalyzerInv

LEMMA AnalyzeStep ==
  ASSUME AnalyzerInv, analyzeLayerPatterns
  PROVE  AnalyzerInv'
<1>1. WindowOK /\ CacheOK /\ FateOK /\ TalliesOK /\ FollowedInv /\ AnalyzerTypeOK /\ KeysInv
  BY AnalyzerParts DEF AnalyzerInv
<1>2. /\ cached_layer_patterns_' = LayerPatterns /\ patterns_dirty_' = FALSE
      /\ UNCHANGED <<counted, fate, followed>>
  BY DEF analyzeLayerPatterns
<1>3. WindowOK' /\ FateOK' /\ TalliesOK' /\ FollowedInv'
  BY <1>1, <1>2, AnalyzerSame DEF counted
<1>4. CacheOK'
  BY <1>1, <1>2, PatternsTyped DEF CacheOK
<1>5. CacheFresh'
  <2>1. LayerPatterns' = LayerPatterns
    BY <1>2, PatternsSame DEF counted
  <2>2. QED BY <1>2, <2>1 DEF CacheFresh
<1>6. AnalyzerTypeOK' /\ KeysInv'
  BY <1>3, <1>4, AnalyzerParts, PTL
<1>7. QED BY <1>3, <1>5, <1>6 DEF AnalyzerInv

\* Calls that only decide the fate of the callers.
LEMMA FateStep ==
  ASSUME AnalyzerInv, UNCHANGED <<counted, patterns, followed>>, FateOK'
  PROVE  AnalyzerInv'
<1>1. WindowOK /\ CacheOK /\ TalliesOK /\ FollowedInv /\ CacheFresh
  BY AnalyzerParts DEF AnalyzerInv
<1>2. access_history_' = access_history_ /\ UNCHANGED counted /\ UNCHANGED patterns
  BY DEF counted
<1>3. WindowOK' /\ CacheOK' /\ TalliesOK' /\ FollowedInv'
  BY <1>1, <1>2, AnalyzerSame
<1>4. CacheFresh'
  BY <1>1, <1>2, FreshSame
<1>5. AnalyzerTypeOK' /\ KeysInv'
  BY <1>3, AnalyzerParts, PTL
<1>6. QED BY <1>3, <1>4, <1>5 DEF AnalyzerInv

LEMMA AnalyzerStep == AnalyzerInv /\ [AnalyzerNext]_analyzerVars => AnalyzerInv'
<1> SUFFICES ASSUME AnalyzerInv, [AnalyzerNext]_analyzerVars PROVE AnalyzerInv'
  OBVIOUS
<1>1. FateOK
  BY AnalyzerParts DEF AnalyzerInv
<1>2. CASE UNCHANGED analyzerVars
  <2>1. UNCHANGED <<counted, patterns, followed>> /\ UNCHANGED fate
    BY <1>2 DEF analyzerVars
  <2>2. FateOK'
    BY <1>1, <2>1, AnalyzerSame
  <2>3. QED BY <2>1, <2>2, FateStep
<1>3. CASE AnalyzerNext
  <2>1. PICK c \in AnalyzerCallers :
          \/ \E access \in Access : Process(access)
          \/ \E layers \in AnalyzedLayers, heads \in AnalyzedHeads :
               InitializeAnalyzer(layers + 1, heads + 1)
          \/ ResetAnalyzer \/ analyzeLayerPatterns
          \/ analyzeHeadPatterns \/ predictNextAccess
          \/ Relocks(c) \/ WaitsForEver(c)
    BY <1>3 DEF AnalyzerNext, getPrefetchSuggestions, generateReport
  <2>2. CASE \E access \in Access : Process(access)
    BY <2>2, ProcessAccessStep
  <2>3. CASE \E layers \in AnalyzedLayers, heads \in AnalyzedHeads :
               InitializeAnalyzer(layers + 1, heads + 1)
    BY <2>3, AnalyzerCleared DEF InitializeAnalyzer
  <2>4. CASE ResetAnalyzer
    BY <2>4, AnalyzerCleared DEF ResetAnalyzer
  <2>5. CASE analyzeLayerPatterns
    BY <2>5, AnalyzeStep
  <2>6. CASE analyzeHeadPatterns \/ predictNextAccess
    <3>1. UNCHANGED <<counted, patterns, followed>> /\ aborted' = TRUE /\ stuck' = stuck
      BY <2>6 DEF analyzeHeadPatterns, predictNextAccess
    <3>2. FateOK'
      BY <1>1, <3>1 DEF FateOK
    <3>3. QED BY <3>1, <3>2, FateStep
  <2>7. CASE Relocks(c) \/ WaitsForEver(c)
    <3>1. UNCHANGED <<counted, patterns, followed>> /\ aborted' = aborted
          /\ stuck' = stuck \cup {c}
      BY <2>7 DEF Relocks, WaitsForEver
    <3>2. FateOK'
      BY <1>1, <3>1 DEF FateOK
    <3>3. QED BY <3>1, <3>2, FateStep
  <2>8. QED BY <2>1, <2>2, <2>3, <2>4, <2>5, <2>6, <2>7
<1>4. QED BY <1>2, <1>3

LEMMA AnalyzerInvHolds == AnalyzerSpec => []AnalyzerInv
BY AnalyzerStart, AnalyzerStep, PTL DEF AnalyzerSpec

-----------------------------------------------------------------------------
(* Theorems *)

\* No record that recordAccess queued is lost, doubled or reordered on its way to
\* the history, through shutdowns, restarts and clears at any time.
THEOREM RecordsStayInOrder == MonitorSpec => []HistoryInOrder
<1>1. MonitorInv => HistoryInOrder
  BY WindowsInOrder DEF MonitorInv
<1>2. MonitorSpec => []MonitorInv
  BY MonitorInvHolds DEF MonitorSpec
<1>3. QED BY <1>1, <1>2, PTL

\* predictNextAccess tells every block that has followed, and only those, though
\* the window has forgotten some; analyzeLayerPatterns answers from its cache only
\* while no access has come since.
THEOREM AnalyzerUpToDate == AnalyzerSpec => []AnswersCurrent
<1>1. AnalyzerInv => AnswersCurrent
  BY PredictionsSound DEF AnalyzerInv, AnswersCurrent
<1>2. QED BY <1>1, AnalyzerInvHolds, PTL

MonitoringInv == HeatInv /\ RingInv /\ MonitorInv /\ AnalyzerInv

LEMMA MonitoringStart == MonitoringInit => MonitoringInv
BY HeatStart, RingStart, MonitorStart, AnalyzerStart DEF MonitoringInit, MonitoringInv

LEMMA MonitoringStep == MonitoringInv /\ [MonitoringNext]_monitoringVars => MonitoringInv'
<1> SUFFICES ASSUME MonitoringInv, [MonitoringNext]_monitoringVars PROVE MonitoringInv'
  OBVIOUS
<1>1. /\ [HeatNext]_heatVars /\ [RingNext]_ringVars
      /\ [MonitorNext]_monitorVars /\ [AnalyzerNext]_analyzerVars
  BY DEF MonitoringNext, monitoringVars
<1>2. HeatInv'
  BY <1>1, HeatStep DEF MonitoringInv
<1>3. RingInv'
  BY <1>1, RingStep DEF MonitoringInv
<1>4. MonitorInv'
  BY <1>1, MonitorStep DEF MonitoringInv
<1>5. AnalyzerInv'
  BY <1>1, AnalyzerStep DEF MonitoringInv
<1>6. QED BY <1>2, <1>3, <1>4, <1>5 DEF MonitoringInv

\* The variables of the evaluator, the ring, the locked monitor and the analyzer
\* keep their types whichever of them runs; each pattern found names a type and
\* known heads, and its count is a number.
THEOREM MonitoringTyped == MonitoringSpec => []MonitoringTypeOK
<1>1. MonitoringInv => MonitoringTypeOK
  BY DEF MonitoringInv, MonitoringTypeOK, HeatInv, RingInv, MonitorInv, AnalyzerInv
<1>2. MonitoringSpec => []MonitoringInv
  BY MonitoringStart, MonitoringStep, PTL DEF MonitoringSpec
<1>3. QED BY <1>1, <1>2, PTL

=============================================================================
