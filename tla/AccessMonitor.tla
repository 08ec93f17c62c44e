----------------------------- MODULE AccessMonitor -----------------------------
(***************************************************************************)
(* The locked access monitor (src/monitor/access_monitor.cpp): recording   *)
(* threads queue records under queue_mutex_, the processing thread moves   *)
(* them to a bounded history and counts them.                              *)
(*                                                                         *)
(* A critical section is one action, but for the processing thread going   *)
(* to sleep: it keeps queue_mutex_ between evaluating its predicate and    *)
(* sleeping, and shutdown changes running_ without that mutex in between.  *)
(* Spurious wake-ups are left out.                                         *)
(*                                                                         *)
(* Abstracted: a record is its number and block; layers, heads, times and  *)
(* the share that sampling drops.                                          *)
(***************************************************************************)
EXTENDS Integers, Sequences, FiniteSets, MapOps

CONSTANTS
  Recorders,       \* threads in recordAccess
  RecordedBlocks,
  MonitorModes,    \* of FULL, SAMPLED and CALLBACK
  HistorySize,     \* history_size
  MaxRecords,      \* bound: calls of recordAccess past the check of monitoring_active_
  MaxRestarts,     \* bound: initializations after the first
  MaxResets        \* bound: calls of clearHistory and resetStats

ASSUME MonitorAssumption ==
  /\ MonitorModes \subseteq {"FULL", "SAMPLED", "CALLBACK"}
  /\ HistorySize \in Nat /\ MaxRecords \in Nat /\ MaxRestarts \in Nat /\ MaxResets \in Nat

VARIABLES
  monitor,              \* monitoring_active_, running_, mode_, whether there is a callback
  owner_,               \* where the thread of initialize and shutdown is
  access_queue_,
  history_buffer_,
  block_access_counts_,
  totals,               \* total_accesses_
  rpc, rec,             \* recorders: where, and the record
  wpc_, inHand,         \* the processing thread: where, and its record
  clearing,             \* where clearHistory is
  accepted,             \* history: all records queued, in order
  forgotten,            \* history: how many of them the current history buffer
                        \* never saw or was cleared of
  recorded, restarts, resets

queueState == <<access_queue_, history_buffer_, block_access_counts_>>
recorder == <<rpc, rec, recorded>>
processing == <<wpc_, inHand>>
control == <<monitor, owner_, restarts>>
past == <<accepted, forgotten>>
monitorVars == <<control, queueState, totals, recorder, processing, clearing, past, resets>>

AccessRec == [number : 1..MaxRecords, block : RecordedBlocks]
Nothing == <<>>     \* a record in hand is a sequence of one

MonitorTypeOK ==
  /\ monitor \in [active : BOOLEAN, running : BOOLEAN, mode : {"FULL"} \cup MonitorModes,
                 callback : BOOLEAN]
  /\ owner_ \in {"down", "up", "notify", "join"}
  /\ access_queue_ \in Seq(AccessRec) /\ history_buffer_ \in Seq(AccessRec)
  /\ DOMAIN block_access_counts_ \subseteq RecordedBlocks /\ Range(block_access_counts_) \subseteq Nat
  /\ totals \in Nat
  /\ rpc \in [Recorders -> {"idle", "deliver"}]
  /\ rec \in [Recorders -> AccessRec \cup {Nothing}]
  /\ wpc_ \in {"ended", "loop", "wait", "block", "asleep", "history", "count"}
  /\ inHand \in AccessRec \cup {Nothing}
  /\ clearing \in BOOLEAN
  /\ accepted \in Seq(AccessRec) /\ forgotten \in Nat

MonitorInit ==
  /\ monitor = [active |-> FALSE, running |-> FALSE, mode |-> "FULL", callback |-> FALSE]
  /\ owner_ = "down" /\ restarts = 0
  /\ access_queue_ = <<>> /\ history_buffer_ = <<>> /\ block_access_counts_ = <<>>
  /\ totals = 0
  /\ rpc = [r \in Recorders |-> "idle"] /\ rec = [r \in Recorders |-> Nothing] /\ recorded = 0
  /\ wpc_ = "ended" /\ inHand = Nothing
  /\ clearing = FALSE /\ resets = 0
  /\ accepted = <<>> /\ forgotten = 0

\* Records that have left the queue and are not in hand for the history.
Passed == Len(accepted) - Len(access_queue_) - (IF wpc_ = "history" THEN 1 ELSE 0)

QueueMutexFree == wpc_ # "block"

-----------------------------------------------------------------------------
(* Lifecycle *)

\* The history is a new one; the queue keeps what a former run left in it.
InitializeMonitor ==
  /\ owner_ = "down" /\ restarts <= MaxRestarts
  /\ owner_' = "up" /\ restarts' = restarts + 1
  /\ \E mode \in MonitorModes : monitor' = [monitor EXCEPT !.running = TRUE, !.mode = mode]
  /\ history_buffer_' = <<>> /\ forgotten' = Passed
  /\ wpc_' = "loop"
  /\ UNCHANGED <<access_queue_, block_access_counts_, totals, recorder, inHand, clearing,
                 accepted, resets>>

SetMonitoring(active) ==
  /\ owner_ = "up"
  /\ monitor' = [monitor EXCEPT !.active = active]
  /\ UNCHANGED <<owner_, restarts, queueState, totals, recorder, processing, clearing, past, resets>>

\* Set while nothing is recorded: the callback itself is not guarded.
SetAccessCallback ==
  /\ owner_ = "up" /\ ~monitor.active /\ \A r \in Recorders : rpc[r] = "idle"
  /\ monitor' = [monitor EXCEPT !.callback = TRUE]
  /\ UNCHANGED <<owner_, restarts, queueState, totals, recorder, processing, clearing, past, resets>>

ShutdownMonitor ==
  /\ owner_ = "up"
  /\ owner_' = "notify"
  /\ monitor' = [monitor EXCEPT !.active = FALSE, !.running = FALSE]
  /\ UNCHANGED <<restarts, queueState, totals, recorder, processing, clearing, past, resets>>

\* notify_all, without the mutex.
ShutdownNotifies ==
  /\ owner_ = "notify"
  /\ owner_' = "join"
  /\ wpc_' = IF wpc_ = "asleep" THEN "wait" ELSE wpc_
  /\ UNCHANGED <<monitor, restarts, queueState, totals, recorder, inHand, clearing, past, resets>>

ShutdownJoins ==
  /\ owner_ = "join" /\ wpc_ = "ended"
  /\ owner_' = "down"
  /\ UNCHANGED <<monitor, restarts, queueState, totals, recorder, processing, clearing, past, resets>>

-----------------------------------------------------------------------------
(* recordAccess *)

\* monitoring_active_ is looked at once.  A sampled call may be dropped.
BeginRecord(r, b) ==
  /\ monitor.active /\ rpc[r] = "idle" /\ recorded < MaxRecords
  /\ recorded' = recorded + 1
  /\ \/ /\ rpc' = [rpc EXCEPT ![r] = "deliver"]
        /\ rec' = [rec EXCEPT ![r] = [number |-> recorded + 1, block |-> b]]
     \/ monitor.mode = "SAMPLED" /\ UNCHANGED <<rpc, rec>>
  /\ UNCHANGED <<control, queueState, totals, processing, clearing, past, resets>>

\* Fault: the processing thread is not notified.
NotNotified == wpc_

NotifiedWorker == IF wpc_ = "asleep" THEN "wait" ELSE wpc_

\* The totals are counted right after the delivery.
Delivered(r) ==
  /\ rpc' = [rpc EXCEPT ![r] = "idle"]
  /\ rec' = [rec EXCEPT ![r] = Nothing]
  /\ totals' = totals + 1
  /\ UNCHANGED recorded

Enqueue(r) ==
  /\ rpc[r] = "deliver" /\ ~(monitor.mode = "CALLBACK" /\ monitor.callback)
  /\ QueueMutexFree
  /\ access_queue_' = Append(access_queue_, rec[r])
  /\ accepted' = Append(accepted, rec[r])
  /\ wpc_' = NotifiedWorker
  /\ Delivered(r)
  /\ UNCHANGED <<control, history_buffer_, block_access_counts_, inHand, clearing,
                 forgotten, resets>>

\* The callback is given the record, which is not queued.
CallBack(r) ==
  /\ rpc[r] = "deliver" /\ monitor.mode = "CALLBACK" /\ monitor.callback
  /\ Delivered(r)
  /\ UNCHANGED <<control, queueState, processing, clearing, past, resets>>

-----------------------------------------------------------------------------
(* The processing thread *)

Go(pc) == wpc_' = pc

LoopTest ==
  /\ wpc_ = "loop"
  /\ Go(IF monitor.running THEN "wait" ELSE "ended")
  /\ UNCHANGED <<control, queueState, totals, recorder, inHand, clearing, past, resets>>

\* Under queue_mutex_: a record is taken, or the loop left, or the mutex kept
\* until the thread sleeps.
TakeRecord ==
  /\ wpc_ = "wait" /\ access_queue_ # <<>>
  /\ inHand' = Head(access_queue_)
  /\ access_queue_' = Tail(access_queue_)
  /\ Go("history")
  /\ UNCHANGED <<control, history_buffer_, block_access_counts_, totals, recorder, clearing,
                 past, resets>>

FindNothing ==
  /\ wpc_ = "wait" /\ access_queue_ = <<>>
  /\ Go(IF monitor.running THEN "block" ELSE "ended")
  /\ UNCHANGED <<control, queueState, totals, recorder, inHand, clearing, past, resets>>

FallAsleep ==
  /\ wpc_ = "block"
  /\ Go("asleep")
  /\ UNCHANGED <<control, queueState, totals, recorder, inHand, clearing, past, resets>>

\* Fault: one record too many is kept.
TrimmedLate(s) == IF Len(s) > HistorySize + 1 THEN Tail(s) ELSE s

Trimmed(s) == IF Len(s) > HistorySize THEN Tail(s) ELSE s

AddToHistory ==
  /\ wpc_ = "history"
  /\ history_buffer_' = Trimmed(Append(history_buffer_, inHand))
  /\ Go("count")
  /\ UNCHANGED <<control, access_queue_, block_access_counts_, totals, recorder, inHand,
                 clearing, past, resets>>

UpdateCounts ==
  /\ wpc_ = "count"
  /\ block_access_counts_' = Added(block_access_counts_, inHand.block,
                                   Lookup(block_access_counts_, inHand.block, 0) + 1)
  /\ inHand' = Nothing
  /\ Go("loop")
  /\ UNCHANGED <<control, access_queue_, history_buffer_, totals, recorder, clearing, past, resets>>

-----------------------------------------------------------------------------
(* clearHistory: the history and the counts, one after the other; resetStats *)
(* zeroes the totals first.                                                  *)

ClearHistoryBuffer(zeroed) ==
  /\ ~clearing /\ resets < MaxResets
  /\ clearing' = TRUE /\ resets' = resets + 1
  /\ history_buffer_' = <<>> /\ forgotten' = Passed
  /\ totals' = IF zeroed THEN 0 ELSE totals
  /\ UNCHANGED <<control, access_queue_, block_access_counts_, recorder, processing, accepted>>

ClearCounts ==
  /\ clearing
  /\ clearing' = FALSE
  /\ block_access_counts_' = <<>>
  /\ UNCHANGED <<control, access_queue_, history_buffer_, totals, recorder, processing, past, resets>>

-----------------------------------------------------------------------------
Processing ==
  LoopTest \/ TakeRecord \/ FindNothing \/ FallAsleep \/ AddToHistory \/ UpdateCounts

MonitorNext ==
  \/ InitializeMonitor \/ SetAccessCallback \/ ShutdownMonitor \/ ShutdownNotifies \/ ShutdownJoins
  \/ \E active \in BOOLEAN : SetMonitoring(active)
  \/ \E r \in Recorders : \/ Enqueue(r) \/ CallBack(r)
                          \/ \E b \in RecordedBlocks : BeginRecord(r, b)
  \/ Processing
  \/ ClearCounts
  \/ \E zeroed \in BOOLEAN : ClearHistoryBuffer(zeroed)

\* The processing thread goes on whenever it can; nobody else has to.
MonitorFairness == WF_monitorVars(Processing)

MonitorSpec == MonitorInit /\ [][MonitorNext]_monitorVars /\ MonitorFairness

-----------------------------------------------------------------------------
(* Properties *)

\* No record is lost, doubled or reordered between recordAccess and the
\* history: the buffer holds the last HistorySize of those the processing
\* thread has passed on, back to the last time it was cleared or replaced, and
\* the queue the ones after, through shutdowns, restarts and clears at any time.
HistoryInOrder ==
  LET first == Greater(forgotten, Passed - HistorySize) + 1
  IN /\ history_buffer_ = SubSeq(accepted, first, Passed)
     /\ access_queue_ = SubSeq(accepted, Len(accepted) - Len(access_queue_) + 1, Len(accepted))
     /\ wpc_ = "history" => inHand = accepted[Passed + 1]

\* In a running monitor every queued record reaches the history.
RecordsProcessed == access_queue_ # <<>> ~> access_queue_ = <<>> \/ ~monitor.running

=============================================================================
