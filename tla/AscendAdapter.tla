------------------------------ MODULE AscendAdapter ------------------------------
(***************************************************************************)
(* The device adapters (src/npu/ascend_adapter.cpp, device_factory.cpp) and*)
(* the runtime ACL they share.  The first adapter to initialize starts ACL,*)
(* the last to finalize stops it; the count of adapters is guarded by a    *)
(* mutex of the class, everything else of an adapter by its own.  The CUDA *)
(* compatibility layer (device/cuda_compat.h) starts ACL too.              *)
(*                                                                         *)
(* finalize leaves initialized_ before it asks for the mutex of the class; *)
(* most device calls test initialized_ without any mutex, then call ACL.    *)
(*                                                                         *)
(* Abstracted: what a device call moves, creates or waits for: it is       *)
(* refused, or reaches ACL.  Left out: error texts, and load statistics.   *)
(***************************************************************************)
EXTENDS Integers, FiniteSets, Sequences, Functions

CONSTANTS
  Adapters,
  DeviceUsers,    \* threads that call adapters
  DeviceCounts,   \* how many devices ACL may report
  MaxAdapterInits \* bound: successful initializations

ASSUME AdapterAssumption ==
  /\ IsFiniteSet(Adapters) /\ DeviceCounts \subseteq Nat /\ MaxAdapterInits \in Nat

VARIABLES
  acl,             \* whether the ACL runtime is up
  compat,          \* getAclInitialized of the compatibility layer
  kind,            \* what create made of each adapter
  npus,            \* how many devices ACL reports
  initialized,     \* initialized_ of each adapter
  finalizing,      \* adapters between the two halves of finalize
  device_count_, current_device_,
  instance_count_,
  calling,         \* the adapter whose device call a thread is in, or NoAdapter
  overtaken,       \* history: threads in a call whose adapter is or was down
  adapterInits

machine == <<kind, npus>>
devices == <<device_count_, current_device_>>
inCall == <<calling, overtaken>>
adapterVars == <<acl, compat, machine, initialized, finalizing, devices, instance_count_,
                 inCall, adapterInits>>

NoAdapter == "none"

AdapterTypeOK ==
  /\ acl \in BOOLEAN /\ compat \in BOOLEAN
  /\ kind \in [Adapters -> {"ASCEND", "CPU"}] /\ npus \in DeviceCounts
  /\ initialized \in [Adapters -> BOOLEAN]
  /\ finalizing \subseteq Adapters
  /\ device_count_ \in [Adapters -> DeviceCounts \cup {0, 1}]
  /\ \A a \in Adapters : current_device_[a] \in -1..(device_count_[a] - 1)
  /\ instance_count_ \in 0..Cardinality(Adapters)
  /\ calling \in [DeviceUsers -> Adapters \cup {NoAdapter}]
  /\ overtaken \subseteq DeviceUsers

\* npu-smi is there, and the environment or the default path names the toolkit.
AscendAvailable(smi, home, header) == smi /\ (home \/ header)

DetectDeviceType ==
  {IF AscendAvailable(smi, home, header) THEN "ASCEND" ELSE "CPU" :
     smi \in BOOLEAN, home \in BOOLEAN, header \in BOOLEAN}

\* createAuto; the fallback has one device and uses the first.
AdapterInit ==
  /\ acl = FALSE /\ compat = FALSE
  /\ kind \in [Adapters -> DetectDeviceType] /\ npus \in DeviceCounts
  /\ initialized = [a \in Adapters |-> FALSE]
  /\ finalizing = {}
  /\ device_count_ = [a \in Adapters |-> IF kind[a] = "CPU" THEN 1 ELSE 0]
  /\ current_device_ = [a \in Adapters |-> IF kind[a] = "CPU" THEN 0 ELSE -1]
  /\ instance_count_ = 0
  /\ calling = [u \in DeviceUsers |-> NoAdapter] /\ overtaken = {}
  /\ adapterInits = 0

-----------------------------------------------------------------------------
(* initialize; the whole of it under both mutexes *)

CanInitialize(a) ==
  /\ kind[a] = "ASCEND" /\ ~initialized[a] /\ a \notin finalizing
  /\ adapterInits < MaxAdapterInits

\* ACL is started by the first; that it runs already is no error.
AclAfterInit == acl \/ instance_count_ = 0

\* ACL is started, but a later call fails: the adapter stays down and ACL up.
\* (If ACL cannot be started nothing changes.)
InitializeFails(a) ==
  /\ CanInitialize(a)
  /\ acl' = AclAfterInit
  /\ \/ UNCHANGED device_count_
     \/ npus > 0 /\ device_count_' = [device_count_ EXCEPT ![a] = npus]
  /\ UNCHANGED <<compat, machine, initialized, finalizing, current_device_, instance_count_,
                 inCall, adapterInits>>

InitializeAdapter(a) ==
  /\ CanInitialize(a)
  /\ AclAfterInit /\ acl' = TRUE
  /\ device_count_' = [device_count_ EXCEPT ![a] = npus]
  /\ current_device_' = [current_device_ EXCEPT ![a] = IF npus > 0 THEN 0 ELSE @]
  /\ instance_count_' = instance_count_ + 1
  /\ initialized' = [initialized EXCEPT ![a] = TRUE]
  /\ adapterInits' = adapterInits + 1
  /\ UNCHANGED <<compat, machine, finalizing, inCall>>

\* The fallback has nothing to start or stop.
InitializeCPU(a, up) ==
  /\ kind[a] = "CPU"
  /\ initialized' = [initialized EXCEPT ![a] = up]
  /\ UNCHANGED <<acl, compat, machine, finalizing, devices, instance_count_, inCall, adapterInits>>

-----------------------------------------------------------------------------
(* finalize, or the destructor *)

BeginFinalize(a) ==
  /\ kind[a] = "ASCEND" /\ initialized[a]
  /\ initialized' = [initialized EXCEPT ![a] = FALSE]
  /\ current_device_' = [current_device_ EXCEPT ![a] = -1]
  /\ finalizing' = finalizing \cup {a}
  /\ overtaken' = overtaken \cup {u \in DeviceUsers : calling[u] = a}
  /\ UNCHANGED <<acl, compat, machine, device_count_, instance_count_, calling, adapterInits>>

\* Fault: off by one, the last but one stops ACL.
StopsEarly == instance_count_ <= 2

LastInstance == instance_count_ = 1

EndFinalize(a) ==
  /\ a \in finalizing
  /\ finalizing' = finalizing \ {a}
  /\ instance_count_' = instance_count_ - 1
  /\ acl' = (acl /\ ~LastInstance)
  /\ UNCHANGED <<compat, machine, initialized, devices, inCall, adapterInits>>

-----------------------------------------------------------------------------
(* Devices and device calls *)

\* No mutex and no test of initialized_: with ACL up, an adapter that was
\* finalized takes a device again.
SetDevice(a, d) ==
  /\ kind[a] = "ASCEND" /\ acl /\ d # current_device_[a]
  /\ current_device_' = [current_device_ EXCEPT ![a] = d]
  /\ UNCHANGED <<acl, compat, machine, initialized, finalizing, device_count_, instance_count_,
                 inCall, adapterInits>>

\* setDeviceAffinity: the devices of the list must exist, the first is taken.
SetDeviceAffinity(a, ids) ==
  /\ ids # <<>> /\ Range(ids) \subseteq 0..(device_count_[a] - 1)
  /\ SetDevice(a, Head(ids))

\* Most calls test initialized_ first.
BeginDeviceCall(u, a) ==
  /\ calling[u] = NoAdapter /\ kind[a] = "ASCEND" /\ initialized[a]
  /\ calling' = [calling EXCEPT ![u] = a]
  /\ UNCHANGED <<acl, compat, machine, initialized, finalizing, devices, instance_count_,
                 overtaken, adapterInits>>

\* Allocation, copies and memset.
MemoryCall(u, a) == BeginDeviceCall(u, a)

\* Streams, synchronization and events.
QueueCall(u, a) == BeginDeviceCall(u, a)

\* Freeing memory, destroying a stream or an event: ACL is called in any case.
FreeingCall(u, a) ==
  /\ calling[u] = NoAdapter /\ kind[a] = "ASCEND"
  /\ calling' = [calling EXCEPT ![u] = a]
  /\ overtaken' = IF initialized[a] THEN overtaken ELSE overtaken \cup {u}
  /\ UNCHANGED <<acl, compat, machine, initialized, finalizing, devices, instance_count_, adapterInits>>

EndDeviceCall(u) ==
  /\ calling[u] # NoAdapter
  /\ calling' = [calling EXCEPT ![u] = NoAdapter]
  /\ overtaken' = overtaken \ {u}
  /\ UNCHANGED <<acl, compat, machine, initialized, finalizing, devices, instance_count_, adapterInits>>

\* ensureAclInitialized; once done it trusts its flag.
EnsureAclInitialized ==
  /\ ~compat
  /\ acl' = TRUE
  /\ compat' \in BOOLEAN    \* setting the device may fail
  /\ UNCHANGED <<machine, initialized, finalizing, devices, instance_count_, inCall, adapterInits>>

-----------------------------------------------------------------------------
AdapterNext ==
  \/ \E a \in Adapters :
       \/ InitializeAdapter(a) \/ InitializeFails(a)
       \/ \E up \in BOOLEAN : InitializeCPU(a, up)
       \/ BeginFinalize(a) \/ EndFinalize(a)
       \/ \E d \in 0..(device_count_[a] - 1) : SetDevice(a, d)
       \/ \E d, e \in 0..device_count_[a] : SetDeviceAffinity(a, <<d, e>>)
       \/ \E u \in DeviceUsers : MemoryCall(u, a) \/ QueueCall(u, a) \/ FreeingCall(u, a)
  \/ \E u \in DeviceUsers : EndDeviceCall(u)
  \/ EnsureAclInitialized

AdapterSpec == AdapterInit /\ [][AdapterNext]_adapterVars

-----------------------------------------------------------------------------
(* Properties *)

Up == {a \in Adapters : kind[a] = "ASCEND" /\ initialized[a]}

\* ACL is up while any adapter is, and for every device call in progress whose
\* adapter was not finalized meanwhile, however many adapters initialize and
\* finalize at once and whichever initializations failed halfway; and the count
\* is that of the adapters that are up or about to be subtracted.
AclUpForAdapters ==
  /\ Up # {} => acl
  /\ \A u \in DeviceUsers : calling[u] # NoAdapter /\ u \notin overtaken => acl
  /\ instance_count_ = Cardinality(Up \cup finalizing)

=============================================================================
