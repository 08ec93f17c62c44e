------------------------------ MODULE PartsProofs ------------------------------
(***************************************************************************)
(* The parts that the facade does not create, for every value of the       *)
(* constants: each part's property from the inductive invariant that gives *)
(* it, and the types of all.  Sequences, sets and maps come first, then    *)
(* the parts: adapters, configuration, mapper, scheduler, stream pool,     *)
(* prefetcher; and the composition at the end.                             *)
(***************************************************************************)
EXTENDS MCParts, SequenceTheorems, FiniteSetTheorems, WellFoundedInduction, TLAPS

-----------------------------------------------------------------------------
(* Sequences, sets and maps *)

\* An item is appended: a new one keeps a sequence without repetitions.
LEMMA AppendRange ==
  ASSUME NEW S, NEW seq \in Seq(S), NEW e \in S
  PROVE  /\ Append(seq, e) \in Seq(S) /\ Len(Append(seq, e)) = Len(seq) + 1
         /\ Range(Append(seq, e)) = Range(seq) \cup {e}
         /\ IsInjective(seq) /\ e \notin Range(seq) => IsInjective(Append(seq, e))
<1> DEFINE longer == Append(seq, e)
<1>1. /\ longer \in Seq(S) /\ Len(longer) = Len(seq) + 1
      /\ \A i \in 1..Len(seq) : longer[i] = seq[i]
      /\ longer[Len(seq) + 1] = e
  BY AppendProperties
<1>2. /\ Len(seq) \in Nat /\ DOMAIN seq = 1..Len(seq) /\ DOMAIN longer = 1..(Len(seq) + 1)
  BY <1>1, LenProperties
<1> HIDE DEF longer
<1>3. Range(longer) = Range(seq) \cup {e}
  BY <1>1, <1>2 DEF Range
<1>4. ASSUME IsInjective(seq), e \notin Range(seq) PROVE IsInjective(longer)
  <2>1. \A i \in 1..Len(seq) : longer[i] # e
    BY <1>1, <1>2, <1>4 DEF Range
  <2>2. QED BY <1>1, <1>2, <1>4, <2>1 DEF IsInjective
<1>5. QED BY <1>1, <1>3, <1>4 DEF longer

\* The item at a place is removed.
LEMMA RemoveAtRange ==
  ASSUME NEW S, NEW seq \in Seq(S), NEW i \in DOMAIN seq
  PROVE  /\ RemoveAt(seq, i) \in Seq(S) /\ Len(RemoveAt(seq, i)) = Len(seq) - 1
         /\ IsInjective(seq) => /\ IsInjective(RemoveAt(seq, i))
                                /\ Range(RemoveAt(seq, i)) = Range(seq) \ {seq[i]}
<1> DEFINE front == SubSeq(seq, 1, i - 1)
           back == SubSeq(seq, i + 1, Len(seq))
           rest == front \o back
<1>1. Len(seq) \in Nat /\ DOMAIN seq = 1..Len(seq) /\ i \in 1..Len(seq) /\ i \in Int
  BY LenProperties
<1>2. /\ front \in Seq(S) /\ Len(front) = i - 1
      /\ \A j \in 1..(i - 1) : front[j] = seq[j]
  <2>1. \A j \in 1..(i - 1) : seq[j] \in S
    BY <1>1, ElementOfSeq
  <2>2. /\ front \in Seq(S) /\ Len(front) = IF 1 <= i - 1 THEN i - 1 - 1 + 1 ELSE 0
        /\ \A j \in 1..(i - 1 - 1 + 1) : front[j] = seq[1 + j - 1]
    BY <1>1, <2>1, SubSeqProperties
  <2>3. QED BY <1>1, <2>2
<1>3. /\ back \in Seq(S) /\ Len(back) = Len(seq) - i
      /\ \A j \in 1..(Len(seq) - i) : back[j] = seq[i + j]
  <2>1. \A j \in (i + 1)..Len(seq) : seq[j] \in S
    BY <1>1, ElementOfSeq
  <2>2. i + 1 \in Int /\ Len(seq) \in Int
    BY <1>1
  <2>3. /\ back \in Seq(S)
        /\ Len(back) = IF i + 1 <= Len(seq) THEN Len(seq) - (i + 1) + 1 ELSE 0
        /\ \A j \in 1..(Len(seq) - (i + 1) + 1) : back[j] = seq[(i + 1) + j - 1]
    BY <2>1, <2>2, SubSeqProperties
  <2>4. QED BY <1>1, <2>3
<1> HIDE DEF front, back
<1>4. /\ rest \in Seq(S) /\ Len(rest) = Len(seq) - 1
      /\ \A j \in 1..(Len(seq) - 1) : rest[j] = IF j < i THEN seq[j] ELSE seq[j + 1]
  <2>1. /\ rest \in Seq(S) /\ Len(rest) = Len(front) + Len(back)
        /\ \A j \in 1..(Len(front) + Len(back)) :
             rest[j] = IF j <= Len(front) THEN front[j] ELSE back[j - Len(front)]
    BY <1>2, <1>3, ConcatProperties
  <2> HIDE DEF rest
  <2>2. Len(front) + Len(back) = Len(seq) - 1
    BY <1>1, <1>2, <1>3
  <2>3. ASSUME NEW j \in 1..(Len(seq) - 1)
        PROVE  rest[j] = IF j < i THEN seq[j] ELSE seq[j + 1]
    <3>1. CASE j < i
      BY <1>1, <1>2, <2>1, <2>2, <3>1
    <3>2. CASE ~(j < i)
      <4>1. rest[j] = back[j - (i - 1)] /\ j - (i - 1) \in 1..(Len(seq) - i)
        BY <1>1, <1>2, <2>1, <2>2, <3>2
      <4>2. back[j - (i - 1)] = seq[i + (j - (i - 1))] /\ i + (j - (i - 1)) = j + 1
        BY <1>1, <1>3, <4>1
      <4>3. QED BY <3>2, <4>1, <4>2
    <3>3. QED BY <3>1, <3>2
  <2>4. QED BY <2>1, <2>2, <2>3
<1> HIDE DEF rest
<1>5. DOMAIN rest = 1..(Len(seq) - 1)
  BY <1>4, LenProperties
<1>6. ASSUME IsInjective(seq)
      PROVE  IsInjective(rest) /\ Range(rest) = Range(seq) \ {seq[i]}
  <2> DEFINE from(j) == IF j < i THEN j ELSE j + 1
  <2>1. \A j \in 1..(Len(seq) - 1) :
          from(j) \in 1..Len(seq) /\ from(j) # i /\ rest[j] = seq[from(j)]
    BY <1>1, <1>4
  <2>2. \A j, k \in 1..(Len(seq) - 1) : from(j) = from(k) => j = k
    BY <1>1
  <2>3. \A k \in 1..Len(seq) : k # i => \E j \in 1..(Len(seq) - 1) : from(j) = k
    <3> SUFFICES ASSUME NEW k \in 1..Len(seq), k # i
                 PROVE  \E j \in 1..(Len(seq) - 1) : from(j) = k
      OBVIOUS
    <3>1. CASE k < i
      BY <1>1, <3>1
    <3>2. CASE k > i
      <4>1. k - 1 \in 1..(Len(seq) - 1) /\ from(k - 1) = k
        BY <1>1, <3>2
      <4>2. QED BY <4>1
    <3>3. QED BY <1>1, <3>1, <3>2
  <2> HIDE DEF from
  <2>4. \A j, k \in 1..Len(seq) : seq[j] = seq[k] => j = k
    BY <1>1, <1>6 DEF IsInjective
  <2>5. IsInjective(rest)
    BY <1>5, <2>1, <2>2, <2>4 DEF IsInjective
  <2>6. \A e : e \in Range(rest) <=> e \in Range(seq) /\ e # seq[i]
    <3>1. \A e : e \in Range(rest) <=> \E j \in 1..(Len(seq) - 1) : e = rest[j]
      BY <1>5 DEF Range
    <3>2. \A e : e \in Range(seq) <=> \E k \in 1..Len(seq) : e = seq[k]
      BY <1>1 DEF Range
    <3>3. ASSUME NEW e \in Range(rest) PROVE e \in Range(seq) /\ e # seq[i]
      <4>1. PICK j \in 1..(Len(seq) - 1) : e = rest[j]
        BY <3>1
      <4>2. e = seq[from(j)] /\ from(j) \in 1..Len(seq) /\ from(j) # i
        BY <2>1, <4>1
      <4>3. QED BY <1>1, <2>4, <3>2, <4>2
    <3>4. ASSUME NEW e \in Range(seq), e # seq[i] PROVE e \in Range(rest)
      <4>1. PICK k \in 1..Len(seq) : e = seq[k]
        BY <3>2
      <4>2. PICK j \in 1..(Len(seq) - 1) : from(j) = k
        BY <2>3, <3>4, <4>1
      <4>3. QED BY <2>1, <3>1, <4>1, <4>2
    <3>5. QED BY <3>3, <3>4
  <2>7. QED BY <2>5, <2>6
<1>7. QED BY <1>4, <1>6 DEF RemoveAt, rest, front, back

\* The head of a sequence without repetitions leaves its range.
LEMMA TailRange ==
  ASSUME NEW S, NEW seq \in Seq(S), seq # <<>>
  PROVE  /\ Head(seq) \in Range(seq) /\ Tail(seq) \in Seq(S)
         /\ Len(Tail(seq)) = Len(seq) - 1
         /\ IsInjective(seq) => /\ IsInjective(Tail(seq))
                                /\ Range(Tail(seq)) = Range(seq) \ {Head(seq)}
<1> DEFINE rest == Tail(seq)
<1>1. Len(seq) \in Nat \ {0} /\ DOMAIN seq = 1..Len(seq) /\ Head(seq) = seq[1]
  BY EmptySeq, LenProperties
<1>2. /\ rest \in Seq(S) /\ Len(rest) = Len(seq) - 1
      /\ \A i \in 1..Len(rest) : rest[i] = seq[i + 1]
  BY HeadTailProperties
<1> HIDE DEF rest
<1>3. DOMAIN rest = 1..(Len(seq) - 1) /\ \A i \in 1..(Len(seq) - 1) : rest[i] = seq[i + 1]
  BY <1>2, LenProperties
<1>4. ASSUME IsInjective(seq)
      PROVE  IsInjective(rest) /\ Range(rest) = Range(seq) \ {seq[1]}
  <2>1. \A j, k \in 1..Len(seq) : seq[j] = seq[k] => j = k
    BY <1>1, <1>4 DEF IsInjective
  <2>2. \A k \in 1..(Len(seq) - 1) : k + 1 \in 1..Len(seq) /\ k + 1 # 1 /\ rest[k] = seq[k + 1]
    BY <1>1, <1>3
  <2>3. \A k \in 1..Len(seq) : k # 1 => k - 1 \in 1..(Len(seq) - 1) /\ (k - 1) + 1 = k
    BY <1>1
  <2>4. IsInjective(rest)
    BY <1>1, <1>3, <2>1, <2>2 DEF IsInjective
  <2>5. \A e : e \in Range(rest) <=> \E j \in 1..(Len(seq) - 1) : e = rest[j]
    BY <1>3 DEF Range
  <2>6. \A e : e \in Range(seq) <=> \E k \in 1..Len(seq) : e = seq[k]
    BY <1>1 DEF Range
  <2>7. \A e : e \in Range(rest) <=> e \in Range(seq) /\ e # seq[1]
    <3>1. ASSUME NEW e \in Range(rest) PROVE e \in Range(seq) /\ e # seq[1]
      <4>1. PICK j \in 1..(Len(seq) - 1) : e = rest[j]
        BY <2>5
      <4>2. e = seq[j + 1] /\ j + 1 \in 1..Len(seq) /\ j + 1 # 1 /\ 1 \in 1..Len(seq)
        BY <1>1, <2>2, <4>1
      <4>3. QED BY <2>1, <2>6, <4>2
    <3>2. ASSUME NEW e \in Range(seq), e # seq[1] PROVE e \in Range(rest)
      <4>1. PICK k \in 1..Len(seq) : e = seq[k]
        BY <2>6
      <4>2. k - 1 \in 1..(Len(seq) - 1) /\ rest[k - 1] = seq[k]
        <5>1. k # 1
          BY <3>2, <4>1
        <5>2. k - 1 \in 1..(Len(seq) - 1) /\ (k - 1) + 1 = k
          BY <2>3, <5>1
        <5>3. QED BY <2>2, <5>2
      <4>3. QED BY <2>5, <4>1, <4>2
    <3>3. QED BY <3>1, <3>2
  <2>8. QED BY <2>4, <2>7
<1>5. Head(seq) \in Range(seq)
  BY <1>1 DEF Range
<1>6. QED BY <1>1, <1>2, <1>4, <1>5 DEF rest

\* A set of naturals that is not empty has a least member.
LEMMA LeastMember ==
  ASSUME NEW T, T \subseteq Nat, T # {}
  PROVE  \E x \in T : \A y \in T : x <= y
<1>1. PICK x \in T : \A y \in T : ~ (<<y, x>> \in OpToRel(<, Nat))
  BY NatLessThanWellFounded, WFMin
<1>2. \A y \in T : ~ (y < x)
  BY <1>1 DEF OpToRel
<1>3. QED BY <1>2

LEMMA AddedMap ==
  ASSUME NEW f, NEW key, NEW value
  PROVE  /\ DOMAIN Added(f, key, value) = DOMAIN f \cup {key}
         /\ Added(f, key, value)[key] = value
         /\ \A x \in DOMAIN f : x # key => Added(f, key, value)[x] = f[x]
BY DEF Added

LEMMA WithoutMap ==
  ASSUME NEW f, NEW keys
  PROVE  /\ DOMAIN Without(f, keys) = DOMAIN f \ keys
         /\ \A x \in DOMAIN f \ keys : Without(f, keys)[x] = f[x]
BY DEF Without, Restrict

-----------------------------------------------------------------------------
(* The adapters *)

\* Adapters that count: up, or about to be subtracted.
Busy == Up \cup finalizing

AclInv ==
  /\ initialized \in [Adapters -> BOOLEAN]
  /\ calling \in [DeviceUsers -> Adapters \cup {NoAdapter}]
  /\ acl \in BOOLEAN
  /\ finalizing \subseteq Adapters
  /\ Up \cap finalizing = {}
  /\ Busy # {} => acl
  /\ instance_count_ = Cardinality(Busy)
  /\ \A u \in DeviceUsers : calling[u] # NoAdapter /\ u \notin overtaken => calling[u] \in Up

LEMMA BusyFinite ==
  ASSUME AclInv
  PROVE  /\ IsFiniteSet(Busy) /\ Cardinality(Busy) \in Nat
         /\ instance_count_ = 0 <=> Busy = {}
<1>1. Busy \subseteq Adapters
  BY DEF AclInv, Busy, Up
<1>2. IsFiniteSet(Busy)
  BY <1>1, FS_Subset, AdapterAssumption
<1>3. QED BY <1>2, FS_CardinalityType, FS_EmptySet DEF AclInv

\* What matters of a step that changes neither the adapters nor the calls.
LEMMA SameAdapters ==
  ASSUME AclInv, UNCHANGED <<kind, initialized, finalizing, instance_count_, inCall>>,
         acl' \in BOOLEAN, acl => acl'
  PROVE  AclInv'
<1>1. Up' = Up /\ Busy' = Busy
  BY DEF Up, Busy
<1>2. QED BY <1>1 DEF AclInv, inCall

LEMMA InitAcl == AdapterInit => AclInv
<1> SUFFICES ASSUME AdapterInit PROVE AclInv
  OBVIOUS
<1>1. Up = {} /\ Busy = {}
  BY DEF AdapterInit, Up, Busy
<1>2. QED BY <1>1, FS_EmptySet DEF AdapterInit, AclInv

\* A call begins on an adapter that is up, or is marked as overtaken.
LEMMA CallStep ==
  ASSUME AclInv, NEW u \in DeviceUsers, NEW a \in Adapters,
         BeginDeviceCall(u, a) \/ FreeingCall(u, a) \/ EndDeviceCall(u)
  PROVE  AclInv'
<1>1. UNCHANGED <<acl, kind, initialized, finalizing, instance_count_>>
  BY DEF BeginDeviceCall, FreeingCall, EndDeviceCall, machine
<1>2. Up' = Up /\ Busy' = Busy
  BY <1>1 DEF Up, Busy
<1>3. calling' \in [DeviceUsers -> Adapters \cup {NoAdapter}]
  BY DEF AclInv, BeginDeviceCall, FreeingCall, EndDeviceCall
<1>4. ASSUME NEW v \in DeviceUsers, calling'[v] # NoAdapter, v \notin overtaken'
      PROVE  calling'[v] \in Up
  <2>1. CASE v # u
    <3>1. calling'[v] = calling[v] /\ v \notin overtaken
      BY <1>4, <2>1 DEF AclInv, BeginDeviceCall, FreeingCall, EndDeviceCall
    <3>2. QED BY <1>4, <3>1 DEF AclInv
  <2>2. CASE v = u
    <3>1. CASE BeginDeviceCall(u, a)
      BY <2>2, <3>1 DEF AclInv, BeginDeviceCall, Up
    <3>2. CASE FreeingCall(u, a)
      BY <1>4, <2>2, <3>2 DEF AclInv, FreeingCall, Up
    <3>3. CASE EndDeviceCall(u)
      BY <1>4, <2>2, <3>3 DEF AclInv, EndDeviceCall
    <3>4. QED BY <3>1, <3>2, <3>3
  <2>3. QED BY <2>1, <2>2
<1>5. QED BY <1>1, <1>2, <1>3, <1>4 DEF AclInv

LEMMA InitializeStep ==
  ASSUME AclInv, NEW a \in Adapters, InitializeAdapter(a)
  PROVE  AclInv'
<1>1. a \notin Busy /\ IsFiniteSet(Busy)
  BY BusyFinite DEF InitializeAdapter, CanInitialize, Busy, Up
<1>2. Up' = Up \cup {a}
  BY DEF InitializeAdapter, CanInitialize, machine, AclInv, Up
<1>3. Busy' = Busy \cup {a}
  BY <1>2 DEF InitializeAdapter, Busy
<1>4. Cardinality(Busy') = Cardinality(Busy) + 1
  BY <1>1, <1>3, FS_AddElement
<1>5. a \notin finalizing /\ a \notin Up
  BY <1>1 DEF Busy
<1>6. QED BY <1>2, <1>3, <1>4, <1>5 DEF InitializeAdapter, AclInv, inCall

\* The first half of finalize leaves the adapter counted and overtakes its calls.
LEMMA BeginFinalizeStep ==
  ASSUME AclInv, NEW a \in Adapters, BeginFinalize(a)
  PROVE  AclInv'
<1>1. a \in Up
  BY DEF BeginFinalize, Up
<1>2. Up' = Up \ {a}
  BY DEF BeginFinalize, machine, AclInv, Up
<1>3. Busy' = Busy
  BY <1>1, <1>2 DEF BeginFinalize, Busy
<1>4. ASSUME NEW u \in DeviceUsers, calling'[u] # NoAdapter, u \notin overtaken'
      PROVE  calling'[u] \in Up'
  BY <1>2, <1>4 DEF BeginFinalize, AclInv
<1>5. /\ initialized' \in [Adapters -> BOOLEAN]
      /\ UNCHANGED <<acl, instance_count_, calling>>
      /\ finalizing' = finalizing \cup {a}
  BY DEF BeginFinalize, AclInv
<1>6. QED BY <1>2, <1>3, <1>4, <1>5 DEF AclInv

\* The second half subtracts it; ACL stops only if no other adapter counts.
LEMMA EndFinalizeStep ==
  ASSUME AclInv, NEW a \in Adapters, EndFinalize(a)
  PROVE  AclInv'
<1>1. a \in finalizing /\ a \notin Up
  BY DEF EndFinalize, AclInv
<1>2. Up' = Up /\ Busy' = Busy \ {a}
  BY <1>1 DEF EndFinalize, machine, Up, Busy
<1>3. IsFiniteSet(Busy) /\ a \in Busy /\ Cardinality(Busy) \in Nat
  BY <1>1, BusyFinite DEF Busy
<1>4. IsFiniteSet(Busy') /\ Cardinality(Busy') = Cardinality(Busy) - 1
  BY <1>2, <1>3, FS_RemoveElement
<1>5. ASSUME Busy' # {} PROVE acl'
  <2>1. Cardinality(Busy') # 0
    BY <1>4, <1>5, FS_EmptySet
  <2>2. ~LastInstance
    BY <1>4, <2>1 DEF LastInstance, AclInv
  <2>3. acl
    BY <1>3 DEF AclInv
  <2>4. QED BY <2>2, <2>3 DEF EndFinalize
<1>6. acl' \in BOOLEAN
  BY DEF EndFinalize
<1>7. QED BY <1>2, <1>4, <1>5, <1>6 DEF EndFinalize, AclInv, inCall

LEMMA NextAcl == AclInv /\ [AdapterNext]_adapterVars => AclInv'
<1> SUFFICES ASSUME AclInv, [AdapterNext]_adapterVars PROVE AclInv'
  OBVIOUS
<1>1. ASSUME NEW a \in Adapters, InitializeFails(a) PROVE AclInv'
  <2>1. acl' \in BOOLEAN /\ (acl => acl')
    BY <1>1 DEF InitializeFails, AclAfterInit, AclInv
  <2>2. QED BY <1>1, <2>1, SameAdapters DEF InitializeFails, machine
<1>2. ASSUME NEW a \in Adapters, NEW up \in BOOLEAN, InitializeCPU(a, up) PROVE AclInv'
  <2>1. Up' = Up
    BY <1>2 DEF InitializeCPU, machine, AclInv, Up
  <2>2. Busy' = Busy
    BY <1>2, <2>1 DEF InitializeCPU, Busy
  <2>3. initialized' \in [Adapters -> BOOLEAN]
    BY <1>2 DEF InitializeCPU, AclInv
  <2>4. QED BY <1>2, <2>1, <2>2, <2>3 DEF InitializeCPU, AclInv, inCall
<1>3. ASSUME NEW a \in Adapters, NEW d, SetDevice(a, d) PROVE AclInv'
  BY <1>3, SameAdapters DEF SetDevice, machine, AclInv
<1>4. ASSUME EnsureAclInitialized PROVE AclInv'
  BY <1>4, SameAdapters DEF EnsureAclInitialized, machine
<1>5. ASSUME UNCHANGED adapterVars PROVE AclInv'
  BY <1>5, SameAdapters DEF adapterVars, machine, AclInv
<1>6. ASSUME NEW u \in DeviceUsers, EndDeviceCall(u) PROVE AclInv'
  <2>1. CASE Adapters = {}
    BY <1>6, <2>1 DEF AclInv, EndDeviceCall, Up, Busy, machine
  <2>2. CASE Adapters # {}
    BY <1>6, <2>2, CallStep
  <2>3. QED BY <2>1, <2>2
<1>7. QED
  BY <1>1, <1>2, <1>3, <1>4, <1>5, <1>6, InitializeStep, BeginFinalizeStep, EndFinalizeStep,
     CallStep DEF AdapterNext, SetDeviceAffinity, MemoryCall, QueueCall

\* While an adapter is up, or a call is in progress whose adapter was not finalized
\* meanwhile, ACL is up, and the count of adapters is exact, for any number of
\* adapters, threads and devices.
THEOREM AclStaysUp == AdapterSpec => []AclUpForAdapters
<1>1. AclInv => AclUpForAdapters
  BY DEF AclInv, AclUpForAdapters, Busy
<1>2. QED BY <1>1, InitAcl, NextAcl, PTL DEF AdapterSpec

-----------------------------------------------------------------------------
(* The configuration *)

WellTyped(config) ==
  DOMAIN config = Settings /\ \A name \in Settings : config[name] \in Values(name)

\* Saved files give the texts of values, other files and environments texts.
Readable(texts) ==
  /\ DOMAIN texts \subseteq SavedNames
  /\ \A name \in DOMAIN texts : texts[name] \in Texts(name) \cup Values(name)

SavedInv ==
  /\ WellTyped(settings) /\ WellTyped(savedFrom)
  /\ Readable(config_values_)
  /\ environment \in Environments
  /\ configCalls \in 0..MaxConfigCalls
  /\ saved = <<>> \/ saved = [name \in SavedNames |-> Printed(savedFrom[name])]

-----------------------------------------------------------------------------
(* Texts *)

\* What is reached is no malformed number.
LEMMA ReachedNotMalformed ==
  ASSUME NEW texts, NEW name,
         name \in Reached(texts, FileOrder) \/ name \in Reached(texts, EnvOrder)
  PROVE  ~Malformed(texts, name)
<1>1. CASE name \in Reached(texts, FileOrder)
  <2>1. PICK i \in DOMAIN FileOrder :
          FileOrder[i] = name /\ \A k \in 1..i : ~Malformed(texts, FileOrder[k])
    BY <1>1 DEF Reached
  <2>2. i \in 1..i
    BY <2>1 DEF FileOrder
  <2>3. QED BY <2>1, <2>2
<1>2. CASE name \in Reached(texts, EnvOrder)
  <2>1. PICK i \in DOMAIN EnvOrder :
          EnvOrder[i] = name /\ \A k \in 1..i : ~Malformed(texts, EnvOrder[k])
    BY <1>2 DEF Reached
  <2>2. i \in 1..i
    BY <2>1 DEF EnvOrder
  <2>3. QED BY <2>1, <2>2
<1>3. QED BY <1>1, <1>2

\* If no number is malformed everything is applied.
LEMMA AllReached ==
  ASSUME NEW texts, \A name \in SavedNames : ~Malformed(texts, name)
  PROVE  SavedNames \subseteq Reached(texts, FileOrder)
<1>1. \A i \in 1..4 : FileOrder[i] \in SavedNames
  BY DEF FileOrder, SavedNames, Settings, Numbers, Fractions, Flags, Paths, Unsaved
<1>2. DOMAIN FileOrder = 1..4 /\ \A i \in 1..4 : 1..i \subseteq 1..4
  BY DEF FileOrder
<1>3. \A i \in 1..4 : FileOrder[i] \in Reached(texts, FileOrder)
  BY <1>1, <1>2 DEF Reached
<1>4. \A name \in SavedNames : \E i \in 1..4 : FileOrder[i] = name
  BY DEF FileOrder, SavedNames, Settings, Numbers, Fractions, Flags, Paths, Unsaved
<1>5. QED BY <1>3, <1>4

\* A readable text that is not malformed becomes a value.
LEMMA TextToValue ==
  ASSUME NEW name \in SavedNames, NEW text \in Texts(name) \cup Values(name),
         name \in Numbers => text # Bad
  PROVE  FileValue(name, text) \in Values(name) /\ EnvValue(name, text) \in Values(name)
<1>1. CASE name \in Numbers
  BY <1>1 DEF Texts, Values, FileValue, EnvValue, Numbers, Fractions, Fraction, Third,
      SixDigits, Flags, Paths, Unsaved, Bad
<1>2. CASE name \in Flags
  BY <1>2 DEF Texts, Values, FileValue, EnvValue, Numbers, Fractions, Fraction, Third,
      SixDigits, Flags, Paths, Unsaved
<1>3. CASE name \in Paths
  BY <1>3 DEF Texts, Values, FileValue, EnvValue, Numbers, Fractions, Fraction, Third,
      SixDigits, Flags, Paths, Unsaved
<1>4. QED BY <1>1, <1>2, <1>3 DEF SavedNames, Settings

\* A value is read back from its text.
LEMMA ValueKept ==
  ASSUME NEW name \in SavedNames, NEW value \in Values(name)
  PROVE  /\ name \in Numbers => value # Bad
         /\ FileValue(name, value) = value
<1>1. CASE name \in Numbers
  BY <1>1 DEF Values, FileValue, Numbers, Fractions, Fraction, Third,
      SixDigits, Flags, Paths, Unsaved, Bad
<1>2. CASE name \in Flags
  BY <1>2 DEF Values, FileValue, Numbers, Fractions, Fraction, Third,
      SixDigits, Flags, Paths, Unsaved
<1>3. CASE name \in Paths
  BY <1>3 DEF FileValue, Numbers, Fractions, Flags, Paths
<1>4. QED BY <1>1, <1>2, <1>3 DEF SavedNames, Settings

\* Stripping keeps texts readable, and values values.
LEMMA StrippedReadable ==
  ASSUME NEW name \in SavedNames, NEW text
  PROVE  /\ text \in Texts(name) \cup Values(name) => Stripped(text) \in Texts(name) \cup Values(name)
         /\ text \in Values(name) => Stripped(text) \in Values(name)
<1>1. CASE name \in Numbers
  BY <1>1 DEF Texts, Values, Stripped, Numbers, Fractions, Fraction, Third,
      SixDigits, Flags, Paths, Unsaved, Bad, Blank
<1>2. CASE name \in Flags
  BY <1>2 DEF Texts, Values, Stripped, Numbers, Fractions, Fraction, Third,
      SixDigits, Flags, Paths, Unsaved, Blank
<1>3. CASE name \in Paths
  BY <1>3 DEF Texts, Values, Stripped, Numbers, Fractions, Fraction, Third,
      SixDigits, Flags, Paths, Unsaved, Blank
<1>4. QED BY <1>1, <1>2, <1>3 DEF SavedNames, Settings

\* So does printing.
LEMMA PrintedValue ==
  ASSUME NEW name \in SavedNames, NEW value \in Values(name)
  PROVE  Printed(value) \in Values(name)
<1>1. CASE name \in Numbers
  BY <1>1 DEF Values, Printed, Numbers, Fractions, Fraction, Third, SixDigits, Flags, Paths,
              Unsaved, Bad
<1>2. CASE name \in Flags
  BY <1>2 DEF Values, Printed, Numbers, Fractions, Third, Flags, Paths, Unsaved
<1>3. CASE name \in Paths
  BY <1>3 DEF Values, Printed, Numbers, Fractions, Third, Flags, Paths, Unsaved, Blank
<1>4. QED BY <1>1, <1>2, <1>3 DEF SavedNames, Settings

\* What was saved and loaded once loses nothing more.
LEMMA ReloadedOnce ==
  ASSUME NEW value
  PROVE  Reloaded(Reloaded(value)) = Reloaded(value)
BY DEF Reloaded, Stripped, Printed, Blank, Third, SixDigits

\* Reading a readable file leaves the table readable.
LEMMA RememberedReadable ==
  ASSUME NEW texts, Readable(texts), Readable(config_values_)
  PROVE  Readable(Remembered(texts))
  BY StrippedReadable DEF Readable, Remembered

\* Applying readable texts leaves the settings well typed.
LEMMA AppliedTyped ==
  ASSUME NEW config, WellTyped(config), NEW texts, Readable(texts)
  PROVE  WellTyped(AppliedToConfig(config, texts))
<1>1. ASSUME NEW name \in DOMAIN texts \cap Reached(texts, FileOrder)
      PROVE  FileValue(name, texts[name]) \in Values(name)
  <2>1. ~Malformed(texts, name)
    BY ReachedNotMalformed
  <2>2. QED BY <2>1, TextToValue DEF Readable, Malformed
<1>2. QED BY <1>1 DEF AppliedToConfig, WellTyped

-----------------------------------------------------------------------------
(* The invariant *)

LEMMA SavedReadable ==
  ASSUME SavedInv
  PROVE  Readable(saved)
<1>1. CASE saved = <<>>
  BY <1>1 DEF Readable
<1>2. CASE saved = [name \in SavedNames |-> Printed(savedFrom[name])]
  BY <1>2, PrintedValue DEF Readable, SavedInv, WellTyped, SavedNames
<1>3. QED BY <1>1, <1>2 DEF SavedInv

LEMMA InitSaved == ConfigInit => SavedInv
<1>1. WellTyped(getDefaultConfig)
  BY DEF WellTyped, getDefaultConfig, Settings, Values, Numbers, Fractions, Flags, Paths, Unsaved
<1>2. Readable(<<>>)
  BY DEF Readable
<1>3. QED BY <1>1, <1>2, ConfigAssumption DEF ConfigInit, SavedInv

LEMMA NextSaved == SavedInv /\ [ConfigNext]_configVars => SavedInv'
<1> SUFFICES ASSUME SavedInv, [ConfigNext]_configVars PROVE SavedInv'
  OBVIOUS
<1> USE DEF Called
<1>1. ASSUME Called PROVE configCalls' \in 0..MaxConfigCalls
  BY <1>1, ConfigAssumption DEF SavedInv
<1>2. ASSUME NEW texts \in Files \cup {saved}, loadFromFile(texts) PROVE SavedInv'
  <2>1. Readable(texts)
    BY SavedReadable, ConfigAssumption DEF Readable, SavedNames
  <2>2. Readable(Remembered(texts)) /\ WellTyped(AppliedToConfig(settings, Remembered(texts)))
    BY <2>1, RememberedReadable, AppliedTyped DEF SavedInv
  <2>3. QED BY <1>1, <1>2, <2>2 DEF loadFromFile, SavedInv
<1>3. ASSUME loadFromEnv PROVE SavedInv'
  <2>1. Readable(environment)
    BY ConfigAssumption DEF SavedInv, Readable, SavedNames
  <2>2. ASSUME NEW name \in DOMAIN environment \cap Reached(environment, EnvOrder)
        PROVE  EnvValue(name, environment[name]) \in Values(name)
    BY <2>1, ReachedNotMalformed, TextToValue DEF Readable, Malformed
  <2>3. WellTyped(settings')
    BY <1>3, <2>2 DEF loadFromEnv, SavedInv, WellTyped
  <2>4. QED BY <1>1, <1>3, <2>3 DEF loadFromEnv, SavedInv
<1>4. ASSUME NEW config \in Configs, setConfig(config) PROVE SavedInv'
  BY <1>1, <1>4, ConfigAssumption DEF setConfig, SavedInv, WellTyped
<1>5. ASSUME saveToFile PROVE SavedInv'
  BY <1>1, <1>5 DEF saveToFile, SavedInv, WellTyped
<1>6. ASSUME UNCHANGED configVars PROVE SavedInv'
  BY <1>6 DEF configVars, SavedInv
<1>7. QED BY <1>2, <1>3, <1>4, <1>5, <1>6 DEF ConfigNext

\* The invariant gives the property: none of the texts is malformed any more.
LEMMA SavedImpliesLoads == SavedInv => SavedConfigLoads
<1> SUFFICES ASSUME SavedInv, saved # <<>>, NEW name \in SavedNames
             PROVE  AppliedToConfig(settings, Remembered(saved))[name] = Reloaded(savedFrom[name])
  BY ReloadedOnce DEF SavedConfigLoads, SavedNames
<1> DEFINE table == Remembered(saved)
<1>1. saved = [n \in SavedNames |-> Printed(savedFrom[n])] /\ WellTyped(savedFrom)
  BY DEF SavedInv
<1>2. SavedNames \subseteq DOMAIN table /\ \A n \in SavedNames : table[n] = Reloaded(savedFrom[n])
  BY <1>1 DEF Remembered, Reloaded
<1>3. \A n \in SavedNames : Reloaded(savedFrom[n]) \in Values(n)
  BY <1>1, PrintedValue, StrippedReadable DEF WellTyped, SavedNames, Reloaded
<1>4. \A n \in SavedNames : ~Malformed(table, n)
  BY <1>2, <1>3, ValueKept DEF Malformed
<1>5. name \in DOMAIN table \cap Reached(table, FileOrder)
  BY <1>2, <1>4, AllReached
<1>6. FileValue(name, Reloaded(savedFrom[name])) = Reloaded(savedFrom[name])
  BY <1>3, ValueKept
<1>7. QED BY <1>2, <1>5, <1>6 DEF AppliedToConfig, SavedNames

\* A configuration that was saved loads into any manager, with the digits and blanks
\* that saving loses, for every set of files, environments and configurations and
\* any number of calls.
THEOREM SavedAlwaysLoads == ConfigSpec => []SavedConfigLoads
<1>1. ConfigInit => SavedInv
  BY InitSaved
<1>2. SavedInv /\ [ConfigNext]_configVars => SavedInv'
  BY NextSaved
<1>3. SavedInv => SavedConfigLoads
  BY SavedImpliesLoads
<1>4. QED BY <1>1, <1>2, <1>3, PTL DEF ConfigSpec

-----------------------------------------------------------------------------
(* The memory mapper: copies *)

BlocksIn(tier) == {b \in DOMAIN mappings_ : tier \in mappings_[b].valid}

LocationsInv ==
  /\ DOMAIN mappings_ \subseteq MappedBlocks
  /\ mappings_ \in [DOMAIN mappings_ -> [primary : MapTiers, valid : SUBSET MapTiers]]
  /\ tier_counts_ \in [MapTiers -> Nat] /\ recounts \in [MapTiers -> Nat]
  /\ \A t \in MapTiers : tier_counts_[t] = Cardinality(BlocksIn(t)) + recounts[t]

LEMMA CopiesFinite ==
  ASSUME LocationsInv, NEW t
  PROVE  IsFiniteSet(BlocksIn(t)) /\ Cardinality(BlocksIn(t)) \in Nat
<1>1. BlocksIn(t) \in SUBSET MappedBlocks /\ IsFiniteSet(MappedBlocks)
  BY MapperAssumption DEF LocationsInv, BlocksIn
<1>2. IsFiniteSet(BlocksIn(t))
  BY <1>1, FS_Subset
<1>3. QED BY <1>2, FS_CardinalityType

\* The count of a set in which one member may come or go.
LEMMA CountChanges ==
  ASSUME NEW S, IsFiniteSet(S), NEW T, NEW x
  PROVE  /\ T = S \cup {x} /\ x \notin S => Cardinality(T) = Cardinality(S) + 1
         /\ T = S \ {x} /\ x \in S => Cardinality(T) = Cardinality(S) - 1
<1>1. Cardinality(S \cup {x}) = IF x \in S THEN Cardinality(S) ELSE Cardinality(S) + 1
  BY FS_AddElement
<1>2. Cardinality(S \ {x}) = IF x \in S THEN Cardinality(S) - 1 ELSE Cardinality(S)
  BY FS_RemoveElement
<1>3. QED BY <1>1, <1>2

LEMMA RegisterStep ==
  ASSUME LocationsInv, NEW b \in MappedBlocks, NEW tier \in MapTiers, RegisterMapping(b, tier)
  PROVE  LocationsInv'
<1> DEFINE copies == CopiesOf(b)
           entry == [primary |-> tier, valid |-> copies \cup {tier}]
<1>1. copies \in SUBSET MapTiers
  BY DEF LocationsInv, CopiesOf
<1>2. entry \in [primary : MapTiers, valid : SUBSET MapTiers] /\ entry.valid = copies \cup {tier}
  BY <1>1
<1>3. /\ mappings_' = Added(mappings_, b, entry)
      /\ tier_counts_' = [tier_counts_ EXCEPT ![tier] = @ + 1]
      /\ recounts' = [recounts EXCEPT ![tier] = @ + (IF tier \in copies THEN 1 ELSE 0)]
  BY DEF RegisterMapping
<1> HIDE DEF entry
<1>4. /\ DOMAIN mappings_' = DOMAIN mappings_ \cup {b} /\ mappings_'[b] = entry
      /\ \A x \in DOMAIN mappings_ : x # b => mappings_'[x] = mappings_[x]
  <2> DEFINE added == Added(mappings_, b, entry)
  <2>1. /\ DOMAIN added = DOMAIN mappings_ \cup {b} /\ added[b] = entry
        /\ \A x \in DOMAIN mappings_ : x # b => added[x] = mappings_[x]
    BY Zenon DEF Added
  <2>2. mappings_' = added
    BY <1>3
  <2> HIDE DEF added
  <2>3. QED BY <2>1, <2>2
<1>5. DOMAIN mappings_' \subseteq MappedBlocks
  BY <1>4 DEF LocationsInv
<1>6. mappings_' \in [DOMAIN mappings_' -> [primary : MapTiers, valid : SUBSET MapTiers]]
  <2>1. \A x \in DOMAIN mappings_' : mappings_'[x] \in [primary : MapTiers, valid : SUBSET MapTiers]
    BY <1>2, <1>4 DEF LocationsInv
  <2>2. mappings_' = [x \in DOMAIN mappings_' |-> mappings_'[x]]
    BY <1>3 DEF Added
  <2>3. QED BY <2>1, <2>2
<1>7. \A x : x \in copies => b \in DOMAIN mappings_ /\ x \in mappings_[b].valid
  BY DEF CopiesOf
<1>8. \A x : b \in DOMAIN mappings_ /\ x \in mappings_[b].valid => x \in copies
  BY DEF CopiesOf
<1>9. ASSUME NEW t \in MapTiers
      PROVE  /\ t = tier => BlocksIn(t)' = BlocksIn(t) \cup {b}
             /\ t # tier => BlocksIn(t)' = BlocksIn(t)
             /\ b \in BlocksIn(t) <=> t \in copies
  <2>1. \A x : x \in BlocksIn(t)' <=> x \in DOMAIN mappings_' /\ t \in mappings_'[x].valid
    BY DEF BlocksIn
  <2>2. \A x : x \in BlocksIn(t) <=> x \in DOMAIN mappings_ /\ t \in mappings_[x].valid
    BY DEF BlocksIn
  <2>3. b \in BlocksIn(t) <=> t \in copies
    BY <1>7, <1>8, <2>2
  <2>4. \A x : x # b => (x \in BlocksIn(t)' <=> x \in BlocksIn(t))
    BY <1>4, <2>1, <2>2
  <2>5. b \in BlocksIn(t)' <=> t \in copies \/ t = tier
    BY <1>2, <1>4, <2>1
  <2>6. QED BY <2>3, <2>4, <2>5
<1>10. \A t \in MapTiers : tier_counts_'[t] = Cardinality(BlocksIn(t)') + recounts'[t]
  <2> SUFFICES ASSUME NEW t \in MapTiers
               PROVE  tier_counts_'[t] = Cardinality(BlocksIn(t)') + recounts'[t]
    OBVIOUS
  <2>1. tier_counts_[t] = Cardinality(BlocksIn(t)) + recounts[t] /\ recounts[t] \in Nat
    BY DEF LocationsInv
  <2>2. Cardinality(BlocksIn(t)') =
          Cardinality(BlocksIn(t)) + (IF t = tier /\ t \notin copies THEN 1 ELSE 0)
    <3>1. CASE t = tier /\ t \notin copies
      BY <1>9, <3>1, CopiesFinite, CountChanges
    <3>2. CASE ~(t = tier /\ t \notin copies)
      <4>1. BlocksIn(t)' = BlocksIn(t)
        BY <1>9, <3>2
      <4>2. QED BY <3>2, <4>1, CopiesFinite
    <3>3. QED BY <3>1, <3>2
  <2>3. /\ tier_counts_'[t] = tier_counts_[t] + (IF t = tier THEN 1 ELSE 0)
        /\ recounts'[t] = recounts[t] + (IF t = tier /\ t \in copies THEN 1 ELSE 0)
    BY <1>3 DEF LocationsInv
  <2>4. Cardinality(BlocksIn(t)) \in Nat
    BY CopiesFinite
  <2>5. QED BY <2>1, <2>2, <2>3, <2>4
<1>11. tier_counts_' \in [MapTiers -> Nat] /\ recounts' \in [MapTiers -> Nat]
  BY <1>3 DEF LocationsInv
<1>12. QED BY <1>5, <1>6, <1>10, <1>11 DEF LocationsInv

LEMMA UnregisterStep ==
  ASSUME LocationsInv, NEW b, UnregisterMapping(b)
  PROVE  LocationsInv'
<1>1. /\ b \in DOMAIN mappings_ /\ mappings_' = Without(mappings_, {b}) /\ recounts' = recounts
      /\ tier_counts_' = [t \in MapTiers |->
                            tier_counts_[t] - (IF t \in mappings_[b].valid THEN 1 ELSE 0)]
  BY DEF UnregisterMapping, LeavesTiers, CopiesOf
<1>2. /\ DOMAIN mappings_' = DOMAIN mappings_ \ {b}
      /\ \A x \in DOMAIN mappings_ \ {b} : mappings_'[x] = mappings_[x]
  BY <1>1, WithoutMap
<1>3. mappings_' \in [DOMAIN mappings_' -> [primary : MapTiers, valid : SUBSET MapTiers]]
  <2>1. mappings_' = [x \in DOMAIN mappings_' |-> mappings_'[x]]
    BY <1>1, <1>2 DEF Without, Restrict
  <2>2. QED BY <1>2, <2>1 DEF LocationsInv
<1>4. ASSUME NEW t \in MapTiers
      PROVE  /\ tier_counts_'[t] \in Nat
             /\ tier_counts_'[t] = Cardinality(BlocksIn(t)') + recounts'[t]
  <2>1. BlocksIn(t)' = BlocksIn(t) \ {b} /\ (b \in BlocksIn(t) <=> t \in mappings_[b].valid)
    BY <1>1, <1>2 DEF BlocksIn
  <2>2. tier_counts_[t] = Cardinality(BlocksIn(t)) + recounts[t] /\ recounts[t] \in Nat
    BY DEF LocationsInv
  <2>3. Cardinality(BlocksIn(t)') = Cardinality(BlocksIn(t)) - (IF b \in BlocksIn(t) THEN 1 ELSE 0)
    <3>1. CASE b \in BlocksIn(t)
      BY <2>1, <3>1, CopiesFinite, CountChanges
    <3>2. CASE b \notin BlocksIn(t)
      <4>1. BlocksIn(t)' = BlocksIn(t)
        BY <2>1, <3>2
      <4>2. QED BY <3>2, <4>1, CopiesFinite
    <3>3. QED BY <3>1, <3>2
  <2>4. Cardinality(BlocksIn(t)') \in Nat
    <3>1. IsFiniteSet(BlocksIn(t)')
      BY <2>1, CopiesFinite, FS_RemoveElement
    <3>2. QED BY <3>1, FS_CardinalityType
  <2>5. tier_counts_'[t] = tier_counts_[t] - (IF b \in BlocksIn(t) THEN 1 ELSE 0)
    BY <1>1, <2>1
  <2>6. recounts'[t] = recounts[t]
    BY <1>1
  <2>7. Cardinality(BlocksIn(t)) \in Nat
    BY CopiesFinite
  <2>8. QED BY <2>2, <2>3, <2>4, <2>5, <2>6, <2>7
<1>5. tier_counts_' \in [MapTiers -> Nat] /\ recounts' \in [MapTiers -> Nat]
  BY <1>1, <1>4 DEF LocationsInv
<1>6. QED BY <1>2, <1>3, <1>4, <1>5 DEF LocationsInv

LEMMA UpdateStep ==
  ASSUME LocationsInv, NEW b, NEW tier \in MapTiers,
         UpdateLocation(b, tier) \/ SetPrimaryTier(b, tier)
  PROVE  LocationsInv'
<1>1. b \in DOMAIN mappings_ /\ recounts' = recounts
  BY DEF UpdateLocation, SetPrimaryTier
<1>2. CASE UpdateLocation(b, tier)
  <2> DEFINE entry == [mappings_[b] EXCEPT !.valid = @ \cup {tier}]
  <2>1. /\ tier \notin mappings_[b].valid
        /\ mappings_' = [mappings_ EXCEPT ![b] = entry]
        /\ tier_counts_' = [tier_counts_ EXCEPT ![tier] = @ + 1]
    BY <1>1, <1>2 DEF UpdateLocation, CopiesOf
  <2>2. mappings_[b] \in [primary : MapTiers, valid : SUBSET MapTiers]
    BY <1>1 DEF LocationsInv
  <2>3. entry \in [primary : MapTiers, valid : SUBSET MapTiers]
        /\ entry.valid = mappings_[b].valid \cup {tier}
    BY <2>2
  <2> HIDE DEF entry
  <2>4. /\ DOMAIN mappings_' = DOMAIN mappings_ /\ mappings_'[b] = entry
        /\ \A x \in DOMAIN mappings_ : x # b => mappings_'[x] = mappings_[x]
    BY <1>1, <2>1
  <2>5. mappings_' \in [DOMAIN mappings_' -> [primary : MapTiers, valid : SUBSET MapTiers]]
    BY <2>1, <2>3 DEF LocationsInv
  <2>6. \A t \in MapTiers : BlocksIn(t)' = IF t = tier THEN BlocksIn(t) \cup {b} ELSE BlocksIn(t)
    <3>1. \A t \in MapTiers : \A x :
            x \in BlocksIn(t)' <=> x \in DOMAIN mappings_' /\ t \in mappings_'[x].valid
      BY DEF BlocksIn
    <3>2. \A t \in MapTiers : \A x :
            x \in BlocksIn(t) <=> x \in DOMAIN mappings_ /\ t \in mappings_[x].valid
      BY DEF BlocksIn
    <3>3. \A t \in MapTiers : \A x : x # b => (x \in BlocksIn(t)' <=> x \in BlocksIn(t))
      BY <2>4, <3>1, <3>2
    <3>4. \A t \in MapTiers : b \in BlocksIn(t)' <=> b \in BlocksIn(t) \/ t = tier
      BY <1>1, <2>3, <2>4, <3>1, <3>2
    <3>5. QED BY <3>3, <3>4
  <2>7. b \notin BlocksIn(tier)
    BY <2>1 DEF BlocksIn
  <2>8. \A t \in MapTiers : tier_counts_'[t] = Cardinality(BlocksIn(t)') + recounts'[t]
    <3> SUFFICES ASSUME NEW t \in MapTiers
                 PROVE  tier_counts_'[t] = Cardinality(BlocksIn(t)') + recounts'[t]
      OBVIOUS
    <3>1. Cardinality(BlocksIn(t)') = Cardinality(BlocksIn(t)) + (IF t = tier THEN 1 ELSE 0)
      <4>1. CASE t = tier
        BY <2>6, <2>7, <4>1, CopiesFinite, CountChanges
      <4>2. CASE t # tier
        BY <2>6, <4>2, CopiesFinite
      <4>3. QED BY <4>1, <4>2
    <3>2. tier_counts_[t] = Cardinality(BlocksIn(t)) + recounts[t] /\ recounts[t] \in Nat
      BY DEF LocationsInv
    <3>3. tier_counts_'[t] = tier_counts_[t] + (IF t = tier THEN 1 ELSE 0)
      BY <2>1 DEF LocationsInv
    <3>4. Cardinality(BlocksIn(t)) \in Nat
      BY CopiesFinite
    <3>5. QED BY <1>1, <3>1, <3>2, <3>3, <3>4
  <2>9. tier_counts_' \in [MapTiers -> Nat]
    BY <2>1 DEF LocationsInv
  <2>10. QED BY <1>1, <2>4, <2>5, <2>8, <2>9 DEF LocationsInv
<1>3. CASE SetPrimaryTier(b, tier)
  <2> DEFINE entry == [mappings_[b] EXCEPT !.primary = tier]
  <2>1. mappings_' = [mappings_ EXCEPT ![b] = entry] /\ tier_counts_' = tier_counts_
    BY <1>3 DEF SetPrimaryTier
  <2>2. mappings_[b] \in [primary : MapTiers, valid : SUBSET MapTiers]
    BY <1>1 DEF LocationsInv
  <2>3. entry \in [primary : MapTiers, valid : SUBSET MapTiers]
        /\ entry.valid = mappings_[b].valid
    BY <2>2
  <2> HIDE DEF entry
  <2>4. /\ DOMAIN mappings_' = DOMAIN mappings_
        /\ \A x \in DOMAIN mappings_ : mappings_'[x].valid = mappings_[x].valid
    BY <1>1, <2>1, <2>3
  <2>5. \A t \in MapTiers : BlocksIn(t)' = BlocksIn(t)
    BY <2>4 DEF BlocksIn
  <2>6. mappings_' \in [DOMAIN mappings_' -> [primary : MapTiers, valid : SUBSET MapTiers]]
    BY <2>1, <2>3 DEF LocationsInv
  <2>7. QED BY <1>1, <2>1, <2>4, <2>5, <2>6 DEF LocationsInv
<1>4. QED BY <1>2, <1>3

LEMMA NoBlocksInv ==
  ASSUME mappings_ = <<>>, tier_counts_ = NoCopies, recounts = NoCopies
  PROVE  LocationsInv
<1>1. DOMAIN mappings_ = {}
  OBVIOUS
<1>2. \A t \in MapTiers : BlocksIn(t) = {}
  BY <1>1 DEF BlocksIn
<1>3. mappings_ \in [DOMAIN mappings_ -> [primary : MapTiers, valid : SUBSET MapTiers]]
  BY <1>1
<1>4. \A t \in MapTiers : tier_counts_[t] = Cardinality(BlocksIn(t)) + recounts[t]
  BY <1>2, FS_EmptySet DEF NoCopies
<1>5. tier_counts_ \in [MapTiers -> Nat] /\ recounts \in [MapTiers -> Nat]
  BY DEF NoCopies
<1>6. QED BY <1>1, <1>3, <1>4, <1>5 DEF LocationsInv

LEMMA LocationsStep ==
  ASSUME LocationsInv, [MapperNext]_mapperVars
  PROVE  LocationsInv'
<1>1. CASE Wipe
  <2>1. (mappings_ = <<>> /\ tier_counts_ = NoCopies /\ recounts = NoCopies => LocationsInv)'
    BY NoBlocksInv, PTL
  <2>2. QED BY <1>1, <2>1 DEF Wipe, NoCopies
<1>2. ASSUME UNCHANGED <<mappings_, tier_counts_, recounts>> PROVE LocationsInv'
  <2>1. \A t : BlocksIn(t)' = BlocksIn(t)
    BY <1>2 DEF BlocksIn
  <2>2. QED BY <1>2, <2>1 DEF LocationsInv
<1>3. CASE \/ \E size \in RangeSizes : ReuseRange(size) \/ NewRange(size)
           \/ \E r \in handedOut : FreeRange(r)
           \/ UNCHANGED mapperVars
  BY <1>2, <1>3 DEF ReuseRange, NewRange, FreeRange, mapperVars, locations
<1>4. QED
  BY <1>1, <1>3, RegisterStep, UnregisterStep, UpdateStep DEF MapperNext

-----------------------------------------------------------------------------
(* The memory mapper: space of the SSD file *)

FreeRanges == Range(ssd_free_blocks_)

\* Ranges that share no byte and have all those below the end.
Partition(S, end) ==
  /\ \A r, s \in S : r # s => Bytes(r) \cap Bytes(s) = {}
  /\ \A x : x \in 0..(end - 1) <=> \E r \in S : x \in Bytes(r)

SpaceInv ==
  /\ ssd_free_blocks_ \in Seq(FileRange) /\ ssd_capacity_ \in Nat
  /\ Len(ssd_free_blocks_) <= ssd_capacity_
  /\ ssd_next_offset_ \in 0..FileSize /\ handedOut \subseteq FileRange /\ ruined \in BOOLEAN
  /\ IsInjective(ssd_free_blocks_) /\ FreeRanges \cap handedOut = {}
  /\ Partition(FreeRanges \cup handedOut, ssd_next_offset_)

LEMMA RangeBytes ==
  ASSUME NEW r \in FileRange
  PROVE  /\ r.offset \in Nat /\ r.size \in Nat /\ r.size > 0
         /\ \A x : x \in Bytes(r) <=> x \in Int /\ r.offset <= x /\ x < r.offset + r.size
         /\ r.offset \in Bytes(r)
<1>1. r.offset \in Nat /\ r.size \in Nat /\ r.size > 0
  BY MapperAssumption DEF FileRange
<1>2. QED BY <1>1 DEF Bytes

\* A range in a partition ends before its end.
LEMMA RangeEnds ==
  ASSUME NEW S, S \subseteq FileRange, NEW end \in Nat, Partition(S, end), NEW r \in S
  PROVE  r.offset + r.size <= end
<1>1. r.offset \in Nat /\ r.size \in Nat /\ r.size > 0
      /\ r.offset + r.size - 1 \in Bytes(r)
  BY RangeBytes
<1>2. r.offset + r.size - 1 \in 0..(end - 1)
  BY <1>1 DEF Partition
<1>3. QED BY <1>1, <1>2

\* A range is split in two.
LEMMA SplitKeeps ==
  ASSUME NEW S, S \subseteq FileRange, NEW end \in Nat, Partition(S, end), NEW r \in S,
         NEW first \in FileRange, NEW rest \in FileRange,
         first.offset = r.offset, rest.offset = r.offset + first.size,
         first.size + rest.size = r.size
  PROVE  /\ first \notin S /\ rest \notin S /\ first # rest
         /\ Partition((S \ {r}) \cup {first, rest}, end)
<1>1. /\ r \in FileRange
      /\ r.offset \in Nat /\ r.size \in Nat /\ first.size \in Nat /\ rest.size \in Nat
      /\ first.size > 0 /\ rest.size > 0
  BY RangeBytes
<1>2. \A x : x \in Bytes(r) <=> x \in Bytes(first) \/ x \in Bytes(rest)
  BY <1>1, RangeBytes
<1>3. Bytes(first) \cap Bytes(rest) = {}
  BY <1>1, RangeBytes
<1>4. ASSUME NEW part \in {first, rest} PROVE part \notin S
  <2>1. part.size # r.size
    BY <1>1
  <2>2. part.offset \in Bytes(part) /\ part.offset \in Bytes(r)
    BY <1>2, RangeBytes
  <2>3. QED BY <2>1, <2>2 DEF Partition
<1>5. first # rest
  BY <1>1
<1>6. \A s \in S : s # r => Bytes(s) \cap Bytes(first) = {} /\ Bytes(s) \cap Bytes(rest) = {}
  BY <1>2 DEF Partition
<1>7. \A s, t \in (S \ {r}) \cup {first, rest} : s # t => Bytes(s) \cap Bytes(t) = {}
  BY <1>3, <1>6 DEF Partition
<1>8. ASSUME NEW x
      PROVE  x \in 0..(end - 1) <=> \E s \in (S \ {r}) \cup {first, rest} : x \in Bytes(s)
  <2>1. x \in 0..(end - 1) <=> \E s \in S : x \in Bytes(s)
    BY DEF Partition
  <2>2. (\E s \in S : x \in Bytes(s))
        <=> x \in Bytes(r) \/ \E s \in S \ {r} : x \in Bytes(s)
    OBVIOUS
  <2>3. QED BY <1>2, <2>1, <2>2
<1>9. QED BY <1>4, <1>5, <1>7, <1>8 DEF Partition

\* A range is added at the end.
LEMMA ExtendKeeps ==
  ASSUME NEW S, S \subseteq FileRange, NEW end \in Nat, Partition(S, end),
         NEW new \in FileRange, new.offset = end
  PROVE  new \notin S /\ Partition(S \cup {new}, end + new.size)
<1>1. /\ new.size \in Nat /\ new.size > 0 /\ end \in Bytes(new)
      /\ \A x : x \in Bytes(new) <=> x \in Int /\ end <= x /\ x < end + new.size
  BY RangeBytes
<1>2. \A s \in S : \A x \in Bytes(s) : x \in 0..(end - 1)
  BY DEF Partition
<1>3. new \notin S
  BY <1>1, <1>2
<1>4. \A s \in S : Bytes(s) \cap Bytes(new) = {}
  BY <1>1, <1>2
<1>5. \A s, t \in S \cup {new} : s # t => Bytes(s) \cap Bytes(t) = {}
  BY <1>4 DEF Partition
<1>6. \A n : n = end + new.size =>
        \A x : x \in 0..(n - 1) <=> x \in 0..(end - 1) \/ x \in Bytes(new)
  BY <1>1
<1>7. \A x : x \in 0..(end - 1) <=> \E s \in S : x \in Bytes(s)
  BY DEF Partition
<1>8. \A n : n = end + new.size => Partition(S \cup {new}, n)
  <2> SUFFICES ASSUME NEW n, n = end + new.size
               PROVE  Partition(S \cup {new}, n)
    OBVIOUS
  <2>1. \A x : x \in 0..(n - 1) <=> x \in 0..(end - 1) \/ x \in Bytes(new)
    BY <1>6
  <2>2. \A x : x \in 0..(n - 1) <=> \E s \in S \cup {new} : x \in Bytes(s)
    BY <2>1, <1>7, Zenon
  <2>3. QED BY <1>5, <2>2, Zenon DEF Partition
<1>9. QED BY <1>3, <1>8

LEMMA SpaceTypes ==
  ASSUME SpaceInv
  PROVE  /\ FreeRanges \subseteq FileRange /\ FreeRanges \cup handedOut \subseteq FileRange
         /\ Len(ssd_free_blocks_) \in Nat
         /\ DOMAIN ssd_free_blocks_ = 1..Len(ssd_free_blocks_)
         /\ ssd_next_offset_ \in Nat /\ FileSize \in Nat
BY MapperAssumption, LenProperties, RangeOfSeq DEF SpaceInv, FreeRanges

LEMMA FreeStep ==
  ASSUME SpaceInv, NEW r \in handedOut, FreeRange(r)
  PROVE  SpaceInv'
<1>1. /\ handedOut' = handedOut \ {r} /\ ssd_free_blocks_' = Append(ssd_free_blocks_, r)
      /\ ssd_capacity_' = Grown /\ UNCHANGED <<ssd_next_offset_, ruined>>
  BY DEF FreeRange
<1>2. r \in FileRange /\ r \notin FreeRanges
  BY DEF SpaceInv
<1>3. /\ ssd_free_blocks_' \in Seq(FileRange)
      /\ Len(ssd_free_blocks_') = Len(ssd_free_blocks_) + 1
      /\ FreeRanges' = FreeRanges \cup {r}
      /\ IsInjective(ssd_free_blocks_')
  BY <1>1, <1>2, AppendRange DEF SpaceInv, FreeRanges
<1>4. ssd_capacity_' \in Nat /\ Len(ssd_free_blocks_') <= ssd_capacity_'
  BY <1>1, <1>3, SpaceTypes DEF SpaceInv, Grown, Greater
<1>5. FreeRanges' \cap handedOut' = {} /\ FreeRanges' \cup handedOut' = FreeRanges \cup handedOut
  BY <1>1, <1>3 DEF SpaceInv
<1>6. Partition(FreeRanges' \cup handedOut', ssd_next_offset_')
  BY <1>1, <1>5 DEF SpaceInv
<1>7. handedOut' \subseteq FileRange
  BY <1>1 DEF SpaceInv
<1>8. QED BY <1>1, <1>3, <1>4, <1>5, <1>6, <1>7 DEF SpaceInv, Partition

LEMMA NewStep ==
  ASSUME SpaceInv, NEW size \in RangeSizes, NewRange(size)
  PROVE  SpaceInv'
<1> DEFINE new == [offset |-> ssd_next_offset_, size |-> size]
<1>1. /\ ssd_next_offset_ + size <= FileSize
      /\ handedOut' = handedOut \cup {new} /\ ssd_next_offset_' = ssd_next_offset_ + size
      /\ UNCHANGED <<ssd_free_blocks_, ssd_capacity_, ruined>>
  BY DEF NewRange
<1>2. size \in Nat /\ size > 0
  BY MapperAssumption
<1>3. new \in FileRange /\ new.offset = ssd_next_offset_ /\ new.size = size
  BY <1>1, <1>2, SpaceTypes DEF FileRange
<1> HIDE DEF new
<1>4. /\ new \notin FreeRanges \cup handedOut
      /\ Partition((FreeRanges \cup handedOut) \cup {new}, ssd_next_offset_ + size)
  <2>1. Partition(FreeRanges \cup handedOut, ssd_next_offset_)
    BY DEF SpaceInv
  <2>2. QED BY <1>3, <2>1, SpaceTypes, ExtendKeeps
<1>5. FreeRanges' = FreeRanges
  BY <1>1 DEF FreeRanges
<1>6. FreeRanges' \cup handedOut' = (FreeRanges \cup handedOut) \cup {new}
  BY <1>1, <1>5
<1>7. Partition(FreeRanges' \cup handedOut', ssd_next_offset_')
  BY <1>1, <1>4, <1>6
<1>8. FreeRanges' \cap handedOut' = {} /\ handedOut' \subseteq FileRange
  BY <1>1, <1>3, <1>4, <1>5 DEF SpaceInv
<1>9. ssd_next_offset_' \in 0..FileSize
  BY <1>1, <1>2, SpaceTypes
<1>10. QED BY <1>1, <1>7, <1>8, <1>9 DEF SpaceInv, Partition

LEMMA FitFound ==
  ASSUME SpaceInv, NEW size, Fits(size) # {}
  PROVE  /\ FirstFit(size) \in DOMAIN ssd_free_blocks_
         /\ ssd_free_blocks_[FirstFit(size)].size >= size
<1>1. Fits(size) \subseteq Nat
  BY SpaceTypes DEF Fits
<1>2. \E i \in Fits(size) : \A j \in Fits(size) : i <= j
  BY <1>1, LeastMember
<1>3. FirstFit(size) \in Fits(size)
  BY <1>2 DEF FirstFit
<1>4. QED BY <1>3 DEF Fits

LEMMA ReuseStep ==
  ASSUME SpaceInv, NEW size \in RangeSizes, ReuseRange(size)
  PROVE  SpaceInv'
<1>1. PICK i, r : i = FirstFit(size) /\ r = ssd_free_blocks_[i]
  OBVIOUS
<1>2. /\ i \in DOMAIN ssd_free_blocks_ /\ r.size >= size /\ i \in 1..Len(ssd_free_blocks_)
      /\ r \in FreeRanges /\ r \in FileRange /\ r \in FreeRanges \cup handedOut
      /\ ssd_free_blocks_ \in Seq(FileRange)
  <2>1. i \in DOMAIN ssd_free_blocks_ /\ r.size >= size
    BY <1>1, FitFound DEF ReuseRange
  <2>2. r \in FreeRanges
    BY <1>1, <2>1 DEF FreeRanges, Range
  <2>3. QED BY <2>1, <2>2, SpaceTypes DEF SpaceInv
<1>3. /\ size \in Nat /\ size > 0 /\ r.size \in Nat /\ r.offset \in Nat
      /\ r.offset + r.size <= ssd_next_offset_ /\ ssd_next_offset_ <= FileSize
  <2>1. r.offset + r.size <= ssd_next_offset_
    BY <1>2, SpaceTypes, RangeEnds DEF SpaceInv
  <2>2. QED BY <1>2, <2>1, MapperAssumption, RangeBytes DEF SpaceInv
<1>4. UNCHANGED ssd_next_offset_
  BY DEF ReuseRange
<1>5. CASE r.size > size /\ Grown # ssd_capacity_
  <2>1. ruined' = TRUE /\ UNCHANGED <<ssd_free_blocks_, ssd_capacity_, handedOut>>
    BY <1>1, <1>5 DEF ReuseRange
  <2>2. QED BY <1>4, <2>1 DEF SpaceInv, Partition, FreeRanges
<1>6. CASE r.size > size /\ Grown = ssd_capacity_
  <2> DEFINE first == [offset |-> r.offset, size |-> size]
             rest == RestOf(r, size)
             longer == Append(ssd_free_blocks_, rest)
  <2>1. /\ ssd_free_blocks_' = RemoveAt(longer, i) /\ handedOut' = handedOut \cup {first}
        /\ UNCHANGED <<ssd_capacity_, ruined>>
    BY <1>1, <1>6 DEF ReuseRange
  <2>2. /\ first \in FileRange /\ rest \in FileRange /\ first.offset = r.offset
        /\ rest.offset = r.offset + first.size /\ first.size + rest.size = r.size
    <3>1. first \in FileRange /\ first.offset = r.offset /\ first.size = size
      <4>1. r.offset \in 0..FileSize /\ size \in 1..FileSize
        BY <1>3, <1>6, SpaceTypes
      <4>2. QED BY <4>1 DEF FileRange
    <3>2. /\ rest \in FileRange /\ rest.offset = r.offset + size
          /\ rest.size = r.size - size
      <4>1. r.offset + size \in 0..FileSize /\ r.size - size \in 1..FileSize
        BY <1>3, <1>6, SpaceTypes
      <4>2. QED BY <4>1 DEF FileRange, RestOf
    <3>3. QED BY <1>3, <3>1, <3>2
  <2>3. Len(ssd_free_blocks_) < ssd_capacity_
    BY <1>6, SpaceTypes DEF SpaceInv, Grown, Greater
  <2> HIDE DEF first, rest
  <2>4. /\ first \notin FreeRanges \cup handedOut /\ rest \notin FreeRanges \cup handedOut
        /\ first # rest
        /\ Partition(((FreeRanges \cup handedOut) \ {r}) \cup {first, rest}, ssd_next_offset_)
    <3>1. Partition(FreeRanges \cup handedOut, ssd_next_offset_)
      BY DEF SpaceInv
    <3>2. QED BY <1>2, <2>2, <3>1, SpaceTypes, SplitKeeps
  <2>5. /\ longer \in Seq(FileRange) /\ Len(longer) = Len(ssd_free_blocks_) + 1
        /\ Range(longer) = FreeRanges \cup {rest} /\ IsInjective(longer)
    BY <1>2, <2>2, <2>4, AppendRange DEF SpaceInv, FreeRanges
  <2>6. i \in DOMAIN longer /\ longer[i] = r
    <3>1. DOMAIN longer = 1..(Len(ssd_free_blocks_) + 1)
      BY <2>5, LenProperties
    <3>2. \A j \in 1..Len(ssd_free_blocks_) : longer[j] = ssd_free_blocks_[j]
      BY <1>2, <2>2, AppendProperties
    <3>3. QED BY <1>1, <1>2, <3>1, <3>2, SpaceTypes
  <2> HIDE DEF longer
  <2>7. /\ ssd_free_blocks_' \in Seq(FileRange)
        /\ Len(ssd_free_blocks_') = Len(ssd_free_blocks_)
        /\ IsInjective(ssd_free_blocks_')
        /\ FreeRanges' = (FreeRanges \cup {rest}) \ {r}
    <3>1. /\ RemoveAt(longer, i) \in Seq(FileRange)
          /\ Len(RemoveAt(longer, i)) = Len(longer) - 1
          /\ IsInjective(RemoveAt(longer, i))
          /\ Range(RemoveAt(longer, i)) = Range(longer) \ {r}
      BY <2>5, <2>6, RemoveAtRange
    <3>2. QED BY <2>1, <2>5, <3>1, SpaceTypes DEF FreeRanges
  <2>8. r \notin handedOut /\ first # r /\ rest # r
    BY <1>2, <2>4 DEF SpaceInv
  <2>9. FreeRanges' \cup handedOut' = ((FreeRanges \cup handedOut) \ {r}) \cup {first, rest}
    BY <2>1, <2>7, <2>8
  <2>10. FreeRanges' \cap handedOut' = {}
    BY <2>1, <2>4, <2>7 DEF SpaceInv
  <2>11. Partition(FreeRanges' \cup handedOut', ssd_next_offset_')
    BY <1>4, <2>4, <2>9
  <2>12. handedOut' \subseteq FileRange
    BY <2>1, <2>2 DEF SpaceInv
  <2>13. QED BY <1>4, <2>1, <2>7, <2>10, <2>11, <2>12 DEF SpaceInv, Partition
<1>7. CASE ~(r.size > size)
  <2>1. /\ ssd_free_blocks_' = RemoveAt(ssd_free_blocks_, i)
        /\ handedOut' = handedOut \cup {[offset |-> r.offset, size |-> size]}
        /\ UNCHANGED <<ssd_capacity_, ruined>>
    BY <1>1, <1>7 DEF ReuseRange
  <2>2. [offset |-> r.offset, size |-> size] = r
    <3>1. r.size = size
      BY <1>2, <1>3, <1>7
    <3>2. QED BY <1>2, <3>1 DEF FileRange
  <2>3. /\ ssd_free_blocks_' \in Seq(FileRange)
        /\ Len(ssd_free_blocks_') = Len(ssd_free_blocks_) - 1
        /\ IsInjective(ssd_free_blocks_') /\ FreeRanges' = FreeRanges \ {r}
    BY <1>1, <1>2, <2>1, RemoveAtRange DEF SpaceInv, FreeRanges
  <2>4. FreeRanges' \cup handedOut' = FreeRanges \cup handedOut /\ FreeRanges' \cap handedOut' = {}
    BY <1>2, <2>1, <2>2, <2>3 DEF SpaceInv
  <2>5. Partition(FreeRanges' \cup handedOut', ssd_next_offset_')
    BY <1>4, <2>4 DEF SpaceInv
  <2>6. Len(ssd_free_blocks_') <= ssd_capacity_'
    BY <2>1, <2>3, SpaceTypes DEF SpaceInv
  <2>7. handedOut' \subseteq FileRange
    BY <1>2, <2>1, <2>2 DEF SpaceInv
  <2>8. QED BY <1>4, <2>1, <2>3, <2>4, <2>5, <2>6, <2>7 DEF SpaceInv, Partition
<1>8. QED BY <1>5, <1>6, <1>7

LEMMA NoSpaceInv ==
  ASSUME ssd_free_blocks_ = <<>>, ssd_next_offset_ = 0, handedOut = {},
         ssd_capacity_ \in Nat, ruined \in BOOLEAN
  PROVE  SpaceInv
<1>1. FreeRanges = {} /\ IsInjective(ssd_free_blocks_) /\ Len(ssd_free_blocks_) = 0
      /\ ssd_free_blocks_ \in Seq(FileRange)
  BY EmptySeq DEF FreeRanges, Range, IsInjective
<1>2. Partition(FreeRanges \cup handedOut, ssd_next_offset_)
  BY <1>1 DEF Partition
<1>3. QED BY <1>1, <1>2, MapperAssumption DEF SpaceInv

LEMMA SpaceStep ==
  ASSUME SpaceInv, [MapperNext]_mapperVars
  PROVE  SpaceInv'
<1>1. CASE Wipe
  <2>1. (ssd_free_blocks_ = <<>> /\ ssd_next_offset_ = 0 /\ handedOut = {}
           /\ ssd_capacity_ \in Nat /\ ruined \in BOOLEAN => SpaceInv)'
    BY NoSpaceInv, PTL
  <2>2. QED BY <1>1, <2>1 DEF Wipe, SpaceInv
<1>2. CASE UNCHANGED space
  BY <1>2 DEF space, SpaceInv, Partition, FreeRanges
<1>3. CASE \/ \E b \in MappedBlocks :
                \/ UnregisterMapping(b)
                \/ \E t \in MapTiers :
                     RegisterMapping(b, t) \/ UpdateLocation(b, t) \/ SetPrimaryTier(b, t)
           \/ UNCHANGED mapperVars
  BY <1>2, <1>3 DEF RegisterMapping, UnregisterMapping, UpdateLocation, SetPrimaryTier,
                    mapperVars
<1>4. QED BY <1>1, <1>3, FreeStep, NewStep, ReuseStep DEF MapperNext

LEMMA MapperStart == MapperInit => LocationsInv /\ SpaceInv
<1> SUFFICES ASSUME MapperInit PROVE LocationsInv /\ SpaceInv
  OBVIOUS
<1>1. LocationsInv
  BY NoBlocksInv DEF MapperInit
<1>2. SpaceInv
  <2>1. ssd_capacity_ \in Nat /\ ruined \in BOOLEAN
    BY DEF MapperInit
  <2>2. QED BY <2>1, NoSpaceInv DEF MapperInit
<1>3. QED BY <1>1, <1>2

LEMMA MapperInvHolds == MapperSpec => [](LocationsInv /\ SpaceInv)
<1>1. LocationsInv /\ SpaceInv /\ [MapperNext]_mapperVars => (LocationsInv /\ SpaceInv)'
  BY LocationsStep, SpaceStep
<1>2. QED BY <1>1, MapperStart, PTL DEF MapperSpec

\* Each tier counts its copies exactly, but for copies registered again.
THEOREM CopiesCounted == MapperSpec => []TierCountsExact
<1>1. LocationsInv => TierCountsExact
  BY DEF LocationsInv, TierCountsExact, BlocksIn
<1>2. QED BY <1>1, MapperInvHolds, PTL

\* No byte of the SSD file is handed out twice, or handed out and free, and none
\* is lost, for any sizes and calls up to the first split whose rest does not fit
\* the capacity of the vector: what that does is undefined, and nothing is said of
\* the behaviour from there on.
THEOREM SpaceIsPartitioned == MapperSpec => []SpaceDisjoint
<1>1. SpaceInv => SpaceDisjoint
  <2> SUFFICES ASSUME SpaceInv PROVE SpaceDisjoint
    OBVIOUS
  <2>1. FreeRanges = {ssd_free_blocks_[i] : i \in DOMAIN ssd_free_blocks_}
    BY DEF FreeRanges, Range
  <2>2. UNION {Bytes(r) : r \in FreeRanges \cup handedOut} = 0..(ssd_next_offset_ - 1)
    BY DEF SpaceInv, Partition
  <2>3. QED BY <2>1, <2>2 DEF SpaceInv, Partition, SpaceDisjoint
<1>2. QED BY <1>1, MapperInvHolds, PTL

LEMMA MapperTypes == LocationsInv /\ SpaceInv => MapperTypeOK
BY DEF LocationsInv, SpaceInv, MapperTypeOK

-----------------------------------------------------------------------------
(* The transfer scheduler *)

SchedulerInv == SchedulerTypeOK /\ next_request_id_ \in Nat \ {0} /\ StreamsConserved

\* What is lent, of a table of what each user holds.
Held(table) == UNION Range(table)

Apart(U, table) == \A v, w \in U : v # w => table[v] \cap table[w] = {}

\* After an item was taken, or given back.
Taken(U, before, after, s) == Apart(U, after) /\ Held(after) = Held(before) \cup {s}
GivenBack(U, before, after, s) ==
  Apart(U, after) /\ s \in Held(before) /\ Held(after) = Held(before) \ {s}

\* One user takes an item that nobody has.
LEMMA HeldMore ==
  ASSUME NEW U, NEW S, NEW table \in [U -> SUBSET S], NEW u \in U, NEW s \in S,
         Apart(U, table),
         s \notin Held(table), NEW more, more = [table EXCEPT ![u] = @ \cup {s}]
  PROVE  Taken(U, table, more, s)
<1>1. \A x : x \in Held(table) <=> \E v \in U : x \in table[v]
  BY DEF Held, Range
<1>2. /\ DOMAIN more = U
      /\ \A v \in U : more[v] = IF v = u THEN table[u] \cup {s} ELSE table[v]
  OBVIOUS
<1>3. \A x : x \in Held(more) <=> \E v \in U : x \in more[v]
  BY <1>2 DEF Held, Range
<1>4. \A x : x \in Held(more) <=> x \in Held(table) \/ x = s
  BY <1>1, <1>2, <1>3
<1>5. \A v \in U : s \notin table[v]
  BY <1>1
<1>6. ASSUME NEW v \in U, NEW w \in U, v # w
      PROVE  more[v] \cap more[w] = {}
  <2>1. table[v] \cap table[w] = {}
    BY <1>6 DEF Apart
  <2>2. QED BY <1>2, <1>5, <1>6, <2>1
<1>7. QED BY <1>4, <1>6 DEF Apart, Taken

\* It gives back one that it has.
LEMMA HeldLess ==
  ASSUME NEW U, NEW S, NEW table \in [U -> SUBSET S], NEW u \in U, NEW s \in S,
         Apart(U, table),
         s \in table[u], NEW less, less = [table EXCEPT ![u] = @ \ {s}]
  PROVE  GivenBack(U, table, less, s)
<1>1. \A x : x \in Held(table) <=> \E v \in U : x \in table[v]
  BY DEF Held, Range
<1>2. /\ DOMAIN less = U
      /\ \A v \in U : less[v] = IF v = u THEN table[u] \ {s} ELSE table[v]
  OBVIOUS
<1>3. \A x : x \in Held(less) <=> \E v \in U : x \in less[v]
  BY <1>2 DEF Held, Range
<1>4. \A v \in U : v # u => s \notin table[v]
  BY DEF Apart
<1>5. \A x : x \in Held(less) <=> x \in Held(table) /\ x # s
  <2>1. ASSUME NEW x \in Held(less) PROVE x \in Held(table) /\ x # s
    <3>1. PICK v \in U : x \in less[v]
      BY <1>3
    <3>2. x \in table[v] /\ x # s
      BY <1>2, <1>4, <3>1
    <3>3. QED BY <1>1, <3>2
  <2>2. ASSUME NEW x \in Held(table), x # s PROVE x \in Held(less)
    <3>1. PICK v \in U : x \in table[v]
      BY <1>1
    <3>2. x \in less[v]
      BY <1>2, <2>2, <3>1
    <3>3. QED BY <1>3, <3>2
  <2>3. QED BY <2>1, <2>2
<1>6. ASSUME NEW v \in U, NEW w \in U, v # w
      PROVE  less[v] \cap less[w] = {}
  <2>1. table[v] \cap table[w] = {}
    BY <1>6 DEF Apart
  <2>2. QED BY <1>2, <2>1
<1>7. s \in Held(table) /\ Held(less) = Held(table) \ {s}
  BY <1>1, <1>5
<1>8. QED BY <1>6, <1>7 DEF Apart, GivenBack

LEMMA SchedulerStart == SchedulerInit => SchedulerInv
<1> SUFFICES ASSUME SchedulerInit PROVE SchedulerInv
  OBVIOUS
<1>1. SchedulerTypeOK /\ next_request_id_ \in Nat \ {0}
  <2>1. requests_ \subseteq 1..(next_request_id_ - 1) /\ available_streams_ \in Seq(TransferStreams)
    BY EmptySeq DEF SchedulerInit
  <2>2. inUse \in [SchedulerUsers -> SUBSET TransferStreams]
    BY DEF SchedulerInit
  <2>3. /\ bandwidth_stats_ \subseteq {"HOT", "WARM", "COLD"} \X {"HOT", "WARM", "COLD"}
        /\ stream_pool_ \subseteq TransferStreams /\ locked_ \subseteq SchedulerUsers
    BY DEF SchedulerInit
  <2>4. replaced \in BOOLEAN
    BY DEF SchedulerInit
  <2>5. next_request_id_ \in Nat \ {0}
    BY DEF SchedulerInit
  <2>6. QED BY <2>1, <2>2, <2>3, <2>4, <2>5 DEF SchedulerTypeOK
<1>2. InUse = {}
  BY DEF SchedulerInit, InUse, Range
<1>3. StreamsConserved
  BY <1>2 DEF SchedulerInit, StreamsConserved, IsInjective, Range
<1>4. QED BY <1>1, <1>3 DEF SchedulerInv

\* What the queue of a new pool is.
LEMMA QueueOfPool ==
  ASSUME NEW S, IsFiniteSet(S)
  PROVE  LET q == CHOOSE q \in [1..Cardinality(S) -> S] : Range(q) = S
         IN  q \in Seq(S) /\ Range(q) = S /\ IsInjective(q)
<1> DEFINE n == Cardinality(S)
           q == CHOOSE q \in [1..n -> S] : Range(q) = S
<1>1. n \in Nat /\ ExistsBijection(1..n, S)
  BY FS_CardinalityType
<1>2. PICK f : f \in Bijection(1..n, S)
  BY <1>1 DEF ExistsBijection
<1>3. f \in [1..n -> S] /\ Range(f) = S
  <2>1. f \in [1..n -> S] /\ \A t \in S : \E i \in 1..n : f[i] = t
    BY <1>2 DEF Bijection, Surjection
  <2>2. QED BY <2>1 DEF Range
<1> HIDE DEF n
<1>4. q \in [1..n -> S] /\ Range(q) = S
  BY <1>3
<1> HIDE DEF q
<1>5. q \in Surjection(1..n, S)
  BY <1>4 DEF Surjection, Range
<1>6. IsFiniteSet(1..n) /\ Cardinality(1..n) = n
  BY <1>1, FS_Interval
<1>7. q \in Injection(1..n, S)
  BY <1>5, <1>6, FS_Surjection DEF n
<1>8. IsInjective(q)
  BY <1>4, <1>7 DEF Injection, IsInjective
<1>9. q \in Seq(S)
  BY <1>1, <1>4, SeqDef
<1>10. QED BY <1>4, <1>8, <1>9 DEF q, n

LEMMA SetPoolStep ==
  ASSUME SchedulerInv, NEW S \in StreamSets, SetStreamPool(S)
  PROVE  SchedulerInv'
<1>1. S \subseteq TransferStreams /\ IsFiniteSet(S)
  BY SchedulerAssumption, FS_Subset
<1>2. /\ available_streams_' \in Seq(S) /\ Range(available_streams_') = S
      /\ IsInjective(available_streams_')
  BY <1>1, QueueOfPool DEF SetStreamPool
<1>3. SchedulerTypeOK' /\ (next_request_id_ \in Nat \ {0})'
  <2>1. available_streams_' \in Seq(TransferStreams)
    BY <1>1, <1>2, SeqDef
  <2>2. replaced' \in BOOLEAN
    BY DEF SetStreamPool
  <2>3. QED BY <1>1, <2>1, <2>2 DEF SchedulerInv, SchedulerTypeOK, SetStreamPool
<1>4. /\ replaced' = (replaced \/ InUse # {}) /\ InUse' = InUse /\ stream_pool_' = S
      /\ inUse' = inUse
  BY DEF SetStreamPool, InUse
<1>5. StreamsConserved'
  <2> SUFFICES ASSUME ~replaced'
               PROVE  /\ Range(available_streams_') = S \ InUse /\ InUse \subseteq S
                      /\ \A u, v \in SchedulerUsers : u # v => inUse[u] \cap inUse[v] = {}
    BY <1>2, <1>4 DEF StreamsConserved
  <2>1. ~replaced /\ InUse = {}
    BY <1>4
  <2>2. QED BY <1>2, <2>1 DEF SchedulerInv, StreamsConserved
<1>6. QED BY <1>3, <1>5 DEF SchedulerInv

LEMMA AllocateStep ==
  ASSUME SchedulerInv, NEW u \in SchedulerUsers, AllocateStream(u)
  PROVE  SchedulerInv'
<1>0. PICK s : s = Head(available_streams_)
  OBVIOUS
<1>1. /\ available_streams_ \in Seq(TransferStreams) /\ available_streams_ # <<>>
      /\ inUse \in [SchedulerUsers -> SUBSET TransferStreams]
  BY DEF SchedulerInv, SchedulerTypeOK, AllocateStream
<1>2. /\ s \in Range(available_streams_) /\ available_streams_' \in Seq(TransferStreams)
      /\ IsInjective(available_streams_) =>
           /\ IsInjective(available_streams_')
           /\ Range(available_streams_') = Range(available_streams_) \ {s}
  BY <1>0, <1>1, TailRange DEF AllocateStream, RestOfQueue
<1>3. s \in TransferStreams
  BY <1>0, <1>1, EmptySeq, HeadTailProperties
<1>4. /\ inUse' = [inUse EXCEPT ![u] = @ \cup {s}] /\ stream_pool_' = stream_pool_
      /\ replaced' = replaced
  BY <1>0 DEF AllocateStream
<1>5. SchedulerTypeOK' /\ (next_request_id_ \in Nat \ {0})'
  <2>1. inUse' \in [SchedulerUsers -> SUBSET TransferStreams]
    BY <1>1, <1>3, <1>4
  <2>2. QED BY <1>2, <2>1 DEF SchedulerInv, SchedulerTypeOK, AllocateStream
<1>6. ASSUME ~replaced
      PROVE  StreamsConserved'
  <2>1. /\ IsInjective(available_streams_) /\ Range(available_streams_) = stream_pool_ \ Held(inUse)
        /\ Held(inUse) \subseteq stream_pool_
        /\ Apart(SchedulerUsers, inUse)
    BY <1>6 DEF SchedulerInv, StreamsConserved, InUse, Held, Apart
  <2>2. s \notin Held(inUse)
    BY <1>2, <2>1
  <2>3. Taken(SchedulerUsers, inUse, inUse', s)
    <3>1. inUse \in [SchedulerUsers -> SUBSET TransferStreams]
      BY <1>1
    <3>2. inUse' = [inUse EXCEPT ![u] = @ \cup {s}] /\ Apart(SchedulerUsers, inUse)
      BY <1>4, <2>1
    <3>3. QED BY <1>3, <2>2, <3>1, <3>2, HeldMore
  <2>4. InUse' = Held(inUse')
    BY DEF InUse, Held
  <2>5. QED BY <1>2, <1>4, <2>1, <2>3, <2>4 DEF StreamsConserved, Apart, Taken
<1>7. QED BY <1>4, <1>5, <1>6 DEF SchedulerInv, StreamsConserved

LEMMA ReleaseStep ==
  ASSUME SchedulerInv, NEW u \in SchedulerUsers, NEW s \in inUse[u], ReleaseStream(u, s)
  PROVE  SchedulerInv'
<1>1. /\ available_streams_ \in Seq(TransferStreams)
      /\ inUse \in [SchedulerUsers -> SUBSET TransferStreams]
  BY DEF SchedulerInv, SchedulerTypeOK
<1>2. s \in TransferStreams
  BY <1>1
<1>3. /\ available_streams_' \in Seq(TransferStreams)
      /\ Range(available_streams_') = Range(available_streams_) \cup {s}
      /\ IsInjective(available_streams_) /\ s \notin Range(available_streams_) =>
           IsInjective(available_streams_')
  BY <1>1, <1>2, AppendRange DEF ReleaseStream
<1>4. /\ inUse' = [inUse EXCEPT ![u] = @ \ {s}] /\ stream_pool_' = stream_pool_
      /\ replaced' = replaced
  BY DEF ReleaseStream
<1>5. SchedulerTypeOK' /\ (next_request_id_ \in Nat \ {0})'
  <2>1. inUse' \in [SchedulerUsers -> SUBSET TransferStreams]
    BY <1>1, <1>4
  <2>2. QED BY <1>3, <2>1 DEF SchedulerInv, SchedulerTypeOK, ReleaseStream
<1>6. ASSUME ~replaced
      PROVE  StreamsConserved'
  <2>1. /\ IsInjective(available_streams_) /\ Range(available_streams_) = stream_pool_ \ Held(inUse)
        /\ Held(inUse) \subseteq stream_pool_
        /\ Apart(SchedulerUsers, inUse)
    BY <1>6 DEF SchedulerInv, StreamsConserved, InUse, Held, Apart
  <2>2. GivenBack(SchedulerUsers, inUse, inUse', s)
    <3>1. inUse \in [SchedulerUsers -> SUBSET TransferStreams]
      BY <1>1
    <3>2. inUse' = [inUse EXCEPT ![u] = @ \ {s}] /\ Apart(SchedulerUsers, inUse)
      BY <1>4, <2>1
    <3>3. QED BY <1>2, <3>1, <3>2, HeldLess
  <2>3. InUse' = Held(inUse')
    BY DEF InUse, Held
  <2>4. QED BY <1>3, <1>4, <2>1, <2>2, <2>3 DEF StreamsConserved, Apart, GivenBack
<1>7. QED BY <1>4, <1>5, <1>6 DEF SchedulerInv, StreamsConserved

LEMMA SchedulerStep == SchedulerInv /\ [SchedulerNext]_schedulerVars => SchedulerInv'
<1> SUFFICES ASSUME SchedulerInv, [SchedulerNext]_schedulerVars PROVE SchedulerInv'
  OBVIOUS
<1>1. CASE UNCHANGED schedulerVars
  BY <1>1 DEF SchedulerInv, SchedulerTypeOK, StreamsConserved, InUse, schedulerVars, streamQueue
<1>2. CASE SchedulerNext
  <2>1. PICK u \in SchedulerUsers :
          \/ SubmitRequest(u) \/ UpdateBandwidth("HOT", "WARM")
          \/ \E S \in StreamSets : SetStreamPool(S)
          \/ AllocateStream(u) \/ \E s \in inUse[u] : ReleaseStream(u, s)
    BY <1>2 DEF SchedulerNext
  <2>2. CASE SubmitRequest(u)
    <3>1. StreamsConserved'
      BY <2>2 DEF SubmitRequest, streamQueue, SchedulerInv, StreamsConserved, InUse
    <3>2. QED BY <2>2, <3>1 DEF SubmitRequest, streamQueue, SchedulerInv, SchedulerTypeOK
  <2>3. CASE UpdateBandwidth("HOT", "WARM")
    <3>1. StreamsConserved'
      BY <2>3 DEF UpdateBandwidth, streamQueue, SchedulerInv, StreamsConserved, InUse
    <3>2. QED BY <2>3, <3>1 DEF UpdateBandwidth, streamQueue, SchedulerInv, SchedulerTypeOK
  <2>4. CASE \E S \in StreamSets : SetStreamPool(S)
    BY <2>4, SetPoolStep
  <2>5. CASE AllocateStream(u)
    BY <2>5, AllocateStep
  <2>6. CASE \E s \in inUse[u] : ReleaseStream(u, s)
    BY <2>6, ReleaseStep
  <2>7. QED BY <2>1, <2>2, <2>3, <2>4, <2>5, <2>6
<1>3. QED BY <1>1, <1>2

\* The scheduler's streams: each of the pool is available or in use by one user,
\* as long as setStreamPool comes while none is in use.
THEOREM SchedulerConservesStreams == SchedulerSpec => []StreamsConserved
<1>1. SchedulerInv => StreamsConserved
  BY DEF SchedulerInv
<1>2. QED BY <1>1, SchedulerStart, SchedulerStep, PTL DEF SchedulerSpec

-----------------------------------------------------------------------------
(* The stream pool *)

\* The n least members of a set, in order.
Least(S, n, g) ==
  /\ g \in [1..n -> S]
  /\ \A i, j \in 1..n : i < j => g[i] < g[j]
  /\ \A i \in 1..n, h \in S : h < g[i] => \E j \in 1..n : h = g[j]

LEMMA LeastInjects ==
  ASSUME NEW S, S \subseteq Nat, NEW n \in Nat, NEW g, Least(S, n, g)
  PROVE  /\ \A i, j \in 1..n : g[i] = g[j] => i = j
         /\ Range(g) \subseteq S /\ Cardinality(Range(g)) = n /\ IsFiniteSet(Range(g))
<1>1. g \in [1..n -> S] /\ \A i \in 1..n : g[i] \in Nat
  BY DEF Least
<1>2. \A i, j \in 1..n : g[i] = g[j] => i = j
  <2> SUFFICES ASSUME NEW i \in 1..n, NEW j \in 1..n, g[i] = g[j] PROVE i = j
    OBVIOUS
  <2>1. ~(i < j) /\ ~(j < i)
    BY <1>1 DEF Least
  <2>2. QED BY <2>1
<1>3. /\ Range(g) \subseteq S /\ g \in [1..n -> Range(g)]
      /\ \A t \in Range(g) : \E i \in 1..n : g[i] = t
  BY <1>1 DEF Range
<1>4. g \in Bijection(1..n, Range(g))
  BY <1>2, <1>3 DEF Bijection, Injection, Surjection, IsInjective
<1>5. IsFiniteSet(1..n) /\ Cardinality(1..n) = n
  BY FS_Interval
<1>6. IsFiniteSet(Range(g)) /\ Cardinality(Range(g)) = Cardinality(1..n)
  BY <1>4, <1>5, FS_Bijection DEF ExistsBijection
<1>7. QED BY <1>2, <1>3, <1>5, <1>6

LEMMA LeastExist ==
  ASSUME NEW S, S \subseteq Nat, IsFiniteSet(S), NEW n \in 0..Cardinality(S)
  PROVE  \E g : Least(S, n, g)
<1> DEFINE bad == {k \in 0..Cardinality(S) : ~ \E g : Least(S, k, g)}
<1>1. Cardinality(S) \in Nat
  BY FS_CardinalityType
<1>2. bad = {}
  <2> SUFFICES ASSUME bad # {} PROVE FALSE
    OBVIOUS
  <2>1. bad \subseteq Nat
    BY <1>1
  <2>2. PICK k \in bad : \A l \in bad : k <= l
    BY <2>1, LeastMember
  <2>3. k \in 0..Cardinality(S) /\ ~ \E g : Least(S, k, g)
    BY <2>2
  <2>4. k # 0
    <3>1. Least(S, 0, [i \in 1..0 |-> 0])
      BY DEF Least
    <3>2. QED BY <2>3, <3>1
  <2>5. PICK g : Least(S, k - 1, g)
    <3>1. k - 1 \in 0..Cardinality(S) /\ ~ (k <= k - 1)
      BY <1>1, <2>3, <2>4
    <3>2. k - 1 \notin bad
      BY <2>2, <3>1
    <3>3. QED BY <3>1, <3>2
  <2> HIDE DEF bad
  <2>6. k \in Nat /\ k - 1 \in Nat
    BY <1>1, <2>3, <2>4
  <2>7. Range(g) \subseteq S /\ Cardinality(Range(g)) = k - 1
    BY <2>5, <2>6, LeastInjects
  <2>8. S \ Range(g) # {}
    <3>1. Cardinality(Range(g)) # Cardinality(S)
      BY <1>1, <2>3, <2>7
    <3>2. QED BY <2>7, <3>1
  <2>9. PICK m \in S \ Range(g) : \A y \in S \ Range(g) : m <= y
    <3>1. S \ Range(g) \subseteq Nat
      OBVIOUS
    <3>2. QED BY <2>8, <3>1, LeastMember
  <2>10. /\ g \in [1..(k - 1) -> S] /\ \A i, j \in 1..(k - 1) : i < j => g[i] < g[j]
         /\ \A i \in 1..(k - 1), h \in S : h < g[i] => \E j \in 1..(k - 1) : h = g[j]
    BY <2>5 DEF Least
  <2>11. \A x : x \in Range(g) <=> \E i \in 1..(k - 1) : x = g[i]
    BY <2>10 DEF Range
  <2>12. \A i \in 1..(k - 1) : g[i] \in Nat /\ g[i] # m /\ ~(m < g[i])
    BY <2>9, <2>10, <2>11
  <2>13. m \in Nat
    OBVIOUS
  <2> DEFINE f == [i \in 1..k |-> IF i < k THEN g[i] ELSE m]
  <2>14. \A i \in 1..k : i < k => i \in 1..(k - 1) /\ f[i] = g[i]
    BY <2>6
  <2>15. f[k] = m /\ k \in 1..k
    BY <2>6
  <2>16. f \in [1..k -> S]
    BY <2>9, <2>10, <2>14
  <2> HIDE DEF f
  <2>17. \A i \in 1..k : i < k \/ i = k
    BY <2>6
  <2>18. ASSUME NEW i \in 1..k, NEW j \in 1..k, i < j PROVE f[i] < f[j]
    <3>1. i < k /\ i \in 1..(k - 1)
      BY <2>6, <2>18
    <3>2. CASE j < k
      BY <2>10, <2>14, <2>18, <3>1, <3>2
    <3>3. CASE j = k
      BY <2>12, <2>13, <2>14, <2>15, <3>1, <3>3
    <3>4. QED BY <2>17, <3>2, <3>3
  <2>19. ASSUME NEW i \in 1..k, NEW h \in S, h < f[i] PROVE \E j \in 1..k : h = f[j]
    <3>1. \A j \in 1..(k - 1) : j \in 1..k /\ j < k
      BY <2>6
    <3>2. h \in Range(g)
      <4>1. CASE i < k
        BY <2>10, <2>11, <2>14, <2>19, <4>1
      <4>2. CASE i = k
        <5>1. h \in Nat /\ h < m
          BY <2>15, <2>19, <4>2
        <5>2. ~ (m <= h)
          BY <2>13, <5>1
        <5>3. QED BY <2>9, <5>2
      <4>3. QED BY <2>17, <4>1, <4>2
    <3>3. QED BY <2>11, <2>14, <3>1, <3>2
  <2>20. Least(S, k, f)
    BY <2>16, <2>18, <2>19 DEF Least
  <2>21. QED BY <2>3, <2>20
<1>3. QED BY <1>2

LEMMA FreshAreFree ==
  ASSUME live \subseteq DriverHandles, NEW n \in 0..Cardinality(DriverHandles \ live)
  PROVE  /\ FreshHandles(n) \subseteq DriverHandles \ live
         /\ Cardinality(FreshHandles(n)) = n
<1> DEFINE F == DriverHandles \ live
<1>1. F \subseteq Nat /\ IsFiniteSet(F)
  BY StreamAssumption, FS_Difference
<1>2. PICK g : Least(F, n, g)
  BY <1>1, LeastExist
<1>3. n \in Nat
  BY <1>1, FS_CardinalityType
<1>4. Range(g) \subseteq F /\ Cardinality(Range(g)) = n
  BY <1>1, <1>2, <1>3, LeastInjects
<1>5. \A s \in Range(g), h \in F : h < s => h \in Range(g)
  <2>1. g \in [1..n -> F] /\ \A i \in 1..n, h \in F : h < g[i] => \E j \in 1..n : h = g[j]
    BY <1>2 DEF Least
  <2>2. \A x : x \in Range(g) <=> \E i \in 1..n : x = g[i]
    BY <2>1 DEF Range
  <2>3. QED BY <2>1, <2>2
<1>6. QED BY <1>4, <1>5 DEF FreshHandles

LEMMA AscendingProperties ==
  ASSUME NEW S, S \subseteq Nat, IsFiniteSet(S)
  PROVE  Ascending(S) \in Seq(S) /\ Range(Ascending(S)) = S /\ IsInjective(Ascending(S))
<1> DEFINE n == Cardinality(S)
           q == Ascending(S)
<1>1. n \in Nat
  BY FS_CardinalityType
<1>2. PICK g : Least(S, n, g)
  <2>1. n \in 0..n
    BY <1>1
  <2>2. QED BY <2>1, LeastExist
<1>3. g \in [1..n -> S] /\ \A i, j \in 1..n : i < j => g[i] < g[j]
  BY <1>2 DEF Least
<1>4. q \in [1..n -> S] /\ \A i, j \in 1..n : i < j => q[i] < q[j]
  BY <1>3 DEF Ascending
<1> HIDE DEF q, n
<1>5. IsInjective(q)
  <2>1. \A i \in 1..n : q[i] \in S /\ i \in Int
    BY <1>1, <1>4
  <2> SUFFICES ASSUME NEW i \in 1..n, NEW j \in 1..n, q[i] = q[j] PROVE i = j
    BY <1>4 DEF IsInjective
  <2>2. q[i] \in Nat
    BY <2>1
  <2>3. ~(i < j) /\ ~(j < i)
    BY <1>4, <2>2
  <2>4. QED BY <2>1, <2>3
<1>6. q \in Injection(1..n, S) /\ IsFiniteSet(1..n) /\ Cardinality(1..n) = n
  BY <1>1, <1>4, <1>5, FS_Interval DEF Injection, IsInjective
<1>7. q \in Surjection(1..n, S)
  BY <1>6, FS_Injection DEF n
<1>8. Range(q) = S
  BY <1>4, <1>7 DEF Surjection, Range
<1>9. q \in Seq(S)
  BY <1>1, <1>4, SeqDef
<1>10. QED BY <1>5, <1>8, <1>9 DEF q

-----------------------------------------------------------------------------
(* The invariant of the pools *)

\* What is so of the streams while nobody was careless.
Accounted ==
  /\ Apart(StreamUsers, lent) /\ Apart(Pools, streams_)
  /\ \A p \in Pools : IsInjective(pooled_[p]) /\ Range(pooled_[p]) = streams_[p] \ Held(lent)
  /\ \A h : h \in live <=> (\E p \in Pools : h \in streams_[p]) \/ h \in Held(lent)

ContentsTyped ==
  /\ live \subseteq DriverHandles /\ careless \in BOOLEAN
  /\ pool_initialized \subseteq Pools /\ jammed \subseteq Pools
  /\ streams_ \in [Pools -> SUBSET DriverHandles] /\ pooled_ \in [Pools -> Seq(DriverHandles)]
  /\ lent \in [StreamUsers -> SUBSET DriverHandles]

\* A pool that is not initialized has no streams.
ContentsInv ==
  /\ ContentsTyped
  /\ ~careless => Accounted
  /\ \A p \in Pools : p \notin pool_initialized /\ p \notin jammed => streams_[p] = {}

LEMMA ContentsStart == StreamInit => ContentsInv
<1> SUFFICES ASSUME StreamInit PROVE ContentsInv
  OBVIOUS
<1>1. ContentsTyped
  <2>1. \A p \in Pools : pooled_[p] \in Seq(DriverHandles)
    BY EmptySeq DEF StreamInit
  <2>2. pooled_ \in [Pools -> Seq(DriverHandles)]
    BY <2>1 DEF StreamInit
  <2>3. QED BY <2>2 DEF StreamInit, ContentsTyped
<1>2. \A x : x \notin Held(lent)
  BY DEF StreamInit, Held, Range
<1>3. Accounted
  <2>1. Apart(StreamUsers, lent) /\ Apart(Pools, streams_)
    BY DEF StreamInit, Apart
  <2>2. \A p \in Pools : pooled_[p] = <<>> /\ streams_[p] = {}
    BY DEF StreamInit
  <2>3. \A p \in Pools : IsInjective(pooled_[p]) /\ Range(pooled_[p]) = {}
    BY <2>2 DEF IsInjective, Range
  <2>4. \A h : h \notin live
    BY DEF StreamInit
  <2>5. QED BY <1>2, <2>1, <2>2, <2>3, <2>4 DEF Accounted
<1>4. QED BY <1>1, <1>3 DEF ContentsInv, StreamInit

\* A pool is emptied.
LEMMA EmptyStep ==
  ASSUME ContentsInv, NEW p \in Pools, EmptyPool(p), UNCHANGED <<lent, jammed>>
  PROVE  ContentsInv'
<1>1. /\ live' = live \ streams_[p] /\ pool_initialized' = pool_initialized \ {p}
      /\ careless' = (careless \/ streams_[p] \cap Held(lent) # {})
      /\ Held(lent)' = Held(lent)
  BY DEF EmptyPool, LentStreams, Held
<1>2. /\ streams_' \in [Pools -> SUBSET DriverHandles]
      /\ \A q \in Pools : streams_'[q] = IF q = p THEN {} ELSE streams_[q]
  BY DEF EmptyPool, ContentsInv, ContentsTyped
<1>3. /\ pooled_' \in [Pools -> Seq(DriverHandles)]
      /\ \A q \in Pools : pooled_'[q] = IF q = p THEN <<>> ELSE pooled_[q]
  <2>1. <<>> \in Seq(DriverHandles)
    BY EmptySeq
  <2>2. QED BY <2>1 DEF EmptyPool, ContentsInv, ContentsTyped
<1>4. ContentsTyped'
  BY <1>1, <1>2, <1>3 DEF ContentsInv, ContentsTyped
<1>5. ASSUME ~careless' PROVE Accounted'
  <2>1. Accounted /\ streams_[p] \cap Held(lent) = {}
    BY <1>1, <1>5 DEF ContentsInv
  <2>2. Apart(StreamUsers, lent)' /\ Apart(Pools, streams_)'
    BY <1>2, <2>1 DEF Accounted, Apart
  <2>3. ASSUME NEW q \in Pools
        PROVE  IsInjective(pooled_'[q]) /\ Range(pooled_'[q]) = streams_'[q] \ Held(lent)
    <3>1. CASE q = p
      <4>1. pooled_'[q] = <<>> /\ streams_'[q] = {}
        BY <1>2, <1>3, <3>1
      <4>2. IsInjective(pooled_'[q]) /\ Range(pooled_'[q]) = {}
        BY <4>1 DEF IsInjective, Range
      <4>3. QED BY <4>1, <4>2
    <3>2. CASE q # p
      BY <1>2, <1>3, <2>1, <3>2 DEF Accounted
    <3>3. QED BY <3>1, <3>2
  <2>4. ASSUME NEW h
        PROVE  h \in live' <=> (\E q \in Pools : h \in streams_'[q]) \/ h \in Held(lent)
    <3>1. h \in live <=> (\E q \in Pools : h \in streams_[q]) \/ h \in Held(lent)
      BY <2>1 DEF Accounted
    <3>2. \A q \in Pools : q # p => streams_[p] \cap streams_[q] = {}
      BY <2>1 DEF Accounted, Apart
    <3>3. QED BY <1>1, <1>2, <2>1, <3>1, <3>2
  <2>5. QED BY <1>1, <2>2, <2>3, <2>4 DEF Accounted
<1>6. ASSUME NEW q \in Pools, q \notin pool_initialized', q \notin jammed'
      PROVE  streams_'[q] = {}
  BY <1>1, <1>2, <1>6 DEF ContentsInv
<1>7. QED BY <1>4, <1>5, <1>6 DEF ContentsInv

\* New streams, in order, fill an empty pool.
LEMMA NewStreamsStep ==
  ASSUME ContentsInv, NEW p \in Pools, p \notin pool_initialized, p \notin jammed,
         NEW n \in 0..Cardinality(DriverHandles \ live), FilledWith(p, n),
         \/ pool_initialized' = pool_initialized \cup {p} /\ jammed' = jammed
         \/ jammed' = jammed \cup {p} /\ pool_initialized' = pool_initialized,
         UNCHANGED <<lent, careless>>
  PROVE  ContentsInv'
<1>1. PICK new : new = FreshHandles(n)
  OBVIOUS
<1>2. new \subseteq DriverHandles \ live /\ new \subseteq Nat /\ IsFiniteSet(new)
  <2>1. live \subseteq DriverHandles
    BY DEF ContentsInv, ContentsTyped
  <2>2. new \subseteq DriverHandles \ live
    BY <1>1, <2>1, FreshAreFree
  <2>3. new \in SUBSET DriverHandles /\ DriverHandles \subseteq Nat /\ IsFiniteSet(DriverHandles)
    BY <2>2, StreamAssumption
  <2>4. QED BY <2>2, <2>3, FS_Subset
<1>3. PICK order : order = Ascending(new)
  OBVIOUS
<1>4. order \in Seq(DriverHandles) /\ Range(order) = new /\ IsInjective(order)
  <2>1. order \in Seq(new) /\ Range(order) = new /\ IsInjective(order)
    BY <1>2, <1>3, AscendingProperties
  <2>2. new \subseteq DriverHandles
    BY <1>2
  <2>3. QED BY <2>1, <2>2, SeqDef
<1>5. /\ live' = live \cup new
      /\ streams_' = [streams_ EXCEPT ![p] = new] /\ pooled_' = [pooled_ EXCEPT ![p] = order]
  BY <1>1, <1>3 DEF FilledWith
<1>6. /\ streams_' \in [Pools -> SUBSET DriverHandles]
      /\ \A q \in Pools : streams_'[q] = IF q = p THEN new ELSE streams_[q]
  BY <1>2, <1>5 DEF ContentsInv, ContentsTyped
<1>7. /\ pooled_' \in [Pools -> Seq(DriverHandles)]
      /\ \A q \in Pools : pooled_'[q] = IF q = p THEN order ELSE pooled_[q]
  BY <1>4, <1>5 DEF ContentsInv, ContentsTyped
<1>8. ContentsTyped'
  BY <1>2, <1>5, <1>6, <1>7 DEF ContentsInv, ContentsTyped
<1>9. streams_[p] = {} /\ Held(lent)' = Held(lent)
  BY DEF ContentsInv
<1>10. ASSUME ~careless PROVE Accounted'
  <2>1. Accounted
    BY <1>10 DEF ContentsInv
  <2>2. \A h \in new : h \notin Held(lent) /\ \A q \in Pools : h \notin streams_[q]
    BY <1>2, <2>1 DEF Accounted
  <2>3. Apart(StreamUsers, lent)'
    BY <2>1 DEF Accounted
  <2>4. Apart(Pools, streams_')
    BY <1>6, <2>1, <2>2 DEF Accounted, Apart
  <2>5. ASSUME NEW q \in Pools
        PROVE  IsInjective(pooled_'[q]) /\ Range(pooled_'[q]) = streams_'[q] \ Held(lent)
    <3>1. CASE q = p
      BY <1>4, <1>6, <1>7, <2>2, <3>1
    <3>2. CASE q # p
      BY <1>6, <1>7, <2>1, <3>2 DEF Accounted
    <3>3. QED BY <3>1, <3>2
  <2>6. ASSUME NEW h
        PROVE  h \in live' <=> (\E q \in Pools : h \in streams_'[q]) \/ h \in Held(lent)
    <3>1. h \in live <=> (\E q \in Pools : h \in streams_[q]) \/ h \in Held(lent)
      BY <2>1 DEF Accounted
    <3>2. QED BY <1>5, <1>6, <1>9, <3>1
  <2>7. QED BY <1>9, <2>3, <2>4, <2>5, <2>6 DEF Accounted
<1>11. ASSUME NEW q \in Pools, q \notin pool_initialized', q \notin jammed'
       PROVE  streams_'[q] = {}
  BY <1>6, <1>11 DEF ContentsInv
<1>12. QED BY <1>8, <1>10, <1>11 DEF ContentsInv

\* An existing pool is one of the pools.
LEMMA ExistingPools ==
  ASSUME pools \in 0..MaxPools, NEW p, Exists(p)
  PROVE  p \in Pools
BY StreamAssumption DEF Exists, Pools

LEMMA FillStep ==
  ASSUME ContentsInv, pools \in 0..MaxPools, NEW u \in StreamUsers, FillPool(u)
  PROVE  ContentsInv'
<1>1. Cardinality(DriverHandles \ live) \in Nat /\ PoolSize \in Nat
  BY StreamAssumption, FS_Difference, FS_CardinalityType
<1>2. PICK p : p = loaded[u]
  OBVIOUS
<1>3. p \in Pools /\ p \notin jammed /\ UNCHANGED <<lent, careless>>
  BY <1>2, ExistingPools DEF FillPool
<1>4. CASE UNCHANGED <<contents, jammed>>
  <2>1. UNCHANGED <<live, pool_initialized, streams_, pooled_, jammed, lent, careless>>
    BY <1>3, <1>4 DEF contents
  <2>2. QED BY <2>1 DEF ContentsInv, ContentsTyped, Accounted
<1>5. CASE /\ p \notin pool_initialized /\ Cardinality(DriverHandles \ live) >= PoolSize
           /\ FilledWith(p, PoolSize)
           /\ pool_initialized' = pool_initialized \cup {p}
           /\ UNCHANGED jammed
  <2>1. PoolSize \in 0..Cardinality(DriverHandles \ live)
    BY <1>1, <1>5
  <2>2. pool_initialized' = pool_initialized \cup {p} /\ jammed' = jammed
    BY <1>5
  <2>3. QED BY <1>3, <1>5, <2>1, <2>2, NewStreamsStep
<1>6. ASSUME NEW n \in 0..Lesser(PoolSize - 1, Cardinality(DriverHandles \ live)),
             p \notin pool_initialized, FilledWith(p, n),
             jammed' = jammed \cup {p}, UNCHANGED pool_initialized
      PROVE  ContentsInv'
  <2>1. n \in 0..Cardinality(DriverHandles \ live)
    BY <1>1 DEF Lesser
  <2>2. QED BY <1>3, <1>6, <2>1, NewStreamsStep
<1>7. QED BY <1>2, <1>4, <1>5, <1>6 DEF FillPool

LEMMA AcquireStep ==
  ASSUME ContentsInv, pools \in 0..MaxPools, NEW u \in StreamUsers, Acquire(u)
  PROVE  ContentsInv'
<1>1. PICK p : p = loaded[u]
  OBVIOUS
<1>2. p \in Pools /\ UNCHANGED <<pool_initialized, streams_, jammed, careless>>
  BY <1>1, ExistingPools DEF Acquire
<1>3. /\ pooled_ \in [Pools -> Seq(DriverHandles)] /\ pooled_[p] \in Seq(DriverHandles)
      /\ lent \in [StreamUsers -> SUBSET DriverHandles] /\ live \subseteq DriverHandles
  BY <1>2 DEF ContentsInv, ContentsTyped
<1>4. CASE UNCHANGED <<lent, live, pooled_>>
  BY <1>2, <1>4 DEF ContentsInv, ContentsTyped, Accounted
<1>5. CASE /\ pooled_[p] # <<>> /\ lent' = [lent EXCEPT ![u] = @ \cup {Head(pooled_[p])}]
           /\ pooled_' = [pooled_ EXCEPT ![p] = Tail(@)] /\ UNCHANGED live
  <2>1. PICK s, rest : s = Head(pooled_[p]) /\ rest = Tail(pooled_[p])
    OBVIOUS
  <2>2. /\ s \in Range(pooled_[p]) /\ rest \in Seq(DriverHandles)
        /\ IsInjective(pooled_[p]) =>
             IsInjective(rest) /\ Range(rest) = Range(pooled_[p]) \ {s}
    BY <1>3, <1>5, <2>1, TailRange
  <2>3. s \in DriverHandles
    BY <1>3, <1>5, <2>1, EmptySeq, HeadTailProperties
  <2>4. /\ pooled_' \in [Pools -> Seq(DriverHandles)]
        /\ \A q \in Pools : pooled_'[q] = IF q = p THEN rest ELSE pooled_[q]
    BY <1>3, <1>5, <2>1, <2>2
  <2>5. lent' = [lent EXCEPT ![u] = @ \cup {s}]
    BY <1>5, <2>1
  <2>6. ContentsTyped'
    BY <1>2, <1>3, <1>5, <2>3, <2>4, <2>5 DEF ContentsInv, ContentsTyped
  <2>7. ASSUME ~careless PROVE Accounted'
    <3>1. Accounted
      BY <2>7 DEF ContentsInv
    <3>2. /\ s \notin Held(lent) /\ s \in streams_[p] /\ Apart(StreamUsers, lent)
          /\ \A q \in Pools : q # p => s \notin streams_[q]
      BY <1>2, <2>2, <3>1 DEF Accounted, Apart
    <3>3. Taken(StreamUsers, lent, lent', s)
      BY <1>3, <2>3, <2>5, <3>2, HeldMore
    <3>4. Apart(StreamUsers, lent') /\ Held(lent') = Held(lent) \cup {s}
      BY <3>3 DEF Taken
    <3>5. ASSUME NEW q \in Pools
          PROVE  IsInjective(pooled_'[q]) /\ Range(pooled_'[q]) = streams_[q] \ Held(lent')
      <4>1. IsInjective(pooled_[q]) /\ Range(pooled_[q]) = streams_[q] \ Held(lent)
        BY <3>1 DEF Accounted
      <4>2. CASE q = p
        BY <2>2, <2>4, <3>4, <4>1, <4>2
      <4>3. CASE q # p
        BY <2>4, <3>2, <3>4, <4>1, <4>3
      <4>4. QED BY <4>2, <4>3
    <3>6. \A h : h \in live <=> (\E q \in Pools : h \in streams_[q]) \/ h \in Held(lent')
      BY <1>2, <3>1, <3>2, <3>4 DEF Accounted
    <3>7. QED BY <1>2, <1>5, <3>1, <3>4, <3>5, <3>6 DEF Accounted
  <2>8. QED BY <1>2, <2>6, <2>7 DEF ContentsInv
<1>6. CASE /\ DriverHandles \ live # {}
           /\ live' = live \cup FreshHandles(1)
           /\ lent' = [lent EXCEPT ![u] = @ \cup FreshHandles(1)]
           /\ UNCHANGED pooled_
  <2>1. PICK s : FreshHandles(1) = {s} /\ s \in DriverHandles \ live
    <3>1. IsFiniteSet(DriverHandles \ live)
      BY StreamAssumption, FS_Difference
    <3>2. Cardinality(DriverHandles \ live) \in Nat /\ Cardinality(DriverHandles \ live) # 0
      BY <1>6, <3>1, FS_CardinalityType, FS_EmptySet
    <3>3. 1 \in 0..Cardinality(DriverHandles \ live)
      BY <3>2
    <3>4. FreshHandles(1) \in SUBSET (DriverHandles \ live) /\ Cardinality(FreshHandles(1)) = 1
      BY <1>3, <3>3, FreshAreFree
    <3>5. IsFiniteSet(FreshHandles(1))
      BY <3>1, <3>4, FS_Subset
    <3>6. PICK s : FreshHandles(1) = {s}
      BY <3>4, <3>5, FS_Singleton
    <3>7. QED BY <3>4, <3>6
  <2>2. lent' = [lent EXCEPT ![u] = @ \cup {s}] /\ live' = live \cup {s}
    BY <1>6, <2>1
  <2>3. ContentsTyped'
    <3>1. lent' \in [StreamUsers -> SUBSET DriverHandles] /\ live' \subseteq DriverHandles
      BY <1>3, <2>1, <2>2
    <3>2. QED BY <1>2, <1>6, <3>1 DEF ContentsInv, ContentsTyped
  <2>4. ASSUME ~careless PROVE Accounted'
    <3>1. Accounted
      BY <2>4 DEF ContentsInv
    <3>2. /\ s \notin Held(lent) /\ Apart(StreamUsers, lent)
          /\ \A q \in Pools : s \notin streams_[q]
      BY <2>1, <3>1 DEF Accounted
    <3>3. s \in DriverHandles
      BY <2>1
    <3>4. Taken(StreamUsers, lent, lent', s)
      BY <1>3, <2>2, <3>2, <3>3, HeldMore
    <3>5. Apart(StreamUsers, lent') /\ Held(lent') = Held(lent) \cup {s}
      BY <3>4 DEF Taken
    <3>6. \A q \in Pools :
            IsInjective(pooled_[q]) /\ Range(pooled_[q]) = streams_[q] \ Held(lent')
      BY <3>1, <3>2, <3>5 DEF Accounted
    <3>7. \A h : h \in live' <=> (\E q \in Pools : h \in streams_[q]) \/ h \in Held(lent')
      BY <2>2, <3>1, <3>5 DEF Accounted
    <3>8. QED BY <1>2, <1>6, <3>1, <3>5, <3>6, <3>7 DEF Accounted
  <2>5. QED BY <1>2, <2>3, <2>4 DEF ContentsInv
<1>7. QED BY <1>1, <1>4, <1>5, <1>6 DEF Acquire

LEMMA GivenStep ==
  ASSUME ContentsInv, pools \in 0..MaxPools, NEW u \in StreamUsers, NEW s \in lent[u],
         Release(u, s)
  PROVE  ContentsInv'
<1>1. PICK p : p = loaded[u]
  OBVIOUS
<1>2. /\ p \in Pools /\ UNCHANGED <<pool_initialized, streams_, jammed>>
      /\ lent' = [lent EXCEPT ![u] = @ \ {s}]
      /\ careless' = (careless \/ \E q \in Pools \ {p} : s \in streams_[q])
  BY <1>1, ExistingPools DEF Release
<1>3. /\ pooled_ \in [Pools -> Seq(DriverHandles)] /\ pooled_[p] \in Seq(DriverHandles)
      /\ lent \in [StreamUsers -> SUBSET DriverHandles] /\ live \subseteq DriverHandles
      /\ careless \in BOOLEAN
  BY <1>2 DEF ContentsInv, ContentsTyped
<1>4. s \in DriverHandles /\ lent' \in [StreamUsers -> SUBSET DriverHandles]
  BY <1>2, <1>3
<1>5. ASSUME ~careless'
      PROVE  /\ Accounted /\ s \in Held(lent) /\ Held(lent') = Held(lent) \ {s}
             /\ Apart(StreamUsers, lent')
             /\ \A q \in Pools : q # p => s \notin streams_[q]
  <2>1. /\ Accounted /\ Apart(StreamUsers, lent)
        /\ \A q \in Pools : q # p => s \notin streams_[q]
    BY <1>2, <1>3, <1>5 DEF ContentsInv, Accounted
  <2>2. GivenBack(StreamUsers, lent, lent', s)
    BY <1>2, <1>3, <1>4, <2>1, HeldLess
  <2>3. QED BY <2>1, <2>2 DEF GivenBack
<1>6. CASE s \in streams_[p]
  <2>1. PICK longer : longer = Append(pooled_[p], s)
    OBVIOUS
  <2>2. /\ longer \in Seq(DriverHandles) /\ Range(longer) = Range(pooled_[p]) \cup {s}
        /\ IsInjective(pooled_[p]) /\ s \notin Range(pooled_[p]) => IsInjective(longer)
    BY <1>3, <1>4, <2>1, AppendRange
  <2>3. pooled_' = [pooled_ EXCEPT ![p] = longer] /\ live' = live
    BY <1>1, <1>6, <2>1 DEF Release, OfPool
  <2>4. /\ pooled_' \in [Pools -> Seq(DriverHandles)]
        /\ \A q \in Pools : pooled_'[q] = IF q = p THEN longer ELSE pooled_[q]
    BY <1>3, <2>2, <2>3
  <2>5. ContentsTyped'
    BY <1>2, <1>3, <1>4, <2>3, <2>4 DEF ContentsInv, ContentsTyped
  <2>6. ASSUME ~careless' PROVE Accounted'
    <3>1. ASSUME NEW q \in Pools
          PROVE  IsInjective(pooled_'[q]) /\ Range(pooled_'[q]) = streams_[q] \ Held(lent')
      <4>1. IsInjective(pooled_[q]) /\ Range(pooled_[q]) = streams_[q] \ Held(lent)
        BY <1>5, <2>6 DEF Accounted
      <4>2. CASE q = p
        BY <1>5, <1>6, <2>2, <2>4, <2>6, <4>1, <4>2
      <4>3. CASE q # p
        BY <1>5, <2>4, <2>6, <4>1, <4>3
      <4>4. QED BY <4>2, <4>3
    <3>2. \A h : h \in live <=> (\E q \in Pools : h \in streams_[q]) \/ h \in Held(lent')
      BY <1>2, <1>5, <1>6, <2>6 DEF Accounted
    <3>3. Apart(Pools, streams_) /\ Apart(StreamUsers, lent')
      BY <1>5, <2>6 DEF Accounted
    <3>4. QED BY <1>2, <2>3, <3>1, <3>2, <3>3 DEF Accounted
  <2>7. QED BY <1>2, <2>5, <2>6 DEF ContentsInv
<1>7. CASE s \notin streams_[p]
  <2>1. pooled_' = pooled_ /\ live' = live \ {s}
    BY <1>1, <1>7 DEF Release, OfPool
  <2>2. ContentsTyped'
    BY <1>2, <1>3, <1>4, <2>1 DEF ContentsInv, ContentsTyped
  <2>3. ASSUME ~careless' PROVE Accounted'
    <3>1. \A q \in Pools : s \notin streams_[q]
      BY <1>5, <1>7, <2>3
    <3>2. \A q \in Pools :
            IsInjective(pooled_[q]) /\ Range(pooled_[q]) = streams_[q] \ Held(lent')
      BY <1>5, <2>3, <3>1 DEF Accounted
    <3>3. \A h : h \in live' <=> (\E q \in Pools : h \in streams_[q]) \/ h \in Held(lent')
      BY <1>5, <2>1, <2>3, <3>1 DEF Accounted
    <3>4. Apart(Pools, streams_) /\ Apart(StreamUsers, lent')
      BY <1>5, <2>3 DEF Accounted
    <3>5. QED BY <1>2, <2>1, <3>2, <3>3, <3>4 DEF Accounted
  <2>4. QED BY <1>2, <2>2, <2>3 DEF ContentsInv
<1>8. QED BY <1>6, <1>7

LEMMA ReleaseNowhereStep ==
  ASSUME ContentsInv, NEW u \in StreamUsers, NEW s \in lent[u], ReleaseNowhere(u, s)
  PROVE  ContentsInv'
<1>1. /\ lent' = [lent EXCEPT ![u] = @ \ {s}] /\ careless' = TRUE
      /\ UNCHANGED <<live, pool_initialized, streams_, pooled_, jammed>>
  BY DEF ReleaseNowhere, contents
<1>2. ContentsTyped'
  BY <1>1 DEF ContentsInv, ContentsTyped
<1>3. QED BY <1>1, <1>2 DEF ContentsInv

LEMMA ContentsStep ==
  ASSUME ContentsInv, pools \in 0..MaxPools, [StreamNext]_streamVars
  PROVE  ContentsInv'
<1>1. ASSUME UNCHANGED <<contents, jammed, lent, careless>> PROVE ContentsInv'
  <2>1. UNCHANGED <<live, pool_initialized, streams_, pooled_, jammed, lent, careless>>
    BY <1>1 DEF contents
  <2>2. QED BY <2>1 DEF ContentsInv, ContentsTyped, Accounted
<1>2. CASE UNCHANGED streamVars
  <2>1. UNCHANGED <<contents, jammed, lent, careless>>
    BY <1>2 DEF streamVars
  <2>2. QED BY <1>1, <2>1
<1>3. ASSUME NEW u \in StreamUsers,
             \/ LoadPointer(u) \/ UseDangling(u) \/ LoadOld(u) \/ StoreNew(u)
             \/ BeginInitialize(u) \/ FlagInitialized(u) \/ BeginCleanUp(u)
             \/ UnflagInitialized(u) \/ BeginAcquire(u) \/ FindPool(u) \/ BeginRelease(u)
      PROVE  ContentsInv'
  <2>1. UNCHANGED <<contents, jammed, lent, careless>>
    BY <1>3 DEF LoadPointer, UseDangling, LoadOld, StoreNew, BeginInitialize, FlagInitialized,
                BeginCleanUp, UnflagInitialized, BeginAcquire, FindPool, BeginRelease
  <2>2. QED BY <1>1, <2>1
<1>4. ASSUME NEW u \in StreamUsers, DeleteOld(u) \/ CleanPool(u) PROVE ContentsInv'
  <2>1. PICK p : p = loaded[u]
    OBVIOUS
  <2>2. EmptyPool(p) /\ UNCHANGED <<lent, jammed>>
    BY <1>4, <2>1 DEF DeleteOld, CleanPool
  <2>3. p \in Pools
    BY <2>2, ExistingPools DEF EmptyPool
  <2>4. QED BY <2>2, <2>3, EmptyStep
<1>5. CASE StreamNext
  <2>1. PICK u \in StreamUsers :
          \/ LoadPointer(u) \/ UseDangling(u) \/ LoadOld(u) \/ StoreNew(u) \/ DeleteOld(u)
          \/ BeginInitialize(u) \/ FillPool(u) \/ FlagInitialized(u)
          \/ BeginCleanUp(u) \/ CleanPool(u) \/ UnflagInitialized(u)
          \/ BeginAcquire(u) \/ FindPool(u) \/ Acquire(u) \/ BeginRelease(u)
          \/ \E s \in lent[u] : Release(u, s) \/ ReleaseNowhere(u, s)
    BY <1>5 DEF StreamNext
  <2>2. CASE \E s \in lent[u] : Release(u, s) \/ ReleaseNowhere(u, s)
    BY <2>2, GivenStep, ReleaseNowhereStep
  <2>3. CASE FillPool(u)
    BY <2>3, FillStep
  <2>4. CASE Acquire(u)
    BY <2>4, AcquireStep
  <2>5. QED BY <1>3, <1>4, <2>1, <2>2, <2>3, <2>4
<1>6. QED BY <1>2, <1>5

-----------------------------------------------------------------------------
(* The pointers *)

ControlTyped ==
  /\ {g_initialized, overlapped, fallen} \subseteq BOOLEAN
  /\ g_stream_manager \in 0..MaxPools /\ pools \in 0..MaxPools /\ dead \subseteq 1..pools
  /\ upc \in [StreamUsers -> Places]
  /\ loaded \in [StreamUsers -> -1..MaxPools] /\ made \in [StreamUsers -> 0..MaxPools]

\* While one thread at most manages: what exists is in place or in its hands, and
\* what it is to delete exists and is no longer in place.
Kept ==
  /\ \A u, v \in StreamUsers : upc[u] \in Managing /\ upc[v] \in Managing => u = v
  /\ \A p \in 1..pools \ dead :
       p = g_stream_manager \/ \E u \in StreamUsers : InHand(u, p)
  /\ g_stream_manager # Null => Exists(g_stream_manager)
  /\ \A u \in StreamUsers :
       /\ upc[u] = "store" => loaded[u] = g_stream_manager
       /\ upc[u] = "delete" => Exists(loaded[u]) /\ loaded[u] # g_stream_manager
       /\ upc[u] \in {"swap", "store"} /\ made[u] # Null =>
            Exists(made[u]) /\ made[u] # g_stream_manager

ControlInv ==
  /\ ControlTyped
  /\ \A u \in StreamUsers : made[u] # Null => upc[u] \in {"swap", "store", "delete", "fill"}
  /\ ~overlapped => Kept

LEMMA ControlStart == StreamInit => ControlInv
<1> SUFFICES ASSUME StreamInit PROVE ControlInv
  OBVIOUS
<1>1. MaxPools \in Nat /\ 0 \in 0..MaxPools /\ -1 \in -1..MaxPools
  BY StreamAssumption
<1>2. ControlTyped
  BY <1>1 DEF StreamInit, ControlTyped, Places, Null, Unread
<1>3. 1..pools = {}
  BY DEF StreamInit
<1>4. Kept
  BY <1>3 DEF StreamInit, Kept, Managing, Null
<1>5. QED BY <1>2, <1>4 DEF ControlInv, StreamInit

\* One thread moves, and the others keep what they have.
Moves(u, to) ==
  /\ upc' = [upc EXCEPT ![u] = to]
  /\ loaded' \in [StreamUsers -> -1..MaxPools] /\ made' \in [StreamUsers -> 0..MaxPools]
  /\ \A v \in StreamUsers : v # u => loaded'[v] = loaded[v] /\ made'[v] = made[v]

\* It is not alone in managing, if this step makes it overlap.
Observed(u) ==
  /\ overlapped' \in BOOLEAN
  /\ overlapped => overlapped'
  /\ ~overlapped' => \A v \in StreamUsers \ {u} : upc[v] \notin Managing

\* Nothing happens to the pools, and the thread has none in hand.
LEMMA QuietStep ==
  ASSUME ControlInv, NEW u \in StreamUsers, NEW to \in Places, Moves(u, to),
         UNCHANGED <<pools, dead, g_stream_manager>>,
         {g_initialized', fallen', overlapped'} \subseteq BOOLEAN,
         upc[u] \notin {"swap", "store", "delete"}, to \notin {"store", "delete"},
         to = "swap" => made'[u] = Null,
         made'[u] # Null => to = "fill",
         \/ overlapped' = overlapped /\ (to \in Managing => upc[u] \in Managing)
         \/ Observed(u)
  PROVE  ControlInv'
<1>1. ControlTyped'
  BY DEF ControlInv, ControlTyped, Moves
<1>2. \A v \in StreamUsers : upc'[v] = IF v = u THEN to ELSE upc[v]
  BY DEF ControlInv, ControlTyped, Moves
<1>3. \A v \in StreamUsers : v # u => loaded'[v] = loaded[v] /\ made'[v] = made[v]
  BY DEF Moves
<1>4. ASSUME NEW v \in StreamUsers, made'[v] # Null
      PROVE  upc'[v] \in {"swap", "store", "delete", "fill"}
  BY <1>2, <1>3, <1>4 DEF ControlInv
<1>5. ASSUME ~overlapped' PROVE Kept'
  <2>1. Kept
    BY <1>5 DEF ControlInv, Observed
  <2>2. ASSUME NEW v \in StreamUsers, NEW w \in StreamUsers,
               upc'[v] \in Managing, upc'[w] \in Managing
        PROVE  v = w
    BY <1>2, <1>5, <2>1, <2>2 DEF Kept, Observed
  <2>3. ASSUME NEW p \in 1..pools \ dead
        PROVE  p = g_stream_manager \/ \E v \in StreamUsers : InHand(v, p)'
    <3>1. p = g_stream_manager \/ \E v \in StreamUsers : InHand(v, p)
      BY <2>1 DEF Kept
    <3>2. ASSUME NEW v \in StreamUsers, InHand(v, p) PROVE InHand(v, p)'
      <4>1. v # u
        BY <3>2 DEF InHand
      <4>2. QED BY <1>2, <1>3, <3>2, <4>1 DEF InHand
    <3>3. QED BY <3>1, <3>2
  <2>4. ASSUME NEW v \in StreamUsers
        PROVE  /\ upc'[v] = "store" => loaded'[v] = g_stream_manager
               /\ upc'[v] = "delete" => Exists(loaded'[v]) /\ loaded'[v] # g_stream_manager
               /\ upc'[v] \in {"swap", "store"} /\ made'[v] # Null =>
                    Exists(made'[v]) /\ made'[v] # g_stream_manager
    <3>1. CASE v = u
      BY <1>2, <3>1
    <3>2. CASE v # u
      BY <1>2, <1>3, <2>1, <3>2 DEF Kept
    <3>3. QED BY <3>1, <3>2
  <2>5. QED BY <2>1, <2>2, <2>3, <2>4 DEF Kept, Exists
<1>6. QED BY <1>1, <1>4, <1>5 DEF ControlInv

LEMMA BeginInitializeStep ==
  ASSUME ControlInv, NEW u \in StreamUsers, BeginInitialize(u)
  PROVE  ControlInv'
<1> DEFINE new == pools + 1
<1>1. /\ pools \in Nat /\ MaxPools \in Nat /\ new \in 1..MaxPools /\ pools' = new
      /\ dead \subseteq 1..pools /\ new \notin 1..pools /\ 1..new = 1..pools \cup {new}
      /\ g_stream_manager \in 0..MaxPools /\ new # Null
  BY StreamAssumption DEF BeginInitialize, ControlInv, ControlTyped, Null
<1>2. /\ upc[u] = "idle" /\ loaded' = loaded
      /\ \A v \in StreamUsers : upc'[v] = IF v = u THEN "swap" ELSE upc[v]
      /\ \A v \in StreamUsers : made'[v] = IF v = u THEN new ELSE made[v]
      /\ UNCHANGED <<dead, g_stream_manager>>
  BY DEF BeginInitialize, GoUser, ControlInv, ControlTyped, pointers, globals
<1>3. /\ upc' \in [StreamUsers -> Places] /\ made' \in [StreamUsers -> 0..MaxPools]
      /\ {g_initialized', fallen', overlapped'} \subseteq BOOLEAN
  <2>1. new \in 0..MaxPools
    BY <1>1
  <2>2. "swap" \in Places
    BY DEF Places, Managing
  <2>3. QED BY <2>1, <2>2 DEF BeginInitialize, GoUser, ControlInv, ControlTyped, globals,
                             Overlaps
<1> HIDE DEF new
<1>4. ControlTyped'
  BY <1>1, <1>2, <1>3 DEF ControlInv, ControlTyped
<1>5. ASSUME NEW v \in StreamUsers, made'[v] # Null
      PROVE  upc'[v] \in {"swap", "store", "delete", "fill"}
  BY <1>2, <1>5 DEF ControlInv
<1>6. ASSUME ~overlapped' PROVE Kept'
  <2>1. Kept /\ \A v \in StreamUsers : v # u => upc[v] \notin Managing
    BY <1>6 DEF BeginInitialize, Overlaps, ControlInv
  <2>2. \A v, w \in StreamUsers : upc'[v] \in Managing /\ upc'[w] \in Managing => v = w
    BY <1>2, <2>1
  <2>3. new \in 1..pools' \ dead' /\ new \notin 1..pools
    BY <1>1, <1>2
  <2>4. new # g_stream_manager
    BY <1>1, <2>1, <2>3 DEF Exists, Kept
  <2>5. ASSUME NEW p \in 1..new \ dead
        PROVE  p = g_stream_manager \/ \E v \in StreamUsers : InHand(v, p)'
    <3>1. CASE p = new
      BY <1>2, <3>1 DEF InHand
    <3>2. CASE p \in 1..pools
      <4>1. p = g_stream_manager \/ \E v \in StreamUsers : InHand(v, p)
        BY <2>1, <3>2 DEF Kept
      <4>2. ASSUME NEW v \in StreamUsers, InHand(v, p) PROVE FALSE
        BY <1>2, <2>1, <4>2 DEF InHand, Managing
      <4>3. QED BY <4>1, <4>2
    <3>3. QED BY <1>1, <3>1, <3>2
  <2>6. ASSUME NEW v \in StreamUsers
        PROVE  /\ upc'[v] = "store" => loaded'[v] = g_stream_manager
               /\ upc'[v] = "delete" => Exists(loaded[v])' /\ loaded'[v] # g_stream_manager
               /\ upc'[v] \in {"swap", "store"} /\ made'[v] # Null =>
                    Exists(made[v])' /\ made'[v] # g_stream_manager
    <3>1. CASE v = u
      <4>1. upc'[v] = "swap" /\ made'[v] = new
        BY <1>2, <3>1
      <4>2. Exists(made[v])'
        BY <2>3, <4>1 DEF Exists
      <4>3. QED BY <2>4, <4>1, <4>2
    <3>2. CASE v # u
      BY <1>2, <2>1, <3>2 DEF Managing
    <3>3. QED BY <3>1, <3>2
  <2>7. g_stream_manager' # Null => Exists(g_stream_manager)'
    BY <1>1, <1>2, <2>1 DEF Kept, Exists
  <2>8. \A p \in (1..pools \ dead)' :
           p = g_stream_manager' \/ \E v \in StreamUsers : InHand(v, p)'
    BY <1>1, <1>2, <2>5
  <2>9. QED BY <2>2, <2>6, <2>7, <2>8, <1>2 DEF Kept
<1>7. QED BY <1>4, <1>5, <1>6 DEF ControlInv

LEMMA LoadOldStep ==
  ASSUME ControlInv, NEW u \in StreamUsers, LoadOld(u)
  PROVE  ControlInv'
<1>1. /\ upc[u] = "swap" /\ made' = made
      /\ \A v \in StreamUsers : upc'[v] = IF v = u THEN "store" ELSE upc[v]
      /\ \A v \in StreamUsers : loaded'[v] = IF v = u THEN g_stream_manager ELSE loaded[v]
      /\ UNCHANGED <<g_initialized, g_stream_manager, pools, dead, overlapped, fallen>>
  BY DEF LoadOld, GoUser, ControlInv, ControlTyped, globals
<1>2. upc' \in [StreamUsers -> Places] /\ loaded' \in [StreamUsers -> -1..MaxPools]
  <2>1. g_stream_manager \in -1..MaxPools
    BY StreamAssumption DEF ControlInv, ControlTyped
  <2>2. "store" \in Places
    BY DEF Places, Managing
  <2>3. QED BY <2>1, <2>2 DEF LoadOld, GoUser, ControlInv, ControlTyped
<1>3. ControlTyped'
  BY <1>1, <1>2 DEF ControlInv, ControlTyped
<1>4. ASSUME NEW v \in StreamUsers, made'[v] # Null
      PROVE  upc'[v] \in {"swap", "store", "delete", "fill"}
  BY <1>1, <1>4 DEF ControlInv
<1>5. ASSUME ~overlapped PROVE Kept'
  <2>1. Kept
    BY <1>5 DEF ControlInv
  <2>2. \A v \in StreamUsers : upc'[v] \in Managing => upc[v] \in Managing
    BY <1>1 DEF Managing
  <2>3. \A v \in StreamUsers : \A p : InHand(v, p) => InHand(v, p)'
    BY <1>1 DEF InHand
  <2>4. ASSUME NEW v \in StreamUsers
        PROVE  /\ upc'[v] = "store" => loaded'[v] = g_stream_manager
               /\ upc'[v] = "delete" => Exists(loaded'[v]) /\ loaded'[v] # g_stream_manager
               /\ upc'[v] \in {"swap", "store"} /\ made'[v] # Null =>
                    Exists(made'[v]) /\ made'[v] # g_stream_manager
    BY <1>1, <2>1 DEF Kept
  <2>5. QED BY <1>1, <2>1, <2>2, <2>3, <2>4 DEF Kept, Exists
<1>6. QED BY <1>1, <1>3, <1>4, <1>5 DEF ControlInv

\* What there was is deleted next, if there was anything.
LEMMA StoreNewStep ==
  ASSUME ControlInv, NEW u \in StreamUsers, StoreNew(u)
  PROVE  ControlInv'
<1> DEFINE to == IF loaded[u] = Null THEN AfterSwap(u) ELSE "delete"
<1>1. /\ upc[u] = "store" /\ made' = made /\ g_stream_manager' = made[u]
      /\ UNCHANGED <<g_initialized, pools, dead, overlapped, fallen>>
      /\ \A v \in StreamUsers : v # u => loaded'[v] = loaded[v]
      /\ loaded[u] # Null => loaded'[u] = loaded[u]
  BY DEF StoreNew, GoUser, ControlInv, ControlTyped
<1>2. /\ \A v \in StreamUsers : upc'[v] = IF v = u THEN to ELSE upc[v]
      /\ upc' = [upc EXCEPT ![u] = to]
  BY DEF StoreNew, GoUser, ControlInv, ControlTyped
<1>3. /\ to \in {"fill", "unflag", "delete"} /\ (loaded[u] # Null <=> to = "delete")
      /\ (made[u] # Null => to # "unflag") /\ to \in Places
  BY DEF AfterSwap, Places, Managing
<1>4. loaded' \in [StreamUsers -> -1..MaxPools]
  <2>1. Unread \in -1..MaxPools
    BY StreamAssumption DEF Unread
  <2>2. QED BY <2>1 DEF StoreNew, ControlInv, ControlTyped
<1> HIDE DEF to
<1>5. ControlTyped'
  BY <1>1, <1>2, <1>3, <1>4 DEF ControlInv, ControlTyped
<1>6. ASSUME NEW v \in StreamUsers, made'[v] # Null
      PROVE  upc'[v] \in {"swap", "store", "delete", "fill"}
  BY <1>1, <1>2, <1>3, <1>6 DEF ControlInv
<1>7. ASSUME ~overlapped PROVE Kept'
  <2>1. /\ Kept /\ loaded[u] = g_stream_manager
        /\ \A v \in StreamUsers : v # u => upc[v] \notin Managing
    BY <1>1, <1>7 DEF ControlInv, Kept, Managing
  <2>2. \A v, w \in StreamUsers : upc'[v] \in Managing /\ upc'[w] \in Managing => v = w
    BY <1>2, <2>1
  <2>3. made[u] # Null => Exists(made[u]) /\ made[u] # g_stream_manager
    BY <1>1, <2>1 DEF Kept
  <2>4. loaded[u] # Null => Exists(loaded[u]) /\ loaded[u] # made[u]
    BY <2>1, <2>3 DEF Kept
  <2>5. ASSUME NEW p \in 1..pools \ dead
        PROVE  p = made[u] \/ \E v \in StreamUsers : InHand(v, p)'
    <3>1. p = g_stream_manager \/ \E v \in StreamUsers : InHand(v, p)
      BY <2>1 DEF Kept
    <3>2. CASE p = g_stream_manager
      <4>1. p = loaded[u] /\ p # Null
        BY <2>1, <3>2 DEF Null
      <4>2. upc'[u] = "delete" /\ loaded'[u] = p
        BY <1>1, <1>2, <1>3, <4>1
      <4>3. QED BY <4>2 DEF InHand
    <3>3. ASSUME NEW v \in StreamUsers, InHand(v, p) PROVE p = made[u]
      BY <1>1, <2>1, <3>3 DEF InHand, Managing
    <3>4. QED BY <3>1, <3>2, <3>3
  <2>6. ASSUME NEW v \in StreamUsers
        PROVE  /\ upc'[v] = "store" => loaded'[v] = made[u]
               /\ upc'[v] = "delete" => Exists(loaded'[v]) /\ loaded'[v] # made[u]
               /\ upc'[v] \in {"swap", "store"} /\ made'[v] # Null =>
                    Exists(made'[v]) /\ made'[v] # made[u]
    <3>1. CASE v = u
      BY <1>1, <1>2, <1>3, <2>4, <3>1
    <3>2. CASE v # u
      BY <1>2, <2>1, <3>2 DEF Managing
    <3>3. QED BY <3>1, <3>2
  <2>7. QED BY <1>1, <2>2, <2>3, <2>5, <2>6 DEF Kept, Exists
<1>8. QED BY <1>1, <1>5, <1>6, <1>7 DEF ControlInv

LEMMA DeleteOldStep ==
  ASSUME ControlInv, NEW u \in StreamUsers, DeleteOld(u)
  PROVE  ControlInv'
<1> DEFINE to == AfterSwap(u)
<1>1. /\ upc[u] = "delete" /\ made' = made /\ dead' = dead \cup {loaded[u]}
      /\ UNCHANGED <<g_initialized, g_stream_manager, pools, overlapped, fallen>>
      /\ loaded[u] \in 1..pools
      /\ \A v \in StreamUsers : v # u => loaded'[v] = loaded[v]
  BY DEF DeleteOld, GoUser, ControlInv, ControlTyped, globals, EmptyPool, Exists
<1>2. /\ \A v \in StreamUsers : upc'[v] = IF v = u THEN to ELSE upc[v]
      /\ upc' = [upc EXCEPT ![u] = to]
  BY DEF DeleteOld, GoUser, ControlInv, ControlTyped
<1>3. to \in {"fill", "unflag"} /\ (made[u] # Null => to = "fill") /\ to \in Places
  BY DEF AfterSwap, Places, Managing
<1>4. loaded' \in [StreamUsers -> -1..MaxPools]
  <2>1. Unread \in -1..MaxPools
    BY StreamAssumption DEF Unread
  <2>2. QED BY <2>1 DEF DeleteOld, ControlInv, ControlTyped
<1> HIDE DEF to
<1>5. ControlTyped'
  BY <1>1, <1>2, <1>3, <1>4 DEF ControlInv, ControlTyped
<1>6. ASSUME NEW v \in StreamUsers, made'[v] # Null
      PROVE  upc'[v] \in {"swap", "store", "delete", "fill"}
  BY <1>1, <1>2, <1>3, <1>6 DEF ControlInv
<1>7. ASSUME ~overlapped PROVE Kept'
  <2>1. /\ Kept /\ loaded[u] # g_stream_manager
        /\ \A v \in StreamUsers : v # u => upc[v] \notin Managing
    BY <1>1, <1>7 DEF ControlInv, Kept, Managing
  <2>2. \A v, w \in StreamUsers : upc'[v] \in Managing /\ upc'[w] \in Managing => v = w
    BY <1>2, <2>1
  <2>3. g_stream_manager # Null => g_stream_manager \in 1..pools \ dead'
    BY <1>1, <2>1 DEF Kept, Exists
  <2>4. ASSUME NEW p \in 1..pools \ dead' PROVE p = g_stream_manager
    <3>1. p \in 1..pools \ dead /\ p # loaded[u]
      BY <1>1
    <3>2. p = g_stream_manager \/ \E v \in StreamUsers : InHand(v, p)
      BY <2>1, <3>1 DEF Kept
    <3>3. ASSUME NEW v \in StreamUsers, InHand(v, p) PROVE FALSE
      BY <1>1, <2>1, <3>1, <3>3 DEF InHand, Managing
    <3>4. QED BY <3>2, <3>3
  <2>5. \A v \in StreamUsers : upc'[v] \notin {"swap", "store", "delete"}
    BY <1>2, <1>3, <2>1 DEF Managing
  <2>6. QED BY <1>1, <2>2, <2>3, <2>4, <2>5 DEF Kept, Exists
<1>8. QED BY <1>1, <1>5, <1>6, <1>7 DEF ControlInv

LEMMA ControlStep == ControlInv /\ [StreamNext]_streamVars => ControlInv'
<1> SUFFICES ASSUME ControlInv, [StreamNext]_streamVars PROVE ControlInv'
  OBVIOUS
<1>1. CASE UNCHANGED streamVars
  <2>1. UNCHANGED <<globals, pools, dead, upc, pointers, overlapped, fallen>>
    BY <1>1 DEF streamVars
  <2>2. UNCHANGED <<g_initialized, g_stream_manager, pools, dead, upc, loaded, made, overlapped,
                    fallen>>
    BY <2>1 DEF globals, pointers
  <2>3. QED BY <2>2 DEF ControlInv, ControlTyped, Kept, Exists, InHand
<1>2. ASSUME NEW u \in StreamUsers,
             \/ LoadPointer(u) \/ UseDangling(u) \/ FillPool(u) \/ FlagInitialized(u)
             \/ BeginCleanUp(u) \/ CleanPool(u) \/ UnflagInitialized(u)
             \/ BeginAcquire(u) \/ FindPool(u) \/ Acquire(u) \/ BeginRelease(u)
             \/ \E s \in lent[u] : Release(u, s) \/ ReleaseNowhere(u, s)
      PROVE  ControlInv'
  <2>1. /\ upc \in [StreamUsers -> Places] /\ upc[u] \in Places
        /\ loaded \in [StreamUsers -> -1..MaxPools] /\ made \in [StreamUsers -> 0..MaxPools]
        /\ g_stream_manager \in -1..MaxPools /\ Unread \in -1..MaxPools
        /\ Null \in 0..MaxPools
        /\ {g_initialized, overlapped, fallen} \subseteq BOOLEAN
        /\ (made[u] # Null => upc[u] \in {"swap", "store", "delete", "fill"})
    BY StreamAssumption DEF ControlInv, ControlTyped, Unread, Null
  <2>2. \A place : GoUser(u, place, upc'[u]) => upc[u] = place
    BY DEF GoUser
  <2>3. CASE LoadPointer(u) \/ UseDangling(u)
    <3>1. CASE LoadPointer(u)
      <4>1. upc[u] \in Calling /\ upc[u] \notin {"swap", "store", "delete"}
        BY <3>1 DEF LoadPointer, Calling
      <4>2. Moves(u, upc[u]) /\ made' = made
        BY <2>1, <3>1 DEF LoadPointer, Moves
      <4>3. UNCHANGED <<pools, dead, g_stream_manager, g_initialized, fallen, overlapped>>
        BY <3>1 DEF LoadPointer, globals
      <4>4. QED BY <2>1, <4>1, <4>2, <4>3, QuietStep
    <3>2. CASE UseDangling(u)
      <4>1. /\ fallen' = TRUE
            /\ UNCHANGED <<g_initialized, g_stream_manager, pools, dead, upc, loaded, made,
                           overlapped>>
        BY <3>2 DEF UseDangling, globals, pointers
      <4>2. QED BY <4>1 DEF ControlInv, ControlTyped, Kept, Exists, InHand
    <3>3. QED BY <2>3, <3>1, <3>2
  <2>4. CASE FillPool(u)
    <3>1. PICK to \in {"flag", "jammed"} : GoUser(u, "fill", to)
      BY <2>4 DEF FillPool
    <3>2. Moves(u, to) /\ made'[u] = Null
      BY <2>1, <2>4, <3>1 DEF FillPool, Forget, GoUser, Moves
    <3>3. UNCHANGED <<pools, dead, g_stream_manager, g_initialized, fallen, overlapped>>
      BY <2>4 DEF FillPool, globals
    <3>4. upc[u] = "fill" /\ to \in Places
      BY <3>1 DEF GoUser, Places, Managing
    <3>5. to \in Managing /\ upc[u] \in Managing
      BY <3>4 DEF Managing
    <3>6. QED BY <2>1, <3>1, <3>2, <3>3, <3>4, <3>5, QuietStep
  <2>5. CASE FlagInitialized(u) \/ UnflagInitialized(u)
    <3>1. /\ upc[u] \in {"flag", "unflag"} /\ upc' = [upc EXCEPT ![u] = "idle"]
          /\ UNCHANGED <<pools, dead, g_stream_manager, fallen, overlapped, loaded, made>>
          /\ g_initialized' \in BOOLEAN
      BY <2>5 DEF FlagInitialized, UnflagInitialized, GoUser, pointers
    <3>2. Moves(u, "idle") /\ made[u] = Null
      BY <2>1, <3>1 DEF Moves
    <3>3. "idle" \in Places /\ "idle" \notin Managing
      BY DEF Places, Managing
    <3>4. QED BY <2>1, <3>1, <3>2, <3>3, QuietStep
  <2>6. CASE BeginCleanUp(u)
    <3>1. PICK to \in {"clean", "swap"} : GoUser(u, "idle", to)
      BY <2>6 DEF BeginCleanUp
    <3>2. /\ upc[u] = "idle" /\ Moves(u, to) /\ made'[u] = Null
          /\ UNCHANGED <<pools, dead, g_stream_manager, g_initialized, fallen>>
      BY <2>1, <2>6, <3>1 DEF BeginCleanUp, GoUser, Moves, globals, pointers
    <3>3. Observed(u) /\ overlapped' \in BOOLEAN
      BY <2>1, <2>6 DEF BeginCleanUp, Overlaps, Observed
    <3>4. to \in Places
      BY DEF Places, Managing
    <3>5. QED BY <2>1, <3>1, <3>2, <3>3, <3>4, QuietStep
  <2>7. CASE CleanPool(u)
    <3>1. /\ upc[u] = "clean" /\ upc' = [upc EXCEPT ![u] = "swap"]
          /\ UNCHANGED <<pools, dead, g_stream_manager, g_initialized, fallen, overlapped, made>>
          /\ loaded' = [loaded EXCEPT ![u] = Unread]
      BY <2>7 DEF CleanPool, GoUser, globals
    <3>2. Moves(u, "swap") /\ made[u] = Null
      BY <2>1, <3>1 DEF Moves
    <3>3. "swap" \in Places /\ upc[u] \in Managing
      BY <3>1 DEF Places, Managing
    <3>4. QED BY <2>1, <3>1, <3>2, <3>3, QuietStep
  <2>8. CASE BeginAcquire(u) \/ FindPool(u) \/ BeginRelease(u)
    <3>1. PICK to \in {"found", "acquire", "release", "idle"} :
            upc[u] \in {"idle", "found"} /\ upc' = [upc EXCEPT ![u] = to]
      BY <2>8 DEF BeginAcquire, FindPool, BeginRelease, GoUser
    <3>2. UNCHANGED <<pools, dead, g_stream_manager, g_initialized, fallen, overlapped, loaded, made>>
      BY <2>8 DEF BeginAcquire, FindPool, BeginRelease, globals, pointers
    <3>3. Moves(u, to) /\ made[u] = Null
      BY <2>1, <3>1, <3>2 DEF Moves
    <3>4. to \in Places /\ to \notin Managing
      BY DEF Places, Managing
    <3>5. QED BY <2>1, <3>1, <3>2, <3>3, <3>4, QuietStep
  <2>9. CASE Acquire(u) \/ \E s \in lent[u] : Release(u, s)
    <3>1. /\ upc[u] \in {"acquire", "release"} /\ upc' = [upc EXCEPT ![u] = "idle"]
          /\ Forget(u)
          /\ UNCHANGED <<pools, dead, g_stream_manager, g_initialized, fallen, overlapped>>
      BY <2>9 DEF Acquire, Release, GoUser, globals
    <3>2. Moves(u, "idle") /\ made'[u] = Null
      BY <2>1, <3>1 DEF Moves, Forget
    <3>3. "idle" \in Places /\ "idle" \notin Managing
      BY DEF Places, Managing
    <3>4. QED BY <2>1, <3>1, <3>2, <3>3, QuietStep
  <2>10. CASE \E s \in lent[u] : ReleaseNowhere(u, s)
    <3>1. UNCHANGED <<g_initialized, g_stream_manager, pools, dead, upc, loaded, made, overlapped,
                      fallen>>
      BY <2>10 DEF ReleaseNowhere, globals, pointers
    <3>2. QED BY <3>1 DEF ControlInv, ControlTyped, Kept, Exists, InHand
  <2>11. QED BY <1>2, <2>3, <2>4, <2>5, <2>6, <2>7, <2>8, <2>9, <2>10
<1>3. CASE StreamNext
  <2>1. PICK u \in StreamUsers :
          \/ LoadPointer(u) \/ UseDangling(u) \/ LoadOld(u) \/ StoreNew(u) \/ DeleteOld(u)
          \/ BeginInitialize(u) \/ FillPool(u) \/ FlagInitialized(u)
          \/ BeginCleanUp(u) \/ CleanPool(u) \/ UnflagInitialized(u)
          \/ BeginAcquire(u) \/ FindPool(u) \/ Acquire(u) \/ BeginRelease(u)
          \/ \E s \in lent[u] : Release(u, s) \/ ReleaseNowhere(u, s)
    BY <1>3 DEF StreamNext
  <2>2. QED BY <1>2, <2>1, LoadOldStep, StoreNewStep, DeleteOldStep, BeginInitializeStep
<1>4. QED BY <1>1, <1>3

StreamInv == ContentsInv /\ ControlInv

LEMMA StreamStart == StreamInit => StreamInv
BY ContentsStart, ControlStart DEF StreamInv

LEMMA StreamStep == StreamInv /\ [StreamNext]_streamVars => StreamInv'
BY ContentsStep, ControlStep DEF StreamInv, ControlInv, ControlTyped

LEMMA StreamInvMeans == StreamInv => StreamTypeOK /\ StreamsAccounted /\ PoolsKept
<1> SUFFICES ASSUME StreamInv PROVE StreamTypeOK /\ StreamsAccounted /\ PoolsKept
  OBVIOUS
<1>1. dead \subseteq Pools
  BY StreamAssumption DEF StreamInv, ControlInv, ControlTyped, Pools
<1>2. StreamTypeOK
  BY <1>1 DEF StreamInv, ControlInv, ContentsInv, ControlTyped, ContentsTyped, StreamTypeOK
<1>3. ASSUME ~careless PROVE live = (UNION Range(streams_)) \cup LentStreams
  <2>1. /\ DOMAIN streams_ = Pools
        /\ \A h : h \in live <=> (\E p \in Pools : h \in streams_[p]) \/ h \in Held(lent)
    BY <1>3 DEF StreamInv, ContentsInv, ContentsTyped, Accounted
  <2>2. \A h : h \in UNION Range(streams_) <=> \E p \in Pools : h \in streams_[p]
    BY <2>1 DEF Range
  <2>3. \A h : h \in live <=> h \in UNION Range(streams_) \/ h \in LentStreams
    <3>1. LentStreams = Held(lent)
      BY DEF LentStreams, Held
    <3>2. QED BY <2>1, <2>2, <3>1
  <2>4. QED BY <2>3
<1>4. StreamsAccounted
  BY <1>3 DEF StreamInv, ContentsInv, StreamsAccounted, Accounted, Apart, Held, LentStreams
<1>5. PoolsKept
  BY DEF StreamInv, ControlInv, Kept, PoolsKept
<1>6. QED BY <1>2, <1>4, <1>5

\* However threads initialize, clean up, acquire and release at once: while nobody
\* is careless no stream is lent twice, or lent and available, and none is lost;
\* and while no two initialize or clean up at once no pool is lost or deleted twice.
THEOREM StreamPoolAccountsForAll == StreamSpec => [](StreamsAccounted /\ PoolsKept)
BY StreamStart, StreamStep, StreamInvMeans, PTL DEF StreamSpec

-----------------------------------------------------------------------------
(* The prefetcher: what followed what *)

PlacesOf(s, pair) == {i \in 1..(Len(s) - 1) : <<s[i], s[i + 1]>> = pair}

LEMMA TimesTyped ==
  ASSUME NEW S, NEW s \in Seq(S), NEW pair
  PROVE  /\ IsFiniteSet(PlacesOf(s, pair)) /\ Times(s, pair) = Cardinality(PlacesOf(s, pair))
         /\ Times(s, pair) \in Nat
         /\ pair \notin Pairs(s) => Times(s, pair) = 0
<1>1. Len(s) \in Nat
  BY LenProperties
<1>2. IsFiniteSet(1..(Len(s) - 1)) /\ PlacesOf(s, pair) \in SUBSET (1..(Len(s) - 1))
  BY <1>1, FS_Interval DEF PlacesOf
<1>3. IsFiniteSet(PlacesOf(s, pair))
  BY <1>2, FS_Subset
<1>4. Times(s, pair) = Cardinality(PlacesOf(s, pair))
  BY DEF Times, PlacesOf
<1>5. pair \notin Pairs(s) => PlacesOf(s, pair) = {}
  BY DEF Pairs, PlacesOf
<1>6. QED BY <1>3, <1>4, <1>5, FS_CardinalityType, FS_EmptySet

\* One sequence has the pairs of another, or one more of them.
SamePairs(s, t) == Pairs(t) = Pairs(s) /\ \A pair : Times(t, pair) = Times(s, pair)
OneMore(s, t, last) ==
  /\ Pairs(t) = Pairs(s) \cup {last}
  /\ Times(t, last) = Times(s, last) + 1
  /\ \A pair : pair # last => Times(t, pair) = Times(s, pair)

\* One more access: one more pair, the last access and this one.
LEMMA OneMorePair ==
  ASSUME NEW S, NEW s \in Seq(S), NEW b \in S, NEW n, n = Len(s), NEW t, t = Append(s, b)
  PROVE  /\ n = 0 => SamePairs(s, t)
         /\ n > 0 => OneMore(s, t, <<s[n], b>>)
<1>1. /\ n \in Nat /\ t \in Seq(S) /\ Len(t) = n + 1 /\ t[n + 1] = b
      /\ \A i \in 1..n : t[i] = s[i]
  BY LenProperties, AppendProperties
<1>2. CASE n = 0
  <2>1. \A i : i \notin 1..(Len(s) - 1) /\ i \notin 1..(Len(t) - 1)
    BY <1>1, <1>2
  <2>2. Pairs(t) = {} /\ Pairs(s) = {}
    BY <2>1 DEF Pairs
  <2>3. \A pair : PlacesOf(t, pair) = {} /\ PlacesOf(s, pair) = {}
    BY <2>1 DEF PlacesOf
  <2>4. \A pair : Times(t, pair) = Times(s, pair)
    BY <2>3 DEF Times, PlacesOf
  <2>5. QED BY <1>2, <2>2, <2>4 DEF SamePairs
<1>3. CASE n > 0
  <2> DEFINE last == <<s[n], b>>
             two(i) == <<s[i], s[i + 1]>>
  <2>1. \A i \in 1..n : t[i] = s[i] /\ t[i + 1] = IF i = n THEN b ELSE s[i + 1]
    <3> SUFFICES ASSUME NEW i \in 1..n
                 PROVE  t[i] = s[i] /\ t[i + 1] = IF i = n THEN b ELSE s[i + 1]
      OBVIOUS
    <3>1. CASE i = n
      BY <1>1, <3>1
    <3>2. CASE i # n
      <4>1. i + 1 \in 1..n
        BY <1>1, <3>2
      <4>2. QED BY <1>1, <3>2, <4>1
    <3>3. QED BY <3>1, <3>2
  <2>2. \A i \in 1..n : <<t[i], t[i + 1]>> = IF i = n THEN last ELSE two(i)
    BY <2>1
  <2>3. /\ Len(t) - 1 = n /\ n \in 1..n
        /\ \A i : i \in 1..n <=> i \in 1..(n - 1) \/ i = n
        /\ \A i \in 1..(n - 1) : i # n /\ i \in 1..n
    BY <1>1, <1>3
  <2> HIDE DEF last, two
  <2>4. \A pair : pair \in Pairs(t) <=> \E i \in 1..n : pair = <<t[i], t[i + 1]>>
    BY <2>3 DEF Pairs
  <2>5. \A pair : pair \in Pairs(s) <=> \E i \in 1..(n - 1) : pair = two(i)
    BY DEF Pairs, two
  <2>6. Pairs(t) = Pairs(s) \cup {last}
    <3>1. \A pair : pair \in Pairs(t) <=> pair \in Pairs(s) \/ pair = last
      <4>1. ASSUME NEW pair \in Pairs(t) PROVE pair \in Pairs(s) \/ pair = last
        <5>1. PICK i \in 1..n : pair = <<t[i], t[i + 1]>>
          BY <2>4
        <5>2. CASE i = n
          BY <2>2, <5>1, <5>2
        <5>3. CASE i # n
          BY <2>2, <2>3, <2>5, <5>1, <5>3
        <5>4. QED BY <5>2, <5>3
      <4>2. ASSUME NEW pair \in Pairs(s) PROVE pair \in Pairs(t)
        <5>1. PICK i \in 1..(n - 1) : pair = two(i)
          BY <2>5
        <5>2. i \in 1..n /\ i # n
          BY <2>3
        <5>3. QED BY <2>2, <2>4, <5>1, <5>2
      <4>3. last \in Pairs(t)
        BY <2>2, <2>3, <2>4
      <4>4. QED BY <4>1, <4>2, <4>3
    <3>2. QED BY <3>1
  <2>7. \A pair, i : i \in PlacesOf(t, pair) <=> i \in 1..n /\ <<t[i], t[i + 1]>> = pair
    BY <2>3 DEF PlacesOf
  <2>8. \A pair, i : i \in PlacesOf(s, pair) <=> i \in 1..(n - 1) /\ two(i) = pair
    BY DEF PlacesOf, two
  <2>9. \A pair, i : i \in PlacesOf(t, pair)
                      <=> i \in PlacesOf(s, pair) \/ (pair = last /\ i = n)
    <3> SUFFICES ASSUME NEW pair, NEW i
                 PROVE  i \in PlacesOf(t, pair)
                        <=> i \in PlacesOf(s, pair) \/ (pair = last /\ i = n)
      OBVIOUS
    <3>1. i \in PlacesOf(t, pair) <=> i \in 1..n /\ <<t[i], t[i + 1]>> = pair
      BY <2>7
    <3>2. i \in PlacesOf(s, pair) <=> i \in 1..(n - 1) /\ two(i) = pair
      BY <2>8
    <3>3. QED BY <2>2, <2>3, <3>1, <3>2
  <2>10. \A pair : n \notin PlacesOf(s, pair)
    BY <2>3, <2>8
  <2>11. Times(t, last) = Times(s, last) + 1
    <3>1. PlacesOf(t, last) = PlacesOf(s, last) \cup {n}
      BY <2>9
    <3>4. IsFiniteSet(PlacesOf(s, last))
      BY TimesTyped
    <3>2. Cardinality(PlacesOf(t, last)) = Cardinality(PlacesOf(s, last)) + 1
      BY <2>10, <3>1, <3>4, FS_AddElement
    <3>3. QED BY <1>1, <3>2, TimesTyped
  <2>12. \A pair : pair # last => Times(t, pair) = Times(s, pair)
    <3> SUFFICES ASSUME NEW pair, pair # last PROVE Times(t, pair) = Times(s, pair)
      OBVIOUS
    <3>1. \A i : i \in PlacesOf(t, pair) <=> i \in PlacesOf(s, pair)
      BY <2>9
    <3>2. PlacesOf(t, pair) = PlacesOf(s, pair)
      BY <3>1 DEF PlacesOf
    <3>3. QED BY <1>1, <3>2, TimesTyped
  <2>13. QED BY <1>3, <2>6, <2>11, <2>12 DEF OneMore, last
<1>4. QED BY <1>1, <1>2, <1>3

PrefetchInv ==
  /\ config_ \in [strategy : Strategies, window : Windows] /\ narrow \in BOOLEAN
  /\ recent_accesses_ \in Seq(PrefetchBlocks) /\ accessed \in Seq(PrefetchBlocks)
  /\ \A pair \in DOMAIN transition_matrix_ : transition_matrix_[pair] \in Nat
  /\ recent_accesses_ # <<>> =>
       accessed # <<>> /\ recent_accesses_[Len(recent_accesses_)] = accessed[Len(accessed)]
  /\ ~narrow => config_.window >= 2 /\ (accessed # <<>> => recent_accesses_ # <<>>)
  /\ TransitionsCounted

LEMMA PrefetchStart == PrefetcherInit => PrefetchInv
<1> SUFFICES ASSUME PrefetcherInit PROVE PrefetchInv
  OBVIOUS
<1>1. /\ config_ \in [strategy : Strategies, window : Windows]
      /\ recent_accesses_ = <<>> /\ transition_matrix_ = <<>> /\ accessed = <<>>
      /\ narrow = (config_.window < 2)
  BY DEF PrefetcherInit
<1>2. recent_accesses_ \in Seq(PrefetchBlocks) /\ accessed \in Seq(PrefetchBlocks)
  BY <1>1, EmptySeq
<1>3. config_.window \in Nat
  BY <1>1, PrefetchAssumption
<1>4. DOMAIN transition_matrix_ = {} /\ Pairs(accessed) = {}
  BY <1>1 DEF Pairs
<1>5. TransitionsCounted
  <2>1. transition_matrix_ = [pair \in Pairs(accessed) |-> Times(accessed, pair)]
    <3>1. transition_matrix_ = [pair \in {} |-> Times(accessed, pair)]
      BY <1>1
    <3>2. QED BY <1>4, <3>1, Zenon
  <2>2. QED BY <1>4, <2>1 DEF TransitionsCounted
<1>6. narrow \in BOOLEAN
  BY <1>1
<1>7. ~narrow => config_.window >= 2
  <2>1. ~narrow => ~(config_.window < 2)
    BY <1>1
  <2>2. QED BY <1>3, <2>1
<1>8. QED BY <1>1, <1>2, <1>4, <1>5, <1>6, <1>7 DEF PrefetchInv

\* The window after an access.
LEMMA WindowMoves ==
  ASSUME PrefetchInv, NEW b \in PrefetchBlocks,
         NEW t, t = TrimmedWindow(Append(recent_accesses_, b))
  PROVE  /\ t \in Seq(PrefetchBlocks) /\ Len(t) \in Nat
         /\ t # <<>> => t[Len(t)] = b
         /\ Len(t) >= 2 => /\ recent_accesses_ # <<>>
                           /\ t[Len(t) - 1] = recent_accesses_[Len(recent_accesses_)]
         /\ config_.window >= 2 => t # <<>>
         /\ config_.window >= 2 /\ recent_accesses_ # <<>> => Len(t) >= 2
<1>1. PICK s : s = Append(recent_accesses_, b)
  OBVIOUS
<1>2. PICK n : n = Len(recent_accesses_)
  OBVIOUS
<1>3. /\ recent_accesses_ \in Seq(PrefetchBlocks) /\ n \in Nat
      /\ recent_accesses_ = <<>> <=> n = 0
  BY <1>2, EmptySeq, LenProperties DEF PrefetchInv
<1>4. /\ s \in Seq(PrefetchBlocks) /\ Len(s) = n + 1 /\ s[n + 1] = b
      /\ \A i \in 1..n : s[i] = recent_accesses_[i]
  BY <1>1, <1>2, <1>3, AppendProperties
<1>5. config_.window \in Nat
  BY PrefetchAssumption DEF PrefetchInv
<1>6. CASE t = s /\ ~(n + 1 > config_.window)
  <2>1. n > 0 => s[n] = recent_accesses_[n]
    BY <1>3, <1>4
  <2>2. s # <<>>
    BY <1>3, <1>4, EmptySeq
  <2>3. QED BY <1>2, <1>3, <1>4, <1>6, <2>1, <2>2
<1>7. CASE t = Tail(s) /\ n + 1 > config_.window
  <2>1. s # <<>>
    BY <1>3, <1>4, EmptySeq
  <2>2. /\ t \in Seq(PrefetchBlocks) /\ Len(t) = n
        /\ \A i \in 1..n : t[i] = s[i + 1]
    BY <1>3, <1>4, <1>7, <2>1, HeadTailProperties
  <2>3. t = <<>> <=> n = 0
    BY <2>2, EmptySeq
  <2>4. n > 0 => t[n] = b
    BY <1>3, <1>4, <2>2
  <2>5. n >= 2 => t[n - 1] = recent_accesses_[n]
    <3> SUFFICES ASSUME n >= 2 PROVE t[n - 1] = recent_accesses_[n]
      OBVIOUS
    <3>1. n - 1 \in 1..n /\ (n - 1) + 1 = n /\ n \in 1..n
      BY <1>3
    <3>2. t[n - 1] = s[n] /\ s[n] = recent_accesses_[n]
      BY <1>4, <2>2, <3>1
    <3>3. QED BY <3>2
  <2>6. QED BY <1>2, <1>3, <1>5, <1>7, <2>2, <2>3, <2>4, <2>5
<1>8. QED BY <1>1, <1>4, <1>6, <1>7 DEF TrimmedWindow

LEMMA UpdateModelStep ==
  ASSUME PrefetchInv, NEW b \in PrefetchBlocks, UpdateModel(b)
  PROVE  PrefetchInv'
<1>1. PICK t : t = TrimmedWindow(Append(recent_accesses_, b))
  OBVIOUS
<1>2. PICK n : n = Len(accessed)
  OBVIOUS
<1>3. PICK s : s = accessed'
  OBVIOUS
<1>4. PICK pair : pair = <<t[Len(t) - 1], b>>
  OBVIOUS
<1>5. PICK m : m = transition_matrix_'
  OBVIOUS
<1>6. /\ s = Append(accessed, b) /\ recent_accesses_' = t
      /\ m = IF Len(t) >= 2
             THEN Added(transition_matrix_, pair, Lookup(transition_matrix_, pair, 0) + 1)
             ELSE transition_matrix_
      /\ UNCHANGED <<config_, narrow>>
  BY <1>1, <1>3, <1>4, <1>5, Zenon DEF UpdateModel
<1>7. /\ t \in Seq(PrefetchBlocks) /\ Len(t) \in Nat
      /\ t # <<>> => t[Len(t)] = b
      /\ Len(t) >= 2 => /\ recent_accesses_ # <<>>
                        /\ t[Len(t) - 1] = recent_accesses_[Len(recent_accesses_)]
      /\ config_.window >= 2 => t # <<>>
      /\ config_.window >= 2 /\ recent_accesses_ # <<>> => Len(t) >= 2
  BY <1>1, WindowMoves
<1>8. /\ accessed \in Seq(PrefetchBlocks) /\ n \in Nat /\ (accessed = <<>> <=> n = 0)
  BY <1>2, EmptySeq, LenProperties DEF PrefetchInv
<1>9. /\ s \in Seq(PrefetchBlocks) /\ Len(s) = n + 1 /\ s[n + 1] = b
  BY <1>2, <1>6, <1>8, AppendProperties
<1>10. s # <<>>
  BY <1>8, <1>9, EmptySeq
<1>11. /\ n = 0 => Pairs(s) = Pairs(accessed) /\ \A p : Times(s, p) = Times(accessed, p)
       /\ n > 0 => /\ Pairs(s) = Pairs(accessed) \cup {<<accessed[n], b>>}
                   /\ Times(s, <<accessed[n], b>>) = Times(accessed, <<accessed[n], b>>) + 1
                   /\ \A p : p # <<accessed[n], b>> => Times(s, p) = Times(accessed, p)
  <2>1. (n = 0 => SamePairs(accessed, s)) /\ (n > 0 => OneMore(accessed, s, <<accessed[n], b>>))
    BY <1>2, <1>6, <1>8, OneMorePair
  <2>2. QED BY <2>1 DEF SamePairs, OneMore
<1>12. \A p : /\ Times(accessed, p) \in Nat
              /\ p \notin Pairs(accessed) => Times(accessed, p) = 0
  BY <1>8, TimesTyped
<1>13. /\ DOMAIN transition_matrix_ \subseteq Pairs(accessed)
       /\ \A p \in DOMAIN transition_matrix_ :
            transition_matrix_[p] \in Nat /\ transition_matrix_[p] <= Times(accessed, p)
       /\ ~narrow => /\ DOMAIN transition_matrix_ = Pairs(accessed)
                     /\ \A p \in Pairs(accessed) : transition_matrix_[p] = Times(accessed, p)
  BY DEF PrefetchInv, TransitionsCounted
<1>14. /\ DOMAIN m \subseteq Pairs(s)
       /\ \A p \in DOMAIN m : m[p] \in Nat /\ m[p] <= Times(s, p)
       /\ ~narrow => /\ DOMAIN m = Pairs(s)
                     /\ \A p \in Pairs(s) : m[p] = Times(s, p)
  <2>1. CASE Len(t) >= 2
    <3>1. n > 0 /\ pair = <<accessed[n], b>>
      <4>1. accessed # <<>> /\ t[Len(t) - 1] = accessed[n]
        BY <1>2, <1>7, <2>1 DEF PrefetchInv
      <4>2. QED BY <1>4, <1>8, <4>1
    <3>2. PICK c : c = Lookup(transition_matrix_, pair, 0)
      OBVIOUS
    <3>3. /\ DOMAIN m = DOMAIN transition_matrix_ \cup {pair} /\ m[pair] = c + 1
          /\ \A p \in DOMAIN transition_matrix_ : p # pair => m[p] = transition_matrix_[p]
      <4>1. m = Added(transition_matrix_, pair, c + 1)
        BY <1>6, <2>1, <3>2
      <4>2. QED BY <4>1 DEF Added
    <3>4. c \in Nat /\ c <= Times(accessed, pair) /\ (~narrow => c = Times(accessed, pair))
      BY <1>12, <1>13, <3>2 DEF Lookup
    <3>5. /\ Pairs(s) = Pairs(accessed) \cup {pair}
          /\ Times(s, pair) = Times(accessed, pair) + 1
          /\ \A p : p # pair => Times(s, p) = Times(accessed, p)
      BY <1>11, <3>1
    <3>6. m[pair] \in Nat /\ m[pair] <= Times(s, pair) /\ (~narrow => m[pair] = Times(s, pair))
      BY <1>12, <3>3, <3>4, <3>5
    <3>7. QED BY <1>13, <3>3, <3>5, <3>6
  <2>2. CASE ~(Len(t) >= 2)
    <3>1. m = transition_matrix_
      BY <1>6, <2>2
    <3>2. ~narrow => n = 0
      BY <1>7, <1>8, <2>2 DEF PrefetchInv
    <3>3. Pairs(accessed) \subseteq Pairs(s) /\ \A p : Times(accessed, p) <= Times(s, p)
      <4>1. CASE n = 0
        BY <1>11, <1>12, <4>1
      <4>2. CASE n > 0
        <5>1. \A p : p = <<accessed[n], b>> \/ p # <<accessed[n], b>>
          OBVIOUS
        <5>2. QED BY <1>11, <1>12, <4>2, <5>1
      <4>3. QED BY <1>8, <4>1, <4>2
    <3>4. \A p \in DOMAIN m : m[p] \in Nat /\ m[p] <= Times(s, p)
      <4> SUFFICES ASSUME NEW p \in DOMAIN m PROVE m[p] \in Nat /\ m[p] <= Times(s, p)
        OBVIOUS
      <4>1. m[p] \in Nat /\ m[p] <= Times(accessed, p) /\ Times(accessed, p) <= Times(s, p)
        BY <1>13, <3>1, <3>3
      <4>2. Times(accessed, p) \in Nat /\ Times(s, p) \in Nat
        BY <1>9, <1>12, TimesTyped
      <4>3. QED BY <4>1, <4>2
    <3>5. QED BY <1>11, <1>13, <3>1, <3>2, <3>3, <3>4
  <2>3. QED BY <2>1, <2>2
<1>15. TransitionsCounted'
  <2>1. /\ DOMAIN m \subseteq Pairs(s) /\ \A p \in DOMAIN m : m[p] <= Times(s, p)
    BY <1>14
  <2>2. ~narrow => m = [p \in Pairs(s) |-> Times(s, p)]
    <3> SUFFICES ASSUME ~narrow PROVE m = [p \in Pairs(s) |-> Times(s, p)]
      OBVIOUS
    <3>1. m = [p \in DOMAIN m |-> m[p]]
      <4>1. CASE Len(t) >= 2
        BY <1>6, <4>1 DEF Added
      <4>2. CASE ~(Len(t) >= 2)
        BY <1>6, <4>2 DEF PrefetchInv, TransitionsCounted
      <4>3. QED BY <4>1, <4>2
    <3>2. QED BY <1>14, <3>1
  <2>3. narrow' = narrow
    BY <1>6
  <2>4. QED BY <1>3, <1>5, <2>1, <2>2, <2>3 DEF TransitionsCounted
<1>16. ~narrow => config_.window >= 2 /\ t # <<>>
  BY <1>7 DEF PrefetchInv
<1>17. QED
  BY <1>3, <1>5, <1>6, <1>7, <1>9, <1>10, <1>14, <1>15, <1>16 DEF PrefetchInv

LEMMA PrefetchStep == PrefetchInv /\ [PrefetcherNext]_prefetchVars => PrefetchInv'
<1> SUFFICES ASSUME PrefetchInv, [PrefetcherNext]_prefetchVars PROVE PrefetchInv'
  OBVIOUS
<1>1. ASSUME UNCHANGED <<config_, model, narrow>> PROVE PrefetchInv'
  BY <1>1 DEF PrefetchInv, TransitionsCounted, model
<1>2. CASE UNCHANGED prefetchVars
  BY <1>1, <1>2 DEF prefetchVars
<1>3. ASSUME NEW strategy \in Strategies, NEW window \in Windows, SetConfig(strategy, window)
      PROVE  PrefetchInv'
  <2>1. /\ config_' = [strategy |-> strategy, window |-> window]
        /\ narrow' = (narrow \/ window < 2) /\ UNCHANGED model
    BY <1>3 DEF SetConfig
  <2>2. config_' \in [strategy : Strategies, window : Windows] /\ config_'.window = window
    BY <2>1
  <2>3. window \in Nat
    BY PrefetchAssumption
  <2>4. ~narrow' => ~narrow /\ window >= 2
    <3>1. ~narrow' => ~narrow /\ ~(window < 2)
      BY <2>1
    <3>2. QED BY <2>3, <3>1
  <2>5. narrow' \in BOOLEAN
    BY <2>1
  <2>6. TransitionsCounted'
    BY <2>1, <2>4 DEF PrefetchInv, TransitionsCounted, model
  <2>7. QED BY <2>1, <2>2, <2>4, <2>5, <2>6 DEF PrefetchInv, model
<1>4. CASE PrefetcherNext
  BY <1>1, <1>3, <1>4, UpdateModelStep
     DEF PrefetcherNext, Predict, ReturnsEmpty, LocksAgain
<1>5. QED BY <1>2, <1>4

\* The prefetcher's matrix counts what followed what, for any blocks, windows and
\* callers.
THEOREM PrefetcherCounts == PrefetcherSpec => []TransitionsCounted
<1>1. PrefetchInv => TransitionsCounted
  BY DEF PrefetchInv
<1>2. QED BY <1>1, PrefetchStart, PrefetchStep, PTL DEF PrefetcherSpec

-----------------------------------------------------------------------------
(* The types of the prefetcher *)

FetchTyped ==
  /\ predictions \in [PrefetchCallers -> Seq(Nat) \cup {NotPredicted}]
  /\ waiting_ \subseteq PrefetchCallers

LEMMA SequentialTyped ==
  ASSUME NEW b \in Nat
  PROVE  Sequential(b) \in Seq(Nat) /\ Len(Sequential(b)) = Lookahead /\ Lookahead \in Nat
<1>1. Lookahead \in Nat
  BY PrefetchAssumption
<1>2. Sequential(b) \in [1..Lookahead -> Nat]
  BY <1>1 DEF Sequential
<1>3. Sequential(b) \in Seq(Nat)
  BY <1>1, <1>2, SeqDef
<1>4. QED BY <1>1, <1>2, <1>3, LenProperties

\* A beginning of a sequence.
LEMMA BeginningTyped ==
  ASSUME NEW S, NEW s \in Seq(S), NEW n \in 0..Len(s)
  PROVE  SubSeq(s, 1, n) \in Seq(S)
<1>1. Len(s) \in Nat /\ n \in Int
  BY LenProperties
<1>2. \A i \in 1..n : s[i] \in S
  BY <1>1, ElementOfSeq
<1>3. QED BY <1>1, <1>2, SubSeqProperties

LEMMA FollowersTyped ==
  ASSUME PrefetchInv, NEW b
  PROVE  Followers(b) \subseteq Nat
<1>1. /\ DOMAIN transition_matrix_ \subseteq Pairs(accessed)
      /\ accessed \in Seq(PrefetchBlocks)
  BY DEF PrefetchInv, TransitionsCounted
<1>2. Len(accessed) \in Nat /\ \A i \in 1..Len(accessed) : accessed[i] \in PrefetchBlocks
  BY <1>1, LenProperties, ElementOfSeq
<1>3. \A i \in 1..(Len(accessed) - 1) : i + 1 \in 1..Len(accessed)
  BY <1>2
<1>4. \A pair \in Pairs(accessed) : pair[2] \in PrefetchBlocks
  BY <1>2, <1>3 DEF Pairs
<1>5. QED BY <1>1, <1>4, PrefetchAssumption DEF Followers

LEMMA PredictionsTyped ==
  ASSUME PrefetchInv, NEW b \in PrefetchBlocks, NEW p \in PredictNextBlocks(b)
  PROVE  p \in Seq(Nat)
<1>1. b \in Nat /\ config_.strategy \in {"SEQUENTIAL", "MARKOV", "ADAPTIVE", "ORACLE"}
      /\ config_.window \in Nat
  BY PrefetchAssumption DEF PrefetchInv
<1>2. <<>> \in Seq(Nat) /\ \A x \in Nat : <<x>> \in Seq(Nat) /\ Len(<<x>>) = 1
  BY EmptySeq
<1>3. \A first \in MarkovSequences(b) : first \in Seq(Nat) /\ (first # <<>> => first[1] \in Nat)
  <2>1. MarkovPredict(b) \subseteq Nat
    BY FollowersTyped DEF MarkovPredict
  <2>2. MarkovSequences(b) \subseteq {<<>>} \cup {<<x>> : x \in MarkovPredict(b)}
    BY DEF MarkovSequences
  <2>3. \A x \in MarkovPredict(b) : <<x>> \in Seq(Nat) /\ <<x>>[1] \in Nat
    BY <1>2, <2>1
  <2>4. QED BY <1>2, <2>2, <2>3
<1>4. ASSUME NEW first \in MarkovSequences(b) PROVE Adaptive(first, b) \in Seq(Nat)
  <2> DEFINE same == IF first = <<>> THEN 0 ELSE first[1] - b
             rest == IF same \in 1..Lookahead THEN RemoveAt(Sequential(b), same)
                     ELSE Sequential(b)
             room == Greater(0, config_.window - Len(first))
  <2>1. rest \in Seq(Nat)
    <3>1. /\ Sequential(b) \in Seq(Nat) /\ DOMAIN Sequential(b) = 1..Lookahead
      BY <1>1, SequentialTyped, LenProperties
    <3>2. \A i \in 1..Lookahead : RemoveAt(Sequential(b), i) \in Seq(Nat)
      BY <3>1, RemoveAtRange
    <3>3. QED BY <3>1, <3>2
  <2>2. first \in Seq(Nat) /\ Len(first) \in Nat
    BY <1>3, LenProperties
  <2> HIDE DEF rest
  <2>3. Len(rest) \in Nat
    BY <2>1, LenProperties
  <2>4. Lesser(room, Len(rest)) \in 0..Len(rest)
    BY <1>1, <2>2, <2>3 DEF Lesser, Greater
  <2>5. SubSeq(rest, 1, Lesser(room, Len(rest))) \in Seq(Nat)
    BY <2>1, <2>4, BeginningTyped
  <2>6. first \o SubSeq(rest, 1, Lesser(room, Len(rest))) \in Seq(Nat)
    BY <2>2, <2>5, ConcatProperties
  <2>7. QED BY <2>6 DEF Adaptive, rest
<1>5. QED BY <1>1, <1>2, <1>3, <1>4, SequentialTyped DEF PredictNextBlocks

LEMMA FetchTypedStart == PrefetcherInit => FetchTyped
BY DEF PrefetcherInit, FetchTyped

LEMMA FetchTypedStep ==
  ASSUME PrefetchInv, FetchTyped, [PrefetcherNext]_prefetchVars
  PROVE  FetchTyped'
<1>1. ASSUME UNCHANGED <<predictions, waiting_>> PROVE FetchTyped'
  BY <1>1 DEF FetchTyped
<1>2. ASSUME NEW c \in PrefetchCallers, NEW b \in PrefetchBlocks, Predict(c, b)
      PROVE  FetchTyped'
  <2>1. PICK p \in PredictNextBlocks(b) : predictions' = [predictions EXCEPT ![c] = p]
    BY <1>2 DEF Predict
  <2>2. p \in Seq(Nat)
    BY PredictionsTyped
  <2>3. QED BY <1>2, <2>1, <2>2 DEF Predict, FetchTyped
<1>3. ASSUME NEW c \in PrefetchCallers, ReturnsEmpty(c) PROVE FetchTyped'
  BY <1>3 DEF ReturnsEmpty, FetchTyped
<1>4. ASSUME NEW c \in PrefetchCallers, LocksAgain(c) PROVE FetchTyped'
  BY <1>4 DEF LocksAgain, FetchTyped
<1>5. QED BY <1>1, <1>2, <1>3, <1>4
             DEF PrefetcherNext, prefetchVars, UpdateModel, SetConfig

LEMMA FetchTypes ==
  PrefetchInv /\ FetchTyped => PrefetcherTypeOK
<1> SUFFICES ASSUME PrefetchInv, FetchTyped PROVE PrefetcherTypeOK
  OBVIOUS
<1>1. /\ DOMAIN transition_matrix_ \subseteq Pairs(accessed)
      /\ accessed \in Seq(PrefetchBlocks)
  BY DEF PrefetchInv, TransitionsCounted
<1>2. Len(accessed) \in Nat /\ \A i \in 1..Len(accessed) : accessed[i] \in PrefetchBlocks
  BY <1>1, LenProperties, ElementOfSeq
<1>3. \A i \in 1..(Len(accessed) - 1) : i + 1 \in 1..Len(accessed) /\ i \in 1..Len(accessed)
  BY <1>2
<1>4. Pairs(accessed) \subseteq PrefetchBlocks \X PrefetchBlocks
  BY <1>2, <1>3 DEF Pairs
<1>5. Range(transition_matrix_) \subseteq Nat
  BY DEF PrefetchInv, Range
<1>6. QED BY <1>1, <1>4, <1>5 DEF PrefetcherTypeOK, PrefetchInv, FetchTyped

-----------------------------------------------------------------------------
(* The types of the adapters *)

DevicesTyped ==
  /\ compat \in BOOLEAN /\ overtaken \subseteq DeviceUsers
  /\ kind \in [Adapters -> {"ASCEND", "CPU"}] /\ npus \in DeviceCounts
  /\ device_count_ \in [Adapters -> DeviceCounts \cup {0, 1}]
  /\ current_device_ \in [Adapters -> Int]
  /\ \A a \in Adapters : /\ current_device_[a] \in -1..(device_count_[a] - 1)
                         /\ kind[a] = "ASCEND" => device_count_[a] \in {0, npus}

LEMMA DevicesStart == AdapterInit => DevicesTyped
<1> SUFFICES ASSUME AdapterInit PROVE DevicesTyped
  OBVIOUS
<1>1. /\ compat \in BOOLEAN /\ overtaken \subseteq DeviceUsers /\ npus \in DeviceCounts
      /\ kind \in [Adapters -> {"ASCEND", "CPU"}]
  <2>1. DetectDeviceType \subseteq {"ASCEND", "CPU"}
    BY DEF DetectDeviceType
  <2>2. compat \in BOOLEAN
    BY DEF AdapterInit
  <2>3. QED BY <2>1, <2>2 DEF AdapterInit
<1>2. /\ device_count_ = [a \in Adapters |-> IF kind[a] = "CPU" THEN 1 ELSE 0]
      /\ current_device_ = [a \in Adapters |-> IF kind[a] = "CPU" THEN 0 ELSE -1]
  BY DEF AdapterInit
<1>3. QED BY <1>1, <1>2 DEF DevicesTyped

LEMMA DevicesStep ==
  ASSUME DevicesTyped, AclInv, [AdapterNext]_adapterVars
  PROVE  DevicesTyped'
<1>1. /\ npus \in Nat /\ DeviceCounts \cup {0, 1} \subseteq Nat
      /\ \A b \in Adapters : device_count_[b] \in Nat
  <2>1. DeviceCounts \cup {0, 1} \subseteq Nat
    BY AdapterAssumption
  <2>2. npus \in Nat
    BY <2>1 DEF DevicesTyped
  <2>3. device_count_ \in [Adapters -> Nat]
    BY <2>1, Zenon DEF DevicesTyped
  <2>4. QED BY <2>1, <2>2, <2>3
<1>2. ASSUME UNCHANGED <<machine, devices>>, compat' \in BOOLEAN, overtaken' \subseteq DeviceUsers
      PROVE  DevicesTyped'
  BY <1>2 DEF DevicesTyped, machine, devices
<1>3. ASSUME NEW a \in Adapters, InitializeAdapter(a) PROVE DevicesTyped'
  <2>1. /\ device_count_' = [device_count_ EXCEPT ![a] = npus]
        /\ current_device_' = [current_device_ EXCEPT ![a] = IF npus > 0 THEN 0 ELSE @]
        /\ UNCHANGED <<compat, machine, overtaken>> /\ kind[a] = "ASCEND"
    BY <1>3 DEF InitializeAdapter, inCall, CanInitialize
  <2>2. QED BY <1>1, <2>1 DEF DevicesTyped, machine
<1>4. ASSUME NEW a \in Adapters, InitializeFails(a) PROVE DevicesTyped'
  <2>1. /\ device_count_' \in {device_count_, [device_count_ EXCEPT ![a] = npus]}
        /\ UNCHANGED <<compat, machine, overtaken, current_device_>> /\ kind[a] = "ASCEND"
    BY <1>4 DEF InitializeFails, inCall, CanInitialize
  <2>2. QED BY <1>1, <2>1 DEF DevicesTyped, machine
<1>5. ASSUME NEW a \in Adapters, BeginFinalize(a) PROVE DevicesTyped'
  <2>1. /\ current_device_' = [current_device_ EXCEPT ![a] = -1]
        /\ overtaken' \subseteq overtaken \cup DeviceUsers
        /\ UNCHANGED <<compat, machine, device_count_>>
    BY <1>5 DEF BeginFinalize
  <2>2. \A b \in Adapters : current_device_'[b] \in -1..(device_count_[b] - 1)
    BY <1>1, <2>1 DEF DevicesTyped
  <2>3. current_device_' \in [Adapters -> Int] /\ overtaken' \subseteq DeviceUsers
    BY <2>1 DEF DevicesTyped
  <2>4. QED BY <2>1, <2>2, <2>3 DEF DevicesTyped, machine
<1>6. ASSUME NEW a \in Adapters, NEW d \in 0..(device_count_[a] - 1), SetDevice(a, d)
      PROVE  DevicesTyped'
  <2>1. /\ current_device_' = [current_device_ EXCEPT ![a] = d]
        /\ UNCHANGED <<compat, machine, overtaken, device_count_>>
    BY <1>6 DEF SetDevice, inCall
  <2>2. QED BY <1>1, <2>1 DEF DevicesTyped, machine
<1>7. ASSUME NEW a \in Adapters, NEW d, NEW e, SetDeviceAffinity(a, <<d, e>>)
      PROVE  DevicesTyped'
  <2>1. d \in 0..(device_count_[a] - 1) /\ SetDevice(a, d)
    <3>1. d \in Range(<<d, e>>) /\ Head(<<d, e>>) = d
      BY DEF Range
    <3>2. QED BY <1>7, <3>1 DEF SetDeviceAffinity
  <2>2. QED BY <1>6, <2>1
<1>8. ASSUME NEW u \in DeviceUsers, NEW a \in Adapters, BeginDeviceCall(u, a) \/ FreeingCall(u, a)
      PROVE  DevicesTyped'
  BY <1>2, <1>8 DEF BeginDeviceCall, FreeingCall, DevicesTyped
<1>9. ASSUME NEW u \in DeviceUsers, EndDeviceCall(u) PROVE DevicesTyped'
  BY <1>2, <1>9 DEF EndDeviceCall, DevicesTyped
<1>10. CASE EnsureAclInitialized
  BY <1>2, <1>10 DEF EnsureAclInitialized, inCall, DevicesTyped
<1>11. ASSUME NEW a \in Adapters, NEW up \in BOOLEAN, InitializeCPU(a, up) PROVE DevicesTyped'
  BY <1>2, <1>11 DEF InitializeCPU, inCall, DevicesTyped
<1>12. ASSUME NEW a \in Adapters, EndFinalize(a) PROVE DevicesTyped'
  BY <1>2, <1>12 DEF EndFinalize, inCall, DevicesTyped
<1>13. CASE UNCHANGED adapterVars
  BY <1>2, <1>13 DEF adapterVars, inCall, DevicesTyped
<1>14. QED
  BY <1>3, <1>4, <1>5, <1>6, <1>7, <1>8, <1>9, <1>10, <1>11, <1>12, <1>13
     DEF AdapterNext, MemoryCall, QueueCall

LEMMA AdapterTypes == AclInv /\ DevicesTyped => AdapterTypeOK
<1> SUFFICES ASSUME AclInv, DevicesTyped PROVE AdapterTypeOK
  OBVIOUS
<1>1. Busy \in SUBSET Adapters /\ IsFiniteSet(Adapters)
  BY AdapterAssumption DEF AclInv, Busy, Up
<1>2. Cardinality(Busy) \in Nat /\ Cardinality(Busy) <= Cardinality(Adapters)
  BY <1>1, FS_Subset, FS_CardinalityType
<1>3. Cardinality(Adapters) \in Nat
  BY <1>1, FS_CardinalityType
<1>4. instance_count_ \in 0..Cardinality(Adapters)
  BY <1>2, <1>3 DEF AclInv
<1>5. QED BY <1>4 DEF AclInv, DevicesTyped, AdapterTypeOK

-----------------------------------------------------------------------------
(* All parts *)

PartsInv ==
  /\ LocationsInv /\ SpaceInv
  /\ PrefetchInv /\ FetchTyped
  /\ SchedulerInv
  /\ StreamInv
  /\ AclInv /\ DevicesTyped
  /\ SavedInv

LEMMA ConfigTypes == SavedInv => ConfigTypeOK
BY DEF SavedInv, WellTyped, Readable, SavedNames, ConfigTypeOK

LEMMA PartsStart == PartsInit => PartsInv
BY MapperStart, PrefetchStart, FetchTypedStart, SchedulerStart, StreamStart, InitAcl,
   DevicesStart, InitSaved DEF PartsInit, PartsInv

LEMMA PartsStep == PartsInv /\ [PartsNext]_partsVars => PartsInv'
<1> SUFFICES ASSUME PartsInv, [PartsNext]_partsVars PROVE PartsInv'
  OBVIOUS
<1>1. /\ [MapperNext]_mapperVars /\ [PrefetcherNext]_prefetchVars
      /\ [SchedulerNext]_schedulerVars /\ [StreamNext]_streamVars
      /\ [AdapterNext]_adapterVars /\ [ConfigNext]_configVars
  BY DEF PartsNext, partsVars
<1>2. LocationsInv' /\ SpaceInv'
  BY <1>1, LocationsStep, SpaceStep DEF PartsInv
<1>3. PrefetchInv' /\ FetchTyped'
  BY <1>1, PrefetchStep, FetchTypedStep DEF PartsInv
<1>4. SchedulerInv' /\ StreamInv'
  BY <1>1, SchedulerStep, StreamStep DEF PartsInv
<1>5. AclInv' /\ DevicesTyped'
  BY <1>1, NextAcl, DevicesStep DEF PartsInv
<1>6. SavedInv'
  BY <1>1, NextSaved DEF PartsInv
<1>7. QED BY <1>2, <1>3, <1>4, <1>5, <1>6 DEF PartsInv

\* The variables of every part keep their types.
THEOREM PartsTyped == PartsSpec => []PartsTypeOK
<1>1. PartsInv => PartsTypeOK
  <2>1. SchedulerInv => SchedulerTypeOK
    BY DEF SchedulerInv
  <2>2. QED BY <2>1, MapperTypes, FetchTypes, StreamInvMeans, AdapterTypes, ConfigTypes
               DEF PartsInv, PartsTypeOK
<1>2. QED BY <1>1, PartsStart, PartsStep, PTL DEF PartsSpec

\* No stream is lent twice, lost, or lent and available, neither by the pools nor by
\* the scheduler's queue, and no pool is lost, while users keep to the conditions
\* that StreamsAccounted and PoolsKept state.
THEOREM StreamsStayKept == PartsSpec => []StreamsKept
<1>1. PartsInv => StreamsKept
  BY StreamInvMeans DEF PartsInv, SchedulerInv, StreamsKept
<1>2. QED BY <1>1, PartsStart, PartsStep, PTL DEF PartsSpec

=============================================================================
