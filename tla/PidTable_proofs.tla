--------------------------- MODULE PidTable_proofs ---------------------------
(***************************************************************************)
(* Proofs about PidTable and Watchlist, for every table size, set of PIDs, *)
(* hash function and length of the list: lookups are sound, the table      *)
(* implements PidMap, and worst_actors lists what it should.               *)
(***************************************************************************)
EXTENDS Watchlist, FiniteSetTheorems, FunctionTheorems, TLAPS

-----------------------------------------------------------------------------
(* The probe sequence visits every slot exactly once. *)

LEMMA ProbeSlot ==
    ASSUME NEW p \in Pids, NEW k \in Slots
    PROVE  Probe(p, k) \in Slots
BY SizeAssumption, PidAssumption DEF Probe, Slots

LEMMA ProbeOnce ==
    ASSUME NEW p \in Pids, NEW j \in Slots, NEW k \in Slots, Probe(p, j) = Probe(p, k)
    PROVE  j = k
BY SizeAssumption, PidAssumption DEF Probe, Slots

LEMMA ProbeAll ==
    ASSUME NEW p \in Pids, NEW s \in Slots
    PROVE  \E k \in Slots : Probe(p, k) = s
<1>1. Hash[p] \in Slots
  BY PidAssumption
<1>2. CASE s >= Hash[p]
  <2>1. s - Hash[p] \in Slots /\ Probe(p, s - Hash[p]) = s
    BY <1>1, <1>2, SizeAssumption DEF Probe, Slots
  <2>. QED BY <2>1
<1>3. CASE s < Hash[p]
  <2>1. s - Hash[p] + Size \in Slots /\ Probe(p, s - Hash[p] + Size) = s
    BY <1>1, <1>3, SizeAssumption DEF Probe, Slots
  <2>. QED BY <2>1
<1>. QED BY <1>1, <1>2, <1>3 DEF Slots

LEMMA SpecialSlots == Empty \notin Pids /\ Tombstone \notin Pids /\ Empty # Tombstone
BY PidAssumption DEF Empty, Tombstone

-----------------------------------------------------------------------------
(* Lookups in a sound table. *)

\* find_slot finds exactly the slot its argument owns.
LEMMA FindOwned ==
    ASSUME TableSound, NEW p \in Pids, NEW s \in Slots
    PROVE  FindSlot(p, s) <=> pids[s] = p
<1>1. ASSUME FindSlot(p, s) PROVE pids[s] = p
  BY <1>1 DEF FindSlot, First
<1>2. ASSUME pids[s] = p PROVE FindSlot(p, s)
  <2>1. PICK k \in Scanned(p) : Probe(p, k) = s
    BY <1>2 DEF TableSound, OwnerReachable
  <2>2. k \in Slots
    BY DEF Scanned
  <2>3. ASSUME NEW j \in Scanned(p), pids[Probe(p, j)] = p PROVE k <= j
    <3>1. j \in Slots /\ Probe(p, j) \in Slots
      BY ProbeSlot DEF Scanned
    <3>2. Probe(p, j) = Probe(p, k)
      BY <1>2, <2>1, <2>3, <3>1 DEF TableSound, OwnerUnique
    <3>. QED BY <2>2, <3>1, <3>2, ProbeOnce DEF Slots
  <2>4. First(k, {j \in Scanned(p) : pids[Probe(p, j)] = p})
    BY <1>2, <2>1, <2>3 DEF First
  <2>. QED BY <2>1, <2>2, <2>4 DEF FindSlot
<1>. QED BY <1>1, <1>2

\* What a lookup returns.
LookupFacts ==
    /\ \A s \in Slots : pids[s] \in Pids => Lookup[pids[s]] = data[s]
    /\ \A p \in Pids : (\A s \in Slots : pids[s] # p) => Lookup[p] = 0
    /\ Lookup \in [Pids -> 0 .. MaxObs]

LEMMA LookupOwned == TableSound => LookupFacts
<1>. SUFFICES ASSUME TableSound PROVE LookupFacts
  OBVIOUS
<1>1. ASSUME NEW p \in Pids, NEW s \in Slots, pids[s] = p
      PROVE  Lookup[p] = data[s]
  <2>1. \A u \in Slots : FindSlot(p, u) <=> u = s
    BY <1>1, FindOwned DEF TableSound, OwnerUnique
  <2>2. (CHOOSE u \in Slots : FindSlot(p, u)) = s
    BY <2>1
  <2>3. Found(p)
    BY <2>1 DEF Found
  <2>. QED BY <2>2, <2>3 DEF Lookup
<1>2. ASSUME NEW p \in Pids, \A s \in Slots : pids[s] # p
      PROVE  Lookup[p] = 0
  <2>1. ~Found(p)
    BY <1>2, FindOwned DEF Found
  <2>. QED BY <2>1 DEF Lookup
<1>3. ASSUME NEW p \in Pids PROVE Lookup[p] \in 0 .. MaxObs
  <2>1. CASE \E s \in Slots : pids[s] = p
    BY <1>1, <2>1 DEF TableSound, TypeOK
  <2>2. CASE \A s \in Slots : pids[s] # p
    BY <1>2, <2>2, SizeAssumption
  <2>. QED BY <2>1, <2>2
<1>4. Lookup = [p \in Pids |-> Lookup[p]]
  BY DEF Lookup
<1>. QED BY <1>1, <1>2, <1>3, <1>4 DEF LookupFacts

LEMMA LookupOwnedNext == TableSound' => LookupFacts'
BY LookupOwned, PTL

\* The slot an insertion takes: it is on the probe of p, behind no empty slot, and
\* has no owner unless every slot has one.
LEMMA FreeSlotFacts ==
    ASSUME TableSound, NEW p \in Pids, NEW s \in Slots, FreeSlot(p, s)
    PROVE  /\ \E k \in Slots : /\ Probe(p, k) = s
                               /\ \A j \in 0 .. k - 1 : pids[Probe(p, j)] # Empty
           /\ pids[s] \in Pids => \A u \in Slots : pids[u] \in Pids
<1>. DEFINE tombstones == {k \in Scanned(p) : pids[Probe(p, k)] = Tombstone}
            empties == {k \in Slots : pids[Probe(p, k)] = Empty}
<1>1. CASE tombstones # {}
  <2>1. PICK k \in tombstones : s = Probe(p, k)
    BY <1>1 DEF FreeSlot
  <2>2. k \in Slots /\ \A j \in 0 .. k : pids[Probe(p, j)] # Empty
    BY DEF Scanned
  <2>3. \A j \in 0 .. k - 1 : pids[Probe(p, j)] # Empty
    BY <2>2 DEF Slots
  <2>. QED BY <2>1, <2>2, <2>3, SpecialSlots
<1>2. CASE tombstones = {} /\ empties # {}
  <2>1. PICK k \in empties : First(k, empties) /\ s = Probe(p, k)
    BY <1>2 DEF FreeSlot
  <2>2. ASSUME NEW j \in 0 .. k - 1 PROVE pids[Probe(p, j)] # Empty
    BY <2>1, <2>2, SizeAssumption DEF First, Slots
  <2>. QED BY <2>1, <2>2, SpecialSlots
<1>3. CASE tombstones = {} /\ empties = {}
  <2>1. s = Hash[p]
    BY <1>3 DEF FreeSlot
  <2>2. 0 \in Slots /\ Probe(p, 0) = s /\ 0 .. 0 - 1 = {}
    BY <2>1, SizeAssumption, PidAssumption DEF Probe, Slots
  <2>3. ASSUME NEW u \in Slots PROVE pids[u] \in Pids
    <3>1. PICK k \in Slots : Probe(p, k) = u
      BY ProbeAll
    <3>2. k \in Scanned(p)
      BY <1>3, SizeAssumption DEF Scanned, Slots
    <3>. QED BY <1>3, <3>1, <3>2 DEF TableSound, TypeOK
  <2>. QED BY <2>2, <2>3
<1>. QED BY <1>1, <1>2, <1>3

-----------------------------------------------------------------------------
(* The table stays sound. *)

LEMMA MoreType == \A n \in 0 .. MaxObs : More(n) \in 1 .. MaxObs
BY SizeAssumption DEF More

\* Writing a value other than Empty to a slot shortens no probe.
LEMMA ProbesGrow ==
    ASSUME TableSound, NEW s \in Slots, NEW v \in Pids \cup {Tombstone},
           pids' = [pids EXCEPT ![s] = v], NEW q \in Pids
    PROVE  Scanned(q) \subseteq Scanned(q)'
<1>. SUFFICES ASSUME NEW k \in Scanned(q), NEW j \in 0 .. k
              PROVE  pids'[Probe(q, j)] # Empty
  BY DEF Scanned, Probe
<1>1. j \in Slots /\ pids[Probe(q, j)] # Empty
  BY SizeAssumption DEF Scanned, Slots
<1>2. Probe(q, j) \in Slots
  BY <1>1, ProbeSlot
<1>. QED BY <1>1, <1>2, SpecialSlots DEF TableSound, TypeOK

LEMMA UpdateKnownSound ==
    ASSUME TableSound, NEW p \in Pids, UpdateKnown(p)
    PROVE  TableSound'
<1>1. PICK s \in Slots : FindSlot(p, s) /\ data' = [data EXCEPT ![s] = More(@)]
  BY DEF UpdateKnown
<1>2. pids[s] = p /\ pids' = pids
  BY <1>1, FindOwned DEF UpdateKnown
<1>3. More(data[s]) \in 1 .. MaxObs
  BY MoreType DEF TableSound, TypeOK
<1>4. TypeOK'
  BY <1>1, <1>2, <1>3 DEF TableSound, TypeOK
<1>5. OwnerUnique' /\ OwnerReachable'
  BY <1>2 DEF TableSound, OwnerUnique, OwnerReachable, Scanned, Probe
<1>6. \A u \in Slots : data'[u] # 0 <=> pids'[u] \in Pids
  BY <1>1, <1>2, <1>3 DEF TableSound, TypeOK
<1>. QED BY <1>4, <1>5, <1>6 DEF TableSound

LEMMA UpdateNewSound ==
    ASSUME TableSound, NEW p \in Pids, UpdateNew(p)
    PROVE  TableSound'
<1>1. PICK s \in Slots : /\ FreeSlot(p, s)
                         /\ pids' = [pids EXCEPT ![s] = p]
                         /\ data' = [data EXCEPT ![s] = More(0)]
  BY DEF UpdateNew
<1>2. \A u \in Slots : pids[u] # p
  BY FindOwned DEF UpdateNew, Found
<1>3. More(0) \in 1 .. MaxObs
  BY MoreType, SizeAssumption
<1>4. TypeOK'
  BY <1>1, <1>3 DEF TableSound, TypeOK
<1>5. OwnerUnique'
  BY <1>1, <1>2 DEF TableSound, TypeOK, OwnerUnique
<1>6. ASSUME NEW u \in Slots, pids'[u] \in Pids
      PROVE  \E k \in Scanned(pids[u])' : Probe(pids'[u], k) = u
  <2>1. CASE u # s
    <3>1. pids'[u] = pids[u] /\ pids[u] \in Pids
      BY <1>1, <1>6, <2>1 DEF TableSound, TypeOK
    <3>2. PICK k \in Scanned(pids[u]) : Probe(pids[u], k) = u
      BY <3>1 DEF TableSound, OwnerReachable
    <3>. QED BY <1>1, <3>1, <3>2, ProbesGrow DEF Scanned, Probe
  <2>2. CASE u = s
    <3>1. pids'[s] = p
      BY <1>1 DEF TableSound, TypeOK
    <3>2. PICK k \in Slots : /\ Probe(p, k) = s
                             /\ \A j \in 0 .. k - 1 : pids[Probe(p, j)] # Empty
      BY <1>1, FreeSlotFacts
    <3>3. ASSUME NEW j \in 0 .. k PROVE pids'[Probe(p, j)] # Empty
      <4>1. CASE j = k
        BY <3>1, <3>2, <4>1, SpecialSlots
      <4>2. CASE j \in 0 .. k - 1
        <5>1. j \in Slots
          BY <4>2, SizeAssumption DEF Slots
        <5>2. Probe(p, j) \in Slots
          BY <5>1, ProbeSlot
        <5>. QED BY <1>1, <3>2, <4>2, <5>2, SpecialSlots DEF TableSound, TypeOK
      <4>. QED BY <4>1, <4>2 DEF Slots
    <3>4. k \in Scanned(pids[s])'
      BY <3>1, <3>2, <3>3 DEF Scanned, Probe
    <3>. QED BY <2>2, <3>1, <3>2, <3>4
  <2>. QED BY <2>1, <2>2
<1>7. \A u \in Slots : data'[u] # 0 <=> pids'[u] \in Pids
  BY <1>1, <1>3 DEF TableSound, TypeOK
<1>. QED BY <1>4, <1>5, <1>6, <1>7 DEF TableSound, OwnerReachable

LEMMA EvictSound ==
    ASSUME TableSound, NEW p \in Pids, Evict(p)
    PROVE  TableSound'
<1>1. PICK s \in Slots : /\ FindSlot(p, s)
                         /\ pids' = [pids EXCEPT ![s] = Tombstone]
                         /\ data' = [data EXCEPT ![s] = 0]
  BY DEF Evict
<1>2. TypeOK'
  BY <1>1, SizeAssumption DEF TableSound, TypeOK
<1>3. OwnerUnique'
  BY <1>1, SpecialSlots DEF TableSound, TypeOK, OwnerUnique
<1>4. ASSUME NEW u \in Slots, pids'[u] \in Pids
      PROVE  \E k \in Scanned(pids[u])' : Probe(pids'[u], k) = u
  <2>1. u # s /\ pids'[u] = pids[u] /\ pids[u] \in Pids
    BY <1>1, <1>4, SpecialSlots DEF TableSound, TypeOK
  <2>2. PICK k \in Scanned(pids[u]) : Probe(pids[u], k) = u
    BY <2>1 DEF TableSound, OwnerReachable
  <2>. QED BY <1>1, <2>1, <2>2, ProbesGrow DEF Scanned, Probe
<1>5. \A u \in Slots : data'[u] # 0 <=> pids'[u] \in Pids
  BY <1>1, SpecialSlots DEF TableSound, TypeOK
<1>. QED BY <1>2, <1>3, <1>4, <1>5 DEF TableSound, OwnerReachable

\* For every table size, hash function and sequence of updates and evictions no
\* PID owns two slots and every owner is found by the probe loop.
THEOREM TableSoundHolds == Spec => []TableSound
<1>1. Init => TableSound
  BY SizeAssumption, SpecialSlots
     DEF Init, TableSound, TypeOK, OwnerUnique, OwnerReachable
<1>2. TableSound /\ [Next]_vars => TableSound'
  <2>. SUFFICES ASSUME TableSound, [Next]_vars PROVE TableSound'
    OBVIOUS
  <2>1. CASE UNCHANGED vars
    BY <2>1 DEF vars, TableSound, TypeOK, OwnerUnique, OwnerReachable, Scanned, Probe
  <2>. QED BY <2>1, UpdateKnownSound, UpdateNewSound, EvictSound DEF Next
<1>. QED BY <1>1, <1>2, PTL DEF Spec
-----------------------------------------------------------------------------
(* The table implements PidMap. *)

LEMMA UpdateKnownObserves ==
    ASSUME TableSound, TableSound', NEW p \in Pids, UpdateKnown(p)
    PROVE  Map!Observe(p)
<1>1. PICK s \in Slots : FindSlot(p, s) /\ data' = [data EXCEPT ![s] = More(@)]
  BY DEF UpdateKnown
<1>2. pids[s] = p /\ pids' = pids
  BY <1>1, FindOwned DEF UpdateKnown
<1>3. LookupFacts /\ LookupFacts'
  BY LookupOwned, LookupOwnedNext
<1>4. Lookup[p] = data[s] /\ Lookup'[p] = More(data[s])
  BY <1>1, <1>2, <1>3 DEF LookupFacts, TableSound, TypeOK
<1>5. ASSUME NEW q \in Pids, q # p PROVE Lookup'[q] = Lookup[q]
  <2>1. CASE \E u \in Slots : pids[u] = q
    <3>1. PICK u \in Slots : pids[u] = q
      BY <2>1
    <3>2. u # s /\ data'[u] = data[u]
      BY <1>1, <1>2, <1>5, <3>1 DEF TableSound, TypeOK
    <3>. QED BY <1>2, <1>3, <3>1, <3>2 DEF LookupFacts
  <2>2. CASE \A u \in Slots : pids[u] # q
    BY <1>2, <1>3, <2>2 DEF LookupFacts
  <2>. QED BY <2>1, <2>2
<1>6. Lookup' = [Lookup EXCEPT ![p] = More(Lookup[p])]
  BY <1>3, <1>4, <1>5 DEF LookupFacts
<1>. QED BY <1>6 DEF Map!Observe, Map!More, More

\* Every slot has an owner: as many PIDs are known as there are slots.
LEMMA FullTable ==
    ASSUME TableSound, \A u \in Slots : pids[u] \in Pids
    PROVE  Cardinality(Map!Known) = Size
<1>1. LookupFacts
  BY LookupOwned
<1>2. pids \in [Slots -> Map!Known]
  <2>1. ASSUME NEW u \in Slots PROVE pids[u] \in Map!Known
    <3>1. Lookup[pids[u]] = data[u] /\ data[u] # 0
      BY <1>1 DEF LookupFacts, TableSound
    <3>. QED BY <3>1 DEF Map!Known
  <2>. QED BY <2>1 DEF TableSound, TypeOK
<1>3. pids \in Injection(Slots, Map!Known)
  BY <1>2 DEF Injection, IsInjective, TableSound, OwnerUnique
<1>4. pids \in Surjection(Slots, Map!Known)
  <2>1. ASSUME NEW q \in Map!Known PROVE \E u \in Slots : pids[u] = q
    BY <1>1 DEF LookupFacts, Map!Known
  <2>. QED BY <1>2, <2>1 DEF Surjection
<1>5. ExistsBijection(Slots, Map!Known)
  BY <1>3, <1>4 DEF ExistsBijection, Bijection
<1>6. IsFiniteSet(Slots) /\ Cardinality(Slots) = Size
  BY FS_Interval, SizeAssumption DEF Slots
<1>. QED BY <1>5, <1>6, FS_Bijection

\* A new PID is observed, and takes the place of another one at most if the table
\* is full.
LEMMA UpdateNewObserves ==
    ASSUME TableSound, TableSound', NEW p \in Pids, UpdateNew(p)
    PROVE  Map!Observe(p) \/ \E victim \in Pids : Map!Replace(p, victim)
<1>1. PICK s \in Slots : /\ FreeSlot(p, s)
                         /\ pids' = [pids EXCEPT ![s] = p]
                         /\ data' = [data EXCEPT ![s] = More(0)]
  BY DEF UpdateNew
<1>2. \A u \in Slots : pids[u] # p
  BY FindOwned DEF UpdateNew, Found
<1>3. LookupFacts /\ LookupFacts'
  BY LookupOwned, LookupOwnedNext
<1>4. Lookup[p] = 0 /\ Lookup'[p] = More(0)
  BY <1>1, <1>2, <1>3 DEF LookupFacts, TableSound, TypeOK
<1>5. \A u \in Slots : u # s => pids'[u] = pids[u] /\ data'[u] = data[u]
  BY <1>1 DEF TableSound, TypeOK
<1>6. pids'[s] = p
  BY <1>1 DEF TableSound, TypeOK
<1>7. ASSUME NEW q \in Pids, q # p, q # pids[s] PROVE Lookup'[q] = Lookup[q]
  <2>1. CASE \E u \in Slots : pids[u] = q
    <3>1. PICK u \in Slots : pids[u] = q
      BY <2>1
    <3>2. pids'[u] = q /\ data'[u] = data[u]
      BY <1>5, <1>7, <3>1
    <3>. QED BY <1>3, <3>1, <3>2 DEF LookupFacts
  <2>2. CASE \A u \in Slots : pids[u] # q
    <3>1. \A u \in Slots : pids'[u] # q
      BY <1>5, <1>6, <1>7, <2>2
    <3>. QED BY <1>3, <2>2, <3>1 DEF LookupFacts
  <2>. QED BY <2>1, <2>2
<1>8. CASE pids[s] \notin Pids
  <2>1. Lookup' = [Lookup EXCEPT ![p] = More(Lookup[p])]
    BY <1>3, <1>4, <1>7, <1>8 DEF LookupFacts
  <2>. QED BY <2>1 DEF Map!Observe, Map!More, More
<1>9. CASE pids[s] \in Pids
  <2>1. Map!Cardinality(Map!Known) = Size
    BY <1>1, <1>9, FreeSlotFacts, FullTable DEF Map!Cardinality, Cardinality
  <2>2. p \notin Map!Known /\ pids[s] \in Map!Known /\ pids[s] # p
    BY <1>2, <1>3, <1>4, <1>9 DEF LookupFacts, Map!Known, TableSound
  <2>3. Lookup'[pids[s]] = 0
    <3>1. \A u \in Slots : pids'[u] # pids[s]
      BY <1>5, <1>6, <1>9, <2>2 DEF TableSound, OwnerUnique
    <3>. QED BY <1>3, <1>9, <3>1 DEF LookupFacts
  <2>4. Lookup' = [Lookup EXCEPT ![p] = More(0), ![pids[s]] = 0]
    BY <1>3, <1>4, <1>7, <1>9, <2>2, <2>3 DEF LookupFacts
  <2>5. Map!Replace(p, pids[s])
    BY <2>1, <2>2, <2>4 DEF Map!Replace, Map!More, More
  <2>. QED BY <1>9, <2>5
<1>. QED BY <1>8, <1>9

LEMMA EvictForgets ==
    ASSUME TableSound, TableSound', NEW p \in Pids, Evict(p)
    PROVE  Map!Forget(p)
<1>1. PICK s \in Slots : /\ FindSlot(p, s)
                         /\ pids' = [pids EXCEPT ![s] = Tombstone]
                         /\ data' = [data EXCEPT ![s] = 0]
  BY DEF Evict
<1>2. pids[s] = p /\ pids'[s] = Tombstone
  BY <1>1, FindOwned DEF TableSound, TypeOK
<1>3. LookupFacts /\ LookupFacts'
  BY LookupOwned, LookupOwnedNext
<1>4. \A u \in Slots : u # s => pids'[u] = pids[u] /\ data'[u] = data[u]
  BY <1>1 DEF TableSound, TypeOK
<1>5. Lookup'[p] = 0
  <2>1. \A u \in Slots : pids'[u] # p
    BY <1>2, <1>4, SpecialSlots DEF TableSound, OwnerUnique
  <2>. QED BY <1>3, <2>1 DEF LookupFacts
<1>6. ASSUME NEW q \in Pids, q # p PROVE Lookup'[q] = Lookup[q]
  <2>1. CASE \E u \in Slots : pids[u] = q
    <3>1. PICK u \in Slots : pids[u] = q
      BY <2>1
    <3>2. pids'[u] = q /\ data'[u] = data[u]
      BY <1>2, <1>4, <1>6, <3>1
    <3>. QED BY <1>3, <3>1, <3>2 DEF LookupFacts
  <2>2. CASE \A u \in Slots : pids[u] # q
    <3>1. \A u \in Slots : pids'[u] # q
      BY <1>2, <1>4, <2>2, SpecialSlots
    <3>. QED BY <1>3, <2>2, <3>1 DEF LookupFacts
  <2>. QED BY <2>1, <2>2
<1>7. Lookup' = [Lookup EXCEPT ![p] = 0]
  BY <1>3, <1>5, <1>6 DEF LookupFacts
<1>. QED BY <1>7 DEF Map!Forget

\* For every table size, hash function and sequence of operations the table is a
\* map from PIDs to their own observations, and a PID is displaced only from a
\* table whose slots all have owners.
THEOREM Refinement == Spec => ImplementsMap
<1>1. Init => Map!Init
  <2>. SUFFICES ASSUME Init PROVE Map!Init
    OBVIOUS
  <2>1. ASSUME NEW p \in Pids PROVE ~Found(p)
    <3>1. \A k \in Slots : pids[Probe(p, k)] # p
      BY ProbeSlot, SpecialSlots DEF Init
    <3>. QED BY <3>1 DEF Found, FindSlot, First, Scanned
  <2>. QED BY <2>1 DEF Map!Init, Lookup
<1>2. TableSound /\ TableSound' /\ [Next]_vars => [Map!Next]_Lookup
  <2>. SUFFICES ASSUME TableSound, TableSound', [Next]_vars
                PROVE  [Map!Next]_Lookup
    OBVIOUS
  <2>1. CASE UNCHANGED vars
    BY <2>1 DEF vars, Lookup, Found, FindSlot, Scanned, First, Probe
  <2>. QED BY <2>1, UpdateKnownObserves, UpdateNewObserves, EvictForgets DEF Next, Map!Next
<1>. QED BY <1>1, <1>2, TableSoundHolds, PTL DEF Spec, ImplementsMap, Map!Spec
-----------------------------------------------------------------------------
(* The watchlist. *)

\* A step of the pass leaves the table alone.
LEMMA WatchedTable == WatchSpec => Spec
<1>1. WatchInit => Init
  BY DEF WatchInit
<1>2. [WatchNext]_watchVars => [Next]_vars
  BY DEF WatchNext, watchVars, vars, Begin, VisitSlot, Return, TableStep
<1>. QED BY <1>1, <1>2, PTL DEF WatchSpec, Spec

\* The entries are watched slots already visited, each once.
EntriesOK ==
    /\ \A k \in DOMAIN out : Watched(out[k]) /\ out[k] < at
    /\ \A j, k \in DOMAIN out : out[j] = out[k] => j = k

\* While the list has room nobody is left out.
AllListed ==
    Len(out) < ShameMax =>
        \A u \in Slots : u < at /\ Watched(u) => \E k \in DOMAIN out : out[k] = u

\* No visited slot is worse than every entry.
WorstListed ==
    \A v \in Slots : v < at /\ Watched(v) =>
        \E k \in DOMAIN out : \A u \in Slots : u < at /\ Watched(u) => data[out[k]] >= data[u]

PassType ==
    /\ out \in Seq(Slots) /\ at \in {NoPass} \cup 0 .. Size /\ Len(out) <= ShameMax

\* The loop invariant of worst_actors.
PassInv == PassType /\ EntriesOK /\ AllListed /\ WorstListed

LEMMA ListFacts ==
    ASSUME PassType
    PROVE  /\ Len(out) \in Nat /\ DOMAIN out = 1 .. Len(out)
           /\ \A k \in DOMAIN out : out[k] \in Slots
BY DEF PassType

LEMMA SkipInv ==
    ASSUME TableSound, PassInv, at \in Slots, Skip, at' = at + 1, UNCHANGED <<pids, data>>
    PROVE  PassInv'
<1>. USE SizeAssumption, WatchAssumption DEF Slots
<1>1. PassType' /\ out' = out
  BY DEF PassInv, PassType, Skip
<1>2. \A u \in Slots : Watched(u)' <=> Watched(u)
  BY DEF Watched
<1>3. EntriesOK'
  BY <1>1, <1>2, ListFacts DEF PassInv, EntriesOK
<1>4. CASE ~Watched(at)
  <2>1. \A u \in Slots : u < at' /\ Watched(u)' <=> u < at /\ Watched(u)
    BY <1>2, <1>4
  <2>2. AllListed'
    BY <1>1, <2>1 DEF PassInv, AllListed
  <2>3. WorstListed'
    BY <1>1, <2>1 DEF PassInv, WorstListed
  <2>. QED BY <1>1, <1>3, <2>2, <2>3 DEF PassInv
<1>5. CASE Watched(at) /\ Len(out) >= ShameMax /\ Replaceable = {}
  <2>1. AllListed'
    BY <1>1, <1>5, ListFacts DEF PassInv, AllListed
  <2>2. \A k \in DOMAIN out : data[out[k]] >= data[at]
    BY <1>5, ListFacts DEF PassInv, Replaceable, TableSound, TypeOK
  <2>3. PICK k \in DOMAIN out : \A u \in Slots : u < at /\ Watched(u) => data[out[k]] >= data[u]
    <3>1. 1 \in DOMAIN out /\ out[1] \in Slots /\ out[1] < at /\ Watched(out[1])
      BY <1>5, ListFacts DEF PassInv, EntriesOK
    <3>. QED BY <3>1 DEF PassInv, WorstListed
  <2>4. \A u \in Slots : u < at' /\ Watched(u)' => data'[out'[k]] >= data'[u]
    BY <1>1, <1>2, <2>2, <2>3
  <2>. QED BY <1>1, <1>3, <2>1, <2>4 DEF PassInv, WorstListed
<1>. QED BY <1>4, <1>5 DEF Skip

LEMMA AddInv ==
    ASSUME TableSound, PassInv, at \in Slots, Add, at' = at + 1, UNCHANGED <<pids, data>>
    PROVE  PassInv'
<1>. USE SizeAssumption, WatchAssumption DEF Slots
<1>1. /\ Len(out) \in Nat /\ DOMAIN out = 1 .. Len(out) /\ out \in Seq(Slots)
      /\ Watched(at) /\ Len(out) < ShameMax /\ out' = Append(out, at)
  BY ListFacts DEF PassInv, PassType, Add
<1>2. /\ out' \in Seq(Slots) /\ DOMAIN out' = 1 .. Len(out) + 1 /\ Len(out') = Len(out) + 1
      /\ out'[Len(out) + 1] = at /\ \A k \in 1 .. Len(out) : out'[k] = out[k]
  BY <1>1
<1>3. \A u \in Slots : Watched(u)' <=> Watched(u)
  BY DEF Watched
<1>4. PassType'
  BY <1>1, <1>2 DEF PassType
<1>5. \A k \in 1 .. Len(out) : out[k] \in Slots /\ out[k] < at /\ Watched(out[k])
  BY <1>1 DEF PassInv, EntriesOK
<1>6. EntriesOK'
  <2>1. ASSUME NEW k \in DOMAIN out' PROVE Watched(out'[k]) /\ out'[k] < at'
    <3>1. CASE k \in 1 .. Len(out)
      BY <1>2, <1>5, <3>1
    <3>2. CASE k = Len(out) + 1
      BY <1>1, <1>2, <3>2
    <3>. QED BY <1>1, <1>2, <3>1, <3>2
  <2>2. ASSUME NEW j \in DOMAIN out', NEW k \in DOMAIN out', out'[j] = out'[k] PROVE j = k
    <3>1. CASE j \in 1 .. Len(out) /\ k \in 1 .. Len(out)
      BY <1>1, <1>2, <2>2, <3>1 DEF PassInv, EntriesOK
    <3>2. CASE j = Len(out) + 1 /\ k \in 1 .. Len(out)
      BY <1>2, <1>5, <2>2, <3>2
    <3>3. CASE j \in 1 .. Len(out) /\ k = Len(out) + 1
      BY <1>2, <1>5, <2>2, <3>3
    <3>. QED BY <1>1, <1>2, <3>1, <3>2, <3>3
  <2>. QED BY <2>1, <2>2 DEF EntriesOK, Watched
<1>7. AllListed'
  <2>1. ASSUME NEW u \in Slots, u < at', Watched(u) PROVE \E k \in DOMAIN out' : out'[k] = u
    <3>1. CASE u = at
      <4>1. Len(out) + 1 \in DOMAIN out'
        BY <1>1, <1>2
      <4>. QED BY <1>2, <3>1, <4>1
    <3>2. CASE u < at
      <4>1. PICK k \in DOMAIN out : out[k] = u
        BY <1>1, <2>1, <3>2 DEF PassInv, AllListed
      <4>2. k \in DOMAIN out'
        BY <1>1, <1>2
      <4>. QED BY <1>1, <1>2, <4>1, <4>2
    <3>. QED BY <2>1, <3>1, <3>2
  <2>. QED BY <1>3, <2>1 DEF AllListed
<1>8. WorstListed'
  <2>1. CASE \E k \in DOMAIN out : /\ \A u \in Slots : u < at /\ Watched(u) => data[out[k]] >= data[u]
                                   /\ data[out[k]] >= data[at]
    <3>1. PICK k \in DOMAIN out : /\ \A u \in Slots : u < at /\ Watched(u) => data[out[k]] >= data[u]
                                  /\ data[out[k]] >= data[at]
      BY <2>1
    <3>2. k \in DOMAIN out' /\ out'[k] = out[k]
      BY <1>1, <1>2
    <3>3. \A u \in Slots : u < at' /\ Watched(u)' => data'[out'[k]] >= data'[u]
      BY <1>3, <3>1, <3>2
    <3>. QED BY <3>2, <3>3 DEF WorstListed
  <2>2. CASE ~ \E k \in DOMAIN out : /\ \A u \in Slots : u < at /\ Watched(u) => data[out[k]] >= data[u]
                                     /\ data[out[k]] >= data[at]
    <3>1. ASSUME NEW u \in Slots, u < at, Watched(u) PROVE data[at] >= data[u]
      <4>1. PICK k \in DOMAIN out : \A w \in Slots : w < at /\ Watched(w) => data[out[k]] >= data[w]
        BY <3>1 DEF PassInv, WorstListed
      <4>2. /\ data[out[k]] \in Nat /\ data[u] \in Nat /\ data[at] \in Nat
        BY <1>1, <1>5 DEF TableSound, TypeOK
      <4>. QED BY <2>2, <3>1, <4>1, <4>2
    <3>2. Len(out) + 1 \in DOMAIN out' /\ data[at] \in Nat
      BY <1>1, <1>2 DEF TableSound, TypeOK
    <3>3. \A u \in Slots : u < at' /\ Watched(u)' => data'[out'[Len(out) + 1]] >= data'[u]
      BY <1>2, <1>3, <3>1, <3>2
    <3>. QED BY <3>2, <3>3 DEF WorstListed
  <2>. QED BY <2>1, <2>2
<1>. QED BY <1>4, <1>6, <1>7, <1>8 DEF PassInv

\* The entry that makes room is not a worst one, or the new one is worse.
LEMMA SwapInv ==
    ASSUME TableSound, PassInv, at \in Slots, Swap, at' = at + 1, UNCHANGED <<pids, data>>
    PROVE  PassInv'
<1>. USE SizeAssumption, WatchAssumption DEF Slots
<1>1. PICK i \in DOMAIN out : data[out[i]] < data[at] /\ out' = [out EXCEPT ![i] = at]
  BY DEF Swap, Replaceable
<1>2. /\ Len(out) \in Nat /\ DOMAIN out = 1 .. Len(out) /\ out \in Seq(Slots)
      /\ Watched(at) /\ Len(out) >= ShameMax
  BY ListFacts DEF PassInv, PassType, Swap
<1>3. /\ out' \in Seq(Slots) /\ DOMAIN out' = DOMAIN out /\ Len(out') = Len(out)
      /\ out'[i] = at /\ \A k \in DOMAIN out \ {i} : out'[k] = out[k]
  BY <1>1, <1>2
<1>4. \A u \in Slots : Watched(u)' <=> Watched(u)
  BY DEF Watched
<1>5. PassType'
  BY <1>2, <1>3 DEF PassInv, PassType
<1>6. \A k \in DOMAIN out : out[k] \in Slots /\ out[k] < at /\ Watched(out[k])
  BY <1>2 DEF PassInv, EntriesOK
<1>7. EntriesOK'
  <2>1. ASSUME NEW k \in DOMAIN out' PROVE Watched(out'[k]) /\ out'[k] < at'
    <3>1. CASE k = i
      BY <1>2, <1>3, <3>1
    <3>2. CASE k # i
      <4>1. out'[k] = out[k] /\ out[k] \in Slots /\ out[k] < at /\ Watched(out[k])
        BY <1>3, <1>6, <3>2
      <4>. QED BY <4>1
    <3>. QED BY <3>1, <3>2
  <2>2. ASSUME NEW j \in DOMAIN out', NEW k \in DOMAIN out', out'[j] = out'[k] PROVE j = k
    <3>1. CASE j # i /\ k # i
      BY <1>3, <2>2, <3>1 DEF PassInv, EntriesOK
    <3>2. CASE j = i /\ k # i
      BY <1>3, <1>6, <2>2, <3>2
    <3>3. CASE j # i /\ k = i
      BY <1>3, <1>6, <2>2, <3>3
    <3>. QED BY <3>1, <3>2, <3>3
  <2>. QED BY <2>1, <2>2 DEF EntriesOK, Watched
<1>8. AllListed'
  BY <1>2, <1>3 DEF AllListed
<1>9. PICK k \in DOMAIN out : \A u \in Slots : u < at /\ Watched(u) => data[out[k]] >= data[u]
  BY <1>1, <1>6 DEF PassInv, WorstListed
<1>10. \A u \in Slots : data[u] \in Nat
  BY DEF TableSound, TypeOK
<1>11. WorstListed'
  <2>1. CASE data[out[k]] >= data[at]
    <3>1. k # i
      BY <1>1, <1>6, <1>10, <2>1
    <3>2. out'[k] = out[k] /\ k \in DOMAIN out'
      BY <1>3, <3>1
    <3>3. \A u \in Slots : u < at' /\ Watched(u)' => data'[out'[k]] >= data'[u]
      BY <1>4, <1>9, <2>1, <3>2
    <3>. QED BY <3>2, <3>3 DEF WorstListed
  <2>2. CASE data[out[k]] < data[at]
    <3>1. \A u \in Slots : u < at' /\ Watched(u)' => data'[out'[i]] >= data'[u]
      <4>. SUFFICES ASSUME NEW u \in Slots, u < at', Watched(u) PROVE data[at] >= data[u]
        BY <1>3, <1>4
      <4>1. data[out[k]] \in Nat /\ data[at] \in Nat /\ data[u] \in Nat
        BY <1>6, <1>10
      <4>2. CASE u = at
        BY <4>1, <4>2
      <4>3. CASE u < at
        BY <1>9, <2>2, <4>1, <4>3
      <4>. QED BY <4>2, <4>3
    <3>2. i \in DOMAIN out'
      BY <1>3
    <3>. QED BY <3>1, <3>2 DEF WorstListed
  <2>3. data[out[k]] \in Nat /\ data[at] \in Nat
    BY <1>6, <1>10
  <2>. QED BY <2>1, <2>2, <2>3
<1>. QED BY <1>5, <1>7, <1>8, <1>11 DEF PassInv

\* Outside a pass nothing is listed.
WatchInv == PassType /\ (at = NoPass => out = << >>) /\ (at # NoPass => PassInv)

LEMMA WatchInvStep ==
    ASSUME TableSound, WatchInv, [WatchNext]_watchVars
    PROVE  WatchInv'
<1>. USE SizeAssumption, WatchAssumption DEF NoPass
<1>1. CASE Begin
  <2>1. at' = 0 /\ out' = << >>
    BY <1>1 DEF Begin
  <2>2. PassType'
    BY <2>1 DEF PassType
  <2>3. EntriesOK' /\ AllListed' /\ WorstListed'
    BY <2>1 DEF EntriesOK, AllListed, WorstListed, Slots
  <2>. QED BY <2>1, <2>2, <2>3 DEF WatchInv, PassInv
<1>2. CASE VisitSlot
  <2>1. at \in Slots /\ at' = at + 1 /\ UNCHANGED <<pids, data>> /\ (Skip \/ Add \/ Swap)
    BY <1>2 DEF VisitSlot
  <2>2. PassInv
    BY <2>1 DEF WatchInv, Slots
  <2>3. PassInv'
    BY <2>1, <2>2, SkipInv, AddInv, SwapInv
  <2>4. at' # NoPass
    BY <2>1 DEF Slots
  <2>. QED BY <2>3, <2>4 DEF WatchInv, PassInv
<1>3. CASE Return
  BY <1>3 DEF Return, WatchInv, PassType
<1>4. CASE TableStep
  BY <1>4 DEF TableStep, WatchInv, PassType
<1>5. CASE UNCHANGED watchVars
  BY <1>5 DEF watchVars, WatchInv, PassInv, PassType, EntriesOK, AllListed, WorstListed, Watched
<1>. QED BY <1>1, <1>2, <1>3, <1>4, <1>5 DEF WatchNext

\* A set numbered from 1 to n has n elements.
LEMMA NumberedSet ==
    ASSUME NEW n \in Nat, NEW T, NEW g \in [1 .. n -> T],
           \A j, k \in 1 .. n : g[j] = g[k] => j = k,
           \A t \in T : \E k \in 1 .. n : g[k] = t
    PROVE  IsFiniteSet(T) /\ Cardinality(T) = n
<1>1. g \in Bijection(1 .. n, T)
  BY Fun_IsBij
<1>2. ExistsBijection(1 .. n, T)
  BY <1>1 DEF ExistsBijection
<1>3. IsFiniteSet(1 .. n) /\ Cardinality(1 .. n) = n
  <2>1. IsFiniteSet(1 .. n) /\ Cardinality(1 .. n) = IF 1 > n THEN 0 ELSE n - 1 + 1
    BY FS_Interval
  <2>. QED BY <2>1
<1>. QED BY <1>2, <1>3, FS_Bijection

\* The list the pass ends with.
LEMMA PassResult ==
    ASSUME TableSound, PassInv
    PROVE  WatchlistSound
<1>. SUFFICES ASSUME at = Size PROVE WatchlistSound
  BY DEF WatchlistSound
<1>. DEFINE listed == {out[k] : k \in DOMAIN out}
            watched == {s \in Slots : Watched(s)}
<1>1. /\ out \in Seq(Slots) /\ Len(out) \in Nat /\ Len(out) <= ShameMax /\ DOMAIN out = 1 .. Len(out)
      /\ \A k \in DOMAIN out : out[k] \in Slots /\ Watched(out[k])
      /\ \A j, k \in DOMAIN out : out[j] = out[k] => j = k
      /\ \A u \in Slots : u \in Int /\ u < at
  BY ListFacts, SizeAssumption DEF PassInv, PassType, EntriesOK, Slots
<1>2. listed \subseteq watched
  BY <1>1
<1>3. Cardinality({pids[s] : s \in listed}) = Len(out)
  <2>. DEFINE T == {pids[s] : s \in listed}
              g == [k \in 1 .. Len(out) |-> pids[out[k]]]
  <2>1. g \in [1 .. Len(out) -> T] /\ \A t \in T : \E k \in 1 .. Len(out) : g[k] = t
    BY <1>1
  <2>2. \A j, k \in 1 .. Len(out) : g[j] = g[k] => j = k
    BY <1>1 DEF Watched, TableSound, OwnerUnique
  <2>. HIDE DEF T, g
  <2>3. Cardinality(T) = Len(out)
    BY <1>1, <2>1, <2>2, NumberedSet
  <2>. QED BY <2>3 DEF T
<1>4. IsFiniteSet(listed) /\ Cardinality(listed) = Len(out)
  <2>1. out \in [1 .. Len(out) -> listed] /\ \A t \in listed : \E k \in 1 .. Len(out) : out[k] = t
    BY <1>1
  <2>2. \A j, k \in 1 .. Len(out) : out[j] = out[k] => j = k
    BY <1>1
  <2>. HIDE DEF listed
  <2>. QED BY <1>1, <2>1, <2>2, NumberedSet
<1>5. IsFiniteSet(watched) /\ Cardinality(watched) \in Nat
  <2>1. IsFiniteSet(Slots)
    BY FS_Interval, SizeAssumption DEF Slots
  <2>. QED BY <2>1, FS_Subset, FS_CardinalityType
<1>6. Cardinality(listed) <= Cardinality(watched)
  BY <1>2, <1>5, FS_Subset
<1>7. Len(out) < ShameMax => listed = watched
  BY <1>1, <1>2 DEF PassInv, AllListed
<1>8. Len(out) = IF QuarantinedCount < ShameMax THEN QuarantinedCount ELSE ShameMax
  <2>. HIDE DEF listed, watched
  <2>1. QuarantinedCount = Cardinality(watched)
    BY DEF QuarantinedCount, watched
  <2>2. Len(out) \in Nat /\ Len(out) <= ShameMax /\ ShameMax \in Nat /\ QuarantinedCount \in Nat
    BY <1>1, <1>5, <2>1, WatchAssumption
  <2>3. CASE Len(out) < ShameMax
    <3>1. QuarantinedCount = Len(out)
      BY <1>4, <1>7, <2>1, <2>3
    <3>. QED BY <2>3, <3>1
  <2>4. CASE Len(out) = ShameMax
    <3>1. QuarantinedCount >= ShameMax
      BY <1>4, <1>6, <2>1, <2>4
    <3>. QED BY <2>2, <2>4, <3>1
  <2>. QED BY <2>2, <2>3, <2>4
<1>9. ASSUME QuarantinedCount > 0
      PROVE  \E s \in listed : \A u \in Slots : Watched(u) => data[s] >= data[u]
  <2>1. watched # {}
    BY <1>9, FS_EmptySet DEF QuarantinedCount
  <2>2. PICK v \in Slots : Watched(v)
    BY <2>1
  <2>3. PICK k \in DOMAIN out : \A u \in Slots : u < at /\ Watched(u) => data[out[k]] >= data[u]
    BY <1>1, <2>2 DEF PassInv, WorstListed
  <2>. QED BY <1>1, <2>3
<1>. QED BY <1>2, <1>3, <1>8, <1>9 DEF WatchlistSound

\* For every table and every length of the list worst_actors returns watched PIDs
\* only, none twice, as many as fit, and a worst one among them.
THEOREM WatchlistHolds == WatchSpec => []WatchlistSound
<1>1. WatchInit => WatchInv
  BY WatchAssumption DEF WatchInit, WatchInv, PassType, NoPass
<1>2. ASSUME TableSound, WatchInv, [WatchNext]_watchVars PROVE WatchInv'
  BY <1>2, WatchInvStep
<1>3. ASSUME TableSound, WatchInv PROVE WatchlistSound
  <2>1. CASE at = Size
    <3>1. PassInv
      BY <1>3, <2>1, SizeAssumption DEF WatchInv, NoPass
    <3>. QED BY <1>3, <3>1, PassResult
  <2>2. CASE at # Size
    BY <2>2 DEF WatchlistSound
  <2>. QED BY <2>1, <2>2
<1>. QED BY <1>1, <1>2, <1>3, WatchedTable, TableSoundHolds, PTL DEF WatchSpec
=============================================================================
