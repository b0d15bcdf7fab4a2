------------------------------ MODULE PidTable ------------------------------
(***************************************************************************)
(* The open-addressing tables keyed by PID: TrustTable (ai/trust.rs) and   *)
(* its twin, the lifetime table of main.rs, which has the same probe,      *)
(* insertion and eviction loops.  Linear probing from a hash; a lookup     *)
(* stops at the first slot that was never used; eviction leaves a          *)
(* tombstone, which an insertion reuses.  The data of a slot is abstracted *)
(* to the number of observations folded into it since it was reset.  The   *)
(* only caller of update_on_exit passes the PID as the TGID too: the       *)
(* TGID-level score is then that of the PID's own hash slot, which is      *)
(* never empty after the insertion, so it claims no further slot.          *)
(***************************************************************************)
EXTENDS Integers, FiniteSets

CONSTANTS
    Pids,    \* the PIDs that occur, positive
    Size,    \* TRUST_TABLE_SIZE, LIFETIME_TABLE_SIZE
    Hash,    \* slot(pid)
    MaxObs   \* bound: observations are not told apart beyond it

Slots == 0 .. Size - 1

ASSUME SizeAssumption == Size \in Nat \ {0} /\ MaxObs \in Nat \ {0}
ASSUME PidAssumption == Pids \subseteq Nat \ {0} /\ Hash \in [Pids -> Slots]

Empty == 0        \* PID_EMPTY
Tombstone == -1   \* PID_TOMBSTONE

VARIABLES pids,   \* the owner of every slot
          data    \* its data: scores, comms, flagged, cheat_streak, tgid_scores

vars == <<pids, data>>

TypeOK ==
    /\ pids \in [Slots -> Pids \cup {Empty, Tombstone}]
    /\ data \in [Slots -> 0 .. MaxObs]

\* TrustTable::new, alloc_zeroed
Init == pids = [s \in Slots |-> Empty] /\ data = [s \in Slots |-> 0]

-----------------------------------------------------------------------------
More(n) == IF n < MaxObs THEN n + 1 ELSE n

\* (start + step) & (SIZE - 1), SIZE being a power of two.
Probe(p, step) ==
    IF Hash[p] + step < Size THEN Hash[p] + step ELSE Hash[p] + step - Size

\* The steps of a probe that come before the first empty slot.
Scanned(p) == {k \in Slots : \A j \in 0 .. k : pids[Probe(p, j)] # Empty}

First(k, steps) == k \in steps /\ \A j \in steps : k <= j

\* find_slot
FindSlot(p, s) ==
    \E k \in Slots : /\ First(k, {j \in Scanned(p) : pids[Probe(p, j)] = p})
                     /\ s = Probe(p, k)

Found(p) == \E s \in Slots : FindSlot(p, s)

\* The slot get_or_insert_slot gives to a PID that is not in the table: the first
\* tombstone of the probe, else the empty slot that ended it, else the first slot.
FreeSlot(p, s) ==
    LET tombstones == {k \in Scanned(p) : pids[Probe(p, k)] = Tombstone}
        empties == {k \in Slots : pids[Probe(p, k)] = Empty}
    IN  IF tombstones # {} THEN \E k \in tombstones : First(k, tombstones) /\ s = Probe(p, k)
        ELSE IF empties # {} THEN \E k \in empties : First(k, empties) /\ s = Probe(p, k)
        ELSE s = Hash[p]

\* update_on_exit (lifetime_get_mut_or_default and the assignments of
\* drain_queued_tasks): the slot of a known PID takes the observation.
UpdateKnown(p) ==
    /\ \E s \in Slots : FindSlot(p, s) /\ data' = [data EXCEPT ![s] = More(@)]
    /\ UNCHANGED pids

\* Mutant: an insertion does not reset the slot it takes.
UpdateNewDirty(p) ==
    /\ ~Found(p)
    /\ \E s \in Slots : /\ FreeSlot(p, s)
                        /\ pids' = [pids EXCEPT ![s] = p]
                        /\ data' = [data EXCEPT ![s] = More(@)]

\* A new PID: the slot is reset, then takes the observation.
UpdateNew(p) ==
    /\ ~Found(p)
    /\ \E s \in Slots : /\ FreeSlot(p, s)
                        /\ pids' = [pids EXCEPT ![s] = p]
                        /\ data' = [data EXCEPT ![s] = More(0)]

\* Mutant: an evicted slot is marked empty.
EvictToEmpty(p) ==
    \E s \in Slots : /\ FindSlot(p, s)
                     /\ pids' = [pids EXCEPT ![s] = Empty]
                     /\ data' = [data EXCEPT ![s] = 0]

\* evict, lifetime_evict
Evict(p) ==
    \E s \in Slots : /\ FindSlot(p, s)
                     /\ pids' = [pids EXCEPT ![s] = Tombstone]
                     /\ data' = [data EXCEPT ![s] = 0]

Next == \E p \in Pids : UpdateKnown(p) \/ UpdateNew(p) \/ Evict(p)

Spec == Init /\ [][Next]_vars

-----------------------------------------------------------------------------
(* Properties *)

\* No PID owns two slots, whatever mixture of collisions, tombstones and
\* overwritten slots its insertions met.
OwnerUnique ==
    \A s, u \in Slots : pids[s] \in Pids /\ pids[s] = pids[u] => s = u

\* Every owner can be looked up: no empty slot lies between its hash and its slot.
OwnerReachable ==
    \A s \in Slots : pids[s] \in Pids =>
        \E k \in Scanned(pids[s]) : Probe(pids[s], k) = s

TableSound == TypeOK /\ OwnerUnique /\ OwnerReachable
                /\ \A s \in Slots : data[s] # 0 <=> pids[s] \in Pids

\* What lookups return.
Lookup == [p \in Pids |->
             IF Found(p) THEN data[CHOOSE s \in Slots : FindSlot(p, s)] ELSE 0]

Map == INSTANCE PidMap WITH seen <- Lookup

\* "the old trust data is lost only when the table is truly full": the table is a
\* map from PIDs to their own observations.  A PID never inherits the data of
\* another one that had its slot, and no operation on a PID changes what is known
\* of another one, unless every slot has an owner.
ImplementsMap == Map!Spec
=============================================================================
