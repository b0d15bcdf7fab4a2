------------------------- MODULE Accounting_proofs -------------------------
(***************************************************************************)
(* NothingInherited and NeverQuarantined for every number of lives and     *)
(* every slice and sample.  NothingInherited needs to know where else the  *)
(* data of a finished life could come from: no sample of it is unread, and *)
(* no life to come has its number.                                         *)
(***************************************************************************)
EXTENDS Accounting, TLAPS

\* A life that ended completely is over, and none of its samples is unread.
CompleteOver ==
    \A l \in complete : l <= life /\ (l = life => ~alive) /\ ~Unread(l)

\* The parts of TypeOK, Boolean-valued variables apart.
BoolOK == alive \in BOOLEAN /\ stale \in BOOLEAN
DataOK ==
    /\ life \in 0 .. MaxLives
    /\ samples \in Seq([life : Lives, used : UsedNs]) /\ exits \in Seq(Lives)
    /\ complete \subseteq Lives
    /\ pc \in {"schedule", "exits", "housekeeping"}
    /\ window \in [life : Lives, used : UsedNs] \cup {NoWindow}
    /\ record \in [lives : SUBSET Lives, score : Int]

\* There is no task before the first life, and no window without a life is stale.
Consistent == (alive => life # 0) /\ (stale => window # NoWindow)

IndInv ==
    /\ BoolOK
    /\ DataOK
    /\ Consistent
    /\ CompleteOver
    /\ NothingInherited
    /\ NeverQuarantined

\* No observation flush_trust_updates can make takes a score below the threshold.
LEMMA RescoreBounded ==
    ASSUME NEW w \in [life : Lives, used : UsedNs], NEW s \in Int, s >= Threshold
    PROVE  Rescore(w, s) \in Int /\ Rescore(w, s) >= Threshold
<1>1. Underran(w, s) \in Int /\ Underran(w, s) >= Threshold
  BY DEF Underran, AtMost, Blend, Threshold
<1>2. \A r \in Int : r >= Threshold => Exited(r) \in Int /\ Exited(r) >= -280
  BY DEF Exited, AtMost, Blend, Threshold
<1>3. \A r \in Int : r >= -280 => Burned(w, r) \in Int /\ Burned(w, r) >= Threshold
  BY DEF Burned, AtLeast, Blend, Threshold
<1> QED
  BY <1>1, <1>2, <1>3 DEF Rescore

LEMMA InitInv == Init => IndInv
<1> SUFFICES ASSUME Init PROVE IndInv
  OBVIOUS
<1>1. BoolOK
  BY DEF Init, BoolOK
<1>2. DataOK
  BY AccountingAssumption DEF Init, DataOK, NoRecord
<1>3. Consistent
  BY DEF Init, Consistent
<1>4. CompleteOver /\ NothingInherited /\ NeverQuarantined
  BY DEF Init, CompleteOver, NothingInherited, NeverQuarantined, NoRecord, Threshold
<1> QED
  BY <1>1, <1>2, <1>3, <1>4 DEF IndInv

LEMMA StartInv == IndInv /\ Start => IndInv'
<1> SUFFICES ASSUME IndInv, Start PROVE IndInv'
  OBVIOUS
<1>1. BoolOK' /\ DataOK' /\ Consistent'
  <2>1. BoolOK'
    BY AccountingAssumption DEF Start, IndInv, BoolOK
  <2>2. DataOK'
    BY AccountingAssumption DEF Start, IndInv, DataOK
  <2>3. Consistent'
    BY AccountingAssumption DEF Start, IndInv, DataOK, BoolOK, Consistent
  <2> QED
    BY <2>1, <2>2, <2>3
<1>2. CompleteOver'
  BY AccountingAssumption DEF Start, IndInv, DataOK, CompleteOver, Unread, Lives
<1>3. NothingInherited' /\ NeverQuarantined'
  BY DEF Start, IndInv, NothingInherited, NeverQuarantined, PendingExit
<1> QED
  BY <1>1, <1>2, <1>3 DEF IndInv

LEMMA SampleInv ==
    ASSUME IndInv, NEW used \in UsedNs, Sample(used)
    PROVE  IndInv'
<1> DEFINE w == [life |-> life, used |-> used]
<1>1. life \in Lives
  BY AccountingAssumption DEF IndInv, DataOK, Consistent, Lives, Sample
<1>2. w \in [life : Lives, used : UsedNs] /\ samples' = Append(samples, w)
  BY <1>1 DEF Sample
<1>3. BoolOK' /\ DataOK' /\ Consistent'
  <2>1. BoolOK'
    BY <1>2 DEF Sample, IndInv, BoolOK
  <2>2. DataOK'
    BY <1>2 DEF Sample, IndInv, DataOK
  <2>3. Consistent'
    BY <1>2 DEF Sample, IndInv, DataOK, BoolOK, Consistent
  <2> QED
    BY <2>1, <2>2, <2>3
<1>4. CompleteOver'
  <2>1. \A l \in complete : l # life
    BY DEF IndInv, CompleteOver, Sample
  <2>2. ASSUME NEW l \in complete, NEW k \in DOMAIN samples', samples'[k].life = l
        PROVE  FALSE
    <3>1. CASE k = Len(samples) + 1
      BY <1>2, <2>1, <2>2, <3>1 DEF IndInv, DataOK
    <3>2. CASE k # Len(samples) + 1
      <4>1. k \in DOMAIN samples /\ samples[k] = samples'[k]
        BY <1>2, <3>2 DEF IndInv, DataOK
      <4> QED
        BY <2>2, <4>1 DEF IndInv, CompleteOver, Unread
    <3> QED
      BY <3>1, <3>2
  <2> QED
    BY <2>2 DEF Sample, IndInv, CompleteOver, Unread
<1>5. NothingInherited' /\ NeverQuarantined'
  BY DEF Sample, IndInv, NothingInherited, NeverQuarantined, PendingExit
<1> QED
  BY <1>3, <1>4, <1>5 DEF IndInv

LEMMA DisableInv == IndInv /\ Disable => IndInv'
<1> SUFFICES ASSUME IndInv, Disable PROVE IndInv'
  OBVIOUS
<1>1. /\ alive /\ alive' = FALSE /\ UNCHANGED <<life, samples, pc, window, stale, record>>
  BY DEF Disable
<1>2. CASE exits' = exits /\ complete' = complete
  <2>1. BoolOK' /\ DataOK' /\ Consistent'
    <3>1. BoolOK'
      BY <1>1, <1>2 DEF IndInv, BoolOK
    <3>2. DataOK'
      BY <1>1, <1>2 DEF IndInv, DataOK
    <3>3. Consistent'
      BY <1>1, <1>2 DEF IndInv, DataOK, BoolOK, Consistent
    <3> QED
      BY <3>1, <3>2, <3>3
  <2>2. CompleteOver' /\ NothingInherited' /\ NeverQuarantined'
    BY <1>1, <1>2 DEF IndInv, CompleteOver, NothingInherited, NeverQuarantined, PendingExit,
                      Unread
  <2> QED
    BY <2>1, <2>2 DEF IndInv
<1>3. CASE /\ exits' = Append(exits, life)
           /\ complete' = IF Unread(life) THEN complete ELSE complete \cup {life}
  <2>1. life \in Lives
    BY <1>1, AccountingAssumption DEF IndInv, DataOK, Consistent, Lives
  <2>2. BoolOK' /\ DataOK' /\ Consistent'
    <3>1. BoolOK'
      BY <1>1, <1>3, <2>1 DEF IndInv, BoolOK
    <3>2. DataOK'
      BY <1>1, <1>3, <2>1 DEF IndInv, DataOK
    <3>3. Consistent'
      BY <1>1, <1>3, <2>1 DEF IndInv, DataOK, BoolOK, Consistent
    <3> QED
      BY <3>1, <3>2, <3>3
  <2>3. CompleteOver'
    BY <1>1, <1>3, <2>1, AccountingAssumption
       DEF IndInv, DataOK, CompleteOver, Unread, Lives
  <2>4. \A l \in complete' : l = life \/ l \in complete
    BY <1>3
  <2>5. PendingExit(life)'
    <3>1. Len(exits) + 1 \in DOMAIN exits' /\ exits'[Len(exits) + 1] = life
      BY <1>3, <2>1 DEF IndInv, DataOK
    <3> QED
      BY <1>1, <3>1 DEF PendingExit
  <2>6. \A l \in complete : PendingExit(l) => PendingExit(l)'
    <3>1. \A k \in DOMAIN exits : k \in DOMAIN exits' /\ exits'[k] = exits[k]
      BY <1>3, <2>1 DEF IndInv, DataOK
    <3> QED
      BY <3>1 DEF PendingExit
  <2>7. NothingInherited' /\ NeverQuarantined'
    BY <1>1, <2>4, <2>5, <2>6 DEF IndInv, NothingInherited, NeverQuarantined
  <2> QED
    BY <2>2, <2>3, <2>7 DEF IndInv
<1> QED
  BY <1>2, <1>3 DEF Disable

LEMMA ReadSampleInv == IndInv /\ ReadSample => IndInv'
<1> SUFFICES ASSUME IndInv, ReadSample PROVE IndInv'
  OBVIOUS
<1>1. /\ samples # << >> /\ window' = Head(samples) /\ samples' = Tail(samples)
      /\ stale' = FALSE
      /\ UNCHANGED <<life, alive, exits, complete, pc, record>>
  BY DEF ReadSample
<1>2. 1 \in DOMAIN samples /\ Head(samples) = samples[1]
  BY <1>1 DEF IndInv, DataOK
<1>3. \A k \in DOMAIN samples' : k + 1 \in DOMAIN samples /\ samples'[k] = samples[k + 1]
  BY <1>1 DEF IndInv, DataOK
<1>4. BoolOK' /\ DataOK' /\ Consistent'
  <2>1. BoolOK'
    BY <1>1, <1>2 DEF IndInv, BoolOK
  <2>2. DataOK'
    <3> DEFINE W == [life : Lives, used : UsedNs]
    <3>1. samples \in Seq(W) /\ samples # << >>
      BY <1>1 DEF IndInv, DataOK
    <3> HIDE DEF W
    <3>2. Head(samples) \in W /\ Tail(samples) \in Seq(W)
      BY <3>1
    <3> QED
      BY <1>1, <3>2 DEF IndInv, DataOK, W
  <2>3. Consistent'
    BY <1>1, <1>2 DEF IndInv, DataOK, BoolOK, Consistent
  <2> QED
    BY <2>1, <2>2, <2>3
<1>5. CompleteOver'
  BY <1>1, <1>3 DEF IndInv, CompleteOver, Unread
<1>6. \A l \in complete : window'.life # l
  BY <1>1, <1>2 DEF IndInv, CompleteOver, Unread
<1>7. NothingInherited' /\ NeverQuarantined'
  BY <1>1, <1>6 DEF IndInv, NothingInherited, NeverQuarantined, PendingExit
<1> QED
  BY <1>4, <1>5, <1>7 DEF IndInv

LEMMA ReadExitInv == IndInv /\ ReadExit => IndInv'
<1> SUFFICES ASSUME IndInv, ReadExit PROVE IndInv'
  OBVIOUS
<1>1. /\ exits' = Tail(exits) /\ window' = NoWindow /\ stale' = FALSE /\ record' = NoRecord
      /\ exits # << >> /\ UNCHANGED <<life, alive, samples, complete, pc>>
  BY DEF ReadExit
<1>2. BoolOK' /\ DataOK' /\ Consistent'
  <2>1. BoolOK'
    BY <1>1 DEF IndInv, BoolOK
  <2>2. DataOK'
    BY <1>1 DEF IndInv, DataOK, NoRecord
  <2>3. Consistent'
    BY <1>1 DEF IndInv, DataOK, BoolOK, Consistent
  <2> QED
    BY <2>1, <2>2, <2>3
<1>3. CompleteOver'
  BY <1>1 DEF IndInv, CompleteOver, Unread
<1>4. \A l \in complete : l # 0
  BY AccountingAssumption DEF IndInv, DataOK, Lives
<1>5. NothingInherited' /\ NeverQuarantined'
  BY <1>1, <1>4 DEF NothingInherited, NeverQuarantined, NoWindow, NoRecord, Threshold
<1> QED
  BY <1>2, <1>3, <1>5 DEF IndInv

LEMMA FlushInv == IndInv /\ Flush => IndInv'
<1> SUFFICES ASSUME IndInv, Flush PROVE IndInv'
  OBVIOUS
<1>1. /\ window' = NoWindow /\ stale' = FALSE /\ pc' = "schedule" /\ UNCHANGED taskVars
      /\ record' = [lives |-> record.lives \cup {window.life},
                    score |-> Rescore(window, record.score)]
  BY DEF Flush
<1>2. window \in [life : Lives, used : UsedNs]
  BY DEF Flush, IndInv, Consistent, DataOK
<1>3. Rescore(window, record.score) \in Int /\ Rescore(window, record.score) >= Threshold
  BY <1>2, RescoreBounded DEF IndInv, DataOK, NeverQuarantined
<1>4. BoolOK' /\ DataOK' /\ Consistent'
  <2>1. BoolOK'
    BY <1>1, <1>2, <1>3 DEF IndInv, taskVars, BoolOK
  <2>2. DataOK'
    BY <1>1, <1>2, <1>3 DEF IndInv, taskVars, DataOK
  <2>3. Consistent'
    BY <1>1, <1>2, <1>3 DEF IndInv, taskVars, DataOK, BoolOK, Consistent
  <2> QED
    BY <2>1, <2>2, <2>3
<1>5. CompleteOver'
  BY <1>1 DEF IndInv, CompleteOver, Unread, taskVars
<1>6. \A l \in complete : l # 0
  BY AccountingAssumption DEF IndInv, DataOK, Lives
<1>7. NothingInherited'
  BY <1>1, <1>6 DEF IndInv, NothingInherited, PendingExit, taskVars, NoWindow
<1>8. NeverQuarantined'
  BY <1>1, <1>3 DEF NeverQuarantined
<1> QED
  BY <1>4, <1>5, <1>7, <1>8 DEF IndInv

LEMMA PhaseInv == IndInv /\ (Age \/ NextPhase \/ UNCHANGED vars) => IndInv'
<1> SUFFICES ASSUME IndInv, Age \/ NextPhase \/ UNCHANGED vars PROVE IndInv'
  OBVIOUS
<1>1. UNCHANGED <<life, alive, samples, exits, complete, window, record>>
  BY DEF Age, NextPhase, vars, taskVars
<1>2. stale' = stale \/ (stale' = TRUE /\ window # NoWindow)
  BY DEF Age, NextPhase, vars, taskVars
<1>3. pc' \in {"schedule", "exits", "housekeeping"}
  BY DEF IndInv, DataOK, Age, NextPhase, vars, taskVars
<1>4. BoolOK'
  BY <1>1, <1>2 DEF IndInv, BoolOK
<1>5. DataOK'
  BY <1>1, <1>3 DEF IndInv, DataOK
<1>6. Consistent'
  BY <1>1, <1>2 DEF IndInv, Consistent
<1>7. CompleteOver'
  BY <1>1 DEF IndInv, CompleteOver, Unread
<1>8. NothingInherited' /\ NeverQuarantined'
  BY <1>1 DEF IndInv, NothingInherited, NeverQuarantined, PendingExit
<1> QED
  BY <1>4, <1>5, <1>6, <1>7, <1>8 DEF IndInv

\* The strengthening is an invariant.
THEOREM InductiveInvariant == Spec => []IndInv
<1>1. Init => IndInv
  BY InitInv
<1>2. IndInv /\ [Next]_vars => IndInv'
  BY StartInv, SampleInv, DisableInv, ReadSampleInv, ReadExitInv, FlushInv, PhaseInv DEF Next
<1> QED
  BY <1>1, <1>2, PTL DEF Spec

\* Whatever the order in which run() reads the two rings and flushes, and however
\* often the PID is reused: nothing of a task that left with its exit event and no
\* sample unread outlives the reading of the event.
THEOREM NothingInheritedAlways == Spec => []NothingInherited
<1>1. IndInv => NothingInherited
  BY DEF IndInv
<1> QED
  BY <1>1, InductiveInvariant, PTL

\* For every slice and every sample: the observations flush_trust_updates makes never
\* bring a score below TRUST_THRESHOLD, so that worst_actors finds nobody to list.
THEOREM NeverQuarantinedAlways == Spec => []NeverQuarantined
<1>1. IndInv => NeverQuarantined
  BY DEF IndInv
<1> QED
  BY <1>1, InductiveInvariant, PTL
=============================================================================
