----------------------------- MODULE ExportedDsq -----------------------------
(***************************************************************************)
(* BpfScheduler::init and the queues of main.bpf.c together: detect fills  *)
(* the rodata, then the scheduler is attached and CognisDsq runs on them.  *)
(* The constants of CognisDsq are one topology, so that CognisDsq runs     *)
(* where detect arrives at their values; wherever it arrives at others,    *)
(* or the host is not one of RunHosts, the process is started again.       *)
(***************************************************************************)
EXTENDS CognisDsq, Topology

CONSTANT RunHosts   \* bound: the hosts on which the queues are run

\* cpu_llc_idx_for, cpu_node_idx_for and llc_node_idx_for read the rodata.
CpuLlcIdxFor(c) == IF c < MaxTopoCpus THEN export.cpuLlc[c] ELSE 0
CpuNodeIdxFor(c) == IF c < MaxTopoCpus THEN export.cpuNode[c] ELSE 0
LlcNodeIdxFor(l) == IF l < MaxLlcs THEN export.llcNode[l] ELSE 0

\* The rodata are the topology of this instance of CognisDsq.
Attached ==
    /\ Detected /\ host \in RunHosts
    /\ NrLlcs = export.nrLlcs /\ NrNodes = export.nrNodes
    /\ \A c \in CPUs : LlcOf[c] = CpuLlcIdxFor(c) /\ NodeOf[c] = CpuNodeIdxFor(c)
    /\ \A l \in Llcs : LlcNode[l] = LlcNodeIdxFor(l)

exportVars == <<vars, detectVars>>

ExportInit == Init /\ DetectInit

Detect == DetectNext /\ UNCHANGED vars

\* main initialises the scheduler again, which probes the host again.
Restart ==
    /\ Detected /\ ~Attached
    /\ phase' = "start" /\ host' = NoHost /\ todo' = {}
    /\ nodeRemap' = NoRemap /\ llcRemap' = NoRemap /\ export' = DefaultExport
    /\ UNCHANGED vars

RunQueues == Attached /\ Next /\ UNCHANGED detectVars

ExportNext == Detect \/ Restart \/ RunQueues

ExportSpec == ExportInit /\ [][ExportNext]_exportVars

-----------------------------------------------------------------------------
\* Once TopologyExport::detect has returned, its tables are faithful to the host,
\* whatever the probe found; and tasks that wait in one LLC's or one node's DSQ
\* belong to CPUs which the probe put in one LLC or one node.
ExportFaithful ==
    /\ Detected => TablesFaithful
    /\ Attached /\ phase = "exported" =>
        \A t, u \in Tasks : {home[t], home[u]} \subseteq InTables(host) =>
          /\ (\E l \in Llcs : {t, u} \subseteq dsq[LlcDsq(l)])
                => host.llc[home[t]] = host.llc[home[u]]
          /\ (\E n \in Nodes : {t, u} \subseteq dsq[NodeDsq(n)])
                => host.node[home[t]] = host.node[home[u]]

\* What ExportFaithful means for CognisDsq: whatever the host, the rodata are a topology
\* as TopologyAssumption (and the theorems with it) asks for; also CPUs the probe did
\* not see or the tables cannot hold belong to domains for which cognis_init creates
\* a DSQ.
TopologyMet ==
    Detected =>
        /\ export.nrLlcs \in Nat \ {0} /\ export.nrNodes \in Nat \ {0}
        /\ \A c \in CPUs : /\ CpuLlcIdxFor(c) \in 0 .. export.nrLlcs - 1
                           /\ CpuNodeIdxFor(c) \in 0 .. export.nrNodes - 1
        /\ \A l \in 0 .. export.nrLlcs - 1 : LlcNodeIdxFor(l) \in 0 .. export.nrNodes - 1
=============================================================================
