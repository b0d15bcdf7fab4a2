------------------------------ MODULE Topology ------------------------------
(***************************************************************************)
(* TopologyExport::detect of bpf.rs as the loop it is: the probe's CPUs,   *)
(* visited in the order of their ids, give LLC and node ids dense indices  *)
(* in the order of their first appearance.  What the probe (scx_utils)     *)
(* finds is a host:                                                        *)
(*   probed      the probe succeeded                                       *)
(*   cpus        the ids of the CPUs it found                              *)
(*   llc, node   the LLC and node id of each                               *)
(*   nodes       all node ids, those without a CPU included                *)
(* The counters next_node and next_llc count new ids, of which there are   *)
(* at most MaxNodes and MaxLlcs: their saturating u16 additions are exact. *)
(***************************************************************************)
EXTENDS Integers, FiniteSets

CONSTANTS
    MaxTopoCpus,   \* MAX_TOPO_CPUS
    MaxLlcs,       \* MAX_LLCS, which bpf.rs and main.bpf.c define separately
    MaxNodes,      \* MAX_NODES
    TopoIds        \* the ids of CPUs, LLCs and nodes on the hosts considered

ASSUME TopoAssumption ==
    /\ MaxTopoCpus \in Nat \ {0} /\ MaxLlcs \in Nat \ {0} /\ MaxNodes \in Nat \ {0}
    /\ TopoIds \subseteq Nat /\ IsFiniteSet(TopoIds)

\* What a probe may return.
Hosts ==
    {h \in UNION {[probed : BOOLEAN, cpus : {cs}, llc : [cs -> TopoIds],
                   node : [cs -> TopoIds], nodes : SUBSET TopoIds] : cs \in SUBSET TopoIds} :
        \A c \in h.cpus : h.node[c] \in h.nodes}

AllLlcs(h) == {h.llc[c] : c \in h.cpus}
InTables(h) == {c \in h.cpus : c < MaxTopoCpus}

\* TopologyExport::default: one LLC, one node.
DefaultExport ==
    [nrLlcs |-> 1, nrNodes |-> 1,
     cpuLlc |-> [c \in 0 .. MaxTopoCpus - 1 |-> 0],
     cpuNode |-> [c \in 0 .. MaxTopoCpus - 1 |-> 0],
     llcNode |-> [l \in 0 .. MaxLlcs - 1 |-> 0]]

\* node_remap with next_node, and llc_remap with next_llc.
NoRemap == [idx |-> [id \in {} |-> 0], next |-> 0]

\* An id that is new takes the next index.
Remap(r, id) ==
    IF id \in DOMAIN r.idx THEN r
    ELSE [idx |-> [i \in DOMAIN r.idx \cup {id} |-> IF i = id THEN r.next ELSE r.idx[i]],
          next |-> r.next + 1]

VARIABLES
    phase,                \* "start", "visit" in the loop, or detect has returned: "default"
                          \* if it fell back, "exported" if not
    host,                 \* what the probe returned
    todo,                 \* the CPUs the loop has not come to
    nodeRemap, llcRemap,
    export                \* the tables

detectVars == <<phase, host, todo, nodeRemap, llcRemap, export>>

Detected == phase \in {"default", "exported"}

NoHost == [probed |-> FALSE, cpus |-> {}, llc |-> [c \in {} |-> 0],
           node |-> [c \in {} |-> 0], nodes |-> {}]

DetectInit ==
    /\ phase = "start" /\ host = NoHost /\ todo = {}
    /\ nodeRemap = NoRemap /\ llcRemap = NoRemap /\ export = DefaultExport

-----------------------------------------------------------------------------
\* The probe failed, found no LLC, or found more domains than the tables hold.
FallsBack(h) ==
    \/ ~h.probed
    \/ AllLlcs(h) = {} \/ Cardinality(AllLlcs(h)) > MaxLlcs
    \/ Cardinality(h.nodes) > MaxNodes

Probe ==
    /\ phase = "start"
    /\ \E h \in Hosts :
         /\ host' = h /\ todo' = h.cpus
         /\ phase' = IF FallsBack(h) THEN "default" ELSE "visit"
    /\ UNCHANGED <<nodeRemap, llcRemap, export>>

\* The next CPU of the loop over topo.all_cpus, a BTreeMap.
IsNext(cpu) == phase = "visit" /\ cpu \in todo /\ \A d \in todo : cpu <= d

\* Mutant: a CPU beyond the tables is ignored only after its domains got an index.
IgnoreCpuLate(cpu) ==
    /\ IsNext(cpu) /\ cpu >= MaxTopoCpus
    /\ todo' = todo \ {cpu}
    /\ nodeRemap' = Remap(nodeRemap, host.node[cpu])
    /\ llcRemap' = Remap(llcRemap, host.llc[cpu])
    /\ UNCHANGED <<phase, host, export>>

\* A CPU beyond the tables.
IgnoreCpu(cpu) ==
    /\ IsNext(cpu) /\ cpu >= MaxTopoCpus
    /\ todo' = todo \ {cpu}
    /\ UNCHANGED <<phase, host, nodeRemap, llcRemap, export>>

VisitCpu(cpu) ==
    /\ IsNext(cpu) /\ cpu < MaxTopoCpus
    /\ todo' = todo \ {cpu}
    /\ nodeRemap' = Remap(nodeRemap, host.node[cpu])
    /\ llcRemap' = Remap(llcRemap, host.llc[cpu])
    /\ LET node == nodeRemap'.idx[host.node[cpu]]
           llc == llcRemap'.idx[host.llc[cpu]]
       IN  export' = [export EXCEPT !.cpuNode[cpu] = node, !.cpuLlc[cpu] = llc,
                                    !.llcNode[llc] = node]
    /\ UNCHANGED <<phase, host>>

\* The loop is over: .max(1) of the counters.
Finish ==
    LET AtLeast1(n) == IF n < 1 THEN 1 ELSE n IN
    /\ phase = "visit" /\ todo = {}
    /\ phase' = "exported"
    /\ export' = [export EXCEPT !.nrNodes = AtLeast1(nodeRemap.next),
                                !.nrLlcs = AtLeast1(llcRemap.next)]
    /\ UNCHANGED <<host, todo, nodeRemap, llcRemap>>

DetectNext ==
    \/ Probe
    \/ \E cpu \in TopoIds : IgnoreCpu(cpu) \/ VisitCpu(cpu)
    \/ Finish

-----------------------------------------------------------------------------
\* The tables index existing domains for every CPU number (also of CPUs the probe
\* did not see), no domain is without a CPU, two CPUs have one index iff they have
\* one id unless detect fell back to a single domain, and on hosts whose LLCs lie
\* within nodes the node of a CPU's LLC is the CPU's node.
TablesFaithful ==
    /\ export.nrLlcs <= MaxLlcs /\ export.nrNodes <= MaxNodes
    /\ \A c \in 0 .. MaxTopoCpus - 1 :
          export.cpuLlc[c] \in 0 .. export.nrLlcs - 1 /\ export.cpuNode[c] \in 0 .. export.nrNodes - 1
    /\ \A l \in 0 .. export.nrLlcs - 1 : export.llcNode[l] \in 0 .. export.nrNodes - 1
    /\ InTables(host) # {} =>
          /\ {export.cpuLlc[c] : c \in InTables(host)} = 0 .. export.nrLlcs - 1
          /\ {export.cpuNode[c] : c \in InTables(host)} = 0 .. export.nrNodes - 1
    /\ phase = "exported" =>
          \A c, d \in InTables(host) :
             /\ export.cpuLlc[c] = export.cpuLlc[d] <=> host.llc[c] = host.llc[d]
             /\ export.cpuNode[c] = export.cpuNode[d] <=> host.node[c] = host.node[d]
    /\ (\A c, d \in host.cpus : host.llc[c] = host.llc[d] => host.node[c] = host.node[d])
          => \A c \in InTables(host) : export.llcNode[export.cpuLlc[c]] = export.cpuNode[c]
=============================================================================
