------------------------------ MODULE Watchlist ------------------------------
(***************************************************************************)
(* TrustTable::worst_actors and quarantined_count (ai/trust.rs): one pass  *)
(* over the slots fills a list of SHAME_MAX entries with PIDs below        *)
(* TRUST_THRESHOLD and then replaces entries.  The pass borrows the table, *)
(* so that no operation of PidTable comes between two of its slots.  The   *)
(* data of a slot counts its observations; here they are adverse ones, so  *)
(* that the more of them a PID has the lower its score is.                 *)
(***************************************************************************)
EXTENDS PidTable, Sequences

CONSTANTS
    ShameMax,  \* SHAME_MAX
    WatchFrom  \* observations that bring a score below TRUST_THRESHOLD

ASSUME WatchAssumption == ShameMax \in Nat \ {0} /\ WatchFrom \in 1 .. MaxObs

NoPass == -1

VARIABLES out,  \* out[..n] of worst_actors, its entries named by their slots
          at    \* the slot the pass looks at, Size at its end, NoPass outside

watchVars == <<pids, data, out, at>>

Watched(s) == pids[s] \in Pids /\ data[s] >= WatchFrom

\* quarantined_count
QuarantinedCount == Cardinality({s \in Slots : Watched(s)})

WatchInit == Init /\ out = << >> /\ at = NoPass

-----------------------------------------------------------------------------
\* update_tui calls worst_actors.
Begin ==
    /\ at = NoPass
    /\ out' = << >> /\ at' = 0
    /\ UNCHANGED <<pids, data>>

\* Mutant: the entries with a lower score are the ones replaced.
ReplaceableLower == {k \in DOMAIN out : data[out[k]] > data[at]}

\* out[..n].iter().position(|e| e.trust > score) looks for the first of these.
Replaceable == {k \in DOMAIN out : data[out[k]] < data[at]}

\* A slot without a PID to watch, or the list is full of PIDs as bad as this one.
Skip ==
    /\ ~Watched(at) \/ (Len(out) >= ShameMax /\ Replaceable = {})
    /\ UNCHANGED out

Add == Watched(at) /\ Len(out) < ShameMax /\ out' = Append(out, at)

Swap ==
    /\ Watched(at) /\ Len(out) >= ShameMax
    /\ \E k \in Replaceable : First(k, Replaceable) /\ out' = [out EXCEPT ![k] = at]

VisitSlot ==
    /\ at \in Slots
    /\ Skip \/ Add \/ Swap
    /\ at' = at + 1
    /\ UNCHANGED <<pids, data>>

\* worst_actors returns.
Return ==
    /\ at = Size
    /\ out' = << >> /\ at' = NoPass
    /\ UNCHANGED <<pids, data>>

TableStep == at = NoPass /\ Next /\ UNCHANGED <<out, at>>

WatchNext == Begin \/ VisitSlot \/ Return \/ TableStep

WatchSpec == WatchInit /\ [][WatchNext]_watchVars

-----------------------------------------------------------------------------
\* Whatever insertions, collisions and evictions made of the table, worst_actors
\* lists only watched PIDs, none twice and as many as fit, so all of them if
\* quarantined_count does not exceed the list; and a PID with the worst score of
\* all is always listed.
WatchlistSound ==
    at = Size =>
        LET listed == {out[k] : k \in DOMAIN out}
        IN  /\ \A s \in listed : Watched(s)
            /\ Cardinality({pids[s] : s \in listed}) = Len(out)
            /\ Len(out) = IF QuarantinedCount < ShameMax THEN QuarantinedCount ELSE ShameMax
            /\ QuarantinedCount > 0 =>
                  \E s \in listed : \A u \in Slots : Watched(u) => data[s] >= data[u]
=============================================================================
