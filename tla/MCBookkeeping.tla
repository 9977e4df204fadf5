--------------------------- MODULE MCBookkeeping ---------------------------
(* The counters and the usage share no state, so either is explored while  *)
(* the other stands still: what a property of one sees is the same.        *)
EXTENDS Metrics, Usage, TLC
CONSTANTS r1, r2, u1, u2
VARIABLE part

vars == <<part, metricsVars, usageVars>>

Init ==
    /\ part \in {"metrics", "usage"}
    /\ MetricsInit /\ UsageInit
    /\ part = "metrics" => bucket = [k \in Keys |-> 0]

Next ==
    \/ part = "metrics" /\ MetricsNext /\ UNCHANGED <<part, usageVars>>
    \/ part = "usage" /\ UsageNext /\ UNCHANGED <<part, metricsVars>>

Spec == Init /\ [][Next]_vars

(* Once the two savers have overlapped, nothing but PeakExact says anything*)
(* about the state: from there, only what they do to the file is followed. *)
Followed == overlap => \A r \in Requests : pc[r] = "idle"

Symmetry == Permutations(Requests) \cup Permutations(Uploads)
=============================================================================
