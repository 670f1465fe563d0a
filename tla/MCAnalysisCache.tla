-------------------------- MODULE MCAnalysisCache --------------------------
(* Instances of AnalysisCache small enough for TLC. *)
EXTENDS AnalysisCache, TLC

CONSTANTS p1, p2, d1, d2, d3, amd, arm

\* The containerd image store: a digest is an index of several platforms.
Index == [d \in Digests |-> Platforms]
\* The classic store: one platform per digest.
Single == [d \in Digests |-> IF d = d2 THEN {arm} ELSE {amd}]

\* Which processes and digests are which does not matter; the liveness runs
\* do without it.
Interchangeable == Permutations(Procs)

\* The machine as its user leaves it alone: no `cache prune`, no --no-cache,
\* and no save that takes an hour.  Two processes that each need more than an
\* hour for a save can sweep each other's temp file for ever.
QuietNext ==
    \/ \E p \in Procs : (\E n \in Pins : Start(p, n, FALSE)) \/ Work(p) \/ Exit(p) \/ Kill(p)
    \/ PowerCut \/ Retag \/ (\E s \in Slots : Tamper(s))
    \/ HourPasses /\ \A p \in Procs : tmp[p] = NoTemp

QuietSpec == Init /\ [][QuietNext]_vars /\ Fairness

=============================================================================
