--------------------------- MODULE MCPullProgress ---------------------------
(* Instances of PullProgress small enough for TLC.                           *)
EXTENDS PullProgress, TLC

CONSTANTS a, b

\* One layer that downloads in one message, one that needs two.
TwoSizes == (a :> 1) @@ (b :> 2)

=============================================================================
