---------------------------- MODULE MCCachePrune ----------------------------
(* Instances of CachePrune small enough for TLC.                             *)
EXTENDS CachePrune, TLC

CONSTANTS a, b, c, readme

\* Ages on each side of a TTL of 1, by the oldest and by the newest file;
\* three entries of these sizes are below, at and above a cap of 2.
SomeKinds ==
    {[size |-> 1, oldest |-> 0, newest |-> 0],
     [size |-> 1, oldest |-> 2, newest |-> 0],
     [size |-> 2, oldest |-> 1, newest |-> 1],
     [size |-> 1, oldest |-> 2, newest |-> 2]}

Interchangeable == Permutations(Digests)

=============================================================================
