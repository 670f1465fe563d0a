-------------------------- MODULE MCTreeNavigation --------------------------
(* Three layers.  The first has a directory in a directory and a file in   *)
(* another; the second makes the directory a file; the third, which hides  *)
(* all that was in the root, makes it a directory again and the other one  *)
(* a file, so that the aggregated tree lists a/x twice and the stacked one *)
(* no longer e/z.                                                          *)
EXTENDS TreeNavigation

A == <<"a">>
AX == <<"a", "x">>
AXY == <<"a", "x", "y">>
E == <<"e">>
EZ == <<"e", "z">>

Dir(path, depth, diff, size) ==
    [path |-> path, depth |-> depth, dir |-> TRUE, diff |-> diff, size |-> size]
File(path, depth, diff, size) ==
    [path |-> path, depth |-> depth, dir |-> FALSE, diff |-> diff, size |-> size]

Layer1 == << Dir(E, 1, "added", 1), File(EZ, 2, "added", 1),
             Dir(A, 1, "added", 2), Dir(AX, 2, "added", 2), File(AXY, 3, "added", 2) >>
Stacked2 == << Dir(E, 1, "unchanged", 1), File(EZ, 2, "unchanged", 1),
               Dir(AX, 1, "removed", 0), File(AXY, 2, "removed", 0), File(A, 1, "modified", 3) >>
Aggregated2 == << Dir(E, 1, "added", 1), File(EZ, 2, "added", 1),
                  Dir(AX, 1, "removed", 0), File(AXY, 2, "removed", 0), File(A, 1, "modified", 3) >>
Stacked3 == << Dir(A, 1, "added", 0), Dir(AX, 2, "added", 0), File(E, 1, "added", 2) >>
Aggregated3 == << Dir(AX, 1, "removed", 0), File(AXY, 2, "removed", 0),
                  Dir(A, 1, "added", 0), Dir(AX, 2, "added", 0), File(E, 1, "added", 2) >>

MCTrees == [tree |-> <<Layer1, Stacked2, Stacked3>>, agg |-> <<Layer1, Aggregated2, Aggregated3>>]

MCHits == (<<"a">> :> {A, AX, AXY}) @@ (<<"x">> :> {AX, AXY}) @@ (<<"a", "x">> :> {})
          @@ (<<"a", "a">> :> {}) @@ (<<"x", "x">> :> {}) @@ (<<"x", "a">> :> {})
MCTexts == {<<"a">>, <<"x">>, <<"x", "a", "a">>}

\* The history of e/z ends in the layer that no longer lists it; a row without
\* a layer, which wasteJump answers too; one more than the overlay takes.
Row(path, layer, events) == [path |-> path, layer |-> layer, events |-> events]
MCWastedFiles == << Row(EZ, 1, <<1, 3>>), Row(AXY, 0, <<1, 2>>), Row(AXY, 1, <<1, 2>>) >>
MCCleanupRows == << Row(E, 3, <<>>) >>
=============================================================================
