---------------------------- MODULE ImageCompare ----------------------------
(***************************************************************************)
(* `layerx compare`: layers of two images paired by content and then by    *)
(* command, live files compared by their metadata, wasted bytes path by    *)
(* path, and the verdict (image/compare.go).                               *)
(*                                                                         *)
(* An image has layers (diffID, command, size, netDelta; Unknown at times), *)
(* live files (path -> size and the rest of the metadata), live bytes and  *)
(* wasted files.                                                           *)
(***************************************************************************)
EXTENDS CheckRules

\* A digest or a command that the image does not tell.
Unknown == ""

Positions(layers, field, value) == {i \in DOMAIN layers : layers[i][field] = value}

\* The k-th smallest of a set of positions, 0 when there are fewer.
Nth(S, k) == LET at == {i \in S : Cardinality({j \in S : j <= i}) = k}
             IN  IF at = {} THEN 0 ELSE Min(at)

\* Mutant: every copy of a content is paired with its first occurrence.
PairWithFirst(before, after) ==
    [i \in DOMAIN after |->
        IF after[i].diffID = Unknown THEN 0
        ELSE Nth(Positions(before, "diffID", after[i].diffID), 1)]

\* The k-th layer with a content is the k-th with that content on the old
\* side; a layer without a known content has no such peer.
SharedPeers(before, after) ==
    [i \in DOMAIN after |->
        IF after[i].diffID = Unknown THEN 0
        ELSE LET same == Positions(after, "diffID", after[i].diffID)
             IN  Nth(Positions(before, "diffID", after[i].diffID),
                     Cardinality({j \in same : j <= i}))]

\* A command pairs what is left when it is unique among it on both sides.
CommandPeers(before, after, shared) ==
    LET oldLeft == DOMAIN before \ {shared[i] : i \in DOMAIN after}
        newLeft == {i \in DOMAIN after : shared[i] = 0}
        Old(c) == {j \in oldLeft : before[j].command = c}
        New(c) == {i \in newLeft : after[i].command = c}
    IN  [i \in DOMAIN after |->
            LET c == after[i].command
            IN  IF i \in newLeft /\ c # Unknown /\ Cardinality(New(c)) = 1 /\ Cardinality(Old(c)) = 1
                THEN CHOOSE j \in Old(c) : TRUE ELSE 0]

\* One entry for every layer of the new image, then one for every old layer
\* without a peer.
buildLayerDiffs(before, after) ==
    LET shared == SharedPeers(before, after)
        command == CommandPeers(before, after, shared)
        Peer(i) == IF shared[i] # 0 THEN shared[i] ELSE command[i]
        gone == DOMAIN before \ {Peer(i) : i \in DOMAIN after}
        New(i) ==
            LET j == Peer(i)
                old == IF j = 0 THEN [size |-> 0, netDelta |-> 0] ELSE before[j]
            IN  [before |-> j, after |-> i,
                 match |-> IF shared[i] # 0 THEN "shared" ELSE IF j # 0 THEN "command" ELSE "added",
                 sizeDelta |-> after[i].size - old.size,
                 netDeltaDiff |-> after[i].netDelta - old.netDelta]
        Old(j) == [before |-> j, after |-> 0, match |-> "removed",
                   sizeDelta |-> -before[j].size, netDeltaDiff |-> -before[j].netDelta]
    IN  {New(i) : i \in DOMAIN after} \cup {Old(j) : j \in gone}

\* The files of one side only, and those whose size or metadata differ.
buildFileDiffs(before, after) ==
    LET Size(files, p) == IF p \in DOMAIN files THEN files[p].size ELSE 0
    IN  {[path |-> p, type |-> IF p \notin DOMAIN after THEN "removed"
                               ELSE IF p \notin DOMAIN before THEN "added" ELSE "modified",
          sizeDelta |-> Size(after, p) - Size(before, p)] :
            p \in {p \in DOMAIN before \cup DOMAIN after :
                      \/ p \notin DOMAIN before \/ p \notin DOMAIN after
                      \/ before[p] # after[p]}}

Deltas(diffs) == FoldSet(LAMBDA d, sum : d.sizeDelta + sum, 0, diffs)

\* Mutant: what a modified file lost is not counted as removed bytes.
ShrinkageForgotten(diffs) ==
    [added |-> Deltas({d \in diffs : d.sizeDelta > 0}),
     removed |-> -Deltas({d \in diffs : d.type = "removed"})]

FileSummary(diffs) ==
    [added |-> Deltas({d \in diffs : d.sizeDelta > 0}),
     removed |-> -Deltas({d \in diffs : d.sizeDelta < 0})]

buildWasteDiffs(before, after) ==
    LET Wasted(files, p) == IF p \in DOMAIN files THEN files[p].bytes ELSE 0
    IN  {d \in {[path |-> p, sizeDelta |-> Wasted(after, p) - Wasted(before, p)] :
                    p \in DOMAIN before \cup DOMAIN after} : d.sizeDelta # 0}

\* efficiencySummary keeps deltas only when both images have layers; a score
\* that drops by no more than scoreEpsilon, 1e-9, is no reason.
RegressionReasons(before, after) ==
    IF before.layers = <<>> \/ after.layers = <<>> THEN {}
    ELSE {r \in {"efficiency", "waste"} :
             \/ /\ r = "efficiency" /\ Score(before) > Score(after)
                /\ Float(Score(before) - Score(after), One) > Float(1, Decimals)
             \/ r = "waste" /\ WastedBytes(after) > WastedBytes(before)}

CompareAnalysis(before, after) ==
    [layers |-> buildLayerDiffs(before.layers, after.layers),
     files |-> buildFileDiffs(before.files, after.files),
     waste |-> buildWasteDiffs(before.wasted, after.wasted),
     reasons |-> RegressionReasons(before, after)]

allLayersShared(result, before, after) ==
    /\ Len(before.layers) = Len(after.layers) /\ before.platform = after.platform
    /\ \A d \in result.layers : d.match = "shared"
=============================================================================
