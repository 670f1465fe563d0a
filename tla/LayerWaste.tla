----------------------------- MODULE LayerWaste -----------------------------
(***************************************************************************)
(* The efficiency computation: which of the copies the layers store does   *)
(* some name of the final file system still reach, which are waste, and    *)
(* the history `layerx` tells about a wasted path.                         *)
(*                                                                         *)
(* Layers are numbered from 1 here and from 0 in the code.                 *)
(***************************************************************************)
EXTENDS FileTrees, FiniteSetsExt

\* indexTree: the node each path has in a tree, the last one if there are
\* several; below a file nothing is indexed.
Index(root) ==
    LET nodes == Below(root)
    IN [p \in {nodes[i].path : i \in DOMAIN nodes} |->
            nodes[Max({i \in DOMAIN nodes : nodes[i].path = p})]]

Indices(trees) == [i \in DOMAIN trees |-> Index(trees[i])]

IsFileIn(index, p) == p \in DOMAIN index /\ ~index[p].dir /\ index[p].diff # "Removed"
IsWrittenIn(index, p) == p \in DOMAIN index /\ index[p].diff \in {"Added", "Modified"}

\* A stored copy is <<path, layer>>.
NoCopy == <<>>

\* Mutant: a hard link reaches what its target is at the end.
ResolvedAtEnd(indices, at) == Len(indices)

\* A hard link reaches what its target was when the link was made.
LinkedAt(indices, at) == at

\* survivingPayloads' resolve.
RECURSIVE Resolve(_, _, _, _)
Resolve(indices, p, at, resolving) ==
    LET stops == {i \in 1..at : ~IsFileIn(indices[i], p) \/ IsWrittenIn(indices[i], p)}
        i     == Max(stops)
    IN CASE stops = {} \/ <<p, at>> \in resolving -> NoCopy
         [] OTHER ->
            IF ~IsFileIn(indices[i], p) THEN NoCopy
            ELSE IF indices[i][p].hard
                 THEN Resolve(indices, indices[i][p].link, LinkedAt(indices, i), resolving \cup {<<p, at>>})
                 ELSE <<p, i>>

\* survivingPayloads
Surviving(indices) ==
    LET n == Len(indices)
    IN {Resolve(indices, p, n, {}) : p \in {q \in DOMAIN indices[n] : IsFileIn(indices[n], q)}} \ {NoCopy}

CopySize(indices, copy) == indices[copy[2]][copy[1]].size

-----------------------------------------------------------------------------
(* Runs *)

\* flush of pathRuns
Flushed(acc, deleted, layer) ==
    IF acc.open = <<>> THEN acc
    ELSE [runs |-> Append(acc.runs, [occ |-> acc.open, deleted |-> deleted, end |-> layer]), open |-> <<>>]

\* pathRuns: the writes of a path, split where it was not there.
PathRuns(p, indices) ==
    LET step(acc, i) ==
            CASE p \notin DOMAIN indices[i] -> Flushed(acc, TRUE, i)
              [] IsWrittenIn(indices[i], p) ->
                    [acc EXCEPT !.open = Append(@, [layer |-> i, size |-> indices[i][p].size,
                                                    change |-> indices[i][p].diff])]
              [] p \in DOMAIN indices[i] /\ indices[i][p].diff = "Removed" -> Flushed(acc, TRUE, i)
              [] OTHER -> acc
        all == FoldLeft(step, [runs |-> <<>>, open |-> <<>>], [i \in DOMAIN indices |-> i])
    IN Flushed(all, FALSE, Len(indices) + 1).runs

\* chargedOccurrences
Charged(p, run, live) ==
    SelectSeq(run.occ, LAMBDA o : o.size > 0 /\ <<p, o.layer>> \notin live)

Total(occ) == FoldLeft(LAMBDA sum, o : sum + o.size, 0, occ)

-----------------------------------------------------------------------------
(* computeEfficiency *)

\* walkFiles: the paths some layer stores a file at.
StoredPaths(layerTrees) ==
    UNION {{n.path : n \in {m \in ToSet(Below(layerTrees[i])) : ~m.dir /\ ~m.hard /\ ~IsMarker(m.name)}}
           : i \in DOMAIN layerTrees}

WastedFile(p, indices, live) ==
    LET runs    == SelectSeq(PathRuns(p, indices), LAMBDA r : Charged(p, r, live) # <<>>)
        charged == FlattenSeq([i \in DOMAIN runs |-> Charged(p, runs[i], live)])
        written == FlattenSeq([i \in DOMAIN runs |-> SelectSeq(runs[i].occ, LAMBDA o : o.size > 0)])
    IN [path |-> p, wasted |-> Total(charged), count |-> Len(written),
        first |-> IF charged = <<>> THEN 0 ELSE Head(charged).layer]

Efficiency(layerTrees, trees) ==
    LET indices == Indices(trees)
        live    == Surviving(indices)
        files   == {WastedFile(p, indices, live) : p \in StoredPaths(layerTrees)}
        wasted  == {f \in files : f.wasted > 0}
    IN [files |-> wasted,
        wastedBytes |-> MapThenSumSet(LAMBDA f : f.wasted, wasted),
        liveBytes |-> MapThenSumSet(LAMBDA c : CopySize(indices, c), live)]

-----------------------------------------------------------------------------
(* ExplainWaste *)

\* Mutant: a retained copy is taken for the final one.
RetainedReasonSwapped(run, j) == FALSE

\* Not the copy under this name that is there at the end.
Superseded(run, j) == run.deleted \/ j < Len(run.occ)

Reason(p, run, j, live) ==
    LET o == run.occ[j]
        waste == o.size > 0 /\ <<p, o.layer>> \notin live
    IN CASE o.size = 0 -> [says |-> "no bytes", layer |-> o.layer]
         [] waste /\ j < Len(run.occ) -> [says |-> "overwritten", layer |-> run.occ[j + 1].layer]
         [] waste /\ j = Len(run.occ) -> [says |-> "deleted", layer |-> run.end]
         [] o.size > 0 /\ ~waste /\ Superseded(run, j) -> [says |-> "linked", layer |-> o.layer]
         [] OTHER -> [says |-> "present", layer |-> o.layer]

\* The history of p: what became of every write.
Explain(p, trees) ==
    LET indices == Indices(trees)
        live    == Surviving(indices)
        runs    == PathRuns(p, indices)
    IN UNION {{[wrote |-> runs[r].occ[j], reason |-> Reason(p, runs[r], j, live)] : j \in DOMAIN runs[r].occ}
              : r \in DOMAIN runs}

=============================================================================
