---------------------------- MODULE ImageLayers -----------------------------
(***************************************************************************)
(* An image read layer by layer: tar entries become the tree of a layer    *)
(* (ParseLayerTar), a complete layer is stacked on what lies below (Stack, *)
(* BuildAggregatedTrees), and on the result rest the figures layerx        *)
(* reports (NetDelta, waste and its explanation).                          *)
(*                                                                         *)
(* LayerTars has the tars themselves, and Overlay their meaning without    *)
(* trees, in `fs`.                                                         *)
(***************************************************************************)
EXTENDS LayerWaste, LayerTars

VARIABLES
    tree,        \* the tree the entries being read make
    layerTrees,  \* Layer.Tree of the complete layers
    cumulative,  \* Stack's cumulative tree
    stacked,     \* Stack's result
    aggregated   \* BuildAggregatedTrees' result, the last being the baseline

vars == <<tarVars, tree, layerTrees, cumulative, stacked, aggregated>>

TypeOK ==
    /\ Len(tars) <= MaxLayers /\ Len(tar) <= MaxPerLayer
    /\ \A s \in {layerTrees, stacked, aggregated, uppers, fs} : DOMAIN s = DOMAIN tars
    /\ \A s \in {layerTrees, stacked, aggregated} : \A i \in DOMAIN s :
          \A n \in ToSet(Below(s[i])) :
             /\ n.diff \in Labels /\ n.mode \in Modes /\ n.size \in Nat
             /\ n.intro \in 0..Len(tars)
             /\ ~n.dir => n.kids = <<>>
    /\ \A i \in DOMAIN fs : \A p \in DOMAIN fs[i] : p \in Seq(Names) \ {<<>>}

Init ==
    /\ TarsInit
    /\ tree = Root /\ layerTrees = <<>> /\ cumulative = Root /\ stacked = <<>> /\ aggregated = <<>>

-----------------------------------------------------------------------------
(* Reading *)

\* One turn of ParseLayerTar's loop.
ReadEntry(s) ==
    /\ NextEntry(s)
    /\ tree' = InsertNode(tree, Last(tar'), 0)
    /\ UNCHANGED <<layerTrees, cumulative, stacked, aggregated>>

NoTreeYet == \A i \in DOMAIN layerTrees : layerTrees[i].kids = <<>>

\* One turn of Stack's loop.
StackLayer ==
    LET fresh == IF NoTreeYet THEN CloneAsAdded(tree, This) ELSE Merge(cumulative, tree, This, TRUE)
    IN IF tree.kids = <<>>
       THEN stacked' = Append(stacked, CloneAsUnchanged(cumulative)) /\ UNCHANGED cumulative
       ELSE stacked' = Append(stacked, fresh) /\ cumulative' = CloneStructure(fresh)

\* One turn of BuildAggregatedTrees' loop.
AggregateLayer ==
    LET baseline == IF aggregated = <<>> THEN Root ELSE Last(aggregated)
    IN aggregated' = Append(aggregated,
           CASE tree.kids = <<>> -> baseline
             [] tree.kids # <<>> /\ aggregated = <<>> -> CloneAsAdded(tree, This)
             [] OTHER -> Merge(baseline, tree, This, FALSE))

FinishLayer ==
    /\ EndOfTar
    /\ layerTrees' = Append(layerTrees, tree) /\ tree' = Root
    /\ StackLayer /\ AggregateLayer

Next == FinishLayer \/ \E s \in Shapes : ReadEntry(s)

Spec == Init /\ [][Next]_vars

-----------------------------------------------------------------------------
(* Figures *)

\* assignNetDeltas
NetDelta(i) == LiveFileBytes(stacked[i]) - (IF i = 1 THEN 0 ELSE LiveFileBytes(stacked[i - 1]))

-----------------------------------------------------------------------------
(* Properties, of the trees and figures of every layer so far *)

LiveNodes(root) == {n \in ToSet(Below(root)) : n.diff # "Removed"}
SizeAt(f, p) == IF f[p].kind = "reg" THEN SizeIn(f[p].inode[2]) ELSE 0
SameFile(a, b) == a.kind = b.kind /\ a.mode = b.mode /\ a.inode = b.inode
Before(i) == IF i = 1 THEN Empty ELSE fs[i - 1]

Shown(root) ==
    {[path |-> n.path, mode |-> n.mode, size |-> n.size,
      kind |-> CASE n.dir -> "dir" [] n.hard -> "link" [] OTHER -> "reg"] : n \in LiveNodes(root)}
Mounted(f) ==
    {[path |-> p, mode |-> f[p].mode, size |-> SizeAt(f, p), kind |-> f[p].kind] : p \in DOMAIN f}

\* Without what they mark as removed, the stacked tree of a layer and the
\* cumulative view at it show the file system an overlay mount of the layers
\* up to it would: the paths, what each is, its mode and its size.
ViewsAreOverlay ==
    Fresh => Shown(stacked[Top]) = Mounted(fs[Top]) /\ Shown(aggregated[Top]) = Mounted(fs[Top])

\* The labels of a stacked tree tell what its layer did: one node for every
\* path; a file is labelled added or modified exactly if the layer wrote it;
\* removed means there before and gone now; an unchanged directory has
\* nothing changed anywhere below it.
LabelsTell ==
    Fresh =>
      LET nodes == Below(stacked[Top])
      IN /\ \A i, j \in DOMAIN nodes : nodes[i].path = nodes[j].path => i = j
         /\ \A n \in ToSet(nodes) :
               LET wrote == n.path \in DOMAIN uppers[Top]
               IN CASE n.diff = "Removed" -> n.path \in DOMAIN Before(Top) \ DOMAIN fs[Top]
                    [] n.diff # "Removed" /\ ~n.dir -> n.diff \in {"Added", "Modified"} <=> wrote
                    [] n.diff = "Unchanged" /\ n.dir ->
                          \A p \in DOMAIN Before(Top) \cup DOMAIN fs[Top] :
                             IsPrefix(n.path, p) =>
                                /\ p \in DOMAIN Before(Top) \cap DOMAIN fs[Top]
                                /\ SameFile(Before(Top)[p], fs[Top][p])
                    [] OTHER -> TRUE

\* The inodes some final name still reaches, and all that were stored.
LiveInodes == {fs[Top][p].inode : p \in DOMAIN fs[Top]} \ {NoInode}
Stored(i) == {p \in DOMAIN uppers[i] : uppers[i][p].kind = "reg" /\ ~IsMarkerPath(p)}
Dead(p) == {i \in 1..Top : p \in Stored(i) /\ <<p, i>> \notin LiveInodes}

\* Waste is exactly the stored copies no final name reaches, by any hard
\* link; each is charged to its path, the first of them named; live bytes are
\* the other copies, so nothing stored is lost or counted twice.  The net
\* deltas up to a layer add up to the bytes of the files that exist there.
WasteExact ==
    Fresh =>
      LET result == Efficiency(layerTrees, stacked)
          bytes(p) == MapThenSumSet(LAMBDA i : SizeIn(i), Dead(p))
          wasted == {p \in UNION {Stored(i) : i \in 1..Top} : Dead(p) # {}}
      IN /\ {[path |-> f.path, wasted |-> f.wasted, first |-> f.first] : f \in result.files}
               = {[path |-> p, wasted |-> bytes(p), first |-> Min(Dead(p))] : p \in wasted}
         /\ result.wastedBytes = MapThenSumSet(bytes, wasted)
         /\ result.liveBytes = MapThenSumSet(LAMBDA c : SizeIn(c[2]), LiveInodes)
         /\ MapThenSumSet(NetDelta, 1..Top)
               = MapThenSumSet(LAMBDA p : SizeAt(fs[Top], p), DOMAIN fs[Top])

\* What the explanation says of a write is what happened to that copy.
ReasonsTrue ==
    Fresh =>
      \A p \in UNION {DOMAIN fs[i] : i \in 1..Top} : \A event \in Explain(p, stacked) :
        LET at   == event.wrote.layer
            then == event.reason.layer
            here == p \in DOMAIN fs[Top] /\ fs[Top][p].kind = "reg" /\ fs[Top][p].inode = <<p, at>>
            live == <<p, at>> \in LiveInodes
        IN CASE event.reason.says = "present" -> here
             [] event.reason.says = "linked" -> live /\ ~here
             [] event.reason.says = "overwritten" -> ~live /\ p \in DOMAIN fs[then] /\ p \in DOMAIN uppers[then]
             [] event.reason.says = "deleted" -> ~live /\ p \in DOMAIN fs[then - 1] \ DOMAIN fs[then]
             [] OTHER -> p \in DOMAIN fs[at] => fs[at][p].kind # "reg"
=============================================================================
