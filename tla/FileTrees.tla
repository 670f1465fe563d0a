----------------------------- MODULE FileTrees ------------------------------
(***************************************************************************)
(* The file trees of src/image: how a layer's tar entries become a tree    *)
(* (insertNode), and how that tree is merged over what lies below it       *)
(* (mergeLayerWith), with the labels the views show.                       *)
(*                                                                         *)
(* The root is <<>>; `mode` stands for mode and owner.                     *)
(***************************************************************************)
EXTENDS LayerNames, Integers, Sequences, SequencesExt

Labels == {"Unchanged", "Added", "Modified", "Removed"}

\* A FileNode with no children.  link is the path a hard link names.
Node(name, path, mode) ==
    [name |-> name, path |-> path, dir |-> FALSE, hard |-> FALSE, link |-> <<>>, size |-> 0,
     mode |-> mode, inferred |-> FALSE, diff |-> "Unchanged", intro |-> 0, kids |-> <<>>]

Root == [Node(Opq, <<>>, DefaultMode) EXCEPT !.dir = TRUE]

-----------------------------------------------------------------------------
(* FileNode *)

\* FindChild: the position of the first child of that name, 0 if none.
FindChild(n, name) == SelectInSeq(n.kids, LAMBDA k : k.name = name)
HasChild(n, name) == FindChild(n, name) # 0
Child(n, name) == n.kids[FindChild(n, name)]
AddChild(n, k) == [n EXCEPT !.kids = Append(@, k)]

\* The nodes below n, parents before their children.
RECURSIVE Below(_)
Below(n) == FlattenSeq([i \in DOMAIN n.kids |-> <<n.kids[i]>> \o Below(n.kids[i])])

RECURSIVE LiveFileBytes(_)
LiveFileBytes(n) ==
    IF n.diff = "Removed" THEN 0
    ELSE FoldLeft(LAMBDA sum, k : sum + LiveFileBytes(k), IF n.dir THEN 0 ELSE n.size, n.kids)

-----------------------------------------------------------------------------
(* ParseLayerTar *)

InferredDir(name, path) == [Node(name, path, DefaultMode) EXCEPT !.dir = TRUE, !.inferred = TRUE]

\* A second tar entry for the same path.  A directory entry keeps children.
Overwritten(n, e) ==
    [n EXCEPT !.dir = (e.type = "dir"), !.hard = (e.type = "link"), !.link = e.link,
              !.size = IF e.type = "dir" THEN 0 ELSE e.size,
              !.kids = IF e.type = "dir" THEN @ ELSE <<>>,
              !.mode = e.mode, !.inferred = FALSE]

\* A file that turns out to have entries below it.
Promoted(n) ==
    IF n.dir THEN n
    ELSE [n EXCEPT !.dir = TRUE, !.size = 0, !.kids = <<>>, !.link = <<>>, !.hard = FALSE,
                   !.mode = DefaultMode, !.inferred = TRUE]

\* insertNode, from the node at depth `depth` of the entry's path down.
RECURSIVE InsertNode(_, _, _)
InsertNode(n, e, depth) ==
    LET path == SubSeq(e.path, 1, depth + 1)
        name == Last(path)
        at   == FindChild(n, name)
        put(k) == IF path = e.path THEN Overwritten(k, e) ELSE InsertNode(Promoted(k), e, depth + 1)
    IN IF at = 0 THEN AddChild(n, put(InferredDir(name, path)))
                 ELSE [n EXCEPT !.kids[at] = put(@)]

-----------------------------------------------------------------------------
(* Clones *)

RECURSIVE Labelled(_, _)
Labelled(n, label) ==
    [n EXCEPT !.diff = label, !.kids = [i \in DOMAIN @ |-> Labelled(@[i], label)]]

CloneAsUnchanged(n) == Labelled(n, "Unchanged")
CloneAsRemoved(n) == Labelled(n, "Removed")

RECURSIVE CloneAsAdded(_, _)
CloneAsAdded(n, layer) ==
    LET plain == SelectSeq(n.kids, LAMBDA k : ~IsMarker(k.name))
    IN [n EXCEPT !.diff = "Added", !.intro = layer,
                 !.kids = [i \in DOMAIN plain |-> CloneAsAdded(plain[i], layer)]]

\* cloneStructure: what exists, without labels.
RECURSIVE CloneStructure(_)
CloneStructure(n) ==
    LET there == SelectSeq(n.kids, LAMBDA k : k.diff # "Removed")
    IN [n EXCEPT !.diff = "Unchanged", !.kids = [i \in DOMAIN there |-> CloneStructure(there[i])]]

-----------------------------------------------------------------------------
(* mergeLayerWith *)

Opaque(l) == HasChild(l, Opq)
Whited(l, name) == HasChild(l, Wh(name))

\* preserveRemovalMarkers
RECURSIVE WithRemovalMarkers(_, _)
WithRemovalMarkers(previous, replacement) ==
    IF ~previous.dir \/ ~replacement.dir THEN replacement
    ELSE FoldLeft(LAMBDA r, k :
                      LET at == FindChild(r, k.name)
                      IN IF at = 0 THEN AddChild(r, CloneAsRemoved(k))
                                   ELSE [r EXCEPT !.kids[at] = WithRemovalMarkers(k, @)],
                  replacement, previous.kids)

\* One or both of c (below) and l (in the layer) are files.  The children of
\* a directory that becomes a file are listed beside it, as removed.
Replaced(c, l, layer) ==
    LET added == CloneAsAdded(l, layer)
        mod   == [c EXCEPT !.link = l.link, !.size = l.size, !.dir = l.dir, !.hard = l.hard,
                           !.diff = "Modified", !.mode = l.mode, !.inferred = FALSE,
                           !.kids = IF l.dir THEN added.kids ELSE <<>>]
    IN Append(IF l.dir THEN <<>> ELSE [i \in DOMAIN c.kids |-> CloneAsRemoved(c.kids[i])], mod)

\* The layer describes the directory itself, and differently.
MetadataChanged(c, l) == ~l.inferred /\ c.mode # l.mode

\* Mutant: a directory deleted and written again in one layer is merged.
RewrittenMerged(c, l, layerRoot) == c.diff = "Removed"

\* The child is new in this layer although something of that name was below.
Rewritten(c, l, layerRoot) ==
    c.diff = "Removed" \/ (Whited(layerRoot, c.name) /\ c.dir /\ l.dir)

\* Mutant: what the layer brings back is listed as removed as well.
OpaqueChildrenTwice(c, l, layer) ==
    LET fresh == SelectSeq(l.kids, LAMBDA k : ~IsMarker(k.name))
        added(k) == LET a == CloneAsAdded(k, layer)
                    IN IF HasChild(c, k.name) THEN WithRemovalMarkers(Child(c, k.name), a) ELSE a
    IN [i \in DOMAIN c.kids |-> CloneAsRemoved(c.kids[i])] \o [i \in DOMAIN fresh |-> added(fresh[i])]

\* Opaque: the new children, and as removed what is not among them.
OpaqueChildren(c, l, layer) ==
    LET fresh == SelectSeq(l.kids, LAMBDA k : ~IsMarker(k.name))
        gone  == SelectSeq(c.kids, LAMBDA k : \A i \in DOMAIN fresh : fresh[i].name # k.name)
        added(k) == LET a == CloneAsAdded(k, layer)
                    IN IF HasChild(c, k.name) THEN WithRemovalMarkers(Child(c, k.name), a) ELSE a
    IN [i \in DOMAIN gone |-> CloneAsRemoved(gone[i])] \o [i \in DOMAIN fresh |-> added(fresh[i])]

\* mergeLayerWith: layer tree l over the cumulative tree c.  `strip` tells
\* whether untouched children lose their labels (mergeLayer) or not
\* (aggregateMerge).
RECURSIVE Merge(_, _, _, _)
Merge(c, l, layer, strip) ==
    LET touched(k) ==
            LET lk == Child(l, k.name)
            IN CASE Rewritten(k, lk, l) -> <<WithRemovalMarkers(k, CloneAsAdded(lk, layer))>>
                 [] ~Rewritten(k, lk, l) /\ k.dir /\ lk.dir -> <<Merge(k, lk, layer, strip)>>
                 [] OTHER -> Replaced(k, lk, layer)
        kept(k) ==
            CASE HasChild(l, k.name) -> touched(k)
              [] ~HasChild(l, k.name) /\ Whited(l, k.name) -> <<CloneAsRemoved(k)>>
              [] OTHER -> <<IF strip THEN CloneAsUnchanged(k) ELSE k>>
        new == SelectSeq(l.kids, LAMBDA k : ~IsMarker(k.name) /\ ~HasChild(c, k.name))
        kids == IF Opaque(l) THEN OpaqueChildren(c, l, layer)
                ELSE FlattenSeq([i \in DOMAIN c.kids |-> kept(c.kids[i])])
                     \o [i \in DOMAIN new |-> CloneAsAdded(new[i], layer)]
        changed == MetadataChanged(c, l)
        modified == changed \/ \E i \in DOMAIN kids : kids[i].diff # "Unchanged"
    IN [c EXCEPT !.mode = IF changed THEN l.mode ELSE @,
                 !.intro = IF changed THEN layer ELSE @,
                 !.inferred = FALSE,
                 !.diff = IF modified THEN "Modified" ELSE "Unchanged",
                 !.kids = kids]

=============================================================================
