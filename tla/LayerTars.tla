----------------------------- MODULE LayerTars ------------------------------
(***************************************************************************)
(* The tars of an image's layers, read entry by entry, what an overlay     *)
(* mount of them would show (`fs`, see Overlay), and the walk back through *)
(* them by which the viewer finds a file (ExtractFromLayer).               *)
(***************************************************************************)
EXTENDS Overlay, FiniteSetsExt

CONSTANTS
    Shapes,      \* the tar entries there may be: [path, type, mode, link]
    Modes,
    MaxLayers, MaxPerLayer, MaxEntries   \* bounds

ASSUME ShapesAssumption ==
    Shapes \subseteq [path: Seq(Names \cup {Opq} \cup {Wh(n) : n \in Names}),
                      type: {"reg", "dir", "link"}, mode: Modes, link: Seq(Names)]
ASSUME BoundsAssumption == MaxLayers \in Nat /\ MaxPerLayer \in Nat /\ MaxEntries \in Nat

VARIABLES
    tars,            \* the entries of the complete layers
    tar,             \* the entries of the layer being read
    uppers, upper,   \* the layers, complete and being read, as Overlay sees them
    fs               \* the file system after each complete layer

tarVars == <<tars, tar, uppers, upper, fs>>

TarsInit == tars = <<>> /\ tar = <<>> /\ uppers = <<>> /\ upper = Empty /\ fs = <<>>

Below0 == IF fs = <<>> THEN Empty ELSE Last(fs)
Mount  == Over(Below0, upper)
This   == Len(tars) + 1

-----------------------------------------------------------------------------
(* What an image may hold *)

\* Every layer stores files of a size of its own, so that a sum of sizes
\* tells which copies are in it.
SizeIn(layer) == 10 ^ (layer - 1)

Attr(s) ==
    [kind |-> s.type, mode |-> s.mode, inferred |-> FALSE,
     inode |-> CASE s.type = "reg" -> <<s.path, This>>
                 [] s.type = "link" -> Mount[s.link].inode
                 [] OTHER -> NoInode]

Linkable(s) ==
    s.type = "link" => s.link # s.path /\ s.link \in DOMAIN Mount /\ Mount[s.link].kind # "dir"

\* A layer is the record of a finished directory: its hard links name files
\* that are still there, and no link names another link of the layer.
Finished ==
    \A i \in DOMAIN tar :
        LET e == tar[i]
        IN e.type = "link" /\ e.path \in DOMAIN upper /\ upper[e.path].kind = "link" =>
              /\ e.link \in DOMAIN Mount /\ Mount[e.link].kind # "dir"
              /\ Mount[e.link].inode = upper[e.path].inode
              /\ e.link \in DOMAIN upper => upper[e.link].kind = "reg"

-----------------------------------------------------------------------------
(* Reading *)

Entries == FoldLeft(LAMBDA n, t : n + Len(t), Len(tar), tars)

\* One entry of a layer's tar.
NextEntry(s) ==
    /\ Len(tars) < MaxLayers /\ Len(tar) < MaxPerLayer /\ Entries < MaxEntries
    /\ Linkable(s)
    /\ LET size == IF s.type = "reg" /\ ~IsMarker(Last(s.path)) THEN SizeIn(This) ELSE 0
       IN tar' = Append(tar, [path |-> s.path, type |-> s.type, mode |-> s.mode,
                              link |-> s.link, size |-> size])
    /\ upper' = Put(upper, s.path, Attr(s))
    /\ UNCHANGED <<tars, uppers, fs>>

EndOfTar ==
    /\ Len(tars) < MaxLayers
    /\ Finished
    /\ tars' = Append(tars, tar) /\ tar' = <<>>
    /\ uppers' = Append(uppers, upper) /\ upper' = Empty
    /\ fs' = Append(fs, Mount)

TarsNext == EndOfTar \/ \E s \in Shapes : NextEntry(s)

TarsSpec == TarsInit /\ [][TarsNext]_tarVars

-----------------------------------------------------------------------------
(* ExtractFromLayer *)

Mark(e) == IsMarker(Last(e.path))

\* The marker e removes p, or a directory p is in.
Removes(e, p) ==
    /\ Mark(e)
    /\ IF Last(e.path) = Opq THEN IsStrictPrefix(Front(e.path), p)
                             ELSE IsPrefix(Append(Front(e.path), Last(e.path)[2]), p)

\* Mutant: a whiteout wins over a file written in the same layer.
FindFileWhiteoutFirst(entries, p) ==
    LET there == {i \in DOMAIN entries : entries[i].path = p}
    IN IF \E i \in DOMAIN entries : Removes(entries[i], p) THEN "removed"
       ELSE IF \E i \in there : entries[i].type = "reg" THEN "found"
       ELSE IF there # {} THEN "not regular" ELSE "absent"

\* findFileInLayer: the whole tar is read, then a regular file of that path
\* counts before anything else of that path, and that before a whiteout.
FindFileInLayer(entries, p) ==
    LET there == {i \in DOMAIN entries : entries[i].path = p}
    IN IF \E i \in there : entries[i].type = "reg" THEN "found"
       ELSE IF there # {} THEN "not regular"
       ELSE IF \E i \in DOMAIN entries : Removes(entries[i], p) THEN "removed" ELSE "absent"

\* walkBackForFile: how the search from layer i down ends, and where.
WalkBack(p, i) ==
    LET hits == {j \in 1..i : FindFileInLayer(tars[j], p) # "absent"}
    IN IF hits = {} THEN [end |-> "not found", layer |-> 0]
       ELSE [end |-> FindFileInLayer(tars[Max(hits)], p), layer |-> Max(hits)]

-----------------------------------------------------------------------------
(* Properties, of every layer so far *)

\* The properties change only when a layer is finished.
Fresh == tar = <<>> /\ tars # <<>>
Top == Len(tars)

\* No entry of the tars was wiped out by a later one of the same tar.
NoneWiped == \A i \in DOMAIN tars : \A k \in DOMAIN tars[i] : tars[i][k].path \in DOMAIN uppers[i]

\* A regular file of the stacked tree can be viewed at that layer, and what
\* is viewed is the copy that is current there (unless a tar writes over a
\* directory it has itself filled).
ExtractsLive ==
    Fresh /\ NoneWiped =>
      \A p \in DOMAIN fs[Top] : fs[Top][p].kind = "reg" =>
         WalkBack(p, Top) = [end |-> "found", layer |-> fs[Top][p].inode[2]]

\* "ExtractFromLayer returns the file as it exists at the given layer"
\* (Extractor): it finds nothing that does not exist there.
ExtractsOnlyLive ==
    Fresh =>
      \A p \in UNION {DOMAIN fs[i] : i \in 1..Top} :
         WalkBack(p, Top).end = "found" => p \in DOMAIN fs[Top]
=============================================================================
