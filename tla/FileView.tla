------------------------------ MODULE FileView ------------------------------
(***************************************************************************)
(* A file of an analysed image, as the terminal UI asks for it: by the     *)
(* reference, the path and the selected layer (image/extractor.go,         *)
(* image/archive.go).  Nothing of the analysis is kept for it: the image   *)
(* is exported or the archive opened again, and the tars of its layers are *)
(* searched from the selected layer down.  Meanwhile the engine may go     *)
(* away and come back, the user may close the viewer, and the reference    *)
(* may be removed or name something else.                                  *)
(*                                                                         *)
(* What a layer's tar tells of a path is given (findFileInLayer is part of *)
(* LayerTars); size limits of single files are left out.                   *)
(***************************************************************************)
EXTENDS ImageSource

CONSTANTS
    Tells,      \* tree -> path -> "found", "removed" or "not regular"
    Paths

ASSUME TellsAssumption ==
    /\ EmptyTree \notin DOMAIN Tells
    /\ \A tree \in DOMAIN Tells : \A p \in DOMAIN Tells[tree] :
          p \in Paths /\ Tells[tree][p] \in {"found", "removed", "not regular"}

VARIABLE view    \* the request: its step, path, layer, what it reads and how it ends

viewVars == <<vars, view>>

NoView ==
    [step |-> "none", path |-> "", layer |-> 0, archive |-> <<>>, end |-> "", tree |-> NoTree,
     told |-> TRUE, moved |-> FALSE]

Ends(end, tree) == view' = [view EXCEPT !.step = "done", !.end = end, !.tree = tree]

-----------------------------------------------------------------------------
\* Any file of any layer that the analysis lists.
Request ==
    /\ Served /\ view.step = "none"
    /\ \E p \in Paths, i \in DOMAIN layers :
          view' = [view EXCEPT !.step = "export", !.path = p, !.layer = i]
    /\ UNCHANGED vars

\* loadLayerSource of an archive: the file is opened again.
OpenAgain ==
    /\ view.step = "export" /\ run.ref = "path"
    /\ IF run.file.open # "ok" THEN Ends("gone", NoTree)
       ELSE view' = [view EXCEPT !.step = "walk", !.archive = <<run.file>>]
    /\ UNCHANGED vars

\* loadLayerSource of an engine: the options of the analysis are worked out
\* again, and the image is exported under them.
ExportAgain ==
    /\ view.step = "export" /\ run.ref # "path"
    /\ \E opts \in imageSaveOpts : \E reply \in ImageSave(opts.platform) :
          IF reply.kind = "archive"
          THEN view' = [view EXCEPT !.step = "spool", !.archive = <<reply.of>>, !.told = opts.told]
          ELSE Ends(reply.kind, NoTree)
    /\ UNCHANGED vars

SpoolAgain ==
    /\ view.step = "spool"
    /\ \E reply \in Replies({[kind |-> "whole"]}) :
          IF reply.kind = "whole" THEN view' = [view EXCEPT !.step = "walk"]
          ELSE Ends(reply.kind, NoTree)
    /\ UNCHANGED vars

\* Mutant: the selected layer itself is not among the layers that are kept.
KeepsBelow(manifest, cursor) ==
    {manifest.layers[k] : k \in 1..Min({cursor - 1, Len(manifest.layers)})}

\* The blobs that may be loaded: of the layers up to the selected one.
keepNames(manifest, cursor) ==
    {manifest.layers[k] : k \in 1..Min({cursor, Len(manifest.layers)})}

\* The tar of a tree has something of the path.
Speaks(tree, path) == tree \in DOMAIN Tells /\ path \in DOMAIN Tells[tree]

\* What the search is told of a path by one layer; a blob that is not kept or
\* not there is passed over, one that cannot be read is an error.
LayerTells(from, manifest, cursor, k, path) ==
    LET name == manifest.layers[k]
        blob == FirstOf(from, name)
    IN  IF name \notin keepNames(manifest, cursor) \/ ~Has(from, name) THEN "absent"
        ELSE IF BadLayer(blob) THEN "unreadable"
        ELSE IF blob.size = 0 THEN "absent"
        ELSE IF Speaks(blob.body.tree, path) THEN Tells[blob.body.tree][path]
        ELSE "absent"

\* walkBackForFile: the first layer from the selected one down that tells
\* anything of the path ends the search.
Walk ==
    LET from == view.archive[1]
        metadata == readImageArchiveMetadata(from)
        cursor == view.layer
        Tell(k) == LayerTells(from, metadata.manifest, cursor, k, view.path)
        hits == {k \in 1..cursor : Tell(k) # "absent"}
        hit == Max(hits)
    IN  /\ view.step = "walk"
        /\ IF metadata.error THEN Ends("invalid", NoTree)
           ELSE IF cursor > Len(metadata.manifest.layers) THEN Ends("out of range", NoTree)
           ELSE IF hits = {} THEN Ends("not found", NoTree)
           ELSE IF Tell(hit) # "found" THEN Ends(Tell(hit), NoTree)
           ELSE Ends("found", FirstOf(from, metadata.manifest.layers[hit]).body.tree)
        /\ UNCHANGED vars

-----------------------------------------------------------------------------
\* Esc, another file or quitting cancels the request's context, and with it
\* the call to the engine that is being made; reading the tars goes on.
Close ==
    /\ view.step \in {"export", "spool"} /\ run.ref # "path"
    /\ Ends("canceled", NoTree)
    /\ UNCHANGED vars

\* An archive is replaced, or moved away.
MoveFile ==
    /\ ~view.moved /\ run.ref = "path"
    /\ view' = [view EXCEPT !.moved = TRUE]
    /\ \E file \in {v.archive : v \in UNION Elsewhere} \cup {[run.file EXCEPT !.open = "missing"]} :
          run' = [run EXCEPT !.file = file]
    /\ UNCHANGED <<pc, endpoint, native, scope, local, archive, layers, error, up, canceled, seen, turns>>

Meanwhile ==
    /\ view.step \notin {"none", "done"}
    /\ \/ Close \/ MoveFile
       \/ run.ref # "path" /\ UNCHANGED view /\ (Turn \/ RemoveImage \/ MoveTag)

View == Request \/ OpenAgain \/ ExportAgain \/ SpoolAgain \/ Walk \/ Meanwhile

ViewInit == Init /\ view = NoView

ViewNext == (Next /\ UNCHANGED view) \/ View

ViewSpec == ViewInit /\ [][ViewNext]_viewVars

-----------------------------------------------------------------------------
\* What the listed layers say of a path at a layer, and which of them says it.
Speaking(p, i) == {k \in 1..i : Speaks(layers[k].tree, p)}

\* The platform an export is limited to, when the engine tells its own.
Wanted == IF Pinned THEN pin ELSE IF run.ref = "digest" THEN <<>> ELSE <<NativePlatform>>

\* Nothing has made the second export one of another image: the reference is
\* where it was, the platform an export is limited to was the same twice, and
\* there is one variant of it.
SameImage ==
    /\ ~view.moved /\ "moved" \notin seen
    /\ run.ref = "tag" /\ ~Pinned => "noInfo" \notin seen /\ view.told
    /\ run.ref = "tag" /\ ~Pinned => run.api >= 48 \/ ~run.several
    /\ run.several /\ run.ref # "path" =>
           \A v, w \in Matching(run.local \cup run.registered, Wanted) : v = w

\* Every name a layer goes by is that of one blob.
OneBlobEach ==
    \A i \in DOMAIN layers : Cardinality(At(archive[1], layers[i].path)) = 1

\* The viewer shows the copy of the file in the topmost listed layer, from the
\* selected one down, that has the path, and none when that layer removes it
\* or has no regular file there; it has no other reason to show none than an
\* engine that does not answer, an image that is gone or a viewer that was
\* closed.  Analysis and view are two exports worked out on their own.
ViewsListed ==
    view.step = "done" /\ SameImage /\ OneBlobEach =>
        LET speaking == Speaking(view.path, view.layer)
            top == Max(speaking)
            says == IF speaking = {} THEN "not found" ELSE Tells[layers[top].tree][view.path]
        IN  \/ /\ view.end = says
               /\ says = "found" => view.tree = layers[top].tree
            \/ view.end \in {"canceled", "unreachable", "odd"} /\ run.ref # "path"
=============================================================================
