---------------------------- MODULE ArchiveInput ----------------------------
(***************************************************************************)
(* From an image archive to its list of layers: the scan for metadata, the *)
(* choice of the first image of a docker or an OCI archive, and the pass   *)
(* that gives every layer its tree (image/docker.go, image/archive.go).    *)
(*                                                                         *)
(* An archive is a sequence of entries [name, size, body] and may be torn. *)
(* A body is a record of its kind: "manifests" (list), "index" (digests),  *)
(* "oci" (config, layers), "config" (platform, history), "layer" (tree,    *)
(* bytes when unpacked), "empty" or "broken".  "huge" is metadata over its *)
(* limit.  A digest is the path of its blob, "" when it is not a digest.   *)
(***************************************************************************)
EXTENDS Naturals, FiniteSets, Sequences, SequencesExt, FiniteSetsExt

CONSTANTS
    RootNames,          \* names of JSON files at the root of an archive
    MaxArchiveEntries,  \* entries an archive may have
    MaxLayerBlobSize    \* bytes a layer may unpack to

\* A platform has an os, an architecture and a variant, "" when not said; no
\* preference is <<>>.
ParsePlatform(parts) ==
    IF Len(parts) = 1 THEN [os |-> "linux", arch |-> parts[1], variant |-> ""]
    ELSE [os |-> parts[1], arch |-> parts[2], variant |-> IF Len(parts) = 3 THEN parts[3] ELSE ""]

PlatformError(parts) == Len(parts) > 3 \/ \E i \in DOMAIN parts : parts[i] = ""

Pin(parts) == IF parts = <<>> THEN <<>> ELSE <<ParsePlatform(parts)>>

\* What is not said agrees with everything.
PlatformsEqual(want, got) ==
    want = <<>> \/ got = <<>> \/
        \A part \in {"os", "arch", "variant"} :
            want[1][part] = "" \/ got[1][part] = "" \/ want[1][part] = got[1][part]

\* What is decoded of an archive: lists, whatever is in them.
IsBody(body) ==
    /\ body.kind = "manifests" => body.list \in Seq([config: STRING, layers: Seq(STRING)])
    /\ body.kind = "oci" => body.layers \in Seq(STRING)
    /\ body.kind = "config" => body.history \in Seq([by: STRING, empty: BOOLEAN])

IsArchive(archive) ==
    /\ archive.entries \in Seq(ToSet(archive.entries))
    /\ \A entry \in ToSet(archive.entries) : IsBody(entry.body)

-----------------------------------------------------------------------------
(* Metadata.  rootJSON and the sizes keep the last entry of a name, a scan *)
(* for one blob stops at the first.                                        *)

At(archive, name) == {i \in DOMAIN archive.entries : archive.entries[i].name = name}
Has(archive, name) == At(archive, name) # {}
FirstOf(archive, name) == archive.entries[Min(At(archive, name))]
LastOf(archive, name) == archive.entries[Max(At(archive, name))]

scanError(archive) ==
    \/ archive.torn \/ Len(archive.entries) > MaxArchiveEntries
    \/ \E i \in DOMAIN archive.entries :
          /\ archive.entries[i].name \in RootNames \cup {"manifest.json", "index.json"}
          /\ archive.entries[i].body.kind = "huge"

NoManifest == [config |-> "", layers |-> <<>>]
Metadata(error, manifest, count) == [error |-> error, manifest |-> manifest, count |-> count]
Invalid == Metadata(TRUE, NoManifest, 0)

ociIndexToDockerManifest(archive) ==
    LET index == LastOf(archive, "index.json").body
        blob == FirstOf(archive, index.digests[1]).body
    IN  IF ~Has(archive, "index.json") THEN Invalid
        ELSE IF index.kind # "index" \/ index.digests = <<>> THEN Invalid
        ELSE IF index.digests[1] = "" \/ ~Has(archive, index.digests[1]) THEN Invalid
        ELSE IF blob.kind # "oci" \/ blob.config = "" \/ "" \in ToSet(blob.layers) THEN Invalid
        ELSE Metadata(FALSE, [config |-> blob.config, layers |-> blob.layers], Len(index.digests))

\* The first image: of manifest.json when there is one, else of index.json.
readImageArchiveMetadata(archive) ==
    LET manifest == LastOf(archive, "manifest.json").body
    IN  IF scanError(archive) THEN Invalid
        ELSE IF ~Has(archive, "manifest.json") THEN ociIndexToDockerManifest(archive)
        ELSE IF manifest.kind # "manifests" \/ manifest.list = <<>> THEN Invalid
        ELSE Metadata(FALSE, manifest.list[1], Len(manifest.list))

ConfigBody(archive, name) ==
    IF ~Has(archive, name) THEN [kind |-> "broken"]
    ELSE IF name \in RootNames THEN LastOf(archive, name).body
    ELSE FirstOf(archive, name).body

-----------------------------------------------------------------------------
(* Layers.                                                                 *)

NoTree == "none"
EmptyTree == "empty"

\* Mutant: entries that made no layer label one too.
AllCommands(config) == [i \in DOMAIN config.history |-> config.history[i].by]

\* The commands of the history that made a layer, in its order.
Commands(config) ==
    FoldLeft(LAMBDA commands, entry : IF entry.empty THEN commands ELSE Append(commands, entry.by),
             <<>>, config.history)

listLayers(archive, manifest, config) ==
    [i \in DOMAIN manifest.layers |->
        [path |-> manifest.layers[i], platform |-> config.platform,
         size |-> IF Has(archive, manifest.layers[i]) THEN LastOf(archive, manifest.layers[i]).size ELSE 0,
         command |-> IF i \in DOMAIN Commands(config) THEN Commands(config)[i] ELSE "",
         tree |-> NoTree, bytes |-> 0]]

\* keep: every layer that is this blob.
keep(manifest, name) == {i \in DOMAIN manifest.layers : manifest.layers[i] = name}

\* One entry of the second pass: an empty blob is an empty layer, and one that
\* is no layer is passed over.
TakeEntry(layers, entry, indices) ==
    [i \in DOMAIN layers |->
        IF i \notin indices THEN layers[i]
        ELSE IF entry.size = 0 THEN [layers[i] EXCEPT !.tree = EmptyTree]
        ELSE [layers[i] EXCEPT !.tree = entry.body.tree, !.bytes = entry.body.bytes]]

\* An entry that is a layer and cannot be read, or is too large, is an error.
BadLayer(entry) ==
    /\ entry.size # 0
    /\ entry.body.kind # "layer" \/ entry.body.bytes > MaxLayerBlobSize

\* The layers, or an error for a config or a layer that is missing or broken.
parseLayersFromManifest(archive, manifest) ==
    LET config == ConfigBody(archive, manifest.config)
        layers == FoldLeft(LAMBDA acc, e : TakeEntry(acc, e, keep(manifest, e.name)),
                           listLayers(archive, manifest, config), archive.entries)
        bad == \E i \in DOMAIN archive.entries :
                  keep(manifest, archive.entries[i].name) # {} /\ BadLayer(archive.entries[i])
    IN  IF config.kind # "config" \/ bad
        THEN [error |-> TRUE, layers |-> <<>>]
        ELSE IF \E i \in DOMAIN layers : layers[i].tree = NoTree
        THEN [error |-> TRUE, layers |-> <<>>]
        ELSE [error |-> FALSE, layers |-> layers]
=============================================================================
