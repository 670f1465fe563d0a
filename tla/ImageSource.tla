----------------------------- MODULE ImageSource -----------------------------
(***************************************************************************)
(* Where the layers of a reference come from: a file that is an archive,   *)
(* or the engine that was named or found, after a pull when it does not    *)
(* have the image for the platform.  Every call to the engine is a step;   *)
(* between two of them the user may cancel, the engine may go away and     *)
(* come back, and somebody may remove the image or give its name to        *)
(* another one.                                                            *)
(*                                                                         *)
(* A variant of an image is a platform and the archive it is exported as.  *)
(* The engine is external: it answers a call truthfully, or not at all, or *)
(* with an error of its own.                                               *)
(***************************************************************************)
EXTENDS ArchiveInput, EngineEndpoint, RegistryLogin

CONSTANTS
    Scenarios,   \* command line, files, engine and registry of a run
    Elsewhere,   \* what a name may be moved to: sets of variants
    MaxTurns     \* times the engine goes away or comes back

\* An OS or an architecture is not said.
Vague(platform) == platform.os = "" \/ platform.arch = ""

\* What is read of an archive, and whether it can be.
ConfigOf(archive) == ConfigBody(archive, readImageArchiveMetadata(archive).manifest.config)
Parses(archive) ==
    LET metadata == readImageArchiveMetadata(archive)
    IN  ~metadata.error /\ ~parseLayersFromManifest(archive, metadata.manifest).error

\* The engine and the registry tell the platform that is in the archive.
IsVariant(v) ==
    /\ IsArchive(v.archive)
    /\ Parses(v.archive) => ConfigOf(v.archive).platform = v.platform

\* Unless an engine has room for several variants it has one; a context that
\* is listed has a file.
IsScenario(s) ==
    /\ DOMAIN s = {"ref", "platform", "engine", "setup", "file", "info", "api", "several", "local",
                   "registered", "registry", "private", "logins", "sound"}
    /\ s.ref \in {"path", "tag", "digest"} /\ s.api \in Nat
    /\ IsArchive(s.file)
    /\ \A v \in s.local \cup s.registered :
          IsVariant(v) /\ (s.sound => Parses(v.archive))
    /\ ~s.several => \A v \in s.local : s.local = {v}
    /\ DOMAIN s.setup.podmanFiles \subseteq {1, 2}
    /\ \A c \in DOMAIN s.setup.contexts :
          s.setup.contexts[c].state \in {"ok", "unreadable", "malformed"}

ASSUME SourceAssumption == \A s \in Scenarios : IsScenario(s)

ASSUME ElsewhereAssumption == \A v \in UNION Elsewhere : IsVariant(v)

VARIABLES
    run,         \* the scenario
    pc,          \* the next call
    endpoint,    \* the engine that was chosen
    native,      \* the engine's own platform, when it told it before the pull
    scope,       \* the platform the export is limited to
    local,       \* variants the engine has of the reference
    archive,     \* what is exported or was opened
    layers,      \* the result
    error,       \* or the error
    up,          \* the engine answers
    canceled,    \* the user canceled
    seen,        \* what went wrong so far
    turns

vars == <<run, pc, endpoint, native, scope, local, archive, layers, error, up, canceled, seen, turns>>
engine == <<local, up, canceled, turns>>

Pinned == run.platform # <<>>
pin == Pin(run.platform)
Error(type, cause) == [type |-> type, cause |-> cause]
NoError == Error("none", "none")
Matching(variants, platform) == {v \in variants : PlatformsEqual(platform, <<v.platform>>)}

\* The variants the registry gives out: to anyone, or to a login.
Registered ==
    IF run.private \in {"", resolveRegistryAuth(run.logins, run.registry)} THEN run.registered ELSE {}

Goto(step) == pc' = step /\ UNCHANGED error
Fail(type, cause) == pc' = "done" /\ error' = Error(type, cause)

-----------------------------------------------------------------------------
(* What a call to the engine answers.                                      *)

Canceled == [kind |-> "canceled"]
Unreachable == [kind |-> "unreachable"]
Odd == [kind |-> "odd"]
NotFound == [kind |-> "notFound"]
Found(v) == [kind |-> "found", platform |-> v.platform]

Replies(answers) ==
    IF canceled THEN {Canceled} ELSE IF ~up THEN {Unreachable} ELSE answers \cup {Odd}

\* Info, its architecture put into the names of images.
normalizeArch(arch) ==
    IF arch = "x86_64" THEN [arch |-> "amd64", variant |-> ""]
    ELSE IF arch = "aarch64" THEN [arch |-> "arm64", variant |-> ""]
    ELSE IF arch = "armv7l" THEN [arch |-> "arm", variant |-> "v7"]
    ELSE IF arch = "armv6l" THEN [arch |-> "arm", variant |-> "v6"]
    ELSE [arch |-> arch, variant |-> ""]

NativePlatform ==
    [os |-> run.info.os, arch |-> normalizeArch(run.info.arch).arch,
     variant |-> normalizeArch(run.info.arch).variant]

\* ImageInspect; an engine before API 1.49 does not take a platform, and one
\* that is not told any prefers its own.
Inspect(platform) ==
    LET own == Matching(local, <<NativePlatform>>)
        fit == IF platform = <<>> /\ own # {} THEN own ELSE Matching(local, platform)
    IN  Replies(IF platform # <<>> /\ run.api < 49 THEN {Odd}
                ELSE IF fit = {} THEN {NotFound} ELSE {Found(v) : v \in fit})

\* Any error, or an answer without an OS or an architecture, is no platform.
daemonPlatform ==
    IF canceled \/ ~up \/ Vague(run.info) THEN {<<>>}
    ELSE {<<>>, <<NativePlatform>>}

Notice(reply) == seen' = seen \cup ({reply.kind} \cap {"odd", "unreachable"})

-----------------------------------------------------------------------------
\* selectResolver: the platform, a regular file, the engine.
Select ==
    LET chosen == selectDockerLikeResolver(run.engine, run.setup)
    IN  /\ pc = "select"
        /\ IF run.platform # <<>> /\ PlatformError(run.platform) THEN
               Fail("ErrPlatformInvalid", "none") /\ UNCHANGED endpoint
           ELSE IF run.ref = "path" THEN Goto("open") /\ UNCHANGED endpoint
           ELSE /\ endpoint' = chosen
                /\ IF IsError(chosen) THEN Fail(chosen.error, "none")
                   ELSE IF run.ref = "digest" \/ Pinned THEN Goto("inspect") ELSE Goto("info")
        /\ UNCHANGED <<run, native, scope, archive, layers, seen>> /\ UNCHANGED engine

\* ArchiveResolver: open, read the metadata, compare the platform.
openError(file) ==
    IF file.open = "missing" THEN "ErrArchiveNotFound"
    ELSE IF file.open = "denied" THEN "ErrArchivePermission" ELSE "ErrArchiveInfra"

Open ==
    LET metadata == readImageArchiveMetadata(run.file)
        config == ConfigBody(run.file, metadata.manifest.config)
    IN  /\ pc = "open"
        /\ IF run.file.open # "ok" THEN Fail(openError(run.file), "none") /\ UNCHANGED archive
           ELSE IF metadata.error \/ (Pinned /\ config.kind # "config")
           THEN Fail("ErrInvalidArchive", "none") /\ UNCHANGED archive
           ELSE IF Pinned /\ ~PlatformsEqual(pin, <<config.platform>>)
           THEN Fail("ErrPlatformNotInImage", "none") /\ UNCHANGED archive
           ELSE archive' = <<run.file>> /\ Goto("parse")
        /\ UNCHANGED <<run, endpoint, native, scope, layers, seen>> /\ UNCHANGED engine

-----------------------------------------------------------------------------
(* ensureImageWithProgress                                                 *)

\* An image ID is local or not found.
InspectID ==
    /\ pc = "inspect" /\ run.ref = "digest"
    /\ \E reply \in Inspect(pin) :
          /\ Notice(reply)
          /\ IF reply.kind = "found" THEN Goto("scope")
             ELSE IF reply.kind = "canceled" THEN Fail("other", "canceled")
             ELSE IF reply.kind = "notFound" THEN Fail("ErrImageNotFound", "none")
             ELSE IF reply.kind = "unreachable" THEN Fail("ErrDaemonNotRunning", "none")
             ELSE Fail("other", "none")
    /\ UNCHANGED <<run, endpoint, native, scope, archive, layers>> /\ UNCHANGED engine

\* A variant that is there and says its platform is used; else it is pulled.
InspectPinned ==
    /\ pc = "inspect" /\ run.ref = "tag" /\ Pinned
    /\ \E reply \in Inspect(pin) :
          /\ Notice(reply)
          /\ IF reply.kind = "found" /\ ~Vague(reply.platform)
                /\ PlatformsEqual(pin, <<reply.platform>>)
             THEN Goto("scope")
             ELSE IF reply.kind = "canceled" THEN Fail("other", "canceled")
             ELSE IF reply.kind = "unreachable" THEN Fail("ErrDaemonNotRunning", "none")
             ELSE Goto("pull")
    /\ UNCHANGED <<run, endpoint, native, scope, archive, layers>> /\ UNCHANGED engine

Info ==
    /\ pc = "info"
    /\ native' \in daemonPlatform
    /\ seen' = seen \cup (IF native' = <<>> THEN {"noInfo"} ELSE {})
    /\ Goto("list")
    /\ UNCHANGED <<run, endpoint, scope, archive, layers>> /\ UNCHANGED engine

\* A name that is there is used as it is when the engine's platform is not
\* known; every error of the list is taken for an engine that is away.
List ==
    /\ pc = "list"
    /\ \E reply \in Replies({IF local = {} THEN NotFound ELSE [kind |-> "found"]}) :
          /\ Notice(reply)
          /\ IF reply.kind = "found" THEN Goto(IF native = <<>> THEN "scope" ELSE "inspectLocal")
             ELSE IF reply.kind = "notFound" THEN Goto("pull")
             ELSE IF reply.kind = "canceled" THEN Fail("other", "canceled")
             ELSE Fail("ErrDaemonNotRunning", "none")
    /\ UNCHANGED <<run, endpoint, native, scope, archive, layers>> /\ UNCHANGED engine

\* Mutant: a name that is there is used whatever its platform.
AnyVariantServes ==
    /\ pc = "inspectLocal"
    /\ Goto("scope")
    /\ UNCHANGED <<run, endpoint, native, scope, archive, layers, seen>> /\ UNCHANGED engine

\* What the name is must be for the engine's platform.
InspectLocal ==
    /\ pc = "inspectLocal"
    /\ \E reply \in Inspect(<<>>) :
          /\ Notice(reply)
          /\ IF reply.kind = "found" /\ PlatformsEqual(native, <<reply.platform>>) THEN Goto("scope")
             ELSE IF reply.kind \in {"found", "notFound"} THEN Goto("pull")
             ELSE IF reply.kind = "canceled" THEN Fail("other", "canceled")
             ELSE IF reply.kind = "unreachable" THEN Fail("ErrDaemonNotRunning", "none")
             ELSE Fail("other", "none")
    /\ UNCHANGED <<run, endpoint, native, scope, archive, layers>> /\ UNCHANGED engine

-----------------------------------------------------------------------------
(* The pull: refused at once or in its stream, which ends in band.         *)

\* "no matching manifest for X in the manifest list entries" reads as both.
Says(text) ==
    IF text = "noMatchingManifest" THEN {"platform", "notFound"}
    ELSE IF text = "manifestUnknown" THEN {"notFound"} ELSE {}

isPlatformPullFailure(text) == "platform" \in Says(text)
isImageNotFoundMessage(text) == "notFound" \in Says(text)

\* Without a platform asked for, it cannot be the platform.
classifyPlatformMissing ==
    IF Pinned THEN Fail("ErrPlatformNotInImage", "none") ELSE Fail("ErrPullFailed", "none")

classifyPullNotFound == IF Pinned THEN Goto("probe") ELSE Fail("ErrImageNotFound", "none")

\* Mutant: the text is looked at for a missing image first.
NotFoundFirst(text) ==
    IF text = "canceled" THEN Fail("other", "canceled")
    ELSE IF isImageNotFoundMessage(text) THEN classifyPullNotFound
    ELSE IF isPlatformPullFailure(text) THEN classifyPlatformMissing
    ELSE Fail("ErrPullFailed", "none")

PullFailed(text) ==
    IF text = "canceled" THEN Fail("other", "canceled")
    ELSE IF isPlatformPullFailure(text) THEN classifyPlatformMissing
    ELSE IF isImageNotFoundMessage(text) THEN classifyPullNotFound
    ELSE Fail("ErrPullFailed", "none")

Asked == IF Pinned THEN pin ELSE native

Refusals ==
    IF Registered = {} THEN {[kind |-> "manifestUnknown"]}
    ELSE IF Matching(Registered, Asked) = {} THEN {[kind |-> "noMatchingManifest"]} ELSE {}

\* The stream is opened whether or not there is something to pull.
Pull ==
    /\ pc = "pull"
    /\ \E reply \in Replies({[kind |-> "stream"]} \cup Refusals) :
          /\ Notice(reply)
          /\ IF reply.kind = "stream" THEN Goto("stream") ELSE PullFailed(reply.kind)
    /\ UNCHANGED <<run, endpoint, native, scope, archive, layers>> /\ UNCHANGED engine

\* streamPullProgress; what is pulled replaces the variant of its platform,
\* and with an engine that has room for one, whatever the name was.
Stream ==
    /\ pc = "stream"
    /\ \E reply \in Replies(IF Refusals # {} THEN Refusals ELSE {[kind |-> "complete"]}) :
          /\ Notice(reply)
          /\ IF reply.kind = "complete"
             THEN /\ Goto("scope")
                  /\ \E v \in Matching(Registered, Asked) :
                        local' = {w \in local : run.several /\ w.platform # v.platform} \cup {v}
             ELSE PullFailed(reply.kind) /\ UNCHANGED local
    /\ UNCHANGED <<run, endpoint, native, scope, archive, layers, up, canceled, turns>>

\* A second look tells a missing image from a missing platform.
ProbeImage ==
    /\ pc = "probe"
    /\ \E reply \in Inspect(<<>>) :
          /\ Notice(reply)
          /\ IF reply.kind = "found" THEN classifyPlatformMissing
             ELSE IF reply.kind = "unreachable" THEN Fail("ErrDaemonNotRunning", "none")
             ELSE Fail("ErrImageNotFound", "none")
    /\ UNCHANGED <<run, endpoint, native, scope, archive, layers>> /\ UNCHANGED engine

-----------------------------------------------------------------------------
(* The export.                                                             *)

\* imageSaveOpts: an ID is exported as it is, a name for the platform that is
\* asked for, else for the engine's when that can be told and limited to.
imageSaveOpts ==
    IF Pinned THEN {[platform |-> pin, told |-> TRUE]}
    ELSE IF run.ref = "digest" THEN {[platform |-> <<>>, told |-> TRUE]}
    ELSE {[platform |-> IF run.api < 48 THEN <<>> ELSE p, told |-> p # <<>>] : p \in daemonPlatform}

Scope ==
    /\ pc = "scope"
    /\ \E opts \in imageSaveOpts :
          /\ scope' = opts.platform
          /\ seen' = seen \cup (IF opts.told THEN {} ELSE {"noInfo"})
    /\ Goto("save")
    /\ UNCHANGED <<run, endpoint, native, archive, layers>> /\ UNCHANGED engine

\* ImageSave; an engine before API 1.48 does not take a platform.
ImageSave(platform) ==
    Replies(IF platform # <<>> /\ run.api < 48 THEN {Odd}
            ELSE {[kind |-> "archive", of |-> v.archive] : v \in Matching(local, platform)})

Save ==
    /\ pc = "save"
    /\ \E reply \in ImageSave(scope) :
          /\ Notice(reply)
          /\ IF reply.kind = "archive" THEN archive' = <<reply.of>> /\ Goto("spool")
             ELSE /\ UNCHANGED archive
                  /\ Fail("other", IF reply.kind = "canceled" THEN "canceled" ELSE "none")
    /\ UNCHANGED <<run, endpoint, native, scope, layers>> /\ UNCHANGED engine

\* spoolFromDaemon: the engine may hang up, the disk may be full.
Spool ==
    /\ pc = "spool"
    /\ \E reply \in Replies({[kind |-> "whole"]}) :
          /\ Notice(reply)
          /\ IF reply.kind = "whole" THEN Goto("parse")
             ELSE IF reply.kind = "canceled" THEN Fail("other", "canceled")
             ELSE Fail("ErrArchiveInfra", "none")
    /\ UNCHANGED <<run, endpoint, native, scope, archive, layers>> /\ UNCHANGED engine

\* An archive of the user's that does not parse is said to be invalid.
Parse ==
    LET metadata == readImageArchiveMetadata(archive[1])
        parsed == parseLayersFromManifest(archive[1], metadata.manifest)
        type == IF run.ref = "path" THEN "ErrInvalidArchive" ELSE "other"
    IN  /\ pc = "parse"
        /\ IF canceled THEN Fail(type, "canceled") /\ UNCHANGED layers
           ELSE IF metadata.error \/ parsed.error THEN Fail(type, "none") /\ UNCHANGED layers
           ELSE layers' = parsed.layers /\ Goto("done")
        /\ UNCHANGED <<run, endpoint, native, scope, archive, seen>> /\ UNCHANGED engine

-----------------------------------------------------------------------------
(* The world.                                                              *)

still == <<run, pc, endpoint, native, scope, archive, layers, error, seen>>

Cancel == ~canceled /\ canceled' = TRUE /\ UNCHANGED still /\ UNCHANGED <<local, up, turns>>

Turn ==
    /\ turns < MaxTurns /\ up' = ~up /\ turns' = turns + 1
    /\ UNCHANGED still /\ UNCHANGED <<local, canceled>>

RemoveImage ==
    /\ local # {} /\ "removed" \notin seen
    /\ local' = {} /\ seen' = seen \cup {"removed"}
    /\ UNCHANGED <<run, pc, endpoint, native, scope, archive, layers, error, up, canceled, turns>>

\* A pull, a build or a tag of somebody else gives the name to another image,
\* once; what matters is whether it was looked at and is not exported yet.
MoveTag ==
    /\ run.ref = "tag" /\ "moved" \notin seen
    /\ local' \in Elsewhere /\ (run.several \/ \A v \in local' : local' = {v})
    /\ seen' = seen \cup {"moved"} \cup (IF pc \in {"scope", "save"} THEN {"movedLate"} ELSE {})
    /\ UNCHANGED <<run, pc, endpoint, native, scope, archive, layers, error, up, canceled, turns>>

World == pc # "done" /\ (Cancel \/ (run.ref # "path" /\ (Turn \/ RemoveImage \/ MoveTag)))

Next ==
    \/ Select \/ Open \/ InspectID \/ InspectPinned \/ Info \/ List \/ InspectLocal
    \/ Pull \/ Stream \/ ProbeImage \/ Scope \/ Save \/ Spool \/ Parse
    \/ World

Init ==
    /\ run \in Scenarios
    /\ pc = "select" /\ endpoint = Nowhere /\ native = <<>> /\ scope = <<>>
    /\ local = run.local /\ archive = <<>> /\ layers = <<>> /\ error = NoError
    /\ up = TRUE /\ canceled = FALSE /\ seen = {} /\ turns = 0

Spec == Init /\ [][Next]_vars

-----------------------------------------------------------------------------
Done == pc = "done"
Served == Done /\ error = NoError

\* friendlyCLIError: an interruption is said before anything else.
friendlyCLIError == IF error.cause = "canceled" THEN "interrupted" ELSE error.type

\* The platform of the image that is served is the one asked for, whatever the
\* name is moved to meanwhile; without one asked for it is the engine's own,
\* unless the engine did not tell it.  An engine before API 1.48 cannot be
\* told the platform of an export: there it is the engine's own if it has room
\* for one variant and the name was not moved after it was looked at.  An ID
\* is that image on any platform.
ServesAsked ==
    Served =>
        LET config == ConfigBody(archive[1], readImageArchiveMetadata(archive[1]).manifest.config)
        IN  /\ PlatformsEqual(pin, <<config.platform>>)
            /\ /\ run.ref = "tag" /\ ~Pinned /\ "noInfo" \notin seen
               /\ run.api >= 48 \/ (~run.several /\ "movedLate" \notin seen)
               => PlatformsEqual(<<NativePlatform>>, <<config.platform>>)

\* The error that is told is the cause: not found only of what the registry
\* does not give out, a missing platform only when one was asked for and the
\* registry or the file has none for it, an engine that is not running only
\* of one that was away or could not list; and there is a cause at all: what
\* the engine had was of another platform or did not say its own.
CausesTold ==
    Done /\ error # NoError =>
        LET said == friendlyCLIError
            missing == Matching(Registered, Asked) = {}
        IN  /\ said = "interrupted" => canceled
            /\ said = "ErrImageNotFound" =>
                   IF run.ref = "digest" THEN Matching(run.local, pin) = {} \/ "removed" \in seen ELSE Registered = {}
            /\ said = "ErrPlatformNotInImage" => Pinned /\ (run.ref = "path" \/ missing)
            /\ said = "ErrDaemonNotRunning" => seen \cap {"unreachable", "odd"} # {}
            /\ said = "ErrInvalidArchive" => run.ref = "path"
            /\ said = "ErrPullFailed" => seen \cap {"unreachable", "odd"} # {} \/ (missing /\ ~Pinned)
            /\ run.ref = "tag" /\ ~IsError(endpoint) /\ run.sound =>
                   \/ canceled \/ seen \cap {"unreachable", "odd", "removed", "moved"} # {}
                   \/ PlatformError(run.platform)
                   \/ /\ missing
                      /\ \/ Matching(run.local, Asked) = {}
                         \/ Pinned /\ \E v \in Matching(run.local, Asked) : Vague(v.platform)

\* Every layer of the manifest is listed in its order, each with the tree of
\* the blob it names; no command that made no layer labels one, and when the
\* history has one entry for each layer they are in step.
LayersListed ==
    Served =>
        LET manifest == readImageArchiveMetadata(archive[1]).manifest
            history == ConfigBody(archive[1], manifest.config).history
            made == {k \in DOMAIN history : ~history[k].empty}
            Blob(name) == LastOf(archive[1], name)
        IN  /\ Len(layers) = Len(manifest.layers)
            /\ \A i \in DOMAIN layers :
                   /\ layers[i].path = manifest.layers[i]
                   /\ layers[i].tree = IF Blob(layers[i].path).size = 0 THEN EmptyTree
                                       ELSE Blob(layers[i].path).body.tree
                   /\ layers[i].command \in {history[k].by : k \in made} \cup {""}
                   /\ Cardinality(made) = Len(layers) =>
                          \E k \in made : /\ Cardinality({m \in made : m <= k}) = i
                                          /\ layers[i].command = history[k].by

\* What names an engine's endpoint wins over a socket that is merely there,
\* and a name that leads nowhere is an error, not another engine.
EndpointNamed ==
    run.ref # "path" /\ pc \notin {"select"} /\ endpoint # Nowhere =>
        LET setup == run.setup
            docker == setup.DOCKER_HOST # Unset
                      \/ setup.DOCKER_CONTEXT \notin {Unset, "default"}
                      \/ (setup.DOCKER_CONTEXT = Unset /\ Broken(setup.dockerConfig))
            podman == setup.CONTAINER_HOST # Unset \/ setup.CONTAINER_CONNECTION # Unset
            hostless == /\ setup.DOCKER_HOST = Unset /\ setup.DOCKER_CONTEXT \in DOMAIN setup.contexts
                        /\ setup.contexts[setup.DOCKER_CONTEXT].state = "ok"
                        /\ setup.contexts[setup.DOCKER_CONTEXT].host = Unset
        IN  /\ run.engine = "auto" /\ docker /\ ~hostless => endpoint.engine = "docker"
            /\ run.engine \in {"docker", "podman"} => endpoint.engine = run.engine
            /\ endpoint.source = "socket" =>
                   ~podman /\ (run.engine = "auto" => ~docker \/ hostless)
            /\ endpoint.source = "podman-connection:" /\ setup.CONTAINER_CONNECTION # Unset =>
                   \E i \in DOMAIN setup.podmanFiles :
                       /\ setup.CONTAINER_CONNECTION \in DOMAIN setup.podmanFiles[i].conns
                       /\ endpoint.host = setup.podmanFiles[i].conns[setup.CONTAINER_CONNECTION]
=============================================================================
