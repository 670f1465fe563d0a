-------------------------- MODULE ImageSourceProofs --------------------------
(***************************************************************************)
(* Theorems of FileView's specification, which is ImageSource's with the   *)
(* requests of the viewer: what names an engine wins over a socket, the    *)
(* image that is served is of the platform that was asked for, the error   *)
(* that is told is the cause, the layers that are listed are those of the  *)
(* archive, and the viewer shows what they have, for any scenarios,        *)
(* archives and number of turns of the engine.  Last, of LayerTars: the    *)
(* walk back through the tars finds the copy that is current.              *)
(***************************************************************************)
EXTENDS FileView, LayerTars, SumTheorems

\* What is not set is none of the names that mean something.
LEMMA NothingSet ==
  /\ Unset \notin {"docker", "podman", "socket", "env:DOCKER_HOST", "docker-context:",
                   "env:CONTAINER_HOST", "podman-connection:"}
  /\ Unset \notin {"ErrConfigMalformed", "other", "ErrConnectionNotFound", "ErrPodmanSocketNotSet",
                   "ErrNoEngineFound"}
  BY Zenon DEF Unset

\* The errors of the search for an engine.
EngineErrors ==
  {"ErrConfigMalformed", "other", "ErrConnectionNotFound", "ErrPodmanSocketNotSet", "ErrNoEngineFound"}

\* DOCKER_HOST, a context or a broken docker configuration name an engine.
NamesDocker(setup) ==
  \/ setup.DOCKER_HOST # Unset
  \/ setup.DOCKER_CONTEXT \notin {Unset, "default"}
  \/ (setup.DOCKER_CONTEXT = Unset /\ Broken(setup.dockerConfig))

NamesPodman(setup) == setup.CONTAINER_HOST # Unset \/ setup.CONTAINER_CONNECTION # Unset

\* The context that is named is there and says no host.
Hostless(setup) ==
  /\ setup.DOCKER_HOST = Unset /\ setup.DOCKER_CONTEXT \in DOMAIN setup.contexts
  /\ setup.contexts[setup.DOCKER_CONTEXT].state = "ok"
  /\ setup.contexts[setup.DOCKER_CONTEXT].host = Unset

IsEndpoint(e) == e = [error |-> e.error, engine |-> e.engine, host |-> e.host, source |-> e.source]

IsSetup(setup) ==
  /\ DOMAIN setup.podmanFiles \subseteq {1, 2}
  /\ \A c \in DOMAIN setup.contexts :
        setup.contexts[c].state \in {"ok", "unreadable", "malformed"}

-----------------------------------------------------------------------------
\* An unreadable connections file is an error with a text.
LEMMA FileErrors ==
  ASSUME NEW file
  PROVE  FileError(file) \in EngineErrors /\ FileError(file) # Unset
  BY NothingSet DEF FileError, EngineErrors

\* The fields of an endpoint, and what an error makes of it.
LEMMA Endpoints ==
  /\ \A host, source : /\ Endpoint(host, source).host = host /\ Endpoint(host, source).source = source
                       /\ Endpoint(host, source).error = Unset /\ IsEndpoint(Endpoint(host, source))
  /\ \A text : /\ NoEndpoint(text).error = text /\ NoEndpoint(text).source = Unset
                /\ IsEndpoint(NoEndpoint(text)) /\ (text # Unset => IsError(NoEndpoint(text)))
  /\ Nowhere.source = Unset /\ Nowhere.error = Unset /\ IsEndpoint(Nowhere)
  /\ \A name, e : IsEndpoint(e) => /\ By(name, e).engine = name /\ By(name, e).source = e.source
                                  /\ By(name, e).host = e.host /\ By(name, e).error = e.error
  BY DEF Endpoint, NoEndpoint, Nowhere, IsEndpoint, IsError, By

\* Docker's name: an endpoint, an error or nothing.
LEMMA Docker ==
  ASSUME NEW setup, IsSetup(setup), NEW e, e = dockerResolve(setup)
  PROVE  /\ IsEndpoint(e) /\ e.source # "socket" /\ e.source # "podman-connection:"
         /\ e.error \in EngineErrors \cup {Unset}
         /\ NamesDocker(setup) /\ ~Hostless(setup) => IsError(e) \/ e.host # Unset
<1>1. "ErrConnectionNotFound" \in EngineErrors
  BY DEF EngineErrors
<1>5. \A c \in DOMAIN setup.contexts : ~Broken(setup.contexts[c]) => setup.contexts[c].state = "ok"
  BY DEF IsSetup, Broken
<1> DEFINE named == IF setup.DOCKER_CONTEXT # Unset THEN setup.DOCKER_CONTEXT
                    ELSE IF setup.dockerConfig.state = "ok" THEN setup.dockerConfig.currentContext
                    ELSE Unset
           context == setup.contexts[named]
           there == named \in DOMAIN setup.contexts
<1>6. \/ setup.DOCKER_HOST # Unset /\ e = Endpoint(setup.DOCKER_HOST, "env:DOCKER_HOST")
      \/ /\ setup.DOCKER_HOST = Unset
         /\ \/ \E file : e = NoEndpoint(FileError(file))
            \/ e = NoEndpoint("ErrConnectionNotFound")
            \/ /\ ~(setup.DOCKER_CONTEXT = Unset /\ Broken(setup.dockerConfig))
               /\ \/ named \in {Unset, "default"} /\ e = Nowhere
                  \/ there /\ ~Broken(context) /\ context.host = Unset /\ e = Nowhere
                  \/ context.host # Unset /\ e = Endpoint(context.host, "docker-context:")
  BY DEF dockerResolve
<1>7. setup.DOCKER_CONTEXT # Unset => named = setup.DOCKER_CONTEXT
  OBVIOUS
<1> HIDE DEF named
<1>8. ASSUME NamesDocker(setup), ~Hostless(setup) PROVE IsError(e) \/ e.host # Unset
  <2>1. ~(setup.DOCKER_HOST = Unset /\ named \in {Unset, "default"} /\ e = Nowhere
          /\ ~(setup.DOCKER_CONTEXT = Unset /\ Broken(setup.dockerConfig)))
    BY <1>7, <1>8 DEF NamesDocker
  <2>2. ~(setup.DOCKER_HOST = Unset /\ there /\ ~Broken(context) /\ context.host = Unset
          /\ ~(setup.DOCKER_CONTEXT = Unset /\ Broken(setup.dockerConfig)))
    BY <1>5, <1>7, <1>8 DEF NamesDocker, Hostless
  <2> QED
    BY <1>1, <1>6, <2>1, <2>2, Endpoints, FileErrors, NothingSet
<1>9. IsEndpoint(e) /\ e.source # "socket" /\ e.source # "podman-connection:" /\ e.error \in EngineErrors \cup {Unset}
  BY <1>1, <1>6, Endpoints, FileErrors, NothingSet
<1> QED
  BY <1>8, <1>9

\* The connections of the first file that is there, without those that have
\* no URI.
LEMMA Connections ==
  ASSUME NEW setup, IsSetup(setup), NEW loaded, loaded = loadConnections(setup)
  PROVE  /\ loaded.error \in EngineErrors \cup {Unset}
         /\ \A name \in DOMAIN loaded.conns :
               /\ loaded.conns[name] # Unset
               /\ \E i \in DOMAIN setup.podmanFiles :
                     /\ name \in DOMAIN setup.podmanFiles[i].conns
                     /\ loaded.conns[name] = setup.podmanFiles[i].conns[name]
<1> DEFINE there == {i \in DOMAIN setup.podmanFiles : setup.podmanFiles[i].state # "absent"}
           file == setup.podmanFiles[Min(there)]
           given == {name \in DOMAIN file.conns : file.conns[name] # Unset}
           none == [name \in {} |-> Unset]
<1>1. ASSUME there # {} PROVE Min(there) \in there
  <2>1. \E n \in there : \A m \in there : n <= m
    BY <1>1 DEF IsSetup
  <2> QED
    BY <2>1 DEF Min
<1>2. \/ loaded = [error |-> Unset, conns |-> none, default |-> Unset]
      \/ loaded = [error |-> FileError(file), conns |-> none, default |-> Unset]
      \/ there # {} /\ loaded = [error |-> Unset, conns |-> [name \in given |-> file.conns[name]],
                                 default |-> file.default]
  BY DEF loadConnections
<1>3. DOMAIN none = {}
  OBVIOUS
<1>4. CASE loaded = [error |-> Unset, conns |-> none, default |-> Unset]
  <2>1. loaded.error = Unset /\ loaded.conns = none
    BY <1>4
  <2> QED
    BY <1>3, <2>1
<1>5. CASE loaded = [error |-> FileError(file), conns |-> none, default |-> Unset]
  <2>1. loaded.error = FileError(file) /\ loaded.conns = none
    BY <1>5
  <2>2. FileError(file) \in EngineErrors
    BY FileErrors
  <2> QED
    BY <1>3, <2>1, <2>2
<1>6. CASE there # {} /\ loaded = [error |-> Unset, conns |-> [name \in given |-> file.conns[name]],
                                 default |-> file.default]
  <2> DEFINE kept == [name \in given |-> file.conns[name]]
  <2>0. loaded = [error |-> Unset, conns |-> kept, default |-> file.default]
    BY <1>6
  <2>1. loaded.error = Unset /\ loaded.conns = kept
    <3> HIDE DEF kept
    <3> QED
      BY <2>0
  <2>2. Min(there) \in DOMAIN setup.podmanFiles
    BY <1>1, <1>6
  <2> HIDE DEF there
  <2> QED
    BY <2>1, <2>2
<1> QED
  BY <1>2, <1>4, <1>5, <1>6

\* Podman's name likewise; the socket is no part of it.
LEMMA Podman ==
  ASSUME NEW setup, IsSetup(setup), NEW e, e = podmanResolve(setup)
  PROVE  /\ IsEndpoint(e) /\ e.source # "socket" /\ e.error \in EngineErrors \cup {Unset}
         /\ NamesPodman(setup) => IsError(e) \/ e.host # Unset
         /\ e.source = "podman-connection:" /\ setup.CONTAINER_CONNECTION # Unset =>
               \E i \in DOMAIN setup.podmanFiles :
                   /\ setup.CONTAINER_CONNECTION \in DOMAIN setup.podmanFiles[i].conns
                   /\ e.host = setup.podmanFiles[i].conns[setup.CONTAINER_CONNECTION]
<1> DEFINE loaded == loadConnections(setup)
           requested == IF setup.CONTAINER_CONNECTION # Unset THEN setup.CONTAINER_CONNECTION
                        ELSE loaded.default
<1>1. \/ setup.CONTAINER_HOST # Unset /\ e = Endpoint(setup.CONTAINER_HOST, "env:CONTAINER_HOST")
      \/ loaded.error # Unset /\ e = NoEndpoint(loaded.error)
      \/ e = NoEndpoint("ErrConnectionNotFound")
      \/ /\ requested # Unset /\ requested \in DOMAIN loaded.conns
         /\ e = Endpoint(loaded.conns[requested], "podman-connection:")
      \/ /\ setup.CONTAINER_HOST = Unset /\ requested = Unset
         /\ (e = Nowhere \/ e = Endpoint(setup.DOCKER_HOST, "env:DOCKER_HOST"))
  BY DEF podmanResolve
<1>2. setup.CONTAINER_CONNECTION # Unset => requested = setup.CONTAINER_CONNECTION
  OBVIOUS
<1>3. /\ loaded.error \in EngineErrors \cup {Unset}
      /\ \A name \in DOMAIN loaded.conns :
            /\ loaded.conns[name] # Unset
            /\ \E i \in DOMAIN setup.podmanFiles :
                  /\ name \in DOMAIN setup.podmanFiles[i].conns
                  /\ loaded.conns[name] = setup.podmanFiles[i].conns[name]
  BY Connections
<1> HIDE DEF loaded, requested
<1>7. IsEndpoint(e) /\ e.source # "socket" /\ e.error \in EngineErrors \cup {Unset}
  <2>1. "ErrConnectionNotFound" \in EngineErrors
    BY DEF EngineErrors
  <2> QED
    BY <1>1, <1>3, <2>1, Endpoints, NothingSet
<1>8. NamesPodman(setup) => IsError(e) \/ e.host # Unset
  BY <1>1, <1>2, <1>3, Endpoints, NothingSet DEF NamesPodman
<1>9. ASSUME e.source = "podman-connection:", setup.CONTAINER_CONNECTION # Unset
      PROVE  \E i \in DOMAIN setup.podmanFiles :
                 /\ setup.CONTAINER_CONNECTION \in DOMAIN setup.podmanFiles[i].conns
                 /\ e.host = setup.podmanFiles[i].conns[setup.CONTAINER_CONNECTION]
  <2>1. requested \in DOMAIN loaded.conns /\ e = Endpoint(loaded.conns[requested], "podman-connection:")
    BY <1>1, <1>9, Endpoints, NothingSet
  <2> QED
    BY <1>2, <1>3, <1>9, <2>1, Endpoints
<1> QED
  BY <1>7, <1>8, <1>9

\* A socket is found or not, and then it is what was to be taken otherwise.
LEMMA Sockets ==
  ASSUME NEW setup, NEW candidates, NEW otherwise
  PROVE  LET e == Probe(setup, candidates, otherwise)
         IN  e = otherwise \/ (e.source = "socket" /\ e.error = Unset /\ IsEndpoint(e))
  BY Endpoints DEF Probe

\* The endpoint of a resolver: its engine, its source, and who was asked.
LEMMA EndpointFacts ==
  ASSUME NEW setup, IsSetup(setup), NEW who, NEW e, e = selectDockerLikeResolver(who, setup)
  PROVE  /\ e.error \in EngineErrors \cup {Unset}
         /\ who = "auto" /\ NamesDocker(setup) /\ ~Hostless(setup) => e.engine = "docker"
         /\ who \in {"docker", "podman"} => e.engine = who
         /\ e.source = "socket" =>
               ~NamesPodman(setup) /\ (who = "auto" => ~NamesDocker(setup) \/ Hostless(setup))
         /\ e.source = "podman-connection:" /\ setup.CONTAINER_CONNECTION # Unset =>
               \E i \in DOMAIN setup.podmanFiles :
                   /\ setup.CONTAINER_CONNECTION \in DOMAIN setup.podmanFiles[i].conns
                   /\ e.host = setup.podmanFiles[i].conns[setup.CONTAINER_CONNECTION]
<1> DEFINE docker == dockerResolve(setup)
           podman == podmanResolve(setup)
           onDocker == Probe(setup, dockerSocketCandidates(setup), Nowhere)
           onPodman == Probe(setup, podmanSocketCandidates(setup), NoEndpoint("ErrNoEngineFound"))
           wanted == \E i \in DOMAIN setup.podmanFiles :
                        /\ setup.CONTAINER_CONNECTION \in DOMAIN setup.podmanFiles[i].conns
                        /\ e.host = setup.podmanFiles[i].conns[setup.CONTAINER_CONNECTION]
<1>1. /\ IsEndpoint(docker) /\ docker.source # "socket" /\ docker.source # "podman-connection:"
      /\ docker.error \in EngineErrors \cup {Unset}
      /\ NamesDocker(setup) /\ ~Hostless(setup) => IsError(docker) \/ docker.host # Unset
  BY Docker
<1>2. /\ IsEndpoint(podman) /\ podman.source # "socket" /\ podman.error \in EngineErrors \cup {Unset}
      /\ NamesPodman(setup) => IsError(podman) \/ podman.host # Unset
      /\ podman.source = "podman-connection:" /\ setup.CONTAINER_CONNECTION # Unset
         /\ e.host = podman.host => wanted
  BY Podman
<1>3. /\ onDocker = Nowhere \/ (onDocker.source = "socket" /\ onDocker.error = Unset)
      /\ onPodman = NoEndpoint("ErrNoEngineFound") \/ (onPodman.source = "socket" /\ onPodman.error = Unset)
      /\ IsEndpoint(onDocker) /\ IsEndpoint(onPodman)
  BY Sockets, Endpoints
<1>4. /\ "ErrNoEngineFound" \in EngineErrors /\ "ErrPodmanSocketNotSet" \in EngineErrors
      /\ "other" \in EngineErrors
  BY DEF EngineErrors
<1>5. CASE who = "docker"
  <2>1. e = By("docker", docker)
    BY <1>5 DEF selectDockerLikeResolver, dockerHost
  <2> HIDE DEF docker
  <2> QED
    BY <1>1, <1>5, <2>1, Endpoints
<1>6. CASE who = "podman"
  <2>1. \/ e = By("podman", podman) /\ (IsError(podman) \/ podman.host # Unset)
        \/ ~(IsError(podman) \/ podman.host # Unset) /\ e = By("podman", NoEndpoint("ErrPodmanSocketNotSet"))
        \/ ~(IsError(podman) \/ podman.host # Unset) /\ e = By("podman", onPodman)
    BY <1>6 DEF selectDockerLikeResolver, podmanHost
  <2> HIDE DEF podman, onPodman, wanted
  <2>2. e.engine = "podman" /\ e.error \in EngineErrors \cup {Unset}
    BY <1>2, <1>3, <1>4, <2>1, Endpoints
  <2>3. e.source = "socket" => ~NamesPodman(setup)
    BY <1>2, <2>1, Endpoints, NothingSet
  <2>4. e.source = "podman-connection:" /\ setup.CONTAINER_CONNECTION # Unset => wanted
    BY <1>2, <1>3, <2>1, Endpoints, NothingSet
  <2> QED
    BY <1>6, <2>2, <2>3, <2>4 DEF wanted
<1>7. CASE who = "auto"
  <2>1. \/ e = By("docker", docker) /\ (IsError(docker) \/ docker.host # Unset)
        \/ /\ ~(IsError(docker) \/ docker.host # Unset)
           /\ \/ e = By("podman", podman) /\ (IsError(podman) \/ podman.host # Unset)
              \/ ~(IsError(podman) \/ podman.host # Unset) /\ e = By("docker", onDocker) /\ onDocker # Nowhere
              \/ ~(IsError(podman) \/ podman.host # Unset) /\ e = By("podman", onPodman)
    BY <1>7 DEF selectDockerLikeResolver, autoEngineHost
  <2> HIDE DEF docker, podman, onDocker, onPodman, wanted
  <2>2. e.error \in EngineErrors \cup {Unset}
    BY <1>1, <1>2, <1>3, <1>4, <2>1, Endpoints
  <2>3. NamesDocker(setup) /\ ~Hostless(setup) => e.engine = "docker"
    BY <1>1, <2>1, Endpoints
  <2>4. e.source = "socket" => ~NamesPodman(setup) /\ (~NamesDocker(setup) \/ Hostless(setup))
    BY <1>1, <1>2, <2>1, Endpoints, NothingSet
  <2>5. e.source = "podman-connection:" /\ setup.CONTAINER_CONNECTION # Unset => wanted
    BY <1>1, <1>2, <1>3, <2>1, Endpoints, NothingSet
  <2> QED
    BY <1>7, <2>2, <2>3, <2>4, <2>5 DEF wanted
<1>8. CASE who \notin {"docker", "podman", "auto"}
  <2>1. e = NoEndpoint("other")
    BY <1>8 DEF selectDockerLikeResolver
  <2> QED
    BY <1>4, <1>8, <2>1, Endpoints, NothingSet
<1> QED
  BY <1>5, <1>6, <1>7, <1>8

-----------------------------------------------------------------------------
\* The calls are made in the order of the code: the ones of a name only for a
\* name, the ones of an engine only without an archive, and a file is looked
\* at once the analysis is done.
FlowInv ==
  /\ IsScenario(run)
  /\ pc # "done" => error = NoError
  /\ pc = "open" => run.ref = "path"
  /\ pc \in {"info", "list", "inspectLocal", "pull", "stream", "probe"} => run.ref = "tag"
  /\ pc \in {"info", "list", "inspectLocal"} => ~Pinned
  /\ pc \in {"inspect", "scope", "save", "spool"} => run.ref # "path"
  /\ pc = "probe" => Pinned /\ Registered = {}
  /\ view.step # "none" => pc = "done"

\* What is known of the engine: which one it is, and its platform unless it
\* did not tell it.
EngineInv ==
  /\ endpoint = Nowhere \/ endpoint = selectDockerLikeResolver(run.engine, run.setup)
  /\ native \in {<<>>, <<NativePlatform>>}
  /\ pc = "inspectLocal" => native # <<>>
  /\ pc \in {"list", "inspectLocal", "pull", "stream", "scope", "save"}
     /\ run.ref = "tag" /\ ~Pinned /\ native = <<>> => "noInfo" \in seen

\* What the name may be: what the engine had, what is given out, and what the
\* name was moved to.
Variants == run.local \cup run.registered \cup (IF "moved" \in seen THEN UNION Elsewhere ELSE {})

\* Somebody has changed what the engine has.
Disturbed == "removed" \in seen \/ (run.ref = "tag" /\ "moved" \in seen)

\* What the engine has of the image: one variant when there is room for one,
\* and before the pull what it had at first.
LocalInv ==
  pc # "done" =>
    /\ local \subseteq Variants
    /\ ~run.several => \A v, w \in local : v = w
    /\ pc \in {"select", "inspect", "info", "list", "inspectLocal"} =>
          local = run.local \/ Disturbed

\* A name without a platform, and the engine told its own both times.
OwnAsked == run.ref = "tag" /\ ~Pinned /\ "noInfo" \notin seen
IsOwn(v) == PlatformsEqual(<<NativePlatform>>, <<v.platform>>)

\* There is room for one variant, and it is still the one that was looked at.
OneLooked == ~run.several /\ "movedLate" \notin seen

\* What may be exported is of the right platform, by the limit that is set or
\* because there is nothing else.
ExportInv ==
  /\ pc \in {"scope", "save"} /\ OwnAsked /\ OneLooked => \A v \in local : IsOwn(v)
  /\ pc = "save" /\ Pinned => scope = pin
  /\ pc = "save" /\ OwnAsked /\ run.api >= 48 => scope = <<NativePlatform>>

\* Nothing the engine had could be used.
Unfit ==
  \/ Matching(run.local, Asked) = {}
  \/ Pinned /\ \E v \in Matching(run.local, Asked) : Vague(v.platform)

\* There is a reason for the pull.
PullInv == pc \in {"pull", "stream", "probe"} => "odd" \in seen \/ Disturbed \/ Unfit

\* The archive that is read is the user's, or of a variant of the platform.
Fitting ==
  \/ run.ref = "path" /\ PlatformsEqual(pin, <<ConfigOf(archive[1]).platform>>)
  \/ /\ run.ref # "path"
     /\ \E v \in Variants :
           /\ archive = <<v.archive>> /\ PlatformsEqual(pin, <<v.platform>>)
           /\ OwnAsked /\ (run.api >= 48 \/ OneLooked) => IsOwn(v)

ArchiveInv ==
  /\ pc \in {"spool", "parse"} \/ Served => Fitting
  /\ Served => Parses(archive[1])

SourceInv ==
  FlowInv /\ EngineInv /\ LocalInv /\ ExportInv /\ PullInv /\ ArchiveInv /\ CausesTold

-----------------------------------------------------------------------------
(* What the parts of the invariant are said in.                            *)

Faulty == seen \cap {"unreachable", "odd"} # {}
Missing == Matching(Registered, Asked) = {}

\* An ID the engine did not have, or a name nobody gives out.
NotThere ==
  IF run.ref = "digest" THEN Matching(run.local, pin) = {} \/ "removed" \in seen
  ELSE Registered = {}

\* A name that was not served has a reason.
Excused ==
  run.ref = "tag" /\ ~IsError(endpoint) /\ run.sound =>
    \/ canceled \/ seen \cap {"unreachable", "odd", "removed", "moved"} # {}
    \/ PlatformError(run.platform)
    \/ Missing /\ Unfit

Because(said) ==
  /\ said = "interrupted" => canceled
  /\ said = "ErrImageNotFound" => NotThere
  /\ said = "ErrPlatformNotInImage" => Pinned /\ (run.ref = "path" \/ Missing)
  /\ said = "ErrDaemonNotRunning" => Faulty
  /\ said = "ErrInvalidArchive" => run.ref = "path"
  /\ said = "ErrPullFailed" => Faulty \/ (Missing /\ ~Pinned)
  /\ Excused

\* CausesTold, by the error the command prints.
LEMMA CausesAre ==
  /\ CausesTold <=> (pc = "done" /\ error # NoError => Because(friendlyCLIError))
  /\ CausesTold' <=> (pc = "done" /\ error # NoError => Because(friendlyCLIError))'
<1>1. CausesTold <=> (pc = "done" /\ error # NoError => Because(friendlyCLIError))
  BY Zenon DEF CausesTold, Done, Because, Faulty, Missing, NotThere, Excused, Unfit
<1>2. CausesTold' <=> (pc = "done" /\ error # NoError => Because(friendlyCLIError))'
  BY Zenon DEF CausesTold, Done, Because, Faulty, Missing, NotThere, Excused, Unfit
<1> QED
  BY <1>1, <1>2

\* A step of the scenario keeps what is worked out of it.
LEMMA SameScenario ==
  ASSUME run' = run
  PROVE  /\ Pinned' = Pinned /\ pin' = pin /\ Registered' = Registered
         /\ NativePlatform' = NativePlatform
         /\ \A v : IsOwn(v)' <=> IsOwn(v)
<1>1. Pinned' = Pinned /\ pin' = pin /\ Registered' = Registered
  BY DEF Pinned, pin, Registered
<1>2. NativePlatform' = NativePlatform
  BY DEF NativePlatform
<1> QED
  BY <1>1, <1>2 DEF IsOwn

\* What a run asks for depends on the run and the native platform.
LEMMA SameNative ==
  ASSUME run' = run, native' = native
  PROVE  /\ Asked' = Asked /\ (Missing' <=> Missing) /\ (Unfit' <=> Unfit)
<1>1. Asked' = Asked
  BY SameScenario DEF Asked
<1> QED
  BY <1>1, SameScenario DEF Missing, Unfit, Matching

\* A call that fails tells its cause when the cause holds and, for a name,
\* there is a reason.
LEMMA Failing ==
  ASSUME SourceInv, pc # "done", run' = run, view' = view, native' = native,
         endpoint' \in {endpoint, selectDockerLikeResolver(run.engine, run.setup)},
         NEW type, NEW cause \in {"none", "canceled"}, Fail(type, cause),
         type \notin {"none", "interrupted"}, Excused',
         cause = "canceled" => canceled',
         type = "ErrImageNotFound" => NotThere',
         type = "ErrPlatformNotInImage" => Pinned' /\ (run'.ref = "path" \/ Missing'),
         type = "ErrDaemonNotRunning" => Faulty',
         type = "ErrInvalidArchive" => run'.ref = "path",
         type = "ErrPullFailed" => Faulty' \/ (Missing' /\ ~Pinned')
  PROVE  SourceInv'
<1>1. friendlyCLIError' = IF cause = "canceled" THEN "interrupted" ELSE type
  BY DEF Fail, Error, friendlyCLIError
<1>2. Because(friendlyCLIError)'
  BY <1>1 DEF Because
<1>3. CausesTold'
  BY <1>2, CausesAre
<1>4. pc' = "done" /\ ~Served'
  BY DEF Fail, Served, NoError, Error
<1>5. FlowInv' /\ EngineInv'
  BY <1>4, SameScenario DEF SourceInv, FlowInv, EngineInv
<1>6. LocalInv' /\ ExportInv' /\ PullInv' /\ ArchiveInv'
  BY <1>4 DEF LocalInv, ExportInv, PullInv, ArchiveInv
<1> QED
  BY <1>3, <1>5, <1>6 DEF SourceInv

\* A call that goes on tells nothing.
LEMMA Going ==
  ASSUME SourceInv, pc # "done", NEW step, step # "done", Goto(step)
  PROVE  pc' = step /\ error' = NoError /\ CausesTold' /\ ~Served'
  BY CausesAre DEF SourceInv, FlowInv, Goto, Served, Done

\* A reply is the answer, a cancellation or a failure to answer.
LEMMA Replied ==
  ASSUME NEW answers, NEW reply \in Replies(answers)
  PROVE  \/ reply = Canceled /\ canceled
         \/ reply = Unreachable
         \/ reply = Odd
         \/ reply \in answers
  BY DEF Replies

\* Replies tell their kind.
LEMMA Kinds ==
  /\ Canceled.kind = "canceled" /\ Unreachable.kind = "unreachable" /\ Odd.kind = "odd"
  /\ NotFound.kind = "notFound"
  /\ \A v : Found(v).kind = "found" /\ Found(v).platform = v.platform
  BY DEF Canceled, Unreachable, Odd, NotFound, Found

\* A fault that is noticed stays noticed.
LEMMA Noticed ==
  ASSUME NEW reply, Notice(reply)
  PROVE  /\ seen \subseteq seen'
         /\ \A what \in {"noInfo", "removed", "moved", "movedLate"} : what \in seen' <=> what \in seen
         /\ reply.kind = "odd" => "odd" \in seen'
         /\ reply.kind \in {"odd", "unreachable"} =>
               Faulty' /\ (seen \cap {"unreachable", "odd", "removed", "moved"} # {})'
  BY DEF Notice, Faulty

\* What was disturbed stays so, and what the name may be may still be.
LEMMA Kept ==
  ASSUME run' = run, seen \subseteq seen'
  PROVE  Variants \subseteq Variants' /\ (Disturbed => Disturbed')
  BY DEF Variants, Disturbed

\* The platform of a variant is the one in its archive.
LEMMA Truthful ==
  ASSUME IsScenario(run), NEW v \in Variants
  PROVE  /\ IsArchive(v.archive) /\ (Parses(v.archive) => ConfigOf(v.archive).platform = v.platform)
         /\ "moved" \notin seen => v \in run.local \cup run.registered
         /\ v \in run.local \cup run.registered /\ run.sound => Parses(v.archive)
<1>1. CASE v \in run.local \cup run.registered
  <2>1. IsVariant(v) /\ (run.sound => Parses(v.archive))
    BY <1>1 DEF IsScenario
  <2> QED
    BY <1>1, <2>1 DEF IsVariant
<1>2. CASE v \in UNION Elsewhere /\ "moved" \in seen /\ v \notin run.local \cup run.registered
  <2>1. IsVariant(v)
    BY <1>2, ElsewhereAssumption
  <2> QED
    BY <1>2, <2>1 DEF IsVariant
<1> QED
  BY <1>1, <1>2 DEF Variants

\* Without a platform asked for, every platform will do.
LEMMA NoWish ==
  /\ \A got : PlatformsEqual(<<>>, got)
  /\ Pinned => pin # <<>>
  /\ ~Pinned => pin = <<>>
<1>1. \A x : <<x>> # <<>>
  OBVIOUS
<1> QED
  BY <1>1 DEF PlatformsEqual, Pinned, pin, Pin

\* An inspect finds a variant that matches, of the engine's own platform when
\* it is told none and has one, or there is none.
LEMMA Inspected ==
  ASSUME NEW platform, NEW reply \in Inspect(platform)
  PROVE  \/ reply.kind = "canceled" /\ canceled
         \/ reply.kind = "unreachable"
         \/ reply.kind = "odd"
         \/ reply.kind = "notFound" /\ Matching(local, platform) = {}
         \/ /\ reply.kind = "found"
            /\ \E v \in Matching(local, platform) :
                  /\ reply.platform = v.platform
                  /\ platform = <<>> /\ Matching(local, <<NativePlatform>>) # {} => IsOwn(v)
<1> DEFINE own == Matching(local, <<NativePlatform>>)
           fit == IF platform = <<>> /\ own # {} THEN own ELSE Matching(local, platform)
<1>1. \/ reply = Canceled /\ canceled
      \/ reply = Unreachable
      \/ reply = Odd
      \/ fit = {} /\ reply = NotFound
      \/ \E v \in fit : reply = Found(v)
  BY Replied DEF Inspect
<1>2. \A v \in own : IsOwn(v) /\ v \in local
  BY DEF Matching, IsOwn
<1>3. \A v \in local : platform = <<>> => v \in Matching(local, platform)
  BY NoWish DEF Matching
<1>4. fit \subseteq Matching(local, platform) /\ (fit = {} => Matching(local, platform) = {})
  BY <1>2, <1>3
<1>5. \A v \in fit : platform = <<>> /\ own # {} => IsOwn(v)
  BY <1>2
<1> HIDE DEF own, fit
<1>6. \A v \in fit : reply = Found(v) => /\ reply.kind = "found" /\ v \in Matching(local, platform)
                                         /\ reply.platform = v.platform
                                         /\ platform = <<>> /\ own # {} => IsOwn(v)
  BY <1>4, <1>5, Kinds
<1> QED
  BY <1>1, <1>4, <1>6, Kinds DEF own

-----------------------------------------------------------------------------
(* The steps.                                                              *)

\* Selecting the engine.
LEMMA Selects ==
  ASSUME SourceInv, Select, view' = view
  PROVE  SourceInv'
<1> DEFINE chosen == selectDockerLikeResolver(run.engine, run.setup)
<1>1. pc = "select" /\ run' = run /\ native' = native /\ local' = local /\ canceled' = canceled /\ seen' = seen
  BY DEF Select, engine
<1>2. IsScenario(run) /\ IsSetup(run.setup)
  BY DEF SourceInv, FlowInv, IsScenario, IsSetup
<1>3. chosen.error \in EngineErrors \cup {Unset}
  BY <1>2, EndpointFacts
<1>4. EngineErrors \cap {"none", "interrupted", "ErrImageNotFound", "ErrPlatformNotInImage",
                         "ErrDaemonNotRunning", "ErrInvalidArchive", "ErrPullFailed"} = {}
  BY DEF EngineErrors
<1>5. CASE PlatformError(run.platform) /\ Fail("ErrPlatformInvalid", "none") /\ endpoint' = endpoint
  <2>1. Excused'
    BY <1>1, <1>5 DEF Excused
  <2> QED
    BY <1>1, <1>5, <2>1, Failing
<1>6. CASE endpoint' = chosen /\ IsError(chosen) /\ Fail(chosen.error, "none")
  <2>1. Excused'
    BY <1>6 DEF Excused
  <2>2. chosen.error \in EngineErrors
    BY <1>3, <1>6 DEF IsError
  <2> HIDE DEF chosen
  <2> QED
    BY <1>1, <1>4, <1>6, <2>1, <2>2, Failing DEF chosen
<1>7. ASSUME NEW step \in {"open", "inspect", "info"}, Goto(step),
             endpoint' \in {endpoint, chosen},
             step = "open" => run.ref = "path",
             step = "inspect" => run.ref # "path",
             step = "info" => run.ref \notin {"path", "digest"} /\ ~Pinned
      PROVE  SourceInv'
  <2>1. pc' = step /\ error' = NoError /\ CausesTold' /\ ~Served'
    BY <1>1, <1>7, Going
  <2>2. FlowInv'
    BY <1>1, <1>2, <1>7, <2>1, SameScenario DEF SourceInv, FlowInv, IsScenario
  <2>3. EngineInv'
    BY <1>1, <1>7, <2>1, SameScenario DEF SourceInv, EngineInv
  <2>4. LocalInv' /\ ExportInv' /\ PullInv' /\ ArchiveInv'
    BY <1>1, <1>7, <2>1, Kept DEF SourceInv, LocalInv, ExportInv, PullInv, ArchiveInv
  <2> QED
    BY <2>1, <2>2, <2>3, <2>4 DEF SourceInv
<1>8. \/ PlatformError(run.platform) /\ Fail("ErrPlatformInvalid", "none") /\ endpoint' = endpoint
      \/ run.ref = "path" /\ Goto("open") /\ endpoint' = endpoint
      \/ endpoint' = chosen /\ IsError(chosen) /\ Fail(chosen.error, "none")
      \/ run.ref # "path" /\ endpoint' = chosen /\ Goto("inspect")
      \/ run.ref \notin {"path", "digest"} /\ ~Pinned /\ endpoint' = chosen /\ Goto("info")
  BY DEF Select
<1> QED
  BY <1>5, <1>6, <1>7, <1>8

\* Opening the connection.
LEMMA Opens ==
  ASSUME SourceInv, Open, view' = view
  PROVE  SourceInv'
<1>1. /\ pc = "open" /\ run.ref = "path" /\ run' = run /\ native' = native /\ local' = local
      /\ endpoint' = endpoint /\ seen' = seen
  BY DEF Open, engine, SourceInv, FlowInv
<1>2. \/ \E type \in {"ErrArchiveNotFound", "ErrArchivePermission", "ErrArchiveInfra", "ErrInvalidArchive"} :
            Fail(type, "none")
      \/ Pinned /\ Fail("ErrPlatformNotInImage", "none")
      \/ /\ PlatformsEqual(pin, <<ConfigOf(run.file).platform>>)
         /\ archive' = <<run.file>> /\ Goto("parse")
  BY NoWish DEF Open, openError, ConfigOf
<1>3. Excused'
  BY <1>1 DEF Excused
<1>4. ASSUME NEW type \in {"ErrArchiveNotFound", "ErrArchivePermission", "ErrArchiveInfra", "ErrInvalidArchive"},
             Fail(type, "none")
      PROVE  SourceInv'
  BY <1>1, <1>3, <1>4, Failing
<1>5. CASE Pinned /\ Fail("ErrPlatformNotInImage", "none")
  BY <1>1, <1>3, <1>5, Failing, SameScenario
<1>6. CASE PlatformsEqual(pin, <<ConfigOf(run.file).platform>>) /\ archive' = <<run.file>> /\ Goto("parse")
  <2>1. pc' = "parse" /\ error' = NoError /\ CausesTold' /\ ~Served'
    BY <1>1, <1>6, Going
  <2>2. FlowInv' /\ EngineInv'
    BY <1>1, <2>1, SameScenario DEF SourceInv, FlowInv, EngineInv
  <2>3. LocalInv' /\ ExportInv' /\ PullInv'
    BY <1>1, <2>1, Kept DEF SourceInv, LocalInv, ExportInv, PullInv
  <2>4. archive'[1] = run.file
    BY <1>6
  <2>5. Fitting'
    BY <1>1, <1>6, <2>4, SameScenario DEF Fitting
  <2> QED
    BY <2>1, <2>2, <2>3, <2>5 DEF SourceInv, ArchiveInv
<1> QED
  BY <1>2, <1>4, <1>5, <1>6

\* An interruption or an engine that is away is a reason, and is told as such.
LEMMA Away ==
  ASSUME SourceInv, pc # "done", run' = run, view' = view, native' = native, endpoint' = endpoint,
         canceled' = canceled, NEW reply, Notice(reply),
         \/ reply.kind = "canceled" /\ canceled /\ Fail("other", "canceled")
         \/ reply.kind = "unreachable" /\ Fail("ErrDaemonNotRunning", "none")
         \/ reply.kind = "odd" /\ Fail("ErrDaemonNotRunning", "none")
         \/ /\ reply.kind \in {"odd", "unreachable"}
            /\ \E type \in {"other", "ErrPullFailed", "ErrArchiveInfra"} : Fail(type, "none")
  PROVE  SourceInv'
<1>1. Excused'
  BY Noticed DEF Excused
<1>2. CASE Fail("other", "canceled") /\ canceled
  BY <1>1, <1>2, Failing
<1>3. CASE reply.kind \in {"odd", "unreachable"} /\ Fail("ErrDaemonNotRunning", "none")
  BY <1>1, <1>3, Failing, Noticed
<1>4. ASSUME reply.kind \in {"odd", "unreachable"},
             NEW type \in {"other", "ErrPullFailed", "ErrArchiveInfra"}, Fail(type, "none")
      PROVE  SourceInv'
  BY <1>1, <1>4, Failing, Noticed
<1> QED
  BY <1>2, <1>3, <1>4

\* Inspecting an image by its ID.
LEMMA InspectsID ==
  ASSUME SourceInv, InspectID, view' = view
  PROVE  SourceInv'
<1>1. /\ pc = "inspect" /\ run.ref = "digest" /\ run' = run /\ native' = native /\ local' = local
      /\ endpoint' = endpoint /\ canceled' = canceled /\ archive' = archive
  BY DEF InspectID, engine
<1>2. PICK reply \in Inspect(pin) :
          /\ Notice(reply)
          /\ IF reply.kind = "found" THEN Goto("scope")
             ELSE IF reply.kind = "canceled" THEN Fail("other", "canceled")
             ELSE IF reply.kind = "notFound" THEN Fail("ErrImageNotFound", "none")
             ELSE IF reply.kind = "unreachable" THEN Fail("ErrDaemonNotRunning", "none")
             ELSE Fail("other", "none")
  BY DEF InspectID
<1>3. \/ reply.kind = "canceled" /\ canceled
      \/ reply.kind = "unreachable" \/ reply.kind = "odd"
      \/ reply.kind = "notFound" /\ Matching(local, pin) = {}
      \/ reply.kind = "found"
  BY Inspected
<1>4. CASE reply.kind = "found"
  <2>1. pc' = "scope" /\ error' = NoError /\ CausesTold' /\ ~Served'
    BY <1>1, <1>2, <1>4, Going
  <2>2. FlowInv' /\ EngineInv' /\ ExportInv'
    BY <1>1, <2>1, SameScenario DEF SourceInv, FlowInv, EngineInv, ExportInv, OwnAsked
  <2>3. LocalInv' /\ PullInv' /\ ArchiveInv'
    BY <1>1, <1>2, <2>1, Kept, Noticed DEF SourceInv, LocalInv, PullInv, ArchiveInv
  <2> QED
    BY <2>1, <2>2, <2>3 DEF SourceInv
<1>5. CASE reply.kind = "notFound" /\ Matching(local, pin) = {}
  <2>1. local = run.local \/ "removed" \in seen
    BY <1>1 DEF SourceInv, LocalInv, Disturbed
  <2>2. NotThere'
    BY <1>1, <1>2, <1>5, <2>1, Noticed, SameScenario DEF NotThere, Matching
  <2>3. Excused'
    BY <1>1 DEF Excused
  <2> QED
    BY <1>1, <1>2, <1>5, <2>2, <2>3, Failing
<1>6. CASE reply.kind \in {"canceled", "unreachable", "odd"}
  BY <1>1, <1>2, <1>3, <1>6, Away
<1> QED
  BY <1>3, <1>4, <1>5, <1>6

\* Inspecting the image of the platform that was pinned.
LEMMA InspectsPinned ==
  ASSUME SourceInv, InspectPinned, view' = view
  PROVE  SourceInv'
<1>1. /\ pc = "inspect" /\ run.ref = "tag" /\ Pinned /\ run' = run /\ native' = native /\ local' = local
      /\ endpoint' = endpoint /\ canceled' = canceled /\ archive' = archive
  BY DEF InspectPinned, engine
<1>2. PICK reply \in Inspect(pin) :
          /\ Notice(reply)
          /\ IF reply.kind = "found" /\ ~Vague(reply.platform)
                /\ PlatformsEqual(pin, <<reply.platform>>)
             THEN Goto("scope")
             ELSE IF reply.kind = "canceled" THEN Fail("other", "canceled")
             ELSE IF reply.kind = "unreachable" THEN Fail("ErrDaemonNotRunning", "none")
             ELSE Goto("pull")
  BY DEF InspectPinned
<1>3. \/ reply.kind = "canceled" /\ canceled
      \/ reply.kind = "unreachable" \/ reply.kind = "odd"
      \/ reply.kind = "notFound" /\ Matching(local, pin) = {}
      \/ reply.kind = "found" /\ \E v \in Matching(local, pin) : reply.platform = v.platform
  BY Inspected
<1>4. ASSUME NEW step \in {"scope", "pull"}, Goto(step), step = "pull" => PullInv'
      PROVE  SourceInv'
  <2>1. pc' = step /\ error' = NoError /\ CausesTold' /\ ~Served'
    BY <1>1, <1>4, Going
  <2>2. FlowInv' /\ EngineInv' /\ ExportInv'
    BY <1>1, <1>4, <2>1, SameScenario DEF SourceInv, FlowInv, EngineInv, ExportInv, OwnAsked
  <2>3. LocalInv' /\ PullInv' /\ ArchiveInv'
    BY <1>1, <1>2, <1>4, <2>1, Kept, Noticed DEF SourceInv, LocalInv, PullInv, ArchiveInv
  <2> QED
    BY <2>1, <2>2, <2>3 DEF SourceInv
<1>5. CASE Goto("pull") /\ reply.kind \in {"odd", "notFound", "found"}
           /\ (reply.kind = "found" => Vague(reply.platform) \/ ~PlatformsEqual(pin, <<reply.platform>>))
  <2>1. local = run.local \/ Disturbed
    BY <1>1 DEF SourceInv, LocalInv
  <2>2. Asked = pin
    BY <1>1 DEF Asked
  <2>3. reply.kind = "odd" \/ Disturbed \/ Unfit
    BY <1>1, <1>3, <1>5, <2>1, <2>2 DEF Unfit, Matching
  <2>4. PullInv'
    BY <1>1, <1>2, <2>3, SameNative, Noticed, Kept DEF PullInv
  <2> QED
    BY <1>4, <1>5, <2>4
<1>6. CASE Goto("scope")
  BY <1>4, <1>6
<1>7. CASE reply.kind \in {"canceled", "unreachable"}
  BY <1>1, <1>2, <1>3, <1>7, Away
<1> QED
  BY <1>2, <1>3, <1>5, <1>6, <1>7

\* Asking the engine for its native platform.
LEMMA Informs ==
  ASSUME SourceInv, Info, view' = view
  PROVE  SourceInv'
<1>1. /\ pc = "info" /\ run.ref = "tag" /\ ~Pinned /\ run' = run /\ local' = local
      /\ endpoint' = endpoint /\ archive' = archive /\ Goto("list")
      /\ native' \in {<<>>, <<NativePlatform>>}
      /\ seen' = seen \cup (IF native' = <<>> THEN {"noInfo"} ELSE {})
  BY DEF Info, engine, daemonPlatform, SourceInv, FlowInv
<1>2. pc' = "list" /\ error' = NoError /\ CausesTold' /\ ~Served'
  BY <1>1, Going
<1>3. FlowInv' /\ EngineInv' /\ ExportInv'
  BY <1>1, <1>2, SameScenario DEF SourceInv, FlowInv, EngineInv, ExportInv
<1>4. LocalInv' /\ PullInv' /\ ArchiveInv'
  BY <1>1, <1>2, Kept DEF SourceInv, LocalInv, PullInv, ArchiveInv
<1> QED
  BY <1>2, <1>3, <1>4 DEF SourceInv

\* Listing the images of the engine.
LEMMA Lists ==
  ASSUME SourceInv, List, view' = view
  PROVE  SourceInv'
<1>1. /\ pc = "list" /\ run.ref = "tag" /\ ~Pinned /\ run' = run /\ native' = native /\ local' = local
      /\ endpoint' = endpoint /\ canceled' = canceled /\ archive' = archive
  BY DEF List, engine, SourceInv, FlowInv
<1>2. PICK reply \in Replies({IF local = {} THEN NotFound ELSE [kind |-> "found"]}) :
          /\ Notice(reply)
          /\ IF reply.kind = "found" THEN Goto(IF native = <<>> THEN "scope" ELSE "inspectLocal")
             ELSE IF reply.kind = "notFound" THEN Goto("pull")
             ELSE IF reply.kind = "canceled" THEN Fail("other", "canceled")
             ELSE Fail("ErrDaemonNotRunning", "none")
  BY DEF List
<1>3. \/ reply.kind = "canceled" /\ canceled
      \/ reply.kind = "unreachable" \/ reply.kind = "odd"
      \/ reply.kind = "notFound" /\ local = {}
      \/ reply.kind = "found"
  BY Replied, Kinds
<1>4. ASSUME NEW step \in {"scope", "inspectLocal", "pull"}, Goto(step), step = "pull" => PullInv',
             step = "scope" => native = <<>>, step = "inspectLocal" => native # <<>>
      PROVE  SourceInv'
  <2>1. pc' = step /\ error' = NoError /\ CausesTold' /\ ~Served'
    BY <1>1, <1>4, Going
  <2>2. FlowInv' /\ EngineInv'
    BY <1>1, <1>2, <1>4, <2>1, SameScenario, Noticed DEF SourceInv, FlowInv, EngineInv
  <2>3. step = "scope" => "noInfo" \in seen
    BY <1>1, <1>4 DEF SourceInv, EngineInv
  <2>4. ExportInv'
    BY <1>1, <1>2, <1>4, <2>1, <2>3, Noticed DEF ExportInv, OwnAsked
  <2>5. LocalInv' /\ PullInv' /\ ArchiveInv'
    BY <1>1, <1>2, <1>4, <2>1, Noticed, Kept DEF SourceInv, LocalInv, PullInv, ArchiveInv
  <2> QED
    BY <2>1, <2>2, <2>4, <2>5 DEF SourceInv
<1>5. CASE reply.kind = "notFound" /\ local = {} /\ Goto("pull")
  <2>1. run.local = {} \/ Disturbed
    BY <1>1, <1>5 DEF SourceInv, LocalInv
  <2>2. Disturbed \/ Unfit
    BY <2>1 DEF Unfit, Matching
  <2>3. PullInv'
    BY <1>1, <1>2, <2>2, SameNative, Noticed, Kept DEF PullInv
  <2> QED
    BY <1>4, <1>5, <2>3
<1>6. CASE reply.kind = "found"
  BY <1>2, <1>4, <1>6
<1>7. CASE reply.kind \in {"canceled", "unreachable", "odd"}
  BY <1>1, <1>2, <1>3, <1>7, Away
<1> QED
  BY <1>2, <1>3, <1>5, <1>6, <1>7

\* Inspecting what the engine holds.
LEMMA InspectsLocal ==
  ASSUME SourceInv, InspectLocal, view' = view
  PROVE  SourceInv'
<1>1. /\ pc = "inspectLocal" /\ run.ref = "tag" /\ ~Pinned /\ run' = run /\ native' = native
      /\ local' = local /\ endpoint' = endpoint /\ canceled' = canceled /\ archive' = archive
      /\ native = <<NativePlatform>>
  BY DEF InspectLocal, engine, SourceInv, FlowInv, EngineInv
<1>2. PICK reply \in Inspect(<<>>) :
          /\ Notice(reply)
          /\ IF reply.kind = "found" /\ PlatformsEqual(native, <<reply.platform>>) THEN Goto("scope")
             ELSE IF reply.kind \in {"found", "notFound"} THEN Goto("pull")
             ELSE IF reply.kind = "canceled" THEN Fail("other", "canceled")
             ELSE IF reply.kind = "unreachable" THEN Fail("ErrDaemonNotRunning", "none")
             ELSE Fail("other", "none")
  BY DEF InspectLocal
<1>3. \/ reply.kind = "canceled" /\ canceled
      \/ reply.kind = "unreachable" \/ reply.kind = "odd"
      \/ reply.kind = "notFound" /\ Matching(local, <<>>) = {}
      \/ /\ reply.kind = "found"
         /\ \E v \in Matching(local, <<>>) :
               /\ reply.platform = v.platform
               /\ Matching(local, <<NativePlatform>>) # {} => IsOwn(v)
  BY Inspected
<1>4. ASSUME NEW step \in {"scope", "pull"}, Goto(step), step = "pull" => PullInv',
             step = "scope" /\ ~run.several => \A v \in local : IsOwn(v)
      PROVE  SourceInv'
  <2>1. pc' = step /\ error' = NoError /\ CausesTold' /\ ~Served'
    BY <1>1, <1>4, Going
  <2>2. FlowInv' /\ EngineInv' /\ ExportInv'
    BY <1>1, <1>4, <2>1, SameScenario DEF SourceInv, FlowInv, EngineInv, ExportInv, OneLooked
  <2>3. LocalInv' /\ PullInv' /\ ArchiveInv'
    BY <1>1, <1>2, <1>4, <2>1, Kept, Noticed DEF SourceInv, LocalInv, PullInv, ArchiveInv
  <2> QED
    BY <2>1, <2>2, <2>3 DEF SourceInv
<1>5. CASE reply.kind = "found" /\ PlatformsEqual(native, <<reply.platform>>) /\ Goto("scope")
  <2>1. PICK v \in local : reply.platform = v.platform
    BY <1>3, <1>5 DEF Matching
  <2>2. IsOwn(v)
    BY <1>1, <1>5, <2>1 DEF IsOwn
  <2>3. ~run.several => \A w \in local : IsOwn(w)
    BY <1>1, <2>2 DEF SourceInv, LocalInv
  <2> QED
    BY <1>4, <1>5, <2>3
<1>6. CASE reply.kind \in {"found", "notFound"} /\ Goto("pull")
           /\ ~(reply.kind = "found" /\ PlatformsEqual(native, <<reply.platform>>))
  <2>1. local = run.local \/ Disturbed
    BY <1>1 DEF SourceInv, LocalInv
  <2>2. Asked = <<NativePlatform>>
    BY <1>1 DEF Asked
  <2>3. Matching(local, <<>>) = local
    BY NoWish DEF Matching
  <2>4. Matching(local, <<NativePlatform>>) = {}
    <3>1. CASE reply.kind = "notFound"
      BY <1>3, <2>3, <3>1 DEF Matching
    <3>2. CASE reply.kind = "found"
      BY <1>1, <1>3, <1>6, <3>2 DEF IsOwn
    <3> QED
      BY <1>6, <3>1, <3>2
  <2>5. Disturbed \/ Unfit
    BY <2>1, <2>2, <2>4 DEF Unfit
  <2>6. PullInv'
    BY <1>1, <1>2, <2>5, SameNative, Noticed, Kept DEF PullInv
  <2> QED
    BY <1>4, <1>6, <2>6
<1>7. CASE reply.kind \in {"canceled", "unreachable", "odd"}
  BY <1>1, <1>2, <1>3, <1>7, Away
<1> QED
  BY <1>2, <1>3, <1>5, <1>6, <1>7

\* A pull that fails: what the registry says is true, and what the engine had
\* could not be used.
LEMMA PullFails ==
  ASSUME SourceInv, pc \in {"pull", "stream"}, run' = run, view' = view, native' = native,
         endpoint' = endpoint, canceled' = canceled, local' = local, archive' = archive,
         NEW reply, Notice(reply), PullFailed(reply.kind),
         \/ reply.kind = "canceled" /\ canceled
         \/ reply.kind \in {"unreachable", "odd"}
         \/ reply.kind = "manifestUnknown" /\ Registered = {}
         \/ reply.kind = "noMatchingManifest" /\ Missing
  PROVE  SourceInv'
<1>1. run.ref = "tag" /\ pc # "done"
  BY DEF SourceInv, FlowInv
<1>2. "odd" \in seen \/ Disturbed \/ Unfit
  BY DEF SourceInv, PullInv
<1>3. ASSUME Missing PROVE Excused' /\ Missing'
  BY <1>2, <1>3, SameNative, Noticed DEF Excused, Disturbed
<1>4. ASSUME Registered = {} PROVE Missing
  BY <1>4 DEF Missing, Matching
<1>5. CASE reply.kind = "canceled" /\ canceled
  BY <1>1, <1>5, Away DEF PullFailed
<1>6. CASE reply.kind \in {"unreachable", "odd"}
  <2>1. Fail("ErrPullFailed", "none")
    BY <1>6 DEF PullFailed, isPlatformPullFailure, isImageNotFoundMessage, Says
  <2> QED
    BY <1>1, <1>6, <2>1, Away
<1>7. CASE reply.kind = "noMatchingManifest" /\ Missing
  <2>1. \/ Pinned /\ Fail("ErrPlatformNotInImage", "none")
        \/ ~Pinned /\ Fail("ErrPullFailed", "none")
    BY <1>7 DEF PullFailed, isPlatformPullFailure, Says, classifyPlatformMissing
  <2>2. CASE Pinned /\ Fail("ErrPlatformNotInImage", "none")
    BY <1>1, <1>3, <1>7, <2>2, Failing, SameScenario
  <2>3. CASE ~Pinned /\ Fail("ErrPullFailed", "none")
    BY <1>1, <1>3, <1>7, <2>3, Failing, SameScenario
  <2> QED
    BY <2>1, <2>2, <2>3
<1>8. CASE reply.kind = "manifestUnknown" /\ Registered = {}
  <2>1. \/ Pinned /\ Goto("probe")
        \/ ~Pinned /\ Fail("ErrImageNotFound", "none")
    BY <1>8 DEF PullFailed, isPlatformPullFailure, isImageNotFoundMessage, Says, classifyPullNotFound
  <2>2. CASE ~Pinned /\ Fail("ErrImageNotFound", "none")
    <3>1. NotThere'
      BY <1>1, <1>8, SameScenario DEF NotThere
    <3> QED
      BY <1>1, <1>3, <1>4, <1>8, <2>2, <3>1, Failing
  <2>3. CASE Pinned /\ Goto("probe")
    <3>1. pc' = "probe" /\ error' = NoError /\ CausesTold' /\ ~Served'
      BY <1>1, <2>3, Going
    <3>2. FlowInv' /\ EngineInv' /\ ExportInv'
      BY <1>1, <1>8, <2>3, <3>1, SameScenario DEF SourceInv, FlowInv, EngineInv, ExportInv
    <3>3. PullInv'
      BY <1>2, <3>1, SameNative, Noticed, Kept DEF PullInv
    <3>4. LocalInv' /\ ArchiveInv'
      BY <1>1, <3>1, Noticed, Kept DEF SourceInv, LocalInv, ArchiveInv
    <3> QED
      BY <3>1, <3>2, <3>3, <3>4 DEF SourceInv
  <2> QED
    BY <2>1, <2>2, <2>3
<1> QED
  BY <1>5, <1>6, <1>7, <1>8

\* What the registry refuses it does not have.
LEMMA Refused ==
  ASSUME NEW reply \in Refusals
  PROVE  \/ reply.kind = "manifestUnknown" /\ Registered = {}
         \/ reply.kind = "noMatchingManifest" /\ Missing
  BY DEF Refusals, Missing

\* Asking for a pull.
LEMMA Pulls ==
  ASSUME SourceInv, Pull, view' = view
  PROVE  SourceInv'
<1>1. /\ pc = "pull" /\ run.ref = "tag" /\ run' = run /\ native' = native /\ local' = local
      /\ endpoint' = endpoint /\ canceled' = canceled /\ archive' = archive
  BY DEF Pull, engine, SourceInv, FlowInv
<1>2. PICK reply \in Replies({[kind |-> "stream"]} \cup Refusals) :
          /\ Notice(reply)
          /\ IF reply.kind = "stream" THEN Goto("stream") ELSE PullFailed(reply.kind)
  BY DEF Pull
<1>3. \/ reply.kind = "canceled" /\ canceled
      \/ reply.kind \in {"unreachable", "odd"}
      \/ reply.kind = "manifestUnknown" /\ Registered = {}
      \/ reply.kind = "noMatchingManifest" /\ Missing
      \/ reply.kind = "stream"
  BY Replied, Kinds, Refused
<1>4. CASE reply.kind = "stream"
  <2>1. pc' = "stream" /\ error' = NoError /\ CausesTold' /\ ~Served'
    BY <1>1, <1>2, <1>4, Going
  <2>2. FlowInv' /\ EngineInv' /\ ExportInv'
    BY <1>1, <1>2, <2>1, SameScenario, Noticed DEF SourceInv, FlowInv, EngineInv, ExportInv
  <2>3. PullInv'
    BY <1>1, <1>2, <2>1, SameNative, Noticed, Kept DEF SourceInv, PullInv
  <2>4. LocalInv' /\ ArchiveInv'
    BY <1>1, <1>2, <2>1, Noticed, Kept DEF SourceInv, LocalInv, ArchiveInv
  <2> QED
    BY <2>1, <2>2, <2>3, <2>4 DEF SourceInv
<1>5. CASE reply.kind # "stream"
  BY <1>1, <1>2, <1>3, <1>5, PullFails
<1> QED
  BY <1>4, <1>5

\* Reading the stream of a pull.
LEMMA Streams ==
  ASSUME SourceInv, Stream, view' = view
  PROVE  SourceInv'
<1>1. /\ pc = "stream" /\ run.ref = "tag" /\ run' = run /\ native' = native
      /\ endpoint' = endpoint /\ canceled' = canceled /\ archive' = archive
  BY DEF Stream, engine, SourceInv, FlowInv
<1>2. PICK reply \in Replies(IF Refusals # {} THEN Refusals ELSE {[kind |-> "complete"]}) :
          /\ Notice(reply)
          /\ IF reply.kind = "complete"
             THEN /\ Goto("scope")
                  /\ \E v \in Matching(Registered, Asked) :
                        local' = {w \in local : run.several /\ w.platform # v.platform} \cup {v}
             ELSE PullFailed(reply.kind) /\ UNCHANGED local
  BY DEF Stream
<1>3. \/ reply.kind = "canceled" /\ canceled
      \/ reply.kind \in {"unreachable", "odd"}
      \/ reply.kind = "manifestUnknown" /\ Registered = {}
      \/ reply.kind = "noMatchingManifest" /\ Missing
      \/ reply.kind = "complete"
  BY Replied, Kinds, Refused
<1>4. CASE reply.kind = "complete"
  <2>1. pc' = "scope" /\ error' = NoError /\ CausesTold' /\ ~Served'
    BY <1>1, <1>2, <1>4, Going
  <2>2. FlowInv' /\ EngineInv'
    BY <1>1, <1>2, <2>1, SameScenario, Noticed DEF SourceInv, FlowInv, EngineInv
  <2>3. PICK v \in Matching(Registered, Asked) :
            local' = {w \in local : run.several /\ w.platform # v.platform} \cup {v}
    BY <1>2, <1>4
  <2>4. v \in run.registered /\ PlatformsEqual(Asked, <<v.platform>>)
    BY <2>3 DEF Matching, Registered
  <2>5. LocalInv'
    <3>1. local \subseteq Variants' /\ v \in Variants'
      BY <1>1, <1>2, <2>4, Noticed, Kept DEF SourceInv, LocalInv, Variants
    <3> QED
      BY <1>1, <2>1, <2>3, <3>1 DEF LocalInv
  <2>6. ASSUME OwnAsked, ~run.several PROVE \A w \in local' : IsOwn(w)
    <3>1. Asked = <<NativePlatform>>
      BY <1>1, <2>6 DEF SourceInv, EngineInv, OwnAsked, Asked
    <3> QED
      BY <2>3, <2>4, <2>6, <3>1 DEF IsOwn
  <2>7. OwnAsked' => OwnAsked
    BY <1>1, <1>2, SameScenario, Noticed DEF OwnAsked
  <2>8. ExportInv'
    BY <1>1, <2>1, <2>6, <2>7, SameScenario DEF ExportInv, OneLooked
  <2>9. PullInv' /\ ArchiveInv'
    BY <2>1 DEF PullInv, ArchiveInv
  <2> QED
    BY <2>1, <2>2, <2>5, <2>8, <2>9 DEF SourceInv
<1>5. CASE reply.kind # "complete"
  BY <1>1, <1>2, <1>3, <1>5, PullFails
<1> QED
  BY <1>4, <1>5

\* Probing the image that is there after a pull.
LEMMA Probes ==
  ASSUME SourceInv, ProbeImage, view' = view
  PROVE  SourceInv'
<1>1. /\ pc = "probe" /\ run.ref = "tag" /\ run' = run /\ native' = native /\ local' = local
      /\ endpoint' = endpoint /\ canceled' = canceled /\ archive' = archive
      /\ Pinned /\ Registered = {}
  BY DEF ProbeImage, engine, SourceInv, FlowInv
<1>2. PICK reply \in Inspect(<<>>) :
          /\ Notice(reply)
          /\ IF reply.kind = "found" THEN classifyPlatformMissing
             ELSE IF reply.kind = "unreachable" THEN Fail("ErrDaemonNotRunning", "none")
             ELSE Fail("ErrImageNotFound", "none")
  BY DEF ProbeImage
<1>3. Missing
  BY <1>1 DEF Missing, Matching
<1>4. Missing' /\ Excused'
  BY <1>1, <1>2, <1>3, SameNative, Noticed DEF Excused, SourceInv, PullInv, Disturbed
<1>5. NotThere'
  BY <1>1, SameScenario DEF NotThere
<1>6. \/ Fail("ErrPlatformNotInImage", "none")
      \/ reply.kind = "unreachable" /\ Fail("ErrDaemonNotRunning", "none")
      \/ Fail("ErrImageNotFound", "none")
  BY <1>1, <1>2 DEF classifyPlatformMissing
<1>7. CASE Fail("ErrPlatformNotInImage", "none")
  BY <1>1, <1>4, <1>7, Failing, SameScenario
<1>8. CASE reply.kind = "unreachable" /\ Fail("ErrDaemonNotRunning", "none")
  BY <1>1, <1>2, <1>4, <1>8, Failing, Noticed
<1>9. CASE Fail("ErrImageNotFound", "none")
  BY <1>1, <1>4, <1>5, <1>9, Failing
<1> QED
  BY <1>6, <1>7, <1>8, <1>9

\* Choosing the manifest of the platform.
LEMMA Scopes ==
  ASSUME SourceInv, Scope, view' = view
  PROVE  SourceInv'
<1>1. /\ pc = "scope" /\ run.ref # "path" /\ run' = run /\ native' = native /\ local' = local
      /\ endpoint' = endpoint /\ archive' = archive /\ Goto("save")
  BY DEF Scope, engine, SourceInv, FlowInv
<1>2. PICK opts \in imageSaveOpts :
          /\ scope' = opts.platform
          /\ seen' = seen \cup (IF opts.told THEN {} ELSE {"noInfo"})
  BY DEF Scope
<1>3. pc' = "save" /\ error' = NoError /\ CausesTold' /\ ~Served'
  BY <1>1, Going
<1>4. FlowInv' /\ EngineInv'
  BY <1>1, <1>2, <1>3, SameScenario DEF SourceInv, FlowInv, EngineInv
<1>5. Pinned => scope' = pin
  BY <1>2 DEF imageSaveOpts
<1>6. ASSUME OwnAsked', run.api >= 48 PROVE scope' = <<NativePlatform>>
  <2>1. run.ref = "tag" /\ ~Pinned /\ opts.told
    BY <1>1, <1>2, <1>6, SameScenario DEF OwnAsked
  <2>2. PICK p \in daemonPlatform :
            opts = [platform |-> IF run.api < 48 THEN <<>> ELSE p, told |-> p # <<>>]
    BY <2>1 DEF imageSaveOpts
  <2>3. p = <<NativePlatform>>
    BY <2>1, <2>2 DEF daemonPlatform
  <2>4. ~(run.api < 48)
    BY <1>6 DEF SourceInv, FlowInv, IsScenario
  <2> QED
    BY <1>2, <2>2, <2>3, <2>4
<1>7. (OwnAsked' => OwnAsked) /\ (OneLooked' => OneLooked) /\ seen \subseteq seen'
  BY <1>1, <1>2, SameScenario DEF OwnAsked, OneLooked
<1>8. ExportInv'
  BY <1>1, <1>3, <1>5, <1>6, <1>7, SameScenario DEF ExportInv, SourceInv
<1>9. LocalInv' /\ PullInv' /\ ArchiveInv'
  BY <1>1, <1>3, <1>7, Kept DEF SourceInv, LocalInv, PullInv, ArchiveInv
<1> QED
  BY <1>3, <1>4, <1>8, <1>9 DEF SourceInv

\* Asking for the export.
LEMMA Saves ==
  ASSUME SourceInv, Save, view' = view
  PROVE  SourceInv'
<1>1. /\ pc = "save" /\ run.ref # "path" /\ run' = run /\ native' = native /\ local' = local
      /\ endpoint' = endpoint /\ canceled' = canceled
  BY DEF Save, engine, SourceInv, FlowInv
<1>2. PICK reply \in ImageSave(scope) :
          /\ Notice(reply)
          /\ IF reply.kind = "archive" THEN archive' = <<reply.of>> /\ Goto("spool")
             ELSE /\ UNCHANGED archive
                  /\ Fail("other", IF reply.kind = "canceled" THEN "canceled" ELSE "none")
  BY DEF Save
<1>3. \/ reply.kind = "canceled" /\ canceled
      \/ reply.kind \in {"unreachable", "odd"}
      \/ \E v \in Matching(local, scope) : reply = [kind |-> "archive", of |-> v.archive]
  BY Replied, Kinds DEF ImageSave
<1>4. CASE \E v \in Matching(local, scope) : reply = [kind |-> "archive", of |-> v.archive]
  <2>1. PICK v \in Matching(local, scope) : reply = [kind |-> "archive", of |-> v.archive]
    BY <1>4
  <2>2. archive' = <<v.archive>> /\ Goto("spool")
    BY <1>2, <2>1
  <2>3. pc' = "spool" /\ error' = NoError /\ CausesTold' /\ ~Served'
    BY <1>1, <2>2, Going
  <2>4. v \in local /\ PlatformsEqual(scope, <<v.platform>>)
    BY <2>1 DEF Matching
  <2>5. v \in Variants /\ local \subseteq Variants'
    BY <1>1, <1>2, <2>4, Noticed, Kept DEF SourceInv, LocalInv
  <2>6. PlatformsEqual(pin, <<v.platform>>)
    BY <1>1, <2>4, NoWish DEF SourceInv, ExportInv
  <2>7. (OwnAsked' => OwnAsked) /\ (OneLooked' => OneLooked)
    BY <1>1, <1>2, SameScenario, Noticed DEF OwnAsked, OneLooked
  <2>8. OwnAsked /\ (run.api >= 48 \/ OneLooked) => IsOwn(v)
    BY <1>1, <2>4 DEF SourceInv, ExportInv, IsOwn
  <2>9. Fitting'
    BY <1>1, <2>2, <2>4, <2>5, <2>6, <2>7, <2>8, SameScenario DEF Fitting
  <2>10. FlowInv' /\ EngineInv'
    BY <1>1, <2>3, SameScenario DEF SourceInv, FlowInv, EngineInv
  <2>11. LocalInv' /\ PullInv' /\ ExportInv' /\ ArchiveInv'
    BY <1>1, <2>3, <2>5, <2>9 DEF SourceInv, LocalInv, PullInv, ExportInv, ArchiveInv
  <2> QED
    BY <2>3, <2>10, <2>11 DEF SourceInv
<1>5. CASE reply.kind \in {"canceled", "unreachable", "odd"}
  BY <1>1, <1>2, <1>3, <1>5, Away
<1> QED
  BY <1>3, <1>4, <1>5

\* Spooling the export to disk.
LEMMA Spools ==
  ASSUME SourceInv, Spool, view' = view
  PROVE  SourceInv'
<1>1. /\ pc = "spool" /\ run.ref # "path" /\ run' = run /\ native' = native /\ local' = local
      /\ endpoint' = endpoint /\ canceled' = canceled /\ archive' = archive
  BY DEF Spool, engine, SourceInv, FlowInv
<1>2. PICK reply \in Replies({[kind |-> "whole"]}) :
          /\ Notice(reply)
          /\ IF reply.kind = "whole" THEN Goto("parse")
             ELSE IF reply.kind = "canceled" THEN Fail("other", "canceled")
             ELSE Fail("ErrArchiveInfra", "none")
  BY DEF Spool
<1>3. \/ reply.kind = "canceled" /\ canceled
      \/ reply.kind \in {"unreachable", "odd"}
      \/ reply.kind = "whole"
  BY Replied, Kinds
<1>4. CASE reply.kind = "whole"
  <2>1. pc' = "parse" /\ error' = NoError /\ CausesTold' /\ ~Served'
    BY <1>1, <1>2, <1>4, Going
  <2>2. FlowInv' /\ EngineInv'
    BY <1>1, <2>1, SameScenario DEF SourceInv, FlowInv, EngineInv
  <2>3. /\ (OwnAsked' => OwnAsked) /\ (OneLooked' => OneLooked)
        /\ Variants \subseteq Variants'
    BY <1>1, <1>2, SameScenario, Noticed, Kept DEF OwnAsked, OneLooked
  <2>4. Fitting
    BY <1>1 DEF SourceInv, ArchiveInv
  <2>5. Fitting'
    BY <1>1, <2>3, <2>4, SameScenario DEF Fitting
  <2>6. LocalInv' /\ PullInv' /\ ExportInv' /\ ArchiveInv'
    BY <1>1, <2>1, <2>3, <2>5 DEF SourceInv, LocalInv, PullInv, ExportInv, ArchiveInv
  <2> QED
    BY <2>1, <2>2, <2>6 DEF SourceInv
<1>5. CASE reply.kind \in {"canceled", "unreachable", "odd"}
  BY <1>1, <1>2, <1>3, <1>5, Away
<1> QED
  BY <1>3, <1>4, <1>5

\* Parsing what was spooled.
LEMMA ParsesIt ==
  ASSUME SourceInv, Parse, view' = view
  PROVE  SourceInv'
<1> DEFINE type == IF run.ref = "path" THEN "ErrInvalidArchive" ELSE "other"
<1>1. /\ pc = "parse" /\ run' = run /\ native' = native /\ local' = local
      /\ endpoint' = endpoint /\ canceled' = canceled /\ archive' = archive /\ seen' = seen
  BY DEF Parse, engine
<1>2. Fitting
  BY <1>1 DEF SourceInv, ArchiveInv
<1>3. \/ canceled /\ Fail(type, "canceled")
      \/ ~Parses(archive[1]) /\ Fail(type, "none")
      \/ Parses(archive[1]) /\ Goto("done")
  BY DEF Parse, Parses
<1>4. CASE canceled /\ Fail(type, "canceled")
  <2>1. Excused'
    BY <1>1, <1>4 DEF Excused
  <2> QED
    BY <1>1, <1>4, <2>1, Failing
<1>5. CASE ~Parses(archive[1]) /\ Fail(type, "none")
  <2>1. ASSUME run.ref # "path" PROVE ~run.sound \/ "moved" \in seen
    <3>1. PICK v \in Variants : archive = <<v.archive>>
      BY <1>2, <2>1 DEF Fitting
    <3>2. run.sound => Parses(v.archive) \/ "moved" \in seen
      BY Truthful DEF SourceInv, FlowInv
    <3> QED
      BY <1>5, <3>1, <3>2
  <2>2. Excused'
    BY <1>1, <2>1 DEF Excused
  <2> QED
    BY <1>1, <1>5, <2>2, Failing
<1>6. CASE Parses(archive[1]) /\ Goto("done")
  <2>1. pc' = "done" /\ error' = error /\ error = NoError
    BY <1>1, <1>6 DEF Goto, SourceInv, FlowInv
  <2>2. CausesTold'
    BY <2>1, CausesAre
  <2>3. FlowInv' /\ EngineInv'
    BY <1>1, <2>1, SameScenario DEF SourceInv, FlowInv, EngineInv
  <2>4. Fitting'
    BY <1>1, <1>2, SameScenario DEF Fitting, OwnAsked, OneLooked, Variants
  <2>5. Parses(archive[1])'
    BY <1>1, <1>6
  <2>6. LocalInv' /\ PullInv' /\ ExportInv' /\ ArchiveInv'
    BY <2>1, <2>4, <2>5 DEF LocalInv, PullInv, ExportInv, ArchiveInv
  <2> QED
    BY <2>2, <2>3, <2>6 DEF SourceInv
<1> QED
  BY <1>3, <1>4, <1>5, <1>6

-----------------------------------------------------------------------------
(* The world and the viewer.                                               *)

\* The same scenario, but for the file at its path.
SameButFile ==
  /\ run'.ref = run.ref /\ run'.platform = run.platform /\ run'.engine = run.engine
  /\ run'.setup = run.setup /\ run'.info = run.info /\ run'.api = run.api
  /\ run'.several = run.several /\ run'.local = run.local /\ run'.registered = run.registered
  /\ run'.registry = run.registry /\ run'.private = run.private /\ run'.logins = run.logins
  /\ run'.sound = run.sound
  /\ IsScenario(run')

\* Nothing is called and nothing told; the image may be removed, or its name
\* moved.
Quiet ==
  /\ SameButFile
  /\ UNCHANGED <<pc, endpoint, native, scope, archive, error>>
  /\ seen \subseteq seen' /\ seen' \subseteq seen \cup {"removed", "moved", "movedLate"}
  /\ "moved" \in seen' => "moved" \in seen \/ run.ref = "tag"
  /\ canceled => canceled'
  /\ pc # "done" =>
        \/ local' = local
        \/ local' = {} /\ "removed" \in seen'
        \/ /\ local' \subseteq UNION Elsewhere /\ "moved" \in seen' /\ run.ref = "tag"
           /\ ~run.several => \A v, w \in local' : v = w
           /\ pc \in {"scope", "save"} => "movedLate" \in seen'
  /\ view'.step # "none" => pc = "done"

\* What the run, the pin and the registry say is what it was.
LEMMA SameFacts ==
  ASSUME SameButFile, native' = native
  PROVE  /\ Pinned' = Pinned /\ pin' = pin /\ Registered' = Registered /\ NativePlatform' = NativePlatform
         /\ \A v : IsOwn(v)' <=> IsOwn(v)
         /\ Asked' = Asked /\ (Missing' <=> Missing) /\ (Unfit' <=> Unfit)
<1>1. Pinned' = Pinned /\ pin' = pin
  BY DEF SameButFile, Pinned, pin
<1>2. Registered' = Registered
  BY DEF SameButFile, Registered
<1>3. NativePlatform' = NativePlatform
  BY DEF SameButFile, NativePlatform
<1>4. Asked' = Asked
  BY <1>1 DEF Asked
<1>5. run'.local = run.local
  BY DEF SameButFile
<1>6. (Missing' <=> Missing) /\ (Unfit' <=> Unfit)
  BY <1>1, <1>2, <1>4, <1>5 DEF Missing, Unfit, Matching
<1> QED
  BY <1>1, <1>2, <1>3, <1>4, <1>6 DEF IsOwn

\* What leaves the resolver alone keeps the invariant.
LEMMA QuietKeeps ==
  ASSUME SourceInv, Quiet
  PROVE  SourceInv'
<1>1. /\ pc' = pc /\ endpoint' = endpoint /\ native' = native /\ scope' = scope
      /\ archive' = archive /\ error' = error /\ SameButFile
  BY DEF Quiet
<1>2. Served' <=> Served
  BY <1>1 DEF Served, Done
<1>3. (OwnAsked' <=> OwnAsked) /\ (OneLooked' => OneLooked)
      /\ Variants \subseteq Variants' /\ (Disturbed => Disturbed')
  BY <1>1, SameFacts DEF OwnAsked, OneLooked, Variants, Disturbed, SameButFile, Quiet
<1>4. FlowInv'
  BY <1>1, SameFacts DEF SourceInv, FlowInv, Quiet, SameButFile
<1>5. EngineInv'
  BY <1>1, SameFacts DEF SourceInv, EngineInv, Quiet, SameButFile
<1>6. LocalInv'
  <2>1. CASE local' = local
    BY <1>1, <1>3, <2>1 DEF SourceInv, LocalInv, SameButFile
  <2>2. CASE local' = {} /\ "removed" \in seen'
    BY <2>2 DEF LocalInv, Disturbed
  <2>3. CASE /\ local' \subseteq UNION Elsewhere /\ "moved" \in seen' /\ run.ref = "tag"
             /\ ~run.several => \A v, w \in local' : v = w
    BY <1>1, <2>3 DEF LocalInv, Disturbed, Variants, SameButFile
  <2>4. CASE pc = "done"
    BY <1>1, <2>4 DEF LocalInv
  <2> QED
    BY <2>1, <2>2, <2>3, <2>4 DEF Quiet
<1>7. ExportInv'
  <2>1. pc \in {"scope", "save"} /\ OwnAsked /\ OneLooked' => \A v \in local' : IsOwn(v)
    BY <1>3 DEF SourceInv, ExportInv, Quiet, OneLooked
  <2> QED
    BY <1>1, <1>3, <2>1, SameFacts DEF SourceInv, ExportInv, SameButFile
<1>8. PullInv'
  BY <1>1, <1>3, SameFacts DEF SourceInv, PullInv, Quiet
<1>9. ArchiveInv'
  <2>1. Fitting => Fitting'
    BY <1>1, <1>3, SameFacts DEF Fitting, SameButFile
  <2> QED
    BY <1>1, <1>2, <2>1 DEF SourceInv, ArchiveInv
<1>10. CausesTold'
  <2>1. friendlyCLIError' = friendlyCLIError
    BY <1>1 DEF friendlyCLIError
  <2>2. (Faulty' <=> Faulty) /\ (NotThere => NotThere')
    BY <1>1, SameFacts DEF Faulty, NotThere, Quiet, SameButFile, Matching
  <2>3. Excused => Excused'
    <3>1. (canceled => canceled') /\ (IsError(endpoint)' <=> IsError(endpoint))
          /\ (seen \cap {"unreachable", "odd", "removed", "moved"} # {} => (seen \cap {"unreachable", "odd", "removed", "moved"} # {})')
      BY <1>1 DEF Quiet
    <3> QED
      BY <1>1, <3>1, SameFacts DEF Excused, SameButFile
  <2>4. Because(friendlyCLIError) => Because(friendlyCLIError)'
    BY <1>1, <2>1, <2>2, <2>3, SameFacts DEF Because, Quiet, SameButFile
  <2> QED
    BY <1>1, <2>4, CausesAre DEF SourceInv
<1> QED
  BY <1>4, <1>5, <1>6, <1>7, <1>8, <1>9, <1>10 DEF SourceInv

\* The engine and the user leave the resolver alone.
LEMMA WorldIsQuiet ==
  ASSUME SourceInv, view' = view, Cancel \/ Turn \/ RemoveImage \/ MoveTag
  PROVE  Quiet
<1>1. run' = run /\ IsScenario(run) /\ (view.step # "none" => pc = "done")
  BY DEF Cancel, Turn, RemoveImage, MoveTag, still, SourceInv, FlowInv
<1>2. SameButFile
  BY <1>1 DEF SameButFile
<1>3. CASE Cancel \/ Turn \/ RemoveImage
  BY <1>1, <1>2, <1>3 DEF Quiet, Cancel, Turn, RemoveImage, still
<1>4. CASE MoveTag
  BY <1>1, <1>2, <1>4 DEF Quiet, MoveTag
<1> QED
  BY <1>3, <1>4

\* The viewer leaves the resolver alone.
LEMMA ViewIsQuiet ==
  ASSUME SourceInv, View
  PROVE  Quiet
<1>1. IsScenario(run) /\ (view.step # "none" => pc = "done")
  BY DEF SourceInv, FlowInv
<1>2. CASE UNCHANGED vars /\ pc = "done"
  BY <1>1, <1>2 DEF Quiet, SameButFile, vars
<1>3. CASE Request
  BY <1>2, <1>3 DEF Request, Served, Done
<1>4. CASE OpenAgain \/ ExportAgain \/ SpoolAgain \/ Walk
  BY <1>1, <1>2, <1>4 DEF OpenAgain, ExportAgain, SpoolAgain, Walk
<1>5. CASE Meanwhile
  <2>1. pc = "done"
    BY <1>1, <1>5 DEF Meanwhile
  <2>2. CASE Close
    BY <1>2, <2>1, <2>2 DEF Close
  <2>3. CASE UNCHANGED view /\ (Turn \/ RemoveImage \/ MoveTag)
    BY <2>3, WorldIsQuiet
  <2>4. CASE MoveFile
    <3>1. SameButFile
      <4>2. CASE \E file : IsArchive(file) /\ run' = [run EXCEPT !.file = file]
        <5>1. PICK file : IsArchive(file) /\ run' = [run EXCEPT !.file = file]
          BY <4>2
        <5>2. run'.file = file \/ run' = run
          BY <5>1
        <5> QED
          BY <1>1, <5>1, <5>2 DEF SameButFile, IsScenario
      <4>3. \A file \in {v.archive : v \in UNION Elsewhere} \cup {[run.file EXCEPT !.open = "missing"]} :
               IsArchive(file)
        <5>1. [run.file EXCEPT !.open = "missing"].entries = run.file.entries
          OBVIOUS
        <5> QED
          BY <1>1, <5>1, ElsewhereAssumption DEF IsScenario, IsVariant, IsArchive
      <4> QED
        BY <2>4, <4>2, <4>3 DEF MoveFile
    <3> QED
      BY <2>1, <2>4, <3>1 DEF Quiet, MoveFile
  <2> QED
    BY <1>5, <2>2, <2>3, <2>4 DEF Meanwhile
<1> QED
  BY <1>3, <1>4, <1>5 DEF View

-----------------------------------------------------------------------------
\* The first state satisfies the invariant.
LEMMA Starts ==
  ASSUME ViewInit
  PROVE  SourceInv
<1>1. /\ run \in Scenarios /\ pc = "select" /\ endpoint = Nowhere /\ native = <<>>
      /\ local = run.local /\ error = NoError /\ view.step = "none"
  BY DEF ViewInit, Init, NoView
<1>2. IsScenario(run)
  BY <1>1, SourceAssumption
<1>3. FlowInv /\ EngineInv
  BY <1>1, <1>2 DEF FlowInv, EngineInv
<1>4. LocalInv
  BY <1>1, <1>2 DEF LocalInv, Variants, IsScenario
<1>5. ExportInv /\ PullInv /\ ArchiveInv /\ CausesTold
  BY <1>1, CausesAre DEF ExportInv, PullInv, ArchiveInv, Served, Done
<1> QED
  BY <1>3, <1>4, <1>5 DEF SourceInv

\* Every step keeps the invariant.
LEMMA Steps ==
  ASSUME SourceInv, [ViewNext]_viewVars
  PROVE  SourceInv'
<1>1. CASE UNCHANGED viewVars
  <2>1. UNCHANGED vars /\ view' = view /\ IsScenario(run) /\ (view.step # "none" => pc = "done")
    BY <1>1 DEF viewVars, SourceInv, FlowInv
  <2>2. Quiet
    BY <2>1 DEF Quiet, SameButFile, vars
  <2> QED
    BY <2>2, QuietKeeps
<1>2. CASE Next /\ UNCHANGED view
  <2>1. CASE Select
    BY <1>2, <2>1, Selects
  <2>2. CASE Open
    BY <1>2, <2>2, Opens
  <2>3. CASE InspectID
    BY <1>2, <2>3, InspectsID
  <2>4. CASE InspectPinned
    BY <1>2, <2>4, InspectsPinned
  <2>5. CASE Info
    BY <1>2, <2>5, Informs
  <2>6. CASE List
    BY <1>2, <2>6, Lists
  <2>7. CASE InspectLocal
    BY <1>2, <2>7, InspectsLocal
  <2>8. CASE Pull
    BY <1>2, <2>8, Pulls
  <2>9. CASE Stream
    BY <1>2, <2>9, Streams
  <2>10. CASE ProbeImage
    BY <1>2, <2>10, Probes
  <2>11. CASE Scope
    BY <1>2, <2>11, Scopes
  <2>12. CASE Save
    BY <1>2, <2>12, Saves
  <2>13. CASE Spool
    BY <1>2, <2>13, Spools
  <2>14. CASE Parse
    BY <1>2, <2>14, ParsesIt
  <2>15. CASE World
    BY <1>2, <2>15, WorldIsQuiet, QuietKeeps DEF World
  <2> QED
    BY <1>2, <2>1, <2>2, <2>3, <2>4, <2>5, <2>6, <2>7, <2>8, <2>9, <2>10, <2>11, <2>12, <2>13,
       <2>14, <2>15 DEF Next
<1>3. CASE View
  BY <1>3, ViewIsQuiet, QuietKeeps
<1> QED
  BY <1>1, <1>2, <1>3 DEF ViewNext

\* The invariant holds in every state.
LEMMA Invariant == ViewSpec => []SourceInv
<1>1. ViewInit => SourceInv
  BY Starts
<1>2. SourceInv /\ [ViewNext]_viewVars => SourceInv'
  BY Steps
<1> QED
  BY <1>1, <1>2, PTL DEF ViewSpec

-----------------------------------------------------------------------------
\* The error of a failed analysis is the cause of it, as classifyPullError,
\* the second inspect after a pull and mapDaemonError have it told: whatever
\* the engine, the registry and the user do between any two calls, nothing
\* that is there is said to be missing, no engine that answered is said to be
\* away, and a sound image of the platform that the engine had or could pull
\* is not refused.
THEOREM TellsTheCause == ViewSpec => []CausesTold
<1>1. SourceInv => CausesTold
  BY DEF SourceInv
<1> QED
  BY <1>1, Invariant, PTL

\* The image that is served is of the platform that was asked for, although
\* the name may be moved to any other image between two calls; a name without
\* one is served for the engine's own platform, by the limit of the export
\* (imageSaveOpts), or before API 1.48, when no limit can be set, because
\* ensureImageWithProgress has pulled what was of another and the name still
\* is what was looked at.
THEOREM ServesTheRightPlatform == ViewSpec => []ServesAsked
<1>1. ASSUME SourceInv PROVE ServesAsked
  <2>1. SUFFICES ASSUME Served
                 PROVE  /\ PlatformsEqual(pin, <<ConfigOf(archive[1]).platform>>)
                        /\ OwnAsked /\ (run.api >= 48 \/ OneLooked) =>
                              PlatformsEqual(<<NativePlatform>>, <<ConfigOf(archive[1]).platform>>)
    BY DEF ServesAsked, ConfigOf, OwnAsked, OneLooked
  <2>2. Fitting /\ Parses(archive[1])
    BY <1>1, <2>1 DEF SourceInv, ArchiveInv
  <2>3. CASE run.ref = "path"
    BY <2>2, <2>3 DEF Fitting, OwnAsked
  <2>4. ASSUME run.ref # "path", NEW v \in Variants,
               archive = <<v.archive>>, PlatformsEqual(pin, <<v.platform>>),
               OwnAsked /\ (run.api >= 48 \/ OneLooked) => IsOwn(v)
        PROVE  /\ PlatformsEqual(pin, <<ConfigOf(archive[1]).platform>>)
               /\ OwnAsked /\ (run.api >= 48 \/ OneLooked) =>
                     PlatformsEqual(<<NativePlatform>>, <<ConfigOf(archive[1]).platform>>)
    <3>1. archive[1] = v.archive
      BY <2>4
    <3>2. ConfigOf(archive[1]).platform = v.platform
      BY <1>1, <2>2, <3>1, Truthful DEF SourceInv, FlowInv
    <3> QED
      BY <2>4, <3>2 DEF IsOwn
  <2> QED
    BY <2>2, <2>3, <2>4 DEF Fitting
<1> QED
  BY <1>1, Invariant, PTL

\* What names an engine's endpoint wins over a socket that is merely there,
\* and a name that leads nowhere is an error (selectDockerLikeResolver), for
\* every environment, configuration and set of sockets.
THEOREM NamesWin == ViewSpec => []EndpointNamed
<1>1. ASSUME SourceInv PROVE EndpointNamed
  <2>1. IsSetup(run.setup)
    BY <1>1 DEF SourceInv, FlowInv, IsScenario, IsSetup
  <2>2. endpoint = Nowhere \/ endpoint = selectDockerLikeResolver(run.engine, run.setup)
    BY <1>1 DEF SourceInv, EngineInv
  <2>3. CASE endpoint = Nowhere
    BY Zenon, <2>3 DEF EndpointNamed
  <2>4. CASE endpoint = selectDockerLikeResolver(run.engine, run.setup)
    <3>1. /\ run.engine = "auto" /\ NamesDocker(run.setup) /\ ~Hostless(run.setup) => endpoint.engine = "docker"
          /\ run.engine \in {"docker", "podman"} => endpoint.engine = run.engine
          /\ endpoint.source = "socket" =>
                ~NamesPodman(run.setup) /\ (run.engine = "auto" => ~NamesDocker(run.setup) \/ Hostless(run.setup))
          /\ endpoint.source = "podman-connection:" /\ run.setup.CONTAINER_CONNECTION # Unset =>
                \E i \in DOMAIN run.setup.podmanFiles :
                    /\ run.setup.CONTAINER_CONNECTION \in DOMAIN run.setup.podmanFiles[i].conns
                    /\ endpoint.host = run.setup.podmanFiles[i].conns[run.setup.CONTAINER_CONNECTION]
      BY <2>1, <2>4, EndpointFacts
    <3> QED
      BY Zenon, <3>1 DEF EndpointNamed, NamesDocker, NamesPodman, Hostless
  <2> QED
    BY <2>2, <2>3, <2>4
<1> QED
  BY <1>1, Invariant, PTL

-----------------------------------------------------------------------------
(* The layers of an archive.                                               *)

\* The entries of a history that made a layer.
Made(config) == {k \in DOMAIN config.history : ~config.history[k].empty}

\* Commands folds the history: an entry that made a layer adds its command.
LEMMA CommandFold ==
  ASSUME NEW config, config.history \in Seq([by: STRING, empty: BOOLEAN])
  PROVE  \E g : /\ Commands(config) = g[1..Len(config.history)]
                /\ g[1..0] = <<>>
                /\ \A m \in 1..Len(config.history) :
                      LET before == g[1..(m - 1)]
                          entry == config.history[m]
                      IN  g[1..m] = IF entry.empty THEN before ELSE Append(before, entry.by)
                /\ \A m \in 0..Len(config.history) : g[1..m] \in Seq(STRING)
<1> DEFINE seq == config.history
           n == Len(seq)
           S == DOMAIN seq
<1>1. seq \in Seq([by: STRING, empty: BOOLEAN])
  OBVIOUS
<1> HIDE DEF seq
<1>2. n \in Nat /\ S = 1..n
  <2> DEFINE H == [by: STRING, empty: BOOLEAN]
  <2>1. seq \in Seq(H)
    BY <1>1
  <2> HIDE DEF H
  <2> QED
    BY <2>1
<1>3. \A k \in S : seq[k].empty \in BOOLEAN /\ seq[k].by \in STRING
  <2> DEFINE H == [by: STRING, empty: BOOLEAN]
  <2>1. seq \in Seq(H)
    BY <1>1
  <2>2. \A e \in H : e.empty \in BOOLEAN /\ e.by \in STRING
    OBVIOUS
  <2> HIDE DEF H
  <2>3. \A k \in S : seq[k] \in H
    BY <2>1
  <2> QED
    BY <2>2, <2>3
<1> HIDE DEF S, n
<1>4. S \in SUBSET (1..n)
  BY <1>2
<1>5. \A s \in SUBSET S : s # {} => Max(s) \in s
  BY <1>2, Extremes
<1>6. IsFiniteSet(S)
  BY <1>2, FS_Interval
<1> DEFINE Step(d, k) == IF seq[k].empty THEN d ELSE Append(d, seq[k].by)
           P(h) == h = [s \in SUBSET S |->
                          IF s = {} THEN <<>> ELSE Step(h[s \ {Max(s)}], Max(s))]
           g == CHOOSE h : P(h)
           D == Seq(STRING)
           step == [x \in D \X S |-> Step(x[1], x[2])]
<1>7. Commands(config) = g[S]
  BY Zenon DEF Commands, FoldLeft, MapThenFoldSet, S, seq
<1>8. <<>> \in D /\ \A d \in D, k \in S : Step(d, k) \in D
  <2>1. \A d \in D, e \in STRING : Append(d, e) \in D
    OBVIOUS
  <2>2. <<>> \in D
    OBVIOUS
  <2> HIDE DEF D
  <2> QED
    BY <1>3, <2>1, <2>2
<1> HIDE DEF Step, D
<1>9. \A d \in D, k \in S : step[<<d, k>>] = Step(d, k)
  OBVIOUS
<1> HIDE DEF step
<1>10. PICK f : IsFold(f, step, <<>>, S)
  BY <1>5, <1>6, FoldExists
<1>11. P(f)
  <2>1. f[{}] \in D /\ \A R \in SUBSET S : R # {} => f[R] = step[<<f[R \ {Max(R)}], Max(R)>>]
    BY <1>8, <1>10 DEF IsFold
  <2>2. \A R \in SUBSET S : R # {} /\ f[R \ {Max(R)}] \in D => f[R] \in D
    <3> SUFFICES ASSUME NEW R \in SUBSET S, R # {}, f[R \ {Max(R)}] \in D PROVE f[R] \in D
      OBVIOUS
    <3>1. Max(R) \in S
      BY <1>5
    <3>2. f[R] = Step(f[R \ {Max(R)}], Max(R))
      BY <1>9, <2>1, <3>1
    <3> QED
      BY <1>8, <3>1, <3>2
  <2>3. \A R \in SUBSET S : f[R] \in D
    BY <1>5, <1>6, <2>1, <2>2, FoldCloses
  <2>4. \A R \in SUBSET S : R # {} => step[<<f[R \ {Max(R)}], Max(R)>>] = Step(f[R \ {Max(R)}], Max(R))
    BY <1>5, <1>9, <2>3
  <2> QED
    BY <1>10, <2>4 DEF IsFold
<1>12. P(g)
  <2> HIDE DEF P
  <2> QED
    BY <1>11
<1> HIDE DEF g
<1>13. g[{}] = <<>> /\ \A R \in SUBSET S : R # {} => g[R] = Step(g[R \ {Max(R)}], Max(R))
  BY <1>12
<1>14. \A R \in SUBSET S : g[R] \in D
  <2>1. \A R \in SUBSET S : R # {} /\ g[R \ {Max(R)}] \in D => g[R] \in D
    BY <1>5, <1>8, <1>13
  <2> QED
    BY <1>5, <1>6, <1>8, <1>13, <2>1, FoldCloses
<1>15. \A m \in 1..n : g[1..m] = Step(g[1..(m - 1)], m)
  <2> TAKE m \in 1..n
  <2>1. m \in Nat \ {0} /\ 1..m \in SUBSET S
    BY <1>2
  <2>2. 1..m # {} /\ Max(1..m) = m /\ (1..m) \ {m} = 1..(m - 1)
    BY <2>1, LastPlace
  <2> QED
    BY <1>13, <2>1, <2>2
<1>16. 1..0 = {} /\ \A m \in 0..n : 1..m \in SUBSET S
  BY <1>2
<1>17. Commands(config) = g[1..n]
  BY <1>2, <1>7
<1> QED
  BY <1>13, <1>14, <1>15, <1>16, <1>17 DEF Step, D, n, seq, S

\* There is a command for each entry that made a layer, in their order.
LEMMA CommandsMade ==
  ASSUME NEW config, config.history \in Seq([by: STRING, empty: BOOLEAN])
  PROVE  /\ Places(Made(config))
         /\ Commands(config) \in Seq(STRING) /\ Len(Commands(config)) = Cardinality(Made(config))
         /\ \A k \in Made(config) : Commands(config)[Rank(Made(config), k)] = config.history[k].by
<1> DEFINE n == Len(config.history)
           made == Made(config)
           Upto(m) == {k \in made : k <= m}
<1>1. n \in Nat /\ made \subseteq 1..n
  <2> DEFINE H == [by: STRING, empty: BOOLEAN]
  <2>1. config.history \in Seq(H)
    OBVIOUS
  <2> HIDE DEF H
  <2> QED
    BY <2>1 DEF Made
<1>2. PICK g : /\ Commands(config) = g[1..n]
               /\ g[1..0] = <<>>
               /\ \A m \in 1..n :
                     LET before == g[1..(m - 1)]
                         entry == config.history[m]
                     IN  g[1..m] = IF entry.empty THEN before ELSE Append(before, entry.by)
               /\ \A m \in 0..n : g[1..m] \in Seq(STRING)
  BY CommandFold
<1>3. \A m \in 1..n : m \in made <=> ~config.history[m].empty
  <2> DEFINE H == [by: STRING, empty: BOOLEAN]
  <2>1. config.history \in Seq(H)
    OBVIOUS
  <2> HIDE DEF H
  <2>2. DOMAIN config.history = 1..n
    BY <2>1
  <2> QED
    BY <2>2 DEF Made
<1>4. \A m \in 1..n : m \in made => config.history[m].by \in STRING
  <2> DEFINE H == [by: STRING, empty: BOOLEAN]
  <2>1. config.history \in Seq(H)
    OBVIOUS
  <2>2. \A e \in H : e.by \in STRING
    OBVIOUS
  <2> HIDE DEF H
  <2>3. \A m \in 1..n : config.history[m] \in H
    BY <2>1
  <2> QED
    BY <2>2, <2>3
<1> HIDE DEF n, made
<1>5. Places(made) /\ \A k \in made : k \in Nat /\ 1 <= k /\ k <= n
  <2>1. IsFiniteSet(1..n)
    BY <1>1, FS_Interval
  <2>2. IsFiniteSet(made)
    BY <1>1, <2>1, FS_Subset
  <2> QED
    BY <1>1, <2>2 DEF Places
<1>6. \A m \in 0..n : IsFiniteSet(Upto(m)) /\ Cardinality(Upto(m)) \in Nat
  BY <1>5, FS_Subset, FS_CardinalityType DEF Places
<1> DEFINE P == {m \in 0..n : /\ Len(g[1..m]) = Cardinality(Upto(m))
                             /\ \A k \in Upto(m) : /\ Rank(made, k) \in 1..Len(g[1..m])
                                                   /\ g[1..m][Rank(made, k)] = config.history[k].by}
<1>7. 0 \in P
  <2>1. Upto(0) = {}
    BY <1>5
  <2>2. Cardinality({}) = 0
    BY FS_EmptySet
  <2> QED
    <3>1. 0 \in 0..n /\ Len(<<>>) = 0
      BY <1>1
    <3>2. Len(g[1..0]) = Cardinality(Upto(0)) /\ \A k \in Upto(0) : FALSE
      BY <1>2, <2>1, <2>2, <3>1
    <3> HIDE DEF Upto
    <3> QED
      BY <3>1, <3>2
<1>8. ASSUME NEW m \in 1..n, m - 1 \in P PROVE m \in P
  <2>1. m \in 0..n /\ m - 1 \in 0..n /\ m \in Nat
    BY <1>1
  <2>2. CASE m \notin made
    <3>1. g[1..m] = g[1..(m - 1)]
      BY <1>2, <1>3, <2>2
    <3>2. Upto(m) = Upto(m - 1)
      BY <1>5, <2>2
    <3> QED
      BY <1>8, <2>1, <3>1, <3>2
  <2>3. CASE m \in made
    <3>1. g[1..m] = Append(g[1..(m - 1)], config.history[m].by)
      BY <1>2, <1>3, <2>3
    <3>2. Upto(m) = Upto(m - 1) \cup {m} /\ m \notin Upto(m - 1)
      <4>1. \A k \in made : k <= m <=> k <= m - 1 \/ k = m
        BY <1>5
      <4>2. m <= m /\ ~(m <= m - 1)
        BY <2>1
      <4> QED
        BY <2>3, <4>1, <4>2, Zenon
    <3>3. Cardinality(Upto(m)) = Cardinality(Upto(m - 1)) + 1
      BY <1>6, <2>1, <3>2, FS_AddElement
    <3>4. Rank(made, m) = Cardinality(Upto(m))
      BY DEF Rank
    <3>5. g[1..(m - 1)] \in Seq(STRING) /\ config.history[m].by \in STRING
      BY <1>2, <1>4, <2>1, <2>3
    <3>6. Len(g[1..(m - 1)]) = Cardinality(Upto(m - 1)) /\ Cardinality(Upto(m - 1)) \in Nat
      BY <1>6, <1>8, <2>1
    <3>7. \A k \in Upto(m - 1) : /\ Rank(made, k) \in 1..Len(g[1..(m - 1)])
                                 /\ g[1..(m - 1)][Rank(made, k)] = config.history[k].by
      BY <1>8
    <3> HIDE DEF Upto
    <3>8. Len(g[1..m]) = Len(g[1..(m - 1)]) + 1
      BY <3>1, <3>5
    <3>9. \A k \in Upto(m) : /\ Rank(made, k) \in 1..Len(g[1..m])
                             /\ g[1..m][Rank(made, k)] = config.history[k].by
      BY <3>1, <3>2, <3>3, <3>4, <3>5, <3>6, <3>7, <3>8
    <3> QED
      BY <2>1, <3>3, <3>6, <3>8, <3>9
  <2> QED
    BY <2>2, <2>3
<1> HIDE DEF P
<1>9. n \in P
  BY <1>1, <1>7, <1>8, PrefixInduction
<1>10. Upto(n) = made
  BY <1>5
<1> QED
  BY <1>1, <1>2, <1>5, <1>9, <1>10 DEF P, made, n

\* A layer without a command.
Unlabelled == ""

\* The pass over the entries of an archive.
Pass(archiv, manifest, config) ==
  FoldLeft(LAMBDA acc, e : TakeEntry(acc, e, keep(manifest, e.name)),
           listLayers(archiv, manifest, config), archiv.entries)

\* The tree an entry gives to a layer.
TreeOf(entry) == IF entry.size = 0 THEN EmptyTree ELSE entry.body.tree

\* A layer an entry was taken for.
Taken(layer, entry) ==
  IF entry.size = 0 THEN [layer EXCEPT !.tree = EmptyTree]
  ELSE [layer EXCEPT !.tree = entry.body.tree, !.bytes = entry.body.bytes]

\* What the layers are after each entry: it gives its tree to the layers of
\* its name, and no path or command changes.
PassSteps(g, archiv, manifest, config) ==
  /\ Pass(archiv, manifest, config) = g[1..Len(archiv.entries)]
  /\ \A i \in DOMAIN manifest.layers : g[1..0][i].tree = NoTree
  /\ \A m \in 1..Len(archiv.entries) : \A i \in DOMAIN manifest.layers :
        g[1..m][i].tree = IF archiv.entries[m].name = manifest.layers[i]
                          THEN TreeOf(archiv.entries[m]) ELSE g[1..(m - 1)][i].tree
  /\ \A m \in 0..Len(archiv.entries) :
        /\ DOMAIN g[1..m] = DOMAIN manifest.layers /\ Len(g[1..m]) = Len(manifest.layers)
        /\ \A i \in DOMAIN manifest.layers :
              /\ g[1..m][i].path = manifest.layers[i]
              /\ g[1..m][i].command = IF i \in DOMAIN Commands(config) THEN Commands(config)[i] ELSE Unlabelled

\* Pass folds the entries.
LEMMA PassFold ==
  ASSUME NEW archiv, IsArchive(archiv), NEW manifest, manifest.layers \in Seq(STRING), NEW config
  PROVE  \E g : PassSteps(g, archiv, manifest, config)
<1> DEFINE seq == archiv.entries
           n == Len(seq)
           S == DOMAIN seq
           I == DOMAIN manifest.layers
           base == listLayers(archiv, manifest, config)
<1>2. n \in Nat /\ S = 1..n
  <2> DEFINE H == ToSet(seq)
  <2>1. seq \in Seq(H)
    BY DEF IsArchive
  <2> HIDE DEF H, seq
  <2> QED
    BY <2>1
<1> HIDE DEF seq, S, n, I, base
<1>4. S \in SUBSET (1..n)
  BY <1>2
<1>5. \A s \in SUBSET S : s # {} => Max(s) \in s
  BY <1>2, Extremes
<1>6. IsFiniteSet(S)
  BY <1>2, FS_Interval
<1> DEFINE Step(d, k) == TakeEntry(d, seq[k], keep(manifest, seq[k].name))
           P(h) == h = [s \in SUBSET S |->
                          IF s = {} THEN base ELSE Step(h[s \ {Max(s)}], Max(s))]
           g == CHOOSE h : P(h)
           size(i) == IF Has(archiv, manifest.layers[i]) THEN LastOf(archiv, manifest.layers[i]).size ELSE 0
           command(i) == IF i \in DOMAIN Commands(config) THEN Commands(config)[i] ELSE Unlabelled
           Row(i, t, b) == [path |-> manifest.layers[i], platform |-> config.platform, size |-> size(i),
                            command |-> command(i), tree |-> t, bytes |-> b]
           T == {NoTree, EmptyTree} \cup {seq[k].body.tree : k \in S}
           B == {0} \cup {seq[k].body.bytes : k \in S}
           R == {Row(i, t, b) : i \in I, t \in T, b \in B}
           D == {f \in [I -> R] : \A i \in I : f[i].path = manifest.layers[i] /\ f[i].command = command(i)}
           step == [x \in D \X S |-> Step(x[1], x[2])]
<1>7. Pass(archiv, manifest, config) = g[S]
  BY Zenon DEF Pass, FoldLeft, MapThenFoldSet, S, seq, base
<1> HIDE DEF P, g, step, Step, size, command, T, B, R, D
<1>8. ASSUME NEW i, NEW u, NEW b
      PROVE  /\ Row(i, u, b).path = manifest.layers[i]
             /\ Row(i, u, b).command = command(i)
             /\ Row(i, u, b).tree = u
  OBVIOUS
<1>a. ASSUME NEW i, NEW u, NEW b, NEW k \in S
      PROVE  \/ Taken(Row(i, u, b), seq[k]) = Row(i, TreeOf(seq[k]), b)
             \/ Taken(Row(i, u, b), seq[k]) = Row(i, TreeOf(seq[k]), seq[k].body.bytes)
  <2> DEFINE p == manifest.layers[i]
             q == config.platform
             z == size(i)
             o == command(i)
             r == Row(i, u, b)
  <2> HIDE DEF p, q, z, o
  <2>1. \A w, c : Row(i, w, c) = [path |-> p, platform |-> q, size |-> z, command |-> o, tree |-> w, bytes |-> c]
    BY DEF p, q, z, o
  <2> HIDE DEF Row
  <2>2. ASSUME NEW v PROVE [r EXCEPT !.tree = v] = Row(i, v, b)
    BY <2>1
  <2>3. ASSUME NEW v, NEW c PROVE [r EXCEPT !.tree = v, !.bytes = c] = Row(i, v, c)
    <3>1. [Row(i, v, b) EXCEPT !.bytes = c] = Row(i, v, c)
      BY <2>1
    <3>2. [r EXCEPT !.tree = v, !.bytes = c] = [[r EXCEPT !.tree = v] EXCEPT !.bytes = c]
      BY Zenon
    <3> QED
      BY <2>2, <3>1, <3>2
  <2> QED
    BY <2>2, <2>3 DEF Taken, TreeOf
<1>9. base = [i \in I |-> Row(i, NoTree, 0)]
  BY DEF base, listLayers, I, command, size, Unlabelled
<1> HIDE DEF Row
<1>10. base \in D
  <2>1. NoTree \in T /\ 0 \in B
    BY DEF T, B
  <2>2. \A i \in I : Row(i, NoTree, 0) \in R
    BY <2>1 DEF R
  <2> DEFINE Named(r, i) == r.path = manifest.layers[i] /\ r.command = command(i)
  <2>3. \A i \in I : Named(Row(i, NoTree, 0), i)
    BY <1>8
  <2>4. base \in [I -> R]
    BY <1>9, <2>2
  <2>5. \A i \in I : base[i] = Row(i, NoTree, 0)
    BY <1>9
  <2> QED
    BY <2>3, <2>4, <2>5 DEF D
<1>11. ASSUME NEW d \in D, NEW k \in S
       PROVE  /\ Step(d, k) \in D
              /\ \A i \in I : Step(d, k)[i].tree = IF seq[k].name = manifest.layers[i]
                                                THEN TreeOf(seq[k]) ELSE d[i].tree
  <2>1. DOMAIN d = I /\ \A i \in I : d[i] \in R /\ d[i].path = manifest.layers[i] /\ d[i].command = command(i)
    BY DEF D
  <2>2. seq[k].body.tree \in T /\ seq[k].body.bytes \in B /\ EmptyTree \in T
    BY DEF T, B
  <2>3. ASSUME NEW r \in R
        PROVE  /\ Taken(r, seq[k]) \in R
               /\ Taken(r, seq[k]).path = r.path /\ Taken(r, seq[k]).command = r.command
    <3>1. PICK i \in I, v \in T, c \in B : r = Row(i, v, c)
      BY DEF R
    <3>2. TreeOf(seq[k]) \in T
      BY <2>2 DEF TreeOf
    <3>3. Row(i, TreeOf(seq[k]), c) \in R /\ Row(i, TreeOf(seq[k]), seq[k].body.bytes) \in R
      BY <2>2, <3>2 DEF R
    <3> QED
      BY <1>8, <1>a, <3>1, <3>3
  <2> DEFINE x == Step(d, k)
  <2>4. x = [i \in I |-> IF i \notin keep(manifest, seq[k].name) THEN d[i] ELSE Taken(d[i], seq[k])]
    BY <2>1, Zenon DEF Step, TakeEntry, Taken
  <2> HIDE DEF x
  <2>5. x \in [I -> R]
    BY <2>1, <2>3, <2>4
  <2>6. \A i \in I : x[i].path = manifest.layers[i] /\ x[i].command = command(i)
    BY <2>1, <2>3, <2>4
  <2>7. \A i \in I : x[i].tree = IF seq[k].name = manifest.layers[i] THEN TreeOf(seq[k]) ELSE d[i].tree
    <3>1. ASSUME NEW r \in R PROVE Taken(r, seq[k]).tree = TreeOf(seq[k])
      <4>1. PICK i \in I, v \in T, c \in B : r = Row(i, v, c)
        BY DEF R
      <4> QED
        BY <1>8, <1>a, <4>1
    <3>2. \A i \in I : i \in keep(manifest, seq[k].name) <=> seq[k].name = manifest.layers[i]
      BY DEF keep, I
    <3> QED
      BY <2>1, <2>4, <3>1, <3>2
  <2> QED
    BY <2>5, <2>6, <2>7 DEF D, x
<1>12. \A d \in D : /\ DOMAIN d = I /\ Len(d) = Len(manifest.layers)
                    /\ \A i \in I : d[i].path = manifest.layers[i] /\ d[i].command = command(i)
  <2>1. Len(manifest.layers) \in Nat /\ I = 1..Len(manifest.layers)
    BY DEF I
  <2>2. \A d \in [I -> R] : Len(d) = Len(manifest.layers)
    BY <2>1
  <2> QED
    BY <2>2 DEF D
<1>13. \A d \in D, k \in S : step[<<d, k>>] = Step(d, k)
  BY DEF step
<1>14. PICK f : IsFold(f, step, base, S)
  BY <1>5, <1>6, FoldExists
<1>15. P(f)
  <2>1. f[{}] \in D /\ \A Q \in SUBSET S : Q # {} => f[Q] = step[<<f[Q \ {Max(Q)}], Max(Q)>>]
    BY <1>10, <1>14 DEF IsFold
  <2>2. \A Q \in SUBSET S : Q # {} /\ f[Q \ {Max(Q)}] \in D => f[Q] \in D
    <3> SUFFICES ASSUME NEW Q \in SUBSET S, Q # {}, f[Q \ {Max(Q)}] \in D PROVE f[Q] \in D
      OBVIOUS
    <3>1. Max(Q) \in S
      BY <1>5
    <3>2. f[Q] = Step(f[Q \ {Max(Q)}], Max(Q))
      BY <1>13, <2>1, <3>1
    <3> QED
      BY <1>11, <3>1, <3>2
  <2>3. \A Q \in SUBSET S : f[Q] \in D
    BY <1>5, <1>6, <2>1, <2>2, FoldCloses
  <2>4. \A Q \in SUBSET S : Q # {} => step[<<f[Q \ {Max(Q)}], Max(Q)>>] = Step(f[Q \ {Max(Q)}], Max(Q))
    BY <1>5, <1>13, <2>3
  <2> QED
    BY <1>14, <2>4 DEF IsFold, P
<1>16. P(g)
  BY <1>15 DEF g
<1>17. g[{}] = base /\ \A Q \in SUBSET S : Q # {} => g[Q] = Step(g[Q \ {Max(Q)}], Max(Q))
  BY <1>16 DEF P
<1>18. \A Q \in SUBSET S : g[Q] \in D
  <2>1. \A Q \in SUBSET S : Q # {} /\ g[Q \ {Max(Q)}] \in D => g[Q] \in D
    <3> SUFFICES ASSUME NEW Q \in SUBSET S, Q # {}, g[Q \ {Max(Q)}] \in D PROVE g[Q] \in D
      OBVIOUS
    <3>1. Max(Q) \in S
      BY <1>5
    <3>2. g[Q] = Step(g[Q \ {Max(Q)}], Max(Q))
      BY <1>17
    <3> QED
      BY <1>11, <3>1, <3>2
  <2> QED
    BY <1>5, <1>6, <1>10, <1>17, <2>1, FoldCloses
<1>19. \A m \in 1..n : g[1..m] = Step(g[1..(m - 1)], m)
  <2> TAKE m \in 1..n
  <2>1. m \in Nat \ {0} /\ 1..m \in SUBSET S
    BY <1>2
  <2>2. 1..m # {} /\ Max(1..m) = m /\ (1..m) \ {m} = 1..(m - 1)
    BY <2>1, LastPlace
  <2> QED
    BY <1>17, <2>1, <2>2
<1>20. 1..0 = {} /\ \A m \in 0..n : 1..m \in SUBSET S
  BY <1>2
<1>21. Pass(archiv, manifest, config) = g[1..n]
  BY <1>2, <1>7
<1>22. \A m \in 0..n : g[1..m] \in D
  BY <1>18, <1>20
<1>23. \A i \in I : g[1..0][i].tree = NoTree
  BY <1>8, <1>9, <1>17, <1>20
<1>24. ASSUME NEW m \in 1..n, NEW i \in I
       PROVE  g[1..m][i].tree = IF seq[m].name = manifest.layers[i]
                                THEN TreeOf(seq[m]) ELSE g[1..(m - 1)][i].tree
  <2>1. m - 1 \in 0..n /\ m \in S
    BY <1>2
  <2> QED
    BY <1>11, <1>19, <1>22, <2>1
<1>25. \A m \in 0..n : /\ DOMAIN g[1..m] = I /\ Len(g[1..m]) = Len(manifest.layers)
                       /\ \A i \in I : g[1..m][i].path = manifest.layers[i] /\ g[1..m][i].command = command(i)
  BY <1>12, <1>22
<1>26. n = Len(archiv.entries) /\ seq = archiv.entries /\ I = DOMAIN manifest.layers
  BY DEF n, seq, I
<1>27. \A i : command(i) = IF i \in DOMAIN Commands(config) THEN Commands(config)[i] ELSE Unlabelled
  BY DEF command
<1> HIDE DEF n, seq, I, command
<1>28. /\ Pass(archiv, manifest, config) = g[1..Len(archiv.entries)]
       /\ \A i \in DOMAIN manifest.layers : g[1..0][i].tree = NoTree
  BY <1>21, <1>23, <1>26
<1>29. \A m \in 1..Len(archiv.entries) : \A i \in DOMAIN manifest.layers :
          g[1..m][i].tree = IF archiv.entries[m].name = manifest.layers[i]
                            THEN TreeOf(archiv.entries[m]) ELSE g[1..(m - 1)][i].tree
  BY <1>24, <1>26
<1>30. \A m \in 0..Len(archiv.entries) :
          /\ DOMAIN g[1..m] = DOMAIN manifest.layers /\ Len(g[1..m]) = Len(manifest.layers)
          /\ \A i \in DOMAIN manifest.layers :
                /\ g[1..m][i].path = manifest.layers[i]
                /\ g[1..m][i].command = IF i \in DOMAIN Commands(config)
                                        THEN Commands(config)[i] ELSE Unlabelled
  BY <1>25, <1>26, <1>27
<1>31. PassSteps(g, archiv, manifest, config)
  BY <1>28, <1>29, <1>30 DEF PassSteps
<1> HIDE DEF g
<1> QED
  BY <1>31

\* The pass lists every layer of the manifest.
LEMMA PassLength ==
  ASSUME NEW archiv, IsArchive(archiv), NEW manifest, manifest.layers \in Seq(STRING), NEW config
  PROVE  /\ Len(Pass(archiv, manifest, config)) = Len(manifest.layers)
         /\ DOMAIN Pass(archiv, manifest, config) = DOMAIN manifest.layers
<1> DEFINE n == Len(archiv.entries)
<1>1. PICK g : PassSteps(g, archiv, manifest, config)
  BY PassFold
<1>2. n \in Nat
  <2> DEFINE H == ToSet(archiv.entries)
  <2>1. archiv.entries \in Seq(H)
    BY DEF IsArchive
  <2> HIDE DEF H
  <2> QED
    BY <2>1
<1>3. Pass(archiv, manifest, config) = g[1..n]
  BY <1>1, Zenon DEF PassSteps
<1>4. \A m \in 0..n : DOMAIN g[1..m] = DOMAIN manifest.layers /\ Len(g[1..m]) = Len(manifest.layers)
  BY <1>1, Zenon DEF PassSteps
<1> HIDE DEF n
<1>5. n \in 0..n
  BY <1>2
<1> QED
  BY <1>3, <1>4, <1>5

\* The tree of each layer is that of the last entry of its name.
LEMMA PassTrees ==
  ASSUME NEW archiv, IsArchive(archiv), NEW manifest, manifest.layers \in Seq(STRING), NEW config
  PROVE  \A i \in DOMAIN manifest.layers :
            LET layer == Pass(archiv, manifest, config)[i]
            IN  /\ layer.path = manifest.layers[i]
                /\ layer.command = IF i \in DOMAIN Commands(config) THEN Commands(config)[i] ELSE Unlabelled
                /\ layer.tree # NoTree => Has(archiv, manifest.layers[i])
                /\ Has(archiv, manifest.layers[i]) => layer.tree = TreeOf(LastOf(archiv, manifest.layers[i]))
<1> TAKE i \in DOMAIN manifest.layers
<1> DEFINE listed == Pass(archiv, manifest, config)
           n == Len(archiv.entries)
           A == At(archiv, manifest.layers[i])
<1>1. PICK g : PassSteps(g, archiv, manifest, config)
  BY PassFold
<1>2. n \in Nat /\ DOMAIN archiv.entries = 1..n
  <2> DEFINE H == ToSet(archiv.entries)
  <2>1. archiv.entries \in Seq(H)
    BY DEF IsArchive
  <2> HIDE DEF H
  <2> QED
    BY <2>1
<1>3. \A k \in 1..n : k \in A <=> archiv.entries[k].name = manifest.layers[i]
  BY <1>2 DEF At
<1>4. A \subseteq 1..n
  BY <1>2 DEF At
<1> HIDE DEF n, A, listed
<1> DEFINE P == {m \in 0..n : /\ g[1..m][i].tree # NoTree => A # {}
                             /\ \A k \in A : k <= m /\ (\A l \in A : l <= m => l <= k) =>
                                   g[1..m][i].tree = TreeOf(archiv.entries[k])}
<1>5. 0 \in P
  <2>1. g[1..0][i].tree = NoTree
    BY <1>1 DEF PassSteps
  <2>2. \A k \in A : ~(k <= 0)
    BY <1>2, <1>4
  <2> QED
    BY <1>2, <2>1, <2>2
<1>6. ASSUME NEW m \in 1..n, m - 1 \in P PROVE m \in P
  <2>1. g[1..m][i].tree = IF m \in A THEN TreeOf(archiv.entries[m]) ELSE g[1..(m - 1)][i].tree
    BY <1>1, <1>3 DEF PassSteps, n
  <2>2. m \in 0..n /\ m \in Nat
    BY <1>2
  <2>3. CASE m \in A
    <3>1. \A k \in A : k <= m /\ (\A l \in A : l <= m => l <= k) => k = m
      BY <1>2, <1>4, <2>3
    <3> QED
      BY <2>1, <2>2, <2>3, <3>1
  <2>4. CASE m \notin A
    <3>1. \A k \in A : k <= m <=> k <= m - 1
      BY <1>2, <1>4, <2>4
    <3> QED
      BY <1>6, <2>1, <2>2, <2>4, <3>1
  <2> QED
    BY <2>3, <2>4
<1> HIDE DEF P
<1>7. n \in P
  BY <1>2, <1>5, <1>6, PrefixInduction
<1>8. listed = g[1..n] /\ n \in 0..n
  <2>1. listed = g[1..Len(archiv.entries)]
    BY <1>1, Zenon DEF PassSteps, listed
  <2> QED
    BY <1>2, <2>1 DEF n
<1>9. /\ listed[i].path = manifest.layers[i]
      /\ listed[i].command = IF i \in DOMAIN Commands(config) THEN Commands(config)[i] ELSE Unlabelled
  <2>1. \A m \in 0..n : \A j \in DOMAIN manifest.layers :
           /\ g[1..m][j].path = manifest.layers[j]
           /\ g[1..m][j].command = IF j \in DOMAIN Commands(config) THEN Commands(config)[j] ELSE Unlabelled
    BY <1>1, Zenon DEF PassSteps, n
  <2>2. /\ g[1..n][i].path = manifest.layers[i]
        /\ g[1..n][i].command = IF i \in DOMAIN Commands(config) THEN Commands(config)[i] ELSE Unlabelled
    BY <1>8, <2>1, Zenon
  <2> QED
    BY <1>8, <2>2, Zenon
<1>10. listed[i].tree # NoTree => A # {}
  BY <1>7, <1>8 DEF P
<1>11. ASSUME A # {} PROVE listed[i].tree = TreeOf(archiv.entries[Max(A)])
  <2>1. Max(A) \in A /\ \A y \in A : Max(A) >= y
    BY <1>2, <1>4, <1>11, Extremes
  <2>2. Max(A) <= n /\ \A l \in A : l <= Max(A)
    <3> DEFINE top == Max(A)
    <3> HIDE DEF top
    <3>1. top \in A /\ \A y \in A : top >= y
      BY <2>1 DEF top
    <3>2. \A l \in A : l \in Int /\ l <= n
      BY <1>2, <1>4
    <3>3. top <= n /\ \A l \in A : l <= top
      BY <3>1, <3>2
    <3> QED
      BY <3>3 DEF top
  <2> QED
    BY <1>7, <1>8, <2>1, <2>2 DEF P
<1> QED
  BY <1>9, <1>10, <1>11 DEF Has, LastOf, A, listed

\* Nothing is at a name, or the first and the last entry of it are.
LEMMA PlacesOfName ==
  ASSUME NEW archiv, IsArchive(archiv), NEW name, Has(archiv, name)
  PROVE  /\ Min(At(archiv, name)) \in At(archiv, name) /\ Max(At(archiv, name)) \in At(archiv, name)
         /\ At(archiv, name) \subseteq DOMAIN archiv.entries
         /\ FirstOf(archiv, name) \in ToSet(archiv.entries) /\ LastOf(archiv, name) \in ToSet(archiv.entries)
<1> DEFINE n == Len(archiv.entries)
           A == At(archiv, name)
<1>1. n \in Nat /\ DOMAIN archiv.entries = 1..n
  <2> DEFINE H == ToSet(archiv.entries)
  <2>1. archiv.entries \in Seq(H)
    BY DEF IsArchive
  <2> HIDE DEF H
  <2> QED
    BY <2>1
<1>2. A \subseteq 1..n /\ A # {}
  BY <1>1 DEF At, Has
<1> HIDE DEF n, A
<1>3. Min(A) \in A /\ Max(A) \in A
  BY <1>1, <1>2, Extremes
<1>4. \A k \in A : archiv.entries[k] \in ToSet(archiv.entries)
  BY <1>1, <1>2 DEF ToSet
<1> QED
  BY <1>1, <1>2, <1>3, <1>4 DEF FirstOf, LastOf, A

\* A configuration that is read has a history.
LEMMA ConfigRead ==
  ASSUME NEW archiv, IsArchive(archiv), NEW name, ConfigBody(archiv, name).kind = "config"
  PROVE  ConfigBody(archiv, name).history \in Seq([by: STRING, empty: BOOLEAN])
<1>1. Has(archiv, name)
  BY DEF ConfigBody
<1>2. \E entry \in ToSet(archiv.entries) : ConfigBody(archiv, name) = entry.body
  BY <1>1, PlacesOfName DEF ConfigBody
<1> QED
  BY <1>2 DEF IsArchive, IsBody

\* A manifest that is read has a list of layers.
LEMMA ManifestRead ==
  ASSUME NEW archiv, IsArchive(archiv), ~readImageArchiveMetadata(archiv).error
  PROVE  readImageArchiveMetadata(archiv).manifest.layers \in Seq(STRING)
<1> DEFINE m == readImageArchiveMetadata(archiv)
           oci == ociIndexToDockerManifest(archiv)
           list == LastOf(archiv, "manifest.json").body
           index == LastOf(archiv, "index.json").body
           blob == FirstOf(archiv, index.digests[1]).body
<1>0. Invalid.error
  BY DEF Invalid, Metadata
<1>1. \/ ~Has(archiv, "manifest.json") /\ m = oci
      \/ /\ Has(archiv, "manifest.json") /\ list.kind = "manifests" /\ list.list # <<>>
         /\ m = Metadata(FALSE, list.list[1], Len(list.list))
  BY <1>0 DEF readImageArchiveMetadata
<1>2. CASE Has(archiv, "manifest.json") /\ list.kind = "manifests" /\ list.list # <<>>
           /\ m = Metadata(FALSE, list.list[1], Len(list.list))
  <2>1. list.list \in Seq([config: STRING, layers: Seq(STRING)])
    BY <1>2, PlacesOfName DEF IsArchive, IsBody
  <2>2. list.list[1] \in [config: STRING, layers: Seq(STRING)]
    <3> DEFINE H == [config: STRING, layers: Seq(STRING)]
    <3> HIDE DEF H
    <3>1. list.list \in Seq(H)
      BY <2>1 DEF H
    <3> HIDE DEF list
    <3>2. list.list[1] \in H
      BY <1>2, <3>1
    <3> QED
      BY <3>2 DEF H
  <2>3. list.list[1].layers \in Seq(STRING)
    BY <2>2
  <2> QED
    BY <1>2, <2>3 DEF Metadata
<1>3. CASE ~Has(archiv, "manifest.json") /\ m = oci
  <2>1. ~oci.error
    BY <1>3
  <2>2. /\ Has(archiv, index.digests[1]) /\ blob.kind = "oci"
        /\ oci = Metadata(FALSE, [config |-> blob.config, layers |-> blob.layers], Len(index.digests))
    BY <1>0, <2>1 DEF ociIndexToDockerManifest
  <2>3. blob.layers \in Seq(STRING)
    BY <2>2, PlacesOfName DEF IsArchive, IsBody
  <2> QED
    BY <1>3, <2>2, <2>3 DEF Metadata
<1> QED
  BY <1>1, <1>2, <1>3

\* Layers that are listed: the configuration could be read, no blob of theirs
\* is broken, and each has a tree.
LEMMA Parsed ==
  ASSUME NEW archiv, NEW manifest, ~parseLayersFromManifest(archiv, manifest).error,
         NEW config, config = ConfigBody(archiv, manifest.config)
  PROVE  /\ parseLayersFromManifest(archiv, manifest).layers = Pass(archiv, manifest, config)
         /\ config.kind = "config"
         /\ \A i \in DOMAIN Pass(archiv, manifest, config) : Pass(archiv, manifest, config)[i].tree # NoTree
         /\ \A k \in DOMAIN archiv.entries :
               keep(manifest, archiv.entries[k].name) # {} => ~BadLayer(archiv.entries[k])
<1> DEFINE listed == Pass(archiv, manifest, config)
           bad == \E i \in DOMAIN archiv.entries :
                     keep(manifest, archiv.entries[i].name) # {} /\ BadLayer(archiv.entries[i])
           parsed == parseLayersFromManifest(archiv, manifest)
<1>1. parsed = IF config.kind # "config" \/ bad THEN [error |-> TRUE, layers |-> <<>>]
               ELSE IF \E i \in DOMAIN listed : listed[i].tree = NoTree THEN [error |-> TRUE, layers |-> <<>>]
               ELSE [error |-> FALSE, layers |-> listed]
  BY Zenon DEF parseLayersFromManifest, Pass
<1>0. ~parsed.error
  OBVIOUS
<1> HIDE DEF listed, parsed, bad
<1>2. config.kind = "config" /\ ~bad /\ ~(\E i \in DOMAIN listed : listed[i].tree = NoTree)
  <2>1. parsed # [error |-> TRUE, layers |-> <<>>]
    BY <1>0
  <2> QED
    BY <1>1, <2>1, Zenon
<1>3. parsed = [error |-> FALSE, layers |-> listed]
  BY <1>1, <1>2
<1> QED
  BY <1>2, <1>3 DEF listed, parsed, bad

-----------------------------------------------------------------------------
(* What is listed.                                                         *)

\* Nothing is parsed yet, a file is parsed as it was opened, and the layers
\* that are listed are those of the archive.
Shown ==
  LET metadata == readImageArchiveMetadata(archive[1])
      parsed == parseLayersFromManifest(archive[1], metadata.manifest)
  IN  IsArchive(archive[1]) /\ ~metadata.error /\ ~parsed.error /\ layers = parsed.layers

\* A second look at the reference, as long as it is not moved: the file is the
\* one that was opened, and an engine with room for one variant has the one
\* that was exported, if any.
SecondLook ==
  /\ run.ref = "path" /\ ~view.moved => archive = <<run.file>> /\ run.file.open = "ok"
  /\ run.ref # "path" /\ ~run.several /\ "moved" \notin seen => \A v \in local : archive = <<v.archive>>

\* The fields of a request.
Fields == {"step", "path", "layer", "archive", "end", "tree", "told", "moved"}

ShownInv ==
  /\ Served => Shown
  /\ pc \in {"spool", "parse"} \/ Served => SecondLook
  /\ "moved" \notin seen => local \subseteq run.local \cup run.registered
  /\ DOMAIN view = Fields /\ IF view.step = "none" THEN view = NoView ELSE Served

\* What is listed of an archive: see LayersListed.
IsListed(listed, archiv, manifest, config) ==
  /\ Len(listed) = Len(manifest.layers) /\ DOMAIN listed = DOMAIN manifest.layers
  /\ \A i \in DOMAIN listed :
        /\ listed[i].path = manifest.layers[i] /\ Has(archiv, listed[i].path)
        /\ listed[i].tree = TreeOf(LastOf(archiv, listed[i].path))
        /\ listed[i].command \in {config.history[k].by : k \in Made(config)} \cup {Unlabelled}
        /\ Cardinality(Made(config)) = Len(listed) =>
              \E k \in Made(config) : Rank(Made(config), k) = i /\ listed[i].command = config.history[k].by

\* Every archive that is parsed is listed so.
LEMMA ArchiveListed ==
  ASSUME NEW archiv, IsArchive(archiv), ~readImageArchiveMetadata(archiv).error,
         NEW manifest, manifest = readImageArchiveMetadata(archiv).manifest,
         ~parseLayersFromManifest(archiv, manifest).error,
         NEW config, config = ConfigBody(archiv, manifest.config),
         NEW listed, listed = parseLayersFromManifest(archiv, manifest).layers
  PROVE  manifest.layers \in Seq(STRING) /\ IsListed(listed, archiv, manifest, config)
<1>1. manifest.layers \in Seq(STRING)
  BY ManifestRead
<1>2. /\ listed = Pass(archiv, manifest, config) /\ config.kind = "config"
      /\ \A i \in DOMAIN listed : listed[i].tree # NoTree
  BY Parsed
<1>3. config.history \in Seq([by: STRING, empty: BOOLEAN])
  BY <1>2, ConfigRead
<1>4. DOMAIN manifest.layers = 1..Len(manifest.layers)
  BY <1>1
<1>5. Len(listed) = Len(manifest.layers) /\ DOMAIN listed = DOMAIN manifest.layers
  BY <1>1, <1>2, PassLength
<1>6. PICK made : made = Made(config)
  OBVIOUS
<1>7. /\ Places(made)
      /\ Commands(config) \in Seq(STRING) /\ Len(Commands(config)) = Cardinality(made)
      /\ \A k \in made : Commands(config)[Rank(made, k)] = config.history[k].by
  BY <1>3, <1>6, CommandsMade
<1>8. DOMAIN Commands(config) = 1..Cardinality(made)
  BY <1>7
<1>9. \A i \in 1..Cardinality(made) : \E k \in made : Rank(made, k) = i
  BY <1>7, RankOnto
<1>10. ASSUME NEW i \in DOMAIN listed
       PROVE  /\ listed[i].path = manifest.layers[i] /\ Has(archiv, listed[i].path)
              /\ listed[i].tree = TreeOf(LastOf(archiv, listed[i].path))
              /\ listed[i].command \in {config.history[k].by : k \in made} \cup {Unlabelled}
              /\ Cardinality(made) = Len(listed) =>
                    \E k \in made : Rank(made, k) = i /\ listed[i].command = config.history[k].by
  <2>1. /\ listed[i].path = manifest.layers[i]
        /\ listed[i].command = IF i \in DOMAIN Commands(config) THEN Commands(config)[i] ELSE Unlabelled
        /\ listed[i].tree # NoTree => Has(archiv, manifest.layers[i])
        /\ Has(archiv, manifest.layers[i]) => listed[i].tree = TreeOf(LastOf(archiv, manifest.layers[i]))
    <3>1. i \in DOMAIN manifest.layers
      BY <1>5
    <3> QED
      BY <1>1, <1>2, <3>1, PassTrees
  <2>2. Has(archiv, listed[i].path) /\ listed[i].tree = TreeOf(LastOf(archiv, listed[i].path))
    BY <1>2, <2>1
  <2>3. i \in DOMAIN Commands(config) =>
           \E k \in made : Rank(made, k) = i /\ listed[i].command = config.history[k].by
    BY <1>7, <1>8, <1>9, <2>1
  <2>4. Cardinality(made) = Len(listed) => i \in DOMAIN Commands(config)
    BY <1>4, <1>5, <1>8
  <2> QED
    BY <2>1, <2>2, <2>3, <2>4
<1> QED
  BY <1>1, <1>5, <1>6, <1>10 DEF IsListed

\* Layers that are shown are as LayersListed has them.
LEMMA ShownListed ==
  ASSUME Shown
  PROVE  LayersListed
<1>1. PICK archiv : archiv = archive[1]
  OBVIOUS
<1>2. PICK manifest : manifest = readImageArchiveMetadata(archiv).manifest
  OBVIOUS
<1>3. PICK config : config = ConfigBody(archiv, manifest.config)
  OBVIOUS
<1>4. /\ IsArchive(archiv) /\ ~readImageArchiveMetadata(archiv).error
      /\ ~parseLayersFromManifest(archiv, manifest).error
      /\ layers = parseLayersFromManifest(archiv, manifest).layers
  BY <1>1, <1>2 DEF Shown
<1>5. IsListed(layers, archiv, manifest, config)
  BY <1>2, <1>3, <1>4, ArchiveListed
<1>6. IsListed(layers, archive[1], readImageArchiveMetadata(archive[1]).manifest,
               ConfigBody(archive[1], readImageArchiveMetadata(archive[1]).manifest.config))
  BY <1>1, <1>2, <1>3, <1>5
<1> QED
  BY <1>6, Zenon DEF LayersListed, IsListed, TreeOf, Rank, Made, Unlabelled

\* A call before the export is neither the parse nor the end of a success, and
\* when it is the end the engine has what it had.
LEMMA NotYet ==
  ASSUME SourceInv, Select \/ InspectID \/ InspectPinned \/ Info \/ List \/ InspectLocal
                    \/ Pull \/ Stream \/ ProbeImage \/ Scope
  PROVE  /\ pc' \notin {"spool", "parse"} /\ ~Served' /\ run' = run /\ pc # "done"
         /\ local' \subseteq local \cup run.registered /\ seen \subseteq seen'
<1>0. \A reply : Notice(reply) => seen \subseteq seen'
  BY DEF Notice
<1>1. ASSUME NEW type, NEW cause, Fail(type, cause), type # "none" PROVE pc' \notin {"spool", "parse"} /\ ~Served'
  BY <1>1 DEF Fail, Served, Done, Error, NoError
<1>2. ASSUME NEW step, Goto(step), step \notin {"spool", "parse", "done"}
      PROVE  pc' \notin {"spool", "parse"} /\ ~Served'
  BY <1>2 DEF Goto, Served, Done
<1>3. CASE Select
  <2>1. IsSetup(run.setup)
    BY DEF SourceInv, FlowInv, IsScenario, IsSetup
  <2>2. ASSUME NEW chosen, chosen = selectDockerLikeResolver(run.engine, run.setup), IsError(chosen)
        PROVE  chosen.error # "none"
    <3>1. chosen.error \in EngineErrors \cup {Unset}
      BY <2>1, <2>2, EndpointFacts
    <3> QED
      BY <2>2, <3>1 DEF IsError, EngineErrors
  <2> QED
    BY <1>0, <1>1, <1>2, <1>3, <2>2 DEF Select, engine
<1>4. CASE InspectID \/ InspectPinned \/ Info \/ List
  BY <1>0, <1>1, <1>2, <1>4 DEF InspectID, InspectPinned, Info, List, engine
<1>5. CASE InspectLocal \/ ProbeImage \/ Scope
  BY <1>0, <1>1, <1>2, <1>5 DEF InspectLocal, ProbeImage, Scope, engine, classifyPlatformMissing
<1>6. ASSUME NEW text, PullFailed(text) PROVE pc' \notin {"spool", "parse"} /\ ~Served'
  BY <1>1, <1>2, <1>6 DEF PullFailed, classifyPlatformMissing, classifyPullNotFound
<1>7. CASE Pull
  BY <1>0, <1>2, <1>6, <1>7 DEF Pull, engine
<1>8. CASE Stream
  <2>1. Registered \subseteq run.registered
    BY DEF Registered
  <2> QED
    BY <1>0, <1>2, <1>6, <1>8, <2>1 DEF Stream, Matching
<1> QED
  BY <1>3, <1>4, <1>5, <1>7, <1>8

\* Before the end nothing is asked of the viewer, and no file has moved.
LEMMA Unasked ==
  ASSUME SourceInv, ShownInv, pc # "done"
  PROVE  view.step = "none" /\ ~view.moved /\ ~Served
<1>1. view.step = "none"
  BY DEF SourceInv, FlowInv
<1>2. view = NoView
  BY <1>1 DEF ShownInv
<1> QED
  BY <1>1, <1>2 DEF NoView, Served, Done

\* The parse of what was opened or exported: nothing, or the list.
LEMMA ParseShows ==
  ASSUME SourceInv, ShownInv, Parse
  PROVE  /\ pc = "parse" /\ pc' # "spool" /\ pc' # "parse" /\ (Served' => Shown')
         /\ run' = run /\ archive' = archive /\ local' = local /\ seen' = seen
<1> DEFINE metadata == readImageArchiveMetadata(archive[1])
           parsed == parseLayersFromManifest(archive[1], metadata.manifest)
           type == IF run.ref = "path" THEN "ErrInvalidArchive" ELSE "other"
<1>1. pc = "parse" /\ run' = run /\ archive' = archive /\ local' = local /\ seen' = seen
  BY DEF Parse, engine
<1>2. \/ \E cause : Fail(type, cause)
      \/ ~metadata.error /\ ~parsed.error /\ layers' = parsed.layers /\ Goto("done")
  BY DEF Parse
<1>3. IsArchive(archive[1])
  <2>1. Fitting
    BY <1>1 DEF SourceInv, ArchiveInv
  <2>2. CASE run.ref = "path"
    <3>1. archive = <<run.file>>
      BY <1>1, <2>2, Unasked DEF ShownInv, SecondLook
    <3> QED
      BY <3>1 DEF SourceInv, FlowInv, IsScenario
  <2>3. CASE run.ref # "path"
    <3>1. PICK v \in Variants : archive = <<v.archive>>
      BY <2>1, <2>3 DEF Fitting
    <3> QED
      BY <3>1, Truthful DEF SourceInv, FlowInv
  <2> QED
    BY <2>2, <2>3
<1>4. CASE \E cause : Fail(type, cause)
  BY <1>1, <1>4 DEF Fail, Served, Error, NoError
<1>5. CASE ~metadata.error /\ ~parsed.error /\ layers' = parsed.layers /\ Goto("done")
  BY <1>1, <1>3, <1>5 DEF Shown, Goto
<1> QED
  BY <1>1, <1>2, <1>4, <1>5

\* A step of the resolver keeps what is known of the archive.
LEMMA ResolverShows ==
  ASSUME SourceInv, ShownInv, Next, view' = view
  PROVE  ShownInv'
<1>1. pc # "done"
  BY NotYet DEF Next, Open, Save, Spool, Parse, World
<1>2. /\ view.step = "none" /\ view = NoView /\ ~view.moved /\ ~view'.moved
      /\ "moved" \notin seen => local \subseteq run.local \cup run.registered
      /\ ~Served
  BY <1>1, Unasked DEF ShownInv
<1>3. CASE Select \/ InspectID \/ InspectPinned \/ Info \/ List \/ InspectLocal
           \/ Pull \/ Stream \/ ProbeImage \/ Scope
  <2>1. /\ pc' \notin {"spool", "parse"} /\ ~Served' /\ run' = run
        /\ local' \subseteq local \cup run.registered /\ seen \subseteq seen'
    BY <1>3, NotYet
  <2> QED
    BY <1>2, <2>1 DEF ShownInv
<1>4. CASE Open
  <2>1. pc = "open" /\ run.ref = "path" /\ run' = run /\ local' = local /\ seen' = seen
    BY <1>4 DEF Open, engine, SourceInv, FlowInv
  <2>2. \/ \E type \in {"ErrArchiveNotFound", "ErrArchivePermission", "ErrArchiveInfra",
                       "ErrInvalidArchive", "ErrPlatformNotInImage"} : Fail(type, "none")
        \/ run.file.open = "ok" /\ archive' = <<run.file>> /\ Goto("parse")
    BY <1>4 DEF Open, openError
  <2>3. ~Served' /\ pc' # "spool"
    BY <2>2 DEF Fail, Goto, Served, Done, Error, NoError
  <2>4. pc' = "parse" => run.file.open = "ok" /\ archive' = <<run.file>>
    BY <2>2 DEF Fail
  <2> QED
    BY <1>2, <2>1, <2>3, <2>4 DEF ShownInv, SecondLook
<1>5. CASE Save
  <2>1. pc = "save" /\ run.ref # "path" /\ run' = run /\ local' = local /\ seen \subseteq seen'
    BY <1>5 DEF Save, engine, Notice, SourceInv, FlowInv
  <2>2. PICK reply \in ImageSave(scope) :
          IF reply.kind = "archive" THEN archive' = <<reply.of>> /\ Goto("spool")
          ELSE Fail("other", IF reply.kind = "canceled" THEN "canceled" ELSE "none")
    BY <1>5 DEF Save
  <2>3. reply.kind = "archive" => \E v \in local : reply.of = v.archive
    <3>1. reply \in {Canceled, Unreachable, Odd}
          \/ \E v \in Matching(local, scope) : reply = [kind |-> "archive", of |-> v.archive]
      BY Replied DEF ImageSave
    <3>2. Matching(local, scope) \subseteq local
      BY DEF Matching
    <3> QED
      BY <3>1, <3>2, Kinds
  <2>4. ~Served' /\ pc' # "parse"
    BY <2>2 DEF Fail, Goto, Served, Done, Error, NoError
  <2>5. pc' = "spool" => \E v \in local : archive' = <<v.archive>>
    BY <2>2, <2>3 DEF Fail
  <2>6. ~run.several => \A v, w \in local : v = w
    BY <1>1 DEF SourceInv, LocalInv
  <2>7. pc' = "spool" => SecondLook'
    BY <2>1, <2>5, <2>6 DEF SecondLook
  <2> QED
    BY <1>2, <2>1, <2>4, <2>7 DEF ShownInv
<1>6. CASE Spool
  <2>1. /\ pc = "spool" /\ run' = run /\ local' = local /\ archive' = archive /\ seen \subseteq seen'
        /\ (Goto("parse") \/ Fail("other", "canceled") \/ Fail("ErrArchiveInfra", "none"))
    BY <1>6 DEF Spool, engine, Notice
  <2>2. ~Served'
    BY <2>1 DEF Fail, Goto, Served, Done, Error, NoError
  <2>3. SecondLook'
    BY <1>2, <2>1 DEF ShownInv, SecondLook
  <2> QED
    BY <1>2, <2>1, <2>2, <2>3 DEF ShownInv
<1>7. CASE Parse
  <2>1. /\ pc = "parse" /\ pc' # "spool" /\ pc' # "parse" /\ (Served' => Shown')
        /\ run' = run /\ archive' = archive /\ local' = local /\ seen' = seen
    BY <1>7, ParseShows
  <2>2. SecondLook'
    BY <1>2, <2>1 DEF ShownInv, SecondLook
  <2> QED
    BY <1>2, <2>1, <2>2 DEF ShownInv
<1>8. CASE World
  <2>1. /\ run' = run /\ pc' = pc /\ archive' = archive /\ seen \subseteq seen'
        /\ local' \subseteq local \/ "moved" \in seen'
    BY <1>8 DEF World, Cancel, Turn, RemoveImage, MoveTag, still
  <2>2. ~Served'
    BY <1>1, <2>1 DEF Served, Done
  <2>3. SecondLook => SecondLook'
    BY <1>2, <2>1 DEF SecondLook
  <2> QED
    BY <1>2, <2>1, <2>2, <2>3 DEF ShownInv
<1> QED
  BY <1>3, <1>4, <1>5, <1>6, <1>7, <1>8 DEF Next

\* A request that ends is the same request.
LEMMA Ended ==
  ASSUME DOMAIN view = Fields, NEW end, NEW tree, Ends(end, tree)
  PROVE  /\ DOMAIN view' = Fields /\ view'.step = "done" /\ view'.end = end /\ view'.tree = tree
         /\ view'.path = view.path /\ view'.layer = view.layer /\ view'.archive = view.archive
         /\ view'.told = view.told /\ view'.moved = view.moved
<1>1. view' = [view EXCEPT !.step = "done", !.end = end, !.tree = tree]
  BY DEF Ends
<1> QED
  BY <1>1 DEF Fields

\* What a request may be after a step of the viewer's own.
LEMMA ViewSteps ==
  ASSUME DOMAIN view = Fields,
         Request \/ OpenAgain \/ ExportAgain \/ SpoolAgain \/ Walk \/ Close
  PROVE  /\ DOMAIN view' = Fields /\ view'.moved = view.moved /\ UNCHANGED vars
         /\ view'.step \in {"export", "spool", "walk", "done"}
         /\ Request => /\ view'.step = "export" /\ view'.told = view.told
                       /\ view'.layer \in DOMAIN layers
         /\ ~Request => view'.path = view.path /\ view'.layer = view.layer /\ view.step # "none"
         /\ view'.step = "export" => Request
<1>1. UNCHANGED vars
  BY DEF Request, OpenAgain, ExportAgain, SpoolAgain, Walk, Close
<1>2. CASE Request
  <2>1. PICK p \in Paths, i \in DOMAIN layers :
          view' = [view EXCEPT !.step = "export", !.path = p, !.layer = i]
    BY <1>2 DEF Request
  <2> QED
    BY <1>1, <1>2, <2>1 DEF Fields
<1>3. ASSUME view.step # "none", ~Request,
             \/ view' = [view EXCEPT !.step = "walk", !.archive = <<run.file>>]
             \/ view' = [view EXCEPT !.step = "walk"]
             \/ \E of, told : view' = [view EXCEPT !.step = "spool", !.archive = of, !.told = told]
             \/ \E end, tree : Ends(end, tree)
      PROVE  /\ DOMAIN view' = Fields /\ view'.moved = view.moved
             /\ view'.step \in {"spool", "walk", "done"}
             /\ view'.path = view.path /\ view'.layer = view.layer
  <2>1. CASE \E end, tree : Ends(end, tree)
    BY <2>1, Ended
  <2>2. CASE \E of, told : view' = [view EXCEPT !.step = "spool", !.archive = of, !.told = told]
    BY <2>2 DEF Fields
  <2> QED
    BY <1>3, <2>1, <2>2 DEF Fields
<1>4. CASE ~Request
  <2>1. /\ view.step # "none"
        /\ \/ view' = [view EXCEPT !.step = "walk", !.archive = <<run.file>>]
           \/ view' = [view EXCEPT !.step = "walk"]
           \/ \E of, told : view' = [view EXCEPT !.step = "spool", !.archive = of, !.told = told]
           \/ \E end, tree : Ends(end, tree)
    BY <1>4 DEF OpenAgain, ExportAgain, SpoolAgain, Walk, Close
  <2> QED
    BY <1>1, <1>3, <1>4, <2>1
<1> QED
  BY <1>2, <1>4

\* A step of the viewer: it shows what is served, from the same list; unless
\* the file is moved the run is the same, and unless the name is the engine
\* has no more.
LEMMA ViewerKeeps ==
  ASSUME SourceInv, ShownInv, View
  PROVE  /\ pc' = pc /\ error' = error /\ archive' = archive /\ layers' = layers
         /\ Served /\ view'.step # "none" /\ DOMAIN view' = Fields
         /\ view.moved => view'.moved
         /\ ~view'.moved => run' = run
         /\ SameButFile /\ seen \subseteq seen' /\ (local' \subseteq local \/ "moved" \in seen')
<1>0. SameButFile /\ seen \subseteq seen'
  BY ViewIsQuiet DEF Quiet
<1>1. DOMAIN view = Fields /\ (view.step # "none" => Served)
  BY DEF ShownInv
<1>2. CASE Request \/ OpenAgain \/ ExportAgain \/ SpoolAgain \/ Walk \/ Close
  <2>1. Served
    BY <1>1, <1>2, ViewSteps DEF Request
  <2>2. /\ DOMAIN view' = Fields /\ view'.moved = view.moved /\ UNCHANGED vars
        /\ view'.step \in {"export", "spool", "walk", "done"}
    BY <1>1, <1>2, ViewSteps
  <2> QED
    BY <1>0, <2>1, <2>2 DEF vars
<1>3. CASE Meanwhile /\ MoveFile
  <2>1. /\ view.step # "none" /\ view' = [view EXCEPT !.moved = TRUE]
        /\ pc' = pc /\ error' = error /\ archive' = archive /\ layers' = layers /\ local' = local
    BY <1>3 DEF Meanwhile, MoveFile
  <2>2. view'.step = view.step /\ view'.moved /\ DOMAIN view' = Fields
    BY <1>1, <2>1 DEF Fields
  <2> QED
    BY <1>0, <1>1, <2>1, <2>2
<1>4. CASE Meanwhile /\ view' = view /\ (Turn \/ RemoveImage \/ MoveTag)
  <2>1. /\ view.step # "none" /\ view' = view
        /\ pc' = pc /\ error' = error /\ archive' = archive /\ layers' = layers
        /\ run' = run /\ (local' \subseteq local \/ "moved" \in seen')
    BY <1>4 DEF Meanwhile, Turn, RemoveImage, MoveTag, still
  <2> QED
    BY <1>0, <1>1, <2>1
<1> QED
  BY <1>2, <1>3, <1>4 DEF View, Meanwhile

\* A step of the viewer keeps what is known of the archive.
LEMMA ViewerShows ==
  ASSUME SourceInv, ShownInv, View
  PROVE  ShownInv'
<1>1. /\ pc' = pc /\ error' = error /\ archive' = archive /\ layers' = layers
      /\ Served /\ view'.step # "none" /\ DOMAIN view' = Fields
      /\ view.moved => view'.moved
      /\ ~view'.moved => run' = run
      /\ SameButFile /\ seen \subseteq seen' /\ (local' \subseteq local \/ "moved" \in seen')
  BY ViewerKeeps
<1>2. Served' /\ Shown'
  BY <1>1 DEF Served, Done, Shown, ShownInv
<1>3. SecondLook' /\ ("moved" \notin seen' => local' \subseteq run'.local \cup run'.registered)
  BY <1>1 DEF ShownInv, SecondLook, SameButFile
<1> QED
  BY <1>1, <1>2, <1>3 DEF ShownInv

\* Nothing is known before the first call.
LEMMA ShownAtFirst ==
  ASSUME ViewInit
  PROVE  ShownInv
<1>1. pc = "select" /\ local = run.local /\ view = NoView
  BY DEF ViewInit, Init
<1> QED
  BY <1>1 DEF ShownInv, Served, Done, NoView, Fields

\* What is shown is what the archive lists, in every state.
LEMMA ShownAlways == ViewSpec => []ShownInv
<1>1. ViewInit => ShownInv
  BY ShownAtFirst
<1>2. SourceInv /\ ShownInv /\ [ViewNext]_viewVars => ShownInv'
  <2>1. SUFFICES ASSUME SourceInv, ShownInv, [ViewNext]_viewVars PROVE ShownInv'
    OBVIOUS
  <2>2. CASE UNCHANGED viewVars
    BY <2>1, <2>2 DEF viewVars, vars, ShownInv, Shown, SecondLook, Served, Done
  <2>3. CASE Next /\ UNCHANGED view
    BY <2>1, <2>3, ResolverShows
  <2>4. CASE View
    BY <2>1, <2>4, ViewerShows
  <2> QED
    BY <2>1, <2>2, <2>3, <2>4 DEF ViewNext
<1> QED
  BY <1>1, <1>2, Invariant, PTL DEF ViewSpec

-----------------------------------------------------------------------------
\* Every layer of the image's manifest is listed in its order, with the tree of
\* the blob it names and a command of the history that made a layer
\* (parseLayersFromManifest), whatever the archive holds, in whatever order
\* its entries come, and however the image came to be exported.
THEOREM ListsTheLayers == ViewSpec => []LayersListed
<1>1. ShownInv => LayersListed
  BY ShownListed DEF ShownInv, LayersListed
<1> QED
  BY <1>1, ShownAlways, PTL

-----------------------------------------------------------------------------
(* The viewer.                                                             *)

\* What ViewsListed has the viewer show.
Answered ==
  LET speaking == Speaking(view.path, view.layer)
      top == Max(speaking)
      says == IF speaking = {} THEN "not found" ELSE Tells[layers[top].tree][view.path]
  IN  \/ /\ view.end = says
         /\ says = "found" => view.tree = layers[top].tree
      \/ view.end \in {"canceled", "unreachable", "odd"} /\ run.ref # "path"

\* A request is of a layer that is listed, and as long as nothing makes its
\* export one of another image it reads the archive that was listed.
ViewInv ==
  /\ view.step # "none" => view.layer \in DOMAIN layers
  /\ view.step \in {"none", "export"} => view.told
  /\ view.step = "spool" => run.ref # "path"
  /\ view.step \in {"spool", "walk"} /\ SameImage => view.archive = archive
  /\ view.step = "done" /\ SameImage /\ OneBlobEach => Answered

\* Where every name is that of one blob, a layer's tar tells of a path what its
\* tree does.
LEMMA LayerTold ==
  ASSUME Shown, OneBlobEach,
         NEW from, from = archive[1], NEW manifest, manifest = readImageArchiveMetadata(from).manifest,
         NEW cursor \in DOMAIN layers, NEW k \in 1..cursor, NEW path
  PROVE  /\ LayerTells(from, manifest, cursor, k, path) =
               IF Speaks(layers[k].tree, path) THEN Tells[layers[k].tree][path] ELSE "absent"
         /\ Speaks(layers[k].tree, path) => FirstOf(from, manifest.layers[k]).body.tree = layers[k].tree
         /\ k \in DOMAIN layers
<1> DEFINE name == manifest.layers[k]
           blob == FirstOf(from, name)
           n == Len(manifest.layers)
<1>1. PICK config : config = ConfigBody(from, manifest.config)
  OBVIOUS
<1>2. /\ IsArchive(from) /\ ~readImageArchiveMetadata(from).error
      /\ ~parseLayersFromManifest(from, manifest).error
      /\ layers = parseLayersFromManifest(from, manifest).layers
  BY DEF Shown
<1>3. manifest.layers \in Seq(STRING) /\ IsListed(layers, from, manifest, config)
  BY <1>1, <1>2, ArchiveListed
<1>4. /\ n \in Nat /\ DOMAIN layers = 1..n /\ DOMAIN manifest.layers = 1..n
      /\ cursor \in 1..n /\ k \in 1..n
  BY <1>3 DEF IsListed
<1>5. /\ layers[k].path = name /\ Has(from, name)
      /\ layers[k].tree = TreeOf(LastOf(from, name))
  BY <1>3, <1>4 DEF IsListed
<1>6. name \in keepNames(manifest, cursor)
  <2>1. Min({cursor, n}) = cursor
    BY <1>4 DEF Min
  <2> QED
    BY <1>4, <2>1 DEF keepNames
<1>7. LastOf(from, name) = blob
  <2>1. Cardinality(At(from, name)) = 1
    BY <1>4, <1>5 DEF OneBlobEach
  <2>2. \E j : At(from, name) = {j}
    <3>1. IsFiniteSet(DOMAIN from.entries)
      <4> DEFINE H == ToSet(from.entries)
      <4>1. from.entries \in Seq(H)
        BY <1>2 DEF IsArchive
      <4> HIDE DEF H
      <4>2. Len(from.entries) \in Nat /\ DOMAIN from.entries = 1..Len(from.entries)
        BY <4>1
      <4> QED
        BY <4>2, FS_Interval
    <3>2. At(from, name) \subseteq DOMAIN from.entries
      BY DEF At
    <3>3. IsFiniteSet(At(from, name))
      BY <3>1, <3>2, FS_Subset
    <3> HIDE DEF name
    <3> QED
      BY <2>1, <3>3, FS_Singleton
  <2>3. Min(At(from, name)) \in At(from, name) /\ Max(At(from, name)) \in At(from, name)
    BY <1>2, <1>5, PlacesOfName
  <2>4. Min(At(from, name)) = Max(At(from, name))
    BY <2>2, <2>3
  <2> QED
    BY <2>4 DEF FirstOf, LastOf
<1>8. ~BadLayer(blob)
  <2>1. PICK j \in At(from, name) : blob = from.entries[j]
    BY <1>2, <1>5, PlacesOfName DEF FirstOf
  <2>2. j \in DOMAIN from.entries /\ from.entries[j].name = name
    BY DEF At
  <2>3. k \in keep(manifest, name)
    BY <1>4 DEF keep
  <2>4. \A m \in DOMAIN from.entries :
           keep(manifest, from.entries[m].name) # {} => ~BadLayer(from.entries[m])
    BY <1>1, <1>2, Parsed
  <2> QED
    BY <2>1, <2>2, <2>3, <2>4
<1>9. ~Speaks(EmptyTree, path)
  BY TellsAssumption DEF Speaks
<1>10. Speaks(layers[k].tree, path) => blob.size # 0 /\ blob.body.tree = layers[k].tree
  BY <1>5, <1>7, <1>9 DEF TreeOf
<1>11. blob.size # 0 => blob.body.tree = layers[k].tree
  BY <1>5, <1>7 DEF TreeOf
<1>12. LayerTells(from, manifest, cursor, k, path) =
          IF blob.size = 0 THEN "absent"
          ELSE IF Speaks(blob.body.tree, path) THEN Tells[blob.body.tree][path]
          ELSE "absent"
  BY <1>5, <1>6, <1>8 DEF LayerTells
<1> HIDE DEF blob, name
<1>13. LayerTells(from, manifest, cursor, k, path) =
               IF Speaks(layers[k].tree, path) THEN Tells[layers[k].tree][path] ELSE "absent"
  BY <1>10, <1>11, <1>12
<1> QED
  BY <1>4, <1>10, <1>13 DEF blob, name

\* The walk over the archive that was listed ends as the listed trees say.
LEMMA WalkAnswers ==
  ASSUME Shown, OneBlobEach, Walk, DOMAIN view = Fields, view.archive = archive,
         view.layer \in DOMAIN layers
  PROVE  Answered'
<1>1. PICK from : from = archive[1]
  OBVIOUS
<1>2. PICK manifest : manifest = readImageArchiveMetadata(from).manifest
  OBVIOUS
<1>3. PICK cursor \in DOMAIN layers : cursor = view.layer
  OBVIOUS
<1>4. PICK path : path = view.path
  OBVIOUS
<1> DEFINE Tell(k) == LayerTells(from, manifest, cursor, k, path)
           hits == {k \in 1..cursor : Tell(k) # "absent"}
           hit == Max(hits)
           speaking == Speaking(path, cursor)
<1>5. /\ ~readImageArchiveMetadata(from).error
      /\ ~parseLayersFromManifest(from, manifest).error
      /\ layers = parseLayersFromManifest(from, manifest).layers /\ IsArchive(from)
  BY <1>1, <1>2 DEF Shown
<1>6. cursor \in Nat /\ ~(cursor > Len(manifest.layers))
  <2>1. PICK config : config = ConfigBody(from, manifest.config)
    OBVIOUS
  <2>2. manifest.layers \in Seq(STRING) /\ IsListed(layers, from, manifest, config)
    BY <1>2, <1>5, <2>1, ArchiveListed
  <2> QED
    BY <2>2 DEF IsListed
<1>7. \A k \in 1..cursor :
         /\ Tell(k) = IF Speaks(layers[k].tree, path) THEN Tells[layers[k].tree][path] ELSE "absent"
         /\ Speaks(layers[k].tree, path) =>
               FirstOf(from, manifest.layers[k]).body.tree = layers[k].tree
  BY <1>1, <1>2, LayerTold
<1>8. \A tree : Speaks(tree, path) => Tells[tree][path] # "absent"
  BY TellsAssumption DEF Speaks
<1>9. hits = speaking
  BY <1>7, <1>8 DEF Speaking
<1>10. \/ hits = {} /\ Ends("not found", NoTree)
       \/ hits # {} /\ Tell(hit) # "found" /\ Ends(Tell(hit), NoTree)
       \/ /\ hits # {} /\ Tell(hit) = "found"
          /\ Ends("found", FirstOf(from, manifest.layers[hit]).body.tree)
  BY <1>1, <1>2, <1>3, <1>4, <1>5, <1>6 DEF Walk
<1>11. hits # {} => hit \in speaking
  <2>1. hits \subseteq 1..cursor
    OBVIOUS
  <2> HIDE DEF hits
  <2> QED
    BY <1>6, <1>9, <2>1, Extremes
<1>12. hits # {} => /\ Tell(hit) = Tells[layers[hit].tree][path]
                    /\ FirstOf(from, manifest.layers[hit]).body.tree = layers[hit].tree
  BY <1>7, <1>11 DEF Speaking
<1>13. layers' = layers /\ view'.path = path /\ view'.layer = cursor
  BY <1>3, <1>4, ViewSteps DEF Walk, Request, vars
<1>14. Speaking(view.path, view.layer)' = speaking
  BY <1>13 DEF Speaking
<1> HIDE DEF hits, Tell, speaking
<1>15. CASE hits = {} /\ Ends("not found", NoTree)
  BY <1>9, <1>14, <1>15, Ended DEF Answered
<1>16. CASE hits # {} /\ Tell(hit) # "found" /\ Ends(Tell(hit), NoTree)
  BY <1>9, <1>12, <1>13, <1>14, <1>16, Ended DEF Answered
<1>17. CASE /\ hits # {} /\ Tell(hit) = "found"
            /\ Ends("found", FirstOf(from, manifest.layers[hit]).body.tree)
  BY <1>9, <1>12, <1>13, <1>14, <1>17, Ended DEF Answered
<1> QED
  BY <1>10, <1>15, <1>16, <1>17

\* What a second export is limited to when the engine tells its platform both
\* times: the platform that is wanted.
LEMMA SameScope ==
  ASSUME NEW opts \in imageSaveOpts, run.ref # "path",
         run.ref = "tag" /\ ~Pinned => opts.told /\ run.api >= 48, IsScenario(run)
  PROVE  opts.platform = Wanted
<1>1. CASE Pinned
  BY <1>1 DEF imageSaveOpts, Wanted
<1>2. CASE ~Pinned /\ run.ref = "digest"
  BY <1>2 DEF imageSaveOpts, Wanted
<1>3. CASE ~Pinned /\ run.ref # "digest"
  <2>1. run.ref = "tag" /\ run.api \in Nat /\ ~(run.api < 48)
    BY <1>3 DEF IsScenario
  <2>2. PICK p \in daemonPlatform : opts = [platform |-> p, told |-> p # <<>>]
    BY <1>3, <2>1 DEF imageSaveOpts
  <2>3. p = <<NativePlatform>>
    BY <1>3, <2>1, <2>2 DEF daemonPlatform
  <2> QED
    BY <1>3, <2>2, <2>3 DEF Wanted
<1> QED
  BY <1>1, <1>2, <1>3

\* What is exported again, when nothing makes it another image, is what was
\* analysed.
LEMMA SameExport ==
  ASSUME SourceInv, ShownInv, Served, run.ref # "path", SameImage,
         NEW opts \in imageSaveOpts, run.ref = "tag" /\ ~Pinned => opts.told,
         NEW v \in Matching(local, opts.platform)
  PROVE  archive = <<v.archive>>
<1>1. /\ "moved" \notin seen /\ SecondLook /\ local \subseteq run.local \cup run.registered
      /\ IsScenario(run) /\ run.api \in Nat
  BY DEF SameImage, ShownInv, SourceInv, FlowInv, IsScenario
<1>2. v \in local /\ PlatformsEqual(opts.platform, <<v.platform>>)
  BY DEF Matching
<1>3. CASE ~run.several
  BY <1>1, <1>2, <1>3 DEF SecondLook
<1>4. CASE run.several
  <2>1. PICK w \in run.local \cup run.registered :
           /\ archive = <<w.archive>> /\ PlatformsEqual(pin, <<w.platform>>)
           /\ OwnAsked /\ run.api >= 48 => IsOwn(w)
    BY <1>1 DEF SourceInv, ArchiveInv, Fitting, Variants
  <2>2. run.ref = "tag" /\ ~Pinned => "noInfo" \notin seen /\ run.api >= 48
    BY <1>4 DEF SameImage
  <2>3. opts.platform = Wanted
    BY <1>1, <2>2, SameScope
  <2>4. PlatformsEqual(Wanted, <<w.platform>>)
    <3>1. CASE Pinned
      BY <2>1, <3>1 DEF Wanted
    <3>2. CASE ~Pinned /\ run.ref = "digest"
      BY <3>2, NoWish DEF Wanted
    <3>3. CASE ~Pinned /\ run.ref # "digest"
      <4>1. run.ref = "tag"
        BY <1>1, <3>3 DEF IsScenario
      <4>2. IsOwn(w)
        BY <2>1, <2>2, <3>3, <4>1 DEF OwnAsked
      <4> QED
        BY <3>3, <4>2 DEF Wanted, IsOwn
    <3> QED
      BY <3>1, <3>2, <3>3
  <2>5. /\ v \in Matching(run.local \cup run.registered, Wanted)
        /\ w \in Matching(run.local \cup run.registered, Wanted)
    BY <1>1, <1>2, <2>3, <2>4 DEF Matching
  <2>6. v = w
    BY <1>4, <2>5 DEF SameImage
  <2> QED
    BY <2>1, <2>6
<1> QED
  BY <1>3, <1>4

\* A step of the viewer after which its image is still the same: it was so
\* before, and nothing of the run has changed.
LEMMA StillSame ==
  ASSUME SourceInv, ShownInv, ViewInv, View, SameImage'
  PROVE  /\ SameImage /\ run' = run /\ archive' = archive /\ layers' = layers /\ Served
         /\ (OneBlobEach' <=> OneBlobEach) /\ Shown
<1>1. /\ archive' = archive /\ layers' = layers /\ Served /\ ~view'.moved /\ ~view.moved
      /\ run' = run
  BY ViewerKeeps DEF SameImage
<1>2. seen \subseteq seen'
  BY ViewerKeeps
<1>3. Pinned' = Pinned /\ Wanted' = Wanted
  BY <1>1, SameScenario DEF Wanted
<1>4. run.ref = "tag" /\ ~Pinned => view.told
  <2>1. view.step \in {"none", "export"} \/ view'.told = view.told
    <3>1. CASE Request \/ OpenAgain \/ ExportAgain
      BY <3>1 DEF Request, OpenAgain, ExportAgain
    <3>2. CASE SpoolAgain
      <4>1. view' = [view EXCEPT !.step = "walk"] \/ \E end, tree : Ends(end, tree)
        BY <3>2 DEF SpoolAgain
      <4> QED
        BY <4>1, Ended DEF ShownInv, Fields
    <3>3. CASE Walk \/ Close
      <4>1. \E end, tree : Ends(end, tree)
        BY <3>3 DEF Walk, Close
      <4> QED
        BY <4>1, Ended DEF ShownInv
    <3>4. CASE Meanwhile /\ UNCHANGED view
      BY <3>4
    <3> QED
      BY <1>1, <3>1, <3>2, <3>3, <3>4 DEF View, Meanwhile, MoveFile, ShownInv, Fields
  <2> QED
    BY <1>1, <1>3, <2>1 DEF ViewInv, SameImage
<1>5. SameImage
  BY <1>1, <1>2, <1>3, <1>4 DEF SameImage, Matching
<1>6. (OneBlobEach' <=> OneBlobEach) /\ Shown
  BY <1>1 DEF OneBlobEach, ShownInv
<1> QED
  BY <1>1, <1>5, <1>6

\* Every step keeps what is known of the request.
LEMMA ViewerRuns ==
  ASSUME SourceInv, ShownInv, ViewInv, View
  PROVE  ViewInv'
<1>1. /\ layers' = layers /\ view'.step # "none" /\ DOMAIN view = Fields
      /\ ~view'.moved => run' = run
  BY ViewerKeeps DEF ShownInv
<1>2. SameImage' => /\ SameImage /\ run' = run /\ archive' = archive /\ layers' = layers /\ Served
                    /\ (OneBlobEach' <=> OneBlobEach) /\ Shown
  BY StillSame
<1>3. CASE Request
  <2>1. view'.step = "export" /\ view'.told = view.told /\ view'.layer \in DOMAIN layers /\ view.told
    BY <1>1, <1>3, ViewSteps DEF Request, ViewInv
  <2> QED
    BY <1>1, <2>1 DEF ViewInv
<1>4. CASE OpenAgain
  <2>1. view'.layer \in DOMAIN layers /\ run.ref = "path"
    BY <1>1, <1>4, ViewSteps DEF ViewInv, OpenAgain
  <2>2. CASE run.file.open # "ok" /\ Ends("gone", NoTree)
    <3>1. ~SameImage'
      BY <1>2, <2>1, <2>2 DEF SameImage, ShownInv, SecondLook
    <3> QED
      BY <1>1, <1>2, <2>1, <2>2, <3>1, Ended DEF ViewInv
  <2>3. CASE view' = [view EXCEPT !.step = "walk", !.archive = <<run.file>>]
    <3>1. view'.step = "walk" /\ view'.archive = <<run.file>>
      BY <1>1, <2>3 DEF Fields
    <3>2. SameImage' => archive = <<run.file>>
      BY <1>2, <2>1 DEF SameImage, ShownInv, SecondLook
    <3> QED
      BY <1>1, <1>2, <2>1, <3>1, <3>2 DEF ViewInv
  <2> QED
    BY <1>4, <2>2, <2>3 DEF OpenAgain
<1>5. CASE ExportAgain
  <2>1. view'.layer \in DOMAIN layers /\ run.ref # "path" /\ run' = run
    BY <1>1, <1>5, ViewSteps DEF ViewInv, ExportAgain, vars
  <2>2. PICK opts \in imageSaveOpts : \E reply \in ImageSave(opts.platform) :
          IF reply.kind = "archive"
          THEN view' = [view EXCEPT !.step = "spool", !.archive = <<reply.of>>, !.told = opts.told]
          ELSE Ends(reply.kind, NoTree)
    BY <1>5 DEF ExportAgain
  <2>3. PICK reply \in ImageSave(opts.platform) :
          IF reply.kind = "archive"
          THEN view' = [view EXCEPT !.step = "spool", !.archive = <<reply.of>>, !.told = opts.told]
          ELSE Ends(reply.kind, NoTree)
    BY <2>2
  <2>4. \/ reply.kind \in {"canceled", "unreachable", "odd"}
        \/ \E v \in Matching(local, opts.platform) : reply = [kind |-> "archive", of |-> v.archive]
    BY Replied, Kinds DEF ImageSave
  <2>5. CASE reply.kind \in {"canceled", "unreachable", "odd"}
    <3>1. /\ view'.step = "done" /\ view'.end \in {"canceled", "unreachable", "odd"}
      BY <1>1, <2>3, <2>5, Ended
    <3> QED
      BY <1>1, <2>1, <3>1 DEF ViewInv, Answered
  <2>6. CASE \E v \in Matching(local, opts.platform) : reply = [kind |-> "archive", of |-> v.archive]
    <3>1. PICK v \in Matching(local, opts.platform) : reply = [kind |-> "archive", of |-> v.archive]
      BY <2>6
    <3>2. view'.step = "spool" /\ view'.archive = <<v.archive>> /\ view'.told = opts.told
      BY <1>1, <2>3, <3>1 DEF Fields
    <3>3. SameImage' => (run.ref = "tag" /\ ~Pinned => opts.told)
      BY <1>2, <3>2, SameScenario DEF SameImage
    <3>4. SameImage' => archive = <<v.archive>>
      BY <1>2, <2>1, <3>3, SameExport
    <3> QED
      BY <1>1, <1>2, <2>1, <3>2, <3>4 DEF ViewInv
  <2> QED
    BY <2>4, <2>5, <2>6
<1>6. CASE SpoolAgain
  <2>1. view'.layer \in DOMAIN layers /\ run.ref # "path" /\ run' = run
    BY <1>1, <1>6, ViewSteps DEF ViewInv, SpoolAgain, vars
  <2>2. PICK reply \in Replies({[kind |-> "whole"]}) :
          IF reply.kind = "whole" THEN view' = [view EXCEPT !.step = "walk"]
          ELSE Ends(reply.kind, NoTree)
    BY <1>6 DEF SpoolAgain
  <2>3. reply.kind \in {"canceled", "unreachable", "odd", "whole"}
    BY Replied, Kinds
  <2>4. CASE reply.kind = "whole"
    <3>1. view'.step = "walk" /\ view'.archive = view.archive /\ view.step = "spool"
      BY <1>1, <1>6, <2>2, <2>4 DEF Fields, SpoolAgain
    <3> QED
      BY <1>1, <1>2, <2>1, <3>1 DEF ViewInv
  <2>5. CASE reply.kind \in {"canceled", "unreachable", "odd"}
    <3>1. /\ view'.step = "done" /\ view'.end \in {"canceled", "unreachable", "odd"}
      BY <1>1, <2>2, <2>5, Ended
    <3> QED
      BY <1>1, <2>1, <3>1 DEF ViewInv, Answered
  <2> QED
    BY <2>3, <2>4, <2>5
<1>7. CASE Walk
  <2>1. view'.step = "done" /\ view'.layer \in DOMAIN layers /\ view.layer \in DOMAIN layers
    <3>1. \E end, tree : Ends(end, tree)
      BY <1>7 DEF Walk
    <3> QED
      BY <1>1, <1>7, <3>1, Ended DEF ViewInv, Walk
  <2>2. SameImage' => view.archive = archive
    BY <1>2, <1>7 DEF ViewInv, Walk
  <2>3. SameImage' /\ OneBlobEach' => Answered'
    BY <1>1, <1>2, <1>7, <2>1, <2>2, WalkAnswers
  <2> QED
    BY <1>1, <2>1, <2>3 DEF ViewInv
<1>8. CASE Close
  <2>1. /\ view'.step = "done" /\ view'.end = "canceled" /\ run' = run /\ run.ref # "path"
        /\ view'.layer \in DOMAIN layers
    BY <1>1, <1>8, Ended DEF Close, ViewInv, vars
  <2> QED
    BY <1>1, <2>1 DEF ViewInv, Answered
<1>9. CASE Meanwhile /\ MoveFile
  <2>1. view' = [view EXCEPT !.moved = TRUE] /\ view.step \notin {"none", "done"}
    BY <1>9 DEF Meanwhile, MoveFile
  <2>2. /\ view'.moved /\ view'.step = view.step /\ view'.layer = view.layer /\ view'.told = view.told
    BY <1>1, <2>1 DEF Fields
  <2>3. ~SameImage' /\ (run.ref # "path" => run'.ref # "path")
    BY <1>1, <1>9, <2>2 DEF SameImage, MoveFile
  <2> QED
    BY <1>1, <2>1, <2>2, <2>3 DEF ViewInv
<1>10. CASE Meanwhile /\ view' = view /\ (Turn \/ RemoveImage \/ MoveTag)
  <2>1. view.step \notin {"none", "done"} /\ view' = view /\ run' = run /\ archive' = archive
    BY <1>10 DEF Meanwhile, Turn, RemoveImage, MoveTag, still
  <2> QED
    BY <1>1, <1>2, <2>1 DEF ViewInv
<1> QED
  BY <1>3, <1>4, <1>5, <1>6, <1>7, <1>8, <1>9, <1>10 DEF View, Meanwhile

\* A request starts from none, and the resolver knows of none.
LEMMA ViewAlways == ViewSpec => []ViewInv
<1>1. ViewInit => ViewInv
  <2>1. NoView.step = "none" /\ NoView.told
    BY DEF NoView
  <2>2. ViewInit => view = NoView
    BY DEF ViewInit
  <2> QED
    BY <2>1, <2>2 DEF ViewInv
<1>2. SourceInv /\ ShownInv /\ ViewInv /\ [ViewNext]_viewVars => ViewInv'
  <2>1. SUFFICES ASSUME SourceInv, ShownInv, ViewInv, [ViewNext]_viewVars PROVE ViewInv'
    OBVIOUS
  <2>2. CASE UNCHANGED viewVars
    <3>1. UNCHANGED vars /\ view' = view
      BY <2>2 DEF viewVars
    <3>2. /\ layers' = layers /\ archive' = archive /\ run' = run /\ seen' = seen
      BY <3>1 DEF vars
    <3>3. SameImage' => SameImage
      <4>1. Pinned' = Pinned /\ Wanted' = Wanted
        BY <3>2, SameScenario DEF Wanted
      <4> QED
        BY <3>1, <3>2, <4>1 DEF SameImage, Matching
    <3>4. (OneBlobEach' => OneBlobEach) /\ (Answered => Answered')
      BY <3>1, <3>2 DEF OneBlobEach, Answered, Speaking
    <3> QED
      BY <2>1, <3>1, <3>2, <3>3, <3>4 DEF ViewInv
  <2>3. CASE Next /\ UNCHANGED view
    <3>1. pc # "done"
      BY <2>1, <2>3, NotYet DEF Next, Open, Save, Spool, Parse, World
    <3>2. view' = NoView
      BY <2>1, <2>3, <3>1, Unasked DEF ShownInv
    <3> QED
      BY <3>2 DEF ViewInv, NoView
  <2>4. CASE View
    BY <2>1, <2>4, ViewerRuns
  <2> QED
    BY <2>1, <2>2, <2>3, <2>4 DEF ViewNext
<1> QED
  BY <1>1, <1>2, Invariant, ShownAlways, PTL DEF ViewSpec

\* The viewer shows the copy of the file that the topmost listed layer with the
\* path has, from the selected one down, or says why there is none: the second
\* export and the second walk (loadLayerSource, walkBackForFile), worked out
\* on their own, agree with the analysis for any image, engine and path, as
\* long as nothing has made the reference one of another image.
THEOREM ShowsTheListed == ViewSpec => []ViewsListed
<1>1. ViewInv => ViewsListed
  BY Zenon DEF ViewInv, ViewsListed, Answered
<1> QED
  BY <1>1, ViewAlways, PTL

-----------------------------------------------------------------------------
(* The tars of the layers.                                                 *)

\* The regular files of an upper directory are entries of the tar that made it,
\* stored in that layer.
Recorded(entries, above, layer) ==
  \A q \in DOMAIN above : above[q].kind = "reg" =>
     /\ above[q].inode = <<q, layer>>
     /\ \E k \in DOMAIN entries : entries[k].path = q /\ entries[k].type = "reg"

\* An entry that is put over an upper directory is recorded as the others are.
LEMMA PutRecords ==
  ASSUME NEW entries, NEW above, NEW layer, Recorded(entries, above, layer),
         NEW e, NEW attr, NEW longer,
         attr.kind = "reg" => e.type = "reg" /\ attr.inode = <<e.path, layer>>,
         \E k \in DOMAIN longer : longer[k] = e,
         \A k \in DOMAIN entries : k \in DOMAIN longer /\ longer[k] = entries[k]
  PROVE  Recorded(longer, Put(above, e.path, attr), layer)
<1> DEFINE p == e.path
           stays == {q \in DOMAIN above : attr.kind = "dir" \/ ~IsStrictPrefix(p, q)}
           D == stays \cup Ancestors(p) \cup {p}
           put == [q \in D |-> IF q = p THEN attr
                               ELSE IF q \in Ancestors(p) /\ ~IsDirIn(above, q) THEN DefaultDir
                               ELSE above[q]]
<1>1. Put(above, p, attr) = put
  BY DEF Put
<1>2. DefaultDir.kind # "reg"
  BY DEF DefaultDir
<1>3. ASSUME NEW q \in D, put[q].kind = "reg"
      PROVE  (q = p /\ put[q] = attr) \/ (q \in DOMAIN above /\ put[q] = above[q])
  <2>1. q \in Ancestors(p) /\ IsDirIn(above, q) => q \in DOMAIN above
    BY DEF IsDirIn
  <2> QED
    BY <1>2, <1>3, <2>1
<1> HIDE DEF D
<1>4. DOMAIN put = D
  OBVIOUS
<1> HIDE DEF put
<1>5. ASSUME NEW q \in D, put[q].kind = "reg"
      PROVE  /\ put[q].inode = <<q, layer>>
             /\ \E k \in DOMAIN longer : longer[k].path = q /\ longer[k].type = "reg"
  BY <1>3, <1>5 DEF Recorded
<1> QED
  BY <1>1, <1>4, <1>5 DEF Recorded

\* A regular file of a layer over a file system is an entry of the layer's tar,
\* or it was there before and the tar has nothing of it.
LEMMA OverTells ==
  ASSUME NEW f, \A q \in DOMAIN f : ~IsMarkerPath(q),
         NEW above, NEW layer, NEW entries, Recorded(entries, above, layer),
         \A k \in DOMAIN entries : entries[k].path \in DOMAIN above,
         NEW over, over = Over(f, above), NEW p \in DOMAIN over, over[p].kind = "reg"
  PROVE  \/ FindFileInLayer(entries, p) = "found" /\ over[p].inode = <<p, layer>>
         \/ FindFileInLayer(entries, p) = "absent" /\ p \in DOMAIN f /\ over[p] = f[p]
<1> DEFINE kept == {q \in DOMAIN f : ~Hides(above, q)}
           plain == {q \in DOMAIN above : ~IsMarkerPath(q)}
<1>1. over = [q \in kept \cup plain |->
                 IF q \in plain /\ ~(above[q].inferred /\ q \in kept /\ IsDirIn(f, q)) THEN above[q] ELSE f[q]]
  BY Zenon DEF Over
<1>2. p \in kept \cup plain
  BY <1>1
<1>3. CASE p \in plain
  <2>1. over[p] = above[p] \/ (IsDirIn(f, p) /\ over[p] = f[p])
    BY <1>1, <1>2, <1>3
  <2>2. over[p] = above[p]
    BY <2>1 DEF IsDirIn
  <2>3. /\ above[p].inode = <<p, layer>>
        /\ \E k \in DOMAIN entries : entries[k].path = p /\ entries[k].type = "reg"
    BY <1>3, <2>2 DEF Recorded
  <2>4. FindFileInLayer(entries, p) = "found"
    BY <2>3 DEF FindFileInLayer
  <2> QED
    BY <2>2, <2>3, <2>4
<1>4. CASE p \notin plain
  <2>1. p \in kept /\ over[p] = f[p]
    BY <1>1, <1>2, <1>4
  <2>2. p \notin DOMAIN above
    BY <1>4, <2>1
  <2>3. \A k \in DOMAIN entries : entries[k].path # p
    BY <2>2
  <2>4. ASSUME NEW k \in DOMAIN entries, Removes(entries[k], p) PROVE FALSE
    <3>1. PICK m : m = entries[k].path
      OBVIOUS
    <3>2. m \in DOMAIN above /\ Last(m) \notin Names
      BY <2>4, <3>1 DEF Removes, Mark, IsMarker
    <3>3. IF Last(m) = Opq THEN IsStrictPrefix(Front(m), p)
                           ELSE IsPrefix(Append(Front(m), Last(m)[2]), p)
      BY <2>4, <3>1 DEF Removes
    <3>4. Hides(above, p)
      BY <3>2, <3>3 DEF Hides
    <3> QED
      BY <2>1, <3>4
  <2>5. FindFileInLayer(entries, p) = "absent"
    BY <2>3, <2>4 DEF FindFileInLayer
  <2> QED
    BY <2>1, <2>5
<1> QED
  BY <1>3, <1>4

\* A sequence, whatever it is of.
IsSeq(s) == \E S : s \in Seq(S)

\* What appending does to a sequence.
LEMMA Appended ==
  ASSUME NEW s, IsSeq(s), NEW e
  PROVE  /\ Len(s) \in Nat /\ DOMAIN s = 1..Len(s)
         /\ IsSeq(Append(s, e)) /\ Len(Append(s, e)) = Len(s) + 1
         /\ DOMAIN Append(s, e) = 1..(Len(s) + 1)
         /\ Append(s, e)[Len(s) + 1] = e
         /\ \A i \in 1..Len(s) : Append(s, e)[i] = s[i]
<1>1. PICK S : s \in Seq(S)
  BY DEF IsSeq
<1>2. PICK T : T = S \cup {e}
  OBVIOUS
<1>3. s \in Seq(T) /\ e \in T
  BY <1>1, <1>2
<1>4. Append(s, e) \in Seq(T)
  BY <1>3
<1>5. /\ Len(s) \in Nat /\ DOMAIN s = 1..Len(s)
      /\ Len(Append(s, e)) = Len(s) + 1
      /\ DOMAIN Append(s, e) = 1..(Len(s) + 1)
      /\ Append(s, e)[Len(s) + 1] = e
      /\ \A i \in 1..Len(s) : Append(s, e)[i] = s[i]
  BY <1>3
<1> QED
  BY <1>4, <1>5 DEF IsSeq

\* The walk back from a layer finds the copy of every regular file of the file
\* system there.
Viewed(i) ==
  \A p \in DOMAIN fs[i] : fs[i][p].kind = "reg" =>
     WalkBack(p, i) = [end |-> "found", layer |-> fs[i][p].inode[2]]

\* One upper directory and one file system for every tar, the one being read
\* included; markers are in no file system; and while no entry was wiped out,
\* every layer is viewed as it is mounted.
TarsInv ==
  /\ IsSeq(tar) /\ IsSeq(tars) /\ IsSeq(uppers) /\ IsSeq(fs)
  /\ Len(uppers) = Len(tars) /\ Len(fs) = Len(tars)
  /\ Recorded(tar, upper, This)
  /\ \A i \in 1..Len(tars) : \A p \in DOMAIN fs[i] : ~IsMarkerPath(p)
  /\ NoneWiped => \A i \in 1..Len(tars) : Viewed(i)

\* Nothing has been read.
LEMMA TarsStart ==
  ASSUME TarsInit
  PROVE  TarsInv
<1>1. /\ tars = <<>> /\ tar = <<>> /\ uppers = <<>> /\ fs = <<>>
      /\ upper = Empty
  BY DEF TarsInit
<1>2. <<>> \in Seq({}) /\ Len(<<>>) = 0
  OBVIOUS
<1>3. DOMAIN Empty = {}
  BY DEF Empty
<1>4. 1..0 = {}
  OBVIOUS
<1> QED
  BY <1>1, <1>2, <1>3, <1>4 DEF TarsInv, IsSeq, Recorded

\* An entry of the layer being read.
LEMMA EntryKeeps ==
  ASSUME TarsInv, NEW s \in Shapes, NextEntry(s)
  PROVE  TarsInv'
<1>1. tars' = tars /\ uppers' = uppers /\ fs' = fs /\ This' = This
  BY DEF NextEntry, This
<1>2. PICK e : tar' = Append(tar, e) /\ e.path = s.path /\ e.type = s.type
  BY DEF NextEntry
<1>3. upper' = Put(upper, e.path, Attr(s))
  BY <1>2 DEF NextEntry
<1>4. Attr(s).kind = "reg" => e.type = "reg" /\ Attr(s).inode = <<e.path, This>>
  BY <1>2 DEF Attr
<1>5. IsSeq(tar) /\ Recorded(tar, upper, This)
  BY DEF TarsInv
<1>6. /\ IsSeq(tar') /\ \E k \in DOMAIN tar' : tar'[k] = e
      /\ \A k \in DOMAIN tar : k \in DOMAIN tar' /\ tar'[k] = tar[k]
  BY <1>2, <1>5, Appended
<1>7. Recorded(tar', upper', This)
  BY <1>3, <1>4, <1>5, <1>6, PutRecords
<1>8. (NoneWiped' <=> NoneWiped) /\ \A i : Viewed(i)' <=> Viewed(i)
  BY <1>1 DEF NoneWiped, Viewed, WalkBack
<1> QED
  BY <1>1, <1>6, <1>7, <1>8 DEF TarsInv

\* The end of a layer's tar.
LEMMA EndKeeps ==
  ASSUME TarsInv, EndOfTar
  PROVE  TarsInv'
<1>0. PICK n : n = Len(tars)
  OBVIOUS
<1>1. /\ tars' = Append(tars, tar) /\ tar' = <<>> /\ uppers' = Append(uppers, upper)
      /\ upper' = Empty /\ fs' = Append(fs, Mount)
  BY DEF EndOfTar
<1>2. /\ IsSeq(tars) /\ IsSeq(uppers) /\ IsSeq(fs) /\ n \in Nat /\ Len(uppers) = n /\ Len(fs) = n
      /\ DOMAIN tars = 1..n /\ DOMAIN uppers = 1..n /\ DOMAIN fs = 1..n
  BY <1>0, Appended DEF TarsInv
<1>3. /\ IsSeq(tars') /\ Len(tars') = n + 1 /\ DOMAIN tars' = 1..(n + 1)
      /\ tars'[n + 1] = tar /\ \A i \in 1..n : tars'[i] = tars[i]
  BY <1>1, <1>2, Appended
<1>4. /\ IsSeq(uppers') /\ Len(uppers') = n + 1
      /\ uppers'[n + 1] = upper /\ \A i \in 1..n : uppers'[i] = uppers[i]
  BY <1>1, <1>2, Appended
<1>5. /\ IsSeq(fs') /\ Len(fs') = n + 1
      /\ fs'[n + 1] = Mount /\ \A i \in 1..n : fs'[i] = fs[i]
  BY <1>1, <1>2, Appended
<1>6. IsSeq(tar') /\ Recorded(tar', upper', This')
  <2>1. <<>> \in Seq({}) /\ DOMAIN Empty = {}
    BY DEF Empty
  <2> QED
    BY <1>1, <2>1 DEF IsSeq, Recorded
<1>7. (n = 0 /\ Below0 = Empty) \/ (n \in 1..n /\ Below0 = fs[n])
  <2>1. fs = <<>> => n = 0
    BY <1>2
  <2>2. n = 0 => fs = <<>>
    BY <1>2 DEF IsSeq
  <2> QED
    BY <1>2, <2>1, <2>2 DEF Below0, Last
<1>8. DOMAIN Empty = {}
  BY DEF Empty
<1>9. \A q \in DOMAIN Below0 : ~IsMarkerPath(q)
  BY <1>0, <1>7, <1>8 DEF TarsInv
<1>10. \A i \in 1..(n + 1) : i \in 1..n \/ i = n + 1
  BY <1>2
<1>11. \A p \in DOMAIN Mount : ~IsMarkerPath(p)
  BY <1>9 DEF Mount, Over
<1>12. \A i \in 1..(n + 1) : \A p \in DOMAIN fs'[i] : ~IsMarkerPath(p)
  BY <1>0, <1>5, <1>10, <1>11 DEF TarsInv
<1>13. ASSUME NEW i \in 1..n, NEW p
       PROVE  WalkBack(p, i)' = WalkBack(p, i)
  <2>1. \A j \in 1..i : tars'[j] = tars[j]
    BY <1>2, <1>3
  <2>2. {j \in 1..i : FindFileInLayer(tars'[j], p) # "absent"} = {j \in 1..i : FindFileInLayer(tars[j], p) # "absent"}
    BY <2>1
  <2>3. {j \in 1..i : FindFileInLayer(tars[j], p) # "absent"} # {} =>
           Max({j \in 1..i : FindFileInLayer(tars[j], p) # "absent"}) \in 1..i
    <3> DEFINE hits == {j \in 1..i : FindFileInLayer(tars[j], p) # "absent"}
    <3>1. hits \subseteq 1..i /\ i \in Nat
      OBVIOUS
    <3> HIDE DEF hits
    <3> QED
      BY <3>1, Extremes DEF hits
  <2> QED
    BY <2>1, <2>2, <2>3 DEF WalkBack
<1>14. ASSUME NoneWiped'
       PROVE  NoneWiped /\ \A k \in DOMAIN tar : tar[k].path \in DOMAIN upper
  <2>1. \A i \in 1..(n + 1) : \A k \in DOMAIN tars'[i] : tars'[i][k].path \in DOMAIN uppers'[i]
    BY <1>3, <1>14 DEF NoneWiped
  <2>2. n + 1 \in 1..(n + 1) /\ \A i \in 1..n : i \in 1..(n + 1)
    BY <1>2
  <2> QED
    BY <1>2, <1>3, <1>4, <2>1, <2>2 DEF NoneWiped
<1>15. ASSUME NoneWiped', NEW i \in 1..n
       PROVE  Viewed(i)'
  <2>1. Viewed(i)
    BY <1>0, <1>14, <1>15 DEF TarsInv
  <2> QED
    BY <1>5, <1>13, <2>1 DEF Viewed
<1>16. ASSUME NoneWiped', NEW p \in DOMAIN Mount, Mount[p].kind = "reg"
       PROVE  WalkBack(p, n + 1)' = [end |-> "found", layer |-> Mount[p].inode[2]]
  <2> DEFINE hits == {j \in 1..(n + 1) : FindFileInLayer(tars'[j], p) # "absent"}
  <2>1. \/ FindFileInLayer(tar, p) = "found" /\ Mount[p].inode = <<p, n + 1>>
        \/ FindFileInLayer(tar, p) = "absent" /\ p \in DOMAIN Below0 /\ Mount[p] = Below0[p]
    BY <1>0, <1>9, <1>14, <1>16, OverTells DEF Mount, TarsInv, This
  <2>2. CASE FindFileInLayer(tar, p) = "found" /\ Mount[p].inode = <<p, n + 1>>
    <3>1. n + 1 \in hits /\ hits \subseteq 1..(n + 1) /\ n + 1 \in Nat
      BY <1>2, <1>3, <2>2
    <3> HIDE DEF hits
    <3>2. Max(hits) \in hits /\ Max(hits) >= n + 1
      BY <3>1, Extremes
    <3>3. Max(hits) = n + 1
      <4>1. PICK m : m = Max(hits)
        OBVIOUS
      <4>2. m \in 1..(n + 1) /\ m >= n + 1 /\ n \in Nat
        BY <1>2, <3>1, <3>2, <4>1
      <4> QED
        BY <4>1, <4>2
    <3>4. Mount[p].inode[2] = n + 1
      BY <2>2
    <3> QED
      BY <1>3, <2>2, <3>1, <3>3, <3>4 DEF WalkBack, hits
  <2>3. CASE FindFileInLayer(tar, p) = "absent" /\ p \in DOMAIN Below0 /\ Mount[p] = Below0[p]
    <3>1. n \in 1..n /\ Below0 = fs[n]
      BY <1>7, <1>8, <2>3
    <3>2. Viewed(n)
      BY <1>0, <1>14, <1>16, <3>1 DEF TarsInv
    <3>3. WalkBack(p, n)' = [end |-> "found", layer |-> Mount[p].inode[2]]
      BY <1>13, <1>16, <2>3, <3>1, <3>2 DEF Viewed
    <3>4. hits = {j \in 1..n : FindFileInLayer(tars'[j], p) # "absent"}
      BY <1>2, <1>3, <1>10, <2>3
    <3> QED
      BY <3>3, <3>4 DEF WalkBack
  <2> QED
    BY <2>1, <2>2, <2>3
<1>17. ASSUME NoneWiped', NEW i \in 1..(n + 1)
       PROVE  Viewed(i)'
  <2>1. Viewed(n + 1)'
    BY <1>5, <1>16, <1>17 DEF Viewed
  <2> QED
    BY <1>10, <1>15, <1>17, <2>1
<1> QED
  BY <1>3, <1>4, <1>5, <1>6, <1>12, <1>17 DEF TarsInv

\* The invariant of the tars holds in every state.
LEMMA TarsAlways == TarsSpec => []TarsInv
<1>1. TarsInit => TarsInv
  BY TarsStart
<1>2. TarsInv /\ [TarsNext]_tarVars => TarsInv'
  <2>1. SUFFICES ASSUME TarsInv, [TarsNext]_tarVars PROVE TarsInv'
    OBVIOUS
  <2>2. CASE UNCHANGED tarVars
    <3>1. tars' = tars /\ tar' = tar /\ uppers' = uppers /\ upper' = upper /\ fs' = fs
      BY <2>2 DEF tarVars
    <3>2. This' = This /\ (NoneWiped' <=> NoneWiped) /\ \A i : Viewed(i)' <=> Viewed(i)
      BY <3>1 DEF This, NoneWiped, Viewed, WalkBack
    <3> QED
      BY <2>1, <3>1, <3>2 DEF TarsInv
  <2>3. CASE TarsNext
    BY <2>1, <2>3, EntryKeeps, EndKeeps DEF TarsNext
  <2> QED
    BY <2>1, <2>2, <2>3
<1> QED
  BY <1>1, <1>2, PTL DEF TarsSpec

\* Every regular file that an overlay mount of the layers shows can be viewed,
\* and what the walk back through the tars finds (ExtractFromLayer,
\* walkBackForFile) is the copy that is current at that layer, for any layers
\* with whiteouts, opaque directories, hard links and rewrites, in any number,
\* in which no tar wipes out an entry of its own.
THEOREM FindsTheLiveCopy == TarsSpec => []ExtractsLive
<1>1. ASSUME TarsInv PROVE ExtractsLive
  <2>1. SUFFICES ASSUME Fresh, NoneWiped PROVE Viewed(Top)
    BY DEF ExtractsLive, Viewed
  <2>2. Len(tars) \in 1..Len(tars)
    <3>1. IsSeq(tars) /\ tars # <<>>
      BY <1>1, <2>1 DEF TarsInv, Fresh
    <3> QED
      BY <3>1 DEF IsSeq
  <2> QED
    BY <1>1, <2>1, <2>2 DEF TarsInv, Top
<1> QED
  BY <1>1, TarsAlways, PTL
=============================================================================
