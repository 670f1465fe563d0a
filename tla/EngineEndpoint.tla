--------------------------- MODULE EngineEndpoint ---------------------------
(***************************************************************************)
(* Which container engine is talked to: image/engine and cmd/resolver.go.  *)
(*                                                                         *)
(* A setup is the environment variables, the configuration files of the    *)
(* two engines, the sockets that exist and the operating system.  A file   *)
(* is absent, unreadable (which includes one of more than 1 MiB),          *)
(* malformed or ok; the syntax inside is left out.                         *)
(***************************************************************************)
EXTENDS Sequences, SequencesExt

Unset == ""

Endpoint(host, source) == [error |-> Unset, engine |-> Unset, host |-> host, source |-> source]
Nowhere == Endpoint(Unset, Unset)
NoEndpoint(error) == [Nowhere EXCEPT !.error = error]
IsError(endpoint) == endpoint.error # Unset

FileError(file) == IF file.state = "malformed" THEN "ErrConfigMalformed" ELSE "other"
Broken(file) == file.state \in {"unreadable", "malformed"}

\* DOCKER_HOST, then DOCKER_CONTEXT, then currentContext; a context that is
\* not there is an error, one without a host is none.
dockerResolve(setup) ==
    LET named == IF setup.DOCKER_CONTEXT # Unset THEN setup.DOCKER_CONTEXT
                 ELSE IF setup.dockerConfig.state = "ok" THEN setup.dockerConfig.currentContext
                 ELSE Unset
        there == named \in DOMAIN setup.contexts
        context == setup.contexts[named]
    IN  IF setup.DOCKER_HOST # Unset THEN Endpoint(setup.DOCKER_HOST, "env:DOCKER_HOST")
        ELSE IF setup.DOCKER_CONTEXT = Unset /\ Broken(setup.dockerConfig)
             THEN NoEndpoint(FileError(setup.dockerConfig))
        ELSE IF named \in {Unset, "default"} THEN Nowhere
        ELSE IF ~there THEN NoEndpoint("ErrConnectionNotFound")
        ELSE IF Broken(context) THEN NoEndpoint(FileError(context))
        ELSE IF context.host = Unset THEN Nowhere
        ELSE Endpoint(context.host, "docker-context:")

\* The first file that is there, podman-connections.json before
\* containers.conf; a connection without a URI is dropped.
loadConnections(setup) ==
    LET there == {i \in DOMAIN setup.podmanFiles : setup.podmanFiles[i].state # "absent"}
        file == setup.podmanFiles[Min(there)]
        Given(conns) == {name \in DOMAIN conns : conns[name] # Unset}
        Loaded(error, conns, default) == [error |-> error, conns |-> conns, default |-> default]
    IN  IF there = {} THEN Loaded(Unset, [name \in {} |-> Unset], Unset)
        ELSE IF Broken(file) THEN Loaded(FileError(file), [name \in {} |-> Unset], Unset)
        ELSE Loaded(Unset, [name \in Given(file.conns) |-> file.conns[name]], file.default)

\* CONTAINER_HOST, then CONTAINER_CONNECTION or the default connection, and
\* DOCKER_HOST when nothing names a connection.
podmanResolve(setup) ==
    LET loaded == loadConnections(setup)
        requested == IF setup.CONTAINER_CONNECTION # Unset THEN setup.CONTAINER_CONNECTION
                     ELSE loaded.default
    IN  IF setup.CONTAINER_HOST # Unset THEN Endpoint(setup.CONTAINER_HOST, "env:CONTAINER_HOST")
        ELSE IF loaded.error # Unset THEN NoEndpoint(loaded.error)
        ELSE IF requested # Unset /\ requested \notin DOMAIN loaded.conns
             THEN NoEndpoint("ErrConnectionNotFound")
        ELSE IF requested # Unset THEN Endpoint(loaded.conns[requested], "podman-connection:")
        ELSE IF setup.DOCKER_HOST # Unset THEN Endpoint(setup.DOCKER_HOST, "env:DOCKER_HOST")
        ELSE Nowhere

-----------------------------------------------------------------------------
By(engine, endpoint) == [endpoint EXCEPT !.engine = engine]

DockerPipe == "//./pipe/docker_engine"

\* Where docker listens on each system; a user without a home has no first
\* socket on darwin, which is one that does not exist.
dockerSocketCandidates(setup) ==
    CASE setup.os = "linux" -> <<"/var/run/docker.sock">>
      [] setup.os = "darwin" -> <<"~/.docker/run/docker.sock", "/var/run/docker.sock">>
      [] setup.os = "windows" -> <<DockerPipe>>
      [] OTHER -> <<>>

podmanSocketCandidates(setup) ==
    IF setup.os = "linux" THEN <<"/run/user/podman.sock", "/run/podman/podman.sock">> ELSE <<>>

\* probeFirst: the first socket that exists.
Probe(setup, candidates, otherwise) ==
    LET found == SelectSeq(candidates, LAMBDA p : p \in setup.sockets)
    IN  IF found = <<>> THEN otherwise ELSE Endpoint(found[1], "socket")

\* No host leaves the client to DOCKER_HOST or its default socket.
dockerHost(setup) == By("docker", dockerResolve(setup))

podmanHost(setup) ==
    LET endpoint == podmanResolve(setup)
    IN  By("podman", IF IsError(endpoint) \/ endpoint.host # Unset THEN endpoint
                     ELSE IF setup.os # "linux" THEN NoEndpoint("ErrPodmanSocketNotSet")
                     ELSE Probe(setup, podmanSocketCandidates(setup), NoEndpoint("ErrNoEngineFound")))

\* Mutant: what cannot be read of one engine is passed over for the next.
FallsThrough(setup) ==
    LET docker == dockerResolve(setup)
        podman == podmanResolve(setup)
        onDocker == Probe(setup, dockerSocketCandidates(setup), Nowhere)
    IN  IF docker.host # Unset THEN By("docker", docker)
        ELSE IF podman.host # Unset THEN By("podman", podman)
        ELSE IF onDocker # Nowhere THEN By("docker", onDocker)
        ELSE By("podman", Probe(setup, podmanSocketCandidates(setup), NoEndpoint("ErrNoEngineFound")))

\* Docker's name, podman's name, docker's socket, podman's socket.
autoEngineHost(setup) ==
    LET docker == dockerResolve(setup)
        podman == podmanResolve(setup)
        onDocker == Probe(setup, dockerSocketCandidates(setup), Nowhere)
    IN  IF IsError(docker) \/ docker.host # Unset THEN By("docker", docker)
        ELSE IF IsError(podman) \/ podman.host # Unset THEN By("podman", podman)
        ELSE IF onDocker # Nowhere THEN By("docker", onDocker)
        ELSE By("podman", Probe(setup, podmanSocketCandidates(setup), NoEndpoint("ErrNoEngineFound")))

selectDockerLikeResolver(engine, setup) ==
    IF engine = "docker" THEN dockerHost(setup)
    ELSE IF engine = "podman" THEN podmanHost(setup)
    ELSE IF engine = "auto" THEN autoEngineHost(setup)
    ELSE NoEndpoint("other")
=============================================================================
