---------------------------- MODULE MCImageSource ----------------------------
(* Archives with shared, empty and missing layers, images for one or more  *)
(* platforms, and what names an engine or a login.                         *)
EXTENDS FileView, TLC

Platform(arch, variant) == [os |-> "linux", arch |-> arch, variant |-> variant]
Amd == Platform("amd64", "")
Arm7 == Platform("arm", "v7")
Arm == Platform("arm", "")
Unsaid == [os |-> "", arch |-> "", variant |-> ""]

Entry(name, size, body) == [name |-> name, size |-> size, body |-> body]
Blob(name, tree, bytes) == Entry(name, 1, [kind |-> "layer", tree |-> tree, bytes |-> bytes])
EmptyBlob(name) == Entry(name, 0, [kind |-> "empty"])
Made(command, empty) == [by |-> command, empty |-> empty]
Config(name, platform, history) ==
    Entry(name, 1, [kind |-> "config", platform |-> platform, history |-> history])
Manifests(list) == Entry("manifest.json", 1, [kind |-> "manifests", list |-> list])
Manifest(config, names) == [config |-> config, layers |-> names]
Oci(name, config, names) == Entry(name, 1, [kind |-> "oci", config |-> config, layers |-> names])
Index(digests) == Entry("index.json", 1, [kind |-> "index", digests |-> digests])
Tar(entries) == [open |-> "ok", torn |-> FALSE, entries |-> entries]

History == <<Made("FROM", FALSE), Made("ENV", TRUE), Made("RUN", FALSE), Made("COPY", FALSE)>>

\* One blob is the first and the last layer, the second is empty.
Saved(platform) ==
    Tar(<< Blob("a", "tree a", 2), Config("cfg.json", platform, History), EmptyBlob("b"),
           Manifests(<<Manifest("cfg.json", <<"a", "b", "a">>)>>) >>)
Layout(platform, history, names) ==
    Tar(<< Index(<<"m", "n">>), Oci("m", "c", names), Config("c", platform, history),
           Blob("a", "tree a", 2), Blob("b", "tree b", 3) >>)
Variant(platform) == [platform |-> platform, archive |-> Saved(platform)]
OciVariant(platform) == [platform |-> platform, archive |-> Layout(platform, History, <<"b", "a", "b">>)]

\* Archives a user may name: whole, of several images, and broken.
Files ==
    { Saved(Amd), Saved(Unsaid), Layout(Amd, History, <<"a", "b">>), Layout(Arm7, <<>>, <<"a", "a">>),
      Layout(Amd, SubSeq(History, 1, 2), <<"b", "a">>),
      [Saved(Amd) EXCEPT !.torn = TRUE], [Saved(Amd) EXCEPT !.open = "missing"],
      [Saved(Amd) EXCEPT !.open = "denied"], [Saved(Amd) EXCEPT !.open = "other"],
      Layout(Amd, History, <<"a", "x">>), Layout(Amd, History, <<"a", "">>),
      Tar(<<>>), Tar(<<Index(<<>>)>>), Tar(<<Index(<<"">>)>>), Tar(<<Index(<<"m">>)>>),
      Tar(<<Manifests(<<>>)>>), Tar(<<Manifests(<<Manifest("c", <<>>)>>)>>),
      Tar(<<Manifests(<<Manifest("cfg.json", <<"a">>), Manifest("other", <<>>)>>),
            Config("cfg.json", Arm, History), Blob("a", "tree a", 1), Blob("a", "tree a2", 2)>>),
      Tar(<<Manifests(<<Manifest("cfg.json", <<"a">>)>>), Config("cfg.json", Amd, <<>>),
            Blob("a", "tree a", 9)>>),
      Tar(<<Manifests(<<Manifest("cfg.json", <<"a">>)>>), Entry("cfg.json", 9, [kind |-> "huge"])>>),
      Tar(<<Manifests(<<Manifest("cfg.json", <<>>)>>), Entry("cfg.json", 1, [kind |-> "broken"])>>) }

-----------------------------------------------------------------------------
Nothing == [name \in {} |-> ""]
File(state) == [state |-> state]
DockerConfig(context) == [state |-> "ok", currentContext |-> context]
Connections(state, default, conns) == [state |-> state, default |-> default, conns |-> conns]
Bare ==
    [DOCKER_HOST |-> "", DOCKER_CONTEXT |-> "", CONTAINER_HOST |-> "", CONTAINER_CONNECTION |-> "",
     dockerConfig |-> File("absent"),
     contexts |-> ("far" :> [state |-> "ok", host |-> "ssh://far"])
                  @@ ("odd" :> [state |-> "ok", host |-> ""]) @@ ("bad" :> File("malformed")),
     podmanFiles |-> <<Connections("absent", "", Nothing), Connections("absent", "", Nothing)>>,
     sockets |-> {"/var/run/docker.sock"}, os |-> "linux"]
Conns == ("vm" :> "ssh://vm") @@ ("none" :> "")
Setups ==
    {[Bare EXCEPT !.DOCKER_HOST = h, !.DOCKER_CONTEXT = c, !.dockerConfig = f] :
        h \in {"", "tcp://here"}, c \in {"", "default", "far", "odd", "bad", "gone"},
        f \in {File("absent"), File("malformed"), DockerConfig("far"), DockerConfig("")}}
    \cup {[Bare EXCEPT !.CONTAINER_HOST = h, !.CONTAINER_CONNECTION = c, !.podmanFiles = f,
                       !.DOCKER_HOST = d] :
            h \in {"", "unix://pod"}, c \in {"", "vm", "none"}, d \in {"", "tcp://here"},
            f \in {<<Connections("malformed", "", Nothing), Connections("ok", "vm", Conns)>>,
                   <<Connections("absent", "", Nothing), Connections("ok", "vm", Conns)>>,
                   <<Connections("ok", "", Conns), Connections("ok", "vm", Conns)>>}}
    \cup {[Bare EXCEPT !.sockets = s, !.os = os] :
            s \in {{}, {"/run/podman/podman.sock"}, {"~/.docker/run/docker.sock", DockerPipe}},
            os \in {"linux", "darwin", "windows", "freebsd"}}

NoLogins == [docker |-> [credHelpers |-> Nothing, credsStore |-> "", auths |-> Nothing],
             helpers |-> [name \in {} |-> ""], podman |-> Nothing]
Auth(login) == [identityToken |-> "", auth |-> login]
LoginFiles ==
    { NoLogins, [NoLogins EXCEPT !.podman = "docker.io" :> Auth("me")],
      [NoLogins EXCEPT !.docker.auths = HubKey :> Auth("undecodable"), !.podman = HubKey :> Auth("me")],
      [NoLogins EXCEPT !.docker.credsStore = "store", !.docker.auths = HubKey :> Auth("me"),
                       !.helpers = <<"store", HubKey>> :> Undecodable],
      [NoLogins EXCEPT !.docker.credsStore = "store", !.helpers = <<"store", HubKey>> :> "me"],
      [NoLogins EXCEPT !.docker.credHelpers = HubKey :> "own", !.docker.auths = HubKey :> Auth("me"),
                       !.helpers = <<"own", HubKey>> :> Undecodable],
      [NoLogins EXCEPT !.docker.auths = HubKey :> [identityToken |-> "other", auth |-> "me"]] }

-----------------------------------------------------------------------------
Run1 == [ref |-> "tag", platform |-> <<>>, engine |-> "auto", setup |-> Bare, file |-> Tar(<<>>),
         info |-> [os |-> "linux", arch |-> "x86_64"], api |-> 49, several |-> FALSE,
         local |-> {}, registered |-> {}, registry |-> "docker.io", private |-> "",
         logins |-> NoLogins, sound |-> TRUE]

\* Every platform asked for, had and given out, on engines old and new.
EngineScenarios ==
    {[Run1 EXCEPT !.platform = p, !.api = a, !.several = s, !.local = l, !.registered = r, !.info.arch = n] :
        p \in {<<>>, <<"amd64">>, <<"linux", "arm", "v7">>}, a \in {47, 48, 49}, s \in BOOLEAN,
        l \in {{}, {Variant(Amd)}, {Variant(Arm7)}}, r \in {{}, {OciVariant(Amd)}, {Variant(Arm7), OciVariant(Amd)}},
        n \in {"x86_64", "armv7l"}}
    \cup {[Run1 EXCEPT !.several = TRUE, !.local = {Variant(Amd), Variant(Arm7)}, !.info.arch = n] :
            n \in {"aarch64", "armv6l", "x86_64", ""}}
    \cup {[Run1 EXCEPT !.platform = p, !.local = {Variant(Unsaid)}, !.registered = r] :
            p \in {<<>>, <<"amd64">>}, r \in {{}, {OciVariant(Amd)}}}

OtherScenarios ==
    {[Run1 EXCEPT !.ref = "path", !.file = f, !.platform = p] :
        f \in Files, p \in {<<>>, <<"amd64">>, <<"linux", "arm", "v7">>, <<"linux", "">>}}
    \cup {[Run1 EXCEPT !.ref = "digest", !.local = l, !.platform = p] :
            l \in {{}, {Variant(Arm7)}}, p \in {<<>>, <<"arm64">>}}
    \cup {[Run1 EXCEPT !.setup = s, !.engine = e, !.platform = <<"a", "b", "c", "d">>] :
            s \in {Bare}, e \in {"auto"}}
    \cup {[Run1 EXCEPT !.setup = s, !.engine = e, !.ref = "digest"] :
            s \in Setups, e \in {"auto", "docker", "podman"}}
    \cup {[Run1 EXCEPT !.registered = {Variant(Amd)}, !.private = "me", !.logins = l, !.registry = r] :
            l \in LoginFiles, r \in {"docker.io", "ghcr.io"}}
    \cup {[Run1 EXCEPT !.registered = {[Variant(Amd) EXCEPT !.archive = Tar(<<>>)]}, !.sound = FALSE]}

MCScenarios == EngineScenarios \cup OtherScenarios

\* What the trees tell of two paths.
MCPaths == {"p", "q"}
MCTells == ("tree a" :> [p |-> "found", q |-> "found"]) @@ ("tree b" :> ("p" :> "removed"))
           @@ ("tree a2" :> ("q" :> "not regular"))

\* Other images of the same name, for either platform, with fewer layers and
\* other trees.
Other(platform) == [platform |-> platform, archive |-> Layout(platform, <<>>, <<"b">>)]
MCElsewhere == {{Other(Amd)}, {Other(Arm7)}}
=============================================================================
