---------------------------- MODULE RegistryLogin ----------------------------
(***************************************************************************)
(* The login a pull sends with it (image/dockerconfig.go): docker's        *)
(* configuration and podman's auth.json.  A file that cannot be read or    *)
(* decoded has no entries.  A login is a model value; an entry may hold an *)
(* identity token, an "auth" or one that does not decode.                  *)
(***************************************************************************)
EXTENDS Sequences

Anonymous == ""
HubKey == "https://index.docker.io/v1/"

normalizeRegistryKey(registry) ==
    IF registry \in {"docker.io", "index.docker.io"} THEN HubKey ELSE registry

\* A token is preferred; an "auth" that does not decode is no login.
encodeInlineAuth(auths, key) ==
    IF key \notin DOMAIN auths THEN Anonymous
    ELSE IF auths[key].identityToken # "" THEN auths[key].identityToken
    ELSE IF auths[key].auth = "undecodable" THEN Anonymous ELSE auths[key].auth

\* A helper that fails or has nothing has no login; what it says otherwise is
\* a login or not to be decoded.
credHelperGet(helpers, helper, key) ==
    IF <<helper, key>> \in DOMAIN helpers THEN helpers[<<helper, key>>] ELSE Anonymous

Undecodable == "undecodable"

\* A helper of the registry's own is the only one asked; the store may have
\* nothing and leave it to the entry in the file.
resolveFromConfigFile(file, helpers, key) ==
    LET stored == credHelperGet(helpers, file.credsStore, key)
    IN  IF key \in DOMAIN file.credHelpers THEN credHelperGet(helpers, file.credHelpers[key], key)
        ELSE IF file.credsStore # "" /\ stored \notin {Anonymous, Undecodable} THEN stored
        ELSE encodeInlineAuth(file.auths, key)

\* Podman files docker.io under its own name.
resolveFromPodmanAuth(auths, key) ==
    LET login == encodeInlineAuth(auths, key)
    IN  IF login = Anonymous /\ key = HubKey THEN encodeInlineAuth(auths, "docker.io") ELSE login

\* What the pull is made with: an error is a pull without a login.
resolveRegistryAuth(logins, registry) ==
    LET key == normalizeRegistryKey(registry)
        docker == resolveFromConfigFile(logins.docker, logins.helpers, key)
    IN  IF docker = Undecodable THEN Anonymous
        ELSE IF docker # Anonymous THEN docker
        ELSE resolveFromPodmanAuth(logins.podman, key)
=============================================================================
