---------------------------- MODULE MCTuiSession ----------------------------
(* Instances of TuiSession small enough for TLC.                             *)
EXTENDS TuiSession, TLC

CONSTANTS f, g

\* The session right after loading: nothing of it is left under way.
Loaded ==
    /\ state = "ready" /\ inspect = FALSE /\ analysis = "reported"
    /\ chan = <<>> /\ listeners = 0 /\ ticks = 0
    /\ view = [state |-> "none", req |-> 0, file |-> NoFile, lit |-> NoFile, wanted |-> NoFile]
    /\ fetches = {} /\ lights = {} /\ viewerCancel = NoCtx
    /\ saveReq = 0 /\ saves = {} /\ saveCancel = NoCtx
    /\ disk \in {[t \in Targets |-> IF t < n THEN Theirs ELSE NoFile] : n \in 0..Cardinality(Targets)}
    /\ temps = {} /\ live = {Fetch}
    /\ status = [text |-> "", error |-> FALSE, timed |-> FALSE]
    /\ overlay = {} /\ quitting = FALSE /\ inputs = 0

Interchangeable == Permutations(Files)

LoadedSpec == Loaded /\ [][Next]_vars

=============================================================================
