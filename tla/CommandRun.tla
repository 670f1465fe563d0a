----------------------------- MODULE CommandRun -----------------------------
(***************************************************************************)
(* One run of layerx without the viewer's session: `layerx ci` (which      *)
(* CI=true makes of `layerx IMAGE`), `layerx compare`, `layerx IMAGE` with *)
(* or without --json, and `layerx build`.  A run is a list of steps; what  *)
(* a reference names, and the engine, may change between two of them, and  *)
(* every step that touches the world may fail.                             *)
(*                                                                         *)
(* An analysis is the image it is of.  Progress lines, wording and colours *)
(* are left out; the viewer ends well or with an error.                    *)
(***************************************************************************)
EXTENDS ImageCompare, ConfigFile

CONSTANTS
    Images,       \* images a reference may name
    Scenarios,    \* options, configuration files, what the references name
    EngineCodes   \* exit codes of an engine whose build fails

\* The bytes of an image's layers.
Size(image) == FoldFunction(LAMBDA l, sum : l.size + sum, 0, image.layers)

Sides == {"image", "baseline"}

\* Lists are finite and byte counts naturals; every layer has its entry in
\* "written".
Layers == [diffID: STRING, command: STRING, size: Nat, netDelta: Int]

IsImage(i) ==
    /\ i.layers \in Seq(Layers) /\ Len(i.written) = Len(i.layers)
    /\ IsFiniteSet(DOMAIN i.files) /\ \A p \in DOMAIN i.files : i.files[p].size \in Nat
    /\ i.live \in Nat
    /\ IsFiniteSet(DOMAIN i.wasted)
    /\ \A p \in DOMAIN i.wasted : i.wasted[p].bytes \in Nat /\ i.wasted[p].layers \in Nat

IsOptions(o) ==
    /\ o.kind \in {"ci", "compare", "inspect", "build"}
    /\ o.json \in BOOLEAN /\ o.baseline \in BOOLEAN
    /\ o.kind = "compare" => ~o.json
    /\ o.flags.max # <<>> => IsQuantity(o.flags.max[1])
    /\ o.flags.growth # <<>> => IsQuantity(o.flags.growth[1])
    /\ o.flags.lowestEfficiency \in Int /\ o.flags.highestWastedBytes \in Int
    /\ o.flags.highestUserWastedPercent \in Int
    /\ Len(o.walk) \in Nat /\ \A i \in 1..Len(o.walk) : IsFile(o.walk[i])
    /\ IsFile(o.user) /\ (o.config # <<>> => IsFile(o.config[1]))

Worlds == [image: Images, baseline: Images, moves: [Sides -> SUBSET Images],
           built: SUBSET Images]

\* An engine that fails says so by a code that is not 0, -1 for a signal.
ASSUME CommandAssumption ==
    /\ \A i \in Images : IsImage(i)
    /\ \A s \in Scenarios : IsOptions(s.opts) /\ s.world \in Worlds
    /\ EngineCodes \subseteq (-1..255) \ {0}

VARIABLES
    opts,     \* the command line and the files it meets
    world,    \* what "image" and "baseline" name now, and may still be moved to
    named,    \* what they have named so far
    at,       \* the next step
    cfg,      \* the configuration that was loaded
    got,      \* per side the image that was analysed, if any
    ids,      \* per side the image whose ID was read, if any
    failed,   \* the error of the run, with the engine's code when a build failed
    report,   \* the check report that was written, if any
    idfile,   \* the file the engine writes the built image's ID to
    temp,     \* the temporary file of the JSON export
    out,      \* the target of the JSON export
    warned,   \* standard error says that there is no export
    code      \* the exit code, Running before it

vars == <<opts, world, named, at, cfg, got, ids, failed, report, idfile, temp, out, warned, code>>

Running == -1
NoError == [kind |-> "none", engine |-> 0]
Error(kind) == [kind |-> kind, engine |-> 0]
BuildFailed(n) == [kind |-> "build", engine |-> n]
NoReport == [passed |-> FALSE, image |-> <<>>, id |-> <<>>, sizes |-> <<>>]

\* The steps of each command, in the order of its code.
Steps ==
    LET json == IF opts.json THEN <<"temp", "write", "rename">> ELSE <<>>
        check == <<"judge", "idImage", "report">> \o json
        shown == IF opts.json THEN <<"analyzeImage">> \o json ELSE <<"viewer">>
    IN  IF opts.kind = "ci" /\ opts.baseline THEN
            <<"options", "analyzeImage", "analyzeBaseline", "idBaseline">> \o check
        ELSE IF opts.kind = "ci" THEN <<"options", "analyzeImage">> \o check
        ELSE IF opts.kind = "compare" THEN
            <<"options", "analyzeBaseline", "idBaseline", "analyzeImage", "idImage",
              "judge", "report">>
        ELSE IF opts.kind = "build" THEN <<"engine", "built", "options">> \o shown
        ELSE <<"options">> \o shown

Step == Steps[at]
Ended == at > Len(Steps)
Baseline == IF got.baseline = <<>> THEN NoBaseline ELSE Size(got.baseline[1])

budget == effectiveSizeBudget(cfg.budget, opts.flags)
rules == buildRules(cfg, opts.flags)

-----------------------------------------------------------------------------
(* Moving from step to step.                                               *)

Proceed == at' = at + 1 /\ UNCHANGED failed

JSONAt == CHOOSE i \in DOMAIN Steps : Steps[i] = "temp"

\* Mutant: a check that fails leaves without the export that was asked for.
LeaveAtOnce(err) == failed' = err /\ at' = Len(Steps) + 1

\* An error ends the run, but a check that has its analysis still exports it.
Fail(err) ==
    /\ failed' = err
    /\ at' = IF opts.kind = "ci" /\ opts.json /\ got.image # <<>> /\ at < JSONAt
             THEN JSONAt ELSE Len(Steps) + 1

\* A failed check is 1, an engine's code its own or 1 for a signal, the rest 2.
exitCodeFor(err) ==
    IF err.kind = "none" THEN 0 ELSE IF err.kind = "limits" THEN 1
    ELSE IF err.kind = "build" THEN (IF err.engine < 0 THEN 1 ELSE err.engine)
    ELSE 2

ConfigUsed == IF opts.config # <<>> THEN opts.config[1] ELSE Load(opts.walk, opts.user)

\* Loading, budget, flags, and for `ci` that growth has a baseline and that
\* there is anything to check.
OptionsError(file) ==
    \/ ~opts.valid \/ LoadError(file)
    \/ /\ opts.kind \in {"ci", "compare"}
       /\ LET c == LoadFrom(file)
              b == effectiveSizeBudget(c.budget, opts.flags)
          IN  \/ ParseError(b)
              \/ /\ opts.kind = "ci"
                 /\ \/ ~validateCLIThresholdFlags(opts.flags)
                    \/ b.growth.kind # "none" /\ ~opts.baseline
                    \/ buildRules(c, opts.flags) = {} /\ ~Enabled(b)

\* Flags, configuration, theme and format, and the resolvers they lead to.
Options ==
    /\ Step = "options"
    /\ \/ /\ ~OptionsError(ConfigUsed)
          /\ cfg' = LoadFrom(ConfigUsed)
          /\ Proceed
       \/ UNCHANGED cfg /\ Fail(Error("other"))
    /\ UNCHANGED <<opts, world, named, got, ids, report, idfile, temp, out, warned, code>>

\* AnalyzeWithOptions on what the reference names at that moment.
Analyze(side) ==
    /\ Step = [image |-> "analyzeImage", baseline |-> "analyzeBaseline"][side]
    /\ \/ got' = [got EXCEPT ![side] = <<world[side]>>] /\ Proceed
       \/ UNCHANGED got /\ Fail(Error("other"))
    /\ UNCHANGED <<opts, world, named, cfg, ids, report, idfile, temp, out, warned, code>>

\* ImageID is asked again once the analysis is there; an error is no error.
ReadID(side) ==
    /\ Step = [image |-> "idImage", baseline |-> "idBaseline"][side]
    /\ \E id \in {<<>>, <<world[side]>>} : ids' = [ids EXCEPT ![side] = id]
    /\ Proceed
    /\ UNCHANGED <<opts, world, named, cfg, got, report, idfile, temp, out, warned, code>>

JudgeError ==
    \/ /\ opts.kind = "ci" \/ budget.growth.kind # "none"
       /\ got.baseline # <<>> /\ ~matchingPlatforms(got.baseline[1], got.image[1])
    \/ EvaluateError(budget, Size(got.image[1]), Baseline)

Judge ==
    /\ Step = "judge"
    /\ IF JudgeError THEN Fail(Error("other")) ELSE Proceed
    /\ UNCHANGED <<opts, world, named, cfg, got, ids, report, idfile, temp, out, warned, code>>

sizeChecks == Evaluate(budget, Size(got.image[1]), Baseline)
SizesPass == \A i \in DOMAIN sizeChecks : sizeChecks[i].passed
comparison == CompareAnalysis(got.baseline[1], got.image[1])

Passed ==
    /\ SizesPass
    /\ IF opts.kind = "ci" THEN RulesPass(rules, got.image[1]) ELSE comparison.reasons = {}

\* Two references to one image are said to be the same and not reported on.
NoOp ==
    /\ opts.kind = "compare" /\ ~Enabled(budget) /\ opts.format = "text"
    /\ ids.baseline # <<>> /\ ids.baseline = ids.image
    /\ allLayersShared(comparison, got.baseline[1], got.image[1])

Report ==
    /\ Step = "report"
    /\ \/ NoOp /\ Proceed /\ UNCHANGED report
       \/ /\ ~NoOp
          /\ report' = [passed |-> Passed, image |-> got.image, id |-> ids.image,
                        sizes |-> sizeChecks]
          /\ IF Passed THEN Proceed ELSE Fail(Error("limits"))
       \/ ~NoOp /\ UNCHANGED report /\ Fail(Error("other"))
    /\ UNCHANGED <<opts, world, named, cfg, got, ids, idfile, temp, out, warned, code>>

-----------------------------------------------------------------------------
(* The export: a temporary file beside the target, then a rename.          *)

\* combineCIAndJSONErr: the check's error wins, a failed export is the next.
JSONError == failed' = IF failed = NoError THEN Error("other") ELSE failed

NoJSON == JSONError /\ at' = Len(Steps) + 1 /\ temp' = "none" /\ warned' = TRUE

CreateTemp ==
    /\ Step = "temp"
    /\ \/ temp' = "empty" /\ Proceed /\ UNCHANGED warned
       \/ NoJSON
    /\ UNCHANGED <<opts, world, named, cfg, got, ids, report, idfile, out, code>>

\* Mutant: what a failed write leaves is not removed.
LeavesTemp ==
    /\ Step = "write"
    /\ \/ temp' = "whole" /\ Proceed /\ UNCHANGED warned
       \/ JSONError /\ at' = Len(Steps) + 1 /\ temp' = "partial" /\ warned' = TRUE
    /\ UNCHANGED <<opts, world, named, cfg, got, ids, report, idfile, out, code>>

\* Write, Sync and Close; each failure removes the file.
WriteTemp ==
    /\ Step = "write"
    /\ \/ temp' = "whole" /\ Proceed /\ UNCHANGED warned
       \/ NoJSON
    /\ UNCHANGED <<opts, world, named, cfg, got, ids, report, idfile, out, code>>

Rename ==
    /\ Step = "rename"
    /\ \/ temp' = "none" /\ out' = [of |-> got.image, whole |-> temp = "whole"]
          /\ Proceed /\ UNCHANGED warned
       \/ NoJSON /\ UNCHANGED out
    /\ UNCHANGED <<opts, world, named, cfg, got, ids, report, idfile, code>>

-----------------------------------------------------------------------------
(* `layerx build`.                                                         *)

\* ensureIIDFile makes a path of its own when no tag and no file is given.
\* A build that succeeds moves the tag, or writes the ID file, or does not.
\* One that is cancelled, fails or does not start may have written it too.
Engine ==
    /\ Step = "engine"
    /\ idfile' \in IF opts.ref = "tag" THEN {idfile} ELSE {"absent", "empty", "id"}
    /\ \/ /\ Proceed
          /\ \E image \in world.built :
                /\ world' = [world EXCEPT !.image = image]
                /\ named' = [named EXCEPT !.image = {image}]
       \/ /\ \E n \in EngineCodes : Fail(BuildFailed(n))
          /\ UNCHANGED <<world, named>>
       \/ Fail(Error("other")) /\ UNCHANGED <<world, named>>
    /\ UNCHANGED <<opts, cfg, got, ids, report, temp, out, warned, code>>

\* readIIDFile: without an ID the build stays a success, with a warning.
Built ==
    /\ Step = "built"
    /\ IF opts.ref = "tag" \/ idfile = "id" THEN Proceed /\ UNCHANGED warned
       ELSE warned' = TRUE /\ at' = Len(Steps) + 1 /\ UNCHANGED failed
    /\ UNCHANGED <<opts, world, named, cfg, got, ids, report, idfile, temp, out, code>>

Viewer ==
    /\ Step = "viewer"
    /\ Proceed \/ Fail(Error("other"))
    /\ UNCHANGED <<opts, world, named, cfg, got, ids, report, idfile, temp, out, warned, code>>

-----------------------------------------------------------------------------
\* The deferred removal of a file of its own, and the exit code.
Exit ==
    /\ Ended /\ code = Running
    /\ code' = exitCodeFor(failed)
    /\ idfile' = IF opts.ref = "own" THEN "absent" ELSE idfile
    /\ UNCHANGED <<opts, world, named, at, cfg, got, ids, failed, report, temp, out, warned>>

\* The reference is moved: a push, a build or a tag of somebody else.
Move ==
    \E side \in Sides : \E image \in world.moves[side] :
        /\ code = Running
        /\ opts.kind = "build" => opts.ref = "tag" /\ at > 1
        /\ world' = [world EXCEPT ![side] = image, !.moves[side] = @ \ {image}]
        /\ named' = [named EXCEPT ![side] = @ \cup {image}]
        /\ UNCHANGED <<opts, at, cfg, got, ids, failed, report, idfile, temp, out, warned, code>>

Run ==
    /\ ~Ended
    /\ \/ Options \/ Judge \/ Report
       \/ \E side \in Sides : Analyze(side) \/ ReadID(side)
       \/ CreateTemp \/ WriteTemp \/ Rename
       \/ Engine \/ Built \/ Viewer

Next == Run \/ Exit \/ Move

Init ==
    /\ \E s \in Scenarios : opts = s.opts /\ world = s.world
    /\ named = [side \in Sides |-> {world[side]}]
    /\ at = 1 /\ cfg = Default
    /\ got = [side \in Sides |-> <<>>] /\ ids = [side \in Sides |-> <<>>]
    /\ failed = NoError /\ report = NoReport /\ idfile = "absent"
    /\ temp = "none" /\ out = [of |-> <<>>, whole |-> TRUE]
    /\ warned = FALSE /\ code = Running

Spec == Init /\ [][Next]_vars

-----------------------------------------------------------------------------
V == INSTANCE Verdict WITH
        asked <- [kind |-> opts.kind, flags |-> opts.flags, file |-> ConfigUsed],
        outcome <- code, MaxCode <- 255, Wasted <- WastedBytes

\* The exit code of a check keeps what Verdict promises of it, though the
\* rules, the floats and the rounding they compare, the truncated allowance,
\* the report and the order of the analyses are its own, the references may
\* be moved meanwhile and every step may fail.
KeepsItsWord == V!Spec

Exported == got.image # <<>> /\ out = [of |-> got.image, whole |-> TRUE]

\* An export that was asked for is written once there is an analysis, also
\* when the check failed or could not be made, or the run says that it was
\* not; a run that says so does not exit 0, but for a build whose image
\* could not be told.  Exit 1 comes with a report of the analysed image.
NothingSilent ==
    /\ code # Running /\ opts.json /\ got.image # <<>> => Exported \/ warned
    /\ code = 0 /\ opts.json => Exported \/ (opts.kind = "build" /\ warned)
    /\ code = 1 /\ opts.kind \in {"ci", "compare"} =>
           ~report.passed /\ report.image = got.image /\ got.image # <<>>

\* The target holds what it held or the whole export, never a part; a run
\* that ends leaves no temporary file and no ID file of its own.
NoHalfFiles ==
    /\ out.whole
    /\ code # Running => temp = "none" /\ (opts.ref = "own" => idfile = "absent")

Compared == opts.kind = "compare" /\ got.image # <<>> /\ got.baseline # <<>>

\* Layers are paired fairly: each is in one entry, as many copies of a content
\* are shared as both images have, and a pair that shares no content has a
\* command that no other layer without a peer has.
PairsFair ==
    Compared =>
        LET old == got.baseline[1].layers
            new == got.image[1].layers
            diffs == comparison.layers
            Copies(layers, id) == Cardinality(Positions(layers, "diffID", id))
            Lone(e, d) == e.match \in {"added", "removed", "command"} /\ e # d
            Command(e) == IF e.after # 0 THEN new[e.after].command ELSE old[e.before].command
        IN  /\ \A i \in DOMAIN new : Cardinality({d \in diffs : d.after = i}) = 1
            /\ \A j \in DOMAIN old : Cardinality({d \in diffs : d.before = j}) = 1
            /\ \A id \in {new[i].diffID : i \in DOMAIN new} \ {Unknown} :
                   Cardinality({d \in diffs : d.match = "shared" /\ new[d.after].diffID = id
                                              /\ old[d.before].diffID = id})
                       = Min({Copies(new, id), Copies(old, id)})
            /\ \A d \in diffs : d.match = "command" =>
                   /\ old[d.before].command = new[d.after].command /\ Command(d) # Unknown
                   /\ ~\E e \in diffs : Lone(e, d) /\ Command(e) = Command(d)

\* What the comparison lists adds up: the layers' differences to that of the
\* images, added less removed bytes to that of the live files, and the waste
\* differences to that of the waste.
DiffsAddUp ==
    Compared =>
        LET old == got.baseline[1]
            new == got.image[1]
            Live(image) == FoldFunction(LAMBDA f, sum : f.size + sum, 0, image.files)
            sum == FileSummary(comparison.files)
        IN  /\ Deltas(comparison.layers) = Size(new) - Size(old)
            /\ sum.added - sum.removed = Live(new) - Live(old)
            /\ sum.added >= 0 /\ sum.removed >= 0
            /\ Deltas(comparison.waste) = WastedBytes(new) - WastedBytes(old)
=============================================================================
