------------------------------- MODULE Verdict -------------------------------
(***************************************************************************)
(* What the exit code of a check promises.  `layerx ci` and `layerx        *)
(* compare` are asked for limits, by a configuration file and by flags; a  *)
(* reference may be moved to another image while they run.  Exit 0 says    *)
(* that the reference named an image that keeps every limit, and that      *)
(* there was a limit; exit 1 that it named one that does not.              *)
(*                                                                         *)
(* Limits are stated here over the images alone, with exact fractions and  *)
(* without floats, rules, results, allowances or reports.  A byte count    *)
(* keeps its limit or does not.  A share of the bytes is held to its limit *)
(* within one part in Decimals: exit 0 may say so of an image that misses it *)
(* by no more, exit 1 of one that keeps it by less, but never that waste   *)
(* at the very limit is too much.                                          *)
(***************************************************************************)
EXTENDS ImageCompare, ConfigFile

CONSTANTS
    MaxCode,      \* the largest exit code
    Size(_),      \* bytes of an image's layers
    Wasted(_)     \* bytes of an image that nobody sees

VARIABLES
    asked,     \* the command, its flags and the configuration file it finds
    named,     \* the images each reference has named so far
    outcome    \* Running, or the exit code

vars == <<asked, named, outcome>>

Running == -1

(* A limit: what is limited, and by how much.                              *)

\* The value of a threshold: the flag, else the file, else the default.
Threshold(flag, file, name, default) ==
    IF flag # NotGiven THEN flag
    ELSE IF file.content = "yaml" /\ file.rules.shape = "map" /\ name \in DOMAIN file.rules.keys
         THEN file.rules.keys[name]
    ELSE default

SizeLimit(flag, file, name) ==
    IF flag # <<>> THEN flag[1]
    ELSE IF file.content = "yaml" /\ file.budget.shape = "map" THEN file.budget[name]
    ELSE Unset

PathLimits(file) ==
    IF file.content # "yaml" THEN {}
    ELSE IF file.pathRules.shape = "flat" THEN
        {[type |-> "block", paths |-> b.paths] : b \in {b \in {file.pathRules.block} : b.globs # "none"}}
        \cup {[type |-> "deny-waste", paths |-> b.paths] :
                  b \in {b \in {file.pathRules.denyWaste} : b.globs # "none"}}
        \cup {[type |-> "max-layer-count", count |-> n] :
                  n \in {file.pathRules.maxLayerCount} \ {0}}
    ELSE IF file.pathRules.shape = "list" THEN
        {limit \in ToSet(file.pathRules.entries) :
             limit.type = "max-layer-count" => limit.count > 0}
    ELSE {}

\* Shares are held to limits moved by `slack` parts in Decimals; the limit on
\* waste is never tightened.
KeepsThresholds(flags, file, image, slack) ==
    LET all == image.live + Wasted(image)
        Efficiency == Threshold(flags.lowestEfficiency, file, "lowestEfficiency", 90)
        MaxWaste == Threshold(flags.highestUserWastedPercent, file, "highestUserWastedPercent", 10)
        MaxBytes == Threshold(flags.highestWastedBytes, file, "highestWastedBytes", 0)
    IN  /\ Efficiency > 0 =>
               Decimals * (100 * image.live) >= (Efficiency * Decimals - slack * 100) * all
        /\ MaxWaste > 0 =>
               Decimals * (100 * (all - image.live))
                   <= (MaxWaste * Decimals + (IF slack > 0 THEN slack * 100 ELSE 0)) * all
        /\ MaxBytes > 0 => all - image.live <= MaxBytes

KeepsPathLimits(file, image) ==
    \A limit \in PathLimits(file) :
        /\ limit.type = "block" =>
               ~\E i \in DOMAIN image.written : \E n \in image.written[i] :
                   n.path \in limit.paths /\ ~n.dir /\ ~n.whiteout
        /\ limit.type = "deny-waste" => DOMAIN image.wasted \cap limit.paths = {}
        /\ limit.type = "max-layer-count" /\ limit.count > 0 =>
               \A p \in DOMAIN image.wasted : image.wasted[p].layers <= limit.count

KeepsSizes(flags, file, image, base) ==
    LET max == SizeLimit(flags.max, file, "max")
        growth == SizeLimit(flags.growth, file, "growth")
        grown == Size(image) - Size(base)
    IN  /\ max.kind # "none" => Size(image) * max.den <= max.num
        /\ growth.kind = "bytes" => grown * growth.den <= growth.num
        /\ growth.kind = "percent" => grown * growth.den <= growth.num * Size(base)
        /\ growth.kind # "none" => image.platform = base.platform /\ image.platform # ""

\* Not worse than the old image: no more wasted bytes, and a share of live
\* bytes that is lower by one part in Decimals at most, moved by `slack`; an
\* image without layers is not compared.  An image without bytes is all live.
NotWorse(image, base, slack) ==
    LET all(i) == IF i.live + Wasted(i) = 0 THEN 1 ELSE i.live + Wasted(i)
        live(i) == all(i) - Wasted(i)
        Drop == live(base) * all(image) - live(image) * all(base)
    IN  image.layers # <<>> /\ base.layers # <<>> =>
            /\ Wasted(image) <= Wasted(base)
            /\ Decimals * Drop <= (1 + slack) * (all(image) * all(base))

SomethingAsked(flags, file) ==
    \/ Threshold(flags.lowestEfficiency, file, "lowestEfficiency", 90) > 0
    \/ Threshold(flags.highestUserWastedPercent, file, "highestUserWastedPercent", 10) > 0
    \/ Threshold(flags.highestWastedBytes, file, "highestWastedBytes", 0) > 0
    \/ SizeLimit(flags.max, file, "max").kind # "none"
    \/ SizeLimit(flags.growth, file, "growth").kind # "none"
    \/ PathLimits(file) # {}

Keeps(image, base, slack) ==
    /\ KeepsSizes(asked.flags, asked.file, image, base)
    /\ asked.kind = "compare" => NotWorse(image, base, slack)
    /\ asked.kind = "ci" => /\ KeepsThresholds(asked.flags, asked.file, image, slack)
                            /\ KeepsPathLimits(asked.file, image)

IsCheck == asked.kind \in {"ci", "compare"}

-----------------------------------------------------------------------------
Init == outcome = Running

Move == named' # named /\ UNCHANGED <<asked, outcome>>

Finish(code) ==
    /\ outcome = Running
    /\ outcome' = code
    /\ UNCHANGED <<asked, named>>
    /\ IsCheck /\ code = 0 =>
           \E image \in named.image, base \in named.baseline : Keeps(image, base, 1)
    /\ asked.kind = "ci" /\ code = 0 => SomethingAsked(asked.flags, asked.file)
    /\ IsCheck /\ code = 1 =>
           \E image \in named.image, base \in named.baseline : ~Keeps(image, base, -1)

Next == Move \/ \E code \in 0..MaxCode : Finish(code)

Spec == Init /\ [][Next]_vars
=============================================================================
