----------------------------- MODULE CheckRules -----------------------------
(***************************************************************************)
(* The rules of `layerx ci`: which ones a configuration and the flags turn *)
(* on (cmd/ci.go) and what each one says of an image (ci/).                *)
(*                                                                         *)
(* Thresholds are whole percents; a pattern is the set of the paths it     *)
(* matches.  An image has live bytes, its wasted files (path, bytes, how   *)
(* many layers) and what each layer writes (path, dir, whiteout).  The      *)
(* order of the rules, which is that of the lines printed, is left out.     *)
(***************************************************************************)
EXTENDS Floats, Sequences, SequencesExt, FiniteSets, FiniteSetsExt

NotGiven == -1

WastedBytes(image) == FoldFunction(LAMBDA w, sum : w.bytes + sum, 0, image.wasted)

\* 1 - wasted/all, each operation rounded to a float; an image without any
\* bytes scores one.
Score(image) ==
    LET all == image.live + WastedBytes(image)
    IN  IF all = 0 THEN One ELSE Float(One - Float(WastedBytes(image), all), One)

Effective(flag, configured) == IF flag = NotGiven THEN configured ELSE flag

buildRules(cfg, flags) ==
    LET efficiency == Effective(flags.lowestEfficiency, cfg.rules.lowestEfficiency)
        bytes == Effective(flags.highestWastedBytes, cfg.rules.highestWastedBytes)
        percent == Effective(flags.highestUserWastedPercent, cfg.rules.highestUserWastedPercent)
        On(threshold, rule) == IF threshold > 0 THEN {rule} ELSE {}
    IN  On(efficiency, [type |-> "efficiency", percent |-> efficiency])
        \cup On(bytes, [type |-> "wasted bytes", bytes |-> bytes])
        \cup On(percent, [type |-> "wasted percent", percent |-> percent])
        \cup cfg.pathRules

\* Flags outside their range are refused before anything runs.
validateCLIThresholdFlags(flags) ==
    /\ flags.lowestEfficiency \in NotGiven..100
    /\ flags.highestUserWastedPercent \in NotGiven..100
    /\ flags.highestWastedBytes >= NotGiven

-----------------------------------------------------------------------------
(* One result per rule, or one per match of a path rule.                   *)

Result(rule, passed, at) == [type |-> rule.type, passed |-> passed, at |-> at]

Clean(rule) == {Result(rule, TRUE, <<>>)}

\* The score as it is: at the exact limit the rounding decides.
LowestEfficiency(rule, image) ==
    {Result(rule, Score(image) >= Float(rule.percent, 100), <<>>)}

HighestWastedBytes(rule, image) == {Result(rule, WastedBytes(image) <= rule.bytes, <<>>)}

\* 1 - Score, rounded to nine decimals: at the exact limit it passes.
HighestUserWastedPercent(rule, image) ==
    LET share == Float(One - Score(image), One)
        rounded == Round(Float(share * Decimals, One), One)
    IN  {Result(rule, Float(rounded, Decimals) <= Float(rule.percent, 100), <<>>)}

\* Every layer that writes a matching file, once each; not the layers that
\* delete one.
BlockPathRule(rule, image) ==
    LET found == UNION { {Result(rule, FALSE, <<n.path, i>>) :
                            n \in {n \in image.written[i] :
                                      ~n.dir /\ ~n.whiteout /\ n.path \in rule.paths}} :
                         i \in DOMAIN image.written }
    IN  IF found = {} THEN Clean(rule) ELSE found

DenyWastePathRule(rule, image) ==
    LET found == {p \in DOMAIN image.wasted : p \in rule.paths}
    IN  IF found = {} THEN Clean(rule) ELSE {Result(rule, FALSE, <<p>>) : p \in found}

MaxLayerCountRule(rule, image) ==
    LET found == {p \in DOMAIN image.wasted : image.wasted[p].layers > rule.count}
    IN  IF found = {} THEN Clean(rule) ELSE {Result(rule, FALSE, <<p>>) : p \in found}

EvaluateRule(rule, image) ==
    IF rule.type = "efficiency" THEN LowestEfficiency(rule, image)
    ELSE IF rule.type = "wasted bytes" THEN HighestWastedBytes(rule, image)
    ELSE IF rule.type = "wasted percent" THEN HighestUserWastedPercent(rule, image)
    ELSE IF rule.type = "block" THEN BlockPathRule(rule, image)
    ELSE IF rule.type = "deny-waste" THEN DenyWastePathRule(rule, image)
    ELSE MaxLayerCountRule(rule, image)

EvaluateRules(rules, image) == UNION {EvaluateRule(rule, image) : rule \in rules}

RulesPass(rules, image) == \A r \in EvaluateRules(rules, image) : r.passed
=============================================================================
