----------------------------- MODULE ConfigFile -----------------------------
(***************************************************************************)
(* Loading .layerx.yaml: which file is read, what each section may be, and *)
(* the configuration that comes of it.                                     *)
(*                                                                         *)
(* A file is absent, unreadable, blank (nothing but comments) or a YAML    *)
(* mapping of sections; a section has the shape the loader tells apart and *)
(* the keys it sets.  Strict decoding is the field "known": every key is   *)
(* one the decoder knows.  Globs are sets of paths, with what is wrong     *)
(* with them, if anything, in "globs".                                     *)
(***************************************************************************)
EXTENDS SizeBudget, FiniteSets, SequencesExt, FiniteSetsExt

CONSTANT MaxLevels    \* directories looked at on the way up

ASSUME MaxLevelsAssumption == MaxLevels \in Nat

\* What a file may be: thresholds and counts are integers, a section of limits
\* that is not there sets none.
IsFile(file) ==
    /\ file.rules.shape \in {"absent", "null", "other", "map"}
    /\ \A key \in DOMAIN file.rules.keys : file.rules.keys[key] \in Int
    /\ file.budget.shape \in {"absent", "null", "other", "map"}
    /\ \A limit \in {file.budget.max, file.budget.growth} :
           limit.kind \in {"null", "blank"} \/ IsQuantity(limit)
    /\ file.budget.shape = "absent" => file.budget.max = Unset /\ file.budget.growth = Unset
    /\ file.pathRules.shape = "flat" => file.pathRules.maxLayerCount \in Int
    /\ file.pathRules.shape = "list" =>
           \A i \in DOMAIN file.pathRules.entries : file.pathRules.entries[i].count \in Int

Default ==
    [rules |-> [lowestEfficiency |-> 90, highestWastedBytes |-> 0,
                highestUserWastedPercent |-> 10],
     budget |-> [max |-> Unset, growth |-> Unset],
     pathRules |-> {}]

\* Load stops at the first file there is, whatever is in it.
Load(walk, user) ==
    LET there == {i \in 1..Min({Len(walk), MaxLevels}) : walk[i].content # "absent"}
    IN  IF there # {} THEN walk[Min(there)] ELSE user

\* The keys the file sets over the defaults of those it does not.
decodeRules(section) ==
    IF section.shape = "absent" THEN Default.rules
    ELSE [f \in DOMAIN Default.rules |->
            IF f \in DOMAIN section.keys THEN section.keys[f] ELSE Default.rules[f]]

\* rejectNullSections and decodeRules
rulesError(section) == section.shape \in {"null", "other"}

\* decodeSizeBudget: a limit that is written must have a value.
budgetError(section) ==
    \/ section.shape \in {"null", "other"}
    \/ section.max.kind \in {"null", "blank"} \/ section.growth.kind \in {"null", "blank"}

\* A maximum of one layer would forbid every file: two, or zero for none.
validateMaxLayerCount(n) == n = 0 \/ n >= 2

Spec1(id, type, paths, count) ==
    [id |-> id, type |-> type, paths |-> paths, count |-> count]

flatError(section) ==
    \/ section.block.globs = "bad" \/ section.denyWaste.globs = "bad"
    \/ ~validateMaxLayerCount(section.maxLayerCount)

normalizeFlat(section) ==
    (IF section.block.globs = "none" THEN {}
     ELSE {Spec1("block", "block", section.block.paths, 0)})
    \cup (IF section.denyWaste.globs = "none" THEN {}
          ELSE {Spec1("deny-waste", "deny-waste", section.denyWaste.paths, 0)})
    \cup (IF section.maxLayerCount = 0 THEN {}
          ELSE {Spec1("max-layer-count", "max-layer-count", {}, section.maxLayerCount)})

listError(entries) ==
    \/ \E i, j \in DOMAIN entries : i # j /\ entries[i].id = entries[j].id
    \/ \E i \in DOMAIN entries :
         LET e == entries[i]
         IN  \/ e.id = "" \/ e.type \notin {"block", "deny-waste", "max-layer-count"}
             \/ e.type # "max-layer-count" /\ e.globs # "ok"
             \/ e.type = "max-layer-count" /\ ~validateMaxLayerCount(e.count)

\* A threshold of zero drops the entry.
normalizeList(entries) ==
    {Spec1(e.id, e.type, e.paths, e.count) :
        e \in {e \in ToSet(entries) : e.type # "max-layer-count" \/ e.count # 0}}

pathRulesError(section) ==
    \/ section.shape = "other"
    \/ section.shape = "flat" /\ flatError(section)
    \/ section.shape = "list" /\ listError(section.entries)

\* `path-rules:` without a value means none, unlike `rules:`.
normalizePathRules(section) ==
    IF section.shape = "flat" THEN normalizeFlat(section)
    ELSE IF section.shape = "list" THEN normalizeList(section.entries)
    ELSE {}

validate(file, rules, budget) ==
    /\ file.version \in {0, 1}
    /\ file.theme # "unknown"
    /\ ~ParseError(budget)
    /\ rules.lowestEfficiency \in 0..100 /\ rules.highestUserWastedPercent \in 0..100
    /\ rules.highestWastedBytes >= 0

\* A section is decoded only when the ones before it are sound.
LoadError(file) ==
    \/ file.content = "unreadable"
    \/ /\ file.content = "yaml"
       /\ \/ ~file.known
          \/ rulesError(file.rules) \/ budgetError(file.budget) \/ pathRulesError(file.pathRules)
          \/ ~validate(file, decodeRules(file.rules),
                       [max |-> file.budget.max, growth |-> file.budget.growth])

LoadFrom(file) ==
    IF file.content # "yaml" THEN Default
    ELSE [rules |-> decodeRules(file.rules),
          budget |-> [max |-> file.budget.max, growth |-> file.budget.growth],
          pathRules |-> normalizePathRules(file.pathRules)]
=============================================================================
