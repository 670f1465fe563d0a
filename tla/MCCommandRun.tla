---------------------------- MODULE MCCommandRun ----------------------------
(* Images built of layers, and the command lines and configuration files   *)
(* that are run on them.                                                   *)
EXTENDS CommandRun, TLC

File(size, meta) == [size |-> size, meta |-> meta]
Layer(id, command, puts, dels) == [id |-> id, command |-> command, puts |-> puts, dels |-> dels]

\* What an analysis says of an image with these layers.
Image(platform, layers) ==
    LET n == DOMAIN layers
        Writes(p, k) == {i \in 1..k : p \in DOMAIN layers[i].puts}
        Touches(p, k) == {i \in 1..k : p \in DOMAIN layers[i].puts \cup layers[i].dels}
        Paths == UNION {DOMAIN layers[i].puts : i \in n}
        LivePaths(k) == {p \in Paths : Touches(p, k) # {} /\ Max(Touches(p, k)) \in Writes(p, k)}
        At(p, k) == layers[Max(Writes(p, k))].puts[p]
        Held(S, k) == FoldSet(LAMBDA p, sum : At(p, k).size + sum, 0, S)
        Live(k) == Held(LivePaths(k), k)
        all == Len(layers)
        Stored(p) == FoldSet(LAMBDA i, sum : layers[i].puts[p].size + sum, 0, Writes(p, all))
        Waste(p) == Stored(p) - (IF p \in LivePaths(all) THEN At(p, all).size ELSE 0)
    IN  [platform |-> platform,
         layers |-> [i \in n |-> [diffID |-> layers[i].id, command |-> layers[i].command,
                                  size |-> FoldFunction(LAMBDA f, sum : f.size + sum, 0, layers[i].puts),
                                  netDelta |-> Live(i) - Live(i - 1)]],
         files |-> [p \in LivePaths(all) |-> At(p, all)],
         live |-> Live(all),
         wasted |-> [p \in {p \in Paths : Waste(p) > 0} |->
                        [bytes |-> Waste(p), layers |-> Cardinality(Writes(p, all))]],
         written |-> [i \in n |->
                        {[path |-> p, dir |-> FALSE, whiteout |-> FALSE] : p \in DOMAIN layers[i].puts}
                        \cup {[path |-> p, dir |-> FALSE, whiteout |-> TRUE] : p \in layers[i].dels}]]

None == [p \in {} |-> 0]
From == Layer("d1", "FROM", "app" :> File(6, 0), {})
AddKey == Layer("d2", "RUN a", "key" :> File(1, 0), {})
Log(id, command) == Layer(id, command, "log" :> File(2, 0), {})

Lean == Image("amd", <<From, AddKey>>)
Gone == Image("amd", <<From, AddKey, Layer("d3", "RUN c", None, {"key"})>>)
Rewritten == Image("amd", <<From, Layer("d4", "RUN a", "app" :> File(5, 1), {}), Log("d5", "RUN b")>>)
Edge == Image("amd", << Layer("d6", "FROM", ("app" :> File(9, 0)) @@ ("log" :> File(1, 0)), {}),
                        Layer("d7", "RUN c", None, {"log"}) >>)
Twice == Image("amd", <<Log("d8", "RUN x"), Log("d8", "RUN x"), Layer("", "RUN a", "app" :> File(4, 0), {})>>)
Once == Image("amd", <<Log("d9", "RUN y"), Layer("", "RUN a", "app" :> File(3, 0), {}), Log("d8", "RUN x")>>)
Empty == Image("amd", <<>>)
Other == Image("arm", <<From, AddKey>>)
Unnamed == Image("", <<From, Log("d5", "RUN b")>>)
Plain == {Lean, Gone, Rewritten, Edge, Twice, Once, Empty, Other, Unnamed}

\* One live byte of ten, a little more waste than a tenth, and two whose
\* waste is the same and whose shares differ by less than a hundredth.
Shared(live, wasted) ==
    Image("amd", << Layer("e1", "FROM", ("app" :> File(live, 0)) @@ ("log" :> File(wasted, 0)), {}),
                    Layer("e2", "RUN c", None, {"log"}) >>)
Tenth == Shared(1, 9)
Over == Shared(43, 5)
Wide == Shared(18, 2)
Narrow == Shared(17, 2)
MCImages == Plain \cup {Tenth, Over, Wide, Narrow}

\* Floats up to a half lie one apart, up to 1 two, and so on up to 128.
MCGaps == {1, 2, 4, 8, 16, 32, 64, 128, 256}

-----------------------------------------------------------------------------
Absent == [shape |-> "absent"]
NoGlobs == [globs |-> "none", paths |-> {}]
Globs(paths) == [globs |-> "ok", paths |-> paths]
NoFile == [content |-> "absent", known |-> TRUE, version |-> 1, theme |-> "",
           rules |-> [shape |-> "absent", keys |-> None],
           budget |-> [shape |-> "absent", max |-> Unset, growth |-> Unset], pathRules |-> Absent]
Yaml == [NoFile EXCEPT !.content = "yaml"]
Rules(keys) == [Yaml EXCEPT !.rules = [shape |-> "map", keys |-> keys]]
Off == ("lowestEfficiency" :> 0) @@ ("highestUserWastedPercent" :> 0)
Flat(block, deny, count) ==
    [Rules(Off) EXCEPT !.pathRules = [shape |-> "flat", block |-> block, denyWaste |-> deny,
                                      maxLayerCount |-> count]]
Entry(id, type, paths, count) ==
    [id |-> id, type |-> type, globs |-> "ok", paths |-> paths, count |-> count]
List(entries) == [Rules(Off) EXCEPT !.pathRules = [shape |-> "list", entries |-> entries]]
Budget(max, growth) == [Rules(Off) EXCEPT !.budget = [shape |-> "map", max |-> max, growth |-> growth]]
Wrong(kind) == [kind |-> kind, num |-> 1, den |-> 2]

RuleFiles == { NoFile, [NoFile EXCEPT !.content = "blank"], Yaml, Rules(Off),
               Rules("lowestEfficiency" :> 40), Rules("highestUserWastedPercent" :> 20),
               Rules(Off @@ ("highestWastedBytes" :> 1)),
               Flat(Globs({"key"}), NoGlobs, 0), Flat(NoGlobs, Globs({"key"}), 0),
               Flat(NoGlobs, Globs({"log"}), 2), Flat(NoGlobs, NoGlobs, 0),
               List(<<Entry("one", "block", {"log"}, 0), Entry("two", "max-layer-count", {}, 0)>>),
               List(<<Entry("one", "max-layer-count", {}, 2), Entry("two", "deny-waste", {"app"}, 0)>>),
               List(<<Entry("one", "max-layer-count", {}, 0)>>) }
BadFiles == { [NoFile EXCEPT !.content = "unreadable"], [Yaml EXCEPT !.known = FALSE],
              [Yaml EXCEPT !.version = 2], [Yaml EXCEPT !.theme = "unknown"],
              [Yaml EXCEPT !.rules.shape = "null"], [Yaml EXCEPT !.budget.shape = "other"],
              [Yaml EXCEPT !.pathRules = [shape |-> "other"]],
              Rules("lowestEfficiency" :> 101), Budget(Percent(5), Unset),
              Budget(Wrong("bad"), Unset), Budget(Wrong("bytes"), Unset), Budget(Unset, Wrong("null")),
              Budget(Bytes(300), Unset), Flat(NoGlobs, NoGlobs, 1),
              Flat([globs |-> "bad", paths |-> {"key"}], NoGlobs, 0),
              List(<<Entry("one", "block", {"log"}, 0), Entry("one", "block", {"key"}, 0)>>),
              List(<<Entry("", "block", {"log"}, 0)>>) }

NoFlags == [max |-> <<>>, growth |-> <<>>, lowestEfficiency |-> NotGiven,
            highestWastedBytes |-> NotGiven, highestUserWastedPercent |-> NotGiven]
Run1 == [kind |-> "ci", json |-> FALSE, baseline |-> FALSE, format |-> "text", flags |-> NoFlags,
         config |-> <<>>, walk |-> <<>>, user |-> NoFile, valid |-> TRUE, ref |-> "user"]
World(image, base) ==
    [image |-> image, baseline |-> base, moves |-> [image |-> {}, baseline |-> {}],
     built |-> {image}]
Scenario(o, w) == [opts |-> o, world |-> w]

\* Every rule on every image that tells it apart, by file or by flag.
RuleScenarios ==
    {Scenario([Run1 EXCEPT !.walk = <<NoFile, f>>], World(i, Lean)) :
        f \in RuleFiles \cup BadFiles, i \in {Lean, Gone, Rewritten, Edge, Empty}}
    \cup {Scenario([Run1 EXCEPT !.flags.lowestEfficiency = e, !.flags.highestWastedBytes = b,
                                !.flags.highestUserWastedPercent = w, !.user = Rules(Off)],
                   World(i, Lean)) :
            e \in {NotGiven, 0, 90, 91, 101}, b \in {NotGiven, 1}, w \in {NotGiven, 10},
            i \in {Edge, Gone}}
    \cup {Scenario([Run1 EXCEPT !.walk = <<NoFile, NoFile, NoFile, Rules(Off)>>,
                                !.user = Rules("lowestEfficiency" :> 40)], World(Gone, Lean)),
          Scenario([Run1 EXCEPT !.walk = <<Rules("lowestEfficiency" :> 40), Rules(Off)>>,
                                !.config = <<Yaml>>], World(Gone, Lean)),
          Scenario([Run1 EXCEPT !.valid = FALSE], World(Lean, Lean))}

\* Shares at their exact limits, and beside them by less than is looked at.
ShareScenarios ==
    {Scenario([Run1 EXCEPT !.flags.lowestEfficiency = e, !.flags.highestUserWastedPercent = w],
              World(i, Lean)) :
        e \in {0, 9, 10, 11}, w \in {0, 9, 10, 90}, i \in {Tenth, Over, Wide}}
    \cup {Scenario([Run1 EXCEPT !.kind = "compare"], World(i, base)) :
            i, base \in {Wide, Narrow, Over, Tenth}}

\* Limits on the size and the growth, at and beside the exact boundary.
SizeScenarios ==
    {Scenario([Run1 EXCEPT !.kind = k, !.baseline = (k = "ci") /\ b, !.flags.max = m,
                           !.flags.growth = g, !.user = Budget(Bytes(8), Unset)], World(i, base)) :
        k \in {"ci", "compare"}, b \in BOOLEAN, m \in {<<>>, <<Unset>>, <<Bytes(7)>>, <<Bytes(20)>>},
        g \in {<<>>, <<Bytes(0)>>, <<Percent(14)>>, <<Percent(15)>>, <<Percent(85)>>, <<Percent(86)>>},
        i \in {Lean, Rewritten, Unnamed}, base \in {Lean, Rewritten, Empty, Other}}
    \cup {Scenario([Run1 EXCEPT !.kind = k, !.baseline = (k = "ci"), !.flags.growth = g,
                                !.user = Budget(Unset, Bytes(0))], World(Rewritten, Lean)) :
            k \in {"ci", "compare"}, g \in {<<>>, <<Unset>>}}

\* Comparisons of images whose layers repeat contents and commands.
CompareScenarios ==
    {Scenario([Run1 EXCEPT !.kind = "compare", !.format = f], World(i, base)) :
        f \in {"text", "json"}, i, base \in Plain}

\* References that are moved while they are analysed, and exports.
Restless(i, base) ==
    [World(i, base) EXCEPT !.moves = [image |-> {Gone}, baseline |-> {Rewritten}],
                           !.built = {Lean, Gone}]
MovingScenarios ==
    {Scenario([Run1 EXCEPT !.kind = k, !.json = (k # "compare"), !.baseline = (k = "ci"),
                           !.user = f], Restless(Lean, Lean)) :
        k \in {"ci", "compare", "inspect"}, f \in {Yaml, Budget(Bytes(6), Percent(0))}}
    \cup {Scenario([Run1 EXCEPT !.kind = "inspect"], Restless(Lean, Lean))}
    \cup {Scenario([Run1 EXCEPT !.kind = "build", !.json = j, !.ref = r], Restless(Lean, Lean)) :
            j \in BOOLEAN, r \in {"tag", "own", "user"}}

MCScenarios == RuleScenarios \cup ShareScenarios \cup SizeScenarios \cup CompareScenarios \cup MovingScenarios
MCEngineCodes == {-1, 1, 3}
=============================================================================
