# A TLA+ model of layerx

`layerx` shows what is in a container image: it takes the layers out of a local
engine (Docker, Podman) or an archive, builds the tree of every layer and of the
file system up to it, computes what space is wasted, and presents the result in
a terminal UI, as JSON, as a comparison of two images, or as a pass/fail answer
for CI. Results are cached on disk between runs.

This directory holds TLA+ modules of the parts where an interleaving, a failure
or an unusual input decides whether that result is right, the TLC runs that
check them on small instances, and proofs for all values of the constants.
Everything is translated from the Go source; `PROJECT.json` gives the lines of
every definition.

## 1. Inventory

### Parts of the system

| Part | Code | State it keeps | Operations | Talks to |
|---|---|---|---|---|
| Analysis and cache | `image/analysis.go`, `image/cache.go` | files `layers*.gob` and sidecars under the cache root, shared by all processes; temp files | `AnalyzeWithOptions`: digest, load, pull and export, digest, save, prune | engine, other processes through the disk |
| Cache pruning | `image/cache.go`, `cmd/cache.go` | the scan of the root, running totals | `PruneCache`, `ListCache`, `layerx cache list / prune` | the same disk |
| Engine resolver | `image/docker.go`, `image/layer_stream.go`, `image/platform.go` | table of layers of a running pull, spooled tar | `ImageID`, `ensureImageWithProgress`, `streamPullProgress`, `parseLayers` | engine API, progress channel |
| Archive resolver | `image/archive.go` | spooled archive | docker-archive and OCI layouts, platform check | file system |
| Layer trees | `image/tree_parser.go`, `image/stack.go`, `image/filetree.go`, `image/size.go` | tree per layer, cumulative tree | `ParseLayerTar`, `Stack`, `BuildAggregatedTrees`, `assignNetDeltas` | pure |
| Waste | `image/efficiency.go`, `image/payload.go`, `image/waste_explanation.go` | index per tree | `computeEfficiency`, `ExplainWaste` | pure |
| File extraction | `image/extractor.go` | none | `ExtractFromLayer`, `walkBackForFile` | engine export or archive |
| Comparison, cleanup | `image/compare.go`, `image/cleanup.go` | none | matching of layers, path differences, suggestions | pure |
| Terminal UI | `tui/` | one `model` value: load state, viewer, saves, status line, overlays, navigation | `model.Update` and the commands it returns | analysis, extraction, file system |
| CI gate, configuration, size budget | `ci/`, `config/`, `cmd/ci.go`, `internal/sizebudget` | rules, results | evaluation, exit codes | analysis |
| Build | `cmd/build.go` | iidfile | run the engine's build, then analyze | child process |
| Command-line progress | `cmd/progress.go` | goroutine, channel, ticker | `stderrProgress`, `runProgressLoop` | analysis |
| Engine selection | `image/engine/`, `cmd/resolver.go` | none | contexts, sockets, environment, podman fallback | file system |

How they interact: a command builds a resolver, `AnalyzeWithOptions` calls it
and the cache, and sends events down a bounded channel that the UI or the
progress goroutine drains; the UI calls back into the extractor from commands
that run concurrently with `Update`. Processes meet only on the cache disk and
in the engine's image store. There is no lock anywhere.

### What is hard

* **Concurrency between processes without locks**: the digest of a reference is
  read before and after an export that somebody else may make stale; prunes
  remove whole directories that others are writing to; a bad cache file is
  judged by one system call and removed by another.
* **Crashes**: a kill or a power cut between any two steps of a save.
* **Late and reordered messages**: every UI command answers whenever it likes,
  also after its request was superseded, closed or quit.
* **Overlay semantics**: whiteouts, opaque markers, directories turned into
  files and back, hard links into layers that are later hidden.
* **Partial failure**: `RemoveAll` that does not remove, a write that fails
  after the temp file was created, a pull that fails in band.

The full list, each item at the line where it bites and with the properties that
cover it, is `hazards` in `PROJECT.json`.

### What makes each part correct

* Analysis and cache: no reader ever meets a torn file; what is served is the
  image asked for, on the platform asked for; bad files never block a run and
  the cache serves again once things are quiet.
* Pruning: exactly what the options ask for goes; `Keep` and foreign directories
  stay; the result accounts for everything scanned, also when removals fail.
* Trees, waste, extraction: agreement with what an overlay mount of the same
  layers would show, reach and hold.
* Terminal UI: the viewer shows what was last asked for; one listener; nothing
  of the user's is overwritten; no temp file is left; quitting reaches
  everything; no message stays for good.
* CI gate: exit 0 means that the reference named an image that keeps every
  limit, exit 1 that it named one that does not, whatever is moved or fails
  meanwhile; floats may blur a limit on shares of bytes by one part in 10^9, and
  no limit in bytes. Comparison: a fair matching of layers that uses each once,
  and differences that add up.
* Engine and archive: the image that is served is the one asked for, an error
  names its cause, every layer has its own tree and command, and what names an
  engine decides which engine is talked to.
* Navigation: the selection stays on the screen, a list is never stale, a jump
  lands on its file where the layer lists it, and collapsing keeps the place.
* Command-line progress: every line stands under its header, the last word of a
  pull and every warning are printed once, and `stop` returns.

## 2. Modules

| Module | Models | Proofs |
|---|---|---|
| `AnalysisCache` | `AnalyzeWithOptions`, `loadCacheWithPlatform`, `saveCacheWithPlatform`, run by several processes | `AnalysisCacheProofs` |
| `CachePrune` | one call of `PruneCache`, its result, and other processes meanwhile | `CachePruneProofs` |
| `LayerNames` | names, paths and the marks of removal | used by the two below |
| `FileTrees` | file trees, `InsertNode`, the two merges (`Stack`, `BuildAggregatedTrees`) | no (recursive over trees) |
| `LayerWaste` | surviving payloads, runs, charges, explanations | no |
| `Overlay` | external reference: what a stack of layers means | in `ImageSourceProofs` |
| `LayerTars` | the tars read entry by entry, their overlay, and the walk back for a file | `ImageSourceProofs` |
| `ImageLayers` | composition of trees, waste and tars: an image read layer by layer | no (recursive over trees) |
| `TuiSession` | `model.Update`: loading, viewing, saving, overlays, and the commands it returns | `TuiSessionProofs` |
| `TreeLists` | what a pane lists (collapsed directories, filters, order) and how many rows it has | `TreeNavigationProofs` |
| `TreeNavigation` | the keys that move through layers, panes and the waste overlay, and the memoised lists | `TreeNavigationProofs` |
| `SizeBudget`, `Floats`, `CheckRules`, `ConfigFile` | limits on size and growth; float64; the rules of `ci`; the configuration file | `CommandRunProofs` |
| `ImageCompare` | pairing of layers, differences of files and waste | `CommandRunProofs` |
| `Verdict` | abstract: what the exit code of a check promises | `CommandRunProofs` (that it is implemented) |
| `CommandRun` | one run of `ci`, `compare`, `build` or the plain command, step by step; implements `Verdict` | `CommandRunProofs` |
| `EngineEndpoint`, `RegistryLogin` | which engine is talked to; which login a pull is made with | `ImageSourceProofs` (the engine) |
| `ArchiveInput` | from an archive of either layout to its layers | `ImageSourceProofs` |
| `ImageSource` | a reference to its layers: platform, archive or engine, the look for the image, the pull, the export, the parsing | `ImageSourceProofs` |
| `FileView` | a file of an analysed image: the second export or opening, and the search of its layers; composed with `ImageSource` | `ImageSourceProofs` |
| `PullProgress` | the events of an analysis, `streamPullProgress`, the channel, `runProgressLoop` and `stop` | `PullProgressProofs` |

`MC*` modules give constants their values for TLC; the `.cfg` files choose among
them. `SumTheorems` has the lemmas about sums, folds and counting that the
proofs share.

### AnalysisCache

One step is one system call or engine request. `pc[p]` walks through
`AnalyzeWithOptions`: `Start` (first `ImageID`), `LoadRead`/`LoadEvict`
(`loadCacheWithPlatform`, in two steps because the remove goes by path),
`Ensure`, `Pull`, `Export`, `PostID` (second `ImageID` and the four-way switch),
then the save: `SaveMkdir` (with the sweep of old temp files), `SaveCreate`,
`SaveWrite`, `SaveSync`, `SaveRename`, `SaveMeta`, then the prune in its tail:
`PruneScan`, `PruneRemove`, `PruneEnd`. `StartPrune` is `layerx cache prune`.

Layers are abstracted to where they come from: the digest and platform of the
image that was exported, and whether the run that exported them had read the
digest first (`warm`). A cache file is absent, torn, alien, unsynced or whole;
only a power cut tells unsynced from whole. The environment moves the
reference (`Retag`, `Pull`), kills processes, cuts power, tampers with files and
lets an hour go by. Which entries a prune condemns is left open here (any set
without `Keep`); `CachePrune` says which.

### CachePrune

`Scan` takes the snapshot; `AllPass`, `TTLPass`, `Sort`, `CapPass`, `CapEnd` are
the loops of `PruneCache`, one iteration a step. A directory `RemoveAll` cannot
remove is in `stuck`. Other processes save or remove entries between any two
steps. `snap` and `failures` are history for the properties. Slices
whose order the code does not use are sets.

### FileTrees, LayerWaste, Overlay, LayerTars, ImageLayers

A tree is a record with a sequence of children, as in the code, because the
order of children and the presence of two children with one name are among the
questions. `ImageLayers` feeds every tar entry both to the code's algorithm
(`tree`, `layerTrees`, `stacked`, `aggregated`) and to `Overlay` (`uppers`, `fs`),
where a file system is a plain function from paths to attributes. The
properties compare the two after each finished layer. The tars, the overlay and
the walk back for a file (`FindFileInLayer`, `WalkBack`) are in `LayerTars`, a
specification of its own (`TarsSpec`) that needs no trees: `ImageLayers` conjoins
`TarsInit`, `NextEntry` and `EndOfTar` to its own initial state and steps, so
that it is also a `TarsSpec`, and what is proved of that holds of it. An inode in
`Overlay` is the path and layer of the write that stored the bytes, so "still
reachable" is membership in a set of inodes and needs no walk.

### TuiSession

`Update` is atomic per message. A command is an element of a set (`fetches`,
`lights`, `saves`) or a counter until its message is handled, so messages arrive
in any order. A save goes through `extract`, `probe`, `check`, `create`, `write`
because other saves run between them. Contexts are names; cancelling removes the
name from `live`, and a child of a cancelled context is never live. Timers of
superseded status generations do nothing in the code and are dropped.

### PullProgress

Three actors around one bounded channel. The analysis (`Lookup` to `Return`) is
reduced to the events it sends and their order; `Message` is one iteration of
`streamPullProgress` over its table of layers, and the daemon may name, advance,
restart and complete layers in any order. `Emit` is `emitProgress`: a full
channel drops the event. The goroutine's `select` is the choice among `Receive`,
`Tick`, `Drained` and `Cancelled`; `Stop` closes the channel and `Stopped` is the
return of its wait. `out` and `sent` are history: the last header, the last line
and its figures, and what the channel took.

### TreeLists, TreeNavigation

Bubbletea calls `View` after every `Update`, so a step of `TreeNavigation` is a
handler and the drawing that follows it. `ui` holds the fields of the model the
keys change; `memo` is `treeCache`, which only drawing writes, so a handler may
read a list that its own changes have made stale. `Drawn` is that write. Rows
and positions count from 1 instead of 0. What is drawn is taken from the drawing
code (`DrawnPanes`, `DrawnRows`), what is scrolled to from the handlers
(`treeVisibleHeightFor`): that the two agree is one of the questions.

A tree is given as its preorder list, each node with its depth and its path; a
query stands for the paths that contain it. What is collapsed is a set of paths
while what it hides are the nodes within a directory (`Within`, by depth, as
`visibleTree` walks children), and a tree may list a path more than once: the
flattened children of a directory that became a file keep their paths when the
directory comes back beside them. A row of the waste overlay names any layer or
none, and its layer need not list its path: a file's history ends with the layer
that removed it.

### SizeBudget, Floats, CheckRules, ConfigFile, ImageCompare, CommandRun, Verdict

`CommandRun` takes a command as the list of its steps (`Steps`) and walks it
with `at`: options, analyses, IDs, judgement, report, and the export in its three
system calls. Each step may fail, and `Fail` is where a check that has its
analysis still goes on to the export. `Move` is somebody else's push, pull or
tag between two steps. `Engine` and `Built` are `layerx build`.

The rules, limits, configuration and differences are operators of the
modules it extends. Quantities are fractions `num/den`, whole bytes or a
percentage of the baseline; the flag of a limit was not given (`<<>>`) or given
with a text, and the empty text, `<<Unset>>`, turns the configured limit off. A
pattern is the set of paths it matches. An analysis is a record of what the
other components compute (layers, live files, waste).

Scores are floats. `Floats` has them as natural numbers of a smallest float,
`One` of which make 1: `Float(n, d)` is the nearest one to a fraction, with ties
to even, and the distance between neighbours grows with the number (`Gaps`,
`Unit` of which reach the end of the range they apply to). For float64 `Unit` is
2^53. `Score`, `LowestEfficiency`, `HighestUserWastedPercent` and
`RegressionReasons` round after each operation as the code does, compare the
score as it is, `1 - Score` rounded to `Decimals` (10^9) parts, and scores of two
images with an epsilon of one such part.

`Verdict` is the abstract specification: only an exit code that is set once, and
what 0 and 1 then say of the images that the references have named. Its limits
are stated over the images and the configuration file directly, with exact
fractions, and share neither floats nor rules nor results nor rounded allowances
with the code. A limit in bytes is kept or not. To a limit on a share of the
bytes `Verdict` allows one part in `Decimals` (`slack`): exit 0 may be of an image
that misses it by no more, exit 1 of one that keeps it by less, except that
waste at its very limit is never too much. `CommandRun` instantiates it with `asked`, the file the command finds, and
`outcome <- code`; `KeepsItsWord` is its specification.

### EngineEndpoint, RegistryLogin, ArchiveInput, ImageSource, FileView

`ImageSource` has one step for each call to the engine. The engine is external:
`Replies` lets it answer truthfully, with an odd error, or (when it is away or
the user has cancelled) as an unreachable or cancelled call. `Turn`, `Cancel`,
`RemoveImage` and `MoveTag`, which gives the name to another image of any
platform, may come between any two calls. `pc` follows
`ensureImageWithProgress`: `InspectID`, `InspectPinned`, `Info`, `List`,
`InspectLocal`, `Pull`, `Stream`, `ProbeImage`, and then `Scope`, `Save`,
`Spool`, `Parse`. The texts of pull errors are the three that the classification
tells apart (`Says`); that "no matching manifest" reads both as a missing
platform and as a missing image is kept. `seen` is history: what went wrong.

An archive is a sequence of entries; `ArchiveInput` scans it for metadata, as
the code does, keeping the last entry of a root name and the first of a blob.
`FileView` goes on where `ImageSource` has served an analysis. `Request` is
`fetchFileContent` or `fetchFileRaw`: the reference, a path and the number of
the selected layer are all that is passed on. `OpenAgain`, or `ExportAgain` and
`SpoolAgain`, get the archive a second time (`loadLayerSource`), and `Walk` is
`walkBackForFile` over the blobs that are kept. Between the steps the engine may
go away, the image may be removed, the user may close the viewer, `MoveTag`
may give the name to another image, and `MoveFile` replaces the archive or takes
it away. What
one tar tells of a path is given (`Tells`); how it is found there is in
`LayerTars`.

`EngineEndpoint` is the order in which variables, contexts, connections and
sockets are asked, on linux, darwin, windows and any other system; a file is
absent, unreadable, malformed or ok.

## 3. Runs

| Run | Question | Bounds, and why they are enough |
|---|---|---|
| `cache_safe` | torn files, wrong digests, wrong platforms | two processes (every race here is between two), two digests, pins none and `arm`, one move of the reference and one fault: each property is about one wrong file, which one of each can make |
| `cache_served` | do runs end; does the cache serve once left alone | two processes, one pin, one move, one fault, no symmetry (liveness) |
| `prune` | all of `PruneCache` | three entries of four kinds (on each side of the TTL by oldest and by newest file, two sizes), cap 2, one interference; three entries are below, at and above the cap and leave two to be ordered |
| `layers` | trees, labels, waste, deltas, reasons, extraction against an overlay | up to three layers and four entries in all; two names at two depths give every change of kind, links across a directory's border, and for every marker something to hit and to miss |
| `layers_gone` | finding | same, smaller |
| `progress` | are lines, headers and warnings right, and does `stop` return | two layers, one downloaded in one message and one in two; three messages, two warnings after the export and a channel of two, so that it is full and events are dropped in every phase |
| `tui` | session from its start; status line under fairness | two inputs, a progress channel of one |
| `tui_loaded` | viewing, saving, overlays, quitting | four keys from the loaded state, two files with one base name, two targets |
| `tui_overwrite` | finding | as small as shows it |
| `tree` | cursors, memoised lists, jumps, pages | six keys from the first screen (enough to filter, collapse, split and jump with something left over); three layers of up to five nodes: a directory in a directory, its parent made a file and a directory again, so that the last aggregated tree lists `a/x` twice, and a file the last stacked tree no longer lists; waste rows with an unknown layer and with a layer that lacks the file; heights 9 to 17, on both sides of where a header and a second pane fit, with lists longer and shorter than their windows; a waste list cut at its limits |
| `gate` | exit codes, exports, comparisons | images with repeated contents and commands, with no layers and with no or another platform; every kind of rule and every way to break a file; limits at, below and above the exact figure; shares of bytes at their limits (where a float falls on either side) and off them by less than `Decimals` tells, with floats scaled to `Unit` 1024, `Ulp` 2 and two decimals; 63-bit byte counts scaled to 255; flags that are empty, given or left out; both references movable once at every step |
| `source` | the platform served, causes of errors, layers, the endpoint, the file in the viewer | 21 archives; local and registered variants for two platforms, platforms asked for or not, APIs 1.47 to 1.49, engines that keep one variant or several; the engine goes and comes back once, one cancel, one removal and one move of the name, to an image of either platform, each at any step; then one request, of either of two paths at any listed layer, since requests share nothing; the name moves once in all, or the archive once |

`CHECK_DEADLOCK FALSE` is set where a run really ends: `gate` and `source` after
the exit or the result of a single run, `tree` after its last key.

Every property of a passing run is accompanied by a mutant: a named operator
with a plausible bug, defined just before the operator it would replace, under
which TLC finds the property violated. The operators commented `Mutant:` are these and are used nowhere else.

What the properties say, in short:

* `NoTornEntry`, `WarmEntriesTrue`, `HitsTrue`, `PlatformFiled`, `RunsEnd`,
  `EventuallyServed` (AnalysisCache)
* `ResultAccounts`, `RemovesWhatWasAsked` (against a definition of the eviction
  without passes), `CapHolds`, `KeepAndForeignSafe` (CachePrune)
* `ViewsAreOverlay`, `LabelsTell`, `WasteExact` (the net deltas included),
  `ReasonsTrue` (ImageLayers), `ExtractsLive` (LayerTars)
* `ViewerShowsRequested`, `OneListener`, `NoTempLeaks`, `QuitCancelsAll`,
  `UsersFilesKept`, `StatusSettles` (TuiSession)
* `LinesUnderHeader`, `LastWordShown`, `WarningsTold`, `StopReturns`
  (PullProgress)
* `CursorSeen`, `ListsFresh`, `JumpsLand`, `KeepsPlace`, `NoRowSkipped`
  (TreeNavigation)
* `KeepsItsWord` (the refinement of `Verdict`), `NothingSilent`, `NoHalfFiles`,
  `PairsFair`, `DiffsAddUp` (CommandRun)
* `ServesAsked`, `CausesTold`, `LayersListed`, `EndpointNamed` (ImageSource);
  `ViewsListed` (FileView)

Some of them have a precondition worth knowing. `WarmEntriesTrue` and `HitsTrue`
assume that a reference never returns to a digest it named before
(`TagReturns = FALSE`): the code compares the digest before with the digest
after and cannot see a move there and back. `ExtractsLive` leaves out tars that
write over a directory they have themselves filled. `KeepsPlace` excepts the pane
in which a directory is toggled when a second directory of its path is above the
cursor, and `JumpsLand` asks for the file only where the row's layer lists it.
`KeepsItsWord` holds shares of bytes to their limits but for one part in
`Decimals`. `ServesAsked` says nothing of an image that is put in the place of the
one looked at, between the look and the export, when the platform was not asked
for and the engine is older than API 1.48: the export is not limited to a
platform then. `ViewsListed` assumes that the
reference still names the image, that both exports were limited to one platform
(of which an engine that keeps several variants has one) and that every name of
a layer is that of one blob. `LastWordShown` and
`WarningsTold` are about what the channel took (the code drops events rather
than wait) in a command that was not interrupted.

### Disagreements between code and documentation

The `violation` runs show places where a comment says one thing and the code
does another; `findings` in `PROJECT.json` quotes both.

* `layers_gone`: the walk back for a file passes a layer that replaced a parent
  directory by a file.
* `tui_overwrite`: two saves of one base name probe the same free name, and the
  second rename replaces the first save's file.

Others were noted while modelling and have no run:

* `ListCache` sorts by the newest file of an entry and says that this is
  `PruneCache`'s eviction order; the cap pass sorts by the oldest
  (`image/cache.go:651`, `682`, `802`).
* `PruneOptions` says that TTL removes "entries whose CachedAt is older than
  now-TTL" (`image/cache.go:121`), and `CachedAt` is the newest time of an entry's
  files (`image/cache.go:110`). The code goes by the oldest file, as the comment
  at `pruneEntry` says (`image/cache.go:199`): an entry with a file older than the
  TTL and a new one is removed. `Expired` and `RemovesWhatWasAsked` follow the
  code; the properties of `prune` do not show the difference, since they ask
  what the code asks for.
* The flattened children of a replaced directory can have the names of their new
  siblings, which `image/stack.go:150` means to avoid because they "would confuse
  FindChild and the TUI tree view". They do: with two directories of one path in
  a pane, collapsing the lower one also takes the rows of the upper one away, and
  the selection ends on another row. `KeepsPlace` excepts this.
* A waste row of unknown layer makes a jump that "should be a no-op"
  (`tui/waste_test.go:256`). It leaves layer, focus and query alone, but the
  order, the collapsed directories and the cursors are reset
  (`tui/waste.go:199`), and `JumpsLand` says so of the cursor.
* The efficiency rule "fails if the efficiency score is below the threshold"
  (`ci/rules.go:84`), but compares floats as they are (`ci/rules.go:99`): with 80
  of 100 bytes wasted and a limit of 0.2, the score is 0.19999999999999996 and the
  check fails at its very limit. The rule on waste rounds to nine decimals to
  avoid this (`ci/rules.go:143`), and so lets waste pass that is above its limit
  by less than that.
* Before API 1.48 an image that takes the name between the look at it
  (`image/docker.go:363`) and the export (`image/docker.go:220`), which is not
  limited to a platform there (`image/docker.go:261`), is served on whatever
  platform it is.
* A run that starts before the image is local saves under the digest it reads
  afterwards, with nothing to compare it with (`image/analysis.go:118`), though
  caching layers under a digest that is not theirs "would lie".
* A layer that completes without new bytes changes the key that tells progress
  lines apart, but not the line: it is printed twice (`cmd/progress.go:60`).
* Nothing ticks the spinner while a file is loading, once the session has been
  idle (`tui/model.go:454`, against the comment at `1277`).
* `classifyPullNotFound` takes an image that is there for one without the
  requested platform. On an engine before API 1.49, where the inspection for a
  platform fails, the image may be there for that very platform while the
  registry does not know it.
* The ID in a check's report is read after the analysis (`cmd/ci.go:238`): a
  reference moved in between gives one image's figures with another's ID.
* `cmd/resolver.go:151` and `image/engine/podman.go:17` put `DOCKER_HOST` before
  podman's connections; the code asks it last.
* `imageSaveOpts` "keeps analysis and layer extraction on the same platform"
  (`image/docker.go:231`), but each of the two exports asks the engine again:
  where `Info` fails for one of them, or before API 1.48, an engine with several
  variants may export another for the viewer than for the analysis.
* The viewer exports by the reference: when it has moved, a file of another image
  is shown under the layers of the first.
* Of two blobs of one name, a layer's tree is the last one's and its files are
  extracted from the first.
* Every error of `ImageList` is told as an engine that is not running; a second,
  empty entry of a blob's name leaves the unpacked size of the first.

## 4. Fairness

* `AnalysisCache`: weak fairness of each process's own steps (`Work(p)`): a
  process the OS schedules makes progress. Kills, faults, moves of the reference
  and the start of new runs are not fair. `cache_served` uses `QuietSpec` in
  `MCAnalysisCache`, which also leaves out that a process takes more than an
  hour over one save (the sweep would take its temp file); without that
  assumption a save can be undone for ever.
* `TuiSession`: weak fairness of `Commands` taken together: something that can
  happen does. It stands for the Go scheduler, for bubbletea's timers, and for
  the engine or disk answering or failing (every request has a context and
  ends). Keys are not fair.
* `PullProgress`: weak fairness of the goroutine (some case of its `select` that
  is ready is taken) and of the caller of `stop`, both by the Go scheduler. The
  analysis itself may take for ever; that a ready channel is never starved is not
  needed, because a tick with nothing buffered changes nothing.
* The other modules check safety only.

## 5. Proofs

`AnalysisCacheProofs` proves, for any number of processes, digests, platforms,
moves and faults:

* `TypeCorrect`: `Spec => []TypeOK`. The inductive invariant is `Shape`, which
  adds to `TypeOK` where a process can be with a key and with victims to prune.
* `NeverTorn`: `Spec => []NoTornEntry`. Not inductive alone: `SyncedFirst` adds
  that a temp file that reaches `rename` is synced or gone and that no slot is
  ever `unsynced`, so neither a rename nor a power cut makes a torn file.
* `PlatformsApart`: `Spec => []PlatformFiled`. `Filed` follows the platform from
  the export through the run to the slot.
* `WarmRunsTellTheTruth`: `WarmEntriesTrue` for references that never return.
  `Verified` relates what a run holds to what the reference names: if it still
  names the digest read first, the export came from it, because a digest left
  behind is in `past` for good.
* `HitsTellTheTruth`: `HitsTrue`, from the same.

`CachePruneProofs` proves, for any directories, entries, options, failures and
interference:

* `ResultsAccount`: `Spec => []ResultAccounts`; `KeepIsSafe` and
  `DryRunsAreHarmless`: the two action properties. One invariant carries them:
  the types, `Failing` (a failed directory is one that cannot be removed, and a
  dry run fails nothing), `KeepStays`, and `Books`, which says where every
  scanned record is in each pass. `Books` is needed because `ResultAccounts`
  speaks of the end only, when `kept` has just been rebuilt from `records`.

`PullProgressProofs` proves, for any layers, sizes, channel and timing:

* `LinesStandUnderTheirHeader`: a step that prints a line about the pull finds
  the pull's header on the screen. `InPhase` carries it: the phase the goroutine
  is in is the last header, what it has buffered is of that phase, and an event
  of any phase but the pull's has no figures to print.
* `WarningsAreTold`: `Spec => []WarningsTold`. `AllTold` counts: printed warnings
  and queued ones add up to those the channel took, and a goroutine that was not
  cancelled leaves an empty, closed channel behind.

* `LastWordIsShown`: `Spec => []LastWordShown`. `Latest` says where the last
  event of the pull is: the last one in the channel that tells something, or in
  the buffer, or on the screen, or a repetition of what is on the screen.

`CachePruneProofs` also proves what the passes come to:

* `RemovesTheRightOnes` and `CapIsKept`: `RemovesWhatWasAsked` and `CapHolds`.
  `PassInv` says what each pass has dealt with, `CapInv` that the running total
  is the weight of what is left and that the cap pass has seen nothing younger
  than what it will still see, `EndInv` what that leaves when it ends.

`TuiSessionProofs` proves, for any files, targets, keys and channel:

* `Typed`: `Spec => []TypeOK`, group by group (load, viewer, saves, contexts,
  status, keys), with a lemma for each group on which steps touch it.
* `ShowsRequested`: `ViewerShowsRequested`. `ViewerInv` adds that no request is
  numbered above the counter and that one numbered the same is for the file
  that is wanted, whatever answers are still under way.
* `TempsOwned` and `UsersKeep`: `NoTempLeaks` and `UsersFilesKept`. No two saves
  have one number (`SaveInv`), and a save past its probe has a target that is
  not the user's (`TargetInv`).
* `QuitsAll` and `ListensOnce`: `QuitCancelsAll` and `OneListener`.

`TreeNavigationProofs` proves, for any trees, terminals, queries and rows of
waste, all five properties of the run `tree`. The inductive invariant is `NavInv`:

* `MemoInv`: a slot of the present generation holds the list of its key and of
  the directories that are collapsed now. Every handler that touches those begins
  a generation (the lemmas `Follows*`); hence `ListsStayFresh`.
* `Good`: cursors and offsets have a shape, the layer is in its window, and so is
  the cursor of every pane the handlers look after; `WasteInv` says it of the
  overlay. `DrawnAsKept` is where drawing and handlers meet: a pane that is drawn
  is looked after and has the rows the handlers count on. Hence
  `CursorStaysInView`, and `NothingIsSkipped` with the arithmetic of a scroll
  (`ScrollsNear`).
* `JumpsSelect` (`JumpsLand`) also needs `DetailInv`: the event that is selected
  in a file's history is one of the file's. `JumpScreen` and `AllListed` say that
  nothing is left on the screen that could hide the file, if its layer lists it.
* `SelectionStays` (`KeepsPlace`): a directory hides rows that come after it
  only, so that without another directory of its path above the cursor the rows
  before the cursor, and with them its rank, are the same before and after. No
  path need be unique.

`CommandRunProofs` proves, for any images, configuration files, options and
engine codes, all five properties of the run `gate`:

* `Promised`: `Spec => KeepsItsWord`, the refinement of `Verdict`. `NamedInv`
  says that what was analysed was named, `FlowInv` and `CheckInv` where a run can
  be and what it has established by then. Lemmas say that a whole number of bytes
  or a rounded allowance decides like the exact fraction, how far a float is from
  the fraction it stands for, and that the rules and the comparison of scores
  therefore decide like exact fractions but for one part in `Decimals`. Of the
  floats it is assumed what `FloatAssumption` says: that one such part is ten of
  the gaps below 1 at least.
* `Told` and `Whole`: `NothingSilent` and `NoHalfFiles`, from `FlowInv`,
  `FileInv` and `ExportInv`. `Successors` says what comes before and after each
  step of each command.
* `DifferencesTold`: `DiffsAddUp`. The sum over the differences is split by the
  pairing into sums over both images.
* `PairedFairly`: `PairsFair`. The k-th copy of a content in one image is paired
  with the k-th in the other: positions are in one-to-one correspondence with
  their ranks.

`ImageSourceProofs` proves, for any scenarios and any number of turns of the
engine, about the specification of `FileView`, whose steps leave it alone:

* `ServesTheRightPlatform` and `TellsTheCause`: `ServesAsked` and `CausesTold`.
  `SourceInv` says for each value of `pc` what is known by then of the engine, of
  what it has, of what may be exported (`ExportInv`), why there is a pull
  (`PullInv`) and whose archive is read (`ArchiveInv`). Of an image that has taken
  the name it assumes only that it is one: the limit to a platform, which the
  export is given or not, has to make up for that.
* `NamesWin`: `EndpointNamed`, by cases of the search for an engine.
* `ListsTheLayers`: `LayersListed`. The pass over an archive is a fold
  (`FoldCloses`): after each entry a layer that has been seen has the tree of its
  last entry so far (`PassTrees`); the commands are another, and the k-th of them
  is that of the k-th entry of the history that made a layer (`CommandsMade`).
  `ArchiveListed` joins them, and `ShownInv` carries the list to every later state.
* `ShowsTheListed`: `ViewsListed`. `ViewInv` says for each step of a request what
  was exported for it, and `StillSame` that under the preconditions this is the
  archive of the analysis (`SameExport`); `WalkAnswers` then compares the search
  of its blobs with the listed trees.
* `FindsTheLiveCopy`: `TarsSpec => []ExtractsLive`, for any entries and any number
  of layers. `TarsInv` relates a tar to its upper directory: each file there is an
  entry of the tar (`PutRecords`), a file that stays from below is one of which the
  tar has nothing (`OverTells`), and so the walk back ends where the mount has it.

`SumTheorems` replaces the induction that the prover cannot do: a property of all
subsets of a finite set is a set of subsets, and a smallest subset outside it
gives a contradiction (`SubsetInduction`). With it, a sum of the community
modules' folds does not depend on its order, splits and grows with its set. It
also counts places, what the k-th of a set of positions is, and does the same
for sequences: what a fold from the left keeps with each element, it keeps to the
end (`FoldCloses`, `PrefixInduction`).

All rest on the named assumptions about the constants only (and `~TagReturns`
where stated), which TLC evaluates in the runs: types and finiteness of what the
code is given, that a tree is a preorder list in which only directories have
nodes below them, that the layers which waste rows name exist, and the spacing of
floats. Each proof has one step per
action; the last step is PTL.

Only model-checked:

* liveness (`RunsEnd`, `EventuallyServed`, `StatusSettles`, `StopReturns`), since
  fairness and `ENABLED` are beyond the prover;
* `ViewsAreOverlay`, `LabelsTell`, `WasteExact` and `ReasonsTrue` of `ImageLayers`:
  the operators of `FileTrees` and `LayerWaste` recurse over trees and paths and
  are declared `RECURSIVE`, with which the prover loses its arithmetic, and what
  they compute would have to be shown by induction over trees;
* that `ImageLayers` is a `TarsSpec`, which its definitions show but which, for the
  same reason, cannot be a theorem: the run `layers` checks `ExtractsLive` of it.

## 6. Not modelled, and why

* Rendering, key maps, styles, formatting, wording, completion, `init`, JSON
  encoders, the generated configuration: no state of their own.
* Gob, tar, gzip, YAML and JSON decoding: a decoded value or a failure, and for
  the configuration which keys and sections are refused.
* The decimal syntax of quantities and the matching of globs: a fraction, a set
  of paths.
* The sidecar `meta.json`: display only, its errors are ignored by the code.
* Clipboard, and the scrolling and search of the file viewer.
* Cleanup suggestions: one pass that classifies paths by their directory and adds
  up sizes; `TreeNavigation` takes its rows as given.
* File ownership and special files in layers; the model's nodes carry kind,
  mode, size and stored copy.
* The memory bound of spooling, the dial options of ssh and tls endpoints, and
  the splitting of `layerx build`'s command line.
* What can be asked of an archive besides its layers and files: `ImageID` and
  `Inspect`. Of extraction, the size caps and the detection of binary content,
  and `Extract` and `ExtractRaw`, which no command calls.
* That help, filter, waste overlay and viewer exclude each other is in the guards
  of `TuiSession`, as it is in the code, and not stated as a property.

Engine and registry behaviour (`Pull`, `Export`, `Retag` in `AnalysisCache`,
`Replies`, `Inspect`, `Refusals` in `ImageSource`) is modelled from how the code
uses it.

## 7. Plan

1. *Done*: the cache between processes, pruning, trees and waste, the session.
2. *Done*: the progress of a pull on the command line.
3. *Done*: engine selection, logins, the pull and its failures, archives
   (`ImageSource` and the modules below it), and the file a viewer asks for
   afterwards (`FileView`).
4. *Done*: configuration, CI gate, comparison, build (`CommandRun`), and their
   abstract specification (`Verdict`).
5. *Done*: navigation of trees, layers and waste.
6. *Done*: theorems for every safety property that the runs check, except the
   four of `ImageLayers` about trees. These would need trees as functions from
   paths instead of nested records, and the merges shown equal to the present ones.
7. Further abstract specifications: a content store (a map from digest and
   platform to layers that forgets at will) implemented by `AnalysisCache` under
   the mapping "readable files"; the removal of a set in one step, implemented
   by `CachePrune`'s passes.
