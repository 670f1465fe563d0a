--------------------------- MODULE AnalysisCache ---------------------------
(***************************************************************************)
(* Several layerx processes analysing one image reference on one machine.  *)
(* They share the cache root on disk and the container engine's image      *)
(* store, and nothing else: there is no lock in the code.  A run is        *)
(* image.AnalyzeWithOptions: read the digest of the reference, try the     *)
(* cache, else pull and export, read the digest again, and save with the   *)
(* temp file + fsync + rename protocol of saveCacheWithPlatform, whose     *)
(* tail prunes the whole root.                                             *)
(*                                                                         *)
(* One step is one system call or one engine request, so other processes,  *)
(* `docker pull`, `layerx cache prune`, a kill or a power cut can fall     *)
(* between any two of them.  What is cached is abstracted to where it came *)
(* from: the digest and the platform of the image that was exported.       *)
(***************************************************************************)
EXTENDS Naturals, FiniteSets

CONSTANTS
    Procs,        \* layerx processes
    Digests,      \* image content digests
    Platforms,    \* platforms an image may carry
    Native,       \* the engine's own platform (DockerResolver.daemonPlatform)
    Pins,         \* the --platform values in use: platforms, and NoPin
    NoPin,        \* no --platform given
    NoDigest,     \* the reference names no local image / digest unknown
    PlatformsOf,  \* the platforms each digest carries (one in the classic store)
    LocalAtStart, \* digests the reference may name at first, or NoDigest
    NativeKnown,  \* Info answers, so the native platform is known
    ScopedSave,   \* API >= 1.48: an export without a pin can be scoped
    TagReturns,   \* may the reference return to a digest it named before?
    MaxMoves,     \* bound on the moves of the reference
    MaxFaults     \* bound on kills, power cuts, I/O errors and tampering

ASSUME CacheAssumption ==
    /\ Native \in Platforms
    /\ Pins \subseteq Platforms \cup {NoPin}
    /\ NoPin \notin Platforms
    /\ NoDigest \notin Digests
    /\ PlatformsOf \in [Digests -> SUBSET Platforms \ {{}}]
    /\ LocalAtStart \subseteq Digests \cup {NoDigest}
    /\ NativeKnown \in BOOLEAN /\ ScopedSave \in BOOLEAN /\ TagReturns \in BOOLEAN
    /\ MaxMoves \in Nat /\ MaxFaults \in Nat

VARIABLES
    tag,     \* digest the image reference names in the local store
    past,    \* history: the digests it named before
    moves,   \* moves of the reference so far
    dirs,    \* digest directories that exist under the cache root
    file,    \* the layers*.gob of every (digest, pin) slot
    litter,  \* temp files whose process is gone: their directory and age
    pc,      \* where each process is
    pin,     \* its --platform
    pre,     \* digest of its first ImageID call, NoDigest if that failed
    got,     \* the layers it holds: what image they really are
    hit,     \* fromCache
    key,     \* digest it saves under; NoDigest in `cache prune`
    tmp,     \* its own temp file
    todo,    \* victims its prune has chosen and not removed yet
    faults   \* faults so far

engine == <<tag, past, moves>>
disk   == <<dirs, file, litter>>
run    == <<pin, pre, got, hit, key>>
vars   == <<engine, disk, pc, run, tmp, todo, faults>>

Refs  == Digests \cup {NoDigest}
Slots == Digests \X Pins

\* Layers as the run holds them: the image they come from, its platform, and
\* whether the run that exported them knew the digest beforehand (warm).
Content == [of: Refs, plat: Platforms \cup {NoPin}, warm: BOOLEAN]
Nothing == [of |-> NoDigest, plat |-> NoPin, warm |-> FALSE]

\* A cache file.  "unsynced" reads like "whole" until the power fails; "torn"
\* is a partial write; "alien" is what layerx did not write here: another
\* schema, zero layers, garbage.  env is the digest in its envelope.
FileStates == {"absent", "torn", "alien", "unsynced", "whole"}
Entries == [st: FileStates, env: Refs, what: Content]
Blank(s) == [st |-> s, env |-> NoDigest, what |-> Nothing]
Readable(e) == e.st \in {"unsynced", "whole"}

TempStates == {"none", "partial", "full", "synced"}
Temps == [st: TempStates, dir: Refs, old: BOOLEAN]
Orphaned == [dir: Refs, old: BOOLEAN]
NoTemp == [st |-> "none", dir |-> NoDigest, old |-> FALSE]

Loading == {"load", "evict", "ensure", "pull", "export", "post"}
Saving  == {"mkdir", "create", "write", "sync", "rename", "meta"}
Pruning == {"scan", "prune"}
Ended   == {"done", "failed"}
Working == Loading \cup Saving \cup Pruning

-----------------------------------------------------------------------------
(* Names and the engine's answers *)

\* Mutant: the pin left out of the file name.
SlotSharedByPins(d, n) == <<d, NoPin>>

\* cachePathWithPlatform: every pin has a file of its own beside layers.gob.
Slot(d, n) == <<d, n>>

\* The platform a run asks for: its pin, else the engine's own.
Wanted(n) == IF n = NoPin THEN Native ELSE n

\* Does ImageID answer for reference digest d under pin n?  A pinned inspect
\* fails on a missing variant; an unpinned one is refused when the local image
\* is foreign, unless the native platform is unknown (PlatformsEqual(nil, _)).
Shows(d, n) ==
    /\ d # NoDigest
    /\ (n = NoPin /\ ~NativeKnown) \/ Wanted(n) \in PlatformsOf[d]

\* imageSaveOpts/saveOpts: the platforms the export may deliver.
Scope(n) == IF n = NoPin /\ ~(NativeKnown /\ ScopedSave) THEN Platforms ELSE {Wanted(n)}

Exportable(n) == IF tag = NoDigest THEN {} ELSE PlatformsOf[tag] \cap Scope(n)

\* Mutant: any whole envelope will do.
UsableAnyDigest(e, d) == Readable(e)

\* What loadCacheWithPlatform accepts for digest d.
Usable(e, d) == Readable(e) /\ e.env = d

HasGob(d) == \E n \in Pins : file[Slot(d, n)].st # "absent"

Fault == faults < MaxFaults /\ faults' = faults + 1

Goto(p, l) == pc' = [pc EXCEPT ![p] = l]

\* The reference comes to name d.
MoveTag(d) ==
    /\ moves < MaxMoves
    /\ d # tag
    /\ TagReturns \/ d \notin past
    /\ tag' = d
    /\ past' = IF tag = NoDigest THEN past ELSE past \cup {tag}
    /\ moves' = moves + 1

TypeOK ==
    /\ tag \in Refs /\ past \subseteq Digests /\ moves \in Nat
    /\ dirs \subseteq Digests
    /\ file \in [Slots -> Entries]
    /\ litter \subseteq Orphaned
    /\ pc \in [Procs -> {"idle"} \cup Working \cup Ended]
    /\ pin \in [Procs -> Pins \cup {NoPin}]
    /\ pre \in [Procs -> Refs]
    /\ got \in [Procs -> Content]
    /\ hit \in [Procs -> BOOLEAN]
    /\ key \in [Procs -> Refs]
    /\ tmp \in [Procs -> Temps]
    /\ todo \in [Procs -> SUBSET Digests]
    /\ faults \in Nat

Init ==
    /\ tag \in LocalAtStart /\ past = {} /\ moves = 0
    /\ dirs = {} /\ file = [s \in Slots |-> Blank("absent")] /\ litter = {}
    /\ pc = [p \in Procs |-> "idle"]
    /\ pin = [p \in Procs |-> NoPin]
    /\ pre = [p \in Procs |-> NoDigest]
    /\ got = [p \in Procs |-> Nothing]
    /\ hit = [p \in Procs |-> FALSE]
    /\ key = [p \in Procs |-> NoDigest]
    /\ tmp = [p \in Procs |-> NoTemp]
    /\ todo = [p \in Procs |-> {}]
    /\ faults = 0

-----------------------------------------------------------------------------
(* AnalyzeWithOptions up to the layers *)

\* A run begins: the first ImageID call, and the choice to look in the cache.
\* canCache needs the digest; --no-cache skips the lookup, not the save.
Start(p, n, noCache) ==
    /\ pc[p] = "idle"
    /\ pin' = [pin EXCEPT ![p] = n]
    /\ \/ UNCHANGED faults /\ pre' = [pre EXCEPT ![p] = IF Shows(tag, n) THEN tag ELSE NoDigest]
       \/ Fault /\ pre' = [pre EXCEPT ![p] = NoDigest]  \* engine hiccup
    /\ got' = [got EXCEPT ![p] = Nothing]
    /\ hit' = [hit EXCEPT ![p] = FALSE]
    /\ key' = [key EXCEPT ![p] = NoDigest]
    /\ Goto(p, IF pre'[p] # NoDigest /\ ~noCache THEN "load" ELSE "ensure")
    /\ UNCHANGED <<engine, disk, tmp, todo>>

\* loadCacheWithPlatform as far as the decision.  A transient I/O error keeps
\* the file; a file that is not this digest's whole envelope is to be removed.
LoadRead(p) ==
    LET e == file[Slot(pre[p], pin[p])] IN
    /\ pc[p] = "load"
    /\ \/ /\ Usable(e, pre[p])
          /\ got' = [got EXCEPT ![p] = e.what]
          /\ hit' = [hit EXCEPT ![p] = TRUE]
          /\ Goto(p, "done")
          /\ UNCHANGED faults
       \/ /\ e.st # "absent" /\ ~Usable(e, pre[p])
          /\ Goto(p, "evict")
          /\ UNCHANGED <<got, hit, faults>>
       \/ /\ e.st = "absent"
          /\ Goto(p, "ensure")
          /\ UNCHANGED <<got, hit, faults>>
       \/ /\ e.st # "absent" /\ Fault
          /\ Goto(p, "ensure")
          /\ UNCHANGED <<got, hit>>
    /\ UNCHANGED <<engine, disk, pin, pre, key, tmp, todo>>

\* The os.Remove(path) of loadCacheWithPlatform: whatever is at path by now.
LoadEvict(p) ==
    /\ pc[p] = "evict"
    /\ file' = [file EXCEPT ![Slot(pre[p], pin[p])] = Blank("absent")]
    /\ Goto(p, "ensure")
    /\ UNCHANGED <<engine, dirs, litter, run, tmp, todo, faults>>

\* ensureImageWithProgress: reuse the local image or go and pull.
Ensure(p) ==
    /\ pc[p] = "ensure"
    /\ Goto(p, IF Shows(tag, pin[p]) THEN "export" ELSE "pull")
    /\ UNCHANGED <<engine, disk, run, tmp, todo, faults>>

\* ImagePull of the wanted platform: the registry's digest becomes the tag's.
Pull(p) ==
    /\ pc[p] = "pull"
    /\ \/ /\ \E d \in Digests : Wanted(pin[p]) \in PlatformsOf[d] /\ MoveTag(d)
          /\ Goto(p, "export")
       \/ /\ \E d \in Digests : d = tag /\ Wanted(pin[p]) \in PlatformsOf[d]  \* up to date
          /\ Goto(p, "export") /\ UNCHANGED engine
       \/ /\ Goto(p, "failed") /\ UNCHANGED engine                  \* pull failed
    /\ UNCHANGED <<disk, run, tmp, todo, faults>>

\* ImageSave and parseLayers: the layers of what the reference names now.
Export(p) ==
    /\ pc[p] = "export"
    /\ \/ /\ \E w \in Exportable(pin[p]) :
                got' = [got EXCEPT ![p] =
                          [of |-> tag, plat |-> w, warm |-> pre[p] # NoDigest]]
          /\ Goto(p, "post")
          /\ UNCHANGED faults
       \/ /\ Exportable(pin[p]) = {}
          /\ Goto(p, "failed")
          /\ UNCHANGED <<got, faults>>
       \/ /\ Fault
          /\ Goto(p, "failed")
          /\ UNCHANGED got
    /\ UNCHANGED <<engine, disk, pin, pre, hit, key, tmp, todo>>

SecondID(p) == IF Shows(tag, pin[p]) THEN tag ELSE NoDigest

\* After the second ImageID call: save under its digest, or not at all.
Judge(p, save) ==
    /\ pc[p] = "post"
    /\ \/ /\ save
          /\ key' = [key EXCEPT ![p] = SecondID(p)]
          /\ Goto(p, "mkdir")
          /\ UNCHANGED faults
       \/ /\ ~save
          /\ Goto(p, "done")
          /\ UNCHANGED <<key, faults>>
       \/ /\ Fault
          /\ Goto(p, "done")
          /\ UNCHANGED key
    /\ UNCHANGED <<engine, disk, pin, pre, got, hit, tmp, todo>>

\* Mutant: no comparison with the first digest.
PostIDUncompared(p) == Judge(p, SecondID(p) # NoDigest)

\* The four-way switch: no second digest or a changed one skips the save, an
\* unknown first one trusts the second.
PostID(p) ==
    Judge(p, SecondID(p) # NoDigest /\ (pre[p] = NoDigest \/ SecondID(p) = pre[p]))

-----------------------------------------------------------------------------
(* saveCacheWithPlatform *)

\* MkdirAll, then sweepOrphanTempFiles: every temp file in the directory older
\* than an hour goes, also one a slow process is still writing.
SaveMkdir(p) ==
    /\ pc[p] = "mkdir"
    /\ dirs' = dirs \cup {key[p]}
    /\ litter' = {t \in litter : ~(t.dir = key[p] /\ t.old)}
    /\ tmp' = [q \in Procs |-> IF tmp[q].dir = key[p] /\ tmp[q].old THEN NoTemp ELSE tmp[q]]
    /\ Goto(p, "create")
    /\ UNCHANGED <<engine, file, run, todo, faults>>

\* Mutant: try again when the directory is gone, without making it anew.
SaveCreateRetried(p) ==
    /\ pc[p] = "create"
    /\ key[p] \in dirs
    /\ tmp' = [tmp EXCEPT ![p] = [st |-> "partial", dir |-> key[p], old |-> FALSE]]
    /\ Goto(p, "write")
    /\ UNCHANGED <<engine, disk, run, todo, faults>>

\* OpenFile(O_CREATE|O_EXCL) under a random name; fails if a prune took the
\* directory in the meantime.
SaveCreate(p) ==
    /\ pc[p] = "create"
    /\ \/ /\ key[p] \in dirs
          /\ tmp' = [tmp EXCEPT ![p] = [st |-> "partial", dir |-> key[p], old |-> FALSE]]
          /\ Goto(p, "write")
       \/ /\ key[p] \notin dirs
          /\ Goto(p, "done") /\ UNCHANGED tmp
    /\ UNCHANGED <<engine, disk, run, todo, faults>>

\* gob Encode.  Writing to a file another process unlinked still succeeds.
SaveWrite(p) ==
    /\ pc[p] = "write"
    /\ tmp' = [tmp EXCEPT ![p] = IF @.st = "none" THEN @ ELSE [@ EXCEPT !.st = "full", !.old = FALSE]]
    /\ Goto(p, "sync")
    /\ UNCHANGED <<engine, disk, run, todo, faults>>

\* Mutant: no fsync.
SaveSyncSkipped(p) ==
    /\ pc[p] = "sync"
    /\ Goto(p, "rename")
    /\ UNCHANGED <<engine, disk, run, tmp, todo, faults>>

\* f.Sync and f.Close.
SaveSync(p) ==
    /\ pc[p] = "sync"
    /\ tmp' = [tmp EXCEPT ![p] = IF @.st = "none" THEN @ ELSE [@ EXCEPT !.st = "synced"]]
    /\ Goto(p, "rename")
    /\ UNCHANGED <<engine, disk, run, todo, faults>>

\* The state a cache file is in when a temp file is renamed onto it.
Renamed(t) == CASE t = "synced" -> "whole" [] t = "full" -> "unsynced" [] OTHER -> "torn"

\* os.Rename onto the slot of this digest and pin; fails if the temp is gone.
SaveRename(p) ==
    /\ pc[p] = "rename"
    /\ \/ /\ tmp[p].st # "none"
          /\ file' = [file EXCEPT ![Slot(key[p], pin[p])] =
                        [st |-> Renamed(tmp[p].st), env |-> key[p], what |-> got[p]]]
          /\ Goto(p, "meta")
       \/ /\ tmp[p].st = "none"
          /\ Goto(p, "done") /\ UNCHANGED file
    /\ tmp' = [tmp EXCEPT ![p] = NoTemp]
    /\ UNCHANGED <<engine, dirs, litter, run, todo, faults>>

\* writeMetaSidecar: display only, its errors ignored; the sidecar itself is
\* not part of this model's disk.
SaveMeta(p) ==
    /\ pc[p] = "meta"
    /\ Goto(p, "scan")
    /\ UNCHANGED <<engine, disk, run, tmp, todo, faults>>

\* An error at any point of the save before the rename is done: the temp file
\* is removed and AnalyzeWithOptions only warns.
SaveFail(p) ==
    /\ pc[p] \in Saving \ {"meta"}
    /\ Fault
    /\ tmp' = [tmp EXCEPT ![p] = NoTemp]
    /\ Goto(p, "done")
    /\ UNCHANGED <<engine, disk, run, todo>>

-----------------------------------------------------------------------------
(* PruneCache, at the tail of a save (Keep = key) or from `layerx cache prune` *)

\* `layerx cache prune`: Keep = "".
StartPrune(p) ==
    /\ pc[p] = "idle"
    /\ Goto(p, "scan")
    /\ UNCHANGED <<engine, disk, run, tmp, todo, faults>>

Candidates(p) == {d \in dirs : HasGob(d)}

\* Mutant: Keep forgotten.
EvictableAll(p) == Candidates(p)

\* The records PruneCache may evict: every entry but Keep.
Evictable(p) == Candidates(p) \ {key[p]}

\* One pass over the root collects the records; which of them age and size
\* condemn is CachePrune's subject: any set without Keep here.
PruneScan(p) ==
    /\ pc[p] = "scan"
    /\ \E victims \in SUBSET Evictable(p) :
          todo' = [todo EXCEPT ![p] = victims]
    /\ Goto(p, "prune")
    /\ UNCHANGED <<engine, disk, run, tmp, faults>>

\* RemoveAll of one victim, whatever it holds by now; a failure may leave the
\* directory with some of its files gone.
PruneRemove(p, d) ==
    /\ pc[p] = "prune"
    /\ d \in todo[p]
    /\ todo' = [todo EXCEPT ![p] = @ \ {d}]
    /\ \/ /\ dirs' = dirs \ {d}
          /\ file' = [s \in Slots |-> IF s[1] = d THEN Blank("absent") ELSE file[s]]
          /\ litter' = {t \in litter : t.dir # d}
          /\ tmp' = [q \in Procs |-> IF tmp[q].dir = d THEN NoTemp ELSE tmp[q]]
          /\ UNCHANGED faults
       \/ /\ Fault
          /\ \E gone \in SUBSET Pins :
                file' = [s \in Slots |->
                           IF s[1] = d /\ s[2] \in gone THEN Blank("absent") ELSE file[s]]
          /\ UNCHANGED <<dirs, litter, tmp>>
    /\ UNCHANGED <<engine, pc, run>>

PruneEnd(p) ==
    /\ pc[p] = "prune"
    /\ todo[p] = {}
    /\ Goto(p, "done")
    /\ UNCHANGED <<engine, disk, run, tmp, todo, faults>>

-----------------------------------------------------------------------------
(* Process ends, kills, power cuts, time, other programs *)

Forget(p) ==
    /\ pin' = [pin EXCEPT ![p] = NoPin]
    /\ pre' = [pre EXCEPT ![p] = NoDigest]
    /\ got' = [got EXCEPT ![p] = Nothing]
    /\ hit' = [hit EXCEPT ![p] = FALSE]
    /\ key' = [key EXCEPT ![p] = NoDigest]

Exit(p) ==
    /\ pc[p] \in Ended
    /\ Goto(p, "idle")
    /\ Forget(p)
    /\ UNCHANGED <<engine, disk, tmp, todo, faults>>

\* A killed process leaves its temp file behind.
Orphans(ps) == {[dir |-> tmp[q].dir, old |-> tmp[q].old] : q \in {q \in ps : tmp[q].st # "none"}}

Kill(p) ==
    /\ pc[p] \in Working
    /\ Fault
    /\ litter' = litter \cup Orphans({p})
    /\ tmp' = [tmp EXCEPT ![p] = NoTemp]
    /\ todo' = [todo EXCEPT ![p] = {}]
    /\ Goto(p, "idle")
    /\ Forget(p)
    /\ UNCHANGED <<engine, dirs, file>>

\* The machine stops: data that was never fsynced may be gone.
PowerCut ==
    /\ Fault
    /\ litter' = litter \cup Orphans(Procs)
    /\ file' = [s \in Slots |-> IF file[s].st = "unsynced" THEN Blank("torn") ELSE file[s]]
    /\ pc' = [p \in Procs |-> "idle"]
    /\ pin' = [p \in Procs |-> NoPin]
    /\ pre' = [p \in Procs |-> NoDigest]
    /\ got' = [p \in Procs |-> Nothing]
    /\ hit' = [p \in Procs |-> FALSE]
    /\ key' = [p \in Procs |-> NoDigest]
    /\ tmp' = [p \in Procs |-> NoTemp]
    /\ todo' = [p \in Procs |-> {}]
    /\ UNCHANGED <<engine, dirs>>

\* An hour goes by with nothing written to the temp files.
HourPasses ==
    /\ tmp' = [p \in Procs |-> IF tmp[p].st = "none" THEN tmp[p] ELSE [tmp[p] EXCEPT !.old = TRUE]]
    /\ litter' = {[t EXCEPT !.old = TRUE] : t \in litter}
    /\ UNCHANGED <<engine, dirs, file, pc, run, todo, faults>>

\* Someone edits the cache by hand, or another version of layerx wrote it:
\* garbage, or the file of another digest, ends up in a slot.
Tamper(s) ==
    /\ s[1] \in dirs
    /\ Fault
    /\ \E e \in {Blank("alien")} \cup {file[Slot(d, s[2])] : d \in Digests \ {s[1]}} :
          /\ e.st # "absent"
          /\ file' = [file EXCEPT ![s] = e]
    /\ UNCHANGED <<engine, dirs, litter, pc, run, tmp, todo>>

\* `docker build`, `docker pull`, `docker tag` or `docker rmi` elsewhere.
Retag ==
    /\ \E d \in Refs : MoveTag(d)
    /\ UNCHANGED <<disk, pc, run, tmp, todo, faults>>

-----------------------------------------------------------------------------
Work(p) ==
    \/ LoadRead(p) \/ LoadEvict(p) \/ Ensure(p) \/ Pull(p) \/ Export(p) \/ PostID(p)
    \/ SaveMkdir(p) \/ SaveCreate(p) \/ SaveWrite(p) \/ SaveSync(p) \/ SaveRename(p)
    \/ SaveMeta(p) \/ SaveFail(p)
    \/ PruneScan(p) \/ (\E d \in Digests : PruneRemove(p, d)) \/ PruneEnd(p)

Begin(p) == \E n \in Pins, noCache \in BOOLEAN : Start(p, n, noCache)

Environment ==
    \/ PowerCut \/ HourPasses \/ Retag
    \/ \E s \in Slots : Tamper(s)

Next ==
    \/ \E p \in Procs : Begin(p) \/ StartPrune(p) \/ Work(p) \/ Exit(p) \/ Kill(p)
    \/ Environment

Spec == Init /\ [][Next]_vars

Fairness == \A p \in Procs : WF_vars(Work(p))

\* A process that runs keeps running; nothing else is promised to happen.
FairSpec == Spec /\ Fairness

-----------------------------------------------------------------------------
(* Properties *)

\* No cache file is ever half written, whatever is killed or unplugged and
\* whenever: the point of temp file, fsync and rename in saveCacheWithPlatform
\* ("a successful rename always produced a complete file", readCacheFile).
NoTornEntry == \A s \in Slots : file[s].st # "torn"

\* A file saved by a run that knew the digest beforehand holds the layers of
\* the digest in its envelope: what the second ImageID call is for (step 4 of
\* AnalyzeWithOptions).  Needs a reference that never returns to an old digest.
WarmEntriesTrue ==
    \A s \in Slots : Readable(file[s]) /\ file[s].what.warm => file[s].what.of = file[s].env

\* A run served from the cache shows the image its reference named when it
\* began, on the platform it asked for, also when files were moved between
\* digest directories: loadCacheWithPlatform checks the envelope, the pin is
\* in the file name, and ImageID refuses a foreign local image.
HitsTrue ==
    \A p \in Procs : hit[p] =>
        /\ got[p].warm => got[p].of = pre[p]
        /\ Scope(pin[p]) = {Wanted(pin[p])} => got[p].plat = Wanted(pin[p])

\* Layers exported for one platform are never filed under another pin
\* (cachePathWithPlatform: "never share a cache entry").
PlatformFiled ==
    \A s \in Slots : Readable(file[s]) /\ Scope(s[2]) = {Wanted(s[2])} =>
        file[s].what.plat = Wanted(s[2])

\* Every run ends, whatever fails under it: cache trouble never blocks a run.
RunsEnd == \A p \in Procs : pc[p] \in Working ~> pc[p] \notin Working

\* Once the reference and the disk are left alone, every completed analysis is
\* served from the cache: bad files are removed and rewritten, and no prune
\* takes the entry a save has just made (Keep in PruneCache).
EventuallyServed ==
    <>[][\A p \in Procs : pc[p] # "done" /\ pc'[p] = "done" => hit'[p]]_vars

=============================================================================
