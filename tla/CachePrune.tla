----------------------------- MODULE CachePrune -----------------------------
(***************************************************************************)
(* One call of image.PruneCache, from the scan of the cache root to the    *)
(* result that `layerx cache prune` or the tail of a save turns into       *)
(* messages.  Removing a directory is a step of its own, so other layerx   *)
(* processes can save or remove entries between the scan and a removal,    *)
(* and any RemoveAll may fail.                                             *)
(*                                                                         *)
(* Time is an age: 0 is now.  An entry is a digest directory with at least *)
(* one layers*.gob; `oldest` and `newest` are the ages of its files.       *)
(***************************************************************************)
EXTENDS Integers, FiniteSets, FiniteSetsExt

CONSTANTS
    Digests,    \* directory names normalizeDigest accepts
    Foreign,    \* directories under the root that are not cache entries
    NoDigest,   \* Keep = ""
    Kinds,      \* what a directory with cache files may hold
    TTLs,       \* opts.TTL values, 0 for none
    Caps,       \* opts.MaxBytes values, 0 for none
    MaxOthers   \* bound on what other processes do meanwhile

ASSUME PruneAssumption ==
    /\ IsFiniteSet(Digests)
    /\ NoDigest \notin Digests \cup Foreign
    /\ Digests \cap Foreign = {}
    /\ MaxOthers \in Nat
    /\ \A e \in Kinds : /\ e \in [size: Nat \ {0}, oldest: Nat, newest: Nat]
                        /\ e.newest <= e.oldest
    /\ TTLs \subseteq Nat /\ Caps \subseteq Nat

VARIABLES
    disk,     \* what each directory under the root holds
    stuck,    \* directories RemoveAll cannot remove
    opts,     \* PruneOptions
    phase,    \* where the call is
    records,  \* the records of the scan that are still in play
    snap,     \* history: the records as scanned
    todo,     \* records the current pass has not looked at
    total,    \* running total of the cap pass
    removed,  \* result.Removed, as a set
    kept,     \* result.Kept, as a set
    failures, \* history: directories whose RemoveAll failed
    partial,  \* result.Warnings has "cache prune partial"
    oversize, \* result.Warnings has "cache size cap exceeded by single entry"
    others    \* interference by other processes so far

vars == <<disk, stuck, opts, phase, records, snap, todo, total, removed, kept,
          failures, partial, oversize, others>>

Names  == Digests \cup Foreign
Absent == [size |-> 0, oldest |-> 0, newest |-> 0]
Entry  == [size: Nat, oldest: Nat, newest: Nat]
Options == [all: BOOLEAN, dry: BOOLEAN, ttl: TTLs, cap: Caps, keep: Digests \cup {NoDigest}]

\* The calls there are: saveCacheWithPlatform's (a limit and Keep) and
\* runCachePrune's (--all or --older-than, maybe as a dry run).
Calls == {o \in Options : \/ ~o.all /\ ~o.dry /\ o.keep # NoDigest /\ (o.ttl > 0 \/ o.cap > 0)
                          \/ o.keep = NoDigest /\ o.cap = 0 /\ (o.all <=> o.ttl = 0)}

SizeOf(S) == MapThenSumSet(LAMBDA d : snap[d].size, S)

TypeOK ==
    /\ disk \in [Names -> Entry]
    /\ stuck \subseteq Names
    /\ opts \in Options
    /\ phase \in {"scan", "all", "ttl", "sort", "cap", "done"}
    /\ records \subseteq Names /\ todo \subseteq records
    /\ snap \in [Names -> Entry]
    /\ total \in Int
    /\ removed \subseteq Names /\ kept \subseteq Names
    /\ failures \subseteq stuck
    /\ partial \in Nat /\ oversize \in BOOLEAN
    /\ others \in 0..MaxOthers

Init ==
    /\ disk \in [Names -> Kinds \cup {Absent}]
    /\ stuck \in SUBSET Digests
    /\ opts \in Calls
    /\ phase = "scan" /\ records = {} /\ todo = {} /\ total = 0
    /\ snap = [d \in Names |-> Absent]
    /\ removed = {} /\ kept = {}
    /\ failures = {} /\ partial = 0 /\ oversize = FALSE
    /\ others = 0

-----------------------------------------------------------------------------
\* The records a scan collects: valid digest names that hold cache files.
Entries == {d \in Digests : disk[d] # Absent}

\* Mutant: Keep not looked at.
SparedNone(d) == FALSE

\* r.name == opts.Keep
Spared(d) == d = opts.keep

\* os.ReadDir of the root and gobFilesInDir of every directory, then the
\* choice of pass: All, nothing to enforce, TTL, or straight to the cap.
Scan ==
    /\ phase = "scan"
    /\ records' = Entries /\ todo' = Entries
    /\ snap' = [d \in Names |-> IF d \in Entries THEN disk[d] ELSE Absent]
    /\ phase' = IF opts.all THEN "all" ELSE IF opts.ttl > 0 THEN "ttl" ELSE "sort"
    /\ UNCHANGED <<disk, stuck, opts, total, removed, kept, failures, partial,
                   oversize, others>>

\* One os.RemoveAll, and what is noted about it.
Attempt(d, ok, dry, warnings) ==
    IF dry \/ d \notin stuck
    THEN /\ ok
         /\ disk' = IF dry THEN disk ELSE [disk EXCEPT ![d] = Absent]
         /\ UNCHANGED <<failures, partial>>
    ELSE /\ ~ok
         /\ failures' = failures \cup {d}
         /\ partial' = warnings
         /\ UNCHANGED disk

\* Mutant: a warning for every failure.
TryRemoveWarnAlways(d, ok) == Attempt(d, ok, opts.dry, partial + 1)

\* tryRemove: ok tells whether it returned true.  A directory somebody else
\* removed first counts as removed; only the first failure is a warning.
TryRemove(d, ok) == Attempt(d, ok, opts.dry, IF partial = 0 THEN 1 ELSE partial)

Look(d) == d \in todo /\ todo' = todo \ {d}

NoTouch == UNCHANGED <<disk, failures, partial>>
Same == UNCHANGED <<stuck, opts, phase, snap, total, oversize, others>>

\* All: every record but Keep.
AllPass(d) ==
    /\ phase = "all" /\ Look(d)
    /\ \/ /\ Spared(d) /\ NoTouch
          /\ kept' = kept \cup {d} /\ UNCHANGED removed
       \/ /\ ~Spared(d) /\ TryRemove(d, TRUE)
          /\ removed' = removed \cup {d} /\ UNCHANGED kept
       \/ /\ ~Spared(d) /\ TryRemove(d, FALSE)
          /\ kept' = kept \cup {d} /\ UNCHANGED removed
    /\ UNCHANGED records /\ Same

AllEnd ==
    /\ phase = "all" /\ todo = {}
    /\ phase' = "done"
    /\ UNCHANGED <<disk, stuck, opts, records, snap, todo, total, removed, kept,
                   failures, partial, oversize, others>>

\* Older than the limit; the oldest file of the directory decides, as the
\* comment of pruneEntry says (image/cache.go:199-203) and against the one of
\* PruneOptions (cache.go:121), whose CachedAt is the newest file's (cache.go:110).
Expired(d) == snap[d].oldest > opts.ttl

TTLPass(d) ==
    /\ phase = "ttl" /\ Look(d)
    /\ \/ /\ Spared(d) \/ ~Expired(d)
          /\ NoTouch /\ UNCHANGED <<records, removed>>
       \/ /\ ~Spared(d) /\ Expired(d) /\ TryRemove(d, FALSE)
          /\ UNCHANGED <<records, removed>>
       \/ /\ ~Spared(d) /\ Expired(d) /\ TryRemove(d, TRUE)
          /\ records' = records \ {d} /\ removed' = removed \cup {d}
    /\ UNCHANGED kept /\ Same

\* The passes meet: add up what is left and sort it if it is too much.
Sort ==
    /\ \/ phase = "ttl" /\ todo = {}
       \/ phase = "sort"
    /\ total' = SizeOf(records)
    /\ \/ /\ opts.cap > 0 /\ total' > opts.cap
          /\ phase' = "cap" /\ todo' = records /\ UNCHANGED kept
       \/ /\ opts.cap = 0 \/ total' <= opts.cap
          /\ phase' = "done" /\ todo' = {} /\ kept' = records
    /\ UNCHANGED <<disk, stuck, opts, records, snap, removed, failures, partial,
                   oversize, others>>

\* Mutant: the cap pass in scan order.
NextInLineAny(d) == d \in todo

\* The cap pass goes through the records oldest first.
NextInLine(d) == d \in todo /\ \A r \in todo : snap[r].oldest <= snap[d].oldest

\* The loop's first test: the survivors fit.
Enough == total <= opts.cap

\* Mutant: the size of an entry that could not be removed is taken off too.
FreedAlways(d, ok) == snap[d].size

\* What an attempt takes off the running total.
Freed(d, ok) == IF ok THEN snap[d].size ELSE 0

CapPass(d) ==
    /\ phase = "cap" /\ NextInLine(d) /\ Look(d)
    /\ \/ /\ Enough \/ Spared(d)
          /\ NoTouch /\ UNCHANGED <<records, removed, total>>
       \/ /\ ~Enough /\ ~Spared(d) /\ TryRemove(d, TRUE)
          /\ total' = total - Freed(d, TRUE)
          /\ records' = records \ {d} /\ removed' = removed \cup {d}
       \/ /\ ~Enough /\ ~Spared(d) /\ TryRemove(d, FALSE)
          /\ total' = total - Freed(d, FALSE)
          /\ UNCHANGED <<records, removed>>
    /\ UNCHANGED <<stuck, opts, phase, snap, kept, oversize, others>>

CapEnd ==
    /\ phase = "cap" /\ todo = {}
    /\ oversize' = (total > opts.cap)
    /\ kept' = records
    /\ phase' = "done"
    /\ UNCHANGED <<disk, stuck, opts, records, snap, todo, total, removed,
                   failures, partial, others>>

-----------------------------------------------------------------------------
(* Other layerx processes, and the caller *)

Interfere == others < MaxOthers /\ others' = others + 1 /\ phase # "done"

\* A save of digest d: a new file now, its siblings as they were.
OtherSaves(d) ==
    /\ Interfere
    /\ \E e \in Kinds :
          disk' = [disk EXCEPT ![d] = [size |-> e.size, newest |-> 0,
                                       oldest |-> IF disk[d] = Absent THEN 0 ELSE disk[d].oldest]]
    /\ UNCHANGED <<stuck, opts, phase, records, snap, todo, total, removed, kept,
                   failures, partial, oversize>>

OtherPrunes(d) ==
    /\ Interfere
    /\ d \notin stuck
    /\ disk' = [disk EXCEPT ![d] = Absent]
    /\ UNCHANGED <<stuck, opts, phase, records, snap, todo, total, removed, kept,
                   failures, partial, oversize>>

Step == \/ Scan \/ AllEnd \/ Sort \/ CapEnd
        \/ \E d \in Names : AllPass(d) \/ TTLPass(d) \/ CapPass(d)

Next == Step \/ \E d \in Digests : OtherSaves(d) \/ OtherPrunes(d)

Spec == Init /\ [][Next]_vars

-----------------------------------------------------------------------------
(* Properties *)

Done == phase = "done"

\* "Keep: digest never to evict, regardless of other options": neither the
\* result nor the disk loses it to this call, and no foreign directory either.
KeepAndForeignSafe ==
    [][\A d \in Names : Step /\ d \in Foreign \cup {opts.keep} =>
          disk'[d] = disk[d] /\ d \notin removed']_vars

\* At the end every scanned entry is in exactly one of Removed and Kept, and
\* what failed to go is kept and reported once, however many failed.
ResultAccounts ==
    Done => /\ removed \cap kept = {}
            /\ removed \cup kept = {d \in Names : snap[d] # Absent}
            /\ failures \subseteq kept
            /\ partial = IF failures = {} THEN 0 ELSE 1

\* A dry run removes nothing.
DryRunHarmless == [][Step /\ opts.dry => UNCHANGED disk]_vars

\* What the options ask for, said without passes: all but Keep; or what is
\* expired, and then, oldest first, what it takes to get below the cap; ages
\* are those of oldest files, so this is not what PruneOptions says (Expired).
ExpiredSet == IF opts.ttl > 0 THEN {d \in Digests : snap[d] # Absent /\ Expired(d) /\ d # opts.keep} ELSE {}
Left == {d \in Digests : snap[d] # Absent} \ ExpiredSet
OlderThan(d) == {r \in Left \ {opts.keep} : snap[r].oldest > snap[d].oldest}
NoOlderThan(d) == {r \in Left \ {d, opts.keep} : snap[r].oldest >= snap[d].oldest}
MustGo(d)  == d \in Left \ {opts.keep} /\ opts.cap > 0 /\ SizeOf(Left \ NoOlderThan(d)) > opts.cap
MayGo(d)   == d \in Left \ {opts.keep} /\ opts.cap > 0 /\ SizeOf(Left \ OlderThan(d)) > opts.cap

\* When no removal fails, the call (or its dry run, which is what makes the
\* preview honest) removes exactly that, an entry whose oldest file alone has
\* expired included; ties in age are broken either way.
RemovesWhatWasAsked ==
    Done /\ failures = {} =>
        IF opts.all THEN removed = {d \in Digests : snap[d] # Absent /\ d # opts.keep}
        ELSE /\ ExpiredSet \cup {d \in Digests : MustGo(d)} \subseteq removed
             /\ removed \subseteq ExpiredSet \cup {d \in Digests : MayGo(d)}

\* Afterwards the rest fits the cap, unless nothing else could be removed.
CapHolds ==
    Done /\ ~opts.all /\ opts.cap > 0 =>
        SizeOf(kept) <= opts.cap \/ kept \subseteq failures \cup {opts.keep}

=============================================================================
