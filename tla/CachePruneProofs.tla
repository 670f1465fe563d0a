-------------------------- MODULE CachePruneProofs --------------------------
(* Theorems about CachePrune, for any directories, entries, options and any  *)
(* interference.                                                             *)
EXTENDS CachePrune, SumTheorems

Scanned == {d \in Names : snap[d] # Absent}

\* The types the arguments below need.
Types ==
    /\ disk \in [Names -> Entry]
    /\ snap \in [Names -> Entry]
    /\ opts \in Options
    /\ phase \in {"scan", "all", "ttl", "sort", "cap", "done"}
    /\ records \subseteq Digests /\ todo \subseteq records /\ kept \subseteq Digests
    /\ partial = IF failures = {} THEN 0 ELSE 1

\* What failed once can only fail again, and a dry run cannot fail.
Failing == failures \subseteq stuck /\ (opts.dry => failures = {})

\* Where every scanned record is while the passes go on.
Books ==
    /\ phase = "scan" => /\ Scanned = {} /\ records = {} /\ removed = {} /\ kept = {} /\ failures = {}
    /\ phase = "all"  => /\ records = Scanned
                         /\ removed \cap kept = {} /\ todo \cap (removed \cup kept) = {}
                         /\ removed \cup kept \cup todo = Scanned
                         /\ failures \subseteq kept
    /\ phase \in {"ttl", "sort", "cap"} =>
                         /\ kept = {}
                         /\ removed \cap records = {} /\ removed \cup records = Scanned
                         /\ failures \subseteq records
    /\ phase = "done" => /\ removed \cap kept = {} /\ removed \cup kept = Scanned
                         /\ failures \subseteq kept

KeepStays == removed \subseteq Digests \ {opts.keep}

Inv == Types /\ Failing /\ Books /\ KeepStays

\* The first state satisfies the invariant.
LEMMA InitInv == Init => Inv
<1> SUFFICES ASSUME Init PROVE Inv
  OBVIOUS
<1>1. Kinds \cup {Absent} \subseteq Entry
  BY PruneAssumption DEF Absent, Entry
<1>2. disk \in [Names -> Entry] /\ snap \in [Names -> Entry] /\ Scanned = {}
  BY <1>1 DEF Init, Absent, Entry, Scanned
<1>3. opts \in Options
  BY DEF Init, Calls
<1> QED
  BY <1>2, <1>3 DEF Init, Inv, Types, Failing, Books, KeepStays

\* One attempt to remove a record of the scan.
LEMMA AttemptTells ==
  ASSUME Types, NEW d \in Names, NEW ok \in BOOLEAN, TryRemove(d, ok)
  PROVE  /\ disk' \in [Names -> Entry]
         /\ \A e \in Names \ {d} : disk'[e] = disk[e]
         /\ opts.dry => UNCHANGED disk
         /\ ok => failures' = failures /\ partial' = partial /\ (opts.dry \/ d \notin stuck)
         /\ ~ok => ~opts.dry /\ d \in stuck /\ failures' = failures \cup {d} /\ partial' = 1
<1>1. Absent \in Entry
  BY DEF Absent, Entry
<1>2. partial' = 1 \/ UNCHANGED partial
  BY DEF TryRemove, Attempt, Types
<1> QED
  BY <1>1 DEF TryRemove, Attempt, Types

\* Every step keeps the invariant.
LEMMA StepInv == Inv /\ [Next]_vars => Inv'
<1> SUFFICES ASSUME Inv, [Next]_vars PROVE Inv'
  OBVIOUS
<1> USE DEF Inv, Scanned
<1>1. CASE Scan
  <2>1. disk \in [Names -> Entry] /\ Absent \in Entry /\ Digests \subseteq Names
    BY DEF Types, Absent, Entry, Names
  <2>2. snap' \in [Names -> Entry] /\ Scanned' = Entries
    BY <1>1, <2>1 DEF Scan, Entries
  <2>3. Entries \subseteq Digests
    BY DEF Entries
  <2>4. phase = "scan" /\ phase' \in {"all", "ttl", "sort"}
    BY <1>1 DEF Scan
  <2>5. Types'
    BY <1>1, <2>2, <2>3, <2>4 DEF Scan, Types
  <2>6. Failing' /\ KeepStays'
    BY <1>1 DEF Scan, Failing, KeepStays
  <2>7. Books'
    BY <1>1, <2>2, <2>4 DEF Scan, Books
  <2> QED
    BY <2>5, <2>6, <2>7
<1>2. ASSUME NEW d \in Names, AllPass(d) PROVE Inv'
  <2>0. phase = "all" /\ phase' = "all" /\ d \in todo /\ todo' = todo \ {d} /\ records' = records
        /\ UNCHANGED <<stuck, opts, snap>>
    BY <1>2 DEF AllPass, Look, Same
  <2>1. CASE Spared(d) /\ NoTouch /\ kept' = kept \cup {d} /\ UNCHANGED removed
    BY <2>0, <2>1 DEF NoTouch, Types, Failing, Books, KeepStays
  <2>2. CASE ~Spared(d) /\ TryRemove(d, TRUE) /\ removed' = removed \cup {d} /\ UNCHANGED kept
    <3>1. disk' \in [Names -> Entry] /\ UNCHANGED <<failures, partial>>
      BY <2>2, AttemptTells
    <3> QED
      BY <2>0, <2>2, <3>1 DEF Types, Failing, Books, KeepStays, Spared
  <2>3. CASE ~Spared(d) /\ TryRemove(d, FALSE) /\ kept' = kept \cup {d} /\ UNCHANGED removed
    <3>1. disk' \in [Names -> Entry] /\ ~opts.dry /\ d \in stuck
          /\ failures' = failures \cup {d} /\ partial' = 1
      BY <2>3, AttemptTells
    <3> QED
      BY <2>0, <2>3, <3>1 DEF Types, Failing, Books, KeepStays
  <2> QED
    BY <1>2, <2>1, <2>2, <2>3 DEF AllPass
<1>3. CASE AllEnd
  BY <1>3 DEF AllEnd, Types, Failing, Books, KeepStays
<1>4. ASSUME NEW d \in Names, TTLPass(d) PROVE Inv'
  <2>0. phase = "ttl" /\ phase' = "ttl" /\ d \in todo /\ todo' = todo \ {d} /\ kept' = kept
        /\ UNCHANGED <<stuck, opts, snap>>
    BY <1>4 DEF TTLPass, Look, Same
  <2>1. CASE NoTouch /\ UNCHANGED <<records, removed>>
    BY <2>0, <2>1 DEF NoTouch, Types, Failing, Books, KeepStays
  <2>2. CASE TryRemove(d, FALSE) /\ UNCHANGED <<records, removed>>
    <3>1. disk' \in [Names -> Entry] /\ ~opts.dry /\ d \in stuck
          /\ failures' = failures \cup {d} /\ partial' = 1
      BY <2>2, AttemptTells
    <3> QED
      BY <2>0, <2>2, <3>1 DEF Types, Failing, Books, KeepStays
  <2>3. CASE ~Spared(d) /\ TryRemove(d, TRUE) /\ records' = records \ {d} /\ removed' = removed \cup {d}
    <3>1. disk' \in [Names -> Entry] /\ UNCHANGED <<failures, partial>> /\ (opts.dry \/ d \notin stuck)
      BY <2>3, AttemptTells
    <3>2. d \notin failures
      BY <3>1 DEF Failing
    <3> QED
      BY <2>0, <2>3, <3>1, <3>2 DEF Types, Failing, Books, KeepStays, Spared
  <2> QED
    BY <1>4, <2>1, <2>2, <2>3 DEF TTLPass
<1>5. CASE Sort
  <2>1. phase \in {"ttl", "sort"} /\ phase' \in {"cap", "done"}
        /\ UNCHANGED <<disk, stuck, opts, records, snap, removed, failures, partial>>
        /\ (phase' = "cap" => todo' = records /\ UNCHANGED kept)
        /\ (phase' = "done" => todo' = {} /\ kept' = records)
    BY <1>5 DEF Sort
  <2> QED
    BY <2>1 DEF Types, Failing, Books, KeepStays
<1>6. ASSUME NEW d \in Names, CapPass(d) PROVE Inv'
  <2>0. phase = "cap" /\ phase' = "cap" /\ d \in todo /\ todo' = todo \ {d} /\ kept' = kept
        /\ UNCHANGED <<stuck, opts, snap>>
    BY <1>6 DEF CapPass, Look
  <2>1. CASE NoTouch /\ UNCHANGED <<records, removed>>
    BY <2>0, <2>1 DEF NoTouch, Types, Failing, Books, KeepStays
  <2>2. CASE TryRemove(d, FALSE) /\ UNCHANGED <<records, removed>>
    <3>1. disk' \in [Names -> Entry] /\ ~opts.dry /\ d \in stuck
          /\ failures' = failures \cup {d} /\ partial' = 1
      BY <2>2, AttemptTells
    <3> QED
      BY <2>0, <2>2, <3>1 DEF Types, Failing, Books, KeepStays
  <2>3. CASE ~Spared(d) /\ TryRemove(d, TRUE) /\ records' = records \ {d} /\ removed' = removed \cup {d}
    <3>1. disk' \in [Names -> Entry] /\ UNCHANGED <<failures, partial>> /\ (opts.dry \/ d \notin stuck)
      BY <2>3, AttemptTells
    <3>2. d \notin failures
      BY <3>1 DEF Failing
    <3> QED
      BY <2>0, <2>3, <3>1, <3>2 DEF Types, Failing, Books, KeepStays, Spared
  <2> QED
    BY <1>6, <2>1, <2>2, <2>3 DEF CapPass
<1>7. CASE CapEnd
  BY <1>7 DEF CapEnd, Types, Failing, Books, KeepStays
<1>8. ASSUME NEW d \in Digests, OtherSaves(d) \/ OtherPrunes(d) PROVE Inv'
  <2>1. UNCHANGED <<stuck, opts, phase, records, snap, todo, removed, kept, failures, partial>>
    BY <1>8 DEF OtherSaves, OtherPrunes
  <2>2. disk' \in [Names -> Entry]
    <3>1. CASE OtherPrunes(d)
      BY <3>1 DEF OtherPrunes, Types, Absent, Entry
    <3>2. CASE OtherSaves(d)
      <4>1. PICK e \in Kinds :
              disk' = [disk EXCEPT ![d] = [size |-> e.size, newest |-> 0,
                                           oldest |-> IF disk[d] = Absent THEN 0 ELSE disk[d].oldest]]
        BY <3>2 DEF OtherSaves
      <4>2. e.size \in Nat
        BY PruneAssumption
      <4>3. d \in Names /\ disk[d].oldest \in Nat
        BY DEF Types, Entry, Names
      <4> QED
        BY <4>1, <4>2, <4>3 DEF Types, Entry
    <3> QED
      BY <1>8, <3>1, <3>2
  <2> QED
    BY <2>1, <2>2 DEF Types, Failing, Books, KeepStays
<1>9. CASE UNCHANGED vars
  BY <1>9 DEF vars, Types, Failing, Books, KeepStays
<1> QED
  BY <1>1, <1>2, <1>3, <1>4, <1>5, <1>6, <1>7, <1>8, <1>9 DEF Next, Step

\* The invariant holds in every state.
LEMMA Invariance == Spec => []Inv
  BY InitInv, StepInv, PTL DEF Spec

(* The result of a call accounts for every entry of its scan exactly once,   *)
(* keeps what failed to go and warns of it once, whatever else changes the   *)
(* disk: runCachePrune's report rests on it.                                 *)
THEOREM ResultsAccount == Spec => []ResultAccounts
<1>1. Inv => ResultAccounts
  BY DEF Inv, Types, Books, ResultAccounts, Done, Scanned
<1> QED
  BY <1>1, Invariance, PTL

\* What one step of the call may remove.
LEMMA StepRemoves ==
  ASSUME Inv, Step
  PROVE  /\ opts.dry => UNCHANGED disk
         /\ \A e \in Names : e \in Foreign \cup {opts.keep} => disk'[e] = disk[e]
<1>1. CASE Scan \/ AllEnd \/ Sort \/ CapEnd
  BY <1>1 DEF Scan, AllEnd, Sort, CapEnd
<1>2. ASSUME NEW d \in Names, AllPass(d) \/ TTLPass(d) \/ CapPass(d)
      PROVE  /\ opts.dry => UNCHANGED disk
             /\ \A e \in Names : e \in Foreign \cup {opts.keep} => disk'[e] = disk[e]
  <2>1. CASE NoTouch
    BY <2>1 DEF NoTouch
  <2>2. ASSUME NEW ok \in BOOLEAN, TryRemove(d, ok), ~Spared(d)
        PROVE  /\ opts.dry => UNCHANGED disk
               /\ \A e \in Names : e \in Foreign \cup {opts.keep} => disk'[e] = disk[e]
    <3>1. d \in Digests /\ d # opts.keep
      BY <1>2, <2>2 DEF AllPass, TTLPass, CapPass, Look, Inv, Types, Spared
    <3>2. d \notin Foreign
      BY <3>1, PruneAssumption
    <3>3. /\ \A e \in Names \ {d} : disk'[e] = disk[e]
          /\ opts.dry => UNCHANGED disk
      BY <2>2, AttemptTells DEF Inv
    <3> QED
      BY <3>1, <3>2, <3>3
  <2> QED
    BY <1>2, <2>1, <2>2 DEF AllPass, TTLPass, CapPass
<1> QED
  BY <1>1, <1>2 DEF Step

(* A call never takes its Keep nor a directory that is no cache entry off    *)
(* the disk, and never reports either as removed.                            *)
THEOREM KeepIsSafe == Spec => KeepAndForeignSafe
<1>1. Inv /\ Inv' /\ [Next]_vars =>
        [\A d \in Names : Step /\ d \in Foreign \cup {opts.keep} =>
            disk'[d] = disk[d] /\ d \notin removed']_vars
  <2> SUFFICES ASSUME Inv, Inv', NEW d \in Names, Step, d \in Foreign \cup {opts.keep}
               PROVE  disk'[d] = disk[d] /\ d \notin removed'
    OBVIOUS
  <2>1. disk'[d] = disk[d]
    BY StepRemoves
  <2>2. opts' = opts
    BY DEF Step, Scan, AllEnd, Sort, CapEnd, AllPass, TTLPass, CapPass, Same
  <2>3. d \notin removed'
    BY <2>2, PruneAssumption DEF Inv, KeepStays
  <2> QED
    BY <2>1, <2>3
<1> QED
  BY <1>1, Invariance, PTL DEF Spec, KeepAndForeignSafe

(* `layerx cache prune --dry-run` changes nothing on the disk.               *)
THEOREM DryRunsAreHarmless == Spec => DryRunHarmless
<1>1. Inv /\ [Next]_vars => [Step /\ opts.dry => UNCHANGED disk]_vars
  BY StepRemoves
<1> QED
  BY <1>1, Invariance, PTL DEF Spec, DryRunHarmless

-----------------------------------------------------------------------------
(* What is removed, and how much is left of it.                              *)

Sizes == [d \in Digests |-> snap[d].size]
Weight(S) == Sum(Sizes, S)

\* MustGo and MayGo, by weight.
Must(d) == d \in Left \ {opts.keep} /\ opts.cap > 0 /\ Weight(Left \ NoOlderThan(d)) > opts.cap
May(d)  == d \in Left \ {opts.keep} /\ opts.cap > 0 /\ Weight(Left \ OlderThan(d)) > opts.cap

\* The passes are those of the options, and each has dealt with the records
\* it has looked at.
PassInv ==
    /\ phase = "all" => opts.all /\ Scanned \ todo \subseteq removed \cup failures \cup {opts.keep}
    /\ phase \in {"ttl", "sort", "cap"} => ~opts.all
    /\ phase = "ttl" => /\ opts.ttl > 0 /\ removed \subseteq ExpiredSet
                        /\ ExpiredSet \ todo \subseteq removed \cup failures
    /\ phase = "sort" => opts.ttl = 0 /\ removed = {}

\* The cap pass: the total is the weight of what is left, it has only passed
\* over what it could not remove while there was too much, and it has seen
\* nothing younger than what is still to be seen.
CapInv ==
    phase = "cap" =>
        /\ opts.cap > 0 /\ total = Weight(records)
        /\ ~Enough => records \ todo \subseteq failures \cup {opts.keep}
        /\ failures = {} =>
              /\ ExpiredSet \subseteq removed
              /\ \A r \in todo : \A v \in Left \ todo : snap[v].oldest >= snap[r].oldest
              /\ \A d \in removed \ ExpiredSet : May(d)
              /\ \A d \in Digests \ todo : Must(d) => d \in removed

\* What the result says.
EndInv ==
    phase = "done" =>
        /\ opts.all => Scanned \subseteq removed \cup failures \cup {opts.keep}
        /\ ~opts.all /\ opts.cap > 0 => Weight(kept) <= opts.cap \/ kept \subseteq failures \cup {opts.keep}
        /\ ~opts.all /\ failures = {} =>
              /\ ExpiredSet \subseteq removed
              /\ \A d \in removed \ ExpiredSet : May(d)
              /\ \A d \in Digests : Must(d) => d \in removed

Removals == PassInv /\ CapInv /\ EndInv

\* What entries weigh together: a number that grows with the set, one entry at a time.
LEMMA Weights ==
  ASSUME Types, NEW S \in SUBSET Digests
  PROVE  /\ Weight(S) \in Nat
         /\ \A R \in SUBSET S : Weight(R) <= Weight(S)
         /\ \A x \in S : Weight(S) = snap[x].size + Weight(S \ {x})
<1>1. IsFiniteSet(S)
  BY PruneAssumption, FS_Subset
<1>2. \A x \in S : Sizes[x] = snap[x].size /\ Sizes[x] \in Nat
  BY DEF Sizes, Types, Entry, Names
<1>3. Sum(Sizes, S) \in Nat
  BY <1>1, <1>2, SumNat
<1>4. \A R \in SUBSET S : Sum(Sizes, R) <= Sum(Sizes, S)
  BY <1>1, <1>2, SumGrows
<1>5. \A x \in S : Sum(Sizes, S) = Sizes[x] + Sum(Sizes, S \ {x})
  <2>1. \A x \in S : Sizes[x] \in Int
    BY <1>2
  <2> QED
    BY <1>1, <2>1, SumTakes
<1> QED
  BY <1>2, <1>3, <1>4, <1>5 DEF Weight

\* SizeOf is the sum that the lemmas are about.
LEMMA SizeIsWeight ==
  ASSUME NEW S \in SUBSET Digests
  PROVE  SizeOf(S) = Weight(S)
<1> DEFINE P(h) == h = [s \in SUBSET S |-> IF s = {} THEN 0 ELSE snap[Pick(s)].size + h[s \ {Pick(s)}]]
           g == CHOOSE h : P(h)
<1>1. IsFiniteSet(S)
  BY PruneAssumption, FS_Subset
<1>2. SizeOf(S) = g[S]
  BY Zenon DEF SizeOf, MapThenSumSet, MapThenFoldSet, Pick
<1>3. \A s \in SUBSET S : s # {} => Pick(s) \in s
  BY DEF Pick
<1>4. \A s \in SUBSET S : s # {} => Sizes[Pick(s)] = snap[Pick(s)].size
  BY <1>3 DEF Sizes
<1>5. \A h : P(h) <=> IsSum(h, Sizes, S)
  BY <1>4 DEF IsSum
<1>6. \E h : IsSum(h, Sizes, S)
  BY <1>1, SumExists
<1> HIDE DEF P
<1>7. P(g)
  BY <1>5, <1>6
<1>8. IsSum(g, Sizes, S)
  BY <1>5, <1>7
<1> HIDE DEF g
<1> QED
  BY <1>1, <1>2, <1>8, SumByEquations DEF Weight

\* After the scan what the options ask for is settled.
LEMMA Settled ==
  ASSUME snap' = snap, opts' = opts
  PROVE  /\ Scanned' = Scanned /\ ExpiredSet' = ExpiredSet /\ Left' = Left /\ Sizes' = Sizes
         /\ \A d : (Must(d)' <=> Must(d)) /\ (May(d)' <=> May(d))
<1>1. Scanned' = Scanned /\ ExpiredSet' = ExpiredSet /\ Left' = Left /\ Sizes' = Sizes
  BY DEF Scanned, ExpiredSet, Left, Sizes, Expired
<1>2. \A d : NoOlderThan(d)' = NoOlderThan(d) /\ OlderThan(d)' = OlderThan(d)
  BY <1>1 DEF NoOlderThan, OlderThan
<1> QED
  BY <1>1, <1>2 DEF Must, May, Weight

\* What the invariant says of the records.
LEMMA Recorded ==
  ASSUME Inv
  PROVE  /\ Scanned \subseteq Digests /\ Scanned = {d \in Digests : snap[d] # Absent}
         /\ Left = Scanned \ ExpiredSet /\ ExpiredSet \subseteq Scanned /\ opts.keep \notin ExpiredSet
         /\ \A d \in Digests : snap[d].oldest \in Nat /\ snap[d].size \in Nat
         /\ opts.cap \in Nat /\ opts.ttl \in Nat
<1> USE DEF Inv
<1>1. Scanned \subseteq Digests
  BY DEF Types, Books, KeepStays
<1>2. Scanned = {d \in Digests : snap[d] # Absent}
  BY <1>1 DEF Scanned, Names
<1>3. /\ Left = Scanned \ ExpiredSet /\ ExpiredSet \subseteq Scanned
      /\ opts.keep \notin ExpiredSet
  BY <1>2 DEF Left, ExpiredSet
<1>4. \A d \in Digests : snap[d].oldest \in Nat /\ snap[d].size \in Nat
  BY DEF Types, Entry, Names
<1>5. opts.cap \in Nat /\ opts.ttl \in Nat
  BY PruneAssumption DEF Types, Options
<1> QED
  BY <1>1, <1>2, <1>3, <1>4, <1>5

\* In the cap pass, while it is too much: d is next, so the older ones are gone.
LEMMA NextMayGo ==
  ASSUME Inv, CapInv, phase = "cap", failures = {}, ~Enough, NEW d \in Digests, NextInLine(d), ~Spared(d)
  PROVE  May(d)
<1>1. opts.cap > 0 /\ total = Weight(records) /\ ExpiredSet \subseteq removed
      /\ records \ todo \subseteq {opts.keep}
  BY DEF CapInv
<1>2. /\ removed \cap records = {} /\ records \subseteq Scanned /\ todo \subseteq records /\ d \in todo
      /\ records \subseteq Digests
  BY DEF Inv, Types, Books, NextInLine
<1>3. d \in Left \ {opts.keep} /\ records \subseteq Left /\ Left \subseteq Digests
  BY <1>1, <1>2, Recorded DEF Spared
<1>4. ASSUME NEW r \in records, r \in OlderThan(d) PROVE FALSE
  <2>1. r \in todo /\ snap[r].oldest > snap[d].oldest
    BY <1>1, <1>4 DEF OlderThan
  <2>2. snap[r].oldest <= snap[d].oldest
    BY <2>1 DEF NextInLine
  <2> QED
    BY <1>2, <2>1, <2>2, Recorded
<1> DEFINE S == Left \ OlderThan(d)
<1>5. records \subseteq S /\ S \subseteq Digests
  BY <1>3, <1>4
<1>6. Types
  BY DEF Inv
<1> HIDE DEF S
<1>7. Weight(records) <= Weight(S) /\ Weight(S) \in Nat /\ Weight(records) \in Nat
  BY <1>5, <1>6, Weights
<1>8. total > opts.cap
  BY <1>1, <1>7, Recorded DEF Enough
<1>9. Weight(S) > opts.cap
  BY <1>1, <1>7, <1>8, Recorded
<1> QED
  BY <1>1, <1>3, <1>9 DEF May, S

\* In the cap pass, once it is enough: what is younger than d is still there.
LEMMA NoneMustGo ==
  ASSUME Inv, CapInv, phase = "cap", failures = {}, Enough, NEW d \in Digests, d \in todo
  PROVE  ~Must(d)
<1> SUFFICES ASSUME Must(d) PROVE FALSE
  OBVIOUS
<1>1. total = Weight(records) /\ \A v \in Left \ todo : snap[v].oldest >= snap[d].oldest
  BY DEF CapInv
<1>2. /\ removed \cup records = Scanned /\ opts.keep \notin removed
      /\ todo \subseteq records /\ records \subseteq Digests
  BY DEF Inv, Types, Books, KeepStays
<1>3. ASSUME NEW x \in Left \ NoOlderThan(d) PROVE x \in records
  <2>1. x = d \/ x = opts.keep \/ ~(snap[x].oldest >= snap[d].oldest)
    BY <1>3 DEF NoOlderThan
  <2>2. CASE x = d
    BY <2>2, <1>2
  <2>3. CASE x = opts.keep
    BY <2>3, <1>2, <1>3, Recorded
  <2>4. CASE ~(snap[x].oldest >= snap[d].oldest)
    BY <2>4, <1>1, <1>2, <1>3
  <2> QED
    BY <2>1, <2>2, <2>3, <2>4
<1> DEFINE S == Left \ NoOlderThan(d)
<1>4. S \subseteq records /\ Types
  BY <1>3 DEF Inv
<1> HIDE DEF S
<1>5. Weight(S) <= Weight(records) /\ Weight(S) \in Nat /\ Weight(records) \in Nat
  BY <1>2, <1>4, Weights
<1>6. Weight(S) > opts.cap
  BY DEF Must, S
<1> QED
  BY <1>1, <1>5, <1>6, Recorded DEF Enough

\* Before a scan nothing is removed.
LEMMA InitRemovals == Init => Removals
  BY DEF Init, Removals, PassInv, CapInv, EndInv

\* Nothing about the result changes when only the disk does.
LEMMA RemovalsStay ==
  ASSUME Removals, UNCHANGED <<opts, phase, records, snap, todo, total, removed, kept, failures>>
  PROVE  Removals'
<1>1. /\ Scanned' = Scanned /\ ExpiredSet' = ExpiredSet /\ Left' = Left /\ Sizes' = Sizes
      /\ \A d : (Must(d)' <=> Must(d)) /\ (May(d)' <=> May(d))
  BY Settled
<1>2. Weight(records)' = Weight(records) /\ Weight(kept)' = Weight(kept)
  BY <1>1 DEF Weight
<1>3. PassInv'
  BY <1>1 DEF Removals, PassInv
<1>4. CapInv'
  BY <1>1, <1>2 DEF Removals, CapInv, Enough
<1>5. EndInv'
  BY <1>1, <1>2 DEF Removals, EndInv
<1> QED
  BY <1>3, <1>4, <1>5 DEF Removals

\* A scan starts with nothing removed and everything on the list.
LEMMA ScanRemovals == Inv /\ Inv' /\ Removals /\ Scan => Removals'
<1> SUFFICES ASSUME Inv, Inv', Scan PROVE Removals'
  OBVIOUS
<1>1. /\ phase' = IF opts.all THEN "all" ELSE IF opts.ttl > 0 THEN "ttl" ELSE "sort"
      /\ opts' = opts /\ records' = Entries /\ todo' = Entries /\ removed' = removed /\ phase = "scan"
  BY DEF Scan
<1>2. removed' = {} /\ Scanned' = records'
  BY <1>1 DEF Inv, Books
<1>3. ExpiredSet' \subseteq Scanned'
  <2> DEFINE Goal == ExpiredSet \subseteq Scanned
  <2>1. Inv => Goal
    BY Recorded
  <2>2. Inv' => Goal'
    BY Recorded, Settled DEF Scanned, ExpiredSet, Inv, Types, Names
  <2> QED
    BY <2>2
<1>4. opts.ttl \in Nat
  BY Recorded
<1>5. PassInv'
  BY <1>1, <1>2, <1>3, <1>4 DEF PassInv
<1>6. CapInv' /\ EndInv'
  BY <1>1 DEF CapInv, EndInv
<1> QED
  BY <1>5, <1>6 DEF Removals

\* A pass of --all over one entry.
LEMMA AllRemovals ==
  ASSUME Inv, Removals, NEW d \in Names, AllPass(d)
  PROVE  Removals'
<1>1. /\ phase = "all" /\ phase' = "all" /\ d \in todo /\ todo' = todo \ {d}
      /\ opts' = opts /\ snap' = snap
  BY DEF AllPass, Look, Same
<1>2. Scanned' = Scanned
  BY <1>1, Settled
<1>3. /\ removed \subseteq removed' /\ failures \subseteq failures'
      /\ d \in removed' \cup failures' \cup {opts.keep}
  <2>1. CASE Spared(d) /\ NoTouch /\ UNCHANGED removed
    BY <2>1 DEF Spared, NoTouch
  <2>2. ASSUME NEW ok \in BOOLEAN, TryRemove(d, ok), removed' = IF ok THEN removed \cup {d} ELSE removed
        PROVE  /\ removed \subseteq removed' /\ failures \subseteq failures'
               /\ d \in removed' \cup failures' \cup {opts.keep}
    BY <2>2, AttemptTells DEF Inv
  <2> QED
    BY <2>1, <2>2 DEF AllPass
<1>4. PassInv'
  BY <1>1, <1>2, <1>3 DEF Removals, PassInv
<1> QED
  BY <1>1, <1>4 DEF Removals, CapInv, EndInv

\* The end of --all.
LEMMA AllEndRemovals == Inv /\ Removals /\ AllEnd => Removals'
<1> SUFFICES ASSUME Inv, Removals, AllEnd PROVE Removals'
  OBVIOUS
<1>1. /\ phase = "all" /\ phase' = "done" /\ todo = {}
      /\ UNCHANGED <<opts, snap, removed, failures>>
  BY DEF AllEnd
<1>2. Scanned' = Scanned
  BY <1>1, Settled
<1>3. opts.all /\ Scanned \subseteq removed \cup failures \cup {opts.keep}
  BY <1>1 DEF Removals, PassInv
<1> QED
  BY <1>1, <1>2, <1>3 DEF Removals, PassInv, CapInv, EndInv

\* A pass over one entry by its age.
LEMMA TTLRemovals ==
  ASSUME Inv, Removals, NEW d \in Names, TTLPass(d)
  PROVE  Removals'
<1>1. /\ phase = "ttl" /\ phase' = "ttl" /\ d \in todo /\ todo' = todo \ {d}
      /\ opts' = opts /\ snap' = snap
  BY DEF TTLPass, Look, Same
<1>2. ExpiredSet' = ExpiredSet
  BY <1>1, Settled
<1>3. /\ opts.ttl > 0 /\ ~opts.all /\ removed \subseteq ExpiredSet
      /\ ExpiredSet \ todo \subseteq removed \cup failures
  BY <1>1 DEF Removals, PassInv
<1>4. d \in ExpiredSet <=> ~Spared(d) /\ Expired(d)
  <2>1. d \in Digests /\ snap[d] # Absent
    BY <1>1, Recorded DEF Inv, Types, Books, Scanned
  <2> QED
    BY <1>3, <2>1 DEF ExpiredSet, Spared
<1>5. /\ removed' \subseteq removed \cup ({d} \cap ExpiredSet)
      /\ removed \subseteq removed' /\ failures \subseteq failures'
      /\ d \in ExpiredSet => d \in removed' \cup failures'
  <2>1. CASE (Spared(d) \/ ~Expired(d)) /\ NoTouch /\ UNCHANGED <<records, removed>>
    BY <1>4, <2>1 DEF NoTouch
  <2>2. CASE TryRemove(d, FALSE) /\ UNCHANGED <<records, removed>>
    BY <2>2, AttemptTells DEF Inv
  <2>3. CASE ~Spared(d) /\ Expired(d) /\ TryRemove(d, TRUE) /\ removed' = removed \cup {d}
    BY <1>4, <2>3, AttemptTells DEF Inv
  <2> QED
    BY <2>1, <2>2, <2>3 DEF TTLPass
<1>6. PassInv'
  BY <1>1, <1>2, <1>3, <1>5 DEF PassInv
<1> QED
  BY <1>1, <1>6 DEF Removals, CapInv, EndInv

\* The order by age, oldest first.
LEMMA SortRemovals == Inv /\ Removals /\ Sort => Removals'
<1> SUFFICES ASSUME Inv, Removals, Sort PROVE Removals'
  OBVIOUS
<1>1. /\ (phase = "ttl" /\ todo = {}) \/ phase = "sort"
      /\ UNCHANGED <<opts, records, snap, removed, failures>>
      /\ total' = SizeOf(records)
      /\ phase' \in {"cap", "done"}
      /\ phase' = "cap" => opts.cap > 0 /\ total' > opts.cap /\ todo' = records
      /\ phase' = "done" => (opts.cap = 0 \/ total' <= opts.cap) /\ todo' = {} /\ kept' = records
  BY DEF Sort
<1>2. /\ records \subseteq Digests /\ removed \cup records = Scanned /\ Types
  BY <1>1 DEF Inv, Types, Books
<1>3. /\ Scanned' = Scanned /\ ExpiredSet' = ExpiredSet /\ Left' = Left /\ Sizes' = Sizes
      /\ \A d : (Must(d)' <=> Must(d)) /\ (May(d)' <=> May(d))
  BY <1>1, Settled
<1>4. Weight(records)' = Weight(records)
  BY <1>1, <1>3 DEF Weight
<1>5. total' = Weight(records) /\ Weight(records) \in Nat
  BY <1>1, <1>2, SizeIsWeight, Weights
<1>6. ~opts.all /\ removed \subseteq ExpiredSet /\ ExpiredSet \subseteq removed \cup failures
  BY <1>1 DEF Removals, PassInv, ExpiredSet
<1>7. Left \subseteq records
  BY <1>2, <1>6, Recorded
<1>8. CASE phase' = "cap"
  <2>1. ~Enough'
    BY <1>1, <1>5, <1>8, Recorded DEF Enough
  <2>2. \A d : Must(d) => d \in records
    BY <1>7 DEF Must
  <2>3. CapInv'
    <3>1. opts'.cap > 0 /\ total' = Weight(records)' /\ records' \ todo' = {} /\ Left' \ todo' = {}
      BY <1>1, <1>3, <1>4, <1>5, <1>7, <1>8
    <3>2. failures' = {} => /\ ExpiredSet' \subseteq removed'
                            /\ \A d \in removed' \ ExpiredSet' : May(d)'
                            /\ \A d \in Digests \ todo' : Must(d)' => d \in removed'
      BY <1>1, <1>3, <1>6, <1>8, <2>2
    <3> QED
      BY <3>1, <3>2 DEF CapInv
  <2> QED
    BY <1>1, <1>6, <1>8, <2>3 DEF Removals, PassInv, EndInv
<1>9. CASE phase' = "done"
  <2>1. opts.cap > 0 => Weight(kept)' <= opts.cap
    <3>1. Weight(kept)' = Weight(records)
      BY <1>1, <1>3, <1>9 DEF Weight
    <3> QED
      BY <1>1, <1>5, <1>9, <3>1, Recorded
  <2>2. ASSUME NEW d PROVE ~Must(d)
    <3> SUFFICES ASSUME Must(d) PROVE FALSE
      OBVIOUS
    <3> DEFINE S == Left \ NoOlderThan(d)
    <3>1. S \subseteq records /\ opts.cap > 0 /\ Weight(S) > opts.cap
      BY <1>7 DEF Must
    <3> HIDE DEF S
    <3>2. Weight(S) <= Weight(records) /\ Weight(S) \in Nat
      BY <1>2, <3>1, Weights
    <3> QED
      BY <1>1, <1>5, <1>9, <3>1, <3>2, Recorded
  <2>3. EndInv'
    BY <1>1, <1>3, <1>6, <1>9, <2>1, <2>2 DEF EndInv
  <2> QED
    BY <1>1, <1>9, <2>3 DEF Removals, PassInv, CapInv
<1> QED
  BY <1>1, <1>8, <1>9

\* The end of the cap: nothing is left over it, or nothing is left to try.
LEMMA CapEndRemovals == Inv /\ Removals /\ CapEnd => Removals'
<1> SUFFICES ASSUME Inv, Removals, CapEnd PROVE Removals'
  OBVIOUS
<1>1. /\ phase = "cap" /\ todo = {} /\ phase' = "done" /\ kept' = records
      /\ UNCHANGED <<opts, snap, removed, failures>>
  BY DEF CapEnd
<1>2. /\ Scanned' = Scanned /\ ExpiredSet' = ExpiredSet /\ Left' = Left /\ Sizes' = Sizes
      /\ \A d : (Must(d)' <=> Must(d)) /\ (May(d)' <=> May(d))
  BY <1>1, Settled
<1>3. Weight(kept)' = Weight(records)
  BY <1>1, <1>2 DEF Weight
<1>4. ~opts.all /\ opts.cap > 0 /\ total = Weight(records)
      /\ (~Enough => records \subseteq failures \cup {opts.keep})
  BY <1>1 DEF Removals, PassInv, CapInv
<1>5. failures = {} => /\ ExpiredSet \subseteq removed
                       /\ \A d \in removed \ ExpiredSet : May(d)
                       /\ \A d \in Digests : Must(d) => d \in removed
  BY <1>1 DEF Removals, CapInv
<1>6. EndInv'
  BY <1>1, <1>2, <1>3, <1>4, <1>5 DEF EndInv, Enough
<1> QED
  BY <1>1, <1>6 DEF Removals, PassInv, CapInv

\* A pass over the oldest entry that is left.
LEMMA CapRemovals ==
  ASSUME Inv, Removals, NEW d \in Names, CapPass(d)
  PROVE  Removals'
<1>1. /\ phase = "cap" /\ phase' = "cap" /\ NextInLine(d) /\ d \in todo /\ todo' = todo \ {d}
      /\ opts' = opts /\ snap' = snap /\ todo \subseteq records /\ records \subseteq Digests
      /\ removed \cap records = {} /\ d \in Digests /\ Types
  BY DEF CapPass, Look, Inv, Types, Books
<1>2. /\ Scanned' = Scanned /\ ExpiredSet' = ExpiredSet /\ Left' = Left /\ Sizes' = Sizes
      /\ \A x : (Must(x)' <=> Must(x)) /\ (May(x)' <=> May(x))
  BY <1>1, Settled
<1>3. /\ ~opts.all /\ opts.cap > 0 /\ total = Weight(records)
      /\ (~Enough => records \ todo \subseteq failures \cup {opts.keep})
      /\ CapInv
  BY <1>1 DEF Removals, PassInv, CapInv
<1>4. \/ (Enough \/ Spared(d)) /\ NoTouch /\ UNCHANGED <<records, removed, total>>
      \/ /\ ~Enough /\ ~Spared(d) /\ TryRemove(d, TRUE) /\ total' = total - snap[d].size
         /\ records' = records \ {d} /\ removed' = removed \cup {d}
      \/ /\ TryRemove(d, FALSE) /\ total' = total /\ UNCHANGED <<records, removed>>
  <2>1. snap[d].size \in Nat /\ total \in Nat
    BY <1>1, <1>3, Recorded, Weights
  <2>2. total - 0 = total
    BY <2>1
  <2>3. Freed(d, TRUE) = snap[d].size /\ Freed(d, FALSE) = 0
    BY DEF Freed
  <2>4. CapPass(d)
    OBVIOUS
  <2> QED
    BY <2>2, <2>3, <2>4, Zenon DEF CapPass
<1>5. total' = Weight(records)' /\ (~Enough' => ~Enough)
  <2>1. Weight(records) \in Nat /\ Weight(records) = snap[d].size + Weight(records \ {d})
        /\ Weight(records \ {d}) \in Nat /\ snap[d].size \in Nat /\ opts.cap \in Nat
    BY <1>1, Recorded, Weights
  <2>2. CASE records' = records /\ total' = total
    BY <1>1, <1>2, <1>3, <2>2 DEF Weight, Enough
  <2>3. CASE records' = records \ {d} /\ total' = total - snap[d].size
    <3>1. Weight(records)' = Weight(records \ {d})
      BY <1>2, <2>3 DEF Weight
    <3>2. total' = Weight(records \ {d})
      BY <1>3, <2>1, <2>3
    <3>3. ~Enough' => ~Enough
      BY <1>1, <1>3, <2>1, <3>2 DEF Enough
    <3> QED
      BY <3>1, <3>2, <3>3
  <2> QED
    BY <1>4, <2>2, <2>3
<1>6. failures \subseteq failures' /\ removed \subseteq removed'
      /\ (TryRemove(d, FALSE) => d \in failures')
  BY <1>1, <1>4, AttemptTells DEF NoTouch
<1>7. ~Enough' => records' \ todo' \subseteq failures' \cup {opts'.keep}
  <2>1. CASE Spared(d)
    BY <1>1, <1>3, <1>4, <1>5, <1>6, <2>1 DEF Spared
  <2>2. CASE Enough
    BY <1>5, <2>2
  <2>3. CASE ~Spared(d) /\ ~Enough
    BY <1>1, <1>3, <1>4, <1>6, <2>3
  <2> QED
    BY <2>1, <2>2, <2>3
<1>8. ASSUME failures' = {}
      PROVE  /\ ExpiredSet' \subseteq removed'
             /\ \A r \in todo' : \A v \in Left' \ todo' : snap'[v].oldest >= snap'[r].oldest
             /\ \A x \in removed' \ ExpiredSet' : May(x)'
             /\ \A x \in Digests \ todo' : Must(x)' => x \in removed'
  <2>1. /\ failures = {} /\ ExpiredSet \subseteq removed
        /\ \A r \in todo : \A v \in Left \ todo : snap[v].oldest >= snap[r].oldest
        /\ \A x \in removed \ ExpiredSet : May(x)
        /\ \A x \in Digests \ todo : Must(x) => x \in removed
    BY <1>1, <1>3, <1>6, <1>8 DEF CapInv
  <2>2. \A r \in todo' : \A v \in Left' \ todo' : snap'[v].oldest >= snap'[r].oldest
    <3>1. \A r \in todo' : snap[d].oldest >= snap[r].oldest
      <4>1. \A r \in todo : snap[r].oldest <= snap[d].oldest /\ snap[r].oldest \in Nat /\ snap[d].oldest \in Nat
        BY <1>1, Recorded DEF NextInLine
      <4> QED
        BY <1>1, <4>1
    <3> QED
      BY <1>1, <1>2, <2>1, <3>1
  <2>3. removed' = removed \/ (removed' = removed \cup {d} /\ May(d))
    BY <1>1, <1>3, <1>4, <2>1, NextMayGo
  <2>4. Must(d) => d \in removed'
    <3>1. CASE Enough
      BY <1>1, <1>3, <2>1, <3>1, NoneMustGo
    <3>2. CASE ~Enough /\ ~Spared(d)
      BY <1>4, <1>6, <1>8, <3>2
    <3>3. CASE Spared(d)
      BY <3>3 DEF Must, Spared
    <3> QED
      BY <3>1, <3>2, <3>3
  <2> QED
    BY <1>1, <1>2, <1>6, <2>1, <2>2, <2>3, <2>4
<1>9. CapInv'
  BY <1>1, <1>3, <1>5, <1>7, <1>8 DEF CapInv
<1> QED
  BY <1>1, <1>3, <1>9 DEF Removals, PassInv, EndInv

\* Every step keeps what was removed justified.
LEMMA StepRemovals == Inv /\ Inv' /\ Removals /\ [Next]_vars => Removals'
<1> SUFFICES ASSUME Inv, Inv', Removals, [Next]_vars PROVE Removals'
  OBVIOUS
<1>1. CASE Scan \/ AllEnd \/ Sort \/ CapEnd
  BY <1>1, ScanRemovals, AllEndRemovals, SortRemovals, CapEndRemovals
<1>2. ASSUME NEW d \in Names, AllPass(d) \/ TTLPass(d) \/ CapPass(d) PROVE Removals'
  BY <1>2, AllRemovals, TTLRemovals, CapRemovals
<1>3. ASSUME NEW d \in Digests, OtherSaves(d) \/ OtherPrunes(d) PROVE Removals'
  <2>1. UNCHANGED <<opts, phase, records, snap, todo, total, removed, kept, failures>>
    BY <1>3 DEF OtherSaves, OtherPrunes
  <2> QED
    BY <2>1, RemovalsStay
<1>4. CASE UNCHANGED vars
  <2>1. UNCHANGED <<opts, phase, records, snap, todo, total, removed, kept, failures>>
    BY <1>4 DEF vars
  <2> QED
    BY <2>1, RemovalsStay
<1> QED
  BY <1>1, <1>2, <1>3, <1>4 DEF Next, Step

\* What was removed is justified in every state.
LEMMA RemovalsInvariant == Spec => []Removals
BY InitRemovals, StepRemovals, Invariance, PTL DEF Spec

(* When no directory resists, PruneCache (or the preview of its dry run)     *)
(* removes all but Keep under All, else what has expired and, oldest first,  *)
(* what it takes to get below MaxBytes, and nothing that could have stayed:  *)
(* the passes, their running total and the order of the sort come to what    *)
(* the options say, whatever the sizes, the ages and the ties among them.    *)
THEOREM RemovesTheRightOnes == Spec => []RemovesWhatWasAsked
<1>1. Inv /\ Removals => RemovesWhatWasAsked
  <2> SUFFICES ASSUME Inv, Removals, Done, failures = {} PROVE RemovesWhatWasAsked
    BY DEF RemovesWhatWasAsked
  <2>1. phase = "done"
    BY DEF Done
  <2>2. CASE opts.all
    <3>1. Scanned \subseteq removed \cup {opts.keep} /\ removed \subseteq Scanned /\ opts.keep \notin removed
      BY <2>1, <2>2 DEF Removals, EndInv, Inv, Books, KeepStays
    <3>2. removed = {d \in Digests : snap[d] # Absent /\ d # opts.keep}
      BY <3>1, Recorded
    <3> QED
      BY <2>2, <3>2 DEF RemovesWhatWasAsked
  <2>3. CASE ~opts.all
    <3>1. /\ ExpiredSet \subseteq removed
          /\ \A d \in removed \ ExpiredSet : May(d)
          /\ \A d \in Digests : Must(d) => d \in removed
      BY <2>1, <2>3 DEF Removals, EndInv
    <3>2. Left \subseteq Digests /\ removed \subseteq Digests
      BY Recorded DEF Inv, KeepStays
    <3>3. \A d : (MustGo(d) <=> Must(d)) /\ (MayGo(d) <=> May(d))
      BY <3>2, SizeIsWeight DEF MustGo, MayGo, Must, May
    <3> QED
      BY <2>3, <3>1, <3>2, <3>3 DEF RemovesWhatWasAsked
  <2> QED
    BY <2>2, <2>3
<1> QED
  BY <1>1, Invariance, RemovalsInvariant, PTL

(* After PruneCache with a MaxBytes, what it reports as kept fits, unless    *)
(* nothing is left that could still have been removed: a failed removal is   *)
(* never taken off the running total.                                        *)
THEOREM CapIsKept == Spec => []CapHolds
<1>1. Inv /\ Removals => CapHolds
  <2> SUFFICES ASSUME Inv, Removals, Done, ~opts.all, opts.cap > 0
               PROVE  SizeOf(kept) <= opts.cap \/ kept \subseteq failures \cup {opts.keep}
    BY DEF CapHolds
  <2>1. SizeOf(kept) = Weight(kept)
    BY SizeIsWeight DEF Inv, Types
  <2> QED
    BY <2>1 DEF Removals, EndInv, Done
<1> QED
  BY <1>1, Invariance, RemovalsInvariant, PTL
=============================================================================
