-------------------------- MODULE CommandRunProofs --------------------------
(* Theorems about CommandRun, for any images, configuration files, options   *)
(* and engine codes: the exit code keeps what Verdict promises of it.        *)
EXTENDS CommandRun, SumTheorems

-----------------------------------------------------------------------------
(* Sums *)

LayerSizes(image) == [l \in DOMAIN image.layers |-> image.layers[l].size]
FileSizes(image)  == [p \in DOMAIN image.files |-> image.files[p].size]
WasteSizes(image) == [p \in DOMAIN image.wasted |-> image.wasted[p].bytes]
DeltasOf(diffs)   == [d \in diffs |-> d.sizeDelta]

\* The fold of the layers as a sum.
LEMMA SizeIs ==
  ASSUME NEW image, IsFiniteSet(DOMAIN image.layers)
  PROVE  Size(image) = Sum(LayerSizes(image), DOMAIN image.layers)
<1> DEFINE P(h) == h = [s \in SUBSET DOMAIN image.layers |-> IF s = {} THEN 0 ELSE image.layers[Pick(s)].size + h[s \ {Pick(s)}]]
           g == CHOOSE h : P(h)
<1>1. Size(image) = g[DOMAIN image.layers]
  BY Zenon DEF Size, FoldFunction, FoldFunctionOnSet, MapThenFoldSet, Pick
<1>2. \A s \in SUBSET DOMAIN image.layers : s # {} => Pick(s) \in s
  BY DEF Pick
<1>3. \A s \in SUBSET DOMAIN image.layers : s # {} => LayerSizes(image)[Pick(s)] = image.layers[Pick(s)].size
  BY <1>2 DEF LayerSizes
<1>4. \A h : P(h) <=> IsSum(h, LayerSizes(image), DOMAIN image.layers)
  BY <1>3 DEF IsSum
<1>5. \E h : IsSum(h, LayerSizes(image), DOMAIN image.layers)
  BY SumExists
<1> HIDE DEF P
<1>6. P(g)
  BY <1>4, <1>5
<1>7. IsSum(g, LayerSizes(image), DOMAIN image.layers)
  BY <1>4, <1>6
<1> HIDE DEF g
<1> QED
  BY <1>1, <1>7, SumByEquations

\* The fold of the wasted bytes as a sum.
LEMMA WastedIs ==
  ASSUME NEW image, IsFiniteSet(DOMAIN image.wasted)
  PROVE  WastedBytes(image) = Sum(WasteSizes(image), DOMAIN image.wasted)
<1> DEFINE P(h) == h = [s \in SUBSET DOMAIN image.wasted |-> IF s = {} THEN 0 ELSE image.wasted[Pick(s)].bytes + h[s \ {Pick(s)}]]
           g == CHOOSE h : P(h)
<1>1. WastedBytes(image) = g[DOMAIN image.wasted]
  BY Zenon DEF WastedBytes, FoldFunction, FoldFunctionOnSet, MapThenFoldSet, Pick
<1>2. \A s \in SUBSET DOMAIN image.wasted : s # {} => Pick(s) \in s
  BY DEF Pick
<1>3. \A s \in SUBSET DOMAIN image.wasted : s # {} => WasteSizes(image)[Pick(s)] = image.wasted[Pick(s)].bytes
  BY <1>2 DEF WasteSizes
<1>4. \A h : P(h) <=> IsSum(h, WasteSizes(image), DOMAIN image.wasted)
  BY <1>3 DEF IsSum
<1>5. \E h : IsSum(h, WasteSizes(image), DOMAIN image.wasted)
  BY SumExists
<1> HIDE DEF P
<1>6. P(g)
  BY <1>4, <1>5
<1>7. IsSum(g, WasteSizes(image), DOMAIN image.wasted)
  BY <1>4, <1>6
<1> HIDE DEF g
<1> QED
  BY <1>1, <1>7, SumByEquations

\* The fold of the live bytes as a sum.
LEMMA LiveIs ==
  ASSUME NEW image, IsFiniteSet(DOMAIN image.files)
  PROVE  FoldFunction(LAMBDA f, sum : f.size + sum, 0, image.files) = Sum(FileSizes(image), DOMAIN image.files)
<1> DEFINE P(h) == h = [s \in SUBSET DOMAIN image.files |-> IF s = {} THEN 0 ELSE image.files[Pick(s)].size + h[s \ {Pick(s)}]]
           g == CHOOSE h : P(h)
<1>1. FoldFunction(LAMBDA f, sum : f.size + sum, 0, image.files) = g[DOMAIN image.files]
  BY Zenon DEF FoldFunction, FoldFunctionOnSet, MapThenFoldSet, Pick
<1>2. \A s \in SUBSET DOMAIN image.files : s # {} => Pick(s) \in s
  BY DEF Pick
<1>3. \A s \in SUBSET DOMAIN image.files : s # {} => FileSizes(image)[Pick(s)] = image.files[Pick(s)].size
  BY <1>2 DEF FileSizes
<1>4. \A h : P(h) <=> IsSum(h, FileSizes(image), DOMAIN image.files)
  BY <1>3 DEF IsSum
<1>5. \E h : IsSum(h, FileSizes(image), DOMAIN image.files)
  BY SumExists
<1> HIDE DEF P
<1>6. P(g)
  BY <1>4, <1>5
<1>7. IsSum(g, FileSizes(image), DOMAIN image.files)
  BY <1>4, <1>6
<1> HIDE DEF g
<1> QED
  BY <1>1, <1>7, SumByEquations

\* The fold of the differences as a sum.
LEMMA DeltasIs ==
  ASSUME NEW diffs, IsFiniteSet(diffs)
  PROVE  Deltas(diffs) = Sum(DeltasOf(diffs), diffs)
<1> DEFINE P(h) == h = [s \in SUBSET diffs |-> IF s = {} THEN 0 ELSE Pick(s).sizeDelta + h[s \ {Pick(s)}]]
           g == CHOOSE h : P(h)
<1>1. Deltas(diffs) = g[diffs]
  BY Zenon DEF Deltas, FoldSet, MapThenFoldSet, Pick
<1>2. \A s \in SUBSET diffs : s # {} => Pick(s) \in s
  BY DEF Pick
<1>3. \A s \in SUBSET diffs : s # {} => DeltasOf(diffs)[Pick(s)] = Pick(s).sizeDelta
  BY <1>2 DEF DeltasOf
<1>4. \A h : P(h) <=> IsSum(h, DeltasOf(diffs), diffs)
  BY <1>3 DEF IsSum
<1>5. \E h : IsSum(h, DeltasOf(diffs), diffs)
  BY SumExists
<1> HIDE DEF P
<1>6. P(g)
  BY <1>4, <1>5
<1>7. IsSum(g, DeltasOf(diffs), diffs)
  BY <1>4, <1>6
<1> HIDE DEF g
<1> QED
  BY <1>1, <1>7, SumByEquations

\* What an image's lists add up to.
LEMMA ImageBytes ==
  ASSUME NEW image \in Images
  PROVE  /\ IsFiniteSet(DOMAIN image.layers) /\ IsFiniteSet(DOMAIN image.files)
         /\ IsFiniteSet(DOMAIN image.wasted)
         /\ Len(image.layers) \in Nat /\ DOMAIN image.layers = 1..Len(image.layers)
         /\ \A k \in DOMAIN image.layers : LayerSizes(image)[k] \in Nat
         /\ Size(image) \in Nat /\ WastedBytes(image) \in Nat
<1>1. IsImage(image)
  BY CommandAssumption
<1>2. Len(image.layers) \in Nat /\ DOMAIN image.layers = 1..Len(image.layers)
      /\ \A k \in DOMAIN image.layers : image.layers[k].size \in Nat
  <2>1. image.layers \in Seq(Layers)
    BY <1>1 DEF IsImage
  <2>2. /\ Len(image.layers) \in Nat /\ DOMAIN image.layers = 1..Len(image.layers)
        /\ \A k \in DOMAIN image.layers : image.layers[k] \in Layers
    BY <2>1
  <2> QED
    BY <2>2 DEF Layers
<1>3. IsFiniteSet(DOMAIN image.layers) /\ IsFiniteSet(DOMAIN image.wasted)
      /\ IsFiniteSet(DOMAIN image.files)
  BY <1>1, <1>2, FS_Interval DEF IsImage
<1>4. \A k \in DOMAIN image.layers : LayerSizes(image)[k] \in Nat
  BY <1>2 DEF LayerSizes
<1>5. \A p \in DOMAIN image.wasted : WasteSizes(image)[p] \in Nat
  BY <1>1 DEF IsImage, WasteSizes
<1>6. Size(image) \in Nat
  BY <1>3, <1>4, SizeIs, SumNat
<1>7. WastedBytes(image) \in Nat
  BY <1>3, <1>5, WastedIs, SumNat
<1> QED
  BY <1>2, <1>3, <1>4, <1>6, <1>7

-----------------------------------------------------------------------------
(* Limits *)

\* A rounded limit is kept by the byte counts that keep the exact one.
LEMMA Rounding ==
  ASSUME NEW a \in Int, NEW n \in Int, NEW d \in Nat \ {0}
  PROVE  a <= n \div d <=> a * d <= n
<1> DEFINE q == n \div d
           r == n % d
<1>1. n = d * q + r /\ r \in 0..(d - 1) /\ q \in Int
  OBVIOUS
<1> HIDE DEF q, r
<1>2. a <= q => a * d <= q * d
  BY <1>1
<1>3. a >= q + 1 => a * d >= (q + 1) * d
  BY <1>1
<1>4. (q + 1) * d = d * q + d /\ q * d = d * q
  BY <1>1
<1>5. a <= q <=> a * d <= n
  BY <1>1, <1>2, <1>3, <1>4
<1> QED
  BY <1>5 DEF q

\* The file that is used is one of those the command line meets.
LEMMA UsedFile ==
  ASSUME IsOptions(opts)
  PROVE  IsFile(ConfigUsed)
<1> DEFINE n == Min({Len(opts.walk), MaxLevels})
           there == {i \in 1..n : opts.walk[i].content # "absent"}
<1>1. Len(opts.walk) \in Nat /\ MaxLevels \in Nat
  BY MaxLevelsAssumption DEF IsOptions
<1>2. n \in Nat /\ n <= Len(opts.walk)
  <2>1. PICK least \in {Len(opts.walk), MaxLevels} : \A m \in {Len(opts.walk), MaxLevels} : least <= m
    BY <1>1, LeastNat
  <2>2. n \in {Len(opts.walk), MaxLevels} /\ \A m \in {Len(opts.walk), MaxLevels} : n <= m
    BY <2>1 DEF Min
  <2> QED
    BY <1>1, <2>2
<1>3. ASSUME there # {} PROVE Min(there) \in there
  <2>1. there \subseteq Nat
    BY <1>2
  <2>2. \E i \in there : \A j \in there : i <= j
    BY <1>3, <2>1, LeastNat
  <2> QED
    BY <2>2 DEF Min
<1>4. there # {} => IsFile(opts.walk[Min(there)])
  <2>1. there \subseteq 1..n
    OBVIOUS
  <2>2. 1..n \subseteq 1..Len(opts.walk)
    <3> HIDE DEF n
    <3> QED
      BY <1>1, <1>2
  <2>3. there # {} => Min(there) \in 1..Len(opts.walk)
    BY Zenon, <2>1, <2>2, <1>3
  <2> QED
    BY <2>3 DEF IsOptions
<1> QED
  BY <1>4 DEF ConfigUsed, Load, IsOptions
\* The limits on sizes that are evaluated are those that were asked for.
LEMMA SizesAsked ==
  ASSUME NEW flags, NEW file, IsFile(file), ~LoadError(file),
         flags.max # <<>> => IsQuantity(flags.max[1]),
         flags.growth # <<>> => IsQuantity(flags.growth[1]),
         NEW b, b = effectiveSizeBudget(LoadFrom(file).budget, flags)
  PROVE  /\ b.max = V!SizeLimit(flags.max, file, "max") /\ IsQuantity(b.max)
         /\ b.growth = V!SizeLimit(flags.growth, file, "growth") /\ IsQuantity(b.growth)
<1>1. IsQuantity(Unset) /\ Unset = V!Unset
  BY DEF IsQuantity, Unset, V!Unset
<1>2. b.max = (IF flags.max = <<>> THEN LoadFrom(file).budget.max ELSE flags.max[1])
      /\ b.growth = (IF flags.growth = <<>> THEN LoadFrom(file).budget.growth ELSE flags.growth[1])
  BY DEF effectiveSizeBudget
<1>3. CASE file.content = "yaml"
  <2>1. file.budget.shape \in {"absent", "map"}
    BY <1>3 DEF LoadError, budgetError, IsFile
  <2>2. LoadFrom(file).budget.max = file.budget.max /\ LoadFrom(file).budget.growth = file.budget.growth
    BY <1>3 DEF LoadFrom
  <2>3. IsQuantity(file.budget.max) /\ IsQuantity(file.budget.growth)
        /\ (file.budget.shape = "absent" => file.budget.max = Unset /\ file.budget.growth = Unset)
    BY <1>3 DEF IsFile, LoadError, budgetError
  <2>4. file.budget["max"] = file.budget.max /\ file.budget["growth"] = file.budget.growth
    OBVIOUS
  <2> QED
    BY <1>1, <1>2, <1>3, <2>1, <2>2, <2>3, <2>4 DEF V!SizeLimit
<1>4. CASE file.content # "yaml"
  <2>1. LoadFrom(file).budget.max = Unset /\ LoadFrom(file).budget.growth = Unset
    BY <1>4 DEF LoadFrom, Default
  <2> QED
    BY <1>1, <1>2, <1>4, <2>1 DEF V!SizeLimit
<1> QED
  BY <1>3, <1>4

\* The size rules pass when both limits are kept.
LEMMA SizeResults ==
  ASSUME NEW b, NEW current, NEW base
  PROVE  (\A i \in DOMAIN Evaluate(b, current, base) : Evaluate(b, current, base)[i].passed)
         <=> /\ b.max.kind # "none" => current <= b.max.num \div b.max.den
             /\ b.growth.kind # "none" => current - base <= Allowance(b.growth, base)
<1> DEFINE size == [name |-> "image size", actual |-> current, limit |-> b.max.num \div b.max.den,
                    passed |-> current <= b.max.num \div b.max.den]
           growth == [name |-> "image growth", actual |-> current - base,
                      limit |-> Allowance(b.growth, base),
                      passed |-> current - base <= Allowance(b.growth, base)]
           all == Evaluate(b, current, base)
<1>1. all = (IF b.max.kind = "none" THEN <<>> ELSE <<size>>)
            \o (IF b.growth.kind = "none" THEN <<>> ELSE <<growth>>)
  BY DEF Evaluate
<1>2. size.passed = (current <= b.max.num \div b.max.den)
      /\ growth.passed = (current - base <= Allowance(b.growth, base))
  OBVIOUS
<1> HIDE DEF size, growth, all
<1>3. CASE b.max.kind = "none" /\ b.growth.kind = "none"
  <2>1. DOMAIN all = {}
    BY <1>1, <1>3
  <2> QED
    BY <1>3, <2>1 DEF all
<1>4. CASE b.max.kind # "none" /\ b.growth.kind = "none"
  <2>1. DOMAIN all = {1} /\ all[1] = size
    BY <1>1, <1>4
  <2> QED
    BY <1>2, <1>4, <2>1 DEF all
<1>5. CASE b.max.kind = "none" /\ b.growth.kind # "none"
  <2>1. DOMAIN all = {1} /\ all[1] = growth
    BY <1>1, <1>5
  <2> QED
    BY <1>2, <1>5, <2>1 DEF all
<1>6. CASE b.max.kind # "none" /\ b.growth.kind # "none"
  <2>1. DOMAIN all = {1, 2} /\ all[1] = size /\ all[2] = growth
    BY <1>1, <1>6
  <2> QED
    BY <1>2, <1>6, <2>1 DEF all
<1> QED
  BY <1>3, <1>4, <1>5, <1>6

\* The results on sizes pass, of two images whose platforms match if need be,
\* when the images keep what is asked of their sizes.
LEMMA SizesKept ==
  ASSUME NEW flags, NEW file, NEW b, ~ParseError(b),
         b.max = V!SizeLimit(flags.max, file, "max"), IsQuantity(b.max),
         b.growth = V!SizeLimit(flags.growth, file, "growth"), IsQuantity(b.growth),
         NEW image \in Images, NEW base \in Images
  PROVE  V!KeepsSizes(flags, file, image, base)
         <=> /\ b.max.kind # "none" => Size(image) <= b.max.num \div b.max.den
             /\ b.growth.kind # "none" =>
                    /\ Size(image) - Size(base) <= Allowance(b.growth, Size(base))
                    /\ matchingPlatforms(base, image)
<1> DEFINE now == Size(image)
           old == Size(base)
<1>1. now \in Int /\ old \in Int
  BY CommandAssumption, ImageBytes DEF IsImage
<1>2. /\ b.max.kind \in {"none", "bytes"} /\ b.max.num \in Nat /\ b.max.den \in Nat \ {0}
      /\ b.growth.kind \in {"none", "bytes", "percent"}
      /\ b.growth.num \in Nat /\ b.growth.den \in Nat \ {0}
  BY DEF ParseError, IsQuantity
<1>3. V!KeepsSizes(flags, file, image, base)
      <=> /\ b.max.kind # "none" => now * b.max.den <= b.max.num
          /\ b.growth.kind = "bytes" => (now - old) * b.growth.den <= b.growth.num
          /\ b.growth.kind = "percent" => (now - old) * b.growth.den <= b.growth.num * old
          /\ b.growth.kind # "none" => image.platform = base.platform /\ image.platform # ""
  BY DEF V!KeepsSizes
<1> HIDE DEF now, old
<1>4. now <= b.max.num \div b.max.den <=> now * b.max.den <= b.max.num
  BY <1>1, <1>2, Rounding
<1>5. now - old <= b.growth.num \div b.growth.den <=> (now - old) * b.growth.den <= b.growth.num
  <2>1. now - old \in Int
    BY <1>1
  <2> QED
    BY <1>2, <2>1, Rounding
<1>6. now - old <= (b.growth.num * old) \div b.growth.den
      <=> (now - old) * b.growth.den <= b.growth.num * old
  <2>1. now - old \in Int /\ b.growth.num * old \in Int
    BY <1>1, <1>2
  <2> QED
    BY <1>2, <2>1, Rounding
<1>7. b.growth.kind # "none" =>
        (now - old <= Allowance(b.growth, old)
         <=> /\ b.growth.kind = "bytes" => (now - old) * b.growth.den <= b.growth.num
             /\ b.growth.kind = "percent" => (now - old) * b.growth.den <= b.growth.num * old)
  <2>1. CASE b.growth.kind = "bytes"
    <3>1. Allowance(b.growth, old) = b.growth.num \div b.growth.den
      BY <2>1 DEF Allowance
    <3> QED
      BY <2>1, <3>1, <1>5
  <2>2. CASE b.growth.kind = "percent"
    <3>1. Allowance(b.growth, old) = (b.growth.num * old) \div b.growth.den
      BY <2>2 DEF Allowance
    <3> QED
      BY <2>2, <3>1, <1>6
  <2> QED
    BY <1>2, <2>1, <2>2
<1>8. matchingPlatforms(base, image) <=> image.platform = base.platform /\ image.platform # ""
  BY DEF matchingPlatforms
<1>9. V!KeepsSizes(flags, file, image, base)
      <=> /\ b.max.kind # "none" => now <= b.max.num \div b.max.den
          /\ b.growth.kind # "none" => now - old <= Allowance(b.growth, old)
          /\ b.growth.kind # "none" => matchingPlatforms(base, image)
  BY Zenon, <1>2, <1>3, <1>4, <1>7, <1>8
<1> QED
  BY Zenon, <1>9 DEF now, old

-----------------------------------------------------------------------------
(* Floats *)

\* What the constants of the floats are.
LEMMA Constants ==
  /\ Unit \in Nat \ {0} /\ Ulp \in Nat \ {0} /\ One \in Nat \ {0} /\ Decimals \in Nat \ {0}
  /\ One = Unit * Ulp /\ 10 * (Decimals * Ulp) <= One
<1>1. Unit \in Nat \ {0} /\ Ulp \in Nat \ {0} /\ Decimals \in Nat \ {0} /\ 10 * Decimals <= Unit
  <2>1. /\ Unit \in Nat /\ Ulp \in Gaps /\ Gaps \subseteq Nat \ {0}
        /\ Decimals \in Nat \ {0} /\ 10 * Decimals <= Unit
    BY Zenon, FloatAssumption
  <2> QED
    BY <2>1
<1>2. One = Unit * Ulp
  BY DEF One
<1>3. One \in Nat \ {0}
  BY <1>1, <1>2
<1>4. (10 * Decimals) * Ulp <= Unit * Ulp
  BY <1>1
<1>5. (10 * Decimals) * Ulp = 10 * (Decimals * Ulp)
  BY <1>1
<1> QED
  BY <1>1, <1>2, <1>3, <1>4, <1>5

\* The nearest whole number is off by a half at most, and no bound is passed.
LEMMA Nearest ==
  ASSUME NEW n \in Nat, NEW d \in Nat \ {0}
  PROVE  LET k == NearestEven(n, d)
         IN  /\ k \in Nat
             /\ 2 * n - d <= 2 * (d * k) /\ 2 * (d * k) <= 2 * n + d
             /\ \A m \in Nat : n <= d * m => k <= m
<1> DEFINE q == n \div d
           r == n % d
           k == NearestEven(n, d)
<1>1. n = d * q + r /\ r \in 0..(d - 1) /\ q \in Nat
  OBVIOUS
<1>2. k = (IF 2 * r > d \/ (2 * r = d /\ q % 2 = 1) THEN q + 1 ELSE q)
  BY DEF NearestEven
<1> HIDE DEF q, r, k
<1>3. d * q \in Nat /\ d * (q + 1) = d * q + d
  BY <1>1
<1>4. k \in Nat /\ ((k = q /\ 2 * r <= d) \/ (k = q + 1 /\ 2 * r >= d))
  <2>1. CASE 2 * r > d
    BY <1>1, <1>2, <2>1
  <2>2. CASE 2 * r <= d
    BY <1>1, <1>2, <2>2
  <2> QED
    BY <1>1, <2>1, <2>2
<1>5. 2 * n - d <= 2 * (d * k) /\ 2 * (d * k) <= 2 * n + d
  <2>1. CASE k = q /\ 2 * r <= d
    BY <1>1, <1>3, <2>1
  <2>2. CASE k = q + 1 /\ 2 * r >= d
    BY <1>1, <1>3, <2>2
  <2> QED
    BY <1>4, <2>1, <2>2
<1>6. ASSUME NEW m \in Nat, n <= d * m PROVE k <= m
  <2>1. q <= m
    <3>1. SUFFICES ASSUME q >= m + 1 PROVE FALSE
      BY <1>1
    <3>2. d * q >= d * (m + 1) /\ d * (m + 1) = d * m + d
      BY <1>1, <3>1
    <3> QED
      BY <1>1, <1>6, <3>2
  <2>2. CASE q = m
    <3>1. r = 0
      BY <1>1, <1>6, <2>2
    <3> QED
      BY <1>2, <2>2, <3>1
  <2>3. CASE q # m
    BY <1>1, <1>4, <2>1, <2>3
  <2> QED
    BY <2>2, <2>3
<1> QED
  BY <1>4, <1>5, <1>6 DEF k

\* The gap at a number that is within the range of one.
LEMMA SpacingIs ==
  ASSUME NEW n \in Nat, NEW d \in Nat \ {0}, NEW g \in Gaps, n * One <= g * Unit * d
  PROVE  LET s == Spacing(n, d)
         IN  s \in Gaps /\ s \in Nat \ {0} /\ n * One <= s * Unit * d /\ s <= g
<1> DEFINE enough == {gap \in Gaps : n * One <= gap * Unit * d}
<1>1. g \in enough /\ enough \subseteq Nat
  BY FloatAssumption
<1>2. \E gap \in enough : \A other \in enough : gap <= other
  <2> HIDE DEF enough
  <2> QED
    BY <1>1, LeastNat
<1>3. Spacing(n, d) \in enough /\ \A other \in enough : Spacing(n, d) <= other
  BY <1>2 DEF Spacing
<1> QED
  BY <1>1, <1>3, FloatAssumption

\* A float is off by half the gap at most.
LEMMA FloatIs ==
  ASSUME NEW n \in Nat, NEW d \in Nat \ {0}, NEW g \in Gaps, n * One <= g * Unit * d
  PROVE  LET f == Float(n, d)
         IN  /\ f \in Nat /\ f <= g * Unit
             /\ 2 * (n * One) - d * g <= 2 * (d * f) /\ 2 * (d * f) <= 2 * (n * One) + d * g
<1> DEFINE s == Spacing(n, d)
           k == NearestEven(n * One, d * s)
           f == Float(n, d)
<1>1. s \in Nat \ {0} /\ n * One <= s * Unit * d /\ s <= g /\ g \in Nat \ {0}
  BY SpacingIs, FloatAssumption
<1>2. f = s * k
  BY DEF Float
<1> HIDE DEF s
<1>3. n * One \in Nat /\ d * s \in Nat \ {0} /\ Unit \in Nat
  BY <1>1, Constants
<1>4. /\ k \in Nat /\ \A m \in Nat : n * One <= (d * s) * m => k <= m
      /\ 2 * (n * One) - d * s <= 2 * ((d * s) * k) /\ 2 * ((d * s) * k) <= 2 * (n * One) + d * s
  BY <1>3, Nearest
<1> HIDE DEF k, f
<1>5. k <= Unit
  <2>1. s * Unit * d = (d * s) * Unit
    BY <1>1, <1>3
  <2> QED
    BY <1>1, <1>3, <1>4, <2>1
<1>6. f \in Nat /\ f <= g * Unit
  <2>1. s * k <= s * Unit /\ s * Unit <= g * Unit
    BY <1>1, <1>3, <1>4, <1>5
  <2> QED
    BY <1>1, <1>2, <1>3, <1>4, <2>1
<1>7. (d * s) * k = d * f
  BY <1>1, <1>2, <1>4
<1>8. d * s <= d * g /\ d * s \in Nat /\ d * g \in Nat
  BY <1>1
<1>9. d * f \in Nat
  BY <1>6
<1>10. 2 * (n * One) - d * g <= 2 * (d * f) /\ 2 * (d * f) <= 2 * (n * One) + d * g
  BY <1>3, <1>4, <1>7, <1>8, <1>9
<1> QED
  BY <1>6, <1>10 DEF f

\* A share is off by half an ulp at most, and no share is above 1.
LEMMA ShareIs ==
  ASSUME NEW n \in Nat, NEW d \in Nat \ {0}, n <= d
  PROVE  LET f == Float(n, d)
         IN  /\ f \in 0..One
             /\ 2 * (n * One) - d * Ulp <= 2 * (d * f) /\ 2 * (d * f) <= 2 * (n * One) + d * Ulp
<1>1. n * One <= d * One /\ d * One = Ulp * Unit * d
  BY Constants
<1>2. Ulp \in Gaps /\ Ulp * Unit = One
  BY FloatAssumption, Constants
<1> QED
  BY <1>1, <1>2, FloatIs

\* What is rounded to a float of its own is off by half an ulp at most.
LEMMA AgainIs ==
  ASSUME NEW n \in 0..One
  PROVE  LET f == Float(n, One)
         IN  f \in 0..One /\ 2 * n - Ulp <= 2 * f /\ 2 * f <= 2 * n + Ulp
<1> DEFINE f == Float(n, One)
<1>1. /\ f \in 0..One
      /\ 2 * (n * One) - One * Ulp <= 2 * (One * f) /\ 2 * (One * f) <= 2 * (n * One) + One * Ulp
  <2>1. n \in Nat /\ n <= One /\ One \in Nat \ {0}
    BY Constants
  <2> QED
    BY <2>1, ShareIs
<1> HIDE DEF f
<1>2. /\ 2 * (n * One) - One * Ulp = One * (2 * n - Ulp) /\ 2 * (One * f) = One * (2 * f)
      /\ 2 * (n * One) + One * Ulp = One * (2 * n + Ulp)
  BY <1>1, Constants
<1>3. \A a, b \in Int : One * a <= One * b => a <= b
  BY Constants
<1>4. 2 * n - Ulp \in Int /\ 2 * f \in Int /\ 2 * n + Ulp \in Int
  BY <1>1, Constants
<1>5. 2 * n - Ulp <= 2 * f /\ 2 * f <= 2 * n + Ulp
  BY <1>1, <1>2, <1>3, <1>4
<1> QED
  BY <1>1, <1>5 DEF f

\* A fraction that is extended has the same float.
LEMMA SameFloat ==
  ASSUME NEW n \in Nat, NEW d \in Nat \ {0}, NEW c \in Nat \ {0}, n <= d
  PROVE  Float(c * n, c * d) = Float(n, d)
<1>1. \A a, b \in Int : c * a <= c * b <=> a <= b
  OBVIOUS
<1>2. Spacing(c * n, c * d) = Spacing(n, d)
  <2>1. \A gap \in Gaps : (c * n) * One <= gap * Unit * (c * d) <=> n * One <= gap * Unit * d
    <3> TAKE gap \in Gaps
    <3>1. gap \in Nat /\ One \in Nat /\ Unit \in Nat
      BY FloatAssumption, Constants
    <3>2. (c * n) * One = c * (n * One) /\ gap * Unit * (c * d) = c * (gap * Unit * d)
      BY <3>1
    <3>3. n * One \in Int /\ gap * Unit * d \in Int
      BY <3>1
    <3> QED
      BY <1>1, <3>2, <3>3
  <2>2. {gap \in Gaps : (c * n) * One <= gap * Unit * (c * d)}
          = {gap \in Gaps : n * One <= gap * Unit * d}
    BY <2>1
  <2> QED
    BY Zenon, <2>2 DEF Spacing
<1> DEFINE s == Spacing(n, d)
<1>3. s \in Nat \ {0}
  <2>1. n * One <= Ulp * Unit * d
    BY Constants
  <2> QED
    BY <2>1, FloatAssumption, SpacingIs
<1>4. Float(c * n, c * d) = s * NearestEven((c * n) * One, (c * d) * s)
      /\ Float(n, d) = s * NearestEven(n * One, d * s)
  BY Zenon, <1>2 DEF Float
<1> HIDE DEF s
<1> DEFINE a == n * One
           b == d * s
<1>5. a \in Nat /\ b \in Nat \ {0}
  BY <1>3, Constants
<1>6. (c * n) * One = c * a /\ (c * d) * s = c * b
  BY <1>3, Constants
<1> HIDE DEF a, b
<1>7. NearestEven(c * a, c * b) = NearestEven(a, b)
  <2> DEFINE q == a \div b
             r == a % b
  <2>1. a = b * q + r /\ r \in 0..(b - 1) /\ q \in Nat
    BY <1>5
  <2>2. (c * a) \div (c * b) = q /\ (c * a) % (c * b) = c * r
    <3>1. c * a = (c * b) * q + c * r /\ c * r \in Nat /\ c * b \in Nat \ {0} /\ c * a \in Nat
      <4> HIDE DEF q, r
      <4>1. c * (b * q + r) = (c * b) * q + c * r
        BY <1>5, <2>1
      <4>2. c * r \in Nat /\ c * b \in Nat \ {0} /\ c * a \in Nat
        BY <1>5, <2>1
      <4> QED
        BY <2>1, <4>1, <4>2
    <3>2. c * r < c * b
      BY <1>5, <2>1
    <3> DEFINE x == c * a
               y == c * b
               z == c * r
    <3> HIDE DEF x, y, z
    <3>3. \A Q, R \in Int : x = y * Q + R /\ 0 <= R /\ R < y => Q = x \div y /\ R = x % y
      <4>1. x \in Nat /\ y \in Nat \ {0}
        BY <3>1 DEF x, y
      <4> QED
        BY <4>1
    <3>4. x = y * q + z /\ z \in Nat /\ z < y
      BY <3>1, <3>2 DEF x, y, z
    <3> QED
      BY <2>1, <3>3, <3>4 DEF x, y, z
  <2>3. 2 * (c * r) > c * b <=> 2 * r > b
    <3>1. 2 * (c * r) = c * (2 * r)
      BY <2>1
    <3> QED
      BY <1>1, <1>5, <2>1, <3>1
  <2>4. 2 * (c * r) = c * b <=> 2 * r = b
    <3>1. 2 * (c * r) = c * (2 * r)
      BY <2>1
    <3> QED
      BY <1>1, <1>5, <2>1, <3>1
  <2> HIDE DEF q, r
  <2>5. NearestEven(a, b) = (IF 2 * r > b \/ (2 * r = b /\ q % 2 = 1) THEN q + 1 ELSE q)
    BY Zenon DEF NearestEven, q, r
  <2>6. NearestEven(c * a, c * b)
          = (IF 2 * (c * r) > c * b \/ (2 * (c * r) = c * b /\ q % 2 = 1) THEN q + 1 ELSE q)
    BY Zenon, <2>2 DEF NearestEven
  <2>7. CASE 2 * r > b \/ (2 * r = b /\ q % 2 = 1)
    BY Zenon, <2>3, <2>4, <2>5, <2>6, <2>7
  <2>8. CASE ~(2 * r > b \/ (2 * r = b /\ q % 2 = 1))
    BY Zenon, <2>3, <2>4, <2>5, <2>6, <2>8
  <2> QED
    BY <2>7, <2>8
<1> QED
  BY Zenon, <1>4, <1>6, <1>7 DEF a, b

\* What math.Round is off by.
LEMMA RoundIs ==
  ASSUME NEW n \in Nat, NEW d \in Nat \ {0}
  PROVE  LET k == Round(n, d)
         IN  k \in Nat /\ 2 * n - d < 2 * (d * k) /\ 2 * (d * k) <= 2 * n + d
<1> DEFINE k == Round(n, d)
           a == 2 * n + d
           b == 2 * d
           r == a % b
<1>1. a \in Nat /\ b \in Nat \ {0}
  OBVIOUS
<1>2. k = a \div b
  BY DEF Round
<1> HIDE DEF k, a, b
<1>3. a = b * k + r /\ r \in 0..(b - 1) /\ k \in Nat
  BY <1>1, <1>2
<1> HIDE DEF r
<1>4. b * k = 2 * (d * k) /\ d * k \in Nat
  BY <1>3 DEF b
<1>5. 2 * n - d < 2 * (d * k) /\ 2 * (d * k) <= 2 * n + d
  BY <1>3, <1>4 DEF a, b
<1> QED
  BY <1>3, <1>5 DEF k

\* Of what the shares of an image's bytes are taken: an image without bytes
\* is all live.
AllIn(image) == IF image.live + WastedBytes(image) = 0 THEN 1 ELSE image.live + WastedBytes(image)
LiveIn(image) == AllIn(image) - WastedBytes(image)

LEMMA AllBytes ==
  ASSUME NEW image \in Images
  PROVE  /\ AllIn(image) \in Nat \ {0} /\ LiveIn(image) \in Nat /\ WastedBytes(image) \in Nat
         /\ LiveIn(image) + WastedBytes(image) = AllIn(image)
         /\ image.live \in Nat
         /\ image.live + WastedBytes(image) # 0 =>
                AllIn(image) = image.live + WastedBytes(image) /\ LiveIn(image) = image.live
         /\ image.live + WastedBytes(image) = 0 => AllIn(image) = 1 /\ WastedBytes(image) = 0
<1>1. image.live \in Nat /\ WastedBytes(image) \in Nat
  BY CommandAssumption, ImageBytes DEF IsImage
<1> QED
  BY <1>1 DEF AllIn, LiveIn

\* A score is off by an ulp at most.
LEMMA ScoreIs ==
  ASSUME NEW image \in Images
  PROVE  LET S == Score(image)
             A == AllIn(image)
             L == LiveIn(image)
         IN  S \in 0..One /\ L * One - A * Ulp <= A * S /\ A * S <= L * One + A * Ulp
<1> DEFINE S == Score(image)
           A == AllIn(image)
           L == LiveIn(image)
           w == WastedBytes(image)
           q == Float(w, A)
<1>1. A \in Nat \ {0} /\ L \in Nat /\ w \in Nat /\ L + w = A /\ w <= A
  BY AllBytes
<1>2. One \in Nat \ {0} /\ Ulp \in Nat \ {0}
  BY Constants
<1>3. CASE image.live + w = 0
  <2>1. S = One /\ A = 1 /\ w = 0
    BY <1>3, AllBytes DEF Score
  <2> HIDE DEF S, A, L, w
  <2> QED
    BY <1>1, <1>2, <2>1 DEF S, A, L
<1>4. CASE image.live + w # 0
  <2>1. A = image.live + w
    BY <1>4 DEF AllIn
  <2>2. S = Float(One - q, One)
    BY <1>4, <2>1 DEF Score
  <2> HIDE DEF A, L, w
  <2>3. q \in 0..One /\ 2 * (w * One) - A * Ulp <= 2 * (A * q) /\ 2 * (A * q) <= 2 * (w * One) + A * Ulp
    BY <1>1, ShareIs
  <2> HIDE DEF S, q
  <2>4. S \in 0..One /\ 2 * (One - q) - Ulp <= 2 * S /\ 2 * S <= 2 * (One - q) + Ulp
    <3>1. One - q \in 0..One
      BY <1>2, <2>3
    <3> QED
      BY <2>2, <3>1, AgainIs
  <2>5. A * (2 * (One - q) - Ulp) <= A * (2 * S) /\ A * (2 * S) <= A * (2 * (One - q) + Ulp)
    BY <1>1, <1>2, <2>3, <2>4
  <2>6. /\ A * (2 * (One - q) - Ulp) = 2 * (A * One) - 2 * (A * q) - A * Ulp
        /\ A * (2 * (One - q) + Ulp) = 2 * (A * One) - 2 * (A * q) + A * Ulp
        /\ A * (2 * S) = 2 * (A * S)
    BY <1>1, <1>2, <2>3, <2>4
  <2>7. A * One = L * One + w * One
    BY <1>1, <1>2
  <2>8. A * One \in Int /\ A * q \in Int /\ A * Ulp \in Int /\ A * S \in Int /\ L * One \in Int /\ w * One \in Int
    BY <1>1, <1>2, <2>3, <2>4
  <2>9. L * One - A * Ulp <= A * S /\ A * S <= L * One + A * Ulp
    BY <2>3, <2>5, <2>6, <2>7, <2>8
  <2> QED
    BY <2>4, <2>9 DEF S, A, L
<1> QED
  BY <1>3, <1>4

\* Ulps are small beside a part in Decimals.
LEMMA Small ==
  ASSUME NEW A \in Nat
  PROVE  Decimals * (A * Ulp) \in Nat /\ A * One \in Nat /\ 10 * (Decimals * (A * Ulp)) <= A * One
<1>1. A * (10 * (Decimals * Ulp)) <= A * One
  BY Constants
<1>2. A * (10 * (Decimals * Ulp)) = 10 * (Decimals * (A * Ulp))
  BY Constants
<1> QED
  BY <1>1, <1>2, Constants

\* What is so many times One is as large as its factor.
LEMMA ByOne ==
  ASSUME NEW a \in Int, NEW b \in Int
  PROVE  (a * One <= b * One <=> a <= b) /\ (a * One < b * One <=> a < b)
BY Constants

\* The rule on the efficiency, against the exact share of live bytes.
LEMMA EfficiencyRule ==
  ASSUME NEW image \in Images, NEW p \in 0..100
  PROVE  LET A == AllIn(image)
             L == LiveIn(image)
         IN  IF Score(image) >= Float(p, 100)
             THEN Decimals * (100 * L) >= (p * Decimals - 100) * A
             ELSE Decimals * (100 * L) < (p * Decimals + 100) * A
<1> DEFINE A == AllIn(image)
           L == LiveIn(image)
           S == Score(image)
           t == Float(p, 100)
           D == Decimals
           u == A * Ulp
<1>1. A \in Nat \ {0} /\ L \in Nat
  BY AllBytes
<1>2. S \in Nat /\ L * One - u <= A * S /\ A * S <= L * One + u
  BY ScoreIs
<1>3. t \in Nat /\ 2 * (p * One) - 100 * Ulp <= 2 * (100 * t) /\ 2 * (100 * t) <= 2 * (p * One) + 100 * Ulp
  BY ShareIs
<1>4. One \in Nat \ {0} /\ Ulp \in Nat /\ D \in Nat \ {0}
  BY Constants
<1> HIDE DEF A, L, S, t
<1>5. D * u \in Nat /\ u \in Nat /\ A * One \in Nat /\ 10 * (D * u) <= A * One
  BY <1>1, <1>4, Small
<1> HIDE DEF D
<1>6. p * (A * One) - 50 * u <= 100 * (A * t) /\ 100 * (A * t) <= p * (A * One) + 50 * u
  <2>1. A * (2 * (p * One) - 100 * Ulp) <= A * (2 * (100 * t))
        /\ A * (2 * (100 * t)) <= A * (2 * (p * One) + 100 * Ulp)
    BY <1>1, <1>3, <1>4
  <2>2. /\ A * (2 * (p * One) - 100 * Ulp) = 2 * (p * (A * One)) - 100 * u
        /\ A * (2 * (p * One) + 100 * Ulp) = 2 * (p * (A * One)) + 100 * u
        /\ A * (2 * (100 * t)) = 200 * (A * t)
    BY <1>1, <1>3, <1>4
  <2>3. p * (A * One) \in Int /\ A * t \in Int
    BY <1>1, <1>3, <1>5
  <2> DEFINE pa == p * (A * One)
             ta == A * t
  <2>4. 2 * pa - 100 * u <= 200 * ta /\ 200 * ta <= 2 * pa + 100 * u
    BY Zenon, <2>1, <2>2
  <2> HIDE DEF u, pa, ta
  <2>5. pa - 50 * u <= 100 * ta /\ 100 * ta <= pa + 50 * u
    <3>1. pa \in Int /\ ta \in Int
      BY <2>3 DEF pa, ta
    <3> QED
      BY <1>5, <2>4, <3>1
  <2> QED
    BY Zenon, <2>5 DEF pa, ta
<1>7. /\ A * S \in Int /\ A * t \in Int /\ L * One \in Int /\ p * (A * One) \in Int
      /\ D * (L * One) \in Int /\ D * (p * (A * One)) \in Int
  BY <1>1, <1>2, <1>3, <1>4, <1>5
<1> HIDE DEF u
<1>8. /\ (D * (100 * L)) * One = 100 * (D * (L * One))
      /\ ((p * D - 100) * A) * One = D * (p * (A * One)) - 100 * (A * One)
      /\ ((p * D + 100) * A) * One = D * (p * (A * One)) + 100 * (A * One)
      /\ D * (100 * L) \in Int /\ (p * D - 100) * A \in Int /\ (p * D + 100) * A \in Int
  BY <1>1, <1>4
<1>9. CASE S >= t
  <2>1. A * S >= A * t
    BY <1>1, <1>2, <1>3, <1>9
  <2>2. 100 * (L * One) + 150 * u >= p * (A * One)
    BY <1>2, <1>5, <1>6, <1>7, <2>1
  <2>3. D * (100 * (L * One) + 150 * u) >= D * (p * (A * One))
    BY <1>4, <1>5, <1>7, <2>2
  <2>4. D * (100 * (L * One) + 150 * u) = 100 * (D * (L * One)) + 150 * (D * u)
    BY <1>4, <1>5, <1>7
  <2>5. (D * (100 * L)) * One >= ((p * D - 100) * A) * One
    BY <1>5, <1>7, <1>8, <2>3, <2>4
  <2>6. D * (100 * L) >= (p * D - 100) * A
    BY <1>8, <2>5, ByOne
  <2> QED
    BY <1>9, <2>6 DEF A, L, S, t, D
<1>10. CASE ~(S >= t)
  <2>1. A * S <= A * t
    BY <1>1, <1>2, <1>3, <1>10
  <2>2. 100 * (L * One) <= p * (A * One) + 150 * u
    BY <1>2, <1>5, <1>6, <1>7, <2>1
  <2>3. D * (100 * (L * One)) <= D * (p * (A * One) + 150 * u)
    BY <1>4, <1>5, <1>7, <2>2
  <2>4. D * (p * (A * One) + 150 * u) = D * (p * (A * One)) + 150 * (D * u)
        /\ D * (100 * (L * One)) = 100 * (D * (L * One))
    BY <1>4, <1>5, <1>7
  <2>5. A * One > 0
    BY <1>1, <1>4
  <2>6. (D * (100 * L)) * One < ((p * D + 100) * A) * One
    BY <1>5, <1>7, <1>8, <2>3, <2>4, <2>5
  <2>7. D * (100 * L) < (p * D + 100) * A
    BY <1>8, <2>6, ByOne
  <2> QED
    BY <1>10, <2>7 DEF A, L, S, t, D
<1> QED
  BY <1>9, <1>10

\* The rule on waste counts whole parts in Decimals.
LEMMA WasteCounted ==
  ASSUME NEW S \in 0..One, NEW p \in 0..100
  PROVE  LET x == Float(One - S, One)
             z == Round(Float(x * Decimals, One), One)
         IN  /\ x \in 0..One /\ 2 * (One - S) - Ulp <= 2 * x /\ 2 * x <= 2 * (One - S) + Ulp
             /\ z \in 0..Decimals
             /\ 4 * (x * Decimals) - 3 * One < 4 * (One * z) /\ 4 * (One * z) <= 4 * (x * Decimals) + 3 * One
             /\ Float(z, Decimals) <= Float(p, 100) <=> 100 * z <= p * Decimals
             /\ 100 * z > p * Decimals => 100 * z >= p * Decimals + 100
<1> DEFINE D == Decimals
           x == Float(One - S, One)
           y == Float(x * D, One)
           z == Round(y, One)
           c == D \div 100
           m == c * p
<1>1. /\ One \in Nat \ {0} /\ Ulp \in Nat \ {0} /\ D \in Nat \ {0} /\ One = Unit * Ulp
      /\ Unit \in Nat /\ 10 * (D * Ulp) <= One
  BY Constants
<1>2. x \in 0..One /\ 2 * (One - S) - Ulp <= 2 * x /\ 2 * x <= 2 * (One - S) + Ulp
  <2>1. One - S \in 0..One
    BY <1>1
  <2> QED
    BY <2>1, AgainIs
<1>3. PICK g \in Gaps : D * Ulp <= g
  BY Zenon, FloatAssumption
<1>4. g \in Nat \ {0} /\ 2 * g <= One
  BY FloatAssumption
<1>5. D % 100 = 0
  BY Zenon, FloatAssumption
<1> HIDE DEF D, x
<1>6. y \in Nat /\ 2 * (x * D) - g <= 2 * y /\ 2 * y <= 2 * (x * D) + g
  <2>1. x * D \in Nat
    BY <1>1, <1>2
  <2>2. (x * D) * One <= g * Unit * One
    <3>1. x * D <= One * D
      BY <1>1, <1>2
    <3>2. One * D = Unit * (D * Ulp)
      BY <1>1
    <3>3. Unit * (D * Ulp) <= Unit * g
      BY <1>1, <1>3, <1>4
    <3>4. x * D <= Unit * g
      BY <1>1, <1>4, <2>1, <3>1, <3>2, <3>3
    <3>5. (x * D) * One <= (Unit * g) * One
      BY <1>1, <1>4, <2>1, <3>4
    <3>6. (Unit * g) * One = g * Unit * One
      BY <1>1, <1>4
    <3> QED
      BY <3>5, <3>6
  <2>3. /\ y \in Nat
        /\ 2 * ((x * D) * One) - One * g <= 2 * (One * y)
        /\ 2 * (One * y) <= 2 * ((x * D) * One) + One * g
    BY <1>1, <2>1, <2>2, FloatIs
  <2> HIDE DEF y
  <2>4. /\ 2 * ((x * D) * One) - One * g = (2 * (x * D) - g) * One
        /\ 2 * (One * y) = (2 * y) * One
        /\ 2 * ((x * D) * One) + One * g = (2 * (x * D) + g) * One
    BY <1>1, <1>4, <2>1, <2>3
  <2>5. 2 * (x * D) - g \in Int /\ 2 * y \in Int /\ 2 * (x * D) + g \in Int
    BY <1>4, <2>1, <2>3
  <2>6. 2 * (x * D) - g <= 2 * y /\ 2 * y <= 2 * (x * D) + g
    BY <2>3, <2>4, <2>5, ByOne
  <2> QED
    BY <2>3, <2>6
<1> HIDE DEF y
<1>7. z \in Nat /\ 2 * y - One < 2 * (One * z) /\ 2 * (One * z) <= 2 * y + One
  BY <1>1, <1>6, RoundIs
<1> HIDE DEF z
<1>8. 4 * (x * D) - 3 * One < 4 * (One * z) /\ 4 * (One * z) <= 4 * (x * D) + 3 * One
  <2>1. x * D \in Nat /\ One * z \in Nat
    BY <1>1, <1>2, <1>7
  <2> QED
    BY <1>1, <1>4, <1>6, <1>7, <2>1
<1>9. z <= D
  <2>1. SUFFICES ASSUME z >= D + 1 PROVE FALSE
    BY <1>1, <1>7
  <2>2. One * z >= One * (D + 1) /\ One * (D + 1) = One * D + One /\ x * D <= One * D
    BY <1>1, <1>2, <1>7, <2>1
  <2>3. x * D \in Nat /\ One * z \in Nat /\ One * D \in Nat
    BY <1>1, <1>2, <1>7
  <2> QED
    BY <1>1, <1>8, <2>2, <2>3
<1>10. D = c * 100 /\ c \in Nat \ {0} /\ m \in Nat /\ m <= D /\ p * D = 100 * m
  <2>1. D = 100 * c /\ c \in Nat
    BY <1>1, <1>5
  <2> HIDE DEF c
  <2>2. c # 0
    BY <1>1, <2>1
  <2>3. m \in Nat /\ c * p <= c * 100
    BY <2>1
  <2>4. p * (100 * c) = 100 * (c * p)
    BY <2>1
  <2> QED
    BY <2>1, <2>2, <2>3, <2>4
<1>11. Float(p, 100) = Float(m, D)
  <2> HIDE DEF c
  <2>1. Float(c * p, c * 100) = Float(p, 100)
    BY <1>10, SameFloat
  <2> QED
    BY <1>10, <2>1
<1> HIDE DEF m, c
<1> DEFINE f(n) == Float(n, D)
<1>12. ASSUME NEW a \in 0..D
      PROVE  /\ f(a) \in Nat
             /\ 2 * (a * One) - D * Ulp <= 2 * (D * f(a)) /\ 2 * (D * f(a)) <= 2 * (a * One) + D * Ulp
  <2>1. a \in Nat /\ a <= D /\ D \in Nat \ {0}
    BY <1>1
  <2> QED
    BY <1>1, <2>1, ShareIs
<1> HIDE DEF f
<1>13. ASSUME NEW a \in 0..D, NEW b \in 0..D, a < b PROVE f(a) < f(b)
  <2>1. /\ f(a) \in Nat /\ 2 * (D * f(a)) <= 2 * (a * One) + D * Ulp
        /\ f(b) \in Nat /\ 2 * (b * One) - D * Ulp <= 2 * (D * f(b))
    BY <1>12
  <2>2. (a + 1) * One <= b * One /\ (a + 1) * One = a * One + One
    BY <1>1, <1>13
  <2>3. a * One \in Nat /\ b * One \in Nat /\ D * Ulp \in Nat /\ D * f(a) \in Nat /\ D * f(b) \in Nat
    BY <1>1, <2>1
  <2>4. D * f(a) < D * f(b)
    BY <1>1, <2>1, <2>2, <2>3
  <2> QED
    BY <1>1, <2>1, <2>4
<1>14. f(z) <= f(m) <=> z <= m
  <2>1. z \in 0..D /\ m \in 0..D
    BY <1>7, <1>9, <1>10, <1>1
  <2>2. f(z) \in Nat /\ f(m) \in Nat
    BY <1>12, <2>1
  <2>3. CASE z = m
    <3>1. f(z) = f(m)
      BY Zenon, <2>3
    <3>2. f(z) <= f(m)
      BY <2>2, <3>1
    <3>3. z <= m
      BY <1>1, <2>1, <2>3
    <3> QED
      BY Zenon, <3>2, <3>3
  <2>4. CASE z < m
    <3>1. f(z) < f(m)
      BY <1>13, <2>1, <2>4
    <3> QED
      BY <2>1, <2>2, <2>4, <3>1
  <2>5. CASE m < z
    <3>1. f(m) < f(z)
      BY <1>13, <2>1, <2>5
    <3> QED
      BY <2>1, <2>2, <2>5, <3>1
  <2> QED
    BY <2>1, <2>3, <2>4, <2>5
<1>15. /\ Float(z, D) <= Float(p, 100) <=> 100 * z <= p * D
       /\ 100 * z > p * D => 100 * z >= p * D + 100
  <2>1. (z <= m <=> 100 * z <= 100 * m) /\ (100 * z > 100 * m => 100 * z >= 100 * m + 100)
    BY <1>7, <1>10
  <2> QED
    BY <1>10, <1>11, <1>14, <2>1 DEF f
<1> QED
  BY <1>1, <1>2, <1>7, <1>8, <1>9, <1>15 DEF D, x, y, z

\* The rule on waste, against the exact share of wasted bytes.
LEMMA WasteRule ==
  ASSUME NEW image \in Images, NEW p \in 0..100
  PROVE  LET A == AllIn(image)
             w == WastedBytes(image)
             z == Round(Float(Float(One - Score(image), One) * Decimals, One), One)
         IN  IF Float(z, Decimals) <= Float(p, 100)
             THEN Decimals * (100 * w) <= (p * Decimals + 100) * A
             ELSE Decimals * (100 * w) > (p * Decimals) * A
<1> DEFINE A == AllIn(image)
           L == LiveIn(image)
           S == Score(image)
           w == WastedBytes(image)
           x == Float(One - S, One)
           z == Round(Float(x * Decimals, One), One)
           Fits == Float(z, Decimals) <= Float(p, 100)
           u == A * Ulp
           a == A * One
           b == w * One
           ax == A * x
           az == A * z
           D == Decimals
<1>1. A \in Nat \ {0} /\ L \in Nat /\ w \in Nat /\ L + w = A
  BY AllBytes
<1>2. S \in 0..One /\ L * One - u <= A * S /\ A * S <= L * One + u
  BY ScoreIs
<1>3. One \in Nat \ {0} /\ Ulp \in Nat /\ D \in Nat \ {0}
  BY Constants
<1> HIDE DEF S, A, L, w
<1>4. /\ x \in 0..One /\ 2 * (One - S) - Ulp <= 2 * x /\ 2 * x <= 2 * (One - S) + Ulp
      /\ z \in 0..D
      /\ 4 * (x * D) - 3 * One < 4 * (One * z) /\ 4 * (One * z) <= 4 * (x * D) + 3 * One
      /\ Fits <=> 100 * z <= p * D
      /\ 100 * z > p * D => 100 * z >= p * D + 100
  BY <1>2, WasteCounted
<1>5. D * u \in Nat /\ u \in Nat /\ a \in Nat /\ 10 * (D * u) <= a
  BY <1>1, <1>3, Small
<1> HIDE DEF x, z, Fits, D
<1>6. 2 * b - 3 * u <= 2 * ax /\ 2 * ax <= 2 * b + 3 * u /\ b \in Nat /\ ax \in Nat
  <2>1. A * (2 * (One - S) - Ulp) <= A * (2 * x) /\ A * (2 * x) <= A * (2 * (One - S) + Ulp)
    BY <1>1, <1>2, <1>3, <1>4
  <2>2. /\ A * (2 * (One - S) - Ulp) = 2 * a - 2 * (A * S) - u
        /\ A * (2 * (One - S) + Ulp) = 2 * a - 2 * (A * S) + u
        /\ A * (2 * x) = 2 * ax
    BY <1>1, <1>2, <1>3, <1>4
  <2>3. a = L * One + b
    BY <1>1, <1>3
  <2>4. A * S \in Int /\ L * One \in Int /\ b \in Nat /\ ax \in Nat
    BY <1>1, <1>2, <1>3, <1>4
  <2> HIDE DEF a, b, u, ax
  <2> QED
    BY <1>2, <1>5, <2>1, <2>2, <2>3, <2>4
<1>7. 4 * (D * ax) - 3 * a < 4 * (One * az) /\ 4 * (One * az) <= 4 * (D * ax) + 3 * a
  <2>1. A * (4 * (x * D) - 3 * One) < A * (4 * (One * z)) /\ A * (4 * (One * z)) <= A * (4 * (x * D) + 3 * One)
    BY <1>1, <1>3, <1>4
  <2>2. /\ A * (4 * (x * D) - 3 * One) = 4 * (D * ax) - 3 * a
        /\ A * (4 * (x * D) + 3 * One) = 4 * (D * ax) + 3 * a
        /\ A * (4 * (One * z)) = 4 * (One * az)
    BY <1>1, <1>3, <1>4
  <2> QED
    BY Zenon, <2>1, <2>2
<1>8. az \in Nat /\ a > 0
  BY <1>1, <1>3, <1>4
<1>9. /\ One * az = az * One /\ D * b = (D * w) * One /\ a = A * One
      /\ (D * w + A) * One = D * b + a /\ (D * w - A) * One = D * b - a
      /\ D * w \in Nat
  BY <1>1, <1>3, <1>8
<1>10. D * (2 * b - 3 * u) <= D * (2 * ax) /\ D * (2 * ax) <= D * (2 * b + 3 * u)
  <2> HIDE DEF b, u, ax
  <2> QED
    BY <1>3, <1>5, <1>6
<1>11. /\ D * (2 * b - 3 * u) = 2 * (D * b) - 3 * (D * u)
       /\ D * (2 * b + 3 * u) = 2 * (D * b) + 3 * (D * u)
       /\ D * (2 * ax) = 2 * (D * ax)
       /\ D * b \in Nat /\ D * ax \in Nat /\ One * az \in Nat
  <2> HIDE DEF b, u, ax, az
  <2> QED
    BY <1>3, <1>5, <1>6, <1>8
<1> HIDE DEF u, ax, b, a
<1>12. D * b - a < One * az /\ One * az < D * b + a
  BY <1>5, <1>7, <1>8, <1>10, <1>11
<1> HIDE DEF az
<1>13. D * w - A < az /\ az < D * w + A
  <2>1. (D * w - A) * One < az * One /\ az * One < (D * w + A) * One
    BY Zenon, <1>9, <1>12
  <2>2. D * w - A \in Int /\ D * w + A \in Int
    BY <1>1, <1>9
  <2> QED
    BY <1>8, <2>1, <2>2, ByOne
<1>14. D * (100 * w) = 100 * (D * w)
  BY <1>1, <1>3
<1>15. CASE Fits
  <2>1. A * (100 * z) <= A * (p * D)
    BY <1>1, <1>3, <1>4, <1>15
  <2>2. A * (100 * z) = 100 * az /\ A * (p * D) \in Nat /\ (p * D + 100) * A = A * (p * D) + 100 * A
    BY <1>1, <1>3, <1>4 DEF az
  <2>3. D * (100 * w) <= (p * D + 100) * A
    BY <1>1, <1>8, <1>9, <1>13, <1>14, <2>1, <2>2
  <2> QED
    BY <1>15, <2>3 DEF Fits, A, w, x, z, S, D
<1>16. CASE ~Fits
  <2>1. A * (p * D + 100) <= A * (100 * z)
    BY <1>1, <1>3, <1>4, <1>16
  <2>2. A * (100 * z) = 100 * az /\ A * (p * D) \in Nat /\ A * (p * D + 100) = A * (p * D) + 100 * A
        /\ (p * D) * A = A * (p * D)
    BY <1>1, <1>3, <1>4 DEF az
  <2>3. D * (100 * w) > (p * D) * A
    BY <1>1, <1>8, <1>9, <1>13, <1>14, <2>1, <2>2
  <2> QED
    BY <1>16, <2>3 DEF Fits, A, w, x, z, S, D
<1> QED
  BY <1>15, <1>16

\* A comparison gives a drop of the score as a reason, against the exact
\* shares of live bytes.
LEMMA DropReason ==
  ASSUME NEW image \in Images, NEW base \in Images
  PROVE  LET Drop == LiveIn(base) * AllIn(image) - LiveIn(image) * AllIn(base)
             both == AllIn(image) * AllIn(base)
         IN  IF Score(base) > Score(image)
                /\ Float(Score(base) - Score(image), One) > Float(1, Decimals)
             THEN Drop > 0 ELSE Decimals * Drop <= 2 * both
<1> DEFINE A == AllIn(image)
           L == LiveIn(image)
           S == Score(image)
           B == AllIn(base)
           M == LiveIn(base)
           T == Score(base)
           d == Float(T - S, One)
           e == Float(1, Decimals)
           D == Decimals
           c == A * B
           u == c * Ulp
           o == c * One
           Drop == M * A - L * B
           y == Drop * One
           g == c * (T - S)
<1>1. A \in Nat \ {0} /\ L \in Nat /\ B \in Nat \ {0} /\ M \in Nat
  BY AllBytes
<1>2. /\ S \in 0..One /\ L * One - A * Ulp <= A * S /\ A * S <= L * One + A * Ulp
      /\ T \in 0..One /\ M * One - B * Ulp <= B * T /\ B * T <= M * One + B * Ulp
  BY ScoreIs
<1>3. One \in Nat \ {0} /\ Ulp \in Nat /\ D \in Nat \ {0}
  BY Constants
<1>4. e \in Nat /\ 2 * One - D * Ulp <= 2 * (D * e) /\ 2 * (D * e) <= 2 * One + D * Ulp
  BY <1>3, ShareIs
<1>5. T > S => d \in Nat /\ 2 * (T - S) - Ulp <= 2 * d /\ 2 * d <= 2 * (T - S) + Ulp
  <2> HIDE DEF T, S
  <2>1. T > S => T - S \in 0..One
    BY <1>2, <1>3
  <2> QED
    BY <2>1, AgainIs
<1> HIDE DEF A, L, S, B, M, T, d, e
<1>6. c \in Nat \ {0}
  BY <1>1
<1>7. D * u \in Nat /\ u \in Nat /\ o \in Nat /\ 10 * (D * u) <= o
  <2> HIDE DEF c
  <2> QED
    BY <1>3, <1>6, Small
<1>8. Drop \in Int /\ y \in Int /\ g \in Int /\ o > 0
  BY <1>1, <1>2, <1>3, <1>6
<1>9. y - 2 * u <= g /\ g <= y + 2 * u
  <2>1. /\ B * (L * One - A * Ulp) <= B * (A * S) /\ B * (A * S) <= B * (L * One + A * Ulp)
        /\ A * (M * One - B * Ulp) <= A * (B * T) /\ A * (B * T) <= A * (M * One + B * Ulp)
    BY <1>1, <1>2, <1>3
  <2> DEFINE v == (L * B) * One
             w == (M * A) * One
             s == c * S
             t == c * T
  <2>2. /\ B * (L * One - A * Ulp) = v - u /\ B * (L * One + A * Ulp) = v + u
        /\ A * (M * One - B * Ulp) = w - u /\ A * (M * One + B * Ulp) = w + u
        /\ B * (A * S) = s /\ A * (B * T) = t
    BY <1>1, <1>2, <1>3
  <2>3. y = w - v /\ g = t - s
    BY <1>1, <1>2, <1>3
  <2>4. v \in Int /\ w \in Int /\ s \in Int /\ t \in Int
    BY <1>1, <1>2, <1>3
  <2> HIDE DEF v, w, s, t, u, y, g
  <2> QED
    BY <1>7, <2>1, <2>2, <2>3, <2>4
<1> DEFINE ce == c * e
<1>10. ce \in Nat /\ D * ce \in Nat /\ 2 * o - D * u <= 2 * (D * ce) /\ 2 * (D * ce) <= 2 * o + D * u
  <2>1. c * (2 * One - D * Ulp) <= c * (2 * (D * e)) /\ c * (2 * (D * e)) <= c * (2 * One + D * Ulp)
    <3> HIDE DEF c
    <3> QED
      BY <1>3, <1>4, <1>6
  <2>2. /\ c * (2 * One - D * Ulp) = 2 * o - D * u /\ c * (2 * One + D * Ulp) = 2 * o + D * u
        /\ c * (2 * (D * e)) = 2 * (D * ce) /\ ce \in Nat /\ D * ce \in Nat
    <3> HIDE DEF c
    <3> QED
      BY <1>3, <1>4, <1>6
  <2> QED
    BY Zenon, <2>1, <2>2
<1>11. (D * Drop) * One = D * y /\ (2 * c) * One = 2 * o /\ D * Drop \in Int /\ D * y \in Int
  <2> HIDE DEF c, Drop
  <2> QED
    BY <1>3, <1>6, <1>8
<1> DEFINE Reason == T > S /\ d > e
<1>12. CASE Reason
  <2>1. 2 * g >= 2 * ce - u
    <3>1. 2 * (T - S) >= 2 * e - Ulp
      BY <1>2, <1>3, <1>4, <1>5, <1>12
    <3>2. c * (2 * (T - S)) >= c * (2 * e - Ulp)
      <4> HIDE DEF c
      <4> QED
        BY <1>2, <1>3, <1>4, <1>6, <3>1
    <3>3. c * (2 * (T - S)) = 2 * g /\ c * (2 * e - Ulp) = 2 * ce - u
      <4> HIDE DEF c
      <4> QED
        BY <1>2, <1>3, <1>4, <1>6
    <3> QED
      BY Zenon, <3>2, <3>3
  <2> HIDE DEF u, o, y, g, ce, c
  <2>2. 2 * y >= 2 * ce - 5 * u
    BY <1>7, <1>8, <1>9, <1>10, <2>1
  <2>3. D * (2 * y) >= D * (2 * ce - 5 * u)
    BY <1>3, <1>7, <1>8, <1>10, <2>2
  <2>4. D * (2 * y) = 2 * (D * y) /\ D * (2 * ce - 5 * u) = 2 * (D * ce) - 5 * (D * u)
    BY <1>3, <1>7, <1>8, <1>10
  <2>5. D * y > 0
    BY <1>7, <1>8, <1>10, <1>11, <2>3, <2>4
  <2>6. y > 0
    BY <1>3, <1>8, <2>5
  <2>7. Drop > 0
    <3>1. 0 * One < Drop * One
      BY <1>3, <2>6 DEF y
    <3> HIDE DEF Drop
    <3> QED
      BY <1>8, <3>1, ByOne
  <2> QED
    BY <1>12, <2>7 DEF A, L, S, B, M, T, d, e, D
<1>13. CASE ~Reason
  <2>1. 2 * g <= 2 * ce + u
    <3>1. 2 * (T - S) <= 2 * e + Ulp
      <4>1. CASE T > S
        BY <1>2, <1>3, <1>4, <1>5, <1>13, <4>1
      <4>2. CASE ~(T > S)
        BY <1>2, <1>3, <1>4, <4>2
      <4> QED
        BY <4>1, <4>2
    <3>2. c * (2 * (T - S)) <= c * (2 * e + Ulp)
      <4> HIDE DEF c
      <4> QED
        BY <1>2, <1>3, <1>4, <1>6, <3>1
    <3>3. c * (2 * (T - S)) = 2 * g /\ c * (2 * e + Ulp) = 2 * ce + u
      <4> HIDE DEF c
      <4> QED
        BY <1>2, <1>3, <1>4, <1>6
    <3> QED
      BY Zenon, <3>2, <3>3
  <2> HIDE DEF u, o, y, g, ce, c
  <2>2. 2 * y <= 2 * ce + 5 * u
    BY <1>7, <1>8, <1>9, <1>10, <2>1
  <2>3. D * (2 * y) <= D * (2 * ce + 5 * u)
    BY <1>3, <1>7, <1>8, <1>10, <2>2
  <2>4. D * (2 * y) = 2 * (D * y) /\ D * (2 * ce + 5 * u) = 2 * (D * ce) + 5 * (D * u)
    BY <1>3, <1>7, <1>8, <1>10
  <2>5. D * y <= 2 * o
    BY <1>7, <1>8, <1>10, <1>11, <2>3, <2>4
  <2>6. D * Drop <= 2 * c
    <3>1. (D * Drop) * One <= (2 * c) * One
      BY Zenon, <1>11, <2>5
    <3>2. 2 * c \in Int
      BY <1>6
    <3> HIDE DEF Drop
    <3> QED
      BY <1>11, <3>1, <3>2, ByOne
  <2> QED
    BY <1>13, <2>6 DEF A, L, S, B, M, T, d, e, D, c
<1> QED
  BY <1>12, <1>13

-----------------------------------------------------------------------------
(* Rules *)

\* Path rules pass when every result of every rule does.
LEMMA Passing ==
  ASSUME NEW R, NEW image
  PROVE  RulesPass(R, image) <=> \A rule \in R : \A r \in EvaluateRule(rule, image) : r.passed
BY DEF RulesPass, EvaluateRules

\* The thresholds that are checked are those that were asked for.
LEMMA ThresholdsAsked ==
  ASSUME NEW flags, NEW file, IsFile(file), ~LoadError(file), validateCLIThresholdFlags(flags),
         flags.lowestEfficiency \in Int, flags.highestWastedBytes \in Int,
         flags.highestUserWastedPercent \in Int,
         NEW c, c = LoadFrom(file).rules
  PROVE  /\ Effective(flags.lowestEfficiency, c.lowestEfficiency)
               = V!Threshold(flags.lowestEfficiency, file, "lowestEfficiency", 90)
         /\ Effective(flags.highestWastedBytes, c.highestWastedBytes)
               = V!Threshold(flags.highestWastedBytes, file, "highestWastedBytes", 0)
         /\ Effective(flags.highestUserWastedPercent, c.highestUserWastedPercent)
               = V!Threshold(flags.highestUserWastedPercent, file, "highestUserWastedPercent", 10)
         /\ Effective(flags.lowestEfficiency, c.lowestEfficiency) \in 0..100
         /\ Effective(flags.highestWastedBytes, c.highestWastedBytes) \in Nat
         /\ Effective(flags.highestUserWastedPercent, c.highestUserWastedPercent) \in 0..100
<1>1. flags.lowestEfficiency = NotGiven \/ flags.lowestEfficiency \in 0..100
  BY DEF validateCLIThresholdFlags, NotGiven
<1>2. flags.highestWastedBytes = NotGiven \/ flags.highestWastedBytes \in Nat
  BY DEF validateCLIThresholdFlags, NotGiven
<1>3. flags.highestUserWastedPercent = NotGiven \/ flags.highestUserWastedPercent \in 0..100
  BY DEF validateCLIThresholdFlags, NotGiven
<1>4. Default.rules = [lowestEfficiency |-> 90, highestWastedBytes |-> 0, highestUserWastedPercent |-> 10]
  BY DEF Default
<1>5. CASE file.content # "yaml" \/ file.rules.shape = "absent"
  <2>1. c = Default.rules
    BY <1>5 DEF LoadFrom, Default, decodeRules
  <2>2. c.lowestEfficiency = 90 /\ c.highestWastedBytes = 0 /\ c.highestUserWastedPercent = 10
    BY <1>4, <2>1
  <2>3. ~(file.content = "yaml" /\ file.rules.shape = "map")
    BY <1>5
  <2> QED
    BY <1>1, <1>2, <1>3, <2>2, <2>3 DEF Effective, V!Threshold, NotGiven, V!NotGiven
<1>6. CASE file.content = "yaml" /\ file.rules.shape # "absent"
  <2> DEFINE keys == file.rules.keys
  <2>1. file.rules.shape = "map" /\ validate(file, decodeRules(file.rules),
                  [max |-> file.budget.max, growth |-> file.budget.growth])
    BY <1>6 DEF LoadError, rulesError, IsFile
  <2>2. c = decodeRules(file.rules)
    BY <1>6 DEF LoadFrom
  <2>3. c = [f \in DOMAIN Default.rules |-> IF f \in DOMAIN keys THEN keys[f] ELSE Default.rules[f]]
    BY <2>1, <2>2 DEF decodeRules
  <2>4. /\ c.lowestEfficiency = (IF "lowestEfficiency" \in DOMAIN keys THEN keys["lowestEfficiency"] ELSE 90)
        /\ c.highestWastedBytes = (IF "highestWastedBytes" \in DOMAIN keys THEN keys["highestWastedBytes"] ELSE 0)
        /\ c.highestUserWastedPercent = (IF "highestUserWastedPercent" \in DOMAIN keys
                                         THEN keys["highestUserWastedPercent"] ELSE 10)
    BY <1>4, <2>3
  <2>5. \A key \in DOMAIN keys : keys[key] \in Int
    BY DEF IsFile
  <2>6. /\ c.lowestEfficiency \in 0..100 /\ c.highestUserWastedPercent \in 0..100
        /\ c.highestWastedBytes \in Nat
    <3>1. /\ c.lowestEfficiency \in 0..100 /\ c.highestUserWastedPercent \in 0..100
          /\ c.highestWastedBytes >= 0
      BY <2>1, <2>2 DEF validate
    <3>2. c.highestWastedBytes \in Int
      BY <2>4, <2>5
    <3> QED
      BY <3>1, <3>2
  <2> QED
    BY <1>1, <1>2, <1>3, <1>6, <2>1, <2>4, <2>6 DEF Effective, V!Threshold, NotGiven, V!NotGiven
<1> QED
  BY <1>5, <1>6

\* What a path limit asks of an image.
PathRuleKept(rule, image) ==
    /\ rule.type = "block" =>
           ~\E i \in DOMAIN image.written : \E n \in image.written[i] :
               n.path \in rule.paths /\ ~n.dir /\ ~n.whiteout
    /\ rule.type = "deny-waste" => DOMAIN image.wasted \cap rule.paths = {}
    /\ rule.type = "max-layer-count" /\ rule.count > 0 =>
           \A p \in DOMAIN image.wasted : image.wasted[p].layers <= rule.count

\* The results of one path rule pass when the image keeps the rule.
LEMMA PathRuleResults ==
  ASSUME NEW image \in Images, NEW rule, rule.type \in {"block", "deny-waste", "max-layer-count"},
         rule.type = "max-layer-count" => rule.count \in Nat \ {0}
  PROVE  (\A r \in EvaluateRule(rule, image) : r.passed) <=> PathRuleKept(rule, image)
<1>1. \A x, at1 : Result(rule, x, at1).passed = x
  BY DEF Result
<1>2. \A r \in Clean(rule) : r.passed
  BY <1>1 DEF Clean
<1>3. CASE rule.type = "block"
  <2> DEFINE hits(i) == {n \in image.written[i] : ~n.dir /\ ~n.whiteout /\ n.path \in rule.paths}
             results(i) == {Result(rule, FALSE, <<n.path, i>>) : n \in hits(i)}
             found == UNION {results(i) : i \in DOMAIN image.written}
  <2>1. EvaluateRule(rule, image) = IF found = {} THEN Clean(rule) ELSE found
    BY <1>3 DEF EvaluateRule, BlockPathRule
  <2>2. \A i : (\A r \in results(i) : ~r.passed) /\ (results(i) # {} <=> hits(i) # {})
    BY <1>1
  <2>3. \A i : hits(i) # {} <=> \E n \in image.written[i] :
               n.path \in rule.paths /\ ~n.dir /\ ~n.whiteout
    OBVIOUS
  <2> HIDE DEF hits, results
  <2>4. \A r \in found : ~r.passed
    BY <2>2
  <2>5. found # {} <=> \E i \in DOMAIN image.written : \E n \in image.written[i] :
               n.path \in rule.paths /\ ~n.dir /\ ~n.whiteout
    <3>1. found # {} <=> \E i \in DOMAIN image.written : results(i) # {}
      OBVIOUS
    <3> QED
      BY Zenon, <2>2, <2>3, <3>1
  <2>6. PathRuleKept(rule, image) <=> found = {}
    BY <1>3, <2>5 DEF PathRuleKept
  <2> HIDE DEF found
  <2> QED
    BY <1>2, <2>1, <2>4, <2>6
<1>4. CASE rule.type = "deny-waste"
  <2> DEFINE found == {p \in DOMAIN image.wasted : p \in rule.paths}
  <2>1. EvaluateRule(rule, image)
          = IF found = {} THEN Clean(rule) ELSE {Result(rule, FALSE, <<p>>) : p \in found}
    BY <1>4 DEF EvaluateRule, DenyWastePathRule
  <2>2. PathRuleKept(rule, image) <=> found = {}
    BY <1>4 DEF PathRuleKept
  <2> HIDE DEF found
  <2> QED
    BY <1>1, <1>2, <2>1, <2>2
<1>5. CASE rule.type = "max-layer-count"
  <2> DEFINE found == {p \in DOMAIN image.wasted : image.wasted[p].layers > rule.count}
  <2>1. EvaluateRule(rule, image)
          = IF found = {} THEN Clean(rule) ELSE {Result(rule, FALSE, <<p>>) : p \in found}
    BY <1>5 DEF EvaluateRule, MaxLayerCountRule
  <2>2. PathRuleKept(rule, image) <=> found = {}
    BY <1>5, CommandAssumption DEF PathRuleKept, IsImage
  <2> HIDE DEF found
  <2> QED
    BY <1>1, <1>2, <2>1, <2>2
<1> QED
  BY <1>3, <1>4, <1>5

\* The path rules that are checked are the path limits that were asked for.
LEMMA PathLimitsAsked ==
  ASSUME NEW image \in Images, NEW file, IsFile(file), ~LoadError(file),
         NEW R, R = LoadFrom(file).pathRules
  PROVE  /\ (\A rule \in R : \A r \in EvaluateRule(rule, image) : r.passed)
              <=> V!KeepsPathLimits(file, image)
         /\ R # {} => V!PathLimits(file) # {}
<1> DEFINE Kept(limits) == \A limit \in limits : PathRuleKept(limit, image)
           Sound(limit) == /\ limit.type \in {"block", "deny-waste", "max-layer-count"}
                           /\ limit.type = "max-layer-count" => limit.count \in Nat \ {0}
<1>1. V!KeepsPathLimits(file, image) <=> Kept(V!PathLimits(file))
  BY DEF V!KeepsPathLimits, PathRuleKept
<1>2. ASSUME \A rule \in R : Sound(rule)
      PROVE  (\A rule \in R : \A r \in EvaluateRule(rule, image) : r.passed) <=> Kept(R)
  BY <1>2, PathRuleResults
<1>3. CASE file.content # "yaml" \/ file.pathRules.shape \notin {"flat", "list"}
  <2>1. R = {} /\ V!PathLimits(file) = {}
    BY <1>3 DEF LoadFrom, Default, normalizePathRules, V!PathLimits
  <2> QED
    BY <1>1, <2>1
<1>4. CASE file.content = "yaml" /\ file.pathRules.shape = "list"
  <2> DEFINE entries == file.pathRules.entries
             Asked == {e \in ToSet(entries) : e.type = "max-layer-count" => e.count > 0}
  <2>1. ~listError(entries) /\ \A i \in DOMAIN entries : entries[i].count \in Int
    BY <1>4 DEF LoadError, pathRulesError, IsFile
  <2>2. \A e \in ToSet(entries) :
            /\ e.type \in {"block", "deny-waste", "max-layer-count"} /\ e.count \in Int
            /\ e.type = "max-layer-count" => e.count = 0 \/ e.count >= 2
    BY <2>1 DEF listError, validateMaxLayerCount, ToSet
  <2>3. Asked = {e \in ToSet(entries) : e.type # "max-layer-count" \/ e.count # 0}
    BY <2>2
  <2>4. R = {Spec1(e.id, e.type, e.paths, e.count) : e \in Asked}
    BY <1>4, <2>3 DEF LoadFrom, normalizePathRules, normalizeList
  <2>5. V!PathLimits(file) = Asked
    <3>1. V!ToSet(entries) = ToSet(entries)
      BY DEF V!ToSet, ToSet
    <3>2. V!PathLimits(file) = {e \in V!ToSet(entries) : e.type = "max-layer-count" => e.count > 0}
      BY <1>4 DEF V!PathLimits
    <3> QED
      BY <3>1, <3>2
  <2>6. \A e \in Asked : Sound(e)
    BY <2>2
  <2> HIDE DEF Asked
  <2>7. \A e \in Asked : LET rule == Spec1(e.id, e.type, e.paths, e.count)
                         IN  Sound(rule) /\ (PathRuleKept(rule, image) <=> PathRuleKept(e, image))
    BY <2>6 DEF Spec1, PathRuleKept
  <2>8. (\A rule \in R : Sound(rule)) /\ (Kept(R) <=> Kept(Asked)) /\ (R # {} => Asked # {})
    BY <2>4, <2>7
  <2> QED
    BY <1>1, <1>2, <2>5, <2>8
<1>5. CASE file.content = "yaml" /\ file.pathRules.shape = "flat"
  <2> DEFINE s == file.pathRules
             block == Spec1("block", "block", s.block.paths, 0)
             deny == Spec1("deny-waste", "deny-waste", s.denyWaste.paths, 0)
             most == Spec1("max-layer-count", "max-layer-count", {}, s.maxLayerCount)
             block1 == [type |-> "block", paths |-> s.block.paths]
             deny1 == [type |-> "deny-waste", paths |-> s.denyWaste.paths]
             most1 == [type |-> "max-layer-count", count |-> s.maxLayerCount]
  <2>1. s.maxLayerCount \in Nat /\ (s.maxLayerCount = 0 \/ s.maxLayerCount >= 2)
    BY <1>5 DEF LoadError, pathRulesError, flatError, validateMaxLayerCount, IsFile
  <2>2. R = (IF s.block.globs = "none" THEN {} ELSE {block})
            \cup (IF s.denyWaste.globs = "none" THEN {} ELSE {deny})
            \cup (IF s.maxLayerCount = 0 THEN {} ELSE {most})
    BY <1>5 DEF LoadFrom, normalizePathRules, normalizeFlat
  <2>3. V!PathLimits(file) = (IF s.block.globs = "none" THEN {} ELSE {block1})
            \cup (IF s.denyWaste.globs = "none" THEN {} ELSE {deny1})
            \cup (IF s.maxLayerCount = 0 THEN {} ELSE {most1})
    BY <1>5 DEF V!PathLimits
  <2>4. /\ Sound(block) /\ Sound(deny) /\ (s.maxLayerCount # 0 => Sound(most))
        /\ PathRuleKept(block, image) <=> PathRuleKept(block1, image)
        /\ PathRuleKept(deny, image) <=> PathRuleKept(deny1, image)
        /\ PathRuleKept(most, image) <=> PathRuleKept(most1, image)
    BY <2>1 DEF Spec1, PathRuleKept
  <2> HIDE DEF s, block, deny, most, block1, deny1, most1
  <2>5. (\A rule \in R : Sound(rule)) /\ (Kept(R) <=> Kept(V!PathLimits(file)))
        /\ (R # {} => V!PathLimits(file) # {})
    BY <2>2, <2>3, <2>4
  <2> QED
    BY <1>1, <1>2, <2>5
<1> QED
  BY <1>3, <1>4, <1>5

\* The rules pass only when the image keeps the thresholds and path limits that
\* were asked for, the shares within one part in Decimals, and fail only when
\* it does not keep those that are tighter by as much; there is a rule only
\* when there was a limit.
LEMMA RulesKept ==
  ASSUME NEW image \in Images, NEW flags, NEW file, IsFile(file), ~LoadError(file),
         validateCLIThresholdFlags(flags),
         flags.lowestEfficiency \in Int, flags.highestWastedBytes \in Int,
         flags.highestUserWastedPercent \in Int
  PROVE  LET R == buildRules(LoadFrom(file), flags)
         IN  /\ IF RulesPass(R, image)
                THEN V!KeepsThresholds(flags, file, image, 1) /\ V!KeepsPathLimits(file, image)
                ELSE ~(V!KeepsThresholds(flags, file, image, -1) /\ V!KeepsPathLimits(file, image))
             /\ R # {} => V!SomethingAsked(flags, file)
<1> DEFINE c == LoadFrom(file).rules
           efficiency == Effective(flags.lowestEfficiency, c.lowestEfficiency)
           bytes == Effective(flags.highestWastedBytes, c.highestWastedBytes)
           percent == Effective(flags.highestUserWastedPercent, c.highestUserWastedPercent)
           E == [type |-> "efficiency", percent |-> efficiency]
           B == [type |-> "wasted bytes", bytes |-> bytes]
           P == [type |-> "wasted percent", percent |-> percent]
           paths == LoadFrom(file).pathRules
           R == buildRules(LoadFrom(file), flags)
           D == Decimals
           live == image.live
           W == WastedBytes(image)
           all == live + W
           z == Round(Float(Float(One - Score(image), One) * Decimals, One), One)
           Passes(rule) == \A r \in EvaluateRule(rule, image) : r.passed
<1>1. /\ efficiency = V!Threshold(flags.lowestEfficiency, file, "lowestEfficiency", 90)
      /\ bytes = V!Threshold(flags.highestWastedBytes, file, "highestWastedBytes", 0)
      /\ percent = V!Threshold(flags.highestUserWastedPercent, file, "highestUserWastedPercent", 10)
      /\ efficiency \in 0..100 /\ bytes \in Nat /\ percent \in 0..100
  BY ThresholdsAsked
<1>2. R = (IF efficiency > 0 THEN {E} ELSE {}) \cup (IF bytes > 0 THEN {B} ELSE {})
          \cup (IF percent > 0 THEN {P} ELSE {}) \cup paths
  BY DEF buildRules
<1>3. /\ Passes(E) <=> Score(image) >= Float(efficiency, 100)
      /\ Passes(B) <=> W <= bytes
      /\ Passes(P) <=> Float(z, Decimals) <= Float(percent, 100)
  <2>1. /\ EvaluateRule(E, image) = {Result(E, Score(image) >= Float(E.percent, 100), <<>>)}
        /\ EvaluateRule(B, image) = {Result(B, W <= B.bytes, <<>>)}
        /\ EvaluateRule(P, image) = {Result(P, Float(z, Decimals) <= Float(P.percent, 100), <<>>)}
    BY DEF EvaluateRule, LowestEfficiency, HighestWastedBytes, HighestUserWastedPercent
  <2>2. E.percent = efficiency /\ B.bytes = bytes /\ P.percent = percent
    OBVIOUS
  <2>3. /\ Passes(E) <=> Score(image) >= Float(E.percent, 100)
        /\ Passes(B) <=> W <= B.bytes
        /\ Passes(P) <=> Float(z, Decimals) <= Float(P.percent, 100)
    <3>1. /\ Result(E, Score(image) >= Float(E.percent, 100), <<>>).passed
                 = (Score(image) >= Float(E.percent, 100))
          /\ Result(B, W <= B.bytes, <<>>).passed = (W <= B.bytes)
          /\ Result(P, Float(z, Decimals) <= Float(P.percent, 100), <<>>).passed
                 = (Float(z, Decimals) <= Float(P.percent, 100))
      BY DEF Result
    <3> HIDE DEF E, B, P, W, z
    <3> QED
      BY Zenon, <2>1, <3>1
  <2> HIDE DEF efficiency, bytes, percent, E, B, P, W, z, Passes
  <2> QED
    BY Zenon, <2>2, <2>3
<1>4. live \in Nat /\ W \in Nat /\ D \in Nat \ {0}
  BY AllBytes, Constants
<1>5. ASSUME NEW slack \in Int
      PROVE  V!KeepsThresholds(flags, file, image, slack)
             <=> /\ efficiency > 0 => D * (100 * live) >= (efficiency * D - slack * 100) * all
                 /\ percent > 0 => D * (100 * (all - live))
                                      <= (percent * D + (IF slack > 0 THEN slack * 100 ELSE 0)) * all
                 /\ bytes > 0 => all - live <= bytes
  BY <1>1 DEF V!KeepsThresholds
<1>6. (\A rule \in paths : Passes(rule)) <=> V!KeepsPathLimits(file, image)
  BY PathLimitsAsked
<1>7. paths # {} => V!PathLimits(file) # {}
  BY PathLimitsAsked
<1>8. /\ Passes(E) => D * (100 * live) >= (efficiency * D - 100) * all
      /\ ~Passes(E) => D * (100 * live) < (efficiency * D + 100) * all
  <2>1. IF Score(image) >= Float(efficiency, 100)
        THEN D * (100 * LiveIn(image)) >= (efficiency * D - 100) * AllIn(image)
        ELSE D * (100 * LiveIn(image)) < (efficiency * D + 100) * AllIn(image)
    BY <1>1, EfficiencyRule
  <2>2. CASE all # 0
    <3>1. AllIn(image) = all /\ LiveIn(image) = live
      BY <2>2, AllBytes
    <3> HIDE DEF efficiency, D, live, all, E, Passes
    <3> QED
      BY <1>3, <2>1, <3>1
  <2>3. CASE all = 0
    <3>1. live = 0 /\ Score(image) = One
      BY <1>4, <2>3 DEF Score
    <3>2. Float(efficiency, 100) \in 0..One
      <4> HIDE DEF efficiency
      <4>1. efficiency \in Nat /\ efficiency <= 100
        BY <1>1
      <4> QED
        BY <4>1, ShareIs
    <3>3. Passes(E)
      <4> HIDE DEF efficiency, E, Passes
      <4>1. Score(image) >= Float(efficiency, 100)
        BY <3>1, <3>2, Constants
      <4> QED
        BY Zenon, <1>3, <4>1
    <3>4. D * (100 * live) = 0 /\ (efficiency * D - 100) * all = 0
      <4>1. efficiency * D - 100 \in Int /\ D \in Int
        <5> HIDE DEF efficiency, D
        <5> QED
          BY <1>1, <1>4
      <4> HIDE DEF efficiency, D, live, all
      <4> QED
        BY <2>3, <3>1, <4>1
    <3> HIDE DEF efficiency, D, live, all, E, Passes
    <3> QED
      BY <3>3, <3>4
  <2> QED
    BY <2>2, <2>3
<1>9. /\ Passes(P) => D * (100 * W) <= (percent * D + 100) * all
      /\ ~Passes(P) => D * (100 * W) > (percent * D) * all
  <2>1. IF Float(z, Decimals) <= Float(percent, 100)
        THEN D * (100 * W) <= (percent * D + 100) * AllIn(image)
        ELSE D * (100 * W) > (percent * D) * AllIn(image)
    <3> HIDE DEF percent
    <3> QED
      BY <1>1, WasteRule
  <2>2. CASE all # 0
    <3>1. AllIn(image) = all
      BY <2>2, AllBytes
    <3> HIDE DEF percent, D, W, all, P, z, Passes
    <3> QED
      BY <1>3, <2>1, <3>1
  <2>3. CASE all = 0
    <3>1. W = 0 /\ AllIn(image) = 1
      BY <2>3, AllBytes
    <3> HIDE DEF percent, D, W, all, P, z, Passes
    <3>2. D * (100 * W) = 0 /\ (percent * D + 100) * all = 0 /\ (percent * D) * 1 >= 0
      <4>1. percent * D \in Nat
        BY <1>1, <1>4
      <4> QED
        BY <1>4, <2>3, <3>1, <4>1
    <3>3. ~(D * (100 * W) > (percent * D) * AllIn(image))
      <4>1. percent * D \in Nat
        BY <1>1, <1>4
      <4> QED
        BY <3>1, <3>2, <4>1
    <3>4. Passes(P)
      BY Zenon, <1>3, <2>1, <3>3
    <3>5. D * (100 * W) <= (percent * D + 100) * all
      BY <3>2
    <3> QED
      BY Zenon, <3>4, <3>5
  <2> QED
    BY <2>2, <2>3
<1>10. all - live = W
  BY <1>4
<1> DEFINE Thresholds == /\ efficiency > 0 => Passes(E)
                         /\ percent > 0 => Passes(P)
                         /\ bytes > 0 => Passes(B)
<1> HIDE DEF efficiency, bytes, percent, E, B, P, paths, R, live, W, all, z, D, Passes
<1>11. Thresholds => V!KeepsThresholds(flags, file, image, 1)
  <2>1. V!KeepsThresholds(flags, file, image, 1)
        <=> /\ efficiency > 0 => D * (100 * live) >= (efficiency * D - 1 * 100) * all
            /\ percent > 0 => D * (100 * (all - live)) <= (percent * D + 1 * 100) * all
            /\ bytes > 0 => all - live <= bytes
    BY <1>5
  <2>2. 1 * 100 = 100
    OBVIOUS
  <2> QED
    BY Zenon, <1>3, <1>8, <1>9, <1>10, <2>1, <2>2
<1>12. V!KeepsThresholds(flags, file, image, -1) => Thresholds
  <2>1. V!KeepsThresholds(flags, file, image, -1)
        <=> /\ efficiency > 0 => D * (100 * live) >= (efficiency * D + 100) * all
            /\ percent > 0 => D * (100 * (all - live)) <= (percent * D) * all
            /\ bytes > 0 => all - live <= bytes
    <3>1. efficiency * D - (-1) * 100 = efficiency * D + 100 /\ percent * D + 0 = percent * D
      BY <1>1, <1>4
    <3>2. V!KeepsThresholds(flags, file, image, -1)
          <=> /\ efficiency > 0 => D * (100 * live) >= (efficiency * D - (-1) * 100) * all
              /\ percent > 0 => D * (100 * (all - live)) <= (percent * D + 0) * all
              /\ bytes > 0 => all - live <= bytes
      BY <1>5
    <3> QED
      BY Zenon, <3>1, <3>2
  <2> SUFFICES ASSUME V!KeepsThresholds(flags, file, image, -1) PROVE Thresholds
    OBVIOUS
  <2>2. D * (100 * live) \in Int /\ (efficiency * D + 100) * all \in Int
        /\ D * (100 * W) \in Int /\ (percent * D) * all \in Int
    BY <1>1, <1>4 DEF all
  <2>3. efficiency > 0 => Passes(E)
    <3>1. efficiency > 0 => D * (100 * live) >= (efficiency * D + 100) * all
      BY Zenon, <2>1
    <3> QED
      BY <1>8, <2>2, <3>1
  <2>4. percent > 0 => Passes(P)
    <3>1. percent > 0 => D * (100 * W) <= (percent * D) * all
      BY Zenon, <1>10, <2>1
    <3> QED
      BY <1>9, <2>2, <3>1
  <2> QED
    BY Zenon, <1>3, <1>10, <2>1, <2>3, <2>4
<1>13. RulesPass(R, image) <=> \A rule \in R : Passes(rule)
  BY Passing DEF Passes
<1>14. (\A rule \in R : Passes(rule)) <=> Thresholds /\ \A rule \in paths : Passes(rule)
  BY <1>2
<1>15. R # {} => V!SomethingAsked(flags, file)
  <2>1. R # {} => efficiency > 0 \/ bytes > 0 \/ percent > 0 \/ paths # {}
    BY <1>2
  <2> QED
    BY <1>1, <1>7, <2>1 DEF V!SomethingAsked
<1> HIDE DEF Thresholds
<1>16. CASE RulesPass(R, image)
  BY Zenon, <1>6, <1>11, <1>13, <1>14, <1>15, <1>16 DEF R
<1>17. CASE ~RulesPass(R, image)
  BY Zenon, <1>6, <1>12, <1>13, <1>14, <1>15, <1>17 DEF R
<1> QED
  BY <1>16, <1>17

\* What a comparison asks of the new image, in the words of the proofs.
LEMMA NotWorseIs ==
  ASSUME NEW image, NEW base, NEW slack
  PROVE  LET Drop == LiveIn(base) * AllIn(image) - LiveIn(image) * AllIn(base)
         IN  V!NotWorse(image, base, slack)
             <=> (image.layers # <<>> /\ base.layers # <<>> =>
                     /\ WastedBytes(image) <= WastedBytes(base)
                     /\ Decimals * Drop <= (1 + slack) * (AllIn(image) * AllIn(base)))
BY DEF V!NotWorse, AllIn, LiveIn

\* A comparison gives no reason only when the new image is not worse, within
\* one part in Decimals, and one only when it is worse than that allows.
LEMMA ReasonsKept ==
  ASSUME NEW image \in Images, NEW base \in Images
  PROVE  IF RegressionReasons(base, image) = {} THEN V!NotWorse(image, base, 1)
         ELSE ~V!NotWorse(image, base, -1)
<1> DEFINE w == WastedBytes(image)
           x == WastedBytes(base)
           both == AllIn(image) * AllIn(base)
           Drop == LiveIn(base) * AllIn(image) - LiveIn(image) * AllIn(base)
           Both == image.layers # <<>> /\ base.layers # <<>>
           Lower == /\ Score(base) > Score(image)
                    /\ Float(Score(base) - Score(image), One) > Float(1, Decimals)
<1>1. w \in Nat /\ x \in Nat /\ both \in Nat /\ Drop \in Int /\ Decimals \in Nat \ {0}
  BY AllBytes, Constants
<1>2. RegressionReasons(base, image) = {} <=> (Both => ~Lower /\ ~(w > x))
  BY DEF RegressionReasons
<1>3. /\ V!NotWorse(image, base, 1) <=> (Both => w <= x /\ Decimals * Drop <= (1 + 1) * both)
      /\ V!NotWorse(image, base, -1) <=> (Both => w <= x /\ Decimals * Drop <= (1 + -1) * both)
  BY Zenon, NotWorseIs
<1>4. IF Lower THEN Drop > 0 ELSE Decimals * Drop <= 2 * both
  BY DropReason
<1> HIDE DEF Both, Lower, Drop, both, w, x
<1>5. w > x <=> ~(w <= x)
  BY <1>1
<1>6. (1 + 1) * both = 2 * both /\ (1 + -1) * both = 0
  BY <1>1
<1>7. Drop > 0 => ~(Decimals * Drop <= 0)
  BY <1>1
<1>8. CASE Lower
  BY Zenon, <1>2, <1>3, <1>4, <1>5, <1>6, <1>7, <1>8
<1>9. CASE ~Lower
  BY Zenon, <1>2, <1>3, <1>4, <1>5, <1>6, <1>9
<1> QED
  BY <1>8, <1>9

-----------------------------------------------------------------------------
(* Steps *)

Errors == {NoError, Error("other"), Error("limits")} \cup {BuildFailed(n) : n \in EngineCodes}

\* What has been analysed and whose ID was read was named.
NamedInv ==
    /\ IsOptions(opts) /\ world \in Worlds
    /\ named \in [Sides -> SUBSET Images]
    /\ got \in [Sides -> Seq(Images)] /\ ids \in [Sides -> Seq(Images)]
    /\ \A side \in Sides :
          /\ world[side] \in named[side]
          /\ got[side] = <<>> \/ \E i \in named[side] : got[side] = <<i>>
          /\ ids[side] = <<>> \/ \E i \in named[side] : ids[side] = <<i>>

\* Where the last step is, and what the run is past.
Span == Len(Steps)
Did(s) == \E k \in 1..Span : k < at /\ Steps[k] = s
At(S) == ~Ended /\ Step \in S
JSONSteps == {"temp", "write", "rename"}

\* A run that has failed only exports what it has.
FlowInv ==
    /\ at \in 1..(Span + 1)
    /\ at = 1 => \A side \in Sides : got[side] = <<>> /\ ids[side] = <<>>
    /\ failed \in Errors
    /\ failed # NoError => Ended \/ At(JSONSteps)
    /\ failed.kind = "build" => opts.kind = "build"
    /\ warned => failed # NoError \/ (opts.kind = "build" /\ Ended)
    /\ got.image # <<>> => Did("analyzeImage")
    /\ At(JSONSteps) => got.image # <<>>
    /\ failed = NoError /\ ~warned /\ Did("analyzeImage") => got.image # <<>>
    /\ warned \in BOOLEAN

EndInv ==
    /\ code # Running => Ended /\ code = exitCodeFor(failed) /\ (opts.ref = "own" => idfile = "absent")

OptionsSound == cfg = LoadFrom(ConfigUsed) /\ ~OptionsError(ConfigUsed)
TwoSides == opts.kind = "compare" \/ opts.baseline

CheckInv ==
    opts.kind \in {"ci", "compare"} =>
        /\ failed = NoError =>
              /\ Did("options") => OptionsSound
              /\ Did("analyzeBaseline") => got.baseline # <<>>
              /\ Did("judge") => ~JudgeError
              /\ Did("report") => NoOp \/ Passed
        /\ failed.kind = "limits" =>
              /\ OptionsSound /\ got.image # <<>> /\ (TwoSides => got.baseline # <<>>)
              /\ ~JudgeError /\ ~Passed
              /\ ~report.passed /\ report.image = got.image

FileInv ==
    /\ out.whole
    /\ temp = IF At({"write"}) THEN "empty" ELSE IF At({"rename"}) THEN "whole" ELSE "none"

ExportInv ==
    opts.json /\ Ended =>
        /\ got.image # <<>> => Exported \/ warned
        /\ failed = NoError => Exported \/ (opts.kind = "build" /\ warned)

-----------------------------------------------------------------------------
(* The order of the steps *)

\* layerx ci with a baseline.
LEMMA GrowthSteps ==
  ASSUME opts.kind = "ci", opts.baseline = TRUE, opts.json \in BOOLEAN
  PROVE  /\ Span \in {7, 10} /\ (opts.json => Span = 10) /\ (~opts.json => Span = 7)
         /\ Steps[1] = "options"
         /\ Steps[2] = "analyzeImage"
         /\ Steps[3] = "analyzeBaseline"
         /\ Steps[4] = "idBaseline"
         /\ Steps[5] = "judge"
         /\ Steps[6] = "idImage"
         /\ Steps[7] = "report"
         /\ opts.json => Steps[8] = "temp" /\ Steps[9] = "write" /\ Steps[10] = "rename"
<1>1. CASE opts.json
  BY <1>1 DEF Steps, Span
<1>2. CASE ~opts.json
  BY <1>2 DEF Steps, Span
<1> QED
  BY <1>1, <1>2

\* layerx ci without one.
LEMMA CISteps ==
  ASSUME opts.kind = "ci", opts.baseline = FALSE, opts.json \in BOOLEAN
  PROVE  /\ Span \in {5, 8} /\ (opts.json => Span = 8) /\ (~opts.json => Span = 5)
         /\ Steps[1] = "options"
         /\ Steps[2] = "analyzeImage"
         /\ Steps[3] = "judge"
         /\ Steps[4] = "idImage"
         /\ Steps[5] = "report"
         /\ opts.json => Steps[6] = "temp" /\ Steps[7] = "write" /\ Steps[8] = "rename"
<1>1. CASE opts.json
  BY <1>1 DEF Steps, Span
<1>2. CASE ~opts.json
  BY <1>2 DEF Steps, Span
<1> QED
  BY <1>1, <1>2

\* layerx compare.
LEMMA CompareSteps ==
  ASSUME opts.kind = "compare"
  PROVE  /\ Span = 7
         /\ Steps[1] = "options" /\ Steps[2] = "analyzeBaseline" /\ Steps[3] = "idBaseline"
         /\ Steps[4] = "analyzeImage" /\ Steps[5] = "idImage" /\ Steps[6] = "judge"
         /\ Steps[7] = "report"
BY DEF Steps, Span

\* layerx build.
LEMMA BuildSteps ==
  ASSUME opts.kind = "build"
  PROVE  /\ Steps[1] = "engine" /\ Steps[2] = "built" /\ Steps[3] = "options"
         /\ ~opts.json => Span = 4 /\ Steps[4] = "viewer"
         /\ opts.json => /\ Span = 7 /\ Steps[4] = "analyzeImage" /\ Steps[5] = "temp"
                        /\ Steps[6] = "write" /\ Steps[7] = "rename"
<1>1. CASE opts.json
  BY <1>1 DEF Steps, Span
<1>2. CASE ~opts.json
  BY <1>2 DEF Steps, Span
<1> QED
  BY <1>1, <1>2

\* layerx on an image.
LEMMA InspectSteps ==
  ASSUME opts.kind = "inspect"
  PROVE  /\ Steps[1] = "options"
         /\ ~opts.json => Span = 2 /\ Steps[2] = "viewer"
         /\ opts.json => /\ Span = 5 /\ Steps[2] = "analyzeImage" /\ Steps[3] = "temp"
                        /\ Steps[4] = "write" /\ Steps[5] = "rename"
<1>1. CASE opts.json
  BY <1>1 DEF Steps, Span
<1>2. CASE ~opts.json
  BY <1>2 DEF Steps, Span
<1> QED
  BY <1>1, <1>2

\* A step that is at one place only is done once the run is past it.
LEMMA Placed ==
  ASSUME NEW s, NEW n \in 1..Span, Span \in Nat, at \in 1..(Span + 1),
         \A k \in 1..Span : Steps[k] = s <=> k = n
  PROVE  (Did(s) <=> n < at) /\ (~Ended /\ Step = s <=> at = n)
BY DEF Did, Ended, Step, Span

\* Where each step of a ci run with a baseline is.
LEMMA GrowthPlaces ==
  ASSUME opts.kind = "ci", opts.baseline = TRUE, opts.json \in BOOLEAN
  PROVE  \A k \in 1..Span :
            \/ k = 1 /\ Steps[k] = "options"
            \/ k = 2 /\ Steps[k] = "analyzeImage"
            \/ k = 3 /\ Steps[k] = "analyzeBaseline"
            \/ k = 4 /\ Steps[k] = "idBaseline"
            \/ k = 5 /\ Steps[k] = "judge"
            \/ k = 6 /\ Steps[k] = "idImage"
            \/ k = 7 /\ Steps[k] = "report"
            \/ k = 8 /\ Steps[k] = "temp"
            \/ k = 9 /\ Steps[k] = "write"
            \/ k = 10 /\ Steps[k] = "rename"
<1> TAKE k \in 1..Span
<1>1. CASE opts.json
  <2>1. k \in 1..10
    BY <1>1, GrowthSteps
  <2>2. k \in {1, 2, 3, 4, 5, 6, 7, 8, 9, 10}
    BY <2>1
  <2>3. /\ Steps[1] = "options" /\ Steps[2] = "analyzeImage" /\ Steps[3] = "analyzeBaseline"
          /\ Steps[4] = "idBaseline" /\ Steps[5] = "judge" /\ Steps[6] = "idImage"
          /\ Steps[7] = "report" /\ Steps[8] = "temp" /\ Steps[9] = "write"
          /\ Steps[10] = "rename"
    BY <1>1, GrowthSteps
  <2> QED
    BY <2>2, <2>3
<1>2. CASE ~opts.json
  <2>1. k \in 1..7
    BY <1>2, GrowthSteps
  <2>2. k \in {1, 2, 3, 4, 5, 6, 7}
    BY <2>1
  <2>3. /\ Steps[1] = "options" /\ Steps[2] = "analyzeImage" /\ Steps[3] = "analyzeBaseline"
          /\ Steps[4] = "idBaseline" /\ Steps[5] = "judge" /\ Steps[6] = "idImage"
          /\ Steps[7] = "report"
    BY GrowthSteps
  <2> QED
    BY <2>2, <2>3
<1> QED
  BY <1>1, <1>2

\* Where each step of a ci run without one is.
LEMMA CIPlaces ==
  ASSUME opts.kind = "ci", opts.baseline = FALSE, opts.json \in BOOLEAN
  PROVE  \A k \in 1..Span :
            \/ k = 1 /\ Steps[k] = "options"
            \/ k = 2 /\ Steps[k] = "analyzeImage"
            \/ k = 3 /\ Steps[k] = "judge"
            \/ k = 4 /\ Steps[k] = "idImage"
            \/ k = 5 /\ Steps[k] = "report"
            \/ k = 6 /\ Steps[k] = "temp"
            \/ k = 7 /\ Steps[k] = "write"
            \/ k = 8 /\ Steps[k] = "rename"
<1> TAKE k \in 1..Span
<1>1. CASE opts.json
  <2>1. k \in 1..8
    BY <1>1, CISteps
  <2>2. k \in {1, 2, 3, 4, 5, 6, 7, 8}
    BY <2>1
  <2>3. /\ Steps[1] = "options" /\ Steps[2] = "analyzeImage" /\ Steps[3] = "judge"
          /\ Steps[4] = "idImage" /\ Steps[5] = "report" /\ Steps[6] = "temp"
          /\ Steps[7] = "write" /\ Steps[8] = "rename"
    BY <1>1, CISteps
  <2> QED
    BY <2>2, <2>3
<1>2. CASE ~opts.json
  <2>1. k \in 1..5
    BY <1>2, CISteps
  <2>2. k \in {1, 2, 3, 4, 5}
    BY <2>1
  <2>3. /\ Steps[1] = "options" /\ Steps[2] = "analyzeImage" /\ Steps[3] = "judge"
          /\ Steps[4] = "idImage" /\ Steps[5] = "report"
    BY CISteps
  <2> QED
    BY <2>2, <2>3
<1> QED
  BY <1>1, <1>2

\* Where each step of a comparison is.
LEMMA ComparePlaces ==
  ASSUME opts.kind = "compare"
  PROVE  \A k \in 1..Span :
            \/ k = 1 /\ Steps[k] = "options"
            \/ k = 2 /\ Steps[k] = "analyzeBaseline"
            \/ k = 3 /\ Steps[k] = "idBaseline"
            \/ k = 4 /\ Steps[k] = "analyzeImage"
            \/ k = 5 /\ Steps[k] = "idImage"
            \/ k = 6 /\ Steps[k] = "judge"
            \/ k = 7 /\ Steps[k] = "report"
<1> TAKE k \in 1..Span
<1>1. k \in 1..7
  BY CompareSteps
<1> QED
  BY <1>1, CompareSteps

\* What a check has done at each of its steps.
LEMMA CheckOrder ==
  ASSUME IsOptions(opts), opts.kind \in {"ci", "compare"}, at \in 1..(Span + 1)
  PROVE  /\ Span \in Nat
         /\ ~At({"engine", "built", "viewer"})
         /\ At({"options"}) => ~Did("analyzeBaseline") /\ ~Did("judge") /\ ~Did("report")
         /\ At({"analyzeImage", "analyzeBaseline", "idBaseline"}) =>
                Did("options") /\ ~Did("judge") /\ ~Did("report")
         /\ At({"judge"}) =>
                /\ Did("options") /\ Did("analyzeImage") /\ (TwoSides => Did("analyzeBaseline"))
                /\ ~Did("report")
         /\ At({"idImage"}) => ~Did("report")
         /\ At({"report"}) \/ At(JSONSteps) \/ Ended =>
                /\ Did("options") /\ Did("analyzeImage") /\ (TwoSides => Did("analyzeBaseline"))
                /\ Did("judge")
         /\ At(JSONSteps) \/ Ended => Did("report")
<1>0. opts.json \in BOOLEAN /\ opts.baseline \in BOOLEAN
  BY DEF IsOptions
<1>1. CASE opts.kind = "ci" /\ opts.baseline = TRUE
  <2>1. Span \in {7, 10}
    BY <1>0, <1>1, GrowthSteps
  <2>2. Span \in Nat /\ Span >= 7
    BY <2>1
  <2>3. \A k \in 1..Span :
            \/ k = 1 /\ Steps[k] = "options"
            \/ k = 2 /\ Steps[k] = "analyzeImage"
            \/ k = 3 /\ Steps[k] = "analyzeBaseline"
            \/ k = 4 /\ Steps[k] = "idBaseline"
            \/ k = 5 /\ Steps[k] = "judge"
            \/ k = 6 /\ Steps[k] = "idImage"
            \/ k = 7 /\ Steps[k] = "report"
            \/ k = 8 /\ Steps[k] = "temp"
            \/ k = 9 /\ Steps[k] = "write"
            \/ k = 10 /\ Steps[k] = "rename"
    BY <1>0, <1>1, GrowthPlaces
  <2>4. /\ Did("options") <=> 1 < at
        /\ Did("analyzeImage") <=> 2 < at
        /\ Did("analyzeBaseline") <=> 3 < at
        /\ Did("judge") <=> 5 < at
        /\ Did("report") <=> 7 < at
    <3>1. Did("options") <=> 1 < at
      <4>1. 1 \in 1..Span /\ \A k \in 1..Span : Steps[k] = "options" <=> k = 1
        BY <2>2, <2>3
      <4> QED
        BY <2>2, <4>1, Placed
    <3>2. Did("analyzeImage") <=> 2 < at
      <4>1. 2 \in 1..Span /\ \A k \in 1..Span : Steps[k] = "analyzeImage" <=> k = 2
        BY <2>2, <2>3
      <4> QED
        BY <2>2, <4>1, Placed
    <3>3. Did("analyzeBaseline") <=> 3 < at
      <4>1. 3 \in 1..Span /\ \A k \in 1..Span : Steps[k] = "analyzeBaseline" <=> k = 3
        BY <2>2, <2>3
      <4> QED
        BY <2>2, <4>1, Placed
    <3>4. Did("judge") <=> 5 < at
      <4>1. 5 \in 1..Span /\ \A k \in 1..Span : Steps[k] = "judge" <=> k = 5
        BY <2>2, <2>3
      <4> QED
        BY <2>2, <4>1, Placed
    <3>5. Did("report") <=> 7 < at
      <4>1. 7 \in 1..Span /\ \A k \in 1..Span : Steps[k] = "report" <=> k = 7
        BY <2>2, <2>3
      <4> QED
        BY <2>2, <4>1, Placed
    <3> QED
      BY <3>1, <3>2, <3>3, <3>4, <3>5
  <2>5. ~Ended => \/ at = 1 /\ Step = "options"
                  \/ at = 2 /\ Step = "analyzeImage"
                  \/ at = 3 /\ Step = "analyzeBaseline"
                  \/ at = 4 /\ Step = "idBaseline"
                  \/ at = 5 /\ Step = "judge"
                  \/ at = 6 /\ Step = "idImage"
                  \/ at = 7 /\ Step = "report"
                  \/ at = 8 /\ Step = "temp"
                  \/ at = 9 /\ Step = "write"
                  \/ at = 10 /\ Step = "rename"
    <3> SUFFICES ASSUME ~Ended
                 PROVE  \/ at = 1 /\ Steps[at] = "options"
                        \/ at = 2 /\ Steps[at] = "analyzeImage"
                        \/ at = 3 /\ Steps[at] = "analyzeBaseline"
                        \/ at = 4 /\ Steps[at] = "idBaseline"
                        \/ at = 5 /\ Steps[at] = "judge"
                        \/ at = 6 /\ Steps[at] = "idImage"
                        \/ at = 7 /\ Steps[at] = "report"
                        \/ at = 8 /\ Steps[at] = "temp"
                        \/ at = 9 /\ Steps[at] = "write"
                        \/ at = 10 /\ Steps[at] = "rename"
      BY DEF Step
    <3>1. at \in 1..Span
      BY <2>2 DEF Ended, Span
    <3> QED
      BY <2>3, <3>1
  <2>6. Ended => at > 7
    BY <2>2 DEF Ended, Span
  <2> QED
    BY <1>1, <2>2, <2>4, <2>5, <2>6 DEF At, JSONSteps, TwoSides
<1>2. CASE opts.kind = "ci" /\ opts.baseline = FALSE
  <2>1. Span \in {5, 8}
    BY <1>0, <1>2, CISteps
  <2>2. Span \in Nat /\ Span >= 5
    BY <2>1
  <2>3. \A k \in 1..Span :
            \/ k = 1 /\ Steps[k] = "options"
            \/ k = 2 /\ Steps[k] = "analyzeImage"
            \/ k = 3 /\ Steps[k] = "judge"
            \/ k = 4 /\ Steps[k] = "idImage"
            \/ k = 5 /\ Steps[k] = "report"
            \/ k = 6 /\ Steps[k] = "temp"
            \/ k = 7 /\ Steps[k] = "write"
            \/ k = 8 /\ Steps[k] = "rename"
    BY <1>0, <1>2, CIPlaces
  <2>4. /\ Did("options") <=> 1 < at
        /\ Did("analyzeImage") <=> 2 < at
        /\ Did("judge") <=> 3 < at
        /\ Did("report") <=> 5 < at
    <3>1. Did("options") <=> 1 < at
      <4>1. 1 \in 1..Span /\ \A k \in 1..Span : Steps[k] = "options" <=> k = 1
        BY <2>2, <2>3
      <4> QED
        BY <2>2, <4>1, Placed
    <3>2. Did("analyzeImage") <=> 2 < at
      <4>1. 2 \in 1..Span /\ \A k \in 1..Span : Steps[k] = "analyzeImage" <=> k = 2
        BY <2>2, <2>3
      <4> QED
        BY <2>2, <4>1, Placed
    <3>3. Did("judge") <=> 3 < at
      <4>1. 3 \in 1..Span /\ \A k \in 1..Span : Steps[k] = "judge" <=> k = 3
        BY <2>2, <2>3
      <4> QED
        BY <2>2, <4>1, Placed
    <3>4. Did("report") <=> 5 < at
      <4>1. 5 \in 1..Span /\ \A k \in 1..Span : Steps[k] = "report" <=> k = 5
        BY <2>2, <2>3
      <4> QED
        BY <2>2, <4>1, Placed
    <3> QED
      BY <3>1, <3>2, <3>3, <3>4
  <2>5. ~Ended => \/ at = 1 /\ Step = "options"
                  \/ at = 2 /\ Step = "analyzeImage"
                  \/ at = 3 /\ Step = "judge"
                  \/ at = 4 /\ Step = "idImage"
                  \/ at = 5 /\ Step = "report"
                  \/ at = 6 /\ Step = "temp"
                  \/ at = 7 /\ Step = "write"
                  \/ at = 8 /\ Step = "rename"
    <3> SUFFICES ASSUME ~Ended
                 PROVE  \/ at = 1 /\ Steps[at] = "options"
                        \/ at = 2 /\ Steps[at] = "analyzeImage"
                        \/ at = 3 /\ Steps[at] = "judge"
                        \/ at = 4 /\ Steps[at] = "idImage"
                        \/ at = 5 /\ Steps[at] = "report"
                        \/ at = 6 /\ Steps[at] = "temp"
                        \/ at = 7 /\ Steps[at] = "write"
                        \/ at = 8 /\ Steps[at] = "rename"
      BY DEF Step
    <3>1. at \in 1..Span
      BY <2>2 DEF Ended, Span
    <3> QED
      BY <2>3, <3>1
  <2>7. ~Did("analyzeBaseline")
    BY <2>3 DEF Did
  <2>6. Ended => at > 5
    BY <2>2 DEF Ended, Span
  <2> QED
    BY <1>2, <2>2, <2>4, <2>5, <2>6, <2>7 DEF At, JSONSteps, TwoSides
<1>3. CASE opts.kind = "compare"
  <2>1. Span \in {7, 10}
    BY <1>0, <1>3, CompareSteps
  <2>2. Span \in Nat /\ Span >= 7
    BY <2>1
  <2>3. \A k \in 1..Span :
            \/ k = 1 /\ Steps[k] = "options"
            \/ k = 2 /\ Steps[k] = "analyzeBaseline"
            \/ k = 3 /\ Steps[k] = "idBaseline"
            \/ k = 4 /\ Steps[k] = "analyzeImage"
            \/ k = 5 /\ Steps[k] = "idImage"
            \/ k = 6 /\ Steps[k] = "judge"
            \/ k = 7 /\ Steps[k] = "report"
    BY <1>0, <1>3, ComparePlaces
  <2>4. /\ Did("options") <=> 1 < at
        /\ Did("analyzeImage") <=> 4 < at
        /\ Did("analyzeBaseline") <=> 2 < at
        /\ Did("judge") <=> 6 < at
        /\ Did("report") <=> 7 < at
    <3>1. Did("options") <=> 1 < at
      <4>1. 1 \in 1..Span /\ \A k \in 1..Span : Steps[k] = "options" <=> k = 1
        BY <2>2, <2>3
      <4> QED
        BY <2>2, <4>1, Placed
    <3>2. Did("analyzeImage") <=> 4 < at
      <4>1. 4 \in 1..Span /\ \A k \in 1..Span : Steps[k] = "analyzeImage" <=> k = 4
        BY <2>2, <2>3
      <4> QED
        BY <2>2, <4>1, Placed
    <3>3. Did("analyzeBaseline") <=> 2 < at
      <4>1. 2 \in 1..Span /\ \A k \in 1..Span : Steps[k] = "analyzeBaseline" <=> k = 2
        BY <2>2, <2>3
      <4> QED
        BY <2>2, <4>1, Placed
    <3>4. Did("judge") <=> 6 < at
      <4>1. 6 \in 1..Span /\ \A k \in 1..Span : Steps[k] = "judge" <=> k = 6
        BY <2>2, <2>3
      <4> QED
        BY <2>2, <4>1, Placed
    <3>5. Did("report") <=> 7 < at
      <4>1. 7 \in 1..Span /\ \A k \in 1..Span : Steps[k] = "report" <=> k = 7
        BY <2>2, <2>3
      <4> QED
        BY <2>2, <4>1, Placed
    <3> QED
      BY <3>1, <3>2, <3>3, <3>4, <3>5
  <2>5. ~Ended => \/ at = 1 /\ Step = "options"
                  \/ at = 2 /\ Step = "analyzeBaseline"
                  \/ at = 3 /\ Step = "idBaseline"
                  \/ at = 4 /\ Step = "analyzeImage"
                  \/ at = 5 /\ Step = "idImage"
                  \/ at = 6 /\ Step = "judge"
                  \/ at = 7 /\ Step = "report"
    <3> SUFFICES ASSUME ~Ended
                 PROVE  \/ at = 1 /\ Steps[at] = "options"
                        \/ at = 2 /\ Steps[at] = "analyzeBaseline"
                        \/ at = 3 /\ Steps[at] = "idBaseline"
                        \/ at = 4 /\ Steps[at] = "analyzeImage"
                        \/ at = 5 /\ Steps[at] = "idImage"
                        \/ at = 6 /\ Steps[at] = "judge"
                        \/ at = 7 /\ Steps[at] = "report"
      BY DEF Step
    <3>1. at \in 1..Span
      BY <2>2 DEF Ended, Span
    <3> QED
      BY <2>3, <3>1
  <2>6. Ended => at > 7
    BY <2>2 DEF Ended, Span
  <2> QED
    BY <1>3, <2>2, <2>4, <2>5, <2>6 DEF At, JSONSteps, TwoSides
<1> QED
  BY <1>0, <1>1, <1>2, <1>3

-----------------------------------------------------------------------------
\* What comes before and after each step of each command.
Successors ==
    /\ Span \in Nat /\ Span >= 2 /\ DOMAIN Steps = 1..Span
    /\ \A k \in 1..Span :
          /\ Steps[k] = "engine" => k = 1
          /\ Steps[k] \in {"engine", "built"} => opts.kind = "build"
          /\ Steps[k] \in {"judge", "idImage", "idBaseline", "report", "analyzeBaseline"} =>
                 opts.kind \in {"ci", "compare"}
          /\ Steps[k] \in JSONSteps => opts.json
          /\ Steps[k] = "viewer" => ~opts.json
          /\ k = Span /\ opts.json => Steps[k] = "rename"
          /\ k < Span => /\ Steps[k] # "rename"
                         /\ Steps[k + 1] = "write" <=> Steps[k] = "temp"
                         /\ Steps[k + 1] = "rename" <=> Steps[k] = "write"
                         /\ Steps[k + 1] = "temp" => Steps[k] \in {"report", "analyzeImage"}
          /\ Steps[k] = "analyzeImage" => k > 1
          /\ k = Span => Steps[k] \notin {"temp", "write"}
    /\ opts.kind = "ci" /\ opts.json =>
          \E j \in 2..Span : \A k \in 1..Span :
              (Steps[k] = "temp" <=> k = j) /\ (k >= j => Steps[k] \in JSONSteps)
    /\ opts.kind \in {"inspect", "build"} =>
          \A k \in 1..Span : \A m \in 1..Span :
              Steps[m] = "analyzeImage" /\ m < k =>
                  Steps[k] \notin {"engine", "built", "options", "analyzeImage"}

\* Which step comes after which, whatever the command.
LEMMA Succession ==
  ASSUME IsOptions(opts)
  PROVE  Successors
<1>0. opts.json \in BOOLEAN /\ opts.baseline \in BOOLEAN
  BY DEF IsOptions
<1>1. CASE opts.kind = "ci" /\ opts.baseline = TRUE /\ ~opts.json
  <2>1. Span = 7
    BY <1>0, <1>1, GrowthSteps
  <2>2. /\ Steps[1] = "options" /\ Steps[2] = "analyzeImage" /\ Steps[3] = "analyzeBaseline"
        /\ Steps[4] = "idBaseline" /\ Steps[5] = "judge" /\ Steps[6] = "idImage"
        /\ Steps[7] = "report"
    BY <1>0, <1>1, GrowthSteps
  <2>3. DOMAIN Steps = 1..Span
    <3> DEFINE names == {"options", "analyzeImage", "analyzeBaseline", "idBaseline", "judge",
                        "idImage", "report", "temp", "write", "rename"}
               first == <<"options", "analyzeImage", "analyzeBaseline", "idBaseline">>
               check == <<"judge", "idImage", "report">>
               json == <<>>
    <3>1. Steps = first \o (check \o json)
      BY <1>1 DEF Steps
    <3>2. first \in Seq(names) /\ check \in Seq(names) /\ json \in Seq(names)
      OBVIOUS
    <3> HIDE DEF names, first, check, json
    <3> QED
      BY <3>1, <3>2 DEF Span
  <2>4. 1..Span = {1, 2, 3, 4, 5, 6, 7}
    BY <2>1
  <2> QED
    BY <1>1, <2>1, <2>2, <2>3, <2>4 DEF Successors, JSONSteps
<1>2. CASE opts.kind = "ci" /\ opts.baseline = TRUE /\ opts.json
  <2>1. Span = 10
    BY <1>0, <1>2, GrowthSteps
  <2>2. /\ Steps[1] = "options" /\ Steps[2] = "analyzeImage" /\ Steps[3] = "analyzeBaseline"
        /\ Steps[4] = "idBaseline" /\ Steps[5] = "judge" /\ Steps[6] = "idImage"
        /\ Steps[7] = "report" /\ Steps[8] = "temp" /\ Steps[9] = "write"
        /\ Steps[10] = "rename"
    BY <1>0, <1>2, GrowthSteps
  <2>3. DOMAIN Steps = 1..Span
    <3> DEFINE names == {"options", "analyzeImage", "analyzeBaseline", "idBaseline", "judge",
                        "idImage", "report", "temp", "write", "rename"}
               first == <<"options", "analyzeImage", "analyzeBaseline", "idBaseline">>
               check == <<"judge", "idImage", "report">>
               json == <<"temp", "write", "rename">>
    <3>1. Steps = first \o (check \o json)
      BY <1>2 DEF Steps
    <3>2. first \in Seq(names) /\ check \in Seq(names) /\ json \in Seq(names)
      OBVIOUS
    <3> HIDE DEF names, first, check, json
    <3> QED
      BY <3>1, <3>2 DEF Span
  <2>4. 1..Span = {1, 2, 3, 4, 5, 6, 7, 8, 9, 10}
    BY <2>1
  <2>5. \E j \in 2..Span : \A k \in 1..Span :
            (Steps[k] = "temp" <=> k = j) /\ (k >= j => Steps[k] \in JSONSteps)
    <3>1. 8 \in 2..Span
      BY <2>1
    <3>2. \A k \in {1, 2, 3, 4, 5, 6, 7, 8, 9, 10} :
              (Steps[k] = "temp" <=> k = 8) /\ (k >= 8 => Steps[k] \in JSONSteps)
      BY <2>2 DEF JSONSteps
    <3> QED
      BY <2>4, <3>1, <3>2
  <2> QED
    BY <1>2, <2>1, <2>2, <2>3, <2>4, <2>5 DEF Successors, JSONSteps
<1>3. CASE opts.kind = "ci" /\ opts.baseline = FALSE /\ ~opts.json
  <2>1. Span = 5
    BY <1>0, <1>3, CISteps
  <2>2. /\ Steps[1] = "options" /\ Steps[2] = "analyzeImage" /\ Steps[3] = "judge"
        /\ Steps[4] = "idImage" /\ Steps[5] = "report"
    BY <1>0, <1>3, CISteps
  <2>3. DOMAIN Steps = 1..Span
    <3> DEFINE names == {"options", "analyzeImage", "analyzeBaseline", "idBaseline", "judge",
                        "idImage", "report", "temp", "write", "rename"}
               first == <<"options", "analyzeImage">>
               check == <<"judge", "idImage", "report">>
               json == <<>>
    <3>1. Steps = first \o (check \o json)
      BY <1>3 DEF Steps
    <3>2. first \in Seq(names) /\ check \in Seq(names) /\ json \in Seq(names)
      OBVIOUS
    <3> HIDE DEF names, first, check, json
    <3> QED
      BY <3>1, <3>2 DEF Span
  <2>4. 1..Span = {1, 2, 3, 4, 5}
    BY <2>1
  <2> QED
    BY <1>3, <2>1, <2>2, <2>3, <2>4 DEF Successors, JSONSteps
<1>4. CASE opts.kind = "ci" /\ opts.baseline = FALSE /\ opts.json
  <2>1. Span = 8
    BY <1>0, <1>4, CISteps
  <2>2. /\ Steps[1] = "options" /\ Steps[2] = "analyzeImage" /\ Steps[3] = "judge"
        /\ Steps[4] = "idImage" /\ Steps[5] = "report" /\ Steps[6] = "temp"
        /\ Steps[7] = "write" /\ Steps[8] = "rename"
    BY <1>0, <1>4, CISteps
  <2>3. DOMAIN Steps = 1..Span
    <3> DEFINE names == {"options", "analyzeImage", "analyzeBaseline", "idBaseline", "judge",
                        "idImage", "report", "temp", "write", "rename"}
               first == <<"options", "analyzeImage">>
               check == <<"judge", "idImage", "report">>
               json == <<"temp", "write", "rename">>
    <3>1. Steps = first \o (check \o json)
      BY <1>4 DEF Steps
    <3>2. first \in Seq(names) /\ check \in Seq(names) /\ json \in Seq(names)
      OBVIOUS
    <3> HIDE DEF names, first, check, json
    <3> QED
      BY <3>1, <3>2 DEF Span
  <2>4. 1..Span = {1, 2, 3, 4, 5, 6, 7, 8}
    BY <2>1
  <2>5. \E j \in 2..Span : \A k \in 1..Span :
            (Steps[k] = "temp" <=> k = j) /\ (k >= j => Steps[k] \in JSONSteps)
    <3>1. 6 \in 2..Span
      BY <2>1
    <3>2. \A k \in {1, 2, 3, 4, 5, 6, 7, 8} :
              (Steps[k] = "temp" <=> k = 6) /\ (k >= 6 => Steps[k] \in JSONSteps)
      BY <2>2 DEF JSONSteps
    <3> QED
      BY <2>4, <3>1, <3>2
  <2> QED
    BY <1>4, <2>1, <2>2, <2>3, <2>4, <2>5 DEF Successors, JSONSteps
<1>5. CASE opts.kind = "compare" /\ ~opts.json
  <2>1. Span = 7
    BY <1>0, <1>5, CompareSteps
  <2>2. /\ Steps[1] = "options" /\ Steps[2] = "analyzeBaseline" /\ Steps[3] = "idBaseline"
        /\ Steps[4] = "analyzeImage" /\ Steps[5] = "idImage" /\ Steps[6] = "judge"
        /\ Steps[7] = "report"
    BY <1>0, <1>5, CompareSteps
  <2>3. DOMAIN Steps = 1..Span
    BY <1>5, <2>1 DEF Steps, Span
  <2>4. 1..Span = {1, 2, 3, 4, 5, 6, 7}
    BY <2>1
  <2> QED
    BY <1>5, <2>1, <2>2, <2>3, <2>4 DEF Successors, JSONSteps
<1>6. CASE opts.kind = "build" /\ ~opts.json
  <2>1. Span = 4
    BY <1>0, <1>6, BuildSteps
  <2>2. /\ Steps[1] = "engine" /\ Steps[2] = "built" /\ Steps[3] = "options"
        /\ Steps[4] = "viewer"
    BY <1>0, <1>6, BuildSteps
  <2>3. DOMAIN Steps = 1..Span
    BY <1>6, <2>1 DEF Steps, Span
  <2>4. 1..Span = {1, 2, 3, 4}
    BY <2>1
  <2> QED
    BY <1>6, <2>1, <2>2, <2>3, <2>4 DEF Successors, JSONSteps
<1>7. CASE opts.kind = "build" /\ opts.json
  <2>1. Span = 7
    BY <1>0, <1>7, BuildSteps
  <2>2. /\ Steps[1] = "engine" /\ Steps[2] = "built" /\ Steps[3] = "options"
        /\ Steps[4] = "analyzeImage" /\ Steps[5] = "temp" /\ Steps[6] = "write"
        /\ Steps[7] = "rename"
    BY <1>0, <1>7, BuildSteps
  <2>3. DOMAIN Steps = 1..Span
    BY <1>7, <2>1 DEF Steps, Span
  <2>4. 1..Span = {1, 2, 3, 4, 5, 6, 7}
    BY <2>1
  <2> QED
    BY <1>7, <2>1, <2>2, <2>3, <2>4 DEF Successors, JSONSteps
<1>8. CASE opts.kind = "inspect" /\ ~opts.json
  <2>1. Span = 2
    BY <1>0, <1>8, InspectSteps
  <2>2. /\ Steps[1] = "options" /\ Steps[2] = "viewer"
    BY <1>0, <1>8, InspectSteps
  <2>3. DOMAIN Steps = 1..Span
    BY <1>8, <2>1 DEF Steps, Span
  <2>4. 1..Span = {1, 2}
    BY <2>1
  <2> QED
    BY <1>8, <2>1, <2>2, <2>3, <2>4 DEF Successors, JSONSteps
<1>9. CASE opts.kind = "inspect" /\ opts.json
  <2>1. Span = 5
    BY <1>0, <1>9, InspectSteps
  <2>2. /\ Steps[1] = "options" /\ Steps[2] = "analyzeImage" /\ Steps[3] = "temp"
        /\ Steps[4] = "write" /\ Steps[5] = "rename"
    BY <1>0, <1>9, InspectSteps
  <2>3. DOMAIN Steps = 1..Span
    BY <1>9, <2>1 DEF Steps, Span
  <2>4. 1..Span = {1, 2, 3, 4, 5}
    BY <2>1
  <2> QED
    BY <1>9, <2>1, <2>2, <2>3, <2>4 DEF Successors, JSONSteps
<1> QED
  BY <1>0, <1>1, <1>2, <1>3, <1>4, <1>5, <1>6, <1>7, <1>8, <1>9 DEF IsOptions

\* The five ways in which a step of the run moves it.
Goes ==
    /\ Step \notin JSONSteps /\ Proceed /\ UNCHANGED <<temp, out, warned>>
    /\ IF Step = "analyzeImage" THEN got'.image # <<>> ELSE got'.image = got.image
Fails ==
    /\ Step \notin JSONSteps /\ UNCHANGED <<got, temp, out, warned>>
    /\ \E err \in Errors \ {NoError} : Fail(err) /\ (err.kind = "build" => Step = "engine")
Stops ==
    /\ Step = "built" /\ UNCHANGED <<got, temp, out, failed>>
    /\ warned' = TRUE /\ at' = Span + 1
Exports ==
    /\ Step \in JSONSteps /\ Proceed /\ UNCHANGED <<got, warned>>
    /\ temp' = IF Step = "temp" THEN "empty" ELSE IF Step = "write" THEN "whole" ELSE "none"
    /\ out' = IF Step = "rename" THEN [of |-> got.image, whole |-> temp = "whole"] ELSE out
GivesUp ==
    /\ Step \in JSONSteps /\ UNCHANGED <<got, out>> /\ NoJSON

\* A step goes on, fails, ends the run, exports, or gives up exporting.
LEMMA Ways ==
  ASSUME Run, got \in [Sides -> Seq(Images)]
  PROVE  UNCHANGED <<opts, code>> /\ (Goes \/ Fails \/ Stops \/ Exports \/ GivesUp)
<1>1. /\ Error("other") \in Errors \ {NoError} /\ Error("other").kind # "build"
      /\ Error("limits") \in Errors \ {NoError} /\ Error("limits").kind # "build"
      /\ \A n \in EngineCodes : BuildFailed(n) \in Errors \ {NoError}
  <2>1. Error("other").kind = "other" /\ Error("limits").kind = "limits" /\ NoError.kind = "none"
        /\ \A n : BuildFailed(n).kind = "build"
    BY DEF Error, NoError, BuildFailed
  <2>2. Error("other") # NoError /\ Error("limits") # NoError /\ \A n : BuildFailed(n) # NoError
    BY <2>1
  <2> QED
    BY Zenon, <2>1, <2>2 DEF Errors
<1>2. CASE Options
  <2>1. Step = "options" /\ Step \notin JSONSteps /\ Step # "analyzeImage"
    BY <1>2 DEF Options, JSONSteps
  <2>2. UNCHANGED <<opts, code, got, temp, out, warned>> /\ (Proceed \/ Fail(Error("other")))
    BY <1>2 DEF Options
  <2> QED
    BY Zenon, <1>1, <2>1, <2>2 DEF Goes, Fails
<1>3. ASSUME NEW side \in Sides, Analyze(side)
      PROVE  UNCHANGED <<opts, code>> /\ (Goes \/ Fails)
  <2>1. side \in {"image", "baseline"}
    BY DEF Sides
  <2>2. Step \notin JSONSteps /\ (Step = "analyzeImage" <=> side = "image")
    BY <1>3, <2>1 DEF Analyze, JSONSteps
  <2>3. UNCHANGED <<opts, code, temp, out, warned>>
    BY <1>3 DEF Analyze
  <2>4. CASE got' = [got EXCEPT ![side] = <<world[side]>>] /\ Proceed
    <3>1. IF side = "image" THEN got'.image # <<>> ELSE got'.image = got.image
      BY <2>1, <2>4 DEF Sides
    <3> QED
      BY Zenon, <2>2, <2>3, <2>4, <3>1 DEF Goes
  <2>5. CASE UNCHANGED got /\ Fail(Error("other"))
    BY Zenon, <1>1, <2>2, <2>3, <2>5 DEF Fails
  <2> QED
    BY <1>3, <2>4, <2>5 DEF Analyze
<1>4. ASSUME NEW side \in Sides, ReadID(side)
      PROVE  UNCHANGED <<opts, code>> /\ Goes
  <2>1. side \in {"image", "baseline"}
    BY DEF Sides
  <2>2. Step \notin JSONSteps /\ Step # "analyzeImage"
    BY <1>4, <2>1 DEF ReadID, JSONSteps
  <2>3. UNCHANGED <<opts, code, got, temp, out, warned>> /\ Proceed
    BY <1>4 DEF ReadID
  <2> QED
    BY Zenon, <2>2, <2>3 DEF Goes
<1>5. CASE Judge
  <2>1. Step \notin JSONSteps /\ Step # "analyzeImage"
    BY <1>5 DEF Judge, JSONSteps
  <2>2. UNCHANGED <<opts, code, got, temp, out, warned>> /\ (Proceed \/ Fail(Error("other")))
    BY <1>5 DEF Judge
  <2> QED
    BY Zenon, <1>1, <2>1, <2>2 DEF Goes, Fails
<1>6. CASE Report
  <2>1. Step \notin JSONSteps /\ Step # "analyzeImage"
    BY <1>6 DEF Report, JSONSteps
  <2>2. /\ UNCHANGED <<opts, code, got, temp, out, warned>>
        /\ Proceed \/ Fail(Error("other")) \/ Fail(Error("limits"))
    BY <1>6 DEF Report
  <2> QED
    BY Zenon, <1>1, <2>1, <2>2 DEF Goes, Fails
<1>7. CASE CreateTemp
  <2>1. Step = "temp" /\ Step \in JSONSteps /\ UNCHANGED <<opts, code, got, out>>
    BY <1>7 DEF CreateTemp, JSONSteps
  <2>2. (temp' = "empty" /\ Proceed /\ UNCHANGED warned) \/ NoJSON
    BY <1>7 DEF CreateTemp
  <2> QED
    BY <2>1, <2>2 DEF Exports, GivesUp
<1>8. CASE WriteTemp
  <2>1. Step = "write" /\ Step \in JSONSteps /\ UNCHANGED <<opts, code, got, out>>
    BY <1>8 DEF WriteTemp, JSONSteps
  <2>2. (temp' = "whole" /\ Proceed /\ UNCHANGED warned) \/ NoJSON
    BY <1>8 DEF WriteTemp
  <2> QED
    BY <2>1, <2>2 DEF Exports, GivesUp
<1>9. CASE Rename
  <2>1. Step = "rename" /\ Step \in JSONSteps /\ UNCHANGED <<opts, code, got>>
    BY <1>9 DEF Rename, JSONSteps
  <2>2. \/ /\ temp' = "none" /\ out' = [of |-> got.image, whole |-> temp = "whole"]
           /\ Proceed /\ UNCHANGED warned
        \/ NoJSON /\ UNCHANGED out
    BY <1>9 DEF Rename
  <2> QED
    BY <2>1, <2>2 DEF Exports, GivesUp
<1>10. CASE Engine
  <2>1. Step = "engine" /\ Step \notin JSONSteps /\ Step # "analyzeImage"
    BY <1>10 DEF Engine, JSONSteps
  <2>2. /\ UNCHANGED <<opts, code, got, temp, out, warned>>
        /\ Proceed \/ Fail(Error("other")) \/ \E n \in EngineCodes : Fail(BuildFailed(n))
    BY <1>10 DEF Engine
  <2> QED
    BY Zenon, <1>1, <2>1, <2>2 DEF Goes, Fails
<1>11. CASE Built
  <2>1. Step = "built" /\ Step \notin JSONSteps /\ Step # "analyzeImage"
    BY <1>11 DEF Built, JSONSteps
  <2>2. UNCHANGED <<opts, code, got, temp, out>>
    BY <1>11 DEF Built
  <2>3. \/ Proceed /\ UNCHANGED warned
        \/ warned' = TRUE /\ at' = Len(Steps) + 1 /\ UNCHANGED failed
    BY <1>11 DEF Built
  <2> QED
    BY Zenon, <2>1, <2>2, <2>3 DEF Goes, Stops, Span
<1>12. CASE Viewer
  <2>1. Step \notin JSONSteps /\ Step # "analyzeImage"
    BY <1>12 DEF Viewer, JSONSteps
  <2>2. UNCHANGED <<opts, code, got, temp, out, warned>> /\ (Proceed \/ Fail(Error("other")))
    BY <1>12 DEF Viewer
  <2> QED
    BY Zenon, <1>1, <2>1, <2>2 DEF Goes, Fails
<1> QED
  BY <1>2, <1>3, <1>4, <1>5, <1>6, <1>7, <1>8, <1>9, <1>10, <1>11, <1>12 DEF Run

\* Where a run is after the next step, after an error, and after giving up.
LEMMA Onward ==
  ASSUME IsOptions(opts), at \in 1..(Span + 1), ~Ended, UNCHANGED opts
  PROVE  /\ Span' = Span /\ Span \in Nat /\ at \in 1..Span /\ Span >= 2
         /\ at' = at + 1 => /\ at' \in 2..(Span + 1)
                            /\ \A s : Did(s)' <=> Did(s) \/ Step = s
                            /\ Ended' <=> at = Span
                            /\ at < Span => Step' = Steps[at + 1]
         /\ at' = Span + 1 => Ended' /\ at' \in 2..(Span + 1) /\ \A s : Did(s) => Did(s)'
<1>1. Steps' = Steps
  BY DEF Steps
<1>2. Span' = Span /\ Span \in Nat /\ Span >= 2
  BY <1>1, Succession DEF Span, Successors
<1>3. at \in 1..Span
  BY <1>2 DEF Ended, Span
<1>4. ASSUME at' = at + 1
      PROVE  /\ at' \in 2..(Span + 1)
             /\ \A s : Did(s)' <=> Did(s) \/ Step = s
             /\ Ended' <=> at = Span
             /\ at < Span => Step' = Steps[at + 1]
  <2>1. at' \in 2..(Span + 1)
    BY <1>2, <1>3, <1>4
  <2>2. \A s : Did(s)' <=> Did(s) \/ Step = s
    <3> TAKE s
    <3>1. Did(s)' <=> \E k \in 1..Span : k < at + 1 /\ Steps[k] = s
      BY <1>1, <1>2, <1>4 DEF Did
    <3>2. \A k \in 1..Span : k < at + 1 <=> k < at \/ k = at
      BY <1>3
    <3> QED
      BY <1>3, <3>1, <3>2 DEF Did, Step
  <2>3. Ended' <=> at = Span
    <3>1. Ended' <=> at + 1 > Span
      BY <1>2, <1>4 DEF Ended, Span
    <3> QED
      BY <1>2, <1>3, <3>1
  <2>4. Step' = Steps[at + 1]
    BY <1>1, <1>4 DEF Step
  <2> QED
    BY <2>1, <2>2, <2>3, <2>4
<1>5. ASSUME at' = Span + 1
      PROVE  Ended' /\ at' \in 2..(Span + 1) /\ \A s : Did(s) => Did(s)'
  <2>1. Ended' <=> Span + 1 > Span
    BY <1>2, <1>5 DEF Ended, Span
  <2>2. \A s : Did(s) => Did(s)'
    <3> TAKE s
    <3>1. Did(s)' <=> \E k \in 1..Span : k < Span + 1 /\ Steps[k] = s
      BY <1>1, <1>2, <1>5 DEF Did
    <3>2. \A k \in 1..Span : k < Span + 1
      BY <1>2
    <3> QED
      BY <3>1, <3>2 DEF Did
  <2> QED
    BY <1>2, <1>5, <2>1, <2>2
<1> QED
  BY <1>2, <1>3, <1>4, <1>5

\* A failure ends the run, except that an analysed image is still exported.
LEMMA Failing ==
  ASSUME IsOptions(opts), at \in 1..(Span + 1), ~Ended, UNCHANGED opts,
         Step \notin JSONSteps, NEW err, Fail(err)
  PROVE  /\ failed' = err /\ at' \in 2..(Span + 1) /\ \A s : Did(s) => Did(s)'
         /\ IF opts.kind = "ci" /\ opts.json /\ got.image # <<>>
            THEN ~Ended' /\ Step' = "temp" ELSE Ended'
<1>1. Span \in Nat /\ at \in 1..Span /\ Span' = Span
  BY Onward
<1>2. failed' = err
  BY DEF Fail
<1>3. CASE opts.kind = "ci" /\ opts.json /\ got.image # <<>>
  <2>1. PICK j \in 2..Span : \A k \in 1..Span :
               (Steps[k] = "temp" <=> k = j) /\ (k >= j => Steps[k] \in JSONSteps)
    BY <1>3, Succession DEF Successors
  <2>2. JSONAt = j
    <3>1. DOMAIN Steps = 1..Span
      BY Succession DEF Successors
    <3>2. j \in 1..Span
      BY <1>1, <2>1
    <3>3. \A i \in DOMAIN Steps : Steps[i] = "temp" <=> i = j
      BY <2>1, <3>1
    <3> QED
      BY <3>1, <3>2, <3>3 DEF JSONAt
  <2>3. at < j
    <3>1. ~(at >= j)
      BY <1>1, <2>1 DEF Step
    <3> QED
      BY <1>1, <2>1, <3>1
  <2>4. at' = j
    BY <1>3, <2>2, <2>3 DEF Fail
  <2>5. Steps' = Steps
    BY DEF Steps
  <2>6. Step' = "temp"
    <3>1. j \in 1..Span
      BY <1>1, <2>1
    <3> QED
      BY <2>1, <2>4, <2>5, <3>1 DEF Step
  <2>7. ~Ended' /\ at' \in 2..(Span + 1)
    <3>1. Ended' <=> j > Span
      BY <1>1, <2>4 DEF Ended, Span
    <3> QED
      BY <1>1, <2>1, <2>4, <3>1
  <2>8. \A s : Did(s) => Did(s)'
    <3>1. \A k \in 1..Span : k < at => k < j
      BY <1>1, <2>1, <2>3
    <3> QED
      BY <1>1, <2>4, <2>5, <3>1 DEF Did
  <2> QED
    BY <1>2, <1>3, <2>6, <2>7, <2>8
<1>4. CASE ~(opts.kind = "ci" /\ opts.json /\ got.image # <<>>)
  <2>1. at' = Span + 1
    BY <1>4 DEF Fail, Span
  <2> QED
    BY <1>2, <1>4, <2>1, Onward
<1> QED
  BY <1>3, <1>4

\* Where a run is depends on its options and its position.
LEMMA Staying ==
  ASSUME UNCHANGED <<opts, at>>
  PROVE  /\ Steps' = Steps /\ Span' = Span /\ (Ended' <=> Ended) /\ Step' = Step
         /\ \A s : Did(s)' <=> Did(s)
<1>1. Steps' = Steps
  BY DEF Steps
<1> QED
  BY <1>1 DEF Span, Ended, Step, Did

\* The errors of a run and their kinds.
LEMMA ErrorKinds ==
  /\ Error("other") \in Errors /\ Error("other") # NoError /\ Error("other").kind = "other"
  /\ NoError \in Errors /\ NoError.kind = "none"
  /\ Error("limits").kind = "limits"
  /\ \A err \in Errors : /\ err.kind \in {"none", "other", "limits", "build"}
                         /\ err.kind = "none" => err = NoError
                         /\ err.kind = "build" => \E n \in EngineCodes : err = BuildFailed(n)
  /\ \A n : BuildFailed(n).kind = "build" /\ BuildFailed(n).engine = n
BY DEF Errors, Error, NoError, BuildFailed

\* Until it exports, a run has neither failed nor warned.
LEMMA Sound ==
  ASSUME FlowInv, ~Ended
  PROVE  /\ Step \notin JSONSteps => failed = NoError
         /\ failed = NoError => ~warned
BY DEF FlowInv, At

-----------------------------------------------------------------------------
(* The course of a run *)

\* A step keeps the flow of the run.
LEMMA FlowSteps ==
  ASSUME NamedInv, FlowInv, Run
  PROVE  FlowInv'
<1>1. /\ IsOptions(opts) /\ at \in 1..(Span + 1) /\ ~Ended /\ UNCHANGED opts /\ failed \in Errors
      /\ (Goes \/ Fails \/ Stops \/ Exports \/ GivesUp)
      /\ Span' = Span /\ Span \in Nat /\ at \in 1..Span
  <2>1. IsOptions(opts) /\ at \in 1..(Span + 1) /\ ~Ended /\ failed \in Errors
    BY DEF NamedInv, FlowInv, Run
  <2>2. UNCHANGED opts /\ (Goes \/ Fails \/ Stops \/ Exports \/ GivesUp)
    BY Ways DEF NamedInv
  <2> QED
    BY <2>1, <2>2, Onward
<1> DEFINE Course == /\ at' \in 2..(Span + 1)
                     /\ failed' \in Errors
                     /\ failed' # NoError => Ended' \/ At(JSONSteps)'
                     /\ failed'.kind = "build" => opts.kind = "build"
                     /\ warned' => failed' # NoError \/ (opts.kind = "build" /\ Ended')
                     /\ got'.image # <<>> => Did("analyzeImage")'
                     /\ At(JSONSteps)' => got'.image # <<>>
                     /\ failed' = NoError /\ ~warned' /\ Did("analyzeImage")' => got'.image # <<>>
                     /\ warned' \in BOOLEAN
<1>2. Course => FlowInv'
  <2>1. at' \in 2..(Span + 1) => at' \in 1..(Span' + 1) /\ at' # 1
    BY <1>1
  <2> QED
    BY <1>1, <2>1 DEF FlowInv
<1>3. At(JSONSteps)' <=> ~Ended' /\ Step' \in JSONSteps
  BY DEF At, JSONSteps
<1>4. /\ failed.kind = "build" => opts.kind = "build"
      /\ got.image # <<>> => Did("analyzeImage")
      /\ ~Ended /\ Step \in JSONSteps => got.image # <<>>
      /\ failed = NoError /\ ~warned /\ Did("analyzeImage") => got.image # <<>>
      /\ warned \in BOOLEAN
  BY DEF FlowInv, At
<1>5. CASE Goes
  <2>1. /\ Step \notin JSONSteps /\ at' = at + 1 /\ failed' = failed /\ warned' = warned
        /\ failed = NoError /\ ~warned
        /\ IF Step = "analyzeImage" THEN got'.image # <<>> ELSE got'.image = got.image
    BY <1>1, <1>5, Sound DEF Goes, Proceed
  <2>2. /\ at' \in 2..(Span + 1)
        /\ Did("analyzeImage")' <=> Did("analyzeImage") \/ Step = "analyzeImage"
        /\ Ended' <=> at = Span
        /\ at < Span => Step' = Steps[at + 1]
    BY <1>1, <2>1, Onward
  <2>3. ~Ended' /\ Step' \in JSONSteps => Step \in {"report", "analyzeImage"}
    <3>1. at < Span => /\ Steps[at + 1] = "write" <=> Step = "temp"
                       /\ Steps[at + 1] = "rename" <=> Step = "write"
                       /\ Steps[at + 1] = "temp" => Step \in {"report", "analyzeImage"}
      BY <1>1, Succession DEF Successors, Step
    <3>2. ~Ended' => at < Span
      BY <1>1, <2>2
    <3> QED
      BY <2>1, <2>2, <3>1, <3>2 DEF JSONSteps
  <2>4. Step = "report" => got.image # <<>>
    <3> SUFFICES ASSUME Step = "report" PROVE Did("analyzeImage")
      BY <1>4, <2>1
    <3>1. opts.kind \in {"ci", "compare"}
      BY <1>1, Succession DEF Successors, Step
    <3>2. At({"report"})
      BY <1>1 DEF At
    <3> QED
      BY <1>1, <3>1, <3>2, CheckOrder
  <2>5. At(JSONSteps)' => got'.image # <<>>
    BY Zenon, <1>3, <2>1, <2>3, <2>4
  <2>6. failed'.kind = "build" => opts.kind = "build"
    BY <1>4, <2>1
  <2> QED
    BY Zenon, <1>1, <1>2, <1>4, <2>1, <2>2, <2>5, <2>6
<1>6. CASE Fails
  <2>1. PICK err \in Errors \ {NoError} : Fail(err) /\ (err.kind = "build" => Step = "engine")
    BY <1>6 DEF Fails
  <2>2. Step \notin JSONSteps /\ got' = got /\ warned' = warned /\ ~warned
    BY <1>1, <1>6, Sound DEF Fails
  <2>3. /\ failed' = err /\ at' \in 2..(Span + 1) /\ (Did("analyzeImage") => Did("analyzeImage")')
        /\ IF opts.kind = "ci" /\ opts.json /\ got.image # <<>>
           THEN ~Ended' /\ Step' = "temp" ELSE Ended'
    BY <1>1, <2>1, <2>2, Failing
  <2>4. Step = "engine" => opts.kind = "build"
    BY <1>1, Succession DEF Successors, Step
  <2>5. At(JSONSteps)' => got.image # <<>>
    BY Zenon, <1>3, <2>3
  <2>6. Ended' \/ At(JSONSteps)'
    BY <1>3, <2>3 DEF JSONSteps
  <2> QED
    BY Zenon, <1>2, <1>4, <2>1, <2>2, <2>3, <2>4, <2>5, <2>6
<1>7. CASE Stops
  <2>1. /\ Step = "built" /\ got' = got /\ failed' = failed /\ warned' = TRUE /\ at' = Span + 1
    BY <1>7 DEF Stops
  <2>2. Step \notin JSONSteps
    BY <2>1 DEF JSONSteps
  <2>3. failed = NoError
    BY <1>1, <2>2, Sound
  <2>4. Ended' /\ at' \in 2..(Span + 1) /\ (Did("analyzeImage") => Did("analyzeImage")')
    BY <1>1, <2>1, Onward
  <2>5. opts.kind = "build"
    BY <1>1, <2>1, Succession DEF Successors, Step
  <2> QED
    BY Zenon, <1>1, <1>2, <1>3, <1>4, <2>1, <2>3, <2>4, <2>5
<1>8. CASE Exports
  <2>1. /\ Step \in JSONSteps /\ at' = at + 1 /\ failed' = failed /\ warned' = warned /\ got' = got
    BY <1>8 DEF Exports, Proceed
  <2>2. /\ at' \in 2..(Span + 1)
        /\ Did("analyzeImage")' <=> Did("analyzeImage") \/ Step = "analyzeImage"
        /\ Ended' <=> at = Span
        /\ at < Span => Step' = Steps[at + 1]
    BY <1>1, <2>1, Onward
  <2>3. Ended' \/ At(JSONSteps)'
    <3>1. at < Span => /\ Step # "rename"
                       /\ Steps[at + 1] = "write" <=> Step = "temp"
                       /\ Steps[at + 1] = "rename" <=> Step = "write"
      BY <1>1, Succession DEF Successors, Step
    <3>2. ~Ended' => at < Span
      BY <1>1, <2>2
    <3> QED
      BY <1>3, <2>1, <2>2, <3>1, <3>2 DEF JSONSteps
  <2>4. got.image # <<>> /\ Did("analyzeImage")
    BY <1>1, <1>4, <2>1
  <2>5. warned => failed # NoError
    BY <1>1, Sound
  <2> QED
    BY Zenon, <1>1, <1>2, <1>4, <2>1, <2>2, <2>3, <2>4, <2>5
<1>9. CASE GivesUp
  <2>1. /\ Step \in JSONSteps /\ got' = got /\ warned' = TRUE /\ at' = Span + 1
        /\ failed' = IF failed = NoError THEN Error("other") ELSE failed
    BY <1>9 DEF GivesUp, NoJSON, JSONError, Span
  <2>2. failed' \in Errors /\ failed' # NoError /\ (failed'.kind = "build" => opts.kind = "build")
    BY <1>1, <1>4, <2>1, ErrorKinds
  <2>3. Ended' /\ at' \in 2..(Span + 1) /\ (Did("analyzeImage") => Did("analyzeImage")')
    BY <1>1, <2>1, Onward
  <2> QED
    BY Zenon, <1>2, <1>3, <1>4, <2>1, <2>2, <2>3
<1> QED
  BY <1>1, <1>5, <1>6, <1>7, <1>8, <1>9

\* So does what leaves the run where it is.
LEMMA Resting ==
  ASSUME FlowInv, UNCHANGED <<opts, at, got, ids, failed, warned>>
  PROVE  FlowInv'
<1>1. Span' = Span /\ (Ended' <=> Ended) /\ Step' = Step /\ \A s : Did(s)' <=> Did(s)
  BY Staying
<1>2. (At(JSONSteps)' <=> At(JSONSteps)) /\ (Did("analyzeImage")' <=> Did("analyzeImage"))
  BY <1>1 DEF At, JSONSteps
<1> QED
  BY <1>1, <1>2 DEF FlowInv

\* A step keeps the target whole and the temporary file accounted for.
LEMMA FileSteps ==
  ASSUME NamedInv, FlowInv, FileInv, Run
  PROVE  FileInv'
<1>1. /\ IsOptions(opts) /\ at \in 1..(Span + 1) /\ ~Ended /\ UNCHANGED opts
      /\ (Goes \/ Fails \/ Stops \/ Exports \/ GivesUp)
      /\ Span' = Span /\ Span \in Nat /\ at \in 1..Span
  <2>1. IsOptions(opts) /\ at \in 1..(Span + 1) /\ ~Ended
    BY DEF NamedInv, FlowInv, Run
  <2>2. UNCHANGED opts /\ (Goes \/ Fails \/ Stops \/ Exports \/ GivesUp)
    BY Ways DEF NamedInv
  <2> QED
    BY <2>1, <2>2, Onward
<1>2. /\ out.whole
      /\ temp = IF Step = "write" THEN "empty" ELSE IF Step = "rename" THEN "whole" ELSE "none"
  BY <1>1 DEF FileInv, At
<1>3. ASSUME out'.whole,
             Ended' => temp' = "none",
             ~Ended' => temp' = IF Step' = "write" THEN "empty"
                                ELSE IF Step' = "rename" THEN "whole" ELSE "none"
      PROVE  FileInv'
  BY <1>3 DEF FileInv, At
<1>4. at < Span => /\ Step # "rename"
                   /\ Steps[at + 1] = "write" <=> Step = "temp"
                   /\ Steps[at + 1] = "rename" <=> Step = "write"
  BY <1>1, Succession DEF Successors, Step
<1>5. at = Span => Step \notin {"temp", "write"}
  BY <1>1, Succession DEF Successors, Step
<1>6. at < Span \/ at = Span
  BY <1>1
<1>7. CASE Goes
  <2>1. Step \notin JSONSteps /\ at' = at + 1 /\ temp' = temp /\ out' = out
    BY <1>7 DEF Goes, Proceed
  <2>2. (Ended' <=> at = Span) /\ (at < Span => Step' = Steps[at + 1])
    BY <1>1, <2>1, Onward
  <2>3. temp' = "none" /\ (~Ended' => Step' \notin {"write", "rename"})
    BY <1>2, <1>4, <1>6, <2>1, <2>2 DEF JSONSteps
  <2> QED
    BY <1>2, <1>3, <2>1, <2>3
<1>8. CASE Fails
  <2>1. PICK err \in Errors \ {NoError} : Fail(err)
    BY <1>8 DEF Fails
  <2>2. Step \notin JSONSteps /\ temp' = temp /\ out' = out
    BY <1>8 DEF Fails
  <2>3. Ended' \/ Step' = "temp"
    BY <1>1, <2>1, <2>2, Failing
  <2> QED
    BY <1>2, <1>3, <2>2, <2>3 DEF JSONSteps
<1>9. CASE Stops
  <2>1. /\ Step = "built" /\ temp' = temp /\ out' = out /\ at' = Span + 1
    BY <1>9 DEF Stops
  <2>2. Ended'
    BY <1>1, <2>1, Onward
  <2> QED
    BY <1>2, <1>3, <2>1, <2>2
<1>10. CASE Exports
  <2>1. /\ Step \in JSONSteps /\ at' = at + 1
        /\ temp' = IF Step = "temp" THEN "empty" ELSE IF Step = "write" THEN "whole" ELSE "none"
        /\ out' = IF Step = "rename" THEN [of |-> got.image, whole |-> temp = "whole"] ELSE out
    BY <1>10 DEF Exports, Proceed
  <2>2. (Ended' <=> at = Span) /\ (at < Span => Step' = Steps[at + 1])
    BY <1>1, <2>1, Onward
  <2>3. out'.whole
    BY <1>2, <2>1
  <2>4. Ended' => temp' = "none"
    BY <1>5, <2>1, <2>2
  <2>5. ~Ended' => temp' = IF Step' = "write" THEN "empty"
                           ELSE IF Step' = "rename" THEN "whole" ELSE "none"
    BY <1>4, <1>6, <2>1, <2>2 DEF JSONSteps
  <2> QED
    BY <1>3, <2>3, <2>4, <2>5
<1>11. CASE GivesUp
  <2>1. /\ out' = out /\ at' = Span + 1 /\ temp' = "none"
    BY <1>11 DEF GivesUp, NoJSON, Span
  <2>2. Ended'
    BY <1>1, <2>1, Onward
  <2> QED
    BY <1>2, <1>3, <2>1, <2>2
<1> QED
  BY <1>1, <1>7, <1>8, <1>9, <1>10, <1>11

\* Every step of a run is one of these.
LEMMA Named ==
  ASSUME Run
  PROVE  Step \in {"options", "analyzeImage", "analyzeBaseline", "idImage", "idBaseline", "judge",
                   "report", "temp", "write", "rename", "engine", "built", "viewer"}
<1>1. \A side \in Sides : /\ Analyze(side) => Step \in {"analyzeImage", "analyzeBaseline"}
                          /\ ReadID(side) => Step \in {"idImage", "idBaseline"}
  BY DEF Analyze, ReadID, Sides
<1>2. \/ Step \in {"options", "judge", "report", "temp", "write", "rename", "engine", "built", "viewer"}
      \/ \E side \in Sides : Analyze(side) \/ ReadID(side)
  BY DEF Run, Options, Judge, Report, CreateTemp, WriteTemp, Rename, Engine, Built, Viewer
<1> QED
  BY <1>1, <1>2

\* A step exports, or says that it did not.
LEMMA ExportSteps ==
  ASSUME NamedInv, FlowInv, FileInv, ExportInv, Run
  PROVE  ExportInv'
<1>1. /\ IsOptions(opts) /\ at \in 1..(Span + 1) /\ ~Ended /\ UNCHANGED opts
      /\ (Goes \/ Fails \/ Stops \/ Exports \/ GivesUp)
      /\ Span' = Span /\ Span \in Nat /\ at \in 1..Span
  <2>1. IsOptions(opts) /\ at \in 1..(Span + 1) /\ ~Ended
    BY DEF NamedInv, FlowInv, Run
  <2>2. UNCHANGED opts /\ (Goes \/ Fails \/ Stops \/ Exports \/ GivesUp)
    BY Ways DEF NamedInv
  <2> QED
    BY <2>1, <2>2, Onward
<1>2. at = Span /\ opts.json => Step = "rename"
  BY <1>1, Succession DEF Successors, Step
<1>3. Exported' <=> got'.image # <<>> /\ out' = [of |-> got'.image, whole |-> TRUE]
  BY DEF Exported
<1>4. CASE Goes
  <2>1. Step \notin JSONSteps /\ at' = at + 1
    BY <1>4 DEF Goes, Proceed
  <2>2. Ended' <=> at = Span
    BY <1>1, <2>1, Onward
  <2>3. ~(opts.json /\ Ended')
    BY <1>2, <2>1, <2>2 DEF JSONSteps
  <2> QED
    BY <1>1, <2>3 DEF ExportInv
<1>5. CASE Fails
  <2>1. PICK err \in Errors \ {NoError} : Fail(err)
    BY <1>5 DEF Fails
  <2>2. Step \notin JSONSteps /\ got' = got
    BY <1>5 DEF Fails
  <2>3. failed' = err /\ (Ended' => ~(opts.kind = "ci" /\ opts.json /\ got.image # <<>>))
    BY <1>1, <2>1, <2>2, Failing
  <2>4. opts.json /\ opts.kind # "ci" => opts.kind \in {"inspect", "build"}
    BY <1>1 DEF IsOptions
  <2>5. opts.json /\ opts.kind \in {"inspect", "build"} => got.image = <<>>
    <3> SUFFICES ASSUME opts.json, opts.kind \in {"inspect", "build"}, Did("analyzeImage")
                 PROVE  FALSE
      BY DEF FlowInv
    <3>1. PICK m \in 1..Span : m < at /\ Steps[m] = "analyzeImage"
      BY DEF Did
    <3>2. Step \notin {"engine", "built", "options", "analyzeImage"}
      BY <1>1, <3>1, Succession DEF Successors, Step
    <3>3. Step # "viewer"
      BY <1>1, Succession DEF Successors, Step
    <3>4. Step \notin {"judge", "idImage", "idBaseline", "report", "analyzeBaseline"}
      BY <1>1, Succession DEF Successors, Step
    <3>5. Step \in {"options", "analyzeImage", "analyzeBaseline", "idImage", "idBaseline", "judge",
                    "report", "temp", "write", "rename", "engine", "built", "viewer"}
      BY Zenon, Named
    <3> QED
      BY <2>2, <3>2, <3>3, <3>4, <3>5 DEF JSONSteps
  <2>6. opts.json /\ Ended' => got'.image = <<>>
    BY <2>2, <2>3, <2>4, <2>5
  <2>7. failed' # NoError
    BY <2>1, <2>3
  <2> QED
    BY <1>1, <2>6, <2>7 DEF ExportInv
<1>6. CASE Stops
  <2>1. /\ Step = "built" /\ warned' = TRUE
    BY <1>6 DEF Stops
  <2>2. opts.kind = "build"
    BY <1>1, <2>1, Succession DEF Successors, Step
  <2> QED
    BY <1>1, <2>1, <2>2 DEF ExportInv
<1>7. CASE Exports
  <2>1. /\ Step \in JSONSteps /\ at' = at + 1 /\ got' = got
        /\ out' = IF Step = "rename" THEN [of |-> got.image, whole |-> temp = "whole"] ELSE out
    BY <1>7 DEF Exports, Proceed
  <2>2. Ended' <=> at = Span
    BY <1>1, <2>1, Onward
  <2>3. got.image # <<>>
    BY <1>1, <2>1 DEF FlowInv, At
  <2>4. opts.json /\ Ended' => Exported'
    <3> SUFFICES ASSUME opts.json, Ended' PROVE Exported'
      OBVIOUS
    <3>1. Step = "rename"
      BY <1>2, <2>2
    <3>2. temp = "whole"
      BY <1>1, <3>1 DEF FileInv, At
    <3>3. (temp = "whole") = TRUE
      BY <3>2
    <3>4. out' = [of |-> got.image, whole |-> TRUE]
      BY <2>1, <3>1, <3>3
    <3> QED
      BY <1>3, <2>1, <2>3, <3>4
  <2> QED
    BY <1>1, <2>4 DEF ExportInv
<1>8. CASE GivesUp
  <2>1. warned' = TRUE /\ failed' = IF failed = NoError THEN Error("other") ELSE failed
    BY <1>8 DEF GivesUp, NoJSON, JSONError
  <2>2. failed' # NoError
    BY <2>1, ErrorKinds
  <2> QED
    BY <2>1, <2>2 DEF ExportInv
<1> QED
  BY <1>1, <1>4, <1>5, <1>6, <1>7, <1>8

-----------------------------------------------------------------------------
(* What was named *)

\* An image that was named, or none.
Seen(side, list) == list = <<>> \/ \E i \in named[side] : list = <<i>>

\* The images of a run, side by side.
LEMMA NamedParts ==
  NamedInv <=> /\ IsOptions(opts) /\ world \in Worlds
               /\ named \in [Sides -> SUBSET Images]
               /\ got \in [Sides -> Seq(Images)] /\ ids \in [Sides -> Seq(Images)]
               /\ world.image \in named.image /\ world.baseline \in named.baseline
               /\ Seen("image", got.image) /\ Seen("baseline", got.baseline)
               /\ Seen("image", ids.image) /\ Seen("baseline", ids.baseline)
BY DEF NamedInv, Seen, Sides

\* A step analyses what its argument names or has named.
LEMMA NamedSteps ==
  ASSUME NamedInv, FlowInv, Run
  PROVE  NamedInv'
<1>1. /\ IsOptions(opts) /\ world \in Worlds /\ named \in [Sides -> SUBSET Images]
      /\ got \in [Sides -> Seq(Images)] /\ ids \in [Sides -> Seq(Images)]
      /\ world.image \in named.image /\ world.baseline \in named.baseline
      /\ Seen("image", got.image) /\ Seen("baseline", got.baseline)
      /\ Seen("image", ids.image) /\ Seen("baseline", ids.baseline)
  BY NamedParts
<1>2. opts' = opts
  BY <1>1, Ways
<1>3. ASSUME UNCHANGED <<world, named, got, ids>> PROVE NamedInv'
  BY <1>2, <1>3 DEF NamedInv
<1>4. ASSUME NEW side \in Sides, Analyze(side) PROVE NamedInv'
  <2>1. side \in {"image", "baseline"}
    BY DEF Sides
  <2>2. UNCHANGED <<world, named, ids>>
    BY <1>4 DEF Analyze
  <2>3. CASE UNCHANGED got
    BY <1>3, <2>2, <2>3
  <2>4. CASE got' = [got EXCEPT ![side] = <<world[side]>>]
    <3>1. world[side] \in named[side] /\ world[side] \in Images
      BY <1>1, <2>1 DEF Sides
    <3>2. got' \in [Sides -> Seq(Images)]
      BY <1>1, <2>4, <3>1
    <3>3. /\ got'.image = IF side = "image" THEN <<world[side]>> ELSE got.image
          /\ got'.baseline = IF side = "baseline" THEN <<world[side]>> ELSE got.baseline
      BY <1>1, <2>1, <2>4 DEF Sides
    <3>4. Seen("image", got.image)' /\ Seen("baseline", got.baseline)'
      BY <1>1, <2>1, <2>2, <3>1, <3>3 DEF Seen
    <3>5. Seen("image", ids.image)' /\ Seen("baseline", ids.baseline)'
      BY <1>1, <2>2 DEF Seen
    <3> QED
      BY <1>1, <1>2, <2>2, <3>2, <3>4, <3>5 DEF NamedInv, Seen, Sides
  <2> QED
    BY <1>4, <2>3, <2>4 DEF Analyze
<1>5. ASSUME NEW side \in Sides, ReadID(side) PROVE NamedInv'
  <2>1. side \in {"image", "baseline"}
    BY DEF Sides
  <2>2. UNCHANGED <<world, named, got>>
    BY <1>5 DEF ReadID
  <2>3. PICK id \in {<<>>, <<world[side]>>} : ids' = [ids EXCEPT ![side] = id]
    BY <1>5 DEF ReadID
  <2>4. world[side] \in named[side] /\ world[side] \in Images
    BY <1>1, <2>1 DEF Sides
  <2>5. id \in Seq(Images) /\ (id = <<>> \/ \E i \in named[side] : id = <<i>>)
    <3>1. <<>> \in Seq(Images) /\ <<world[side]>> \in Seq(Images)
      BY <2>4
    <3> QED
      BY <2>3, <2>4, <3>1
  <2>6. ids' \in [Sides -> Seq(Images)]
    BY <1>1, <2>3, <2>5
  <2>7. /\ ids'.image = IF side = "image" THEN id ELSE ids.image
        /\ ids'.baseline = IF side = "baseline" THEN id ELSE ids.baseline
    BY <1>1, <2>1, <2>3 DEF Sides
  <2>8. Seen("image", ids.image)' /\ Seen("baseline", ids.baseline)'
    BY <1>1, <2>1, <2>2, <2>5, <2>7 DEF Seen
  <2>9. Seen("image", got.image)' /\ Seen("baseline", got.baseline)'
    BY <1>1, <2>2 DEF Seen
  <2> QED
    BY <1>1, <1>2, <2>2, <2>6, <2>8, <2>9 DEF NamedInv, Seen, Sides
<1>6. CASE Engine
  <2>1. Step = "engine" /\ UNCHANGED <<got, ids>>
    BY <1>6 DEF Engine
  <2>2. at = 1
    <3>1. at \in 1..(Span + 1) /\ ~Ended
      BY DEF FlowInv, Run
    <3>2. at \in 1..Span
      BY <1>1, <1>2, <3>1, Onward
    <3> QED
      BY <1>1, <2>1, <3>2, Succession DEF Successors, Step
  <2>3. got.image = <<>> /\ got.baseline = <<>> /\ ids.image = <<>> /\ ids.baseline = <<>>
    BY <2>2 DEF FlowInv, Sides
  <2>4. CASE UNCHANGED <<world, named>>
    BY <1>3, <2>1, <2>4
  <2>5. ASSUME NEW image \in world.built, world' = [world EXCEPT !.image = image],
               named' = [named EXCEPT !.image = {image}]
        PROVE  NamedInv'
    <3>1. image \in Images
      BY <1>1 DEF Worlds
    <3>2. world' \in Worlds /\ world'.image = image /\ world'.baseline = world.baseline
      BY <1>1, <2>5, <3>1 DEF Worlds
    <3>3. named' \in [Sides -> SUBSET Images]
      BY <1>1, <2>5, <3>1
    <3>4. named'.image = {image} /\ named'.baseline = named.baseline
      BY <1>1, <2>5 DEF Sides
    <3>5. world'.image \in named'.image /\ world'.baseline \in named'.baseline
      BY <1>1, <3>2, <3>4
    <3> QED
      BY <1>1, <1>2, <2>1, <2>3, <3>2, <3>3, <3>5 DEF NamedInv, Sides
  <2> QED
    BY <1>6, <2>4, <2>5 DEF Engine
<1>7. CASE Options \/ Judge \/ Report
  BY <1>3, <1>7 DEF Options, Judge, Report
<1>8. CASE CreateTemp \/ WriteTemp \/ Rename \/ Built \/ Viewer
  BY <1>3, <1>8 DEF CreateTemp, WriteTemp, Rename, Built, Viewer
<1> QED
  BY <1>4, <1>5, <1>6, <1>7, <1>8 DEF Run

\* A reference that is moved still names what it named.
LEMMA NamedMoves ==
  ASSUME NamedInv, Move
  PROVE  NamedInv'
<1>1. /\ IsOptions(opts) /\ world \in Worlds /\ named \in [Sides -> SUBSET Images]
      /\ got \in [Sides -> Seq(Images)] /\ ids \in [Sides -> Seq(Images)]
      /\ world.image \in named.image /\ world.baseline \in named.baseline
      /\ Seen("image", got.image) /\ Seen("baseline", got.baseline)
      /\ Seen("image", ids.image) /\ Seen("baseline", ids.baseline)
  BY NamedParts
<1>2. PICK side \in Sides : \E image \in world.moves[side] :
          /\ world' = [world EXCEPT ![side] = image, !.moves[side] = @ \ {image}]
          /\ named' = [named EXCEPT ![side] = @ \cup {image}]
          /\ UNCHANGED <<opts, got, ids>>
  BY DEF Move
<1>2a. PICK image \in world.moves[side] :
          /\ world' = [world EXCEPT ![side] = image, !.moves[side] = @ \ {image}]
          /\ named' = [named EXCEPT ![side] = @ \cup {image}]
          /\ UNCHANGED <<opts, got, ids>>
  BY <1>2
<1>3. side \in {"image", "baseline"}
  BY DEF Sides
<1>4. world.moves \in [Sides -> SUBSET Images] /\ image \in Images
  BY <1>1 DEF Worlds
<1>5. world' \in Worlds
  BY <1>1, <1>2a, <1>3, <1>4 DEF Worlds
<1>6. /\ world'.image = IF side = "image" THEN image ELSE world.image
      /\ world'.baseline = IF side = "baseline" THEN image ELSE world.baseline
  BY <1>1, <1>2a, <1>3 DEF Worlds
<1>7. named' \in [Sides -> SUBSET Images]
  BY <1>1, <1>2a, <1>4
<1>8. /\ named'.image = IF side = "image" THEN named.image \cup {image} ELSE named.image
      /\ named'.baseline = IF side = "baseline" THEN named.baseline \cup {image} ELSE named.baseline
  BY <1>1, <1>2a, <1>3 DEF Sides
<1>9. world'.image \in named'.image /\ world'.baseline \in named'.baseline
  BY <1>1, <1>3, <1>6, <1>8
<1>10. \A s \in Sides : named[s] \subseteq named'[s]
  BY <1>8 DEF Sides
<1>11. \A s \in Sides : \A list : Seen(s, list) => Seen(s, list)'
  BY <1>10 DEF Seen
<1>12. \A s \in Sides : Seen(s, got[s])' /\ Seen(s, ids[s])'
  <2>1. \A s \in Sides : Seen(s, got[s]) /\ Seen(s, ids[s])
    BY <1>1 DEF Sides
  <2> QED
    BY <1>2a, <1>11, <2>1
<1> QED
  BY <1>1, <1>2a, <1>5, <1>7, <1>9, <1>12 DEF NamedInv, Seen, Sides

\* The exit code is the one of the error the run ended with.
LEMMA EndSteps ==
  ASSUME EndInv, got \in [Sides -> Seq(Images)], Run \/ Exit \/ Move
  PROVE  EndInv'
<1>1. CASE Run
  <2>1. code = Running
    BY <1>1 DEF EndInv, Run
  <2>2. code' = code
    BY <1>1, Ways
  <2> QED
    BY <2>1, <2>2 DEF EndInv, Running
<1>2. CASE Exit
  <2>1. Ended' <=> Ended
    BY <1>2, Staying DEF Exit
  <2>2. /\ Ended /\ code' = exitCodeFor(failed) /\ failed' = failed /\ opts' = opts
        /\ idfile' = IF opts.ref = "own" THEN "absent" ELSE idfile
    BY <1>2 DEF Exit
  <2>3. exitCodeFor(failed)' = exitCodeFor(failed)
    BY <2>2 DEF exitCodeFor
  <2> QED
    BY <2>1, <2>2, <2>3 DEF EndInv
<1>3. CASE Move
  <2>1. code = Running /\ code' = code
    BY <1>3 DEF Move
  <2> QED
    BY <2>1 DEF EndInv, Running
<1> QED
  BY <1>1, <1>2, <1>3

-----------------------------------------------------------------------------
(* The check *)

\* The verdict depends on the options, the configuration and the images.
LEMMA SameJudgement ==
  ASSUME UNCHANGED <<opts, cfg, got>>
  PROVE  /\ OptionsSound' <=> OptionsSound
         /\ JudgeError' <=> JudgeError
         /\ Passed' <=> Passed
         /\ UNCHANGED ids => (NoOp' <=> NoOp)
<1>1. budget' = budget /\ Baseline' = Baseline /\ rules' = rules /\ comparison' = comparison
  BY DEF budget, Baseline, rules, comparison
<1>2. OptionsSound' <=> OptionsSound
  <2>1. ConfigUsed' = ConfigUsed
    BY DEF ConfigUsed
  <2>2. OptionsError(ConfigUsed)' <=> OptionsError(ConfigUsed)
    BY <2>1 DEF OptionsError
  <2> QED
    BY <2>1, <2>2 DEF OptionsSound
<1>3. JudgeError' <=> JudgeError
  BY <1>1 DEF JudgeError
<1>4. sizeChecks' = sizeChecks
  BY <1>1 DEF sizeChecks
<1>5. Passed' <=> Passed
  BY <1>1, <1>4 DEF Passed, SizesPass
<1>6. UNCHANGED ids => (NoOp' <=> NoOp)
  BY <1>1 DEF NoOp
<1> QED
  BY <1>2, <1>3, <1>5, <1>6

\* What is known of a check stays known.
LEMMA CheckKept ==
  ASSUME CheckInv, UNCHANGED <<opts, cfg, got, ids, report, failed>>,
         \A s \in {"options", "analyzeBaseline", "judge", "report"} : Did(s)' => Did(s)
  PROVE  CheckInv'
<1>1. /\ OptionsSound' <=> OptionsSound
      /\ JudgeError' <=> JudgeError
      /\ Passed' <=> Passed
      /\ NoOp' <=> NoOp
  BY SameJudgement
<1>2. TwoSides' <=> TwoSides
  BY DEF TwoSides
<1>3. /\ Did("options")' => Did("options")
      /\ Did("analyzeBaseline")' => Did("analyzeBaseline")
      /\ Did("judge")' => Did("judge")
      /\ Did("report")' => Did("report")
  OBVIOUS
<1> QED
  BY <1>1, <1>2, <1>3 DEF CheckInv

\* An error of any other kind says nothing of the limits.
LEMMA CheckFails ==
  ASSUME failed' = Error("other")
  PROVE  CheckInv'
<1>1. failed' # NoError /\ failed'.kind # "limits"
  BY ErrorKinds
<1> QED
  BY <1>1 DEF CheckInv

\* A check judges what it loaded, with all it was asked.
LEMMA CheckSteps ==
  ASSUME NamedInv, FlowInv, CheckInv, Run
  PROVE  CheckInv'
<1>1. /\ IsOptions(opts) /\ at \in 1..(Span + 1) /\ ~Ended /\ UNCHANGED opts
      /\ got \in [Sides -> Seq(Images)] /\ world \in Worlds
  <2>1. IsOptions(opts) /\ at \in 1..(Span + 1) /\ ~Ended /\ world \in Worlds
        /\ got \in [Sides -> Seq(Images)]
    BY DEF NamedInv, FlowInv, Run
  <2> QED
    BY <2>1, Ways
<1>2. SUFFICES ASSUME opts.kind \in {"ci", "compare"} PROVE CheckInv'
  BY <1>1 DEF CheckInv
<1>3. ASSUME Proceed
      PROVE  /\ failed' = failed
             /\ \A s : Did(s)' <=> Did(s) \/ Step = s
  BY <1>1, <1>3, Onward DEF Proceed
<1>4. ASSUME NEW err, Fail(err) PROVE failed' = err
  BY <1>4 DEF Fail
<1>5. Step \notin JSONSteps => failed = NoError /\ NoError.kind # "limits"
  BY <1>1, Sound, ErrorKinds
<1>6. ASSUME failed' = NoError,
             Did("options")' => OptionsSound',
             Did("analyzeBaseline")' => got'.baseline # <<>>,
             Did("judge")' => ~JudgeError',
             Did("report")' => NoOp' \/ Passed'
      PROVE  CheckInv'
  <2>1. failed'.kind # "limits"
    BY <1>6, ErrorKinds
  <2> QED
    BY <1>6, <2>1 DEF CheckInv
<1>7. CASE Options
  <2>1. Step = "options" /\ Step \notin JSONSteps
    BY <1>7 DEF Options, JSONSteps
  <2>2. ~Did("analyzeBaseline") /\ ~Did("judge") /\ ~Did("report")
    <3>1. At({"options"})
      BY <1>1, <2>1 DEF At
    <3> QED
      BY <1>1, <1>2, <3>1, CheckOrder
  <2>3. ASSUME Proceed, ~OptionsError(ConfigUsed), cfg' = LoadFrom(ConfigUsed) PROVE CheckInv'
    <3>1. OptionsSound'
      <4>1. ConfigUsed' = ConfigUsed
        BY <1>1 DEF ConfigUsed
      <4>2. OptionsError(ConfigUsed)' <=> OptionsError(ConfigUsed)
        BY <1>1, <4>1 DEF OptionsError
      <4> QED
        BY <2>3, <4>1, <4>2 DEF OptionsSound
    <3>2. ~Did("analyzeBaseline")' /\ ~Did("judge")' /\ ~Did("report")' /\ failed' = NoError
      BY <1>3, <1>5, <2>1, <2>2, <2>3
    <3> QED
      BY <1>6, <3>1, <3>2
  <2> QED
    BY <1>4, <1>7, <2>3, CheckFails DEF Options
<1>8. ASSUME NEW side \in Sides, Analyze(side) PROVE CheckInv'
  <2>1. side \in {"image", "baseline"}
    BY DEF Sides
  <2>2. /\ Step = IF side = "image" THEN "analyzeImage" ELSE "analyzeBaseline"
        /\ Step \notin JSONSteps /\ UNCHANGED cfg
    BY <1>8, <2>1 DEF Analyze, JSONSteps
  <2>3. Did("options") /\ ~Did("judge") /\ ~Did("report")
    <3>1. At({"analyzeImage", "analyzeBaseline", "idBaseline"})
      BY <1>1, <2>2 DEF At
    <3> QED
      BY <1>1, <1>2, <3>1, CheckOrder
  <2>4. ASSUME Proceed, got' = [got EXCEPT ![side] = <<world[side]>>] PROVE CheckInv'
    <3>1. failed = NoError
      BY <1>5, <2>2
    <3>2. failed' = NoError /\ ~Did("judge")' /\ ~Did("report")'
      BY <1>3, <2>2, <2>3, <2>4, <3>1
    <3>3. OptionsSound'
      <4>1. OptionsSound
        BY <1>2, <2>3, <3>1 DEF CheckInv
      <4>2. ConfigUsed' = ConfigUsed
        BY <1>1 DEF ConfigUsed
      <4>3. OptionsError(ConfigUsed)' <=> OptionsError(ConfigUsed)
        BY <1>1, <4>2 DEF OptionsError
      <4> QED
        BY <2>2, <4>1, <4>2, <4>3 DEF OptionsSound
    <3>4. Did("analyzeBaseline")' => got'.baseline # <<>>
      <4>1. got'.baseline = IF side = "baseline" THEN <<world[side]>> ELSE got.baseline
        BY <1>1, <2>1, <2>4 DEF Sides
      <4>2. Did("analyzeBaseline") => got.baseline # <<>>
        BY <1>2, <3>1 DEF CheckInv
      <4>3. side = "image" => (Did("analyzeBaseline")' => Did("analyzeBaseline"))
        BY <1>3, <2>2, <2>4
      <4> QED
        BY <2>1, <4>1, <4>2, <4>3
    <3> QED
      BY <1>6, <3>2, <3>3, <3>4
  <2> QED
    BY <1>4, <1>8, <2>4, CheckFails DEF Analyze
<1>9. ASSUME NEW side \in Sides, ReadID(side) PROVE CheckInv'
  <2>1. side \in {"image", "baseline"}
    BY DEF Sides
  <2>2. /\ Step \in {"idImage", "idBaseline"} /\ Step \notin JSONSteps
        /\ UNCHANGED <<opts, cfg, got>> /\ Proceed
    BY <1>9, <2>1 DEF ReadID, JSONSteps
  <2>3. ~Did("report")
    <3>1. At({"idImage"}) \/ At({"analyzeImage", "analyzeBaseline", "idBaseline"})
      BY <1>1, <2>2 DEF At
    <3> QED
      BY <1>1, <1>2, <3>1, CheckOrder
  <2>4. failed' = NoError /\ failed = NoError
    BY <1>3, <1>5, <2>2
  <2>5. /\ Did("options")' <=> Did("options")
        /\ Did("analyzeBaseline")' <=> Did("analyzeBaseline")
        /\ Did("judge")' <=> Did("judge")
        /\ ~Did("report")'
    BY <1>3, <2>2, <2>3
  <2>6. (OptionsSound' <=> OptionsSound) /\ (JudgeError' <=> JudgeError)
    BY <2>2, SameJudgement
  <2> QED
    BY <1>2, <1>6, <2>2, <2>4, <2>5, <2>6 DEF CheckInv
<1>10. CASE Judge
  <2>1. Step = "judge" /\ Step \notin JSONSteps /\ UNCHANGED <<opts, cfg, got>>
    BY <1>10 DEF Judge, JSONSteps
  <2>2. ~Did("report")
    <3>1. At({"judge"})
      BY <1>1, <2>1 DEF At
    <3> QED
      BY <1>1, <1>2, <3>1, CheckOrder
  <2>3. CASE JudgeError
    BY <1>4, <1>10, <2>3, CheckFails DEF Judge
  <2>4. CASE ~JudgeError
    <3>1. Proceed
      BY <1>10, <2>4 DEF Judge
    <3>2. failed' = NoError /\ failed = NoError
      BY <1>3, <1>5, <2>1, <3>1
    <3>3. /\ Did("options")' <=> Did("options")
          /\ Did("analyzeBaseline")' <=> Did("analyzeBaseline")
          /\ ~Did("report")'
      BY <1>3, <2>1, <2>2, <3>1
    <3>4. (OptionsSound' <=> OptionsSound) /\ (JudgeError' <=> JudgeError)
      BY <2>1, SameJudgement
    <3> QED
      BY <1>2, <1>6, <2>1, <2>4, <3>2, <3>3, <3>4 DEF CheckInv
  <2> QED
    BY <2>3, <2>4
<1>11. CASE Report
  <2>1. Step = "report" /\ Step \notin JSONSteps /\ UNCHANGED <<opts, cfg, got, ids>>
    BY <1>11 DEF Report, JSONSteps
  <2>2. Did("options") /\ Did("analyzeImage") /\ (TwoSides => Did("analyzeBaseline")) /\ Did("judge")
    <3>1. At({"report"})
      BY <1>1, <2>1 DEF At
    <3> QED
      BY <1>1, <1>2, <3>1, CheckOrder
  <2>3. failed = NoError /\ ~warned
    BY <1>1, <2>1, Sound
  <2>4. OptionsSound /\ ~JudgeError /\ (TwoSides => got.baseline # <<>>)
    BY <1>2, <2>2, <2>3 DEF CheckInv
  <2>5. /\ OptionsSound' <=> OptionsSound
        /\ JudgeError' <=> JudgeError
        /\ Passed' <=> Passed
        /\ NoOp' <=> NoOp
    BY <2>1, SameJudgement
  <2>6. ASSUME Proceed, NoOp \/ Passed PROVE CheckInv'
    <3>1. failed' = NoError /\ (Did("analyzeBaseline")' <=> Did("analyzeBaseline"))
      BY <1>3, <2>1, <2>3, <2>6
    <3>2. Did("analyzeBaseline") => got'.baseline # <<>>
      BY <1>2, <2>1, <2>3 DEF CheckInv
    <3> QED
      BY <1>6, <2>4, <2>5, <2>6, <3>1, <3>2
  <2>7. ASSUME ~Passed, Fail(Error("limits")),
               report' = [passed |-> Passed, image |-> got.image, id |-> ids.image, sizes |-> sizeChecks]
        PROVE  CheckInv'
    <3>1. failed' = Error("limits")
      BY <1>4, <2>7
    <3>2. failed'.kind = "limits" /\ failed' # NoError
      BY <3>1, ErrorKinds
    <3>3. report'.passed = Passed /\ report'.image = got.image
      BY <2>7
    <3>4. got.image # <<>>
      BY <2>2, <2>3 DEF FlowInv
    <3>5. ~report'.passed /\ report'.image = got'.image
      BY <2>1, <2>7, <3>3
    <3>6. TwoSides' <=> TwoSides
      BY <1>1 DEF TwoSides
    <3> QED
      BY <2>1, <2>4, <2>5, <2>7, <3>2, <3>4, <3>5, <3>6 DEF CheckInv
  <2>8. ASSUME Fail(Error("other")) PROVE CheckInv'
    BY <1>4, <2>8, CheckFails
  <2>9. \/ NoOp /\ Proceed
        \/ /\ report' = [passed |-> Passed, image |-> got.image, id |-> ids.image, sizes |-> sizeChecks]
           /\ IF Passed THEN Proceed ELSE Fail(Error("limits"))
        \/ Fail(Error("other"))
    BY <1>11 DEF Report
  <2> QED
    BY Zenon, <2>6, <2>7, <2>8, <2>9
<1>12. CASE CreateTemp \/ WriteTemp \/ Rename
  <2>1. Step \in JSONSteps /\ UNCHANGED <<opts, cfg, got, ids, report>> /\ (Proceed \/ NoJSON)
    BY <1>12 DEF CreateTemp, WriteTemp, Rename, JSONSteps
  <2>2. CASE Proceed
    <3>1. \A s \in {"options", "analyzeBaseline", "judge", "report"} : Did(s)' => Did(s)
      BY <1>3, <2>1, <2>2 DEF JSONSteps
    <3> QED
      BY <1>3, <2>1, <2>2, <3>1, CheckKept
  <2>3. CASE NoJSON
    <3>1. failed' = IF failed = NoError THEN Error("other") ELSE failed
      BY <2>3 DEF NoJSON, JSONError
    <3>2. CASE failed = NoError
      BY <3>1, <3>2, CheckFails
    <3>3. CASE failed # NoError
      <4>1. failed' = failed
        BY <3>1, <3>3
      <4>2. (OptionsSound' <=> OptionsSound) /\ (JudgeError' <=> JudgeError) /\ (Passed' <=> Passed)
        BY <2>1, SameJudgement
      <4>3. TwoSides' <=> TwoSides
        BY <1>1 DEF TwoSides
      <4> QED
        BY <1>2, <2>1, <3>3, <4>1, <4>2, <4>3 DEF CheckInv
    <3> QED
      BY <3>2, <3>3
  <2> QED
    BY <2>1, <2>2, <2>3
<1>13. CASE Engine \/ Built \/ Viewer
  <2>1. Step \in {"engine", "built", "viewer"}
    BY <1>13 DEF Engine, Built, Viewer
  <2>2. At({"engine", "built", "viewer"})
    BY <1>1, <2>1 DEF At
  <2> QED
    BY <1>1, <1>2, <2>2, CheckOrder
<1> QED
  BY <1>7, <1>8, <1>9, <1>10, <1>11, <1>12, <1>13 DEF Run

-----------------------------------------------------------------------------
(* The verdict *)

\* The limits a check applies are those of the flags, else of the file.
LEMMA LimitsAsked ==
  ASSUME IsOptions(opts), opts.kind \in {"ci", "compare"}, OptionsSound
  PROVE  /\ IsFile(ConfigUsed) /\ ~LoadError(ConfigUsed) /\ ~ParseError(budget)
         /\ budget.max = V!SizeLimit(opts.flags.max, ConfigUsed, "max") /\ IsQuantity(budget.max)
         /\ budget.growth = V!SizeLimit(opts.flags.growth, ConfigUsed, "growth")
         /\ IsQuantity(budget.growth)
         /\ opts.kind = "ci" => /\ validateCLIThresholdFlags(opts.flags)
                                /\ budget.growth.kind # "none" => opts.baseline
                                /\ rules # {} \/ Enabled(budget)
<1>1. IsFile(ConfigUsed)
  BY UsedFile
<1>2. /\ cfg = LoadFrom(ConfigUsed) /\ ~OptionsError(ConfigUsed)
      /\ budget = effectiveSizeBudget(LoadFrom(ConfigUsed).budget, opts.flags)
      /\ rules = buildRules(LoadFrom(ConfigUsed), opts.flags)
  BY DEF OptionsSound, budget, rules
<1>3. ~LoadError(ConfigUsed)
  BY <1>2 DEF OptionsError
<1>4. /\ ~ParseError(budget)
      /\ opts.kind = "ci" => /\ validateCLIThresholdFlags(opts.flags)
                             /\ budget.growth.kind # "none" => opts.baseline
                             /\ rules # {} \/ Enabled(budget)
  BY <1>2 DEF OptionsError
<1>5. /\ opts.flags.max # <<>> => IsQuantity(opts.flags.max[1])
      /\ opts.flags.growth # <<>> => IsQuantity(opts.flags.growth[1])
  BY DEF IsOptions
<1> HIDE DEF budget, rules
<1> QED
  BY <1>1, <1>2, <1>3, <1>4, <1>5, SizesAsked

\* A check that asks for nothing is refused before it begins.
LEMMA LimitThere ==
  ASSUME IsOptions(opts), opts.kind = "ci", OptionsSound, Images # {}
  PROVE  V!SomethingAsked(opts.flags, ConfigUsed)
<1>1. PICK image \in Images : TRUE
  OBVIOUS
<1>2. /\ opts.flags.lowestEfficiency \in Int /\ opts.flags.highestWastedBytes \in Int
      /\ opts.flags.highestUserWastedPercent \in Int
  BY DEF IsOptions
<1>3. rules = buildRules(LoadFrom(ConfigUsed), opts.flags)
  BY DEF OptionsSound, rules
<1>4. IsFile(ConfigUsed) /\ ~LoadError(ConfigUsed) /\ validateCLIThresholdFlags(opts.flags)
  BY LimitsAsked
<1>5. rules # {} => V!SomethingAsked(opts.flags, ConfigUsed)
  BY <1>1, <1>2, <1>3, <1>4, RulesKept
<1>6. Enabled(budget) => V!SomethingAsked(opts.flags, ConfigUsed)
  BY LimitsAsked DEF Enabled, V!SomethingAsked
<1> QED
  BY <1>5, <1>6, LimitsAsked

\* The results of a check that could be made pass only when the images that
\* were analysed keep what was asked, the shares within one part in Decimals,
\* and fail only when they do not keep what is tighter by as much.
LEMMA Judgement ==
  ASSUME IsOptions(opts), opts.kind \in {"ci", "compare"}, OptionsSound, ~JudgeError,
         NEW image \in Images, NEW base \in Images,
         got.image = <<image>>, TwoSides => got.baseline = <<base>>
  PROVE  IF Passed THEN V!Keeps(image, base, 1) ELSE ~V!Keeps(image, base, -1)
<1> DEFINE file == ConfigUsed
           flags == opts.flags
<1>1. /\ IsFile(file) /\ ~LoadError(file) /\ ~ParseError(budget)
      /\ budget.max = V!SizeLimit(flags.max, file, "max") /\ IsQuantity(budget.max)
      /\ budget.growth = V!SizeLimit(flags.growth, file, "growth") /\ IsQuantity(budget.growth)
      /\ opts.kind = "ci" => validateCLIThresholdFlags(flags)
      /\ budget.growth.kind # "none" => TwoSides
  BY LimitsAsked DEF TwoSides
<1>2. got.image[1] = image /\ (TwoSides => got.baseline # <<>> /\ got.baseline[1] = base)
  <2>1. \A x : <<x>> # <<>> /\ <<x>>[1] = x
    OBVIOUS
  <2> QED
    BY Zenon, <2>1
<1>3. TwoSides => Baseline = Size(base)
  BY <1>2 DEF Baseline
<1>4. SizesPass <=> /\ budget.max.kind # "none" => Size(image) <= budget.max.num \div budget.max.den
                    /\ budget.growth.kind # "none" =>
                           Size(image) - Size(base) <= Allowance(budget.growth, Size(base))
  <2>1. sizeChecks = Evaluate(budget, Size(image), Baseline)
    BY <1>2 DEF sizeChecks
  <2>2. SizesPass <=> /\ budget.max.kind # "none" => Size(image) <= budget.max.num \div budget.max.den
                      /\ budget.growth.kind # "none" =>
                             Size(image) - Baseline <= Allowance(budget.growth, Baseline)
    <3> DEFINE checks == Evaluate(budget, Size(image), Baseline)
    <3>1. SizesPass <=> \A i \in DOMAIN checks : checks[i].passed
      BY <2>1 DEF SizesPass
    <3>2. (\A i \in DOMAIN checks : checks[i].passed)
          <=> /\ budget.max.kind # "none" => Size(image) <= budget.max.num \div budget.max.den
              /\ budget.growth.kind # "none" =>
                     Size(image) - Baseline <= Allowance(budget.growth, Baseline)
      BY Zenon, SizeResults
    <3> HIDE DEF checks
    <3> QED
      BY Zenon, <3>1, <3>2
  <2> QED
    BY Zenon, <1>1, <1>3, <2>2
<1>5. budget.growth.kind # "none" => matchingPlatforms(base, image)
  BY <1>1, <1>2 DEF JudgeError
<1>6. SizesPass <=> V!KeepsSizes(flags, file, image, base)
  <2>1. V!KeepsSizes(flags, file, image, base)
        <=> /\ budget.max.kind # "none" => Size(image) <= budget.max.num \div budget.max.den
            /\ budget.growth.kind # "none" =>
                   /\ Size(image) - Size(base) <= Allowance(budget.growth, Size(base))
                   /\ matchingPlatforms(base, image)
    <3> HIDE DEF file, flags
    <3> QED
      BY <1>1, SizesKept
  <2> QED
    BY Zenon, <1>4, <1>5, <2>1
<1>7. opts.kind = "ci" =>
         IF RulesPass(rules, image)
         THEN V!KeepsThresholds(flags, file, image, 1) /\ V!KeepsPathLimits(file, image)
         ELSE ~(V!KeepsThresholds(flags, file, image, -1) /\ V!KeepsPathLimits(file, image))
  <2> SUFFICES ASSUME opts.kind = "ci"
               PROVE  IF RulesPass(rules, image)
                      THEN V!KeepsThresholds(flags, file, image, 1) /\ V!KeepsPathLimits(file, image)
                      ELSE ~(V!KeepsThresholds(flags, file, image, -1) /\ V!KeepsPathLimits(file, image))
    BY Zenon
  <2>1. rules = buildRules(LoadFrom(file), flags)
    BY DEF OptionsSound, rules
  <2>2. /\ flags.lowestEfficiency \in Int /\ flags.highestWastedBytes \in Int
        /\ flags.highestUserWastedPercent \in Int
    BY DEF IsOptions
  <2> HIDE DEF file, flags
  <2> QED
    BY <1>1, <2>1, <2>2, RulesKept
<1>8. opts.kind = "compare" => IF comparison.reasons = {} THEN V!NotWorse(image, base, 1)
                               ELSE ~V!NotWorse(image, base, -1)
  <2>1. opts.kind = "compare" => comparison = CompareAnalysis(base, image)
    BY <1>2 DEF comparison, TwoSides
  <2>2. CompareAnalysis(base, image).reasons = RegressionReasons(base, image)
    BY DEF CompareAnalysis
  <2>3. IF RegressionReasons(base, image) = {} THEN V!NotWorse(image, base, 1)
        ELSE ~V!NotWorse(image, base, -1)
    BY ReasonsKept
  <2> QED
    BY Zenon, <2>1, <2>2, <2>3
<1>9. ASSUME NEW slack
      PROVE  V!Keeps(image, base, slack)
             <=> /\ V!KeepsSizes(flags, file, image, base)
                 /\ opts.kind = "compare" => V!NotWorse(image, base, slack)
                 /\ opts.kind = "ci" => /\ V!KeepsThresholds(flags, file, image, slack)
                                        /\ V!KeepsPathLimits(file, image)
  BY DEF V!Keeps
<1>10. Passed <=> /\ SizesPass
                  /\ opts.kind = "ci" => RulesPass(rules, image)
                  /\ opts.kind = "compare" => comparison.reasons = {}
  BY <1>2 DEF Passed
<1>11. CASE Passed
  BY Zenon, <1>6, <1>7, <1>8, <1>9, <1>10, <1>11
<1>12. CASE ~Passed
  BY Zenon, <1>6, <1>7, <1>8, <1>9, <1>10, <1>12
<1> QED
  BY <1>11, <1>12

\* An image is no worse than itself.
LEMMA SameImage ==
  ASSUME IsOptions(opts), OptionsSound, NoOp, NEW image \in Images
  PROVE  V!Keeps(image, image, 1)
<1>1. opts.kind = "compare" /\ ~Enabled(budget)
  BY DEF NoOp
<1>2. /\ V!SizeLimit(opts.flags.max, ConfigUsed, "max").kind = "none"
      /\ V!SizeLimit(opts.flags.growth, ConfigUsed, "growth").kind = "none"
  BY <1>1, LimitsAsked DEF Enabled
<1>3. V!KeepsSizes(opts.flags, ConfigUsed, image, image)
  BY <1>2 DEF V!KeepsSizes
<1>4. V!NotWorse(image, image, 1)
  <2> DEFINE a == AllIn(image)
             l == LiveIn(image)
             w == WastedBytes(image)
  <2>1. a \in Nat \ {0} /\ l \in Nat /\ w \in Nat /\ Decimals \in Nat
    BY AllBytes, Constants
  <2>2. V!NotWorse(image, image, 1)
        <=> (image.layers # <<>> =>
                w <= w /\ Decimals * (l * a - l * a) <= (1 + 1) * (a * a))
    BY Zenon, NotWorseIs
  <2> HIDE DEF a, l, w
  <2>3. l * a \in Int /\ a * a \in Nat
    BY <2>1
  <2>4. Decimals * (l * a - l * a) <= (1 + 1) * (a * a)
    <3>1. l * a - l * a = 0
      BY <2>3
    <3>2. Decimals * 0 = 0 /\ 0 <= (1 + 1) * (a * a)
      BY <2>1, <2>3
    <3> QED
      BY Zenon, <3>1, <3>2
  <2>5. w <= w
    BY <2>1
  <2> QED
    BY Zenon, <2>2, <2>4, <2>5
<1> QED
  BY <1>1, <1>3, <1>4 DEF V!Keeps

-----------------------------------------------------------------------------
(* The theorems *)

Inv == NamedInv /\ FlowInv /\ EndInv /\ CheckInv /\ FileInv /\ ExportInv

\* The first state satisfies the invariant.
LEMMA InvInit == Init => Inv
<1> SUFFICES ASSUME Init PROVE Inv
  OBVIOUS
<1>1. /\ named = [side \in Sides |-> {world[side]}]
      /\ at = 1 /\ cfg = Default
      /\ got = [side \in Sides |-> <<>>] /\ ids = [side \in Sides |-> <<>>]
      /\ failed = NoError /\ temp = "none" /\ out = [of |-> <<>>, whole |-> TRUE]
      /\ warned = FALSE /\ code = Running
  BY Zenon DEF Init
<1>2. PICK s \in Scenarios : opts = s.opts /\ world = s.world
  BY Zenon DEF Init
<1>3. IsOptions(opts) /\ world \in Worlds
  BY <1>2, CommandAssumption
<1>4. /\ got \in [Sides -> Seq(Images)] /\ ids \in [Sides -> Seq(Images)]
      /\ \A side \in Sides : got[side] = <<>> /\ ids[side] = <<>>
      /\ got.image = <<>>
  <2>1. <<>> \in Seq(Images)
    OBVIOUS
  <2> QED
    BY <1>1, <2>1 DEF Sides
<1>5. world.image \in Images /\ world.baseline \in Images
  BY <1>3 DEF Worlds
<1>6. NamedInv
  <2>1. \A side \in Sides : world[side] \in Images
    BY <1>5 DEF Sides
  <2>2. named \in [Sides -> SUBSET Images] /\ \A side \in Sides : world[side] \in named[side]
    BY <1>1, <2>1
  <2> QED
    BY <1>3, <1>4, <2>2 DEF NamedInv
<1>7. /\ Span \in Nat /\ Span >= 2 /\ Steps[1] \notin JSONSteps /\ 1 \in 1..Span
      /\ ~Ended /\ Step = Steps[1]
  <2>1. Span \in Nat /\ Span >= 2
    BY <1>3, Succession DEF Successors
  <2>2. 1 \in 1..Span
    BY <2>1
  <2>3. 1 < Span
    BY <2>1
  <2>4. ~Ended /\ Step = Steps[1]
    BY <1>1, <2>1 DEF Ended, Step, Span
  <2>5. Steps[1] \notin JSONSteps
    <3>1. opts.kind \in {"ci", "compare", "inspect", "build"} /\ opts.baseline \in BOOLEAN
          /\ opts.json \in BOOLEAN
      BY <1>3 DEF IsOptions
    <3>2. Steps[1] \in {"options", "engine"}
      BY <3>1, GrowthSteps, CISteps, CompareSteps, BuildSteps, InspectSteps
    <3> QED
      BY <3>2 DEF JSONSteps
  <2> QED
    BY <2>1, <2>2, <2>4, <2>5
<1>8. ~At(JSONSteps) /\ \A t : ~Did(t)
  <2>1. \A k \in 1..Span : ~(k < at)
    BY <1>1, <1>7
  <2> QED
    BY <1>7, <2>1 DEF At, Did
<1>9. FlowInv
  <2>1. at \in 1..(Span + 1)
    BY <1>1, <1>7
  <2>2. failed \in Errors /\ failed.kind # "build"
    BY <1>1, ErrorKinds
  <2> QED
    BY <1>1, <1>4, <1>8, <2>1, <2>2 DEF FlowInv
<1>10. EndInv
  BY <1>1 DEF EndInv
<1>11. CheckInv
  <2>1. failed.kind # "limits"
    BY <1>1, ErrorKinds
  <2> QED
    BY <1>8, <2>1 DEF CheckInv
<1>12. FileInv
  <2>1. ~At({"write"}) /\ ~At({"rename"})
    BY <1>7 DEF At, JSONSteps
  <2> QED
    BY <1>1, <2>1 DEF FileInv
<1>13. ExportInv
  BY <1>7 DEF ExportInv
<1> QED
  BY <1>6, <1>9, <1>10, <1>11, <1>12, <1>13 DEF Inv

\* Every step keeps the invariant.
LEMMA InvSteps == Inv /\ [Next]_vars => Inv'
<1> SUFFICES ASSUME Inv, [Next]_vars PROVE Inv'
  OBVIOUS
<1>0. NamedInv /\ FlowInv /\ EndInv /\ CheckInv /\ FileInv /\ ExportInv
      /\ got \in [Sides -> Seq(Images)]
  BY DEF Inv, NamedInv
<1>1. CASE Run
  BY <1>0, <1>1, NamedSteps, FlowSteps, EndSteps, CheckSteps, FileSteps, ExportSteps DEF Inv
<1>2. ASSUME UNCHANGED <<opts, at, cfg, got, ids, failed, report, temp, out, warned>>
      PROVE  FlowInv' /\ CheckInv' /\ FileInv' /\ ExportInv'
  <2>1. (Ended' <=> Ended) /\ Step' = Step /\ \A s : Did(s)' <=> Did(s)
    BY <1>2, Staying
  <2>2. FlowInv'
    BY <1>0, <1>2, Resting
  <2>3. CheckInv'
    BY <1>0, <1>2, <2>1, CheckKept
  <2>4. FileInv'
    BY <1>0, <1>2, <2>1 DEF FileInv, At
  <2>5. ExportInv'
    BY <1>0, <1>2, <2>1 DEF ExportInv, Exported
  <2> QED
    BY <2>2, <2>3, <2>4, <2>5
<1>3. CASE Exit
  <2>1. UNCHANGED <<opts, world, named, at, cfg, got, ids, failed, report, temp, out, warned>>
    BY <1>3 DEF Exit
  <2>2. NamedInv'
    BY <1>0, <2>1 DEF NamedInv
  <2> QED
    BY <1>0, <1>2, <1>3, <2>1, <2>2, EndSteps DEF Inv
<1>4. CASE Move
  <2>1. UNCHANGED <<opts, at, cfg, got, ids, failed, report, temp, out, warned>>
    BY <1>4 DEF Move
  <2> QED
    BY <1>0, <1>2, <1>4, <2>1, NamedMoves, EndSteps DEF Inv
<1>5. CASE UNCHANGED vars
  <2>1. UNCHANGED <<opts, world, named, at, cfg, got, ids, failed, report, idfile, temp, out,
                    warned, code>>
    BY <1>5 DEF vars
  <2>2. NamedInv'
    BY <1>0, <2>1 DEF NamedInv
  <2>3. EndInv'
    <3>1. Ended' <=> Ended
      BY <2>1, Staying
    <3> QED
      BY <1>0, <2>1, <3>1 DEF EndInv, exitCodeFor
  <2> QED
    BY <1>0, <1>2, <2>1, <2>2, <2>3 DEF Inv
<1> QED
  BY <1>1, <1>3, <1>4, <1>5 DEF Next

\* The invariant holds in every state.
LEMMA Invariant == Spec => []Inv
BY InvInit, InvSteps, PTL DEF Spec

\* What the exit code says of the run.
LEMMA Codes ==
  ASSUME NEW err \in Errors
  PROVE  /\ exitCodeFor(err) \in 0..255
         /\ exitCodeFor(err) = 0 => err = NoError
         /\ exitCodeFor(err) = 1 /\ err.kind # "build" => err.kind = "limits"
<1>1. CASE err.kind = "build"
  <2>1. PICK n \in EngineCodes : err = BuildFailed(n)
    BY <1>1, ErrorKinds
  <2>2. n \in (-1..255) \ {0}
    BY CommandAssumption
  <2>3. exitCodeFor(err) = IF n < 0 THEN 1 ELSE n
    BY <1>1, <2>1, ErrorKinds DEF exitCodeFor
  <2>4. n \in Int /\ n >= -1 /\ n <= 255 /\ n # 0
    BY <2>2
  <2>5. exitCodeFor(err) \in 1..255
    BY <2>3, <2>4
  <2> QED
    BY <1>1, <2>5
<1>2. CASE err.kind # "build"
  BY <1>2, ErrorKinds DEF exitCodeFor
<1> QED
  BY <1>1, <1>2

\* An export that was asked for is there, or the run says that it is not, and
\* exit 1 comes with the report of a failed check: JSONError, exitCodeFor.
THEOREM Told == Spec => []NothingSilent
<1>1. Inv => NothingSilent
  <2> SUFFICES ASSUME Inv PROVE NothingSilent
    OBVIOUS
  <2>1. CASE code = Running
    BY <2>1 DEF NothingSilent, Running
  <2>2. CASE code # Running
    <3>1. Ended /\ code = exitCodeFor(failed) /\ failed \in Errors
          /\ (failed.kind = "build" => opts.kind = "build")
      BY <2>2 DEF Inv, EndInv, FlowInv
    <3>2. opts.json /\ got.image # <<>> => Exported \/ warned
      BY <3>1 DEF Inv, ExportInv
    <3>3. code = 0 /\ opts.json => Exported \/ (opts.kind = "build" /\ warned)
      BY <3>1, Codes DEF Inv, ExportInv
    <3>4. code = 1 /\ opts.kind \in {"ci", "compare"} =>
              ~report.passed /\ report.image = got.image /\ got.image # <<>>
      <4>1. code = 1 /\ opts.kind \in {"ci", "compare"} => failed.kind = "limits"
        BY <3>1, Codes
      <4> QED
        BY <4>1 DEF Inv, CheckInv
    <3> QED
      BY <3>2, <3>3, <3>4 DEF NothingSilent
  <2> QED
    BY <2>1, <2>2
<1> QED
  BY <1>1, Invariant, PTL

\* The target of an export holds what it held or the whole export, and no
\* temporary file and no ID file of its own outlives a run that ends.
THEOREM Whole == Spec => []NoHalfFiles
<1>1. Inv => NoHalfFiles
  BY DEF Inv, FileInv, EndInv, NoHalfFiles, At
<1> QED
  BY <1>1, Invariant, PTL

\* The exit code of a check keeps what Verdict promises of it: 0 that the
\* references have named images that keep every limit that was asked for, and
\* that there was one; 1 that they have named images that do not.  Shares of
\* the bytes are held to their limits within one part in Decimals.
LEMMA Verdicts ==
  ASSUME Inv, Exit
  PROVE  V!Finish(code') /\ code' \in 0..255
<1>1. /\ IsOptions(opts) /\ Ended /\ code = Running /\ code' = exitCodeFor(failed)
      /\ UNCHANGED <<opts, named, world>> /\ failed \in Errors /\ at \in 1..(Span + 1)
      /\ (failed.kind = "build" => opts.kind = "build")
      /\ world \in Worlds /\ named \in [Sides -> SUBSET Images]
  BY DEF Inv, NamedInv, FlowInv, Exit
<1>2. UNCHANGED ConfigUsed
  BY <1>1 DEF ConfigUsed
<1>3. /\ code' \in 0..255
      /\ code' = 0 => failed = NoError
      /\ code' = 1 /\ opts.kind # "build" => failed.kind = "limits"
  BY <1>1, Codes
<1>4. ASSUME opts.kind \in {"ci", "compare"}, got.image # <<>>, TwoSides => got.baseline # <<>>
      PROVE  \E image \in named.image, base \in named.baseline :
                /\ image \in Images /\ base \in Images
                /\ got.image = <<image>> /\ (TwoSides => got.baseline = <<base>>)
  <2>1. PICK image \in named.image : got.image = <<image>>
    BY <1>4 DEF Inv, NamedInv, Sides
  <2>2. got.baseline # <<>> => \E base \in named.baseline : got.baseline = <<base>>
    BY DEF Inv, NamedInv, Sides
  <2>3. world.baseline \in named.baseline
    BY DEF Inv, NamedInv, Sides
  <2>4. named.image \subseteq Images /\ named.baseline \subseteq Images
    BY <1>1 DEF Sides
  <2>5. CASE TwoSides
    BY <1>4, <2>1, <2>2, <2>4, <2>5
  <2>6. CASE ~TwoSides
    BY <2>1, <2>3, <2>4, <2>6
  <2> QED
    BY <2>5, <2>6
<1>5. opts.kind \in {"ci", "compare"} /\ failed = NoError =>
          /\ OptionsSound /\ got.image # <<>> /\ (TwoSides => got.baseline # <<>>)
          /\ ~JudgeError /\ (NoOp \/ Passed)
  <2> SUFFICES ASSUME opts.kind \in {"ci", "compare"}, failed = NoError
               PROVE  /\ OptionsSound /\ got.image # <<>> /\ (TwoSides => got.baseline # <<>>)
                      /\ ~JudgeError /\ (NoOp \/ Passed)
    OBVIOUS
  <2>1. /\ Did("options") /\ Did("analyzeImage") /\ (TwoSides => Did("analyzeBaseline"))
        /\ Did("judge") /\ Did("report")
    BY <1>1, CheckOrder
  <2>2. got.image # <<>>
    BY <2>1 DEF Inv, FlowInv
  <2> QED
    BY <2>1, <2>2 DEF Inv, CheckInv
<1>6. opts.kind \in {"ci", "compare"} /\ code' = 0 =>
          \E image \in named.image, base \in named.baseline : V!Keeps(image, base, 1)
  <2> SUFFICES ASSUME opts.kind \in {"ci", "compare"}, failed = NoError
               PROVE  \E image \in named.image, base \in named.baseline : V!Keeps(image, base, 1)
    BY <1>3
  <2>1. CASE Passed
    BY <1>1, <1>4, <1>5, <2>1, Judgement
  <2>2. CASE NoOp
    <3>1. ids.baseline # <<>> /\ ids.baseline = ids.image
      BY <2>2 DEF NoOp
    <3>2. (\E i \in named.image : ids.image = <<i>>) /\ (\E i \in named.baseline : ids.baseline = <<i>>)
      BY <3>1 DEF Inv, NamedInv, Sides
    <3>3. PICK i \in named.image : ids.image = <<i>>
      BY <3>2
    <3>4. PICK j \in named.baseline : ids.baseline = <<j>>
      BY <3>2
    <3>5. i = j /\ i \in Images
      BY <1>1, <3>1, <3>3, <3>4 DEF Sides
    <3>6. V!Keeps(i, i, 1)
      BY <1>1, <1>5, <2>2, <3>5, SameImage
    <3> QED
      BY <3>5, <3>6
  <2> QED
    BY <1>5, <2>1, <2>2
<1>7. opts.kind = "ci" /\ code' = 0 => V!SomethingAsked(opts.flags, ConfigUsed)
  <2>1. Images # {}
    BY <1>1 DEF Worlds
  <2> QED
    BY <1>1, <1>3, <1>5, <2>1, LimitThere
<1>8. opts.kind \in {"ci", "compare"} /\ code' = 1 =>
          \E image \in named.image, base \in named.baseline : ~V!Keeps(image, base, -1)
  <2> SUFFICES ASSUME opts.kind \in {"ci", "compare"}, failed.kind = "limits"
               PROVE  \E image \in named.image, base \in named.baseline : ~V!Keeps(image, base, -1)
    BY <1>3
  <2>1. /\ OptionsSound /\ got.image # <<>> /\ (TwoSides => got.baseline # <<>>)
        /\ ~JudgeError /\ ~Passed
    BY DEF Inv, CheckInv
  <2> QED
    BY <1>1, <1>4, <2>1, Judgement
<1>9. V!IsCheck <=> opts.kind \in {"ci", "compare"}
  BY DEF V!IsCheck
<1>10. code = V!Running
  BY <1>1 DEF Running, V!Running
<1> QED
  BY <1>1, <1>2, <1>3, <1>6, <1>7, <1>8, <1>9, <1>10 DEF V!Finish

\* Every behaviour of a run is one of Verdict: the rules, their floats, the
\* truncated allowances, the report and the order of the analyses implement it.
THEOREM Promised == Spec => KeepsItsWord
<1>1. Init => V!Init
  BY DEF Init, V!Init, Running, V!Running
<1>2. Inv /\ [Next]_vars => [V!Next]_V!vars
  <2> SUFFICES ASSUME Inv, [Next]_vars PROVE [V!Next]_V!vars
    OBVIOUS
  <2>1. ASSUME UNCHANGED <<opts, code>> PROVE [V!Next]_V!vars
    <3>1. UNCHANGED ConfigUsed
      BY <2>1 DEF ConfigUsed
    <3> QED
      BY <2>1, <3>1 DEF V!Next, V!Move, V!vars
  <2>2. CASE Run
    BY <2>1, <2>2, Ways DEF Inv, NamedInv
  <2>3. CASE Move
    BY <2>1, <2>3 DEF Move
  <2>4. CASE Exit
    BY <2>4, Verdicts DEF V!Next
  <2>5. CASE UNCHANGED vars
    BY <2>1, <2>5 DEF vars
  <2> QED
    BY <2>2, <2>3, <2>4, <2>5 DEF Next
<1> QED
  BY <1>1, <1>2, Invariant, PTL DEF Spec, KeepsItsWord, V!Spec

-----------------------------------------------------------------------------
(* Comparisons: what the lists add up to                                   *)

\* What one side lacks counts nothing.
LEMMA OnOneSide ==
  ASSUME NEW T, IsFiniteSet(T), NEW S \in SUBSET T, NEW f, NEW g,
         \A x \in T : g[x] = (IF x \in S THEN f[x] ELSE 0), \A x \in S : f[x] \in Nat
  PROVE  /\ Sum(g, T) = Sum(f, S) /\ \A x \in T : g[x] \in Nat
<1>1. \A x \in T : g[x] \in Nat /\ g[x] \in Int
  OBVIOUS
<1>2. \A x \in T \ S : g[x] = 0
  OBVIOUS
<1>3. Sum(g, T) = Sum(g, S)
  BY <1>1, <1>2, SumZero
<1>4. IsFiniteSet(S) /\ \A x \in S : g[x] = f[x]
  BY FS_Subset
<1>5. Sum(g, S) = Sum(f, S)
  BY <1>4, SumSame
<1> QED
  BY <1>1, <1>3, <1>5

\* One entry for every path whose amount may have changed.
Listed(entry, C) == {entry[p] : p \in C}

\* The entries add up to what the amounts of D grew by.
AddsUp(diffs, new, old, D) ==
    /\ IsFiniteSet(diffs) /\ \A d \in diffs : d.sizeDelta \in Int
    /\ Deltas(diffs) = Sum(new, D) - Sum(old, D)

\* Entries for all that changed add up to the difference of the totals.
LEMMA DifferencesAddUp ==
  ASSUME NEW D, IsFiniteSet(D), NEW C \in SUBSET D, NEW old, NEW new, NEW entry,
         \A p \in D : old[p] \in Int /\ new[p] \in Int,
         \A p \in D \ C : new[p] = old[p],
         \A p \in C : entry[p].path = p /\ entry[p].sizeDelta = new[p] - old[p]
  PROVE  AddsUp(Listed(entry, C), new, old, D)
<1> DEFINE diffs == Listed(entry, C)
           delta == [p \in D |-> new[p] - old[p]]
           f == DeltasOf(diffs)
<1>0. diffs = {entry[p] : p \in C}
  BY DEF Listed
<1>1. \A p \in D : delta[p] \in Int /\ delta[p] = new[p] - old[p]
  OBVIOUS
<1>2. \A p \in D \ C : delta[p] = 0
  OBVIOUS
<1> HIDE DEF delta, diffs
<1>3. Sum(delta, D) = Sum(new, D) - Sum(old, D)
  BY <1>1, SumMinus
<1>4. Sum(delta, D) = Sum(delta, C)
  BY <1>1, <1>2, SumZero
<1>5. \A p \in C : delta[p] = f[entry[p]] /\ delta[p] \in Int
  BY <1>0, <1>1 DEF DeltasOf
<1>6. \A p, q \in C : entry[p] = entry[q] => p = q
  OBVIOUS
<1>7. IsFiniteSet(C)
  BY FS_Subset
<1>8. IsFiniteSet(diffs) /\ Sum(f, diffs) = Sum(delta, C)
  <2> HIDE DEF f
  <2>1. IsFiniteSet({entry[p] : p \in C}) /\ Sum(f, {entry[p] : p \in C}) = Sum(delta, C)
    BY <1>5, <1>6, <1>7, SumOver
  <2> QED
    BY <1>0, <2>1, Zenon
<1>9. \A d \in diffs : d.sizeDelta \in Int
  BY <1>0, <1>1
<1>10. Deltas(diffs) = Sum(f, diffs)
  BY <1>8, DeltasIs
<1> QED
  BY <1>3, <1>4, <1>8, <1>9, <1>10 DEF diffs, AddsUp

\* What was added and what was removed.
LEMMA SignsAddUp ==
  ASSUME NEW diffs, IsFiniteSet(diffs), \A d \in diffs : d.sizeDelta \in Int
  PROVE  LET sum == FileSummary(diffs)
         IN  sum.added \in Nat /\ sum.removed \in Nat /\ sum.added - sum.removed = Deltas(diffs)
<1> DEFINE more == {d \in diffs : d.sizeDelta > 0}
           less == {d \in diffs : d.sizeDelta < 0}
           same == diffs \ more
           f == DeltasOf(diffs)
           zero == [d \in less |-> 0]
           minus == [d \in less |-> -d.sizeDelta]
<1>1. \A d \in diffs : f[d] = d.sizeDelta /\ f[d] \in Int
  BY DEF DeltasOf
<1>2. /\ \A d \in more : DeltasOf(more)[d] = f[d] /\ f[d] \in Nat
      /\ \A d \in less : DeltasOf(less)[d] = f[d]
  BY DEF DeltasOf
<1>3. IsFiniteSet(more) /\ IsFiniteSet(less) /\ IsFiniteSet(same) /\ less \subseteq same
  BY FS_Subset
<1>4. /\ \A d \in same \ less : f[d] = 0
      /\ \A d \in less : /\ zero[d] \in Int /\ f[d] \in Int /\ minus[d] = zero[d] - f[d]
                         /\ zero[d] = 0 /\ minus[d] \in Nat
  BY <1>1
<1>5. more \in SUBSET diffs /\ same \in SUBSET diffs /\ same = diffs \ more
  OBVIOUS
<1>6. FileSummary(diffs) = [added |-> Deltas(more), removed |-> -Deltas(less)]
  BY DEF FileSummary
<1> HIDE DEF more, less, same, f, zero, minus
<1>7. Deltas(more) = Sum(f, more)
  BY <1>2, <1>3, DeltasIs, SumSame
<1>8. Deltas(less) = Sum(f, less)
  BY <1>2, <1>3, DeltasIs, SumSame
<1>9. Deltas(diffs) = Sum(f, diffs)
  BY DeltasIs DEF f
<1>10. Sum(f, diffs) = Sum(f, more) + Sum(f, same)
  <2>1. Sum(f, diffs) = Sum(f, more) + Sum(f, diffs \ more)
    BY <1>1, <1>5, SumSplits
  <2> QED
    BY <1>5, <2>1, Zenon
<1>11. Sum(f, same) = Sum(f, less)
  <2>1. less \in SUBSET same /\ \A d \in same : f[d] \in Int
    BY <1>1, <1>3, <1>5
  <2> QED
    BY <1>3, <1>4, <2>1, SumZero
<1>12. Sum(f, more) \in Nat
  BY <1>2, <1>3, SumNat
<1>13. Sum(minus, less) = Sum(zero, less) - Sum(f, less) /\ Sum(minus, less) \in Nat
  <2>1. \A d \in less : zero[d] \in Int /\ f[d] \in Int /\ minus[d] = zero[d] - f[d]
    BY <1>4
  <2>2. \A d \in less : minus[d] \in Nat
    BY <1>4
  <2> QED
    BY <1>3, <2>1, <2>2, SumMinus, SumNat
<1>14. Sum(zero, less) = 0
  <2>1. /\ \A d \in less : zero[d] \in Int
        /\ {} \in SUBSET less /\ \A d \in less \ {} : zero[d] = 0
    BY <1>4
  <2>2. Sum(zero, less) = Sum(zero, {})
    BY <1>3, <2>1, SumZero
  <2> QED
    BY <1>3, <2>2, SumIs
<1>15. Sum(f, less) \in Int
  <2>1. \A d \in less : f[d] \in Int
    BY <1>4
  <2> QED
    BY <1>3, <2>1, SumInt
<1> QED
  BY <1>6, <1>7, <1>8, <1>9, <1>10, <1>11, <1>12, <1>13, <1>14, <1>15

\* The live bytes of the files.
Live(image) == FoldFunction(LAMBDA f, sum : f.size + sum, 0, image.files)

\* Added less removed bytes is what the live files grew by.
LEMMA FilesAddUp ==
  ASSUME NEW old \in Images, NEW new \in Images
  PROVE  LET sum == FileSummary(buildFileDiffs(old.files, new.files))
         IN  /\ sum.added \in Nat /\ sum.removed \in Nat
             /\ sum.added - sum.removed = Live(new) - Live(old)
<1> DEFINE A == DOMAIN old.files
           B == DOMAIN new.files
           D == A \cup B
           C == {p \in D : \/ p \notin A \/ p \notin B
                           \/ old.files[p] # new.files[p]}
           o == [p \in D |-> IF p \in A THEN old.files[p].size ELSE 0]
           n == [p \in D |-> IF p \in B THEN new.files[p].size ELSE 0]
           entry == [p \in C |-> [path |-> p,
                                  type |-> IF p \notin B THEN "removed"
                                           ELSE IF p \notin A THEN "added" ELSE "modified",
                                  sizeDelta |-> (IF p \in B THEN new.files[p].size ELSE 0)
                                              - (IF p \in A THEN old.files[p].size ELSE 0)]]
           diffs == buildFileDiffs(old.files, new.files)
<1>1. diffs = Listed(entry, C)
  BY DEF buildFileDiffs, Listed
<1>2. IsFiniteSet(A) /\ IsFiniteSet(B) /\ IsFiniteSet(D)
  BY ImageBytes, FS_Union
<1>3. /\ \A p \in A : FileSizes(old)[p] = old.files[p].size /\ FileSizes(old)[p] \in Nat
      /\ \A p \in B : FileSizes(new)[p] = new.files[p].size /\ FileSizes(new)[p] \in Nat
  BY CommandAssumption DEF IsImage, FileSizes
<1>4. Sum(o, D) = Sum(FileSizes(old), A) /\ \A p \in D : o[p] \in Nat
  <2>1. A \in SUBSET D /\ \A p \in D : o[p] = (IF p \in A THEN FileSizes(old)[p] ELSE 0)
    BY <1>3
  <2> HIDE DEF A, D, o
  <2> QED
    BY <1>2, <1>3, <2>1, OnOneSide
<1>5. Sum(n, D) = Sum(FileSizes(new), B) /\ \A p \in D : n[p] \in Nat
  <2>1. B \in SUBSET D /\ \A p \in D : n[p] = (IF p \in B THEN FileSizes(new)[p] ELSE 0)
    BY <1>3
  <2> HIDE DEF B, D, n
  <2> QED
    BY <1>2, <1>3, <2>1, OnOneSide
<1>6. C \in SUBSET D /\ \A p \in D \ C : n[p] = o[p]
  OBVIOUS
<1>7. \A p \in C : entry[p].path = p /\ entry[p].sizeDelta = n[p] - o[p]
  OBVIOUS
<1>8. Live(old) = Sum(FileSizes(old), A) /\ Live(new) = Sum(FileSizes(new), B)
  BY <1>2, LiveIs DEF Live
<1> HIDE DEF A, B, C, D, o, n, entry, diffs
<1>9. /\ IsFiniteSet(diffs) /\ \A d \in diffs : d.sizeDelta \in Int
      /\ Deltas(diffs) = Sum(n, D) - Sum(o, D)
  <2>1. \A p \in D : o[p] \in Int /\ n[p] \in Int
    BY <1>4, <1>5
  <2>2. AddsUp(Listed(entry, C), n, o, D)
    BY <1>2, <1>6, <1>7, <2>1, DifferencesAddUp
  <2> QED
    BY <1>1, <2>2, Zenon DEF AddsUp
<1>10. LET sum == FileSummary(diffs)
       IN  sum.added \in Nat /\ sum.removed \in Nat /\ sum.added - sum.removed = Deltas(diffs)
  BY <1>9, SignsAddUp
<1> QED
  BY <1>4, <1>5, <1>8, <1>9, <1>10 DEF diffs

\* The waste differences are what the waste grew by.
LEMMA WasteAddsUp ==
  ASSUME NEW old \in Images, NEW new \in Images
  PROVE  Deltas(buildWasteDiffs(old.wasted, new.wasted)) = WastedBytes(new) - WastedBytes(old)
<1> DEFINE A == DOMAIN old.wasted
           B == DOMAIN new.wasted
           D == A \cup B
           o == [p \in D |-> IF p \in A THEN old.wasted[p].bytes ELSE 0]
           n == [p \in D |-> IF p \in B THEN new.wasted[p].bytes ELSE 0]
           Entry(p) == [path |-> p, sizeDelta |-> (IF p \in B THEN new.wasted[p].bytes ELSE 0)
                                                - (IF p \in A THEN old.wasted[p].bytes ELSE 0)]
           C == {p \in D : Entry(p).sizeDelta # 0}
           entry == [p \in C |-> Entry(p)]
           diffs == buildWasteDiffs(old.wasted, new.wasted)
<1>1. diffs = Listed(entry, C)
  <2>1. diffs = {d \in {Entry(p) : p \in D} : d.sizeDelta # 0}
    BY DEF buildWasteDiffs
  <2> QED
    BY <2>1 DEF Listed
<1>2. IsFiniteSet(A) /\ IsFiniteSet(B) /\ IsFiniteSet(D)
  BY ImageBytes, FS_Union
<1>3. /\ \A p \in A : WasteSizes(old)[p] = old.wasted[p].bytes /\ WasteSizes(old)[p] \in Nat
      /\ \A p \in B : WasteSizes(new)[p] = new.wasted[p].bytes /\ WasteSizes(new)[p] \in Nat
  BY CommandAssumption DEF IsImage, WasteSizes
<1>4. Sum(o, D) = Sum(WasteSizes(old), A) /\ \A p \in D : o[p] \in Nat
  <2>1. A \in SUBSET D /\ \A p \in D : o[p] = (IF p \in A THEN WasteSizes(old)[p] ELSE 0)
    BY <1>3
  <2> HIDE DEF A, D, o
  <2> QED
    BY <1>2, <1>3, <2>1, OnOneSide
<1>5. Sum(n, D) = Sum(WasteSizes(new), B) /\ \A p \in D : n[p] \in Nat
  <2>1. B \in SUBSET D /\ \A p \in D : n[p] = (IF p \in B THEN WasteSizes(new)[p] ELSE 0)
    BY <1>3
  <2> HIDE DEF B, D, n
  <2> QED
    BY <1>2, <1>3, <2>1, OnOneSide
<1>6. \A p \in C : entry[p].path = p /\ entry[p].sizeDelta = n[p] - o[p]
  OBVIOUS
<1>7. C \in SUBSET D /\ \A p \in D \ C : n[p] = o[p]
  <2>1. \A p \in D : Entry(p).sizeDelta = n[p] - o[p]
    OBVIOUS
  <2>2. \A p \in D \ C : Entry(p).sizeDelta = 0
    OBVIOUS
  <2> HIDE DEF Entry, n, o
  <2>3. \A p \in D : n[p] \in Nat /\ o[p] \in Nat
    BY <1>4, <1>5
  <2> QED
    BY <2>1, <2>2, <2>3
<1>8. WastedBytes(old) = Sum(WasteSizes(old), A) /\ WastedBytes(new) = Sum(WasteSizes(new), B)
  BY <1>2, WastedIs
<1> HIDE DEF A, B, C, D, o, n, entry, diffs
<1>9. Deltas(diffs) = Sum(n, D) - Sum(o, D)
  <2>1. \A p \in D : o[p] \in Int /\ n[p] \in Int
    BY <1>4, <1>5
  <2>2. AddsUp(Listed(entry, C), n, o, D)
    BY <1>2, <1>6, <1>7, <2>1, DifferencesAddUp
  <2> QED
    BY <1>1, <2>2, Zenon DEF AddsUp
<1> QED
  BY <1>4, <1>5, <1>8, <1>9 DEF diffs

-----------------------------------------------------------------------------
(* Comparisons: how the layers are paired                                  *)

\* The k-th place of S is there when S has as many.
LEMMA NthIs ==
  ASSUME NEW S, Places(S), NEW k \in Nat \ {0}
  PROVE  /\ Nth(S, k) # 0 => Nth(S, k) \in S /\ Rank(S, Nth(S, k)) = k
         /\ Nth(S, k) # 0 <=> k <= Cardinality(S)
<1> DEFINE found == {i \in S : Rank(S, i) = k}
<1>1. Nth(S, k) = IF found = {} THEN 0 ELSE Min(found)
  BY DEF Nth, Rank
<1>2. S \subseteq Nat \ {0} /\ IsFiniteSet(S) /\ Cardinality(S) \in Nat
  BY FS_CardinalityType DEF Places
<1>3. found # {} => Min(found) \in found
  <2>1. found \subseteq Nat
    BY <1>2
  <2> HIDE DEF found
  <2> SUFFICES ASSUME found # {} PROVE Min(found) \in found
    OBVIOUS
  <2>2. \E n \in found : \A m \in found : n <= m
    BY <2>1, LeastNat
  <2> QED
    BY <2>2 DEF Min
<1>4. found # {} => k <= Cardinality(S)
  BY RankGrows
<1>5. k <= Cardinality(S) => found # {}
  <2> SUFFICES ASSUME k <= Cardinality(S) PROVE \E i \in S : Rank(S, i) = k
    OBVIOUS
  <2>1. k \in 1..Cardinality(S)
    BY <1>2
  <2> QED
    BY <2>1, RankOnto
<1> HIDE DEF found
<1>6. Nth(S, k) # 0 <=> found # {}
  BY <1>1, <1>2, <1>3 DEF found
<1> QED
  BY <1>1, <1>2, <1>3, <1>4, <1>5, <1>6 DEF found

\* The layers of a sequence.
Stacked(layers) == Len(layers) \in Nat /\ DOMAIN layers = 1..Len(layers)
Of(layers, id) == Positions(layers, "diffID", id)

\* The positions of a content in the layers.
LEMMA PositionsArePlaces ==
  ASSUME NEW layers, Stacked(layers), NEW id
  PROVE  /\ Places(Of(layers, id))
         /\ \A i : i \in Of(layers, id) <=> i \in DOMAIN layers /\ layers[i].diffID = id
<1>1. Of(layers, id) \in SUBSET (1..Len(layers))
  BY DEF Of, Positions, Stacked
<1>2. IsFiniteSet(Of(layers, id))
  <2>1. IsFiniteSet(1..Len(layers))
    BY FS_Interval DEF Stacked
  <2> QED
    BY <1>1, <2>1, FS_Subset
<1> QED
  BY <1>1, <1>2 DEF Of, Positions, Stacked, Places

\* A shared layer's peer is as far among its copies as the layer is among its.
LEMMA SharedIs ==
  ASSUME NEW before, NEW after, Stacked(before), Stacked(after),
         NEW i \in DOMAIN after, NEW id, id = after[i].diffID,
         NEW peer, peer = SharedPeers(before, after)[i]
  PROVE  /\ peer # 0 => /\ id # Unknown /\ peer \in Of(before, id)
                        /\ Rank(Of(before, id), peer) = Rank(Of(after, id), i)
         /\ id # Unknown => (peer # 0 <=> Rank(Of(after, id), i) <= Cardinality(Of(before, id)))
<1> DEFINE k == Rank(Of(after, id), i)
<1>1. peer = IF id = Unknown THEN 0 ELSE Nth(Of(before, id), k)
  BY Zenon DEF SharedPeers, Of, Rank
<1>2. Places(Of(before, id)) /\ Places(Of(after, id)) /\ i \in Of(after, id)
  BY PositionsArePlaces
<1>3. k \in Nat \ {0}
  BY <1>2, RankGrows
<1> HIDE DEF k
<1>4. /\ Nth(Of(before, id), k) # 0 => /\ Nth(Of(before, id), k) \in Of(before, id)
                                       /\ Rank(Of(before, id), Nth(Of(before, id), k)) = k
      /\ Nth(Of(before, id), k) # 0 <=> k <= Cardinality(Of(before, id))
  BY <1>2, <1>3, NthIs
<1> QED
  BY <1>1, <1>4 DEF k

\* No two layers share their content with one old layer.
LEMMA SharedAlone ==
  ASSUME NEW before, NEW after, Stacked(before), Stacked(after),
         NEW i \in DOMAIN after, NEW j \in DOMAIN after,
         SharedPeers(before, after)[i] = SharedPeers(before, after)[j],
         SharedPeers(before, after)[i] # 0
  PROVE  i = j
<1> DEFINE id(k) == after[k].diffID
           peer == SharedPeers(before, after)[i]
<1>1. /\ peer \in Of(before, id(i)) /\ Rank(Of(before, id(i)), peer) = Rank(Of(after, id(i)), i)
      /\ peer \in Of(before, id(j)) /\ Rank(Of(before, id(j)), peer) = Rank(Of(after, id(j)), j)
  BY SharedIs
<1> HIDE DEF peer
<1>2. id(i) = id(j)
  BY <1>1, PositionsArePlaces
<1>3. Rank(Of(after, id(i)), i) = Rank(Of(after, id(i)), j)
  BY <1>1, <1>2, Zenon
<1>4. i \in Of(after, id(i)) /\ j \in Of(after, id(i)) /\ Places(Of(after, id(i)))
  BY <1>2, PositionsArePlaces
<1> QED
  BY <1>3, <1>4, RankGrows

\* What the contents leave without a peer, and the peer of each layer.
LeftOld(before, after) ==
    DOMAIN before \ {SharedPeers(before, after)[i] : i \in DOMAIN after}
LeftNew(before, after) == {i \in DOMAIN after : SharedPeers(before, after)[i] = 0}
Saying(layers, S, c) == {i \in S : layers[i].command = c}

ByCommand(before, after) == CommandPeers(before, after, SharedPeers(before, after))
Peers(before, after) ==
    [i \in DOMAIN after |-> IF SharedPeers(before, after)[i] # 0 THEN SharedPeers(before, after)[i]
                            ELSE ByCommand(before, after)[i]]

\* A command pairs two layers that contents leave and no other such layer has.
LEMMA CommandIs ==
  ASSUME NEW before, NEW after, Stacked(before), Stacked(after),
         NEW i \in DOMAIN after, NEW c, c = after[i].command,
         NEW peer, peer = ByCommand(before, after)[i], peer # 0
  PROVE  /\ c # Unknown /\ i \in LeftNew(before, after) /\ peer \in LeftOld(before, after)
         /\ Saying(after, LeftNew(before, after), c) = {i}
         /\ Saying(before, LeftOld(before, after), c) = {peer}
<1> DEFINE New == Saying(after, LeftNew(before, after), c)
           Old == Saying(before, LeftOld(before, after), c)
<1>1. peer = IF /\ i \in LeftNew(before, after) /\ c # Unknown
                /\ Cardinality(New) = 1 /\ Cardinality(Old) = 1
             THEN CHOOSE j \in Old : TRUE ELSE 0
  <2> DEFINE N(e) == {k \in LeftNew(before, after) : after[k].command = e}
             O(e) == {k \in LeftOld(before, after) : before[k].command = e}
             PeerAt(k) == LET e == after[k].command
                          IN  IF k \in LeftNew(before, after) /\ e # Unknown
                                 /\ Cardinality(N(e)) = 1 /\ Cardinality(O(e)) = 1
                              THEN CHOOSE j \in O(e) : TRUE ELSE 0
  <2>1. ByCommand(before, after) = [k \in DOMAIN after |-> PeerAt(k)]
    BY DEF ByCommand, CommandPeers, LeftOld, LeftNew
  <2>2. New = N(after[i].command) /\ Old = O(after[i].command)
    BY Zenon DEF Saying
  <2> HIDE DEF New, Old, N, O
  <2>3. peer = PeerAt(i)
    BY <2>1
  <2> QED
    BY <2>2, <2>3
<1>2. IsFiniteSet(DOMAIN before) /\ IsFiniteSet(DOMAIN after)
  BY FS_Interval DEF Stacked
<1>3. New \in SUBSET DOMAIN after /\ Old \in SUBSET DOMAIN before
  BY DEF Saying, LeftNew, LeftOld
<1>4. i \in LeftNew(before, after) => i \in New
  BY DEF Saying
<1>5. Old \in SUBSET LeftOld(before, after)
  BY DEF Saying
<1> HIDE DEF New, Old
<1>6. IsFiniteSet(New) /\ IsFiniteSet(Old)
  BY <1>2, <1>3, FS_Subset
<1>7. /\ i \in LeftNew(before, after) /\ c # Unknown
      /\ Cardinality(New) = 1 /\ Cardinality(Old) = 1
      /\ peer = CHOOSE j \in Old : TRUE
  BY <1>1
<1>8. PICK j : Old = {j}
  BY <1>6, <1>7, FS_Singleton
<1>9. PICK k : New = {k}
  BY <1>6, <1>7, FS_Singleton
<1>10. peer = j
  BY <1>7, <1>8
<1>11. New = {i} /\ Old = {peer}
  BY <1>4, <1>7, <1>8, <1>9, <1>10
<1> QED
  BY <1>5, <1>7, <1>11 DEF New, Old

\* No two layers have the same peer, and each has its own content or command.
LEMMA PeersFit ==
  ASSUME NEW before, NEW after, Stacked(before), Stacked(after)
  PROVE  /\ \A i \in DOMAIN after : Peers(before, after)[i] # 0 => Peers(before, after)[i] \in DOMAIN before
         /\ \A i, j \in DOMAIN after :
               Peers(before, after)[i] = Peers(before, after)[j] /\ Peers(before, after)[i] # 0 => i = j
<1> DEFINE shared == SharedPeers(before, after)
           command == ByCommand(before, after)
<1>1. \A i \in DOMAIN after : shared[i] # 0 => shared[i] \in DOMAIN before
  <2> SUFFICES ASSUME NEW i \in DOMAIN after, shared[i] # 0 PROVE shared[i] \in DOMAIN before
    OBVIOUS
  <2>1. shared[i] \in Of(before, after[i].diffID)
    BY SharedIs
  <2> QED
    BY <2>1, PositionsArePlaces
<1>2. \A i, j \in DOMAIN after : shared[i] = shared[j] /\ shared[i] # 0 => i = j
  BY SharedAlone
<1>3. \A i \in DOMAIN after : command[i] # 0 =>
         /\ command[i] \in LeftOld(before, after)
         /\ Saying(after, LeftNew(before, after), after[i].command) = {i}
         /\ Saying(before, LeftOld(before, after), after[i].command) = {command[i]}
  BY CommandIs
<1>4. \A j \in LeftOld(before, after) : j \in DOMAIN before /\ \A i \in DOMAIN after : shared[i] # j
  BY DEF LeftOld
<1>5. \A i \in DOMAIN after :
         Peers(before, after)[i] = IF shared[i] # 0 THEN shared[i] ELSE command[i]
  BY DEF Peers
<1>6. \A i, j \in DOMAIN after : command[i] = command[j] /\ command[i] # 0 => i = j
  <2> SUFFICES ASSUME NEW i \in DOMAIN after, NEW j \in DOMAIN after,
                      command[i] = command[j], command[i] # 0
               PROVE  i = j
    OBVIOUS
  <2>1. /\ Saying(before, LeftOld(before, after), after[i].command) = {command[i]}
        /\ Saying(before, LeftOld(before, after), after[j].command) = {command[i]}
    BY <1>3
  <2>2. after[i].command = after[j].command
    BY <2>1 DEF Saying
  <2>3. {i} = {j}
    BY <1>3, <2>2, Zenon
  <2> QED
    BY <2>3
<1> HIDE DEF shared, command
<1> QED
  BY <1>1, <1>2, <1>3, <1>4, <1>5, <1>6

\* The entries of the comparison: one per new layer, one per old one without
\* a peer.
PeerOf(before, after, i) == IF Peers(before, after)[i] = 0 THEN [size |-> 0, netDelta |-> 0]
                            ELSE before[Peers(before, after)[i]]
Matched(before, after, i) == IF SharedPeers(before, after)[i] # 0 THEN "shared"
                             ELSE IF Peers(before, after)[i] # 0 THEN "command" ELSE "added"
NewEntry(before, after) ==
    [i \in DOMAIN after |->
        [before |-> Peers(before, after)[i], after |-> i, match |-> Matched(before, after, i),
         sizeDelta |-> after[i].size - PeerOf(before, after, i).size,
         netDeltaDiff |-> after[i].netDelta - PeerOf(before, after, i).netDelta]]
Gone(before, after) == DOMAIN before \ {Peers(before, after)[i] : i \in DOMAIN after}
OldEntry(before, after) ==
    [j \in Gone(before, after) |->
        [before |-> j, after |-> 0, match |-> "removed",
         sizeDelta |-> -before[j].size, netDeltaDiff |-> -before[j].netDelta]]

\* The list of buildLayerDiffs, one part for each image.
LEMMA EntriesAre ==
  ASSUME NEW before, NEW after
  PROVE  buildLayerDiffs(before, after)
            = Listed(NewEntry(before, after), DOMAIN after)
              \cup Listed(OldEntry(before, after), Gone(before, after))
<1> DEFINE shared == SharedPeers(before, after)
           command == CommandPeers(before, after, shared)
           Peer(i) == IF shared[i] # 0 THEN shared[i] ELSE command[i]
           New(i) ==
              LET j == Peer(i)
                  old == IF j = 0 THEN [size |-> 0, netDelta |-> 0] ELSE before[j]
              IN  [before |-> j, after |-> i,
                   match |-> IF shared[i] # 0 THEN "shared" ELSE IF j # 0 THEN "command" ELSE "added",
                   sizeDelta |-> after[i].size - old.size,
                   netDeltaDiff |-> after[i].netDelta - old.netDelta]
           Old(j) == [before |-> j, after |-> 0, match |-> "removed",
                      sizeDelta |-> -before[j].size, netDeltaDiff |-> -before[j].netDelta]
           gone == DOMAIN before \ {Peer(i) : i \in DOMAIN after}
<1>1. buildLayerDiffs(before, after) = {New(i) : i \in DOMAIN after} \cup {Old(j) : j \in gone}
  BY Zenon DEF buildLayerDiffs
<1>2. \A i \in DOMAIN after : Peers(before, after)[i] = Peer(i)
  BY Zenon DEF Peers, ByCommand
<1>3. gone = Gone(before, after)
  BY <1>2 DEF Gone
<1>4. \A i \in DOMAIN after : NewEntry(before, after)[i] = New(i)
  <2> SUFFICES ASSUME NEW i \in DOMAIN after PROVE NewEntry(before, after)[i] = New(i)
    OBVIOUS
  <2>1. Peers(before, after)[i] = Peer(i)
    BY <1>2
  <2> QED
    BY <2>1, Zenon DEF NewEntry, PeerOf, Matched
<1>5. \A j \in Gone(before, after) : OldEntry(before, after)[j] = Old(j)
  BY DEF OldEntry
<1> HIDE DEF New, Old, gone
<1>6. Listed(NewEntry(before, after), DOMAIN after) = {New(i) : i \in DOMAIN after}
  BY <1>4 DEF Listed
<1>7. Listed(OldEntry(before, after), Gone(before, after)) = {Old(j) : j \in gone}
  BY <1>3, <1>5 DEF Listed
<1> QED
  BY <1>1, <1>6, <1>7, Zenon

\* The entries of a list add up to the numbers they were made of.
ListSums(entry, C, h) ==
    /\ IsFiniteSet(Listed(entry, C)) /\ \A d \in Listed(entry, C) : d.sizeDelta \in Int
    /\ Deltas(Listed(entry, C)) = Sum(h, C)

\* Different entries count once each.
LEMMA ListAddsUp ==
  ASSUME NEW C, IsFiniteSet(C), NEW entry, NEW h,
         \A p \in C : entry[p].sizeDelta = h[p] /\ h[p] \in Int,
         \A p, q \in C : entry[p] = entry[q] => p = q
  PROVE  ListSums(entry, C, h)
<1> DEFINE diffs == Listed(entry, C)
           f == DeltasOf(diffs)
<1>1. diffs = {entry[p] : p \in C}
  BY DEF Listed
<1> HIDE DEF diffs
<1>2. \A p \in C : h[p] = f[entry[p]] /\ h[p] \in Int
  BY <1>1 DEF DeltasOf
<1>3. IsFiniteSet(diffs) /\ Sum(f, diffs) = Sum(h, C)
  <2> HIDE DEF f
  <2>1. IsFiniteSet({entry[p] : p \in C}) /\ Sum(f, {entry[p] : p \in C}) = Sum(h, C)
    BY <1>2, SumOver
  <2> QED
    BY <1>1, <2>1, Zenon
<1>4. \A d \in diffs : d.sizeDelta \in Int
  BY <1>1
<1>5. Deltas(diffs) = Sum(f, diffs)
  BY <1>3, DeltasIs
<1> QED
  BY <1>3, <1>4, <1>5 DEF diffs, ListSums

\* Two lists with nothing in common add up separately.
LEMMA DeltasSplit ==
  ASSUME NEW X, NEW Y, IsFiniteSet(X), IsFiniteSet(Y), X \cap Y = {},
         \A d \in X : d.sizeDelta \in Int, \A d \in Y : d.sizeDelta \in Int
  PROVE  Deltas(X \cup Y) = Deltas(X) + Deltas(Y)
<1> DEFINE all == X \cup Y
           f == DeltasOf(all)
<1>1. IsFiniteSet(all) /\ X \in SUBSET all /\ all \ X = Y
  BY FS_Union
<1>2. \A d \in all : f[d] = d.sizeDelta /\ f[d] \in Int
  BY DEF DeltasOf
<1>3. /\ \A d \in X : DeltasOf(X)[d] = f[d]
      /\ \A d \in Y : DeltasOf(Y)[d] = f[d]
  BY DEF DeltasOf
<1>4. Deltas(all) = Sum(f, all) /\ Deltas(X) = Sum(DeltasOf(X), X) /\ Deltas(Y) = Sum(DeltasOf(Y), Y)
  BY <1>1, DeltasIs
<1> HIDE DEF all, f
<1>5. Sum(DeltasOf(X), X) = Sum(f, X) /\ Sum(DeltasOf(Y), Y) = Sum(f, Y)
  BY <1>3, SumSame
<1>6. Sum(f, all) = Sum(f, X) + Sum(f, all \ X)
  BY <1>1, <1>2, SumSplits
<1>7. Sum(f, all) = Sum(f, X) + Sum(f, Y)
  BY <1>1, <1>6, Zenon
<1> QED
  BY <1>4, <1>5, <1>7 DEF all

SizesOf(layers) == [k \in DOMAIN layers |-> layers[k].size]
Sized(layers) == Stacked(layers) /\ \A k \in DOMAIN layers : layers[k].size \in Nat

\* Layers are numbered from 1, and finitely many.
LEMMA SizedIsFinite ==
  ASSUME NEW layers, Sized(layers)
  PROVE  Stacked(layers) /\ IsFiniteSet(DOMAIN layers) /\ 0 \notin DOMAIN layers
<1>1. Len(layers) \in Nat /\ DOMAIN layers = 1..Len(layers)
  BY DEF Sized, Stacked
<1>2. IsFiniteSet(1..Len(layers))
  BY <1>1, FS_Interval
<1> QED
  BY <1>1, <1>2 DEF Sized

\* What the layers with a peer add: their sizes less those of the peers.
LEMMA NewEntriesAddUp ==
  ASSUME NEW before, NEW after, Sized(before), Sized(after),
         NEW entry, entry = NewEntry(before, after),
         NEW taken, taken = {Peers(before, after)[i] : i \in DOMAIN after} \cap DOMAIN before
  PROVE  /\ IsFiniteSet(Listed(entry, DOMAIN after))
         /\ \A d \in Listed(entry, DOMAIN after) : d.sizeDelta \in Int
         /\ Deltas(Listed(entry, DOMAIN after))
               = Sum(SizesOf(after), DOMAIN after) - Sum(SizesOf(before), taken)
<1> DEFINE A == DOMAIN after
           peer == Peers(before, after)
           paired == {i \in A : peer[i] # 0}
           a == SizesOf(after)
           b == SizesOf(before)
           h == [i \in A |-> after[i].size - PeerOf(before, after, i).size]
           p == [i \in A |-> PeerOf(before, after, i).size]
<1>1. IsFiniteSet(A) /\ IsFiniteSet(DOMAIN before) /\ 0 \notin DOMAIN before
  BY SizedIsFinite
<1>2. /\ \A i \in A : peer[i] # 0 => peer[i] \in DOMAIN before
      /\ \A i, j \in A : peer[i] = peer[j] /\ peer[i] # 0 => i = j
  BY PeersFit DEF Sized
<1>3. \A i \in A : a[i] = after[i].size /\ a[i] \in Nat
  BY DEF SizesOf, Sized
<1>4. \A j \in DOMAIN before : b[j] = before[j].size /\ b[j] \in Nat
  BY DEF SizesOf, Sized
<1>5. \A i \in A : p[i] = PeerOf(before, after, i).size
  OBVIOUS
<1> HIDE DEF p, a, b
<1>6. \A i \in A : p[i] = IF peer[i] = 0 THEN 0 ELSE b[peer[i]]
  BY <1>2, <1>4, <1>5 DEF PeerOf
<1>7. \A i \in A : p[i] \in Nat
  BY <1>2, <1>4, <1>6
<1>8. \A i \in A : h[i] = a[i] - p[i] /\ entry[i].sizeDelta = h[i] /\ entry[i].after = i
  BY <1>3, <1>5 DEF NewEntry
<1>9. taken = {peer[i] : i \in paired}
  BY <1>1, <1>2
<1>10. paired \in SUBSET A /\ \A i \in A \ paired : p[i] = 0
  BY <1>6
<1>11. \A i \in paired : p[i] = b[peer[i]] /\ p[i] \in Int
  BY <1>6, <1>7
<1>12. \A i, j \in paired : peer[i] = peer[j] => i = j
  BY <1>2
<1> HIDE DEF A, peer, paired, h
<1>13. IsFiniteSet(paired)
  BY <1>1, <1>10, FS_Subset
<1>14. Sum(b, taken) = Sum(p, paired)
  <2>1. Sum(b, {peer[i] : i \in paired}) = Sum(p, paired)
    BY <1>11, <1>12, <1>13, SumOver
  <2> QED
    BY <1>9, <2>1, Zenon
<1>15. Sum(p, A) = Sum(p, paired)
  BY <1>1, <1>7, <1>10, SumZero
<1>16. Sum(h, A) = Sum(a, A) - Sum(p, A)
  <2>1. \A i \in A : a[i] \in Int /\ p[i] \in Int /\ h[i] = a[i] - p[i]
    BY <1>3, <1>7, <1>8
  <2> QED
    BY <1>1, <2>1, SumMinus
<1>17. ListSums(entry, A, h)
  <2>1. \A i \in A : entry[i].sizeDelta = h[i] /\ h[i] \in Int
    BY <1>3, <1>7, <1>8
  <2>2. \A i, j \in A : entry[i] = entry[j] => i = j
    BY <1>8
  <2> QED
    BY <1>1, <2>1, <2>2, ListAddsUp
<1> QED
  BY <1>14, <1>15, <1>16, <1>17 DEF ListSums, A, a, b

\* The layer differences are what the layers grew by.
LEMMA LayersAddUp ==
  ASSUME NEW before, NEW after, Sized(before), Sized(after)
  PROVE  Deltas(buildLayerDiffs(before, after))
            = Sum(SizesOf(after), DOMAIN after) - Sum(SizesOf(before), DOMAIN before)
<1> DEFINE A == DOMAIN after
           B == DOMAIN before
           G == Gone(before, after)
           taken == {Peers(before, after)[i] : i \in A} \cap B
           a == SizesOf(after)
           b == SizesOf(before)
           X == Listed(NewEntry(before, after), A)
           Y == Listed(OldEntry(before, after), G)
           zero == [j \in G |-> 0]
           minus == [j \in G |-> -before[j].size]
<1>1. IsFiniteSet(A) /\ IsFiniteSet(B) /\ G = B \ taken /\ G \in SUBSET B /\ taken \in SUBSET B
  <2>1. G = B \ taken
    BY DEF Gone
  <2> QED
    BY <2>1, SizedIsFinite
<1>2. IsFiniteSet(G) /\ IsFiniteSet(taken)
  BY <1>1, FS_Subset
<1>3. \A i \in A : a[i] \in Int
  BY DEF SizesOf, Sized
<1>4. \A j \in B : b[j] = before[j].size /\ b[j] \in Int
  BY DEF SizesOf, Sized
<1>5. /\ \A j \in G : zero[j] = 0 /\ minus[j] = -before[j].size
      /\ \A j \in G : OldEntry(before, after)[j].sizeDelta = minus[j]
                      /\ OldEntry(before, after)[j].before = j
  BY DEF OldEntry
<1>6. X \cap Y = {}
  <2>1. \A d \in X : d.after \in A
    BY DEF Listed, NewEntry
  <2>2. \A d \in Y : d.after = 0
    BY DEF Listed, OldEntry
  <2>3. 0 \notin A
    BY DEF Sized, Stacked
  <2> QED
    BY <2>1, <2>2, <2>3
<1>7. buildLayerDiffs(before, after) = X \cup Y
  BY EntriesAre
<1>8. /\ IsFiniteSet(X) /\ \A d \in X : d.sizeDelta \in Int
      /\ Deltas(X) = Sum(a, A) - Sum(b, taken)
  BY NewEntriesAddUp
<1> HIDE DEF A, B, G, a, b, zero, minus, taken
<1>9. \A j \in G : /\ minus[j] = zero[j] - b[j] /\ zero[j] \in Int /\ b[j] \in Int
                   /\ minus[j] \in Int
  <2>1. \A j \in G : j \in B
    BY <1>1
  <2> QED
    BY <1>4, <1>5, <2>1
<1>10. ListSums(OldEntry(before, after), G, minus)
  <2>1. \A j \in G : OldEntry(before, after)[j].sizeDelta = minus[j] /\ minus[j] \in Int
    BY <1>5, <1>9
  <2>2. \A i, j \in G : OldEntry(before, after)[i] = OldEntry(before, after)[j] => i = j
    BY <1>5
  <2> QED
    BY <1>2, <2>1, <2>2, ListAddsUp
<1>11. /\ IsFiniteSet(Y) /\ \A d \in Y : d.sizeDelta \in Int
       /\ Deltas(Y) = Sum(minus, G)
  BY <1>10 DEF ListSums
<1> HIDE DEF X, Y
<1>12. Deltas(X \cup Y) = Deltas(X) + Deltas(Y)
  BY <1>6, <1>8, <1>11, DeltasSplit
<1>13. Sum(minus, G) = Sum(zero, G) - Sum(b, G)
  <2>1. \A j \in G : zero[j] \in Int /\ b[j] \in Int /\ minus[j] = zero[j] - b[j]
    BY <1>9
  <2> QED
    BY <1>2, <2>1, SumMinus
<1>14. Sum(zero, G) = 0
  <2>1. /\ \A j \in G : zero[j] \in Int
        /\ {} \in SUBSET G /\ \A j \in G \ {} : zero[j] = 0
    BY <1>5
  <2>2. Sum(zero, G) = Sum(zero, {})
    BY <1>2, <2>1, SumZero
  <2> QED
    BY <1>2, <2>2, SumIs
<1>15. Sum(b, B) = Sum(b, taken) + Sum(b, G)
  <2>1. Sum(b, B) = Sum(b, taken) + Sum(b, B \ taken)
    BY <1>1, <1>4, SumSplits
  <2> QED
    BY <1>1, <2>1, Zenon
<1>16. Sum(a, A) \in Int /\ Sum(b, taken) \in Int /\ Sum(b, G) \in Int
  BY <1>1, <1>3, <1>4, SumInt
<1>17. Deltas(X \cup Y) = Sum(a, A) - Sum(b, B)
  BY <1>8, <1>11, <1>12, <1>13, <1>14, <1>15, <1>16
<1> QED
  BY <1>7, <1>17, Zenon DEF A, B, a, b

\* What CompareAnalyses lists of two images adds up.
THEOREM DifferencesTold == Spec => []DiffsAddUp
<1>1. Inv => DiffsAddUp
  <2> SUFFICES ASSUME Inv, Compared PROVE DiffsAddUp
    BY DEF DiffsAddUp
  <2> DEFINE old == got.baseline[1]
             new == got.image[1]
             sum == FileSummary(comparison.files)
  <2>1. old \in Images /\ new \in Images
    BY DEF Inv, NamedInv, Sides, Compared
  <2>2. /\ comparison.layers = buildLayerDiffs(old.layers, new.layers)
        /\ comparison.files = buildFileDiffs(old.files, new.files)
        /\ comparison.waste = buildWasteDiffs(old.wasted, new.wasted)
    BY DEF comparison, CompareAnalysis
  <2> HIDE DEF old, new
  <2>3. Sized(old.layers) /\ Sized(new.layers)
    <3>1. \A image \in Images : Sized(image.layers)
      <4> SUFFICES ASSUME NEW image \in Images PROVE Sized(image.layers)
        OBVIOUS
      <4>1. image.layers \in Seq(Layers)
        BY CommandAssumption DEF IsImage
      <4>2. \A k \in DOMAIN image.layers : image.layers[k] \in Layers
        BY <4>1
      <4>3. \A k \in DOMAIN image.layers : image.layers[k].size \in Nat
        BY <4>2 DEF Layers
      <4> QED
        BY <4>3, ImageBytes DEF Sized, Stacked
    <3> QED
      BY <2>1, <3>1
  <2>4. Deltas(comparison.layers) = Size(new) - Size(old)
    <3>1. /\ Size(old) = Sum(LayerSizes(old), DOMAIN old.layers)
          /\ Size(new) = Sum(LayerSizes(new), DOMAIN new.layers)
      BY <2>1, ImageBytes, SizeIs
    <3>2. LayerSizes(old) = SizesOf(old.layers) /\ LayerSizes(new) = SizesOf(new.layers)
      BY DEF LayerSizes, SizesOf
    <3>3. Deltas(buildLayerDiffs(old.layers, new.layers))
             = Sum(SizesOf(new.layers), DOMAIN new.layers) - Sum(SizesOf(old.layers), DOMAIN old.layers)
      BY <2>3, LayersAddUp
    <3> QED
      BY <2>2, <3>1, <3>2, <3>3, Zenon
  <2>5. sum.added \in Nat /\ sum.removed \in Nat /\ sum.added - sum.removed = Live(new) - Live(old)
    BY <2>1, <2>2, FilesAddUp
  <2>6. Deltas(comparison.waste) = WastedBytes(new) - WastedBytes(old)
    BY <2>1, <2>2, WasteAddsUp
  <2>7. sum.added >= 0 /\ sum.removed >= 0
    BY <2>5
  <2> QED
    BY <2>4, <2>5, <2>6, <2>7 DEF DiffsAddUp, Live, old, new
<1> QED
  BY <1>1, Invariant, PTL

\* The smaller of two numbers.
LEMMA MinOfTwo ==
  ASSUME NEW a \in Int, NEW b \in Int
  PROVE  Min({a, b}) = IF a <= b THEN a ELSE b
<1> DEFINE m == IF a <= b THEN a ELSE b
<1>1. m \in {a, b} /\ \A y \in {a, b} : m <= y
  OBVIOUS
<1>2. \A x \in {a, b} : (\A y \in {a, b} : x <= y) => x = m
  OBVIOUS
<1> HIDE DEF m
<1> QED
  BY <1>1, <1>2 DEF Min

\* As many of the first m places as there are.
LEMMA RankCount ==
  ASSUME NEW S, Places(S), NEW m \in Nat
  PROVE  Cardinality({i \in S : Rank(S, i) <= m}) = Min({Cardinality(S), m})
<1> DEFINE P == {i \in S : Rank(S, i) <= m}
<1>1. IsFiniteSet(S) /\ Cardinality(S) \in Nat
  BY FS_CardinalityType DEF Places
<1>2. Min({Cardinality(S), m}) = IF Cardinality(S) <= m THEN Cardinality(S) ELSE m
  BY <1>1, MinOfTwo
<1>3. \A i \in S : Rank(S, i) \in 1..Cardinality(S)
  BY RankGrows
<1>4. CASE Cardinality(S) <= m
  <2>1. P = S
    BY <1>1, <1>3, <1>4
  <2> QED
    BY <1>2, <1>4, <2>1
<1>5. CASE ~(Cardinality(S) <= m)
  <2> DEFINE f == [i \in P |-> Rank(S, i)]
  <2>1. f \in [P -> 1..m]
    BY <1>1, <1>3
  <2>2. \A i, j \in P : f[i] = f[j] => i = j
    BY RankGrows
  <2>3. \A k \in 1..m : \E i \in P : f[i] = k
    <3> SUFFICES ASSUME NEW k \in 1..m PROVE \E i \in P : f[i] = k
      OBVIOUS
    <3>1. k \in Nat \ {0} /\ k <= Cardinality(S) /\ k <= m
      BY <1>1, <1>5
    <3>2. Nth(S, k) \in S /\ Rank(S, Nth(S, k)) = k
      BY <3>1, NthIs
    <3> QED
      BY <3>1, <3>2
  <2>4. IsFiniteSet(P)
    BY <1>1, FS_Subset
  <2> HIDE DEF f, P
  <2>5. f \in Bijection(P, 1..m)
    BY <2>1, <2>2, <2>3 DEF Bijection, Injection, IsInjective, Surjection
  <2>6. Cardinality(1..m) = Cardinality(P)
    BY <2>4, <2>5, FS_Bijection DEF ExistsBijection
  <2>7. Cardinality(1..m) = m
    BY FS_Interval
  <2> QED
    BY <1>2, <1>5, <2>6, <2>7 DEF P
<1> QED
  BY <1>4, <1>5

\* What each entry of the layers says.
LEMMA EntriesSay ==
  ASSUME NEW before, NEW after, Stacked(before), Stacked(after)
  PROVE  /\ \A i \in DOMAIN after :
               LET d == NewEntry(before, after)[i]
               IN  /\ d \in buildLayerDiffs(before, after)
                   /\ d.before = Peers(before, after)[i] /\ d.after = i
                   /\ d.match = Matched(before, after, i)
         /\ \A j \in Gone(before, after) :
               LET d == OldEntry(before, after)[j]
               IN  /\ d \in buildLayerDiffs(before, after)
                   /\ d.before = j /\ d.after = 0 /\ d.match = "removed"
         /\ \A d \in buildLayerDiffs(before, after) :
               \/ \E i \in DOMAIN after : d = NewEntry(before, after)[i]
               \/ \E j \in Gone(before, after) : d = OldEntry(before, after)[j]
         /\ 0 \notin DOMAIN after /\ 0 \notin DOMAIN before
<1>1. buildLayerDiffs(before, after) = Listed(NewEntry(before, after), DOMAIN after)
              \cup Listed(OldEntry(before, after), Gone(before, after))
  BY EntriesAre
<1>2. \A i \in DOMAIN after :
         /\ NewEntry(before, after)[i].before = Peers(before, after)[i]
         /\ NewEntry(before, after)[i].after = i
         /\ NewEntry(before, after)[i].match = Matched(before, after, i)
  BY DEF NewEntry
<1>3. \A j \in Gone(before, after) :
         /\ OldEntry(before, after)[j].before = j
         /\ OldEntry(before, after)[j].after = 0
         /\ OldEntry(before, after)[j].match = "removed"
  BY DEF OldEntry
<1>4. 0 \notin DOMAIN after /\ 0 \notin DOMAIN before
  BY DEF Stacked
<1> QED
  BY <1>1, <1>2, <1>3, <1>4 DEF Listed

\* Every layer is in exactly one entry.
LEMMA OneEntryEach ==
  ASSUME NEW before, NEW after, Stacked(before), Stacked(after),
         NEW diffs, diffs = buildLayerDiffs(before, after)
  PROVE  /\ \A i \in DOMAIN after : Cardinality({d \in diffs : d.after = i}) = 1
         /\ \A j \in DOMAIN before : Cardinality({d \in diffs : d.before = j}) = 1
<1>1. ASSUME NEW i \in DOMAIN after
      PROVE  Cardinality({d \in diffs : d.after = i}) = 1
  <2>1. {d \in diffs : d.after = i} = {NewEntry(before, after)[i]}
    BY EntriesSay
  <2> QED
    BY <2>1, FS_Singleton
<1>2. ASSUME NEW j \in DOMAIN before
      PROVE  Cardinality({d \in diffs : d.before = j}) = 1
  <2>1. CASE j \in Gone(before, after)
    <3>1. \A i \in DOMAIN after : Peers(before, after)[i] # j
      BY <2>1 DEF Gone
    <3>2. {d \in diffs : d.before = j} = {OldEntry(before, after)[j]}
      BY <2>1, <3>1, EntriesSay
    <3> QED
      BY <3>2, FS_Singleton
  <2>2. CASE j \notin Gone(before, after)
    <3>1. PICK i \in DOMAIN after : Peers(before, after)[i] = j
      BY <2>2 DEF Gone
    <3>2. j # 0
      BY EntriesSay
    <3>3. \A k \in DOMAIN after : Peers(before, after)[k] = j => k = i
      BY <3>1, <3>2, PeersFit
    <3>4. \A k \in Gone(before, after) : k # j
      BY <2>2
    <3>5. {d \in diffs : d.before = j} = {NewEntry(before, after)[i]}
      BY <3>1, <3>3, <3>4, EntriesSay
    <3> QED
      BY <3>5, FS_Singleton
  <2> QED
    BY <2>1, <2>2
<1> QED
  BY <1>1, <1>2

\* As many copies of a content are shared as both images have.
LEMMA CopiesShared ==
  ASSUME NEW before, NEW after, Stacked(before), Stacked(after),
         NEW diffs, diffs = buildLayerDiffs(before, after), NEW id, id # Unknown
  PROVE  Cardinality({d \in diffs : d.match = "shared" /\ after[d.after].diffID = id
                                                       /\ before[d.before].diffID = id})
            = Min({Cardinality(Of(after, id)), Cardinality(Of(before, id))})
<1> DEFINE S == Of(after, id)
           m == Cardinality(Of(before, id))
           P == {i \in S : Rank(S, i) <= m}
           T == {d \in diffs : d.match = "shared" /\ after[d.after].diffID = id
                                                  /\ before[d.before].diffID = id}
           f == [i \in P |-> NewEntry(before, after)[i]]
<1>1. Places(S) /\ Places(Of(before, id)) /\ \A i : i \in S <=> i \in DOMAIN after /\ after[i].diffID = id
  BY PositionsArePlaces
<1>2. m \in Nat /\ IsFiniteSet(S)
  BY <1>1, FS_CardinalityType DEF Places
<1>3. \A i \in S : /\ SharedPeers(before, after)[i] # 0 <=> i \in P
                   /\ SharedPeers(before, after)[i] # 0 => before[SharedPeers(before, after)[i]].diffID = id
  <2> SUFFICES ASSUME NEW i \in S
               PROVE  /\ SharedPeers(before, after)[i] # 0 <=> i \in P
                      /\ SharedPeers(before, after)[i] # 0 => before[SharedPeers(before, after)[i]].diffID = id
    OBVIOUS
  <2>1. i \in DOMAIN after /\ id = after[i].diffID
    BY <1>1
  <2>2. /\ SharedPeers(before, after)[i] # 0 => SharedPeers(before, after)[i] \in Of(before, id)
        /\ SharedPeers(before, after)[i] # 0 <=> Rank(S, i) <= m
    BY <2>1, SharedIs
  <2> QED
    BY <2>2, PositionsArePlaces
<1> HIDE DEF S, m
<1>4. \A i \in P : /\ f[i] \in T /\ f[i].after = i
  <2> SUFFICES ASSUME NEW i \in P PROVE f[i] \in T /\ f[i].after = i
    OBVIOUS
  <2>1. /\ i \in DOMAIN after /\ after[i].diffID = id /\ SharedPeers(before, after)[i] # 0
        /\ before[SharedPeers(before, after)[i]].diffID = id
    BY <1>1, <1>3
  <2>2. Peers(before, after)[i] = SharedPeers(before, after)[i] /\ Matched(before, after, i) = "shared"
    BY <2>1 DEF Peers, Matched
  <2> QED
    BY <2>1, <2>2, EntriesSay
<1>5. \A d \in T : \E i \in P : f[i] = d
  <2> SUFFICES ASSUME NEW d \in T PROVE \E i \in P : f[i] = d
    OBVIOUS
  <2>1. PICK i \in DOMAIN after : d = NewEntry(before, after)[i]
    BY EntriesSay
  <2>2. Matched(before, after, i) = "shared" /\ after[i].diffID = id
    BY <2>1, EntriesSay
  <2>3. SharedPeers(before, after)[i] # 0
    BY <2>2 DEF Matched
  <2>4. i \in P
    BY <1>1, <1>3, <2>2, <2>3
  <2> QED
    BY <2>1, <2>4
<1>6. IsFiniteSet(P)
  BY <1>2, FS_Subset
<1>7. f \in [P -> T]
  BY <1>4
<1> HIDE DEF f, P, T
<1>8. f \in Bijection(P, T)
  BY <1>4, <1>5, <1>7 DEF Bijection, Injection, IsInjective, Surjection
<1>9. Cardinality(T) = Cardinality(P)
  BY <1>6, <1>8, FS_Bijection DEF ExistsBijection
<1>10. Cardinality(P) = Min({Cardinality(S), m})
  BY <1>1, <1>2, RankCount DEF P
<1> QED
  BY <1>9, <1>10 DEF T, S, m

\* A pair by command: no other layer that the contents leave has the command.
LEMMA CommandsAlone ==
  ASSUME NEW before, NEW after, Stacked(before), Stacked(after),
         NEW diffs, diffs = buildLayerDiffs(before, after),
         NEW d \in diffs, d.match = "command"
  PROVE  /\ before[d.before].command = after[d.after].command
         /\ d.after # 0 /\ after[d.after].command # Unknown
         /\ \A e \in diffs : e # d /\ e.match \in {"added", "removed", "command"} =>
               (IF e.after # 0 THEN after[e.after].command ELSE before[e.before].command)
                  # after[d.after].command
<1> DEFINE shared == SharedPeers(before, after)
           command == ByCommand(before, after)
<1>1. PICK i \in DOMAIN after : d = NewEntry(before, after)[i]
  BY EntriesSay
<1>2. i # 0 /\ d.after = i /\ d.before = Peers(before, after)[i] /\ Matched(before, after, i) = "command"
  BY <1>1, EntriesSay
<1>3. shared[i] = 0 /\ Peers(before, after)[i] = command[i] /\ command[i] # 0
  BY <1>2 DEF Matched, Peers
<1> DEFINE c == after[i].command
<1>4. /\ c # Unknown
      /\ Saying(after, LeftNew(before, after), c) = {i}
      /\ Saying(before, LeftOld(before, after), c) = {command[i]}
  BY <1>3, CommandIs
<1>5. before[command[i]].command = c
  BY <1>4 DEF Saying
<1>6. ASSUME NEW e \in diffs, e # d, e.match \in {"added", "removed", "command"}
      PROVE  (IF e.after # 0 THEN after[e.after].command ELSE before[e.before].command) # c
  <2>1. ASSUME NEW k \in DOMAIN after, e = NewEntry(before, after)[k]
        PROVE  e.after # 0 /\ after[e.after].command # c
    <3>1. k # i /\ e.after = k /\ k # 0 /\ e.match = Matched(before, after, k)
      BY <1>1, <1>6, <2>1, EntriesSay
    <3>2. shared[k] = 0
      BY <1>6, <3>1 DEF Matched
    <3>3. k \in LeftNew(before, after)
      BY <3>2 DEF LeftNew
    <3> QED
      BY <1>4, <3>1, <3>3 DEF Saying
  <2>2. ASSUME NEW j \in Gone(before, after), e = OldEntry(before, after)[j]
        PROVE  e.after = 0 /\ before[e.before].command # c
    <3>1. e.after = 0 /\ e.before = j /\ j \in DOMAIN before /\ j # 0
      BY <2>2, EntriesSay DEF Gone
    <3>2. \A k \in DOMAIN after : Peers(before, after)[k] # j
      BY DEF Gone
    <3>3. \A k \in DOMAIN after : shared[k] # j
      BY <3>1, <3>2 DEF Peers
    <3>4. j \in LeftOld(before, after) /\ j # command[i]
      BY <1>3, <3>1, <3>2, <3>3 DEF LeftOld
    <3> QED
      BY <1>4, <3>1, <3>4 DEF Saying
  <2>3. \/ \E k \in DOMAIN after : e = NewEntry(before, after)[k]
        \/ \E j \in Gone(before, after) : e = OldEntry(before, after)[j]
    BY EntriesSay
  <2> QED
    BY <2>1, <2>2, <2>3
<1> QED
  BY <1>2, <1>3, <1>4, <1>5, <1>6

\* CompareAnalyses pairs the layers of two images fairly.
THEOREM PairedFairly == Spec => []PairsFair
<1>1. Inv => PairsFair
  <2> SUFFICES ASSUME Inv, Compared PROVE PairsFair
    BY DEF PairsFair
  <2> DEFINE old == got.baseline[1].layers
             new == got.image[1].layers
             diffs == comparison.layers
  <2>1. diffs = buildLayerDiffs(old, new)
    BY DEF comparison, CompareAnalysis
  <2>2. Stacked(old) /\ Stacked(new)
    <3>1. got.baseline[1] \in Images /\ got.image[1] \in Images
      BY DEF Inv, NamedInv, Sides, Compared
    <3> QED
      BY <3>1, ImageBytes DEF Stacked
  <2> DEFINE Copies(layers, id) == Cardinality(Positions(layers, "diffID", id))
             Lone(e, d) == e.match \in {"added", "removed", "command"} /\ e # d
             Command(e) == IF e.after # 0 THEN new[e.after].command ELSE old[e.before].command
             Both(id) == {d \in diffs : d.match = "shared" /\ new[d.after].diffID = id
                                                           /\ old[d.before].diffID = id}
  <2> HIDE DEF old, new, diffs
  <2>3. /\ \A i \in DOMAIN new : Cardinality({d \in diffs : d.after = i}) = 1
        /\ \A j \in DOMAIN old : Cardinality({d \in diffs : d.before = j}) = 1
    BY <2>1, <2>2, OneEntryEach
  <2>4. \A id \in {new[i].diffID : i \in DOMAIN new} \ {Unknown} :
           Cardinality(Both(id)) = Min({Copies(new, id), Copies(old, id)})
    <3> SUFFICES ASSUME NEW id, id # Unknown
                 PROVE  Cardinality(Both(id)) = Min({Copies(new, id), Copies(old, id)})
      OBVIOUS
    <3>1. Cardinality(Both(id)) = Min({Cardinality(Of(new, id)), Cardinality(Of(old, id))})
      BY <2>1, <2>2, CopiesShared
    <3> QED
      BY <3>1, Zenon DEF Of
  <2>5. \A d \in diffs : d.match = "command" =>
           /\ old[d.before].command = new[d.after].command /\ Command(d) # Unknown
           /\ ~\E e \in diffs : Lone(e, d) /\ Command(e) = Command(d)
    BY <2>1, <2>2, CommandsAlone
  <2> QED
    BY <2>3, <2>4, <2>5 DEF PairsFair, old, new, diffs
<1> QED
  BY <1>1, Invariant, PTL
=============================================================================
