----------------------------- MODULE SizeBudget -----------------------------
(***************************************************************************)
(* Limits on the uncompressed size of an image and on its growth over a    *)
(* baseline: internal/sizebudget and the part of cmd that picks limits.    *)
(*                                                                         *)
(* The text of a limit is what its grammar tells apart: nothing, a number  *)
(* num/den of bytes, a fraction num/den of the baseline, or neither.       *)
(***************************************************************************)
EXTENDS Integers, Sequences

CONSTANT MaxInt64    \* the largest byte count

ASSUME MaxInt64Assumption == MaxInt64 \in Nat

Unset == [kind |-> "none", num |-> 0, den |-> 1]
Bytes(n) == [kind |-> "bytes", num |-> n, den |-> 1]
Percent(n) == [kind |-> "percent", num |-> n, den |-> 100]

\* What the grammar makes of a text: a fraction with a kind.
IsQuantity(q) ==
    /\ q.kind \in {"none", "bytes", "percent", "bad"}
    /\ q.num \in Nat /\ q.den \in Nat \ {0}

\* A whole number of bytes that fits: what byteValue accepts.
WholeBytes(q) == q.num % q.den = 0 /\ q.num \div q.den <= MaxInt64

ParseError(c) ==
    \/ c.max.kind \in {"bad", "percent"}
    \/ c.max.kind = "bytes" /\ ~WholeBytes(c.max)
    \/ c.growth.kind = "bad"
    \/ c.growth.kind = "bytes" /\ ~WholeBytes(c.growth)

Enabled(c) == c.max.kind # "none" \/ c.growth.kind # "none"

\* A flag that was given, <<its text>>, replaces the limit of the
\* configuration; one that is empty turns it off.
effectiveSizeBudget(budget, flags) ==
    [max    |-> IF flags.max = <<>> THEN budget.max ELSE flags.max[1],
     growth |-> IF flags.growth = <<>> THEN budget.growth ELSE flags.growth[1]]

\* Mutant: the allowance of a percentage is rounded up.
RoundedUp(q, baseline) ==
    IF q.kind = "percent" THEN (q.num * baseline + q.den - 1) \div q.den ELSE q.num \div q.den

\* Quo truncates; an allowance is never negative.
Allowance(q, baseline) ==
    IF q.kind = "percent" THEN (q.num * baseline) \div q.den ELSE q.num \div q.den

NoBaseline == -1

EvaluateError(c, current, baseline) ==
    /\ c.growth.kind # "none"
    /\ \/ baseline = NoBaseline
       \/ c.growth.kind = "percent" /\ baseline = 0 /\ current > 0
       \/ Allowance(c.growth, baseline) > MaxInt64

\* Limits.Evaluate where it returns no error.
Evaluate(c, current, baseline) ==
    LET size == [name |-> "image size", actual |-> current, limit |-> c.max.num \div c.max.den,
                 passed |-> current <= c.max.num \div c.max.den]
        delta == current - baseline
        room == Allowance(c.growth, baseline)
        growth == [name |-> "image growth", actual |-> delta, limit |-> room,
                   passed |-> delta <= room]
    IN  (IF c.max.kind = "none" THEN <<>> ELSE <<size>>)
        \o (IF c.growth.kind = "none" THEN <<>> ELSE <<growth>>)

matchingPlatforms(before, after) == before.platform # "" /\ before.platform = after.platform

\* What is left of a limit; a reduction uses none of it.
budgetHeadroom(check) == check.limit - (IF check.actual > 0 THEN check.actual ELSE 0)
=============================================================================
