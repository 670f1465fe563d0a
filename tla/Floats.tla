------------------------------- MODULE Floats -------------------------------
(***************************************************************************)
(* The floating-point numbers that the efficiency of an image is computed  *)
(* and compared with: Go's float64, without signs.                         *)
(*                                                                         *)
(* A float is a natural number of smallest floats, One of which make 1.    *)
(* Floats lie as far apart as one of the Gaps, and Unit gaps reach the     *)
(* end of the range where that is so: Unit is 2^53, the gaps are powers of *)
(* two, and Ulp, the gap below 1, is 2^1021.  Decimals is 10^9: rules and  *)
(* comparisons look at nine places.                                        *)
(***************************************************************************)
EXTENDS Integers

CONSTANTS Unit, Gaps, Ulp, Decimals

One == Unit * Ulp

\* There are gaps for fractions up to 1 and for numbers up to Decimals; none
\* is wider than a half, and one part in Decimals is ten ulps at least.
ASSUME FloatAssumption ==
    /\ Unit \in Nat /\ Ulp \in Gaps /\ Gaps \subseteq Nat \ {0}
    /\ \A gap \in Gaps : 2 * gap <= One
    /\ \E gap \in Gaps : Decimals * Ulp <= gap
    /\ Decimals \in Nat \ {0} /\ Decimals % 100 = 0 /\ 10 * Decimals <= Unit

\* math.Round, of what is not negative: a half is rounded up.
Round(n, d) == (2 * n + d) \div (2 * d)

\* The nearest whole number, the even one of two.
NearestEven(n, d) ==
    LET below == n \div d
        rest == 2 * (n % d)
    IN  IF rest > d \/ (rest = d /\ below % 2 = 1) THEN below + 1 ELSE below

\* How far apart the floats around n/d are.
Spacing(n, d) ==
    LET enough == {gap \in Gaps : n * One <= gap * Unit * d}
    IN  CHOOSE gap \in enough : \A other \in enough : gap <= other

\* The float nearest to n/d.
Float(n, d) == LET gap == Spacing(n, d)
               IN  gap * NearestEven(n * One, d * gap)
=============================================================================
