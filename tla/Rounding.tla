------------------------------ MODULE Rounding ------------------------------
(* JavaScript's Math.round, by which money, attributes of offers (Deal) and   *)
(* scores (ClaimAudit) become whole numbers.                                  *)
EXTENDS Integers

\* Math.round of n / d, for n >= 0 and d > 0: a half goes up.
Rounded(n, d) == (2 * n + d) \div (2 * d)
=============================================================================
