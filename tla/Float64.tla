------------------------------ MODULE Float64 -------------------------------
(***************************************************************************)
(* float64(s) / float64(l) * 100 as Window.Availability computes it        *)
(* (internal/monitor/window.go), with the two roundings to 53 significant  *)
(* bits, in integers small enough for TLC.                                 *)
(*                                                                         *)
(* A percentage is compared with a whole number, so what matters is the    *)
(* largest whole number that is not above it.  When 100 * s / l is no      *)
(* whole number it is at least 1 / l away from one, far more than the      *)
(* roundings can move it, and the integer quotient is right.  When it is a *)
(* whole number m the result is m or the float64 just around m, and        *)
(* FallsShort tells which.                                                 *)
(***************************************************************************)
EXTENDS Integers

(* Arithmetic that TLC has built in and the provers have not.              *)
ASSUME Doubling == 2^0 = 1 /\ \A n \in 0..29 : 2^(n + 1) = 2 * 2^n

(* 2^(52 + a) modulo l, in factors of which no product exceeds l^2.        *)
PowerModulo(a, l) == ((((2^26 % l) * (2^26 % l)) % l) * (2^a % l)) % l

(* The a with 1 <= 2^a * s / l < 2, for 0 < s <= l.                        *)
Scale(s, l) == CHOOSE a \in 0..30 : l <= s * 2^a /\ s * 2^a < 2 * l

Log2(m) == CHOOSE b \in 0..6 : 2^b <= m /\ m < 2^(b + 1)

(* s / l is rounded to q / 2^e with e = 52 + Scale(s, l), which makes q a  *)
(* number of 53 bits.  The error made is Error(s, l) / (l * 2^e).  There   *)
(* are no ties: half a unit would make s / l representable.                *)
Error(s, l) ==
    LET rest == (s * PowerModulo(Scale(s, l), l)) % l
    IN  IF 2 * rest < l THEN -rest ELSE l - rest

(* The product with 100 falls short of m by -100 * Error / (l * 2^e), and  *)
(* is rounded to m unless that exceeds half of the distance from m to its  *)
(* predecessor; a tie goes to m, whose last bit is 0.                      *)
FallsShort(s, l, m) ==
    LET b == Log2(m)
        half == IF m = 2^b THEN 2 ELSE 1
    IN  -200 * Error(s, l) * half > l * 2^Scale(s, l) * 2^b

(* The largest whole number that is not above the computed percentage of s *)
(* successes out of l results.                                             *)
Percent64(s, l) ==
    LET m == (100 * s) \div l
    IN  IF s > 0 /\ (100 * s) % l = 0 /\ FallsShort(s, l, m) THEN m - 1 ELSE m

=============================================================================
