----------------------------- MODULE MCRounding -----------------------------
(* Rounding for TLC: the default window, windows whose percentages are     *)
(* whole numbers and one whose percentages are not, every whole minimum.   *)
EXTENDS Rounding

MCWindowSizes == {20, 25, 30, 50, 100}

MCMinima == 1..100

=============================================================================
