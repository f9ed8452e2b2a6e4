----------------------------- MODULE MCFFIHooks -----------------------------
(* FFIHooks with two methods and two mods.                                 *)
EXTENDS FFIHooks, TLC

CONSTANTS m1, m2, a, b

Symmetry == Permutations({m1, m2}) \cup Permutations({a, b})
=============================================================================
