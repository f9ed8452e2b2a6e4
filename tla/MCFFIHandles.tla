---------------------------- MODULE MCFFIHandles ----------------------------
(* FFIHandles with three variables of mods and two objects; the numbers run *)
(* out at 4.                                                                *)
EXTENDS FFIHandles, TLC

CONSTANTS a, b, v1, v2, v3

Symmetry == Permutations({a, b}) \cup Permutations({v1, v2, v3})
=============================================================================
