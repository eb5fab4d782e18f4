----------------------------- MODULE MCAllowList -----------------------------
(* AllowList with two labels beside "", for TLC.                               *)
EXTENDS AllowList, TLC

CONSTANTS a, b

MCLabels == {a, b, Empty}

AllowSymmetry == Permutations(Callers) \cup Permutations(Starts)
                   \cup Permutations({a, b})
=============================================================================
