----------------------------- MODULE MCARDurable -----------------------------
(***************************************************************************)
(* A small instance of ARDurable for TLC.                                  *)
(***************************************************************************)
EXTENDS ARDurable, TLC

CONSTANTS m1, m2, x1, x2, r1, r2

EveryAction == Outcomes \cup Reviews

Symmetry == Permutations(Callers) \cup Permutations(Remittances)
                                   \cup Permutations(References)
=============================================================================
