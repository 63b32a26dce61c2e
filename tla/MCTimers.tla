------------------------------ MODULE MCTimers ------------------------------
(* Timers for TLC: terminals are alike. *)
EXTENDS Timers, TLC

Symmetry == Permutations(Terminal)
=============================================================================
