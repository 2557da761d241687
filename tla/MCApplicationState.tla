------------------------- MODULE MCApplicationState -------------------------
(***************************************************************************)
(* Two uploads at once, five in all, of three files: a list of two entries *)
(* gets full, an entry falls out of it and another moves to its front.     *)
(***************************************************************************)
EXTENDS ApplicationState, TLC

CONSTANTS u1, u2, a, b, c

MCWorkers == {u1, u2}
MCFiles == {a, b, c}
MCMaxRecent == 2
MCMaxUploads == 5

Symmetry == Permutations(MCWorkers) \cup Permutations(MCFiles)

=============================================================================
