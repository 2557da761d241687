-------------------------- MODULE MCDropboxCopies --------------------------
(***************************************************************************)
(* Three verifications at once, and another after one of them; objects of  *)
(* two pieces, so that a copy can be torn.                                 *)
(***************************************************************************)
EXTENDS DropboxCopies, TLC

CONSTANTS w1, w2, w3

MCWorkers == {w1, w2, w3}
MCPieces == 2
MCMaxVerifications == 4

Symmetry == Permutations(MCWorkers)

=============================================================================
