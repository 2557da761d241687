------------------------- MODULE MCChallengeIndexes -------------------------
(***************************************************************************)
(* Files of up to seven blocks, percentages that leave a remainder and     *)
(* that do not, one below and one far above what is allowed.  Ints of ten  *)
(* bits end at 511, so that a challenge for more than five blocks in full  *)
(* overflows.                                                              *)
(***************************************************************************)
EXTENDS ChallengeIndexes

MCBlockCounts == 0 .. 7
MCPercents == {-1, 0, 1, 20, 34, 50, 67, 80, 99, 100, 250}
MCIntWidth == 10

=============================================================================
