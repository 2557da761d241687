--------------------------- MODULE MCVerification ---------------------------
(***************************************************************************)
(* The two halves of a verification.  Either a call of GenerateIndexes()   *)
(* runs, beside a batch of no files, or a batch is challenged and proved,  *)
(* beside a call that was refused.                                         *)
(*                                                                         *)
(* Bytes are bits, a sector has two and a block two sectors.  Of the files *)
(* that are audited alone, one ends with a block and the other in the      *)
(* middle of the second sector of its third block; those audited together  *)
(* have one and two blocks, whichever comes first.  The sectors can hold   *)
(* the prime itself, which is zero to the field.  Up to two bits change,   *)
(* any tail may be missing, and any file may have grown by one byte.       *)
(***************************************************************************)
EXTENDS MCChallengeIndexes, CompactProof

MCBase == 2
MCPrime == 3
MCSectorSize == 2
MCNumSectors == 2
MCBatches ==
    {<<>>,
     << <<1, 0, 0, 1, 1, 1, 0, 0>> >>,
     << <<0, 1, 1, 0, 1, 1, 0, 0, 1, 0, 1>> >>,
     << <<1, 0, 1, 1, 1>>, <<0, 1, 1>> >>,
     << <<1, 1>>, <<0, 1, 1, 0, 1, 0>> >>}
MCAlterations == 2
MCExtensions == {<<0>>, <<1>>}
MCAlphaValues == {0, 2}
MCPrfValues == {4}
MCWeightValues == {1, 5}

RefusedCall ==
    /\ request = [kind |-> "Verify", num_blocks |-> 0, percent |-> -1]
    /\ stage = "refused"
    /\ num_blocks_checked = 0
    /\ selection_range = 0
    /\ start = 0
    /\ chosen = <<>>
    /\ drawable = {}

VerificationInit ==
    \/ files = <<>> /\ Init /\ ChallengeInit
    \/ Init /\ RefusedCall

VerificationNext ==
    \/ ChallengeNext /\ UNCHANGED vars
    \/ Next /\ UNCHANGED call_vars

VerificationSpec ==
    VerificationInit /\ [][VerificationNext]_<<call_vars, vars>>

=============================================================================
