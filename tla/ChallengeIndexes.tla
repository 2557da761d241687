-------------------------- MODULE ChallengeIndexes --------------------------
(***************************************************************************)
(* client/verify/client: how the blocks of a challenge are chosen.         *)
(* GenerateIndexes() splits the file into stretches of selection_range     *)
(* blocks and draws one block from each.  Verify() checks the percentage   *)
(* it is asked for first, BatchVerify() does not.  int arithmetic wraps at *)
(* IntWidth bits, which is what the signed overflow compiles to; the       *)
(* quotients of doubles that are converted to int are truncated exactly.   *)
(***************************************************************************)
EXTENDS Integers, Sequences, FiniteSets

CONSTANTS
    BlockCounts,    \* values of PublicFileTag::num_blocks
    Percents,       \* values of percent_blocks a caller may pass
    IntWidth        \* bits of an int, 32 in the code

ASSUME BlockCountsAssumption == BlockCounts \subseteq Nat
ASSUME PercentsAssumption == Percents \subseteq Int
ASSUME IntWidthAssumption == 2 ^ IntWidth \in Nat \ {0}

VARIABLES
    request,            \* the call: its kind, the file's blocks, the percentage
    stage,              \* how far the call is
    num_blocks_checked,
    selection_range,
    start,
    chosen,            \* the block indexes put into the challenge so far
    drawable            \* history: the blocks a draw so far could have returned

call_vars == <<request, stage, num_blocks_checked, selection_range, start,
               chosen, drawable>>

Smaller(a, b) == IF a <= b THEN a ELSE b

Wrapped(x) ==
    LET m == x % (2 ^ IntWidth)
    IN  IF 2 * m >= 2 ^ IntWidth THEN m - 2 ^ IntWidth ELSE m

Product == request.num_blocks * request.percent

\* std::max(..., 1.0), converted to int
BlocksChecked ==
    IF Wrapped(Product) < 100 THEN 1 ELSE Wrapped(Product) \div 100

\* A fault: the range is rounded up.
RangeRoundedUp(checked) == (request.num_blocks + checked - 1) \div checked

SelectionRange(checked) == request.num_blocks \div checked

-----------------------------------------------------------------------------
ChallengeInit ==
    /\ request \in [kind : {"Verify", "BatchVerify"},
                    num_blocks : BlockCounts, percent : Percents]
    /\ stage = "called"
    /\ num_blocks_checked = 0
    /\ selection_range = 0
    /\ start = 0
    /\ chosen = <<>>
    /\ drawable = {}

PercentAllowed == request.percent \in 0 .. 100

\* DoVerify() throws std::logic_error.
Refuse ==
    /\ stage = "called"
    /\ request.kind = "Verify" /\ ~PercentAllowed
    /\ stage' = "refused"
    /\ UNCHANGED <<request, num_blocks_checked, selection_range, start, chosen,
                   drawable>>

\* A fault: at least one block is not made sure of.
BeginWithoutMinimum ==
    /\ stage = "called"
    /\ request.kind = "Verify" => PercentAllowed
    /\ stage' = "drawing"
    /\ num_blocks_checked' = Wrapped(Product) \div 100
    /\ selection_range' = IF num_blocks_checked' <= 0 THEN 0
                          ELSE SelectionRange(num_blocks_checked')
    /\ UNCHANGED <<request, start, chosen, drawable>>

\* GenerateIndexes() computes how many blocks it takes from which stretches.
Begin ==
    /\ stage = "called"
    /\ request.kind = "Verify" => PercentAllowed
    /\ stage' = "drawing"
    /\ num_blocks_checked' = BlocksChecked
    /\ selection_range' = SelectionRange(num_blocks_checked')
    /\ UNCHANGED <<request, start, chosen, drawable>>

\* The divisor of std::rand()
Divisor == Smaller(selection_range, request.num_blocks - start)

Drawing == stage = "drawing" /\ Len(chosen) < num_blocks_checked

\* A fault: the draw may return the first block of the next stretch.
DrawInclusive ==
    /\ Drawing
    /\ Divisor # 0
    /\ \E r \in 0 .. Divisor : chosen' = Append(chosen, start + r)
    /\ drawable' = drawable \cup (start .. start + Divisor)
    /\ start' = start + selection_range
    /\ UNCHANGED <<request, stage, num_blocks_checked, selection_range>>

\* A fault: the last block of a stretch is never drawn.
DrawWithoutLast ==
    /\ Drawing
    /\ Divisor # 0
    /\ \E r \in 0 .. Divisor - 1 :
           /\ r = Divisor - 1 => r = 0
           /\ chosen' = Append(chosen, start + r)
    /\ drawable' = drawable \cup (start .. start + Divisor - 2) \cup {start}
    /\ start' = start + selection_range
    /\ UNCHANGED <<request, stage, num_blocks_checked, selection_range>>

Draw ==
    /\ Drawing
    /\ Divisor # 0
    /\ \E r \in 0 .. Divisor - 1 : chosen' = Append(chosen, start + r)
    /\ drawable' = drawable \cup (start .. start + Divisor - 1)
    /\ start' = start + selection_range
    /\ UNCHANGED <<request, stage, num_blocks_checked, selection_range>>

\* The remainder of a division by zero ends the process.
Trap ==
    /\ Drawing
    /\ Divisor = 0
    /\ stage' = "killed"
    /\ UNCHANGED <<request, num_blocks_checked, selection_range, start, chosen,
                   drawable>>

\* The challenge is complete.
Finish ==
    /\ stage = "drawing"
    /\ Len(chosen) = num_blocks_checked
    /\ stage' = "built"
    /\ UNCHANGED <<request, num_blocks_checked, selection_range, start, chosen,
                   drawable>>

ChallengeNext == Refuse \/ Begin \/ Draw \/ Trap \/ Finish

ChallengeSpec == ChallengeInit /\ [][ChallengeNext]_call_vars

-----------------------------------------------------------------------------
Blocks == 0 .. request.num_blocks - 1
Overflows == Wrapped(Product) # Product

\* The variables have their types.
ChallengeTypeOK ==
    /\ request \in [kind : {"Verify", "BatchVerify"},
                    num_blocks : BlockCounts, percent : Percents]
    /\ stage \in {"called", "refused", "drawing", "killed", "built"}
    /\ num_blocks_checked \in Nat
    /\ selection_range \in Nat
    /\ start \in Nat
    /\ chosen \in Seq(Nat)
    /\ drawable \subseteq Nat

\* The challenge names blocks of the file in increasing order, none twice.  A
\* Fetcher relies on the order: its stream stays failed after the short read of
\* the last block.  The weights of a proof rely on there being no repetition.
IndexesIncrease ==
    /\ \A k \in 1 .. Len(chosen) : chosen[k] \in Blocks
    /\ \A k, l \in 1 .. Len(chosen) : k < l => chosen[k] < chosen[l]

\* As many blocks are checked as the percentage asks for, rounded down, and one
\* at least, unless num_blocks * percent_blocks exceeds an int, beyond which the
\* code checks fewer than Verify() promises.
EnoughBlocks ==
    stage = "built" /\ PercentAllowed /\ ~Overflows =>
        /\ Len(chosen) >= 1
        /\ 100 * (Len(chosen) + 1) > Product
        /\ Len(chosen) = 1 \/ 100 * Len(chosen) <= Product

\* What the comment in GenerateIndexes() says, "Selected blocks should be equally
\* distributed across the whole file": there is no block that cannot be drawn.
WholeFileReached == stage = "built" => Blocks \subseteq drawable

\* How far the code falls short of WholeFileReached: the blocks no draw can
\* return are fewer than those checked, and they are the last of the file.
OnlyTailOutOfReach ==
    stage = "built" =>
        /\ Cardinality(Blocks \ drawable) < num_blocks_checked
        /\ \A b \in Blocks \ drawable, d \in drawable : d < b

\* The process is killed only for a file without blocks, or by a percentage
\* BatchVerify() should have refused.
KilledOnlyWithoutBlocks ==
    stage = "killed" =>
        \/ request.num_blocks = 0
        \/ request.kind = "BatchVerify" /\ ~PercentAllowed

=============================================================================
