------------------------- MODULE VerificationProofs -------------------------
(***************************************************************************)
(* Proofs about what the client asks for and what it makes of the answer.  *)
(*                                                                         *)
(* ChallengeIndexes: whatever the file, the percentage and the width of an *)
(* int, the blocks of a challenge increase and belong to the file, and     *)
(* Verify() is killed by no file that has a block.                         *)
(*                                                                         *)
(* CompactProof: for every prime, every size of a sector and of a block,   *)
(* every batch of files and everything a store may have made of them, the  *)
(* verdict on a file depends on the weighted sum of its deviations alone,  *)
(* and a single sector that has changed is always noticed.  The invariant  *)
(* behind it is that of the two sums a Prover keeps: they stay in balance, *)
(* in the field, with what the tags promise of the items processed so far. *)
(***************************************************************************)
EXTENDS ChallengeIndexes, CompactProof,
        FiniteSetTheorems, SequenceTheorems, WellFoundedInduction, TLAPS

-----------------------------------------------------------------------------
(* The stretches: block k of the challenge lies in the k-th of them, and   *)
(* together they are no longer than the file.                              *)

Begun == stage \in {"drawing", "killed", "built"}

Stretches ==
    /\ num_blocks_checked >= 1
    /\ num_blocks_checked * selection_range <= request.num_blocks
    /\ Len(chosen) <= num_blocks_checked
    /\ start = Len(chosen) * selection_range
    /\ \A k \in 1 .. Len(chosen) :
           /\ (k - 1) * selection_range <= chosen[k]
           /\ chosen[k] < k * selection_range

\* With a percentage that is allowed no more blocks are asked for than there
\* are, even if num_blocks * percent_blocks overflows.
SomethingToDraw ==
    PercentAllowed /\ request.num_blocks >= 1 => selection_range >= 1

Trapped == stage = "killed" => selection_range = 0

CallInv ==
    /\ ChallengeTypeOK
    /\ stage = "called" => chosen = <<>> /\ start = 0
    /\ stage = "refused" => chosen = <<>>
    /\ Begun => Stretches /\ SomethingToDraw
    /\ Begun => (request.kind = "Verify" => PercentAllowed)
    /\ Trapped

-----------------------------------------------------------------------------
(* Arithmetic                                                              *)

LEMMA WrappedProperties ==
    ASSUME NEW x \in Int
    PROVE  /\ Wrapped(x) \in Int
           /\ x >= 0 => Wrapped(x) <= x
<1> DEFINE m == x % (2 ^ IntWidth)
<1>1. 2 ^ IntWidth \in Nat /\ 2 ^ IntWidth > 0
    BY IntWidthAssumption
<1>2. m \in Nat /\ (x >= 0 => m <= x)
    <2> DEFINE w == 2 ^ IntWidth
    <2>1. w \in Nat /\ w > 0
        BY <1>1
    <2> HIDE DEF w
    <2>2. x % w \in Nat /\ (x >= 0 => x % w <= x)
        BY <2>1
    <2> QED BY <2>2 DEF w
<1>3. Wrapped(x) = IF 2 * m >= 2 ^ IntWidth THEN m - 2 ^ IntWidth ELSE m
    BY DEF Wrapped
<1> HIDE DEF m
<1> DEFINE w == 2 ^ IntWidth
<1>4. w \in Nat
    BY <1>1
<1>5. Wrapped(x) = IF 2 * m >= w THEN m - w ELSE m
    BY <1>3
<1> HIDE DEF w
<1> QED BY <1>2, <1>4, <1>5

LEMMA Quotient ==
    ASSUME NEW n \in Nat, NEW c \in Nat, c >= 1
    PROVE  /\ n \div c \in Nat
           /\ c * (n \div c) <= n
           /\ c <= n => n \div c >= 1
OBVIOUS

LEMMA Monotone ==
    ASSUME NEW a \in Int, NEW b \in Int, NEW r \in Nat, a <= b
    PROVE  a * r <= b * r
OBVIOUS

\* At least one block is checked, and no more than there are.
LEMMA CheckedProperties ==
    ASSUME ChallengeTypeOK
    PROVE  /\ BlocksChecked \in Nat
           /\ BlocksChecked >= 1
           /\ PercentAllowed /\ request.num_blocks >= 1
                => BlocksChecked <= request.num_blocks
<1>1. request.num_blocks \in Nat /\ request.percent \in Int
    BY BlockCountsAssumption, PercentsAssumption DEF ChallengeTypeOK
<1>2. Product \in Int
    BY <1>1 DEF Product
<1> DEFINE w == Wrapped(Product)
<1>3. w \in Int /\ (Product >= 0 => w <= Product)
    BY <1>2, WrappedProperties
<1>4. BlocksChecked = IF w < 100 THEN 1 ELSE w \div 100
    BY DEF BlocksChecked
<1>5. ASSUME PercentAllowed
      PROVE  Product >= 0 /\ Product <= 100 * request.num_blocks
    BY <1>1, <1>5 DEF Product, PercentAllowed
<1> HIDE DEF w
<1>6. BlocksChecked \in Nat /\ BlocksChecked >= 1
    BY <1>3, <1>4
<1>7. ASSUME PercentAllowed, request.num_blocks >= 1
      PROVE  BlocksChecked <= request.num_blocks
    BY <1>1, <1>2, <1>3, <1>4, <1>5, <1>7
<1> QED BY <1>6, <1>7

LEMMA Counts ==
    ASSUME ChallengeTypeOK
    PROVE  /\ request.num_blocks \in Nat
           /\ num_blocks_checked \in Nat
           /\ selection_range \in Nat
           /\ Len(chosen) \in Nat
           /\ start \in Nat
           /\ \A k \in 1 .. Len(chosen) : chosen[k] \in Nat
<1>1. request.num_blocks \in Nat
    BY BlockCountsAssumption DEF ChallengeTypeOK
<1>2. chosen \in Seq(Nat)
    BY DEF ChallengeTypeOK
<1>3. Len(chosen) \in Nat /\ \A k \in 1 .. Len(chosen) : chosen[k] \in Nat
    BY <1>2
<1> QED BY <1>1, <1>3 DEF ChallengeTypeOK

\* A stretch is drawn from in full: the end of the file does not shorten it.
LEMMA DivisorIsRange ==
    ASSUME ChallengeTypeOK, Stretches, Len(chosen) < num_blocks_checked
    PROVE  Divisor = selection_range
<1> DEFINE n == request.num_blocks
           l == Len(chosen)
           r == selection_range
           c == num_blocks_checked
<1>1. n \in Nat /\ r \in Nat /\ c \in Nat /\ l \in Nat
    BY Counts
<1>2. start = l * r /\ c * r <= n /\ l + 1 <= c
    BY <1>1 DEF Stretches
<1>3. (l + 1) * r <= c * r
    BY <1>1, <1>2, Monotone
<1>4. (l + 1) * r = l * r + r
    BY <1>1
<1>5. r <= n - start
    BY <1>1, <1>2, <1>3, <1>4
<1> QED BY <1>1, <1>5 DEF Divisor, Smaller

-----------------------------------------------------------------------------
LEMMA InitCall == ChallengeInit => CallInv
<1> SUFFICES ASSUME ChallengeInit PROVE CallInv
    OBVIOUS
<1> QED BY DEF ChallengeInit, CallInv, ChallengeTypeOK, Begun, Trapped

LEMMA RefuseCall == ASSUME CallInv, Refuse PROVE CallInv'
BY DEF CallInv, ChallengeTypeOK, Begun, Trapped, Refuse, PercentAllowed

LEMMA BeginCall == ASSUME CallInv, Begin PROVE CallInv'
<1> USE DEF Begin
<1>1. ChallengeTypeOK /\ chosen = <<>> /\ start = 0
    BY DEF CallInv
<1>2. request.num_blocks \in Nat
    BY <1>1, BlockCountsAssumption DEF ChallengeTypeOK
<1>3. /\ num_blocks_checked' \in Nat
      /\ num_blocks_checked' >= 1
      /\ PercentAllowed /\ request.num_blocks >= 1
            => num_blocks_checked' <= request.num_blocks
    BY <1>1, CheckedProperties
<1>4. selection_range' = request.num_blocks \div num_blocks_checked'
    BY DEF SelectionRange
<1>5. /\ selection_range' \in Nat
      /\ num_blocks_checked' * selection_range' <= request.num_blocks
      /\ num_blocks_checked' <= request.num_blocks => selection_range' >= 1
    BY <1>2, <1>3, <1>4, Quotient
<1>6. ChallengeTypeOK'
    BY <1>1, <1>3, <1>5 DEF ChallengeTypeOK
<1>7. Stretches'
    BY <1>1, <1>2, <1>3, <1>5 DEF Stretches
<1>8. SomethingToDraw'
    BY <1>3, <1>5 DEF SomethingToDraw, PercentAllowed
<1> QED BY <1>6, <1>7, <1>8 DEF CallInv, Begun, Trapped, PercentAllowed

LEMMA DrawCall == ASSUME CallInv, Draw PROVE CallInv'
<1> DEFINE l == Len(chosen)
           r == selection_range
<1>1. ChallengeTypeOK /\ Stretches /\ stage = "drawing" /\ l < num_blocks_checked
    BY DEF CallInv, Begun, Draw, Drawing
<1>2. Divisor = r
    BY <1>1, DivisorIsRange
<1>3. r \in Nat /\ l \in Nat /\ num_blocks_checked \in Nat /\ start = l * r
    BY <1>1, Counts DEF Stretches
<1>4. PICK d \in 0 .. r - 1 : chosen' = Append(chosen, start + d)
    BY <1>2 DEF Draw
<1>5. UNCHANGED <<request, stage, num_blocks_checked, selection_range>>
      /\ start' = start + r
    BY DEF Draw
<1>6. start + d \in Nat /\ Len(chosen') = l + 1 /\ chosen' \in Seq(Nat)
    BY <1>1, <1>3, <1>4 DEF ChallengeTypeOK
<1>7. drawable' \subseteq Nat
    <2>1. drawable' = drawable \cup (start .. start + Divisor - 1)
        BY DEF Draw
    <2>2. drawable \subseteq Nat /\ start \in Nat
        BY <1>1 DEF ChallengeTypeOK
    <2>3. start .. start + Divisor - 1 \subseteq Nat
        BY <1>2, <1>3, <2>2
    <2> QED BY <2>1, <2>2, <2>3
<1>8. ChallengeTypeOK'
    BY <1>1, <1>3, <1>5, <1>6, <1>7 DEF ChallengeTypeOK
<1>9. Stretches'
    <2>1. start' = (l + 1) * r
        BY <1>3, <1>5
    <2>2. ASSUME NEW k \in 1 .. l + 1
          PROVE  (k - 1) * r <= chosen'[k] /\ chosen'[k] < k * r
        <3>1. CASE k = l + 1
            BY <1>1, <1>3, <1>4, <1>6, <3>1 DEF ChallengeTypeOK
        <3>2. CASE k # l + 1
            <4>1. k \in 1 .. l /\ chosen'[k] = chosen[k]
                BY <1>1, <1>3, <1>4, <3>2 DEF ChallengeTypeOK
            <4> QED BY <1>1, <4>1 DEF Stretches
        <3> QED BY <3>1, <3>2
    <2>3. /\ num_blocks_checked' >= 1
          /\ num_blocks_checked' * selection_range' <= request'.num_blocks
          /\ Len(chosen') <= num_blocks_checked'
        BY <1>1, <1>3, <1>5, <1>6 DEF Stretches
    <2> QED BY <1>5, <1>6, <2>1, <2>2, <2>3 DEF Stretches
<1> QED
    BY <1>1, <1>5, <1>8, <1>9
       DEF CallInv, Begun, Trapped, SomethingToDraw, PercentAllowed

LEMMA TrapCall == ASSUME CallInv, Trap PROVE CallInv'
<1>1. ChallengeTypeOK /\ Stretches /\ Len(chosen) < num_blocks_checked
    BY DEF CallInv, Begun, Trap, Drawing
<1>2. selection_range = 0
    BY <1>1, DivisorIsRange DEF Trap
<1> QED
    BY <1>2 DEF CallInv, ChallengeTypeOK, Begun, Stretches, SomethingToDraw, Trapped,
                PercentAllowed, Trap, Drawing

LEMMA FinishCall == ASSUME CallInv, Finish PROVE CallInv'
BY DEF CallInv, ChallengeTypeOK, Begun, Stretches, SomethingToDraw, Trapped,
       PercentAllowed, Finish

LEMMA StutterCall == ASSUME CallInv, UNCHANGED call_vars PROVE CallInv'
BY DEF CallInv, ChallengeTypeOK, Begun, Stretches, SomethingToDraw, Trapped,
       PercentAllowed, call_vars

LEMMA NextCall == CallInv /\ [ChallengeNext]_call_vars => CallInv'
BY RefuseCall, BeginCall, DrawCall, TrapCall, FinishCall, StutterCall
   DEF ChallengeNext

\* The strengthened invariant: the draws stay in stretches that fit the file.
THEOREM CallInductive == ChallengeSpec => []CallInv
BY InitCall, NextCall, PTL DEF ChallengeSpec

\* The variables keep their types, GenerateIndexes()'s counts stay natural even
\* when the product of num_blocks and percent_blocks overflows.
THEOREM ChallengeTypeCorrect == ChallengeSpec => []ChallengeTypeOK
<1>1. CallInv => ChallengeTypeOK
    BY DEF CallInv
<1> QED BY CallInductive, <1>1, PTL

-----------------------------------------------------------------------------
LEMMA StretchesIncrease ==
    ASSUME ChallengeTypeOK, Stretches
    PROVE  IndexesIncrease
<1> DEFINE n == request.num_blocks
           r == selection_range
           c == num_blocks_checked
<1>1. n \in Nat /\ r \in Nat /\ c \in Nat /\ Len(chosen) \in Nat
    BY Counts
<1>2. ASSUME NEW k \in 1 .. Len(chosen)
      PROVE  /\ chosen[k] \in Nat
             /\ chosen[k] < k * r /\ k * r <= n
    <2>1. k \in Nat /\ k <= c /\ chosen[k] \in Nat
        BY <1>1, Counts DEF Stretches
    <2>2. k * r <= c * r
        BY <1>1, <2>1, Monotone
    <2>3. c * r <= n /\ chosen[k] < k * r
        BY DEF Stretches
    <2>4. k * r \in Int /\ c * r \in Int
        BY <1>1, <2>1
    <2> HIDE DEF n, r, c
    <2> QED BY <1>1, <2>1, <2>2, <2>3, <2>4
<1>3. ASSUME NEW k \in 1 .. Len(chosen) PROVE chosen[k] \in Blocks
    <2>1. k * r \in Int
        BY <1>1
    <2> QED BY <1>1, <1>2, <2>1 DEF Blocks
<1>4. ASSUME NEW k \in 1 .. Len(chosen), NEW l \in 1 .. Len(chosen), k < l
      PROVE  chosen[k] < chosen[l]
    <2>1. k \in Int /\ l - 1 \in Int /\ k <= l - 1
        BY <1>1, <1>4
    <2>2. k * r <= (l - 1) * r
        BY <1>1, <2>1, Monotone
    <2>3. (l - 1) * r <= chosen[l]
        BY DEF Stretches
    <2>4. k * r \in Int /\ (l - 1) * r \in Int
        BY <1>1, <2>1
    <2> QED BY <1>2, <2>2, <2>3, <2>4
<1> QED BY <1>3, <1>4 DEF IndexesIncrease

\* What a Fetcher and the weights of a proof rely on: a challenge names blocks
\* of the file, in increasing order, none twice.
THEOREM IndexesAreIncreasing == ChallengeSpec => []IndexesIncrease
<1>1. CallInv => IndexesIncrease
    <2> SUFFICES ASSUME CallInv PROVE IndexesIncrease
        OBVIOUS
    <2>1. CASE stage \in {"called", "refused"}
        BY <2>1 DEF CallInv, IndexesIncrease
    <2>2. CASE Begun
        BY <2>2, StretchesIncrease DEF CallInv
    <2> QED BY <2>1, <2>2 DEF CallInv, ChallengeTypeOK, Begun
<1> QED BY CallInductive, <1>1, PTL

\* GenerateIndexes() divides by zero only for a file without blocks, or for a
\* percentage that Verify() refuses and BatchVerify() lets through.
THEOREM OnlyEmptyFilesKill == ChallengeSpec => []KilledOnlyWithoutBlocks
<1>1. CallInv => KilledOnlyWithoutBlocks
    <2> SUFFICES ASSUME CallInv, stage = "killed"
                 PROVE  \/ request.num_blocks = 0
                        \/ request.kind = "BatchVerify" /\ ~PercentAllowed
        BY DEF KilledOnlyWithoutBlocks
    <2>1. /\ selection_range = 0
          /\ SomethingToDraw
          /\ request.kind = "Verify" => PercentAllowed
        BY DEF CallInv, Begun, Trapped
    <2>2. request.num_blocks \in Nat /\ request.kind \in {"Verify", "BatchVerify"}
        BY BlockCountsAssumption DEF CallInv, ChallengeTypeOK
    <2> QED BY <2>1, <2>2 DEF SomethingToDraw
<1> QED BY CallInductive, <1>1, PTL

-----------------------------------------------------------------------------
(* How many blocks are checked, and which could have been: a second        *)
(* invariant, on top of the first.  The draws so far reach the blocks from *)
(* the first one to the beginning of the next stretch and no other, and    *)
(* what they leave out is what the division into stretches rounds off.     *)

Reach ==
    /\ stage \in {"called", "refused"} => drawable = {} /\ start = 0
    /\ Begun =>
           /\ drawable = 0 .. start - 1
           /\ num_blocks_checked = BlocksChecked
           /\ selection_range = SelectionRange(num_blocks_checked)
    /\ stage = "built" => Len(chosen) = num_blocks_checked

LEMMA Adjoining ==
    ASSUME NEW m \in Nat, NEW r \in Nat
    PROVE  (0 .. m - 1) \cup (m .. m + r - 1) = 0 .. m + r - 1
OBVIOUS

LEMMA DrawReach == ASSUME CallInv, Reach, Draw PROVE Reach'
<1>1. ChallengeTypeOK /\ Stretches /\ stage = "drawing" /\ Begun
      /\ Len(chosen) < num_blocks_checked
    BY DEF CallInv, Begun, Draw, Drawing
<1>2. Divisor = selection_range
    BY <1>1, DivisorIsRange
<1>3. selection_range \in Nat /\ start \in Nat
    BY <1>1, Counts
<1>4. /\ drawable' = drawable \cup (start .. start + selection_range - 1)
      /\ start' = start + selection_range
      /\ UNCHANGED <<request, stage, num_blocks_checked, selection_range>>
    BY <1>2 DEF Draw
<1>5. drawable' = 0 .. start' - 1
    BY <1>1, <1>3, <1>4, Adjoining DEF Reach
<1> QED
    BY <1>1, <1>4, <1>5
       DEF Reach, Begun, BlocksChecked, Product, SelectionRange

LEMMA NextReach == CallInv /\ Reach /\ [ChallengeNext]_call_vars => Reach'
<1> SUFFICES ASSUME CallInv, Reach, [ChallengeNext]_call_vars PROVE Reach'
    OBVIOUS
<1> USE DEF Reach, Begun, BlocksChecked, Product, SelectionRange
<1>1. CASE Refuse
    BY <1>1 DEF Refuse
<1>2. CASE Begin
    <2>1. drawable' = {} /\ start' = 0 /\ 0 .. 0 - 1 = {}
        BY <1>2 DEF Begin
    <2> QED BY <1>2, <2>1 DEF Begin
<1>3. CASE Draw
    BY <1>3, DrawReach
<1>4. CASE Trap
    BY <1>4 DEF Trap, Drawing
<1>5. CASE Finish
    BY <1>5 DEF Finish
<1>6. CASE UNCHANGED call_vars
    BY <1>6 DEF call_vars
<1> QED BY <1>1, <1>2, <1>3, <1>4, <1>5, <1>6 DEF ChallengeNext

THEOREM ReachInductive == ChallengeSpec => []Reach
<1>1. ChallengeInit => Reach
    BY DEF ChallengeInit, Reach, Begun
<1> QED BY <1>1, NextReach, CallInductive, PTL DEF ChallengeSpec

\* The blocks that no draw can return are the last of the file, fewer than those
\* that are checked: for any file and percentage, overflows included.
THEOREM TailOutOfReach == ChallengeSpec => []OnlyTailOutOfReach
<1>1. CallInv /\ Reach => OnlyTailOutOfReach
    <2> SUFFICES ASSUME CallInv, Reach, stage = "built"
                 PROVE  /\ Cardinality(Blocks \ drawable) < num_blocks_checked
                        /\ \A b \in Blocks \ drawable, d \in drawable : d < b
        BY DEF OnlyTailOutOfReach
    <2> DEFINE n == request.num_blocks
               c == num_blocks_checked
    <2>1. n \in Nat /\ c \in Nat /\ start \in Nat
        BY Counts DEF CallInv
    <2>2. /\ c >= 1 /\ start = c * (n \div c)
          /\ drawable = 0 .. start - 1
        BY DEF CallInv, Begun, Stretches, Reach, SelectionRange
    <2> HIDE DEF n, c
    <2>3. start <= n /\ n - start < c
        BY <2>1, <2>2
    <2>4. (0 .. n - 1) \ (0 .. start - 1) = start .. n - 1
        BY <2>1, <2>3
    <2>5. Cardinality(start .. n - 1) = IF start > n - 1 THEN 0 ELSE n - 1 - start + 1
        BY <2>1, FS_Interval
    <2>6. Cardinality(start .. n - 1) < c
        BY <2>1, <2>2, <2>3, <2>5
    <2>7. \A b \in start .. n - 1, d \in 0 .. start - 1 : d < b
        BY <2>1
    <2> QED BY <2>2, <2>4, <2>6, <2>7 DEF Blocks, n, c
<1> QED BY <1>1, CallInductive, ReachInductive, PTL

\* As many blocks are checked as the percentage asks for, rounded down, and one
\* at least, whenever the product fits an int.
THEOREM EnoughAreChecked == ChallengeSpec => []EnoughBlocks
<1>1. CallInv /\ Reach => EnoughBlocks
    <2> SUFFICES ASSUME CallInv, Reach, stage = "built", PercentAllowed, ~Overflows
                 PROVE  /\ Len(chosen) >= 1
                        /\ 100 * (Len(chosen) + 1) > Product
                        /\ Len(chosen) = 1 \/ 100 * Len(chosen) <= Product
        BY DEF EnoughBlocks
    <2>1. Product \in Int /\ Wrapped(Product) = Product
        <3>1. request.num_blocks \in Nat /\ request.percent \in Int
            BY BlockCountsAssumption, PercentsAssumption DEF CallInv, ChallengeTypeOK
        <3> QED BY <3>1 DEF Product, Overflows
    <2>2. Len(chosen) = IF Product < 100 THEN 1 ELSE Product \div 100
        BY <2>1 DEF Reach, Begun, BlocksChecked
    <2> HIDE DEF Product
    <2> QED BY <2>1, <2>2
<1> QED BY <1>1, CallInductive, ReachInductive, PTL

\* A challenge that is built is one of those that CompactProof's BuildChallenge
\* chooses from: one block of each of the first stretches, as Indexes() has them.
THEOREM ChallengeIsModelled ==
    ChallengeSpec => [](stage = "built" => chosen \in Indexes(request.num_blocks))
<1>1. CallInv /\ Reach => (stage = "built" => chosen \in Indexes(request.num_blocks))
    <2> SUFFICES ASSUME CallInv, Reach, stage = "built"
                 PROVE  chosen \in Indexes(request.num_blocks)
        OBVIOUS
    <2> DEFINE n == request.num_blocks
               c == num_blocks_checked
               r == selection_range
    <2>1. n \in Nat /\ c \in Nat /\ r \in Nat
        BY Counts DEF CallInv
    <2>2. /\ c >= 1 /\ c * r <= n /\ r = n \div c /\ Len(chosen) = c
          /\ \A k \in 1 .. c : (k - 1) * r <= chosen[k] /\ chosen[k] < k * r
        BY DEF CallInv, Begun, Stretches, Reach, SelectionRange
    <2>3. chosen \in [1 .. c -> Nat]
        <3>1. chosen \in Seq(Nat)
            BY DEF CallInv, ChallengeTypeOK
        <3>2. chosen \in [1 .. Len(chosen) -> Nat]
            BY <3>1
        <3> QED BY <2>2, <3>2
    <2> HIDE DEF n, c, r
    <2>4. r >= 1
        <3>1. 1 \in 1 .. c /\ chosen[1] >= 0
            BY <2>1, <2>2, <2>3
        <3>2. 0 <= chosen[1] /\ chosen[1] < 1 * r
            BY <2>2, <3>1
        <3> QED BY <2>1, <2>3, <3>1, <3>2
    <2>5. c \in 1 .. n
        <3>1. c * 1 <= c * r
            BY <2>1, <2>4
        <3>2. c * r \in Nat /\ c * 1 = c
            BY <2>1
        <3> QED BY <2>1, <2>2, <3>1, <3>2
    <2> DEFINE d == [k \in 1 .. c |-> chosen[k] - (k - 1) * r]
    <2>6. ASSUME NEW k \in 1 .. c
          PROVE  d[k] \in 0 .. r - 1 /\ chosen[k] = (k - 1) * r + d[k]
        <3>1. (k - 1) * r \in Int /\ k * r = (k - 1) * r + r
            BY <2>1
        <3>2. /\ chosen[k] \in Nat
              /\ (k - 1) * r <= chosen[k] /\ chosen[k] < (k - 1) * r + r
            BY <2>2, <2>3, <3>1
        <3> DEFINE low == (k - 1) * r
        <3>3. d[k] = chosen[k] - low
            OBVIOUS
        <3> HIDE DEF d, low
        <3> QED BY <2>1, <3>1, <3>2, <3>3 DEF low
    <2>7. d \in [1 .. c -> 0 .. (n \div c) - 1]
        BY <2>2, <2>6
    <2>8. chosen = [k \in 1 .. c |-> (k - 1) * (n \div c) + d[k]]
        <3>1. \A k \in 1 .. c : chosen[k] = (k - 1) * (n \div c) + d[k]
            BY <2>2, <2>6
        <3> HIDE DEF d
        <3> QED BY <2>3, <3>1
    <2> HIDE DEF d
    <2>9. \E s \in [1 .. c -> 0 .. (n \div c) - 1] :
              chosen = [k \in 1 .. c |-> (k - 1) * (n \div c) + s[k]]
        BY <2>7, <2>8
    <2>10. chosen \in Indexes(n)
        <3> DEFINE A(m) == {[k \in 1 .. m |-> (k - 1) * (n \div m) + s[k]] :
                                s \in [1 .. m -> 0 .. (n \div m) - 1]}
        <3>1. chosen \in A(c)
            BY <2>9
        <3>2. Indexes(n) = UNION {A(m) : m \in 1 .. n}
            BY DEF Indexes
        <3> HIDE DEF A
        <3> QED BY <2>5, <3>1, <3>2
    <2> QED BY <2>10 DEF n
<1> QED BY <1>1, CallInductive, ReachInductive, PTL

-----------------------------------------------------------------------------
(* Induction, over a set of numbers.                                       *)

LEMMA Least ==
    ASSUME NEW S \in SUBSET Nat, S # {}
    PROVE  \E m \in S : \A k \in S : m <= k
<1>1. IsWellFoundedOn(OpToRel(<, Nat), Nat)
    BY NatLessThanWellFounded
<1>2. PICK m \in S : \A k \in S : ~(<<k, m>> \in OpToRel(<, Nat))
    BY <1>1, WFMin
<1>3. \A k \in S : ~(k < m)
    BY <1>2 DEF OpToRel
<1> QED BY <1>3

LEMMA Induction ==
    ASSUME NEW n \in Nat, NEW Good,
           0 \in Good, \A k \in 0 .. n - 1 : k \in Good => k + 1 \in Good
    PROVE  \A k \in 0 .. n : k \in Good
<1> DEFINE Bad == (0 .. n) \ Good
<1> SUFFICES ASSUME Bad # {} PROVE FALSE
    OBVIOUS
<1>1. PICK k \in Bad : \A j \in Bad : k <= j
    <2>1. Bad \in SUBSET Nat
        OBVIOUS
    <2> HIDE DEF Bad
    <2> QED BY <2>1, Least
<1>2. k \in 0 .. n /\ k \notin Good
    BY <1>1
<1>3. k # 0
    BY <1>2
<1>4. k - 1 \in 0 .. n - 1 /\ k - 1 \notin Bad
    BY <1>1, <1>2, <1>3
<1>5. (k - 1) + 1 \in Good
    BY <1>4
<1> QED BY <1>2, <1>5

-----------------------------------------------------------------------------
(* Sums                                                                    *)

\* The function by which Sum() is defined.
IsSum(sum, terms, n) ==
    sum = [k \in 0 .. n |-> IF k = 0 THEN 0 ELSE sum[k - 1] + terms[k]]

LEMMA SumExists ==
    ASSUME NEW terms, NEW n \in Nat
    PROVE  \E sum : IsSum(sum, terms, n)
<1> DEFINE Good == {m \in Nat : \E sum : IsSum(sum, terms, m)}
<1>1. 0 \in Good
    <2>1. IsSum([k \in 0 .. 0 |-> 0], terms, 0)
        BY DEF IsSum
    <2> QED BY <2>1
<1>2. ASSUME NEW m \in 0 .. n - 1, m \in Good PROVE m + 1 \in Good
    <2>1. PICK sum : IsSum(sum, terms, m)
        BY <1>2
    <2>2. IsSum([k \in 0 .. m + 1 |->
                    IF k = m + 1 THEN sum[m] + terms[m + 1] ELSE sum[k]],
                terms, m + 1)
        BY <2>1 DEF IsSum
    <2> QED BY <2>2
<1>3. n \in Good
    <2> HIDE DEF Good
    <2> QED BY <1>1, <1>2, Induction
<1> QED BY <1>3

LEMMA SumUnique ==
    ASSUME NEW terms, NEW m \in Nat, NEW n \in Nat, m <= n, NEW f, NEW g,
           IsSum(f, terms, m), IsSum(g, terms, n)
    PROVE  f[m] = g[m]
<1> DEFINE Good == {k \in 0 .. m : f[k] = g[k]}
<1>1. \A j \in 0 .. m : f[j] = IF j = 0 THEN 0 ELSE f[j - 1] + terms[j]
    BY DEF IsSum
<1>2. \A j \in 0 .. n : g[j] = IF j = 0 THEN 0 ELSE g[j - 1] + terms[j]
    BY DEF IsSum
<1>3. 0 \in Good
    BY <1>1, <1>2
<1>4. ASSUME NEW k \in 0 .. m - 1, k \in Good PROVE k + 1 \in Good
    <2>1. k + 1 \in 0 .. m /\ k + 1 \in 0 .. n /\ k + 1 # 0 /\ (k + 1) - 1 = k
        OBVIOUS
    <2> QED BY <1>1, <1>2, <1>4, <2>1
<1>5. m \in Good
    <2> HIDE DEF Good
    <2> QED BY <1>3, <1>4, Induction
<1> QED BY <1>5

\* What is used of Sum() from here on.
LEMMA SumSteps ==
    ASSUME NEW terms, NEW n \in Nat
    PROVE  /\ Sum(terms, 0) = 0
           /\ Sum(terms, n + 1) = Sum(terms, n) + terms[n + 1]
<1> DEFINE S(k) == CHOOSE sum : IsSum(sum, terms, k)
<1>1. \A k \in Nat : IsSum(S(k), terms, k)
    <2> TAKE k \in Nat
    <2>1. \E sum : IsSum(sum, terms, k)
        BY SumExists
    <2> QED BY <2>1, Zenon
<1>2. \A k \in Nat : Sum(terms, k) = S(k)[k]
    BY DEF Sum, IsSum
<1> HIDE DEF S
<1>3. Sum(terms, 0) = 0
    <2>1. S(0)[0] = 0
        BY <1>1 DEF IsSum
    <2> QED BY <1>2, <2>1
<1>4. S(n + 1)[n + 1] = S(n + 1)[n] + terms[n + 1]
    <2>1. IsSum(S(n + 1), terms, n + 1)
        BY <1>1
    <2>2. \A j \in 0 .. n + 1 :
              S(n + 1)[j] = IF j = 0 THEN 0 ELSE S(n + 1)[j - 1] + terms[j]
        BY <2>1 DEF IsSum
    <2> QED BY <2>2
<1>5. S(n + 1)[n] = S(n)[n]
    BY <1>1, SumUnique
<1> QED BY <1>2, <1>3, <1>4, <1>5

LEMMA SumType ==
    ASSUME NEW n \in Nat, NEW terms, \A k \in 1 .. n : terms[k] \in Int
    PROVE  Sum(terms, n) \in Int
<1> DEFINE Good == {k \in 0 .. n : Sum(terms, k) \in Int}
<1>1. 0 \in Good
    BY SumSteps
<1>2. ASSUME NEW k \in 0 .. n - 1, k \in Good PROVE k + 1 \in Good
    <2>1. k + 1 \in 1 .. n /\ k + 1 \in 0 .. n
        OBVIOUS
    <2>2. Sum(terms, k + 1) = Sum(terms, k) + terms[k + 1]
        BY SumSteps
    <2> QED BY <1>2, <2>1, <2>2
<1>3. n \in Good
    <2> HIDE DEF Good
    <2> QED BY <1>1, <1>2, Induction
<1> QED BY <1>3

\* A sum is linear in its terms.
LEMMA SumLinear ==
    ASSUME NEW n \in Nat, NEW f, NEW g, NEW h, NEW c \in Int,
           \A k \in 1 .. n : f[k] \in Int /\ g[k] \in Int /\ h[k] = f[k] + c * g[k]
    PROVE  Sum(h, n) = Sum(f, n) + c * Sum(g, n)
<1> DEFINE Good == {m \in 0 .. n : /\ Sum(f, m) \in Int
                                   /\ Sum(g, m) \in Int
                                   /\ Sum(h, m) = Sum(f, m) + c * Sum(g, m)}
<1>1. 0 \in Good
    BY SumSteps
<1>2. ASSUME NEW k \in 0 .. n - 1, k \in Good PROVE k + 1 \in Good
    <2>1. k + 1 \in 1 .. n /\ k + 1 \in 0 .. n
        OBVIOUS
    <2>2. /\ Sum(f, k + 1) = Sum(f, k) + f[k + 1]
          /\ Sum(g, k + 1) = Sum(g, k) + g[k + 1]
          /\ Sum(h, k + 1) = Sum(h, k) + h[k + 1]
        BY SumSteps
    <2>3. f[k + 1] \in Int /\ g[k + 1] \in Int /\ h[k + 1] = f[k + 1] + c * g[k + 1]
        BY <2>1
    <2>4. ASSUME NEW F \in Int, NEW G \in Int, NEW a \in Int, NEW b \in Int
          PROVE  F + c * G + (a + c * b) = (F + a) + c * (G + b)
        OBVIOUS
    <2> QED BY <1>2, <2>1, <2>2, <2>3, <2>4
<1>3. n \in Good
    <2> HIDE DEF Good
    <2>1. \A k \in 0 .. n - 1 : k \in Good => k + 1 \in Good
        BY <1>2
    <2>2. \A k \in 0 .. n : k \in Good
        BY <1>1, <2>1, Induction
    <2> QED BY <2>2
<1> QED BY <1>3

-----------------------------------------------------------------------------
(* The field: numbers that are the same to it.                             *)

Same(x, y) == \E q \in Int : x = y + Prime * q

LEMMA SameSum ==
    ASSUME NEW x \in Int, NEW y \in Int, NEW u \in Int, NEW v \in Int,
           NEW c \in Int, Same(x, y), Same(u, v)
    PROVE  Same(x + c * u, y + c * v)
<1>1. Prime \in Int
    BY PrimeAssumption DEF Positive
<1>2. PICK q \in Int : x = y + Prime * q
    BY DEF Same
<1>3. PICK r \in Int : u = v + Prime * r
    BY DEF Same
<1>4. x + c * u = (y + c * v) + Prime * (q + c * r)
    BY <1>1, <1>2, <1>3
<1>5. q + c * r \in Int
    OBVIOUS
<1> QED BY <1>4, <1>5 DEF Same

LEMMA SameAdd ==
    ASSUME NEW x \in Int, NEW y \in Int, NEW u \in Int, NEW v \in Int,
           Same(x, y), Same(u, v)
    PROVE  Same(x + u, y + v)
<1>1. Same(x + 1 * u, y + 1 * v)
    <2> DEFINE c == 1
    <2>1. c \in Int
        OBVIOUS
    <2> HIDE DEF c
    <2>2. Same(x + c * u, y + c * v)
        BY <2>1, SameSum
    <2> QED BY <2>2 DEF c
<1> QED BY <1>1

LEMMA SameEquivalence ==
    ASSUME NEW x \in Int, NEW y \in Int, NEW z \in Int
    PROVE  /\ Same(x, x)
           /\ Same(x, y) => Same(y, x)
           /\ Same(x, y) /\ Same(y, z) => Same(x, z)
<1>1. Prime \in Int
    BY PrimeAssumption DEF Positive
<1>2. x = x + Prime * 0
    BY <1>1
<1>3. ASSUME Same(x, y) PROVE Same(y, x)
    <2>1. PICK q \in Int : x = y + Prime * q
        BY <1>3 DEF Same
    <2>2. y = x + Prime * (-q)
        BY <1>1, <2>1
    <2> QED BY <2>2 DEF Same
<1>4. ASSUME Same(x, y), Same(y, z) PROVE Same(x, z)
    <2>1. PICK q \in Int : x = y + Prime * q
        BY <1>4 DEF Same
    <2>2. PICK r \in Int : y = z + Prime * r
        BY <1>4 DEF Same
    <2>3. x = z + Prime * (q + r) /\ q + r \in Int
        BY <1>1, <2>1, <2>2
    <2> QED BY <2>3 DEF Same
<1> QED BY <1>2, <1>3, <1>4 DEF Same

LEMMA SameRemainder ==
    ASSUME NEW x \in Int, NEW y \in Int
    PROVE  /\ x % Prime \in 0 .. Prime - 1
           /\ Same(x % Prime, x)
           /\ Same(x, y) <=> x % Prime = y % Prime
<1>1. Prime \in Int /\ Prime > 1
    BY PrimeAssumption DEF Positive
<1>2. \A z \in Int : /\ z % Prime \in 0 .. Prime - 1
                     /\ z \div Prime \in Int
                     /\ z = Prime * (z \div Prime) + (z % Prime)
    BY <1>1
<1>3. \A z \in Int : Same(z % Prime, z)
    <2> TAKE z \in Int
    <2>1. (z % Prime) = z + Prime * (-(z \div Prime)) /\ -(z \div Prime) \in Int
        BY <1>1, <1>2
    <2> QED BY <2>1 DEF Same
<1>4. ASSUME Same(x, y) PROVE x % Prime = y % Prime
    <2>1. Same(x % Prime, y % Prime)
        BY <1>2, <1>3, <1>4, SameEquivalence
    <2>2. PICK q \in Int : x % Prime = (y % Prime) + Prime * q
        BY <2>1 DEF Same
    <2>3. q = 0
        <3>1. ~(q >= 1)
            <4>1. q >= 1 => Prime * q >= Prime
                BY <1>1
            <4> QED BY <1>1, <1>2, <2>2, <4>1
        <3>2. ~(q <= -1)
            <4>1. q <= -1 => Prime * q + Prime <= 0
                BY <1>1
            <4> QED BY <1>1, <1>2, <2>2, <4>1
        <3> QED BY <3>1, <3>2
    <2> QED BY <1>1, <1>2, <2>2, <2>3
<1>5. ASSUME x % Prime = y % Prime PROVE Same(x, y)
    <2>1. Same(x, x % Prime)
        BY <1>2, <1>3, SameEquivalence
    <2> QED BY <1>2, <1>3, <1>5, <2>1, SameEquivalence
<1> QED BY <1>2, <1>3, <1>4, <1>5

LEMMA SumSame ==
    ASSUME NEW n \in Nat, NEW f, NEW g,
           \A k \in 1 .. n : f[k] \in Int /\ g[k] \in Int /\ Same(f[k], g[k])
    PROVE  Same(Sum(f, n), Sum(g, n))
<1> DEFINE Good == {m \in 0 .. n : Same(Sum(f, m), Sum(g, m))}
<1>1. 0 \in Good
    BY SumSteps, SameEquivalence
<1>2. ASSUME NEW k \in 0 .. n - 1, k \in Good PROVE k + 1 \in Good
    <2>1. k + 1 \in 1 .. n /\ k + 1 \in 0 .. n
        OBVIOUS
    <2>2. /\ Sum(f, k + 1) = Sum(f, k) + f[k + 1]
          /\ Sum(g, k + 1) = Sum(g, k) + g[k + 1]
        BY SumSteps
    <2>3. Sum(f, k) \in Int /\ Sum(g, k) \in Int
        BY SumType
    <2>4. Same(Sum(f, k) + f[k + 1], Sum(g, k) + g[k + 1])
        BY <1>2, <2>1, <2>3, SameAdd
    <2> QED BY <2>1, <2>2, <2>4
<1>3. n \in Good
    <2> HIDE DEF Good
    <2>1. \A k \in 0 .. n - 1 : k \in Good => k + 1 \in Good
        BY <1>2
    <2>2. \A k \in 0 .. n : k \in Good
        BY <1>1, <2>1, Induction
    <2> QED BY <2>2
<1> QED BY <1>3

\* The sum is that of one term if the others are zero to the field.
LEMMA SumOfOne ==
    ASSUME NEW n \in Nat, NEW terms, NEW j \in Nat,
           \A k \in 1 .. n : terms[k] \in Int /\ (k # j => Same(terms[k], 0))
    PROVE  Same(Sum(terms, n), IF j \in 1 .. n THEN terms[j] ELSE 0)
<1> DEFINE Part(m) == IF j \in 1 .. m THEN terms[j] ELSE 0
           Good == {m \in 0 .. n : Same(Sum(terms, m), Part(m))}
<1>1. 0 \in Good
    BY SumSteps, SameEquivalence
<1>2. ASSUME NEW k \in 0 .. n - 1, k \in Good PROVE k + 1 \in Good
    <2>1. k + 1 \in 1 .. n /\ k + 1 \in 0 .. n
        OBVIOUS
    <2>2. Sum(terms, k + 1) = Sum(terms, k) + terms[k + 1]
        BY <2>1, SumSteps, SumType
    <2>3. Sum(terms, k) \in Int /\ Part(k) \in Int /\ terms[k + 1] \in Int
        BY <2>1, SumType
    <2>4. CASE k + 1 = j
        <3>1. Part(k) = 0 /\ Part(k + 1) = 0 + terms[k + 1]
            BY <2>3, <2>4
        <3>2. Same(Sum(terms, k), 0)
            BY <1>2, <3>1
        <3>3. Same(terms[k + 1], terms[k + 1])
            BY <2>3, SameEquivalence
        <3> DEFINE S == Sum(terms, k)
                   t == terms[k + 1]
        <3> HIDE DEF S, t
        <3>4. S \in Int /\ t \in Int /\ Same(S, 0) /\ Same(t, t) /\ 0 \in Int
            BY <2>3, <3>2, <3>3 DEF S, t
        <3>5. Same(S + t, 0 + t)
            BY <3>4, SameAdd
        <3> QED BY <2>1, <2>2, <3>1, <3>5 DEF S, t
    <2>5. CASE k + 1 # j
        <3>1. Part(k + 1) = Part(k) + 0
            BY <2>3, <2>5
        <3>2. Same(terms[k + 1], 0)
            BY <2>1, <2>5
        <3>3. Same(Sum(terms, k), Part(k))
            BY <1>2
        <3> DEFINE S == Sum(terms, k)
                   t == terms[k + 1]
                   p == Part(k)
        <3> HIDE DEF S, t, p
        <3>4. /\ S \in Int /\ t \in Int /\ p \in Int /\ 0 \in Int
              /\ Same(S, p) /\ Same(t, 0)
            BY <2>3, <3>2, <3>3 DEF S, t, p
        <3>5. Same(S + t, p + 0)
            BY <3>4, SameAdd
        <3> QED BY <2>1, <2>2, <3>1, <3>5 DEF S, t, p
    <2> QED BY <2>4, <2>5
<1>3. n \in Good
    <2> HIDE DEF Good, Part
    <2>1. \A k \in 0 .. n - 1 : k \in Good => k + 1 \in Good
        BY <1>2
    <2>2. \A k \in 0 .. n : k \in Good
        BY <1>1, <2>1, Induction
    <2> QED BY <2>2
<1> QED BY <1>3

\* A product is zero to the field only if a factor is.
LEMMA NoZeroDivisors ==
    ASSUME NEW a \in Nat, NEW b \in Int, Same(a * b, 0), ~Same(a, 0)
    PROVE  Same(b, 0)
<1> DEFINE S == {x \in Positive : Same(x * b, 0)}
<1>1. Prime \in Int /\ Prime > 1
    BY PrimeAssumption DEF Positive
<1>2. a \in S
    <2>1. a # 0
        BY SameEquivalence
    <2> QED BY <2>1 DEF Positive
<1>3. Prime \in S
    <2>1. Prime * b = 0 + Prime * b
        BY <1>1
    <2> QED BY <1>1, <2>1 DEF Positive, Same
<1>4. PICK m \in S : \A x \in S : m <= x
    <2>1. S \in SUBSET Nat
        BY DEF Positive
    <2> HIDE DEF S
    <2> QED BY <1>2, <2>1, Least
<1>5. m \in Nat /\ m > 0 /\ Same(m * b, 0)
    BY <1>4 DEF Positive
<1>6. ASSUME NEW x \in S PROVE x % m = 0
    <2>1. x \in Nat /\ Same(x * b, 0)
        BY DEF Positive
    <2>2. /\ x % m \in 0 .. m - 1
          /\ x \div m \in Int
          /\ x = m * (x \div m) + (x % m)
        BY <1>5, <2>1
    <2> DEFINE q == x \div m
               r == x % m
    <2>3. q \in Int /\ r \in Int /\ r < m /\ r >= 0 /\ x = m * q + r
        BY <1>5, <2>2
    <2> HIDE DEF q, r
    <2>4. r * b = x * b + (-q) * (m * b)
        BY <1>5, <2>1, <2>3
    <2> DEFINE xb == x * b
               mb == m * b
               c == -q
    <2>5. /\ xb \in Int /\ mb \in Int /\ c \in Int /\ 0 \in Int
          /\ Same(xb, 0) /\ Same(mb, 0)
        BY <1>5, <2>1, <2>3
    <2> HIDE DEF xb, mb, c
    <2>6. Same(xb + c * mb, 0 + c * 0)
        BY <2>5, SameSum
    <2>7. 0 + c * 0 = 0
        BY <2>5
    <2>8. Same(r * b, 0)
        BY <2>4, <2>6, <2>7 DEF xb, mb, c
    <2>9. r \notin S
        BY <1>4, <1>5, <2>3
    <2>10. r = 0
        BY <2>3, <2>8, <2>9 DEF Positive
    <2> QED BY <2>10 DEF r
<1>7. m <= Prime /\ Prime % m = 0
    BY <1>3, <1>4, <1>6
<1>8. m = 1 \/ m = Prime
    BY <1>1, <1>5, <1>7, PrimeAssumption
<1>9. CASE m = 1
    BY <1>5, <1>9
<1>10. CASE m = Prime
    <2>1. a % Prime = 0
        BY <1>2, <1>6, <1>10
    <2>2. 0 % Prime = 0
        BY <1>1
    <2> QED BY <2>1, <2>2, SameRemainder
<1> QED BY <1>8, <1>9, <1>10

-----------------------------------------------------------------------------
(* Blocks and sectors                                                      *)

LEMMA Sizes ==
    BlockSize \in Nat /\ BlockSize > 0 /\ NumSectors \in Nat
BY SectorAssumption DEF BlockSize, Positive

LEMMA NumberType ==
    ASSUME NEW bytes \in Seq(Bytes)
    PROVE  Number(bytes) \in Nat /\ (bytes = <<>> => Number(bytes) = 0)
<1> DEFINE IsNumber(number, n) ==
               number = [k \in 0 .. n |-> IF k = 0 THEN 0
                                          ELSE number[k - 1] * Base + bytes[k]]
           Good == {m \in Nat : \E number : IsNumber(number, m)}
           n == Len(bytes)
<1>1. n \in Nat /\ Base \in Nat /\ \A k \in 1 .. n : bytes[k] \in Nat
    BY BaseAssumption DEF Bytes, Positive
<1>2. 0 \in Good
    <2>1. IsNumber([k \in 0 .. 0 |-> 0], 0)
        OBVIOUS
    <2> QED BY <2>1
<1>3. ASSUME NEW m \in 0 .. n - 1, m \in Good PROVE m + 1 \in Good
    <2>1. PICK number : IsNumber(number, m)
        BY <1>3
    <2>2. IsNumber([k \in 0 .. m + 1 |->
                        IF k = m + 1 THEN number[m] * Base + bytes[m + 1]
                        ELSE number[k]], m + 1)
        BY <1>1, <2>1
    <2>3. m + 1 \in Nat
        BY <1>1
    <2> HIDE DEF IsNumber
    <2> QED BY <2>2, <2>3
<1>4. n \in Good
    <2> HIDE DEF Good, n
    <2>1. \A m \in 0 .. n - 1 : m \in Good => m + 1 \in Good
        BY <1>3
    <2>2. \A m \in 0 .. n : m \in Good
        BY <1>1, <1>2, <2>1, Induction
    <2> QED BY <1>1, <2>2
<1> DEFINE number == CHOOSE f : IsNumber(f, n)
<1>5. IsNumber(number, n)
    <2>1. \E f : IsNumber(f, n)
        BY <1>4
    <2> HIDE DEF IsNumber
    <2> QED BY <2>1, Zenon
<1>6. Number(bytes) = number[n]
    BY DEF Number
<1> HIDE DEF number
<1>7. \A k \in 0 .. n :
          number[k] = IF k = 0 THEN 0 ELSE number[k - 1] * Base + bytes[k]
    BY <1>5
<1> DEFINE Typed == {k \in 0 .. n : number[k] \in Nat}
<1>8. 0 \in Typed
    BY <1>1, <1>7
<1>9. ASSUME NEW k \in 0 .. n - 1, k \in Typed PROVE k + 1 \in Typed
    <2>1. number[k + 1] = number[k] * Base + bytes[k + 1]
        BY <1>1, <1>7
    <2>2. number[k] * Base \in Nat
        BY <1>1, <1>9
    <2>3. bytes[k + 1] \in Nat /\ k + 1 \in 0 .. n
        BY <1>1
    <2> QED BY <2>1, <2>2, <2>3
<1>10. n \in Typed
    <2> HIDE DEF Typed, n
    <2>1. \A k \in 0 .. n - 1 : k \in Typed => k + 1 \in Typed
        BY <1>9
    <2>2. \A k \in 0 .. n : k \in Typed
        BY <1>1, <1>8, <2>1, Induction
    <2> QED BY <1>1, <2>2
<1>11. bytes = <<>> => n = 0
    OBVIOUS
<1> QED BY <1>1, <1>6, <1>7, <1>10, <1>11

LEMMA PieceType ==
    ASSUME NEW s \in Seq(Bytes), NEW from \in Nat, NEW size \in Nat
    PROVE  /\ Piece(s, from, size) \in Seq(Bytes)
           /\ from >= Len(s) => Piece(s, from, size) = <<>>
           /\ Len(Piece(s, from, size)) < size => from + size > Len(s)
<1> DEFINE to == IF from + size <= Len(s) THEN from + size ELSE Len(s)
<1>1. to \in Nat /\ to <= Len(s) /\ Len(s) \in Nat
    OBVIOUS
<1>2. Piece(s, from, size) = SubSeq(s, from + 1, to)
    BY DEF Piece
<1>3. SubSeq(s, from + 1, to) \in Seq(Bytes)
    BY <1>1
<1>4. Len(SubSeq(s, from + 1, to)) = IF from + 1 <= to THEN to - from ELSE 0
    BY <1>1
<1>5. from >= Len(s) => SubSeq(s, from + 1, to) = <<>>
    BY <1>1, <1>3, <1>4, EmptySeq
<1> QED BY <1>1, <1>2, <1>3, <1>4, <1>5

LEMMA BlockType ==
    ASSUME NEW f \in Seq(Bytes), NEW b \in Nat
    PROVE  /\ Block(f, b) \in Seq(Bytes)
           /\ Len(Block(f, b)) < BlockSize =>
                  \A c \in Nat : c > b => Block(f, c) = <<>>
<1>1. \A c \in Nat : c * BlockSize \in Nat
    BY Sizes
<1>2. Block(f, b) \in Seq(Bytes)
    BY <1>1, Sizes, PieceType DEF Block
<1>3. ASSUME Len(Block(f, b)) < BlockSize, NEW c \in Nat, c > b
      PROVE  Block(f, c) = <<>>
    <2> DEFINE z == BlockSize
    <2> HIDE DEF z
    <2>1. b * z + z > Len(f)
        BY <1>1, <1>3, Sizes, PieceType DEF Block, z
    <2>2. z \in Nat /\ z > 0
        BY Sizes DEF z
    <2>3. c = b + (c - b) /\ c - b \in Nat /\ c - b >= 1
        BY <1>3
    <2>4. c * z >= b * z + z
        <3>1. \A d \in Nat : d >= 1 => d * z >= z
            BY <2>2
        <3>2. (b + (c - b)) * z = b * z + (c - b) * z
            BY <2>2
        <3> QED BY <2>2, <2>3, <3>1, <3>2
    <2>5. c * z >= Len(f) /\ c * z \in Nat
        BY <2>1, <2>2, <2>4
    <2> QED BY <2>2, <2>5, PieceType DEF Block, z
<1> QED BY <1>2, <1>3

LEMMA SectorType ==
    ASSUME NEW block \in Seq(Bytes), NEW i \in Sectors
    PROVE  /\ Sector(block, i) \in Nat
           /\ block = <<>> => Sector(block, i) = 0
<1>1. (i - 1) * SectorSize \in Nat /\ SectorSize \in Nat
    BY Sizes, SectorAssumption DEF Sectors, Positive
<1> DEFINE from == (i - 1) * SectorSize
<1> HIDE DEF from
<1>2. from \in Nat
    BY <1>1 DEF from
<1>3. Len(block) \in Nat /\ (block = <<>> => Len(block) = 0)
    OBVIOUS
<1>4. /\ Piece(block, from, SectorSize) \in Seq(Bytes)
      /\ block = <<>> => Piece(block, from, SectorSize) = <<>>
    BY <1>1, <1>2, <1>3, PieceType
<1> QED BY <1>4, NumberType DEF Sector, from

LEMMA NumBlocksType ==
    ASSUME NEW f \in Seq(Bytes)
    PROVE  NumBlocks(f) \in Nat
<1> DEFINE n == Len(f) + BlockSize - 1
           z == BlockSize
<1>1. n \in Nat /\ z \in Nat /\ z > 0
    BY Sizes
<1> HIDE DEF n, z
<1>2. n \div z \in Nat
    BY <1>1
<1> QED BY <1>2 DEF NumBlocks, n, z

LEMMA CopyType ==
    ASSUME NEW f \in Seq(Bytes), NEW g \in Copies(f)
    PROVE  g \in Seq(Bytes)
<1> DEFINE Small == {S \in SUBSET DOMAIN f : Cardinality(S) <= Alterations}
           A == UNION {Changed(f, S) : S \in Small}
           B == {SubSeq(f, 1, k) : k \in 0 .. Len(f)}
           C == {f \o e : e \in Extensions}
<1>1. Copies(f) = A \cup B \cup C
    BY DEF Copies
<1>2. ASSUME g \in A PROVE g \in Seq(Bytes)
    <2> HIDE DEF Small
    <2>1. g \in [1 .. Len(f) -> Bytes]
        BY <1>2 DEF Changed
    <2> QED BY <2>1
<1>3. ASSUME g \in B PROVE g \in Seq(Bytes)
    BY <1>3
<1>4. ASSUME g \in C PROVE g \in Seq(Bytes)
    <2>1. PICK e \in Extensions : g = f \o e
        BY <1>4
    <2>2. e \in Seq(Bytes)
        BY BatchesAssumption
    <2> QED BY <2>1, <2>2
<1> HIDE DEF A, B, C
<1> QED BY <1>1, <1>2, <1>3, <1>4

\* The blocks of a challenge are blocks of the file, in increasing order.
LEMMA IndexesType ==
    ASSUME NEW n \in Nat, NEW drawn \in Indexes(n)
    PROVE  /\ drawn \in Seq(0 .. n - 1) /\ drawn \in Seq(Nat)
           /\ Len(drawn) >= 1
           /\ \A j, k \in 1 .. Len(drawn) : j < k => drawn[j] < drawn[k]
<1>0. PICK checked \in 1 .. n :
          \E r \in [1 .. checked -> 0 .. (n \div checked) - 1] :
              drawn = [k \in 1 .. checked |-> (k - 1) * (n \div checked) + r[k]]
    BY DEF Indexes
<1>1. PICK r \in [1 .. checked -> 0 .. (n \div checked) - 1] :
          drawn = [k \in 1 .. checked |-> (k - 1) * (n \div checked) + r[k]]
    BY <1>0
<1> DEFINE q == n \div checked
<1>2. q \in Nat /\ checked \in Nat /\ checked >= 1 /\ checked * q <= n
    <2>1. n = checked * (n \div checked) + (n % checked) /\ n % checked \in Nat
        OBVIOUS
    <2>2. n \div checked \in Nat
        OBVIOUS
    <2> QED BY <2>1, <2>2
<1> HIDE DEF q
<1>3. drawn \in [1 .. checked -> Int] /\ Len(drawn) = checked
    BY <1>1, <1>2 DEF q
<1>4. \A k \in 1 .. checked :
          (k - 1) * q <= drawn[k] /\ drawn[k] < (k - 1) * q + q
    BY <1>1, <1>2 DEF q
<1>5. \A k \in 1 .. checked : (k - 1) * q + q = k * q /\ k * q <= checked * q
                              /\ (k - 1) * q >= 0
    <2> TAKE k \in 1 .. checked
    <2>1. \A d \in Nat : d * q >= 0
        BY <1>2
    <2>2. checked * q = k * q + (checked - k) * q
        BY <1>2
    <2>3. (k - 1) * q + q = k * q
        BY <1>2
    <2>4. (checked - k) * q >= 0 /\ (k - 1) * q >= 0
        BY <2>1
    <2>5. k * q \in Int /\ checked * q \in Int /\ (checked - k) * q \in Int
        BY <1>2
    <2> QED BY <2>2, <2>3, <2>4, <2>5
<1>6. \A k \in 1 .. checked : drawn[k] \in 0 .. n - 1
    <2> TAKE k \in 1 .. checked
    <2> DEFINE a == (k - 1) * q
               b == k * q
               c == checked * q
    <2>1. a \in Int /\ b \in Int /\ c \in Int
        BY <1>2
    <2>2. a + q = b /\ b <= c /\ a >= 0 /\ c <= n
        BY <1>2, <1>5
    <2>3. drawn[k] \in Int /\ a <= drawn[k] /\ drawn[k] < a + q
        BY <1>3, <1>4
    <2> HIDE DEF a, b, c
    <2> QED BY <1>2, <2>1, <2>2, <2>3
<1>7. ASSUME NEW j \in 1 .. checked, NEW k \in 1 .. checked, j < k
      PROVE  drawn[j] < drawn[k]
    <2>1. j * q <= (k - 1) * q
        <3>1. (k - 1 - j) * q >= 0
            BY <1>2, <1>7
        <3>2. (k - 1) * q = j * q + (k - 1 - j) * q
            BY <1>2
        <3>3. (k - 1) * q \in Int /\ j * q \in Int /\ (k - 1 - j) * q \in Int
            BY <1>2
        <3> QED BY <3>1, <3>2, <3>3
    <2>2. drawn[j] < j * q /\ (k - 1) * q <= drawn[k]
        BY <1>4, <1>5
    <2>3. (k - 1) * q \in Int /\ j * q \in Int
        BY <1>2
    <2> QED BY <1>3, <2>1, <2>2, <2>3
<1>8. drawn \in Seq(0 .. n - 1)
    BY <1>2, <1>3, <1>6
<1>9. drawn \in Seq(Nat)
    <2>1. \A k \in 1 .. checked : drawn[k] \in Nat
        BY <1>6
    <2> QED BY <1>2, <1>3, <2>1
<1> QED BY <1>2, <1>3, <1>7, <1>8, <1>9

-----------------------------------------------------------------------------
(* The invariant: tags and proofs balance.                                 *)

\* The terms of WeightedDeviation() and WeightedPrf().
SectorDeviations(i, k) ==
    [s \in Sectors |-> file_tags[i].alphas[s] * Deviation(i, k, s)]
Deviations(i) ==
    [k \in DOMAIN indexes[i] |->
        ItemWeight(k) * Sum(SectorDeviations(i, k), NumSectors)]
Masks(i) ==
    [k \in DOMAIN indexes[i] |->
        ItemWeight(k) * file_tags[i].prf[indexes[i][k]]]

\* A vector of sectors, weighted by the alphas.
Products(i, m) == [s \in Sectors |-> m[s] * file_tags[i].alphas[s]]
Combined(i, m) == Sum(Products(i, m), NumSectors)

\* With n items of challenge i processed.
Balanced(i, n, sigma, m) ==
    Same(sigma + Sum(Deviations(i), n), Sum(Masks(i), n) + Combined(i, m))

FilesInv ==
    /\ files \in Seq(Seq(Bytes))
    /\ DOMAIN file_tags = DOMAIN files
    /\ DOMAIN stored = DOMAIN files
    /\ \A i \in DOMAIN files : /\ file_tags[i] \in FileTags(files[i])
                               /\ stored[i] \in Copies(files[i])

ChallengesInv ==
    /\ indexes \in Seq(Seq(Nat))
    /\ Len(indexes) <= Len(files)
    /\ weights \in Seq(WeightValues)
    /\ \A i \in DOMAIN indexes : /\ indexes[i] \in Indexes(NumBlocks(files[i]))
                                 /\ Len(indexes[i]) <= Len(weights)

Zeros == [s \in Sectors |-> 0]

SumsInv ==
    /\ processed \in Nat
    /\ file_failed \in BOOLEAN
    /\ sigma_sum \in Nat
    /\ mus \in [Sectors -> Nat]
    /\ processed = 0 => sigma_sum = 0 /\ mus = Zeros /\ ~file_failed
    /\ processed > 0 => /\ Len(indexes) = Len(files)
                        /\ Proved <= Len(files)
                        /\ processed <= Len(indexes[Proved])
                        /\ Balanced(Proved, processed, sigma_sum, mus)

FailedInv ==
    file_failed => \E k \in 1 .. processed :
        Len(Block(stored[Proved], indexes[Proved][k])) < BlockSize

ProofsInv ==
    /\ proofs \in Seq([sigma : 0 .. Prime - 1, mus : [Sectors -> 0 .. Prime - 1]])
    /\ Len(proofs) <= Len(files)
    /\ Len(indexes) < Len(files) => proofs = <<>>
    /\ \A i \in DOMAIN proofs :
           Balanced(i, Len(indexes[i]), proofs[i].sigma, proofs[i].mus)

ResultsInv ==
    /\ results \in Seq(BOOLEAN)
    /\ Len(results) <= Len(proofs)
    /\ \A i \in DOMAIN results : results[i] <=> Same(WeightedDeviation(i), 0)

IInv ==
    /\ files \in Batches
    /\ FilesInv
    /\ ChallengesInv
    /\ SumsInv
    /\ FailedInv
    /\ ProofsInv
    /\ ResultsInv

-----------------------------------------------------------------------------
(* What is known of file i, and of item k of its challenge                 *)

LEMMA TagsType ==
    ASSUME NEW f \in Seq(Bytes), NEW t \in FileTags(f)
    PROVE  /\ t.alphas \in [Sectors -> Nat]
           /\ t.prf \in [0 .. NumBlocks(f) - 1 -> Nat]
           /\ \A b \in 0 .. NumBlocks(f) - 1 :
                  t.sigmas[b] = TagSigma(f, t.alphas, t.prf, b)
<1>1. PICK alphas \in [Sectors -> AlphaValues],
           prf \in [0 .. NumBlocks(f) - 1 -> PrfValues] :
          t = [alphas |-> alphas, prf |-> prf,
               sigmas |-> [b \in 0 .. NumBlocks(f) - 1 |->
                               TagSigma(f, alphas, prf, b)]]
    BY DEF FileTags
<1>2. alphas \in [Sectors -> Nat] /\ prf \in [0 .. NumBlocks(f) - 1 -> Nat]
    BY SecretsAssumption
<1> QED BY <1>1, <1>2

LEMMA ItemType ==
    ASSUME FilesInv, ChallengesInv, NEW i \in DOMAIN indexes,
           NEW k \in DOMAIN indexes[i]
    PROVE  /\ i \in DOMAIN files
           /\ indexes[i][k] \in 0 .. NumBlocks(files[i]) - 1
           /\ indexes[i][k] \in Nat
           /\ ItemWeight(k) \in Nat /\ ~Same(ItemWeight(k), 0)
           /\ ItemWeight(k) \in WeightValues
           /\ file_tags[i].prf[indexes[i][k]] \in Nat
           /\ \A s \in Sectors :
                 /\ file_tags[i].alphas[s] \in Nat
                 /\ Sector(Block(files[i], indexes[i][k]), s) \in Nat
                 /\ Sector(Block(stored[i], indexes[i][k]), s) \in Nat
                 /\ Deviation(i, k, s) \in Int
<1> DEFINE b == indexes[i][k]
<1>1. i \in DOMAIN files /\ files[i] \in Seq(Bytes)
    BY DEF FilesInv, ChallengesInv
<1>2. stored[i] \in Seq(Bytes) /\ file_tags[i] \in FileTags(files[i])
    BY <1>1, CopyType DEF FilesInv
<1>3. b \in 0 .. NumBlocks(files[i]) - 1 /\ k \in 1 .. Len(indexes[i])
    <2>1. indexes[i] \in Indexes(NumBlocks(files[i]))
        BY DEF ChallengesInv
    <2>2. indexes[i] \in Seq(0 .. NumBlocks(files[i]) - 1)
        BY <1>1, <2>1, NumBlocksType, IndexesType
    <2>3. indexes[i] \in Seq(Nat)
        BY DEF ChallengesInv
    <2>4. k \in 1 .. Len(indexes[i])
        BY <2>3
    <2> QED BY <2>2, <2>4, ElementOfSeq
<1>4. b \in Nat
    BY <1>1, <1>3, NumBlocksType
<1>5. weights[k] \in WeightValues
    BY <1>3 DEF ChallengesInv
<1>6. weights[k] \in Nat /\ ~Same(weights[k], 0)
    <2>1. weights[k] \in Nat /\ weights[k] % Prime # 0
        BY <1>5, WeightAssumption
    <2>2. 0 % Prime = 0
        BY PrimeAssumption DEF Positive
    <2> QED BY <2>1, <2>2, SameRemainder
<1>7. \A s \in Sectors : /\ Sector(Block(files[i], b), s) \in Nat
                         /\ Sector(Block(stored[i], b), s) \in Nat
    BY <1>1, <1>2, <1>4, BlockType, SectorType
<1>8. file_tags[i].prf[b] \in Nat /\ \A s \in Sectors : file_tags[i].alphas[s] \in Nat
    <2>1. /\ file_tags[i].alphas \in [Sectors -> Nat]
          /\ file_tags[i].prf \in [0 .. NumBlocks(files[i]) - 1 -> Nat]
        BY <1>1, <1>2, TagsType
    <2> QED BY <1>3, <2>1
<1> QED BY <1>1, <1>3, <1>4, <1>5, <1>6, <1>7, <1>8 DEF ItemWeight, Deviation

LEMMA TermsType ==
    ASSUME FilesInv, ChallengesInv, NEW i \in DOMAIN indexes
    PROVE  /\ DOMAIN indexes[i] = 1 .. Len(indexes[i]) /\ Len(indexes[i]) \in Nat
           /\ \A k \in DOMAIN indexes[i] :
                 /\ Sum(SectorDeviations(i, k), NumSectors) \in Int
                 /\ Deviations(i)[k] \in Int
                 /\ Masks(i)[k] \in Int
           /\ \A n \in 0 .. Len(indexes[i]) :
                 Sum(Deviations(i), n) \in Int /\ Sum(Masks(i), n) \in Int
<1>1. DOMAIN indexes[i] = 1 .. Len(indexes[i]) /\ Len(indexes[i]) \in Nat
    BY DEF ChallengesInv
<1>2. ASSUME NEW k \in DOMAIN indexes[i]
      PROVE  Sum(SectorDeviations(i, k), NumSectors) \in Int
    <2>1. \A s \in 1 .. NumSectors : SectorDeviations(i, k)[s] \in Int
        <3> TAKE s \in 1 .. NumSectors
        <3>1. file_tags[i].alphas[s] \in Int /\ Deviation(i, k, s) \in Int
            BY ItemType DEF Sectors
        <3>2. SectorDeviations(i, k)[s] = file_tags[i].alphas[s] * Deviation(i, k, s)
            BY DEF SectorDeviations, Sectors
        <3> QED BY <3>1, <3>2
    <2> QED BY <2>1, Sizes, SumType
<1>3. ASSUME NEW k \in DOMAIN indexes[i]
      PROVE  Deviations(i)[k] \in Int /\ Masks(i)[k] \in Int
    <2>1. ItemWeight(k) \in Int /\ file_tags[i].prf[indexes[i][k]] \in Int
        BY ItemType
    <2>2. Sum(SectorDeviations(i, k), NumSectors) \in Int
        BY <1>2
    <2>3. /\ Deviations(i)[k] =
                 ItemWeight(k) * Sum(SectorDeviations(i, k), NumSectors)
          /\ Masks(i)[k] = ItemWeight(k) * file_tags[i].prf[indexes[i][k]]
        BY DEF Deviations, Masks
    <2> QED BY <2>1, <2>2, <2>3
<1>4. ASSUME NEW n \in 0 .. Len(indexes[i])
      PROVE  Sum(Deviations(i), n) \in Int /\ Sum(Masks(i), n) \in Int
    <2>1. n \in Nat /\ \A k \in 1 .. n : k \in DOMAIN indexes[i]
        BY <1>1
    <2> QED BY <1>3, <2>1, SumType
<1> QED BY <1>1, <1>2, <1>3, <1>4

LEMMA CombinedType ==
    ASSUME NEW i, file_tags[i].alphas \in [Sectors -> Nat], NEW m \in [Sectors -> Int]
    PROVE  /\ \A s \in 1 .. NumSectors :
                  /\ s \in Sectors
                  /\ Products(i, m)[s] = m[s] * file_tags[i].alphas[s]
                  /\ Products(i, m)[s] \in Int
           /\ Combined(i, m) \in Int
<1>1. \A s \in 1 .. NumSectors :
          /\ s \in Sectors
          /\ Products(i, m)[s] = m[s] * file_tags[i].alphas[s]
    BY DEF Products, Sectors
<1>2. \A s \in 1 .. NumSectors : Products(i, m)[s] \in Int
    <2> TAKE s \in 1 .. NumSectors
    <2>1. m[s] \in Int /\ file_tags[i].alphas[s] \in Int
        BY <1>1
    <2> QED BY <1>1, <2>1
<1> QED BY <1>1, <1>2, Sizes, SumType DEF Combined

-----------------------------------------------------------------------------
(* Balance, kept                                                           *)

LEMMA ZeroBalanced ==
    ASSUME FilesInv, ChallengesInv, NEW i \in DOMAIN indexes
    PROVE  Balanced(i, 0, 0, Zeros)
<1>1. i \in DOMAIN files /\ files[i] \in Seq(Bytes)
    BY DEF FilesInv, ChallengesInv
<1>2. file_tags[i].alphas \in [Sectors -> Nat]
    BY <1>1, TagsType DEF FilesInv
<1>3. Zeros \in [Sectors -> Int]
    BY DEF Zeros
<1>4. \A s \in 1 .. NumSectors : Products(i, Zeros)[s] = 0 /\ 0 \in Int
    <2> TAKE s \in 1 .. NumSectors
    <2>1. s \in Sectors /\ Products(i, Zeros)[s] = Zeros[s] * file_tags[i].alphas[s]
        BY <1>2, <1>3, CombinedType
    <2>2. Zeros[s] = 0 /\ file_tags[i].alphas[s] \in Nat
        BY <1>2, <2>1 DEF Zeros
    <2> QED BY <2>1, <2>2
<1>5. \A s \in 1 .. NumSectors :
          /\ Products(i, Zeros)[s] \in Int
          /\ (s # 0 => Same(Products(i, Zeros)[s], 0))
    BY <1>4, SameEquivalence
<1>6. Same(Combined(i, Zeros), 0)
    <2>1. Same(Sum(Products(i, Zeros), NumSectors),
               IF 0 \in 1 .. NumSectors THEN Products(i, Zeros)[0] ELSE 0)
        BY <1>5, Sizes, SumOfOne
    <2> QED BY <2>1 DEF Combined
<1>7. Combined(i, Zeros) \in Int
    BY <1>2, <1>3, CombinedType
<1>8. Same(0, Combined(i, Zeros))
    BY <1>6, <1>7, SameEquivalence
<1>9. Sum(Deviations(i), 0) = 0 /\ Sum(Masks(i), 0) = 0
    BY SumSteps
<1>10. 0 + Combined(i, Zeros) = Combined(i, Zeros) /\ 0 + 0 = 0
    BY <1>7
<1> QED BY <1>8, <1>9, <1>10 DEF Balanced

\* One more item.
LEMMA ItemBalanced ==
    ASSUME FilesInv, ChallengesInv, NEW i \in DOMAIN indexes,
           NEW n \in 0 .. Len(indexes[i]) - 1,
           NEW sigma \in Nat, NEW m \in [Sectors -> Nat], NEW added,
           added = [s \in Sectors |->
                       m[s] + ItemWeight(n + 1)
                                * Sector(Block(stored[i], indexes[i][n + 1]), s)],
           Balanced(i, n, sigma, m)
    PROVE  /\ file_tags[i].sigmas[indexes[i][n + 1]] \in Nat
           /\ Balanced(i, n + 1,
                       sigma + ItemWeight(n + 1)
                                 * file_tags[i].sigmas[indexes[i][n + 1]],
                       added)
<1> DEFINE k == n + 1
           b == indexes[i][k]
           w == ItemWeight(k)
           alphas == file_tags[i].alphas
           tag == file_tags[i].sigmas[b]
           mask == file_tags[i].prf[b]
           tagged == [s \in Sectors |-> alphas[s] * Sector(Block(files[i], b), s)]
           found == [s \in Sectors |-> Sector(Block(stored[i], b), s)]
           T == Sum(tagged, NumSectors)
           V == Sum(SectorDeviations(i, k), NumSectors)
<1>1. /\ DOMAIN indexes[i] = 1 .. Len(indexes[i]) /\ Len(indexes[i]) \in Nat
      /\ k \in DOMAIN indexes[i] /\ n \in 0 .. Len(indexes[i]) /\ n \in Nat
    BY TermsType
<1>2. /\ i \in DOMAIN files
      /\ b \in 0 .. NumBlocks(files[i]) - 1
      /\ w \in Nat /\ mask \in Nat
      /\ \A s \in Sectors : /\ alphas[s] \in Nat
                            /\ Sector(Block(files[i], b), s) \in Nat
                            /\ Sector(Block(stored[i], b), s) \in Nat
                            /\ Deviation(i, k, s) \in Int
    BY <1>1, ItemType
<1>3. /\ alphas \in [Sectors -> Nat]
      /\ tag = (mask + T) % Prime
    <2>1. file_tags[i] \in FileTags(files[i]) /\ files[i] \in Seq(Bytes)
        BY <1>2 DEF FilesInv
    <2> QED BY <1>2, <2>1, TagsType DEF TagSigma
<1>4. T \in Int
    <2>1. \A s \in 1 .. NumSectors : tagged[s] \in Int
        <3> TAKE s \in 1 .. NumSectors
        <3>1. alphas[s] \in Int /\ Sector(Block(files[i], b), s) \in Int
            BY <1>2 DEF Sectors
        <3>2. tagged[s] = alphas[s] * Sector(Block(files[i], b), s)
            BY DEF Sectors
        <3> HIDE DEF tagged, alphas, b
        <3> QED BY <3>1, <3>2
    <2> HIDE DEF tagged
    <2> QED BY <2>1, Sizes, SumType
<1>5. /\ V \in Int
      /\ Sum(Deviations(i), n) \in Int /\ Sum(Masks(i), n) \in Int
    BY <1>1, TermsType
<1>6. /\ Sum(Deviations(i), n + 1) = Sum(Deviations(i), n) + w * V
      /\ Sum(Masks(i), n + 1) = Sum(Masks(i), n) + w * mask
    <2>1. Deviations(i)[k] = w * V /\ Masks(i)[k] = w * mask
        BY <1>1 DEF Deviations, Masks
    <2> HIDE DEF V, w, mask
    <2> QED BY <1>1, <2>1, SumSteps
<1>7. found \in [Sectors -> Int] /\ m \in [Sectors -> Int] /\ added \in [Sectors -> Int]
    <2>1. \A s \in Sectors : found[s] \in Int /\ m[s] + w * found[s] \in Int
        BY <1>2
    <2>2. added = [s \in Sectors |-> m[s] + w * found[s]]
        OBVIOUS
    <2>3. found = [s \in Sectors |-> found[s]]
        OBVIOUS
    <2> HIDE DEF found, w
    <2> QED BY <2>1, <2>2, <2>3
<1>8. /\ Combined(i, found) \in Int /\ Combined(i, m) \in Int
      /\ Combined(i, added) = Combined(i, m) + w * Combined(i, found)
    <2>1. \A s \in 1 .. NumSectors :
              /\ Products(i, m)[s] \in Int
              /\ Products(i, found)[s] \in Int
              /\ Products(i, added)[s] = Products(i, m)[s] + w * Products(i, found)[s]
        <3> TAKE s \in 1 .. NumSectors
        <3>1. /\ s \in Sectors
              /\ Products(i, m)[s] = m[s] * alphas[s]
              /\ Products(i, found)[s] = found[s] * alphas[s]
              /\ Products(i, added)[s] = added[s] * alphas[s]
            BY <1>3, <1>7, CombinedType
        <3>2. added[s] = m[s] + w * found[s]
            BY <3>1
        <3>3. w \in Int /\ m[s] \in Int /\ found[s] \in Int /\ alphas[s] \in Int
            BY <1>2, <1>7, <3>1
        <3> DEFINE x == m[s]
                   y == found[s]
                   a == alphas[s]
        <3> HIDE DEF w, found, alphas, x, y, a
        <3>4. (x + w * y) * a = x * a + w * (y * a)
            BY <3>3 DEF x, y, a
        <3>5. x * a \in Int /\ y * a \in Int
            BY <3>3 DEF x, y, a
        <3> QED BY <3>1, <3>2, <3>4, <3>5 DEF x, y, a
    <2> HIDE DEF found, w
    <2>2. w \in Int
        BY <1>2
    <2>3. Sum(Products(i, added), NumSectors) =
              Sum(Products(i, m), NumSectors) + w * Sum(Products(i, found), NumSectors)
        BY <2>1, <2>2, Sizes, SumLinear
    <2> QED BY <1>3, <1>7, <2>3, CombinedType DEF Combined
<1>9. Combined(i, found) = T + V
    <2>1. \A s \in 1 .. NumSectors :
              /\ tagged[s] \in Int
              /\ SectorDeviations(i, k)[s] \in Int
              /\ Products(i, found)[s] = tagged[s] + 1 * SectorDeviations(i, k)[s]
        <3> TAKE s \in 1 .. NumSectors
        <3> DEFINE x == Sector(Block(files[i], b), s)
                   y == Sector(Block(stored[i], b), s)
                   a == alphas[s]
        <3>1. s \in Sectors
            BY DEF Sectors
        <3>2. x \in Int /\ y \in Int /\ a \in Int
            BY <1>2, <3>1
        <3>3. /\ tagged[s] = a * x
              /\ SectorDeviations(i, k)[s] = a * (y - x)
              /\ Products(i, found)[s] = y * a
            BY <1>3, <1>7, <3>1, CombinedType DEF SectorDeviations, Deviation
        <3> HIDE DEF x, y, a, tagged, found
        <3>4. a * x \in Int /\ a * (y - x) \in Int /\ y * a = a * x + a * (y - x)
            BY <3>2
        <3> QED BY <3>3, <3>4
    <2> HIDE DEF tagged, found
    <2>2. Sum(Products(i, found), NumSectors) = T + 1 * V
        <3> DEFINE c == 1
        <3>1. c \in Int
            OBVIOUS
        <3>2. \A s \in 1 .. NumSectors :
                  Products(i, found)[s] = tagged[s] + c * SectorDeviations(i, k)[s]
            BY <2>1
        <3> HIDE DEF c, k
        <3>3. Sum(Products(i, found), NumSectors) = T + c * V
            BY <2>1, <3>1, <3>2, Sizes, SumLinear
        <3> QED BY <3>3 DEF c
    <2> HIDE DEF T, V
    <2> QED BY <1>4, <1>5, <2>2 DEF Combined
<1> DEFINE D == Sum(Deviations(i), n)
           P == Sum(Masks(i), n)
           A == Combined(i, m)
           B == Combined(i, found)
<1>10. Same(tag, mask + T) /\ tag \in Nat
    <2>1. mask + T \in Int
        BY <1>2, <1>4
    <2>2. (mask + T) % Prime \in 0 .. Prime - 1 /\ Same((mask + T) % Prime, mask + T)
        <3> DEFINE x == mask + T
        <3> HIDE DEF x
        <3>1. x \in Int
            BY <2>1 DEF x
        <3>2. x % Prime \in 0 .. Prime - 1 /\ Same(x % Prime, x)
            BY <3>1, SameRemainder
        <3> QED BY <3>2 DEF x
    <2> HIDE DEF tag, mask, T
    <2> QED BY <1>3, <2>2
<1>11. Same(sigma + D, P + A)
    BY DEF Balanced
<1> HIDE DEF w, tag, mask, T, V, D, P, A, B, found, alphas, b
<1>12. /\ w \in Int /\ tag \in Int /\ mask \in Int /\ T \in Int /\ V \in Int
       /\ D \in Int /\ P \in Int /\ A \in Int /\ B \in Int
       /\ B = T + V
    BY <1>2, <1>4, <1>5, <1>8, <1>9, <1>10 DEF D, P, A, B
<1>13. Same(tag + V, mask + B)
    <2>1. Same(V, V)
        BY <1>12, SameEquivalence
    <2>2. mask + T \in Int
        BY <1>12
    <2>3. Same(tag + V, (mask + T) + V)
        BY <1>10, <1>12, <2>1, <2>2, SameAdd
    <2>4. (mask + T) + V = mask + B
        BY <1>12
    <2> QED BY <2>3, <2>4
<1>14. Same((sigma + D) + w * (tag + V), (P + A) + w * (mask + B))
    <2> DEFINE x == sigma + D
               y == P + A
               u == tag + V
               v == mask + B
    <2>1. x \in Int /\ y \in Int /\ u \in Int /\ v \in Int
        BY <1>12
    <2>2. Same(x, y) /\ Same(u, v)
        BY <1>11, <1>13
    <2> HIDE DEF x, y, u, v
    <2>3. Same(x + w * u, y + w * v)
        BY <1>12, <2>1, <2>2, SameSum
    <2> QED BY <2>3 DEF x, y, u, v
<1>15. /\ (sigma + D) + w * (tag + V) = (sigma + w * tag) + (D + w * V)
       /\ (P + A) + w * (mask + B) = (P + w * mask) + (A + w * B)
    BY <1>12
<1>16. Same((sigma + w * tag) + (D + w * V), (P + w * mask) + (A + w * B))
    BY <1>14, <1>15
<1>17. /\ Sum(Deviations(i), n + 1) = D + w * V
       /\ Sum(Masks(i), n + 1) = P + w * mask
       /\ Combined(i, added) = A + w * B
    BY <1>6, <1>8 DEF D, P, A, B
<1>18. Balanced(i, n + 1, sigma + w * tag, added)
    BY <1>16, <1>17 DEF Balanced
<1> QED BY <1>10, <1>18 DEF w, tag, b

\* The sums reduced.
LEMMA ReducedBalanced ==
    ASSUME FilesInv, ChallengesInv, NEW i \in DOMAIN indexes,
           NEW n \in 0 .. Len(indexes[i]),
           NEW sigma \in Nat, NEW m \in [Sectors -> Nat], NEW reduced,
           reduced = [s \in Sectors |-> m[s] % Prime],
           Balanced(i, n, sigma, m)
    PROVE  Balanced(i, n, sigma % Prime, reduced)
<1>1. i \in DOMAIN files /\ files[i] \in Seq(Bytes)
    BY DEF FilesInv, ChallengesInv
<1>2. file_tags[i].alphas \in [Sectors -> Nat]
    BY <1>1, TagsType DEF FilesInv
<1>3. m \in [Sectors -> Int] /\ reduced \in [Sectors -> Int]
    <2>1. \A s \in Sectors : m[s] % Prime \in Int
        BY SameRemainder
    <2> QED BY <2>1
<1>4. Same(Combined(i, reduced), Combined(i, m))
    <2>1. \A s \in 1 .. NumSectors :
              /\ Products(i, m)[s] \in Int
              /\ Products(i, reduced)[s] \in Int
              /\ Same(Products(i, reduced)[s], Products(i, m)[s])
        <3> TAKE s \in 1 .. NumSectors
        <3>1. /\ s \in Sectors
              /\ Products(i, m)[s] = m[s] * file_tags[i].alphas[s]
              /\ Products(i, m)[s] \in Int
              /\ Products(i, reduced)[s] = reduced[s] * file_tags[i].alphas[s]
              /\ Products(i, reduced)[s] \in Int
            BY <1>2, <1>3, CombinedType
        <3> DEFINE x == m[s]
                   y == reduced[s]
                   a == file_tags[i].alphas[s]
        <3>2. x \in Int /\ y \in Int /\ a \in Int /\ y = x % Prime
            BY <1>2, <1>3, <3>1
        <3> HIDE DEF x, y, a
        <3>3. Same(y, x) /\ Same(0, 0) /\ 0 \in Int
            BY <3>2, SameRemainder, SameEquivalence
        <3>4. Same(0 + a * y, 0 + a * x)
            BY <3>2, <3>3, SameSum
        <3>5. 0 + a * y = y * a /\ 0 + a * x = x * a
            BY <3>2
        <3> QED BY <3>1, <3>4, <3>5 DEF x, y, a
    <2>2. Same(Sum(Products(i, reduced), NumSectors), Sum(Products(i, m), NumSectors))
        BY <2>1, Sizes, SumSame
    <2> QED BY <2>2 DEF Combined
<1> DEFINE D == Sum(Deviations(i), n)
           P == Sum(Masks(i), n)
           A == Combined(i, m)
           B == Combined(i, reduced)
           r == sigma % Prime
<1>5. D \in Int /\ P \in Int /\ A \in Int /\ B \in Int /\ r \in Int
    <2>1. A \in Int /\ B \in Int
        BY <1>2, <1>3, CombinedType
    <2>2. r \in Int
        BY SameRemainder
    <2> QED BY <2>1, <2>2, TermsType
<1>6. Same(sigma + D, P + A) /\ Same(B, A) /\ Same(r, sigma)
    BY <1>4, SameRemainder DEF Balanced
<1> HIDE DEF D, P, A, B, r
<1>7. Same(r + D, sigma + D)
    <2>1. Same(D, D)
        BY <1>5, SameEquivalence
    <2> QED BY <1>5, <1>6, <2>1, SameAdd
<1>8. Same(P + A, P + B)
    <2>1. Same(P, P) /\ Same(A, B)
        BY <1>5, <1>6, SameEquivalence
    <2> QED BY <1>5, <2>1, SameAdd
<1>9. r + D \in Int /\ sigma + D \in Int /\ P + A \in Int /\ P + B \in Int
    BY <1>5
<1>10. Same(r + D, P + A)
    BY <1>6, <1>7, <1>9, SameEquivalence
<1>11. Same(r + D, P + B)
    BY <1>8, <1>9, <1>10, SameEquivalence
<1> QED BY <1>11 DEF Balanced, D, P, B, r

\* What the client makes of a proof that balances.
LEMMA VerdictOfBalanced ==
    ASSUME FilesInv, ChallengesInv, NEW i \in DOMAIN indexes,
           NEW sigma \in 0 .. Prime - 1, NEW m \in [Sectors -> 0 .. Prime - 1],
           Balanced(i, Len(indexes[i]), sigma, m)
    PROVE  (WeightedPrf(i) + Combined(i, m)) % Prime = sigma
               <=> Same(WeightedDeviation(i), 0)
<1>1. i \in DOMAIN files /\ files[i] \in Seq(Bytes)
    BY DEF FilesInv, ChallengesInv
<1>2. file_tags[i].alphas \in [Sectors -> Nat]
    BY <1>1, TagsType DEF FilesInv
<1>3. WeightedPrf(i) = Sum(Masks(i), Len(indexes[i]))
    BY DEF WeightedPrf, Masks
<1>4. WeightedDeviation(i) = Sum(Deviations(i), Len(indexes[i]))
    BY DEF WeightedDeviation, Deviations, SectorDeviations
<1> DEFINE D == WeightedDeviation(i)
           P == WeightedPrf(i)
           A == Combined(i, m)
<1>5. D \in Int /\ P \in Int
    BY <1>3, <1>4, TermsType
<1>6. A \in Int
    <2>1. m \in [Sectors -> Int]
        OBVIOUS
    <2> QED BY <1>2, <2>1, CombinedType
<1>7. Same(sigma + D, P + A)
    BY <1>3, <1>4 DEF Balanced
<1> HIDE DEF D, P, A
<1>8. sigma \in Int /\ P + A \in Int /\ sigma + D \in Int /\ -sigma \in Int
    BY <1>5, <1>6
<1>9. sigma % Prime = sigma
    BY PrimeAssumption DEF Positive
<1>10. (P + A) % Prime = sigma <=> Same(P + A, sigma)
    <2> DEFINE x == P + A
    <2> HIDE DEF x
    <2>1. x \in Int
        BY <1>8 DEF x
    <2>2. Same(x, sigma) <=> x % Prime = sigma % Prime
        BY <1>8, <2>1, SameRemainder
    <2> QED BY <1>9, <2>2 DEF x
<1>11. Same(P + A, sigma) => Same(D, 0)
    <2> HAVE Same(P + A, sigma)
    <2>1. Same(sigma + D, sigma)
        BY <1>7, <1>8, SameEquivalence
    <2>2. PICK q \in Int : sigma + D = sigma + Prime * q
        BY <2>1 DEF Same
    <2>3. D = 0 + Prime * q
        <3>1. Prime * q \in Int
            BY PrimeAssumption DEF Positive
        <3> QED BY <1>5, <2>2, <3>1
    <2> QED BY <2>3 DEF Same
<1>12. Same(D, 0) => Same(P + A, sigma)
    <2> HAVE Same(D, 0)
    <2>1. Same(sigma + D, sigma + 0)
        <3>1. Same(sigma, sigma) /\ 0 \in Int
            BY <1>8, SameEquivalence
        <3> QED BY <1>5, <1>8, <3>1, SameAdd
    <2>2. sigma + 0 = sigma
        OBVIOUS
    <2> QED BY <1>7, <1>8, <2>1, <2>2, SameEquivalence
<1> QED BY <1>10, <1>11, <1>12 DEF D, P, A

-----------------------------------------------------------------------------
(* The invariant, kept                                                     *)

LEMMA ChallengesKept ==
    ASSUME UNCHANGED challenge_vars
    PROVE  /\ \A i : Deviations(i)' = Deviations(i) /\ Masks(i)' = Masks(i)
           /\ \A i, m : Combined(i, m)' = Combined(i, m)
           /\ \A i : WeightedDeviation(i)' = WeightedDeviation(i)
<1>1. \A i : Deviations(i)' = Deviations(i)
    BY DEF Deviations, SectorDeviations, Deviation, ItemWeight, challenge_vars
<1>2. \A i : Masks(i)' = Masks(i)
    BY DEF Masks, ItemWeight, challenge_vars
<1>3. \A i, m : Combined(i, m)' = Combined(i, m)
    BY DEF Combined, Products, challenge_vars
<1>4. \A i : WeightedDeviation(i) = Sum(Deviations(i), Len(indexes[i]))
    BY DEF WeightedDeviation, Deviations, SectorDeviations
<1>5. \A i : WeightedDeviation(i)' = Sum(Deviations(i)', Len(indexes'[i]))
    BY DEF WeightedDeviation, Deviations, SectorDeviations
<1> QED BY <1>1, <1>2, <1>3, <1>4, <1>5 DEF challenge_vars

LEMMA BalancedKept ==
    ASSUME UNCHANGED challenge_vars, NEW i, NEW n, NEW sigma, NEW m
    PROVE  Balanced(i, n, sigma, m)' <=> Balanced(i, n, sigma, m)
<1>1. /\ Deviations(i)' = Deviations(i) /\ Masks(i)' = Masks(i)
      /\ Combined(i, m)' = Combined(i, m)
    BY ChallengesKept
<1> QED BY <1>1 DEF Balanced

\* What the steps after the challenges leave alone.
LEMMA UploadsKept ==
    ASSUME UNCHANGED challenge_vars, IInv
    PROVE  files' \in Batches /\ FilesInv' /\ ChallengesInv'
BY DEF IInv, FilesInv, ChallengesInv, challenge_vars

LEMMA ProofsKept ==
    ASSUME UNCHANGED challenge_vars, UNCHANGED proofs, ProofsInv
    PROVE  ProofsInv'
<1>1. (\A i \in DOMAIN proofs :
           Balanced(i, Len(indexes[i]), proofs[i].sigma, proofs[i].mus))'
    BY BalancedKept DEF challenge_vars, ProofsInv
<1> QED BY <1>1 DEF ProofsInv, challenge_vars

LEMMA ResultsKept ==
    ASSUME UNCHANGED challenge_vars, UNCHANGED results, ResultsInv,
           Len(proofs) <= Len(proofs'), Len(proofs) \in Nat, Len(proofs') \in Nat
    PROVE  ResultsInv'
<1>1. (\A i \in DOMAIN results : results[i] <=> Same(WeightedDeviation(i), 0))'
    <2>1. \A i : WeightedDeviation(i)' = WeightedDeviation(i)
        BY ChallengesKept
    <2> QED BY <2>1 DEF ResultsInv
<1> QED BY <1>1 DEF ResultsInv

LEMMA OneOfEachType ==
    ASSUME NEW T, NEW possible \in Seq(T), NEW s \in OneOfEach(possible)
    PROVE  DOMAIN s = DOMAIN possible
               /\ \A i \in DOMAIN possible : s[i] \in possible[i]
<1> DEFINE N == Len(possible)
           U == UNION {possible[i] : i \in 1 .. N}
           Longer(S, n) == {Append(t, x) : t \in S, x \in possible[n]}
           IsLists(lists, n) ==
               lists = [k \in 0 .. n |-> IF k = 0 THEN {<<>>}
                                         ELSE Longer(lists[k - 1], k)]
           Good == {n \in Nat : \E lists : IsLists(lists, n)}
<1>1. N \in Nat /\ DOMAIN possible = 1 .. N
    OBVIOUS
<1>2. 0 \in Good
    <2>1. IsLists([k \in 0 .. 0 |-> {<<>>}], 0)
        OBVIOUS
    <2> HIDE DEF IsLists
    <2> QED BY <2>1
<1>3. ASSUME NEW n \in 0 .. N - 1, n \in Good PROVE n + 1 \in Good
    <2>1. PICK lists : IsLists(lists, n)
        BY <1>3
    <2> HIDE DEF Longer, N
    <2> DEFINE next == [k \in 0 .. n + 1 |-> IF k = n + 1
                                             THEN Longer(lists[n], n + 1)
                                             ELSE lists[k]]
    <2>2. IsLists(next, n + 1)
        <3>1. n \in Nat
            BY <1>1
        <3>2. \A k \in 0 .. n :
                  lists[k] = IF k = 0 THEN {<<>>} ELSE Longer(lists[k - 1], k)
            BY <2>1
        <3>3. /\ next = [k \in 0 .. n + 1 |-> next[k]]
              /\ next[n + 1] = Longer(lists[n], n + 1)
              /\ \A k \in 0 .. n : next[k] = lists[k]
            BY <3>1
        <3> HIDE DEF next
        <3>4. ASSUME NEW k \in 0 .. n + 1
              PROVE  next[k] = IF k = 0 THEN {<<>>} ELSE Longer(next[k - 1], k)
            <4>1. CASE k = 0
                <5>1. 0 \in 0 .. n
                    BY <3>1
                <5>2. next[0] = lists[0] /\ lists[0] = {<<>>}
                    BY <3>2, <3>3, <5>1
                <5> QED BY <4>1, <5>2
            <4>2. CASE k = n + 1
                <5>1. n \in 0 .. n /\ k - 1 = n /\ k # 0
                    BY <3>1, <4>2
                <5>2. next[k - 1] = lists[n]
                    BY <3>3, <5>1
                <5> QED BY <3>3, <4>2, <5>1, <5>2
            <4>3. CASE k # 0 /\ k # n + 1
                <5>1. k \in 0 .. n /\ k - 1 \in 0 .. n
                    BY <3>1, <4>3
                <5>2. next[k - 1] = lists[k - 1] /\ next[k] = lists[k]
                    BY <3>3, <5>1
                <5> QED BY <3>2, <4>3, <5>1, <5>2
            <4> QED BY <4>1, <4>2, <4>3
        <3> QED BY <3>3, <3>4, Zenon
    <2>3. n + 1 \in Nat
        BY <1>1
    <2> HIDE DEF IsLists, next
    <2> QED BY <2>2, <2>3
<1>4. N \in Good
    <2> HIDE DEF Good, N
    <2>1. \A n \in 0 .. N - 1 : n \in Good => n + 1 \in Good
        BY <1>3
    <2>2. \A n \in 0 .. N : n \in Good
        BY <1>1, <1>2, <2>1, Induction
    <2> QED BY <1>1, <2>2
<1> DEFINE lists == CHOOSE f : IsLists(f, N)
<1>5. IsLists(lists, N)
    <2>1. \E f : IsLists(f, N)
        BY <1>4
    <2> HIDE DEF IsLists
    <2> QED BY <2>1, Zenon
<1>6. OneOfEach(possible) = lists[N]
    BY DEF OneOfEach
<1> HIDE DEF lists, Longer, N
<1>7. \A k \in 0 .. N :
          lists[k] = IF k = 0 THEN {<<>>} ELSE Longer(lists[k - 1], k)
    BY <1>5
<1> DEFINE Right(t, n) == /\ t \in Seq(U) /\ Len(t) = n
                          /\ \A i \in 1 .. n : t[i] \in possible[i]
           Built == {n \in 0 .. N : \A t \in lists[n] : Right(t, n)}
<1> HIDE DEF U
<1>8. 0 \in Built
    <2>1. lists[0] = {<<>>} /\ 0 \in 0 .. N
        BY <1>1, <1>7
    <2>2. Right(<<>>, 0)
        OBVIOUS
    <2> QED BY <2>1, <2>2
<1>9. ASSUME NEW n \in 0 .. N - 1, n \in Built PROVE n + 1 \in Built
    <2>1. n + 1 \in 0 .. N /\ n + 1 # 0 /\ (n + 1) - 1 = n /\ n \in Nat
        BY <1>1
    <2>2. lists[n + 1] = Longer(lists[n], n + 1)
        BY <1>7, <2>1
    <2>3. ASSUME NEW t \in lists[n + 1] PROVE Right(t, n + 1)
        <3>1. PICK r \in lists[n], x \in possible[n + 1] : t = Append(r, x)
            BY <2>2 DEF Longer
        <3>2. Right(r, n)
            BY <1>9
        <3>3. x \in U
            BY <1>1 DEF U
        <3>4. t \in Seq(U) /\ Len(t) = n + 1
            BY <2>1, <3>1, <3>2, <3>3
        <3>5. \A i \in 1 .. n + 1 : t[i] = IF i = n + 1 THEN x ELSE r[i]
            BY <2>1, <3>1, <3>2, <3>3
        <3> QED BY <2>1, <3>2, <3>4, <3>5
    <2> HIDE DEF Right
    <2> QED BY <2>1, <2>3
<1>10. N \in Built
    <2> HIDE DEF Built
    <2>1. \A n \in 0 .. N - 1 : n \in Built => n + 1 \in Built
        BY <1>9
    <2>2. \A n \in 0 .. N : n \in Built
        BY <1>1, <1>8, <2>1, Induction
    <2> QED BY <1>1, <2>2
<1>11. Right(s, N)
    BY <1>6, <1>10
<1> QED BY <1>1, <1>11

LEMMA InitInv ==
    ASSUME Init
    PROVE  IInv
<1>1. files \in Batches /\ files \in Seq(Seq(Bytes))
    <2>1. Seq(Bytes) \ {<<>>} \subseteq Seq(Bytes)
        OBVIOUS
    <2>2. files \in Seq(Seq(Bytes) \ {<<>>})
        BY BatchesAssumption DEF Init
    <2> QED BY <2>2 DEF Init
<1>2. FilesInv
    <2>1. /\ DOMAIN file_tags = DOMAIN files
          /\ \A i \in DOMAIN files : file_tags[i] \in FileTags(files[i])
        <3> DEFINE possible == [i \in DOMAIN files |-> FileTags(files[i])]
                   T == {FileTags(files[i]) : i \in DOMAIN files}
        <3>0. possible \in Seq(T)
            BY <1>1
        <3>1. file_tags \in OneOfEach(possible)
            BY DEF Init
        <3>2. DOMAIN possible = DOMAIN files
              /\ \A i \in DOMAIN files : possible[i] = FileTags(files[i])
            OBVIOUS
        <3> HIDE DEF possible, T
        <3> QED BY <3>0, <3>1, <3>2, OneOfEachType
    <2>2. /\ DOMAIN stored = DOMAIN files
          /\ \A i \in DOMAIN files : stored[i] \in Copies(files[i])
        <3> DEFINE possible == [i \in DOMAIN files |-> Copies(files[i])]
                   T == {Copies(files[i]) : i \in DOMAIN files}
        <3>0. possible \in Seq(T)
            BY <1>1
        <3>1. stored \in OneOfEach(possible)
            BY DEF Init
        <3>2. DOMAIN possible = DOMAIN files
              /\ \A i \in DOMAIN files : possible[i] = Copies(files[i])
            OBVIOUS
        <3> HIDE DEF possible, T
        <3> QED BY <3>0, <3>1, <3>2, OneOfEachType
    <2> QED BY <1>1, <2>1, <2>2 DEF FilesInv
<1>3. ChallengesInv
    BY <1>1 DEF Init, ChallengesInv
<1>4. FailedInv
    BY DEF Init, FailedInv
<1>6. SumsInv
    <2>1. mus = Zeros /\ Zeros \in [Sectors -> Nat]
        BY DEF Init, Zeros
    <2>2. processed = 0 /\ sigma_sum = 0 /\ ~file_failed /\ file_failed \in BOOLEAN
        BY DEF Init
    <2> QED BY <2>1, <2>2 DEF SumsInv
<1>5. ProofsInv /\ ResultsInv
    BY <1>1 DEF Init, ProofsInv, ResultsInv
<1> QED BY <1>1, <1>2, <1>3, <1>4, <1>5, <1>6 DEF IInv

LEMMA BuildChallengeInv ==
    ASSUME IInv, BuildChallenge
    PROVE  IInv'
<1> DEFINE i == Len(indexes) + 1
<1>1. PICK drawn \in Indexes(NumBlocks(files[i])) :
          /\ indexes' = Append(indexes, drawn)
          /\ \E new \in [1 .. Len(drawn) - Len(weights) -> WeightValues] :
                 weights' = weights \o new
    BY DEF BuildChallenge
<1>2. PICK new \in [1 .. Len(drawn) - Len(weights) -> WeightValues] :
          weights' = weights \o new
    BY <1>1
<1>3. /\ Len(indexes) < Len(files)
      /\ UNCHANGED <<files, file_tags, stored, proofs, prover_vars, results>>
    BY DEF BuildChallenge
<1>4. /\ indexes \in Seq(Seq(Nat)) /\ weights \in Seq(WeightValues)
      /\ files \in Seq(Seq(Bytes)) /\ i \in 1 .. Len(files)
      /\ files[i] \in Seq(Bytes)
    BY <1>3 DEF IInv, ChallengesInv, FilesInv
<1>5. drawn \in Seq(Nat) /\ Len(drawn) \in Nat
    <2>1. NumBlocks(files[i]) \in Nat
        BY <1>4, NumBlocksType
    <2>2. drawn \in Seq(Nat)
        BY <2>1, IndexesType
    <2> QED BY <2>2
<1>6. /\ weights' \in Seq(WeightValues)
      /\ Len(weights) <= Len(weights') /\ Len(drawn) <= Len(weights')
    <2>1. new \in Seq(WeightValues)
          /\ (Len(drawn) > Len(weights) => Len(new) = Len(drawn) - Len(weights))
        <3>1. CASE Len(drawn) > Len(weights)
            <4>1. Len(drawn) - Len(weights) \in Nat
                BY <1>4, <1>5, <3>1
            <4> QED BY <4>1
        <3>2. CASE ~(Len(drawn) > Len(weights))
            <4>1. 1 .. Len(drawn) - Len(weights) = 1 .. 0
                BY <1>4, <1>5, <3>2
            <4> QED BY <3>2, <4>1
        <3> QED BY <3>1, <3>2
    <2>2. /\ weights' \in Seq(WeightValues)
          /\ Len(weights') = Len(weights) + Len(new) /\ Len(new) \in Nat
        BY <1>2, <1>4, <2>1
    <2>3. Len(weights) \in Nat
        BY <1>4
    <2> QED BY <1>5, <2>1, <2>2, <2>3
<1>7. FilesInv' /\ files' \in Batches
    BY <1>3 DEF IInv, FilesInv
<1>8. ChallengesInv'
    <2>1. /\ indexes' \in Seq(Seq(Nat)) /\ Len(indexes') = Len(indexes) + 1
          /\ Len(indexes') <= Len(files')
        BY <1>1, <1>3, <1>4, <1>5
    <2>2. ASSUME NEW j \in DOMAIN indexes'
          PROVE  /\ indexes'[j] \in Indexes(NumBlocks(files'[j]))
                 /\ Len(indexes'[j]) <= Len(weights')
        <3>1. CASE j = i
            BY <1>1, <1>3, <1>4, <1>6, <3>1
        <3>2. CASE j # i
            <4>1. j \in DOMAIN indexes /\ indexes'[j] = indexes[j]
                BY <1>1, <1>4, <1>5, <3>2
            <4>2. /\ indexes[j] \in Indexes(NumBlocks(files[j]))
                  /\ Len(indexes[j]) <= Len(weights)
                BY <4>1 DEF IInv, ChallengesInv
            <4>3. Len(indexes[j]) \in Nat /\ Len(weights) \in Nat /\ Len(weights') \in Nat
                BY <1>4, <1>6, <4>1
            <4> QED BY <1>3, <1>6, <4>1, <4>2, <4>3
        <3> QED BY <3>1, <3>2
    <2> QED BY <1>6, <2>1, <2>2 DEF ChallengesInv
<1>9. proofs = <<>> /\ processed = 0
    BY <1>3, <1>4 DEF IInv, SumsInv, ProofsInv
<1>10. SumsInv' /\ FailedInv'
    BY <1>3, <1>9 DEF IInv, SumsInv, FailedInv, prover_vars, Zeros
<1>11. ProofsInv'
    BY <1>3, <1>9 DEF IInv, ProofsInv
<1>12. results = <<>>
    BY <1>9 DEF IInv, ResultsInv
<1>13. ResultsInv'
    BY <1>3, <1>9, <1>12 DEF ResultsInv
<1> QED BY <1>7, <1>8, <1>10, <1>11, <1>13 DEF IInv

\* The block the Fetcher returns is the one that was asked for, though its
\* stream stays failed once the last block has been read: no block follows it.
LEMMA FetchedIsAsked ==
    ASSUME IInv, Len(indexes) = Len(files), Proved <= Len(files),
           processed < Len(indexes[Proved])
    PROVE  FetchedBlock(indexes[Proved][processed + 1])
               = Block(stored[Proved], indexes[Proved][processed + 1])
<1> DEFINE i == Proved
           n == processed + 1
<1>1. i \in DOMAIN indexes /\ i \in DOMAIN files
    BY DEF IInv, ProofsInv, ChallengesInv, FilesInv, Proved
<1>2. FilesInv /\ ChallengesInv
    BY DEF IInv
<1>3. /\ Len(indexes[i]) \in Nat /\ n \in 1 .. Len(indexes[i]) /\ processed \in Nat
      /\ DOMAIN indexes[i] = 1 .. Len(indexes[i])
    BY <1>1, <1>2, TermsType DEF IInv, SumsInv
<1>4. CASE ~file_failed
    BY <1>4 DEF FetchedBlock
<1>5. CASE file_failed
    <2>1. PICK k \in 1 .. processed : Len(Block(stored[i], indexes[i][k])) < BlockSize
        BY <1>5 DEF IInv, FailedInv
    <2>2. k \in 1 .. Len(indexes[i]) /\ k < n
        BY <1>3, <2>1
    <2>3. indexes[i][k] \in Nat /\ indexes[i][n] \in Nat
        BY <1>1, <1>2, <1>3, <2>2, ItemType
    <2>4. indexes[i][k] < indexes[i][n]
        <3>1. files[i] \in Seq(Bytes) /\ indexes[i] \in Indexes(NumBlocks(files[i]))
            BY <1>1, <1>2 DEF FilesInv, ChallengesInv
        <3> QED BY <1>3, <2>2, <3>1, NumBlocksType, IndexesType
    <2>5. stored[i] \in Seq(Bytes)
        BY <1>1, <1>2, CopyType DEF FilesInv
    <2>6. Block(stored[i], indexes[i][n]) = <<>>
        BY <2>1, <2>3, <2>4, <2>5, BlockType
    <2> QED BY <1>5, <2>6 DEF FetchedBlock
<1> QED BY <1>4, <1>5

LEMMA ProcessChallengeInv ==
    ASSUME IInv, ProcessChallenge
    PROVE  IInv'
<1> DEFINE i == Proved
           k == processed + 1
           b == indexes[i][k]
           block == Block(stored[i], b)
<1>1. /\ Len(indexes) = Len(files) /\ i <= Len(files)
      /\ processed < Len(indexes[i])
      /\ processed' = k
      /\ UNCHANGED <<challenge_vars, proofs, results>>
    BY DEF ProcessChallenge
<1>2. FetchedBlock(b) = block
    BY <1>1, FetchedIsAsked
<1>3. /\ sigma_sum' = sigma_sum + ItemWeight(k) * file_tags[i].sigmas[b]
      /\ mus' = [s \in Sectors |-> mus[s] + ItemWeight(k) * Sector(block, s)]
      /\ file_failed' = (file_failed \/ Len(block) < BlockSize)
    BY <1>2 DEF ProcessChallenge, ProverWeight, ItemWeight
<1>4. FilesInv /\ ChallengesInv /\ SumsInv /\ UNCHANGED challenge_vars
    BY <1>1 DEF IInv
<1>5. i \in DOMAIN indexes /\ i \in DOMAIN files
    BY <1>1 DEF IInv, ProofsInv, ChallengesInv, FilesInv, Proved
<1>6. /\ Len(indexes[i]) \in Nat /\ processed \in Nat
      /\ processed \in 0 .. Len(indexes[i]) - 1
      /\ k \in DOMAIN indexes[i]
    BY <1>1, <1>4, <1>5, TermsType DEF SumsInv
<1>7. /\ sigma_sum \in Nat /\ mus \in [Sectors -> Nat]
      /\ Balanced(i, processed, sigma_sum, mus)
    <2>1. CASE processed = 0
        BY <1>4, <1>5, <2>1, ZeroBalanced DEF SumsInv
    <2>2. CASE processed > 0
        BY <1>4, <2>2 DEF SumsInv
    <2> QED BY <1>4, <1>6, <2>1, <2>2 DEF SumsInv
<1>8. file_tags[i].sigmas[b] \in Nat /\ Balanced(i, k, sigma_sum', mus')
    <2> HIDE DEF i
    <2> QED BY <1>3, <1>4, <1>5, <1>6, <1>7, ItemBalanced
<1>9. sigma_sum' \in Nat /\ mus' \in [Sectors -> Nat]
    <2>1. /\ ItemWeight(k) \in Nat
          /\ \A s \in Sectors : Sector(block, s) \in Nat
        BY <1>4, <1>5, <1>6, ItemType
    <2>2. \A s \in Sectors : mus[s] + ItemWeight(k) * Sector(block, s) \in Nat
        BY <1>7, <2>1
    <2>3. ItemWeight(k) * file_tags[i].sigmas[b] \in Nat
        BY <1>8, <2>1
    <2>4. sigma_sum' \in Nat
        BY <1>3, <1>7, <2>3
    <2>5. mus' \in [Sectors -> Nat]
        <3> HIDE DEF k, block
        <3> QED BY <1>3, <2>2
    <2> QED BY <2>4, <2>5
<1>10. SumsInv'
    <2>1. Balanced(Proved, processed, sigma_sum, mus)'
        <3>1. Balanced(Proved', processed', sigma_sum', mus')
            BY <1>1, <1>8 DEF Proved
        <3> QED BY <1>4, <3>1, BalancedKept
    <2>2. /\ Len(indexes') = Len(files') /\ Proved' <= Len(files')
          /\ processed' <= Len(indexes'[Proved'])
          /\ processed' > 0 /\ processed' \in Nat
        BY <1>1, <1>6 DEF challenge_vars, Proved
    <2>3. file_failed' \in BOOLEAN
        BY <1>3
    <2> QED BY <1>9, <2>1, <2>2, <2>3 DEF SumsInv
<1>11. FailedInv'
    <2>1. ASSUME file_failed'
          PROVE  \E j \in 1 .. k : Len(Block(stored[i], indexes[i][j])) < BlockSize
        <3>1. CASE file_failed
            BY <1>6, <3>1 DEF IInv, FailedInv
        <3>2. CASE Len(block) < BlockSize
            BY <1>6, <3>2
        <3> QED BY <1>3, <2>1, <3>1, <3>2
    <2> QED BY <1>1, <2>1 DEF FailedInv, challenge_vars, Proved
<1>12. ProofsInv' /\ ResultsInv'
    <2>1. Len(proofs) \in Nat /\ proofs' = proofs
        BY <1>1 DEF IInv, ProofsInv
    <2> QED BY <1>1, <1>4, <2>1, ProofsKept, ResultsKept DEF IInv
<1> QED BY <1>4, <1>10, <1>11, <1>12, UploadsKept DEF IInv

LEMMA ProveInv ==
    ASSUME IInv, Prove
    PROVE  IInv'
<1> DEFINE i == Proved
           sigma == sigma_sum % Prime
           reduced == [s \in Sectors |-> mus[s] % Prime]
<1>1. /\ Len(indexes) = Len(files) /\ i <= Len(files)
      /\ processed = Len(indexes[i])
      /\ proofs' = Append(proofs, [sigma |-> sigma, mus |-> reduced])
      /\ NewProver
      /\ UNCHANGED <<challenge_vars, results>>
    BY DEF Prove
<1>2. FilesInv /\ ChallengesInv /\ SumsInv /\ UNCHANGED challenge_vars
    BY <1>1 DEF IInv
<1>3. /\ i \in DOMAIN indexes /\ i \in DOMAIN files
      /\ proofs \in Seq([sigma : 0 .. Prime - 1, mus : [Sectors -> 0 .. Prime - 1]])
      /\ i = Len(proofs) + 1
    BY <1>1 DEF IInv, ProofsInv, ChallengesInv, FilesInv, Proved
<1>4. /\ Len(indexes[i]) \in Nat /\ Len(indexes[i]) >= 1
    <2>1. files[i] \in Seq(Bytes) /\ indexes[i] \in Indexes(NumBlocks(files[i]))
        BY <1>2, <1>3 DEF FilesInv, ChallengesInv
    <2> QED BY <1>2, <1>3, <2>1, TermsType, NumBlocksType, IndexesType
<1>5. /\ sigma_sum \in Nat /\ mus \in [Sectors -> Nat]
      /\ Balanced(i, Len(indexes[i]), sigma_sum, mus)
    BY <1>1, <1>2, <1>4 DEF SumsInv
<1>6. /\ sigma \in 0 .. Prime - 1
      /\ reduced \in [Sectors -> 0 .. Prime - 1]
    <2>1. \A x \in Int : x % Prime \in 0 .. Prime - 1
        BY SameRemainder
    <2> QED BY <1>5, <2>1
<1>7. Balanced(i, Len(indexes[i]), sigma, reduced)
    <2>1. Len(indexes[i]) \in 0 .. Len(indexes[i])
        BY <1>4
    <2> HIDE DEF i
    <2> QED BY <1>2, <1>3, <1>5, <2>1, ReducedBalanced
<1>8. SumsInv' /\ FailedInv'
    <2>1. mus' = Zeros /\ Zeros \in [Sectors -> Nat]
        BY <1>1 DEF NewProver, Zeros
    <2>2. processed' = 0 /\ sigma_sum' = 0 /\ ~file_failed' /\ file_failed' \in BOOLEAN
        BY <1>1 DEF NewProver
    <2> QED BY <2>1, <2>2 DEF SumsInv, FailedInv, Zeros
<1>9. ProofsInv'
    <2> DEFINE proof == [sigma |-> sigma, mus |-> reduced]
               Proofs == [sigma : 0 .. Prime - 1, mus : [Sectors -> 0 .. Prime - 1]]
    <2>1. proof \in Proofs /\ proof.sigma = sigma /\ proof.mus = reduced
        BY <1>6
    <2>2. proofs \in Seq(Proofs) /\ proofs' = Append(proofs, proof)
        BY <1>1, <1>3
    <2> HIDE DEF proof, Proofs, sigma, reduced, i
    <2>3. /\ proofs' \in Seq(Proofs) /\ Len(proofs') = i
          /\ DOMAIN proofs' = DOMAIN proofs \cup {i}
          /\ proofs'[i] = proof /\ \A j \in DOMAIN proofs : proofs'[j] = proofs[j]
        BY <1>3, <2>1, <2>2
    <2>4. ASSUME NEW j \in DOMAIN proofs'
          PROVE  Balanced(j, Len(indexes[j]), proofs'[j].sigma, proofs'[j].mus)
        <3>1. CASE j = i
            BY <1>7, <2>1, <2>3, <3>1
        <3>2. CASE j # i
            BY <2>3, <3>2 DEF IInv, ProofsInv
        <3> QED BY <3>1, <3>2
    <2>5. (\A j \in DOMAIN proofs :
              Balanced(j, Len(indexes[j]), proofs[j].sigma, proofs[j].mus))'
        BY <1>2, <2>4, BalancedKept DEF challenge_vars
    <2> QED BY <1>1, <1>2, <2>3, <2>5 DEF ProofsInv, Proofs, challenge_vars
<1>10. ResultsInv'
    <2>1. Len(proofs) \in Nat /\ Len(proofs') = Len(proofs) + 1
        BY <1>1, <1>3
    <2> QED BY <1>1, <1>2, <2>1, ResultsKept DEF IInv
<1> QED BY <1>2, <1>8, <1>9, <1>10, UploadsKept DEF IInv

LEMMA VerifyFileInv ==
    ASSUME IInv, VerifyFile
    PROVE  IInv'
<1> DEFINE i == Len(results) + 1
<1>1. /\ Len(proofs) = Len(files) /\ i <= Len(proofs)
      /\ results' = Append(results, ExpectedSigma(i) = proofs[i].sigma)
      /\ UNCHANGED <<challenge_vars, proofs, prover_vars>>
    BY DEF VerifyFile
<1>2. FilesInv /\ ChallengesInv /\ UNCHANGED challenge_vars
    BY <1>1 DEF IInv
<1>3. results \in Seq(BOOLEAN) /\ i \in DOMAIN proofs
    BY <1>1 DEF IInv, ResultsInv, ProofsInv
<1>4. i \in DOMAIN indexes
    <2>1. ~(Len(indexes) < Len(files))
        BY <1>3 DEF IInv, ProofsInv
    <2>2. indexes \in Seq(Seq(Nat)) /\ files \in Seq(Seq(Bytes))
        BY <1>2 DEF ChallengesInv, FilesInv
    <2> QED BY <1>1, <1>3, <2>1, <2>2
<1>5. /\ proofs[i].sigma \in 0 .. Prime - 1
      /\ proofs[i].mus \in [Sectors -> 0 .. Prime - 1]
      /\ Balanced(i, Len(indexes[i]), proofs[i].sigma, proofs[i].mus)
    <2> DEFINE Proofs == [sigma : 0 .. Prime - 1, mus : [Sectors -> 0 .. Prime - 1]]
    <2>1. proofs[i] \in Proofs
        <3>1. proofs \in Seq(Proofs)
            BY DEF IInv, ProofsInv
        <3> HIDE DEF Proofs, i
        <3> QED BY <1>3, <3>1
    <2> QED BY <1>3, <2>1 DEF IInv, ProofsInv
<1>6. ExpectedSigma(i) = (WeightedPrf(i) + Combined(i, proofs[i].mus)) % Prime
    BY DEF ExpectedSigma, Combined, Products
<1>7. (ExpectedSigma(i) = proofs[i].sigma) <=> Same(WeightedDeviation(i), 0)
    <2> HIDE DEF i
    <2> QED BY <1>2, <1>4, <1>5, <1>6, VerdictOfBalanced
<1>8. ResultsInv'
    <2> DEFINE verdict == ExpectedSigma(i) = proofs[i].sigma
    <2>1. verdict \in BOOLEAN /\ (verdict <=> Same(WeightedDeviation(i), 0))
        BY <1>7
    <2> HIDE DEF verdict
    <2>2. results' = Append(results, verdict)
        BY <1>1 DEF verdict
    <2>3. /\ results' \in Seq(BOOLEAN) /\ Len(results') = i
          /\ DOMAIN results' = DOMAIN results \cup {i}
          /\ results'[i] = verdict /\ \A j \in DOMAIN results : results'[j] = results[j]
        BY <1>3, <2>1, <2>2
    <2>4. \A j \in DOMAIN results' : results'[j] <=> Same(WeightedDeviation(j), 0)
        BY <2>1, <2>3 DEF IInv, ResultsInv
    <2>5. (\A j \in DOMAIN results : results[j] <=> Same(WeightedDeviation(j), 0))'
        <3>1. \A j : WeightedDeviation(j)' = WeightedDeviation(j)
            BY <1>2, ChallengesKept
        <3> QED BY <2>4, <3>1
    <2> QED BY <1>1, <2>3, <2>5 DEF ResultsInv
<1>9. SumsInv' /\ FailedInv'
    <2>1. UNCHANGED <<processed, file_failed, sigma_sum, mus, proofs>>
        BY <1>1 DEF prover_vars
    <2>2. Balanced(Proved, processed, sigma_sum, mus)
              => Balanced(Proved, processed, sigma_sum, mus)'
        <3>1. Balanced(Proved, processed, sigma_sum, mus)
                  <=> Balanced(Proved', processed', sigma_sum', mus')
            BY <2>1 DEF Proved
        <3> QED BY <1>2, <3>1, BalancedKept
    <2> QED BY <1>2, <2>1, <2>2
            DEF IInv, SumsInv, FailedInv, challenge_vars, Proved
<1>10. ProofsInv'
    BY <1>1, <1>2, ProofsKept DEF IInv
<1> QED BY <1>2, <1>8, <1>9, <1>10, UploadsKept DEF IInv

-----------------------------------------------------------------------------
(* The theorems                                                            *)

LEMMA Invariant ==
    Spec => []IInv
<1>1. Init => IInv
    BY InitInv
<1>2. IInv /\ [Next]_vars => IInv'
    <2> SUFFICES ASSUME IInv, [Next]_vars PROVE IInv'
        OBVIOUS
    <2>1. CASE BuildChallenge
        BY <2>1, BuildChallengeInv
    <2>2. CASE ProcessChallenge
        BY <2>2, ProcessChallengeInv
    <2>3. CASE Prove
        BY <2>3, ProveInv
    <2>4. CASE VerifyFile
        BY <2>4, VerifyFileInv
    <2>5. CASE UNCHANGED vars
        <3>1. /\ UNCHANGED challenge_vars
              /\ UNCHANGED <<proofs, processed, file_failed, sigma_sum, mus, results>>
            BY <2>5 DEF vars, prover_vars
        <3>2. Len(proofs) \in Nat /\ proofs' = proofs
            BY <3>1 DEF IInv, ProofsInv
        <3>3. Balanced(Proved, processed, sigma_sum, mus)
                  => Balanced(Proved, processed, sigma_sum, mus)'
            <4>1. Balanced(Proved, processed, sigma_sum, mus)
                      <=> Balanced(Proved', processed', sigma_sum', mus')
                BY <3>1 DEF Proved
            <4> QED BY <3>1, <4>1, BalancedKept
        <3>4. SumsInv' /\ FailedInv'
            BY <3>1, <3>3 DEF IInv, SumsInv, FailedInv, challenge_vars, Proved
        <3> QED BY <3>1, <3>2, <3>4, UploadsKept, ProofsKept, ResultsKept DEF IInv
    <2> QED BY <2>1, <2>2, <2>3, <2>4, <2>5 DEF Next
<1> QED BY <1>1, <1>2, PTL DEF Spec

\* The variables keep their types: the sums of a Prover stay natural, and there
\* is a weight for every item it processes.
THEOREM ProofTypes ==
    Spec => []TypeOK
<1>1. IInv => TypeOK
    <2> SUFFICES ASSUME IInv PROVE TypeOK
        OBVIOUS
    <2>1. processed \in 0 .. Len(weights)
        <3>1. CASE processed = 0
            BY <3>1 DEF IInv, ChallengesInv
        <3>2. CASE processed > 0
            <4>1. Proved \in DOMAIN indexes /\ processed <= Len(indexes[Proved])
                BY <3>2 DEF IInv, SumsInv, ProofsInv, ChallengesInv, FilesInv, Proved
            <4>2. Len(indexes[Proved]) <= Len(weights) /\ Len(indexes[Proved]) \in Nat
                BY <4>1 DEF IInv, ChallengesInv
            <4> QED BY <4>1, <4>2 DEF IInv, SumsInv, ChallengesInv
        <3> QED BY <3>1, <3>2 DEF IInv, SumsInv
    <2> QED BY <2>1 DEF TypeOK, IInv, ChallengesInv, SumsInv, ProofsInv, ResultsInv
<1> QED BY <1>1, Invariant, PTL

\* VerifyFile() accepts a proof exactly if the weighted deviations of the blocks
\* asked for add up to zero in the field: an intact file is never called
\* corrupted, and the failed stream of the Fetcher, the weights shared by the
\* batch and the other files make no difference.
THEOREM VerdictIsExact ==
    Spec => []VerdictExact
<1>1. IInv => VerdictExact
    <2> SUFFICES ASSUME IInv, NEW i \in DOMAIN results
                 PROVE  results[i] <=> WeightedDeviation(i) % Prime = 0
        BY DEF VerdictExact
    <2>1. FilesInv /\ ChallengesInv
        BY DEF IInv
    <2>2. i \in DOMAIN indexes
        BY DEF IInv, ResultsInv, ProofsInv, ChallengesInv, FilesInv
    <2>3. WeightedDeviation(i) \in Int
        <3>1. WeightedDeviation(i) = Sum(Deviations(i), Len(indexes[i]))
            BY DEF WeightedDeviation, Deviations, SectorDeviations
        <3>2. Len(indexes[i]) \in 0 .. Len(indexes[i])
            BY <2>1, <2>2, TermsType
        <3> QED BY <2>1, <2>2, <3>1, <3>2, TermsType
    <2>4. 0 % Prime = 0
        BY PrimeAssumption DEF Positive
    <2>5. Same(WeightedDeviation(i), 0) <=> WeightedDeviation(i) % Prime = 0
        BY <2>3, <2>4, SameRemainder
    <2> QED BY <2>5 DEF IInv, ResultsInv
<1> QED BY <1>1, Invariant, PTL

\* One deviation is not hidden by the others, which are zero to the field.
LEMMA OneDeviation ==
    ASSUME FilesInv, ChallengesInv, NEW i \in DOMAIN indexes,
           NEW k \in DOMAIN indexes[i], NEW s \in Sectors,
           Deviating(i) = {<<k, s>>},
           ~Same(file_tags[i].alphas[s], 0)
    PROVE  ~Same(WeightedDeviation(i), 0)
<1> DEFINE n == Len(indexes[i])
           D(j) == Sum(SectorDeviations(i, j), NumSectors)
           a == file_tags[i].alphas[s]
           d == Deviation(i, k, s)
           w == ItemWeight(k)
<1>1. /\ DOMAIN indexes[i] = 1 .. n /\ n \in Nat
      /\ \A j \in 1 .. n : D(j) \in Int /\ Deviations(i)[j] \in Int
    BY TermsType
<1>2. \A j \in 1 .. n : Deviations(i)[j] = ItemWeight(j) * D(j)
    BY <1>1 DEF Deviations
<1>3. \A j \in 1 .. n, r \in Sectors :
          /\ file_tags[i].alphas[r] \in Nat /\ Deviation(i, j, r) \in Int
          /\ ItemWeight(j) \in Nat /\ ~Same(ItemWeight(j), 0)
    BY <1>1, ItemType
<1>4. 0 % Prime = 0
    BY PrimeAssumption DEF Positive
<1>5. \A j \in 1 .. n, r \in Sectors :
          <<j, r>> # <<k, s>> => Same(Deviation(i, j, r), 0)
    <2> TAKE j \in 1 .. n, r \in Sectors
    <2>1. <<j, r>> # <<k, s>> => Deviation(i, j, r) % Prime = 0
        <3>1. <<j, r>> \in Places(i)
            BY <1>1 DEF Places
        <3> QED BY <3>1 DEF Deviating
    <2> QED BY <1>3, <1>4, <2>1, SameRemainder
<1>6. ~Same(d, 0)
    <2>1. <<k, s>> \in Deviating(i)
        OBVIOUS
    <2>2. d % Prime # 0
        BY <2>1 DEF Deviating
    <2> QED BY <1>1, <1>3, <1>4, <2>2, SameRemainder
<1>7. ASSUME NEW j \in 1 .. n
      PROVE  \A r \in 1 .. NumSectors :
                 /\ SectorDeviations(i, j)[r] = file_tags[i].alphas[r] * Deviation(i, j, r)
                 /\ SectorDeviations(i, j)[r] \in Int
                 /\ <<j, r>> # <<k, s>> => Same(SectorDeviations(i, j)[r], 0)
    <2> TAKE r \in 1 .. NumSectors
    <2> DEFINE x == file_tags[i].alphas[r]
               y == Deviation(i, j, r)
    <2>1. r \in Sectors /\ SectorDeviations(i, j)[r] = x * y
        BY DEF SectorDeviations, Sectors
    <2>2. x \in Nat /\ y \in Int /\ (<<j, r>> # <<k, s>> => Same(y, 0))
        BY <1>3, <1>5, <2>1
    <2> HIDE DEF x, y
    <2>3. Same(y, 0) => Same(x * y, 0)
        <3>1. Same(0, 0) /\ 0 \in Int /\ x \in Int
            BY <2>2, SameEquivalence
        <3>2. Same(y, 0) => Same(0 + x * y, 0 + x * 0)
            BY <2>2, <3>1, SameSum
        <3>3. 0 + x * y = x * y /\ 0 + x * 0 = 0
            BY <2>2
        <3> QED BY <3>2, <3>3
    <2>4. x * y \in Int
        BY <2>2
    <2> QED BY <2>1, <2>2, <2>3, <2>4 DEF x, y
<1>8. ASSUME NEW j \in 1 .. n, j # k PROVE Same(Deviations(i)[j], 0)
    <2>1. \A r \in 1 .. NumSectors :
              /\ SectorDeviations(i, j)[r] \in Int
              /\ r # 0 => Same(SectorDeviations(i, j)[r], 0)
        BY <1>7, <1>8
    <2>2. Same(D(j), IF 0 \in 1 .. NumSectors THEN SectorDeviations(i, j)[0] ELSE 0)
        BY <2>1, Sizes, SumOfOne
    <2> DEFINE x == ItemWeight(j)
               y == D(j)
    <2>3. x \in Int /\ y \in Int /\ Same(y, 0) /\ Deviations(i)[j] = x * y
        <3>1. 1 \in Sectors
            BY SectorAssumption DEF Sectors, Positive
        <3>2. x \in Int /\ y \in Int /\ Deviations(i)[j] = x * y
            BY <1>1, <1>2, <1>3, <3>1
        <3>3. ~(0 \in 1 .. NumSectors)
            BY Sizes
        <3> QED BY <2>2, <3>2, <3>3
    <2> HIDE DEF x, y, D
    <2>4. Same(0, 0) /\ 0 \in Int
        BY SameEquivalence
    <2>5. Same(0 + x * y, 0 + x * 0)
        BY <2>3, <2>4, SameSum
    <2>6. 0 + x * y = x * y /\ 0 + x * 0 = 0
        BY <2>3
    <2> QED BY <2>3, <2>5, <2>6
<1>9. Same(WeightedDeviation(i), Deviations(i)[k])
    <2>1. WeightedDeviation(i) = Sum(Deviations(i), n)
        BY DEF WeightedDeviation, Deviations, SectorDeviations
    <2>2. k \in Nat /\ k \in 1 .. n
        BY <1>1
    <2>3. \A j \in 1 .. n :
              Deviations(i)[j] \in Int /\ (j # k => Same(Deviations(i)[j], 0))
        BY <1>1, <1>8
    <2> HIDE DEF n
    <2>4. Same(Sum(Deviations(i), n), IF k \in 1 .. n THEN Deviations(i)[k] ELSE 0)
        BY <1>1, <2>2, <2>3, SumOfOne
    <2> QED BY <2>1, <2>2, <2>4
<1>10. Same(D(k), a * d)
    <2>1. \A r \in 1 .. NumSectors :
              /\ SectorDeviations(i, k)[r] \in Int
              /\ r # s => Same(SectorDeviations(i, k)[r], 0)
        BY <1>1, <1>7
    <2>2. s \in Nat /\ s \in 1 .. NumSectors
        BY DEF Sectors
    <2>3. Same(D(k), IF s \in 1 .. NumSectors THEN SectorDeviations(i, k)[s] ELSE 0)
        BY <2>1, <2>2, Sizes, SumOfOne
    <2>4. SectorDeviations(i, k)[s] = a * d
        BY <1>1, <1>7, <2>2
    <2> QED BY <2>2, <2>3, <2>4
<1>11. /\ w \in Nat /\ a \in Nat /\ d \in Int /\ D(k) \in Int
       /\ ~Same(w, 0) /\ ~Same(a, 0)
       /\ Deviations(i)[k] = w * D(k)
       /\ WeightedDeviation(i) \in Int
    <2>1. WeightedDeviation(i) = Sum(Deviations(i), n)
        BY DEF WeightedDeviation, Deviations, SectorDeviations
    <2>2. n \in 0 .. n
        BY <1>1
    <2> QED BY <1>1, <1>2, <1>3, <2>1, <2>2, TermsType
<1> DEFINE W == WeightedDeviation(i)
           v == D(k)
           ad == a * d
<1>12. /\ w \in Nat /\ a \in Nat /\ d \in Int /\ v \in Int /\ W \in Int /\ ad \in Int
       /\ ~Same(w, 0) /\ ~Same(a, 0) /\ ~Same(d, 0)
       /\ Same(W, w * v) /\ Same(v, ad) /\ ad = a * d
    BY <1>6, <1>9, <1>10, <1>11
<1> HIDE DEF w, a, d, v, W, ad, D, n
<1>13. Same(w * v, w * ad)
    <2>1. Same(0, 0) /\ 0 \in Int /\ w \in Int
        BY <1>12, SameEquivalence
    <2>2. Same(0 + w * v, 0 + w * ad)
        BY <1>12, <2>1, SameSum
    <2>3. 0 + w * v = w * v /\ 0 + w * ad = w * ad
        BY <1>12
    <2> QED BY <2>2, <2>3
<1>14. w * v \in Int /\ w * ad \in Int /\ 0 \in Int
    BY <1>12
<1>15. ~Same(ad, 0)
    BY <1>12, NoZeroDivisors
<1>16. ~Same(w * ad, 0)
    BY <1>12, <1>15, NoZeroDivisors
<1>17. Same(W, w * ad)
    BY <1>12, <1>13, <1>14, SameEquivalence
<1>18. Same(W, 0) => Same(w * ad, 0)
    <2>1. Same(w * ad, W)
        BY <1>12, <1>14, <1>17, SameEquivalence
    <2> QED BY <1>12, <1>14, <2>1, SameEquivalence
<1> QED BY <1>16, <1>18 DEF W

\* One sector asked for that differs, in the field, from the one that was tagged
\* is always noticed unless its alpha is zero: here Prime has to be one.
THEOREM ChangeIsDetected ==
    Spec => []SingleChangeDetected
<1>1. IInv => SingleChangeDetected
    <2> SUFFICES ASSUME IInv, NEW i \in DOMAIN results,
                        Cardinality(Deviating(i)) = 1,
                        \A at \in Deviating(i) : file_tags[i].alphas[at[2]] % Prime # 0
                 PROVE  ~results[i]
        BY DEF SingleChangeDetected
    <2>1. FilesInv /\ ChallengesInv
        BY DEF IInv
    <2>2. i \in DOMAIN indexes
        BY DEF IInv, ResultsInv, ProofsInv, ChallengesInv, FilesInv
    <2>3. IsFiniteSet(Deviating(i))
        <3>1. IsFiniteSet(DOMAIN indexes[i])
            BY <2>1, <2>2, TermsType, FS_Interval
        <3>2. IsFiniteSet(Sectors)
            BY Sizes, FS_Interval DEF Sectors
        <3>3. IsFiniteSet(Places(i))
            BY <3>1, <3>2, FS_Product DEF Places
        <3>4. Deviating(i) \subseteq Places(i)
            BY DEF Deviating
        <3> QED BY <3>3, <3>4, FS_Subset
    <2>4. PICK at : Deviating(i) = {at}
        BY <2>3, FS_Singleton
    <2>5. at \in Places(i)
        BY <2>4 DEF Deviating
    <2>6. PICK k \in DOMAIN indexes[i], s \in Sectors : at = <<k, s>>
        BY <2>5 DEF Places
    <2>7. ~Same(file_tags[i].alphas[s], 0)
        <3>1. file_tags[i].alphas[s] % Prime # 0
            BY <2>4, <2>6
        <3>2. file_tags[i].alphas[s] \in Nat
            BY <2>1, <2>2, <2>6, ItemType
        <3>3. 0 % Prime = 0
            BY PrimeAssumption DEF Positive
        <3> QED BY <3>1, <3>2, <3>3, SameRemainder
    <2>8. ~Same(WeightedDeviation(i), 0)
        BY <2>1, <2>2, <2>4, <2>6, <2>7, OneDeviation
    <2> QED BY <2>8 DEF IInv, ResultsInv
<1> QED BY <1>1, Invariant, PTL

=============================================================================
