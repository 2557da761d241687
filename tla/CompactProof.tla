---------------------------- MODULE CompactProof ----------------------------
(***************************************************************************)
(* client/verify/client, no_server_proof_source, server/prover,            *)
(* providers/local_disk/fetcher and client/verify/verify_file: the proofs  *)
(* a server computes for the challenges of a batch of files, from what it  *)
(* has stored of them and of their tags, and what the client makes of each *)
(* one.  The weights are shared by the files, by their place in a          *)
(* challenge.  A Prover adds up, in the field of Prime elements, the       *)
(* weighted tags in sigma_sum and the weighted sectors in mus;             *)
(* VerifyFile() compares the two with what the secret alphas and the PRF   *)
(* predict.  The audit of a single file, DoVerify(), is a batch of one.    *)
(*                                                                         *)
(* A file comes back from the store the way it was, with bytes changed,    *)
(* cut short or continued; its tags come back as they were stored.         *)
(***************************************************************************)
EXTENDS Integers, Sequences, FiniteSets

CONSTANTS
    Base,           \* a byte is one of 0 .. Base - 1, 256 values in the code
    Prime,          \* PublicFileTag::p
    SectorSize,     \* bytes of a sector
    NumSectors,     \* sectors of a block
    Batches,        \* what is audited at once: sequences of files, a file
                    \* being the sequence of its bytes
    Alterations,    \* how many bytes of a stored file may change
    Extensions,     \* what may come to follow a stored file
    AlphaValues, PrfValues, WeightValues

Positive == Nat \ {0}
Bytes == 0 .. Base - 1

ASSUME BaseAssumption == Base \in Positive \ {1}
ASSUME PrimeAssumption ==
    /\ Prime \in Positive \ {1}
    /\ \A d \in 2 .. Prime - 1 : Prime % d # 0
ASSUME SectorAssumption == SectorSize \in Positive /\ NumSectors \in Positive
ASSUME BatchesAssumption ==
    /\ Batches \subseteq Seq(Seq(Bytes) \ {<<>>})
    /\ Extensions \subseteq Seq(Bytes)
ASSUME SecretsAssumption == AlphaValues \subseteq Nat /\ PrfValues \subseteq Nat
\* A weight that is a multiple of p has a negligible probability.
ASSUME WeightAssumption == \A w \in WeightValues : w \in Nat /\ w % Prime # 0

VARIABLES
    files,          \* the files of the batch, as they were when tagged
    file_tags,      \* their PrivateFileTags: alphas, PRF and the block tags
    stored,         \* what the store holds of each
    indexes,        \* the indexes of each challenge built so far
    weights,        \* BatchChallenge::weights
    proofs,         \* the proofs made so far
    processed,      \* ProcessChallenge() calls of the Prover that runs
    file_failed,    \* failbit of its Fetcher's file stream
    sigma_sum, mus,
    results         \* what VerifyFile() has returned so far

challenge_vars == <<files, file_tags, stored, indexes, weights>>
prover_vars == <<processed, file_failed, sigma_sum, mus>>
vars == <<challenge_vars, proofs, prover_vars, results>>

\* Counted from 1, as are the items of a challenge; blocks are counted from 0.
Sectors == 1 .. NumSectors
BlockSize == SectorSize * NumSectors
NumBlocks(f) == (Len(f) + BlockSize - 1) \div BlockSize

\* A fault: the bytes are taken as signed.
SignedNumber(bytes) ==
    LET number[n \in 0 .. Len(bytes)] ==
            IF n = 0 THEN 0
            ELSE number[n - 1] * Base
                     + (IF 2 * bytes[n] >= Base THEN bytes[n] - Base ELSE bytes[n])
    IN  number[Len(bytes)]

\* BN_bin2bn(): the number whose digits are the bytes, most significant first.
Number(bytes) ==
    LET number[n \in 0 .. Len(bytes)] ==
            IF n = 0 THEN 0 ELSE number[n - 1] * Base + bytes[n]
    IN  number[Len(bytes)]

\* The sum of the first n terms.
Sum(terms, n) ==
    LET sum[k \in 0 .. n] == IF k = 0 THEN 0 ELSE sum[k - 1] + terms[k]
    IN  sum[n]

Piece(s, from, size) ==
    SubSeq(s, from + 1, IF from + size <= Len(s) THEN from + size ELSE Len(s))
Block(f, b) == Piece(f, b * BlockSize, BlockSize)
Sector(block, i) == Number(Piece(block, (i - 1) * SectorSize, SectorSize))

-----------------------------------------------------------------------------
(* What was uploaded: GenerateTag() of every block, under the file's       *)
(* random alphas and PRF key.                                              *)

TagSigma(f, alphas, prf, b) ==
    (prf[b] + Sum([i \in Sectors |-> alphas[i] * Sector(Block(f, b), i)],
                  NumSectors)) % Prime

FileTags(f) ==
    {[alphas |-> alphas, prf |-> prf,
      sigmas |-> [b \in 0 .. NumBlocks(f) - 1 |-> TagSigma(f, alphas, prf, b)]] :
        alphas \in [Sectors -> AlphaValues],
        prf \in [0 .. NumBlocks(f) - 1 -> PrfValues]}

\* What a store may return in the place of f.
Changed(f, S) == {g \in [DOMAIN f -> Bytes] :
                      \A k \in DOMAIN f : g[k] # f[k] <=> k \in S}
Copies(f) ==
    (UNION {Changed(f, S) : S \in {S \in SUBSET DOMAIN f :
                                       Cardinality(S) <= Alterations}})
    \cup {SubSeq(f, 1, k) : k \in 0 .. Len(f)}
    \cup {f \o e : e \in Extensions}

\* One of the possibilities for each of the files.
OneOfEach(possible) ==
    LET lists[n \in 0 .. Len(possible)] ==
            IF n = 0 THEN {<<>>}
            ELSE {Append(s, x) : s \in lists[n - 1], x \in possible[n]}
    IN  lists[Len(possible)]

\* A new Prover.
NewProver ==
    /\ processed' = 0
    /\ file_failed' = FALSE
    /\ sigma_sum' = 0
    /\ mus' = [i \in Sectors |-> 0]

Init ==
    /\ files \in Batches
    /\ file_tags \in OneOfEach([i \in DOMAIN files |-> FileTags(files[i])])
    /\ stored \in OneOfEach([i \in DOMAIN files |-> Copies(files[i])])
    /\ indexes = <<>>
    /\ weights = <<>>
    /\ proofs = <<>>
    /\ processed = 0
    /\ file_failed = FALSE
    /\ sigma_sum = 0
    /\ mus = [i \in Sectors |-> 0]
    /\ results = <<>>

-----------------------------------------------------------------------------
(* BatchVerify(): a challenge for each file                                *)

\* GenerateIndexes(), for every number of blocks a percentage can stand for:
\* one block of each of the first stretches of n \div checked.
Indexes(n) ==
    UNION {{[k \in 1 .. checked |-> (k - 1) * (n \div checked) + r[k]] :
               r \in [1 .. checked -> 0 .. (n \div checked) - 1]} :
           checked \in 1 .. n}

\* A weight is generated for an index that has none at its place yet.
BuildChallenge ==
    /\ Len(indexes) < Len(files)
    /\ \E drawn \in Indexes(NumBlocks(files[Len(indexes) + 1])) :
           /\ indexes' = Append(indexes, drawn)
           /\ \E new \in [1 .. Len(drawn) - Len(weights) -> WeightValues] :
                  weights' = weights \o new
    /\ UNCHANGED <<files, file_tags, stored, proofs, prover_vars, results>>

\* A fault: the client gives an item the weight that was added last.
LastWeight(k) == weights[Len(weights)]

\* The weight the client has for item k of a challenge, and the prover's.
ItemWeight(k) == weights[k]
ProverWeight(k) == weights[k]

-----------------------------------------------------------------------------
(* BatchGetProof(): a Fetcher and a Prover for each challenge              *)

Proved == Len(proofs) + 1

\* FetchBlock(): a short read sets the stream's failbit, which seekg() leaves
\* set, so that every later read of that stream gets nothing.
FetchedBlock(index) ==
    IF file_failed THEN <<>> ELSE Block(stored[Proved], index)

\* ProcessChallenge(): the loop over the sectors stops at the first one that is
\* missing or short, and those after it would be empty.
ProcessChallenge ==
    /\ Len(indexes) = Len(files)
    /\ Proved <= Len(files)
    /\ processed < Len(indexes[Proved])
    /\ LET index == indexes[Proved][processed + 1]
           weight == ProverWeight(processed + 1)
           block == FetchedBlock(index)
       IN  /\ sigma_sum' = sigma_sum + weight * file_tags[Proved].sigmas[index]
           /\ mus' = [i \in Sectors |-> mus[i] + weight * Sector(block, i)]
           /\ file_failed' = (file_failed \/ Len(block) < BlockSize)
    /\ processed' = processed + 1
    /\ UNCHANGED <<challenge_vars, proofs, results>>

\* A fault: the tags that have been summed stay in the sum.
ProveOnOldSum ==
    /\ Len(indexes) = Len(files)
    /\ Proved <= Len(files)
    /\ processed = Len(indexes[Proved])
    /\ proofs' = Append(proofs, [sigma |-> sigma_sum % Prime,
                                 mus |-> [i \in Sectors |-> mus[i] % Prime]])
    /\ processed' = 0
    /\ file_failed' = FALSE
    /\ mus' = [i \in Sectors |-> 0]
    /\ UNCHANGED <<challenge_vars, sigma_sum, results>>

\* Prove() reduces the sums after the last item.
Prove ==
    /\ Len(indexes) = Len(files)
    /\ Proved <= Len(files)
    /\ processed = Len(indexes[Proved])
    /\ proofs' = Append(proofs, [sigma |-> sigma_sum % Prime,
                                 mus |-> [i \in Sectors |-> mus[i] % Prime]])
    /\ NewProver
    /\ UNCHANGED <<challenge_vars, results>>

-----------------------------------------------------------------------------
(* BatchVerify(): VerifyFile() for each proof                              *)

WeightedPrf(i) ==
    Sum([k \in DOMAIN indexes[i] |->
            ItemWeight(k) * file_tags[i].prf[indexes[i][k]]], Len(indexes[i]))

ExpectedSigma(i) ==
    (WeightedPrf(i)
        + Sum([s \in Sectors |-> proofs[i].mus[s] * file_tags[i].alphas[s]],
              NumSectors)) % Prime

VerifyFile ==
    LET i == Len(results) + 1
    IN  /\ Len(proofs) = Len(files)
        /\ i <= Len(proofs)
        /\ results' = Append(results, ExpectedSigma(i) = proofs[i].sigma)
        /\ UNCHANGED <<challenge_vars, proofs, prover_vars>>

Next == BuildChallenge \/ ProcessChallenge \/ Prove \/ VerifyFile

Spec == Init /\ [][Next]_vars

-----------------------------------------------------------------------------
\* Item k of the challenge of file i meets, in sector s, the number this far
\* from the one that was tagged.
Deviation(i, k, s) ==
    Sector(Block(stored[i], indexes[i][k]), s)
        - Sector(Block(files[i], indexes[i][k]), s)

WeightedDeviation(i) ==
    Sum([k \in DOMAIN indexes[i] |->
            ItemWeight(k) * Sum([s \in Sectors |->
                                    file_tags[i].alphas[s] * Deviation(i, k, s)],
                                NumSectors)], Len(indexes[i]))

Places(i) == (DOMAIN indexes[i]) \X Sectors
Deviating(i) ==
    {at \in Places(i) : Deviation(i, at[1], at[2]) % Prime # 0}

\* The variables have their types: the sums do not go negative, a weight is
\* there for every item, and there is no result without its proof.
TypeOK ==
    /\ files \in Batches
    /\ Len(indexes) <= Len(files)
    /\ \A i \in DOMAIN indexes : Len(indexes[i]) <= Len(weights)
    /\ weights \in Seq(WeightValues)
    /\ proofs \in Seq([sigma : 0 .. Prime - 1, mus : [Sectors -> 0 .. Prime - 1]])
    /\ processed \in 0 .. Len(weights)
    /\ file_failed \in BOOLEAN
    /\ sigma_sum \in Nat
    /\ mus \in [Sectors -> Nat]
    /\ results \in Seq(BOOLEAN)
    /\ Len(results) <= Len(proofs)

\* One sector of the blocks asked for of a file that is no longer the number it
\* was, as the field sees it, is always noticed unless its alpha is zero,
\* whatever happened to the other files of the batch.
SingleChangeDetected ==
    \A i \in DOMAIN results :
        Cardinality(Deviating(i)) = 1
            /\ (\A at \in Deviating(i) : file_tags[i].alphas[at[2]] % Prime # 0)
        => ~results[i]

\* The verdict on a file depends on nothing but the weighted sum of its
\* deviations: not on the blocks that were not asked for, not on its length, not
\* on the other files of the batch, some of which have a shorter challenge.  An
\* intact file, in particular, is never called corrupted.
VerdictExact ==
    \A i \in DOMAIN results :
        results[i] <=> WeightedDeviation(i) % Prime = 0

=============================================================================
