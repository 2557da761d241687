------------------------ MODULE UploadPipelineProofs ------------------------
(***************************************************************************)
(* An upload stores the file and the tags of its blocks, for every file    *)
(* size, every tagging parameter, every size of the buffers and every      *)
(* interleaving of the three threads.                                      *)
(*                                                                         *)
(* The first part is about the tagger alone.  BufferIsWindow and           *)
(* TagsMatchFile are not inductive: that a sector holds the right bytes    *)
(* needs start_ to stand at that sector's place in the file, and that the  *)
(* sectors after a break are empty needs the break to happen only in the   *)
(* last block.  IInv adds these facts.                                     *)
(*                                                                         *)
(* The second part composes it with the serializer, whose lemmas it takes  *)
(* by instantiating their module twice: for the temporary file as it is    *)
(* written, and for what a server finds once it has been stored.  What the *)
(* threads have stored is then what lies before the position of the stream *)
(* or file each of them reads; UInv says so, and where the tagger leaves   *)
(* the stream they share.                                                  *)
(***************************************************************************)
EXTENDS UploadPipeline, SequenceTheorems, TLAPS

\* The sector the tagger is at: that of the running tag, or the first of the
\* next one.
AtSector == IF sector = Idle THEN 0 ELSE sector

\* While a tag is running or one is still to come, start_ stands where the
\* sector begins in the file.
StartAtSector ==
    sector # Idle \/ HasNext =>
        ReadUpTo - end + start = SectorOffset(num_blocks_read, AtSector)

\* The running tag has summed the sectors before the loop index and no other.
SigmaSoFar ==
    sector # Idle =>
        /\ HasNext
        /\ \A j \in Sectors :
               sigma[j] = IF j < sector THEN FileSector(num_blocks_read, j)
                          ELSE <<>>

\* No tag is asked for behind the last block.
NoTagTooMany == num_blocks_read <= NumBlocks

IInv ==
    /\ TypeOK
    /\ BufferIsWindow
    /\ StartAtSector
    /\ SigmaSoFar
    /\ TagsMatchFile
    /\ NoTagTooMany

-----------------------------------------------------------------------------
(* Arithmetic.                                                             *)

\* The parameters of a context are positive, its size is a number.
LEMMA ContextType ==
    ASSUME context \in Contexts
    PROVE  /\ context.size \in Nat
           /\ context.sector_size \in Nat \ {0}
           /\ context.num_sectors \in Nat \ {0}
           /\ BufferSize \in Nat \ {0}
           /\ BufferSize >= context.sector_size
           /\ Sectors = 0 .. context.num_sectors - 1
<1>1. /\ context.size \in Nat
      /\ context.sector_size \in Nat \ {0}
      /\ context.num_sectors \in Nat \ {0}
  BY FileSizesAssumption, SectorSizesAssumption, SectorCountsAssumption
     DEF Contexts
<1>2. QED
  BY <1>1, BufferFloorAssumption DEF BufferSize, Greatest, Sectors

\* A block that begins at or behind the end of the file is not counted, one
\* that begins before it is.
LEMMA BlocksCoverFile ==
    ASSUME NEW size \in Nat, NEW block \in Nat \ {0}, NEW b \in Nat
    PROVE  b * block >= size <=>
               b >= (size \div block) + (IF size % block # 0 THEN 1 ELSE 0)
<1>1. CASE b * block >= size
  BY <1>1
<1>2. CASE b * block < size
  BY <1>2
<1>3. QED
  BY <1>1, <1>2

\* Sectors follow each other in the file, and so do blocks.
LEMMA OffsetSteps ==
    ASSUME context \in Contexts, NEW b \in Nat, NEW i \in 0 .. context.num_sectors
    PROVE  /\ SectorOffset(b, i) \in Nat
           /\ SectorOffset(b, i + 1) = SectorOffset(b, i) + context.sector_size
           /\ SectorOffset(b + 1, 0) = SectorOffset(b, context.num_sectors)
           /\ SectorOffset(b, 0) = b * BlockSize
           /\ \A j \in i .. context.num_sectors :
                  SectorOffset(b, j) >= SectorOffset(b, i)
<1> DEFINE n == context.num_sectors
           s == context.sector_size
<1>1. n \in Nat /\ s \in Nat
  BY ContextType
<1> HIDE DEF n, s
<1>2. (b * n + i) * s \in Nat
  BY <1>1
<1>3. (b * n + (i + 1)) * s = (b * n + i) * s + s
  BY <1>1
<1>4. ((b + 1) * n + 0) * s = (b * n + n) * s
  BY <1>1
<1>5. (b * n + 0) * s = b * (s * n)
  BY <1>1
<1>6. ASSUME NEW j \in i .. n PROVE (b * n + j) * s >= (b * n + i) * s
  <2>1. (b * n + j) * s = (b * n + i) * s + (j - i) * s
    BY <1>1
  <2>2. (j - i) * s >= 0
    BY <1>1
  <2>3. QED
    BY <1>2, <2>1, <2>2, <1>1
<1>7. QED
  BY <1>2, <1>3, <1>4, <1>5, <1>6 DEF SectorOffset, BlockSize, n, s

\* Offsets are numbers.
LEMMA OffsetType ==
    ASSUME context \in Contexts, NEW b \in Nat, NEW i \in Sectors
    PROVE  SectorOffset(b, i) \in Nat
<1>1. i \in Nat
  BY DEF Sectors
<1>2. b * context.num_sectors + i \in Nat
  BY <1>1, ContextType
<1>3. QED
  BY <1>2, ContextType DEF SectorOffset

\* NumBlocks in terms of offsets.
LEMMA HasNextIff ==
    ASSUME context \in Contexts, NEW b \in Nat
    PROVE  (b < NumBlocks) <=> SectorOffset(b, 0) < context.size
<1>1. BlockSize \in Nat \ {0}
  BY ContextType DEF BlockSize
<1>2. context.size \in Nat
  BY ContextType
<1>3. b * BlockSize >= context.size <=> b >= NumBlocks
  BY <1>1, <1>2, BlocksCoverFile DEF NumBlocks
<1>4. SectorOffset(b, 0) = b * BlockSize
  BY OffsetSteps, ContextType
<1>5. NumBlocks \in Nat
  BY <1>1, <1>2 DEF NumBlocks
<1>6. QED
  BY <1>1, <1>2, <1>3, <1>4, <1>5

-----------------------------------------------------------------------------
(* Preservation.                                                           *)

\* A tagger just constructed satisfies the invariant.
LEMMA InitIInv == Init => IInv
<1> SUFFICES ASSUME Init PROVE IInv
  OBVIOUS
<1> USE DEF Init
<1>1. TypeOK
  <2>1. sigma \in [Sectors -> Seq(Nat \cup {NoByte})]
    BY DEF NothingSummed
  <2>2. buffer \in [0 .. BufferSize - 1 -> Nat \cup {NoByte}]
    OBVIOUS
  <2>3. end \in 0 .. BufferSize /\ position \in 0 .. context.size
    BY ContextType
  <2>4. tags \in Seq([index : Nat, sigma : [Sectors -> Seq(Nat \cup {NoByte})]])
    OBVIOUS
  <2>5. sector \in Sectors \cup {Idle, context.num_sectors}
    OBVIOUS
  <2>6. start \in Nat /\ num_blocks_read \in Nat /\ file_read \in BOOLEAN
    OBVIOUS
  <2>7. QED
    BY <2>1, <2>2, <2>3, <2>4, <2>5, <2>6 DEF TypeOK
<1>2. BufferIsWindow
  BY ContextType DEF BufferIsWindow, ReadUpTo
<1>3. StartAtSector
  <2>1. SectorOffset(0, 0) = 0
    BY ContextType DEF SectorOffset
  <2>2. QED
    BY <2>1 DEF StartAtSector, ReadUpTo, AtSector
<1>4. SigmaSoFar
  BY DEF SigmaSoFar
<1>5. TagsMatchFile
  BY DEF TagsMatchFile
<1>6. NoTagTooMany
  <2>1. context.size \in Nat /\ BlockSize \in Nat \ {0}
    BY ContextType DEF BlockSize
  <2> QED BY <2>1 DEF NoTagTooMany, NumBlocks
<1>7. QED
  BY <1>1, <1>2, <1>3, <1>4, <1>5, <1>6 DEF IInv

\* What SectorBytes picks out of a window on the file is the sector of the
\* file, if the window reaches as far as the sector or as the file does.
LEMMA SectorBytesOfWindow ==
    ASSUME context \in Contexts, NEW b \in Nat, NEW i \in Sectors,
           NEW cells, NEW from \in Nat, NEW upto \in Int,
           from <= upto,
           \A k \in from .. upto - 1 : cells[k] = SectorOffset(b, i) + (k - from),
           \/ upto - from = context.size - SectorOffset(b, i)
           \/ /\ upto - from >= context.sector_size
              /\ context.size - SectorOffset(b, i) >= context.sector_size
    PROVE  SectorBytes(cells, from, upto) = FileSector(b, i)
<1>1. SectorOffset(b, i) \in Nat
  BY OffsetType
<1>2. Least(context.sector_size, upto - from)
        = Least(context.sector_size, context.size - SectorOffset(b, i))
  BY <1>1, ContextType DEF Least
<1>3. ASSUME NEW k \in 1 .. Least(context.sector_size, upto - from)
      PROVE  cells[from + k - 1] = SectorOffset(b, i) + k - 1
  <2>1. from + k - 1 \in from .. upto - 1
    BY ContextType DEF Least
  <2>2. QED
    BY <2>1, <1>1
<1>4. QED
  BY <1>2, <1>3 DEF SectorBytes, FileSector

\* FileSector returns a sequence of offsets.
LEMMA FileSectorType ==
    ASSUME context \in Contexts, NEW b \in Nat, NEW i \in Sectors
    PROVE  FileSector(b, i) \in Seq(Nat \cup {NoByte})
<1> DEFINE len == Least(context.sector_size, context.size - SectorOffset(b, i))
<1>1. SectorOffset(b, i) \in Nat
  BY OffsetType
<1>2. len \in Int
  BY <1>1, ContextType DEF Least
<1>3. FileSector(b, i) = [k \in 1 .. len |-> SectorOffset(b, i) + k - 1]
  BY DEF FileSector
<1> HIDE DEF len
<1>4. \A k \in 1 .. len : SectorOffset(b, i) + k - 1 \in Nat
  BY <1>1, <1>2
<1>5. CASE len >= 0
  BY <1>2, <1>3, <1>4, <1>5
<1>6. CASE len < 0
  <2>1. 1 .. len = 1 .. 0
    BY <1>2, <1>6
  <2>2. FileSector(b, i) = [k \in 1 .. 0 |-> SectorOffset(b, i) + k - 1]
    BY <1>3, <2>1
  <2>3. QED
    BY <2>2
<1>7. QED
  BY <1>2, <1>5, <1>6

\* GetNext() begins.
LEMMA BeginTagIInv == IInv /\ BeginTag => IInv'
<1> SUFFICES ASSUME IInv, BeginTag PROVE IInv'
  OBVIOUS
<1> USE DEF BeginTag
<1>1. /\ context' = context /\ ReadUpTo' = ReadUpTo
      /\ Sectors' = Sectors /\ BufferSize' = BufferSize /\ HasNext' = HasNext
      /\ \A b, i : SectorOffset(b, i)' = SectorOffset(b, i)
      /\ \A b, i : FileSector(b, i)' = FileSector(b, i)
      /\ \A b : FileBlock(b)' = FileBlock(b)
  BY DEF ReadUpTo, Sectors, BufferSize, Greatest, HasNext, NumBlocks, BlockSize,
         SectorOffset, FileSector, FileBlock
<1>2. context \in Contexts
  BY DEF IInv, TypeOK
<1>3. TypeOK'
  <2>1. sigma' \in [Sectors -> Seq(Nat \cup {NoByte})]
    BY DEF NothingSummed
  <2>2. 0 \in Sectors
    BY <1>2, ContextType
  <2>3. QED
    BY <1>1, <2>1, <2>2 DEF IInv, TypeOK
<1>4. BufferIsWindow'
  BY <1>1 DEF IInv, BufferIsWindow
<1>5. StartAtSector'
  BY <1>1 DEF IInv, StartAtSector, AtSector, Idle
<1>6. SigmaSoFar'
  BY <1>1, <1>2, ContextType DEF SigmaSoFar, NothingSummed
<1>7. TagsMatchFile'
  BY <1>1 DEF IInv, TagsMatchFile
<1>8. NoTagTooMany'
  BY DEF IInv, NoTagTooMany, NumBlocks, BlockSize
<1>9. QED
  BY <1>3, <1>4, <1>5, <1>6, <1>7, <1>8 DEF IInv

\* Summing one sector with the right bytes moves the tagger to the next.
LEMMA SumSectorSigma ==
    ASSUME IInv, sector \in Sectors, context' = context,
           num_blocks_read' = num_blocks_read, sector' = sector + 1,
           sigma' = [sigma EXCEPT ![sector] = FileSector(num_blocks_read, sector)]
    PROVE  /\ SigmaSoFar'
           /\ sigma' \in [Sectors -> Seq(Nat \cup {NoByte})]
           /\ sector' \in Sectors \cup {context.num_sectors}
           /\ SectorOffset(num_blocks_read, AtSector)'
                = SectorOffset(num_blocks_read, sector) + context.sector_size
<1>1. /\ Sectors' = Sectors /\ HasNext' = HasNext
      /\ \A b, i : FileSector(b, i)' = FileSector(b, i)
      /\ \A b, i : SectorOffset(b, i)' = SectorOffset(b, i)
  BY DEF Sectors, HasNext, NumBlocks, BlockSize, SectorOffset, FileSector
<1>2. /\ context \in Contexts
      /\ num_blocks_read \in Nat
      /\ sigma \in [Sectors -> Seq(Nat \cup {NoByte})]
  BY DEF IInv, TypeOK
<1>3. /\ context.num_sectors \in Nat \ {0}
      /\ Sectors = 0 .. context.num_sectors - 1
  BY <1>2, ContextType
<1>4. sector # Idle /\ sector' # Idle
  BY <1>3 DEF Idle
<1>5. SigmaSoFar'
  <2>1. HasNext
    BY <1>4 DEF IInv, SigmaSoFar
  <2>2. ASSUME NEW j \in Sectors
        PROVE  sigma'[j] = IF j < sector + 1 THEN FileSector(num_blocks_read, j)
                           ELSE <<>>
    <3>1. sigma[j] = IF j < sector THEN FileSector(num_blocks_read, j) ELSE <<>>
      BY <1>4 DEF IInv, SigmaSoFar
    <3>2. CASE j = sector
      BY <1>2, <1>3, <3>2
    <3>3. CASE j # sector
      BY <1>2, <1>3, <3>1, <3>3
    <3>4. QED
      BY <3>2, <3>3
  <2>3. QED
    BY <1>1, <2>1, <2>2 DEF SigmaSoFar
<1>6. sigma' \in [Sectors -> Seq(Nat \cup {NoByte})]
  BY <1>2, FileSectorType
<1>7. sector' \in Sectors \cup {context.num_sectors}
  BY <1>3
<1>8. SectorOffset(num_blocks_read, AtSector)'
        = SectorOffset(num_blocks_read, sector) + context.sector_size
  <2>1. AtSector' = sector + 1
    BY <1>4 DEF AtSector
  <2>2. SectorOffset(num_blocks_read, AtSector)'
          = SectorOffset(num_blocks_read, sector + 1)
    BY <2>1 DEF SectorOffset
  <2>3. sector \in 0 .. context.num_sectors
    BY <1>3
  <2>4. QED
    BY <1>2, <2>2, <2>3, OffsetSteps
<1>9. QED
  BY <1>5, <1>6, <1>7, <1>8

\* A sector summed from the buffer as it is.
LEMMA SumBufferedSectorIInv == IInv /\ SumBufferedSector => IInv'
<1> SUFFICES ASSUME IInv, SumBufferedSector PROVE IInv'
  OBVIOUS
<1> USE DEF SumBufferedSector
<1> DEFINE off == SectorOffset(num_blocks_read, sector)
<1>1. /\ context \in Contexts /\ position \in 0 .. context.size
      /\ num_blocks_read \in Nat /\ start \in Nat /\ end \in 0 .. BufferSize
      /\ file_read \in BOOLEAN
  BY DEF IInv, TypeOK
<1>2. /\ context.size \in Nat /\ context.sector_size \in Nat \ {0}
      /\ context.num_sectors \in Nat \ {0} /\ BufferSize \in Nat \ {0}
      /\ Sectors = 0 .. context.num_sectors - 1
  BY <1>1, ContextType
<1>3. /\ sector # Idle /\ AtSector = sector
  BY <1>2 DEF AtSector, Idle
<1>4. ReadUpTo - end + start = off /\ ReadUpTo \in 0 .. context.size
  BY <1>1, <1>2, <1>3 DEF IInv, StartAtSector, ReadUpTo
<1>5. /\ start <= end
      /\ ~file_read => start + context.sector_size <= end
  BY <1>1, <1>2 DEF MustBreak, MustFill
<1>6. SectorBytes(buffer, start, end) = FileSector(num_blocks_read, sector)
  <2>1. \A k \in start .. end - 1 : buffer[k] = off + (k - start)
    BY <1>1, <1>2, <1>4 DEF IInv, BufferIsWindow
  <2>2. \/ end - start = context.size - off
        \/ /\ end - start >= context.sector_size
           /\ context.size - off >= context.sector_size
    <3> HIDE DEF SumBufferedSector, off
    <3>1. /\ context.size \in Nat /\ context.sector_size \in Nat /\ start \in Nat
          /\ end \in Nat /\ ReadUpTo \in Nat /\ ReadUpTo <= context.size
      BY <1>1, <1>2, <1>4
    <3>2. off = ReadUpTo - (end - start)
      BY <1>4, <3>1
    <3>3. CASE file_read
      <4>1. ReadUpTo = context.size
        BY <3>3 DEF ReadUpTo
      <4>2. QED
        BY <3>1, <3>2, <4>1
    <3>4. CASE ~file_read
      <4>1. start + context.sector_size <= end
        BY <1>5, <3>4
      <4>2. end - start >= context.sector_size
        BY <3>1, <4>1
      <4>3. QED
        BY <3>1, <3>2, <4>2
    <3>5. QED
      BY <1>1, <3>3, <3>4
  <2>3. sector \in Sectors /\ end \in Int
    BY <1>1, <1>2
  <2> HIDE DEF SumBufferedSector
  <2>4. QED
    BY <1>1, <1>5, <2>1, <2>2, <2>3, SectorBytesOfWindow
<1>7. /\ SigmaSoFar'
      /\ sigma' \in [Sectors -> Seq(Nat \cup {NoByte})]
      /\ sector' \in Sectors \cup {context.num_sectors}
      /\ SectorOffset(num_blocks_read, AtSector)' = off + context.sector_size
  BY <1>6, SumSectorSigma
<1>8. /\ ReadUpTo' = ReadUpTo /\ Sectors' = Sectors
      /\ BufferSize' = BufferSize
      /\ \A b : FileBlock(b)' = FileBlock(b)
  BY DEF ReadUpTo, Sectors, BufferSize, Greatest, FileBlock, FileSector,
         SectorOffset
<1>9. TypeOK'
  <2>1. start' \in Nat
    BY <1>1, <1>2
  <2>2. QED
    BY <1>7, <1>8, <2>1 DEF IInv, TypeOK
<1>10. BufferIsWindow'
  <2>1. ~file_read' => start' <= end'
    BY <1>5
  <2>2. end' <= ReadUpTo'
    BY <1>8 DEF IInv, BufferIsWindow
  <2>3. \A k \in start' .. end' - 1 : buffer'[k] = ReadUpTo' - end' + k
    BY <1>1, <1>2, <1>8 DEF IInv, BufferIsWindow
  <2>4. QED
    BY <2>1, <2>2, <2>3 DEF BufferIsWindow
<1>11. StartAtSector'
  BY <1>1, <1>2, <1>4, <1>7, <1>8 DEF StartAtSector
<1>12. TagsMatchFile'
  BY <1>8 DEF IInv, TagsMatchFile
<1>13. NoTagTooMany'
  BY DEF IInv, NoTagTooMany, NumBlocks, BlockSize
<1>14. QED
  BY <1>7, <1>9, <1>10, <1>11, <1>12, <1>13 DEF IInv

\* What FillBuffer() leaves behind: a window that begins with the sector the
\* tagger is at and reaches to the end of the buffer or of the file.
LEMMA FillBufferWindow ==
    ASSUME IInv, FillAndSumSector
    PROVE  LET off == SectorOffset(num_blocks_read, sector) IN
           /\ position' \in 0 .. context.size
           /\ end' \in 0 .. BufferSize
           /\ ReadUpTo' - end' = off
           /\ ReadUpTo' <= context.size
           /\ off >= 0
           /\ file_read' => end' = context.size - off
           /\ ~file_read' => end' = BufferSize
           /\ buffer' \in [0 .. BufferSize - 1 -> Nat \cup {NoByte}]
           /\ \A k \in 0 .. end' - 1 : buffer'[k] = off + k
<1> DEFINE off == SectorOffset(num_blocks_read, sector)
<1>1. /\ context \in Contexts /\ position \in 0 .. context.size
      /\ num_blocks_read \in Nat /\ start \in Nat /\ end \in 0 .. BufferSize
      /\ buffer \in [0 .. BufferSize - 1 -> Nat \cup {NoByte}]
      /\ ~file_read /\ sector \in Sectors /\ context' = context
  BY DEF IInv, TypeOK, MustFill, FillAndSumSector
<1>2. /\ context.size \in Nat /\ context.sector_size \in Nat \ {0}
      /\ BufferSize \in Nat \ {0} /\ BufferSize >= context.sector_size
      /\ Sectors = 0 .. context.num_sectors - 1
      /\ context.num_sectors \in Nat \ {0}
  BY <1>1, ContextType
<1>3. ReadUpTo = position /\ start <= end /\ end <= position
  BY <1>1 DEF ReadUpTo, IInv, BufferIsWindow
<1>4. position - end + start = off
  BY <1>1, <1>2, <1>3 DEF IInv, StartAtSector, AtSector, Idle
<1>5. /\ BytesLeft \in 0 .. BufferSize
      /\ BytesGot \in 0 .. context.size - position
      /\ BytesLeft + BytesGot <= BufferSize
      /\ BytesLeft + BytesGot # BufferSize => BytesGot = context.size - position
      /\ BytesLeft = position - off
  <2>1. BytesLeft \in 0 .. BufferSize /\ BytesLeft = position - off
    BY <1>1, <1>2, <1>3, <1>4 DEF BytesLeft
  <2>2. /\ BytesGot \in 0 .. context.size - position
        /\ BytesLeft + BytesGot <= BufferSize
        /\ BytesLeft + BytesGot # BufferSize =>
               BytesGot = context.size - position
    BY <1>1, <1>2, <2>1 DEF BytesGot, Least
  <2>3. QED
    BY <2>1, <2>2
<1>5a. BytesLeft \in Nat /\ BytesGot \in Nat
  BY <1>1, <1>2, <1>5
<1>6. buffer' = FilledBuffer /\ end' = BytesLeft + BytesGot
      /\ file_read' \in BOOLEAN /\ (file_read' <=> end' # BufferSize)
      /\ position' = IF file_read' THEN 0 ELSE position + BytesGot
  BY DEF FillAndSumSector
<1>7. ReadUpTo' = position + BytesGot
  <2>1. CASE end' # BufferSize
    BY <1>1, <1>2, <1>5, <1>6, <2>1 DEF ReadUpTo
  <2>2. CASE end' = BufferSize
    BY <1>6, <2>2 DEF ReadUpTo
  <2>3. QED
    BY <2>1, <2>2
<1>8. \A k \in 0 .. BufferSize - 1 :
          buffer'[k] = IF k < BytesLeft THEN buffer[start + k]
                       ELSE IF k < BytesLeft + BytesGot
                       THEN position + (k - BytesLeft)
                       ELSE buffer[k]
  BY <1>1, <1>6 DEF FilledBuffer
<1>9. \A k \in 0 .. BytesLeft - 1 : buffer[start + k] = off + k
  <2> SUFFICES ASSUME NEW k \in 0 .. BytesLeft - 1
               PROVE  buffer[start + k] = off + k
    OBVIOUS
  <2>1. start + k \in start .. end - 1
    BY <1>1, <1>2, <1>3 DEF BytesLeft
  <2>2. buffer[start + k] = position - end + (start + k)
    BY <2>1, <1>3 DEF IInv, BufferIsWindow
  <2>3. QED
    BY <2>2, <1>1, <1>2, <1>4
<1> HIDE DEF off
<1>10. \A k \in 0 .. end' - 1 : buffer'[k] = off + k
  <2> SUFFICES ASSUME NEW k \in 0 .. end' - 1 PROVE buffer'[k] = off + k
    OBVIOUS
  <2>1. k \in 0 .. BufferSize - 1 /\ k < BytesLeft + BytesGot /\ k \in Nat
    BY <1>2, <1>5, <1>5a, <1>6
  <2>2. CASE k < BytesLeft
    <3>1. buffer'[k] = buffer[start + k]
      BY <1>8, <2>1, <2>2
    <3>2. k \in 0 .. BytesLeft - 1
      BY <2>1, <2>2, <1>5, <1>2
    <3>3. QED
      BY <3>1, <3>2, <1>9
  <2>3. CASE k >= BytesLeft
    <3>1. buffer'[k] = position + (k - BytesLeft)
      BY <1>5, <1>2, <1>8, <2>1, <2>3
    <3>2. off \in Int
      BY <1>1, <1>2, <1>4
    <3>3. QED
      BY <3>1, <3>2, <1>1, <1>2, <1>5, <2>1
  <2>4. QED
    BY <2>1, <2>2, <2>3, <1>5, <1>2
<1>11. buffer' \in [0 .. BufferSize - 1 -> Nat \cup {NoByte}]
  <2>1. DOMAIN buffer = 0 .. BufferSize - 1
    BY <1>1
  <2>2. ASSUME NEW k \in 0 .. BufferSize - 1
        PROVE  buffer'[k] \in Nat \cup {NoByte}
    <3>1. CASE k < BytesLeft
      <4>1. buffer'[k] = buffer[start + k]
        BY <1>8, <3>1
      <4>2. start + k \in 0 .. BufferSize - 1
        BY <1>1, <1>2, <1>3, <3>1 DEF BytesLeft
      <4>3. QED
        BY <4>1, <4>2, <1>1
    <3>2. CASE k >= BytesLeft /\ k < BytesLeft + BytesGot
      <4>1. buffer'[k] = position + (k - BytesLeft)
        BY <1>2, <1>5a, <1>8, <3>2
      <4>2. position + (k - BytesLeft) \in Nat
        BY <1>1, <1>2, <1>5a, <3>2
      <4>3. QED
        BY <4>1, <4>2
    <3>3. CASE k >= BytesLeft + BytesGot
      <4>1. buffer'[k] = buffer[k]
        BY <1>2, <1>5a, <1>8, <3>3
      <4>2. QED
        BY <4>1, <1>1
    <3>4. QED
      BY <3>1, <3>2, <3>3, <1>5a
  <2>3. QED
    BY <2>1, <2>2, <1>6 DEF FilledBuffer
<1>12. off >= 0
  BY <1>1, <1>2, OffsetType DEF off
<1>13. off \in Int
  BY <1>1, <1>2, <1>4
<1>14. /\ position' \in 0 .. context.size
       /\ end' \in 0 .. BufferSize
       /\ ReadUpTo' - end' = off
       /\ ReadUpTo' <= context.size
       /\ file_read' => end' = context.size - off
       /\ ~file_read' => end' = BufferSize
  <2>1. position' \in 0 .. context.size
    BY <1>1, <1>2, <1>5, <1>6
  <2>2. end' \in 0 .. BufferSize
    BY <1>1, <1>2, <1>5, <1>6
  <2>3. ReadUpTo' - end' = off /\ ReadUpTo' <= context.size
    BY <1>1, <1>2, <1>5, <1>6, <1>7, <1>13
  <2>4. file_read' => end' = context.size - off
    <3>1. BytesLeft + BytesGot # BufferSize =>
              BytesGot = context.size - position
      BY <1>5
    <3>2. BytesGot = context.size - position =>
              BytesLeft + BytesGot = context.size - off
      <4>1. BytesLeft = position - off /\ BytesLeft \in Nat /\ BytesGot \in Nat
        BY <1>5, <1>5a
      <4>2. position \in Nat /\ context.size \in Nat
        BY <1>1, <1>2
      <4> HIDE DEF off
      <4>3. QED
        BY <4>1, <4>2, <1>13
    <3>3. file_read' => end' # BufferSize /\ end' = BytesLeft + BytesGot
      BY <1>6
    <3>4. QED
      BY <3>1, <3>2, <3>3
  <2>5. ~file_read' => end' = BufferSize
    BY <1>6
  <2>6. QED
    BY <2>1, <2>2, <2>3, <2>4, <2>5
<1>15. QED
  BY <1>10, <1>11, <1>12, <1>14 DEF off

\* A sector summed after a fill.
LEMMA FillAndSumSectorIInv == IInv /\ FillAndSumSector => IInv'
<1> SUFFICES ASSUME IInv, FillAndSumSector PROVE IInv'
  OBVIOUS
<1> DEFINE off == SectorOffset(num_blocks_read, sector)
<1>1. /\ context \in Contexts /\ num_blocks_read \in Nat
      /\ sector \in Sectors
      /\ context' = context /\ num_blocks_read' = num_blocks_read
      /\ tags' = tags /\ start' = context.sector_size
      /\ sector' = sector + 1
      /\ file_read' = (end' # BufferSize)
      /\ sigma' = [sigma EXCEPT ![sector] = SectorBytes(buffer', 0, end')]
  BY DEF IInv, TypeOK, FillAndSumSector
<1>2. /\ context.size \in Nat /\ context.sector_size \in Nat \ {0}
      /\ BufferSize \in Nat \ {0} /\ BufferSize >= context.sector_size
  BY <1>1, ContextType
<1>3. /\ position' \in 0 .. context.size
      /\ end' \in 0 .. BufferSize
      /\ ReadUpTo' - end' = off
      /\ ReadUpTo' <= context.size
      /\ off >= 0
      /\ file_read' => end' = context.size - off
      /\ ~file_read' => end' = BufferSize
      /\ buffer' \in [0 .. BufferSize - 1 -> Nat \cup {NoByte}]
      /\ \A k \in 0 .. end' - 1 : buffer'[k] = off + k
  BY FillBufferWindow
<1>4. off \in Nat
  BY <1>1, OffsetType
<1>4a. end' \in Nat
  BY <1>2, <1>3, <1>4
<1>4b. \A k \in 0 .. end' - 1 : buffer'[k] = off + k
  BY <1>3
<1>4c. end' = BufferSize \/ end' = context.size - off
  BY <1>1, <1>3
<1>5. ReadUpTo' = off + end'
  <2>1. ReadUpTo' - end' = off
    BY <1>3
  <2>2. position' \in Int /\ context'.size \in Int
    BY <1>1, <1>2, <1>3
  <2>3. ReadUpTo' \in Int
    BY <2>2 DEF ReadUpTo
  <2>4. QED
    BY <2>1, <2>3, <1>4, <1>4a
<1>6. SectorBytes(buffer', 0, end') = FileSector(num_blocks_read, sector)
  <2>1. \A k \in 0 .. end' - 1 : buffer'[k] = off + (k - 0)
    <3> SUFFICES ASSUME NEW k \in 0 .. end' - 1
                 PROVE  buffer'[k] = off + (k - 0)
      OBVIOUS
    <3>1. buffer'[k] = off + k
      BY <1>4b
    <3>2. k - 0 = k
      BY <1>4a
    <3>3. QED
      BY <3>1, <3>2
  <2>2. end' \in Int /\ 0 <= end'
    BY <1>2, <1>3
  <2>3. \/ end' - 0 = context.size - off
        \/ /\ end' - 0 >= context.sector_size
           /\ context.size - off >= context.sector_size
    <3>1. ReadUpTo' <= context.size /\ end' <= BufferSize
      BY <1>2, <1>3
    <3>2. QED
      BY <1>2, <1>4, <1>4a, <1>4c, <1>5, <3>1
  <2>4. QED
    BY <1>1, <2>1, <2>2, <2>3, SectorBytesOfWindow
<1>7. /\ SigmaSoFar'
      /\ sigma' \in [Sectors -> Seq(Nat \cup {NoByte})]
      /\ sector' \in Sectors \cup {context.num_sectors}
      /\ SectorOffset(num_blocks_read, AtSector)' = off + context.sector_size
  BY <1>1, <1>6, SumSectorSigma
<1>8. /\ Sectors' = Sectors /\ BufferSize' = BufferSize
      /\ \A b : FileBlock(b)' = FileBlock(b)
  BY <1>1 DEF Sectors, BufferSize, Greatest, FileBlock, FileSector, SectorOffset
<1>9. TypeOK'
  <2>1. start' \in Nat /\ file_read' \in BOOLEAN
    BY <1>1, <1>2
  <2>2. QED
    BY <1>1, <1>3, <1>7, <1>8, <2>1 DEF IInv, TypeOK
<1>10. BufferIsWindow'
  <2>1. ~file_read' => start' <= end'
    BY <1>1, <1>2, <1>3
  <2>2. end' <= ReadUpTo'
    BY <1>4, <1>4a, <1>5
  <2>3. \A k \in start' .. end' - 1 : buffer'[k] = ReadUpTo' - end' + k
    <3> SUFFICES ASSUME NEW k \in start' .. end' - 1
                 PROVE  buffer'[k] = ReadUpTo' - end' + k
      OBVIOUS
    <3>1. k \in 0 .. end' - 1
      <4>1. k \in context.sector_size .. end' - 1
        BY <1>1
      <4>2. ASSUME NEW low \in Nat, NEW high \in Int
            PROVE  low .. high \subseteq 0 .. high
        OBVIOUS
      <4>3. context.sector_size \in Nat /\ end' - 1 \in Int
        BY <1>2, <1>4a
      <4>4. QED
        BY <4>1, <4>2, <4>3
    <3>2. buffer'[k] = off + k
      BY <3>1, <1>4b
    <3>3. QED
      BY <3>2, <1>3
  <2>4. QED
    BY <2>1, <2>2, <2>3 DEF BufferIsWindow
<1>11. StartAtSector'
  <2>1. ReadUpTo' - end' + start' = off + context.sector_size
    BY <1>1, <1>3
  <2>2. QED
    BY <1>1, <1>7, <2>1 DEF StartAtSector
<1>12. TagsMatchFile'
  BY <1>1, <1>8 DEF IInv, TagsMatchFile
<1>13. NoTagTooMany'
  BY <1>1 DEF IInv, NoTagTooMany, NumBlocks, BlockSize
<1>14. QED
  BY <1>7, <1>9, <1>10, <1>11, <1>12, <1>13 DEF IInv

\* When the loop over the sectors ends, the tag holds its whole block, and a
\* break has happened only if the file ends in it.
LEMMA EndTagWhole ==
    ASSUME IInv, EndTag
    PROVE  /\ sigma = FileBlock(num_blocks_read)
           /\ \/ sector = context.num_sectors
              \/ SectorOffset(num_blocks_read + 1, 0) >= context.size
<1> DEFINE b == num_blocks_read
<1>1. /\ context \in Contexts /\ b \in Nat /\ start \in Nat
      /\ end \in 0 .. BufferSize
      /\ sector \in Sectors \cup {Idle, context.num_sectors}
      /\ sector # Idle
      /\ sector = context.num_sectors \/ MustBreak
      /\ sigma \in [Sectors -> Seq(Nat \cup {NoByte})]
  BY DEF IInv, TypeOK, EndTag
<1>2. /\ context.size \in Nat /\ context.sector_size \in Nat \ {0}
      /\ context.num_sectors \in Nat \ {0} /\ BufferSize \in Nat
      /\ Sectors = 0 .. context.num_sectors - 1
  BY <1>1, ContextType
<1>3. sector \in 0 .. context.num_sectors
  BY <1>1, <1>2
<1>4. MustBreak => SectorOffset(b, sector) >= context.size
  <2> SUFFICES ASSUME MustBreak PROVE SectorOffset(b, sector) >= context.size
    OBVIOUS
  <2>1. ReadUpTo - end + start = SectorOffset(b, sector)
    BY <1>1 DEF IInv, StartAtSector, AtSector
  <2>2. ReadUpTo = context.size /\ start >= end
    BY DEF MustBreak, ReadUpTo
  <2>3. QED
    BY <2>1, <2>2, <1>1, <1>2
<1>5. ASSUME NEW j \in Sectors PROVE sigma[j] = FileSector(b, j)
  <2>1. sigma[j] = IF j < sector THEN FileSector(b, j) ELSE <<>>
    BY <1>1 DEF IInv, SigmaSoFar
  <2>2. CASE j < sector
    BY <2>1, <2>2
  <2>3. CASE j >= sector
    <3>1. SectorOffset(b, sector) >= context.size
      BY <1>1, <1>2, <1>4, <2>3
    <3>2. /\ SectorOffset(b, j) >= SectorOffset(b, sector)
          /\ SectorOffset(b, j) \in Nat /\ SectorOffset(b, sector) \in Nat
      <4>1. j \in sector .. context.num_sectors /\ j \in 0 .. context.num_sectors
        BY <1>2, <1>3, <2>3
      <4>2. QED
        BY <1>1, <1>3, <4>1, OffsetSteps
    <3>3. context.size - SectorOffset(b, j) <= 0
      BY <1>2, <3>1, <3>2
    <3>4. 1 .. Least(context.sector_size, context.size - SectorOffset(b, j))
            = 1 .. 0
      BY <1>2, <3>2, <3>3 DEF Least
    <3>5. FileSector(b, j) = [k \in 1 .. 0 |-> SectorOffset(b, j) + k - 1]
      BY <3>4 DEF FileSector
    <3>6. FileSector(b, j) = <<>>
      BY <3>5
    <3>7. QED
      BY <1>2, <1>3, <2>1, <2>3, <3>6
  <2>4. QED
    BY <1>2, <1>3, <2>2, <2>3
<1>6. sigma = FileBlock(b)
  BY <1>1, <1>5 DEF FileBlock
<1>7. MustBreak => SectorOffset(b + 1, 0) >= context.size
  <2> SUFFICES ASSUME MustBreak PROVE SectorOffset(b + 1, 0) >= context.size
    OBVIOUS
  <2>1. SectorOffset(b + 1, 0) = SectorOffset(b, context.num_sectors)
    BY <1>1, <1>3, OffsetSteps
  <2>2. /\ SectorOffset(b, context.num_sectors) >= SectorOffset(b, sector)
        /\ SectorOffset(b, sector) \in Nat
        /\ SectorOffset(b, context.num_sectors) \in Nat
    <3>1. context.num_sectors \in sector .. context.num_sectors
          /\ context.num_sectors \in 0 .. context.num_sectors
      BY <1>2, <1>3
    <3>2. QED
      BY <1>1, <1>3, <3>1, OffsetSteps
  <2>3. QED
    BY <1>2, <1>4, <2>1, <2>2
<1>8. QED
  BY <1>1, <1>6, <1>7

\* GetNext() returns.
LEMMA EndTagIInv == IInv /\ EndTag => IInv'
<1> SUFFICES ASSUME IInv, EndTag PROVE IInv'
  OBVIOUS
<1> DEFINE tag == [index |-> num_blocks_read, sigma |-> sigma]
<1>1. /\ context \in Contexts /\ num_blocks_read \in Nat
      /\ start \in Nat /\ end \in 0 .. BufferSize
      /\ sigma \in [Sectors -> Seq(Nat \cup {NoByte})]
      /\ tags \in Seq([index : Nat, sigma : [Sectors -> Seq(Nat \cup {NoByte})]])
      /\ context' = context /\ sector # Idle /\ sector' = Idle
      /\ tags' = Append(tags, tag)
      /\ num_blocks_read' = num_blocks_read + 1
      /\ UNCHANGED <<position, buffer, start, end, file_read, sigma>>
  BY DEF IInv, TypeOK, EndTag
<1>2. /\ ReadUpTo' = ReadUpTo /\ Sectors' = Sectors
      /\ BufferSize' = BufferSize /\ NumBlocks' = NumBlocks
      /\ \A b : FileBlock(b)' = FileBlock(b)
      /\ \A b, i : SectorOffset(b, i)' = SectorOffset(b, i)
  BY <1>1 DEF ReadUpTo, Sectors, BufferSize, Greatest, NumBlocks, BlockSize,
              FileBlock, FileSector, SectorOffset
<1>3. /\ sigma = FileBlock(num_blocks_read)
      /\ \/ sector = context.num_sectors
         \/ SectorOffset(num_blocks_read + 1, 0) >= context.size
  BY EndTagWhole
<1>4. TypeOK'
  <2>1. tags' \in Seq([index : Nat, sigma : [Sectors -> Seq(Nat \cup {NoByte})]])
    BY <1>1
  <2>2. num_blocks_read' \in Nat
    BY <1>1
  <2>3. QED
    BY <1>1, <1>2, <2>1, <2>2 DEF IInv, TypeOK
<1>5. BufferIsWindow'
  BY <1>1, <1>2 DEF IInv, BufferIsWindow
<1>6. StartAtSector'
  <2> SUFFICES ASSUME HasNext'
               PROVE  ReadUpTo' - end' + start'
                        = SectorOffset(num_blocks_read, AtSector)'
    BY <1>1 DEF StartAtSector
  <2>1. SectorOffset(num_blocks_read, AtSector)'
          = SectorOffset(num_blocks_read + 1, 0)
    BY <1>1 DEF AtSector, SectorOffset
  <2>2. num_blocks_read + 1 < NumBlocks
    BY <1>1, <1>2 DEF HasNext
  <2>3. SectorOffset(num_blocks_read + 1, 0) < context.size
    BY <1>1, <2>2, HasNextIff
  <2>4. /\ context.size \in Nat
        /\ SectorOffset(num_blocks_read + 1, 0) \in Nat
    <3>1. 0 \in Sectors /\ num_blocks_read + 1 \in Nat
      BY <1>1, ContextType
    <3>2. QED
      BY <1>1, <3>1, ContextType, OffsetType
  <2>5. sector = context.num_sectors
    BY <1>3, <2>3, <2>4
  <2>6. SectorOffset(num_blocks_read + 1, 0)
          = SectorOffset(num_blocks_read, sector)
    <3>1. 0 \in 0 .. context.num_sectors
      BY <1>1, ContextType
    <3>2. QED
      BY <1>1, <2>5, <3>1, OffsetSteps
  <2>7. ReadUpTo - end + start = SectorOffset(num_blocks_read, sector)
    BY <1>1 DEF IInv, StartAtSector, AtSector
  <2>8. QED
    BY <1>1, <1>2, <2>1, <2>6, <2>7
<1>7. SigmaSoFar'
  BY <1>1 DEF SigmaSoFar
<1>8. TagsMatchFile'
  <2>1. /\ Len(tags') = num_blocks_read' /\ Len(tags) = num_blocks_read
        /\ \A n \in 1 .. Len(tags) : tags'[n] = tags[n]
        /\ tags'[num_blocks_read + 1] = tag
    BY <1>1 DEF IInv, TagsMatchFile
  <2>2. ASSUME NEW n \in 1 .. Len(tags')
        PROVE  tags'[n] = [index |-> n - 1, sigma |-> FileBlock(n - 1)]
    <3>1. CASE n = num_blocks_read + 1
      <4>1. n - 1 = num_blocks_read
        BY <1>1, <3>1
      <4>2. QED
        BY <1>3, <2>1, <3>1, <4>1
    <3>2. CASE n # num_blocks_read + 1
      <4>1. n \in 1 .. Len(tags)
        BY <1>1, <2>1, <3>2
      <4>2. QED
        BY <2>1, <4>1 DEF IInv, TagsMatchFile
    <3>3. QED
      BY <3>1, <3>2
  <2>3. QED
    BY <1>2, <2>1, <2>2 DEF TagsMatchFile
<1>9. NoTagTooMany'
  <2>1. num_blocks_read < NumBlocks
    BY <1>1 DEF IInv, SigmaSoFar, HasNext
  <2>2. NumBlocks \in Nat
    <3>1. context \in Contexts
      BY <1>1
    <3>2. context.size \in Nat /\ BlockSize \in Nat \ {0}
      BY <3>1, ContextType DEF BlockSize
    <3> QED BY <3>2 DEF NumBlocks
  <2>3. QED
    BY <1>1, <1>2, <2>1, <2>2 DEF NoTagTooMany
<1>10. QED
  BY <1>4, <1>5, <1>6, <1>7, <1>8, <1>9 DEF IInv

\* Every step, and a stutter, preserve the invariant.
LEMMA NextIInv == IInv /\ [Next]_vars => IInv'
<1> SUFFICES ASSUME IInv, [Next]_vars PROVE IInv'
  OBVIOUS
<1>1. CASE BeginTag
  BY <1>1, BeginTagIInv
<1>2. CASE SumBufferedSector
  BY <1>2, SumBufferedSectorIInv
<1>3. CASE FillAndSumSector
  BY <1>3, FillAndSumSectorIInv
<1>4. CASE EndTag
  BY <1>4, EndTagIInv
<1>5. CASE UNCHANGED vars
  <2> USE <1>5 DEF vars
  <2>1. /\ Contexts' = Contexts /\ BufferSize' = BufferSize
        /\ Sectors' = Sectors /\ ReadUpTo' = ReadUpTo /\ HasNext' = HasNext
        /\ AtSector' = AtSector
        /\ \A b, i : SectorOffset(b, i)' = SectorOffset(b, i)
        /\ \A b, i : FileSector(b, i)' = FileSector(b, i)
        /\ \A b : FileBlock(b)' = FileBlock(b)
    BY DEF Contexts, BufferSize, Greatest, Sectors, ReadUpTo, HasNext,
           NumBlocks, BlockSize, AtSector, SectorOffset, FileSector, FileBlock
  <2>2. TypeOK'
    BY <2>1 DEF IInv, TypeOK
  <2>3. BufferIsWindow'
    BY <2>1 DEF IInv, BufferIsWindow
  <2>4. StartAtSector'
    <3>1. SectorOffset(num_blocks_read, AtSector)'
            = SectorOffset(num_blocks_read, AtSector)
      BY DEF SectorOffset, AtSector
    <3>2. QED
      BY <2>1, <3>1 DEF IInv, StartAtSector
  <2>5. SigmaSoFar'
    BY <2>1 DEF IInv, SigmaSoFar
  <2>6. TagsMatchFile'
    BY <2>1 DEF IInv, TagsMatchFile
  <2>7. NoTagTooMany'
    BY DEF IInv, NoTagTooMany, NumBlocks, BlockSize
  <2>8. QED
    BY <2>2, <2>3, <2>4, <2>5, <2>6, <2>7 DEF IInv
<1>6. QED
  BY <1>1, <1>2, <1>3, <1>4, <1>5 DEF Next

-----------------------------------------------------------------------------
(* The theorems of the tagger.                                             *)

\* The strengthening holds of every state.
THEOREM Inductive == Spec => []IInv
<1>1. QED
  BY InitIInv, NextIInv, PTL DEF Spec

\* The state of a tagger keeps its types: the indices FillBuffer() and
\* GenerateTag() compute stay inside the buffer and the file.
THEOREM TypeCorrect == Spec => []TypeOK
<1>1. IInv => TypeOK
  BY DEF IInv
<1>2. QED
  BY <1>1, Inductive, PTL

\* Moving leftovers and refilling behind them keeps the unread part of the
\* buffer a contiguous stretch of the file.
THEOREM WindowCorrect == Spec => []BufferIsWindow
<1>1. IInv => BufferIsWindow
  BY DEF IInv
<1>2. QED
  BY <1>1, Inductive, PTL

\* Every BlockTag is computed over the bytes of its own block, for every file
\* size, sector size, number of sectors and buffer size.
THEOREM TagsCorrect == Spec => []TagsMatchFile
<1>1. IInv => TagsMatchFile
  BY DEF IInv
<1>2. QED
  BY <1>1, Inductive, PTL

-----------------------------------------------------------------------------
(* The upload: the tagger's invariant, the serializer's, and what ties     *)
(* them to the three threads.                                              *)

SerializerP ==
    INSTANCE BlockTagSerializerProofs WITH out_file <- tag_file,
                                           bad <- tag_file_bad, tags <- pending

ServerP ==
    INSTANCE BlockTagSerializerProofs WITH out_file <- stored_tags,
                                           bad <- tag_file_bad, tags <- pending,
                                           block_tag_map <- stored_file_tag

Tagging == storing = [t \in Threads |-> "not started"]

\* The threads start together, when the last tag has been added.
ThreadsInv ==
    /\ storing \in [Threads -> {"not started", "open", "copy", "done"}]
    /\ returned \in BOOLEAN
    /\ \/ Tagging /\ ~closed
       \/ (\A t \in Threads : ~Storing(t, "not started")) /\ closed /\ Done
    /\ returned => \A t \in Threads : Storing(t, "done")

\* If no fill has met the end of the file, the last tag took its last byte.
DoneInv ==
    Done /\ ~file_read =>
        /\ position = context.size
        /\ start = end
        /\ context.size = num_blocks_read * BlockSize

\* Until then every fill has filled the buffer, and start_ moves by sectors.
FillInv ==
    ~file_read =>
        \/ position = 0 /\ start = 0 /\ end = 0
        \/ /\ end = BufferSize
           /\ \E m \in Nat : start = m * context.sector_size
           /\ BufferSize % context.sector_size = 0 =>
                  \E f \in Nat : position = f * BufferSize

\* What has been stored of the file is what lies before its stream's position,
\* if that was rewound.
FileInv ==
    /\ stored_file = IF file_read THEN [o \in 1 .. position |-> o - 1] ELSE <<>>
    /\ Storing("file", "done") => position = context.size

\* What has been stored of the tags is what has been copied of the serializer's
\* file; once Upload() returns, a server finds in it what that file had.
TagsInv ==
    /\ Serializer!TypeOK
    /\ num_blocks_read = Serializer!NumTags
    /\ copied \in 0 .. file_end
    /\ Tagging => copied = 0
    /\ Len(stored_tags) = copied
    /\ ~returned =>
           /\ SerializerP!IInv
           /\ copied <= Len(tag_file)
           /\ stored_tags = SubSeq(tag_file, 1, copied)
           /\ Storing("block tags", "done") => copied = Len(tag_file)
    /\ Storing("file tag", "done") => stored_file_tag = block_tag_map
    /\ returned => ServerP!IInv

\* The bar counts what has been flushed and what has been stored.
FileTagCount ==
    IF Storing("file tag", "done")
    THEN FileTagSize + EntrySize * Serializer!NumTags ELSE 0

CountInv ==
    current_value = (file_end - Len(pending)) + copied + Len(stored_file)
                    + FileTagCount

UInv ==
    /\ IInv
    /\ ThreadsInv
    /\ DoneInv
    /\ FillInv
    /\ FileInv
    /\ TagsInv
    /\ CountInv

-----------------------------------------------------------------------------
(* The serializer's lemmas, of its actions as the upload names them.       *)

LEMMA SerializerSteps ==
    /\ \A index, size : Serializer!Add(index, size)
                            <=> SerializerP!Add(index, size)
    /\ Serializer!Done <=> SerializerP!Done
    /\ Serializer!Init <=> SerializerP!Init
    /\ Serializer!TypeOK <=> SerializerP!TypeOK
    /\ Serializer!NumTags = SerializerP!NumTags
<1>1. \A index, size : Serializer!Add(index, size)
                           <=> SerializerP!Add(index, size)
  BY DEF Serializer!Add, Serializer!MustFlush, Serializer!Write,
         Serializer!TagBytes, Serializer!GrowMap,
         SerializerP!Add, SerializerP!MustFlush, SerializerP!Write,
         SerializerP!TagBytes, SerializerP!GrowMap
<1>2. Serializer!Done <=> SerializerP!Done
  BY DEF Serializer!Done, Serializer!Write, SerializerP!Done, SerializerP!Write
<1>3. Serializer!Init <=> SerializerP!Init
  BY DEF Serializer!Init, SerializerP!Init
<1>4. Serializer!TypeOK <=> SerializerP!TypeOK
  BY DEF Serializer!TypeOK, Serializer!Bytes, SerializerP!TypeOK,
         SerializerP!Bytes
<1>5. Serializer!NumTags = SerializerP!NumTags
  BY DEF Serializer!NumTags, SerializerP!NumTags
<1> QED BY <1>1, <1>2, <1>3, <1>4, <1>5

\* The lengths of the serializer's sequences are numbers.
LEMMA Lengths ==
    ASSUME Serializer!TypeOK
    PROVE  /\ Len(tag_file) \in Nat /\ Len(pending) \in Nat
           /\ file_end \in Nat /\ Serializer!NumTags \in Nat
           /\ (pending = <<>>) <=> (Len(pending) = 0)
<1>1. tag_file \in Seq(Nat \X Nat) /\ pending \in Seq(Nat \X Nat)
  BY DEF Serializer!TypeOK, Serializer!Bytes
<1>2. block_tag_map.index \in Seq(Nat)
  BY DEF Serializer!TypeOK
<1>3. file_end \in Nat
  BY DEF Serializer!TypeOK
<1>4. (pending = <<>>) <=> (Len(pending) = 0)
  BY <1>1, EmptySeq
<1> QED BY <1>1, <1>2, <1>3, <1>4, LenProperties DEF Serializer!NumTags

\* A tag added: one entry more, and the bytes that have been flushed.
LEMMA AddedTag ==
    ASSUME SerializerP!IInv, NEW size \in TagSizes,
           Serializer!Add(Serializer!NumTags, size)
    PROVE  /\ SerializerP!IInv'
           /\ Serializer!TypeOK'
           /\ Serializer!NumTags' = Serializer!NumTags + 1
           /\ file_end' = file_end + size /\ size \in Nat
           /\ file_end' \in Nat /\ Len(pending') \in Nat
           /\ closed' = closed
           /\ file_end' - Len(pending')
                  = file_end - Len(pending)
                    + (IF Serializer!MustFlush(size) THEN Len(pending) ELSE 0)
<1>1. SerializerP!Add(SerializerP!NumTags, size)
  BY SerializerSteps, Zenon
<1>2. SerializerP!IInv'
  BY <1>1, SerializerAssumption, SerializerP!AddIInv
<1>3. Serializer!TypeOK /\ Serializer!TypeOK'
  BY <1>2 DEF SerializerP!IInv, SerializerP!TypeOK, SerializerP!Bytes,
              Serializer!TypeOK, Serializer!Bytes
<1>4. /\ SerializerP!NumTags' = SerializerP!NumTags + 1
      /\ file_end' = file_end + size
  BY <1>1, SerializerAssumption, SerializerP!AddMap
<1>5. size \in Nat \ {0}
  BY SerializerAssumption
<1>6. Serializer!NumTags' = Serializer!NumTags + 1
  BY <1>4 DEF Serializer!NumTags, SerializerP!NumTags
<1>7. /\ Len(pending) \in Nat /\ Len(pending') \in Nat /\ file_end \in Nat
      /\ Serializer!NumTags \in Nat
      /\ (pending = <<>>) <=> (Len(pending) = 0)
  <2>1. pending' \in Seq(Nat \X Nat)
    BY <1>3 DEF Serializer!TypeOK, Serializer!Bytes
  <2> QED BY <1>3, <2>1, Lengths, LenProperties
<1>8. LET new == Serializer!TagBytes(Serializer!NumTags, size)
      IN  /\ Len(new) = size
          /\ Len(pending \o new) = Len(pending) + size
  <2> DEFINE new == Serializer!TagBytes(Serializer!NumTags, size)
  <2>1. new \in Seq(Nat \X Nat) /\ Len(new) = size
    BY <1>5, <1>7 DEF Serializer!TagBytes
  <2>2. pending \in Seq(Nat \X Nat)
    BY <1>3 DEF Serializer!TypeOK, Serializer!Bytes
  <2> HIDE DEF new
  <2>3. Len(pending \o new) = Len(pending) + Len(new)
    BY <2>1, <2>2, ConcatProperties
  <2> QED BY <2>1, <2>3 DEF new
<1>9. file_end' - Len(pending')
          = file_end - Len(pending)
            + (IF Serializer!MustFlush(size) THEN Len(pending) ELSE 0)
  <2>1. CASE Serializer!MustFlush(size) /\ pending # <<>>
    <3>1. Len(pending') = size
      BY <1>8, <2>1 DEF Serializer!Add
    <3> QED BY <1>4, <1>5, <1>7, <2>1, <3>1
  <2>2. CASE ~(Serializer!MustFlush(size) /\ pending # <<>>)
    <3>1. Len(pending') = Len(pending) + size
      BY <1>8, <2>2 DEF Serializer!Add
    <3> QED BY <1>4, <1>5, <1>7, <2>2, <3>1
  <2> QED BY <2>1, <2>2
<1>10. closed' = closed
  BY DEF Serializer!Add
<1>11. file_end' \in Nat
  BY <1>4, <1>5, <1>7
<1> QED BY <1>2, <1>3, <1>4, <1>5, <1>6, <1>7, <1>9, <1>10, <1>11

\* The serializer is done: nothing is buffered, the map is as it was.
LEMMA SerializerDone ==
    ASSUME SerializerP!IInv, Serializer!Done
    PROVE  /\ SerializerP!IInv'
           /\ Serializer!TypeOK'
           /\ Serializer!NumTags' = Serializer!NumTags
           /\ file_end' = file_end
           /\ closed'
           /\ Len(pending') = 0
<1>1. SerializerP!Done
  BY SerializerSteps
<1>2. SerializerP!IInv'
  BY <1>1, SerializerAssumption, SerializerP!DoneIInv
<1>3. Serializer!TypeOK'
  BY <1>2 DEF SerializerP!IInv, SerializerP!TypeOK, SerializerP!Bytes,
              Serializer!TypeOK, Serializer!Bytes
<1>4. Serializer!NumTags' = Serializer!NumTags
  BY DEF Serializer!Done, Serializer!NumTags
<1>5. file_end' = file_end /\ closed' /\ pending' = <<>>
  BY DEF Serializer!Done
<1> QED BY <1>2, <1>3, <1>4, <1>5

\* A step that leaves the serializer alone.
LEMMA SerializerKept ==
    ASSUME UNCHANGED serializer_vars
    PROVE  /\ SerializerP!IInv => SerializerP!IInv'
           /\ Serializer!TypeOK => Serializer!TypeOK'
           /\ Serializer!NumTags' = Serializer!NumTags
<1>1. UNCHANGED SerializerP!vars
  BY DEF serializer_vars, SerializerP!vars
<1>2. SerializerP!IInv => SerializerP!IInv'
  BY <1>1, SerializerAssumption, SerializerP!NextIInv
<1>3. Serializer!TypeOK => Serializer!TypeOK'
  BY DEF serializer_vars, Serializer!TypeOK, Serializer!Bytes
<1>4. Serializer!NumTags' = Serializer!NumTags
  BY DEF serializer_vars, Serializer!NumTags
<1> QED BY <1>2, <1>3, <1>4

-----------------------------------------------------------------------------
(* Where the tagger leaves the stream.                                     *)

LEMMA MultipleIsZero ==
    ASSUME NEW m \in Nat, NEW s \in Nat \ {0}
    PROVE  (m * s) % s = 0
<1>1. m * s = s * m + 0
  OBVIOUS
<1> QED BY <1>1

LEMMA ZeroIsMultiple ==
    ASSUME NEW b \in Nat, NEW s \in Nat \ {0}, b % s = 0
    PROVE  \E q \in Nat : b = q * s
<1>1. b = s * (b \div s) + (b % s) /\ b \div s \in Nat
  OBVIOUS
<1>2. b = (b \div s) * s
  BY <1>1
<1> QED BY <1>1, <1>2

\* The multiple of s in the last s of q * s is q * s.
LEMMA LastMultiple ==
    ASSUME NEW m \in Nat, NEW q \in Nat, NEW s \in Nat \ {0},
           m * s <= q * s, m * s + s > q * s
    PROVE  m * s = q * s
<1>1. (m + 1) * s = m * s + s
  OBVIOUS
<1>2. ASSUME NEW i \in Nat, NEW j \in Nat, i < j PROVE i * s + s <= j * s
  <2>1. j * s = i * s + s + (j - i - 1) * s
    OBVIOUS
  <2>2. j - i - 1 \in Nat
    BY <1>2
  <2>3. (j - i - 1) * s \in Nat
    BY <2>2
  <2>4. i * s \in Nat
    OBVIOUS
  <2> QED BY <2>1, <2>3, <2>4
<1>3. ~(m < q)
  <2> SUFFICES ASSUME m < q PROVE FALSE
    OBVIOUS
  <2>1. m * s + s <= q * s
    BY <1>2
  <2>2. m * s \in Nat /\ q * s \in Nat
    OBVIOUS
  <2> QED BY <2>1, <2>2
<1>4. ~(q < m)
  <2> SUFFICES ASSUME q < m PROVE FALSE
    OBVIOUS
  <2>1. q * s + s <= m * s
    BY <1>2
  <2>2. m * s \in Nat /\ q * s \in Nat
    OBVIOUS
  <2> QED BY <2>1, <2>2
<1> QED BY <1>3, <1>4

\* Where no fill has met the end of the file, the last tag ends with it.
LEMMA EndTagDone ==
    ASSUME IInv, EndTag
    PROVE  DoneInv'
<1> DEFINE b == num_blocks_read
<1>1. /\ context \in Contexts /\ b \in Nat /\ start \in Nat
      /\ end \in 0 .. BufferSize /\ position \in 0 .. context.size
      /\ sector # Idle /\ b' = b + 1
      /\ UNCHANGED <<context, position, start, end, file_read>>
  BY DEF IInv, TypeOK, EndTag
<1>2. /\ context.size \in Nat /\ context.num_sectors \in Nat \ {0}
      /\ BufferSize \in Nat
  BY <1>1, ContextType
<1>3. BlockSize' = BlockSize /\ NumBlocks' = NumBlocks
  BY <1>1 DEF BlockSize, NumBlocks
<1> SUFFICES ASSUME Done', ~file_read'
             PROVE  /\ position = context.size
                    /\ start = end
                    /\ context.size = (b + 1) * BlockSize
  BY <1>1, <1>3 DEF DoneInv
<1>4. sector = context.num_sectors
  BY <1>1 DEF EndTag, MustBreak
<1>5. start <= end
  BY <1>1 DEF IInv, BufferIsWindow
<1>6. position - end + start = SectorOffset(b, context.num_sectors)
  BY <1>1, <1>4 DEF IInv, StartAtSector, AtSector, ReadUpTo
<1>7. /\ SectorOffset(b + 1, 0) = SectorOffset(b, context.num_sectors)
      /\ SectorOffset(b + 1, 0) = (b + 1) * BlockSize
      /\ SectorOffset(b + 1, 0) \in Nat
  BY <1>1, <1>2, OffsetSteps
<1>8. ~(b + 1 < NumBlocks)
  BY <1>1, <1>3 DEF Done, HasNext
<1>9. SectorOffset(b + 1, 0) >= context.size
  BY <1>1, <1>2, <1>7, <1>8, HasNextIff
<1> HIDE DEF b
<1>10. end \in Nat /\ position \in Nat /\ position <= context.size
  BY <1>1, <1>2
<1>11. position - end + start = SectorOffset(b + 1, 0)
  BY <1>6, <1>7
<1>12. position = context.size /\ start = end
       /\ context.size = SectorOffset(b + 1, 0)
  BY <1>1, <1>2, <1>5, <1>7, <1>9, <1>10, <1>11
<1> QED BY <1>7, <1>12

\* A fill that does not meet the end of the file fills the buffer, and begins at
\* a multiple of its size if sectors leave nothing over.
LEMMA FillFills ==
    ASSUME IInv, FillInv, FillAndSumSector
    PROVE  FillInv'
<1>1. /\ context \in Contexts /\ start \in Nat /\ end \in 0 .. BufferSize
      /\ position \in 0 .. context.size
      /\ context' = context /\ MustFill
      /\ end' = BytesLeft + BytesGot
      /\ file_read' = (end' # BufferSize)
      /\ position' = IF file_read' THEN 0 ELSE position + BytesGot
      /\ start' = context.sector_size
  BY DEF IInv, TypeOK, FillAndSumSector
<1>2. /\ context.size \in Nat /\ context.sector_size \in Nat \ {0}
      /\ BufferSize \in Nat \ {0} /\ BufferSize' = BufferSize
  BY <1>1, ContextType DEF BufferSize
<1>3. ~file_read /\ start + context.sector_size > end /\ start <= end
  BY DEF MustFill, IInv, BufferIsWindow, FillAndSumSector
<1> SUFFICES ASSUME ~file_read'
             PROVE  /\ end' = BufferSize
                    /\ \E m \in Nat : start' = m * context.sector_size
                    /\ BufferSize % context.sector_size = 0 =>
                           \E f \in Nat : position' = f * BufferSize
  BY <1>1, <1>2 DEF FillInv
<1>4. end' = BufferSize /\ position' = position + BytesGot
  BY <1>1
<1>5. start' = 1 * context.sector_size
  BY <1>1, <1>2
<1>6. BytesLeft = end - start /\ BytesGot = BufferSize - BytesLeft
  <2>1. BytesLeft = end - start /\ BytesLeft \in Int
    BY <1>1, <1>2 DEF BytesLeft
  <2>2. BytesGot \in Int
    BY <1>1, <1>2, <2>1 DEF BytesGot, Least
  <2> QED BY <1>1, <1>2, <1>4, <2>1, <2>2
<1>7. ASSUME BufferSize % context.sector_size = 0
      PROVE  \E f \in Nat : position' = f * BufferSize
  <2>1. CASE position = 0 /\ start = 0 /\ end = 0
    <3>1. position' = 1 * BufferSize
      BY <1>2, <1>4, <1>6, <2>1
    <3> QED BY <3>1
  <2>2. CASE ~(position = 0 /\ start = 0 /\ end = 0)
    <3>1. PICK m \in Nat, f \in Nat : /\ end = BufferSize
                                      /\ start = m * context.sector_size
                                      /\ position = f * BufferSize
      BY <1>3, <1>7, <2>2 DEF FillInv
    <3>2. PICK q \in Nat : BufferSize = q * context.sector_size
      BY <1>2, <1>7, ZeroIsMultiple
    <3>3. start = BufferSize
      <4>1. m * context.sector_size <= q * context.sector_size
            /\ m * context.sector_size + context.sector_size
                   > q * context.sector_size
        BY <1>3, <3>1, <3>2
      <4> QED BY <1>2, <3>1, <3>2, <4>1, LastMultiple
    <3>4. BytesGot = BufferSize
      BY <1>2, <1>6, <3>1, <3>3
    <3>5. position' = f * BufferSize + BufferSize
      BY <1>4, <3>1, <3>4
    <3>6. position' = (f + 1) * BufferSize
      BY <1>2, <3>5
    <3> QED BY <3>6
  <2> QED BY <2>1, <2>2
<1> QED BY <1>4, <1>5, <1>7

\* What the tagger does keeps its invariant and these two.
LEMMA TaggerStep ==
    ASSUME IInv, DoneInv, FillInv, Next
    PROVE  IInv' /\ DoneInv' /\ FillInv'
<1>1. IInv'
  BY NextIInv
<1>2. /\ context \in Contexts /\ context' = context
      /\ BlockSize' = BlockSize /\ BufferSize' = BufferSize
      /\ sector \in Sectors \cup {Idle, context.num_sectors}
  BY DEF IInv, TypeOK, Next, BeginTag, SumBufferedSector, FillAndSumSector,
         EndTag, BlockSize, BufferSize
<1>3. CASE BeginTag
  <2>1. ~Done' /\ UNCHANGED <<position, start, end, file_read>>
    BY <1>3 DEF BeginTag, Done, Idle
  <2> QED BY <1>1, <1>2, <2>1 DEF DoneInv, FillInv
<1>4. CASE SumBufferedSector
  <2>1. /\ sector \in Sectors /\ sector' = sector + 1
        /\ UNCHANGED <<position, end, file_read>>
        /\ start' = start + context.sector_size
        /\ ~file_read => start + context.sector_size <= end
    BY <1>4, <1>2, ContextType
       DEF SumBufferedSector, MustFill, IInv, TypeOK
  <2>2. ~Done'
    <3>1. sector \in Nat
      BY <1>2, <2>1, ContextType
    <3> QED BY <2>1, <3>1 DEF Done, Idle
  <2>3. FillInv'
    <3> SUFFICES ASSUME ~file_read PROVE FillInv'
      BY <2>1 DEF FillInv
    <3>1. context.sector_size \in Nat \ {0} /\ start \in Nat
      BY <1>2, ContextType DEF IInv, TypeOK
    <3>2. ~(start = 0 /\ end = 0)
      BY <2>1, <3>1
    <3>3. PICK m \in Nat : start = m * context.sector_size
      BY <3>2 DEF FillInv
    <3>4. start' = (m + 1) * context.sector_size
      BY <2>1, <3>1, <3>3
    <3> QED BY <1>2, <2>1, <3>2, <3>4 DEF FillInv
  <2> QED BY <1>1, <2>2, <2>3 DEF DoneInv
<1>5. CASE FillAndSumSector
  <2>1. ~Done'
    <3>1. sector \in Nat
      BY <1>2, <1>5, ContextType DEF FillAndSumSector
    <3> QED BY <1>5, <3>1 DEF FillAndSumSector, Done, Idle
  <2> QED BY <1>1, <1>5, <2>1, FillFills DEF DoneInv
<1>6. CASE EndTag
  <2>1. UNCHANGED <<position, start, end, file_read>>
    BY <1>6 DEF EndTag
  <2> QED BY <1>1, <1>2, <1>6, <2>1, EndTagDone DEF FillInv
<1> QED BY <1>3, <1>4, <1>5, <1>6 DEF Next

\* A step that leaves the tagger alone.
LEMMA TaggerKept ==
    ASSUME IInv, DoneInv, FillInv, UNCHANGED vars
    PROVE  IInv' /\ DoneInv' /\ FillInv' /\ Done' = Done
<1>1. IInv'
  BY NextIInv
<1>2. /\ BlockSize' = BlockSize /\ BufferSize' = BufferSize
      /\ Done' = Done
  BY DEF vars, BlockSize, BufferSize, Done, HasNext, NumBlocks
<1> QED BY <1>1, <1>2 DEF vars, DoneInv, FillInv

\* The thread that stores the file moves the stream of a tagger that is done.
LEMMA StreamMoved ==
    ASSUME IInv, DoneInv, FillInv, StoreFileChunk, Done
    PROVE  IInv' /\ DoneInv' /\ FillInv' /\ Done' = Done /\ file_read
<1>1. /\ context \in Contexts /\ position \in 0 .. context.size
      /\ FileChunk > 0 /\ position' = position + FileChunk
      /\ UNCHANGED <<context, buffer, start, end, num_blocks_read, file_read,
                     sector, sigma, tags>>
  BY DEF IInv, TypeOK, StoreFileChunk
<1>2. context.size \in Nat /\ ChunkSize \in Nat
  BY <1>1, ContextType, ChunkSizeAssumption
<1>3. FileChunk \in Nat /\ position + FileChunk <= context.size
      /\ position # context.size
  BY <1>1, <1>2 DEF FileChunk, Least
<1>4. file_read
  BY <1>3 DEF DoneInv, IInv, TypeOK
<1>5. /\ Contexts' = Contexts /\ BufferSize' = BufferSize
      /\ Sectors' = Sectors /\ ReadUpTo' = ReadUpTo /\ HasNext' = HasNext
      /\ AtSector' = AtSector /\ Done' = Done
      /\ \A b, i : SectorOffset(b, i)' = SectorOffset(b, i)
      /\ \A b, i : FileSector(b, i)' = FileSector(b, i)
      /\ \A b : FileBlock(b)' = FileBlock(b)
  BY <1>1, <1>4
     DEF Contexts, BufferSize, Greatest, Sectors, ReadUpTo, HasNext, NumBlocks,
         BlockSize, AtSector, SectorOffset, FileSector, FileBlock, Done
<1>6. TypeOK'
  <2>1. position' \in 0 .. context'.size
    BY <1>1, <1>2, <1>3
  <2> QED BY <1>1, <1>5, <2>1 DEF IInv, TypeOK
<1>7. BufferIsWindow'
  BY <1>1, <1>5 DEF IInv, BufferIsWindow
<1>8. StartAtSector'
  BY <1>1, <1>5 DEF Done, StartAtSector
<1>9. SigmaSoFar' /\ TagsMatchFile'
  BY <1>1, <1>5 DEF IInv, SigmaSoFar, TagsMatchFile
<1>10. NoTagTooMany'
  BY <1>1 DEF IInv, NoTagTooMany, NumBlocks, BlockSize
<1> QED BY <1>1, <1>4, <1>5, <1>6, <1>7, <1>8, <1>9, <1>10
        DEF IInv, DoneInv, FillInv

-----------------------------------------------------------------------------
(* Preservation of the upload's invariant.                                 *)

\* Either the tagger is at work and no thread has started, or all have.
LEMMA Stages ==
    ASSUME ThreadsInv
    PROVE  /\ Tagging => /\ ~closed /\ ~returned
                         /\ \A t \in Threads : Storing(t, "not started")
           /\ ~Tagging => /\ closed /\ Done
                          /\ \A t \in Threads : ~Storing(t, "not started")
           /\ "file" \in Threads /\ "file tag" \in Threads
           /\ "block tags" \in Threads
<1>1. "file" \in Threads /\ "file tag" \in Threads /\ "block tags" \in Threads
  BY DEF Threads
<1>2. Tagging => \A t \in Threads : Storing(t, "not started")
  BY DEF Tagging, Storing
<1>3. Tagging => ~returned
  <2> SUFFICES ASSUME Tagging, returned PROVE FALSE
    BY DEF ThreadsInv
  <2>1. Storing("file", "done")
    BY <1>1 DEF ThreadsInv
  <2>2. Storing("file", "not started")
    BY <1>1, <1>2
  <2> QED BY <2>1, <2>2 DEF Storing
<1> QED BY <1>1, <1>2, <1>3 DEF ThreadsInv

\* The length of what has been stored of the file.
LEMMA StoredFileLength ==
    ASSUME IInv, FileInv
    PROVE  /\ position \in Nat
           /\ Len(stored_file) = IF file_read THEN position ELSE 0
           /\ Len(stored_file) \in Nat
           /\ stored_file \in Seq(0 .. context.size)
<1>1. position \in 0 .. context.size /\ context.size \in Nat
  BY ContextType DEF IInv, TypeOK
<1>2. CASE file_read
  <2>1. stored_file = [o \in 1 .. position |-> o - 1]
    BY <1>2 DEF FileInv
  <2>2. \A o \in 1 .. position : o - 1 \in 0 .. context.size
    BY <1>1
  <2> QED BY <1>1, <1>2, <2>1, <2>2
<1>3. CASE ~file_read
  <2>1. stored_file = <<>>
    BY <1>3 DEF FileInv
  <2> QED BY <1>1, <1>3, <2>1
<1> QED BY <1>2, <1>3

LEMMA ProductType ==
    ASSUME NEW a \in Nat, NEW b \in Nat
    PROVE  a * b \in Nat
OBVIOUS

LEMMA FileTagCountType ==
    ASSUME Serializer!TypeOK
    PROVE  FileTagCount \in Nat
<1>1. Serializer!NumTags \in Nat
  BY Lengths
<1>2. EntrySize * Serializer!NumTags \in Nat
  BY <1>1, ProductType, FileTagAssumption
<1>3. FileTagSize \in Nat
  BY FileTagAssumption
<1>4. FileTagSize + EntrySize * Serializer!NumTags \in Nat
  BY <1>2, <1>3
<1> QED BY <1>4 DEF FileTagCount

LEMMA InitUInv == UploadInit => UInv
<1> SUFFICES ASSUME UploadInit PROVE UInv
  OBVIOUS
<1>1. IInv
  BY InitIInv DEF UploadInit
<1>2. ThreadsInv
  <2>1. Tagging /\ ~closed /\ returned = FALSE
    BY DEF UploadInit, Tagging, Serializer!Init
  <2>2. storing \in [Threads -> {"not started", "open", "copy", "done"}]
    BY <2>1 DEF Tagging
  <2> QED BY <2>1, <2>2 DEF ThreadsInv
<1>3. DoneInv
  <2> SUFFICES ASSUME Done
               PROVE  0 = context.size /\ context.size = 0 * BlockSize
    BY DEF DoneInv, UploadInit, Init
  <2>1. context \in Contexts /\ num_blocks_read = 0
    BY DEF UploadInit, Init
  <2>2. context.size \in Nat /\ BlockSize \in Nat
    BY <2>1, ContextType DEF BlockSize
  <2>3. SectorOffset(0, 0) = 0
    BY <2>1, ContextType DEF SectorOffset
  <2>4. ~(0 < NumBlocks)
    BY <2>1 DEF Done, HasNext
  <2>5. context.size = 0
    BY <2>1, <2>2, <2>3, <2>4, HasNextIff
  <2> QED BY <2>2, <2>5
<1>4. FillInv
  BY DEF UploadInit, Init, FillInv
<1>5. FileInv
  <2>1. ~Storing("file", "done")
    BY DEF UploadInit, Storing, Threads
  <2> QED BY <2>1 DEF UploadInit, Init, FileInv
<1>6. SerializerP!IInv /\ Serializer!TypeOK
  BY SerializerSteps, SerializerAssumption, SerializerP!InitIInv
     DEF UploadInit, SerializerP!IInv
<1>7. /\ file_end = 0 /\ Len(pending) = 0 /\ Serializer!NumTags = 0
      /\ Len(tag_file) = 0 /\ tag_file = <<>>
  BY DEF UploadInit, Serializer!Init, Serializer!NumTags
<1>8. \A t \in Threads : ~Storing(t, "done")
  BY DEF UploadInit, Storing
<1>9. TagsInv
  <2>0. copied = 0 /\ stored_tags = <<>>
    BY DEF UploadInit
  <2>1. stored_tags = SubSeq(tag_file, 1, copied)
    <3>1. SubSeq(<<>>, 1, 0) = <<>>
      OBVIOUS
    <3> QED BY <1>7, <2>0, <3>1
  <2>2. Len(stored_tags) = copied /\ copied \in 0 .. file_end
    BY <1>7, <2>0
  <2>3. num_blocks_read = 0 /\ returned = FALSE
    BY DEF UploadInit, Init
  <2>4. ~Storing("block tags", "done") /\ ~Storing("file tag", "done")
    BY <1>8 DEF Threads
  <2>5. copied <= Len(tag_file) /\ num_blocks_read = Serializer!NumTags
    BY <1>7, <2>0, <2>3
  <2> QED BY <1>6, <2>0, <2>1, <2>2, <2>3, <2>4, <2>5, Zenon DEF TagsInv
<1>10. CountInv
  <2>1. copied = 0 /\ stored_file = <<>> /\ current_value = 0
    BY DEF UploadInit
  <2>2. ~Storing("file tag", "done")
    BY <1>8 DEF Threads
  <2>3. Len(stored_file) = 0
    BY <2>1
  <2>4. 0 = (0 - 0) + 0 + 0 + 0
    OBVIOUS
  <2> QED BY <1>7, <2>1, <2>2, <2>3, <2>4, Zenon DEF CountInv, FileTagCount
<1> QED BY <1>1, <1>2, <1>3, <1>4, <1>5, <1>9, <1>10 DEF UInv

LEMMA TagUInv ==
    ASSUME UInv, Tag
    PROVE  UInv'
<1>1. /\ BeginTag \/ SumBufferedSector \/ FillAndSumSector
      /\ UNCHANGED <<serializer_vars, storage_vars, current_value>>
  BY DEF Tag
<1>2. IInv' /\ DoneInv' /\ FillInv'
  BY <1>1, TaggerStep DEF UInv, Next
<1>3. ~Done
  <2>1. sector \in Sectors => sector # Idle
    BY ContextType DEF UInv, IInv, TypeOK, Idle
  <2> QED BY <1>1, <2>1
          DEF BeginTag, SumBufferedSector, FillAndSumSector, Done
<1>4. Tagging /\ ~closed /\ ~returned
      /\ \A t \in Threads : Storing(t, "not started")
  BY <1>3, Stages DEF UInv
<1>5. /\ Tagging' /\ ~closed' /\ ~returned'
      /\ \A t \in Threads : ~Storing(t, "done")'
      /\ \A t : Storing(t, "done")' = Storing(t, "done")
  BY <1>1, <1>4 DEF Tagging, storage_vars, serializer_vars, Storing
<1>6. ThreadsInv'
  BY <1>1, <1>5 DEF UInv, ThreadsInv, storage_vars
<1>7. FileInv'
  <2>1. stored_file' = stored_file
    BY <1>1 DEF storage_vars
  <2>2. CASE FillAndSumSector
    <3>1. ~file_read /\ (file_read' => position' = 0)
      BY <2>2 DEF FillAndSumSector, MustFill
    <3>2. stored_file = <<>>
      BY <3>1 DEF UInv, FileInv
    <3>3. [o \in 1 .. 0 |-> o - 1] = <<>>
      OBVIOUS
    <3>4. stored_file'
            = IF file_read' THEN [o \in 1 .. position' |-> o - 1] ELSE <<>>
      BY <2>1, <3>1, <3>2, <3>3
    <3> QED BY <1>5, <3>4 DEF FileInv, Threads
  <2>3. CASE BeginTag \/ SumBufferedSector
    <3>1. UNCHANGED <<position, file_read>>
      BY <2>3 DEF BeginTag, SumBufferedSector
    <3> QED BY <1>5, <2>1, <3>1 DEF UInv, FileInv, Threads
  <2> QED BY <1>1, <2>2, <2>3
<1>8. TagsInv'
  <2>1. num_blocks_read' = num_blocks_read
    BY <1>1 DEF BeginTag, SumBufferedSector, FillAndSumSector
  <2>2. /\ SerializerP!IInv' /\ Serializer!TypeOK'
        /\ Serializer!NumTags' = Serializer!NumTags
    BY <1>1, <1>4, SerializerKept DEF UInv, TagsInv
  <2> QED BY <1>1, <1>4, <1>5, <2>1, <2>2
          DEF UInv, TagsInv, storage_vars, serializer_vars, Threads
<1>9. CountInv'
  <2>1. Serializer!NumTags' = Serializer!NumTags
    BY <1>1, SerializerKept
  <2> QED BY <1>1, <1>5, <2>1
          DEF UInv, CountInv, FileTagCount, storage_vars, serializer_vars
<1> QED BY <1>2, <1>6, <1>7, <1>8, <1>9 DEF UInv

LEMMA AddTagUInv ==
    ASSUME UInv, AddTag
    PROVE  UInv'
<1>1. PICK size \in TagSizes :
          /\ EndTag
          /\ Serializer!Add(num_blocks_read, size)
          /\ Progress(IF Serializer!MustFlush(size) THEN Len(pending) ELSE 0)
          /\ UNCHANGED storage_vars
  BY DEF AddTag
<1>2. IInv' /\ DoneInv' /\ FillInv'
  BY <1>1, TaggerStep DEF UInv, Next
<1>3. ~Done
  BY <1>1 DEF EndTag, Done
<1>4. Tagging /\ ~closed /\ ~returned
      /\ \A t \in Threads : Storing(t, "not started")
  BY <1>3, Stages DEF UInv
<1>5. /\ SerializerP!IInv'
      /\ Serializer!TypeOK'
      /\ Serializer!NumTags' = Serializer!NumTags + 1
      /\ file_end' = file_end + size /\ size \in Nat
      /\ file_end' \in Nat /\ Len(pending') \in Nat
      /\ closed' = closed
      /\ file_end' - Len(pending')
             = file_end - Len(pending)
               + (IF Serializer!MustFlush(size) THEN Len(pending) ELSE 0)
  BY <1>1, <1>4, AddedTag DEF UInv, TagsInv
<1>6. /\ Tagging' /\ ~closed' /\ ~returned'
      /\ \A t \in Threads : ~Storing(t, "done")'
      /\ \A t \in Threads : ~Storing(t, "done")
  BY <1>1, <1>4, <1>5 DEF Tagging, storage_vars, Storing
<1>7. ThreadsInv'
  BY <1>1, <1>6 DEF UInv, ThreadsInv, storage_vars
<1>8. FileInv'
  <2>1. UNCHANGED <<stored_file, position, file_read>>
    BY <1>1 DEF storage_vars, EndTag
  <2> QED BY <1>6, <2>1 DEF UInv, FileInv, Threads
<1>9. copied = 0 /\ stored_tags = <<>>
  <2>1. copied = 0 /\ stored_tags = SubSeq(tag_file, 1, copied)
    BY <1>4 DEF UInv, TagsInv
  <2>2. tag_file \in Seq(Nat \X Nat)
    BY DEF UInv, TagsInv, Serializer!TypeOK, Serializer!Bytes
  <2> QED BY <2>1, <2>2
<1>10. TagsInv'
  <2>1. num_blocks_read' = num_blocks_read + 1
    BY <1>1 DEF EndTag
  <2>2. copied' = 0 /\ stored_tags' = <<>>
    BY <1>1, <1>9 DEF storage_vars
  <2>3. tag_file' \in Seq(Nat \X Nat) /\ file_end' \in Nat
    BY <1>5 DEF Serializer!TypeOK, Serializer!Bytes
  <2>4. stored_tags' = SubSeq(tag_file', 1, copied') /\ copied' <= Len(tag_file')
        /\ copied' \in 0 .. file_end' /\ Len(stored_tags') = copied'
    BY <2>2, <2>3
  <2>5. num_blocks_read' = Serializer!NumTags'
    BY <1>5, <2>1 DEF UInv, TagsInv
  <2> QED BY <1>5, <1>6, <2>2, <2>4, <2>5 DEF TagsInv, Threads
<1>11. CountInv'
  <2>1. /\ current_value' = current_value + (IF Serializer!MustFlush(size)
                                             THEN Len(pending) ELSE 0)
        /\ UNCHANGED <<copied, stored_file>>
    BY <1>1 DEF Progress, storage_vars
  <2>2. current_value = (file_end - Len(pending)) + copied + Len(stored_file) + 0
    BY <1>6 DEF UInv, CountInv, FileTagCount, Threads
  <2>3. /\ file_end \in Nat /\ Len(pending) \in Nat /\ copied \in Nat
        /\ file_end' \in Nat /\ Len(pending') \in Nat
    <3>1. Serializer!TypeOK
      BY DEF UInv, TagsInv
    <3>2. file_end \in Nat /\ Len(pending) \in Nat
      BY <3>1, Lengths
    <3>3. file_end' \in Nat /\ Len(pending') \in Nat
      BY <1>5, Zenon
    <3>4. copied \in Nat
      BY <1>9
    <3> QED BY <3>2, <3>3, <3>4, Zenon
  <2>4. Len(stored_file) \in Nat
    BY StoredFileLength DEF UInv
  <2> DEFINE flushed == IF Serializer!MustFlush(size) THEN Len(pending) ELSE 0
  <2>5. current_value' = (file_end' - Len(pending')) + copied'
                             + Len(stored_file') + 0
    <3>1. flushed \in Nat
      BY <2>3
    <3>2. /\ current_value' = current_value + flushed
          /\ file_end' - Len(pending') = file_end - Len(pending) + flushed
          /\ copied' = copied /\ stored_file' = stored_file
      BY <1>5, <2>1
    <3> HIDE DEF flushed
    <3> QED BY <2>2, <2>3, <2>4, <3>1, <3>2
  <2> QED BY <1>6, <2>5 DEF CountInv, FileTagCount, Threads
<1> QED BY <1>2, <1>7, <1>8, <1>10, <1>11 DEF UInv

\* A thread's step keeps the threads in step with the tagger and serializer.
LEMMA Advanced ==
    ASSUME ThreadsInv, NEW t \in Threads, NEW step \in {"copy", "done"},
           ~Storing(t, "not started"), ~Storing(t, "done"),
           Advance(t, step), closed' = closed, returned' = returned,
           Done' = Done
    PROVE  /\ ThreadsInv'
           /\ ~Tagging /\ ~Tagging' /\ ~returned /\ ~returned'
           /\ \A u \in Threads :
                  storing'[u] = IF u = t THEN step ELSE storing[u]
<1>1. /\ ~Tagging /\ closed /\ Done
      /\ \A u \in Threads : ~Storing(u, "not started")
  BY Stages
<1>2. storing' \in [Threads -> {"not started", "open", "copy", "done"}]
  BY DEF ThreadsInv, Advance
<1>3. \A u \in Threads : storing'[u] = IF u = t THEN step ELSE storing[u]
  BY DEF ThreadsInv, Advance
<1>4. ~returned
  BY DEF ThreadsInv
<1>5. \A u \in Threads : ~Storing(u, "not started")'
  BY <1>1, <1>3 DEF Storing
<1>6. returned \in BOOLEAN
  BY DEF ThreadsInv
<1>7. ~Tagging'
  <2>1. "file" \in Threads
    BY DEF Threads
  <2> QED BY <1>5, <2>1 DEF Tagging, Storing
<1> QED BY <1>1, <1>2, <1>3, <1>4, <1>5, <1>6, <1>7 DEF ThreadsInv

LEMMA StartThreadsUInv ==
    ASSUME UInv, StartThreads
    PROVE  UInv'
<1>1. /\ Done /\ Tagging /\ Serializer!Done
      /\ current_value' = current_value + Len(pending)
      /\ storing' = [t \in Threads |-> "open"]
      /\ UNCHANGED <<vars, copied, stored_file, stored_tags, stored_file_tag,
                     returned>>
  BY DEF StartThreads, Tagging, Progress
<1>2. IInv' /\ DoneInv' /\ FillInv' /\ Done' = Done
  BY <1>1, TaggerKept DEF UInv
<1>3. ~returned /\ \A t \in Threads : Storing(t, "not started")
  BY <1>1, Stages DEF UInv
<1>4. /\ SerializerP!IInv' /\ Serializer!TypeOK'
      /\ Serializer!NumTags' = Serializer!NumTags
      /\ file_end' = file_end /\ closed' /\ Len(pending') = 0
  BY <1>1, <1>3, SerializerDone DEF UInv, TagsInv
<1>5. /\ \A t \in Threads : storing'[t] = "open"
      /\ \A t \in Threads : ~Storing(t, "done") /\ ~Storing(t, "done")'
  BY <1>1, <1>3 DEF Storing
<1>6. ~Tagging' /\ ~returned'
  <2>1. "file" \in Threads
    BY DEF Threads
  <2> QED BY <1>1, <1>3, <1>5, <2>1 DEF Tagging
<1>7. ThreadsInv'
  <2>1. storing' \in [Threads -> {"not started", "open", "copy", "done"}]
    BY <1>1
  <2>2. \A t \in Threads : ~Storing(t, "not started")'
    BY <1>5 DEF Storing
  <2>3. returned' \in BOOLEAN
    BY <1>1 DEF UInv, ThreadsInv
  <2> QED BY <1>1, <1>2, <1>4, <1>6, <2>1, <2>2, <2>3 DEF ThreadsInv
<1>8. FileInv'
  <2>1. UNCHANGED <<position, file_read, stored_file>>
    BY <1>1 DEF vars
  <2>2. ~Storing("file", "done")'
    BY <1>5 DEF Threads
  <2> QED BY <2>1, <2>2 DEF UInv, FileInv
<1>9. TagsInv'
  <2>1. copied = 0 /\ stored_tags = SubSeq(tag_file, 1, copied)
    BY <1>1, <1>3 DEF UInv, TagsInv
  <2>2. tag_file \in Seq(Nat \X Nat)
    BY DEF UInv, TagsInv, Serializer!TypeOK, Serializer!Bytes
  <2>3. tag_file' \in Seq(Nat \X Nat) /\ file_end' \in Nat
    BY <1>4 DEF Serializer!TypeOK, Serializer!Bytes
  <2>4. stored_tags = <<>>
    BY <2>1, <2>2
  <2>5. copied' = 0 /\ stored_tags' = <<>>
    BY <1>1, <2>1, <2>4
  <2>6. stored_tags' = SubSeq(tag_file', 1, copied') /\ copied' <= Len(tag_file')
        /\ copied' \in 0 .. file_end' /\ Len(stored_tags') = copied'
    BY <2>3, <2>5
  <2>7. num_blocks_read' = Serializer!NumTags'
    BY <1>1, <1>4 DEF UInv, TagsInv, vars
  <2>8. ~Storing("block tags", "done")' /\ ~Storing("file tag", "done")'
    BY <1>5 DEF Threads
  <2> QED BY <1>4, <1>6, <2>6, <2>7, <2>8 DEF TagsInv
<1>10. CountInv'
  <2>1. ~Storing("file tag", "done") /\ ~Storing("file tag", "done")'
    BY <1>5 DEF Threads
  <2>2. current_value = (file_end - Len(pending)) + copied + Len(stored_file) + 0
    BY <2>1 DEF UInv, CountInv, FileTagCount
  <2>3. copied' = copied /\ stored_file' = stored_file
    BY <1>1
  <2>4. file_end \in Nat /\ Len(pending) \in Nat /\ copied \in Nat
    <3>1. Serializer!TypeOK /\ copied \in 0 .. file_end
      BY DEF UInv, TagsInv
    <3> QED BY <3>1, Lengths
  <2>5. Len(stored_file) \in Nat
    BY StoredFileLength DEF UInv
  <2>6. current_value' = (file_end' - Len(pending')) + copied'
                             + Len(stored_file') + 0
    BY <1>1, <1>4, <2>2, <2>3, <2>4, <2>5
  <2> QED BY <2>1, <2>6 DEF CountInv, FileTagCount
<1> QED BY <1>2, <1>7, <1>8, <1>9, <1>10 DEF UInv

\* A thread's step that changes nothing but what its thread does next.
LEMMA AdvanceUInv ==
    ASSUME UInv, NEW t \in Threads, NEW step \in {"copy", "done"},
           ~Storing(t, "not started"), ~Storing(t, "done"), Advance(t, step),
           t = "file tag" => step = "copy",
           t = "file" /\ step = "done" => position = context.size,
           t = "block tags" /\ step = "done" => copied = Len(tag_file),
           UNCHANGED <<vars, serializer_vars, copied, stored_file, stored_tags,
                       stored_file_tag, returned, current_value>>
    PROVE  UInv'
<1>1. IInv' /\ DoneInv' /\ FillInv' /\ Done' = Done
  BY TaggerKept DEF UInv
<1>2. closed' = closed
  BY DEF serializer_vars
<1>3. /\ ThreadsInv'
      /\ ~Tagging /\ ~Tagging' /\ ~returned /\ ~returned'
      /\ \A u \in Threads : storing'[u] = IF u = t THEN step ELSE storing[u]
  BY <1>1, <1>2, Advanced DEF UInv
<1>4. "file" \in Threads /\ "file tag" \in Threads /\ "block tags" \in Threads
  BY DEF Threads
<1>5. /\ SerializerP!IInv' /\ Serializer!TypeOK'
      /\ Serializer!NumTags' = Serializer!NumTags
  BY <1>3, SerializerKept DEF UInv, TagsInv
<1>6. Storing("file tag", "done")' <=> Storing("file tag", "done")
  BY <1>3, <1>4 DEF Storing
<1>7. FileInv'
  <2>1. Storing("file", "done")' => position = context.size
    BY <1>3, <1>4 DEF Storing, UInv, FileInv
  <2> QED BY <2>1 DEF vars, UInv, FileInv
<1>8. TagsInv'
  <2>1. Storing("block tags", "done")' => copied = Len(tag_file)
    BY <1>3, <1>4 DEF Storing, UInv, TagsInv
  <2> QED BY <1>3, <1>5, <1>6, <2>1 DEF UInv, TagsInv, vars, serializer_vars
<1>9. CountInv'
  BY <1>5, <1>6 DEF UInv, CountInv, FileTagCount, serializer_vars
<1> QED BY <1>1, <1>3, <1>7, <1>8, <1>9 DEF UInv

LEMMA OpenObjectsUInv ==
    ASSUME UInv, OpenObjects
    PROVE  UInv'
<1>1. PICK t \in Threads :
          /\ Storing(t, "open")
          /\ Advance(t, "copy")
          /\ UNCHANGED <<vars, serializer_vars, copied, stored_file,
                         stored_tags, stored_file_tag, returned, current_value>>
  BY DEF OpenObjects
<1>2. ~Storing(t, "not started") /\ ~Storing(t, "done")
  BY <1>1 DEF Storing
<1> QED BY <1>1, <1>2, AdvanceUInv

LEMMA StoreFileEndUInv ==
    ASSUME UInv, StoreFileEnd
    PROVE  UInv'
<1>1. ~Storing("file", "not started") /\ ~Storing("file", "done")
  BY DEF StoreFileEnd, Storing
<1>2. position = context.size
  <2>1. position \in 0 .. context.size /\ context.size \in Nat
    BY ContextType DEF UInv, IInv, TypeOK
  <2>2. FileChunk = 0
    BY DEF StoreFileEnd
  <2> QED BY <2>1, <2>2, ChunkSizeAssumption DEF FileChunk, Least
<1>3. "file" \in Threads
  BY DEF Threads
<1> QED BY <1>1, <1>2, <1>3, AdvanceUInv DEF StoreFileEnd

LEMMA StoreTagsEndUInv ==
    ASSUME UInv, StoreTagsEnd
    PROVE  UInv'
<1>1. ~Storing("block tags", "not started") /\ ~Storing("block tags", "done")
  BY DEF StoreTagsEnd, Storing
<1>2. "block tags" \in Threads
  BY DEF Threads
<1>3. ~returned
  BY <1>1, <1>2 DEF UInv, ThreadsInv
<1>4. copied = Len(tag_file)
  <2>1. Len(tag_file) \in Nat /\ copied \in Nat
    <3>1. Serializer!TypeOK /\ copied \in 0 .. file_end
      BY DEF UInv, TagsInv
    <3> QED BY <3>1, Lengths
  <2>2. copied <= Len(tag_file)
    BY <1>3 DEF UInv, TagsInv
  <2>3. TagChunk = 0
    BY DEF StoreTagsEnd
  <2> QED BY <2>1, <2>2, <2>3, ChunkSizeAssumption DEF TagChunk, Least
<1> QED BY <1>1, <1>2, <1>4, AdvanceUInv DEF StoreTagsEnd

\* A chunk of the file: the bytes from the stream's position on.
LEMMA StoreFileChunkUInv ==
    ASSUME UInv, StoreFileChunk
    PROVE  UInv'
<1>1. /\ Storing("file", "copy") /\ FileChunk > 0
      /\ stored_file' = stored_file
                            \o [k \in 1 .. FileChunk |-> position + k - 1]
      /\ position' = position + FileChunk
      /\ current_value' = current_value + FileChunk
      /\ UNCHANGED <<context, num_blocks_read, file_read, serializer_vars,
                     storing, copied, stored_tags, stored_file_tag, returned>>
  BY DEF StoreFileChunk, Progress
<1>2. ~Storing("file", "not started") /\ ~Storing("file", "done")
  BY <1>1 DEF Storing
<1>3. "file" \in Threads
  BY DEF Threads
<1>4. ~Tagging /\ Done /\ ~returned
  BY <1>2, <1>3, Stages DEF UInv, ThreadsInv
<1>5. IInv' /\ DoneInv' /\ FillInv' /\ Done' = Done /\ file_read
  BY <1>4, StreamMoved DEF UInv
<1>6. \A t, step : Storing(t, step)' = Storing(t, step)
  BY <1>1 DEF Storing
<1>7. Tagging' = Tagging /\ closed' = closed
  BY <1>1 DEF Tagging, serializer_vars
<1>8. ThreadsInv'
  BY <1>1, <1>5, <1>6, <1>7 DEF UInv, ThreadsInv
<1>9. position \in Nat /\ FileChunk \in Nat
  <2>1. position \in 0 .. context.size /\ context.size \in Nat
    BY ContextType DEF UInv, IInv, TypeOK
  <2> QED BY <2>1, ChunkSizeAssumption DEF FileChunk, Least
<1>10. /\ stored_file' = [o \in 1 .. position' |-> o - 1]
       /\ Len(stored_file') = Len(stored_file) + FileChunk
       /\ Len(stored_file) \in Nat
  <2> DEFINE chunk == [k \in 1 .. FileChunk |-> position + k - 1]
             n == FileChunk
  <2>1. n \in Nat
    BY <1>9
  <2>2. stored_file = [o \in 1 .. position |-> o - 1]
    BY <1>5 DEF UInv, FileInv
  <2>3. /\ stored_file \in Seq(Nat) /\ Len(stored_file) = position
        /\ \A o \in 1 .. position : stored_file[o] = o - 1
    BY <1>9, <2>2
  <2> HIDE DEF n
  <2>4. chunk \in Seq(Nat) /\ Len(chunk) = n
        /\ \A k \in 1 .. n : chunk[k] = position + k - 1
    <3>1. chunk = [k \in 1 .. n |-> position + k - 1]
      BY DEF n
    <3> HIDE DEF chunk
    <3>2. \A k \in 1 .. n : position + k - 1 \in Nat
      BY <1>9, <2>1
    <3> QED BY <2>1, <3>1, <3>2
  <2> HIDE DEF chunk
  <2> DEFINE whole == [o \in 1 .. position + n |-> o - 1]
  <2>5. /\ whole \in Seq(Nat) /\ Len(whole) = position + n
        /\ \A o \in 1 .. position + n : whole[o] = o - 1
    <3>1. \A o \in 1 .. position + n : o - 1 \in Nat
      BY <1>9, <2>1
    <3> QED BY <1>9, <2>1, <3>1
  <2> HIDE DEF whole
  <2>6. /\ stored_file \o chunk \in Seq(Nat)
        /\ Len(stored_file \o chunk) = position + n
    BY <2>3, <2>4, ConcatProperties
  <2>7. ASSUME NEW o \in 1 .. position + n
        PROVE  (stored_file \o chunk)[o] = whole[o]
    <3>1. CASE o <= position
      <4>1. (stored_file \o chunk)[o] = stored_file[o]
        BY <1>9, <2>1, <2>3, <2>4, <3>1
      <4> QED BY <1>9, <2>1, <2>3, <2>5, <3>1, <4>1
    <3>2. CASE o > position
      <4>1. o - position \in 1 .. n
        BY <1>9, <2>1, <3>2
      <4>2. (stored_file \o chunk)[o] = chunk[o - position]
        BY <1>9, <2>1, <2>3, <2>4, <3>2
      <4>3. chunk[o - position] = o - 1
        BY <1>9, <2>1, <2>4, <4>1
      <4> QED BY <2>5, <4>2, <4>3
    <3>3. o <= position \/ o > position
      BY <1>9, <2>1
    <3> QED BY <3>1, <3>2, <3>3
  <2>8. stored_file \o chunk = whole
    BY <2>5, <2>6, <2>7, SeqEqual
  <2>9. stored_file' = stored_file \o chunk /\ position' = position + n
    BY <1>1 DEF chunk, n
  <2> QED BY <1>9, <2>3, <2>6, <2>8, <2>9 DEF whole, n
<1>11. FileInv'
  BY <1>1, <1>2, <1>5, <1>6, <1>10 DEF FileInv
<1>12. /\ SerializerP!IInv => SerializerP!IInv'
       /\ Serializer!TypeOK => Serializer!TypeOK'
       /\ Serializer!NumTags' = Serializer!NumTags
  BY <1>1, SerializerKept
<1>13. TagsInv'
  BY <1>1, <1>4, <1>6, <1>7, <1>12 DEF UInv, TagsInv, serializer_vars
<1>14. CountInv'
  <2>1. /\ file_end \in Nat /\ Len(pending) \in Nat /\ copied \in Nat
        /\ Serializer!NumTags \in Nat
    <3>1. Serializer!TypeOK /\ copied \in 0 .. file_end
      BY DEF UInv, TagsInv
    <3> QED BY <3>1, Lengths
  <2>2. FileTagCount \in Nat
    BY FileTagCountType DEF UInv, TagsInv
  <2>3. FileTagCount' = FileTagCount
    BY <1>6, <1>12 DEF FileTagCount
  <2>4. current_value = (file_end - Len(pending)) + copied + Len(stored_file)
                            + FileTagCount
    BY DEF UInv, CountInv
  <2>5. /\ file_end' = file_end /\ pending' = pending /\ copied' = copied
    BY <1>1 DEF serializer_vars
  <2> SUFFICES current_value' = (file_end' - Len(pending')) + copied'
                                    + Len(stored_file') + FileTagCount'
    BY DEF CountInv
  <2> QED BY <1>1, <1>9, <1>10, <2>1, <2>2, <2>3, <2>4, <2>5
<1> QED BY <1>5, <1>8, <1>11, <1>13, <1>14 DEF UInv

\* A chunk of the serializer's file, which is closed.
LEMMA StoreTagChunkUInv ==
    ASSUME UInv, StoreTagChunk
    PROVE  UInv'
<1>1. /\ Storing("block tags", "copy") /\ TagChunk > 0
      /\ stored_tags' = stored_tags
                            \o SubSeq(tag_file, copied + 1, copied + TagChunk)
      /\ copied' = copied + TagChunk
      /\ current_value' = current_value + TagChunk
      /\ UNCHANGED <<vars, serializer_vars, storing, stored_file,
                     stored_file_tag, returned>>
  BY DEF StoreTagChunk, Progress
<1>2. ~Storing("block tags", "not started") /\ ~Storing("block tags", "done")
  BY <1>1 DEF Storing
<1>3. "block tags" \in Threads
  BY DEF Threads
<1>4. ~Tagging /\ Done /\ ~returned
  BY <1>2, <1>3, Stages DEF UInv, ThreadsInv
<1>5. IInv' /\ DoneInv' /\ FillInv' /\ Done' = Done
  BY <1>1, TaggerKept DEF UInv
<1>6. \A t, step : Storing(t, step)' = Storing(t, step)
  BY <1>1 DEF Storing
<1>7. Tagging' = Tagging /\ closed' = closed
  BY <1>1 DEF Tagging, serializer_vars
<1>8. ThreadsInv'
  BY <1>1, <1>5, <1>6, <1>7 DEF UInv, ThreadsInv
<1>9. FileInv'
  BY <1>1, <1>6 DEF UInv, FileInv, vars
<1>10. /\ SerializerP!IInv /\ SerializerP!IInv'
       /\ Serializer!TypeOK /\ Serializer!TypeOK'
       /\ Serializer!NumTags' = Serializer!NumTags
       /\ copied <= Len(tag_file)
       /\ stored_tags = SubSeq(tag_file, 1, copied)
  BY <1>1, <1>4, SerializerKept DEF UInv, TagsInv
<1>11. /\ tag_file \in Seq(Nat \X Nat) /\ Len(tag_file) \in Nat
       /\ file_end \in Nat /\ Len(pending) \in Nat
       /\ Serializer!NumTags \in Nat /\ copied \in Nat
  <2>1. copied \in 0 .. file_end
    BY DEF UInv, TagsInv
  <2> QED BY <1>10, <2>1, Lengths DEF Serializer!TypeOK, Serializer!Bytes
<1>12. Len(tag_file) <= file_end
  <2>1. Len(tag_file) + Len(pending) <= file_end
    BY <1>10 DEF SerializerP!IInv, SerializerP!AccountExact
  <2> QED BY <1>11, <2>1
<1>13. TagChunk \in Nat /\ copied + TagChunk <= Len(tag_file)
  BY <1>10, <1>11, ChunkSizeAssumption DEF TagChunk, Least
<1>14. /\ stored_tags' = SubSeq(tag_file, 1, copied + TagChunk)
       /\ Len(stored_tags') = copied + TagChunk
  <2> DEFINE n == TagChunk
             S == Nat \X Nat
  <2>1. n \in Nat /\ copied + n <= Len(tag_file) /\ tag_file \in Seq(S)
    BY <1>11, <1>13
  <2>2. stored_tags' = SubSeq(tag_file, 1, copied)
                           \o SubSeq(tag_file, copied + 1, copied + n)
    BY <1>1, <1>10
  <2> HIDE DEF n, S
  <2>3. SubSeq(tag_file, 1, copied) \o SubSeq(tag_file, copied + 1, copied + n)
            = SubSeq(tag_file, 1, copied + n)
    <3>1. copied \in Nat /\ Len(tag_file) \in Nat
      BY <1>11
    <3> QED BY <2>1, <3>1, SMTT(60)
  <2>4. Len(SubSeq(tag_file, 1, copied + n)) = copied + n
    BY <1>11, <2>1
  <2> QED BY <2>2, <2>3, <2>4 DEF n
<1>15. TagsInv'
  <2>1. num_blocks_read' = Serializer!NumTags'
    BY <1>1, <1>10 DEF UInv, TagsInv, vars
  <2>2. copied' \in 0 .. file_end' /\ Len(stored_tags') = copied'
        /\ copied' <= Len(tag_file')
        /\ stored_tags' = SubSeq(tag_file', 1, copied')
    <3>1. copied + TagChunk \in 0 .. file_end
      BY <1>11, <1>12, <1>13
    <3>2. /\ tag_file' = tag_file /\ file_end' = file_end
          /\ copied' = copied + TagChunk
      BY <1>1 DEF serializer_vars
    <3> QED BY <1>13, <1>14, <3>1, <3>2, Zenon
  <2>3. ~Tagging' /\ ~returned' /\ ~Storing("block tags", "done")'
    BY <1>1, <1>2, <1>4, <1>6, <1>7
  <2>4. Storing("file tag", "done")' => stored_file_tag' = block_tag_map'
    BY <1>1, <1>6 DEF UInv, TagsInv, serializer_vars
  <2> QED BY <1>10, <2>1, <2>2, <2>3, <2>4 DEF TagsInv
<1>16. CountInv'
  <2>1. FileTagCount \in Nat /\ FileTagCount' = FileTagCount
    BY <1>6, <1>10, FileTagCountType DEF FileTagCount
  <2>2. Len(stored_file) \in Nat
    BY StoredFileLength DEF UInv
  <2>3. current_value = (file_end - Len(pending)) + copied + Len(stored_file)
                            + FileTagCount
    BY DEF UInv, CountInv
  <2>4. /\ file_end' = file_end /\ pending' = pending
        /\ stored_file' = stored_file
    BY <1>1 DEF serializer_vars
  <2> SUFFICES current_value' = (file_end' - Len(pending')) + copied'
                                    + Len(stored_file') + FileTagCount'
    BY DEF CountInv
  <2>5. copied' = copied + TagChunk
        /\ current_value' = current_value + TagChunk
    BY <1>1
  <2> QED BY <1>11, <1>13, <2>1, <2>2, <2>3, <2>4, <2>5
<1> QED BY <1>5, <1>8, <1>9, <1>15, <1>16 DEF UInv

\* The file tag: it carries the map as Done() has returned it.
LEMMA StoreFileTagUInv ==
    ASSUME UInv, StoreFileTag
    PROVE  UInv'
<1>1. /\ Storing("file tag", "copy")
      /\ stored_file_tag' = block_tag_map
      /\ current_value' = current_value
                              + (FileTagSize + EntrySize * Serializer!NumTags)
      /\ Advance("file tag", "done")
      /\ UNCHANGED <<vars, serializer_vars, copied, stored_file, stored_tags,
                     returned>>
  BY DEF StoreFileTag, Progress
<1>2. ~Storing("file tag", "not started") /\ ~Storing("file tag", "done")
  BY <1>1 DEF Storing
<1>3. "file" \in Threads /\ "file tag" \in Threads /\ "block tags" \in Threads
  BY DEF Threads
<1>4. IInv' /\ DoneInv' /\ FillInv' /\ Done' = Done
  BY <1>1, TaggerKept DEF UInv
<1>5. closed' = closed
  BY <1>1 DEF serializer_vars
<1>6. /\ ThreadsInv'
      /\ ~Tagging /\ ~Tagging' /\ ~returned /\ ~returned'
      /\ \A u \in Threads :
             storing'[u] = IF u = "file tag" THEN "done" ELSE storing[u]
  BY <1>1, <1>2, <1>3, <1>4, <1>5, Advanced DEF UInv
<1>7. /\ Storing("file tag", "done")'
      /\ Storing("file", "done")' <=> Storing("file", "done")
      /\ Storing("block tags", "done")' <=> Storing("block tags", "done")
  BY <1>3, <1>6 DEF Storing
<1>8. /\ SerializerP!IInv' /\ Serializer!TypeOK'
      /\ Serializer!NumTags' = Serializer!NumTags
  BY <1>1, <1>6, SerializerKept DEF UInv, TagsInv
<1>9. FileInv'
  BY <1>1, <1>7 DEF UInv, FileInv, vars
<1>10. TagsInv'
  BY <1>1, <1>6, <1>7, <1>8 DEF UInv, TagsInv, vars, serializer_vars
<1>11. CountInv'
  <2>1. current_value = (file_end - Len(pending)) + copied + Len(stored_file)
                            + 0
    BY <1>2 DEF UInv, CountInv, FileTagCount
  <2>2. FileTagCount' = FileTagSize + EntrySize * Serializer!NumTags
    BY <1>7, <1>8 DEF FileTagCount
  <2>3. /\ file_end \in Nat /\ Len(pending) \in Nat /\ copied \in Nat
    <3>1. Serializer!TypeOK /\ copied \in 0 .. file_end
      BY DEF UInv, TagsInv
    <3> QED BY <3>1, Lengths
  <2>4. Len(stored_file) \in Nat
    BY StoredFileLength DEF UInv
  <2>5. /\ file_end' = file_end /\ pending' = pending /\ copied' = copied
        /\ stored_file' = stored_file
        /\ current_value' = current_value + FileTagCount'
    BY <1>1, <2>2 DEF serializer_vars
  <2>6. FileTagCount' \in Nat
    <3>1. EntrySize * Serializer!NumTags \in Nat
      BY Lengths, ProductType, FileTagAssumption DEF UInv, TagsInv
    <3> QED BY <2>2, <3>1, FileTagAssumption
  <2>7. current_value' = (file_end' - Len(pending')) + copied'
                             + Len(stored_file') + FileTagCount'
    BY <2>1, <2>3, <2>4, <2>5, <2>6
  <2> QED BY <2>7 DEF CountInv
<1> QED BY <1>4, <1>6, <1>9, <1>10, <1>11 DEF UInv

\* A server finds in the stored objects what the serializer's file had.
LEMMA StoredIsSerialized ==
    ASSUME SerializerP!IInv, stored_tags = tag_file,
           stored_file_tag = block_tag_map
    PROVE  ServerP!IInv
<1>1. /\ ServerP!NumTags = SerializerP!NumTags
      /\ \A n : ServerP!TagStart(n) = SerializerP!TagStart(n)
      /\ \A n : ServerP!TagEnd(n) = SerializerP!TagEnd(n)
      /\ ServerP!TagEnd(ServerP!NumTags)
             = SerializerP!TagEnd(SerializerP!NumTags)
  BY DEF ServerP!NumTags, SerializerP!NumTags, ServerP!TagStart,
         SerializerP!TagStart, ServerP!TagEnd, SerializerP!TagEnd
<1>2. ServerP!TypeOK
  BY DEF SerializerP!IInv, SerializerP!TypeOK, SerializerP!Bytes,
         ServerP!TypeOK, ServerP!Bytes
<1>3. ServerP!MapContiguous
  BY <1>1 DEF SerializerP!IInv, SerializerP!MapContiguous,
              ServerP!MapContiguous
<1>4. ServerP!AccountExact
  BY DEF SerializerP!IInv, SerializerP!AccountExact, ServerP!AccountExact
<1>5. ServerP!TagsLocated
  BY <1>1 DEF SerializerP!IInv, SerializerP!TagsLocated, SerializerP!Located,
              ServerP!TagsLocated, ServerP!Located
<1> QED BY <1>2, <1>3, <1>4, <1>5 DEF ServerP!IInv

\* What the server finds stays as it is stored.
LEMMA ServerKept ==
    ASSUME ServerP!IInv,
           UNCHANGED <<stored_tags, tag_file_bad, pending, buffer_size,
                       file_end, stored_file_tag, closed>>
    PROVE  ServerP!IInv'
<1>1. UNCHANGED ServerP!vars
  BY DEF ServerP!vars
<1> QED BY <1>1, SerializerAssumption, ServerP!NextIInv

LEMMA ReturnUInv ==
    ASSUME UInv, Return
    PROVE  UInv'
<1>1. /\ ~returned /\ returned' = TRUE /\ tag_file' = <<>>
      /\ \A t \in Threads : Storing(t, "done")
      /\ UNCHANGED <<vars, tag_file_bad, pending, buffer_size, file_end,
                     block_tag_map, closed, storing, copied, stored_file,
                     stored_tags, stored_file_tag, current_value>>
  BY DEF Return
<1>2. IInv' /\ DoneInv' /\ FillInv' /\ Done' = Done
  BY <1>1, TaggerKept DEF UInv
<1>3. /\ \A t, step : Storing(t, step)' = Storing(t, step)
      /\ Tagging' = Tagging
      /\ Serializer!NumTags' = Serializer!NumTags
  BY <1>1 DEF Storing, Tagging, Serializer!NumTags
<1>4. "file" \in Threads /\ "file tag" \in Threads /\ "block tags" \in Threads
  BY DEF Threads
<1>5. ~Tagging
  BY <1>1, <1>4, Stages DEF UInv, Storing
<1>6. ThreadsInv'
  BY <1>1, <1>2, <1>3, <1>5 DEF UInv, ThreadsInv
<1>7. FileInv'
  BY <1>1, <1>3 DEF UInv, FileInv, vars
<1>8. ServerP!IInv'
  <2>1. /\ SerializerP!IInv /\ stored_file_tag = block_tag_map
        /\ stored_tags = SubSeq(tag_file, 1, Len(tag_file))
    BY <1>1, <1>4 DEF UInv, TagsInv
  <2>2. tag_file \in Seq(Nat \X Nat)
    BY DEF UInv, TagsInv, Serializer!TypeOK, Serializer!Bytes
  <2>3. stored_tags = tag_file
    BY <2>1, <2>2
  <2> QED BY <1>1, <2>1, <2>3, StoredIsSerialized, ServerKept
<1>9. TagsInv'
  <2>1. Serializer!TypeOK'
    <3>1. <<>> \in Serializer!Bytes
      BY DEF Serializer!Bytes
    <3>2. Serializer!TypeOK
      BY DEF UInv, TagsInv
    <3>3. Serializer!Bytes' = Serializer!Bytes
      BY DEF Serializer!Bytes
    <3> QED BY <1>1, <3>1, <3>2, <3>3 DEF Serializer!TypeOK
  <2> QED BY <1>1, <1>3, <1>5, <1>8, <2>1 DEF UInv, TagsInv, vars
<1>10. CountInv'
  BY <1>1, <1>3 DEF UInv, CountInv, FileTagCount
<1> QED BY <1>2, <1>6, <1>7, <1>9, <1>10 DEF UInv

LEMMA StutterUInv ==
    ASSUME UInv, UNCHANGED upload_vars
    PROVE  UInv'
<1>1. UNCHANGED <<vars, serializer_vars, storage_vars, current_value>>
  BY DEF upload_vars
<1>2. IInv' /\ DoneInv' /\ FillInv' /\ Done' = Done
  BY <1>1, TaggerKept DEF UInv
<1>3. /\ \A t, step : Storing(t, step)' = Storing(t, step)
      /\ Tagging' = Tagging /\ closed' = closed /\ returned' = returned
  BY <1>1 DEF Storing, Tagging, storage_vars, serializer_vars
<1>4. /\ SerializerP!IInv => SerializerP!IInv'
      /\ Serializer!TypeOK => Serializer!TypeOK'
      /\ Serializer!NumTags' = Serializer!NumTags
  BY <1>1, SerializerKept
<1>5. ServerP!IInv => ServerP!IInv'
  BY <1>1, ServerKept DEF storage_vars, serializer_vars
<1>6. ThreadsInv'
  <2>1. storing' = storing /\ returned' = returned /\ closed' = closed
    BY <1>1 DEF storage_vars, serializer_vars
  <2> QED BY <1>2, <2>1 DEF UInv, ThreadsInv, Tagging, Storing
<1>7. FileInv'
  BY <1>1, <1>3 DEF UInv, FileInv, vars, storage_vars
<1>8. TagsInv'
  <2>1. /\ storing' = storing /\ returned' = returned /\ copied' = copied
        /\ stored_tags' = stored_tags /\ stored_file_tag' = stored_file_tag
        /\ tag_file' = tag_file /\ file_end' = file_end
        /\ block_tag_map' = block_tag_map
        /\ num_blocks_read' = num_blocks_read
    BY <1>1 DEF storage_vars, serializer_vars, vars
  <2> QED BY <1>4, <1>5, <2>1 DEF UInv, TagsInv, Tagging, Storing
<1>9. CountInv'
  BY <1>1, <1>3, <1>4
     DEF UInv, CountInv, FileTagCount, storage_vars, serializer_vars
<1> QED BY <1>2, <1>6, <1>7, <1>8, <1>9 DEF UInv

LEMMA UploadNextUInv == UInv /\ [UploadNext]_upload_vars => UInv'
BY TagUInv, AddTagUInv, StartThreadsUInv, OpenObjectsUInv, StoreFileChunkUInv,
   StoreFileEndUInv, StoreTagChunkUInv, StoreTagsEndUInv, StoreFileTagUInv,
   ReturnUInv, StutterUInv
   DEF UploadNext

-----------------------------------------------------------------------------
(* What the upload's invariant says of the stored objects.                 *)

\* A part of a sequence of consecutive offsets.
LEMMA Slice ==
    ASSUME NEW s, NEW from \in Nat, NEW lo \in Nat, NEW hi \in Int,
           \A i \in lo + 1 .. hi : s[i] = from + i - 1
    PROVE  /\ SubSeq(s, lo + 1, hi) \in Seq(Nat)
           /\ Len(SubSeq(s, lo + 1, hi)) = IF lo < hi THEN hi - lo ELSE 0
           /\ \A i \in 1 .. hi - lo :
                  SubSeq(s, lo + 1, hi)[i] = from + lo + i - 1
<1>1. \A i \in lo + 1 .. hi : s[i] \in Nat
  OBVIOUS
<1>2. /\ SubSeq(s, lo + 1, hi) \in Seq(Nat)
      /\ Len(SubSeq(s, lo + 1, hi))
             = IF lo + 1 <= hi THEN hi - (lo + 1) + 1 ELSE 0
      /\ \A i \in 1 .. hi - (lo + 1) + 1 :
             SubSeq(s, lo + 1, hi)[i] = s[lo + 1 + i - 1]
  <2>1. lo + 1 \in Int
    OBVIOUS
  <2> QED BY <1>1, <2>1, SubSeqProperties
<1>3. ASSUME NEW i \in 1 .. hi - lo
      PROVE  SubSeq(s, lo + 1, hi)[i] = from + lo + i - 1
  <2>1. i \in 1 .. hi - (lo + 1) + 1 /\ lo + i \in lo + 1 .. hi
        /\ lo + 1 + i - 1 = lo + i
    OBVIOUS
  <2>2. SubSeq(s, lo + 1, hi)[i] = s[lo + i]
    BY <1>2, <2>1
  <2>3. s[lo + i] = from + (lo + i) - 1
    BY <2>1
  <2> QED BY <2>2, <2>3
<1>4. Len(SubSeq(s, lo + 1, hi)) = IF lo < hi THEN hi - lo ELSE 0
  BY <1>2
<1> QED BY <1>2, <1>3, <1>4

LEMMA NextMultiple ==
    ASSUME NEW a \in Nat, NEW b \in Nat
    PROVE  (a + 1) * b = a * b + b
OBVIOUS

\* A sector of a block of the stored file is that sector of the file.
LEMMA StoredSectorOfFile ==
    ASSUME context \in Contexts, NEW b \in Nat, NEW i \in Sectors,
           SectorOffset(b, 0) < context.size,
           stored_file = [o \in 1 .. context.size |-> o - 1]
    PROVE  StoredSector(b, i) = FileSector(b, i)
<1> DEFINE s == context.sector_size
           size == context.size
           block == BlockSize
           at == b * block
           in == i * s
           upto == Least((b + 1) * block, size)
           left == upto - at
           hi == Least((i + 1) * s, left)
<1>1. /\ size \in Nat /\ s \in Nat \ {0} /\ i \in Nat /\ in \in Nat
      /\ context.num_sectors \in Nat \ {0}
      /\ i + 1 <= context.num_sectors
  <2>1. /\ size \in Nat /\ s \in Nat \ {0} /\ i \in Nat
        /\ context.num_sectors \in Nat \ {0}
        /\ i + 1 <= context.num_sectors
    BY ContextType
  <2> QED BY <2>1, ProductType
<1>2. block \in Nat /\ at \in Nat
  BY <1>1, ProductType DEF BlockSize
<1>3. at < size /\ SectorOffset(b, i) = at + in
  <2>1. SectorOffset(b, 0) = at
    BY <1>1, OffsetSteps
  <2>2. (b * context.num_sectors + i) * s = b * (s * context.num_sectors) + i * s
    BY <1>1
  <2> QED BY <2>1, <2>2 DEF SectorOffset, BlockSize
<1>4. (b + 1) * block = at + block /\ (i + 1) * s = in + s
  BY <1>1, <1>2, NextMultiple
<1>5. in + s <= block
  <2>1. (context.num_sectors - (i + 1)) * s \in Nat
    <3>1. context.num_sectors - (i + 1) \in Nat
      BY <1>1
    <3> QED BY <1>1, <3>1, ProductType
  <2>2. s * context.num_sectors = (i + 1) * s + (context.num_sectors - (i + 1)) * s
    BY <1>1
  <2>3. block = s * context.num_sectors
    BY DEF BlockSize
  <2>4. block = (in + s) + (context.num_sectors - (i + 1)) * s
    BY <1>4, <2>2, <2>3
  <2> HIDE DEF block, in, s
  <2> QED BY <1>1, <1>2, <2>1, <2>4
<1> HIDE DEF s, size, block, at, in
<1>6. /\ upto \in Nat /\ (at < upto \/ block = 0)
      /\ upto <= size
      /\ left \in Int /\ left = Least(block, size - at)
  BY <1>1, <1>2, <1>3, <1>4 DEF Least
<1>7. block # 0 /\ upto \in Nat /\ at < upto
  BY <1>1, <1>2, <1>5, <1>6, <1>3, <1>4 DEF Least
<1> HIDE DEF upto
<1>8. StoredBlock(b) = SubSeq(stored_file, at + 1, upto)
  <2>1. Len(stored_file) = size
    BY <1>1 DEF size
  <2> QED BY <2>1 DEF StoredBlock, at, upto, block, size
<1>9. /\ StoredBlock(b) \in Seq(Nat)
      /\ Len(StoredBlock(b)) = left
      /\ \A k \in 1 .. left : StoredBlock(b)[k] = at + k - 1
  <2>1. \A k \in at + 1 .. upto : stored_file[k] = 0 + k - 1
    <3>1. \A k \in at + 1 .. upto : k \in 1 .. size
      BY <1>1, <1>2, <1>6, <1>7
    <3> QED BY <3>1, <1>2, <1>7 DEF size
  <2>2. /\ SubSeq(stored_file, at + 1, upto) \in Seq(Nat)
        /\ Len(SubSeq(stored_file, at + 1, upto))
               = IF at < upto THEN upto - at ELSE 0
        /\ \A k \in 1 .. upto - at :
               SubSeq(stored_file, at + 1, upto)[k] = 0 + at + k - 1
    <3>1. upto \in Int /\ 0 \in Nat
      BY <1>7
    <3> QED BY <1>2, <2>1, <3>1, Slice
  <2>3. \A k \in 1 .. left : 0 + at + k - 1 = at + k - 1
    BY <1>2, <1>7
  <2> QED BY <1>7, <1>8, <2>2, <2>3
<1> HIDE DEF left
<1>10. StoredSector(b, i) = SubSeq(StoredBlock(b), in + 1, hi)
  BY <1>9 DEF StoredSector, in, s, hi
<1>11. hi \in Int /\ hi <= left /\ hi = Least(in + s, left)
  BY <1>1, <1>4, <1>6 DEF Least
<1> HIDE DEF hi
<1>12. /\ StoredSector(b, i) \in Seq(Nat)
       /\ Len(StoredSector(b, i)) = IF in < hi THEN hi - in ELSE 0
       /\ \A k \in 1 .. hi - in : StoredSector(b, i)[k] = at + in + k - 1
  <2>1. \A k \in in + 1 .. hi : StoredBlock(b)[k] = at + k - 1
    <3>1. \A k \in in + 1 .. hi : k \in 1 .. left
      BY <1>1, <1>6, <1>11
    <3> QED BY <1>9, <3>1
  <2> QED BY <1>1, <1>2, <1>10, <1>11, <2>1, Slice
<1> DEFINE n == Least(s, size - (at + in))
<1>13. n \in Int
       /\ (IF in < hi THEN hi - in ELSE 0) = (IF n > 0 THEN n ELSE 0)
  BY <1>1, <1>2, <1>3, <1>5, <1>6, <1>11 DEF Least
<1>14. FileSector(b, i) = [k \in 1 .. n |-> at + in + k - 1]
  BY <1>3 DEF FileSector, s, size
<1> HIDE DEF n
<1>15. /\ FileSector(b, i) \in Seq(Nat)
       /\ Len(FileSector(b, i)) = IF n > 0 THEN n ELSE 0
       /\ \A k \in 1 .. n : FileSector(b, i)[k] = at + in + k - 1
  <2>1. \A k \in 1 .. n : at + in + k - 1 \in Nat
    BY <1>1, <1>2, <1>13
  <2>2. CASE n > 0
    BY <1>13, <1>14, <2>1, <2>2
  <2>3. CASE ~(n > 0)
    <3>1. 1 .. n = 1 .. 0
      BY <1>13, <2>3
    <3>2. FileSector(b, i) = <<>>
      BY <1>14, <3>1
    <3> QED BY <1>13, <2>3, <3>1, <3>2
  <2> QED BY <2>2, <2>3
<1>16. Len(StoredSector(b, i)) = Len(FileSector(b, i))
  BY <1>12, <1>13, <1>15
<1>17. ASSUME NEW k \in 1 .. Len(StoredSector(b, i))
       PROVE  StoredSector(b, i)[k] = FileSector(b, i)[k]
  <2>1. k \in 1 .. hi - in /\ k \in 1 .. n
    BY <1>1, <1>11, <1>12, <1>13, <1>15, <1>16
  <2> QED BY <1>12, <1>15, <2>1
<1> QED BY <1>12, <1>15, <1>16, <1>17, SeqEqual

\* When the file's thread is done the object is the file, unless sectors,
\* buffers, blocks and the file end together.
LEMMA FileStored ==
    ASSUME UInv, returned, ~ExactFill
    PROVE  stored_file = [o \in 1 .. context.size |-> o - 1]
<1>1. /\ context \in Contexts /\ num_blocks_read \in Nat /\ start \in Nat
      /\ position \in 0 .. context.size /\ file_read \in BOOLEAN
  BY DEF UInv, IInv, TypeOK
<1>2. /\ context.size \in Nat /\ context.sector_size \in Nat \ {0}
      /\ context.num_sectors \in Nat \ {0} /\ BufferSize \in Nat \ {0}
  BY <1>1, ContextType
<1>3. BlockSize \in Nat \ {0}
  BY <1>2 DEF BlockSize
<1>4. Storing("file", "done") /\ Done
  <2>1. "file" \in Threads
    BY DEF Threads
  <2>2. Storing("file", "done")
    BY <2>1 DEF UInv, ThreadsInv
  <2>3. ~Tagging
    BY <2>1, <2>2, Stages DEF UInv, Storing
  <2> QED BY <2>2, <2>3, Stages DEF UInv
<1>5. position = context.size
  BY <1>4 DEF UInv, FileInv
<1>6. CASE file_read
  BY <1>5, <1>6 DEF UInv, FileInv
<1>7. CASE ~file_read
  <2>1. start = end /\ context.size = num_blocks_read * BlockSize
    BY <1>4, <1>7 DEF UInv, DoneInv
  <2>2. stored_file = <<>>
    BY <1>7 DEF UInv, FileInv
  <2>3. CASE position = 0
    <3>1. [o \in 1 .. 0 |-> o - 1] = <<>>
      OBVIOUS
    <3> QED BY <1>5, <2>2, <2>3, <3>1
  <2>4. CASE position # 0
    <3>1. PICK m \in Nat : end = BufferSize /\ start = m * context.sector_size
      BY <1>7, <2>4 DEF UInv, FillInv
    <3>2. BufferSize % context.sector_size = 0
      BY <1>2, <2>1, <3>1, MultipleIsZero
    <3>3. PICK f \in Nat : position = f * BufferSize
      BY <1>7, <2>4, <3>2 DEF UInv, FillInv
    <3>4. context.size % BufferSize = 0
      BY <1>2, <1>5, <3>3, MultipleIsZero
    <3>5. context.size % BlockSize = 0
      BY <1>1, <1>3, <2>1, MultipleIsZero
    <3> QED BY <3>2, <3>4, <3>5 DEF ExactFill
  <2> QED BY <2>3, <2>4
<1> QED BY <1>1, <1>6, <1>7

\* When Upload() has returned everything has been copied, nothing is buffered and
\* every block has been tagged.
LEMMA AllCopied ==
    ASSUME UInv, returned
    PROVE  /\ ServerP!IInv /\ closed
           /\ Len(pending) = 0
           /\ ~tag_file_bad => copied = file_end
           /\ Storing("file tag", "done")
           /\ stored_file_tag = block_tag_map
           /\ num_blocks_read = ServerP!NumTags
           /\ NumBlocks \in Nat /\ NumBlocks = num_blocks_read
<1>1. "file" \in Threads /\ "file tag" \in Threads
  BY DEF Threads
<1>2. Storing("file", "done") /\ Storing("file tag", "done")
  BY <1>1 DEF UInv, ThreadsInv
<1>3. closed /\ Done
  <2>1. ~Tagging
    BY <1>1, <1>2, Stages DEF UInv, Storing
  <2> QED BY <2>1, Stages DEF UInv
<1>4. ServerP!IInv /\ stored_file_tag = block_tag_map /\ Len(stored_tags) = copied
  BY <1>2 DEF UInv, TagsInv
<1>5. num_blocks_read = ServerP!NumTags
  BY <1>4 DEF UInv, TagsInv, Serializer!NumTags, ServerP!NumTags
<1>6. pending = <<>>
  BY <1>3, <1>4 DEF ServerP!IInv, ServerP!AccountExact
<1>7. Len(pending) = 0
  BY <1>6
<1>8. copied \in Nat /\ file_end \in Nat
  <2>1. Serializer!TypeOK /\ copied \in 0 .. file_end
    BY DEF UInv, TagsInv
  <2> QED BY <2>1, Lengths
<1>9. ~tag_file_bad => copied = file_end
  <2>1. ~tag_file_bad => file_end = Len(stored_tags) + Len(pending)
    BY <1>4 DEF ServerP!IInv, ServerP!AccountExact
  <2> QED BY <1>4, <1>7, <1>8, <2>1
<1>10. NumBlocks \in Nat /\ num_blocks_read \in Nat
  <2>1. context \in Contexts /\ num_blocks_read \in Nat
    BY DEF UInv, IInv, TypeOK
  <2>2. context.size \in Nat /\ BlockSize \in Nat \ {0}
    BY <2>1, ContextType DEF BlockSize
  <2> QED BY <2>1, <2>2 DEF NumBlocks
<1>11. NumBlocks = num_blocks_read
  BY <1>3, <1>10 DEF Done, HasNext, UInv, IInv, NoTagTooMany
<1> QED BY <1>2, <1>3, <1>4, <1>5, <1>7, <1>9, <1>10, <1>11

LEMMA TwiceProduct ==
    ASSUME NEW a \in Nat, NEW c \in Nat
    PROVE  2 * a * c = 2 * (a * c)
OBVIOUS

\* A whole, at least, is a hundred per cent.
LEMMA FullBar ==
    ASSUME NEW count \in Nat, NEW total \in Nat \ {0}, count >= total
    PROVE  Least(100, (count * 100) \div total) = 100
<1>1. count * 100 = total * 100 + (count - total) * 100
  OBVIOUS
<1>2. (count - total) * 100 \in Nat /\ total * 100 \in Nat /\ count * 100 \in Nat
  OBVIOUS
<1> DEFINE q == (count * 100) \div total
           r == (count * 100) % total
<1>3. q \in Nat /\ r \in 0 .. total - 1 /\ count * 100 = total * q + r
  BY <1>2
<1> HIDE DEF q, r
<1>4. q >= 100
  <2> SUFFICES ASSUME q < 100 PROVE FALSE
    BY <1>3
  <2>1. total * 100 = total * q + total + total * (99 - q)
    BY <1>3
  <2>2. total * (99 - q) \in Nat
    <3>1. 99 - q \in Nat
      BY <1>3
    <3> QED BY <3>1, ProductType
  <2>3. total * q \in Nat
    BY <1>3, ProductType
  <2> QED BY <1>1, <1>2, <1>3, <2>1, <2>2, <2>3
<1> QED BY <1>3, <1>4 DEF Least, q

-----------------------------------------------------------------------------
(* The theorems of the upload.                                             *)

\* The strengthening holds of every state of an upload.
THEOREM UploadInductive == UploadSpec => []UInv
BY InitUInv, UploadNextUInv, PTL DEF UploadSpec

\* The tagger's window on the file holds while its stream is shared with the
\* thread that stores the file.
THEOREM UploadWindow == UploadSpec => []BufferIsWindow
<1>1. UInv => BufferIsWindow
  BY DEF UInv, IInv
<1> QED BY <1>1, UploadInductive, PTL

\* Every tag of an upload is computed over the bytes of its block.
THEOREM UploadTags == UploadSpec => []TagsMatchFile
<1>1. UInv => TagsMatchFile
  BY DEF UInv, IInv
<1> QED BY <1>1, UploadInductive, PTL

\* The state of an upload keeps its types: no more is copied of the tags than
\* were added, and the bar's value is a number.
THEOREM UploadTypeCorrect == UploadSpec => []UploadTypeOK
<1>1. UInv => UploadTypeOK
  <2> SUFFICES ASSUME UInv PROVE UploadTypeOK
    OBVIOUS
  <2>1. TypeOK /\ Serializer!TypeOK
    BY DEF UInv, IInv, TagsInv
  <2>2. /\ storing \in [Threads -> {"not started", "open", "copy", "done"}]
        /\ returned \in BOOLEAN
    BY DEF UInv, ThreadsInv
  <2>3. copied \in 0 .. file_end /\ Len(stored_tags) = copied
    BY DEF UInv, TagsInv
  <2>4. file_end \in Nat /\ Len(pending) \in Nat /\ copied \in Nat
    BY <2>1, <2>3, Lengths
  <2>5. stored_file \in Seq(0 .. context.size) /\ Len(stored_file) \in Nat
    BY StoredFileLength DEF UInv
  <2>6. Len(pending) <= file_end
    <3>1. CASE returned
      <4>1. Len(pending) = 0
        BY <3>1, AllCopied
      <4> QED BY <2>4, <4>1
    <3>2. CASE ~returned
      <4>1. Len(tag_file) + Len(pending) <= file_end
        BY <3>2 DEF UInv, TagsInv, SerializerP!IInv, SerializerP!AccountExact
      <4>2. Len(tag_file) \in Nat
        BY <2>1, Lengths
      <4> QED BY <2>4, <4>1, <4>2
    <3> QED BY <3>1, <3>2
  <2>7. current_value \in Nat
    <3>1. FileTagCount \in Nat
      BY <2>1, FileTagCountType
    <3>2. current_value = (file_end - Len(pending)) + copied + Len(stored_file)
                              + FileTagCount
      BY DEF UInv, CountInv
    <3> QED BY <2>4, <2>5, <2>6, <3>1, <3>2
  <2>8. Len(stored_tags) <= file_end
    BY <2>3, <2>4
  <2> QED BY <2>1, <2>2, <2>3, <2>5, <2>7, <2>8 DEF UploadTypeOK
<1> QED BY <1>1, UploadInductive, PTL

\* The stored object is the whole file, for every size of the file, the sectors,
\* the blocks and the buffer that do not all end together.
THEOREM FileIsStored == UploadSpec => []StoredUnlessExactFill
<1>1. UInv => StoredUnlessExactFill
  BY FileStored DEF StoredUnlessExactFill, StoredFileComplete
<1> QED BY <1>1, UploadInductive, PTL

\* What a server finds in the stored objects for a block is the block's tag, every
\* byte of it, and the bytes that tag was computed over.
THEOREM BlocksMatchTags == UploadSpec => []StoredBlocksMatchTags
<1>1. UInv => StoredBlocksMatchTags
  <2> SUFFICES ASSUME UInv, returned, ~tag_file_bad, ~ExactFill,
                      NEW b \in 0 .. NumBlocks - 1
               PROVE  LET at == Server!FindBlockTag(b)
                      IN  /\ at.from < at.upto
                          /\ StoredTag(b)
                                 = Server!TagBytes(b, at.upto - at.from)
                          /\ b = NumBlocks - 1 => at.upto = Len(stored_tags)
                          /\ \A i \in Sectors :
                                 tags[b + 1].sigma[i] = StoredSector(b, i)
    BY DEF StoredBlocksMatchTags
  <2>1. /\ ServerP!IInv /\ closed
        /\ num_blocks_read = ServerP!NumTags
        /\ NumBlocks \in Nat /\ NumBlocks = num_blocks_read
    BY AllCopied
  <2>2. context \in Contexts /\ num_blocks_read \in Nat
    BY DEF UInv, IInv, TypeOK
  <2>3. b \in Nat /\ b < NumBlocks /\ b \in 0 .. ServerP!NumTags - 1
        /\ b + 1 \in 1 .. num_blocks_read
    BY <2>1, <2>2
  <2> DEFINE at == Server!FindBlockTag(b)
  <2>4. at = ServerP!FindBlockTag(b)
    BY DEF Server!FindBlockTag, Server!EntriesOf, Server!NumTags,
           Server!TagStart, Server!TagEnd, ServerP!FindBlockTag,
           ServerP!EntriesOf, ServerP!NumTags, ServerP!TagStart, ServerP!TagEnd
  <2>5. /\ at.from \in Nat /\ at.upto \in Nat
        /\ at.from < at.upto
        /\ at.upto <= Len(stored_tags)
        /\ b = ServerP!NumTags - 1 => at.upto = Len(stored_tags)
        /\ SubSeq(stored_tags, at.from + 1, at.upto)
               = ServerP!TagBytes(b, at.upto - at.from)
    BY <2>1, <2>3, <2>4, SerializerAssumption, ServerP!FoundTag
  <2>6. b = NumBlocks - 1 => at.upto = Len(stored_tags)
    BY <2>1, <2>5
  <2>7. StoredTag(b) = Server!TagBytes(b, at.upto - at.from)
    <3>1. StoredTag(b) = SubSeq(stored_tags, at.from + 1,
                                Least(at.upto, Len(stored_tags)))
      BY DEF StoredTag
    <3> HIDE DEF at
    <3>2. Least(at.upto, Len(stored_tags)) = at.upto
      BY <2>5 DEF Least
    <3> QED BY <2>5, <3>1, <3>2 DEF ServerP!TagBytes, Server!TagBytes
  <2>8. ASSUME NEW i \in Sectors
        PROVE  tags[b + 1].sigma[i] = StoredSector(b, i)
    <3>1. Len(tags) = num_blocks_read
          /\ \A k \in 1 .. Len(tags) :
                 tags[k] = [index |-> k - 1, sigma |-> FileBlock(k - 1)]
      BY DEF UInv, IInv, TagsMatchFile
    <3>2. tags[b + 1] = [index |-> b, sigma |-> FileBlock(b)]
      BY <2>3, <3>1
    <3>3. tags[b + 1].sigma[i] = FileSector(b, i)
      BY <3>2 DEF FileBlock
    <3>4. SectorOffset(b, 0) < context.size
      BY <2>2, <2>3, HasNextIff
    <3>5. stored_file = [o \in 1 .. context.size |-> o - 1]
      BY FileStored
    <3> QED BY <2>2, <2>3, <3>3, <3>4, <3>5, StoredSectorOfFile
  <2> QED BY <2>5, <2>6, <2>7, <2>8
<1> QED BY <1>1, UploadInductive, PTL

\* The bar is full when Upload() returns.
THEOREM BarIsFull == UploadSpec => []BarFullWhenReturned
<1>1. UInv => BarFullWhenReturned
  <2> SUFFICES ASSUME UInv, returned, ~tag_file_bad, ~ExactFill,
                      file_end >= NumBlocks * context.sector_size
               PROVE  Percentage = 100
    BY DEF BarFullWhenReturned
  <2> DEFINE b == NumBlocks * context.sector_size
  <2>1. /\ Len(pending) = 0 /\ copied = file_end
        /\ Storing("file tag", "done") /\ NumBlocks \in Nat
    BY AllCopied
  <2>2. context \in Contexts /\ Serializer!TypeOK /\ copied \in 0 .. file_end
    BY DEF UInv, IInv, TypeOK, TagsInv
  <2>3. context.size \in Nat /\ context.sector_size \in Nat
    BY <2>2, ContextType
  <2>4. file_end \in Nat /\ EntrySize * Serializer!NumTags \in Nat
    BY <2>2, Lengths, ProductType, FileTagAssumption
  <2>5. b \in Nat
    BY <2>1, <2>3, ProductType
  <2>6. Len(stored_file) = context.size
    <3>1. stored_file = [o \in 1 .. context.size |-> o - 1]
      BY FileStored
    <3> QED BY <2>3, <3>1
  <2>7. current_value = (file_end - Len(pending)) + copied + Len(stored_file)
                            + (FileTagSize + EntrySize * Serializer!NumTags)
    BY <2>1 DEF UInv, CountInv, FileTagCount
  <2>8. TotalSize = context.size + FileTagSize + 2 * b
    <3>1. 2 * NumBlocks * context.sector_size = 2 * b
      BY <2>1, <2>3, TwiceProduct
    <3> QED BY <3>1 DEF TotalSize
  <2> DEFINE entries == EntrySize * Serializer!NumTags
  <2> HIDE DEF b, entries
  <2>9. file_end >= b
    BY DEF b
  <2>10. /\ current_value \in Nat /\ TotalSize \in Nat \ {0}
         /\ current_value >= TotalSize
    <3>1. entries \in Nat
      BY <2>4 DEF entries
    <3>2. current_value = (file_end - 0) + file_end + context.size
                              + (FileTagSize + entries)
      BY <2>1, <2>6, <2>7 DEF entries
    <3> QED BY <2>3, <2>4, <2>5, <2>8, <2>9, <3>1, <3>2, FileTagAssumption
  <2> QED BY <2>10, FullBar DEF Percentage
<1> QED BY <1>1, UploadInductive, PTL

=============================================================================
