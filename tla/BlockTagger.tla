---------------------------- MODULE BlockTagger ----------------------------
(***************************************************************************)
(* client/upload/block_tagger: the loop that reads a file through a buffer *)
(* and produces one BlockTag per block.  A byte of the file is modelled by *)
(* its offset, so what a tag is computed over is which bytes entered which *)
(* sector of its sum; the prime-field arithmetic on them is the subject of *)
(* another module.  The file is a std::istream shared with the code that   *)
(* uploads it later, which is why the position of its read pointer is part *)
(* of the state.                                                           *)
(***************************************************************************)
EXTENDS Integers, Sequences

CONSTANTS
    FileSizes,      \* sizes of the files that may be tagged, in bytes
    SectorSizes,    \* values of TaggingParameters::sector_size, in bytes
    SectorCounts,   \* values of TaggingParameters::num_sectors
    BufferFloor     \* the least size of the read buffer, 4000 in the code

ASSUME FileSizesAssumption == FileSizes \subseteq Nat
ASSUME SectorSizesAssumption == SectorSizes \subseteq Nat \ {0}
ASSUME SectorCountsAssumption == SectorCounts \subseteq Nat \ {0}
ASSUME BufferFloorAssumption == BufferFloor \in Nat \ {0}

VARIABLES
    context,          \* the FileContext: file size and tagging parameters
    position,         \* read pointer of the file's stream
    buffer,           \* file offset of the byte in each cell of the buffer
    start, end,       \* the unread bytes are buffer[start .. end - 1]
    num_blocks_read,
    file_read,        \* a fill met the end of the file
    sector,           \* loop index of the GetNext() running, or Idle
    sigma,            \* the bytes summed into each sector of the running tag
    tags              \* the BlockTags returned so far

vars == <<context, position, buffer, start, end, num_blocks_read, file_read,
          sector, sigma, tags>>

Idle == -1      \* no GetNext() is running
NoByte == -1    \* content of a buffer cell that no read has reached

Least(a, b) == IF a <= b THEN a ELSE b
Greatest(a, b) == IF a >= b THEN a ELSE b

-----------------------------------------------------------------------------
(* What the FileContext fixes for the whole upload.                        *)

Contexts == [size : FileSizes, sector_size : SectorSizes,
             num_sectors : SectorCounts]

BlockSize == context.sector_size * context.num_sectors

NumBlocks == (context.size \div BlockSize)
                + (IF context.size % BlockSize # 0 THEN 1 ELSE 0)

BufferSize == Greatest(context.sector_size, BufferFloor)

Sectors == 0 .. context.num_sectors - 1

HasNext == num_blocks_read < NumBlocks

-----------------------------------------------------------------------------
(* The contents of the buffer after FillBuffer().                          *)

BytesLeft == end - start

\* stream->gcount() after a read that asks for the rest of the buffer
BytesGot == Least(BufferSize - BytesLeft, context.size - position)

\* A fault: the read begins at the front of the buffer, over the unread bytes.
FilledBufferFromFront ==
    [k \in DOMAIN buffer |-> IF k < BytesGot THEN position + k ELSE buffer[k]]

FilledBuffer ==
    [k \in DOMAIN buffer |->
        IF k < BytesLeft THEN buffer[start + k]
        ELSE IF k < BytesLeft + BytesGot THEN position + (k - BytesLeft)
        ELSE buffer[k]]

\* The bytes BN_bin2bn reads: one sector, or what is left of the file.
SectorBytes(cells, from, upto) ==
    [k \in 1 .. Least(context.sector_size, upto - from) |-> cells[from + k - 1]]

NothingSummed == [i \in Sectors |-> <<>>]

\* A fault: the buffer is filled again only when it is empty.
MustFillWhenEmpty == start >= end /\ ~file_read

MustFill == start + context.sector_size > end /\ ~file_read
MustBreak == file_read /\ start >= end

-----------------------------------------------------------------------------
Init ==
    /\ context \in Contexts
    /\ position = 0
    /\ buffer = [k \in 0 .. BufferSize - 1 |-> NoByte]
    /\ start = 0
    /\ end = 0
    /\ num_blocks_read = 0
    /\ file_read = FALSE
    /\ sector = Idle
    /\ sigma = NothingSummed
    /\ tags = <<>>

\* The caller's loop sees HasNext() and calls GetNext().
BeginTag ==
    /\ sector = Idle
    /\ HasNext
    /\ sector' = 0
    /\ sigma' = NothingSummed
    /\ UNCHANGED <<context, position, buffer, start, end, num_blocks_read,
                   file_read, tags>>

\* A sector that is in the buffer, or the end of the file has been read.
SumBufferedSector ==
    /\ sector \in Sectors
    /\ ~MustBreak
    /\ ~MustFill
    /\ sigma' = [sigma EXCEPT ![sector] = SectorBytes(buffer, start, end)]
    /\ start' = start + context.sector_size
    /\ sector' = sector + 1
    /\ UNCHANGED <<context, position, buffer, end, num_blocks_read, file_read,
                   tags>>

\* A fault: the stream is not rewound at the end of the file.
FillWithoutRewind ==
    /\ sector \in Sectors
    /\ MustFill
    /\ buffer' = FilledBuffer
    /\ end' = BytesLeft + BytesGot
    /\ file_read' = (end' # BufferSize)
    /\ position' = position + BytesGot
    /\ sigma' = [sigma EXCEPT ![sector] = SectorBytes(buffer', 0, end')]
    /\ start' = context.sector_size
    /\ sector' = sector + 1
    /\ UNCHANGED <<context, num_blocks_read, tags>>

\* A sector that is not: FillBuffer() runs first.  Only a fill that leaves the
\* buffer short notices the end of the file, and only it rewinds the stream.
FillAndSumSector ==
    /\ sector \in Sectors
    /\ MustFill
    /\ buffer' = FilledBuffer
    /\ end' = BytesLeft + BytesGot
    /\ file_read' = (end' # BufferSize)
    /\ position' = IF file_read' THEN 0 ELSE position + BytesGot
    /\ sigma' = [sigma EXCEPT ![sector] = SectorBytes(buffer', 0, end')]
    /\ start' = context.sector_size
    /\ sector' = sector + 1
    /\ UNCHANGED <<context, num_blocks_read, tags>>

\* A fault: the loop does not break at the end of the file, so a partial last
\* block never ends.
EndFullTag ==
    /\ sector = context.num_sectors
    /\ tags' = Append(tags, [index |-> num_blocks_read, sigma |-> sigma])
    /\ num_blocks_read' = num_blocks_read + 1
    /\ sector' = Idle
    /\ UNCHANGED <<context, position, buffer, start, end, file_read, sigma>>

\* The loop over the sectors ends, by its bound or by its break.
EndTag ==
    /\ sector # Idle
    /\ sector = context.num_sectors \/ MustBreak
    /\ tags' = Append(tags, [index |-> num_blocks_read, sigma |-> sigma])
    /\ num_blocks_read' = num_blocks_read + 1
    /\ sector' = Idle
    /\ UNCHANGED <<context, position, buffer, start, end, file_read, sigma>>

Next == BeginTag \/ SumBufferedSector \/ FillAndSumSector \/ EndTag

Spec == Init /\ [][Next]_vars

-----------------------------------------------------------------------------
Done == sector = Idle /\ ~HasNext

\* Offset of the file just behind the bytes in the buffer.  It is the stream's
\* position until the stream is rewound.
ReadUpTo == IF file_read THEN context.size ELSE position

\* The offsets of the bytes of sector i of block b, by the layout of a file.
SectorOffset(b, i) == (b * context.num_sectors + i) * context.sector_size
FileSector(b, i) ==
    [k \in 1 .. Least(context.sector_size, context.size - SectorOffset(b, i))
        |-> SectorOffset(b, i) + k - 1]
FileBlock(b) == [i \in Sectors |-> FileSector(b, i)]

\* The variables have their types: the buffer keeps its size and holds offsets
\* of the file, the indices stay inside what the code allocates.
TypeOK ==
    /\ context \in Contexts
    /\ position \in 0 .. context.size
    /\ buffer \in [0 .. BufferSize - 1 -> Nat \cup {NoByte}]
    /\ start \in Nat
    /\ end \in 0 .. BufferSize
    /\ num_blocks_read \in Nat
    /\ file_read \in BOOLEAN
    /\ sector \in Sectors \cup {Idle, context.num_sectors}
    /\ sigma \in [Sectors -> Seq(Nat \cup {NoByte})]
    /\ tags \in Seq([index : Nat, sigma : [Sectors -> Seq(Nat \cup {NoByte})]])

\* FillBuffer() copies leftovers to the front, overwrites what is behind them
\* and may have left stale bytes further on: whatever it does, the unread part
\* of the buffer is the stretch of the file that the next sectors cover, and
\* before the end of the file start_ never passes end_ (end_ - start_ is
\* unsigned).
BufferIsWindow ==
    /\ ~file_read => start <= end
    /\ end <= ReadUpTo
    /\ \A k \in start .. end - 1 : buffer[k] = ReadUpTo - end + k

\* Every tag returned carries the index of its block and has been computed over
\* exactly the bytes of that block, each in the sector it has in the file,
\* wherever the fills of the buffer fell.
TagsMatchFile ==
    /\ Len(tags) = num_blocks_read
    /\ \A n \in 1 .. Len(tags) :
           tags[n] = [index |-> n - 1, sigma |-> FileBlock(n - 1)]

=============================================================================
