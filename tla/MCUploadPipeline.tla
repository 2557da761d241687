-------------------------- MODULE MCUploadPipeline --------------------------
(***************************************************************************)
(* A buffer of four bytes, chunks of three.  The sector sizes divide the   *)
(* buffer, do not divide it, equal it and exceed it, which are the cases   *)
(* the code's 4000 bytes meet; the files end before, at and after the ends *)
(* of sectors, blocks and the first three buffers.  EvenSectors divide the *)
(* buffer; the 96 bytes the application uses do not divide 4000.           *)
(***************************************************************************)
EXTENDS UploadPipeline

MCFileSizes == {0, 1, 3, 4, 6, 8, 9, 10, 12, 13}
MCSectorSizes == 2 .. 5
EvenSectors == {2}
MCSectorCounts == 1 .. 3
MCBufferFloor == 4
MCTagSizes == {2, 3}
MCFlushLimit == 4
MCMaxTags == 7
MCChunkSize == 3
MCFileTagSize == 5
MCEntrySize == 1

=============================================================================
