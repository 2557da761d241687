--------------------------- MODULE UploadPipeline ---------------------------
(***************************************************************************)
(* client/upload/client: Client::Upload() from the opened stream of the    *)
(* compressed file to its return.  One thread tags the file and serializes *)
(* the tags; then three threads store the block tags, the file tag and the *)
(* file, each through Storage and the local disk's FileStorage; they are   *)
(* joined and the temporary files are removed.                             *)
(*                                                                         *)
(* The module composes BlockTagger, whose stream is the one the third      *)
(* thread stores, with BlockTagSerializer, whose file is the one the first *)
(* thread stores.  A byte of the stored file is its offset in the file     *)
(* that was to be stored.  What a storage failure does to an upload is the *)
(* subject of AuditedStore.                                                *)
(***************************************************************************)
EXTENDS BlockTagger

CONSTANTS
    TagSizes, FlushLimit, MaxTags,      \* of BlockTagSerializer
    ChunkSize,      \* bytes FileStorage copies at a time, 10,000 in the code
    FileTagSize,    \* bytes of a FileTag without its map
    EntrySize       \* bytes an entry of the map adds to it

ASSUME SerializerAssumption ==
    TagSizes \subseteq Nat \ {0} /\ FlushLimit \in Nat /\ MaxTags \in Nat
ASSUME ChunkSizeAssumption == ChunkSize \in Nat \ {0}
ASSUME FileTagAssumption == FileTagSize \in Nat \ {0} /\ EntrySize \in Nat

VARIABLES
    tag_file, tag_file_bad,             \* the serializer's file and ofstream
    pending, buffer_size, file_end, block_tag_map, closed,
    storing,        \* what each of the three threads is about to do
    copied,         \* bytes of tag_file that its thread has read
    stored_file, stored_tags, stored_file_tag,
    returned,       \* Upload() has returned
    current_value   \* of the ProgressBar

serializer_vars ==
    <<tag_file, tag_file_bad, pending, buffer_size, file_end, block_tag_map,
      closed>>
storage_vars ==
    <<storing, copied, stored_file, stored_tags, stored_file_tag, returned>>
upload_vars == <<vars, serializer_vars, storage_vars, current_value>>

Serializer ==
    INSTANCE BlockTagSerializer WITH out_file <- tag_file, bad <- tag_file_bad,
                                     tags <- pending

Threads == {"block tags", "file tag", "file"}

\* The FileTag as far as this model tells it apart: the map it carries.
NoFileTag == [index |-> <<>>, end |-> <<>>, max_size |-> 0]

Storing(thread, step) == storing[thread] = step
Advance(thread, step) == storing' = [storing EXCEPT ![thread] = step]

-----------------------------------------------------------------------------
(* The ProgressBar: tags count when they are flushed and again when they   *)
(* are stored.  Its mutex makes a call of Progress() one step.             *)

TotalSize ==
    context.size + FileTagSize + 2 * NumBlocks * context.sector_size

Progress(bytes) == current_value' = current_value + bytes

Percentage == Least(100, (current_value * 100) \div TotalSize)

-----------------------------------------------------------------------------
UploadInit ==
    /\ Init
    /\ Serializer!Init
    /\ storing = [t \in Threads |-> "not started"]
    /\ copied = 0
    /\ stored_file = <<>>
    /\ stored_tags = <<>>
    /\ stored_file_tag = NoFileTag
    /\ returned = FALSE
    /\ current_value = 0

\* A step of GetNext() that is not its return.
Tag ==
    /\ BeginTag \/ SumBufferedSector \/ FillAndSumSector
    /\ UNCHANGED <<serializer_vars, storage_vars, current_value>>

\* GetNext() returns a tag, which is added before the next one is asked for.
AddTag ==
    /\ EndTag
    /\ \E size \in TagSizes :
           /\ Serializer!Add(num_blocks_read, size)
           /\ Progress(IF Serializer!MustFlush(size) THEN Len(pending) ELSE 0)
    /\ UNCHANGED storage_vars

\* After the loop: serializer.Done(), and the three threads start.
StartThreads ==
    /\ Done
    /\ storing = [t \in Threads |-> "not started"]
    /\ Serializer!Done
    /\ Progress(Len(pending))
    /\ storing' = [t \in Threads |-> "open"]
    /\ UNCHANGED <<vars, copied, stored_file, stored_tags, stored_file_tag,
                   returned>>

-----------------------------------------------------------------------------
(* FileStorage::StoreFile() in each of the threads: opening the object     *)
(* truncates it, then chunks are read and appended until a read gets none. *)

FileChunk == Least(ChunkSize, context.size - position)
TagChunk == Least(ChunkSize, Len(tag_file) - copied)

OpenObjects ==
    \E t \in Threads :
        /\ Storing(t, "open")
        /\ Advance(t, "copy")
        /\ UNCHANGED <<vars, serializer_vars, copied, stored_file, stored_tags,
                       stored_file_tag, returned, current_value>>

\* t3: the stream is read from wherever the tagger left it.
StoreFileChunk ==
    /\ Storing("file", "copy")
    /\ FileChunk > 0
    /\ stored_file' = stored_file \o [k \in 1 .. FileChunk |-> position + k - 1]
    /\ position' = position + FileChunk
    /\ Progress(FileChunk)
    /\ UNCHANGED <<context, buffer, start, end, num_blocks_read, file_read,
                   sector, sigma, tags, serializer_vars, storing, copied,
                   stored_tags, stored_file_tag, returned>>

StoreFileEnd ==
    /\ Storing("file", "copy")
    /\ FileChunk = 0
    /\ Advance("file", "done")
    /\ UNCHANGED <<vars, serializer_vars, copied, stored_file, stored_tags,
                   stored_file_tag, returned, current_value>>

\* A fault: a chunk counts in full, however much of it was read.
StoreFullTagChunk ==
    /\ Storing("block tags", "copy")
    /\ TagChunk > 0
    /\ stored_tags' = stored_tags \o SubSeq(tag_file, copied + 1, copied + TagChunk)
    /\ copied' = copied + ChunkSize
    /\ Progress(ChunkSize)
    /\ UNCHANGED <<vars, serializer_vars, storing, stored_file,
                   stored_file_tag, returned>>

\* A fault: the listener is not told of the block tags.
StoreTagChunkSilently ==
    /\ Storing("block tags", "copy")
    /\ TagChunk > 0
    /\ stored_tags' = stored_tags \o SubSeq(tag_file, copied + 1, copied + TagChunk)
    /\ copied' = copied + TagChunk
    /\ UNCHANGED <<vars, serializer_vars, storing, stored_file,
                   stored_file_tag, returned, current_value>>

\* t1: the serializer's file is opened anew and copied.
StoreTagChunk ==
    /\ Storing("block tags", "copy")
    /\ TagChunk > 0
    /\ stored_tags' = stored_tags \o SubSeq(tag_file, copied + 1, copied + TagChunk)
    /\ copied' = copied + TagChunk
    /\ Progress(TagChunk)
    /\ UNCHANGED <<vars, serializer_vars, storing, stored_file,
                   stored_file_tag, returned>>

\* A fault: a chunk that is not full is taken for the end of the file.
StoreTagsEndEarly ==
    /\ Storing("block tags", "copy")
    /\ TagChunk < ChunkSize
    /\ Advance("block tags", "done")
    /\ UNCHANGED <<vars, serializer_vars, copied, stored_file, stored_tags,
                   stored_file_tag, returned, current_value>>

StoreTagsEnd ==
    /\ Storing("block tags", "copy")
    /\ TagChunk = 0
    /\ Advance("block tags", "done")
    /\ UNCHANGED <<vars, serializer_vars, copied, stored_file, stored_tags,
                   stored_file_tag, returned, current_value>>

\* t2: the FileTag with the map Done() returned, encrypted.
StoreFileTag ==
    /\ Storing("file tag", "copy")
    /\ stored_file_tag' = block_tag_map
    /\ Progress(FileTagSize + EntrySize * Serializer!NumTags)
    /\ Advance("file tag", "done")
    /\ UNCHANGED <<vars, serializer_vars, copied, stored_file, stored_tags,
                   returned>>

\* The joins, and the destructor that removes the serializer's file.
Return ==
    /\ ~returned
    /\ \A t \in Threads : Storing(t, "done")
    /\ returned' = TRUE
    /\ tag_file' = <<>>
    /\ UNCHANGED <<vars, tag_file_bad, pending, buffer_size, file_end,
                   block_tag_map, closed, storing, copied, stored_file,
                   stored_tags, stored_file_tag, current_value>>

UploadNext ==
    \/ Tag \/ AddTag \/ StartThreads
    \/ OpenObjects \/ StoreFileChunk \/ StoreFileEnd
    \/ StoreTagChunk \/ StoreTagsEnd \/ StoreFileTag
    \/ Return

\* Each thread runs until its function returns; none waits for another, and the
\* joining thread waits for all.
Fairness ==
    /\ WF_upload_vars(Tag \/ AddTag \/ StartThreads \/ Return)
    /\ WF_upload_vars(OpenObjects)
    /\ WF_upload_vars(StoreFileChunk \/ StoreFileEnd)
    /\ WF_upload_vars(StoreTagChunk \/ StoreTagsEnd)
    /\ WF_upload_vars(StoreFileTag)

UploadSpec == UploadInit /\ [][UploadNext]_upload_vars /\ Fairness

-----------------------------------------------------------------------------
\* The variables have their types, those of the parts included.
UploadTypeOK ==
    /\ TypeOK
    /\ Serializer!TypeOK
    /\ storing \in [Threads -> {"not started", "open", "copy", "done"}]
    /\ copied \in 0 .. file_end
    /\ stored_file \in Seq(0 .. context.size)
    /\ Len(stored_tags) <= file_end
    /\ returned \in BOOLEAN
    /\ current_value \in Nat

\* Storage::StoreFile() "Stores the given file": when Upload() returns the
\* stored object is the file, every byte of it.
StoredFileComplete ==
    returned => stored_file = [o \in 1 .. context.size |-> o - 1]

\* A sector, the buffer, a block and the file all end at one place.
ExactFill ==
    /\ BufferSize % context.sector_size = 0
    /\ context.size % BufferSize = 0
    /\ context.size % BlockSize = 0

\* The thread that stores the file reads on from where the tagger has left the
\* stream: the object is complete wherever sectors, buffers, blocks and the file
\* end, unless they all end together.
StoredUnlessExactFill == ExactFill \/ StoredFileComplete

\* The map of the stored FileTag, read by a server.
Server ==
    INSTANCE BlockTagSerializer WITH out_file <- stored_tags,
                                     bad <- tag_file_bad, tags <- pending,
                                     block_tag_map <- stored_file_tag

\* What a Fetcher returns for a block of the stored file, cut into sectors.
StoredBlock(b) ==
    SubSeq(stored_file, b * BlockSize + 1,
           Least((b + 1) * BlockSize, Len(stored_file)))
StoredSector(b, i) ==
    SubSeq(StoredBlock(b), i * context.sector_size + 1,
           Least((i + 1) * context.sector_size, Len(StoredBlock(b))))

\* What a Fetcher returns for a tag of the stored tags.
StoredTag(b) ==
    LET at == Server!FindBlockTag(b)
    IN  SubSeq(stored_tags, at.from + 1, Least(at.upto, Len(stored_tags)))

\* What an upload is for: once it has returned, a server that looks block b up
\* in the three stored objects finds the tag of block b, every byte of it, and
\* the very bytes that tag was computed over, and the stored tags end where the
\* last tag does, unless a write of the tags failed.
StoredBlocksMatchTags ==
    returned /\ ~tag_file_bad /\ ~ExactFill =>
        \A b \in 0 .. NumBlocks - 1 :
            LET at == Server!FindBlockTag(b)
            IN  /\ at.from < at.upto
                /\ StoredTag(b) = Server!TagBytes(b, at.upto - at.from)
                /\ b = NumBlocks - 1 => at.upto = Len(stored_tags)
                /\ \A i \in Sectors : tags[b + 1].sigma[i] = StoredSector(b, i)

\* The bar the window shows is full when Upload() returns, though its maximum
\* was estimated from the sizes of sectors before there was a tag: it takes tags
\* that are as long as a sector on average, writes that succeed and a file that
\* is stored.
BarFullWhenReturned ==
    returned /\ ~tag_file_bad /\ ~ExactFill
        /\ file_end >= NumBlocks * context.sector_size => Percentage = 100

\* Upload() returns, wherever its last block ends and whatever fails to be
\* written: GetNext() advances whether or not the stream has bytes left.
UploadReturns == <>returned

=============================================================================
