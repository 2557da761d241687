------------------------- MODULE BlockTagSerializer -------------------------
(***************************************************************************)
(* client/upload/block_tag_serializer: writes the BlockTags of a file one  *)
(* behind the other into a temporary file, through a buffer, and records   *)
(* where each one ends in a BlockTagMap; server/block_tag_map reads that   *)
(* map when a challenge asks for a tag.  Byte k of the tag with index i is *)
(* <<i, k>>, and the buffered tags are kept as the bytes they serialize    *)
(* to.  A write to the file may fail part of the way: the ofstream then    *)
(* ignores every later one, and the code asks neither it nor close().      *)
(***************************************************************************)
EXTENDS Integers, Sequences

CONSTANTS
    TagSizes,       \* sizes a serialized BlockTag can have, in bytes
    FlushLimit,     \* the buffer is flushed beyond it; 2,000,000 in the code
    MaxTags         \* bound: tags of a file

ASSUME TagSizesAssumption == TagSizes \subseteq Nat \ {0}
ASSUME FlushLimitAssumption == FlushLimit \in Nat
ASSUME MaxTagsAssumption == MaxTags \in Nat

VARIABLES
    out_file,       \* the bytes in the temporary file
    bad,            \* the ofstream has failed
    tags,           \* the buffered tags, serialized
    buffer_size,
    file_end,
    block_tag_map,
    closed          \* Done() has returned the map

vars == <<out_file, bad, tags, buffer_size, file_end, block_tag_map, closed>>

TagBytes(index, size) == [k \in 1 .. size |-> <<index, k>>]

NumTags == Len(block_tag_map.index)

-----------------------------------------------------------------------------
(* BlockTagMap::FindBlockTag(): the bytes of a tag begin where the tag     *)
(* before it in the map ends.  Offsets count from 0, end is exclusive.     *)

TagStart(n) == IF n = 1 THEN 0 ELSE block_tag_map.end[n - 1]
TagEnd(n) == block_tag_map.end[n]

\* The constructor numbers map_ by index: of two entries of one index the later
\* is found.
EntriesOf(index) == {n \in 1 .. NumTags : block_tag_map.index[n] = index}
FindBlockTag(index) ==
    LET n == CHOOSE m \in EntriesOf(index) : \A o \in EntriesOf(index) : o <= m
    IN  [from |-> TagStart(n), upto |-> TagEnd(n)]

-----------------------------------------------------------------------------
Init ==
    /\ out_file = <<>>
    /\ bad = FALSE
    /\ tags = <<>>
    /\ buffer_size = 0
    /\ file_end = 0
    /\ block_tag_map = [index |-> <<>>, end |-> <<>>, max_size |-> 0]
    /\ closed = FALSE

\* out_file_.write(): all of it, or some part of it and nothing any more.
Write(bytes) ==
    \/ ~bad /\ out_file' = out_file \o bytes /\ bad' = FALSE
    \/ \E n \in 0 .. Len(bytes) - 1 :
           ~bad /\ out_file' = out_file \o SubSeq(bytes, 1, n) /\ bad' = TRUE
    \/ bad /\ UNCHANGED <<out_file, bad>>

\* A flush of an empty buffer returns at once.
MustFlush(size) == buffer_size + size > FlushLimit

\* A fault: a tag that is flushed by itself gets no end.
GrowMapWithoutEnd(index, size) ==
    [index |-> Append(block_tag_map.index, index),
     end |-> IF size > FlushLimit THEN block_tag_map.end
             ELSE Append(block_tag_map.end, file_end + size),
     max_size |-> IF block_tag_map.max_size >= size
                  THEN block_tag_map.max_size ELSE size]

\* A fault: the map records where the tag begins.
GrowMapAtStart(index, size) ==
    [index |-> Append(block_tag_map.index, index),
     end |-> Append(block_tag_map.end, file_end),
     max_size |-> IF block_tag_map.max_size >= size
                  THEN block_tag_map.max_size ELSE size]

GrowMap(index, size) ==
    [index |-> Append(block_tag_map.index, index),
     end |-> Append(block_tag_map.end, file_end + size),
     max_size |-> IF block_tag_map.max_size >= size
                  THEN block_tag_map.max_size ELSE size]

Add(index, size) ==
    /\ ~closed
    /\ IF MustFlush(size) /\ tags # <<>>
       THEN /\ Write(tags)
            /\ tags' = TagBytes(index, size)
            /\ buffer_size' = size
       ELSE /\ UNCHANGED <<out_file, bad>>
            /\ tags' = tags \o TagBytes(index, size)
            /\ buffer_size' = buffer_size + size
    /\ file_end' = file_end + size
    /\ block_tag_map' = GrowMap(index, size)
    /\ UNCHANGED closed

\* A fault: the buffered tags are not flushed at the end.
DoneWithoutFlush ==
    /\ ~closed
    /\ closed' = TRUE
    /\ UNCHANGED <<out_file, bad, tags, buffer_size, file_end, block_tag_map>>

\* Done() flushes, closes the file and returns a copy of the map.
Done ==
    /\ ~closed
    /\ Write(tags)
    /\ tags' = <<>>
    /\ buffer_size' = 0
    /\ closed' = TRUE
    /\ UNCHANGED <<file_end, block_tag_map>>

\* The caller adds the tags of the blocks in order, then calls Done().
Next ==
    \/ \E size \in TagSizes : NumTags < MaxTags /\ Add(NumTags, size)
    \/ Done

Spec == Init /\ [][Next]_vars

-----------------------------------------------------------------------------
Bytes == Seq(Nat \X Nat)

\* The variables have their types.
TypeOK ==
    /\ out_file \in Bytes
    /\ bad \in BOOLEAN
    /\ tags \in Bytes
    /\ buffer_size \in Nat
    /\ file_end \in Nat
    /\ block_tag_map \in [index : Seq(Nat), end : Seq(Nat), max_size : Nat]
    /\ Len(block_tag_map.index) = Len(block_tag_map.end)
    /\ closed \in BOOLEAN

\* The bytes at a tag's place in a file are the bytes of that tag.
Located(file, n) ==
    /\ 0 <= TagStart(n) /\ TagStart(n) < TagEnd(n) /\ TagEnd(n) <= Len(file)
    /\ \A k \in 1 .. TagEnd(n) - TagStart(n) :
           file[TagStart(n) + k] = <<block_tag_map.index[n], k>>

\* However the flushes fell, each tag added is where the map says it is in what
\* is on disk followed by what is still buffered, as long as no write failed.
TagsLocated == ~bad => \A n \in 1 .. NumTags : Located(out_file \o tags, n)

\* After Done() a server that looks a tag up by its index reads that tag, whole,
\* from the file alone, and it fits the buffer of max_size bytes it is read into.
FoundAfterDone ==
    closed /\ ~bad =>
        \A i \in 0 .. NumTags - 1 :
            LET at == FindBlockTag(i)
            IN  /\ at.upto - at.from <= block_tag_map.max_size
                /\ at.upto <= Len(out_file)
                /\ SubSeq(out_file, at.from + 1, at.upto)
                       = TagBytes(i, at.upto - at.from)

=============================================================================
