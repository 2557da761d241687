---------------------- MODULE BlockTagSerializerProofs ----------------------
(***************************************************************************)
(* The map finds every tag in the file, for any tag sizes and any limit of *)
(* the buffer.  TagsLocated alone is not inductive: that a tag added lands *)
(* where the map says needs file_end_ to be the length of what has been    *)
(* written and buffered, which a failed write breaks and the account of    *)
(* the map does not notice.  IInv keeps the two apart.                     *)
(***************************************************************************)
EXTENDS BlockTagSerializer, SequenceTheorems, TLAPS

\* What a reader of the file would find if everything buffered were flushed.
Written == out_file \o tags

\* The map accounts for the tags added, whatever became of their bytes: the
\* ranges are contiguous, not empty, and no larger than max_size.
MapContiguous ==
    /\ file_end = IF NumTags = 0 THEN 0 ELSE TagEnd(NumTags)
    /\ \A n \in 1 .. NumTags :
           /\ block_tag_map.index[n] = n - 1
           /\ TagStart(n) \in Nat
           /\ TagStart(n) < TagEnd(n)
           /\ TagEnd(n) <= file_end
           /\ TagEnd(n) - TagStart(n) <= block_tag_map.max_size

\* Without a failed write the account is that of the bytes; with one there are
\* fewer.
AccountExact ==
    /\ ~bad => file_end = Len(out_file) + Len(tags)
    /\ Len(out_file) + Len(tags) <= file_end
    /\ buffer_size = Len(tags)
    /\ closed => tags = <<>>

IInv == TypeOK /\ MapContiguous /\ AccountExact /\ TagsLocated

-----------------------------------------------------------------------------
\* The serialization of a tag is a sequence of as many bytes as its size.
LEMMA TagBytesType ==
    ASSUME NEW index \in Nat, NEW size \in Nat
    PROVE  /\ TagBytes(index, size) \in Bytes
           /\ Len(TagBytes(index, size)) = size
           /\ \A k \in 1 .. size : TagBytes(index, size)[k] = <<index, k>>
<1>1. \A k \in 1 .. size : <<index, k>> \in Nat \X Nat
  OBVIOUS
<1>2. QED
  BY <1>1 DEF TagBytes, Bytes

\* Concatenation adds up the lengths and keeps the bytes of both parts.
LEMMA ConcatBytes ==
    ASSUME NEW a \in Bytes, NEW b \in Bytes
    PROVE  /\ a \o b \in Bytes
           /\ Len(a) \in Nat /\ Len(b) \in Nat
           /\ Len(a \o b) = Len(a) + Len(b)
<1>1. QED
  BY ConcatProperties, LenProperties DEF Bytes

LEMMA ConcatBytesAt ==
    ASSUME NEW a \in Bytes, NEW b \in Bytes
    PROVE  /\ \A i \in 1 .. Len(a) : (a \o b)[i] = a[i]
           /\ \A i \in 1 .. Len(b) : (a \o b)[Len(a) + i] = b[i]
<1> DEFINE S == Nat \X Nat
<1>1. a \in Seq(S) /\ b \in Seq(S)
  BY DEF Bytes
<1> HIDE DEF S
<1>2. Len(a) \in Nat /\ Len(b) \in Nat
  BY <1>1
<1>3. \A i \in 1 .. Len(a) : (a \o b)[i] = a[i]
  BY <1>1, <1>2
<1>4. \A i \in 1 .. Len(b) : (a \o b)[Len(a) + i] = b[i]
  BY <1>1, <1>2
<1>5. QED
  BY <1>3, <1>4

LEMMA ConcatBytesEmpty ==
    ASSUME NEW a \in Bytes
    PROVE  a \o <<>> = a
<1>1. QED
  BY ConcatEmptySeq DEF Bytes

LEMMA ConcatBytesAssociative ==
    ASSUME NEW a \in Bytes, NEW b \in Bytes, NEW c \in Bytes
    PROVE  a \o (b \o c) = (a \o b) \o c
<1> DEFINE S == Nat \X Nat
<1>1. a \in Seq(S) /\ b \in Seq(S) /\ c \in Seq(S)
  BY DEF Bytes
<1> HIDE DEF S
<1>2. QED
  BY <1>1, ConcatAssociative

\* A range of a file whose bytes are those of a tag is that tag.
LEMMA RangeOfTag ==
    ASSUME NEW file \in Bytes, NEW from \in Nat, NEW upto \in Nat, NEW i \in Nat,
           from < upto, upto <= Len(file),
           \A k \in 1 .. upto - from : file[from + k] = <<i, k>>
    PROVE  SubSeq(file, from + 1, upto) = TagBytes(i, upto - from)
<1>1. /\ SubSeq(file, from + 1, upto) \in Bytes
      /\ Len(SubSeq(file, from + 1, upto)) = upto - from
      /\ \A k \in 1 .. upto - from :
             SubSeq(file, from + 1, upto)[k] = file[from + 1 + k - 1]
  BY SubSeqProperties DEF Bytes
<1>2. /\ TagBytes(i, upto - from) \in Bytes
      /\ Len(TagBytes(i, upto - from)) = upto - from
      /\ \A k \in 1 .. upto - from : TagBytes(i, upto - from)[k] = <<i, k>>
  BY TagBytesType
<1>3. ASSUME NEW k \in 1 .. upto - from
      PROVE  SubSeq(file, from + 1, upto)[k] = TagBytes(i, upto - from)[k]
  <2>1. from + 1 + k - 1 = from + k
    OBVIOUS
  <2>2. QED
    BY <1>1, <1>2, <2>1
<1>4. QED
  BY <1>1, <1>2, <1>3, SeqEqual DEF Bytes

\* A write that leaves the stream good has appended all of its bytes; any write
\* leaves a file of bytes and adds no more than it was given.
LEMMA WriteEffect ==
    ASSUME NEW bytes \in Bytes, out_file \in Bytes, bad \in BOOLEAN, Write(bytes)
    PROVE  /\ out_file' \in Bytes
           /\ bad' \in BOOLEAN
           /\ ~bad' => ~bad /\ out_file' = out_file \o bytes
           /\ Len(out_file') <= Len(out_file) + Len(bytes)
<1>1. CASE ~bad /\ out_file' = out_file \o bytes /\ bad' = FALSE
  <2>1. /\ out_file \o bytes \in Bytes
        /\ Len(out_file \o bytes) = Len(out_file) + Len(bytes)
        /\ Len(out_file) \in Nat /\ Len(bytes) \in Nat
    BY ConcatBytes
  <2>2. Len(out_file \o bytes) <= Len(out_file) + Len(bytes)
    BY <2>1
  <2>3. out_file' = out_file \o bytes /\ ~bad /\ bad' = FALSE
    BY <1>1
  <2>4. QED
    BY <2>1, <2>2, <2>3, Zenon
<1>2. CASE \E n \in 0 .. Len(bytes) - 1 :
             ~bad /\ out_file' = out_file \o SubSeq(bytes, 1, n) /\ bad' = TRUE
  <2>1. PICK n \in 0 .. Len(bytes) - 1 :
             ~bad /\ out_file' = out_file \o SubSeq(bytes, 1, n) /\ bad' = TRUE
    BY <1>2
  <2>2. SubSeq(bytes, 1, n) \in Bytes /\ Len(SubSeq(bytes, 1, n)) = n
    BY DEF Bytes
  <2>3. /\ out_file \o SubSeq(bytes, 1, n) \in Bytes
        /\ Len(out_file \o SubSeq(bytes, 1, n)) = Len(out_file) + n
        /\ Len(out_file) \in Nat /\ Len(bytes) \in Nat
    BY <2>2, ConcatBytes
  <2>4. QED
    BY <2>1, <2>3
<1>3. CASE bad /\ UNCHANGED <<out_file, bad>>
  <2>1. Len(out_file) \in Nat /\ Len(bytes) \in Nat
    BY ConcatBytes
  <2>2. Len(out_file) <= Len(out_file) + Len(bytes)
    BY <2>1
  <2>3. out_file' = out_file /\ bad' = bad /\ bad
    BY <1>3
  <2>4. QED
    BY <2>2, <2>3, Zenon
<1>4. QED
  BY <1>1, <1>2, <1>3 DEF Write

\* A tag is found where it was found before when bytes are written behind it.
LEMMA LocatedInLonger ==
    ASSUME NEW file \in Bytes, NEW more \in Bytes, NEW n \in 1 .. NumTags,
           TagStart(n) \in Nat, TagEnd(n) \in Nat, Located(file, n)
    PROVE  Located(file \o more, n)
<1>1. /\ Len(file) \in Nat /\ Len(more) \in Nat
      /\ Len(file \o more) = Len(file) + Len(more)
      /\ \A i \in 1 .. Len(file) : (file \o more)[i] = file[i]
  BY DEF Bytes
<1>2. ASSUME NEW k \in 1 .. TagEnd(n) - TagStart(n)
      PROVE  (file \o more)[TagStart(n) + k] = <<block_tag_map.index[n], k>>
  <2>1. TagStart(n) + k \in 1 .. Len(file)
    BY <1>1 DEF Located
  <2>2. QED
    BY <1>1, <2>1 DEF Located
<1>3. QED
  BY <1>1, <1>2 DEF Located

LEMMA InitIInv == Init => IInv
<1> SUFFICES ASSUME Init PROVE IInv
  OBVIOUS
<1> USE DEF Init
<1>1. TypeOK
  <2>1. out_file \in Bytes /\ tags \in Bytes
    BY DEF Bytes
  <2>2. block_tag_map \in [index : Seq(Nat), end : Seq(Nat), max_size : Nat]
    OBVIOUS
  <2>3. Len(block_tag_map.index) = Len(block_tag_map.end)
    OBVIOUS
  <2>4. QED
    BY <2>1, <2>2, <2>3 DEF TypeOK
<1>2. MapContiguous /\ AccountExact /\ TagsLocated
  BY DEF MapContiguous, AccountExact, TagsLocated, NumTags
<1>3. QED
  BY <1>1, <1>2 DEF IInv

\* What Add() does to the map: one more range, behind the others.
LEMMA AddMap ==
    ASSUME IInv, NEW size \in TagSizes, Add(NumTags, size)
    PROVE  /\ NumTags \in Nat /\ size \in Nat \ {0} /\ file_end \in Nat
           /\ NumTags' = NumTags + 1
           /\ block_tag_map' \in [index : Seq(Nat), end : Seq(Nat), max_size : Nat]
           /\ Len(block_tag_map.index)' = Len(block_tag_map.end)'
           /\ file_end' = file_end + size
           /\ \A n \in 1 .. NumTags :
                  /\ TagStart(n)' = TagStart(n)
                  /\ TagEnd(n)' = TagEnd(n)
                  /\ block_tag_map'.index[n] = block_tag_map.index[n]
           /\ TagStart(NumTags)' = file_end
           /\ TagEnd(NumTags)' = file_end + size
           /\ block_tag_map'.index[NumTags + 1] = NumTags
           /\ block_tag_map'.max_size >= block_tag_map.max_size
           /\ block_tag_map'.max_size >= size
<1> DEFINE index == block_tag_map.index
           ends == block_tag_map.end
<1>1. /\ index \in Seq(Nat) /\ ends \in Seq(Nat) /\ Len(index) = Len(ends)
      /\ block_tag_map.max_size \in Nat
      /\ NumTags = Len(index) /\ NumTags \in Nat /\ file_end \in Nat
  BY DEF IInv, TypeOK, NumTags
<1>2. size \in Nat \ {0}
  BY TagSizesAssumption
<1>3. /\ block_tag_map' = GrowMap(NumTags, size)
      /\ file_end' = file_end + size
  BY DEF Add
<1>4. /\ block_tag_map'.index = Append(index, NumTags)
      /\ block_tag_map'.end = Append(ends, file_end + size)
      /\ block_tag_map'.max_size = IF block_tag_map.max_size >= size
                                   THEN block_tag_map.max_size ELSE size
  BY <1>3 DEF GrowMap
<1>5. block_tag_map' \in [index : Seq(Nat), end : Seq(Nat), max_size : Nat]
  <2>1. /\ Append(index, NumTags) \in Seq(Nat)
        /\ Append(ends, file_end + size) \in Seq(Nat)
    BY <1>1, <1>2
  <2>2. block_tag_map'.max_size \in Nat
    BY <1>1, <1>2, <1>4
  <2>3. QED
    BY <1>3, <1>4, <2>1, <2>2 DEF GrowMap
<1>6. /\ Len(Append(index, NumTags)) = NumTags + 1
      /\ Len(Append(ends, file_end + size)) = NumTags + 1
      /\ \A n \in 1 .. NumTags :
             /\ Append(index, NumTags)[n] = index[n]
             /\ Append(ends, file_end + size)[n] = ends[n]
      /\ Append(index, NumTags)[NumTags + 1] = NumTags
      /\ Append(ends, file_end + size)[NumTags + 1] = file_end + size
  BY <1>1, <1>2
<1> HIDE DEF index, ends
<1>7. ASSUME NEW n \in 1 .. NumTags
      PROVE  /\ TagStart(n)' = TagStart(n)
             /\ TagEnd(n)' = TagEnd(n)
             /\ block_tag_map'.index[n] = block_tag_map.index[n]
  <2>1. n # 1 => n - 1 \in 1 .. NumTags
    BY <1>1
  <2>2. QED
    BY <1>4, <1>6, <2>1 DEF TagStart, TagEnd, index, ends
<1>8. TagStart(NumTags)' = file_end
  <2>1. CASE NumTags = 0
    BY <2>1, <1>4, <1>6 DEF TagStart, IInv, MapContiguous, NumTags
  <2>2. CASE NumTags # 0
    <3>1. NumTags \in 1 .. NumTags /\ NumTags + 1 # 1 /\ NumTags + 1 - 1 = NumTags
      BY <1>1, <2>2
    <3>2. file_end = TagEnd(NumTags)
      BY <2>2 DEF IInv, MapContiguous
    <3>3. block_tag_map'.end[NumTags] = ends[NumTags]
      BY <1>4, <1>6, <3>1
    <3>4. NumTags' = NumTags + 1
      BY <1>4, <1>6 DEF NumTags
    <3>5. TagStart(NumTags)' = block_tag_map'.end[NumTags]
      BY <3>1, <3>4 DEF TagStart
    <3>6. QED
      BY <3>2, <3>3, <3>5 DEF TagEnd, ends
  <2>3. QED
    BY <2>1, <2>2
<1>9. TagEnd(NumTags)' = file_end + size
  BY <1>4, <1>6 DEF TagEnd, NumTags
<1>10. /\ NumTags' = NumTags + 1
       /\ Len(block_tag_map.index)' = Len(block_tag_map.end)'
  BY <1>4, <1>6 DEF NumTags
<1>11. /\ block_tag_map'.max_size >= block_tag_map.max_size
       /\ block_tag_map'.max_size >= size
  BY <1>1, <1>2, <1>4
<1>12. QED
  BY <1>1, <1>2, <1>3, <1>4, <1>5, <1>6, <1>7, <1>8, <1>9, <1>10, <1>11

\* What Add() does to the bytes: it flushes or it does not, and the tag ends up
\* behind everything written so far.
LEMMA AddBytes ==
    ASSUME IInv, NEW size \in TagSizes, Add(NumTags, size)
    PROVE  /\ out_file' \in Bytes /\ tags' \in Bytes /\ bad' \in BOOLEAN
           /\ buffer_size' = Len(tags')
           /\ ~bad' => /\ ~bad
                       /\ Written' = Written \o TagBytes(NumTags, size)
           /\ Len(out_file') + Len(tags') <= Len(out_file) + Len(tags) + size
<1> DEFINE new == TagBytes(NumTags, size)
<1>1. /\ out_file \in Bytes /\ tags \in Bytes /\ bad \in BOOLEAN
      /\ buffer_size = Len(tags) /\ NumTags \in Nat /\ size \in Nat
  BY TagSizesAssumption DEF IInv, TypeOK, AccountExact, NumTags
<1>2. new \in Bytes /\ Len(new) = size
  BY <1>1, TagBytesType
<1>3. CASE MustFlush(size) /\ tags # <<>>
  <2>1. Write(tags) /\ tags' = new /\ buffer_size' = size
    BY <1>3 DEF Add
  <2>2. /\ out_file' \in Bytes /\ bad' \in BOOLEAN
        /\ ~bad' => ~bad /\ out_file' = out_file \o tags
        /\ Len(out_file') <= Len(out_file) + Len(tags)
    BY <1>1, <2>1, WriteEffect
  <2>3. Len(out_file) \in Nat /\ Len(tags) \in Nat /\ Len(out_file') \in Nat
    BY <1>1, <2>2, ConcatBytes
  <2>4. Len(out_file') + Len(tags') <= Len(out_file) + Len(tags) + size
    BY <1>1, <1>2, <2>1, <2>2, <2>3
  <2>5. QED
    BY <1>2, <2>1, <2>2, <2>4 DEF Written
<1>4. CASE ~(MustFlush(size) /\ tags # <<>>)
  <2>1. /\ out_file' = out_file /\ bad' = bad /\ tags' = tags \o new
        /\ buffer_size' = buffer_size + size
    BY <1>4 DEF Add
  <2>2. tags \o new \in Bytes /\ Len(tags \o new) = Len(tags) + size
    <3>1. tags \o new \in Bytes /\ Len(tags \o new) = Len(tags) + Len(new)
      BY <1>1, <1>2, ConcatBytes
    <3>2. QED
      BY <1>2, <3>1
  <2>3. out_file \o (tags \o new) = (out_file \o tags) \o new
    BY <1>1, <1>2, ConcatBytesAssociative
  <2>4. Len(out_file') + Len(tags') <= Len(out_file) + Len(tags) + size
    <3>1. Len(out_file) \in Nat /\ Len(tags) \in Nat
      BY <1>1, ConcatBytes
    <3>2. QED
      BY <1>1, <2>1, <2>2, <3>1
  <2>5. QED
    BY <1>1, <2>1, <2>2, <2>3, <2>4 DEF Written
<1>5. QED
  BY <1>3, <1>4

\* Adding a tag preserves the invariant.
LEMMA AddIInv == ASSUME IInv, NEW size \in TagSizes, Add(NumTags, size)
                 PROVE  IInv'
<1> DEFINE new == TagBytes(NumTags, size)
<1>1. /\ NumTags \in Nat /\ size \in Nat \ {0} /\ file_end \in Nat
      /\ NumTags' = NumTags + 1
      /\ block_tag_map' \in [index : Seq(Nat), end : Seq(Nat), max_size : Nat]
      /\ Len(block_tag_map.index)' = Len(block_tag_map.end)'
      /\ file_end' = file_end + size
      /\ \A n \in 1 .. NumTags :
             /\ TagStart(n)' = TagStart(n)
             /\ TagEnd(n)' = TagEnd(n)
             /\ block_tag_map'.index[n] = block_tag_map.index[n]
      /\ TagStart(NumTags)' = file_end
      /\ TagEnd(NumTags)' = file_end + size
      /\ block_tag_map'.index[NumTags + 1] = NumTags
      /\ block_tag_map'.max_size >= block_tag_map.max_size
      /\ block_tag_map'.max_size >= size
  BY AddMap
<1>2. /\ out_file' \in Bytes /\ tags' \in Bytes /\ bad' \in BOOLEAN
      /\ buffer_size' = Len(tags')
      /\ ~bad' => ~bad /\ Written' = Written \o new
      /\ Len(out_file') + Len(tags') <= Len(out_file) + Len(tags) + size
  BY AddBytes
<1>3. closed = FALSE /\ closed' = closed
  BY DEF IInv, TypeOK, Add
<1>4. TypeOK'
  <2>1. Len(tags') \in Nat
    BY <1>2, ConcatBytes
  <2>2. file_end' \in Nat
    BY <1>1
  <2>3. QED
    BY <1>1, <1>2, <1>3, <2>1, <2>2 DEF TypeOK
<1>5. new \in Bytes /\ Len(new) = size
      /\ \A k \in 1 .. size : new[k] = <<NumTags, k>>
  BY <1>1, TagBytesType
<1>6. MapContiguous'
  <2>1. file_end' = TagEnd(NumTags)' /\ NumTags' # 0
    BY <1>1
  <2>2. /\ block_tag_map.max_size \in Nat /\ block_tag_map'.max_size \in Nat
    BY <1>1 DEF IInv, TypeOK
  <2>3. ASSUME NEW n \in 1 .. NumTags'
        PROVE  /\ block_tag_map'.index[n] = n - 1
               /\ TagStart(n)' \in Nat
               /\ TagStart(n)' < TagEnd(n)'
               /\ TagEnd(n)' <= file_end'
               /\ TagEnd(n)' - TagStart(n)' <= block_tag_map'.max_size
    <3>1. CASE n \in 1 .. NumTags
      <4>1. /\ block_tag_map.index[n] = n - 1
            /\ TagStart(n) \in Nat /\ TagStart(n) < TagEnd(n)
            /\ TagEnd(n) <= file_end
            /\ TagEnd(n) - TagStart(n) <= block_tag_map.max_size
        BY <3>1 DEF IInv, MapContiguous
      <4>2. TagEnd(n) \in Nat
        BY <3>1 DEF IInv, TypeOK, TagEnd, NumTags
      <4>3. /\ TagStart(n)' = TagStart(n) /\ TagEnd(n)' = TagEnd(n)
            /\ block_tag_map'.index[n] = block_tag_map.index[n]
        BY <1>1, <3>1
      <4>4. block_tag_map'.max_size >= block_tag_map.max_size
        BY <1>1
      <4>5. TagEnd(n) <= file_end + size
        BY <4>1, <4>2, <1>1
      <4>6. TagEnd(n) - TagStart(n) <= block_tag_map'.max_size
        BY <4>1, <4>2, <4>4, <2>2
      <4>7. QED
        BY <4>1, <4>3, <4>5, <4>6, <1>1
    <3>2. CASE n = NumTags + 1
      <4>1. /\ TagStart(n)' = file_end /\ TagEnd(n)' = file_end + size
            /\ block_tag_map'.index[n] = NumTags
        BY <1>1, <3>2
      <4>2. /\ file_end < file_end + size
            /\ file_end + size - file_end <= block_tag_map'.max_size
            /\ NumTags + 1 - 1 = NumTags
        BY <2>2, <1>1
      <4>3. QED
        BY <4>1, <4>2, <3>2, <1>1
    <3>3. QED
      BY <3>1, <3>2, <1>1
  <2>4. QED
    BY <2>1, <2>3 DEF MapContiguous
<1>7. AccountExact'
  <2>1. ASSUME ~bad' PROVE file_end' = Len(out_file') + Len(tags')
    <3>1. Written \in Bytes /\ Len(Written) = Len(out_file) + Len(tags)
      BY ConcatBytes DEF IInv, TypeOK, Written
    <3>2. file_end = Len(Written)
      BY <1>2, <2>1, <3>1 DEF IInv, AccountExact
    <3>3. Len(Written \o new) = Len(Written) + size
      BY <1>5, <3>1, ConcatBytes
    <3>4. Len(out_file' \o tags') = Len(out_file') + Len(tags')
      BY <1>2, ConcatBytes
    <3>5. QED
      BY <1>1, <1>2, <2>1, <3>2, <3>3, <3>4 DEF Written
  <2>2. Len(out_file') + Len(tags') <= file_end'
    <3>1. /\ Len(out_file) \in Nat /\ Len(tags) \in Nat
          /\ Len(out_file') \in Nat /\ Len(tags') \in Nat
          /\ Len(out_file) + Len(tags) <= file_end
      BY <1>2, ConcatBytes DEF IInv, TypeOK, AccountExact
    <3>2. QED
      BY <1>1, <1>2, <3>1
  <2>3. IInv => (closed => tags = <<>>)
    BY DEF IInv, AccountExact
  <2>4. QED
    BY <1>2, <1>3, <2>1, <2>2, <2>3 DEF AccountExact
<1>8. TagsLocated'
  <2> SUFFICES ASSUME ~bad', NEW n \in 1 .. NumTags'
               PROVE  Located(Written, n)'
    BY DEF TagsLocated, Written
  <2>1. Written \in Bytes /\ Written' = Written \o new
    BY <1>2, ConcatBytes DEF IInv, TypeOK, Written
  <2>2. ~bad /\ file_end = Len(Written)
    BY <1>2, ConcatBytes DEF IInv, TypeOK, AccountExact, Written
  <2>3. /\ Len(Written \o new) = Len(Written) + size
        /\ \A k \in 1 .. size : (Written \o new)[Len(Written) + k] = new[k]
    <3>1. Len(Written \o new) = Len(Written) + Len(new)
      BY <1>5, <2>1, ConcatBytes
    <3>2. \A k \in 1 .. Len(new) : (Written \o new)[Len(Written) + k] = new[k]
      BY <1>5, <2>1, ConcatBytesAt
    <3>3. QED
      BY <1>5, <3>1, <3>2
  <2>4. CASE n \in 1 .. NumTags
    <3>1. Located(Written, n)
      BY <2>2, <2>4 DEF IInv, TagsLocated, Written
    <3>2. TagStart(n) \in Nat /\ TagEnd(n) \in Nat
      BY <2>4 DEF IInv, MapContiguous, TypeOK, TagEnd, NumTags
    <3>3. Located(Written \o new, n)
      BY <1>5, <2>1, <2>4, <3>1, <3>2, LocatedInLonger
    <3>4. /\ TagStart(n)' = TagStart(n) /\ TagEnd(n)' = TagEnd(n)
          /\ block_tag_map'.index[n] = block_tag_map.index[n]
      BY <1>1, <2>4
    <3>5. QED
      BY <2>1, <3>3, <3>4 DEF Located
  <2>5. CASE n = NumTags + 1
    <3>0. \A k \in 1 .. size : (Written \o new)[file_end + k] = <<NumTags, k>>
      BY <1>5, <2>2, <2>3
    <3>1. /\ TagStart(n)' = file_end /\ TagEnd(n)' = file_end + size
          /\ block_tag_map'.index[n] = NumTags
      BY <1>1, <2>5
    <3>2. TagEnd(n)' - TagStart(n)' = size
      BY <1>1, <3>1
    <3>3. QED
      <4>1. 0 <= file_end /\ file_end < file_end + size
        BY <1>1
      <4>2. file_end + size <= Len(Written \o new)
        BY <1>1, <2>2, <2>3
      <4>3. QED
        BY <2>1, <2>5, <3>0, <3>1, <3>2, <4>1, <4>2 DEF Located
  <2>6. QED
    BY <1>1, <2>4, <2>5
<1>9. QED
  BY <1>4, <1>6, <1>7, <1>8 DEF IInv

\* Done() moves what is buffered to the file and leaves the map alone.
LEMMA DoneIInv == IInv /\ Done => IInv'
<1> SUFFICES ASSUME IInv, Done PROVE IInv'
  OBVIOUS
<1>1. /\ Write(tags) /\ tags' = <<>> /\ buffer_size' = 0 /\ closed' = TRUE
      /\ file_end' = file_end /\ block_tag_map' = block_tag_map
  BY DEF Done
<1>2. /\ out_file \in Bytes /\ tags \in Bytes /\ bad \in BOOLEAN
  BY DEF IInv, TypeOK
<1>3. /\ out_file' \in Bytes /\ bad' \in BOOLEAN
      /\ ~bad' => ~bad /\ out_file' = Written
      /\ Len(out_file') <= Len(out_file) + Len(tags)
  BY <1>1, <1>2, WriteEffect DEF Written
<1>4. /\ \A n : TagStart(n)' = TagStart(n) /\ TagEnd(n)' = TagEnd(n)
      /\ NumTags' = NumTags
  BY <1>1 DEF TagStart, TagEnd, NumTags
<1>5. TypeOK'
  <2>1. tags' \in Bytes
    BY <1>1 DEF Bytes
  <2>2. QED
    BY <1>1, <1>3, <2>1 DEF IInv, TypeOK
<1>6. MapContiguous'
  <2>1. TagEnd(NumTags)' = TagEnd(NumTags)
    BY <1>1 DEF TagEnd, NumTags
  <2>2. QED
    BY <1>1, <1>4, <2>1 DEF IInv, MapContiguous
<1>7. AccountExact'
  <2>1. ~bad' => file_end' = Len(out_file')
    BY <1>1, <1>2, <1>3 DEF IInv, AccountExact, Written, Bytes
  <2>2. Len(tags') = 0 /\ Len(out_file') \in Nat
    BY <1>1, <1>3 DEF Bytes
  <2>3. Len(out_file') + Len(tags') <= file_end'
    <3>1. /\ Len(out_file) \in Nat /\ Len(tags) \in Nat
          /\ Len(out_file) + Len(tags) <= file_end /\ file_end \in Nat
      BY ConcatBytes DEF IInv, TypeOK, AccountExact
    <3>2. QED
      BY <1>1, <1>3, <2>2, <3>1
  <2>4. QED
    BY <1>1, <2>1, <2>2, <2>3 DEF AccountExact
<1>8. TagsLocated'
  <2>1. out_file' \o tags' = out_file'
    BY <1>1, <1>3 DEF Bytes
  <2> SUFFICES ASSUME ~bad', NEW n \in 1 .. NumTags
               PROVE  Located(out_file, n)'
    BY <1>4, <2>1 DEF TagsLocated, Located
  <2>2. Located(Written, n) /\ out_file' = Written
    BY <1>3 DEF IInv, TagsLocated, Written
  <2>3. QED
    BY <1>1, <1>4, <2>2 DEF Located
<1>9. QED
  BY <1>5, <1>6, <1>7, <1>8 DEF IInv

LEMMA NextIInv == IInv /\ [Next]_vars => IInv'
<1> SUFFICES ASSUME IInv, [Next]_vars PROVE IInv'
  OBVIOUS
<1>1. CASE \E size \in TagSizes : NumTags < MaxTags /\ Add(NumTags, size)
  BY <1>1, AddIInv
<1>2. CASE Done
  BY <1>2, DoneIInv
<1>3. CASE UNCHANGED vars
  <2> USE <1>3 DEF vars
  <2>1. /\ NumTags' = NumTags
        /\ \A n : TagStart(n)' = TagStart(n) /\ TagEnd(n)' = TagEnd(n)
        /\ TagEnd(NumTags)' = TagEnd(NumTags)
    BY DEF NumTags, TagStart, TagEnd
  <2>2. TypeOK' /\ AccountExact'
    BY DEF IInv, TypeOK, AccountExact
  <2>3. MapContiguous'
    BY <2>1 DEF IInv, MapContiguous
  <2>4. TagsLocated'
    BY <2>1 DEF IInv, TagsLocated, Located
  <2>5. QED
    BY <2>2, <2>3, <2>4 DEF IInv
<1>4. QED
  BY <1>1, <1>2, <1>3 DEF Next

-----------------------------------------------------------------------------
\* The strengthening holds of every state.
THEOREM Inductive == Spec => []IInv
<1>1. QED
  BY InitIInv, NextIInv, PTL DEF Spec

\* Every tag is where the map says, whatever the tags' sizes and wherever the
\* flushes fall, unless a write to the temporary file has failed.
THEOREM TagsAreLocated == Spec => []TagsLocated
<1>1. IInv => TagsLocated
  BY DEF IInv
<1>2. QED
  BY <1>1, Inductive, PTL

\* The state keeps its types.
THEOREM TypeCorrect == Spec => []TypeOK
<1>1. IInv => TypeOK
  BY DEF IInv
<1>2. QED
  BY <1>1, Inductive, PTL

\* A lookup by index, after Done(), returns the place of that tag in the file.
LEMMA FoundTag ==
    ASSUME IInv, closed, ~bad, NEW i \in 0 .. NumTags - 1
    PROVE  LET at == FindBlockTag(i)
           IN  /\ at.from \in Nat /\ at.upto \in Nat
               /\ at.from < at.upto
               /\ at.upto - at.from <= block_tag_map.max_size
               /\ at.upto <= Len(out_file)
               /\ i = NumTags - 1 => at.upto = Len(out_file)
               /\ SubSeq(out_file, at.from + 1, at.upto)
                      = TagBytes(i, at.upto - at.from)
<1> DEFINE n == i + 1
<1>1. /\ NumTags \in Nat /\ i \in Nat /\ n \in 1 .. NumTags
      /\ out_file \in Bytes
  BY DEF IInv, TypeOK, NumTags
<1>2. FindBlockTag(i) = [from |-> TagStart(n), upto |-> TagEnd(n)]
  <2>1. EntriesOf(i) = {n}
    BY <1>1 DEF IInv, MapContiguous, EntriesOf
  <2>2. (CHOOSE m \in EntriesOf(i) : \A o \in EntriesOf(i) : o <= m) = n
    BY <1>1, <2>1
  <2>3. QED
    BY <2>2 DEF FindBlockTag
<1>3. Located(out_file, n)
  <2>1. out_file \o tags = out_file
    BY <1>1 DEF IInv, AccountExact, Bytes
  <2>2. QED
    BY <1>1, <2>1 DEF IInv, TagsLocated
<1>4. /\ TagStart(n) \in Nat /\ TagEnd(n) \in Nat
      /\ block_tag_map.index[n] = i
      /\ TagEnd(n) - TagStart(n) <= block_tag_map.max_size
  BY <1>1 DEF IInv, MapContiguous, TypeOK, TagEnd, NumTags
<1>5. /\ TagStart(n) < TagEnd(n) /\ TagEnd(n) <= Len(out_file)
      /\ \A k \in 1 .. TagEnd(n) - TagStart(n) :
             out_file[TagStart(n) + k] = <<i, k>>
  BY <1>3, <1>4 DEF Located
<1>6. SubSeq(out_file, TagStart(n) + 1, TagEnd(n))
        = TagBytes(i, TagEnd(n) - TagStart(n))
  BY <1>1, <1>4, <1>5, RangeOfTag
<1>7. FindBlockTag(i).from = TagStart(n) /\ FindBlockTag(i).upto = TagEnd(n)
  BY <1>2
<1>8. i = NumTags - 1 => TagEnd(n) = Len(out_file)
  <2> SUFFICES ASSUME i = NumTags - 1 PROVE TagEnd(n) = Len(out_file)
    OBVIOUS
  <2>1. tags = <<>> /\ file_end = Len(out_file) + Len(tags)
    BY DEF IInv, AccountExact
  <2>2. n = NumTags /\ NumTags > 0
    BY <1>1
  <2>3. file_end = TagEnd(NumTags)
    BY <2>2 DEF IInv, MapContiguous
  <2>4. QED
    BY <1>1, <2>1, <2>2, <2>3 DEF Bytes
<1>9. QED
  BY <1>4, <1>5, <1>6, <1>7, <1>8

\* Done() leaves a file in which every tag is found by its index.
THEOREM LookupsFindTags == Spec => []FoundAfterDone
<1>1. IInv => FoundAfterDone
  BY FoundTag DEF FoundAfterDone
<1>2. QED
  BY <1>1, Inductive, PTL

=============================================================================
