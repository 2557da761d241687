------------------------ MODULE DropboxUploadsProofs ------------------------
(***************************************************************************)
(* Proofs about DropboxUploads, for any number of uploads and of pieces.   *)
(***************************************************************************)
EXTENDS DropboxUploads, TLAPS, WellFoundedInduction

USE PiecesAssumption, MaxUploadsAssumption

-----------------------------------------------------------------------------
(* The length of a file                                                    *)

LEMMA LeastElement ==
    ASSUME NEW T \in SUBSET Nat, T # {}
    PROVE  \E m \in T : \A k \in T : m <= k
<1> DEFINE Less == OpToRel(<, Nat)
<1>1. IsWellFoundedOn(Less, Nat)
  BY NatLessThanWellFounded
<1>2. \A k, m \in Nat : k < m => <<k, m>> \in Less
  BY DEF OpToRel
<1> HIDE DEF Less
<1>3. PICK m \in T : \A k \in T : ~(<<k, m>> \in Less)
  BY <1>1, WFMin
<1>4. \A k \in T : k \in Nat /\ m \in Nat /\ ~(k < m)
  BY <1>2, <1>3
<1> QED BY <1>4

\* A file has a last cell, or none.
LEMMA LengthOf ==
    ASSUME NEW cells \in [1 .. Pieces -> Cells]
    PROVE  /\ Length(cells) \in 0 .. Pieces
           /\ Length(cells) = 0 \/ cells[Length(cells)] # None
           /\ \A k \in Length(cells) + 1 .. Pieces : cells[k] = None
<1> DEFINE Bounds == {n \in 0 .. Pieces : \A k \in n + 1 .. Pieces : cells[k] = None}
<1>1. Pieces \in Bounds /\ Bounds \in SUBSET Nat
  OBVIOUS
<1>2. PICK n \in Bounds : \A m \in Bounds : n <= m
  BY <1>1, LeastElement
<1>3. n = 0 \/ cells[n] # None
  <2> SUFFICES ASSUME n # 0, cells[n] = None PROVE FALSE
    OBVIOUS
  <2>1. n - 1 \in Bounds
    <3>1. \A k \in (n - 1) + 1 .. Pieces : k = n \/ k \in n + 1 .. Pieces
      OBVIOUS
    <3> QED BY <3>1
  <2> QED BY <2>1, <1>2
<1>4. /\ n \in 0 .. Pieces
      /\ n = 0 \/ cells[n] # None
      /\ \A k \in n + 1 .. Pieces : cells[k] = None
  BY <1>3
<1> HIDE DEF Bounds
<1> QED BY <1>4 DEF Length

\* The length of a file all of whose cells are written.
LEMMA LengthOfWhole ==
    ASSUME NEW cells \in [1 .. Pieces -> Cells],
           \A k \in 1 .. Pieces : cells[k] # None
    PROVE  Length(cells) = Pieces
BY LengthOf

-----------------------------------------------------------------------------
(* Types                                                                   *)

\* The streams of an upload are on inodes that there are.
Opened ==
    \A u \in Uploads :
        /\ stage[u] \in {"compressing", "compressed", "tagging", "storing",
                         "deleting"} => inode[u]["compressed"] # 0
        /\ stage[u] \in {"tagging", "storing", "deleting"} => inode[u]["tags"] # 0

\* An upload begins with nothing; it keeps a buffer while it tags and bodies
\* while it stores.
Fresh ==
    \A u \in Uploads :
        /\ u > begun => stage[u] = "none"
        /\ stage[u] \in {"none", "compress", "compressed"} => next[u] = 0
        /\ stage[u] \in {"none", "compress", "compressing", "compressed"} =>
               buffer[u] = <<>>
        /\ stage[u] # "storing" => body[u] = NoBody

TypeInv == TypeOK /\ Opened /\ Fresh

Stages ==
    {"none", "compress", "compressing", "compressed", "tagging", "storing",
     "deleting", "ended", "over"}

LEMMA Update2 ==
    ASSUME NEW A, NEW B, NEW C, NEW f \in [A -> [B -> C]],
           NEW a \in A, NEW b \in B, NEW c \in C
    PROVE  /\ [f EXCEPT ![a][b] = c] \in [A -> [B -> C]]
           /\ \A x \in A, y \in B :
                  [f EXCEPT ![a][b] = c][x][y] =
                      IF x = a /\ y = b THEN c ELSE f[x][y]
OBVIOUS

LEMMA EmptyType == Empty \in [1 .. Pieces -> Cells]
BY DEF Empty, Cells

LEMMA NoBodyType == NoBody \in [Objects -> Seq(Uploads \cup {Spoilt})]
<1>1. <<>> \in Seq(Uploads \cup {Spoilt})
  OBVIOUS
<1> QED BY <1>1 DEF NoBody

LEMMA TypeInit == Init => TypeInv
<1> SUFFICES ASSUME Init PROVE TypeInv
  OBVIOUS
<1> USE DEF Init, TypeInv
<1>1. content \in [TempFiles -> [Uploads -> [1 .. Pieces -> Cells]]]
  BY EmptyType
<1>2. /\ path \in [TempFiles -> {0} \cup Uploads]
      /\ inode \in [Uploads -> [TempFiles -> {0} \cup Uploads]]
      /\ next \in [Uploads -> 0 .. Pieces] /\ size \in [Uploads -> 0 .. Pieces]
      /\ begun \in 0 .. MaxUploads /\ running \in BOOLEAN
      /\ listed \in {0} \cup Uploads
  OBVIOUS
<1>3. stage \in [Uploads -> Stages] /\ \A u \in Uploads : stage[u] = "none"
  BY DEF Stages
<1>4. /\ buffer \in [Uploads -> Seq(Uploads \cup {Spoilt})]
      /\ \A u \in Uploads : Len(buffer[u]) <= next[u]
  <2>1. <<>> \in Seq(Uploads \cup {Spoilt}) /\ Len(<<>>) = 0
    OBVIOUS
  <2> QED BY <2>1
<1>5. request \in [Uploads -> [Objects -> {"none", "starting", "reading", "stored"}]]
  BY DEF NoRequest
<1>6. body \in [Uploads -> [Objects -> Seq(Uploads \cup {Spoilt})]]
  BY NoBodyType
<1>7. object \in [Objects -> [of : {0} \cup Uploads,
                              body : Seq(Uploads \cup {Spoilt})]]
  <2>1. <<>> \in Seq(Uploads \cup {Spoilt})
    OBVIOUS
  <2> QED BY <2>1
<1>8. /\ left \subseteq TempFiles /\ missing \subseteq Uploads
      /\ overlapped \subseteq Uploads /\ spoiled \subseteq Uploads
  OBVIOUS
<1> QED BY <1>1, <1>2, <1>3, <1>4, <1>5, <1>6, <1>7, <1>8 DEF TypeOK, Opened, Fresh, Stages

LEMMA TypeEnd ==
    ASSUME TypeInv, End, missing' \subseteq Uploads
    PROVE  TypeInv'
<1> USE DEF TypeInv, End
<1>1. /\ stage' \in [Uploads -> Stages]
      /\ \A u \in Uploads : stage'[u] = IF stage[u] = "none" THEN "none" ELSE "over"
  BY DEF Stages
<1>2. request' \in [Uploads -> [Objects -> {"none", "starting", "reading", "stored"}]]
  BY DEF NoRequest
<1>3. /\ body' \in [Uploads -> [Objects -> Seq(Uploads \cup {Spoilt})]]
      /\ \A u \in Uploads : body'[u] = NoBody
  BY NoBodyType
<1>4. left' \subseteq TempFiles /\ running' \in BOOLEAN
  OBVIOUS
<1>5. UNCHANGED <<path, content, inode, next, size, buffer, object, begun, listed,
                  overlapped, spoiled>>
  BY DEF temp_vars
<1>6. Fresh'
  BY <1>1, <1>3, <1>5 DEF Fresh
<1> QED BY <1>1, <1>2, <1>3, <1>4, <1>5, <1>6 DEF TypeOK, Opened, Stages

\* What opening a file for writing changes.
LEMMA Created ==
    ASSUME TypeInv, NEW u \in Uploads, NEW f \in TempFiles, Create(u, f)
    PROVE  /\ path' \in [TempFiles -> {0} \cup Uploads]
           /\ path'[f] = inode'[u][f]
           /\ \A g \in TempFiles \ {f} : path'[g] = path[g]
           /\ inode' \in [Uploads -> [TempFiles -> {0} \cup Uploads]]
           /\ inode'[u][f] \in Uploads
           /\ \A v \in Uploads, g \in TempFiles :
                  v # u \/ g # f => inode'[v][g] = inode[v][g]
           /\ content' \in [TempFiles -> [Uploads -> [1 .. Pieces -> Cells]]]
           /\ \A g \in TempFiles, n \in Uploads :
                  content'[g][n] = IF g = f /\ n = inode'[u][f] THEN Empty
                                   ELSE content[g][n]
<1> DEFINE n == IF path[f] = 0 THEN u ELSE path[f]
<1> USE DEF TypeInv, TypeOK
<1>1. n \in Uploads /\ 0 \notin Uploads
  BY DEF Uploads
<1>2. /\ path' = [path EXCEPT ![f] = n]
      /\ content' = [content EXCEPT ![f][n] = Empty]
      /\ inode' = [inode EXCEPT ![u][f] = n]
  BY DEF Create
<1> HIDE DEF n
<1>3. /\ inode' \in [Uploads -> [TempFiles -> {0} \cup Uploads]]
      /\ \A v \in Uploads, g \in TempFiles :
             inode'[v][g] = IF v = u /\ g = f THEN n ELSE inode[v][g]
  BY <1>1, <1>2
<1>4. /\ content' \in [TempFiles -> [Uploads -> [1 .. Pieces -> Cells]]]
      /\ \A g \in TempFiles, m \in Uploads :
             content'[g][m] = IF g = f /\ m = n THEN Empty ELSE content[g][m]
  BY <1>1, <1>2, EmptyType
<1>5. /\ path' \in [TempFiles -> {0} \cup Uploads]
      /\ path'[f] = n
      /\ \A g \in TempFiles \ {f} : path'[g] = path[g]
  BY <1>1, <1>2
<1> QED BY <1>1, <1>3, <1>4, <1>5

\* What a step does to the stage of an upload.
LEMMA Gone ==
    ASSUME stage \in [Uploads -> Stages], NEW u \in Uploads, NEW s \in Stages,
           Goto(u, s)
    PROVE  /\ stage' \in [Uploads -> Stages]
           /\ stage'[u] = s
           /\ \A v \in Uploads \ {u} : stage'[v] = stage[v]
BY DEF Goto

LEMMA StageType == TypeInv => stage \in [Uploads -> Stages]
BY DEF TypeInv, TypeOK, Stages

\* What a flush changes.
LEMMA Flushed ==
    ASSUME TypeInv, NEW u \in Uploads, stage[u] = "tagging", Flush(u)
    PROVE  /\ content' \in [TempFiles -> [Uploads -> [1 .. Pieces -> Cells]]]
           /\ \A g \in TempFiles, n \in Uploads :
                  content'[g][n] =
                      IF g = "tags" /\ n = inode[u]["tags"]
                      THEN [k \in 1 .. Pieces |->
                               IF k \in next[u] - Len(buffer[u]) + 1 .. next[u]
                               THEN buffer[u][k - (next[u] - Len(buffer[u]))]
                               ELSE content[g][n][k]]
                      ELSE content[g][n]
<1> DEFINE n == inode[u]["tags"]
           flushed == next[u] - Len(buffer[u])
           cells == [k \in 1 .. Pieces |->
                        IF k \in flushed + 1 .. next[u] THEN buffer[u][k - flushed]
                        ELSE content["tags"][n][k]]
<1> USE DEF TypeInv, TypeOK
<1>1. n \in Uploads /\ "tags" \in TempFiles
  BY DEF Opened, TempFiles
<1>2. content' = [content EXCEPT !["tags"][n] = cells]
  <2>1. content' = [content EXCEPT !["tags"][n] =
            [k \in 1 .. Pieces |->
                IF k \in flushed + 1 .. next[u] THEN buffer[u][k - flushed]
                ELSE @[k]]]
    BY DEF Flush
  <2> QED BY <1>1, <2>1
<1>3. cells \in [1 .. Pieces -> Cells]
  <2>1. \A k \in 1 .. Len(buffer[u]) : buffer[u][k] \in Cells
    BY DEF Cells
  <2>2. /\ Len(buffer[u]) \in Nat /\ next[u] \in 0 .. Pieces
        /\ content["tags"][n] \in [1 .. Pieces -> Cells]
    BY <1>1
  <2>3. \A k \in 1 .. Pieces :
           k \in flushed + 1 .. next[u] => k - flushed \in 1 .. Len(buffer[u])
    BY <2>2
  <2> QED BY <2>1, <2>2, <2>3
<1> HIDE DEF n, cells
<1>4. /\ content' \in [TempFiles -> [Uploads -> [1 .. Pieces -> Cells]]]
      /\ \A g \in TempFiles, m \in Uploads :
             content'[g][m] = IF g = "tags" /\ m = n THEN cells ELSE content[g][m]
  BY <1>1, <1>2, <1>3
<1> QED BY <1>1, <1>4 DEF n, cells

LEMMA TypePrepare ==
    ASSUME TypeInv, NEW u \in Uploads, Prepare(u)
    PROVE  TypeInv'
<1> USE DEF TypeInv
<1>0. stage \in [Uploads -> Stages]
  BY StageType
<1>1. CASE Begin(u)
  <2>1. /\ stage' \in [Uploads -> Stages] /\ stage'[u] = "compress"
        /\ \A v \in Uploads \ {u} : stage'[v] = stage[v]
    BY <1>0, <1>1, Gone DEF Begin, Stages
  <2>2. begun' \in 0 .. MaxUploads
    BY <1>1 DEF Begin, Uploads
  <2>3. overlapped' \subseteq Uploads /\ spoiled' \subseteq Uploads
    BY <1>1 DEF Begin, TypeOK
  <2>4. Fresh'
    <3>1. begun' = u /\ u > begun /\ begun' \in Int
      BY <1>1 DEF Begin, TypeOK, Uploads
    <3>2. \A v \in Uploads : v > begun' => v > begun /\ v # u
      BY <3>1 DEF TypeOK, Uploads
    <3>3. stage[u] = "none"
      BY <3>1 DEF Fresh
    <3> QED BY <1>1, <2>1, <3>2, <3>3 DEF Begin, Fresh, store_vars
  <2> QED BY <1>1, <2>1, <2>2, <2>3, <2>4
          DEF Begin, TypeOK, Opened, Stages, temp_vars, store_vars
<1>2. CASE Compress(u)
  <2>1. Create(u, "compressed") /\ "compressed" \in TempFiles
    BY <1>2 DEF Compress, TempFiles
  <2>2. /\ stage' \in [Uploads -> Stages] /\ stage'[u] = "compressing"
        /\ \A v \in Uploads \ {u} : stage'[v] = stage[v]
    BY <1>0, <1>2, Gone DEF Compress, Stages
  <2>3. UNCHANGED <<next, size, buffer, store_vars, app_vars, history_vars>>
    BY <1>2 DEF Compress
  <2>4. Opened'
    <3>1. /\ inode'[u]["compressed"] \in Uploads
          /\ \A v \in Uploads, g \in TempFiles : v # u => inode'[v][g] = inode[v][g]
      BY <2>1, Created
    <3>2. inode'[u]["compressed"] # 0
      BY <3>1 DEF Uploads
    <3> QED BY <2>2, <3>1, <3>2 DEF Opened, TempFiles
  <2>5. Fresh'
    BY <1>2, <2>2, <2>3 DEF Compress, Fresh, store_vars, app_vars
  <2> QED BY <2>1, <2>2, <2>3, <2>4, <2>5, Created
          DEF TypeOK, Stages, store_vars, app_vars, history_vars
<1>3. CASE CompressThrows(u)
  BY <1>3 DEF CompressThrows, TypeOK, Opened, Fresh, Goto, temp_vars, store_vars,
              app_vars, history_vars
<1>4. CASE WritePiece(u)
  <2> DEFINE n == inode[u]["compressed"]
  <2>1. /\ n \in Uploads /\ "compressed" \in TempFiles
        /\ next[u] + 1 \in 1 .. Pieces /\ u \in Cells
    BY <1>4 DEF WritePiece, TypeOK, Opened, TempFiles, Cells
  <2>2. content' = [content EXCEPT !["compressed"][n] = [@ EXCEPT ![next[u] + 1] = u]]
    BY <1>4 DEF WritePiece
  <2> HIDE DEF n
  <2>3. content' \in [TempFiles -> [Uploads -> [1 .. Pieces -> Cells]]]
    BY <2>1, <2>2 DEF TypeOK
  <2>4. /\ next' \in [Uploads -> 0 .. Pieces]
        /\ \A v \in Uploads : next'[v] >= next[v] /\ (v # u => next'[v] = next[v])
    BY <1>4 DEF WritePiece, TypeOK
  <2>5. \A v \in Uploads : Len(buffer'[v]) <= next'[v]
    BY <1>4, <2>4 DEF WritePiece, TypeOK
  <2>6. UNCHANGED <<path, stage, inode, size, buffer, request, body, object, begun,
                    running, listed, left, missing, overlapped, spoiled>>
    BY <1>4 DEF WritePiece, store_vars, app_vars, history_vars
  <2>7. Fresh'
    BY <1>4, <2>4, <2>6 DEF WritePiece, Fresh
  <2> QED BY <2>3, <2>4, <2>5, <2>6, <2>7 DEF TypeOK, Opened
<1>5. CASE OpenCompressed(u)
  <2> DEFINE n == path["compressed"]
  <2>1. n \in Uploads /\ "compressed" \in TempFiles
    BY <1>5 DEF OpenCompressed, TypeOK, TempFiles
  <2>2. Length(content["compressed"][n]) \in 0 .. Pieces
    BY <2>1, LengthOf DEF TypeOK
  <2>3. size' \in [Uploads -> 0 .. Pieces]
    BY <1>5, <2>2 DEF OpenCompressed, TypeOK
  <2>4. /\ stage' \in [Uploads -> Stages] /\ stage'[u] = "compressed"
        /\ \A v \in Uploads \ {u} : stage'[v] = stage[v]
    BY <1>0, <1>5, Gone DEF OpenCompressed, Stages
  <2>5. inode' = [inode EXCEPT ![u]["compressed"] = n]
    BY <1>5 DEF OpenCompressed
  <2> HIDE DEF n
  <2>6. /\ inode' \in [Uploads -> [TempFiles -> {0} \cup Uploads]]
        /\ inode'[u]["compressed"] = n
        /\ \A v \in Uploads \ {u} : inode'[v] = inode[v]
    BY <2>1, <2>5 DEF TypeOK
  <2>7. Opened'
    BY <2>1, <2>4, <2>6 DEF Opened, Uploads
  <2>8. /\ next' \in [Uploads -> 0 .. Pieces] /\ next'[u] = 0
        /\ \A v \in Uploads \ {u} : next'[v] = next[v]
    BY <1>5 DEF OpenCompressed, TypeOK
  <2>9. buffer[u] = <<>> /\ Len(<<>>) = 0
    BY <1>5 DEF OpenCompressed, Fresh
  <2>10. UNCHANGED <<path, content, buffer, request, body, object, begun,
                    running, listed, left, missing, overlapped, spoiled>>
    BY <1>5 DEF OpenCompressed, temp_vars, store_vars, app_vars, history_vars
  <2>11. Fresh'
    BY <1>5, <2>4, <2>8, <2>9, <2>10 DEF OpenCompressed, Fresh
  <2>12. \A v \in Uploads : Len(buffer'[v]) <= next'[v]
    <3>1. \A v \in Uploads : Len(buffer[v]) <= next[v]
      BY DEF TypeOK
    <3> QED BY <2>8, <2>9, <2>10, <3>1
  <2> QED BY <2>3, <2>4, <2>6, <2>7, <2>8, <2>10, <2>11, <2>12 DEF TypeOK, Stages
<1>6. CASE OpenCompressedThrows(u)
  BY <1>6 DEF OpenCompressedThrows, TypeOK, Opened, Fresh, Goto, temp_vars,
              store_vars, app_vars
<1>7. CASE CreateTags(u)
  <2>1. Create(u, "tags") /\ "tags" \in TempFiles
    BY <1>7 DEF CreateTags, TempFiles
  <2>2. /\ stage' \in [Uploads -> Stages] /\ stage'[u] = "tagging"
        /\ \A v \in Uploads \ {u} : stage'[v] = stage[v]
    BY <1>0, <1>7, Gone DEF CreateTags, Stages
  <2>3. UNCHANGED <<next, size, buffer, store_vars, app_vars, history_vars>>
    BY <1>7 DEF CreateTags
  <2>4. Opened'
    <3>1. /\ inode'[u]["tags"] \in Uploads
          /\ \A v \in Uploads, g \in TempFiles :
                 v # u \/ g # "tags" => inode'[v][g] = inode[v][g]
      BY <2>1, Created
    <3>2. inode'[u]["tags"] # 0
      BY <3>1 DEF Uploads
    <3>3. stage[u] = "compressed"
      BY <1>7 DEF CreateTags
    <3> QED BY <2>2, <3>1, <3>2, <3>3 DEF Opened, TempFiles
  <2>5. Fresh'
    BY <1>7, <2>2, <2>3 DEF CreateTags, Fresh, store_vars, app_vars
  <2> QED BY <2>1, <2>2, <2>3, <2>4, <2>5, Created
          DEF TypeOK, Stages, store_vars, app_vars, history_vars
<1>8. CASE CreateTagsThrows(u)
  BY <1>8 DEF CreateTagsThrows, TypeOK, Opened, Fresh, Goto, TempFiles, temp_vars,
              store_vars, app_vars
<1>9. CASE TagPiece(u)
  <2>1. /\ next' \in [Uploads -> 0 .. Pieces] /\ next'[u] = next[u] + 1
        /\ \A v \in Uploads \ {u} : next'[v] = next[v]
    BY <1>9 DEF TagPiece, TypeOK
  <2>2. PICK tag \in {u, Spoilt} :
           \/ buffer' = [buffer EXCEPT ![u] = Append(@, tag)] /\ UNCHANGED content
           \/ buffer' = [buffer EXCEPT ![u] = <<tag>>] /\ Flush(u)
    BY <1>9 DEF TagPiece
  <2>3. content' \in [TempFiles -> [Uploads -> [1 .. Pieces -> Cells]]]
    BY <1>9, <2>2, Flushed DEF TagPiece, TypeOK
  <2>4. /\ Append(buffer[u], tag) \in Seq(Uploads \cup {Spoilt})
        /\ Len(Append(buffer[u], tag)) = Len(buffer[u]) + 1
        /\ <<tag>> \in Seq(Uploads \cup {Spoilt}) /\ Len(<<tag>>) = 1
        /\ Len(buffer[u]) \in Nat
    BY DEF TypeOK
  <2>5. /\ buffer' \in [Uploads -> Seq(Uploads \cup {Spoilt})]
        /\ Len(buffer'[u]) \in {1, Len(buffer[u]) + 1}
        /\ \A v \in Uploads \ {u} : buffer'[v] = buffer[v]
    <3>1. CASE buffer' = [buffer EXCEPT ![u] = Append(@, tag)]
      BY <2>4, <3>1 DEF TypeOK
    <3>2. CASE buffer' = [buffer EXCEPT ![u] = <<tag>>]
      BY <2>4, <3>2 DEF TypeOK
    <3> QED BY <2>2, <3>1, <3>2
  <2>6. ASSUME NEW v \in Uploads PROVE Len(buffer'[v]) <= next'[v]
    <3>1. Len(buffer[v]) <= next[v] /\ next[u] \in Nat
      BY DEF TypeOK
    <3>2. CASE v # u
      BY <2>1, <2>5, <3>1, <3>2
    <3>3. CASE v = u
      <4>1. Len(buffer'[u]) = 1 \/ Len(buffer'[u]) = Len(buffer[u]) + 1
        BY <2>5
      <4>2. Len(buffer[u]) <= next[u] /\ next'[u] = next[u] + 1
        BY <2>1, <3>1, <3>3
      <4>3. Len(buffer[u]) \in Nat /\ next[u] \in Nat
        BY <2>4, <3>1
      <4>4. ASSUME NEW a \in Nat, NEW b \in Nat, NEW c, NEW d,
                   a <= b, d = b + 1, c = 1 \/ c = a + 1
            PROVE  c <= d
        BY <4>4
      <4>5. Len(buffer'[u]) <= next'[u]
        BY <4>1, <4>2, <4>3, <4>4, Zenon
      <4> QED BY <3>3, <4>5
    <3> QED BY <3>2, <3>3
  <2>7. UNCHANGED <<path, stage, inode, size, request, body, object, begun,
                    running, listed, left, missing, overlapped, spoiled>>
    BY <1>9 DEF TagPiece, store_vars, app_vars, history_vars
  <2>8. stage[u] = "tagging"
    BY <1>9 DEF TagPiece
  <2>9. Fresh'
    BY <2>1, <2>5, <2>7, <2>8 DEF Fresh
  <2> QED BY <2>1, <2>3, <2>5, <2>6, <2>7, <2>9 DEF TypeOK, Opened
<1>10. CASE Done(u)
  <2>1. /\ stage' \in [Uploads -> Stages] /\ stage'[u] = "storing"
        /\ \A v \in Uploads \ {u} : stage'[v] = stage[v]
    BY <1>0, <1>10, Gone DEF Done, Stages
  <2>2. content' \in [TempFiles -> [Uploads -> [1 .. Pieces -> Cells]]]
    BY <1>10, Flushed DEF Done
  <2>3. /\ buffer' \in [Uploads -> Seq(Uploads \cup {Spoilt})]
        /\ buffer'[u] = <<>>
        /\ \A v \in Uploads \ {u} : buffer'[v] = buffer[v]
    <3>1. <<>> \in Seq(Uploads \cup {Spoilt})
      OBVIOUS
    <3> QED BY <1>10, <3>1 DEF Done, TypeOK
  <2>4. \A v \in Uploads : Len(buffer'[v]) <= next'[v]
    <3>1. \A v \in Uploads : Len(buffer[v]) <= next[v] /\ next[v] >= 0
      BY DEF TypeOK
    <3>2. Len(<<>>) = 0 /\ next' = next
      BY <1>10 DEF Done
    <3> QED BY <2>3, <3>1, <3>2
  <2>5. request' \in [Uploads -> [Objects -> {"none", "starting", "reading", "stored"}]]
    BY <1>10 DEF Done, TypeOK
  <2>6. UNCHANGED <<path, inode, next, size, body, object, begun,
                    running, listed, left, missing, overlapped, spoiled>>
    BY <1>10 DEF Done, app_vars, history_vars
  <2>7. stage[u] = "tagging"
    BY <1>10 DEF Done
  <2>8. Fresh' /\ Opened'
    BY <2>1, <2>3, <2>6, <2>7 DEF Fresh, Opened
  <2> QED BY <2>1, <2>2, <2>3, <2>4, <2>5, <2>6, <2>8 DEF TypeOK, Stages
<1> QED BY <1>1, <1>2, <1>3, <1>4, <1>5, <1>6, <1>7, <1>8, <1>9, <1>10 DEF Prepare

\* A thread's request goes on to its next state.
LEMMA Proceeded ==
    ASSUME TypeInv, NEW u \in Uploads, NEW o \in Objects,
           NEW s \in {"reading", "stored"}, Proceed(u, o, s)
    PROVE  /\ request' \in [Uploads ->
                  [Objects -> {"none", "starting", "reading", "stored"}]]
           /\ request'[u][o] = s
           /\ \A v \in Uploads, q \in Objects :
                  v # u \/ q # o => request'[v][q] = request[v][q]
BY DEF Proceed, TypeInv, TypeOK

\* What becomes of the object that a request stores.
LEMMA SentType ==
    ASSUME TypeInv, NEW u \in Uploads, NEW o \in Objects, Sent(u, o),
           body' \in [Uploads -> [Objects -> Seq(Uploads \cup {Spoilt})]]
    PROVE  /\ object' \in [Objects -> [of : {0} \cup Uploads,
                                       body : Seq(Uploads \cup {Spoilt})]]
           /\ object'[o] = [of |-> u, body |-> body'[u][o]]
           /\ \A q \in Objects \ {o} : object'[q] = object[q]
           /\ Proceed(u, o, "stored")
<1> DEFINE new == [of |-> u, body |-> body'[u][o]]
<1>1. new \in [of : {0} \cup Uploads, body : Seq(Uploads \cup {Spoilt})]
  OBVIOUS
<1>2. object' = [object EXCEPT ![o] = new] /\ Proceed(u, o, "stored")
  BY DEF Sent
<1> HIDE DEF new
<1>3. /\ object' \in [Objects -> [of : {0} \cup Uploads,
                                  body : Seq(Uploads \cup {Spoilt})]]
      /\ object'[o] = new
      /\ \A q \in Objects \ {o} : object'[q] = object[q]
  BY <1>1, <1>2 DEF TypeInv, TypeOK
<1> QED BY <1>2, <1>3 DEF new

LEMMA TypeStore ==
    ASSUME TypeInv, NEW u \in Uploads, Store(u)
    PROVE  TypeInv'
<1> USE DEF TypeInv
<1>1. CASE OpenTags(u)
  <2>1. /\ inode' \in [Uploads -> [TempFiles -> {0} \cup Uploads]]
        /\ inode'[u]["tags"] # 0
        /\ \A v \in Uploads : inode'[v]["compressed"] = inode[v]["compressed"]
        /\ \A v \in Uploads \ {u} : inode'[v] = inode[v]
    BY <1>1 DEF OpenTags, TypeOK, TempFiles
  <2>2. Opened'
    BY <1>1, <2>1 DEF OpenTags, Opened
  <2>3. Fresh'
    BY <1>1 DEF OpenTags, Fresh, app_vars
  <2> QED BY <1>1, <2>1, <2>2, <2>3, Proceeded
          DEF OpenTags, TypeOK, Objects, temp_vars, app_vars, history_vars
<1>2. CASE OpenTagsThrows(u)
  BY <1>2, TypeEnd DEF OpenTagsThrows, TypeOK
<1>3. CASE SendFileTag(u)
  <2>1. /\ size[u] \in Nat /\ "file tag" \in Objects
        /\ [k \in 1 .. size[u] |-> u] \in Seq(Uploads \cup {Spoilt})
    <3>1. size[u] \in 0 .. Pieces
      BY DEF TypeOK
    <3>2. "file tag" \in Objects
      BY DEF Objects
    <3>3. \A k \in 1 .. size[u] : u \in Uploads \cup {Spoilt}
      OBVIOUS
    <3>4. size[u] \in Nat
      BY <3>1
    <3>5. [k \in 1 .. size[u] |-> u] \in Seq(Uploads \cup {Spoilt})
      BY <3>4
    <3> QED BY <3>2, <3>4, <3>5
  <2>2. /\ body' \in [Uploads -> [Objects -> Seq(Uploads \cup {Spoilt})]]
        /\ \A v \in Uploads \ {u} : body'[v] = body[v]
    BY <1>3, <2>1 DEF SendFileTag, TypeOK
  <2>3. UNCHANGED <<path, content, stage, inode, next, size, buffer, begun,
                    running, listed, left, missing, overlapped, spoiled>>
    BY <1>3 DEF SendFileTag, temp_vars, worker_vars, app_vars, history_vars
  <2>4. Fresh' /\ Opened'
    BY <1>3, <2>2, <2>3 DEF SendFileTag, Thread, Fresh, Opened
  <2> QED BY <1>3, <2>1, <2>2, <2>3, <2>4, SentType, Proceeded DEF SendFileTag, TypeOK
<1>4. ASSUME NEW o \in Objects, ReadPiece(u, o)
      PROVE  TypeInv'
  <2> DEFINE f == Source(o)
             cells == content[f][inode[u][f]]
             k == Len(body[u][o]) + 1
             piece == IF cells[k] = None THEN Spoilt ELSE cells[k]
  <2>1. f \in TempFiles /\ inode[u][f] \in Uploads
    <3>1. f \in TempFiles
      BY DEF Source, TempFiles
    <3>2. inode[u][f] # 0
      BY <1>4 DEF ReadPiece, Thread, Source, Opened
    <3> QED BY <3>1, <3>2 DEF TypeOK
  <2>2. cells \in [1 .. Pieces -> Cells]
    BY <2>1 DEF TypeOK
  <2>3. k \in 1 .. Pieces
    <3>1. Len(body[u][o]) \in Nat
      BY DEF TypeOK
    <3>2. k <= Length(cells)
      BY <1>4 DEF ReadPiece
    <3>3. Length(cells) \in 0 .. Pieces
      BY <2>2, LengthOf
    <3> QED BY <3>1, <3>2, <3>3
  <2>4. piece \in Uploads \cup {Spoilt}
    BY <2>2, <2>3 DEF Cells
  <2>5. body' = [body EXCEPT ![u][o] = Append(@, piece)]
    BY <1>4 DEF ReadPiece
  <2> HIDE DEF piece
  <2>6. /\ body' \in [Uploads -> [Objects -> Seq(Uploads \cup {Spoilt})]]
        /\ \A v \in Uploads \ {u} : body'[v] = body[v]
    <3>1. Append(body[u][o], piece) \in Seq(Uploads \cup {Spoilt})
      BY <2>4 DEF TypeOK
    <3> QED BY <2>5, <3>1 DEF TypeOK
  <2>7. UNCHANGED <<path, content, stage, inode, next, size, buffer, request, object,
                    begun, running, listed, left, missing, overlapped, spoiled>>
    BY <1>4 DEF ReadPiece, temp_vars, worker_vars, app_vars, history_vars
  <2>8. Fresh' /\ Opened'
    BY <1>4, <2>6, <2>7 DEF ReadPiece, Thread, Fresh, Opened
  <2> QED BY <2>6, <2>7, <2>8 DEF TypeOK
<1>5. ASSUME NEW o \in Objects, SendRest(u, o)
      PROVE  TypeInv'
  <2>1. UNCHANGED <<path, content, stage, inode, next, size, buffer, body, begun,
                    running, listed, left, missing, overlapped, spoiled>>
    BY <1>5 DEF SendRest, temp_vars, worker_vars, app_vars, history_vars
  <2>2. Fresh' /\ Opened'
    BY <2>1 DEF Fresh, Opened
  <2>3. Sent(u, o) /\ body' \in [Uploads -> [Objects -> Seq(Uploads \cup {Spoilt})]]
    BY <1>5, <2>1 DEF SendRest, TypeOK
  <2> QED BY <2>1, <2>2, <2>3, SentType, Proceeded DEF TypeOK
<1>6. ASSUME NEW o \in Objects, RequestThrows(u, o)
      PROVE  TypeInv'
  BY <1>6, TypeEnd DEF RequestThrows, TypeOK
<1> QED BY <1>1, <1>2, <1>3, <1>4, <1>5, <1>6 DEF Store

LEMMA TypeFinish ==
    ASSUME TypeInv, NEW u \in Uploads, Finish(u)
    PROVE  TypeInv'
<1> USE DEF TypeInv
<1>1. CASE Return(u)
  <2>1. /\ request' \in [Uploads ->
               [Objects -> {"none", "starting", "reading", "stored"}]]
        /\ body' \in [Uploads -> [Objects -> Seq(Uploads \cup {Spoilt})]]
        /\ body'[u] = NoBody
        /\ \A v \in Uploads \ {u} : body'[v] = body[v]
    BY <1>1, NoBodyType DEF Return, TypeOK, NoRequest
  <2>2. /\ path' \in [TempFiles -> {0} \cup Uploads]
        /\ left' \subseteq TempFiles
    BY <1>1 DEF Return, Remove, TypeOK
  <2>3. /\ stage' \in [Uploads -> Stages] /\ stage'[u] = "deleting"
        /\ \A v \in Uploads \ {u} : stage'[v] = stage[v]
    BY <1>1, Gone, StageType DEF Return, Stages
  <2>4. UNCHANGED <<content, inode, next, size, buffer, object, begun,
                    running, listed, missing, overlapped, spoiled>>
    BY <1>1 DEF Return, app_vars
  <2>5. Fresh' /\ Opened'
    <3>1. stage[u] = "storing"
      BY <1>1 DEF Return
    <3>2. Opened'
      BY <2>3, <2>4, <3>1 DEF Opened
    <3>3. Fresh'
      BY <2>1, <2>3, <2>4, <3>1 DEF Fresh
    <3> QED BY <3>2, <3>3
  <2> QED BY <2>1, <2>2, <2>3, <2>4, <2>5 DEF TypeOK, Stages
<1>2. CASE DeleteTags(u)
  <2>1. /\ path' \in [TempFiles -> {0} \cup Uploads]
        /\ left' \subseteq TempFiles
    BY <1>2 DEF DeleteTags, Remove, TypeOK
  <2>2. /\ stage' \in [Uploads -> Stages] /\ stage'[u] = "ended"
        /\ \A v \in Uploads \ {u} : stage'[v] = stage[v]
    BY <1>2, Gone, StageType DEF DeleteTags, Stages
  <2>3. Fresh' /\ Opened'
    BY <1>2, <2>2 DEF DeleteTags, Fresh, Opened, store_vars, app_vars
  <2> QED BY <1>2, <2>1, <2>2, <2>3
          DEF DeleteTags, TypeOK, Stages, store_vars, app_vars
<1>3. CASE Refresh(u)
  <2>1. /\ stage' \in [Uploads -> Stages] /\ stage'[u] = "over"
        /\ \A v \in Uploads \ {u} : stage'[v] = stage[v]
    BY <1>3, Gone, StageType DEF Refresh, Stages
  <2>2. Fresh' /\ Opened'
    BY <1>3, <2>1 DEF Refresh, Fresh, Opened, store_vars
  <2>3. listed' \in {0} \cup Uploads
    BY <1>3 DEF Refresh, TypeOK, Objects
  <2> QED BY <1>3, <2>1, <2>2, <2>3
          DEF Refresh, TypeOK, Stages, temp_vars, store_vars, history_vars
<1>4. CASE RefreshThrows(u)
  BY <1>4, TypeEnd DEF RefreshThrows, TypeOK
<1> QED BY <1>1, <1>2, <1>3, <1>4 DEF Finish

LEMMA TypeStep == TypeInv /\ [Next]_vars => TypeInv'
<1> SUFFICES ASSUME TypeInv, [Next]_vars PROVE TypeInv'
  OBVIOUS
<1>1. CASE Crash
  BY <1>1, TypeEnd DEF Crash, TypeInv, TypeOK
<1>2. CASE Restart
  BY <1>2 DEF Restart, TypeInv, TypeOK, Opened, Fresh, Objects, temp_vars,
              worker_vars, store_vars, history_vars
<1>3. CASE UNCHANGED vars
  BY <1>3 DEF TypeInv, TypeOK, Opened, Fresh, vars, temp_vars, worker_vars,
              store_vars, app_vars, history_vars
<1> QED BY <1>1, <1>2, <1>3, TypePrepare, TypeStore, TypeFinish DEF Next

\* The variables have their types.
THEOREM TypeCorrect == Spec => []TypeOK
<1>1. TypeInv => TypeOK
  BY DEF TypeInv
<1> QED BY <1>1, TypeInit, TypeStep, PTL DEF Spec

-----------------------------------------------------------------------------
(* Temporary files                                                         *)

\* An upload that has made a temporary file and will remove it.
Holds(u, f) ==
    stage[u] \in IF f = "compressed"
                 THEN {"compressing", "compressed", "tagging", "storing"}
                 ELSE {"tagging", "storing", "deleting"}

\* A temporary file is there for an upload, or has been left.
Accounted ==
    \A f \in TempFiles : path[f] # 0 => f \in left \/ \E u \in Uploads : Holds(u, f)

LEMMA AccountedPrepare ==
    ASSUME TypeInv, Accounted, NEW u \in Uploads, Prepare(u)
    PROVE  Accounted'
<1> USE DEF Accounted, Holds, TempFiles
<1>0. stage \in [Uploads -> Stages]
  BY StageType
<1>1. CASE Begin(u)
  <2>1. stage[u] = "none"
    BY <1>1 DEF Begin, TypeInv, TypeOK, Fresh, Uploads
  <2> QED BY <1>0, <1>1, <2>1 DEF Begin, Goto, temp_vars
<1>2. CASE Compress(u)
  <2>1. path'["tags"] = path["tags"]
    BY <1>2, Created DEF Compress
  <2> QED BY <1>0, <1>2, <2>1 DEF Compress, Goto, history_vars
<1>3. CASE CompressThrows(u)
  BY <1>0, <1>3 DEF CompressThrows, Goto, temp_vars, history_vars
<1>4. CASE WritePiece(u)
  BY <1>4 DEF WritePiece, history_vars
<1>5. CASE OpenCompressed(u)
  BY <1>0, <1>5 DEF OpenCompressed, Goto, temp_vars, history_vars
<1>6. CASE OpenCompressedThrows(u)
  BY <1>0, <1>6 DEF OpenCompressedThrows, Goto, temp_vars
<1>7. CASE CreateTags(u)
  <2>1. path'["compressed"] = path["compressed"]
    BY <1>7, Created DEF CreateTags
  <2> QED BY <1>0, <1>7, <2>1 DEF CreateTags, Goto, history_vars
<1>8. CASE CreateTagsThrows(u)
  BY <1>0, <1>8 DEF CreateTagsThrows, Goto, temp_vars
<1>9. CASE TagPiece(u)
  BY <1>9 DEF TagPiece, history_vars
<1>10. CASE Done(u)
  BY <1>0, <1>10 DEF Done, Goto, history_vars
<1> QED BY <1>1, <1>2, <1>3, <1>4, <1>5, <1>6, <1>7, <1>8, <1>9, <1>10 DEF Prepare

LEMMA AccountedEnd ==
    ASSUME TypeInv, Accounted, End
    PROVE  Accounted'
BY DEF End, Accounted, temp_vars

LEMMA AccountedStep == TypeInv /\ Accounted /\ [Next]_vars => Accounted'
<1> SUFFICES ASSUME TypeInv, Accounted, [Next]_vars PROVE Accounted'
  OBVIOUS
<1> USE DEF Accounted, Holds, TempFiles
<1>0. stage \in [Uploads -> Stages]
  BY StageType
<1>1. CASE Crash
  BY <1>1, AccountedEnd DEF Crash
<1>2. CASE Restart
  BY <1>2 DEF Restart, temp_vars, worker_vars, history_vars
<1>3. CASE UNCHANGED vars
  BY <1>3 DEF vars, temp_vars, worker_vars, history_vars
<1>4. ASSUME NEW u \in Uploads, Store(u) PROVE Accounted'
  <2>1. CASE End
    BY <2>1, AccountedEnd
  <2>2. CASE UNCHANGED <<path, stage, left>>
    BY <2>2
  <2> QED BY <1>4, <2>1, <2>2
          DEF Store, OpenTags, OpenTagsThrows, SendFileTag, ReadPiece, SendRest,
              RequestThrows, temp_vars, worker_vars, history_vars
<1>5. ASSUME NEW u \in Uploads, Return(u) PROVE Accounted'
  BY <1>0, <1>5 DEF Return, Remove, Goto, TypeInv, TypeOK
<1>6. ASSUME NEW u \in Uploads, DeleteTags(u) PROVE Accounted'
  BY <1>0, <1>6 DEF DeleteTags, Remove, Goto, TypeInv, TypeOK
<1>7. ASSUME NEW u \in Uploads, Refresh(u) PROVE Accounted'
  BY <1>0, <1>7 DEF Refresh, Goto, temp_vars, history_vars
<1>8. ASSUME NEW u \in Uploads, RefreshThrows(u) PROVE Accounted'
  BY <1>8, AccountedEnd DEF RefreshThrows
<1> QED BY <1>1, <1>2, <1>3, <1>4, <1>5, <1>6, <1>7, <1>8, AccountedPrepare
        DEF Next, Finish

\* When no upload runs there are no temporary files but those that an end of the
\* application, or an upload that threw, has left: whatever the number of uploads
\* that share their paths.
THEOREM FilesRemoved == Spec => []TempFilesRemoved
<1>1. Init => Accounted
  BY DEF Init, Accounted
<1>2. TypeInv /\ Accounted => TempFilesRemoved
  BY DEF Accounted, TempFilesRemoved, Holds, Executing, Preparing
<1> QED BY <1>1, <1>2, TypeInit, TypeStep, AccountedStep, PTL DEF Spec

-----------------------------------------------------------------------------
(* Missing files                                                           *)

\* An upload beside which no other has run is alone, and what it has made is
\* there.
Alone ==
    \A u \in Uploads \ overlapped :
        /\ Executing(u) => \A v \in Uploads \ {u} : ~Executing(v)
        /\ Holds(u, "compressed") => path["compressed"] # 0
        /\ stage[u] \in {"tagging", "storing"} => path["tags"] # 0

MissingInv == Alone /\ MissingNeedsOverlap

LEMMA MissingEnd ==
    ASSUME TypeInv, MissingInv, End, missing' \subseteq overlapped'
    PROVE  MissingInv'
BY DEF End, MissingInv, Alone, MissingNeedsOverlap, Executing, Preparing, Holds

LEMMA MissingPrepare ==
    ASSUME TypeInv, MissingInv, NEW u \in Uploads, Prepare(u)
    PROVE  MissingInv'
<1> USE DEF MissingInv, Alone, MissingNeedsOverlap, Executing, Preparing, Holds
<1>0. stage \in [Uploads -> Stages]
  BY StageType
<1>1. CASE Begin(u)
  BY <1>0, <1>1 DEF Begin, Goto, temp_vars
<1>2. CASE Compress(u)
  <2>1. /\ path'["tags"] = path["tags"]
        /\ path'["compressed"] # 0
    BY <1>2, Created DEF Compress, TempFiles, Uploads
  <2> QED BY <1>0, <1>2, <2>1 DEF Compress, Goto, history_vars
<1>3. CASE CompressThrows(u)
  BY <1>0, <1>3 DEF CompressThrows, Goto, temp_vars, history_vars
<1>4. CASE WritePiece(u)
  BY <1>4 DEF WritePiece, history_vars
<1>5. CASE OpenCompressed(u)
  BY <1>0, <1>5 DEF OpenCompressed, Goto, temp_vars, history_vars
<1>6. CASE OpenCompressedThrows(u)
  BY <1>0, <1>6 DEF OpenCompressedThrows, Goto, temp_vars
<1>7. CASE CreateTags(u)
  <2>1. /\ path'["compressed"] = path["compressed"]
        /\ path'["tags"] # 0
    BY <1>7, Created DEF CreateTags, TempFiles, Uploads
  <2> QED BY <1>0, <1>7, <2>1 DEF CreateTags, Goto, history_vars
<1>8. CASE CreateTagsThrows(u)
  BY <1>0, <1>8 DEF CreateTagsThrows, Goto, temp_vars
<1>9. CASE TagPiece(u)
  BY <1>9 DEF TagPiece, history_vars
<1>10. CASE Done(u)
  BY <1>0, <1>10 DEF Done, Goto, history_vars
<1> QED BY <1>1, <1>2, <1>3, <1>4, <1>5, <1>6, <1>7, <1>8, <1>9, <1>10 DEF Prepare

LEMMA MissingStep == TypeInv /\ MissingInv /\ [Next]_vars => MissingInv'
<1> SUFFICES ASSUME TypeInv, MissingInv, [Next]_vars PROVE MissingInv'
  OBVIOUS
<1> USE DEF MissingInv, Alone, MissingNeedsOverlap, Executing, Preparing, Holds
<1>0. stage \in [Uploads -> Stages]
  BY StageType
<1>1. CASE Crash
  BY <1>1, MissingEnd DEF Crash, End
<1>2. CASE Restart
  BY <1>2 DEF Restart, temp_vars, worker_vars, history_vars
<1>3. CASE UNCHANGED vars
  BY <1>3 DEF vars, temp_vars, worker_vars, history_vars
<1>4. ASSUME NEW u \in Uploads, Store(u) PROVE MissingInv'
  <2>1. CASE OpenTagsThrows(u)
    <3>1. u \in overlapped
      BY <2>1 DEF OpenTagsThrows, Thread
    <3> QED BY <2>1, <3>1, MissingEnd DEF OpenTagsThrows, End
  <2>2. ASSUME NEW o \in Objects, RequestThrows(u, o) PROVE MissingInv'
    BY <2>2, MissingEnd DEF RequestThrows, End
  <2>3. CASE UNCHANGED <<path, stage, missing, overlapped>>
    BY <2>3
  <2> QED BY <1>4, <2>1, <2>2, <2>3
          DEF Store, OpenTags, SendFileTag, ReadPiece, SendRest,
              temp_vars, worker_vars, history_vars
<1>5. ASSUME NEW u \in Uploads, Return(u) PROVE MissingInv'
  BY <1>0, <1>5 DEF Return, Remove, Goto, TypeInv, TypeOK
<1>6. ASSUME NEW u \in Uploads, DeleteTags(u) PROVE MissingInv'
  BY <1>0, <1>6 DEF DeleteTags, Remove, Goto, TypeInv, TypeOK
<1>7. ASSUME NEW u \in Uploads, Refresh(u) PROVE MissingInv'
  BY <1>0, <1>7 DEF Refresh, Goto, temp_vars, history_vars
<1>8. ASSUME NEW u \in Uploads, RefreshThrows(u) PROVE MissingInv'
  BY <1>8, MissingEnd DEF RefreshThrows, End
<1> QED BY <1>1, <1>2, <1>3, <1>4, <1>5, <1>6, <1>7, <1>8, MissingPrepare
        DEF Next, Finish

\* An upload that does not find one of its temporary files has had another beside
\* it: the removals of an upload, at its end, come after all it opens.
THEOREM MissingExplained == Spec => []MissingNeedsOverlap
<1>1. Init => MissingInv
  BY DEF Init, MissingInv, Alone, MissingNeedsOverlap, Executing, Preparing, Holds
<1>2. MissingInv => MissingNeedsOverlap
  BY DEF MissingInv
<1> QED BY <1>1, <1>2, TypeInit, TypeStep, MissingStep, PTL DEF Spec

-----------------------------------------------------------------------------
(* The list of the window                                                  *)

LEMMA ListStep == TypeInv /\ ListCurrent /\ [Next]_vars => ListCurrent'
<1> SUFFICES ASSUME TypeInv, ListCurrent, [Next]_vars PROVE ListCurrent'
  OBVIOUS
<1> USE DEF ListCurrent, Executing, Preparing
<1>0. stage \in [Uploads -> Stages]
  BY StageType
<1>1. CASE End
  BY <1>1 DEF End
<1>2. CASE Restart
  BY <1>2 DEF Restart, store_vars
<1>3. CASE UNCHANGED vars
  BY <1>3 DEF vars, worker_vars, store_vars, app_vars
<1>4. ASSUME NEW u \in Uploads, Prepare(u) PROVE ListCurrent'
  <2>1. \/ Executing(u)'
        \/ stage'[u] = "ended"
    BY <1>0, <1>4
       DEF Prepare, Begin, Compress, CompressThrows, WritePiece, OpenCompressed,
           OpenCompressedThrows, CreateTags, CreateTagsThrows, TagPiece, Done, Goto
  <2> QED BY <2>1
<1>5. ASSUME NEW u \in Uploads, Store(u) PROVE ListCurrent'
  <2>1. End \/ stage'[u] = "storing"
    BY <1>5 DEF Store, OpenTags, OpenTagsThrows, SendFileTag, ReadPiece, SendRest,
                RequestThrows, Thread, worker_vars
  <2> QED BY <1>1, <2>1
<1>6. ASSUME NEW u \in Uploads, Finish(u) PROVE ListCurrent'
  <2>1. CASE Return(u) \/ DeleteTags(u)
    <3>1. stage'[u] \in {"deleting", "ended"}
      BY <1>0, <2>1 DEF Return, DeleteTags, Goto
    <3> QED BY <3>1
  <2>2. CASE Refresh(u)
    BY <2>2 DEF Refresh, store_vars
  <2>3. CASE RefreshThrows(u)
    BY <1>1, <2>3 DEF RefreshThrows
  <2> QED BY <1>6, <2>1, <2>2, <2>3 DEF Finish
<1> QED BY <1>1, <1>2, <1>3, <1>4, <1>5, <1>6 DEF Next, Crash

\* Once every upload that ended has told so, the list is that of what Dropbox
\* holds: the last of the refreshes comes after the last of the objects.
THEOREM ListShown == Spec => []ListCurrent
<1>1. Init => ListCurrent
  <2> SUFFICES ASSUME Init PROVE listed = object["file"].of
    BY DEF ListCurrent
  <2>1. "file" \in Objects
    BY DEF Objects
  <2> QED BY <2>1 DEF Init
<1> QED BY <1>1, TypeInit, TypeStep, ListStep, PTL DEF Spec

-----------------------------------------------------------------------------
(* Objects                                                                 *)

Row(n, u) == [k \in 1 .. n |-> u]

\* An upload nobody has spoiled is the only one that prepares files while it
\* reads its own.
Undisturbed ==
    \A u \in Uploads \ spoiled :
        Exposed(u) => \A v \in Uploads \ {u} : ~Preparing(v)

\* What such an upload has written, buffered and read is its own.
OwnFiles(u) ==
    LET compressed == content["compressed"][inode[u]["compressed"]]
        tagged == content["tags"][inode[u]["tags"]]
    IN  /\ stage[u] = "compressing" =>
               /\ path["compressed"] \in {0, inode[u]["compressed"]}
               /\ compressed =
                      [k \in 1 .. Pieces |-> IF k <= next[u] THEN u ELSE None]
        /\ stage[u] \in {"compressed", "tagging", "storing"} =>
               size[u] = Pieces /\ compressed = Row(Pieces, u)
        /\ stage[u] = "tagging" =>
               /\ path["tags"] \in {0, inode[u]["tags"]}
               /\ buffer[u] = Row(Len(buffer[u]), u)
               /\ tagged = [k \in 1 .. Pieces |->
                               IF k <= next[u] - Len(buffer[u]) THEN u ELSE None]
        /\ stage[u] = "storing" =>
               /\ path["tags"] \in {0, inode[u]["tags"]}
               /\ tagged = Row(Pieces, u)
               /\ \A o \in {"file", "block tags"} :
                      request[u][o] \in {"starting", "reading"} =>
                          /\ Len(body[u][o]) <= Pieces
                          /\ body[u][o] = Row(Len(body[u][o]), u)

OwnInv ==
    /\ Undisturbed
    /\ \A u \in Uploads \ spoiled : Exposed(u) => OwnFiles(u)
    /\ OnlyWritersSpoil

LEMMA OwnInit == Init => OwnInv
<1> SUFFICES ASSUME Init PROVE OwnInv
  OBVIOUS
<1>1. \A u \in Uploads : ~Exposed(u)
  BY DEF Init, Exposed, Preparing
<1>2. \A o \in Objects : object[o].of = 0
  BY DEF Init
<1> QED BY <1>1, <1>2 DEF OwnInv, Undisturbed, OnlyWritersSpoil

LEMMA OwnEnd ==
    ASSUME TypeInv, OwnInv, End
    PROVE  OwnInv'
<1>1. \A u \in Uploads : ~Exposed(u)'
  BY StageType DEF End, Exposed, Preparing
<1>2. UNCHANGED <<object, spoiled>>
  BY DEF End
<1> QED BY <1>1, <1>2 DEF OwnInv, Undisturbed, OnlyWritersSpoil

\* The files of an upload are disturbed by nothing but writing.
LEMMA KeepsOwn ==
    ASSUME NEW v \in Uploads, OwnFiles(v), UNCHANGED content,
           \A f \in TempFiles : path'[f] \in {0, path[f]},
           stage'[v] = stage[v], inode'[v] = inode[v], next'[v] = next[v],
           size'[v] = size[v], buffer'[v] = buffer[v], request'[v] = request[v],
           body'[v] = body[v]
    PROVE  OwnFiles(v)'
BY DEF OwnFiles, TempFiles

\* Another upload that prepares its files does not meet one that is not spoiled.
LEMMA OwnBesidePreparing ==
    ASSUME OwnInv, NEW u \in Uploads, Preparing(u), spoiled \subseteq spoiled',
           \A v \in Uploads \ {u} : stage'[v] = stage[v] /\ request'[v] = request[v],
           Exposed(u)' => OwnFiles(u)' \/ u \in spoiled,
           UNCHANGED object
    PROVE  OwnInv'
<1>1. \A v \in Uploads \ {u} : v \notin spoiled => ~Exposed(v)
  BY DEF OwnInv, Undisturbed
<1>2. \A v \in Uploads \ {u} : Exposed(v)' <=> Exposed(v)
  BY DEF Exposed, Preparing
<1>3. u \notin spoiled => \A v \in Uploads \ {u} : ~Preparing(v)'
  BY DEF OwnInv, Undisturbed, Exposed, Preparing
<1>4. Undisturbed'
  BY <1>1, <1>2, <1>3 DEF Undisturbed
<1>5. \A v \in Uploads \ spoiled' : Exposed(v)' => OwnFiles(v)'
  BY <1>1, <1>2
<1>6. OnlyWritersSpoil'
  BY DEF OwnInv, OnlyWritersSpoil
<1> QED BY <1>4, <1>5, <1>6 DEF OwnInv

LEMMA RowOf ==
    ASSUME NEW n \in Nat, NEW u \in Uploads
    PROVE  /\ Len(Row(n, u)) = n
           /\ <<>> = Row(0, u)
           /\ Append(Row(n, u), u) = Row(n + 1, u)
           /\ Row(n, u) \in Seq(Uploads \cup {Spoilt})
<1>1. Row(n, u) \in Seq(Uploads \cup {Spoilt}) /\ Len(Row(n, u)) = n
  BY DEF Row
<1>2. Append(Row(n, u), u) = Row(n + 1, u)
  BY <1>1 DEF Row
<1> QED BY <1>1, <1>2 DEF Row

LEMMA OwnCompress ==
    ASSUME TypeInv, NEW u \in Uploads, Compress(u)
    PROVE  OwnFiles(u)'
<1>1. Create(u, "compressed") /\ "compressed" \in TempFiles
  BY DEF Compress, TempFiles
<1>2. /\ path'["compressed"] = inode'[u]["compressed"]
      /\ content'["compressed"][inode'[u]["compressed"]] = Empty
  BY <1>1, Created
<1>3. next'[u] = 0 /\ stage'[u] = "compressing"
  BY StageType, Gone DEF Compress, TypeInv, Fresh, Stages
<1>4. Empty = [k \in 1 .. Pieces |-> IF k <= 0 THEN u ELSE None]
  BY DEF Empty
<1> QED BY <1>2, <1>3, <1>4 DEF OwnFiles

LEMMA OwnWritePiece ==
    ASSUME TypeInv, NEW u \in Uploads, WritePiece(u), OwnFiles(u)
    PROVE  OwnFiles(u)'
<1> DEFINE n == inode[u]["compressed"]
<1>1. /\ n \in Uploads /\ "compressed" \in TempFiles
      /\ next[u] \in 0 .. Pieces /\ next[u] < Pieces /\ next'[u] = next[u] + 1
  BY DEF WritePiece, TypeInv, TypeOK, Opened, TempFiles
<1>2. content' = [content EXCEPT !["compressed"][n] = [@ EXCEPT ![next[u] + 1] = u]]
  BY DEF WritePiece
<1>3. content["compressed"][n] =
          [k \in 1 .. Pieces |-> IF k <= next[u] THEN u ELSE None]
  BY DEF WritePiece, OwnFiles
<1>4. stage'[u] = "compressing" /\ path' = path /\ inode' = inode
  BY DEF WritePiece
<1> HIDE DEF n
<1>5. content'["compressed"][n] = [content["compressed"][n] EXCEPT ![next[u] + 1] = u]
  BY <1>1, <1>2 DEF TypeInv, TypeOK
<1>6. content'["compressed"][n] =
          [k \in 1 .. Pieces |-> IF k <= next'[u] THEN u ELSE None]
  BY <1>1, <1>3, <1>5
<1>7. path["compressed"] \in {0, n}
  BY DEF n, WritePiece, OwnFiles
<1> QED BY <1>4, <1>6, <1>7 DEF n, OwnFiles

LEMMA OwnOpenCompressed ==
    ASSUME TypeInv, NEW u \in Uploads, OpenCompressed(u), OwnFiles(u)
    PROVE  OwnFiles(u)'
<1> DEFINE n == path["compressed"]
<1>1. /\ n \in Uploads /\ "compressed" \in TempFiles /\ n = inode[u]["compressed"]
      /\ next[u] = Pieces
  BY DEF OpenCompressed, TypeInv, TypeOK, TempFiles, OwnFiles
<1>2. content["compressed"][n] = Row(Pieces, u)
  <2>1. content["compressed"][n] =
            [k \in 1 .. Pieces |-> IF k <= Pieces THEN u ELSE None]
    BY <1>1 DEF OpenCompressed, OwnFiles
  <2> QED BY <2>1 DEF Row
<1>3. Length(Row(Pieces, u)) = Pieces
  <2>1. Row(Pieces, u) \in [1 .. Pieces -> Cells]
    BY DEF Row, Cells
  <2>2. \A k \in 1 .. Pieces : Row(Pieces, u)[k] # None
    BY DEF Row, Uploads, None
  <2> QED BY <2>1, <2>2, LengthOfWhole
<1>4. /\ size'[u] = Pieces /\ content' = content
      /\ inode'[u]["compressed"] = n
      /\ stage'[u] = "compressed"
  BY <1>1, <1>2, <1>3 DEF OpenCompressed, TypeInv, TypeOK, Goto, temp_vars
<1> QED BY <1>2, <1>4 DEF OwnFiles

LEMMA OwnCreateTags ==
    ASSUME TypeInv, NEW u \in Uploads, CreateTags(u), OwnFiles(u)
    PROVE  OwnFiles(u)'
<1>1. Create(u, "tags") /\ "tags" \in TempFiles /\ "compressed" \in TempFiles
  BY DEF CreateTags, TempFiles
<1>2. /\ path'["tags"] = inode'[u]["tags"]
      /\ content'["tags"][inode'[u]["tags"]] = Empty
      /\ inode'[u]["compressed"] = inode[u]["compressed"]
  BY <1>1, Created
<1>3. inode[u]["compressed"] \in Uploads
  BY <1>1 DEF CreateTags, TypeInv, TypeOK, Opened
<1>4. content'["compressed"][inode[u]["compressed"]] =
          content["compressed"][inode[u]["compressed"]]
  <2>1. \A g \in TempFiles, n \in Uploads :
            content'[g][n] = IF g = "tags" /\ n = inode'[u]["tags"] THEN Empty
                             ELSE content[g][n]
    BY <1>1, Created
  <2> QED BY <1>1, <1>3, <2>1
<1>5. /\ next'[u] = 0 /\ buffer'[u] = <<>> /\ size'[u] = size[u]
      /\ stage'[u] = "tagging" /\ stage[u] = "compressed"
  BY StageType, Gone DEF CreateTags, TypeInv, Fresh, Stages
<1>6. size[u] = Pieces /\ content["compressed"][inode[u]["compressed"]] = Row(Pieces, u)
  BY <1>5 DEF OwnFiles
<1>7. /\ Empty = [k \in 1 .. Pieces |-> IF k <= 0 - Len(<<>>) THEN u ELSE None]
      /\ <<>> = Row(Len(<<>>), u)
  BY DEF Empty, Row
<1> QED BY <1>2, <1>4, <1>5, <1>6, <1>7 DEF OwnFiles

\* A flush of an upload's own tags.
LEMMA OwnFlush ==
    ASSUME TypeInv, NEW u \in Uploads, stage[u] = "tagging", Flush(u), OwnFiles(u)
    PROVE  /\ content'["tags"][inode[u]["tags"]] =
                  [k \in 1 .. Pieces |-> IF k <= next[u] THEN u ELSE None]
           /\ content'["compressed"][inode[u]["compressed"]] =
                  content["compressed"][inode[u]["compressed"]]
<1> DEFINE c == inode[u]["compressed"]
           n == inode[u]["tags"]
           flushed == next[u] - Len(buffer[u])
<1>1. /\ c \in Uploads /\ n \in Uploads
      /\ "tags" \in TempFiles /\ "compressed" \in TempFiles
  BY DEF TypeInv, TypeOK, Opened, TempFiles
<1>2. content'["compressed"][c] = content["compressed"][c]
  BY <1>1, Flushed
<1>3. content'["tags"][n] =
          [k \in 1 .. Pieces |->
              IF k \in flushed + 1 .. next[u] THEN buffer[u][k - flushed]
              ELSE content["tags"][n][k]]
  BY <1>1, Flushed
<1>4. /\ buffer[u] = Row(Len(buffer[u]), u)
      /\ content["tags"][n] = [k \in 1 .. Pieces |-> IF k <= flushed THEN u ELSE None]
  BY DEF OwnFiles
<1>5. Len(buffer[u]) \in Nat /\ next[u] \in 0 .. Pieces /\ Len(buffer[u]) <= next[u]
  BY DEF TypeInv, TypeOK
<1>6. \A k \in 1 .. Len(buffer[u]) : buffer[u][k] = u
  BY <1>4 DEF Row
<1> HIDE DEF n
<1>7. ASSUME NEW k \in 1 .. Pieces
      PROVE  (IF k \in flushed + 1 .. next[u] THEN buffer[u][k - flushed]
              ELSE content["tags"][n][k]) = IF k <= next[u] THEN u ELSE None
  <2>1. CASE k \in flushed + 1 .. next[u]
    <3>1. k - flushed \in 1 .. Len(buffer[u]) /\ k <= next[u]
      BY <1>5, <2>1
    <3>2. buffer[u][k - flushed] = u
      BY <1>6, <3>1
    <3> QED BY <2>1, <3>1, <3>2
  <2>2. CASE k \notin flushed + 1 .. next[u]
    <3>1. content["tags"][n][k] = IF k <= flushed THEN u ELSE None
      BY <1>4
    <3>2. k <= flushed <=> k <= next[u]
      BY <1>5, <2>2
    <3> QED BY <2>2, <3>1, <3>2
  <2> QED BY <2>1, <2>2
<1>8. content'["tags"][n] = [k \in 1 .. Pieces |-> IF k <= next[u] THEN u ELSE None]
  BY <1>3, <1>7
<1> QED BY <1>2, <1>8 DEF n

LEMMA OwnTagPiece ==
    ASSUME TypeInv, NEW u \in Uploads, TagPiece(u), OwnFiles(u)
    PROVE  OwnFiles(u)'
<1>1. /\ stage[u] = "tagging" /\ stage' = stage /\ path' = path /\ inode' = inode
      /\ size' = size /\ next'[u] = next[u] + 1
      /\ next[u] \in 0 .. Pieces /\ next[u] < size[u]
  BY DEF TagPiece, TypeInv, TypeOK
<1>2. /\ path["tags"] \in {0, inode[u]["tags"]}
      /\ size[u] = Pieces
      /\ content["compressed"][inode[u]["compressed"]] = Row(Pieces, u)
      /\ buffer[u] = Row(Len(buffer[u]), u)
      /\ content["tags"][inode[u]["tags"]] =
             [k \in 1 .. Pieces |-> IF k <= next[u] - Len(buffer[u]) THEN u ELSE None]
  BY <1>1 DEF OwnFiles
<1>3. Row(Pieces, u)[next[u] + 1] = u
  BY <1>1, <1>2 DEF Row
<1>4. \/ buffer' = [buffer EXCEPT ![u] = Append(@, u)] /\ UNCHANGED content
      \/ buffer' = [buffer EXCEPT ![u] = <<u>>] /\ Flush(u)
  BY <1>2, <1>3 DEF TagPiece
<1>5. Len(buffer[u]) \in Nat /\ buffer \in [Uploads -> Seq(Uploads \cup {Spoilt})]
  BY DEF TypeInv, TypeOK
<1>6. /\ buffer'[u] = Row(Len(buffer'[u]), u)
      /\ content'["tags"][inode[u]["tags"]] =
             [k \in 1 .. Pieces |->
                 IF k <= next'[u] - Len(buffer'[u]) THEN u ELSE None]
      /\ content'["compressed"][inode[u]["compressed"]] = Row(Pieces, u)
  <2>1. CASE buffer' = [buffer EXCEPT ![u] = Append(@, u)] /\ UNCHANGED content
    <3>1. buffer'[u] = Row(Len(buffer[u]) + 1, u)
      BY <1>2, <1>5, <2>1, RowOf
    <3>2. Len(buffer'[u]) = Len(buffer[u]) + 1
      BY <1>5, <3>1, RowOf
    <3>3. next'[u] - Len(buffer'[u]) = next[u] - Len(buffer[u])
      BY <1>1, <1>5, <3>2
    <3>4. content'["tags"][inode[u]["tags"]] =
             [k \in 1 .. Pieces |->
                 IF k <= next'[u] - Len(buffer'[u]) THEN u ELSE None]
      BY <1>2, <2>1, <3>3, Zenon
    <3> QED BY <1>2, <2>1, <3>1, <3>2, <3>4
  <2>2. CASE buffer' = [buffer EXCEPT ![u] = <<u>>] /\ Flush(u)
    <3>1. buffer'[u] = Row(1, u) /\ Len(buffer'[u]) = 1
      BY <1>5, <2>2 DEF Row
    <3>2. next'[u] - Len(buffer'[u]) = next[u]
      <4>1. next[u] \in Int /\ next'[u] = next[u] + 1
        BY <1>1
      <4>2. next'[u] - 1 = next[u]
        BY <4>1
      <4> QED BY <3>1, <4>2
    <3>3. /\ content'["tags"][inode[u]["tags"]] =
                 [k \in 1 .. Pieces |-> IF k <= next[u] THEN u ELSE None]
          /\ content'["compressed"][inode[u]["compressed"]] =
                 content["compressed"][inode[u]["compressed"]]
      BY <1>1, <2>2, OwnFlush
    <3>4. content'["tags"][inode[u]["tags"]] =
             [k \in 1 .. Pieces |->
                 IF k <= next'[u] - Len(buffer'[u]) THEN u ELSE None]
      BY <3>2, <3>3, Zenon
    <3>5. buffer'[u] = Row(Len(buffer'[u]), u)
      BY <3>1
    <3> QED BY <1>2, <3>3, <3>4, <3>5
  <2> QED BY <1>4, <2>1, <2>2
<1> QED BY <1>1, <1>2, <1>6 DEF OwnFiles

LEMMA OwnDone ==
    ASSUME TypeInv, NEW u \in Uploads, Done(u), OwnFiles(u)
    PROVE  OwnFiles(u)'
<1>1. /\ stage[u] = "tagging" /\ stage'[u] = "storing" /\ path' = path
      /\ inode' = inode /\ size' = size /\ next[u] = size[u] /\ body' = body
  BY StageType, Gone DEF Done, Stages
<1>2. /\ path["tags"] \in {0, inode[u]["tags"]}
      /\ size[u] = Pieces
      /\ content["compressed"][inode[u]["compressed"]] = Row(Pieces, u)
  BY <1>1 DEF OwnFiles
<1>3. /\ content'["tags"][inode[u]["tags"]] =
             [k \in 1 .. Pieces |-> IF k <= Pieces THEN u ELSE None]
      /\ content'["compressed"][inode[u]["compressed"]] = Row(Pieces, u)
  BY <1>1, <1>2, OwnFlush DEF Done
<1>4. content'["tags"][inode[u]["tags"]] = Row(Pieces, u)
  BY <1>3 DEF Row
<1>5. \A o \in Objects : body[u][o] = <<>>
  BY <1>1 DEF TypeInv, Fresh, NoBody
<1>6. Len(<<>>) = 0 /\ <<>> = Row(0, u)
  BY DEF Row
<1>7. \A o \in {"file", "block tags"} :
          Len(body'[u][o]) <= Pieces /\ body'[u][o] = Row(Len(body'[u][o]), u)
  <2>1. \A o \in {"file", "block tags"} : body'[u][o] = <<>>
    BY <1>1, <1>5 DEF Objects
  <2>2. Len(<<>>) <= Pieces /\ <<>> = Row(Len(<<>>), u)
    BY <1>6
  <2> QED BY <2>1, <2>2
<1> QED BY <1>1, <1>2, <1>3, <1>4, <1>7 DEF OwnFiles

LEMMA OwnPrepare ==
    ASSUME TypeInv, OwnInv, NEW u \in Uploads, Prepare(u)
    PROVE  OwnInv'
<1>0. stage \in [Uploads -> Stages]
  BY StageType
<1>own. u \notin spoiled /\ Preparing(u) => OwnFiles(u)
  BY DEF OwnInv, Exposed
<1>1. CASE Begin(u)
  <2>1. /\ stage'[u] = "compress"
        /\ \A v \in Uploads \ {u} : stage'[v] = stage[v]
    BY <1>0, <1>1, Gone DEF Begin, Stages
  <2>2. \A v \in Uploads \ {u} : Exposed(v)' <=> Exposed(v)
    BY <1>1, <2>1 DEF Begin, Exposed, Preparing, store_vars
  <2>3. \A v \in Uploads \ {u} : v \notin spoiled' => ~Exposed(v)'
    BY <1>1, <2>2 DEF Begin
  <2>4. u \notin spoiled' => \A v \in Uploads \ {u} : ~Preparing(v)'
    <3>1. stage[u] = "none"
      BY <1>1 DEF Begin, TypeInv, Fresh, TypeOK, Uploads
    <3>2. u \notin spoiled' => \A v \in Uploads \ {u} : ~Preparing(v)
      BY <1>1 DEF Begin
    <3> QED BY <2>1, <3>2 DEF Preparing
  <2>5. OwnFiles(u)'
    BY <2>1 DEF OwnFiles
  <2>6. OnlyWritersSpoil'
    BY <1>1 DEF Begin, OwnInv, OnlyWritersSpoil, store_vars
  <2> QED BY <2>3, <2>4, <2>5, <2>6 DEF OwnInv, Undisturbed
<1>2. ASSUME stage[u] # "none", Preparing(u), spoiled' = spoiled,
             \A v \in Uploads \ {u} : stage'[v] = stage[v] /\ request'[v] = request[v],
             UNCHANGED object,
             u \notin spoiled /\ OwnFiles(u) /\ Exposed(u)' => OwnFiles(u)'
      PROVE  OwnInv'
  BY <1>own, <1>2, OwnBesidePreparing
<1>3. CASE Compress(u)
  BY <1>0, <1>2, <1>3, OwnCompress
     DEF Compress, Goto, Preparing, store_vars, history_vars
<1>4. CASE CompressThrows(u)
  <2>1. ~Exposed(u)'
    BY <1>0, <1>4 DEF CompressThrows, Goto, Exposed, Preparing
  <2> QED BY <1>0, <1>2, <1>4, <2>1
          DEF CompressThrows, Goto, Preparing, store_vars, history_vars
<1>5. CASE WritePiece(u)
  BY <1>2, <1>5, OwnWritePiece DEF WritePiece, Preparing, store_vars, history_vars
<1>6. CASE OpenCompressed(u)
  BY <1>0, <1>2, <1>6, OwnOpenCompressed
     DEF OpenCompressed, Goto, Preparing, store_vars, history_vars
<1>7. CASE OpenCompressedThrows(u)
  <2>1. ~Exposed(u)'
    BY <1>0, <1>7 DEF OpenCompressedThrows, Goto, Exposed, Preparing
  <2> QED BY <1>0, <1>2, <1>7, <2>1
          DEF OpenCompressedThrows, Goto, Preparing, store_vars
<1>8. CASE CreateTags(u)
  BY <1>0, <1>2, <1>8, OwnCreateTags
     DEF CreateTags, Goto, Preparing, store_vars, history_vars
<1>9. CASE CreateTagsThrows(u)
  <2>1. ~Exposed(u)'
    BY <1>0, <1>9 DEF CreateTagsThrows, Goto, Exposed, Preparing
  <2> QED BY <1>0, <1>2, <1>9, <2>1
          DEF CreateTagsThrows, Goto, Preparing, store_vars
<1>10. CASE TagPiece(u)
  BY <1>2, <1>10, OwnTagPiece DEF TagPiece, Preparing, store_vars, history_vars
<1>11. CASE Done(u)
  BY <1>0, <1>2, <1>11, OwnDone
     DEF Done, Goto, Preparing, history_vars, TypeInv, TypeOK
<1> QED BY <1>1, <1>3, <1>4, <1>5, <1>6, <1>7, <1>8, <1>9, <1>10, <1>11 DEF Prepare

-----------------------------------------------------------------------------
\* An upload that stores: its own files are no longer written.
LEMMA OwnBesideStoring ==
    ASSUME TypeInv, OwnInv, NEW u \in Uploads, UNCHANGED <<content, spoiled>>,
           \A f \in TempFiles : path'[f] \in {0, path[f]},
           \A v \in Uploads \ {u} :
               /\ stage'[v] = stage[v] /\ inode'[v] = inode[v] /\ next'[v] = next[v]
               /\ size'[v] = size[v] /\ buffer'[v] = buffer[v]
               /\ request'[v] = request[v] /\ body'[v] = body[v],
           ~Preparing(u)', Exposed(u)' => Exposed(u),
           u \notin spoiled /\ Exposed(u)' => OwnFiles(u)'
    PROVE  Undisturbed' /\ \A v \in Uploads \ spoiled' : Exposed(v)' => OwnFiles(v)'
<1>1. \A v \in Uploads \ {u} : /\ Exposed(v)' <=> Exposed(v)
                               /\ Preparing(v)' <=> Preparing(v)
  BY DEF Exposed, Preparing
<1>2. Undisturbed'
  BY <1>1 DEF OwnInv, Undisturbed
<1>3. ASSUME NEW v \in Uploads \ {u}, v \notin spoiled, Exposed(v)'
      PROVE  OwnFiles(v)'
  BY <1>1, <1>3, KeepsOwn DEF OwnInv
<1> QED BY <1>2, <1>3

\* A request that stores an object for an upload nobody has spoiled.
LEMMA OwnSent ==
    ASSUME TypeInv, OwnInv, NEW u \in Uploads, NEW o \in Objects, Sent(u, o),
           UNCHANGED spoiled,
           body' \in [Uploads -> [Objects -> Seq(Uploads \cup {Spoilt})]],
           u \notin spoiled => body'[u][o] = Row(Pieces, u)
    PROVE  OnlyWritersSpoil'
<1>1. /\ object'[o] = [of |-> u, body |-> body'[u][o]]
      /\ \A q \in Objects \ {o} : object'[q] = object[q]
  BY SentType
<1>2. ASSUME NEW q \in Objects, object'[q].of # 0, object'[q].of \notin spoiled
      PROVE  object'[q].body = [k \in 1 .. Pieces |-> object'[q].of]
  <2>1. CASE q = o
    <3>1. object'[q].of = u /\ object'[q].body = body'[u][o]
      BY <1>1, <2>1
    <3>2. body'[u][o] = Row(Pieces, u)
      BY <1>2, <3>1
    <3> QED BY <3>1, <3>2 DEF Row
  <2>2. CASE q # o
    BY <1>1, <1>2, <2>2 DEF OwnInv, OnlyWritersSpoil
  <2> QED BY <2>1, <2>2
<1> QED BY <1>2 DEF OnlyWritersSpoil

LEMMA OwnOpenTags ==
    ASSUME TypeInv, OwnInv, NEW u \in Uploads, OpenTags(u)
    PROVE  OwnInv'
<1>1. /\ request' \in [Uploads ->
             [Objects -> {"none", "starting", "reading", "stored"}]]
      /\ request'[u]["block tags"] = "reading"
      /\ \A v \in Uploads, q \in Objects :
             v # u \/ q # "block tags" => request'[v][q] = request[v][q]
  BY Proceeded DEF OpenTags, Objects
<1>2. \A v \in Uploads \ {u} : request'[v] = request[v] /\ inode'[v] = inode[v]
  BY DEF OpenTags, Proceed, TypeInv, TypeOK
<1>3. /\ UNCHANGED <<path, content, stage, next, size, buffer, body, object, spoiled>>
      /\ stage[u] = "storing" /\ request[u]["block tags"] = "starting"
  BY DEF OpenTags, Thread, temp_vars, history_vars
<1>4. Exposed(u)
  BY <1>3 DEF Exposed, Objects
<1>5. ASSUME u \notin spoiled PROVE OwnFiles(u)'
  <2>1. OwnFiles(u)
    BY <1>4, <1>5 DEF OwnInv
  <2>2. path["tags"] = inode[u]["tags"]
    BY <1>3, <2>1 DEF OpenTags, OwnFiles
  <2>3. inode'[u]["tags"] = inode[u]["tags"] /\ inode'[u]["compressed"] = inode[u]["compressed"]
    BY <2>2 DEF OpenTags, TypeInv, TypeOK, TempFiles
  <2>4. \A o \in {"file", "block tags"} :
            request'[u][o] \in {"starting", "reading"} =>
                request[u][o] \in {"starting", "reading"}
    BY <1>1, <1>3 DEF Objects
  <2> QED BY <1>3, <2>1, <2>3, <2>4 DEF OwnFiles
<1>6. Undisturbed' /\ \A v \in Uploads \ spoiled' : Exposed(v)' => OwnFiles(v)'
  <2>1. ~Preparing(u)'
    BY <1>3 DEF Preparing
  <2> QED BY <1>2, <1>3, <1>4, <1>5, <2>1, OwnBesideStoring
<1> QED BY <1>3, <1>6 DEF OwnInv, OnlyWritersSpoil

LEMMA OwnReadPiece ==
    ASSUME TypeInv, OwnInv, NEW u \in Uploads, NEW o \in Objects, ReadPiece(u, o)
    PROVE  OwnInv'
<1>1. /\ UNCHANGED <<path, content, stage, inode, next, size, buffer, request, object,
                     spoiled>>
      /\ stage[u] = "storing" /\ request[u][o] = "reading" /\ o # "file tag"
  BY DEF ReadPiece, Thread, temp_vars, worker_vars, history_vars
<1>2. \A v \in Uploads, q \in Objects :
          v # u \/ q # o => body'[v][q] = body[v][q]
  BY DEF ReadPiece, TypeInv, TypeOK
<1>3. \A v \in Uploads \ {u} : body'[v] = body[v]
  BY DEF ReadPiece, TypeInv, TypeOK
<1>4. Exposed(u)
  BY <1>1 DEF Exposed
<1>5. ASSUME u \notin spoiled PROVE OwnFiles(u)'
  <2> DEFINE cells == content[Source(o)][inode[u][Source(o)]]
             k == Len(body[u][o]) + 1
  <2>1. OwnFiles(u)
    BY <1>4, <1>5 DEF OwnInv
  <2>2. o \in {"file", "block tags"}
    BY <1>1 DEF Objects
  <2>3. cells = Row(Pieces, u)
    BY <1>1, <2>1, <2>2 DEF OwnFiles, Source
  <2>4. /\ Len(body[u][o]) \in Nat /\ body[u][o] = Row(Len(body[u][o]), u)
        /\ body[u][o] \in Seq(Uploads \cup {Spoilt})
    <3>1. body[u][o] = Row(Len(body[u][o]), u)
      BY <1>1, <2>1, <2>2 DEF OwnFiles
    <3>2. body[u][o] \in Seq(Uploads \cup {Spoilt})
      BY DEF TypeInv, TypeOK
    <3> QED BY <3>1, <3>2
  <2>5. k \in 1 .. Pieces
    <3>1. Row(Pieces, u) \in [1 .. Pieces -> Cells]
      BY DEF Row, Cells
    <3>2. Length(cells) \in 0 .. Pieces
      BY <2>3, <3>1, LengthOf
    <3>3. k <= Length(cells)
      BY DEF ReadPiece
    <3> QED BY <2>4, <3>2, <3>3
  <2>6. cells[k] = u /\ u # None
    BY <2>3, <2>5 DEF Row, Uploads, None
  <2>7. body' = [body EXCEPT ![u][o] =
                    Append(@, IF cells[k] = None THEN Spoilt ELSE cells[k])]
    BY DEF ReadPiece
  <2> HIDE DEF cells
  <2>8. body'[u][o] = Append(body[u][o], u)
    BY <2>6, <2>7 DEF TypeInv, TypeOK
  <2>9. body'[u][o] = Row(k, u) /\ Len(body'[u][o]) = k
    <3>1. Append(Row(Len(body[u][o]), u), u) = Row(k, u)
      BY <2>4, RowOf
    <3>2. Len(Row(k, u)) = k
      <4>1. k \in Nat
        BY <2>4
      <4> HIDE DEF k
      <4> QED BY <4>1, RowOf
    <3> QED BY <2>4, <2>8, <3>1, <3>2
  <2>10. k <= Pieces
    BY <2>4, <2>5
  <2> HIDE DEF k
  <2>11. ASSUME NEW q \in {"file", "block tags"},
                request'[u][q] \in {"starting", "reading"}
         PROVE  Len(body'[u][q]) <= Pieces /\ body'[u][q] = Row(Len(body'[u][q]), u)
    <3>1. CASE q = o
      <4>1. Len(body'[u][o]) <= Pieces /\ body'[u][o] = Row(Len(body'[u][o]), u)
        BY <2>9, <2>10, Zenon
      <4> QED BY <3>1, <4>1
    <3>2. CASE q # o
      <4>1. request[u][q] \in {"starting", "reading"} /\ body'[u][q] = body[u][q]
        BY <1>1, <1>2, <2>11, <3>2 DEF Objects
      <4> QED BY <1>1, <2>1, <4>1 DEF OwnFiles
    <3> QED BY <3>1, <3>2
  <2> QED BY <1>1, <2>1, <2>11 DEF OwnFiles
<1>6. Undisturbed' /\ \A v \in Uploads \ spoiled' : Exposed(v)' => OwnFiles(v)'
  <2>1. ~Preparing(u)'
    BY <1>1 DEF Preparing
  <2> QED BY <1>1, <1>3, <1>4, <1>5, <2>1, OwnBesideStoring
<1> QED BY <1>1, <1>6 DEF OwnInv, OnlyWritersSpoil

LEMMA OwnSend ==
    ASSUME TypeInv, OwnInv, NEW u \in Uploads, NEW o \in Objects,
           stage[u] = "storing", request[u][o] = "reading", Sent(u, o),
           UNCHANGED <<path, content, stage, inode, next, size, buffer, spoiled>>,
           body' \in [Uploads -> [Objects -> Seq(Uploads \cup {Spoilt})]],
           \A v \in Uploads, q \in Objects :
               v # u \/ q # o => body'[v][q] = body[v][q],
           \A v \in Uploads \ {u} : body'[v] = body[v],
           OwnFiles(u) => body'[u][o] = Row(Pieces, u)
    PROVE  OwnInv'
<1>1. /\ request'[u][o] = "stored"
      /\ \A v \in Uploads, q \in Objects :
             v # u \/ q # o => request'[v][q] = request[v][q]
  BY SentType, Proceeded
<1>2. \A v \in Uploads \ {u} : request'[v] = request[v]
  <2>1. Proceed(u, o, "stored")
    BY SentType
  <2> QED BY <2>1 DEF Proceed, TypeInv, TypeOK
<1>3. Exposed(u)
  BY DEF Exposed
<1>4. OnlyWritersSpoil'
  BY <1>3, OwnSent DEF OwnInv
<1>5. ASSUME u \notin spoiled PROVE OwnFiles(u)'
  <2>1. OwnFiles(u)
    BY <1>3, <1>5 DEF OwnInv
  <2>2. ASSUME NEW q \in {"file", "block tags"},
               request'[u][q] \in {"starting", "reading"}
        PROVE  Len(body'[u][q]) <= Pieces /\ body'[u][q] = Row(Len(body'[u][q]), u)
    <3>1. q \in Objects /\ q # o
      BY <1>1, <2>2 DEF Objects
    <3>2. request[u][q] \in {"starting", "reading"} /\ body'[u][q] = body[u][q]
      BY <1>1, <2>2, <3>1
    <3> QED BY <2>1, <3>2 DEF OwnFiles
  <2> QED BY <2>1, <2>2 DEF OwnFiles
<1>6. Undisturbed' /\ \A v \in Uploads \ spoiled' : Exposed(v)' => OwnFiles(v)'
  <2>1. ~Preparing(u)'
    BY DEF Preparing
  <2> QED BY <1>2, <1>3, <1>5, <2>1, OwnBesideStoring
<1> QED BY <1>4, <1>6 DEF OwnInv

LEMMA OwnSendRest ==
    ASSUME TypeInv, OwnInv, NEW u \in Uploads, NEW o \in Objects, SendRest(u, o)
    PROVE  OwnInv'
<1> DEFINE cells == content[Source(o)][inode[u][Source(o)]]
<1>1. /\ UNCHANGED <<path, content, stage, inode, next, size, buffer, spoiled, body>>
      /\ stage[u] = "storing" /\ request[u][o] = "reading" /\ o # "file tag"
      /\ Sent(u, o)
  BY DEF SendRest, Thread, temp_vars, worker_vars, history_vars
<1>2. body' \in [Uploads -> [Objects -> Seq(Uploads \cup {Spoilt})]]
  BY <1>1 DEF TypeInv, TypeOK
<1>3. ASSUME OwnFiles(u) PROVE body'[u][o] = Row(Pieces, u)
  <2>1. o \in {"file", "block tags"}
    BY <1>1 DEF Objects
  <2>2. cells = Row(Pieces, u)
    BY <1>1, <1>3, <2>1 DEF OwnFiles, Source
  <2>3. Length(cells) = Pieces
    <3>1. Row(Pieces, u) \in [1 .. Pieces -> Cells]
      BY DEF Row, Cells
    <3>2. \A k \in 1 .. Pieces : Row(Pieces, u)[k] # None
      BY DEF Row, Uploads, None
    <3> QED BY <2>2, <3>1, <3>2, LengthOfWhole
  <2>4. Len(body[u][o]) >= Pieces
    BY <2>3 DEF SendRest
  <2>5. /\ Len(body[u][o]) <= Pieces /\ body[u][o] = Row(Len(body[u][o]), u)
        /\ Len(body[u][o]) \in Nat
    <3>1. Len(body[u][o]) <= Pieces /\ body[u][o] = Row(Len(body[u][o]), u)
      BY <1>1, <1>3, <2>1 DEF OwnFiles
    <3>2. body[u][o] \in Seq(Uploads \cup {Spoilt})
      BY DEF TypeInv, TypeOK
    <3> QED BY <3>1, <3>2
  <2>6. Len(body[u][o]) = Pieces
    BY <2>4, <2>5
  <2> QED BY <1>1, <2>5, <2>6
<1> QED BY <1>1, <1>2, <1>3, OwnSend

LEMMA OwnSendFileTag ==
    ASSUME TypeInv, OwnInv, NEW u \in Uploads, SendFileTag(u)
    PROVE  OwnInv'
<1> DEFINE o == "file tag"
<1>1. /\ UNCHANGED <<path, content, stage, inode, next, size, buffer, spoiled>>
      /\ stage[u] = "storing" /\ request[u][o] = "reading" /\ o \in Objects
      /\ Sent(u, o)
      /\ body' = [body EXCEPT ![u][o] = Row(size[u], u)]
  BY DEF SendFileTag, Thread, Objects, Row, temp_vars, worker_vars, history_vars
<1>2. Row(size[u], u) \in Seq(Uploads \cup {Spoilt})
  <2>1. size[u] \in Nat
    BY DEF TypeInv, TypeOK
  <2> QED BY <2>1, RowOf
<1> HIDE DEF o
<1>3. /\ body' \in [Uploads -> [Objects -> Seq(Uploads \cup {Spoilt})]]
      /\ \A v \in Uploads, q \in Objects :
             v # u \/ q # o => body'[v][q] = body[v][q]
      /\ \A v \in Uploads \ {u} : body'[v] = body[v]
      /\ body'[u][o] = Row(size[u], u)
  BY <1>1, <1>2 DEF TypeInv, TypeOK
<1>4. OwnFiles(u) => size[u] = Pieces
  BY <1>1 DEF OwnFiles
<1> QED BY <1>1, <1>3, <1>4, OwnSend

LEMMA OwnFinish ==
    ASSUME TypeInv, OwnInv, NEW u \in Uploads, Finish(u)
    PROVE  OwnInv'
<1>0. stage \in [Uploads -> Stages]
  BY StageType
<1>1. CASE RefreshThrows(u)
  BY <1>1, OwnEnd DEF RefreshThrows
<1>2. ASSUME stage'[u] \in {"deleting", "ended", "over"},
             \A v \in Uploads \ {u} :
                 /\ stage'[v] = stage[v] /\ request'[v] = request[v]
                 /\ body'[v] = body[v],
             \A f \in TempFiles : path'[f] \in {0, path[f]},
             UNCHANGED <<content, inode, next, size, buffer, object, spoiled>>
      PROVE  OwnInv'
  <2>1. ~Preparing(u)' /\ ~Exposed(u)'
    BY <1>2 DEF Preparing, Exposed
  <2>2. Undisturbed' /\ \A v \in Uploads \ spoiled' : Exposed(v)' => OwnFiles(v)'
    BY <1>2, <2>1, OwnBesideStoring
  <2> QED BY <1>2, <2>2 DEF OwnInv, OnlyWritersSpoil
<1>3. CASE Return(u)
  <2>1. \A v \in Uploads \ {u} : request'[v] = request[v] /\ body'[v] = body[v]
    BY <1>3 DEF Return, TypeInv, TypeOK
  <2> QED BY <1>0, <1>2, <1>3, <2>1 DEF Return, Goto, Remove, TypeInv, TypeOK
<1>4. CASE DeleteTags(u)
  BY <1>0, <1>2, <1>4 DEF DeleteTags, Goto, Remove, TypeInv, TypeOK, store_vars
<1>5. CASE Refresh(u)
  BY <1>0, <1>2, <1>5 DEF Refresh, Goto, temp_vars, store_vars, history_vars
<1> QED BY <1>1, <1>3, <1>4, <1>5 DEF Finish

LEMMA OwnStep == TypeInv /\ OwnInv /\ [Next]_vars => OwnInv'
<1> SUFFICES ASSUME TypeInv, OwnInv, [Next]_vars PROVE OwnInv'
  OBVIOUS
<1>1. CASE Crash
  BY <1>1, OwnEnd DEF Crash
<1>2. CASE Restart \/ UNCHANGED vars
  <2>1. UNCHANGED <<path, content, stage, inode, next, size, buffer, request, body,
                    object, spoiled>>
    BY <1>2 DEF Restart, vars, temp_vars, worker_vars, store_vars, history_vars
  <2>2. ASSUME NEW u \in Uploads
        PROVE  /\ OwnFiles(u) => OwnFiles(u)'
               /\ Exposed(u)' <=> Exposed(u)
               /\ Preparing(u)' <=> Preparing(u)
    <3>1. OwnFiles(u) => OwnFiles(u)'
      BY <2>1 DEF OwnFiles
    <3> QED BY <2>1, <3>1 DEF Exposed, Preparing
  <2>3. Undisturbed'
    BY <2>1, <2>2 DEF OwnInv, Undisturbed
  <2>4. OnlyWritersSpoil'
    BY <2>1 DEF OwnInv, OnlyWritersSpoil
  <2> QED BY <2>1, <2>2, <2>3, <2>4 DEF OwnInv
<1>3. ASSUME NEW u \in Uploads, Store(u) PROVE OwnInv'
  <2>1. CASE OpenTagsThrows(u)
    BY <2>1, OwnEnd DEF OpenTagsThrows
  <2>2. ASSUME NEW o \in Objects, RequestThrows(u, o) PROVE OwnInv'
    BY <2>2, OwnEnd DEF RequestThrows
  <2> QED BY <1>3, <2>1, <2>2, OwnOpenTags, OwnSendFileTag, OwnReadPiece,
             OwnSendRest DEF Store
<1> QED BY <1>1, <1>2, <1>3, OwnPrepare, OwnFinish DEF Next

\* An object is, piece for piece, what its upload was to send, unless another
\* upload prepared its files while that one still read its own: with any number
\* of uploads, and whatever is removed, thrown or ended at the same time.
THEOREM OnlyWriters == Spec => []OnlyWritersSpoil
<1>1. OwnInv => OnlyWritersSpoil
  BY DEF OwnInv
<1> QED BY <1>1, TypeInit, TypeStep, OwnInit, OwnStep, PTL DEF Spec

=============================================================================
