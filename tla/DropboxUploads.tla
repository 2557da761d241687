--------------------------- MODULE DropboxUploads ---------------------------
(***************************************************************************)
(* client/upload/client and block_tag_serializer, as the workers of the    *)
(* application run them with the provider app/cc/provider.h chooses,       *)
(* Dropbox, and the list of files the window shows.  The uploads of files  *)
(* with one base name share the path of the compressed file and the path   *)
(* of the temporary file of the tags: one truncates what another writes or *)
(* reads, and removes what another is about to open.  An open stream keeps *)
(* the inode it has opened.  They also replace the same three objects.     *)
(*                                                                         *)
(* A cell of a file or of a request's body is the number of the upload     *)
(* whose piece, or whose tag of that very piece, it is.  A piece of the    *)
(* compressed file is one block.                                           *)
(***************************************************************************)
EXTENDS Integers, Sequences

CONSTANTS
    Pieces,         \* pieces of a compressed file
    MaxUploads      \* bound: uploads begun

ASSUME PiecesAssumption == Pieces \in Nat \ {0}
ASSUME MaxUploadsAssumption == MaxUploads \in Nat

VARIABLES
    path,           \* for each temporary file, the inode there; 0: no such file
    content,        \* for each temporary file and inode, its cells
    stage,          \* where the Execute() of each upload is
    inode,          \* for each upload, the inode its streams have of each file
    next,           \* pieces compressed, then pieces tagged
    size,           \* File::size of the compressed file
    buffer,         \* BlockTagSerializer::tags_
    request,        \* for each upload and object, its storing thread
    body,           \* for each upload and object, what was read to be sent
    object,         \* what Dropbox holds, and which upload sent it
    begun,          \* the number of uploads begun
    running,        \* the application runs
    listed,         \* the upload whose file the FileBrowser has in its list
    left,           \* history: temporary files a failure or an end has left
    missing,        \* history: uploads that did not find a temporary file
    overlapped,     \* history: uploads while which another one ran
    spoiled         \* history: uploads whose files another one could write

temp_vars == <<path, content>>
worker_vars == <<stage, inode, next, size, buffer>>
store_vars == <<request, body, object>>
app_vars == <<begun, running, listed>>
history_vars == <<left, missing, overlapped, spoiled>>
vars == <<temp_vars, worker_vars, store_vars, app_vars, history_vars>>

Uploads == 1 .. MaxUploads
Objects == {"file", "file tag", "block tags"}
TempFiles == {"compressed", "tags"}

None == 0           \* there is no such cell
Spoilt == -1        \* a hole, or a tag over a piece of another upload
Cells == Uploads \cup {None, Spoilt}

Empty == [k \in 1 .. Pieces |-> None]

\* The length of a file: its last cell.
Length(cells) ==
    CHOOSE n \in 0 .. Pieces :
        /\ n = 0 \/ cells[n] # None
        /\ \A k \in n + 1 .. Pieces : cells[k] = None

\* An upload has, or is about to have, a temporary file open for writing.
Preparing(u) ==
    stage[u] \in {"compress", "compressing", "compressed", "tagging"}

Executing(u) ==
    Preparing(u) \/ stage[u] \in {"storing", "deleting"}

\* The temporary files of an upload are still read.
Exposed(u) ==
    \/ Preparing(u)
    \/ /\ stage[u] = "storing"
       /\ \E o \in Objects : request[u][o] \in {"starting", "reading"}

NoRequest == [o \in Objects |-> "none"]
NoBody == [o \in Objects |-> <<>>]

Init ==
    /\ path = [f \in TempFiles |-> 0]
    /\ content = [f \in TempFiles |-> [n \in Uploads |-> Empty]]
    /\ stage = [u \in Uploads |-> "none"]
    /\ inode = [u \in Uploads |-> [f \in TempFiles |-> 0]]
    /\ next = [u \in Uploads |-> 0]
    /\ size = [u \in Uploads |-> 0]
    /\ buffer = [u \in Uploads |-> <<>>]
    /\ request = [u \in Uploads |-> NoRequest]
    /\ body = [u \in Uploads |-> NoBody]
    /\ object = [o \in Objects |-> [of |-> 0, body |-> <<>>]]
    /\ begun = 0
    /\ running = TRUE
    /\ listed = 0
    /\ left = {}
    /\ missing = {}
    /\ overlapped = {}
    /\ spoiled = {}

-----------------------------------------------------------------------------
(* The end of the application: std::terminate or any other.                *)

End ==
    /\ running' = FALSE
    /\ stage' = [u \in Uploads |-> IF stage[u] = "none" THEN "none" ELSE "over"]
    /\ left' = {f \in TempFiles : path[f] # 0}
    /\ request' = [u \in Uploads |-> NoRequest]
    /\ body' = [u \in Uploads |-> NoBody]
    /\ UNCHANGED <<temp_vars, inode, next, size, buffer, object, begun, listed,
                   overlapped, spoiled>>

Crash ==
    /\ running
    /\ End
    /\ UNCHANGED missing

\* The window asks for the list when it is loaded.
Restart ==
    /\ ~running
    /\ running' = TRUE
    /\ listed' = object["file"].of
    /\ UNCHANGED <<temp_vars, worker_vars, store_vars, begun, history_vars>>

-----------------------------------------------------------------------------
(* Upload(): Compress(), then the compressed file is opened                *)

Goto(u, s) == stage' = [stage EXCEPT ![u] = s]

\* A file is dropped on the window.
Begin(u) ==
    /\ running
    /\ u = begun + 1
    /\ begun' = u
    /\ Goto(u, "compress")
    /\ overlapped' = overlapped \cup {v \in Uploads : Executing(v)}
                        \cup {v \in {u} : \E w \in Uploads : Executing(w)}
    /\ spoiled' = spoiled \cup {v \in Uploads : Exposed(v)}
                        \cup {v \in {u} : \E w \in Uploads : Preparing(w)}
    /\ UNCHANGED <<temp_vars, inode, next, size, buffer, store_vars, running,
                   listed, left, missing>>

\* An ofstream truncates what is at the path, or creates it.  An upload creates
\* each of the files once at most: what it creates has its number.
Create(u, f) ==
    LET n == IF path[f] = 0 THEN u ELSE path[f]
    IN  /\ path' = [path EXCEPT ![f] = n]
        /\ content' = [content EXCEPT ![f][n] = Empty]
        /\ inode' = [inode EXCEPT ![u][f] = n]

Compress(u) ==
    /\ stage[u] = "compress"
    /\ Create(u, "compressed")
    /\ Goto(u, "compressing")
    /\ UNCHANGED <<next, size, buffer, store_vars, app_vars, history_vars>>

CompressThrows(u) ==
    /\ stage[u] = "compress"
    /\ Goto(u, "ended")
    /\ UNCHANGED <<temp_vars, inode, next, size, buffer, store_vars, app_vars,
                   history_vars>>

WritePiece(u) ==
    /\ stage[u] = "compressing"
    /\ next[u] < Pieces
    /\ next' = [next EXCEPT ![u] = @ + 1]
    /\ content' = [content EXCEPT
                      !["compressed"][inode[u]["compressed"]][next[u] + 1] = u]
    /\ UNCHANGED <<path, stage, inode, size, buffer, store_vars, app_vars,
                   history_vars>>

\* A fault: the file is opened before the ofstream that writes it is closed.
OpenUnclosed(u) ==
    LET n == path["compressed"]
    IN  /\ stage[u] = "compressing"
        /\ n # 0
        /\ Goto(u, "compressed")
        /\ inode' = [inode EXCEPT ![u]["compressed"] = n]
        /\ size' = [size EXCEPT ![u] = Length(content["compressed"][n])]
        /\ next' = [next EXCEPT ![u] = 0]
        /\ UNCHANGED <<temp_vars, buffer, store_vars, app_vars, history_vars>>

\* File's constructor takes the size the file has now.
OpenCompressed(u) ==
    LET n == path["compressed"]
    IN  /\ stage[u] = "compressing"
        /\ next[u] = Pieces
        /\ n # 0
        /\ Goto(u, "compressed")
        /\ inode' = [inode EXCEPT ![u]["compressed"] = n]
        /\ size' = [size EXCEPT ![u] = Length(content["compressed"][n])]
        /\ next' = [next EXCEPT ![u] = 0]
        /\ UNCHANGED <<temp_vars, buffer, store_vars, app_vars, history_vars>>

OpenCompressedThrows(u) ==
    /\ stage[u] = "compressing"
    /\ next[u] = Pieces
    /\ path["compressed"] = 0
    /\ missing' = missing \cup {u}
    /\ Goto(u, "ended")
    /\ UNCHANGED <<temp_vars, inode, next, size, buffer, store_vars, app_vars,
                   left, overlapped, spoiled>>

-----------------------------------------------------------------------------
(* Upload(): BlockTagger and BlockTagSerializer                            *)

\* The constructor of the serializer.
CreateTags(u) ==
    /\ stage[u] = "compressed"
    /\ Create(u, "tags")
    /\ Goto(u, "tagging")
    /\ UNCHANGED <<next, size, buffer, store_vars, app_vars, history_vars>>

\* The compressed file is removed by nothing but the end of Upload().
CreateTagsThrows(u) ==
    /\ stage[u] = "compressed"
    /\ Goto(u, "ended")
    /\ left' = left \cup {f \in {"compressed"} : path[f] # 0}
    /\ UNCHANGED <<temp_vars, inode, next, size, buffer, store_vars, app_vars,
                   missing, overlapped, spoiled>>

\* Flush() writes the tags that are buffered behind those it has written.
Flush(u) ==
    LET flushed == next[u] - Len(buffer[u])
    IN  content' = [content EXCEPT !["tags"][inode[u]["tags"]] =
            [k \in 1 .. Pieces |->
                IF k \in flushed + 1 .. next[u] THEN buffer[u][k - flushed]
                ELSE @[k]]]

\* The tag of what the stream finds at the place of the next piece; whether the
\* buffer is full then depends on the sizes of the tags.
TagPiece(u) ==
    LET found == content["compressed"][inode[u]["compressed"]][next[u] + 1]
        tag == IF found = u THEN u ELSE Spoilt
    IN  /\ stage[u] = "tagging"
        /\ next[u] < size[u]
        /\ next' = [next EXCEPT ![u] = @ + 1]
        /\ \/ /\ buffer' = [buffer EXCEPT ![u] = Append(@, tag)]
              /\ UNCHANGED content
           \/ /\ Flush(u)
              /\ buffer' = [buffer EXCEPT ![u] = <<tag>>]
        /\ UNCHANGED <<path, stage, inode, size, store_vars, app_vars,
                       history_vars>>

\* A fault: the serializer, and its file, is gone before the threads start.
DoneAndDeleted(u) ==
    /\ stage[u] = "tagging"
    /\ next[u] = size[u]
    /\ Flush(u)
    /\ buffer' = [buffer EXCEPT ![u] = <<>>]
    /\ path' = [path EXCEPT !["tags"] = 0]
    /\ request' = [request EXCEPT ![u] =
                      [o \in Objects |->
                          IF o = "block tags" THEN "starting" ELSE "reading"]]
    /\ Goto(u, "storing")
    /\ UNCHANGED <<inode, next, size, body, object, app_vars, history_vars>>

\* Done() flushes and closes the file; the three threads start.
Done(u) ==
    /\ stage[u] = "tagging"
    /\ next[u] = size[u]
    /\ Flush(u)
    /\ buffer' = [buffer EXCEPT ![u] = <<>>]
    /\ request' = [request EXCEPT ![u] =
                      [o \in Objects |->
                          IF o = "block tags" THEN "starting" ELSE "reading"]]
    /\ Goto(u, "storing")
    /\ UNCHANGED <<path, inode, next, size, body, object, app_vars,
                   history_vars>>

-----------------------------------------------------------------------------
(* The three threads                                                       *)

Thread(u, o, s) == stage[u] = "storing" /\ request[u][o] = s
Proceed(u, o, s) == request' = [request EXCEPT ![u][o] = s]

\* StoreBlockTagFile() opens the file of the tags by its path.
OpenTags(u) ==
    /\ Thread(u, "block tags", "starting")
    /\ path["tags"] # 0
    /\ inode' = [inode EXCEPT ![u]["tags"] = path["tags"]]
    /\ Proceed(u, "block tags", "reading")
    /\ UNCHANGED <<temp_vars, stage, next, size, buffer, body, object, app_vars,
                   history_vars>>

\* The exception leaves the function of the thread.
OpenTagsThrows(u) ==
    /\ Thread(u, "block tags", "starting")
    /\ path["tags"] = 0
    /\ missing' = missing \cup {u}
    /\ End

Source(o) == IF o = "file" THEN "compressed" ELSE "tags"

\* A fault: a read past what has been written is taken for a piece.
ReadHole(u, o) ==
    LET cells == content[Source(o)][inode[u][Source(o)]]
        k == Len(body[u][o]) + 1
    IN  /\ Thread(u, o, "reading")
        /\ o # "file tag"
        /\ k <= Pieces
        /\ body' = [body EXCEPT ![u][o] = Append(@, cells[k])]
        /\ UNCHANGED <<temp_vars, worker_vars, request, object, app_vars,
                       history_vars>>

\* The body of a request is read from the stream while it is sent; a hole reads
\* as zeros.
ReadPiece(u, o) ==
    LET cells == content[Source(o)][inode[u][Source(o)]]
        k == Len(body[u][o]) + 1
    IN  /\ Thread(u, o, "reading")
        /\ o # "file tag"
        /\ k <= Length(cells)
        /\ body' = [body EXCEPT ![u][o] =
                       Append(@, IF cells[k] = None THEN Spoilt ELSE cells[k])]
        /\ UNCHANGED <<temp_vars, worker_vars, request, object, app_vars,
                       history_vars>>

\* Dropbox replaces an object ("overwrite") when it has the whole body.
Sent(u, o) ==
    /\ object' = [object EXCEPT ![o] = [of |-> u, body |-> body'[u][o]]]
    /\ Proceed(u, o, "stored")

SendRest(u, o) ==
    LET cells == content[Source(o)][inode[u][Source(o)]]
    IN  /\ Thread(u, o, "reading")
        /\ o # "file tag"
        /\ Len(body[u][o]) >= Length(cells)
        /\ UNCHANGED body
        /\ Sent(u, o)
        /\ UNCHANGED <<temp_vars, worker_vars, app_vars, history_vars>>

\* The FileTag is in memory: as many blocks as the file had when it was opened.
SendFileTag(u) ==
    /\ Thread(u, "file tag", "reading")
    /\ body' = [body EXCEPT ![u]["file tag"] = [k \in 1 .. size[u] |-> u]]
    /\ Sent(u, "file tag")
    /\ UNCHANGED <<temp_vars, worker_vars, app_vars, history_vars>>

\* Dropbox refuses the request, or the connection breaks before its answer or
\* after it has stored the object: SendRequest() throws in the thread.
RequestThrows(u, o) ==
    /\ stage[u] = "storing"
    /\ request[u][o] \in {"reading", "stored"}
    /\ End
    /\ UNCHANGED missing

-----------------------------------------------------------------------------
(* After the joins                                                         *)

Remove(f) ==
    /\ path' = [path EXCEPT ![f] = 0]
    /\ left' = left \ {f}

\* What is at the path is removed, whoever put it there.
Return(u) ==
    /\ stage[u] = "storing"
    /\ \A o \in Objects : request[u][o] = "stored"
    /\ Remove("compressed")
    /\ Goto(u, "deleting")
    /\ request' = [request EXCEPT ![u] = NoRequest]
    /\ body' = [body EXCEPT ![u] = NoBody]
    /\ UNCHANGED <<content, inode, next, size, buffer, object, app_vars,
                   missing, overlapped, spoiled>>

\* A fault: the file of the tags is not removed.
DeleteNothing(u) ==
    /\ stage[u] = "deleting"
    /\ Goto(u, "ended")
    /\ UNCHANGED <<temp_vars, inode, next, size, buffer, store_vars, app_vars,
                   history_vars>>

\* The destructor of the serializer.
DeleteTags(u) ==
    /\ stage[u] = "deleting"
    /\ Remove("tags")
    /\ Goto(u, "ended")
    /\ UNCHANGED <<content, inode, next, size, buffer, store_vars, app_vars,
                   missing, overlapped, spoiled>>

\* A fault: the FileBrowser that is there is asked.
ShowCached(u) ==
    /\ stage[u] = "ended"
    /\ Goto(u, "over")
    /\ UNCHANGED <<temp_vars, inode, next, size, buffer, store_vars, app_vars,
                   history_vars>>

\* The main thread tells the window how the upload ended, and for that the
\* window refreshes the list: a FileBrowser is made anew.
Refresh(u) ==
    /\ stage[u] = "ended"
    /\ Goto(u, "over")
    /\ listed' = object["file"].of
    /\ UNCHANGED <<temp_vars, inode, next, size, buffer, store_vars, begun,
                   running, history_vars>>

\* The list is fetched outside the try block: an exception leaves the binding.
RefreshThrows(u) ==
    /\ stage[u] = "ended"
    /\ End
    /\ UNCHANGED missing

-----------------------------------------------------------------------------
Prepare(u) ==
    \/ Begin(u) \/ Compress(u) \/ CompressThrows(u) \/ WritePiece(u)
    \/ OpenCompressed(u) \/ OpenCompressedThrows(u)
    \/ CreateTags(u) \/ CreateTagsThrows(u) \/ TagPiece(u) \/ Done(u)

Store(u) ==
    \/ OpenTags(u) \/ OpenTagsThrows(u) \/ SendFileTag(u)
    \/ \E o \in Objects :
           ReadPiece(u, o) \/ SendRest(u, o) \/ RequestThrows(u, o)

Finish(u) == Return(u) \/ DeleteTags(u) \/ Refresh(u) \/ RefreshThrows(u)

Next ==
    \/ \E u \in Uploads : Prepare(u) \/ Store(u) \/ Finish(u)
    \/ Crash \/ Restart

Spec == Init /\ [][Next]_vars

-----------------------------------------------------------------------------
\* The variables have their types.
TypeOK ==
    /\ path \in [TempFiles -> {0} \cup Uploads]
    /\ content \in [TempFiles -> [Uploads -> [1 .. Pieces -> Cells]]]
    /\ stage \in [Uploads ->
           {"none", "compress", "compressing", "compressed", "tagging", "storing",
            "deleting", "ended", "over"}]
    /\ inode \in [Uploads -> [TempFiles -> {0} \cup Uploads]]
    /\ next \in [Uploads -> 0 .. Pieces]
    /\ size \in [Uploads -> 0 .. Pieces]
    /\ buffer \in [Uploads -> Seq(Uploads \cup {Spoilt})]
    /\ \A u \in Uploads : Len(buffer[u]) <= next[u]
    /\ request \in [Uploads -> [Objects ->
           {"none", "starting", "reading", "stored"}]]
    /\ body \in [Uploads -> [Objects -> Seq(Uploads \cup {Spoilt})]]
    /\ object \in [Objects -> [of : {0} \cup Uploads,
                               body : Seq(Uploads \cup {Spoilt})]]
    /\ begun \in 0 .. MaxUploads
    /\ running \in BOOLEAN
    /\ listed \in {0} \cup Uploads
    /\ left \subseteq TempFiles
    /\ missing \subseteq Uploads
    /\ overlapped \subseteq Uploads
    /\ spoiled \subseteq Uploads

\* "Once Done() has returned, the temporary file will contain all the added
\* tags": each object on Dropbox is, piece for piece, what its upload was to
\* send, unless another upload prepared its own files while that one still read
\* them.  Others that only store, remove files or fail do not spoil it.
OnlyWritersSpoil ==
    \A o \in Objects :
        LET u == object[o].of
        IN  u # 0 /\ u \notin spoiled =>
                object[o].body = [k \in 1 .. Pieces |-> u]

\* A temporary file is gone when its upload opens it only if another upload of
\* the name has run meanwhile: no upload removes a file it still needs.
MissingNeedsOverlap == missing \subseteq overlapped

\* When no upload runs the temporary files are gone, whatever was created,
\* truncated, removed and thrown at the same time, but for what an end of the
\* application, or an upload that could not create the file of the tags, left.
TempFilesRemoved ==
    (\A u \in Uploads : ~Executing(u)) => \A f \in TempFiles : path[f] # 0 => f \in left

\* When every upload that ended has told so, the list in the window is that of
\* the files Dropbox holds, whatever has ended, failed or been started again.
ListCurrent ==
    running /\ (\A u \in Uploads : ~Executing(u) /\ stage[u] # "ended")
        => listed = object["file"].of

=============================================================================
