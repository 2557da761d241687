--------------------------- MODULE DropboxCopies ---------------------------
(***************************************************************************)
(* providers/dropbox/fetcher.cc under NoServerProofSource::GetProof(): to  *)
(* prove a file it is downloaded, with its block tags, to local copies     *)
(* whose paths depend on nothing but its name.  The verifications that run *)
(* at once in the workers of the application share these two paths: one    *)
(* writes into the file that another is writing or reading, and removes    *)
(* what another is about to open.  An open stream keeps the inode it has   *)
(* opened.  A copy is opened for writing in the mode std::ios_base::binary *)
(* only, which truncates nothing: a file that is there is overwritten.     *)
(*                                                                         *)
(* What is on Dropbox is intact and does not change: an inode is described *)
(* by the pieces of the object that are in it.                             *)
(***************************************************************************)
EXTENDS Integers, FiniteSets, FiniteSetsExt

CONSTANTS
    Workers,            \* the VerifyWorkers of one file that may run at once
    Pieces,             \* pieces in which an object arrives and is read
    MaxVerifications    \* bound: verifications begun

ASSUME WorkersAssumption == IsFiniteSet(Workers) /\ Workers # {}
ASSUME PiecesAssumption == Pieces \in Nat \ {0}
ASSUME MaxVerificationsAssumption == MaxVerifications \in Nat

VARIABLES
    path,       \* for each copy, the inode in the directory; 0: no such file
    content,    \* for each copy and inode, the pieces in it
    worker,     \* for each worker, its Verify()
    begun,      \* the number of verifications begun
    left        \* history: copies left by an end of the application

vars == <<path, content, worker, begun, left>>

Copies == {"file", "tags"}

\* A worker has one stream at most on each copy, and one inode is in the
\* directory: there is always a free one.
Inodes == 1 .. Cardinality(Workers) + 1

Idle == [stage |-> "idle", copy |-> "file", next |-> 1,
         held |-> [c \in Copies |-> 0], result |-> "none",
         fate |-> "kept"]

Running(w) == worker[w].stage # "idle"

\* Worker w writes or has written copy c and is to open it by its path.
ToReopen(w, c) ==
    worker[w].stage \in {"saving", "saved"} /\ worker[w].copy = c

Init ==
    /\ path = [c \in Copies |-> 0]
    /\ content = [c \in Copies |-> [n \in Inodes |-> {}]]
    /\ worker = [w \in Workers |-> Idle]
    /\ begun = 0
    /\ left = {}

-----------------------------------------------------------------------------
(* Verify() up to the Fetcher's constructor                                *)

To(w, next) == worker' = [worker EXCEPT ![w] = next]

Begin(w) ==
    /\ ~Running(w)
    /\ begun < MaxVerifications
    /\ begun' = begun + 1
    /\ To(w, [Idle EXCEPT !.stage = "requesting"])
    /\ UNCHANGED <<path, content, left>>

-----------------------------------------------------------------------------
(* Setup(): DownloadFile(), then DownloadBlockTagFile()                    *)

\* fate: what others have done to a copy of a worker that is to open it again.
ToWhile(w, next, others, fate) ==
    worker' = [v \in Workers |->
                  IF v = w THEN next
                  ELSE IF v \in others THEN [worker[v] EXCEPT !.fate = fate]
                  ELSE worker[v]]

FreeInode(c) ==
    Min(Inodes \ ({path[c]} \cup {worker[w].held[c] : w \in Workers}))

\* A fault: the local file is opened with std::ios_base::trunc.
SaveTruncating(w) ==
    LET me == worker[w]
        c == me.copy
        n == IF path[c] = 0 THEN FreeInode(c) ELSE path[c]
    IN  /\ me.stage = "requesting"
        /\ path' = [path EXCEPT ![c] = n]
        /\ content' = [content EXCEPT ![c][n] = {}]
        /\ ToWhile(w, [me EXCEPT !.stage = "saving", !.next = 1, !.held[c] = n],
                   {v \in Workers : path[c] = 0 /\ ToReopen(v, c)}, "replaced")
        /\ UNCHANGED <<begun, left>>

\* The answer has come and the local file is opened: one that is there stays as
\* it is, or else there is a new one.
Save(w) ==
    LET me == worker[w]
        c == me.copy
        n == IF path[c] = 0 THEN FreeInode(c) ELSE path[c]
    IN  /\ me.stage = "requesting"
        /\ path' = [path EXCEPT ![c] = n]
        /\ content' = [content EXCEPT ![c][n] = IF path[c] = 0 THEN {} ELSE @]
        /\ ToWhile(w, [me EXCEPT !.stage = "saving", !.next = 1, !.held[c] = n],
                   {v \in Workers : path[c] = 0 /\ ToReopen(v, c)}, "replaced")
        /\ UNCHANGED <<begun, left>>

\* A fault: a piece more than there is.
SavePieceTooMany(w) ==
    LET me == worker[w]
        n == me.held[me.copy]
    IN  /\ me.stage = "saving"
        /\ content' = [content EXCEPT ![me.copy][n] = @ \cup {me.next}]
        /\ To(w, [me EXCEPT !.next = @ + 1])
        /\ UNCHANGED <<path, begun, left>>

\* read_to_end() writes at its own position, into whatever is linked or not.
SavePiece(w) ==
    LET me == worker[w]
        n == me.held[me.copy]
    IN  /\ me.stage = "saving"
        /\ me.next <= Pieces
        /\ content' = [content EXCEPT ![me.copy][n] = @ \cup {me.next}]
        /\ To(w, [me EXCEPT !.next = @ + 1])
        /\ UNCHANGED <<path, begun, left>>

\* size.get() has returned, and out_file is closed.
Saved(w) ==
    /\ worker[w].stage = "saving"
    /\ worker[w].next > Pieces
    /\ To(w, [worker[w] EXCEPT !.stage = "saved", !.held[worker[w].copy] = 0])
    /\ UNCHANGED <<path, content, begun, left>>

\* Dropbox refuses, the connection breaks, or the local file cannot be written:
\* the exception destroys the Fetcher on its way.
DownloadThrows(w) ==
    /\ worker[w].stage \in {"requesting", "saving"}
    /\ To(w, [worker[w] EXCEPT !.stage = "deleting", !.copy = "file",
                               !.held[worker[w].copy] = 0, !.result = "error"])
    /\ UNCHANGED <<path, content, begun, left>>

\* The local file is opened again, by its path, to be read.
OpenSaved(w) ==
    LET me == worker[w]
        c == me.copy
    IN  /\ me.stage = "saved"
        /\ path[c] # 0
        /\ To(w, [me EXCEPT !.held[c] = path[c], !.copy = "tags",
                            !.stage = IF c = "file" THEN "requesting" ELSE "set up"])
        /\ UNCHANGED <<path, content, begun, left>>

OpenSavedThrows(w) ==
    /\ worker[w].stage = "saved"
    /\ path[worker[w].copy] = 0
    /\ To(w, [worker[w] EXCEPT !.stage = "deleting", !.copy = "file",
                               !.result = "missing"])
    /\ UNCHANGED <<path, content, begun, left>>

-----------------------------------------------------------------------------
(* Prove(): one item of the challenge at least                             *)

FetchItem(w) ==
    LET me == worker[w]
    IN  /\ me.stage \in {"set up", "proving"}
        /\ \E piece \in 1 .. Pieces :
               To(w, [me EXCEPT !.stage = "proving",
                        !.result =
                            IF \A c \in Copies : piece \in content[c][me.held[c]]
                            THEN @ ELSE "corrupted"])
        /\ UNCHANGED <<path, content, begun, left>>

\* The proof is made; the Fetcher goes before it is looked at.
Proved(w) ==
    /\ worker[w].stage = "proving"
    /\ To(w, [worker[w] EXCEPT !.stage = "deleting", !.copy = "file",
                               !.result = IF @ = "none" THEN "intact" ELSE @])
    /\ UNCHANGED <<path, content, begun, left>>

-----------------------------------------------------------------------------
(* ~Fetcher(): DeleteFile(), DeleteBlockTagFile(), then the streams close  *)

\* A fault: the block tags are left behind.
DeleteFileOnly(w) ==
    /\ worker[w].stage = "deleting"
    /\ path' = [path EXCEPT !["file"] = 0]
    /\ left' = left \ {"file"}
    /\ To(w, [worker[w] EXCEPT !.stage = "idle", !.held = Idle.held])
    /\ UNCHANGED <<content, begun>>

\* What is at the path is removed, whoever put it there.
Delete(w) ==
    LET me == worker[w]
        c == me.copy
    IN  /\ me.stage = "deleting"
        /\ path' = [path EXCEPT ![c] = 0]
        /\ left' = left \ {c}
        /\ ToWhile(w, IF c = "file" THEN [me EXCEPT !.copy = "tags"]
                      ELSE [Idle EXCEPT !.result = me.result, !.fate = me.fate],
                   {v \in Workers : ToReopen(v, c) /\ worker[v].fate = "kept"},
                   "removed")
        /\ UNCHANGED <<content, begun>>

\* The end of the application: what was downloaded stays.
Crash ==
    /\ worker' = [w \in Workers |-> Idle]
    /\ left' = {c \in Copies : path[c] # 0}
    /\ UNCHANGED <<path, content, begun>>

-----------------------------------------------------------------------------
Next ==
    \/ \E w \in Workers :
           \/ Begin(w) \/ Save(w) \/ SavePiece(w) \/ Saved(w)
           \/ DownloadThrows(w) \/ OpenSaved(w) \/ OpenSavedThrows(w)
           \/ FetchItem(w) \/ Proved(w) \/ Delete(w)
    \/ Crash

Spec == Init /\ [][Next]_vars

-----------------------------------------------------------------------------
\* The variables have their types.
TypeOK ==
    /\ path \in [Copies -> {0} \cup Inodes]
    /\ content \in [Copies -> [Inodes -> SUBSET (1 .. Pieces)]]
    /\ worker \in [Workers ->
           [stage : {"idle", "requesting", "saving", "saved", "set up", "proving",
                     "deleting"},
            copy : Copies, next : 1 .. Pieces + 1,
            held : [Copies -> {0} \cup Inodes],
            result : {"none", "intact", "corrupted", "error", "missing"},
            fate : {"kept", "removed", "replaced"}]]
    /\ begun \in 0 .. MaxVerifications
    /\ left \subseteq Copies

\* A verification of an intact file goes wrong only if another has removed a copy
\* of it between its opening for writing and its opening for reading, and is a
\* false alarm only if a download has put a new file there since: writing into
\* each other's copies, reading beside a writer, copies left by an end of the
\* application and removals at any other moment do no harm.
AlarmNeedsRemoval ==
    \A w \in Workers :
        /\ worker[w].result = "missing" => worker[w].fate # "kept"
        /\ worker[w].result = "corrupted" => worker[w].fate = "replaced"

\* When no verification runs there are no local copies, whatever was downloaded,
\* overwritten, removed and thrown at the same time, but for what the end of the
\* application left; and that is removed by the next verification.
NothingLeftBehind ==
    (\A w \in Workers : ~Running(w)) => \A c \in Copies : path[c] # 0 => c \in left

\* "Verify returns true if the given file's integrity could be verified": an
\* intact file is not reported as corrupted.
NoFalseAlarm == \A w \in Workers : worker[w].result # "corrupted"

=============================================================================
