---------------------------- MODULE RemoteStore ----------------------------
(***************************************************************************)
(* providers/azure over server/: the three objects of a file on a remote   *)
(* server, written by three requests per upload, each with a handler of    *)
(* its own on the server, and read by the requests of an auditor.  The     *)
(* application that uploads may end at any time, and so may the server; a  *)
(* handler learns only some time later that its client is gone, and what   *)
(* it holds in the buffer of its ofstream is written when it is deleted.   *)
(*                                                                         *)
(* A cell of an object is the number of the upload it is of, 0 in a hole   *)
(* of the file.  Uploads of the name have different contents.              *)
(***************************************************************************)
EXTENDS Integers, Sequences

CONSTANTS
    Data,           \* the objects a proof reads: the file, its block tags
    MaxUploads,     \* bound: uploads of the name
    EmptyUploads,   \* the uploads of a file without blocks
    Chunks          \* pieces in which the body of a request arrives

ASSUME DataAssumption == Data # {} /\ "file tag" \notin Data
ASSUME MaxUploadsAssumption == MaxUploads \in Nat
ASSUME EmptyUploadsAssumption == EmptyUploads \subseteq Nat
ASSUME ChunksAssumption == Chunks \in Nat \ {0}

VARIABLES
    app,            \* the uploading application: "idle", "storing" or "dead"
    current,        \* the number of uploads begun
    thread,         \* what each storing thread of the application waits for
    handler,        \* the StorageHandler of each upload and object
    store,          \* the objects on the server's disk
    server,         \* is the server running
    report,         \* what the last upload was reported as
    auditor,        \* a verification by another application
    remains,        \* history: this upload began before earlier ones were over
    lost            \* history: bytes of this upload did not reach the disk

vars == <<app, current, thread, handler, store, server, report, auditor,
          remains, lost>>

Objects == Data \cup {"file tag"}
Uploads == 1 .. MaxUploads

NoHandler == [phase |-> "none", received |-> 0, flushed |-> 0, bad |-> FALSE]
NoObject == [there |-> FALSE, cells |-> <<>>]
NotAuditing == [stage |-> "idle", tag |-> 0, good |-> TRUE, calm |-> FALSE,
                result |-> "none"]

Live(v, o) == handler[v][o].phase # "none"
Over(v) == \A o \in Objects : ~Live(v, o)

\* The pieces of an object: without blocks the file and its tags have no bytes,
\* the FileTag has.
Size(v, o) == IF v \in EmptyUploads /\ o \in Data THEN 0 ELSE Chunks

Whole(o, v) ==
    store[o] = [there |-> TRUE, cells |-> [k \in 1 .. Size(v, o) |-> v]]
StoredTogether(v) == \A o \in Objects : Whole(o, v)

\* The bytes a handler has received and not yet written.
Pending(h) == h.received - h.flushed

Init ==
    /\ app = "idle"
    /\ current = 0
    /\ thread = [o \in Objects |-> "none"]
    /\ handler = [v \in Uploads |-> [o \in Objects |-> NoHandler]]
    /\ store = [o \in Objects |-> NoObject]
    /\ server = "up"
    /\ report = "none"
    /\ auditor = NotAuditing
    /\ remains = FALSE
    /\ lost = FALSE

-----------------------------------------------------------------------------
(* The application: Client::Upload() over azure::FileStorage               *)

\* The three storing threads send their requests.
BeginUpload ==
    /\ app = "idle"
    /\ current < MaxUploads
    /\ current' = current + 1
    /\ app' = "storing"
    /\ thread' = [o \in Objects |-> "waiting"]
    /\ handler' = [handler EXCEPT ![current'] =
                      [o \in Objects |-> [NoHandler EXCEPT !.phase = "sent"]]]
    /\ report' = "none"
    /\ remains' = (\E v \in 1 .. current : ~Over(v))
    /\ lost' = FALSE
    /\ UNCHANGED <<store, server, auditor>>

Return ==
    /\ app = "storing"
    /\ \A o \in Objects : thread[o] = "answered"
    /\ app' = "idle"
    /\ thread' = [o \in Objects |-> "none"]
    /\ report' = "success"
    /\ UNCHANGED <<current, handler, store, server, auditor, remains, lost>>

\* The end of the application, also by the exception that leaves the function of
\* a storing thread when its request fails.
Crash ==
    /\ app # "dead"
    /\ app' = "dead"
    /\ thread' = [o \in Objects |-> "none"]
    /\ lost' = (lost /\ report = "success")
    /\ UNCHANGED <<current, handler, store, server, report, auditor, remains>>

Restart ==
    /\ app = "dead"
    /\ app' = "idle"
    /\ report' = "none"
    /\ UNCHANGED <<current, thread, handler, store, server, auditor, remains,
                   lost>>

-----------------------------------------------------------------------------
(* StorageHandler: its requests may still be arriving when the application *)
(* that sent them is dead.                                                 *)

Become(v, o, next) == handler' = [handler EXCEPT ![v][o] = next]

\* Cells from + 1 .. upto of a file are overwritten by those of upload v.
Overwritten(cells, v, from, upto) ==
    [k \in 1 .. (IF from < upto /\ upto > Len(cells) THEN upto ELSE Len(cells))
        |-> IF from < k /\ k <= upto THEN v
            ELSE IF k <= Len(cells) THEN cells[k] ELSE 0]

Put(o, object) ==
    /\ store' = [store EXCEPT ![o] = object]
    /\ auditor' = [auditor EXCEPT !.calm = @ /\ store'[o] = store[o]]

PutCells(v, o, upto) ==
    Put(o, [there |-> store[o].there,
            cells |-> Overwritten(store[o].cells, v, handler[v][o].flushed, upto)])

KeepStore == UNCHANGED <<store, auditor>>

\* A write of upload v failed, unnoticed.
Lose(v) == lost' = (lost \/ v = current)

\* A fault: the object is opened for appending.
OnRequestAppending(v, o) ==
    /\ server = "up"
    /\ handler[v][o].phase = "sent"
    /\ Put(o, [store[o] EXCEPT !.there = TRUE])
    /\ Become(v, o, [handler[v][o] EXCEPT !.phase = "open"])
    /\ UNCHANGED <<app, current, thread, server, report, remains, lost>>

\* Opening the object truncates it.  A failure is printed and goes on.
OnRequest(v, o) ==
    /\ server = "up"
    /\ handler[v][o].phase = "sent"
    /\ \/ /\ Put(o, [there |-> TRUE, cells |-> <<>>])
          /\ Become(v, o, [handler[v][o] EXCEPT !.phase = "open"])
          /\ UNCHANGED lost
       \/ /\ KeepStore
          /\ Become(v, o, [handler[v][o] EXCEPT !.phase = "open", !.bad = TRUE])
          /\ Lose(v)
    /\ UNCHANGED <<app, current, thread, server, report, remains>>

\* A fault: a body longer than what was announced is accepted.
OnBodyUnbounded(v, o) ==
    /\ server = "up"
    /\ handler[v][o].phase = "open"
    /\ Become(v, o, [handler[v][o] EXCEPT !.received = @ + 1])
    /\ UNCHANGED <<app, current, thread, store, server, report, auditor, remains,
                   lost>>

\* out_file_.write(): what exceeds the buffer is written, or fails for good.
OnBody(v, o) ==
    LET h == handler[v][o]
    IN  /\ server = "up"
        /\ h.phase = "open"
        /\ h.received < Size(v, o)
        /\ \/ /\ ~h.bad
              /\ \E upto \in h.flushed .. h.received + 1 :
                     /\ PutCells(v, o, upto)
                     /\ Become(v, o, [h EXCEPT !.received = @ + 1,
                                               !.flushed = upto])
              /\ UNCHANGED lost
           \/ /\ \E upto \in h.flushed .. h.received :
                     /\ h.bad => upto = h.flushed
                     /\ PutCells(v, o, upto)
              /\ Become(v, o, [h EXCEPT !.received = @ + 1, !.bad = TRUE])
              /\ Lose(v)
        /\ UNCHANGED <<app, current, thread, server, report, remains>>

\* The whole body has arrived: 200, whatever became of it.  The status is not
\* looked at; until the answer arrives Return may wait, or Crash.
OnEOM(v, o) ==
    /\ server = "up"
    /\ handler[v][o].phase = "open"
    /\ handler[v][o].received = Size(v, o)
    /\ Become(v, o, [handler[v][o] EXCEPT !.phase = "answered"])
    /\ thread' = IF v = current /\ app = "storing"
                 THEN [thread EXCEPT ![o] = "answered"] ELSE thread
    /\ UNCHANGED <<app, current, store, server, report, auditor, remains, lost>>

\* A fault: the handler is deleted without closing its file.
DeleteWithoutFlush(v, o) ==
    /\ server = "up"
    /\ Become(v, o, NoHandler)
    /\ UNCHANGED <<app, current, thread, store, server, report, auditor, remains,
                   lost>>

\* delete this: the destructor of out_file_ writes what is still buffered.
Delete(v, o) ==
    LET h == handler[v][o]
    IN  /\ server = "up"
        /\ \/ /\ ~h.bad
              /\ PutCells(v, o, h.received)
              /\ UNCHANGED lost
           \/ /\ h.bad \/ Pending(h) > 0
              /\ KeepStore
              /\ Lose(v)
        /\ Become(v, o, NoHandler)
        /\ UNCHANGED <<app, current, thread, server, report, remains>>

\* requestComplete(): the answer has been sent.
RequestComplete(v, o) ==
    handler[v][o].phase = "answered" /\ Delete(v, o)

\* onError(): the connection broke, or was idle for too long.
OnError(v, o) ==
    handler[v][o].phase \in {"open", "answered"} /\ Delete(v, o)

\* A request that never arrives.
RequestDropped(v, o) ==
    /\ handler[v][o].phase = "sent"
    /\ Become(v, o, NoHandler)
    /\ UNCHANGED <<app, current, thread, store, server, report, auditor, remains,
                   lost>>

-----------------------------------------------------------------------------
(* The server's process: its handlers are noexcept.                        *)

\* Every handler is gone, with what it had buffered; a request that has not
\* arrived may still meet the server that is started next.
ServerGone ==
    /\ server = "up"
    /\ server' = "down"
    /\ handler' = [v \in Uploads |-> [o \in Objects |->
                      IF handler[v][o].phase = "sent" THEN handler[v][o]
                      ELSE NoHandler]]
    /\ lost' = (lost \/ \E v \in Uploads, o \in Objects :
                           v = current /\ Pending(handler[v][o]) > 0)
    /\ UNCHANGED <<app, current, thread, store, report, remains>>

ServerCrash == ServerGone /\ UNCHANGED auditor

ServerRestart ==
    /\ server = "down"
    /\ server' = "up"
    /\ UNCHANGED <<app, current, thread, handler, store, report, auditor,
                   remains, lost>>

-----------------------------------------------------------------------------
(* The auditor's Verify(): FileTagHandler, then ProofHandler               *)

Audit(next) ==
    /\ auditor' = next
    /\ UNCHANGED <<app, current, thread, handler, store, server, report, remains,
                   lost>>

\* Of an audit that met a change of the store nothing is recorded.
Ended(result) ==
    [NotAuditing EXCEPT !.result = IF auditor.calm THEN result ELSE "none"]
EndAudit(result) == Audit(Ended(result))

\* An exception in a handler ends the server.
KillServer == ServerGone /\ auditor' = Ended("server killed")

BeginAudit ==
    /\ auditor.stage = "idle"
    /\ Audit([NotAuditing EXCEPT !.stage = "asking tag",
                                 !.calm = \E v \in Uploads : StoredTogether(v)])

\* A fault: the FileTag is that of the upload begun last.
AnswerNewestFileTag ==
    /\ server = "up"
    /\ auditor.stage = "asking tag"
    /\ store["file tag"].there /\ current > 0
    /\ Audit([auditor EXCEPT !.stage = "asking proof", !.tag = current])

\* GetFileTag() of a whole FileTag, from which the challenge is built.
AnswerFileTag ==
    /\ server = "up"
    /\ auditor.stage = "asking tag"
    /\ \E v \in Uploads \ EmptyUploads :
           /\ Whole("file tag", v)
           /\ Audit([auditor EXCEPT !.stage = "asking proof", !.tag = v])

\* A whole FileTag without blocks: GenerateIndexes() divides by zero.
AnswerEmptyFileTag ==
    /\ server = "up"
    /\ auditor.stage = "asking tag"
    /\ \E v \in Uploads \cap EmptyUploads : Whole("file tag", v)
    /\ EndAudit("killed")

\* Part of a FileTag, or parts of two: to the auditor an exception or a division
\* by zero, or else a challenge that fits nothing.
AnswerBadFileTag ==
    /\ server = "up"
    /\ auditor.stage = "asking tag"
    /\ store["file tag"].there
    /\ \A v \in Uploads : ~Whole("file tag", v)
    /\ \/ EndAudit("error")
       \/ EndAudit("killed")
       \/ Audit([auditor EXCEPT !.stage = "asking proof", !.tag = 0])

\* FileTagSource::GetFileTag() throws.
NoFileTag ==
    /\ auditor.stage = "asking tag"
    /\ ~store["file tag"].there
    /\ KillServer

\* Fetcher::Setup() opens what it reads, or throws.
SetupProof ==
    /\ server = "up"
    /\ auditor.stage = "asking proof"
    /\ \A o \in Data : store[o].there
    /\ Audit([auditor EXCEPT !.stage = "set up"])

SetupProofThrows ==
    /\ auditor.stage = "asking proof"
    /\ \E o \in Data : ~store[o].there
    /\ KillServer

\* Some of what the FileTag was made for is in object o.
SomeOf(o, v) == \E k \in 1 .. Len(store[o].cells) : store[o].cells[k] = v

\* A block and its tag are read; they may or may not be in what is there.  A
\* challenge has one item at least.
FetchItem ==
    /\ server = "up"
    /\ auditor.stage \in {"set up", "proving"}
    /\ \E found \in BOOLEAN :
           /\ found => auditor.tag # 0 /\ \A o \in Data : SomeOf(o, auditor.tag)
           /\ ~found => \E o \in Data : ~Whole(o, auditor.tag)
           /\ Audit([auditor EXCEPT !.stage = "proving", !.good = @ /\ found])

\* A map that lacks the block, or its max_size, throws or fails an assertion.
FetchItemThrows ==
    /\ auditor.stage \in {"set up", "proving"}
    /\ auditor.tag = 0
    /\ KillServer

Verdict ==
    /\ server = "up"
    /\ auditor.stage = "proving"
    /\ EndAudit(IF auditor.good THEN "intact" ELSE "corrupted")

\* An answer that is not the handler's: its status is not looked at.  In the
\* place of a FileTag it is none of the upload's; in the place of a proof it does
\* not parse, and the empty proof that is left does not verify.
ForeignAnswer ==
    \/ /\ auditor.stage = "asking tag"
       /\ Audit([auditor EXCEPT !.stage = "asking proof", !.tag = 0,
                                !.calm = FALSE])
    \/ /\ auditor.stage \in {"asking proof", "set up", "proving"}
       /\ EndAudit("unproved")

\* The connection breaks, or times out.
AuditFails == auditor.stage # "idle" /\ EndAudit("none")

-----------------------------------------------------------------------------
Application == BeginUpload \/ Return \/ Crash \/ Restart

Handlers ==
    \E v \in Uploads, o \in Objects :
        \/ OnRequest(v, o) \/ OnBody(v, o) \/ OnEOM(v, o)
        \/ RequestComplete(v, o) \/ OnError(v, o) \/ RequestDropped(v, o)

Auditor ==
    \/ BeginAudit \/ AnswerFileTag \/ AnswerEmptyFileTag \/ AnswerBadFileTag
    \/ NoFileTag \/ SetupProof \/ SetupProofThrows \/ FetchItem
    \/ FetchItemThrows \/ Verdict \/ ForeignAnswer \/ AuditFails

Next == Application \/ Handlers \/ ServerCrash \/ ServerRestart \/ Auditor

Spec == Init /\ [][Next]_vars

-----------------------------------------------------------------------------
Handler == [phase : {"none", "sent", "open", "answered"},
            received : 0 .. Chunks, flushed : 0 .. Chunks, bad : BOOLEAN]

\* The variables have their types.
TypeOK ==
    /\ app \in {"idle", "storing", "dead"}
    /\ current \in 0 .. MaxUploads
    /\ thread \in [Objects -> {"none", "waiting", "answered"}]
    /\ handler \in [Uploads -> [Objects -> Handler]]
    /\ store \in [Objects -> [there : BOOLEAN, cells : Seq(0 .. MaxUploads)]]
    /\ \A o \in Objects : Len(store[o].cells) <= Chunks
    /\ server \in {"up", "down"}
    /\ report \in {"none", "success"}
    /\ auditor \in [stage : {"idle", "asking tag", "asking proof", "set up",
                             "proving"},
                    tag : 0 .. MaxUploads, good : BOOLEAN, calm : BOOLEAN,
                    result : {"none", "intact", "corrupted", "unproved",
                              "error", "killed", "server killed"}]
    /\ remains \in BOOLEAN
    /\ lost \in BOOLEAN

\* What "successfully uploaded" is worth: once the requests of the upload are
\* over its three objects are on the server's disk, whole, provided that the
\* requests of earlier uploads were over when it began and that neither a
\* failed open or write nor the end of the server lost any of it.
StoredWhenOver ==
    report = "success" /\ Over(current) /\ ~remains /\ ~lost
        => StoredTogether(current)

\* An upload that began when the earlier ones were over never meets a byte of
\* theirs, nor a hole, in an object it is writing: there is what it has written.
NothingOfEarlierUploads ==
    current > 0 /\ ~remains =>
        \A o \in Objects :
            LET h == handler[current][o]
            IN  h.phase \in {"open", "answered"} /\ ~h.bad =>
                    store[o].cells = [k \in 1 .. h.flushed |-> current]

\* An audit that begins when an upload is stored whole and during which no
\* object changes ends in "intact" or without an answer, and nobody is killed by
\* it, with two exceptions: the stored file has no blocks, which kills the
\* auditor, or something else answers in the place of the proof.
CalmAuditIntact ==
    [][auditor.calm /\ auditor'.stage = "idle" =>
           \/ auditor'.result \in {"none", "intact", "unproved"}
           \/ /\ auditor'.result = "killed"
              /\ \E v \in Uploads \cap EmptyUploads : StoredTogether(v)]_vars

=============================================================================
