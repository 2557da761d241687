------------------------- MODULE RemoteStoreProofs -------------------------
(***************************************************************************)
(* Proofs about RemoteStore, for any number of uploads, any objects and    *)
(* any number of pieces: what an upload meets in the objects it writes,    *)
(* and what its success is worth once its requests are over.               *)
(***************************************************************************)
EXTENDS RemoteStore, TLAPS

\* A handler has written no more than it has received, and answers when it has
\* received everything; uploads that have not begun have none.
HandlersInv ==
    \A v \in Uploads, o \in Objects :
        LET h == handler[v][o]
        IN  /\ h.flushed <= h.received
            /\ h.phase = "answered" => h.received = Size(v, o)
            /\ h.phase \in {"none", "sent"} => h.received = 0 /\ ~h.bad
            /\ v > current => h.phase = "none"

\* The handlers of an upload that began alone are alone, and what they have
\* written is all there is in their objects.
AloneInv ==
    current > 0 /\ ~remains =>
        /\ \A v \in 1 .. current - 1, o \in Objects : handler[v][o].phase = "none"
        /\ \A o \in Objects :
               LET h == handler[current][o]
               IN  h.phase \in {"open", "answered"} /\ ~h.bad =>
                       store[o] = [there |-> TRUE,
                                   cells |-> [k \in 1 .. h.flushed |-> current]]

\* Of an upload that began alone and lost nothing, each answered object is with
\* its handler or on the disk.
AnsweredInv ==
    current > 0 /\ ~remains /\ ~lost /\ (app = "storing" \/ report = "success") =>
        \A o \in Objects :
            /\ ~handler[current][o].bad
            /\ thread[o] = "answered" \/ report = "success" =>
                   \/ handler[current][o].phase = "answered"
                   \/ handler[current][o].phase = "none" /\ Whole(o, current)

ReportInv ==
    /\ app = "storing" => current > 0 /\ report = "none"
    /\ report = "success" => current > 0

IInv == TypeOK /\ HandlersInv /\ AloneInv /\ AnsweredInv /\ ReportInv

-----------------------------------------------------------------------------
(* The objects                                                             *)

Object == [there : BOOLEAN, cells : Seq(0 .. MaxUploads)]

LEMMA SizeType ==
    ASSUME NEW v, NEW o
    PROVE  /\ Size(v, o) \in 0 .. Chunks
           /\ Chunks \in Nat \ {0}
BY ChunksAssumption DEF Size

LEMMA WholeIsThere ==
    ASSUME NEW o, NEW v, Whole(o, v)
    PROVE  store[o].there = TRUE
BY DEF Whole, Size

LEMMA CellsOf ==
    ASSUME NEW n \in Nat, NEW v
    PROVE  /\ Len([k \in 1 .. n |-> v]) = n
           /\ <<>> = [k \in 1 .. 0 |-> v]
OBVIOUS

\* Overwriting keeps an object within its bounds.
LEMMA OverwrittenType ==
    ASSUME NEW cells \in Seq(0 .. MaxUploads), Len(cells) <= Chunks,
           NEW v \in Uploads, NEW from \in 0 .. Chunks, NEW upto \in 0 .. Chunks
    PROVE  /\ Overwritten(cells, v, from, upto) \in Seq(0 .. MaxUploads)
           /\ Len(Overwritten(cells, v, from, upto)) <= Chunks
<1> DEFINE n == IF from < upto /\ upto > Len(cells) THEN upto ELSE Len(cells)
           f == [k \in 1 .. n |-> IF from < k /\ k <= upto THEN v
                                  ELSE IF k <= Len(cells) THEN cells[k] ELSE 0]
<1>1. n \in Nat /\ n <= Chunks
    BY ChunksAssumption
<1>2. \A k \in 1 .. n : f[k] \in 0 .. MaxUploads
    BY <1>1, MaxUploadsAssumption DEF Uploads
<1>3. f \in [1 .. n -> 0 .. MaxUploads]
    BY <1>2
<1>4. f \in Seq(0 .. MaxUploads) /\ Len(f) = n
    BY <1>1, <1>3
<1> QED BY <1>1, <1>4 DEF Overwritten

\* Who has written the first cells and writes the next has written them all.
LEMMA OverwrittenOwn ==
    ASSUME NEW v, NEW from \in Nat, NEW upto \in Nat, from <= upto
    PROVE  Overwritten([k \in 1 .. from |-> v], v, from, upto) =
               [k \in 1 .. upto |-> v]
<1> DEFINE cells == [k \in 1 .. from |-> v]
<1>1. Len(cells) = from
    BY CellsOf
<1>2. (IF from < upto /\ upto > Len(cells) THEN upto ELSE Len(cells)) = upto
    BY <1>1
<1>3. \A k \in 1 .. upto :
          (IF from < k /\ k <= upto THEN v
           ELSE IF k <= Len(cells) THEN cells[k] ELSE 0) = v
    BY <1>1
<1> QED BY <1>2, <1>3 DEF Overwritten

-----------------------------------------------------------------------------
(* Types                                                                   *)

LEMMA HandlerType ==
    ASSUME TypeOK, NEW v \in Uploads, NEW o \in Objects
    PROVE  /\ handler[v][o] \in Handler
           /\ handler[v][o].phase \in {"none", "sent", "open", "answered"}
           /\ handler[v][o].received \in 0 .. Chunks
           /\ handler[v][o].flushed \in 0 .. Chunks
           /\ handler[v][o].bad \in BOOLEAN
<1>1. handler \in [Uploads -> [Objects -> Handler]]
    BY DEF TypeOK
<1>2. handler[v][o] \in Handler
    BY <1>1
<1> QED BY <1>2 DEF Handler

\* A handler is replaced by another.
LEMMA HandlerUpdate ==
    ASSUME TypeOK, NEW v \in Uploads, NEW o \in Objects, NEW h \in Handler,
           Become(v, o, h)
    PROVE  /\ handler' \in [Uploads -> [Objects -> Handler]]
           /\ handler'[v][o] = h
           /\ \A w \in Uploads, p \in Objects :
                  <<w, p>> # <<v, o>> => handler'[w][p] = handler[w][p]
<1>1. handler \in [Uploads -> [Objects -> Handler]]
    BY DEF TypeOK
<1> QED BY <1>1 DEF Become

Auditors ==
    [stage : {"idle", "asking tag", "asking proof", "set up", "proving"},
     tag : 0 .. MaxUploads, good : BOOLEAN, calm : BOOLEAN,
     result : {"none", "intact", "corrupted", "unproved", "error", "killed",
               "server killed"}]

StoreTypeOK ==
    /\ store \in [Objects -> Object]
    /\ \A o \in Objects : Len(store[o].cells) <= Chunks
    /\ auditor \in Auditors

LEMMA PutType ==
    ASSUME TypeOK, NEW o \in Objects, NEW object \in Object,
           Len(object.cells) <= Chunks, Put(o, object)
    PROVE  StoreTypeOK'
<1>1. store \in [Objects -> Object] /\ auditor \in Auditors
    BY DEF TypeOK, Object, Auditors
<1>2. store' \in [Objects -> Object]
    BY <1>1 DEF Put
<1>3. \A p \in Objects : Len(store'[p].cells) <= Chunks
    BY <1>1 DEF Put, TypeOK
<1>4. (auditor.calm /\ store'[o] = store[o]) \in BOOLEAN
    OBVIOUS
<1>5. auditor' \in Auditors
    BY <1>1, <1>4 DEF Put, Auditors
<1> QED BY <1>2, <1>3, <1>5 DEF StoreTypeOK

LEMMA PutCellsType ==
    ASSUME TypeOK, NEW v \in Uploads, NEW o \in Objects, NEW upto \in 0 .. Chunks,
           PutCells(v, o, upto)
    PROVE  StoreTypeOK'
<1> DEFINE cells == Overwritten(store[o].cells, v, handler[v][o].flushed, upto)
<1>1. store[o] \in Object /\ Len(store[o].cells) <= Chunks
    BY DEF TypeOK, Object
<1>2. handler[v][o].flushed \in 0 .. Chunks
    BY HandlerType
<1>3. cells \in Seq(0 .. MaxUploads) /\ Len(cells) <= Chunks
    BY <1>1, <1>2, OverwrittenType DEF Object
<1> DEFINE object == [there |-> store[o].there, cells |-> cells]
<1>4. object \in Object /\ object.cells = cells
    BY <1>1, <1>3 DEF Object
<1>5. Put(o, object)
    BY DEF PutCells
<1> HIDE DEF object, cells
<1> QED BY <1>3, <1>4, <1>5, PutType

LEMMA SameStoreType ==
    ASSUME TypeOK, KeepStore
    PROVE  StoreTypeOK'
BY DEF TypeOK, KeepStore, StoreTypeOK, Object, Auditors

\* A step of one handler of the server, which may answer its storing thread,
\* keeps the types.
LEMMA AnswerStepType ==
    ASSUME TypeOK, StoreTypeOK', lost' \in BOOLEAN,
           thread' \in [Objects -> {"none", "waiting", "answered"}],
           NEW v \in Uploads, NEW o \in Objects, NEW h \in Handler, Become(v, o, h),
           UNCHANGED <<app, current, server, report, remains>>
    PROVE  TypeOK'
<1>1. handler' \in [Uploads -> [Objects -> Handler]]
    BY HandlerUpdate
<1> QED BY <1>1 DEF TypeOK, StoreTypeOK, Object, Auditors

\* The same for a step that answers no thread.
LEMMA HandlerStepType ==
    ASSUME TypeOK, StoreTypeOK', lost' \in BOOLEAN,
           NEW v \in Uploads, NEW o \in Objects, NEW h \in Handler, Become(v, o, h),
           UNCHANGED <<app, current, thread, server, report, remains>>
    PROVE  TypeOK'
<1>1. thread' \in [Objects -> {"none", "waiting", "answered"}]
    BY DEF TypeOK
<1> QED BY <1>1, AnswerStepType

LEMMA LoseType ==
    ASSUME TypeOK, NEW v, Lose(v)
    PROVE  lost' \in BOOLEAN
BY DEF Lose, TypeOK

LEMMA OnRequestType ==
    ASSUME TypeOK, NEW v \in Uploads, NEW o \in Objects, OnRequest(v, o)
    PROVE  TypeOK'
<1>1. <<>> \in Seq(0 .. MaxUploads) /\ Len(<<>>) <= Chunks
    BY ChunksAssumption
<1>2. [there |-> TRUE, cells |-> <<>>] \in Object
    BY <1>1 DEF Object
<1>3. StoreTypeOK'
    BY <1>1, <1>2, PutType, SameStoreType DEF OnRequest
<1>4. \E h \in Handler : Become(v, o, h)
    BY HandlerType DEF OnRequest, Handler
<1>5. lost' \in BOOLEAN
    BY LoseType DEF OnRequest, TypeOK
<1> QED BY <1>3, <1>4, <1>5, HandlerStepType DEF OnRequest

LEMMA OnBodyType ==
    ASSUME TypeOK, HandlersInv, NEW v \in Uploads, NEW o \in Objects,
           OnBody(v, o)
    PROVE  TypeOK'
<1> DEFINE h == handler[v][o]
<1>1. h \in Handler /\ h.received < Chunks
    <2>1. h \in Handler /\ h.received \in 0 .. Chunks /\ h.received < Size(v, o)
        BY HandlerType DEF OnBody
    <2> QED BY <2>1, SizeType
<1>6. h.received \in Nat /\ h.flushed \in Nat /\ h.flushed <= h.received
    BY HandlerType, ChunksAssumption DEF HandlersInv
<1>2. PICK upto \in h.flushed .. h.received + 1 : PutCells(v, o, upto)
    <2>1. h.flushed .. h.received \subseteq h.flushed .. h.received + 1
        BY <1>6
    <2> QED BY <2>1, Zenon DEF OnBody
<1>3. StoreTypeOK'
    BY <1>1, <1>2, <1>6, PutCellsType, ChunksAssumption
<1>4. \E next \in Handler : Become(v, o, next)
    <2>3. h.received + 1 \in 0 .. Chunks
        BY <1>1, <1>6, ChunksAssumption
    <2>4. h.flushed .. h.received + 1 \subseteq 0 .. Chunks
        BY <1>6, <2>3, ChunksAssumption
    <2>1. \A upto_2 \in h.flushed .. h.received + 1 :
              [h EXCEPT !.received = @ + 1, !.flushed = upto_2] \in Handler
        BY <1>1, <2>3, <2>4 DEF Handler
    <2>2. [h EXCEPT !.received = @ + 1, !.bad = TRUE] \in Handler
        BY <1>1, <2>3 DEF Handler
    <2> QED BY <2>1, <2>2, Zenon DEF OnBody
<1>5. lost' \in BOOLEAN
    BY LoseType DEF OnBody, TypeOK
<1> QED BY <1>3, <1>4, <1>5, HandlerStepType DEF OnBody

LEMMA DeleteType ==
    ASSUME TypeOK, NEW v \in Uploads, NEW o \in Objects, Delete(v, o)
    PROVE  TypeOK'
<1>1. handler[v][o].received \in 0 .. Chunks
    BY HandlerType
<1>2. StoreTypeOK'
    BY <1>1, PutCellsType, SameStoreType DEF Delete
<1>3. NoHandler \in Handler /\ Become(v, o, NoHandler)
    BY ChunksAssumption DEF Delete, Handler, NoHandler
<1>4. lost' \in BOOLEAN
    BY LoseType DEF Delete, TypeOK
<1> QED BY <1>2, <1>3, <1>4, HandlerStepType DEF Delete

LEMMA ServerGoneType ==
    ASSUME TypeOK, ServerGone, auditor' \in Auditors
    PROVE  TypeOK'
<1>3. NoHandler \in Handler
    BY ChunksAssumption DEF Handler, NoHandler
<1>1. handler' \in [Uploads -> [Objects -> Handler]]
    BY <1>3, HandlerType DEF ServerGone
<1>2. lost' \in BOOLEAN
    BY DEF ServerGone, TypeOK
<1> QED BY <1>1, <1>2 DEF ServerGone, TypeOK, Auditors

LEMMA AuditType ==
    ASSUME TypeOK, NEW next \in Auditors, Audit(next)
    PROVE  TypeOK'
<1>1. auditor' \in Auditors
    BY DEF Audit
<1> QED BY <1>1 DEF Audit, TypeOK, Auditors

LEMMA NotAuditingType == NotAuditing \in Auditors
<1>1. 0 \in 0 .. MaxUploads
    BY MaxUploadsAssumption
<1> QED BY <1>1 DEF NotAuditing, Auditors

LEMMA EndedType ==
    ASSUME TypeOK,
           NEW result \in {"none", "intact", "corrupted", "unproved", "error",
                           "killed", "server killed"}
    PROVE  Ended(result) \in Auditors
<1>1. NotAuditing \in Auditors
    BY NotAuditingType
<1>2. (IF auditor.calm THEN result ELSE "none") \in
          {"none", "intact", "corrupted", "unproved", "error", "killed",
           "server killed"}
    OBVIOUS
<1> QED BY <1>1, <1>2 DEF Ended, Auditors

LEMMA AuditorStepType ==
    ASSUME TypeOK, Auditor
    PROVE  TypeOK'
<1>1. auditor \in Auditors
    BY DEF TypeOK, Auditors
<1>2. CASE BeginAudit
    <2>1. PICK calm \in BOOLEAN :
              Audit([NotAuditing EXCEPT !.stage = "asking tag", !.calm = calm])
        BY <1>2 DEF BeginAudit
    <2>2. NotAuditing \in Auditors
        BY NotAuditingType
    <2>3. [NotAuditing EXCEPT !.stage = "asking tag", !.calm = calm] \in Auditors
        BY <2>2 DEF Auditors
    <2> QED BY <2>1, <2>3, AuditType
<1>3. CASE AnswerFileTag
    <2>1. PICK v \in Uploads \ EmptyUploads :
              Audit([auditor EXCEPT !.stage = "asking proof", !.tag = v])
        BY <1>3 DEF AnswerFileTag
    <2>3. v \in 0 .. MaxUploads
        BY MaxUploadsAssumption DEF Uploads
    <2>2. [auditor EXCEPT !.stage = "asking proof", !.tag = v] \in Auditors
        BY <1>1, <2>3 DEF Auditors
    <2> QED BY <2>1, <2>2, AuditType
<1>4. CASE AnswerBadFileTag
    <2>1. [auditor EXCEPT !.stage = "asking proof", !.tag = 0] \in Auditors
        <3>1. 0 \in 0 .. MaxUploads
            BY MaxUploadsAssumption
        <3> QED BY <1>1, <3>1 DEF Auditors
    <2> QED BY <1>4, <2>1, AuditType, EndedType DEF AnswerBadFileTag, EndAudit
<1>5. CASE NoFileTag \/ SetupProofThrows \/ FetchItemThrows
    BY <1>5, ServerGoneType, EndedType
        DEF NoFileTag, SetupProofThrows, FetchItemThrows, KillServer
<1>6. CASE SetupProof
    <2>1. [auditor EXCEPT !.stage = "set up"] \in Auditors
        BY <1>1 DEF Auditors
    <2> QED BY <1>6, <2>1, AuditType DEF SetupProof
<1>7. CASE FetchItem
    <2>1. PICK found \in BOOLEAN :
              Audit([auditor EXCEPT !.stage = "proving", !.good = @ /\ found])
        BY <1>7 DEF FetchItem
    <2>2. (auditor.good /\ found) \in BOOLEAN
        OBVIOUS
    <2>3. [auditor EXCEPT !.stage = "proving", !.good = @ /\ found] \in Auditors
        BY <1>1, <2>2 DEF Auditors
    <2> QED BY <2>1, <2>3, AuditType
<1>8. CASE AnswerEmptyFileTag \/ Verdict \/ AuditFails
    BY <1>8, AuditType, EndedType
        DEF AnswerEmptyFileTag, Verdict, AuditFails, EndAudit
<1>9. CASE ForeignAnswer
    <2>1. 0 \in 0 .. MaxUploads
        BY MaxUploadsAssumption
    <2>2. [auditor EXCEPT !.stage = "asking proof", !.tag = 0, !.calm = FALSE]
              \in Auditors
        BY <1>1, <2>1 DEF Auditors
    <2> QED BY <1>9, <2>2, AuditType, EndedType DEF ForeignAnswer, EndAudit
<1> QED BY <1>2, <1>3, <1>4, <1>5, <1>6, <1>7, <1>8, <1>9 DEF Auditor

-----------------------------------------------------------------------------
(* One step of one handler                                                 *)

Rest == HandlersInv /\ AloneInv /\ AnsweredInv /\ ReportInv

\* When an upload is alone, a handler at work is one of its own.
LEMMA OwnHandler ==
    ASSUME IInv, current > 0, ~remains, NEW v \in Uploads, NEW o \in Objects,
           handler[v][o].phase # "none"
    PROVE  v = current
<1>3. current \in 0 .. MaxUploads
    BY DEF IInv, TypeOK
<1>4. ~(v > current)
    BY DEF IInv, HandlersInv
<1>1. v <= current
    BY <1>3, <1>4, MaxUploadsAssumption DEF Uploads
<1>2. ~(v \in 1 .. current - 1)
    BY DEF IInv, AloneInv
<1> QED BY <1>1, <1>2, <1>3, MaxUploadsAssumption DEF Uploads

LEMMA CurrentUpload ==
    ASSUME TypeOK, current > 0
    PROVE  current \in Uploads
<1>1. current \in 0 .. MaxUploads
    BY DEF TypeOK
<1> QED BY <1>1, MaxUploadsAssumption DEF Uploads

\* What a step of the handler of upload v for object o has to show of the new
\* handler h, so that the invariant goes on.
LEMMA HandlerStep ==
    ASSUME IInv, NEW v \in Uploads, NEW o \in Objects, NEW h \in Handler,
           handler[v][o].phase # "none",
           Become(v, o, h),
           UNCHANGED <<app, current, report, remains>>,
           \A p \in Objects : p # o =>
               store'[p] = store[p] /\ thread'[p] = thread[p],
           h.flushed <= h.received,
           h.phase = "answered" => h.received = Size(v, o),
           h.phase \in {"none", "sent"} => h.received = 0 /\ ~h.bad,
           v = current /\ ~remains /\ h.phase \in {"open", "answered"} /\ ~h.bad =>
               store'[o] = [there |-> TRUE,
                            cells |-> [k \in 1 .. h.flushed |-> v]],
           lost => lost',
           v = current /\ ~remains /\ ~lost'
               /\ (app = "storing" \/ report = "success") =>
                   /\ ~h.bad
                   /\ thread'[o] = "answered" \/ report = "success" =>
                          h.phase = "answered" \/ (h.phase = "none" /\ Whole(o, v)')
    PROVE  Rest'
<1> USE DEF IInv
<1>1. /\ handler'[v][o] = h
      /\ \A w \in Uploads, p \in Objects :
             <<w, p>> # <<v, o>> => handler'[w][p] = handler[w][p]
    BY HandlerUpdate
<1>2. HandlersInv'
    <2> SUFFICES ASSUME NEW w \in Uploads, NEW p \in Objects
                 PROVE  LET g == handler'[w][p]
                        IN  /\ g.flushed <= g.received
                            /\ g.phase = "answered" => g.received = Size(w, p)
                            /\ g.phase \in {"none", "sent"} =>
                                   g.received = 0 /\ ~g.bad
                            /\ w > current => g.phase = "none"
        BY DEF HandlersInv
    <2>1. CASE <<w, p>> = <<v, o>>
        <3>1. ~(v > current)
            BY DEF HandlersInv
        <3> QED BY <1>1, <2>1, <3>1
    <2>2. CASE <<w, p>> # <<v, o>>
        BY <1>1, <2>2 DEF HandlersInv
    <2> QED BY <2>1, <2>2
<1>3. AloneInv'
    <2> SUFFICES ASSUME current > 0, ~remains
                 PROVE  /\ \A w \in 1 .. current - 1, p \in Objects :
                               handler'[w][p].phase = "none"
                        /\ \A p \in Objects :
                               LET g == handler'[current][p]
                               IN  g.phase \in {"open", "answered"} /\ ~g.bad =>
                                     store'[p] = [there |-> TRUE, cells |->
                                         [k \in 1 .. g.flushed |-> current]]
        BY DEF AloneInv
    <2>1. v = current /\ current \in Uploads
        BY OwnHandler, CurrentUpload
    <2>2. \A w \in 1 .. current - 1 : w \in Uploads /\ w # v
        BY <2>1, MaxUploadsAssumption DEF Uploads
    <2>3. \A w \in 1 .. current - 1, p \in Objects :
              handler'[w][p].phase = "none"
        BY <1>1, <2>2 DEF AloneInv
    <2>4. ASSUME NEW p \in Objects,
                 handler'[current][p].phase \in {"open", "answered"},
                 ~handler'[current][p].bad
          PROVE  store'[p] = [there |-> TRUE, cells |->
                     [k \in 1 .. handler'[current][p].flushed |-> current]]
        <3>1. CASE p = o
            BY <1>1, <2>1, <2>4, <3>1
        <3>2. CASE p # o
            <4>1. handler'[current][p] = handler[current][p]
                BY <1>1, <2>1, <3>2
            <4> QED BY <2>4, <3>2, <4>1 DEF AloneInv
        <3> QED BY <3>1, <3>2
    <2> QED BY <2>3, <2>4
<1>4. AnsweredInv'
    <2> SUFFICES ASSUME current > 0, ~remains, ~lost',
                        app = "storing" \/ report = "success",
                        NEW p \in Objects
                 PROVE  /\ ~handler'[current][p].bad
                        /\ thread'[p] = "answered" \/ report = "success" =>
                             \/ handler'[current][p].phase = "answered"
                             \/ handler'[current][p].phase = "none"
                                   /\ Whole(p, current)'
        BY DEF AnsweredInv, Whole
    <2>1. v = current /\ current \in Uploads
        BY OwnHandler, CurrentUpload
    <2>2. CASE p = o
        BY <1>1, <2>1, <2>2
    <2>3. CASE p # o
        <3>1. handler'[current][p] = handler[current][p]
            BY <1>1, <2>1, <2>3
        <3>2. Whole(p, current)' <=> Whole(p, current)
            BY <2>3 DEF Whole
        <3> QED BY <2>3, <3>1, <3>2 DEF AnsweredInv
    <2> QED BY <2>2, <2>3
<1>5. ReportInv'
    BY DEF ReportInv
<1> QED BY <1>2, <1>3, <1>4, <1>5 DEF Rest

-----------------------------------------------------------------------------
(* The steps of a handler                                                  *)

LEMMA PutOne ==
    ASSUME TypeOK, NEW o \in Objects, NEW object, Put(o, object)
    PROVE  /\ store'[o] = object
           /\ \A p \in Objects : p # o => store'[p] = store[p]
<1>1. store \in [Objects -> [there : BOOLEAN, cells : Seq(0 .. MaxUploads)]]
    BY DEF TypeOK
<1> QED BY <1>1 DEF Put

\* The handler of an upload that is alone appends to what it has written.
LEMMA PutOwnCells ==
    ASSUME IInv, ~remains, NEW o \in Objects, current \in Uploads,
           handler[current][o].phase \in {"open", "answered"},
           ~handler[current][o].bad,
           NEW upto \in Nat, handler[current][o].flushed <= upto,
           PutCells(current, o, upto)
    PROVE  store'[o] = [there |-> TRUE, cells |-> [k \in 1 .. upto |-> current]]
<1> DEFINE h == handler[current][o]
<1>1. h.flushed \in Nat
    BY HandlerType DEF IInv
<1>2. store[o] = [there |-> TRUE, cells |-> [k \in 1 .. h.flushed |-> current]]
    <2>1. current > 0
        BY DEF Uploads
    <2> QED BY <2>1 DEF IInv, AloneInv
<1>3. Overwritten(store[o].cells, current, h.flushed, upto) =
          [k \in 1 .. upto |-> current]
    BY <1>1, <1>2, OverwrittenOwn
<1>4. store'[o] = [there |-> store[o].there,
                   cells |-> [k \in 1 .. upto |-> current]]
    BY <1>3, PutOne DEF PutCells, IInv
<1>5. store[o].there = TRUE
    BY <1>2
<1> QED BY <1>4, <1>5

\* While nothing is lost the answer of a storing thread comes after everything
\* its handler has received.
LEMMA NotYetAnswered ==
    ASSUME IInv, ~remains, ~lost, current \in Uploads, NEW o \in Objects,
           app = "storing" \/ report = "success",
           handler[current][o].phase \in {"sent", "open"}
    PROVE  thread[o] # "answered" /\ report # "success"
<1>1. current > 0
    BY DEF Uploads
<1> QED BY <1>1 DEF IInv, AnsweredInv

LEMMA OnRequestInv ==
    ASSUME IInv, NEW v \in Uploads, NEW o \in Objects, OnRequest(v, o)
    PROVE  Rest'
<1> DEFINE h == handler[v][o]
<1>1. h \in Handler /\ h.phase = "sent" /\ h.received = 0 /\ h.flushed = 0 /\ ~h.bad
    <2>1. h \in Handler /\ h.flushed \in 0 .. Chunks
        BY HandlerType DEF IInv
    <2>2. h.phase = "sent" /\ h.received = 0 /\ ~h.bad /\ h.flushed <= h.received
        BY DEF IInv, HandlersInv, OnRequest
    <2> QED BY <2>1, <2>2, ChunksAssumption
<1>2. CASE /\ Put(o, [there |-> TRUE, cells |-> <<>>])
           /\ Become(v, o, [h EXCEPT !.phase = "open"])
           /\ UNCHANGED lost
    <2> DEFINE g == [h EXCEPT !.phase = "open"]
    <2>1. g \in Handler /\ g.phase = "open" /\ g.received = 0 /\ g.flushed = 0 /\ ~g.bad
          /\ g.flushed <= g.received
        BY <1>1 DEF Handler
    <2>2. Become(v, o, g)
        BY <1>2
    <2>3. /\ store'[o] = [there |-> TRUE, cells |-> [k \in 1 .. 0 |-> v]]
          /\ \A p \in Objects : p # o => store'[p] = store[p]
        BY <1>2, CellsOf, PutOne DEF IInv
    <2>4. lost' = lost /\ thread' = thread
        BY <1>2 DEF OnRequest
    <2>5. v = current /\ ~remains /\ ~lost'
              /\ (app = "storing" \/ report = "success") =>
                  thread'[o] # "answered" /\ report # "success"
        BY <1>1, <2>4, NotYetAnswered
    <2> HIDE DEF g
    <2>6. UNCHANGED <<app, current, report, remains>>
        BY DEF OnRequest
    <2> QED BY <1>1, <2>1, <2>2, <2>3, <2>4, <2>5, <2>6, HandlerStep
<1>3. CASE /\ KeepStore
           /\ Become(v, o, [h EXCEPT !.phase = "open", !.bad = TRUE])
           /\ Lose(v)
    <2> DEFINE g == [h EXCEPT !.phase = "open", !.bad = TRUE]
    <2>5. g \in Handler
        BY <1>1 DEF Handler
    <2>1. /\ g.phase = "open" /\ g.received = 0 /\ g.flushed = 0 /\ g.bad
          /\ g.flushed <= g.received
        BY <1>1 DEF Handler
    <2>2. Become(v, o, g)
        BY <1>3
    <2>3. (lost => lost') /\ (v = current => lost') /\ thread' = thread
          /\ store' = store
        BY <1>3 DEF Lose, KeepStore, OnRequest
    <2> HIDE DEF g
    <2>6. UNCHANGED <<app, current, report, remains>>
        BY DEF OnRequest
    <2> QED BY <1>1, <2>1, <2>2, <2>3, <2>5, <2>6, HandlerStep
<1> QED BY <1>2, <1>3, Zenon DEF OnRequest

LEMMA OnBodyInv ==
    ASSUME IInv, NEW v \in Uploads, NEW o \in Objects, OnBody(v, o)
    PROVE  Rest'
<1> DEFINE h == handler[v][o]
<1>1. /\ h \in Handler /\ h.phase = "open" /\ h.received < Chunks
      /\ h.received \in Nat /\ h.flushed \in Nat /\ h.flushed <= h.received
    <2>1. h \in Handler /\ h.phase = "open" /\ h.received < Chunks
        <3>1. /\ h \in Handler /\ h.phase = "open"
              /\ h.received \in 0 .. Chunks /\ h.received < Size(v, o)
            BY HandlerType DEF IInv, OnBody
        <3> QED BY <3>1, SizeType
    <2>2. h.received \in Nat /\ h.flushed \in Nat /\ h.flushed <= h.received
        BY HandlerType, ChunksAssumption DEF IInv, HandlersInv
    <2> QED BY <2>1, <2>2
<1>4. h.received + 1 \in 0 .. Chunks
    BY <1>1, ChunksAssumption
<1>2. ASSUME ~h.bad, NEW upto \in h.flushed .. h.received + 1,
             PutCells(v, o, upto),
             Become(v, o, [h EXCEPT !.received = @ + 1, !.flushed = upto]),
             UNCHANGED lost
      PROVE  Rest'
    <2> DEFINE g == [h EXCEPT !.received = @ + 1, !.flushed = upto]
    <2>6. upto \in 0 .. Chunks /\ upto \in Nat /\ h.flushed <= upto
        BY <1>1, <1>4, ChunksAssumption
    <2>7. g \in Handler
        BY <1>1, <1>4, <2>6 DEF Handler
    <2>8. /\ g.phase = "open" /\ g.received = h.received + 1
          /\ g.flushed = upto /\ ~g.bad
        BY <1>1, <1>2 DEF Handler
    <2>1. g.flushed <= g.received
        BY <1>1, <2>6, <2>8
    <2>2. Become(v, o, g)
        BY <1>2
    <2>3. /\ v = current /\ ~remains =>
                 store'[o] = [there |-> TRUE, cells |-> [k \in 1 .. upto |-> v]]
          /\ \A p \in Objects : p # o => store'[p] = store[p]
        BY <1>1, <1>2, <2>6, PutOwnCells, PutOne DEF IInv, PutCells
    <2>4. lost' = lost /\ thread' = thread
        BY <1>2 DEF OnBody
    <2>5. v = current /\ ~remains /\ ~lost'
              /\ (app = "storing" \/ report = "success") =>
                  thread'[o] # "answered" /\ report # "success"
        BY <1>1, <2>4, NotYetAnswered
    <2> HIDE DEF g
    <2>9. UNCHANGED <<app, current, report, remains>>
        BY DEF OnBody
    <2> QED BY <1>1, <2>1, <2>2, <2>3, <2>4, <2>5, <2>7, <2>8, <2>9, HandlerStep
<1>3. ASSUME NEW upto \in h.flushed .. h.received,
             PutCells(v, o, upto),
             Become(v, o, [h EXCEPT !.received = @ + 1, !.bad = TRUE]),
             Lose(v)
      PROVE  Rest'
    <2> DEFINE g == [h EXCEPT !.received = @ + 1, !.bad = TRUE]
    <2>7. g \in Handler
        BY <1>1, <1>4 DEF Handler
    <2>8. /\ g.phase = "open" /\ g.received = h.received + 1
          /\ g.flushed = h.flushed /\ g.bad
        BY <1>1 DEF Handler
    <2>1. g.flushed <= g.received
        BY <1>1, <2>8
    <2>2. Become(v, o, g)
        BY <1>3
    <2>3. /\ (lost => lost') /\ (v = current => lost') /\ thread' = thread
          /\ \A p \in Objects : p # o => store'[p] = store[p]
        BY <1>3, PutOne DEF Lose, PutCells, OnBody, IInv
    <2> HIDE DEF g
    <2>9. UNCHANGED <<app, current, report, remains>>
        BY DEF OnBody
    <2> QED BY <1>1, <2>1, <2>2, <2>3, <2>7, <2>8, <2>9, HandlerStep
<1> QED BY <1>2, <1>3, Zenon DEF OnBody

LEMMA OnEOMInv ==
    ASSUME IInv, NEW v \in Uploads, NEW o \in Objects, OnEOM(v, o)
    PROVE  TypeOK' /\ Rest'
<1> DEFINE h == handler[v][o]
           g == [h EXCEPT !.phase = "answered"]
<1>1. h \in Handler /\ h.phase = "open" /\ h.received = Size(v, o)
      /\ h.flushed <= h.received
    BY HandlerType DEF IInv, HandlersInv, OnEOM
<1>2. /\ g \in Handler /\ g.phase = "answered" /\ g.received = Size(v, o)
      /\ g.flushed = h.flushed /\ g.bad = h.bad
    BY <1>1 DEF Handler
<1>3. Become(v, o, g)
    BY DEF OnEOM
<1>4. /\ thread' \in [Objects -> {"none", "waiting", "answered"}]
      /\ \A p \in Objects : p # o => thread'[p] = thread[p]
    <2>1. thread \in [Objects -> {"none", "waiting", "answered"}]
        BY DEF IInv, TypeOK
    <2> QED BY <2>1 DEF OnEOM
<1>5. handler' \in [Uploads -> [Objects -> Handler]]
    BY <1>2, <1>3, HandlerUpdate DEF IInv
<1>6. TypeOK'
    <2>1. TypeOK
        BY DEF IInv
    <2>2. /\ lost' \in BOOLEAN /\ KeepStore
          /\ UNCHANGED <<app, current, server, report, remains>>
        BY <2>1 DEF OnEOM, TypeOK, KeepStore
    <2>3. StoreTypeOK'
        BY <2>1, <2>2, SameStoreType
    <2> QED BY <1>2, <1>3, <1>4, <2>1, <2>2, <2>3, AnswerStepType
<1>7. v = current => current > 0
    BY DEF Uploads
<1>8. v = current /\ ~remains /\ ~h.bad =>
          store[o] = [there |-> TRUE, cells |-> [k \in 1 .. h.flushed |-> v]]
    BY <1>1, <1>7 DEF IInv, AloneInv
<1>9. v = current /\ ~remains /\ ~lost
          /\ (app = "storing" \/ report = "success") => ~h.bad
    BY <1>7 DEF IInv, AnsweredInv
<1>10. UNCHANGED <<app, current, store, report, remains, lost>>
    BY DEF OnEOM
<1> HIDE DEF g
<1> QED BY <1>1, <1>2, <1>3, <1>4, <1>6, <1>8, <1>9, <1>10, HandlerStep

LEMMA NoHandlerFacts ==
    /\ NoHandler \in Handler /\ NoHandler.phase = "none" /\ ~NoHandler.bad
    /\ NoHandler.received = 0 /\ NoHandler.flushed <= NoHandler.received
BY ChunksAssumption DEF Handler, NoHandler

LEMMA DeleteInv ==
    ASSUME IInv, NEW v \in Uploads, NEW o \in Objects,
           handler[v][o].phase \in {"open", "answered"}, Delete(v, o)
    PROVE  Rest'
<1> DEFINE h == handler[v][o]
<1> DEFINE none == NoHandler
<1>1. /\ none \in Handler /\ none.phase = "none" /\ ~none.bad
      /\ none.received = 0 /\ none.flushed <= none.received
    BY NoHandlerFacts
<1>2. /\ h.received \in Nat /\ h.flushed \in Nat /\ h.flushed <= h.received
      /\ h.phase = "answered" => h.received = Size(v, o)
    BY HandlerType DEF IInv, HandlersInv
<1>3. /\ Become(v, o, none)
      /\ UNCHANGED <<app, current, thread, report, remains>>
    BY DEF Delete
<1>4. CASE ~h.bad /\ PutCells(v, o, h.received) /\ UNCHANGED lost
    <2>1. \A p \in Objects : p # o => store'[p] = store[p]
        BY <1>4, PutOne DEF PutCells, IInv
    <2>2. v = current /\ ~remains /\ ~lost'
              /\ (app = "storing" \/ report = "success")
              /\ (thread'[o] = "answered" \/ report = "success") => Whole(o, v)'
        <3> SUFFICES ASSUME v = current, ~remains, ~lost,
                            app = "storing" \/ report = "success",
                            thread[o] = "answered" \/ report = "success"
                     PROVE  Whole(o, v)'
            BY <1>3, <1>4
        <3>1. h.received = Size(v, o)
            BY <1>2, NotYetAnswered
        <3>2. store'[o] = [there |-> TRUE,
                           cells |-> [k \in 1 .. Size(v, o) |-> v]]
            BY <1>2, <1>4, <3>1, PutOwnCells
        <3> QED BY <3>2 DEF Whole
    <2> HIDE DEF none
    <2> QED BY <1>1, <1>3, <1>4, <2>1, <2>2, HandlerStep
<1>5. CASE KeepStore /\ Lose(v)
    <2>1. (lost => lost') /\ (v = current => lost') /\ store' = store
        BY <1>5 DEF Lose, KeepStore
    <2> HIDE DEF none
    <2> QED BY <1>1, <1>3, <2>1, HandlerStep
<1> QED BY <1>4, <1>5 DEF Delete

LEMMA RequestDroppedInv ==
    ASSUME IInv, NEW v \in Uploads, NEW o \in Objects, RequestDropped(v, o)
    PROVE  TypeOK' /\ Rest'
<1> DEFINE none == NoHandler
<1>1. /\ none \in Handler /\ none.phase = "none" /\ ~none.bad
      /\ none.received = 0 /\ none.flushed <= none.received
    BY NoHandlerFacts
<1>2. /\ Become(v, o, none) /\ handler[v][o].phase = "sent"
      /\ UNCHANGED <<app, current, thread, store, report, remains, lost>>
    BY DEF RequestDropped
<1>3. KeepStore /\ server' = server /\ lost' \in BOOLEAN
    BY DEF RequestDropped, KeepStore, IInv, TypeOK
<1>4. TypeOK'
    BY <1>1, <1>2, <1>3, SameStoreType, HandlerStepType DEF IInv
<1>5. v = current /\ ~remains /\ ~lost
          /\ (app = "storing" \/ report = "success") =>
              thread[o] # "answered" /\ report # "success"
    BY <1>2, NotYetAnswered
<1> HIDE DEF none
<1> QED BY <1>1, <1>2, <1>4, <1>5, HandlerStep

LEMMA HandlersStep ==
    ASSUME IInv, Handlers
    PROVE  IInv'
<1>1. PICK v \in Uploads, o \in Objects :
          \/ OnRequest(v, o) \/ OnBody(v, o) \/ OnEOM(v, o)
          \/ RequestComplete(v, o) \/ OnError(v, o) \/ RequestDropped(v, o)
    BY DEF Handlers
<1>2. TypeOK /\ HandlersInv
    BY DEF IInv
<1>3. TypeOK' /\ Rest'
    <2>1. CASE OnRequest(v, o)
        BY <1>2, <2>1, OnRequestType, OnRequestInv
    <2>2. CASE OnBody(v, o)
        BY <1>2, <2>2, OnBodyType, OnBodyInv
    <2>3. CASE OnEOM(v, o)
        BY <2>3, OnEOMInv
    <2>4. CASE RequestComplete(v, o) \/ OnError(v, o)
        BY <1>2, <2>4, DeleteType, DeleteInv DEF RequestComplete, OnError
    <2>5. CASE RequestDropped(v, o)
        BY <2>5, RequestDroppedInv
    <2> QED BY <1>1, <2>1, <2>2, <2>3, <2>4, <2>5
<1> QED BY <1>3 DEF Rest, IInv

-----------------------------------------------------------------------------
(* The other steps                                                         *)

\* A step that changes nothing the invariant is about.
LEMMA SameRest ==
    ASSUME IInv, UNCHANGED <<app, current, thread, handler, store, report, remains,
                             lost>>
    PROVE  Rest'
<1>1. \A o \in Objects : \A v : Whole(o, v)' <=> Whole(o, v)
    BY DEF Whole
<1>2. HandlersInv' /\ AloneInv' /\ ReportInv'
    BY DEF IInv, HandlersInv, AloneInv, ReportInv
<1>3. AnsweredInv'
    BY <1>1 DEF IInv, AnsweredInv
<1> QED BY <1>2, <1>3 DEF Rest

LEMMA BeginUploadInv ==
    ASSUME IInv, BeginUpload
    PROVE  IInv'
<1> DEFINE begun == [NoHandler EXCEPT !.phase = "sent"]
           all == [o \in Objects |-> begun]
<1>1. /\ current \in Nat /\ current' = current + 1 /\ current' \in Uploads
      /\ current' \in 0 .. MaxUploads
    <2>1. current \in 0 .. MaxUploads
        BY DEF IInv, TypeOK
    <2> QED BY <2>1, MaxUploadsAssumption DEF BeginUpload, Uploads
<1>2. begun \in Handler
    BY NoHandlerFacts DEF Handler
<1>3. /\ begun.phase = "sent" /\ ~begun.bad
      /\ begun.received = 0 /\ begun.flushed <= begun.received
    BY NoHandlerFacts DEF Handler
<1>4. handler \in [Uploads -> [Objects -> Handler]]
    BY DEF IInv, TypeOK
<1>5. handler' = [handler EXCEPT ![current'] = all]
    BY DEF BeginUpload
<1>6. /\ handler' \in [Uploads -> [Objects -> Handler]]
      /\ \A o \in Objects : handler'[current'][o] = begun
      /\ \A v \in Uploads : v # current' => handler'[v] = handler[v]
    <2> HIDE DEF begun
    <2>1. all \in [Objects -> Handler] /\ \A o \in Objects : all[o] = begun
        BY <1>2
    <2> HIDE DEF all
    <2> QED BY <1>1, <1>4, <1>5, <2>1
<1>7. /\ app' = "storing" /\ report' = "none"
      /\ thread' = [o \in Objects |-> "waiting"]
      /\ remains' = (\E v \in 1 .. current : ~Over(v)) /\ lost' = FALSE
      /\ UNCHANGED <<store, server, auditor>>
    BY DEF BeginUpload
<1> HIDE DEF begun, all
<1>8. TypeOK'
    <2>1. remains' \in BOOLEAN
        BY <1>7
    <2>2. thread' \in [Objects -> {"none", "waiting", "answered"}]
        BY <1>7
    <2> QED BY <1>1, <1>6, <1>7, <2>1, <2>2 DEF IInv, TypeOK
<1>9. HandlersInv'
    <2> SUFFICES ASSUME NEW v \in Uploads, NEW o \in Objects
                 PROVE  LET h == handler'[v][o]
                        IN  /\ h.flushed <= h.received
                            /\ h.phase = "answered" => h.received = Size(v, o)
                            /\ h.phase \in {"none", "sent"} =>
                                   h.received = 0 /\ ~h.bad
                            /\ v > current' => h.phase = "none"
        BY DEF HandlersInv
    <2>1. CASE v = current'
        BY <1>1, <1>3, <1>6, <2>1
    <2>2. CASE v # current'
        <3>1. v > current' => v > current
            BY <1>1, MaxUploadsAssumption DEF Uploads
        <3> QED BY <1>6, <2>2, <3>1 DEF IInv, HandlersInv
    <2> QED BY <2>1, <2>2
<1>10. AloneInv'
    <2> SUFFICES ASSUME ~remains'
                 PROVE  /\ \A v \in 1 .. current' - 1, o \in Objects :
                               handler'[v][o].phase = "none"
                        /\ \A o \in Objects : handler'[current'][o].phase = "sent"
        BY DEF AloneInv
    <2>1. \A v \in 1 .. current' - 1 :
              v \in Uploads /\ v \in 1 .. current /\ v # current'
        BY <1>1, MaxUploadsAssumption DEF Uploads
    <2>2. \A v \in 1 .. current, o \in Objects : handler[v][o].phase = "none"
        BY <1>7 DEF Over, Live
    <2> QED BY <1>3, <1>6, <2>1, <2>2
<1>11. AnsweredInv' /\ ReportInv'
    <2>1. \A o \in Objects : ~handler'[current'][o].bad /\ thread'[o] = "waiting"
        BY <1>3, <1>6, <1>7
    <2>2. current' > 0
        BY <1>1
    <2> QED BY <1>7, <2>1, <2>2 DEF AnsweredInv, ReportInv
<1> QED BY <1>8, <1>9, <1>10, <1>11 DEF IInv

LEMMA ApplicationStep ==
    ASSUME IInv, Application
    PROVE  IInv'
<1> USE DEF IInv
<1>1. CASE BeginUpload
    BY <1>1, BeginUploadInv
<1>2. CASE Return \/ Crash \/ Restart
    <2>1. /\ UNCHANGED <<current, handler, store, server, auditor, remains>>
          /\ \/ app' = "idle" /\ report' \in {"none", "success"}
             \/ app' = "dead" /\ report' = report
          /\ lost' \in BOOLEAN
          /\ thread' = thread \/ thread' = [o \in Objects |-> "none"]
        BY <1>2 DEF Return, Crash, Restart, TypeOK
    <2>2. thread' \in [Objects -> {"none", "waiting", "answered"}]
        <3>1. thread \in [Objects -> {"none", "waiting", "answered"}]
            BY DEF TypeOK
        <3>2. CASE thread' = thread
            BY <3>1, <3>2
        <3>3. CASE thread' = [o \in Objects |-> "none"]
            BY <3>3
        <3> QED BY <2>1, <3>2, <3>3
    <2>7. StoreTypeOK'
        BY <2>1, SameStoreType DEF KeepStore
    <2>3. TypeOK'
        BY <2>1, <2>2, <2>7 DEF TypeOK, StoreTypeOK, Object, Auditors
    <2>4. HandlersInv' /\ AloneInv'
        BY <2>1 DEF HandlersInv, AloneInv
    <2>5. ReportInv'
        BY <1>2, <2>1 DEF ReportInv, Return, Crash, Restart
    <2>6. AnsweredInv'
        <3> SUFFICES ASSUME current > 0, ~remains, ~lost',
                            app' = "storing" \/ report' = "success",
                            NEW o \in Objects
                     PROVE  /\ ~handler[current][o].bad
                            /\ \/ handler[current][o].phase = "answered"
                               \/ handler[current][o].phase = "none"
                                     /\ Whole(o, current)
            BY <2>1 DEF AnsweredInv, Whole
        <3>1. report' = "success" /\ ~Restart
            BY <2>1 DEF Restart
        <3>2. ~lost /\ \/ app = "storing" /\ thread[o] = "answered"
                       \/ report = "success"
            <4>1. CASE Return
                BY <4>1 DEF Return
            <4>2. CASE Crash
                BY <3>1, <4>2 DEF Crash
            <4> QED BY <1>2, <3>1, <4>1, <4>2
        <3> QED BY <3>2 DEF AnsweredInv
    <2> QED BY <2>3, <2>4, <2>5, <2>6
<1> QED BY <1>1, <1>2 DEF Application

\* The end of the server loses what is not yet written, and says so in lost.
LEMMA ServerGoneRest ==
    ASSUME IInv, ServerGone
    PROVE  Rest'
<1>1. \A v \in Uploads, o \in Objects :
          handler'[v][o] = IF handler[v][o].phase = "sent" THEN handler[v][o]
                           ELSE NoHandler
    BY DEF ServerGone
<1>2. /\ UNCHANGED <<app, current, thread, store, report, remains>>
      /\ lost => lost'
      /\ \A o \in Objects : current \in Uploads /\ Pending(handler[current][o]) > 0
                               => lost'
    BY DEF ServerGone
<1>3. HandlersInv'
    BY <1>1, <1>2, NoHandlerFacts DEF IInv, HandlersInv
<1>4. AloneInv'
    <2> SUFFICES ASSUME current > 0, ~remains
                 PROVE  /\ \A v \in 1 .. current - 1, o \in Objects :
                               handler'[v][o].phase = "none"
                        /\ \A o \in Objects :
                               ~(handler'[current][o].phase \in {"open", "answered"})
        BY <1>2 DEF AloneInv
    <2>1. current \in Uploads /\ 1 .. current - 1 \subseteq Uploads
        <3>1. current \in 0 .. MaxUploads
            BY DEF IInv, TypeOK
        <3> QED BY <3>1, MaxUploadsAssumption DEF Uploads
    <2>2. \A v \in 1 .. current - 1, o \in Objects : handler[v][o].phase = "none"
        BY DEF IInv, AloneInv
    <2>3. \A v \in 1 .. current - 1, o \in Objects :
              handler'[v][o].phase = "none"
        BY <1>1, <2>1, <2>2, NoHandlerFacts
    <2>4. \A o \in Objects : ~(handler'[current][o].phase \in {"open", "answered"})
        BY <1>1, <2>1, NoHandlerFacts
    <2> QED BY <2>3, <2>4
<1>5. AnsweredInv'
    <2> SUFFICES ASSUME current > 0, ~remains, ~lost',
                        app = "storing" \/ report = "success",
                        NEW o \in Objects
                 PROVE  /\ ~handler'[current][o].bad
                        /\ thread[o] = "answered" \/ report = "success" =>
                               handler'[current][o].phase = "none" /\ Whole(o, current)
        BY <1>2 DEF AnsweredInv, Whole
    <2> DEFINE h == handler[current][o]
    <2>1. current \in Uploads /\ ~lost
        BY <1>2, CurrentUpload DEF IInv
    <2>2. /\ ~h.bad
          /\ thread[o] = "answered" \/ report = "success" =>
                 h.phase = "answered" \/ (h.phase = "none" /\ Whole(o, current))
        BY <2>1 DEF IInv, AnsweredInv
    <2>3. h.phase = "answered" => Whole(o, current)
        <3> SUFFICES ASSUME h.phase = "answered" PROVE Whole(o, current)
            OBVIOUS
        <3>1. h.received = Size(current, o) /\ h.flushed <= h.received
              /\ h.received \in Nat /\ h.flushed \in Nat
            BY <2>1, HandlerType, ChunksAssumption DEF IInv, HandlersInv
        <3>2. ~(h.received - h.flushed > 0)
            BY <1>2, <2>1 DEF Pending
        <3>3. h.flushed = Size(current, o)
            BY <3>1, <3>2
        <3>4. store[o] = [there |-> TRUE,
                          cells |-> [k \in 1 .. h.flushed |-> current]]
            BY <2>2 DEF IInv, AloneInv
        <3> QED BY <3>3, <3>4 DEF Whole
    <2> QED BY <1>1, <2>1, <2>2, <2>3, NoHandlerFacts
<1>6. ReportInv'
    BY <1>2 DEF IInv, ReportInv
<1> QED BY <1>3, <1>4, <1>5, <1>6 DEF Rest

LEMMA ServerStep ==
    ASSUME IInv, ServerCrash \/ ServerRestart
    PROVE  IInv'
<1>1. CASE ServerCrash
    <2>1. auditor' \in Auditors
        BY <1>1 DEF ServerCrash, IInv, TypeOK, Auditors
    <2> QED BY <1>1, <2>1, ServerGoneType, ServerGoneRest
            DEF ServerCrash, Rest, IInv
<1>2. CASE ServerRestart
    <2>1. TypeOK'
        <3>1. StoreTypeOK'
            BY <1>2, SameStoreType DEF ServerRestart, KeepStore, IInv
        <3> QED BY <1>2, <3>1
                DEF ServerRestart, IInv, TypeOK, StoreTypeOK, Object, Auditors
    <2>2. Rest'
        BY <1>2, SameRest DEF ServerRestart
    <2> QED BY <2>1, <2>2 DEF Rest, IInv
<1> QED BY <1>1, <1>2

LEMMA AuditorStep ==
    ASSUME IInv, Auditor
    PROVE  IInv'
<1>1. TypeOK'
    BY AuditorStepType DEF IInv
<1>2. ServerGone \/ UNCHANGED <<app, current, thread, handler, store, report, remains,
                                lost>>
    BY DEF Auditor, BeginAudit, AnswerFileTag, AnswerEmptyFileTag,
        AnswerBadFileTag, NoFileTag, SetupProof, SetupProofThrows, FetchItem,
        FetchItemThrows, Verdict, ForeignAnswer, AuditFails, EndAudit,
        KillServer, Audit
<1>3. Rest'
    BY <1>2, ServerGoneRest, SameRest
<1> QED BY <1>1, <1>3 DEF Rest, IInv

-----------------------------------------------------------------------------
(* The theorems                                                            *)

LEMMA InitIInv == Init => IInv
<1> SUFFICES ASSUME Init PROVE IInv
    OBVIOUS
<1>1. TypeOK
    <2>1. NoHandler \in Handler /\ NotAuditing \in Auditors
        BY NoHandlerFacts, NotAuditingType
    <2>2. <<>> \in Seq(0 .. MaxUploads) /\ Len(<<>>) <= Chunks
        BY ChunksAssumption
    <2>3. NoObject \in Object /\ Len(NoObject.cells) <= Chunks
        BY <2>2 DEF NoObject, Object
    <2>4. 0 \in 0 .. MaxUploads
        BY MaxUploadsAssumption
    <2>5. /\ handler \in [Uploads -> [Objects -> Handler]]
          /\ thread \in [Objects -> {"none", "waiting", "answered"}]
        BY <2>1 DEF Init
    <2>6. /\ store \in [Objects -> Object]
          /\ \A o \in Objects : Len(store[o].cells) <= Chunks
        BY <2>3 DEF Init
    <2> QED BY <2>1, <2>4, <2>5, <2>6 DEF Init, TypeOK, Object, Auditors
<1>2. HandlersInv
    BY NoHandlerFacts DEF Init, HandlersInv
<1>3. AloneInv /\ AnsweredInv /\ ReportInv
    BY DEF Init, AloneInv, AnsweredInv, ReportInv
<1> QED BY <1>1, <1>2, <1>3 DEF IInv

LEMMA NextIInv == IInv /\ [Next]_vars => IInv'
<1> SUFFICES ASSUME IInv, [Next]_vars PROVE IInv'
    OBVIOUS
<1>1. CASE Next
    BY <1>1, ApplicationStep, HandlersStep, ServerStep, AuditorStep DEF Next
<1>2. CASE UNCHANGED vars
    <2>1. TypeOK'
        <3>1. StoreTypeOK'
            BY <1>2, SameStoreType DEF vars, KeepStore, IInv
        <3> QED BY <1>2, <3>1 DEF vars, IInv, TypeOK, StoreTypeOK, Object, Auditors
    <2>2. Rest'
        BY <1>2, SameRest DEF vars
    <2> QED BY <2>1, <2>2 DEF Rest, IInv
<1> QED BY <1>1, <1>2

\* The invariant is inductive.
THEOREM Inductive == Spec => []IInv
BY InitIInv, NextIInv, PTL DEF Spec

\* The variables have their types, for any number of uploads and pieces.
THEOREM TypeCorrect == Spec => []TypeOK
<1>1. IInv => TypeOK
    BY DEF IInv
<1> QED BY <1>1, Inductive, PTL

\* An upload that began alone finds in its objects what it has written, and
\* nothing else.
THEOREM NothingIsMixed == Spec => []NothingOfEarlierUploads
<1>1. IInv => NothingOfEarlierUploads
    <2> SUFFICES ASSUME IInv, current > 0, ~remains, NEW o \in Objects,
                        handler[current][o].phase \in {"open", "answered"},
                        ~handler[current][o].bad
                 PROVE  store[o].cells =
                            [k \in 1 .. handler[current][o].flushed |-> current]
        BY DEF NothingOfEarlierUploads
    <2>1. store[o] = [there |-> TRUE, cells |->
              [k \in 1 .. handler[current][o].flushed |-> current]]
        BY DEF IInv, AloneInv
    <2> QED BY <2>1
<1> QED BY <1>1, Inductive, PTL

\* An upload that began alone, lost nothing and was reported as successful is
\* on the server's disk, whole, when its requests are over.
THEOREM StoredInTheEnd == Spec => []StoredWhenOver
<1>1. IInv => StoredWhenOver
    <2> SUFFICES ASSUME IInv, report = "success", Over(current), ~remains, ~lost,
                        NEW o \in Objects
                 PROVE  Whole(o, current)
        BY DEF StoredWhenOver, StoredTogether
    <2>1. current > 0
        BY DEF IInv, ReportInv
    <2>2. handler[current][o].phase = "none"
        BY DEF Over, Live
    <2> QED BY <2>1, <2>2 DEF IInv, AnsweredInv
<1> QED BY <1>1, Inductive, PTL

-----------------------------------------------------------------------------
(* The auditor: a second invariant.  While no object changes, the audit is *)
(* about one upload, which is stored whole: it is the one whose FileTag    *)
(* was answered, and every item of its challenge is found.                 *)

Auditing == auditor.stage # "idle"
TagAnswered == auditor.stage \in {"asking proof", "set up", "proving"}

AuditOf(v) ==
    /\ StoredTogether(v)
    /\ TagAnswered => auditor.tag = v
    /\ auditor.good

CalmInv == auditor.calm => Auditing /\ \E v \in Uploads : AuditOf(v)

\* What the end of a calm audit may be.
CalmEnd ==
    auditor.calm /\ auditor'.stage = "idle" =>
        \/ auditor'.result \in {"none", "intact", "unproved"}
        \/ /\ auditor'.result = "killed"
           /\ \E v \in Uploads \cap EmptyUploads : StoredTogether(v)

\* A FileTag is whole of one upload only: it has a piece at least.
LEMMA WholeOfOne ==
    ASSUME NEW o \in Objects, o \notin Data, NEW u \in Uploads, NEW v \in Uploads,
           Whole(o, u), Whole(o, v)
    PROVE  u = v
<1>1. store[o].cells = [k \in 1 .. Chunks |-> u]
    BY DEF Whole, Size
<1>2. store[o].cells = [k \in 1 .. Chunks |-> v]
    BY DEF Whole, Size
<1>3. 1 \in 1 .. Chunks
    BY ChunksAssumption
<1> QED BY <1>1, <1>2, <1>3

\* As long as the audit is calm nothing has changed in the store.
LEMMA StoreStepCalm ==
    ASSUME IInv, CalmInv, NEW o \in Objects, NEW object, Put(o, object)
    PROVE  CalmInv'
<1>1. auditor' = [auditor EXCEPT !.calm = @ /\ store'[o] = store[o]]
    BY DEF Put
<1>2. auditor \in Auditors
    BY DEF IInv, TypeOK, Auditors
<1>3. /\ auditor'.stage = auditor.stage /\ auditor'.tag = auditor.tag
      /\ auditor'.good = auditor.good /\ auditor'.result = auditor.result
      /\ auditor'.calm => auditor.calm /\ store'[o] = store[o]
    BY <1>1, <1>2 DEF Auditors
<1>4. \A p \in Objects : p # o => store'[p] = store[p]
    BY PutOne DEF IInv
<1>5. ASSUME auditor'.calm, NEW v \in Uploads, AuditOf(v) PROVE AuditOf(v)'
    <2>1. \A p \in Objects : store'[p] = store[p]
        BY <1>3, <1>4, <1>5
    <2> QED BY <1>3, <1>5, <2>1 DEF AuditOf, StoredTogether, Whole, TagAnswered
<1> QED BY <1>3, <1>5 DEF CalmInv, Auditing

LEMMA SameStoreCalm ==
    ASSUME CalmInv, UNCHANGED <<store, auditor>>
    PROVE  CalmInv'
BY DEF CalmInv, Auditing, AuditOf, StoredTogether, Whole, TagAnswered

\* A step of a handler changes one object or none.
LEMMA HandlersPut ==
    ASSUME Handlers
    PROVE  \E v \in Uploads, o \in Objects :
               (\E object : Put(o, object)) \/ UNCHANGED <<store, auditor>>
<1>1. PICK v \in Uploads, o \in Objects :
          \/ OnRequest(v, o) \/ OnBody(v, o) \/ OnEOM(v, o)
          \/ RequestComplete(v, o) \/ OnError(v, o) \/ RequestDropped(v, o)
    BY DEF Handlers
<1>2. (\E object : Put(o, object)) \/ UNCHANGED <<store, auditor>>
    <2>1. CASE OnRequest(v, o)
        BY <2>1, Zenon DEF OnRequest, KeepStore
    <2>2. CASE OnBody(v, o)
        BY <2>2, Zenon DEF OnBody, PutCells
    <2>3. CASE Delete(v, o)
        BY <2>3, Zenon DEF Delete, PutCells, KeepStore
    <2>4. CASE OnEOM(v, o) \/ RequestDropped(v, o)
        BY <2>4 DEF OnEOM, RequestDropped
    <2> QED BY <1>1, <2>1, <2>2, <2>3, <2>4 DEF RequestComplete, OnError
<1> QED BY <1>2

LEMMA HandlersCalm ==
    ASSUME IInv, CalmInv, Handlers
    PROVE  CalmInv'
BY HandlersPut, StoreStepCalm, SameStoreCalm

\* An audit that is over is not calm, and one that was has recorded its result.
LEMMA EndedCalm ==
    ASSUME NEW result, auditor' = Ended(result)
    PROVE  /\ CalmInv'
           /\ auditor'.result = IF auditor.calm THEN result ELSE "none"
<1>1. auditor'.calm = FALSE
      /\ auditor'.result = IF auditor.calm THEN result ELSE "none"
    BY DEF Ended, NotAuditing
<1> QED BY <1>1 DEF CalmInv

\* A calm audit finds what it asks for.
LEMMA CalmFinds ==
    ASSUME IInv, CalmInv, auditor.calm, NEW v \in Uploads, AuditOf(v)
    PROVE  /\ \A o \in Objects : store[o].there /\ Whole(o, v)
           /\ "file tag" \in Objects \ Data /\ Data \subseteq Objects
           /\ TagAnswered => auditor.tag = v /\ auditor.tag # 0
           /\ auditor.good
<1>1. v # 0
    BY DEF Uploads
<1>2. \A o \in Objects : Whole(o, v)
    BY DEF AuditOf, StoredTogether
<1>3. ASSUME NEW o \in Objects PROVE store[o].there
    BY <1>2, WholeIsThere
<1>4. "file tag" \in Objects \ Data /\ Data \subseteq Objects
    BY DataAssumption DEF Objects
<1>5. (TagAnswered => auditor.tag = v) /\ auditor.good
    BY DEF AuditOf
<1> QED BY <1>1, <1>2, <1>3, <1>4, <1>5

\* The audit goes on: the store is as it was.
LEMMA OnwardCalm ==
    ASSUME auditor'.calm => Auditing' /\ \E v \in Uploads : AuditOf(v)',
           auditor'.stage # "idle"
    PROVE  CalmInv' /\ CalmEnd
BY DEF CalmInv, CalmEnd

\* An audit that ends with what it should end with, if it was calm.
LEMMA EndedWell ==
    ASSUME NEW result, auditor' = Ended(result),
           auditor.calm =>
               \/ result \in {"none", "intact", "unproved"}
               \/ /\ result = "killed"
                  /\ \E v \in Uploads \cap EmptyUploads : StoredTogether(v)
    PROVE  CalmInv' /\ CalmEnd
BY EndedCalm DEF CalmEnd

LEMMA AuditorCalm ==
    ASSUME IInv, CalmInv, Auditor
    PROVE  CalmInv' /\ CalmEnd
<1>1. auditor \in Auditors
    BY DEF IInv, TypeOK, Auditors
<1>2. auditor.calm =>
          \E v \in Uploads :
              /\ AuditOf(v)
              /\ \A o \in Objects : store[o].there /\ Whole(o, v)
              /\ "file tag" \in Objects \ Data /\ Data \subseteq Objects
              /\ TagAnswered => auditor.tag = v /\ auditor.tag # 0
              /\ auditor.good
    BY CalmFinds DEF CalmInv
<1>3. CASE BeginAudit
    <2>1. /\ auditor' = [NotAuditing EXCEPT
                            !.stage = "asking tag",
                            !.calm = \E v \in Uploads : StoredTogether(v)]
          /\ UNCHANGED store
        BY <1>3 DEF BeginAudit, Audit
    <2>2. /\ auditor'.stage = "asking tag" /\ auditor'.good
          /\ auditor'.calm = \E v \in Uploads : StoredTogether(v)
        BY <2>1 DEF NotAuditing
    <2>3. auditor'.calm => Auditing' /\ \E v \in Uploads : AuditOf(v)'
        BY <2>1, <2>2 DEF Auditing, AuditOf, TagAnswered, StoredTogether, Whole
    <2> QED BY <2>2, <2>3, OnwardCalm
<1>4. CASE AnswerFileTag
    <2>1. PICK v \in Uploads :
              /\ Whole("file tag", v)
              /\ Audit([auditor EXCEPT !.stage = "asking proof", !.tag = v])
        BY <1>4 DEF AnswerFileTag
    <2>2. /\ auditor'.stage = "asking proof" /\ auditor'.tag = v
          /\ auditor'.good = auditor.good /\ auditor'.calm = auditor.calm
          /\ UNCHANGED store
        BY <1>1, <2>1 DEF Audit, Auditors
    <2>3. auditor.calm => AuditOf(v)'
        <3> SUFFICES ASSUME auditor.calm PROVE AuditOf(v)'
            OBVIOUS
        <3>1. PICK u \in Uploads : /\ AuditOf(u) /\ Whole("file tag", u)
                                   /\ "file tag" \in Objects \ Data
                                   /\ auditor.good
            BY <1>2
        <3>2. u = v
            BY <2>1, <3>1, WholeOfOne
        <3>3. StoredTogether(v)'
            <4>1. StoredTogether(v)
                BY <3>1, <3>2 DEF AuditOf
            <4> QED BY <2>2, <4>1 DEF StoredTogether, Whole
        <3> QED BY <2>2, <3>1, <3>3 DEF AuditOf, TagAnswered
    <2> QED BY <2>2, <2>3, OnwardCalm DEF Auditing
<1>5. CASE AnswerEmptyFileTag
    <2>1. PICK v \in Uploads \cap EmptyUploads : Whole("file tag", v)
        BY <1>5 DEF AnswerEmptyFileTag
    <2>2. auditor' = Ended("killed")
        BY <1>5 DEF AnswerEmptyFileTag, EndAudit, Audit
    <2>3. auditor.calm => StoredTogether(v)
        <3> SUFFICES ASSUME auditor.calm PROVE StoredTogether(v)
            OBVIOUS
        <3>1. PICK u \in Uploads : /\ AuditOf(u) /\ Whole("file tag", u)
                                   /\ "file tag" \in Objects \ Data
            BY <1>2
        <3>2. u = v
            BY <2>1, <3>1, WholeOfOne
        <3> QED BY <3>1, <3>2 DEF AuditOf
    <2> QED BY <2>1, <2>2, <2>3, EndedWell
<1>6. CASE AnswerBadFileTag
    <2>1. ~auditor.calm
        BY <1>2, <1>6 DEF AnswerBadFileTag
    <2>2. CASE \E result : EndAudit(result)
        BY <2>1, <2>2, EndedWell DEF EndAudit, Audit
    <2>3. CASE Audit([auditor EXCEPT !.stage = "asking proof", !.tag = 0])
        <3>1. auditor'.calm = auditor.calm /\ auditor'.stage = "asking proof"
            BY <1>1, <2>3 DEF Audit, Auditors
        <3> QED BY <2>1, <3>1, OnwardCalm
    <2> QED BY <1>6, <2>2, <2>3 DEF AnswerBadFileTag
<1>7. CASE NoFileTag \/ SetupProofThrows \/ FetchItemThrows
    <2>1. auditor' = Ended("server killed")
        BY <1>7 DEF NoFileTag, SetupProofThrows, FetchItemThrows, KillServer
    <2>2. ~auditor.calm
        <3>1. NoFileTag => ~auditor.calm
            BY <1>2 DEF NoFileTag
        <3>2. SetupProofThrows => ~auditor.calm
            BY <1>2 DEF SetupProofThrows
        <3>3. FetchItemThrows => ~auditor.calm
            BY <1>2 DEF FetchItemThrows, TagAnswered
        <3> QED BY <1>7, <3>1, <3>2, <3>3
    <2> QED BY <2>1, <2>2, EndedWell
<1>8. CASE SetupProof
    <2>1. /\ auditor.stage = "asking proof" /\ auditor'.stage = "set up"
          /\ auditor'.tag = auditor.tag /\ auditor'.good = auditor.good
          /\ auditor'.calm = auditor.calm /\ UNCHANGED store
        BY <1>1, <1>8 DEF SetupProof, Audit, Auditors
    <2>2. \A v \in Uploads : AuditOf(v) => AuditOf(v)'
        BY <2>1 DEF AuditOf, StoredTogether, Whole, TagAnswered
    <2> QED BY <1>2, <2>1, <2>2, OnwardCalm DEF Auditing
<1>9. CASE FetchItem
    <2>1. PICK found \in BOOLEAN :
              /\ ~found => \E o \in Data : ~Whole(o, auditor.tag)
              /\ Audit([auditor EXCEPT !.stage = "proving", !.good = @ /\ found])
        BY <1>9 DEF FetchItem
    <2>2. /\ auditor.stage \in {"set up", "proving"}
          /\ auditor'.stage = "proving" /\ auditor'.tag = auditor.tag
          /\ auditor'.good = (auditor.good /\ found)
          /\ auditor'.calm = auditor.calm /\ UNCHANGED store
        BY <1>1, <1>9, <2>1 DEF FetchItem, Audit, Auditors
    <2>3. auditor.calm => found
        BY <1>2, <2>1, <2>2 DEF TagAnswered
    <2>4. auditor.calm => \A v \in Uploads : AuditOf(v) => AuditOf(v)'
        BY <2>2, <2>3 DEF AuditOf, StoredTogether, Whole, TagAnswered
    <2> QED BY <1>2, <2>2, <2>4, OnwardCalm DEF Auditing
<1>10. CASE Verdict
    <2>1. auditor' = Ended(IF auditor.good THEN "intact" ELSE "corrupted")
        BY <1>10 DEF Verdict, EndAudit, Audit
    <2> QED BY <1>2, <2>1, EndedWell
<1>11. CASE ForeignAnswer
    <2>1. CASE Audit([auditor EXCEPT !.stage = "asking proof", !.tag = 0,
                                     !.calm = FALSE])
        <3>1. auditor'.calm = FALSE /\ auditor'.stage = "asking proof"
            BY <1>1, <2>1 DEF Audit, Auditors
        <3> QED BY <3>1, OnwardCalm
    <2>2. CASE EndAudit("unproved")
        BY <2>2, EndedWell DEF EndAudit, Audit
    <2> QED BY <1>11, <2>1, <2>2 DEF ForeignAnswer
<1>12. CASE AuditFails
    BY <1>12, EndedWell DEF AuditFails, EndAudit, Audit
<1> QED BY <1>3, <1>4, <1>5, <1>6, <1>7, <1>8, <1>9, <1>10, <1>11, <1>12
        DEF Auditor

\* A change of an object ends no audit.
LEMMA PutGoesOn ==
    ASSUME IInv, NEW o, NEW object, Put(o, object)
    PROVE  auditor'.stage = auditor.stage
<1>1. auditor \in Auditors
    BY DEF IInv, TypeOK, Auditors
<1> QED BY <1>1 DEF Put, Auditors

\* A step of another process: an audit does not end in it.
LEMMA OtherCalm ==
    ASSUME IInv, CalmInv, [Next]_vars, ~Auditor
    PROVE  CalmInv' /\ CalmEnd
<1>1. CASE Handlers
    <2>1. PICK v \in Uploads, o \in Objects :
              (\E object : Put(o, object)) \/ UNCHANGED <<store, auditor>>
        BY <1>1, HandlersPut
    <2>2. auditor'.stage = auditor.stage
        BY <2>1, PutGoesOn
    <2> QED BY <1>1, <2>2, HandlersCalm DEF CalmEnd, CalmInv, Auditing
<1>2. ASSUME UNCHANGED <<store, auditor>> PROVE CalmInv' /\ CalmEnd
    BY <1>2, SameStoreCalm DEF CalmEnd, CalmInv, Auditing
<1>3. CASE Application
    BY <1>2, <1>3 DEF Application, BeginUpload, Return, Crash, Restart
<1>4. CASE ServerCrash \/ ServerRestart
    BY <1>2, <1>4 DEF ServerCrash, ServerGone, ServerRestart
<1>5. CASE UNCHANGED vars
    BY <1>2, <1>5 DEF vars
<1> QED BY <1>1, <1>3, <1>4, <1>5 DEF Next

LEMMA NextCalm == IInv /\ CalmInv /\ [Next]_vars => CalmInv' /\ CalmEnd
BY AuditorCalm, OtherCalm

THEOREM InductiveCalm == Spec => []CalmInv
<1>1. Init => CalmInv
    BY DEF Init, CalmInv, NotAuditing
<1> QED BY <1>1, NextCalm, Inductive, PTL DEF Spec

\* For any number of uploads and pieces, of files with blocks and without: an
\* audit that begins when an upload is stored whole and meets no change of an
\* object is answered "intact" or not at all, kills the auditor if the stored file
\* is empty and only then, and never the server.
THEOREM CalmIsIntact == Spec => CalmAuditIntact
<1>1. IInv /\ CalmInv /\ [Next]_vars => [CalmEnd]_vars
    BY NextCalm
<1>2. CalmAuditIntact <=> [][CalmEnd]_vars
    BY DEF CalmAuditIntact, CalmEnd
<1> QED BY <1>1, <1>2, Inductive, InductiveCalm, PTL DEF Spec

=============================================================================
