------------------------- MODULE AuditedStoreProofs -------------------------
(***************************************************************************)
(* Proofs about AuditedStore, for any number of uploads, any contents and  *)
(* any length of a challenge: what the reports of an upload say of the     *)
(* store, that a verification nobody disturbs finds the file intact, and   *)
(* that the three objects implement AuditRegister.                         *)
(***************************************************************************)
EXTENDS AuditedStore, TLAPS

-----------------------------------------------------------------------------
(* The strengthened invariant.                                             *)

\* The threads run only while the worker waits for them, and an upload that is
\* running has not been reported.  Nothing runs in a process that has ended.
ThreadsInv ==
    /\ upload # "storing" => \A o \in Objects : storing[o] = "none"
    /\ process = "dead" => upload = "idle" /\ verify.stage = "idle"
    /\ process = "running" => killed_by = "nothing"
    /\ report # "none" => upload = "idle"

\* How far each object is, by what its thread is about to do.
ObjectInv(o) ==
    /\ store[o].upload <= Newest
    /\ upload \in {"opening", "preparing"} => store[o].upload < Newest
    /\ storing[o] = "open" => store[o].upload < Newest
    /\ storing[o] = "write" => /\ store[o].upload = Newest
                               /\ store[o].part \in {"empty", "partial"}
    /\ storing[o] = "done" /\ ~lost =>
           store[o] = [upload |-> Newest, part |-> "whole"]

ReportInv ==
    /\ upload \in {"recording", "rewriting"} /\ ~lost => StoredTogether(Newest)
    /\ upload \in {"opening", "preparing"} => store = store_before
    /\ SuccessMeansStored
    /\ ErrorMeansUntouched

\* A verification that has not seen the store change is about the upload that
\* is stored.
CalmInv ==
    verify.calm =>
        /\ verify.stage = "reading tag" => Auditable
        /\ verify.stage \in {"opening", "fetching"} =>
               verify.tag \in 1 .. Newest /\ StoredTogether(verify.tag)
        /\ verify.stage # "idle" => verify.good
        /\ verify.result \in {"none", "intact"}
        /\ killed_by # "assertion"
        /\ killed_by = "division" => EmptyStored

IInv ==
    /\ TypeOK
    /\ ThreadsInv
    /\ \A o \in Objects : ObjectInv(o)
    /\ ReportInv
    /\ CalmInv

-----------------------------------------------------------------------------
(* The types of the two records whose fields the steps change.             *)

VerifyType ==
    [stage : {"idle", "reading tag", "opening", "fetching"},
     tag : 0 .. MaxUploads, items : 0 .. MaxItems,
     good : BOOLEAN, calm : BOOLEAN,
     result : {"none", "intact", "corrupted", "error"}]

LEMMA NotVerifyingType ==
    /\ NotVerifying \in VerifyType
    /\ \A calm \in BOOLEAN, result \in {"none", "intact", "corrupted", "error"} :
           [NotVerifying EXCEPT !.calm = calm, !.result = result] \in VerifyType
    /\ \A calm \in BOOLEAN : [NotVerifying EXCEPT !.calm = calm] \in VerifyType
    /\ \A calm \in BOOLEAN :
           [NotVerifying EXCEPT !.stage = "reading tag", !.calm = calm] \in VerifyType
<1>1. 0 \in 0 .. MaxUploads /\ 0 \in 0 .. MaxItems
    BY MaxUploadsAssumption, MaxItemsAssumption
<1> QED BY <1>1 DEF NotVerifying, VerifyType

LEMMA Types ==
    ASSUME TypeOK
    PROVE  /\ contents \in Seq(Contents)
           /\ Newest \in Nat
           /\ Newest \in 0 .. MaxUploads
           /\ store \in [Objects -> Object]
           /\ verify \in VerifyType
           /\ verify.calm \in BOOLEAN
           /\ \A o \in Objects : store[o].upload \in Nat
<1>1. contents \in Seq(Contents) /\ Newest <= MaxUploads
    BY DEF TypeOK
<1>2. Newest \in Nat
    BY <1>1 DEF Newest
<1>3. Newest \in 0 .. MaxUploads
    BY <1>1, <1>2, MaxUploadsAssumption
<1>4. store \in [Objects -> Object]
    BY DEF TypeOK
<1>5. \A o \in Objects : store[o].upload \in Nat
    BY <1>4, MaxUploadsAssumption DEF Object
<1>6. verify \in VerifyType
    BY DEF TypeOK, VerifyType
<1>7. verify.calm \in BOOLEAN
    BY <1>6 DEF VerifyType
<1> QED BY <1>1, <1>2, <1>3, <1>4, <1>5, <1>6, <1>7

LEMMA DisturbedType ==
    ASSUME verify \in VerifyType
    PROVE  [verify EXCEPT !.calm = FALSE] \in VerifyType
BY DEF VerifyType

-----------------------------------------------------------------------------
(* The initial state and the end of the process                            *)

LEMMA InitIInv == Init => IInv
<1> SUFFICES ASSUME Init PROVE IInv
    OBVIOUS
<1>1. contents = <<>> /\ Newest = 0 /\ contents \in Seq(Contents)
    BY DEF Init, Newest
<1>2. verify \in VerifyType
    BY NotVerifyingType DEF Init
<1>3. store \in [Objects -> Object] /\ store_before = store
    BY MaxUploadsAssumption DEF Init, Object, Parts
<1>4. TypeOK
    <2>1. storing \in [Objects -> {"none", "open", "write", "done"}]
        BY DEF Init, NotStoring
    <2>2. Newest <= MaxUploads
        BY <1>1, MaxUploadsAssumption
    <2>3. store_before \in [Objects -> Object]
        BY <1>3
    <2>4. /\ process = "running" /\ killed_by = "nothing" /\ upload = "idle"
          /\ recent = "absent" /\ report = "none" /\ lost = FALSE
        BY DEF Init
    <2> QED BY <1>1, <1>2, <1>3, <2>1, <2>2, <2>3, <2>4 DEF TypeOK, VerifyType
<1> QED
    BY <1>1, <1>4 DEF Init, IInv, ThreadsInv, ObjectInv, ReportInv, CalmInv,
        SuccessMeansStored, ErrorMeansUntouched, NotStoring, NotVerifying

LEMMA DieIInv ==
    ASSUME IInv, NEW cause, Die(cause),
           cause \in {"crash", "source exception", "storage exception",
                      "division", "assertion"},
           cause = "assertion" => ~verify.calm,
           cause = "division" /\ verify.calm => EmptyStored,
           process = "running"
    PROVE  IInv'
<1>1. TypeOK /\ verify \in VerifyType
    BY DEF IInv, TypeOK, VerifyType
<1>2. verify' \in VerifyType /\ verify'.calm = verify.calm
      /\ verify'.stage = "idle" /\ verify'.result = "none"
    <2>1. verify' = [NotVerifying EXCEPT !.calm = verify.calm]
        BY DEF Die
    <2>2. verify.calm \in BOOLEAN
        BY <1>1 DEF VerifyType
    <2>3. verify' \in VerifyType
        BY <2>1, <2>2, NotVerifyingType
    <2> QED BY <2>1, <2>3 DEF NotVerifying
<1>3. TypeOK'
    BY <1>1, <1>2 DEF TypeOK, VerifyType, Die, NotStoring, Newest
<1>4. ThreadsInv'
    BY <1>2 DEF IInv, ThreadsInv, Die, NotStoring
<1>5. \A o \in Objects : ObjectInv(o)'
    BY DEF IInv, ObjectInv, Die, NotStoring, Newest
<1>6. ReportInv'
    BY DEF IInv, ReportInv, SuccessMeansStored, ErrorMeansUntouched,
           StoredTogether, Newest, Die
<1>7. CalmInv'
    <2>1. EmptyStored => EmptyStored'
        BY DEF Die, EmptyStored, AuditableUpload, Auditable, StoredTogether,
               Newest
    <2>2. killed_by' = cause
        BY DEF Die
    <2> QED BY <1>2, <2>1, <2>2 DEF IInv, CalmInv
<1> QED BY <1>3, <1>4, <1>5, <1>6, <1>7 DEF IInv

-----------------------------------------------------------------------------
(* The steps of the worker                                                 *)

LEMMA CalmUnchanged ==
    ASSUME CalmInv, UNCHANGED <<verify, store, killed_by, contents>>
    PROVE  CalmInv'
BY DEF CalmInv, EmptyStored, AuditableUpload, Auditable, StoredTogether, Newest

\* The worker's own steps, from the opening of the file to the report.
WorkerStep ==
    \/ OpenSource \/ Prepare \/ PrepareFails \/ Join
    \/ TruncateRecent \/ RecentUnreadable \/ RewriteRecent

LEMMA WorkerIInv ==
    ASSUME IInv, WorkerStep
    PROVE  IInv'
<1> USE DEF WorkerStep, OpenSource, Prepare, PrepareFails, Join, TruncateRecent,
            RecentUnreadable, RewriteRecent
<1>1. UNCHANGED <<process, killed_by, contents, store, verify, store_before, lost>>
      /\ Newest' = Newest
    BY DEF Newest
<1>2. /\ storing' \in [Objects -> {"none", "open", "write", "done"}]
      /\ upload' \in {"idle", "opening", "preparing", "storing", "recording",
                      "rewriting"}
      /\ recent' \in {"absent", "torn", "list"}
      /\ report' \in {"none", "success", "error"}
    BY DEF IInv, TypeOK, NotStoring
<1>3. TypeOK'
    BY <1>1, <1>2 DEF IInv, TypeOK, Object
<1>4. process = "running"
    BY DEF IInv, TypeOK, ThreadsInv
<1>5. ThreadsInv'
    <2>1. upload' # "storing" => \A o \in Objects : storing'[o] = "none"
        BY DEF IInv, ThreadsInv, NotStoring
    <2>2. report' # "none" => upload' = "idle"
        BY DEF IInv, TypeOK, ThreadsInv
    <2> QED BY <1>1, <1>4, <2>1, <2>2 DEF IInv, ThreadsInv
<1>6. \A o \in Objects : ObjectInv(o)'
    BY <1>1 DEF IInv, ObjectInv, NotStoring
<1>7. ReportInv'
    <2>1. CASE OpenSource \/ Prepare
        BY <1>1, <2>1 DEF IInv, ReportInv, ThreadsInv, SuccessMeansStored,
            ErrorMeansUntouched, StoredTogether
    <2>2. CASE PrepareFails
        BY <1>1, <2>2 DEF IInv, ReportInv, SuccessMeansStored,
            ErrorMeansUntouched, StoredTogether
    <2>3. CASE Join
        <3>1. ~lost => StoredTogether(Newest)
            BY <2>3 DEF IInv, ObjectInv, StoredTogether
        <3>2. report = "none" /\ report' = "none"
            BY <2>3 DEF IInv, TypeOK, ThreadsInv
        <3> QED BY <1>1, <2>3, <3>1, <3>2 DEF ReportInv, SuccessMeansStored,
                ErrorMeansUntouched, StoredTogether
    <2>4. CASE TruncateRecent \/ RecentUnreadable \/ RewriteRecent
        BY <1>1, <2>4 DEF IInv, TypeOK, ReportInv, ThreadsInv,
            SuccessMeansStored, ErrorMeansUntouched, StoredTogether
    <2> QED BY <2>1, <2>2, <2>3, <2>4
<1>8. CalmInv'
    BY <1>1, CalmUnchanged DEF IInv
<1> QED BY <1>3, <1>5, <1>6, <1>7, <1>8 DEF IInv

LEMMA BeginUploadIInv ==
    ASSUME IInv, BeginUpload
    PROVE  IInv'
<1> USE DEF BeginUpload
<1>1. PICK c \in Contents : contents' = Append(contents, c)
    OBVIOUS
<1>2. contents \in Seq(Contents) /\ Newest \in Nat /\ Newest < MaxUploads
    BY Types DEF IInv
<1>3. contents' \in Seq(Contents) /\ Newest' = Newest + 1 /\ Newest' <= MaxUploads
    <2>1. contents' \in Seq(Contents) /\ Len(contents') = Len(contents) + 1
        BY <1>1, <1>2
    <2> QED BY <2>1, <1>2, MaxUploadsAssumption DEF Newest
<1>4. TypeOK'
    BY <1>3 DEF IInv, TypeOK, Object
<1>5. ThreadsInv'
    BY DEF IInv, ThreadsInv
<1>6. \A o \in Objects : ObjectInv(o)'
    <2> SUFFICES ASSUME NEW o \in Objects PROVE ObjectInv(o)'
        OBVIOUS
    <2>1. storing[o] = "none" /\ store[o].upload <= Newest
        BY DEF IInv, ThreadsInv, ObjectInv
    <2>2. store[o].upload \in Nat
        BY Types DEF IInv
    <2> QED BY <1>2, <1>3, <2>1, <2>2 DEF ObjectInv
<1>7. ReportInv'
    BY DEF ReportInv, SuccessMeansStored, ErrorMeansUntouched
<1>8. CalmInv'
    <2>1. \A v \in 1 .. Newest : v \in 1 .. Newest'
        BY <1>2, <1>3
    <2>2. killed_by' = "nothing"
        BY DEF IInv, ThreadsInv
    <2> QED BY <2>1, <2>2 DEF IInv, CalmInv, Auditable, StoredTogether
<1> QED BY <1>4, <1>5, <1>6, <1>7, <1>8 DEF IInv

LEMMA RestartIInv ==
    ASSUME IInv, Restart
    PROVE  IInv'
<1> USE DEF Restart
<1>1. verify' \in VerifyType /\ ~verify'.calm
    BY NotVerifyingType DEF NotVerifying
<1>2. TypeOK'
    BY <1>1 DEF IInv, TypeOK, VerifyType, Object, Newest
<1>3. ThreadsInv'
    BY DEF IInv, ThreadsInv
<1>4. \A o \in Objects : ObjectInv(o)'
    BY DEF IInv, ThreadsInv, ObjectInv, Newest
<1>5. ReportInv'
    BY DEF IInv, ThreadsInv, ReportInv, SuccessMeansStored, ErrorMeansUntouched
<1>6. CalmInv'
    BY <1>1 DEF CalmInv
<1> QED BY <1>2, <1>3, <1>4, <1>5, <1>6 DEF IInv

-----------------------------------------------------------------------------
(* The steps of the storing threads                                        *)

LEMMA OpenObjectIInv ==
    ASSUME IInv, NEW o \in Objects, OpenObject(o)
    PROVE  IInv'
<1> USE DEF OpenObject, Disturb
<1>1. verify \in VerifyType /\ Newest \in 0 .. MaxUploads /\ Newest' = Newest
    <2>1. verify \in VerifyType /\ Newest \in 0 .. MaxUploads
        BY Types DEF IInv
    <2>2. Newest' = Newest
        BY DEF Newest
    <2> QED BY <2>1, <2>2
<1>2. verify' \in VerifyType /\ ~verify'.calm /\ verify'.stage = verify.stage
    BY <1>1, DisturbedType DEF VerifyType
<1>3. [upload |-> Newest, part |-> "empty"] \in Object
    BY <1>1 DEF Object, Parts
<1>store. store \in [Objects -> Object]
    BY Types DEF IInv
<1>4. TypeOK'
    BY <1>1, <1>2, <1>3 DEF IInv, TypeOK, VerifyType
<1>5. upload = "storing"
    BY DEF IInv, ThreadsInv
<1>6. ThreadsInv'
    BY <1>2, <1>5 DEF IInv, ThreadsInv
<1>7. \A q \in Objects : ObjectInv(q)'
    <2> SUFFICES ASSUME NEW q \in Objects PROVE ObjectInv(q)'
        OBVIOUS
    <2>1. CASE q # o
        <3>1. store'[q] = store[q] /\ storing'[q] = storing[q]
            BY <2>1, <1>store DEF IInv, TypeOK
        <3> QED BY <1>1, <1>5, <3>1 DEF IInv, ObjectInv
    <2>2. CASE q = o
        <3>1. store'[q] = [upload |-> Newest, part |-> "empty"]
              /\ storing'[q] = "write"
            BY <2>2, <1>store DEF IInv, TypeOK
        <3> QED BY <1>1, <1>5, <3>1 DEF ObjectInv
    <2> QED BY <2>1, <2>2
<1>8. ReportInv'
    BY <1>5 DEF IInv, TypeOK, ThreadsInv, ReportInv, SuccessMeansStored,
        ErrorMeansUntouched
<1>9. CalmInv'
    BY <1>2 DEF CalmInv
<1> QED BY <1>4, <1>6, <1>7, <1>8, <1>9 DEF IInv

LEMMA WriteIInv ==
    ASSUME IInv, NEW o \in Objects, WriteSome(o) \/ WriteRest(o) \/ WriteLost(o)
    PROVE  IInv'
<1> USE DEF WriteSome, WriteRest, WriteLost, Disturb
<1>1. verify \in VerifyType /\ Newest \in 0 .. MaxUploads /\ Newest' = Newest
    <2>1. verify \in VerifyType /\ Newest \in 0 .. MaxUploads
        BY Types DEF IInv
    <2>2. Newest' = Newest
        BY DEF Newest
    <2> QED BY <2>1, <2>2
<1>2. verify' \in VerifyType /\ verify'.stage = verify.stage
      /\ (verify' = verify \/ ~verify'.calm)
    BY <1>1, DisturbedType DEF VerifyType
<1>store. store \in [Objects -> Object] /\ store[o] \in Object
    BY Types DEF IInv
<1>written. /\ [store[o] EXCEPT !.part = "partial"] \in Object
       /\ [store[o] EXCEPT !.part = "whole"] \in Object
    BY <1>store DEF Object, Parts
<1>3. store' \in [Objects -> Object]
    BY <1>store, <1>written
<1>4. TypeOK'
    BY <1>1, <1>2, <1>3 DEF IInv, TypeOK, VerifyType
<1>5. upload = "storing" /\ report = "none"
    BY DEF IInv, TypeOK, ThreadsInv
<1>6. ThreadsInv'
    BY <1>2, <1>5 DEF IInv, ThreadsInv
<1>7. \A q \in Objects : ObjectInv(q)'
    <2> SUFFICES ASSUME NEW q \in Objects PROVE ObjectInv(q)'
        OBVIOUS
    <2>0. storing \in [Objects -> {"none", "open", "write", "done"}]
        BY DEF IInv, TypeOK
    <2>1. CASE q # o
        <3>1. store'[q] = store[q] /\ storing'[q] = storing[q]
            BY <2>0, <2>1, <1>store
        <3>3. lost => lost'
            BY DEF IInv, TypeOK
        <3> QED BY <1>1, <1>5, <3>1, <3>3 DEF IInv, ObjectInv
    <2>2. CASE q = o
        <3>1. store[o].upload = Newest
            BY DEF IInv, ObjectInv
        <3>2. CASE WriteSome(o)
            <4>1. storing'[o] = "write" /\ store'[o].upload = Newest
                  /\ store'[o].part = "partial"
                BY <1>store, <3>1, <3>2 DEF Object
            <4> QED BY <1>1, <1>5, <2>2, <3>2, <4>1 DEF ObjectInv
        <3>3. CASE WriteRest(o)
            <4>1. store'[o] = [upload |-> Newest, part |-> "whole"]
                BY <1>store, <3>1, <3>3 DEF Object
            <4>2. storing'[o] = "done"
                BY <2>0, <3>3
            <4> QED BY <1>1, <1>5, <2>2, <3>3, <4>1, <4>2 DEF ObjectInv
        <3>4. CASE WriteLost(o)
            BY <1>1, <1>5, <2>0, <2>2, <3>1, <3>4 DEF ObjectInv
        <3> QED BY <3>2, <3>3, <3>4
    <2> QED BY <2>1, <2>2
<1>8. ReportInv'
    BY <1>5 DEF ReportInv, SuccessMeansStored, ErrorMeansUntouched
<1>9. CalmInv'
    <2>1. CASE WriteLost(o)
        BY <2>1, CalmUnchanged DEF IInv
    <2>2. CASE WriteSome(o) \/ WriteRest(o)
        BY <1>1, <2>2 DEF CalmInv, VerifyType
    <2> QED BY <2>1, <2>2
<1> QED BY <1>4, <1>6, <1>7, <1>8, <1>9 DEF IInv

-----------------------------------------------------------------------------
(* The steps of the verification                                           *)

LEMMA WholeObject ==
    ASSUME NEW r, NEW v, r = [upload |-> v, part |-> "whole"]
    PROVE  r.upload = v /\ r.part = "whole"
OBVIOUS

\* A step that changes nothing but the verification.
LEMMA OnlyVerify ==
    ASSUME IInv, process = "running", verify' \in VerifyType, CalmInv',
           UNCHANGED <<process, killed_by, contents, upload, storing, store,
                       recent, report, store_before, lost>>
    PROVE  IInv'
<1>1. Newest' = Newest
    BY DEF Newest
<1>2. TypeOK'
    BY <1>1 DEF IInv, TypeOK, VerifyType, Object
<1>3. ThreadsInv'
    BY DEF IInv, ThreadsInv
<1>4. \A o \in Objects : ObjectInv(o)'
    BY <1>1 DEF IInv, ObjectInv
<1>5. ReportInv'
    BY <1>1 DEF IInv, ReportInv, SuccessMeansStored, ErrorMeansUntouched,
        StoredTogether
<1> QED BY <1>2, <1>3, <1>4, <1>5 DEF IInv

LEMMA BeginVerifyIInv ==
    ASSUME IInv, BeginVerify
    PROVE  IInv'
<1> USE DEF BeginVerify
<1>1. verify' \in VerifyType
    <2>1. Auditable \in BOOLEAN
        BY DEF Auditable
    <2> QED BY <2>1, NotVerifyingType
<1>2. /\ verify'.stage = "reading tag" /\ verify'.good /\ verify'.result = "none"
      /\ verify'.calm => Auditable
    BY DEF NotVerifying
<1>3. Auditable' <=> Auditable
    BY DEF Auditable, StoredTogether, Newest
<1>4. CalmInv'
    BY <1>2, <1>3 DEF IInv, ThreadsInv, CalmInv
<1> QED BY <1>1, <1>4, OnlyVerify

\* The end of a verification: a calm one may only end with "intact".
LEMMA EndVerifyIInv ==
    ASSUME IInv, verify.stage # "idle",
           NEW result \in {"none", "intact", "corrupted", "error"},
           EndVerify(result), verify.calm => result = "intact"
    PROVE  IInv'
<1> USE DEF EndVerify
<1>1. verify.calm \in BOOLEAN
    BY Types DEF IInv
<1>2. verify' \in VerifyType
    BY <1>1, NotVerifyingType
<1>3. /\ verify'.stage = "idle" /\ verify'.calm = verify.calm
      /\ verify'.result = result
    BY DEF NotVerifying
<1>4. process = "running"
    BY DEF IInv, TypeOK, ThreadsInv
<1>5. CalmInv'
    BY <1>3, <1>4 DEF IInv, ThreadsInv, CalmInv
<1> QED BY <1>2, <1>4, <1>5, OnlyVerify

\* A verification that is refused has not looked at the store.
LEMMA RefuseVerifyIInv ==
    ASSUME IInv, RefuseVerify
    PROVE  IInv'
<1> USE DEF RefuseVerify
<1>1. verify' \in VerifyType /\ ~verify'.calm
    <2>1. 0 \in 0 .. MaxUploads /\ 0 \in 0 .. MaxItems
        BY MaxUploadsAssumption, MaxItemsAssumption
    <2> QED BY <2>1 DEF NotVerifying, VerifyType
<1>2. CalmInv'
    BY <1>1 DEF CalmInv
<1> QED BY <1>1, <1>2, OnlyVerify

LEMMA ReadFileTagIInv ==
    ASSUME IInv, ReadFileTag
    PROVE  IInv'
<1> USE DEF ReadFileTag
<1>1. verify \in VerifyType /\ store \in [Objects -> Object]
    BY Types DEF IInv
<1>2. store["file tag"].upload \in 0 .. MaxUploads
    BY <1>1 DEF Objects, Object
<1>3. verify' \in VerifyType
    BY <1>1, <1>2 DEF VerifyType
<1>4. /\ verify'.stage = "opening" /\ verify'.tag = store["file tag"].upload
      /\ verify'.good = verify.good /\ verify'.result = verify.result
      /\ verify'.calm = verify.calm
    BY <1>1 DEF VerifyType
<1>5. Newest' = Newest /\ \A v : StoredTogether(v)' <=> StoredTogether(v)
    BY DEF Newest, StoredTogether
<1>6. process = "running"
    BY DEF IInv, TypeOK, ThreadsInv
<1>7. CalmInv'
    <2>1. ASSUME verify.calm
          PROVE  verify'.tag \in 1 .. Newest /\ StoredTogether(verify'.tag)
        <3>1. PICK v \in 1 .. Newest : StoredTogether(v)
            BY <2>1 DEF IInv, CalmInv, Auditable
        <3>2. store["file tag"] = [upload |-> v, part |-> "whole"]
            BY <3>1 DEF StoredTogether, Objects
        <3>3. store["file tag"].upload = v
            BY <3>2, WholeObject
        <3> QED BY <1>4, <3>1, <3>3
    <2>2. killed_by' = "nothing"
        BY <1>6 DEF IInv, ThreadsInv
    <2> QED BY <1>4, <1>5, <2>1, <2>2 DEF IInv, CalmInv
<1> QED BY <1>3, <1>6, <1>7, OnlyVerify

\* The upload that can be verified is the one that each object is of.
LEMMA AuditableIsStored ==
    ASSUME NEW v \in 1 .. Newest, StoredTogether(v)
    PROVE  Auditable /\ AuditableUpload = v
<1>1. Auditable
    BY DEF Auditable
<1>2. \A w \in 1 .. Newest : StoredTogether(w) => w = v
    <2> SUFFICES ASSUME NEW w \in 1 .. Newest, StoredTogether(w) PROVE w = v
        OBVIOUS
    <2>1. /\ store["file"] = [upload |-> v, part |-> "whole"]
          /\ store["file"] = [upload |-> w, part |-> "whole"]
        BY DEF StoredTogether, Objects
    <2> QED BY <2>1, WholeObject
<1> QED BY <1>1, <1>2 DEF AuditableUpload

\* The file tag that a calm verification reads is whole.
LEMMA CalmTagWhole ==
    ASSUME IInv, verify.calm, verify.stage = "reading tag"
    PROVE  store["file tag"].part = "whole"
<1>1. PICK v \in 1 .. Newest : StoredTogether(v)
    BY DEF IInv, CalmInv, Auditable
<1>2. store["file tag"] = [upload |-> v, part |-> "whole"]
    BY <1>1 DEF StoredTogether, Objects
<1> QED BY <1>2, WholeObject

\* It is that of the upload that can be verified.
LEMMA CalmTagStored ==
    ASSUME IInv, verify.calm, verify.stage = "reading tag"
    PROVE  Auditable /\ AuditableUpload = store["file tag"].upload
<1>1. PICK v \in 1 .. Newest : StoredTogether(v)
    BY DEF IInv, CalmInv, Auditable
<1>2. store["file tag"] = [upload |-> v, part |-> "whole"]
    BY <1>1 DEF StoredTogether, Objects
<1>3. store["file tag"].upload = v
    BY <1>2, WholeObject
<1> QED BY <1>1, <1>3, AuditableIsStored

LEMMA OpenStoredIInv ==
    ASSUME IInv, OpenStored
    PROVE  IInv'
<1> USE DEF OpenStored
<1>1. verify \in VerifyType
    BY Types DEF IInv
<1>2. verify' \in VerifyType
    BY <1>1 DEF VerifyType
<1>3. /\ verify'.stage = "fetching" /\ verify'.tag = verify.tag
      /\ verify'.good = verify.good /\ verify'.result = verify.result
      /\ verify'.calm = verify.calm
    BY <1>1 DEF VerifyType
<1>4. Newest' = Newest /\ (StoredTogether(verify.tag))' <=> StoredTogether(verify'.tag)
    BY DEF Newest, StoredTogether
<1>5. process = "running"
    BY DEF IInv, TypeOK, ThreadsInv
<1>6. CalmInv'
    BY <1>3, <1>4, <1>5 DEF IInv, ThreadsInv, CalmInv, StoredTogether
<1> QED BY <1>2, <1>6, <1>5, OnlyVerify

\* Both objects that a calm verification reads fit its file tag.
LEMMA CalmFits ==
    ASSUME IInv, verify.calm, verify.stage \in {"opening", "fetching"},
           NEW o \in {"file", "block tags"}
    PROVE  Fits(o) /\ store[o].part = "whole"
<1>1. StoredTogether(verify.tag)
    BY DEF IInv, CalmInv
<1>2. store[o] = [upload |-> verify.tag, part |-> "whole"]
    BY <1>1 DEF StoredTogether, Objects
<1>3. store[o].upload = verify.tag /\ store[o].part = "whole"
    BY <1>2, WholeObject
<1> QED BY <1>3 DEF Fits

LEMMA OneMoreItem ==
    ASSUME NEW n \in 0 .. MaxItems, n < MaxItems
    PROVE  n + 1 \in 0 .. MaxItems
BY MaxItemsAssumption

LEMMA FetchItemIInv ==
    ASSUME IInv, FetchItem
    PROVE  IInv'
<1> USE DEF FetchItem
<1>1. verify \in VerifyType /\ verify.stage = "fetching" /\ verify.items < MaxItems
    BY Types DEF IInv
<1>2. PICK found \in BOOLEAN :
          /\ ~found => \E o \in {"file", "block tags"} :
                           ~(Fits(o) /\ store[o].part = "whole")
          /\ verify' = [verify EXCEPT !.items = @ + 1, !.good = @ /\ found]
    OBVIOUS
<1>3. verify.items + 1 \in 0 .. MaxItems /\ (verify.good /\ found) \in BOOLEAN
    <2>1. verify.items \in 0 .. MaxItems /\ verify.good \in BOOLEAN
        BY <1>1 DEF VerifyType
    <2>2. verify.items + 1 \in 0 .. MaxItems
        BY <1>1, <2>1, OneMoreItem
    <2>3. (verify.good /\ found) \in BOOLEAN
        BY ZenonT(10)
    <2> QED BY <2>2, <2>3
<1>4. verify' \in VerifyType
    BY <1>1, <1>2, <1>3 DEF VerifyType
<1>5. /\ verify'.stage = "fetching" /\ verify'.tag = verify.tag
      /\ verify'.good = (verify.good /\ found) /\ verify'.result = verify.result
      /\ verify'.calm = verify.calm
    BY <1>1, <1>2 DEF VerifyType
<1>6. verify.calm => found
    BY <1>1, <1>2, CalmFits
<1>7. Newest' = Newest /\ killed_by' = killed_by /\ store' = store
    BY DEF Newest
<1>8. process = "running"
    BY <1>1 DEF IInv, TypeOK, ThreadsInv
<1>9. CalmInv'
    BY <1>1, <1>5, <1>6, <1>7, <1>8
       DEF IInv, ThreadsInv, CalmInv, StoredTogether
<1> QED BY <1>4, <1>8, <1>9, OnlyVerify

LEMMA VerifyIInv ==
    ASSUME IInv, VerifyStep
    PROVE  IInv'
<1>1. CASE ReadFileTag
    BY <1>1, ReadFileTagIInv
<1>2. CASE FileTagUnusable
    BY <1>2, CalmTagWhole, EndVerifyIInv DEF FileTagUnusable
<1>3. CASE FileTagKills
    <2>1. process = "running"
        BY <1>3 DEF FileTagKills, IInv, TypeOK, ThreadsInv
    <2>2. CASE Die("assertion") /\ store["file tag"].part = "partial"
        <3>1. ~verify.calm
            BY <1>3, <2>2, CalmTagWhole DEF FileTagKills
        <3> QED BY <2>1, <2>2, <3>1, DieIInv
    <2>3. CASE /\ Die("division")
               /\ store["file tag"].part # "whole" \/ FileTagOfEmpty
        <3>1. verify.calm => EmptyStored
            BY <1>3, <2>3, CalmTagWhole, CalmTagStored
               DEF FileTagKills, FileTagOfEmpty, EmptyStored
        <3> QED BY <2>1, <2>3, <3>1, DieIInv
    <2> QED BY <1>3, <2>2, <2>3 DEF FileTagKills
<1>4. CASE OpenStored
    BY <1>4, OpenStoredIInv
<1>5. CASE OpenStoredFails
    <2>1. ~verify.calm
        BY <1>5, CalmFits DEF OpenStoredFails
    <2> QED BY <1>5, <2>1, EndVerifyIInv DEF OpenStoredFails
<1>6. CASE FetchItem
    BY <1>6, FetchItemIInv
<1>7. CASE Verdict
    <2>1. verify.stage = "fetching" /\ (verify.calm => verify.good)
        BY <1>7 DEF Verdict, IInv, CalmInv
    <2>2. CASE verify.good
        BY <1>7, <2>1, <2>2, EndVerifyIInv DEF Verdict
    <2>3. CASE ~verify.good
        BY <1>7, <2>1, <2>3, EndVerifyIInv DEF Verdict
    <2> QED BY <2>2, <2>3
<1> QED BY <1>1, <1>2, <1>3, <1>4, <1>5, <1>6, <1>7 DEF VerifyStep

-----------------------------------------------------------------------------
(* All steps                                                               *)

LEMMA StoringIInv ==
    ASSUME IInv, NEW o \in Objects, StoringStep(o)
    PROVE  IInv'
<1>1. CASE StoreFails(o)
    <2>1. process = "running"
        BY <1>1 DEF StoreFails, IInv, TypeOK, ThreadsInv
    <2> QED BY <1>1, <2>1, DieIInv DEF StoreFails
<1>2. CASE OpenObject(o)
    BY <1>2, OpenObjectIInv
<1>3. CASE WriteSome(o) \/ WriteRest(o) \/ WriteLost(o)
    BY <1>3, WriteIInv
<1> QED BY <1>1, <1>2, <1>3 DEF StoringStep

LEMMA StutterIInv ==
    ASSUME IInv, UNCHANGED vars
    PROVE  IInv'
<1> USE DEF vars
<1>1. Newest' = Newest
    BY DEF Newest
<1>2. TypeOK'
    <2>1. verify' \in VerifyType
        BY DEF IInv, TypeOK, VerifyType
    <2> QED BY <1>1, <2>1 DEF IInv, TypeOK, VerifyType, Object
<1>3. ThreadsInv' /\ \A o \in Objects : ObjectInv(o)'
    BY <1>1 DEF IInv, ThreadsInv, ObjectInv
<1>4. ReportInv'
    BY <1>1 DEF IInv, ReportInv, SuccessMeansStored, ErrorMeansUntouched,
        StoredTogether
<1>5. CalmInv'
    BY CalmUnchanged DEF IInv
<1> QED BY <1>2, <1>3, <1>4, <1>5 DEF IInv

LEMMA NextIInv ==
    ASSUME IInv, [Next]_vars
    PROVE  IInv'
<1>1. CASE BeginUpload
    BY <1>1, BeginUploadIInv
<1>2. CASE UploadStep
    <2>1. CASE OpenSourceFails
        <3>1. process = "running"
            BY <2>1 DEF OpenSourceFails, IInv, TypeOK, ThreadsInv
        <3> QED BY <2>1, <3>1, DieIInv DEF OpenSourceFails
    <2> QED BY <1>2, <2>1, WorkerIInv DEF UploadStep, WorkerStep
<1>3. CASE \E o \in Objects : StoringStep(o)
    BY <1>3, StoringIInv
<1>4. CASE BeginVerify
    BY <1>4, BeginVerifyIInv
<1>5. CASE RefuseVerify
    BY <1>5, RefuseVerifyIInv
<1>6. CASE VerifyStep
    BY <1>6, VerifyIInv
<1>7. CASE Crash
    BY <1>7, DieIInv DEF Crash
<1>8. CASE Restart
    BY <1>8, RestartIInv
<1>9. CASE UNCHANGED vars
    BY <1>9, StutterIInv
<1> QED BY <1>1, <1>2, <1>3, <1>4, <1>5, <1>6, <1>7, <1>8, <1>9 DEF Next

\* The strengthened invariant holds in every state.
THEOREM Inductive == Spec => []IInv
<1>1. Init => IInv
    BY InitIInv
<1>2. IInv /\ [Next]_vars => IInv'
    BY NextIInv
<1> QED BY <1>1, <1>2, PTL DEF Spec

\* Every variable has its type, for any number of uploads and items.
THEOREM TypeCorrect == Spec => []TypeOK
<1>1. IInv => TypeOK
    BY DEF IInv
<1> QED BY <1>1, Inductive, PTL

\* An upload that Execute() in app/cc/upload reports as done has stored its
\* three objects, and the store keeps them until the next upload begins.
THEOREM SuccessIsStored == Spec => []SuccessMeansStored
<1>1. IInv => SuccessMeansStored
    BY DEF IInv, ReportInv
<1> QED BY <1>1, Inductive, PTL

\* An upload that Execute() reports as failed has not touched the store, except
\* when it is the list of recent files that could not be read.
THEOREM ErrorLeavesStore == Spec => []ErrorMeansUntouched
<1>1. IInv => ErrorMeansUntouched
    BY DEF IInv, ReportInv
<1> QED BY <1>1, Inductive, PTL

\* A verification during which the store does not change finds a stored upload
\* intact, whatever Contents, EmptyContents and the challenge are; it ends the
\* process only by the division, and then what is stored is an empty file.
THEOREM CalmVerifies == Spec => []CalmVerifyIntact
<1>1. IInv => CalmVerifyIntact
    BY DEF IInv, CalmInv, CalmVerifyIntact
<1> QED BY <1>1, Inductive, PTL

-----------------------------------------------------------------------------
(* The three objects implement the register                                *)

\* An object that is not whole, or not of the newest upload, decides what can be
\* verified.
LEMMA NotWhole ==
    ASSUME NEW o \in Objects, store[o].part # "whole"
    PROVE  ~Auditable /\ AuditableUpload = 0
<1>1. \A v : ~StoredTogether(v)
    BY WholeObject DEF StoredTogether
<1> QED BY <1>1 DEF Auditable, AuditableUpload

LEMMA IsOfObject ==
    ASSUME NEW o \in Objects, Auditable
    PROVE  AuditableUpload = store[o].upload /\ AuditableUpload \in 1 .. Newest
<1>1. PICK v \in 1 .. Newest : StoredTogether(v)
    BY DEF Auditable
<1>2. store[o].upload = v
    BY <1>1, WholeObject DEF StoredTogether
<1> QED BY <1>1, <1>2, AuditableIsStored

LEMMA SameUpload ==
    ASSUME UNCHANGED <<store, contents>>
    PROVE  UNCHANGED <<Newest, AuditableUpload>>
BY DEF AuditableUpload, Auditable, StoredTogether, Newest

LEMMA BeginsRegister ==
    ASSUME IInv, BeginUpload
    PROVE  Register!Begin
<1>1. Newest \in Nat /\ Newest' = Newest + 1
    <2>1. PICK c \in Contents : contents' = Append(contents, c)
        BY DEF BeginUpload
    <2>2. contents \in Seq(Contents) /\ Newest \in Nat
        BY Types DEF IInv
    <2>3. Len(contents') = Len(contents) + 1
        BY <2>1, <2>2
    <2> QED BY <2>2, <2>3 DEF Newest
<1>2. \A v : StoredTogether(v)' <=> StoredTogether(v)
    BY DEF BeginUpload, StoredTogether
<1>3. \A v \in 1 .. Newest' : StoredTogether(v) => v \in 1 .. Newest
    <2> SUFFICES ASSUME NEW v \in 1 .. Newest', StoredTogether(v)
                 PROVE  v \in 1 .. Newest
        OBVIOUS
    <2>1. store["file"].upload = v /\ store["file"].upload <= Newest
        BY WholeObject DEF StoredTogether, Objects, IInv, ObjectInv
    <2> QED BY <1>1, <2>1
<1>4. \A v \in 1 .. Newest : v \in 1 .. Newest'
    BY <1>1
<1>5. Auditable' <=> Auditable
    BY <1>2, <1>3, <1>4 DEF Auditable
<1>6. AuditableUpload' = AuditableUpload
    <2>1. CASE Auditable
        <3>1. PICK v \in 1 .. Newest : StoredTogether(v)
            BY <2>1 DEF Auditable
        <3>2. v \in 1 .. Newest' /\ StoredTogether(v)'
            BY <1>2, <1>4, <3>1
        <3>3. AuditableUpload = v
            BY <3>1, AuditableIsStored
        <3>4. \A w \in 1 .. Newest' : StoredTogether(w)' => w = v
            BY <1>2, <1>3, <3>3, AuditableIsStored
        <3>5. AuditableUpload' = v
            BY <1>5, <2>1, <3>2, <3>4 DEF AuditableUpload
        <3> QED BY <3>3, <3>5
    <2>2. CASE ~Auditable
        BY <1>5, <2>2 DEF AuditableUpload
    <2> QED BY <2>1, <2>2
<1> QED BY <1>1, <1>6 DEF Register!Begin

\* Opening an object destroys what could be verified, which is older.
LEMMA OpenDestroys ==
    ASSUME IInv, NEW o \in Objects, OpenObject(o)
    PROVE  Register!Destroy
<1>1. /\ store \in [Objects -> Object] /\ Newest \in Nat
      /\ store[o].upload \in Nat /\ store[o].upload < Newest
    BY Types DEF IInv, ObjectInv, OpenObject
<1>2. Newest' = Newest
    BY DEF OpenObject, Newest
<1>3. AuditableUpload # Newest
    <2>1. CASE Auditable
        BY <1>1, <2>1, IsOfObject
    <2>2. CASE ~Auditable
        BY <1>1, <2>2 DEF AuditableUpload
    <2> QED BY <2>1, <2>2
<1>4. store'[o] = [upload |-> Newest, part |-> "empty"]
    BY <1>1 DEF OpenObject
<1>5. store'[o].part # "whole"
    BY <1>4
<1>6. AuditableUpload' = 0
    <2>1. \A v : ~StoredTogether(v)'
        BY <1>5, WholeObject DEF StoredTogether
    <2> QED BY <2>1 DEF Auditable, AuditableUpload
<1> QED BY <1>2, <1>3, <1>6 DEF Register!Destroy

\* A write ends with the newest upload in place, or changes nothing for the
\* auditor.
LEMMA WriteCompletes ==
    ASSUME IInv, NEW o \in Objects, WriteSome(o) \/ WriteRest(o)
    PROVE  Register!Complete \/ UNCHANGED <<Newest, AuditableUpload>>
<1>1. store \in [Objects -> Object] /\ Newest \in Nat
    BY Types DEF IInv
<1>2. Newest' = Newest
    BY DEF WriteSome, WriteRest, Newest
<1>3. store[o].upload = Newest /\ store[o].part # "whole"
    BY DEF IInv, ObjectInv, WriteSome, WriteRest
<1>4. AuditableUpload = 0
    BY <1>3, NotWhole
<1>5. store'[o].upload = Newest
    BY <1>1, <1>3 DEF WriteSome, WriteRest, Object
<1>6. CASE Auditable'
    <2>1. PICK v \in 1 .. Newest' : StoredTogether(v)'
        BY <1>6 DEF Auditable
    <2>2. v = Newest
        BY <1>5, <2>1, WholeObject DEF StoredTogether
    <2>3. \A w \in 1 .. Newest' : StoredTogether(w)' => w = v
        BY <1>5, <2>2, WholeObject DEF StoredTogether
    <2>4. AuditableUpload' = Newest
        BY <1>6, <2>1, <2>2, <2>3 DEF AuditableUpload
    <2>5. Newest > 0
        BY <1>1, <1>2, <2>1
    <2> QED BY <1>2, <1>4, <2>4, <2>5 DEF Register!Complete
<1>7. CASE ~Auditable'
    BY <1>2, <1>4, <1>7 DEF AuditableUpload
<1> QED BY <1>6, <1>7

LEMMA StepIsRegister ==
    ASSUME IInv, [Next]_vars
    PROVE  [Register!Next]_(Register!registerVars)
<1> USE DEF Register!registerVars
<1>1. CASE BeginUpload
    BY <1>1, BeginsRegister DEF Register!Next
<1>2. CASE \E o \in Objects : OpenObject(o)
    BY <1>2, OpenDestroys DEF Register!Next
<1>3. CASE \E o \in Objects : WriteSome(o) \/ WriteRest(o)
    BY <1>3, WriteCompletes DEF Register!Next
<1>4. CASE UNCHANGED <<store, contents>>
    BY <1>4, SameUpload
<1>5. \/ BeginUpload
      \/ \E o \in Objects : OpenObject(o) \/ WriteSome(o) \/ WriteRest(o)
      \/ UNCHANGED <<store, contents>>
    BY DEF Next, UploadStep, StoringStep, VerifyStep, OpenSource,
        OpenSourceFails, Prepare, PrepareFails, Join, TruncateRecent,
        RecentUnreadable, RewriteRecent, StoreFails, WriteLost, BeginVerify,
        RefuseVerify,
        ReadFileTag, FileTagUnusable, FileTagKills, OpenStored, OpenStoredFails,
        FetchItem, Verdict, EndVerify, Crash, Restart, Die, vars
<1> QED BY <1>1, <1>2, <1>3, <1>4, <1>5

\* The objects behind one name are the register of AuditRegister: an upload
\* that can be verified is replaced by the newest one or by none.
THEOREM StoreIsRegister == Spec => IsRegister
<1>1. Init => Register!Init
    <2> SUFFICES ASSUME Init PROVE Register!Init
        OBVIOUS
    <2>1. Newest = 0
        BY DEF Init, Newest
    <2>2. ~Auditable
        BY <2>1 DEF Auditable
    <2> QED BY <2>1, <2>2 DEF AuditableUpload, Register!Init
<1>2. IInv /\ [Next]_vars => [Register!Next]_(Register!registerVars)
    BY StepIsRegister
<1> QED BY <1>1, <1>2, Inductive, PTL DEF Spec, IsRegister, Register!Spec

=============================================================================
