---------------------------- MODULE AuditedStore ----------------------------
(***************************************************************************)
(* app/cc/upload, app/cc/verify and app/cc/recent_files over               *)
(* upload::Storage and the local disk: the three objects stored under one  *)
(* file name, overwritten by one upload after the other, while a           *)
(* verification may read them and the process may end between any two      *)
(* steps.  The objects and the list of recent files are on disk and        *)
(* outlive the process.                                                    *)
(*                                                                         *)
(* An upload is known by its number and by its content; its alphas and its *)
(* PRF key are new, so that its tags and its FileTag fit only each other.  *)
(* UploadPipeline is about what it computes, this module about what        *)
(* becomes of it.                                                          *)
(***************************************************************************)
EXTENDS Integers, Sequences

CONSTANTS
    Contents,       \* contents of the files uploaded under the name
    EmptyContents,  \* those of no bytes, which compress to none: no blocks
    MaxUploads,     \* bound: uploads of the name
    MaxItems        \* bound: items of a challenge

ASSUME EmptyContentsAssumption == EmptyContents \subseteq Contents
ASSUME MaxUploadsAssumption == MaxUploads \in Nat
ASSUME MaxItemsAssumption == MaxItems \in Nat

VARIABLES
    process,        \* is the application running
    killed_by,      \* what ended it, when it is not
    contents,       \* the content of each upload begun so far
    upload,         \* stage of the UploadWorker, or "idle"
    storing,        \* the three storing threads
    store,          \* the stored objects
    recent,         \* recent_files.json; "torn" when it holds no JSON
    report,         \* what the last upload was reported as
    verify,         \* the VerifyWorker
    store_before,   \* history: the store when the upload began
    lost            \* history: a write of this upload did not reach the disk

vars == <<process, killed_by, contents, upload, storing, store, recent, report,
          verify, store_before, lost>>

Objects == {"file", "block tags", "file tag"}
Parts == {"absent", "empty", "partial", "whole"}

Newest == Len(contents)

\* Upload v can be verified: its three objects are there, whole.
StoredTogether(v) ==
    \A o \in Objects : store[o] = [upload |-> v, part |-> "whole"]

Auditable == \E v \in 1 .. Newest : StoredTogether(v)

\* Object o of the newest upload has bytes to write: an empty file has neither
\* blocks nor tags, but it has a FileTag.
HasBytes(o) == o = "file tag" \/ contents[Newest] \notin EmptyContents

NotStoring == [o \in Objects |-> "none"]
NotVerifying == [stage |-> "idle", tag |-> 0, items |-> 0, good |-> TRUE,
                 calm |-> FALSE, result |-> "none"]

\* History: the verification that is running has seen the store change.
Disturb == verify' = [verify EXCEPT !.calm = FALSE]

Init ==
    /\ process = "running"
    /\ killed_by = "nothing"
    /\ contents = <<>>
    /\ upload = "idle"
    /\ storing = NotStoring
    /\ store = [o \in Objects |-> [upload |-> 0, part |-> "absent"]]
    /\ recent = "absent"
    /\ report = "none"
    /\ verify = NotVerifying
    /\ store_before = store
    /\ lost = FALSE

\* The process ends, and with it every thread.
Die(cause) ==
    /\ process' = "dead"
    /\ killed_by' = cause
    /\ upload' = "idle"
    /\ storing' = NotStoring
    /\ verify' = [NotVerifying EXCEPT !.calm = verify.calm]
    /\ UNCHANGED <<contents, store, recent, report, store_before, lost>>

-----------------------------------------------------------------------------
(* UploadWorker::Execute()                                                 *)

BeginUpload ==
    /\ process = "running"
    /\ upload = "idle"
    /\ Newest < MaxUploads
    /\ \E c \in Contents : contents' = Append(contents, c)
    /\ upload' = "opening"
    /\ report' = "none"
    /\ store_before' = store
    /\ lost' = FALSE
    /\ UNCHANGED <<process, killed_by, storing, store, recent, verify>>

OpenSource ==
    /\ upload = "opening"
    /\ upload' = "preparing"
    /\ UNCHANGED <<process, killed_by, contents, storing, store, recent, report,
                   verify, store_before, lost>>

\* The File is constructed before the try block: its exception is not caught.
OpenSourceFails == upload = "opening" /\ Die("source exception")

\* Compress, tag and serialize; then the three threads start.
Prepare ==
    /\ upload = "preparing"
    /\ upload' = "storing"
    /\ storing' = [o \in Objects |-> "open"]
    /\ UNCHANGED <<process, killed_by, contents, store, recent, report, verify,
                   store_before, lost>>

\* An exception on the worker's own thread is caught and reported.
PrepareFails ==
    /\ upload = "preparing"
    /\ upload' = "idle"
    /\ report' = "error"
    /\ UNCHANGED <<process, killed_by, contents, storing, store, recent, verify,
                   store_before, lost>>

\* A fault: what is stored is what the first upload left in the temporary files.
OpenObjectOfFirst(o) ==
    /\ storing[o] = "open"
    /\ storing' = [storing EXCEPT ![o] = "write"]
    /\ store' = [store EXCEPT ![o] = [upload |-> 1, part |-> "empty"]]
    /\ Disturb
    /\ UNCHANGED <<process, killed_by, contents, upload, recent, report,
                   store_before, lost>>

\* FileStorage::StoreFile() of object o: opening it truncates it.
OpenObject(o) ==
    /\ storing[o] = "open"
    /\ storing' = [storing EXCEPT ![o] = "write"]
    /\ store' = [store EXCEPT ![o] = [upload |-> Newest, part |-> "empty"]]
    /\ Disturb
    /\ UNCHANGED <<process, killed_by, contents, upload, recent, report,
                   store_before, lost>>

\* A fault: the exception is reported, whatever has been overwritten by then.
StoreFailsReported(o) ==
    /\ storing[o] = "open"
    /\ storing' = NotStoring
    /\ upload' = "idle"
    /\ report' = "error"
    /\ UNCHANGED <<process, killed_by, contents, store, recent, verify,
                   store_before, lost>>

\* An exception that leaves the function of a std::thread ends the process.
StoreFails(o) == storing[o] = "open" /\ Die("storage exception")

WriteSome(o) ==
    /\ storing[o] = "write"
    /\ HasBytes(o)
    /\ store[o].part = "empty"
    /\ store' = [store EXCEPT ![o].part = "partial"]
    /\ Disturb
    /\ UNCHANGED <<process, killed_by, contents, upload, storing, recent, report,
                   store_before, lost>>

\* The thread returns.  An object without bytes was whole when it was opened; it
\* counts as whole from here on.
WriteRest(o) ==
    /\ storing[o] = "write"
    /\ storing' = [storing EXCEPT ![o] = "done"]
    /\ store' = [store EXCEPT ![o].part = "whole"]
    /\ Disturb
    /\ UNCHANGED <<process, killed_by, contents, upload, recent, report,
                   store_before, lost>>

\* out_file.write() fails, which nothing asks about.
WriteLost(o) ==
    /\ storing[o] = "write"
    /\ HasBytes(o)
    /\ storing' = [storing EXCEPT ![o] = "done"]
    /\ lost' = TRUE
    /\ UNCHANGED <<process, killed_by, contents, upload, store, recent, report,
                   verify, store_before>>

\* A fault: the thread that stores the FileTag is not joined.
JoinTwo ==
    /\ upload = "storing"
    /\ \A o \in Objects \ {"file tag"} : storing[o] = "done"
    /\ upload' = "recording"
    /\ storing' = NotStoring
    /\ UNCHANGED <<process, killed_by, contents, store, recent, report, verify,
                   store_before, lost>>

Join ==
    /\ upload = "storing"
    /\ \A o \in Objects : storing[o] = "done"
    /\ upload' = "recording"
    /\ storing' = NotStoring
    /\ UNCHANGED <<process, killed_by, contents, store, recent, report, verify,
                   store_before, lost>>

\* AddFile() reads the list, then truncates and rewrites its file.
TruncateRecent ==
    /\ upload = "recording"
    /\ recent # "torn"
    /\ recent' = "torn"
    /\ upload' = "rewriting"
    /\ UNCHANGED <<process, killed_by, contents, storing, store, report, verify,
                   store_before, lost>>

\* json::parse() throws, inside the try block of the upload.
RecentUnreadable ==
    /\ upload = "recording"
    /\ recent = "torn"
    /\ upload' = "idle"
    /\ report' = "error"
    /\ UNCHANGED <<process, killed_by, contents, storing, store, recent, verify,
                   store_before, lost>>

RewriteRecent ==
    /\ upload = "rewriting"
    /\ recent' = "list"
    /\ upload' = "idle"
    /\ report' = "success"
    /\ UNCHANGED <<process, killed_by, contents, storing, store, verify,
                   store_before, lost>>

-----------------------------------------------------------------------------
(* VerifyWorker::Execute(), with a local Fetcher                           *)

BeginVerify ==
    /\ process = "running"
    /\ verify.stage = "idle"
    /\ verify' = [NotVerifying EXCEPT !.stage = "reading tag", !.calm = Auditable]
    /\ UNCHANGED <<process, killed_by, contents, upload, storing, store, recent,
                   report, store_before, lost>>

\* The settings cannot be read, or their percentage is not one: DoVerify() throws
\* before it looks at the store.
RefuseVerify ==
    /\ process = "running"
    /\ verify.stage = "idle"
    /\ verify' = [NotVerifying EXCEPT !.result = "error"]
    /\ UNCHANGED <<process, killed_by, contents, upload, storing, store, recent,
                   report, store_before, lost>>

EndVerify(result) ==
    /\ verify' = [NotVerifying EXCEPT !.calm = verify.calm, !.result = result]
    /\ UNCHANGED <<process, killed_by, contents, upload, storing, store, recent,
                   report, store_before, lost>>

\* The FileTag stored is that of an empty file, as far as it was written.
FileTagOfEmpty ==
    /\ store["file tag"].part \in {"partial", "whole"}
    /\ contents[store["file tag"].upload] \in EmptyContents

\* A fault: the FileTag is that of the upload this process began last.
ReadCachedFileTag ==
    /\ verify.stage = "reading tag"
    /\ store["file tag"].part = "whole"
    /\ ~FileTagOfEmpty
    /\ verify' = [verify EXCEPT !.stage = "opening", !.tag = Newest]
    /\ UNCHANGED <<process, killed_by, contents, upload, storing, store, recent,
                   report, store_before, lost>>

\* GetFileTag() has the whole FileTag of a file that has blocks.
ReadFileTag ==
    /\ verify.stage = "reading tag"
    /\ store["file tag"].part = "whole"
    /\ ~FileTagOfEmpty
    /\ verify' = [verify EXCEPT !.stage = "opening",
                                !.tag = store["file tag"].upload]
    /\ UNCHANGED <<process, killed_by, contents, upload, storing, store, recent,
                   report, store_before, lost>>

\* No such object, or a part of one: the failed parse is ignored, but a block
\* that the map lacks, or the missing PRF key, throws.
FileTagUnusable ==
    /\ verify.stage = "reading tag"
    /\ \/ store["file tag"].part = "absent"
       \/ store["file tag"].part = "partial" /\ ~FileTagOfEmpty
    /\ EndVerify("error")

\* rand() is divided by zero when the FileTag says that there are no blocks, or
\* ends before it says how many.  One that ends behind the map's indexes lacks
\* max_size, and a tag exceeds the buffer.
FileTagKills ==
    /\ verify.stage = "reading tag"
    /\ \/ /\ store["file tag"].part \in {"empty", "partial"} \/ FileTagOfEmpty
          /\ Die("division")
       \/ /\ store["file tag"].part = "partial" /\ ~FileTagOfEmpty
          /\ Die("assertion")

\* Fetcher::Setup() opens both files, for the rest of the challenge.
OpenStored ==
    /\ verify.stage = "opening"
    /\ \A o \in {"file", "block tags"} : store[o].part # "absent"
    /\ verify' = [verify EXCEPT !.stage = "fetching"]
    /\ UNCHANGED <<process, killed_by, contents, upload, storing, store, recent,
                   report, store_before, lost>>

OpenStoredFails ==
    /\ verify.stage = "opening"
    /\ \E o \in {"file", "block tags"} : store[o].part = "absent"
    /\ EndVerify("error")

\* Object o is, as far as it goes, what the FileTag was made for.
Fits(o) ==
    /\ store[o].part \in {"partial", "whole"}
    /\ IF o = "file"
       THEN contents[store[o].upload] = contents[verify.tag]
       ELSE store[o].upload = verify.tag

\* A fault: the loop over the items does not end.
FetchPastEnd ==
    /\ verify.stage = "fetching"
    /\ verify' = [verify EXCEPT !.items = @ + 1]
    /\ UNCHANGED <<process, killed_by, contents, upload, storing, store, recent,
                   report, store_before, lost>>

\* FetchBlockTag() and FetchBlock() read the objects as they are now.  What is
\* asked for may or may not be in the part of an object that is there.
FetchItem ==
    /\ verify.stage = "fetching"
    /\ verify.items < MaxItems
    /\ \E found \in BOOLEAN :
           /\ found => Fits("file") /\ Fits("block tags")
           /\ ~found => \E o \in {"file", "block tags"} :
                            ~(Fits(o) /\ store[o].part = "whole")
           /\ verify' = [verify EXCEPT !.items = @ + 1, !.good = @ /\ found]
    /\ UNCHANGED <<process, killed_by, contents, upload, storing, store, recent,
                   report, store_before, lost>>

Verdict ==
    /\ verify.stage = "fetching"
    /\ verify.items = MaxItems
    /\ EndVerify(IF verify.good THEN "intact" ELSE "corrupted")

-----------------------------------------------------------------------------
Crash == process = "running" /\ Die("crash")

Restart ==
    /\ process = "dead"
    /\ process' = "running"
    /\ killed_by' = "nothing"
    /\ report' = "none"
    /\ verify' = NotVerifying
    /\ store_before' = store
    /\ lost' = FALSE
    /\ UNCHANGED <<contents, upload, storing, store, recent>>

UploadStep ==
    \/ OpenSource \/ OpenSourceFails \/ Prepare \/ PrepareFails
    \/ Join \/ TruncateRecent \/ RecentUnreadable \/ RewriteRecent

StoringStep(o) ==
    OpenObject(o) \/ StoreFails(o) \/ WriteSome(o) \/ WriteRest(o) \/ WriteLost(o)

VerifyStep ==
    \/ ReadFileTag \/ FileTagUnusable \/ FileTagKills
    \/ OpenStored \/ OpenStoredFails \/ FetchItem \/ Verdict

Next ==
    \/ BeginUpload \/ UploadStep \/ \E o \in Objects : StoringStep(o)
    \/ BeginVerify \/ RefuseVerify \/ VerifyStep
    \/ Crash \/ Restart

Spec == Init /\ [][Next]_vars

-----------------------------------------------------------------------------
Object == [upload : 0 .. MaxUploads, part : Parts]

\* The variables have their types.
TypeOK ==
    /\ process \in {"running", "dead"}
    /\ killed_by \in {"nothing", "crash", "source exception",
                      "storage exception", "division", "assertion"}
    /\ contents \in Seq(Contents) /\ Newest <= MaxUploads
    /\ upload \in {"idle", "opening", "preparing", "storing", "recording",
                   "rewriting"}
    /\ storing \in [Objects -> {"none", "open", "write", "done"}]
    /\ store \in [Objects -> Object]
    /\ recent \in {"absent", "torn", "list"}
    /\ report \in {"none", "success", "error"}
    /\ verify \in [stage : {"idle", "reading tag", "opening", "fetching"},
                   tag : 0 .. MaxUploads, items : 0 .. MaxItems,
                   good : BOOLEAN, calm : BOOLEAN,
                   result : {"none", "intact", "corrupted", "error"}]
    /\ store_before \in [Objects -> Object]
    /\ lost \in BOOLEAN

\* "successfully uploaded": the three objects are those of this upload, whole,
\* until the next upload begins, if its writes reached the disk.
SuccessMeansStored == report = "success" /\ ~lost => StoredTogether(Newest)

\* "Failed to upload": the store is as it was before, and what could be verified
\* under the name still can, unless it is the list of recent files that failed.
ErrorMeansUntouched ==
    report = "error" /\ recent # "torn" => store = store_before

\* The upload that can be verified, or 0.
AuditableUpload ==
    IF Auditable THEN CHOOSE v \in 1 .. Newest : StoredTogether(v) ELSE 0

\* What can be verified is an upload of an empty file.
EmptyStored == Auditable /\ contents[AuditableUpload] \in EmptyContents

\* A verification of a stored upload that is not overwritten meanwhile, with
\* settings that can be read and a percentage in them, ends with the verdict that
\* the file is intact.  It meets no error and not the assertion, and the division
\* by zero only if what is stored is an empty file.
CalmVerifyIntact ==
    /\ verify.calm /\ verify.result # "none" => verify.result = "intact"
    /\ killed_by = "assertion" => ~verify.calm
    /\ killed_by = "division" /\ verify.calm => EmptyStored

\* To an auditor the three objects are one register: they go from one upload
\* that can be verified to none and then to the newest, and never back,
\* whatever the threads, the failures and the restarts do.
Register ==
    INSTANCE AuditRegister WITH newest <- Newest, auditable <- AuditableUpload
IsRegister == Register!Spec

\* "catch (std::exception& e) ... SetErrorMessage": an upload whose storing
\* fails is reported as failed.
StoringFailureReported == killed_by # "storage exception"

=============================================================================
