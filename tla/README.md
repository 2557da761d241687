# data-audit in TLA+

This directory specifies data-audit, a program that uploads a file to a store
nobody has to trust and later checks, by a short proof, that the store still
has it. A file is cut into blocks and the blocks into sectors; the client
computes one *tag* per block over its sectors, keeps the file, the tags and a
*file tag* (keys and the places of the tags) in the store, and verifies the
file by challenging a few blocks: a *prover* adds up the weighted sectors and
the weighted tags and the client compares the two sums.

The modules are checked with TLC on small instances, and the most important
invariants are proved with TLAPS for every instance. Paths below are relative
to `src/`.

## 1. The system

| component | code | state it keeps | operations |
|---|---|---|---|
| Block tagger | `client/upload/block_tagger`, `file` | stream position, read buffer with `start_`/`end_`, `num_blocks_read_`, `file_read_` | `HasNext`, `GetNext` (with `FillBuffer`, `GenerateTag`) |
| Tag serializer and tag map | `client/upload/block_tag_serializer`, `server/block_tag_map` | temporary file, buffered tags and their size, `file_end_`, the growing `BlockTagMap` | `Add`, `Flush`, `Done`; `FindBlockTag` |
| Upload client | `client/upload/client`, `storage` | the above, three storing threads | `Upload` |
| Challenge construction | `client/verify/client` | none between calls; in a batch the weights given so far | `Verify`, `BatchVerify`, `GenerateIndexes` |
| Prover, verification | `server/prover`, `server/fetcher`, `client/verify/verify_file`, `client/prf` | `sigma_sum_`, `mus_`, streams of the fetcher | `GetProof`, `BatchGetProof`, `ProcessChallenge`, `Prove`, `VerifyFile` |
| Local disk provider | `providers/local_disk` | three objects per file name, on disk | `StoreFile`, `Setup`, `FetchBlock`, `FetchBlockTag`, `GetFileTag`, `GetFiles` |
| Dropbox provider | `providers/dropbox` | remote objects, local copies, token file | the same, `GetToken` |
| Azure provider and server | `providers/azure`, `server` | the server's directory of objects | HTTP requests and handlers |
| Workers, recent files | `app/cc/upload.h`, `verify.h`, `recent_files.h` | what is reported; `recent_files.json` | `UploadWorker`, `VerifyWorker`, `AddFile`, `GetFiles` |
| Settings | `settings.h`, `app/cc/settings.h` | `settings.json` | constructor reads, destructor rewrites |
| File browser | `files`, `app/cc/file_browser.h` | a list fetched once | fetch, fetch anew, filter by prefix |
| Progress bar | `client/upload/progress_bar.h` | a counter behind a mutex | `Progress` |
| Shell | `app/*.js`, `app/cc/module.cc`, `provider.h`, `login.h` | the window | the bindings |

How they interact. `Client::Upload()` runs on a worker thread of the
application: it drives tagger and serializer in one loop, then starts three
threads, one per object, and joins them. The third thread stores the very
stream the tagger has read, the first the serializer's temporary file. Afterwards
the worker adds the file to the recent files. A verification runs on another
worker: it gets the file tag, builds the challenge, and in the local provider
runs the prover itself, whose fetcher opens the objects while uploads may be
overwriting them. All on-disk state (objects, recent files, settings, token)
outlives the process and is rewritten in place.

What is hard about it:

- *ordering and sharing of one stream*: the tagger must leave the stream where
  the storing thread expects it, and notices the end of the file only by a read
  that comes back short;
- *buffer limits*: sectors that straddle the buffer, a last block that ends
  anywhere, a tag larger than the flush limit;
- *integers*: an `int` product that overflows, quotients that round, divisors
  that become zero, `unsigned` differences;
- *failed streams*: `failbit` survives `seekg()`, writes are never asked
  whether they succeeded;
- *concurrency and crashes over files rewritten in place*: three objects
  overwritten in no order while being read; a list truncated and not rewritten;
- *handlers that outlive their client*: the server answers before it has
  written, answers 200 whatever happened, and notices a dead client late;
- *paths shared by name*: two verifications of one file download it to the same
  local copies and remove them at their ends; two uploads of files with one base
  name compress into the same temporary file and keep their tags in the same;
- *exceptions on the wrong thread*: in a storing thread they end the process, in
  a handler of the server they end the server.

What makes each part correct: the tagger puts each byte of the file into one
sector of one tag and ends; the serializer's map locates every tag; an upload
stores objects that fit together, fills the progress bar and returns, and others
beside it do not spoil it; a challenge names blocks of the file in increasing
order and as many as asked; the verdict on a proof is right for every intact file
and wrong for no single change, whatever else is in the batch; to an auditor the three
objects behave like one register; what is reported to the user is so; what the
application keeps for its next start is lost by nothing but an end of the
process in the middle of rewriting it.
`PROJECT.json` lists under `hazards` each place where one of these can fail.

## 2. The modules

| module | models | composes |
|---|---|---|
| `BlockTagger` | the reading loop of the tagger | |
| `BlockTagSerializer` | temporary file and tag map | |
| `UploadPipeline` | `Upload()` with its three threads and the progress bar | both of the above |
| `ChallengeIndexes` | `GenerateIndexes()` and the guards of its callers | |
| `CompactProof` | tag sums, challenges of a batch, prover, fetcher, verdicts | |
| `AuditRegister` | abstract: what the store promises an auditor | |
| `AuditedStore` | upload and verify workers over the local disk, with failures, crashes, restarts | implements `AuditRegister` |
| `RemoteStore` | upload and verification over HTTP, the server's handlers and its end | |
| `DropboxCopies` | verifications that share the local copies of one file | |
| `DropboxUploads` | uploads that share temporary files and objects on Dropbox, and the list of files | |
| `ApplicationState` | settings, list of recent files and token, rewritten in place by the main thread and upload workers | |
| `*Proofs` | theorems about the module they extend | |
| `MC*` | the constants TLC uses | |

Definitions commented "A fault" are mistaken variants of the definition that
follows them. No specification uses them; replacing a definition by its faulty
variant must make a property fail, which shows that the property is about the
code and not about the shape of the model.

### BlockTagger
A byte of the file is its offset. `buffer`, `start`, `end`, `num_blocks_read`,
`file_read` are the members of the class; `position` is the read pointer of the
stream, kept because the code that stores the file reads on from it. `GetNext()`
is `BeginTag`, one step per turn of the loop in `GenerateTag()`
(`SumBufferedSector`, or `FillAndSumSector` when `FillBuffer()` has to run), and
`EndTag`, at the bound of the loop or at its break. The field arithmetic is left
to `CompactProof`; what is kept is which bytes enter which sector.

### BlockTagSerializer
`Add` appends a tag, flushing first when the limit would be exceeded; `Done`
flushes and closes. `Write` may fail part of the way and then for good, as an
`ofstream` does, and the map grows on. `FindBlockTag` is the server's lookup.
Byte `k` of tag `i` is the pair `<<i, k>>`, so that a byte found in a wrong
place is recognised.

### UploadPipeline
`Tag`, `AddTag` are the loop of `Upload()`, `StartThreads` is `Done()` and the
three `std::thread`s, then each copies its object in chunks and `Return` is the
joins and the destructor of the serializer, which removes its file.
`StoreFileChunk` advances `BlockTagger`'s `position`: it is the same stream.
`current_value` is the counter of the `ProgressBar`, whose mutex makes every call
of `Progress` one step: the serializer counts the tags it flushes, and each chunk
that is stored counts again, against the `TotalSize` that was estimated at the
beginning.

### ChallengeIndexes
`Begin` computes how many blocks are checked and the stretch each is drawn from,
`Draw` is one turn of the loop, `Trap` the division by zero, `Refuse` the
exception for a percentage outside 0..100, which `BatchVerify()` does not throw.
`Wrapped` gives `int` its width. The conversion of the quotient to `double` and
back is exact below 2^53 and modelled as truncation.

### CompactProof
`files` are the files of one `BatchVerify()`; `DoVerify()` is the batch of one.
`BuildChallenge` is a turn of the client's loop: the indexes of the next file,
and a weight for every place in a challenge that has none yet. The client's
weight of an item (`ItemWeight`) and the prover's (`ProverWeight`) are looked up
apart, as in the code. Then `BatchGetProof()` makes a prover per challenge, with
one `ProcessChallenge` step per item and a `Prove` that reduces the sums, and
`VerifyFile` compares, file by file. What the store has of each file is the
original, or altered, cut short or continued; the alphas, the PRF (an arbitrary
function of the index) and the weights range over small sets. Big numbers are
integers, `p` a small prime. `file_failed` is the `failbit` that a short read
leaves in the fetcher's stream; a new fetcher has a new stream.

### AuditedStore
`store` holds for each of the three objects whose upload it is of and how much
of it is there. An upload of one of `EmptyContents` has no bytes to write but
those of its file tag (`HasBytes`). `upload` is the stage of the `UploadWorker`:
open the source (outside the `try` block), compress, tag and serialize (inside),
three storing threads, join, `AddFile()` in two steps (truncate, rewrite).
`verify` is the `VerifyWorker`: refuse without a valid percentage
(`RefuseVerify`), read the file tag, open the objects, fetch item after item
from the objects *as they are then*. A file tag that says that there are no
blocks, torn or of an empty file, divides by zero before anything is opened
(`FileTagKills`). `Crash` may end the process between any two steps, `Die` also
models `std::terminate`, the division by zero and a failed assertion; `Restart`
begins again with what is on disk. `store_before`, `lost`, `verify.calm` are
history variables that the properties need. The module is about the local disk
provider; the application's provider is chosen in `app/cc/provider.h`.

### AuditRegister
`auditable` is the one upload that can be verified, or 0. Beginning an upload
does not change it, then it may be destroyed, and only the newest upload can
take its place: there is no going back to an old version and no mixture of two.

### RemoteStore
Each upload sends three requests, one per object; `handler[v][o]` is the
`StorageHandler` of upload `v` and object `o`, from the request on its way
(`"sent"`) through `onRequest` (`OnRequest`: opening truncates), `onBody`
(`OnBody`: the stream writes as much of its buffer as it likes, or fails for
good), `onEOM` (`OnEOM`: the answer, 200) to `requestComplete` or `onError`
(`Delete`: the destructor writes what is left). Handlers do not know whether the
application that sent the request still runs: `Crash` and `Restart` of the
application leave them alone. Two that have the same object open write into the
same file, each at its own position; a cell of an object is the number of the
upload that wrote it, 0 in a hole. `ServerCrash` and every exception in a
handler (`KillServer`, the handlers are `noexcept`) drop all handlers and what
they hold. The auditor is another application: `FileTagHandler` answers its
first request, `ProofHandler` its second. An upload of `EmptyUploads` consists
of its file tag only (`Size`), and its whole file tag kills the auditor
(`AnswerEmptyFileTag`). `ForeignAnswer` is an answer that is not the handler's,
whose status nobody looks at: in the place of a proof it is an empty one.
`remains` and `lost` are history variables: whether earlier uploads still had
handlers when this one began, and whether bytes of it were lost.

### DropboxCopies
`path` is the directory entry of each of the two copies, `content` what is in
each inode: an open stream keeps its inode when another verification removes the
path. `Save` is `open_ostream` after the answer has come; its mode is
`std::ios_base::binary` alone, which asks for no truncation, so that a copy that
is there is overwritten in place and only one that is not becomes a new, empty
file. `SavePiece` is one read of the body, `Saved` the end of the download,
`OpenSaved` opening the copy for reading; the second copy follows the first.
`FetchItem` reads a block and its tag. `Delete` is the destructor, one path at a
time, also on the way of an exception (`DownloadThrows`, `OpenSavedThrows`).
Dropbox's objects are intact and do not change, so that every answer but
"intact" is wrong or an error. `fate` and `left` are history: whether, between a
worker's opening of a copy for writing and for reading, another has removed it
and a download has put a new file there, and which copies an end of the
application left.

### DropboxUploads
`stage` is where the `Execute()` of each upload is: compressing piece by piece
(`Compress`, `WritePiece`), opening what it has compressed (`OpenCompressed`),
creating the file of the tags, tagging piece by piece with a buffer that is
flushed whenever the sizes of the tags want it (`TagPiece`), `Done` and the three
threads, the joins (`Return`), and the destructor of the serializer
(`DeleteTags`). `path` and `content` are a directory and its inodes as in
`DropboxCopies`. A cell is the number of the upload whose piece, or whose tag of
that very piece, it is; `Spoilt` is a hole that reads as zeros or a tag over
another's piece. `ReadPiece` reads the body of a request while it is sent,
`Sent` replaces the object when the body is there. A refused or broken request
throws in its thread and ends the application (`RequestThrows`), as does the
thread that finds no file of tags (`OpenTagsThrows`); what throws before the
threads start is reported. `Refresh` is the window fetching the list after either
report, in a binding that catches nothing (`RefreshThrows`). `left`, `missing`,
`overlapped` and `spoiled` are history: what a failure or an end has left, who
did not find a temporary file, who ran beside another, and whose files another
one could write while they were read. Tagging parameters, settings and recent
files are those of the other modules and do not appear.

### ApplicationState
`disk` says of `settings.json`, `recent_files.json` and `token.json` whether
they are absent, empty (truncated), whole or mixed (one writer's text over the
end of a longer one), and what the list holds. The main thread runs one call of
the window at a time: the login (`HasToLogin`, `ExchangeCodeForToken`,
`SaveToken`), the settings (`ShowSettings`, `ChangeSettings`, `SaveSettings`) and
the list (`ShowNoRecent`, `CreateRecent`, `SaveRecent`; showing a whole list
changes nothing). An upload worker reads the settings twice, `Execute()` for the
parameters and `StoreFileTag()` for the key, then runs `AddFile()`: read the
list or create it, truncate, write. Both reads of the settings are outside every
`try` block, as is everything on the main thread: a file that does not parse
ends the process there (`ReadSettingsThrows`, `SettingsThrow`,
`ShowRecentThrows`), and that end leaves the file as it is. `Crash` is any other
end. A file is so small that it is written by the one call that destroys the
stream. Not modelled: the settings a verification reads (it reports an error and
changes nothing), and a list that cannot be opened for writing.

## 3. The runs

| run | what is asked | states |
|---|---|---|
| `serializing` | up to 4 tags of 1, 3 or 5 bytes, limit 4, failing writes: does the map locate each tag | 2,384 |
| `pipeline` | files of 0..13 bytes, sectors of 2..5, blocks of 1..3 sectors, a buffer of 4, failing writes of the tags: what is each tag computed over, where is the stream left, is what is stored complete, does each block fit its tag, is the bar full, does the upload return | 814,711 |
| `pipeline_exact_fill` | sectors that divide the buffer: **violated**, see below | |
| `verification` | either a call: 0..7 blocks, 11 percentages, `int` of 10 bits, all draws; or a batch: two of one file and two of two, every alteration of up to two bits, every truncation, two extensions of each, every challenge | 584,765 |
| `indexes_tail` | **violated**, see below | |
| `audited_store` | two uploads of one name, each of an empty file or not, one verification at a time of two items, crashes and restarts: are the reports true, do the objects behave like one register | 1,265,984 |
| `storing_failure` | **violated**, see below | |
| `remote_store` | two uploads of one name to the server and then one of an empty file, an auditor, ends of application and server: what is a reported success worth, what does an undisturbed audit end in | 1,193,853 |
| `dropbox_copies` | three verifications of one file, refused and broken downloads, ends of the application: what does a wrong answer take, is a copy left | 1,650,256 |
| `dropbox_uploads` | two uploads of one base name at once, refused requests, ends of the application: what does it take to spoil an upload, what is left, is the list current | 1,005,375 |
| `dropbox_false_alarm` | **violated**, see below | |
| `application_state` | two uploads at once, five in all, of three files, a list of two, ends of the process: what is lost, and what does it take | 87,660 |

Why the bounds are enough. The tagger's behaviour depends on how sector, block,
buffer and file end fall relative to one another: with a buffer of four bytes
the sector sizes divide it, do not, equal it and exceed it, and thirteen bytes
reach past the third fill. The flush limit lies between the sizes of two tags,
so that tags are buffered together, force a flush, and exceed the limit alone.
An `int` of ten bits overflows from six blocks on, so both sides of the overflow
are met. In `verification` the two halves are independent: a call runs beside a
batch of no files, a batch beside a call that was refused. A sector can hold the
prime itself, so that a change the field does not see is met, and two changes
can cancel; of the files audited together now the first has more blocks and now
the second, so that weights are added by either. Two uploads are enough for a
mixture of two versions, and two items for a change between them; three threads,
crash and restart are unbounded in their interleaving. In `remote_store` two
uploads let the requests of the first arrive during and after the second; a body
is one piece, which is already before, in or behind the buffer, and the block
tags, which are written and read exactly like the file, are left out of the
instance (`Data = {"file"}`): the theorems hold for any `Data` and any number of
pieces. The upload of an empty file comes third and, by the constraint of the
run, when the others are over: what an audit makes of it depends on the stored
file tag alone. In `dropbox_copies` a third verification can begin while one of
two others downloads and the other deletes, a fourth when one of them has ended,
and two pieces are the least with which a copy can be torn. In `dropbox_uploads`
two uploads meet in every pair of their stages, and two pieces are the least
with which a file can be torn; the theorems hold for any number of both. In
`application_state` five uploads of three files fill the list of two, let an
entry fall out, come back and move to the front. `MaxTags`, `MaxUploads`,
`MaxItems` and `MaxVerifications` are the bounds that are not parameters of the
code. Symmetry is used in `dropbox_copies` (workers) and `application_state`
(workers, files), which check invariants only.

Fairness. `UploadPipeline` has weak fairness for each thread by itself and for the
main thread, as the operating system schedules threads that are not blocked; no
thread is given strong fairness. The tagger is a loop of the main thread that
never waits. The other modules state safety only and have no fairness.
`CHECK_DEADLOCK FALSE` is given where the modelled call returns; `AuditedStore`,
`RemoteStore`, `DropboxCopies`, `DropboxUploads` and `ApplicationState`, which can
always go on or be restarted, are checked for deadlock.

### What disagrees with the documentation
The runs expected to be violated check one sentence of the repository each:

- `pipeline_exact_fill`: `FillBuffer()` notices the end of the file by a short
  read only, so a file that ends exactly where buffer and block end leaves the
  stream at its end, and an empty object is stored ("Stores the given file",
  `client/upload/storage.h:89`). The sector size of the application, 96, does
  not divide its buffer of 4000; `StoredUnlessExactFill` in run `pipeline` shows
  that no other case is affected.
- `storing_failure`: an exception in a storing thread ends the application
  instead of being reported, as `app/cc/upload.h:72` means it to be.
- `indexes_tail`: stretches are rounded down, so that a tail of the file is never
  challenged ("Selected blocks should be equally distributed across the whole
  file", `client/verify/client.cc:24`). `OnlyTailOutOfReach` bounds its length.
- `dropbox_false_alarm`: verifications of one intact file share its local copy,
  which each opens once to write and once to read. In between another's destructor
  removes the copy and a further download makes a new, still empty file, which is
  then read: an intact file is reported as corrupted ("Verify returns true if the
  given file's integrity could be verified", `client/verify/client.h:23`). `AlarmNeedsRemoval` shows that it takes exactly that: writing into each
  other's copies, a copy an end of the application has left, and removals at any
  other moment do no harm. It is proved for any number of verifications.

Other properties that hold have a condition that marks where the code does not
do what one would wish, or less than a comment says. `TagsLocated`,
`FoundAfterDone`: once a write has failed, `Done()` returns and the temporary
file does not "contain all the added tags"
(`client/upload/block_tag_serializer.h:21`). `EnoughBlocks`: from 21,474,837
blocks on the `int` product wraps, and fewer blocks are checked than "this many
percentage" (`client/verify/client.h:26`). `KilledOnlyWithoutBlocks`,
`CalmVerifyIntact`, `CalmAuditIntact`: an empty file is uploaded and stored like
any other, and verifying it divides by zero and ends the application; no other
file that is stored whole does this. `CalmAuditIntact` further: the client of
the server looks neither at the status of an answer nor at whether it is a proof
(`// error`, `providers/azure/proof_source.cc:27`), so that an answer of anybody
else makes it report an intact file as corrupted. `ErrorMeansUntouched`: a torn
list of recent files makes complete uploads be reported as failed.
`SuccessMeansStored`, `StoredWhenOver`: a failed write is reported as a success,
and so is an upload to the server whose earlier attempt is still arriving.
`UnreadableNeedsRewriting`: a worker that reads the settings while they are
rewritten ends the process and thereby leaves them, with the key of every file
tag, torn. `RecentIsLatest`: uploads that end together lose entries of the list.
`OnlyWritersSpoil`, `MissingNeedsOverlap`: of two uploads of one base name the
later can spoil what the earlier stores, and the first to end removes what the
other is about to open. `TempFilesRemoved`: an upload that cannot create the
file of its tags leaves the compressed file behind. `BarFullWhenReturned`: the
bar can stop short when tags are shorter than a sector.

## 4. What is proved

Theorems hold for all values of the constants that satisfy the named `ASSUME`s
of the modules: sizes are natural numbers, sector sizes, sector counts, tag
sizes and the buffer are positive, `2^IntWidth` is a positive number, `p` is a
prime that divides no weight. Each proof has the same plan: an inductive
invariant `IInv`, one lemma per action, a lemma `NextIInv`, and theorem
`Inductive`.

- **`UploadPipelineProofs`**: of the tagger alone `TypeCorrect`, `WindowCorrect`,
  `TagsCorrect`; of the whole upload `UploadTypeCorrect`, `UploadWindow`,
  `UploadTags`, `FileIsStored`, `BlocksMatchTags`, `BarIsFull`. `TagsMatchFile`
  is not inductive: that the next sector read is the next sector of the file
  needs `BufferIsWindow` (the unread cells are a stretch of the file),
  `StartAtSector` (the stretch begins at the offset of the sector the loops are
  at) and `SigmaSoFar` (the sectors of the running tag). The heart is
  `FillBufferWindow`: moving the leftover and reading behind it keeps the
  window. Block offsets are products of variables; `OffsetSteps` and
  `BlocksCoverFile` state the little non-linear arithmetic the rest needs.
  The upload's own invariant `UInv` contains the tagger's `IInv`, whose step
  lemmas carry over because the pipeline takes the tagger's steps, and adds:
  `TagsInv`, the invariant of the serializer, twice, as the uploading side sees
  it and as the server that looks up the stored tags does - both are instances
  of the serializer's lemmas under `SerializerAssumption`; `ThreadsInv` and
  `FileInv`, what each storing thread has stored of its object; `DoneInv` and
  `FillInv`, which say where the tagger leaves the stream and that only a file
  that exactly fills the buffer leaves it anywhere but at the front; `CountInv`,
  that the counter is the sum of what the four threads have counted so far.
- **`BlockTagSerializerProofs`**: `TypeCorrect`, `TagsAreLocated`,
  `LookupsFindTags`. The invariant adds that the map is contiguous and ends at
  `file_end`, that file and buffer together have that length while no write
  failed and are no longer in any case. `FoundTag`, that the lookup by index
  returns the whole tag, is what the upload's `BlocksMatchTags` rests on.
- **`VerificationProofs`**, of `ChallengeIndexes`: `ChallengeTypeCorrect`,
  `IndexesAreIncreasing`, `OnlyEmptyFilesKill`, `TailOutOfReach`,
  `EnoughAreChecked`. Each index lies in its own stretch
  `[k * range, (k+1) * range)`; a wrapped product is never larger than the
  product, so that the stretches fit the file. `Reach`, a second invariant, says
  that the drawable blocks are those before the next stretch and no others, so
  that fewer are left in the end than there are stretches. `ChallengeIsModelled`
  ties the two modules together: a challenge that is built is one of those from
  which `BuildChallenge` of `CompactProof` chooses.
  Of `CompactProof`: `ProofTypes`, `VerdictIsExact`, `ChangeIsDetected`, for every
  prime, every size of a sector and of a block, every batch and every copy a store
  may return. No verdict is inductive; what is kept is a balance. `Balanced` says
  that the prover's `sigma_sum` and the weighted deviations of the items so far
  equal, in the field (`Same`), the masks of those items and the `mus` combined by
  the alphas. A step adds to each side what the tag of one block promises
  (`ItemBalanced`, by the linearity of the sums), reducing the sums keeps it
  (`ReducedBalanced`), and `VerifyFile()` compares its two sides
  (`VerdictOfBalanced`). The fetcher returns the blocks that were asked for
  (`FetchedIsAsked`) because the indexes increase: once a short block has made its
  stream fail every later block is empty (`FailedInv`). `ChangeIsDetected` adds
  that the field has no zero divisors (`NoZeroDivisors`, from the least multiplier
  that makes a product vanish), the one place where `p` has to be a prime. The
  sums and the value of a sector are recursive functions; that they exist, have
  one value and are linear is shown by `Induction`, a lemma about sets of numbers
  that rests on the well-foundedness of `<`.
- **`AuditedStoreProofs`**: `TypeCorrect`, `SuccessIsStored`,
  `ErrorLeavesStore`, `CalmVerifies`, and the refinement `StoreIsRegister`. The
  invariant relates each storing thread's stage to its object (`ObjectInv`), the
  report to the stages (`ReportInv`), and what an undisturbed verification has
  read to what the store holds (`CalmInv`): a verification that goes on after the
  file tag has one with blocks, and one that is killed there has met the file tag
  of an empty file (`EmptyStored`). The refinement proof maps each step
  to `Begin`, `Destroy`, `Complete` or a stutter: only opening an object
  destroys, only the last write completes.
- **`RemoteStoreProofs`**: `TypeCorrect`, `NothingIsMixed`, `StoredInTheEnd`,
  `CalmIsIntact`. No safety property is inductive. `HandlersInv` bounds what each handler has
  written by what it has received, and by the whole body once it has answered;
  `AloneInv` says that the handlers of an upload that began alone stay alone, so
  that what they have written is *all* there is in their objects, whatever an
  earlier upload left there before they opened them; `AnsweredInv` follows an
  answered object from its handler to the disk, and `ReportInv` ties the report
  to the stage of the application. `OverwrittenOwn`, that writing on behind
  one's own cells gives a longer run of them, is where a stale handler would
  show. `CalmInv`, a second invariant, says of an audit that has met no change
  that one upload is stored whole and that it is the one whose `FileTag` was
  answered. `CalmAuditIntact` is about the step that ends the audit (`CalmEnd`):
  later the store may change.
- **`ApplicationStateProofs`**: `LostOnlyByRewriting`, `TokenIsRemembered`,
  `TypeCorrect`, `ListSound`, `LatestFirst`. The invariant `IInv` says who can be
  rewriting what: the main thread alone the settings and the token (`MainInv`),
  and of the list, as long as no two rewritings have overlapped, one thread at a
  time, which finds it empty when it writes (`ListInv`); `TokenInv` follows the
  token from the answer through the file to the next start. The workers' two ways
  of touching the list are one lemma each (`LookIInv`, `RewriteIInv`), the rest
  of their steps are `QuietIInv`. A second invariant `EInv` follows the entries:
  `SoundInv` whatever overlaps, `LatestInv` as long as nothing does. They rest on
  what the loop of `AddFile()` computes: `AddedTo` is a recursive function, so
  that the loop exists (`LoopExists`) and keeps `IsAdded` (`AddedToIsAdded`) can be
  shown without a rule of induction, by the least index at which it would fail.
  `AddedToIsLatest` then says that adding an entry keeps the list that of the
  entries added last: the others move back by one unless the entry was behind
  them (`PlaceAppend`), which is a matter of counting.
- **`DropboxCopiesProofs`**: `TypeCorrect`, `CopiesRemoved`, `AlarmExplained`.
  That an inode is free for a new copy takes the pigeonhole principle (each
  worker holds one of each copy at most) and a least element. Each action has a
  lemma that says field by field what it makes of its worker. `LeftInv`: what is
  at a path is left by an end, or owed a removal by a worker. `KeptInv` says of a
  worker whose copies nobody has touched between its two openings that the path
  leads to the inode it writes, that what it has written is in there, and that
  what it has opened for reading is whole. Nothing ever takes a piece out of an
  inode that is linked or held, so that others who write into it do no harm, and
  others' removals change what it reads only if `fate` records them.
- **`DropboxUploadsProofs`**: `TypeCorrect`, `FilesRemoved`, `MissingExplained`,
  `ListShown`, `OnlyWriters`. `Accounted`: a temporary file at its path is held
  by an upload, or left. `Alone`: while an upload that none has overlapped runs,
  no other does. `OwnInv` follows an upload whose files nobody else could write,
  from the pieces it has compressed through the tags, buffered and flushed, to
  the bodies of its requests and the objects; its case of `Flush` is the longest,
  since the file of the tags is then written at two places at once.

Only model-checked: liveness (`UploadReturns`), which is out of the prover's
reach.

## 5. What is not modelled

- LZ4 compression, AES encryption and the PRF's cryptography: libraries; the
  PRF is an arbitrary function, encryption changes no state of the system.
- The display of the window, the filter of the file browser by prefix, utilities,
  tests and the benchmark: they keep no state a property could be about.
- The listings of the local disk and of the server: pure I/O. That of Dropbox is
  modelled as far as it is current.
- `BatchProofHandler`: its proof source has no fetcher factory, so that the first
  request of a batch ends the server, which `RemoteStore` has as `KillServer`.
- A verification beside two uploads that overlap: `AuditedStore` and
  `RemoteStore` have it beside uploads that follow one another, `DropboxUploads`
  has the uploads.
- The values of the settings: only whether they can be read matters to what
  another thread does, and whether a verification is refused (`RefuseVerify`).
- The pages of Dropbox's listing (`has_more`, a TODO at
  `providers/dropbox/file_list_source.cc:36`): `ListCurrent` is about when the list
  is fetched and takes one listing to be complete.
- Failing writes of the settings, the list of recent files and the token: an end
  of the process may come before the write, but a write that is made succeeds.
- Local copies of a Dropbox object that changes: a longer copy left by an end of
  the application, of an object replaced since, is overwritten in place and keeps
  its end. The library that opens them (cpprest) is not part of the repository; the
  model takes the mode of `open_ostream` at its word.

## 6. Plan

1. *done*: tagger, serializer, pipeline with the progress bar, indexes, batches
   and their proofs, store of the local disk, server and Azure client, local
   copies and uploads of Dropbox, application state; proofs of every safety
   property that a passing run checks.
2. A verification over Dropbox beside uploads that overlap: `DropboxUploads`
   composed with `DropboxCopies`.
