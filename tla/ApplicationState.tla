-------------------------- MODULE ApplicationState --------------------------
(***************************************************************************)
(* What the application keeps in its directory besides objects and copies: *)
(* settings.json with the key of the FileTags, recent_files.json with the  *)
(* files uploaded last, and token.json.  Each is rewritten in place, by    *)
(* truncating it and writing it when the stream is destroyed, and is small *)
(* enough to be read and written by one call.  The main thread changes the *)
(* settings, shows the list and logs in, while the workers of uploads read *)
(* the settings and rewrite the list; an exception outside their try block *)
(* or on the main thread ends the application, and so may anything else.   *)
(*                                                                         *)
(* A verification that reads the settings at the wrong moment reports an   *)
(* error and changes nothing; it is left out.                              *)
(***************************************************************************)
EXTENDS Integers, Sequences, FiniteSets

CONSTANTS
    Workers,            \* UploadWorkers that may run at once
    Files,              \* entries of the list: a name and a size
    MaxRecent,          \* MAX_RECENT_FILES
    MaxUploads          \* bound: uploads begun

ASSUME MaxRecentAssumption == MaxRecent \in Nat \ {0}
ASSUME MaxUploadsAssumption == MaxUploads \in Nat

VARIABLES
    disk,               \* the three files
    main,               \* what the main thread is at, "off" without a process
    has_token,          \* TokenSource::has_token_
    worker,             \* for each worker, its upload
    begun,              \* the number of uploads begun
    added,              \* history: the entries written to the list, in order
    authorized,         \* history: a token has been saved
    torn,               \* history: what was being rewritten at an end of the process
    overlapped          \* history: two rewritings of the list have overlapped

vars == <<disk, main, has_token, worker, begun, added, authorized, torn,
          overlapped>>

Absent == [kind |-> "absent", list |-> <<>>]
Empty == [kind |-> "empty", list |-> <<>>]
Mixed == [kind |-> "mixed", list |-> <<>>]
Whole(list) == [kind |-> "whole", list |-> list]

Readable(f) == disk[f].kind = "whole"
Unreadable(f) == disk[f].kind \in {"empty", "mixed"}

\* The entry of the upload comes first in its list.
NoUpload == [stage |-> "none", list |-> <<>>]
Entry(w) == Head(worker[w].list)

\* Installed, and not started yet.
Init ==
    /\ disk = [settings |-> Whole(<<>>), recent |-> Absent, token |-> Absent]
    /\ main = "off"
    /\ has_token = FALSE
    /\ worker = [w \in Workers |-> NoUpload]
    /\ begun = 0
    /\ added = <<>>
    /\ authorized = FALSE
    /\ torn = {}
    /\ overlapped = FALSE

-----------------------------------------------------------------------------
(* Rewriting a file                                                        *)

\* A fault: the file is opened without being truncated.
OpenUntouched(f) == disk' = [disk EXCEPT ![f] = IF @ = Absent THEN Empty ELSE @]

Truncate(f) == disk' = [disk EXCEPT ![f] = Empty]

\* What is written over the file of another writer that is not shorter leaves
\* the end of that file behind it.
Write(f, list) ==
    \/ disk' = [disk EXCEPT ![f] = Whole(list)]
    \/ disk[f] \notin {Empty, Whole(list)} /\ disk' = [disk EXCEPT ![f] = Mixed]

\* The files that have been truncated and not written.
Rewritten ==
    {f \in DOMAIN disk :
        \/ f = "settings" /\ main = "writing settings"
        \/ f = "token" /\ main = "writing token"
        \/ f = "recent" /\ \/ main = "creating recent"
                           \/ \E w \in Workers :
                                  worker[w].stage \in {"created", "writing"}}

\* Those who have looked at the list and will write it.
Adding(w) == worker[w].stage \in {"creating", "created", "listed", "writing"}

-----------------------------------------------------------------------------
(* The process                                                             *)

\* It ends, by itself or by an exception, and leaves the files as they are.
End ==
    /\ main' = "off"
    /\ has_token' = FALSE
    /\ worker' = [w \in Workers |-> NoUpload]
    /\ torn' = torn \cup Rewritten
    /\ UNCHANGED <<disk, begun, added, authorized, overlapped>>

Crash == main # "off" /\ End

\* GetTokenFromFile() catches what it throws.
Start ==
    /\ main = "off"
    /\ main' = "starting"
    /\ has_token' = Readable("token")
    /\ UNCHANGED <<disk, worker, begun, added, authorized, torn, overlapped>>

-----------------------------------------------------------------------------
(* The main thread: each call of the window runs to its end.               *)

MainGoes(from, to) ==
    /\ main = from
    /\ main' = to
    /\ UNCHANGED <<worker, begun, added, torn>>

HasToLogin ==
    /\ MainGoes("starting", IF has_token THEN "entering" ELSE "login")
    /\ UNCHANGED <<disk, has_token, authorized, overlapped>>

\* A fault: the token is kept in memory only.
ExchangeWithoutSaving ==
    /\ MainGoes("login", "entering")
    /\ has_token' = TRUE
    /\ authorized' = TRUE
    /\ UNCHANGED <<disk, overlapped>>

\* ExchangeCodeForToken() up to the truncation in SaveTokenToFile().
ExchangeCodeForToken ==
    /\ MainGoes("login", "writing token")
    /\ has_token' = TRUE
    /\ Truncate("token")
    /\ UNCHANGED <<authorized, overlapped>>

SaveToken ==
    /\ MainGoes("writing token", "entering")
    /\ Write("token", <<>>)
    /\ authorized' = TRUE
    /\ UNCHANGED <<has_token, overlapped>>

\* A wrong code, no answer, or no way to save the token.
ExchangeThrows == main = "login" /\ End

\* main() of the window shows the settings.
ShowSettings ==
    /\ Readable("settings")
    /\ MainGoes("entering", "ready")
    /\ UNCHANGED <<disk, has_token, authorized, overlapped>>

\* Settings::Set(), and the truncation in ~Settings().
ChangeSettings ==
    /\ Readable("settings")
    /\ MainGoes("ready", "writing settings")
    /\ Truncate("settings")
    /\ UNCHANGED <<has_token, authorized, overlapped>>

SaveSettings ==
    /\ MainGoes("writing settings", "ready")
    /\ Write("settings", <<>>)
    /\ UNCHANGED <<has_token, authorized, overlapped>>

SettingsThrow ==
    /\ main \in {"entering", "ready"}
    /\ ~Readable("settings")
    /\ End

\* GetRecentFiles() finds no list, and creates one.
ShowNoRecent ==
    /\ disk["recent"] = Absent
    /\ MainGoes("ready", "no recent")
    /\ overlapped' = (overlapped \/ \E w \in Workers : Adding(w))
    /\ UNCHANGED <<disk, has_token, authorized>>

CreateRecent ==
    /\ MainGoes("no recent", "creating recent")
    /\ Truncate("recent")
    /\ UNCHANGED <<has_token, authorized, overlapped>>

SaveRecent ==
    /\ MainGoes("creating recent", "ready")
    /\ Write("recent", <<>>)
    /\ UNCHANGED <<has_token, authorized, overlapped>>

ShowRecentThrows == main = "ready" /\ Unreadable("recent") /\ End

-----------------------------------------------------------------------------
(* UploadWorker::Execute()                                                 *)

To(w, next) ==
    /\ worker' = [worker EXCEPT ![w] = next]
    /\ UNCHANGED <<main, has_token, authorized, torn>>

BeginUpload(w) ==
    /\ main = "ready"
    /\ worker[w].stage = "none"
    /\ begun < MaxUploads
    /\ begun' = begun + 1
    /\ \E file \in Files : To(w, [stage |-> "begun", list |-> <<file>>])
    /\ UNCHANGED <<disk, added, overlapped>>

\* The parameters are read, and then, in a storing thread, the key.
ReadSettings(w) ==
    /\ worker[w].stage \in {"begun", "tagged"}
    /\ Readable("settings")
    /\ To(w, [worker[w] EXCEPT
                !.stage = IF @ = "begun" THEN "tagged" ELSE "stored"])
    /\ UNCHANGED <<disk, begun, added, overlapped>>

\* Neither of the two is in a try block.
ReadSettingsThrows(w) ==
    /\ worker[w].stage \in {"begun", "tagged"}
    /\ ~Readable("settings")
    /\ End

\* The upload, or reading the list, throws, and is reported as failed.
UploadFails(w) ==
    /\ \/ worker[w].stage = "tagged"
       \/ worker[w].stage = "stored" /\ Unreadable("recent")
    /\ To(w, NoUpload)
    /\ UNCHANGED <<disk, begun, added, overlapped>>

\* A fault: an entry is put in front whether it is in the list or not.
AddedTwice(file, list) ==
    LET longer == <<file>> \o list
    IN  SubSeq(longer, 1, IF Len(longer) < MaxRecent THEN Len(longer) ELSE MaxRecent)

\* A fault: the other entries are forgotten.
AddedAlone(file, list) == <<file>>

\* A fault: the entries are read past the end of the list.
AddedPastEnd(file, list) ==
    IF Len(list) < MaxRecent - 1 THEN <<file>> \o Append(list, "no entry")
    ELSE <<file>>

\* The loop of AddFile() over one of the other entries.
With(files, other) ==
    IF Len(files) < MaxRecent /\ \A k \in DOMAIN files : files[k] # other
    THEN Append(files, other) ELSE files

\* AddFile(): the new entry first, then the others, none twice.
AddedTo(file, list) ==
    LET new_files[i \in 0 .. Len(list)] ==
            IF i = 0 THEN <<file>> ELSE With(new_files[i - 1], list[i])
    IN  new_files[Len(list)]

Overlaps(w) ==
    overlapped' = (overlapped \/ main \in {"no recent", "creating recent"}
                              \/ \E v \in Workers \ {w} : Adding(v))

\* GetFiles() of a list that is there.
ReadRecent(w) ==
    /\ worker[w].stage = "stored"
    /\ Readable("recent")
    /\ To(w, [stage |-> "listed",
              list |-> AddedTo(Entry(w), disk["recent"].list)])
    /\ Overlaps(w)
    /\ UNCHANGED <<disk, begun, added>>

\* GetFiles() finds no list, and is going to create one.
ReadNoRecent(w) ==
    /\ worker[w].stage = "stored"
    /\ disk["recent"] = Absent
    /\ To(w, [worker[w] EXCEPT !.stage = "creating"])
    /\ Overlaps(w)
    /\ UNCHANGED <<disk, begun, added>>

Created(w) ==
    /\ worker[w].stage = "created"
    /\ Write("recent", <<>>)
    /\ To(w, [worker[w] EXCEPT !.stage = "listed"])
    /\ UNCHANGED <<begun, added, overlapped>>

\* WriteRecentFiles(): the stream is opened, and destroyed.
TruncateRecent(w) ==
    /\ worker[w].stage \in {"creating", "listed"}
    /\ Truncate("recent")
    /\ To(w, [worker[w] EXCEPT
                !.stage = IF @ = "creating" THEN "created" ELSE "writing"])
    /\ UNCHANGED <<begun, added, overlapped>>

WriteRecent(w) ==
    /\ worker[w].stage = "writing"
    /\ Write("recent", worker[w].list)
    /\ To(w, NoUpload)
    /\ added' = Append(added, Entry(w))
    /\ UNCHANGED <<begun, overlapped>>

-----------------------------------------------------------------------------
MainThread ==
    \/ HasToLogin \/ ExchangeCodeForToken \/ SaveToken \/ ExchangeThrows
    \/ ShowSettings \/ ChangeSettings \/ SaveSettings \/ SettingsThrow
    \/ ShowNoRecent \/ CreateRecent \/ SaveRecent \/ ShowRecentThrows

UploadWorker(w) ==
    \/ BeginUpload(w) \/ ReadSettings(w) \/ ReadSettingsThrows(w)
    \/ UploadFails(w) \/ ReadRecent(w) \/ ReadNoRecent(w) \/ Created(w)
    \/ TruncateRecent(w) \/ WriteRecent(w)

Next == Start \/ Crash \/ MainThread \/ \E w \in Workers : UploadWorker(w)

Spec == Init /\ [][Next]_vars

-----------------------------------------------------------------------------
Lists == Seq(Files)

\* The variables have their types.
TypeOK ==
    /\ disk \in [{"settings", "recent", "token"} ->
                    [kind : {"absent", "empty", "mixed", "whole"}, list : Lists]]
    /\ main \in {"off", "starting", "login", "writing token", "entering", "ready",
                 "writing settings", "no recent", "creating recent"}
    /\ has_token \in BOOLEAN
    /\ worker \in [Workers -> [stage : {"none", "begun", "tagged", "stored",
                                        "creating", "created", "listed",
                                        "writing"},
                               list : Lists]]
    /\ begun \in 0 .. MaxUploads
    /\ added \in Lists
    /\ authorized \in BOOLEAN
    /\ torn \subseteq {"settings", "recent", "token"}
    /\ overlapped \in BOOLEAN

\* A file that does not parse is being rewritten, or the process has ended while
\* it was; only the list may also be spoilt by two that rewrite it at once.  So
\* the settings, and the key in them, and the token are lost by nothing else.
UnreadableNeedsRewriting ==
    \A f \in DOMAIN disk :
        Unreadable(f) => \/ f \in Rewritten \cup torn
                         \/ f = "recent" /\ overlapped

\* Whatever overlaps: a list that parses has no entry twice and no more than
\* MaxRecent, and each is of an upload that has stored the file.
ListIsSound ==
    LET list == disk["recent"].list
    IN  /\ Len(list) <= MaxRecent
        /\ \A j, k \in DOMAIN list : list[j] = list[k] => j = k
        /\ \A k \in DOMAIN list : \E i \in DOMAIN added : added[i] = list[k]

\* The last time each entry was added.
LastAdded == {i \in DOMAIN added :
                 \A j \in DOMAIN added : added[j] = added[i] => j <= i}

\* "Adds 1 file to the recent files list, and saves it": uploads whose rewritings
\* of the list do not overlap leave the files uploaded last in it, latest first.
RecentIsLatest ==
    "recent" \notin Rewritten \cup torn /\ ~overlapped =>
        LET list == disk["recent"].list
        IN  /\ Len(list) = (IF Cardinality(LastAdded) < MaxRecent
                            THEN Cardinality(LastAdded) ELSE MaxRecent)
            /\ \A i \in LastAdded :
                   LET place == Cardinality({j \in LastAdded : j >= i})
                   IN  place <= MaxRecent => list[place] = added[i]

\* The user who has logged in is not asked again, and what the window is open for
\* has a token that the next start will find, unless the end of the process has
\* met the saving of it.
TokenRemembered ==
    /\ main \notin {"off", "starting", "login", "writing token"} =>
           has_token /\ Readable("token")
    /\ main = "login" => ~authorized \/ "token" \in torn

=============================================================================
