----------------------- MODULE ApplicationStateProofs -----------------------
(***************************************************************************)
(* Proofs about ApplicationState, for any workers, entries and uploads:    *)
(* what it takes to lose the settings, the token or the list, where IInv   *)
(* follows only what can be read; and what the list holds, where EInv      *)
(* follows its entries on top of IInv.                                     *)
(***************************************************************************)
EXTENDS ApplicationState, FiniteSetTheorems, WellFoundedInduction, TLAPS

Names == {"settings", "recent", "token"}
Kinds == {"absent", "empty", "mixed", "whole"}
Phases == {"off", "starting", "login", "writing token", "entering", "ready",
           "writing settings", "no recent", "creating recent"}
Stages == {"none", "begun", "tagged", "stored", "creating", "created", "listed",
           "writing"}

IsUpload(u) == u = [stage |-> u.stage, list |-> u.list] /\ u.stage \in Stages

\* The variables have their types, but for the entries of the lists.
ShapeInv ==
    /\ disk = [f \in Names |-> disk[f]]
    /\ main \in Phases
    /\ has_token \in BOOLEAN
    /\ worker = [w \in Workers |-> worker[w]]
    /\ \A w \in Workers : IsUpload(worker[w])
    /\ authorized \in BOOLEAN
    /\ overlapped \in BOOLEAN

\* Nobody but the main thread writes the settings and the token.
MainInv ==
    /\ main = "writing settings" => disk["settings"] = Empty
    /\ main = "writing token" => disk["token"] = Empty /\ has_token

\* Who rewrites the list without overlapping another is alone.
ListInv ==
    ~overlapped =>
        /\ \A w \in Workers :
               Adding(w) => ~(main \in {"no recent", "creating recent"})
        /\ \A v, w \in Workers : Adding(v) /\ Adding(w) => v = w
        /\ "recent" \in Rewritten => disk["recent"] = Empty

\* The token is in the file whenever it has been saved, and in memory from the
\* login on.
TokenInv ==
    /\ main = "starting" => has_token = Readable("token")
    /\ main = "login" => ~has_token /\ ~Readable("token")
    /\ main \notin {"off", "starting", "login", "writing token"} =>
           has_token /\ Readable("token")
    /\ authorized /\ "token" \notin torn /\ main # "writing token" =>
           Readable("token")

IInv == ShapeInv /\ MainInv /\ ListInv /\ TokenInv /\ UnreadableNeedsRewriting
-----------------------------------------------------------------------------
(* The three files                                                         *)

LEMMA KindFacts ==
    /\ Absent.kind = "absent" /\ Empty.kind = "empty" /\ Mixed.kind = "mixed"
    /\ \A list : Whole(list).kind = "whole"
BY DEF Absent, Empty, Mixed, Whole

LEMMA TruncateFacts ==
    ASSUME ShapeInv, NEW f \in Names, Truncate(f)
    PROVE  /\ disk' = [g \in Names |-> disk'[g]]
           /\ disk'[f] = Empty
           /\ \A g \in Names \ {f} : disk'[g] = disk[g]
BY DEF ShapeInv, Truncate

LEMMA WriteFacts ==
    ASSUME ShapeInv, NEW f \in Names, NEW list, Write(f, list)
    PROVE  /\ disk' = [g \in Names |-> disk'[g]]
           /\ \/ disk'[f] = Whole(list)
              \/ disk[f] # Empty /\ disk'[f] = Mixed
           /\ \A g \in Names \ {f} : disk'[g] = disk[g]
<1>1. CASE disk' = [disk EXCEPT ![f] = Whole(list)]
    BY <1>1 DEF ShapeInv
<1>2. CASE disk[f] \notin {Empty, Whole(list)} /\ disk' = [disk EXCEPT ![f] = Mixed]
    BY <1>2 DEF ShapeInv
<1> QED BY <1>1, <1>2 DEF Write

\* The names of the files, and who rewrites which.
LEMMA RewrittenFacts ==
    ASSUME ShapeInv
    PROVE  /\ DOMAIN disk = Names
           /\ "settings" \in Rewritten <=> main = "writing settings"
           /\ "token" \in Rewritten <=> main = "writing token"
           /\ "recent" \in Rewritten <=>
                  \/ main = "creating recent"
                  \/ \E w \in Workers : worker[w].stage \in {"created", "writing"}
           /\ Rewritten \subseteq Names
<1>1. DOMAIN disk = Names
    BY DEF ShapeInv
<1> QED BY <1>1 DEF Rewritten, Names

LEMMA NoUploadFacts == IsUpload(NoUpload) /\ NoUpload.stage = "none"
BY DEF IsUpload, NoUpload, Stages

-----------------------------------------------------------------------------
(* The end of the process, and its start                                   *)

LEMMA EndIInv ==
    ASSUME IInv, End
    PROVE  IInv'
<1>1. /\ main' = "off" /\ has_token' = FALSE
      /\ worker' = [w \in Workers |-> NoUpload]
      /\ torn' = torn \cup Rewritten
      /\ UNCHANGED <<disk, authorized, overlapped>>
    BY DEF End
<1>2. ShapeInv'
    BY <1>1, NoUploadFacts DEF IInv, ShapeInv, Phases
<1>3. MainInv'
    BY <1>1 DEF MainInv
<1>4. ~("recent" \in Rewritten') /\ \A w \in Workers : ~Adding(w)'
    BY <1>1, <1>2, RewrittenFacts, NoUploadFacts DEF Adding, Rewritten
<1>5. ListInv'
    BY <1>1, <1>4 DEF ListInv
<1>6. TokenInv'
    BY <1>1, RewrittenFacts DEF IInv, TokenInv, Readable
<1>7. UnreadableNeedsRewriting'
    BY <1>1 DEF IInv, UnreadableNeedsRewriting, Unreadable
<1> QED BY <1>2, <1>3, <1>5, <1>6, <1>7 DEF IInv

LEMMA StartIInv ==
    ASSUME IInv, Start
    PROVE  IInv'
<1>1. /\ main = "off" /\ main' = "starting"
      /\ has_token' = Readable("token")
      /\ UNCHANGED <<disk, worker, authorized, torn, overlapped>>
    BY DEF Start
<1>2. ShapeInv'
    BY <1>1 DEF IInv, ShapeInv, Phases, Readable
<1>3. MainInv' /\ TokenInv'
    BY <1>1 DEF IInv, MainInv, TokenInv, Readable
<1>4. Rewritten' = Rewritten /\ \A w \in Workers : Adding(w)' <=> Adding(w)
    BY <1>1 DEF Rewritten, Adding
<1>5. ListInv' /\ UnreadableNeedsRewriting'
    BY <1>1, <1>4 DEF IInv, ListInv, UnreadableNeedsRewriting, Unreadable
<1> QED BY <1>2, <1>3, <1>5 DEF IInv

-----------------------------------------------------------------------------
(* The main thread                                                         *)

LEMMA HasToLoginIInv ==
    ASSUME IInv, HasToLogin
    PROVE  IInv'
<1>1. /\ main = "starting" /\ main' = (IF has_token THEN "entering" ELSE "login")
      /\ UNCHANGED <<worker, torn>>
      /\ UNCHANGED <<disk, has_token, authorized, overlapped>>
    BY DEF HasToLogin, MainGoes
<1>2. Rewritten' = Rewritten
    BY <1>1 DEF Rewritten
<1>3. ShapeInv'
    BY <1>1 DEF IInv, ShapeInv, Phases
<1>4. MainInv'
    BY <1>1 DEF IInv, MainInv
<1>5. ListInv'
    BY <1>1, <1>2 DEF IInv, ListInv, Adding
<1>6. TokenInv'
    BY <1>1 DEF IInv, TokenInv, Readable
<1>7. UnreadableNeedsRewriting'
    BY <1>1, <1>2 DEF IInv, UnreadableNeedsRewriting, Unreadable
<1> QED BY <1>3, <1>4, <1>5, <1>6, <1>7 DEF IInv

LEMMA ShowSettingsIInv ==
    ASSUME IInv, ShowSettings
    PROVE  IInv'
<1>1. /\ main = "entering" /\ main' = "ready"
      /\ UNCHANGED <<worker, torn>>
      /\ UNCHANGED <<disk, has_token, authorized, overlapped>>
    BY DEF ShowSettings, MainGoes
<1>2. Rewritten' = Rewritten
    BY <1>1 DEF Rewritten
<1>3. ShapeInv'
    BY <1>1 DEF IInv, ShapeInv, Phases
<1>4. MainInv'
    BY <1>1 DEF IInv, MainInv
<1>5. ListInv'
    BY <1>1, <1>2 DEF IInv, ListInv, Adding
<1>6. TokenInv'
    BY <1>1 DEF IInv, TokenInv, Readable
<1>7. UnreadableNeedsRewriting'
    BY <1>1, <1>2 DEF IInv, UnreadableNeedsRewriting, Unreadable
<1> QED BY <1>3, <1>4, <1>5, <1>6, <1>7 DEF IInv

LEMMA ExchangeCodeForTokenIInv ==
    ASSUME IInv, ExchangeCodeForToken
    PROVE  IInv'
<1>1. /\ main = "login" /\ main' = "writing token"
      /\ UNCHANGED <<worker, torn>>
      /\ has_token' = TRUE /\ Truncate("token")
      /\ UNCHANGED <<authorized, overlapped>>
    BY DEF ExchangeCodeForToken, MainGoes
<1>2. /\ disk' = [g \in Names |-> disk'[g]]
      /\ disk'["token"] = Empty
      /\ \A g \in Names \ {"token"} : disk'[g] = disk[g]
    BY <1>1, TruncateFacts DEF IInv, Names
<1>3. ShapeInv'
    BY <1>1, <1>2 DEF IInv, ShapeInv, Phases
<1>4. MainInv'
    BY <1>1, <1>2 DEF IInv, MainInv, Names
<1>5. ListInv'
    BY <1>1, <1>2, <1>3, RewrittenFacts
       DEF IInv, ListInv, Adding, Rewritten, Names
<1>6. TokenInv'
    BY <1>1, <1>2, KindFacts DEF IInv, TokenInv, Readable, Names
<1>7. UnreadableNeedsRewriting'
    BY <1>1, <1>2, <1>3, RewrittenFacts
       DEF IInv, UnreadableNeedsRewriting, Unreadable, Rewritten, Names
<1> QED BY <1>3, <1>4, <1>5, <1>6, <1>7 DEF IInv

LEMMA SaveTokenIInv ==
    ASSUME IInv, SaveToken
    PROVE  IInv'
<1>1. /\ main = "writing token" /\ main' = "entering"
      /\ UNCHANGED <<worker, torn>>
      /\ Write("token", <<>>) /\ authorized' = TRUE
      /\ UNCHANGED <<has_token, overlapped>>
    BY DEF SaveToken, MainGoes
<1>2. /\ disk' = [g \in Names |-> disk'[g]]
      /\ \/ disk'["token"] = Whole(<<>>)
         \/ disk["token"] # Empty /\ disk'["token"] = Mixed
      /\ \A g \in Names \ {"token"} : disk'[g] = disk[g]
    BY <1>1, WriteFacts DEF IInv, Names
<1>3. ShapeInv'
    BY <1>1, <1>2 DEF IInv, ShapeInv, Phases
<1>4. MainInv'
    BY <1>1, <1>2 DEF IInv, MainInv, Names
<1>5. ListInv'
    BY <1>1, <1>2, <1>3, RewrittenFacts
       DEF IInv, ListInv, Adding, Rewritten, Names
<1>6. TokenInv'
    BY <1>1, <1>2, KindFacts DEF IInv, TokenInv, Readable, MainInv, Names
<1>7. UnreadableNeedsRewriting'
    BY <1>1, <1>2, <1>3, RewrittenFacts, KindFacts
       DEF IInv, UnreadableNeedsRewriting, Unreadable, Rewritten, MainInv, Names
<1> QED BY <1>3, <1>4, <1>5, <1>6, <1>7 DEF IInv

LEMMA ChangeSettingsIInv ==
    ASSUME IInv, ChangeSettings
    PROVE  IInv'
<1>1. /\ main = "ready" /\ main' = "writing settings"
      /\ UNCHANGED <<worker, torn>>
      /\ Truncate("settings")
      /\ UNCHANGED <<has_token, authorized, overlapped>>
    BY DEF ChangeSettings, MainGoes
<1>2. /\ disk' = [g \in Names |-> disk'[g]]
      /\ disk'["settings"] = Empty
      /\ \A g \in Names \ {"settings"} : disk'[g] = disk[g]
    BY <1>1, TruncateFacts DEF IInv, Names
<1>3. ShapeInv'
    BY <1>1, <1>2 DEF IInv, ShapeInv, Phases
<1>4. MainInv'
    BY <1>1, <1>2 DEF IInv, MainInv, Names
<1>5. ListInv'
    BY <1>1, <1>2, <1>3, RewrittenFacts
       DEF IInv, ListInv, Adding, Rewritten, Names
<1>6. TokenInv'
    BY <1>1, <1>2, KindFacts DEF IInv, TokenInv, Readable, Names
<1>7. UnreadableNeedsRewriting'
    BY <1>1, <1>2, <1>3, RewrittenFacts
       DEF IInv, UnreadableNeedsRewriting, Unreadable, Rewritten, Names
<1> QED BY <1>3, <1>4, <1>5, <1>6, <1>7 DEF IInv

LEMMA SaveSettingsIInv ==
    ASSUME IInv, SaveSettings
    PROVE  IInv'
<1>1. /\ main = "writing settings" /\ main' = "ready"
      /\ UNCHANGED <<worker, torn>>
      /\ Write("settings", <<>>)
      /\ UNCHANGED <<has_token, authorized, overlapped>>
    BY DEF SaveSettings, MainGoes
<1>2. /\ disk' = [g \in Names |-> disk'[g]]
      /\ \/ disk'["settings"] = Whole(<<>>)
         \/ disk["settings"] # Empty /\ disk'["settings"] = Mixed
      /\ \A g \in Names \ {"settings"} : disk'[g] = disk[g]
    BY <1>1, WriteFacts DEF IInv, Names
<1>3. ShapeInv'
    BY <1>1, <1>2 DEF IInv, ShapeInv, Phases
<1>4. MainInv'
    BY <1>1, <1>2 DEF IInv, MainInv, Names
<1>5. ListInv'
    BY <1>1, <1>2, <1>3, RewrittenFacts
       DEF IInv, ListInv, Adding, Rewritten, Names
<1>6. TokenInv'
    BY <1>1, <1>2, KindFacts DEF IInv, TokenInv, Readable, MainInv, Names
<1>7. UnreadableNeedsRewriting'
    BY <1>1, <1>2, <1>3, RewrittenFacts, KindFacts
       DEF IInv, UnreadableNeedsRewriting, Unreadable, Rewritten, MainInv, Names
<1> QED BY <1>3, <1>4, <1>5, <1>6, <1>7 DEF IInv

LEMMA ShowNoRecentIInv ==
    ASSUME IInv, ShowNoRecent
    PROVE  IInv'
<1>1. /\ main = "ready" /\ main' = "no recent"
      /\ UNCHANGED <<worker, torn>>
      /\ overlapped' = (overlapped \/ \E w \in Workers : Adding(w))
      /\ UNCHANGED <<disk, has_token, authorized>>
    BY DEF ShowNoRecent, MainGoes
<1>2. Rewritten' = Rewritten
    BY <1>1 DEF Rewritten
<1>3. ShapeInv'
    BY <1>1 DEF IInv, ShapeInv, Phases
<1>4. MainInv'
    BY <1>1 DEF IInv, MainInv
<1>5. ListInv'
    BY <1>1, <1>2 DEF IInv, ListInv, Adding
<1>6. TokenInv'
    BY <1>1 DEF IInv, TokenInv, Readable
<1>7. UnreadableNeedsRewriting'
    BY <1>1, <1>2 DEF IInv, UnreadableNeedsRewriting, Unreadable
<1> QED BY <1>3, <1>4, <1>5, <1>6, <1>7 DEF IInv

LEMMA CreateRecentIInv ==
    ASSUME IInv, CreateRecent
    PROVE  IInv'
<1>1. /\ main = "no recent" /\ main' = "creating recent"
      /\ UNCHANGED <<worker, torn>>
      /\ Truncate("recent")
      /\ UNCHANGED <<has_token, authorized, overlapped>>
    BY DEF CreateRecent, MainGoes
<1>2. /\ disk' = [g \in Names |-> disk'[g]]
      /\ disk'["recent"] = Empty
      /\ \A g \in Names \ {"recent"} : disk'[g] = disk[g]
    BY <1>1, TruncateFacts DEF IInv, Names
<1>3. ShapeInv'
    BY <1>1, <1>2 DEF IInv, ShapeInv, Phases
<1>4. MainInv'
    BY <1>1, <1>2 DEF IInv, MainInv, Names
<1>5. ListInv'
    BY <1>1, <1>2, <1>3, RewrittenFacts
       DEF IInv, ListInv, Adding, Rewritten, Names
<1>6. TokenInv'
    BY <1>1, <1>2, KindFacts DEF IInv, TokenInv, Readable, Names
<1>7. UnreadableNeedsRewriting'
    BY <1>1, <1>2, <1>3, RewrittenFacts
       DEF IInv, UnreadableNeedsRewriting, Unreadable, Rewritten, Names
<1> QED BY <1>3, <1>4, <1>5, <1>6, <1>7 DEF IInv

LEMMA SaveRecentIInv ==
    ASSUME IInv, SaveRecent
    PROVE  IInv'
<1>1. /\ main = "creating recent" /\ main' = "ready"
      /\ UNCHANGED <<worker, torn>>
      /\ Write("recent", <<>>)
      /\ UNCHANGED <<has_token, authorized, overlapped>>
    BY DEF SaveRecent, MainGoes
<1>2. /\ disk' = [g \in Names |-> disk'[g]]
      /\ \/ disk'["recent"] = Whole(<<>>)
         \/ disk["recent"] # Empty /\ disk'["recent"] = Mixed
      /\ \A g \in Names \ {"recent"} : disk'[g] = disk[g]
    BY <1>1, WriteFacts DEF IInv, Names
<1>3. ShapeInv'
    BY <1>1, <1>2 DEF IInv, ShapeInv, Phases
<1>4. MainInv'
    BY <1>1, <1>2 DEF IInv, MainInv, Names
<1>5. ListInv'
    BY <1>1, <1>2, <1>3, RewrittenFacts
       DEF IInv, ListInv, Adding, Rewritten, Names
<1>6. TokenInv'
    BY <1>1, <1>2, KindFacts DEF IInv, TokenInv, Readable, MainInv, Names
<1>7. UnreadableNeedsRewriting'
    <2>1. DOMAIN disk' = Names
        BY <1>3 DEF ShapeInv
    <2>2. \A f \in Names \ {"recent"} : f \in Rewritten' <=> f \in Rewritten
        BY <1>1, <1>3, RewrittenFacts DEF IInv, ShapeInv, Rewritten, Names
    <2>3. ~overlapped => ~Unreadable("recent")'
        <3>1. ~overlapped => disk["recent"] = Empty
            BY <1>1, RewrittenFacts DEF IInv, ListInv
        <3> QED BY <1>2, <3>1, KindFacts DEF Unreadable
    <2>4. \A f \in Names \ {"recent"} : Unreadable(f)' => f \in Rewritten \cup torn
        BY <1>2, RewrittenFacts DEF IInv, UnreadableNeedsRewriting, Unreadable
    <2> QED BY <1>1, <2>1, <2>2, <2>3, <2>4 DEF UnreadableNeedsRewriting
<1> QED BY <1>3, <1>4, <1>5, <1>6, <1>7 DEF IInv

-----------------------------------------------------------------------------
(* The workers                                                             *)

\* A step of a worker: its own upload changes, and the shape stays.
LEMMA ToFacts ==
    ASSUME IInv, NEW w \in Workers, NEW u, IsUpload(u), To(w, u)
    PROVE  /\ worker' = [v \in Workers |-> worker'[v]]
           /\ worker'[w] = u
           /\ \A v \in Workers \ {w} : worker'[v] = worker[v]
           /\ \A v \in Workers : IsUpload(worker'[v])
           /\ UNCHANGED <<main, has_token, authorized, torn>>
BY DEF IInv, ShapeInv, To

\* A step of a worker that leaves the files alone, and that neither begins nor
\* ends the rewriting of the list.
LEMMA QuietIInv ==
    ASSUME IInv, NEW w \in Workers, NEW u, IsUpload(u), To(w, u),
           UNCHANGED <<disk, overlapped>>,
           worker[w].stage \notin {"creating", "created", "listed", "writing"},
           u.stage \notin {"creating", "created", "listed", "writing"}
    PROVE  IInv'
<1>1. /\ worker' = [v \in Workers |-> worker'[v]]
      /\ worker'[w] = u
      /\ \A v \in Workers \ {w} : worker'[v] = worker[v]
      /\ \A v \in Workers : IsUpload(worker'[v])
      /\ UNCHANGED <<main, has_token, authorized, torn>>
    BY ToFacts
<1>2. ShapeInv'
    BY <1>1 DEF IInv, ShapeInv
<1>3. \A v \in Workers : Adding(v)' <=> Adding(v)
    BY <1>1 DEF Adding
<1>4. Rewritten' = Rewritten
    BY <1>1 DEF Rewritten
<1>5. MainInv' /\ TokenInv'
    BY <1>1 DEF IInv, MainInv, TokenInv, Readable
<1>6. ListInv' /\ UnreadableNeedsRewriting'
    BY <1>1, <1>3, <1>4 DEF IInv, ListInv, UnreadableNeedsRewriting, Unreadable
<1> QED BY <1>2, <1>5, <1>6 DEF IInv

LEMMA UploadOf ==
    ASSUME IInv, NEW w \in Workers, NEW stage \in Stages
    PROVE  LET u == [worker[w] EXCEPT !.stage = stage]
           IN  IsUpload(u) /\ u.stage = stage
<1>1. worker[w] = [stage |-> worker[w].stage, list |-> worker[w].list]
    BY DEF IInv, ShapeInv, IsUpload
<1> QED BY <1>1 DEF IsUpload

LEMMA UploadingIInv ==
    ASSUME IInv, NEW w \in Workers,
           BeginUpload(w) \/ ReadSettings(w) \/ UploadFails(w)
    PROVE  IInv'
<1>1. CASE BeginUpload(w)
    <2>1. PICK file \in Files : To(w, [stage |-> "begun", list |-> <<file>>])
        BY <1>1 DEF BeginUpload
    <2>2. IsUpload([stage |-> "begun", list |-> <<file>>])
        BY DEF IsUpload, Stages
    <2> QED BY <1>1, <2>1, <2>2, QuietIInv DEF BeginUpload
<1>2. CASE ReadSettings(w)
    <2> DEFINE next == IF worker[w].stage = "begun" THEN "tagged" ELSE "stored"
               u == [worker[w] EXCEPT !.stage = next]
    <2>1. next \in {"tagged", "stored"} /\ next \in Stages
        BY DEF Stages
    <2>2. To(w, u)
        BY <1>2, UploadOf DEF ReadSettings, IsUpload
    <2>3. IsUpload(u) /\ u.stage = next
        BY <2>1, UploadOf
    <2> HIDE DEF u, next
    <2> QED BY <1>2, <2>1, <2>2, <2>3, QuietIInv DEF ReadSettings
<1>3. CASE UploadFails(w)
    BY <1>3, NoUploadFacts, QuietIInv DEF UploadFails
<1> QED BY <1>1, <1>2, <1>3

\* GetFiles(): the worker becomes one of those who will write the list.
LEMMA LookIInv ==
    ASSUME IInv, NEW w \in Workers, NEW u, IsUpload(u), To(w, u), Overlaps(w),
           UNCHANGED disk,
           worker[w].stage = "stored", u.stage \in {"creating", "listed"}
    PROVE  IInv'
<1>1. /\ worker' = [v \in Workers |-> worker'[v]]
      /\ worker'[w] = u
      /\ \A v \in Workers \ {w} : worker'[v] = worker[v]
      /\ \A v \in Workers : IsUpload(worker'[v])
      /\ UNCHANGED <<main, has_token, authorized, torn>>
    BY ToFacts
<1>2. overlapped' = (overlapped \/ main \in {"no recent", "creating recent"}
                                \/ \E v \in Workers \ {w} : Adding(v))
    BY DEF Overlaps
<1>3. ShapeInv'
    BY <1>1, <1>2 DEF IInv, ShapeInv
<1>4. \A v \in Workers \ {w} : Adding(v)' <=> Adding(v)
    BY <1>1 DEF Adding
<1>5. Rewritten' = Rewritten
    BY <1>1 DEF Rewritten
<1>6. MainInv' /\ TokenInv'
    BY <1>1 DEF IInv, MainInv, TokenInv, Readable
<1>7. ListInv'
    BY <1>1, <1>2, <1>4, <1>5 DEF IInv, ListInv
<1>8. UnreadableNeedsRewriting'
    BY <1>1, <1>2, <1>5 DEF IInv, UnreadableNeedsRewriting, Unreadable
<1> QED BY <1>3, <1>6, <1>7, <1>8 DEF IInv

LEMMA ReadIInv ==
    ASSUME IInv, NEW w \in Workers, ReadRecent(w) \/ ReadNoRecent(w)
    PROVE  IInv'
<1>1. CASE ReadRecent(w)
    <2> DEFINE u == [stage |-> "listed",
                     list |-> AddedTo(Entry(w), disk["recent"].list)]
    <2>1. To(w, u)
        BY <1>1 DEF ReadRecent
    <2>2. IsUpload(u) /\ u.stage = "listed"
        BY DEF IsUpload, Stages
    <2> HIDE DEF u
    <2> QED BY <1>1, <2>1, <2>2, LookIInv DEF ReadRecent
<1>2. CASE ReadNoRecent(w)
    <2> DEFINE u == [worker[w] EXCEPT !.stage = "creating"]
    <2>1. To(w, u)
        BY <1>2 DEF ReadNoRecent
    <2>2. IsUpload(u) /\ u.stage = "creating"
        BY UploadOf DEF Stages
    <2> HIDE DEF u
    <2> QED BY <1>2, <2>1, <2>2, LookIInv DEF ReadNoRecent
<1> QED BY <1>1, <1>2

\* A worker opens the list, or writes it.
LEMMA RewriteIInv ==
    ASSUME IInv, NEW w \in Workers, NEW u, IsUpload(u), To(w, u),
           UNCHANGED overlapped,
           \/ /\ Truncate("recent")
              /\ worker[w].stage \in {"creating", "listed"}
              /\ u.stage \in {"created", "writing"}
           \/ /\ \E list : Write("recent", list)
              /\ worker[w].stage \in {"created", "writing"}
              /\ u.stage \in {"listed", "none"}
    PROVE  IInv'
<1>1. /\ worker' = [v \in Workers |-> worker'[v]]
      /\ worker'[w] = u
      /\ \A v \in Workers \ {w} : worker'[v] = worker[v]
      /\ \A v \in Workers : IsUpload(worker'[v])
      /\ UNCHANGED <<main, has_token, authorized, torn>>
    BY ToFacts
<1>2. /\ disk' = [g \in Names |-> disk'[g]]
      /\ \A g \in Names \ {"recent"} : disk'[g] = disk[g]
      /\ \/ /\ disk'["recent"] = Empty
            /\ u.stage \in {"created", "writing"}
         \/ /\ u.stage \in {"listed", "none"}
            /\ worker[w].stage \in {"created", "writing"}
            /\ \/ disk'["recent"].kind = "whole"
               \/ disk["recent"] # Empty
    BY TruncateFacts, WriteFacts, KindFacts DEF IInv, Names
<1>3. Adding(w) /\ \A v \in Workers : Adding(v)' => Adding(v)
    BY <1>1 DEF Adding
<1>4. ShapeInv'
    BY <1>1, <1>2 DEF IInv, ShapeInv
<1>5. MainInv' /\ TokenInv'
    BY <1>1, <1>2 DEF IInv, MainInv, TokenInv, Readable, Names
<1>6. ASSUME ~overlapped
      PROVE  /\ ~(main \in {"no recent", "creating recent"})
             /\ \A v \in Workers \ {w} : ~Adding(v)
    BY <1>3, <1>6 DEF IInv, ListInv
<1>7. ASSUME ~overlapped, "recent" \in Rewritten'
      PROVE  disk'["recent"] = Empty
    <2>1. PICK v \in Workers : worker'[v].stage \in {"created", "writing"}
        BY <1>1, <1>4, <1>6, <1>7, RewrittenFacts DEF Rewritten, Names
    <2>2. v = w
        BY <1>1, <1>6, <1>7, <2>1 DEF Adding
    <2> QED BY <1>1, <1>2, <2>1, <2>2
<1>8. ListInv'
    BY <1>1, <1>3, <1>7 DEF IInv, ListInv
<1>9. UnreadableNeedsRewriting'
    <2> SUFFICES ASSUME NEW f \in Names, Unreadable(f)'
                 PROVE  \/ f \in Rewritten' \cup torn'
                        \/ f = "recent" /\ overlapped'
        BY <1>4, RewrittenFacts DEF UnreadableNeedsRewriting, ShapeInv
    <2>1. CASE f # "recent"
        <3>1. f \in Rewritten \cup torn
            BY <1>2, <2>1, RewrittenFacts
               DEF IInv, UnreadableNeedsRewriting, Unreadable
        <3>2. f \in Rewritten => f \in Rewritten'
            BY <1>1, <1>4, <2>1, RewrittenFacts
               DEF IInv, Rewritten, Names, ShapeInv
        <3> QED BY <1>1, <3>1, <3>2
    <2>2. CASE f = "recent" /\ ~overlapped
        <3>1. disk["recent"] = Empty \/ worker[w].stage \notin {"created", "writing"}
            BY <2>2, RewrittenFacts DEF IInv, ListInv
        <3>2. worker'[w].stage \in {"created", "writing"}
            BY <1>1, <1>2, <2>2, <3>1 DEF Unreadable
        <3> QED BY <1>4, <2>2, <3>2 DEF Rewritten, ShapeInv, Names
    <2> QED BY <2>1, <2>2
<1> QED BY <1>4, <1>5, <1>8, <1>9 DEF IInv

LEMMA RewritingIInv ==
    ASSUME IInv, NEW w \in Workers,
           Created(w) \/ TruncateRecent(w) \/ WriteRecent(w)
    PROVE  IInv'
<1>1. CASE Created(w)
    <2> DEFINE u == [worker[w] EXCEPT !.stage = "listed"]
    <2>1. To(w, u)
        BY <1>1 DEF Created
    <2>2. IsUpload(u) /\ u.stage = "listed"
        BY UploadOf DEF Stages
    <2> HIDE DEF u
    <2> QED BY <1>1, <2>1, <2>2, RewriteIInv DEF Created
<1>2. CASE TruncateRecent(w)
    <2> DEFINE next == IF worker[w].stage = "creating" THEN "created" ELSE "writing"
               u == [worker[w] EXCEPT !.stage = next]
    <2>1. next \in {"created", "writing"} /\ next \in Stages
        BY DEF Stages
    <2>2. To(w, u)
        BY <1>2, UploadOf DEF TruncateRecent, IsUpload
    <2>3. IsUpload(u) /\ u.stage = next
        BY <2>1, UploadOf
    <2> HIDE DEF u, next
    <2> QED BY <1>2, <2>1, <2>2, <2>3, RewriteIInv DEF TruncateRecent
<1>3. CASE WriteRecent(w)
    BY <1>3, NoUploadFacts, RewriteIInv DEF WriteRecent
<1> QED BY <1>1, <1>2, <1>3

-----------------------------------------------------------------------------
(* The theorems                                                            *)

LEMMA InitIInv == Init => IInv
<1> SUFFICES ASSUME Init PROVE IInv
    OBVIOUS
<1>1. ShapeInv
    BY NoUploadFacts DEF Init, ShapeInv, Names, Phases
<1>2. MainInv /\ TokenInv
    BY KindFacts DEF Init, MainInv, TokenInv, Readable
<1>3. Rewritten = {} /\ \A w \in Workers : ~Adding(w)
    BY NoUploadFacts DEF Init, Rewritten, Adding
<1>4. ListInv
    BY <1>3 DEF Init, ListInv
<1>5. UnreadableNeedsRewriting
    BY KindFacts DEF Init, UnreadableNeedsRewriting, Unreadable
<1> QED BY <1>1, <1>2, <1>4, <1>5 DEF IInv

LEMMA StutterIInv == IInv /\ UNCHANGED vars => IInv'
<1> SUFFICES ASSUME IInv, UNCHANGED vars PROVE IInv'
    OBVIOUS
<1>1. Rewritten' = Rewritten /\ \A w \in Workers : Adding(w)' <=> Adding(w)
    BY DEF vars, Rewritten, Adding
<1>2. ShapeInv' /\ MainInv' /\ TokenInv'
    BY DEF vars, IInv, ShapeInv, MainInv, TokenInv, Readable
<1>3. ListInv' /\ UnreadableNeedsRewriting'
    BY <1>1 DEF vars, IInv, ListInv, UnreadableNeedsRewriting, Unreadable
<1> QED BY <1>2, <1>3 DEF IInv

LEMMA NextIInv == IInv /\ [Next]_vars => IInv'
<1> SUFFICES ASSUME IInv, [Next]_vars PROVE IInv'
    OBVIOUS
<1>1. CASE Start
    BY <1>1, StartIInv
<1>2. CASE Crash
    BY <1>2, EndIInv DEF Crash
<1>3. CASE MainThread
    <2>1. CASE ExchangeThrows \/ SettingsThrow \/ ShowRecentThrows
        BY <2>1, EndIInv DEF ExchangeThrows, SettingsThrow, ShowRecentThrows
    <2>2. CASE HasToLogin \/ ExchangeCodeForToken \/ SaveToken
        BY <2>2, HasToLoginIInv, ExchangeCodeForTokenIInv, SaveTokenIInv
    <2>3. CASE ShowSettings \/ ChangeSettings \/ SaveSettings
        BY <2>3, ShowSettingsIInv, ChangeSettingsIInv, SaveSettingsIInv
    <2>4. CASE ShowNoRecent \/ CreateRecent \/ SaveRecent
        BY <2>4, ShowNoRecentIInv, CreateRecentIInv, SaveRecentIInv
    <2> QED BY <1>3, <2>1, <2>2, <2>3, <2>4 DEF MainThread
<1>4. ASSUME NEW w \in Workers, UploadWorker(w)
      PROVE  IInv'
    <2>1. CASE ReadSettingsThrows(w)
        BY <2>1, EndIInv DEF ReadSettingsThrows
    <2> QED BY <1>4, <2>1, UploadingIInv, ReadIInv, RewritingIInv DEF UploadWorker
<1>5. CASE UNCHANGED vars
    BY <1>5, StutterIInv
<1> QED BY <1>1, <1>2, <1>3, <1>4, <1>5 DEF Next

THEOREM Inductive == Spec => []IInv
BY InitIInv, NextIInv, PTL DEF Spec

\* For any number of workers, entries and uploads: the settings and the token
\* are lost by nothing but an end of the process that meets their rewriting, the
\* list by such an end or by two that rewrite it at once.
THEOREM LostOnlyByRewriting == Spec => []UnreadableNeedsRewriting
<1>1. IInv => UnreadableNeedsRewriting
    BY DEF IInv
<1> QED BY <1>1, Inductive, PTL

\* The user who has logged in is not asked again, unless the end of the process
\* has met the saving of the token.
THEOREM TokenIsRemembered == Spec => []TokenRemembered
<1>1. IInv => TokenRemembered
    BY DEF IInv, TokenInv, TokenRemembered, Readable
<1> QED BY <1>1, Inductive, PTL

-----------------------------------------------------------------------------
(* What AddFile() makes of a list                                          *)

\* Nothing else than this stands for an induction below.
LEMMA Least ==
    ASSUME NEW S \in SUBSET Nat, S # {}
    PROVE  \E m \in S : \A k \in S : m <= k
<1>1. IsWellFoundedOn(OpToRel(<, Nat), Nat)
    BY NatLessThanWellFounded
<1>2. PICK m \in S : \A k \in S : ~(<<k, m>> \in OpToRel(<, Nat))
    BY <1>1, WFMin
<1>3. \A k \in S : ~(k < m)
    BY <1>2 DEF OpToRel
<1> QED BY <1>3

\* The function that AddedTo() defines by recursion, over the first n others.
IsLoop(f, file, list, n) ==
    f = [i \in 0 .. n |-> IF i = 0 THEN <<file>> ELSE With(f[i - 1], list[i])]

LEMMA LoopExists ==
    ASSUME NEW file, NEW list, NEW n \in Nat
    PROVE  \E f : IsLoop(f, file, list, n)
<1> DEFINE Bad == {m \in Nat : ~\E f : IsLoop(f, file, list, m)}
<1> SUFFICES ASSUME Bad # {} PROVE FALSE
    OBVIOUS
<1>1. PICK m \in Bad : \A k \in Bad : m <= k
    <2> HIDE DEF Bad
    <2>1. Bad \subseteq Nat
        BY DEF Bad
    <2> QED BY <2>1, Least
<1>2. m # 0
    <2>1. IsLoop([i \in 0 .. 0 |-> <<file>>], file, list, 0)
        BY DEF IsLoop
    <2> QED BY <2>1
<1>3. PICK f : IsLoop(f, file, list, m - 1)
    BY <1>1, <1>2
<1>4. IsLoop([i \in 0 .. m |-> IF i = m THEN With(f[m - 1], list[m]) ELSE f[i]],
             file, list, m)
    BY <1>2, <1>3 DEF IsLoop
<1> QED BY <1>4

LEMMA AddedToLoop ==
    ASSUME NEW file, NEW list \in Seq(Files)
    PROVE  \E f : /\ IsLoop(f, file, list, Len(list))
                  /\ AddedTo(file, list) = f[Len(list)]
<1> DEFINE f == CHOOSE f : IsLoop(f, file, list, Len(list))
<1>1. IsLoop(f, file, list, Len(list))
    <2>1. Len(list) \in Nat
        OBVIOUS
    <2>2. \E g : IsLoop(g, file, list, Len(list))
        BY <2>1, LoopExists
    <2> QED BY <2>2, Zenon
<1>2. AddedTo(file, list) = f[Len(list)]
    BY DEF AddedTo, IsLoop
<1> QED BY <1>1, <1>2

Smaller(m, n) == IF m < n THEN m ELSE n

\* No entry twice.
Distinct(list) == \A j, k \in DOMAIN list : list[j] = list[k] => j = k

\* How long the new list would be after k of the others, without a limit.
Filled(file, list, k) == IF \E m \in 1 .. k : list[m] = file THEN k ELSE k + 1

\* The new entry, then those of the first i others that are not it, in order.
IsAdded(files, file, list, i) ==
    /\ files \in Seq(Files)
    /\ Len(files) = Smaller(Filled(file, list, i), MaxRecent)
    /\ files[1] = file
    /\ \A c \in 2 .. Len(files) :
           \E k \in 1 .. i : /\ list[k] # file
                            /\ Filled(file, list, k) = c
                            /\ files[c] = list[k]

\* One round of the loop of AddFile().
LEMMA WithIsAdded ==
    ASSUME NEW file \in Files, NEW list \in Seq(Files), Distinct(list),
           NEW i \in 1 .. Len(list), NEW files, IsAdded(files, file, list, i - 1)
    PROVE  IsAdded(With(files, list[i]), file, list, i)
<1> USE MaxRecentAssumption
<1>1. /\ files \in Seq(Files) /\ Len(files) \in Nat \ {0} /\ files[1] = file
      /\ Len(files) = Smaller(Filled(file, list, i - 1), MaxRecent)
      /\ \A c \in 2 .. Len(files) :
             \E k \in 1 .. i - 1 : /\ list[k] # file
                                  /\ Filled(file, list, k) = c
                                  /\ files[c] = list[k]
    BY DEF IsAdded, Smaller, Filled
<1>2. \A k \in 1 .. i - 1 : list[k] # list[i]
    BY DEF Distinct
<1>3. ASSUME list[i] = file \/ Len(files) = MaxRecent
      PROVE  IsAdded(With(files, list[i]), file, list, i)
    <2>1. With(files, list[i]) = files
        BY <1>1, <1>3 DEF With
    <2>2. Len(files) = Smaller(Filled(file, list, i), MaxRecent)
        BY <1>1, <1>2, <1>3 DEF Smaller, Filled
    <2>3. \A c \in 2 .. Len(files) :
             \E k \in 1 .. i : /\ list[k] # file
                              /\ Filled(file, list, k) = c
                              /\ files[c] = list[k]
        BY <1>1
    <2> QED BY <1>1, <2>1, <2>2, <2>3 DEF IsAdded
<1>4. ASSUME list[i] # file, Len(files) # MaxRecent
      PROVE  IsAdded(With(files, list[i]), file, list, i)
    <2>1. Len(files) = Filled(file, list, i - 1) /\ Len(files) < MaxRecent
        BY <1>1, <1>4 DEF Smaller, Filled
    <2>2. \A c \in DOMAIN files : files[c] # list[i]
        <3> SUFFICES ASSUME NEW c \in DOMAIN files PROVE files[c] # list[i]
            OBVIOUS
        <3>1. CASE c = 1
            BY <1>1, <1>4, <3>1
        <3>2. CASE c # 1
            <4>1. c \in 2 .. Len(files)
                BY <1>1, <3>2
            <4> QED BY <1>1, <1>2, <4>1
        <3> QED BY <3>1, <3>2
    <2>3. With(files, list[i]) = Append(files, list[i])
        BY <2>1, <2>2 DEF With
    <2>4. list[i] \in Files
        OBVIOUS
    <2>5. /\ Append(files, list[i]) \in Seq(Files)
          /\ Len(Append(files, list[i])) = Len(files) + 1
          /\ \A c \in 1 .. Len(files) : Append(files, list[i])[c] = files[c]
          /\ Append(files, list[i])[Len(files) + 1] = list[i]
        BY <1>1, <2>4
    <2>6. Filled(file, list, i) = Len(files) + 1
        BY <1>4, <2>1 DEF Filled
    <2>7. Len(files) + 1 = Smaller(Filled(file, list, i), MaxRecent)
        BY <1>1, <2>1, <2>6 DEF Smaller
    <2>8. ASSUME NEW c \in 2 .. Len(files) + 1
          PROVE  \E k \in 1 .. i : /\ list[k] # file
                                  /\ Filled(file, list, k) = c
                                  /\ Append(files, list[i])[c] = list[k]
        <3>1. CASE c = Len(files) + 1
            BY <1>4, <2>5, <2>6, <3>1
        <3>2. CASE c \in 2 .. Len(files)
            BY <1>1, <2>5, <3>2
        <3> QED BY <1>1, <3>1, <3>2
    <2> QED BY <1>1, <2>3, <2>5, <2>7, <2>8 DEF IsAdded
<1> QED BY <1>3, <1>4

\* What AddFile() makes of a list without repetition.
LEMMA AddedToIsAdded ==
    ASSUME NEW file \in Files, NEW list \in Seq(Files), Distinct(list)
    PROVE  IsAdded(AddedTo(file, list), file, list, Len(list))
<1>1. PICK f : /\ IsLoop(f, file, list, Len(list))
               /\ AddedTo(file, list) = f[Len(list)]
    BY AddedToLoop
<1> DEFINE Bad == {i \in 0 .. Len(list) : ~IsAdded(f[i], file, list, i)}
<1> SUFFICES ASSUME Bad # {} PROVE FALSE
    BY <1>1
<1>2. PICK i \in Bad : \A k \in Bad : i <= k
    <2>1. Bad \in SUBSET Nat
        OBVIOUS
    <2> HIDE DEF Bad
    <2> QED BY <2>1, Least
<1>3. CASE i = 0
    <2>1. f[0] = <<file>>
        BY <1>1 DEF IsLoop
    <2>2. IsAdded(<<file>>, file, list, 0)
        BY MaxRecentAssumption DEF IsAdded, Smaller, Filled
    <2> QED BY <1>2, <1>3, <2>1, <2>2
<1>4. CASE i # 0
    <2>1. i \in 1 .. Len(list) /\ i - 1 \in 0 .. Len(list)
        BY <1>2, <1>4
    <2>2. IsAdded(f[i - 1], file, list, i - 1)
        BY <1>2, <2>1
    <2>3. f[i] = With(f[i - 1], list[i])
        <3>1. \A j \in 0 .. Len(list) :
                  f[j] = IF j = 0 THEN <<file>> ELSE With(f[j - 1], list[j])
            BY <1>1 DEF IsLoop
        <3> HIDE DEF Bad
        <3> QED BY <1>4, <2>1, <3>1
    <2>4. IsAdded(With(f[i - 1], list[i]), file, list, i)
        BY <2>1, <2>2, WithIsAdded
    <2> QED BY <1>2, <2>3, <2>4
<1> QED BY <1>3, <1>4

-----------------------------------------------------------------------------
(* The entries added last                                                  *)

\* The last time each entry of a history was added, and its place from the end.
Last(h) == {i \in DOMAIN h : \A j \in DOMAIN h : h[j] = h[i] => j <= i}
From(h, i) == {j \in Last(h) : j >= i}
Place(h, i) == Cardinality(From(h, i))

\* The list of the entries added last, latest first, and of nothing else.
IsLatest(list, h) ==
    /\ Len(list) = Smaller(Cardinality(Last(h)), MaxRecent)
    /\ \A i \in Last(h) : Place(h, i) <= MaxRecent => list[Place(h, i)] = h[i]
    /\ \A m \in DOMAIN list :
           \E i \in Last(h) : Place(h, i) = m /\ list[m] = h[i]

LEMMA LastFacts ==
    ASSUME NEW h \in Seq(Files)
    PROVE  /\ Last(h) \subseteq 1 .. Len(h)
           /\ IsFiniteSet(Last(h)) /\ Cardinality(Last(h)) \in Nat
           /\ \A i, j \in Last(h) : h[i] = h[j] => i = j
<1>1. Len(h) \in Nat /\ DOMAIN h = 1 .. Len(h)
    OBVIOUS
<1>2. Last(h) \subseteq 1 .. Len(h)
    BY DEF Last
<1>3. IsFiniteSet(1 .. Len(h))
    BY <1>1, FS_Interval
<1>4. IsFiniteSet(Last(h))
    BY <1>2, <1>3, FS_Subset
<1>5. Cardinality(Last(h)) \in Nat
    BY <1>4, FS_CardinalityType
<1>6. ASSUME NEW i \in Last(h), NEW j \in Last(h), h[i] = h[j]
      PROVE  i = j
    <2>1. i \in DOMAIN h /\ j \in DOMAIN h /\ j <= i /\ i <= j
        BY <1>6 DEF Last
    <2> QED BY <1>1, <2>1
<1> QED BY <1>2, <1>4, <1>5, <1>6

LEMMA PlaceFacts ==
    ASSUME NEW h \in Seq(Files), NEW i \in Last(h)
    PROVE  /\ IsFiniteSet(From(h, i))
           /\ Place(h, i) \in 1 .. Cardinality(Last(h))
           /\ \A j \in Last(h) : Place(h, j) <= Place(h, i) <=> j >= i
<1>1. \A j \in Last(h) : /\ From(h, j) \subseteq Last(h)
                         /\ j \in From(h, j)
                         /\ IsFiniteSet(From(h, j)) /\ Place(h, j) \in Nat
    <2> TAKE j \in Last(h)
    <2>1. From(h, j) \subseteq Last(h) /\ j \in From(h, j)
        BY LastFacts DEF From
    <2>2. IsFiniteSet(From(h, j))
        BY <2>1, LastFacts, FS_Subset
    <2> QED BY <2>1, <2>2, FS_CardinalityType DEF Place
<1>2. Place(h, i) # 0
    BY <1>1, FS_EmptySet DEF Place
<1>3. Place(h, i) <= Cardinality(Last(h))
    BY <1>1, LastFacts, FS_Subset DEF Place
<1>4. \A j, k \in Last(h) : j >= k => Place(h, j) <= Place(h, k)
    <2> SUFFICES ASSUME NEW j \in Last(h), NEW k \in Last(h), j >= k
                 PROVE  Place(h, j) <= Place(h, k)
        OBVIOUS
    <2>1. From(h, j) \subseteq From(h, k)
        BY LastFacts DEF From
    <2> QED BY <1>1, <2>1, FS_Subset DEF Place
<1>5. ASSUME NEW j \in Last(h), j < i
      PROVE  Place(h, j) > Place(h, i)
    <2>1. From(h, i) \subseteq From(h, j) /\ j \notin From(h, i)
        BY <1>5, LastFacts DEF From
    <2>2. Place(h, i) # Place(h, j)
        BY <1>1, <2>1, FS_Subset DEF Place
    <2> QED BY <1>1, <1>4, <1>5, <2>2, LastFacts
<1> QED BY <1>1, <1>2, <1>3, <1>4, <1>5, LastFacts

LEMMA LatestDistinct ==
    ASSUME NEW h \in Seq(Files), NEW list \in Seq(Files), IsLatest(list, h)
    PROVE  Distinct(list)
BY LastFacts DEF IsLatest, Distinct

\* One more entry: it is the last, and those that are not it stay what they are.
LEMMA LastAppend ==
    ASSUME NEW h \in Seq(Files), NEW file \in Files
    PROVE  LET n == Len(h) + 1
           IN  Last(Append(h, file)) = {n} \cup {i \in Last(h) : h[i] # file}
<1> DEFINE n == Len(h) + 1
           h1 == Append(h, file)
<1>1. /\ Len(h) \in Nat /\ DOMAIN h = 1 .. Len(h) /\ DOMAIN h1 = 1 .. n
      /\ h1[n] = file /\ \A i \in 1 .. Len(h) : h1[i] = h[i]
    OBVIOUS
<1> HIDE DEF h1
<1>2. Last(h1) \subseteq {n} \cup {i \in Last(h) : h[i] # file}
    <2> SUFFICES ASSUME NEW i \in Last(h1), i # n
                 PROVE  i \in Last(h) /\ h[i] # file
        OBVIOUS
    <2>1. i \in 1 .. Len(h) /\ \A j \in 1 .. n : h1[j] = h1[i] => j <= i
        BY <1>1 DEF Last
    <2> QED BY <1>1, <2>1 DEF Last
<1>3. n \in Last(h1)
    BY <1>1 DEF Last
<1>4. ASSUME NEW i \in Last(h), h[i] # file
      PROVE  i \in Last(h1)
    <2>1. i \in 1 .. Len(h) /\ \A j \in 1 .. Len(h) : h[j] = h[i] => j <= i
        BY <1>1 DEF Last
    <2> QED BY <1>1, <1>4, <2>1 DEF Last
<1> QED BY <1>2, <1>3, <1>4 DEF h1

\* The others move back by one, but for those the entry was behind.
LEMMA PlaceAppend ==
    ASSUME NEW h \in Seq(Files), NEW file \in Files
    PROVE  LET n == Len(h) + 1
               h1 == Append(h, file)
           IN  /\ Place(h1, n) = 1
               /\ \A i \in Last(h) : h[i] # file =>
                      Place(h1, i) = IF \E j \in Last(h) : h[j] = file /\ j >= i
                                     THEN Place(h, i) ELSE Place(h, i) + 1
               /\ Cardinality(Last(h1)) =
                      IF \E j \in Last(h) : h[j] = file
                      THEN Cardinality(Last(h)) ELSE Cardinality(Last(h)) + 1
<1> DEFINE n == Len(h) + 1
           h1 == Append(h, file)
<1>1. Last(h1) = {n} \cup {i \in Last(h) : h[i] # file}
    BY LastAppend
<1>2. Len(h) \in Nat /\ Last(h) \subseteq 1 .. Len(h) /\ n \notin Last(h)
    BY LastFacts
<1> HIDE DEF n, h1
<1>3. ASSUME NEW S \in SUBSET Last(h)
      PROVE  Cardinality({n} \cup {i \in S : h[i] # file}) =
                 IF \E j \in S : h[j] = file
                 THEN Cardinality(S) ELSE Cardinality(S) + 1
    <2>1. IsFiniteSet(S) /\ Cardinality(S) \in Nat
        BY LastFacts, FS_Subset, FS_CardinalityType
    <2>2. CASE \E j \in S : h[j] = file
        <3>1. PICK j \in S : h[j] = file
            BY <2>2
        <3>2. {i \in S : h[i] # file} = S \ {j}
            BY <3>1, LastFacts
        <3>3. IsFiniteSet(S \ {j}) /\ Cardinality(S \ {j}) = Cardinality(S) - 1
            BY <2>1, FS_RemoveElement
        <3>4. Cardinality((S \ {j}) \cup {n}) = Cardinality(S \ {j}) + 1
            BY <1>2, <3>3, FS_AddElement
        <3> DEFINE others == {i \in S : h[i] # file}
        <3>5. {n} \cup others = (S \ {j}) \cup {n}
            BY <3>2
        <3> HIDE DEF others
        <3>6. Cardinality({n} \cup others) = Cardinality(S)
            <4>1. Cardinality((S \ {j}) \cup {n}) = Cardinality(S)
                BY <2>1, <3>3, <3>4
            <4> QED BY <3>5, <4>1, Zenon
        <3>7. Cardinality({n} \cup {i \in S : h[i] # file}) = Cardinality(S)
            BY <3>6, Zenon DEF others
        <3> HIDE DEF others
        <3> QED BY <2>2, <3>7, Zenon
    <2>3. CASE ~\E j \in S : h[j] = file
        <3>1. {n} \cup {i \in S : h[i] # file} = S \cup {n}
            BY <2>3
        <3>2. Cardinality(S \cup {n}) = Cardinality(S) + 1
            BY <1>2, <2>1, FS_AddElement
        <3> QED BY <2>3, <3>1, <3>2
    <2> QED BY <2>2, <2>3
<1>4. Place(h1, n) = 1
    <2>1. From(h1, n) = {n}
        BY <1>1, <1>2 DEF From, n
    <2> QED BY <2>1, FS_Singleton DEF Place
<1>5. ASSUME NEW i \in Last(h), h[i] # file
      PROVE  Place(h1, i) = IF \E j \in Last(h) : h[j] = file /\ j >= i
                            THEN Place(h, i) ELSE Place(h, i) + 1
    <2>1. From(h, i) \in SUBSET Last(h)
        BY DEF From
    <2>2. From(h1, i) = {n} \cup {j \in From(h, i) : h[j] # file}
        BY <1>1, <1>2 DEF From, n
    <2>3. (\E j \in From(h, i) : h[j] = file) <=>
              \E j \in Last(h) : h[j] = file /\ j >= i
        BY DEF From
    <2> QED BY <1>3, <2>1, <2>2, <2>3 DEF Place
<1>6. Cardinality(Last(h1)) = IF \E j \in Last(h) : h[j] = file
                              THEN Cardinality(Last(h)) ELSE Cardinality(Last(h)) + 1
    BY <1>1, <1>3
<1> QED BY <1>4, <1>5, <1>6 DEF n, h1

\* What makes AddFile() right: it keeps the list that of the files added last.
LEMMA AddedToIsLatest ==
    ASSUME NEW h \in Seq(Files), NEW list \in Seq(Files), IsLatest(list, h),
           NEW file \in Files
    PROVE  IsLatest(AddedTo(file, list), Append(h, file))
<1> DEFINE n == Len(h) + 1
           h1 == Append(h, file)
           files == AddedTo(file, list)
           card == Cardinality(Last(h))
           card1 == Cardinality(Last(h1))
           known == \E j \in Last(h) : h[j] = file
<1> USE MaxRecentAssumption
<1>1. /\ Len(h) \in Nat /\ n \notin Last(h) /\ Last(h) \subseteq 1 .. Len(h)
      /\ Last(h1) = {n} \cup {i \in Last(h) : h[i] # file}
      /\ h1[n] = file /\ \A i \in Last(h) : h1[i] = h[i]
    BY LastFacts, LastAppend
<1>2. /\ Place(h1, n) = 1
      /\ \A i \in Last(h) : h[i] # file =>
             Place(h1, i) = IF \E j \in Last(h) : h[j] = file /\ j >= i
                            THEN Place(h, i) ELSE Place(h, i) + 1
      /\ card \in Nat /\ card1 = IF known THEN card ELSE card + 1
    BY PlaceAppend, LastFacts
<1>3. IsAdded(files, file, list, Len(list))
    BY LatestDistinct, AddedToIsAdded
<1> HIDE DEF files, h1, n, card, card1, known
<1>4. /\ Len(list) = Smaller(card, MaxRecent)
      /\ \A i \in Last(h) : Place(h, i) <= MaxRecent => list[Place(h, i)] = h[i]
      /\ \A m \in 1 .. Len(list) :
             \E i \in Last(h) : Place(h, i) = m /\ list[m] = h[i]
    BY DEF IsLatest, card
<1>5. \A i, j \in Last(h) : /\ Place(h, i) \in 1 .. card
                            /\ Place(h, j) <= Place(h, i) <=> j >= i
    BY PlaceFacts DEF card
<1>6. ASSUME NEW i \in Last(h), h[i] # file, Place(h, i) <= MaxRecent
      PROVE  Filled(file, list, Place(h, i)) = Place(h1, i)
    <2>1. Place(h, i) \in 1 .. Len(list)
        BY <1>2, <1>4, <1>5, <1>6 DEF Smaller
    <2>2. (\E m \in 1 .. Place(h, i) : list[m] = file) <=>
              \E j \in Last(h) : h[j] = file /\ j >= i
        <3>1. ASSUME NEW m \in 1 .. Place(h, i), list[m] = file
              PROVE  \E j \in Last(h) : h[j] = file /\ j >= i
            <4>1. PICK j \in Last(h) : Place(h, j) = m /\ list[m] = h[j]
                BY <1>4, <2>1
            <4> QED BY <1>5, <2>1, <3>1, <4>1
        <3>2. ASSUME NEW j \in Last(h), h[j] = file, j >= i
              PROVE  \E m \in 1 .. Place(h, i) : list[m] = file
            <4>1. Place(h, j) \in 1 .. Place(h, i)
                BY <1>2, <1>5, <3>2
            <4>2. list[Place(h, j)] = file
                BY <1>2, <1>4, <1>5, <1>6, <3>2, <4>1
            <4> QED BY <4>1, <4>2
        <3> QED BY <3>1, <3>2
    <2> QED BY <1>2, <1>6, <2>2 DEF Filled
<1>7. Len(files) = Smaller(card1, MaxRecent)
    <2>1. Len(files) = Smaller(Filled(file, list, Len(list)), MaxRecent)
        BY <1>3 DEF IsAdded
    <2>2. CASE \E m \in 1 .. Len(list) : list[m] = file
        <3>1. known
            BY <1>4, <2>2 DEF known
        <3> QED BY <1>2, <1>4, <2>1, <2>2, <3>1 DEF Smaller, Filled
    <2>3. CASE ~(\E m \in 1 .. Len(list) : list[m] = file) /\ ~known
        BY <1>2, <1>4, <2>1, <2>3 DEF Smaller, Filled
    <2>4. CASE ~(\E m \in 1 .. Len(list) : list[m] = file) /\ known
        <3>1. PICK j \in Last(h) : h[j] = file
            BY <2>4 DEF known
        <3>2. Place(h, j) > MaxRecent
            BY <1>2, <1>4, <1>5, <2>4, <3>1 DEF Smaller
        <3>3. card > MaxRecent
            BY <1>2, <1>5, <3>2
        <3> QED BY <1>2, <1>4, <2>1, <2>4, <3>3 DEF Smaller, Filled
    <2> QED BY <2>2, <2>3, <2>4
<1>8. /\ files[1] = file
      /\ \A c \in 2 .. Len(files) :
             \E k \in 1 .. Len(list) : /\ list[k] # file
                                      /\ Filled(file, list, k) = c
                                      /\ files[c] = list[k]
      /\ files \in Seq(Files)
    BY <1>3 DEF IsAdded
<1>9. ASSUME NEW c \in DOMAIN files
      PROVE  \E i \in Last(h1) : Place(h1, i) = c /\ files[c] = h1[i]
    <2>1. CASE c = 1
        BY <1>1, <1>2, <1>8, <2>1
    <2>2. CASE c # 1
        <3>1. c \in 2 .. Len(files)
            BY <1>8, <2>2
        <3>2. PICK k \in 1 .. Len(list) : /\ list[k] # file
                                         /\ Filled(file, list, k) = c
                                         /\ files[c] = list[k]
            BY <1>8, <3>1
        <3>3. PICK i \in Last(h) : Place(h, i) = k /\ list[k] = h[i]
            BY <1>4, <3>2
        <3>4. Place(h, i) <= MaxRecent
            BY <1>2, <1>4, <3>2, <3>3 DEF Smaller
        <3>5. Place(h1, i) = c
            BY <1>6, <3>2, <3>3, <3>4
        <3> QED BY <1>1, <3>2, <3>3, <3>5
    <2> QED BY <2>1, <2>2
<1>10. ASSUME NEW i \in Last(h1), Place(h1, i) <= MaxRecent
       PROVE  files[Place(h1, i)] = h1[i]
    <2>1. CASE i = n
        BY <1>1, <1>2, <1>8, <2>1
    <2>2. CASE i # n
        <3>1. i \in Last(h) /\ h[i] # file
            BY <1>1, <2>2
        <3>2. Place(h, i) <= MaxRecent /\ Place(h1, i) \in 1 .. card + 1
            BY <1>2, <1>5, <1>10, <3>1
        <3>3. Place(h1, i) \in 1 .. card1
            <4>1. CASE \E j \in Last(h) : h[j] = file /\ j >= i
                BY <1>2, <1>5, <3>1, <4>1 DEF known
            <4>2. CASE ~(\E j \in Last(h) : h[j] = file /\ j >= i) /\ known
                <5>1. PICK j \in Last(h) : h[j] = file /\ j < i
                    BY <1>1, <3>1, <4>2 DEF known
                <5>2. Place(h, i) < Place(h, j)
                    BY <1>1, <1>2, <1>5, <3>1, <5>1
                <5> QED BY <1>2, <1>5, <3>1, <4>2, <5>1, <5>2
            <4>3. CASE ~known
                BY <1>2, <3>2, <4>3
            <4> QED BY <4>1, <4>2, <4>3
        <3>4. Place(h1, i) \in DOMAIN files
            BY <1>2, <1>7, <1>8, <1>10, <3>3 DEF Smaller
        <3>5. PICK i2 \in Last(h1) : Place(h1, i2) = Place(h1, i)
                                    /\ files[Place(h1, i)] = h1[i2]
            BY <1>9, <3>4
        <3>6. i2 = i
            <4>1. h1 \in Seq(Files)
                BY DEF h1
            <4>2. i2 >= i /\ i >= i2
                BY <3>5, <4>1, PlaceFacts
            <4> QED BY <1>1, <3>1, <3>5, <4>2 DEF n
        <3> QED BY <3>5, <3>6
    <2> QED BY <2>1, <2>2
<1> QED BY <1>7, <1>9, <1>10 DEF IsLatest, card1, files, h1

-----------------------------------------------------------------------------
(* The entries of the list                                                 *)

\* No entry twice, not more than the limit, and none that was not added.
IsSound(list, h) ==
    /\ Len(list) <= MaxRecent
    /\ Distinct(list)
    /\ \A k \in DOMAIN list : \E i \in DOMAIN h : h[i] = list[k]

FileType == [kind : Kinds, list : Lists]
\* The stages at which a worker knows only its own entry.
Alone == {"begun", "tagged", "stored", "creating", "created"}

\* The lists are lists of entries, and what is counted is in its bounds.
EntriesInv ==
    /\ \A f \in Names : disk[f] \in FileType
    /\ \A w \in Workers : worker[w].list \in Lists
    /\ begun \in 0 .. MaxUploads
    /\ added \in Lists
    /\ torn \subseteq Names

\* Whatever is in the file, or is going to be, is a list without repetition of
\* entries that were added.
SoundInv ==
    /\ IsSound(disk["recent"].list, added)
    /\ \A w \in Workers :
           /\ worker[w].stage \in Alone => worker[w].list = <<Entry(w)>>
           /\ worker[w].stage \in {"listed", "writing"} =>
                  /\ worker[w].list # <<>>
                  /\ IsSound(worker[w].list, Append(added, Entry(w)))

\* As long as nothing overlaps: the list is that of the files added last, and the
\* one that a worker is to write will be.  A list is created before all others.
LatestInv ==
    /\ disk["recent"] = Absent => added = <<>>
    /\ ~overlapped /\ "recent" \notin torn =>
           /\ "recent" \notin Rewritten => IsLatest(disk["recent"].list, added)
           /\ \A w \in Workers :
                  /\ worker[w].stage \in {"listed", "writing"} =>
                         IsLatest(worker[w].list, Append(added, Entry(w)))
                  /\ worker[w].stage \in {"creating", "created"} => added = <<>>
           /\ main \in {"no recent", "creating recent"} => added = <<>>

EInv == EntriesInv /\ SoundInv /\ LatestInv

-----------------------------------------------------------------------------
(* Facts about sound lists                                                 *)

LEMMA NoEntries == <<>> \in Lists
BY DEF Lists

LEMMA SoundFacts ==
    ASSUME NEW h \in Lists
    PROVE  /\ IsSound(<<>>, h)
           /\ \A list : IsSound(list, h) =>
                  \A file \in Files : IsSound(list, Append(h, file))
           /\ \A list \in Lists, file \in Files :
                  IsSound(list, Append(h, file)) =>
                      \A other \in Files : IsSound(list, Append(Append(h, other), file))
<1>1. IsSound(<<>>, h)
    BY MaxRecentAssumption DEF IsSound, Distinct
<1>2. ASSUME NEW file \in Files
      PROVE  /\ Append(h, file) \in Lists
             /\ DOMAIN Append(h, file) = 1 .. Len(h) + 1
             /\ Append(h, file)[Len(h) + 1] = file
             /\ DOMAIN h = 1 .. Len(h) /\ Len(h) \in Nat
             /\ \A i \in DOMAIN h : Append(h, file)[i] = h[i]
    BY DEF Lists
<1>3. ASSUME NEW list, IsSound(list, h), NEW file \in Files
      PROVE  IsSound(list, Append(h, file))
    <2>1. \A i \in DOMAIN h : i \in DOMAIN Append(h, file)
        BY <1>2
    <2> QED BY <1>2, <1>3, <2>1 DEF IsSound
<1>4. ASSUME NEW list \in Lists, NEW file \in Files, IsSound(list, Append(h, file)),
             NEW other \in Files
      PROVE  IsSound(list, Append(Append(h, other), file))
    <2> DEFINE h1 == Append(h, other)
               h2 == Append(h1, file)
    <2>1. /\ h1 \in Lists /\ Len(h1) = Len(h) + 1
          /\ \A i \in DOMAIN h : i \in DOMAIN h1 /\ h1[i] = h[i]
        BY <1>2
    <2>2. /\ DOMAIN h2 = 1 .. Len(h1) + 1
          /\ h2[Len(h1) + 1] = file
          /\ \A i \in DOMAIN h1 : i \in DOMAIN h2 /\ h2[i] = h1[i]
        BY <2>1 DEF Lists
    <2> HIDE DEF h1, h2
    <2>3. \A i \in DOMAIN Append(h, file) :
              \E j \in DOMAIN h2 : h2[j] = Append(h, file)[i]
        <3> TAKE i \in DOMAIN Append(h, file)
        <3>1. CASE i = Len(h) + 1
            BY <1>2, <2>1, <2>2, <3>1
        <3>2. CASE i # Len(h) + 1
            BY <1>2, <2>1, <2>2, <3>2
        <3> QED BY <3>1, <3>2
    <2>4. IsSound(list, h2)
        BY <1>4, <2>3 DEF IsSound
    <2> QED BY <2>4 DEF h1, h2
<1> QED BY <1>1, <1>3, <1>4

LEMMA AddedToFacts ==
    ASSUME NEW h \in Lists, NEW list \in Lists, IsSound(list, h), NEW file \in Files
    PROVE  LET files == AddedTo(file, list)
           IN  /\ files \in Lists /\ files # <<>> /\ Head(files) = file
               /\ IsSound(files, Append(h, file))
<1> DEFINE files == AddedTo(file, list)
<1> USE MaxRecentAssumption DEF Lists
<1>1. IsAdded(files, file, list, Len(list))
    BY AddedToIsAdded DEF IsSound
<1> HIDE DEF files
<1>2. /\ files \in Seq(Files) /\ Len(files) \in 1 .. MaxRecent /\ files[1] = file
      /\ \A c \in 2 .. Len(files) :
             \E k \in 1 .. Len(list) : /\ list[k] # file
                                      /\ Filled(file, list, k) = c
                                      /\ files[c] = list[k]
    BY <1>1 DEF IsAdded, Smaller, Filled
<1>3. files # <<>> /\ Head(files) = file
    BY <1>2
<1>4. Distinct(files)
    <2> SUFFICES ASSUME NEW a \in 1 .. Len(files), NEW b \in 1 .. Len(files),
                        files[a] = files[b], a < b
                 PROVE  FALSE
        BY <1>2 DEF Distinct
    <2>1. b \in 2 .. Len(files)
        BY <1>2
    <2>2. PICK k \in 1 .. Len(list) : /\ list[k] # file
                                     /\ Filled(file, list, k) = b
                                     /\ files[b] = list[k]
        BY <1>2, <2>1
    <2>3. CASE a = 1
        BY <1>2, <2>2, <2>3
    <2>4. CASE a # 1
        <3>1. PICK l \in 1 .. Len(list) : /\ list[l] # file
                                         /\ Filled(file, list, l) = a
                                         /\ files[a] = list[l]
            BY <1>2, <2>4
        <3>2. k = l
            BY <2>2, <3>1 DEF IsSound, Distinct
        <3> QED BY <2>2, <3>1, <3>2
    <2> QED BY <2>3, <2>4
<1>5. /\ Append(h, file)[Len(h) + 1] = file
      /\ DOMAIN Append(h, file) = 1 .. Len(h) + 1
      /\ Len(h) \in Nat /\ DOMAIN h = 1 .. Len(h)
      /\ \A i \in DOMAIN h : Append(h, file)[i] = h[i]
    OBVIOUS
<1>6. ASSUME NEW c \in DOMAIN files
      PROVE  \E i \in DOMAIN Append(h, file) : Append(h, file)[i] = files[c]
    <2>1. CASE c = 1
        BY <1>2, <1>5, <2>1
    <2>2. CASE c # 1
        <3>1. PICK k \in 1 .. Len(list) : files[c] = list[k]
            BY <1>2, <2>2
        <3>2. PICK i \in DOMAIN h : h[i] = list[k]
            BY <3>1 DEF IsSound
        <3> QED BY <1>5, <3>1, <3>2
    <2> QED BY <2>1, <2>2
<1>7. IsSound(files, Append(h, file))
    BY <1>2, <1>4, <1>6 DEF IsSound
<1> QED BY <1>2, <1>3, <1>7 DEF files

-----------------------------------------------------------------------------
(* Lists that begin                                                        *)

LEMMA EmptyIsLatest == IsLatest(<<>>, <<>>)
<1>1. Last(<<>>) = {}
    BY DEF Last
<1> QED BY <1>1, FS_EmptySet, MaxRecentAssumption DEF IsLatest, Smaller

LEMMA FirstFacts ==
    ASSUME NEW file \in Files
    PROVE  /\ IsLatest(<<file>>, Append(<<>>, file))
           /\ \A h \in Lists : IsSound(<<file>>, Append(h, file))
<1>1. <<>> \in Seq(Files)
    OBVIOUS
<1>4. AddedTo(file, <<>>) = <<file>>
    <2>1. PICK f : IsLoop(f, file, <<>>, Len(<<>>)) /\ AddedTo(file, <<>>) = f[Len(<<>>)]
        BY <1>1, AddedToLoop
    <2>2. Len(<<>>) = 0
        OBVIOUS
    <2>3. f[0] = <<file>>
        BY <2>1, <2>2 DEF IsLoop
    <2> QED BY <2>1, <2>2, <2>3
<1>5. IsLatest(<<file>>, Append(<<>>, file))
    BY <1>1, <1>4, EmptyIsLatest, AddedToIsLatest
<1>6. ASSUME NEW h \in Lists
      PROVE  IsSound(<<file>>, Append(h, file))
    <2>1. IsSound(<<>>, h) /\ <<>> \in Lists
        BY <1>1, SoundFacts DEF Lists
    <2> QED BY <1>4, <2>1, AddedToFacts
<1> QED BY <1>5, <1>6

LEMMA DiskTypeFacts ==
    /\ Absent \in FileType /\ Empty \in FileType /\ Mixed \in FileType
    /\ \A list \in Lists : Whole(list) \in FileType /\ Whole(list).list = list
    /\ Absent.list = <<>> /\ Empty.list = <<>> /\ Mixed.list = <<>>
    /\ \A list : Whole(list) # Absent
    /\ Empty # Absent /\ Mixed # Absent
BY DEF Absent, Empty, Mixed, Whole, FileType, Kinds, Lists

-----------------------------------------------------------------------------
(* The steps of the main thread, and the end                               *)

\* What becomes of a file that is truncated or written.
LEMMA WrittenEntries ==
    ASSUME IInv, EntriesInv, NEW f \in Names, NEW list \in Lists,
           Truncate(f) \/ Write(f, list)
    PROVE  /\ \A g \in Names : disk'[g] \in FileType
           /\ disk'[f] \in {Empty, Mixed, Whole(list)}
           /\ \A g \in Names \ {f} : disk'[g] = disk[g]
<1>1. /\ disk'[f] \in {Empty, Mixed, Whole(list)}
      /\ \A g \in Names \ {f} : disk'[g] = disk[g]
    BY TruncateFacts, WriteFacts DEF IInv
<1> QED BY <1>1, DiskTypeFacts DEF EntriesInv

\* A step of the main thread that has nothing to do with the list.
LEMMA MainAsideEInv ==
    ASSUME IInv, EInv, IInv',
           UNCHANGED <<worker, begun, added, torn, overlapped>>,
           UNCHANGED disk \/ \E f \in {"settings", "token"} :
                                  Truncate(f) \/ Write(f, <<>>),
           main \notin {"no recent", "creating recent"},
           main' \notin {"no recent", "creating recent"}
    PROVE  EInv'
<1>1. \A g \in Names : disk'[g] \in FileType /\ disk'["recent"] = disk["recent"]
    <2>1. CASE UNCHANGED disk
        BY <2>1 DEF EInv, EntriesInv
    <2>2. ASSUME NEW f \in {"settings", "token"}, Truncate(f) \/ Write(f, <<>>)
          PROVE  \A g \in Names : disk'[g] \in FileType
                                  /\ disk'["recent"] = disk["recent"]
        <3>1. f \in Names /\ "recent" \in Names \ {f}
            BY DEF Names
        <3> QED BY <2>2, <3>1, NoEntries, WrittenEntries DEF EInv
    <2> QED BY <2>1, <2>2
<1>2. "recent" \in Rewritten' <=> "recent" \in Rewritten
    BY RewrittenFacts DEF IInv, Rewritten, ShapeInv, Names
<1>3. disk'["recent"] = disk["recent"]
    BY <1>1 DEF Names
<1>4. EntriesInv'
    BY <1>1 DEF EInv, EntriesInv
<1>5. SoundInv'
    BY <1>3 DEF EInv, SoundInv, Entry
<1>6. LatestInv'
    BY <1>2, <1>3 DEF EInv, LatestInv, Entry
<1> QED BY <1>4, <1>5, <1>6 DEF EInv

LEMMA MainEInv ==
    ASSUME IInv, EInv, IInv',
           \/ Start \/ HasToLogin \/ ExchangeCodeForToken \/ SaveToken
           \/ ShowSettings \/ ChangeSettings \/ SaveSettings
    PROVE  EInv'
BY MainAsideEInv
   DEF Start, HasToLogin, ExchangeCodeForToken, SaveToken, ShowSettings,
       ChangeSettings, SaveSettings, MainGoes

LEMMA EndEInv ==
    ASSUME IInv, EInv, End
    PROVE  EInv'
<1>1. /\ main' = "off" /\ worker' = [w \in Workers |-> NoUpload]
      /\ torn' = torn \cup Rewritten
      /\ UNCHANGED <<disk, begun, added, overlapped>>
    BY DEF End
<1>2. NoUpload.stage = "none" /\ NoUpload.list = <<>>
    BY DEF NoUpload
<1>3. EntriesInv'
    <2>1. Rewritten \subseteq Names
        BY RewrittenFacts DEF IInv
    <2>2. torn' \subseteq Names
        BY <1>1, <2>1 DEF EInv, EntriesInv
    <2>3. <<>> \in Lists
        BY DEF Lists
    <2> QED BY <1>1, <1>2, <2>2, <2>3 DEF EInv, EntriesInv
<1>4. SoundInv'
    BY <1>1, <1>2 DEF EInv, SoundInv, Alone
<1>5. LatestInv'
    BY <1>1, <1>2 DEF EInv, LatestInv
<1> QED BY <1>3, <1>4, <1>5 DEF EInv

LEMMA ShowNoRecentEInv ==
    ASSUME IInv, EInv, IInv', ShowNoRecent
    PROVE  EInv'
<1>1. /\ disk["recent"] = Absent /\ main = "ready" /\ main' = "no recent"
      /\ overlapped' = (overlapped \/ \E w \in Workers : Adding(w))
      /\ UNCHANGED <<disk, worker, begun, added, torn>>
    BY DEF ShowNoRecent, MainGoes
<1>2. "recent" \in Rewritten' <=> "recent" \in Rewritten
    BY <1>1 DEF Rewritten
<1>3. EntriesInv' /\ SoundInv'
    BY <1>1 DEF EInv, EntriesInv, SoundInv, Entry
<1>4. LatestInv'
    BY <1>1, <1>2 DEF EInv, LatestInv, Entry
<1> QED BY <1>3, <1>4 DEF EInv

LEMMA CreateRecentEInv ==
    ASSUME IInv, EInv, IInv', CreateRecent
    PROVE  EInv'
<1>1. /\ main = "no recent" /\ main' = "creating recent" /\ Truncate("recent")
      /\ UNCHANGED <<worker, begun, added, torn, overlapped>>
    BY DEF CreateRecent, MainGoes
<1>2. disk'["recent"] = Empty /\ \A g \in Names : disk'[g] \in FileType
    <2>1. "recent" \in Names /\ <<>> \in Lists
        BY DEF Names, Lists
    <2> QED BY <1>1, <2>1, WrittenEntries, TruncateFacts DEF IInv, EInv
<1>3. "recent" \in Rewritten'
    BY <1>1, RewrittenFacts DEF IInv, Rewritten, ShapeInv, Names
<1>4. EntriesInv'
    BY <1>1, <1>2 DEF EInv, EntriesInv
<1>5. SoundInv'
    BY <1>1, <1>2, SoundFacts, DiskTypeFacts DEF EInv, EntriesInv, SoundInv, Entry
<1>6. LatestInv'
    BY <1>1, <1>2, <1>3, DiskTypeFacts DEF EInv, LatestInv, Entry
<1> QED BY <1>4, <1>5, <1>6 DEF EInv

LEMMA SaveRecentEInv ==
    ASSUME IInv, EInv, IInv', SaveRecent
    PROVE  EInv'
<1>1. /\ main = "creating recent" /\ main' = "ready" /\ Write("recent", <<>>)
      /\ UNCHANGED <<worker, begun, added, torn, overlapped>>
    BY DEF SaveRecent, MainGoes
<1>2. <<>> \in Lists /\ "recent" \in Names
    BY DEF Lists, Names
<1>3. /\ disk'["recent"] \in {Empty, Mixed, Whole(<<>>)}
      /\ \A g \in Names : disk'[g] \in FileType
    BY <1>1, <1>2, WrittenEntries DEF EInv
<1>6. disk'["recent"].list = <<>> /\ disk'["recent"] # Absent
    BY <1>2, <1>3, DiskTypeFacts
<1>7. EntriesInv'
    BY <1>1, <1>3 DEF EInv, EntriesInv
<1>8. SoundInv'
    BY <1>1, <1>6, SoundFacts DEF EInv, EntriesInv, SoundInv, Entry
<1>9. IsLatest(<<>>, <<>>)
    BY EmptyIsLatest
<1>10. LatestInv'
    BY <1>1, <1>6, <1>9 DEF EInv, LatestInv, Entry
<1> QED BY <1>7, <1>8, <1>10 DEF EInv

-----------------------------------------------------------------------------
(* The steps of the workers                                                *)

\* A step of a worker that leaves the file and the history alone.
LEMMA WorkerEInv ==
    ASSUME IInv, EInv, IInv', NEW w \in Workers, NEW u, IsUpload(u), To(w, u),
           UNCHANGED <<disk, added>>, begun' \in 0 .. MaxUploads,
           overlapped => overlapped',
           u.list \in Lists,
           u.stage \in Alone => u.list = <<Head(u.list)>>,
           u.stage = "listed" =>
               /\ u.list # <<>> /\ IsSound(u.list, Append(added, Head(u.list)))
               /\ ~overlapped' /\ "recent" \notin torn =>
                      IsLatest(u.list, Append(added, Head(u.list))),
           u.stage = "creating" => added = <<>>,
           worker[w].stage \notin {"created", "writing"},
           u.stage \notin {"created", "writing"}
    PROVE  EInv'
<1>1. /\ worker'[w] = u
      /\ \A v \in Workers \ {w} : worker'[v] = worker[v]
      /\ UNCHANGED <<main, torn>>
    BY ToFacts
<1>2. Rewritten' = Rewritten
    BY <1>1 DEF Rewritten
<1>3. EntriesInv'
    BY <1>1 DEF EInv, EntriesInv
<1>4. SoundInv'
    BY <1>1 DEF EInv, SoundInv, Entry
<1>5. LatestInv'
    BY <1>1, <1>2 DEF EInv, LatestInv, Entry
<1> QED BY <1>3, <1>4, <1>5 DEF EInv

LEMMA UploadingEInv ==
    ASSUME IInv, EInv, IInv', NEW w \in Workers,
           BeginUpload(w) \/ ReadSettings(w) \/ UploadFails(w)
    PROVE  EInv'
<1>1. CASE BeginUpload(w)
    <2>1. PICK file \in Files : To(w, [stage |-> "begun", list |-> <<file>>])
        BY <1>1 DEF BeginUpload
    <2> DEFINE u == [stage |-> "begun", list |-> <<file>>]
    <2>2. IsUpload(u) /\ u.stage = "begun"
        BY DEF IsUpload, Stages
    <2>3. u.list = <<Head(u.list)>> /\ u.list \in Lists
        BY DEF Lists
    <2>4. begun' \in 0 .. MaxUploads
        BY <1>1, MaxUploadsAssumption DEF BeginUpload, EInv, EntriesInv
    <2> HIDE DEF u
    <2>5. To(w, u)
        BY <2>1 DEF u
    <2> QED BY <1>1, <2>2, <2>3, <2>4, <2>5, WorkerEInv DEF BeginUpload
<1>2. CASE ReadSettings(w)
    <2> DEFINE next == IF worker[w].stage = "begun" THEN "tagged" ELSE "stored"
               u == [worker[w] EXCEPT !.stage = next]
    <2>1. next \in {"tagged", "stored"} /\ next \in Stages
        BY DEF Stages
    <2>2. To(w, u)
        BY <1>2, UploadOf DEF ReadSettings, IsUpload
    <2>3. IsUpload(u) /\ u.stage = next
        BY <2>1, UploadOf
    <2>4. u.list = worker[w].list
        BY DEF IInv, ShapeInv, IsUpload
    <2>5. u.list \in Lists /\ u.list = <<Head(u.list)>>
        BY <1>2, <2>4 DEF ReadSettings, EInv, EntriesInv, SoundInv, Alone, Entry
    <2>6. begun' \in 0 .. MaxUploads
        BY <1>2 DEF ReadSettings, EInv, EntriesInv
    <2> HIDE DEF u, next
    <2> QED BY <1>2, <2>1, <2>2, <2>3, <2>5, <2>6, WorkerEInv DEF ReadSettings
<1>3. CASE UploadFails(w)
    <2>1. NoUpload.list \in Lists
        BY DEF NoUpload, Lists
    <2>2. begun' \in 0 .. MaxUploads
        BY <1>3 DEF UploadFails, EInv, EntriesInv
    <2> QED BY <1>3, <2>1, <2>2, NoUploadFacts, WorkerEInv DEF UploadFails, Alone
<1> QED BY <1>1, <1>2, <1>3

LEMMA ReadRecentEInv ==
    ASSUME IInv, EInv, IInv', NEW w \in Workers, ReadRecent(w)
    PROVE  EInv'
<1> DEFINE list == disk["recent"].list
           file == Entry(w)
           u == [stage |-> "listed", list |-> AddedTo(file, list)]
<1>1. /\ worker[w].stage = "stored" /\ To(w, u) /\ Overlaps(w)
      /\ UNCHANGED <<disk, begun, added>>
    BY DEF ReadRecent
<1>2. list \in Lists /\ file \in Files /\ added \in Lists
    <2>1. worker[w].list \in Lists /\ worker[w].list = <<file>>
        BY <1>1 DEF EInv, EntriesInv, SoundInv, Alone
    <2>2. disk["recent"] \in FileType
        BY DEF EInv, EntriesInv, Names
    <2> HIDE DEF file
    <2>3. file \in Files
        BY <2>1 DEF Lists
    <2> QED BY <2>2, <2>3 DEF EInv, EntriesInv, FileType
<1>3. IsUpload(u) /\ u.stage = "listed" /\ u.list = AddedTo(file, list)
    BY DEF IsUpload, Stages
<1>4. IsSound(list, added)
    BY DEF EInv, SoundInv
<1> HIDE DEF list, file, u
<1>5. /\ u.list \in Lists /\ u.list # <<>> /\ Head(u.list) = file
      /\ IsSound(u.list, Append(added, file))
    BY <1>2, <1>3, <1>4, AddedToFacts
<1>6. overlapped' = (overlapped \/ main \in {"no recent", "creating recent"}
                                \/ \E v \in Workers \ {w} : Adding(v))
    BY <1>1 DEF Overlaps
<1>7. ASSUME ~overlapped', "recent" \notin torn
      PROVE  IsLatest(u.list, Append(added, file))
    <2>1. ~("recent" \in Rewritten)
        BY <1>1, <1>6, <1>7, RewrittenFacts DEF IInv, Adding
    <2>2. IsLatest(list, added)
        BY <1>6, <1>7, <2>1 DEF EInv, LatestInv, list
    <2> QED BY <1>2, <1>3, <2>2, AddedToIsLatest DEF Lists
<1>8. begun' \in 0 .. MaxUploads
    BY <1>1 DEF EInv, EntriesInv
<1> QED BY <1>1, <1>3, <1>5, <1>6, <1>7, <1>8, WorkerEInv DEF Alone

LEMMA ReadNoRecentEInv ==
    ASSUME IInv, EInv, IInv', NEW w \in Workers, ReadNoRecent(w)
    PROVE  EInv'
<1> DEFINE u == [worker[w] EXCEPT !.stage = "creating"]
<1>1. /\ worker[w].stage = "stored" /\ disk["recent"] = Absent
      /\ To(w, u) /\ Overlaps(w) /\ UNCHANGED <<disk, begun, added>>
    BY DEF ReadNoRecent
<1>2. IsUpload(u) /\ u.stage = "creating"
    BY UploadOf DEF Stages
<1>3. u.list = worker[w].list
    BY DEF IInv, ShapeInv, IsUpload
<1>4. u.list \in Lists /\ u.list = <<Head(u.list)>>
    BY <1>1, <1>3 DEF EInv, EntriesInv, SoundInv, Alone, Entry
<1>5. added = <<>> /\ begun' \in 0 .. MaxUploads
    BY <1>1 DEF EInv, LatestInv, EntriesInv
<1>6. overlapped => overlapped'
    BY <1>1 DEF Overlaps
<1> HIDE DEF u
<1> QED BY <1>1, <1>2, <1>4, <1>5, <1>6, WorkerEInv

LEMMA TruncateRecentEInv ==
    ASSUME IInv, EInv, IInv', NEW w \in Workers, TruncateRecent(w)
    PROVE  EInv'
<1> DEFINE next == IF worker[w].stage = "creating" THEN "created" ELSE "writing"
           u == [worker[w] EXCEPT !.stage = next]
<1>1. /\ worker[w].stage \in {"creating", "listed"} /\ Truncate("recent")
      /\ UNCHANGED <<begun, added, overlapped>>
    BY DEF TruncateRecent
<1>2. To(w, u)
    BY UploadOf DEF TruncateRecent, IsUpload
<1>3. IsUpload(u) /\ u.stage = next
    BY UploadOf DEF Stages
<1>4. u.list = worker[w].list
    BY DEF IInv, ShapeInv, IsUpload
<1> HIDE DEF u
<1>5. /\ worker'[w] = u
      /\ \A v \in Workers \ {w} : worker'[v] = worker[v]
      /\ UNCHANGED <<main, torn>>
    BY <1>2, <1>3, ToFacts
<1>6. disk'["recent"] = Empty /\ \A g \in Names : disk'[g] \in FileType
    <2>1. "recent" \in Names
        BY DEF Names
    <2> QED BY <1>1, <2>1, NoEntries, WrittenEntries, TruncateFacts DEF IInv, EInv
<1>7. "recent" \in Rewritten'
    <2>1. worker'[w].stage \in {"created", "writing"}
        BY <1>3, <1>5
    <2> QED BY <2>1, RewrittenFacts DEF IInv, Rewritten, ShapeInv, Names
<1>8. EntriesInv'
    BY <1>1, <1>4, <1>5, <1>6 DEF EInv, EntriesInv
<1>9. SoundInv'
    <2>1. IsSound(disk'["recent"].list, added')
        BY <1>1, <1>6, SoundFacts, DiskTypeFacts DEF EInv, EntriesInv
    <2> QED BY <1>1, <1>3, <1>4, <1>5, <2>1 DEF EInv, SoundInv, Entry, Alone
<1>10. LatestInv'
    BY <1>1, <1>3, <1>4, <1>5, <1>6, <1>7, DiskTypeFacts DEF EInv, LatestInv, Entry
<1> QED BY <1>8, <1>9, <1>10 DEF EInv

\* The new list that a worker has created is empty, and its own is to be written.
LEMMA CreatedEInv ==
    ASSUME IInv, EInv, IInv', NEW w \in Workers, Created(w)
    PROVE  EInv'
<1> DEFINE u == [worker[w] EXCEPT !.stage = "listed"]
<1>1. /\ worker[w].stage = "created" /\ Write("recent", <<>>) /\ To(w, u)
      /\ UNCHANGED <<begun, added, overlapped>>
    BY DEF Created
<1>2. IsUpload(u) /\ u.stage = "listed"
    BY UploadOf DEF Stages
<1>3. u.list = worker[w].list
    BY DEF IInv, ShapeInv, IsUpload
<1> HIDE DEF u
<1>4. /\ worker'[w] = u
      /\ \A v \in Workers \ {w} : worker'[v] = worker[v]
      /\ UNCHANGED <<main, torn>>
    BY <1>1, <1>2, ToFacts
<1>5. /\ disk'["recent"].list = <<>> /\ disk'["recent"] # Absent
      /\ \A g \in Names : disk'[g] \in FileType
    <2>1. "recent" \in Names
        BY DEF Names
    <2>2. disk'["recent"] \in {Empty, Mixed, Whole(<<>>)}
        BY <1>1, <2>1, NoEntries, WrittenEntries DEF EInv
    <2> QED BY <1>1, <2>1, <2>2, NoEntries, WrittenEntries, DiskTypeFacts DEF EInv
<1>6. /\ u.list = <<Head(u.list)>> /\ u.list \in Lists /\ Head(u.list) \in Files
      /\ u.list # <<>>
    <2>1. u.list = <<Head(u.list)>> /\ u.list \in Lists
        BY <1>1, <1>3 DEF EInv, EntriesInv, SoundInv, Alone, Entry
    <2> QED BY <2>1 DEF Lists
<1>7. EntriesInv'
    BY <1>1, <1>4, <1>5, <1>6 DEF EInv, EntriesInv
<1>8. SoundInv'
    <2>1. IsSound(disk'["recent"].list, added')
        BY <1>1, <1>5, SoundFacts DEF EInv, EntriesInv
    <2>2. IsSound(u.list, Append(added', Head(u.list)))
        BY <1>1, <1>6, FirstFacts DEF EInv, EntriesInv
    <2> QED BY <1>1, <1>2, <1>4, <1>6, <2>1, <2>2 DEF EInv, SoundInv, Entry, Alone
<1>9. LatestInv'
    <2>1. ~overlapped /\ "recent" \notin torn => added = <<>>
        BY <1>1 DEF EInv, LatestInv
    <2>2. IsLatest(u.list, Append(<<>>, Head(u.list)))
        BY <1>6, FirstFacts
    <2> QED BY <1>1, <1>2, <1>4, <1>5, <2>1, <2>2, EmptyIsLatest
            DEF EInv, LatestInv, Entry
<1> QED BY <1>7, <1>8, <1>9 DEF EInv

LEMMA WriteRecentEInv ==
    ASSUME IInv, EInv, IInv', NEW w \in Workers, WriteRecent(w)
    PROVE  EInv'
<1> DEFINE list == worker[w].list
           file == Entry(w)
<1>1. /\ worker[w].stage = "writing" /\ Write("recent", list) /\ To(w, NoUpload)
      /\ added' = Append(added, file)
      /\ UNCHANGED <<begun, overlapped>>
    BY DEF WriteRecent
<1>2. /\ worker'[w] = NoUpload
      /\ \A v \in Workers \ {w} : worker'[v] = worker[v]
      /\ UNCHANGED <<main, torn>>
    BY <1>1, NoUploadFacts, ToFacts
<1>3. /\ list \in Lists /\ list # <<>> /\ added \in Lists
      /\ IsSound(list, Append(added, file))
    BY <1>1 DEF EInv, EntriesInv, SoundInv
<1>4. file = Head(list)
    BY DEF Entry
<1> HIDE DEF list, file
<1>5. file \in Files /\ added' \in Lists
    BY <1>1, <1>3, <1>4 DEF Lists
<1>6. /\ disk'["recent"] \in {Empty, Mixed, Whole(list)}
      /\ disk'["recent"] # Absent
      /\ disk'["recent"].list \in {<<>>, list}
      /\ \A g \in Names : disk'[g] \in FileType
    <2>1. "recent" \in Names
        BY DEF Names
    <2>2. disk'["recent"] \in {Empty, Mixed, Whole(list)}
        BY <1>1, <1>3, <2>1, WrittenEntries DEF EInv
    <2>3. \A g \in Names : disk'[g] \in FileType
        BY <1>1, <1>3, <2>1, WrittenEntries DEF EInv
    <2> QED BY <1>3, <2>2, <2>3, DiskTypeFacts
<1>7. NoUpload.list \in Lists /\ NoUpload.stage = "none"
    BY NoEntries DEF NoUpload
<1>8. EntriesInv'
    BY <1>1, <1>2, <1>5, <1>6, <1>7 DEF EInv, EntriesInv
<1>9. SoundInv'
    <2>1. IsSound(disk'["recent"].list, added')
        BY <1>1, <1>3, <1>5, <1>6, SoundFacts
    <2>2. ASSUME NEW v \in Workers, worker'[v].stage \in {"listed", "writing"}
          PROVE  /\ worker'[v].list # <<>>
                 /\ IsSound(worker'[v].list, Append(added', Head(worker'[v].list)))
        <3>1. v # w /\ worker'[v] = worker[v]
            BY <1>2, <1>7, <2>2
        <3>2. /\ worker[v].list # <<>> /\ worker[v].list \in Lists
              /\ IsSound(worker[v].list, Append(added, Head(worker[v].list)))
            BY <2>2, <3>1 DEF EInv, EntriesInv, SoundInv, Entry
        <3>3. Head(worker[v].list) \in Files
            BY <3>2 DEF Lists
        <3> QED BY <1>1, <1>3, <1>5, <3>1, <3>2, <3>3, SoundFacts
    <2>3. ASSUME NEW v \in Workers, worker'[v].stage \in Alone
          PROVE  worker'[v].list = <<Head(worker'[v].list)>>
        BY <1>2, <1>7, <2>3 DEF EInv, SoundInv, Entry, Alone
    <2> QED BY <2>1, <2>2, <2>3 DEF SoundInv, Entry
<1>10. LatestInv'
    <2> SUFFICES ASSUME ~overlapped, "recent" \notin torn
                 PROVE  /\ IsLatest(disk'["recent"].list, added')
                        /\ \A v \in Workers : worker'[v].stage \notin
                               {"creating", "created", "listed", "writing"}
                        /\ main' \notin {"no recent", "creating recent"}
        BY <1>1, <1>2, <1>6 DEF LatestInv
    <2>1. /\ main \notin {"no recent", "creating recent"}
          /\ \A v \in Workers \ {w} : ~Adding(v)
          /\ disk["recent"] = Empty
        BY <1>1, RewrittenFacts DEF IInv, ListInv, Adding
    <2>2. disk'["recent"] = Whole(list)
        <3>1. "recent" \in Names
            BY DEF Names
        <3> QED BY <1>1, <2>1, <3>1, WriteFacts DEF IInv
    <2>3. IsLatest(list, Append(added, file))
        BY <1>1 DEF EInv, LatestInv, list, file
    <2>4. disk'["recent"].list = list
        BY <1>3, <2>2, DiskTypeFacts
    <2> QED BY <1>1, <1>2, <1>7, <2>1, <2>3, <2>4 DEF Adding
<1> QED BY <1>8, <1>9, <1>10 DEF EInv

-----------------------------------------------------------------------------
(* The theorems about the list                                             *)

LEMMA InitEInv == Init => EInv
<1> SUFFICES ASSUME Init PROVE EInv
    OBVIOUS
<1>1. /\ disk = [settings |-> Whole(<<>>), recent |-> Absent, token |-> Absent]
      /\ main = "off" /\ worker = [w \in Workers |-> NoUpload] /\ begun = 0
      /\ added = <<>> /\ torn = {}
    BY DEF Init
<1>2. NoUpload.stage = "none" /\ NoUpload.list = <<>>
    BY DEF NoUpload
<1>3. EntriesInv
    <2>1. \A f \in Names : disk[f] \in {Whole(<<>>), Absent}
        BY <1>1 DEF Names
    <2>2. \A f \in Names : disk[f] \in FileType
        BY <2>1, NoEntries, DiskTypeFacts
    <2>3. begun \in 0 .. MaxUploads
        BY <1>1, MaxUploadsAssumption
    <2> QED BY <1>1, <1>2, <2>2, <2>3, NoEntries DEF EntriesInv
<1>4. disk["recent"] = Absent
    BY <1>1
<1>5. SoundInv
    BY <1>1, <1>2, <1>4, NoEntries, SoundFacts, DiskTypeFacts DEF SoundInv, Alone
<1>6. LatestInv
    BY <1>1, <1>2, <1>4, EmptyIsLatest, DiskTypeFacts DEF LatestInv
<1> QED BY <1>3, <1>5, <1>6 DEF EInv

LEMMA NextEInv == IInv /\ EInv /\ [Next]_vars => EInv'
<1> SUFFICES ASSUME IInv, EInv, [Next]_vars PROVE EInv'
    OBVIOUS
<1>1. IInv'
    BY NextIInv
<1>2. CASE Start
    BY <1>1, <1>2, MainEInv
<1>3. CASE Crash
    BY <1>3, EndEInv DEF Crash
<1>4. CASE MainThread
    <2>1. CASE ExchangeThrows \/ SettingsThrow \/ ShowRecentThrows
        BY <2>1, EndEInv DEF ExchangeThrows, SettingsThrow, ShowRecentThrows
    <2>2. CASE ShowNoRecent \/ CreateRecent \/ SaveRecent
        BY <1>1, <2>2, ShowNoRecentEInv, CreateRecentEInv, SaveRecentEInv
    <2> QED BY <1>1, <1>4, <2>1, <2>2, MainEInv DEF MainThread
<1>5. ASSUME NEW w \in Workers, UploadWorker(w)
      PROVE  EInv'
    <2>1. CASE ReadSettingsThrows(w)
        BY <2>1, EndEInv DEF ReadSettingsThrows
    <2>2. CASE ReadRecent(w) \/ ReadNoRecent(w)
        BY <1>1, <2>2, ReadRecentEInv, ReadNoRecentEInv
    <2>3. CASE Created(w) \/ TruncateRecent(w) \/ WriteRecent(w)
        BY <1>1, <2>3, CreatedEInv, TruncateRecentEInv, WriteRecentEInv
    <2> QED BY <1>1, <1>5, <2>1, <2>2, <2>3, UploadingEInv DEF UploadWorker
<1>6. CASE UNCHANGED vars
    <2>1. Rewritten' = Rewritten
        BY <1>6 DEF vars, Rewritten
    <2> QED BY <1>6, <2>1 DEF vars, EInv, EntriesInv, SoundInv, LatestInv, Entry
<1> QED BY <1>2, <1>3, <1>4, <1>5, <1>6 DEF Next

THEOREM EntriesInductive == Spec => []EInv
BY Inductive, InitEInv, NextEInv, PTL DEF Spec

\* The variables have their types, for any number of workers and uploads.
THEOREM TypeCorrect == Spec => []TypeOK
<1>1. IInv /\ EInv => TypeOK
    <2> SUFFICES ASSUME IInv, EInv PROVE TypeOK
        OBVIOUS
    <2>1. disk \in [Names -> FileType]
        BY DEF IInv, ShapeInv, EInv, EntriesInv
    <2>2. \A w \in Workers : worker[w] \in [stage : Stages, list : Lists]
        BY DEF IInv, ShapeInv, EInv, EntriesInv, IsUpload
    <2>3. worker \in [Workers -> [stage : Stages, list : Lists]]
        BY <2>2 DEF IInv, ShapeInv
    <2>4. /\ main \in Phases /\ has_token \in BOOLEAN /\ authorized \in BOOLEAN
          /\ overlapped \in BOOLEAN
        BY DEF IInv, ShapeInv
    <2>5. begun \in 0 .. MaxUploads /\ added \in Lists /\ torn \subseteq Names
        BY DEF EInv, EntriesInv
    <2> QED BY <2>1, <2>3, <2>4, <2>5
            DEF TypeOK, Names, FileType, Kinds, Phases, Stages
<1> QED BY <1>1, Inductive, EntriesInductive, PTL

\* Whatever overlaps, fails or ends: a list of recent files that parses has no
\* entry twice, not more than MAX_RECENT_FILES, and none that was not uploaded.
THEOREM ListSound == Spec => []ListIsSound
<1>1. EInv => ListIsSound
    BY DEF EInv, SoundInv, IsSound, Distinct, ListIsSound
<1> QED BY <1>1, EntriesInductive, PTL

\* Uploads that do not overlap leave the files uploaded last in the list, latest
\* first, for any number of them and any limit: AddFile() keeps its promise.
THEOREM LatestFirst == Spec => []RecentIsLatest
<1>1. IInv /\ EInv => RecentIsLatest
    <2> SUFFICES ASSUME IInv, EInv, "recent" \notin Rewritten \cup torn, ~overlapped
                 PROVE  LET list == disk["recent"].list
                        IN  /\ Len(list) = (IF Cardinality(LastAdded) < MaxRecent
                                            THEN Cardinality(LastAdded) ELSE MaxRecent)
                            /\ \A i \in LastAdded :
                                   LET place == Cardinality({j \in LastAdded : j >= i})
                                   IN  place <= MaxRecent => list[place] = added[i]
        BY DEF RecentIsLatest
    <2>1. IsLatest(disk["recent"].list, added)
        BY DEF EInv, LatestInv
    <2> QED BY <2>1 DEF IsLatest, Smaller, LastAdded, Last, Place, From
<1> QED BY <1>1, Inductive, EntriesInductive, PTL

=============================================================================
