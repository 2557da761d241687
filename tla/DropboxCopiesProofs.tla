------------------------ MODULE DropboxCopiesProofs ------------------------
(***************************************************************************)
(* Proofs about DropboxCopies, for any number of workers, of pieces and of *)
(* verifications.                                                          *)
(***************************************************************************)
EXTENDS DropboxCopies, TLAPS, FiniteSetTheorems

USE PiecesAssumption, MaxVerificationsAssumption

-----------------------------------------------------------------------------
(* The inode of a new file                                                 *)

LEMMA LeastElement ==
    ASSUME NEW T \in SUBSET Nat, T # {}
    PROVE  \E m \in T : \A k \in T : m <= k
<1> DEFINE Less == OpToRel(<, Nat)
<1>1. IsWellFoundedOn(Less, Nat)
  BY NatLessThanWellFounded
<1>2. \A k, m \in Nat : k < m => <<k, m>> \in Less
  BY DEF OpToRel
<1> HIDE DEF Less
<1>3. PICK m \in T : \A k \in T : ~(<<k, m>> \in Less)
  BY <1>1, WFMin
<1>4. \A k \in T : k \in Nat /\ m \in Nat /\ ~(k < m)
  BY <1>2, <1>3
<1> QED BY <1>4

LEMMA InodesFinite ==
    /\ Cardinality(Workers) \in Nat
    /\ Inodes \subseteq Nat \ {0}
    /\ IsFiniteSet(Inodes)
    /\ Cardinality(Inodes) = Cardinality(Workers) + 1
<1>1. Cardinality(Workers) \in Nat
  BY WorkersAssumption, FS_CardinalityType
<1> DEFINE n == Cardinality(Workers) + 1
<1>2. n \in Int /\ 1 \in Int /\ n >= 1 /\ ~(1 > n)
  BY <1>1
<1> HIDE DEF n
<1>3. IsFiniteSet(1 .. n) /\ Cardinality(1 .. n) = IF 1 > n THEN 0 ELSE n - 1 + 1
  BY <1>2, FS_Interval
<1>4. Cardinality(1 .. n) = n
  BY <1>2, <1>3
<1>5. Inodes = 1 .. n /\ n = Cardinality(Workers) + 1
  BY DEF Inodes, n
<1>6. Inodes \subseteq Nat \ {0}
  BY <1>5
<1> QED BY <1>1, <1>3, <1>4, <1>5, <1>6

LEMMA Pigeonhole ==
    ASSUME NEW S, NEW T, IsFiniteSet(S), IsFiniteSet(T),
           Cardinality(T) < Cardinality(S), NEW f \in [S -> T]
    PROVE  \E x, y \in S : x # y /\ f[x] = f[y]
BY FS_PigeonHole

\* Each of the workers holds one inode: there is another one.
LEMMA InodeLeft ==
    ASSUME NEW h
    PROVE  \E n \in Inodes : \A w \in Workers : h[w] # n
<1> SUFFICES ASSUME \A n \in Inodes : \E w \in Workers : h[w] = n
             PROVE  FALSE
  OBVIOUS
<1> DEFINE holder == [n \in Inodes |-> CHOOSE w \in Workers : h[w] = n]
<1>1. \A n \in Inodes : holder[n] \in Workers /\ h[holder[n]] = n
  OBVIOUS
<1>2. holder \in [Inodes -> Workers]
  BY <1>1
<1> HIDE DEF holder
<1>3. Cardinality(Workers) < Cardinality(Inodes)
  BY InodesFinite
<1>4. IsFiniteSet(Inodes) /\ IsFiniteSet(Workers)
  BY InodesFinite, WorkersAssumption
<1>5. \E m, n \in Inodes : m # n /\ holder[m] = holder[n]
  <2> SUFFICES ASSUME NEW S, NEW T, S = Inodes, T = Workers
               PROVE  \E m, n \in S : m # n /\ holder[m] = holder[n]
    OBVIOUS
  <2>1. /\ IsFiniteSet(S) /\ IsFiniteSet(T) /\ Cardinality(T) < Cardinality(S)
        /\ holder \in [S -> T]
    BY <1>2, <1>3, <1>4
  <2> QED BY ONLY <2>1, Pigeonhole
<1> QED BY <1>1, <1>5

LEMMA InodeForNew ==
    ASSUME NEW c \in Copies, path[c] = 0
    PROVE  /\ FreeInode(c) \in Inodes
           /\ \A w \in Workers : worker[w].held[c] # FreeInode(c)
<1> DEFINE used == {path[c]} \cup {worker[w].held[c] : w \in Workers}
<1>1. Inodes \ used # {}
  <2> DEFINE h == [w \in Workers |-> worker[w].held[c]]
  <2>1. PICK n \in Inodes : \A w \in Workers : h[w] # n
    BY InodeLeft
  <2>2. n # 0
    BY InodesFinite
  <2> QED BY <2>1, <2>2
<1>2. Inodes \ used \in SUBSET Nat
  BY InodesFinite
<1>3. PICK n \in Inodes \ used : \A k \in Inodes \ used : n <= k
  BY <1>1, <1>2, LeastElement
<1>4. FreeInode(c) = CHOOSE x \in Inodes \ used : \A y \in Inodes \ used : x =< y
  BY DEF FreeInode, Min
<1> HIDE DEF used
<1>5. FreeInode(c) \in Inodes \ used
  BY <1>3, <1>4
<1> QED BY <1>5 DEF used

-----------------------------------------------------------------------------
(* Types                                                                   *)

Stages ==
    {"idle", "requesting", "saving", "saved", "set up", "proving", "deleting"}

Results == {"none", "intact", "corrupted", "error", "missing"}

Fates == {"kept", "removed", "replaced"}

WorkerType ==
    [stage : Stages, copy : Copies, next : 1 .. Pieces + 1,
     held : [Copies -> {0} \cup Inodes], result : Results, fate : Fates]

LEMMA IdleType == Idle \in WorkerType
BY DEF Idle, WorkerType, Stages, Results, Fates, Copies

LEMMA WorkerTyped == TypeOK => worker \in [Workers -> WorkerType]
BY DEF TypeOK, WorkerType, Stages, Results, Fates

\* A step of one worker.
LEMMA Gone ==
    ASSUME worker \in [Workers -> WorkerType], NEW w \in Workers,
           NEW rec \in WorkerType, To(w, rec)
    PROVE  /\ worker' \in [Workers -> WorkerType]
           /\ worker'[w] = rec
           /\ \A v \in Workers \ {w} : worker'[v] = worker[v]
BY DEF To

\* All of worker v but what others have done to its copies.
SameBut(v) ==
    /\ worker'[v].stage = worker[v].stage /\ worker'[v].copy = worker[v].copy
    /\ worker'[v].next = worker[v].next /\ worker'[v].held = worker[v].held
    /\ worker'[v].result = worker[v].result

\* A step of one worker that others get to know of.
LEMMA GoneWhile ==
    ASSUME worker \in [Workers -> WorkerType], NEW w \in Workers,
           NEW rec \in WorkerType, NEW others, NEW fate \in Fates,
           ToWhile(w, rec, others, fate)
    PROVE  /\ worker' \in [Workers -> WorkerType]
           /\ worker'[w] = rec
           /\ \A v \in Workers \ {w} :
                  /\ SameBut(v)
                  /\ worker'[v].fate = IF v \in others THEN fate ELSE worker[v].fate
<1>1. worker' = [v \in Workers |->
                    IF v = w THEN rec
                    ELSE IF v \in others THEN [worker[v] EXCEPT !.fate = fate]
                    ELSE worker[v]]
  BY DEF ToWhile
<1>2. ASSUME NEW v \in Workers
      PROVE  /\ [worker[v] EXCEPT !.fate = fate] \in WorkerType
             /\ worker[v] \in WorkerType
  <2>1. worker[v] \in WorkerType
    OBVIOUS
  <2> QED BY <2>1 DEF WorkerType
<1>3. worker' \in [Workers -> WorkerType] /\ worker'[w] = rec
  BY <1>1, <1>2
<1>4. ASSUME NEW v \in Workers \ {w}
      PROVE  /\ SameBut(v)
             /\ worker'[v].fate = IF v \in others THEN fate ELSE worker[v].fate
  <2>1. worker'[v] = IF v \in others THEN [worker[v] EXCEPT !.fate = fate]
                     ELSE worker[v]
    BY <1>1
  <2>2. worker[v] \in WorkerType
    BY <1>2
  <2> QED BY <2>1, <2>2 DEF SameBut, WorkerType
<1> QED BY <1>3, <1>4

\* The fields of a record whose held is changed at one copy.
LEMMA Holding ==
    ASSUME NEW me \in WorkerType, NEW c \in Copies, NEW n \in {0} \cup Inodes
    PROVE  /\ [me.held EXCEPT ![c] = n] \in [Copies -> {0} \cup Inodes]
           /\ [me.held EXCEPT ![c] = n][c] = n
           /\ \A d \in Copies \ {c} : [me.held EXCEPT ![c] = n][d] = me.held[d]
<1>1. me.held \in [Copies -> {0} \cup Inodes]
  BY DEF WorkerType
<1> QED BY <1>1

\* Each action as what it makes of its worker, field by field.
LEMMA BeginStep ==
    ASSUME TypeOK, NEW w \in Workers, Begin(w)
    PROVE  /\ worker' \in [Workers -> WorkerType]
           /\ worker'[w].stage = "requesting" /\ worker'[w].copy = "file"
           /\ worker'[w].result = "none" /\ worker'[w].fate = "kept"
           /\ \A v \in Workers \ {w} : worker'[v] = worker[v]
           /\ UNCHANGED <<path, content, left>>
           /\ begun' \in 0 .. MaxVerifications
<1> DEFINE rec == [Idle EXCEPT !.stage = "requesting"]
<1>1. To(w, rec)
  BY DEF Begin
<1>2. /\ rec \in WorkerType /\ rec.stage = "requesting" /\ rec.copy = "file"
      /\ rec.result = "none" /\ rec.fate = "kept"
  <2>1. /\ Idle \in WorkerType /\ Idle.copy = "file" /\ Idle.result = "none"
        /\ Idle.fate = "kept" /\ "requesting" \in Stages
    BY IdleType DEF Idle, Stages
  <2> QED BY <2>1 DEF WorkerType
<1>3. UNCHANGED <<path, content, left>> /\ begun' \in 0 .. MaxVerifications
  <2>1. begun \in 0 .. MaxVerifications
    BY DEF TypeOK
  <2>2. UNCHANGED <<path, content, left>> /\ begun < MaxVerifications /\ begun' = begun + 1
    BY DEF Begin
  <2>3. begun' \in 0 .. MaxVerifications
    BY ONLY <2>1, <2>2, MaxVerificationsAssumption
  <2> QED BY <2>2, <2>3
<1> HIDE DEF rec
<1> QED BY <1>1, <1>2, <1>3, WorkerTyped, Gone

LEMMA SaveStep ==
    ASSUME TypeOK, NEW w \in Workers, Save(w)
    PROVE  LET me == worker[w]
               c == me.copy
           IN  \E n \in Inodes :
                   /\ me.stage = "requesting"
                   /\ worker' \in [Workers -> WorkerType]
                   /\ worker'[w].stage = "saving" /\ worker'[w].copy = c
                   /\ worker'[w].next = 1 /\ worker'[w].result = me.result
                   /\ worker'[w].fate = me.fate
                   /\ worker'[w].held[c] = n
                   /\ \A d \in Copies \ {c} : worker'[w].held[d] = me.held[d]
                   /\ \A v \in Workers \ {w} :
                          /\ SameBut(v)
                          /\ worker'[v].fate =
                                 IF path[c] = 0 /\ ToReopen(v, c) THEN "replaced"
                                 ELSE worker[v].fate
                   /\ path[c] = 0 => \A v \in Workers : worker[v].held[c] # n
                   /\ path[c] # 0 => n = path[c]
                   /\ path' = [path EXCEPT ![c] = n]
                   /\ content' = IF path[c] = 0 THEN [content EXCEPT ![c][n] = {}]
                                 ELSE content
                   /\ UNCHANGED <<begun, left>>
<1> DEFINE me == worker[w]
           c == me.copy
           n == IF path[c] = 0 THEN FreeInode(c) ELSE path[c]
           rec == [me EXCEPT !.stage = "saving", !.next = 1, !.held[c] = n]
           others == {v \in Workers : path[c] = 0 /\ ToReopen(v, c)}
<1>1. me \in WorkerType /\ c \in Copies
  BY WorkerTyped DEF WorkerType
<1>2. /\ n \in Inodes
      /\ path[c] = 0 => \A v \in Workers : worker[v].held[c] # n
      /\ path[c] # 0 => n = path[c]
  <2>1. path[c] \in {0} \cup Inodes
    BY <1>1 DEF TypeOK
  <2> QED BY <1>1, <2>1, InodeForNew
<1>3. /\ me.stage = "requesting"
      /\ path' = [path EXCEPT ![c] = n]
      /\ content' = [content EXCEPT ![c][n] = IF path[c] = 0 THEN {} ELSE @]
      /\ ToWhile(w, rec, others, "replaced")
      /\ UNCHANGED <<begun, left>>
  BY DEF Save
<1> HIDE DEF n, me
<1>4. /\ rec.stage = "saving" /\ rec.copy = c /\ rec.next = 1
      /\ rec.result = me.result /\ rec.fate = me.fate
      /\ rec.held = [me.held EXCEPT ![c] = n]
      /\ rec \in WorkerType
  <2>1. /\ [me.held EXCEPT ![c] = n] \in [Copies -> {0} \cup Inodes]
        /\ "saving" \in Stages /\ 1 \in 1 .. Pieces + 1
    BY <1>1, <1>2, Holding DEF Stages
  <2> QED BY <1>1, <2>1 DEF WorkerType
<1>5. content' = IF path[c] = 0 THEN [content EXCEPT ![c][n] = {}] ELSE content
  <2>1. content \in [Copies -> [Inodes -> SUBSET (1 .. Pieces)]]
    BY DEF TypeOK
  <2> HIDE DEF c
  <2>2. CASE path[c] = 0
    BY <1>3, <2>2
  <2>3. CASE path[c] # 0
    <3>1. content' = [content EXCEPT ![c] = [content[c] EXCEPT ![n] = content[c][n]]]
      BY <1>3, <2>3
    <3>2. content[c] \in [Inodes -> SUBSET (1 .. Pieces)]
      BY <1>1, <2>1
    <3>3. [content[c] EXCEPT ![n] = content[c][n]] = content[c]
      BY <3>2
    <3> QED BY <2>1, <2>3, <3>1, <3>3
  <2> QED BY <2>2, <2>3
<1> HIDE DEF rec
<1>6. /\ worker' \in [Workers -> WorkerType] /\ worker'[w] = rec
      /\ \A v \in Workers \ {w} :
             /\ SameBut(v)
             /\ worker'[v].fate = IF v \in others THEN "replaced" ELSE worker[v].fate
  <2>1. "replaced" \in Fates
    BY DEF Fates
  <2> HIDE DEF others
  <2> QED BY <1>3, <1>4, <2>1, WorkerTyped, GoneWhile
<1>7. /\ rec.held[c] = n
      /\ \A d \in Copies \ {c} : rec.held[d] = me.held[d]
  BY <1>1, <1>2, <1>4, Holding
<1>8. \A v \in Workers \ {w} :
          /\ SameBut(v)
          /\ worker'[v].fate = IF path[c] = 0 /\ ToReopen(v, c) THEN "replaced"
                               ELSE worker[v].fate
  BY <1>6
<1> QED BY <1>2, <1>3, <1>4, <1>5, <1>6, <1>7, <1>8 DEF me

LEMMA SavePieceStep ==
    ASSUME TypeOK, NEW w \in Workers, SavePiece(w)
    PROVE  LET me == worker[w]
           IN  /\ me.stage = "saving" /\ me.next \in 1 .. Pieces
               /\ worker' \in [Workers -> WorkerType]
               /\ worker'[w].stage = "saving" /\ worker'[w].copy = me.copy
               /\ worker'[w].next = me.next + 1
               /\ worker'[w].held = me.held /\ worker'[w].result = me.result /\ worker'[w].fate = me.fate
               /\ \A v \in Workers \ {w} : worker'[v] = worker[v]
               /\ content' = [content EXCEPT ![me.copy][me.held[me.copy]] = @ \cup {me.next}]
               /\ UNCHANGED <<path, begun, left>>
<1> DEFINE me == worker[w]
           rec == [me EXCEPT !.next = @ + 1]
<1>1. me \in WorkerType
  BY WorkerTyped
<1>2. /\ me.stage = "saving" /\ me.next \in 1 .. Pieces
      /\ content' = [content EXCEPT ![me.copy][me.held[me.copy]] = @ \cup {me.next}]
      /\ UNCHANGED <<path, begun, left>>
      /\ To(w, rec)
  <2>1. me.next \in 1 .. Pieces + 1
    BY <1>1 DEF WorkerType
  <2>2. /\ me.stage = "saving" /\ me.next <= Pieces
        /\ content' = [content EXCEPT ![me.copy][me.held[me.copy]] = @ \cup {me.next}]
        /\ UNCHANGED <<path, begun, left>>
        /\ To(w, rec)
    BY DEF SavePiece
  <2> HIDE DEF me
  <2>3. me.next \in 1 .. Pieces
    BY ONLY <2>1, <2>2, PiecesAssumption
  <2> QED BY <2>2, <2>3
<1> HIDE DEF me
<1>3. /\ rec \in WorkerType
      /\ rec.stage = "saving" /\ rec.copy = me.copy
      /\ rec.next = me.next + 1
      /\ rec.held = me.held /\ rec.result = me.result /\ rec.fate = me.fate
  <2>1. me.next + 1 \in 1 .. Pieces + 1
    BY <1>2
  <2> QED BY <1>1, <1>2, <2>1 DEF WorkerType
<1> HIDE DEF rec
<1>4. /\ worker' \in [Workers -> WorkerType] /\ worker'[w] = rec
      /\ \A v \in Workers \ {w} : worker'[v] = worker[v]
  BY <1>2, <1>3, WorkerTyped, Gone
<1> QED BY <1>2, <1>3, <1>4 DEF me

LEMMA SavedStep ==
    ASSUME TypeOK, NEW w \in Workers, Saved(w)
    PROVE  LET me == worker[w]
           IN  /\ me.stage = "saving" /\ me.next > Pieces
               /\ worker' \in [Workers -> WorkerType]
               /\ worker'[w].stage = "saved" /\ worker'[w].copy = me.copy
               /\ worker'[w].held[me.copy] = 0
               /\ \A d \in Copies \ {me.copy} : worker'[w].held[d] = me.held[d]
               /\ worker'[w].result = me.result /\ worker'[w].fate = me.fate
               /\ \A v \in Workers \ {w} : worker'[v] = worker[v]
               /\ UNCHANGED <<path, content, begun, left>>
<1> DEFINE me == worker[w]
           rec == [me EXCEPT !.stage = "saved", !.held[me.copy] = 0]
<1>1. me \in WorkerType
  BY WorkerTyped
<1>2. /\ me.stage = "saving" /\ me.next > Pieces
      /\ UNCHANGED <<path, content, begun, left>>
      /\ To(w, rec)
  BY DEF Saved
<1> HIDE DEF me
<1>3. /\ rec \in WorkerType
      /\ rec.stage = "saved" /\ rec.copy = me.copy
      /\ rec.held[me.copy] = 0
      /\ \A d \in Copies \ {me.copy} : rec.held[d] = me.held[d]
      /\ rec.result = me.result /\ rec.fate = me.fate
  <2> DEFINE h == [me.held EXCEPT ![me.copy] = 0]
  <2>1. me.copy \in Copies
    BY <1>1 DEF WorkerType
  <2>2. /\ h \in [Copies -> {0} \cup Inodes] /\ h[me.copy] = 0
        /\ \A d \in Copies \ {me.copy} : h[d] = me.held[d]
    BY <1>1, <2>1, Holding
  <2> HIDE DEF h
  <2>3. "saved" \in Stages /\ "file" \in Copies /\ "error" \in Results
    BY DEF Stages, Copies, Results
  <2>4. rec.held = h
    BY <1>1 DEF h, WorkerType
  <2>5. rec \in WorkerType
    BY <1>1, <2>2, <2>3 DEF WorkerType, h
  <2> QED BY <1>1, <1>2, <2>2, <2>4, <2>5 DEF WorkerType
<1> HIDE DEF rec
<1>4. /\ worker' \in [Workers -> WorkerType] /\ worker'[w] = rec
      /\ \A v \in Workers \ {w} : worker'[v] = worker[v]
  BY <1>2, <1>3, WorkerTyped, Gone
<1> QED BY <1>2, <1>3, <1>4 DEF me

LEMMA DownloadThrowsStep ==
    ASSUME TypeOK, NEW w \in Workers, DownloadThrows(w)
    PROVE  LET me == worker[w]
           IN  /\ me.stage \in {"requesting", "saving"}
               /\ worker' \in [Workers -> WorkerType]
               /\ worker'[w].stage = "deleting" /\ worker'[w].copy = "file"
               /\ worker'[w].result = "error" /\ worker'[w].fate = me.fate
               /\ \A v \in Workers \ {w} : worker'[v] = worker[v]
               /\ UNCHANGED <<path, content, begun, left>>
<1> DEFINE me == worker[w]
           rec == [me EXCEPT !.stage = "deleting", !.copy = "file",
                             !.held[me.copy] = 0, !.result = "error"]
<1>1. me \in WorkerType
  BY WorkerTyped
<1>2. /\ me.stage \in {"requesting", "saving"}
      /\ UNCHANGED <<path, content, begun, left>>
      /\ To(w, rec)
  BY DEF DownloadThrows
<1> HIDE DEF me
<1>3. /\ rec \in WorkerType
      /\ rec.stage = "deleting" /\ rec.copy = "file"
      /\ rec.result = "error" /\ rec.fate = me.fate
  <2> DEFINE h == [me.held EXCEPT ![me.copy] = 0]
  <2>1. me.copy \in Copies
    BY <1>1 DEF WorkerType
  <2>2. /\ h \in [Copies -> {0} \cup Inodes] /\ h[me.copy] = 0
        /\ \A d \in Copies \ {me.copy} : h[d] = me.held[d]
    BY <1>1, <2>1, Holding
  <2> HIDE DEF h
  <2>3. "deleting" \in Stages /\ "file" \in Copies /\ "error" \in Results
    BY DEF Stages, Copies, Results
  <2>4. rec.held = h
    BY <1>1 DEF h, WorkerType
  <2>5. rec \in WorkerType
    BY <1>1, <2>2, <2>3 DEF WorkerType, h
  <2> QED BY <1>1, <1>2, <2>2, <2>4, <2>5 DEF WorkerType
<1> HIDE DEF rec
<1>4. /\ worker' \in [Workers -> WorkerType] /\ worker'[w] = rec
      /\ \A v \in Workers \ {w} : worker'[v] = worker[v]
  BY <1>2, <1>3, WorkerTyped, Gone
<1> QED BY <1>2, <1>3, <1>4 DEF me

LEMMA OpenSavedStep ==
    ASSUME TypeOK, NEW w \in Workers, OpenSaved(w)
    PROVE  LET me == worker[w]
           IN  /\ me.stage = "saved" /\ path[me.copy] # 0
               /\ worker' \in [Workers -> WorkerType]
               /\ worker'[w].stage = IF me.copy = "file" THEN "requesting" ELSE "set up"
               /\ worker'[w].copy = "tags"
               /\ worker'[w].held[me.copy] = path[me.copy]
               /\ \A d \in Copies \ {me.copy} : worker'[w].held[d] = me.held[d]
               /\ worker'[w].result = me.result /\ worker'[w].fate = me.fate
               /\ \A v \in Workers \ {w} : worker'[v] = worker[v]
               /\ UNCHANGED <<path, content, begun, left>>
<1> DEFINE me == worker[w]
           rec == [me EXCEPT !.held[me.copy] = path[me.copy], !.copy = "tags",
                             !.stage = IF me.copy = "file" THEN "requesting" ELSE "set up"]
<1>1. me \in WorkerType
  BY WorkerTyped
<1>2. /\ me.stage = "saved" /\ path[me.copy] # 0
      /\ UNCHANGED <<path, content, begun, left>>
      /\ To(w, rec)
  BY DEF OpenSaved
<1> HIDE DEF me
<1>3. /\ rec \in WorkerType
      /\ rec.stage = IF me.copy = "file" THEN "requesting" ELSE "set up"
      /\ rec.copy = "tags"
      /\ rec.held[me.copy] = path[me.copy]
      /\ \A d \in Copies \ {me.copy} : rec.held[d] = me.held[d]
      /\ rec.result = me.result /\ rec.fate = me.fate
  <2> DEFINE n == path[me.copy]
             h == [me.held EXCEPT ![me.copy] = n]
             s == IF me.copy = "file" THEN "requesting" ELSE "set up"
  <2>1. me.copy \in Copies
    BY <1>1 DEF WorkerType
  <2>2. n \in {0} \cup Inodes
    BY <2>1 DEF TypeOK
  <2> HIDE DEF n
  <2>3. /\ h \in [Copies -> {0} \cup Inodes] /\ h[me.copy] = n
        /\ \A d \in Copies \ {me.copy} : h[d] = me.held[d]
    BY <1>1, <2>1, <2>2, Holding
  <2>4. s \in Stages /\ "tags" \in Copies
    BY DEF Stages, Copies
  <2>5. /\ rec.held = h /\ rec.stage = s /\ rec.copy = "tags"
        /\ rec.result = me.result /\ rec.fate = me.fate
    BY <1>1 DEF h, n, WorkerType
  <2> HIDE DEF s
  <2>6. [me EXCEPT !.held[me.copy] = n, !.copy = "tags", !.stage = s] \in WorkerType
    BY <1>1, <2>3, <2>4 DEF WorkerType, h
  <2>7. rec \in WorkerType
    BY <2>6 DEF s, n
  <2> QED BY <2>3, <2>5, <2>7 DEF s, n
<1> HIDE DEF rec
<1>4. /\ worker' \in [Workers -> WorkerType] /\ worker'[w] = rec
      /\ \A v \in Workers \ {w} : worker'[v] = worker[v]
  BY <1>2, <1>3, WorkerTyped, Gone
<1> QED BY <1>2, <1>3, <1>4 DEF me

LEMMA OpenSavedThrowsStep ==
    ASSUME TypeOK, NEW w \in Workers, OpenSavedThrows(w)
    PROVE  LET me == worker[w]
           IN  /\ me.stage = "saved"
               /\ worker' \in [Workers -> WorkerType]
               /\ worker'[w].stage = "deleting" /\ worker'[w].copy = "file"
               /\ worker'[w].result = "missing" /\ worker'[w].fate = me.fate
               /\ \A v \in Workers \ {w} : worker'[v] = worker[v]
               /\ UNCHANGED <<path, content, begun, left>>
<1> DEFINE me == worker[w]
           rec == [me EXCEPT !.stage = "deleting", !.copy = "file", !.result = "missing"]
<1>1. me \in WorkerType
  BY WorkerTyped
<1>2. /\ me.stage = "saved"
      /\ UNCHANGED <<path, content, begun, left>>
      /\ To(w, rec)
  BY DEF OpenSavedThrows
<1> HIDE DEF me
<1>3. /\ rec \in WorkerType
      /\ rec.stage = "deleting" /\ rec.copy = "file"
      /\ rec.result = "missing" /\ rec.fate = me.fate
  <2>1. "deleting" \in Stages /\ "file" \in Copies /\ "missing" \in Results
    BY DEF Stages, Copies, Results
  <2> QED BY <1>1, <2>1 DEF WorkerType
<1> HIDE DEF rec
<1>4. /\ worker' \in [Workers -> WorkerType] /\ worker'[w] = rec
      /\ \A v \in Workers \ {w} : worker'[v] = worker[v]
  BY <1>2, <1>3, WorkerTyped, Gone
<1> QED BY <1>2, <1>3, <1>4 DEF me

LEMMA ProvedStep ==
    ASSUME TypeOK, NEW w \in Workers, Proved(w)
    PROVE  LET me == worker[w]
           IN  /\ me.stage = "proving"
               /\ worker' \in [Workers -> WorkerType]
               /\ worker'[w].stage = "deleting" /\ worker'[w].copy = "file"
               /\ worker'[w].result = IF me.result = "none" THEN "intact" ELSE me.result
               /\ worker'[w].fate = me.fate
               /\ \A v \in Workers \ {w} : worker'[v] = worker[v]
               /\ UNCHANGED <<path, content, begun, left>>
<1> DEFINE me == worker[w]
           rec == [me EXCEPT !.stage = "deleting", !.copy = "file",
                             !.result = IF @ = "none" THEN "intact" ELSE @]
<1>1. me \in WorkerType
  BY WorkerTyped
<1>2. /\ me.stage = "proving"
      /\ UNCHANGED <<path, content, begun, left>>
      /\ To(w, rec)
  BY DEF Proved
<1> HIDE DEF me
<1>3. /\ rec \in WorkerType
      /\ rec.stage = "deleting" /\ rec.copy = "file"
      /\ rec.result = IF me.result = "none" THEN "intact" ELSE me.result
      /\ rec.fate = me.fate
  <2> DEFINE r == IF me.result = "none" THEN "intact" ELSE me.result
  <2>1. "deleting" \in Stages /\ "file" \in Copies /\ r \in Results
    BY <1>1 DEF Stages, Copies, Results, WorkerType
  <2> QED BY <1>1, <2>1 DEF WorkerType
<1> HIDE DEF rec
<1>4. /\ worker' \in [Workers -> WorkerType] /\ worker'[w] = rec
      /\ \A v \in Workers \ {w} : worker'[v] = worker[v]
  BY <1>2, <1>3, WorkerTyped, Gone
<1> QED BY <1>2, <1>3, <1>4 DEF me

LEMMA FetchItemStep ==
    ASSUME TypeOK, NEW w \in Workers, FetchItem(w)
    PROVE  LET me == worker[w]
           IN  \E piece \in 1 .. Pieces :
                   /\ me.stage \in {"set up", "proving"}
                   /\ worker' \in [Workers -> WorkerType]
                   /\ worker'[w].stage = "proving" /\ worker'[w].copy = me.copy
                   /\ worker'[w].held = me.held /\ worker'[w].fate = me.fate
                   /\ worker'[w].result
                          = IF \A c \in Copies : piece \in content[c][me.held[c]]
                            THEN me.result ELSE "corrupted"
                   /\ \A v \in Workers \ {w} : worker'[v] = worker[v]
                   /\ UNCHANGED <<path, content, begun, left>>
<1> DEFINE me == worker[w]
           ok(piece) == \A c \in Copies : piece \in content[c][me.held[c]]
           rec(piece) == [me EXCEPT !.stage = "proving",
                                    !.result = IF ok(piece) THEN @ ELSE "corrupted"]
<1>1. me \in WorkerType
  BY WorkerTyped
<1>2. PICK piece \in 1 .. Pieces : To(w, rec(piece))
  BY DEF FetchItem
<1>3. me.stage \in {"set up", "proving"} /\ UNCHANGED <<path, content, begun, left>>
  BY DEF FetchItem
<1> DEFINE b == ok(piece)
           next == [me EXCEPT !.stage = "proving",
                              !.result = IF b THEN @ ELSE "corrupted"]
<1>4. To(w, next)
  BY <1>2
<1>5. b = \A c \in Copies : piece \in content[c][worker[w].held[c]]
  OBVIOUS
<1> HIDE DEF me, ok, b
<1>6. /\ next \in WorkerType
      /\ next.stage = "proving" /\ next.copy = me.copy
      /\ next.held = me.held /\ next.fate = me.fate
      /\ next.result = IF b THEN me.result ELSE "corrupted"
  <2> DEFINE r == IF b THEN me.result ELSE "corrupted"
  <2>1. "proving" \in Stages /\ r \in Results
    BY <1>1 DEF Stages, Results, WorkerType
  <2> QED BY <1>1, <2>1 DEF WorkerType
<1> HIDE DEF next
<1>7. /\ worker' \in [Workers -> WorkerType] /\ worker'[w] = next
      /\ \A v \in Workers \ {w} : worker'[v] = worker[v]
  BY <1>4, <1>6, WorkerTyped, Gone
<1> QED BY <1>3, <1>5, <1>6, <1>7 DEF me

LEMMA DeleteStep ==
    ASSUME TypeOK, NEW w \in Workers, Delete(w)
    PROVE  LET me == worker[w]
           IN  /\ me.stage = "deleting"
               /\ worker' \in [Workers -> WorkerType]
               /\ me.copy = "file" => /\ worker'[w].stage = "deleting"
                                      /\ worker'[w].copy = "tags"
               /\ me.copy = "tags" => worker'[w].stage = "idle"
               /\ worker'[w].result = me.result /\ worker'[w].fate = me.fate
               /\ \A v \in Workers \ {w} :
                      /\ SameBut(v)
                      /\ worker'[v].fate =
                             IF ToReopen(v, me.copy) /\ worker[v].fate = "kept"
                             THEN "removed" ELSE worker[v].fate
               /\ path' = [path EXCEPT ![me.copy] = 0]
               /\ left' = left \ {me.copy}
               /\ UNCHANGED <<content, begun>>
<1> DEFINE me == worker[w]
           further == [me EXCEPT !.copy = "tags"]
           ended == [Idle EXCEPT !.result = me.result, !.fate = me.fate]
           rec == IF me.copy = "file" THEN further ELSE ended
           others == {v \in Workers :
                         ToReopen(v, me.copy) /\ worker[v].fate = "kept"}
<1>1. me \in WorkerType
  BY WorkerTyped
<1>2. /\ me.stage = "deleting"
      /\ path' = [path EXCEPT ![me.copy] = 0]
      /\ left' = left \ {me.copy}
      /\ UNCHANGED <<content, begun>>
      /\ ToWhile(w, rec, others, "removed")
  BY DEF Delete
<1> HIDE DEF me
<1>3. /\ further \in WorkerType
      /\ further.stage = me.stage /\ further.copy = "tags"
      /\ further.result = me.result /\ further.fate = me.fate
  BY <1>1 DEF WorkerType, Copies
<1>4. /\ ended \in WorkerType /\ ended.stage = "idle"
      /\ ended.result = me.result /\ ended.fate = me.fate
  <2>1. Idle.stage = "idle"
    BY DEF Idle
  <2> QED BY <1>1, <2>1, IdleType DEF WorkerType
<1> HIDE DEF further, ended
<1>5. /\ rec \in WorkerType
      /\ me.copy = "file" => rec.stage = "deleting" /\ rec.copy = "tags"
      /\ me.copy = "tags" => rec.stage = "idle"
      /\ rec.result = me.result /\ rec.fate = me.fate
  BY <1>2, <1>3, <1>4
<1> HIDE DEF rec
<1>6. /\ worker' \in [Workers -> WorkerType] /\ worker'[w] = rec
      /\ \A v \in Workers \ {w} :
             /\ SameBut(v)
             /\ worker'[v].fate = IF v \in others THEN "removed" ELSE worker[v].fate
  <2>1. "removed" \in Fates
    BY DEF Fates
  <2> HIDE DEF others
  <2> QED BY <1>2, <1>5, <2>1, WorkerTyped, GoneWhile
<1>7. \A v \in Workers \ {w} :
          /\ SameBut(v)
          /\ worker'[v].fate =
                 IF ToReopen(v, me.copy) /\ worker[v].fate = "kept"
                 THEN "removed" ELSE worker[v].fate
  BY <1>6
<1> QED BY <1>2, <1>5, <1>6, <1>7 DEF me

LEMMA Typed ==
    TypeOK <=> /\ path \in [Copies -> {0} \cup Inodes]
               /\ content \in [Copies -> [Inodes -> SUBSET (1 .. Pieces)]]
               /\ worker \in [Workers -> WorkerType]
               /\ begun \in 0 .. MaxVerifications
               /\ left \subseteq Copies
BY DEF TypeOK, WorkerType, Stages, Results, Fates

\* The pieces in an inode remain pieces of the object.
LEMMA ContentTyped ==
    ASSUME content \in [Copies -> [Inodes -> SUBSET (1 .. Pieces)]],
           NEW c \in Copies, NEW n, NEW S \in SUBSET (1 .. Pieces)
    PROVE  [content EXCEPT ![c][n] = S] \in [Copies -> [Inodes -> SUBSET (1 .. Pieces)]]
<1>1. content[c] \in [Inodes -> SUBSET (1 .. Pieces)]
  OBVIOUS
<1>2. [content[c] EXCEPT ![n] = S] \in [Inodes -> SUBSET (1 .. Pieces)]
  BY <1>1
<1> QED BY <1>2

LEMMA TypeStep == TypeOK /\ [Next]_vars => TypeOK'
<1> SUFFICES ASSUME TypeOK, [Next]_vars
             PROVE  TypeOK'
  OBVIOUS
<1> DEFINE Contents == [Copies -> [Inodes -> SUBSET (1 .. Pieces)]]
<1>t. /\ path \in [Copies -> {0} \cup Inodes] /\ content \in Contents
      /\ worker \in [Workers -> WorkerType]
      /\ begun \in 0 .. MaxVerifications /\ left \subseteq Copies
  BY Typed
<1>u. SUFFICES /\ path' \in [Copies -> {0} \cup Inodes] /\ content' \in Contents
               /\ worker' \in [Workers -> WorkerType]
               /\ begun' \in 0 .. MaxVerifications /\ left' \subseteq Copies
  BY DEF TypeOK, WorkerType, Stages, Results, Fates
<1>a. ASSUME NEW w \in Workers
      PROVE  worker[w].copy \in Copies
  BY <1>t DEF WorkerType
<1>1. ASSUME NEW w \in Workers, Begin(w)
      PROVE  /\ worker' \in [Workers -> WorkerType] /\ begun' \in 0 .. MaxVerifications
             /\ UNCHANGED <<path, content, left>>
  BY <1>1, BeginStep
<1>2. ASSUME NEW w \in Workers, Save(w)
      PROVE  /\ path' \in [Copies -> {0} \cup Inodes] /\ content' \in Contents
             /\ worker' \in [Workers -> WorkerType] /\ UNCHANGED <<begun, left>>
  <2>1. PICK n \in Inodes :
            /\ path' = [path EXCEPT ![worker[w].copy] = n]
            /\ \/ content' = [content EXCEPT ![worker[w].copy][n] = {}]
               \/ content' = content
            /\ worker' \in [Workers -> WorkerType] /\ UNCHANGED <<begun, left>>
    BY <1>2, SaveStep
  <2>2. path' \in [Copies -> {0} \cup Inodes]
    BY <1>t, <2>1
  <2>3. [content EXCEPT ![worker[w].copy][n] = {}] \in Contents
    BY <1>t, <1>a, ContentTyped
  <2> QED BY <1>t, <2>1, <2>2, <2>3
<1>3. ASSUME NEW w \in Workers, SavePiece(w)
      PROVE  /\ content' \in Contents /\ worker' \in [Workers -> WorkerType]
             /\ UNCHANGED <<path, begun, left>>
  <2> DEFINE c == worker[w].copy
             n == worker[w].held[c]
             p == worker[w].next
  <2>1. /\ content' = [content EXCEPT ![c][n] = @ \cup {p}]
        /\ p \in 1 .. Pieces
        /\ worker' \in [Workers -> WorkerType] /\ UNCHANGED <<path, begun, left>>
    BY <1>3, SavePieceStep
  <2>2. c \in Copies /\ n \in {0} \cup Inodes
    BY <1>t DEF WorkerType
  <2> HIDE DEF c, n, p
  <2>3. CASE n \in Inodes
    <3>1. content[c][n] \cup {p} \in SUBSET (1 .. Pieces)
      <4>1. content[c][n] \in SUBSET (1 .. Pieces)
        BY <1>t, <2>2, <2>3
      <4> QED BY <2>1, <4>1
    <3>2. content' = [content EXCEPT ![c][n] = content[c][n] \cup {p}]
      BY <1>t, <2>1, <2>2
    <3> DEFINE S == content[c][n] \cup {p}
    <3>3. S \in SUBSET (1 .. Pieces) /\ content' = [content EXCEPT ![c][n] = S]
      BY <3>1, <3>2
    <3> HIDE DEF S
    <3>4. [content EXCEPT ![c][n] = S] \in Contents
      BY <1>t, <2>2, <3>3, ContentTyped
    <3> QED BY <2>1, <3>3, <3>4
  <2>4. CASE n \notin Inodes
    <3>1. content' = content
      BY <1>t, <2>1, <2>2, <2>4
    <3> QED BY <1>t, <2>1, <3>1
  <2> QED BY <2>1, <2>3, <2>4
<1>4. ASSUME NEW w \in Workers,
             \/ Saved(w) \/ DownloadThrows(w) \/ OpenSaved(w) \/ OpenSavedThrows(w)
             \/ FetchItem(w) \/ Proved(w)
      PROVE  /\ worker' \in [Workers -> WorkerType]
             /\ UNCHANGED <<path, content, begun, left>>
  BY <1>4, SavedStep, DownloadThrowsStep, OpenSavedStep, OpenSavedThrowsStep,
     FetchItemStep, ProvedStep
<1>5. ASSUME NEW w \in Workers, Delete(w)
      PROVE  /\ path' \in [Copies -> {0} \cup Inodes]
             /\ worker' \in [Workers -> WorkerType]
             /\ left' \subseteq Copies /\ UNCHANGED <<content, begun>>
  <2>1. /\ path' = [path EXCEPT ![worker[w].copy] = 0]
        /\ left' = left \ {worker[w].copy}
        /\ worker' \in [Workers -> WorkerType] /\ UNCHANGED <<content, begun>>
    BY <1>5, DeleteStep
  <2> QED BY <1>t, <2>1
<1>6. ASSUME Crash
      PROVE  /\ worker' \in [Workers -> WorkerType]
             /\ left' \subseteq Copies /\ UNCHANGED <<path, content, begun>>
  <2>1. /\ worker' = [w \in Workers |-> Idle]
        /\ left' = {c \in Copies : path[c] # 0}
        /\ UNCHANGED <<path, content, begun>>
    BY <1>6 DEF Crash
  <2> QED BY <2>1, IdleType
<1>7. CASE UNCHANGED vars
  BY <1>t, <1>7 DEF vars
<1>8. CASE Next
  <2>1. PICK w \in Workers :
            \/ Begin(w) \/ Save(w) \/ SavePiece(w) \/ Saved(w)
            \/ DownloadThrows(w) \/ OpenSaved(w) \/ OpenSavedThrows(w)
            \/ FetchItem(w) \/ Proved(w) \/ Delete(w) \/ Crash
    BY <1>8, WorkersAssumption DEF Next
  <2> QED BY <2>1, <1>t, <1>1, <1>2, <1>3, <1>4, <1>5, <1>6
<1> QED BY <1>7, <1>8

\* The variables have their types: an inode is always free for a new file, and
\* the answer of Dropbox is never written past its size.
THEOREM TypeCorrect == Spec => []TypeOK
<1>1. Init => TypeOK
  <2> SUFFICES ASSUME Init
               PROVE  TypeOK
    OBVIOUS
  <2>1. worker \in [Workers -> WorkerType]
    BY IdleType DEF Init
  <2> QED BY <2>1, Typed DEF Init
<1>2. QED BY <1>1, TypeStep, PTL DEF Spec

-----------------------------------------------------------------------------
(* What is at a path is owed a removal                                     *)

\* The destructor of w is still to remove copy c.
Owes(w, c) ==
    /\ worker[w].stage # "idle"
    /\ c = "file" => ~(worker[w].stage = "deleting" /\ worker[w].copy = "tags")

LeftInv ==
    \A c \in Copies : path[c] # 0 => c \in left \/ \E w \in Workers : Owes(w, c)

\* A worker that goes on, or begins to remove, owes both copies.
LEMMA GoesOn ==
    ASSUME LeftInv, NEW w \in Workers,
           \A v \in Workers \ {w} : /\ worker'[v].stage = worker[v].stage
                                    /\ worker'[v].copy = worker[v].copy,
           worker'[w].stage # "idle",
           worker'[w].stage = "deleting" => worker'[w].copy # "tags",
           UNCHANGED <<path, left>>
    PROVE  LeftInv'
BY DEF LeftInv, Owes

LEMMA LeftStep == TypeOK /\ LeftInv /\ [Next]_vars => LeftInv'
<1> SUFFICES ASSUME TypeOK, LeftInv, [Next]_vars
             PROVE  LeftInv'
  OBVIOUS
<1>t. path \in [Copies -> {0} \cup Inodes] /\ worker \in [Workers -> WorkerType]
  BY Typed
<1>a. ASSUME NEW w \in Workers
      PROVE  worker[w].copy \in Copies
  BY <1>t DEF WorkerType
<1>1. ASSUME NEW w \in Workers, Begin(w)
      PROVE  LeftInv'
  <2>1. /\ worker'[w].stage = "requesting" /\ UNCHANGED <<path, left>>
        /\ \A v \in Workers \ {w} : worker'[v] = worker[v]
    BY <1>1, BeginStep
  <2> QED BY <2>1, GoesOn
<1>2. ASSUME NEW w \in Workers, Save(w)
      PROVE  LeftInv'
  <2>1. /\ worker'[w].stage = "saving" /\ UNCHANGED left
    BY <1>2, SaveStep
  <2> QED BY <2>1 DEF LeftInv, Owes
<1>3. ASSUME NEW w \in Workers, SavePiece(w)
      PROVE  LeftInv'
  <2>1. /\ worker'[w].stage = "saving" /\ UNCHANGED <<path, left>>
        /\ \A v \in Workers \ {w} : worker'[v] = worker[v]
    BY <1>3, SavePieceStep
  <2> QED BY <2>1, GoesOn
<1>4. ASSUME NEW w \in Workers, Saved(w)
      PROVE  LeftInv'
  BY <1>4, SavedStep, GoesOn
<1>5. ASSUME NEW w \in Workers, DownloadThrows(w)
      PROVE  LeftInv'
  BY <1>5, DownloadThrowsStep, GoesOn
<1>6. ASSUME NEW w \in Workers, OpenSaved(w)
      PROVE  LeftInv'
  <2>1. /\ worker'[w].stage \in {"requesting", "set up"} /\ UNCHANGED <<path, left>>
        /\ \A v \in Workers \ {w} : worker'[v] = worker[v]
    BY <1>6, OpenSavedStep
  <2> QED BY <2>1, GoesOn
<1>7. ASSUME NEW w \in Workers, OpenSavedThrows(w)
      PROVE  LeftInv'
  BY <1>7, OpenSavedThrowsStep, GoesOn
<1>8. ASSUME NEW w \in Workers, FetchItem(w)
      PROVE  LeftInv'
  <2>1. /\ worker'[w].stage = "proving" /\ UNCHANGED <<path, left>>
        /\ \A v \in Workers \ {w} : worker'[v] = worker[v]
    BY <1>8, FetchItemStep
  <2> QED BY <2>1, GoesOn
<1>9. ASSUME NEW w \in Workers, Proved(w)
      PROVE  LeftInv'
  BY <1>9, ProvedStep, GoesOn
<1>10. ASSUME NEW w \in Workers, Delete(w)
       PROVE  LeftInv'
  <2> DEFINE me == worker[w]
  <2>1. /\ me.stage = "deleting" /\ me.copy \in Copies
        /\ me.copy = "file" => worker'[w].stage = "deleting"
        /\ \A v \in Workers \ {w} : SameBut(v)
        /\ path' = [path EXCEPT ![me.copy] = 0]
        /\ left' = left \ {me.copy}
    BY <1>10, <1>a, DeleteStep
  <2> SUFFICES ASSUME NEW c \in Copies, path'[c] # 0
               PROVE  c \in left' \/ \E v \in Workers : Owes(v, c)'
    BY DEF LeftInv
  <2>2. c # me.copy /\ path[c] # 0
    BY <1>t, <2>1
  <2>3. c \in left => c \in left'
    BY <2>1, <2>2
  <2>4. ASSUME NEW v \in Workers, Owes(v, c)
        PROVE  \E u \in Workers : Owes(u, c)'
    <3>1. CASE v # w
      BY <2>1, <2>4, <3>1 DEF Owes, SameBut
    <3>2. CASE v = w
      <4>1. me.copy = "file" /\ c = "tags"
        BY <2>1, <2>2, <2>4, <3>2 DEF Owes, Copies
      <4> QED BY <2>1, <4>1 DEF Owes
    <3> QED BY <3>1, <3>2
  <2> QED BY <2>2, <2>3, <2>4 DEF LeftInv
<1>11. ASSUME Crash
       PROVE  LeftInv'
  BY <1>11 DEF Crash, LeftInv
<1>12. CASE UNCHANGED vars
  BY <1>12 DEF vars, LeftInv, Owes
<1>13. CASE Next
  <2>1. PICK w \in Workers :
            \/ Begin(w) \/ Save(w) \/ SavePiece(w) \/ Saved(w)
            \/ DownloadThrows(w) \/ OpenSaved(w) \/ OpenSavedThrows(w)
            \/ FetchItem(w) \/ Proved(w) \/ Delete(w) \/ Crash
    BY <1>13, WorkersAssumption DEF Next
  <2> QED BY <2>1, <1>1, <1>2, <1>3, <1>4, <1>5, <1>6, <1>7, <1>8, <1>9, <1>10, <1>11
<1> QED BY <1>12, <1>13

\* When no verification runs the local copies are gone, but for what an end of
\* the application left.
THEOREM CopiesRemoved == Spec => []NothingLeftBehind
<1>1. Init => LeftInv
  BY DEF Init, LeftInv
<1>2. LeftInv => NothingLeftBehind
  BY DEF LeftInv, Owes, NothingLeftBehind, Running
<1> QED BY <1>1, <1>2, LeftStep, TypeCorrect, PTL DEF Spec

-----------------------------------------------------------------------------
(* What a worker is to open is what it has written, until it is removed    *)

InSetup(w) == worker[w].stage \in {"requesting", "saving", "saved"}

\* Inode n of copy c has every piece of the object.
Whole(c, n) == n \in Inodes /\ 1 .. Pieces \subseteq content[c][n]

\* The copy that worker w is writing, or has written, is the one at the path, or
\* has been removed; what it has opened to read is whole.
Kept(w) ==
    LET me == worker[w]
        c == me.copy
    IN  /\ me.stage = "saving" /\ me.fate = "kept" =>
               /\ me.held[c] = path[c] /\ path[c] # 0
               /\ \A p \in 1 .. Pieces : p < me.next => p \in content[c][path[c]]
        /\ me.stage = "saved" /\ me.fate = "kept" => Whole(c, path[c])
        /\ me.stage \in {"saving", "saved"} /\ me.fate = "removed" => path[c] = 0
        /\ me.stage \in {"requesting", "set up", "proving"} => me.fate # "removed"
        /\ InSetup(w) /\ c = "tags" /\ me.fate # "replaced" =>
               Whole("file", me.held["file"])
        /\ me.stage \in {"set up", "proving"} /\ me.fate # "replaced" =>
               \A d \in Copies : Whole(d, me.held[d])
        /\ me.result = "missing" => me.fate # "kept"
        /\ me.result = "corrupted" => me.fate = "replaced"

KeptInv == \A w \in Workers : Kept(w)

\* No piece goes from any inode.
NothingGoes == \A c \in Copies, n \in Inodes : content[c][n] \subseteq content'[c][n]

\* What another worker writes into a file that is there spoils nothing.
LEMMA WritingKeeps ==
    ASSUME TypeOK, NEW v \in Workers, Kept(v), worker'[v] = worker[v],
           UNCHANGED path, NothingGoes
    PROVE  Kept(v)'
<1> DEFINE me == worker[v]
           c == me.copy
<1>1. /\ path \in [Copies -> {0} \cup Inodes] /\ c \in Copies
      /\ "file" \in Copies
      /\ me.held \in [Copies -> {0} \cup Inodes]
  BY Typed DEF WorkerType, Copies
<1>2. \A d \in Copies : \A n : Whole(d, n) => Whole(d, n)'
  BY DEF Whole, NothingGoes
<1>3. me.stage = "saving" /\ me.fate = "kept" =>
          \A p \in 1 .. Pieces : p < me.next => p \in content'[c][path[c]]
  <2> SUFFICES ASSUME me.stage = "saving", me.fate = "kept",
                      NEW p \in 1 .. Pieces, p < me.next
               PROVE  p \in content'[c][path[c]]
    OBVIOUS
  <2>1. path[c] \in Inodes /\ p \in content[c][path[c]]
    BY <1>1 DEF Kept
  <2> QED BY <1>1, <2>1 DEF NothingGoes
<1>4. me.stage = "saving" /\ me.fate = "kept" => me.held[c] = path[c] /\ path[c] # 0
  BY DEF Kept
<1>5. me.stage = "saved" /\ me.fate = "kept" => Whole(c, path[c])'
  BY <1>1, <1>2 DEF Kept
<1>6. InSetup(v) /\ c = "tags" /\ me.fate # "replaced" =>
          Whole("file", worker[v].held["file"])'
  BY <1>1, <1>2 DEF Kept
<1>7. me.stage \in {"set up", "proving"} /\ me.fate # "replaced" =>
          \A d \in Copies : Whole(d, worker[v].held[d])'
  BY <1>2 DEF Kept
<1> QED BY <1>3, <1>4, <1>5, <1>6, <1>7 DEF Kept, InSetup

\* A new file takes no inode that another worker has opened; who is to open the
\* copy by its path has had its own removed.
LEMMA NewFileKeeps ==
    ASSUME TypeOK, NEW v \in Workers, Kept(v), NEW c \in Copies, NEW n \in Inodes,
           path[c] = 0, \A w \in Workers : worker[w].held[c] # n,
           SameBut(v),
           worker'[v].fate = IF ToReopen(v, c) THEN "replaced" ELSE worker[v].fate,
           path' = [path EXCEPT ![c] = n],
           content' = [content EXCEPT ![c][n] = {}]
    PROVE  Kept(v)'
<1> DEFINE me == worker[v]
           next == worker'[v]
           d == me.copy
<1>1. /\ path \in [Copies -> {0} \cup Inodes] /\ d \in Copies
      /\ content \in [Copies -> [Inodes -> SUBSET (1 .. Pieces)]]
      /\ me.held \in [Copies -> {0} \cup Inodes] /\ "file" \in Copies
  BY Typed DEF WorkerType, Copies
<1>2. \A e \in Copies \ {c} : path'[e] = path[e] /\ content'[e] = content[e]
  BY <1>1
<1>3. \A m \in Inodes \ {n} : content'[c][m] = content[c][m]
  BY <1>1
<1>4. /\ next.stage = me.stage /\ next.copy = d /\ next.next = me.next
      /\ next.held = me.held /\ next.result = me.result
      /\ me.fate = "replaced" => next.fate = "replaced"
      /\ next.fate # "replaced" => next.fate = me.fate
      /\ next.fate # me.fate => me.stage \in {"saving", "saved"}
      /\ me.stage \in {"saving", "saved"} /\ d = c => next.fate = "replaced"
  BY DEF SameBut, ToReopen
<1>5. ASSUME NEW e \in Copies, Whole(e, me.held[e])
      PROVE  Whole(e, me.held[e])'
  <2>1. me.held[e] \in Inodes /\ 1 .. Pieces \subseteq content[e][me.held[e]]
    BY <1>5 DEF Whole
  <2>2. CASE e = c
    <3>1. me.held[e] # n
      BY <2>2
    <3> QED BY <1>3, <1>4, <2>1, <2>2, <3>1 DEF Whole
  <2>3. CASE e # c
    BY <1>2, <1>4, <2>1, <2>3 DEF Whole
  <2> QED BY <2>2, <2>3
<1>6. next.fate # "replaced" /\ me.stage \in {"saving", "saved"} =>
          d # c /\ path'[d] = path[d] /\ content'[d] = content[d]
  BY <1>1, <1>2, <1>4
<1> HIDE DEF next
<1>7. next.stage = "saving" /\ next.fate = "kept" =>
          /\ next.held[d] = path'[d] /\ path'[d] # 0
          /\ \A p \in 1 .. Pieces : p < next.next => p \in content'[d][path'[d]]
  BY <1>4, <1>6 DEF Kept
<1>8. next.stage = "saved" /\ next.fate = "kept" =>
          path'[d] \in Inodes /\ 1 .. Pieces \subseteq content'[d][path'[d]]
  BY <1>4, <1>6 DEF Kept, Whole
<1>9. next.stage \in {"saving", "saved"} /\ next.fate = "removed" => path'[d] = 0
  BY <1>4, <1>6 DEF Kept
<1>10. next.stage \in {"requesting", "set up", "proving"} => next.fate # "removed"
  BY <1>4 DEF Kept
<1>11. next.stage \in {"requesting", "saving", "saved"} /\ d = "tags"
           /\ next.fate # "replaced" => Whole("file", me.held["file"])'
  BY <1>1, <1>4, <1>5 DEF Kept, InSetup
<1>12. next.stage \in {"set up", "proving"} /\ next.fate # "replaced" =>
           \A e \in Copies : Whole(e, me.held[e])'
  BY <1>4, <1>5 DEF Kept
<1>13. /\ next.result = "missing" => next.fate # "kept"
       /\ next.result = "corrupted" => next.fate = "replaced"
  BY <1>4 DEF Kept
<1>14. worker'[v] = next
  BY DEF next
<1> QED BY <1>4, <1>7, <1>8, <1>9, <1>10, <1>11, <1>12, <1>13, <1>14
        DEF Kept, InSetup, Whole

\* A removal is remembered by who is to open the copy by its path.
LEMMA RemovalKeeps ==
    ASSUME TypeOK, NEW v \in Workers, Kept(v), NEW c \in Copies, SameBut(v),
           worker'[v].fate = IF ToReopen(v, c) /\ worker[v].fate = "kept"
                             THEN "removed" ELSE worker[v].fate,
           path' = [path EXCEPT ![c] = 0],
           UNCHANGED content
    PROVE  Kept(v)'
<1> DEFINE me == worker[v]
           next == worker'[v]
           d == me.copy
<1>1. path \in [Copies -> {0} \cup Inodes] /\ d \in Copies
  BY Typed DEF WorkerType
<1>2. path'[c] = 0 /\ \A e \in Copies \ {c} : path'[e] = path[e]
  BY <1>1
<1>4. /\ next.stage = me.stage /\ next.copy = d /\ next.next = me.next
      /\ next.held = me.held /\ next.result = me.result
      /\ me.fate # "kept" => next.fate = me.fate
      /\ next.fate \in {me.fate, "removed"}
      /\ next.fate # me.fate => me.stage \in {"saving", "saved"} /\ d = c
      /\ me.stage \in {"saving", "saved"} /\ d = c => next.fate # "kept"
  BY DEF SameBut, ToReopen
<1>5. \A e, n : Whole(e, n)' <=> Whole(e, n)
  BY DEF Whole
<1>6. next.fate = "kept" => me.fate = "kept"
  BY <1>4
<1>7. next.fate = "replaced" <=> me.fate = "replaced"
  BY <1>4
<1> HIDE DEF next
<1>8. next.stage = "saving" /\ next.fate = "kept" =>
          /\ next.held[d] = path'[d] /\ path'[d] # 0
          /\ \A p \in 1 .. Pieces : p < next.next => p \in content'[d][path'[d]]
  BY <1>1, <1>2, <1>4, <1>6 DEF Kept
<1>9. next.stage = "saved" /\ next.fate = "kept" =>
          path'[d] \in Inodes /\ 1 .. Pieces \subseteq content'[d][path'[d]]
  BY <1>1, <1>2, <1>4, <1>6 DEF Kept, Whole
<1>10. next.stage \in {"saving", "saved"} /\ next.fate = "removed" => path'[d] = 0
  BY <1>1, <1>2, <1>4 DEF Kept
<1>11. next.stage \in {"requesting", "set up", "proving"} => next.fate # "removed"
  BY <1>4 DEF Kept
<1>12. next.stage \in {"requesting", "saving", "saved"} /\ d = "tags"
           /\ next.fate # "replaced" => Whole("file", next.held["file"])
  BY <1>4, <1>7 DEF Kept, InSetup
<1>13. next.stage \in {"set up", "proving"} /\ next.fate # "replaced" =>
           \A e \in Copies : Whole(e, next.held[e])
  BY <1>4, <1>7 DEF Kept
<1>14. /\ next.result = "missing" => next.fate # "kept"
       /\ next.result = "corrupted" => next.fate = "replaced"
  BY <1>4, <1>6, <1>7 DEF Kept
<1>15. worker'[v] = next
  BY DEF next
<1> QED BY <1>4, <1>8, <1>9, <1>10, <1>11, <1>12, <1>13, <1>14, <1>15
        DEF Kept, InSetup, Whole

\* The step of worker w that keeps its own part, and what it does to the rest.
LEMMA QuietKeeps ==
    ASSUME TypeOK, KeptInv, NEW w \in Workers, Kept(w)',
           \A v \in Workers \ {w} : worker'[v] = worker[v],
           UNCHANGED path, NothingGoes
    PROVE  KeptInv'
BY WritingKeeps DEF KeptInv

LEMMA KeptSave ==
    ASSUME TypeOK, KeptInv, NEW w \in Workers, Save(w)
    PROVE  KeptInv'
<1> DEFINE me == worker[w]
           c == me.copy
<1>1. PICK n \in Inodes :
          /\ me.stage = "requesting"
          /\ worker'[w].stage = "saving" /\ worker'[w].copy = c
          /\ worker'[w].next = 1 /\ worker'[w].result = me.result
          /\ worker'[w].fate = me.fate
          /\ worker'[w].held[c] = n
          /\ \A d \in Copies \ {c} : worker'[w].held[d] = me.held[d]
          /\ \A v \in Workers \ {w} :
                 /\ SameBut(v)
                 /\ worker'[v].fate =
                        IF path[c] = 0 /\ ToReopen(v, c) THEN "replaced"
                        ELSE worker[v].fate
          /\ path[c] = 0 => \A v \in Workers : worker[v].held[c] # n
          /\ path[c] # 0 => n = path[c]
          /\ path' = [path EXCEPT ![c] = n]
          /\ content' = IF path[c] = 0 THEN [content EXCEPT ![c][n] = {}] ELSE content
  BY SaveStep
<1>2. /\ path \in [Copies -> {0} \cup Inodes] /\ c \in Copies
      /\ content \in [Copies -> [Inodes -> SUBSET (1 .. Pieces)]]
      /\ me \in WorkerType /\ Kept(w) /\ "file" \in Copies
  BY Typed DEF WorkerType, KeptInv, Copies
<1>3. path'[c] = n /\ n # 0
  BY <1>1, <1>2, InodesFinite
<1>4. Kept(w)'
  <2>1. me.fate # "removed"
    BY <1>1, <1>2 DEF Kept
  <2>2. c = "tags" /\ me.fate # "replaced" => Whole("file", me.held["file"])
    BY <1>1, <1>2 DEF Kept, InSetup
  <2>3. c = "tags" => /\ content'["file"] = content["file"]
                      /\ worker'[w].held["file"] = me.held["file"]
    BY <1>1, <1>2 DEF Copies
  <2>4. \A p \in 1 .. Pieces : ~(p < 1)
    OBVIOUS
  <2>5. /\ me.result = "missing" => me.fate # "kept"
        /\ me.result = "corrupted" => me.fate = "replaced"
    BY <1>2 DEF Kept
  <2>6. worker'[w].stage \notin {"requesting", "saved", "set up", "proving"}
    BY <1>1
  <2> QED BY <1>1, <1>3, <2>1, <2>2, <2>3, <2>4, <2>5, <2>6
          DEF Kept, InSetup, Whole
<1>5. ASSUME NEW v \in Workers \ {w}
      PROVE  Kept(v)'
  <2>1. Kept(v)
    BY DEF KeptInv
  <2>2. CASE path[c] = 0
    <3>1. /\ SameBut(v)
          /\ worker'[v].fate = IF ToReopen(v, c) THEN "replaced" ELSE worker[v].fate
          /\ \A u \in Workers : worker[u].held[c] # n
          /\ path' = [path EXCEPT ![c] = n]
          /\ content' = [content EXCEPT ![c][n] = {}]
      BY <1>1, <2>2
    <3> HIDE DEF c
    <3> QED BY <1>2, <2>1, <2>2, <3>1, NewFileKeeps
  <2>3. CASE path[c] # 0
    <3>1. UNCHANGED <<path, content>> /\ SameBut(v) /\ worker'[v].fate = worker[v].fate
      BY <1>1, <1>2, <2>3
    <3>2. /\ worker[v] \in WorkerType /\ worker'[v] \in WorkerType
      BY WorkerTyped, SaveStep
    <3> QED BY <2>1, <3>1 DEF Kept, SameBut, InSetup, Whole
  <2> QED BY <2>2, <2>3
<1> QED BY <1>4, <1>5 DEF KeptInv

LEMMA KeptSavePiece ==
    ASSUME TypeOK, KeptInv, NEW w \in Workers, SavePiece(w)
    PROVE  KeptInv'
<1> DEFINE me == worker[w]
           c == me.copy
           n == me.held[c]
<1>1. /\ me.stage = "saving" /\ me.next \in 1 .. Pieces
      /\ worker'[w].stage = "saving" /\ worker'[w].copy = c
      /\ worker'[w].next = me.next + 1 /\ worker'[w].result = me.result
      /\ worker'[w].fate = me.fate /\ worker'[w].held = me.held
      /\ \A v \in Workers \ {w} : worker'[v] = worker[v]
      /\ content' = [content EXCEPT ![c][n] = @ \cup {me.next}]
      /\ UNCHANGED path
  BY SavePieceStep
<1>2. /\ path \in [Copies -> {0} \cup Inodes] /\ c \in Copies
      /\ content \in [Copies -> [Inodes -> SUBSET (1 .. Pieces)]]
      /\ n \in {0} \cup Inodes /\ me.held \in [Copies -> {0} \cup Inodes]
      /\ Kept(w) /\ "file" \in Copies
  BY Typed DEF WorkerType, KeptInv, Copies
<1>3. NothingGoes
  <2> HIDE DEF c, n
  <2> QED BY <1>1, <1>2 DEF NothingGoes
<1>4. n \in Inodes => content'[c][n] = content[c][n] \cup {me.next}
  BY <1>1, <1>2
<1>5. Kept(w)'
  <2>1. me.fate = "kept" =>
            /\ n = path[c] /\ path[c] # 0
            /\ \A p \in 1 .. Pieces : p < me.next + 1 => p \in content'[c][path[c]]
    <3> SUFFICES ASSUME me.fate = "kept"
                 PROVE  /\ n = path[c] /\ path[c] # 0
                        /\ \A p \in 1 .. Pieces :
                               p < me.next + 1 => p \in content'[c][path[c]]
      OBVIOUS
    <3>1. /\ n = path[c] /\ path[c] # 0 /\ n \in Inodes
          /\ \A p \in 1 .. Pieces : p < me.next => p \in content[c][path[c]]
      BY <1>1, <1>2 DEF Kept
    <3>2. \A p \in 1 .. Pieces : p < me.next + 1 => p < me.next \/ p = me.next
      BY <1>1
    <3> QED BY <1>4, <3>1, <3>2
  <2>2. me.fate = "removed" => path[c] = 0
    BY <1>1, <1>2 DEF Kept
  <2>3. c = "tags" /\ me.fate # "replaced" =>
            /\ me.held["file"] \in Inodes
            /\ 1 .. Pieces \subseteq content'["file"][me.held["file"]]
    <3>1. c = "tags" /\ me.fate # "replaced" => Whole("file", me.held["file"])
      BY <1>1, <1>2 DEF Kept, InSetup
    <3> QED BY <1>2, <1>3, <3>1 DEF Whole, NothingGoes
  <2>4. /\ me.result = "missing" => me.fate # "kept"
        /\ me.result = "corrupted" => me.fate = "replaced"
    BY <1>2 DEF Kept
  <2>5. worker'[w].stage \notin {"requesting", "saved", "set up", "proving"}
    BY <1>1
  <2> QED BY <1>1, <2>1, <2>2, <2>3, <2>4, <2>5 DEF Kept, InSetup, Whole
<1> QED BY <1>1, <1>3, <1>5, QuietKeeps

\* A step that changes neither the directory nor what is in a file.
LEMMA StillKeeps ==
    ASSUME TypeOK, KeptInv, NEW w \in Workers, Kept(w)',
           \A v \in Workers \ {w} : worker'[v] = worker[v],
           UNCHANGED <<path, content>>
    PROVE  KeptInv'
BY QuietKeeps DEF NothingGoes

LEMMA KeptSaved ==
    ASSUME TypeOK, KeptInv, NEW w \in Workers, Saved(w)
    PROVE  KeptInv'
<1> DEFINE me == worker[w]
           c == me.copy
<1>1. /\ me.stage = "saving" /\ me.next > Pieces
      /\ worker'[w].stage = "saved" /\ worker'[w].copy = c
      /\ \A d \in Copies \ {c} : worker'[w].held[d] = me.held[d]
      /\ worker'[w].result = me.result /\ worker'[w].fate = me.fate
      /\ \A v \in Workers \ {w} : worker'[v] = worker[v]
      /\ UNCHANGED <<path, content>>
  BY SavedStep
<1>2. /\ path \in [Copies -> {0} \cup Inodes] /\ c \in Copies
      /\ me.next \in 1 .. Pieces + 1 /\ Kept(w)
  BY Typed DEF WorkerType, KeptInv
<1>3. me.fate = "kept" => Whole(c, path[c])
  <2>1. \A p \in 1 .. Pieces : p < me.next
    BY <1>1, <1>2
  <2> QED BY <1>1, <1>2, <2>1 DEF Kept, Whole
<1>4. me.fate = "removed" => path[c] = 0
  BY <1>1, <1>2 DEF Kept
<1>5. c = "tags" /\ me.fate # "replaced" => Whole("file", me.held["file"])
  BY <1>1, <1>2 DEF Kept, InSetup
<1>6. c = "tags" => worker'[w].held["file"] = me.held["file"]
  BY <1>1 DEF Copies
<1>7. /\ me.result = "missing" => me.fate # "kept"
      /\ me.result = "corrupted" => me.fate = "replaced"
  BY <1>2 DEF Kept
<1>8. worker'[w].stage \notin {"requesting", "saving", "set up", "proving"}
  BY <1>1
<1>9. Kept(w)'
  BY <1>1, <1>3, <1>4, <1>5, <1>6, <1>7, <1>8 DEF Kept, InSetup, Whole
<1> QED BY <1>1, <1>9, StillKeeps

LEMMA KeptThrows ==
    ASSUME TypeOK, KeptInv, NEW w \in Workers, DownloadThrows(w) \/ OpenSavedThrows(w)
    PROVE  KeptInv'
<1>1. /\ worker'[w].stage = "deleting" /\ worker'[w].fate = worker[w].fate
      /\ \/ worker'[w].result = "error"
         \/ worker'[w].result = "missing" /\ worker[w].fate # "kept"
      /\ \A v \in Workers \ {w} : worker'[v] = worker[v]
      /\ UNCHANGED <<path, content>>
  <2>1. OpenSavedThrows(w) => worker[w].fate # "kept"
    <3> SUFFICES ASSUME worker[w].stage = "saved", path[worker[w].copy] = 0,
                        worker[w].fate = "kept"
                 PROVE  FALSE
      BY DEF OpenSavedThrows
    <3>1. Whole(worker[w].copy, path[worker[w].copy])
      BY DEF Kept, KeptInv
    <3> QED BY <3>1, InodesFinite DEF Whole
  <2> QED BY <2>1, DownloadThrowsStep, OpenSavedThrowsStep
<1>2. Kept(w)'
  BY <1>1 DEF Kept, InSetup
<1> QED BY <1>1, <1>2, StillKeeps

LEMMA KeptOpenSaved ==
    ASSUME TypeOK, KeptInv, NEW w \in Workers, OpenSaved(w)
    PROVE  KeptInv'
<1> DEFINE me == worker[w]
           c == me.copy
<1>1. /\ me.stage = "saved" /\ path[c] # 0
      /\ worker'[w].stage = IF c = "file" THEN "requesting" ELSE "set up"
      /\ worker'[w].copy = "tags"
      /\ worker'[w].held[c] = path[c]
      /\ \A d \in Copies \ {c} : worker'[w].held[d] = me.held[d]
      /\ worker'[w].result = me.result /\ worker'[w].fate = me.fate
      /\ \A v \in Workers \ {w} : worker'[v] = worker[v]
      /\ UNCHANGED <<path, content>>
  BY OpenSavedStep
<1>2. c \in Copies /\ me.fate \in Fates /\ Kept(w)
  BY Typed DEF WorkerType, KeptInv
<1>3. me.fate # "removed"
  BY <1>1, <1>2 DEF Kept
<1>4. me.fate # "replaced" => Whole(c, path[c])
  BY <1>1, <1>2, <1>3 DEF Kept, Fates
<1>5. c = "tags" /\ me.fate # "replaced" => Whole("file", me.held["file"])
  BY <1>1, <1>2 DEF Kept, InSetup
<1>6. /\ me.result = "missing" => me.fate # "kept"
      /\ me.result = "corrupted" => me.fate = "replaced"
  BY <1>2 DEF Kept
<1>7. CASE c = "file"
  <2>1. worker'[w].stage = "requesting"
    BY <1>1, <1>7
  <2>2. me.fate # "replaced" => Whole("file", worker[w].held["file"])'
    BY <1>1, <1>4, <1>7 DEF Whole
  <2> HIDE DEF c
  <2>3. Kept(w)'
    BY <1>1, <1>3, <1>6, <2>1, <2>2 DEF Kept, InSetup
  <2> QED BY <1>1, <2>3, StillKeeps
<1>8. CASE c = "tags"
  <2>1. worker'[w].stage = "set up"
    BY <1>1, <1>8
  <2>2. me.fate # "replaced" => \A d \in Copies : Whole(d, worker[w].held[d])'
    BY <1>1, <1>4, <1>5, <1>8 DEF Whole, Copies
  <2> HIDE DEF c
  <2>3. Kept(w)'
    BY <1>1, <1>3, <1>6, <2>1, <2>2 DEF Kept, InSetup
  <2> QED BY <1>1, <2>3, StillKeeps
<1> QED BY <1>2, <1>7, <1>8 DEF Copies

LEMMA KeptFetchItem ==
    ASSUME TypeOK, KeptInv, NEW w \in Workers, FetchItem(w)
    PROVE  KeptInv'
<1> DEFINE me == worker[w]
<1>1. PICK piece \in 1 .. Pieces :
          /\ me.stage \in {"set up", "proving"}
          /\ worker'[w].stage = "proving"
          /\ worker'[w].held = me.held /\ worker'[w].fate = me.fate
          /\ worker'[w].result
                 = IF \A c \in Copies : piece \in content[c][me.held[c]]
                   THEN me.result ELSE "corrupted"
          /\ \A v \in Workers \ {w} : worker'[v] = worker[v]
          /\ UNCHANGED <<path, content>>
  BY FetchItemStep
<1>2. /\ me.fate # "removed"
      /\ me.fate # "replaced" => \A d \in Copies : Whole(d, me.held[d])
      /\ me.result = "missing" => me.fate # "kept"
      /\ me.result = "corrupted" => me.fate = "replaced"
  BY <1>1 DEF Kept, KeptInv
<1>3. me.fate # "replaced" => worker'[w].result = me.result
  BY <1>1, <1>2 DEF Whole
<1>4. me.fate # "replaced" => \A d \in Copies : Whole(d, worker[w].held[d])'
  BY <1>1, <1>2 DEF Whole
<1>5. /\ worker'[w].result = "missing" => worker'[w].fate # "kept"
      /\ worker'[w].result = "corrupted" => worker'[w].fate = "replaced"
  BY <1>1, <1>2, <1>3
<1>6. Kept(w)'
  BY <1>1, <1>2, <1>4, <1>5 DEF Kept, InSetup
<1> QED BY <1>1, <1>6, StillKeeps

LEMMA KeptDelete ==
    ASSUME TypeOK, KeptInv, NEW w \in Workers, Delete(w)
    PROVE  KeptInv'
<1> DEFINE c == worker[w].copy
<1>1. /\ worker[w].stage = "deleting" /\ c \in Copies
      /\ worker'[w].stage \in {"deleting", "idle"}
      /\ worker'[w].result = worker[w].result /\ worker'[w].fate = worker[w].fate
      /\ \A v \in Workers \ {w} :
             /\ SameBut(v)
             /\ worker'[v].fate = IF ToReopen(v, c) /\ worker[v].fate = "kept"
                                  THEN "removed" ELSE worker[v].fate
      /\ path' = [path EXCEPT ![c] = 0]
      /\ UNCHANGED content
  <2>1. c \in Copies
    BY Typed DEF WorkerType
  <2> QED BY <2>1, DeleteStep DEF Copies
<1>2. Kept(w)'
  <2>1. Kept(w)
    BY DEF KeptInv
  <2> QED BY <1>1, <2>1 DEF Kept, InSetup
<1>3. ASSUME NEW v \in Workers \ {w}
      PROVE  Kept(v)'
  <2>1. Kept(v)
    BY DEF KeptInv
  <2> HIDE DEF c
  <2> QED BY <1>1, <2>1, RemovalKeeps
<1> QED BY <1>2, <1>3 DEF KeptInv

LEMMA KeptStep == TypeOK /\ KeptInv /\ [Next]_vars => KeptInv'
<1> SUFFICES ASSUME TypeOK, KeptInv, [Next]_vars
             PROVE  KeptInv'
  OBVIOUS
<1>1. ASSUME NEW w \in Workers, Begin(w)
      PROVE  KeptInv'
  <2>1. /\ worker'[w].stage = "requesting" /\ worker'[w].copy = "file"
        /\ worker'[w].result = "none" /\ worker'[w].fate = "kept"
        /\ \A v \in Workers \ {w} : worker'[v] = worker[v]
        /\ UNCHANGED <<path, content>>
    BY <1>1, BeginStep
  <2>2. Kept(w)'
    BY <2>1 DEF Kept
  <2> QED BY <2>1, <2>2, StillKeeps
<1>2. ASSUME NEW w \in Workers, Proved(w)
      PROVE  KeptInv'
  <2>1. /\ worker'[w].stage = "deleting" /\ worker'[w].fate = worker[w].fate
        /\ worker'[w].result \in {"intact", worker[w].result}
        /\ \A v \in Workers \ {w} : worker'[v] = worker[v]
        /\ UNCHANGED <<path, content>>
    BY <1>2, ProvedStep
  <2>2. Kept(w)
    BY DEF KeptInv
  <2>3. Kept(w)'
    BY <2>1, <2>2 DEF Kept, InSetup
  <2> QED BY <2>1, <2>3, StillKeeps
<1>3. ASSUME Crash
      PROVE  KeptInv'
  <2>1. \A w \in Workers : worker'[w].stage = "idle" /\ worker'[w].result = "none"
    BY <1>3 DEF Crash, Idle
  <2> QED BY <2>1 DEF KeptInv, Kept, InSetup
<1>4. CASE UNCHANGED vars
  BY <1>4 DEF vars, KeptInv, Kept, InSetup, Whole
<1>5. CASE Next
  <2>1. PICK w \in Workers :
            \/ Begin(w) \/ Save(w) \/ SavePiece(w) \/ Saved(w)
            \/ DownloadThrows(w) \/ OpenSaved(w) \/ OpenSavedThrows(w)
            \/ FetchItem(w) \/ Proved(w) \/ Delete(w) \/ Crash
    BY <1>5, WorkersAssumption DEF Next
  <2> QED BY <2>1, <1>1, <1>2, <1>3, KeptSave, KeptSavePiece, KeptSaved,
             KeptThrows, KeptOpenSaved, KeptFetchItem, KeptDelete
<1> QED BY <1>4, <1>5

\* For any number of workers, pieces and verifications: a copy that cannot be
\* opened has been removed by another verification since it was opened to be
\* written, and an intact file is called corrupted only if, after that, a download
\* has put a new file in its place.
THEOREM AlarmExplained == Spec => []AlarmNeedsRemoval
<1>1. Init => KeptInv
  <2> SUFFICES ASSUME Init
               PROVE  KeptInv
    OBVIOUS
  <2>1. \A w \in Workers : worker[w].stage = "idle" /\ worker[w].result = "none"
    BY DEF Init, Idle
  <2> QED BY <2>1 DEF KeptInv, Kept, InSetup
<1>2. KeptInv => AlarmNeedsRemoval
  BY DEF KeptInv, Kept, AlarmNeedsRemoval
<1> QED BY <1>1, <1>2, KeptStep, TypeCorrect, PTL DEF Spec

=============================================================================
