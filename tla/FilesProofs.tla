----------------------------- MODULE FilesProofs -----------------------------
(***************************************************************************)
(* What holds of a unit's files and the objects a bucket keeps for them, for *)
(* every set of files, events and pictures, every site to begin with, and   *)
(* any number of uploads, deletions, runs and crashes.                      *)
(***************************************************************************)
EXTENDS SiteProofs

-----------------------------------------------------------------------------
(* The invariant, over that of the site.                                   *)

\* The files and keys that a task has read of the table, to work on later.
Claims(t) ==
    IF t.do = "drop" THEN {<<t.f, t.key>>}
    ELSE IF t.do # "rekey" THEN {}
    ELSE {<<row[1], row[3]>> : row \in t.rows} \cup (IF t.at = "picking" THEN {} ELSE {<<t.f, t.from>>})
AllClaims == (UNION {Claims(t) : t \in tasks}) \cup {<<f, file[f].key>> : f \in {g \in FileIds : Filed(g)}}

\* A key that was a file's is no other's, unless it is a picture's hosted meanwhile.
ClaimOK(c) ==
    /\ c[1] \in 1..filed
    /\ c[2].by = "row" => c[2].n = c[1]
    /\ \A g \in FileIds : Filed(g) /\ file[g].key = c[2] => g = c[1] \/ c[2] \in crossed

\* The keys of an upload's own that it has still to record.
Uploading(t) == t.do = "upload" /\ t.at # "linking"
Ahead(t) == t.key.n..(t.key.n + t.left - 1)
FreshKeys ==
    \A c \in AllClaims : c[2].by = "upload" =>
        /\ c[2].n < 2 * made \/ c[2].n >= 2 * Scenes[scene].most
        /\ \A t \in tasks : Uploading(t) => c[2].n \notin Ahead(t)

\* A picture hosted while a file with its key is dropped or moved is known to
\* be, and so is a key that one re-keying moves a file to and another has met.
Crossings ==
    /\ \A h, o \in tasks : h.do = "host" => \A c \in Claims(o) : c[2] = h.key => h.key \in crossed
    /\ \A m, o \in tasks : m.do = "rekey" /\ m.at # "picking" /\ o.do = "rekey" /\ o # m
                           => \A c \in Claims(o) : c[2] = m.want => m.want \in crossed

\* What each task has made sure of in the bucket, by the stage it has come to.
Stored(k) == Has(k, "") \/ k \in crossed
UploadSafe(t) ==
    /\ Uploading(t) => t.key.n >= 2 * t.id /\ t.key.n + t.left - 1 <= 2 * t.id + 1
    /\ t.at = "recording" => Has(t.key, "")
HostSafe(t) == t.at = "recording" => Stored(t.key)
PosterSafe(t) == t.f \in 1..filed /\ (t.at = "recording" /\ Filed(t.f) => t.f \in posters)
DropSafe(t) == t.at # "row" => ~Filed(t.f)
RekeySafe(t) ==
    /\ t.at \in {"thumb", "pointing"} /\ Filed(t.f) => Stored(t.want)
    /\ t.at \in {"clearing", "unthumbing"} /\ Filed(t.f) => file[t.f].key # t.from \/ t.from \in crossed
Safe(t) ==
    /\ t.do = "upload" => UploadSafe(t)
    /\ t.do = "host" => HostSafe(t)
    /\ t.do = "poster" => PosterSafe(t)
    /\ t.do = "drop" => DropSafe(t)
    /\ t.do = "rekey" => RekeySafe(t)

RowsHeld ==
    \A f \in FileIds : Filed(f) => Stored(file[f].key) /\ (file[f].poster => f \in posters)

KeysInv ==
    /\ made <= Scenes[scene].most
    /\ \A t \in tasks : Safe(t)
    /\ \A c \in AllClaims : ClaimOK(c)
    /\ FreshKeys /\ Crossings /\ RowsHeld

-----------------------------------------------------------------------------
(* How a step may change the rows, the bucket and the tasks.               *)

\* An object or poster that may be removed: its file has gone or been moved.
Loose(k) ==
    \E t \in tasks : \/ t.do = "drop" /\ t.at = "object" /\ t.key = k
                     \/ t.do = "rekey" /\ t.at = "clearing" /\ t.from = k
BucketMoves ==
    /\ \A k : Has(k, "") => Has(k, "")' \/ Loose(k)
    /\ \A f \in posters : f \in posters' \/ ~Filed(f)

\* A key that an upload has now recorded.
Recorded(k) ==
    \E t \in tasks : Uploading(t) /\ t.key = k /\ \A u \in tasks' : Uploading(u) => k.n \notin Ahead(u)

\* A row as it was, a new one, or one that points to where its file was copied.
Stays(f) == Filed(f) /\ file'[f].key = file[f].key
Comes(f) ==
    /\ f = filed + 1
    /\ Stored(file[f].key)'
    /\ \A c \in AllClaims : c[2] = file'[f].key => c[2] \in crossed
    /\ file'[f].key.by = "upload" => Recorded(file'[f].key)
Moves(f) ==
    /\ Filed(f) /\ file'[f].key.by = "row" /\ file'[f].key.n = f
    /\ Stored(file[f].key)'
    /\ \E t \in tasks : t.do = "rekey" /\ t.at = "pointing" /\ t.want = file'[f].key
FilesMove ==
    /\ filed <= filed'
    /\ \A f \in FileIds : Filed(f)' =>
          /\ Stays(f) \/ Comes(f) \/ Moves(f)
          /\ file'[f].poster => f \in posters' \/ (Filed(f) /\ file[f].poster)

\* A task begun or taken further.
Fits(u) ==
    /\ Safe(u)' /\ Claims(u) \subseteq AllClaims
    /\ Uploading(u) =>
          \/ \E t \in tasks : Uploading(t) /\ Ahead(u) \subseteq Ahead(t)
          \/ made < Scenes[scene].most /\ made' = made + 1 /\ Ahead(u) \subseteq {2 * made, 2 * made + 1}
TasksMove ==
    /\ \A u \in tasks' : u \in tasks \/ Fits(u)
    /\ made' \in {made, made + 1} /\ made' <= Scenes[scene].most /\ scene' = scene

-----------------------------------------------------------------------------

\* What a task claims are files and keys.
LEMMA ClaimTyped ==
  ASSUME TasksOK, FilesOK, NEW c \in AllClaims
  PROVE  c[1] \in FileIds /\ c[2] \in Key
<1>1. ASSUME NEW f \in FileIds, Filed(f), c = <<f, file[f].key>> PROVE c[1] \in FileIds /\ c[2] \in Key
  <2>1. file[f] \in File
    BY <1>1 DEF FilesOK
  <2> QED BY <1>1, <2>1 DEF File
<1>2. ASSUME NEW t \in tasks, c \in Claims(t) PROVE c[1] \in FileIds /\ c[2] \in Key
  <2>0. t \in Task /\ Formed(t)
    BY DEF TasksOK
  <2>1. CASE t.do = "drop"
    <3>1. t \in DropTask /\ c = <<t.f, t.key>>
      BY <1>2, <2>0, <2>1, LibraryKinds DEF Claims
    <3> QED BY <3>1 DEF DropTask
  <2>2. CASE t.do = "rekey"
    <3>1. t \in RekeyTask /\ RekeyFormed(t)
      BY <2>0, <2>2, LibraryKinds DEF Formed
    <3>2. CASE c \in {<<row[1], row[3]>> : row \in t.rows}
      <4>1. PICK row \in t.rows : c = <<row[1], row[3]>>
        BY <3>2
      <4>2. row \in FileIds \X BOOLEAN \X Key
        BY <3>1 DEF RekeyTask
      <4> QED BY <4>1, <4>2
    <3>3. CASE t.at # "picking" /\ c = <<t.f, t.from>>
      BY <3>1, <3>3 DEF RekeyTask, RekeyFormed
    <3> QED BY <1>2, <2>2, <3>2, <3>3 DEF Claims
  <2> QED BY <1>2, <2>1, <2>2 DEF Claims
<1>3. CASE c \in UNION {Claims(t) : t \in tasks}
  <2>1. PICK t \in tasks : c \in Claims(t)
    BY <1>3
  <2> QED BY <1>2, <2>1
<1>4. CASE c \in {<<f, file[f].key>> : f \in {g \in FileIds : Filed(g)}}
  BY <1>1, <1>4
<1> QED BY <1>3, <1>4 DEF AllClaims

\* A file's own key is a claim like any.
LEMMA RowClaims ==
  ASSUME FilesOK, NEW f \in FileIds, Filed(f)
  PROVE  ClaimOK(<<f, file[f].key>>)
BY DEF FilesOK, RowKeys, ClaimOK, FileIds

LEMMA ClaimsKeep ==
  ASSUME TasksOK, FilesOK, FilesOK', KeysInv, FilesMove, crossed \subseteq crossed', NEW c \in AllClaims
  PROVE  ClaimOK(c)'
<1>1. ClaimOK(c) /\ c[1] \in FileIds
  BY ClaimTyped DEF KeysInv
<1>2. c[1] \in 1..filed' /\ (c[2].by = "row" => c[2].n = c[1])
  <2>1. filed \in Nat /\ filed' \in Nat /\ filed <= filed'
    BY LibraryAssumption DEF FilesOK, FilesMove, LibraryAssumption
  <2> QED BY <1>1, <2>1 DEF ClaimOK
<1>3. ASSUME NEW g \in FileIds, Filed(g)', file'[g].key = c[2]
      PROVE  g = c[1] \/ c[2] \in crossed'
  <2>1. Stays(g) \/ Comes(g) \/ Moves(g)
    BY <1>3 DEF FilesMove
  <2>2. CASE Stays(g)
    BY <1>1, <1>3, <2>2 DEF Stays, ClaimOK
  <2>3. CASE Comes(g)
    BY <1>3, <2>3 DEF Comes
  <2>4. CASE Moves(g)
    BY <1>1, <1>3, <2>4 DEF Moves, ClaimOK
  <2> QED BY <2>1, <2>2, <2>3, <2>4
<1> QED BY <1>2, <1>3 DEF ClaimOK

\* Nothing that is still wanted is loose.
LEMMA LooseIsLoose ==
  ASSUME TasksOK, FilesOK, KeysInv, NEW k, Loose(k)
  PROVE  /\ \A o \in tasks : o.do = "upload" /\ o.at = "recording" => o.key # k
         /\ \A h \in tasks : h.do = "host" /\ h.key = k => k \in crossed
         /\ \A f \in FileIds : Filed(f) /\ file[f].key = k => k \in crossed
         /\ \A o \in tasks : /\ o.do = "rekey" /\ o.at \in {"thumb", "pointing"} /\ Filed(o.f)
                             => (o.want = k => k \in crossed)
<1>1. PICK t \in tasks : \/ t.do = "drop" /\ t.at = "object" /\ t.key = k
                         \/ t.do = "rekey" /\ t.at = "clearing" /\ t.from = k
  BY DEF Loose
<1>2. <<t.f, k>> \in Claims(t)
  BY <1>1 DEF Claims
<1>3. <<t.f, k>> \in AllClaims
  BY <1>2 DEF AllClaims
<1>4. ClaimOK(<<t.f, k>>) /\ Safe(t) /\ k \in Key
  BY <1>3, ClaimTyped DEF KeysInv
<1>5. Filed(t.f) => file[t.f].key # k \/ k \in crossed
  BY <1>1, <1>4 DEF Safe, DropSafe, RekeySafe
<1>6. \A f \in FileIds : Filed(f) /\ file[f].key = k => k \in crossed
  BY <1>4, <1>5 DEF ClaimOK
<1>7. ASSUME NEW o \in tasks, o.do = "upload", o.at = "recording"
      PROVE  o.key # k
  <2>1. o \in UploadTask /\ UploadFormed(o)
    BY <1>7, LibraryKinds DEF TasksOK, Formed
  <2>2. o.key.n \in Ahead(o) /\ o.key.by = "upload"
    <3>1. o.key.n \in Nat /\ o.left \in 1..2
      BY <2>1 DEF UploadTask, Key
    <3> QED BY <2>1, <3>1 DEF Ahead, UploadFormed
  <2>3. o.key = k => FALSE
    BY <1>3, <1>7, <2>2 DEF KeysInv, FreshKeys, Uploading
  <2> QED BY <2>3
<1>8. ASSUME NEW h \in tasks, h.do = "host", h.key = k
      PROVE  k \in crossed
  BY <1>2, <1>8 DEF KeysInv, Crossings
<1>9. ASSUME NEW o \in tasks, o.do = "rekey", o.at \in {"thumb", "pointing"}, Filed(o.f), o.want = k
      PROVE  k \in crossed
  <2>1. o.want.by = "row" /\ o.want.n = o.f
    BY <1>9, LibraryKinds DEF TasksOK, Formed, RekeyFormed
  <2>2. t.f = o.f
    BY <1>4, <1>9, <2>1 DEF ClaimOK
  <2>3. t.do = "rekey"
    BY <1>1, <1>4, <1>9, <2>2 DEF Safe, DropSafe
  <2>4. t # o
    BY <1>1, <1>9, <2>3
  <2> QED BY <1>2, <1>9, <2>3, <2>4 DEF KeysInv, Crossings
<1> QED BY <1>6, <1>7, <1>8, <1>9

\* What others have made sure of, a step leaves so.
LEMMA SafeStays ==
  ASSUME TasksOK, FilesOK, FilesOK', KeysInv, FilesMove, BucketMoves, crossed \subseteq crossed',
         NEW o \in tasks
  PROVE  Safe(o)'
<1>0. Safe(o) /\ filed \in Nat /\ filed' \in Nat /\ filed <= filed' /\ o \in Task
  BY LibraryAssumption DEF KeysInv, FilesOK, FilesMove, LibraryAssumption, TasksOK
<1>1. \A f \in 1..filed : Filed(f)' => f \in FileIds /\ Filed(f) /\ (Stays(f) \/ Moves(f))
  <2>1. \A f \in 1..filed : f # filed + 1
    BY <1>0
  <2> QED BY <2>1 DEF FilesMove, Filed, Stays, Comes, Moves
<1>2. \A k : Has(k, "") => Has(k, "")' \/ Loose(k)
  BY DEF BucketMoves
<1>3. ASSUME o.do = "upload" PROVE UploadSafe(o)'
  BY <1>0, <1>2, <1>3, LooseIsLoose DEF Safe, UploadSafe, Uploading
<1>4. ASSUME o.do = "host" PROVE HostSafe(o)'
  BY <1>0, <1>2, <1>4, LooseIsLoose DEF Safe, HostSafe, Stored
<1>5. ASSUME o.do = "poster" PROVE PosterSafe(o)'
  <2>1. o.f \in 1..filed /\ o.f \in 1..filed'
    BY <1>0, <1>5 DEF Safe, PosterSafe
  <2> QED BY <1>0, <1>1, <1>5, <2>1 DEF Safe, PosterSafe, BucketMoves
<1>6. ASSUME o.do = "drop" PROVE DropSafe(o)'
  <2>1. <<o.f, o.key>> \in AllClaims
    BY <1>6 DEF Claims, AllClaims
  <2>2. o.f \in 1..filed
    BY <2>1 DEF KeysInv, ClaimOK
  <2> QED BY <1>0, <1>1, <1>6, <2>2 DEF Safe, DropSafe
<1>7. ASSUME o.do = "rekey", o.at # "picking" PROVE RekeySafe(o)'
  <2>1. <<o.f, o.from>> \in Claims(o)
    BY <1>7 DEF Claims
  <2>2. <<o.f, o.from>> \in AllClaims
    BY <2>1 DEF AllClaims
  <2>3. o.f \in 1..filed
    BY <2>2 DEF KeysInv, ClaimOK
  <2>4. ASSUME o.at \in {"thumb", "pointing"}, Filed(o.f)' PROVE Stored(o.want)'
    <3>1. Filed(o.f) /\ Stored(o.want)
      BY <1>0, <1>1, <1>7, <2>3, <2>4 DEF Safe, RekeySafe
    <3>2. CASE Has(o.want, "") /\ Loose(o.want)
      BY <1>7, <2>4, <3>1, <3>2, LooseIsLoose DEF Stored
    <3> QED BY <1>2, <3>1, <3>2 DEF Stored
  <2>5. ASSUME o.at \in {"clearing", "unthumbing"}, Filed(o.f)'
        PROVE  file'[o.f].key # o.from \/ o.from \in crossed'
    <3>1. Filed(o.f) /\ (Stays(o.f) \/ Moves(o.f))
      BY <1>1, <2>3, <2>5
    <3>2. CASE Stays(o.f)
      BY <1>0, <1>7, <2>5, <3>1, <3>2 DEF Stays, Safe, RekeySafe
    <3>3. CASE Moves(o.f) /\ file'[o.f].key = o.from
      <4>1. PICK m \in tasks : m.do = "rekey" /\ m.at = "pointing" /\ m.want = o.from
        BY <3>3 DEF Moves
      <4>2. m # o
        BY <2>5, <4>1
      <4> QED BY <1>7, <2>1, <4>1, <4>2 DEF KeysInv, Crossings
    <3> QED BY <3>1, <3>2, <3>3
  <2> QED BY <2>4, <2>5 DEF RekeySafe
<1>8. o.do = "rekey" /\ o.at = "picking" => RekeySafe(o)'
  BY DEF RekeySafe
<1> QED BY <1>3, <1>4, <1>5, <1>6, <1>7, <1>8 DEF Safe

LEMMA RowsHeldStays ==
  ASSUME TasksOK, FilesOK, KeysInv, FilesMove, BucketMoves, crossed \subseteq crossed'
  PROVE  RowsHeld'
<1> SUFFICES ASSUME NEW f \in FileIds, Filed(f)'
             PROVE  Stored(file[f].key)' /\ (file'[f].poster => f \in posters')
  BY DEF RowsHeld
<1>1. /\ Stays(f) \/ Comes(f) \/ Moves(f)
      /\ file'[f].poster => f \in posters' \/ (Filed(f) /\ file[f].poster)
  BY DEF FilesMove
<1>2. Stored(file[f].key)'
  <2>1. CASE Stays(f)
    <3>1. Filed(f) /\ file'[f].key = file[f].key /\ Stored(file[f].key)
      BY <2>1 DEF Stays, KeysInv, RowsHeld
    <3>2. Has(file[f].key, "") => Has(file[f].key, "")' \/ file[f].key \in crossed
      <4>1. ASSUME NEW k, k = file[f].key, Has(k, "") PROVE Has(k, "")' \/ k \in crossed
        BY <3>1, <4>1, LooseIsLoose DEF BucketMoves
      <4>2. ASSUME NEW k, k = file[f].key, Has(k, "")' PROVE Has(file[f].key, "")'
        BY <3>1, <4>2 DEF Has
      <4> QED BY <4>1, <4>2
    <3> QED BY <3>1, <3>2 DEF Stored
  <2> QED BY <1>1, <2>1 DEF Comes, Moves
<1>3. file'[f].poster => f \in posters'
  BY <1>1 DEF KeysInv, RowsHeld, BucketMoves
<1> QED BY <1>2, <1>3

\* The keys ahead of an upload are made from its number.
LEMMA UploadAhead ==
  ASSUME TasksOK, Numbered, KeysInv, NEW t \in tasks, Uploading(t)
  PROVE  /\ t.key.n \in Nat /\ t.key.n \in Ahead(t) /\ \A n \in Ahead(t) : n \in {2 * t.id, 2 * t.id + 1}
         /\ t.id \in Nat /\ t.id < made /\ t.key.by = "upload" /\ t.key \in Key
<1>1. t \in UploadTask /\ UploadFormed(t) /\ t.id \in Nat /\ t.id < made
  BY LibraryKinds, CalendarKinds DEF TasksOK, Formed, Uploading, Numbered
<1>2. t.key.n \in Nat /\ t.left \in 1..2
  BY <1>1 DEF UploadTask, Key
<1>3. t.key.n >= 2 * t.id /\ t.key.n + t.left - 1 <= 2 * t.id + 1
  BY DEF KeysInv, Safe, UploadSafe, Uploading
<1>4. t.key.n + t.left - 1 \in Nat /\ t.key.n <= t.key.n + t.left - 1
  BY <1>2
<1>5. t.key.n \in Ahead(t)
  BY <1>2, <1>4 DEF Ahead
<1>6. ASSUME NEW n \in Ahead(t) PROVE n \in {2 * t.id, 2 * t.id + 1}
  <2>1. n \in Int /\ n >= t.key.n /\ n <= t.key.n + t.left - 1
    BY <1>2, <1>4 DEF Ahead
  <2>2. n >= 2 * t.id /\ n <= 2 * t.id + 1
    BY <1>1, <1>2, <1>3, <1>4, <2>1
  <2> QED BY <1>1, <2>1, <2>2
<1> QED BY <1>1, <1>2, <1>5, <1>6 DEF UploadTask, UploadFormed

LEMMA FreshStays ==
  ASSUME TasksOK, TasksOK', Numbered, FilesOK, FilesOK', KeysInv, FilesMove, TasksMove, made \in Nat,
         Scenes[scene].most \in Nat
  PROVE  FreshKeys'
<1> DEFINE most == Scenes[scene].most
<1>1. ASSUME NEW c \in AllClaims'
      PROVE  \/ \E d \in AllClaims : d[2] = c[2]
             \/ c[2].by # "upload" \/ Recorded(c[2])
  <2>1. ASSUME NEW u \in tasks', c \in Claims(u) PROVE c \in AllClaims
    BY <2>1 DEF TasksMove, Fits, AllClaims
  <2>2. ASSUME NEW f \in FileIds, Filed(f)', c = <<f, file'[f].key>>
        PROVE  \/ \E d \in AllClaims : d[2] = c[2]
               \/ c[2].by # "upload" \/ Recorded(c[2])
    <3>1. CASE Stays(f)
      BY <2>2, <3>1 DEF Stays, AllClaims
    <3>2. Stays(f) \/ Comes(f) \/ Moves(f)
      BY <2>2 DEF FilesMove
    <3> QED BY <2>2, <3>1, <3>2 DEF Comes, Moves
  <2>3. CASE c \in UNION {Claims(u) : u \in tasks'}
    <3>1. PICK u \in tasks' : c \in Claims(u)
      BY <2>3
    <3> QED BY <2>1, <3>1
  <2>4. CASE c \in {<<f, file'[f].key>> : f \in {g \in FileIds : Filed(g)'}}
    BY <2>2, <2>4
  <2> QED BY <2>3, <2>4 DEF AllClaims, Claims
<1>2. ASSUME NEW t \in tasks, Uploading(t)
      PROVE  /\ t.key.n \in Nat /\ t.key.n \in Ahead(t) /\ \A n \in Ahead(t) : n \in {2 * t.id, 2 * t.id + 1}
             /\ t.id \in Nat /\ t.id < made
  BY <1>2, UploadAhead
<1>3. ASSUME NEW c \in AllClaims', c[2].by = "upload", NEW d \in AllClaims, d[2] = c[2]
      PROVE  /\ c[2].n < 2 * made' \/ c[2].n >= 2 * most
             /\ \A u \in tasks' : Uploading(u) => c[2].n \notin Ahead(u)
  <2>1. /\ c[2].n < 2 * made \/ c[2].n >= 2 * most
        /\ \A t \in tasks : Uploading(t) => c[2].n \notin Ahead(t)
    BY <1>3 DEF KeysInv, FreshKeys
  <2>2. c[2].n \in Nat
    BY <1>3, ClaimTyped DEF Key
  <2>3. made' \in {made, made + 1}
    BY DEF TasksMove
  <2>4. ASSUME NEW u \in tasks', Uploading(u) PROVE c[2].n \notin Ahead(u)
    <3>1. CASE u \in tasks
      BY <2>1, <2>4, <3>1
    <3>2. CASE Fits(u)
      <4>1. CASE \E t \in tasks : Uploading(t) /\ Ahead(u) \subseteq Ahead(t)
        BY <2>1, <4>1
      <4>2. CASE made < most /\ Ahead(u) \subseteq {2 * made, 2 * made + 1}
        <5>1. c[2].n \notin {2 * made, 2 * made + 1}
          BY <2>1, <2>2, <4>2
        <5> QED BY <4>2, <5>1
      <4> QED BY <2>4, <3>2, <4>1, <4>2 DEF Fits
    <3> QED BY <3>1, <3>2 DEF TasksMove
  <2>5. c[2].n < 2 * made' \/ c[2].n >= 2 * most
    BY <2>1, <2>2, <2>3
  <2> QED BY <2>4, <2>5
<1>4. ASSUME NEW c \in AllClaims', Recorded(c[2])
      PROVE  /\ c[2].n < 2 * made'
             /\ \A u \in tasks' : Uploading(u) => c[2].n \notin Ahead(u)
  <2>1. PICK t \in tasks : /\ Uploading(t) /\ t.key = c[2]
                           /\ \A u \in tasks' : Uploading(u) => c[2].n \notin Ahead(u)
    BY <1>4 DEF Recorded
  <2>2. c[2].n \in {2 * t.id, 2 * t.id + 1} /\ t.id \in Nat /\ t.id < made
    BY <1>2, <2>1
  <2>3. made' \in {made, made + 1}
    BY DEF TasksMove
  <2>4. c[2].n < 2 * made'
    BY <2>2, <2>3
  <2> QED BY <2>1, <2>4
<1>5. Scenes[scene]' = Scenes[scene]
  BY DEF TasksMove
<1>6. ASSUME NEW c \in AllClaims', c[2].by = "upload"
      PROVE  /\ c[2].n < 2 * made' \/ c[2].n >= 2 * most
             /\ \A u \in tasks' : Uploading(u) => c[2].n \notin Ahead(u)
  <2> HIDE DEF most
  <2> QED BY <1>1, <1>3, <1>4, <1>6
<1> QED BY <1>5, <1>6 DEF FreshKeys, Uploading, Ahead

\* A step that changes rows, bucket and tasks so keeps the invariant.
LEMMA KeysMove ==
  ASSUME TasksOK, TasksOK', Numbered, FilesOK, FilesOK', KeysInv, FilesMove, BucketMoves, TasksMove,
         crossed \subseteq crossed', Crossings', made \in Nat, Scenes[scene].most \in Nat
  PROVE  KeysInv'
<1>1. \A t \in tasks' : Safe(t)'
  BY SafeStays DEF TasksMove, Fits
<1>2. \A c \in AllClaims' : ClaimOK(c)'
  <2>1. ASSUME NEW u \in tasks', NEW c \in Claims(u) PROVE ClaimOK(c)'
    <3>1. c \in AllClaims
      BY <2>1 DEF TasksMove, Fits, AllClaims
    <3> QED BY <3>1, ClaimsKeep
  <2>2. \A f \in FileIds : Filed(f)' => ClaimOK(<<f, file[f].key>>)'
    BY DEF FilesOK, RowKeys, ClaimOK, FileIds
  <2> QED BY <2>1, <2>2 DEF AllClaims, Claims
<1>3. made' <= Scenes[scene].most'
  BY DEF TasksMove
<1> QED BY <1>1, <1>2, <1>3, FreshStays, RowsHeldStays DEF KeysInv

-----------------------------------------------------------------------------
(* Steps that leave the keys and the bucket's objects as they are.         *)

FilesQuiet ==
    /\ UNCHANGED filed
    /\ \A f \in FileIds : /\ file'[f].kind = file[f].kind /\ file'[f].key = file[f].key
                          /\ file'[f].poster = file[f].poster
LEMMA QuietFiles ==
  ASSUME FilesOK, FilesQuiet
  PROVE  FilesMove
<1>1. \A f \in FileIds : Filed(f)' => Stays(f) /\ (file'[f].poster => Filed(f) /\ file[f].poster)
  BY DEF FilesQuiet, Filed, Stays
<1>2. filed <= filed'
  BY LibraryAssumption DEF FilesOK, FilesQuiet, LibraryAssumption
<1> QED BY <1>1, <1>2 DEF FilesMove

LEMMA QuietBucket ==
  ASSUME objects \subseteq objects', posters \subseteq posters'
  PROVE  BucketMoves
BY DEF BucketMoves, Has

\* A task that claims nothing and keeps nothing in the bucket.
Keyless == {"upload", "host", "poster", "drop", "rekey"}
LEMMA PlainFits ==
  ASSUME NEW u, u.do \notin Keyless
  PROVE  Fits(u)
BY DEF Keyless, Fits, Safe, Claims, Uploading

LEMMA BeginsMove ==
  ASSUME KeysInv, made \in Nat, Scenes[scene].most \in Nat, More, scene' = scene,
         AtOnce \/ \E u : Starts(u) /\ Fits(u)
  PROVE  TasksMove
<1>1. made + 1 <= Scenes[scene].most
  BY DEF More
<1>2. CASE AtOnce
  BY <1>1, <1>2 DEF AtOnce, TasksMove
<1>3. ASSUME NEW u, Starts(u), Fits(u)
      PROVE  TasksMove
  BY <1>1, <1>3 DEF Starts, TasksMove
<1> QED BY <1>2, <1>3

LEMMA GoesOnMove ==
  ASSUME KeysInv, made \in Nat, scene' = scene, NEW t \in tasks,
         Ends(t) \/ \E u : Goes(t, u) /\ u.do = t.do /\ Fits(u)
  PROVE  TasksMove
<1>1. CASE Ends(t)
  BY <1>1 DEF Ends, TasksMove, KeysInv
<1>2. ASSUME NEW u, Goes(t, u), u.do = t.do, Fits(u)
      PROVE  TasksMove
  BY <1>2 DEF Goes, TasksMove, KeysInv
<1> QED BY <1>1, <1>2

\* What Watch writes down.
LEMMA CrossingsSeen ==
  ASSUME TasksOK', Watch
  PROVE  Crossings' /\ crossed \subseteq crossed'
<1>1. ASSUME NEW o, NEW c \in Claims(o)
      PROVE  (o.do = "drop" /\ o.key = c[2]) \/ (o.do = "rekey" /\ c[2] \in Met(o))
  BY <1>1 DEF Claims, Met
<1>2. ASSUME NEW h \in tasks', h.do = "host", NEW o \in tasks', NEW c \in Claims(o), c[2] = h.key
      PROVE  h.key \in crossed'
  BY <1>1, <1>2 DEF Watch
<1>3. ASSUME NEW m \in tasks', m.do = "rekey", m.at # "picking", NEW o \in tasks', o.do = "rekey", o # m,
             NEW c \in Claims(o), c[2] = m.want
      PROVE  m.want \in crossed'
  <2>1. m.want \in Met(o)
    BY <1>1, <1>3
  <2> QED BY <1>3, <2>1 DEF Watch
<1>4. crossed \subseteq crossed'
  BY DEF Watch
<1> QED BY <1>2, <1>3, <1>4 DEF Crossings, Claims

\* The calendar and the enquiries have nothing to do with files.
LEMMA OthersMove ==
  ASSUME KeysInv, made \in Nat, Scenes[scene].most \in Nat, scene' = scene,
         NEW does, does \cap Keyless = {},
         \/ More /\ Begins(does)
         \/ \E t \in tasks : Ends(t) \/ (GoesOn(t) /\ t.do \in does)
  PROVE  TasksMove
<1>1. ASSUME More, Begins(does) PROVE TasksMove
  <2>1. ASSUME NEW u, Starts(u), u.do \in does PROVE TasksMove
    <3>1. u.do \notin Keyless
      BY <2>1
    <3> QED BY <1>1, <2>1, <3>1, PlainFits, BeginsMove
  <2> QED BY <1>1, <2>1, BeginsMove DEF Begins
<1>2. ASSUME NEW t \in tasks, GoesOn(t), t.do \in does PROVE TasksMove
  <2>1. ASSUME NEW u, Goes(t, u), u.do = t.do PROVE TasksMove
    <3>1. u.do \notin Keyless
      BY <1>2, <2>1
    <3> QED BY <2>1, <3>1, PlainFits, GoesOnMove
  <2> QED BY <1>2, <2>1, GoesOnMove DEF GoesOn
<1> QED BY <1>1, <1>2, GoesOnMove

\* The scene is the one that was begun with.
LEMMA SceneStays ==
  ASSUME CalendarRequest \/ \E t \in tasks : CalendarStep(t) \/ Abandon(t)
  PROVE  scene' = scene
<1>1. ASSUME CalendarRequest PROVE scene' = scene
  <2>1. ASSUME NEW x, NEW e, NEW s, NEW g, NEW public,
               \/ \E n : CalendarCreate(x, s, g, public, n)
               \/ Decide(x, e, public) \/ CalendarUpdate(x, e, s, g, public) \/ CalendarDelete(x, e)
               \/ CalendarRSVP(x, e, s)
        PROVE  scene' = scene
    BY <2>1 DEF CalendarCreate, Decide, CalendarUpdate, Update, CalendarDelete, CalendarRSVP, SetRSVP,
       calendarVars, setVars
  <2>2. ASSUME NEW x, NEW f, NEW public,
               \/ AdminCalendarFeedAdd(x, f, public) \/ AdminCalendarFeedRefresh(x, f) \/ RefreshAllFeeds
               \/ AdminCalendarFeedToggle(x, f, public) \/ AdminCalendarFeedDelete(x, f)
               \/ \E u, s : Offers(f, u, s)
               \/ \E c, d : AdminCalendarConflictResolve(x, c, d)
        PROVE  scene' = scene
    BY <2>2 DEF AdminCalendarFeedAdd, AddFeed, AdminCalendarFeedRefresh, RefreshAllFeeds, AdminCalendarFeedToggle,
       SetFeedEnabled, AdminCalendarFeedDelete, DeleteFeed, DropEvents, Offers, AdminCalendarConflictResolve,
       calendarVars, setVars
  <2>3. ASSUME NEW x,
               \/ CalendarSubscribeRegenerate(x) \/ CalendarSubscribeRemove(x) \/ Leaves(x)
               \/ SendReminders \/ Tick
        PROVE  scene' = scene
    BY <2>3 DEF SendReminders, CalendarSubscribeRegenerate, CalendarSubscribeRemove, Leaves, Tick, setVars
  <2> QED BY <1>1, <2>1, <2>2, <2>3 DEF CalendarRequest
<1>2. ASSUME NEW t \in tasks, CalendarStep(t) PROVE scene' = scene
  BY <1>2 DEF CalendarStep, CreateStep, InsertOccurrence, Submit, DeleteStep, WithdrawRequest, DeleteEvent,
     RefreshStep, fetchFeed, ReadExisting, ignoredUIDs, Import, recordConflict, InsertImported, ClearConflicts,
     RemoveGone, RefreshDone, RefreshFails, ResolveConflict, RemindStep, SendReminder, RecordReminder, calendarVars, setVars
<1>3. ASSUME NEW t \in tasks, Abandon(t) PROVE scene' = scene
  BY <1>3 DEF Abandon, calendarVars, setVars
<1> QED BY <1>1, <1>2, <1>3

-----------------------------------------------------------------------------
(* Requests.                                                               *)

\* What is known of the site in all that follows.
Known ==
    /\ TasksOK /\ Numbered /\ FilesOK /\ BucketOK /\ KeysInv
    /\ made \in Nat /\ Scenes[scene].most \in Nat

LEMMA UploadFits ==
  ASSUME Known, NEW kind, NEW photo, NEW public, NEW in, NEW links, NEW n \in 1..2, More, scene' = scene,
         Starts(Upload(kind, photo, public, MkKey("upload", in, 2 * made), links, n))
  PROVE  TasksMove
<1>0. made \in Nat /\ made < Scenes[scene].most /\ made' = made + 1
  BY DEF Known, More, Starts
<1>1. PICK u : /\ u = Upload(kind, photo, public, MkKey("upload", in, 2 * made), links, n)
               /\ Starts(u)
  OBVIOUS
<1>2. /\ u.do = "upload" /\ u.id = made /\ u.at = "putting" /\ u.key.n = 2 * made /\ u.left = n
  BY <1>1 DEF Upload, MkKey
<1>3. Ahead(u) \subseteq {2 * made, 2 * made + 1}
  BY <1>0, <1>2 DEF Ahead
<1>4. UploadSafe(u)'
  BY <1>0, <1>2 DEF UploadSafe
<1>5. Fits(u)
  BY <1>0, <1>2, <1>3, <1>4 DEF Fits, Safe, Claims
<1> QED BY <1>1, <1>2, <1>5, BeginsMove DEF Known

\* The requests on files change no key.
LEMMA FileRequestsQuiet ==
  ASSUME FilesOK, NEW x,
         \/ \E f \in FileIds : \E photo : FileSetCategory(x, f, photo)
         \/ \E f \in FileIds : \E links : FileSetEventLinks(x, f, links)
         \/ \E fs : FileBulkUpdate(x, fs)
         \/ \E g, fs : AdminGroupSetPhotos(x, g, fs)
         \/ \E r : ResourceHideUnderlyingFile(x, r)
  PROVE  FilesQuiet /\ AtOnce /\ UNCHANGED bucketVars
<1>0. \A f \in FileIds : file[f] \in File
  BY DEF FilesOK
<1>1. ASSUME NEW fs, NEW row, ChangesFiles(x, fs, row),
             \A f \in FileIds : /\ row[f].kind = file[f].kind /\ row[f].key = file[f].key
                                /\ row[f].poster = file[f].poster
      PROVE  FilesQuiet /\ AtOnce /\ UNCHANGED bucketVars
  BY <1>1 DEF ChangesFiles, FilesQuiet
<1>2. ASSUME NEW photo, NEW f \in FileIds, FileSetCategory(x, f, photo)
      PROVE  FilesQuiet /\ AtOnce /\ UNCHANGED bucketVars
  <2> DEFINE row == [g \in FileIds |-> [file[g] EXCEPT !.photo = photo]]
  <2>1. \A g \in FileIds : /\ row[g].kind = file[g].kind /\ row[g].key = file[g].key
                           /\ row[g].poster = file[g].poster
    BY <1>0 DEF File
  <2>2. ChangesFiles(x, {f}, row)
    BY <1>2 DEF FileSetCategory
  <2> HIDE DEF row
  <2> QED BY <1>1, <2>1, <2>2
<1>3. ASSUME NEW links, NEW f \in FileIds, FileSetEventLinks(x, f, links)
      PROVE  FilesQuiet /\ AtOnce /\ UNCHANGED bucketVars
  <2> DEFINE row == [g \in FileIds |-> [file[g] EXCEPT !.events = Linked(links)]]
  <2>1. \A g \in FileIds : /\ row[g].kind = file[g].kind /\ row[g].key = file[g].key
                           /\ row[g].poster = file[g].poster
    BY <1>0 DEF File
  <2>2. ChangesFiles(x, {f}, row)
    BY <1>3 DEF FileSetEventLinks
  <2> HIDE DEF row
  <2> QED BY <1>1, <2>1, <2>2
<1>4. ASSUME NEW fs, NEW public, SetPublicMany(x, fs, public)
      PROVE  FilesQuiet /\ AtOnce /\ UNCHANGED bucketVars
  <2> DEFINE row == [g \in FileIds |-> [file[g] EXCEPT !.public = public]]
  <2>1. \A g \in FileIds : /\ row[g].kind = file[g].kind /\ row[g].key = file[g].key
                           /\ row[g].poster = file[g].poster
    BY <1>0 DEF File
  <2>2. ChangesFiles(x, fs, row)
    BY <1>4 DEF SetPublicMany
  <2> HIDE DEF row
  <2> QED BY <1>1, <2>1, <2>2
<1>5. ASSUME NEW fs, NEW e, NEW replace, LinkEventMany(x, fs, e, replace)
      PROVE  FilesQuiet /\ AtOnce /\ UNCHANGED bucketVars
  <2> DEFINE row == [g \in FileIds |-> [file[g] EXCEPT !.events = (IF replace THEN {} ELSE @) \cup {e}]]
  <2>1. \A g \in FileIds : /\ row[g].kind = file[g].kind /\ row[g].key = file[g].key
                           /\ row[g].poster = file[g].poster
    BY <1>0 DEF File
  <2>2. ChangesFiles(x, fs, row)
    BY <1>5 DEF LinkEventMany
  <2> HIDE DEF row
  <2> QED BY <1>1, <2>1, <2>2
<1>6. ASSUME NEW fs, UnlinkEventsMany(x, fs)
      PROVE  FilesQuiet /\ AtOnce /\ UNCHANGED bucketVars
  <2> DEFINE row == [g \in FileIds |-> [file[g] EXCEPT !.events = {}]]
  <2>1. \A g \in FileIds : /\ row[g].kind = file[g].kind /\ row[g].key = file[g].key
                           /\ row[g].poster = file[g].poster
    BY <1>0 DEF File
  <2>2. ChangesFiles(x, fs, row)
    BY <1>6 DEF UnlinkEventsMany
  <2> HIDE DEF row
  <2> QED BY <1>1, <2>1, <2>2
<1>7. ASSUME NEW g, NEW fs, SetSubGroupLinks(g, fs)
      PROVE  FilesQuiet /\ AtOnce /\ UNCHANGED bucketVars
  BY <1>0, <1>7 DEF SetSubGroupLinks, FilesQuiet, File
<1>8. ASSUME NEW r, ResourceHideUnderlyingFile(x, r)
      PROVE  FilesQuiet /\ AtOnce /\ UNCHANGED bucketVars
  <2> DEFINE row == [g \in FileIds |-> [file[g] EXCEPT !.public = FALSE]]
  <2>1. \A g \in FileIds : /\ row[g].kind = file[g].kind /\ row[g].key = file[g].key
                           /\ row[g].poster = file[g].poster
    BY <1>0 DEF File
  <2>2. ChangesFiles(x, {resource[r].file}, row)
    BY <1>8 DEF ResourceHideUnderlyingFile
  <2> HIDE DEF row
  <2> QED BY <1>1, <2>1, <2>2
<1> QED BY <1>2, <1>3, <1>4, <1>5, <1>6, <1>7, <1>8 DEF FileBulkUpdate, AdminGroupSetPhotos

LEMMA LibraryRequestMoves ==
  ASSUME Known, More, LibraryRequest, scene' = scene
  PROVE  FilesMove /\ BucketMoves /\ TasksMove
<1>0. Known /\ FilesOK /\ made \in Nat
  BY DEF Known
<1>1. FilesQuiet /\ UNCHANGED bucketVars
  <2>1. ASSUME UNCHANGED <<fileVars, bucketVars>> PROVE FilesQuiet /\ UNCHANGED bucketVars
    BY <2>1 DEF FilesQuiet, fileVars
  <2>2. ASSUME NEW x, \/ \E f \in FileIds : \E photo : FileSetCategory(x, f, photo)
                      \/ \E f \in FileIds : \E links : FileSetEventLinks(x, f, links)
                      \/ \E fs : FileBulkUpdate(x, fs)
                      \/ \E g, fs : AdminGroupSetPhotos(x, g, fs)
                      \/ \E r : ResourceHideUnderlyingFile(x, r)
        PROVE  FilesQuiet /\ UNCHANGED bucketVars
    BY <1>0, <2>2, FileRequestsQuiet
  <2>3. ASSUME NEW x \in Logins, NEW what \in Uploads, NEW links, NEW n,
               FileUpload(x, what[1], what[2], links, n)
        PROVE  FilesQuiet /\ UNCHANGED bucketVars
    BY <2>1, <2>3 DEF FileUpload, libraryVars
  <2> QED BY <2>1, <2>2, <2>3 DEF LibraryRequest, AdminGalleryUpload, hostOne, FilePosterUpload, FileDelete,
     FileSetPublic, ResourceSetPublic, adminContentPublishToggle, Flip, serveImageVariant, BackfillThumbnails,
     RekeyFiles, CreateFile, CreateLink, AddResource, ResourceDelete, adminContentCreate, adminContentUpdate,
     adminContentDelete, DeletePost, AdminGroupCreateNews, publishGroupPost, AdminGroupDeleteNews, libraryVars
<1>2. FilesMove /\ BucketMoves
  BY <1>0, <1>1, QuietFiles, QuietBucket DEF bucketVars
<1>3. ASSUME NEW u, Starts(u), Fits(u)
      PROVE  TasksMove
  BY <1>0, <1>3, BeginsMove DEF Known
<1>4. ASSUME NEW u, Starts(u), u.do \notin Keyless PROVE TasksMove
  BY <1>3, <1>4, PlainFits
<1>5. ASSUME AtOnce PROVE TasksMove
  BY <1>0, <1>5, BeginsMove DEF Known
<1>6. ASSUME NEW x \in Logins, NEW what \in Uploads, NEW links \in SUBSET (1..spent), NEW n \in 1..2,
             FileUpload(x, what[1], what[2], links, n)
      PROVE  TasksMove
  <2>1. PICK in : Starts(Upload(what[1], what[2], FALSE, MkKey("upload", in, 2 * made), links, n))
    BY <1>6 DEF FileUpload
  <2> QED BY <2>1, UploadFits
<1>7. ASSUME NEW x \in Logins, NEW kind \in Kinds, NEW public \in BOOLEAN, AdminGalleryUpload(x, kind, public)
      PROVE  TasksMove
  <2>1. Starts(Upload(kind, TRUE, public, MkKey("upload", PhotosFolder, 2 * made), {}, 1))
    BY <1>7 DEF AdminGalleryUpload
  <2>2. 1 \in 1..2
    OBVIOUS
  <2> QED BY <2>1, <2>2, UploadFits
<1>8. ASSUME NEW i \in Images, hostOne(i)
      PROVE  TasksMove
  <2>1. PICK u : Starts(u) /\ u.do = "host" /\ u.at = "looking"
    BY <1>8 DEF hostOne
  <2>2. Fits(u)
    BY <2>1 DEF Fits, Safe, HostSafe, Claims, Uploading
  <2> QED BY <1>3, <2>1, <2>2
<1>9. ASSUME NEW x \in Logins, NEW f \in FileIds, FilePosterUpload(x, f)
      PROVE  TasksMove
  <2>1. PICK u : Starts(u) /\ u.do = "poster" /\ u.at = "putting" /\ u.f = f
    BY <1>9 DEF FilePosterUpload
  <2>2. f \in 1..filed'
    <3>1. f <= filed /\ f \in Nat \ {0} /\ filed \in Nat
      BY <1>0, <1>9, LibraryAssumption DEF FilePosterUpload, FilesOK, RowKeys, FileIds, LibraryAssumption
    <3> QED BY <1>1, <3>1 DEF FilesQuiet
  <2>3. Fits(u)
    BY <2>1, <2>2 DEF Fits, Safe, PosterSafe, Claims, Uploading
  <2> QED BY <1>3, <2>1, <2>3
<1>10. ASSUME NEW x \in Logins, NEW f \in FileIds, FileDelete(x, f)
       PROVE  TasksMove
  <2>1. PICK u : Starts(u) /\ u.do = "drop" /\ u.at = "row" /\ u.f = f /\ u.key = file[f].key
    BY <1>10 DEF FileDelete
  <2>2. Claims(u) \subseteq AllClaims
    BY <1>10, <2>1 DEF FileDelete, Claims, AllClaims
  <2>3. Fits(u)
    BY <2>1, <2>2 DEF Fits, Safe, DropSafe, Uploading
  <2> QED BY <1>3, <2>1, <2>3
<1>11. CASE RekeyFiles
  <2> DEFINE rows == {<<f, file[f].photo, file[f].key>> : f \in {g \in FileIds : Filed(g)}}
  <2>1. PICK u : Starts(u) /\ u.do = "rekey" /\ u.at = "picking" /\ u.rows = rows
    BY <1>11 DEF RekeyFiles
  <2>2. ASSUME NEW row \in rows PROVE <<row[1], row[3]>> \in AllClaims
    BY DEF AllClaims
  <2> HIDE DEF rows
  <2>3. Claims(u) \subseteq AllClaims
    BY <2>1, <2>2 DEF Claims
  <2>4. Fits(u)
    BY <2>1, <2>3 DEF Fits, Safe, RekeySafe, Uploading
  <2> QED BY <1>2, <1>3, <2>1, <2>4
<1>12. ASSUME NEW what, NEW n, NEW to, Starts([id |-> made, do |-> "flip", at |-> what, n |-> n, to |-> to])
       PROVE  TasksMove
  BY <1>4, <1>12 DEF Keyless
<1>13. ASSUME NEW x, NEW n, FileSetPublic(x, n) \/ ResourceSetPublic(x, n) \/ adminContentPublishToggle(x, n)
                            \/ \E g : AdminGroupCreateNews(x, g)
       PROVE  TasksMove
  BY <1>12, <1>13 DEF FileSetPublic, ResourceSetPublic, adminContentPublishToggle, Flip, AdminGroupCreateNews,
     publishGroupPost
<1>14. ASSUME BackfillThumbnails \/ \E x, f, as : serveImageVariant(x, f, as)
       PROVE  TasksMove
  BY <1>4, <1>14 DEF Keyless, BackfillThumbnails, serveImageVariant
<1>15. ASSUME NEW x, \/ \E f \in FileIds : \E photo : FileSetCategory(x, f, photo)
                     \/ \E f \in FileIds : \E links : FileSetEventLinks(x, f, links)
                     \/ \E fs : FileBulkUpdate(x, fs)
                     \/ \E g, fs : AdminGroupSetPhotos(x, g, fs)
                     \/ \E r : ResourceHideUnderlyingFile(x, r)
       PROVE  TasksMove
  BY <1>0, <1>5, <1>15, FileRequestsQuiet
<1> QED BY <1>2, <1>5, <1>6, <1>7, <1>8, <1>9, <1>10, <1>11, <1>13, <1>14, <1>15
        DEF LibraryRequest, CreateFile, CreateLink, ResourceDelete, adminContentCreate, adminContentUpdate,
            adminContentDelete, DeletePost, AdminGroupDeleteNews

-----------------------------------------------------------------------------
(* Steps of what is under way.                                             *)

\* A task that goes on with what it claimed and made sure of.
LEMMA GoesFit ==
  ASSUME Known, scene' = scene, NEW t \in tasks, NEW u, Goes(t, u), u.do = t.do, Safe(u)',
         Claims(u) \subseteq Claims(t), Uploading(u) => Uploading(t) /\ Ahead(u) \subseteq Ahead(t)
  PROVE  TasksMove
<1>1. Claims(u) \subseteq AllClaims
  BY DEF AllClaims
<1>2. Fits(u)
  BY <1>1 DEF Fits
<1> QED BY <1>2, GoesOnMove DEF Known

LEMMA EndsFit ==
  ASSUME Known, scene' = scene, NEW t \in tasks, Ends(t)
  PROVE  TasksMove
BY GoesOnMove DEF Known

LEMMA RowsAlone ==
  ASSUME Known, UNCHANGED fileVars
  PROVE  FilesMove
BY QuietFiles DEF Known, fileVars, FilesQuiet

\* A row that is made names an object, under a key that was nobody's.
LEMMA CreateMoves ==
  ASSUME Known, NEW t, NEW row, Create(t, row), Stored(row.key)', row.poster = FALSE,
         \A c \in AllClaims : c[2] = row.key => c[2] \in crossed,
         row.key.by = "upload" => Recorded(row.key)
  PROVE  FilesMove
<1>0. FilesOK /\ filed \in Nat
  BY LibraryAssumption DEF Known, FilesOK, LibraryAssumption
<1>1. filed' = filed + 1 /\ \A f \in FileIds : file'[f] = IF f = filed + 1 THEN row ELSE file[f]
  BY <1>0 DEF Create, FilesOK
<1>2. filed <= filed'
  BY <1>0, <1>1
<1>3. ASSUME NEW f \in FileIds, Filed(f)', f # filed + 1
      PROVE  Stays(f) /\ (file'[f].poster => Filed(f) /\ file[f].poster)
  BY <1>1, <1>3 DEF Stays, Filed
<1>4. ASSUME NEW f \in FileIds, f = filed + 1
      PROVE  Comes(f) /\ file'[f].poster = FALSE
  <2>1. file'[f] = row
    BY <1>1, <1>4
  <2>2. Stored(file[f].key)'
    BY <2>1 DEF Stored, Has
  <2> QED BY <1>4, <2>1, <2>2 DEF Comes
<1> QED BY <1>2, <1>3, <1>4 DEF FilesMove

LEMMA UploadMoves ==
  ASSUME Known, NEW t \in tasks, t.do = "upload", UploadStep(t), scene' = scene
  PROVE  FilesMove /\ BucketMoves /\ TasksMove
<1>0. t \in UploadTask /\ UploadFormed(t) /\ UploadSafe(t)
  BY LibraryKinds DEF Known, TasksOK, Formed, KeysInv, Safe
<1>1. CASE t.at = "putting" /\ storeUpload(t)
  <2>1. PICK u : /\ Goes(t, u) /\ u.do = t.do /\ u.at = "recording" /\ u.id = t.id /\ u.key = t.key
                 /\ u.left = t.left
    <3> DEFINE v == [t EXCEPT !.at = "recording"]
    <3>1. v.do = t.do /\ v.at = "recording" /\ v.id = t.id /\ v.key = t.key /\ v.left = t.left
      BY <1>0 DEF UploadTask
    <3>2. Goes(t, v)
      BY <1>1 DEF storeUpload
    <3> HIDE DEF v
    <3> QED BY <3>1, <3>2
  <2>2. objects \subseteq objects' /\ <<t.key, "">> \in objects' /\ UNCHANGED <<fileVars, posters>>
    BY <1>1 DEF storeUpload, Put
  <2>3. Safe(u)'
    <3>1. Has(u.key, "")'
      BY <2>1, <2>2 DEF Has
    <3> QED BY <1>0, <1>1, <2>1, <3>1 DEF Safe, UploadSafe, Uploading
  <2>4. Uploading(t) /\ Ahead(u) = Ahead(t) /\ Claims(u) = {}
    BY <1>1, <2>1 DEF Uploading, Ahead, Claims
  <2>5. TasksMove
    BY <2>1, <2>3, <2>4, GoesFit
  <2> QED BY <2>2, <2>5, RowsAlone, QuietBucket
<1>2. CASE t.at = "recording" /\ RecordUpload(t)
  <2> DEFINE row == MkFile(t.kind, t.photo, t.public, t.key)
  <2>0. /\ Uploading(t) /\ t.key.n \in Nat /\ t.key.n \in Ahead(t) /\ t.key.by = "upload" /\ t.key \in Key
        /\ \A n \in Ahead(t) : n \in {2 * t.id, 2 * t.id + 1}
        /\ t.id \in Nat
    BY <1>2, UploadAhead DEF Uploading, Known
  <2>1. UNCHANGED bucketVars /\ Create(t, row) /\ row.key = t.key /\ row.poster = FALSE
    BY <1>2 DEF RecordUpload, MkFile
  <2>2. PICK u : /\ Goes(t, u) /\ u.do = t.do /\ u.id = t.id /\ u.at # "recording"
                 /\ \/ u.at = "linking"
                    \/ u.left = t.left - 1 /\ u.key.n = t.key.n + 1
    <3>1. CASE t.left > 1
      <4> DEFINE key == [t.key EXCEPT !.n = @ + 1]
                 v == [t EXCEPT !.at = "putting", !.left = @ - 1, !.key = key, !.ids = @ \cup {filed + 1}]
      <4>1. Goes(t, v)
        <5>1. Goes(t, [t EXCEPT !.at = "putting", !.left = @ - 1, !.key.n = @ + 1, !.ids = @ \cup {filed + 1}])
          BY <1>2, <3>1 DEF RecordUpload
        <5> QED BY <5>1
      <4>2. key.n = t.key.n + 1
        BY <2>0 DEF Key
      <4> HIDE DEF key
      <4>3. v.do = t.do /\ v.id = t.id /\ v.at = "putting" /\ v.left = t.left - 1 /\ v.key = key
        BY <1>0 DEF UploadTask
      <4> HIDE DEF v
      <4> QED BY <4>1, <4>2, <4>3
    <3>2. CASE ~(t.left > 1)
      <4> DEFINE v == [t EXCEPT !.at = "linking", !.ids = @ \cup {filed + 1}]
      <4>1. Goes(t, v)
        BY <1>2, <3>2 DEF RecordUpload
      <4>2. v.do = t.do /\ v.id = t.id /\ v.at = "linking"
        BY <1>0 DEF UploadTask
      <4> HIDE DEF v
      <4> QED BY <4>1, <4>2
    <3> QED BY <3>1, <3>2
  <2>3. t.left \in 1..2
    BY <1>0 DEF UploadTask
  <2>4. Uploading(u) => Ahead(u) \subseteq Ahead(t) /\ t.key.n \notin Ahead(u)
    BY <2>0, <2>2, <2>3 DEF Uploading, Ahead
  <2>5. Safe(u)'
    <3>1. t.key.n >= 2 * t.id /\ t.key.n + t.left - 1 <= 2 * t.id + 1
      BY <1>0, <2>0 DEF UploadSafe
    <3>2. u.key.n = t.key.n + 1 /\ u.left = t.left - 1 =>
             u.key.n >= 2 * t.id /\ u.key.n + u.left - 1 <= 2 * t.id + 1
      BY <2>0, <2>3, <3>1
    <3>3. Uploading(u) => u.key.n >= 2 * u.id /\ u.key.n + u.left - 1 <= 2 * u.id + 1
      BY <2>2, <3>2 DEF Uploading
    <3>4. u.do = "upload" /\ u.at # "recording"
      BY <2>2
    <3> QED BY <3>3, <3>4 DEF Safe, UploadSafe, Uploading
  <2>6. Claims(u) = {} /\ u.do = "upload"
    BY <2>2 DEF Claims
  <2>7. TasksMove
    BY <2>0, <2>2, <2>4, <2>5, <2>6, GoesFit
  <2>8. Recorded(t.key)
    <3>1. ASSUME NEW o \in tasks, o # t, Uploading(o) PROVE t.key.n \notin Ahead(o)
      <4>1. o.id # t.id /\ o.id \in Nat
        BY <3>1, UploadAhead DEF Known, Numbered
      <4>2. \A n \in Ahead(o) : n \in {2 * o.id, 2 * o.id + 1}
        BY <3>1, UploadAhead DEF Known
      <4>3. t.key.n \in {2 * t.id, 2 * t.id + 1}
        BY <2>0
      <4>4. t.key.n \notin {2 * o.id, 2 * o.id + 1}
        BY <2>0, <4>1, <4>3
      <4> QED BY <4>2, <4>4
    <3>2. tasks' = (tasks \ {t}) \cup {u}
      BY <2>2 DEF Goes
    <3>3. \A o \in tasks' : Uploading(o) => t.key.n \notin Ahead(o)
      BY <2>4, <3>1, <3>2
    <3> QED BY <2>0, <3>3 DEF Recorded
  <2>9. \A c \in AllClaims : c[2] # t.key
    BY <2>0 DEF Known, KeysInv, FreshKeys
  <2>10. Stored(row.key)'
    <3>1. Has(t.key, "")
      BY <1>0, <1>2 DEF UploadSafe
    <3> QED BY <2>1, <3>1 DEF Stored, Has, bucketVars
  <2> HIDE DEF row
  <2>11. FilesMove
    BY <2>1, <2>8, <2>9, <2>10, CreateMoves
  <2> QED BY <2>1, <2>7, <2>11, QuietBucket DEF bucketVars
<1>3. ASSUME t.at = "linking", NEW f \in t.ids, NEW ok \in BOOLEAN, LinkUpload(t, f, ok)
      PROVE  FilesMove /\ BucketMoves /\ TasksMove
  <2>1. FilesQuiet /\ UNCHANGED bucketVars
    <3>1. \A g \in FileIds : file[g] \in File
      BY DEF Known, FilesOK
    <3>2. f \in FileIds /\ file \in [FileIds -> File]
      BY <1>0 DEF UploadTask, Known, FilesOK
    <3> QED BY <1>3, <3>1, <3>2 DEF LinkUpload, FilesQuiet, File
  <2>2. TasksMove
    <3>1. CASE Goes(t, [t EXCEPT !.ids = @ \ {f}])
      <4>1. PICK u : Goes(t, u) /\ u.do = t.do /\ u.at = "linking"
        <5> DEFINE v == [t EXCEPT !.ids = @ \ {f}]
        <5>1. v.do = t.do /\ v.at = "linking"
          BY <1>0, <1>3 DEF UploadTask
        <5>2. Goes(t, v)
          BY <3>1
        <5> HIDE DEF v
        <5> QED BY <5>1, <5>2
      <4>2. Safe(u)' /\ Claims(u) = {} /\ ~Uploading(u)
        BY <4>1 DEF Safe, UploadSafe, Uploading, Claims
      <4> QED BY <4>1, <4>2, GoesFit
    <3> QED BY <1>3, <3>1, EndsFit DEF LinkUpload
  <2> QED BY <2>1, <2>2, QuietFiles, QuietBucket DEF bucketVars, Known
<1> QED BY <1>1, <1>2, <1>3 DEF UploadStep

LEMMA HostMoves ==
  ASSUME Known, NEW t \in tasks, t.do = "host", HostStep(t), scene' = scene, crossed \subseteq crossed'
  PROVE  FilesMove /\ BucketMoves /\ TasksMove
<1>0. t \in HostTask /\ HostFormed(t) /\ HostSafe(t)
  BY LibraryKinds DEF Known, TasksOK, Formed, KeysInv, Safe
<1>1. ASSUME NEW at, at # "recording", Goes(t, [t EXCEPT !.at = at])
      PROVE  TasksMove
  <2>1. PICK u : Goes(t, u) /\ u.do = t.do /\ u.at = at
    <3> DEFINE v == [t EXCEPT !.at = at]
    <3>1. v.do = t.do /\ v.at = at
      BY <1>0 DEF HostTask
    <3>2. Goes(t, v)
      BY <1>1
    <3> HIDE DEF v
    <3> QED BY <3>1, <3>2
  <2>2. Safe(u)' /\ Claims(u) = {} /\ ~Uploading(u)
    BY <1>1, <2>1 DEF Safe, HostSafe, Uploading, Claims
  <2> QED BY <2>1, <2>2, GoesFit
<1>2. CASE LookUpHosted(t)
  <2>1. UNCHANGED <<fileVars, bucketVars>>
    BY <1>2 DEF LookUpHosted, libraryVars
  <2>2. TasksMove
    BY <1>1, <1>2, EndsFit DEF LookUpHosted
  <2> QED BY <2>1, <2>2, RowsAlone, QuietBucket DEF bucketVars
<1>3. CASE PutHosted(t)
  <2>1. PICK u : Goes(t, u) /\ u.do = t.do /\ u.key = t.key
    <3> DEFINE v == [t EXCEPT !.at = "recording"]
    <3>1. v.do = t.do /\ v.key = t.key
      BY <1>0 DEF HostTask
    <3>2. Goes(t, v)
      BY <1>3 DEF PutHosted
    <3> HIDE DEF v
    <3> QED BY <3>1, <3>2
  <2>2. objects \subseteq objects' /\ <<t.key, "">> \in objects' /\ UNCHANGED <<fileVars, posters>>
    BY <1>3 DEF PutHosted, Put
  <2>3. Safe(u)' /\ Claims(u) = {} /\ ~Uploading(u)
    BY <2>1, <2>2 DEF Safe, HostSafe, Stored, Has, Uploading, Claims
  <2>4. TasksMove
    BY <2>1, <2>3, GoesFit
  <2> QED BY <2>2, <2>4, RowsAlone, QuietBucket
<1>4. CASE t.at = "recording" /\ RecordHosted(t)
  <2> DEFINE row == MkFile("image", FALSE, TRUE, t.key)
  <2>1. UNCHANGED bucketVars /\ Create(t, row) /\ row.key = t.key /\ row.poster = FALSE /\ Ends(t)
    BY <1>4 DEF RecordHosted, MkFile
  <2>2. t.key.by # "upload"
    BY <1>0 DEF HostFormed
  <2>3. Stored(row.key)'
    BY <1>0, <1>4, <2>1 DEF HostSafe, Stored, Has, bucketVars
  <2>4. \A f \in FileIds : Filed(f) => file[f].key # t.key
    BY <2>1 DEF Create, ByStorageKey
  <2>5. ASSUME NEW c \in AllClaims, c[2] = t.key PROVE c[2] \in crossed
    <3>1. CASE c \in UNION {Claims(o) : o \in tasks}
      <4>1. PICK o \in tasks : c \in Claims(o)
        BY <3>1
      <4> QED BY <2>5, <4>1 DEF Known, KeysInv, Crossings
    <3>2. CASE c \in {<<f, file[f].key>> : f \in {g \in FileIds : Filed(g)}}
      BY <2>4, <2>5, <3>2
    <3> QED BY <3>1, <3>2 DEF AllClaims
  <2> HIDE DEF row
  <2>6. FilesMove
    BY <2>1, <2>2, <2>3, <2>5, CreateMoves
  <2> QED BY <2>1, <2>6, EndsFit, QuietBucket DEF bucketVars
<1> QED BY <1>2, <1>3, <1>4 DEF HostStep

LEMMA PosterMoves ==
  ASSUME Known, NEW t \in tasks, t.do = "poster", PosterStep(t), scene' = scene
  PROVE  FilesMove /\ BucketMoves /\ TasksMove
<1>0. t \in PosterTask /\ PosterSafe(t) /\ FilesOK
  BY LibraryKinds DEF Known, TasksOK, KeysInv, Safe
<1>1. CASE PutPoster(t)
  <2>1. PICK u : Goes(t, u) /\ u.do = t.do /\ u.f = t.f
    <3> DEFINE v == [t EXCEPT !.at = "recording"]
    <3>1. v.do = t.do /\ v.f = t.f
      BY <1>0 DEF PosterTask
    <3>2. Goes(t, v)
      BY <1>1 DEF PutPoster
    <3> HIDE DEF v
    <3> QED BY <3>1, <3>2
  <2>2. posters' = posters \cup {t.f} /\ UNCHANGED <<fileVars, objects>>
    BY <1>1 DEF PutPoster
  <2>3. Safe(u)' /\ Claims(u) = {} /\ ~Uploading(u)
    BY <1>0, <2>1, <2>2 DEF Safe, PosterSafe, Uploading, Claims, fileVars
  <2>4. TasksMove
    BY <2>1, <2>3, GoesFit
  <2> QED BY <2>2, <2>4, RowsAlone, QuietBucket
<1>2. CASE t.at = "recording" /\ SetPoster(t)
  <2>1. UNCHANGED <<filed, bucketVars>> /\ Ends(t)
    BY <1>2 DEF SetPoster
  <2>2. \A f \in FileIds : /\ file'[f].kind = file[f].kind /\ file'[f].key = file[f].key
                           /\ file'[f].poster => file[f].poster \/ (f = t.f /\ Filed(f))
    <3>1. \A f \in FileIds : file[f] \in File
      BY <1>0 DEF FilesOK
    <3>2. file \in [FileIds -> File]
      BY <1>0 DEF FilesOK
    <3> QED BY <1>2, <3>1, <3>2 DEF SetPoster, File
  <2>3. t.f \in posters \/ ~Filed(t.f)
    BY <1>0, <1>2 DEF PosterSafe
  <2>4. filed <= filed'
    BY <1>0, <2>1, LibraryAssumption DEF FilesOK, LibraryAssumption
  <2>5. FilesMove
    BY <2>1, <2>2, <2>3, <2>4 DEF FilesMove, Stays, Filed, bucketVars
  <2> QED BY <2>1, <2>5, EndsFit, QuietBucket DEF bucketVars
<1> QED BY <1>1, <1>2 DEF PosterStep

LEMMA DropMoves ==
  ASSUME Known, NEW t \in tasks, t.do = "drop", DropStep(t), scene' = scene
  PROVE  FilesMove /\ BucketMoves /\ TasksMove
<1>0. t \in DropTask /\ DropSafe(t) /\ FilesOK
  BY LibraryKinds DEF Known, TasksOK, KeysInv, Safe
<1>1. ASSUME NEW at, Goes(t, [t EXCEPT !.at = at]), ~Filed(t.f)'
      PROVE  TasksMove
  <2>1. PICK u : Goes(t, u) /\ u.do = t.do /\ u.f = t.f /\ u.key = t.key
    <3> DEFINE v == [t EXCEPT !.at = at]
    <3>1. v.do = t.do /\ v.f = t.f /\ v.key = t.key
      BY <1>0 DEF DropTask
    <3>2. Goes(t, v)
      BY <1>1
    <3> HIDE DEF v
    <3> QED BY <3>1, <3>2
  <2>2. Claims(u) = Claims(t) /\ ~Uploading(u)
    BY <2>1 DEF Claims, Uploading
  <2>3. Safe(u)'
    BY <1>1, <2>1 DEF Safe, DropSafe, Filed
  <2> QED BY <2>1, <2>2, <2>3, GoesFit
<1>2. CASE DeleteRow(t)
  <2>1. /\ UNCHANGED <<filed, bucketVars>>
        /\ \A f \in FileIds : file'[f] = IF f = t.f THEN NoSuchFile ELSE file[f]
        /\ NoSuchFile.kind = "none" /\ filed \in Nat
    BY <1>0, <1>2, LibraryAssumption DEF DeleteRow, FilesOK, NoSuchFile, MkFile, LibraryAssumption
  <2>2. ~Filed(t.f)'
    BY <2>1 DEF Filed
  <2>3. \A f \in FileIds : Filed(f)' => Stays(f) /\ file'[f].poster = file[f].poster
    BY <2>1 DEF Filed, Stays
  <2>4. FilesMove
    BY <2>1, <2>3 DEF FilesMove, Stays
  <2>5. TasksMove
    BY <1>1, <1>2, <2>2 DEF DeleteRow
  <2> QED BY <2>1, <2>4, <2>5, QuietBucket DEF bucketVars
<1>3. ASSUME t.at # "row", UNCHANGED fileVars PROVE ~Filed(t.f)' /\ FilesMove
  BY <1>0, <1>3, RowsAlone DEF DropSafe, Filed, fileVars
<1>4. ASSUME t.at = "object", NEW ok \in BOOLEAN, DeleteObject(t, ok)
      PROVE  FilesMove /\ BucketMoves /\ TasksMove
  <2>1. UNCHANGED <<fileVars, posters>> /\ \A k : Has(k, "") => Has(k, "")' \/ k = t.key
    BY <1>4 DEF DeleteObject, Has
  <2>2. Loose(t.key)
    BY <1>4 DEF Loose
  <2>3. BucketMoves
    BY <2>1, <2>2 DEF BucketMoves
  <2> QED BY <1>1, <1>3, <1>4, <2>1, <2>3 DEF DeleteObject
<1>5. ASSUME t.at = "thumb", NEW ok \in BOOLEAN, DeleteThumb(t, ok)
      PROVE  FilesMove /\ BucketMoves /\ TasksMove
  <2>1. UNCHANGED <<fileVars, posters>> /\ \A k : Has(k, "") => Has(k, "")'
    BY <1>5 DEF DeleteThumb, Has
  <2>2. BucketMoves
    BY <2>1 DEF BucketMoves
  <2> QED BY <1>1, <1>3, <1>5, <2>1, <2>2 DEF DeleteThumb
<1>6. ASSUME t.at = "poster", NEW ok \in BOOLEAN, DeletePoster(t, ok)
      PROVE  FilesMove /\ BucketMoves /\ TasksMove
  <2>1. UNCHANGED <<fileVars, objects>> /\ \A f \in posters : f \in posters' \/ f = t.f
    BY <1>6 DEF DeletePoster
  <2>2. ~Filed(t.f)
    BY <1>0, <1>6 DEF DropSafe
  <2>3. BucketMoves
    BY <2>1, <2>2 DEF BucketMoves, Has
  <2> QED BY <1>3, <1>6, <2>1, <2>3, EndsFit DEF DeletePoster
<1> QED BY <1>2, <1>4, <1>5, <1>6 DEF DropStep

LEMMA PlainMoves ==
  ASSUME Known, NEW t \in tasks, scene' = scene,
         \/ t.do = "flip" /\ SetFlag(t)
         \/ t.do = "variant" /\ \E ok \in BOOLEAN : fetchAndCacheVariant(t, t.as, ok)
         \/ t.do = "backfill" /\ BackfillStep(t)
  PROVE  FilesMove /\ BucketMoves /\ TasksMove
<1>0. FilesOK /\ \A f \in FileIds : file[f] \in File
  BY DEF Known, FilesOK
<1>1. CASE t.do = "flip" /\ SetFlag(t)
  <2>0. t.at \in {"file", "resource", "post"}
    BY <1>1, LibraryKinds DEF Known, TasksOK, FlipTask
  <2>1. UNCHANGED <<filed, bucketVars>> /\ Ends(t)
    BY <1>1 DEF SetFlag
  <2>2. file' = IF t.at = "file" /\ Filed(t.n) THEN [file EXCEPT ![t.n].public = t.to] ELSE file
    BY <1>1, <2>0 DEF SetFlag
  <2>3. FilesQuiet
    BY <1>0, <2>1, <2>2 DEF FilesQuiet, FilesOK, File
  <2> QED BY <1>0, <2>1, <2>3, EndsFit, QuietFiles, QuietBucket DEF bucketVars
<1>2. ASSUME NEW u, Goes(t, u), u.do = t.do, t.do \notin Keyless PROVE TasksMove
  BY <1>2, PlainFits, GoesOnMove DEF Known
<1>3. ASSUME t.do = "backfill", NEW u, Goes(t, u), u.do = "backfill" PROVE TasksMove
  BY <1>2, <1>3 DEF Keyless
<1>4. ASSUME NEW as, NEW ok \in BOOLEAN, fetchAndCacheVariant(t, as, ok), t.do \in {"variant", "backfill"}
      PROVE  FilesMove /\ BucketMoves /\ TasksMove
  <2>1. UNCHANGED <<fileVars, posters>> /\ objects \subseteq objects'
    BY <1>4 DEF fetchAndCacheVariant
  <2>2. TasksMove
    <3>1. CASE t.do = "backfill" /\ Goes(t, [t EXCEPT !.at = "reading", !.key = NoKey])
      <4> DEFINE v == [t EXCEPT !.at = "reading", !.key = NoKey]
      <4>1. v.do = "backfill"
        BY <3>1, LibraryKinds DEF Known, TasksOK, BackfillTask
      <4>2. Goes(t, v)
        BY <3>1
      <4> HIDE DEF v
      <4> QED BY <1>3, <3>1, <4>1, <4>2
    <3> QED BY <1>4, <3>1, EndsFit DEF fetchAndCacheVariant
  <2> QED BY <2>1, <2>2, RowsAlone, QuietBucket
<1>5. ASSUME t.do = "backfill", \/ \E k \in t.keys : ReadOriginal(t, k)
                               \/ RunDone(t, t.keys)
      PROVE  FilesMove /\ BucketMoves /\ TasksMove
  <2>1. UNCHANGED <<fileVars, bucketVars>>
    BY <1>5 DEF ReadOriginal, RunDone, libraryVars
  <2>2. t \in BackfillTask
    BY <1>5, LibraryKinds DEF Known, TasksOK
  <2>3. ASSUME NEW k, ReadOriginal(t, k) PROVE TasksMove
    <3> DEFINE v == [t EXCEPT !.at = "caching", !.keys = @ \ {k}, !.key = k]
               w == [t EXCEPT !.keys = @ \ {k}]
    <3>1. v.do = "backfill" /\ w.do = "backfill"
      BY <2>2 DEF BackfillTask
    <3>2. Goes(t, v) \/ Goes(t, w)
      BY <2>3 DEF ReadOriginal
    <3> HIDE DEF v, w
    <3> QED BY <1>3, <1>5, <3>1, <3>2
  <2> QED BY <1>5, <2>1, <2>3, EndsFit, RowsAlone, QuietBucket DEF RunDone, bucketVars
<1> QED BY <1>1, <1>4, <1>5 DEF BackfillStep

LEMMA RekeyMoves ==
  ASSUME Known, NEW t \in tasks, t.do = "rekey", RekeyStep(t), scene' = scene, crossed \subseteq crossed'
  PROVE  FilesMove /\ BucketMoves /\ TasksMove
<1>0. t \in RekeyTask /\ RekeyFormed(t) /\ RekeySafe(t) /\ FilesOK
  BY LibraryKinds DEF Known, TasksOK, Formed, KeysInv, Safe
<1>1. ASSUME NEW u, Goes(t, u), u.do = "rekey", RekeySafe(u)',
             u.rows \subseteq t.rows, u.at # "picking" => <<u.f, u.from>> \in Claims(t)
      PROVE  TasksMove
  <2>1. Claims(u) \subseteq Claims(t)
    BY <1>1 DEF Claims
  <2>2. Safe(u)' /\ ~Uploading(u)
    BY <1>1 DEF Safe, Uploading
  <2> QED BY <1>1, <2>1, <2>2, GoesFit
<1>2. t.at # "picking" => <<t.f, t.from>> \in Claims(t)
  BY DEF Claims
\* On to another stage with the same file.
<1>3. ASSUME t.at # "picking", NEW u, Goes(t, u), u.do = "rekey", u.rows = t.rows, u.f = t.f, u.from = t.from,
             u.want = t.want, RekeySafe(u)'
      PROVE  TasksMove
  BY <1>1, <1>2, <1>3
<1>4. ASSUME NEW at, NEW w, Goes(t, w), w = [t EXCEPT !.at = at]
      PROVE  \E u : /\ Goes(t, u) /\ u.do = "rekey" /\ u.at = at /\ u.rows = t.rows /\ u.f = t.f /\ u.from = t.from
                    /\ u.want = t.want
  <2> DEFINE v == [t EXCEPT !.at = at]
  <2>1. v.do = "rekey" /\ v.at = at /\ v.rows = t.rows /\ v.f = t.f /\ v.from = t.from /\ v.want = t.want
    BY <1>0 DEF RekeyTask
  <2>2. Goes(t, v)
    BY <1>4
  <2> HIDE DEF v
  <2> QED BY <2>1, <2>2
<1>5. ASSUME GiveUp(t) PROVE TasksMove
  <2>1. PICK u : Goes(t, u) /\ u.do = "rekey" /\ u.at = "picking" /\ u.rows = t.rows
    <3> DEFINE v == [t EXCEPT !.at = "picking", !.f = 0, !.from = NoKey, !.want = NoKey, !.thumb = FALSE]
    <3>1. v.do = "rekey" /\ v.at = "picking" /\ v.rows = t.rows
      BY <1>0 DEF RekeyTask
    <3>2. Goes(t, v)
      BY <1>5 DEF GiveUp
    <3> HIDE DEF v
    <3> QED BY <3>1, <3>2
  <2>2. RekeySafe(u)'
    BY <2>1 DEF RekeySafe
  <2> QED BY <1>1, <2>1, <2>2
<1>6. ASSUME t.at = "picking", NEW row \in t.rows, PickFile(t, row)
      PROVE  FilesMove /\ BucketMoves /\ TasksMove
  <2>1. PICK u : /\ Goes(t, u) /\ u.do = "rekey" /\ u.at \in {"picking", "copying"} /\ u.rows \subseteq t.rows
                 /\ u.at = "copying" => u.f = row[1] /\ u.from = row[3]
    <3> DEFINE v == [t EXCEPT !.rows = @ \ {row}]
    <3>0. v \in RekeyTask /\ v.rows = t.rows \ {row} /\ v.at = "picking" /\ v.do = "rekey"
      BY <1>0, <1>6 DEF RekeyTask
    <3>1. CASE Goes(t, v)
      <4> HIDE DEF v
      <4> QED BY <3>0, <3>1
    <3>2. ASSUME NEW want, Goes(t, [v EXCEPT !.at = "copying", !.f = row[1], !.from = row[3], !.want = want])
          PROVE  \E u : /\ Goes(t, u) /\ u.do = "rekey" /\ u.at = "copying" /\ u.rows \subseteq t.rows
                        /\ u.f = row[1] /\ u.from = row[3]
      <4> HIDE DEF v
      <4> DEFINE w == [v EXCEPT !.at = "copying", !.f = row[1], !.from = row[3], !.want = want]
      <4>1. w.do = "rekey" /\ w.at = "copying" /\ w.rows = v.rows /\ w.f = row[1] /\ w.from = row[3]
        BY <3>0 DEF RekeyTask
      <4>2. Goes(t, w)
        BY <3>2
      <4> HIDE DEF w
      <4> QED BY <3>0, <4>1, <4>2
    <3>3. \/ Goes(t, v)
          \/ \E want : Goes(t, [v EXCEPT !.at = "copying", !.f = row[1], !.from = row[3], !.want = want])
      BY <1>6 DEF PickFile
    <3> HIDE DEF v
    <3> QED BY <3>1, <3>2, <3>3
  <2>2. RekeySafe(u)'
    BY <2>1 DEF RekeySafe
  <2>3. <<row[1], row[3]>> \in Claims(t)
    BY <1>6 DEF Claims
  <2>4. TasksMove
    BY <1>1, <2>1, <2>2, <2>3
  <2>5. UNCHANGED <<fileVars, bucketVars>>
    BY <1>6 DEF PickFile, libraryVars
  <2> QED BY <2>4, <2>5, RowsAlone, QuietBucket DEF bucketVars
<1>7. CASE RunDone(t, t.rows) \/ RekeyFails(t)
  <2>1. UNCHANGED <<fileVars, bucketVars>>
    BY <1>7 DEF RunDone, RekeyFails, libraryVars
  <2>2. TasksMove
    BY <1>5, <1>7, EndsFit DEF RunDone, RekeyFails
  <2> QED BY <2>1, <2>2, RowsAlone, QuietBucket DEF bucketVars
<1>8. ASSUME t.at = "copying", NEW done \in BOOLEAN, NEW claims \in BOOLEAN, CopyObject(t, done, claims)
      PROVE  FilesMove /\ BucketMoves /\ TasksMove
  <2>1. UNCHANGED <<fileVars, posters>> /\ objects \subseteq objects'
    BY <1>8 DEF CopyObject
  <2>2. ASSUME Goes(t, [t EXCEPT !.at = "verifying"]) PROVE TasksMove
    <3>0. PICK u : u = [t EXCEPT !.at = "verifying"]
      OBVIOUS
    <3>1. Goes(t, u)
      BY <2>2, <3>0 DEF Goes
    <3>2. /\ u.do = "rekey" /\ u.at = "verifying" /\ u.rows = t.rows /\ u.f = t.f
          /\ u.from = t.from /\ u.want = t.want
      BY <1>0, <3>0 DEF RekeyTask
    <3>3. RekeySafe(u)'
      BY <3>2 DEF RekeySafe
    <3> QED BY <1>3, <1>8, <3>1, <3>2, <3>3
  <2>3. TasksMove
    BY <1>5, <1>8, <2>2 DEF CopyObject
  <2> QED BY <2>1, <2>3, RowsAlone, QuietBucket
<1>9. ASSUME t.at = "verifying", VerifyCopy(t)
      PROVE  FilesMove /\ BucketMoves /\ TasksMove
  <2>1. UNCHANGED <<fileVars, bucketVars>>
    BY <1>9 DEF VerifyCopy, libraryVars
  <2>2. ASSUME Has(t.want, ""), Goes(t, [t EXCEPT !.at = "thumb"]) PROVE TasksMove
    <3>0. PICK u : u = [t EXCEPT !.at = "thumb"]
      OBVIOUS
    <3>1. u.do = "rekey" /\ u.at = "thumb" /\ u.rows = t.rows /\ u.f = t.f /\ u.from = t.from /\ u.want = t.want
      BY <1>0, <3>0 DEF RekeyTask
    <3>2. Goes(t, u)
      BY <2>2, <3>0 DEF Goes
    <3>3. RekeySafe(u)'
      BY <2>1, <2>2, <3>1 DEF RekeySafe, Stored, Has, bucketVars
    <3> QED BY <1>3, <1>9, <3>1, <3>2, <3>3
  <2>3. TasksMove
    BY <1>5, <1>9, <2>2 DEF VerifyCopy
  <2> QED BY <2>1, <2>3, RowsAlone, QuietBucket DEF bucketVars
<1>10. ASSUME t.at = "thumb", NEW ok \in BOOLEAN, CopyThumb(t, ok)
       PROVE  FilesMove /\ BucketMoves /\ TasksMove
  <2>1. UNCHANGED <<fileVars, posters>> /\ objects \subseteq objects'
    BY <1>10 DEF CopyThumb
  <2>2. PICK u : /\ Goes(t, u) /\ u.do = "rekey" /\ u.at = "pointing" /\ u.rows = t.rows /\ u.f = t.f
                 /\ u.from = t.from /\ u.want = t.want
    <3>0. PICK moved \in BOOLEAN : moved = (ok /\ Has(t.from, "thumb"))
      OBVIOUS
    <3> DEFINE v == [t EXCEPT !.at = "pointing", !.thumb = moved]
    <3>1. /\ v.do = "rekey" /\ v.at = "pointing" /\ v.rows = t.rows /\ v.f = t.f /\ v.from = t.from
          /\ v.want = t.want
      BY <1>0 DEF RekeyTask
    <3>2. Goes(t, v)
      BY <1>10, <3>0 DEF CopyThumb
    <3> HIDE DEF v
    <3> QED BY <3>1, <3>2
  <2>3. Filed(t.f)' => Stored(t.want)'
    BY <1>0, <1>10, <2>1 DEF RekeySafe, Filed, Stored, Has, fileVars
  <2>4. RekeySafe(u)'
    BY <2>2, <2>3 DEF RekeySafe, Filed, Stored, Has
  <2>5. TasksMove
    BY <1>3, <1>10, <2>2, <2>4
  <2> QED BY <2>1, <2>5, RowsAlone, QuietBucket
<1>11. ASSUME t.at = "pointing", SetStorageKey(t)
       PROVE  FilesMove /\ BucketMoves /\ TasksMove
  <2>1. UNCHANGED <<filed, bucketVars>> /\ t.want.by = "row" /\ t.want.n = t.f /\ t.want # t.from /\ t.f \in FileIds
    BY <1>0, <1>11 DEF SetStorageKey, RekeyFormed
  <2>2. /\ \A f \in FileIds : /\ file'[f].kind = file[f].kind /\ file'[f].poster = file[f].poster
                              /\ file'[f].key = IF f = t.f /\ Filed(f) THEN t.want ELSE file[f].key
        /\ filed \in Nat
    <3>1. file \in [FileIds -> File] /\ \A f \in FileIds : file[f] \in File
      BY <1>0 DEF FilesOK
    <3> QED BY <1>0, <1>11, <2>1, <3>1, LibraryAssumption DEF SetStorageKey, FilesOK, File, LibraryAssumption
  <2>3. \A f \in FileIds : Filed(f)' <=> Filed(f)
    BY <2>2 DEF Filed
  <2>4. Filed(t.f) => Stored(t.want)
    BY <1>0, <1>11 DEF RekeySafe
  <2>5. Filed(t.f) => Moves(t.f)
    <3>1. ASSUME Filed(t.f) PROVE file'[t.f].key = t.want /\ Stored(file[t.f].key)'
      <4>1. file'[t.f].key = t.want
        BY <2>1, <2>2, <3>1
      <4>2. Stored(t.want)'
        BY <2>1, <2>4, <3>1 DEF Stored, Has, bucketVars
      <4> QED BY <4>1, <4>2 DEF Stored, Has
    <3> QED BY <1>11, <2>1, <3>1 DEF Moves
  <2>6. \A f \in FileIds : Filed(f)' => (Stays(f) \/ Moves(f)) /\ (file'[f].poster => Filed(f) /\ file[f].poster)
    <3>1. \A f \in FileIds \ {t.f} : Filed(f)' => Stays(f)
      BY <2>2, <2>3 DEF Stays
    <3> QED BY <2>1, <2>2, <2>3, <2>5, <3>1
  <2>7. FilesMove
    BY <2>1, <2>2, <2>6 DEF FilesMove
  <2>8. PICK u : /\ Goes(t, u) /\ u.do = "rekey" /\ u.at = "clearing" /\ u.rows = t.rows /\ u.f = t.f
                 /\ u.from = t.from /\ u.want = t.want
    BY <1>4, <1>11 DEF SetStorageKey
  <2>9. Filed(t.f)' => file'[t.f].key # t.from
    BY <2>1, <2>2, <2>3
  <2>10. RekeySafe(u)'
    BY <2>8, <2>9 DEF RekeySafe, Filed
  <2>11. TasksMove
    BY <1>3, <1>11, <2>8, <2>10
  <2> QED BY <2>1, <2>7, <2>11, QuietBucket DEF bucketVars
<1>12. ASSUME t.at = "clearing", NEW ok \in BOOLEAN, DeleteOldObject(t, ok)
       PROVE  FilesMove /\ BucketMoves /\ TasksMove
  <2>1. UNCHANGED <<fileVars, posters>> /\ \A k : Has(k, "") => Has(k, "")' \/ k = t.from
    BY <1>12 DEF DeleteOldObject, Has
  <2>2. Loose(t.from)
    BY <1>12 DEF Loose
  <2>3. BucketMoves
    BY <2>1, <2>2 DEF BucketMoves
  <2>4. ASSUME Goes(t, [t EXCEPT !.at = "unthumbing"]) PROVE TasksMove
    <3>0. PICK u : u = [t EXCEPT !.at = "unthumbing"]
      OBVIOUS
    <3>1. Goes(t, u)
      BY <2>4, <3>0 DEF Goes
    <3>2. /\ u.do = "rekey" /\ u.at = "unthumbing" /\ u.rows = t.rows /\ u.f = t.f
          /\ u.from = t.from /\ u.want = t.want
      BY <1>0, <3>0 DEF RekeyTask
    <3>3. Filed(t.f)' => file'[t.f].key # t.from \/ t.from \in crossed'
      BY <1>0, <1>12, <2>1 DEF RekeySafe, Filed, fileVars
    <3>4. RekeySafe(u)'
      BY <3>2, <3>3 DEF RekeySafe, Filed
    <3> QED BY <1>3, <1>12, <3>1, <3>2, <3>4
  <2>5. TasksMove
    BY <1>5, <1>12, <2>4 DEF DeleteOldObject
  <2> QED BY <2>1, <2>3, <2>5, RowsAlone
<1>13. ASSUME NEW ok \in BOOLEAN, DeleteOldThumb(t, ok)
       PROVE  FilesMove /\ BucketMoves /\ TasksMove
  <2>1. UNCHANGED <<fileVars, posters>> /\ \A k : Has(k, "") => Has(k, "")'
    BY <1>13 DEF DeleteOldThumb, Has
  <2>2. BucketMoves
    BY <2>1 DEF BucketMoves
  <2> QED BY <1>5, <1>13, <2>1, <2>2, RowsAlone DEF DeleteOldThumb
<1> QED BY <1>6, <1>7, <1>8, <1>9, <1>10, <1>11, <1>12, <1>13 DEF RekeyStep

LEMMA LibraryStepMoves ==
  ASSUME Known, NEW t \in tasks, LibraryStep(t), scene' = scene, crossed \subseteq crossed'
  PROVE  FilesMove /\ BucketMoves /\ TasksMove
BY UploadMoves, HostMoves, PosterMoves, DropMoves, PlainMoves, RekeyMoves DEF LibraryStep

-----------------------------------------------------------------------------
(* The invariant is kept by every step.                                    *)

LEMMA InitKeys == Init => KeysInv
<1> SUFFICES ASSUME Init PROVE KeysInv
  OBVIOUS
<1> DEFINE s == Scenes[scene]
<1>0. Begun(s) /\ LibraryInv
  BY LibraryBeginsWell, SiteAssumption DEF SiteAssumption, Init
<1>1. /\ tasks = {} /\ made = 0 /\ file = s.file /\ filed = s.filed
      /\ objects = {<<file[f].key, "">> : f \in {g \in FileIds : file[g].kind # "none"}}
      /\ posters = {f \in FileIds : file[f].poster}
  BY DEF Init
<1>2. s.most \in Nat /\ \A f \in FileIds : Filed(f) /\ file[f].key.by = "upload" => file[f].key.n >= 2 * s.most
  <2>1. /\ s.most \in Nat
        /\ \A f \in FileIds : s.file[f].kind # "none" /\ s.file[f].key.by = "upload" => s.file[f].key.n >= 2 * s.most
    BY <1>0 DEF Begun
  <2> HIDE DEF s
  <2> QED BY <1>1, <2>1 DEF Filed
<1>3. FilesOK /\ filed \in Nat
  BY <1>0, LibraryParts, LibraryAssumption DEF LibraryOK, FilesOK, LibraryAssumption
<1>4. ASSUME NEW c \in AllClaims
      PROVE  \E f \in FileIds : Filed(f) /\ c = <<f, file[f].key>>
  BY <1>1 DEF AllClaims
<1>5. \A f \in FileIds : Filed(f) => ClaimOK(<<f, file[f].key>>)
  BY <1>3, RowClaims
<1>6. \A c \in AllClaims : ClaimOK(c)
  BY <1>4, <1>5
<1>7. FreshKeys
  <2>1. ASSUME NEW c \in AllClaims, c[2].by = "upload" PROVE c[2].n >= 2 * s.most
    <3>1. PICK f \in FileIds : Filed(f) /\ c = <<f, file[f].key>>
      BY <1>4
    <3>2. c[2] = file[f].key
      BY <3>1
    <3> HIDE DEF s
    <3> QED BY <1>2, <2>1, <3>1, <3>2
  <2> QED BY <1>1, <2>1 DEF FreshKeys
<1>8. RowsHeld
  BY <1>1 DEF RowsHeld, Filed, Stored, Has
<1>9. made <= Scenes[scene].most
  <2>1. s.most \in Nat
    BY <1>2
  <2>2. ASSUME NEW m \in Nat PROVE 0 <= m
    OBVIOUS
  <2> QED BY <1>1, <2>1, <2>2
<1> QED BY <1>1, <1>6, <1>7, <1>8, <1>9 DEF KeysInv, Crossings

LEMMA KnownOf ==
  ASSUME IInv, KeysInv
  PROVE  Known
<1>1. scene \in DOMAIN Scenes /\ made \in Nat
  BY DEF IInv, CalendarInv, CalendarTypeOK
<1>2. Scenes[scene].most \in Nat
  BY <1>1, SiteAssumption DEF SiteAssumption, Begun
<1>3. FilesOK /\ BucketOK
  BY LibraryParts DEF IInv, LibraryOK
<1> QED BY <1>1, <1>2, <1>3 DEF Known, IInv

LEMMA NextKeys ==
  ASSUME IInv, IInv', KeysInv, Next
  PROVE  KeysInv'
<1>0. Known /\ Watch /\ TasksOK' /\ FilesOK' /\ FilesOK
      /\ TasksOK /\ Numbered /\ CalendarInv /\ LibraryInv /\ ProspectInv
      /\ CalendarTypeOK /\ LibraryTypeOK /\ ProspectTypeOK /\ LabelsBounded
      /\ made \in Nat /\ Scenes[scene].most \in Nat
  BY KnownOf, LibraryPartsNext DEF IInv, Next, Known, LibraryOK, CalendarInv, LibraryInv, ProspectInv
<1>1. Crossings' /\ crossed \subseteq crossed'
  BY <1>0, CrossingsSeen
<1>2. CalendarDoes \cap Keyless = {} /\ ProspectDoes \cap Keyless = {}
  BY DEF CalendarDoes, ProspectDoes, Keyless
<1>3. ASSUME FilesMove, BucketMoves, TasksMove PROVE KeysInv'
  BY <1>0, <1>1, <1>3, KeysMove
<1>4. ASSUME (More /\ CalendarRequest) \/ \E t \in tasks : CalendarStep(t) \/ Abandon(t),
             LinksFollow, UNCHANGED <<filed, bucketVars>>
      PROVE  KeysInv'
  <2>1. FilesQuiet
    <3>1. \A f \in FileIds : file[f] \in File
      BY <1>0 DEF FilesOK
    <3> QED BY <1>4, <3>1 DEF LinksFollow, FilesQuiet, File
  <2>2. FilesMove /\ BucketMoves
    BY <1>0, <1>4, <2>1, QuietFiles, QuietBucket DEF bucketVars
  <2>3. scene' = scene
    BY <1>4, SceneStays
  <2>4. ASSUME More, CalendarRequest PROVE TasksMove
    <3>1. Begins(CalendarDoes)
      BY <1>0, <2>4, CalendarRequestInv
    <3> QED BY <1>0, <1>2, <2>3, <2>4, <3>1, OthersMove
  <2>5. ASSUME NEW t \in tasks, CalendarStep(t) \/ Abandon(t) PROVE TasksMove
    <3>1. GoesOn(t)
      BY <1>0, <2>5, CalendarStepInv
    <3>2. Ends(t) \/ t.do \in CalendarDoes
      BY <2>5 DEF CalendarStep, Abandon, CalendarDoes
    <3> QED BY <1>0, <1>2, <2>3, <3>1, <3>2, OthersMove
  <2> QED BY <1>3, <1>4, <2>2, <2>4, <2>5
<1>5. ASSUME (More /\ LibraryRequest) \/ \E t \in tasks : LibraryStep(t)
      PROVE  KeysInv'
  <2>1. scene' = scene
    BY <1>5, LibraryApart DEF calendarVars, setVars
  <2>2. ASSUME More, LibraryRequest PROVE KeysInv'
    BY <1>0, <1>3, <2>1, <2>2, LibraryRequestMoves
  <2>3. ASSUME NEW t \in tasks, LibraryStep(t) PROVE KeysInv'
    BY <1>0, <1>1, <1>3, <2>1, <2>3, LibraryStepMoves
  <2> QED BY <1>5, <2>2, <2>3
<1>6. ASSUME (More /\ ProspectRequest) \/ \E t \in tasks : ProspectStep(t), UNCHANGED libraryVars
      PROVE  KeysInv'
  <2>1. scene' = scene
    BY <1>6, ProspectApart DEF calendarVars, setVars
  <2>2. FilesMove /\ BucketMoves
    BY <1>0, <1>6, RowsAlone, QuietBucket DEF libraryVars, bucketVars
  <2>3. ASSUME More, ProspectRequest PROVE TasksMove
    <3>1. Begins(ProspectDoes)
      BY <1>0, <2>3, ProspectBegins
    <3> QED BY <1>0, <1>2, <2>1, <2>3, <3>1, OthersMove
  <2>4. ASSUME NEW t \in tasks, ProspectStep(t) PROVE TasksMove
    <3>1. t \in Task /\ Formed(t)
      BY <1>0 DEF TasksOK
    <3>2. GoesOn(t) /\ t.do \in ProspectDoes
      BY <1>0, <2>4, <3>1, ProspectGoesOn
    <3> QED BY <1>0, <1>2, <2>1, <3>2, OthersMove
  <2> QED BY <1>3, <1>6, <2>2, <2>3, <2>4
<1> QED BY <1>4, <1>5, <1>6 DEF Next

LEMMA RestKeys ==
  ASSUME IInv, IInv', KeysInv, UNCHANGED vars
  PROVE  KeysInv'
<1>0. Known /\ TasksOK' /\ FilesOK'
  BY KnownOf, LibraryPartsNext DEF IInv, LibraryOK
<1>1. UNCHANGED <<fileVars, bucketVars, tasks, made, crossed, scene>>
  BY DEF vars, libraryVars, calendarVars, setVars
<1>2. FilesMove /\ BucketMoves
  BY <1>0, <1>1, RowsAlone, QuietBucket DEF bucketVars
<1>3. TasksMove /\ Crossings'
  BY <1>0, <1>1 DEF Known, TasksMove, KeysInv, Crossings, Claims
<1> QED BY <1>0, <1>1, <1>2, <1>3, KeysMove DEF Known

LEMMA KeysKept == Spec => []KeysInv
<1>1. IInv /\ IInv' /\ KeysInv /\ [Next]_vars => KeysInv'
  BY NextKeys, RestKeys
<1> QED BY <1>1, InitKeys, Invariance, PTL DEF Spec

-----------------------------------------------------------------------------
(* What the invariant gives of what is shown.                              *)

LEMMA RowsOpen == IInv /\ KeysInv => ObjectsHeld
<1> SUFFICES ASSUME KeysInv PROVE ObjectsHeld
  OBVIOUS
<1> QED BY DEF KeysInv, RowsHeld, Stored, ObjectsHeld, FilePoster

\* The library lists each file under the events it is linked to, or under none.
LEMMA LibraryLists ==
  ASSUME FilesOK, NEW x \in Logins
  PROVE  /\ {row[2] : row \in FileLibrary(x, {})} = {f \in FileIds : Filed(f)}
         /\ \A f \in {g \in FileIds : Filed(g)}, e \in EventIds :
               <<e, f>> \in FileLibrary(x, file[f].events) <=> Here(e) /\ e \in file[f].events
<1>0. x # NoLogin /\ NoEvent \notin EventIds
  BY CalendarAssumption DEF CalendarAssumption, NoEvent, EventIds
<1>1. \A f \in FileIds : file[f].events \subseteq EventIds /\ \A e \in file[f].events : Here(e)
  BY DEF FilesOK
<1>2. FileLibrary(x, {}) = ListForUnitGroupedByEventAuto
  BY <1>0 DEF FileLibrary
<1>3. ASSUME NEW f \in FileIds, Filed(f)
      PROVE  \E row \in FileLibrary(x, {}) : row[2] = f
  <2>1. CASE file[f].events = {}
    <3>1. <<NoEvent, f>> \in FileLibrary(x, {})
      BY <1>2, <1>3, <2>1 DEF ListForUnitGroupedByEventAuto
    <3> QED BY <3>1
  <2>2. ASSUME NEW e \in file[f].events
        PROVE  \E row \in FileLibrary(x, {}) : row[2] = f
    <3>1. <<e, f>> \in FileLibrary(x, {})
      BY <1>1, <1>2, <1>3, <2>2 DEF ListForUnitGroupedByEventAuto, ListForUnitGroupedByEvents
    <3> QED BY <3>1
  <2> QED BY <2>1, <2>2
<1>4. ASSUME NEW row \in FileLibrary(x, {})
      PROVE  row[2] \in FileIds /\ Filed(row[2])
  BY <1>2 DEF ListForUnitGroupedByEventAuto, ListForUnitGroupedByEvents
<1>5. ASSUME NEW f \in FileIds, Filed(f), NEW e \in EventIds
      PROVE  <<e, f>> \in FileLibrary(x, file[f].events) <=> Here(e) /\ e \in file[f].events
  <2>1. CASE file[f].events = {}
    <3>1. e # NoEvent
      BY <1>0
    <3>2. <<e, f>> \notin FileLibrary(x, {})
      BY <1>2, <2>1, <3>1 DEF ListForUnitGroupedByEventAuto, ListForUnitGroupedByEvents
    <3> QED BY <2>1, <3>2
  <2>2. CASE file[f].events # {}
    <3>1. FileLibrary(x, file[f].events) = ListForUnitGroupedByEvents(file[f].events)
      BY <1>0, <2>2 DEF FileLibrary
    <3> QED BY <1>1, <1>5, <3>1 DEF ListForUnitGroupedByEvents
  <2> QED BY <2>1, <2>2
<1>6. {row[2] : row \in FileLibrary(x, {})} = {f \in FileIds : Filed(f)}
  BY <1>3, <1>4
<1> QED BY <1>5, <1>6

LEMMA ListsOpen == IInv /\ KeysInv => ListedOpens
<1> SUFFICES ASSUME IInv, KeysInv PROVE ListedOpens
  OBVIOUS
<1>0. FilesOK /\ ResourcesOK /\ PostsOK
  BY LibraryParts DEF IInv, LibraryOK
<1>1. NoLogin \notin Logins /\ member \subseteq Logins /\ EventsKept
  BY CalendarAssumption DEF CalendarAssumption, IInv, CalendarInv, CalendarTypeOK
<1>2. \A f \in {h \in FileIds : Filed(h)}, x \in Logins, g \in Groups : f \in GroupPhotos(x, g) => servableFile(x, f)
  BY DEF GroupPhotos, servableFile
<1>3. ASSUME NEW r \in ResourceIds, resource[r].kind = "file", NEW x \in Logins \cup {NoLogin},
             r \in ResourcesList(x)
      PROVE  ResourceDownload(x, r) \/ file[resource[r].file].key \in crossed
  <2>1. Filed(resource[r].file) /\ resource[r].file \in FileIds
    BY <1>0, <1>3 DEF ResourcesOK, Filed
  <2>2. Stored(file[resource[r].file].key)
    BY <2>1 DEF KeysInv, RowsHeld
  <2> QED BY <1>1, <1>3, <2>1, <2>2 DEF ResourcesList, ResourceDownload, Stored
<1>4. ASSUME NEW p \in PostIds, Written(p), NEW x \in Logins \cup {NoLogin}
      PROVE  /\ p \in publicContentList(x, post[p].kind) =>
                   publicContentView(x, p) /\ \A y \in Editors \cap member : p \in adminContentList(y, post[p].kind)
             /\ p \in HomeNews(x) \cup UNION {GroupNews(x, g) : g \in Groups} => publicContentView(x, p)
  <2>1. ASSUME p \in publicContentList(x, post[p].kind)
        PROVE  publicContentView(x, p) /\ \A y \in Editors \cap member : p \in adminContentList(y, post[p].kind)
    BY <1>4, <2>1 DEF publicContentList, ListPublishedPublicForUnit, ListPublishedForUnit, publicContentView,
       adminContentList, requireContentEditor, CanEdit, ListAllPosts
  <2>2. ASSUME p \in HomeNews(x) PROVE publicContentView(x, p)
    BY <1>4, <2>2 DEF HomeNews, ListPublishedPublicForUnit, ListPublishedForUnit, publicContentView
  <2>3. ASSUME NEW g \in Groups, p \in GroupNews(x, g) PROVE publicContentView(x, p)
    BY <1>1, <1>4, <2>3 DEF GroupNews, ListPublishedForSubGroup, publicContentView
  <2> QED BY <2>1, <2>2, <2>3
<1>5. \A e \in EventIds : ~Here(e) => AttendeesForEvent(e) = {}
  BY <1>1 DEF EventsKept, AttendeesForEvent
<1> QED BY <1>0, <1>2, <1>3, <1>4, <1>5, LibraryLists DEF ListedOpens

\* Wherever an upload, a deletion, a run of the re-keying or a mail's picture is
\* interrupted and whatever runs next to it, a row of files names an object the
\* bucket holds, unless its key was given again meanwhile (crossed), and what
\* one page lists another opens.
THEOREM ObjectsAreKept == Spec => []ObjectKept
<1>1. IInv /\ KeysInv => ObjectKept
  BY RowsOpen, ListsOpen DEF ObjectKept
<1> QED BY <1>1, Invariance, KeysKept, PTL
=============================================================================
