----------------------------- MODULE SiteProofs -----------------------------
(***************************************************************************)
(* What holds of a unit's calendar, library and enquiries for every set of *)
(* logins, feeds, files and labels, every site to begin with, and any       *)
(* number of requests, runs and crashes.                                    *)
(***************************************************************************)
EXTENDS Site, FiniteSetTheorems, TLAPS

-----------------------------------------------------------------------------
(* What is under way, by kind.                                             *)

CreateTask ==
    [id : Nat, do : {"create"}, at : {"inserting", "submitting"}, e : 0..MaxEvents, slot : Slots,
     group : Groups \cup {NoGroup}, public : BOOLEAN, left : 1..MaxRepeats, direct : BOOLEAN]
DeleteTask == [id : Nat, do : {"delete"}, at : {"withdrawing", "deleting"}, e : EventIds]
RefreshTask ==
    [id : Nat, do : {"refresh"},
     at : {"fetching", "existing", "ignored", "importing", "holding", "inserting", "removing"},
     feed : Feeds, rest : SUBSET Feeds, offer : [Uids -> 0..Absent], existing : [Uids -> 0..MaxEvents],
     ignoring : SUBSET Uids, uids : SUBSET Uids, uid : Uids \cup {NoUid}, clash : 0..MaxEvents,
     cleared : BOOLEAN]
ResolveTask == [id : Nat, do : {"resolve"}, at : {"ruling"}, conflict : Conflict, decision : Rulings]
Mails == (0..MaxEvents) \X (Logins \cup {NoLogin}) \X (Logins \cup {NoLogin})
RemindTask ==
    [id : Nat, do : {"remind"}, at : {"sending", "recording"},
     todo : SUBSET (EventIds \X Logins \X Logins), mail : Mails]

UploadTask ==
    [id : Nat, do : {"upload"}, at : {"putting", "recording", "linking"}, kind : Kinds, photo : BOOLEAN,
     public : BOOLEAN, key : Key, links : Links, left : 1..2, ids : SUBSET FileIds]
HostTask == [id : Nat, do : {"host"}, at : {"looking", "putting", "recording"}, key : Key]
PosterTask == [id : Nat, do : {"poster"}, at : {"putting", "recording"}, f : FileIds]
DropTask == [id : Nat, do : {"drop"}, at : {"row", "object", "thumb", "poster"}, f : FileIds, key : Key]
FlipTask == [id : Nat, do : {"flip"}, at : {"file", "resource", "post"}, n : Nat, to : BOOLEAN]
VariantTask == [id : Nat, do : {"variant"}, at : {"caching"}, key : Key, as : {"thumb", "banner"}]
BackfillTask == [id : Nat, do : {"backfill"}, at : {"reading", "caching"}, key : Key, keys : SUBSET Key]
RekeyTask ==
    [id : Nat, do : {"rekey"},
     at : {"picking", "copying", "verifying", "thumb", "pointing", "clearing", "unthumbing"},
     f : 0..MaxFiles, from : Key, want : Key, thumb : BOOLEAN, rows : SUBSET (FileIds \X BOOLEAN \X Key)]

JoinTask ==
    [id : Nat, do : {"join"}, at : {"storing", "replying"}, address : Addresses, child : Children,
     p : 0..MaxEnquiries]
SwitchTask == [id : Nat, do : {"switch"}, at : {"storing"}, switch : Settings, to : BOOLEAN]
PasteTask == [id : Nat, do : {"paste"}, at : {"saving"}, list : Pastes, lines : SUBSET Nat]
MoveTask ==
    [id : Nat, do : {"move"}, at : {"writing"}, ps : SUBSET EnquiryIds, status : Values,
     categories : SUBSET Values]
DefaultsTask == [id : Nat, do : {"defaults"}, at : {"inserting"}, labels : SUBSET DefaultStatuses]
LabelTask == [id : Nat, do : {"label"}, at : {"creating", "renaming", "retiring"}, row : Label]
Places == UNION {[vs -> Nat] : vs \in SUBSET Values}
ReorderTask == [id : Nat, do : {"reorder"}, at : {"writing"}, of : LabelKinds, places : Places]

CalendarTask == CreateTask \cup DeleteTask \cup RefreshTask \cup ResolveTask \cup RemindTask
LibraryTask ==
    UploadTask \cup HostTask \cup PosterTask \cup DropTask \cup FlipTask \cup VariantTask
    \cup BackfillTask \cup RekeyTask
ProspectTask ==
    JoinTask \cup SwitchTask \cup PasteTask \cup MoveTask \cup DefaultsTask \cup LabelTask \cup ReorderTask
Task == CalendarTask \cup LibraryTask \cup ProspectTask

CalendarDoes == {"create", "delete", "refresh", "resolve", "remind"}
LibraryDoes == {"upload", "host", "poster", "drop", "flip", "variant", "backfill", "rekey"}
ProspectDoes == {"join", "switch", "paste", "move", "defaults", "label", "reorder"}

\* What each has made sure of, by the stage it has come to.
CreateFormed(t) ==
    /\ t.slot + t.left - 1 <= Horizon
    /\ t.public => t.group = NoGroup
    /\ t.at = "submitting" => t.e \in EventIds
RefreshFormed(t) ==
    /\ t.at \in {"importing", "holding", "inserting"} => t.uids \subseteq Seen(t)
    /\ IF t.at \in {"holding", "inserting"} THEN t.uid \in Seen(t) \ t.ignoring ELSE t.uid = NoUid
    /\ t.at = "holding" => t.clash \in EventIds
RemindFormed(t) == t.at = "recording" => t.mail \in EventIds \X Logins \X Logins
UploadFormed(t) == t.kind # "none" /\ t.key.by = "upload"
HostFormed(t) == t.key.by = "digest"
RekeyFormed(t) ==
    /\ t.at # "picking" => t.f \in FileIds
    /\ t.at # "picking" => t.want.by = "row" /\ t.want.n = t.f /\ t.want # t.from
PasteFormed(t) ==
    /\ t.lines \subseteq DOMAIN t.list /\ t.lines # {}
    /\ \A i, j \in t.lines : t.list[i] = t.list[j] => i = j
DefaultsFormed(t) == t.labels # {}
LabelFormed(t) ==
    /\ t.at = "creating" => ~t.row.retired
    /\ t.at = "retiring" /\ t.row.retired /\ t.row.kind = "status" => t.row.value # StatusNewValue
ReorderFormed(t) == \E k \in Nat : \A v \in DOMAIN t.places : t.places[v] <= k
Formed(t) ==
    /\ t.do = "create" => CreateFormed(t)
    /\ t.do = "refresh" => RefreshFormed(t)
    /\ t.do = "remind" => RemindFormed(t)
    /\ t.do = "upload" => UploadFormed(t)
    /\ t.do = "host" => HostFormed(t)
    /\ t.do = "rekey" => RekeyFormed(t)
    /\ t.do = "paste" => PasteFormed(t)
    /\ t.do = "defaults" => DefaultsFormed(t)
    /\ t.do = "label" => LabelFormed(t)
    /\ t.do = "reorder" => ReorderFormed(t)
TasksOK == \A t \in tasks : t \in Task /\ Formed(t)

-----------------------------------------------------------------------------
(* The inductive invariant.                                                *)

\* Identifiers of tasks are not used twice.
Numbered == (\A t \in tasks : t.id < made) /\ \A t, o \in tasks : t.id = o.id => t = o

\* An event that everybody may see is no group's, one that is shown has been let
\* through, and nobody is coming to one that is gone.
EventsKept ==
    \A e \in EventIds :
        /\ event[e].public => event[e].group = NoGroup
        /\ event[e].status = "published" => e \in vetted
        /\ ~Here(e) => \A x \in Logins : rsvp[e][x] = "none"

\* Of a mail that has gone out the record is kept or about to be made, or
\* doubted, or the event is gone; and two runs with the same mail are doubted.
MailsKnown ==
    /\ \A d \in mailed :
          \/ <<d[1], d[2]>> \in reminded \cup doubted
          \/ ~Here(d[1])
          \/ \E t \in tasks : t.do = "remind" /\ t.at = "recording" /\ t.mail = d
    /\ \A d \in mailed : d[1] <= spent
    /\ \A t \in tasks : t.do = "remind" =>
          /\ \A d \in OnMind(t) : d[1] <= spent
          /\ \A d \in t.todo \cap mailed : <<d[1], d[2]>> \in doubted
          /\ \A o \in tasks \ {t} : o.do = "remind" =>
                \A d \in OnMind(t) \cap OnMind(o) : <<d[1], d[2]>> \in doubted

\* Whoever works on an entry that has been ruled out has read the ruling.
Reading == {"importing", "holding", "inserting", "removing"}
RulingsKnown ==
    \A i \in ignored \ kept, t \in tasks :
        /\ t.do = "refresh" /\ t.feed = i[1] /\ t.at \in Reading => i[2] \in t.ignoring
        /\ t.do = "resolve" => <<t.conflict.feed, t.conflict.uid>> # i

\* A ruling is about an event that has been there.
ConflictsSeen == \A t \in tasks : t.do = "resolve" => t.conflict.existing <= spent

CalendarInv ==
    /\ CalendarTypeOK /\ EventsKept /\ ConflictsSeen
    /\ MailsKnown /\ RemindedOnce /\ RulingsHold /\ RulingsKnown

\* A file's key is its own: one made by an upload, from the row or from the content.
RowKeys ==
    \A f \in FileIds : Filed(f) => f <= filed /\ (file[f].key.by = "row" => file[f].key.n = f)
PostsOpen == \A p \in PostIds : Written(p) /\ post[p].public => p \in openly
PostsFresh == \A p \in PostIds : p > written => post[p] = NoSuchPost
LibraryInv == LibraryTypeOK /\ RowKeys /\ PostsOpen /\ PostsFresh

\* Labels are finitely many, and so are their places.
LabelsBounded == IsFiniteSet(label) /\ \E k \in Nat : \A l \in label : l.sort <= k
\* A label this enquiry may be under: one that is offered, or was when it came.
Offered(kind, p, v) ==
    \E l \in ListLabels(kind) : l.value = v /\ (l.retired => <<p, kind, v>> \in excused)
\* What an enquiry is under, or on its way to, is such a label, or the one that
\* needs none.
Free(kind) == IF kind = "status" THEN StatusNewValue ELSE Uncategorised
FiledUnder ==
    \A kind \in LabelKinds, v \in Values : \A p \in Under(kind, v) : v = Free(kind) \/ Offered(kind, p, v)
NewStays == \A l \in ListLabels("status") : l.value = StatusNewValue => ~l.retired

\* A reply is due to who wrote in by the form.
RepliesDue ==
    \A t \in tasks : t.do = "join" /\ t.at = "replying" =>
        t.p \in 1..enquired /\ enquiry[t.p].source # "leader"
EnquiriesFresh == \A p \in EnquiryIds : Enquired(p) => p <= enquired
ProspectInv ==
    /\ ProspectTypeOK /\ LabelsBounded /\ FiledUnder /\ NewStays /\ RepliesDue /\ EnquiriesFresh
    /\ PastedOnce /\ ConsentKept

IInv ==
    /\ TasksOK /\ Numbered
    /\ CalendarInv /\ LibraryInv /\ ProspectInv
    /\ disturbed \subseteq {t.id : t \in tasks} /\ crossed \subseteq Key

-----------------------------------------------------------------------------
(* What is under way, and how a step changes it.                           *)

\* What a task does tells its kind.
LEMMA CalendarKinds ==
  ASSUME NEW t \in Task
  PROVE  /\ t.id \in Nat
         /\ t.do \in CalendarDoes \cup LibraryDoes \cup ProspectDoes
         /\ t.do = "create" => t \in CreateTask
         /\ t.do = "delete" => t \in DeleteTask
         /\ t.do = "refresh" => t \in RefreshTask
         /\ t.do = "resolve" => t \in ResolveTask
         /\ t.do = "remind" => t \in RemindTask
<1>1. CASE t \in CalendarTask
  BY <1>1 DEF CalendarTask, CreateTask, DeleteTask, RefreshTask, ResolveTask, RemindTask,
              CalendarDoes
<1>2. CASE t \in LibraryTask
  BY <1>2 DEF LibraryTask, UploadTask, HostTask, PosterTask, DropTask, FlipTask, VariantTask,
              BackfillTask, RekeyTask, LibraryDoes
<1>3. CASE t \in ProspectTask
  BY <1>3 DEF ProspectTask, JoinTask, SwitchTask, PasteTask, MoveTask, DefaultsTask, LabelTask,
              ReorderTask, ProspectDoes
<1> QED BY <1>1, <1>2, <1>3 DEF Task

LEMMA LibraryKinds ==
  ASSUME NEW t \in Task
  PROVE  /\ t.do = "upload" => t \in UploadTask
         /\ t.do = "host" => t \in HostTask
         /\ t.do = "poster" => t \in PosterTask
         /\ t.do = "drop" => t \in DropTask
         /\ t.do = "flip" => t \in FlipTask
         /\ t.do = "variant" => t \in VariantTask
         /\ t.do = "backfill" => t \in BackfillTask
         /\ t.do = "rekey" => t \in RekeyTask
<1>1. CASE t \in CalendarTask
  BY <1>1 DEF CalendarTask, CreateTask, DeleteTask, RefreshTask, ResolveTask, RemindTask
<1>2. CASE t \in LibraryTask
  BY <1>2 DEF LibraryTask, UploadTask, HostTask, PosterTask, DropTask, FlipTask, VariantTask,
              BackfillTask, RekeyTask
<1>3. CASE t \in ProspectTask
  BY <1>3 DEF ProspectTask, JoinTask, SwitchTask, PasteTask, MoveTask, DefaultsTask, LabelTask,
              ReorderTask
<1> QED BY <1>1, <1>2, <1>3 DEF Task

LEMMA ProspectKinds ==
  ASSUME NEW t \in Task
  PROVE  /\ t.do = "join" => t \in JoinTask
         /\ t.do = "switch" => t \in SwitchTask
         /\ t.do = "paste" => t \in PasteTask
         /\ t.do = "move" => t \in MoveTask
         /\ t.do = "defaults" => t \in DefaultsTask
         /\ t.do = "label" => t \in LabelTask
         /\ t.do = "reorder" => t \in ReorderTask
<1>1. CASE t \in CalendarTask
  BY <1>1 DEF CalendarTask, CreateTask, DeleteTask, RefreshTask, ResolveTask, RemindTask
<1>2. CASE t \in LibraryTask
  BY <1>2 DEF LibraryTask, UploadTask, HostTask, PosterTask, DropTask, FlipTask, VariantTask,
              BackfillTask, RekeyTask
<1>3. CASE t \in ProspectTask
  BY <1>3 DEF ProspectTask, JoinTask, SwitchTask, PasteTask, MoveTask, DefaultsTask, LabelTask,
              ReorderTask
<1> QED BY <1>1, <1>2, <1>3 DEF Task

\* A step begins a task or is over at once, or takes one on and may end it.
Begins(does) ==
    \/ AtOnce
    \/ \E u \in Task : Formed(u) /\ u.id = made /\ u.do \in does /\ Starts(u)
GoesOn(t) ==
    \/ Ends(t)
    \/ \E u \in Task : Formed(u) /\ u.id = t.id /\ u.do = t.do /\ Goes(t, u)

LEMMA BeginsKeeps ==
  ASSUME TasksOK, Numbered, made \in Nat, NEW does, Begins(does)
  PROVE  TasksOK' /\ Numbered' /\ made' \in Nat
<1>1. \A t \in tasks : t.id \in Nat /\ t.id < made /\ t \in Task /\ Formed(t)
  BY CalendarKinds DEF TasksOK, Numbered
<1>2. CASE AtOnce
  <2>1. tasks' = tasks /\ made' = made + 1
    BY <1>2 DEF AtOnce
  <2>2. TasksOK'
    BY <2>1 DEF TasksOK
  <2>3. Numbered' /\ made' \in Nat
    BY <2>1, <1>1 DEF Numbered
  <2> QED BY <2>2, <2>3
<1>3. ASSUME NEW u \in Task, Formed(u), u.id = made, Starts(u)
      PROVE  TasksOK' /\ Numbered' /\ made' \in Nat
  <2>1. tasks' = tasks \cup {u} /\ made' = made + 1
    BY <1>3 DEF Starts
  <2>2. TasksOK'
    BY <2>1, <1>3 DEF TasksOK
  <2>3. Numbered' /\ made' \in Nat
    BY <2>1, <1>1, <1>3 DEF Numbered
  <2> QED BY <2>2, <2>3
<1> QED BY <1>2, <1>3 DEF Begins

LEMMA GoesOnKeeps ==
  ASSUME TasksOK, Numbered, made \in Nat, NEW t \in tasks, GoesOn(t)
  PROVE  TasksOK' /\ Numbered' /\ made' = made
<1>1. CASE Ends(t)
  <2>1. tasks' = tasks \ {t} /\ made' = made
    BY <1>1 DEF Ends
  <2> QED BY <2>1 DEF TasksOK, Numbered
<1>2. ASSUME NEW u \in Task, Formed(u), u.id = t.id, Goes(t, u)
      PROVE  TasksOK' /\ Numbered' /\ made' = made
  <2>1. tasks' = (tasks \ {t}) \cup {u} /\ made' = made
    BY <1>2 DEF Goes
  <2>2. TasksOK'
    BY <2>1, <1>2 DEF TasksOK
  <2>3. Numbered'
    BY <2>1, <1>2 DEF Numbered
  <2> QED BY <2>1, <2>2, <2>3
<1> QED BY <1>1, <1>2 DEF GoesOn

\* The tasks that do something else are the same afterwards.
Doing(does) == {t \in tasks : t.do \in does}
LEMMA BeginsLeaves ==
  ASSUME NEW does, Begins(does), NEW others, does \cap others = {}
  PROVE  Doing(others)' = Doing(others)
BY DEF Begins, AtOnce, Starts, Doing
LEMMA GoesOnLeaves ==
  ASSUME NEW t \in tasks, GoesOn(t), NEW others, t.do \notin others
  PROVE  Doing(others)' = Doing(others)
BY DEF GoesOn, Ends, Goes, Doing

-----------------------------------------------------------------------------
(* The calendar's tasks.                                                   *)

LEMMA RefreshMade ==
  ASSUME made \in Nat, NEW f \in Feeds, NEW rest \in SUBSET Feeds, NEW i \in Nat
  PROVE  LET u == [Refresh(f, rest) EXCEPT !.id = i] IN
         /\ u \in RefreshTask /\ u \in Task /\ Formed(u) /\ u.id = i /\ u.do = "refresh"
         /\ u.feed = f /\ u.at = "fetching" /\ u.uid = NoUid
         /\ Refresh(f, rest) = [Refresh(f, rest) EXCEPT !.id = made]
<1>1. CalendarAssumption
  BY CalendarAssumption
<1>2. Absent \in 0..Absent /\ NoEvent \in 0..MaxEvents
  BY <1>1 DEF CalendarAssumption, Absent, NoEvent
<1>3. Refresh(f, rest) \in RefreshTask
  BY <1>2 DEF Refresh, RefreshTask
<1> DEFINE u == [Refresh(f, rest) EXCEPT !.id = i]
<1> DEFINE r == Refresh(f, rest)
<1>r. /\ r.id = made /\ r.do = "refresh" /\ r.feed = f /\ r.at = "fetching" /\ r.uid = NoUid
  BY DEF Refresh
<1> HIDE DEF r
<1>4. /\ u \in RefreshTask /\ u.id = i /\ u.do = "refresh" /\ u.feed = f
      /\ u.at = "fetching" /\ u.uid = NoUid
      /\ r = [r EXCEPT !.id = made]
  <2>1. r \in RefreshTask
    BY <1>3 DEF r
  <2>2. u = [r EXCEPT !.id = i]
    BY DEF r
  <2> HIDE DEF u
  <2> QED BY <1>r, <2>1, <2>2 DEF RefreshTask
<1>5. u \in Task /\ Formed(u)
  BY <1>4 DEF Task, CalendarTask, Formed, RefreshFormed
<1> QED BY <1>4, <1>5 DEF r

LEMMA CreateBegins ==
  ASSUME made \in Nat, NEW x \in Logins, NEW s \in Slots, NEW g \in Groups \cup {NoGroup},
         NEW public \in BOOLEAN, NEW n \in 1..MaxRepeats, CalendarCreate(x, s, g, public, n)
  PROVE  \E u \in CreateTask : Formed(u) /\ u.id = made /\ u.do = "create" /\ Starts(u)
<1> DEFINE u == [id |-> made, do |-> "create", at |-> "inserting", e |-> NoEvent, slot |-> s,
                 group |-> g, public |-> public /\ g = NoGroup, left |-> n, direct |-> CanEdit(x)]
<1>1. s + n - 1 <= Horizon /\ Starts(u)
  BY DEF CalendarCreate
<1>2. u \in CreateTask
  BY CalendarAssumption DEF CalendarAssumption, CreateTask, NoEvent, CanEdit
<1>3. Formed(u)
  BY <1>1 DEF Formed, CreateFormed
<1> QED BY <1>1, <1>2, <1>3

LEMMA RemindBegins ==
  ASSUME made \in Nat, SendReminders
  PROVE  \E u \in RemindTask : /\ Formed(u) /\ u.id = made /\ u.do = "remind" /\ Starts(u)
                               /\ u.at = "sending" /\ u.todo = dueCandidates
<1> DEFINE u == [id |-> made, do |-> "remind", at |-> "sending", todo |-> dueCandidates,
                 mail |-> <<NoEvent, NoLogin, NoLogin>>]
<1>1. Starts(u)
  BY DEF SendReminders
<1>2. u \in RemindTask
  BY CalendarAssumption DEF CalendarAssumption, RemindTask, Mails, NoEvent, dueCandidates
<1>3. Formed(u)
  BY DEF Formed, RemindFormed
<1> QED BY <1>1, <1>2, <1>3

LEMMA CalendarBegins ==
  ASSUME CalendarTypeOK, made \in Nat, CalendarRequest
  PROVE  Begins(CalendarDoes \ {"remind"}) \/ SendReminders
<1> USE DEF CalendarDoes
<1>a. CreateTask \cup DeleteTask \cup RefreshTask \cup ResolveTask \subseteq Task
  BY DEF Task, CalendarTask
<1>1. ASSUME NEW x \in Logins, NEW s \in Slots, NEW g \in Groups \cup {NoGroup},
             NEW public \in BOOLEAN, NEW n \in 1..MaxRepeats, CalendarCreate(x, s, g, public, n)
      PROVE  Begins(CalendarDoes \ {"remind"})
  BY <1>1, <1>a, CreateBegins DEF Begins
<1>2. ASSUME NEW x \in Logins, NEW e \in EventIds, NEW approve \in BOOLEAN, Decide(x, e, approve)
      PROVE  Begins(CalendarDoes \ {"remind"})
  BY <1>2 DEF Begins, Decide
<1>3. ASSUME NEW x \in Logins, NEW e \in EventIds, NEW s \in Slots, NEW g \in Groups \cup {NoGroup},
             NEW public \in BOOLEAN, CalendarUpdate(x, e, s, g, public)
      PROVE  Begins(CalendarDoes \ {"remind"})
  BY <1>3 DEF Begins, CalendarUpdate, Update
<1>4. ASSUME NEW x \in Logins, NEW e \in EventIds, CalendarDelete(x, e)
      PROVE  Begins(CalendarDoes \ {"remind"})
  <2> DEFINE u == [id |-> made, do |-> "delete", at |-> "withdrawing", e |-> e]
  <2>1. u \in DeleteTask /\ Formed(u) /\ Starts(u)
    BY <1>4 DEF CalendarDelete, DeleteTask, Formed
  <2> QED BY <2>1, <1>a DEF Begins
<1>5. ASSUME NEW x \in Logins, NEW e \in EventIds, NEW r \in Responses \ {"none"}, CalendarRSVP(x, e, r)
      PROVE  Begins(CalendarDoes \ {"remind"})
  BY <1>5 DEF Begins, CalendarRSVP, SetRSVP
<1>6. ASSUME NEW f \in Feeds, NEW rest \in SUBSET Feeds, Starts(Refresh(f, rest))
      PROVE  Begins(CalendarDoes \ {"remind"})
  <2>1. /\ Refresh(f, rest) \in Task /\ Formed(Refresh(f, rest))
        /\ Refresh(f, rest).id = made /\ Refresh(f, rest).do = "refresh"
    <3> DEFINE u == [Refresh(f, rest) EXCEPT !.id = made]
    <3>1. u \in Task /\ Formed(u) /\ u.id = made /\ u.do = "refresh" /\ Refresh(f, rest) = u
      BY RefreshMade
    <3> HIDE DEF u
    <3> QED BY <3>1
  <2> QED BY <1>6, <2>1 DEF Begins
<1>7. ASSUME NEW x \in Logins, NEW f \in Feeds, NEW public \in BOOLEAN, AdminCalendarFeedAdd(x, f, public)
      PROVE  Begins(CalendarDoes \ {"remind"})
  BY <1>6, <1>7 DEF AdminCalendarFeedAdd
<1>8. ASSUME NEW x \in Logins, NEW f \in Feeds, AdminCalendarFeedRefresh(x, f)
      PROVE  Begins(CalendarDoes \ {"remind"})
  BY <1>6, <1>8 DEF AdminCalendarFeedRefresh
<1>9. CASE RefreshAllFeeds
  BY <1>6, <1>9 DEF RefreshAllFeeds
<1>10. ASSUME NEW x \in Logins, NEW f \in Feeds, NEW enabled \in BOOLEAN, AdminCalendarFeedToggle(x, f, enabled)
       PROVE  Begins(CalendarDoes \ {"remind"})
  BY <1>10 DEF Begins, AdminCalendarFeedToggle, SetFeedEnabled
<1>11. ASSUME NEW x \in Logins, NEW f \in Feeds, AdminCalendarFeedDelete(x, f)
       PROVE  Begins(CalendarDoes \ {"remind"})
  BY <1>11 DEF Begins, AdminCalendarFeedDelete, DeleteFeed
<1>12. ASSUME NEW f \in Feeds, NEW u \in Uids, NEW s \in 0..Absent, Offers(f, u, s)
       PROVE  Begins(CalendarDoes \ {"remind"})
  BY <1>12 DEF Begins, Offers
<1>13. ASSUME NEW x \in Logins, NEW c \in conflicts, NEW d \in Rulings, AdminCalendarConflictResolve(x, c, d)
       PROVE  Begins(CalendarDoes \ {"remind"})
  <2> DEFINE u == [id |-> made, do |-> "resolve", at |-> "ruling", conflict |-> c, decision |-> d]
  <2>1. u \in ResolveTask /\ Formed(u) /\ Starts(u)
    BY <1>13 DEF AdminCalendarConflictResolve, ResolveTask, Formed, CalendarTypeOK
  <2> QED BY <2>1, <1>a DEF Begins
<1>15. ASSUME NEW x \in Logins, CalendarSubscribeRegenerate(x) \/ CalendarSubscribeRemove(x)
       PROVE  Begins(CalendarDoes \ {"remind"})
  BY <1>15 DEF Begins, CalendarSubscribeRegenerate, CalendarSubscribeRemove
<1>16. ASSUME NEW x \in Logins, Leaves(x)
       PROVE  Begins(CalendarDoes \ {"remind"})
  BY <1>16 DEF Begins, Leaves
<1>17. CASE Tick
  BY <1>17 DEF Begins, Tick
<1> HIDE DEF CalendarDoes
<1> QED BY <1>1, <1>2, <1>3, <1>4, <1>5, <1>7, <1>8, <1>9, <1>10, <1>11, <1>12, <1>13, <1>15,
           <1>16, <1>17 DEF CalendarRequest


LEMMA CalendarRequestBegins ==
  ASSUME CalendarTypeOK, made \in Nat, CalendarRequest
  PROVE  Begins(CalendarDoes)
<1>1. CASE SendReminders
  BY <1>1, RemindBegins DEF Begins, CalendarDoes, Task, CalendarTask
<1>2. CASE Begins(CalendarDoes \ {"remind"})
  BY <1>2 DEF Begins
<1> QED BY <1>1, <1>2, CalendarBegins
LEMMA CreateGoesOn ==
  ASSUME CalendarTypeOK, NEW t \in CreateTask, Formed(t), CreateStep(t)
  PROVE  GoesOn(t)
<1>1. t.do = "create" /\ CreateFormed(t)
  BY DEF CreateTask, Formed
<1>2. ASSUME NextOccurrence(t)
      PROVE  GoesOn(t)
  <2>1. CASE t.left = 1
    BY <1>2, <2>1 DEF NextOccurrence, GoesOn
  <2>2. CASE t.left # 1
    <3> DEFINE u == [t EXCEPT !.at = "inserting", !.left = @ - 1, !.slot = @ + 1]
    <3>1. Goes(t, u)
      BY <1>2, <2>2 DEF NextOccurrence
    <3>2. t.left \in 2..MaxRepeats /\ t.slot \in 0..Horizon /\ t.slot + t.left - 1 <= Horizon
      BY <1>1, <2>2, CalendarAssumption DEF CreateTask, CreateFormed, Slots, CalendarAssumption
    <3>3. u.left = t.left - 1 /\ u.slot = t.slot + 1 /\ u.at = "inserting" /\ u.public = t.public
          /\ u.group = t.group /\ u.do = "create" /\ u.id = t.id
      BY <1>1 DEF CreateTask
    <3>a. t.left - 1 \in 1..MaxRepeats /\ t.slot + 1 \in Slots
      BY <3>2, CalendarAssumption DEF Slots, CalendarAssumption
    <3>4. u \in CreateTask
      BY <3>a DEF CreateTask
    <3>5. Formed(u)
      <4>1. u.slot + u.left - 1 <= Horizon
        BY <3>2, <3>3, CalendarAssumption DEF CalendarAssumption
      <4> HIDE DEF u
      <4> QED BY <1>1, <3>3, <4>1 DEF Formed, CreateFormed
    <3> HIDE DEF u
    <3> QED BY <1>1, <3>1, <3>3, <3>4, <3>5 DEF GoesOn, Task, CalendarTask
  <2> QED BY <2>1, <2>2
<1>3. CASE InsertOccurrence(t)
  <2>1. CASE t.direct
    BY <1>2, <1>3, <2>1 DEF InsertOccurrence
  <2>2. CASE ~t.direct
    <3> DEFINE u == [t EXCEPT !.at = "submitting", !.e = spent + 1]
    <3>1. Goes(t, u) /\ spent < MaxEvents
      BY <1>3, <2>2 DEF InsertOccurrence, AddEvent
    <3>2. spent + 1 \in EventIds
      BY <3>1, CalendarAssumption DEF CalendarTypeOK, EventIds, CalendarAssumption
    <3>a. spent + 1 \in 0..MaxEvents
      BY <3>2 DEF EventIds
    <3>3. u \in CreateTask
      BY <3>a DEF CreateTask
    <3>4. u.left = t.left /\ u.slot = t.slot /\ u.at = "submitting" /\ u.public = t.public
          /\ u.group = t.group /\ u.do = "create" /\ u.id = t.id /\ u.e = spent + 1
      BY <1>1 DEF CreateTask
    <3>5. Formed(u)
      <4> HIDE DEF u
      <4> QED BY <1>1, <3>2, <3>4 DEF Formed, CreateFormed
    <3> HIDE DEF u
    <3> QED BY <1>1, <3>1, <3>3, <3>4, <3>5 DEF GoesOn, Task, CalendarTask
  <2> QED BY <2>1, <2>2
<1>4. CASE Submit(t)
  BY <1>2, <1>4 DEF Submit
<1> QED BY <1>3, <1>4 DEF CreateStep

LEMMA DeleteGoesOn ==
  ASSUME NEW t \in DeleteTask, DeleteStep(t)
  PROVE  GoesOn(t)
<1>1. CASE WithdrawRequest(t)
  <2> DEFINE u == [t EXCEPT !.at = "deleting"]
  <2>1. Goes(t, u)
    BY <1>1 DEF WithdrawRequest
  <2>2. u \in DeleteTask /\ u.do = "delete" /\ t.do = "delete" /\ u.id = t.id
    BY DEF DeleteTask
  <2> HIDE DEF u
  <2>3. u \in Task /\ Formed(u)
    BY <2>2 DEF Formed, Task, CalendarTask
  <2> QED BY <2>1, <2>2, <2>3 DEF GoesOn
<1>2. CASE DeleteEvent(t)
  BY <1>2 DEF DeleteEvent, GoesOn
<1> QED BY <1>1, <1>2 DEF DeleteStep

\* A refresh keeps the rulings it has read as long as it is at one calendar.
Reads(t, u) ==
    u.at \in Reading =>
        /\ u.feed = t.feed
        /\ IF t.at \in Reading THEN u.ignoring = t.ignoring
           ELSE \A v \in Uids : <<t.feed, v>> \in ignored => v \in u.ignoring
RefreshTurns(t) ==
    \/ Ends(t)
    \/ \E u \in RefreshTask : RefreshFormed(u) /\ u.id = t.id /\ Reads(t, u) /\ Goes(t, u)

LEMMA RefreshOverTurns ==
  ASSUME made \in Nat, NEW t \in RefreshTask, RefreshOver(t)
  PROVE  RefreshTurns(t)
<1>1. CASE t.rest = {}
  BY <1>1 DEF RefreshOver, RefreshTurns
<1>2. CASE t.rest # {}
  <2>1. PICK f \in t.rest : Goes(t, [Refresh(f, t.rest \ {f}) EXCEPT !.id = t.id])
    BY <1>2 DEF RefreshOver
  <2>2. f \in Feeds /\ t.rest \ {f} \in SUBSET Feeds /\ t.id \in Nat /\ t.do = "refresh"
    BY DEF RefreshTask
  <2> DEFINE u == [Refresh(f, t.rest \ {f}) EXCEPT !.id = t.id]
  <2>3. u \in RefreshTask /\ Formed(u) /\ u.id = t.id /\ u.do = "refresh" /\ u.at = "fetching"
    BY <2>2, RefreshMade
  <2> HIDE DEF u
  <2>4. Goes(t, u)
    BY <2>1 DEF u
  <2>5. RefreshFormed(u) /\ Reads(t, u)
    BY <2>3 DEF Formed, Reads, Reading
  <2> QED BY <2>3, <2>4, <2>5 DEF RefreshTurns
<1> QED BY <1>1, <1>2

LEMMA TurnsGoesOn ==
  ASSUME NEW t \in RefreshTask, RefreshTurns(t)
  PROVE  GoesOn(t)
<1>1. \A u \in RefreshTask : u.do = t.do /\ u \in Task /\ (RefreshFormed(u) => Formed(u))
  BY DEF RefreshTask, Formed, Task, CalendarTask
<1> QED BY <1>1 DEF GoesOn, RefreshTurns

LEMMA RefreshStepTurns ==
  ASSUME CalendarTypeOK, made \in Nat, NEW t \in RefreshTask, Formed(t), RefreshStep(t)
  PROVE  RefreshTurns(t)
<1> DEFINE ats == {"fetching", "existing", "ignored", "importing", "holding", "inserting", "removing"}
<1>0. RefreshFormed(t) /\ t.do = "refresh" /\ t.at \in ats /\ t.offer \in [Uids -> 0..Absent]
      /\ t.existing \in [Uids -> 0..MaxEvents] /\ t.uids \subseteq Uids /\ t.feed \in Feeds
  BY DEF RefreshTask, Formed
<1>1. CASE t.at = "fetching" /\ fetchFeed(t)
  <2>1. CASE RefreshOver(t)
    BY <2>1, RefreshOverTurns
  <2>2. CASE Goes(t, [t EXCEPT !.at = "existing", !.offer = offered[t.feed]])
    <3> DEFINE u == [t EXCEPT !.at = "existing", !.offer = offered[t.feed]]
    <3>1. offered[t.feed] \in [Uids -> 0..Absent]
      BY <1>0 DEF CalendarTypeOK
    <3>2. u \in RefreshTask /\ u.id = t.id /\ u.at = "existing" /\ u.uid = t.uid
      BY <3>1 DEF RefreshTask
    <3> HIDE DEF u
    <3>3. RefreshFormed(u) /\ Reads(t, u)
      BY <1>0, <1>1, <3>2 DEF RefreshFormed, Reads, Reading
    <3> QED BY <2>2, <3>2, <3>3 DEF RefreshTurns, u
  <2> QED BY <1>1, <2>1, <2>2 DEF fetchFeed
<1>2. CASE t.at = "existing" /\ ReadExisting(t)
  <2> DEFINE held == [u \in Uids |-> IF Imported(t.feed, u) = {} THEN NoEvent
                                     ELSE CHOOSE e \in Imported(t.feed, u) : TRUE]
             v == [t EXCEPT !.at = "ignored", !.existing = held]
  <2>1. Goes(t, v)
    BY <1>2 DEF ReadExisting
  <2>2. held \in [Uids -> 0..MaxEvents]
    <3>1. ASSUME NEW u \in Uids
          PROVE  held[u] \in 0..MaxEvents
      <4>1. Imported(t.feed, u) \subseteq 0..MaxEvents /\ 0 \in 0..MaxEvents
        BY CalendarAssumption DEF Imported, EventsOf, EventIds, CalendarAssumption
      <4> QED BY <4>1 DEF NoEvent
    <3> QED BY <3>1
  <2> HIDE DEF held
  <2>3. v \in RefreshTask /\ v.id = t.id /\ v.at = "ignored" /\ v.uid = t.uid
    BY <2>2 DEF RefreshTask
  <2> HIDE DEF v
  <2>4. RefreshFormed(v) /\ Reads(t, v)
    BY <1>0, <1>2, <2>3 DEF RefreshFormed, Reads, Reading
  <2> QED BY <2>1, <2>3, <2>4 DEF RefreshTurns
<1>3. CASE t.at = "ignored" /\ ignoredUIDs(t)
  <2> DEFINE ruled == {u \in Uids : <<t.feed, u>> \in ignored}
             v == [t EXCEPT !.at = "importing", !.uids = Seen(t), !.ignoring = ruled]
  <2>1. Goes(t, v)
    BY <1>3 DEF ignoredUIDs
  <2>2. Seen(t) \subseteq Uids /\ ruled \subseteq Uids
    BY DEF Seen
  <2> HIDE DEF ruled
  <2>3. v \in RefreshTask /\ v.id = t.id /\ v.at = "importing" /\ v.offer = t.offer /\ v.uids = Seen(t)
        /\ v.uid = t.uid /\ v.feed = t.feed /\ v.ignoring = ruled
    BY <2>2 DEF RefreshTask
  <2> HIDE DEF v
  <2>4. RefreshFormed(v) /\ Reads(t, v)
    <3>1. RefreshFormed(v)
      BY <1>0, <1>3, <2>3 DEF RefreshFormed, Seen
    <3>2. Reads(t, v)
      BY <1>3, <2>3 DEF Reads, Reading, ruled
    <3> QED BY <3>1, <3>2
  <2> QED BY <2>1, <2>3, <2>4 DEF RefreshTurns
<1>4. ASSUME t.at = "importing", NEW u \in t.uids, Import(t, u)
      PROVE  RefreshTurns(t)
  <2> DEFINE after == [t EXCEPT !.uids = @ \ {u}]
  <2>1. after \in RefreshTask /\ after.id = t.id /\ after.uids = t.uids \ {u} /\ after.offer = t.offer
        /\ after.at = t.at /\ after.uid = t.uid /\ after.feed = t.feed /\ after.ignoring = t.ignoring
    BY DEF RefreshTask
  <2>2. t.uids \subseteq Seen(t) /\ u \in Uids /\ u \in Seen(t)
    BY <1>0, <1>4 DEF RefreshFormed
  <2>3. CASE Goes(t, after)
    <3>1. RefreshFormed(after) /\ Reads(t, after)
      <4> HIDE DEF after
      <4> QED BY <1>0, <1>4, <2>1, <2>2 DEF RefreshFormed, Reads, Reading, Seen
    <3> HIDE DEF after
    <3> QED BY <2>1, <2>3, <3>1 DEF RefreshTurns
  <2>4. CASE u \notin t.ignoring /\ Goes(t, [after EXCEPT !.at = "inserting", !.uid = u])
    <3> DEFINE v == [after EXCEPT !.at = "inserting", !.uid = u]
    <3> HIDE DEF after
    <3>1. v \in RefreshTask /\ v.id = t.id /\ v.at = "inserting" /\ v.uid = u /\ v.offer = t.offer
          /\ v.uids = t.uids \ {u} /\ v.feed = t.feed /\ v.ignoring = t.ignoring
      BY <2>1, <2>2 DEF RefreshTask
    <3> HIDE DEF v
    <3>2. RefreshFormed(v) /\ Reads(t, v)
      BY <1>4, <2>2, <2>4, <3>1 DEF RefreshFormed, Reads, Reading, Seen
    <3> QED BY <2>4, <3>1, <3>2 DEF RefreshTurns, v
  <2>5. ASSUME NEW c \in findConflict(t.feed, u, t.offer[u]), u \notin t.ignoring,
               Goes(t, [after EXCEPT !.at = "holding", !.uid = u, !.clash = c])
        PROVE  RefreshTurns(t)
    <3> DEFINE v == [after EXCEPT !.at = "holding", !.uid = u, !.clash = c]
    <3> HIDE DEF after
    <3>0. c \in EventIds /\ c \in 0..MaxEvents
      BY DEF findConflict, EventIds
    <3>1. v \in RefreshTask /\ v.id = t.id /\ v.at = "holding" /\ v.uid = u /\ v.clash = c
          /\ v.offer = t.offer /\ v.uids = t.uids \ {u} /\ v.feed = t.feed /\ v.ignoring = t.ignoring
      BY <2>1, <2>2, <3>0 DEF RefreshTask
    <3> HIDE DEF v
    <3>2. RefreshFormed(v) /\ Reads(t, v)
      BY <1>4, <2>2, <2>5, <3>0, <3>1 DEF RefreshFormed, Reads, Reading, Seen
    <3> QED BY <2>5, <3>1, <3>2 DEF RefreshTurns, v
  <2> HIDE DEF after
  <2> QED BY <1>4, <2>3, <2>4, <2>5 DEF Import, after
<1>5. ASSUME t.at = "importing", NEW ok \in BOOLEAN, ClearConflicts(t, ok)
      PROVE  RefreshTurns(t)
  <2> DEFINE left == {u \in Uids : t.existing[u] # NoEvent} \ Seen(t)
             v == [t EXCEPT !.at = "removing", !.cleared = ok, !.uids = left]
  <2>1. Goes(t, v) /\ left \subseteq Uids
    BY <1>5 DEF ClearConflicts
  <2> HIDE DEF left
  <2>2. v \in RefreshTask /\ v.id = t.id /\ v.at = "removing" /\ v.uid = t.uid /\ v.feed = t.feed
        /\ v.ignoring = t.ignoring
    BY <2>1 DEF RefreshTask
  <2> HIDE DEF v
  <2>3. RefreshFormed(v) /\ Reads(t, v)
    BY <1>0, <1>5, <2>2 DEF RefreshFormed, Reads, Reading
  <2> QED BY <2>1, <2>2, <2>3 DEF RefreshTurns
<1>6. ASSUME t.at \in {"holding", "inserting"}, Continues(t)
      PROVE  RefreshTurns(t)
  <2> DEFINE v == [t EXCEPT !.at = "importing", !.uid = NoUid, !.clash = NoEvent]
  <2>1. Goes(t, v)
    BY <1>6 DEF Continues
  <2>2. v \in RefreshTask /\ v.id = t.id /\ v.at = "importing" /\ v.uids = t.uids /\ v.offer = t.offer
        /\ v.uid = NoUid /\ v.feed = t.feed /\ v.ignoring = t.ignoring
    <3>1. NoEvent \in 0..MaxEvents
      BY CalendarAssumption DEF NoEvent, CalendarAssumption
    <3> QED BY <3>1 DEF RefreshTask
  <2> HIDE DEF v
  <2>3. RefreshFormed(v) /\ Reads(t, v)
    BY <1>0, <1>6, <2>2 DEF RefreshFormed, Reads, Reading, Seen
  <2> QED BY <2>1, <2>2, <2>3 DEF RefreshTurns
<1>7. CASE t.at = "holding" /\ recordConflict(t)
  BY <1>6, <1>7, RefreshOverTurns DEF recordConflict
<1>8. CASE t.at = "inserting" /\ InsertImported(t)
  BY <1>6, <1>8, RefreshOverTurns DEF InsertImported
<1>9. ASSUME NEW u \in t.uids, t.at = "removing", RemoveGone(t, u)
      PROVE  RefreshTurns(t)
  <2> DEFINE v == [t EXCEPT !.uids = @ \ {u}]
  <2>1. Goes(t, v)
    BY <1>9 DEF RemoveGone
  <2>2. v \in RefreshTask /\ v.id = t.id /\ v.at = "removing" /\ v.uid = t.uid /\ v.feed = t.feed
        /\ v.ignoring = t.ignoring
    BY <1>9 DEF RefreshTask
  <2> HIDE DEF v
  <2>3. RefreshFormed(v) /\ Reads(t, v)
    BY <1>0, <1>9, <2>2 DEF RefreshFormed, Reads, Reading
  <2> QED BY <2>1, <2>2, <2>3 DEF RefreshTurns
<1>10. CASE RefreshDone(t) \/ RefreshFails(t)
  BY <1>10, RefreshOverTurns DEF RefreshDone, RefreshFails
<1> QED BY <1>1, <1>2, <1>3, <1>4, <1>5, <1>7, <1>8, <1>9, <1>10 DEF RefreshStep

\* Between two mails the task has one mail less before it, and none on its mind
\* that was not there.
LEMMA RemindGoes ==
  ASSUME NEW t \in RemindTask, Formed(t), t.at = "sending", NEW d \in t.todo, NEW ok \in BOOLEAN,
         SendReminder(t, d, ok)
  PROVE  \E u \in RemindTask :
            /\ Formed(u) /\ u.id = t.id /\ Goes(t, u) /\ u.todo = t.todo \ {d}
            /\ u.at = (IF ok THEN "recording" ELSE "sending") /\ (ok => u.mail = d)
<1>1. t.todo \subseteq EventIds \X Logins \X Logins /\ d \in EventIds \X Logins \X Logins
  BY DEF RemindTask
<1>2. CASE ok
  <2> DEFINE u == [t EXCEPT !.at = "recording", !.todo = @ \ {d}, !.mail = d]
  <2>1. Goes(t, u)
    BY <1>2 DEF SendReminder
  <2>2. d \in Mails
    BY <1>1 DEF Mails, EventIds
  <2>3. u \in RemindTask /\ u.id = t.id /\ u.todo = t.todo \ {d} /\ u.at = "recording" /\ u.mail = d
        /\ u.do = "remind"
    BY <2>2 DEF RemindTask
  <2> HIDE DEF u
  <2>4. Formed(u)
    BY <1>1, <2>3 DEF Formed, RemindFormed
  <2> QED BY <1>2, <2>1, <2>3, <2>4
<1>3. CASE ~ok
  <2> DEFINE u == [t EXCEPT !.todo = @ \ {d}]
  <2>1. Goes(t, u)
    BY <1>3 DEF SendReminder
  <2>2. u \in RemindTask /\ u.id = t.id /\ u.todo = t.todo \ {d} /\ u.at = "sending" /\ u.do = "remind"
    BY DEF RemindTask
  <2> HIDE DEF u
  <2>3. Formed(u)
    BY <2>2 DEF Formed, RemindFormed
  <2> QED BY <1>3, <2>1, <2>2, <2>3
<1> QED BY <1>2, <1>3

LEMMA RecordGoes ==
  ASSUME NEW t \in RemindTask, NEW ok \in BOOLEAN, RecordReminder(t, ok)
  PROVE  \E u \in RemindTask :
            /\ Formed(u) /\ u.id = t.id /\ Goes(t, u) /\ u.todo = t.todo /\ u.at = "sending"
<1> DEFINE none == <<NoEvent, NoLogin, NoLogin>>
           u == [t EXCEPT !.at = "sending", !.mail = none]
<1>1. Goes(t, u)
  BY DEF RecordReminder
<1>2. none \in Mails
  BY CalendarAssumption DEF CalendarAssumption, NoEvent, Mails
<1> HIDE DEF none
<1>3. u \in RemindTask /\ u.id = t.id /\ u.todo = t.todo /\ u.at = "sending" /\ u.do = "remind"
  BY <1>2 DEF RemindTask
<1> HIDE DEF u
<1>4. Formed(u)
  BY <1>3 DEF Formed, RemindFormed
<1> QED BY <1>1, <1>3, <1>4

LEMMA CalendarGoesOn ==
  ASSUME CalendarTypeOK, made \in Nat, NEW t \in Task, Formed(t), CalendarStep(t)
  PROVE  GoesOn(t) /\ t.do \in CalendarDoes
<1>1. CASE t.do = "create" /\ CreateStep(t)
  BY <1>1, CalendarKinds, CreateGoesOn DEF CalendarDoes
<1>2. CASE t.do = "delete" /\ DeleteStep(t)
  BY <1>2, CalendarKinds, DeleteGoesOn DEF CalendarDoes
<1>3. CASE t.do = "refresh" /\ RefreshStep(t)
  BY <1>3, CalendarKinds, RefreshStepTurns, TurnsGoesOn DEF CalendarDoes
<1>4. CASE t.do = "resolve" /\ ResolveConflict(t)
  BY <1>4 DEF ResolveConflict, GoesOn, CalendarDoes
<1>5. CASE t.do = "remind" /\ RemindStep(t)
  <2>1. t \in RemindTask
    BY <1>5, CalendarKinds
  <2>2. RemindTask \subseteq Task /\ \A u \in RemindTask : u.do = t.do
    BY <1>5 DEF Task, CalendarTask, RemindTask
  <2>3. ASSUME t.at = "sending", NEW d \in t.todo, NEW ok \in BOOLEAN, SendReminder(t, d, ok)
        PROVE  GoesOn(t)
    BY <2>1, <2>2, <2>3, RemindGoes DEF GoesOn
  <2>4. ASSUME NEW ok \in BOOLEAN, RecordReminder(t, ok)
        PROVE  GoesOn(t)
    BY <2>1, <2>2, <2>4, RecordGoes DEF GoesOn
  <2> QED BY <1>5, <2>3, <2>4 DEF RemindStep, CalendarDoes
<1> QED BY <1>1, <1>2, <1>3, <1>4, <1>5 DEF CalendarStep

-----------------------------------------------------------------------------
(* The calendar's rows.                                                    *)

\* The type of the calendar in parts, and with the events what is known of them.
EventsOK ==
    /\ event \in [EventIds -> Event] /\ spent \in 0..MaxEvents
    /\ \A e \in EventIds : e > spent => event[e].status = "none"
    /\ approval \in [EventIds -> {"none", "pending", "approved", "rejected"}]
    /\ rsvp \in [EventIds -> [Logins -> Responses]]
    /\ vetted \subseteq EventIds
    /\ EventsKept
FeedsOK ==
    /\ feed \in [Feeds -> [state : {"none", "live", "gone"}, enabled : BOOLEAN, public : BOOLEAN]]
    /\ offered \in [Feeds -> [Uids -> 0..Absent]]
    /\ ignored \cup kept \subseteq Feeds \X Uids
ConflictsOK ==
    /\ conflicts \subseteq Conflict
    /\ \A c, d \in conflicts : c.feed = d.feed /\ c.uid = d.uid => c = d
    /\ \A c \in conflicts : Here(c.existing) /\ Live(c.feed)
RemindersOK ==
    /\ reminded \cup doubted \subseteq EventIds \X Logins
    /\ mailed \cup again \subseteq EventIds \X Logins \X Logins
RestOK == tokens \cup member \subseteq Logins /\ now \in Slots /\ made \in Nat /\ scene \in DOMAIN Scenes
CalendarOK == EventsOK /\ FeedsOK /\ ConflictsOK /\ RemindersOK /\ RestOK

LEMMA CalendarParts ==
  CalendarTypeOK /\ EventsKept <=> CalendarOK
<1>1. conflicts \subseteq Conflict => \A c \in conflicts : c.existing \in EventIds
  BY DEF Conflict
<1> QED
  BY <1>1 DEF CalendarTypeOK, CalendarOK, EventsOK, FeedsOK, ConflictsOK, RemindersOK, RestOK, Here, Live

LEMMA CalendarPartsNext ==
  ASSUME CalendarOK'
  PROVE  CalendarTypeOK' /\ EventsKept'
<1>1. conflicts' \subseteq Conflict => \A c \in conflicts' : c.existing \in EventIds
  BY DEF Conflict
<1> QED
  BY <1>1 DEF CalendarTypeOK, CalendarOK, EventsOK, FeedsOK, ConflictsOK, RemindersOK, RestOK, Here, Live

\* What an event has been it is not again once it is gone, and its reminders
\* are forgotten with it and no sooner.
EventsGoOn ==
    /\ spent <= spent'
    /\ \A e \in 1..spent : Here(e)' => Here(e)
    /\ reminded' \subseteq reminded /\ \A r \in reminded \ reminded' : ~Here(r[1])'
    /\ UNCHANGED <<mailed, again, doubted>>

LEMMA Dropped ==
  ASSUME EventsOK, RemindersOK, NEW es \in SUBSET EventIds, DropEvents(es)
  PROVE  /\ EventsOK' /\ RemindersOK' /\ EventsGoOn
         /\ \A e \in EventIds : event'[e] = IF e \in es THEN NoSuchEvent ELSE event[e]
<1>0. NoSuchEvent \in Event /\ NoSuchEvent.status = "none" /\ ~NoSuchEvent.public
  BY CalendarAssumption DEF CalendarAssumption, NoSuchEvent, MkEvent, Event, Statuses, Slots
<1>1. \A e \in EventIds : event'[e] = IF e \in es THEN NoSuchEvent ELSE event[e]
  BY DEF DropEvents
<1>2. event' \in [EventIds -> Event]
  BY <1>0 DEF DropEvents, EventsOK
<1>3. rsvp' \in [EventIds -> [Logins -> Responses]]
  BY DEF DropEvents, EventsOK, Responses
<1>4. \A e \in EventIds : Here(e)' <=> Here(e) /\ e \notin es
  BY <1>0, <1>1 DEF Here
<1>5. EventsKept'
  <2> SUFFICES ASSUME NEW e \in EventIds
               PROVE  /\ event'[e].public => event'[e].group = NoGroup
                      /\ event'[e].status = "published" => e \in vetted
                      /\ ~Here(e)' => \A x \in Logins : rsvp'[e][x] = "none"
    BY DEF EventsKept, DropEvents
  <2>1. CASE e \in es
    BY <1>0, <1>1, <2>1 DEF DropEvents
  <2>2. CASE e \notin es
    BY <1>1, <1>4, <2>2 DEF DropEvents, EventsOK, EventsKept
  <2> QED BY <2>1, <2>2
<1>6. EventsOK'
  BY <1>0, <1>1, <1>2, <1>3, <1>5 DEF DropEvents, EventsOK
<1>7. RemindersOK'
  BY DEF DropEvents, RemindersOK
<1>8. EventsGoOn
  <2>1. reminded \subseteq EventIds \X Logins /\ spent \in 0..MaxEvents
    BY DEF RemindersOK, EventsOK
  <2>2. \A r \in reminded \ reminded' : ~Here(r[1])'
    BY <1>4, <2>1 DEF DropEvents
  <2>3. 1..spent \subseteq EventIds
    BY <2>1, CalendarAssumption DEF EventIds, CalendarAssumption
  <2> QED BY <1>4, <2>1, <2>2, <2>3 DEF EventsGoOn, DropEvents
<1> QED BY <1>1, <1>6, <1>7, <1>8

LEMMA Added ==
  ASSUME EventsOK, NEW ev \in Event, ev.status # "none", ev.public => ev.group = NoGroup, AddEvent(ev)
  PROVE  /\ EventsOK' /\ spent <= spent' /\ spent' \in EventIds
         /\ \A e \in 1..spent : Here(e)' => Here(e)
         /\ \A e \in EventIds : event'[e] = IF e = spent' THEN ev ELSE event[e]
         /\ ~Here(spent')
<1>1. spent + 1 \in EventIds /\ spent' = spent + 1 /\ spent \in Nat
  BY CalendarAssumption DEF AddEvent, EventsOK, EventIds, CalendarAssumption
<1>2. \A e \in EventIds : event'[e] = IF e = spent + 1 THEN ev ELSE event[e]
  BY DEF AddEvent, EventsOK
<1>3. event[spent + 1].status = "none"
  BY <1>1 DEF EventsOK
<1>4. event' \in [EventIds -> Event]
  BY DEF AddEvent, EventsOK
<1>5. EventsKept'
  <2> SUFFICES ASSUME NEW e \in EventIds
               PROVE  /\ event'[e].public => event'[e].group = NoGroup
                      /\ event'[e].status = "published" => e \in vetted'
                      /\ ~Here(e)' => \A x \in Logins : rsvp'[e][x] = "none"
    BY DEF EventsKept
  <2>1. CASE e = spent + 1
    BY <1>2, <2>1 DEF AddEvent, Here
  <2>2. CASE e # spent + 1
    BY <1>2, <2>2 DEF AddEvent, EventsOK, EventsKept, Here
  <2> QED BY <2>1, <2>2
<1>6. spent' \in 0..MaxEvents /\ \A e \in EventIds : e > spent' => event'[e].status = "none"
  BY <1>1, <1>2 DEF EventsOK, EventIds
<1>7. vetted' \subseteq EventIds
  BY <1>1 DEF AddEvent, EventsOK
<1>8. EventsOK'
  BY <1>4, <1>5, <1>6, <1>7 DEF AddEvent, EventsOK
<1>9. \A e \in 1..spent : Here(e)' => Here(e)
  BY <1>1, <1>2 DEF Here
<1>10. ~Here(spent') /\ spent <= spent'
  BY <1>1, <1>3 DEF Here
<1> QED BY <1>1, <1>2, <1>8, <1>9, <1>10

\* Rows of one kind stay right while others change.
LEMMA EventsSame ==
  ASSUME EventsOK, UNCHANGED <<event, spent, approval, rsvp, vetted>>
  PROVE  EventsOK'
BY DEF EventsOK, EventsKept, Here
LEMMA FeedsSame == ASSUME FeedsOK, UNCHANGED <<feed, offered, ignored, kept>> PROVE FeedsOK'
BY DEF FeedsOK
LEMMA ConflictsSame ==
  ASSUME ConflictsOK, conflicts' \subseteq conflicts,
         \A c \in conflicts' : Here(c.existing) => Here(c.existing)',
         \A c \in conflicts' : Live(c.feed) => Live(c.feed)'
  PROVE  ConflictsOK'
BY DEF ConflictsOK
LEMMA RemindersSame == ASSUME RemindersOK, UNCHANGED remindVars PROVE RemindersOK'
BY DEF RemindersOK, remindVars
LEMMA RestSame == ASSUME RestOK, UNCHANGED setVars, made' \in Nat PROVE RestOK'
BY DEF RestOK, setVars
LEMMA CalendarSame ==
  ASSUME CalendarOK, UNCHANGED calendarVars, made' \in Nat
  PROVE  CalendarOK' /\ EventsGoOn
<1>1. UNCHANGED <<event, spent, approval, rsvp, vetted, feed, offered, conflicts, ignored, kept>>
      /\ UNCHANGED remindVars /\ UNCHANGED setVars
  BY DEF calendarVars, eventVars, feedVars
<1>2. ConflictsOK'
  BY <1>1 DEF CalendarOK, ConflictsOK, Here, Live
<1>3. EventsGoOn
  BY <1>1 DEF EventsGoOn, Here, remindVars, CalendarOK, EventsOK
<1> QED BY <1>1, <1>2, <1>3, EventsSame, FeedsSame, RemindersSame, RestSame DEF CalendarOK

LEMMA DecideKeeps ==
  ASSUME CalendarOK, NEW x, NEW e \in EventIds, NEW approve \in BOOLEAN, Decide(x, e, approve), made' \in Nat
  PROVE  CalendarOK' /\ EventsGoOn
<1> DEFINE status == IF approve THEN "published" ELSE "rejected"
<1>0. UNCHANGED <<spent, rsvp>> /\ UNCHANGED feedVars /\ UNCHANGED remindVars /\ UNCHANGED setVars
      /\ e \in PendingForUnit
  BY DEF Decide
<1>1. event' \in [EventIds -> Event]
  <2>1. event[e] \in Event /\ status \in Statuses
    BY DEF CalendarOK, EventsOK, Statuses
  <2>2. [event[e] EXCEPT !.status = status] \in Event
    BY <2>1 DEF Event
  <2>3. event' = event \/ event' = [event EXCEPT ![e] = [event[e] EXCEPT !.status = status]]
    BY DEF Decide
  <2> QED BY <2>2, <2>3 DEF CalendarOK, EventsOK
<1>2. \A d \in EventIds : /\ Here(d)' <=> Here(d)
                          /\ event'[d].public = event[d].public /\ event'[d].group = event[d].group
                          /\ event'[d].status = "published" => d \in vetted'
  <2>1. CASE Here(e)
    <3>1. event' = [event EXCEPT ![e].status = status] /\ vetted' = IF approve THEN vetted \cup {e} ELSE vetted
      BY <2>1 DEF Decide
    <3> QED BY <2>1, <3>1 DEF CalendarOK, EventsOK, EventsKept, Here, Event
  <2>2. CASE ~Here(e)
    BY <2>2 DEF Decide, CalendarOK, EventsOK, EventsKept, Here
  <2> QED BY <2>1, <2>2
<1>3. approval' \in [EventIds -> {"none", "pending", "approved", "rejected"}] /\ vetted' \subseteq EventIds
  BY DEF Decide, CalendarOK, EventsOK
<1>4. EventsOK'
  BY <1>0, <1>1, <1>2, <1>3 DEF CalendarOK, EventsOK, EventsKept, Here
<1>5. ConflictsOK'
  BY <1>0, <1>2, ConflictsSame DEF CalendarOK, ConflictsOK, Conflict, feedVars, Live
<1>6. EventsGoOn
  <2>1. 1..spent \subseteq EventIds /\ spent \in Nat
    BY CalendarAssumption DEF CalendarOK, EventsOK, EventIds, CalendarAssumption
  <2> QED BY <1>0, <1>2, <2>1 DEF EventsGoOn, remindVars
<1> QED BY <1>0, <1>4, <1>5, <1>6, FeedsSame, RemindersSame, RestSame DEF CalendarOK, feedVars

LEMMA UpdateKeeps ==
  ASSUME CalendarOK, NEW e \in EventIds, NEW s \in Slots, NEW g \in Groups \cup {NoGroup},
         NEW public \in BOOLEAN, public => g = NoGroup, Update(e, s, g, public), made' \in Nat
  PROVE  CalendarOK' /\ EventsGoOn
<1>0. /\ UNCHANGED <<spent, approval, rsvp, vetted>> /\ UNCHANGED feedVars /\ UNCHANGED remindVars
      /\ UNCHANGED setVars /\ Here(e)
      /\ event' = [event EXCEPT ![e].slot = s, ![e].group = g, ![e].public = public]
  BY DEF Update
<1>a. event \in [EventIds -> Event] /\ event[e] \in Event
  BY DEF CalendarOK, EventsOK
<1> DEFINE row == [event[e] EXCEPT !.slot = s, !.group = g, !.public = public]
<1>b. /\ row \in Event /\ row.status = event[e].status /\ row.public = public /\ row.group = g
      /\ event' = [event EXCEPT ![e] = row]
  BY <1>0, <1>a DEF Event
<1> HIDE DEF row
<1>1. event' \in [EventIds -> Event]
  BY <1>a, <1>b
<1>2. \A d \in EventIds : /\ event'[d].status = event[d].status
                          /\ event'[d].public => event'[d].group = NoGroup
  BY <1>a, <1>b DEF CalendarOK, EventsOK, EventsKept
<1>3. \A d \in EventIds : Here(d)' <=> Here(d)
  BY <1>2 DEF Here
<1>4. EventsOK'
  BY <1>0, <1>1, <1>2, <1>3 DEF CalendarOK, EventsOK, EventsKept
<1>5. ConflictsOK'
  BY <1>0, <1>3, ConflictsSame DEF CalendarOK, ConflictsOK, Conflict, feedVars, Live
<1>6. EventsGoOn
  <2>1. 1..spent \subseteq EventIds /\ spent \in Nat
    BY CalendarAssumption DEF CalendarOK, EventsOK, EventIds, CalendarAssumption
  <2> QED BY <1>0, <1>3, <2>1 DEF EventsGoOn, remindVars
<1> QED BY <1>0, <1>4, <1>5, <1>6, FeedsSame, RemindersSame, RestSame DEF CalendarOK, feedVars

\* A step that leaves the events and what has been sent alone.
LEMMA EventsGoOnSame ==
  ASSUME CalendarOK, UNCHANGED <<event, spent, reminded, mailed, again, doubted>>
  PROVE  EventsGoOn
BY DEF CalendarOK, EventsOK, EventsGoOn, Here

LEMMA RSVPKeeps ==
  ASSUME CalendarOK, NEW e \in EventIds, NEW m \in Logins, NEW r \in Responses, SetRSVP(e, m, r), made' \in Nat
  PROVE  CalendarOK' /\ EventsGoOn
<1>0. /\ UNCHANGED <<event, spent, approval, vetted>> /\ UNCHANGED feedVars /\ UNCHANGED remindVars
      /\ UNCHANGED setVars /\ Here(e) /\ rsvp' = [rsvp EXCEPT ![e][m] = r]
  BY DEF SetRSVP
<1>1. rsvp' \in [EventIds -> [Logins -> Responses]]
  BY <1>0 DEF CalendarOK, EventsOK
<1>2. EventsOK'
  BY <1>0, <1>1 DEF CalendarOK, EventsOK, EventsKept, Here
<1>3. ConflictsOK'
  BY <1>0, ConflictsSame DEF CalendarOK, feedVars, Here, Live
<1>4. EventsGoOn
  BY <1>0, EventsGoOnSame DEF remindVars
<1> QED BY <1>0, <1>2, <1>3, <1>4, FeedsSame, RemindersSame, RestSame DEF CalendarOK, feedVars

\* The calendars the unit imports.
LEMMA FeedKeeps ==
  ASSUME CalendarOK, UNCHANGED eventVars, UNCHANGED remindVars, UNCHANGED setVars, made' \in Nat,
         FeedsOK', conflicts' = conflicts, \A f \in Feeds : Live(f) => Live(f)'
  PROVE  CalendarOK' /\ EventsGoOn
<1>1. ConflictsOK'
  BY ConflictsSame DEF CalendarOK, ConflictsOK, Conflict, eventVars, Here
<1>2. EventsGoOn
  BY EventsGoOnSame DEF eventVars, remindVars
<1> QED BY <1>1, <1>2, EventsSame, RemindersSame, RestSame DEF CalendarOK, eventVars

LEMMA DeleteFeedKeeps ==
  ASSUME CalendarOK, NEW f \in Feeds, DeleteFeed(f), made' \in Nat
  PROVE  CalendarOK' /\ EventsGoOn
<1>0. /\ DropEvents(EventsOf(f)) /\ feed' = [feed EXCEPT ![f].state = "gone"]
      /\ UNCHANGED <<offered, kept>> /\ UNCHANGED setVars
      /\ conflicts' = {c \in conflicts : c.feed # f /\ event[c.existing].feed # f}
      /\ ignored' \subseteq ignored
  BY DEF DeleteFeed
<1>1. EventsOf(f) \in SUBSET EventIds
  BY DEF EventsOf
<1>2. EventsOK' /\ RemindersOK' /\ EventsGoOn
      /\ \A e \in EventIds : event'[e] = IF e \in EventsOf(f) THEN NoSuchEvent ELSE event[e]
  BY <1>0, <1>1, Dropped DEF CalendarOK
<1>3. FeedsOK'
  BY <1>0 DEF CalendarOK, FeedsOK
<1>4. ConflictsOK'
  <2>1. ASSUME NEW c \in conflicts'
        PROVE  Here(c.existing)' /\ Live(c.feed)'
    <3>1. c \in conflicts /\ c.feed # f /\ event[c.existing].feed # f /\ c.existing \in EventIds
          /\ c.feed \in Feeds /\ Here(c.existing) /\ Live(c.feed)
      BY <1>0, <2>1 DEF CalendarOK, ConflictsOK, Conflict
    <3>2. event'[c.existing] = event[c.existing]
      BY <1>2, <3>1 DEF EventsOf
    <3> QED BY <1>0, <3>1, <3>2 DEF Here, Live, CalendarOK, FeedsOK
  <2> QED BY <1>0, <2>1 DEF CalendarOK, ConflictsOK
<1> QED BY <1>0, <1>2, <1>3, <1>4, RestSame DEF CalendarOK

LEMMA CalendarRequestKeeps ==
  ASSUME CalendarOK, CalendarRequest, made' \in Nat
  PROVE  CalendarOK' /\ (EventsGoOn \/ SendReminders)
<1>0. CalendarOK /\ made' \in Nat
  OBVIOUS
<1>1. ASSUME NEW x \in Logins, NEW s \in Slots, NEW g \in Groups \cup {NoGroup},
             NEW public \in BOOLEAN, NEW n \in 1..MaxRepeats, CalendarCreate(x, s, g, public, n)
      PROVE  CalendarOK' /\ EventsGoOn
  BY <1>0, <1>1, CalendarSame DEF CalendarCreate
<1>2. ASSUME NEW x \in Logins, NEW e \in EventIds, NEW approve \in BOOLEAN, Decide(x, e, approve)
      PROVE  CalendarOK' /\ EventsGoOn
  BY <1>0, <1>2, DecideKeeps
<1>3. ASSUME NEW x \in Logins, NEW e \in EventIds, NEW s \in Slots, NEW g \in Groups \cup {NoGroup},
             NEW public \in BOOLEAN, CalendarUpdate(x, e, s, g, public)
      PROVE  CalendarOK' /\ EventsGoOn
  <2>1. PICK open \in BOOLEAN : open = (public /\ g = NoGroup)
    OBVIOUS
  <2>2. Update(e, s, g, open) /\ (open => g = NoGroup)
    BY <1>3, <2>1 DEF CalendarUpdate
  <2> QED BY <1>0, <2>2, UpdateKeeps
<1>4. ASSUME NEW x \in Logins, NEW e \in EventIds, CalendarDelete(x, e)
      PROVE  CalendarOK' /\ EventsGoOn
  BY <1>0, <1>4, CalendarSame DEF CalendarDelete
<1>5. ASSUME NEW x \in Logins, NEW e \in EventIds, NEW r \in Responses \ {"none"}, CalendarRSVP(x, e, r)
      PROVE  CalendarOK' /\ EventsGoOn
  BY <1>0, <1>5, RSVPKeeps DEF CalendarRSVP
<1>6. ASSUME NEW x \in Logins, NEW f \in Feeds, NEW public \in BOOLEAN, AdminCalendarFeedAdd(x, f, public)
      PROVE  CalendarOK' /\ EventsGoOn
  <2>0. AddFeed(f, public)
    BY <1>6 DEF AdminCalendarFeedAdd
  <2>1. feed' = [feed EXCEPT ![f] = [state |-> "live", enabled |-> TRUE, public |-> public]]
        /\ UNCHANGED <<offered, conflicts, ignored, kept>> /\ UNCHANGED eventVars /\ UNCHANGED remindVars
        /\ UNCHANGED setVars
    BY <2>0 DEF AddFeed
  <2>2. FeedsOK' /\ \A h \in Feeds : Live(h) => Live(h)'
    BY <1>0, <2>1 DEF CalendarOK, FeedsOK, Live
  <2> QED BY <1>0, <2>1, <2>2, FeedKeeps
<1>7. ASSUME NEW x \in Logins, NEW f \in Feeds, AdminCalendarFeedRefresh(x, f)
      PROVE  CalendarOK' /\ EventsGoOn
  BY <1>0, <1>7, CalendarSame DEF AdminCalendarFeedRefresh
<1>8. ASSUME RefreshAllFeeds
      PROVE  CalendarOK' /\ EventsGoOn
  BY <1>0, <1>8, CalendarSame DEF RefreshAllFeeds
<1>9. ASSUME NEW x \in Logins, NEW f \in Feeds, NEW enabled \in BOOLEAN, AdminCalendarFeedToggle(x, f, enabled)
      PROVE  CalendarOK' /\ EventsGoOn
  <2>1. feed' = [feed EXCEPT ![f].enabled = enabled]
        /\ UNCHANGED <<offered, conflicts, ignored, kept>> /\ UNCHANGED eventVars /\ UNCHANGED remindVars
        /\ UNCHANGED setVars
    BY <1>9 DEF AdminCalendarFeedToggle, SetFeedEnabled
  <2>2. FeedsOK' /\ \A h \in Feeds : Live(h) => Live(h)'
    BY <1>0, <2>1 DEF CalendarOK, FeedsOK, Live
  <2> QED BY <1>0, <2>1, <2>2, FeedKeeps
<1>10. ASSUME NEW x \in Logins, NEW f \in Feeds, AdminCalendarFeedDelete(x, f)
       PROVE  CalendarOK' /\ EventsGoOn
  BY <1>0, <1>10, DeleteFeedKeeps DEF AdminCalendarFeedDelete
<1>11. ASSUME NEW f \in Feeds, NEW u \in Uids, NEW s \in 0..Absent, Offers(f, u, s)
       PROVE  CalendarOK' /\ EventsGoOn
  <2>1. offered' = [offered EXCEPT ![f][u] = s]
        /\ UNCHANGED <<feed, conflicts, ignored, kept>> /\ UNCHANGED eventVars /\ UNCHANGED remindVars
        /\ UNCHANGED setVars
    BY <1>11 DEF Offers
  <2>2. FeedsOK' /\ \A h \in Feeds : Live(h) => Live(h)'
    BY <1>0, <2>1 DEF CalendarOK, FeedsOK, Live
  <2> QED BY <1>0, <2>1, <2>2, FeedKeeps
<1>12. ASSUME NEW x \in Logins, NEW c \in conflicts, NEW d \in Rulings, AdminCalendarConflictResolve(x, c, d)
       PROVE  CalendarOK' /\ EventsGoOn
  BY <1>0, <1>12, CalendarSame DEF AdminCalendarConflictResolve
<1>13. ASSUME SendReminders
       PROVE  CalendarOK'
  <2>0. UNCHANGED <<reminded, mailed, again>> /\ UNCHANGED eventVars /\ UNCHANGED feedVars /\ UNCHANGED setVars
    BY <1>13 DEF SendReminders
  <2>1. doubted' \subseteq doubted \cup (EventIds \X Logins)
    <3>1. \A d \in dueCandidates : <<d[1], d[2]>> \in EventIds \X Logins
      BY DEF dueCandidates
    <3>2. doubted' \subseteq doubted \cup {<<d[1], d[2]>> : d \in dueCandidates}
      BY <1>13 DEF SendReminders
    <3> QED BY <3>1, <3>2
  <2>2. RemindersOK'
    BY <1>0, <2>0, <2>1 DEF CalendarOK, RemindersOK
  <2>3. ConflictsOK'
    BY <1>0, <2>0, ConflictsSame DEF CalendarOK, eventVars, feedVars, Here, Live
  <2> QED BY <1>0, <2>0, <2>2, <2>3, EventsSame, FeedsSame, RestSame DEF CalendarOK, eventVars, feedVars
<1>14. ASSUME UNCHANGED scene, UNCHANGED eventVars, UNCHANGED feedVars, UNCHANGED remindVars,
              tokens' \cup member' \subseteq Logins, now' \in Slots
       PROVE  CalendarOK' /\ EventsGoOn
  <2>1. ConflictsOK'
    BY <1>0, <1>14, ConflictsSame DEF CalendarOK, eventVars, feedVars, Here, Live
  <2>2. EventsGoOn
    BY <1>0, <1>14, EventsGoOnSame DEF eventVars, remindVars
  <2>3. RestOK'
    BY <1>0, <1>14 DEF CalendarOK, RestOK
  <2> QED BY <1>0, <1>14, <2>1, <2>2, <2>3, EventsSame, FeedsSame, RemindersSame
          DEF CalendarOK, eventVars, feedVars
<1>15. ASSUME NEW x \in Logins, CalendarSubscribeRegenerate(x) \/ CalendarSubscribeRemove(x)
       PROVE  CalendarOK' /\ EventsGoOn
  BY <1>0, <1>14, <1>15 DEF CalendarSubscribeRegenerate, CalendarSubscribeRemove, CalendarOK, RestOK
<1>16. ASSUME NEW x \in Logins, Leaves(x)
       PROVE  CalendarOK' /\ EventsGoOn
  BY <1>0, <1>14, <1>16 DEF Leaves, CalendarOK, RestOK
<1>17. ASSUME Tick
       PROVE  CalendarOK' /\ EventsGoOn
  <2>1. now' \in Slots
    BY <1>0, <1>17, CalendarAssumption DEF Tick, CalendarOK, RestOK, Slots, CalendarAssumption
  <2> QED BY <1>0, <1>14, <1>17, <2>1 DEF Tick, CalendarOK, RestOK
<1> QED BY <1>1, <1>2, <1>3, <1>4, <1>5, <1>6, <1>7, <1>8, <1>9, <1>10, <1>11, <1>12, <1>13, <1>15,
           <1>16, <1>17 DEF CalendarRequest

\* A new row of the unit's own or of a calendar.
LEMMA AddedKeeps ==
  ASSUME CalendarOK, NEW ev \in Event, ev.status # "none", ev.public => ev.group = NoGroup,
         AddEvent(ev), UNCHANGED feedVars, UNCHANGED remindVars, UNCHANGED setVars, made' \in Nat
  PROVE  CalendarOK' /\ EventsGoOn
<1>1. /\ EventsOK' /\ spent <= spent' /\ \A e \in 1..spent : Here(e)' => Here(e)
      /\ \A e \in EventIds : event'[e] = IF e = spent' THEN ev ELSE event[e]
  BY Added DEF CalendarOK
<1>2. \A e \in EventIds : Here(e) => Here(e)'
  BY <1>1 DEF Here
<1>3. ConflictsOK'
  BY <1>2, ConflictsSame DEF CalendarOK, ConflictsOK, Conflict, feedVars, Live
<1>4. EventsGoOn
  BY <1>1 DEF EventsGoOn, remindVars
<1> QED BY <1>1, <1>3, <1>4, FeedsSame, RemindersSame, RestSame DEF CalendarOK, feedVars

LEMMA CreateKeeps ==
  ASSUME CalendarOK, NEW t \in CreateTask, Formed(t), CreateStep(t), made' \in Nat
  PROVE  CalendarOK' /\ EventsGoOn
<1>0. t.do = "create" /\ (t.public => t.group = NoGroup) /\ (t.at = "submitting" => t.e \in EventIds)
  BY DEF CreateTask, Formed, CreateFormed
<1>1. CASE t.at = "inserting" /\ InsertOccurrence(t)
  <2> DEFINE ev == MkEvent(IF t.direct THEN "published" ELSE "pending_approval",
                           t.slot, t.group, t.public, NoFeed, NoUid)
  <2>1. ev \in Event /\ ev.status # "none" /\ (ev.public => ev.group = NoGroup)
    BY <1>0 DEF MkEvent, Event, Statuses, CreateTask
  <2>2. AddEvent(ev) /\ UNCHANGED feedVars /\ UNCHANGED remindVars /\ UNCHANGED setVars
    BY <1>1 DEF InsertOccurrence
  <2> HIDE DEF ev
  <2> QED BY <2>1, <2>2, AddedKeeps
<1>2. CASE t.at = "submitting" /\ Submit(t)
  <2>0. /\ UNCHANGED <<event, spent, rsvp, vetted>> /\ UNCHANGED feedVars /\ UNCHANGED remindVars
        /\ UNCHANGED setVars /\ approval' = [approval EXCEPT ![t.e] = "pending"]
    BY <1>2 DEF Submit
  <2>1. EventsOK'
    BY <1>0, <1>2, <2>0 DEF CalendarOK, EventsOK, EventsKept, Here
  <2>2. ConflictsOK'
    BY <2>0, ConflictsSame DEF CalendarOK, feedVars, Here, Live
  <2>3. EventsGoOn
    BY <2>0, EventsGoOnSame DEF remindVars
  <2> QED BY <2>0, <2>1, <2>2, <2>3, FeedsSame, RemindersSame, RestSame DEF CalendarOK, feedVars
<1> QED BY <1>1, <1>2 DEF CreateStep

\* Some events go, with the conflicts they were in.
LEMMA DroppedKeeps ==
  ASSUME CalendarOK, NEW es \in SUBSET EventIds, DropEvents(es), made' \in Nat,
         conflicts' = {c \in conflicts : c.existing \notin es},
         UNCHANGED <<feed, offered, ignored, kept>>, UNCHANGED setVars
  PROVE  CalendarOK' /\ EventsGoOn
<1>1. EventsOK' /\ RemindersOK' /\ EventsGoOn
      /\ \A e \in EventIds : event'[e] = IF e \in es THEN NoSuchEvent ELSE event[e]
  BY Dropped DEF CalendarOK
<1>2. ASSUME NEW c \in conflicts'
      PROVE  c \in conflicts /\ (Here(c.existing) => Here(c.existing)')
  BY <1>1, <1>2 DEF Here
<1>3. ConflictsOK'
  BY <1>2, ConflictsSame DEF CalendarOK, Live
<1> QED BY <1>1, <1>3, FeedsSame, RestSame DEF CalendarOK

LEMMA DeleteKeeps ==
  ASSUME CalendarOK, NEW t \in DeleteTask, DeleteStep(t), made' \in Nat
  PROVE  CalendarOK' /\ EventsGoOn
<1>1. CASE WithdrawRequest(t)
  <2>0. /\ UNCHANGED <<event, spent, rsvp, vetted>> /\ UNCHANGED feedVars /\ UNCHANGED remindVars
        /\ UNCHANGED setVars /\ approval' = [approval EXCEPT ![t.e] = "none"]
    BY <1>1 DEF WithdrawRequest
  <2>1. EventsOK'
    BY <2>0 DEF CalendarOK, EventsOK, EventsKept, Here
  <2>2. ConflictsOK'
    BY <2>0, ConflictsSame DEF CalendarOK, feedVars, Here, Live
  <2>3. EventsGoOn
    BY <2>0, EventsGoOnSame DEF remindVars
  <2> QED BY <2>0, <2>1, <2>2, <2>3, FeedsSame, RemindersSame, RestSame DEF CalendarOK, feedVars
<1>2. CASE DeleteEvent(t)
  <2>1. {t.e} \in SUBSET EventIds
    BY DEF DeleteTask
  <2>2. conflicts' = {c \in conflicts : c.existing \notin {t.e}}
    BY <1>2 DEF DeleteEvent
  <2> QED BY <1>2, <2>1, <2>2, DroppedKeeps DEF DeleteEvent
<1> QED BY <1>1, <1>2 DEF DeleteStep

LEMMA ImportKeeps ==
  ASSUME CalendarOK, NEW t \in RefreshTask, NEW u \in Seen(t), Import(t, u), made' \in Nat
  PROVE  CalendarOK' /\ EventsGoOn
<1> DEFINE e == t.existing[u]
<1>1. CASE UNCHANGED calendarVars
  BY <1>1, CalendarSame
<1>2. CASE ~UNCHANGED calendarVars
  <2>0. /\ event' = IF Here(e) THEN [event EXCEPT ![e].slot = t.offer[u]] ELSE event
        /\ UNCHANGED <<spent, approval, rsvp, vetted>> /\ UNCHANGED feedVars /\ UNCHANGED remindVars
        /\ UNCHANGED setVars
    BY <1>2 DEF Import
  <2>a. event \in [EventIds -> Event] /\ t.offer[u] \in Slots
    BY DEF CalendarOK, EventsOK, Seen
  <2>b. \A d \in EventIds :
           /\ event'[d] \in Event /\ event'[d].status = event[d].status
           /\ event'[d].public = event[d].public /\ event'[d].group = event[d].group
    <3>1. CASE Here(e)
      <4> DEFINE row == [event[e] EXCEPT !.slot = t.offer[u]]
      <4>1. e \in EventIds /\ event[e] \in Event
        BY <2>a, <3>1 DEF Here
      <4>2. /\ row \in Event /\ row.status = event[e].status /\ row.public = event[e].public
            /\ row.group = event[e].group /\ event' = [event EXCEPT ![e] = row]
        BY <2>0, <2>a, <3>1, <4>1 DEF Event
      <4> HIDE DEF row
      <4> QED BY <2>a, <4>1, <4>2
    <3>2. CASE ~Here(e)
      BY <2>0, <2>a, <3>2
    <3> QED BY <3>1, <3>2
  <2>c. event' \in [EventIds -> Event]
    BY <2>0, <2>a, <2>b
  <2>1. \A d \in EventIds : Here(d)' <=> Here(d)
    BY <2>b DEF Here
  <2>2. EventsOK'
    BY <2>0, <2>b, <2>c, <2>1 DEF CalendarOK, EventsOK, EventsKept
  <2>3. ConflictsOK'
    BY <2>0, <2>1, ConflictsSame DEF CalendarOK, ConflictsOK, Conflict, feedVars, Live
  <2>4. EventsGoOn
    <3>1. 1..spent \subseteq EventIds /\ spent \in Nat
      BY CalendarAssumption DEF CalendarOK, EventsOK, EventIds, CalendarAssumption
    <3> QED BY <2>0, <2>1, <3>1 DEF EventsGoOn, remindVars
  <2> QED BY <2>0, <2>2, <2>3, <2>4, FeedsSame, RemindersSame, RestSame DEF CalendarOK, feedVars
<1> QED BY <1>1, <1>2

\* Only conflicts change.
LEMMA ConflictKeeps ==
  ASSUME CalendarOK, UNCHANGED <<feed, offered, ignored, kept>>, UNCHANGED eventVars, UNCHANGED remindVars,
         UNCHANGED setVars, made' \in Nat, ConflictsOK'
  PROVE  CalendarOK' /\ EventsGoOn
<1>1. EventsGoOn
  BY EventsGoOnSame DEF eventVars, remindVars
<1> QED BY <1>1, EventsSame, FeedsSame, RemindersSame, RestSame DEF CalendarOK, eventVars

LEMMA RecordConflictKeeps ==
  ASSUME CalendarOK, NEW t \in RefreshTask, Formed(t), t.at = "holding", recordConflict(t), made' \in Nat
  PROVE  CalendarOK' /\ EventsGoOn
<1> DEFINE old == {c \in conflicts : c.feed = t.feed /\ c.uid = t.uid}
           id == IF old = {} THEN t.id ELSE (CHOOSE c \in old : TRUE).id
           new == [id |-> id, feed |-> t.feed, uid |-> t.uid, slot |-> t.offer[t.uid], existing |-> t.clash]
<1>0. t.clash \in EventIds /\ t.uid \in Uids /\ t.offer[t.uid] \in Slots /\ t.feed \in Feeds /\ t.id \in Nat
  BY DEF RefreshTask, Formed, RefreshFormed, Seen
<1>1. id \in Nat
  <2>1. old \subseteq Conflict
    BY DEF CalendarOK, ConflictsOK
  <2>2. CASE old # {}
    <3>1. (CHOOSE c \in old : TRUE) \in Conflict
      BY <2>1, <2>2
    <3> QED BY <2>2, <3>1 DEF Conflict
  <2> QED BY <1>0, <2>2
<1>2. new \in Conflict
  <2> HIDE DEF id
  <2> QED BY <1>0, <1>1 DEF Conflict
<1>3. CASE UNCHANGED calendarVars
  BY <1>3, CalendarSame
<1>4. CASE ~UNCHANGED calendarVars
  <2>1. /\ Live(t.feed) /\ Here(t.clash) /\ conflicts' = (conflicts \ old) \cup {new}
        /\ UNCHANGED <<feed, offered, ignored, kept>> /\ UNCHANGED eventVars /\ UNCHANGED remindVars
        /\ UNCHANGED setVars
    BY <1>4 DEF recordConflict
  <2>2. new.feed = t.feed /\ new.uid = t.uid /\ new.existing = t.clash
    OBVIOUS
  <2> HIDE DEF new
  <2>3. ConflictsOK'
    <3>1. \A c \in conflicts' : Here(c.existing)' /\ Live(c.feed)'
      BY <2>1, <2>2 DEF CalendarOK, ConflictsOK, Here, Live, eventVars
    <3>2. conflicts' \subseteq Conflict
      BY <1>2, <2>1 DEF CalendarOK, ConflictsOK
    <3>3. \A c, d \in conflicts' : c.feed = d.feed /\ c.uid = d.uid => c = d
      BY <2>1, <2>2 DEF CalendarOK, ConflictsOK
    <3> QED BY <3>1, <3>2, <3>3 DEF ConflictsOK
  <2> QED BY <2>1, <2>3, ConflictKeeps
<1> QED BY <1>3, <1>4

LEMMA InsertImportedKeeps ==
  ASSUME CalendarOK, NEW t \in RefreshTask, Formed(t), t.at = "inserting", InsertImported(t), made' \in Nat
  PROVE  CalendarOK' /\ EventsGoOn
<1>0. t.uid \in Uids /\ t.offer[t.uid] \in Slots /\ t.feed \in Feeds
  BY DEF RefreshTask, Formed, RefreshFormed, Seen
<1> DEFINE ev == MkEvent("published", t.offer[t.uid], NoGroup, feed[t.feed].public, t.feed, t.uid)
<1>1. ev \in Event /\ ev.status # "none" /\ (ev.public => ev.group = NoGroup)
  BY <1>0 DEF MkEvent, Event, Statuses, CalendarOK, FeedsOK
<1>2. CASE UNCHANGED calendarVars
  BY <1>2, CalendarSame
<1>3. CASE ~UNCHANGED calendarVars
  <2>1. UNCHANGED feedVars /\ UNCHANGED remindVars /\ UNCHANGED setVars /\ AddEvent(ev)
    BY <1>3 DEF InsertImported, calendarVars
  <2> HIDE DEF ev
  <2> QED BY <1>1, <2>1, AddedKeeps
<1> QED BY <1>2, <1>3

LEMMA RefreshKeeps ==
  ASSUME CalendarOK, NEW t \in RefreshTask, Formed(t), RefreshStep(t), made' \in Nat
  PROVE  CalendarOK' /\ EventsGoOn
<1>0. /\ made' \in Nat /\ CalendarOK
      /\ t.at \in {"importing", "holding", "inserting"} => t.uids \subseteq Seen(t)
  BY DEF RefreshTask, Formed, RefreshFormed
<1>1. CASE fetchFeed(t) \/ ReadExisting(t) \/ ignoredUIDs(t) \/ RefreshDone(t) \/ RefreshFails(t)
  BY <1>0, <1>1, CalendarSame DEF fetchFeed, ReadExisting, ignoredUIDs, RefreshDone, RefreshFails
<1>2. ASSUME t.at = "importing", NEW u \in t.uids, Import(t, u)
      PROVE  CalendarOK' /\ EventsGoOn
  BY <1>0, <1>2, ImportKeeps
<1>3. ASSUME NEW ok \in BOOLEAN, ClearConflicts(t, ok)
      PROVE  CalendarOK' /\ EventsGoOn
  <2>1. /\ conflicts' \subseteq conflicts /\ UNCHANGED <<feed, offered, ignored, kept>>
        /\ UNCHANGED eventVars /\ UNCHANGED remindVars /\ UNCHANGED setVars
    BY <1>3 DEF ClearConflicts
  <2>2. ConflictsOK'
    BY <2>1, ConflictsSame DEF CalendarOK, eventVars, Here, Live
  <2> QED BY <1>0, <2>1, <2>2, ConflictKeeps
<1>4. CASE t.at = "holding" /\ recordConflict(t)
  BY <1>0, <1>4, RecordConflictKeeps
<1>5. CASE t.at = "inserting" /\ InsertImported(t)
  BY <1>0, <1>5, InsertImportedKeeps
<1>6. ASSUME NEW u \in t.uids, RemoveGone(t, u)
      PROVE  CalendarOK' /\ EventsGoOn
  <2> DEFINE gone == EventsOf(t.feed) \cap {t.existing[u]}
  <2>1. /\ DropEvents(gone) /\ conflicts' = {c \in conflicts : c.existing \notin gone}
        /\ UNCHANGED <<feed, offered, ignored, kept>> /\ UNCHANGED setVars /\ gone \in SUBSET EventIds
    BY <1>6 DEF RemoveGone, EventsOf
  <2> HIDE DEF gone
  <2> QED BY <1>0, <2>1, DroppedKeeps
<1> QED BY <1>1, <1>2, <1>3, <1>4, <1>5, <1>6 DEF RefreshStep

LEMMA ResolveKeeps ==
  ASSUME CalendarOK, NEW t \in ResolveTask, t.conflict.existing <= spent, ResolveConflict(t), made' \in Nat
  PROVE  CalendarOK' /\ EventsGoOn
<1> DEFINE c == t.conflict
           old == IF t.decision = "replace" THEN {c.existing} ELSE {}
           add == t.decision # "skip" /\ Imported(c.feed, c.uid) \ old = {}
           added == MkEvent("published", c.slot, NoGroup, feed[c.feed].public, c.feed, c.uid)
<1>0. /\ c \in Conflict /\ c.feed \in Feeds /\ c.uid \in Uids /\ c.slot \in Slots /\ c.existing \in EventIds
      /\ old \subseteq EventIds /\ spent \in 0..MaxEvents /\ \A e \in old : e <= spent
  BY DEF ResolveTask, Conflict, CalendarOK, EventsOK
<1>1. added \in Event /\ added.status = "published" /\ ~Here(0) /\ (added.public => added.group = NoGroup)
  BY <1>0 DEF MkEvent, Event, Statuses, CalendarOK, FeedsOK, Here, EventIds
<1>2. /\ Live(c.feed) /\ (add => spent < MaxEvents)
      /\ event' = [e \in EventIds |-> IF add /\ e = spent + 1 THEN added
                                      ELSE IF e \in old THEN NoSuchEvent ELSE event[e]]
      /\ spent' = IF add THEN spent + 1 ELSE spent
      /\ vetted' = IF add THEN vetted \cup {spent + 1} ELSE vetted
      /\ rsvp' = [e \in EventIds |-> IF e \in old THEN [x \in Logins |-> "none"] ELSE rsvp[e]]
      /\ reminded' = {r \in reminded : r[1] \notin old}
      /\ conflicts' = {d \in conflicts : d.existing \notin old /\ <<d.id, d.feed, d.uid>> # <<c.id, c.feed, c.uid>>}
      /\ UNCHANGED <<approval, feed, offered, mailed, again, doubted>> /\ UNCHANGED setVars
  BY DEF ResolveConflict
<1>3. ignored' \cup kept' \subseteq Feeds \X Uids
  BY <1>0 DEF ResolveConflict, CalendarOK, FeedsOK
<1> HIDE DEF add, added, old, c
<1>4. NoSuchEvent \in Event /\ NoSuchEvent.status = "none" /\ ~NoSuchEvent.public
  BY CalendarAssumption DEF CalendarAssumption, NoSuchEvent, MkEvent, Event, Statuses, Slots
<1>5. event \in [EventIds -> Event] /\ rsvp \in [EventIds -> [Logins -> Responses]] /\ vetted \subseteq EventIds
  BY DEF CalendarOK, EventsOK
<1>6. event' \in [EventIds -> Event]
  BY <1>1, <1>2, <1>4, <1>5
<1>7. rsvp' \in [EventIds -> [Logins -> Responses]]
  BY <1>2, <1>5 DEF Responses
<1>8. add => spent + 1 \in EventIds
  BY <1>0, <1>2, CalendarAssumption DEF EventIds, CalendarAssumption
<1>9. \A e \in EventIds : Here(e)' <=> (add /\ e = spent + 1) \/ (Here(e) /\ e \notin old)
  BY <1>1, <1>2, <1>4 DEF Here
<1>10. EventsKept'
  <2> SUFFICES ASSUME NEW e \in EventIds
               PROVE  /\ event'[e].public => event'[e].group = NoGroup
                      /\ event'[e].status = "published" => e \in vetted'
                      /\ ~Here(e)' => \A x \in Logins : rsvp'[e][x] = "none"
    BY DEF EventsKept
  <2>1. CASE add /\ e = spent + 1
    BY <1>1, <1>2, <1>9, <2>1
  <2>2. CASE ~(add /\ e = spent + 1) /\ e \in old
    BY <1>2, <1>4, <2>2
  <2>3. CASE ~(add /\ e = spent + 1) /\ e \notin old
    BY <1>2, <1>9, <2>3 DEF CalendarOK, EventsOK, EventsKept
  <2> QED BY <2>1, <2>2, <2>3
<1>11. spent' \in 0..MaxEvents /\ spent <= spent'
  BY <1>0, <1>2, CalendarAssumption DEF CalendarAssumption
<1>12. \A e \in EventIds : e > spent' => event'[e].status = "none"
  BY <1>0, <1>2, <1>4 DEF CalendarOK, EventsOK, EventIds
<1>13. EventsOK'
  BY <1>2, <1>5, <1>6, <1>7, <1>8, <1>10, <1>11, <1>12 DEF CalendarOK, EventsOK
<1>14. ConflictsOK'
  <2>1. ASSUME NEW d \in conflicts'
        PROVE  d \in conflicts /\ Here(d.existing)'
    <3>1. d \in conflicts /\ d.existing \notin old
      BY <1>2, <2>1
    <3>2. Here(d.existing) /\ d.existing \in EventIds
      BY <3>1 DEF CalendarOK, ConflictsOK, Conflict
    <3> QED BY <1>9, <3>1, <3>2
  <2> QED BY <1>2, <2>1, ConflictsSame DEF CalendarOK, Live
<1>15. RemindersOK'
  BY <1>2 DEF CalendarOK, RemindersOK
<1>16. EventsGoOn
  <2>1. 1..spent \subseteq EventIds /\ reminded \subseteq EventIds \X Logins
    BY <1>0, CalendarAssumption DEF EventIds, CalendarOK, RemindersOK, CalendarAssumption
  <2>2. ASSUME NEW e \in 1..spent, Here(e)'
        PROVE  Here(e)
    BY <1>0, <1>9, <2>1, <2>2
  <2>3. ASSUME NEW r \in reminded \ reminded'
        PROVE  ~Here(r[1])'
    <3>1. r[1] \in old /\ r[1] <= spent /\ r[1] \in EventIds
      BY <1>0, <1>2, <2>1, <2>3
    <3> QED BY <1>0, <1>9, <3>1 DEF EventIds
  <2> QED BY <1>2, <1>11, <2>2, <2>3 DEF EventsGoOn
<1> QED BY <1>2, <1>3, <1>13, <1>14, <1>15, <1>16, RestSame DEF CalendarOK, FeedsOK

LEMMA RemindKeeps ==
  ASSUME CalendarOK, NEW t \in RemindTask, Formed(t), RemindStep(t) \/ Abandon(t), made' \in Nat
  PROVE  CalendarOK'
<1>0. /\ UNCHANGED eventVars /\ UNCHANGED feedVars /\ UNCHANGED setVars
  BY DEF RemindStep, SendReminder, RecordReminder, Abandon
<1>1. t.todo \subseteq EventIds \X Logins \X Logins
      /\ (t.at = "recording" => <<t.mail[1], t.mail[2]>> \in EventIds \X Logins)
  BY DEF RemindTask, Formed, RemindFormed
<1>2. RemindersOK'
  <2>1. ASSUME NEW d \in t.todo, NEW ok \in BOOLEAN, SendReminder(t, d, ok)
        PROVE  RemindersOK'
    BY <1>1, <2>1 DEF SendReminder, CalendarOK, RemindersOK
  <2>2. ASSUME t.at = "recording", NEW ok \in BOOLEAN, RecordReminder(t, ok)
        PROVE  RemindersOK'
    BY <1>1, <2>2 DEF RecordReminder, CalendarOK, RemindersOK
  <2>3. CASE Abandon(t)
    BY <1>1, <2>3 DEF Abandon, CalendarOK, RemindersOK
  <2> QED BY <2>1, <2>2, <2>3 DEF RemindStep
<1>3. ConflictsOK'
  BY <1>0, ConflictsSame DEF CalendarOK, eventVars, feedVars, Here, Live
<1> QED BY <1>0, <1>2, <1>3, EventsSame, FeedsSame, RestSame DEF CalendarOK, eventVars, feedVars

LEMMA CalendarStepKeeps ==
  ASSUME CalendarOK, NEW t \in Task, Formed(t), t.do = "resolve" => t.conflict.existing <= spent,
         CalendarStep(t) \/ Abandon(t), made' \in Nat
  PROVE  CalendarOK' /\ (t.do # "remind" => EventsGoOn)
<1>0. CalendarOK /\ Formed(t) /\ made' \in Nat
  OBVIOUS
<1>1. CASE t.do = "create" /\ CreateStep(t)
  BY <1>0, <1>1, CalendarKinds, CreateKeeps
<1>2. CASE t.do = "delete" /\ DeleteStep(t)
  BY <1>0, <1>2, CalendarKinds, DeleteKeeps
<1>3. CASE t.do = "refresh" /\ RefreshStep(t)
  BY <1>0, <1>3, CalendarKinds, RefreshKeeps
<1>4. CASE t.do = "resolve" /\ ResolveConflict(t)
  BY <1>0, <1>4, CalendarKinds, ResolveKeeps
<1>5. CASE t.do = "remind" /\ (RemindStep(t) \/ Abandon(t))
  BY <1>0, <1>5, CalendarKinds, RemindKeeps
<1>6. CASE t.do # "remind" /\ Abandon(t)
  <2>1. UNCHANGED calendarVars
    BY <1>6 DEF Abandon, calendarVars, remindVars
  <2> QED BY <1>0, <2>1, CalendarSame
<1> QED BY <1>1, <1>2, <1>3, <1>4, <1>5, <1>6 DEF CalendarStep

-----------------------------------------------------------------------------
(* Reminders.                                                              *)

Reminding == Doing({"remind"})
LEMMA OnMinds ==
  ASSUME TasksOK, NEW t \in tasks, t.do = "remind"
  PROVE  OnMind(t) \subseteq EventIds \X Logins \X Logins
<1>1. t \in RemindTask /\ RemindFormed(t)
  BY CalendarKinds DEF TasksOK, Formed
<1> QED BY <1>1 DEF RemindTask, RemindFormed, OnMind

\* Next to whatever else is done.
LEMMA MailsSame ==
  ASSUME CalendarOK, CalendarOK', TasksOK, MailsKnown, RemindedOnce, EventsGoOn, Reminding' = Reminding
  PROVE  MailsKnown' /\ RemindedOnce'
<1>0. /\ \A t : t \in tasks' /\ t.do = "remind" <=> t \in tasks /\ t.do = "remind"
      /\ mailed' = mailed /\ again' = again /\ doubted' = doubted
  BY DEF Reminding, Doing, EventsGoOn
<1>a. spent \in Nat /\ spent' \in Nat /\ spent <= spent'
  BY DEF CalendarOK, EventsOK, EventsGoOn
<1>b. \A d \in mailed : d[1] \in 1..spent
  BY <1>a DEF CalendarOK, RemindersOK, MailsKnown, EventIds
<1>1. ASSUME NEW d \in mailed'
      PROVE  /\ \/ <<d[1], d[2]>> \in reminded' \cup doubted'
                \/ ~Here(d[1])'
                \/ \E t \in tasks' : t.do = "remind" /\ t.at = "recording" /\ t.mail = d
             /\ d[1] <= spent'
  <2>0. d \in mailed /\ d[1] \in 1..spent
    BY <1>0, <1>1, <1>b
  <2>a. d[1] <= spent'
    BY <1>a, <2>0
  <2>1. CASE <<d[1], d[2]>> \in reminded \ reminded'
    <3>1. ~Here(<<d[1], d[2]>>[1])'
      BY <2>1 DEF EventsGoOn
    <3> QED BY <2>a, <3>1
  <2>2. CASE <<d[1], d[2]>> \in reminded' \cup doubted
    BY <1>0, <2>a, <2>2
  <2>3. CASE ~Here(d[1])
    BY <2>0, <2>a, <2>3 DEF EventsGoOn
  <2>4. CASE \E t \in tasks : t.do = "remind" /\ t.at = "recording" /\ t.mail = d
    BY <1>0, <2>a, <2>4
  <2> QED BY <2>0, <2>1, <2>2, <2>3, <2>4 DEF MailsKnown
<1>2. ASSUME NEW t \in tasks', t.do = "remind", NEW d \in OnMind(t)
      PROVE  d[1] <= spent'
  <2>1. t \in tasks /\ d \in EventIds \X Logins \X Logins
    BY <1>0, <1>2, OnMinds
  <2>2. d[1] <= spent /\ d[1] \in Nat
    BY <1>2, <2>1 DEF MailsKnown, EventIds
  <2> QED BY <1>a, <2>2
<1>3. ASSUME NEW t \in tasks', t.do = "remind"
      PROVE  /\ \A d \in t.todo \cap mailed' : <<d[1], d[2]>> \in doubted'
             /\ \A o \in tasks' \ {t} : o.do = "remind" =>
                   \A d \in OnMind(t) \cap OnMind(o) : <<d[1], d[2]>> \in doubted'
  <2>1. t \in tasks /\ t.do = "remind"
    BY <1>0, <1>3
  <2>2. \A o \in tasks' \ {t} : o.do = "remind" => o \in tasks \ {t}
    BY <1>0
  <2> QED BY <1>0, <2>1, <2>2 DEF MailsKnown
<1>4. MailsKnown'
  BY <1>1, <1>2, <1>3 DEF MailsKnown
<1> QED BY <1>0, <1>4 DEF RemindedOnce

\* A run begins: what another is about to send already is doubted.
LEMMA SendRemindersMails ==
  ASSUME CalendarOK, TasksOK, MailsKnown, RemindedOnce, SendReminders
  PROVE  MailsKnown' /\ RemindedOnce'
<1> DEFINE minds == UNION {OnMind(t) : t \in {o \in tasks : o.do = "remind"}}
<1>0. made \in Nat
  BY DEF CalendarOK, RestOK
<1>1. PICK u \in RemindTask : Starts(u) /\ u.at = "sending" /\ u.todo = dueCandidates /\ u.do = "remind"
  BY <1>0, RemindBegins
<1>2. /\ tasks' = tasks \cup {u} /\ UNCHANGED <<reminded, mailed, again>> /\ UNCHANGED eventVars
      /\ doubted' = doubted \cup {<<d[1], d[2]>> : d \in dueCandidates \cap minds}
  BY <1>1 DEF Starts, SendReminders
<1>3. OnMind(u) = dueCandidates
  BY <1>1 DEF OnMind
<1>4. \A d \in dueCandidates : /\ d[1] \in EventIds /\ d[1] <= spent /\ Here(d[1])
                               /\ <<d[1], d[2]>> \notin reminded
  <2> SUFFICES ASSUME NEW d \in dueCandidates
               PROVE  /\ d[1] \in EventIds /\ d[1] <= spent /\ Here(d[1])
                      /\ <<d[1], d[2]>> \notin reminded
    OBVIOUS
  <2>1. /\ d[1] \in EventIds /\ event[d[1]].status = "published"
        /\ <<d[1], d[2]>> \notin reminded
    BY DEF dueCandidates
  <2>2. spent \in Nat /\ (d[1] > spent => event[d[1]].status = "none") /\ d[1] \in Nat
    BY <2>1, CalendarAssumption DEF CalendarOK, EventsOK, EventIds, CalendarAssumption
  <2>3. d[1] <= spent
    BY <2>1, <2>2
  <2> QED BY <2>1, <2>3 DEF Here
<1>5. \A d \in dueCandidates \cap mailed : <<d[1], d[2]>> \in doubted'
  <2> SUFFICES ASSUME NEW d \in dueCandidates, d \in mailed, <<d[1], d[2]>> \notin doubted
               PROVE  d \in minds
    BY <1>2
  <2>1. PICK t \in tasks : t.do = "remind" /\ t.at = "recording" /\ t.mail = d
    BY <1>4 DEF MailsKnown
  <2> QED BY <2>1 DEF OnMind
<1>6. \A d \in mailed' :
         /\ \/ <<d[1], d[2]>> \in reminded' \cup doubted'
            \/ ~Here(d[1])'
            \/ \E t \in tasks' : t.do = "remind" /\ t.at = "recording" /\ t.mail = d
         /\ d[1] <= spent'
  BY <1>2 DEF MailsKnown, eventVars, Here
<1>7. ASSUME NEW t \in tasks', t.do = "remind"
      PROVE  /\ \A d \in OnMind(t) : d[1] <= spent'
             /\ \A d \in t.todo \cap mailed' : <<d[1], d[2]>> \in doubted'
  <2>1. CASE t \in tasks
    BY <1>2, <1>7, <2>1 DEF MailsKnown, eventVars
  <2>2. CASE t = u
    BY <1>1, <1>2, <1>3, <1>4, <1>5, <2>2 DEF eventVars
  <2> QED BY <1>2, <2>1, <2>2
<1>8. ASSUME NEW t \in tasks', t.do = "remind", NEW o \in tasks' \ {t}, o.do = "remind",
             NEW d \in OnMind(t) \cap OnMind(o)
      PROVE  <<d[1], d[2]>> \in doubted'
  <2>1. CASE t \in tasks /\ o \in tasks
    BY <1>2, <1>8, <2>1 DEF MailsKnown
  <2>2. CASE t \in tasks /\ o = u
    BY <1>2, <1>3, <1>8, <2>2
  <2>3. CASE t = u /\ o \in tasks
    BY <1>2, <1>3, <1>8, <2>3
  <2> QED BY <1>2, <1>8, <2>1, <2>2, <2>3
<1> QED BY <1>2, <1>6, <1>7, <1>8 DEF MailsKnown, RemindedOnce

\* A run goes on with no more on its mind than it had; what it has sent it
\* records, or its record is doubted.
LEMMA RunGoesOn ==
  ASSUME MailsKnown, UNCHANGED eventVars, NEW t \in tasks, t.do = "remind",
         NEW u \in RemindTask, Goes(t, u), OnMind(u) \subseteq OnMind(t), u.todo \subseteq t.todo,
         reminded \subseteq reminded', doubted \subseteq doubted', mailed \subseteq mailed',
         \A d \in mailed' \ mailed : d \in OnMind(t) /\ d \notin u.todo /\ u.at = "recording" /\ u.mail = d,
         t.at = "recording" => <<t.mail[1], t.mail[2]>> \in reminded' \cup doubted'
  PROVE  MailsKnown'
<1>0. /\ \A d : Here(d)' <=> Here(d)
      /\ spent' = spent /\ tasks' = (tasks \ {t}) \cup {u} /\ u.do = "remind"
  BY DEF eventVars, Here, Goes, RemindTask
<1>1. ASSUME NEW d \in mailed'
      PROVE  /\ \/ <<d[1], d[2]>> \in reminded' \cup doubted'
                \/ ~Here(d[1])'
                \/ \E o \in tasks' : o.do = "remind" /\ o.at = "recording" /\ o.mail = d
             /\ d[1] <= spent'
  <2>1. CASE d \notin mailed
    BY <1>0, <1>1, <2>1 DEF MailsKnown
  <2>2. CASE d \in mailed
    <3>1. d[1] <= spent'
      BY <1>0, <2>2 DEF MailsKnown
    <3>2. CASE <<d[1], d[2]>> \in reminded \cup doubted \/ ~Here(d[1])
      BY <1>0, <3>1, <3>2
    <3>3. ASSUME NEW o \in tasks, o.do = "remind", o.at = "recording", o.mail = d
          PROVE  \/ <<d[1], d[2]>> \in reminded' \cup doubted'
                 \/ \E q \in tasks' : q.do = "remind" /\ q.at = "recording" /\ q.mail = d
      BY <1>0, <3>3
    <3> QED BY <2>2, <3>1, <3>2, <3>3 DEF MailsKnown
  <2> QED BY <1>1, <2>1, <2>2
<1>2. ASSUME NEW o \in tasks', o.do = "remind"
      PROVE  /\ \A d \in OnMind(o) : d[1] <= spent'
             /\ \A d \in o.todo \cap mailed' : <<d[1], d[2]>> \in doubted'
  <2>1. CASE o \in tasks \ {t}
    <3>1. \A d \in OnMind(o) : d[1] <= spent'
      BY <1>0, <1>2, <2>1 DEF MailsKnown
    <3>2. ASSUME NEW d \in o.todo, d \in mailed' \ mailed
          PROVE  <<d[1], d[2]>> \in doubted
      <4>1. d \in OnMind(o) /\ d \in OnMind(t)
        BY <3>2 DEF OnMind
      <4> QED BY <1>2, <2>1, <4>1 DEF MailsKnown
    <3>3. \A d \in o.todo \cap mailed : <<d[1], d[2]>> \in doubted
      BY <1>2, <2>1 DEF MailsKnown
    <3> QED BY <3>1, <3>2, <3>3
  <2>2. CASE o = u
    <3>1. \A d \in OnMind(o) : d[1] <= spent'
      BY <1>0, <1>2, <2>2 DEF MailsKnown
    <3>2. \A d \in t.todo \cap mailed : <<d[1], d[2]>> \in doubted
      BY DEF MailsKnown
    <3> QED BY <1>2, <2>2, <3>1, <3>2
  <2> QED BY <1>0, <2>1, <2>2
<1>3. ASSUME NEW o \in tasks', o.do = "remind", NEW q \in tasks' \ {o}, q.do = "remind",
             NEW d \in OnMind(o) \cap OnMind(q)
      PROVE  <<d[1], d[2]>> \in doubted'
  <2>1. CASE o \in tasks \ {t} /\ q \in tasks \ {t}
    BY <1>3, <2>1 DEF MailsKnown
  <2>2. CASE o \in tasks \ {t} /\ q = u
    <3>1. d \in OnMind(t) \cap OnMind(o)
      BY <1>3, <2>2
    <3> QED BY <1>3, <2>2, <3>1 DEF MailsKnown
  <2>3. CASE o = u /\ q \in tasks \ {t}
    <3>1. d \in OnMind(t) \cap OnMind(q)
      BY <1>3, <2>3
    <3> QED BY <1>3, <2>3, <3>1 DEF MailsKnown
  <2> QED BY <1>0, <1>3, <2>1, <2>2, <2>3
<1> QED BY <1>1, <1>2, <1>3 DEF MailsKnown

LEMMA RunEnds ==
  ASSUME MailsKnown, UNCHANGED eventVars, NEW t \in tasks, t.do = "remind", Abandon(t)
  PROVE  MailsKnown'
<1>0. /\ \A d : Here(d)' <=> Here(d)
      /\ spent' = spent /\ tasks' = tasks \ {t} /\ UNCHANGED <<reminded, mailed>>
      /\ doubted \subseteq doubted' /\ (t.at = "recording" => <<t.mail[1], t.mail[2]>> \in doubted')
  BY DEF eventVars, Here, Abandon, Ends
<1>1. ASSUME NEW d \in mailed'
      PROVE  /\ \/ <<d[1], d[2]>> \in reminded' \cup doubted'
                \/ ~Here(d[1])'
                \/ \E o \in tasks' : o.do = "remind" /\ o.at = "recording" /\ o.mail = d
             /\ d[1] <= spent'
  <2>1. d[1] <= spent'
    BY <1>0, <1>1 DEF MailsKnown
  <2>2. ASSUME NEW o \in tasks, o.do = "remind", o.at = "recording", o.mail = d
        PROVE  \/ <<d[1], d[2]>> \in doubted'
               \/ \E q \in tasks' : q.do = "remind" /\ q.at = "recording" /\ q.mail = d
    BY <1>0, <2>2
  <2> QED BY <1>0, <1>1, <2>1, <2>2 DEF MailsKnown
<1>2. \A o \in tasks' : o.do = "remind" => o \in tasks /\ o.do = "remind"
  BY <1>0
<1>3. ASSUME NEW o \in tasks', o.do = "remind"
      PROVE  /\ \A d \in OnMind(o) : d[1] <= spent'
             /\ \A d \in o.todo \cap mailed' : <<d[1], d[2]>> \in doubted'
  BY <1>0, <1>2, <1>3 DEF MailsKnown
<1>4. ASSUME NEW o \in tasks', o.do = "remind", NEW q \in tasks' \ {o}, q.do = "remind",
             NEW d \in OnMind(o) \cap OnMind(q)
      PROVE  <<d[1], d[2]>> \in doubted'
  BY <1>0, <1>2, <1>4 DEF MailsKnown
<1> QED BY <1>1, <1>3, <1>4 DEF MailsKnown

LEMMA RemindStepMails ==
  ASSUME MailsKnown, RemindedOnce, NEW t \in tasks, t \in RemindTask, Formed(t),
         RemindStep(t) \/ Abandon(t)
  PROVE  MailsKnown' /\ RemindedOnce'
<1>0. t.do = "remind" /\ UNCHANGED eventVars
  BY DEF RemindTask, RemindStep, SendReminder, RecordReminder, Abandon
<1>1. ASSUME t.at = "sending", NEW d \in t.todo, NEW ok \in BOOLEAN, SendReminder(t, d, ok)
      PROVE  MailsKnown' /\ RemindedOnce'
  <2>1. PICK u \in RemindTask : /\ Goes(t, u) /\ u.todo = t.todo \ {d}
                                /\ u.at = (IF ok THEN "recording" ELSE "sending") /\ (ok => u.mail = d)
    BY <1>1, RemindGoes
  <2>2. /\ UNCHANGED <<reminded, doubted>>
        /\ IF ok THEN mailed' = mailed \cup {d} /\ again' = IF d \in mailed THEN again \cup {d} ELSE again
           ELSE UNCHANGED <<mailed, again>>
    BY <1>1 DEF SendReminder
  <2>3. OnMind(u) \subseteq OnMind(t) /\ d \in OnMind(t)
    BY <1>1, <2>1 DEF OnMind
  <2>4. /\ u.todo \subseteq t.todo /\ mailed \subseteq mailed'
        /\ \A m \in mailed' \ mailed : m \in OnMind(t) /\ m \notin u.todo /\ u.at = "recording" /\ u.mail = m
    BY <2>1, <2>2, <2>3
  <2>5. MailsKnown'
    BY <1>0, <1>1, <2>1, <2>2, <2>3, <2>4, RunGoesOn
  <2>6. d \in mailed => <<d[1], d[2]>> \in doubted
    BY <1>0, <1>1 DEF MailsKnown
  <2> QED BY <2>2, <2>5, <2>6 DEF RemindedOnce
<1>2. ASSUME t.at = "recording", NEW ok \in BOOLEAN, RecordReminder(t, ok)
      PROVE  MailsKnown' /\ RemindedOnce'
  <2>1. PICK u \in RemindTask : Goes(t, u) /\ u.todo = t.todo /\ u.at = "sending"
    BY <1>2, RecordGoes
  <2>2. /\ UNCHANGED <<mailed, again>> /\ reminded \subseteq reminded' /\ doubted \subseteq doubted'
        /\ <<t.mail[1], t.mail[2]>> \in reminded' \cup doubted'
    BY <1>2 DEF RecordReminder
  <2>3. OnMind(u) \subseteq OnMind(t)
    BY <2>1 DEF OnMind
  <2>4. MailsKnown'
    BY <1>0, <2>1, <2>2, <2>3, RunGoesOn
  <2> QED BY <2>2, <2>4 DEF RemindedOnce
<1>3. ASSUME Abandon(t)
      PROVE  MailsKnown' /\ RemindedOnce'
  <2>1. UNCHANGED again /\ doubted \subseteq doubted'
    BY <1>3 DEF Abandon
  <2> QED BY <1>0, <1>3, <2>1, RunEnds DEF RemindedOnce
<1> QED BY <1>1, <1>2, <1>3 DEF RemindStep

-----------------------------------------------------------------------------
(* Rulings.                                                                *)

\* What is asked for has looked at nothing yet but the conflict it is about.
LEMMA NewTasks ==
  ASSUME CalendarRequest, NEW u \in tasks', u \notin tasks
  PROVE  /\ u.do = "refresh" => u.at = "fetching"
         /\ u.do = "resolve" => u.conflict \in conflicts
<1>1. ASSUME NEW f \in Feeds, NEW rest \in SUBSET Feeds, Starts(Refresh(f, rest))
      PROVE  u.do = "refresh" /\ u.at = "fetching"
  BY <1>1 DEF Starts, Refresh
<1>2. ASSUME NEW x \in Logins, NEW s \in Slots, NEW g \in Groups \cup {NoGroup},
             NEW public \in BOOLEAN, NEW n \in 1..MaxRepeats, CalendarCreate(x, s, g, public, n)
      PROVE  u.do = "create"
  BY <1>2 DEF CalendarCreate, Starts
<1>3. ASSUME NEW x \in Logins, NEW e \in EventIds, CalendarDelete(x, e)
      PROVE  u.do = "delete"
  BY <1>3 DEF CalendarDelete, Starts
<1>4. ASSUME NEW x \in Logins, NEW c \in conflicts, NEW d \in Rulings, AdminCalendarConflictResolve(x, c, d)
      PROVE  u.do = "resolve" /\ u.conflict \in conflicts
  BY <1>4 DEF AdminCalendarConflictResolve, Starts
<1>5. ASSUME SendReminders
      PROVE  u.do = "remind"
  BY <1>5 DEF SendReminders, Starts
<1>6. ASSUME NEW x \in Logins, NEW f \in Feeds, NEW public \in BOOLEAN, AdminCalendarFeedAdd(x, f, public)
      PROVE  u.do = "refresh" /\ u.at = "fetching"
  BY <1>1, <1>6 DEF AdminCalendarFeedAdd
<1>7. ASSUME NEW x \in Logins, NEW f \in Feeds, AdminCalendarFeedRefresh(x, f)
      PROVE  u.do = "refresh" /\ u.at = "fetching"
  BY <1>1, <1>7 DEF AdminCalendarFeedRefresh
<1>8. ASSUME RefreshAllFeeds
      PROVE  u.do = "refresh" /\ u.at = "fetching"
  BY <1>1, <1>8 DEF RefreshAllFeeds
<1>9. tasks' # tasks
  OBVIOUS
<1>10. ASSUME NEW x \in Logins, NEW e \in EventIds, NEW approve \in BOOLEAN, Decide(x, e, approve)
       PROVE  FALSE
  BY <1>9, <1>10 DEF Decide, AtOnce
<1>11. ASSUME NEW x \in Logins, NEW e \in EventIds, NEW s \in Slots, NEW g \in Groups \cup {NoGroup},
              NEW public \in BOOLEAN, CalendarUpdate(x, e, s, g, public)
       PROVE  FALSE
  BY <1>9, <1>11 DEF CalendarUpdate, Update, AtOnce
<1>12. ASSUME NEW x \in Logins, NEW e \in EventIds, NEW r \in Responses \ {"none"}, CalendarRSVP(x, e, r)
       PROVE  FALSE
  BY <1>9, <1>12 DEF CalendarRSVP, SetRSVP, AtOnce
<1>13. ASSUME NEW x \in Logins, NEW f \in Feeds, NEW enabled \in BOOLEAN, AdminCalendarFeedToggle(x, f, enabled)
       PROVE  FALSE
  BY <1>9, <1>13 DEF AdminCalendarFeedToggle, SetFeedEnabled, AtOnce
<1>14. ASSUME NEW x \in Logins, NEW f \in Feeds, AdminCalendarFeedDelete(x, f)
       PROVE  FALSE
  BY <1>9, <1>14 DEF AdminCalendarFeedDelete, DeleteFeed, AtOnce
<1>15. ASSUME NEW f \in Feeds, NEW v \in Uids, NEW s \in 0..Absent, Offers(f, v, s)
       PROVE  FALSE
  BY <1>9, <1>15 DEF Offers, AtOnce
<1>16. ASSUME NEW x \in Logins, CalendarSubscribeRegenerate(x) \/ CalendarSubscribeRemove(x) \/ Leaves(x)
       PROVE  FALSE
  BY <1>9, <1>16 DEF CalendarSubscribeRegenerate, CalendarSubscribeRemove, Leaves, AtOnce
<1>17. ASSUME Tick
       PROVE  FALSE
  BY <1>9, <1>17 DEF Tick, AtOnce
<1> QED BY <1>2, <1>3, <1>4, <1>5, <1>6, <1>7, <1>8, <1>10, <1>11, <1>12, <1>13, <1>14, <1>15, <1>16,
           <1>17 DEF CalendarRequest

\* No event or conflict comes of an entry that stays ruled out.
Ruled == ignored \ kept
Nothing ==
    /\ ignored' \ kept' \subseteq Ruled
    /\ \A c \in conflicts' : c \in conflicts \/ <<c.feed, c.uid>> \notin Ruled
    /\ \A e \in EventIds : Here(e)' =>
          \/ Here(e) /\ event'[e].feed = event[e].feed /\ event'[e].uid = event[e].uid
          \/ <<event'[e].feed, event'[e].uid>> \notin Ruled

LEMMA NothingComes ==
  ASSUME RulingsHold, FeedsOK, Nothing
  PROVE  RulingsHold'
<1> SUFFICES ASSUME NEW i \in ignored' \ kept'
             PROVE  Imported(i[1], i[2])' = {} /\ Held(i[1], i[2])' = {}
  BY DEF RulingsHold
<1>1. i \in Ruled /\ i = <<i[1], i[2]>> /\ Imported(i[1], i[2]) = {} /\ Held(i[1], i[2]) = {}
  <2>1. i \in Ruled
    BY DEF Nothing
  <2>2. i \in Feeds \X Uids
    BY <2>1 DEF Ruled, FeedsOK
  <2> QED BY <2>1, <2>2 DEF RulingsHold, Ruled
<1>2. ASSUME NEW e \in Imported(i[1], i[2])'
      PROVE  FALSE
  <2>1. e \in EventIds /\ Here(e)' /\ event'[e].feed = i[1] /\ event'[e].uid = i[2]
    BY <1>2 DEF Imported, EventsOf
  <2>2. Here(e) /\ event[e].feed = i[1] /\ event[e].uid = i[2]
    BY <1>1, <2>1 DEF Nothing
  <2> QED BY <1>1, <2>1, <2>2 DEF Imported, EventsOf
<1>3. ASSUME NEW c \in Held(i[1], i[2])'
      PROVE  FALSE
  <2>1. c \in conflicts' /\ c.feed = i[1] /\ c.uid = i[2]
    BY <1>3 DEF Held
  <2> QED BY <1>1, <2>1 DEF Nothing, Held
<1> QED BY <1>2, <1>3

LEMMA NothingSame ==
  ASSUME UNCHANGED <<event, conflicts, ignored, kept>>
  PROVE  Nothing
BY DEF Nothing, Ruled, Here

LEMMA DropsNothing ==
  ASSUME NEW es \in SUBSET EventIds, DropEvents(es), kept' = kept, ignored' \subseteq ignored,
         conflicts' \subseteq conflicts
  PROVE  Nothing
<1>1. \A e \in EventIds : Here(e)' => Here(e) /\ event'[e] = event[e]
  BY DEF DropEvents, Here, NoSuchEvent, MkEvent
<1> QED BY <1>1 DEF Nothing, Ruled

LEMMA RequestRulings ==
  ASSUME CalendarOK, CalendarRequest
  PROVE  Nothing
<1>0. CalendarOK
  OBVIOUS
<1>1. CASE UNCHANGED <<event, conflicts, ignored, kept>>
  BY <1>1, NothingSame
<1>2. ASSUME NEW x \in Logins, NEW e \in EventIds, NEW approve \in BOOLEAN, Decide(x, e, approve)
      PROVE  Nothing
  <2>1. /\ UNCHANGED <<conflicts, ignored, kept>>
        /\ \/ event' = event
           \/ Here(e) /\ event' = [event EXCEPT ![e].status = IF approve THEN "published" ELSE "rejected"]
    BY <1>2 DEF Decide, feedVars
  <2>2. \A d \in EventIds : /\ Here(d)' => Here(d)
                            /\ event'[d].feed = event[d].feed /\ event'[d].uid = event[d].uid
    BY <1>0, <2>1 DEF CalendarOK, EventsOK, Event, Here
  <2> QED BY <2>1, <2>2 DEF Nothing, Ruled
<1>3. ASSUME NEW x \in Logins, NEW e \in EventIds, NEW s \in Slots, NEW g \in Groups \cup {NoGroup},
             NEW public \in BOOLEAN, CalendarUpdate(x, e, s, g, public)
      PROVE  Nothing
  <2>0. PICK open : Update(e, s, g, open)
    BY <1>3 DEF CalendarUpdate
  <2>1. /\ UNCHANGED <<conflicts, ignored, kept>> /\ Here(e)
        /\ event' = [event EXCEPT ![e].slot = s, ![e].group = g, ![e].public = open]
    BY <2>0 DEF Update, feedVars
  <2> DEFINE row == [event[e] EXCEPT !.slot = s, !.group = g, !.public = open]
  <2>2. event' = [event EXCEPT ![e] = row] /\ row.feed = event[e].feed /\ row.uid = event[e].uid
    BY <1>0, <2>1 DEF CalendarOK, EventsOK, Event
  <2> HIDE DEF row
  <2>3. \A d \in EventIds : /\ Here(d)' => Here(d)
                            /\ event'[d].feed = event[d].feed /\ event'[d].uid = event[d].uid
    BY <1>0, <2>1, <2>2 DEF CalendarOK, EventsOK, Here
  <2> QED BY <2>1, <2>3 DEF Nothing, Ruled
<1>4. ASSUME NEW x \in Logins, NEW f \in Feeds, AdminCalendarFeedDelete(x, f)
      PROVE  Nothing
  <2>1. /\ DropEvents(EventsOf(f)) /\ kept' = kept /\ ignored' \subseteq ignored /\ conflicts' \subseteq conflicts
    BY <1>4 DEF AdminCalendarFeedDelete, DeleteFeed
  <2>2. EventsOf(f) \in SUBSET EventIds
    BY DEF EventsOf
  <2> QED BY <2>1, <2>2, DropsNothing
<1> QED BY <1>1, <1>2, <1>3, <1>4
        DEF CalendarRequest, CalendarCreate, CalendarDelete, CalendarRSVP, SetRSVP, AdminCalendarFeedAdd,
            AddFeed, AdminCalendarFeedRefresh, RefreshAllFeeds, AdminCalendarFeedToggle, SetFeedEnabled,
            Offers, AdminCalendarConflictResolve, SendReminders, CalendarSubscribeRegenerate,
            CalendarSubscribeRemove, Leaves, Tick, calendarVars, eventVars, feedVars

\* A row that comes of none of these entries.
LEMMA AddsNothing ==
  ASSUME CalendarOK, NEW ev \in Event, <<ev.feed, ev.uid>> \notin Ruled, AddEvent(ev),
         UNCHANGED <<conflicts, ignored, kept>>
  PROVE  Nothing
<1>1. event' = [event EXCEPT ![spent + 1] = ev] /\ event \in [EventIds -> Event]
  BY DEF AddEvent, CalendarOK, EventsOK
<1>2. ASSUME NEW e \in EventIds, Here(e)'
      PROVE  \/ Here(e) /\ event'[e].feed = event[e].feed /\ event'[e].uid = event[e].uid
             \/ <<event'[e].feed, event'[e].uid>> \notin Ruled
  BY <1>1, <1>2 DEF Here
<1> QED BY <1>2 DEF Nothing, Ruled

LEMMA RefreshRulings ==
  ASSUME CalendarOK, RulingsKnown, NEW t \in tasks, t \in RefreshTask, Formed(t), RefreshStep(t)
  PROVE  Nothing
<1>0. /\ CalendarOK /\ t.do = "refresh" /\ t.feed \in Feeds /\ RefreshFormed(t) /\ Seen(t) \subseteq Uids
      /\ t.offer \in [Uids -> 0..Absent] /\ t.existing \in [Uids -> 0..MaxEvents] /\ t.uids \subseteq Uids
  BY DEF RefreshTask, Formed, Seen
<1>1. CASE UNCHANGED <<event, conflicts, ignored, kept>>
  BY <1>1, NothingSame
<1>2. ASSUME t.at = "importing", NEW u \in t.uids, Import(t, u)
      PROVE  Nothing
  <2>1. UNCHANGED <<conflicts, ignored, kept>>
      /\ \/ event' = event
         \/ \E e \in EventIds : \E s : Here(e) /\ event' = [event EXCEPT ![e].slot = s]
    <3>1. CASE UNCHANGED calendarVars
      BY <3>1 DEF calendarVars, eventVars, feedVars
    <3>2. CASE event' = (IF Here(t.existing[u]) THEN [event EXCEPT ![t.existing[u]].slot = t.offer[u]] ELSE event)
               /\ UNCHANGED feedVars
      BY <3>2 DEF feedVars, Here
    <3> QED BY <1>2, <3>1, <3>2 DEF Import
  <2>2. \A d \in EventIds : /\ Here(d)' => Here(d)
                            /\ event'[d].feed = event[d].feed /\ event'[d].uid = event[d].uid
    BY <1>0, <2>1 DEF CalendarOK, EventsOK, Event, Here
  <2> QED BY <2>1, <2>2 DEF Nothing, Ruled
<1>3. t.at \in {"holding", "inserting"} => <<t.feed, t.uid>> \notin Ruled /\ t.uid \in Uids
  BY <1>0 DEF RefreshFormed, RulingsKnown, Ruled, Reading
<1>4. CASE t.at = "holding" /\ recordConflict(t)
  <2>1. CASE UNCHANGED calendarVars
    BY <1>1, <2>1 DEF calendarVars, eventVars, feedVars
  <2>2. ASSUME NEW id, conflicts' = (conflicts \ {c \in conflicts : c.feed = t.feed /\ c.uid = t.uid}) \cup
                          {[id |-> id, feed |-> t.feed, uid |-> t.uid, slot |-> t.offer[t.uid],
                            existing |-> t.clash]},
               UNCHANGED <<event, ignored, kept>>
        PROVE  Nothing
    BY <1>3, <1>4, <2>2 DEF Nothing, Ruled, Here
  <2> QED BY <1>4, <2>1, <2>2 DEF recordConflict, eventVars
<1>5. CASE t.at = "inserting" /\ InsertImported(t)
  <2> DEFINE ev == MkEvent("published", t.offer[t.uid], NoGroup, feed[t.feed].public, t.feed, t.uid)
  <2>1. CASE UNCHANGED eventVars /\ UNCHANGED feedVars
    BY <1>1, <2>1 DEF eventVars, feedVars
  <2>2. CASE AddEvent(ev) /\ UNCHANGED feedVars
    <3>1. ev \in Event /\ <<ev.feed, ev.uid>> \notin Ruled
      <4>1. t.offer[t.uid] \in Slots
        BY <1>0, <1>5 DEF RefreshFormed, Seen
      <4> QED BY <1>0, <1>3, <1>5, <4>1 DEF MkEvent, Event, Statuses, CalendarOK, FeedsOK
    <3> HIDE DEF ev
    <3> QED BY <1>0, <2>2, <3>1, AddsNothing DEF feedVars
  <2> QED BY <1>5, <2>1, <2>2 DEF InsertImported, calendarVars
<1>6. ASSUME NEW ok \in BOOLEAN, ClearConflicts(t, ok)
      PROVE  Nothing
  BY <1>6 DEF ClearConflicts, Nothing, Ruled, eventVars, Here
<1>7. ASSUME NEW u \in t.uids, RemoveGone(t, u)
      PROVE  Nothing
  <2> DEFINE gone == EventsOf(t.feed) \cap {t.existing[u]}
  <2>1. DropEvents(gone) /\ kept' = kept /\ ignored' = ignored /\ conflicts' \subseteq conflicts
    BY <1>7 DEF RemoveGone
  <2>2. gone \in SUBSET EventIds
    BY DEF EventsOf
  <2> QED BY <2>1, <2>2, DropsNothing
<1> QED BY <1>1, <1>2, <1>4, <1>5, <1>6, <1>7
        DEF RefreshStep, fetchFeed, ReadExisting, ignoredUIDs, RefreshDone, RefreshFails, calendarVars,
            eventVars, feedVars

\* What the rulings ask of one task.
Knows(t) ==
    \A i \in Ruled :
        /\ t.do = "refresh" /\ t.feed = i[1] /\ t.at \in Reading => i[2] \in t.ignoring
        /\ t.do = "resolve" => <<t.conflict.feed, t.conflict.uid>> # i
LEMMA KnownStays ==
  ASSUME RulingsKnown, ignored' \ kept' \subseteq Ruled, \A u \in tasks' : u \in tasks \/ Knows(u)
  PROVE  RulingsKnown'
BY DEF RulingsKnown, Knows, Ruled

LEMMA RequestKnown ==
  ASSUME CalendarOK, RulingsHold, RulingsKnown, CalendarRequest
  PROVE  RulingsHold' /\ RulingsKnown'
<1>1. Nothing
  BY RequestRulings
<1>2. ASSUME NEW u \in tasks', u \notin tasks
      PROVE  Knows(u)
  <2>1. u.do = "refresh" => u.at = "fetching"
    BY <1>2, NewTasks
  <2>2. ASSUME u.do = "resolve", NEW i \in Ruled
        PROVE  <<u.conflict.feed, u.conflict.uid>> # i
    <3>1. u.conflict \in conflicts
      BY <1>2, <2>2, NewTasks
    <3>2. Held(i[1], i[2]) = {}
      BY DEF Ruled, RulingsHold
    <3> QED BY <3>1, <3>2 DEF Held
  <2> QED BY <2>1, <2>2 DEF Knows, Reading
<1> QED BY <1>1, <1>2, NothingComes, KnownStays DEF CalendarOK, Nothing

LEMMA RefreshKnown ==
  ASSUME CalendarOK, CalendarTypeOK, RulingsHold, RulingsKnown, NEW t \in tasks, t \in RefreshTask, Formed(t),
         RefreshStep(t)
  PROVE  RulingsHold' /\ RulingsKnown'
<1>1. Nothing
  BY RefreshRulings
<1>2. RefreshTurns(t) /\ t.do = "refresh"
  BY RefreshStepTurns DEF RefreshTask, CalendarTypeOK
<1>3. ASSUME NEW u \in RefreshTask, Reads(t, u)
      PROVE  Knows(u)
  <2>1. ASSUME NEW i \in Ruled, u.feed = i[1], u.at \in Reading
        PROVE  i[2] \in u.ignoring
    <3>1. i \in Feeds \X Uids /\ i \in ignored
      BY <2>1 DEF Ruled, CalendarOK, FeedsOK
    <3>2. CASE t.at \in Reading
      BY <1>2, <1>3, <2>1, <3>2 DEF Reads, RulingsKnown, Ruled
    <3>3. CASE t.at \notin Reading
      <4>1. <<t.feed, i[2]>> \in ignored /\ i[2] \in Uids
        BY <1>3, <2>1, <3>1 DEF Reads
      <4> QED BY <1>3, <2>1, <3>3, <4>1 DEF Reads
    <3> QED BY <3>2, <3>3
  <2>2. u.do = "refresh"
    BY DEF RefreshTask
  <2> QED BY <2>1, <2>2 DEF Knows
<1>4. \A u \in tasks' : u \in tasks \/ Knows(u)
  BY <1>2, <1>3 DEF RefreshTurns, Ends, Goes
<1> QED BY <1>1, <1>4, NothingComes, KnownStays DEF CalendarOK, Nothing

LEMMA ResolveKnown ==
  ASSUME CalendarOK, RulingsHold, RulingsKnown, NEW t \in tasks, t \in ResolveTask, ResolveConflict(t)
  PROVE  RulingsHold' /\ RulingsKnown'
<1> DEFINE c == t.conflict
           old == IF t.decision = "replace" THEN {c.existing} ELSE {}
           rest == {d \in conflicts : d.existing \notin old /\ <<d.id, d.feed, d.uid>> # <<c.id, c.feed, c.uid>>}
           add == t.decision # "skip" /\ Imported(c.feed, c.uid) \ old = {}
           added == MkEvent("published", c.slot, NoGroup, feed[c.feed].public, c.feed, c.uid)
           p == <<c.feed, c.uid>>
<1>0. t.do = "resolve" /\ p \notin Ruled /\ p \in Feeds \X Uids /\ event \in [EventIds -> Event]
  BY DEF ResolveTask, Conflict, RulingsKnown, Ruled, CalendarOK, EventsOK
<1>1. /\ conflicts' = rest /\ tasks' = tasks \ {t}
      /\ event' = [e \in EventIds |-> IF add /\ e = spent + 1 THEN added
                                      ELSE IF e \in old THEN NoSuchEvent ELSE event[e]]
  BY DEF ResolveConflict, Ends
<1>2. added.feed = c.feed /\ added.uid = c.uid /\ NoSuchEvent.status = "none"
  BY DEF MkEvent, NoSuchEvent
<1>3. rest \subseteq conflicts
  OBVIOUS
<1>4. ASSUME NEW e \in EventIds, Here(e)'
      PROVE  \/ Here(e) /\ event'[e].feed = event[e].feed /\ event'[e].uid = event[e].uid
             \/ <<event'[e].feed, event'[e].uid>> = p
  <2> HIDE DEF add, added, old
  <2> QED BY <1>1, <1>2, <1>4 DEF Here
<1>5. CASE ignored' \ kept' \subseteq Ruled
  <2>1. Nothing
    BY <1>0, <1>1, <1>3, <1>4, <1>5 DEF Nothing
  <2> QED BY <1>1, <1>5, <2>1, NothingComes, KnownStays DEF CalendarOK
<1>6. CASE ~(ignored' \ kept' \subseteq Ruled)
  <2>1. t.decision = "skip"
    BY <1>6 DEF ResolveConflict, Ruled
  <2>2. /\ ignored' = ignored \cup {p} /\ kept' = kept
        /\ Imported(c.feed, c.uid) = {} /\ ~InHand(t, c)
        /\ ~ \E d \in rest : d.feed = c.feed /\ d.uid = c.uid
    BY <1>6, <2>1 DEF ResolveConflict, Ruled
  <2>3. ignored' \ kept' \subseteq Ruled \cup {p}
    BY <2>2 DEF Ruled
  <2>4. event' = event
    BY <1>0, <1>1, <2>1
  <2>5. ASSUME NEW i \in Ruled \cup {p}
        PROVE  Imported(i[1], i[2]) = {} /\ Held(i[1], i[2])' = {}
    <3>1. CASE i = p
      BY <1>1, <2>2, <3>1 DEF Held
    <3>2. CASE i \in Ruled
      BY <1>1, <1>3, <3>2 DEF Held, RulingsHold, Ruled
    <3> QED BY <3>1, <3>2
  <2>6. RulingsHold'
    BY <2>3, <2>4, <2>5 DEF RulingsHold, Imported, EventsOf, Here
  <2>7. ASSUME NEW i \in Ruled \cup {p}, NEW o \in tasks \ {t}
        PROVE  /\ o.do = "refresh" /\ o.feed = i[1] /\ o.at \in Reading => i[2] \in o.ignoring
               /\ o.do = "resolve" => <<o.conflict.feed, o.conflict.uid>> # i
    <3>1. CASE i = p
      BY <2>2, <3>1 DEF InHand
    <3>2. CASE i \in Ruled
      BY <3>2 DEF RulingsKnown, Ruled
    <3> QED BY <3>1, <3>2
  <2>8. RulingsKnown'
    BY <1>1, <2>3, <2>7 DEF RulingsKnown
  <2> QED BY <2>6, <2>8
<1> QED BY <1>5, <1>6

LEMMA StepKnown ==
  ASSUME CalendarOK, CalendarTypeOK, TasksOK, RulingsHold, RulingsKnown, NEW t \in tasks,
         CalendarStep(t) \/ Abandon(t)
  PROVE  RulingsHold' /\ RulingsKnown'
<1>0. t \in Task /\ Formed(t)
  BY DEF TasksOK
<1>1. CASE t.do = "refresh" /\ RefreshStep(t)
  BY <1>0, <1>1, CalendarKinds, RefreshKnown
<1>2. CASE t.do = "resolve" /\ ResolveConflict(t)
  BY <1>0, <1>2, CalendarKinds, ResolveKnown
<1>3. ASSUME Nothing, Ends(t) \/ \E u : Goes(t, u) /\ u.do \notin {"refresh", "resolve"}
      PROVE  RulingsHold' /\ RulingsKnown'
  <2>1. \A u \in tasks' : u \in tasks \/ Knows(u)
    BY <1>3 DEF Ends, Goes, Knows
  <2> QED BY <1>3, <2>1, NothingComes, KnownStays DEF CalendarOK, Nothing
<1>4. CASE Abandon(t)
  BY <1>3, <1>4, NothingSame DEF Abandon, eventVars, feedVars
<1>5. ASSUME t.do \in {"create", "delete", "remind"}, CalendarStep(t)
      PROVE  Ends(t) \/ \E u : Goes(t, u) /\ u.do \notin {"refresh", "resolve"}
  <2>1. GoesOn(t)
    BY <1>0, <1>5, CalendarGoesOn DEF CalendarOK, RestOK
  <2> QED BY <1>5, <2>1 DEF GoesOn
<1>6. CASE t.do = "create" /\ CreateStep(t)
  <2>1. Ends(t) \/ \E u : Goes(t, u) /\ u.do \notin {"refresh", "resolve"}
    BY <1>5, <1>6 DEF CalendarStep
  <2>2. t \in CreateTask
    BY <1>0, <1>6, CalendarKinds
  <2>3. CASE InsertOccurrence(t)
    <3> DEFINE ev == MkEvent(IF t.direct THEN "published" ELSE "pending_approval",
                             t.slot, t.group, t.public, NoFeed, NoUid)
    <3>1. AddEvent(ev) /\ UNCHANGED <<conflicts, ignored, kept>>
      BY <2>3 DEF InsertOccurrence, feedVars
    <3>2. ev \in Event /\ <<ev.feed, ev.uid>> \notin Feeds \X Uids
      BY <2>2, CalendarAssumption DEF MkEvent, Event, Statuses, CreateTask, CalendarAssumption
    <3> HIDE DEF ev
    <3>3. <<ev.feed, ev.uid>> \notin Ruled
      BY <3>2 DEF Ruled, CalendarOK, FeedsOK
    <3> QED BY <1>3, <2>1, <3>1, <3>2, <3>3, AddsNothing
  <2>4. CASE Submit(t)
    BY <1>3, <2>1, <2>4, NothingSame DEF Submit, feedVars
  <2> QED BY <1>6, <2>3, <2>4 DEF CreateStep
<1>7. CASE t.do = "delete" /\ DeleteStep(t)
  <2>1. Ends(t) \/ \E u : Goes(t, u) /\ u.do \notin {"refresh", "resolve"}
    BY <1>5, <1>7 DEF CalendarStep
  <2>2. t \in DeleteTask
    BY <1>0, <1>7, CalendarKinds
  <2>3. CASE WithdrawRequest(t)
    BY <1>3, <2>1, <2>3, NothingSame DEF WithdrawRequest, feedVars
  <2>4. CASE DeleteEvent(t)
    <3>1. DropEvents({t.e}) /\ kept' = kept /\ ignored' = ignored /\ conflicts' \subseteq conflicts
      BY <2>4 DEF DeleteEvent
    <3>2. {t.e} \in SUBSET EventIds
      BY <2>2 DEF DeleteTask
    <3> QED BY <1>3, <2>1, <3>1, <3>2, DropsNothing
  <2> QED BY <1>7, <2>3, <2>4 DEF DeleteStep
<1>8. CASE t.do = "remind" /\ RemindStep(t)
  <2>1. Ends(t) \/ \E u : Goes(t, u) /\ u.do \notin {"refresh", "resolve"}
    BY <1>5, <1>8 DEF CalendarStep
  <2>2. UNCHANGED <<event, conflicts, ignored, kept>>
    BY <1>8 DEF RemindStep, SendReminder, RecordReminder, eventVars, feedVars
  <2> QED BY <1>3, <2>1, <2>2, NothingSame
<1> QED BY <1>1, <1>2, <1>4, <1>6, <1>7, <1>8 DEF CalendarStep

-----------------------------------------------------------------------------
(* The calendar's invariant.                                               *)

LEMMA CalendarRequestInv ==
  ASSUME TasksOK, Numbered, CalendarInv, CalendarRequest
  PROVE  CalendarInv' /\ Begins(CalendarDoes)
<1>1. CalendarOK /\ CalendarTypeOK /\ made \in Nat
  BY CalendarParts DEF CalendarInv, CalendarTypeOK
<1>2. Begins(CalendarDoes)
  BY <1>1, CalendarRequestBegins
<1>3. made' \in Nat
  BY <1>1, <1>2, BeginsKeeps
<1>4. CalendarOK' /\ (EventsGoOn \/ SendReminders)
  BY <1>1, <1>3, CalendarRequestKeeps
<1>5. MailsKnown' /\ RemindedOnce'
  <2>1. CASE SendReminders
    BY <1>1, <2>1, SendRemindersMails DEF CalendarInv
  <2>2. CASE EventsGoOn /\ Begins(CalendarDoes \ {"remind"})
    <3>1. Reminding' = Reminding
      BY <2>2, BeginsLeaves DEF Reminding
    <3> QED BY <1>1, <1>4, <2>2, <3>1, MailsSame DEF CalendarInv
  <2> QED BY <1>1, <1>4, <2>1, <2>2, CalendarBegins
<1>6. RulingsHold' /\ RulingsKnown'
  BY <1>1, RequestKnown DEF CalendarInv
<1>7. ConflictsSeen'
  <2>1. spent <= spent' /\ spent \in Nat /\ spent' \in Nat
    BY <1>1, <1>4 DEF EventsGoOn, SendReminders, eventVars, CalendarOK, EventsOK
  <2>2. ASSUME NEW u \in tasks', u.do = "resolve"
        PROVE  u.conflict.existing <= spent /\ u.conflict.existing \in Nat
    <3>1. CASE u \in tasks
      BY <2>2, <3>1, CalendarKinds DEF CalendarInv, ConflictsSeen, TasksOK, ResolveTask, Conflict, EventIds
    <3>2. CASE u \notin tasks
      <4>1. u.conflict \in conflicts
        BY <2>2, <3>2, NewTasks
      <4> QED BY <1>1, <2>1, <4>1 DEF CalendarOK, ConflictsOK, EventsOK, Conflict, Here, EventIds
    <3> QED BY <3>1, <3>2
  <2> QED BY <2>1, <2>2 DEF ConflictsSeen
<1>8. CalendarTypeOK' /\ EventsKept'
  BY <1>4, CalendarPartsNext
<1> QED BY <1>2, <1>5, <1>6, <1>7, <1>8 DEF CalendarInv

LEMMA CalendarStepInv ==
  ASSUME TasksOK, Numbered, CalendarInv, NEW t \in tasks, CalendarStep(t) \/ Abandon(t)
  PROVE  CalendarInv' /\ GoesOn(t)
<1>0. t \in Task /\ Formed(t)
  BY DEF TasksOK
<1>1. CalendarOK /\ CalendarTypeOK /\ made \in Nat
  BY CalendarParts DEF CalendarInv, CalendarTypeOK
<1>2. GoesOn(t)
  BY <1>0, <1>1, CalendarGoesOn DEF Abandon, GoesOn
<1>3. made' \in Nat
  BY <1>1, <1>2, GoesOnKeeps
<1>4. t.do = "resolve" => t.conflict.existing <= spent
  BY DEF CalendarInv, ConflictsSeen
<1>5. CalendarOK' /\ (t.do # "remind" => EventsGoOn)
  BY <1>0, <1>1, <1>3, <1>4, CalendarStepKeeps
<1>6. MailsKnown' /\ RemindedOnce'
  <2>1. CASE t.do = "remind"
    <3>1. t \in RemindTask /\ (RemindStep(t) \/ Abandon(t))
      BY <1>0, <2>1, CalendarKinds DEF CalendarStep
    <3> QED BY <1>0, <3>1, RemindStepMails DEF CalendarInv
  <2>2. CASE t.do # "remind"
    <3>1. Reminding' = Reminding
      BY <1>2, <2>2, GoesOnLeaves DEF Reminding
    <3> QED BY <1>1, <1>5, <2>2, <3>1, MailsSame DEF CalendarInv
  <2> QED BY <2>1, <2>2
<1>7. RulingsHold' /\ RulingsKnown'
  BY <1>1, StepKnown DEF CalendarInv
<1>8. ConflictsSeen'
  <2>1. spent <= spent' /\ spent \in Nat /\ spent' \in Nat
    <3>1. CASE t.do = "remind"
      <4>1. UNCHANGED eventVars
        BY <3>1 DEF CalendarStep, RemindStep, SendReminder, RecordReminder, Abandon
      <4> QED BY <1>1, <4>1 DEF eventVars, CalendarOK, EventsOK
    <3> QED BY <1>1, <1>5, <3>1 DEF EventsGoOn, CalendarOK, EventsOK
  <2>2. ASSUME NEW u \in tasks', u.do = "resolve"
        PROVE  u \in tasks
    <3>1. CASE t.do = "resolve"
      BY <2>2, <3>1 DEF CalendarStep, ResolveConflict, Abandon, Ends
    <3>2. CASE t.do # "resolve"
      BY <1>2, <2>2, <3>2 DEF GoesOn, Ends, Goes
    <3> QED BY <3>1, <3>2
  <2>3. ASSUME NEW u \in tasks, u.do = "resolve"
        PROVE  u.conflict.existing <= spent /\ u.conflict.existing \in Nat
    BY <2>3, CalendarKinds DEF CalendarInv, ConflictsSeen, TasksOK, ResolveTask, Conflict, EventIds
  <2> QED BY <2>1, <2>2, <2>3 DEF ConflictsSeen
<1>9. CalendarTypeOK' /\ EventsKept'
  BY <1>5, CalendarPartsNext
<1> QED BY <1>2, <1>6, <1>7, <1>8, <1>9 DEF CalendarInv

\* A step elsewhere on the site.
LEMMA CalendarRests ==
  ASSUME CalendarInv, TasksOK, UNCHANGED calendarVars, made' \in Nat,
         Doing(CalendarDoes)' = Doing(CalendarDoes)
  PROVE  CalendarInv'
<1>0. UNCHANGED eventVars /\ UNCHANGED feedVars /\ UNCHANGED remindVars /\ UNCHANGED setVars
  BY DEF calendarVars
<1>1. CalendarOK
  BY CalendarParts DEF CalendarInv
<1>2. CalendarOK' /\ EventsGoOn
  BY <1>1, CalendarSame
<1>3. \A u \in tasks' : u.do \in CalendarDoes => u \in tasks
  BY DEF Doing
<1>4. Reminding' = Reminding
  BY DEF Reminding, Doing, CalendarDoes
<1>5. MailsKnown' /\ RemindedOnce'
  BY <1>1, <1>2, <1>4, MailsSame DEF CalendarInv
<1>6. RulingsHold' /\ RulingsKnown'
  <2>1. Nothing
    BY <1>0, NothingSame DEF eventVars, feedVars
  <2>2. \A u \in tasks' : u \in tasks \/ Knows(u)
    BY <1>3 DEF Knows, CalendarDoes
  <2> QED BY <1>1, <2>1, <2>2, NothingComes, KnownStays DEF CalendarInv, CalendarOK, Nothing
<1>7. ConflictsSeen'
  BY <1>0, <1>3 DEF CalendarInv, ConflictsSeen, CalendarDoes, eventVars
<1>8. CalendarTypeOK' /\ EventsKept'
  BY <1>2, CalendarPartsNext
<1> QED BY <1>5, <1>6, <1>7, <1>8 DEF CalendarInv
-----------------------------------------------------------------------------
(* The library's tasks.                                                    *)

LEMMA Folders ==
  ASSUME event \in [EventIds -> Event], NEW photo \in BOOLEAN, NEW links, NEW in \in folderFor(photo, links)
  PROVE  in \in 0..(Horizon + 2)
<1>1. Horizon \in Nat /\ CalendarAssumption
  BY CalendarAssumption DEF CalendarAssumption
<1>2. CASE in \in {PhotosFolder, DocumentsFolder}
  BY <1>1, <1>2 DEF PhotosFolder, DocumentsFolder
<1>3. ASSUME NEW e \in EventIds, in = EventFolder(e)
      PROVE  in \in 0..(Horizon + 2)
  <2>1. event[e].slot \in 0..Horizon
    BY DEF Event, Slots
  <2> QED BY <1>1, <1>3, <2>1 DEF EventFolder
<1> QED BY <1>2, <1>3 DEF folderFor, Here

LEMMA NoKeyKey ==
  NoKey \in Key
BY CalendarAssumption DEF CalendarAssumption, NoKey, MkKey, Key

LEMMA UploadBegins ==
  ASSUME made \in Nat, NEW kind \in {"document", "image", "video"}, NEW photo \in BOOLEAN,
         NEW public \in BOOLEAN, NEW in \in 0..(Horizon + 2), NEW links \in Links, NEW n \in 1..2,
         Starts(Upload(kind, photo, public, MkKey("upload", in, 2 * made), links, n))
  PROVE  Begins(LibraryDoes)
<1> DEFINE key == MkKey("upload", in, 2 * made)
           u == Upload(kind, photo, public, key, links, n)
<1>1. key \in Key /\ key.by = "upload"
  BY DEF MkKey, Key
<1> HIDE DEF key
<1>2. u \in UploadTask /\ u.do = "upload" /\ u.id = made /\ u.kind # "none" /\ u.key = key
  BY <1>1 DEF Upload, UploadTask, Kinds
<1>3. Starts(u)
  BY DEF key
<1> HIDE DEF u
<1>4. u \in Task /\ Formed(u)
  BY <1>1, <1>2 DEF Task, LibraryTask, Formed, UploadFormed
<1> QED BY <1>2, <1>3, <1>4 DEF Begins, LibraryDoes

\* A task of a kind that has nothing to make sure of.
LEMMA PlainBegins ==
  ASSUME NEW u, Starts(u), u.id = made,
         \/ u \in HostTask /\ HostFormed(u)
         \/ u \in PosterTask \/ u \in DropTask \/ u \in FlipTask \/ u \in VariantTask \/ u \in BackfillTask
         \/ u \in RekeyTask /\ RekeyFormed(u)
  PROVE  Begins(LibraryDoes)
<1>1. u.do \in LibraryDoes \ {"upload"} /\ u \in LibraryTask
  BY DEF LibraryTask, HostTask, PosterTask, DropTask, FlipTask, VariantTask, BackfillTask, RekeyTask,
         LibraryDoes
<1>2. Formed(u)
  <2>1. CASE u \in HostTask /\ HostFormed(u)
    BY <2>1 DEF HostTask, Formed
  <2>2. CASE u \in RekeyTask /\ RekeyFormed(u)
    BY <2>2 DEF RekeyTask, Formed
  <2>3. CASE u \in PosterTask \/ u \in DropTask \/ u \in FlipTask \/ u \in VariantTask \/ u \in BackfillTask
    BY <2>3 DEF PosterTask, DropTask, FlipTask, VariantTask, BackfillTask, Formed
  <2> QED BY <2>1, <2>2, <2>3
<1> QED BY <1>1, <1>2 DEF Begins, Task

LEMMA LibraryBegins ==
  ASSUME CalendarTypeOK, LibraryTypeOK, LibraryRequest
  PROVE  Begins(LibraryDoes)
<1>0. /\ made \in Nat /\ event \in [EventIds -> Event] /\ file \in [FileIds -> File]
      /\ 1..spent \subseteq EventIds
  BY CalendarAssumption DEF CalendarTypeOK, LibraryTypeOK, EventIds, CalendarAssumption
<1>k. \A f \in FileIds : file[f].key \in Key /\ file[f].photo \in BOOLEAN /\ file[f].public \in BOOLEAN
  BY <1>0 DEF File
<1>1. ASSUME NEW x \in Logins, NEW what \in Uploads, NEW links \in SUBSET (1..spent), NEW n \in 1..2,
             FileUpload(x, what[1], what[2], links, n)
      PROVE  Begins(LibraryDoes)
  <2>1. what[1] \in {"document", "image", "video"} /\ what[2] \in BOOLEAN
    BY LibraryAssumption DEF LibraryAssumption
  <2>2. PICK in \in folderFor(what[2], links) :
           Starts(Upload(what[1], what[2], FALSE, MkKey("upload", in, 2 * made), links, n))
    BY <1>1 DEF FileUpload
  <2>3. in \in 0..(Horizon + 2)
    BY <1>0, <2>1, Folders
  <2>4. links \in Links /\ FALSE \in BOOLEAN
    BY <1>0 DEF Links
  <2>5. PICK photo \in BOOLEAN, public \in BOOLEAN : photo = what[2] /\ public = FALSE
    BY <2>1
  <2>6. Starts(Upload(what[1], photo, public, MkKey("upload", in, 2 * made), links, n))
    BY <2>2, <2>5
  <2> QED BY <1>0, <2>1, <2>3, <2>4, <2>6, UploadBegins
<1>2. ASSUME NEW x \in Logins, NEW kind \in Kinds, NEW public \in BOOLEAN, AdminGalleryUpload(x, kind, public)
      PROVE  Begins(LibraryDoes)
  <2>1. PICK photo \in BOOLEAN : photo = TRUE
    OBVIOUS
  <2>2. /\ kind \in {"document", "image", "video"}
        /\ Starts(Upload(kind, photo, public, MkKey("upload", PhotosFolder, 2 * made), {}, 1))
    BY <1>2, <2>1 DEF AdminGalleryUpload
  <2>3. PhotosFolder \in 0..(Horizon + 2) /\ {} \in Links /\ 1 \in 1..2
    BY CalendarAssumption DEF PhotosFolder, Links, CalendarAssumption
  <2> QED BY <1>0, <2>2, <2>3, UploadBegins
<1>3. ASSUME NEW i \in Images, hostOne(i)
      PROVE  Begins(LibraryDoes)
  <2> DEFINE u == [id |-> made, do |-> "host", at |-> "looking", key |-> MkKey("digest", 0, i)]
  <2>1. MkKey("digest", 0, i) \in Key /\ MkKey("digest", 0, i).by = "digest"
    BY LibraryAssumption, CalendarAssumption DEF LibraryAssumption, CalendarAssumption, MkKey, Key
  <2>2. u \in HostTask /\ HostFormed(u) /\ u.id = made /\ Starts(u)
    BY <1>0, <1>3, <2>1 DEF hostOne, HostTask, HostFormed
  <2> HIDE DEF u
  <2> QED BY <2>2, PlainBegins
<1>4. ASSUME NEW x \in Logins, NEW f \in FileIds, FilePosterUpload(x, f)
      PROVE  Begins(LibraryDoes)
  <2> DEFINE u == [id |-> made, do |-> "poster", at |-> "putting", f |-> f]
  <2>1. u \in PosterTask /\ u.id = made /\ Starts(u)
    BY <1>0, <1>4 DEF FilePosterUpload, PosterTask
  <2> HIDE DEF u
  <2> QED BY <2>1, PlainBegins
<1>5. ASSUME NEW x \in Logins, NEW f \in FileIds, FileDelete(x, f)
      PROVE  Begins(LibraryDoes)
  <2> DEFINE u == [id |-> made, do |-> "drop", at |-> "row", f |-> f, key |-> file[f].key]
  <2>1. u \in DropTask /\ u.id = made /\ Starts(u)
    BY <1>0, <1>k, <1>5 DEF FileDelete, DropTask
  <2> HIDE DEF u
  <2> QED BY <2>1, PlainBegins
<1>6. ASSUME NEW what \in {"file", "resource", "post"}, NEW n \in Nat, NEW to \in BOOLEAN,
             Starts([id |-> made, do |-> "flip", at |-> what, n |-> n, to |-> to])
      PROVE  Begins(LibraryDoes)
  <2> DEFINE u == [id |-> made, do |-> "flip", at |-> what, n |-> n, to |-> to]
  <2>1. u \in FlipTask /\ u.id = made /\ Starts(u)
    BY <1>0, <1>6 DEF FlipTask
  <2> HIDE DEF u
  <2> QED BY <2>1, PlainBegins
<1>7. ASSUME NEW x \in Logins, NEW f \in FileIds, FileSetPublic(x, f)
      PROVE  Begins(LibraryDoes)
  <2>1. PICK to \in BOOLEAN : to = ~file[f].public
    OBVIOUS
  <2>2. f \in Nat /\ Starts([id |-> made, do |-> "flip", at |-> "file", n |-> f, to |-> to])
    BY <1>7, <2>1 DEF FileSetPublic, Flip, FileIds
  <2> QED BY <1>6, <2>2
<1>8. ASSUME NEW x \in Logins, NEW r \in ResourceIds, ResourceSetPublic(x, r)
      PROVE  Begins(LibraryDoes)
  <2>1. PICK to \in BOOLEAN : to = ~resource[r].public
    OBVIOUS
  <2>2. r \in Nat /\ Starts([id |-> made, do |-> "flip", at |-> "resource", n |-> r, to |-> to])
    BY <1>8, <2>1 DEF ResourceSetPublic, Flip, ResourceIds
  <2> QED BY <1>6, <2>2
<1>9. ASSUME NEW x \in Logins, NEW p \in PostIds, adminContentPublishToggle(x, p)
      PROVE  Begins(LibraryDoes)
  <2>1. PICK to \in BOOLEAN : to = ~post[p].published
    OBVIOUS
  <2>2. p \in Nat /\ Starts([id |-> made, do |-> "flip", at |-> "post", n |-> p, to |-> to])
    BY <1>9, <2>1 DEF adminContentPublishToggle, Flip, PostIds
  <2> QED BY <1>6, <2>2
<1>10. ASSUME NEW x \in Logins \cup {NoLogin}, NEW f \in FileIds, NEW as \in {"thumb", "banner"},
              serveImageVariant(x, f, as)
       PROVE  Begins(LibraryDoes)
  <2> DEFINE u == [id |-> made, do |-> "variant", at |-> "caching", key |-> file[f].key, as |-> as]
  <2>1. u \in VariantTask /\ u.id = made /\ Starts(u)
    BY <1>0, <1>k, <1>10 DEF serveImageVariant, VariantTask
  <2> HIDE DEF u
  <2> QED BY <2>1, PlainBegins
<1>11. CASE BackfillThumbnails
  <2> DEFINE keys == {file[f].key : f \in {g \in FileIds : file[g].kind = "image"}}
             u == [id |-> made, do |-> "backfill", at |-> "reading", key |-> NoKey, keys |-> keys]
  <2>1. Starts(u)
    BY <1>11 DEF BackfillThumbnails
  <2>2. keys \subseteq Key
    BY <1>k
  <2> HIDE DEF keys
  <2>3. u \in BackfillTask /\ u.id = made
    BY <1>0, <2>2, NoKeyKey DEF BackfillTask
  <2> HIDE DEF u
  <2> QED BY <2>1, <2>3, PlainBegins
<1>12. CASE RekeyFiles
  <2> DEFINE rows == {<<f, file[f].photo, file[f].key>> : f \in {g \in FileIds : Filed(g)}}
             u == [id |-> made, do |-> "rekey", at |-> "picking", f |-> 0, from |-> NoKey,
                   want |-> NoKey, thumb |-> FALSE, rows |-> rows]
  <2>1. Starts(u)
    BY <1>12 DEF RekeyFiles
  <2>2. rows \subseteq FileIds \X BOOLEAN \X Key
    BY <1>k
  <2> HIDE DEF rows
  <2>3. u \in RekeyTask /\ u.id = made /\ RekeyFormed(u)
    BY <1>0, <2>2, NoKeyKey, LibraryAssumption DEF RekeyTask, RekeyFormed, LibraryAssumption
  <2> HIDE DEF u
  <2> QED BY <2>1, <2>3, PlainBegins
<1>13. ASSUME NEW x \in Logins, NEW g \in Groups, AdminGroupCreateNews(x, g)
       PROVE  Begins(LibraryDoes)
  <2>1. PICK to \in BOOLEAN : to = TRUE
    OBVIOUS
  <2>2. written + 1 \in Nat /\ Starts([id |-> made, do |-> "flip", at |-> "post", n |-> written + 1, to |-> to])
    BY <1>13, <2>1 DEF AdminGroupCreateNews, publishGroupPost, LibraryTypeOK
  <2> QED BY <1>6, <2>2
<1>14. CASE AtOnce
  BY <1>14 DEF Begins
<1> QED BY <1>1, <1>2, <1>3, <1>4, <1>5, <1>7, <1>8, <1>9, <1>10, <1>11, <1>12, <1>13, <1>14
        DEF LibraryRequest, FileSetCategory, FileSetEventLinks, FileBulkUpdate, SetPublicMany, LinkEventMany,
            UnlinkEventsMany, ChangesFiles, AdminGroupSetPhotos, SetSubGroupLinks, CreateFile, CreateLink,
            ResourceDelete, ResourceHideUnderlyingFile, adminContentCreate, adminContentUpdate,
            adminContentDelete, DeletePost, AdminGroupDeleteNews

LEMMA UploadGoesOn ==
  ASSUME LibraryTypeOK, NEW t \in UploadTask, Formed(t), UploadStep(t)
  PROVE  GoesOn(t)
<1>0. UploadFormed(t) /\ t.do = "upload" /\ t.key \in Key /\ t.left \in 1..2 /\ t.ids \subseteq FileIds
  BY DEF UploadTask, Formed
<1>1. ASSUME NEW u \in UploadTask, Goes(t, u), u.id = t.id, u.kind = t.kind, u.key.by = "upload"
      PROVE  GoesOn(t)
  <2>1. u \in Task /\ Formed(u) /\ u.do = t.do
    BY <1>0, <1>1 DEF UploadTask, Task, LibraryTask, Formed, UploadFormed
  <2> QED BY <1>1, <2>1 DEF GoesOn
<1>2. CASE storeUpload(t)
  <2> DEFINE u == [t EXCEPT !.at = "recording"]
  <2>1. Goes(t, u)
    BY <1>2 DEF storeUpload
  <2>2. u \in UploadTask /\ u.id = t.id /\ u.kind = t.kind /\ u.key = t.key
    BY DEF UploadTask
  <2> HIDE DEF u
  <2> QED BY <1>0, <1>1, <2>1, <2>2 DEF UploadFormed
<1>3. CASE RecordUpload(t)
  <2>0. filed + 1 \in FileIds
    BY <1>3, LibraryAssumption DEF RecordUpload, Create, LibraryTypeOK, FileIds, LibraryAssumption
  <2>1. CASE t.left > 1
    <3> DEFINE key == [t.key EXCEPT !.n = @ + 1]
               u == [t EXCEPT !.at = "putting", !.left = @ - 1, !.key = key, !.ids = @ \cup {filed + 1}]
    <3>1. Goes(t, u)
      <4>1. Goes(t, [t EXCEPT !.at = "putting", !.left = @ - 1, !.key.n = @ + 1, !.ids = @ \cup {filed + 1}])
        BY <1>3, <2>1 DEF RecordUpload
      <4> QED BY <4>1
    <3>2. key \in Key /\ key.by = t.key.by
      BY <1>0 DEF Key
    <3> HIDE DEF key
    <3>3. u \in UploadTask /\ u.id = t.id /\ u.kind = t.kind /\ u.key = key
      <4>1. t.left - 1 \in 1..2 /\ t.ids \cup {filed + 1} \in SUBSET FileIds
        BY <1>0, <2>0, <2>1
      <4> QED BY <3>2, <4>1 DEF UploadTask
    <3> HIDE DEF u
    <3> QED BY <1>0, <1>1, <3>1, <3>2, <3>3 DEF UploadFormed
  <2>2. CASE ~(t.left > 1)
    <3> DEFINE u == [t EXCEPT !.at = "linking", !.ids = @ \cup {filed + 1}]
    <3>1. Goes(t, u)
      BY <1>3, <2>2 DEF RecordUpload
    <3>2. u \in UploadTask /\ u.id = t.id /\ u.kind = t.kind /\ u.key = t.key
      BY <1>0, <2>0 DEF UploadTask
    <3> HIDE DEF u
    <3> QED BY <1>0, <1>1, <3>1, <3>2 DEF UploadFormed
  <2> QED BY <2>1, <2>2
<1>4. ASSUME t.at = "linking", NEW f \in t.ids, NEW ok \in BOOLEAN, LinkUpload(t, f, ok)
      PROVE  GoesOn(t)
  <2>1. CASE Ends(t)
    BY <2>1 DEF GoesOn
  <2>2. CASE Goes(t, [t EXCEPT !.ids = @ \ {f}])
    <3> DEFINE u == [t EXCEPT !.ids = @ \ {f}]
    <3>1. u \in UploadTask /\ u.id = t.id /\ u.kind = t.kind /\ u.key = t.key
      BY <1>0 DEF UploadTask
    <3> HIDE DEF u
    <3> QED BY <1>0, <1>1, <2>2, <3>1 DEF UploadFormed, u
  <2> QED BY <1>4, <2>1, <2>2 DEF LinkUpload
<1> QED BY <1>2, <1>3, <1>4 DEF UploadStep

\* A task of a kind that has nothing to make sure of.
LEMMA PlainGoesOn ==
  ASSUME NEW t, NEW u, Goes(t, u), u.id = t.id, u.do = t.do,
         \/ u \in HostTask /\ HostFormed(u)
         \/ u \in PosterTask \/ u \in DropTask \/ u \in BackfillTask
         \/ u \in RekeyTask /\ RekeyFormed(u)
  PROVE  GoesOn(t)
<1>1. u \in Task
  BY DEF Task, LibraryTask
<1>2. Formed(u)
  <2>1. CASE u \in HostTask /\ HostFormed(u)
    BY <2>1 DEF HostTask, Formed
  <2>2. CASE u \in RekeyTask /\ RekeyFormed(u)
    BY <2>2 DEF RekeyTask, Formed
  <2>3. CASE u \in PosterTask \/ u \in DropTask \/ u \in BackfillTask
    BY <2>3 DEF PosterTask, DropTask, BackfillTask, Formed
  <2> QED BY <2>1, <2>2, <2>3
<1> QED BY <1>1, <1>2 DEF GoesOn

LEMMA SmallGoesOn ==
  ASSUME NEW t \in Task, Formed(t),
         \/ t.do = "host" /\ HostStep(t)
         \/ t.do = "poster" /\ PosterStep(t)
         \/ t.do = "drop" /\ DropStep(t)
         \/ t.do = "flip" /\ SetFlag(t)
         \/ t.do = "variant" /\ \E ok \in BOOLEAN : fetchAndCacheVariant(t, t.as, ok)
         \/ t.do = "backfill" /\ BackfillStep(t)
  PROVE  GoesOn(t)
<1>0. CASE Ends(t)
  BY <1>0 DEF GoesOn
<1>1. ASSUME NEW at \in {"looking", "putting", "recording"}, t.do = "host", Goes(t, [t EXCEPT !.at = at])
      PROVE  GoesOn(t)
  <2> DEFINE u == [t EXCEPT !.at = at]
  <2>1. t \in HostTask /\ HostFormed(t)
    BY <1>1, LibraryKinds DEF Formed
  <2>2. u \in HostTask /\ HostFormed(u) /\ u.id = t.id /\ u.do = t.do
    BY <2>1 DEF HostTask, HostFormed
  <2> HIDE DEF u
  <2> QED BY <1>1, <2>2, PlainGoesOn DEF u
<1>2. CASE t.do = "host" /\ HostStep(t)
  BY <1>0, <1>1, <1>2 DEF HostStep, LookUpHosted, PutHosted, RecordHosted
<1>3. CASE t.do = "poster" /\ PosterStep(t)
  <2> DEFINE u == [t EXCEPT !.at = "recording"]
  <2>1. u \in PosterTask /\ u.id = t.id /\ u.do = t.do
    BY <1>3, LibraryKinds DEF PosterTask
  <2>2. CASE PutPoster(t)
    <3>1. Goes(t, u)
      BY <2>2 DEF PutPoster
    <3> HIDE DEF u
    <3> QED BY <2>1, <3>1, PlainGoesOn
  <2> QED BY <1>0, <1>3, <2>2 DEF PosterStep, SetPoster
<1>4. ASSUME NEW at \in {"object", "thumb", "poster"}, t.do = "drop", Goes(t, [t EXCEPT !.at = at])
      PROVE  GoesOn(t)
  <2> DEFINE u == [t EXCEPT !.at = at]
  <2>1. u \in DropTask /\ u.id = t.id /\ u.do = t.do
    BY <1>4, LibraryKinds DEF DropTask
  <2> HIDE DEF u
  <2> QED BY <1>4, <2>1, PlainGoesOn DEF u
<1>5. CASE t.do = "drop" /\ DropStep(t)
  BY <1>0, <1>4, <1>5 DEF DropStep, DeleteRow, DeleteObject, DeleteThumb, DeletePoster
<1>6. CASE t.do = "flip" /\ SetFlag(t)
  BY <1>0, <1>6 DEF SetFlag
<1>7. CASE t.do = "variant" /\ \E ok \in BOOLEAN : fetchAndCacheVariant(t, t.as, ok)
  BY <1>0, <1>7 DEF fetchAndCacheVariant
<1>8. ASSUME t.do = "backfill", NEW k \in t.keys, ReadOriginal(t, k)
      PROVE  GoesOn(t)
  <2>0. t \in BackfillTask /\ k \in Key
    BY <1>8, LibraryKinds DEF BackfillTask
  <2> DEFINE u == [t EXCEPT !.at = "caching", !.keys = @ \ {k}, !.key = k]
             v == [t EXCEPT !.keys = @ \ {k}]
  <2>1. u \in BackfillTask /\ u.id = t.id /\ u.do = t.do /\ v \in BackfillTask /\ v.id = t.id /\ v.do = t.do
    BY <2>0 DEF BackfillTask
  <2>2. Goes(t, u) \/ Goes(t, v)
    BY <1>8 DEF ReadOriginal
  <2> HIDE DEF u, v
  <2> QED BY <2>1, <2>2, PlainGoesOn
<1>9. ASSUME t.do = "backfill", NEW ok \in BOOLEAN, fetchAndCacheVariant(t, "thumb", ok)
      PROVE  GoesOn(t)
  <2> DEFINE u == [t EXCEPT !.at = "reading", !.key = NoKey]
  <2>1. u \in BackfillTask /\ u.id = t.id /\ u.do = t.do
    BY <1>9, LibraryKinds, NoKeyKey DEF BackfillTask
  <2>2. Goes(t, u)
    BY <1>9 DEF fetchAndCacheVariant
  <2> HIDE DEF u
  <2> QED BY <2>1, <2>2, PlainGoesOn
<1>10. CASE t.do = "backfill" /\ BackfillStep(t)
  BY <1>0, <1>8, <1>9, <1>10 DEF BackfillStep, RunDone
<1> QED BY <1>2, <1>3, <1>5, <1>6, <1>7, <1>10

LEMMA RekeyGoesOn ==
  ASSUME CalendarTypeOK, NEW t \in RekeyTask, Formed(t), RekeyStep(t)
  PROVE  GoesOn(t)
<1>0. RekeyFormed(t) /\ t.do = "rekey" /\ t.rows \subseteq FileIds \X BOOLEAN \X Key
  BY DEF RekeyTask, Formed
<1>1. ASSUME NEW u \in RekeyTask, Goes(t, u), u.id = t.id, RekeyFormed(u)
      PROVE  GoesOn(t)
  BY <1>0, <1>1, PlainGoesOn DEF RekeyTask
<1>2. ASSUME t.at = "picking", NEW row \in t.rows, PickFile(t, row)
      PROVE  GoesOn(t)
  <2>0. row[1] \in FileIds /\ row[2] \in BOOLEAN /\ row[3] \in Key /\ row[1] \in Nat
        /\ row[1] \in 0..MaxFiles
    BY <1>0 DEF FileIds
  <2> DEFINE v == [t EXCEPT !.rows = @ \ {row}]
  <2>1. v \in RekeyTask /\ v.id = t.id /\ RekeyFormed(v) /\ v.at = "picking"
    BY <1>2 DEF RekeyTask, RekeyFormed
  <2>2. CASE Goes(t, v)
    <3> HIDE DEF v
    <3> QED BY <1>1, <2>1, <2>2
  <2>3. ASSUME NEW links, NEW in \in folderFor(row[2], links), row[3] # MkKey("row", in, row[1]),
               Goes(t, [v EXCEPT !.at = "copying", !.f = row[1], !.from = row[3],
                                 !.want = MkKey("row", in, row[1])])
        PROVE  GoesOn(t)
    <3> DEFINE want == MkKey("row", in, row[1])
               u == [v EXCEPT !.at = "copying", !.f = row[1], !.from = row[3], !.want = want]
    <3>1. want \in Key /\ want.by = "row" /\ want.n = row[1]
      <4>1. in \in 0..(Horizon + 2)
        BY <2>0, Folders DEF CalendarTypeOK
      <4> QED BY <2>0, <4>1 DEF MkKey, Key
    <3> HIDE DEF v, want
    <3>2. u \in RekeyTask /\ u.id = t.id /\ u.f = row[1] /\ u.from = row[3] /\ u.want = want
      BY <2>0, <2>1, <3>1 DEF RekeyTask
    <3>3. Goes(t, u)
      BY <2>3 DEF want
    <3> HIDE DEF u
    <3>4. RekeyFormed(u)
      BY <2>0, <2>3, <3>1, <3>2 DEF RekeyFormed, want
    <3> QED BY <1>1, <3>2, <3>3, <3>4
  <2> HIDE DEF v
  <2> QED BY <1>2, <2>2, <2>3 DEF PickFile, v
<1>3. CASE GiveUp(t)
  <2> DEFINE u == [t EXCEPT !.at = "picking", !.f = 0, !.from = NoKey, !.want = NoKey, !.thumb = FALSE]
  <2>1. Goes(t, u)
    BY <1>3 DEF GiveUp
  <2>2. u \in RekeyTask /\ u.id = t.id /\ u.at = "picking"
    <3>1. 0 \in 0..MaxFiles
      BY LibraryAssumption DEF LibraryAssumption
    <3> QED BY <3>1, NoKeyKey DEF RekeyTask
  <2> HIDE DEF u
  <2> QED BY <1>1, <2>1, <2>2 DEF RekeyFormed
<1>4. ASSUME NEW at \in {"verifying", "thumb", "clearing", "unthumbing"}, t.at # "picking",
             Goes(t, [t EXCEPT !.at = at])
      PROVE  GoesOn(t)
  <2> DEFINE u == [t EXCEPT !.at = at]
  <2>1. u \in RekeyTask /\ u.id = t.id /\ u.f = t.f /\ u.from = t.from /\ u.want = t.want
    BY DEF RekeyTask
  <2>2. Goes(t, u)
    BY <1>4
  <2> HIDE DEF u
  <2> QED BY <1>0, <1>1, <1>4, <2>1, <2>2 DEF RekeyFormed
<1>5. ASSUME t.at = "thumb", NEW ok \in BOOLEAN, CopyThumb(t, ok)
      PROVE  GoesOn(t)
  <2>0. PICK moved \in BOOLEAN : moved = (ok /\ Has(t.from, "thumb"))
    OBVIOUS
  <2> DEFINE u == [t EXCEPT !.at = "pointing", !.thumb = moved]
  <2>1. u \in RekeyTask /\ u.id = t.id /\ u.f = t.f /\ u.from = t.from /\ u.want = t.want
    BY DEF RekeyTask
  <2>2. Goes(t, u)
    BY <1>5, <2>0 DEF CopyThumb
  <2> HIDE DEF u
  <2> QED BY <1>0, <1>1, <1>5, <2>1, <2>2 DEF RekeyFormed
<1>6. CASE Ends(t)
  BY <1>6 DEF GoesOn
<1> QED BY <1>2, <1>3, <1>4, <1>5, <1>6
        DEF RekeyStep, RunDone, CopyObject, VerifyCopy, SetStorageKey, RekeyFails, DeleteOldObject,
            DeleteOldThumb

LEMMA LibraryGoesOn ==
  ASSUME CalendarTypeOK, LibraryTypeOK, NEW t \in Task, Formed(t), LibraryStep(t)
  PROVE  GoesOn(t) /\ t.do \in LibraryDoes
<1>1. CASE t.do = "upload" /\ UploadStep(t)
  BY <1>1, LibraryKinds, UploadGoesOn DEF LibraryDoes
<1>2. CASE t.do = "rekey" /\ RekeyStep(t)
  BY <1>2, LibraryKinds, RekeyGoesOn DEF LibraryDoes
<1>3. CASE t.do \notin {"upload", "rekey"}
  BY <1>3, SmallGoesOn DEF LibraryStep, LibraryDoes
<1> QED BY <1>1, <1>2, <1>3 DEF LibraryStep
-----------------------------------------------------------------------------
(* The library's rows and objects.                                         *)

FilesOK ==
    /\ file \in [FileIds -> File] /\ filed \in 0..MaxFiles
    /\ \A f, g \in FileIds : Filed(f) /\ Filed(g) /\ file[f].key = file[g].key => f = g
    /\ \A f \in FileIds : file[f].events \subseteq {e \in EventIds : Here(e)}
    /\ RowKeys
ResourcesOK ==
    /\ resource \in [ResourceIds -> Resource] /\ listed \in 0..MaxResources
    /\ \A r \in ResourceIds : resource[r].kind = "file" => Filed(resource[r].file)
PostsOK ==
    /\ post \in [PostIds -> Post] /\ written \in 0..MaxPosts /\ openly \subseteq PostIds
    /\ PostsOpen /\ PostsFresh
BucketOK == objects \subseteq Key \X Suffixes /\ posters \subseteq FileIds
LibraryOK == FilesOK /\ ResourcesOK /\ PostsOK /\ BucketOK

LEMMA LibraryParts == LibraryInv <=> LibraryOK
BY DEF LibraryInv, LibraryTypeOK, LibraryOK, FilesOK, ResourcesOK, PostsOK, BucketOK
LEMMA LibraryPartsNext == LibraryInv' <=> LibraryOK'
BY DEF LibraryInv, LibraryTypeOK, LibraryOK, FilesOK, ResourcesOK, PostsOK, BucketOK

\* Rows that keep their kind and their key, and are linked to events that are there.
FilesStay ==
    /\ file' \in [FileIds -> File] /\ UNCHANGED filed
    /\ \A f \in FileIds : /\ file'[f].kind = file[f].kind /\ file'[f].key = file[f].key
                          /\ \A e \in file'[f].events : Here(e)'

LEMMA FilesStayOK ==
  ASSUME FilesOK, ResourcesOK, FilesStay, UNCHANGED <<resource, listed>>
  PROVE  FilesOK' /\ ResourcesOK'
<1>1. \A f \in FileIds : Filed(f)' <=> Filed(f)
  BY DEF FilesStay, Filed
<1>2. \A f \in FileIds : file'[f].events \subseteq {e \in EventIds : Here(e)'}
  BY DEF FilesStay, Here
<1>3. FilesOK'
  BY <1>1, <1>2 DEF FilesStay, FilesOK, RowKeys
<1>4. ResourcesOK'
  BY <1>1 DEF ResourcesOK, Filed
<1> QED BY <1>3, <1>4

LEMMA FilesSame ==
  ASSUME FilesOK, ResourcesOK, UNCHANGED <<event, file, filed, resource, listed>>
  PROVE  FilesOK' /\ ResourcesOK'
BY DEF FilesOK, ResourcesOK, RowKeys, Filed, Here
LEMMA PostsSame == ASSUME PostsOK, UNCHANGED <<post, written, openly>> PROVE PostsOK'
BY DEF PostsOK, PostsOpen, PostsFresh, Written
LEMMA BucketSame == ASSUME BucketOK, UNCHANGED bucketVars PROVE BucketOK'
BY DEF BucketOK, bucketVars

\* A step of the calendar takes the links to its events with it.
LEMMA LibraryFollows ==
  ASSUME LibraryInv, LinksFollow, UNCHANGED <<filed, bucketVars, pageVars>>
  PROVE  LibraryInv'
<1>1. LibraryOK
  BY LibraryParts
<1>2. FilesStay
  <2>1. \A f \in FileIds : file[f] \in File
    BY <1>1 DEF LibraryOK, FilesOK
  <2>2. \A f \in FileIds : [file[f] EXCEPT !.events = {e \in @ : Here(e)'}] \in File
    BY <2>1 DEF File, Links
  <2>3. \A f \in FileIds : file'[f] = [file[f] EXCEPT !.events = {e \in @ : Here(e)'}]
    BY DEF LinksFollow
  <2>4. file' \in [FileIds -> File]
    BY <2>2 DEF LinksFollow
  <2> QED BY <2>1, <2>3, <2>4 DEF FilesStay, File
<1>3. FilesOK' /\ ResourcesOK'
  BY <1>1, <1>2, FilesStayOK DEF LibraryOK, pageVars
<1> QED BY <1>1, <1>3, PostsSame, BucketSame, LibraryPartsNext DEF LibraryOK, pageVars

\* A step that touches neither the library nor the events.
LEMMA LibraryRests ==
  ASSUME LibraryInv, UNCHANGED <<event, libraryVars>>
  PROVE  LibraryInv'
<1>1. LibraryOK
  BY LibraryParts
<1>2. UNCHANGED <<file, filed, resource, listed, post, written, openly>> /\ UNCHANGED bucketVars
  BY DEF libraryVars, fileVars, pageVars
<1> QED BY <1>1, <1>2, FilesSame, PostsSame, BucketSame, LibraryPartsNext DEF LibraryOK

\* A step of the library's files alone, of its bucket alone, or of its pages alone.
LEMMA FilesOnly ==
  ASSUME LibraryInv, FilesStay, UNCHANGED <<bucketVars, pageVars>>
  PROVE  LibraryInv'
<1>1. LibraryOK
  BY LibraryParts
<1>2. UNCHANGED <<resource, listed, post, written, openly>>
  BY DEF pageVars
<1> QED BY <1>1, <1>2, FilesStayOK, PostsSame, BucketSame, LibraryPartsNext DEF LibraryOK

LEMMA BucketOnly ==
  ASSUME LibraryInv, UNCHANGED <<event, fileVars, pageVars>>, BucketOK'
  PROVE  LibraryInv'
<1>1. LibraryOK
  BY LibraryParts
<1>2. UNCHANGED <<file, filed, resource, listed, post, written, openly>>
  BY DEF fileVars, pageVars
<1> QED BY <1>1, <1>2, FilesSame, PostsSame, LibraryPartsNext DEF LibraryOK

LEMMA ResourcesOnly ==
  ASSUME LibraryInv, UNCHANGED <<event, fileVars, bucketVars, post, written, openly>>, ResourcesOK'
  PROVE  LibraryInv'
<1>1. LibraryOK
  BY LibraryParts
<1>2. FilesOK'
  BY <1>1 DEF LibraryOK, FilesOK, RowKeys, Filed, Here, fileVars
<1> QED BY <1>1, <1>2, PostsSame, BucketSame, LibraryPartsNext DEF LibraryOK

LEMMA PostsOnly ==
  ASSUME LibraryInv, UNCHANGED <<event, fileVars, bucketVars, resource, listed>>, PostsOK'
  PROVE  LibraryInv'
<1>1. LibraryOK
  BY LibraryParts
<1>2. UNCHANGED <<file, filed, resource, listed>>
  BY DEF fileVars
<1> QED BY <1>1, <1>2, FilesSame, BucketSame, LibraryPartsNext DEF LibraryOK

\* One row of a file changed, with its kind and its key as they were.
LEMMA RowStays ==
  ASSUME FilesOK, UNCHANGED <<event, filed>>, NEW f \in FileIds, NEW row \in File,
         row.kind = file[f].kind, row.key = file[f].key, \A e \in row.events : Here(e),
         file' = [file EXCEPT ![f] = row]
  PROVE  FilesStay
<1>1. \A g \in FileIds : file'[g] = IF g = f THEN row ELSE file[g]
  BY DEF FilesOK
<1>2. file' \in [FileIds -> File]
  BY DEF FilesOK
<1>3. \A g \in FileIds : \A e \in file'[g].events : Here(e)'
  BY <1>1 DEF FilesOK, Here
<1> QED BY <1>1, <1>2, <1>3 DEF FilesStay

LEMMA FilesUntouched ==
  ASSUME FilesOK, UNCHANGED <<event, file, filed>>
  PROVE  FilesStay
BY DEF FilesStay, FilesOK, Here

\* The requests that change some rows of files.
LEMMA ChangesFilesStays ==
  ASSUME FilesOK, NEW x, NEW fs, NEW row, ChangesFiles(x, fs, row),
         \A f \in FileIds : /\ row[f] \in File /\ row[f].kind = file[f].kind /\ row[f].key = file[f].key
                            /\ \A e \in row[f].events : Here(e)
  PROVE  FilesStay
<1>1. \A f \in FileIds : file'[f] = IF f \in fs /\ Filed(f) THEN row[f] ELSE file[f]
  BY DEF ChangesFiles
<1>2. file' \in [FileIds -> File]
  BY DEF ChangesFiles, FilesOK
<1>3. UNCHANGED <<event, filed>>
  BY DEF ChangesFiles, calendarVars, eventVars
<1>4. \A f \in FileIds : \A e \in file'[f].events : Here(e)'
  BY <1>1, <1>3 DEF FilesOK, Here
<1> QED BY <1>1, <1>2, <1>3, <1>4 DEF FilesStay

LEMMA FileRequestsKeep ==
  ASSUME LibraryInv, NEW x \in Logins,
         \/ \E f \in FileIds, photo \in BOOLEAN : FileSetCategory(x, f, photo)
         \/ \E f \in FileIds, links \in SUBSET (1..spent) : FileSetEventLinks(x, f, links)
         \/ \E fs \in SUBSET FileIds : FileBulkUpdate(x, fs)
         \/ \E g \in Groups, fs \in SUBSET FileIds : AdminGroupSetPhotos(x, g, fs)
         \/ \E r \in ResourceIds : ResourceHideUnderlyingFile(x, r)
  PROVE  LibraryInv'
<1>0. FilesOK /\ \A f \in FileIds : file[f] \in File /\ \A e \in file[f].events : Here(e)
  BY LibraryParts DEF LibraryOK, FilesOK, Here
<1>1. ASSUME FilesStay, UNCHANGED <<bucketVars, pageVars>> PROVE LibraryInv'
  BY <1>1, FilesOnly
<1>2. ASSUME NEW photo \in BOOLEAN, NEW f \in FileIds, FileSetCategory(x, f, photo)
      PROVE  LibraryInv'
  <2> DEFINE row == [g \in FileIds |-> [file[g] EXCEPT !.photo = photo]]
  <2>1. \A g \in FileIds : /\ row[g] \in File /\ row[g].kind = file[g].kind /\ row[g].key = file[g].key
                           /\ \A e \in row[g].events : Here(e)
    BY <1>0 DEF File
  <2>2. ChangesFiles(x, {f}, row)
    BY <1>2 DEF FileSetCategory
  <2> HIDE DEF row
  <2>3. FilesStay
    BY <1>0, <2>1, <2>2, ChangesFilesStays
  <2> QED BY <1>1, <2>2, <2>3 DEF ChangesFiles
<1>3. ASSUME NEW links \in SUBSET (1..spent), NEW f \in FileIds, FileSetEventLinks(x, f, links)
      PROVE  LibraryInv'
  <2> DEFINE row == [g \in FileIds |-> [file[g] EXCEPT !.events = Linked(links)]]
  <2>0. Linked(links) \in Links /\ \A e \in Linked(links) : Here(e)
    BY DEF Linked, Links, Here
  <2>1. \A g \in FileIds : /\ row[g] \in File /\ row[g].kind = file[g].kind /\ row[g].key = file[g].key
                           /\ \A e \in row[g].events : Here(e)
    BY <1>0, <2>0 DEF File
  <2>2. ChangesFiles(x, {f}, row)
    BY <1>3 DEF FileSetEventLinks
  <2> HIDE DEF row
  <2>3. FilesStay
    BY <1>0, <2>1, <2>2, ChangesFilesStays
  <2> QED BY <1>1, <2>2, <2>3 DEF ChangesFiles
<1>4. ASSUME NEW fs, NEW public \in BOOLEAN, SetPublicMany(x, fs, public)
      PROVE  LibraryInv'
  <2> DEFINE row == [g \in FileIds |-> [file[g] EXCEPT !.public = public]]
  <2>1. \A g \in FileIds : /\ row[g] \in File /\ row[g].kind = file[g].kind /\ row[g].key = file[g].key
                           /\ \A e \in row[g].events : Here(e)
    BY <1>0 DEF File
  <2>2. ChangesFiles(x, fs, row)
    BY <1>4 DEF SetPublicMany
  <2> HIDE DEF row
  <2>3. FilesStay
    BY <1>0, <2>1, <2>2, ChangesFilesStays
  <2> QED BY <1>1, <2>2, <2>3 DEF ChangesFiles
<1>5. ASSUME NEW fs, NEW e \in EventIds, NEW replace \in BOOLEAN, LinkEventMany(x, fs, e, replace)
      PROVE  LibraryInv'
  <2> DEFINE row == [g \in FileIds |-> [file[g] EXCEPT !.events = (IF replace THEN {} ELSE @) \cup {e}]]
  <2>0. Here(e)
    BY <1>5 DEF LinkEventMany
  <2>1. \A g \in FileIds : /\ row[g] \in File /\ row[g].kind = file[g].kind /\ row[g].key = file[g].key
                           /\ \A d \in row[g].events : Here(d)
    BY <1>0, <2>0 DEF File, Links
  <2>2. ChangesFiles(x, fs, row)
    BY <1>5 DEF LinkEventMany
  <2> HIDE DEF row
  <2>3. FilesStay
    BY <1>0, <2>1, <2>2, ChangesFilesStays
  <2> QED BY <1>1, <2>2, <2>3 DEF ChangesFiles
<1>6. ASSUME NEW fs, UnlinkEventsMany(x, fs)
      PROVE  LibraryInv'
  <2> DEFINE row == [g \in FileIds |-> [file[g] EXCEPT !.events = {}]]
  <2>1. \A g \in FileIds : /\ row[g] \in File /\ row[g].kind = file[g].kind /\ row[g].key = file[g].key
                           /\ \A d \in row[g].events : Here(d)
    BY <1>0 DEF File, Links
  <2>2. ChangesFiles(x, fs, row)
    BY <1>6 DEF UnlinkEventsMany
  <2> HIDE DEF row
  <2>3. FilesStay
    BY <1>0, <2>1, <2>2, ChangesFilesStays
  <2> QED BY <1>1, <2>2, <2>3 DEF ChangesFiles
<1>7. ASSUME NEW g \in Groups, NEW fs, SetSubGroupLinks(g, fs)
      PROVE  LibraryInv'
  <2> DEFINE row(f) == IF Filed(f) THEN [file[f] EXCEPT !.groups = IF f \in fs THEN @ \cup {g} ELSE @ \ {g}]
                       ELSE file[f]
  <2>1. \A f \in FileIds : /\ row(f) \in File /\ row(f).kind = file[f].kind /\ row(f).key = file[f].key
                           /\ row(f).events = file[f].events
    BY <1>0 DEF File
  <2>2. file' = [f \in FileIds |-> row(f)] /\ UNCHANGED <<event, filed, bucketVars, pageVars>>
    BY <1>7 DEF SetSubGroupLinks, calendarVars, eventVars
  <2> HIDE DEF row
  <2>3. FilesStay
    BY <1>0, <2>1, <2>2 DEF FilesStay, Here
  <2> QED BY <1>1, <2>2, <2>3
<1>8. ASSUME NEW r \in ResourceIds, ResourceHideUnderlyingFile(x, r)
      PROVE  LibraryInv'
  <2> DEFINE row == [g \in FileIds |-> [file[g] EXCEPT !.public = FALSE]]
  <2>1. \A g \in FileIds : /\ row[g] \in File /\ row[g].kind = file[g].kind /\ row[g].key = file[g].key
                           /\ \A e \in row[g].events : Here(e)
    BY <1>0 DEF File
  <2>2. ChangesFiles(x, {resource[r].file}, row)
    BY <1>8 DEF ResourceHideUnderlyingFile
  <2> HIDE DEF row
  <2>3. FilesStay
    BY <1>0, <2>1, <2>2, ChangesFilesStays
  <2> QED BY <1>1, <2>2, <2>3 DEF ChangesFiles
<1> QED BY <1>2, <1>3, <1>4, <1>5, <1>6, <1>7, <1>8 DEF FileBulkUpdate, AdminGroupSetPhotos

LEMMA ResourceRequestsKeep ==
  ASSUME LibraryInv, NEW x \in Logins,
         \/ \E f \in FileIds, public \in BOOLEAN : CreateFile(x, f, public)
         \/ \E public \in BOOLEAN : CreateLink(x, public)
         \/ \E r \in ResourceIds : ResourceDelete(x, r)
  PROVE  LibraryInv'
<1>0. ResourcesOK /\ 0 \in 0..MaxFiles /\ FileIds \subseteq 0..MaxFiles /\ MaxFiles \in Nat
  BY LibraryParts, LibraryAssumption DEF LibraryOK, LibraryAssumption, FileIds
<1>1. ASSUME NEW row \in Resource, row.kind = "file" => Filed(row.file), AddResource(x, row)
      PROVE  LibraryInv'
  <2>1. listed + 1 \in ResourceIds /\ listed' = listed + 1 /\ listed' \in 0..MaxResources
    BY <1>0, <1>1, LibraryAssumption DEF AddResource, ResourcesOK, ResourceIds, LibraryAssumption
  <2>2. \A r \in ResourceIds : resource'[r] = IF r = listed + 1 THEN row ELSE resource[r]
    BY <1>0, <1>1 DEF AddResource, ResourcesOK
  <2>3. resource' \in [ResourceIds -> Resource]
    BY <1>0, <1>1 DEF AddResource, ResourcesOK
  <2>4. file' = file
    BY <1>1 DEF AddResource, fileVars
  <2>5. ResourcesOK'
    BY <1>0, <1>1, <2>1, <2>2, <2>3, <2>4 DEF ResourcesOK, Filed
  <2> QED BY <1>1, <2>5, ResourcesOnly DEF AddResource, calendarVars, eventVars
<1>2. ASSUME NEW f \in FileIds, NEW public \in BOOLEAN, CreateFile(x, f, public)
      PROVE  LibraryInv'
  <2> DEFINE row == MkResource("file", f, public)
  <2>1. row \in Resource /\ row.file = f
    BY <1>0 DEF MkResource, Resource
  <2>2. Filed(f) /\ AddResource(x, row)
    BY <1>2 DEF CreateFile
  <2> HIDE DEF row
  <2> QED BY <1>1, <2>1, <2>2
<1>3. ASSUME NEW public \in BOOLEAN, CreateLink(x, public)
      PROVE  LibraryInv'
  <2> DEFINE row == MkResource("link", 0, public)
  <2>1. row \in Resource /\ row.kind = "link"
    BY <1>0 DEF MkResource, Resource
  <2>2. AddResource(x, row)
    BY <1>3 DEF CreateLink
  <2> HIDE DEF row
  <2> QED BY <1>1, <2>1, <2>2
<1>4. ASSUME NEW r \in ResourceIds, ResourceDelete(x, r)
      PROVE  LibraryInv'
  <2>1. NoSuchResource \in Resource /\ NoSuchResource.kind = "none"
    BY <1>0 DEF NoSuchResource, MkResource, Resource
  <2>2. ResourcesOK'
    BY <1>0, <1>4, <2>1 DEF ResourcesOK, ResourceDelete, Filed, fileVars
  <2> QED BY <1>4, <2>2, ResourcesOnly DEF ResourceDelete, calendarVars, eventVars
<1> QED BY <1>2, <1>3, <1>4

LEMMA PostAdded ==
  ASSUME PostsOK, NEW row \in Post, row.kind # "none", CreatePost(row),
         openly' \subseteq openly \cup {written + 1},
         openly \ {written + 1} \subseteq openly',
         row.public => written + 1 \in openly'
  PROVE  PostsOK'
<1>1. written + 1 \in PostIds /\ written' = written + 1 /\ written' \in 0..MaxPosts /\ written \in Nat
  BY LibraryAssumption DEF CreatePost, PostsOK, PostIds, LibraryAssumption
<1>2. \A p \in PostIds : post'[p] = IF p = written + 1 THEN row ELSE post[p]
  BY DEF CreatePost, PostsOK
<1>3. post' \in [PostIds -> Post]
  BY DEF CreatePost, PostsOK
<1>4. PostsFresh'
  BY <1>1, <1>2 DEF PostsFresh, PostsOK, PostIds
<1>5. PostsOpen'
  BY <1>2 DEF PostsOpen, PostsOK, Written
<1> QED BY <1>1, <1>3, <1>4, <1>5 DEF PostsOK

\* A post changed, or deleted.
LEMMA PostChanged ==
  ASSUME PostsOK, NEW p \in PostIds, Written(p), NEW row \in Post,
         post' = [post EXCEPT ![p] = row], UNCHANGED written,
         openly' \subseteq openly \cup {p}, openly \ {p} \subseteq openly',
         row.kind # "none" /\ row.public => p \in openly'
  PROVE  PostsOK'
<1>1. \A q \in PostIds : post'[q] = IF q = p THEN row ELSE post[q]
  BY DEF PostsOK
<1>2. post' \in [PostIds -> Post]
  BY DEF PostsOK
<1>3. p <= written
  BY DEF PostsOK, PostsFresh, NoSuchPost, MkPost, Written, PostIds
<1>4. PostsFresh'
  BY <1>1, <1>3 DEF PostsFresh, PostsOK, PostIds
<1>5. PostsOpen'
  BY <1>1 DEF PostsOpen, PostsOK, Written
<1> QED BY <1>2, <1>4, <1>5 DEF PostsOK

LEMMA PostRequestsKeep ==
  ASSUME LibraryInv, NEW x \in Logins,
         \/ \E kind \in {"post", "gallery"}, public \in BOOLEAN :
               \E photos \in SUBSET adminContentForm(x) : adminContentCreate(x, kind, public, photos)
         \/ \E p \in PostIds, public \in BOOLEAN :
               \E photos \in SUBSET adminContentForm(x) : adminContentUpdate(x, p, public, photos)
         \/ \E p \in PostIds : adminContentDelete(x, p)
         \/ \E g \in Groups : AdminGroupCreateNews(x, g)
         \/ \E g \in Groups, p \in PostIds : AdminGroupDeleteNews(x, g, p)
  PROVE  LibraryInv'
<1>0. PostsOK /\ \A p \in PostIds : post[p] \in Post
  BY LibraryParts DEF LibraryOK, PostsOK
<1>f. adminContentForm(x) \subseteq FileIds
  BY DEF adminContentForm, listMediaGroupedByEvent
<1>1. ASSUME PostsOK', UNCHANGED <<calendarVars, fileVars, bucketVars, resource, listed>>
      PROVE  LibraryInv'
  BY <1>1, PostsOnly DEF calendarVars, eventVars
<1>2. ASSUME NEW kind \in {"post", "gallery"}, NEW public \in BOOLEAN, NEW photos \in SUBSET adminContentForm(x),
             adminContentCreate(x, kind, public, photos)
      PROVE  LibraryInv'
  <2> DEFINE row == MkPost(kind, NoGroup, public, FALSE, photos)
  <2>1. row \in Post /\ row.kind = kind /\ row.public = public
    BY <1>f DEF MkPost, Post
  <2>2. CreatePost(row) /\ openly' = Opens(written + 1, public)
    BY <1>2 DEF adminContentCreate
  <2> HIDE DEF row
  <2>3. PostsOK'
    BY <1>0, <2>1, <2>2, PostAdded DEF Opens
  <2> QED BY <1>1, <1>2, <2>3 DEF adminContentCreate
<1>3. ASSUME NEW p \in PostIds, NEW public \in BOOLEAN, NEW photos \in SUBSET adminContentForm(x),
             adminContentUpdate(x, p, public, photos)
      PROVE  LibraryInv'
  <2> DEFINE row == [post[p] EXCEPT !.public = public, !.photos = photos]
  <2>1. row \in Post /\ row.public = public
    BY <1>0, <1>f DEF Post
  <2>2. post' = [post EXCEPT ![p] = row]
    BY <1>0, <1>3 DEF adminContentUpdate, PostsOK
  <2> HIDE DEF row
  <2>3. Written(p) /\ written' = written /\ openly' = Opens(p, public)
    BY <1>3 DEF adminContentUpdate
  <2>4. PostsOK'
    BY <1>0, <2>1, <2>2, <2>3, PostChanged DEF Opens
  <2> QED BY <1>1, <1>3, <2>4 DEF adminContentUpdate
<1>4. ASSUME NEW p \in PostIds, adminContentDelete(x, p)
      PROVE  LibraryInv'
  <2>1. NoSuchPost \in Post /\ NoSuchPost.kind = "none"
    BY DEF NoSuchPost, MkPost, Post
  <2>2. Written(p) /\ post' = [post EXCEPT ![p] = NoSuchPost] /\ UNCHANGED <<written, openly>>
    BY <1>4 DEF adminContentDelete, DeletePost
  <2>3. PostsOK'
    BY <1>0, <2>1, <2>2, PostChanged
  <2> QED BY <1>1, <1>4, <2>3 DEF adminContentDelete, DeletePost
<1>5. ASSUME NEW g \in Groups, AdminGroupCreateNews(x, g)
      PROVE  LibraryInv'
  <2> DEFINE row == MkPost("post", g, FALSE, FALSE, {})
  <2>1. row \in Post /\ row.kind = "post" /\ ~row.public
    BY DEF MkPost, Post
  <2>2. CreatePost(row) /\ openly' = openly
    BY <1>5 DEF AdminGroupCreateNews, publishGroupPost
  <2> HIDE DEF row
  <2>3. PostsOK'
    BY <1>0, <2>1, <2>2, PostAdded
  <2> QED BY <1>1, <1>5, <2>3 DEF AdminGroupCreateNews, publishGroupPost
<1>6. ASSUME NEW g \in Groups, NEW p \in PostIds, AdminGroupDeleteNews(x, g, p)
      PROVE  LibraryInv'
  <2> DEFINE row == [post[p] EXCEPT !.published = FALSE]
  <2>1. row \in Post /\ row.public = post[p].public
    BY <1>0 DEF Post
  <2>2. post' = [post EXCEPT ![p] = row]
    BY <1>0, <1>6 DEF AdminGroupDeleteNews, PostsOK
  <2> HIDE DEF row
  <2>3. Written(p) /\ UNCHANGED <<written, openly>> /\ (post[p].public => p \in openly)
    BY <1>0, <1>6 DEF AdminGroupDeleteNews, PostsOK, PostsOpen
  <2>4. PostsOK'
    BY <1>0, <2>1, <2>2, <2>3, PostChanged
  <2> QED BY <1>1, <1>6, <2>4 DEF AdminGroupDeleteNews
<1> QED BY <1>2, <1>3, <1>4, <1>5, <1>6

LEMMA LibraryRequestInv ==
  ASSUME LibraryInv, LibraryRequest
  PROVE  LibraryInv'
<1>1. CASE UNCHANGED <<calendarVars, libraryVars>>
  BY <1>1, LibraryRests DEF calendarVars, eventVars
<1>2. ASSUME NEW x \in Logins, NEW what \in Uploads, NEW links \in SUBSET (1..spent), NEW n \in 1..2,
             FileUpload(x, what[1], what[2], links, n)
      PROVE  LibraryInv'
  BY <1>1, <1>2 DEF FileUpload
<1> QED
  BY <1>1, <1>2, FileRequestsKeep, ResourceRequestsKeep, PostRequestsKeep
  DEF LibraryRequest, AdminGalleryUpload, hostOne, FilePosterUpload, FileDelete, FileSetPublic, ResourceSetPublic,
      adminContentPublishToggle, Flip, serveImageVariant, BackfillThumbnails, RekeyFiles

\* A new row, under a key that no row has.
LEMMA Created ==
  ASSUME LibraryInv, NEW t, NEW row \in File, Create(t, row), UNCHANGED <<event, bucketVars, pageVars>>,
         row.kind # "none", row.events = {}, row.key.by # "row"
  PROVE  LibraryInv'
<1>1. LibraryOK /\ MaxFiles \in Nat
  BY LibraryParts, LibraryAssumption DEF LibraryAssumption
<1>2. filed + 1 \in FileIds /\ filed' = filed + 1 /\ filed' \in 0..MaxFiles /\ filed \in Nat
  BY <1>1 DEF Create, LibraryOK, FilesOK, FileIds
<1>3. \A f \in FileIds : file'[f] = IF f = filed + 1 THEN row ELSE file[f]
  BY <1>1 DEF Create, LibraryOK, FilesOK
<1>4. file' \in [FileIds -> File]
  BY <1>1 DEF Create, LibraryOK, FilesOK
<1>5. \A f \in FileIds : Filed(f)' <=> Filed(f) \/ f = filed + 1
  BY <1>3 DEF Filed
<1>6. \A f \in FileIds : Filed(f) => file[f].key # row.key
  BY DEF Create, ByStorageKey
<1>7. FilesOK'
  <2>1. \A f, g \in FileIds : Filed(f)' /\ Filed(g)' /\ file'[f].key = file'[g].key => f = g
    BY <1>1, <1>3, <1>5, <1>6 DEF LibraryOK, FilesOK
  <2>2. \A f \in FileIds : file'[f].events \subseteq {e \in EventIds : Here(e)}
    BY <1>1, <1>3 DEF LibraryOK, FilesOK
  <2>3. RowKeys'
    BY <1>1, <1>2, <1>3, <1>5 DEF RowKeys, LibraryOK, FilesOK, FileIds
  <2> QED BY <1>2, <1>4, <2>1, <2>2, <2>3 DEF FilesOK, Here
<1>8. ResourcesOK'
  BY <1>1, <1>5 DEF LibraryOK, ResourcesOK, Filed, pageVars
<1> QED BY <1>1, <1>7, <1>8, PostsSame, BucketSame, LibraryPartsNext DEF LibraryOK, pageVars

\* What a task does to the bucket keeps what the bucket holds a set of objects.
LEMMA BucketSteps ==
  ASSUME LibraryInv, UNCHANGED <<calendarVars, fileVars, pageVars>>, NEW k \in Key, NEW as \in Suffixes,
         NEW f \in FileIds,
         \/ objects' \subseteq objects \cup {<<k, s>> : s \in Suffixes} /\ posters' = posters
         \/ objects' = objects /\ posters' \subseteq posters \cup {f}
  PROVE  LibraryInv'
<1>1. BucketOK
  BY LibraryParts DEF LibraryOK
<1>2. BucketOK'
  BY <1>1 DEF BucketOK
<1> QED BY <1>2, BucketOnly DEF calendarVars, eventVars

LEMMA PutKeeps ==
  ASSUME LibraryInv, UNCHANGED <<calendarVars, fileVars, posters, pageVars>>, NEW k \in Key, NEW kind,
         Put(k, kind)
  PROVE  LibraryInv'
<1>1. objects' \subseteq objects \cup {<<k, s>> : s \in Suffixes}
  BY DEF Put, Suffixes
<1>2. BucketOK /\ posters' = posters
  BY LibraryParts DEF LibraryOK
<1>3. BucketOK'
  BY <1>1, <1>2 DEF BucketOK
<1> QED BY <1>3, BucketOnly DEF calendarVars, eventVars

LEMMA SetFlagKeeps ==
  ASSUME LibraryInv, NEW t \in FlipTask, SetFlag(t)
  PROVE  LibraryInv'
<1>0. LibraryOK /\ t.to \in BOOLEAN /\ t.at \in {"file", "resource", "post"}
  BY LibraryParts DEF FlipTask
<1>1. CASE t.at = "file"
  <2>0. UNCHANGED <<event, filed, bucketVars, pageVars>>
    BY <1>1 DEF SetFlag, calendarVars, eventVars, pageVars
  <2>1. CASE ~Filed(t.n)
    <3>1. FilesStay
      BY <1>0, <1>1, <2>0, <2>1, FilesUntouched DEF SetFlag, LibraryOK
    <3> QED BY <2>0, <3>1, FilesOnly
  <2>2. CASE Filed(t.n)
    <3> DEFINE row == [file[t.n] EXCEPT !.public = t.to]
    <3>1. t.n \in FileIds /\ file[t.n] \in File
      BY <1>0, <2>2 DEF Filed, LibraryOK, FilesOK
    <3>2. row \in File /\ row.kind = file[t.n].kind /\ row.key = file[t.n].key /\ row.events = file[t.n].events
      BY <1>0, <3>1 DEF File
    <3>3. file' = [file EXCEPT ![t.n] = row]
      BY <1>0, <1>1, <2>2, <3>1 DEF SetFlag, LibraryOK, FilesOK
    <3> HIDE DEF row
    <3>4. \A e \in row.events : Here(e)
      BY <1>0, <3>1, <3>2 DEF LibraryOK, FilesOK
    <3>5. FilesStay
      BY <1>0, <2>0, <3>1, <3>2, <3>3, <3>4, RowStays DEF LibraryOK
    <3> QED BY <2>0, <3>5, FilesOnly
  <2> QED BY <2>1, <2>2
<1>2. CASE t.at = "resource"
  <2>1. UNCHANGED <<event, fileVars, bucketVars, listed, post, written, openly>>
    BY <1>2 DEF SetFlag, calendarVars, eventVars, fileVars
  <2>2. ResourcesOK'
    <3>1. \A r \in ResourceIds : /\ resource'[r] \in Resource /\ resource'[r].kind = resource[r].kind
                                 /\ resource'[r].file = resource[r].file
      BY <1>0, <1>2 DEF SetFlag, LibraryOK, ResourcesOK, Resource
    <3>2. resource' \in [ResourceIds -> Resource]
      BY <1>0, <1>2, <3>1 DEF SetFlag, LibraryOK, ResourcesOK
    <3> QED BY <1>0, <2>1, <3>1, <3>2 DEF LibraryOK, ResourcesOK, Filed, fileVars
  <2> QED BY <2>1, <2>2, ResourcesOnly
<1>3. CASE t.at = "post"
  <2>1. UNCHANGED <<event, fileVars, bucketVars, resource, listed, written, openly>>
    BY <1>3 DEF SetFlag, calendarVars, eventVars, fileVars
  <2>2. PostsOK'
    <3>0. \A p \in PostIds : p > written => ~Written(p)
      BY <1>0 DEF LibraryOK, PostsOK, PostsFresh, Written, NoSuchPost, MkPost
    <3>1. \A p \in PostIds : /\ post'[p] \in Post /\ post'[p].kind = post[p].kind
                             /\ post'[p].public = post[p].public
                             /\ ~Written(p) => post'[p] = post[p]
      BY <1>0, <1>3 DEF SetFlag, LibraryOK, PostsOK, Post
    <3>2. post' \in [PostIds -> Post]
      BY <1>0, <1>3, <3>1 DEF SetFlag, LibraryOK, PostsOK
    <3> QED BY <1>0, <2>1, <3>0, <3>1, <3>2 DEF LibraryOK, PostsOK, PostsOpen, PostsFresh, Written
  <2> QED BY <2>1, <2>2, PostsOnly
<1> QED BY <1>0, <1>1, <1>2, <1>3

LEMMA DeleteRowKeeps ==
  ASSUME LibraryInv, NEW t \in DropTask, DeleteRow(t)
  PROVE  LibraryInv'
<1>0. LibraryOK /\ t.f \in FileIds /\ FileIds \subseteq 0..MaxFiles /\ 0 \in 0..MaxFiles
  BY LibraryParts, LibraryAssumption DEF LibraryAssumption, DropTask, FileIds
<1>1. NoSuchFile \in File /\ NoSuchFile.kind = "none" /\ NoSuchFile.events = {}
  BY NoKeyKey DEF NoSuchFile, MkFile, File, Kinds, Links
<1>2. NoSuchResource \in Resource /\ NoSuchResource.kind = "none"
  BY <1>0 DEF NoSuchResource, MkResource, Resource
<1>3. UNCHANGED <<event, filed, bucketVars, listed, post, written, openly>>
  BY DEF DeleteRow, calendarVars, eventVars
<1>4. \A f \in FileIds : file'[f] = IF f = t.f THEN NoSuchFile ELSE file[f]
  BY <1>0 DEF DeleteRow, LibraryOK, FilesOK
<1>5. \A f \in FileIds : Filed(f)' <=> Filed(f) /\ f # t.f
  BY <1>1, <1>4 DEF Filed
<1>6. FilesOK'
  <2>1. file' \in [FileIds -> File]
    BY <1>0, <1>1 DEF DeleteRow, LibraryOK, FilesOK
  <2>2. RowKeys'
    BY <1>0, <1>3, <1>4, <1>5 DEF RowKeys, LibraryOK, FilesOK
  <2>3. \A f \in FileIds : file'[f].events \subseteq {e \in EventIds : Here(e)'}
    BY <1>0, <1>1, <1>3, <1>4 DEF LibraryOK, FilesOK, Here
  <2>4. ASSUME NEW f \in FileIds, NEW g \in FileIds, Filed(f)', Filed(g)', file'[f].key = file'[g].key
        PROVE  f = g
    <3>1. f # t.f /\ g # t.f /\ Filed(f) /\ Filed(g)
      BY <1>5, <2>4
    <3>2. file'[f] = file[f] /\ file'[g] = file[g]
      BY <1>4, <3>1
    <3> QED BY <1>0, <2>4, <3>1, <3>2 DEF LibraryOK, FilesOK
  <2> QED BY <1>0, <1>3, <2>1, <2>2, <2>3, <2>4 DEF LibraryOK, FilesOK
<1>7. ResourcesOK'
  <2>1. resource' \in [ResourceIds -> Resource]
    BY <1>0, <1>2 DEF DeleteRow, LibraryOK, ResourcesOK
  <2>2. \A r \in ResourceIds : (resource[r].kind = "file")' => Filed(resource[r].file)'
    BY <1>0, <1>2, <1>5 DEF DeleteRow, LibraryOK, ResourcesOK, Filed
  <2> QED BY <1>0, <1>3, <2>1, <2>2 DEF LibraryOK, ResourcesOK
<1> QED BY <1>0, <1>3, <1>6, <1>7, PostsSame, BucketSame, LibraryPartsNext DEF LibraryOK

LEMMA SetStorageKeyKeeps ==
  ASSUME LibraryInv, NEW t \in RekeyTask, RekeyFormed(t), t.at = "pointing", SetStorageKey(t)
  PROVE  LibraryInv'
<1>0. LibraryOK /\ t.f \in FileIds /\ t.want \in Key /\ t.want.by = "row" /\ t.want.n = t.f
  BY LibraryParts DEF RekeyTask, RekeyFormed
<1>1. UNCHANGED <<event, filed, bucketVars, resource, listed, post, written, openly>>
  BY DEF SetStorageKey, calendarVars, eventVars, pageVars
<1>2. CASE ~Filed(t.f)
  <2>1. FilesStay
    BY <1>0, <1>1, <1>2, FilesUntouched DEF SetStorageKey, LibraryOK
  <2> QED BY <1>1, <2>1, FilesOnly DEF pageVars
<1>3. CASE Filed(t.f)
  <2> DEFINE row == [file[t.f] EXCEPT !.key = t.want]
  <2>1. row \in File /\ row.kind = file[t.f].kind /\ row.key = t.want /\ row.events = file[t.f].events
    BY <1>0 DEF LibraryOK, FilesOK, File
  <2>2. file' = [file EXCEPT ![t.f] = row]
    BY <1>0, <1>3 DEF SetStorageKey, LibraryOK, FilesOK
  <2> HIDE DEF row
  <2>3. \A f \in FileIds : file'[f] = IF f = t.f THEN row ELSE file[f]
    BY <1>0, <2>2 DEF LibraryOK, FilesOK
  <2>4. \A f \in FileIds : Filed(f)' <=> Filed(f)
    BY <2>1, <2>3 DEF Filed
  <2>5. \A f \in FileIds : Filed(f) /\ file[f].key = t.want => f = t.f
    BY <1>0 DEF LibraryOK, FilesOK, RowKeys
  <2>6. FilesOK'
    <3>1. file' \in [FileIds -> File]
      BY <1>0, <2>1, <2>2 DEF LibraryOK, FilesOK
    <3>2. \A f, g \in FileIds : Filed(f)' /\ Filed(g)' /\ file'[f].key = file'[g].key => f = g
      BY <1>0, <2>1, <2>3, <2>4, <2>5 DEF LibraryOK, FilesOK
    <3>3. RowKeys'
      BY <1>0, <1>1, <2>1, <2>3, <2>4 DEF RowKeys, LibraryOK, FilesOK
    <3>4. \A f \in FileIds : file'[f].events \subseteq {e \in EventIds : Here(e)'}
      BY <1>0, <1>1, <2>1, <2>3 DEF LibraryOK, FilesOK, Here
    <3> QED BY <1>0, <1>1, <3>1, <3>2, <3>3, <3>4 DEF LibraryOK, FilesOK
  <2>7. ResourcesOK'
    BY <1>0, <1>1, <2>4 DEF LibraryOK, ResourcesOK, Filed
  <2> QED BY <1>0, <1>1, <2>6, <2>7, PostsSame, BucketSame, LibraryPartsNext DEF LibraryOK
<1> QED BY <1>2, <1>3

LEMMA UploadKeeps ==
  ASSUME LibraryInv, NEW t \in UploadTask, UploadFormed(t), UploadStep(t)
  PROVE  LibraryInv'
<1>0. FilesOK /\ t.key \in Key /\ t.ids \subseteq FileIds /\ t.kind \in Kinds
  BY LibraryParts DEF LibraryOK, UploadTask
<1>1. CASE storeUpload(t)
  BY <1>0, <1>1, PutKeeps DEF storeUpload
<1>2. CASE RecordUpload(t)
  <2> DEFINE row == MkFile(t.kind, t.photo, t.public, t.key)
  <2>1. row \in File /\ row.kind = t.kind /\ row.events = {} /\ row.key = t.key
    BY DEF UploadTask, MkFile, File, Links
  <2>2. Create(t, row) /\ UNCHANGED <<event, bucketVars, pageVars>>
    BY <1>2 DEF RecordUpload, calendarVars, eventVars
  <2> HIDE DEF row
  <2> QED BY <2>1, <2>2, Created DEF UploadFormed
<1>3. ASSUME NEW f \in t.ids, NEW ok \in BOOLEAN, LinkUpload(t, f, ok)
      PROVE  LibraryInv'
  <2>0. f \in FileIds /\ UNCHANGED <<event, filed, bucketVars, pageVars>>
    BY <1>0, <1>3 DEF LinkUpload, calendarVars, eventVars
  <2> DEFINE row == [file[f] EXCEPT !.events = Linked(t.links)]
  <2>1. row \in File /\ row.kind = file[f].kind /\ row.key = file[f].key /\ \A e \in row.events : Here(e)
    <3>1. file[f] \in File
      BY <1>0, <2>0 DEF FilesOK
    <3>2. Linked(t.links) \in Links /\ \A e \in Linked(t.links) : Here(e)
      BY DEF Linked, Links, Here
    <3> QED BY <3>1, <3>2 DEF File
  <2>2. CASE file' = file
    <3>1. FilesStay
      BY <1>0, <2>0, <2>2, FilesUntouched
    <3> QED BY <2>0, <3>1, FilesOnly
  <2>3. CASE file' = [file EXCEPT ![f].events = Linked(t.links)]
    <3>1. file' = [file EXCEPT ![f] = row]
      BY <1>0, <2>0, <2>3 DEF FilesOK
    <3> HIDE DEF row
    <3>2. FilesStay
      BY <1>0, <2>0, <2>1, <3>1, RowStays
    <3> QED BY <2>0, <3>2, FilesOnly
  <2> QED BY <1>3, <2>2, <2>3 DEF LinkUpload
<1> QED BY <1>1, <1>2, <1>3 DEF UploadStep

LEMMA SmallKeeps ==
  ASSUME LibraryInv, NEW t \in Task, Formed(t),
         \/ t.do = "host" /\ HostStep(t)
         \/ t.do = "poster" /\ PosterStep(t)
         \/ t.do = "drop" /\ DropStep(t)
         \/ t.do = "flip" /\ SetFlag(t)
         \/ t.do = "variant" /\ \E ok \in BOOLEAN : fetchAndCacheVariant(t, t.as, ok)
         \/ t.do = "backfill" /\ BackfillStep(t)
  PROVE  LibraryInv'
<1>0. FilesOK
  BY LibraryParts DEF LibraryOK
<1>n. NoKey \in Key /\ 1 \in FileIds
  BY NoKeyKey, LibraryAssumption DEF LibraryAssumption, FileIds
<1>r. CASE UNCHANGED <<calendarVars, libraryVars>>
  BY <1>r, LibraryRests DEF calendarVars, eventVars
<1>1. CASE t.do = "host" /\ HostStep(t)
  <2>0. t.key \in Key /\ t.key.by = "digest"
    BY <1>1, LibraryKinds DEF HostTask, Formed, HostFormed
  <2>1. CASE PutHosted(t)
    BY <2>0, <2>1, PutKeeps DEF PutHosted
  <2>2. CASE RecordHosted(t)
    <3> DEFINE row == MkFile("image", FALSE, TRUE, t.key)
    <3>1. row \in File /\ row.kind = "image" /\ row.events = {} /\ row.key = t.key
      BY <2>0 DEF MkFile, File, Links, Kinds
    <3>2. Create(t, row) /\ UNCHANGED <<event, bucketVars, pageVars>>
      BY <2>2 DEF RecordHosted, calendarVars, eventVars
    <3> HIDE DEF row
    <3> QED BY <2>0, <3>1, <3>2, Created
  <2> QED BY <1>r, <1>1, <2>1, <2>2 DEF HostStep, LookUpHosted
<1>2. CASE t.do = "poster" /\ PosterStep(t)
  <2>0. t.f \in FileIds
    BY <1>2, LibraryKinds DEF PosterTask
  <2>1. CASE PutPoster(t)
    <3>1. "" \in Suffixes /\ objects' = objects /\ posters' \subseteq posters \cup {t.f}
      BY <2>1 DEF PutPoster, Suffixes
    <3> QED BY <1>n, <2>0, <2>1, <3>1, BucketSteps DEF PutPoster
  <2>2. CASE SetPoster(t)
    <3> DEFINE row == [file[t.f] EXCEPT !.poster = TRUE]
    <3>0. UNCHANGED <<event, filed, bucketVars, pageVars>>
      BY <2>2 DEF SetPoster, calendarVars, eventVars
    <3>1. row \in File /\ row.kind = file[t.f].kind /\ row.key = file[t.f].key
          /\ \A e \in row.events : Here(e)
      BY <1>0, <2>0 DEF FilesOK, File
    <3>2. CASE file' = file
      BY <1>0, <3>0, <3>2, FilesUntouched, FilesOnly
    <3>3. CASE file' = [file EXCEPT ![t.f].poster = TRUE]
      <4>1. file' = [file EXCEPT ![t.f] = row]
        BY <1>0, <2>0, <3>3 DEF FilesOK
      <4> HIDE DEF row
      <4>2. FilesStay
        BY <1>0, <2>0, <3>0, <3>1, <4>1, RowStays
      <4> QED BY <3>0, <4>2, FilesOnly
    <3> QED BY <2>2, <3>2, <3>3 DEF SetPoster
  <2> QED BY <1>2, <2>1, <2>2 DEF PosterStep
<1>3. CASE t.do = "drop" /\ DropStep(t)
  <2>0. t \in DropTask /\ t.f \in FileIds /\ t.key \in Key /\ "" \in Suffixes
    BY <1>3, LibraryKinds DEF DropTask, Suffixes
  <2>1. CASE DeleteRow(t)
    BY <2>0, <2>1, DeleteRowKeeps
  <2>2. ASSUME NEW ok \in BOOLEAN, DeleteObject(t, ok) \/ DeleteThumb(t, ok) \/ DeletePoster(t, ok)
        PROVE  LibraryInv'
    <3>1. UNCHANGED <<calendarVars, fileVars, pageVars>>
      BY <2>2 DEF DeleteObject, DeleteThumb, DeletePoster
    <3>2. \/ objects' \subseteq objects \cup {<<t.key, s>> : s \in Suffixes} /\ posters' = posters
          \/ objects' = objects /\ posters' \subseteq posters \cup {t.f}
      BY <2>2 DEF DeleteObject, DeleteThumb, DeletePoster
    <3> QED BY <2>0, <3>1, <3>2, BucketSteps
  <2> QED BY <1>3, <2>1, <2>2 DEF DropStep
<1>4. CASE t.do = "flip" /\ SetFlag(t)
  BY <1>4, LibraryKinds, SetFlagKeeps
<1>5. ASSUME NEW as \in {"thumb", "banner"}, NEW ok \in BOOLEAN, fetchAndCacheVariant(t, as, ok), t.key \in Key
      PROVE  LibraryInv'
  <2>1. UNCHANGED <<calendarVars, fileVars, pageVars>> /\ as \in Suffixes
    BY <1>5 DEF fetchAndCacheVariant, Suffixes
  <2>2. objects' \subseteq objects \cup {<<t.key, s>> : s \in Suffixes} /\ posters' = posters
    BY <1>5, <2>1 DEF fetchAndCacheVariant
  <2> QED BY <1>n, <1>5, <2>1, <2>2, BucketSteps
<1>6. CASE t.do = "variant" /\ \E ok \in BOOLEAN : fetchAndCacheVariant(t, t.as, ok)
  <2>1. t.key \in Key /\ t.as \in {"thumb", "banner"}
    BY <1>6, LibraryKinds DEF VariantTask
  <2> QED BY <1>5, <1>6, <2>1
<1>7. CASE t.do = "backfill" /\ BackfillStep(t)
  <2>1. t.key \in Key /\ "thumb" \in {"thumb", "banner"}
    BY <1>7, LibraryKinds DEF BackfillTask
  <2> QED BY <1>r, <1>5, <1>7, <2>1 DEF BackfillStep, ReadOriginal, RunDone
<1> QED BY <1>1, <1>2, <1>3, <1>4, <1>6, <1>7

LEMMA RekeyKeeps ==
  ASSUME LibraryInv, NEW t \in RekeyTask, RekeyFormed(t), RekeyStep(t)
  PROVE  LibraryInv'
<1>0. t.from \in Key /\ t.want \in Key /\ "" \in Suffixes /\ "thumb" \in Suffixes /\ 1 \in FileIds
  BY LibraryAssumption DEF RekeyTask, Suffixes, LibraryAssumption, FileIds
<1>1. CASE UNCHANGED <<calendarVars, libraryVars>>
  BY <1>1, LibraryRests DEF calendarVars, eventVars
<1>2. ASSUME NEW k \in {t.from, t.want}, UNCHANGED <<calendarVars, fileVars, posters, pageVars>>,
             objects' \subseteq objects \cup {<<k, s>> : s \in Suffixes}
      PROVE  LibraryInv'
  BY <1>0, <1>2, BucketSteps
<1>3. ASSUME NEW done \in BOOLEAN, NEW claims \in BOOLEAN, CopyObject(t, done, claims)
      PROVE  LibraryInv'
  <2>1. objects' \subseteq objects \cup {<<t.want, s>> : s \in Suffixes}
    BY <1>0, <1>3 DEF CopyObject
  <2> QED BY <1>2, <1>3, <2>1 DEF CopyObject
<1>4. ASSUME NEW ok \in BOOLEAN, CopyThumb(t, ok)
      PROVE  LibraryInv'
  <2>1. objects' \subseteq objects \cup {<<t.want, s>> : s \in Suffixes}
    BY <1>0, <1>4 DEF CopyThumb
  <2> QED BY <1>2, <1>4, <2>1 DEF CopyThumb
<1>5. ASSUME NEW ok \in BOOLEAN, DeleteOldObject(t, ok) \/ DeleteOldThumb(t, ok)
      PROVE  LibraryInv'
  <2>1. objects' \subseteq objects \cup {<<t.from, s>> : s \in Suffixes}
    BY <1>5 DEF DeleteOldObject, DeleteOldThumb
  <2> QED BY <1>2, <1>5, <2>1 DEF DeleteOldObject, DeleteOldThumb
<1>6. CASE t.at = "pointing" /\ SetStorageKey(t)
  BY <1>6, SetStorageKeyKeeps
<1> QED BY <1>1, <1>3, <1>4, <1>5, <1>6 DEF RekeyStep, PickFile, RunDone, VerifyCopy, RekeyFails

LEMMA LibraryStepInv ==
  ASSUME LibraryInv, NEW t \in Task, Formed(t), LibraryStep(t)
  PROVE  LibraryInv'
<1>1. CASE t.do = "upload" /\ UploadStep(t)
  BY <1>1, LibraryKinds, UploadKeeps DEF Formed
<1>2. CASE t.do = "rekey" /\ RekeyStep(t)
  BY <1>2, LibraryKinds, RekeyKeeps DEF Formed
<1>3. CASE t.do \notin {"upload", "rekey"}
  BY <1>3, SmallKeeps DEF LibraryStep
<1> QED BY <1>1, <1>2, <1>3 DEF LibraryStep
-----------------------------------------------------------------------------
(* Numbers and finite sets.                                                *)

LEMMA LeastOf ==
  ASSUME NEW S \in SUBSET Nat, S # {}
  PROVE  \E n \in S : \A m \in S : n <= m
<1> SUFFICES ASSUME \A n \in S : \E m \in S : m < n
             PROVE  FALSE
  OBVIOUS
<1> DEFINE below == {m \in Nat : \A s \in S : m < s}
           up == [m \in below |-> m + 1]
<1>1. PICK n \in S : TRUE
  OBVIOUS
<1>2. below \in SUBSET Nat /\ \A m \in below : m <= n
  BY <1>1
<1>3. IsFiniteSet(below)
  <2> HIDE DEF below
  <2> QED BY <1>1, <1>2, FS_BoundedSetOfNaturals
<1>4. 0 \in below
  BY <1>1
<1>5. \A m \in below : m + 1 \in below
  <2> SUFFICES ASSUME NEW m \in below, NEW s \in S
               PROVE  m + 1 < s
    OBVIOUS
  <2>1. PICK r \in S : r < s
    OBVIOUS
  <2>2. m < r /\ r \in Nat /\ s \in Nat /\ m \in Nat
    OBVIOUS
  <2> QED BY <2>1, <2>2
<1>6. up \in Injection(below, below)
  BY <1>2, <1>5 DEF Injection, IsInjective
<1>7. up \in Surjection(below, below)
  <2> HIDE DEF below, up
  <2> QED BY <1>3, <1>6, FS_Injection
<1>8. PICK m \in below : up[m] = 0
  BY <1>4, <1>7 DEF Surjection
<1> QED BY <1>2, <1>8

LEMMA GreatestOf ==
  ASSUME NEW S \in SUBSET Nat, S # {}, NEW k \in Nat, \A n \in S : n <= k
  PROVE  \E n \in S : \A m \in S : m <= n
<1> DEFINE above == {n \in Nat : \A m \in S : m <= n}
<1>1. above \in SUBSET Nat /\ above # {}
  OBVIOUS
<1>2. PICK n \in above : \A m \in above : n <= m
  <2> HIDE DEF above
  <2> QED BY <1>1, LeastOf
<1>3. n \in Nat /\ \A m \in S : m \in Nat /\ m <= n
  BY <1>1
<1>4. n \in S
  <2> SUFFICES ASSUME n \notin S
               PROVE  FALSE
    OBVIOUS
  <2>1. PICK m \in S : TRUE
    OBVIOUS
  <2>2. n # 0 /\ n - 1 \in Nat
    BY <1>3, <2>1
  <2>3. n - 1 \in above
    BY <1>3, <2>2
  <2> QED BY <1>2, <1>3, <2>3
<1> QED BY <1>3, <1>4

-----------------------------------------------------------------------------
(* What a new label is given.                                              *)

LEMMA TakenFinite ==
  ASSUME IsFiniteSet(label), NEW kind
  PROVE  IsFiniteSet({l.value : l \in ListLabels(kind)})
<1> DEFINE taken == {l.value : l \in ListLabels(kind)}
           f == [l \in ListLabels(kind) |-> l.value]
<1>1. IsFiniteSet(ListLabels(kind))
  BY FS_Subset DEF ListLabels
<1>2. f \in Surjection(ListLabels(kind), taken)
  BY DEF Surjection
<1> HIDE DEF taken, f
<1>3. IsFiniteSet(taken)
  BY <1>1, <1>2, FS_Surjection
<1> QED BY <1>3 DEF taken

\* Some first number is free.
LEMMA SlugFree ==
  ASSUME IsFiniteSet(label), NEW kind, NEW text \in Texts
  PROVE  uniqueSlug(kind, text) \in Values
<1> DEFINE taken == {l.value : l \in ListLabels(kind)}
           numbers == 1..(Cardinality(taken) + 1)
           free == {n \in numbers : <<text, n>> \notin taken}
           name == [n \in numbers |-> <<text, n>>]
<1>1. IsFiniteSet(taken)
  BY TakenFinite
<1>2. Cardinality(taken) \in Nat
  <2> HIDE DEF taken
  <2> QED BY <1>1, FS_CardinalityType
<1>3. IsFiniteSet(numbers) /\ Cardinality(numbers) = Cardinality(taken) + 1
  <2> DEFINE k == Cardinality(taken)
  <2>0. k \in Nat /\ 1 \in Int /\ k + 1 \in Int /\ ~(1 > k + 1) /\ (k + 1) - 1 + 1 = k + 1
    BY <1>2
  <2> HIDE DEF k
  <2>1. IsFiniteSet(1..(k + 1)) /\ Cardinality(1..(k + 1)) = k + 1
    BY <2>0, FS_Interval
  <2> QED BY <2>1 DEF k
<1>4. free # {}
  <2> SUFFICES ASSUME free = {}
               PROVE  FALSE
    OBVIOUS
  <2>1. name \in [numbers -> taken]
    OBVIOUS
  <2>2. \A m, n \in numbers : name[m] = name[n] => m = n
    OBVIOUS
  <2>3. Cardinality(taken) < Cardinality(numbers)
    <3> HIDE DEF numbers, taken
    <3> QED BY <1>2, <1>3
  <2> HIDE DEF name, numbers, taken, free
  <2> QED BY <1>1, <1>3, <2>1, <2>2, <2>3, FS_PigeonHole
<1>5. PICK n \in free : \A m \in free : n <= m
  <2>1. free \in SUBSET Nat
    BY <1>2
  <2> HIDE DEF free
  <2> QED BY <1>4, <2>1, LeastOf
<1>6. n \in numbers /\ <<text, n>> \notin taken /\ \A m \in 1..(n - 1) : <<text, m>> \in taken
  <2>1. n \in numbers /\ <<text, n>> \notin taken
    OBVIOUS
  <2>2. \A m \in 1..(n - 1) : m \in numbers /\ ~(n <= m)
    BY <1>2
  <2> HIDE DEF taken, numbers
  <2> QED BY <1>5, <2>1, <2>2
<1> DEFINE first == CHOOSE m \in numbers : <<text, m>> \notin taken /\ \A k \in 1..(m - 1) : <<text, k>> \in taken
<1>7. first \in numbers
  <2> HIDE DEF numbers, taken
  <2> QED BY <1>6
<1>8. numbers \subseteq Nat
  BY <1>2
<1>9. uniqueSlug(kind, text) = <<text, first>>
  BY DEF uniqueSlug
<1> HIDE DEF numbers, first
<1> QED BY <1>7, <1>8, <1>9 DEF Values

\* The place after the last is a place.
LEMMA NextPlace ==
  ASSUME label \subseteq Label, LabelsBounded, NEW kind
  PROVE  next(kind) \in Nat
<1> DEFINE sorts == {0} \cup {l.sort : l \in ListLabels(kind)}
<1>1. PICK k \in Nat : \A l \in label : l.sort <= k
  BY DEF LabelsBounded
<1>2. sorts \in SUBSET Nat /\ sorts # {} /\ \A s \in sorts : s <= k
  BY <1>1 DEF ListLabels, Label
<1>3. \E s \in sorts : \A r \in sorts : r <= s
  <2> HIDE DEF sorts
  <2> QED BY <1>1, <1>2, GreatestOf
<1> DEFINE last == CHOOSE s \in sorts : \A r \in sorts : r <= s
<1>4. last \in sorts
  <2> HIDE DEF sorts
  <2> QED BY <1>3
<1>5. next(kind) = 1 + last
  BY DEF next
<1> HIDE DEF sorts, last
<1> QED BY <1>2, <1>4, <1>5
-----------------------------------------------------------------------------
(* The enquiries' tasks.                                                   *)

Told(u) ==
    \/ u \in JoinTask \/ u \in SwitchTask \/ u \in MoveTask
    \/ u \in PasteTask /\ PasteFormed(u)
    \/ u \in DefaultsTask /\ DefaultsFormed(u)
    \/ u \in LabelTask /\ LabelFormed(u)
    \/ u \in ReorderTask /\ ReorderFormed(u)

LEMMA ToldFormed ==
  ASSUME NEW u, Told(u)
  PROVE  u \in Task /\ Formed(u) /\ u.do \in ProspectDoes
<1>1. u \in ProspectTask /\ u.do \in ProspectDoes
  BY DEF Told, ProspectTask, ProspectDoes, JoinTask, SwitchTask, MoveTask, PasteTask, DefaultsTask,
         LabelTask, ReorderTask
<1>2. Formed(u)
  <2>1. CASE u \in JoinTask \/ u \in SwitchTask \/ u \in MoveTask
    BY <2>1 DEF JoinTask, SwitchTask, MoveTask, Formed
  <2>2. CASE u \in PasteTask /\ PasteFormed(u)
    BY <2>2 DEF PasteTask, Formed
  <2>3. CASE u \in DefaultsTask /\ DefaultsFormed(u)
    BY <2>3 DEF DefaultsTask, Formed
  <2>4. CASE u \in LabelTask /\ LabelFormed(u)
    BY <2>4 DEF LabelTask, Formed
  <2>5. CASE u \in ReorderTask /\ ReorderFormed(u)
    BY <2>5 DEF ReorderTask, Formed
  <2> QED BY <2>1, <2>2, <2>3, <2>4, <2>5 DEF Told
<1> QED BY <1>1, <1>2 DEF Task

LEMMA ToldBegins ==
  ASSUME NEW u, Told(u), Starts(u), u.id = made
  PROVE  Begins(ProspectDoes)
BY ToldFormed DEF Begins
LEMMA ToldGoesOn ==
  ASSUME NEW t, NEW u, Told(u), Goes(t, u), u.id = t.id, u.do = t.do
  PROVE  GoesOn(t)
BY ToldFormed DEF GoesOn

LEMMA Moving ==
  ASSUME made \in Nat, ProspectTypeOK, NEW ps \in SUBSET EnquiryIds, NEW v, NEW cs \in SUBSET Values,
         Move(ps, v, cs)
  PROVE  \E u \in MoveTask : /\ u.id = made /\ Starts(u) /\ u.ps = ps /\ u.status = v /\ u.categories = cs
<1> DEFINE u == [id |-> made, do |-> "move", at |-> "writing", ps |-> ps, status |-> v, categories |-> cs]
<1>1. v \in Values /\ Starts(u)
  BY DEF Move, LabelExists, ListLabels, ProspectTypeOK, Label
<1>2. u \in MoveTask
  BY <1>1 DEF MoveTask
<1> QED BY <1>1, <1>2

LEMMA Pasting ==
  ASSUME made \in Nat, NEW x, NEW list \in Pastes, ProspectImportSave(x, list)
  PROVE  \E u \in PasteTask : /\ u.id = made /\ Starts(u) /\ PasteFormed(u)
                              /\ \A i \in u.lines : u.list[i] \notin existingEnquiries
<1> DEFINE lines == ParsePaste(list)
           u == [id |-> made, do |-> "paste", at |-> "saving", list |-> list, lines |-> lines]
<1>1. lines # {} /\ Starts(u)
  BY DEF ProspectImportSave
<1>2. /\ lines \subseteq DOMAIN list
      /\ \A i \in lines : list[i] \notin existingEnquiries /\ \A j \in 1..(i - 1) : list[j] # list[i]
  BY DEF ParsePaste
<1>3. DOMAIN list \subseteq Nat \ {0} /\ \A i \in DOMAIN list : \A j \in 1..i : j \in DOMAIN list
  <2>1. list \in Seq(Addresses \X Children)
    BY ProspectAssumption DEF ProspectAssumption
  <2>2. Len(list) \in Nat /\ DOMAIN list = 1..Len(list)
    BY <2>1
  <2> QED BY <2>2
<1>4. \A i, j \in lines : list[i] = list[j] => i = j
  <2> HIDE DEF lines
  <2>1. \A i, j \in lines : i < j => list[i] # list[j]
    BY <1>2, <1>3
  <2>2. \A i, j \in lines : i \in Nat /\ j \in Nat /\ (i < j \/ j < i \/ i = j)
    BY <1>2, <1>3
  <2> QED BY <2>1, <2>2
<1>5. lines \in SUBSET Nat
  BY <1>2, <1>3
<1> HIDE DEF lines
<1>6. u \in PasteTask /\ u.lines = lines /\ u.list = list
  BY <1>5 DEF PasteTask
<1> HIDE DEF u
<1>7. PasteFormed(u)
  BY <1>1, <1>2, <1>4, <1>6 DEF PasteFormed
<1> QED BY <1>1, <1>2, <1>6, <1>7 DEF u

LEMMA Reordering ==
  ASSUME made \in Nat, ProspectTypeOK, LabelsBounded, NEW l \in label, NEW up, MoveLabel(l, up)
  PROVE  \E u \in ReorderTask : u.id = made /\ Starts(u) /\ ReorderFormed(u)
<1> DEFINE rows == {m.value : m \in ListLabels(l.kind)}
           k == Cardinality(rows)
<1>1. rows \subseteq Values /\ k \in Nat
  <2>1. IsFiniteSet(rows)
    BY TakenFinite DEF LabelsBounded
  <2>2. k \in Nat
    <3> HIDE DEF rows
    <3> QED BY <2>1, FS_CardinalityType
  <2> QED BY <2>2 DEF ListLabels, ProspectTypeOK, Label
<1>2. l.kind \in LabelKinds
  BY DEF ProspectTypeOK, Label
<1>3. l.value \in rows
  BY DEF ListLabels
<1>4. PICK places \in [rows -> 1..k] :
         LET from == places[l.value]
             to == IF up THEN from - 1 ELSE from + 1 IN
         /\ to \in 1..k
         /\ Starts([id |-> made, do |-> "reorder", at |-> "writing", of |-> l.kind,
                    places |-> [r \in rows |-> CASE places[r] = from -> to
                                                 [] places[r] = to -> from
                                                 [] OTHER -> places[r]]])
  BY DEF MoveLabel
<1> DEFINE from == places[l.value]
           to == IF up THEN from - 1 ELSE from + 1
<1> HIDE DEF rows, k
<1> DEFINE new == [r \in rows |-> CASE places[r] = from -> to [] places[r] = to -> from [] OTHER -> places[r]]
           u == [id |-> made, do |-> "reorder", at |-> "writing", of |-> l.kind, places |-> new]
<1>5. new \in [rows -> 1..k]
  BY <1>3, <1>4
<1>6. Starts(u)
  BY <1>4
<1> HIDE DEF new
<1>7. new \in [rows -> Nat] /\ DOMAIN new = rows /\ \A r \in rows : new[r] <= k
  BY <1>1, <1>5
<1>8. u \in ReorderTask /\ u.places = new
  <2>1. new \in Places
    BY <1>1, <1>7 DEF Places
  <2> QED BY <1>2, <2>1 DEF ReorderTask
<1> HIDE DEF u
<1>9. ReorderFormed(u)
  BY <1>1, <1>7, <1>8 DEF ReorderFormed
<1> QED BY <1>6, <1>8, <1>9 DEF u

LEMMA Labelling ==
  ASSUME made \in Nat, NEW at \in {"creating", "renaming", "retiring"}, NEW row \in Label,
         Starts([id |-> made, do |-> "label", at |-> at, row |-> row]),
         at = "creating" => ~row.retired,
         at = "retiring" /\ row.retired /\ row.kind = "status" => row.value # StatusNewValue
  PROVE  \E u \in LabelTask : u.id = made /\ Starts(u) /\ LabelFormed(u)
<1> DEFINE u == [id |-> made, do |-> "label", at |-> at, row |-> row]
<1>1. u \in LabelTask /\ u.id = made /\ u.at = at /\ u.row = row
  BY DEF LabelTask
<1> HIDE DEF u
<1>2. LabelFormed(u)
  BY <1>1 DEF LabelFormed
<1> QED BY <1>1, <1>2 DEF u

LEMMA LabelRequests ==
  ASSUME made \in Nat, ProspectTypeOK, LabelsBounded, NEW x \in Logins,
         \/ \E kind \in LabelKinds, text \in Texts, closed \in BOOLEAN : ProspectLabelCreate(x, kind, text, closed)
         \/ \E l \in label, text \in Texts : ProspectLabelRename(x, l, text)
         \/ \E l \in label, retired \in BOOLEAN : ProspectLabelRetire(x, l, retired)
  PROVE  \E u \in LabelTask : u.id = made /\ Starts(u) /\ LabelFormed(u)
<1>1. ASSUME NEW kind \in LabelKinds, NEW text \in Texts, NEW closed \in BOOLEAN,
             ProspectLabelCreate(x, kind, text, closed)
      PROVE  \E u \in LabelTask : u.id = made /\ Starts(u) /\ LabelFormed(u)
  <2> DEFINE row == MkLabel(kind, uniqueSlug(kind, text), text, closed /\ kind = "status", next(kind))
  <2>1. uniqueSlug(kind, text) \in Values /\ next(kind) \in Nat
    BY SlugFree, NextPlace DEF LabelsBounded, ProspectTypeOK
  <2>2. row \in Label /\ ~row.retired
    BY <2>1 DEF MkLabel, Label
  <2>3. Starts([id |-> made, do |-> "label", at |-> "creating", row |-> row])
    BY <1>1 DEF ProspectLabelCreate, CreateLabel
  <2> HIDE DEF row
  <2> QED BY <2>2, <2>3, Labelling
<1>2. ASSUME NEW l \in label, NEW text \in Texts, ProspectLabelRename(x, l, text)
      PROVE  \E u \in LabelTask : u.id = made /\ Starts(u) /\ LabelFormed(u)
  <2> DEFINE row == [l EXCEPT !.text = text]
  <2>1. row \in Label
    BY DEF ProspectTypeOK, Label
  <2>2. Starts([id |-> made, do |-> "label", at |-> "renaming", row |-> row])
    BY <1>2 DEF ProspectLabelRename, RenameLabel
  <2> HIDE DEF row
  <2> QED BY <2>1, <2>2, Labelling
<1>3. ASSUME NEW l \in label, NEW retired \in BOOLEAN, ProspectLabelRetire(x, l, retired)
      PROVE  \E u \in LabelTask : u.id = made /\ Starts(u) /\ LabelFormed(u)
  <2> DEFINE row == [l EXCEPT !.retired = retired]
  <2>1. row \in Label /\ row.retired = retired /\ row.kind = l.kind /\ row.value = l.value
    BY DEF ProspectTypeOK, Label
  <2>2. Starts([id |-> made, do |-> "label", at |-> "retiring", row |-> row])
        /\ (retired /\ l.kind = "status" => l.value # StatusNewValue)
    BY <1>3 DEF ProspectLabelRetire, SetLabelRetired
  <2> HIDE DEF row
  <2> QED BY <2>1, <2>2, Labelling
<1> QED BY <1>1, <1>2, <1>3

LEMMA DefaultsAre ==
  /\ DefaultStatuses \subseteq Label
  /\ \A l \in DefaultStatuses : ~l.retired /\ l.kind = "status" /\ l.sort <= 2
  /\ \A ls \in SUBSET DefaultStatuses : ls # {} => \E l \in ls : \A m \in ls : l.sort <= m.sort
BY ProspectAssumption DEF ProspectAssumption, DefaultStatuses, MkLabel, Label, LabelKinds, Values, StatusNewValue

LEMMA ProspectBegins ==
  ASSUME CalendarTypeOK, ProspectTypeOK, LabelsBounded, ProspectRequest
  PROVE  Begins(ProspectDoes)
<1>0. made \in Nat /\ EnquiryIds \subseteq 0..MaxEnquiries /\ MaxEnquiries \in Nat /\ 0 \in 0..MaxEnquiries
  BY ProspectAssumption DEF ProspectAssumption, CalendarTypeOK, EnquiryIds
<1>1. ASSUME NEW a \in Addresses, NEW c \in Children, JoinSubmit(a, c)
      PROVE  Begins(ProspectDoes)
  <2> DEFINE u == [id |-> made, do |-> "join", at |-> "storing", address |-> a, child |-> c, p |-> 0]
  <2>1. u \in JoinTask /\ u.id = made /\ Starts(u)
    BY <1>0, <1>1 DEF JoinSubmit, JoinTask
  <2> HIDE DEF u
  <2> QED BY <2>1, ToldBegins DEF Told
<1>2. ASSUME NEW x \in Logins, NEW key \in Settings, UnitSettingsToggle(x, key)
      PROVE  Begins(ProspectDoes)
  <2>0. PICK to \in BOOLEAN : to = ~setting[key]
    OBVIOUS
  <2> DEFINE u == [id |-> made, do |-> "switch", at |-> "storing", switch |-> key, to |-> to]
  <2>1. u \in SwitchTask /\ u.id = made /\ Starts(u)
    BY <1>0, <1>2, <2>0 DEF UnitSettingsToggle, SwitchTask
  <2> HIDE DEF u
  <2> QED BY <2>1, ToldBegins DEF Told
<1>3. ASSUME NEW x \in Logins, NEW list \in Pastes, ProspectImportSave(x, list)
      PROVE  Begins(ProspectDoes)
  BY <1>0, <1>3, Pasting, ToldBegins DEF Told
<1>4. ASSUME NEW ps \in SUBSET EnquiryIds, NEW v, NEW cs \in SUBSET Values, Move(ps, v, cs)
      PROVE  Begins(ProspectDoes)
  BY <1>0, <1>4, Moving, ToldBegins DEF Told
<1>5. ASSUME NEW x \in Logins, NEW p \in EnquiryIds, NEW s \in label, NEW c \in label,
             NEW v \in {Uncategorised, c.value}, ProspectUpdate(x, p, s.value, v)
      PROVE  Begins(ProspectDoes)
  <2>1. v \in Values
    BY DEF ProspectTypeOK, Label, Values, Uncategorised
  <2>2. {p} \in SUBSET EnquiryIds /\ {v} \in SUBSET Values /\ Move({p}, s.value, {v})
    BY <1>5, <2>1 DEF ProspectUpdate, UpdateStatus
  <2> QED BY <1>4, <2>2
<1>6. ASSUME NEW x \in Logins, NEW ps \in SUBSET (1..enquired), NEW s \in label, ProspectBulkStatus(x, ps, s.value)
      PROVE  Begins(ProspectDoes)
  <2>1. ps \in SUBSET EnquiryIds
    BY <1>0 DEF ProspectTypeOK, EnquiryIds
  <2>2. {} \in SUBSET Values /\ Move(ps, s.value, {})
    BY <1>6 DEF ProspectBulkStatus, UpdateStatusMany
  <2> QED BY <1>4, <2>1, <2>2
<1>7. ASSUME NEW x \in Logins, ProspectLabels(x)
      PROVE  Begins(ProspectDoes)
  <2> DEFINE u == [id |-> made, do |-> "defaults", at |-> "inserting", labels |-> DefaultStatuses]
  <2>1. u \in DefaultsTask /\ u.id = made /\ u.labels = DefaultStatuses /\ Starts(u)
    BY <1>0, <1>7 DEF ProspectLabels, EnsureDefaults, DefaultsTask
  <2>2. DefaultsFormed(u)
    BY <2>1 DEF DefaultsFormed, DefaultStatuses
  <2> HIDE DEF u
  <2> QED BY <2>1, <2>2, ToldBegins DEF Told
<1>8. ASSUME NEW x \in Logins, NEW l \in label, NEW up \in BOOLEAN, ProspectLabelMove(x, l, up)
      PROVE  Begins(ProspectDoes)
  BY <1>0, <1>8, Reordering, ToldBegins DEF ProspectLabelMove, Told
<1>9. ASSUME NEW u \in LabelTask, u.id = made, Starts(u), LabelFormed(u)
      PROVE  Begins(ProspectDoes)
  BY <1>9, ToldBegins DEF Told
<1>10. CASE AtOnce
  BY <1>10 DEF Begins
<1> QED BY <1>0, <1>1, <1>2, <1>3, <1>5, <1>6, <1>7, <1>8, <1>9, <1>10, LabelRequests
        DEF ProspectRequest, WindowEnds, ProspectAutoReplyUpdate, ProspectAdd, ProspectUpdateDetails,
            UpdateDetails, ProspectDelete, DeleteEnquiry, ProspectUnsubscribe, Unsubscribe, ProspectOptOut,
            SetEmailOptOut, Changes, ProspectLabelClosed, SetLabelClosed

LEMMA LeastLine ==
  ASSUME NEW t \in PasteTask, PasteFormed(t)
  PROVE  LET i == CHOOSE k \in t.lines : \A j \in t.lines : k <= j IN
         i \in t.lines /\ t.list[i] \in Addresses \X Children
<1> DEFINE lines == t.lines
           i == CHOOSE k \in lines : \A j \in lines : k <= j
<1>1. lines \in SUBSET Nat /\ lines # {} /\ lines \subseteq DOMAIN t.list
  BY DEF PasteTask, PasteFormed
<1>2. i \in lines
  <2> HIDE DEF lines
  <2> QED BY <1>1, LeastOf
<1>3. t.list \in Seq(Addresses \X Children)
  BY ProspectAssumption DEF ProspectAssumption, PasteTask
<1>4. \A k \in DOMAIN t.list : t.list[k] \in Addresses \X Children
  BY <1>3
<1> HIDE DEF lines
<1>5. t.list[i] \in Addresses \X Children
  BY <1>1, <1>2, <1>4
<1> QED BY <1>2, <1>5 DEF lines

LEMMA ProspectGoesOn ==
  ASSUME ProspectTypeOK, NEW t \in Task, Formed(t), ProspectStep(t)
  PROVE  GoesOn(t) /\ t.do \in ProspectDoes
<1>0. ASSUME Ends(t) PROVE GoesOn(t)
  BY <1>0 DEF GoesOn
<1>1. ASSUME t.do = "join" /\ StoreJoin(t) PROVE GoesOn(t)
  <2>1. enquired + 1 \in 0..MaxEnquiries
    BY <1>1, ProspectAssumption DEF ProspectAssumption, StoreJoin, AddEnquiry, ProspectTypeOK
  <2> DEFINE u == [t EXCEPT !.at = "replying", !.p = enquired + 1]
  <2>2. u \in JoinTask /\ u.id = t.id /\ u.do = t.do
    BY <1>1, <2>1, ProspectKinds DEF JoinTask
  <2>3. Goes(t, u)
    BY <1>1 DEF StoreJoin
  <2> HIDE DEF u
  <2> QED BY <2>2, <2>3, ToldGoesOn DEF Told
<1>2. ASSUME t.do = "paste" /\ SavePaste(t) PROVE GoesOn(t)
  <2>1. t \in PasteTask /\ PasteFormed(t)
    BY <1>2, ProspectKinds DEF Formed
  <2> DEFINE i == CHOOSE k \in t.lines : \A j \in t.lines : k <= j
             u == [t EXCEPT !.lines = @ \ {i}]
  <2>2. (t.lines = {i} /\ Ends(t)) \/ (t.lines # {i} /\ Goes(t, u))
    BY <1>2 DEF SavePaste
  <2>3. u \in PasteTask /\ u.id = t.id /\ u.do = t.do /\ u.lines = t.lines \ {i} /\ u.list = t.list
    BY <2>1 DEF PasteTask
  <2> HIDE DEF u, i
  <2>4. t.lines # {i} => PasteFormed(u)
    BY <2>1, <2>3 DEF PasteFormed
  <2> QED BY <1>0, <2>2, <2>3, <2>4, ToldGoesOn DEF Told
<1>3. ASSUME t.do = "defaults" /\ InsertDefault(t) PROVE GoesOn(t)
  <2>1. t \in DefaultsTask /\ DefaultsFormed(t)
    BY <1>3, ProspectKinds DEF Formed
  <2> DEFINE l == CHOOSE m \in t.labels : \A n \in t.labels : m.sort <= n.sort
             u == [t EXCEPT !.labels = @ \ {l}]
  <2>2. (t.labels = {l} /\ Ends(t)) \/ (t.labels # {l} /\ Goes(t, u))
    BY <1>3 DEF InsertDefault
  <2>3. u \in DefaultsTask /\ u.id = t.id /\ u.do = t.do /\ u.labels = t.labels \ {l}
    BY <2>1 DEF DefaultsTask
  <2> HIDE DEF u, l
  <2>4. t.labels # {l} => DefaultsFormed(u)
    BY <2>1, <2>3 DEF DefaultsFormed
  <2> QED BY <1>0, <2>2, <2>3, <2>4, ToldGoesOn DEF Told
<1>4. GoesOn(t)
  BY <1>0, <1>1, <1>2, <1>3 DEF ProspectStep, sendProspectAutoReply, StoreSwitch, WriteStatus, InsertLabel,
     WriteName, WriteRetired, WritePlaces
<1> QED BY <1>4 DEF ProspectStep, ProspectDoes

-----------------------------------------------------------------------------
(* The enquiries' rows and labels.                                         *)

LabelsOK ==
    /\ label \subseteq Label
    /\ \A l, m \in label : l.kind = m.kind /\ l.value = m.value => l = m
    /\ \A r \in excused : r[1] \in EnquiryIds /\ r[2] \in LabelKinds /\ r[3] \in Values
    /\ LabelsBounded /\ NewStays
EnquiriesOK ==
    /\ enquiry \in [EnquiryIds -> Enquiry] /\ enquired \in 0..MaxEnquiries
    /\ joins \in Nat /\ setting \in [Settings -> BOOLEAN]
    /\ answered \cup withdrawn \subseteq 1..enquired
    /\ RepliesDue /\ EnquiriesFresh /\ ConsentKept

LEMMA ProspectParts == ProspectInv <=> LabelsOK /\ EnquiriesOK /\ FiledUnder /\ PastedOnce
BY DEF ProspectInv, ProspectTypeOK, LabelsOK, EnquiriesOK
LEMMA ProspectPartsNext == ProspectInv' <=> LabelsOK' /\ EnquiriesOK' /\ FiledUnder' /\ PastedOnce'
BY DEF ProspectInv, ProspectTypeOK, LabelsOK, EnquiriesOK

LEMMA LabelsSame == ASSUME LabelsOK, UNCHANGED labelVars PROVE LabelsOK'
BY DEF LabelsOK, labelVars, LabelsBounded, NewStays, ListLabels

\* Who is being answered stays one who wrote in, and who unsubscribed off the list.
LEMMA EnquiriesGoOn ==
  ASSUME EnquiriesOK, enquiry' \in [EnquiryIds -> Enquiry], enquired' \in enquired..MaxEnquiries,
         \A p \in EnquiryIds : Enquired(p)' => p <= enquired',
         joins' \in Nat, setting' \in [Settings -> BOOLEAN],
         \A p \in 1..enquired : enquiry'[p].source = "leader" => enquiry[p].source = "leader",
         \A p \in withdrawn' : p \in 1..enquired' /\ (Enquired(p)' => enquiry'[p].optOut),
         \A p \in answered' : p \in answered \/ (p \in 1..enquired' /\ enquiry'[p].source # "leader"),
         \A u \in tasks' : u.do = "join" /\ u.at = "replying" =>
             u \in tasks \/ (u.p \in 1..enquired' /\ enquiry'[u.p].source # "leader")
  PROVE  EnquiriesOK'
<1>1. enquired \in Nat /\ enquired' \in 0..MaxEnquiries /\ 1..enquired \subseteq 1..enquired'
  BY ProspectAssumption DEF ProspectAssumption, EnquiriesOK
<1>2. RepliesDue'
  BY <1>1 DEF EnquiriesOK, RepliesDue
<1>3. ConsentKept' /\ answered' \cup withdrawn' \subseteq 1..enquired'
  BY <1>1 DEF EnquiriesOK, ConsentKept
<1> QED BY <1>1, <1>2, <1>3 DEF EnquiriesOK, EnquiriesFresh

LEMMA FiledStays ==
  ASSUME FiledUnder,
         \A kind \in LabelKinds, v \in Values, p \in EnquiryIds :
             p \in Under(kind, v) /\ Offered(kind, p, v) => Offered(kind, p, v)',
         \A kind \in LabelKinds, v \in Values : \A p \in Under(kind, v)' :
             p \in Under(kind, v) \/ v = Free(kind) \/ Offered(kind, p, v)'
  PROVE  FiledUnder'
<1> SUFFICES ASSUME NEW kind \in LabelKinds, NEW v \in Values, NEW p \in Under(kind, v)'
             PROVE  v = Free(kind) \/ Offered(kind, p, v)'
  BY DEF FiledUnder, Free
<1>1. p \in EnquiryIds
  BY DEF Under
<1> QED BY <1>1 DEF FiledUnder

LEMMA OfferedSame ==
  ASSUME UNCHANGED labelVars, NEW kind, NEW p, NEW v
  PROVE  Offered(kind, p, v)' <=> Offered(kind, p, v)
BY DEF labelVars, Offered, ListLabels

\* Somebody else's step puts a list that is being stored apart, if it touches an enquiry.
LEMMA PastedStays ==
  ASSUME TasksOK, PastedOnce, Watch,
         \A u \in tasks' : u.do = "paste" =>
             u \in tasks \/ u.id \in disturbed' \/ \A i \in u.lines : u.list[i] \notin existingEnquiries'
  PROVE  PastedOnce'
<1> SUFFICES ASSUME NEW u \in tasks', u.do = "paste", u.id \notin disturbed', u \in tasks
             PROVE  \A i \in u.lines : u.list[i] \notin existingEnquiries'
  BY DEF PastedOnce
<1>1. u.at = "saving"
  BY ProspectKinds DEF TasksOK, PasteTask
<1>2. enquiry' = enquiry
  BY DEF Watch
<1>3. u.id \notin disturbed
  BY <1>1 DEF Watch
<1>4. existingEnquiries' = existingEnquiries
  BY <1>2 DEF existingEnquiries, Enquired, enquiryKey
<1> QED BY <1>3, <1>4 DEF PastedOnce

\* A new label, of a value that the list does not have.
LEMMA LabelAdded ==
  ASSUME LabelsOK, UNCHANGED excused, NEW l \in Label, ~l.retired, label' = label \cup {l},
         ~ \E m \in ListLabels(l.kind) : m.value = l.value
  PROVE  LabelsOK' /\ \A kind, p, v : Offered(kind, p, v) => Offered(kind, p, v)'
<1>1. LabelsBounded'
  <2>1. IsFiniteSet(label \cup {l})
    BY FS_AddElement DEF LabelsOK, LabelsBounded
  <2>2. PICK k \in Nat : \A m \in label : m.sort <= k
    BY DEF LabelsOK, LabelsBounded
  <2>3. l.sort \in Nat /\ \A m \in label : m.sort \in Nat
    BY DEF LabelsOK, Label
  <2>4. k + l.sort \in Nat /\ \A m \in label' : m.sort <= k + l.sort
    BY <2>2, <2>3
  <2> QED BY <2>1, <2>4 DEF LabelsBounded
<1>2. \A m \in label : m.kind = l.kind => m.value # l.value
  BY DEF ListLabels
<1>3. \A m, n \in label' : m.kind = n.kind /\ m.value = n.value => m = n
  BY <1>2 DEF LabelsOK
<1>4. NewStays'
  BY DEF LabelsOK, NewStays, ListLabels
<1>5. LabelsOK'
  BY <1>1, <1>3, <1>4 DEF LabelsOK
<1>6. \A kind, p, v : Offered(kind, p, v) => Offered(kind, p, v)'
  BY DEF Offered, ListLabels
<1> QED BY <1>5, <1>6

\* Rows of the list changed in all but kind and value.
LEMMA LabelsChanged ==
  ASSUME LabelsOK, NEW f \in [label -> Label], label' = {f[l] : l \in label},
         \A l \in label : f[l].kind = l.kind /\ f[l].value = l.value,
         NEW k \in Nat, \A l \in label : f[l].sort <= k,
         \A l \in label : l.kind = "status" /\ l.value = StatusNewValue => ~f[l].retired,
         \A r \in excused' : r[1] \in EnquiryIds /\ r[2] \in LabelKinds /\ r[3] \in Values
  PROVE  LabelsOK'
<1>1. LabelsBounded'
  <2>1. f \in Surjection(label, label')
    BY DEF Surjection
  <2>2. IsFiniteSet(label')
    BY <2>1, FS_Surjection DEF LabelsOK, LabelsBounded
  <2> QED BY <2>2 DEF LabelsBounded
<1>2. \A m, n \in label' : m.kind = n.kind /\ m.value = n.value => m = n
  BY DEF LabelsOK
<1>3. NewStays'
  BY DEF NewStays, ListLabels
<1> QED BY <1>1, <1>2, <1>3 DEF LabelsOK

LEMMA OffersChanged ==
  ASSUME NEW f \in [label -> Label], label' = {f[l] : l \in label},
         \A l \in label : f[l].kind = l.kind /\ f[l].value = l.value,
         NEW kind, NEW p, NEW v, Offered(kind, p, v),
         \A l \in label : l.kind = kind /\ l.value = v /\ f[l].retired => l.retired \/ <<p, kind, v>> \in excused',
         excused \subseteq excused'
  PROVE  Offered(kind, p, v)'
<1>1. PICK l \in label : l.kind = kind /\ l.value = v /\ (l.retired => <<p, kind, v>> \in excused)
  BY DEF Offered, ListLabels
<1>2. f[l] \in label' /\ f[l].kind = kind /\ f[l].value = v /\ (f[l].retired => <<p, kind, v>> \in excused')
  BY <1>1
<1> QED BY <1>2 DEF Offered, ListLabels

\* A change of the labels goes on where every label that something is under is
\* offered to it still.
LEMMA LabelsMove ==
  ASSUME ProspectInv, TasksOK, Watch, LabelsOK', UNCHANGED <<enquiryVars, joinVars>>,
         \A kind \in LabelKinds, v \in Values, p \in EnquiryIds :
             p \in Under(kind, v) /\ Offered(kind, p, v) => Offered(kind, p, v)',
         \A u \in tasks' : u.do \in {"join", "paste", "move"} => u \in tasks
  PROVE  ProspectInv'
<1>0. UNCHANGED <<enquiry, enquired, withdrawn, joins, setting, answered>>
  BY DEF enquiryVars, joinVars
<1>1. EnquiriesOK'
  BY <1>0, ProspectParts DEF EnquiriesOK, RepliesDue, EnquiriesFresh, ConsentKept, Enquired
<1>2. FiledUnder'
  <2>1. \A kind \in LabelKinds, v \in Values : \A p \in Under(kind, v)' : p \in Under(kind, v)
    BY <1>0 DEF Under, Enquired
  <2> QED BY <2>1, FiledStays, ProspectParts
<1>3. PastedOnce'
  BY PastedStays, ProspectParts
<1> QED BY <1>1, <1>2, <1>3, ProspectPartsNext

LEMMA InsertDefaultKeeps ==
  ASSUME ProspectInv, TasksOK, Watch, NEW t \in DefaultsTask, DefaultsFormed(t), InsertDefault(t)
  PROVE  ProspectInv'
<1> DEFINE l == CHOOSE m \in t.labels : \A n \in t.labels : m.sort <= n.sort
<1>0. LabelsOK
  BY ProspectParts
<1>1. l \in DefaultStatuses
  <2>1. t.labels \in SUBSET DefaultStatuses /\ t.labels # {}
    BY DEF DefaultsTask, DefaultsFormed
  <2>2. \E m \in t.labels : \A n \in t.labels : m.sort <= n.sort
    BY <2>1, DefaultsAre
  <2> QED BY <2>1, <2>2
<1>2. /\ label' = IF \E m \in ListLabels(l.kind) : m.value = l.value THEN label ELSE label \cup {l}
      /\ UNCHANGED <<excused, enquiryVars, joinVars>>
      /\ Ends(t) \/ Goes(t, [t EXCEPT !.labels = @ \ {l}])
  BY DEF InsertDefault
<1> HIDE DEF l
<1>3. l \in Label /\ ~l.retired
  BY <1>1, DefaultsAre
<1>4. LabelsOK' /\ \A kind, p, v : Offered(kind, p, v) => Offered(kind, p, v)'
  <2>1. CASE \E m \in ListLabels(l.kind) : m.value = l.value
    BY <1>0, <1>2, <2>1, LabelsSame, OfferedSame DEF labelVars
  <2>2. CASE ~ \E m \in ListLabels(l.kind) : m.value = l.value
    BY <1>0, <1>2, <1>3, <2>2, LabelAdded
  <2> QED BY <2>1, <2>2
<1>5. \A u \in tasks' : u.do \in {"join", "paste", "move"} => u \in tasks
  <2> DEFINE u == [t EXCEPT !.labels = @ \ {l}]
  <2>1. u.do = "defaults"
    BY DEF DefaultsTask
  <2>2. Ends(t) \/ Goes(t, u)
    BY <1>2
  <2> HIDE DEF u
  <2> QED BY <2>1, <2>2 DEF Ends, Goes
<1> QED BY <1>2, <1>4, <1>5, LabelsMove

LEMMA InsertLabelKeeps ==
  ASSUME ProspectInv, TasksOK, Watch, NEW t \in LabelTask, LabelFormed(t), t.at = "creating", InsertLabel(t)
  PROVE  ProspectInv'
<1>1. t.row \in Label /\ ~t.row.retired
  BY DEF LabelTask, LabelFormed
<1>2. LabelsOK' /\ \A kind, p, v : Offered(kind, p, v) => Offered(kind, p, v)'
  BY <1>1, LabelAdded, ProspectParts DEF InsertLabel
<1> QED BY <1>2, LabelsMove DEF InsertLabel, Ends

\* One label changed in all but kind and value: its name, and whether it is
\* closed or retired.
LEMMA ChangesLabelKeeps ==
  ASSUME ProspectInv, TasksOK, Watch, NEW l \in Label, NEW f \in [label -> Label],
         ChangesLabel(l, {f[m] : m \in RowOf(l)}),
         \A m \in label : f[m].kind = m.kind /\ f[m].value = m.value /\ f[m].sort = m.sort,
         \/ UNCHANGED excused /\ \A m \in label : f[m].retired => m.retired
         \/ /\ excused' = excused \cup {<<p, l.kind, l.value>> : p \in Under(l.kind, l.value)}
            /\ l.kind = "status" => l.value # StatusNewValue,
         \A u \in tasks' : u.do \in {"join", "paste", "move"} => u \in tasks
  PROVE  ProspectInv'
<1> DEFINE g == [m \in label |-> IF m \in RowOf(l) THEN f[m] ELSE m]
<1>0. LabelsOK /\ label \subseteq Label
  BY ProspectParts DEF LabelsOK
<1>1. g \in [label -> Label]
  BY <1>0
<1>2. \A m \in label : g[m] = IF m \in RowOf(l) THEN f[m] ELSE m
  OBVIOUS
<1>3. label' = {g[m] : m \in label}
  BY DEF ChangesLabel, RowOf
<1>4. \A m \in RowOf(l) : m \in label /\ m.kind = l.kind /\ m.value = l.value
  BY DEF RowOf
<1>5. \A m \in label : m \notin RowOf(l) => ~(m.kind = l.kind /\ m.value = l.value)
  BY DEF RowOf
<1>6. \A m \in label : g[m].kind = m.kind /\ g[m].value = m.value /\ g[m].sort = m.sort
  BY <1>2
<1>7. PICK k \in Nat : \A m \in label : m.sort <= k
  BY <1>0 DEF LabelsOK, LabelsBounded
<1>8. \A r \in excused' : r[1] \in EnquiryIds /\ r[2] \in LabelKinds /\ r[3] \in Values
  <2>1. \A p \in Under(l.kind, l.value) : p \in EnquiryIds
    BY DEF Under
  <2>2. l.kind \in LabelKinds /\ l.value \in Values
    BY DEF Label
  <2> QED BY <1>0, <2>1, <2>2 DEF LabelsOK
<1>9. \A m \in label : m.kind = "status" /\ m.value = StatusNewValue => ~g[m].retired
  <2>1. \A m \in label : m.kind = "status" /\ m.value = StatusNewValue => ~m.retired
    BY <1>0 DEF LabelsOK, NewStays, ListLabels
  <2> QED BY <1>2, <1>4, <2>1
<1>10. excused \subseteq excused'
  OBVIOUS
<1>11. \A kind \in LabelKinds, v \in Values, p \in EnquiryIds : p \in Under(kind, v) =>
          \A m \in label : m.kind = kind /\ m.value = v /\ g[m].retired => m.retired \/ <<p, kind, v>> \in excused'
  BY <1>2, <1>4, <1>5
<1> HIDE DEF g
<1>12. LabelsOK'
  BY <1>0, <1>1, <1>3, <1>6, <1>7, <1>8, <1>9, LabelsChanged
<1>13. \A kind \in LabelKinds, v \in Values, p \in EnquiryIds :
          p \in Under(kind, v) /\ Offered(kind, p, v) => Offered(kind, p, v)'
  <2> SUFFICES ASSUME NEW kind \in LabelKinds, NEW v \in Values, NEW p \in EnquiryIds,
                      p \in Under(kind, v), Offered(kind, p, v)
               PROVE  Offered(kind, p, v)'
    OBVIOUS
  <2>1. \A m \in label : m.kind = kind /\ m.value = v /\ g[m].retired => m.retired \/ <<p, kind, v>> \in excused'
    BY <1>11
  <2> QED BY <1>1, <1>3, <1>6, <1>10, <2>1, OffersChanged
<1> QED BY <1>12, <1>13, LabelsMove DEF ChangesLabel

LEMMA LabelStepsKeep ==
  ASSUME ProspectInv, TasksOK, Watch, NEW t \in LabelTask, LabelFormed(t),
         \/ t.at = "renaming" /\ WriteName(t)
         \/ t.at = "retiring" /\ WriteRetired(t)
  PROVE  ProspectInv'
<1>0. t.row \in Label /\ label \subseteq Label
  BY ProspectParts DEF LabelTask, LabelsOK
<1>1. ASSUME Ends(t) PROVE \A u \in tasks' : u.do \in {"join", "paste", "move"} => u \in tasks
  BY <1>1 DEF Ends
<1>2. CASE t.at = "renaming" /\ WriteName(t)
  <2> DEFINE f == [m \in label |-> [m EXCEPT !.text = t.row.text]]
  <2>1. f \in [label -> Label]
        /\ \A m \in label : f[m].kind = m.kind /\ f[m].value = m.value /\ f[m].sort = m.sort
                            /\ f[m].retired = m.retired
    BY <1>0 DEF Label
  <2>2. {[m EXCEPT !.text = t.row.text] : m \in RowOf(t.row)} = {f[m] : m \in RowOf(t.row)}
    BY DEF RowOf
  <2>3. ChangesLabel(t.row, {f[m] : m \in RowOf(t.row)}) /\ UNCHANGED excused /\ Ends(t)
    BY <1>2, <2>2 DEF WriteName
  <2> HIDE DEF f
  <2> QED BY <1>0, <1>1, <2>1, <2>3, ChangesLabelKeeps
<1>3. CASE t.at = "retiring" /\ WriteRetired(t)
  <2> DEFINE f == [m \in label |-> [m EXCEPT !.retired = t.row.retired]]
  <2>0. t.row.retired \in BOOLEAN
    BY <1>0 DEF Label
  <2>1. f \in [label -> Label]
        /\ \A m \in label : f[m].kind = m.kind /\ f[m].value = m.value /\ f[m].sort = m.sort
                            /\ f[m].retired = t.row.retired
    BY <1>0, <2>0 DEF Label
  <2>2. {[m EXCEPT !.retired = t.row.retired] : m \in RowOf(t.row)} = {f[m] : m \in RowOf(t.row)}
    BY DEF RowOf
  <2>3. ChangesLabel(t.row, {f[m] : m \in RowOf(t.row)}) /\ Ends(t)
    BY <1>3, <2>2 DEF WriteRetired
  <2>4. CASE t.row.retired
    <3>1. excused' = excused \cup {<<p, t.row.kind, t.row.value>> : p \in Under(t.row.kind, t.row.value)}
      BY <1>3, <2>4 DEF WriteRetired
    <3>2. t.row.kind = "status" => t.row.value # StatusNewValue
      BY <1>3, <2>4 DEF LabelFormed
    <3> HIDE DEF f
    <3> QED BY <1>0, <1>1, <2>1, <2>3, <3>1, <3>2, ChangesLabelKeeps
  <2>5. CASE ~t.row.retired
    <3>1. excused' = excused
      BY <1>3, <2>5 DEF WriteRetired
    <3> HIDE DEF f
    <3> QED BY <1>0, <1>1, <2>1, <2>3, <2>5, <3>1, ChangesLabelKeeps
  <2> QED BY <2>4, <2>5
<1> QED BY <1>2, <1>3

LEMMA ClosedKeeps ==
  ASSUME ProspectInv, TasksOK, Watch, NEW l \in label, NEW closed \in BOOLEAN, SetLabelClosed(l, closed)
  PROVE  ProspectInv'
<1>0. label \subseteq Label
  BY ProspectParts DEF LabelsOK
<1> DEFINE f == [m \in label |-> [m EXCEPT !.closed = closed]]
<1>1. f \in [label -> Label]
      /\ \A m \in label : f[m].kind = m.kind /\ f[m].value = m.value /\ f[m].sort = m.sort
                          /\ f[m].retired = m.retired
  BY <1>0 DEF Label
<1>2. {[m EXCEPT !.closed = closed] : m \in RowOf(l)} = {f[m] : m \in RowOf(l)}
  BY DEF RowOf
<1>3. ChangesLabel(l, {f[m] : m \in RowOf(l)}) /\ UNCHANGED excused /\ AtOnce
  BY <1>2 DEF SetLabelClosed
<1>4. \A u \in tasks' : u.do \in {"join", "paste", "move"} => u \in tasks
  BY <1>3 DEF AtOnce
<1> HIDE DEF f
<1> QED BY <1>0, <1>1, <1>3, <1>4, ChangesLabelKeeps

LEMMA WritePlacesKeeps ==
  ASSUME ProspectInv, TasksOK, Watch, NEW t \in ReorderTask, ReorderFormed(t), WritePlaces(t)
  PROVE  ProspectInv'
<1>0. LabelsOK /\ label \subseteq Label
  BY ProspectParts DEF LabelsOK
<1>1. PICK k \in Nat : \A v \in DOMAIN t.places : t.places[v] <= k
  BY DEF ReorderFormed
<1>2. \A v \in DOMAIN t.places : t.places[v] \in Nat
  BY DEF ReorderTask, Places
<1>3. PICK n \in Nat : \A l \in label : l.sort <= n
  BY <1>0 DEF LabelsOK, LabelsBounded
<1> DEFINE moved(l) == l.kind = t.of /\ l.value \in DOMAIN t.places
           f == [l \in label |-> IF moved(l) THEN [l EXCEPT !.sort = t.places[l.value]] ELSE l]
<1>4. \A l \in label : /\ f[l] \in Label /\ f[l].kind = l.kind /\ f[l].value = l.value /\ f[l].retired = l.retired
                       /\ f[l].sort = IF moved(l) THEN t.places[l.value] ELSE l.sort
  BY <1>0, <1>2 DEF Label
<1>5. f \in [label -> Label]
  BY <1>4
<1>6. label' = {f[l] : l \in label} /\ UNCHANGED excused
  BY DEF WritePlaces
<1>7. k + n \in Nat /\ \A l \in label : f[l].sort <= k + n
  <2>1. \A l \in label : l.sort \in Nat
    BY <1>0 DEF Label
  <2> HIDE DEF f
  <2> QED BY <1>1, <1>2, <1>3, <1>4, <2>1
<1> HIDE DEF f, moved
<1>8. \A l \in label : l.kind = "status" /\ l.value = StatusNewValue => ~f[l].retired
  BY <1>0, <1>4 DEF LabelsOK, NewStays, ListLabels
<1>9. \A r \in excused' : r[1] \in EnquiryIds /\ r[2] \in LabelKinds /\ r[3] \in Values
  BY <1>0, <1>6 DEF LabelsOK
<1>10. LabelsOK'
  BY <1>0, <1>4, <1>5, <1>6, <1>7, <1>8, <1>9, LabelsChanged
<1>11. \A kind \in LabelKinds, v \in Values, p \in EnquiryIds :
          p \in Under(kind, v) /\ Offered(kind, p, v) => Offered(kind, p, v)'
  <2> SUFFICES ASSUME NEW kind \in LabelKinds, NEW v \in Values, NEW p \in EnquiryIds, Offered(kind, p, v)
               PROVE  Offered(kind, p, v)'
    OBVIOUS
  <2>1. \A l \in label : l.kind = kind /\ l.value = v /\ f[l].retired => l.retired \/ <<p, kind, v>> \in excused'
    BY <1>4
  <2>2. \A l \in label : f[l].kind = l.kind /\ f[l].value = l.value
    BY <1>4
  <2> QED BY <1>5, <1>6, <2>1, <2>2, OffersChanged
<1> QED BY <1>10, <1>11, LabelsMove DEF WritePlaces, Ends

\* A change of the enquiries goes on where what each is filed under it was under
\* before, or on its way to, or needs no label.
LEMMA EnquiriesMove ==
  ASSUME ProspectInv, TasksOK, Watch, UNCHANGED labelVars, EnquiriesOK',
         \A u \in tasks' : u.do = "move" => u \in tasks,
         \A u \in tasks' : u.do = "paste" =>
             u \in tasks \/ u.id \in disturbed' \/ \A i \in u.lines : u.list[i] \notin existingEnquiries',
         \A p \in EnquiryIds : Enquired(p)' =>
             /\ enquiry'[p].status = StatusNewValue \/ p \in Under("status", enquiry'[p].status)
             /\ enquiry'[p].category = Uncategorised \/ p \in Under("category", enquiry'[p].category)
  PROVE  ProspectInv'
<1>1. LabelsOK'
  BY LabelsSame, ProspectParts
<1>2. FiledUnder'
  <2>1. \A kind \in LabelKinds, v \in Values : \A p \in Under(kind, v)' : p \in Under(kind, v) \/ v = Free(kind)
    BY DEF Under, Free, LabelKinds
  <2> QED BY <2>1, FiledStays, OfferedSame, ProspectParts
<1>3. PastedOnce'
  BY PastedStays, ProspectParts
<1> QED BY <1>1, <1>2, <1>3, ProspectPartsNext

\* The same where no enquiry is filed anew but as a new one.
LEMMA RowsMove ==
  ASSUME ProspectInv, TasksOK, Watch, UNCHANGED labelVars, EnquiriesOK',
         \A u \in tasks' : u.do = "move" => u \in tasks,
         \A u \in tasks' : u.do = "paste" =>
             u \in tasks \/ u.id \in disturbed' \/ \A i \in u.lines : u.list[i] \notin existingEnquiries',
         \A p \in EnquiryIds : Enquired(p)' =>
             \/ enquiry'[p].status = StatusNewValue /\ enquiry'[p].category = Uncategorised
             \/ Enquired(p) /\ enquiry'[p].status = enquiry[p].status /\ enquiry'[p].category = enquiry[p].category
  PROVE  ProspectInv'
<1>1. \A p \in EnquiryIds : Enquired(p)' =>
         /\ enquiry'[p].status = StatusNewValue \/ p \in Under("status", enquiry'[p].status)
         /\ enquiry'[p].category = Uncategorised \/ p \in Under("category", enquiry'[p].category)
  BY DEF Under
<1> QED BY <1>1, EnquiriesMove

LEMMA AddedRow ==
  ASSUME EnquiriesOK, NEW source \in {"form", "leader"}, NEW a \in Addresses, NEW c \in Children,
         AddEnquiry(source, a, c)
  PROVE  /\ enquired + 1 \in EnquiryIds /\ enquired' = enquired + 1 /\ enquired' \in enquired..MaxEnquiries
         /\ enquiry' \in [EnquiryIds -> Enquiry]
         /\ enquiry'[enquired + 1] = MkEnquiry(source, a, c)
         /\ \A p \in EnquiryIds : p # enquired + 1 => enquiry'[p] = enquiry[p]
         /\ \A p \in EnquiryIds : Enquired(p)' => p <= enquired'
         /\ \A p \in withdrawn' : p \in 1..enquired' /\ (Enquired(p)' => enquiry'[p].optOut)
         /\ \A p \in 1..enquired : enquiry'[p].source = "leader" => enquiry[p].source = "leader"
         /\ existingEnquiries' \subseteq existingEnquiries \cup {<<a, c>>}
<1>0. enquired \in 0..MaxEnquiries /\ MaxEnquiries \in Nat /\ enquired < MaxEnquiries
      /\ enquiry \in [EnquiryIds -> Enquiry] /\ enquired' = enquired + 1 /\ UNCHANGED withdrawn
      /\ enquiry' = [enquiry EXCEPT ![enquired + 1] = MkEnquiry(source, a, c)]
  BY ProspectAssumption DEF ProspectAssumption, EnquiriesOK, AddEnquiry
<1>1. enquired + 1 \in EnquiryIds /\ enquired' \in enquired..MaxEnquiries /\ 1..enquired \subseteq EnquiryIds
      /\ enquired + 1 \notin 1..enquired
  BY <1>0 DEF EnquiryIds
<1>2. MkEnquiry(source, a, c) \in Enquiry
  BY ProspectAssumption DEF ProspectAssumption, MkEnquiry, Enquiry, Values, StatusNewValue, Uncategorised
<1>3. /\ enquiry' \in [EnquiryIds -> Enquiry]
      /\ enquiry'[enquired + 1] = MkEnquiry(source, a, c)
      /\ \A p \in EnquiryIds : p # enquired + 1 => enquiry'[p] = enquiry[p]
  BY <1>0, <1>1, <1>2
<1>4. \A p \in EnquiryIds : Enquired(p)' => p <= enquired'
  BY <1>0, <1>3 DEF EnquiriesOK, EnquiriesFresh, Enquired, EnquiryIds
<1>5. \A p \in withdrawn' : p \in 1..enquired' /\ (Enquired(p)' => enquiry'[p].optOut)
  <2>1. \A p \in withdrawn : p \in 1..enquired /\ (Enquired(p) => enquiry[p].optOut)
    BY DEF EnquiriesOK, ConsentKept
  <2>2. 1..enquired \subseteq 1..enquired'
    BY <1>0
  <2> QED BY <1>0, <1>1, <1>3, <2>1, <2>2 DEF Enquired
<1>6. \A p \in 1..enquired : enquiry'[p].source = "leader" => enquiry[p].source = "leader"
  BY <1>1, <1>3
<1>7. existingEnquiries' \subseteq existingEnquiries \cup {<<a, c>>}
  <2>1. ASSUME NEW p \in EnquiryIds, Enquired(p)'
        PROVE  <<enquiry'[p].address, enquiry'[p].child>> \in existingEnquiries \cup {<<a, c>>}
    BY <1>3, <2>1 DEF MkEnquiry, existingEnquiries, enquiryKey, Enquired
  <2> QED BY <2>1 DEF existingEnquiries, enquiryKey
<1> QED BY <1>0, <1>1, <1>3, <1>4, <1>5, <1>6, <1>7

LEMMA StoreJoinKeeps ==
  ASSUME ProspectInv, TasksOK, Watch, NEW t \in JoinTask, StoreJoin(t)
  PROVE  ProspectInv'
<1>0. EnquiriesOK /\ t.address \in Addresses /\ t.child \in Children
  BY ProspectParts DEF JoinTask
<1> DEFINE u == [t EXCEPT !.at = "replying", !.p = enquired + 1]
<1>1. AddEnquiry("form", t.address, t.child) /\ joins' = joins + 1 /\ Goes(t, u) /\ UNCHANGED <<setting, answered>>
  BY DEF StoreJoin
<1>2. u.do = "join" /\ u.p = enquired + 1
  BY DEF JoinTask
<1> HIDE DEF u
<1>3. \A o \in tasks' : o \in tasks \/ o = u
  BY <1>1 DEF Goes
<1>4. /\ enquired + 1 \in EnquiryIds /\ enquired' = enquired + 1 /\ enquired' \in enquired..MaxEnquiries
      /\ enquiry' \in [EnquiryIds -> Enquiry]
      /\ enquiry'[enquired + 1] = MkEnquiry("form", t.address, t.child)
      /\ \A p \in EnquiryIds : p # enquired + 1 => enquiry'[p] = enquiry[p]
      /\ \A p \in EnquiryIds : Enquired(p)' => p <= enquired'
      /\ \A p \in withdrawn' : p \in 1..enquired' /\ (Enquired(p)' => enquiry'[p].optOut)
      /\ \A p \in 1..enquired : enquiry'[p].source = "leader" => enquiry[p].source = "leader"
  BY <1>0, <1>1, AddedRow
<1>5. EnquiriesOK'
  <2>1. joins' \in Nat /\ setting' \in [Settings -> BOOLEAN] /\ answered' = answered
    BY <1>0, <1>1 DEF EnquiriesOK
  <2>2. \A o \in tasks' : o.do = "join" /\ o.at = "replying" =>
           o \in tasks \/ (o.p \in 1..enquired' /\ enquiry'[o.p].source # "leader")
    BY <1>2, <1>3, <1>4 DEF MkEnquiry, EnquiryIds
  <2> QED BY <1>0, <1>4, <2>1, <2>2, EnquiriesGoOn
<1>6. \A o \in tasks' : o.do \in {"move", "paste"} => o \in tasks
  BY <1>2, <1>3
<1>7. \A p \in EnquiryIds : Enquired(p)' =>
         \/ enquiry'[p].status = StatusNewValue /\ enquiry'[p].category = Uncategorised
         \/ Enquired(p) /\ enquiry'[p].status = enquiry[p].status /\ enquiry'[p].category = enquiry[p].category
  BY <1>4 DEF MkEnquiry, Enquired
<1> QED BY <1>1, <1>5, <1>6, <1>7, RowsMove DEF AddEnquiry

\* A row that a leader adds, by hand or by a list.
LEMMA LeaderAdds ==
  ASSUME ProspectInv, TasksOK, Watch, NEW a \in Addresses, NEW c \in Children, AddByLeader(a, c),
         \A u \in tasks' : u.do \in {"join", "move"} => u \in tasks,
         \A u \in tasks' : u.do = "paste" =>
             u \in tasks \/ u.id \in disturbed' \/ \A i \in u.lines : u.list[i] \notin existingEnquiries'
  PROVE  ProspectInv'
<1>0. EnquiriesOK /\ AddEnquiry("leader", a, c) /\ UNCHANGED <<joins, setting, answered>>
  BY ProspectParts DEF AddByLeader, joinVars
<1>1. /\ enquired + 1 \in EnquiryIds /\ enquired' = enquired + 1 /\ enquired' \in enquired..MaxEnquiries
      /\ enquiry' \in [EnquiryIds -> Enquiry]
      /\ enquiry'[enquired + 1] = MkEnquiry("leader", a, c)
      /\ \A p \in EnquiryIds : p # enquired + 1 => enquiry'[p] = enquiry[p]
      /\ \A p \in EnquiryIds : Enquired(p)' => p <= enquired'
      /\ \A p \in withdrawn' : p \in 1..enquired' /\ (Enquired(p)' => enquiry'[p].optOut)
      /\ \A p \in 1..enquired : enquiry'[p].source = "leader" => enquiry[p].source = "leader"
  BY <1>0, AddedRow
<1>2. EnquiriesOK'
  <2>1. joins' \in Nat /\ setting' \in [Settings -> BOOLEAN] /\ answered' = answered
    BY <1>0 DEF EnquiriesOK
  <2> QED BY <1>0, <1>1, <2>1, EnquiriesGoOn
<1>3. \A p \in EnquiryIds : Enquired(p)' =>
         \/ enquiry'[p].status = StatusNewValue /\ enquiry'[p].category = Uncategorised
         \/ Enquired(p) /\ enquiry'[p].status = enquiry[p].status /\ enquiry'[p].category = enquiry[p].category
  BY <1>1 DEF MkEnquiry, Enquired
<1> QED BY <1>0, <1>2, <1>3, RowsMove DEF AddEnquiry

LEMMA SavePasteKeeps ==
  ASSUME ProspectInv, TasksOK, Watch, NEW t \in tasks, t \in PasteTask, PasteFormed(t), SavePaste(t)
  PROVE  ProspectInv'
<1> DEFINE i == CHOOSE k \in t.lines : \A j \in t.lines : k <= j
           u == [t EXCEPT !.lines = @ \ {i}]
<1>1. i \in t.lines /\ t.list[i] \in Addresses \X Children
  BY LeastLine
<1>2. AddByLeader(t.list[i][1], t.list[i][2]) /\ (Ends(t) \/ Goes(t, u))
  BY DEF SavePaste
<1>3. u.id = t.id /\ u.do = "paste" /\ u.at = "saving" /\ u.lines = t.lines \ {i} /\ u.list = t.list
  BY DEF PasteTask
<1> HIDE DEF u, i
<1>4. t.list[i] = <<t.list[i][1], t.list[i][2]>> /\ t.list[i][1] \in Addresses /\ t.list[i][2] \in Children
  BY <1>1
<1>5. existingEnquiries' \subseteq existingEnquiries \cup {t.list[i]}
  BY <1>2, <1>4, AddedRow, ProspectParts DEF AddByLeader
<1>6. \A o \in tasks' : o \in tasks \/ o = u
  BY <1>2 DEF Ends, Goes
<1>7. ASSUME u \in tasks', u.id \notin disturbed'
      PROVE  \A j \in u.lines : u.list[j] \notin existingEnquiries'
  <2>1. t.id \notin disturbed
    BY <1>3, <1>7 DEF Watch
  <2>2. \A j \in t.lines : t.list[j] \notin existingEnquiries
    BY <2>1, ProspectParts DEF PastedOnce, PasteTask
  <2>3. \A j \in t.lines : j # i => t.list[j] # t.list[i]
    BY <1>1 DEF PasteFormed
  <2> QED BY <1>3, <1>5, <2>2, <2>3
<1>8. \A o \in tasks' : o.do \in {"join", "move"} => o \in tasks
  BY <1>3, <1>6
<1>9. \A o \in tasks' : o.do = "paste" =>
         o \in tasks \/ o.id \in disturbed' \/ \A j \in o.lines : o.list[j] \notin existingEnquiries'
  BY <1>6, <1>7
<1> QED BY <1>2, <1>4, <1>8, <1>9, LeaderAdds

\* A family's details, its consent, or all of it gone.
LEMMA ChangesKeeps ==
  ASSUME ProspectInv, TasksOK, Watch, NEW p \in EnquiryIds, NEW row \in Enquiry, Changes(p, row),
         \/ row.source = "none"
         \/ row.source = enquiry[p].source /\ row.status = enquiry[p].status /\ row.category = enquiry[p].category,
         withdrawn' \subseteq withdrawn \cup {p},
         p \in withdrawn' => row.source = "none" \/ row.optOut
  PROVE  ProspectInv'
<1>0. EnquiriesOK /\ Enquired(p) /\ enquiry' = [enquiry EXCEPT ![p] = row] /\ AtOnce
      /\ UNCHANGED <<enquired, labelVars, joins, setting, answered>>
  BY ProspectParts DEF Changes, joinVars
<1>1. /\ enquiry' \in [EnquiryIds -> Enquiry] /\ enquiry'[p] = row
      /\ \A q \in EnquiryIds : q # p => enquiry'[q] = enquiry[q]
      /\ enquired \in 0..MaxEnquiries /\ MaxEnquiries \in Nat /\ p \in 1..enquired /\ 1..enquired \subseteq EnquiryIds
  BY <1>0, ProspectAssumption DEF ProspectAssumption, EnquiriesOK, EnquiriesFresh, EnquiryIds
<1>2. tasks' = tasks
  BY <1>0 DEF AtOnce
<1>3. EnquiriesOK'
  <2>1. enquired' \in enquired..MaxEnquiries /\ joins' \in Nat /\ setting' \in [Settings -> BOOLEAN]
    BY <1>0, <1>1 DEF EnquiriesOK
  <2>2. \A q \in 1..enquired : enquiry'[q].source = "leader" => enquiry[q].source = "leader"
    BY <1>1
  <2>3. \A q \in EnquiryIds : Enquired(q)' => q <= enquired'
    BY <1>0, <1>1 DEF EnquiriesOK, EnquiriesFresh, Enquired
  <2>4. \A q \in withdrawn' : q \in 1..enquired' /\ (Enquired(q)' => enquiry'[q].optOut)
    <3>1. \A q \in withdrawn : q \in 1..enquired /\ (Enquired(q) => enquiry[q].optOut)
      BY <1>0 DEF EnquiriesOK, ConsentKept
    <3> QED BY <1>0, <1>1, <3>1 DEF Enquired
  <2> QED BY <1>0, <1>1, <1>2, <2>1, <2>2, <2>3, <2>4, EnquiriesGoOn
<1>4. \A q \in EnquiryIds : Enquired(q)' =>
         \/ enquiry'[q].status = StatusNewValue /\ enquiry'[q].category = Uncategorised
         \/ Enquired(q) /\ enquiry'[q].status = enquiry[q].status /\ enquiry'[q].category = enquiry[q].category
  BY <1>0, <1>1 DEF Enquired
<1> QED BY <1>0, <1>2, <1>3, <1>4, RowsMove

LEMMA DetailsKeep ==
  ASSUME ProspectInv, TasksOK, Watch, NEW p \in EnquiryIds,
         \/ \E a \in Addresses, c \in Children : UpdateDetails(p, a, c)
         \/ DeleteEnquiry(p)
         \/ Unsubscribe(p)
         \/ \E optOut \in BOOLEAN : SetEmailOptOut(p, optOut)
  PROVE  ProspectInv'
<1>0. EnquiriesOK /\ enquiry[p] \in Enquiry
  BY ProspectParts DEF EnquiriesOK
<1>1. ASSUME p \in withdrawn, Enquired(p) PROVE enquiry[p].optOut
  BY <1>0, <1>1 DEF EnquiriesOK, ConsentKept
<1>2. ASSUME NEW a \in Addresses, NEW c \in Children, UpdateDetails(p, a, c)
      PROVE  ProspectInv'
  <2> DEFINE row == [enquiry[p] EXCEPT !.address = a, !.child = c]
  <2>1. row \in Enquiry /\ row.source = enquiry[p].source /\ row.status = enquiry[p].status
        /\ row.category = enquiry[p].category /\ row.optOut = enquiry[p].optOut
    BY <1>0 DEF Enquiry
  <2>2. Changes(p, row) /\ UNCHANGED withdrawn /\ Enquired(p)
    BY <1>2 DEF UpdateDetails, Changes
  <2> HIDE DEF row
  <2> QED BY <1>1, <2>1, <2>2, ChangesKeeps
<1>3. CASE DeleteEnquiry(p)
  <2>1. Changes(p, NoSuchEnquiry) /\ UNCHANGED withdrawn
    BY <1>3 DEF DeleteEnquiry
  <2>2. NoSuchEnquiry \in Enquiry /\ NoSuchEnquiry.source = "none"
    <3>1. enquiry[p].address \in Addresses /\ enquiry[p].child \in Children
      BY <1>0 DEF Enquiry
    <3>2. (CHOOSE a \in Addresses : TRUE) \in Addresses /\ (CHOOSE c \in Children : TRUE) \in Children
      BY <3>1
    <3> QED BY <3>2, ProspectAssumption DEF ProspectAssumption, NoSuchEnquiry, MkEnquiry, Enquiry, Values,
               StatusNewValue, Uncategorised
  <2> QED BY <2>1, <2>2, ChangesKeeps
<1>4. ASSUME NEW optOut \in BOOLEAN, Changes(p, [enquiry[p] EXCEPT !.optOut = optOut]),
             withdrawn' \subseteq withdrawn \cup {p}, p \in withdrawn' => optOut
      PROVE  ProspectInv'
  <2> DEFINE row == [enquiry[p] EXCEPT !.optOut = optOut]
  <2>1. row \in Enquiry /\ row.source = enquiry[p].source /\ row.status = enquiry[p].status
        /\ row.category = enquiry[p].category /\ row.optOut = optOut
    BY <1>0 DEF Enquiry
  <2>2. Changes(p, row)
    BY <1>4
  <2> HIDE DEF row
  <2> QED BY <1>4, <2>1, <2>2, ChangesKeeps
<1>5. CASE Unsubscribe(p)
  BY <1>4, <1>5 DEF Unsubscribe
<1>6. ASSUME NEW optOut \in BOOLEAN, SetEmailOptOut(p, optOut)
      PROVE  ProspectInv'
  <2>1. Changes(p, [enquiry[p] EXCEPT !.optOut = optOut])
        /\ withdrawn' = IF optOut THEN withdrawn ELSE withdrawn \ {p}
    BY <1>6 DEF SetEmailOptOut
  <2>2. CASE optOut
    BY <1>4, <2>1, <2>2
  <2>3. CASE ~optOut
    BY <1>4, <2>1, <2>3
  <2> QED BY <2>2, <2>3
<1> QED BY <1>2, <1>3, <1>5, <1>6

\* The switches, the answers and the window of the form leave every row as it is.
LEMMA JoinVarsKeep ==
  ASSUME ProspectInv, TasksOK, Watch, UNCHANGED <<labelVars, enquiryVars>>, tasks' \subseteq tasks,
         joins' \in Nat, setting' \in [Settings -> BOOLEAN],
         \A p \in answered' : p \in answered \/ (p \in 1..enquired /\ enquiry[p].source # "leader")
  PROVE  ProspectInv'
<1>0. EnquiriesOK /\ UNCHANGED <<enquiry, enquired, withdrawn>>
  BY ProspectParts DEF enquiryVars
<1>1. EnquiriesOK'
  <2>1. enquired' \in enquired..MaxEnquiries
    BY <1>0, ProspectAssumption DEF ProspectAssumption, EnquiriesOK
  <2>2. \A p \in withdrawn' : p \in 1..enquired' /\ (Enquired(p)' => enquiry'[p].optOut)
    BY <1>0 DEF EnquiriesOK, ConsentKept, Enquired
  <2>3. \A p \in EnquiryIds : Enquired(p)' => p <= enquired'
    BY <1>0 DEF EnquiriesOK, EnquiriesFresh, Enquired
  <2>4. enquiry' \in [EnquiryIds -> Enquiry]
    BY <1>0 DEF EnquiriesOK
  <2> QED BY <1>0, <2>1, <2>2, <2>3, <2>4, EnquiriesGoOn
<1>2. \A p \in EnquiryIds : Enquired(p)' =>
         Enquired(p) /\ enquiry'[p].status = enquiry[p].status /\ enquiry'[p].category = enquiry[p].category
  BY <1>0 DEF Enquired
<1> QED BY <1>1, <1>2, RowsMove

LEMMA SwitchKeeps ==
  ASSUME ProspectInv, TasksOK, Watch, NEW key \in Settings, NEW on \in BOOLEAN, SetForUnit(key, on),
         tasks' \subseteq tasks
  PROVE  ProspectInv'
<1>1. UNCHANGED <<labelVars, enquiryVars, joins, answered>> /\ setting' = [setting EXCEPT ![key] = on]
  BY DEF SetForUnit
<1>2. joins' \in Nat /\ setting' \in [Settings -> BOOLEAN]
  BY <1>1, ProspectParts DEF EnquiriesOK
<1> QED BY <1>1, <1>2, JoinVarsKeep

LEMMA ReplyKeeps ==
  ASSUME ProspectInv, TasksOK, Watch, NEW t \in tasks, t.do = "join", t.at = "replying",
         NEW ok \in BOOLEAN, sendProspectAutoReply(t, ok)
  PROVE  ProspectInv'
<1>1. t.p \in 1..enquired /\ enquiry[t.p].source # "leader"
  BY DEF ProspectInv, RepliesDue
<1>2. UNCHANGED <<labelVars, enquiryVars, joins, setting>> /\ answered' \subseteq answered \cup {t.p}
      /\ tasks' \subseteq tasks
  BY DEF sendProspectAutoReply, Ends
<1>3. joins' \in Nat /\ setting' \in [Settings -> BOOLEAN]
  BY <1>2, ProspectParts DEF EnquiriesOK
<1> QED BY <1>1, <1>2, <1>3, JoinVarsKeep

LEMMA WindowKeeps ==
  ASSUME ProspectInv, TasksOK, Watch, WindowEnds
  PROVE  ProspectInv'
<1>1. UNCHANGED <<labelVars, enquiryVars, setting, answered>> /\ joins' = 0 /\ tasks' = tasks
  BY DEF WindowEnds, AtOnce
<1>2. joins' \in Nat /\ setting' \in [Settings -> BOOLEAN]
  BY <1>1, ProspectParts DEF EnquiriesOK
<1> QED BY <1>1, <1>2, JoinVarsKeep

\* An enquiry goes where it was on its way to.
LEMMA WriteStatusKeeps ==
  ASSUME ProspectInv, TasksOK, Watch, NEW t \in tasks, t \in MoveTask, WriteStatus(t)
  PROVE  ProspectInv'
<1> DEFINE moved(p) == p \in t.ps /\ Enquired(p)
           to(p) == IF t.categories = {} THEN enquiry[p].category ELSE CHOOSE c \in t.categories : TRUE
           row(p) == IF ~moved(p) THEN enquiry[p] ELSE [enquiry[p] EXCEPT !.status = t.status, !.category = to(p)]
<1>0. EnquiriesOK /\ t.status \in Values /\ t.categories \subseteq Values /\ t.do = "move"
  BY ProspectParts DEF MoveTask
<1>1. \A p \in EnquiryIds : to(p) \in Values /\ (t.categories # {} => to(p) \in t.categories)
                            /\ (t.categories = {} => to(p) = enquiry[p].category)
  <2>1. \A p \in EnquiryIds : enquiry[p].category \in Values
    BY <1>0 DEF EnquiriesOK, Enquiry
  <2>2. t.categories # {} => (CHOOSE c \in t.categories : TRUE) \in t.categories
    OBVIOUS
  <2> QED BY <1>0, <2>1, <2>2
<1> HIDE DEF to
<1>2. \A p \in EnquiryIds : /\ row(p) \in Enquiry /\ row(p).source = enquiry[p].source
                            /\ row(p).optOut = enquiry[p].optOut
                            /\ row(p).status = IF moved(p) THEN t.status ELSE enquiry[p].status
                            /\ row(p).category = IF moved(p) THEN to(p) ELSE enquiry[p].category
  BY <1>0, <1>1 DEF EnquiriesOK, Enquiry
<1>3. enquiry' = [p \in EnquiryIds |-> row(p)]
  BY DEF WriteStatus, to
<1>4. UNCHANGED <<enquired, withdrawn, labelVars, joins, setting, answered>> /\ tasks' \subseteq tasks
  BY DEF WriteStatus, joinVars, Ends
<1> HIDE DEF row
<1>5. enquiry' \in [EnquiryIds -> Enquiry] /\ \A p \in EnquiryIds : enquiry'[p] = row(p)
  BY <1>2, <1>3
<1>6. EnquiriesOK'
  <2>1. enquired' \in enquired..MaxEnquiries /\ joins' \in Nat /\ setting' \in [Settings -> BOOLEAN]
        /\ 1..enquired \subseteq EnquiryIds
    BY <1>0, <1>4, ProspectAssumption DEF ProspectAssumption, EnquiriesOK, EnquiryIds
  <2>2. \A p \in EnquiryIds : Enquired(p)' => p <= enquired'
    BY <1>0, <1>2, <1>4, <1>5 DEF EnquiriesOK, EnquiriesFresh, Enquired
  <2>3. \A p \in withdrawn' : p \in 1..enquired' /\ (Enquired(p)' => enquiry'[p].optOut)
    BY <1>0, <1>2, <1>4, <1>5, <2>1 DEF EnquiriesOK, ConsentKept, Enquired
  <2>4. \A p \in 1..enquired : enquiry'[p].source = "leader" => enquiry[p].source = "leader"
    BY <1>2, <1>5, <2>1
  <2> QED BY <1>0, <1>4, <1>5, <2>1, <2>2, <2>3, <2>4, EnquiriesGoOn
<1>7. \A p \in EnquiryIds : Enquired(p)' =>
         /\ enquiry'[p].status = StatusNewValue \/ p \in Under("status", enquiry'[p].status)
         /\ enquiry'[p].category = Uncategorised \/ p \in Under("category", enquiry'[p].category)
  <2>1. \A p \in EnquiryIds : p \in t.ps =>
           p \in Under("status", t.status) /\ \A c \in t.categories : p \in Under("category", c)
    BY <1>0 DEF Under
  <2>2. \A p \in EnquiryIds : Enquired(p) =>
           p \in Under("status", enquiry[p].status) /\ p \in Under("category", enquiry[p].category)
    BY DEF Under
  <2>3. \A p \in EnquiryIds : Enquired(p)' => Enquired(p)
    BY <1>2, <1>5 DEF Enquired
  <2> HIDE DEF moved
  <2>4. ASSUME NEW p \in EnquiryIds, Enquired(p)'
        PROVE  p \in Under("status", enquiry'[p].status) /\ p \in Under("category", enquiry'[p].category)
    <3>1. CASE moved(p)
      BY <1>1, <1>2, <1>5, <2>1, <2>2, <3>1 DEF moved
    <3>2. CASE ~moved(p)
      BY <1>2, <1>5, <2>2, <2>3, <2>4, <3>2
    <3> QED BY <3>1, <3>2
  <2> QED BY <2>4
<1> QED BY <1>4, <1>6, <1>7, EnquiriesMove

-----------------------------------------------------------------------------
(* What comes to the enquiries, and what becomes of it.                    *)

\* A new task that has looked at what is there now.
Right(u) ==
    /\ u.do = "move" =>
          /\ LabelExists("status", u.status)
          /\ \A c \in u.categories : c # Uncategorised => LabelExists("category", c)
    /\ u.do = "paste" => \A i \in u.lines : u.list[i] \notin existingEnquiries
    /\ u.do = "join" => u.at # "replying"

\* A step that writes nothing here, but may have looked at what is there.
LEMMA ProspectWaits ==
  ASSUME ProspectInv, TasksOK, Watch, UNCHANGED prospectVars, \A u \in tasks' : u \in tasks \/ Right(u)
  PROVE  ProspectInv'
<1>0. UNCHANGED <<label, excused, enquiry, enquired, withdrawn, joins, setting, answered>> /\ UNCHANGED labelVars
  BY DEF prospectVars, labelVars, enquiryVars, joinVars
<1>1. LabelsOK'
  BY <1>0, LabelsSame, ProspectParts
<1>2. EnquiriesOK'
  BY <1>0, ProspectParts DEF EnquiriesOK, RepliesDue, EnquiriesFresh, ConsentKept, Enquired, Right
<1>3. PastedOnce'
  <2>1. existingEnquiries' = existingEnquiries
    BY <1>0 DEF existingEnquiries, Enquired, enquiryKey
  <2> QED BY <2>1, PastedStays, ProspectParts DEF Right
<1>4. FiledUnder'
  <2>1. ASSUME NEW kind \in LabelKinds, NEW v \in Values, NEW p \in Under(kind, v)'
        PROVE  p \in Under(kind, v) \/ v = Free(kind) \/ Offered(kind, p, v)
    <3>1. ASSUME NEW u \in tasks', Right(u), u.do = "move",
                 v \in (IF kind = "status" THEN {u.status} ELSE u.categories), v # Free(kind)
          PROVE  LabelExists(kind, v)
      BY <3>1 DEF Right, LabelKinds, Free
    <3>2. LabelExists(kind, v) => Offered(kind, p, v)
      BY DEF LabelExists, Offered
    <3>3. \/ Enquired(p) /\ v = (IF kind = "status" THEN enquiry[p].status ELSE enquiry[p].category)
          \/ \E o \in tasks' : /\ o.do = "move" /\ p \in o.ps
                               /\ v \in (IF kind = "status" THEN {o.status} ELSE o.categories)
      BY <1>0 DEF Under, Enquired
    <3>4. p \in EnquiryIds
      BY DEF Under
    <3> QED BY <3>1, <3>2, <3>3, <3>4 DEF Under
  <2> QED BY <1>0, <2>1, OfferedSame, FiledStays, ProspectParts
<1> QED BY <1>1, <1>2, <1>3, <1>4, ProspectPartsNext

LEMMA ProspectRests ==
  ASSUME ProspectInv, TasksOK, Watch, UNCHANGED prospectVars, TasksOK',
         Doing(ProspectDoes)' = Doing(ProspectDoes)
  PROVE  ProspectInv'
<1>1. \A u \in tasks' : u \in tasks \/ Right(u)
  BY DEF Doing, ProspectDoes, Right
<1> QED BY <1>1, ProspectWaits

LEMMA OneWaits ==
  ASSUME ProspectInv, TasksOK, Watch, UNCHANGED prospectVars, NEW u, Starts(u), Right(u)
  PROVE  ProspectInv'
BY ProspectWaits DEF Starts

LEMMA ProspectStepInv ==
  ASSUME ProspectInv, TasksOK, Watch, NEW t \in tasks, ProspectStep(t)
  PROVE  ProspectInv'
<1>0. t \in Task /\ Formed(t)
  BY DEF TasksOK
<1>1. CASE t.do = "join"
  <2>1. t \in JoinTask
    BY <1>0, <1>1, ProspectKinds
  <2>2. StoreJoin(t) \/ (t.at = "replying" /\ \E ok \in BOOLEAN : sendProspectAutoReply(t, ok))
    BY <1>1 DEF ProspectStep
  <2> QED BY <1>1, <2>1, <2>2, StoreJoinKeeps, ReplyKeeps
<1>2. CASE t.do = "switch"
  <2>1. t.switch \in Settings /\ t.to \in BOOLEAN
    BY <1>0, <1>2, ProspectKinds DEF SwitchTask
  <2>2. SetForUnit(t.switch, t.to) /\ tasks' \subseteq tasks
    BY <1>2 DEF ProspectStep, StoreSwitch, Ends
  <2> QED BY <2>1, <2>2, SwitchKeeps
<1>3. CASE t.do = "paste"
  BY <1>0, <1>3, ProspectKinds, SavePasteKeeps DEF ProspectStep, Formed
<1>4. CASE t.do = "move"
  BY <1>0, <1>4, ProspectKinds, WriteStatusKeeps DEF ProspectStep
<1>5. CASE t.do = "defaults"
  BY <1>0, <1>5, ProspectKinds, InsertDefaultKeeps DEF ProspectStep, Formed
<1>6. CASE t.do = "label"
  <2>1. t \in LabelTask /\ LabelFormed(t)
    BY <1>0, <1>6, ProspectKinds DEF Formed
  <2> QED BY <1>6, <2>1, InsertLabelKeeps, LabelStepsKeep DEF ProspectStep
<1>7. CASE t.do = "reorder"
  BY <1>0, <1>7, ProspectKinds, WritePlacesKeeps DEF ProspectStep, Formed
<1> QED BY <1>1, <1>2, <1>3, <1>4, <1>5, <1>6, <1>7 DEF ProspectStep

LEMMA ProspectRequestInv ==
  ASSUME CalendarTypeOK, ProspectInv, TasksOK, Watch, ProspectRequest
  PROVE  ProspectInv'
<1>0. made \in Nat /\ ProspectTypeOK /\ LabelsBounded /\ label \subseteq Label
  BY DEF CalendarTypeOK, ProspectInv, ProspectTypeOK
<1>1. ASSUME NEW a \in Addresses, NEW c \in Children, JoinSubmit(a, c)
      PROVE  ProspectInv'
  <2> DEFINE u == [id |-> made, do |-> "join", at |-> "storing", address |-> a, child |-> c, p |-> 0]
  <2>1. Starts(u) /\ UNCHANGED prospectVars
    BY <1>1 DEF JoinSubmit
  <2>2. Right(u)
    BY DEF Right
  <2> HIDE DEF u
  <2> QED BY <2>1, <2>2, OneWaits
<1>2. ASSUME NEW x \in Logins, NEW on \in BOOLEAN, ProspectAutoReplyUpdate(x, on)
      PROVE  ProspectInv'
  BY <1>2, SwitchKeeps DEF ProspectAutoReplyUpdate, AtOnce, Settings
<1>3. ASSUME NEW x \in Logins, NEW key \in Settings, UnitSettingsToggle(x, key)
      PROVE  ProspectInv'
  <2> DEFINE u == [id |-> made, do |-> "switch", at |-> "storing", switch |-> key, to |-> ~setting[key]]
  <2>1. Starts(u) /\ UNCHANGED prospectVars
    BY <1>3 DEF UnitSettingsToggle
  <2>2. Right(u)
    BY DEF Right
  <2> HIDE DEF u
  <2> QED BY <2>1, <2>2, OneWaits
<1>4. ASSUME NEW x \in Logins, NEW a \in Addresses, NEW c \in Children, ProspectAdd(x, a, c)
      PROVE  ProspectInv'
  BY <1>4, LeaderAdds DEF ProspectAdd, AtOnce
<1>5. ASSUME NEW x \in Logins, NEW list \in Pastes, ProspectImportSave(x, list)
      PROVE  ProspectInv'
  <2>1. PICK u \in PasteTask : Starts(u) /\ \A i \in u.lines : u.list[i] \notin existingEnquiries
    BY <1>0, <1>5, Pasting
  <2>2. Right(u) /\ UNCHANGED prospectVars
    BY <1>5, <2>1 DEF Right, PasteTask, ProspectImportSave
  <2> QED BY <2>1, <2>2, OneWaits
<1>6. ASSUME NEW p \in EnquiryIds,
             \/ \E x \in Logins, a \in Addresses, c \in Children : ProspectUpdateDetails(x, p, a, c)
             \/ \E x \in Logins : ProspectDelete(x, p)
             \/ ProspectUnsubscribe(p)
             \/ \E x \in Logins, optOut \in BOOLEAN : ProspectOptOut(x, p, optOut)
      PROVE  ProspectInv'
  BY <1>6, DetailsKeep DEF ProspectUpdateDetails, ProspectDelete, ProspectUnsubscribe, ProspectOptOut
<1>7. ASSUME NEW ps \in SUBSET EnquiryIds, NEW v, NEW cs \in SUBSET Values, Move(ps, v, cs),
             \A c \in cs : c # Uncategorised => LabelExists("category", c)
      PROVE  ProspectInv'
  <2>1. PICK u \in MoveTask : Starts(u) /\ u.status = v /\ u.categories = cs
    BY <1>0, <1>7, Moving
  <2>2. Right(u) /\ UNCHANGED prospectVars
    BY <1>7, <2>1 DEF Right, MoveTask, Move
  <2> QED BY <2>1, <2>2, OneWaits
<1>8. ASSUME NEW x \in Logins, NEW p \in EnquiryIds, NEW s \in label, NEW c \in label,
             NEW v \in {Uncategorised, c.value}, ProspectUpdate(x, p, s.value, v)
      PROVE  ProspectInv'
  <2>1. {p} \in SUBSET EnquiryIds /\ {v} \in SUBSET Values
    BY <1>0, ProspectAssumption DEF ProspectAssumption, Label, Values, Uncategorised
  <2>2. Move({p}, s.value, {v}) /\ \A k \in {v} : k # Uncategorised => LabelExists("category", k)
    BY <1>8 DEF ProspectUpdate, UpdateStatus
  <2> QED BY <1>7, <2>1, <2>2
<1>9. ASSUME NEW x \in Logins, NEW ps \in SUBSET (1..enquired), NEW s \in label,
             ProspectBulkStatus(x, ps, s.value)
      PROVE  ProspectInv'
  <2>1. ps \in SUBSET EnquiryIds /\ {} \in SUBSET Values
    BY <1>0, ProspectAssumption DEF ProspectAssumption, ProspectTypeOK, EnquiryIds
  <2>2. Move(ps, s.value, {})
    BY <1>9 DEF ProspectBulkStatus, UpdateStatusMany
  <2> QED BY <1>7, <2>1, <2>2
<1>10. ASSUME NEW x \in Logins, ProspectLabels(x)
       PROVE  ProspectInv'
  <2> DEFINE u == [id |-> made, do |-> "defaults", at |-> "inserting", labels |-> DefaultStatuses]
  <2>1. Starts(u) /\ UNCHANGED prospectVars
    BY <1>10 DEF ProspectLabels, EnsureDefaults
  <2>2. Right(u)
    BY DEF Right
  <2> HIDE DEF u
  <2> QED BY <2>1, <2>2, OneWaits
<1>11. ASSUME NEW x \in Logins,
              \/ \E kind \in LabelKinds, text \in Texts, closed \in BOOLEAN : ProspectLabelCreate(x, kind, text, closed)
              \/ \E l \in label, text \in Texts : ProspectLabelRename(x, l, text)
              \/ \E l \in label, retired \in BOOLEAN : ProspectLabelRetire(x, l, retired)
       PROVE  ProspectInv'
  <2>1. PICK u \in LabelTask : Starts(u)
    BY <1>0, <1>11, LabelRequests
  <2>2. Right(u)
    BY DEF Right, LabelTask
  <2>3. UNCHANGED prospectVars
    BY <1>11 DEF ProspectLabelCreate, CreateLabel, ProspectLabelRename, RenameLabel, ProspectLabelRetire,
                 SetLabelRetired
  <2> QED BY <2>1, <2>2, <2>3, OneWaits
<1>12. ASSUME NEW x \in Logins, NEW l \in label, NEW closed \in BOOLEAN, ProspectLabelClosed(x, l, closed)
       PROVE  ProspectInv'
  BY <1>12, ClosedKeeps DEF ProspectLabelClosed
<1>13. ASSUME NEW x \in Logins, NEW l \in label, NEW up \in BOOLEAN, ProspectLabelMove(x, l, up)
       PROVE  ProspectInv'
  <2>1. PICK u \in ReorderTask : Starts(u)
    BY <1>0, <1>13, Reordering DEF ProspectLabelMove
  <2>2. Right(u) /\ UNCHANGED prospectVars
    BY <1>13 DEF Right, ReorderTask, ProspectLabelMove, MoveLabel
  <2> QED BY <2>1, <2>2, OneWaits
<1> QED BY <1>1, <1>2, <1>3, <1>4, <1>5, <1>6, <1>8, <1>9, <1>10, <1>11, <1>12, <1>13, WindowKeeps
        DEF ProspectRequest

-----------------------------------------------------------------------------
(* The site begins well.                                                   *)

LEMMA CalendarBeginsWell ==
  ASSUME Init
  PROVE  CalendarInv
<1> DEFINE s == Scenes[scene]
<1>0. Begun(s) /\ scene \in DOMAIN Scenes
  BY SiteAssumption DEF SiteAssumption, Init
<1>1. /\ event = s.event /\ spent = s.spent /\ approval = s.approval /\ rsvp = s.rsvp /\ feed = s.feed
      /\ offered = s.offered /\ ignored = s.ignored /\ member = s.member
      /\ vetted = {e \in EventIds : s.event[e].status = "published"}
      /\ conflicts = {} /\ tokens = Logins
      /\ kept = {i \in ignored : Imported(i[1], i[2]) # {}}
      /\ reminded = {} /\ mailed = {} /\ again = {} /\ doubted = {}
      /\ now = 0 /\ tasks = {} /\ made = 0
  BY DEF Init
<1> HIDE DEF s
<1>2. 0 \in Slots
  BY CalendarAssumption DEF CalendarAssumption, Slots
<1>3. CalendarTypeOK
  BY <1>0, <1>1, <1>2 DEF Begun, CalendarTypeOK
<1>4. EventsKept
  BY <1>0, <1>1 DEF Begun, EventsKept, Here
<1>5. ConflictsSeen /\ MailsKnown /\ RemindedOnce /\ RulingsKnown
  BY <1>1 DEF ConflictsSeen, MailsKnown, RemindedOnce, RulingsKnown
<1>6. RulingsHold
  BY <1>1 DEF RulingsHold, Held
<1> QED BY <1>3, <1>4, <1>5, <1>6 DEF CalendarInv

LEMMA LibraryBeginsWell ==
  ASSUME Init
  PROVE  LibraryInv
<1> DEFINE s == Scenes[scene]
<1>0. Begun(s)
  BY SiteAssumption DEF SiteAssumption, Init
<1>1. /\ event = s.event /\ file = s.file /\ filed = s.filed /\ post = s.post /\ written = s.written
      /\ resource = [r \in ResourceIds |-> NoSuchResource] /\ listed = 0
      /\ objects = {<<file[f].key, "">> : f \in {g \in FileIds : file[g].kind # "none"}}
      /\ posters = {f \in FileIds : file[f].poster}
      /\ openly = {p \in PostIds : post[p].public}
  BY DEF Init
<1> HIDE DEF s
<1>2. file \in [FileIds -> File] /\ filed \in 0..MaxFiles /\ post \in [PostIds -> Post] /\ written \in 0..MaxPosts
  BY <1>0, <1>1 DEF Begun
<1>x. \A f \in FileIds :
          /\ file[f].kind = "none" => file[f] = NoSuchFile
          /\ file[f].kind # "none" =>
                /\ f <= filed /\ (file[f].key.by = "row" => file[f].key.n = f)
                /\ \A g \in FileIds : file[g].kind # "none" /\ file[g].key = file[f].key => f = g
                /\ \A e \in file[f].events : event[e].status # "none"
  <2>1. \A f \in FileIds : s.file[f].kind # "none" =>
           /\ f <= s.filed
           /\ s.file[f].key.by = "upload" => s.file[f].key.n >= 2 * s.most
           /\ s.file[f].key.by = "row" => s.file[f].key.n = f
           /\ \A g \in FileIds : s.file[g].kind # "none" /\ s.file[g].key = s.file[f].key => f = g
           /\ \A e \in s.file[f].events : s.event[e].status # "none"
    BY <1>0 DEF Begun
  <2>2. \A f \in FileIds : s.file[f].kind = "none" => s.file[f] = NoSuchFile
    BY <1>0 DEF Begun
  <2> QED BY <1>1, <2>1, <2>2
<1>3. \A f, g \in FileIds : Filed(f) /\ Filed(g) /\ file[f].key = file[g].key => f = g
  BY <1>x DEF Filed
<1>4. \A f \in FileIds : file[f].events \subseteq {e \in EventIds : Here(e)}
  <2>1. \A f \in FileIds : file[f].kind = "none" => file[f].events = {}
    BY <1>x DEF NoSuchFile, MkFile
  <2>2. \A f \in FileIds : file[f].events \subseteq EventIds
    BY <1>2 DEF File, Links
  <2> QED BY <1>x, <2>1, <2>2 DEF Here
<1>5. NoSuchResource \in Resource /\ NoSuchResource.kind = "none"
  BY LibraryAssumption DEF LibraryAssumption, NoSuchResource, MkResource, Resource
<1>6. resource \in [ResourceIds -> Resource] /\ listed \in 0..MaxResources
      /\ \A r \in ResourceIds : resource[r].kind = "file" => Filed(resource[r].file)
  <2>1. \A r \in ResourceIds : resource[r] = NoSuchResource
    BY <1>1
  <2>2. 0 \in 0..MaxResources
    BY LibraryAssumption DEF LibraryAssumption
  <2> QED BY <1>1, <1>5, <2>1, <2>2
<1>7. objects \subseteq Key \X Suffixes
  <2>1. \A f \in FileIds : file[f].key \in Key
    BY <1>2 DEF File
  <2>2. \A f \in FileIds : <<file[f].key, "">> \in Key \X Suffixes
    BY <2>1 DEF Suffixes
  <2> QED BY <1>1, <2>2
<1>8. LibraryTypeOK
  BY <1>1, <1>2, <1>3, <1>4, <1>6, <1>7 DEF LibraryTypeOK
<1>9. RowKeys /\ PostsOpen /\ PostsFresh
  BY <1>0, <1>1, <1>x DEF Begun, RowKeys, Filed, PostsOpen, PostsFresh
<1> QED BY <1>8, <1>9 DEF LibraryInv

\* Were no number the greatest, the step to the next greater one would be an
\* injection of the set into itself that misses the least.
LEMMA FiniteBounded ==
  ASSUME NEW S \in SUBSET Nat, IsFiniteSet(S)
  PROVE  \E k \in Nat : \A n \in S : n <= k
<1> SUFFICES ASSUME \A k \in Nat : \E n \in S : k < n
             PROVE  FALSE
  OBVIOUS
<1> DEFINE above(n) == {m \in S : n < m}
           up == [n \in S |-> CHOOSE m \in above(n) : \A o \in above(n) : m <= o]
<1>1. \A n \in S : above(n) \in SUBSET Nat /\ above(n) # {}
  OBVIOUS
<1>2. \A n \in S : \E m \in above(n) : \A o \in above(n) : m <= o
  <2> HIDE DEF above
  <2> QED BY <1>1, LeastOf
<1>3. \A n \in S : up[n] \in above(n) /\ \A o \in above(n) : up[n] <= o
  <2> HIDE DEF above
  <2> QED BY <1>2
<1>4. up \in [S -> S] /\ \A n \in S : n < up[n] /\ \A o \in S : n < o => up[n] <= o
  BY <1>3
<1> HIDE DEF up
<1>5. \A m, n \in S : up[m] = up[n] => m = n
  <2>1. \A m \in S : m \in Nat /\ up[m] \in Nat
    BY <1>4
  <2>2. \A m, n \in S : m < n => up[m] <= n /\ n < up[n]
    BY <1>4
  <2>3. \A m, n \in S : m < n => up[m] < up[n]
    BY <2>1, <2>2
  <2>4. \A m, n \in S : m < n \/ n < m \/ m = n
    BY <2>1
  <2>5. \A m, n \in S : up[m] = up[n] => ~(m < n) /\ ~(n < m)
    BY <2>1, <2>3
  <2> QED BY <2>4, <2>5
<1>6. up \in Injection(S, S)
  BY <1>4, <1>5 DEF Injection, IsInjective
<1>7. up \in Surjection(S, S)
  BY <1>6, FS_Injection
<1>8. S # {}
  OBVIOUS
<1>9. PICK n \in S : \A m \in S : n <= m
  BY <1>8, LeastOf
<1>10. PICK m \in S : up[m] = n
  BY <1>7 DEF Surjection
<1> QED BY <1>4, <1>9, <1>10

\* The places of finitely many labels have a greatest.
LEMMA PlacesBounded ==
  ASSUME label \subseteq Label, IsFiniteSet(label)
  PROVE  LabelsBounded
<1> DEFINE sorts == {l.sort : l \in label}
           f == [l \in label |-> l.sort]
<1>1. f \in Surjection(label, sorts)
  BY DEF Surjection
<1>2. sorts \in SUBSET Nat
  BY DEF Label
<1>3. \A l \in label : l.sort \in sorts
  OBVIOUS
<1> HIDE DEF sorts, f
<1>4. IsFiniteSet(sorts)
  BY <1>1, FS_Surjection
<1>5. \E k \in Nat : \A n \in sorts : n <= k
  BY <1>2, <1>4, FiniteBounded
<1> QED BY <1>3, <1>5 DEF LabelsBounded

LEMMA ProspectBeginsWell ==
  ASSUME Init
  PROVE  ProspectInv
<1> DEFINE s == Scenes[scene]
<1>0. Begun(s)
  BY SiteAssumption DEF SiteAssumption, Init
<1>1. /\ label = s.label /\ enquiry = s.enquiry /\ enquired = s.enquired
      /\ joins = 0 /\ setting = [key \in Settings |-> TRUE]
      /\ answered = {} /\ withdrawn = {} /\ excused = {} /\ tasks = {}
  BY DEF Init
<1> HIDE DEF s
<1>2. LabelsOK
  BY <1>0, <1>1, PlacesBounded DEF Begun, LabelsOK, NewStays, ListLabels
<1>3. EnquiriesOK
  BY <1>0, <1>1 DEF Begun, EnquiriesOK, RepliesDue, EnquiriesFresh, ConsentKept, Enquired
<1>4. FiledUnder
  BY <1>0, <1>1 DEF Begun, FiledUnder, Under, Free, Offered, ListLabels, Enquired, LabelKinds
<1>5. PastedOnce
  BY <1>1 DEF PastedOnce
<1> QED BY <1>2, <1>3, <1>4, <1>5, ProspectParts

-----------------------------------------------------------------------------
(* What the history of disturbances speaks of.                             *)

LEMMA Watched ==
  ASSUME Watch, TasksOK', crossed \subseteq Key
  PROVE  disturbed' \subseteq {t.id : t \in tasks'} /\ crossed' \subseteq Key
<1>1. disturbed' \subseteq {t.id : t \in tasks'}
  BY DEF Watch
<1>2. \A t \in tasks' : t.do = "host" => t.key \in Key
  BY LibraryKinds DEF TasksOK, HostTask
<1>3. \A t \in tasks' : t.do = "rekey" => t.want \in Key
  BY LibraryKinds DEF TasksOK, RekeyTask
<1>4. crossed' \subseteq Key
  BY <1>2, <1>3 DEF Watch
<1> QED BY <1>1, <1>4

-----------------------------------------------------------------------------
(* The inductive invariant is one.                                         *)

LEMMA InitInv == Init => IInv
<1> SUFFICES ASSUME Init PROVE IInv
  OBVIOUS
<1>1. tasks = {} /\ disturbed = {} /\ crossed = {}
  BY DEF Init
<1> QED BY <1>1, CalendarBeginsWell, LibraryBeginsWell, ProspectBeginsWell DEF IInv, TasksOK, Numbered

\* The files, the pages and the enquiries write no row of the calendar.
LEMMA LibraryApart ==
  ASSUME LibraryRequest \/ \E t \in tasks : LibraryStep(t)
  PROVE  UNCHANGED calendarVars
<1>1. ASSUME LibraryRequest PROVE UNCHANGED calendarVars
  BY <1>1 DEF LibraryRequest, FileUpload, AdminGalleryUpload, hostOne, FilePosterUpload, FileDelete,
     FileSetPublic, ResourceSetPublic, adminContentPublishToggle, Flip, FileSetCategory, FileSetEventLinks,
     FileBulkUpdate, SetPublicMany, LinkEventMany, UnlinkEventsMany, ChangesFiles, AdminGroupSetPhotos,
     SetSubGroupLinks, serveImageVariant, BackfillThumbnails, RekeyFiles, CreateFile, CreateLink, AddResource,
     ResourceDelete, ResourceHideUnderlyingFile, adminContentCreate, adminContentUpdate, adminContentDelete,
     DeletePost, AdminGroupCreateNews, publishGroupPost, AdminGroupDeleteNews
<1>2. ASSUME NEW t, UploadStep(t) \/ HostStep(t) \/ PosterStep(t) \/ DropStep(t) PROVE UNCHANGED calendarVars
  BY <1>2 DEF UploadStep, storeUpload, RecordUpload, LinkUpload, HostStep, LookUpHosted, PutHosted, RecordHosted,
     PosterStep, PutPoster, SetPoster, DropStep, DeleteRow, DeleteObject, DeleteThumb, DeletePoster
<1>3. ASSUME NEW t, \/ SetFlag(t) \/ \E as, ok : fetchAndCacheVariant(t, as, ok)
                    \/ BackfillStep(t) \/ RekeyStep(t)
      PROVE  UNCHANGED calendarVars
  BY <1>3 DEF SetFlag, fetchAndCacheVariant, BackfillStep, ReadOriginal, RunDone, RekeyStep, PickFile, CopyObject,
     VerifyCopy, CopyThumb, SetStorageKey, DeleteOldObject, DeleteOldThumb, RekeyFails
<1>4. ASSUME NEW t \in tasks, LibraryStep(t) PROVE UNCHANGED calendarVars
  BY <1>2, <1>3, <1>4 DEF LibraryStep
<1> QED BY <1>1, <1>4

LEMMA ProspectApart ==
  ASSUME ProspectRequest \/ \E t \in tasks : ProspectStep(t)
  PROVE  UNCHANGED calendarVars
<1>1. ASSUME ProspectRequest PROVE UNCHANGED calendarVars
  BY <1>1 DEF ProspectRequest, JoinSubmit, WindowEnds, ProspectAutoReplyUpdate, SetForUnit, UnitSettingsToggle,
     ProspectAdd, AddByLeader, AddEnquiry, ProspectImportSave, ProspectUpdateDetails, UpdateDetails,
     ProspectDelete, DeleteEnquiry, ProspectUnsubscribe, Unsubscribe, ProspectOptOut, SetEmailOptOut, Changes,
     ProspectUpdate, UpdateStatus, ProspectBulkStatus, UpdateStatusMany, Move, ProspectLabels, EnsureDefaults,
     ProspectLabelCreate, CreateLabel, ProspectLabelRename, RenameLabel, ProspectLabelClosed, SetLabelClosed,
     ChangesLabel, ProspectLabelRetire, SetLabelRetired, ProspectLabelMove, MoveLabel
<1>2. ASSUME NEW t \in tasks, ProspectStep(t) PROVE UNCHANGED calendarVars
  BY <1>2 DEF ProspectStep, StoreJoin, AddEnquiry, sendProspectAutoReply, StoreSwitch, SetForUnit, SavePaste,
     AddByLeader, WriteStatus, InsertDefault, InsertLabel, WriteName, ChangesLabel, WriteRetired, WritePlaces
<1> QED BY <1>1, <1>2

LEMMA CalendarNext ==
  ASSUME IInv, CalendarRequest \/ \E t \in tasks : CalendarStep(t) \/ Abandon(t),
         LinksFollow, UNCHANGED <<filed, bucketVars, pageVars, prospectVars>>, Watch
  PROVE  IInv'
<1>0. TasksOK /\ Numbered /\ CalendarInv /\ LibraryInv /\ ProspectInv /\ crossed \subseteq Key /\ made \in Nat
      /\ UNCHANGED prospectVars
  BY DEF IInv, CalendarInv, CalendarTypeOK
<1>1. LibraryInv'
  BY <1>0, LibraryFollows
<1>2. CalendarDoes \cap ProspectDoes = {}
  BY DEF CalendarDoes, ProspectDoes
<1>3. CASE CalendarRequest
  <2>1. CalendarInv' /\ Begins(CalendarDoes)
    BY <1>0, <1>3, CalendarRequestInv
  <2>2. TasksOK' /\ Numbered'
    BY <1>0, <2>1, BeginsKeeps
  <2>3. Doing(ProspectDoes)' = Doing(ProspectDoes)
    BY <1>2, <2>1, BeginsLeaves
  <2> QED BY <1>0, <1>1, <2>1, <2>2, <2>3, ProspectRests, Watched DEF IInv
<1>4. ASSUME NEW t \in tasks, CalendarStep(t) \/ Abandon(t)
      PROVE  IInv'
  <2>1. CalendarInv' /\ GoesOn(t)
    BY <1>0, <1>4, CalendarStepInv
  <2>2. TasksOK' /\ Numbered'
    BY <1>0, <2>1, GoesOnKeeps
  <2>3. ProspectInv'
    <3>1. CASE t.do \notin ProspectDoes
      BY <1>0, <2>1, <2>2, <3>1, GoesOnLeaves, ProspectRests
    <3>2. CASE t.do \in ProspectDoes
      <4>1. tasks' \subseteq tasks
        BY <1>4, <3>2 DEF CalendarStep, Abandon, Ends, ProspectDoes
      <4> QED BY <1>0, <4>1, ProspectWaits
    <3> QED BY <3>1, <3>2
  <2> QED BY <1>0, <1>1, <2>1, <2>2, <2>3, Watched DEF IInv
<1> QED BY <1>3, <1>4

LEMMA LibraryNext ==
  ASSUME IInv, LibraryRequest \/ \E t \in tasks : LibraryStep(t), UNCHANGED prospectVars, Watch
  PROVE  IInv'
<1>0. TasksOK /\ Numbered /\ CalendarInv /\ LibraryInv /\ ProspectInv /\ crossed \subseteq Key /\ made \in Nat
      /\ CalendarTypeOK /\ LibraryTypeOK
  BY DEF IInv, CalendarInv, CalendarTypeOK, LibraryInv
<1>1. UNCHANGED calendarVars
  BY LibraryApart
<1>2. LibraryDoes \cap CalendarDoes = {} /\ LibraryDoes \cap ProspectDoes = {}
  BY DEF CalendarDoes, LibraryDoes, ProspectDoes
<1>3. CASE LibraryRequest
  <2>1. Begins(LibraryDoes)
    BY <1>0, <1>3, LibraryBegins
  <2>2. TasksOK' /\ Numbered' /\ made' \in Nat
    BY <1>0, <2>1, BeginsKeeps
  <2>3. Doing(CalendarDoes)' = Doing(CalendarDoes) /\ Doing(ProspectDoes)' = Doing(ProspectDoes)
    BY <1>2, <2>1, BeginsLeaves
  <2>4. LibraryInv'
    BY <1>0, <1>3, LibraryRequestInv
  <2> QED BY <1>0, <1>1, <2>2, <2>3, <2>4, CalendarRests, ProspectRests, Watched DEF IInv
<1>4. ASSUME NEW t \in tasks, LibraryStep(t)
      PROVE  IInv'
  <2>0. t \in Task /\ Formed(t)
    BY <1>0 DEF TasksOK
  <2>1. GoesOn(t) /\ t.do \in LibraryDoes
    BY <1>0, <1>4, <2>0, LibraryGoesOn
  <2>2. TasksOK' /\ Numbered' /\ made' \in Nat
    BY <1>0, <2>1, GoesOnKeeps
  <2>3. Doing(CalendarDoes)' = Doing(CalendarDoes) /\ Doing(ProspectDoes)' = Doing(ProspectDoes)
    BY <1>2, <2>1, GoesOnLeaves
  <2>4. LibraryInv'
    BY <1>0, <1>4, <2>0, LibraryStepInv
  <2> QED BY <1>0, <1>1, <2>2, <2>3, <2>4, CalendarRests, ProspectRests, Watched DEF IInv
<1> QED BY <1>3, <1>4

LEMMA ProspectNext ==
  ASSUME IInv, ProspectRequest \/ \E t \in tasks : ProspectStep(t), UNCHANGED libraryVars, Watch
  PROVE  IInv'
<1>0. TasksOK /\ Numbered /\ CalendarInv /\ LibraryInv /\ ProspectInv /\ crossed \subseteq Key /\ made \in Nat
      /\ CalendarTypeOK /\ ProspectTypeOK /\ LabelsBounded
  BY DEF IInv, CalendarInv, CalendarTypeOK, ProspectInv
<1>1. UNCHANGED calendarVars /\ UNCHANGED event
  BY ProspectApart DEF calendarVars, eventVars
<1>2. ProspectDoes \cap CalendarDoes = {}
  BY DEF CalendarDoes, ProspectDoes
<1>3. LibraryInv'
  BY <1>0, <1>1, LibraryRests
<1>4. CASE ProspectRequest
  <2>1. Begins(ProspectDoes)
    BY <1>0, <1>4, ProspectBegins
  <2>2. TasksOK' /\ Numbered' /\ made' \in Nat
    BY <1>0, <2>1, BeginsKeeps
  <2>3. Doing(CalendarDoes)' = Doing(CalendarDoes)
    BY <1>2, <2>1, BeginsLeaves
  <2>4. ProspectInv'
    BY <1>0, <1>4, ProspectRequestInv
  <2> QED BY <1>0, <1>1, <1>3, <2>2, <2>3, <2>4, CalendarRests, Watched DEF IInv
<1>5. ASSUME NEW t \in tasks, ProspectStep(t)
      PROVE  IInv'
  <2>0. t \in Task /\ Formed(t)
    BY <1>0 DEF TasksOK
  <2>1. GoesOn(t) /\ t.do \in ProspectDoes
    BY <1>0, <1>5, <2>0, ProspectGoesOn
  <2>2. TasksOK' /\ Numbered' /\ made' \in Nat
    BY <1>0, <2>1, GoesOnKeeps
  <2>3. Doing(CalendarDoes)' = Doing(CalendarDoes)
    BY <1>2, <2>1, GoesOnLeaves
  <2>4. ProspectInv'
    BY <1>0, <1>5, ProspectStepInv
  <2> QED BY <1>0, <1>1, <1>3, <2>2, <2>3, <2>4, CalendarRests, Watched DEF IInv
<1> QED BY <1>4, <1>5

\* Stuttering.
LEMMA RestInv ==
  ASSUME IInv, UNCHANGED vars
  PROVE  IInv'
<1>0. TasksOK /\ Numbered /\ CalendarInv /\ LibraryInv /\ ProspectInv /\ made \in Nat
  BY DEF IInv, CalendarInv, CalendarTypeOK
<1>1. UNCHANGED <<tasks, made, disturbed, crossed, calendarVars, libraryVars, prospectVars, event, labelVars,
                  enquiry, enquired, withdrawn, joins, setting, answered>>
  BY DEF vars, calendarVars, eventVars, prospectVars, enquiryVars, joinVars
<1>2. TasksOK' /\ Numbered'
  BY <1>0, <1>1 DEF TasksOK, Numbered
<1>3. CalendarInv'
  BY <1>0, <1>1, CalendarRests DEF Doing
<1>4. LibraryInv'
  BY <1>0, <1>1, LibraryRests
<1>5. ProspectInv'
  <2>1. LabelsOK'
    BY <1>0, <1>1, LabelsSame, ProspectParts
  <2>2. EnquiriesOK'
    BY <1>0, <1>1, ProspectParts DEF EnquiriesOK, RepliesDue, EnquiriesFresh, ConsentKept, Enquired
  <2>3. FiledUnder'
    <3>1. \A kind \in LabelKinds, v \in Values : \A p \in Under(kind, v)' : p \in Under(kind, v)
      BY <1>1 DEF Under, Enquired
    <3> QED BY <1>0, <1>1, <3>1, OfferedSame, FiledStays, ProspectParts
  <2>4. PastedOnce'
    BY <1>0, <1>1, ProspectParts DEF PastedOnce, existingEnquiries, Enquired, enquiryKey
  <2> QED BY <2>1, <2>2, <2>3, <2>4, ProspectPartsNext
<1> QED BY <1>1, <1>2, <1>3, <1>4, <1>5 DEF IInv

LEMMA NextInv == IInv /\ [Next]_vars => IInv'
<1> SUFFICES ASSUME IInv, [Next]_vars PROVE IInv'
  OBVIOUS
<1> QED BY CalendarNext, LibraryNext, ProspectNext, RestInv DEF Next

\* Whatever is under way, what it has made sure of still holds when its next
\* statement runs.
THEOREM Invariance == Spec => []IInv
BY InitInv, NextInv, PTL DEF Spec

\* Every row has its type: rows are of ids given out, references are of rows
\* there are, keys are unique.
THEOREM TypeCorrectness == Spec => []TypeOK
<1>1. IInv => TypeOK
  BY DEF IInv, CalendarInv, LibraryInv, ProspectInv, TypeOK
<1> QED BY <1>1, Invariance, PTL

\* However runs of the reminders overlap, fail or die, a second mail about the
\* same event is one whose record is in doubt.
THEOREM NobodyIsRemindedTwice == Spec => []RemindedOnce
<1>1. IInv => RemindedOnce
  BY DEF IInv, CalendarInv
<1> QED BY <1>1, Invariance, PTL

\* However refreshes and rulings overlap, what has been ruled out does not come
\* back, and is not asked about again.
THEOREM RulingsAreKept == Spec => []RulingsHold
<1>1. IInv => RulingsHold
  BY DEF IInv, CalendarInv
<1> QED BY <1>1, Invariance, PTL

\* Each enquiry that is listed is in the group of its own status.
LEMMA PageHolds ==
  ASSUME NEW x, requireContentEditor(x), NEW all \in BOOLEAN, NEW p \in ListEnquiries(~all)
  PROVE  OnPage(x, p, all)
<1> DEFINE ps == {q \in ListEnquiries(~all) :
                    requireContentEditor(x) /\ ({} # {} => enquiry[q].category \in {})}
           page == groupByStatus(ps)
           v == enquiry[p].status
<1>1. p \in ps
  OBVIOUS
<1>2. v \in {enquiry[q].status : q \in ps}
  BY <1>1
<1>3. ProspectsList(x, all, {}) = page
  BY DEF ProspectsList
<1> HIDE DEF ps
<1>4. v \in DOMAIN page /\ p \in page[v]
  BY <1>1, <1>2 DEF groupByStatus
<1> HIDE DEF page, v
<1> QED BY <1>3, <1>4 DEF OnPage

LEMMA PageShows ==
  ASSUME NEW x, NEW all \in BOOLEAN, NEW p, OnPage(x, p, all)
  PROVE  requireContentEditor(x)
<1> DEFINE ps == {q \in ListEnquiries(~all) :
                    requireContentEditor(x) /\ ({} # {} => enquiry[q].category \in {})}
           page == groupByStatus(ps)
<1>1. ProspectsList(x, all, {}) = page
  BY DEF ProspectsList
<1>2. ASSUME NEW v \in DOMAIN page, p \in page[v] PROVE p \in ps
  <2> HIDE DEF ps
  <2> QED BY <1>2 DEF groupByStatus
<1>3. \E v \in DOMAIN page : p \in page[v]
  <2> HIDE DEF page
  <2> QED BY <1>1 DEF OnPage
<1> QED BY <1>2, <1>3

LEMMA FiledWell == IInv => FiledWhereOffered
<1> SUFFICES ASSUME IInv PROVE FiledWhereOffered
  OBVIOUS
<1>0. ProspectInv /\ FiledUnder /\ NewStays /\ ProspectTypeOK
  BY DEF IInv, ProspectInv
<1>1. \A p \in EnquiryIds : enquiry[p].status \in Values /\ enquiry[p].category \in Values
  BY <1>0 DEF ProspectTypeOK, Enquiry
<1>2. \A p \in EnquiryIds : Enquired(p) =>
         p \in Under("status", enquiry[p].status) /\ p \in Under("category", enquiry[p].category)
  BY DEF Under
<1>3. \A p \in EnquiryIds : Enquired(p) =>
         /\ enquiry[p].status = StatusNewValue \/ Offered("status", p, enquiry[p].status)
         /\ enquiry[p].category = Uncategorised \/ Offered("category", p, enquiry[p].category)
  BY <1>0, <1>1, <1>2 DEF FiledUnder, LabelKinds, Free
<1>4. \A p \in EnquiryIds : Enquired(p) /\ enquiry[p].status # StatusNewValue =>
         \E l \in ListLabels("status") :
            l.value = enquiry[p].status /\ (l.retired => <<p, l.kind, l.value>> \in excused)
  BY <1>3 DEF Offered, ListLabels
<1>5. \A p \in EnquiryIds : Enquired(p) /\ enquiry[p].category # Uncategorised =>
         \E l \in ListLabels("category") :
            l.value = enquiry[p].category /\ (l.retired => <<p, l.kind, l.value>> \in excused)
  BY <1>3 DEF Offered, ListLabels
<1>6. \A x \in Logins, p \in EnquiryIds : Enquired(p) /\ requireContentEditor(x) =>
         /\ OnPage(x, p, TRUE)
         /\ OnPage(x, p, FALSE) \/ enquiry[p].status \in closedStatuses
  <2> SUFFICES ASSUME NEW x \in Logins, NEW p \in EnquiryIds, Enquired(p), requireContentEditor(x)
               PROVE  OnPage(x, p, TRUE) /\ (OnPage(x, p, FALSE) \/ enquiry[p].status \in closedStatuses)
    OBVIOUS
  <2>1. p \in ListEnquiries(~TRUE)
    BY DEF ListEnquiries
  <2>2. p \in ListEnquiries(~FALSE) \/ enquiry[p].status \in closedStatuses
    BY DEF ListEnquiries
  <2> QED BY <2>1, <2>2, PageHolds
<1> QED BY <1>0, <1>4, <1>5, <1>6 DEF FiledWhereOffered, NewStays

\* However leaders file, rename, retire and paste at once: no enquiry is under a
\* label that was gone when it was put there, none is off the editors' page,
\* no pasted family is there twice, and whoever unsubscribed stays so.
THEOREM EnquiriesAreSound == Spec => []EnquiriesSound
<1>1. IInv => EnquiriesSound
  BY FiledWell DEF IInv, ProspectInv, EnquiriesSound
<1> QED BY <1>1, Invariance, PTL

LEMMA EventsVetted ==
  ASSUME IInv, NEW x \in Logins \cup {NoLogin}, NEW e \in EventsSeen(x) \cup HomeEvents
  PROVE  /\ event[e].status = "published" /\ e \in vetted
         /\ x \in member \/ (event[e].public /\ event[e].group = NoGroup)
         /\ event[e].group \in {NoGroup} \cup ViewerGroups(x) \/ CanEdit(x)
<1>0. EventsKept /\ NoLogin \notin member
  BY CalendarAssumption DEF CalendarAssumption, IInv, CalendarInv, CalendarTypeOK
<1>1. \A d \in ListUpcomingForUnit \cup ListForRangeForUnit(0, Horizon) :
         d \in EventIds /\ event[d].status = "published"
  BY DEF ListUpcomingForUnit, ListForRangeForUnit, ListAllForUnit
<1>2. \A d \in ListUpcomingPublicForUnit \cup ListForRangePublicForUnit(0, Horizon) :
         d \in EventIds /\ event[d].status = "published" /\ event[d].public
  BY <1>1 DEF ListUpcomingPublicForUnit, ListForRangePublicForUnit
<1>3. \A es, d : d \in Visible(es, x) =>
         d \in es /\ (x = NoLogin \/ CanEdit(x) \/ event[d].group \in {NoGroup} \cup ViewerGroups(x))
  BY DEF Visible, FilterVisibleToViewer
<1>4. \A d : d \in FilterVisibleToViewer(ListForRangeForUnit(0, Horizon), x) =>
         d \in ListForRangeForUnit(0, Horizon)
         /\ (CanEdit(x) \/ event[d].group \in {NoGroup} \cup ViewerGroups(x))
  BY DEF FilterVisibleToViewer
<1>5. \/ e \in CalendarPage(x) \/ e \in CalendarExportPDF(x, 0, Horizon, {}) \/ e \in CalendarFeed(x)
      \/ e \in ListUpcomingPublicForUnit
  BY DEF EventsSeen, HomeEvents
<1>6. /\ e \in EventIds /\ event[e].status = "published" /\ (x \in member \/ event[e].public)
      /\ event[e].public \/ CanEdit(x) \/ event[e].group \in {NoGroup} \cup ViewerGroups(x)
  <2>1. CASE e \in CalendarPage(x)
    BY <1>0, <1>1, <1>2, <1>3, <2>1 DEF CalendarPage
  <2>2. CASE e \in CalendarExportPDF(x, 0, Horizon, {})
    BY <1>0, <1>1, <1>2, <1>3, <2>2 DEF CalendarExportPDF
  <2>3. CASE e \in CalendarFeed(x)
    BY <1>1, <1>4, <2>3 DEF CalendarFeed
  <2>4. CASE e \in ListUpcomingPublicForUnit
    BY <1>2, <2>4
  <2> QED BY <1>5, <2>1, <2>2, <2>3, <2>4
<1> QED BY <1>0, <1>6 DEF EventsKept

LEMMA ShownVetted == IInv => OnlyVettedShown
<1> SUFFICES ASSUME IInv PROVE OnlyVettedShown
  OBVIOUS
<1>0. EventsKept /\ PostsOpen /\ NoLogin \notin member
  BY CalendarAssumption DEF CalendarAssumption, IInv, CalendarInv, CalendarTypeOK, LibraryInv
<1>1. \A x \in Logins \cup {NoLogin}, g \in Groups : \A e \in GroupEvents(x, g) :
         e \in vetted /\ event[e].group \in {NoGroup, g} /\ x \in member
  BY <1>0 DEF GroupEvents, ListUpcomingForUnit, ListAllForUnit, EventsKept
<1>2. \A f \in HomePhotos(NoLogin) \cup UNION {galleryDetail(NoLogin, p) : p \in PostIds} : file[f].public
  <2>1. \A fs : \A f \in filterViewableGalleryPhotos(NoLogin, fs) : file[f].public
    BY DEF filterViewableGalleryPhotos, PublicFileIDSet
  <2>2. \A f \in HomePhotos(NoLogin) : file[f].public
    BY <2>1 DEF HomePhotos
  <2>3. \A p \in PostIds : \A f \in galleryDetail(NoLogin, p) : file[f].public
    BY <2>1 DEF galleryDetail
  <2> QED BY <2>2, <2>3
<1>3. \A p \in PostIds : publicContentView(NoLogin, p) => p \in openly
  BY <1>0 DEF publicContentView, PostsOpen
<1>4. \A x \in Logins \cup {NoLogin} : \A p \in publicContentList(x, "post") : post[p].group = NoGroup
  BY DEF publicContentList, ListPublishedPublicForUnit, ListPublishedForUnit
<1>5. \A x \in Logins \cup {NoLogin}, p \in EnquiryIds : OnPage(x, p, TRUE) => x \in Editors \cap member
  BY PageShows DEF requireContentEditor, CanEdit
<1>6. \A x \in Logins \cup {NoLogin}, e \in EventIds :
         CalendarEventAttendeesExportPDF(x, e) # {} => x \in Editors \cap member
  BY DEF CalendarEventAttendeesExportPDF, CanEdit
<1> QED BY <1>1, <1>2, <1>3, <1>4, <1>5, <1>6, EventsVetted DEF OnlyVettedShown

\* Whatever has been edited, approved, imported or withdrawn meanwhile: what a
\* page shows somebody has let through, and is for its viewer to see.
THEOREM ShownIsVetted == Spec => []OnlyVettedShown
BY ShownVetted, Invariance, PTL

-----------------------------------------------------------------------------
(* Imported calendars.  A refresh reads what the unit holds and what has been   *)
(* ruled out, and then writes one entry after another.  As long as nobody else  *)
(* writes next to it, what it has read is still so when it is used, and what it *)
(* has seen to stays seen to.                                                  *)

\* The unit holds no entry of a calendar twice.
ImportedOnce ==
    \A d, e \in EventIds :
        Here(d) /\ Here(e) /\ event[d].feed \in Feeds /\ event[d].feed = event[e].feed /\ event[d].uid = event[e].uid
        => d = e

LEMMA OnceStays ==
  ASSUME ImportedOnce,
         \A e \in EventIds : Here(e)' => Here(e) /\ event'[e].feed = event[e].feed /\ event'[e].uid = event[e].uid
  PROVE  ImportedOnce'
BY DEF ImportedOnce

LEMMA OnceSame ==
  ASSUME ImportedOnce, UNCHANGED event
  PROVE  ImportedOnce'
BY DEF ImportedOnce, Here

LEMMA OnceDropped ==
  ASSUME ImportedOnce, NEW es, DropEvents(es)
  PROVE  ImportedOnce'
<1>1. NoSuchEvent.status = "none"
  BY DEF NoSuchEvent, MkEvent
<1>2. \A e \in EventIds : event'[e] = IF e \in es THEN NoSuchEvent ELSE event[e]
  BY DEF DropEvents
<1>3. \A e \in EventIds : Here(e)' => Here(e) /\ event'[e] = event[e]
  BY <1>1, <1>2 DEF Here
<1> QED BY <1>3, OnceStays

LEMMA OnceAdded ==
  ASSUME ImportedOnce, EventsOK, NEW ev, AddEvent(ev), ev.feed \in Feeds => Imported(ev.feed, ev.uid) = {}
  PROVE  ImportedOnce'
<1>1. spent \in Nat /\ event' = [event EXCEPT ![spent + 1] = ev] /\ event \in [EventIds -> Event]
  BY DEF AddEvent, EventsOK
<1>2. \A e \in EventIds : e # spent + 1 => event'[e] = event[e] /\ (Here(e)' <=> Here(e))
  BY <1>1 DEF Here
<1>3. \A e \in EventIds : e = spent + 1 => event'[e] = ev
  BY <1>1
<1>4. \A e \in EventIds : Here(e) /\ ev.feed \in Feeds => ~(event[e].feed = ev.feed /\ event[e].uid = ev.uid)
  BY DEF Imported, EventsOf
<1> SUFFICES ASSUME NEW d \in EventIds, NEW e \in EventIds, Here(d)', Here(e)', event'[d].feed \in Feeds,
                    event'[d].feed = event'[e].feed, event'[d].uid = event'[e].uid
             PROVE  d = e
  BY DEF ImportedOnce
<1>5. CASE d # spent + 1 /\ e # spent + 1
  BY <1>2, <1>5 DEF ImportedOnce
<1>6. CASE d = spent + 1 /\ e # spent + 1
  BY <1>2, <1>3, <1>4, <1>6
<1>7. CASE d # spent + 1 /\ e = spent + 1
  BY <1>2, <1>3, <1>4, <1>7
<1> QED BY <1>5, <1>6, <1>7

LEMMA OnceRequests ==
  ASSUME ImportedOnce, EventsOK, CalendarRequest
  PROVE  ImportedOnce'
<1>0. event \in [EventIds -> Event]
  BY DEF EventsOK
<1>1. ASSUME NEW x \in Logins, NEW e \in EventIds, NEW approve \in BOOLEAN, Decide(x, e, approve)
      PROVE  ImportedOnce'
  <2>1. CASE ~Here(e)
    BY <1>1, <2>1, OnceSame DEF Decide
  <2>2. CASE Here(e)
    <3>1. PICK status : event' = [event EXCEPT ![e].status = status]
      BY <1>1, <2>2 DEF Decide
    <3>2. \A d \in EventIds : Here(d)' => Here(d) /\ event'[d].feed = event[d].feed /\ event'[d].uid = event[d].uid
      BY <1>0, <2>2, <3>1 DEF Here, Event
    <3> QED BY <3>2, OnceStays
  <2> QED BY <2>1, <2>2
<1>2. ASSUME NEW x \in Logins, NEW e \in EventIds, NEW s \in Slots, NEW g \in Groups \cup {NoGroup},
             NEW public \in BOOLEAN, CalendarUpdate(x, e, s, g, public)
      PROVE  ImportedOnce'
  <2>1. PICK p \in BOOLEAN :
          event' = [event EXCEPT ![e].slot = s, ![e].group = g, ![e].public = p] /\ Here(e)
    BY <1>2 DEF CalendarUpdate, Update
  <2>2. \A d \in EventIds : Here(d)' => Here(d) /\ event'[d].feed = event[d].feed /\ event'[d].uid = event[d].uid
    BY <1>0, <2>1 DEF Here, Event
  <2> QED BY <2>2, OnceStays
<1>3. ASSUME NEW x \in Logins, NEW f \in Feeds, AdminCalendarFeedDelete(x, f)
      PROVE  ImportedOnce'
  BY <1>3, OnceDropped DEF AdminCalendarFeedDelete, DeleteFeed
<1>4. CASE UNCHANGED event
  BY <1>4, OnceSame
<1>5. ASSUME NEW x \in Logins, NEW e \in EventIds, NEW r \in Responses \ {"none"}, CalendarRSVP(x, e, r)
      PROVE  UNCHANGED event
  BY <1>5 DEF CalendarRSVP, SetRSVP
<1>6. ASSUME NEW x \in Logins, NEW s \in Slots, NEW g \in Groups \cup {NoGroup},
             NEW public \in BOOLEAN, NEW n \in 1..MaxRepeats, CalendarCreate(x, s, g, public, n)
      PROVE  UNCHANGED event
  BY <1>6 DEF CalendarCreate, calendarVars, eventVars
<1>7. ASSUME NEW x \in Logins, NEW e \in EventIds, CalendarDelete(x, e)
      PROVE  UNCHANGED event
  BY <1>7 DEF CalendarDelete, calendarVars, eventVars
<1>8. ASSUME NEW x \in Logins, NEW f \in Feeds, NEW public \in BOOLEAN, AdminCalendarFeedAdd(x, f, public)
      PROVE  UNCHANGED event
  BY <1>8 DEF AdminCalendarFeedAdd, AddFeed, eventVars
<1>9. ASSUME NEW x \in Logins, NEW f \in Feeds, AdminCalendarFeedRefresh(x, f)
      PROVE  UNCHANGED event
  BY <1>9 DEF AdminCalendarFeedRefresh, calendarVars, eventVars
<1>10. ASSUME RefreshAllFeeds
       PROVE  UNCHANGED event
  BY <1>10 DEF RefreshAllFeeds, calendarVars, eventVars
<1>11. ASSUME NEW x \in Logins, NEW f \in Feeds, NEW enabled \in BOOLEAN, AdminCalendarFeedToggle(x, f, enabled)
       PROVE  UNCHANGED event
  BY <1>11 DEF AdminCalendarFeedToggle, SetFeedEnabled, eventVars
<1>12. ASSUME NEW f \in Feeds, NEW u \in Uids, NEW s \in 0..Absent, Offers(f, u, s)
       PROVE  UNCHANGED event
  BY <1>12 DEF Offers, eventVars
<1>13. ASSUME NEW x \in Logins, NEW c \in conflicts, NEW d \in Rulings, AdminCalendarConflictResolve(x, c, d)
       PROVE  UNCHANGED event
  BY <1>13 DEF AdminCalendarConflictResolve, calendarVars, eventVars
<1>14. ASSUME SendReminders
       PROVE  UNCHANGED event
  BY <1>14 DEF SendReminders, eventVars
<1>15. ASSUME NEW x \in Logins, CalendarSubscribeRegenerate(x) \/ CalendarSubscribeRemove(x) \/ Leaves(x)
       PROVE  UNCHANGED event
  BY <1>15 DEF CalendarSubscribeRegenerate, CalendarSubscribeRemove, Leaves, eventVars
<1>16. ASSUME Tick
       PROVE  UNCHANGED event
  BY <1>16 DEF Tick, eventVars
<1> QED BY <1>1, <1>2, <1>3, <1>4, <1>5, <1>6, <1>7, <1>8, <1>9, <1>10, <1>11, <1>12, <1>13, <1>14, <1>15, <1>16
        DEF CalendarRequest

\* One entry brought up to date is the same entry.
LEMMA OnceImported ==
  ASSUME ImportedOnce, EventsOK, NEW t, NEW u, Import(t, u)
  PROVE  ImportedOnce'
<1>0. event \in [EventIds -> Event]
  BY DEF EventsOK
<1>1. CASE UNCHANGED event
  BY <1>1, OnceSame
<1>2. CASE ~UNCHANGED event
  <2>1. Here(t.existing[u]) /\ event' = [event EXCEPT ![t.existing[u]].slot = t.offer[u]]
    BY <1>2 DEF Import, calendarVars, eventVars
  <2>2. PICK e \in EventIds : Here(e) /\ event' = [event EXCEPT ![e].slot = t.offer[u]]
    BY <2>1 DEF Here
  <2>3. \A d \in EventIds : Here(d)' => Here(d) /\ event'[d].feed = event[d].feed /\ event'[d].uid = event[d].uid
    BY <1>0, <2>2 DEF Here, Event
  <2> QED BY <2>3, OnceStays
<1> QED BY <1>1, <1>2

LEMMA OnceResolved ==
  ASSUME ImportedOnce, EventsOK, NEW t, ResolveConflict(t)
  PROVE  ImportedOnce'
<1> DEFINE c == t.conflict
           old == IF t.decision = "replace" THEN {c.existing} ELSE {}
           add == t.decision # "skip" /\ Imported(c.feed, c.uid) \ old = {}
           added == MkEvent("published", c.slot, NoGroup, feed[c.feed].public, c.feed, c.uid)
<1>1. event' = [e \in EventIds |-> IF add /\ e = spent + 1 THEN added
                                   ELSE IF e \in old THEN NoSuchEvent ELSE event[e]]
  BY DEF ResolveConflict
<1>2. NoSuchEvent.status = "none" /\ added.feed = c.feed /\ added.uid = c.uid
  BY DEF NoSuchEvent, MkEvent
<1>3. add => \A e \in EventIds : Here(e) /\ event[e].feed = c.feed /\ event[e].uid = c.uid => e \in old
  BY DEF Imported, EventsOf
<1> HIDE DEF add, added, old, c
<1>4. \A e \in EventIds : ~(add /\ e = spent + 1) => (Here(e)' => Here(e) /\ e \notin old /\ event'[e] = event[e])
  BY <1>1, <1>2 DEF Here
<1>5. \A e \in EventIds : add /\ e = spent + 1 => event'[e] = added
  BY <1>1
<1> SUFFICES ASSUME NEW d \in EventIds, NEW e \in EventIds, Here(d)', Here(e)', event'[d].feed \in Feeds,
                    event'[d].feed = event'[e].feed, event'[d].uid = event'[e].uid
             PROVE  d = e
  BY DEF ImportedOnce
<1>6. CASE ~(add /\ d = spent + 1) /\ ~(add /\ e = spent + 1)
  BY <1>4, <1>6 DEF ImportedOnce
<1>7. CASE add /\ d = spent + 1 /\ e # spent + 1
  BY <1>2, <1>3, <1>4, <1>5, <1>7
<1>8. CASE add /\ d # spent + 1 /\ e = spent + 1
  BY <1>2, <1>3, <1>4, <1>5, <1>8
<1> QED BY <1>6, <1>7, <1>8

LEMMA OnceSteps ==
  ASSUME ImportedOnce, EventsOK, NEW t, CalendarStep(t) \/ Abandon(t)
  PROVE  ImportedOnce'
<1>1. CASE UNCHANGED event
  BY <1>1, OnceSame
<1>2. CASE InsertOccurrence(t)
  <2>1. NoFeed \notin Feeds
    BY CalendarAssumption DEF CalendarAssumption
  <2>2. \A status, public : MkEvent(status, t.slot, t.group, public, NoFeed, NoUid).feed = NoFeed
    BY DEF MkEvent
  <2> QED BY <1>2, <2>1, <2>2, OnceAdded DEF InsertOccurrence
<1>3. CASE DeleteEvent(t)
  BY <1>3, OnceDropped DEF DeleteEvent
<1>4. CASE InsertImported(t) /\ ~UNCHANGED event
  <2> DEFINE ev == MkEvent("published", t.offer[t.uid], NoGroup, feed[t.feed].public, t.feed, t.uid)
  <2>1. AddEvent(ev) /\ Imported(t.feed, t.uid) = {}
    BY <1>4 DEF InsertImported, calendarVars, eventVars
  <2>2. ev.feed = t.feed /\ ev.uid = t.uid
    BY DEF MkEvent
  <2> HIDE DEF ev
  <2> QED BY <2>1, <2>2, OnceAdded
<1>5. ASSUME NEW u, RemoveGone(t, u)
      PROVE  ImportedOnce'
  BY <1>5, OnceDropped DEF RemoveGone
<1>6. ASSUME NEW u, Import(t, u)
      PROVE  ImportedOnce'
  BY <1>6, OnceImported
<1>7. CASE ResolveConflict(t)
  BY <1>7, OnceResolved
<1>8. CASE Abandon(t) \/ RemindStep(t)
  BY <1>1, <1>8 DEF Abandon, RemindStep, SendReminder, RecordReminder, eventVars
<1>9. CASE CreateStep(t)
  BY <1>1, <1>2, <1>9 DEF CreateStep, Submit
<1>10. CASE DeleteStep(t)
  BY <1>1, <1>3, <1>10 DEF DeleteStep, WithdrawRequest
<1>11. CASE RefreshStep(t)
  <2>1. CASE \/ fetchFeed(t) \/ ReadExisting(t) \/ ignoredUIDs(t) \/ RefreshDone(t) \/ RefreshFails(t)
             \/ recordConflict(t) \/ \E ok \in BOOLEAN : ClearConflicts(t, ok)
    BY <1>1, <2>1 DEF fetchFeed, ReadExisting, ignoredUIDs, RefreshDone, RefreshFails, recordConflict,
                      ClearConflicts, calendarVars, eventVars
  <2> QED BY <1>1, <1>4, <1>5, <1>6, <1>11, <2>1 DEF RefreshStep
<1> QED BY <1>7, <1>8, <1>9, <1>10, <1>11 DEF CalendarStep

\* The entries a refresh is done with.
Tended(t) == Seen(t) \ (t.uids \cup {t.uid})
\* The unit holds this entry as it was offered, as an event or as a conflict.
Settled(t, u) ==
    \/ /\ Imported(t.feed, u) # {}
       /\ \A e \in Imported(t.feed, u) : event[e].slot = t.offer[u]
    \/ /\ Imported(t.feed, u) = {} /\ Held(t.feed, u) # {}
       /\ \A c \in Held(t.feed, u) : c.slot = t.offer[u] /\ event[c.existing].feed # t.feed
\* What the unit holds is what has been read.
Matched(t) ==
    \A u \in Uids : Imported(t.feed, u) = IF t.existing[u] = NoEvent THEN {} ELSE {t.existing[u]}
\* While it goes through the entries: what was held still is, and what was not
\* comes with its own turn only.
Imports(t) ==
    /\ \A u \in Uids : t.existing[u] # NoEvent => Imported(t.feed, u) = {t.existing[u]}
    /\ \A u \in Uids \ Tended(t) : t.existing[u] = NoEvent => Imported(t.feed, u) = {}
    /\ \A u \in Tended(t) \ t.ignoring : Settled(t, u)
    /\ t.uid \notin t.uids
    /\ t.at \in {"holding", "inserting"} => t.existing[t.uid] = NoEvent
    /\ t.at = "holding" => event[t.clash].feed # t.feed
\* While it removes what is no longer offered.
Removes(t) ==
    /\ t.uids \cap Seen(t) = {}
    /\ \A u \in t.uids : Imported(t.feed, u) = {t.existing[u]}
    /\ \A u \in Uids \ Seen(t) : Held(t.feed, u) = {} /\ (u \notin t.uids => Imported(t.feed, u) = {})
    /\ \A u \in Seen(t) \ t.ignoring : Settled(t, u)
Progress(t) ==
    Live(t.feed) =>
        /\ t.at = "ignored" => Matched(t)
        /\ t.at \in {"importing", "holding", "inserting"} => Imports(t)
        /\ t.at = "removing" /\ t.cleared => Removes(t)
Progresses == \A t \in tasks : t.do = "refresh" /\ t.id \notin disturbed => Progress(t)

\* What was settled stays so while the entry's own rows stay.
LEMMA SettledStays ==
  ASSUME NEW CONSTANT t, NEW CONSTANT r, NEW CONSTANT u, r.feed = t.feed, r.offer = t.offer, Settled(t, u),
         Imported(t.feed, u)' = Imported(t.feed, u),
         \A e \in Imported(t.feed, u) : event'[e].slot = event[e].slot,
         Imported(t.feed, u) = {} =>
            /\ Held(t.feed, u)' = Held(t.feed, u)
            /\ \A c \in Held(t.feed, u) :
                  event[c.existing].feed # t.feed => event'[c.existing].feed # t.feed
  PROVE  Settled(r, u)'
<1>1. Imported(r.feed, u)' = Imported(t.feed, u)' /\ Held(r.feed, u)' = Held(t.feed, u)'
  BY DEF Imported, EventsOf, Held, Here
<1>2. CASE Imported(t.feed, u) # {}
  BY <1>1, <1>2 DEF Settled
<1>3. CASE Imported(t.feed, u) = {}
  BY <1>1, <1>3 DEF Settled
<1> QED BY <1>2, <1>3

\* Nothing that a refresh rests on changes.
LEMMA ProgressStays ==
  ASSUME NEW CONSTANT t, Progress(t), UNCHANGED <<event, feed, conflicts>>
  PROVE  Progress(t)'
BY DEF Progress, Matched, Imports, Removes, Settled, Imported, EventsOf, Held, Here, Live

\* What it holds is read at once ...
LEMMA ReadsMatched ==
  ASSUME ImportedOnce, NEW t \in RefreshTask, ReadExisting(t), NEW CONSTANT r \in tasks', r \notin tasks
  PROVE  Progress(r)'
<1> DEFINE held == [u \in Uids |-> IF Imported(t.feed, u) = {} THEN NoEvent
                                   ELSE CHOOSE e \in Imported(t.feed, u) : TRUE]
           v == [t EXCEPT !.at = "ignored", !.existing = held]
<1>1. r = v /\ UNCHANGED event
  BY DEF ReadExisting, Goes, calendarVars, eventVars
<1> HIDE DEF held
<1>2. r.at = "ignored" /\ r.feed = t.feed /\ r.existing = held /\ r.feed \in Feeds
  BY <1>1 DEF RefreshTask
<1>3. ASSUME NEW u \in Uids
      PROVE  Imported(t.feed, u) = IF held[u] = NoEvent THEN {} ELSE {held[u]}
  <2>1. \A d, e \in Imported(t.feed, u) : d = e
    BY <1>2 DEF Imported, EventsOf, ImportedOnce
  <2>2. NoEvent \notin Imported(t.feed, u)
    BY DEF NoEvent, Imported, EventsOf, EventIds
  <2>3. CASE Imported(t.feed, u) = {}
    BY <2>3 DEF held
  <2>4. CASE Imported(t.feed, u) # {}
    <3>1. held[u] = CHOOSE e \in Imported(t.feed, u) : TRUE
      BY <2>4 DEF held
    <3>2. held[u] \in Imported(t.feed, u)
      BY <2>4, <3>1
    <3> QED BY <2>1, <2>2, <3>2
  <2> QED BY <2>3, <2>4
<1>4. \A u \in Uids : Imported(r.feed, u)' = Imported(t.feed, u)
  BY <1>1, <1>2 DEF Imported, EventsOf, Here
<1>5. Matched(r)'
  BY <1>2, <1>3, <1>4 DEF Matched
<1> QED BY <1>2, <1>5 DEF Progress

\* ... and what has been ruled out with the next statement.
LEMMA StartsImports ==
  ASSUME NEW t \in RefreshTask, RefreshFormed(t), t.at = "ignored", Progress(t), ignoredUIDs(t),
         NEW CONSTANT r \in tasks', r \notin tasks
  PROVE  Progress(r)'
<1> DEFINE ruled == {u \in Uids : <<t.feed, u>> \in ignored}
           v == [t EXCEPT !.at = "importing", !.uids = Seen(t), !.ignoring = ruled]
<1>1. r = v /\ UNCHANGED <<event, feed>>
  BY DEF ignoredUIDs, Goes, calendarVars, eventVars, feedVars
<1> HIDE DEF ruled
<1>2. /\ r.at = "importing" /\ r.feed = t.feed /\ r.existing = t.existing /\ r.offer = t.offer
      /\ r.uids = Seen(t) /\ r.ignoring = ruled
  BY <1>1 DEF RefreshTask
<1>3. Tended(r) = {} /\ r.uid \notin r.uids
  <2>1. r.uid = NoUid /\ NoUid \notin Uids
    BY <1>1, CalendarAssumption DEF RefreshTask, RefreshFormed, CalendarAssumption
  <2> QED BY <1>2, <2>1 DEF Tended, Seen
<1> SUFFICES ASSUME Live(r.feed)' PROVE Imports(r)'
  BY <1>2 DEF Progress
<1>4. Matched(t)
  BY <1>1, <1>2 DEF Progress, Live
<1>5. \A u \in Uids : Imported(r.feed, u)' = Imported(t.feed, u)
  BY <1>1, <1>2 DEF Imported, EventsOf, Here
<1> QED BY <1>2, <1>3, <1>4, <1>5 DEF Imports, Matched, Tended, Seen

\* Some entries are seen to, and nothing else changes.
LEMMA ImportsGoOn ==
  ASSUME NEW CONSTANT t, NEW CONSTANT r, Imports(t),
         r.feed = t.feed, r.offer = t.offer, r.existing = t.existing, r.ignoring = t.ignoring,
         NEW CONSTANT done \in SUBSET Uids, Tended(r) = Tended(t) \cup done, r.uid \notin r.uids,
         \A v \in Uids \ done :
            /\ Imported(t.feed, v)' = Imported(t.feed, v)
            /\ \A e \in Imported(t.feed, v) : event'[e].slot = event[e].slot
            /\ Held(t.feed, v)' = Held(t.feed, v)
            /\ \A c \in Held(t.feed, v) : event'[c.existing].feed = event[c.existing].feed,
         \A v \in done :
            /\ v \notin t.ignoring => Settled(r, v)'
            /\ t.existing[v] # NoEvent => Imported(t.feed, v)' = {t.existing[v]},
         r.at \in {"holding", "inserting"} => t.existing[r.uid] = NoEvent,
         r.at = "holding" => event'[r.clash].feed # t.feed
  PROVE  Imports(r)'
<1>1. \A v : Imported(r.feed, v)' = Imported(t.feed, v)'
  BY DEF Imported, EventsOf, Here
<1>2. ASSUME NEW v \in Uids, t.existing[v] # NoEvent
      PROVE  Imported(r.feed, v)' = {r.existing[v]}
  <2>1. CASE v \in done
    BY <1>1, <1>2, <2>1
  <2>2. CASE v \notin done
    BY <1>1, <1>2, <2>2 DEF Imports
  <2> QED BY <2>1, <2>2
<1>3. ASSUME NEW v \in Uids \ Tended(r), t.existing[v] = NoEvent
      PROVE  Imported(r.feed, v)' = {}
  BY <1>1, <1>3 DEF Imports
<1>4. ASSUME NEW v \in Tended(r), v \notin r.ignoring
      PROVE  Settled(r, v)'
  <2>0. v \in Uids
    BY DEF Tended, Seen
  <2>1. CASE v \in done
    BY <1>4, <2>1
  <2>2. CASE v \notin done
    <3>1. Settled(t, v)
      BY <1>4, <2>2 DEF Imports
    <3> QED BY <2>0, <2>2, <3>1, SettledStays
  <2> QED BY <2>1, <2>2
<1>5. Tended(r)' = Tended(r)
  BY DEF Tended, Seen
<1> QED BY <1>2, <1>3, <1>4, <1>5 DEF Imports

\* One entry is seen to.
LEMMA ImportsWith ==
  ASSUME NEW CONSTANT t, NEW CONSTANT r, Imports(t),
         r.feed = t.feed, r.offer = t.offer, r.existing = t.existing, r.ignoring = t.ignoring,
         NEW CONSTANT u \in Uids, Tended(r) = Tended(t) \cup {u}, r.uid \notin r.uids, r.at = "importing",
         \A v \in Uids \ {u} :
            /\ Imported(t.feed, v)' = Imported(t.feed, v)
            /\ \A e \in Imported(t.feed, v) : event'[e].slot = event[e].slot
            /\ Held(t.feed, v)' = Held(t.feed, v)
            /\ \A c \in Held(t.feed, v) : event'[c.existing].feed = event[c.existing].feed,
         u \notin t.ignoring => Settled(r, u)',
         t.existing[u] # NoEvent => Imported(t.feed, u)' = {t.existing[u]}
  PROVE  Imports(r)'
<1> DEFINE done == {u}
<1>1. /\ done \in SUBSET Uids /\ Tended(r) = Tended(t) \cup done
      /\ \A v \in done : v = u
  OBVIOUS
<1>2. \A v \in Uids \ done :
            /\ Imported(t.feed, v)' = Imported(t.feed, v)
            /\ \A e \in Imported(t.feed, v) : event'[e].slot = event[e].slot
            /\ Held(t.feed, v)' = Held(t.feed, v)
            /\ \A c \in Held(t.feed, v) : event'[c.existing].feed = event[c.existing].feed
  OBVIOUS
<1>3. \A v \in done :
         /\ v \notin t.ignoring => Settled(r, v)'
         /\ t.existing[v] # NoEvent => Imported(t.feed, v)' = {t.existing[v]}
  OBVIOUS
<1> HIDE DEF done
<1> QED BY <1>1, <1>2, <1>3, ImportsGoOn

LEMMA ImportsOne ==
  ASSUME EventsOK, NEW t \in RefreshTask, RefreshFormed(t), t.at = "importing", Progress(t),
         NEW u \in t.uids, Import(t, u), NEW CONSTANT r \in tasks', r \notin tasks
  PROVE  Progress(r)'
<1> DEFINE went == [t EXCEPT !.uids = @ \ {u}]
<1>0. /\ u \in Uids /\ u \in Seen(t) /\ t.uid = NoUid /\ NoUid \notin Uids /\ t.uids \subseteq Uids
      /\ event \in [EventIds -> Event]
  BY CalendarAssumption DEF RefreshTask, RefreshFormed, CalendarAssumption, Seen, EventsOK
<1>1. /\ went.feed = t.feed /\ went.offer = t.offer /\ went.existing = t.existing /\ went.ignoring = t.ignoring
      /\ went.at = t.at /\ went.uid = t.uid /\ went.uids = t.uids \ {u} /\ went \in RefreshTask
  BY DEF RefreshTask
<1> HIDE DEF went
<1>2. UNCHANGED <<feed, conflicts>>
  BY DEF Import, calendarVars, feedVars
<1>8. \/ r = went \/ r = [went EXCEPT !.at = "inserting", !.uid = u]
      \/ \E c \in findConflict(t.feed, u, t.offer[u]) : r = [went EXCEPT !.at = "holding", !.uid = u, !.clash = c]
  BY DEF Import, Goes, went
<1>7. r.feed = t.feed /\ r.at \in {"importing", "holding", "inserting"}
  <2>1. CASE r = went
    BY <1>1, <2>1
  <2>2. CASE r = [went EXCEPT !.at = "inserting", !.uid = u]
    BY <1>1, <2>2 DEF RefreshTask
  <2>3. ASSUME NEW c \in findConflict(t.feed, u, t.offer[u]),
               r = [went EXCEPT !.at = "holding", !.uid = u, !.clash = c]
        PROVE  r.feed = t.feed /\ r.at = "holding"
    BY <1>1, <2>3 DEF RefreshTask
  <2> QED BY <1>8, <2>1, <2>2, <2>3
<1> SUFFICES ASSUME Live(t.feed)' PROVE Imports(r)'
  BY <1>7 DEF Progress, Live
<1>3. Imports(t)
  BY <1>2 DEF Progress, Live
<1>4. CASE u \in t.ignoring
  <2>1. r = went /\ UNCHANGED event
    BY <1>4 DEF Import, Goes, calendarVars, eventVars, went
  <2>2. Tended(r) = Tended(t) \cup {u}
    BY <1>0, <1>1, <2>1 DEF Tended, Seen
  <2>3. \A v \in Uids : Imported(t.feed, v)' = Imported(t.feed, v) /\ Held(t.feed, v)' = Held(t.feed, v)
    BY <1>2, <2>1 DEF Imported, EventsOf, Here, Held
  <2>4. t.existing[u] # NoEvent => Imported(t.feed, u)' = {t.existing[u]}
    BY <1>0, <1>3, <2>3 DEF Imports
  <2>5. {u} \in SUBSET Uids /\ r.uid \notin r.uids /\ r.at = "importing"
    BY <1>0, <1>1, <2>1
  <2>6. \A v \in Uids : \A d \in Imported(t.feed, v) : event'[d].slot = event[d].slot
    BY <2>1
  <2>7. \A c : event'[c.existing].feed = event[c.existing].feed
    BY <2>1
  <2> QED BY <1>1, <1>3, <1>4, <2>1, <2>2, <2>3, <2>4, <2>5, <2>6, <2>7, ImportsGoOn
<1>5. CASE u \notin t.ignoring /\ t.existing[u] # NoEvent
  <2> DEFINE e == t.existing[u]
  <2>1. r = went /\ Imported(t.feed, u) = {e}
    BY <1>0, <1>3, <1>5 DEF Import, Goes, Imports, went
  <2>2. e \in EventIds /\ Here(e) /\ event[e].feed = t.feed /\ event[e].uid = u
    BY <2>1 DEF Imported, EventsOf
  <2>3. event' = [event EXCEPT ![e].slot = t.offer[u]]
    BY <1>5, <2>2 DEF Import
  <2> HIDE DEF e
  <2>4. \A d \in EventIds :
           /\ event'[d].status = event[d].status /\ event'[d].feed = event[d].feed
           /\ event'[d].uid = event[d].uid /\ (d # e => event'[d].slot = event[d].slot)
           /\ (d = e => event'[d].slot = t.offer[u])
    BY <1>0, <2>2, <2>3 DEF Event
  <2>5. \A v \in Uids : Imported(t.feed, v)' = Imported(t.feed, v) /\ Held(t.feed, v)' = Held(t.feed, v)
    BY <1>2, <2>4 DEF Imported, EventsOf, Here, Held
  <2>6. \A v \in Uids \ {u} : \A d \in Imported(t.feed, v) : event'[d].slot = event[d].slot
    BY <2>2, <2>4 DEF Imported, EventsOf
  <2>7. \A c : event'[c.existing].feed = event[c.existing].feed
    BY <1>0, <2>2, <2>3 DEF Event
  <2>8. Settled(r, u)'
    <3>0. Imported(r.feed, u)' = Imported(t.feed, u)'
      BY <1>7 DEF Imported, EventsOf, Here
    <3>1. Imported(r.feed, u)' = {e}
      BY <1>0, <2>1, <2>5, <3>0
    <3>2. r.offer = t.offer
      BY <1>1, <2>1
    <3> QED BY <2>2, <2>4, <3>1, <3>2 DEF Settled
  <2>9. Tended(r) = Tended(t) \cup {u}
    BY <1>0, <1>1, <2>1 DEF Tended, Seen
  <2>10. {u} \in SUBSET Uids /\ r.uid \notin r.uids /\ r.at = "importing"
    BY <1>0, <1>1, <2>1
  <2>11. t.existing[u] # NoEvent => Imported(t.feed, u)' = {t.existing[u]}
    BY <1>0, <2>1, <2>5 DEF e
  <2> QED BY <1>0, <1>1, <1>3, <2>1, <2>5, <2>6, <2>7, <2>8, <2>9, <2>10, <2>11, ImportsWith
<1>6. CASE u \notin t.ignoring /\ t.existing[u] = NoEvent
  <2>1. UNCHANGED event
    BY <1>6 DEF Import, calendarVars, eventVars
  <2>2. \/ r = [went EXCEPT !.at = "inserting", !.uid = u]
        \/ \E c \in findConflict(t.feed, u, t.offer[u]) : r = [went EXCEPT !.at = "holding", !.uid = u, !.clash = c]
    BY <1>6 DEF Import, Goes, went
  <2>3. /\ r.feed = t.feed /\ r.offer = t.offer /\ r.existing = t.existing /\ r.ignoring = t.ignoring
        /\ r.uid = u /\ r.uids = t.uids \ {u}
        /\ r.at = "holding" => r.clash \in findConflict(t.feed, u, t.offer[u])
    <3>1. CASE r = [went EXCEPT !.at = "inserting", !.uid = u]
      BY <1>1, <3>1 DEF RefreshTask
    <3>2. ASSUME NEW c \in findConflict(t.feed, u, t.offer[u]),
                 r = [went EXCEPT !.at = "holding", !.uid = u, !.clash = c]
          PROVE  /\ r.feed = t.feed /\ r.offer = t.offer /\ r.existing = t.existing /\ r.ignoring = t.ignoring
                 /\ r.uid = u /\ r.uids = t.uids \ {u} /\ r.clash = c
      BY <1>1, <3>2 DEF RefreshTask
    <3> QED BY <2>2, <3>1, <3>2
  <2>4. Tended(r) = Tended(t) \cup {}
    BY <1>0, <2>3 DEF Tended, Seen
  <2>5. r.at = "holding" => event'[r.clash].feed # t.feed
    BY <2>1, <2>3 DEF findConflict
  <2>6. \A v \in Uids : Imported(t.feed, v)' = Imported(t.feed, v) /\ Held(t.feed, v)' = Held(t.feed, v)
    BY <1>2, <2>1 DEF Imported, EventsOf, Here, Held
  <2>7. {} \in SUBSET Uids
    OBVIOUS
  <2>8. \A v \in Uids : \A d \in Imported(t.feed, v) : event'[d].slot = event[d].slot
    BY <2>1
  <2>9. \A c : event'[c.existing].feed = event[c.existing].feed
    BY <2>1
  <2>10. r.uid \notin r.uids
    BY <2>3
  <2> QED BY <1>3, <1>6, <2>3, <2>4, <2>5, <2>6, <2>7, <2>8, <2>9, <2>10, ImportsGoOn
<1> QED BY <1>4, <1>5, <1>6

\* A refresh that is over begins with another calendar, if at all.
LEMMA OverStarts ==
  ASSUME NEW t, RefreshOver(t), NEW CONSTANT r \in tasks', r \notin tasks
  PROVE  Progress(r)'
<1>1. PICK f \in t.rest : Goes(t, [Refresh(f, t.rest \ {f}) EXCEPT !.id = t.id])
  BY DEF RefreshOver, Ends
<1> DEFINE u == [Refresh(f, t.rest \ {f}) EXCEPT !.id = t.id]
<1>2. u.at = "fetching"
  BY DEF Refresh
<1>3. r = u
  BY <1>1 DEF Goes
<1> HIDE DEF u
<1> QED BY <1>2, <1>3 DEF Progress

\* An entry is over, and the next one's turn comes.
LEMMA ContinuesWell ==
  ASSUME NEW t \in RefreshTask, RefreshFormed(t), t.at \in {"holding", "inserting"}, Continues(t), Imports(t),
         NEW CONSTANT r \in tasks', r \notin tasks
  PROVE  /\ r.feed = t.feed /\ r.offer = t.offer /\ r.existing = t.existing /\ r.ignoring = t.ignoring
         /\ t.uid \in Uids /\ Tended(r) = Tended(t) \cup {t.uid} /\ r.uid \notin r.uids /\ r.at = "importing"
         /\ t.uid \notin Tended(t) /\ t.existing[t.uid] = NoEvent /\ Imported(t.feed, t.uid) = {}
<1> DEFINE v == [t EXCEPT !.at = "importing", !.uid = NoUid, !.clash = NoEvent]
<1>1. r = v
  BY DEF Continues, Goes
<1>2. /\ v.feed = t.feed /\ v.offer = t.offer /\ v.existing = t.existing /\ v.ignoring = t.ignoring
      /\ v.uid = NoUid /\ v.uids = t.uids /\ v.at = "importing"
  BY DEF RefreshTask
<1> HIDE DEF v
<1>3. NoUid \notin Uids /\ t.uids \subseteq Uids /\ t.uid \in Seen(t) /\ t.uid \in Uids /\ t.uid \notin t.uids
  BY CalendarAssumption DEF CalendarAssumption, RefreshTask, RefreshFormed, Seen, Imports
<1>4. Tended(r) = Tended(t) \cup {t.uid} /\ t.uid \notin Tended(t)
  BY <1>1, <1>2, <1>3 DEF Tended, Seen
<1>5. t.existing[t.uid] = NoEvent
  BY DEF Imports
<1>6. Imported(t.feed, t.uid) = {}
  BY <1>3, <1>4, <1>5 DEF Imports
<1> QED BY <1>1, <1>2, <1>3, <1>4, <1>5, <1>6

LEMMA HoldsOne ==
  ASSUME NEW t \in RefreshTask, RefreshFormed(t), t.at = "holding", Progress(t), recordConflict(t),
         NEW CONSTANT r \in tasks', r \notin tasks
  PROVE  Progress(r)'
<1>1. CASE ~(Live(t.feed) /\ Here(t.clash))
  BY <1>1, OverStarts DEF recordConflict
<1>2. CASE Live(t.feed) /\ Here(t.clash)
  <2> DEFINE u == t.uid
             old == {c \in conflicts : c.feed = t.feed /\ c.uid = u}
             id == IF old = {} THEN t.id ELSE (CHOOSE c \in old : TRUE).id
             new == [id |-> id, feed |-> t.feed, uid |-> u, slot |-> t.offer[u], existing |-> t.clash]
  <2>1. /\ conflicts' = (conflicts \ old) \cup {new} /\ Continues(t)
        /\ UNCHANGED <<feed, event>>
    BY <1>2 DEF recordConflict, eventVars
  <2>2. new.feed = t.feed /\ new.uid = u /\ new.slot = t.offer[u] /\ new.existing = t.clash
    OBVIOUS
  <2> HIDE DEF new, id
  <2>3. Imports(t)
    BY <1>2 DEF Progress
  <2>4. /\ r.feed = t.feed /\ r.offer = t.offer /\ r.existing = t.existing /\ r.ignoring = t.ignoring
        /\ u \in Uids /\ Tended(r) = Tended(t) \cup {u} /\ r.uid \notin r.uids /\ r.at = "importing"
        /\ u \notin Tended(t) /\ t.existing[u] = NoEvent /\ Imported(t.feed, u) = {}
    BY <2>1, <2>3, ContinuesWell
  <2>5. \A v \in Uids : Imported(t.feed, v)' = Imported(t.feed, v)
    BY <2>1 DEF Imported, EventsOf, Here
  <2>6. \A v \in Uids \ {u} : Held(t.feed, v)' = Held(t.feed, v)
    BY <2>1, <2>2 DEF Held
  <2>7. Held(t.feed, u)' = {new}
    BY <2>1, <2>2 DEF Held
  <2>8. Settled(r, u)'
    <3>1. Imported(r.feed, u)' = Imported(t.feed, u)' /\ Held(r.feed, u)' = Held(t.feed, u)'
      BY <2>4 DEF Imported, EventsOf, Held, Here
    <3>2. Imported(r.feed, u)' = {} /\ Held(r.feed, u)' = {new}
      BY <2>4, <2>5, <2>7, <3>1
    <3>3. event'[new.existing].feed # t.feed
      BY <2>1, <2>2, <2>3 DEF Imports
    <3> QED BY <2>2, <2>4, <3>2, <3>3 DEF Settled
  <2>9. \A v \in Uids \ {u} : /\ \A e \in Imported(t.feed, v) : event'[e].slot = event[e].slot
                              /\ \A c \in Held(t.feed, v) : event'[c.existing].feed = event[c.existing].feed
    BY <2>1
  <2> HIDE DEF u, old
  <2>10. Imports(r)'
    BY <2>3, <2>4, <2>5, <2>6, <2>8, <2>9, ImportsWith
  <2> QED BY <2>4, <2>10 DEF Progress
<1> QED BY <1>1, <1>2

LEMMA InsertsOne ==
  ASSUME EventsOK, FeedsOK, ConflictsOK,
         NEW t \in RefreshTask, RefreshFormed(t), t.at = "inserting", Progress(t), InsertImported(t),
         NEW CONSTANT r \in tasks', r \notin tasks
  PROVE  Progress(r)'
<1>1. CASE ~Live(t.feed)
  BY <1>1, OverStarts DEF InsertImported
<1>2. CASE Live(t.feed)
  <2> DEFINE u == t.uid
             ev == MkEvent("published", t.offer[u], NoGroup, feed[t.feed].public, t.feed, u)
  <2>0. Imports(t)
    BY <1>2 DEF Progress
  <2>1. Continues(t) /\ UNCHANGED <<feed, conflicts>>
    BY <1>2 DEF InsertImported, feedVars
  <2>2. /\ r.feed = t.feed /\ r.offer = t.offer /\ r.existing = t.existing /\ r.ignoring = t.ignoring
        /\ u \in Uids /\ Tended(r) = Tended(t) \cup {u} /\ r.uid \notin r.uids /\ r.at = "importing"
        /\ u \notin Tended(t) /\ t.existing[u] = NoEvent /\ Imported(t.feed, u) = {}
    BY <2>0, <2>1, ContinuesWell
  <2>3. AddEvent(ev)
    BY <1>2, <2>2 DEF InsertImported
  <2>4. u \in Uids /\ t.offer[u] \in Slots /\ t.feed \in Feeds
    BY DEF RefreshTask, RefreshFormed, Seen
  <2>5. ev \in Event /\ ev.status # "none" /\ (ev.public => ev.group = NoGroup)
    BY <2>4 DEF MkEvent, Event, Statuses, FeedsOK
  <2>6. ev.feed = t.feed /\ ev.uid = u /\ ev.slot = t.offer[u]
    BY DEF MkEvent
  <2> HIDE DEF ev, u
  <2>7. /\ spent' \in EventIds /\ ~Here(spent')
        /\ \A e \in EventIds : event'[e] = IF e = spent' THEN ev ELSE event[e]
    BY <2>3, <2>5, Added
  <2>8. \A v \in Uids \ {u} : Imported(t.feed, v)' = Imported(t.feed, v)
    BY <2>6, <2>7 DEF Imported, EventsOf, Here
  <2>9. \A v \in Uids : Held(t.feed, v)' = Held(t.feed, v)
    BY <2>1 DEF Held
  <2>10. \A v \in Uids : \A e \in Imported(t.feed, v) : event'[e].slot = event[e].slot
    BY <2>7 DEF Imported, EventsOf
  <2>11. \A v \in Uids : \A c \in Held(t.feed, v) : event'[c.existing].feed = event[c.existing].feed
    <3>1. \A c \in conflicts : c.existing \in EventIds /\ c.existing # spent'
      BY <2>7 DEF ConflictsOK, Here
    <3> QED BY <2>7, <3>1 DEF Held
  <2>12. Settled(r, u)'
    <3>1. Imported(r.feed, u)' = Imported(t.feed, u)'
      BY <2>2 DEF Imported, EventsOf, Here
    <3>2. Imported(t.feed, u)' = {spent'}
      BY <2>2, <2>5, <2>6, <2>7 DEF Imported, EventsOf, Here
    <3> QED BY <2>2, <2>6, <2>7, <3>1, <3>2 DEF Settled
  <2>13. Imports(r)'
    BY <2>0, <2>2, <2>8, <2>9, <2>10, <2>11, <2>12, ImportsWith
  <2> QED BY <2>2, <2>13 DEF Progress
<1> QED BY <1>1, <1>2

\* The entries are over: what is called off is to be removed.
LEMMA ClearsConflicts ==
  ASSUME NEW t \in RefreshTask, RefreshFormed(t), t.at = "importing", Progress(t),
         NEW ok \in BOOLEAN, ClearConflicts(t, ok), NEW CONSTANT r \in tasks', r \notin tasks
  PROVE  Progress(r)'
<1> DEFINE gone == {u \in Uids : t.existing[u] # NoEvent} \ Seen(t)
           v == [t EXCEPT !.at = "removing", !.cleared = ok, !.uids = gone]
<1>1. r = v /\ UNCHANGED <<event, feed>> /\ t.uids = {}
      /\ conflicts' = IF ok THEN {c \in conflicts : c.feed = t.feed => c.uid \in Seen(t)} ELSE conflicts
  BY DEF ClearConflicts, Goes, eventVars
<1>2. gone \in SUBSET Uids
  OBVIOUS
<1>3. /\ v.at = "removing" /\ v.cleared = ok /\ v.uids = gone /\ v.feed = t.feed /\ v.offer = t.offer
      /\ v.existing = t.existing /\ v.ignoring = t.ignoring
  <2> HIDE DEF gone
  <2> QED BY <1>2 DEF RefreshTask
<1> HIDE DEF v
<1> SUFFICES ASSUME Live(t.feed)', ok PROVE Removes(r)'
  BY <1>1, <1>3 DEF Progress, Live
<1>4. Imports(t)
  BY <1>1 DEF Progress, Live
<1>5. Tended(t) = Seen(t) /\ Seen(r) = Seen(t) /\ Seen(t) \subseteq Uids
  <2>1. t.uid = NoUid /\ NoUid \notin Uids
    BY CalendarAssumption DEF RefreshFormed, CalendarAssumption
  <2> QED BY <1>1, <1>3, <2>1 DEF Tended, Seen
<1>6. \A u \in Uids : Imported(r.feed, u)' = Imported(t.feed, u) /\ Imported(t.feed, u)' = Imported(t.feed, u)
  BY <1>1, <1>3 DEF Imported, EventsOf, Here
<1>7. \A u \in Uids \ Seen(t) : Held(r.feed, u)' = {}
  BY <1>1, <1>3 DEF Held
<1>8. \A u \in Seen(t) : Held(r.feed, u)' = Held(t.feed, u) /\ Held(t.feed, u)' = Held(t.feed, u)
  BY <1>1, <1>3 DEF Held
<1>9. ASSUME NEW u \in Seen(r), u \notin r.ignoring
      PROVE  Settled(r, u)'
  <2>1. u \in Seen(t) /\ u \in Uids /\ Settled(t, u)
    BY <1>1, <1>3, <1>4, <1>5, <1>9 DEF Imports
  <2>2. \A e \in Imported(t.feed, u) : event'[e].slot = event[e].slot
    BY <1>1
  <2>3. \A c \in Held(t.feed, u) : event'[c.existing].feed = event[c.existing].feed
    BY <1>1
  <2> QED BY <1>1, <1>3, <1>6, <1>8, <2>1, <2>2, <2>3, SettledStays
<1>10. \A u \in Uids : u \in gone => Imported(r.feed, u)' = {r.existing[u]}
  BY <1>1, <1>3, <1>4, <1>6 DEF Imports
<1>11. \A u \in Uids \ Seen(t) : u \notin gone => Imported(r.feed, u)' = {}
  BY <1>4, <1>5, <1>6 DEF Imports
<1>12. Seen(r)' = Seen(r)
  BY DEF Seen
<1> HIDE DEF gone
<1>13. r.uids = gone /\ gone \cap Seen(r) = {}
  BY <1>1, <1>3, <1>5 DEF gone
<1> QED BY <1>2, <1>5, <1>7, <1>9, <1>10, <1>11, <1>12, <1>13 DEF Removes

\* One entry that is no longer offered goes.
LEMMA RemovesOne ==
  ASSUME EventsOK, ConflictsOK, NEW t \in RefreshTask, t.at = "removing", Progress(t),
         NEW u \in t.uids, RemoveGone(t, u), NEW CONSTANT r \in tasks', r \notin tasks
  PROVE  Progress(r)'
<1> DEFINE v == [t EXCEPT !.uids = @ \ {u}]
           e == t.existing[u]
           gone == EventsOf(t.feed) \cap {e}
<1>1. r = v /\ UNCHANGED feed /\ DropEvents(gone) /\ conflicts' = {c \in conflicts : c.existing \notin gone}
  BY DEF RemoveGone, Goes
<1>2. /\ v.at = "removing" /\ v.cleared = t.cleared /\ v.uids = t.uids \ {u} /\ v.feed = t.feed
      /\ v.offer = t.offer /\ v.existing = t.existing /\ v.ignoring = t.ignoring /\ u \in Uids
  BY DEF RefreshTask
<1> HIDE DEF v
<1> SUFFICES ASSUME Live(t.feed)', t.cleared PROVE Removes(r)'
  BY <1>1, <1>2 DEF Progress, Live
<1>3. Removes(t)
  BY <1>1 DEF Progress, Live
<1>4. Imported(t.feed, u) = {e} /\ gone = {e} /\ event[e].feed = t.feed /\ event[e].uid = u
  <2>1. Imported(t.feed, u) = {e}
    BY <1>3 DEF Removes
  <2> HIDE DEF e
  <2>2. e \in EventsOf(t.feed) /\ event[e].feed = t.feed /\ event[e].uid = u
    BY <2>1 DEF Imported, EventsOf
  <2> QED BY <2>1, <2>2
<1> HIDE DEF gone, e
<1>5. \A d \in EventIds : event'[d] = IF d = e THEN NoSuchEvent ELSE event[d]
  BY <1>1, <1>4 DEF DropEvents
<1>6. NoSuchEvent.status = "none"
  BY DEF NoSuchEvent, MkEvent
<1>7. \A d \in EventIds : Here(d)' <=> Here(d) /\ d # e
  BY <1>5, <1>6 DEF Here
<1>8. \A w \in Uids \ {u} : Imported(t.feed, w)' = Imported(t.feed, w)
  BY <1>4, <1>5, <1>7 DEF Imported, EventsOf
<1>9. Imported(t.feed, u)' = {}
  BY <1>4, <1>5, <1>7 DEF Imported, EventsOf
<1>10. \A w : Held(t.feed, w)' \subseteq Held(t.feed, w)
  BY <1>1 DEF Held
<1>11. ASSUME NEW w \in Seen(r), w \notin r.ignoring
       PROVE  Settled(r, w)'
  <2>1. w \in Uids /\ w # u /\ Settled(t, w)
    BY <1>1, <1>2, <1>3, <1>11 DEF Removes, Seen
  <2>2. \A d \in Imported(t.feed, w) : d \in EventIds /\ d # e
    BY <1>4, <2>1 DEF Imported, EventsOf
  <2>3. \A d \in Imported(t.feed, w) : event'[d].slot = event[d].slot
    BY <1>5, <2>2
  <2>4. ASSUME Imported(t.feed, w) = {}
        PROVE  /\ Held(t.feed, w)' = Held(t.feed, w)
               /\ \A c \in Held(t.feed, w) : event[c.existing].feed # t.feed => event'[c.existing].feed # t.feed
    <3>1. \A c \in Held(t.feed, w) : event[c.existing].feed # t.feed
      BY <2>1, <2>4 DEF Settled
    <3>2. \A c \in Held(t.feed, w) : c \in conflicts /\ c.existing # e /\ c.existing \in EventIds
      BY <1>4, <3>1 DEF Held, ConflictsOK, Here
    <3>3. Held(t.feed, w)' = Held(t.feed, w)
      BY <1>1, <1>4, <3>2 DEF Held
    <3>4. \A c \in Held(t.feed, w) : event'[c.existing] = event[c.existing]
      BY <1>5, <3>2
    <3> QED BY <3>3, <3>4
  <2> QED BY <1>1, <1>2, <1>8, <2>1, <2>3, <2>4, SettledStays
<1>12. Seen(r)' = Seen(r) /\ Seen(r) = Seen(t)
  BY <1>1, <1>2 DEF Seen
<1>13. \A w : Imported(r.feed, w)' = Imported(t.feed, w)' /\ Held(r.feed, w)' = Held(t.feed, w)'
  BY <1>1, <1>2 DEF Imported, EventsOf, Here, Held
<1>14. \A w \in r.uids : Imported(r.feed, w)' = {r.existing[w]}
  <2>1. \A w \in r.uids : w \in t.uids /\ w # u /\ w \in Uids
    BY <1>1, <1>2 DEF RefreshTask
  <2> QED BY <1>1, <1>2, <1>3, <1>8, <1>13, <2>1 DEF Removes
<1>15. \A w \in Uids \ Seen(r) : Held(r.feed, w)' = {} /\ (w \notin r.uids => Imported(r.feed, w)' = {})
  BY <1>1, <1>2, <1>3, <1>8, <1>9, <1>10, <1>12, <1>13 DEF Removes
<1>16. r.uids \cap Seen(r) = {}
  BY <1>1, <1>2, <1>3, <1>12 DEF Removes
<1> QED BY <1>11, <1>12, <1>14, <1>15, <1>16 DEF Removes

\* Whatever comes of its next statement.
LEMMA RefreshProgress ==
  ASSUME ImportedOnce, EventsOK, FeedsOK, ConflictsOK,
         NEW t \in RefreshTask, RefreshFormed(t), Progress(t), RefreshStep(t),
         NEW CONSTANT r \in tasks', r \notin tasks
  PROVE  Progress(r)'
<1>1. CASE t.at = "fetching" /\ fetchFeed(t)
  <2>1. CASE RefreshOver(t)
    BY <2>1, OverStarts
  <2>2. CASE Goes(t, [t EXCEPT !.at = "existing", !.offer = offered[t.feed]])
    <3> DEFINE v == [t EXCEPT !.at = "existing", !.offer = offered[t.feed]]
    <3>1. r = v
      BY <2>2 DEF Goes
    <3>2. v.at = "existing"
      BY DEF RefreshTask
    <3> HIDE DEF v
    <3> QED BY <3>1, <3>2 DEF Progress
  <2> QED BY <1>1, <2>1, <2>2 DEF fetchFeed
<1>2. CASE RefreshDone(t) \/ RefreshFails(t)
  BY <1>2, OverStarts DEF RefreshDone, RefreshFails
<1> QED
  BY <1>1, <1>2, ReadsMatched, StartsImports, ImportsOne, ClearsConflicts, HoldsOne, InsertsOne, RemovesOne
  DEF RefreshStep

\* What is read stays so until somebody else writes.
LEMMA UndisturbedStays ==
  ASSUME Progresses, Watch, NEW CONSTANT r, r \in tasks, r \in tasks', r.do = "refresh", r.id \notin disturbed'
  PROVE  Progress(r)'
<1>1. CASE r.at = "fetching"
  BY <1>1 DEF Progress
<1>2. CASE r.at # "fetching"
  <2>1. r.id \notin disturbed /\ UNCHANGED <<event, feed, conflicts, ignored>>
    BY <1>2 DEF Watch
  <2> QED BY <2>1, ProgressStays DEF Progresses
<1> QED BY <1>1, <1>2

\* What a step turns into a refresh is a refresh that has done its next statement.
LEMMA NextProgress ==
  ASSUME IInv, ImportedOnce, Progresses, Next,
         NEW CONSTANT r \in tasks', r \notin tasks, r.do = "refresh", r.id \notin disturbed'
  PROVE  Progress(r)'
<1>0. TasksOK /\ Numbered /\ made \in Nat /\ CalendarTypeOK /\ LibraryTypeOK /\ ProspectTypeOK /\ LabelsBounded
      /\ EventsOK /\ FeedsOK /\ ConflictsOK
  BY CalendarParts DEF IInv, CalendarInv, LibraryInv, ProspectInv, CalendarTypeOK, CalendarOK
<1>1. LibraryDoes \cap CalendarDoes = {} /\ ProspectDoes \cap CalendarDoes = {} /\ r.do \in CalendarDoes
  BY DEF CalendarDoes, LibraryDoes, ProspectDoes
<1>2. Doing(CalendarDoes)' # Doing(CalendarDoes)
  BY <1>1 DEF Doing
<1>3. CASE CalendarRequest
  BY <1>3, NewTasks DEF Progress
<1>4. ASSUME NEW t \in tasks, CalendarStep(t)
      PROVE  Progress(r)'
  <2>1. t \in Task /\ Formed(t) /\ GoesOn(t)
    BY <1>0, <1>4, CalendarGoesOn DEF TasksOK
  <2>2. r.do = t.do /\ r.id = t.id
    BY <2>1 DEF GoesOn, Ends, Goes
  <2>3. t \in RefreshTask /\ RefreshFormed(t) /\ RefreshStep(t)
    BY <1>4, <2>1, <2>2, CalendarKinds DEF CalendarStep, Formed
  <2>4. CASE r.at = "fetching"
    BY <2>4 DEF Progress
  <2>5. CASE r.at # "fetching"
    <3>1. t.id \notin disturbed
      BY <2>2, <2>5 DEF Next, Watch
    <3>2. Progress(t)
      BY <2>2, <3>1 DEF Progresses
    <3> QED BY <1>0, <2>3, <3>2, RefreshProgress
  <2> QED BY <2>4, <2>5
<1>5. ASSUME NEW t \in tasks, Abandon(t)
      PROVE  FALSE
  BY <1>5 DEF Abandon, Ends
<1>6. ASSUME LibraryRequest
      PROVE  FALSE
  BY <1>0, <1>1, <1>2, <1>6, LibraryBegins, BeginsLeaves
<1>7. ASSUME NEW t \in tasks, LibraryStep(t)
      PROVE  FALSE
  <2>1. t \in Task /\ Formed(t)
    BY <1>0 DEF TasksOK
  <2>2. GoesOn(t) /\ t.do \in LibraryDoes
    BY <1>0, <1>7, <2>1, LibraryGoesOn
  <2> QED BY <1>1, <1>2, <2>2, GoesOnLeaves
<1>8. ASSUME ProspectRequest
      PROVE  FALSE
  BY <1>0, <1>1, <1>2, <1>8, ProspectBegins, BeginsLeaves
<1>9. ASSUME NEW t \in tasks, ProspectStep(t)
      PROVE  FALSE
  <2>1. t \in Task /\ Formed(t)
    BY <1>0 DEF TasksOK
  <2>2. GoesOn(t) /\ t.do \in ProspectDoes
    BY <1>0, <1>9, <2>1, ProspectGoesOn
  <2> QED BY <1>1, <1>2, <2>2, GoesOnLeaves
<1> QED BY <1>3, <1>4, <1>5, <1>6, <1>7, <1>8, <1>9 DEF Next

LEMMA NextOnce ==
  ASSUME IInv, ImportedOnce, Next
  PROVE  ImportedOnce'
<1>1. EventsOK
  BY CalendarParts DEF IInv, CalendarInv, CalendarOK
<1>2. CASE UNCHANGED calendarVars
  BY <1>2, OnceSame DEF calendarVars, eventVars
<1>3. CASE CalendarRequest
  BY <1>1, <1>3, OnceRequests
<1>4. ASSUME NEW t \in tasks, CalendarStep(t) \/ Abandon(t)
      PROVE  ImportedOnce'
  BY <1>1, <1>4, OnceSteps
<1> QED BY <1>2, <1>3, <1>4, LibraryApart, ProspectApart DEF Next

MirrorInv == IInv /\ ImportedOnce /\ Progresses

LEMMA InitMirrors == Init => MirrorInv
<1> SUFFICES ASSUME Init PROVE MirrorInv
  OBVIOUS
<1>1. Progresses
  BY DEF Init, Progresses
<1>2. ImportedOnce
  <2>1. scene \in DOMAIN Scenes /\ event = Scenes[scene].event
    BY DEF Init
  <2> DEFINE s == Scenes[scene]
  <2>2. Begun(s)
    BY <2>1, SiteAssumption DEF SiteAssumption
  <2>3. event = s.event
    BY <2>1
  <2> HIDE DEF s
  <2> QED BY <2>2, <2>3 DEF Begun, ImportedOnce, Here
<1> QED BY <1>1, <1>2, InitInv DEF MirrorInv

LEMMA NextMirrors == MirrorInv /\ [Next]_vars => MirrorInv'
<1> SUFFICES ASSUME MirrorInv, [Next]_vars PROVE MirrorInv'
  OBVIOUS
<1>1. IInv'
  BY NextInv DEF MirrorInv
<1>2. CASE Next
  <2>1. ImportedOnce'
    BY <1>2, NextOnce DEF MirrorInv
  <2>2. ASSUME NEW CONSTANT r \in tasks', r.do = "refresh", r.id \notin disturbed'
        PROVE  Progress(r)'
    <3>1. CASE r \in tasks
      BY <1>2, <2>2, <3>1, UndisturbedStays DEF MirrorInv, Next
    <3>2. CASE r \notin tasks
      BY <1>2, <2>2, <3>2, NextProgress DEF MirrorInv
    <3> QED BY <3>1, <3>2
  <2>3. Progresses'
    BY <2>2 DEF Progresses
  <2> QED BY <1>1, <2>1, <2>3 DEF MirrorInv
<1>3. CASE UNCHANGED vars
  <2>1. UNCHANGED <<event, feed, conflicts, tasks, disturbed>>
    BY <1>3 DEF vars, calendarVars, eventVars, feedVars
  <2>2. ImportedOnce'
    BY <2>1, OnceSame DEF MirrorInv
  <2>3. ASSUME NEW CONSTANT r \in tasks', r.do = "refresh", r.id \notin disturbed'
        PROVE  Progress(r)'
    BY <2>1, <2>3, ProgressStays DEF MirrorInv, Progresses
  <2>4. Progresses'
    BY <2>3 DEF Progresses
  <2> QED BY <1>1, <2>2, <2>4 DEF MirrorInv
<1> QED BY <1>2, <1>3

LEMMA DoneMirrors == Progresses => Mirror
<1> SUFFICES ASSUME Progresses,
                    NEW t \in tasks, t.do = "refresh", t.at = "removing", t.uids = {}, t.cleared,
                    t.id \notin disturbed, Live(t.feed)
             PROVE  /\ \A u \in Uids \ Seen(t) : Imported(t.feed, u) = {} /\ Held(t.feed, u) = {}
                    /\ \A u \in Seen(t) \ t.ignoring :
                          /\ Imported(t.feed, u) # {} \/ Held(t.feed, u) # {}
                          /\ \A e \in Imported(t.feed, u) : event[e].slot = t.offer[u]
                          /\ Imported(t.feed, u) = {} => \A c \in Held(t.feed, u) : c.slot = t.offer[u]
  BY DEF Mirror
<1>1. Removes(t)
  BY DEF Progresses, Progress
<1> QED BY <1>1 DEF Removes, Settled

\* A refresh that nobody wrote next to leaves the unit with what its calendar
\* offered, no more and no less, however many others run, fail or die.
THEOREM RefreshesMirror == Spec => []Mirror
<1>1. Spec => []MirrorInv
  BY InitMirrors, NextMirrors, PTL DEF Spec
<1>2. MirrorInv => Mirror
  BY DoneMirrors DEF MirrorInv
<1> QED BY <1>1, <1>2, PTL
=============================================================================
