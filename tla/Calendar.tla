------------------------------ MODULE Calendar ------------------------------
(***************************************************************************)
(* One unit's calendar (internal/calendar, the event branch of              *)
(* internal/approval, internal/reminders and the handlers of internal/web   *)
(* that call them): events and their approval, RSVPs, the calendars it       *)
(* imports and their conflicts, the personal feeds, and reminder mail.      *)
(*                                                                         *)
(* A request or a command-line run under way is a task, a member of `tasks`, *)
(* that works in the statements its code sends to the database; a statement  *)
(* that fails, or the process dying, abandons it where it is.  Dates are      *)
(* slots, and two events clash when they are in the same one.  Site.tla      *)
(* composes this module with Library.tla, the files and pages.              *)
(***************************************************************************)
EXTENDS Naturals, FiniteSets

CONSTANTS
    Logins,      \* the logins, each with its acting member
    NoLogin,     \* a visitor who is not signed in
    Editors,     \* those who may edit_content in the unit,
    Submitters,  \*   submit_for_approval,
    Approvers,   \*   and approve_content
    Groups,      \* the unit's patrols or dens
    NoGroup,
    GroupsOf,    \* each login's own
    Household,   \* the logins of each member's family
    Feeds,       \* calendars the unit may import
    Uids,        \* the entries a calendar may hold
    NoFeed, NoUid, \* of an event written here
    Scenes,      \* the sites that are started from, and what comes to each
    MaxEvents,   \* bound on the events ever made
    MaxRepeats,  \* maxRepeatOccurrences
    Horizon      \* the last slot

ASSUME CalendarAssumption ==
    /\ NoLogin \notin Logins /\ NoGroup \notin Groups /\ NoFeed \notin Feeds /\ NoUid \notin Uids
    /\ Editors \cup Submitters \cup Approvers \subseteq Logins
    /\ GroupsOf \in [Logins -> SUBSET Groups]
    /\ Household \in [Logins -> SUBSET Logins]
    /\ {MaxEvents, MaxRepeats, Horizon} \subseteq Nat \ {0}

VARIABLES
    event,     \* rows of events
    spent,     \* how many ids of events have been given out; none is used again
    approval,  \* approval_requests, by the event each is about
    rsvp,      \* rsvps
    feed,      \* calendar_feeds
    offered,   \* what each calendar's own site offers
    conflicts, \* calendar_feed_conflicts
    ignored,   \* calendar_feed_ignores
    tokens,    \* logins with a row of calendar_feed_tokens
    reminded,  \* event_reminders_sent
    member,    \* the logins with a role in the unit
    now,       \* today's slot
    vetted,    \* history: events written by an editor, approved or imported
    mailed,    \* history: the reminders that have gone out,
    again,     \*   those that have gone out twice,
    doubted,   \*   and those whose record may be missing or come too late
    kept,      \* history: entries ruled out while an event, a task or a new question held them
    scene,     \* the site this behaviour started from
    tasks,     \* what is under way
    made       \* how many tasks there have been

eventVars == <<event, spent, approval, rsvp, vetted>>
feedVars == <<feed, offered, conflicts, ignored, kept>>
remindVars == <<reminded, mailed, again, doubted>>
setVars == <<tokens, member, now, scene>>
calendarVars == <<eventVars, feedVars, remindVars, setVars>>

Slots == 0..Horizon
\* An entry that the calendar's site does not offer, or offers as called off.
Absent == Horizon + 1

EventIds == 1..MaxEvents
NoEvent == 0

Statuses == {"none", "pending_approval", "published", "rejected"}
Responses == {"none", "yes", "maybe", "no"}

Event == [status : Statuses, slot : Slots, group : Groups \cup {NoGroup}, public : BOOLEAN,
          feed : Feeds \cup {NoFeed}, uid : Uids \cup {NoUid}]
Conflict == [id : Nat, feed : Feeds, uid : Uids, slot : Slots, existing : EventIds]

CalendarTypeOK ==
    /\ event \in [EventIds -> Event] /\ spent \in 0..MaxEvents
    /\ \A e \in EventIds : e > spent => event[e].status = "none"
    /\ approval \in [EventIds -> {"none", "pending", "approved", "rejected"}]
    /\ rsvp \in [EventIds -> [Logins -> Responses]]
    /\ feed \in [Feeds -> [state : {"none", "live", "gone"}, enabled : BOOLEAN, public : BOOLEAN]]
    /\ offered \in [Feeds -> [Uids -> 0..Absent]]
    /\ conflicts \subseteq Conflict
    /\ \A c, d \in conflicts : c.feed = d.feed /\ c.uid = d.uid => c = d
    /\ \A c \in conflicts : event[c.existing].status # "none" /\ feed[c.feed].state = "live"
    /\ ignored \cup kept \subseteq Feeds \X Uids
    /\ tokens \cup member \subseteq Logins
    /\ reminded \cup doubted \subseteq EventIds \X Logins
    /\ mailed \cup again \subseteq EventIds \X Logins \X Logins
    /\ vetted \subseteq EventIds /\ now \in Slots /\ made \in Nat /\ scene \in DOMAIN Scenes

-----------------------------------------------------------------------------
(* Helpers.                                                                *)

MkEvent(status, s, g, public, f, u) ==
    [status |-> status, slot |-> s, group |-> g, public |-> public, feed |-> f, uid |-> u]
NoSuchEvent == MkEvent("none", 0, NoGroup, FALSE, NoFeed, NoUid)
Here(e) == e \in EventIds /\ event[e].status # "none"

CanEdit(x) == x \in Editors \cap member
CanSubmit(x) == x \in Submitters \cap member
CanApprove(x) == x \in Approvers \cap member
\* The gate of the pages that manage calendars, news, albums and enquiries.
requireContentEditor(x) == CanEdit(x)

EventsOf(f) == {e \in EventIds : Here(e) /\ event[e].feed = f}
Imported(f, u) == {e \in EventsOf(f) : event[e].uid = u}
Live(f) == feed[f].state = "live"

\* Whether one more request may come to this scene, and whether such ones do.
More == made < Scenes[scene].most
Asked(what) == what \in Scenes[scene].asks
\* A new task, and a request that is over with its one statement.
Starts(t) == made' = made + 1 /\ tasks' = tasks \cup {t}
AtOnce == made' = made + 1 /\ UNCHANGED tasks
Goes(t, u) == tasks' = (tasks \ {t}) \cup {u} /\ UNCHANGED made
Ends(t) == tasks' = tasks \ {t} /\ UNCHANGED made

\* What the deletion of these events takes with it (see LinksFollow in Site).
DropEvents(es) ==
    /\ event' = [e \in EventIds |-> IF e \in es THEN NoSuchEvent ELSE event[e]]
    /\ rsvp' = [e \in EventIds |-> IF e \in es THEN [x \in Logins |-> "none"] ELSE rsvp[e]]
    /\ reminded' = {r \in reminded : r[1] \notin es}
    /\ UNCHANGED <<spent, approval, vetted, mailed, again, doubted>>

\* A new row of events, and whether it is one that may be shown.
AddEvent(ev) ==
    /\ spent < MaxEvents
    /\ spent' = spent + 1
    /\ event' = [event EXCEPT ![spent + 1] = ev]
    /\ vetted' = IF ev.status = "published" THEN vetted \cup {spent + 1} ELSE vetted
    /\ UNCHANGED <<approval, rsvp>>

-----------------------------------------------------------------------------
(* Events and their approval.                                              *)

\* The form's checks; the occurrences are then inserted one after another.
CalendarCreate(x, s, g, public, n) ==
    /\ CanEdit(x) \/ CanSubmit(x)
    /\ g # NoGroup => CanEdit(x) \/ g \in GroupsOf[x]
    /\ s + n - 1 <= Horizon
    /\ Starts([id |-> made, do |-> "create", at |-> "inserting", e |-> NoEvent, slot |-> s,
                         group |-> g, public |-> public /\ g = NoGroup, left |-> n,
                         direct |-> CanEdit(x)])
    /\ UNCHANGED calendarVars

NextOccurrence(t) ==
    IF t.left = 1 THEN Ends(t)
    ELSE Goes(t, [t EXCEPT !.at = "inserting", !.left = @ - 1, !.slot = @ + 1])

InsertOccurrence(t) ==
    /\ AddEvent(MkEvent(IF t.direct THEN "published" ELSE "pending_approval",
                        t.slot, t.group, t.public, NoFeed, NoUid))
    /\ IF t.direct THEN NextOccurrence(t)
       ELSE Goes(t, [t EXCEPT !.at = "submitting", !.e = spent + 1])
    /\ UNCHANGED <<feedVars, remindVars, setVars>>

\* approval_requests refers to an event by its id alone: the row is made
\* whether or not the event still exists.
Submit(t) ==
    /\ approval' = [approval EXCEPT ![t.e] = "pending"]
    /\ NextOccurrence(t)
    /\ UNCHANGED <<event, spent, rsvp, vetted, feedVars, remindVars, setVars>>

\* What the calendar's page asks approvers to decide.
PendingForUnit == {e \in EventIds : approval[e] = "pending"}

Decide(x, e, approve) ==
    /\ CanApprove(x)
    /\ e \in PendingForUnit
    /\ approval' = [approval EXCEPT ![e] = IF approve THEN "approved" ELSE "rejected"]
    /\ IF Here(e)
       THEN /\ event' = [event EXCEPT ![e].status = IF approve THEN "published" ELSE "rejected"]
            /\ vetted' = IF approve THEN vetted \cup {e} ELSE vetted
       ELSE UNCHANGED <<event, vetted>>
    /\ AtOnce
    /\ UNCHANGED <<spent, rsvp, feedVars, remindVars, setVars>>

\* An edit leaves the status as it is.
Update(e, s, g, public) ==
    /\ Here(e)
    /\ event' = [event EXCEPT ![e].slot = s, ![e].group = g, ![e].public = public]
    /\ AtOnce
    /\ UNCHANGED <<spent, approval, rsvp, vetted, feedVars, remindVars, setVars>>

\* A bug: the tick for "public" taken as it comes.
CalendarUpdateAsTicked(x, e, s, g, public) == CanEdit(x) /\ Update(e, s, g, public)

\* A group's event is never public.
CalendarUpdate(x, e, s, g, public) == CanEdit(x) /\ Update(e, s, g, public /\ g = NoGroup)

\* The request for approval goes first, then the event.
CalendarDelete(x, e) ==
    /\ CanEdit(x)
    /\ Here(e)
    /\ Starts([id |-> made, do |-> "delete", at |-> "withdrawing", e |-> e])
    /\ UNCHANGED calendarVars

WithdrawRequest(t) ==
    /\ approval' = [approval EXCEPT ![t.e] = "none"]
    /\ Goes(t, [t EXCEPT !.at = "deleting"])
    /\ UNCHANGED <<event, spent, rsvp, vetted, feedVars, remindVars, setVars>>

\* A bug: the conflicts the event was in left behind.
DeleteEventOnly(t) ==
    /\ DropEvents({t.e})
    /\ Ends(t)
    /\ UNCHANGED <<feedVars, setVars>>

DeleteEvent(t) ==
    /\ DropEvents({t.e})
    /\ conflicts' = {c \in conflicts : c.existing # t.e}
    /\ Ends(t)
    /\ UNCHANGED <<feed, offered, ignored, kept, setVars>>

SetRSVP(e, m, response) ==
    /\ Here(e)
    /\ rsvp' = [rsvp EXCEPT ![e][m] = response]
    /\ AtOnce
    /\ UNCHANGED <<event, spent, approval, vetted, feedVars, remindVars, setVars>>
CalendarRSVP(x, e, response) == x \in member /\ SetRSVP(e, x, response)

-----------------------------------------------------------------------------
(* The calendars the unit imports.                                         *)

Refresh(f, rest) ==
    [id |-> made, do |-> "refresh", at |-> "fetching", feed |-> f, rest |-> rest,
     offer |-> [u \in Uids |-> Absent], existing |-> [u \in Uids |-> NoEvent],
     ignoring |-> {}, uids |-> {}, uid |-> NoUid, clash |-> NoEvent, cleared |-> TRUE]

\* The entries a refresh has seen: those offered and not called off.
Seen(t) == {u \in Uids : t.offer[u] \in Slots}

\* A refresh ends, done or with an error; a scheduled run goes to its next calendar.
RefreshOver(t) ==
    IF t.rest = {} THEN Ends(t)
    ELSE \E f \in t.rest : Goes(t, [Refresh(f, t.rest \ {f}) EXCEPT !.id = t.id])

AddFeed(f, public) ==
    /\ feed[f].state = "none"
    /\ feed' = [feed EXCEPT ![f] = [state |-> "live", enabled |-> TRUE, public |-> public]]
    /\ UNCHANGED <<offered, conflicts, ignored, kept, eventVars, remindVars, setVars>>

\* A calendar is added, and refreshed at once.
AdminCalendarFeedAdd(x, f, public) ==
    requireContentEditor(x) /\ AddFeed(f, public) /\ Starts(Refresh(f, {}))

AdminCalendarFeedRefresh(x, f) ==
    /\ requireContentEditor(x)
    /\ Live(f)
    /\ Starts(Refresh(f, {}))
    /\ UNCHANGED calendarVars

\* The scheduled run: every enabled calendar, one after another.
RefreshAllFeeds ==
    \E f \in Feeds : LET enabled == {g \in Feeds : Live(g) /\ feed[g].enabled} IN
        /\ f \in enabled
        /\ Starts(Refresh(f, enabled \ {f}))
        /\ UNCHANGED calendarVars

\* UPDATE and DELETE by id: of a calendar that is gone they find no row, which changes
\* nothing and is no step of this model.
SetFeedEnabled(f, enabled) ==
    /\ Live(f)
    /\ feed' = [feed EXCEPT ![f].enabled = enabled]
    /\ AtOnce
    /\ UNCHANGED <<offered, conflicts, ignored, kept, eventVars, remindVars, setVars>>
AdminCalendarFeedToggle(x, f, enabled) == requireContentEditor(x) /\ SetFeedEnabled(f, enabled)

\* With the events it brought, the conflicts of either and what was ruled out.
DeleteFeed(f) ==
    /\ Live(f)
    /\ feed' = [feed EXCEPT ![f].state = "gone"]
    /\ DropEvents(EventsOf(f))
    /\ conflicts' = {c \in conflicts : c.feed # f /\ event[c.existing].feed # f}
    /\ ignored' = {i \in ignored : i[1] # f}
    /\ AtOnce
    /\ UNCHANGED <<offered, kept, setVars>>
AdminCalendarFeedDelete(x, f) == requireContentEditor(x) /\ DeleteFeed(f)

\* The calendar's own site changes what it offers.
Offers(f, u, s) ==
    /\ offered' = [offered EXCEPT ![f][u] = s]
    /\ AtOnce
    /\ UNCHANGED <<feed, conflicts, ignored, kept, eventVars, remindVars, setVars>>

fetchFeed(t) ==
    /\ \/ Goes(t, [t EXCEPT !.at = "existing", !.offer = offered[t.feed]])
       \/ RefreshOver(t)
    /\ UNCHANGED calendarVars

\* What the unit holds of this calendar, by the entries it came from.
ReadExisting(t) ==
    /\ Goes(t, [t EXCEPT !.at = "ignored",
                !.existing = [u \in Uids |-> IF Imported(t.feed, u) = {} THEN NoEvent
                                             ELSE CHOOSE e \in Imported(t.feed, u) : TRUE]])
    /\ UNCHANGED calendarVars

\* A bug: the rulings not looked at.
ignoresNothing(t) ==
    /\ Goes(t, [t EXCEPT !.at = "importing", !.uids = Seen(t)])
    /\ UNCHANGED calendarVars

\* What leaders have ruled out, read once.
ignoredUIDs(t) ==
    /\ Goes(t, [t EXCEPT !.at = "importing", !.uids = Seen(t),
                !.ignoring = {u \in Uids : <<t.feed, u>> \in ignored}])
    /\ UNCHANGED calendarVars

\* Events of others at the same time, that no other entry of this calendar waits on.
findConflict(f, u, s) ==
    {e \in EventIds : /\ Here(e) /\ event[e].feed # f /\ event[e].slot = s
                      /\ ~ \E c \in conflicts : c.feed = f /\ c.uid # u /\ c.existing = e}

\* One entry: ruled out, or held already and brought up to date, or looked up.
Import(t, u) ==
    LET next == [t EXCEPT !.uids = @ \ {u}]
        e == t.existing[u]
        clashes == findConflict(t.feed, u, t.offer[u]) IN
    IF u \in t.ignoring THEN Goes(t, next) /\ UNCHANGED calendarVars
    ELSE IF e # NoEvent
    THEN /\ event' = IF Here(e) THEN [event EXCEPT ![e].slot = t.offer[u]] ELSE event
         /\ Goes(t, next)
         /\ UNCHANGED <<spent, approval, rsvp, vetted, feedVars, remindVars, setVars>>
    ELSE /\ \/ /\ clashes = {}
               /\ Goes(t, [next EXCEPT !.at = "inserting", !.uid = u])
            \/ \E c \in clashes : Goes(t, [next EXCEPT !.at = "holding", !.uid = u, !.clash = c])
         /\ UNCHANGED calendarVars

Continues(t) == Goes(t, [t EXCEPT !.at = "importing", !.uid = NoUid, !.clash = NoEvent])

\* The upsert keeps the row's id; it fails if the calendar or the event is gone.
recordConflict(t) ==
    LET old == {c \in conflicts : c.feed = t.feed /\ c.uid = t.uid}
        id == IF old = {} THEN t.id ELSE (CHOOSE c \in old : TRUE).id IN
    IF Live(t.feed) /\ Here(t.clash)
    THEN /\ conflicts' = (conflicts \ old) \cup
                         {[id |-> id, feed |-> t.feed, uid |-> t.uid, slot |-> t.offer[t.uid],
                           existing |-> t.clash]}
         /\ Continues(t)
         /\ UNCHANGED <<feed, offered, ignored, kept, eventVars, remindVars, setVars>>
    ELSE RefreshOver(t) /\ UNCHANGED calendarVars

\* The unique index on a calendar's entries makes a second insert do nothing.
InsertImported(t) ==
    IF ~Live(t.feed) THEN RefreshOver(t) /\ UNCHANGED calendarVars
    ELSE /\ Continues(t)
         /\ IF Imported(t.feed, t.uid) # {} THEN UNCHANGED eventVars
            ELSE AddEvent(MkEvent("published", t.offer[t.uid], NoGroup, feed[t.feed].public,
                                  t.feed, t.uid))
         /\ UNCHANGED <<feedVars, remindVars, setVars>>

\* Conflicts over what is no longer offered; a failure here is only logged.
ClearConflicts(t, ok) ==
    /\ t.uids = {}
    /\ conflicts' = IF ok THEN {c \in conflicts : c.feed = t.feed => c.uid \in Seen(t)} ELSE conflicts
    /\ Goes(t, [t EXCEPT !.at = "removing", !.cleared = ok,
                !.uids = {u \in Uids : t.existing[u] # NoEvent} \ Seen(t)])
    /\ UNCHANGED <<feed, offered, ignored, kept, eventVars, remindVars, setVars>>

\* A bug: what is no longer offered stays.
RemoveNothing(t, u) ==
    /\ Goes(t, [t EXCEPT !.uids = @ \ {u}])
    /\ UNCHANGED calendarVars

\* What was held and is no longer offered.
RemoveGone(t, u) ==
    LET gone == EventsOf(t.feed) \cap {t.existing[u]} IN
    /\ DropEvents(gone)
    /\ conflicts' = {c \in conflicts : c.existing \notin gone}
    /\ Goes(t, [t EXCEPT !.uids = @ \ {u}])
    /\ UNCHANGED <<feed, offered, ignored, kept, setVars>>

RefreshDone(t) ==
    /\ t.uids = {}
    /\ RefreshOver(t)
    /\ UNCHANGED calendarVars

\* A statement of the refresh fails: it is over.
RefreshFails(t) ==
    /\ t.at # "fetching"
    /\ t.rest # {}
    /\ RefreshOver(t)
    /\ UNCHANGED calendarVars

Rulings == {"import", "skip", "replace"}

AdminCalendarConflictResolve(x, c, decision) ==
    /\ requireContentEditor(x)
    /\ Starts([id |-> made, do |-> "resolve", at |-> "ruling", conflict |-> c,
                          decision |-> decision])
    /\ UNCHANGED calendarVars

\* Whether somebody else still works on this entry.
InHand(t, c) ==
    \E o \in tasks \ {t} : \/ o.do = "refresh" /\ o.feed = c.feed
                           \/ o.do = "resolve" /\ o.conflict.feed = c.feed /\ o.conflict.uid = c.uid

\* The ruling, in one transaction; it fails if the calendar is gone.
ResolveConflict(t) ==
    LET c == t.conflict
        old == IF t.decision = "replace" THEN {c.existing} ELSE {}
        rest == {d \in conflicts : d.existing \notin old /\ <<d.id, d.feed, d.uid>> # <<c.id, c.feed, c.uid>>}
        add == t.decision # "skip" /\ Imported(c.feed, c.uid) \ old = {} IN
    /\ Live(c.feed)
    /\ ~add \/ spent < MaxEvents
    /\ conflicts' = rest
    /\ IF t.decision = "skip"
       THEN /\ ignored' = ignored \cup {<<c.feed, c.uid>>}
            /\ kept' = IF \/ Imported(c.feed, c.uid) # {} \/ InHand(t, c)
                          \/ \E d \in rest : d.feed = c.feed /\ d.uid = c.uid
                       THEN kept \cup {<<c.feed, c.uid>>} ELSE kept
       ELSE UNCHANGED <<ignored, kept>>
    /\ LET added == MkEvent("published", c.slot, NoGroup, feed[c.feed].public, c.feed, c.uid) IN
       /\ event' = [e \in EventIds |-> IF add /\ e = spent + 1 THEN added
                                       ELSE IF e \in old THEN NoSuchEvent ELSE event[e]]
       /\ spent' = IF add THEN spent + 1 ELSE spent
       /\ vetted' = IF add THEN vetted \cup {spent + 1} ELSE vetted
    /\ rsvp' = [e \in EventIds |-> IF e \in old THEN [x \in Logins |-> "none"] ELSE rsvp[e]]
    /\ reminded' = {r \in reminded : r[1] \notin old}
    /\ Ends(t)
    /\ UNCHANGED <<approval, feed, offered, mailed, again, doubted, setVars>>

-----------------------------------------------------------------------------
(* Reminders.                                                              *)

\* A bug: the record of what was sent not consulted.
dueWhatever ==
    {d \in EventIds \X Logins \X Logins :
        /\ event[d[1]].status = "published" /\ event[d[1]].slot = now
        /\ rsvp[d[1]][d[2]] \in {"yes", "maybe"} /\ d[3] \in Household[d[2]]}

\* One mail to each login of a member's family, for an event that starts in
\* the window and of which no reminder to that member is recorded.
dueCandidates ==
    {d \in EventIds \X Logins \X Logins :
        /\ event[d[1]].status = "published" /\ event[d[1]].slot = now
        /\ rsvp[d[1]][d[2]] \in {"yes", "maybe"} /\ d[3] \in Household[d[2]]
        /\ <<d[1], d[2]>> \notin reminded}

OnMind(t) == t.todo \cup (IF t.at = "recording" THEN {t.mail} ELSE {})

SendReminders ==
    /\ Starts([id |-> made, do |-> "remind", at |-> "sending", todo |-> dueCandidates,
                         mail |-> <<NoEvent, NoLogin, NoLogin>>])
    /\ doubted' = doubted \cup
          {<<d[1], d[2]>> : d \in dueCandidates \cap UNION {OnMind(t) : t \in {o \in tasks : o.do = "remind"}}}
    /\ UNCHANGED <<reminded, mailed, again, eventVars, feedVars, setVars>>

\* A mail that fails is not recorded and waits for the next run.
SendReminder(t, d, ok) ==
    /\ IF ok
       THEN /\ again' = IF d \in mailed THEN again \cup {d} ELSE again
            /\ mailed' = mailed \cup {d}
            /\ Goes(t, [t EXCEPT !.at = "recording", !.todo = @ \ {d}, !.mail = d])
       ELSE Goes(t, [t EXCEPT !.todo = @ \ {d}]) /\ UNCHANGED <<mailed, again>>
    /\ UNCHANGED <<reminded, doubted, eventVars, feedVars, setVars>>

\* A record that fails, as it must when the event is gone, is only logged.
RecordReminder(t, ok) ==
    LET pair == <<t.mail[1], t.mail[2]>> IN
    /\ IF ok /\ Here(t.mail[1]) THEN reminded' = reminded \cup {pair} /\ UNCHANGED doubted
       ELSE doubted' = doubted \cup {pair} /\ UNCHANGED reminded
    /\ Goes(t, [t EXCEPT !.at = "sending", !.mail = <<NoEvent, NoLogin, NoLogin>>])
    /\ UNCHANGED <<mailed, again, eventVars, feedVars, setVars>>

-----------------------------------------------------------------------------
(* The rest.                                                               *)

CalendarSubscribeRegenerate(x) ==
    /\ x \in member
    /\ tokens' = tokens \cup {x}
    /\ AtOnce
    /\ UNCHANGED <<member, now, scene, eventVars, feedVars, remindVars>>

CalendarSubscribeRemove(x) ==
    /\ x \in member
    /\ tokens' = tokens \ {x}
    /\ AtOnce
    /\ UNCHANGED <<member, now, scene, eventVars, feedVars, remindVars>>

\* A family's last role in the unit ends (module Roster).
Leaves(x) ==
    /\ x \in member
    /\ member' = member \ {x}
    /\ AtOnce
    /\ UNCHANGED <<tokens, now, scene, eventVars, feedVars, remindVars>>

Tick ==
    /\ now < Horizon
    /\ now' = now + 1
    /\ AtOnce
    /\ UNCHANGED <<tokens, member, scene, eventVars, feedVars, remindVars>>

\* A statement fails, or the process dies: what is under way stays half done.
Abandon(t) ==
    /\ Ends(t)
    /\ doubted' = IF t.do = "remind" /\ t.at = "recording"
                  THEN doubted \cup {<<t.mail[1], t.mail[2]>>} ELSE doubted
    /\ UNCHANGED <<reminded, mailed, again, eventVars, feedVars, setVars>>

\* The next statement of what is under way.
CreateStep(t) ==
    \/ t.at = "inserting" /\ InsertOccurrence(t)
    \/ t.at = "submitting" /\ Submit(t)
DeleteStep(t) ==
    \/ t.at = "withdrawing" /\ WithdrawRequest(t)
    \/ t.at = "deleting" /\ DeleteEvent(t)
RefreshStep(t) ==
    \/ t.at = "fetching" /\ fetchFeed(t)
    \/ t.at = "existing" /\ ReadExisting(t)
    \/ t.at = "ignored" /\ ignoredUIDs(t)
    \/ t.at = "importing" /\ \E u \in t.uids : Import(t, u)
    \/ t.at = "importing" /\ \E ok \in BOOLEAN : ClearConflicts(t, ok)
    \/ t.at = "holding" /\ recordConflict(t)
    \/ t.at = "inserting" /\ InsertImported(t)
    \/ t.at = "removing" /\ \E u \in t.uids : RemoveGone(t, u)
    \/ t.at = "removing" /\ RefreshDone(t)
    \/ RefreshFails(t)
RemindStep(t) ==
    \/ t.at = "sending" /\ \E d \in t.todo, ok \in BOOLEAN : SendReminder(t, d, ok)
    \/ t.at = "recording" /\ \E ok \in BOOLEAN : RecordReminder(t, ok)

CalendarStep(t) ==
    \/ t.do = "create" /\ CreateStep(t)
    \/ t.do = "delete" /\ DeleteStep(t)
    \/ t.do = "refresh" /\ RefreshStep(t)
    \/ t.do = "resolve" /\ ResolveConflict(t)
    \/ t.do = "remind" /\ RemindStep(t)

CalendarRequest ==
    \/ Asked("create") /\ \E x \in Logins, s \in Slots, g \in Groups \cup {NoGroup}, public \in BOOLEAN,
                              n \in 1..MaxRepeats : CalendarCreate(x, s, g, public, n)
    \/ Asked("decide") /\ \E x \in Logins, e \in EventIds, approve \in BOOLEAN : Decide(x, e, approve)
    \/ Asked("update") /\ \E x \in Logins, e \in EventIds, s \in Slots, g \in Groups \cup {NoGroup},
                              public \in BOOLEAN : CalendarUpdate(x, e, s, g, public)
    \/ Asked("delete") /\ \E x \in Logins, e \in EventIds : CalendarDelete(x, e)
    \/ Asked("rsvp") /\ \E x \in Logins, e \in EventIds, r \in Responses \ {"none"} : CalendarRSVP(x, e, r)
    \/ Asked("subscribe") /\ \E x \in Logins, f \in Feeds, public \in BOOLEAN : AdminCalendarFeedAdd(x, f, public)
    \/ Asked("refresh") /\ \E x \in Logins, f \in Feeds : AdminCalendarFeedRefresh(x, f)
    \/ Asked("schedule") /\ RefreshAllFeeds
    \/ Asked("toggle") /\ \E x \in Logins, f \in Feeds, enabled \in BOOLEAN : AdminCalendarFeedToggle(x, f, enabled)
    \/ Asked("unsubscribe") /\ \E x \in Logins, f \in Feeds : AdminCalendarFeedDelete(x, f)
    \/ Asked("offer") /\ \E f \in Feeds, u \in Uids, s \in 0..Absent : Offers(f, u, s)
    \/ Asked("resolve") /\ \E x \in Logins, c \in conflicts, d \in Rulings : AdminCalendarConflictResolve(x, c, d)
    \/ Asked("remind") /\ SendReminders
    \/ Asked("token") /\ \E x \in Logins : CalendarSubscribeRegenerate(x) \/ CalendarSubscribeRemove(x)
    \/ Asked("leave") /\ \E x \in Logins : Leaves(x)
    \/ Asked("tick") /\ Tick

-----------------------------------------------------------------------------
(* What the pages show: of these lists, the events each viewer sees.       *)

ViewerGroups(x) == IF x \in member THEN GroupsOf[x] ELSE {}

ListAllForUnit == {e \in EventIds : event[e].status = "published"}
ListForRangeForUnit(from, to) == {e \in ListAllForUnit : event[e].slot \in from..to}
ListForRangePublicForUnit(from, to) == {e \in ListForRangeForUnit(from, to) : event[e].public}
ListUpcomingForUnit == {e \in ListAllForUnit : event[e].slot >= now}
ListUpcomingPublicForUnit == {e \in ListUpcomingForUnit : event[e].public}

FilterVisibleToViewer(es, x) ==
    {e \in es : CanEdit(x) \/ event[e].group \in {NoGroup} \cup ViewerGroups(x)}

\* The list and the month, and the printed copy: a visitor's are not filtered.
Visible(es, x) == IF x = NoLogin THEN es ELSE FilterVisibleToViewer(es, x)
CalendarPage(x) ==
    Visible(IF x \in member THEN ListUpcomingForUnit \cup ListForRangeForUnit(0, Horizon)
            ELSE ListUpcomingPublicForUnit \cup ListForRangePublicForUnit(0, Horizon), x)
CalendarExportPDF(x, from, to, groups) ==
    {e \in Visible(IF x \in member THEN ListForRangeForUnit(from, to)
                   ELSE ListForRangePublicForUnit(from, to), x) :
        groups # {} => event[e].group \in groups \cup {NoGroup}}

\* The personal feed asks for no session: its token's owner must be a member still.
CalendarFeed(x) ==
    IF x \in tokens \cap member THEN FilterVisibleToViewer(ListForRangeForUnit(0, Horizon), x) ELSE {}

\* A group's page, which any member of the unit may open: the unit's events and the group's.
GroupEvents(x, g) == {e \in ListUpcomingForUnit : x \in member /\ event[e].group \in {NoGroup, g}}

\* The front page.
HomeEvents == ListUpcomingPublicForUnit

\* Who is coming, for editors.
AttendeesForEvent(e) == {m \in Logins : rsvp[e][m] # "none"}
CalendarEventAttendeesExportPDF(x, e) == IF CanEdit(x) /\ Here(e) THEN AttendeesForEvent(e) ELSE {}

=============================================================================
