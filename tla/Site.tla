-------------------------------- MODULE Site --------------------------------
(***************************************************************************)
(* One unit's site: its calendar, its library and its enquiries over one     *)
(* database, with every request, scheduled run and command under way at once, *)
(* and what must hold of what is kept and of what is shown.                  *)
(***************************************************************************)
EXTENDS Prospects

VARIABLES
    disturbed, \* history: the tasks that others worked next to since they last began
    crossed    \* history: keys given again while what they named was deleted or moved

vars == <<calendarVars, libraryVars, prospectVars, tasks, made, disturbed, crossed>>

\* What a site is started from: rows as the tables' own keys and references keep
\* them and as the code writes them, and uploads whose keys are not used again.
Begun(s) ==
    /\ s.most \in Nat /\ s.member \subseteq Logins
    /\ s.event \in [EventIds -> Event] /\ s.spent \in 0..MaxEvents
    /\ s.approval \in [EventIds -> {"none", "pending", "approved", "rejected"}]
    /\ s.rsvp \in [EventIds -> [Logins -> Responses]]
    /\ \A e \in EventIds :
          /\ e > s.spent => s.event[e].status = "none"
          /\ s.event[e].status = "none" => \A x \in Logins : s.rsvp[e][x] = "none"
          /\ s.event[e].public => s.event[e].group = NoGroup
    /\ \A d, e \in EventIds :
          /\ s.event[d].status # "none" /\ s.event[e].status # "none" /\ s.event[e].feed \in Feeds
          /\ s.event[d].feed = s.event[e].feed /\ s.event[d].uid = s.event[e].uid
          => d = e
    /\ s.feed \in [Feeds -> [state : {"none", "live", "gone"}, enabled : BOOLEAN, public : BOOLEAN]]
    /\ s.offered \in [Feeds -> [Uids -> 0..Absent]]
    /\ s.ignored \subseteq Feeds \X Uids
    /\ s.file \in [FileIds -> File] /\ s.filed \in 0..MaxFiles
    /\ \A f \in FileIds : s.file[f].kind # "none" =>
          /\ f <= s.filed
          /\ s.file[f].key.by = "upload" => s.file[f].key.n >= 2 * s.most
          /\ s.file[f].key.by = "row" => s.file[f].key.n = f
          /\ \A g \in FileIds : s.file[g].kind # "none" /\ s.file[g].key = s.file[f].key => f = g
          /\ \A e \in s.file[f].events : s.event[e].status # "none"
    /\ \A f \in FileIds : s.file[f].kind = "none" => s.file[f] = NoSuchFile
    /\ s.post \in [PostIds -> Post] /\ s.written \in 0..MaxPosts
    /\ \A p \in PostIds : p > s.written => s.post[p] = NoSuchPost
    /\ s.label \subseteq Label /\ IsFiniteSet(s.label)
    /\ \A l, m \in s.label : l.kind = m.kind /\ l.value = m.value => l = m
    /\ \A l \in s.label : l.kind = "status" /\ l.value = StatusNewValue => ~l.retired
    /\ s.enquiry \in [EnquiryIds -> Enquiry] /\ s.enquired \in 0..MaxEnquiries
    /\ \A p \in EnquiryIds : s.enquiry[p].source # "none" =>
          /\ p <= s.enquired
          /\ \/ s.enquiry[p].status = StatusNewValue
             \/ \E l \in s.label : l.kind = "status" /\ l.value = s.enquiry[p].status /\ ~l.retired
          /\ \/ s.enquiry[p].category = Uncategorised
             \/ \E l \in s.label : l.kind = "category" /\ l.value = s.enquiry[p].category /\ ~l.retired

ASSUME SiteAssumption == \A n \in DOMAIN Scenes : Begun(Scenes[n])

Init ==
    /\ scene \in DOMAIN Scenes
    /\ LET start == Scenes[scene] IN
       /\ event = start.event /\ spent = start.spent /\ approval = start.approval
       /\ rsvp = start.rsvp /\ feed = start.feed /\ offered = start.offered
       /\ ignored = start.ignored
       /\ file = start.file /\ filed = start.filed
       /\ member = start.member
       /\ post = start.post /\ written = start.written
       /\ objects = {<<start.file[f].key, "">> : f \in {g \in FileIds : start.file[g].kind # "none"}}
       /\ posters = {f \in FileIds : start.file[f].poster}
       /\ vetted = {e \in EventIds : start.event[e].status = "published"}
       /\ openly = {p \in PostIds : start.post[p].public}
       /\ label = start.label /\ enquiry = start.enquiry /\ enquired = start.enquired
    /\ resource = [r \in ResourceIds |-> NoSuchResource] /\ listed = 0
    /\ conflicts = {} /\ tokens = Logins
    /\ kept = {i \in ignored : Imported(i[1], i[2]) # {}}
    /\ reminded = {} /\ mailed = {} /\ again = {} /\ doubted = {}
    /\ joins = 0 /\ setting = [key \in Settings |-> TRUE]
    /\ answered = {} /\ withdrawn = {} /\ excused = {}
    /\ now = 0
    /\ tasks = {} /\ made = 0 /\ disturbed = {} /\ crossed = {}

\* event_files refers to events with ON DELETE CASCADE.
LinksFollow == file' = [f \in FileIds |-> [file[f] EXCEPT !.events = {e \in @ : Here(e)'}]]

\* The keys a re-keying has read of the table, for the file in hand and those to come.
Met(o) == {o.from} \cup {row[3] : row \in o.rows}

\* What a step by somebody else changes under a refresh (which starts afresh
\* at each calendar) or under a pasted list, a mail picture whose row is being
\* dropped or moved, and a key that one re-keying moves a file to and another
\* has met it under.
Watch ==
    LET same == UNCHANGED <<event, feed, conflicts, ignored>> IN
    /\ disturbed' = {t.id : t \in {r \in tasks \cap tasks' : r.do = "refresh" /\ r.at # "fetching" /\ ~same}}
                    \cup {t.id : t \in {p \in tasks \cap tasks' : p.do = "paste" /\ enquiry' # enquiry}}
                    \cup {i \in disturbed : \E t \in tasks' : t.id = i /\ t.at # "fetching"}
    /\ crossed' = crossed \cup
          {t.key : t \in {h \in tasks' : h.do = "host" /\ \E o \in tasks' :
                              \/ o.do = "drop" /\ o.key = h.key
                              \/ o.do = "rekey" /\ h.key \in Met(o)}}
          \cup {t.want : t \in {m \in tasks' : /\ m.do = "rekey" /\ m.at # "picking"
                                            /\ \E o \in tasks' \ {m} : o.do = "rekey" /\ m.want \in Met(o)}}

Next ==
    /\ \/ /\ \/ More /\ CalendarRequest
             \/ \E t \in tasks : CalendarStep(t) \/ Abandon(t)
          /\ LinksFollow
          /\ UNCHANGED <<filed, bucketVars, pageVars, prospectVars>>
       \/ /\ \/ More /\ LibraryRequest
             \/ \E t \in tasks : LibraryStep(t)
          /\ UNCHANGED prospectVars
       \/ /\ \/ More /\ ProspectRequest
             \/ \E t \in tasks : ProspectStep(t)
          /\ UNCHANGED libraryVars
    /\ Watch

Spec == Init /\ [][Next]_vars

-----------------------------------------------------------------------------

TypeOK ==
    /\ CalendarTypeOK /\ LibraryTypeOK /\ ProspectTypeOK
    /\ disturbed \subseteq {t.id : t \in tasks} /\ crossed \subseteq Key

\* Whatever page is opened, its events are published ones that an editor
\* wrote, an approver passed or an imported calendar brought; a visitor and an
\* outsider see only public events, which are never a group's, and on the
\* calendar a group's events are its own members' and the editors'.  A visitor
\* finds only public pictures in albums and only posts an editor opened to
\* all, no list of news holds a group's, and
\* only editors see a family's enquiry, and who is coming to an event.
EventsSeen(x) == CalendarPage(x) \cup CalendarExportPDF(x, 0, Horizon, {}) \cup CalendarFeed(x)

\* The enquiry is in some group of the page.
OnPage(x, p, all) == LET page == ProspectsList(x, all, {}) IN \E v \in DOMAIN page : p \in page[v]

OnlyVettedShown ==
    /\ \A x \in Logins \cup {NoLogin} : \A e \in EventsSeen(x) \cup HomeEvents :
          /\ event[e].status = "published" /\ e \in vetted
          /\ x \in member \/ (event[e].public /\ event[e].group = NoGroup)
          /\ event[e].group \in {NoGroup} \cup ViewerGroups(x) \/ CanEdit(x)
    /\ \A x \in Logins \cup {NoLogin}, g \in Groups : \A e \in GroupEvents(x, g) :
          e \in vetted /\ event[e].group \in {NoGroup, g} /\ x \in member
    /\ \A f \in HomePhotos(NoLogin) \cup UNION {galleryDetail(NoLogin, p) : p \in PostIds} : file[f].public
    /\ \A p \in PostIds : publicContentView(NoLogin, p) => p \in openly
    /\ \A x \in Logins \cup {NoLogin} : \A p \in publicContentList(x, "post") : post[p].group = NoGroup
    /\ \A x \in Logins \cup {NoLogin}, p \in EnquiryIds : OnPage(x, p, TRUE) => x \in Editors \cap member
    /\ \A x \in Logins \cup {NoLogin}, e \in EventIds :
          CalendarEventAttendeesExportPDF(x, e) # {} => x \in Editors \cap member

Held(f, u) == {c \in conflicts : c.feed = f /\ c.uid = u}

\* When a refresh that nobody disturbed is done, the unit holds of that
\* calendar what it was offered and nothing else, at the times offered: each
\* entry as an event or as a conflict for a leader, unless it was ruled out.
Mirror ==
    \A t \in {r \in tasks : r.do = "refresh" /\ r.at = "removing"} :
        t.uids = {} /\ t.cleared /\ t.id \notin disturbed /\ Live(t.feed) =>
            /\ \A u \in Uids \ Seen(t) : Imported(t.feed, u) = {} /\ Held(t.feed, u) = {}
            /\ \A u \in Seen(t) \ t.ignoring :
                  /\ Imported(t.feed, u) # {} \/ Held(t.feed, u) # {}
                  /\ \A e \in Imported(t.feed, u) : event[e].slot = t.offer[u]
                  /\ Imported(t.feed, u) = {} => \A c \in Held(t.feed, u) : c.slot = t.offer[u]

\* What a leader has ruled out neither appears on the calendar nor is asked
\* again, whatever refreshes come: unless it was there, or in somebody's
\* hands, when it was ruled out.
RulingsHold ==
    \A i \in ignored \ kept : Imported(i[1], i[2]) = {} /\ Held(i[1], i[2]) = {}

\* Nobody is reminded twice of the same event, unless the record of the
\* first time failed, came too late for a run that overlapped, or died.
RemindedOnce == {<<r[1], r[2]>> : r \in again} \subseteq doubted

\* Every row of files names an object that the bucket holds, whatever was
\* uploaded, moved or deleted and wherever it was interrupted; every poster
\* that is told of is there.  Mail pictures dropped or moved while the same
\* picture was being hosted again are apart, and so is a file that one re-keying
\* moves back to where another has met it.
ObjectsHeld ==
    \A f \in FileIds : Filed(f) =>
        /\ Has(file[f].key, "") \/ file[f].key \in crossed
        /\ \A x \in Logins \cup {NoLogin} : servableFile(x, f) /\ file[f].poster => FilePoster(x, f)

\* What one page lists, the page it leads to opens, though each asks its own
\* questions: the library holds every file, also when its event is gone; a
\* group's photos and the unit's documents are there; news and albums can be
\* read, and an editor finds all of them; nobody is coming to an event that is gone.
ListedOpens ==
    LET files == {f \in FileIds : Filed(f)}
        posts == {p \in PostIds : Written(p)} IN
    /\ \A x \in Logins : {row[2] : row \in FileLibrary(x, {})} = files
    /\ \A f \in files, x \in Logins :
          /\ \A e \in EventIds : <<e, f>> \in FileLibrary(x, file[f].events) <=> Here(e) /\ e \in file[f].events
          /\ \A g \in Groups : f \in GroupPhotos(x, g) => servableFile(x, f)
    /\ \A r \in {q \in ResourceIds : resource[q].kind = "file"}, x \in Logins \cup {NoLogin} :
          r \in ResourcesList(x) => ResourceDownload(x, r) \/ file[resource[r].file].key \in crossed
    /\ \A p \in posts, x \in Logins \cup {NoLogin} :
          /\ p \in publicContentList(x, post[p].kind) =>
                publicContentView(x, p) /\ \A y \in Editors \cap member : p \in adminContentList(y, post[p].kind)
          /\ p \in HomeNews(x) \cup UNION {GroupNews(x, g) : g \in Groups} => publicContentView(x, p)
    /\ \A e \in EventIds : ~Here(e) => AttendeesForEvent(e) = {}

ObjectKept == ObjectsHeld /\ ListedOpens

\* An enquiry is filed where its leader saw it go: under labels of the unit's
\* list, and under one that has been retired only if it was there then or on its
\* way; what new enquiries are filed under is always offered, and no enquiry
\* is missing from the editors' page, whatever became of its label.
FiledWhereOffered ==
    /\ \A p \in EnquiryIds : Enquired(p) /\ enquiry[p].status # StatusNewValue =>
          \E l \in ListLabels("status") :
             l.value = enquiry[p].status /\ (l.retired => <<p, l.kind, l.value>> \in excused)
    /\ \A p \in EnquiryIds : Enquired(p) /\ enquiry[p].category # Uncategorised =>
          \E l \in ListLabels("category") :
             l.value = enquiry[p].category /\ (l.retired => <<p, l.kind, l.value>> \in excused)
    /\ \A l \in ListLabels("status") : l.value = StatusNewValue => ~l.retired
    /\ \A x \in Logins, p \in EnquiryIds : Enquired(p) /\ requireContentEditor(x) =>
          /\ OnPage(x, p, TRUE)
          /\ OnPage(x, p, FALSE) \/ enquiry[p].status \in closedStatuses

\* No family that a pasted list is about to add is on the unit's list already,
\* unless somebody worked next to it.
PastedOnce ==
    \A t \in {p \in tasks : p.do = "paste"} :
        t.id \notin disturbed => \A i \in t.lines : t.list[i] \notin existingEnquiries

\* A family that unsubscribed stays so whatever becomes of its enquiry, until a
\* leader puts it back; and only who wrote in by the form is answered unasked.
ConsentKept ==
    /\ \A p \in withdrawn : Enquired(p) => enquiry[p].optOut
    /\ \A p \in answered : enquiry[p].source # "leader"

EnquiriesSound == FiledWhereOffered /\ PastedOnce /\ ConsentKept

=============================================================================
