----------------------------- MODULE Prospects -----------------------------
(***************************************************************************)
(* One unit's enquiries (internal/prospect and the handlers of internal/web *)
(* that call it): the public form and its automatic reply, families added by *)
(* hand or pasted as a list, the status and category each is filed under, the *)
(* unit's own lists of these, a family's consent to be written to, and the     *)
(* switches that an enquiry meets (internal/settings).                       *)
(*                                                                         *)
(* A request that looks before it writes is a task, as in Calendar.tla.  The  *)
(* campaigns sent to these families are module BulkSend.                     *)
(***************************************************************************)
EXTENDS Library, Sequences

CONSTANTS
    Addresses, Children, \* what tells two enquiries apart
    Texts,       \* the names a leader may give a label,
    NewText, ContactedText, \*   two of them those a unit starts with
    NoText,
    Pastes,      \* lists that leaders paste: sequences of an address and a child
    JoinLimit,   \* enquiries from one place in an hour
    MaxLabels,   \* maxLabelsPerKind
    MaxEnquiries \* bound on the enquiries ever made

ASSUME ProspectAssumption ==
    /\ {NewText, ContactedText} \subseteq Texts /\ NewText # ContactedText /\ NoText \notin Texts
    /\ Pastes \subseteq Seq(Addresses \X Children)
    /\ {JoinLimit, MaxLabels, MaxEnquiries} \subseteq Nat \ {0}

VARIABLES
    label,     \* rows of prospect_labels
    enquiry,   \* rows of prospects
    enquired,  \* how many ids of them have been given out
    joins,     \* joinLimiter: the enquiries from the one address of everybody here
    setting,   \* unit_settings: whether the form is open, and answers by itself
    answered,  \* history: the enquiries it has so answered
    withdrawn, \* history: families that unsubscribed and were not put back
    excused    \* history: what a label's retirement found filed under it, or on its way there

labelVars == <<label, excused>>
enquiryVars == <<enquiry, enquired, withdrawn>>
joinVars == <<joins, setting, answered>>
prospectVars == <<labelVars, enquiryVars, joinVars>>

EnquiryIds == 1..MaxEnquiries
Settings == {"ProspectFormEnabled", "ProspectAutoReplyEnabled"}
LabelKinds == {"status", "category"}
\* A label's value: the name it was made under, and which of that name it was.
Values == (Texts \cup {NoText}) \X Nat
StatusNewValue == <<NewText, 0>>
Uncategorised == <<NoText, 0>>

Label == [kind : LabelKinds, value : Values, text : Texts, closed : BOOLEAN,
          retired : BOOLEAN, sort : Nat]
Enquiry == [source : {"none", "form", "leader"}, address : Addresses, child : Children,
            status : Values, category : Values, optOut : BOOLEAN]

MkLabel(kind, value, text, closed, sort) ==
    [kind |-> kind, value |-> value, text |-> text, closed |-> closed, retired |-> FALSE, sort |-> sort]
MkEnquiry(source, a, c) ==
    [source |-> source, address |-> a, child |-> c, status |-> StatusNewValue,
     category |-> Uncategorised, optOut |-> FALSE]
NoSuchEnquiry == MkEnquiry("none", CHOOSE a \in Addresses : TRUE, CHOOSE c \in Children : TRUE)

Enquired(p) == p \in EnquiryIds /\ enquiry[p].source # "none"
ListLabels(kind) == {l \in label : l.kind = kind}
\* A bug: a retired label taken for one that is offered.
LabelKnown(kind, v) == \E l \in ListLabels(kind) : l.value = v

LabelExists(kind, v) == \E l \in ListLabels(kind) : l.value = v /\ ~l.retired
enquiryKey(p) == <<enquiry[p].address, enquiry[p].child>>

ProspectTypeOK ==
    /\ label \subseteq Label
    /\ \A l, m \in label : l.kind = m.kind /\ l.value = m.value => l = m
    /\ enquiry \in [EnquiryIds -> Enquiry] /\ enquired \in 0..MaxEnquiries
    /\ joins \in Nat /\ setting \in [Settings -> BOOLEAN]
    /\ answered \cup withdrawn \subseteq 1..enquired
    /\ \A r \in excused : r[1] \in EnquiryIds /\ r[2] \in LabelKinds /\ r[3] \in Values

-----------------------------------------------------------------------------
(* Enquiries come in.                                                      *)

\* prospect.Create: filed as new, in no category, free to be written to.
AddEnquiry(source, a, c) ==
    /\ enquired < MaxEnquiries
    /\ enquired' = enquired + 1
    /\ enquiry' = [enquiry EXCEPT ![enquired + 1] = MkEnquiry(source, a, c)]
    /\ UNCHANGED <<withdrawn, calendarVars, labelVars>>

requireProspectFormEnabled == setting["ProspectFormEnabled"]

\* The public form: the limit is looked at, and spent once the row is there.
JoinSubmit(a, c) ==
    /\ requireProspectFormEnabled
    /\ joins < JoinLimit
    /\ Starts([id |-> made, do |-> "join", at |-> "storing", address |-> a, child |-> c, p |-> 0])
    /\ UNCHANGED <<calendarVars, prospectVars>>

StoreJoin(t) ==
    /\ AddEnquiry("form", t.address, t.child)
    /\ joins' = joins + 1
    /\ Goes(t, [t EXCEPT !.at = "replying", !.p = enquired + 1])
    /\ UNCHANGED <<setting, answered>>

\* The reply is sent on what was stored, not on what the row has become.
sendProspectAutoReply(t, ok) ==
    /\ answered' = IF ok /\ setting["ProspectAutoReplyEnabled"] THEN answered \cup {t.p} ELSE answered
    /\ Ends(t)
    /\ UNCHANGED <<joins, setting, calendarVars, labelVars, enquiryVars>>

WindowEnds ==
    /\ joins' = 0
    /\ AtOnce
    /\ UNCHANGED <<setting, answered, calendarVars, labelVars, enquiryVars>>

SetForUnit(key, on) ==
    /\ setting' = [setting EXCEPT ![key] = on]
    /\ UNCHANGED <<joins, answered, calendarVars, labelVars, enquiryVars>>

ProspectAutoReplyUpdate(x, on) == requireContentEditor(x) /\ SetForUnit("ProspectAutoReplyEnabled", on) /\ AtOnce

\* The switches of the settings page: read, then stored as their opposite.
requireSuperAdmin(x) == x \in Admins \cap member
UnitSettingsToggle(x, key) ==
    /\ requireSuperAdmin(x)
    /\ Starts([id |-> made, do |-> "switch", at |-> "storing", switch |-> key, to |-> ~setting[key]])
    /\ UNCHANGED <<calendarVars, prospectVars>>
StoreSwitch(t) == SetForUnit(t.switch, t.to) /\ Ends(t)

\* What marks it is that no automatic reply goes to it.
AddByLeader(a, c) == AddEnquiry("leader", a, c) /\ UNCHANGED joinVars
ProspectAdd(x, a, c) == requireContentEditor(x) /\ AddByLeader(a, c) /\ AtOnce

existingEnquiries == {enquiryKey(p) : p \in {q \in EnquiryIds : Enquired(q)}}

\* The lines that would be stored: families not on the unit's list, nor
\* earlier in this one.
ParsePaste(list) ==
    {i \in DOMAIN list : list[i] \notin existingEnquiries /\ \A j \in 1..(i - 1) : list[j] # list[i]}

ProspectImportSave(x, list) ==
    /\ requireContentEditor(x)
    /\ ParsePaste(list) # {}
    /\ Starts([id |-> made, do |-> "paste", at |-> "saving", list |-> list, lines |-> ParsePaste(list)])
    /\ UNCHANGED <<calendarVars, prospectVars>>

SavePaste(t) ==
    LET i == CHOOSE k \in t.lines : \A j \in t.lines : k <= j IN
    /\ AddByLeader(t.list[i][1], t.list[i][2])
    /\ IF t.lines = {i} THEN Ends(t) ELSE Goes(t, [t EXCEPT !.lines = @ \ {i}])

-----------------------------------------------------------------------------
(* What becomes of them.                                                   *)

Changes(p, row) ==
    /\ Enquired(p)
    /\ enquiry' = [enquiry EXCEPT ![p] = row]
    /\ AtOnce
    /\ UNCHANGED <<enquired, calendarVars, labelVars, joinVars>>

UpdateDetails(p, a, c) ==
    Changes(p, [enquiry[p] EXCEPT !.address = a, !.child = c]) /\ UNCHANGED withdrawn
DeleteEnquiry(p) == Changes(p, NoSuchEnquiry) /\ UNCHANGED withdrawn

\* The link in a mail, which asks for no session, and the leader's own switch.
Unsubscribe(p) ==
    /\ Changes(p, [enquiry[p] EXCEPT !.optOut = TRUE])
    /\ withdrawn' = withdrawn \cup {p}
SetEmailOptOut(p, optOut) ==
    /\ Changes(p, [enquiry[p] EXCEPT !.optOut = optOut])
    /\ withdrawn' = IF optOut THEN withdrawn ELSE withdrawn \ {p}

ProspectUpdateDetails(x, p, a, c) == requireContentEditor(x) /\ UpdateDetails(p, a, c)
ProspectDelete(x, p) == requireContentEditor(x) /\ DeleteEnquiry(p)
ProspectOptOut(x, p, optOut) == requireContentEditor(x) /\ SetEmailOptOut(p, optOut)
\* Whoever is off the list already is told so, and nothing is written.
ProspectUnsubscribe(p) == ~enquiry[p].optOut /\ Unsubscribe(p)

Move(ps, v, categories) ==
    /\ LabelExists("status", v)
    /\ Starts([id |-> made, do |-> "move", at |-> "writing", ps |-> ps, status |-> v,
               categories |-> categories])
    /\ UNCHANGED <<calendarVars, prospectVars>>

\* One enquiry to a status and a category, or some to a status only: the labels
\* are looked up first.
UpdateStatus(p, v, c) ==
    /\ c # Uncategorised => LabelExists("category", c)
    /\ Enquired(p)
    /\ Move({p}, v, {c})
UpdateStatusMany(ps, v) == ps # {} /\ Move(ps, v, {})

ProspectUpdate(x, p, v, c) == requireContentEditor(x) /\ UpdateStatus(p, v, c)
ProspectBulkStatus(x, ps, v) == requireContentEditor(x) /\ UpdateStatusMany(ps, v)

WriteStatus(t) ==
    /\ enquiry' = [p \in EnquiryIds |->
          IF ~(p \in t.ps /\ Enquired(p)) THEN enquiry[p]
          ELSE [enquiry[p] EXCEPT !.status = t.status,
                                  !.category = IF t.categories = {} THEN @ ELSE CHOOSE c \in t.categories : TRUE]]
    /\ Ends(t)
    /\ UNCHANGED <<enquired, withdrawn, calendarVars, labelVars, joinVars>>

-----------------------------------------------------------------------------
(* The unit's lists of statuses and categories.                            *)

DefaultStatuses ==
    {MkLabel("status", StatusNewValue, NewText, FALSE, 1),
     MkLabel("status", <<ContactedText, 1>>, ContactedText, TRUE, 2)}

\* A unit that has no status at all is given those it should have started with,
\* one after another, by the pages of enquiries and of labels.
EnsureDefaults ==
    /\ ListLabels("status") = {}
    /\ Starts([id |-> made, do |-> "defaults", at |-> "inserting", labels |-> DefaultStatuses])
    /\ UNCHANGED <<calendarVars, prospectVars>>
ProspectLabels(x) == requireContentEditor(x) /\ EnsureDefaults

\* An insert of a value that is there already does nothing.
InsertDefault(t) ==
    LET l == CHOOSE m \in t.labels : \A n \in t.labels : m.sort <= n.sort IN
    /\ label' = IF \E m \in ListLabels(l.kind) : m.value = l.value THEN label ELSE label \cup {l}
    /\ IF t.labels = {l} THEN Ends(t) ELSE Goes(t, [t EXCEPT !.labels = @ \ {l}])
    /\ UNCHANGED <<excused, calendarVars, enquiryVars, joinVars>>

Named(kind, text) == {l \in ListLabels(kind) : l.text = text}

\* The first value made from this name that no label of the list ever had.
uniqueSlug(kind, text) ==
    LET taken == {l.value : l \in ListLabels(kind)} IN
    <<text, CHOOSE n \in 1..(Cardinality(taken) + 1) :
               <<text, n>> \notin taken /\ \A m \in 1..(n - 1) : <<text, m>> \in taken>>
\* The place after the last.
next(kind) ==
    LET sorts == {0} \cup {l.sort : l \in ListLabels(kind)} IN
    1 + CHOOSE s \in sorts : \A r \in sorts : r <= s

CreateLabel(kind, text, closed) ==
    /\ Cardinality(ListLabels(kind)) < MaxLabels
    /\ Named(kind, text) = {}
    /\ Starts([id |-> made, do |-> "label", at |-> "creating",
               row |-> MkLabel(kind, uniqueSlug(kind, text), text, closed /\ kind = "status", next(kind))])
    /\ UNCHANGED <<calendarVars, prospectVars>>

InsertLabel(t) ==
    /\ ~ \E l \in ListLabels(t.row.kind) : l.value = t.row.value
    /\ label' = label \cup {t.row}
    /\ Ends(t)
    /\ UNCHANGED <<excused, calendarVars, enquiryVars, joinVars>>

\* One row of the list changed; none is ever deleted.
RowOf(l) == {m \in label : m.kind = l.kind /\ m.value = l.value}
ChangesLabel(l, changed) ==
    /\ label' = (label \ RowOf(l)) \cup changed
    /\ UNCHANGED <<calendarVars, enquiryVars, joinVars>>

\* A label is never given the name of another, retired ones included.
RenameLabel(l, text) ==
    /\ Named(l.kind, text) \subseteq {l}
    /\ Starts([id |-> made, do |-> "label", at |-> "renaming", row |-> [l EXCEPT !.text = text]])
    /\ UNCHANGED <<calendarVars, prospectVars>>

WriteName(t) ==
    /\ ChangesLabel(t.row, {[m EXCEPT !.text = t.row.text] : m \in RowOf(t.row)})
    /\ Ends(t)
    /\ UNCHANGED excused

SetLabelClosed(l, closed) ==
    /\ l.kind = "status"
    /\ ChangesLabel(l, {[m EXCEPT !.closed = closed] : m \in RowOf(l)})
    /\ AtOnce
    /\ UNCHANGED excused

\* What a new enquiry is filed under has to stay, and so has the last status.
SetLabelRetired(l, retired) ==
    /\ retired /\ l.kind = "status" =>
          /\ l.value # StatusNewValue
          /\ Cardinality({m \in ListLabels("status") : ~m.retired}) > 1
    /\ Starts([id |-> made, do |-> "label", at |-> "retiring", row |-> [l EXCEPT !.retired = retired]])
    /\ UNCHANGED <<calendarVars, prospectVars>>

\* What is filed under a label, or about to be by somebody who saw it offered.
Under(kind, v) ==
    {p \in EnquiryIds :
        \/ Enquired(p) /\ v = (IF kind = "status" THEN enquiry[p].status ELSE enquiry[p].category)
        \/ \E o \in tasks : /\ o.do = "move" /\ p \in o.ps
                            /\ v \in (IF kind = "status" THEN {o.status} ELSE o.categories)}

WriteRetired(t) ==
    /\ ChangesLabel(t.row, {[m EXCEPT !.retired = t.row.retired] : m \in RowOf(t.row)})
    /\ excused' = IF t.row.retired
                  THEN excused \cup {<<p, t.row.kind, t.row.value>> : p \in Under(t.row.kind, t.row.value)}
                  ELSE excused
    /\ Ends(t)

\* Up or down one place: every position of the list is written anew from the
\* list as it was read, in whichever order equal ones came.
MoveLabel(l, up) ==
    LET rows == {m.value : m \in ListLabels(l.kind)}
        at(v) == (CHOOSE m \in ListLabels(l.kind) : m.value = v).sort IN
    /\ \E places \in [rows -> 1..Cardinality(rows)] :
          LET from == places[l.value]
              to == IF up THEN from - 1 ELSE from + 1 IN
          /\ \A a, b \in rows : a # b => places[a] # places[b] /\ (at(a) < at(b) => places[a] < places[b])
          /\ to \in 1..Cardinality(rows)
          /\ Starts([id |-> made, do |-> "reorder", at |-> "writing", of |-> l.kind,
                     places |-> [r \in rows |-> CASE places[r] = from -> to
                                                  [] places[r] = to -> from
                                                  [] OTHER -> places[r]]])
    /\ UNCHANGED <<calendarVars, prospectVars>>

WritePlaces(t) ==
    /\ label' = {IF l.kind = t.of /\ l.value \in DOMAIN t.places
                 THEN [l EXCEPT !.sort = t.places[l.value]] ELSE l : l \in label}
    /\ Ends(t)
    /\ UNCHANGED <<excused, calendarVars, enquiryVars, joinVars>>

ProspectLabelCreate(x, kind, text, closed) == requireContentEditor(x) /\ CreateLabel(kind, text, closed)
ProspectLabelRename(x, l, text) == requireContentEditor(x) /\ RenameLabel(l, text)
ProspectLabelClosed(x, l, closed) == requireContentEditor(x) /\ SetLabelClosed(l, closed)
ProspectLabelRetire(x, l, retired) == requireContentEditor(x) /\ SetLabelRetired(l, retired)
ProspectLabelMove(x, l, up) == requireContentEditor(x) /\ MoveLabel(l, up)

-----------------------------------------------------------------------------

\* The enquiries an editor is shown, the closed ones when they are asked for,
\* of every category or of one, and by what status they are at.
closedStatuses == {l.value : l \in {m \in ListLabels("status") : m.closed}}
ListEnquiries(openOnly) ==
    {p \in EnquiryIds : Enquired(p) /\ (openOnly => enquiry[p].status \notin closedStatuses)}
\* The statuses that are offered, then those that some are at all the same.
splitLabels(kind) == {l \in ListLabels(kind) : ~l.retired}
groupByStatus(ps) ==
    [v \in {l.value : l \in splitLabels("status")} \cup {enquiry[p].status : p \in ps} |->
        {p \in ps : enquiry[p].status = v}]
ProspectsList(x, all, categories) ==
    groupByStatus({p \in ListEnquiries(~all) :
        requireContentEditor(x) /\ (categories # {} => enquiry[p].category \in categories)})

\* The next statement of what is under way.
ProspectStep(t) ==
    \/ t.do = "join" /\ t.at = "storing" /\ StoreJoin(t)
    \/ t.do = "join" /\ t.at = "replying" /\ \E ok \in BOOLEAN : sendProspectAutoReply(t, ok)
    \/ t.do = "switch" /\ StoreSwitch(t)
    \/ t.do = "paste" /\ SavePaste(t)
    \/ t.do = "move" /\ WriteStatus(t)
    \/ t.do = "defaults" /\ InsertDefault(t)
    \/ t.do = "label" /\ t.at = "creating" /\ InsertLabel(t)
    \/ t.do = "label" /\ t.at = "renaming" /\ WriteName(t)
    \/ t.do = "label" /\ t.at = "retiring" /\ WriteRetired(t)
    \/ t.do = "reorder" /\ WritePlaces(t)

ProspectRequest ==
    \/ Asked("join") /\ \E a \in Addresses, c \in Children : JoinSubmit(a, c)
    \/ Asked("join") /\ WindowEnds
    \/ Asked("reply") /\ \E x \in Logins, on \in BOOLEAN : ProspectAutoReplyUpdate(x, on)
    \/ Asked("reply") /\ \E x \in Logins, key \in Settings : UnitSettingsToggle(x, key)
    \/ Asked("enter") /\ \E x \in Logins, a \in Addresses, c \in Children : ProspectAdd(x, a, c)
    \/ Asked("paste") /\ \E x \in Logins, list \in Pastes : ProspectImportSave(x, list)
    \/ Asked("details") /\ \E x \in Logins, p \in EnquiryIds, a \in Addresses, c \in Children :
                               ProspectUpdateDetails(x, p, a, c)
    \/ Asked("spam") /\ \E x \in Logins, p \in EnquiryIds : ProspectDelete(x, p)
    \/ Asked("consent") /\ \E p \in EnquiryIds : ProspectUnsubscribe(p)
    \/ Asked("consent") /\ \E x \in Logins, p \in EnquiryIds, optOut \in BOOLEAN : ProspectOptOut(x, p, optOut)
    \/ Asked("move") /\ \E x \in Logins, p \in EnquiryIds, s, c \in label :
                            \E v \in {Uncategorised, c.value} : ProspectUpdate(x, p, s.value, v)
    \/ Asked("sweep") /\ \E x \in Logins, ps \in SUBSET (1..enquired), s \in label : ProspectBulkStatus(x, ps, s.value)
    \/ Asked("defaults") /\ \E x \in Logins : ProspectLabels(x)
    \/ Asked("name") /\ \E x \in Logins, kind \in LabelKinds, text \in Texts, closed \in BOOLEAN :
                            ProspectLabelCreate(x, kind, text, closed)
    \/ Asked("name") /\ \E x \in Logins, l \in label, text \in Texts : ProspectLabelRename(x, l, text)
    \/ Asked("close") /\ \E x \in Logins, l \in label, closed \in BOOLEAN : ProspectLabelClosed(x, l, closed)
    \/ Asked("retire") /\ \E x \in Logins, l \in label, retired \in BOOLEAN : ProspectLabelRetire(x, l, retired)
    \/ Asked("order") /\ \E x \in Logins, l \in label, up \in BOOLEAN : ProspectLabelMove(x, l, up)

=============================================================================
