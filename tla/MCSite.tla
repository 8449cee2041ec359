------------------------------- MODULE MCSite -------------------------------
(* A Pack's site: an editor who is its Admin, a submitter and a parent, each  *)
(* in a den, and a login of another unit.  Every scene asks for a few kinds of *)
(* requests, so that each kind meets those it can interfere with.           *)
EXTENDS Site

CONSTANTS ed, sub, par, out, d1, d2, f1, f2, u1, u2, a1, c1, c2, new, contacted, visited

MCGroupsOf == [x \in Logins |-> CASE x = sub -> {d1} [] x = par -> {d2} [] OTHER -> {}]
MCHousehold == [x \in Logins |-> IF x = par THEN {par, sub} ELSE {x}]
MCManagers == [g \in Groups |-> IF g = d1 THEN {sub} ELSE {ed}]

MCUploads == {<<"image", FALSE>>}

No == [x \in Logins |-> "none"]
Going(x) == [No EXCEPT ![x] = "yes"]
Own(s, g, public) == MkEvent("published", s, g, public, NoFeed, NoUid)
Pending(s) == MkEvent("pending_approval", s, NoGroup, TRUE, NoFeed, NoUid)
FeedIs(state) == [state |-> state, enabled |-> TRUE, public |-> TRUE]
Nothing(n) == [u \in Uids |-> Absent]
Offer(s, t) == [u \in Uids |-> IF u = u1 THEN s ELSE t]
Old(n) == MkKey("upload", PhotosFolder, 100 + n)

\* A family of two, and the same child twice.
MCPastes == {<<<<a1, c1>>, <<a1, c2>>>>, <<<<a1, c2>>, <<a1, c2>>>>}
Sibling == MkLabel("status", <<visited, 1>>, visited, FALSE, 3)
Visited == MkLabel("category", <<visited, 1>>, visited, FALSE, 1)

Blank ==
    [asks |-> {}, most |-> 2, member |-> {ed, sub, par},
     event |-> [e \in EventIds |-> NoSuchEvent], spent |-> 0,
     approval |-> [e \in EventIds |-> "none"], rsvp |-> [e \in EventIds |-> No],
     feed |-> [f \in Feeds |-> FeedIs("none")], offered |-> [f \in Feeds |-> Offer(Absent, Absent)],
     ignored |-> {},
     file |-> [f \in FileIds |-> NoSuchFile], filed |-> 0,
     post |-> [p \in PostIds |-> NoSuchPost], written |-> 0,
     label |-> {}, enquiry |-> [p \in EnquiryIds |-> NoSuchEnquiry], enquired |-> 0]

OneEvent == [Blank EXCEPT !.event[1] = Own(0, NoGroup, TRUE), !.spent = 1]
OneFeed == [OneEvent EXCEPT !.feed[f1] = FeedIs("live"), !.offered[f1] = Offer(0, 1)]
TwoFeeds == [OneFeed EXCEPT !.feed[f2] = FeedIs("live"), !.offered[f2] = Offer(1, Absent)]
Films == [OneEvent EXCEPT
    !.file[1] = [MkFile("image", TRUE, FALSE, Old(0)) EXCEPT !.events = {1}],
    !.file[2] = [MkFile("video", TRUE, TRUE, Old(1)) EXCEPT !.poster = TRUE], !.filed = 2]
Papers == [Blank EXCEPT
    !.file[1] = MkFile("document", FALSE, FALSE, Old(0)),
    !.file[2] = MkFile("image", TRUE, TRUE, Old(1)), !.filed = 2,
    !.post[1] = MkPost("gallery", NoGroup, TRUE, TRUE, {2}),
    !.post[2] = MkPost("post", d1, FALSE, TRUE, {}), !.written = 2]

Asking == [Blank EXCEPT !.label = DefaultStatuses \cup {Visited},
    !.enquiry[1] = MkEnquiry("form", a1, c1), !.enquired = 1]

MCScenes == [
    planning |-> [OneEvent EXCEPT
        !.event[2] = Pending(1), !.approval[2] = "pending", !.spent = 2,
        !.asks = {"create", "decide", "update", "delete"}],
    \* An event deleted before its request was made, as two tasks of the scene above leave it.
    stranding |-> [OneEvent EXCEPT !.event[2] = Pending(1), !.spent = 3,
        !.approval[2] = "pending", !.approval[3] = "pending", !.asks = {"decide", "delete", "rsvp"}],
    family |-> [OneEvent EXCEPT !.event[2] = Own(1, d2, FALSE), !.spent = 2, !.most = 3,
        !.asks = {"rsvp", "token", "leave", "delete"}],
    importing |-> [OneFeed EXCEPT !.event[2] = MkEvent("published", 1, NoGroup, TRUE, f1, u2), !.spent = 2,
        !.offered[f1] = Offer(0, Absent), !.asks = {"refresh", "offer", "resolve"}, !.most = 3],
    scheduled |-> [TwoFeeds EXCEPT !.ignored = {<<f1, u2>>}, !.asks = {"schedule", "resolve", "unsubscribe"}],
    subscribing |-> [OneFeed EXCEPT !.feed[f1] = FeedIs("none"),
        !.asks = {"subscribe", "toggle", "unsubscribe", "delete"}, !.most = 2],
    reminding |-> [OneEvent EXCEPT !.rsvp[1] = Going(par), !.event[2] = Own(1, NoGroup, FALSE), !.spent = 2,
        !.rsvp[2] = Going(sub), !.asks = {"remind", "tick", "delete"}, !.most = 3],
    filing |-> [OneEvent EXCEPT !.asks = {"upload", "drop", "delete"}],
    moving |-> [Films EXCEPT !.asks = {"rekey", "link", "category", "drop", "poster", "update", "variant", "backfill"}],
    \* A file that an earlier run filed under the event it was linked to then: two runs can cross.
    crossing |-> [OneEvent EXCEPT !.filed = 1, !.asks = {"rekey", "link"}, !.most = 3,
        !.file[1] = MkFile("image", TRUE, FALSE, MkKey("row", 2, 1))],
    hosting |-> [Blank EXCEPT !.asks = {"host", "drop", "rekey"}, !.most = 3,
        !.file[1] = MkFile("image", FALSE, TRUE, MkKey("digest", 0, 1)), !.filed = 1],
    shelving |-> [Papers EXCEPT !.asks = {"resource", "hide", "flip", "drop", "leave"}, !.most = 3],
    writing |-> [Papers EXCEPT !.asks = {"write", "edit", "erase", "news", "unnews", "flip"}, !.most = 3],
    sorting |-> [Films EXCEPT !.asks = {"bulk", "photos", "picture", "drop", "delete"}],
    enquiring |-> [Asking EXCEPT !.asks = {"join", "reply", "enter", "paste", "details", "spam", "consent"}, !.most = 3],
    placing |-> [Asking EXCEPT !.asks = {"move", "sweep", "retire", "close", "details"}, !.most = 3],
    retiring |-> [Asking EXCEPT !.label = @ \cup {Sibling}, !.asks = {"sweep", "retire"}, !.most = 3],
    labelling |-> [Asking EXCEPT !.asks = {"name", "order", "retire", "move"}],
    starting |-> [Asking EXCEPT !.label = {}, !.asks = {"join", "defaults", "move"}, !.most = 3]]
=============================================================================
