------------------------------ MODULE Library ------------------------------
(***************************************************************************)
(* One unit's files and pages (internal/files, internal/resources,          *)
(* internal/content, the upload, delete, poster, thumbnail and re-keying     *)
(* code of internal/web): rows of files and the objects a bucket holds for   *)
(* them, which share no transaction, the resources and posts that name them,  *)
(* and who is shown what.                                                   *)
(*                                                                         *)
(* An object is a key and a suffix: the file itself, its thumbnail or its     *)
(* banner.  A put, a copy or a delete in the bucket may fail.  A request that   *)
(* looks whether a row is there and then changes it in one statement, which   *)
(* does nothing where the row has gone, is one action.                      *)
(***************************************************************************)
EXTENDS Calendar

CONSTANTS
    Admins,      \* the unit's super_admins
    Managers,    \* those who may manage each group
    Images,      \* the pictures a mail may carry inside
    Uploads,     \* what is uploaded: a kind, and whether as a photo
    MaxFiles, MaxResources, MaxPosts \* bounds on the rows ever made

ASSUME LibraryAssumption ==
    /\ Admins \subseteq Logins /\ Managers \in [Groups -> SUBSET Logins]
    /\ Images \subseteq Nat /\ Uploads \subseteq {"document", "image", "video"} \X BOOLEAN
    /\ {MaxFiles, MaxResources, MaxPosts} \subseteq Nat \ {0}

VARIABLES
    file,      \* rows of files, with event_files and sub_group_files
    filed,     \* how many ids of files have been given out
    resource,  \* rows of resources
    listed,    \* how many ids of resources
    post,      \* rows of content_pages
    written,   \* how many ids of posts
    objects,   \* what the bucket holds,
    posters,   \*   and the files of whose poster it holds a picture
    openly     \* history: posts an editor last saved for everybody to see

fileVars == <<file, filed>>
bucketVars == <<objects, posters>>
pageVars == <<resource, listed, post, written, openly>>
libraryVars == <<fileVars, bucketVars, pageVars>>

FileIds == 1..MaxFiles
ResourceIds == 1..MaxResources
PostIds == 1..MaxPosts
Links == SUBSET EventIds

\* A key of the bucket: what its last part is made from, and the folder, of
\* documents, of photos or of an event by its date.
DocumentsFolder == 0
PhotosFolder == 1
EventFolder(e) == 2 + event[e].slot
Key == [by : {"none", "upload", "row", "digest"}, in : 0..(Horizon + 2), n : Nat]
MkKey(by, in, n) == [by |-> by, in |-> in, n |-> n]
NoKey == MkKey("none", 0, 0)
Suffixes == {"", "thumb", "banner"}

Kinds == {"none", "document", "image", "video"}
File == [kind : Kinds, photo : BOOLEAN, public : BOOLEAN, key : Key, events : Links,
         groups : SUBSET Groups, poster : BOOLEAN]
Resource == [kind : {"none", "file", "link"}, file : 0..MaxFiles, public : BOOLEAN]
Post == [kind : {"none", "post", "gallery"}, group : Groups \cup {NoGroup}, public : BOOLEAN,
         published : BOOLEAN, photos : SUBSET FileIds]

MkFile(kind, photo, public, key) ==
    [kind |-> kind, photo |-> photo, public |-> public, key |-> key, events |-> {},
     groups |-> {}, poster |-> FALSE]
NoSuchFile == MkFile("none", FALSE, FALSE, NoKey)
MkResource(kind, f, public) == [kind |-> kind, file |-> f, public |-> public]
NoSuchResource == MkResource("none", 0, FALSE)
MkPost(kind, g, public, published, photos) ==
    [kind |-> kind, group |-> g, public |-> public, published |-> published, photos |-> photos]
NoSuchPost == MkPost("none", NoGroup, FALSE, FALSE, {})

Filed(f) == f \in FileIds /\ file[f].kind # "none"
Listed(r) == resource[r].kind # "none"
Written(p) == post[p].kind # "none"
ByStorageKey(k) == {f \in FileIds : Filed(f) /\ file[f].key = k}
Has(k, as) == <<k, as>> \in objects

LibraryTypeOK ==
    /\ file \in [FileIds -> File] /\ filed \in 0..MaxFiles
    /\ \A f, g \in FileIds : Filed(f) /\ Filed(g) /\ file[f].key = file[g].key => f = g
    /\ \A f \in FileIds : file[f].events \subseteq {e \in EventIds : Here(e)}
    /\ resource \in [ResourceIds -> Resource] /\ listed \in 0..MaxResources
    /\ \A r \in ResourceIds : resource[r].kind = "file" => Filed(resource[r].file)
    /\ post \in [PostIds -> Post] /\ written \in 0..MaxPosts
    /\ objects \subseteq Key \X Suffixes /\ posters \subseteq FileIds /\ openly \subseteq PostIds

-----------------------------------------------------------------------------
(* Uploads.                                                                *)

\* Where a file belongs: in the folder of an event it is linked to, of
\* whichever comes first, or of its category (also when no event could be read).
folderFor(photo, links) ==
    {IF photo THEN PhotosFolder ELSE DocumentsFolder} \cup {EventFolder(e) : e \in {l \in links : Here(l)}}

\* A file put in the bucket, with the small picture of it where that works.
Put(k, kind) ==
    \E small \in SUBSET (IF kind = "image" THEN {"thumb"} ELSE {}) :
        objects' = objects \cup {<<k, as>> : as \in {""} \cup small}

Upload(kind, photo, public, key, links, left) ==
    [id |-> made, do |-> "upload", at |-> "putting", kind |-> kind, photo |-> photo, public |-> public,
     key |-> key, links |-> links, left |-> left, ids |-> {}]

\* Some files in one form: each is put under a key of its own and recorded,
\* and at the end all are linked to the form's events.
FileUpload(x, kind, photo, links, n) ==
    /\ CanEdit(x)
    /\ \E in \in folderFor(photo, links) :
          Starts(Upload(kind, photo, FALSE, MkKey("upload", in, 2 * made), links, n))
    /\ UNCHANGED <<calendarVars, libraryVars>>

\* A picture or video for an album's page, one per request, and linked to nothing.
requireGalleryUploader(x) == CanEdit(x)
AdminGalleryUpload(x, kind, public) ==
    /\ requireGalleryUploader(x)
    /\ kind \in {"image", "video"}
    /\ Starts(Upload(kind, TRUE, public, MkKey("upload", PhotosFolder, 2 * made), {}, 1))
    /\ UNCHANGED <<calendarVars, libraryVars>>

storeUpload(t) ==
    /\ Put(t.key, t.kind)
    /\ Goes(t, [t EXCEPT !.at = "recording"])
    /\ UNCHANGED <<calendarVars, fileVars, posters, pageVars>>

\* files.Create: a key is in one row at most, and a second insert of it fails.
Create(t, row) ==
    /\ ByStorageKey(row.key) = {}
    /\ filed < MaxFiles
    /\ filed' = filed + 1
    /\ file' = [file EXCEPT ![filed + 1] = row]

RecordUpload(t) ==
    /\ Create(t, MkFile(t.kind, t.photo, t.public, t.key))
    /\ IF t.left > 1
       THEN Goes(t, [t EXCEPT !.at = "putting", !.left = @ - 1, !.key.n = @ + 1, !.ids = @ \cup {filed + 1}])
       ELSE Goes(t, [t EXCEPT !.at = "linking", !.ids = @ \cup {filed + 1}])
    /\ UNCHANGED <<calendarVars, bucketVars, pageVars>>

Linked(links) == {e \in links : Here(e)}

\* Files one after another, if the form names any event; a file that has been
\* deleted gets no links, and one whose links fail is only logged.
LinkUpload(t, f, ok) ==
    /\ file' = IF ok /\ t.links # {} /\ Filed(f) THEN [file EXCEPT ![f].events = Linked(t.links)] ELSE file
    /\ IF t.ids = {f} THEN Ends(t) ELSE Goes(t, [t EXCEPT !.ids = @ \ {f}])
    /\ UNCHANGED <<calendarVars, filed, bucketVars, pageVars>>

\* A mail's inside picture: put under a key made from its content and recorded
\* once for all mails, for everybody to see.
hostOne(i) ==
    /\ Starts([id |-> made, do |-> "host", at |-> "looking", key |-> MkKey("digest", 0, i)])
    /\ UNCHANGED <<calendarVars, libraryVars>>

LookUpHosted(t) ==
    /\ IF ByStorageKey(t.key) # {} THEN Ends(t) ELSE Goes(t, [t EXCEPT !.at = "putting"])
    /\ UNCHANGED <<calendarVars, libraryVars>>

PutHosted(t) ==
    /\ Put(t.key, "image")
    /\ Goes(t, [t EXCEPT !.at = "recording"])
    /\ UNCHANGED <<calendarVars, fileVars, posters, pageVars>>

RecordHosted(t) ==
    /\ Create(t, MkFile("image", FALSE, TRUE, t.key))
    /\ Ends(t)
    /\ UNCHANGED <<calendarVars, bucketVars, pageVars>>

\* A video's poster: the picture is put first, then the row says it is there.
FilePosterUpload(x, f) ==
    /\ CanEdit(x)
    /\ Filed(f) /\ file[f].kind = "video"
    /\ Starts([id |-> made, do |-> "poster", at |-> "putting", f |-> f])
    /\ UNCHANGED <<calendarVars, libraryVars>>

PutPoster(t) ==
    /\ posters' = posters \cup {t.f}
    /\ Goes(t, [t EXCEPT !.at = "recording"])
    /\ UNCHANGED <<calendarVars, fileVars, objects, pageVars>>

SetPoster(t) ==
    /\ file' = IF Filed(t.f) THEN [file EXCEPT ![t.f].poster = TRUE] ELSE file
    /\ Ends(t)
    /\ UNCHANGED <<calendarVars, filed, bucketVars, pageVars>>

-----------------------------------------------------------------------------
(* A file's deletion and the changes to its row.                           *)

\* The row is read, deleted with what refers to it, and then its objects, under
\* the key that was read, each as far as the bucket lets it.
FileDelete(x, f) ==
    /\ CanEdit(x)
    /\ Filed(f)
    /\ Starts([id |-> made, do |-> "drop", at |-> "row", f |-> f, key |-> file[f].key])
    /\ UNCHANGED <<calendarVars, libraryVars>>

DeleteRow(t) ==
    /\ file' = [file EXCEPT ![t.f] = NoSuchFile]
    /\ resource' = [r \in ResourceIds |-> IF resource[r].kind = "file" /\ resource[r].file = t.f
                                          THEN NoSuchResource ELSE resource[r]]
    /\ Goes(t, [t EXCEPT !.at = "object"])
    /\ UNCHANGED <<calendarVars, filed, bucketVars, listed, post, written, openly>>

DeleteObject(t, ok) ==
    /\ objects' = IF ok THEN objects \ {<<t.key, "">>} ELSE objects
    /\ Goes(t, [t EXCEPT !.at = "thumb"])
    /\ UNCHANGED <<calendarVars, fileVars, posters, pageVars>>

DeleteThumb(t, ok) ==
    /\ objects' = IF ok THEN objects \ {<<t.key, "thumb">>} ELSE objects
    /\ Goes(t, [t EXCEPT !.at = "poster"])
    /\ UNCHANGED <<calendarVars, fileVars, posters, pageVars>>

DeletePoster(t, ok) ==
    /\ posters' = IF ok THEN posters \ {t.f} ELSE posters
    /\ Ends(t)
    /\ UNCHANGED <<calendarVars, fileVars, objects, pageVars>>

\* The requests that read a flag and store its opposite: of a file or resource
\* whether everybody may see it, of a post whether it is published.
Flip(x, what, n, to) ==
    /\ CanEdit(x)
    /\ Starts([id |-> made, do |-> "flip", at |-> what, n |-> n, to |-> to])
    /\ UNCHANGED <<calendarVars, libraryVars>>
FileSetPublic(x, f) == Filed(f) /\ Flip(x, "file", f, ~file[f].public)
ResourceSetPublic(x, r) == Listed(r) /\ Flip(x, "resource", r, ~resource[r].public)
adminContentPublishToggle(x, p) == Written(p) /\ Flip(x, "post", p, ~post[p].published)

SetFlag(t) ==
    /\ CASE t.at = "file" ->
              /\ file' = IF Filed(t.n) THEN [file EXCEPT ![t.n].public = t.to] ELSE file
              /\ UNCHANGED <<resource, post>>
         [] t.at = "resource" ->
              /\ resource' = IF Listed(t.n) THEN [resource EXCEPT ![t.n].public = t.to] ELSE resource
              /\ UNCHANGED <<file, post>>
         [] t.at = "post" ->
              /\ post' = IF Written(t.n) THEN [post EXCEPT ![t.n].published = t.to] ELSE post
              /\ UNCHANGED <<file, resource>>
    /\ Ends(t)
    /\ UNCHANGED <<calendarVars, filed, bucketVars, listed, written, openly>>

\* One change of some rows of files, which become row.
ChangesFiles(x, fs, row) ==
    /\ CanEdit(x)
    /\ file' = [f \in FileIds |-> IF f \in fs /\ Filed(f) THEN row[f] ELSE file[f]]
    /\ AtOnce
    /\ UNCHANGED <<calendarVars, filed, bucketVars, pageVars>>

FileSetCategory(x, f, photo) ==
    Filed(f) /\ ChangesFiles(x, {f}, [g \in FileIds |-> [file[g] EXCEPT !.photo = photo]])
FileSetEventLinks(x, f, links) ==
    Filed(f) /\ ChangesFiles(x, {f}, [g \in FileIds |-> [file[g] EXCEPT !.events = Linked(links)]])
SetPublicMany(x, fs, public) ==
    ChangesFiles(x, fs, [g \in FileIds |-> [file[g] EXCEPT !.public = public]])
LinkEventMany(x, fs, e, replace) ==
    /\ Here(e)
    /\ ChangesFiles(x, fs, [g \in FileIds |->
                               [file[g] EXCEPT !.events = (IF replace THEN {} ELSE @) \cup {e}]])
UnlinkEventsMany(x, fs) == ChangesFiles(x, fs, [g \in FileIds |-> [file[g] EXCEPT !.events = {}]])

FileBulkUpdate(x, fs) ==
    \/ \E public \in BOOLEAN : SetPublicMany(x, fs, public)
    \/ \E e \in EventIds, replace \in BOOLEAN : LinkEventMany(x, fs, e, replace)
    \/ UnlinkEventsMany(x, fs)

CanManageSubGroup(x, g) == x \in Managers[g] \cap member

\* A group's photos are these and no others.
SetSubGroupLinks(g, fs) ==
    /\ file' = [f \in FileIds |->
                  IF Filed(f) THEN [file[f] EXCEPT !.groups = IF f \in fs THEN @ \cup {g} ELSE @ \ {g}]
                  ELSE file[f]]
    /\ AtOnce
    /\ UNCHANGED <<calendarVars, filed, bucketVars, pageVars>>
AdminGroupSetPhotos(x, g, fs) == CanManageSubGroup(x, g) /\ SetSubGroupLinks(g, fs)

-----------------------------------------------------------------------------
(* Smaller pictures, made when they are asked for.                         *)

servableFile(x, f) == Filed(f) /\ (file[f].public \/ x \in member)

\* The picture is cached unless it is there, if its original can be read.
serveImageVariant(x, f, as) ==
    /\ servableFile(x, f)
    /\ file[f].kind = "image"
    /\ ~Has(file[f].key, as) /\ Has(file[f].key, "")
    /\ Starts([id |-> made, do |-> "variant", at |-> "caching", key |-> file[f].key, as |-> as])
    /\ UNCHANGED <<calendarVars, libraryVars>>

BackfillThumbnails ==
    /\ Starts([id |-> made, do |-> "backfill", at |-> "reading", key |-> NoKey,
                           keys |-> {file[f].key : f \in {g \in FileIds : file[g].kind = "image"}}])
    /\ UNCHANGED <<calendarVars, libraryVars>>

ReadOriginal(t, k) ==
    /\ IF ~Has(k, "thumb") /\ Has(k, "")
       THEN Goes(t, [t EXCEPT !.at = "caching", !.keys = @ \ {k}, !.key = k])
       ELSE Goes(t, [t EXCEPT !.keys = @ \ {k}])
    /\ UNCHANGED <<calendarVars, libraryVars>>

fetchAndCacheVariant(t, as, ok) ==
    /\ objects' = IF ok THEN objects \cup {<<t.key, as>>} ELSE objects
    /\ IF t.do = "variant" THEN Ends(t) ELSE Goes(t, [t EXCEPT !.at = "reading", !.key = NoKey])
    /\ UNCHANGED <<calendarVars, fileVars, posters, pageVars>>

-----------------------------------------------------------------------------
(* Re-keying: every file to the folder an upload of it would land in today. *)

\* It lists the rows once; nothing keeps a second run from starting meanwhile.
RekeyFiles ==
    /\ Starts([id |-> made, do |-> "rekey", at |-> "picking", f |-> 0, from |-> NoKey, want |-> NoKey,
                        thumb |-> FALSE,
                        rows |-> {<<f, file[f].photo, file[f].key>> : f \in {g \in FileIds : Filed(g)}}])
    /\ UNCHANGED <<calendarVars, libraryVars>>

\* The next file: left alone where it belongs already, has no object, or its
\* links cannot be read.
PickFile(t, row) ==
    LET next == [t EXCEPT !.rows = @ \ {row}] IN
    /\ \/ Goes(t, next)
       \/ \E in \in folderFor(row[2], IF Filed(row[1]) THEN file[row[1]].events ELSE {}) :
             LET want == MkKey("row", in, row[1]) IN
             /\ row[3] # want
             /\ Has(row[3], "")
             /\ Goes(t, [next EXCEPT !.at = "copying", !.f = row[1], !.from = row[3], !.want = want])
    /\ UNCHANGED <<calendarVars, libraryVars>>

\* A file that cannot be moved is skipped.
GiveUp(t) == Goes(t, [t EXCEPT !.at = "picking", !.f = 0, !.from = NoKey, !.want = NoKey, !.thumb = FALSE])

\* The copy may fail, and may say otherwise either way.
CopyObject(t, done, claims) ==
    /\ done => Has(t.from, "")
    /\ objects' = IF done THEN objects \cup {<<t.want, "">>} ELSE objects
    /\ IF claims THEN Goes(t, [t EXCEPT !.at = "verifying"]) ELSE GiveUp(t)
    /\ UNCHANGED <<calendarVars, fileVars, posters, pageVars>>

\* A bug: the copy trusted.
TrustCopy(t) ==
    /\ Goes(t, [t EXCEPT !.at = "thumb"])
    /\ UNCHANGED <<calendarVars, libraryVars>>

VerifyCopy(t) ==
    /\ IF Has(t.want, "") THEN Goes(t, [t EXCEPT !.at = "thumb"]) ELSE GiveUp(t)
    /\ UNCHANGED <<calendarVars, libraryVars>>

CopyThumb(t, ok) ==
    LET moved == ok /\ Has(t.from, "thumb") IN
    /\ objects' = IF moved THEN objects \cup {<<t.want, "thumb">>} ELSE objects
    /\ Goes(t, [t EXCEPT !.at = "pointing", !.thumb = moved])
    /\ UNCHANGED <<calendarVars, fileVars, posters, pageVars>>

SetStorageKey(t) ==
    /\ file' = IF Filed(t.f) THEN [file EXCEPT ![t.f].key = t.want] ELSE file
    /\ Goes(t, [t EXCEPT !.at = "clearing"])
    /\ UNCHANGED <<calendarVars, filed, bucketVars, pageVars>>

DeleteOldObject(t, ok) ==
    /\ objects' = IF ok THEN objects \ {<<t.from, "">>} ELSE objects
    /\ IF t.thumb THEN Goes(t, [t EXCEPT !.at = "unthumbing"]) ELSE GiveUp(t)
    /\ UNCHANGED <<calendarVars, fileVars, posters, pageVars>>

DeleteOldThumb(t, ok) ==
    /\ objects' = IF ok THEN objects \ {<<t.from, "thumb">>} ELSE objects
    /\ GiveUp(t)
    /\ UNCHANGED <<calendarVars, fileVars, posters, pageVars>>

\* Nothing that was listed is left.
RunDone(t, rest) ==
    /\ rest = {}
    /\ Ends(t)
    /\ UNCHANGED <<calendarVars, libraryVars>>

\* Repointing the row or a copy of the bucket fails: this file is skipped.
RekeyFails(t) ==
    /\ GiveUp(t)
    /\ UNCHANGED <<calendarVars, libraryVars>>

-----------------------------------------------------------------------------
(* Resources, posts and albums.                                            *)

AddResource(x, row) ==
    /\ CanEdit(x)
    /\ listed < MaxResources
    /\ listed' = listed + 1
    /\ resource' = [resource EXCEPT ![listed + 1] = row]
    /\ UNCHANGED <<calendarVars, fileVars, bucketVars, post, written, openly>>

\* A document of the library, or a link.
CreateFile(x, f, public) ==
    /\ Filed(f) /\ file[f].kind = "document"
    /\ AddResource(x, MkResource("file", f, public))
    /\ AtOnce
CreateLink(x, public) == AddResource(x, MkResource("link", 0, public)) /\ AtOnce

ResourceDelete(x, r) ==
    /\ CanEdit(x)
    /\ Listed(r)
    /\ resource' = [resource EXCEPT ![r] = NoSuchResource]
    /\ AtOnce
    /\ UNCHANGED <<calendarVars, fileVars, bucketVars, listed, post, written, openly>>

ResourceHideUnderlyingFile(x, r) ==
    /\ resource[r].kind = "file"
    /\ ChangesFiles(x, {resource[r].file},
                    [g \in FileIds |-> [file[g] EXCEPT !.public = FALSE]])

CreatePost(row) ==
    /\ written < MaxPosts
    /\ written' = written + 1
    /\ post' = [post EXCEPT ![written + 1] = row]

\* The pictures and films an editor's form offers for an album, hidden ones too.
listMediaGroupedByEvent == {f \in FileIds : Filed(f) /\ file[f].kind \in {"image", "video"}}
adminContentForm(x) == IF requireContentEditor(x) THEN listMediaGroupedByEvent ELSE {}

Opens(p, public) == IF public THEN openly \cup {p} ELSE openly \ {p}

\* A draft of news or of an album.
adminContentCreate(x, kind, public, photos) ==
    /\ requireContentEditor(x)
    /\ CreatePost(MkPost(kind, NoGroup, public, FALSE, photos))
    /\ openly' = Opens(written + 1, public)
    /\ AtOnce
    /\ UNCHANGED <<calendarVars, fileVars, bucketVars, resource, listed>>

\* The status stays; a group's post is reached like the unit's.
adminContentUpdate(x, p, public, photos) ==
    /\ requireContentEditor(x)
    /\ Written(p)
    /\ post' = [post EXCEPT ![p].public = public, ![p].photos = photos]
    /\ openly' = Opens(p, public)
    /\ AtOnce
    /\ UNCHANGED <<calendarVars, fileVars, bucketVars, resource, listed, written>>

requireContentDeleter(x) == x \in Admins \cap member
DeletePost(p) ==
    /\ Written(p)
    /\ post' = [post EXCEPT ![p] = NoSuchPost]
    /\ AtOnce
    /\ UNCHANGED <<calendarVars, fileVars, bucketVars, resource, listed, written, openly>>
\* Albums are not deleted, only unpublished.
adminContentDelete(x, p) == requireContentDeleter(x) /\ post[p].kind = "post" /\ DeletePost(p)

\* A group's news, for members: a draft, then published.
publishGroupPost(g) ==
    /\ CreatePost(MkPost("post", g, FALSE, FALSE, {}))
    /\ Starts([id |-> made, do |-> "flip", at |-> "post", n |-> written + 1, to |-> TRUE])
    /\ UNCHANGED <<calendarVars, fileVars, bucketVars, resource, listed, openly>>

AdminGroupCreateNews(x, g) == CanManageSubGroup(x, g) /\ publishGroupPost(g)

AdminGroupDeleteNews(x, g, p) ==
    /\ CanManageSubGroup(x, g)
    /\ Written(p) /\ post[p].group = g
    /\ post' = [post EXCEPT ![p].published = FALSE]
    /\ AtOnce
    /\ UNCHANGED <<calendarVars, fileVars, bucketVars, resource, listed, written, openly>>

-----------------------------------------------------------------------------
(* What is shown.                                                          *)

ListPublishedForUnit(kind) ==
    {p \in PostIds : post[p].kind = kind /\ post[p].published /\ post[p].group = NoGroup}
ListPublishedPublicForUnit(kind) == {p \in ListPublishedForUnit(kind) : post[p].public}
ListPublishedForSubGroup(g) ==
    {p \in PostIds : post[p].kind = "post" /\ post[p].published /\ post[p].group = g}

publicContentList(x, kind) ==
    IF x = NoLogin THEN ListPublishedPublicForUnit(kind) ELSE ListPublishedForUnit(kind)
publicContentView(x, p) == Written(p) /\ post[p].published /\ (post[p].public \/ x # NoLogin)

PublicFileIDSet(fs) == {f \in fs : Filed(f) /\ file[f].public}

\* The photos of an album, and of those on the front page.
filterViewableGalleryPhotos(x, photos) ==
    IF x = NoLogin THEN PublicFileIDSet(photos) ELSE photos
galleryDetail(x, p) ==
    IF post[p].kind = "gallery" /\ publicContentView(x, p)
    THEN filterViewableGalleryPhotos(x, post[p].photos) ELSE {}
HomePhotos(x) ==
    UNION {filterViewableGalleryPhotos(x, post[p].photos) : p \in ListPublishedPublicForUnit("gallery")}

HomeNews(x) == IF x = NoLogin THEN ListPublishedPublicForUnit("post") ELSE ListPublishedForUnit("post")
\* What an editor chooses from, drafts included.
ListAllPosts(kind) == {p \in PostIds : post[p].kind = kind /\ post[p].group = NoGroup}
adminContentList(x, kind) == IF requireContentEditor(x) THEN ListAllPosts(kind) ELSE {}

\* A group's page is for the unit's members.
GroupNews(x, g) == IF x \in member THEN ListPublishedForSubGroup(g) ELSE {}
ListForSubGroup(g) == {f \in FileIds : Filed(f) /\ g \in file[f].groups}
GroupPhotos(x, g) == IF x \in member THEN ListForSubGroup(g) ELSE {}

\* The library: each file under its events and, unless some are asked for,
\* under none.
ListForUnitGroupedByEvents(es) == {l \in es \X FileIds : Filed(l[2]) /\ l[1] \in file[l[2]].events}
ListForUnitGroupedByEventAuto ==
    ListForUnitGroupedByEvents(EventIds) \cup
    {<<NoEvent, f>> : f \in {g \in FileIds : Filed(g) /\ file[g].events = {}}}
FileLibrary(x, es) ==
    IF x = NoLogin THEN {} ELSE IF es # {} THEN ListForUnitGroupedByEvents(es) ELSE ListForUnitGroupedByEventAuto

\* A video's poster, to whoever may see the video.
FilePoster(x, f) == servableFile(x, f) /\ file[f].poster /\ f \in posters

ResourcesList(x) == {r \in ResourceIds : Listed(r) /\ (resource[r].public \/ x \in member)}
ResourceDownload(x, r) ==
    /\ resource[r].kind = "file"
    /\ resource[r].public \/ x # NoLogin
    /\ Filed(resource[r].file) /\ Has(file[resource[r].file].key, "")

-----------------------------------------------------------------------------

\* The next statement of what is under way.
UploadStep(t) ==
    \/ t.at = "putting" /\ storeUpload(t)
    \/ t.at = "recording" /\ RecordUpload(t)
    \/ t.at = "linking" /\ \E f \in t.ids, ok \in BOOLEAN : LinkUpload(t, f, ok)
HostStep(t) ==
    \/ t.at = "looking" /\ LookUpHosted(t)
    \/ t.at = "putting" /\ PutHosted(t)
    \/ t.at = "recording" /\ RecordHosted(t)
PosterStep(t) ==
    \/ t.at = "putting" /\ PutPoster(t)
    \/ t.at = "recording" /\ SetPoster(t)
DropStep(t) ==
    \/ t.at = "row" /\ DeleteRow(t)
    \/ t.at = "object" /\ \E ok \in BOOLEAN : DeleteObject(t, ok)
    \/ t.at = "thumb" /\ \E ok \in BOOLEAN : DeleteThumb(t, ok)
    \/ t.at = "poster" /\ \E ok \in BOOLEAN : DeletePoster(t, ok)
BackfillStep(t) ==
    \/ t.at = "reading" /\ \E k \in t.keys : ReadOriginal(t, k)
    \/ t.at = "reading" /\ RunDone(t, t.keys)
    \/ t.at = "caching" /\ \E ok \in BOOLEAN : fetchAndCacheVariant(t, "thumb", ok)
RekeyStep(t) ==
    \/ t.at = "picking" /\ \E row \in t.rows : PickFile(t, row)
    \/ t.at = "picking" /\ RunDone(t, t.rows)
    \/ t.at = "copying" /\ \E done, claims \in BOOLEAN : CopyObject(t, done, claims)
    \/ t.at = "verifying" /\ VerifyCopy(t)
    \/ t.at = "thumb" /\ \E ok \in BOOLEAN : CopyThumb(t, ok)
    \/ t.at = "pointing" /\ SetStorageKey(t)
    \/ t.at = "pointing" /\ RekeyFails(t)
    \/ t.at = "clearing" /\ \E ok \in BOOLEAN : DeleteOldObject(t, ok)
    \/ t.at = "unthumbing" /\ \E ok \in BOOLEAN : DeleteOldThumb(t, ok)

LibraryStep(t) ==
    \/ t.do = "upload" /\ UploadStep(t)
    \/ t.do = "host" /\ HostStep(t)
    \/ t.do = "poster" /\ PosterStep(t)
    \/ t.do = "drop" /\ DropStep(t)
    \/ t.do = "flip" /\ SetFlag(t)
    \/ t.do = "variant" /\ \E ok \in BOOLEAN : fetchAndCacheVariant(t, t.as, ok)
    \/ t.do = "backfill" /\ BackfillStep(t)
    \/ t.do = "rekey" /\ RekeyStep(t)

LibraryRequest ==
    \/ Asked("upload") /\ \E x \in Logins, what \in Uploads, links \in SUBSET (1..spent), n \in 1..2 :
                              FileUpload(x, what[1], what[2], links, n)
    \/ Asked("picture") /\ \E x \in Logins, kind \in Kinds, public \in BOOLEAN : AdminGalleryUpload(x, kind, public)
    \/ Asked("host") /\ \E i \in Images : hostOne(i)
    \/ Asked("poster") /\ \E x \in Logins, f \in FileIds : FilePosterUpload(x, f)
    \/ Asked("drop") /\ \E x \in Logins, f \in FileIds : FileDelete(x, f)
    \/ Asked("flip") /\ \E x \in Logins, f \in FileIds : FileSetPublic(x, f)
    \/ Asked("flip") /\ \E x \in Logins, r \in ResourceIds : ResourceSetPublic(x, r)
    \/ Asked("flip") /\ \E x \in Logins, p \in PostIds : adminContentPublishToggle(x, p)
    \/ Asked("category") /\ \E x \in Logins, f \in FileIds, photo \in BOOLEAN : FileSetCategory(x, f, photo)
    \/ Asked("link") /\ \E x \in Logins, f \in FileIds, links \in SUBSET (1..spent) : FileSetEventLinks(x, f, links)
    \/ Asked("bulk") /\ \E x \in Logins, fs \in SUBSET FileIds : FileBulkUpdate(x, fs)
    \/ Asked("photos") /\ \E x \in Logins, g \in Groups, fs \in SUBSET FileIds : AdminGroupSetPhotos(x, g, fs)
    \/ Asked("variant") /\ \E x \in Logins \cup {NoLogin}, f \in FileIds, as \in {"thumb", "banner"} :
                               serveImageVariant(x, f, as)
    \/ Asked("backfill") /\ BackfillThumbnails
    \/ Asked("rekey") /\ RekeyFiles
    \/ Asked("resource") /\ \E x \in Logins, f \in FileIds, public \in BOOLEAN : CreateFile(x, f, public)
    \/ Asked("resource") /\ \E x \in Logins, public \in BOOLEAN : CreateLink(x, public)
    \/ Asked("resource") /\ \E x \in Logins, r \in ResourceIds : ResourceDelete(x, r)
    \/ Asked("hide") /\ \E x \in Logins, r \in ResourceIds : ResourceHideUnderlyingFile(x, r)
    \/ Asked("write") /\ \E x \in Logins, kind \in {"post", "gallery"}, public \in BOOLEAN :
                             \E photos \in SUBSET adminContentForm(x) : adminContentCreate(x, kind, public, photos)
    \/ Asked("edit") /\ \E x \in Logins, p \in PostIds, public \in BOOLEAN : \E photos \in SUBSET adminContentForm(x) :
                            adminContentUpdate(x, p, public, photos)
    \/ Asked("erase") /\ \E x \in Logins, p \in PostIds : adminContentDelete(x, p)
    \/ Asked("news") /\ \E x \in Logins, g \in Groups : AdminGroupCreateNews(x, g)
    \/ Asked("unnews") /\ \E x \in Logins, g \in Groups, p \in PostIds : AdminGroupDeleteNews(x, g, p)

=============================================================================
