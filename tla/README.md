# A formal model of scout-site

scout-site is one Go binary in front of one Postgres database: a website for
Scout units with their calendar, roster, mail, files and money. This directory
holds TLA+ models of its logic, the TLC configurations that check them on small
instances and TLAPS proofs of their most important properties.

Every definition is read off the Go and SQL sources; `PROJECT.json` ("map")
names the lines of each.

## How the program runs, and what that means for a model

* Every HTTP request is a goroutine of its own. Nothing in memory is shared
  between requests but the rate limiters; all state is in Postgres (and objects
  in a bucket). Reminders, feed refreshes and re-keying are commands that run
  next to the server on the same tables.
* The connection pool gives each statement its own transaction at READ
  COMMITTED, unless the code opens one. So the models' unit of atomicity is
  **one SQL statement, or one `pool.Begin` ... `Commit` block**, and a handler
  that reads in one statement and writes in another is a process with a program
  counter and a record of what it has read (`job`, `request`, a member of
  `tasks`).
* Where two neighbouring statements are merged into one action, the comment of
  the action says why no other step between them could be told apart.
* A handler may stop after any statement: the process is killed, the client
  goes away (the request's context is cancelled) or a statement fails. This is
  the action `Abandon` (`Ends` in `Roster`). Nothing resumes a handler.

## Inventory

| Component | State it keeps | Operations | What is hard | What makes it correct |
|---|---|---|---|---|
| Ledger (`internal/ledger/ledger.go`, Treasury pages) | accounts, transactions, postings | deposit, expense, adjustment, reversal, push transfer, trip funds | checks and writes in different statements; reversal raced; account closed under a posting | posted entries immutable, one reversal, no overdraft by approval |
| Approval (`internal/approval`) | approval_requests | submit, decide by three routes, for entries and for events | request and entry move together; decided days later | agreement with the books, decided once, by the right person |
| Storefront orders (`internal/ledger/fundraiser_storefront.go`) | orders, allocations | place, mark paid, resolve Scout, cancel, credit | whichever of two events comes second credits; five statements, no transaction | never credited unpaid, never lost, once |
| Reconciliation (`internal/ledger/reconciliation.go`) | reconciliations, the stamp on postings | start, tick, complete, delete | tick against sign-off, two starts, delete against sign-off | signed off is balanced and final, ticks belong to their account |
| Newsletters, emailed posts, campaigns (`internal/newsletter`, `internal/prospect/campaign.go`) | status, recipients | draft, claim, send in background, re-claim when abandoned | double claim, crash half way, opt-out meanwhile | everybody once, nobody who opted out |
| Mailer (`internal/mailer`) | pacing of a send | send, one retry after a refusal for rate | retry of what may have been delivered | no second copy of what was accepted |
| Sign-in and second factor (`internal/auth`, `internal/twofactor`) | passwords, failures, half-finished sign-ins, reset links, factors, backup codes, sessions | sign in, change, reset, second step, enrol, disable, keys | a chain of requests over rows and cookies; two answers at once; settings changed from two windows | no step skipped, one session per sign-in, bounded guesses, codes as long as a factor |
| Rate limiters (`internal/ratelimit`) | counters in memory | allow, blocked | requests let in together | bounded rate |
| Roster, roles (`internal/roster`, `internal/units`, `internal/family`) | members, households, role assignments, what roles grant, sub-groups | add, assign, import, deactivate, delete, show passwords, edit roles | checks of the actor, of the place and of the target made one after another, while roles change | nobody climbs, Admins are safe, a den leader stays in the den, lists agree with checks |
| Calendar and feeds (`internal/calendar`) | events, RSVPs, feeds, conflicts, rulings, feed tokens | create, edit, submit, decide, delete, refresh, rule | a long refresh on early reads against leaders' decisions | only vetted events shown, a mirror of the feed, rulings stick |
| Reminders (`internal/reminders`) | event_reminders_sent | scheduled run | mail, then row | once per event and login |
| Files (`internal/files`, `internal/storage`, upload and re-keying of `internal/web`) | rows and objects | upload, link, variants, delete, re-key, host mail pictures | two stores, no common transaction | a row names an object that exists |
| Posts and resources (`internal/content`, `internal/resources`) | posts, albums, resources | write, publish, share with a group, delete | each page asks its own question of the same rows | what one page lists the next one opens, and to nobody else |
| Prospects (`internal/prospect`) | enquiries, labels, consent | form, hand, paste, auto-reply, move, sweep, labels, unsubscribe | labels retired under a move, lists pasted twice | filed where offered, no family doubled, consent kept |
| Settings (`internal/settings`) | key-value rows | toggle | - | - |
| Start-up (`internal/db`, `internal/bootstrap`) | schema version | migrate under an advisory lock | two servers start at once | each migration once |
| Leaders, advancement, audit, reports, HTTP plumbing | rows, pages | edits of single rows | little | - |

The components interact through the database and by plain calls: the Treasury
pages call the ledger, which calls the approval workflow for pending entries,
and the calendar calls it for events written by those who may not publish;
orders credit Scouts by posting to the ledger; a reconciliation stamps the
ledger's postings; posts, resources, events and mails name files; the campaign
and newsletter senders and the reminders use the mailer; nearly every handler
asks the roster what the login may do.

## Modules

| Module | What it models |
|---|---|
| `Ledger` | the books, the approval requests and every route that decides one |
| `LedgerProofs` | its theorems |
| `MCLedger` + `MCLedger.cfg`, `MCLedgerClosed.cfg`, `MCLedgerExpense.cfg` | its instance for TLC |
| `Orders`, `OrdersProofs`, `MCOrders` + `MCOrders.cfg`, `MCOrdersTwice.cfg` | storefront orders |
| `Reconciliation`, `ReconciliationProofs`, `MCReconciliation` + `MCReconciliation.cfg`, `MCReconciliationRace.cfg` | bank reconciliation |
| `BulkMail` | the promise of a bulk mailing, whatever carries it |
| `BulkSend`, `BulkSendProofs`, `MCBulkSend` + `MCBulkSend.cfg`, `MCBulkSendTwice.cfg` | newsletters, emailed posts and campaigns: drafts, claims, the background send |
| `SignIn`, `SignInProofs`, `MCSignIn` + `MCSignIn.cfg` | signing in, passwords, second factors and sessions |
| `Roster`, `RosterProofs`, `MCRoster` + `MCRoster.cfg` | families, members, roles and what they may do |
| `Calendar` | events and their approval, RSVPs, imported calendars, reminders |
| `Library` (extends `Calendar`) | files and the bucket, resources, posts and albums |
| `Prospects` (extends `Library`) | enquiries, labels and consent |
| `Site` (extends `Prospects`), `MCSite` + `MCSite.cfg` | the three of them over one database, and their properties |
| `SiteProofs` | the inductive invariant of `Site` and the theorems that follow from it |
| `FilesProofs` (extends `SiteProofs`) | its theorem about files and the bucket |

### Ledger

`account`, `entry`, `status`, `request` and `linked` are the columns of
`ledger_accounts`, `ledger_transactions` (with its two postings: from, to and
amount) and `approval_requests`; `decidedBy` keeps the route and the member of
a decision; `job` is what each handler in flight holds. Writing an entry is
`insertTransaction`: its status check (`Validates`), then the INSERTs and their
COMMIT (`Insert`, or `InsertRefused` by the index of migration 0038), then,
for a pending entry, `Submit` and `Link`, each a commit of its own.
`approval.Decide` is one action behind three handlers, because it is one
database transaction which locks the debited accounts: a posting or a close of
one of them waits for the lock (the foreign key of a posting takes a share
lock on the account row).

### Orders

`order` is a row of `fundraiser_orders`, `rule` the fundraiser's allocation
rule, `credit[r]` and `allocated` what request r has written to the ledger and
to `fundraiser_allocations`. `creditOrderIfReady` is five steps: `CheckOrder`,
`PostCredit` or `CreditRefused`, `RecordAllocation`, `MarkCredited`. `failed`
is a history variable: the orders on which a request stopped.

### Reconciliation

`rec` and `clearedIn` are `bank_reconciliations` and
`ledger_postings.reconciliation_id`; `posted` says which postings count (the
ledger's business); `signed` orders the sign-offs by `completed_at`.
`overtaken` is a history variable: reconciliations that a tick reached after
their difference had been computed.

### BulkSend

`row` is a row of `newsletters` or `prospect_campaigns` (`kind` says which),
`recorded` the two recipient tables, `click` a request to send and then the
goroutine it leaves behind, `copies` what has reached each mailbox, which only
the model can see. `PressSend`, `PressSendCampaign` are the reads of
`BeginSend` and `BeginSendCampaign`, `Claim` their UPDATE; `StartPostEmail`
inserts a row already claimed. `Mail` is one `SendHTMLPaced` with its retry,
`Record` the recipient's row, `Finish` the last UPDATE; `Crash` and `TimeOut`
end the goroutine at any point. Enquiries and the roster are edited all the
time by others, so each read of them may find any contents; what is modelled
in full is the query on them, `RecipientsForStatuses`. Time is in ticks of ten
minutes: `SendTimeout = 3` (30 minutes), `AbandonedSendAge = 4` (40 minutes).
`click[c].barred` is a history variable: the addresses that had opted out when
Send was pressed.

`BulkMail` is the abstract specification: a letter is written until somebody
starts to send it, no send claims what is sent, and one send puts one copy in a
mailbox. `BulkSend!PromiseKept` is that specification under the mapping of
statuses, letters and claims. It deliberately allows two claims of one mailing,
since the code does; `TwoClicksOneSend` is what its comments say instead.

### SignIn

`user`, `failures`, `asked`, `pending`, `token`, `app`, `keys`, `codes`,
`challenge` and `session` are the tables of `internal/auth`, reduced to what
they decide: whose choice a password is, how many failures are inside the
window, which half-finished sign-in is whose, whether there is a batch of
backup codes and what of it is unused. `tries` is the limiter in memory.
`request[r]` is a handler in flight, and its `at` names the statement that comes
next: `LoginSubmit`, `Authenticate` or `RecordLoginFailure`, `completeLogin`
and `startSession` are one login; `VerifyPendingTwoFactorLogin` holds the row
lock of the half-finished sign-in until `RedeemBackupCode`, `CountWrongCode` or
`SpendPendingLogin` ends its transaction (`Locked`), whereas the answer by
security key takes no lock and is settled by a DELETE that returns a row or
does not. A settings transaction is split where it has read what another
settings transaction may change. Everything with an expiry may expire at any
moment (`Time`). A request brings the right password or a wrong one, a right
code or a wrong one: hashing and TOTP are external.
`opened`, `stale` and `request[r].guarded` are history variables.

### Roster

`member`, `rows`, `custom`, `overrides`, `subgroup`, `folded`, `address` and
`login` are `members`, `role_assignments`, `custom_roles`,
`role_capability_overrides`, `sub_groups` with its archive flag, the
household's address and the two kinds of login. A request first reads what its
login may do (`requireRosterEditor`, `requireFamilyAdult`,
`requireSuperAdminForRoles`), then its dens (`rosterScope`), then whether it may
manage the target (`ManageMember`), then the ceiling
(`requireMemberCeiling`, `requireRoleCeiling`), and only then writes, and each
of these reads is a step of its own. `capabilitiesFor`, `Covers`,
`AllowedRoles`, `RoleCapabilities` are the permission checks as the Go code
makes them; `MembersWithCapability`, `DirectoryForUnit`, `RosterForUnit` and
the other listings are what the SQL of the pages returns. `start`, `ruled`,
`led` and `imported` are history variables: they say from when on a promise
ends because somebody entitled to break it has acted.

### Calendar, Library, Prospects and Site

A request, a scheduled run or a command is a record in `tasks`: what it does,
where it is and what it has read. `CalendarStep`, `LibraryStep` and
`ProspectStep` take each task one statement further, `Abandon` ends it.
Dates are slots, and two events clash when they share one.

* `Calendar`: `event` (a row of `events` with its feed and uid), `approval`,
  `rsvp`, `feed`, `conflicts`, `ignored`, `tokens` and `reminded` are tables;
  `offered` is what the other site currently serves. `Refresh` starts the
  task `refresh`: the fetch, the early reads of events and rulings, then one
  entry at a time, then the clearing of conflicts, then the removal of what is
  no longer offered. `ResolveConflict`, `Decide` and the reminders' run are
  tasks too.
* `Library`: `file`, `resource`, `post` are tables, `objects` and `posters`
  what the bucket holds. A put, a copy or a delete there may fail without the
  row's statement failing, and the other way about. Uploading, dropping,
  re-keying, hosting a mail's picture and the variants are tasks. The pages
  (`FileLibrary`, `servableFile`, `publicContentList`, ...) are operators: who
  sees what is computed as the handlers do.
* `Prospects`: `label`, `enquiry`, `setting` are tables, `joins` the limiter of
  the public form. A label's value is the name it was made under and which of
  that name it was, as the code derives one from the other.
* `Site` composes them: `Next` interleaves all tasks, `LinksFollow` is the ON
  DELETE CASCADE of `event_files`, and `Watch` maintains the two history
  variables, `disturbed` and `crossed`, by which properties name the overlaps
  they do not speak of. It is the module of the properties, because they relate
  what one component keeps to what another shows.

## Runs

| Run | Question | Answer |
|---|---|---|
| `ledger` | do requests and entries agree, is a reversal unique, is history immutable, can an approval overdraw, with two handlers in flight? | holds |
| `ledger_closed` | "Once closed, insertTransaction's status check rejects any further posting to the account" (ledger.go:386) | violated: an approval posts into a trip fund closed while the transfer was pending |
| `ledger_expense` | "one person shouldn't be able to both spend the money and be the only one who approved it" (ledger.go:601) | violated: the transfer route decides expenses too, for their own author |
| `orders` | no phantom balance, no unrecorded credit, no lost trigger, credits final, ready orders settle | holds |
| `orders_twice` | "A no-op [...] if it [...] was already credited" (fundraiser_storefront.go:399) | violated: two requests credit one order |
| `reconciliation` | ticks where they belong, none stolen, sign-off final and balanced but for a tick in flight | holds |
| `reconciliation_race` | "cannot be marked complete until that difference is exactly zero" (reconciliation.go:29) | violated by a tick in flight |
| `bulk_send` | honest record, frozen letter, opt-outs, no re-claim of a live send, no mailing stuck, `BulkMail` implemented | holds |
| `bulk_send_twice` | "two clicks on Send must not produce two sends either" (campaign.go:321) | violated: both read a draft, both claim it |
| `sign_in` | is no step skipped, does a half-finished sign-in become one session at most, are guesses bounded, does who must take the second step have codes? | holds |
| `roster` | can forms and imports, interleaved with changes to roles, make anybody more than the unit's leaders were, touch an Admin, reach beyond a den; do lists and checks agree? | holds |
| `site` | are only vetted things shown, and to whom they may be; does a calendar mirror its feed; do rulings hold; are reminders sent once; do rows have their objects; are enquiries filed where offered? | holds |

The violating runs of the ledger need one handler only: they are sequences of
legal steps, not races. Those of the orders, reconciliations and
mailings are races.

### Bounds

* `MCLedger`: two handlers, three people (a Treasurer, an approving leader, a
  family), one Scout, one trip fund, `MaxTx = 3` entries of 2 cents, threshold
  1. Three entries are enough to fund an account, commit its balance to one
  pending entry and spend it by another, which is the shape of every overdraft;
  two handlers are enough for every pairwise race. One amount is enough because
  the code only compares a balance with an amount.
* `MCOrders`: one order (orders do not share state), three requests - two that
  race and one that comes after - two Scouts, rules that credit something,
  round to nothing, and exceed the total.
* `MCReconciliation`: two rows on two accounts, three postings of both signs,
  two statements. A third row would add only another opening balance.
* `MCBulkSend`: one mailing of each kind in turn (mailings share nothing), two
  clicks - a race, or a send and its re-claim -, two addresses, one of which
  may enquire twice, two letters. One status suffices: a query compares a
  status with a set.
* `MCSignIn`: one login, two requests at a time and four in all
  (`MaxRequests`), two half-finished sign-ins, one reset link, two keys, one
  backup code, limits of 1 and 2. Everything that interleaves is about one
  login, but for the uniqueness of keys; four requests are two to set a race up
  and two to run it. The proofs lift all of these bounds.
* `MCRoster`: a Pack with two dens and a Troop, four members, three starting
  rosters (a den without a wide leader, the same with the Admin off the rolls,
  a Pack with a Cubmaster, an Admin and a custom role), two requests
  (`MaxRequests = 2`; every imported row counts as one). The roles and
  capability sets chosen in forms are bounded by `MCOffered` and `MCTicked`:
  one role below every ceiling, one that grants what nobody there has, one
  custom; one set that a leader may not grant and one that makes an Admin.
* `MCSite`: nineteen scenes, each a starting site with the kinds of requests
  (`asks`) that can interfere on its tables and their number (`most`, two or
  three). Two feeds with two entries, three slots (`Horizon = 2`), at most four
  events, three files, one resource, three posts, three enquiries, three
  labels, four logins - an editor, a submitter, a parent, a stranger to the unit -
  in two dens. A race here needs two tasks on one row, and a third to set it up
  or to show it. Requests that share no table meet nowhere in the code, so
  scenes do not mix them.
* Handlers are interchangeable, so TLC's symmetry over them is sound in the
  runs that use it (they check no liveness).

Deadlock is not checked: rows and requests are bounded, and a system whose
requests have all been served is entitled to stop.

### Fairness

`BulkSend!FairSpec` assumes that time passes (`Tick`) and that a context's
deadline takes effect (`TimeOut`): what `context.WithTimeout` guarantees a
goroutine whose every wait, call and statement takes that context. Nothing is
assumed of mail servers, nor that anyone presses Send again, so what is shown
is that a mailing left at "sending" can be taken up again.

`Orders!FairSpec` assumes weak fairness of `Continue(r)`, that is, a
request's goroutine, once started, takes its next statement. The Go scheduler
and `net/http` guarantee it; failure is the separate action `Abandon`, on which
nothing is assumed. That a request is ever sent is not assumed either.

The other modules make no liveness claims: nothing in that code waits for
something else or promises to come back. A refresh that fails is repeated by
the next scheduled run, which `Mirror` covers by asking what an undisturbed
run arrives at from any state that interrupted ones left.

### What the properties leave out, and what was seen

A property exempts an overlap only by naming it in a history variable. These
behaviours of the code were met while modelling. Where a comment of the
repository speaks of them it is named; no run asserts the contrary.

* Sign-in: one backup code can be redeemed by two sign-ins at the same moment
  (totp.go:283 updates by id alone); earlier reset links stay usable after a
  later one has been used (auth.go:412); a forced change leaves other sessions
  alone, unlike the other ways to change a password; a settings transaction that
  commits on what it read before another committed can leave a key without
  codes, or codes with no factor (`stale`, marked by that commit alone: requests
  that overlap without harm stay under the property).
* Roster: an import lets a den leader give an existing member of another den a
  role in theirs, which the form reserves for unit-wide leaders (`imported`);
  custom roles may be called "parent" or "scout", where listings and checks then
  differ; an assignment to the whole unit is not deduplicated by ON CONFLICT;
  the balance check before a deactivation is a separate statement; nothing
  keeps the last Admin from losing the role.
* Calendar: an entry that moved away from its clash is imported while its
  conflict waits, and a later "skip" leaves the event in place; a refresh that
  overlaps a ruling can record or import what has just been ruled out
  (`kept`); a clash counts pending and rejected events; a crash between an
  event's INSERT and its submission leaves a pending event nobody can decide;
  two rulings at once can both take effect.
* Reminders: a household's second login is not tried again once the first is
  recorded as reminded; members who have left the unit still get theirs.
* Files: re-keying lists the rows once, so a mail picture that is deleted and
  hosted again meanwhile loses its new object, and a deletion can race hosting
  likewise (`crossed`). Nothing keeps an operator from starting two re-keyings
  at once; both may move a file to the same place, but if its links or its
  category change in between, one run can delete the object the other has
  just moved the file back to (also `crossed`). To that extent "nothing 404s,
  ever" (rekey.go:16) asks for one run at a time and no hosting meanwhile.
  Banner variants are neither moved nor deleted; two leaders who both press
  "hide" make a file public again, since the toggle negates; pages for members open to any signed-in login of the site.
* Prospects: a family that opted out and enquires again has a new row without
  the opt-out, and the automatic reply looks at that row only
  (web/prospect_autoreply.go:135), so it is written to although the comment
  above the test says an opted-out address never is; `ConsentKept` says nothing
  of the automatic reply; two leaders who save overlapping lists at once can
  list a family twice (`disturbed`); a failure between the inserts of the
  default labels leaves a short list for good; a move overtaken by a retirement lands
  on the retired label (`excused`); requests let in together can pass the
  limit of the form.

## Proofs

`tlapm` checks every theorem for all values of the constants, under the
assumptions named in the modules: what a form may contain, that accounts are
distinct, that names for "nothing" are not values, that requests are finitely
many, and what the rows a behaviour starts from look like (`Kept` in `Roster`,
`Begun` in `Site`: the tables' own keys and references, and what the code keeps
when it writes them; TLC evaluates them on every start of its runs). Every
invariant and every action property that a run checks is proved; so is the
refinement of `BulkMail`.

* `LedgerProofs`: `TypeCorrect`; then `IInv`, proved inductive and used for
  `BooksAgree`, `NoDoubleReversal` and `HistoryKept`. What has to be added to
  the properties to make them inductive: `RowsAgree` ties each row's status,
  request and mode together; `SubmitterIsAlone` says that the handler between
  its INSERT and its Submit is the only one that knows its row, so no other
  can file a second request; `PreparedEntriesMirror` says that a reversal
  mirrors a posted entry from the moment it is prepared, long before the
  unique index looks at it.
  `NeverOverdraws` is about balances, sums over the posted rows. Such a sum is
  a recursive function on subsets of the entries; that the recursion has a
  solution, that it does not depend on the order in which rows are taken, that
  it is an integer and that two sums agree where their rows do, is shown
  without an induction rule, by a smallest subset for which it fails
  (`SmallestSubset`, from the least natural number with a property). Then an
  approval posts one row (`PostingMoves`), which moves the debited account by
  its amount only, after the decision has compared that amount with it.
* `OrdersProofs`: `TypeCorrect`, `NoPhantomBalance`, `CreditedIsRecorded`,
  `NoLostTrigger`, `CreditsKept`, over `RequestsAreSound`: how far a request
  has come says what it has written, and an order once found ready is never
  pending again.
* `ReconciliationProofs`: `TypeCorrect`, `ClearedBelongs`, `OneInProgress`,
  `BalancedOrOvertaken`, `SignedOffKept`, `NothingStolen`, over
  `CompletersSawZero` (a handler about to sign off saw a zero difference, and
  every step that could change the difference either is refused or marks the
  reconciliation overtaken) and `HandlersHaveRows`. `PostingPosted` cannot
  disturb the difference because only posted postings are ever stamped.
* `BulkSendProofs`: `TypeCorrect`, `RecordHonest`, `LetterFrozen`,
  `OptOutsKept`, `NeverReclaimed` and the refinement `PromiseIsKept`. What
  makes them inductive is `SenderIsSound`: a goroutine has run at least as long
  as its mailing has gone without a claim (so at 40 minutes of age none can be
  inside its 30), has mailed nothing it still holds on its list, and has
  counted only mailboxes it reached. Each step of a click goes through one
  lemma, `OneClick`, which says what such a step owes everybody else.
* `SignInProofs`: `TypeCorrect`, `NothingSkipped`, `OneSession`,
  `GuessesAreBounded` and `CodesKept`: every invariant of the run. `IInv` adds
  `RequestsSound` (what a request holds at each stage), `GuardsHold` (a login
  guarded since its password was accepted still has a factor), `ClaimsAlone`
  (one request at most holds the lock of a half-finished sign-in or has spent
  it, and a row that is still there has become no session), `CountsSound` (the
  failures counted plus the guesses let in and not yet counted stay below the
  limit plus the number of requests, an argument about cardinalities of
  finite sets). A commit of the settings goes through `NotStale` (a login that is
  not stale after it was not before, and the commit acted on what was still so)
  and `FactorsSet`. A step that leaves a part alone goes through one of a few
  lemmas (`QuietStep`, `CalmStep`, `PlainStep`, `StillStep`).
* `RosterProofs`: `TypeCorrectness`, `NobodyEscalates`, `AdminsAreSecure`,
  `LeadersStayInTheDen` and `ListsAlwaysAgree`. `IInv` says of the rows that
  they are keyed and of their unit (`RowsKeyed`), that what roles grant is as it
  was until an Admin changes it (`Frozen`), and that those out of a den leader's
  reach are as they were, without a role in a led den (`FarKept`, `RowsNear`,
  `DenRows`); and of each request that it is `Sound`: by the stage it has come
  to, its target exists and is the one it read (`Formed`, `Held`), what its
  login may do is no more than the unit's leaders had to begin with (`Within`),
  its target is no Admin unless its login is (`ForNoAdmin`) and is in a led den
  (`InDens`). It has to speak of the stage, because the checks that establish
  these were made statements earlier, about rows that others write to. What
  others do leaves them true as long as each write is `Careful`: histories,
  rows and identifiers only grow (`Grows`), a new row grants what its maker may
  give (`NewRowsFit`), Admins (`AdminsStay`) and those out of reach (`FarStay`)
  are left alone. One lemma for each action shows that it is careful and its
  own request sound after it; `SoundKept` does the rest. Permissions themselves
  need a little algebra: what a set of capabilities covers, all that it covers
  cover too (`CoversThrough`, `CoversAll`). `ListsAgree` is a fact about states:
  the SQL of the lists and the Go of the checks compute the same from any typed
  rows whose links hold.
* `SiteProofs`: `TypeCorrectness`, `ShownIsVetted`, `RefreshesMirror`,
  `RulingsAreKept`, `NobodyIsRemindedTwice` and `EnquiriesAreSound`. `IInv` has
  one part for each table and one for each kind of task (`Formed`). A step is
  first classified as a request (`Begins`) or the next statement of a task
  (`GoesOn`), so that the other components, whose tasks and tables it leaves
  alone, need no case analysis (`CalendarRests`, `LibraryRests`,
  `ProspectRests`).
  - Reminders: `MailsKnown` says that the record of a mail that has gone out is
    kept, about to be made, or doubted, or its event is gone for good
    (`EventsGoOn`: an id is not used again); and what two runs both have to
    send is doubted.
  - Rulings: `RulingsKnown` says that whoever works on an entry that has been
    ruled out has read the ruling; only then can a step that writes an entry
    (`Nothing`) not bring it back.
  - `RefreshesMirror` needs more than `IInv`, namely `ImportedOnce` (a unit
    holds an entry once: the unique index of the table) and, of each refresh
    that nobody has written next to, `Progress`: what it has read is still so
    (`Matched`); of the entries gone through each is held as offered, by an
    event or by a conflict with an event of another calendar, and those ahead
    are held only if they were read (`Imports`); what is called off is held
    nowhere but in the list that remains to be removed (`Removes`).
    That the conflict is with another calendar's event is what keeps the removal
    at the end from taking a conflict along with an event.
  - Enquiries: each enquiry, and each task on the way to writing one, is under
    a label that is offered, or was when it came (`FiledUnder`). Labels are
    finitely many and their places bounded (`LabelsBounded`), which gives a
    free slug to every new label (`SlugFree`, the pigeonhole on an injection,
    again instead of an induction) and the greatest place to put it after.
* `FilesProofs`: `ObjectsAreKept`. Its `KeysInv` is about who may write or remove
  what under a key of the bucket. A task that has read a row's key has a claim
  on it, and so has the row; a claim says the key is that file's and nobody
  else's, unless it has been crossed (`ClaimOK`). Keys ahead of an
  upload are fresh (`FreshKeys`), a key that is given again under a claim of
  another task is known to be crossed (`Crossings`), and by its stage each task
  knows what the bucket holds (`Safe`), also with several re-keyings at once.
  Every step is then of one of a few shapes: rows stay, come or move
  to where their object has been copied (`FilesMove`), only `Loose` objects, no
  row's and no task's, are removed (`BucketMoves`), tasks go on with
  what they claimed (`TasksMove`); `KeysMove` shows that such a step keeps the
  invariant. `ListedOpens` is a fact about states.

TLC checked each of these inductive invariants on the instance of its run before
it was proved.

Model-checked only: `ReadyOrdersSettle` and `SendsEndOrCanBeTakenUp`. They are
liveness under fairness, whose proofs need ENABLED, which the prover does not
support. The five violated properties are of course not proved.

## Not modelled

`PROJECT.json` lists every component with its reason. In short:

* formatting, parsing, templates, images, encryption, hashing and the wire
  protocols are data: iCalendar text is what `offered` holds once parsed, a
  pasted list its valid lines, a code or password right or wrong;
* leader biographies, advancement records, most settings, fixed pages and
  saved templates are edits of single rows that nothing else decides by;
* Treasury reports, exports and the file backup only read;
* the audit log is written after the commit it describes and nothing reads it
  back;
* start-up: each migration and its record are one transaction under an
  advisory lock of Postgres, so a model of it would restate the lock;
* the storefront's catalog, the deletion of logins, and notification mail to
  leaders.

Sums are unbounded integers: the code bounds an amount typed into a form, and
reaching 2^63 by entries takes more of them than a unit makes. Price, quantity
and running total of an order are bounded before they can wrap
(fundraiser_storefront.go:230-245), so `Carts` stands for a total as it is.

## Plan

1. For `Ledger` the second-person rule for the routes that respect it; an
   abstract specification of a decision (`Ledger`) and of a sign-off
   (`Reconciliation`) with their refinements, proved step by step as
   `PromiseIsKept` is.
2. Theorems that no run needs but a reader would ask for: that an
   administrator's last word holds (`Roster`), and that a key of the bucket is
   removed at most once for each file that had it (`Library`).
3. An open hazard: a pending entry whose request was never filed.
