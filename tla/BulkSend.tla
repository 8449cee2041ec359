------------------------------ MODULE BulkSend ------------------------------
(***************************************************************************)
(* Bulk mail: newsletters and emailed posts (internal/newsletter), prospect *)
(* campaigns (internal/prospect/campaign.go) and the handlers that start   *)
(* them (internal/web).                                                    *)
(*                                                                         *)
(* A Send reads the mailing and works out whom it would reach, claims it   *)
(* by an UPDATE, and hands it to a goroutine, which mails each address and *)
(* records it, and then marks the mailing sent.  The goroutine may die at  *)
(* any point and is cut off by its context after SendTimeout; a mailing    *)
(* left at "sending" may be claimed again once it is AbandonedSendAge old. *)
(*                                                                         *)
(* Time is in ticks of ten minutes.                                        *)
(***************************************************************************)
EXTENDS Naturals, FiniteSets

CONSTANTS
    Mailings,   \* rows of newsletters and prospect_campaigns
    Kinds,      \* which of them are newsletters, emailed posts and campaigns
    Letters,    \* subjects and bodies
    Blank,      \* that of a row not written yet
    Clicks,     \* requests to send
    Addresses,  \* email addresses
    Families,   \* those of them that are logins of families
    Public,     \* those of them that enquire
    Statuses,   \* the statuses a unit gives its prospects
    Enquiries,  \* rows of prospects
    NoEnquiry, NoAddress, NoMailing

ASSUME KindsAssumption == Kinds \subseteq [Mailings -> {"newsletter", "post", "campaign"}]

ASSUME PeopleAssumption ==
    /\ IsFiniteSet(Addresses)
    /\ Families \subseteq Addresses /\ Public \subseteq Addresses

ASSUME NamesAssumption ==
    /\ NoAddress \notin Addresses
    /\ NoMailing \notin Mailings
    /\ Blank \in Letters

VARIABLES
    kind,       \* of each mailing, fixed
    row,        \* its status, letter, audience, recipient_count; its age in ticks
    recorded,   \* newsletter_recipients and prospect_campaign_recipients
    deleting,   \* campaigns a DeleteCampaign has found it may delete
    click,      \* what each request to send, and then its goroutine, holds
    copies      \* copies[c][a]: how many copies click c has put in mailbox a

letterVars == <<kind, row, recorded, deleting>>
vars == <<kind, row, recorded, deleting, click, copies>>

\* Mutant: a send counts as abandoned while it may still be running.
AbandonedTooSoon == 2

\* 40 minutes and 30 minutes.
AbandonedSendAge == 4
SendTimeout == 3

\* A campaign's target statuses; a newsletter or post is for whom the roster says.
Audiences(k) == IF k = "campaign" THEN SUBSET Statuses ELSE {{}}

\* "none" until the row is inserted; a deleted row is remembered as it was.
Row == [status : {"none", "draft", "sending", "sent", "deleted"}, letter : Letters,
        audience : SUBSET Statuses, age : 0..AbandonedSendAge, count : Nat]

\* A click rests ("idle"), has found a mailing sendable ("pressed") or a post
\* that may be emailed ("posting"), has claimed it and is between two addresses ("mailing") or between the mail to
\* address at and its record ("delivered", "failed"), or has ended ("done").
Click == [pc : {"idle", "pressed", "posting", "mailing", "delivered", "failed", "done"},
          of : Mailings \cup {NoMailing}, to : SUBSET Addresses,
          at : Addresses \cup {NoAddress}, letter : Letters, run : 0..SendTimeout,
          tally : Nat, barred : SUBSET Addresses]

Enquiry == [address : Public, status : Statuses, optOut : BOOLEAN]

TypeOK ==
    /\ kind \in Kinds
    /\ row \in [Mailings -> Row]
    /\ recorded \in [Mailings -> [Addresses -> {"none", "sent", "failed"}]]
    /\ deleting \subseteq Mailings
    /\ click \in [Clicks -> Click]
    /\ \A c \in Clicks : click[c].pc \in {"idle", "posting"} <=> click[c].of = NoMailing
    /\ \A c \in Clicks : click[c].pc \in {"delivered", "failed"} <=> click[c].at # NoAddress
    /\ copies \in [Clicks -> [Addresses -> 0..2]]

SetRow(m, status, letter, audience, age, count) ==
    row' = [row EXCEPT ![m] = [status |-> status, letter |-> letter, audience |-> audience,
                               age |-> age, count |-> count]]
SetStatus(m, status, age) ==
    SetRow(m, status, row[m].letter, row[m].audience, age, row[m].count)
SetClick(c, k) == click' = [click EXCEPT ![c] = k]

Exists(m) == row[m].status \notin {"none", "deleted"}

\* The stages of a click; k is the click's record so far.
At(pc, m, l, to, barred) ==
    [pc |-> pc, of |-> m, to |-> to, at |-> NoAddress, letter |-> l, run |-> 0,
     tally |-> 0, barred |-> barred]
Idle == At("idle", NoMailing, Blank, {}, {})
Posting == At("posting", NoMailing, Blank, {}, {})
Pressed(m, to, barred) == At("pressed", m, Blank, to, barred)
Mailing(m, l, to, barred) == At("mailing", m, l, to, barred)
Working(k, pc, to, a, tally, run) ==
    [pc |-> pc, of |-> k.of, to |-> to, at |-> a, letter |-> k.letter, run |-> run,
     tally |-> tally, barred |-> k.barred]
Ended(k) == At("done", k.of, k.letter, {}, {})

\* The goroutine of click c is at work.
Sending(c) == click[c].pc \in {"mailing", "delivered", "failed"}

-----------------------------------------------------------------------------
(* Whom a mailing reaches.  Both tables are edited all the time, and only   *)
(* read here, once per send or claim: each read may find any contents.     *)

\* Any enquiries a unit may hold, the same family's second one included.
Tables == [Enquiries -> Enquiry \cup {NoEnquiry}]

Held(table) == {table[q] : q \in Enquiries} \ {NoEnquiry}

\* The addresses any of whose enquiries has opted out.
OptedOut(table) == {e.address : e \in {x \in Held(table) : x.optOut}}

\* Mutant: the rows that opted out are left out, not their addresses.
RecipientsByRow(table, audience) ==
    {e.address : e \in {x \in Held(table) : x.status \in audience /\ ~x.optOut}}

\* "The exclusion is by ADDRESS": SELECT DISTINCT ... AND NOT EXISTS.
RecipientsForStatuses(table, audience) ==
    {e.address : e \in {x \in Held(table) : x.status \in audience}} \ OptedOut(table)

\* RecipientEmailsForUnit or, for an emailed post, RecipientEmailsForGroups: any
\* families; nobody at all if no one is left, or if the read fails in SendNow.
RecipientEmails == SUBSET Families

-----------------------------------------------------------------------------
(* Drafts.                                                                 *)

\* CreateDraft, CreateCampaign
CreateDraft(m) ==
    /\ row[m].status = "none"
    /\ kind[m] # "post"
    /\ \E l \in Letters, a \in Audiences(kind[m]) :
         SetRow(m, "draft", l, a, 0, 0)
    /\ UNCHANGED <<kind, recorded, deleting, click, copies>>

\* Mutant: the UPDATE asks only that the mailing is not sent yet.
UpdateUnsent(m) ==
    /\ row[m].status \in {"draft", "sending"}
    /\ \E l \in Letters, a \in Audiences(kind[m]) :
         SetRow(m, row[m].status, l, a, row[m].age, 0)
    /\ UNCHANGED <<kind, recorded, deleting, click, copies>>

\* UpdateDraft, UpdateCampaign: UPDATE ... WHERE status = 'draft'.
UpdateDraft(m) ==
    /\ row[m].status = "draft"
    /\ \E l \in Letters, a \in Audiences(kind[m]) :
         SetRow(m, "draft", l, a, 0, 0)
    /\ UNCHANGED <<kind, recorded, deleting, click, copies>>

\* DeleteCampaign looks at the status, and then deletes by id alone, a mailing
\* claimed or sent since included.  The recipients' rows go with it.
CheckDelete(m) ==
    /\ kind[m] = "campaign"
    /\ row[m].status \in {"draft", "sending"}
    /\ deleting' = deleting \cup {m}
    /\ UNCHANGED <<kind, row, recorded, click, copies>>

DeleteCampaign(m) ==
    /\ m \in deleting
    /\ deleting' = deleting \ {m}
    /\ SetStatus(m, "deleted", 0)
    /\ recorded' = [recorded EXCEPT ![m] = [a \in Addresses |-> "none"]]
    /\ UNCHANGED <<kind, click, copies>>

-----------------------------------------------------------------------------
(* The request: BeginSend, BeginSendCampaign, StartPostEmail.              *)

\* Mutant: a mailing left at "sending" is never taken up again.
DraftsOnly(r) == r.status = "draft"

Sendable(r) ==
    \/ r.status = "draft"
    \/ r.status = "sending" /\ r.age >= AbandonedSendAge

\* GetNewsletter and the list of recipients are two reads, of tables no one step
\* writes, and so one step.  Somebody must be reached.
PressSend(c, m) ==
    /\ click[c].pc = "idle"
    /\ kind[m] # "campaign"
    /\ Sendable(row[m])
    /\ Families # {}
    /\ SetClick(c, Pressed(m, {}, {}))
    /\ UNCHANGED <<letterVars, copies>>

\* The same for a campaign, which keeps the list it has worked out.
PressSendCampaign(c, m) ==
    /\ click[c].pc = "idle"
    /\ kind[m] = "campaign"
    /\ Sendable(row[m])
    /\ \E table \in Tables :
         LET recipients == RecipientsForStatuses(table, row[m].audience) IN
         /\ recipients # {}
         /\ SetClick(c, Pressed(m, recipients, OptedOut(table)))
    /\ UNCHANGED <<letterVars, copies>>

\* UPDATE ... SET status = 'sending' WHERE status != 'sent' RETURNING the row: the
\* letter sent is the one it holds now.  SendNow works its list out anew; a
\* campaign's is the one made from the audience it had when Send was pressed.
Claim(c) ==
    LET m == click[c].of IN
    /\ click[c].pc = "pressed"
    /\ row[m].status \in {"draft", "sending"}
    /\ SetStatus(m, "sending", 0)
    /\ \E to \in IF kind[m] = "campaign" THEN {click[c].to} ELSE RecipientEmails :
         SetClick(c, Mailing(m, row[m].letter, to, click[c].barred))
    /\ UNCHANGED <<kind, recorded, deleting, copies>>

\* The mailing has been sent, or is gone.
ClaimRefused(c) ==
    LET m == click[c].of IN
    /\ click[c].pc = "pressed"
    /\ row[m].status \notin {"draft", "sending"}
    /\ SetClick(c, Idle)
    /\ UNCHANGED <<letterVars, copies>>

\* AdminNewsEmail and GroupEmailSend look for an earlier email of the post: one
\* that is found stops nobody who asks again for it, so it stops no step here.
EmailPost(c) ==
    /\ click[c].pc = "idle"
    /\ Families # {}
    /\ SetClick(c, Posting)
    /\ UNCHANGED <<letterVars, copies>>

\* StartPostEmail inserts the row already claimed, for SendNow to work its list out.
StartPostEmail(c, m) ==
    /\ click[c].pc = "posting"
    /\ kind[m] = "post"
    /\ row[m].status = "none"
    /\ \E l \in Letters, to \in RecipientEmails :
         /\ SetRow(m, "sending", l, {}, 0, 0)
         /\ SetClick(c, Mailing(m, l, to, {}))
    /\ UNCHANGED <<kind, recorded, deleting, copies>>

-----------------------------------------------------------------------------
(* The goroutine: SendNow, SendCampaign.                                   *)

\* What a call of the mail server comes to: accepted; refused before acting, for
\* the rate (429); failed with nothing sent; failed though the mail went out.
Outcomes == {"accepted", "tooFast", "failed", "lateError"}
Copies(o) == IF o \in {"accepted", "lateError"} THEN 1 ELSE 0

AnyError(o) == o # "accepted"  \* mutant: every failure is tried again

\* rateLimited: refused before the server acted on it.
RateLimited(o) == o = "tooFast"

\* The one retry: what it comes to, and the copies that both calls put out.
Result(first, second) == IF RateLimited(first) THEN second ELSE first
CopiesOf(first, second) == Copies(first) + IF RateLimited(first) THEN Copies(second) ELSE 0

\* SendHTMLPaced: what click c's loop does for one address.
Mail(c, a) ==
    /\ click[c].pc = "mailing"
    /\ a \in click[c].to
    /\ click[c].run < SendTimeout
    /\ \E first, second \in Outcomes :
         /\ copies' = [copies EXCEPT ![c] =
                [copies[c] EXCEPT ![a] = copies[c][a] + CopiesOf(first, second)]]
         /\ SetClick(c, Working(click[c],
                IF Result(first, second) = "accepted" THEN "delivered" ELSE "failed",
                click[c].to \ {a}, a, click[c].tally, click[c].run))
    /\ UNCHANGED letterVars

\* Mutant: the row says sent whatever came of it.
RecordAsSent(c) ==
    LET m == click[c].of IN
    /\ click[c].pc \in {"delivered", "failed"}
    /\ recorded' = [recorded EXCEPT ![m] = [@ EXCEPT ![click[c].at] = "sent"]]
    /\ SetClick(c, Working(click[c], "mailing", click[c].to, NoAddress,
                            click[c].tally + 1, click[c].run))
    /\ UNCHANGED <<kind, row, deleting, copies>>

\* Mutant: the address stays in hand.
RecordAndKeep(c) ==
    /\ click[c].pc \in {"delivered", "failed"}
    /\ SetClick(c, Working(click[c], "mailing", click[c].to, click[c].at,
                            click[c].tally, click[c].run))
    /\ UNCHANGED <<letterVars, copies>>

\* INSERT ... ON CONFLICT DO UPDATE; a failure of it is logged and the loop goes
\* on, as it does when the campaign is deleted (the foreign key).
Record(c) ==
    LET m == click[c].of
        result == IF click[c].pc = "delivered" THEN "sent" ELSE "failed" IN
    /\ click[c].pc \in {"delivered", "failed"}
    /\ \/ /\ Exists(m)
          /\ recorded' = [recorded EXCEPT ![m] = [@ EXCEPT ![click[c].at] = result]]
       \/ UNCHANGED recorded
    /\ SetClick(c, Working(click[c], "mailing", click[c].to, NoAddress,
                            click[c].tally + (IF result = "sent" THEN 1 ELSE 0), click[c].run))
    /\ UNCHANGED <<kind, row, deleting, copies>>

\* UPDATE ... SET status = 'sent', recipient_count WHERE id: whatever the status.
Finish(c) ==
    LET m == click[c].of IN
    /\ click[c].pc = "mailing"
    /\ click[c].to = {}
    /\ click[c].run < SendTimeout
    /\ IF Exists(m)
       THEN SetRow(m, "sent", row[m].letter, row[m].audience, 0, click[c].tally)
       ELSE UNCHANGED row
    /\ SetClick(c, Ended(click[c]))
    /\ UNCHANGED <<kind, recorded, deleting, copies>>

\* context.WithTimeout: every later Wait, INSERT and UPDATE fails.
TimeOut(c) ==
    /\ Sending(c)
    /\ click[c].run = SendTimeout
    /\ SetClick(c, Ended(click[c]))
    /\ UNCHANGED <<letterVars, copies>>

\* The process stops, or the goroutine panics.
Crash(c) ==
    /\ Sending(c)
    /\ SetClick(c, Ended(click[c]))
    /\ UNCHANGED <<letterVars, copies>>

\* Ten minutes pass: no goroutine outlives its context.  An age beyond
\* AbandonedSendAge is as good as that age.
Tick ==
    /\ \A c \in Clicks : Sending(c) => click[c].run < SendTimeout
    /\ click' = [c \in Clicks |->
                   IF ~Sending(c) THEN click[c]
                   ELSE Working(click[c], click[c].pc, click[c].to, click[c].at,
                                click[c].tally, click[c].run + 1)]
    /\ row' = [m \in Mailings |->
                 IF row[m].status = "sending" /\ row[m].age < AbandonedSendAge
                 THEN [status |-> "sending", letter |-> row[m].letter,
                       audience |-> row[m].audience, age |-> row[m].age + 1,
                       count |-> row[m].count]
                 ELSE row[m]]
    /\ UNCHANGED <<kind, recorded, deleting, copies>>

-----------------------------------------------------------------------------
Init ==
    /\ kind \in Kinds
    /\ row = [m \in Mailings |-> [status |-> "none", letter |-> Blank, audience |-> {},
                                  age |-> 0, count |-> 0]]
    /\ click = [c \in Clicks |-> Idle]
    /\ recorded = [m \in Mailings |-> [a \in Addresses |-> "none"]]
    /\ deleting = {}
    /\ copies = [c \in Clicks |-> [a \in Addresses |-> 0]]

Next ==
    \/ \E m \in Mailings : \/ CreateDraft(m) \/ UpdateDraft(m)
                           \/ CheckDelete(m) \/ DeleteCampaign(m)
    \/ \E c \in Clicks, m \in Mailings :
         PressSend(c, m) \/ PressSendCampaign(c, m) \/ StartPostEmail(c, m)
    \/ \E c \in Clicks : \/ EmailPost(c) \/ Claim(c) \/ ClaimRefused(c) \/ Record(c) \/ Finish(c)
                         \/ TimeOut(c) \/ Crash(c)
                         \/ \E a \in Addresses : Mail(c, a)
    \/ Tick

Spec == Init /\ [][Next]_vars

\* Time passes and a context's deadline takes effect.  That mail servers answer,
\* or that anybody presses Send, is not assumed.
FairSpec == Spec /\ WF_vars(Tick) /\ \A c \in Clicks : WF_vars(TimeOut(c))

-----------------------------------------------------------------------------
(* Properties.                                                             *)

\* Click c has claimed mailing m, and may have ended since.
Unclaimed == {"idle", "pressed", "posting"}
Claimed(c, m) == click[c].pc \notin Unclaimed /\ click[c].of = m

\* The mailboxes click c has put a copy in, and those any send of m has.
Mailed(c) == {a \in Addresses : copies[c][a] > 0}
Reached(m) == {a \in Addresses : \E c \in Clicks : Claimed(c, m) /\ a \in Mailed(c)}

\* "recipient_count records what actually succeeded [...] rather than a count that
\* overstates delivery": nobody is on record as sent to without a copy having
\* gone out, and a sent mailing's count is no larger than the number of
\* mailboxes it reached, however its sends raced, died or were taken up again.
RecordIsHonest ==
    \A m \in Mailings :
        /\ \A a \in Addresses : recorded[m][a] = "sent" => a \in Reached(m)
        /\ row[m].status = "sent" => row[m].count <= Cardinality(Reached(m))

\* "Its Subject/Body are used as passed in rather than re-fetched, since they
\* can't change once sending has started": whatever copies are out, by whichever
\* claim, the record still shows the letter they carried.
RecordIsWhatWentOut ==
    \A c \in Clicks, m \in Mailings :
        Claimed(c, m) => /\ row[m].status \in {"sending", "sent", "deleted"}
                         /\ click[c].letter = row[m].letter

\* "If any enquiry from this address has opted out, the address is out": no
\* campaign mails an address which had opted out when its Send was pressed.
OptOutsHonoured == \A c \in Clicks : click[c].barred \cap Mailed(c) = {}

\* "A send that's still genuinely in progress is never reclaimed out from under
\* itself": when a mailing found at "sending" may be sent again, no goroutine is
\* at work on it.
NeverReclaimedWhileSending ==
    [][\A c \in Clicks, m \in Mailings :
         (PressSend(c, m) \/ PressSendCampaign(c, m)) /\ row[m].status = "sending" =>
             \A d \in Clicks : Sending(d) => click[d].of # m]_vars

\* A newsletter whose send died "could never be sent again" without the reclaim:
\* a mailing being sent is sent in the end, or deleted, or may be sent again.
SendsEndOrCanBeTakenUp ==
    \A m \in Mailings :
        row[m].status = "sending" ~> (row[m].status # "sending" \/ Sendable(row[m]))

\* The promise of BulkMail: one letter, frozen by the first claim; no claim on
\* what is sent; at most one copy per claim in each mailbox.
Promise == INSTANCE BulkMail WITH
    Sends <- Clicks,
    phase <- [m \in Mailings |-> row[m].status],
    letter <- [m \in Mailings |-> row[m].letter],
    claim <- [c \in Clicks |-> IF click[c].pc \in Unclaimed THEN NoMailing ELSE click[c].of]
PromiseKept == Promise!Spec

\* What these rest on.  A goroutine has been at work at least as long as its
\* mailing has gone without a claim; what it still has to mail it has not mailed;
\* only a campaign's list bars anybody; it has counted only mailboxes it reached.
SenderIsSound(c) ==
    /\ Sending(c) /\ row[click[c].of].status = "sending" => row[click[c].of].age <= click[c].run
    /\ click[c].pc \in Unclaimed => Mailed(c) = {}
    /\ click[c].to \cap Mailed(c) = {}
    /\ click[c].at \notin click[c].to
    /\ click[c].barred \cap click[c].to = {}
    /\ click[c].barred # {} => click[c].of \in Mailings /\ kind[click[c].of] = "campaign"
    /\ click[c].pc = "delivered" => click[c].at \in Mailed(c)
    /\ click[c].tally <= Cardinality(Mailed(c) \ {click[c].at})

SendersAreSound == \A c \in Clicks : SenderIsSound(c)

\* A row is inserted before anybody can delete it.
DeletedRowsExist == \A m \in deleting : row[m].status # "none"

\* "Two clicks on Send must not produce two sends either": no two sends of one
\* mailing are under way and have both reached the same mailbox.
TwoClicksOneSend ==
    \A c, d \in Clicks :
        c # d /\ Sending(c) /\ Sending(d) /\ click[c].of = click[d].of =>
            \A a \in Addresses : copies[c][a] = 0 \/ copies[d][a] = 0
=============================================================================
