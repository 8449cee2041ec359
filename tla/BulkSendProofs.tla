--------------------------- MODULE BulkSendProofs ---------------------------
(***************************************************************************)
(* What holds of bulk mail for any number of mailings, clicks and          *)
(* addresses, and that BulkSend implements BulkMail.                       *)
(***************************************************************************)
EXTENDS BulkSend, FiniteSetTheorems, TLAPS

USE DEF AbandonedSendAge, SendTimeout

Inv ==
    /\ TypeOK
    /\ SendersAreSound /\ DeletedRowsExist
    /\ RecordIsHonest /\ RecordIsWhatWentOut /\ OptOutsHonoured

\* Mailboxes are a finite set, so the smaller of two sets of them counts less.
LEMMA MoreMailboxes ==
    ASSUME NEW S \in SUBSET Addresses, NEW T \in SUBSET S
    PROVE  /\ IsFiniteSet(T) /\ Cardinality(T) \in Nat /\ Cardinality(S) \in Nat
           /\ Cardinality(T) <= Cardinality(S)
<1>1. IsFiniteSet(S)
  BY PeopleAssumption, FS_Subset
<1>. QED
  BY <1>1, FS_Subset, FS_CardinalityType

LEMMA MailedType ==
    ASSUME NEW c
    PROVE  Mailed(c) \subseteq Addresses
BY DEF Mailed

\* What a click holds.
LEMMA ClickFields ==
    ASSUME TypeOK, NEW c \in Clicks
    PROVE  /\ click[c].of \in Mailings \cup {NoMailing} /\ click[c].to \in SUBSET Addresses
           /\ click[c].at \in Addresses \cup {NoAddress} /\ click[c].letter \in Letters
           /\ click[c].run \in 0..SendTimeout /\ click[c].run \in Nat /\ click[c].tally \in Nat
           /\ click[c].barred \in SUBSET Addresses
           /\ click[c].pc \in {"idle", "pressed", "posting", "mailing", "delivered", "failed", "done"}
           /\ click[c].pc \notin {"idle", "posting"} => click[c].of \in Mailings
           /\ Sending(c) => click[c].of \in Mailings
<1>1. click[c] \in Click
  BY DEF TypeOK
<1>2. /\ click[c].of \in Mailings \cup {NoMailing} /\ click[c].to \in SUBSET Addresses
      /\ click[c].at \in Addresses \cup {NoAddress} /\ click[c].letter \in Letters
      /\ click[c].run \in 0..SendTimeout /\ click[c].tally \in Nat
      /\ click[c].barred \in SUBSET Addresses
      /\ click[c].pc \in {"idle", "pressed", "posting", "mailing", "delivered", "failed", "done"}
  BY <1>1 DEF Click
<1>3. click[c].pc \notin {"idle", "posting"} => click[c].of \in Mailings
  BY <1>2 DEF TypeOK
<1>4. Sending(c) => click[c].pc \notin {"idle", "posting"}
  BY DEF Sending
<1>. QED
  BY <1>2, <1>3, <1>4

-----------------------------------------------------------------------------
(* What a step leaves as it was.                                           *)

\* A sender that a step does not touch stays sound: its mailing may only get
\* younger, or stop being at "sending".
LEMMA SenderUntouched ==
    ASSUME NEW c \in Clicks, SenderIsSound(c), click'[c] = click[c], copies'[c] = copies[c],
           UNCHANGED kind,
           Sending(c) => LET m == click[c].of IN
               row'[m].status = "sending" =>
                   row'[m].age = 0 \/ (row[m].status = "sending" /\ row'[m].age = row[m].age),
           click[c].run \in Nat
    PROVE  SenderIsSound(c)'
<1>1. Mailed(c)' = Mailed(c)
  BY DEF Mailed
<1>2. Sending(c)' = Sending(c)
  BY DEF Sending
<1>. QED
  BY <1>1, <1>2 DEF SenderIsSound

\* The records stay honest while no copy is taken back and no claim forgotten, and
\* no row is newly marked sent or recorded as sent.
LEMMA RecordStaysHonest ==
    ASSUME TypeOK, RecordIsHonest, TypeOK',
           NEW m \in Mailings,
           Reached(m) \subseteq Reached(m)',
           \A a \in Addresses : recorded'[m][a] = "sent" =>
               recorded[m][a] = "sent" \/ a \in Reached(m)',
           row'[m].status = "sent" =>
               \/ row[m].status = "sent" /\ row'[m].count = row[m].count
               \/ row'[m].count <= Cardinality(Reached(m)')
    PROVE  /\ \A a \in Addresses : recorded'[m][a] = "sent" => a \in Reached(m)'
           /\ row'[m].status = "sent" => row'[m].count <= Cardinality(Reached(m)')
<1>1. Reached(m)' \subseteq Addresses
  BY DEF Reached
<1>2. /\ Cardinality(Reached(m)) \in Nat /\ Cardinality(Reached(m)') \in Nat
      /\ Cardinality(Reached(m)) <= Cardinality(Reached(m)')
  BY <1>1, MoreMailboxes
<1>3. row[m].count \in Nat /\ row'[m].count \in Nat
  BY DEF TypeOK, Row
<1>. QED
  BY <1>2, <1>3 DEF RecordIsHonest

\* Claims persist and copies stay: what was reached stays reached.
LEMMA ReachedGrows ==
    ASSUME NEW m \in Mailings,
           \A c \in Clicks : Claimed(c, m) => Claimed(c, m)' /\ Mailed(c) \subseteq Mailed(c)'
    PROVE  Reached(m) \subseteq Reached(m)'
BY DEF Reached

-----------------------------------------------------------------------------
(* Steps on a mailing's row that no goroutine takes.                       *)

\* Such a step keeps the invariant if it leaves a claimed letter alone, claims
\* and finishes nothing, and at most forgets who was recorded.
LEMMA RowOnly ==
    ASSUME Inv, NEW m \in Mailings, NEW r \in Row,
           row' = [row EXCEPT ![m] = r], UNCHANGED <<kind, click, copies>>,
           r.status \in {"sending", "sent"} => r = row[m],
           \A c \in Clicks : Claimed(c, m) =>
               r.status \in {"sending", "sent", "deleted"} /\ r.letter = row[m].letter,
           recorded' \in [Mailings -> [Addresses -> {"none", "sent", "failed"}]],
           \A n \in Mailings : \A a \in Addresses :
               recorded'[n][a] = "sent" => recorded[n][a] = "sent",
           deleting' \subseteq deleting \cup {m},
           r.status # "none"
    PROVE  Inv'
<1>1. row' \in [Mailings -> Row] /\ row'[m] = r /\ \A n \in Mailings \ {m} : row'[n] = row[n]
  BY DEF Inv, TypeOK
<1>2. TypeOK'
  BY <1>1 DEF Inv, TypeOK
<1>3. SendersAreSound'
  <2>. SUFFICES ASSUME NEW c \in Clicks PROVE SenderIsSound(c)'
    BY DEF SendersAreSound
  <2>1. Sending(c) => click[c].of \in Mailings
    BY ClickFields DEF Inv
  <2>2. click[c].run \in Nat
    BY ClickFields DEF Inv
  <2>3. SenderIsSound(c)
    BY DEF Inv, SendersAreSound
  <2>. QED
    BY <1>1, <2>1, <2>2, <2>3, SenderUntouched
<1>4. DeletedRowsExist'
  BY <1>1 DEF Inv, DeletedRowsExist, TypeOK
<1>5. RecordIsHonest'
  <2>. SUFFICES ASSUME NEW n \in Mailings
                PROVE  /\ \A a \in Addresses : recorded'[n][a] = "sent" => a \in Reached(n)'
                       /\ row'[n].status = "sent" => row'[n].count <= Cardinality(Reached(n)')
    BY DEF RecordIsHonest
  <2>1. Reached(n) \subseteq Reached(n)'
    BY DEF Reached, Claimed, Mailed
  <2>2. row'[n].status = "sent" => row[n].status = "sent" /\ row'[n].count = row[n].count
    BY <1>1
  <2>. QED
    BY <1>2, <2>1, <2>2, RecordStaysHonest DEF Inv
<1>6. RecordIsWhatWentOut'
  <2>. SUFFICES ASSUME NEW c \in Clicks, NEW n \in Mailings, Claimed(c, n)
                PROVE  /\ row'[n].status \in {"sending", "sent", "deleted"}
                       /\ click[c].letter = row'[n].letter
    BY DEF RecordIsWhatWentOut, Claimed
  <2>1. row[n].status \in {"sending", "sent", "deleted"} /\ click[c].letter = row[n].letter
    BY DEF Inv, RecordIsWhatWentOut
  <2>. QED
    BY <1>1, <2>1
<1>7. OptOutsHonoured'
  BY DEF Inv, OptOutsHonoured, Mailed
<1>. QED
  BY <1>2, <1>3, <1>4, <1>5, <1>6, <1>7 DEF Inv

\* A mailing nobody could have claimed: it is not there, or a draft.
LEMMA DraftsAreUnclaimed ==
    ASSUME Inv, NEW m \in Mailings, row[m].status \in {"none", "draft"}
    PROVE  \A c \in Clicks : ~Claimed(c, m)
BY DEF Inv, RecordIsWhatWentOut

LEMMA DraftsKeepInv ==
    ASSUME Inv, NEW m \in Mailings, CreateDraft(m) \/ UpdateDraft(m)
    PROVE  Inv'
<1>1. PICK l \in Letters, a \in SUBSET Statuses :
        /\ row[m].status \in {"none", "draft"}
        /\ SetRow(m, "draft", l, a, 0, 0)
        /\ UNCHANGED <<kind, recorded, deleting, click, copies>>
  BY DEF CreateDraft, UpdateDraft, Audiences
<1>. DEFINE r == [status |-> "draft", letter |-> l, audience |-> a, age |-> 0, count |-> 0]
<1>2. r \in Row /\ r.status = "draft" /\ row' = [row EXCEPT ![m] = r]
  BY <1>1 DEF Row, SetRow
<1>. QED
  BY <1>1, <1>2, DraftsAreUnclaimed, RowOnly DEF Inv, TypeOK

LEMMA CheckDeleteKeepsInv ==
    ASSUME Inv, NEW m \in Mailings, CheckDelete(m)
    PROVE  Inv'
<1>1. row[m] \in Row /\ row[m].status \in {"draft", "sending"}
  BY DEF Inv, TypeOK, CheckDelete
<1>2. row' = [row EXCEPT ![m] = row[m]]
  BY DEF CheckDelete, Inv, TypeOK
<1>. QED
  BY <1>1, <1>2, RowOnly DEF CheckDelete, Inv, TypeOK, RecordIsWhatWentOut

LEMMA DeleteKeepsInv ==
    ASSUME Inv, NEW m \in Mailings, DeleteCampaign(m)
    PROVE  Inv'
<1>. DEFINE r == [status |-> "deleted", letter |-> row[m].letter,
                  audience |-> row[m].audience, age |-> 0, count |-> row[m].count]
<1>1. row[m] \in Row
  BY DEF Inv, TypeOK
<1>2. r \in Row /\ r.status = "deleted" /\ r.letter = row[m].letter
  BY <1>1 DEF Row
<1>3. /\ recorded' \in [Mailings -> [Addresses -> {"none", "sent", "failed"}]]
      /\ \A n \in Mailings : \A a \in Addresses :
           recorded'[n][a] = "sent" => recorded[n][a] = "sent"
  BY DEF DeleteCampaign, Inv, TypeOK
<1>4. /\ row' = [row EXCEPT ![m] = r] /\ UNCHANGED <<kind, click, copies>>
      /\ deleting' \subseteq deleting \cup {m}
  BY DEF DeleteCampaign, SetStatus, SetRow
<1>. QED
  BY <1>2, <1>3, <1>4, RowOnly

-----------------------------------------------------------------------------
(* Steps of one click, or of its goroutine.                                *)

\* A click set to a record of the right shape.
LEMMA ClickSet ==
    ASSUME TypeOK, NEW c \in Clicks, NEW k \in Click, SetClick(c, k),
           k.pc \in {"idle", "posting"} <=> k.of = NoMailing,
           k.pc \in {"delivered", "failed"} <=> k.at # NoAddress
    PROVE  /\ click' \in [Clicks -> Click]
           /\ click'[c] = k
           /\ \A d \in Clicks \ {c} : click'[d] = click[d]
           /\ \A d \in Clicks : click'[d].pc \in {"idle", "posting"} <=> click'[d].of = NoMailing
           /\ \A d \in Clicks : click'[d].pc \in {"delivered", "failed"} <=> click'[d].at # NoAddress
BY DEF TypeOK, SetClick

\* A step of click c on mailing m, if on any, keeps the invariant if c itself stays sound and
\* honest, and whoever else has claimed m finds its letter unchanged.
LEMMA OneClick ==
    ASSUME Inv, TypeOK', NEW c \in Clicks, NEW m, UNCHANGED <<kind, deleting>>,
           \A d \in Clicks \ {c} : click'[d] = click[d] /\ copies'[d] = copies[d],
           \A n \in Mailings \ {m} : row'[n] = row[n],
           row'[m] = row[m] \/ (row'[m].age = 0 /\ row'[m].status # "none"),
           \A d \in Clicks \ {c} : Claimed(d, m) =>
               row'[m].status \in {"sending", "sent", "deleted"} /\ row'[m].letter = row[m].letter,
           Mailed(c) \subseteq Mailed(c)',
           SenderIsSound(c)',
           click'[c].barred \cap Mailed(c)' = {},
           \A n \in Mailings :
               /\ Claimed(c, n) => Claimed(c, n)'
               /\ Claimed(c, n)' => /\ row'[n].status \in {"sending", "sent", "deleted"}
                                    /\ click'[c].letter = row'[n].letter
               /\ \A a \in Addresses : recorded'[n][a] = "sent" =>
                      recorded[n][a] = "sent" \/ a \in Reached(n)'
               /\ row'[n].status = "sent" =>
                      \/ row[n].status = "sent" /\ row'[n].count = row[n].count
                      \/ row'[n].count <= Cardinality(Reached(n)')
    PROVE  Inv'
<1>1. \A d \in Clicks \ {c} : Mailed(d)' = Mailed(d) /\ \A n \in Mailings : Claimed(d, n)' = Claimed(d, n)
  BY DEF Mailed, Claimed
<1>2. SendersAreSound'
  <2>. SUFFICES ASSUME NEW d \in Clicks \ {c} PROVE SenderIsSound(d)'
    BY DEF SendersAreSound
  <2>1. Sending(d) => click[d].of \in Mailings
    BY ClickFields DEF Inv
  <2>2. click[d].run \in Nat
    BY ClickFields DEF Inv
  <2>3. SenderIsSound(d)
    BY DEF Inv, SendersAreSound
  <2>. QED
    BY <2>1, <2>2, <2>3, SenderUntouched
<1>3. DeletedRowsExist'
  <2>1. \A n \in deleting : n \in Mailings /\ row[n].status # "none"
    BY DEF Inv, DeletedRowsExist, TypeOK
  <2>. QED
    BY <2>1 DEF DeletedRowsExist
<1>4. RecordIsHonest'
  <2>. SUFFICES ASSUME NEW n \in Mailings
                PROVE  /\ \A a \in Addresses : recorded'[n][a] = "sent" => a \in Reached(n)'
                       /\ row'[n].status = "sent" => row'[n].count <= Cardinality(Reached(n)')
    BY DEF RecordIsHonest
  <2>1. Reached(n) \subseteq Reached(n)'
    BY <1>1, ReachedGrows
  <2>. QED
    BY <2>1, RecordStaysHonest DEF Inv
<1>5. RecordIsWhatWentOut'
  <2>. SUFFICES ASSUME NEW d \in Clicks \ {c}, NEW n \in Mailings, Claimed(d, n)
                PROVE  /\ row'[n].status \in {"sending", "sent", "deleted"}
                       /\ click'[d].letter = row'[n].letter
    BY <1>1 DEF RecordIsWhatWentOut
  <2>1. row[n].status \in {"sending", "sent", "deleted"} /\ click[d].letter = row[n].letter
    BY DEF Inv, RecordIsWhatWentOut
  <2>. QED
    BY <2>1
<1>6. OptOutsHonoured'
  BY <1>1 DEF Inv, OptOutsHonoured
<1>. QED
  BY <1>2, <1>3, <1>4, <1>5, <1>6 DEF Inv

\* Before its claim and after its end a click holds nothing that could go wrong.
LEMMA QuietClick ==
    ASSUME Inv, NEW c \in Clicks, UNCHANGED <<letterVars, copies>>,
           NEW k \in Click, SetClick(c, k),
           \/ click[c].pc \in Unclaimed /\ k.pc \in Unclaimed
           \/ Sending(c) /\ k.pc = "done" /\ k.of = click[c].of /\ k.letter = click[c].letter
                /\ k.to = {} /\ k.barred = {},
           k.pc \in {"idle", "posting"} <=> k.of = NoMailing,
           k.at = NoAddress, k.tally = 0, k.barred \cap k.to = {},
           k.barred # {} => k.of \in Mailings /\ kind[k.of] = "campaign"
    PROVE  Inv'
<1>1. NoAddress \notin Addresses
  BY NamesAssumption
<1>2. /\ TypeOK' /\ click'[c] = k
      /\ \A d \in Clicks \ {c} : click'[d] = click[d] /\ copies'[d] = copies[d]
  <2>1. k.pc \in {"delivered", "failed"} <=> k.at # NoAddress
    BY DEF Sending, Unclaimed
  <2>. QED
    BY <2>1, ClickSet DEF letterVars, Inv, TypeOK
<1>3. Mailed(c)' = Mailed(c) /\ (k.pc \in Unclaimed => Mailed(c) = {})
  BY DEF Mailed, Sending, Unclaimed, Inv, SendersAreSound, SenderIsSound
<1>4. SenderIsSound(c)'
  <2>1. ~Sending(c)' /\ k.pc # "delivered"
    BY <1>2 DEF Sending, Unclaimed
  <2>2. 0 <= Cardinality(Mailed(c)' \ {NoAddress})
    BY <1>3, MailedType, MoreMailboxes
  <2>3. k.at \notin k.to
    BY <1>1 DEF Click
  <2>4. k.to \cap Mailed(c)' = {}
    BY <1>3
  <2>5. k.barred # {} => k.of \in Mailings /\ kind'[k.of] = "campaign"
    BY DEF letterVars
  <2>. QED
    BY <1>2, <1>3, <2>1, <2>2, <2>3, <2>4, <2>5 DEF SenderIsSound
<1>5. k.barred \cap Mailed(c)' = {}
  BY <1>3
<1>6. \A n \in Mailings : Claimed(c, n)' <=> Claimed(c, n)
  BY <1>2 DEF Claimed, Sending, Unclaimed
<1>7. \A n \in Mailings : Claimed(c, n)' =>
          row'[n].status \in {"sending", "sent", "deleted"} /\ click'[c].letter = row'[n].letter
  BY <1>2, <1>6 DEF Claimed, letterVars, Unclaimed, Inv, RecordIsWhatWentOut
<1>8. \A d \in Clicks \ {c} : ~Claimed(d, NoMailing)
  <2>. SUFFICES ASSUME NEW d \in Clicks, Claimed(d, NoMailing) PROVE FALSE
    OBVIOUS
  <2>. QED
    BY NamesAssumption, ClickFields DEF Claimed, Unclaimed, Inv
<1>. QED
  BY <1>2, <1>3, <1>4, <1>5, <1>6, <1>7, <1>8, OneClick DEF letterVars

LEMMA PressKeepsInv ==
    ASSUME Inv, NEW c \in Clicks, NEW m \in Mailings,
           PressSend(c, m) \/ PressSendCampaign(c, m)
    PROVE  Inv'
<1>1. PICK to \in SUBSET Addresses, barred \in SUBSET Addresses :
        /\ SetClick(c, Pressed(m, to, barred))
        /\ barred \cap to = {}
        /\ barred # {} => kind[m] = "campaign"
  <2>1. CASE PressSend(c, m)
    BY <2>1 DEF PressSend
  <2>2. CASE PressSendCampaign(c, m)
    <3>1. PICK table \in Tables :
            SetClick(c, Pressed(m, RecipientsForStatuses(table, row[m].audience), OptedOut(table)))
      BY <2>2 DEF PressSendCampaign
    <3>2. Held(table) \subseteq Enquiry
      BY DEF Held, Tables
    <3>3. OptedOut(table) \in SUBSET Addresses
      BY <3>2, PeopleAssumption DEF OptedOut, Enquiry
    <3>4. /\ RecipientsForStatuses(table, row[m].audience) \in SUBSET Addresses
          /\ OptedOut(table) \cap RecipientsForStatuses(table, row[m].audience) = {}
      BY <3>2, PeopleAssumption DEF RecipientsForStatuses, Enquiry
    <3>. QED
      BY <2>2, <3>1, <3>3, <3>4 DEF PressSendCampaign
  <2>. QED
    BY <2>1, <2>2
<1>. DEFINE k == Pressed(m, to, barred)
<1>2. /\ k \in Click /\ k.pc = "pressed" /\ k.of = m /\ k.at = NoAddress /\ k.tally = 0
      /\ k.to = to /\ k.barred = barred
  BY NamesAssumption DEF Pressed, At, Click
<1>3. click[c].pc \in Unclaimed /\ UNCHANGED <<letterVars, copies>>
  BY DEF PressSend, PressSendCampaign, Unclaimed
<1>4. m # NoMailing /\ k.pc \in Unclaimed
  BY <1>2, NamesAssumption DEF Unclaimed
<1>. HIDE DEF k
<1>5. SetClick(c, k)
  BY <1>1 DEF k
<1>. QED
  BY <1>1, <1>2, <1>3, <1>4, <1>5, QuietClick

LEMMA WaitKeepsInv ==
    ASSUME Inv, NEW c \in Clicks, EmailPost(c) \/ ClaimRefused(c)
    PROVE  Inv'
<1>1. PICK k \in {Idle, Posting} : SetClick(c, k)
  BY DEF EmailPost, ClaimRefused
<1>2. /\ k \in Click /\ k.pc \in {"idle", "posting"} /\ k.of = NoMailing /\ k.at = NoAddress
      /\ k.tally = 0 /\ k.to = {} /\ k.barred = {}
  BY NamesAssumption DEF Idle, Posting, At, Click
<1>3. click[c].pc \in Unclaimed /\ UNCHANGED <<letterVars, copies>>
  BY DEF EmailPost, ClaimRefused, Unclaimed
<1>. QED
  BY <1>1, <1>2, <1>3, QuietClick DEF Unclaimed

LEMMA EndKeepsInv ==
    ASSUME Inv, NEW c \in Clicks, TimeOut(c) \/ Crash(c)
    PROVE  Inv'
<1>. DEFINE k == Ended(click[c])
<1>1. Sending(c) /\ SetClick(c, k) /\ UNCHANGED <<letterVars, copies>>
  BY DEF TimeOut, Crash
<1>2. click[c].of \in Mailings /\ click[c].letter \in Letters
  BY <1>1, ClickFields DEF Inv
<1>3. /\ k \in Click /\ k.pc = "done" /\ k.of = click[c].of /\ k.letter = click[c].letter
      /\ k.at = NoAddress /\ k.tally = 0 /\ k.to = {} /\ k.barred = {}
  BY <1>2, NamesAssumption DEF Ended, At, Click
<1>4. k.of # NoMailing
  BY <1>2, <1>3, NamesAssumption
<1>. HIDE DEF k
<1>. QED
  BY <1>1, <1>3, <1>4, QuietClick

\* A click that claims m, which it has not mailed yet, for the letter m holds now.
LEMMA NewClaim ==
    ASSUME Inv, NEW c \in Clicks, NEW m \in Mailings, click[c].pc \in {"pressed", "posting"},
           NEW r \in Row, row' = [row EXCEPT ![m] = r], r.status = "sending", r.age = 0,
           \A d \in Clicks : Claimed(d, m) => r.letter = row[m].letter,
           NEW to \in SUBSET Addresses, NEW barred \in SUBSET Addresses,
           SetClick(c, Mailing(m, r.letter, to, barred)),
           barred \cap to = {}, barred # {} => kind[m] = "campaign",
           UNCHANGED <<kind, recorded, deleting, copies>>
    PROVE  Inv'
<1>. DEFINE k == Mailing(m, r.letter, to, barred)
<1>1. /\ k \in Click /\ k.pc = "mailing" /\ k.of = m /\ k.at = NoAddress /\ k.tally = 0
      /\ k.to = to /\ k.barred = barred /\ k.letter = r.letter /\ k.run = 0
  BY DEF Mailing, At, Click, Row
<1>2. m # NoMailing /\ NoAddress \notin Addresses
  BY NamesAssumption
<1>3. SetClick(c, k)
  OBVIOUS
<1>. HIDE DEF k
<1>4. /\ row' \in [Mailings -> Row] /\ row'[m] = r
      /\ \A n \in Mailings \ {m} : row'[n] = row[n]
  BY DEF Inv, TypeOK
<1>5. /\ TypeOK' /\ click'[c] = k
      /\ \A d \in Clicks \ {c} : click'[d] = click[d] /\ copies'[d] = copies[d]
  BY <1>1, <1>2, <1>3, <1>4, ClickSet DEF Inv, TypeOK
<1>6. Mailed(c)' = {} /\ Mailed(c) = {}
  BY DEF Mailed, Unclaimed, Inv, SendersAreSound, SenderIsSound
<1>7. SenderIsSound(c)'
  <2>1. 0 <= Cardinality(Mailed(c)' \ {NoAddress})
    BY <1>6, MoreMailboxes
  <2>2. row'[m].age <= 0
    BY <1>4
  <2>3. NoAddress \notin to /\ k.pc \notin Unclaimed
    BY <1>1, <1>2 DEF Unclaimed
  <2>. QED
    BY <1>1, <1>5, <1>6, <2>1, <2>2, <2>3 DEF SenderIsSound
<1>8. \A n \in Mailings : ~Claimed(c, n) /\ (Claimed(c, n)' <=> n = m)
  BY <1>1, <1>5 DEF Claimed, Unclaimed
<1>9. k.barred \cap Mailed(c)' = {}
  BY <1>6
<1>10. \A n \in Mailings : row'[n].status = "sent" =>
           row[n].status = "sent" /\ row'[n].count = row[n].count
  BY <1>4
<1>. QED
  BY <1>1, <1>4, <1>5, <1>6, <1>7, <1>8, <1>9, <1>10, OneClick

LEMMA ClaimKeepsInv ==
    ASSUME Inv, NEW c \in Clicks, Claim(c)
    PROVE  Inv'
<1>. DEFINE m == click[c].of
            r == [status |-> "sending", letter |-> row[m].letter, audience |-> row[m].audience,
                  age |-> 0, count |-> row[m].count]
<1>1. /\ click[c].pc = "pressed" /\ row' = [row EXCEPT ![m] = r]
      /\ UNCHANGED <<kind, recorded, deleting, copies>>
  BY DEF Claim, SetStatus, SetRow
<1>2. m \in Mailings
  BY <1>1, ClickFields DEF Inv
<1>3. row[m] \in Row
  BY <1>2 DEF Inv, TypeOK
<1>4. r \in Row /\ r.status = "sending" /\ r.age = 0 /\ r.letter = row[m].letter
  BY <1>3 DEF Row
<1>5. PICK to \in SUBSET Addresses :
        /\ SetClick(c, Mailing(m, row[m].letter, to, click[c].barred))
        /\ kind[m] = "campaign" => to = click[c].to
  <2>1. RecipientEmails \subseteq SUBSET Addresses /\ click[c].to \in SUBSET Addresses
    BY PeopleAssumption, ClickFields DEF RecipientEmails, Inv
  <2>2. \E to \in IF kind[m] = "campaign" THEN {click[c].to} ELSE RecipientEmails :
          SetClick(c, Mailing(m, row[m].letter, to, click[c].barred))
    BY DEF Claim
  <2>. QED
    BY <2>1, <2>2
<1>6. /\ click[c].barred \in SUBSET Addresses
      /\ click[c].barred \cap click[c].to = {}
      /\ click[c].barred # {} => kind[m] = "campaign"
  BY ClickFields DEF Inv, SendersAreSound, SenderIsSound
<1>7. click[c].barred \cap to = {}
  BY <1>5, <1>6
<1>8. SetClick(c, Mailing(m, r.letter, to, click[c].barred))
  BY <1>4, <1>5
<1>. HIDE DEF m, r
<1>. QED
  BY <1>1, <1>2, <1>4, <1>6, <1>7, <1>8, NewClaim

LEMMA PostKeepsInv ==
    ASSUME Inv, NEW c \in Clicks, NEW m \in Mailings, StartPostEmail(c, m)
    PROVE  Inv'
<1>1. PICK l \in Letters, to \in RecipientEmails :
        /\ SetRow(m, "sending", l, {}, 0, 0)
        /\ SetClick(c, Mailing(m, l, to, {}))
  BY DEF StartPostEmail
<1>. DEFINE r == [status |-> "sending", letter |-> l, audience |-> {}, age |-> 0, count |-> 0]
<1>2. /\ r \in Row /\ r.status = "sending" /\ r.age = 0 /\ r.letter = l
      /\ row' = [row EXCEPT ![m] = r]
  BY <1>1 DEF Row, SetRow
<1>3. \A d \in Clicks : ~Claimed(d, m)
  BY DraftsAreUnclaimed DEF StartPostEmail
<1>4. to \in SUBSET Addresses
  BY PeopleAssumption DEF RecipientEmails
<1>5. click[c].pc = "posting" /\ UNCHANGED <<kind, recorded, deleting, copies>>
  BY DEF StartPostEmail
<1>6. SetClick(c, Mailing(m, r.letter, to, {}))
  BY <1>1
<1>7. {} \in SUBSET Addresses /\ {} \cap to = {}
  OBVIOUS
<1>8. click[c].pc \in {"pressed", "posting"}
  BY <1>5
<1>. HIDE DEF r
<1>. QED
  BY <1>2, <1>3, <1>4, <1>5, <1>6, <1>7, <1>8, NewClaim, Zenon

-----------------------------------------------------------------------------
(* Steps of the goroutine.                                                 *)

\* What a step that keeps click c at work leaves to show.
LEMMA AtWork ==
    ASSUME Inv, NEW c \in Clicks, Sending(c),
           NEW pc \in {"mailing", "delivered", "failed"}, NEW to \in SUBSET click[c].to,
           NEW a \in Addresses \cup {NoAddress}, NEW tally \in Nat,
           SetClick(c, Working(click[c], pc, to, a, tally, click[c].run)),
           pc = "mailing" <=> a = NoAddress, a \notin to,
           UNCHANGED <<kind, row, deleting>>,
           recorded' \in [Mailings -> [Addresses -> {"none", "sent", "failed"}]],
           \A n \in Mailings : \A b \in Addresses : recorded'[n][b] = "sent" =>
               recorded[n][b] = "sent" \/ (n = click[c].of /\ b \in Mailed(c)'),
           copies' \in [Clicks -> [Addresses -> 0..2]],
           \A d \in Clicks \ {c} : copies'[d] = copies[d],
           Mailed(c) \subseteq Mailed(c)',
           Mailed(c)' \subseteq Mailed(c) \cup (click[c].to \ to),
           pc = "delivered" => a \in Mailed(c)',
           tally <= Cardinality(Mailed(c)' \ {a})
    PROVE  Inv'
<1>. DEFINE k == Working(click[c], pc, to, a, tally, click[c].run)
            m == click[c].of
<1>1. /\ m \in Mailings /\ click[c].to \in SUBSET Addresses /\ click[c].letter \in Letters
      /\ click[c].run \in 0..SendTimeout /\ click[c].barred \in SUBSET Addresses
  BY ClickFields DEF Inv
<1>2. /\ k \in Click /\ k.pc = pc /\ k.of = m /\ k.to = to /\ k.at = a /\ k.tally = tally
      /\ k.letter = click[c].letter /\ k.run = click[c].run /\ k.barred = click[c].barred
  BY <1>1 DEF Working, Click
<1>3. m # NoMailing /\ SetClick(c, k)
  BY <1>1, NamesAssumption
<1>. HIDE DEF k
<1>4. /\ TypeOK' /\ click'[c] = k /\ \A d \in Clicks \ {c} : click'[d] = click[d]
  <2>1. /\ k.pc \in {"idle", "posting"} <=> k.of = NoMailing
        /\ k.pc \in {"delivered", "failed"} <=> k.at # NoAddress
    BY <1>2, <1>3
  <2>. QED
    BY <1>2, <1>3, <2>1, ClickSet DEF Inv, TypeOK
<1>5. SenderIsSound(c)
  BY DEF Inv, SendersAreSound
<1>6. SenderIsSound(c)'
  <2>1. row'[m].status = "sending" => row'[m].age <= click[c].run
    BY <1>5 DEF SenderIsSound
  <2>2. pc \notin Unclaimed
    BY DEF Unclaimed
  <2>3. to \cap Mailed(c)' = {}
    BY <1>5 DEF SenderIsSound
  <2>4. click[c].barred \cap to = {}
    BY <1>5 DEF SenderIsSound
  <2>5. click[c].barred # {} => m \in Mailings /\ kind'[m] = "campaign"
    BY <1>5 DEF SenderIsSound
  <2>. QED
    BY <1>2, <1>4, <2>1, <2>2, <2>3, <2>4, <2>5 DEF SenderIsSound
<1>7. k.barred \cap Mailed(c)' = {}
  BY <1>2, <1>5 DEF SenderIsSound, Inv, OptOutsHonoured
<1>8. \A n \in Mailings : (Claimed(c, n) <=> n = m) /\ (Claimed(c, n)' <=> n = m)
  BY <1>2, <1>4 DEF Claimed, Sending, Unclaimed
<1>9. row[m].status \in {"sending", "sent", "deleted"} /\ click[c].letter = row[m].letter
  BY <1>1, <1>8 DEF Inv, RecordIsWhatWentOut
<1>10. \A n \in Mailings : \A b \in Addresses : recorded'[n][b] = "sent" =>
          recorded[n][b] = "sent" \/ b \in Reached(n)'
  BY <1>8 DEF Reached
<1>11. \A d \in Clicks : Claimed(d, m) => row[m].status \in {"sending", "sent", "deleted"}
  BY <1>9
<1>. HIDE DEF m
<1>. QED
  BY <1>2, <1>4, <1>6, <1>7, <1>8, <1>9, <1>10, <1>11, OneClick

\* One address gets at most one copy, from a click that has put none there yet.
LEMMA OneCopy ==
    ASSUME Inv, NEW c \in Clicks, NEW a \in Addresses, Mail(c, a)
    PROVE  /\ Sending(c) /\ a \in click[c].to /\ click[c].at = NoAddress /\ a # NoAddress
           /\ UNCHANGED <<kind, row, recorded, deleting>>
           /\ a \notin Mailed(c) /\ click[c].tally \in Nat /\ click[c].to \in SUBSET Addresses
           /\ click[c].tally <= Cardinality(Mailed(c) \ {NoAddress})
           /\ copies[c][a] = 0
           /\ \E n \in 0..1, pc \in {"delivered", "failed"} :
                /\ copies' = [copies EXCEPT ![c] = [copies[c] EXCEPT ![a] = n]]
                /\ pc = "delivered" => n = 1
                /\ SetClick(c, Working(click[c], pc, click[c].to \ {a}, a,
                                        click[c].tally, click[c].run))
<1>1. /\ Sending(c) /\ click[c].pc = "mailing" /\ a \in click[c].to /\ click[c].at = NoAddress
      /\ UNCHANGED <<kind, row, recorded, deleting>>
  BY DEF Mail, Sending, letterVars, Inv, TypeOK
<1>2. a \notin Mailed(c) /\ click[c].tally \in Nat /\ click[c].to \in SUBSET Addresses
      /\ click[c].tally <= Cardinality(Mailed(c) \ {NoAddress})
  BY <1>1, ClickFields DEF Inv, SendersAreSound, SenderIsSound
<1>3. a # NoAddress /\ Mailed(c) \ {NoAddress} = Mailed(c)
  BY NamesAssumption DEF Mailed
<1>4. copies[c][a] = 0
  BY <1>2 DEF Mailed, Inv, TypeOK
<1>5. \E n \in 0..1, pc \in {"delivered", "failed"} :
        /\ copies' = [copies EXCEPT ![c] = [copies[c] EXCEPT ![a] = n]]
        /\ pc = "delivered" => n = 1
        /\ SetClick(c, Working(click[c], pc, click[c].to \ {a}, a, click[c].tally, click[c].run))
  <2>1. PICK first \in Outcomes, second \in Outcomes :
          /\ copies' = [copies EXCEPT ![c] =
                 [copies[c] EXCEPT ![a] = copies[c][a] + CopiesOf(first, second)]]
          /\ SetClick(c, Working(click[c],
                 IF Result(first, second) = "accepted" THEN "delivered" ELSE "failed",
                 click[c].to \ {a}, a, click[c].tally, click[c].run))
    BY DEF Mail
  <2>. DEFINE pc == IF Result(first, second) = "accepted" THEN "delivered" ELSE "failed"
  <2>2. /\ CopiesOf(first, second) \in 0..1 /\ pc \in {"delivered", "failed"}
        /\ pc = "delivered" => CopiesOf(first, second) = 1
    BY DEF CopiesOf, Copies, Result, RateLimited, Outcomes
  <2>3. copies[c][a] + CopiesOf(first, second) = CopiesOf(first, second)
    BY <1>4, <2>2
  <2>4. copies' = [copies EXCEPT ![c] = [copies[c] EXCEPT ![a] = CopiesOf(first, second)]]
    BY <2>1, <2>3
  <2>5. SetClick(c, Working(click[c], pc, click[c].to \ {a}, a, click[c].tally, click[c].run))
    BY <2>1
  <2>. HIDE DEF pc
  <2>. QED
    BY <2>2, <2>4, <2>5
<1>. QED
  BY <1>1, <1>2, <1>3, <1>4, <1>5

LEMMA MailKeepsInv ==
    ASSUME Inv, NEW c \in Clicks, NEW a \in Addresses, Mail(c, a)
    PROVE  Inv'
<1>1. /\ Sending(c) /\ a \in click[c].to /\ click[c].at = NoAddress
      /\ UNCHANGED <<kind, row, recorded, deleting>>
  BY OneCopy
<1>2. a \notin Mailed(c) /\ click[c].tally \in Nat /\ click[c].to \in SUBSET Addresses
      /\ click[c].tally <= Cardinality(Mailed(c) \ {NoAddress})
  BY OneCopy
<1>3. a # NoAddress /\ Mailed(c) \ {NoAddress} = Mailed(c)
  BY NamesAssumption DEF Mailed
<1>5. PICK n \in 0..1, pc \in {"delivered", "failed"} :
        /\ copies' = [copies EXCEPT ![c] = [copies[c] EXCEPT ![a] = n]]
        /\ pc = "delivered" => n = 1
        /\ SetClick(c, Working(click[c], pc, click[c].to \ {a}, a, click[c].tally, click[c].run))
  BY OneCopy
<1>6. /\ copies' \in [Clicks -> [Addresses -> 0..2]]
      /\ \A d \in Clicks \ {c} : copies'[d] = copies[d]
      /\ copies'[c][a] = n
      /\ \A b \in Addresses \ {a} : copies'[c][b] = copies[c][b]
  BY <1>5 DEF Inv, TypeOK
<1>7. /\ Mailed(c) \subseteq Mailed(c)' /\ Mailed(c)' \subseteq Mailed(c) \cup {a}
      /\ Mailed(c)' \ {a} = Mailed(c) /\ (n = 1 => a \in Mailed(c)')
  BY <1>2, <1>6 DEF Mailed
<1>8. click[c].tally <= Cardinality(Mailed(c)' \ {a})
  BY <1>2, <1>3, <1>7
<1>9. Mailed(c)' \subseteq Mailed(c) \cup (click[c].to \ (click[c].to \ {a}))
  BY <1>1, <1>7
<1>10. recorded' \in [Mailings -> [Addresses -> {"none", "sent", "failed"}]]
  BY <1>1 DEF Inv, TypeOK
<1>11. /\ pc \in {"mailing", "delivered", "failed"} /\ (pc = "mailing" <=> a = NoAddress)
       /\ a \in Addresses \cup {NoAddress}
  BY <1>3
<1>12. pc = "delivered" => a \in Mailed(c)'
  BY <1>5, <1>7
<1>13. \A n1 \in Mailings : \A b \in Addresses : recorded'[n1][b] = "sent" =>
           recorded[n1][b] = "sent" \/ (n1 = click[c].of /\ b \in Mailed(c)')
  BY <1>1
<1>14. Mailed(c) \subseteq Mailed(c)'
  BY <1>7
<1>15. PICK to \in SUBSET click[c].to : to = click[c].to \ {a}
  OBVIOUS
<1>16. /\ SetClick(c, Working(click[c], pc, to, a, click[c].tally, click[c].run))
       /\ a \notin to /\ Mailed(c)' \subseteq Mailed(c) \cup (click[c].to \ to)
  BY <1>5, <1>9, <1>15
<1>. QED
  BY <1>1, <1>2, <1>6, <1>8, <1>10, <1>11, <1>12, <1>13, <1>14, <1>16, AtWork

LEMMA RecordKeepsInv ==
    ASSUME Inv, NEW c \in Clicks, Record(c)
    PROVE  Inv'
<1>. DEFINE m == click[c].of
            result == IF click[c].pc = "delivered" THEN "sent" ELSE "failed"
            tally == click[c].tally + (IF result = "sent" THEN 1 ELSE 0)
<1>1. /\ Sending(c) /\ click[c].pc \in {"delivered", "failed"}
      /\ UNCHANGED <<kind, row, deleting, copies>>
      /\ SetClick(c, Working(click[c], "mailing", click[c].to, NoAddress, tally, click[c].run))
      /\ \/ recorded' = [recorded EXCEPT ![m] = [@ EXCEPT ![click[c].at] = result]]
         \/ UNCHANGED recorded
  BY DEF Record, Sending
<1>2. /\ m \in Mailings /\ click[c].tally \in Nat /\ click[c].to \in SUBSET Addresses
      /\ click[c].at \in Addresses
  BY <1>1, ClickFields DEF Inv, TypeOK
<1>3. SenderIsSound(c)
  BY DEF Inv, SendersAreSound
<1>4. result = "sent" => click[c].at \in Mailed(c)
  BY <1>3 DEF SenderIsSound
<1>5. Mailed(c)' = Mailed(c) /\ Mailed(c) \ {NoAddress} = Mailed(c)
  BY <1>1, NamesAssumption DEF Mailed
<1>6. tally \in Nat /\ tally <= Cardinality(Mailed(c)' \ {NoAddress})
  <2>1. /\ Cardinality(Mailed(c)) \in Nat /\ Cardinality(Mailed(c) \ {click[c].at}) \in Nat
        /\ Cardinality(Mailed(c) \ {click[c].at}) <= Cardinality(Mailed(c))
        /\ IsFiniteSet(Mailed(c))
    BY MailedType, MoreMailboxes
  <2>2. click[c].at \in Mailed(c) =>
          Cardinality(Mailed(c) \ {click[c].at}) = Cardinality(Mailed(c)) - 1
    BY <2>1, FS_RemoveElement
  <2>3. click[c].tally <= Cardinality(Mailed(c) \ {click[c].at})
    BY <1>3 DEF SenderIsSound
  <2>4. tally = IF click[c].pc = "delivered" THEN click[c].tally + 1 ELSE click[c].tally
    BY <1>2
  <2>5. tally \in Nat /\ tally <= Cardinality(Mailed(c))
    BY <1>2, <1>4, <2>1, <2>2, <2>3, <2>4
  <2>. HIDE DEF tally
  <2>. QED
    BY <1>5, <2>5
<1>7. /\ recorded' \in [Mailings -> [Addresses -> {"none", "sent", "failed"}]]
      /\ \A n \in Mailings : \A b \in Addresses : recorded'[n][b] = "sent" =>
           recorded[n][b] = "sent" \/ (n = m /\ b \in Mailed(c)')
  <2>1. recorded \in [Mailings -> [Addresses -> {"none", "sent", "failed"}]]
    BY DEF Inv, TypeOK
  <2>2. CASE UNCHANGED recorded
    BY <2>1, <2>2
  <2>3. CASE recorded' = [recorded EXCEPT ![m] = [@ EXCEPT ![click[c].at] = result]]
    <3>1. result \in {"none", "sent", "failed"}
      OBVIOUS
    <3>. HIDE DEF result, m
    <3>2. recorded[m] \in [Addresses -> {"none", "sent", "failed"}]
      BY <1>2, <2>1
    <3>3. [recorded[m] EXCEPT ![click[c].at] = result] \in [Addresses -> {"none", "sent", "failed"}]
      BY <1>2, <3>1, <3>2
    <3>4. recorded' \in [Mailings -> [Addresses -> {"none", "sent", "failed"}]]
      BY <1>2, <2>1, <2>3, <3>3
    <3>5. \A n \in Mailings : \A b \in Addresses :
            n # m \/ b # click[c].at => recorded'[n][b] = recorded[n][b]
      BY <1>2, <2>1, <2>3
    <3>6. recorded'[m][click[c].at] = result
      BY <1>2, <2>1, <2>3
    <3>. QED
      BY <1>4, <1>5, <3>4, <3>5, <3>6
  <2>. QED
    BY <1>1, <2>2, <2>3
<1>8. copies' \in [Clicks -> [Addresses -> 0..2]] /\ \A d \in Clicks \ {c} : copies'[d] = copies[d]
  BY <1>1 DEF Inv, TypeOK
<1>9. NoAddress \notin click[c].to
  BY <1>2, NamesAssumption
<1>. HIDE DEF result, tally
<1>. QED
  BY <1>1, <1>2, <1>5, <1>6, <1>7, <1>8, <1>9, AtWork

LEMMA FinishKeepsInv ==
    ASSUME Inv, NEW c \in Clicks, Finish(c)
    PROVE  Inv'
<1>0. PICK m \in Mailings : m = click[c].of
  BY ClickFields DEF Finish, Inv
<1>. DEFINE k == Ended(click[c])
            r == [status |-> "sent", letter |-> row[m].letter, audience |-> row[m].audience,
                  age |-> 0, count |-> click[c].tally]
<1>1. /\ Sending(c) /\ click[c].pc = "mailing"
      /\ SetClick(c, k) /\ UNCHANGED <<kind, recorded, deleting, copies>>
      /\ IF Exists(m) THEN row' = [row EXCEPT ![m] = r] ELSE UNCHANGED row
  BY <1>0 DEF Finish, Sending, SetRow
<1>2. /\ click[c].tally \in Nat /\ click[c].letter \in Letters
      /\ click[c].at = NoAddress
  BY <1>1, ClickFields DEF Inv, TypeOK
<1>3. row[m] \in Row /\ r \in Row /\ r.status = "sent" /\ r.letter = row[m].letter /\ r.age = 0
      /\ r.count = click[c].tally
  <2>1. row[m] \in Row
    BY <1>2 DEF Inv, TypeOK
  <2>. QED
    BY <1>2, <2>1 DEF Row
<1>4. /\ k \in Click /\ k.pc = "done" /\ k.of = m /\ k.letter = click[c].letter
      /\ k.at = NoAddress /\ k.tally = 0 /\ k.to = {} /\ k.barred = {}
  BY <1>0, <1>2 DEF Ended, At, Click
<1>5. m # NoMailing
  BY NamesAssumption
<1>. HIDE DEF k, r
<1>6. /\ row' \in [Mailings -> Row] /\ \A n \in Mailings \ {m} : row'[n] = row[n]
      /\ row'[m] = IF Exists(m) THEN r ELSE row[m]
  BY <1>1, <1>2, <1>3 DEF Inv, TypeOK
<1>7. /\ TypeOK' /\ click'[c] = k
      /\ \A d \in Clicks \ {c} : click'[d] = click[d] /\ copies'[d] = copies[d]
  BY <1>1, <1>4, <1>5, <1>6, ClickSet DEF Inv, TypeOK
<1>8. Mailed(c)' = Mailed(c) /\ SenderIsSound(c)
  BY <1>1 DEF Mailed, Inv, SendersAreSound
<1>9. SenderIsSound(c)'
  <2>1. ~Sending(c)' /\ k.pc \notin Unclaimed
    BY <1>4, <1>7 DEF Sending, Unclaimed
  <2>2. 0 <= Cardinality(Mailed(c)' \ {NoAddress})
    BY <1>8, MailedType, MoreMailboxes
  <2>. QED
    BY <1>4, <1>7, <2>1, <2>2 DEF SenderIsSound
<1>10. \A n \in Mailings : (Claimed(c, n) <=> n = m) /\ (Claimed(c, n)' <=> n = m)
  BY <1>0, <1>1, <1>4, <1>7 DEF Claimed, Unclaimed
<1>11. row[m].status \in {"sending", "sent", "deleted"} /\ click[c].letter = row[m].letter
  BY <1>2, <1>10 DEF Inv, RecordIsWhatWentOut
<1>12. row'[m].status \in {"sending", "sent", "deleted"} /\ row'[m].letter = row[m].letter
  BY <1>3, <1>6, <1>11
<1>13. click[c].tally <= Cardinality(Reached(m)')
  <2>1. Mailed(c) \subseteq Reached(m)' /\ Reached(m)' \subseteq Addresses
    BY <1>2, <1>8, <1>10 DEF Reached, Mailed
  <2>2. Mailed(c) \ {NoAddress} = Mailed(c)
    BY NamesAssumption DEF Mailed
  <2>3. click[c].tally <= Cardinality(Mailed(c))
    BY <1>2, <1>8, <2>2 DEF SenderIsSound
  <2>. QED
    BY <1>2, <2>1, <2>3, MoreMailboxes
<1>14. row'[m].status = "sent" => \/ row[m].status = "sent" /\ row'[m].count = row[m].count
                                 \/ row'[m].count <= Cardinality(Reached(m)')
  BY <1>3, <1>6, <1>13
<1>15. k.barred \cap Mailed(c)' = {}
  BY <1>4
<1>16. row'[m] = row[m] \/ (row'[m].age = 0 /\ row'[m].status # "none")
  BY <1>3, <1>6
<1>. QED
  BY <1>1, <1>4, <1>6, <1>7, <1>8, <1>9, <1>10, <1>11, <1>12, <1>14, <1>15, <1>16, OneClick

\* Ten minutes older: a goroutine and its mailing age together.
LEMMA TickKeepsInv ==
    ASSUME Inv, Tick
    PROVE  Inv'
<1>1. \A c \in Clicks :
        /\ click'[c] \in Click
        /\ click'[c].pc = click[c].pc /\ click'[c].of = click[c].of /\ click'[c].to = click[c].to
        /\ click'[c].at = click[c].at /\ click'[c].letter = click[c].letter
        /\ click'[c].tally = click[c].tally /\ click'[c].barred = click[c].barred
        /\ Sending(c) => click'[c].run = click[c].run + 1
  <2>. SUFFICES ASSUME NEW c \in Clicks
                PROVE  /\ click'[c] \in Click
                       /\ click'[c].pc = click[c].pc /\ click'[c].of = click[c].of
                       /\ click'[c].to = click[c].to
                       /\ click'[c].at = click[c].at /\ click'[c].letter = click[c].letter
                       /\ click'[c].tally = click[c].tally /\ click'[c].barred = click[c].barred
                       /\ Sending(c) => click'[c].run = click[c].run + 1
    OBVIOUS
  <2>1. CASE ~Sending(c)
    BY <2>1 DEF Tick, Inv, TypeOK
  <2>2. CASE Sending(c)
    <3>1. /\ click[c].run < SendTimeout
          /\ click'[c] = Working(click[c], click[c].pc, click[c].to, click[c].at,
                                 click[c].tally, click[c].run + 1)
      BY <2>2 DEF Tick
    <3>2. click[c].run + 1 \in 0..SendTimeout
      BY <3>1, ClickFields DEF Inv
    <3>. QED
      BY <2>2, <3>1, <3>2, ClickFields DEF Working, Click, Inv
  <2>. QED
    BY <2>1, <2>2
<1>2. \A m \in Mailings :
        /\ row'[m] \in Row /\ row'[m].status = row[m].status /\ row'[m].letter = row[m].letter
        /\ row'[m].count = row[m].count
        /\ row[m].age \in Nat /\ row'[m].age <= row[m].age + 1
  <2>. SUFFICES ASSUME NEW m \in Mailings
                PROVE  /\ row'[m] \in Row /\ row'[m].status = row[m].status
                       /\ row'[m].letter = row[m].letter /\ row'[m].count = row[m].count
                       /\ row[m].age \in Nat /\ row'[m].age <= row[m].age + 1
    OBVIOUS
  <2>1. row[m] \in Row
    BY DEF Inv, TypeOK
  <2>2. CASE row[m].status = "sending" /\ row[m].age < AbandonedSendAge
    <3>1. row'[m] = [status |-> "sending", letter |-> row[m].letter,
                     audience |-> row[m].audience, age |-> row[m].age + 1, count |-> row[m].count]
      BY <2>2 DEF Tick
    <3>2. row[m].age \in Nat /\ row[m].age + 1 \in 0..AbandonedSendAge
      BY <2>1, <2>2 DEF Row
    <3>. QED
      BY <2>1, <2>2, <3>1, <3>2 DEF Row
  <2>3. CASE ~(row[m].status = "sending" /\ row[m].age < AbandonedSendAge)
    BY <2>1, <2>3 DEF Tick, Row
  <2>. QED
    BY <2>2, <2>3
<1>3. UNCHANGED <<kind, recorded, deleting, copies>>
  BY DEF Tick
<1>4. click' \in [Clicks -> Click] /\ row' \in [Mailings -> Row]
  <2>1. /\ click' = [c \in Clicks |-> click'[c]]
        /\ row' = [m \in Mailings |-> row'[m]]
    BY DEF Tick
  <2>. QED
    BY <1>1, <1>2, <2>1
<1>5. TypeOK'
  BY <1>1, <1>3, <1>4 DEF Inv, TypeOK
<1>6. \A c \in Clicks : /\ Mailed(c)' = Mailed(c) /\ (Sending(c)' <=> Sending(c))
                        /\ \A m \in Mailings : Claimed(c, m)' <=> Claimed(c, m)
  BY <1>1, <1>3 DEF Mailed, Sending, Claimed
<1>7. SendersAreSound'
  <2>. SUFFICES ASSUME NEW c \in Clicks PROVE SenderIsSound(c)'
    BY DEF SendersAreSound
  <2>1. SenderIsSound(c) /\ click[c].run \in Nat /\ (Sending(c) => click[c].of \in Mailings)
    BY ClickFields DEF Inv, SendersAreSound
  <2>2. Sending(c) /\ row'[click[c].of].status = "sending" =>
            row'[click[c].of].age <= click[c].run + 1
    <3>. SUFFICES ASSUME NEW m \in Mailings, m = click[c].of, Sending(c), row'[m].status = "sending"
                  PROVE  row'[m].age <= click[c].run + 1
      BY <2>1
    <3>1. row'[m].age \in Nat /\ row[m].age <= click[c].run
      BY <1>2, <2>1 DEF SenderIsSound, Row
    <3>. QED
      BY <1>2, <2>1, <3>1
  <2>. QED
    BY <1>1, <1>3, <1>6, <2>1, <2>2 DEF SenderIsSound
<1>8. DeletedRowsExist'
  BY <1>2, <1>3 DEF Inv, DeletedRowsExist, TypeOK
<1>9. RecordIsHonest'
  <2>. SUFFICES ASSUME NEW m \in Mailings
                PROVE  /\ \A a \in Addresses : recorded'[m][a] = "sent" => a \in Reached(m)'
                       /\ row'[m].status = "sent" => row'[m].count <= Cardinality(Reached(m)')
    BY DEF RecordIsHonest
  <2>1. Reached(m) \subseteq Reached(m)'
    BY <1>6, ReachedGrows
  <2>. QED
    BY <1>2, <1>3, <1>5, <2>1, RecordStaysHonest DEF Inv
<1>10. RecordIsWhatWentOut'
  BY <1>1, <1>2, <1>6 DEF Inv, RecordIsWhatWentOut
<1>11. OptOutsHonoured'
  BY <1>1, <1>6 DEF Inv, OptOutsHonoured
<1>. QED
  BY <1>5, <1>7, <1>8, <1>9, <1>10, <1>11 DEF Inv

-----------------------------------------------------------------------------
(* The invariant.                                                          *)

LEMMA InitInv == Init => Inv
<1>. SUFFICES ASSUME Init PROVE Inv
  OBVIOUS
<1>1. /\ Idle \in Click /\ Idle.pc = "idle" /\ Idle.of = NoMailing /\ Idle.at = NoAddress
      /\ Idle.to = {} /\ Idle.barred = {} /\ Idle.tally = 0
  BY NamesAssumption DEF Idle, At, Click
<1>2. TypeOK
  <2>1. /\ kind \in Kinds /\ click \in [Clicks -> Click] /\ deleting \subseteq Mailings
        /\ recorded \in [Mailings -> [Addresses -> {"none", "sent", "failed"}]]
        /\ copies \in [Clicks -> [Addresses -> 0..2]]
    BY <1>1 DEF Init
  <2>2. row \in [Mailings -> Row]
    BY NamesAssumption DEF Init, Row
  <2>3. \A c \in Clicks : click[c] = Idle
    BY DEF Init
  <2>. QED
    BY <1>1, <2>1, <2>2, <2>3 DEF TypeOK
<1>3. \A c \in Clicks : click[c] = Idle /\ Mailed(c) = {}
  BY DEF Init, Mailed
<1>4. SendersAreSound
  <2>. SUFFICES ASSUME NEW c \in Clicks PROVE SenderIsSound(c)
    BY DEF SendersAreSound
  <2>1. 0 <= Cardinality(Mailed(c) \ {NoAddress})
    BY <1>3, MoreMailboxes
  <2>. QED
    BY <1>1, <1>3, <2>1 DEF SenderIsSound, Sending
<1>5. DeletedRowsExist
  BY DEF Init, DeletedRowsExist
<1>6. RecordIsHonest
  BY DEF Init, RecordIsHonest
<1>7. RecordIsWhatWentOut
  BY <1>1, <1>3 DEF RecordIsWhatWentOut, Claimed, Unclaimed
<1>8. OptOutsHonoured
  BY <1>3 DEF OptOutsHonoured
<1>. QED
  BY <1>2, <1>4, <1>5, <1>6, <1>7, <1>8 DEF Inv

LEMMA StutterInv == ASSUME Inv, UNCHANGED vars PROVE Inv'
<1>1. /\ kind' = kind /\ row' = row /\ recorded' = recorded /\ deleting' = deleting
      /\ click' = click /\ copies' = copies
  BY DEF vars
<1>2. TypeOK' /\ DeletedRowsExist'
  BY <1>1 DEF Inv, TypeOK, DeletedRowsExist
<1>3. SendersAreSound'
  BY <1>1 DEF Inv, SendersAreSound, SenderIsSound, Sending, Mailed
<1>4. RecordIsHonest' /\ RecordIsWhatWentOut' /\ OptOutsHonoured'
  BY <1>1 DEF Inv, RecordIsHonest, RecordIsWhatWentOut, OptOutsHonoured, Reached, Claimed, Mailed
<1>. QED
  BY <1>2, <1>3, <1>4 DEF Inv

LEMMA NextInv == Inv /\ [Next]_vars => Inv'
<1>. SUFFICES ASSUME Inv, [Next]_vars PROVE Inv'
  OBVIOUS
<1>1. CASE UNCHANGED vars
  BY <1>1, StutterInv
<1>2. ASSUME NEW m \in Mailings, CreateDraft(m) \/ UpdateDraft(m) PROVE Inv'
  BY <1>2, DraftsKeepInv
<1>3. ASSUME NEW m \in Mailings, CheckDelete(m) PROVE Inv'
  BY <1>3, CheckDeleteKeepsInv
<1>4. ASSUME NEW m \in Mailings, DeleteCampaign(m) PROVE Inv'
  BY <1>4, DeleteKeepsInv
<1>5. ASSUME NEW c \in Clicks, NEW m \in Mailings, PressSend(c, m) \/ PressSendCampaign(c, m)
      PROVE  Inv'
  BY <1>5, PressKeepsInv
<1>6. ASSUME NEW c \in Clicks, NEW m \in Mailings, StartPostEmail(c, m) PROVE Inv'
  BY <1>6, PostKeepsInv
<1>7. ASSUME NEW c \in Clicks, EmailPost(c) \/ ClaimRefused(c) PROVE Inv'
  BY <1>7, WaitKeepsInv
<1>8. ASSUME NEW c \in Clicks, Claim(c) PROVE Inv'
  BY <1>8, ClaimKeepsInv
<1>9. ASSUME NEW c \in Clicks, NEW a \in Addresses, Mail(c, a) PROVE Inv'
  BY <1>9, MailKeepsInv
<1>10. ASSUME NEW c \in Clicks, Record(c) PROVE Inv'
  BY <1>10, RecordKeepsInv
<1>11. ASSUME NEW c \in Clicks, Finish(c) PROVE Inv'
  BY <1>11, FinishKeepsInv
<1>12. ASSUME NEW c \in Clicks, TimeOut(c) \/ Crash(c) PROVE Inv'
  BY <1>12, EndKeepsInv
<1>13. CASE Tick
  BY <1>13, TickKeepsInv
<1>. QED
  BY <1>1, <1>2, <1>3, <1>4, <1>5, <1>6, <1>7, <1>8, <1>9, <1>10, <1>11, <1>12, <1>13 DEF Next

\* All of them together, with what they rest on.
THEOREM InvariantHolds == Spec => []Inv
BY InitInv, NextInv, PTL DEF Spec

\* Every reachable state has the types TypeOK gives it.
THEOREM TypeCorrect == Spec => []TypeOK
<1>1. Inv => TypeOK
  BY DEF Inv
<1>. QED
  BY <1>1, InvariantHolds, PTL

\* recipient_count and the recipients' rows never overstate what went out,
\* however many sends race, die or are taken up again.
THEOREM RecordHonest == Spec => []RecordIsHonest
<1>1. Inv => RecordIsHonest
  BY DEF Inv
<1>. QED
  BY <1>1, InvariantHolds, PTL

\* Every copy that goes out carries the letter its mailing still shows.
THEOREM LetterFrozen == Spec => []RecordIsWhatWentOut
<1>1. Inv => RecordIsWhatWentOut
  BY DEF Inv
<1>. QED
  BY <1>1, InvariantHolds, PTL

\* No campaign mails an address that had opted out when its Send was pressed.
THEOREM OptOutsKept == Spec => []OptOutsHonoured
<1>1. Inv => OptOutsHonoured
  BY DEF Inv
<1>. QED
  BY <1>1, InvariantHolds, PTL

\* A send's context runs out before its mailing may be taken up again.
THEOREM NeverReclaimed == Spec => NeverReclaimedWhileSending
<1>1. ASSUME Inv, NEW c \in Clicks, NEW m \in Mailings, NEW d \in Clicks,
             PressSend(c, m) \/ PressSendCampaign(c, m), row[m].status = "sending", Sending(d)
      PROVE  click[d].of # m
  <2>1. row[m].age >= AbandonedSendAge
    BY <1>1 DEF PressSend, PressSendCampaign, Sendable
  <2>2. click[d].of = m => row[m].age <= click[d].run
    BY <1>1 DEF Inv, SendersAreSound, SenderIsSound
  <2>3. click[d].run \in 0..SendTimeout /\ row[m].age \in 0..AbandonedSendAge
    <3>1. row[m] \in Row
      BY <1>1 DEF Inv, TypeOK
    <3>. QED
      BY <1>1, <3>1, ClickFields DEF Inv, Row
  <2>. QED
    BY <2>1, <2>2, <2>3
<1>2. Inv => [\A c \in Clicks, m \in Mailings :
                (PressSend(c, m) \/ PressSendCampaign(c, m)) /\ row[m].status = "sending" =>
                    \A d \in Clicks : Sending(d) => click[d].of # m]_vars
  BY <1>1
<1>. QED
  BY <1>2, InvariantHolds, PTL DEF NeverReclaimedWhileSending

-----------------------------------------------------------------------------
(* BulkSend implements BulkMail.                                           *)

\* How a change of one row shows in BulkMail.
LEMMA RowSeen ==
    ASSUME TypeOK, NEW m \in Mailings,
           NEW status, NEW letter, NEW audience, NEW age, NEW count,
           SetRow(m, status, letter, audience, age, count)
    PROVE  /\ [n \in Mailings |-> row'[n].status] =
                  [[n \in Mailings |-> row[n].status] EXCEPT ![m] = status]
           /\ [n \in Mailings |-> row'[n].letter] =
                  [[n \in Mailings |-> row[n].letter] EXCEPT ![m] = letter]
           /\ letter = row[m].letter => [n \in Mailings |-> row'[n].letter] =
                  [n \in Mailings |-> row[n].letter]
BY DEF TypeOK, SetRow

Seen(k) == IF k.pc \in Unclaimed THEN NoMailing ELSE k.of

\* How a change of one click shows in BulkMail.
LEMMA ClickSeen ==
    ASSUME TypeOK, NEW c \in Clicks, NEW k, SetClick(c, k)
    PROVE  /\ [d \in Clicks |-> Seen(click'[d])] =
                  [[d \in Clicks |-> Seen(click[d])] EXCEPT ![c] = Seen(k)]
           /\ Seen(k) = Seen(click[c]) =>
                  [d \in Clicks |-> Seen(click'[d])] = [d \in Clicks |-> Seen(click[d])]
BY DEF TypeOK, SetClick

LEMMA InitImplements == Init => Promise!Init
<1>. SUFFICES ASSUME Init PROVE Promise!Init
  OBVIOUS
<1>1. \A c \in Clicks : click[c].pc = "idle"
  BY DEF Init, Idle, At
<1>. QED
  BY <1>1, NamesAssumption DEF Init, Promise!Init, Unclaimed

\* A step that changes neither status nor letter, no claim and no copy.
LEMMA Unseen ==
    ASSUME TypeOK, copies' = copies,
           \A m \in Mailings : row'[m].status = row[m].status /\ row'[m].letter = row[m].letter,
           \A c \in Clicks : Seen(click'[c]) = Seen(click[c])
    PROVE  UNCHANGED Promise!vars
BY DEF Promise!vars, Seen

\* A step of one click that claims nothing and leaves rows and copies alone.
LEMMA ClickUnseen ==
    ASSUME TypeOK, row' = row, copies' = copies, NEW c \in Clicks, NEW k, SetClick(c, k),
           Seen(k) = Seen(click[c])
    PROVE  UNCHANGED Promise!vars
<1>1. \A d \in Clicks : Seen(click'[d]) = Seen(click[d])
  BY DEF TypeOK, SetClick
<1>. QED
  BY <1>1, Unseen

LEMMA WriteImplements ==
    ASSUME Inv, NEW m \in Mailings, CreateDraft(m) \/ UpdateDraft(m)
    PROVE  Promise!Write(m)
<1>1. PICK l \in Letters, a \in SUBSET Statuses :
        /\ row[m].status \in {"none", "draft"}
        /\ SetRow(m, "draft", l, a, 0, 0)
        /\ UNCHANGED <<click, copies>>
  BY DEF CreateDraft, UpdateDraft, Audiences
<1>3. /\ [n \in Mailings |-> row'[n].status] =
             [[n \in Mailings |-> row[n].status] EXCEPT ![m] = "draft"]
      /\ [n \in Mailings |-> row'[n].letter] =
             [[n \in Mailings |-> row[n].letter] EXCEPT ![m] = l]
  BY <1>1, RowSeen DEF Inv
<1>. QED
  BY <1>1, <1>3 DEF Promise!Write

LEMMA WithdrawImplements ==
    ASSUME Inv, NEW m \in Mailings, DeleteCampaign(m)
    PROVE  Promise!Withdraw(m)
<1>1. row[m].status # "none" /\ UNCHANGED <<click, copies>>
  BY DEF DeleteCampaign, Inv, DeletedRowsExist
<1>2. SetRow(m, "deleted", row[m].letter, row[m].audience, 0, row[m].count)
  BY DEF DeleteCampaign, SetStatus
<1>3. /\ [n \in Mailings |-> row'[n].status] =
             [[n \in Mailings |-> row[n].status] EXCEPT ![m] = "deleted"]
      /\ [n \in Mailings |-> row'[n].letter] = [n \in Mailings |-> row[n].letter]
  BY <1>2, RowSeen DEF Inv
<1>. QED
  BY <1>1, <1>3 DEF Promise!Withdraw

LEMMA ClaimImplements ==
    ASSUME Inv, NEW c \in Clicks, NEW m \in Mailings, m = click[c].of, Claim(c)
    PROVE  Promise!Begin(c, m)
<1>1. /\ click[c].pc = "pressed" /\ row[m].status \in {"draft", "sending"} /\ copies' = copies
  BY DEF Claim
<1>2. SetRow(m, "sending", row[m].letter, row[m].audience, 0, row[m].count)
  BY DEF Claim, SetStatus
<1>3. PICK k : SetClick(c, k) /\ k.pc = "mailing" /\ k.of = m
  BY DEF Claim, Mailing, At
<1>4. Seen(k) = m /\ Seen(click[c]) = NoMailing
  BY <1>1, <1>3 DEF Seen, Unclaimed
<1>5. /\ [n \in Mailings |-> row'[n].status] =
             [[n \in Mailings |-> row[n].status] EXCEPT ![m] = "sending"]
      /\ [n \in Mailings |-> row'[n].letter] = [n \in Mailings |-> row[n].letter]
  BY <1>2, RowSeen DEF Inv
<1>6. [d \in Clicks |-> Seen(click'[d])] = [[d \in Clicks |-> Seen(click[d])] EXCEPT ![c] = m]
  BY <1>3, <1>4, ClickSeen DEF Inv
<1>. QED
  BY <1>1, <1>4, <1>5, <1>6 DEF Promise!Begin, Seen

LEMMA PostImplements ==
    ASSUME Inv, NEW c \in Clicks, NEW m \in Mailings, StartPostEmail(c, m)
    PROVE  Promise!WriteAndBegin(c, m)
<1>1. PICK l \in Letters, to \in RecipientEmails :
        /\ SetRow(m, "sending", l, {}, 0, 0)
        /\ SetClick(c, Mailing(m, l, to, {}))
  BY DEF StartPostEmail
<1>2. click[c].pc = "posting" /\ row[m].status = "none" /\ copies' = copies
  BY DEF StartPostEmail
<1>4. PICK k : SetClick(c, k) /\ k.pc = "mailing" /\ k.of = m
  BY <1>1 DEF Mailing, At
<1>5. Seen(k) = m /\ Seen(click[c]) = NoMailing
  BY <1>2, <1>4 DEF Seen, Unclaimed
<1>6. /\ [n \in Mailings |-> row'[n].status] =
             [[n \in Mailings |-> row[n].status] EXCEPT ![m] = "sending"]
      /\ [n \in Mailings |-> row'[n].letter] =
             [[n \in Mailings |-> row[n].letter] EXCEPT ![m] = l]
  BY <1>1, RowSeen DEF Inv
<1>7. [d \in Clicks |-> Seen(click'[d])] = [[d \in Clicks |-> Seen(click[d])] EXCEPT ![c] = m]
  BY <1>4, <1>5, ClickSeen DEF Inv
<1>. QED
  BY <1>2, <1>5, <1>6, <1>7 DEF Promise!WriteAndBegin, Seen

LEMMA MailImplements ==
    ASSUME Inv, NEW c \in Clicks, NEW a \in Addresses, Mail(c, a)
    PROVE  Promise!Deliver(c, a) \/ UNCHANGED Promise!vars
<1>1. Sending(c) /\ row' = row /\ copies[c][a] = 0
  BY OneCopy
<1>2. PICK n \in 0..1, pc \in {"delivered", "failed"} :
        /\ copies' = [copies EXCEPT ![c] = [copies[c] EXCEPT ![a] = n]]
        /\ SetClick(c, Working(click[c], pc, click[c].to \ {a}, a, click[c].tally, click[c].run))
  BY OneCopy
<1>3. PICK k : SetClick(c, k) /\ k.pc = pc /\ k.of = click[c].of
  BY <1>2 DEF Working
<1>4. Seen(k) = Seen(click[c]) /\ Seen(click[c]) # NoMailing
  BY <1>1, <1>3, ClickFields, NamesAssumption DEF Seen, Unclaimed, Sending, Inv
<1>5. [d \in Clicks |-> Seen(click'[d])] = [d \in Clicks |-> Seen(click[d])]
  BY <1>3, <1>4, ClickSeen DEF Inv
<1>6. CASE n = 0
  <2>1. copies' = copies
    BY <1>1, <1>2, <1>6 DEF Inv, TypeOK
  <2>. QED
    BY <1>1, <1>3, <1>4, <2>1, ClickUnseen DEF Inv
<1>7. CASE n = 1
  BY <1>1, <1>2, <1>4, <1>5, <1>7 DEF Promise!Deliver, Seen
<1>. QED
  BY <1>6, <1>7

LEMMA FinishImplements ==
    ASSUME Inv, NEW c \in Clicks, NEW m \in Mailings, m = click[c].of, Finish(c)
    PROVE  Promise!Finish(m) \/ UNCHANGED Promise!vars
<1>1. click[c].pc = "mailing" /\ SetClick(c, Ended(click[c])) /\ copies' = copies
  BY DEF Finish
<1>2. PICK k : SetClick(c, k) /\ k.pc = "done" /\ k.of = m
  BY <1>1 DEF Ended, At
<1>3. Seen(k) = Seen(click[c])
  BY <1>1, <1>2 DEF Seen, Unclaimed
<1>4. CASE ~Exists(m)
  <2>1. row' = row
    BY <1>4 DEF Finish
  <2>. QED
    BY <1>1, <1>2, <1>3, <2>1, ClickUnseen DEF Inv
<1>5. CASE Exists(m)
  <2>1. SetRow(m, "sent", row[m].letter, row[m].audience, 0, click[c].tally)
    BY <1>5 DEF Finish
  <2>2. /\ [n \in Mailings |-> row'[n].status] =
               [[n \in Mailings |-> row[n].status] EXCEPT ![m] = "sent"]
        /\ [n \in Mailings |-> row'[n].letter] = [n \in Mailings |-> row[n].letter]
    BY <2>1, RowSeen DEF Inv
  <2>3. [d \in Clicks |-> Seen(click'[d])] = [d \in Clicks |-> Seen(click[d])]
    BY <1>2, <1>3, ClickSeen DEF Inv
  <2>4. row[m].status \in {"sending", "sent"}
    BY <1>1, <1>5 DEF Inv, RecordIsWhatWentOut, Claimed, Unclaimed, Exists
  <2>. QED
    BY <1>1, <2>2, <2>3, <2>4 DEF Promise!Finish, Seen
<1>. QED
  BY <1>4, <1>5

\* The rest does not show: requests that claim nothing yet, records, deaths, time.
LEMMA RestUnseen ==
    ASSUME Inv,
           \/ \E m \in Mailings : CheckDelete(m)
           \/ \E c \in Clicks, m \in Mailings : PressSend(c, m) \/ PressSendCampaign(c, m)
           \/ \E c \in Clicks : \/ EmailPost(c) \/ ClaimRefused(c) \/ Record(c)
                                \/ TimeOut(c) \/ Crash(c)
           \/ Tick
    PROVE  UNCHANGED Promise!vars
<1>1. ASSUME NEW m \in Mailings, CheckDelete(m) PROVE UNCHANGED Promise!vars
  BY <1>1, Unseen DEF CheckDelete, Inv
<1>2. ASSUME NEW c \in Clicks, NEW m \in Mailings, PressSend(c, m) \/ PressSendCampaign(c, m)
      PROVE  UNCHANGED Promise!vars
  <2>0. PICK to, barred : SetClick(c, Pressed(m, to, barred))
    BY <1>2 DEF PressSend, PressSendCampaign
  <2>1. PICK k : SetClick(c, k) /\ k.pc = "pressed"
    BY <2>0 DEF Pressed, At
  <2>. QED
    BY <1>2, <2>1, ClickUnseen DEF PressSend, PressSendCampaign, Seen, Unclaimed, letterVars, Inv
<1>3. ASSUME NEW c \in Clicks, EmailPost(c) \/ ClaimRefused(c) PROVE UNCHANGED Promise!vars
  <2>1. PICK k : SetClick(c, k) /\ k.pc \in Unclaimed
    BY <1>3 DEF EmailPost, ClaimRefused, Idle, Posting, At, Unclaimed
  <2>. QED
    BY <1>3, <2>1, ClickUnseen DEF EmailPost, ClaimRefused, Seen, Unclaimed, letterVars, Inv
<1>4. ASSUME NEW c \in Clicks, Record(c) PROVE UNCHANGED Promise!vars
  <2>1. PICK k : SetClick(c, k) /\ k.pc = "mailing" /\ k.of = click[c].of
    BY <1>4 DEF Record, Working
  <2>. QED
    BY <1>4, <2>1, ClickUnseen DEF Record, Seen, Unclaimed, Inv
<1>5. ASSUME NEW c \in Clicks, TimeOut(c) \/ Crash(c) PROVE UNCHANGED Promise!vars
  <2>1. PICK k : SetClick(c, k) /\ k.pc = "done" /\ k.of = click[c].of
    BY <1>5 DEF TimeOut, Crash, Ended, At
  <2>. QED
    BY <1>5, <2>1, ClickUnseen DEF TimeOut, Crash, Sending, Seen, Unclaimed, letterVars, Inv
<1>6. CASE Tick
  <2>1. \A m \in Mailings : row'[m].status = row[m].status /\ row'[m].letter = row[m].letter
    BY <1>6 DEF Tick
  <2>2. \A c \in Clicks : Seen(click'[c]) = Seen(click[c])
    BY <1>6 DEF Tick, Working, Seen
  <2>. QED
    BY <1>6, <2>1, <2>2, Unseen DEF Tick, Inv
<1>. QED
  BY <1>1, <1>2, <1>3, <1>4, <1>5, <1>6

LEMMA NextImplements == Inv /\ [Next]_vars => [Promise!Next]_(Promise!vars)
<1>. SUFFICES ASSUME Inv, [Next]_vars PROVE Promise!Next \/ UNCHANGED Promise!vars
  OBVIOUS
<1>1. CASE UNCHANGED vars
  BY <1>1, Unseen DEF vars, Inv
<1>2. ASSUME NEW m \in Mailings, CreateDraft(m) \/ UpdateDraft(m) PROVE Promise!Next
  BY <1>2, WriteImplements DEF Promise!Next
<1>3. ASSUME NEW m \in Mailings, DeleteCampaign(m) PROVE Promise!Next
  BY <1>3, WithdrawImplements DEF Promise!Next
<1>4. ASSUME NEW c \in Clicks, Claim(c) PROVE Promise!Next
  <2>1. PICK m \in Mailings : m = click[c].of
    BY <1>4, ClickFields DEF Claim, Inv
  <2>. QED
    BY <1>4, <2>1, ClaimImplements DEF Promise!Next
<1>5. ASSUME NEW c \in Clicks, NEW m \in Mailings, StartPostEmail(c, m) PROVE Promise!Next
  BY <1>5, PostImplements DEF Promise!Next
<1>6. ASSUME NEW c \in Clicks, NEW a \in Addresses, Mail(c, a)
      PROVE  Promise!Next \/ UNCHANGED Promise!vars
  BY <1>6, MailImplements DEF Promise!Next
<1>7. ASSUME NEW c \in Clicks, Finish(c) PROVE Promise!Next \/ UNCHANGED Promise!vars
  <2>1. PICK m \in Mailings : m = click[c].of
    BY <1>7, ClickFields DEF Finish, Inv
  <2>. QED
    BY <1>7, <2>1, FinishImplements DEF Promise!Next
<1>. QED
  BY <1>1, <1>2, <1>3, <1>4, <1>5, <1>6, <1>7, RestUnseen DEF Next

\* Newsletters, emailed posts and campaigns keep the promise of BulkMail: one
\* letter from the first claim on, no claim on what is sent, one copy a send.
THEOREM PromiseIsKept == Spec => PromiseKept
BY InitImplements, NextImplements, InvariantHolds, PTL DEF Spec, PromiseKept, Promise!Spec
=============================================================================
