------------------------ MODULE ReconciliationProofs ------------------------
(***************************************************************************)
(* What holds of bank reconciliations for every number of Treasurers,      *)
(* accounts, postings and statements.  The sum of the cleared postings is  *)
(* never computed: a difference stays zero because the set it is taken     *)
(* over stays the same.                                                    *)
(***************************************************************************)
EXTENDS Reconciliation, TLAPS

Inv == /\ TypeOK
       /\ HandlersHaveRows
       /\ ClearedWhereItBelongs
       /\ OneOpenPerAccount
       /\ CompletersSawZero
       /\ BalancedUnlessOvertaken

\* The fields of a row, and of a row whose status changes.
LEMMA RowFields ==
    ASSUME NEW x \in Rec, NEW st \in {"open", "completed", "deleted"}
    PROVE  /\ WithStatus(x, st) \in Rec
           /\ WithStatus(x, st).status = st
           /\ WithStatus(x, st).account = x.account
           /\ WithStatus(x, st).closing = x.closing
           /\ WithStatus(x, st).opening = x.opening
BY DEF WithStatus, Row, Rec

\* A row that is not there has no other status.
LEMMA AbsentStatus == Absent.status = "absent" /\ Absent \notin Rec
BY DEF Absent, Rec

\* Typed rows that have a status are rows of the table.
LEMMA RowExists ==
    ASSUME TypeOK, NEW r \in Recs, rec[r].status \in {"open", "completed", "deleted"}
    PROVE  rec[r] \in Rec /\ rec[r] # Absent
BY AbsentStatus DEF TypeOK

\* The job a handler has taken on is known by its pc.
LEMMA JobKinds ==
    ASSUME TypeOK, NEW h \in Handlers
    PROVE  /\ job[h].pc = "idle" => job[h] = Idle
           /\ job[h].pc = "start" => job[h].row \in Rec /\ job[h].row.status = "open"
           /\ job[h].pc = "tick" =>
                /\ job[h].rec \in Recs /\ job[h].posting \in Postings
                /\ job[h].to \in {job[h].rec, NoRec}
           /\ job[h].pc = "complete" =>
                job[h].rec \in Recs /\ job[h] = Completing(job[h].rec)
BY DEF TypeOK, Job, Idle, Completing

\* The jobs stay well typed when one handler changes its own.
LEMMA SetJobEffect ==
    ASSUME TypeOK, NEW h \in Handlers, NEW j \in Job, SetJob(h, j)
    PROVE  /\ job' \in [Handlers -> Job]
           /\ job'[h] = j
           /\ \A g \in Handlers \ {h} : job'[g] = job[g]
BY DEF TypeOK, SetJob

\* An idle job writes nothing.
LEMMA IdleType == Idle \in Job /\ Idle.pc = "idle"
BY DEF Idle, Job

\* A reconciliation whose amounts and cleared set do not change keeps its
\* difference.
LEMMA SameBalance ==
    ASSUME NEW r \in Recs, rec'[r].closing = rec[r].closing,
           rec'[r].opening = rec[r].opening, Cleared(r)' = Cleared(r)
    PROVE  Balanced(r)' <=> Balanced(r)
BY DEF Balanced, ClearedBalanceCents

-----------------------------------------------------------------------------
(* Steps that only read.                                                   *)

\* A handler that takes on a job it may take, or drops one, keeps the
\* invariant.
LEMMA JobOnly ==
    ASSUME Inv, NEW h \in Handlers, NEW j \in Job, SetJob(h, j),
           UNCHANGED <<rec, signed, posted, clearedIn, overtaken>>,
           j.pc \in {"tick", "complete"} => rec[j.rec] # Absent,
           j.pc = "complete" => Balanced(j.rec)
    PROVE  Inv'
<1>1. /\ job' \in [Handlers -> Job]
      /\ job'[h] = j
      /\ \A g \in Handlers \ {h} : job'[g] = job[g]
  BY SetJobEffect DEF Inv
<1>2. TypeOK'
  BY <1>1 DEF Inv, TypeOK
<1>3. \A r \in Recs : Balanced(r)' <=> Balanced(r)
  BY SameBalance DEF Cleared
<1>4. HandlersHaveRows'
  BY <1>1 DEF Inv, HandlersHaveRows
<1>5. ClearedWhereItBelongs' /\ OneOpenPerAccount'
  BY DEF Inv, ClearedWhereItBelongs, OneOpenPerAccount
<1>6. CompletersSawZero'
  <2>. SUFFICES ASSUME NEW g \in Handlers, NEW r \in Recs, job'[g].pc = "complete",
                       r = job'[g].rec, rec[r].status = "open"
                PROVE  Balanced(r)' \/ r \in overtaken
    <3>1. \A g \in Handlers : job'[g].pc = "complete" => job'[g].rec \in Recs
      BY <1>1 DEF Job, Idle
    <3>. QED
      BY <3>1 DEF CompletersSawZero
  <2>1. CASE g = h
    BY <1>1, <1>3, <2>1
  <2>2. CASE g # h
    BY <1>1, <1>3, <2>2 DEF Inv, CompletersSawZero
  <2>. QED
    BY <2>1, <2>2
<1>7. BalancedUnlessOvertaken'
  BY <1>3 DEF Inv, BalancedUnlessOvertaken
<1>. QED
  BY <1>2, <1>4, <1>5, <1>6, <1>7 DEF Inv

\* Reading the opening balance: zero, or the closing balance of a row.
LEMMA StartKeepsInv ==
    ASSUME Inv, NEW h \in Handlers, NEW a \in Accounts, NEW stmt \in Statements,
           StartReconciliation(h, a, stmt)
    PROVE  Inv'
<1>1. PICK opening \in OpeningBalance(a) :
        SetJob(h, Starting(Row("open", a, stmt.date, stmt.closing, opening)))
  BY DEF StartReconciliation
<1>2. opening \in Int
  <2>1. \A r \in Recs : rec[r].status = "completed" => rec[r].closing \in Int
    BY RowExists DEF Inv, Rec
  <2>. QED
    BY <1>1, <2>1 DEF OpeningBalance, LastCompleted, CompletedOf
<1>. DEFINE j == Starting(Row("open", a, stmt.date, stmt.closing, opening))
<1>3. j \in Job /\ j.pc = "start"
  <2>1. stmt.date \in Int /\ stmt.closing \in Int
    BY PostingsAssumption
  <2>2. Row("open", a, stmt.date, stmt.closing, opening) \in {x \in Rec : x.status = "open"}
    BY <1>2, <2>1 DEF Row, Rec
  <2>. QED
    BY <2>2 DEF Starting, Job
<1>. QED
  BY <1>1, <1>3, JobOnly DEF StartReconciliation

\* Reading a reconciliation to tick a posting on it.
LEMMA TickReadKeepsInv ==
    ASSUME Inv, NEW h \in Handlers, NEW r \in Recs, NEW p \in Postings,
           NEW cleared \in BOOLEAN, SetPostingCleared(h, r, p, cleared)
    PROVE  Inv'
<1>. DEFINE j == Ticking(r, p, IF cleared THEN r ELSE NoRec)
<1>1. j \in Job /\ j.pc = "tick" /\ j.rec = r
  BY DEF Ticking, Job
<1>2. rec[r] # Absent
  BY RowExists DEF SetPostingCleared, Inv
<1>. QED
  BY <1>1, <1>2, JobOnly DEF SetPostingCleared

\* Computing a difference that is zero.
LEMMA CompleteReadKeepsInv ==
    ASSUME Inv, NEW h \in Handlers, NEW r \in Recs, CompleteReconciliation(h, r)
    PROVE  Inv'
<1>1. Completing(r) \in Job /\ Completing(r).pc = "complete" /\ Completing(r).rec = r
  BY DEF Completing, Job
<1>2. rec[r] # Absent
  BY RowExists DEF CompleteReconciliation, Inv
<1>. QED
  BY <1>1, <1>2, JobOnly DEF CompleteReconciliation

\* Giving up.
LEMMA AbandonKeepsInv ==
    ASSUME Inv, NEW h \in Handlers, Abandon(h)
    PROVE  Inv'
BY IdleType, JobOnly DEF Abandon

-----------------------------------------------------------------------------
(* Steps that write reconciliations.                                       *)

\* A new row has nothing cleared on it, and is the only open one of its
\* account.
LEMMA InsertKeepsInv ==
    ASSUME Inv, NEW h \in Handlers, InsertReconciliation(h)
    PROVE  Inv'
<1>1. CASE UNCHANGED rec
  BY <1>1, IdleType, JobOnly DEF InsertReconciliation
<1>2. ASSUME NEW r \in Recs, rec[r] = Absent, rec' = [rec EXCEPT ![r] = job[h].row],
             OneOpenIndex(job[h].row.account)
      PROVE  Inv'
  <2>. DEFINE row == job[h].row
  <2>1. row \in Rec /\ row.status = "open"
    BY JobKinds DEF InsertReconciliation, Inv
  <2>2. /\ SetJob(h, Idle)
        /\ UNCHANGED <<signed, posted, clearedIn, overtaken>>
    BY DEF InsertReconciliation
  <2>3. /\ job' \in [Handlers -> Job]
        /\ job'[h].pc = "idle"
        /\ \A g \in Handlers \ {h} : job'[g] = job[g]
    BY <2>2, IdleType, SetJobEffect DEF Inv
  <2>4. /\ rec'[r] = row
        /\ \A q \in Recs \ {r} : rec'[q] = rec[q]
        /\ rec' \in [Recs -> Rec \cup {Absent}]
    BY <1>2, <2>1 DEF Inv, TypeOK
  <2>5. TypeOK'
    BY <2>2, <2>3, <2>4 DEF Inv, TypeOK
  <2>6. HandlersHaveRows'
    <3>1. \A q \in Recs : rec[q] # Absent => rec'[q] # Absent
      BY <2>1, <2>4, AbsentStatus
    <3>. QED
      BY <2>3, <3>1, JobKinds DEF Inv, HandlersHaveRows
  <2>7. ClearedWhereItBelongs'
    <3>1. \A p \in Postings : clearedIn[p] # NoRec => clearedIn[p] \in Recs \ {r}
      BY <1>2, AbsentStatus DEF Inv, TypeOK, ClearedWhereItBelongs
    <3>. QED
      BY <2>2, <2>4, <3>1 DEF Inv, ClearedWhereItBelongs
  <2>8. OneOpenPerAccount'
    BY <1>2, <2>1, <2>4 DEF Inv, OneOpenPerAccount, OneOpenIndex
  <2>9. \A q \in Recs \ {r} : Balanced(q)' <=> Balanced(q)
    BY <2>2, <2>4, SameBalance DEF Cleared
  <2>10. CompletersSawZero'
    <3>. SUFFICES ASSUME NEW g \in Handlers, NEW q, job'[g].pc = "complete",
                         q = job'[g].rec, rec'[q].status = "open"
                  PROVE  q \in Recs /\ (Balanced(q)' \/ q \in overtaken)
      BY <2>2 DEF CompletersSawZero
    <3>1. job'[g] = job[g] /\ q \in Recs
      BY <2>3, JobKinds DEF Inv
    <3>2. q # r
      BY <1>2, <3>1, AbsentStatus DEF Inv, HandlersHaveRows
    <3>. QED
      BY <2>4, <2>9, <3>1, <3>2 DEF Inv, CompletersSawZero
  <2>11. BalancedUnlessOvertaken'
    BY <2>1, <2>2, <2>4, <2>9 DEF Inv, BalancedUnlessOvertaken
  <2>. QED
    BY <2>5, <2>6, <2>7, <2>8, <2>10, <2>11 DEF Inv
<1>. QED
  BY <1>1, <1>2 DEF InsertReconciliation

\* Signing off changes a status: what its handler saw still holds, or a tick
\* overtook it.
LEMMA SignOffKeepsInv ==
    ASSUME Inv, NEW h \in Handlers, SignOff(h)
    PROVE  Inv'
<1>. DEFINE r == job[h].rec
<1>1. CASE UNCHANGED <<rec, signed>>
  BY <1>1, IdleType, JobOnly DEF SignOff
<1>2. CASE /\ rec[r].status = "open"
           /\ rec' = [rec EXCEPT ![r] = WithStatus(rec[r], "completed")]
           /\ signed' = Append(signed, r)
  <2>1. r \in Recs /\ rec[r] \in Rec /\ job[h].pc = "complete"
    BY <1>2, JobKinds, RowExists DEF SignOff, Inv
  <2>2. /\ SetJob(h, Idle)
        /\ UNCHANGED <<posted, clearedIn, overtaken>>
    BY DEF SignOff
  <2>3. /\ job' \in [Handlers -> Job]
        /\ job'[h].pc = "idle"
        /\ \A g \in Handlers \ {h} : job'[g] = job[g]
    BY <2>2, IdleType, SetJobEffect DEF Inv
  <2>4. /\ rec'[r] \in Rec /\ rec'[r].status = "completed"
        /\ rec'[r].account = rec[r].account
        /\ rec'[r].closing = rec[r].closing
        /\ rec'[r].opening = rec[r].opening
        /\ \A q \in Recs \ {r} : rec'[q] = rec[q]
        /\ rec' \in [Recs -> Rec \cup {Absent}]
    BY <1>2, <2>1, RowFields DEF Inv, TypeOK
  <2>5. TypeOK'
    BY <1>2, <2>1, <2>2, <2>3, <2>4 DEF Inv, TypeOK
  <2>6. HandlersHaveRows'
    <3>1. \A q \in Recs : rec[q] # Absent => rec'[q] # Absent
      BY <2>4, AbsentStatus
    <3>. QED
      BY <2>3, <3>1, JobKinds DEF Inv, HandlersHaveRows
  <2>7. ClearedWhereItBelongs'
    <3>1. \A p \in Postings : clearedIn[p] # NoRec => clearedIn[p] \in Recs
      BY DEF Inv, TypeOK
    <3>. QED
      BY <2>2, <2>4, <3>1 DEF Inv, ClearedWhereItBelongs
  <2>8. OneOpenPerAccount'
    BY <2>4 DEF Inv, OneOpenPerAccount
  <2>9. \A q \in Recs : Balanced(q)' <=> Balanced(q)
    <3>. SUFFICES ASSUME NEW q \in Recs PROVE Balanced(q)' <=> Balanced(q)
      OBVIOUS
    <3>1. Cleared(q)' = Cleared(q)
      BY <2>2, <2>4 DEF Cleared
    <3>. QED
      BY <2>4, <3>1, SameBalance
  <2>10. CompletersSawZero'
    <3>. SUFFICES ASSUME NEW g \in Handlers, NEW q, job'[g].pc = "complete",
                         q = job'[g].rec, rec'[q].status = "open"
                  PROVE  q \in Recs /\ (Balanced(q)' \/ q \in overtaken)
      BY <2>2 DEF CompletersSawZero
    <3>1. job'[g] = job[g] /\ q \in Recs
      BY <2>3, JobKinds DEF Inv
    <3>. QED
      BY <2>4, <2>9, <3>1 DEF Inv, CompletersSawZero
  <2>11. BalancedUnlessOvertaken'
    BY <1>2, <2>1, <2>2, <2>4, <2>9
       DEF Inv, CompletersSawZero, BalancedUnlessOvertaken
  <2>. QED
    BY <2>5, <2>6, <2>7, <2>8, <2>10, <2>11 DEF Inv
<1>. QED
  BY <1>1, <1>2 DEF SignOff

\* Deleting an open reconciliation releases its postings and no others.
LEMMA DeleteKeepsInv ==
    ASSUME Inv, NEW r \in Recs, DeleteReconciliation(r)
    PROVE  Inv'
<1>1. /\ rec[r].status = "open" /\ rec[r] \in Rec
      /\ rec' = [rec EXCEPT ![r] = WithStatus(rec[r], "deleted")]
      /\ clearedIn' = [p \in Postings |-> IF clearedIn[p] = r THEN NoRec ELSE clearedIn[p]]
      /\ UNCHANGED <<signed, posted, job, overtaken>>
  BY RowExists DEF DeleteReconciliation, Inv
<1>2. /\ rec'[r] \in Rec /\ rec'[r].status = "deleted"
      /\ \A q \in Recs \ {r} : rec'[q] = rec[q]
      /\ rec' \in [Recs -> Rec \cup {Absent}]
  BY <1>1, RowFields DEF Inv, TypeOK
<1>3. TypeOK'
  BY <1>1, <1>2 DEF Inv, TypeOK
<1>4. HandlersHaveRows'
  BY <1>1, <1>2, JobKinds, AbsentStatus DEF Inv, HandlersHaveRows
<1>5. ClearedWhereItBelongs'
  <2>1. \A p \in Postings : clearedIn'[p] # NoRec =>
          clearedIn'[p] = clearedIn[p] /\ clearedIn[p] \in Recs \ {r}
    BY <1>1 DEF Inv, TypeOK
  <2>. QED
    BY <1>1, <1>2, <2>1 DEF Inv, ClearedWhereItBelongs
<1>6. OneOpenPerAccount'
  BY <1>2 DEF Inv, OneOpenPerAccount
<1>7. \A q \in Recs \ {r} : Balanced(q)' <=> Balanced(q)
  <2>. SUFFICES ASSUME NEW q \in Recs \ {r} PROVE Balanced(q)' <=> Balanced(q)
    OBVIOUS
  <2>1. \A p \in Postings : clearedIn'[p] = q <=> clearedIn[p] = q
    BY <1>1, NoRecAssumption
  <2>2. Cleared(q)' = Cleared(q)
    BY <1>1, <1>2, <2>1 DEF Cleared, Inv, TypeOK
  <2>. QED
    BY <1>2, <2>2, SameBalance
<1>8. CompletersSawZero'
  <2>. SUFFICES ASSUME NEW g \in Handlers, NEW q, job[g].pc = "complete",
                       q = job[g].rec, rec'[q].status = "open"
                PROVE  q \in Recs /\ (Balanced(q)' \/ q \in overtaken)
    BY <1>1 DEF CompletersSawZero
  <2>1. q \in Recs
    BY JobKinds DEF Inv
  <2>. QED
    BY <1>2, <1>7, <2>1 DEF Inv, CompletersSawZero
<1>9. BalancedUnlessOvertaken'
  BY <1>1, <1>2, <1>7 DEF Inv, BalancedUnlessOvertaken
<1>. QED
  BY <1>3, <1>4, <1>5, <1>6, <1>8, <1>9 DEF Inv

-----------------------------------------------------------------------------
(* Steps that write postings.                                              *)

\* A posting that is newly posted was cleared nowhere.
LEMMA PostedKeepsInv ==
    ASSUME Inv, NEW p \in Postings, PostingPosted(p)
    PROVE  Inv'
<1>1. /\ posted' = posted \cup {p}
      /\ UNCHANGED <<rec, signed, clearedIn, job, overtaken>>
  BY DEF PostingPosted
<1>2. TypeOK' /\ HandlersHaveRows' /\ ClearedWhereItBelongs' /\ OneOpenPerAccount'
  BY <1>1 DEF Inv, TypeOK, HandlersHaveRows, ClearedWhereItBelongs, OneOpenPerAccount
<1>3. \A r \in Recs : Balanced(r)' <=> Balanced(r)
  <2>. SUFFICES ASSUME NEW r \in Recs PROVE Balanced(r)' <=> Balanced(r)
    OBVIOUS
  <2>1. Cleared(r)' = Cleared(r)
    BY <1>1, NoRecAssumption DEF Cleared, Inv, ClearedWhereItBelongs
  <2>. QED
    BY <1>1, <2>1, SameBalance
<1>4. CompletersSawZero'
  BY <1>1, <1>3, JobKinds DEF Inv, CompletersSawZero
<1>5. BalancedUnlessOvertaken'
  BY <1>1, <1>3 DEF Inv, BalancedUnlessOvertaken
<1>. QED
  BY <1>2, <1>4, <1>5 DEF Inv

\* A tick changes the cleared set of one reconciliation only; if that one is
\* signed off, or about to be, it counts as overtaken.
LEMMA TickKeepsInv ==
    ASSUME Inv, NEW h \in Handlers, TickPosting(h)
    PROVE  Inv'
<1>. DEFINE r == job[h].rec
            p == job[h].posting
            to == job[h].to
<1>1. CASE UNCHANGED <<clearedIn, overtaken>>
  BY <1>1, IdleType, JobOnly DEF TickPosting
<1>2. CASE /\ Reconcilable(r, p)
           /\ to = r => rec[r].status # "deleted"
           /\ clearedIn' = [clearedIn EXCEPT ![p] = to]
           /\ overtaken' = IF \/ rec[r].status = "completed"
                              \/ \E g \in Handlers : job[g] = Completing(r)
                           THEN overtaken \cup {r} ELSE overtaken
  <2>1. /\ r \in Recs /\ p \in Postings /\ to \in {r, NoRec}
        /\ rec[r] \in Rec /\ job[h].pc = "tick"
    BY JobKinds DEF TickPosting, Inv, TypeOK, HandlersHaveRows
  <2>2. /\ SetJob(h, Idle)
        /\ UNCHANGED <<rec, signed, posted>>
    BY DEF TickPosting
  <2>3. /\ job' \in [Handlers -> Job]
        /\ job'[h].pc = "idle"
        /\ \A g \in Handlers \ {h} : job'[g] = job[g]
    BY <2>2, IdleType, SetJobEffect DEF Inv
  <2>4. /\ clearedIn'[p] = to
        /\ clearedIn[p] \in {r, NoRec}
        /\ \A q \in Postings \ {p} : clearedIn'[q] = clearedIn[q]
        /\ clearedIn' \in [Postings -> Recs \cup {NoRec}]
    BY <1>2, <2>1 DEF Inv, TypeOK, Reconcilable
  <2>5. overtaken \subseteq overtaken' /\ overtaken' \subseteq Recs
    BY <1>2, <2>1 DEF Inv, TypeOK
  <2>6. TypeOK'
    BY <2>2, <2>3, <2>4, <2>5 DEF Inv, TypeOK
  <2>7. HandlersHaveRows'
    BY <2>2, <2>3 DEF Inv, HandlersHaveRows
  <2>8. ClearedWhereItBelongs'
    <3>1. to = r => /\ rec[r].status \in {"open", "completed"}
                    /\ rec[r].account = AccountOf[p]
                    /\ p \in posted
      BY <1>2, <2>1 DEF Reconcilable, Rec
    <3>. QED
      BY <2>1, <2>2, <2>4, <3>1 DEF Inv, ClearedWhereItBelongs
  <2>9. OneOpenPerAccount'
    BY <2>2 DEF Inv, OneOpenPerAccount
  <2>10. \A q \in Recs \ {r} : Balanced(q)' <=> Balanced(q)
    <3>. SUFFICES ASSUME NEW q \in Recs \ {r} PROVE Balanced(q)' <=> Balanced(q)
      OBVIOUS
    <3>1. \A x \in Postings : clearedIn'[x] = q <=> clearedIn[x] = q
      BY <2>1, <2>4, NoRecAssumption
    <3>2. Cleared(q)' = Cleared(q)
      BY <2>2, <3>1 DEF Cleared, Inv, TypeOK
    <3>. QED
      BY <2>2, <3>2, SameBalance
  <2>11. CompletersSawZero'
    <3>. SUFFICES ASSUME NEW g \in Handlers, NEW q, job'[g].pc = "complete",
                         q = job'[g].rec, rec[q].status = "open"
                  PROVE  q \in Recs /\ (Balanced(q)' \/ q \in overtaken')
      BY <2>2 DEF CompletersSawZero
    <3>1. job'[g] = job[g] /\ q \in Recs /\ job[g] = Completing(q)
      BY <2>3, JobKinds DEF Inv
    <3>2. CASE q = r
      BY <1>2, <3>1, <3>2
    <3>3. CASE q # r
      BY <2>5, <2>10, <3>1, <3>3 DEF Inv, CompletersSawZero
    <3>. QED
      BY <3>1, <3>2, <3>3
  <2>12. BalancedUnlessOvertaken'
    BY <1>2, <2>2, <2>5, <2>10 DEF Inv, BalancedUnlessOvertaken
  <2>. QED
    BY <2>6, <2>7, <2>8, <2>9, <2>11, <2>12 DEF Inv
<1>. QED
  BY <1>1, <1>2 DEF TickPosting

-----------------------------------------------------------------------------
(* The invariant.                                                          *)

\* It holds of an empty table.
LEMMA InitInv == ASSUME Init PROVE Inv
<1>1. TypeOK
  BY DEF Init, TypeOK, Job
<1>2. /\ \A r \in Recs : rec[r].status = "absent"
      /\ \A h \in Handlers : job[h].pc = "idle"
      /\ \A p \in Postings : clearedIn[p] = NoRec
  BY AbsentStatus, IdleType DEF Init
<1>. QED
  BY <1>1, <1>2 DEF Inv, HandlersHaveRows, ClearedWhereItBelongs, OneOpenPerAccount,
                    CompletersSawZero, BalancedUnlessOvertaken

\* Every step keeps it.
LEMMA NextKeepsInv == ASSUME Inv, [Next]_vars PROVE Inv'
<1>1. CASE UNCHANGED vars
  <2>1. \A r \in Recs : Balanced(r)' <=> Balanced(r)
    BY <1>1, SameBalance DEF vars, Cleared
  <2>2. CompletersSawZero' /\ BalancedUnlessOvertaken'
    BY <1>1, <2>1, JobKinds DEF vars, Inv, CompletersSawZero, BalancedUnlessOvertaken
  <2>. QED
    BY <1>1, <2>2 DEF vars, Inv, TypeOK, HandlersHaveRows, ClearedWhereItBelongs,
                      OneOpenPerAccount
<1>2. ASSUME NEW h \in Handlers, HandlerStep(h) PROVE Inv'
  BY <1>2, StartKeepsInv, InsertKeepsInv, TickReadKeepsInv, TickKeepsInv,
     CompleteReadKeepsInv, SignOffKeepsInv, AbandonKeepsInv DEF HandlerStep
<1>3. ASSUME NEW r \in Recs, DeleteReconciliation(r) PROVE Inv'
  BY <1>3, DeleteKeepsInv
<1>4. ASSUME NEW p \in Postings, PostingPosted(p) PROVE Inv'
  BY <1>4, PostedKeepsInv
<1>. QED
  BY <1>1, <1>2, <1>3, <1>4 DEF Next

\* The invariant of the specification.
LEMMA InvHolds == Spec => []Inv
BY InitInv, NextKeepsInv, PTL DEF Spec

-----------------------------------------------------------------------------
(* Theorems.                                                               *)

\* Rows, postings and handlers stay in their types.
THEOREM TypeCorrect == Spec => []TypeOK
<1>1. Inv => TypeOK
  BY DEF Inv
<1>. QED
  BY <1>1, InvHolds, PTL

\* A cleared posting is cleared on an existing reconciliation of its account.
THEOREM ClearedBelongs == Spec => []ClearedWhereItBelongs
<1>1. Inv => ClearedWhereItBelongs
  BY DEF Inv
<1>. QED
  BY <1>1, InvHolds, PTL

\* Only one reconciliation of an account is in progress.
THEOREM OneInProgress == Spec => []OneOpenPerAccount
<1>1. Inv => OneOpenPerAccount
  BY DEF Inv
<1>. QED
  BY <1>1, InvHolds, PTL

\* The only way to a signed-off difference is a tick that overtakes sign-off.
THEOREM BalancedOrOvertaken == Spec => []BalancedUnlessOvertaken
<1>1. Inv => BalancedUnlessOvertaken
  BY DEF Inv
<1>. QED
  BY <1>1, InvHolds, PTL

\* No step deletes, reopens or edits a signed-off reconciliation.
THEOREM SignedOffKept == Spec => SignedOffIsFinal
<1>. DEFINE Kept == \A r \in Recs : rec[r].status = "completed" => rec'[r] = rec[r]
<1>1. ASSUME Inv, Next PROVE Kept
  <2>1. CASE UNCHANGED rec
    BY <2>1
  <2>2. ASSUME NEW r \in Recs, rec[r].status # "completed",
               NEW x, rec' = [rec EXCEPT ![r] = x]
        PROVE  Kept
    BY <1>1, <2>2 DEF Inv, TypeOK
  <2>3. ASSUME NEW h \in Handlers, InsertReconciliation(h) PROVE Kept
    BY <2>1, <2>2, <2>3, AbsentStatus DEF InsertReconciliation
  <2>4. ASSUME NEW h \in Handlers, SignOff(h) PROVE Kept
    <3>1. job[h].rec \in Recs
      BY <1>1, <2>4, JobKinds DEF SignOff, Inv
    <3>. QED
      BY <2>1, <2>2, <2>4, <3>1 DEF SignOff
  <2>5. ASSUME NEW r \in Recs, DeleteReconciliation(r) PROVE Kept
    BY <2>2, <2>5 DEF DeleteReconciliation
  <2>6. ASSUME NEW h \in Handlers, HandlerStep(h) PROVE Kept
    BY <2>1, <2>3, <2>4, <2>6
       DEF HandlerStep, StartReconciliation, SetPostingCleared, TickPosting,
           CompleteReconciliation, Abandon
  <2>7. ASSUME NEW p \in Postings, PostingPosted(p) PROVE Kept
    BY <2>1, <2>7 DEF PostingPosted
  <2>. QED
    BY <1>1, <2>5, <2>6, <2>7 DEF Next
<1>2. Inv /\ [Next]_vars => [Kept]_vars
  BY <1>1
<1>. QED
  BY <1>2, InvHolds, PTL DEF Spec, SignedOffIsFinal

\* No step moves a posting from a signed-off reconciliation to another.
THEOREM NothingStolen == Spec => NeverStolen
<1>. DEFINE Kept ==
       \A p \in Postings, r \in Recs :
         clearedIn[p] = r /\ rec[r].status = "completed" =>
           clearedIn'[p] = r \/ (clearedIn'[p] = NoRec /\ r \in overtaken')
<1>1. ASSUME Inv, Next PROVE Kept
  <2>1. CASE UNCHANGED clearedIn
    BY <2>1
  <2>2. ASSUME NEW h \in Handlers, TickPosting(h) PROVE Kept
    <3>. DEFINE r == job[h].rec
                p == job[h].posting
    <3>1. r \in Recs /\ p \in Postings /\ job[h].to \in {r, NoRec}
      BY <1>1, <2>2, JobKinds DEF TickPosting, Inv
    <3>2. CASE clearedIn' = [clearedIn EXCEPT ![p] = job[h].to] /\ Reconcilable(r, p)
               /\ (rec[r].status = "completed" => r \in overtaken')
      <4>1. clearedIn[p] \in {r, NoRec}
        BY <3>2 DEF Reconcilable
      <4>2. clearedIn'[p] \in {r, NoRec}
            /\ \A q \in Postings \ {p} : clearedIn'[q] = clearedIn[q]
        BY <1>1, <3>1, <3>2 DEF Inv, TypeOK
      <4>. QED
        BY <3>2, <4>1, <4>2, NoRecAssumption
    <3>. QED
      BY <2>1, <2>2, <3>2 DEF TickPosting
  <2>3. ASSUME NEW r \in Recs, DeleteReconciliation(r) PROVE Kept
    BY <2>3 DEF DeleteReconciliation
  <2>4. ASSUME NEW h \in Handlers, HandlerStep(h) PROVE Kept
    BY <2>1, <2>2, <2>4
       DEF HandlerStep, StartReconciliation, SetPostingCleared, InsertReconciliation,
           CompleteReconciliation, SignOff, Abandon
  <2>5. ASSUME NEW p \in Postings, PostingPosted(p) PROVE Kept
    BY <2>1, <2>5 DEF PostingPosted
  <2>. QED
    BY <1>1, <2>3, <2>4, <2>5 DEF Next
<1>2. Inv /\ [Next]_vars => [Kept]_vars
  BY <1>1
<1>. QED
  BY <1>2, InvHolds, PTL DEF Spec, NeverStolen
=============================================================================
