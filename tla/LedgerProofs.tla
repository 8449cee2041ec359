---------------------------- MODULE LedgerProofs ----------------------------
(***************************************************************************)
(* What holds of the books for every number of handlers, members,          *)
(* accounts, amounts and transactions.                                     *)
(*                                                                         *)
(* TypeOK is not inductive alone (a row's status comes out of the entry    *)
(* its handler prepared), so it is proved together with IInv.              *)
(***************************************************************************)
EXTENDS Ledger, FiniteSetTheorems, TLAPS

USE DEF TxId, NoTx

Inv == TypeOK /\ IInv

\* Unfolds a typed entry field by field, for the steps that need one field.
LEMMA EntryFields ==
    ASSUME NEW e \in Entry
    PROVE  /\ e.from \in Account /\ e.to \in Account /\ e.amount \in Amounts
           /\ e.by \in Members /\ e.mode \in {"posted", "pending_approval"}
           /\ e.reverses \in TxId \cup {NoTx}
           /\ e # NoEntry
BY NoEntryAssumption DEF Entry

\* The fields of a job record.
LEMMA JobFields ==
    ASSUME NEW pc, NEW e, NEW t, NEW f
    PROVE  /\ JobAt(pc, e, t, f).pc = pc
           /\ JobAt(pc, e, t, f).entry = e
           /\ JobAt(pc, e, t, f).tx = t
           /\ JobAt(pc, e, t, f).fund = f
BY DEF JobAt

\* A handler that stops, wherever it stood, leaves a well-typed idle job.
LEMMA IdleType == Idle \in Job /\ Idle.pc = "idle"
BY DEF Idle, JobAt, Job, Account

\* The entry made from a form is one a row can hold, and reverses nothing.
LEMMA FiledType ==
    ASSUME NEW f \in Forms, NEW m \in Members
    PROVE  Filed(f, m) \in Entry /\ Filed(f, m).reverses = NoTx
BY FormsAssumption DEF Filed, Entry, Form, Account

\* Storing a job in handler h keeps the jobs well typed and the others as they
\* were.
LEMMA SetJobEffect ==
    ASSUME TypeOK, NEW h \in Handlers, NEW j \in Job, SetJob(h, j)
    PROVE  /\ job' \in [Handlers -> Job]
           /\ job'[h] = j
           /\ \A g \in Handlers \ {h} : job'[g] = job[g]
BY DEF TypeOK, SetJob

-----------------------------------------------------------------------------
(* Sums over a finite set.  BalanceForAccount folds the set of posted rows by  *)
(* a recursive function on its subsets.  That such a function exists, and what *)
(* it adds up to, is shown by a smallest subset for which it would fail.       *)

One(s) == CHOOSE x \in s : TRUE

\* g is the recursive function that sums F over each subset of S.
IsSum(g, F, S) ==
    g = [s \in SUBSET S |-> IF s = {} THEN 0 ELSE F[One(s)] + g[s \ {One(s)}]]

\* A set of numbers that is not empty has a least member: were every member
\* above another one, adding one would map the finite set of the numbers below
\* all of them into itself, and miss zero.
LEMMA LeastNumber ==
    ASSUME NEW S \in SUBSET Nat, S # {}
    PROVE  \E n \in S : \A m \in S : n <= m
<1>. SUFFICES ASSUME \A n \in S : \E m \in S : m < n
              PROVE  FALSE
  OBVIOUS
<1>. DEFINE below == {m \in Nat : \A s \in S : m < s}
            up == [m \in below |-> m + 1]
<1>1. PICK n \in S : TRUE
  OBVIOUS
<1>2. below \in SUBSET Nat /\ \A m \in below : m <= n
  BY <1>1
<1>3. IsFiniteSet(below)
  <2>. HIDE DEF below
  <2>. QED BY <1>1, <1>2, FS_BoundedSetOfNaturals
<1>4. 0 \in below
  BY <1>1
<1>5. \A m \in below : m + 1 \in below
  <2>. SUFFICES ASSUME NEW m \in below, NEW s \in S
                PROVE  m + 1 < s
    OBVIOUS
  <2>1. PICK r \in S : r < s
    OBVIOUS
  <2>2. m < r /\ r \in Nat /\ s \in Nat /\ m \in Nat
    OBVIOUS
  <2>. QED BY <2>1, <2>2
<1>6. up \in Injection(below, below)
  BY <1>2, <1>5 DEF Injection, IsInjective
<1>7. up \in Surjection(below, below)
  <2>. HIDE DEF below, up
  <2>. QED BY <1>3, <1>6, FS_Injection
<1>8. PICK m \in below : up[m] = 0
  BY <1>4, <1>7 DEF Surjection
<1>. QED BY <1>2, <1>8

\* Of some subsets of a finite set, one has no other of them one member smaller.
LEMMA SmallestSubset ==
    ASSUME NEW S, IsFiniteSet(S), NEW B \in SUBSET (SUBSET S), B # {}
    PROVE  \E s \in B : \A x \in s : s \ {x} \notin B
<1>. DEFINE sizes == {Cardinality(s) : s \in B}
<1>1. \A s \in SUBSET S : IsFiniteSet(s) /\ Cardinality(s) \in Nat
  BY FS_Subset, FS_CardinalityType
<1>2. sizes \in SUBSET Nat /\ sizes # {}
  BY <1>1
<1>3. PICK n \in sizes : \A m \in sizes : n <= m
  <2>. HIDE DEF sizes
  <2>. QED BY <1>2, LeastNumber
<1>4. PICK s \in B : Cardinality(s) = n
  BY <1>3
<1>5. ASSUME NEW x \in s PROVE s \ {x} \notin B
  <2>1. Cardinality(s \ {x}) = Cardinality(s) - 1
    BY <1>1, FS_RemoveElement
  <2>2. s \ {x} \in B => n <= Cardinality(s \ {x})
    BY <1>3
  <2>. QED
    BY <1>1, <1>4, <2>1, <2>2
<1>. QED BY <1>5

\* The function exists: one for the subsets of at most n members extends to
\* those of n + 1.
LEMMA SumExists ==
    ASSUME NEW S, IsFiniteSet(S), NEW F
    PROVE  \E g : IsSum(g, F, S)
<1>. DEFINE Small(n) == {s \in SUBSET S : Cardinality(s) <= n}
            Next1(g, s) == IF s = {} THEN 0 ELSE F[One(s)] + g[s \ {One(s)}]
            Upto(g, n) == g = [s \in Small(n) |-> Next1(g, s)]
            failing == {n \in Nat : ~ \E g : Upto(g, n)}
<1>1. \A s \in SUBSET S : IsFiniteSet(s) /\ Cardinality(s) \in Nat
  BY FS_Subset, FS_CardinalityType
<1>2. \A s \in SUBSET S : s # {} => Cardinality(s \ {One(s)}) = Cardinality(s) - 1
  BY <1>1, FS_RemoveElement DEF One
<1>3. Upto([s \in Small(0) |-> 0], 0)
  BY <1>1, FS_EmptySet
<1>4. ASSUME NEW n \in Nat, NEW g, Upto(g, n)
      PROVE  \E h : Upto(h, n + 1)
  <2>. DEFINE h == [s \in Small(n + 1) |-> Next1(g, s)]
  <2>1. ASSUME NEW s \in Small(n + 1), s # {}
        PROVE  s \ {One(s)} \in Small(n) /\ s \ {One(s)} \in Small(n + 1)
    BY <1>1, <1>2, <2>1
  <2>2. \A s \in Small(n) : h[s] = g[s]
    <3>1. \A s \in Small(n) : s \in Small(n + 1)
      BY <1>1
    <3>. QED BY <1>4, <3>1
  <2>3. ASSUME NEW s \in Small(n + 1) PROVE Next1(g, s) = Next1(h, s)
    <3>. HIDE DEF h, Small
    <3>. QED BY <2>1, <2>2
  <2>4. Upto(h, n + 1)
    BY <2>3
  <2>. QED BY <2>4
<1>5. failing = {}
  <2>. SUFFICES ASSUME failing # {}
                PROVE  FALSE
    OBVIOUS
  <2>1. failing \in SUBSET Nat
    OBVIOUS
  <2>2. PICK n \in failing : \A m \in failing : n <= m
    <3>. HIDE DEF failing
    <3>. QED BY <2>1, LeastNumber
  <2>3. n \in Nat /\ n # 0
    BY <1>3
  <2>4. n - 1 \in Nat /\ n - 1 \notin failing
    <3>1. n - 1 \in failing => n <= n - 1
      <4>. HIDE DEF failing
      <4>. QED BY <2>2
    <3>. HIDE DEF failing
    <3>. QED BY <2>3, <3>1
  <2>5. PICK g : Upto(g, n - 1)
    BY <2>4
  <2>6. \E h : Upto(h, (n - 1) + 1)
    <3>. HIDE DEF Upto
    <3>. QED BY <1>4, <2>4, <2>5
  <2>7. (n - 1) + 1 = n
    BY <2>3
  <2>8. \E h : Upto(h, n)
    <3>. HIDE DEF Upto
    <3>. QED BY <2>6, <2>7
  <2>. QED BY <2>8
<1>6. \E g : Upto(g, Cardinality(S))
  BY <1>1, <1>5
<1>7. Small(Cardinality(S)) = SUBSET S
  BY FS_Subset
<1>. QED BY <1>6, <1>7 DEF IsSum

\* The two cases of the recursion.
LEMMA SumSteps ==
    ASSUME NEW S, NEW F, NEW g, IsSum(g, F, S)
    PROVE  /\ g[{}] = 0
           /\ \A s \in SUBSET S : s # {} =>
                 /\ One(s) \in s
                 /\ g[s] = F[One(s)] + g[s \ {One(s)}]
<1>. DEFINE Value(s) == IF s = {} THEN 0 ELSE F[One(s)] + g[s \ {One(s)}]
<1>1. g = [s \in SUBSET S |-> Value(s)]
  BY DEF IsSum
<1>2. \A s \in SUBSET S : g[s] = Value(s)
  <2>. HIDE DEF Value
  <2>. QED BY <1>1
<1>3. \A s \in SUBSET S : s # {} => One(s) \in s
  BY DEF One
<1>. QED BY <1>2, <1>3

\* Sums of integers are integers.
LEMMA SumIsInt ==
    ASSUME NEW S, IsFiniteSet(S), NEW F \in [S -> Int], NEW g, IsSum(g, F, S)
    PROVE  \A s \in SUBSET S : g[s] \in Int
<1>. DEFINE failing == {s \in SUBSET S : g[s] \notin Int}
<1>. SUFFICES ASSUME failing # {}
              PROVE  FALSE
  OBVIOUS
<1>1. failing \in SUBSET (SUBSET S)
  OBVIOUS
<1>2. PICK s \in failing : \A x \in s : s \ {x} \notin failing
  <2>. HIDE DEF failing
  <2>. QED BY <1>1, SmallestSubset
<1>3. s \in SUBSET S /\ s # {}
  <2>1. g[{}] \in Int
    BY SumSteps
  <2>. QED BY <2>1
<1>4. One(s) \in s /\ g[s] = F[One(s)] + g[s \ {One(s)}]
  BY <1>3, SumSteps
<1>5. F[One(s)] \in Int /\ g[s \ {One(s)}] \in Int
  BY <1>2, <1>3, <1>4
<1>. QED BY <1>4, <1>5

\* A sum takes each of its members once, whichever the fold picks first.
LEMMA SumAdds ==
    ASSUME NEW S, IsFiniteSet(S), NEW F \in [S -> Int], NEW g, IsSum(g, F, S)
    PROVE  \A s \in SUBSET S : \A x \in s : g[s] = g[s \ {x}] + F[x]
<1>. DEFINE failing == {s \in SUBSET S : \E x \in s : g[s] # g[s \ {x}] + F[x]}
<1>. SUFFICES ASSUME failing # {}
              PROVE  FALSE
  OBVIOUS
<1>1. failing \in SUBSET (SUBSET S)
  OBVIOUS
<1>2. PICK s \in failing : \A x \in s : s \ {x} \notin failing
  <2>. HIDE DEF failing
  <2>. QED BY <1>1, SmallestSubset
<1>3. PICK x \in s : g[s] # g[s \ {x}] + F[x]
  OBVIOUS
<1>4. PICK c \in s : c = One(s)
  BY <1>3, SumSteps
<1>5. g[s] = F[c] + g[s \ {c}]
  BY <1>3, <1>4, SumSteps
<1>6. \A r \in SUBSET S : g[r] \in Int
  BY SumIsInt
<1>7. /\ F[c] \in Int /\ F[x] \in Int
      /\ g[s \ {c}] \in Int /\ g[(s \ {c}) \ {x}] \in Int
  BY <1>6
<1>8. x # c
  <2>1. F[c] + g[s \ {c}] = g[s \ {c}] + F[c]
    BY <1>7
  <2>. QED BY <1>3, <1>5, <2>1
<1>9. g[s \ {c}] = g[(s \ {c}) \ {x}] + F[x]
  BY <1>2, <1>8
<1>10. g[s \ {x}] = g[(s \ {x}) \ {c}] + F[c]
  BY <1>2, <1>8
<1>11. (s \ {x}) \ {c} = (s \ {c}) \ {x}
  OBVIOUS
<1>12. F[c] + (g[(s \ {c}) \ {x}] + F[x]) = (g[(s \ {c}) \ {x}] + F[c]) + F[x]
  BY <1>7
<1>. QED BY <1>3, <1>5, <1>9, <1>10, <1>11, <1>12

\* Two sums agree on the sets whose members they value alike.
LEMMA SumsAgree ==
    ASSUME NEW S, IsFiniteSet(S), NEW T, S \subseteq T,
           NEW F, NEW G, \A x \in S : F[x] = G[x],
           NEW g, IsSum(g, F, S), NEW h, IsSum(h, G, T)
    PROVE  g[S] = h[S]
<1>. DEFINE failing == {s \in SUBSET S : g[s] # h[s]}
<1>. SUFFICES ASSUME failing # {}
              PROVE  FALSE
  OBVIOUS
<1>1. failing \in SUBSET (SUBSET S)
  OBVIOUS
<1>2. PICK s \in failing : \A x \in s : s \ {x} \notin failing
  <2>. HIDE DEF failing
  <2>. QED BY <1>1, SmallestSubset
<1>3. s \in SUBSET S /\ s \in SUBSET T
  OBVIOUS
<1>4. s # {}
  BY SumSteps
<1>5. One(s) \in s /\ g[s] = F[One(s)] + g[s \ {One(s)}]
  BY <1>3, <1>4, SumSteps
<1>6. h[s] = G[One(s)] + h[s \ {One(s)}]
  BY <1>3, <1>4, SumSteps
<1>7. F[One(s)] = G[One(s)] /\ g[s \ {One(s)}] = h[s \ {One(s)}]
  BY <1>2, <1>3, <1>5
<1>. QED BY <1>5, <1>6, <1>7

-----------------------------------------------------------------------------
(* Balances.                                                                 *)

\* What each posted row adds to account a.
Moves(a) == [t \in Posted |-> Effect(entry[t], a)]

\* BalanceForAccount is the sum of those moves, and the moves are integers.
BalancesAreSums ==
    \A a \in Account :
        /\ IsFiniteSet(Posted)
        /\ Moves(a) \in [Posted -> Int]
        /\ \E g : IsSum(g, Moves(a), Posted) /\ BalanceForAccount(a) = g[Posted]

LEMMA BalanceIsSum == Inv => BalancesAreSums
<1>. SUFFICES ASSUME Inv, NEW a \in Account
              PROVE  /\ IsFiniteSet(Posted)
                     /\ Moves(a) \in [Posted -> Int]
                     /\ \E g : /\ IsSum(g, Moves(a), Posted)
                               /\ BalanceForAccount(a) = g[Posted]
  BY DEF BalancesAreSums
<1>1. IsFiniteSet(Posted)
  <2>1. IsFiniteSet(TxId)
    BY FS_Interval, NumbersAssumption
  <2>2. Posted \subseteq TxId
    BY DEF Posted
  <2>. HIDE DEF TxId
  <2>. QED BY <2>1, <2>2, FS_Subset
<1>2. \A t \in Posted : Effect(entry[t], a) \in Int
  <2>. SUFFICES ASSUME NEW t \in Posted
                PROVE  Effect(entry[t], a) \in Int
    OBVIOUS
  <2>1. entry[t] \in Entry
    BY DEF Posted, Inv, IInv, TypeOK, RowsAgree
  <2>2. entry[t].amount \in Amounts
    BY <2>1, EntryFields
  <2>3. Amounts \subseteq Int
    BY NumbersAssumption
  <2>4. entry[t].amount \in Int
    BY <2>2, <2>3
  <2>. QED
    BY <2>4 DEF Effect
<1>3. Moves(a) \in [Posted -> Int]
  BY <1>2 DEF Moves
<1>. DEFINE IsFold(g) ==
       g = [s \in SUBSET Posted |->
              IF s = {} THEN 0
              ELSE Effect(entry[CHOOSE x \in s : TRUE], a)
                   + g[s \ {CHOOSE x \in s : TRUE}]]
<1>4. ASSUME NEW g PROVE IsFold(g) <=> IsSum(g, Moves(a), Posted)
  <2>1. ASSUME NEW s \in SUBSET Posted, s # {}
        PROVE  Moves(a)[One(s)] = Effect(entry[One(s)], a)
    BY <2>1 DEF One, Moves
  <2>. QED
    BY <2>1 DEF IsSum, One
<1>5. BalanceForAccount(a) = (CHOOSE g : IsFold(g))[Posted]
  BY DEF BalanceForAccount, MapThenSumSet, MapThenFoldSet
<1>6. PICK f : IsSum(f, Moves(a), Posted)
  BY <1>1, SumExists
<1>7. IsFold(CHOOSE g : IsFold(g))
  <2>. HIDE DEF IsFold
  <2>1. IsFold(f)
    BY <1>4, <1>6
  <2>. QED BY <2>1
<1>. QED
  <2>. HIDE DEF IsFold
  <2>. QED BY <1>1, <1>3, <1>4, <1>5, <1>7

-----------------------------------------------------------------------------
(* Steps that leave the books alone: only the handler's own job changes.   *)

\* Such a step keeps the invariant when the new job is idle, holds a prepared
\* entry that mirrors, or has nothing to write.
LEMMA JobOnly ==
    ASSUME Inv, NEW h \in Handlers, NEW j \in Job, SetJob(h, j), UNCHANGED books,
           j.pc # "inserted",
           j.pc \in {"funded", "validated"} => j.entry # NoEntry /\ Mirrors(j.entry)
    PROVE  Inv'
<1>1. /\ job' \in [Handlers -> Job]
      /\ job'[h] = j
      /\ \A g \in Handlers \ {h} : job'[g] = job[g]
  BY SetJobEffect DEF Inv
<1>2. TypeOK'
  BY <1>1 DEF Inv, TypeOK, books
<1>3. RowsAgree' /\ ReversedAtMostOnce'
  BY DEF Inv, IInv, books, RowsAgree, ReversedAtMostOnce
<1>4. SubmitterIsAlone'
  BY <1>1 DEF Inv, IInv, books, SubmitterIsAlone
<1>5. PreparedEntriesMirror'
  BY <1>1 DEF Inv, IInv, books, PreparedEntriesMirror, Mirrors
<1>. QED
  BY <1>2, <1>3, <1>4, <1>5 DEF Inv, IInv

\* Giving up, being refused by the unique index, and validating a transfer.
LEMMA HandlerStopsOrWaits ==
    ASSUME Inv, NEW h \in Handlers,
           Abandon(h) \/ InsertRefused(h) \/ ValidateTransfer(h)
    PROVE  Inv'
<1>. DEFINE j == JobAt("validated", job[h].entry, NoTx, External)
<1>1. job[h] \in Job
  BY DEF Inv, TypeOK
<1>2. CASE SetJob(h, Idle) /\ UNCHANGED books
  BY <1>2, IdleType, JobOnly
<1>3. CASE job[h].pc = "funded" /\ SetJob(h, j) /\ UNCHANGED books
  <2>1. j \in Job /\ j.pc = "validated" /\ j.entry = job[h].entry
    BY <1>1 DEF JobAt, Job, Account
  <2>2. j.entry # NoEntry /\ Mirrors(j.entry)
    BY <1>3, <2>1 DEF Inv, IInv, PreparedEntriesMirror
  <2>. QED
    BY <1>3, <2>1, <2>2, JobOnly
<1>. QED
  BY <1>2, <1>3 DEF Abandon, InsertRefused, ValidateTransfer

\* Reversing prepares the mirror image of a posted entry.
LEMMA ReverseKeepsInv ==
    ASSUME Inv, NEW h \in Handlers, NEW m \in Members,
           TreasuryReverseTransaction(h, m)
    PROVE  Inv'
<1>1. PICK t \in TxId :
        /\ status[t] = "posted"
        /\ entry[t].reverses = NoTx
        /\ SetJob(h, JobAt("validated", Opposite(t, m), NoTx, External))
        /\ UNCHANGED books
  BY DEF TreasuryReverseTransaction
<1>2. entry[t] \in Entry
  BY <1>1 DEF Inv, IInv, TypeOK, RowsAgree
<1>3. Opposite(t, m) \in Entry
  BY <1>2, EntryFields DEF Opposite, Entry
<1>4. Mirrors(Opposite(t, m))
  BY <1>1 DEF Mirrors, Opposite
<1>5. JobAt("validated", Opposite(t, m), NoTx, External) \in Job
  BY <1>3 DEF JobAt, Job, Account
<1>. QED
  BY <1>1, <1>3, <1>4, <1>5, JobOnly, JobFields, EntryFields

\* Asking for a push transfer prepares an entry that reverses nothing.
LEMMA RequestTransferKeepsInv ==
    ASSUME Inv, NEW h \in Handlers, NEW m \in Members,
           TreasuryRequestTransfer(h, m)
    PROVE  Inv'
<1>1. PICK s \in ScoutAccounts, f \in TripFunds, amt \in Amounts :
        /\ SetJob(h, JobAt("funded", PushTransfer(m, s, f, amt), NoTx, External))
        /\ UNCHANGED books
  BY DEF TreasuryRequestTransfer
<1>2. PushTransfer(m, s, f, amt) \in Entry /\ Mirrors(PushTransfer(m, s, f, amt))
  BY DEF PushTransfer, Entry, Account, Mirrors
<1>3. JobAt("funded", PushTransfer(m, s, f, amt), NoTx, External) \in Job
  BY <1>2 DEF JobAt, Job, Account
<1>. QED
  BY <1>1, <1>2, <1>3, JobOnly, JobFields, EntryFields

\* Starting to close a trip fund only remembers which one.
LEMMA StartCloseKeepsInv ==
    ASSUME Inv, NEW h \in Handlers, NEW f \in TripFunds, TreasuryCloseTripFund(h, f)
    PROVE  Inv'
<1>1. JobAt("closing", NoEntry, NoTx, f) \in Job
  BY DEF JobAt, Job, Account
<1>. QED
  BY <1>1, JobOnly, JobFields DEF TreasuryCloseTripFund

-----------------------------------------------------------------------------
(* Steps that write accounts.                                              *)

\* The invariant says nothing of an account's status but its type, so opening
\* or closing one while a handler moves on is a JobOnly step otherwise.
LEMMA AccountAndJob ==
    ASSUME Inv, NEW h \in Handlers, NEW j \in Job, SetJob(h, j),
           account' \in [Account -> {"absent", "open", "closed"}],
           UNCHANGED <<entry, status, request, decidedBy, linked>>,
           j.pc # "inserted",
           j.pc \in {"funded", "validated"} => j.entry # NoEntry /\ Mirrors(j.entry)
    PROVE  Inv'
<1>1. /\ job' \in [Handlers -> Job]
      /\ job'[h] = j
      /\ \A g \in Handlers \ {h} : job'[g] = job[g]
  BY SetJobEffect DEF Inv
<1>2. TypeOK'
  BY <1>1 DEF Inv, TypeOK
<1>3. RowsAgree' /\ ReversedAtMostOnce'
  BY DEF Inv, IInv, RowsAgree, ReversedAtMostOnce
<1>4. SubmitterIsAlone'
  BY <1>1 DEF Inv, IInv, SubmitterIsAlone
<1>5. PreparedEntriesMirror'
  BY <1>1 DEF Inv, IInv, PreparedEntriesMirror, Mirrors
<1>. QED
  BY <1>2, <1>3, <1>4, <1>5 DEF Inv, IInv

\* A manual entry may create the external account and is prepared.
LEMMA PostKeepsInv ==
    ASSUME Inv, NEW h \in Handlers, NEW m \in Members, TreasuryPostTransaction(h, m)
    PROVE  Inv'
<1>1. PICK f \in Forms :
        /\ account' = IF f.kind = "manual_adjustment" THEN account
                      ELSE [account EXCEPT ![External] = "open"]
        /\ \/ SetJob(h, JobAt("validated", Filed(f, m), NoTx, External))
           \/ SetJob(h, Idle)
        /\ UNCHANGED <<entry, status, request, decidedBy, linked>>
  BY DEF TreasuryPostTransaction
<1>2. account' \in [Account -> {"absent", "open", "closed"}]
  BY <1>1 DEF Inv, TypeOK
<1>3. Filed(f, m) \in Entry /\ Mirrors(Filed(f, m))
  BY FiledType DEF Mirrors
<1>4. JobAt("validated", Filed(f, m), NoTx, External) \in Job
  BY <1>3 DEF JobAt, Job, Account
<1>. QED
  BY <1>1, <1>2, <1>3, <1>4, AccountAndJob, JobFields, EntryFields, IdleType

\* The UPDATE that closes the account.
LEMMA CloseKeepsInv ==
    ASSUME Inv, NEW h \in Handlers, CloseAccount(h)
    PROVE  Inv'
<1>1. account' \in [Account -> {"absent", "open", "closed"}]
  BY DEF Inv, TypeOK, CloseAccount
<1>. QED
  BY <1>1, AccountAndJob, IdleType DEF CloseAccount

\* Creating a trip fund touches nothing but its account.
LEMMA CreateKeepsInv ==
    ASSUME Inv, NEW f \in TripFunds, TreasuryCreateTripFund(f)
    PROVE  Inv'
<1>1. TypeOK'
  BY DEF Inv, TypeOK, TreasuryCreateTripFund
<1>2. IInv'
  BY DEF Inv, IInv, TreasuryCreateTripFund, RowsAgree, SubmitterIsAlone,
         PreparedEntriesMirror, Mirrors, ReversedAtMostOnce
<1>. QED
  BY <1>1, <1>2 DEF Inv

-----------------------------------------------------------------------------
(* Steps that write rows.                                                  *)

\* Inserting a row: it is fresh, so no request and no reversal names it yet,
\* and a reversal finds its original unreversed.
LEMMA InsertKeepsInv ==
    ASSUME Inv, NEW h \in Handlers, Insert(h)
    PROVE  Inv'
<1>. DEFINE e == job[h].entry
<1>1. PICK t \in TxId :
        /\ status[t] = "absent"
        /\ entry' = [entry EXCEPT ![t] = e]
        /\ status' = [status EXCEPT ![t] = e.mode]
        /\ SetJob(h, IF e.mode = "posted" THEN Idle
                     ELSE JobAt("inserted", e, t, External))
  BY DEF Insert, Fresh
<1>2. /\ e \in Entry
      /\ Mirrors(e)
      /\ UniqueReversal(e)
      /\ UNCHANGED <<account, request, decidedBy, linked>>
  BY DEF Insert, Inv, IInv, TypeOK, Job, PreparedEntriesMirror
<1>3. e.mode \in {"posted", "pending_approval"} /\ e.reverses \in TxId \cup {NoTx}
      /\ e # NoEntry
  BY <1>2, EntryFields
<1>4. /\ entry[t] = NoEntry
      /\ request[t] = "none"
      /\ entry'[t] = e
      /\ status'[t] = e.mode
      /\ \A u \in TxId \ {t} : entry'[u] = entry[u] /\ status'[u] = status[u]
  BY <1>1 DEF Inv, IInv, TypeOK, RowsAgree
<1>5. PICK j \in Job :
        /\ SetJob(h, j)
        /\ e.mode = "posted" => j.pc = "idle"
        /\ e.mode # "posted" => j.pc = "inserted" /\ j.tx = t
  <2>1. JobAt("inserted", e, t, External) \in Job
    BY <1>2 DEF JobAt, Job, Account
  <2>. QED
    BY <1>1, <2>1, IdleType, JobFields
<1>6. /\ job' \in [Handlers -> Job]
      /\ job'[h] = j
      /\ \A g \in Handlers \ {h} : job'[g] = job[g]
  BY <1>5, SetJobEffect DEF Inv
<1>7. TypeOK'
  BY <1>1, <1>2, <1>3, <1>6 DEF Inv, TypeOK
<1>8. RowsAgree'
  BY <1>2, <1>3, <1>4 DEF Inv, IInv, RowsAgree
<1>9. SubmitterIsAlone'
  <2>1. \A g \in Handlers : job[g].pc = "inserted" => job[g].tx \in TxId \ {t}
    BY <1>1 DEF Inv, IInv, SubmitterIsAlone
  <2>. QED
    BY <1>2, <1>3, <1>4, <1>5, <1>6, <2>1 DEF Inv, IInv, SubmitterIsAlone
<1>10. \A x \in Entry : Mirrors(x) => Mirrors(x)'
  <2>. SUFFICES ASSUME NEW x \in Entry, Mirrors(x), x.reverses # NoTx
                PROVE  Mirrors(x)'
    BY DEF Mirrors
  <2>1. x.reverses \in TxId \ {t}
    BY <1>1, EntryFields DEF Mirrors
  <2>. QED
    BY <1>4, <2>1 DEF Mirrors
<1>11. PreparedEntriesMirror'
  <2>. SUFFICES ASSUME NEW g \in Handlers, NEW x, x = job'[g].entry,
                       job'[g].pc \in {"funded", "validated"}
                PROVE  x # NoEntry /\ Mirrors(x)'
    BY DEF PreparedEntriesMirror, Mirrors
  <2>1. g # h
    BY <1>3, <1>5, <1>6
  <2>2. x = job[g].entry /\ x # NoEntry /\ Mirrors(x)
    BY <1>6, <2>1 DEF Inv, IInv, PreparedEntriesMirror
  <2>3. x \in Entry
    BY <2>2 DEF Inv, TypeOK, Job
  <2>. QED
    BY <1>10, <2>2, <2>3
<1>12. ReversedAtMostOnce'
  <2>. SUFFICES ASSUME NEW u \in TxId, entry'[u] # NoEntry,
                       entry'[u].reverses # NoTx
                PROVE  LET r == entry'[u].reverses IN
                       /\ status'[r] = "posted"
                       /\ entry'[r].reverses = NoTx
                       /\ entry'[r].from = entry'[u].to
                       /\ entry'[r].to = entry'[u].from
                       /\ entry'[r].amount = entry'[u].amount
                       /\ \A v \in TxId :
                            entry'[v] # NoEntry /\ entry'[v].reverses = r => v = u
    BY DEF ReversedAtMostOnce
  <2>. DEFINE r == entry'[u].reverses
  <2>1. CASE u = t
    <3>1. r = e.reverses /\ r \in TxId \ {t} /\ ~ReversalExists(r)
      BY <1>1, <1>2, <1>3, <1>4, <2>1 DEF UniqueReversal, Mirrors
    <3>2. \A v \in TxId : entry'[v] # NoEntry /\ entry'[v].reverses = r => v = u
      BY <1>4, <2>1, <3>1 DEF ReversalExists
    <3>. QED
      BY <1>2, <1>4, <2>1, <3>1, <3>2 DEF Mirrors
  <2>2. CASE u # t
    <3>1. /\ entry'[u] = entry[u] /\ entry[u] \in Entry
          /\ r \in TxId \ {t}
      BY <1>1, <1>4, <2>2, EntryFields DEF Inv, IInv, TypeOK, ReversedAtMostOnce
    <3>2. e.reverses # r
      BY <1>2, <3>1 DEF UniqueReversal, ReversalExists
    <3>. QED
      BY <1>4, <3>1, <3>2, <2>2 DEF Inv, IInv, ReversedAtMostOnce
  <2>. QED
    BY <2>1, <2>2
<1>. QED
  BY <1>7, <1>8, <1>9, <1>11, <1>12 DEF Inv, IInv

\* Submitting: the handler is alone on its row, whose request is still none.
LEMMA SubmitKeepsInv ==
    ASSUME Inv, NEW h \in Handlers, Submit(h)
    PROVE  Inv'
<1>. DEFINE t == job[h].tx
            j == JobAt("submitted", job[h].entry, t, External)
<1>1. /\ job[h].pc = "inserted"
      /\ t \in TxId
      /\ status[t] = "pending_approval"
      /\ request[t] = "none"
      /\ \A g \in Handlers \ {h} : job[g].pc = "inserted" => job[g].tx # t
  BY DEF Submit, Inv, IInv, SubmitterIsAlone
<1>2. /\ request' = [request EXCEPT ![t] = "pending"]
      /\ SetJob(h, j)
      /\ UNCHANGED <<account, entry, status, decidedBy, linked>>
  BY DEF Submit
<1>3. j \in Job /\ j.pc = "submitted"
  BY <1>1 DEF Inv, TypeOK, JobAt, Job, Account
<1>4. /\ job' \in [Handlers -> Job]
      /\ job'[h] = j
      /\ \A g \in Handlers \ {h} : job'[g] = job[g]
  BY <1>2, <1>3, SetJobEffect DEF Inv
<1>5. TypeOK'
  BY <1>1, <1>2, <1>4 DEF Inv, TypeOK
<1>6. RowsAgree'
  BY <1>1, <1>2 DEF Inv, IInv, TypeOK, RowsAgree
<1>7. SubmitterIsAlone'
  BY <1>1, <1>2, <1>3, <1>4 DEF Inv, IInv, TypeOK, SubmitterIsAlone
<1>8. PreparedEntriesMirror' /\ ReversedAtMostOnce'
  BY <1>2, <1>3, <1>4 DEF Inv, IInv, PreparedEntriesMirror, Mirrors, ReversedAtMostOnce
<1>. QED
  BY <1>5, <1>6, <1>7, <1>8 DEF Inv, IInv

\* Recording the request's id on its transaction.
LEMMA LinkKeepsInv ==
    ASSUME Inv, NEW h \in Handlers, Link(h)
    PROVE  Inv'
<1>1. /\ job[h].tx \in TxId
      /\ linked' = linked \cup {job[h].tx}
      /\ SetJob(h, Idle)
      /\ UNCHANGED <<account, entry, status, request, decidedBy>>
  BY DEF Link, Inv, TypeOK, Job
<1>2. /\ job' \in [Handlers -> Job]
      /\ job'[h] = Idle
      /\ \A g \in Handlers \ {h} : job'[g] = job[g]
  BY <1>1, IdleType, SetJobEffect DEF Inv
<1>3. TypeOK'
  BY <1>1, <1>2 DEF Inv, TypeOK
<1>4. RowsAgree' /\ ReversedAtMostOnce'
  BY <1>1 DEF Inv, IInv, RowsAgree, ReversedAtMostOnce
<1>5. SubmitterIsAlone' /\ PreparedEntriesMirror'
  BY <1>1, <1>2, IdleType DEF Inv, IInv, SubmitterIsAlone, PreparedEntriesMirror, Mirrors
<1>. QED
  BY <1>3, <1>4, <1>5 DEF Inv, IInv

\* A decision moves a request and its row together; the row was not posted, so
\* no reversal rests on it.
LEMMA DecideKeepsInv ==
    ASSUME Inv, NEW t \in TxId, NEW m \in Members, NEW route \in Routes,
           NEW approve \in BOOLEAN, Decide(t, m, route, approve)
    PROVE  Inv'
<1>1. /\ request[t] = "pending"
      /\ request' = [request EXCEPT ![t] = IF approve THEN "approved" ELSE "rejected"]
      /\ status' = [status EXCEPT ![t] = IF approve THEN "posted" ELSE "rejected"]
      /\ decidedBy' = [decidedBy EXCEPT ![t] = [route |-> route, member |-> m]]
      /\ UNCHANGED <<account, entry, linked, job>>
  BY DEF Decide
<1>2. status[t] = "pending_approval" /\ entry[t].mode = "pending_approval"
  BY <1>1 DEF Inv, IInv, TypeOK, RowsAgree
<1>3. \A u \in TxId : status[u] = "posted" => status'[u] = "posted"
  BY <1>1, <1>2 DEF Inv, TypeOK
<1>4. TypeOK'
  BY <1>1 DEF Inv, TypeOK
<1>5. RowsAgree'
  BY <1>1, <1>2 DEF Inv, IInv, TypeOK, RowsAgree
<1>6. SubmitterIsAlone'
  BY <1>1 DEF Inv, IInv, TypeOK, SubmitterIsAlone
<1>7. PreparedEntriesMirror'
  <2>. SUFFICES ASSUME NEW g \in Handlers, job[g].pc \in {"funded", "validated"}
                PROVE  job[g].entry # NoEntry /\ Mirrors(job[g].entry)'
    BY <1>1 DEF PreparedEntriesMirror, Mirrors
  <2>1. job[g].entry \in Entry /\ Mirrors(job[g].entry)
    BY DEF Inv, IInv, TypeOK, Job, PreparedEntriesMirror
  <2>2. job[g].entry.reverses \in TxId \cup {NoTx} /\ job[g].entry # NoEntry
    BY <2>1, EntryFields
  <2>. QED
    BY <1>1, <1>3, <2>1, <2>2 DEF Mirrors
<1>8. ReversedAtMostOnce'
  <2>. SUFFICES ASSUME NEW u \in TxId, entry[u] # NoEntry, entry[u].reverses # NoTx
                PROVE  status'[entry[u].reverses] = "posted"
    BY <1>1 DEF Inv, IInv, ReversedAtMostOnce
  <2>1. entry[u].reverses \in TxId
    BY EntryFields DEF Inv, TypeOK
  <2>. QED
    BY <1>3, <2>1 DEF Inv, IInv, ReversedAtMostOnce
<1>. QED
  BY <1>4, <1>5, <1>6, <1>7, <1>8 DEF Inv, IInv

-----------------------------------------------------------------------------
(* The invariant.                                                          *)

\* It holds of a unit whose books are empty.
LEMMA InitInv == ASSUME Init PROVE Inv
<1>1. TypeOK
  BY IdleType DEF Init, TypeOK
<1>2. IInv
  BY IdleType DEF Init, IInv, RowsAgree, SubmitterIsAlone, PreparedEntriesMirror,
                  ReversedAtMostOnce
<1>. QED
  BY <1>1, <1>2 DEF Inv

\* Every step keeps it.
LEMMA NextKeepsInv == ASSUME Inv, [Next]_vars PROVE Inv'
<1>1. CASE UNCHANGED vars
  <2>1. TypeOK'
    BY <1>1 DEF Inv, vars, TypeOK
  <2>2. RowsAgree' /\ ReversedAtMostOnce'
    BY <1>1 DEF Inv, IInv, vars, RowsAgree, ReversedAtMostOnce
  <2>3. SubmitterIsAlone' /\ PreparedEntriesMirror'
    BY <1>1 DEF Inv, IInv, vars, SubmitterIsAlone, PreparedEntriesMirror, Mirrors
  <2>. QED
    BY <2>1, <2>2, <2>3 DEF Inv, IInv
<1>2. ASSUME NEW h \in Handlers, HandlerStep(h) PROVE Inv'
  <2>1. CASE Insert(h)
    BY <2>1, InsertKeepsInv
  <2>2. CASE Submit(h)
    BY <2>2, SubmitKeepsInv
  <2>3. CASE Link(h)
    BY <2>3, LinkKeepsInv
  <2>4. CASE Abandon(h) \/ InsertRefused(h) \/ ValidateTransfer(h)
    BY <2>4, HandlerStopsOrWaits
  <2>5. CASE CloseAccount(h)
    BY <2>5, CloseKeepsInv
  <2>6. ASSUME NEW m \in Members, TreasuryPostTransaction(h, m) PROVE Inv'
    BY <2>6, PostKeepsInv
  <2>7. ASSUME NEW m \in Members, TreasuryReverseTransaction(h, m) PROVE Inv'
    BY <2>7, ReverseKeepsInv
  <2>8. ASSUME NEW m \in Members, TreasuryRequestTransfer(h, m) PROVE Inv'
    BY <2>8, RequestTransferKeepsInv
  <2>9. ASSUME NEW f \in TripFunds, TreasuryCloseTripFund(h, f) PROVE Inv'
    BY <2>9, StartCloseKeepsInv
  <2>. QED
    BY <1>2, <2>1, <2>2, <2>3, <2>4, <2>5, <2>6, <2>7, <2>8, <2>9 DEF HandlerStep
<1>3. ASSUME NEW t \in TxId, Decision(t) PROVE Inv'
  <2>1. PICK m \in Members, approve \in BOOLEAN, route \in Routes :
          Decide(t, m, route, approve)
    BY <1>3 DEF Decision, ApprovalDecide, TreasuryDecideTransfer,
                ExpenseApprovalDecide, Routes
  <2>. QED
    BY <2>1, DecideKeepsInv
<1>4. ASSUME NEW f \in TripFunds, TreasuryCreateTripFund(f) PROVE Inv'
  BY <1>4, CreateKeepsInv
<1>. QED
  BY <1>1, <1>2, <1>3, <1>4 DEF Next

\* The invariant of the specification.
LEMMA InvHolds == Spec => []Inv
BY InitInv, NextKeepsInv, PTL DEF Spec

-----------------------------------------------------------------------------
(* Theorems.                                                               *)

\* Every column and every handler's state stays in its type.
THEOREM TypeCorrect == Spec => []TypeOK
<1>1. Inv => TypeOK
  BY DEF Inv
<1>. QED
  BY <1>1, InvHolds, PTL

\* An approval request and its transaction always tell the same story.
THEOREM BooksAgree == Spec => []RequestsAgreeWithBooks
<1>1. ASSUME Inv PROVE RequestsAgreeWithBooks
  <2>. SUFFICES ASSUME NEW t \in TxId
       PROVE  /\ request[t] = "pending" => status[t] = "pending_approval"
              /\ request[t] = "rejected" <=> status[t] = "rejected"
              /\ request[t] = "approved" <=>
                    status[t] = "posted" /\ entry[t].mode = "pending_approval"
    BY DEF RequestsAgreeWithBooks
  <2>1. /\ status[t] \in {"absent", "pending_approval", "posted", "rejected"}
        /\ request[t] \in {"none", "pending", "approved", "rejected"}
        /\ entry[t] # NoEntry => entry[t].mode \in {"posted", "pending_approval"}
    BY <1>1, EntryFields DEF Inv, TypeOK
  <2>. QED
    BY <1>1, <2>1 DEF Inv, IInv, RowsAgree
<1>. QED
  BY <1>1, InvHolds, PTL

\* No interleaving of reversals undoes an entry twice.
THEOREM NoDoubleReversal == Spec => []ReversedAtMostOnce
<1>1. Inv => ReversedAtMostOnce
  BY DEF Inv, IInv
<1>. QED
  BY <1>1, InvHolds, PTL

\* No step edits a row, un-decides a request or revives a rejected entry.
THEOREM HistoryKept == Spec => HistoryIsImmutable
<1>. DEFINE Kept ==
       \A t \in TxId :
         /\ entry[t] # NoEntry => entry'[t] = entry[t]
         /\ status[t] \in {"posted", "rejected"} => status'[t] = status[t]
         /\ request[t] \in {"approved", "rejected"} =>
               request'[t] = request[t] /\ decidedBy'[t] = decidedBy[t]
<1>1. ASSUME Inv, Next PROVE Kept
  <2>1. ASSUME NEW h \in Handlers, Insert(h) PROVE Kept
    BY <1>1, <2>1 DEF Insert, Fresh, Inv, IInv, TypeOK, RowsAgree
  <2>2. ASSUME NEW h \in Handlers, Submit(h) PROVE Kept
    BY <1>1, <2>2 DEF Submit, Inv, IInv, TypeOK, SubmitterIsAlone
  <2>3. CASE UNCHANGED <<entry, status, request, decidedBy>>
    BY <2>3
  <2>4. ASSUME NEW t \in TxId, NEW m \in Members, NEW route \in Routes,
               NEW approve \in BOOLEAN, Decide(t, m, route, approve)
        PROVE  Kept
    <3>1. status[t] = "pending_approval"
      BY <1>1, <2>4 DEF Decide, Inv, IInv, TypeOK, RowsAgree
    <3>. QED
      BY <1>1, <2>4, <3>1 DEF Decide, Inv, TypeOK
  <2>5. ASSUME NEW h \in Handlers, HandlerStep(h) PROVE Kept
    <3>1. \/ Insert(h) \/ Submit(h)
          \/ UNCHANGED <<entry, status, request, decidedBy>>
      BY <2>5 DEF HandlerStep, Link, Abandon, InsertRefused, ValidateTransfer,
                  CloseAccount, TreasuryPostTransaction, TreasuryReverseTransaction,
                  TreasuryRequestTransfer, TreasuryCloseTripFund, books
    <3>. QED
      BY <2>1, <2>2, <2>3, <3>1
  <2>6. ASSUME NEW t \in TxId, Decision(t) PROVE Kept
    <3>1. PICK m \in Members, approve \in BOOLEAN, route \in Routes :
            Decide(t, m, route, approve)
      BY <2>6 DEF Decision, ApprovalDecide, TreasuryDecideTransfer,
                  ExpenseApprovalDecide, Routes
    <3>. QED
      BY <2>4, <3>1
  <2>7. ASSUME NEW f \in TripFunds, TreasuryCreateTripFund(f) PROVE Kept
    BY <2>3, <2>7 DEF TreasuryCreateTripFund
  <2>. QED
    BY <1>1, <2>5, <2>6, <2>7 DEF Next
<1>2. Inv /\ [Next]_vars => [Kept]_vars
  BY <1>1
<1>. QED
  BY <1>2, InvHolds, PTL DEF Spec, HistoryIsImmutable

\* Posting one more row moves a balance by that row's effect.
LEMMA PostingMoves ==
    ASSUME BalancesAreSums, BalancesAreSums', entry' = entry, NEW t \in TxId,
           t \notin Posted, Posted' = Posted \cup {t}, NEW CONSTANT a \in Account
    PROVE  /\ BalanceForAccount(a) \in Int
           /\ BalanceForAccount(a)' = BalanceForAccount(a) + Effect(entry[t], a)
<1>1. /\ IsFiniteSet(Posted) /\ Moves(a) \in [Posted -> Int]
      /\ IsFiniteSet(Posted') /\ Moves(a)' \in [Posted' -> Int]
  BY DEF BalancesAreSums
<1>2. PICK g : IsSum(g, Moves(a), Posted) /\ BalanceForAccount(a) = g[Posted]
  BY DEF BalancesAreSums
<1>3. PICK h : IsSum(h, Moves(a)', Posted') /\ BalanceForAccount(a)' = h[Posted']
  BY DEF BalancesAreSums
<1>4. g[Posted] \in Int
  BY <1>1, <1>2, SumIsInt
<1>5. g[Posted] = h[Posted]
  <2>1. \A x \in Posted : Moves(a)[x] = Moves(a)'[x]
    BY DEF Moves
  <2>. QED BY <1>1, <1>2, <1>3, <2>1, SumsAgree
<1>6. h[Posted'] = h[Posted' \ {t}] + Moves(a)'[t]
  BY <1>1, <1>3, SumAdds
<1>7. Posted' \ {t} = Posted /\ Moves(a)'[t] = Effect(entry[t], a)
  BY DEF Moves
<1>. QED BY <1>2, <1>3, <1>4, <1>5, <1>6, <1>7

\* A decision approves only what the account it debits, still open, can afford;
\* whatever other handlers posted or closed since the request, the balance the
\* decision leaves is not below zero.
THEOREM NeverOverdraws == Spec => ApprovalNeverOverdraws
<1>. DEFINE Afforded ==
       \A t \in TxId : request[t] = "pending" /\ request'[t] = "approved" =>
          /\ IsOpen(entry[t].from)
          /\ BalanceForAccount(entry[t].from)' >= 0
<1>1. ASSUME Inv, BalancesAreSums, BalancesAreSums', Next PROVE Afforded
  <2>. SUFFICES ASSUME NEW t \in TxId, request[t] = "pending", request'[t] = "approved"
                PROVE  /\ IsOpen(entry[t].from)
                       /\ BalanceForAccount(entry[t].from)' >= 0
    OBVIOUS
  <2>1. PICK m \in Members, route \in Routes : Decide(t, m, route, TRUE)
    <3>1. ~ UNCHANGED request
      OBVIOUS
    <3>2. ASSUME NEW h \in Handlers, HandlerStep(h) PROVE FALSE
      <4>1. Submit(h)
        BY <3>1, <3>2 DEF HandlerStep, Insert, Link, Abandon, InsertRefused,
                  ValidateTransfer, CloseAccount, TreasuryPostTransaction,
                  TreasuryReverseTransaction, TreasuryRequestTransfer,
                  TreasuryCloseTripFund, books
      <4>. QED
        BY <1>1, <4>1 DEF Submit, Inv, TypeOK
    <3>3. PICK u \in TxId : Decision(u)
      BY <1>1, <3>1, <3>2 DEF Next, TreasuryCreateTripFund
    <3>4. PICK m \in Members, approve \in BOOLEAN, route \in Routes :
            Decide(u, m, route, approve)
      BY <3>3 DEF Decision, ApprovalDecide, TreasuryDecideTransfer,
                  ExpenseApprovalDecide, Routes
    <3>5. u = t /\ approve = TRUE
      BY <1>1, <3>4 DEF Decide, Inv, TypeOK
    <3>. QED BY <3>4, <3>5
  <2>2. /\ status' = [status EXCEPT ![t] = "posted"]
        /\ UNCHANGED <<account, entry>>
        /\ IsOpen(entry[t].from)
        /\ BalanceForAccount(entry[t].from) - entry[t].amount >= 0
    BY <2>1 DEF Decide, Affordable
  <2>3. status[t] = "pending_approval" /\ entry[t] \in Entry
    BY <1>1 DEF Inv, IInv, TypeOK, RowsAgree
  <2>4. t \notin Posted /\ Posted' = Posted \cup {t}
    BY <1>1, <2>2, <2>3 DEF Posted, Inv, TypeOK
  <2>5. PICK a \in Account : a = entry[t].from
    BY <2>3, EntryFields
  <2>6. /\ BalanceForAccount(a) \in Int
        /\ BalanceForAccount(a)' = BalanceForAccount(a) + Effect(entry[t], a)
    BY <1>1, <2>2, <2>4, PostingMoves
  <2>7. entry[t].amount \in Nat
    <3>1. entry[t].amount \in Amounts
      BY <2>3, EntryFields
    <3>. QED BY <3>1, NumbersAssumption
  <2>8. Effect(entry[t], a) \in Int /\ Effect(entry[t], a) >= - entry[t].amount
    BY <2>7 DEF Effect
  <2>9. BalanceForAccount(a)' >= 0
    BY <2>2, <2>5, <2>6, <2>7, <2>8
  <2>10. BalanceForAccount(entry[t].from)' = BalanceForAccount(a)'
    BY <2>2, <2>5 DEF BalanceForAccount
  <2>. QED BY <2>2, <2>9, <2>10
<1>2. Inv /\ BalancesAreSums /\ BalancesAreSums' /\ [Next]_vars => [Afforded]_vars
  BY <1>1
<1>. QED
  BY <1>2, InvHolds, BalanceIsSum, PTL DEF Spec, ApprovalNeverOverdraws
=============================================================================
