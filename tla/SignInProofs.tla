---------------------------- MODULE SignInProofs ----------------------------
(***************************************************************************)
(* What holds of signing in for every number of logins, requests at once,  *)
(* security keys and backup codes, and every limit.                        *)
(***************************************************************************)
EXTENDS SignIn, FiniteSetTheorems, TLAPS

\* What a request holds at each stage.
Sound(q) ==
    /\ q.at \in CodeStages \cup KeyStages => q.of # NoPending
    /\ q.of # NoPending => q.at \in CodeStages \cup KeyStages \cup {"starting"}
    /\ q.at \in {"completing", "needing", "starting"} => ~q.temp
    /\ q.at = "starting" /\ q.of = NoPending => ~q.guarded
    /\ q.at \in {"adding", "storing", "removing"} => q.key # NoKey
    /\ q.at = "idle" => ~q.guarded
RequestsSound == \A r \in Requests : Sound(request[r])

GuardsHold == \A r \in Requests : request[r].guarded => Protected(request[r].login)

\* A request that holds the row of p, or has spent it and will start the session.
Claims(q, p) == q.of = p /\ q.at \in CodeStages \cup {"starting"}
ClaimsAlone ==
    /\ opened \in [Pendings -> {0, 1}]
    /\ \A p \in Pendings :
        /\ \A r, s \in Requests : Claims(request[r], p) /\ Claims(request[s], p) => r = s
        /\ opened[p] = 1 => \A r \in Requests : ~Claims(request[r], p)
        /\ pending[p].kind # "gone" =>
             /\ opened[p] = 0
             /\ \A r \in Requests : ~(request[r].at = "starting" /\ request[r].of = p)

\* Passwords let past the counts and not yet counted.
Guessing == {r \in Requests : request[r].at \in {"trying", "wrong"}}
GuessingAt(l) == {r \in Guessing : request[r].login = l}
CountsSound ==
    /\ \A l \in Logins :
         failures[l] + Cardinality(GuessingAt(l)) < MaxLoginFailures + Cardinality(Requests)
    /\ tries + Cardinality(Guessing) < AddressLimit + Cardinality(Requests)

IInv ==
    /\ TypeOK /\ RequestsSound /\ GuardsHold /\ ClaimsAlone
    /\ CountsSound /\ CodesStandIn

\* The types of all but the requests.
RestOK ==
    /\ user \in [Logins -> Passwords]
    /\ failures \in [Logins -> Nat] /\ tries \in Nat /\ asked \in [Logins -> Nat]
    /\ pending \in [Pendings -> Pending]
    /\ \A p \in Pendings : pending[p].kind \in {"password", "factor"} <=> pending[p].login # NoLogin
    /\ token \in [Tokens -> Logins \cup {NoLogin}]
    /\ app \in [Logins -> {"none", "begun", "confirmed"}]
    /\ keys \in [Logins -> SUBSET Keys]
    /\ codes \in [Logins -> [issued : BOOLEAN, unused : SUBSET Codes]]
    /\ challenge \in [Logins -> SUBSET Kinds]
    /\ session \in [Logins -> 0..MaxSessions]
    /\ stale \subseteq Logins
    /\ made \in 0..MaxRequests

-----------------------------------------------------------------------------
(* Requests.                                                               *)

Typed(q) == q \in Request /\ (q.at = "idle" <=> q.login = NoLogin)

LEMMA RequestFields ==
    ASSUME NEW q \in Request
    PROVE  /\ q.at \in Stages /\ q.login \in Logins \cup {NoLogin}
           /\ q.of \in Pendings \cup {NoPending}
           /\ q.temp \in BOOLEAN /\ q.guarded \in BOOLEAN /\ q.saw \in BOOLEAN
           /\ q.key \in Keys \cup {NoKey} /\ q.code \in Codes \cup {NoCode}
BY DEF Request

LEMMA IdleFields ==
    /\ Typed(Idle) /\ Idle.at = "idle" /\ Idle.login = NoLogin /\ Idle.of = NoPending
    /\ ~Idle.guarded /\ ~Idle.temp
BY DEF Idle, Typed, MkRequest, Request, Stages

LEMMA AtFields ==
    ASSUME NEW stage \in Stages \ {"idle"}, NEW l \in Logins
    PROVE  LET q == At(stage, l) IN
           /\ Typed(q) /\ q.at = stage /\ q.login = l /\ q.of = NoPending
           /\ ~q.guarded /\ ~q.temp /\ ~q.saw
BY SignInAssumption DEF At, Typed, MkRequest, Request

LEMMA AcceptedFields ==
    ASSUME NEW stage \in Stages \ {"idle"}, NEW l \in Logins,
           NEW temp \in BOOLEAN, NEW guarded \in BOOLEAN
    PROVE  LET q == Accepted(stage, l, temp, guarded) IN
           /\ Typed(q) /\ q.at = stage /\ q.login = l /\ q.of = NoPending
           /\ q.guarded = guarded /\ q.temp = temp
BY SignInAssumption DEF Accepted, Typed, MkRequest, Request

LEMMA BearingFields ==
    ASSUME NEW stage \in Stages \ {"idle"}, NEW l \in Logins, NEW p \in Pendings
    PROVE  LET q == Bearing(stage, l, p) IN
           /\ Typed(q) /\ q.at = stage /\ q.login = l /\ q.of = p
           /\ ~q.guarded /\ ~q.temp
BY SignInAssumption DEF Bearing, Typed, MkRequest, Request

LEMMA SawFields ==
    ASSUME NEW stage \in Stages \ {"idle"}, NEW l \in Logins, NEW k \in Keys \cup {NoKey},
           NEW b \in BOOLEAN
    PROVE  LET q == Saw(stage, l, k, b) IN
           /\ Typed(q) /\ q.at = stage /\ q.login = l /\ q.of = NoPending
           /\ ~q.guarded /\ ~q.temp /\ q.saw = b /\ q.key = k
BY SignInAssumption DEF Saw, Typed, MkRequest, Request

LEMMA OnwardFields ==
    ASSUME NEW q \in Request, q.login # NoLogin, NEW stage \in Stages \ {"idle"},
           NEW c \in Codes \cup {NoCode}
    PROVE  LET n == Onward(q, stage, c) IN
           /\ Typed(n) /\ n.at = stage /\ n.login = q.login /\ n.of = q.of
           /\ n.temp = q.temp /\ n.guarded = q.guarded /\ n.saw = q.saw /\ n.key = q.key
BY RequestFields DEF Onward, Typed, MkRequest, Request

LEMMA UnguardedFields ==
    ASSUME NEW q \in Request, Typed(q)
    PROVE  LET n == Unguarded(q) IN
           /\ Typed(n) /\ n.at = q.at /\ n.login = q.login /\ n.of = q.of
           /\ n.temp = q.temp /\ ~n.guarded /\ n.saw = q.saw /\ n.key = q.key
BY RequestFields DEF Unguarded, Typed, MkRequest, Request

\* A request under way has a login, and what it holds is well typed.
LEMMA Busy ==
    ASSUME IInv, NEW r \in Requests
    PROVE  /\ Typed(request[r]) /\ Sound(request[r]) /\ RestOK
           /\ request[r].at # "idle" => request[r].login \in Logins
           /\ request[r].of \in Pendings \cup {NoPending}
           /\ request[r].guarded => Protected(request[r].login)
BY RequestFields DEF IInv, TypeOK, RestOK, Typed, RequestsSound, GuardsHold

\* A pending row that is live is some login's.
LEMMA LiveOwner ==
    ASSUME RestOK, NEW p \in Pendings
    PROVE  /\ pending[p].kind \in {"password", "factor"} => pending[p].login \in Logins
           /\ pending[p].attempts \in Nat
BY DEF RestOK, Pending

-----------------------------------------------------------------------------
(* What one request's step does to the requests.                           *)

\* The same request, though its login's factors may have gone.
Like(q, n) ==
    /\ Typed(n) /\ n.at = q.at /\ n.login = q.login /\ n.of = q.of
    /\ n.temp = q.temp /\ n.saw = q.saw /\ n.key = q.key
    /\ n.guarded => q.guarded

\* Request r is now q, and the others are what they were.
Becomes(r, q) ==
    /\ request' \in [Requests -> Request]
    /\ Like(q, request'[r])
    /\ \A s \in Requests \ {r} : Like(request[s], request'[s])

LEMMA SetRequestEffect ==
    ASSUME IInv, NEW r \in Requests, NEW q, Typed(q), SetRequest(r, q)
    PROVE  Becomes(r, q) /\ request'[r] = q
BY Busy DEF IInv, TypeOK, SetRequest, Becomes, Like, Typed

LEMMA StandsStill ==
    ASSUME IInv, NEW r \in Requests, UNCHANGED request
    PROVE  Becomes(r, request[r])
BY Busy DEF IInv, TypeOK, Becomes, Like, Typed

LEMMA SetFactorsEffect ==
    ASSUME IInv, NEW r \in Requests, NEW q, Typed(q), NEW l \in Logins,
           NEW a \in {"none", "begun", "confirmed"}, NEW ks \in SUBSET Keys,
           SetFactors(r, l, a, ks, q)
    PROVE  /\ Becomes(r, q)
           /\ \A s \in Requests : request'[s].login = l /\ request'[s].guarded =>
                                    a = "confirmed" \/ ks # {}
           /\ app' \in [Logins -> {"none", "begun", "confirmed"}]
           /\ keys' \in [Logins -> SUBSET Keys]
           /\ app'[l] = a /\ keys'[l] = ks
           /\ \A m \in Logins \ {l} : app'[m] = app[m] /\ keys'[m] = keys[m]
<1>1. /\ app' \in [Logins -> {"none", "begun", "confirmed"}]
      /\ keys' \in [Logins -> SUBSET Keys]
      /\ app'[l] = a /\ keys'[l] = ks
      /\ \A m \in Logins \ {l} : app'[m] = app[m] /\ keys'[m] = keys[m]
  BY DEF IInv, TypeOK, SetFactors
<1>2. ASSUME NEW o, Typed(o)
      PROVE  LET n == StillGuarded(l, a, ks, o) IN
             /\ Like(o, n)
             /\ n.login = l /\ n.guarded => a = "confirmed" \/ ks # {}
  <2>1. CASE o.login = l /\ a # "confirmed" /\ ks = {}
    BY <1>2, <2>1, UnguardedFields DEF StillGuarded, Like, Typed
  <2>2. CASE ~(o.login = l /\ a # "confirmed" /\ ks = {})
    BY <1>2, <2>2 DEF StillGuarded, Like
  <2>. QED
    BY <2>1, <2>2
<1>3. \A s \in Requests :
        request'[s] = StillGuarded(l, a, ks, IF s = r THEN q ELSE request[s])
  BY DEF SetFactors
<1>4. \A s \in Requests : Typed(IF s = r THEN q ELSE request[s])
  BY Busy
<1>5. \A s \in Requests :
        /\ Like(IF s = r THEN q ELSE request[s], request'[s])
        /\ request'[s].login = l /\ request'[s].guarded => a = "confirmed" \/ ks # {}
  BY <1>2, <1>3, <1>4
<1>6. request' \in [Requests -> Request]
  <2>1. request' = [s \in Requests |-> StillGuarded(l, a, ks, IF s = r THEN q ELSE request[s])]
    BY DEF SetFactors
  <2>. QED
    BY <1>3, <1>5, <2>1 DEF Like, Typed
<1>. QED
  BY <1>1, <1>5, <1>6 DEF Becomes

-----------------------------------------------------------------------------
(* What it owes each part of the invariant.                                *)

LEMMA SoundKept ==
    ASSUME IInv, NEW r \in Requests, NEW q, Becomes(r, q), Sound(q)
    PROVE  RequestsSound'
BY Busy DEF Becomes, Like, RequestsSound, Sound

\* With the rest of the state the types are kept.
LEMMA TypesKept ==
    ASSUME IInv, NEW r \in Requests, NEW q, Becomes(r, q), RestOK', ClaimsAlone'
    PROVE  TypeOK'
BY DEF Becomes, Like, Typed, RestOK, ClaimsAlone, TypeOK

\* No factor changed: whoever was guarded is.
LEMMA GuardsKept ==
    ASSUME IInv, NEW r \in Requests, NEW q, Becomes(r, q),
           q.guarded => Protected(q.login), UNCHANGED <<app, keys>>
    PROVE  GuardsHold'
BY Busy DEF Becomes, Like, GuardsHold, Protected, ConfirmedApp

\* A request takes hold of a row, or keeps it, when no other has; no row is found
\* again that was gone; what is about to become a session has spent its row.
LEMMA ClaimsKept ==
    ASSUME IInv, NEW r \in Requests, NEW q, Becomes(r, q), UNCHANGED opened,
           \A p \in Pendings : pending[p].kind = "gone" => pending'[p].kind = "gone",
           \A p \in Pendings : Claims(q, p) =>
             /\ opened[p] = 0
             /\ \A s \in Requests \ {r} : ~Claims(request[s], p)
             /\ q.at = "starting" => pending'[p].kind = "gone"
    PROVE  ClaimsAlone'
<1>1. \A p \in Pendings, s \in Requests \ {r} :
        /\ Claims(request'[s], p) <=> Claims(request[s], p)
        /\ request'[s].at = request[s].at /\ request'[s].of = request[s].of
  BY DEF Becomes, Like, Claims
<1>2. \A p \in Pendings : Claims(request'[r], p) <=> Claims(q, p)
  BY DEF Becomes, Like, Claims
<1>3. request'[r].at = q.at /\ request'[r].of = q.of
  BY DEF Becomes, Like
<1>4. opened' \in [Pendings -> {0, 1}]
  BY DEF IInv, ClaimsAlone
<1>. SUFFICES ASSUME NEW p \in Pendings
              PROVE  /\ \A t, s \in Requests : Claims(request'[t], p) /\ Claims(request'[s], p) => t = s
                     /\ opened[p] = 1 => \A t \in Requests : ~Claims(request'[t], p)
                     /\ pending'[p].kind # "gone" =>
                          /\ opened[p] = 0
                          /\ \A t \in Requests : ~(request'[t].at = "starting" /\ request'[t].of = p)
  BY <1>4 DEF ClaimsAlone
<1>5. \A t, s \in Requests : Claims(request'[t], p) /\ Claims(request'[s], p) => t = s
  BY <1>1, <1>2 DEF IInv, ClaimsAlone
<1>6. opened[p] = 1 => \A t \in Requests : ~Claims(request'[t], p)
  BY <1>1, <1>2 DEF IInv, ClaimsAlone
<1>7. ASSUME pending'[p].kind # "gone"
      PROVE  /\ opened[p] = 0
             /\ \A t \in Requests : ~(request'[t].at = "starting" /\ request'[t].of = p)
  BY <1>1, <1>3, <1>7 DEF IInv, ClaimsAlone, Claims
<1>. QED
  BY <1>5, <1>6, <1>7

\* Nobody new guesses.
LEMMA GuessingKept ==
    ASSUME IInv, NEW r \in Requests, NEW q, Becomes(r, q),
           q.at \in {"trying", "wrong"} =>
             request[r].at \in {"trying", "wrong"} /\ q.login = request[r].login
    PROVE  /\ Guessing' \subseteq Guessing
           /\ \A l \in Logins : (GuessingAt(l))' \subseteq GuessingAt(l)
BY DEF Becomes, Like, Guessing, GuessingAt

LEMMA CountingFinite ==
    /\ IsFiniteSet(Guessing) /\ Cardinality(Guessing) \in Nat
    /\ Cardinality(Guessing) <= Cardinality(Requests)
    /\ Cardinality(Requests) \in Nat
    /\ \A l \in Logins : /\ IsFiniteSet(GuessingAt(l)) /\ Cardinality(GuessingAt(l)) \in Nat
                         /\ Cardinality(GuessingAt(l)) <= Cardinality(Requests)
<1>1. Guessing \subseteq Requests /\ \A l \in Logins : GuessingAt(l) \subseteq Requests
  BY DEF Guessing, GuessingAt
<1>. QED
  BY <1>1, SignInAssumption, FS_Subset, FS_CardinalityType

LEMMA CountsKept ==
    ASSUME IInv, NEW r \in Requests, NEW q, Becomes(r, q), RestOK',
           q.at \in {"trying", "wrong"} =>
             request[r].at \in {"trying", "wrong"} /\ q.login = request[r].login,
           tries' <= tries, \A l \in Logins : failures'[l] <= failures[l]
    PROVE  CountsSound'
<1>1. /\ Guessing' \subseteq Guessing
      /\ \A l \in Logins : (GuessingAt(l))' \subseteq GuessingAt(l)
  BY GuessingKept
<1>2. /\ Cardinality(Guessing') \in Nat /\ Cardinality(Guessing') <= Cardinality(Guessing)
      /\ \A l \in Logins :
           /\ Cardinality((GuessingAt(l))') \in Nat
           /\ Cardinality((GuessingAt(l))') <= Cardinality(GuessingAt(l))
  BY <1>1, CountingFinite, FS_Subset, FS_CardinalityType
<1>3. /\ tries \in Nat /\ tries' \in Nat
      /\ \A l \in Logins : failures[l] \in Nat /\ failures'[l] \in Nat
      /\ AddressLimit \in Nat /\ MaxLoginFailures \in Nat
  BY SignInAssumption DEF RestOK, IInv, TypeOK
<1>4. tries' + Cardinality(Guessing') < AddressLimit + Cardinality(Requests)
  BY <1>2, <1>3, CountingFinite DEF IInv, CountsSound
<1>5. ASSUME NEW l \in Logins
      PROVE  failures'[l] + Cardinality((GuessingAt(l))') < MaxLoginFailures + Cardinality(Requests)
  BY <1>2, <1>3, CountingFinite DEF IInv, CountsSound
<1>. QED
  BY <1>4, <1>5 DEF CountsSound

\* No factor changes, and no batch of codes comes or goes.
LEMMA CodesStay ==
    ASSUME IInv, UNCHANGED <<app, keys, stale>>,
           \A l \in Logins : codes'[l].issued = codes[l].issued
    PROVE  CodesStandIn'
BY DEF IInv, CodesStandIn, Protected, ConfirmedApp

\* The factors and the codes of login l change together.
LEMMA CodesFollow ==
    ASSUME IInv, NEW l \in Logins, stale \subseteq stale',
           \A m \in Logins \ {l} : app'[m] = app[m] /\ keys'[m] = keys[m] /\ codes'[m] = codes[m],
           l \notin stale' =>
             /\ Protected(l)' => codes'[l].issued
             /\ codes'[l].issued => app'[l] # "none" \/ keys'[l] # {}
    PROVE  CodesStandIn'
<1>. SUFFICES ASSUME NEW m \in Logins \ stale'
              PROVE  /\ Protected(m)' => codes'[m].issued
                     /\ codes'[m].issued => app'[m] # "none" \/ keys'[m] # {}
  BY DEF CodesStandIn
<1>1. CASE m = l
  BY <1>1 DEF Protected, ConfirmedApp
<1>2. CASE m # l
  BY <1>2 DEF IInv, CodesStandIn, Protected, ConfirmedApp
<1>. QED
  BY <1>1, <1>2

-----------------------------------------------------------------------------
(* Kinds of steps.                                                         *)

\* A request's step that leaves the factors of its login alone.
LEMMA QuietStep ==
    ASSUME IInv, NEW r \in Requests, NEW q, Becomes(r, q), Sound(q),
           q.guarded => Protected(q.login),
           UNCHANGED <<app, keys, stale>>,
           \A l \in Logins : codes'[l].issued = codes[l].issued,
           RestOK', ClaimsAlone', CountsSound'
    PROVE  IInv'
<1>1. TypeOK' /\ RequestsSound' /\ GuardsHold'
  BY TypesKept, SoundKept, GuardsKept
<1>2. CodesStandIn'
  BY CodesStay
<1>. QED
  BY <1>1, <1>2 DEF IInv

\* One that touches no count and no half-finished sign-in either.
LEMMA PlainStep ==
    ASSUME IInv, NEW r \in Requests, NEW q, Becomes(r, q), Sound(q),
           q.guarded => Protected(q.login), q.at \notin {"trying", "wrong"},
           \A p \in Pendings : Claims(q, p) => Claims(request[r], p) /\ q.at # "starting",
           UNCHANGED <<app, keys, stale, failures, tries, pending, opened>>,
           \A l \in Logins : codes'[l].issued = codes[l].issued,
           RestOK'
    PROVE  IInv'
<1>1. ClaimsAlone'
  <2>1. \A p \in Pendings : Claims(q, p) =>
          /\ opened[p] = 0
          /\ \A s \in Requests \ {r} : ~Claims(request[s], p)
    BY DEF IInv, ClaimsAlone
  <2>. QED
    BY <2>1, ClaimsKept
<1>2. CountsSound'
  <2>1. tries' <= tries /\ \A l \in Logins : failures'[l] <= failures[l]
    BY DEF IInv, TypeOK
  <2>. QED
    BY <2>1, CountsKept
<1>. QED
  BY <1>1, <1>2, QuietStep

\* No request changes.
LEMMA StillStep ==
    ASSUME IInv, UNCHANGED <<request, app, keys, codes, stale, opened>>, RestOK',
           \A p \in Pendings : pending[p].kind = "gone" => pending'[p].kind = "gone",
           tries' <= tries, \A l \in Logins : failures'[l] <= failures[l]
    PROVE  IInv'
<1>1. TypeOK' /\ RequestsSound' /\ GuardsHold'
  BY DEF IInv, TypeOK, RestOK, RequestsSound, GuardsHold, Protected, ConfirmedApp
<1>2. ClaimsAlone'
  BY DEF IInv, ClaimsAlone
<1>3. /\ tries \in Nat /\ tries' \in Nat
      /\ \A l \in Logins : failures[l] \in Nat /\ failures'[l] \in Nat
      /\ AddressLimit \in Nat /\ MaxLoginFailures \in Nat
  BY SignInAssumption DEF RestOK, IInv, TypeOK
<1>4. tries' + Cardinality(Guessing') < AddressLimit + Cardinality(Requests)
  <2>1. Guessing' = Guessing
    BY DEF Guessing
  <2>. QED
    BY <1>3, <2>1, CountingFinite DEF IInv, CountsSound
<1>5. ASSUME NEW l \in Logins
      PROVE  failures'[l] + Cardinality((GuessingAt(l))') < MaxLoginFailures + Cardinality(Requests)
  <2>1. (GuessingAt(l))' = GuessingAt(l)
    BY DEF Guessing, GuessingAt
  <2>. QED
    BY <1>3, <2>1, CountingFinite DEF IInv, CountsSound
<1>6. CodesStandIn'
  BY CodesStay
<1>. QED
  BY <1>1, <1>2, <1>4, <1>5, <1>6 DEF IInv, CountsSound

-----------------------------------------------------------------------------
(* The login form.                                                         *)

\* A request that has arrived was idle; one that goes on was not.
LEMMA Arrived ==
    ASSUME IInv, NEW r \in Requests, Arrives(r)
    PROVE  request[r].at = "idle" /\ made' \in 0..MaxRequests
BY SignInAssumption DEF Arrives, IInv, TypeOK

\* It is let in below the counts, and refused it is only charged to the address.
LEMMA LoginSubmitKeeps ==
    ASSUME IInv, NEW r \in Requests, NEW l \in Logins, LoginSubmit(r, l)
    PROVE  IInv'
<1>1. /\ request[r].at = "idle" /\ made' \in 0..MaxRequests /\ tries < AddressLimit
      /\ UNCHANGED <<user, failures, asked, pending, token, app, keys, codes, challenge,
                     stale, session, opened>>
  BY Arrived, SignInAssumption DEF LoginSubmit, Blocked, factorVars, IInv, TypeOK
<1>2. /\ tries \in Nat /\ AddressLimit \in Nat /\ MaxLoginFailures \in Nat
      /\ \A m \in Logins : failures[m] \in Nat
  BY SignInAssumption DEF IInv, TypeOK
<1>3. r \notin Guessing /\ Cardinality(Guessing \cup {r}) <= Cardinality(Requests)
      /\ Cardinality(Guessing \cup {r}) = Cardinality(Guessing) + 1
  <2>1. r \notin Guessing /\ Guessing \cup {r} \subseteq Requests
    BY <1>1 DEF Guessing
  <2>. QED
    BY <2>1, CountingFinite, FS_AddElement, FS_Subset, SignInAssumption
<1>4. CASE CheckLockout(l)
  <2>. DEFINE q == request[r]
  <2>1. tries' = tries + 1 /\ UNCHANGED request
    BY <1>4 DEF LoginSubmit, Allow
  <2>2. RestOK' /\ ClaimsAlone'
    BY <1>1, <1>2, <2>1 DEF IInv, TypeOK, RestOK, ClaimsAlone
  <2>3. CountsSound'
    <3>1. Guessing' = Guessing /\ \A m \in Logins : (GuessingAt(m))' = GuessingAt(m)
      BY <2>1 DEF Guessing, GuessingAt
    <3>2. tries' + Cardinality(Guessing') < AddressLimit + Cardinality(Requests)
      BY <1>1, <1>2, <1>3, <2>1, <3>1, CountingFinite
    <3>. QED
      BY <1>1, <3>1, <3>2 DEF IInv, CountsSound
  <2>4. Becomes(r, q) /\ Sound(q) /\ (q.guarded => Protected(q.login))
    BY <2>1, StandsStill, Busy
  <2>. HIDE DEF q
  <2>. QED
    BY <1>1, <2>2, <2>3, <2>4, QuietStep
<1>5. CASE ~CheckLockout(l)
  <2>. DEFINE q == At("trying", l)
  <2>1. SetRequest(r, q) /\ UNCHANGED tries /\ failures[l] < MaxLoginFailures
    BY <1>2, <1>5 DEF LoginSubmit, CheckLockout
  <2>2. /\ Typed(q) /\ q.at = "trying" /\ q.login = l /\ q.of = NoPending
        /\ ~q.guarded /\ ~q.temp
    BY AtFields DEF Stages, SignInStages
  <2>3. Becomes(r, q) /\ request'[r] = q
    BY <2>1, <2>2, SetRequestEffect
  <2>4. RestOK' /\ Sound(q)
    BY <1>1, <2>1, <2>2 DEF IInv, TypeOK, RestOK, Sound, CodeStages, KeyStages
  <2>5. ClaimsAlone'
    BY <1>1, <2>2, <2>3, ClaimsKept DEF Claims, CodeStages
  <2>6. CountsSound'
    <3>1. /\ Guessing' \subseteq Guessing \cup {r}
          /\ \A m \in Logins : (GuessingAt(m))' \subseteq GuessingAt(m) \cup {r}
          /\ \A m \in Logins \ {l} : (GuessingAt(m))' \subseteq GuessingAt(m)
      BY <2>2, <2>3 DEF Becomes, Like, Guessing, GuessingAt
    <3>2. Cardinality(Guessing') \in Nat /\ Cardinality(Guessing') <= Cardinality(Requests)
      <4>1. IsFiniteSet(Guessing \cup {r})
        BY CountingFinite, FS_AddElement
      <4>. QED
        BY <1>3, <3>1, <4>1, CountingFinite, FS_AddElement, FS_Subset, FS_CardinalityType
    <3>3. tries' + Cardinality(Guessing') < AddressLimit + Cardinality(Requests)
      BY <1>1, <1>2, <2>1, <3>2, CountingFinite
    <3>4. ASSUME NEW m \in Logins
          PROVE  failures'[m] + Cardinality((GuessingAt(m))') < MaxLoginFailures + Cardinality(Requests)
      <4>1. CASE m = l
        <5>1. (GuessingAt(m))' \subseteq Requests
          BY DEF GuessingAt, Guessing
        <5>2. Cardinality((GuessingAt(m))') \in Nat
              /\ Cardinality((GuessingAt(m))') <= Cardinality(Requests)
          BY <5>1, FS_Subset, FS_CardinalityType, SignInAssumption
        <5>. QED
          BY <1>1, <1>2, <2>1, <4>1, <5>2, CountingFinite
      <4>2. CASE m # l
        <5>1. Cardinality((GuessingAt(m))') \in Nat
              /\ Cardinality((GuessingAt(m))') <= Cardinality(GuessingAt(m))
          BY <3>1, <4>2, FS_Subset, FS_CardinalityType, CountingFinite
        <5>. QED
          BY <1>1, <1>2, <5>1, CountingFinite DEF IInv, CountsSound
      <4>. QED
        BY <4>1, <4>2
    <3>. QED
      BY <3>3, <3>4 DEF CountsSound
  <2>. HIDE DEF q
  <2>. QED
    BY <1>1, <2>2, <2>3, <2>4, <2>5, <2>6, QuietStep
<1>. QED
  BY <1>4, <1>5

\* A wrong password is counted by whoever guessed it, and nobody else guesses less.
LEMMA RecordLoginFailureKeeps ==
    ASSUME IInv, NEW r \in Requests, RecordLoginFailure(r)
    PROVE  IInv'
<1>. PICK l \in Logins : l = request[r].login
  BY Busy DEF RecordLoginFailure
<1>1. /\ request[r].at = "wrong" /\ r \in Guessing /\ r \in GuessingAt(l)
      /\ failures' \in [Logins -> Nat] /\ tries' \in Nat
      /\ UNCHANGED <<user, asked, pending, token, app, keys, codes, challenge,
                     stale, session, opened, made>>
      /\ tries' = tries + 1
      /\ failures'[l] <= failures[l] + 1
      /\ \A m \in Logins \ {l} : failures'[m] = failures[m]
  BY DEF RecordLoginFailure, Allow, factorVars, IInv, TypeOK, Guessing, GuessingAt
<1>2. /\ tries \in Nat /\ AddressLimit \in Nat /\ MaxLoginFailures \in Nat
      /\ \A m \in Logins : failures[m] \in Nat /\ failures'[m] \in Nat
  BY <1>1, SignInAssumption DEF IInv, TypeOK
<1>3. Becomes(r, Idle) /\ request'[r] = Idle
  BY IdleFields, SetRequestEffect DEF RecordLoginFailure, Done
<1>4. Sound(Idle) /\ RestOK'
  BY <1>1, IdleFields DEF IInv, TypeOK, RestOK, Sound, CodeStages, KeyStages
<1>5. ClaimsAlone'
  BY <1>1, <1>3, IdleFields, ClaimsKept DEF Claims, CodeStages
<1>6. /\ Guessing' \subseteq Guessing \ {r}
      /\ (GuessingAt(l))' \subseteq GuessingAt(l) \ {r}
      /\ \A m \in Logins : (GuessingAt(m))' \subseteq GuessingAt(m)
  BY <1>3, IdleFields DEF Becomes, Like, Guessing, GuessingAt
<1>7. ASSUME NEW S, IsFiniteSet(S), r \in S, NEW T, T \subseteq S \ {r}
      PROVE  Cardinality(T) \in Nat /\ Cardinality(S) \in Nat /\ Cardinality(T) + 1 <= Cardinality(S)
  BY <1>7, FS_RemoveElement, FS_Subset, FS_CardinalityType
<1>8. tries' + Cardinality(Guessing') < AddressLimit + Cardinality(Requests)
  BY <1>1, <1>2, <1>6, <1>7, CountingFinite DEF IInv, CountsSound
<1>9. ASSUME NEW m \in Logins
      PROVE  failures'[m] + Cardinality((GuessingAt(m))') < MaxLoginFailures + Cardinality(Requests)
  <2>1. failures[m] + Cardinality(GuessingAt(m)) < MaxLoginFailures + Cardinality(Requests)
    BY DEF IInv, CountsSound
  <2>2. CASE m = l
    <3>1. Cardinality((GuessingAt(m))') \in Nat
          /\ Cardinality((GuessingAt(m))') + 1 <= Cardinality(GuessingAt(m))
      BY <1>1, <1>6, <1>7, <2>2, CountingFinite
    <3>. QED
      BY <1>1, <1>2, <2>1, <2>2, <3>1, CountingFinite
  <2>3. CASE m # l
    <3>1. Cardinality((GuessingAt(m))') \in Nat
          /\ Cardinality((GuessingAt(m))') <= Cardinality(GuessingAt(m))
      BY <1>6, FS_Subset, FS_CardinalityType, CountingFinite
    <3>. QED
      BY <1>1, <1>2, <2>1, <2>3, <3>1, CountingFinite
  <2>. QED
    BY <2>2, <2>3
<1>10. CountsSound'
  BY <1>8, <1>9 DEF CountsSound
<1>. QED
  BY <1>1, <1>3, <1>4, <1>5, <1>10, IdleFields, QuietStep

\* A password accepted: the request knows whether its login was guarded.
LEMMA AcceptedStep ==
    ASSUME IInv, NEW r \in Requests, NEW l \in Logins, NEW stage \in {"right", "completing"},
           NEW temp \in BOOLEAN, stage = "completing" => ~temp,
           SetRequest(r, Accepted(stage, l, temp, Protected(l)))
    PROVE  \E q : /\ Becomes(r, q) /\ Sound(q) /\ (q.guarded => Protected(q.login))
                  /\ q.at = stage /\ q.of = NoPending
<1>. PICK g \in BOOLEAN : g = Protected(l)
  BY DEF Protected
<1>. DEFINE q == Accepted(stage, l, temp, g)
<1>1. stage \in Stages \ {"idle"}
  BY DEF Stages, SignInStages
<1>2. /\ Typed(q) /\ q.at = stage /\ q.login = l /\ q.of = NoPending
      /\ q.guarded = g /\ q.temp = temp
  BY <1>1, AcceptedFields
<1>3. Becomes(r, q)
  BY <1>2, SetRequestEffect
<1>4. Sound(q) /\ (q.guarded => Protected(q.login))
  BY <1>2 DEF Sound, CodeStages, KeyStages
<1>. HIDE DEF q
<1>. QED
  BY <1>2, <1>3, <1>4

LEMMA AuthenticateKeeps ==
    ASSUME IInv, NEW r \in Requests, Authenticate(r)
    PROVE  IInv'
<1>. DEFINE l == request[r].login
<1>1. /\ request[r].at = "trying" /\ l \in Logins /\ request[r] \in Request
      /\ request[r].of = NoPending /\ RestOK'
      /\ UNCHANGED <<failures, tries, pending, app, keys, codes, stale, opened>>
  BY Busy DEF Authenticate, factorVars, countVars, IInv, TypeOK, RestOK, Sound, Typed,
              CodeStages, KeyStages
<1>2. CASE GoOn(r, "wrong")
  <2>. DEFINE q == Onward(request[r], "wrong", request[r].code)
  <2>1. /\ Typed(q) /\ q.at = "wrong" /\ q.login = l /\ q.of = NoPending
        /\ q.guarded = request[r].guarded
    BY <1>1, OnwardFields, RequestFields, SignInAssumption DEF Stages, SignInStages
  <2>2. Becomes(r, q)
    BY <1>2, <2>1, SetRequestEffect DEF GoOn
  <2>3. Sound(q) /\ (q.guarded => Protected(q.login))
    BY <2>1, Busy DEF Sound, CodeStages, KeyStages
  <2>4. ClaimsAlone'
    BY <1>1, <2>1, <2>2, ClaimsKept DEF Claims, CodeStages
  <2>5. CountsSound'
    <3>1. tries' <= tries /\ \A m \in Logins : failures'[m] <= failures[m]
      BY <1>1 DEF IInv, TypeOK
    <3>. QED
      BY <1>1, <2>1, <2>2, <3>1, CountsKept
  <2>. HIDE DEF q
  <2>. QED
    BY <1>1, <2>2, <2>3, <2>4, <2>5, QuietStep
<1>3. CASE SetRequest(r, Accepted("right", l, user[l] = "temporary", Protected(l)))
  <2>1. PICK q : /\ Becomes(r, q) /\ Sound(q) /\ (q.guarded => Protected(q.login))
                 /\ q.at = "right" /\ q.of = NoPending
    BY <1>1, <1>3, AcceptedStep
  <2>2. /\ q.at \notin {"trying", "wrong"}
        /\ \A p \in Pendings : ~Claims(q, p)
    BY <2>1 DEF CodeStages, Claims
  <2>. QED
    BY <1>1, <2>1, <2>2, PlainStep
<1>. QED
  BY <1>2, <1>3 DEF Authenticate

-----------------------------------------------------------------------------
(* The steps that neither count a guess nor touch a factor.                *)

LEMMA CalmStep ==
    ASSUME IInv, NEW r \in Requests, NEW q, Becomes(r, q), Sound(q),
           q.guarded => Protected(q.login), q.at \notin {"trying", "wrong"},
           \A p \in Pendings : Claims(q, p) =>
             /\ \/ Claims(request[r], p)
                \/ opened[p] = 0 /\ \A s \in Requests : ~Claims(request[s], p)
             /\ q.at = "starting" => pending'[p].kind = "gone",
           UNCHANGED <<app, keys, stale, opened>>,
           \A p \in Pendings : pending[p].kind = "gone" => pending'[p].kind = "gone",
           tries' <= tries, \A l \in Logins : failures'[l] <= failures[l],
           \A l \in Logins : codes'[l].issued = codes[l].issued,
           RestOK'
    PROVE  IInv'
<1>1. ClaimsAlone'
  <2>1. \A p \in Pendings : Claims(q, p) =>
          /\ opened[p] = 0
          /\ \A s \in Requests \ {r} : ~Claims(request[s], p)
    BY DEF IInv, ClaimsAlone
  <2>. QED
    BY <2>1, ClaimsKept
<1>2. CountsSound'
  BY CountsKept
<1>. QED
  BY <1>1, <1>2, QuietStep

\* A request goes on: it is what it was, but for its stage.
LEMMA MoveOn ==
    ASSUME IInv, NEW r \in Requests, request[r].at # "idle",
           NEW stage \in Stages \ {"idle"}, NEW c \in Codes \cup {NoCode},
           SetRequest(r, Onward(request[r], stage, c))
    PROVE  \E q : /\ Becomes(r, q) /\ q.at = stage /\ q.login = request[r].login
                  /\ q.of = request[r].of /\ q.temp = request[r].temp
                  /\ q.saw = request[r].saw /\ q.key = request[r].key
                  /\ q.guarded = request[r].guarded
<1>. DEFINE q == Onward(request[r], stage, c)
<1>1. request[r] \in Request /\ request[r].login # NoLogin
  BY Busy DEF Typed
<1>2. /\ Typed(q) /\ q.at = stage /\ q.login = request[r].login
      /\ q.of = request[r].of /\ q.temp = request[r].temp
      /\ q.saw = request[r].saw /\ q.key = request[r].key
      /\ q.guarded = request[r].guarded
  BY <1>1, OnwardFields
<1>3. Becomes(r, q)
  BY <1>2, SetRequestEffect
<1>. HIDE DEF q
<1>. QED
  BY <1>2, <1>3

LEMMA GoneOn ==
    ASSUME IInv, NEW r \in Requests, request[r].at # "idle",
           NEW stage \in Stages \ {"idle"}, GoOn(r, stage)
    PROVE  \E q : /\ Becomes(r, q) /\ q.at = stage /\ q.login = request[r].login
                  /\ q.of = request[r].of /\ q.temp = request[r].temp
                  /\ q.saw = request[r].saw /\ q.key = request[r].key
                  /\ q.guarded = request[r].guarded
BY Busy, RequestFields, MoveOn DEF GoOn, Typed

\* It starts afresh at some stage, for a login.
LEMMA StartsAt ==
    ASSUME IInv, NEW r \in Requests, NEW stage \in Stages \ {"idle"}, NEW l \in Logins,
           SetRequest(r, At(stage, l))
    PROVE  \E q : /\ Becomes(r, q) /\ q.at = stage /\ q.login = l /\ q.of = NoPending
                  /\ ~q.guarded /\ ~q.temp
<1>. DEFINE q == At(stage, l)
<1>1. /\ Typed(q) /\ q.at = stage /\ q.login = l /\ q.of = NoPending
      /\ ~q.guarded /\ ~q.temp
  BY AtFields
<1>2. Becomes(r, q)
  BY <1>1, SetRequestEffect
<1>. HIDE DEF q
<1>. QED
  BY <1>1, <1>2

\* It starts, or goes on, for the half-finished sign-in p.
LEMMA StartsBearing ==
    ASSUME IInv, NEW r \in Requests, NEW stage \in Stages \ {"idle"}, NEW l \in Logins,
           NEW p \in Pendings, SetRequest(r, Bearing(stage, l, p))
    PROVE  \E q : /\ Becomes(r, q) /\ q.at = stage /\ q.login = l /\ q.of = p
                  /\ ~q.guarded /\ ~q.temp
<1>. DEFINE q == Bearing(stage, l, p)
<1>1. /\ Typed(q) /\ q.at = stage /\ q.login = l /\ q.of = p
      /\ ~q.guarded /\ ~q.temp
  BY BearingFields
<1>2. Becomes(r, q)
  BY <1>1, SetRequestEffect
<1>. HIDE DEF q
<1>. QED
  BY <1>1, <1>2

\* It ends.
LEMMA Ended ==
    ASSUME IInv, NEW r \in Requests, Done(r)
    PROVE  /\ Becomes(r, Idle) /\ Sound(Idle) /\ ~Idle.guarded
           /\ Idle.at \notin {"trying", "wrong"}
           /\ \A p \in Pendings : ~Claims(Idle, p)
BY IdleFields, SetRequestEffect
   DEF Done, Sound, CodeStages, KeyStages, Claims

\* One that ends, whatever it has written.
LEMMA EndStep ==
    ASSUME IInv, NEW r \in Requests, Done(r),
           UNCHANGED <<app, keys, stale, opened>>,
           \A p \in Pendings : pending[p].kind = "gone" => pending'[p].kind = "gone",
           tries' <= tries, \A l \in Logins : failures'[l] <= failures[l],
           \A l \in Logins : codes'[l].issued = codes[l].issued,
           RestOK'
    PROVE  IInv'
BY Ended, CalmStep

\* Nothing is counted and no row of pending changes.
LEMMA CountsStill ==
    ASSUME IInv, UNCHANGED <<failures, tries>>
    PROVE  tries' <= tries /\ \A l \in Logins : failures'[l] <= failures[l]
BY DEF IInv, TypeOK

\* The failures are forgotten; what is owed first is a password of one's own.
LEMMA ClearLoginFailuresKeeps ==
    ASSUME IInv, NEW r \in Requests, ClearLoginFailures(r)
    PROVE  IInv'
<1>1. /\ request[r].at = "right" /\ request[r].of = NoPending
      /\ RestOK' /\ UNCHANGED <<app, keys, stale, opened, codes, pending>>
      /\ tries' <= tries /\ \A l \in Logins : failures'[l] <= failures[l]
  <2>1. request[r].at = "right" /\ request[r].of = NoPending /\ request[r].login \in Logins
    BY Busy DEF ClearLoginFailures, Sound, CodeStages, KeyStages
  <2>2. failures' \in [Logins -> Nat] /\ \A l \in Logins : failures'[l] <= failures[l]
    <3>1. /\ failures \in [Logins -> Nat]
          /\ \/ failures' = [failures EXCEPT ![request[r].login] = 0]
             \/ UNCHANGED failures
      BY DEF ClearLoginFailures, IInv, TypeOK
    <3>2. \A l \in Logins : failures[l] \in Nat /\ 0 <= failures[l]
      BY <3>1
    <3>. QED
      BY <2>1, <3>1, <3>2
  <2>. QED
    BY <2>1, <2>2 DEF ClearLoginFailures, IInv, TypeOK, RestOK, factorVars
<1>. DEFINE stage == IF request[r].temp THEN "owing" ELSE "completing"
<1>2. stage \in Stages \ {"idle"} /\ GoOn(r, stage)
  BY DEF ClearLoginFailures, Stages, SignInStages
<1>3. PICK q : /\ Becomes(r, q) /\ q.at = stage /\ q.login = request[r].login
               /\ q.of = request[r].of /\ q.temp = request[r].temp
               /\ q.guarded = request[r].guarded
  BY <1>1, <1>2, GoneOn
<1>4. /\ Sound(q) /\ (q.guarded => Protected(q.login))
      /\ q.at \notin {"trying", "wrong"}
      /\ \A p \in Pendings : ~Claims(q, p)
  BY <1>1, <1>3, Busy DEF Sound, CodeStages, KeyStages, Claims
<1>. HIDE DEF stage
<1>. QED
  BY <1>1, <1>3, <1>4, CalmStep

\* A row for the half-finished sign-in of this request's login.
LEMMA CreatePendingKeeps ==
    ASSUME IInv, NEW r \in Requests, NEW p \in Pendings, request[r].at # "idle",
           NEW kind \in {"password", "factor"},
           Fresh(p), SetPending(p, NewPending(kind, request[r].login)), Done(r),
           UNCHANGED <<user, countVars, token, factorVars, session, opened, made>>
    PROVE  IInv'
<1>. DEFINE row == NewPending(kind, request[r].login)
<1>1. row \in Pending /\ row.kind = kind /\ row.login \in Logins
  BY Busy DEF NewPending, Pending
<1>2. /\ pending' \in [Pendings -> Pending] /\ pending'[p] = row
      /\ \A o \in Pendings \ {p} : pending'[o] = pending[o]
      /\ pending[p].kind = "none"
  BY <1>1 DEF SetPending, IInv, TypeOK, Fresh
<1>. HIDE DEF row
<1>3. \A o \in Pendings : pending'[o].kind \in {"password", "factor"} <=> pending'[o].login # NoLogin
  BY <1>1, <1>2, SignInAssumption DEF IInv, TypeOK
<1>4. RestOK' /\ UNCHANGED <<app, keys, stale, codes, opened, failures, tries>>
  BY <1>2, <1>3 DEF IInv, TypeOK, RestOK, factorVars, countVars
<1>. QED
  BY <1>2, <1>4, CountsStill, EndStep

\* Only who has no second factor goes straight on to a session.
LEMMA completeLoginKeeps ==
    ASSUME IInv, NEW r \in Requests, completeLogin(r)
    PROVE  IInv'
<1>. DEFINE stage == IF HasSecondFactor(request[r].login) THEN "needing" ELSE "starting"
<1>1. /\ request[r].at = "completing" /\ request[r].of = NoPending /\ ~request[r].temp
      /\ UNCHANGED <<app, keys, stale, opened, codes, pending, failures, tries>>
      /\ RestOK' /\ stage \in Stages \ {"idle"} /\ GoOn(r, stage)
      /\ stage = "starting" => ~Protected(request[r].login)
  BY Busy DEF completeLogin, Sound, CodeStages, KeyStages, IInv, TypeOK, RestOK, factorVars,
              countVars, Stages, SignInStages, HasSecondFactor, Protected, ConfirmedApp
<1>2. PICK q : /\ Becomes(r, q) /\ q.at = stage /\ q.login = request[r].login
               /\ q.of = request[r].of /\ q.temp = request[r].temp
               /\ q.guarded = request[r].guarded
  BY <1>1, GoneOn
<1>3. /\ Sound(q) /\ (q.guarded => Protected(q.login))
      /\ q.at \notin {"trying", "wrong"}
      /\ \A p \in Pendings : ~Claims(q, p)
  BY <1>1, <1>2, Busy, SignInAssumption
     DEF Sound, CodeStages, KeyStages, Claims
<1>. HIDE DEF stage
<1>. QED
  BY <1>1, <1>2, <1>3, CountsStill, CalmStep

\* The one request that had spent the half-finished sign-in makes a session of it.
LEMMA startSessionKeeps ==
    ASSUME IInv, NEW r \in Requests, startSession(r)
    PROVE  IInv'
<1>1. /\ request[r].at = "starting" /\ request[r].login \in Logins /\ Done(r)
      /\ UNCHANGED <<app, keys, stale, codes, pending, failures, tries>>
      /\ request[r].of \in Pendings \cup {NoPending}
  BY Busy DEF startSession, factorVars, countVars
<1>2. session' \in [Logins -> 0..MaxSessions]
  BY <1>1, SignInAssumption DEF startSession, IInv, TypeOK
<1>3. RestOK'
  BY <1>1, <1>2 DEF startSession, IInv, TypeOK, RestOK, factorVars, countVars
<1>4. Becomes(r, Idle) /\ Sound(Idle) /\ ~Idle.guarded
      /\ Idle.at \notin {"trying", "wrong"}
      /\ \A p \in Pendings : ~Claims(Idle, p)
  BY <1>1, Ended
<1>5. ClaimsAlone'
  <2>1. CASE request[r].of = NoPending
    <3>1. UNCHANGED opened
      BY <2>1 DEF startSession
    <3>. QED
      BY <1>1, <1>4, <3>1, ClaimsKept
  <2>2. CASE request[r].of # NoPending
    <3>. PICK p \in Pendings : p = request[r].of
      BY <1>1, <2>2
    <3>1. Claims(request[r], p)
      BY <1>1 DEF Claims
    <3>2. /\ opened[p] = 0 /\ pending[p].kind = "gone"
          /\ \A s \in Requests \ {r} : ~Claims(request[s], p)
      BY <1>1, <3>1 DEF IInv, ClaimsAlone
    <3>3. /\ opened' \in [Pendings -> {0, 1}] /\ opened'[p] = 1
          /\ \A o \in Pendings \ {p} : opened'[o] = opened[o]
      BY <2>2, <3>2 DEF startSession, IInv, ClaimsAlone
    <3>4. \A s \in Requests, o \in Pendings :
            /\ Claims(request'[s], o) => s # r /\ Claims(request[s], o)
            /\ request'[s].at = "starting" => s # r /\ request[s].at = "starting"
                                              /\ request'[s].of = request[s].of
      BY <1>4, IdleFields DEF Becomes, Like, Claims
    <3>. QED
      BY <1>1, <3>2, <3>3, <3>4 DEF IInv, ClaimsAlone
  <2>. QED
    BY <2>1, <2>2
<1>6. CountsSound'
  BY <1>1, <1>3, <1>4, CountsStill, CountsKept
<1>. QED
  BY <1>1, <1>3, <1>4, <1>5, <1>6, QuietStep

\* A request that ends here, and has written no count, row of pending or factor.
LEMMA PlainEnd ==
    ASSUME IInv, NEW r \in Requests, Done(r),
           UNCHANGED <<app, keys, codes, stale, opened, pending, failures, tries>>,
           RestOK'
    PROVE  IInv'
BY CountsStill, EndStep

\* A request that changes no request, count or factor.
LEMMA PlainStill ==
    ASSUME IInv, UNCHANGED <<request, app, keys, codes, stale, opened, failures, tries>>,
           \A p \in Pendings : pending[p].kind = "gone" => pending'[p].kind = "gone",
           RestOK'
    PROVE  IInv'
BY CountsStill, StillStep

\* A new stage that holds no half-finished sign-in and does not count.
LEMMA PlainStart ==
    ASSUME IInv, NEW r \in Requests, NEW l \in Logins,
           NEW stage \in {"forgetting", "changing", "ending", "enrolling", "confirming"},
           SetRequest(r, At(stage, l)),
           UNCHANGED <<app, keys, codes, stale, opened, pending, failures, tries>>,
           RestOK'
    PROVE  IInv'
<1>1. stage \in Stages \ {"idle"}
  BY DEF Stages, OtherStages, SettingsStages
<1>2. PICK q : /\ Becomes(r, q) /\ q.at = stage /\ q.of = NoPending
               /\ ~q.guarded /\ ~q.temp
  BY <1>1, StartsAt
<1>3. /\ Sound(q) /\ q.at \notin {"trying", "wrong"}
      /\ \A p \in Pendings : ~Claims(q, p)
  BY <1>2 DEF Sound, CodeStages, KeyStages, Claims
<1>. QED
  BY <1>2, <1>3, PlainStep

-----------------------------------------------------------------------------
(* A password replaced.                                                    *)

\* What a row of pending may become: gone, or with one more attempt.
LEMMA PendingEffect ==
    ASSUME RestOK, NEW p \in Pendings, NEW row, SetPending(p, row),
           row = Gone \/ (pending[p].kind = "factor" /\ row = OneMore(pending[p]))
    PROVE  /\ pending' \in [Pendings -> Pending]
           /\ \A o \in Pendings : pending'[o].kind \in {"password", "factor"} <=>
                                    pending'[o].login # NoLogin
           /\ \A o \in Pendings : pending[o].kind = "gone" => pending'[o].kind = "gone"
           /\ pending'[p] = row
           /\ row = Gone => pending'[p].kind = "gone"
<1>1. Gone \in Pending /\ Gone.kind = "gone" /\ Gone.login = NoLogin
  BY DEF Gone, Pending
<1>2. pending[p] \in Pending /\ pending[p].attempts \in Nat
  BY DEF RestOK, Pending
<1>3. ASSUME pending[p].kind = "factor"
      PROVE  /\ OneMore(pending[p]) \in Pending
             /\ OneMore(pending[p]).kind = "factor"
             /\ OneMore(pending[p]).login = pending[p].login
  BY <1>2, <1>3 DEF OneMore, Pending
<1>4. /\ row \in Pending
      /\ row.kind \in {"password", "factor"} <=> row.login # NoLogin
      /\ pending[p].kind = "gone" => row.kind = "gone"
  BY <1>1, <1>3 DEF RestOK
<1>5. /\ pending' \in [Pendings -> Pending] /\ pending'[p] = row
      /\ \A o \in Pendings \ {p} : pending'[o] = pending[o]
  BY <1>4 DEF SetPending, RestOK
<1>. QED
  BY <1>1, <1>4, <1>5 DEF RestOK

LEMMA ChangePasswordSubmitKeeps ==
    ASSUME IInv, NEW r \in Requests, NEW p \in Pendings, ChangePasswordSubmit(r, p)
    PROVE  IInv'
<1>. PICK l \in Logins : l = pending[p].login
  BY Busy, LiveOwner DEF ChangePasswordSubmit, Live
<1>1. /\ \A o \in Pendings : pending[o].kind = "gone" => pending'[o].kind = "gone"
      /\ pending' \in [Pendings -> Pending]
      /\ \A o \in Pendings : pending'[o].kind \in {"password", "factor"} <=>
                               pending'[o].login # NoLogin
  BY Busy, PendingEffect DEF ChangePasswordSubmit
<1>2. /\ user' \in [Logins -> Passwords]
      /\ UNCHANGED <<app, keys, codes, stale, opened, failures, tries>>
      /\ made' \in 0..MaxRequests
  BY Arrived DEF ChangePasswordSubmit, IInv, TypeOK, Passwords, factorVars, countVars
<1>3. RestOK'
  BY <1>1, <1>2 DEF ChangePasswordSubmit, IInv, TypeOK, RestOK, factorVars, countVars
<1>4. PICK q : /\ Becomes(r, q) /\ Sound(q) /\ (q.guarded => Protected(q.login))
               /\ q.at = "completing" /\ q.of = NoPending
  BY AcceptedStep DEF ChangePasswordSubmit
<1>5. /\ q.at \notin {"trying", "wrong"}
      /\ \A o \in Pendings : ~Claims(q, o)
  BY <1>4 DEF CodeStages, Claims
<1>. QED
  BY <1>1, <1>2, <1>3, <1>4, <1>5, CountsStill, CalmStep

LEMMA ForgotPasswordSubmitKeeps ==
    ASSUME IInv, NEW r \in Requests, NEW l \in Logins, ForgotPasswordSubmit(r, l)
    PROVE  IInv'
<1>1. /\ asked' \in [Logins -> Nat] /\ made' \in 0..MaxRequests
      /\ UNCHANGED <<user, failures, tries, pending, token, app, keys, codes, challenge,
                     stale, session, opened>>
  BY Arrived DEF ForgotPasswordSubmit, RecordAndCheckPasswordResetRequest, IInv, TypeOK, factorVars
<1>2. RestOK'
  BY <1>1 DEF IInv, TypeOK, RestOK
<1>3. SetRequest(r, At("forgetting", l)) \/ UNCHANGED request
  BY DEF ForgotPasswordSubmit
<1>. QED
  BY <1>1, <1>2, <1>3, PlainStart, PlainStill

LEMMA CreateResetTokenKeeps ==
    ASSUME IInv, NEW r \in Requests, NEW t \in Tokens, CreateResetToken(r, t)
    PROVE  IInv'
<1>1. token' \in [Tokens -> Logins \cup {NoLogin}]
  BY Busy DEF CreateResetToken, IInv, TypeOK
<1>2. RestOK' /\ UNCHANGED <<app, keys, codes, stale, opened, pending, failures, tries>>
  BY <1>1 DEF CreateResetToken, IInv, TypeOK, RestOK, factorVars, countVars
<1>. QED
  BY <1>2, PlainEnd DEF CreateResetToken

LEMMA DestroySessionsType ==
    ASSUME IInv, NEW l \in Logins, DestroySessions(l)
    PROVE  session' \in [Logins -> 0..MaxSessions]
BY SignInAssumption DEF DestroySessions, IInv, TypeOK

LEMMA ConsumeResetTokenKeeps ==
    ASSUME IInv, NEW r \in Requests, NEW t \in Tokens, ConsumeResetToken(r, t)
    PROVE  IInv'
<1>. PICK l \in Logins : l = token[t]
  BY DEF ConsumeResetToken, IInv, TypeOK
<1>1. /\ token' \in [Tokens -> Logins \cup {NoLogin}] /\ user' \in [Logins -> Passwords]
      /\ session' \in [Logins -> 0..MaxSessions] /\ made' \in 0..MaxRequests
      /\ UNCHANGED <<failures, tries, asked, pending, app, keys, codes, challenge,
                     stale, opened, request>>
  BY Arrived, DestroySessionsType
     DEF ConsumeResetToken, IInv, TypeOK, Passwords, factorVars, countVars
<1>2. RestOK'
  BY <1>1 DEF IInv, TypeOK, RestOK
<1>. QED
  BY <1>1, <1>2, PlainStill

LEMMA AccountChangePasswordKeeps ==
    ASSUME IInv, NEW r \in Requests, NEW l \in Logins, AccountChangePassword(r, l)
    PROVE  IInv'
<1>1. RestOK' /\ UNCHANGED <<app, keys, codes, stale, opened, pending, failures, tries>>
  BY Arrived DEF AccountChangePassword, IInv, TypeOK, RestOK, factorVars, countVars
<1>. QED
  BY <1>1, PlainStart DEF AccountChangePassword

LEMMA ChangePasswordKeeps ==
    ASSUME IInv, NEW r \in Requests, ChangePassword(r)
    PROVE  IInv'
<1>. PICK l \in Logins : l = request[r].login
  BY Busy DEF ChangePassword
<1>1. /\ user' \in [Logins -> Passwords] /\ session' \in [Logins -> 0..MaxSessions]
      /\ UNCHANGED <<app, keys, codes, stale, opened, pending, failures, tries>>
  BY DestroySessionsType DEF ChangePassword, IInv, TypeOK, Passwords, factorVars, countVars
<1>2. RestOK'
  BY <1>1 DEF ChangePassword, IInv, TypeOK, RestOK, factorVars, countVars
<1>3. PICK q : /\ Becomes(r, q) /\ Sound(q) /\ (q.guarded => Protected(q.login))
               /\ q.at = "completing" /\ q.of = NoPending
  BY AcceptedStep DEF ChangePassword
<1>4. /\ q.at \notin {"trying", "wrong"}
      /\ \A o \in Pendings : ~Claims(q, o)
  BY <1>3 DEF CodeStages, Claims
<1>. QED
  BY <1>1, <1>2, <1>3, <1>4, PlainStep

LEMMA ResetLoginPasswordKeeps ==
    ASSUME IInv, NEW r \in Requests, NEW l \in Logins, ResetLoginPassword(r, l)
    PROVE  IInv'
<1>1. user' \in [Logins -> Passwords] /\ made' \in 0..MaxRequests
  BY Arrived DEF ResetLoginPassword, IInv, TypeOK, Passwords
<1>2. RestOK' /\ UNCHANGED <<app, keys, codes, stale, opened, pending, failures, tries>>
  BY <1>1 DEF ResetLoginPassword, IInv, TypeOK, RestOK, factorVars, countVars
<1>. QED
  BY <1>2, PlainStart DEF ResetLoginPassword

LEMMA EndSessionsKeeps ==
    ASSUME IInv, NEW r \in Requests, EndSessions(r)
    PROVE  IInv'
<1>1. session' \in [Logins -> 0..MaxSessions]
  BY Busy, DestroySessionsType DEF EndSessions, IInv, TypeOK
<1>2. RestOK' /\ UNCHANGED <<app, keys, codes, stale, opened, pending, failures, tries>>
  BY <1>1 DEF EndSessions, IInv, TypeOK, RestOK, factorVars, countVars
<1>. QED
  BY <1>2, PlainEnd DEF EndSessions

LEMMA CreateMemberLoginKeeps ==
    ASSUME IInv, NEW r \in Requests, NEW l \in Logins, CreateMemberLogin(r, l)
    PROVE  IInv'
<1>1. user' \in [Logins -> Passwords] /\ made' \in 0..MaxRequests
  BY Arrived DEF CreateMemberLogin, IInv, TypeOK, Passwords
<1>2. /\ RestOK'
      /\ UNCHANGED <<request, app, keys, codes, stale, opened, pending, failures, tries>>
  BY <1>1 DEF CreateMemberLogin, IInv, TypeOK, RestOK, factorVars, countVars
<1>. QED
  BY <1>2, PlainStill

LEMMA LogoutKeeps ==
    ASSUME IInv, NEW l \in Logins, Logout(l)
    PROVE  IInv'
<1>1. session' \in [Logins -> 0..MaxSessions]
  BY SignInAssumption DEF Logout, IInv, TypeOK
<1>2. /\ RestOK'
      /\ UNCHANGED <<request, app, keys, codes, stale, opened, pending, failures, tries>>
  BY <1>1 DEF Logout, IInv, TypeOK, RestOK, factorVars, countVars
<1>. QED
  BY <1>2, PlainStill

-----------------------------------------------------------------------------
(* The second step.                                                        *)

\* A row is taken when it is live and not held: nobody else has a claim to it.
LEMMA Unclaimed ==
    ASSUME IInv, NEW p \in Pendings, pending[p].kind # "gone", ~Locked(p)
    PROVE  opened[p] = 0 /\ \A s \in Requests : ~Claims(request[s], p)
BY DEF IInv, ClaimsAlone, Locked, Claims

\* Request r now bears p, at a stage of the second step.
LEMMA BearingStep ==
    ASSUME IInv, NEW r \in Requests, NEW p \in Pendings, NEW l \in Logins,
           NEW stage \in {"coding", "answering", "starting"},
           SetRequest(r, Bearing(stage, l, p)),
           \/ stage = "answering"
           \/ Claims(request[r], p)
           \/ opened[p] = 0 /\ \A s \in Requests : ~Claims(request[s], p),
           stage = "starting" => pending'[p].kind = "gone",
           UNCHANGED <<app, keys, codes, stale, opened, failures, tries>>,
           \A o \in Pendings : pending[o].kind = "gone" => pending'[o].kind = "gone",
           RestOK'
    PROVE  IInv'
<1>1. stage \in Stages \ {"idle"}
  BY DEF Stages, SignInStages, CodeStages, KeyStages
<1>2. PICK q : /\ Becomes(r, q) /\ q.at = stage /\ q.of = p
               /\ ~q.guarded /\ ~q.temp
  BY <1>1, StartsBearing
<1>3. /\ Sound(q) /\ q.at \notin {"trying", "wrong"}
      /\ \A o \in Pendings : Claims(q, o) => o = p /\ stage # "answering"
  BY <1>2, SignInAssumption DEF Sound, CodeStages, KeyStages, Claims
<1>. QED
  BY <1>2, <1>3, CountsStill, CalmStep

LEMMA VerifyPendingTwoFactorLoginKeeps ==
    ASSUME IInv, NEW r \in Requests, NEW p \in Pendings, VerifyPendingTwoFactorLogin(r, p)
    PROVE  IInv'
<1>1. /\ pending[p].kind = "factor" /\ ~Locked(p) /\ made' \in 0..MaxRequests
      /\ UNCHANGED <<user, failures, tries, asked, token, app, keys, codes, challenge,
                     stale, session, opened>>
  BY Arrived DEF VerifyPendingTwoFactorLogin, Live, factorVars, countVars
<1>. PICK l \in Logins : l = pending[p].login
  BY <1>1, Busy, LiveOwner
<1>2. CASE SetPending(p, Gone) /\ UNCHANGED request
  <2>1. /\ \A o \in Pendings : pending[o].kind = "gone" => pending'[o].kind = "gone"
        /\ pending' \in [Pendings -> Pending]
        /\ \A o \in Pendings : pending'[o].kind \in {"password", "factor"} <=>
                                 pending'[o].login # NoLogin
    BY <1>2, Busy, PendingEffect
  <2>2. RestOK'
    BY <1>1, <2>1 DEF IInv, TypeOK, RestOK
  <2>. QED
    BY <1>1, <1>2, <2>1, <2>2, PlainStill
<1>3. CASE SetRequest(r, Bearing("coding", l, p)) /\ UNCHANGED pending
  <2>1. RestOK'
    BY <1>1, <1>3 DEF IInv, TypeOK, RestOK
  <2>. QED
    BY <1>1, <1>3, <2>1, Unclaimed, BearingStep
<1>. QED
  BY <1>2, <1>3 DEF VerifyPendingTwoFactorLogin

\* A request with a row goes on to another stage of the second step.
LEMMA SecondStepGoesOn ==
    ASSUME IInv, NEW r \in Requests, request[r].at \in CodeStages \cup KeyStages,
           NEW stage \in CodeStages \cup KeyStages,
           stage \in CodeStages => request[r].at \in CodeStages,
           NEW c \in Codes \cup {NoCode}, SetRequest(r, Onward(request[r], stage, c)),
           UNCHANGED <<app, keys, stale, opened, pending, failures, tries>>,
           \A l \in Logins : codes'[l].issued = codes[l].issued,
           RestOK'
    PROVE  IInv'
<1>1. stage \in Stages \ {"idle"} /\ request[r].at # "idle"
  BY DEF Stages, CodeStages, KeyStages
<1>2. PICK q : /\ Becomes(r, q) /\ q.at = stage /\ q.login = request[r].login
               /\ q.of = request[r].of /\ q.guarded = request[r].guarded
  BY <1>1, MoveOn
<1>3. /\ Sound(q) /\ (q.guarded => Protected(q.login))
      /\ q.at \notin {"trying", "wrong"}
  BY <1>2, Busy DEF Sound, CodeStages, KeyStages
<1>4. \A p \in Pendings : Claims(q, p) => Claims(request[r], p) /\ q.at # "starting"
  BY <1>2 DEF Claims, CodeStages, KeyStages
<1>. QED
  BY <1>2, <1>3, <1>4, PlainStep

LEMMA VerifySecondFactorCodeKeeps ==
    ASSUME IInv, NEW r \in Requests, VerifySecondFactorCode(r)
    PROVE  IInv'
<1>1. /\ request[r].at \in CodeStages /\ RestOK'
      /\ UNCHANGED <<app, keys, codes, stale, opened, pending, failures, tries>>
  BY DEF VerifySecondFactorCode, CodeStages, IInv, TypeOK, RestOK, factorVars, countVars
<1>2. request[r].code \in Codes \cup {NoCode} /\ request[r].login \in Logins
  BY <1>1, Busy, RequestFields DEF Typed, CodeStages
<1>3. CASE Done(r)
  BY <1>1, <1>3, PlainEnd
<1>4. ASSUME NEW stage \in {"verified", "mistaken"}, GoOn(r, stage)
      PROVE  IInv'
  <2>1. stage \in CodeStages
    BY DEF CodeStages
  <2>. QED
    BY <1>1, <1>2, <1>4, <2>1, SecondStepGoesOn DEF GoOn
<1>5. ASSUME NEW c \in codes[request[r].login].unused, SetRequest(r, Onward(request[r], "redeeming", c))
      PROVE  IInv'
  <2>1. c \in Codes
    BY <1>2, <1>5 DEF IInv, TypeOK
  <2>2. "redeeming" \in CodeStages
    BY DEF CodeStages
  <2>. QED
    BY <1>1, <1>5, <2>1, <2>2, SecondStepGoesOn
<1>. QED
  BY <1>3, <1>4, <1>5 DEF VerifySecondFactorCode

\* A code is used up; the batch stays.
LEMMA RedeemBackupCodeKeeps ==
    ASSUME IInv, NEW r \in Requests, RedeemBackupCode(r)
    PROVE  IInv'
<1>. PICK l \in Logins : l = request[r].login
  BY Busy DEF RedeemBackupCode
<1>1. /\ request[r].at \in CodeStages /\ GoOn(r, "verified") /\ "verified" \in CodeStages
      /\ UNCHANGED <<app, keys, stale, opened, pending, failures, tries>>
  BY DEF RedeemBackupCode, CodeStages, countVars
<1>2. request[r].code \in Codes \cup {NoCode}
  BY Busy, RequestFields DEF Typed
<1>3. /\ codes[l] \in [issued : BOOLEAN, unused : SUBSET Codes]
      /\ codes' = [codes EXCEPT ![l] = [issued |-> codes[l].issued,
                                        unused |-> codes[l].unused \ {request[r].code}]]
  BY DEF RedeemBackupCode, IInv, TypeOK
<1>4. /\ codes' \in [Logins -> [issued : BOOLEAN, unused : SUBSET Codes]]
      /\ \A m \in Logins : codes'[m].issued = codes[m].issued
  BY <1>3 DEF IInv, TypeOK
<1>5. RestOK'
  BY <1>1, <1>4 DEF RedeemBackupCode, IInv, TypeOK, RestOK, countVars
<1>. QED
  BY <1>1, <1>2, <1>4, <1>5, SecondStepGoesOn DEF GoOn

\* An attempt counted, by a code or a key.
LEMMA RecordFailureKeeps ==
    ASSUME IInv, NEW r \in Requests, NEW p \in Pendings,
           IF CanRecord(p) THEN SetPending(p, OneMore(pending[p])) ELSE UNCHANGED pending,
           Done(r), UNCHANGED <<user, countVars, token, factorVars, session, opened, made>>
    PROVE  IInv'
<1>1. /\ pending' \in [Pendings -> Pending]
      /\ \A o \in Pendings : pending'[o].kind \in {"password", "factor"} <=>
                               pending'[o].login # NoLogin
      /\ \A o \in Pendings : pending[o].kind = "gone" => pending'[o].kind = "gone"
  BY Busy, PendingEffect DEF CanRecord, IInv, TypeOK
<1>2. RestOK' /\ UNCHANGED <<app, keys, stale, codes, opened, failures, tries>>
  BY <1>1 DEF IInv, TypeOK, RestOK, factorVars, countVars
<1>. QED
  BY <1>1, <1>2, CountsStill, EndStep

\* The row is spent, by a code or a key, and a session follows.
LEMMA SpendKeeps ==
    ASSUME IInv, NEW r \in Requests, NEW p \in Pendings, request[r].at # "idle",
           \/ Claims(request[r], p)
           \/ opened[p] = 0 /\ \A s \in Requests : ~Claims(request[s], p),
           SetPending(p, Gone), SetRequest(r, Bearing("starting", request[r].login, p)),
           UNCHANGED <<user, countVars, token, factorVars, session, opened, made>>
    PROVE  IInv'
<1>1. /\ pending' \in [Pendings -> Pending]
      /\ \A o \in Pendings : pending'[o].kind \in {"password", "factor"} <=>
                               pending'[o].login # NoLogin
      /\ \A o \in Pendings : pending[o].kind = "gone" => pending'[o].kind = "gone"
      /\ pending'[p].kind = "gone"
  BY Busy, PendingEffect
<1>2. RestOK' /\ UNCHANGED <<app, keys, stale, codes, opened, failures, tries>>
  BY <1>1 DEF IInv, TypeOK, RestOK, factorVars, countVars
<1>. QED
  BY <1>1, <1>2, Busy, BearingStep

LEMMA SpendPendingLoginKeeps ==
    ASSUME IInv, NEW r \in Requests, SpendPendingLogin(r)
    PROVE  IInv'
<1>. PICK p \in Pendings : p = request[r].of
  BY Busy DEF SpendPendingLogin, Sound, CodeStages
<1>. QED
  BY SpendKeeps DEF SpendPendingLogin, Claims, CodeStages

LEMMA CountWrongCodeKeeps ==
    ASSUME IInv, NEW r \in Requests, CountWrongCode(r)
    PROVE  IInv'
<1>. PICK p \in Pendings : p = request[r].of
  BY Busy DEF CountWrongCode, Sound, CodeStages
<1>. QED
  BY RecordFailureKeeps DEF CountWrongCode

LEMMA RecordPendingTwoFactorFailureKeeps ==
    ASSUME IInv, NEW r \in Requests, RecordPendingTwoFactorFailure(r)
    PROVE  IInv'
<1>. PICK p \in Pendings : p = request[r].of
  BY Busy DEF RecordPendingTwoFactorFailure, Sound, KeyStages
<1>. QED
  BY RecordFailureKeeps DEF RecordPendingTwoFactorFailure

LEMMA ConsumePendingTwoFactorLoginKeeps ==
    ASSUME IInv, NEW r \in Requests, ConsumePendingTwoFactorLogin(r)
    PROVE  IInv'
<1>. PICK p \in Pendings : p = request[r].of
  BY Busy DEF ConsumePendingTwoFactorLogin, Sound, KeyStages
<1>1. CASE Live(p, "factor")
  BY <1>1, Unclaimed, SpendKeeps DEF ConsumePendingTwoFactorLogin, Live
<1>2. CASE ~Live(p, "factor")
  <2>1. /\ Done(r) /\ RestOK'
        /\ UNCHANGED <<app, keys, codes, stale, opened, pending, failures, tries>>
    BY <1>2 DEF ConsumePendingTwoFactorLogin, IInv, TypeOK, RestOK, factorVars, countVars
  <2>. QED
    BY <2>1, PlainEnd
<1>. QED
  BY <1>1, <1>2

LEMMA LoginSecurityKeyBeginKeeps ==
    ASSUME IInv, NEW r \in Requests, NEW p \in Pendings, LoginSecurityKeyBegin(r, p)
    PROVE  IInv'
<1>. PICK l \in Logins : l = pending[p].login
  BY Busy, LiveOwner DEF LoginSecurityKeyBegin, Live
<1>1. challenge' \in [Logins -> SUBSET Kinds] /\ made' \in 0..MaxRequests
  BY Arrived DEF LoginSecurityKeyBegin, IInv, TypeOK, Kinds
<1>2. /\ RestOK'
      /\ UNCHANGED <<request, app, keys, codes, stale, opened, pending, failures, tries>>
  BY <1>1 DEF LoginSecurityKeyBegin, IInv, TypeOK, RestOK, countVars
<1>. QED
  BY <1>2, PlainStill

LEMMA LoginSecurityKeyFinishKeeps ==
    ASSUME IInv, NEW r \in Requests, NEW p \in Pendings, LoginSecurityKeyFinish(r, p)
    PROVE  IInv'
<1>. PICK l \in Logins : l = pending[p].login
  BY Busy, LiveOwner DEF LoginSecurityKeyFinish, Live
<1>1. challenge' \in [Logins -> SUBSET Kinds] /\ made' \in 0..MaxRequests
  BY Arrived DEF LoginSecurityKeyFinish, IInv, TypeOK
<1>2. /\ RestOK'
      /\ UNCHANGED <<app, keys, codes, stale, opened, pending, failures, tries>>
  BY <1>1 DEF LoginSecurityKeyFinish, IInv, TypeOK, RestOK, countVars
<1>. QED
  BY <1>2, BearingStep DEF LoginSecurityKeyFinish

LEMMA ValidateLoginKeeps ==
    ASSUME IInv, NEW r \in Requests, ValidateLogin(r)
    PROVE  IInv'
<1>1. /\ request[r].at \in KeyStages /\ RestOK'
      /\ UNCHANGED <<app, keys, codes, stale, opened, pending, failures, tries>>
  BY DEF ValidateLogin, KeyStages, IInv, TypeOK, RestOK, factorVars, countVars
<1>2. request[r].code \in Codes \cup {NoCode}
  BY Busy, RequestFields DEF Typed
<1>3. PICK stage \in {"answered", "missed"} : GoOn(r, stage)
  BY DEF ValidateLogin
<1>4. stage \in KeyStages /\ stage \notin CodeStages
  BY DEF KeyStages, CodeStages
<1>. QED
  BY <1>1, <1>2, <1>3, <1>4, SecondStepGoesOn DEF GoOn

-----------------------------------------------------------------------------
(* The settings.                                                           *)

\* A step of a settings request that leaves counts and half-finished sign-ins alone.
LEMMA SettingsRequestStep ==
    ASSUME IInv, NEW r \in Requests, NEW q, Becomes(r, q), Sound(q),
           q.of = NoPending, q.at \notin {"trying", "wrong"},
           UNCHANGED <<failures, tries, pending, opened>>, RestOK',
           GuardsHold', CodesStandIn'
    PROVE  IInv'
<1>1. ClaimsAlone'
  <2>1. \A p \in Pendings : ~Claims(q, p)
    BY SignInAssumption DEF Claims
  <2>. QED
    BY <2>1, ClaimsKept
<1>2. CountsSound'
  BY CountsStill, CountsKept
<1>3. TypeOK' /\ RequestsSound'
  BY <1>1, TypesKept, SoundKept
<1>. QED
  BY <1>1, <1>2, <1>3 DEF IInv

\* One commits: login l's factors become a and ks.
LEMMA FactorsSet ==
    ASSUME IInv, NEW r \in Requests, NEW l \in Logins,
           NEW a \in {"none", "begun", "confirmed"}, NEW ks \in SUBSET Keys,
           SetFactors(r, l, a, ks, Idle),
           \A m \in Logins \ {l} : codes'[m] = codes[m],
           codes' \in [Logins -> [issued : BOOLEAN, unused : SUBSET Codes]],
           stale \subseteq stale', stale' \subseteq Logins,
           l \notin stale' =>
             /\ a = "confirmed" \/ ks # {} => codes'[l].issued
             /\ codes'[l].issued => a # "none" \/ ks # {},
           UNCHANGED <<user, countVars, pending, token, challenge, session, opened, made>>
    PROVE  IInv'
<1>1. /\ Becomes(r, Idle)
      /\ \A s \in Requests : request'[s].login = l /\ request'[s].guarded =>
                               a = "confirmed" \/ ks # {}
      /\ app' \in [Logins -> {"none", "begun", "confirmed"}]
      /\ keys' \in [Logins -> SUBSET Keys]
      /\ app'[l] = a /\ keys'[l] = ks
      /\ \A m \in Logins \ {l} : app'[m] = app[m] /\ keys'[m] = keys[m]
  BY IdleFields, SetFactorsEffect
<1>2. Sound(Idle) /\ Idle.at \notin {"trying", "wrong"}
  BY IdleFields DEF Sound, CodeStages, KeyStages
<1>3. RestOK'
  BY <1>1 DEF IInv, TypeOK, RestOK, countVars
<1>4. CodesStandIn'
  BY <1>1, CodesFollow DEF Protected, ConfirmedApp
<1>5. GuardsHold'
  <2>. SUFFICES ASSUME NEW s \in Requests, request'[s].guarded
                PROVE  Protected(request[s].login)'
    BY DEF GuardsHold
  <2>1. CASE request'[s].login = l
    BY <1>1, <2>1 DEF Protected, ConfirmedApp
  <2>2. CASE request'[s].login # l
    <3>1. s # r /\ request'[s].login = request[s].login /\ request[s].guarded
      BY <1>1, IdleFields DEF Becomes, Like
    <3>2. Protected(request[s].login) /\ request[s].login \in Logins \cup {NoLogin}
      BY <3>1, Busy, RequestFields DEF Typed
    <3>3. request[s].login # NoLogin
      BY <3>1, Busy DEF Typed, Sound
    <3>. QED
      BY <1>1, <2>2, <3>1, <3>2, <3>3 DEF Protected, ConfirmedApp
  <2>. QED
    BY <2>1, <2>2
<1>. QED
  BY <1>1, <1>2, <1>3, <1>4, <1>5, IdleFields, SettingsRequestStep DEF countVars

\* A settings transaction has read b of the factors, and nothing is written yet.
LEMMA PlainSaw ==
    ASSUME IInv, NEW r \in Requests, NEW l \in Logins, NEW stage \in SettingsStages,
           NEW k \in Keys \cup {NoKey}, NEW b \in BOOLEAN,
           stage \in {"adding", "storing", "removing"} => k # NoKey,
           SetRequest(r, Saw(stage, l, k, b)),
           UNCHANGED <<app, keys, codes, stale, opened, pending, failures, tries>>,
           RestOK'
    PROVE  IInv'
<1>. DEFINE q == Saw(stage, l, k, b)
<1>1. stage \in Stages \ {"idle"}
  BY DEF Stages, SettingsStages
<1>2. /\ Typed(q) /\ q.at = stage /\ q.login = l /\ q.of = NoPending
      /\ ~q.guarded /\ ~q.temp /\ q.key = k
  BY <1>1, SawFields
<1>3. Becomes(r, q)
  BY <1>2, SetRequestEffect
<1>4. /\ Sound(q) /\ q.at \notin {"trying", "wrong"}
      /\ \A p \in Pendings : ~Claims(q, p)
  BY <1>2 DEF Sound, CodeStages, KeyStages, SettingsStages, Claims
<1>. HIDE DEF q
<1>. QED
  BY <1>2, <1>3, <1>4, PlainStep

\* What a settings request may read: a key, and a factor beside key k.
HasKey(l) == keys[l] # {}
HasMoreThan(l, k) == app[l] = "confirmed" \/ keys[l] \ {k} # {}

LEMMA TwoFactorEnrollKeeps ==
    ASSUME IInv, NEW r \in Requests, NEW l \in Logins, TwoFactorEnroll(r, l)
    PROVE  IInv'
<1>1. RestOK' /\ UNCHANGED <<app, keys, codes, stale, opened, pending, failures, tries>>
  BY Arrived DEF TwoFactorEnroll, IInv, TypeOK, RestOK, factorVars, countVars
<1>2. SetRequest(r, At("enrolling", l)) \/ UNCHANGED request
  BY DEF TwoFactorEnroll
<1>. QED
  BY <1>1, <1>2, PlainStart, PlainStill

LEMMA TwoFactorConfirmKeeps ==
    ASSUME IInv, NEW r \in Requests, NEW l \in Logins, TwoFactorConfirm(r, l)
    PROVE  IInv'
<1>1. RestOK' /\ UNCHANGED <<app, keys, codes, stale, opened, pending, failures, tries>>
  BY Arrived DEF TwoFactorConfirm, IInv, TypeOK, RestOK, factorVars, countVars
<1>. QED
  BY <1>1, PlainStart DEF TwoFactorConfirm

LEMMA TwoFactorDisableKeeps ==
    ASSUME IInv, NEW r \in Requests, NEW l \in Logins, TwoFactorDisable(r, l)
    PROVE  IInv'
<1>1. RestOK' /\ UNCHANGED <<app, keys, codes, stale, opened, pending, failures, tries>>
  BY Arrived DEF TwoFactorDisable, IInv, TypeOK, RestOK, factorVars, countVars
<1>. PICK b \in BOOLEAN : b = HasKey(l)
  BY DEF HasKey
<1>2. SetRequest(r, Saw("disabling", l, NoKey, b))
  BY DEF TwoFactorDisable, HasKey
<1>. QED
  BY <1>1, <1>2, PlainSaw DEF SettingsStages

LEMMA SecurityKeyFinishKeeps ==
    ASSUME IInv, NEW r \in Requests, NEW l \in Logins, NEW k \in Keys, SecurityKeyFinish(r, l, k)
    PROVE  IInv'
<1>1. challenge' \in [Logins -> SUBSET Kinds]
  BY DEF SecurityKeyFinish, IInv, TypeOK
<1>2. RestOK' /\ UNCHANGED <<app, keys, codes, stale, opened, pending, failures, tries>>
  BY <1>1, Arrived DEF SecurityKeyFinish, IInv, TypeOK, RestOK, countVars
<1>. DEFINE no == FALSE
<1>3. "adding" \in SettingsStages /\ no \in BOOLEAN /\ SetRequest(r, Saw("adding", l, k, no))
  BY DEF SettingsStages, SecurityKeyFinish
<1>. HIDE DEF no
<1>. QED
  BY <1>2, <1>3, PlainSaw, SignInAssumption

LEMMA SecurityKeyDeleteKeeps ==
    ASSUME IInv, NEW r \in Requests, NEW l \in Logins, NEW k \in Keys, SecurityKeyDelete(r, l, k)
    PROVE  IInv'
<1>1. RestOK' /\ UNCHANGED <<app, keys, codes, stale, opened, pending, failures, tries>>
  BY Arrived DEF SecurityKeyDelete, IInv, TypeOK, RestOK, factorVars, countVars
<1>. PICK b \in BOOLEAN : b = HasMoreThan(l, k)
  BY DEF HasMoreThan
<1>2. SetRequest(r, Saw("removing", l, k, b))
  BY DEF SecurityKeyDelete, HasMoreThan
<1>. QED
  BY <1>1, <1>2, PlainSaw, SignInAssumption DEF SettingsStages

LEMMA SecurityKeyBeginKeeps ==
    ASSUME IInv, NEW r \in Requests, NEW l \in Logins, SecurityKeyBegin(r, l)
    PROVE  IInv'
<1>1. challenge' \in [Logins -> SUBSET Kinds] /\ made' \in 0..MaxRequests
  BY Arrived DEF SecurityKeyBegin, IInv, TypeOK, Kinds
<1>2. /\ RestOK'
      /\ UNCHANGED <<request, app, keys, codes, stale, opened, pending, failures, tries>>
  BY <1>1 DEF SecurityKeyBegin, IInv, TypeOK, RestOK, countVars
<1>. QED
  BY <1>2, PlainStill

LEMMA ConfirmTOTPEnrollmentKeeps ==
    ASSUME IInv, NEW r \in Requests, ConfirmTOTPEnrollment(r)
    PROVE  IInv'
<1>. PICK l \in Logins : l = request[r].login
  BY Busy DEF ConfirmTOTPEnrollment
<1>1. RestOK' /\ UNCHANGED <<app, keys, codes, stale, opened, pending, failures, tries>>
  BY DEF ConfirmTOTPEnrollment, IInv, TypeOK, RestOK, factorVars, countVars
<1>. PICK b \in BOOLEAN : b = HasKey(l)
  BY DEF HasKey
<1>2. "issuing" \in SettingsStages /\ SetRequest(r, Saw("issuing", l, NoKey, b))
  BY DEF ConfirmTOTPEnrollment, HasKey, SettingsStages
<1>. QED
  BY <1>1, <1>2, PlainSaw

LEMMA AddSecurityKeyKeeps ==
    ASSUME IInv, NEW r \in Requests, AddSecurityKey(r)
    PROVE  IInv'
<1>. PICK l \in Logins : l = request[r].login
  BY Busy DEF AddSecurityKey
<1>. PICK k \in Keys : k = request[r].key
  BY Busy, RequestFields DEF AddSecurityKey, Sound, Typed
<1>1. RestOK' /\ UNCHANGED <<app, keys, codes, stale, opened, pending, failures, tries>>
  BY DEF AddSecurityKey, IInv, TypeOK, RestOK, factorVars, countVars
<1>2. CASE Done(r)
  BY <1>1, <1>2, PlainEnd
<1>3. CASE SetRequest(r, Saw("storing", l, k, Protected(l)))
  <2>. PICK b \in BOOLEAN : b = Protected(l)
    BY DEF Protected
  <2>1. "storing" \in SettingsStages /\ SetRequest(r, Saw("storing", l, k, b))
    BY <1>3 DEF SettingsStages
  <2>. QED
    BY <1>1, <2>1, PlainSaw, SignInAssumption
<1>. QED
  BY <1>2, <1>3 DEF AddSecurityKey

-----------------------------------------------------------------------------
(* What the settings commit.                                               *)

\* The types of codes issued and dropped.
LEMMA CodesEffect ==
    ASSUME IInv, NEW l \in Logins, issueBackupCodesTx(l) \/ DropCodes(l) \/ UNCHANGED codes
    PROVE  /\ codes' \in [Logins -> [issued : BOOLEAN, unused : SUBSET Codes]]
           /\ \A m \in Logins \ {l} : codes'[m] = codes[m]
           /\ issueBackupCodesTx(l) => codes'[l].issued
           /\ DropCodes(l) => ~codes'[l].issued
<1>. DEFINE Batch == [issued : BOOLEAN, unused : SUBSET Codes]
            all == [issued |-> TRUE, unused |-> Codes]
            none == [issued |-> FALSE, unused |-> {}]
<1>1. all \in Batch /\ none \in Batch /\ all.issued /\ ~none.issued
  OBVIOUS
<1>2. /\ codes \in [Logins -> Batch]
      /\ issueBackupCodesTx(l) => codes' = [codes EXCEPT ![l] = all]
      /\ DropCodes(l) => codes' = [codes EXCEPT ![l] = none]
  BY DEF issueBackupCodesTx, DropCodes, IInv, TypeOK
<1>. HIDE DEF Batch, all, none
<1>3. /\ codes' \in [Logins -> Batch]
      /\ \A m \in Logins \ {l} : codes'[m] = codes[m]
      /\ issueBackupCodesTx(l) => codes'[l].issued
      /\ DropCodes(l) => ~codes'[l].issued
  BY <1>1, <1>2
<1>. QED
  BY <1>3 DEF Batch

\* A login that is not stale has codes as its factors demand, and the
\* transaction that commits would still read what it has read.
LEMMA NotStale ==
    ASSUME IInv, NEW r \in Requests, NEW l \in Logins, MarkStale(r, l)
    PROVE  /\ stale \subseteq stale' /\ stale' \subseteq Logins
           /\ l \notin stale' =>
                /\ StillSo(request[r], l)
                /\ app[l] = "confirmed" \/ keys[l] # {} => codes[l].issued
                /\ codes[l].issued => app[l] # "none" \/ keys[l] # {}
BY DEF MarkStale, IInv, TypeOK, CodesStandIn, Protected, ConfirmedApp

\* An unconfirmed secret is no factor: what is protected still was.
LEMMA BeginTOTPEnrollmentKeeps ==
    ASSUME IInv, NEW r \in Requests, BeginTOTPEnrollment(r)
    PROVE  IInv'
<1>. PICK l \in Logins : l = request[r].login
  BY Busy DEF BeginTOTPEnrollment
<1>1. /\ SetFactors(r, l, "begun", keys[l], Idle)
      /\ keys[l] \in SUBSET Keys /\ codes' = codes
      /\ stale \subseteq stale' /\ stale' \subseteq Logins
      /\ UNCHANGED <<user, countVars, pending, token, challenge, session, opened, made>>
  BY DEF BeginTOTPEnrollment, IInv, TypeOK
<1>2. l \notin stale' => (keys[l] # {} => codes'[l].issued)
  BY <1>1 DEF IInv, CodesStandIn, Protected
<1>. QED
  BY <1>1, <1>2, CodesEffect, FactorsSet

\* The first factor brings codes; a later one finds them.
LEMMA CommitEnrollmentKeeps ==
    ASSUME IInv, NEW r \in Requests, CommitEnrollment(r)
    PROVE  IInv'
<1>. PICK l \in Logins : l = request[r].login
  BY Busy DEF CommitEnrollment
<1>. PICK a \in {"none", "begun", "confirmed"} :
       a = IF app[l] = "none" THEN "none" ELSE "confirmed"
  OBVIOUS
<1>1. /\ request[r].at = "issuing"
      /\ SetFactors(r, l, a, keys[l], Idle) /\ keys[l] \in SUBSET Keys
      /\ IF request[r].saw THEN UNCHANGED codes ELSE issueBackupCodesTx(l)
      /\ MarkStale(r, l)
      /\ UNCHANGED <<user, countVars, pending, token, challenge, session, opened, made>>
  BY DEF CommitEnrollment, IInv, TypeOK
<1>2. l \notin stale' => codes'[l].issued /\ a # "none"
  BY <1>1, CodesEffect, NotStale DEF StillSo
<1>. QED
  BY <1>1, <1>2, CodesEffect, NotStale, FactorsSet

\* The codes go only when there was no key.
LEMMA DisableTOTPKeeps ==
    ASSUME IInv, NEW r \in Requests, DisableTOTP(r)
    PROVE  IInv'
<1>. PICK l \in Logins : l = request[r].login
  BY Busy DEF DisableTOTP
<1>1. /\ request[r].at = "disabling"
      /\ SetFactors(r, l, "none", keys[l], Idle) /\ keys[l] \in SUBSET Keys
      /\ IF request[r].saw THEN UNCHANGED codes ELSE DropCodes(l)
      /\ MarkStale(r, l)
      /\ UNCHANGED <<user, countVars, pending, token, challenge, session, opened, made>>
  BY DEF DisableTOTP, IInv, TypeOK
<1>2. l \notin stale' => /\ keys[l] # {} => codes'[l].issued
                         /\ codes'[l].issued => keys[l] # {}
  BY <1>1, CodesEffect, NotStale DEF StillSo
<1>. QED
  BY <1>1, <1>2, CodesEffect, NotStale, FactorsSet

LEMMA StoreSecurityKeyKeeps ==
    ASSUME IInv, NEW r \in Requests, StoreSecurityKey(r)
    PROVE  IInv'
<1>. PICK l \in Logins : l = request[r].login
  BY Busy DEF StoreSecurityKey
<1>. PICK k \in Keys : k = request[r].key
  BY Busy, RequestFields DEF StoreSecurityKey, Sound, Typed
<1>1. /\ request[r].at = "storing" /\ app[l] \in {"none", "begun", "confirmed"}
      /\ UNCHANGED <<user, countVars, pending, token, challenge, session, opened, made>>
  BY DEF StoreSecurityKey, IInv, TypeOK
<1>2. CASE Registered(k)
  <2>1. /\ Done(r) /\ RestOK'
        /\ UNCHANGED <<app, keys, codes, stale, opened, pending, failures, tries>>
    BY <1>1, <1>2 DEF StoreSecurityKey, IInv, TypeOK, RestOK, countVars
  <2>. QED
    BY <2>1, PlainEnd
<1>3. CASE ~Registered(k)
  <2>. DEFINE ks == keys[l] \cup {k}
  <2>1. /\ SetFactors(r, l, app[l], ks, Idle) /\ ks \in SUBSET Keys /\ ks # {}
        /\ IF request[r].saw THEN UNCHANGED codes ELSE issueBackupCodesTx(l)
        /\ MarkStale(r, l)
    BY <1>3 DEF StoreSecurityKey, IInv, TypeOK
  <2>2. l \notin stale' => codes'[l].issued
    BY <1>1, <2>1, CodesEffect, NotStale DEF StillSo, Protected, ConfirmedApp
  <2>. HIDE DEF ks
  <2>. QED
    BY <1>1, <2>1, <2>2, CodesEffect, NotStale, FactorsSet
<1>. QED
  BY <1>2, <1>3

\* The codes go only when neither the app nor another key is left.
LEMMA RemoveSecurityKeyKeeps ==
    ASSUME IInv, NEW r \in Requests, RemoveSecurityKey(r)
    PROVE  IInv'
<1>. PICK l \in Logins : l = request[r].login
  BY Busy DEF RemoveSecurityKey
<1>. DEFINE ks == keys[l] \ {request[r].key}
<1>1. /\ request[r].at = "removing" /\ app[l] \in {"none", "begun", "confirmed"}
      /\ SetFactors(r, l, app[l], ks, Idle) /\ ks \in SUBSET Keys
      /\ IF request[r].saw THEN UNCHANGED codes ELSE DropCodes(l)
      /\ MarkStale(r, l)
      /\ UNCHANGED <<user, countVars, pending, token, challenge, session, opened, made>>
  BY DEF RemoveSecurityKey, IInv, TypeOK
<1>2. l \notin stale' => /\ app[l] = "confirmed" \/ ks # {} => codes'[l].issued
                         /\ codes'[l].issued => app[l] # "none" \/ ks # {}
  BY <1>1, CodesEffect, NotStale DEF StillSo, ConfirmedApp
<1>. HIDE DEF ks
<1>. QED
  BY <1>1, <1>2, CodesEffect, NotStale, FactorsSet

-----------------------------------------------------------------------------
(* Time.                                                                   *)

LEMMA WindowPassesKeeps ==
    ASSUME IInv, WindowPasses,
           UNCHANGED <<user, pending, token, factorVars, session, opened, request, made>>
    PROVE  IInv'
<1>1. /\ \A l \in Logins : failures[l] \in Nat /\ 0 <= failures[l]
      /\ tries \in Nat
  BY DEF IInv, TypeOK
<1>2. /\ failures' \in [Logins -> Nat] /\ tries' \in Nat /\ asked' \in [Logins -> Nat]
      /\ tries' <= tries /\ \A l \in Logins : failures'[l] <= failures[l]
  <2>1. CASE UNCHANGED failures
    <3>1. tries' \in {tries, 0}
      BY <2>1 DEF WindowPasses
    <3>2. asked' \in [Logins -> Nat]
      BY <2>1 DEF WindowPasses, IInv, TypeOK
    <3>. QED
      BY <1>1, <2>1, <3>1, <3>2 DEF IInv, TypeOK
  <2>2. CASE ~UNCHANGED failures
    <3>1. PICK l \in Logins : failures' = [failures EXCEPT ![l] = 0]
      BY <2>2 DEF WindowPasses
    <3>2. UNCHANGED <<tries, asked>>
      BY <2>2 DEF WindowPasses
    <3>. QED
      BY <1>1, <3>1, <3>2 DEF IInv, TypeOK
  <2>. QED
    BY <2>1, <2>2
<1>3. RestOK' /\ UNCHANGED <<app, keys, codes, stale>>
  BY <1>2 DEF IInv, TypeOK, RestOK, factorVars
<1>. QED
  BY <1>2, <1>3, StillStep

LEMMA PendingExpiresKeeps ==
    ASSUME IInv, NEW p \in Pendings, PendingExpires(p)
    PROVE  IInv'
<1>1. RestOK
  BY DEF IInv, TypeOK, RestOK
<1>2. /\ \A o \in Pendings : pending[o].kind = "gone" => pending'[o].kind = "gone"
      /\ pending' \in [Pendings -> Pending]
      /\ \A o \in Pendings : pending'[o].kind \in {"password", "factor"} <=>
                               pending'[o].login # NoLogin
  BY <1>1, PendingEffect DEF PendingExpires
<1>3. /\ RestOK'
      /\ UNCHANGED <<request, app, keys, codes, stale, opened, failures, tries>>
  BY <1>2 DEF PendingExpires, IInv, TypeOK, RestOK, factorVars, countVars
<1>. QED
  BY <1>2, <1>3, PlainStill

LEMMA TokenExpiresKeeps ==
    ASSUME IInv, NEW t \in Tokens, TokenExpires(t)
    PROVE  IInv'
<1>1. token' \in [Tokens -> Logins \cup {NoLogin}]
  BY DEF TokenExpires, IInv, TypeOK
<1>2. /\ RestOK'
      /\ UNCHANGED <<request, app, keys, codes, stale, opened, pending, failures, tries>>
  BY <1>1 DEF TokenExpires, IInv, TypeOK, RestOK, factorVars, countVars
<1>. QED
  BY <1>2, PlainStill

LEMMA ChallengeExpiresKeeps ==
    ASSUME IInv, NEW l \in Logins, NEW kind \in Kinds, ChallengeExpires(l, kind)
    PROVE  IInv'
<1>1. challenge' \in [Logins -> SUBSET Kinds]
  BY DEF ChallengeExpires, IInv, TypeOK
<1>2. /\ RestOK'
      /\ UNCHANGED <<request, app, keys, codes, stale, opened, pending, failures, tries>>
  BY <1>1 DEF ChallengeExpires, IInv, TypeOK, RestOK, countVars
<1>. QED
  BY <1>2, PlainStill

LEMMA AbandonKeeps ==
    ASSUME IInv, NEW r \in Requests, Abandon(r)
    PROVE  IInv'
<1>1. RestOK' /\ UNCHANGED <<app, keys, codes, stale, opened, pending, failures, tries>>
  BY DEF Abandon, IInv, TypeOK, RestOK, factorVars, countVars
<1>. QED
  BY <1>1, PlainEnd DEF Abandon

-----------------------------------------------------------------------------
(* The invariant and what follows from it.                                 *)

\* Nothing is under way, nothing counted, and codes go with factors.
LEMMA InitHolds == Init => IInv
<1>. SUFFICES ASSUME Init PROVE IInv
  OBVIOUS
<1>1. /\ \A r \in Requests : request[r] = Idle
      /\ \A p \in Pendings : pending[p].kind = "none" /\ opened[p] = 0
  BY DEF Init
<1>2. TypeOK
  <2>1. {MaxLoginFailures, AddressLimit, MaxPasswordResetRequests, MaxAttempts,
         MaxSessions, MaxRequests} \subseteq Nat \ {0}
    BY SignInAssumption
  <2>2. /\ request \in [Requests -> Request]
        /\ \A r \in Requests : request[r].at = "idle" <=> request[r].login = NoLogin
    BY IdleFields DEF Init, Typed
  <2>3. /\ pending \in [Pendings -> Pending]
        /\ \A p \in Pendings : pending[p].kind \in {"password", "factor"} <=> pending[p].login # NoLogin
    BY DEF Init, Pending
  <2>4. session \in [Logins -> 0..MaxSessions]
    BY <2>1 DEF Init
  <2>5. /\ opened \in [Pendings -> 0..2] /\ made \in 0..MaxRequests
        /\ failures \in [Logins -> Nat] /\ tries \in Nat /\ asked \in [Logins -> Nat]
    BY <2>1 DEF Init
  <2>. QED
    BY <2>2, <2>3, <2>4, <2>5 DEF Init, TypeOK
<1>3. RequestsSound /\ GuardsHold
  BY <1>1, IdleFields DEF RequestsSound, Sound, GuardsHold, CodeStages, KeyStages
<1>4. ClaimsAlone
  <2>1. \A r \in Requests, p \in Pendings : ~Claims(request[r], p) /\ request[r].at # "starting"
    BY <1>1, IdleFields DEF Claims, CodeStages
  <2>. QED
    BY <1>1, <2>1 DEF ClaimsAlone, Init
<1>5. CountsSound
  <2>1. Guessing = {} /\ \A l \in Logins : GuessingAt(l) = {}
    BY <1>1, IdleFields DEF Guessing, GuessingAt
  <2>2. Cardinality({}) = 0
    BY FS_EmptySet
  <2>3. Cardinality(Guessing) = 0 /\ \A l \in Logins : Cardinality(GuessingAt(l)) = 0
    BY <2>1, <2>2
  <2>4. MaxLoginFailures \in Nat \ {0} /\ AddressLimit \in Nat \ {0}
    BY SignInAssumption
  <2>5. tries = 0 /\ \A l \in Logins : failures[l] = 0
    BY DEF Init
  <2>. QED
    BY <2>3, <2>4, <2>5, CountingFinite DEF CountsSound
<1>6. CodesStandIn
  <2>. SUFFICES ASSUME NEW l \in Logins
                PROVE  codes[l].issued <=> Protected(l)
    BY DEF CodesStandIn, Protected, ConfirmedApp
  <2>1. codes[l] \in Batches(l)
    BY DEF Init
  <2>. QED
    BY <2>1 DEF Batches
<1>. QED
  BY <1>2, <1>3, <1>4, <1>5, <1>6 DEF IInv

LEMMA PasswordStepKeeps ==
    ASSUME IInv, NEW r \in Requests, PasswordStep(r)
    PROVE  IInv'
<1>1. ASSUME NEW p \in Pendings, CreatePendingPasswordChange(r, p)
      PROVE  IInv'
  BY <1>1, CreatePendingKeeps DEF CreatePendingPasswordChange
<1>2. ASSUME NEW p \in Pendings, CreatePendingTwoFactorLogin(r, p)
      PROVE  IInv'
  BY <1>2, CreatePendingKeeps DEF CreatePendingTwoFactorLogin
<1>. QED
  BY <1>1, <1>2, LoginSubmitKeeps, AuthenticateKeeps, RecordLoginFailureKeeps,
     ClearLoginFailuresKeeps, completeLoginKeeps, startSessionKeeps DEF PasswordStep

LEMMA ReplaceStepKeeps ==
    ASSUME IInv, NEW r \in Requests, ReplaceStep(r)
    PROVE  IInv'
BY ChangePasswordSubmitKeeps, CreateResetTokenKeeps, ConsumeResetTokenKeeps,
   ForgotPasswordSubmitKeeps, AccountChangePasswordKeeps, ResetLoginPasswordKeeps,
   CreateMemberLoginKeeps, ChangePasswordKeeps, EndSessionsKeeps DEF ReplaceStep

LEMMA FactorStepKeeps ==
    ASSUME IInv, NEW r \in Requests, FactorStep(r)
    PROVE  IInv'
BY VerifyPendingTwoFactorLoginKeeps, LoginSecurityKeyBeginKeeps, LoginSecurityKeyFinishKeeps,
   VerifySecondFactorCodeKeeps, RedeemBackupCodeKeeps, CountWrongCodeKeeps,
   SpendPendingLoginKeeps, ValidateLoginKeeps, RecordPendingTwoFactorFailureKeeps,
   ConsumePendingTwoFactorLoginKeeps DEF FactorStep

LEMMA SettingsStepKeeps ==
    ASSUME IInv, NEW r \in Requests, SettingsStep(r)
    PROVE  IInv'
BY TwoFactorEnrollKeeps, TwoFactorConfirmKeeps, TwoFactorDisableKeeps, SecurityKeyBeginKeeps,
   SecurityKeyFinishKeeps, SecurityKeyDeleteKeeps, BeginTOTPEnrollmentKeeps,
   ConfirmTOTPEnrollmentKeeps, CommitEnrollmentKeeps, DisableTOTPKeeps, AddSecurityKeyKeeps,
   StoreSecurityKeyKeeps, RemoveSecurityKeyKeeps DEF SettingsStep

LEMMA NextKeeps == IInv /\ [Next]_vars => IInv'
<1>1. ASSUME IInv, UNCHANGED vars
      PROVE  IInv'
  <2>1. RestOK' /\ UNCHANGED <<request, app, keys, codes, stale, opened, pending, failures, tries>>
    BY <1>1 DEF vars, factorVars, countVars, IInv, TypeOK, RestOK
  <2>. QED
    BY <1>1, <2>1, PlainStill
<1>2. ASSUME IInv, Time
      PROVE  IInv'
  BY <1>2, WindowPassesKeeps, PendingExpiresKeeps, TokenExpiresKeeps, ChallengeExpiresKeeps DEF Time
<1>. QED
  BY <1>1, <1>2, PasswordStepKeeps, ReplaceStepKeeps, FactorStepKeeps, SettingsStepKeeps,
     LogoutKeeps, AbandonKeeps DEF Next

LEMMA InvHolds == Spec => []IInv
  BY InitHolds, NextKeeps, PTL DEF Spec

\* Every row and request of the sign-in tables is well typed, for any number of
\* logins, requests at once, keys and codes (TypeOK).
THEOREM TypeCorrect == Spec => []TypeOK
<1>1. IInv => TypeOK
  BY DEF IInv
<1>. QED
  BY <1>1, InvHolds, PTL

\* startSession is reached by a lasting password only, and by a password alone only
\* if its login has been without a second factor since (NoStepSkipped).
THEOREM NothingSkipped == Spec => []NoStepSkipped
<1>1. IInv => NoStepSkipped
  BY DEF IInv, RequestsSound, Sound, NoStepSkipped
<1>. QED
  BY <1>1, InvHolds, PTL

\* However many codes and keys answer one half-finished sign-in at once, at most one
\* of them has, or will have, a session (OneSessionPerPendingLogin).
THEOREM OneSession == Spec => []OneSessionPerPendingLogin
<1>1. ASSUME IInv, NEW p \in Pendings
      PROVE  opened[p] + Cardinality(Starting(p)) <= 1
  <2>1. \A r \in Starting(p) : Claims(request[r], p)
    BY DEF Starting, Claims
  <2>2. CASE Starting(p) = {}
    BY <1>1, <2>2, FS_EmptySet DEF IInv, ClaimsAlone
  <2>3. CASE Starting(p) # {}
    <3>. PICK r : r \in Starting(p)
      BY <2>3
    <3>1. opened[p] = 0 /\ Starting(p) = {r}
      BY <1>1, <2>1 DEF IInv, ClaimsAlone, Starting
    <3>2. Cardinality({r}) = 1
      BY FS_Singleton
    <3>. QED
      BY <3>1, <3>2
  <2>. QED
    BY <2>2, <2>3
<1>2. IInv => OneSessionPerPendingLogin
  BY <1>1 DEF OneSessionPerPendingLogin
<1>. QED
  BY <1>2, InvHolds, PTL

\* The failures counted against a login and an address exceed their limits by fewer
\* than the requests that may be under way at once (GuessesBounded).
THEOREM GuessesAreBounded == Spec => []GuessesBounded
<1>1. ASSUME IInv PROVE GuessesBounded
  <2>1. /\ tries \in Nat /\ \A l \in Logins : failures[l] \in Nat
        /\ MaxLoginFailures \in Nat /\ AddressLimit \in Nat
    BY <1>1, SignInAssumption DEF IInv, TypeOK
  <2>2. tries < AddressLimit + Cardinality(Requests)
    BY <1>1, <2>1, CountingFinite DEF IInv, CountsSound
  <2>3. ASSUME NEW l \in Logins
        PROVE  failures[l] < MaxLoginFailures + Cardinality(Requests)
    BY <1>1, <2>1, CountingFinite DEF IInv, CountsSound
  <2>. QED
    BY <2>2, <2>3 DEF GuessesBounded
<1>. QED
  BY <1>1, InvHolds, PTL

\* A login that must take the second step has backup codes, and one that has codes has
\* an app or a key they stand in for, unless a settings transaction of it committed on a
\* reading that another had made false (CodesStandIn).
THEOREM CodesKept == Spec => []CodesStandIn
<1>1. IInv => CodesStandIn
  BY DEF IInv
<1>. QED
  BY <1>1, InvHolds, PTL
=============================================================================
