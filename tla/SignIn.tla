------------------------------- MODULE SignIn -------------------------------
(***************************************************************************)
(* Signing in (internal/auth, internal/twofactor, internal/ratelimit and    *)
(* the handlers of internal/web that call them): passwords, lockout, forced *)
(* and voluntary changes, reset links, second factors and sessions.        *)
(*                                                                         *)
(* Every handler is a request that works in the statements its code sends   *)
(* to the database, in any interleaving with the others.  A transaction is  *)
(* split where it reads what another may change; what it wrote shows when it *)
(* commits.  Rows expire at any moment.  Which password is which is not     *)
(* modelled: a request has the current one, or a wrong one.                *)
(***************************************************************************)
EXTENDS Naturals, FiniteSets

CONSTANTS
    Logins,      \* rows of users, by their email addresses
    Requests,    \* requests that may be under way at once
    Pendings,    \* rows of pending_password_changes and pending_two_factor_logins
    Tokens,      \* rows of password_reset_tokens
    Keys,        \* security keys
    Codes,       \* the backup codes of a batch (NumBackupCodes)
    NoLogin, NoPending, NoKey, NoCode,
    MaxLoginFailures, AddressLimit, MaxPasswordResetRequests,
    MaxAttempts, \* maxPendingTwoFactorAttempts
    MaxSessions, \* bound on the sessions of a login
    MaxRequests  \* bound on the requests ever made

ASSUME SignInAssumption ==
    /\ IsFiniteSet(Requests) /\ IsFiniteSet(Pendings)
    /\ NoLogin \notin Logins /\ NoPending \notin Pendings
    /\ NoKey \notin Keys /\ NoCode \notin Codes
    /\ {MaxLoginFailures, AddressLimit, MaxPasswordResetRequests, MaxAttempts,
        MaxSessions, MaxRequests} \subseteq Nat \ {0}

VARIABLES
    user,       \* each login: "none", or whose choice its password is
    failures,   \* login_failures: those of the last LoginLockoutWindow
    tries,      \* loginLimiter: the failures from the one address of everybody here
    asked,      \* password_reset_requests of the last PasswordResetRequestWindow
    pending,    \* half-finished sign-ins
    token,      \* reset links: whose, or NoLogin
    app,        \* totp_credentials: "none", "begun" or "confirmed"
    keys,       \* security_keys
    codes,      \* totp_backup_codes: whether there is a batch, and what of it is unused
    challenge,  \* webauthn_sessions waiting for an answer, by login and kind
    session,    \* how many sessions each login has
    opened,     \* history: how many sessions each half-finished sign-in has become
    stale,      \* history: logins a settings request of which acted on a stale reading
    request,    \* what each request under way holds
    made        \* how many requests have been made

factorVars == <<app, keys, codes, challenge, stale>>
countVars == <<failures, tries, asked>>
vars == <<user, failures, tries, asked, pending, token, app, keys, codes, challenge,
          session, opened, stale, request, made>>

\* "temporary" is must_change_password: issued by a leader and not yet replaced.
Passwords == {"none", "temporary", "own"}
Kinds == {"register", "login"}

\* The stages of a request, each named for what comes next; "idle" when there is none.
SignInStages == {"trying", "wrong", "right", "owing", "completing", "needing", "starting"}
CodeStages == {"coding", "redeeming", "mistaken", "verified"}
KeyStages == {"answering", "missed", "answered"}
SettingsStages == {"enrolling", "confirming", "issuing", "disabling", "removing", "adding",
                   "storing"}
OtherStages == {"forgetting", "changing", "ending"}
Stages == {"idle"} \cup SignInStages \cup CodeStages \cup KeyStages
              \cup SettingsStages \cup OtherStages

\* temp: the password it gave was temporary.  guarded: history, the login has had
\* a second factor ever since.  saw: what a transaction has read of the factors.
Request == [at : Stages, login : Logins \cup {NoLogin}, of : Pendings \cup {NoPending},
            temp : BOOLEAN, guarded : BOOLEAN, saw : BOOLEAN,
            key : Keys \cup {NoKey}, code : Codes \cup {NoCode}]

Pending == [kind : {"none", "password", "factor", "gone"}, login : Logins \cup {NoLogin},
            attempts : Nat]

TypeOK ==
    /\ user \in [Logins -> Passwords]
    /\ failures \in [Logins -> Nat] /\ tries \in Nat /\ asked \in [Logins -> Nat]
    /\ pending \in [Pendings -> Pending]
    /\ \A p \in Pendings : pending[p].kind \in {"password", "factor"} <=> pending[p].login # NoLogin
    /\ token \in [Tokens -> Logins \cup {NoLogin}]
    /\ app \in [Logins -> {"none", "begun", "confirmed"}]
    /\ keys \in [Logins -> SUBSET Keys]
    /\ codes \in [Logins -> [issued : BOOLEAN, unused : SUBSET Codes]]
    /\ challenge \in [Logins -> SUBSET Kinds]
    /\ session \in [Logins -> 0..MaxSessions]
    /\ opened \in [Pendings -> 0..2]
    /\ stale \subseteq Logins
    /\ request \in [Requests -> Request]
    /\ \A r \in Requests : request[r].at = "idle" <=> request[r].login = NoLogin
    /\ made \in 0..MaxRequests

-----------------------------------------------------------------------------
(* Helpers.                                                                *)

MkRequest(stage, l, p, temp, guarded, saw, k, c) ==
    [at |-> stage, login |-> l, of |-> p, temp |-> temp, guarded |-> guarded,
     saw |-> saw, key |-> k, code |-> c]
Idle == MkRequest("idle", NoLogin, NoPending, FALSE, FALSE, FALSE, NoKey, NoCode)
At(stage, l) == MkRequest(stage, l, NoPending, FALSE, FALSE, FALSE, NoKey, NoCode)
Accepted(stage, l, temp, guarded) ==
    MkRequest(stage, l, NoPending, temp, guarded, FALSE, NoKey, NoCode)
Bearing(stage, l, p) == MkRequest(stage, l, p, FALSE, FALSE, FALSE, NoKey, NoCode)
Saw(stage, l, k, b) == MkRequest(stage, l, NoPending, FALSE, FALSE, b, k, NoCode)
Onward(q, stage, c) ==
    MkRequest(stage, q.login, q.of, q.temp, q.guarded, q.saw, q.key, c)
Unguarded(q) == MkRequest(q.at, q.login, q.of, q.temp, FALSE, q.saw, q.key, q.code)

SetRequest(r, q) == request' = [request EXCEPT ![r] = q]
GoOn(r, stage) == SetRequest(r, Onward(request[r], stage, request[r].code))
Done(r) == SetRequest(r, Idle)

\* Request r is new: somebody presses a button.
Arrives(r) ==
    /\ request[r].at = "idle"
    /\ made < MaxRequests
    /\ made' = made + 1

\* Mutant: only the authenticator app counts.
ConfirmedApp(l) == app[l] = "confirmed"

\* "TOTPStatus alone would let a key-only login straight in".
HasSecondFactor(l) == app[l] = "confirmed" \/ keys[l] # {}

\* The same for a transaction: hasSecondFactorTx.
Protected(l) == ConfirmedApp(l) \/ keys[l] # {}

\* The history variable guarded after login l's factors become a and ks.
StillGuarded(l, a, ks, q) ==
    IF q.login = l /\ a # "confirmed" /\ ks = {} THEN Unguarded(q) ELSE q

\* A write to l's factors by request r, which then is q.
SetFactors(r, l, a, ks, q) ==
    /\ app' = [app EXCEPT ![l] = a]
    /\ keys' = [keys EXCEPT ![l] = ks]
    /\ request' = [s \in Requests |-> StillGuarded(l, a, ks, IF s = r THEN q ELSE request[s])]

\* issueBackupCodesTx: DELETE, then NumBackupCodes INSERTs.
issueBackupCodesTx(l) ==
    codes' = [codes EXCEPT ![l] = [issued |-> TRUE, unused |-> Codes]]
DropCodes(l) == codes' = [codes EXCEPT ![l] = [issued |-> FALSE, unused |-> {}]]

\* What a transaction about to commit has read of its login's factors still holds.  One
\* that saw none brings codes of its own, whatever has been added since.
StillSo(q, l) ==
    \/ q.at = "issuing" /\ app[l] # "none" /\ (q.saw => keys[l] # {})
    \/ q.at = "storing" /\ (q.saw => Protected(l))
    \/ q.at = "disabling" /\ (q.saw <=> keys[l] # {})
    \/ q.at = "removing" /\ (q.saw <=> ConfirmedApp(l) \/ keys[l] \ {q.key} # {})

\* Request r of login l commits: history.
MarkStale(r, l) ==
    stale' = IF StillSo(request[r], l) THEN stale ELSE stale \cup {l}

\* A row of pending_..., as long as it lives.
Live(p, kind) == pending[p].kind = kind
Fresh(p) == pending[p].kind = "none"
PendingOfNobody(kind, l) == [kind |-> kind, login |-> NoLogin, attempts |-> 0]  \* mutant
NewPending(kind, l) == [kind |-> kind, login |-> l, attempts |-> 0]
OneMore(row) == [kind |-> row.kind, login |-> row.login, attempts |-> row.attempts + 1]
Gone == [kind |-> "gone", login |-> NoLogin, attempts |-> 0]
SetPending(p, row) == pending' = [pending EXCEPT ![p] = row]

\* SELECT ... FOR UPDATE: a transaction holds the row of p.
Locked(p) == \E r \in Requests : request[r].of = p /\ request[r].at \in CodeStages

CanRecord(p) == pending[p].kind = "factor" /\ pending[p].attempts < MaxAttempts + MaxRequests

\* UserForSession finds a session: whoever asks is signed in.
SignedIn(l) == session[l] > 0

-----------------------------------------------------------------------------
(* The login form: LoginSubmit, Authenticate.                              *)

\* Limiter.Blocked does not count the call; Limiter.Allow does.
Blocked == tries >= AddressLimit
Allow == tries' = tries + 1

LooserLockout(l) == failures[l] > MaxLoginFailures  \* mutant: one guess too many

\* A row of login_failures counts while its last failure is recent.
CheckLockout(l) == failures[l] >= MaxLoginFailures

LoginSubmit(r, l) ==
    /\ Arrives(r)
    /\ ~Blocked
    /\ IF CheckLockout(l)
       THEN Allow /\ UNCHANGED request
       ELSE SetRequest(r, At("trying", l)) /\ UNCHANGED tries
    /\ UNCHANGED <<user, failures, asked, pending, token, factorVars, session, opened>>

\* The user is read and the password compared: no such user, a wrong password, or
\* the right one.
Authenticate(r) ==
    LET l == request[r].login IN
    /\ request[r].at = "trying"
    /\ \/ GoOn(r, "wrong")
       \/ /\ user[l] # "none"
          /\ SetRequest(r, Accepted("right", l, user[l] = "temporary", Protected(l)))
    /\ UNCHANGED <<user, countVars, pending, token, factorVars, session, opened, made>>

\* One upsert, whose failure is only logged; then the address is charged.
RecordLoginFailure(r) ==
    LET l == request[r].login IN
    /\ request[r].at = "wrong"
    /\ \/ failures' = [failures EXCEPT ![l] = @ + 1]
       \/ UNCHANGED failures
    /\ Allow
    /\ Done(r)
    /\ UNCHANGED <<user, asked, pending, token, factorVars, session, opened, made>>

\* DELETE FROM login_failures, whose failure is only logged.
ClearLoginFailures(r) ==
    LET l == request[r].login IN
    /\ request[r].at = "right"
    /\ \/ failures' = [failures EXCEPT ![l] = 0]
       \/ UNCHANGED failures
    /\ GoOn(r, IF request[r].temp THEN "owing" ELSE "completing")
    /\ UNCHANGED <<user, tries, asked, pending, token, factorVars, session, opened, made>>

CreatePendingPasswordChange(r, p) ==
    /\ request[r].at = "owing"
    /\ Fresh(p)
    /\ SetPending(p, NewPending("password", request[r].login))
    /\ Done(r)
    /\ UNCHANGED <<user, countVars, token, factorVars, session, opened, made>>

\* completeLogin asks whether the login has a second factor.
completeLogin(r) ==
    LET l == request[r].login IN
    /\ request[r].at = "completing"
    /\ GoOn(r, IF HasSecondFactor(l) THEN "needing" ELSE "starting")
    /\ UNCHANGED <<user, countVars, pending, token, factorVars, session, opened, made>>

CreatePendingTwoFactorLogin(r, p) ==
    /\ request[r].at = "needing"
    /\ Fresh(p)
    /\ SetPending(p, NewPending("factor", request[r].login))
    /\ Done(r)
    /\ UNCHANGED <<user, countVars, token, factorVars, session, opened, made>>

\* startSession, "one function for all three ways in": CreateSession.
startSession(r) ==
    LET l == request[r].login
        p == request[r].of IN
    /\ request[r].at = "starting"
    /\ session[l] < MaxSessions
    /\ session' = [session EXCEPT ![l] = @ + 1]
    /\ opened' = IF p = NoPending THEN opened ELSE [opened EXCEPT ![p] = @ + 1]
    /\ Done(r)
    /\ UNCHANGED <<user, countVars, pending, token, factorVars, made>>

\* DestroySession, or the session expires.
Logout(l) ==
    /\ session[l] > 0
    /\ session' = [session EXCEPT ![l] = @ - 1]
    /\ UNCHANGED <<user, countVars, pending, token, factorVars, opened, request, made>>

-----------------------------------------------------------------------------
(* A password replaced: forced, by a link, from the settings, by a leader.  *)

\* ConsumePendingPasswordChange, one transaction, then completeLogin.
ChangePasswordSubmit(r, p) ==
    LET l == pending[p].login IN
    /\ Arrives(r)
    /\ Live(p, "password")
    /\ SetPending(p, Gone)
    /\ user' = [user EXCEPT ![l] = "own"]
    /\ SetRequest(r, Accepted("completing", l, FALSE, Protected(l)))
    /\ UNCHANGED <<countVars, token, factorVars, session, opened>>

\* Counted and compared in one statement; if that fails, it "fails open".
RecordAndCheckPasswordResetRequest(l, allowed) ==
    \/ /\ asked' = [asked EXCEPT ![l] = @ + 1]
       /\ allowed = (asked[l] < MaxPasswordResetRequests)
    \/ UNCHANGED asked /\ allowed

\* UserByEmail
Known(l) == user[l] # "none"

\* resetLimiter and the setting that turns resets off only refuse.
ForgotPasswordSubmit(r, l) ==
    /\ Arrives(r)
    /\ \E allowed \in BOOLEAN :
         /\ RecordAndCheckPasswordResetRequest(l, allowed)
         /\ IF allowed /\ Known(l) THEN SetRequest(r, At("forgetting", l)) ELSE UNCHANGED request
    /\ UNCHANGED <<user, failures, tries, pending, token, factorVars, session, opened>>

\* Earlier links are left in place.  The mail itself may or may not arrive.
CreateResetToken(r, t) ==
    /\ request[r].at = "forgetting"
    /\ token[t] = NoLogin
    /\ token' = [token EXCEPT ![t] = request[r].login]
    /\ Done(r)
    /\ UNCHANGED <<user, countVars, pending, factorVars, session, opened, made>>

\* DestroySessionsForUserTx, DestroySessionsForFamily, DestroySessionsForMember.
DestroySessions(l) == session' = [session EXCEPT ![l] = 0]

\* ResetPasswordSubmit: the row of the link is locked, and all is one transaction.
ConsumeResetToken(r, t) ==
    LET l == token[t] IN
    /\ Arrives(r)
    /\ l # NoLogin
    /\ token' = [token EXCEPT ![t] = NoLogin]
    /\ user' = [user EXCEPT ![l] = "own"]
    /\ DestroySessions(l)
    /\ UNCHANGED <<countVars, pending, factorVars, opened, request>>

\* Whoever has a session may change the password, giving the present one.
AccountChangePassword(r, l) ==
    /\ Arrives(r)
    /\ SignedIn(l)
    /\ SetRequest(r, At("changing", l))
    /\ UNCHANGED <<user, countVars, pending, token, factorVars, session, opened>>

\* Then completeLogin, for this request's own session is gone too.
ChangePassword(r) ==
    LET l == request[r].login IN
    /\ request[r].at = "changing"
    /\ user' = [user EXCEPT ![l] = "own"]
    /\ DestroySessions(l)
    /\ SetRequest(r, Accepted("completing", l, FALSE, Protected(l)))
    /\ UNCHANGED <<countVars, pending, token, factorVars, opened, made>>

\* ResetFamilyPassword, ResetMemberLoginPassword: the password, and then the
\* sessions, by statements of their own; the second may fail.
ResetLoginPassword(r, l) ==
    /\ Arrives(r)
    /\ user[l] # "none"
    /\ user' = [user EXCEPT ![l] = "temporary"]
    /\ SetRequest(r, At("ending", l))
    /\ UNCHANGED <<countVars, pending, token, factorVars, session, opened>>

EndSessions(r) ==
    /\ request[r].at = "ending"
    /\ DestroySessions(request[r].login) \/ UNCHANGED session
    /\ Done(r)
    /\ UNCHANGED <<user, countVars, pending, token, factorVars, opened, made>>

CreateMemberLogin(r, l) ==
    /\ Arrives(r)
    /\ user[l] = "none"
    /\ user' = [user EXCEPT ![l] = "temporary"]
    /\ UNCHANGED <<countVars, pending, token, factorVars, session, opened, request>>

-----------------------------------------------------------------------------
(* The second step by a code: LoginTwoFactorSubmit, which holds the row of  *)
(* the half-finished sign-in while it works.                               *)

\* Mutant: the row is read without FOR UPDATE.
VerifyUnlocked(r, p) ==
    /\ Arrives(r)
    /\ Live(p, "factor")
    /\ IF pending[p].attempts >= MaxAttempts
       THEN SetPending(p, Gone) /\ UNCHANGED request
       ELSE SetRequest(r, Bearing("coding", pending[p].login, p)) /\ UNCHANGED pending
    /\ UNCHANGED <<user, countVars, token, factorVars, session, opened>>

VerifyPendingTwoFactorLogin(r, p) ==
    /\ Arrives(r)
    /\ Live(p, "factor")
    /\ ~Locked(p)
    /\ IF pending[p].attempts >= MaxAttempts
       THEN SetPending(p, Gone) /\ UNCHANGED request
       ELSE SetRequest(r, Bearing("coding", pending[p].login, p)) /\ UNCHANGED pending
    /\ UNCHANGED <<user, countVars, token, factorVars, session, opened>>

\* The reads of VerifySecondFactorCode: no factor at all (the transaction is rolled
\* back), the app's code, an unused backup code, or neither.
VerifySecondFactorCode(r) ==
    LET l == request[r].login IN
    /\ request[r].at = "coding"
    /\ \/ ~HasSecondFactor(l) /\ Done(r)
       \/ ConfirmedApp(l) /\ GoOn(r, "verified")
       \/ /\ HasSecondFactor(l)
          /\ \E c \in codes[l].unused :
               SetRequest(r, Onward(request[r], "redeeming", c))
       \/ HasSecondFactor(l) /\ GoOn(r, "mistaken")
    /\ UNCHANGED <<user, countVars, pending, token, factorVars, session, opened, made>>

\* UPDATE totp_backup_codes SET used_at WHERE id: whether used since or not.
RedeemBackupCode(r) ==
    LET l == request[r].login IN
    /\ request[r].at = "redeeming"
    /\ codes' = [codes EXCEPT ![l] = [issued |-> @.issued, unused |-> @.unused \ {request[r].code}]]
    /\ GoOn(r, "verified")
    /\ UNCHANGED <<user, countVars, pending, token, app, keys, challenge, stale,
                   session, opened, made>>

\* The transaction ends: an attempt is counted.  An expired row went meanwhile.
CountWrongCode(r) ==
    LET p == request[r].of IN
    /\ request[r].at = "mistaken"
    /\ IF CanRecord(p) THEN SetPending(p, OneMore(pending[p]))
                       ELSE UNCHANGED pending
    /\ Done(r)
    /\ UNCHANGED <<user, countVars, token, factorVars, session, opened, made>>

\* Or the row is deleted, and the session follows.
SpendPendingLogin(r) ==
    LET p == request[r].of IN
    /\ request[r].at = "verified"
    /\ SetPending(p, Gone)
    /\ SetRequest(r, Bearing("starting", request[r].login, p))
    /\ UNCHANGED <<user, countVars, token, factorVars, session, opened, made>>

-----------------------------------------------------------------------------
(* The second step by a security key.                                      *)

\* LoginSecurityKeyBegin: SaveWebAuthnSession supersedes an earlier challenge.
LoginSecurityKeyBegin(r, p) ==
    LET l == pending[p].login IN
    /\ Arrives(r)
    /\ Live(p, "factor")
    /\ pending[p].attempts < MaxAttempts
    /\ keys[l] # {}
    /\ challenge' = [challenge EXCEPT ![l] = @ \cup {"login"}]
    /\ UNCHANGED <<user, countVars, pending, token, app, keys, codes, stale,
                   session, opened, request>>

\* LoginSecurityKeyFinish reads whose sign-in it is and, by one DELETE ...
\* RETURNING (TakeWebAuthnSession), takes the challenge.
LoginSecurityKeyFinish(r, p) ==
    LET l == pending[p].login IN
    /\ Arrives(r)
    /\ Live(p, "factor")
    /\ pending[p].attempts < MaxAttempts
    /\ "login" \in challenge[l]
    /\ challenge' = [challenge EXCEPT ![l] = @ \ {"login"}]
    /\ SetRequest(r, Bearing("answering", l, p))
    /\ UNCHANGED <<user, countVars, pending, token, app, keys, codes, stale,
                   session, opened>>

\* The login's keys are read, and the answer is right for one of them, or wrong.
ValidateLogin(r) ==
    LET l == request[r].login IN
    /\ request[r].at = "answering"
    /\ \/ keys[l] # {} /\ GoOn(r, "answered")
       \/ GoOn(r, "missed")
    /\ UNCHANGED <<user, countVars, pending, token, factorVars, session, opened, made>>

\* An UPDATE by token: it waits for a lock, and finds the row or does not.
RecordPendingTwoFactorFailure(r) ==
    LET p == request[r].of IN
    /\ request[r].at = "missed"
    /\ ~Locked(p)
    /\ IF CanRecord(p) THEN SetPending(p, OneMore(pending[p]))
                       ELSE UNCHANGED pending
    /\ Done(r)
    /\ UNCHANGED <<user, countVars, token, factorVars, session, opened, made>>

\* DELETE: "two answers to one pending login must not both succeed".
ConsumePendingTwoFactorLogin(r) ==
    LET p == request[r].of IN
    /\ request[r].at = "answered"
    /\ ~Locked(p)
    /\ IF Live(p, "factor")
       THEN /\ SetPending(p, Gone)
            /\ SetRequest(r, Bearing("starting", request[r].login, p))
       ELSE Done(r) /\ UNCHANGED pending
    /\ UNCHANGED <<user, countVars, token, factorVars, session, opened, made>>

-----------------------------------------------------------------------------
(* The settings of a login with a session: the app.                        *)

\* "Once a login has any second factor, a live session alone must not be able to
\* change what that factor is": securityKeyStepUp, BeginTOTPEnrollment.
StepUp(l, password) == HasSecondFactor(l) => password

\* TwoFactorEnroll reads whether there is a factor, ...
TwoFactorEnroll(r, l) ==
    /\ Arrives(r)
    /\ SignedIn(l)
    /\ \E password \in BOOLEAN :
         IF StepUp(l, password) THEN SetRequest(r, At("enrolling", l)) ELSE UNCHANGED request
    /\ UNCHANGED <<user, countVars, pending, token, factorVars, session, opened>>

\* ... and writes a new secret, unconfirmed, over whatever is there.
BeginTOTPEnrollment(r) ==
    LET l == request[r].login IN
    /\ request[r].at = "enrolling"
    /\ SetFactors(r, l, "begun", keys[l], Idle)
    /\ UNCHANGED <<user, countVars, pending, token, codes, challenge, stale,
                   session, opened, made>>

\* TwoFactorConfirm reads the secret, and the code is right for it.
TwoFactorConfirm(r, l) ==
    /\ Arrives(r)
    /\ SignedIn(l)
    /\ app[l] # "none"
    /\ SetRequest(r, At("confirming", l))
    /\ UNCHANGED <<user, countVars, pending, token, factorVars, session, opened>>

\* ConfirmTOTPEnrollment: its transaction looks for a key ...
ConfirmTOTPEnrollment(r) ==
    LET l == request[r].login IN
    /\ request[r].at = "confirming"
    /\ SetRequest(r, Saw("issuing", l, NoKey, keys[l] # {}))
    /\ UNCHANGED <<user, countVars, pending, token, factorVars, session, opened, made>>

\* ... and commits: whatever enrolment there is is confirmed, and unless there was
\* a key there are fresh codes.
CommitEnrollment(r) ==
    LET l == request[r].login IN
    /\ request[r].at = "issuing"
    /\ SetFactors(r, l, IF app[l] = "none" THEN "none" ELSE "confirmed", keys[l], Idle)
    /\ IF request[r].saw THEN UNCHANGED codes ELSE issueBackupCodesTx(l)
    /\ MarkStale(r, l)
    /\ UNCHANGED <<user, countVars, pending, token, challenge, session, opened, made>>

\* TwoFactorDisable: the password is asked for; DisableTOTP deletes the app and
\* sees what is left ...
TwoFactorDisable(r, l) ==
    /\ Arrives(r)
    /\ SignedIn(l)
    /\ SetRequest(r, Saw("disabling", l, NoKey, keys[l] # {}))
    /\ UNCHANGED <<user, countVars, pending, token, factorVars, session, opened>>

\* Mutant: the codes go with the app, whatever is left.
DisableAndDrop(r) ==
    LET l == request[r].login IN
    /\ request[r].at = "disabling"
    /\ SetFactors(r, l, "none", keys[l], Idle)
    /\ DropCodes(l)
    /\ MarkStale(r, l)
    /\ UNCHANGED <<user, countVars, pending, token, challenge, session, opened, made>>

\* ... and commits: "the backup codes go only if nothing is left".
DisableTOTP(r) ==
    LET l == request[r].login IN
    /\ request[r].at = "disabling"
    /\ SetFactors(r, l, "none", keys[l], Idle)
    /\ IF request[r].saw THEN UNCHANGED codes ELSE DropCodes(l)
    /\ MarkStale(r, l)
    /\ UNCHANGED <<user, countVars, pending, token, challenge, session, opened, made>>

-----------------------------------------------------------------------------
(* The settings of a login with a session: security keys.                  *)

SecurityKeyBegin(r, l) ==
    /\ Arrives(r)
    /\ SignedIn(l)
    /\ \E password \in BOOLEAN : StepUp(l, password)
    /\ challenge' = [challenge EXCEPT ![l] = @ \cup {"register"}]
    /\ UNCHANGED <<user, countVars, pending, token, app, keys, codes, stale,
                   session, opened, request>>

\* SecurityKeyFinish takes the challenge; the answer is right for key k, one the
\* login did not have when it asked.
SecurityKeyFinish(r, l, k) ==
    /\ Arrives(r)
    /\ SignedIn(l)
    /\ "register" \in challenge[l]
    /\ challenge' = [challenge EXCEPT ![l] = @ \ {"register"}]
    /\ SetRequest(r, Saw("adding", l, k, FALSE))
    /\ UNCHANGED <<user, countVars, pending, token, app, keys, codes, stale, session, opened>>

Registered(k) == \E l \in Logins : k \in keys[l]

\* AddSecurityKey: its transaction sees what the login has, and that nobody has k ...
AddSecurityKey(r) ==
    LET l == request[r].login
        k == request[r].key IN
    /\ request[r].at = "adding"
    /\ IF Registered(k) THEN Done(r)
                        ELSE SetRequest(r, Saw("storing", l, k, Protected(l)))
    /\ UNCHANGED <<user, countVars, pending, token, factorVars, session, opened, made>>

\* ... and commits, unless the unique index refuses k: the first factor brings codes.
StoreSecurityKey(r) ==
    LET l == request[r].login
        k == request[r].key IN
    /\ request[r].at = "storing"
    /\ IF Registered(k)
       THEN Done(r) /\ UNCHANGED <<app, keys, codes, stale>>
       ELSE /\ SetFactors(r, l, app[l], keys[l] \cup {k}, Idle)
            /\ IF request[r].saw THEN UNCHANGED codes ELSE issueBackupCodesTx(l)
            /\ MarkStale(r, l)
    /\ UNCHANGED <<user, countVars, pending, token, challenge, session, opened, made>>

\* SecurityKeyDelete: the password is asked for; RemoveSecurityKey deletes k and
\* sees what is left ...
SecurityKeyDelete(r, l, k) ==
    /\ Arrives(r)
    /\ SignedIn(l)
    /\ k \in keys[l]
    /\ \A s \in Requests : ~(request[s].at = "removing" /\ request[s].key = k)  \* its row lock
    /\ SetRequest(r, Saw("removing", l, k, app[l] = "confirmed" \/ keys[l] \ {k} # {}))
    /\ UNCHANGED <<user, countVars, pending, token, factorVars, session, opened>>

\* ... and commits.
RemoveSecurityKey(r) ==
    LET l == request[r].login IN
    /\ request[r].at = "removing"
    /\ SetFactors(r, l, app[l], keys[l] \ {request[r].key}, Idle)
    /\ IF request[r].saw THEN UNCHANGED codes ELSE DropCodes(l)
    /\ MarkStale(r, l)
    /\ UNCHANGED <<user, countVars, pending, token, challenge, session, opened, made>>

-----------------------------------------------------------------------------
(* Time.                                                                   *)

\* LoginLockoutWindow and the windows of the limiter and of reset requests.
WindowPasses ==
    \/ \E l \in Logins :
         \/ /\ failures[l] > 0
            /\ failures' = [failures EXCEPT ![l] = 0]
            /\ UNCHANGED <<tries, asked>>
         \/ /\ asked[l] > 0
            /\ asked' = [asked EXCEPT ![l] = 0]
            /\ UNCHANGED <<failures, tries>>
    \/ tries > 0 /\ tries' = 0 /\ UNCHANGED <<failures, asked>>

\* PendingTwoFactorDuration, PendingPasswordChangeDuration: a row no transaction
\* holds stops being found.
PendingExpires(p) ==
    /\ pending[p].kind \in {"password", "factor"}
    /\ SetPending(p, Gone)
    /\ UNCHANGED <<user, countVars, token, factorVars, session, opened, request, made>>

\* ResetTokenDuration
TokenExpires(t) ==
    /\ token[t] # NoLogin
    /\ token' = [token EXCEPT ![t] = NoLogin]
    /\ UNCHANGED <<user, countVars, pending, factorVars, session, opened, request, made>>

\* WebAuthnSessionDuration
ChallengeExpires(l, kind) ==
    /\ kind \in challenge[l]
    /\ challenge' = [challenge EXCEPT ![l] = @ \ {kind}]
    /\ UNCHANGED <<user, countVars, pending, token, app, keys, codes, stale,
                   session, opened, request, made>>

Time ==
    \/ /\ WindowPasses
       /\ UNCHANGED <<user, pending, token, factorVars, session, opened, request, made>>
    \/ \E p \in Pendings : PendingExpires(p)
    \/ \E t \in Tokens : TokenExpires(t)
    \/ \E l \in Logins, kind \in Kinds : ChallengeExpires(l, kind)

\* The client goes away, a statement fails or the process dies: an open transaction
\* is rolled back, and what was committed stays.
Abandon(r) ==
    /\ request[r].at # "idle"
    /\ Done(r)
    /\ UNCHANGED <<user, countVars, pending, token, factorVars, session, opened, made>>

-----------------------------------------------------------------------------
\* A batch of codes goes with a factor: of a new one, or one some of which is used.
Batches(l) ==
    IF Protected(l) THEN {[issued |-> TRUE, unused |-> c] : c \in SUBSET Codes}
                          ELSE {[issued |-> FALSE, unused |-> {}]}

\* Any logins, with or without a password of their own, factors and sessions;
\* nothing under way.
Init ==
    /\ user \in [Logins -> Passwords]
    /\ app \in [Logins -> {"none", "confirmed"}]
    /\ keys \in [Logins -> SUBSET Keys]
    /\ \A l, m \in Logins : l # m => keys[l] \cap keys[m] = {}
    /\ codes \in [Logins -> [issued : BOOLEAN, unused : SUBSET Codes]]
    /\ \A l \in Logins : codes[l] \in Batches(l)
    /\ session \in [Logins -> {0, 1}]
    /\ \A l \in Logins : user[l] = "none" => session[l] = 0 /\ ~Protected(l)
    /\ failures = [l \in Logins |-> 0] /\ tries = 0 /\ asked = [l \in Logins |-> 0]
    /\ pending = [p \in Pendings |-> [kind |-> "none", login |-> NoLogin, attempts |-> 0]]
    /\ token = [t \in Tokens |-> NoLogin]
    /\ challenge = [l \in Logins |-> {}]
    /\ opened = [p \in Pendings |-> 0]
    /\ stale = {}
    /\ request = [r \in Requests |-> Idle]
    /\ made = 0

PasswordStep(r) ==
    \/ \E l \in Logins : LoginSubmit(r, l)
    \/ Authenticate(r) \/ RecordLoginFailure(r) \/ ClearLoginFailures(r)
    \/ completeLogin(r) \/ startSession(r)
    \/ \E p \in Pendings : \/ CreatePendingPasswordChange(r, p)
                           \/ CreatePendingTwoFactorLogin(r, p)

ReplaceStep(r) ==
    \/ \E p \in Pendings : ChangePasswordSubmit(r, p)
    \/ \E t \in Tokens : CreateResetToken(r, t) \/ ConsumeResetToken(r, t)
    \/ \E l \in Logins : \/ ForgotPasswordSubmit(r, l) \/ AccountChangePassword(r, l)
                         \/ ResetLoginPassword(r, l) \/ CreateMemberLogin(r, l)
    \/ ChangePassword(r) \/ EndSessions(r)

FactorStep(r) ==
    \/ \E p \in Pendings : \/ VerifyPendingTwoFactorLogin(r, p)
                           \/ LoginSecurityKeyBegin(r, p) \/ LoginSecurityKeyFinish(r, p)
    \/ VerifySecondFactorCode(r) \/ RedeemBackupCode(r)
    \/ CountWrongCode(r) \/ SpendPendingLogin(r)
    \/ ValidateLogin(r) \/ RecordPendingTwoFactorFailure(r) \/ ConsumePendingTwoFactorLogin(r)

SettingsStep(r) ==
    \/ \E l \in Logins : \/ TwoFactorEnroll(r, l) \/ TwoFactorConfirm(r, l)
                         \/ TwoFactorDisable(r, l) \/ SecurityKeyBegin(r, l)
                         \/ \E k \in Keys : SecurityKeyFinish(r, l, k) \/ SecurityKeyDelete(r, l, k)
    \/ BeginTOTPEnrollment(r) \/ ConfirmTOTPEnrollment(r) \/ CommitEnrollment(r)
    \/ DisableTOTP(r) \/ AddSecurityKey(r) \/ StoreSecurityKey(r) \/ RemoveSecurityKey(r)

Next ==
    \/ \E r \in Requests : \/ PasswordStep(r) \/ ReplaceStep(r)
                           \/ FactorStep(r) \/ SettingsStep(r) \/ Abandon(r)
    \/ \E l \in Logins : Logout(l)
    \/ Time

Spec == Init /\ [][Next]_vars

-----------------------------------------------------------------------------
(* Properties.                                                             *)

\* "Every path that creates a session after a password check goes through"
\* HasSecondFactor, and a temporary password "can't be used to reach a real session
\* [...] without first being changed": no request comes to start a session by a
\* temporary password, nor by a password alone if its login has had a second factor
\* at every moment since the password was accepted.
NoStepSkipped ==
    \A r \in Requests : request[r].at = "starting" =>
        /\ ~request[r].temp
        /\ request[r].of = NoPending => ~request[r].guarded

\* "Two answers to one pending login must not both succeed": a half-finished sign-in
\* becomes one session at most, whether codes, keys or both answer it at once.
Starting(p) == {r \in Requests : request[r].at = "starting" /\ request[r].of = p}
OneSessionPerPendingLogin ==
    \A p \in Pendings : opened[p] + Cardinality(Starting(p)) <= 1

\* Nobody may guess on after MaxLoginFailures, nor an address after its limit: the
\* counts pass them by no more than the requests that were let in together.
GuessesBounded ==
    /\ \A l \in Logins : failures[l] < MaxLoginFailures + Cardinality(Requests)
    /\ tries < AddressLimit + Cardinality(Requests)

\* "Backup codes belong to the account [...] generated when the first second factor
\* of either kind is confirmed, and deleted only when the last one is removed": whatever
\* settings requests come together, go on or are given up, who must take the second step
\* has codes, and codes have an app or a key to stand in for, unless a transaction
\* committed after another had changed what it had read and relied on (stale).
CodesStandIn ==
    \A l \in Logins \ stale :
        /\ Protected(l) => codes[l].issued
        /\ codes[l].issued => app[l] # "none" \/ keys[l] # {}
=============================================================================
