-------------------------------- MODULE Sessions --------------------------------
(***************************************************************************)
(* One user's sessions: AuthService's login with its lockout, the rotation *)
(* of refresh tokens, logout and password reset, served concurrently.      *)
(*                                                                         *)
(* Every request reads first and writes later, one statement at a time     *)
(* (only the reset's two updates share a transaction), so a request works  *)
(* on what it read: the failure count, the presented token, the link.      *)
(* Access tokens are stateless and are not modelled.                       *)
(***************************************************************************)
EXTENDS Integers, FiniteSets

CONSTANTS
    Null,                 \* absent row, idle handler, no time
    Tokens,               \* refresh tokens, in no particular order
    ResetLinks,           \* password reset links
    Handlers,             \* requests being served at a time
    MAX_FAILED_LOGINS,
    LOCKOUT,              \* how long an account stays locked
    TokenLifetime,        \* lifetime of a refresh token
    LinkLifetime,         \* lifetime of a reset link
    MaxTime,              \* bound on the clock
    MaxAttempts           \* bound on wrong passwords

ASSUME SessionsAssumption ==
    /\ {MAX_FAILED_LOGINS, LOCKOUT, TokenLifetime, LinkLifetime} \subseteq Nat
    /\ {MaxTime, MaxAttempts} \subseteq Nat

\* A row of refresh_tokens.  For the properties it also tells the token it was
\* exchanged for (parent), whether it was there when all sessions were ended
\* (swept), and whether that was done while it was being issued (overtaken).
RefreshToken == [revoked : BOOLEAN, expiresAt : Nat, rotatedTo : Tokens \cup {Null},
                 parent : Tokens \cup {Null}, swept : BOOLEAN, overtaken : BOOLEAN]

\* A row of password_reset_tokens.
ResetLink == [used : BOOLEAN, expiresAt : Nat]

\* What a request holds between two statements: its next step, the token or
\* link it was given, the token it issued and the failure count it read; for the
\* properties, whether all sessions were ended since it read its token.
Call == [step : {"fail", "clear", "issue", "retire", "store", "sweep"},
         token : Tokens \cup {Null}, issued : Tokens \cup {Null},
         link : ResetLinks \cup {Null}, failures : Nat, overtaken : BOOLEAN]

ASSUME SessionsRowAssumption ==
    Null \notin RefreshToken \cup ResetLink \cup Call \cup Tokens \cup ResetLinks \cup Nat

VARIABLES
    tokens,        \* refresh_tokens
    links,         \* password_reset_tokens
    failures,      \* users.failedLoginAttempts
    lockedUntil,   \* users.lockedUntil
    handlers,      \* requests being served
    now,           \* the clock
    attempts       \* wrong passwords so far

userVars == <<failures, lockedUntil>>
vars == <<tokens, links, userVars, handlers, now, attempts>>

TypeOK ==
    /\ tokens \in [Tokens -> RefreshToken \cup {Null}]
    /\ links \in [ResetLinks -> ResetLink \cup {Null}]
    /\ failures \in Nat
    /\ lockedUntil \in Nat \cup {Null}
    /\ handlers \in [Handlers -> Call \cup {Null}]
    /\ now \in Nat
    /\ attempts \in Nat

Init ==
    /\ tokens = [t \in Tokens |-> Null]
    /\ links = [l \in ResetLinks |-> Null]
    /\ failures = 0
    /\ lockedUntil = Null
    /\ handlers = [h \in Handlers |-> Null]
    /\ now = 0
    /\ attempts = 0

-----------------------------------------------------------------------------
(* Helpers.                                                                *)

Idle == [step |-> "sweep", token |-> Null, issued |-> Null, link |-> Null,
         failures |-> 0, overtaken |-> FALSE]

Begin(h, call) ==
    /\ handlers[h] = Null
    /\ handlers' = [handlers EXCEPT ![h] = call]

At(h, step) == handlers[h] # Null /\ handlers[h].step = step

Proceed(h, step) == handlers' = [handlers EXCEPT ![h].step = step]

Reply(h) == handlers' = [handlers EXCEPT ![h] = Null]

IsLocked == lockedUntil # Null /\ lockedUntil > now

-----------------------------------------------------------------------------
(* login.                                                                  *)

\* The user row is read; a locked account is refused before its password is
\* looked at.
login(h, passwordMatches) ==
    /\ ~IsLocked
    /\ IF passwordMatches
       THEN Begin(h, [Idle EXCEPT !.step = "clear"]) /\ UNCHANGED attempts
       ELSE /\ attempts < MaxAttempts
            /\ attempts' = attempts + 1
            /\ Begin(h, [Idle EXCEPT !.step = "fail", !.failures = failures])
    /\ UNCHANGED <<tokens, links, userVars, now>>

\* The count that was read, plus one, is stored, with a lock or without.
registerFailedAttempt(h) ==
    /\ At(h, "fail")
    /\ failures' = handlers[h].failures + 1
    /\ lockedUntil' = IF failures' >= MAX_FAILED_LOGINS THEN now + LOCKOUT ELSE Null
    /\ Reply(h)
    /\ UNCHANGED <<tokens, links, now, attempts>>

ClearFailures(h) ==
    /\ At(h, "clear")
    /\ failures' = 0
    /\ lockedUntil' = Null
    /\ Proceed(h, "issue")
    /\ UNCHANGED <<tokens, links, now, attempts>>

-----------------------------------------------------------------------------
(* refresh and logout.                                                     *)

\* The presented token is read: a revoked or expired one ends every session
\* of its user, any other is exchanged.
refresh(h, t) ==
    /\ tokens[t] # Null
    /\ Begin(h, [Idle EXCEPT
          !.step = IF tokens[t].revoked \/ tokens[t].expiresAt < now
                   THEN "sweep" ELSE "issue",
          !.token = t])
    /\ UNCHANGED <<tokens, links, userVars, now, attempts>>

\* issueTokens, first statement: the new token is created, for a login or in
\* exchange for the presented one, to which it points.
IssueToken(h, t) ==
    /\ At(h, "issue")
    /\ tokens[t] = Null
    /\ LET from == handlers[h].token
       IN  /\ tokens' = [tokens EXCEPT ![t] =
                 [revoked |-> FALSE, expiresAt |-> now + TokenLifetime,
                  rotatedTo |-> from, parent |-> from, swept |-> FALSE,
                  overtaken |-> handlers[h].overtaken]]
           /\ IF from = Null
              THEN Reply(h)
              ELSE handlers' = [handlers EXCEPT ![h].step = "retire", ![h].issued = t]
    /\ UNCHANGED <<links, userVars, now, attempts>>

\* issueTokens, second statement: the presented token is revoked, whatever
\* has happened to it meanwhile, and points to its successor.
RetireToken(h) ==
    /\ At(h, "retire")
    /\ tokens' = [tokens EXCEPT ![handlers[h].token].revoked = TRUE,
                                ![handlers[h].token].rotatedTo = handlers[h].issued]
    /\ Reply(h)
    /\ UNCHANGED <<links, userVars, now, attempts>>

logout(t) ==
    /\ tokens[t] # Null
    /\ ~tokens[t].revoked
    /\ tokens' = [tokens EXCEPT ![t].revoked = TRUE]
    /\ UNCHANGED <<links, userVars, handlers, now, attempts>>

\* The refreshes that have read their token and are about to exchange it.
Exchanging(h) == At(h, "issue") /\ handlers[h].token # Null

EndSweep(h) ==
    handlers' = [k \in Handlers |->
        IF k = h THEN Null
        ELSE IF Exchanging(k) THEN [handlers[k] EXCEPT !.overtaken = TRUE]
        ELSE handlers[k]]

\* Mutant of revokeAllSessions: only the presented token's line is revoked.
RevokePresented(h) ==
    /\ At(h, "sweep")
    /\ tokens' = [t \in Tokens |->
          IF tokens[t] = Null THEN Null
          ELSE [tokens[t] EXCEPT !.revoked = @ \/ handlers[h].token \in {t, tokens[t].parent},
                                 !.swept = TRUE]]
    /\ EndSweep(h)
    /\ UNCHANGED <<links, userVars, now, attempts>>

\* Every token of the user that exists now is revoked.
revokeAllSessions(h) ==
    /\ At(h, "sweep")
    /\ tokens' = [t \in Tokens |->
          IF tokens[t] = Null THEN Null
          ELSE [tokens[t] EXCEPT !.revoked = TRUE, !.swept = TRUE]]
    /\ EndSweep(h)
    /\ UNCHANGED <<links, userVars, now, attempts>>

-----------------------------------------------------------------------------
(* Password reset.                                                         *)

requestPasswordReset(l) ==
    /\ links[l] = Null
    /\ links' = [links EXCEPT ![l] = [used |-> FALSE, expiresAt |-> now + LinkLifetime]]
    /\ UNCHANGED <<tokens, userVars, handlers, now, attempts>>

\* The link is read; a used or expired one is refused.
resetPassword(h, l) ==
    /\ links[l] # Null
    /\ ~links[l].used
    /\ links[l].expiresAt >= now
    /\ Begin(h, [Idle EXCEPT !.step = "store", !.link = l])
    /\ UNCHANGED <<tokens, links, userVars, now, attempts>>

\* One transaction: the new password with a clean failure count, and the
\* link used.  The sessions are revoked in a statement of their own.
StorePassword(h) ==
    /\ At(h, "store")
    /\ failures' = 0
    /\ lockedUntil' = Null
    /\ links' = [links EXCEPT ![handlers[h].link].used = TRUE]
    /\ Proceed(h, "sweep")
    /\ UNCHANGED <<tokens, now, attempts>>

-----------------------------------------------------------------------------

\* A statement fails or the server stops: the request ends where it is.
RequestFails(h) ==
    /\ handlers[h] # Null
    /\ Reply(h)
    /\ UNCHANGED <<tokens, links, userVars, now, attempts>>

Tick ==
    /\ now < MaxTime
    /\ now' = now + 1
    /\ UNCHANGED <<tokens, links, userVars, handlers, attempts>>

Next ==
    \/ \E h \in Handlers, passwordMatches \in BOOLEAN : login(h, passwordMatches)
    \/ \E h \in Handlers : registerFailedAttempt(h)
    \/ \E h \in Handlers : ClearFailures(h)
    \/ \E h \in Handlers, t \in Tokens : refresh(h, t)
    \/ \E h \in Handlers, t \in Tokens : IssueToken(h, t)
    \/ \E h \in Handlers : RetireToken(h)
    \/ \E t \in Tokens : logout(t)
    \/ \E h \in Handlers : revokeAllSessions(h)
    \/ \E l \in ResetLinks : requestPasswordReset(l)
    \/ \E h \in Handlers, l \in ResetLinks : resetPassword(h, l)
    \/ \E h \in Handlers : StorePassword(h)
    \/ \E h \in Handlers : RequestFails(h)
    \/ Tick

Spec == Init /\ [][Next]_vars

-----------------------------------------------------------------------------
(* Properties.                                                             *)

\* After a reused token or a new password has ended the user's sessions, none
\* of the tokens from before can be exchanged for a session any more: only a
\* refresh that had read its token when they were ended still issues one.
SweepEndsSessions ==
    \A t \in Tokens :
        /\ tokens[t] # Null
        /\ tokens[t].parent # Null
        /\ tokens[tokens[t].parent].swept
        => tokens[t].swept \/ tokens[t].overtaken

=============================================================================
