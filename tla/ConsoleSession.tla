----------------------------- MODULE ConsoleSession -----------------------------
(***************************************************************************)
(* One browser signed in to the console (lib/auth.tsx), over the server's  *)
(* Sessions.  localStorage holds the pair of tokens issued last; the React *)
(* state holds the pair of the last login or page load and is what every   *)
(* request of a page is sent with.  A request refused with 401 exchanges   *)
(* the stored refresh token and is replayed once.  The pages fire several  *)
(* requests at a time, and nothing keeps two of them from refreshing       *)
(* together.                                                               *)
(*                                                                         *)
(* A pair is named by its refresh token.  A request that exchanges tokens  *)
(* or logs in is served by the handler of the same name.                   *)
(***************************************************************************)
EXTENDS Sessions

VARIABLES
    stored,     \* the pair in localStorage
    shown,      \* the pair in the React state; Null: nobody is signed in
    stale,      \* pairs whose access token has expired
    fetches,    \* requests of the page
    signedOut   \* whether the user has ended sessions: logout or new password

\* A request of the page: for the API or, to sign in, to one of the AUTH_PATHS,
\* which are never replayed; where it is, and the pair it was sent with, is
\* exchanging or has got.
Fetch == [path : {"api", "auth"}, pair : Tokens \cup {Null},
          step : {"sent", "refreshing", "got", "refused", "failed", "replayed"}]

browserVars == <<stored, shown, stale, fetches, signedOut>>
consoleVars == <<vars, browserVars>>

ConsoleInit ==
    /\ Init
    /\ stored = Null
    /\ shown = Null
    /\ stale = {}
    /\ fetches = [f \in Handlers |-> Null]
    /\ signedOut = FALSE

InStep(f, step) == fetches[f] # Null /\ fetches[f].step = step

Settle(f) == fetches' = [fetches EXCEPT ![f] = Null]

\* The server's answer reaches the request that waits for it, if the page that
\* sent it is still there.
Answer(f, step, pair) ==
    fetches' = IF fetches[f] = Null THEN fetches
               ELSE [fetches EXCEPT ![f].step = step, ![f].pair = pair]

-----------------------------------------------------------------------------
(* Signing in and out.                                                     *)

\* login and register post without a token and without a replay; their pages
\* show the failure and can be submitted again.
SubmitLogin(f, passwordMatches) ==
    /\ shown = Null
    /\ fetches[f] = Null
    /\ login(f, passwordMatches)
    /\ fetches' = [fetches EXCEPT ![f] =
          [path |-> "auth", pair |-> Null, step |-> "sent"]]
    /\ UNCHANGED <<stored, shown, stale, signedOut>>

WrongPassword(f) ==
    /\ registerFailedAttempt(f)
    /\ Answer(f, "failed", Null)
    /\ UNCHANGED <<stored, shown, stale, signedOut>>

\* persist: the pair goes to localStorage and to the React state.
persist(f) ==
    /\ InStep(f, "got")
    /\ fetches[f].path = "auth"
    /\ stored' = fetches[f].pair
    /\ shown' = fetches[f].pair
    /\ Settle(f)
    /\ UNCHANGED <<vars, stale, signedOut>>

\* The stored pair is dropped whether or not the server hears of it.
Logout ==
    /\ shown # Null
    /\ \/ stored # Null /\ logout(stored)
       \/ UNCHANGED vars
    /\ stored' = Null
    /\ shown' = Null
    /\ signedOut' = TRUE
    /\ UNCHANGED <<stale, fetches>>

\* The page is loaded again, as after a logout: its requests are forgotten and
\* the React state is what localStorage holds.
AuthProvider ==
    /\ shown' = stored
    /\ fetches' = [f \in Handlers |-> Null]
    /\ UNCHANGED <<vars, stored, stale, signedOut>>

-----------------------------------------------------------------------------
(* Requests of a page.                                                     *)

apiFetch(f) ==
    /\ shown # Null
    /\ fetches[f] = Null
    /\ handlers[f] = Null
    /\ fetches' = [fetches EXCEPT ![f] =
          [path |-> "api", pair |-> shown, step |-> "sent"]]
    /\ UNCHANGED <<vars, stored, shown, stale, signedOut>>

AtTheApi(f) ==
    /\ InStep(f, "sent") \/ InStep(f, "replayed")
    /\ fetches[f].path = "api"

\* The API accepts the access token.
Served(f) ==
    /\ AtTheApi(f)
    /\ fetches[f].pair \notin stale
    /\ Settle(f)
    /\ UNCHANGED <<vars, stored, shown, stale, signedOut>>

\* 401: a first answer is followed by tryRefresh with the pair stored now; a
\* replayed request, or one without a stored session, fails.
Unauthorized(f) ==
    /\ AtTheApi(f)
    /\ fetches[f].pair \in stale
    /\ fetches' = [fetches EXCEPT ![f] =
          IF InStep(f, "sent") /\ stored # Null
          THEN [path |-> "api", pair |-> stored, step |-> "refreshing"] ELSE Null]
    /\ UNCHANGED <<vars, stored, shown, stale, signedOut>>

\* POST /auth/refresh reaches the server.
tryRefresh(f) ==
    /\ InStep(f, "refreshing")
    /\ refresh(f, fetches[f].pair)
    /\ UNCHANGED browserVars

Issued(f, t) ==
    /\ IssueToken(f, t)
    /\ IF handlers[f].token = Null THEN Answer(f, "got", t) ELSE UNCHANGED fetches
    /\ UNCHANGED <<stored, shown, stale, signedOut>>

Rotated(f) ==
    /\ RetireToken(f)
    /\ Answer(f, "got", handlers[f].issued)
    /\ UNCHANGED <<stored, shown, stale, signedOut>>

Swept(f) ==
    /\ revokeAllSessions(f)
    /\ IF InStep(f, "refreshing") THEN Answer(f, "refused", fetches[f].pair)
                                  ELSE UNCHANGED fetches
    /\ UNCHANGED <<stored, shown, stale, signedOut>>

\* An error of the server is an answer like a refusal, a lost one is not.
ServerFails(f) ==
    /\ RequestFails(f)
    /\ Answer(f, "failed", Null) \/ Settle(f)
    /\ UNCHANGED <<stored, shown, stale, signedOut>>

\* The new pair replaces whatever is stored, and the request is replayed with
\* it; the React state keeps the old one.
StoreFresh(f) ==
    /\ InStep(f, "got")
    /\ fetches[f].path = "api"
    /\ stored' = fetches[f].pair
    /\ fetches' = [fetches EXCEPT ![f].step = "replayed"]
    /\ UNCHANGED <<vars, shown, stale, signedOut>>

\* Any answer but a success removes the stored session, whatever is stored by
\* now; the React state stays.  A failed login removes nothing.
Forget(f) ==
    /\ InStep(f, "refused") \/ InStep(f, "failed")
    /\ stored' = IF fetches[f].path = "api" THEN Null ELSE stored
    /\ Settle(f)
    /\ UNCHANGED <<vars, shown, stale, signedOut>>

\* The short lifetime of an access token ends.
AccessExpires(t) ==
    /\ tokens[t] # Null
    /\ t \notin stale
    /\ stale' = stale \cup {t}
    /\ UNCHANGED <<vars, stored, shown, fetches, signedOut>>

-----------------------------------------------------------------------------
(* A password reset, from this browser or another.                         *)

AskReset(l) == requestPasswordReset(l) /\ UNCHANGED browserVars

OpenReset(h, l) ==
    /\ fetches[h] = Null
    /\ resetPassword(h, l)
    /\ UNCHANGED browserVars

NewPassword(h) ==
    /\ StorePassword(h)
    /\ signedOut' = TRUE
    /\ UNCHANGED <<stored, shown, stale, fetches>>

ConsoleNext ==
    \/ \E f \in Handlers :
           \/ \E passwordMatches \in BOOLEAN : SubmitLogin(f, passwordMatches)
           \/ WrongPassword(f) \/ persist(f) \/ apiFetch(f) \/ Served(f) \/ Unauthorized(f)
           \/ tryRefresh(f) \/ Rotated(f) \/ Swept(f) \/ ServerFails(f)
           \/ StoreFresh(f) \/ Forget(f) \/ NewPassword(f)
           \/ ClearFailures(f) /\ UNCHANGED browserVars
           \/ \E t \in Tokens : Issued(f, t)
           \/ \E l \in ResetLinks : OpenReset(f, l)
    \/ \E t \in Tokens : AccessExpires(t)
    \/ \E l \in ResetLinks : AskReset(l)
    \/ Logout
    \/ AuthProvider
    \/ Tick /\ UNCHANGED browserVars

ConsoleSpec == ConsoleInit /\ [][ConsoleNext]_consoleVars

-----------------------------------------------------------------------------
(* Properties.                                                             *)

\* What apiFetch says of itself: an access token that expired is rotated
\* silently and the request is replayed.  No refresh is refused, which drops
\* the session, while its token lives and the user has ended nothing.
RotatesSilently ==
    \A f \in Handlers :
        InStep(f, "refused") =>
            signedOut \/ tokens[fetches[f].pair].expiresAt < now
=============================================================================
