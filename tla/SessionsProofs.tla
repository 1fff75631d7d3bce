----------------------------- MODULE SessionsProofs -----------------------------
(***************************************************************************)
(* The sessions of a user, for any number of tokens, links and requests    *)
(* served at once: what a sweep has ended is not exchanged any more, but   *)
(* by the refreshes it overtakes.  A request keeps working on the token or *)
(* link it has read, so the invariant says that this row is still there    *)
(* and, of a refresh about to issue, that its token lived until a sweep    *)
(* overtook it.                                                            *)
(***************************************************************************)
EXTENDS Sessions, TLAPS

\* What a request has read or issued before its next statement; a login has
\* read no token.
CallsHaveRows ==
    \A h \in Handlers : handlers[h] # Null =>
        /\ handlers[h].step = "clear" => handlers[h].token = Null
        /\ handlers[h].step = "retire" =>
               /\ handlers[h].token \in Tokens
               /\ handlers[h].issued \in Tokens
               /\ tokens[handlers[h].token] # Null
        /\ handlers[h].step = "store" =>
               /\ handlers[h].link \in ResetLinks
               /\ links[handlers[h].link] # Null
        /\ handlers[h].token # Null => tokens[handlers[h].token] # Null

\* The sweep has revoked what it found, so no refresh begins with it; those that
\* had begun know.
SweepsSeen ==
    /\ \A t \in Tokens : tokens[t] # Null /\ tokens[t].swept => tokens[t].revoked
    /\ \A h \in Handlers :
           Exchanging(h) /\ tokens[handlers[h].token].swept => handlers[h].overtaken

\* The token that another was exchanged for is there.
ParentsHaveRows ==
    \A t \in Tokens :
        tokens[t] # Null /\ tokens[t].parent # Null => tokens[tokens[t].parent] # Null

Ended == SweepsSeen /\ ParentsHaveRows /\ SweepEndsSessions

Sound == TypeOK /\ CallsHaveRows /\ Ended

LEMMA InitIsSound == Init => Sound
  BY SessionsRowAssumption
  DEF Init, Sound, TypeOK, CallsHaveRows, Ended, SweepsSeen, ParentsHaveRows, Exchanging, At,
      SweepEndsSessions

\* A request begins, goes on or ends, and its rows are there.
LEMMA HandlerStep ==
    ASSUME Sound, NEW h \in Handlers, NEW call \in Call \cup {Null},
           handlers' = [handlers EXCEPT ![h] = call],
           \A t \in Tokens : tokens[t] # Null => tokens'[t] # Null,
           \A l \in ResetLinks : links[l] # Null => links'[l] # Null,
           call # Null =>
               /\ call.step = "clear" => call.token = Null
               /\ call.step = "retire" => call.token \in Tokens /\ call.issued \in Tokens
               /\ call.token # Null => tokens'[call.token] # Null
               /\ call.step = "store" =>
                      call.link \in ResetLinks /\ links'[call.link] # Null
    PROVE  handlers' \in [Handlers -> Call \cup {Null}] /\ CallsHaveRows'
  <1>1. handlers' \in [Handlers -> Call \cup {Null}]
    BY DEF Sound, TypeOK
  <1>2. ASSUME NEW k \in Handlers, handlers'[k] # Null
        PROVE  /\ handlers'[k].step = "clear" => handlers'[k].token = Null
               /\ handlers'[k].step = "retire" =>
                      /\ handlers'[k].token \in Tokens
                      /\ handlers'[k].issued \in Tokens
                      /\ tokens'[handlers'[k].token] # Null
               /\ handlers'[k].step = "store" =>
                      /\ handlers'[k].link \in ResetLinks
                      /\ links'[handlers'[k].link] # Null
               /\ handlers'[k].token # Null => tokens'[handlers'[k].token] # Null
    <2>1. CASE k = h
      BY <1>2, <2>1, SessionsRowAssumption DEF Sound, TypeOK
    <2>2. CASE k # h
      <3>1. handlers'[k] = handlers[k] /\ handlers[k] \in Call
        BY <1>2, <2>2 DEF Sound, TypeOK
      <3>2. handlers[k].token \in Tokens \cup {Null}
        BY <3>1 DEF Call
      <3> QED
        BY <1>2, <3>1, <3>2 DEF Sound, CallsHaveRows
    <2> QED
      BY <2>1, <2>2
  <1> QED
    BY <1>1, <1>2 DEF CallsHaveRows

\* A request ends.
LEMMA ReplyStep ==
    ASSUME Sound, NEW h \in Handlers, Reply(h),
           \A t \in Tokens : tokens[t] # Null => tokens'[t] # Null,
           \A l \in ResetLinks : links[l] # Null => links'[l] # Null
    PROVE  handlers' \in [Handlers -> Call \cup {Null}] /\ CallsHaveRows'
  BY HandlerStep DEF Reply

\* A request begins with what it has read.
LEMMA BeginStep ==
    ASSUME Sound, NEW h \in Handlers, NEW call \in Call, Begin(h, call),
           UNCHANGED <<tokens, links>>,
           call.step # "retire", call.step = "clear" => call.token = Null,
           call.token # Null => tokens[call.token] # Null,
           call.step = "store" => call.link \in ResetLinks /\ links[call.link] # Null
    PROVE  handlers' \in [Handlers -> Call \cup {Null}] /\ CallsHaveRows'
  BY HandlerStep DEF Begin

\* A request that goes on holds what it held.
LEMMA ProceedStep ==
    ASSUME Sound, NEW h \in Handlers, handlers[h] # Null,
           NEW step \in {"issue", "sweep"}, Proceed(h, step),
           UNCHANGED tokens,
           \A l \in ResetLinks : links[l] # Null => links'[l] # Null
    PROVE  handlers' \in [Handlers -> Call \cup {Null}] /\ CallsHaveRows'
  <1> DEFINE call == [handlers[h] EXCEPT !.step = step]
  <1>1. handlers[h] \in Call
    BY DEF Sound, TypeOK
  <1>2. call \in Call /\ call.step = step /\ call.token = handlers[h].token
    BY <1>1 DEF Call
  <1>3. call.token # Null => tokens'[call.token] # Null
    BY <1>2 DEF Sound, CallsHaveRows
  <1>4. handlers' = [handlers EXCEPT ![h] = call]
    BY DEF Proceed
  <1> HIDE DEF call
  <1> QED
    BY <1>2, <1>3, <1>4, HandlerStep

\* Where no token changes, what has been ended stays so, if no request comes to
\* issue in exchange for an ended token.
LEMMA EndedKept ==
    ASSUME Sound, UNCHANGED tokens, NEW h \in Handlers, NEW call \in Call \cup {Null},
           handlers' = [handlers EXCEPT ![h] = call],
           call # Null /\ call.step = "issue" /\ call.token # Null =>
               call.token \in Tokens /\ (tokens[call.token].swept => call.overtaken)
    PROVE  Ended'
  <1>1. ASSUME NEW k \in Handlers, Exchanging(k)', tokens'[handlers'[k].token].swept
        PROVE  handlers'[k].overtaken
    <2>1. CASE k = h
      BY <1>1, <2>1 DEF Exchanging, At, Sound, TypeOK
    <2>2. CASE k # h
      <3>1. handlers'[k] = handlers[k]
        BY <2>2 DEF Sound, TypeOK
      <3> QED
        BY <1>1, <3>1 DEF Exchanging, At, Sound, Ended, SweepsSeen
    <2> QED
      BY <2>1, <2>2
  <1>2. SweepsSeen'
    BY <1>1 DEF Sound, Ended, SweepsSeen
  <1> QED
    BY <1>2 DEF Sound, Ended, ParentsHaveRows, SweepEndsSessions

LEMMA EndedStutter ==
    Sound /\ UNCHANGED <<tokens, handlers>> => Ended'
  BY DEF Sound, Ended, SweepsSeen, Exchanging, At, ParentsHaveRows, SweepEndsSessions

\* Where a row is only revoked, what has been ended stays so.
LEMMA EndedRevoked ==
    ASSUME Sound, NEW t \in Tokens, tokens[t] # Null, NEW row \in RefreshToken,
           row = [tokens[t] EXCEPT !.revoked = TRUE]
           \/ \E s \in Tokens : row = [tokens[t] EXCEPT !.revoked = TRUE, !.rotatedTo = s],
           tokens' = [tokens EXCEPT ![t] = row],
           \A k \in Handlers : handlers'[k] \in {handlers[k], Null}
    PROVE  Ended'
  <1>1. tokens[t] \in RefreshToken
    BY DEF Sound, TypeOK
  <1>2. /\ row.revoked /\ row.swept = tokens[t].swept /\ row.parent = tokens[t].parent
        /\ row.overtaken = tokens[t].overtaken /\ row # Null
    BY <1>1, SessionsRowAssumption DEF RefreshToken
  <1>3. \A s \in Tokens : tokens'[s] = IF s = t THEN row ELSE tokens[s]
    BY DEF Sound, TypeOK
  <1>4. \A s \in Tokens : tokens[s] # Null =>
            /\ tokens'[s] # Null /\ tokens'[s].swept = tokens[s].swept
            /\ tokens'[s].parent = tokens[s].parent
            /\ tokens'[s].overtaken = tokens[s].overtaken
            /\ tokens[s].revoked => tokens'[s].revoked
            /\ tokens[s].parent \in Tokens \cup {Null}
    BY <1>2, <1>3 DEF Sound, TypeOK, RefreshToken
  <1>5. \A s \in Tokens : tokens[s] = Null => tokens'[s] = Null
    BY <1>3
  <1>9. \A s \in Tokens : tokens[s] # Null =>
            /\ tokens'[s] # Null
            /\ tokens'[s].parent = tokens[s].parent
            /\ tokens[s].parent \in Tokens \cup {Null}
    BY <1>4
  <1>10. \A s \in Tokens : tokens[s] # Null => tokens'[s].swept = tokens[s].swept
    BY <1>4
  <1>6. ParentsHaveRows'
    <2> SUFFICES ASSUME NEW s \in Tokens, tokens'[s] # Null, tokens'[s].parent # Null
                 PROVE  tokens'[tokens'[s].parent] # Null
      BY DEF ParentsHaveRows
    <2>1. tokens[s] # Null
      BY <1>5
    <2>2. tokens'[s].parent = tokens[s].parent /\ tokens[s].parent \in Tokens
      BY <1>9, <2>1
    <2>3. tokens[tokens[s].parent] # Null
      BY <2>1, <2>2 DEF Sound, Ended, ParentsHaveRows
    <2> QED
      BY <1>9, <2>2, <2>3
  <1>7. SweepEndsSessions'
    <2> SUFFICES ASSUME NEW s \in Tokens, tokens'[s] # Null, tokens'[s].parent # Null,
                        tokens'[tokens'[s].parent].swept
                 PROVE  tokens'[s].swept \/ tokens'[s].overtaken
      BY DEF SweepEndsSessions
    <2> DEFINE p == tokens[s].parent
    <2>1. tokens[s] # Null /\ tokens'[s].parent = p /\ p # Null /\ p \in Tokens
      BY <1>5, <1>9
    <2>2. tokens[p] # Null
      BY <2>1 DEF Sound, Ended, ParentsHaveRows
    <2>3. tokens[p].swept
      <3>1. tokens'[p].swept
        BY <2>1
      <3>2. tokens'[p].swept = tokens[p].swept
        BY <1>10, <2>1, <2>2
      <3> QED
        BY <3>1, <3>2
    <2>4. tokens[s].swept \/ tokens[s].overtaken
      BY <2>1, <2>3 DEF Sound, Ended, SweepEndsSessions
    <2> QED
      BY <1>4, <2>1, <2>4
  <1>8. SweepsSeen'
    <2>1. \A s \in Tokens : tokens'[s] # Null /\ tokens'[s].swept => tokens'[s].revoked
      BY <1>4, <1>5 DEF Sound, Ended, SweepsSeen
    <2>2. ASSUME NEW k \in Handlers, Exchanging(k)', tokens'[handlers'[k].token].swept
          PROVE  handlers'[k].overtaken
      <3>1. handlers'[k] = handlers[k] /\ handlers[k] # Null /\ Exchanging(k)
        BY <2>2 DEF Exchanging, At
      <3>2. handlers[k].token \in Tokens /\ tokens[handlers[k].token] # Null
        BY <3>1 DEF Exchanging, Sound, TypeOK, Call, CallsHaveRows
      <3>3. tokens[handlers[k].token].swept
        <4>1. tokens'[handlers[k].token].swept
          BY <2>2, <3>1
        <4>2. tokens'[handlers[k].token].swept = tokens[handlers[k].token].swept
          BY <1>10, <3>2
        <4> QED
          BY <4>1, <4>2
      <3> QED
        BY <3>1, <3>3 DEF Sound, Ended, SweepsSeen
    <2> QED
      BY <2>1, <2>2 DEF SweepsSeen
  <1> QED
    BY <1>6, <1>7, <1>8 DEF Ended

\* When a request ends and the tokens stay, so does what has been ended.
LEMMA EndedReply ==
    ASSUME Sound, UNCHANGED tokens, NEW h \in Handlers, Reply(h)
    PROVE  Ended'
  BY EndedKept DEF Reply

LEMMA IdleType == Idle \in Call
  BY DEF Idle, Call

-----------------------------------------------------------------------------
(* One lemma for each kind of request.                                     *)

LEMMA LoginIsSound ==
    ASSUME Sound, NEW h \in Handlers,
           \/ \E passwordMatches \in BOOLEAN : login(h, passwordMatches)
           \/ registerFailedAttempt(h)
           \/ ClearFailures(h)
    PROVE  Sound'
  <1>1. ASSUME NEW passwordMatches \in BOOLEAN, login(h, passwordMatches) PROVE Sound'
    <2> DEFINE call == IF passwordMatches THEN [Idle EXCEPT !.step = "clear"]
                       ELSE [Idle EXCEPT !.step = "fail", !.failures = failures]
    <2>1. call \in Call /\ call.step \in {"clear", "fail"} /\ call.token = Null
      BY DEF Idle, Call, Sound, TypeOK
    <2>2. /\ Begin(h, call)
          /\ attempts' \in Nat
          /\ UNCHANGED <<tokens, links, userVars, now>>
      BY <1>1 DEF login, Sound, TypeOK
    <2> HIDE DEF call
    <2>3. handlers' \in [Handlers -> Call \cup {Null}] /\ CallsHaveRows'
      BY <2>1, <2>2, BeginStep
    <2>4. Ended'
      BY <2>1, <2>2, EndedKept DEF Begin
    <2> QED
      BY <2>2, <2>3, <2>4 DEF Sound, TypeOK, userVars
  <1>2. CASE registerFailedAttempt(h)
    <2>1. handlers[h].failures \in Nat
      BY <1>2 DEF registerFailedAttempt, At, Sound, TypeOK, Call
    <2>2. handlers' \in [Handlers -> Call \cup {Null}] /\ CallsHaveRows'
      BY <1>2, ReplyStep DEF registerFailedAttempt
    <2>3. failures' \in Nat /\ lockedUntil' \in Nat \cup {Null}
      BY <1>2, <2>1, SessionsAssumption DEF registerFailedAttempt, Sound, TypeOK
    <2>4. Ended'
      BY <1>2, EndedReply DEF registerFailedAttempt
    <2> QED
      BY <1>2, <2>2, <2>3, <2>4 DEF registerFailedAttempt, Sound, TypeOK
  <1>3. CASE ClearFailures(h)
    <2>1. handlers' \in [Handlers -> Call \cup {Null}] /\ CallsHaveRows'
      BY <1>3, ProceedStep DEF ClearFailures, At
    <2> DEFINE call == [handlers[h] EXCEPT !.step = "issue"]
    <2>2. handlers[h] \in Call /\ handlers[h].step = "clear"
      BY <1>3 DEF ClearFailures, At, Sound, TypeOK
    <2>3. call \in Call /\ call.token = Null
      BY <1>3, <2>2 DEF ClearFailures, At, Call, Sound, CallsHaveRows
    <2>4. Ended'
      BY <1>3, <2>3, EndedKept DEF ClearFailures, Proceed
    <2> QED
      BY <1>3, <2>1, <2>4 DEF ClearFailures, Sound, TypeOK
  <1> QED
    BY <1>1, <1>2, <1>3

LEMMA RefreshIsSound ==
    ASSUME Sound, NEW h \in Handlers, NEW t \in Tokens, refresh(h, t)
    PROVE  Sound'
  <1> DEFINE step == IF tokens[t].revoked \/ tokens[t].expiresAt < now THEN "sweep" ELSE "issue"
             call == [Idle EXCEPT !.step = step, !.token = t]
  <1>1. step \in {"sweep", "issue"}
    OBVIOUS
  <1>2. Begin(h, call)
    BY DEF refresh
  <1> HIDE DEF step
  <1>3. call \in Call /\ call.step = step /\ call.token = t
    BY <1>1 DEF Idle, Call
  <1>5. step = "issue" => ~tokens[t].swept
    BY DEF step, refresh, Sound, Ended, SweepsSeen
  <1> HIDE DEF call
  <1>4. handlers' \in [Handlers -> Call \cup {Null}] /\ CallsHaveRows'
    BY <1>1, <1>2, <1>3, BeginStep DEF refresh
  <1>6. Ended'
    BY <1>2, <1>3, <1>5, EndedKept DEF refresh, Begin
  <1> QED
    BY <1>4, <1>6 DEF refresh, Sound, TypeOK, userVars

\* A token is issued for a login, for a token that lives, or by a refresh that a
\* sweep has overtaken.
LEMMA IssueIsSound ==
    ASSUME Sound, NEW h \in Handlers, NEW t \in Tokens, IssueToken(h, t)
    PROVE  Sound'
  <1> DEFINE from == handlers[h].token
             row == [revoked |-> FALSE, expiresAt |-> now + TokenLifetime,
                     rotatedTo |-> from, parent |-> from, swept |-> FALSE,
                     overtaken |-> handlers[h].overtaken]
  <1>1. /\ handlers[h] \in Call /\ handlers[h] # Null /\ handlers[h].step = "issue"
        /\ from \in Tokens \cup {Null}
        /\ handlers[h].overtaken \in BOOLEAN
        /\ from # Null => tokens[from] # Null
        /\ tokens[t] = Null
    BY DEF IssueToken, At, Sound, TypeOK, Call, CallsHaveRows
  <1>2. row \in RefreshToken /\ row # Null /\ ~row.swept /\ row.parent = from
        /\ row.overtaken = handlers[h].overtaken
    <2>1. row \in RefreshToken
      BY <1>1, SessionsAssumption DEF RefreshToken, Sound, TypeOK
    <2> QED
      BY <2>1, SessionsRowAssumption
  <1>3. tokens' = [tokens EXCEPT ![t] = row]
    BY DEF IssueToken
  <1> HIDE DEF row
  <1>4. /\ tokens' \in [Tokens -> RefreshToken \cup {Null}]
        /\ \A s \in Tokens : tokens[s] # Null => tokens'[s] = tokens[s]
        /\ \A s \in Tokens : tokens[s] # Null => tokens'[s] # Null
        /\ \A s \in Tokens : s # t => tokens'[s] = tokens[s]
        /\ tokens'[t] = row
    BY <1>1, <1>2, <1>3 DEF Sound, TypeOK
  <1> DEFINE call == [handlers[h] EXCEPT !.step = "retire", !.issued = t]
  <1>5. /\ call \in Call
        /\ call.step = "retire" /\ call.token = from /\ call.issued = t
    BY <1>1 DEF Call
  <1>6. \/ from = Null /\ Reply(h)
        \/ from # Null /\ handlers' = [handlers EXCEPT ![h] = call]
    BY DEF IssueToken, Sound, TypeOK
  <1> HIDE DEF call
  <1>7. handlers' \in [Handlers -> Call \cup {Null}] /\ CallsHaveRows'
    <2>1. UNCHANGED links
      BY DEF IssueToken
    <2>2. CASE from = Null
      BY <1>4, <1>6, <2>1, <2>2, ReplyStep
    <2>3. CASE from # Null
      <3>1. from \in Tokens /\ tokens'[from] # Null
        BY <1>1, <1>4, <2>3
      <3> QED
        BY <1>4, <1>5, <1>6, <2>1, <2>3, <3>1, HandlerStep
    <2> QED
      BY <2>2, <2>3
  <1>8. ASSUME NEW k \in Handlers, Exchanging(k)'
        PROVE  /\ Exchanging(k) /\ handlers'[k] = handlers[k]
               /\ handlers[k].token \in Tokens /\ tokens[handlers[k].token] # Null
    <2>1. k # h
      <3>1. k = h => handlers'[k] = Null \/ handlers'[k] = call
        BY <1>6 DEF Reply, Sound, TypeOK
      <3> QED
        BY <1>5, <1>8, <3>1 DEF Exchanging, At
    <2>2. handlers'[k] = handlers[k]
      BY <1>6, <2>1 DEF Reply, Sound, TypeOK
    <2>3. Exchanging(k)
      BY <1>8, <2>2 DEF Exchanging, At
    <2> QED
      BY <2>2, <2>3 DEF Exchanging, At, Sound, TypeOK, Call, CallsHaveRows
  <1>9. SweepsSeen'
    <2>1. \A s \in Tokens : tokens'[s] # Null /\ tokens'[s].swept => tokens'[s].revoked
      BY <1>2, <1>4 DEF Sound, Ended, SweepsSeen
    <2> QED
      BY <1>4, <1>8, <2>1 DEF Sound, Ended, SweepsSeen
  <1>10. from # Null => tokens'[from] = tokens[from] /\ tokens[from] # Null /\ from \in Tokens
    BY <1>1, <1>4
  <1>11. \A s \in Tokens : tokens[s] # Null => tokens[s].parent \in Tokens \cup {Null}
    BY DEF Sound, TypeOK, RefreshToken
  <1>12. ParentsHaveRows'
    BY <1>2, <1>4, <1>10, <1>11 DEF Sound, Ended, ParentsHaveRows
  <1>13. SweepEndsSessions'
    <2>1. from # Null /\ tokens[from].swept => row.overtaken
      BY <1>1, <1>2 DEF Sound, Ended, SweepsSeen, Exchanging, At
    <2> QED
      BY <1>2, <1>4, <1>10, <1>11, <2>1 DEF Sound, Ended, ParentsHaveRows, SweepEndsSessions
  <1> QED
    BY <1>4, <1>7, <1>9, <1>12, <1>13 DEF IssueToken, Sound, TypeOK, userVars, Ended

\* A row that is revoked is still a row.
LEMMA RevokeRow ==
    ASSUME Sound, NEW t \in Tokens, tokens[t] # Null, NEW row \in RefreshToken,
           tokens' = [tokens EXCEPT ![t] = row]
    PROVE  /\ tokens' \in [Tokens -> RefreshToken \cup {Null}]
           /\ \A s \in Tokens : tokens[s] # Null => tokens'[s] # Null
  BY SessionsRowAssumption DEF Sound, TypeOK

\* The presented token is revoked whatever happened to it meanwhile.
LEMMA RetireIsSound ==
    ASSUME Sound, NEW h \in Handlers, RetireToken(h)
    PROVE  Sound'
  <1> DEFINE t == handlers[h].token
             row == [tokens[t] EXCEPT !.revoked = TRUE, !.rotatedTo = handlers[h].issued]
  <1>1. /\ t \in Tokens /\ handlers[h].issued \in Tokens
        /\ tokens[t] # Null /\ tokens[t] \in RefreshToken
    BY DEF RetireToken, At, Sound, TypeOK, CallsHaveRows
  <1>2. row \in RefreshToken /\ row.revoked
    BY <1>1 DEF RefreshToken
  <1>3. tokens' = [tokens EXCEPT ![t] = row]
    BY <1>1 DEF RetireToken, Sound, TypeOK
  <1>6. \E s \in Tokens : row = [tokens[t] EXCEPT !.revoked = TRUE, !.rotatedTo = s]
    BY <1>1
  <1> HIDE DEF row
  <1>4. /\ tokens' \in [Tokens -> RefreshToken \cup {Null}]
        /\ \A s \in Tokens : tokens[s] # Null => tokens'[s] # Null
    BY <1>1, <1>2, <1>3, RevokeRow
  <1>5. handlers' \in [Handlers -> Call \cup {Null}] /\ CallsHaveRows'
    BY <1>4, ReplyStep DEF RetireToken
  <1>7. \A k \in Handlers : handlers'[k] \in {handlers[k], Null}
    BY DEF RetireToken, Reply, Sound, TypeOK
  <1>8. Ended'
    BY <1>1, <1>2, <1>3, <1>6, <1>7, EndedRevoked
  <1> QED
    BY <1>4, <1>5, <1>8 DEF RetireToken, Sound, TypeOK, userVars

LEMMA LogoutIsSound ==
    ASSUME Sound, NEW t \in Tokens, logout(t)
    PROVE  Sound'
  <1> DEFINE row == [tokens[t] EXCEPT !.revoked = TRUE]
  <1>1. tokens[t] # Null /\ tokens[t] \in RefreshToken
    BY DEF logout, Sound, TypeOK
  <1>2. row \in RefreshToken /\ row.revoked /\ tokens' = [tokens EXCEPT ![t] = row]
    BY <1>1 DEF logout, RefreshToken
  <1>3. /\ tokens' \in [Tokens -> RefreshToken \cup {Null}]
        /\ \A s \in Tokens : tokens[s] # Null => tokens'[s] # Null
    BY <1>1, <1>2, RevokeRow
  <1>5. Ended'
    BY <1>1, <1>2, EndedRevoked DEF logout
  <1>4. CallsHaveRows'
    <2>1. \A h \in Handlers : handlers[h] # Null => handlers[h].token \in Tokens \cup {Null}
      BY DEF Sound, TypeOK, Call
    <2> QED
      BY <1>3, <2>1 DEF logout, Sound, CallsHaveRows
  <1> QED
    BY <1>3, <1>4, <1>5 DEF logout, Sound, TypeOK, userVars

\* The sweep revokes what exists when its statement is run.
LEMMA SweepIsSound ==
    ASSUME Sound, NEW h \in Handlers, revokeAllSessions(h)
    PROVE  Sound'
  <1>1. ASSUME NEW t \in Tokens, tokens[t] # Null
        PROVE  /\ tokens'[t] = [tokens[t] EXCEPT !.revoked = TRUE, !.swept = TRUE]
               /\ tokens'[t] \in RefreshToken /\ tokens'[t] # Null /\ tokens'[t].revoked
    <2>1. tokens'[t] = [tokens[t] EXCEPT !.revoked = TRUE, !.swept = TRUE]
      BY <1>1 DEF revokeAllSessions
    <2>2. tokens[t] \in RefreshToken
      BY <1>1 DEF Sound, TypeOK
    <2>3. tokens'[t] \in RefreshToken /\ tokens'[t].revoked
      BY <2>1, <2>2 DEF RefreshToken
    <2> QED
      BY <2>1, <2>3, SessionsRowAssumption
  <1>2. \A t \in Tokens : tokens[t] = Null => tokens'[t] = Null
    BY DEF revokeAllSessions
  <1>3. tokens' \in [Tokens -> RefreshToken \cup {Null}]
    <2>1. DOMAIN tokens' = Tokens /\ tokens' = [t \in Tokens |-> tokens'[t]]
      BY DEF revokeAllSessions
    <2> QED
      BY <1>1, <1>2, <2>1
  <1>4. ASSUME NEW k \in Handlers
        PROVE  /\ handlers'[k] \in Call \cup {Null}
               /\ handlers'[k] # Null =>
                      /\ handlers[k] # Null
                      /\ handlers'[k].step = handlers[k].step
                      /\ handlers'[k].token = handlers[k].token
                      /\ handlers'[k].issued = handlers[k].issued
                      /\ handlers'[k].link = handlers[k].link
                      /\ k # h /\ Exchanging(k) => handlers'[k].overtaken
    <2>1. handlers'[k] = IF k = h THEN Null
                         ELSE IF Exchanging(k) THEN [handlers[k] EXCEPT !.overtaken = TRUE]
                         ELSE handlers[k]
      BY DEF revokeAllSessions, EndSweep
    <2>2. handlers[k] \in Call \cup {Null} /\ (Exchanging(k) => handlers[k] \in Call)
      BY DEF Sound, TypeOK, Exchanging, At
    <2>3. CASE k = h
      BY <2>1, <2>3, <2>2 DEF Exchanging, At, revokeAllSessions
    <2>4. CASE k # h /\ Exchanging(k)
      <3>1. handlers'[k] = [handlers[k] EXCEPT !.overtaken = TRUE]
        BY <2>1, <2>4
      <3>2. handlers[k] \in Call /\ handlers[k] # Null
        BY <2>2, <2>4 DEF Exchanging, At
      <3> QED
        BY <3>1, <3>2 DEF Call
    <2>5. CASE k # h /\ ~Exchanging(k)
      BY <2>1, <2>2, <2>5
    <2> QED
      BY <2>3, <2>4, <2>5
  <1>5. handlers' \in [Handlers -> Call \cup {Null}]
    <2>1. handlers' = [k \in Handlers |-> handlers'[k]]
      BY DEF revokeAllSessions, EndSweep
    <2> QED
      BY <1>4, <2>1
  <1>6. CallsHaveRows'
    <2>1. \A k \in Handlers : handlers[k] # Null => handlers[k].token \in Tokens \cup {Null}
      BY DEF Sound, TypeOK, Call
    <2>2. UNCHANGED links
      BY DEF revokeAllSessions
    <2>3. \A t \in Tokens : tokens[t] # Null => tokens'[t] # Null
      BY <1>1
    <2> SUFFICES ASSUME NEW k \in Handlers, handlers'[k] # Null
                 PROVE  /\ handlers'[k].step = "clear" => handlers'[k].token = Null
                        /\ handlers'[k].step = "retire" =>
                               /\ handlers'[k].token \in Tokens
                               /\ handlers'[k].issued \in Tokens
                               /\ tokens'[handlers'[k].token] # Null
                        /\ handlers'[k].step = "store" =>
                               /\ handlers'[k].link \in ResetLinks
                               /\ links'[handlers'[k].link] # Null
                        /\ handlers'[k].token # Null => tokens'[handlers'[k].token] # Null
      BY DEF CallsHaveRows
    <2>4. /\ handlers[k] # Null
          /\ handlers'[k].step = handlers[k].step /\ handlers'[k].token = handlers[k].token
          /\ handlers'[k].issued = handlers[k].issued /\ handlers'[k].link = handlers[k].link
      BY <1>4
    <2> QED
      BY <2>1, <2>2, <2>3, <2>4 DEF Sound, CallsHaveRows
  <1>7. \A t \in Tokens : tokens'[t] # Null =>
            /\ tokens[t] # Null /\ tokens'[t].swept /\ tokens'[t].revoked
            /\ tokens'[t].parent = tokens[t].parent
            /\ tokens[t].parent \in Tokens \cup {Null}
    <2> SUFFICES ASSUME NEW t \in Tokens, tokens'[t] # Null
                 PROVE  /\ tokens[t] # Null /\ tokens'[t].swept /\ tokens'[t].revoked
                        /\ tokens'[t].parent = tokens[t].parent
                        /\ tokens[t].parent \in Tokens \cup {Null}
      OBVIOUS
    <2>1. tokens[t] # Null
      BY <1>2
    <2>2. tokens[t] \in RefreshToken
      BY <2>1 DEF Sound, TypeOK
    <2> QED
      BY <1>1, <2>1, <2>2 DEF RefreshToken
  <1>8. ParentsHaveRows'
    BY <1>1, <1>7 DEF Sound, Ended, ParentsHaveRows
  <1>9. SweepEndsSessions'
    BY <1>7 DEF SweepEndsSessions
  <1>10. SweepsSeen'
    <2>1. ASSUME NEW k \in Handlers, Exchanging(k)'
          PROVE  handlers'[k].overtaken
      <3>1. handlers'[k] # Null /\ Exchanging(k)
        BY <1>4, <2>1 DEF Exchanging, At
      <3>2. k # h
        BY <3>1 DEF revokeAllSessions, EndSweep
      <3> QED
        BY <1>4, <3>1, <3>2
    <2> QED
      BY <1>7, <2>1 DEF SweepsSeen
  <1> QED
    BY <1>3, <1>5, <1>6, <1>8, <1>9, <1>10 DEF revokeAllSessions, Sound, TypeOK, userVars, Ended

LEMMA ResetIsSound ==
    ASSUME Sound,
           \/ \E l \in ResetLinks : requestPasswordReset(l)
           \/ \E h \in Handlers, l \in ResetLinks : resetPassword(h, l)
           \/ \E h \in Handlers : StorePassword(h)
    PROVE  Sound'
  <1>1. ASSUME NEW l \in ResetLinks, requestPasswordReset(l) PROVE Sound'
    <2> DEFINE link == [used |-> FALSE, expiresAt |-> now + LinkLifetime]
    <2>1. link \in ResetLink /\ link # Null
      <3>1. link \in ResetLink
        BY SessionsAssumption DEF ResetLink, Sound, TypeOK
      <3> QED
        BY <3>1, SessionsRowAssumption
    <2>2. links' = [links EXCEPT ![l] = link]
      BY <1>1 DEF requestPasswordReset
    <2> HIDE DEF link
    <2>3. /\ links' \in [ResetLinks -> ResetLink \cup {Null}]
          /\ \A m \in ResetLinks : links[m] # Null => links'[m] # Null
      BY <2>1, <2>2 DEF Sound, TypeOK
    <2>4. CallsHaveRows'
      BY <1>1, <2>3 DEF requestPasswordReset, Sound, CallsHaveRows
    <2>5. Ended'
      BY <1>1, EndedStutter DEF requestPasswordReset
    <2> QED
      BY <1>1, <2>3, <2>4, <2>5 DEF requestPasswordReset, Sound, TypeOK, userVars
  <1>2. ASSUME NEW h \in Handlers, NEW l \in ResetLinks, resetPassword(h, l) PROVE Sound'
    <2> DEFINE call == [Idle EXCEPT !.step = "store", !.link = l]
    <2>1. call \in Call /\ call.step = "store" /\ call.link = l /\ call.token = Null
      BY DEF Idle, Call
    <2>2. Begin(h, call) /\ links[l] # Null
          /\ UNCHANGED <<tokens, links, userVars, now, attempts>>
      BY <1>2 DEF resetPassword
    <2> HIDE DEF call
    <2>3. handlers' \in [Handlers -> Call \cup {Null}] /\ CallsHaveRows'
      BY <2>1, <2>2, BeginStep
    <2>4. Ended'
      BY <2>1, <2>2, EndedKept DEF Begin
    <2> QED
      BY <2>2, <2>3, <2>4 DEF Sound, TypeOK, userVars
  <1>3. ASSUME NEW h \in Handlers, StorePassword(h) PROVE Sound'
    <2> DEFINE l == handlers[h].link
               link == [links[l] EXCEPT !.used = TRUE]
    <2>1. l \in ResetLinks /\ links[l] \in ResetLink
      BY <1>3 DEF StorePassword, At, Sound, TypeOK, CallsHaveRows
    <2>2. link \in ResetLink /\ link # Null
      <3>1. link \in ResetLink
        BY <2>1 DEF ResetLink
      <3> QED
        BY <3>1, SessionsRowAssumption
    <2>3. links' = [links EXCEPT ![l] = link]
      BY <1>3 DEF StorePassword
    <2> HIDE DEF link
    <2>4. /\ links' \in [ResetLinks -> ResetLink \cup {Null}]
          /\ \A m \in ResetLinks : links[m] # Null => links'[m] # Null
      BY <2>1, <2>2, <2>3 DEF Sound, TypeOK
    <2>5. handlers' \in [Handlers -> Call \cup {Null}] /\ CallsHaveRows'
      BY <1>3, <2>4, ProceedStep DEF StorePassword, At
    <2> DEFINE call == [handlers[h] EXCEPT !.step = "sweep"]
    <2>6. call \in Call /\ call.step = "sweep"
      BY <1>3 DEF StorePassword, At, Sound, TypeOK, Call
    <2>7. Ended'
      <3> HIDE DEF call
      <3>1. handlers' = [handlers EXCEPT ![h] = call]
        BY <1>3 DEF StorePassword, Proceed, call
      <3> QED
        BY <1>3, <2>6, <3>1, EndedKept DEF StorePassword
    <2> QED
      BY <1>3, <2>4, <2>5, <2>7 DEF StorePassword, Sound, TypeOK
  <1> QED
    BY <1>1, <1>2, <1>3

LEMMA NextIsSound == Sound /\ [Next]_vars => Sound'
  <1> SUFFICES ASSUME Sound, [Next]_vars PROVE Sound'
    OBVIOUS
  <1>1. ASSUME NEW h \in Handlers,
               \/ \E passwordMatches \in BOOLEAN : login(h, passwordMatches)
               \/ registerFailedAttempt(h)
               \/ ClearFailures(h)
        PROVE  Sound'
    BY <1>1, LoginIsSound
  <1>2. ASSUME NEW h \in Handlers, NEW t \in Tokens, refresh(h, t) \/ IssueToken(h, t)
        PROVE  Sound'
    BY <1>2, RefreshIsSound, IssueIsSound
  <1>3. ASSUME NEW h \in Handlers, RetireToken(h) \/ revokeAllSessions(h) PROVE Sound'
    BY <1>3, RetireIsSound, SweepIsSound
  <1>4. ASSUME NEW t \in Tokens, logout(t) PROVE Sound'
    BY <1>4, LogoutIsSound
  <1>5. CASE \/ \E l \in ResetLinks : requestPasswordReset(l)
             \/ \E h \in Handlers, l \in ResetLinks : resetPassword(h, l)
             \/ \E h \in Handlers : StorePassword(h)
    BY <1>5, ResetIsSound
  <1>6. ASSUME NEW h \in Handlers, RequestFails(h) PROVE Sound'
    <2>1. handlers' \in [Handlers -> Call \cup {Null}] /\ CallsHaveRows'
      BY <1>6, ReplyStep DEF RequestFails
    <2>2. Ended'
      BY <1>6, EndedReply DEF RequestFails
    <2> QED
      BY <1>6, <2>1, <2>2 DEF RequestFails, Sound, TypeOK, userVars
  <1>7. CASE Tick \/ UNCHANGED vars
    BY <1>7, EndedStutter DEF Tick, vars, userVars, Sound, TypeOK, CallsHaveRows
  <1> QED
    BY <1>1, <1>2, <1>3, <1>4, <1>5, <1>6, <1>7 DEF Next

\* AuthService.revokeAllSessions and refresh: once a reused token or a new
\* password has ended the user's sessions, none of their tokens is exchanged for
\* a session, except by a refresh that had read its token before, however many
\* refreshes, logouts and sweeps are half done.
THEOREM EndedSessionsStayEnded == Spec => []SweepEndsSessions
  <1>1. Sound => SweepEndsSessions
    BY DEF Sound, Ended
  <1> QED
    BY <1>1, InitIsSound, NextIsSound, PTL DEF Spec
=============================================================================
