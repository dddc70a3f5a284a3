----------------------------- MODULE AuthManager -----------------------------
(***************************************************************************)
(* Authentication of the MCP server (wdk-service/src/auth.js), with the    *)
(* routes /auth/token and /auth/revoke of mcpServer.js that change its     *)
(* state: the failed attempts of an address, the lock-out that follows     *)
(* MAX_FAILED_ATTEMPTS of them, and the sessions that stand for an API     *)
(* key.  All of AuthManager is synchronous; the revoke route awaits the    *)
(* body of its request between the two calls it makes.                     *)
(*                                                                         *)
(* A token is a key, a session, or neither: what is missing, malformed or  *)
(* wrongly signed is one and the same failure.  Keys are those that        *)
(* createAuthFromEnv registered.                                           *)
(***************************************************************************)
EXTENDS Integers, Sequences, FiniteSets

CONSTANTS
    Ips,            \* remote addresses
    Keys,           \* registered API keys, one client each
    RevokeRequests, \* /auth/revoke requests that may be under way
    MaxTime,        \* bound: the last clock reading explored
    MaxSessions,    \* bound: sessions created
    MAX_FAILED_ATTEMPTS, LOCKOUT_DURATION, SESSION_TTL

ASSUME AuthAssumption ==
    /\ MaxTime \in Nat /\ MaxSessions \in Nat
    /\ MAX_FAILED_ATTEMPTS \in Nat \ {0}
    /\ LOCKOUT_DURATION \in Nat \ {0} /\ SESSION_TTL \in Nat \ {0}

VARIABLES
    now,
    failedAttempts, \* by address; a count of 0 stands for no record
    session,        \* the sessions created, and whether they are still there
    revoking,       \* revoke requests authenticated, their body awaited
    tries           \* history: when each address failed since it last succeeded

vars == <<now, failedAttempts, session, revoking, tries>>

Never == -1
NoRecord == [count |-> 0, firstAttempt |-> 0, lockedUntil |-> Never]

Attempts == [count : 0..MAX_FAILED_ATTEMPTS, firstAttempt : Nat,
             lockedUntil : Nat \cup {Never}]
Sessions == [client : Keys, expiresAt : Nat, present : BOOLEAN]

SessionIds == 1..MaxSessions

Init ==
    /\ now = 0
    /\ failedAttempts = [ip \in Ips |-> NoRecord]
    /\ session = <<>>
    /\ revoking = {}
    /\ tries = [ip \in Ips |-> <<>>]

Tick ==
    /\ now < MaxTime
    /\ now' = now + 1
    /\ UNCHANGED <<failedAttempts, session, revoking, tries>>

-----------------------------------------------------------------------------
(* Attempts.                                                                *)

IsLockedOut(ip) ==
    failedAttempts[ip].lockedUntil # Never /\ now < failedAttempts[ip].lockedUntil

\* The record of an address that is not locked out: isLockedOut drops it when
\* its lock-out is over.
AttemptsOf(ip) ==
    IF failedAttempts[ip].lockedUntil # Never THEN NoRecord ELSE failedAttempts[ip]

\* Variant: the attempt that reaches the limit does not lock.
RecordFailureLate(ip) ==
    LET old == AttemptsOf(ip)
        count == old.count + 1
    IN  /\ failedAttempts' = [failedAttempts EXCEPT ![ip] =
              [count |-> count,
               firstAttempt |-> IF old.count = 0 THEN now ELSE old.firstAttempt,
               lockedUntil |-> IF count > MAX_FAILED_ATTEMPTS
                               THEN now + LOCKOUT_DURATION ELSE Never]]
        /\ tries' = [tries EXCEPT ![ip] = Append(@, now)]

RecordFailure(ip) ==
    LET old == AttemptsOf(ip)
        count == old.count + 1
    IN  /\ failedAttempts' = [failedAttempts EXCEPT ![ip] =
              [count |-> count,
               firstAttempt |-> IF old.count = 0 THEN now ELSE old.firstAttempt,
               lockedUntil |-> IF count >= MAX_FAILED_ATTEMPTS
                               THEN now + LOCKOUT_DURATION ELSE Never]]
        /\ tries' = [tries EXCEPT ![ip] = Append(@, now)]

ForgetFailures(ip) ==
    /\ failedAttempts' = [failedAttempts EXCEPT ![ip] = NoRecord]
    /\ tries' = [tries EXCEPT ![ip] = <<>>]

\* A token that is neither a key nor a session that is there.
BadToken(ip) ==
    /\ ~IsLockedOut(ip)
    /\ RecordFailure(ip)
    /\ UNCHANGED <<now, session, revoking>>

Expired(s) == now > session[s].expiresAt

\* A session that has run out is removed; the attempt is not held against the
\* address.
ExpiredToken(ip, s) ==
    /\ ~IsLockedOut(ip)
    /\ session[s].present /\ Expired(s)
    /\ session' = [session EXCEPT ![s].present = FALSE]
    /\ failedAttempts' = [failedAttempts EXCEPT ![ip] = AttemptsOf(ip)]
    /\ UNCHANGED <<now, revoking, tries>>

\* The clients a request from ip can be of: one for each key, and one for each
\* session that is good.
Clients == Keys \cup {session[s].client : s \in
              {x \in DOMAIN session : session[x].present /\ ~Expired(x)}}

Authenticated(ip) ==
    /\ ~IsLockedOut(ip)
    /\ ForgetFailures(ip)

-----------------------------------------------------------------------------
(* Sessions.                                                                *)

\* Any protected route: only the attempts change.
Request(ip) ==
    /\ Authenticated(ip)
    /\ UNCHANGED <<now, session, revoking>>

\* /auth/token: a session serves as well as a key.
CreateSession(ip, client) ==
    /\ Len(session) < MaxSessions
    /\ Authenticated(ip)
    /\ client \in Clients
    /\ session' = Append(session,
          [client |-> client, expiresAt |-> now + SESSION_TTL, present |-> TRUE])
    /\ UNCHANGED <<now, revoking>>

\* /auth/revoke up to the body it awaits.
RevokeRequest(ip, r) ==
    /\ r \notin revoking
    /\ Authenticated(ip)
    /\ revoking' = revoking \cup {r}
    /\ UNCHANGED <<now, session>>

\* The body names any session: its signature is not looked at here.
RevokeSession(r, s) ==
    /\ r \in revoking
    /\ revoking' = revoking \ {r}
    /\ session' = [session EXCEPT ![s].present = FALSE]
    /\ UNCHANGED <<now, failedAttempts, tries>>

\* The body could not be read, or names no session.
RevokeNothing(r) ==
    /\ r \in revoking
    /\ revoking' = revoking \ {r}
    /\ UNCHANGED <<now, failedAttempts, session, tries>>

-----------------------------------------------------------------------------

\* The attempts that the timer forgets: a lock-out that is over, and whatever
\* began two lock-outs ago, locked or not.
Stale(ip) ==
    \/ failedAttempts[ip].lockedUntil # Never /\ now > failedAttempts[ip].lockedUntil
    \/ now - failedAttempts[ip].firstAttempt > 2 * LOCKOUT_DURATION

\* Variant: sessions are removed only when they are presented.
CleanupAttempts ==
    /\ failedAttempts' = [ip \in Ips |->
          IF Stale(ip) THEN NoRecord ELSE failedAttempts[ip]]
    /\ UNCHANGED <<now, session, revoking, tries>>

Cleanup ==
    /\ session' = [s \in DOMAIN session |->
          IF Expired(s) THEN [session[s] EXCEPT !.present = FALSE] ELSE session[s]]
    /\ failedAttempts' = [ip \in Ips |->
          IF Stale(ip) THEN NoRecord ELSE failedAttempts[ip]]
    /\ UNCHANGED <<now, revoking, tries>>

Next ==
    \/ Tick \/ Cleanup
    \/ \E ip \in Ips :
          \/ BadToken(ip) \/ Request(ip)
          \/ \E s \in DOMAIN session : ExpiredToken(ip, s)
          \/ \E client \in Keys : CreateSession(ip, client)
          \/ \E r \in RevokeRequests : RevokeRequest(ip, r)
    \/ \E r \in RevokeRequests :
          RevokeNothing(r) \/ \E s \in DOMAIN session : RevokeSession(r, s)

\* Time passes, and the timer of the constructor fires again and again.
Spec == Init /\ [][Next]_vars /\ WF_vars(Tick) /\ WF_vars(Cleanup)

-----------------------------------------------------------------------------
(* Properties.                                                              *)

\* The variables have their types.
TypeOK ==
    /\ now \in 0..MaxTime
    /\ failedAttempts \in [Ips -> Attempts]
    /\ session \in Seq(Sessions) /\ Len(session) <= MaxSessions
    /\ revoking \subseteq RevokeRequests
    /\ tries \in [Ips -> Seq(0..MaxTime)]

\* However lock-outs, their end, the timer and the clock fall together, an
\* address that does not succeed is told "wrong" fewer than twice the limit
\* within the length of a lock-out (auth.js:182-214).  The limit itself is not
\* the bound: the timer may lift a lock-out whose first attempt is old.
TriesBounded ==
    \A ip \in Ips :
       \A i \in DOMAIN tries[ip] :
          Cardinality({j \in DOMAIN tries[ip] :
             tries[ip][j] \in tries[ip][i]..(tries[ip][i] + LOCKOUT_DURATION - 1)})
                < 2 * MAX_FAILED_ATTEMPTS

\* No session outlives its term: one that runs out is removed, whether or not
\* anyone presents it again (auth.js:165-168, 205-209).
SessionsEnd ==
    \A s \in SessionIds :
       (s \in DOMAIN session /\ session[s].expiresAt < MaxTime)
          ~> (s \in DOMAIN session /\ ~session[s].present)

=============================================================================
