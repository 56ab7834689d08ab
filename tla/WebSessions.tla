------------------------------ MODULE WebSessions ------------------------------
(***************************************************************************)
(* Sessions of browser sharing (audio-core, web_gateway.rs): each HTTP     *)
(* request has a thread of its own.  A login first asks whether its        *)
(* address may try, then verifies the password, which takes long, and      *)
(* then counts a failure or opens a session, each under a lock taken anew. *)
(*                                                                         *)
(* A token is named by the request whose login created it.  Time passes in *)
(* ticks.                                                                  *)
(***************************************************************************)
EXTENDS Integers, Functions

CONSTANTS
  Requests,         \* HTTP requests
  Addresses,        \* where they come from
  MaxLoginFailures, \* MAX_LOGIN_FAILURES: 5
  Lockout,          \* LOGIN_LOCKOUT_DURATION: 30 s
  SessionDuration,  \* WebGatewayConfig.session_duration: 8 h
  NotBlocked

ASSUME SessionsAssumption ==
  /\ MaxLoginFailures \in Nat \ {0}
  /\ Lockout \in Nat \ {0} /\ SessionDuration \in Nat \ {0}
  /\ NotBlocked \notin Nat

VARIABLES
  protected,  \* RuntimeAccess::PasswordProtected rather than Open
  requestPc,  \* "away", "reading", "verifying", "opening", "answered"
  from,       \* the address of a request
  answer,     \* what it was answered
  sessions,   \* GatewayState.sessions: token -> ticks until it expires
  attempts,   \* GatewayState.login_attempts: address -> [failures, blocked]
  failed,     \* wrong passwords counted since the address last started anew
  closed      \* tokens logged out

sessionVars == <<protected, requestPc, from, answer, sessions, attempts, failed, closed>>

NotYet == "none"
Answered(r, code) ==
  /\ requestPc' = [requestPc EXCEPT ![r] = "answered"]
  /\ answer' = [answer EXCEPT ![r] = code]

-----------------------------------------------------------------------------
(* GatewayState.                                                           *)

(* is_session_valid drops what expired, then looks the token up.           *)
Alive == {t \in DOMAIN sessions : sessions[t] > 0}
IsSessionValid(token) == ~ protected \/ token \in Alive
Looked == sessions' = IF protected THEN Restrict(sessions, Alive) ELSE sessions

Attempt(a) == IF a \in DOMAIN attempts THEN attempts[a] ELSE [failures |-> 0, blocked |-> NotBlocked]
WithAttempt(a, attempt) ==
  [b \in DOMAIN attempts \cup {a} |-> IF b = a THEN attempt ELSE attempts[b]]

IsBlocked(a) == Attempt(a).blocked # NotBlocked /\ Attempt(a).blocked > 0

(* A block that is over starts the count anew.                             *)
(* Faulty variant: the count goes on.                                      *)
Unblocked_KeepsCount(a) ==
  IF Attempt(a).blocked = 0 THEN WithAttempt(a, [Attempt(a) EXCEPT !.blocked = NotBlocked])
  ELSE attempts

Unblocked(a) ==
  IF Attempt(a).blocked = 0 THEN WithAttempt(a, [failures |-> 0, blocked |-> NotBlocked])
  ELSE attempts

(* record_login_failure                                                    *)
Failed(a) ==
  LET failures == Attempt(a).failures + 1
  IN  WithAttempt(a, [failures |-> failures,
                      blocked  |-> IF failures >= MaxLoginFailures THEN Lockout
                                   ELSE Attempt(a).blocked])

-----------------------------------------------------------------------------
(* handle_http_request.                                                    *)

(* The threads are not joined: a request may outlive the gateway's stop.   *)
Arrive(r) ==
  /\ requestPc[r] = "away"
  /\ \E a \in Addresses : from' = [from EXCEPT ![r] = a]
  /\ requestPc' = [requestPc EXCEPT ![r] = "reading"]
  /\ UNCHANGED <<protected, answer, sessions, attempts, failed, closed>>

(* Invalid, too long, too slow, or a page that needs no session.           *)
Plain(r) ==
  /\ requestPc[r] = "reading"
  /\ \E code \in {"bad request", "page", "not found"} : Answered(r, code)
  /\ UNCHANGED <<protected, from, sessions, attempts, failed, closed>>

(* handle_authentication_status, handle_stream_list                        *)
Query(r, token) ==
  /\ requestPc[r] = "reading"
  /\ Answered(r, IF IsSessionValid(token) THEN "listed" ELSE "unauthorized")
  /\ Looked
  /\ UNCHANGED <<protected, from, attempts, failed, closed>>

(* handle_logout                                                           *)
Logout(r, token) ==
  /\ requestPc[r] = "reading"
  /\ Answered(r, "logged out")
  /\ sessions' = Restrict(sessions, DOMAIN sessions \ {token})
  /\ closed' = closed \cup {token}
  /\ UNCHANGED <<protected, from, attempts, failed>>

(* handle_login, until the password is to be verified.                     *)
LoginOpen(r) ==
  /\ requestPc[r] = "reading" /\ ~ protected
  /\ Answered(r, "authenticated")
  /\ UNCHANGED <<protected, from, sessions, attempts, failed, closed>>

LoginBlocked(r) ==
  /\ requestPc[r] = "reading" /\ protected /\ IsBlocked(from[r])
  /\ Answered(r, "too many attempts")
  /\ UNCHANGED <<protected, from, sessions, attempts, failed, closed>>

LoginStarts(r) ==
  /\ requestPc[r] = "reading" /\ protected /\ ~ IsBlocked(from[r])
  /\ attempts' = Unblocked(from[r])
  /\ failed' = IF Attempt(from[r]).blocked = 0 THEN [failed EXCEPT ![from[r]] = 0] ELSE failed
  /\ \/ requestPc' = [requestPc EXCEPT ![r] = "verifying"] /\ UNCHANGED answer
     \/ Answered(r, "bad request")
  /\ UNCHANGED <<protected, from, sessions, closed>>

LoginFails(r) ==
  /\ requestPc[r] = "verifying"
  /\ attempts' = Failed(from[r])
  /\ failed' = [failed EXCEPT ![from[r]] = @ + 1]
  /\ Answered(r, "incorrect password")
  /\ UNCHANGED <<protected, from, sessions, closed>>

(* clear_login_failures, then, with another lock, create_session           *)
LoginVerified(r) ==
  /\ requestPc[r] = "verifying"
  /\ attempts' = Restrict(attempts, DOMAIN attempts \ {from[r]})
  /\ failed' = [failed EXCEPT ![from[r]] = 0]
  /\ requestPc' = [requestPc EXCEPT ![r] = "opening"]
  /\ UNCHANGED <<protected, from, answer, sessions, closed>>

LoginOpens(r) ==
  /\ requestPc[r] = "opening"
  /\ sessions' = [t \in DOMAIN sessions \cup {r} |->
                    IF t = r THEN SessionDuration ELSE sessions[t]]
  /\ Answered(r, "authenticated")
  /\ UNCHANGED <<protected, from, attempts, failed, closed>>

(* The end of run_web_gateway: clear_sessions.                             *)
ClearSessions ==
  /\ sessions' = << >>
  /\ UNCHANGED <<protected, requestPc, from, answer, attempts, failed, closed>>

Earlier(t) == IF t > 0 THEN t - 1 ELSE 0

Tick ==
  /\ sessions' = [t \in DOMAIN sessions |-> Earlier(sessions[t])]
  /\ attempts' = [a \in DOMAIN attempts |->
       IF attempts[a].blocked = NotBlocked THEN attempts[a]
       ELSE [attempts[a] EXCEPT !.blocked = Earlier(@)]]
  /\ UNCHANGED <<protected, requestPc, from, answer, failed, closed>>

SessionsInit ==
  /\ protected \in BOOLEAN
  /\ requestPc = [r \in Requests |-> "away"]
  /\ from \in [Requests -> Addresses]
  /\ answer = [r \in Requests |-> NotYet]
  /\ sessions = << >> /\ attempts = << >>
  /\ failed = [a \in Addresses |-> 0]
  /\ closed = {}

(* A browser sends back the cookie it was given.                           *)
Given == {t \in Requests : answer[t] = "authenticated"}

SessionsNext ==
  \/ \E r \in Requests :
       \/ Arrive(r) \/ Plain(r)
       \/ \E token \in Given : Query(r, token) \/ Logout(r, token)
       \/ Query(r, r)     \* without a cookie
       \/ LoginOpen(r) \/ LoginBlocked(r) \/ LoginStarts(r)
       \/ LoginFails(r) \/ LoginVerified(r) \/ LoginOpens(r)
  \/ ClearSessions \/ Tick

-----------------------------------------------------------------------------
(* Logins of one address interleave freely, yet every failure is counted,  *)
(* an address is blocked exactly while its count says so, and a block that *)
(* is over leaves a whole new set of attempts (web_gateway.rs 208-248).    *)
FailuresCounted ==
  \A a \in Addresses :
    /\ Attempt(a).failures = failed[a]
    /\ Attempt(a).blocked # NotBlocked <=> failed[a] >= MaxLoginFailures

(* A session is one that a login opened and nobody closed.                 *)
SessionsOpened ==
  \A t \in DOMAIN sessions : protected /\ answer[t] = "authenticated" /\ t \notin closed

LoginsKept == FailuresCounted /\ SessionsOpened

=============================================================================
