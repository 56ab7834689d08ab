------------------------------- MODULE Web_proofs -------------------------------
(***************************************************************************)
(* Browser sharing, proved for any number of browsers, requests, receivers *)
(* and packets.                                                            *)
(*                                                                         *)
(* The gateway: every way a browser's thread can take gives its slot back  *)
(* once, so the count is that of the threads (SlotsCounted).  The logins:  *)
(* what an address failed is what the attempts say (FailuresCounted), and  *)
(* a request that may still open a session has not been answered, so its   *)
(* token cannot have been closed (Unanswered).  The relay: the next number *)
(* is that of a place (ExpectedPlace), which turns the arithmetic of       *)
(* numbers into one of places, and places last as long as the lengths of   *)
(* their packets allow (Lasting).  The publishing browser: who has been    *)
(* sent anything is sent every packet (Listens).                           *)
(***************************************************************************)
EXTENDS MCWeb, FiniteSetTheorems, SequenceTheorems, WellFoundedInduction, TLAPS

(* The gateway.                                                            *)

ClientPcs == Outside \cup
  {"handshake", "publishing", "selecting", "reading", "answering", "relaying", "receiving",
   "sending"}

GatewayIInv ==
  /\ clientPc \in [Browsers -> ClientPcs]
  /\ IsFiniteSet(Threads)
  /\ SlotsCounted

(* A thread that goes on keeps its slot, as does a browser that has none.  *)
LEMMA SlotsStay ==
  ASSUME GatewayIInv, NEW c \in Browsers, NEW pc \in ClientPcs, Goes(c, pc),
         clientPc[c] \in Outside <=> pc \in Outside, activeClients' = activeClients
  PROVE  GatewayIInv'
  <1>1. clientPc' \in [Browsers -> ClientPcs]
    BY DEF GatewayIInv, Goes
  <1>2. Threads' = Threads
    BY DEF GatewayIInv, Goes, Threads
  <1> QED BY <1>1, <1>2 DEF GatewayIInv, SlotsCounted

LEMMA NothingGoes ==
  ASSUME GatewayIInv, clientPc' = clientPc, activeClients' = activeClients
  PROVE  GatewayIInv'
  BY DEF GatewayIInv, Threads, SlotsCounted

LEMMA SlotReturned ==
  ASSUME GatewayIInv, NEW c \in Browsers, clientPc[c] \notin Outside, Ends(c)
  PROVE  GatewayIInv'
  <1>1. clientPc' \in [Browsers -> ClientPcs]
    BY DEF GatewayIInv, Ends, Goes, ClientPcs, Outside
  <1>2. c \in Threads /\ Threads' = Threads \ {c}
    BY DEF GatewayIInv, Ends, Goes, Threads, Outside
  <1>3. /\ IsFiniteSet(Threads') /\ Cardinality(Threads') = Cardinality(Threads) - 1
        /\ Cardinality(Threads) \in Nat
    BY <1>2, FS_RemoveElement, FS_CardinalityType DEF GatewayIInv
  <1>4. activeClients' = activeClients - 1
    BY DEF Ends
  <1> QED BY <1>1, <1>3, <1>4, GatewayAssumption DEF GatewayIInv, SlotsCounted

LEMMA SlotTaken ==
  ASSUME GatewayIInv, NEW c \in Browsers, Admit(c)
  PROVE  GatewayIInv'
  <1>1. clientPc[c] = "connected" /\ clientPc' = [clientPc EXCEPT ![c] = "handshake"]
    BY DEF Admit
  <1>2. clientPc' \in [Browsers -> ClientPcs]
    BY <1>1 DEF GatewayIInv, ClientPcs
  <1>3. c \notin Threads /\ Threads' = Threads \cup {c}
    BY <1>1 DEF GatewayIInv, Threads, Outside
  <1>4. /\ IsFiniteSet(Threads') /\ Cardinality(Threads') = Cardinality(Threads) + 1
        /\ Cardinality(Threads) \in Nat
    BY <1>3, FS_AddElement, FS_CardinalityType DEF GatewayIInv
  <1>5. activeClients' = activeClients + 1 /\ activeClients < MaxClients
    BY DEF Admit, SlotFree
  <1> QED BY <1>2, <1>4, <1>5, GatewayAssumption DEF GatewayIInv, SlotsCounted

LEMMA ClientTurnSlots ==
  ASSUME GatewayIInv, NEW c \in Browsers,
         ClientTurn(c) \/ Select(c) \/ Answer(c) \/ HearAudio(c) \/ ReceiveFails(c)
  PROVE  GatewayIInv'
  <1>1. clientPc[c] \in ClientPcs \ Outside
    <2>1. clientPc[c] \in ClientPcs
      BY DEF GatewayIInv
    <2>2. clientPc[c] \notin Outside
      BY DEF Outside, ClientTurn, Handshake, SelectLooks, Select, Answer, AnswerReturns,
             SelectEnds, RelayLooks, HearNothing, SendReturns, PublishEnds, HearAudio,
             ReceiveFails
    <2> QED BY <2>1, <2>2
  <1>2. \/ Ends(c)
        \/ /\ activeClients' = activeClients
           /\ \E pc \in ClientPcs \ Outside : Goes(c, pc)
    <2>1. {"publishing", "selecting", "reading", "answering", "relaying", "receiving", "sending"}
            \subseteq ClientPcs \ Outside
      BY DEF ClientPcs, Outside
    <2>2. CASE Handshake(c)
      BY <2>1, <2>2 DEF Handshake
    <2>3. CASE Select(c) \/ Answer(c) \/ SelectEnds(c) \/ HearAudio(c) \/ ReceiveFails(c)
                 \/ PublishEnds(c)
      BY <2>1, <2>3 DEF Select, Answer, SelectEnds, HearAudio, ReceiveFails, PublishEnds
    <2>4. CASE SelectLooks(c) \/ RelayLooks(c)
      BY <2>1, <2>4 DEF SelectLooks, RelayLooks
    <2>5. CASE HearNothing(c)
      BY <2>1, <2>5 DEF HearNothing
    <2>6. CASE SendReturns(c) \/ AnswerReturns(c)
      BY <2>1, <2>6 DEF SendReturns, AnswerReturns, Sent
    <2> QED BY <2>2, <2>3, <2>4, <2>5, <2>6 DEF ClientTurn
  <1> QED BY <1>1, <1>2, SlotReturned, SlotsStay

LEMMA GatewaySlots ==
  ASSUME GatewayIInv, GatewayNext
  PROVE  GatewayIInv'
  <1>1. CASE HttpTurn \/ Stop \/ AcceptLooks \/ AcceptIdles \/ AcceptEnds
    BY <1>1, NothingGoes DEF HttpTurn, Stop, AcceptLooks, AcceptIdles, AcceptEnds
  <1>2. ASSUME NEW c \in Browsers, Reject(c) \/ Rejected(c) \/ Connect(c)
        PROVE  GatewayIInv'
    <2>1. /\ {"connected", "rejecting", "ended"} \subseteq ClientPcs
          /\ {"away", "connected", "rejecting", "ended"} = Outside
      BY DEF ClientPcs, Outside
    <2>2. CASE Reject(c) \/ Rejected(c)
      BY <2>1, <2>2, SlotsStay DEF Reject, Rejected, Goes
    <2>3. CASE Connect(c)
      BY <2>1, <2>3, SlotsStay DEF Connect
    <2> QED BY <1>2, <2>2, <2>3
  <1>3. ASSUME NEW c \in Browsers,
               \/ Renew(c) \/ BrowserTurns(c, {"reads"}, "stalls")
               \/ BrowserTurns(c, {"stalls"}, "reads")
               \/ BrowserTurns(c, {"reads", "stalls"}, "left")
        PROVE  GatewayIInv'
    BY <1>3, NothingGoes DEF Renew, BrowserTurns
  <1> QED BY <1>1, <1>2, <1>3, SlotTaken, ClientTurnSlots DEF GatewayNext, AcceptTurn

-----------------------------------------------------------------------------
(* The logins.                                                             *)

Answers == {NotYet, "bad request", "page", "not found", "listed", "unauthorized", "logged out",
            "authenticated", "too many attempts", "incorrect password"}

Attempts == [failures : Nat, blocked : Nat \cup {NotBlocked}]

SessionTypes ==
  /\ requestPc \in [Requests -> {"away", "reading", "verifying", "opening", "answered"}]
  /\ from \in [Requests -> Addresses]
  /\ answer \in [Requests -> Answers]
  /\ failed \in [Addresses -> Nat]
  /\ DOMAIN sessions \subseteq Requests
  /\ \A a \in DOMAIN attempts : attempts[a] \in Attempts
  /\ closed \subseteq Requests

(* A login that is under way has not been answered, and whoever closed a   *)
(* session had been.                                                       *)
Unanswered ==
  /\ \A r \in Requests : requestPc[r] # "answered" => answer[r] = NotYet
  /\ \A r \in Requests : requestPc[r] \in {"verifying", "opening"} => protected
  /\ \A t \in closed : answer[t] = "authenticated"

SessionsIInv == SessionTypes /\ Unanswered /\ LoginsKept

LEMMA AttemptType ==
  ASSUME SessionTypes, NEW a
  PROVE  Attempt(a) \in Attempts
  BY DEF SessionTypes, Attempt, Attempts

(* What is entered for an address is what it has from then on, and the     *)
(* others keep theirs.                                                     *)
LEMMA WithAttemptFacts ==
  ASSUME SessionTypes, NEW a, NEW attempt \in Attempts, attempts' = WithAttempt(a, attempt)
  PROVE  /\ \A b \in DOMAIN attempts' : attempts'[b] \in Attempts
         /\ \A b : Attempt(b)' = IF b = a THEN attempt ELSE Attempt(b)
  <1>1. /\ DOMAIN attempts' = DOMAIN attempts \cup {a}
        /\ \A b \in DOMAIN attempts \cup {a} : attempts'[b] = IF b = a THEN attempt ELSE attempts[b]
    BY DEF WithAttempt
  <1>2. \A b \in DOMAIN attempts' : attempts'[b] \in Attempts
    BY <1>1 DEF SessionTypes
  <1>3. ASSUME NEW b
        PROVE  Attempt(b)' = IF b = a THEN attempt ELSE Attempt(b)
    BY <1>1 DEF Attempt
  <1> QED BY <1>2, <1>3

(* An answer closes no session and opens none but that of its request.     *)
LEMMA AnsweredSessions ==
  ASSUME SessionsIInv, NEW r \in Requests, requestPc[r] # "answered",
         NEW code \in Answers, Answered(r, code),
         DOMAIN sessions' \subseteq DOMAIN sessions, \A t \in DOMAIN sessions' : t \notin closed',
         \A t \in closed' : t \in closed \/ answer[t] = "authenticated",
         protected' = protected
  PROVE  /\ SessionsOpened' /\ Unanswered'
         /\ requestPc' \in [Requests -> {"away", "reading", "verifying", "opening", "answered"}]
         /\ answer' \in [Requests -> Answers]
  <1>1. SessionTypes /\ Unanswered /\ SessionsOpened
    BY DEF SessionsIInv, LoginsKept
  <1>2. /\ requestPc' = [requestPc EXCEPT ![r] = "answered"]
        /\ answer' = [answer EXCEPT ![r] = code]
    BY DEF Answered
  <1>3. /\ requestPc' \in [Requests -> {"away", "reading", "verifying", "opening", "answered"}]
        /\ answer' \in [Requests -> Answers]
    BY <1>1, <1>2 DEF SessionTypes
  <1>4. answer[r] # "authenticated" /\ \A t \in Requests : t # r => answer'[t] = answer[t]
    BY <1>1, <1>2 DEF SessionTypes, Unanswered, NotYet
  <1>5. SessionsOpened'
    <2> SUFFICES ASSUME NEW t \in DOMAIN sessions'
                 PROVE  protected' /\ answer'[t] = "authenticated" /\ t \notin closed'
      BY DEF SessionsOpened
    <2>1. t \in DOMAIN sessions /\ t \in Requests /\ protected /\ answer[t] = "authenticated"
      BY <1>1 DEF SessionTypes, SessionsOpened
    <2> QED BY <1>4, <2>1
  <1>6. Unanswered'
    <2>1. \A q \in Requests : requestPc'[q] # "answered" => answer'[q] = NotYet
      BY <1>1, <1>2 DEF SessionTypes, Unanswered
    <2>2. \A q \in Requests : requestPc'[q] \in {"verifying", "opening"} => protected'
      BY <1>1, <1>2 DEF SessionTypes, Unanswered
    <2>3. \A t \in closed' : answer[t] = "authenticated"
      BY <1>1 DEF Unanswered
    <2>4. \A t \in closed' : answer'[t] = "authenticated"
      <3> SUFFICES ASSUME NEW t \in closed' PROVE answer'[t] = "authenticated"
        OBVIOUS
      <3>1. answer[t] = "authenticated" /\ t # r
        BY <1>4, <2>3
      <3> QED BY <1>1, <1>2, <3>1 DEF SessionTypes
    <2> QED BY <2>1, <2>2, <2>4 DEF Unanswered
  <1> QED BY <1>3, <1>5, <1>6

LEMMA SameLogins ==
  ASSUME SessionsIInv, UNCHANGED <<attempts, failed>>
  PROVE  /\ FailuresCounted' /\ failed' \in [Addresses -> Nat]
         /\ \A a \in DOMAIN attempts' : attempts'[a] \in Attempts
  BY DEF SessionsIInv, LoginsKept, FailuresCounted, Attempt, SessionTypes

(* Requests that leave the logins alone.                                   *)
LEMMA RequestAnswered ==
  ASSUME SessionsIInv, NEW r \in Requests,
         \/ Plain(r) \/ LoginOpen(r) \/ LoginBlocked(r)
         \/ \E token \in Given : Query(r, token) \/ Logout(r, token)
         \/ Query(r, r)
  PROVE  SessionsIInv'
  <1>1. SessionTypes /\ Unanswered /\ SessionsOpened
    BY DEF SessionsIInv, LoginsKept
  <1>2. /\ requestPc[r] # "answered" /\ UNCHANGED <<protected, from, attempts, failed>>
        /\ \E code \in Answers : Answered(r, code)
    <2>1. ASSUME NEW token, Query(r, token) \/ Logout(r, token)
          PROVE  /\ requestPc[r] = "reading" /\ UNCHANGED <<protected, from, attempts, failed>>
                 /\ \E code \in Answers : Answered(r, code)
      BY <2>1 DEF Query, Logout, Answers
    <2>2. CASE Plain(r) \/ LoginOpen(r) \/ LoginBlocked(r)
      BY <2>2 DEF Plain, LoginOpen, LoginBlocked, Answers
    <2> QED BY <2>1, <2>2
  <1>3. /\ DOMAIN sessions' \subseteq DOMAIN sessions
        /\ \A t \in DOMAIN sessions' : t \notin closed'
        /\ \A t \in closed' : t \in closed \/ answer[t] = "authenticated"
        /\ closed' \subseteq Requests
    <2>1. CASE Plain(r) \/ LoginOpen(r) \/ LoginBlocked(r)
      BY <1>1, <2>1 DEF Plain, LoginOpen, LoginBlocked, SessionsOpened, SessionTypes
    <2>2. ASSUME NEW token, Query(r, token)
          PROVE  DOMAIN sessions' \subseteq DOMAIN sessions /\ closed' = closed
      BY <2>2 DEF Query, Looked, Restrict, Alive
    <2>3. ASSUME NEW token \in Given, Logout(r, token)
          PROVE  /\ DOMAIN sessions' = DOMAIN sessions \ {token} /\ closed' = closed \cup {token}
                 /\ answer[token] = "authenticated" /\ token \in Requests
      BY <2>3 DEF Logout, Restrict, Given
    <2>4. CASE \E token : Query(r, token)
      BY <1>1, <2>2, <2>4 DEF SessionsOpened, SessionTypes
    <2>5. CASE \E token \in Given : Logout(r, token)
      BY <1>1, <2>3, <2>5 DEF SessionsOpened, SessionTypes
    <2> QED BY <2>1, <2>4, <2>5
  <1>4. /\ SessionsOpened' /\ Unanswered'
        /\ requestPc' \in [Requests -> {"away", "reading", "verifying", "opening", "answered"}]
        /\ answer' \in [Requests -> Answers]
    BY <1>2, <1>3, AnsweredSessions
  <1> QED BY <1>1, <1>2, <1>3, <1>4, SameLogins DEF SessionsIInv, SessionTypes, LoginsKept

(* A request that goes on unanswered.                                      *)
LEMMA RequestGoesOn ==
  ASSUME SessionsIInv, NEW r \in Requests,
         NEW pc \in {"reading", "verifying", "opening"},
         requestPc[r] # "answered", requestPc' = [requestPc EXCEPT ![r] = pc],
         pc # "reading" => protected,
         UNCHANGED <<protected, answer, sessions, closed>>
  PROVE  /\ SessionsOpened' /\ Unanswered'
         /\ requestPc' \in [Requests -> {"away", "reading", "verifying", "opening", "answered"}]
  <1>1. SessionTypes /\ Unanswered /\ SessionsOpened
    BY DEF SessionsIInv, LoginsKept
  <1>2. SessionsOpened'
    BY <1>1 DEF SessionsOpened
  <1>3. requestPc' \in [Requests -> {"away", "reading", "verifying", "opening", "answered"}]
    BY <1>1 DEF SessionTypes
  <1>4. Unanswered'
    BY <1>1 DEF Unanswered, SessionTypes
  <1> QED BY <1>2, <1>3, <1>4

LEMMA ArriveKeeps ==
  ASSUME SessionsIInv, NEW r \in Requests, Arrive(r)
  PROVE  SessionsIInv'
  <1>1. /\ SessionsOpened' /\ Unanswered'
        /\ requestPc' \in [Requests -> {"away", "reading", "verifying", "opening", "answered"}]
    BY RequestGoesOn DEF Arrive
  <1>2. from' \in [Requests -> Addresses]
    BY DEF Arrive, SessionsIInv, SessionTypes
  <1>3. UNCHANGED <<attempts, failed, answer, sessions, closed>>
    BY DEF Arrive
  <1> QED BY <1>1, <1>2, <1>3, SameLogins DEF SessionsIInv, SessionTypes, LoginsKept

(* A login starts: a block that is over, and the count with it, is gone.   *)
LEMMA LoginStartsKeeps ==
  ASSUME SessionsIInv, NEW r \in Requests, LoginStarts(r)
  PROVE  SessionsIInv'
  <1> DEFINE a == from[r]
             anew == [failures |-> 0, blocked |-> NotBlocked]
  <1>1. SessionTypes /\ Unanswered /\ SessionsOpened /\ FailuresCounted /\ a \in Addresses
    BY DEF SessionsIInv, LoginsKept, SessionTypes
  <1>2. /\ requestPc[r] = "reading" /\ protected
        /\ UNCHANGED <<protected, from, sessions, closed>>
        /\ \/ requestPc' = [requestPc EXCEPT ![r] = "verifying"] /\ UNCHANGED answer
           \/ Answered(r, "bad request")
    BY DEF LoginStarts
  <1>3. \/ /\ Attempt(a).blocked = 0 /\ attempts' = WithAttempt(a, anew)
           /\ failed' = [failed EXCEPT ![a] = 0]
        \/ attempts' = attempts /\ failed' = failed
    BY DEF LoginStarts, Unblocked
  <1>4. /\ SessionsOpened' /\ Unanswered'
        /\ requestPc' \in [Requests -> {"away", "reading", "verifying", "opening", "answered"}]
        /\ answer' \in [Requests -> Answers]
    <2>1. CASE requestPc' = [requestPc EXCEPT ![r] = "verifying"] /\ UNCHANGED answer
      BY <1>1, <1>2, <2>1, RequestGoesOn DEF SessionTypes
    <2>2. CASE Answered(r, "bad request")
      <3>1. "bad request" \in Answers /\ requestPc[r] # "answered"
        BY <1>2 DEF Answers
      <3>2. /\ DOMAIN sessions' \subseteq DOMAIN sessions /\ \A t \in DOMAIN sessions' : t \notin closed'
            /\ \A t \in closed' : t \in closed
        BY <1>1, <1>2 DEF SessionsOpened
      <3> QED BY <1>2, <2>2, <3>1, <3>2, AnsweredSessions
    <2> QED BY <1>2, <2>1, <2>2
  <1>5. /\ FailuresCounted' /\ failed' \in [Addresses -> Nat]
        /\ \A b \in DOMAIN attempts' : attempts'[b] \in Attempts
    <2>1. CASE attempts' = WithAttempt(a, anew) /\ failed' = [failed EXCEPT ![a] = 0]
      <3>1. anew \in Attempts /\ anew.failures = 0 /\ anew.blocked = NotBlocked
        BY DEF Attempts
      <3>2. /\ \A b \in DOMAIN attempts' : attempts'[b] \in Attempts
            /\ \A b : Attempt(b)' = IF b = a THEN anew ELSE Attempt(b)
        BY <1>1, <2>1, <3>1, WithAttemptFacts
      <3>3. /\ failed' \in [Addresses -> Nat]
            /\ \A b \in Addresses : failed'[b] = IF b = a THEN 0 ELSE failed[b]
        BY <1>1, <2>1 DEF SessionTypes
      <3>4. FailuresCounted'
        <4> SUFFICES ASSUME NEW b \in Addresses
                     PROVE  /\ Attempt(b)'.failures = failed'[b]
                            /\ Attempt(b)'.blocked # NotBlocked <=> failed'[b] >= MaxLoginFailures
          BY DEF FailuresCounted
        <4>1. CASE b = a
          BY <3>1, <3>2, <3>3, <4>1, SessionsAssumption
        <4>2. CASE b # a
          BY <1>1, <3>2, <3>3, <4>2 DEF FailuresCounted
        <4> QED BY <4>1, <4>2
      <3> QED BY <3>2, <3>3, <3>4
    <2>2. CASE attempts' = attempts /\ failed' = failed
      BY <2>2, SameLogins
    <2> QED BY <1>3, <2>1, <2>2
  <1> QED BY <1>1, <1>2, <1>4, <1>5 DEF SessionsIInv, SessionTypes, LoginsKept

(* A wrong password counts for its address, whoever else tries from there. *)
LEMMA LoginFailsKeeps ==
  ASSUME SessionsIInv, NEW r \in Requests, LoginFails(r)
  PROVE  SessionsIInv'
  <1> DEFINE a == from[r]
             failures == Attempt(a).failures + 1
             more == [failures |-> failures,
                      blocked |-> IF failures >= MaxLoginFailures THEN Lockout ELSE Attempt(a).blocked]
  <1>1. SessionTypes /\ Unanswered /\ SessionsOpened /\ FailuresCounted /\ a \in Addresses
    BY DEF SessionsIInv, LoginsKept, SessionTypes
  <1>2. /\ requestPc[r] = "verifying" /\ attempts' = WithAttempt(a, more)
        /\ failed' = [failed EXCEPT ![a] = @ + 1]
        /\ Answered(r, "incorrect password")
        /\ UNCHANGED <<protected, from, sessions, closed>>
    BY DEF LoginFails, Failed
  <1>3. /\ SessionsOpened' /\ Unanswered'
        /\ requestPc' \in [Requests -> {"away", "reading", "verifying", "opening", "answered"}]
        /\ answer' \in [Requests -> Answers]
    <2>1. "incorrect password" \in Answers /\ requestPc[r] # "answered"
      BY <1>2 DEF Answers
    <2>2. /\ DOMAIN sessions' \subseteq DOMAIN sessions /\ \A t \in DOMAIN sessions' : t \notin closed'
          /\ \A t \in closed' : t \in closed
      BY <1>1, <1>2 DEF SessionsOpened
    <2> QED BY <1>2, <2>1, <2>2, AnsweredSessions
  <1>4. /\ Attempt(a).failures \in Nat /\ Attempt(a).blocked \in Nat \cup {NotBlocked}
        /\ Attempt(a).failures = failed[a]
        /\ Attempt(a).blocked # NotBlocked <=> failed[a] >= MaxLoginFailures
    <2>1. Attempt(a) \in Attempts
      BY <1>1, AttemptType
    <2> QED BY <1>1, <2>1 DEF FailuresCounted, Attempts
  <1>5. more \in Attempts /\ more.failures = failed[a] + 1
    BY <1>4, SessionsAssumption DEF Attempts
  <1>6. more.blocked # NotBlocked <=> failed[a] + 1 >= MaxLoginFailures
    BY <1>4, SessionsAssumption
  <1> HIDE DEF more
  <1>7. /\ \A b \in DOMAIN attempts' : attempts'[b] \in Attempts
        /\ \A b : Attempt(b)' = IF b = a THEN more ELSE Attempt(b)
    BY <1>1, <1>2, <1>5, WithAttemptFacts
  <1>8. /\ failed' \in [Addresses -> Nat]
        /\ \A b \in Addresses : failed'[b] = IF b = a THEN failed[a] + 1 ELSE failed[b]
    <2>1. failed \in [Addresses -> Nat] /\ failed[a] + 1 \in Nat
      BY <1>1 DEF SessionTypes
    <2>2. failed' = [failed EXCEPT ![a] = failed[a] + 1]
      BY <1>2
    <2> HIDE DEF a
    <2> QED BY <1>1, <2>1, <2>2
  <1>9. FailuresCounted'
    <2> SUFFICES ASSUME NEW b \in Addresses
                 PROVE  /\ Attempt(b)'.failures = failed'[b]
                        /\ Attempt(b)'.blocked # NotBlocked <=> failed'[b] >= MaxLoginFailures
      BY DEF FailuresCounted
    <2>1. CASE b = a
      BY <1>5, <1>6, <1>7, <1>8, <2>1
    <2>2. CASE b # a
      BY <1>1, <1>7, <1>8, <2>2 DEF FailuresCounted
    <2> QED BY <2>1, <2>2
  <1> QED BY <1>1, <1>2, <1>3, <1>7, <1>8, <1>9 DEF SessionsIInv, SessionTypes, LoginsKept

(* The right password clears the count of its address.                     *)
LEMMA LoginVerifiedKeeps ==
  ASSUME SessionsIInv, NEW r \in Requests, LoginVerified(r)
  PROVE  SessionsIInv'
  <1> DEFINE a == from[r]
  <1>1. SessionTypes /\ Unanswered /\ SessionsOpened /\ FailuresCounted /\ a \in Addresses
    BY DEF SessionsIInv, LoginsKept, SessionTypes
  <1>2. /\ requestPc[r] = "verifying" /\ attempts' = Restrict(attempts, DOMAIN attempts \ {a})
        /\ failed' = [failed EXCEPT ![a] = 0]
        /\ requestPc' = [requestPc EXCEPT ![r] = "opening"]
        /\ UNCHANGED <<protected, from, answer, sessions, closed>>
    BY DEF LoginVerified
  <1>3. protected
    BY <1>1, <1>2 DEF Unanswered
  <1>4. /\ SessionsOpened' /\ Unanswered'
        /\ requestPc' \in [Requests -> {"away", "reading", "verifying", "opening", "answered"}]
    BY <1>2, <1>3, RequestGoesOn
  <1>5. /\ DOMAIN attempts' = DOMAIN attempts \ {a}
        /\ \A b \in DOMAIN attempts' : attempts'[b] = attempts[b]
    BY <1>2 DEF Restrict
  <1>6. \A b \in DOMAIN attempts' : attempts'[b] \in Attempts
    BY <1>1, <1>5 DEF SessionTypes
  <1>7. /\ failed' \in [Addresses -> Nat]
        /\ \A b \in Addresses : failed'[b] = IF b = a THEN 0 ELSE failed[b]
    BY <1>1, <1>2 DEF SessionTypes
  <1>8. FailuresCounted'
    <2> SUFFICES ASSUME NEW b \in Addresses
                 PROVE  /\ Attempt(b)'.failures = failed'[b]
                        /\ Attempt(b)'.blocked # NotBlocked <=> failed'[b] >= MaxLoginFailures
      BY DEF FailuresCounted
    <2>1. CASE b = a
      <3>1. Attempt(b)' = [failures |-> 0, blocked |-> NotBlocked]
        BY <1>5, <2>1 DEF Attempt
      <3> QED BY <1>7, <2>1, <3>1, SessionsAssumption
    <2>2. CASE b # a
      <3>1. Attempt(b)' = Attempt(b)
        BY <1>5, <2>2 DEF Attempt
      <3> QED BY <1>1, <1>7, <2>2, <3>1 DEF FailuresCounted
    <2> QED BY <2>1, <2>2
  <1> QED BY <1>1, <1>2, <1>4, <1>6, <1>7, <1>8 DEF SessionsIInv, SessionTypes, LoginsKept

(* A session is opened by a request that nobody has answered before.       *)
LEMMA LoginOpensKeeps ==
  ASSUME SessionsIInv, NEW r \in Requests, LoginOpens(r)
  PROVE  SessionsIInv'
  <1>1. SessionTypes /\ Unanswered /\ SessionsOpened
    BY DEF SessionsIInv, LoginsKept
  <1>2. /\ requestPc[r] = "opening"
        /\ DOMAIN sessions' = DOMAIN sessions \cup {r}
        /\ requestPc' = [requestPc EXCEPT ![r] = "answered"]
        /\ answer' = [answer EXCEPT ![r] = "authenticated"]
        /\ UNCHANGED <<protected, from, attempts, failed, closed>>
    BY DEF LoginOpens, Answered
  <1>3. protected /\ r \notin closed
    BY <1>1, <1>2 DEF Unanswered, NotYet
  <1>4. /\ requestPc' \in [Requests -> {"away", "reading", "verifying", "opening", "answered"}]
        /\ answer' \in [Requests -> Answers]
    BY <1>1, <1>2 DEF SessionTypes, Answers
  <1>5. answer'[r] = "authenticated" /\ \A t \in Requests : t # r => answer'[t] = answer[t]
    BY <1>1, <1>2 DEF SessionTypes
  <1>6. SessionsOpened'
    BY <1>1, <1>2, <1>3, <1>5 DEF SessionsOpened, SessionTypes
  <1>7. Unanswered'
    <2>1. \A q \in Requests : requestPc'[q] = IF q = r THEN "answered" ELSE requestPc[q]
      BY <1>1, <1>2 DEF SessionTypes
    <2> QED BY <1>1, <1>2, <1>3, <1>5, <2>1 DEF Unanswered, SessionTypes
  <1> QED BY <1>1, <1>2, <1>4, <1>6, <1>7, SameLogins DEF SessionsIInv, SessionTypes, LoginsKept

(* Time runs sessions and blocks out, and takes back no failure.           *)
LEMMA TickKeeps ==
  ASSUME SessionsIInv, Tick
  PROVE  SessionsIInv'
  <1>1. SessionTypes /\ Unanswered /\ SessionsOpened /\ FailuresCounted
    BY DEF SessionsIInv, LoginsKept
  <1>2. /\ DOMAIN sessions' = DOMAIN sessions /\ DOMAIN attempts' = DOMAIN attempts
        /\ \A a \in DOMAIN attempts :
             attempts'[a] = IF attempts[a].blocked = NotBlocked THEN attempts[a]
                            ELSE [attempts[a] EXCEPT !.blocked = Earlier(@)]
        /\ UNCHANGED <<protected, requestPc, from, answer, failed, closed>>
    BY DEF Tick
  <1>3. ASSUME NEW a \in DOMAIN attempts
        PROVE  /\ attempts'[a] \in Attempts /\ attempts'[a].failures = attempts[a].failures
               /\ attempts'[a].blocked = NotBlocked <=> attempts[a].blocked = NotBlocked
    <2>1. attempts[a] \in Attempts
      BY <1>1 DEF SessionTypes
    <2>2. CASE attempts[a].blocked = NotBlocked
      BY <1>2, <2>1, <2>2
    <2>3. CASE attempts[a].blocked # NotBlocked
      <3>1. attempts[a].blocked \in Nat /\ Earlier(attempts[a].blocked) \in Nat
        BY <2>1, <2>3 DEF Attempts, Earlier
      <3> QED BY <1>2, <2>1, <2>3, <3>1, SessionsAssumption DEF Attempts
    <2> QED BY <2>2, <2>3
  <1>4. FailuresCounted'
    BY <1>1, <1>2, <1>3 DEF FailuresCounted, Attempt
  <1>5. SessionsOpened' /\ Unanswered'
    BY <1>1, <1>2 DEF SessionsOpened, Unanswered
  <1> QED BY <1>1, <1>2, <1>3, <1>4, <1>5 DEF SessionsIInv, SessionTypes, LoginsKept

LEMMA SessionsStart == SessionsInit => SessionsIInv
  <1> SUFFICES ASSUME SessionsInit PROVE SessionsIInv
    OBVIOUS
  <1>1. DOMAIN sessions = {} /\ DOMAIN attempts = {} /\ closed = {}
    BY DEF SessionsInit
  <1>2. SessionTypes
    <2>1. /\ requestPc \in [Requests -> {"away", "reading", "verifying", "opening", "answered"}]
          /\ from \in [Requests -> Addresses] /\ failed \in [Addresses -> Nat]
      BY DEF SessionsInit
    <2>2. answer \in [Requests -> Answers]
      BY DEF SessionsInit, Answers
    <2> QED BY <1>1, <2>1, <2>2 DEF SessionTypes
  <1>3. Unanswered
    BY <1>1 DEF SessionsInit, Unanswered
  <1>4. LoginsKept
    BY <1>1, SessionsAssumption DEF SessionsInit, LoginsKept, FailuresCounted, SessionsOpened, Attempt
  <1> QED BY <1>2, <1>3, <1>4 DEF SessionsIInv

LEMMA SessionsKeep ==
  ASSUME SessionsIInv, SessionsNext
  PROVE  SessionsIInv'
  <1>1. CASE ClearSessions
    <2>1. DOMAIN sessions' = {} /\ UNCHANGED <<protected, requestPc, from, answer, attempts, failed, closed>>
      BY <1>1 DEF ClearSessions
    <2> QED BY <2>1, SameLogins DEF SessionsIInv, SessionTypes, Unanswered, LoginsKept, SessionsOpened
  <1> QED BY <1>1, RequestAnswered, ArriveKeeps, LoginStartsKeeps, LoginFailsKeeps, LoginVerifiedKeeps,
             LoginOpensKeeps, TickKeeps DEF SessionsNext

LEMMA SessionsRest ==
  ASSUME SessionsIInv, UNCHANGED sessionVars
  PROVE  SessionsIInv'
  <1>1. UNCHANGED <<protected, requestPc, from, answer, sessions, attempts, failed, closed>>
    BY DEF sessionVars
  <1> QED BY <1>1, SameLogins DEF SessionsIInv, SessionTypes, Unanswered, LoginsKept, SessionsOpened

-----------------------------------------------------------------------------
(* The frames of a sequence of pieces or packets.                          *)

LEMMA Least ==
  ASSUME NEW T \in SUBSET Nat, T # {}
  PROVE  \E x \in T : \A y \in T : x <= y
  <1> DEFINE R == {ss \in Nat \X Nat : ss[1] < ss[2]}
  <1>1. IsWellFoundedOn(R, Nat)
    BY NatLessThanWellFounded DEF OpToRel
  <1>2. \A x, y \in Nat : <<y, x>> \in R <=> y < x
    OBVIOUS
  <1> HIDE DEF R
  <1>3. PICK x \in T : \A y \in T : ~ (<<y, x>> \in R)
    BY <1>1, WFMin
  <1>4. \A y \in T : ~ (y < x) /\ y \in Nat /\ x \in Nat
    BY <1>2, <1>3
  <1> QED BY <1>3, <1>4

LEMMA UpTo ==
  ASSUME NEW n \in Nat, NEW Good, 0 \in Good, \A i \in 0 .. n - 1 : i \in Good => i + 1 \in Good
  PROVE  \A i \in 0 .. n : i \in Good
  <1> SUFFICES ASSUME NEW b \in 0 .. n, b \notin Good PROVE FALSE
    OBVIOUS
  <1> DEFINE T == {i \in 0 .. n : i \notin Good}
  <1>1. T \in SUBSET Nat /\ b \in T
    OBVIOUS
  <1>2. PICK x \in T : \A y \in T : x <= y
    BY <1>1, Least
  <1>3. x # 0 /\ x \in 1 .. n
    BY <1>2
  <1>4. x - 1 \in Good /\ x - 1 \in 0 .. n - 1
    BY <1>2, <1>3
  <1> QED BY <1>2, <1>4

(* The running count of the frames of s.                                   *)
Counts(f, s) == f = [i \in 0 .. Len(s) |-> IF i = 0 THEN 0 ELSE f[i - 1] + s[i].frames]

(* There is such a count, for there is one of every number of pieces.      *)
LEMMA CountExists ==
  ASSUME NEW s, Len(s) \in Nat
  PROVE  \E f : Counts(f, s)
  <1> DEFINE Step(f, i) == IF i = 0 THEN 0 ELSE f[i - 1] + s[i].frames
             Is(f, n) == f = [i \in 0 .. n |-> Step(f, i)]
             Good == {n \in Nat : \E f : Is(f, n)}
             len == Len(s)
  <1>1. 0 \in Good
    <2> DEFINE f == [i \in 0 .. 0 |-> 0]
    <2>1. Is(f, 0)
      OBVIOUS
    <2> QED BY <2>1
  <1>2. ASSUME NEW n \in 0 .. len - 1, n \in Good
        PROVE  n + 1 \in Good
    <2>1. PICK f : Is(f, n)
      BY <1>2
    <2> DEFINE h == [i \in 0 .. n + 1 |-> IF i = n + 1 THEN Step(f, n + 1) ELSE f[i]]
    <2>2. \A i \in 0 .. n + 1 : h[i] = Step(h, i)
      <3> SUFFICES ASSUME NEW i \in 0 .. n + 1 PROVE h[i] = Step(h, i)
        OBVIOUS
      <3>1. i - 1 \in 0 .. n => h[i - 1] = f[i - 1]
        OBVIOUS
      <3>2. CASE i = n + 1
        BY <3>1, <3>2
      <3>3. CASE i \in 0 .. n
        <4>1. f[i] = Step(f, i)
          BY <2>1, <3>3
        <4>2. h[i] = f[i]
          BY <3>3
        <4> QED BY <3>1, <3>3, <4>1, <4>2
      <3> QED BY <3>2, <3>3
    <2>3. Is(h, n + 1)
      BY <2>2
    <2>4. \E g : Is(g, n + 1)
      BY <2>3
    <2> HIDE DEF Is
    <2> QED BY <2>4
  <1> HIDE DEF Good
  <1>3. len \in Good
    <2>1. \A i \in 0 .. len - 1 : i \in Good => i + 1 \in Good
      BY <1>2
    <2>2. \A i \in 0 .. len : i \in Good
      BY <1>1, <2>1, UpTo
    <2> QED BY <2>2
  <1> USE DEF Good
  <1> QED BY <1>3 DEF Counts

(* Two counts of the same pieces agree, and count frames in Nat.           *)
LEMMA CountsAgree ==
  ASSUME NEW s, NEW t, NEW f, NEW g, Counts(f, s), Counts(g, t),
         Len(s) \in Nat, Len(t) \in Nat, Len(s) <= Len(t),
         \A i \in 1 .. Len(s) : t[i] = s[i] /\ s[i].frames \in Nat
  PROVE  \A i \in 0 .. Len(s) : f[i] = g[i] /\ f[i] \in Nat
  <1> DEFINE Good == {i \in Nat : f[i] = g[i] /\ f[i] \in Nat}
             len == Len(s)
  <1>1. /\ f[0] = 0 /\ \A i \in 1 .. len : f[i] = f[i - 1] + s[i].frames
        /\ g[0] = 0 /\ \A i \in 1 .. len : g[i] = g[i - 1] + t[i].frames
    <2>1. f[0] = 0 /\ \A i \in 1 .. len : f[i] = f[i - 1] + s[i].frames
      BY DEF Counts
    <2>2. 0 \in 0 .. Len(t) /\ \A i \in 1 .. len : i \in 0 .. Len(t) /\ i # 0
      OBVIOUS
    <2>3. g = [i \in 0 .. Len(t) |-> IF i = 0 THEN 0 ELSE g[i - 1] + t[i].frames]
      BY DEF Counts
    <2> QED BY <2>1, <2>2, <2>3
  <1>2. 0 \in Good
    BY <1>1
  <1>3. ASSUME NEW i \in 0 .. len - 1, i \in Good
        PROVE  i + 1 \in Good
    <2>1. /\ i + 1 \in 1 .. len /\ (i + 1) - 1 = i
          /\ f[i + 1] = f[i] + s[i + 1].frames /\ g[i + 1] = g[i] + t[i + 1].frames
      BY <1>1
    <2> QED BY <1>3, <2>1
  <1> HIDE DEF Good
  <1>4. \A i \in 0 .. len : i \in Good
    BY <1>2, <1>3, UpTo
  <1> QED BY <1>4 DEF Good

(* Both modules count the same way.                                        *)
LEMMA FramesCounted ==
  ASSUME NEW s, Len(s) \in Nat
  PROVE  /\ \E f : Counts(f, s) /\ FramesOf(s) = f[Len(s)]
         /\ \E f : Counts(f, s) /\ FramesIn(s) = f[Len(s)]
  <1>1. PICK f : Counts(f, s)
    BY CountExists
  <1>2. \E g : Counts(g, s) /\ FramesOf(s) = g[Len(s)]
    BY <1>1 DEF FramesOf, Counts
  <1>3. \E g : Counts(g, s) /\ FramesIn(s) = g[Len(s)]
    BY <1>1 DEF FramesIn, Counts
  <1> QED BY <1>2, <1>3

LEMMA FramesFacts ==
  ASSUME NEW S, \A x \in S : x.frames \in Nat, NEW s \in Seq(S)
  PROVE  /\ FramesOf(s) \in Nat /\ FramesIn(s) = FramesOf(s)
         /\ s = << >> => FramesOf(s) = 0
         /\ \A x \in S : FramesOf(Append(s, x)) = FramesOf(s) + x.frames
  <1>1. Len(s) \in Nat /\ \A i \in 1 .. Len(s) : s[i] \in S /\ s[i].frames \in Nat
    BY LenProperties, ElementOfSeq
  <1>2. PICK f : Counts(f, s) /\ FramesOf(s) = f[Len(s)]
    BY <1>1, FramesCounted
  <1>3. PICK h : Counts(h, s) /\ FramesIn(s) = h[Len(s)]
    BY <1>1, FramesCounted
  <1>4. FramesIn(s) = FramesOf(s) /\ FramesOf(s) \in Nat
    <2>1. \A i \in 0 .. Len(s) : f[i] = h[i] /\ f[i] \in Nat
      BY <1>1, <1>2, <1>3, CountsAgree
    <2> QED BY <1>1, <1>2, <1>3, <2>1
  <1>5. s = << >> => FramesOf(s) = 0
    BY <1>1, <1>2 DEF Counts
  <1>6. ASSUME NEW x \in S
        PROVE  FramesOf(Append(s, x)) = FramesOf(s) + x.frames
    <2> DEFINE t == Append(s, x)
    <2>1. /\ t \in Seq(S) /\ Len(t) = Len(s) + 1 /\ t[Len(s) + 1] = x
          /\ \A i \in 1 .. Len(s) : t[i] = s[i]
      BY <1>6, AppendProperties
    <2> HIDE DEF t
    <2>2. PICK g : Counts(g, t) /\ FramesOf(t) = g[Len(t)]
      <3>1. Len(t) \in Nat
        BY <1>1, <2>1
      <3> QED BY <3>1, FramesCounted
    <2>3. \A i \in 0 .. Len(s) : f[i] = g[i] /\ f[i] \in Nat
      BY <1>1, <1>2, <2>1, <2>2, CountsAgree
    <2>4. g[Len(s) + 1] = g[Len(s)] + x.frames
      BY <1>1, <2>1, <2>2 DEF Counts
    <2>5. FramesOf(t) = FramesOf(s) + x.frames
      BY <1>1, <1>2, <2>1, <2>2, <2>3, <2>4
    <2> QED BY <2>5 DEF t
  <1> QED BY <1>4, <1>5, <1>6

-----------------------------------------------------------------------------
(* The relay.                                                              *)

Formats == {"first", "second"}
Pieces == [kind : {"heard", "rebuilt", "concealed"}, frames : Nat, format : Formats \cup {NoFormat}]
Count  == Len(published)

RelayTypes ==
  /\ published \in Seq(Nat) /\ Count <= MaxSent
  /\ changeAt \in Nat /\ changeAt % GroupSize = 0
  /\ history \subseteq Places
  /\ batch \in Seq(Pieces)
  /\ batchedFrames \in Nat /\ relayed \in Nat /\ discarded \in Nat
  /\ surplus \in Nat /\ concealed \in Nat /\ joinedAt \in 0 .. Count
  /\ told = [format |-> told.format, flows |-> told.flows]

(* Packets last as long as their lengths allow.                            *)
Lasting ==
  \A i, j \in 0 .. Count :
    i <= j => StartOf(j) - StartOf(i) \in (j - i) * MinFrames .. (j - i) * MaxFrames

(* The next number expected is that of a place after the first one heard.  *)
ExpectedPlace ==
  IF nextExpected = NoSeq
  THEN history = {} /\ batch = << >> /\ expectedFormat = NoFormat
  ELSE /\ \E e \in joinedAt + 1 .. Count : nextExpected = NumberOf(e)
       /\ expectedFormat \in Formats

(* All that was heard, or rebuilt, is in one format.                       *)
OneFormat == \A pos \in history : FormatOf(pos) = expectedFormat

RelayIInv == RelayTypes /\ Lasting /\ ExpectedPlace /\ OneFormat /\ RelayKeepsTime

(* Lengths are at least one frame, and counts are naturals.                *)
LEMMA Bounds ==
  /\ MinFrames \in Nat /\ MaxFrames \in Nat /\ 1 <= MinFrames /\ MinFrames <= MaxFrames
  /\ GroupSize \in Nat /\ GroupSize > 1 /\ MaxSent \in Nat
  BY RelayAssumption

LEMMA StartFacts ==
  ASSUME RelayTypes
  PROVE  /\ Count \in Nat
         /\ \A i \in 0 .. Count : StartOf(i) \in Nat
  <1>1. Count \in Nat
    BY DEF RelayTypes, Count
  <1>2. ASSUME NEW i \in 0 .. Count PROVE StartOf(i) \in Nat
    <2>1. CASE i = 0
      BY <2>1 DEF StartOf
    <2>2. CASE i # 0
      <3>1. i \in 1 .. Len(published)
        BY <1>1, <2>2 DEF Count
      <3>2. published[i] \in Nat
        BY <3>1 DEF RelayTypes
      <3> QED BY <2>2, <3>2 DEF StartOf
    <2> QED BY <2>1, <2>2
  <1> QED BY <1>1, <1>2

LEMMA LengthFacts ==
  ASSUME RelayTypes, Lasting, NEW pos \in Places
  PROVE  /\ pos \in Nat /\ pos < Count /\ pos <= MaxSent
         /\ LengthOf(pos) \in Nat
         /\ MinFrames <= LengthOf(pos) /\ LengthOf(pos) <= MaxFrames
  <1>1. Count \in Nat /\ Count <= MaxSent
    BY StartFacts DEF RelayTypes
  <1>2. pos \in Nat /\ pos < Count /\ pos <= MaxSent
    BY <1>1, Bounds DEF Places, Count
  <1>3. pos \in 0 .. Count /\ pos + 1 \in 0 .. Count /\ pos <= pos + 1 /\ (pos + 1) - pos = 1
    BY <1>1, <1>2
  <1>4. StartOf(pos + 1) - StartOf(pos) \in 1 * MinFrames .. 1 * MaxFrames
    BY <1>3 DEF Lasting
  <1>5. LengthOf(pos) \in MinFrames .. MaxFrames
    BY <1>4, Bounds DEF LengthOf
  <1> QED BY <1>2, <1>5, Bounds

(* The first packet of a packet's group was published before it.           *)
LEMMA FirstIsPlace ==
  ASSUME RelayTypes, NEW pos \in Places
  PROVE  FirstOf(pos) \in Places
  <1>1. Count \in Nat /\ pos \in Nat /\ pos < Count
    BY StartFacts DEF Places, Count
  <1>2. GroupSize * (pos \div GroupSize) \in 0 .. pos
    BY <1>1, Bounds
  <1> QED BY <1>1, <1>2 DEF FirstOf, Places, Count

(* The numbers of places are as far apart as the places.                   *)
LEMMA NumberFacts ==
  ASSUME NEW a \in 0 .. MaxSent, NEW b \in 0 .. MaxSent
  PROVE  /\ NumberOf(a) \in 0 .. SeqSpace - 1
         /\ Distance(NumberOf(a), NumberOf(b)) = IF b <= a THEN a - b ELSE a - b + SeqSpace
  <1>1. /\ SeqSpace \in Nat /\ First \in 0 .. SeqSpace - 1 /\ MaxSent \in Nat
        /\ 2 * MaxSent < SeqSpace
    BY RelayAssumption
  <1>2. ASSUME NEW k \in 0 .. MaxSent
        PROVE  NumberOf(k) = IF First + k < SeqSpace THEN First + k ELSE First + k - SeqSpace
    BY <1>1 DEF NumberOf
  <1>3. ASSUME NEW d \in Int, 0 - SeqSpace < d, d < SeqSpace
        PROVE  d % SeqSpace = IF d >= 0 THEN d ELSE d + SeqSpace
    BY <1>1, <1>3
  <1>4. NumberOf(a) \in 0 .. SeqSpace - 1 /\ NumberOf(b) \in 0 .. SeqSpace - 1
    BY <1>1, <1>2
  <1>5. \/ NumberOf(a) - NumberOf(b) = a - b
        \/ NumberOf(a) - NumberOf(b) = a - b + SeqSpace /\ a < b
        \/ NumberOf(a) - NumberOf(b) = a - b - SeqSpace /\ b < a
    BY <1>1, <1>2
  <1> QED BY <1>1, <1>3, <1>4, <1>5 DEF Distance

(* What a packet is to the relay, told from its place.                     *)
LEMMA PlaceFacts ==
  ASSUME RelayTypes, nextExpected # NoSeq, NEW e \in 1 .. Count, nextExpected = NumberOf(e),
         NEW pos \in Places
  PROVE  /\ IsGap(pos) <=> pos > e
         /\ IsLate(pos) <=> pos < e
         /\ Missing(pos) = IF pos > e THEN pos - e ELSE 0
  <1>1. /\ e \in 0 .. MaxSent /\ pos \in 0 .. MaxSent /\ pos < MaxSent /\ e >= 1
    <2>1. Count \in Nat /\ Count <= MaxSent /\ pos \in 0 .. Count - 1
      BY StartFacts DEF RelayTypes, Places, Count
    <2> QED BY <2>1, Bounds
  <1>2. Distance(NumberOf(pos), nextExpected) = IF e <= pos THEN pos - e ELSE pos - e + SeqSpace
    BY <1>1, NumberFacts
  <1>3. /\ SeqSpace \div 2 \in Nat /\ MaxSent <= SeqSpace \div 2
        /\ SeqSpace - MaxSent >= SeqSpace \div 2 /\ SeqSpace \in Nat /\ MaxSent \in Nat
    BY RelayAssumption
  <1>4. IsLate(pos) <=> pos < e
    BY <1>1, <1>2, <1>3 DEF IsLate
  <1>5. IsGap(pos) <=> pos > e
    BY <1>1, <1>2, <1>3 DEF IsGap
  <1> QED BY <1>1, <1>2, <1>4, <1>5 DEF Missing

(* Two places of a group have one format, for a change starts a group.     *)
LEMMA GroupFormat ==
  ASSUME RelayTypes, NEW p \in Nat, NEW q \in Nat, p \div GroupSize = q \div GroupSize
  PROVE  FormatOf(p) = FormatOf(q)
  <1> DEFINE k == changeAt \div GroupSize
             g == p \div GroupSize
  <1>1. GroupSize \in Nat \ {0} /\ changeAt \in Nat /\ changeAt % GroupSize = 0
    BY RelayAssumption DEF RelayTypes
  <1>2. /\ k \in Nat /\ changeAt = GroupSize * k /\ g \in Nat
        /\ GroupSize * g <= p /\ p < GroupSize * g + GroupSize
        /\ GroupSize * g <= q /\ q < GroupSize * g + GroupSize
    BY <1>1
  <1> HIDE DEF k, g
  <1>3. CASE g < k
    <2>1. g + 1 <= k
      BY <1>2, <1>3
    <2>2. GroupSize * g + GroupSize <= GroupSize * k
      BY <1>1, <1>2, <2>1
    <2>3. p < changeAt /\ q < changeAt
      BY <1>1, <1>2, <2>2
    <2> QED BY <2>3 DEF FormatOf
  <1>4. CASE ~ (g < k)
    <2>1. GroupSize * k <= GroupSize * g
      BY <1>1, <1>2, <1>4
    <2>2. ~ (p < changeAt) /\ ~ (q < changeAt)
      BY <1>1, <1>2, <2>1
    <2> QED BY <2>2 DEF FormatOf
  <1> QED BY <1>3, <1>4

(* Places from the first one heard to the next one expected.               *)
Span == IF nextExpected = NoSeq THEN 0 ELSE Distance(nextExpected, NumberOf(joinedAt))

LEMMA SpanFacts ==
  ASSUME RelayTypes
  PROVE  /\ nextExpected = NoSeq => Span = 0
         /\ \A e \in joinedAt + 1 .. Count :
              nextExpected = NumberOf(e) => nextExpected # NoSeq /\ Span = e - joinedAt
  <1>1. nextExpected = NoSeq => Span = 0
    BY DEF Span
  <1>2. ASSUME NEW e \in joinedAt + 1 .. Count, nextExpected = NumberOf(e)
        PROVE  nextExpected # NoSeq /\ Span = e - joinedAt
    <2>1. e \in 0 .. MaxSent /\ joinedAt \in 0 .. MaxSent /\ joinedAt <= e
      <3>1. Count \in Nat /\ Count <= MaxSent /\ joinedAt \in 0 .. Count
        BY StartFacts DEF RelayTypes
      <3> QED BY <3>1, Bounds
    <2>2. NumberOf(e) \in Int
      BY <2>1, NumberFacts, RelayAssumption
    <2>3. NumberOf(e) # NoSeq
      BY <2>2, RelayAssumption
    <2> QED BY <1>2, <2>1, <2>3, NumberFacts DEF Span
  <1> QED BY <1>1, <1>2

(* The frames of the stream that the span covers, and how far the frames   *)
(* of the batches are from them.                                           *)
Passed == StartOf(joinedAt + Span) - StartOf(joinedAt)

LEMMA DriftIs ==
  Drift = relayed + discarded + batchedFrames - surplus - Passed
  BY DEF Drift, Passed, Span

LEMMA PassedType ==
  ASSUME RelayTypes, ExpectedPlace
  PROVE  /\ Passed \in Int /\ joinedAt + Span \in 0 .. Count
         /\ nextExpected = NoSeq => Passed = 0
  <1>1. joinedAt + Span \in 0 .. Count
    <2>1. Count \in Nat /\ joinedAt \in 0 .. Count
      BY StartFacts DEF RelayTypes
    <2>2. CASE nextExpected = NoSeq
      <3>1. Span = 0
        BY <2>2, SpanFacts
      <3> QED BY <2>1, <3>1
    <2>3. CASE nextExpected # NoSeq
      <3>1. PICK e \in joinedAt + 1 .. Count : nextExpected = NumberOf(e)
        BY <2>3 DEF ExpectedPlace
      <3>2. Span = e - joinedAt
        BY <3>1, SpanFacts
      <3> QED BY <2>1, <3>1, <3>2
    <2> QED BY <2>2, <2>3
  <1>2. joinedAt \in 0 .. Count /\ StartOf(joinedAt) \in Nat /\ StartOf(joinedAt + Span) \in Nat
    BY <1>1, StartFacts DEF RelayTypes
  <1>3. ASSUME nextExpected = NoSeq PROVE Passed = 0
    <2>1. joinedAt + Span = joinedAt
      BY <1>2, <1>3, SpanFacts, StartFacts
    <2> QED BY <1>2, <2>1 DEF Passed
  <1> QED BY <1>1, <1>2, <1>3 DEF Passed

(* Packets concealed in another length put the time out by what their      *)
(* lengths may differ.                                                     *)
LEMMA DriftGrows ==
  ASSUME NEW m \in Nat, NEW n \in Nat, NEW d \in Int, NEW length \in Nat,
         MinFrames <= length, length <= MaxFrames,
         NEW gap \in m * MinFrames .. m * MaxFrames,
         d \in - (n * (MaxFrames - MinFrames)) .. n * (MaxFrames - MinFrames)
  PROVE  d + m * length - gap
           \in - ((n + m) * (MaxFrames - MinFrames)) .. (n + m) * (MaxFrames - MinFrames)
  <1> DEFINE slack == MaxFrames - MinFrames
  <1>1. m * MinFrames <= m * length /\ m * length <= m * MaxFrames
    BY Bounds
  <1>2. (n + m) * slack = n * slack + m * slack /\ m * slack = m * MaxFrames - m * MinFrames
    BY Bounds
  <1>3. m * MinFrames \in Nat /\ m * MaxFrames \in Nat /\ m * length \in Nat
        /\ n * slack \in Nat /\ m * slack \in Nat
    BY Bounds
  <1> QED BY <1>1, <1>2, <1>3

(* A piece more, in the same format.                                       *)
LEMMA PieceFacts ==
  ASSUME NEW s \in Seq(Pieces), NEW x \in Pieces, NEW f,
         \A i \in DOMAIN s : s[i].format = f, x.format = f
  PROVE  /\ Append(s, x) \in Seq(Pieces)
         /\ \A i \in DOMAIN Append(s, x) : Append(s, x)[i].format = f
         /\ FramesOf(s) \in Nat /\ FramesOf(Append(s, x)) = FramesOf(s) + x.frames
  <1> DEFINE t == Append(s, x)
  <1>1. /\ t \in Seq(Pieces) /\ Len(t) = Len(s) + 1 /\ t[Len(s) + 1] = x
        /\ \A i \in 1 .. Len(s) : t[i] = s[i]
    BY AppendProperties
  <1>2. Len(s) \in Nat /\ DOMAIN s = 1 .. Len(s) /\ DOMAIN t = 1 .. Len(t)
    BY <1>1, LenProperties
  <1>3. \A i \in DOMAIN t : i \in DOMAIN s \/ i = Len(s) + 1
    BY <1>1, <1>2
  <1>4. \A y \in Pieces : y.frames \in Nat
    BY DEF Pieces
  <1>5. FramesOf(s) \in Nat /\ FramesOf(t) = FramesOf(s) + x.frames
    BY <1>4, FramesFacts
  <1> HIDE DEF t
  <1>6. \A i \in DOMAIN t : t[i].format = f
    BY <1>1, <1>2, <1>3
  <1> QED BY <1>1, <1>5, <1>6 DEF t

LEMMA NoPieces ==
  << >> \in Seq(Pieces) /\ FramesOf(<< >>) = 0 /\ DOMAIN << >> = {}
  <1>1. << >> \in Seq(Pieces) /\ DOMAIN << >> = {}
    OBVIOUS
  <1>2. \A y \in Pieces : y.frames \in Nat
    BY DEF Pieces
  <1> QED BY <1>1, <1>2, FramesFacts

(* The batch with the gap before a packet concealed.                       *)
LEMMA GapFacts ==
  ASSUME RelayIInv, NEW pos \in Places, expectedFormat \in {NoFormat, FormatOf(pos)}
  PROVE  /\ Missing(pos) \in Nat /\ Missing(pos) * LengthOf(pos) \in Nat
         /\ WithGap(pos) \in Seq(Pieces)
         /\ FramesOf(WithGap(pos)) = batchedFrames + Missing(pos) * LengthOf(pos)
         /\ \A i \in DOMAIN WithGap(pos) : WithGap(pos)[i].format = FormatOf(pos)
  <1>1. RelayTypes /\ Lasting /\ ExpectedPlace /\ InFormat /\ FramesKept
    BY DEF RelayIInv, RelayKeepsTime
  <1>2. FormatOf(pos) \in Formats /\ LengthOf(pos) \in Nat /\ 0 * LengthOf(pos) = 0
    BY <1>1, LengthFacts DEF FormatOf, Formats
  <1>3. \A i \in DOMAIN batch : batch[i].format = FormatOf(pos)
    <2>1. batch # << >> => expectedFormat = FormatOf(pos)
      BY <1>1 DEF InFormat
    <2>2. batch = << >> => DOMAIN batch = {}
      BY NoPieces
    <2> QED BY <1>1, <2>1, <2>2 DEF InFormat
  <1>4. batch \in Seq(Pieces) /\ batchedFrames = FramesOf(batch) /\ batchedFrames \in Nat
    BY <1>1 DEF RelayTypes, FramesKept
  <1>5. CASE ~ IsGap(pos)
    <2>1. Missing(pos) = 0 /\ WithGap(pos) = batch
      BY <1>5 DEF Missing, WithGap
    <2> QED BY <1>2, <1>3, <1>4, <2>1
  <1>6. CASE IsGap(pos)
    <2>1. nextExpected # NoSeq
      BY <1>6 DEF IsGap
    <2>2. PICK e \in joinedAt + 1 .. Count : nextExpected = NumberOf(e)
      BY <1>1, <2>1 DEF ExpectedPlace
    <2>3. e \in 1 .. Count /\ e \in Nat /\ pos \in Nat
      BY <1>1, StartFacts, LengthFacts DEF RelayTypes
    <2>4. Missing(pos) = pos - e /\ pos > e
      BY <1>1, <1>6, <2>1, <2>2, <2>3, PlaceFacts
    <2>5. expectedFormat = FormatOf(pos)
      BY <1>1, <2>1, RelayAssumption DEF ExpectedPlace, Formats
    <2>6. Missing(pos) \in Nat /\ Missing(pos) * LengthOf(pos) \in Nat
      BY <1>2, <2>3, <2>4
    <2> DEFINE new == Concealed(Missing(pos), LengthOf(pos))
    <2>7. /\ new \in Pieces /\ new.format = FormatOf(pos)
          /\ new.frames = Missing(pos) * LengthOf(pos)
      BY <1>2, <2>5, <2>6 DEF Concealed, Pieces
    <2>8. WithGap(pos) = Append(batch, new)
      BY <1>6 DEF WithGap
    <2> HIDE DEF new
    <2> QED BY <1>3, <1>4, <2>6, <2>7, <2>8, PieceFacts
  <1> QED BY <1>5, <1>6

(* A packet makes the span longer by itself and by the gap before it, or   *)
(* it is one too many.                                                     *)
LEMMA SpanStep ==
  ASSUME RelayIInv, NEW pos \in Places, Hear(pos)
  PROVE  /\ Missing(pos) \in Nat
         /\ \E gap \in Int :
              /\ gap \in Missing(pos) * MinFrames .. Missing(pos) * MaxFrames
              /\ Passed' + surplus' = Passed + surplus + LengthOf(pos) + gap
         /\ Passed' \in Int /\ surplus' \in Nat /\ joinedAt' \in 0 .. Count'
         /\ nextExpected' # NoSeq
         /\ \E e \in joinedAt' + 1 .. Count' : nextExpected' = NumberOf(e)
  <1>1. RelayTypes /\ Lasting /\ ExpectedPlace
    BY DEF RelayIInv
  <1>2. /\ nextExpected' = IF IsLate(pos) THEN nextExpected ELSE NumberOf(pos + 1)
        /\ joinedAt' = IF nextExpected = NoSeq THEN pos ELSE joinedAt
        /\ surplus' = surplus + (IF IsLate(pos) THEN LengthOf(pos) ELSE 0)
        /\ published' = published
    BY DEF Hear
  <1>3. /\ Count \in Nat /\ Count <= MaxSent /\ MaxSent \in Nat /\ Count' = Count
        /\ surplus \in Nat /\ joinedAt \in 0 .. Count /\ pos \in Nat /\ pos < Count
        /\ LengthOf(pos) \in Nat /\ Passed \in Int
    BY <1>1, <1>2, StartFacts, LengthFacts, PassedType, Bounds DEF RelayTypes, Count
  <1>4. \A j, e \in 0 .. MaxSent : j <= e => Distance(NumberOf(e), NumberOf(j)) = e - j
    BY NumberFacts
  <1>5. \A e \in 0 .. MaxSent : NumberOf(e) # NoSeq
    <2>1. \A e \in 0 .. MaxSent : NumberOf(e) \in 0 .. SeqSpace - 1
      BY NumberFacts
    <2>2. SeqSpace \in Nat /\ NoSeq \notin Int
      BY RelayAssumption
    <2> QED BY <2>1, <2>2
  <1>6. \A i \in 0 .. Count : StartOf(i) \in Nat /\ StartOf(i)' = StartOf(i)
    BY <1>1, <1>2, StartFacts DEF StartOf
  <1>7. \A j, e \in 0 .. Count :
          j <= e /\ joinedAt' = j /\ nextExpected' = NumberOf(e) =>
            Passed' = StartOf(e) - StartOf(j)
    <2> SUFFICES ASSUME NEW j \in 0 .. Count, NEW e \in 0 .. Count, j <= e, joinedAt' = j,
                        nextExpected' = NumberOf(e)
                 PROVE  Passed' = StartOf(e) - StartOf(j)
      OBVIOUS
    <2>1. j \in 0 .. MaxSent /\ e \in 0 .. MaxSent
      BY <1>3
    <2>2. nextExpected' # NoSeq /\ Distance(nextExpected', NumberOf(j)) = e - j
      BY <1>4, <1>5, <2>1
    <2>3. Span' = e - j
      BY <2>2 DEF Span, NumberOf, Distance
    <2>4. j + Span' = e
      BY <2>1, <2>3
    <2>5. Passed' = StartOf(e)' - StartOf(j)'
      BY <2>4 DEF Passed, StartOf
    <2> QED BY <1>6, <2>5
  <1>8. 0 * MinFrames = 0 /\ 0 * MaxFrames = 0 /\ 0 \in 0 .. 0
    BY Bounds
  <1>9. CASE nextExpected = NoSeq
    <2>1. ~ IsLate(pos) /\ Missing(pos) = 0
      BY <1>9 DEF IsLate, Missing, IsGap
    <2>2. nextExpected' = NumberOf(pos + 1) /\ joinedAt' = pos /\ surplus' = surplus
      BY <1>2, <1>3, <1>9, <2>1
    <2>3. /\ pos + 1 \in 0 .. Count /\ pos \in 0 .. Count /\ pos + 1 \in 0 .. MaxSent
          /\ pos + 1 \in joinedAt' + 1 .. Count' /\ joinedAt' \in 0 .. Count'
      BY <1>3, <2>2
    <2>4. nextExpected' # NoSeq
      BY <1>5, <2>2, <2>3
    <2>5. Passed = 0 /\ Passed' = LengthOf(pos)
      BY <1>1, <1>3, <1>7, <1>9, <2>2, <2>3, PassedType DEF LengthOf
    <2>6. Passed' + surplus' = Passed + surplus + LengthOf(pos) + 0
      BY <1>3, <2>2, <2>5
    <2> QED BY <1>3, <1>8, <2>1, <2>2, <2>3, <2>4, <2>5, <2>6
  <1>10. CASE nextExpected # NoSeq
    <2>1. PICK e \in joinedAt + 1 .. Count : nextExpected = NumberOf(e)
      BY <1>1, <1>10 DEF ExpectedPlace
    <2>2. e \in 1 .. Count /\ e \in 0 .. Count /\ joinedAt < e /\ joinedAt \in Nat
      BY <1>3
    <2>3. /\ IsLate(pos) <=> pos < e
          /\ Missing(pos) = IF pos > e THEN pos - e ELSE 0
      BY <1>1, <1>10, <2>1, <2>2, PlaceFacts
    <2>4. Passed = StartOf(e) - StartOf(joinedAt) /\ joinedAt' = joinedAt
      <3>1. Span = e - joinedAt
        BY <1>1, <2>1, SpanFacts
      <3>2. joinedAt + Span = e
        BY <2>2, <3>1
      <3> QED BY <1>2, <1>10, <3>2 DEF Passed
    <2>5. CASE pos < e
      <3>1. /\ nextExpected' = NumberOf(e) /\ surplus' = surplus + LengthOf(pos) /\ Missing(pos) = 0
        BY <1>2, <1>3, <2>1, <2>2, <2>3, <2>5
      <3>2. Passed' = Passed
        BY <1>3, <1>7, <2>2, <2>4, <3>1
      <3>3. Passed' + surplus' = Passed + surplus + LengthOf(pos) + 0
        BY <1>3, <3>1, <3>2
      <3>4. nextExpected' # NoSeq
        BY <1>2, <1>10, <2>3, <2>5
      <3> QED BY <1>3, <1>8, <2>1, <2>2, <2>4, <3>1, <3>2, <3>3, <3>4
    <2>6. CASE ~ (pos < e)
      <3>1. /\ nextExpected' = NumberOf(pos + 1) /\ surplus' = surplus /\ Missing(pos) = pos - e
            /\ pos - e \in Nat
        BY <1>2, <1>3, <2>2, <2>3, <2>6
      <3>2. /\ pos + 1 \in 0 .. Count /\ pos + 1 \in 0 .. MaxSent /\ pos \in 0 .. Count
            /\ joinedAt <= pos + 1 /\ pos + 1 \in joinedAt' + 1 .. Count' /\ e <= pos
        BY <1>3, <2>2, <2>4, <2>6
      <3>3. nextExpected' # NoSeq
        BY <1>5, <3>1, <3>2
      <3>4. Passed' = StartOf(pos + 1) - StartOf(joinedAt)
        BY <1>3, <1>7, <2>4, <3>1, <3>2
      <3> DEFINE gap == StartOf(pos) - StartOf(e)
      <3>5. gap \in Missing(pos) * MinFrames .. Missing(pos) * MaxFrames
        BY <1>1, <2>2, <3>1, <3>2 DEF Lasting
      <3>6. Passed' + surplus' = Passed + surplus + LengthOf(pos) + gap
        <4>1. /\ StartOf(pos) \in Nat /\ StartOf(pos + 1) \in Nat /\ StartOf(e) \in Nat
              /\ StartOf(joinedAt) \in Nat
          BY <1>3, <1>6, <2>2, <3>2
        <4> QED BY <1>3, <2>4, <3>1, <3>4, <4>1 DEF LengthOf
      <3>7. Passed' \in Int
        BY <1>3, <1>6, <3>2, <3>4
      <3> HIDE DEF gap
      <3> QED BY <1>3, <2>4, <3>1, <3>2, <3>3, <3>5, <3>6, <3>7
    <2> QED BY <2>5, <2>6
  <1> QED BY <1>9, <1>10

(* Frames are relayed, discarded or batched, whichever they were before.   *)
LEMMA Moved ==
  ASSUME NEW a \in Nat, NEW b \in Nat, NEW c \in Nat, NEW a2 \in Nat, NEW b2 \in Nat, NEW c2 \in Nat,
         NEW k \in Nat, NEW m \in Nat, NEW n \in Nat, NEW s \in Nat, NEW s2 \in Nat,
         NEW p \in Int, NEW p2 \in Int, NEW gap \in Int,
         a2 + c2 = a + k + n, b2 + k = b + c + m, p2 + s2 = p + s + n + gap
  PROVE  a2 + b2 + c2 - s2 - p2 = (a + b + c - s - p) + m - gap
  OBVIOUS

(* A packet that is heard: the batch and its frames grow together, or are  *)
(* sent, or thrown away together.                                          *)
LEMMA HearKeeps ==
  ASSUME RelayIInv, NEW pos \in Places, Hear(pos)
  PROVE  RelayIInv'
  <1> DEFINE with == WithGap(pos)
             new == Heard(pos)
             format == FormatOf(pos)
             missing == Missing(pos)
             length == LengthOf(pos)
             gapFrames == missing * length
             gapped == batchedFrames + gapFrames
             kept == IF disconnected THEN Cleared(with, gapped)
                     ELSE [pieces |-> with, frames |-> gapped]
             pieces == Append(kept.pieces, new)
             frames == kept.frames + length
  <1>1. RelayTypes /\ Lasting /\ ExpectedPlace /\ OneFormat /\ InFormat /\ FramesKept
    BY DEF RelayIInv, RelayKeepsTime
  <1>2. /\ expectedFormat \in {NoFormat, format} /\ expectedFormat' = format
        /\ told' = [format |-> format, flows |-> TRUE]
        /\ history' = history \cup {pos}
        /\ discarded' = discarded + (IF disconnected THEN FramesOf(with) ELSE 0)
        /\ concealed' = concealed + missing
        /\ \/ /\ batch' = << >> /\ batchedFrames' = 0 /\ relayed' = relayed + FramesOf(pieces)
           \/ /\ batch' = pieces /\ batchedFrames' = frames /\ relayed' = relayed
        /\ UNCHANGED <<published, changeAt>>
    BY DEF Hear
  <1>3. /\ missing \in Nat /\ gapFrames \in Nat /\ with \in Seq(Pieces)
        /\ FramesOf(with) = batchedFrames + gapFrames
        /\ \A i \in DOMAIN with : with[i].format = format
    BY <1>2, GapFacts
  <1>4. /\ length \in Nat /\ MinFrames <= length /\ length <= MaxFrames
        /\ batchedFrames \in Nat /\ relayed \in Nat /\ discarded \in Nat
        /\ surplus \in Nat /\ concealed \in Nat
    BY <1>1, LengthFacts DEF RelayTypes
  <1>5. format \in Formats /\ new \in Pieces /\ new.format = format /\ new.frames = length
    BY <1>4 DEF Heard, Pieces, Formats, FormatOf
  <1> HIDE DEF length, gapFrames
  <1>6. /\ kept.pieces \in Seq(Pieces) /\ kept.frames = FramesOf(kept.pieces)
        /\ \A i \in DOMAIN kept.pieces : kept.pieces[i].format = format
        /\ kept.frames \in Nat
        /\ discarded' \in Nat
        /\ discarded' + kept.frames = discarded + batchedFrames + gapFrames
    <2>1. CASE disconnected
      <3>1. kept.pieces = << >> /\ kept.frames = 0
        BY <2>1 DEF Cleared
      <3>2. discarded' = discarded + (batchedFrames + gapFrames)
        BY <1>2, <1>3, <2>1
      <3> HIDE DEF kept, with, missing
      <3> QED BY <1>3, <1>4, <3>1, <3>2, NoPieces
    <2>2. CASE ~ disconnected
      <3>1. kept.pieces = with /\ kept.frames = batchedFrames + gapFrames
        BY <1>4, <2>2
      <3>2. discarded' = discarded + 0
        BY <1>2, <2>2
      <3> HIDE DEF kept, with, missing
      <3> QED BY <1>3, <1>4, <3>1, <3>2
    <2> QED BY <2>1, <2>2
  <1> HIDE DEF kept, with, new, missing, format
  <1>7. /\ pieces \in Seq(Pieces) /\ FramesOf(pieces) = frames /\ frames \in Nat
        /\ \A i \in DOMAIN pieces : pieces[i].format = format
    BY <1>4, <1>5, <1>6, PieceFacts
  <1> HIDE DEF pieces
  <1>8. /\ batch' \in Seq(Pieces) /\ batchedFrames' = FramesOf(batch') /\ batchedFrames' \in Nat
        /\ \A i \in DOMAIN batch' : batch'[i].format = format
        /\ relayed' \in Nat
        /\ relayed' + batchedFrames' = relayed + kept.frames + length
    <2>1. CASE batch' = << >> /\ batchedFrames' = 0 /\ relayed' = relayed + FramesOf(pieces)
      <3>1. batch' \in Seq(Pieces) /\ FramesOf(batch') = 0 /\ DOMAIN batch' = {}
        BY <2>1, NoPieces
      <3>2. relayed' = relayed + frames /\ frames = kept.frames + length
        BY <1>7, <2>1
      <3>3. relayed' \in Nat /\ relayed' + batchedFrames' = relayed + kept.frames + length
        <4>1. PICK k \in Nat : k = kept.frames
          BY <1>6
        <4>2. relayed' = relayed + (k + length) /\ batchedFrames' = 0
          BY <2>1, <3>2, <4>1
        <4> QED BY <1>4, <4>1, <4>2
      <3> QED BY <2>1, <3>1, <3>3
    <2>2. CASE batch' = pieces /\ batchedFrames' = frames /\ relayed' = relayed
      BY <1>4, <1>6, <1>7, <2>2
    <2> QED BY <1>2, <2>1, <2>2
  <1>9. PICK gap \in Int :
          /\ gap \in missing * MinFrames .. missing * MaxFrames
          /\ Passed' + surplus' = Passed + surplus + length + gap
    BY SpanStep DEF missing, length
  <1>9a. /\ Passed' \in Int /\ surplus' \in Nat /\ joinedAt' \in 0 .. Count'
         /\ nextExpected' # NoSeq
         /\ \E e \in joinedAt' + 1 .. Count' : nextExpected' = NumberOf(e)
    BY SpanStep
  <1>9b. concealed' \in Nat /\ Passed \in Int
    BY <1>1, <1>2, <1>3, <1>4, PassedType
  <1>10. RelayTypes'
    <2>1. history' \subseteq Places' /\ Count' = Count
      BY <1>1, <1>2 DEF RelayTypes, Places, Count
    <2> QED BY <1>1, <1>2, <1>6, <1>8, <1>9a, <1>9b, <2>1 DEF RelayTypes
  <1>10a. Lasting'
    BY <1>1, <1>2 DEF Lasting, StartOf, Count
  <1>11. ExpectedPlace'
    <2>1. expectedFormat' \in Formats
      BY <1>2, <1>5
    <2> QED BY <1>9a, <2>1 DEF ExpectedPlace, NumberOf
  <1>12. OneFormat'
    <2>1. \A p \in history : FormatOf(p) = format
      <3>1. CASE nextExpected = NoSeq
        BY <1>1, <3>1 DEF ExpectedPlace
      <3>2. CASE nextExpected # NoSeq
        <4>1. expectedFormat = format
          BY <1>1, <1>2, <3>2, RelayAssumption DEF ExpectedPlace, Formats
        <4> QED BY <1>1, <4>1 DEF OneFormat
      <3> QED BY <3>1, <3>2
    <2> QED BY <1>2, <2>1 DEF OneFormat, FormatOf, format
  <1>13. InFormat'
    <2>1. told'.format = format /\ format # NoFormat
      BY <1>2, <1>5, RelayAssumption DEF Formats
    <2> QED BY <1>2, <1>8, <2>1 DEF InFormat
  <1>14. FramesKept'
    <2> DEFINE slack == MaxFrames - MinFrames
    <2>1. Drift \in - (concealed * slack) .. concealed * slack
      BY <1>1 DEF FramesKept
    <2>2. Drift \in Int
      BY <1>4, <1>9b, DriftIs
    <2>3. Drift' = Drift + missing * length - gap
      <3>1. kept.frames \in Nat /\ gapFrames \in Nat /\ length \in Nat
        BY <1>3, <1>4, <1>6
      <3>2. /\ relayed \in Nat /\ discarded \in Nat /\ batchedFrames \in Nat
            /\ relayed' \in Nat /\ discarded' \in Nat /\ batchedFrames' \in Nat
            /\ surplus \in Nat /\ surplus' \in Nat /\ Passed \in Int /\ Passed' \in Int
        BY <1>4, <1>6, <1>8, <1>9a, <1>9b
      <3>3. relayed' + discarded' + batchedFrames' - surplus' - Passed'
              = (relayed + discarded + batchedFrames - surplus - Passed) + gapFrames - gap
        <4>1. PICK a2 \in Nat, b2 \in Nat, c2 \in Nat, s2 \in Nat :
                 a2 = relayed' /\ b2 = discarded' /\ c2 = batchedFrames' /\ s2 = surplus'
          BY <3>2
        <4>2. PICK a \in Nat, b \in Nat, c \in Nat, s \in Nat :
                 a = relayed /\ b = discarded /\ c = batchedFrames /\ s = surplus
          BY <3>2
        <4>3. PICK p \in Int, p2 \in Int, k \in Nat, m \in Nat, n \in Nat :
                 p = Passed /\ p2 = Passed' /\ k = kept.frames /\ m = gapFrames /\ n = length
          BY <3>1, <3>2
        <4>4. a2 + c2 = a + k + n
          BY <1>8, <4>1, <4>2, <4>3
        <4>5. b2 + k = b + c + m
          BY <1>6, <4>1, <4>2, <4>3
        <4>6. p2 + s2 = p + s + n + gap
          BY <1>9, <4>1, <4>2, <4>3
        <4>7. a2 + b2 + c2 - s2 - p2 = (a + b + c - s - p) + m - gap
          BY <4>4, <4>5, <4>6, Moved
        <4> QED BY <4>1, <4>2, <4>3, <4>7
      <3>4. Drift' = relayed' + discarded' + batchedFrames' - surplus' - Passed'
        BY DEF Drift, Passed, Span
      <3> QED BY <3>3, <3>4, DriftIs DEF gapFrames
    <2>4. Drift + missing * length - gap \in - ((concealed + missing) * slack) .. (concealed + missing) * slack
      BY <1>3, <1>4, <1>9, <2>1, <2>2, DriftGrows
    <2>5. Drift' \in - (concealed' * slack) .. concealed' * slack
      BY <1>2, <2>3, <2>4
    <2> QED BY <1>8, <2>5 DEF FramesKept
  <1> QED BY <1>10, <1>10a, <1>11, <1>12, <1>13, <1>14 DEF RelayIInv, RelayKeepsTime

(* What parity rebuilds comes on top, in the format of its group.          *)
LEMMA HearParityKeeps ==
  ASSUME RelayIInv, NEW pos \in Places, HearParity(pos)
  PROVE  RelayIInv'
  <1> DEFINE length == LengthOf(FirstOf(pos))
             group == {p \in Places : p \div GroupSize = pos \div GroupSize}
             new == Rebuilt(pos)
  <1>1. RelayTypes /\ Lasting /\ ExpectedPlace /\ OneFormat /\ InFormat /\ FramesKept
    BY DEF RelayIInv, RelayKeepsTime
  <1>2. /\ Cardinality(group) = GroupSize /\ group \ history = {pos}
        /\ history' = history \cup {pos} /\ batch' = Append(batch, new)
        /\ batchedFrames' = batchedFrames + length /\ surplus' = surplus + length
        /\ UNCHANGED <<published, changeAt, nextExpected, expectedFormat, joinedAt, concealed,
                       told, relayed, discarded>>
    BY DEF HearParity
  <1>3. PICK q \in group : q \in history
    <2>1. group # {pos}
      <3>1. Cardinality({pos}) = 1
        BY FS_Singleton
      <3> QED BY <1>2, <3>1, RelayAssumption
    <2> QED BY <1>2, <2>1
  <1>4. FormatOf(pos) = expectedFormat /\ nextExpected # NoSeq /\ expectedFormat \in Formats
    <2>1. q \in Nat /\ pos \in Nat /\ q \div GroupSize = pos \div GroupSize
      BY <1>3 DEF Places
    <2>2. FormatOf(q) = FormatOf(pos)
      BY <1>1, <2>1, GroupFormat
    <2>3. FormatOf(q) = expectedFormat
      BY <1>1, <1>3 DEF OneFormat
    <2>4. nextExpected # NoSeq
      BY <1>1, <1>3 DEF ExpectedPlace
    <2> QED BY <1>1, <2>2, <2>3, <2>4 DEF ExpectedPlace
  <1>5. /\ length \in Nat /\ concealed \in Nat /\ batchedFrames \in Nat /\ surplus \in Nat /\ relayed \in Nat
        /\ discarded \in Nat /\ batch \in Seq(Pieces) /\ batchedFrames = FramesOf(batch)
    BY <1>1, FirstIsPlace, LengthFacts DEF RelayTypes, FramesKept
  <1>6. new \in Pieces /\ new.format = expectedFormat /\ new.frames = length
    BY <1>4, <1>5 DEF Rebuilt, Pieces
  <1>7. /\ batch' \in Seq(Pieces) /\ FramesOf(batch') = batchedFrames + length
        /\ \A i \in DOMAIN batch' : batch'[i].format = expectedFormat
    <2>1. \A i \in DOMAIN batch : batch[i].format = expectedFormat
      BY <1>1 DEF InFormat
    <2> HIDE DEF new
    <2> QED BY <1>2, <1>5, <1>6, <2>1, PieceFacts
  <1> HIDE DEF length
  <1>8. RelayTypes'
    <2>1. history' \subseteq Places' /\ Count' = Count
      BY <1>1, <1>2 DEF RelayTypes, Places, Count
    <2> QED BY <1>1, <1>2, <1>5, <1>7, <2>1 DEF RelayTypes
  <1>8a. Lasting'
    BY <1>1, <1>2 DEF Lasting, StartOf, Count
  <1>9. ExpectedPlace'
    BY <1>1, <1>2, <1>4 DEF ExpectedPlace, NumberOf, Count
  <1>10. OneFormat'
    BY <1>1, <1>2, <1>4 DEF OneFormat, FormatOf
  <1>11. InFormat'
    <2>1. told.format = expectedFormat /\ expectedFormat # NoFormat
      BY <1>1, <1>4, RelayAssumption DEF InFormat, Formats
    <2> QED BY <1>2, <1>7, <2>1 DEF InFormat
  <1>12. FramesKept'
    <2>1. Passed' = Passed /\ Passed \in Int
      BY <1>1, <1>2, PassedType DEF Passed, Span, StartOf, NumberOf
    <2>2. Drift' = relayed' + discarded' + batchedFrames' - surplus' - Passed'
      BY DEF Drift, Passed, Span
    <2>3. Drift' = Drift
      <3>1. /\ relayed' = relayed /\ discarded' = discarded
            /\ batchedFrames' = batchedFrames + length /\ surplus' = surplus + length
        BY <1>2
      <3> QED BY <1>5, <2>1, <2>2, <3>1, DriftIs
    <2> QED BY <1>1, <1>2, <1>7, <2>3 DEF FramesKept
  <1> QED BY <1>8, <1>8a, <1>9, <1>10, <1>11, <1>12 DEF RelayIInv, RelayKeepsTime

(* A batch that is old is sent; nothing else the relay does moves frames.  *)
LEMMA TimeOutKeeps ==
  ASSUME RelayIInv, TimeOut
  PROVE  RelayIInv'
  <1>1. RelayTypes /\ Lasting /\ ExpectedPlace /\ OneFormat /\ InFormat /\ FramesKept
    BY DEF RelayIInv, RelayKeepsTime
  <1>2. /\ batch' = << >> /\ batchedFrames' = 0 /\ relayed' = relayed + FramesOf(batch)
        /\ told' = [told EXCEPT !.flows = ~ disconnected']
        /\ UNCHANGED <<published, changeAt, nextExpected, expectedFormat, history, joinedAt,
                       surplus, concealed, discarded>>
    BY DEF TimeOut
  <1>3. /\ relayed \in Nat /\ discarded \in Nat /\ batchedFrames \in Nat
        /\ batchedFrames = FramesOf(batch)
    BY <1>1 DEF RelayTypes, FramesKept
  <1>4. told' = [format |-> told'.format, flows |-> told'.flows] /\ told'.format = told.format
    BY <1>1, <1>2 DEF RelayTypes
  <1>5. RelayTypes'
    BY <1>1, <1>2, <1>3, <1>4, NoPieces DEF RelayTypes, Count, Places
  <1>5a. Lasting'
    BY <1>1, <1>2 DEF Lasting, StartOf, Count
  <1>6. ExpectedPlace'
    BY <1>1, <1>2, NoPieces DEF ExpectedPlace, NumberOf, Count
  <1>7. OneFormat'
    BY <1>1, <1>2 DEF OneFormat, FormatOf
  <1>8. InFormat'
    BY <1>1, <1>2, <1>4, NoPieces DEF InFormat
  <1>9. FramesKept'
    <2>1. Passed' = Passed /\ Passed \in Int
      BY <1>1, <1>2, PassedType DEF Passed, Span, StartOf, NumberOf
    <2>2. Drift' = relayed' + discarded' + batchedFrames' - surplus' - Passed'
      BY DEF Drift, Passed, Span
    <2>3. surplus \in Nat /\ concealed \in Nat
      BY <1>1 DEF RelayTypes
    <2>4. Drift' = Drift
      BY <1>2, <1>3, <2>1, <2>2, <2>3, DriftIs
    <2> QED BY <1>1, <1>2, <2>4, NoPieces DEF FramesKept
  <1> QED BY <1>5, <1>5a, <1>6, <1>7, <1>8, <1>9 DEF RelayIInv, RelayKeepsTime

(* What is published changes nothing for what was heard.                   *)
LEMMA SameRelay ==
  ASSUME RelayIInv,
         UNCHANGED <<published, changeAt, nextExpected, expectedFormat, history, batch,
                     batchedFrames, joinedAt, surplus, concealed, told, relayed, discarded>>
  PROVE  RelayIInv'
  <1>1. RelayTypes /\ Lasting /\ ExpectedPlace /\ OneFormat /\ InFormat /\ FramesKept
    BY DEF RelayIInv, RelayKeepsTime
  <1>2. RelayTypes' /\ Lasting' /\ ExpectedPlace' /\ OneFormat'
    BY <1>1 DEF RelayTypes, Lasting, ExpectedPlace, OneFormat, Places, Count, StartOf, NumberOf,
                FormatOf
  <1>3. InFormat' /\ FramesKept'
    BY <1>1 DEF InFormat, FramesKept, Drift, StartOf, NumberOf
  <1> QED BY <1>2, <1>3 DEF RelayIInv, RelayKeepsTime

LEMMA PublishKeeps ==
  ASSUME RelayIInv, Publish
  PROVE  RelayIInv'
  <1>1. RelayTypes /\ Lasting /\ ExpectedPlace /\ OneFormat /\ InFormat /\ FramesKept
    BY DEF RelayIInv, RelayKeepsTime
  <1>2. PICK frames \in MinFrames .. MaxFrames :
          published' = Append(published, StartOf(Count) + frames)
    BY DEF Publish, Count
  <1>2a. PICK n \in Nat : n = Count
    BY <1>1, StartFacts
  <1>3. /\ Len(published) < MaxSent
        /\ UNCHANGED <<changeAt, nextExpected, expectedFormat, history, batch, batchedFrames,
                       joinedAt, surplus, concealed, told, relayed, discarded>>
    BY DEF Publish
  <1>4. /\ n = Count /\ frames \in Nat /\ \A i \in 0 .. n : StartOf(i) \in Nat
        /\ n < MaxSent
    BY <1>1, <1>2a, <1>3, StartFacts, Bounds DEF Count
  <1>5. /\ published' \in Seq(Nat) /\ Count' = n + 1
        /\ \A i \in 0 .. n : StartOf(i)' = StartOf(i)
        /\ StartOf(n + 1)' = StartOf(n) + frames
    <2>1. published \in Seq(Nat) /\ StartOf(n) + frames \in Nat /\ n \in 0 .. n
      BY <1>1, <1>4 DEF RelayTypes
    <2>2. /\ published' \in Seq(Nat) /\ Count' = n + 1
          /\ \A i \in 1 .. n : published'[i] = published[i]
          /\ published'[n + 1] = StartOf(n) + frames
      <3>1. published' = Append(published, StartOf(n) + frames) /\ Len(published) = n
        BY <1>2, <1>4 DEF Count
      <3> QED BY <2>1, <3>1, AppendProperties DEF Count
    <2>3. ASSUME NEW i \in 0 .. n PROVE StartOf(i)' = StartOf(i)
      BY <1>4, <2>2 DEF StartOf
    <2>4. StartOf(n + 1)' = StartOf(n) + frames
      BY <1>4, <2>2 DEF StartOf
    <2> QED BY <2>2, <2>3, <2>4
  <1>6. RelayTypes'
    <2>1. Count' <= MaxSent /\ joinedAt' \in 0 .. Count'
      BY <1>1, <1>3, <1>4, <1>5, Bounds DEF RelayTypes
    <2>2. history' \subseteq Places'
      <3>1. Places \subseteq Places'
        BY <1>4, <1>5 DEF Places, Count
      <3> QED BY <1>1, <1>3, <3>1 DEF RelayTypes
    <2> QED BY <1>1, <1>3, <1>5, <2>1, <2>2 DEF RelayTypes
  <1>7. Lasting'
    <2> SUFFICES ASSUME NEW i \in 0 .. n + 1, NEW j \in 0 .. n + 1, i <= j
                 PROVE  StartOf(j)' - StartOf(i)' \in (j - i) * MinFrames .. (j - i) * MaxFrames
      BY <1>5 DEF Lasting
    <2>1. CASE j <= n
      <3>1. i \in 0 .. n /\ j \in 0 .. n
        BY <1>4, <2>1
      <3>2. StartOf(j)' = StartOf(j) /\ StartOf(i)' = StartOf(i)
        BY <1>5, <3>1
      <3> QED BY <1>1, <1>4, <3>1, <3>2 DEF Lasting
    <2>2. CASE i = n + 1
      <3>1. j = i /\ j - i = 0
        BY <1>4, <2>2
      <3>2. StartOf(j)' - StartOf(i)' = 0 /\ 0 * MinFrames = 0 /\ 0 * MaxFrames = 0
        BY <1>4, <1>5, <2>2, <3>1, Bounds
      <3> QED BY <3>1, <3>2
    <2>3. CASE i <= n /\ j = n + 1
      <3>1. i \in 0 .. n /\ n \in 0 .. n /\ i <= n /\ n - i \in Nat
        BY <1>4, <2>3
      <3>2. StartOf(n) - StartOf(i) \in (n - i) * MinFrames .. (n - i) * MaxFrames
        BY <1>1, <1>4, <3>1 DEF Lasting
      <3>3. StartOf(j)' - StartOf(i)' = (StartOf(n) - StartOf(i)) + frames
        BY <1>4, <1>5, <2>3, <3>1
      <3>4. j - i = (n - i) + 1
        BY <1>4, <2>3
      <3>5. \A k \in Nat : (k + 1) * MinFrames = k * MinFrames + MinFrames
                           /\ (k + 1) * MaxFrames = k * MaxFrames + MaxFrames
                           /\ k * MinFrames \in Nat /\ k * MaxFrames \in Nat
        BY Bounds
      <3>6. frames \in Nat /\ MinFrames <= frames /\ frames <= MaxFrames
        BY <1>4, Bounds
      <3> QED BY <1>4, <3>1, <3>2, <3>3, <3>4, <3>5, <3>6, Bounds
    <2> QED BY <1>4, <2>1, <2>2, <2>3
  <1>8. ExpectedPlace'
    <2>1. joinedAt \in Nat
      BY <1>1, <1>4 DEF RelayTypes
    <2> QED BY <1>1, <1>3, <1>4, <1>5, <2>1 DEF ExpectedPlace, NumberOf
  <1>9. OneFormat'
    BY <1>1, <1>3 DEF OneFormat, FormatOf
  <1>10. InFormat'
    BY <1>1, <1>3 DEF InFormat
  <1>11. FramesKept'
    <2>1. Span' = Span
      BY <1>3 DEF Span, NumberOf
    <2>2. PICK j \in 0 .. n, e \in 0 .. n : joinedAt = j /\ joinedAt + Span = e
      BY <1>1, <1>4, PassedType DEF RelayTypes
    <2>3. joinedAt' = j /\ joinedAt' + Span' = e
      BY <1>3, <2>1, <2>2
    <2>4. Passed' = StartOf(e)' - StartOf(j)'
      BY <2>3 DEF Passed, StartOf
    <2>4a. Passed' = Passed
      BY <1>5, <2>2, <2>4 DEF Passed
    <2>5. Drift' = relayed' + discarded' + batchedFrames' - surplus' - Passed'
      BY DEF Drift, Passed, Span
    <2>6. Drift' = Drift
      BY <1>3, <2>4a, <2>5, DriftIs
    <2> QED BY <1>1, <1>3, <2>6 DEF FramesKept
  <1> QED BY <1>6, <1>7, <1>8, <1>9, <1>10, <1>11 DEF RelayIInv, RelayKeepsTime

LEMMA RelayStart == RelayInit => RelayIInv
  <1> SUFFICES ASSUME RelayInit PROVE RelayIInv
    OBVIOUS
  <1>1. published = << >> /\ Count = 0 /\ StartOf(0) = 0
    BY DEF RelayInit, Count, StartOf
  <1>2. RelayTypes
    <2>1. changeAt \in Nat /\ changeAt % GroupSize = 0
      BY RelayAssumption DEF RelayInit
    <2>2. << >> \in Seq(Nat) /\ 0 <= MaxSent
      BY Bounds
    <2> QED BY <1>1, <2>1, <2>2, NoPieces DEF RelayInit, RelayTypes
  <1>3. Lasting
    <2>1. \A i \in 0 .. Count : i = 0
      BY <1>1
    <2>2. 0 * MinFrames = 0 /\ 0 * MaxFrames = 0 /\ 0 - 0 = 0
      BY Bounds
    <2> QED BY <1>1, <2>1, <2>2 DEF Lasting
  <1>4. ExpectedPlace /\ OneFormat
    BY DEF RelayInit, ExpectedPlace, OneFormat
  <1>5. InFormat
    BY NoPieces DEF RelayInit, InFormat
  <1>6. FramesKept
    <2>1. concealed = 0 /\ 0 * (MaxFrames - MinFrames) = 0
      BY Bounds DEF RelayInit
    <2>2. Drift = 0
      <3>1. Passed = 0
        BY <1>2, <1>4, PassedType DEF RelayInit
      <3> QED BY <3>1, DriftIs DEF RelayInit
    <2> QED BY <2>1, <2>2, NoPieces DEF RelayInit, FramesKept
  <1> QED BY <1>2, <1>3, <1>4, <1>5, <1>6 DEF RelayIInv, RelayKeepsTime

LEMMA RelayKeep ==
  ASSUME RelayIInv, RelayNext \/ UNCHANGED relayVars
  PROVE  RelayIInv'
  <1>1. CASE Return \/ UNCHANGED relayVars \/ \E pos \in Places : HearOther(pos)
    BY <1>1, SameRelay DEF Return, relayVars, HearOther
  <1>2. CASE Publish \/ TimeOut
    BY <1>2, PublishKeeps, TimeOutKeeps
  <1>3. CASE \E pos \in Places : Hear(pos) \/ HearParity(pos)
    BY <1>3, HearKeeps, HearParityKeeps
  <1> QED BY <1>1, <1>2, <1>3 DEF RelayNext

-----------------------------------------------------------------------------
(* The publishing browser.                                                 *)

SentPackets == [seq : Nat, frames : Nat]

PublisherTypes ==
  /\ snapshot \subseteq subscribers /\ subscribers \subseteq Receivers
  /\ framesLeft \in Nat /\ webSequence \in Nat
  /\ heardBy \in [Receivers -> Seq(SentPackets)]
  /\ owed \in [Receivers -> Nat]

(* Who was sent a packet was sent the last one, and whom a message is not  *)
(* for was sent none; what is left of a message is owed to those it is for. *)
Owing(r) == IF publishPc = "sending" /\ r \in snapshot THEN framesLeft ELSE 0

Listens ==
  \A r \in Receivers :
    /\ heardBy[r] # << >> =>
         r \in subscribers /\ heardBy[r][Len(heardBy[r])].seq = webSequence - 1
    /\ publishPc = "sending" /\ r \notin snapshot => heardBy[r] = << >>
    /\ FramesIn(heardBy[r]) + Owing(r) = owed[r]

PublisherIInv == PublisherTypes /\ Listens /\ SentWhole

(* No packet: the publisher moves on, or somebody subscribes.              *)
LEMMA NoPacketKeeps ==
  ASSUME PublisherIInv, UNCHANGED <<snapshot, framesLeft, webSequence, heardBy, owed>>,
         subscribers \subseteq subscribers', subscribers' \subseteq Receivers,
         publishPc' = "sending" <=> publishPc = "sending"
  PROVE  PublisherIInv'
  <1>1. PublisherTypes'
    BY DEF PublisherIInv, PublisherTypes
  <1>2. Listens'
    BY DEF PublisherIInv, Listens, Owing
  <1>3. SentWhole'
    BY DEF PublisherIInv, SentWhole
  <1> QED BY <1>1, <1>2, <1>3 DEF PublisherIInv

(* A message is owed to whoever has subscribed.                            *)
LEMMA ReadMessageKeeps ==
  ASSUME PublisherIInv, NEW frames \in MessageFrames, ReadMessage(frames)
  PROVE  PublisherIInv'
  <1>1. PublisherTypes /\ Listens /\ SentWhole
    BY DEF PublisherIInv
  <1>2. /\ publishPc = "reading" /\ snapshot' = subscribers /\ framesLeft' = frames
        /\ owed' = [r \in Receivers |-> IF r \in subscribers THEN owed[r] + frames ELSE owed[r]]
        /\ publishPc' = IF subscribers = {} \/ frames = 0 THEN "looking" ELSE "sending"
        /\ UNCHANGED <<subscribers, webSequence, heardBy>>
    BY DEF ReadMessage
  <1>3. frames \in Nat
    BY WebPublisherAssumption
  <1>4. PublisherTypes'
    BY <1>1, <1>2, <1>3 DEF PublisherTypes
  <1>5. ASSUME NEW r \in Receivers
        PROVE  FramesIn(heardBy'[r]) + Owing(r)' = owed'[r]
    <2>1. FramesIn(heardBy[r]) = owed[r] /\ owed[r] \in Nat
      BY <1>1, <1>2 DEF SentWhole, PublisherTypes
    <2>2. owed'[r] = owed[r] + Owing(r)'
      BY <1>2, <1>3, <2>1 DEF Owing
    <2> QED BY <1>2, <2>1, <2>2
  <1>6. Listens'
    <2>1. \A r \in Receivers : r \notin subscribers => heardBy[r] = << >>
      BY <1>1 DEF Listens
    <2> QED BY <1>1, <1>2, <1>5, <2>1 DEF Listens
  <1>7. SentWhole'
    <2>1. ASSUME NEW r \in Receivers, publishPc' # "sending"
          PROVE  FramesIn(heardBy'[r]) = owed'[r]
      <3>1. FramesIn(heardBy[r]) = owed[r] /\ owed[r] \in Nat
        BY <1>1, <1>2 DEF SentWhole, PublisherTypes
      <3>2. owed'[r] = owed[r]
        BY <1>2, <1>3, <2>1, <3>1
      <3> QED BY <1>2, <3>1, <3>2
    <2> QED BY <1>1, <1>2, <2>1 DEF SentWhole
  <1> QED BY <1>4, <1>6, <1>7 DEF PublisherIInv

(* A packet follows the last one that its receivers were sent.             *)
LEMMA PacketFollows ==
  ASSUME PublisherIInv, SendPacket, NEW r \in snapshot
  PROVE  /\ heardBy'[r] \in Seq(SentPackets)
         /\ heardBy'[r] # << >> /\ heardBy'[r][Len(heardBy'[r])].seq = webSequence
         /\ \A i \in 1 .. Len(heardBy'[r]) - 1 : heardBy'[r][i + 1].seq = heardBy'[r][i].seq + 1
         /\ FramesIn(heardBy'[r]) = FramesIn(heardBy[r]) + SmallerOf(framesLeft, FramesPerPacket)
         /\ FramesIn(heardBy[r]) \in Nat
  <1> DEFINE frames == SmallerOf(framesLeft, FramesPerPacket)
             packet == [seq |-> webSequence, frames |-> frames]
             s == heardBy[r]
             t == Append(s, packet)
  <1>1. PublisherTypes /\ Listens /\ SentWhole /\ r \in Receivers
    BY DEF PublisherIInv, PublisherTypes
  <1>2. framesLeft \in Nat /\ webSequence \in Nat /\ frames \in Nat /\ s \in Seq(SentPackets)
    BY <1>1, WebPublisherAssumption DEF PublisherTypes, SmallerOf
  <1>3. heardBy'[r] = t
    BY <1>1 DEF SendPacket
  <1> HIDE DEF frames
  <1>4. packet \in SentPackets /\ packet.seq = webSequence /\ packet.frames = frames
    BY <1>2 DEF SentPackets
  <1>5. /\ s # << >> => s[Len(s)].seq = webSequence - 1
        /\ \A i \in 1 .. Len(s) - 1 : s[i + 1].seq = s[i].seq + 1
    BY <1>1 DEF Listens, SentWhole
  <1> HIDE DEF packet, s
  <1>6. /\ t \in Seq(SentPackets) /\ Len(t) = Len(s) + 1 /\ t[Len(s) + 1] = packet
        /\ \A i \in 1 .. Len(s) : t[i] = s[i]
    BY <1>2, <1>4, AppendProperties
  <1>7. Len(s) \in Nat /\ (s = << >> <=> Len(s) = 0)
    BY <1>2, LenProperties, EmptySeq
  <1>8. /\ FramesIn(s) \in Nat /\ FramesIn(t) = FramesIn(s) + frames
    <2>1. \A x \in SentPackets : x.frames \in Nat
      BY DEF SentPackets
    <2> HIDE DEF t
    <2>2. FramesIn(s) = FramesOf(s) /\ FramesIn(t) = FramesOf(t) /\ FramesOf(s) \in Nat
      BY <1>2, <1>6, <2>1, FramesFacts
    <2>3. FramesOf(Append(s, packet)) = FramesOf(s) + packet.frames
      BY <1>2, <1>4, <2>1, FramesFacts
    <2> QED BY <1>4, <2>2, <2>3 DEF t
  <1> HIDE DEF t
  <1>9. t # << >> /\ t[Len(t)].seq = webSequence
    <2>1. Len(t) # 0
      BY <1>6, <1>7
    <2> QED BY <1>4, <1>6, <2>1, EmptySeq
  <1>10. \A i \in 1 .. Len(t) - 1 : t[i + 1].seq = t[i].seq + 1
    <2> SUFFICES ASSUME NEW i \in 1 .. Len(t) - 1 PROVE t[i + 1].seq = t[i].seq + 1
      OBVIOUS
    <2>1. i \in 1 .. Len(s) /\ t[i] = s[i]
      BY <1>6, <1>7
    <2>2. CASE i = Len(s)
      <3>1. s[Len(s)].seq = webSequence - 1
        BY <1>5, <1>7, <2>1, <2>2
      <3> QED BY <1>2, <1>4, <1>6, <2>1, <2>2, <3>1
    <2>3. CASE i # Len(s)
      <3>1. i \in 1 .. Len(s) - 1 /\ i + 1 \in 1 .. Len(s)
        BY <1>7, <2>1, <2>3
      <3> QED BY <1>5, <1>6, <2>1, <3>1
    <2> QED BY <2>2, <2>3
  <1> QED BY <1>3, <1>6, <1>8, <1>9, <1>10 DEF s, frames

LEMMA SendPacketKeeps ==
  ASSUME PublisherIInv, SendPacket
  PROVE  PublisherIInv'
  <1> DEFINE frames == SmallerOf(framesLeft, FramesPerPacket)
  <1>1. PublisherTypes /\ Listens /\ SentWhole
    BY DEF PublisherIInv
  <1>2. /\ publishPc = "sending" /\ webSequence' = webSequence + 1
        /\ framesLeft' = framesLeft - frames
        /\ publishPc' = IF framesLeft' = 0 THEN "looking" ELSE "sending"
        /\ heardBy' \in [Receivers -> {heardBy'[r] : r \in Receivers}]
        /\ \A r \in Receivers : r \notin snapshot => heardBy'[r] = heardBy[r]
        /\ UNCHANGED <<subscribers, snapshot, owed>>
    BY DEF SendPacket
  <1>3. /\ framesLeft \in Nat /\ webSequence \in Nat /\ frames \in Nat /\ frames <= framesLeft
    BY <1>1, WebPublisherAssumption DEF PublisherTypes, SmallerOf
  <1> HIDE DEF frames
  <1>4. framesLeft' \in Nat /\ webSequence' \in Nat /\ webSequence' - 1 = webSequence
    BY <1>2, <1>3
  <1>5. \A r \in Receivers : r \notin snapshot => heardBy[r] = << >> /\ heardBy'[r] = << >>
    BY <1>1, <1>2 DEF Listens
  <1>6. PublisherTypes'
    <2>1. \A r \in Receivers : heardBy'[r] \in Seq(SentPackets)
      <3>1. << >> \in Seq(SentPackets)
        OBVIOUS
      <3> QED BY <1>5, <3>1, PacketFollows
    <2>2. heardBy' \in [Receivers -> Seq(SentPackets)]
      BY <1>2, <2>1
    <2> QED BY <1>1, <1>2, <1>4, <2>2 DEF PublisherTypes
  <1>7. \A r \in Receivers : FramesIn(heardBy'[r]) + Owing(r)' = owed'[r]
    <2> SUFFICES ASSUME NEW r \in Receivers PROVE FramesIn(heardBy'[r]) + Owing(r)' = owed'[r]
      OBVIOUS
    <2>1. CASE r \in snapshot
      <3>1. FramesIn(heardBy'[r]) = FramesIn(heardBy[r]) + frames /\ FramesIn(heardBy[r]) \in Nat
        BY <2>1, PacketFollows DEF frames
      <3>2. FramesIn(heardBy[r]) + framesLeft = owed[r]
        BY <1>1, <1>2, <2>1 DEF Listens, Owing
      <3>3. Owing(r)' = framesLeft'
        BY <1>2, <1>4, <2>1 DEF Owing
      <3>4. FramesIn(heardBy'[r]) + framesLeft' = FramesIn(heardBy[r]) + framesLeft
        BY <1>2, <1>3, <3>1
      <3> QED BY <1>2, <3>2, <3>3, <3>4
    <2>2. CASE r \notin snapshot
      <3>1. Owing(r)' = Owing(r)
        BY <1>2, <2>2 DEF Owing
      <3> QED BY <1>1, <1>2, <1>5, <2>2, <3>1 DEF Listens
    <2> QED BY <2>1, <2>2
  <1>8. Listens'
    <2>1. snapshot \subseteq subscribers
      BY <1>1 DEF PublisherTypes
    <2> QED BY <1>2, <1>4, <1>5, <1>7, <2>1, PacketFollows DEF Listens
  <1>9. SentWhole'
    <2> SUFFICES ASSUME NEW r \in Receivers
                 PROVE  /\ \A i \in 1 .. Len(heardBy'[r]) - 1 :
                             heardBy'[r][i + 1].seq = heardBy'[r][i].seq + 1
                        /\ publishPc' # "sending" => FramesIn(heardBy'[r]) = owed'[r]
      BY DEF SentWhole
    <2>1. \A i \in 1 .. Len(heardBy'[r]) - 1 : heardBy'[r][i + 1].seq = heardBy'[r][i].seq + 1
      <3>1. CASE r \in snapshot
        BY <3>1, PacketFollows
      <3>2. CASE r \notin snapshot
        BY <1>1, <1>2, <3>2 DEF SentWhole
      <3> QED BY <3>1, <3>2
    <2>2. ASSUME publishPc' # "sending" PROVE FramesIn(heardBy'[r]) = owed'[r]
      <3>1. Owing(r)' = 0 /\ FramesIn(heardBy'[r]) \in Nat
        <4>1. heardBy'[r] \in Seq(SentPackets) /\ \A x \in SentPackets : x.frames \in Nat
          BY <1>6 DEF PublisherTypes, SentPackets
        <4>2. FramesIn(heardBy'[r]) \in Nat
          BY <4>1, FramesFacts
        <4> QED BY <2>2, <4>2 DEF Owing
      <3> QED BY <1>7, <3>1
    <2> QED BY <2>1, <2>2
  <1> QED BY <1>6, <1>8, <1>9 DEF PublisherIInv

LEMMA PublisherStart == PublisherInit => PublisherIInv
  <1> SUFFICES ASSUME PublisherInit PROVE PublisherIInv
    OBVIOUS
  <1>1. /\ publishPc = "handshake" /\ subscribers = {} /\ snapshot = {} /\ framesLeft = 0
        /\ webSequence = 0 /\ heardBy = [r \in Receivers |-> << >>]
        /\ owed = [r \in Receivers |-> 0]
    BY DEF PublisherInit
  <1>2. << >> \in Seq(SentPackets) /\ Len(<< >>) = 0
    OBVIOUS
  <1>3. FramesIn(<< >>) = 0
    <2>1. \A x \in SentPackets : x.frames \in Nat
      BY DEF SentPackets
    <2> QED BY <1>2, <2>1, FramesFacts
  <1>4. PublisherTypes
    BY <1>1, <1>2 DEF PublisherTypes
  <1>5. Listens
    BY <1>1, <1>3 DEF Listens, Owing
  <1>6. SentWhole
    BY <1>1, <1>2, <1>3 DEF SentWhole
  <1> QED BY <1>4, <1>5, <1>6 DEF PublisherIInv

LEMMA PublisherKeep ==
  ASSUME PublisherIInv, PublisherNext \/ UNCHANGED publisherVars
  PROVE  PublisherIInv'
  <1>1. subscribers \subseteq Receivers
    BY DEF PublisherIInv, PublisherTypes
  <1>2. CASE PublishTurn
    <2>1. CASE Welcome \/ Look \/ ReadEnds
      BY <1>1, <2>1, NoPacketKeeps DEF Welcome, Look, ReadEnds, Finished
    <2> QED BY <1>2, <2>1, SendPacketKeeps DEF PublishTurn
  <1>3. CASE \E frames \in MessageFrames : ReadMessage(frames)
    BY <1>3, ReadMessageKeeps
  <1>4. CASE \E r \in Receivers : Subscribe(r)
    BY <1>1, <1>4, NoPacketKeeps DEF Subscribe
  <1>5. CASE \E h \in BothThreads : HelperEnds(h)
    BY <1>1, <1>5, NoPacketKeeps DEF HelperEnds
  <1>6. CASE GatewayStops \/ BrowserLeaves \/ UNCHANGED publisherVars
    BY <1>1, <1>6, NoPacketKeeps DEF GatewayStops, BrowserLeaves, publisherVars
  <1> QED BY <1>2, <1>3, <1>4, <1>5, <1>6 DEF PublisherNext

-----------------------------------------------------------------------------
(* All of it.                                                              *)

WebIInv == GatewayIInv /\ SessionsIInv /\ RelayIInv /\ PublisherIInv

LEMMA GatewayStart == GatewayInit => GatewayIInv
  <1> SUFFICES ASSUME GatewayInit PROVE GatewayIInv
    OBVIOUS
  <1>1. clientPc \in [Browsers -> ClientPcs] /\ Threads = {} /\ activeClients = 0
    BY DEF GatewayInit, ClientPcs, Outside, Threads
  <1> QED BY <1>1, FS_EmptySet, GatewayAssumption DEF GatewayIInv, SlotsCounted

THEOREM WebKeeps == WebSpec => []WebIInv
  <1>1. WebInit => WebIInv
    BY GatewayStart, SessionsStart, RelayStart, PublisherStart DEF WebInit, WebIInv
  <1>2. ASSUME WebIInv, [WebNext]_webVars
        PROVE  WebIInv'
    <2>1. (GatewayNext \/ UNCHANGED gatewayVars) /\ (SessionsNext \/ UNCHANGED sessionVars)
          /\ (RelayNext \/ UNCHANGED relayVars) /\ (PublisherNext \/ UNCHANGED publisherVars)
      BY <1>2 DEF WebNext, webVars
    <2>2. GatewayIInv'
      <3>1. CASE UNCHANGED gatewayVars
        BY <1>2, <3>1, NothingGoes DEF WebIInv, gatewayVars
      <3> QED BY <1>2, <2>1, <3>1, GatewaySlots DEF WebIInv
    <2>3. SessionsIInv'
      <3>1. CASE UNCHANGED sessionVars
        BY <1>2, <3>1, SessionsRest DEF WebIInv
      <3> QED BY <1>2, <2>1, <3>1, SessionsKeep DEF WebIInv
    <2>4. RelayIInv'
      BY <1>2, <2>1, RelayKeep DEF WebIInv
    <2>5. PublisherIInv'
      BY <1>2, <2>1, PublisherKeep DEF WebIInv
    <2> QED BY <2>2, <2>3, <2>4, <2>5 DEF WebIInv
  <1> QED BY <1>1, <1>2, PTL DEF WebSpec

(* However many browsers and requests come: a slot is taken by one thread  *)
(* and given back once, and the failures that block an address are counted *)
(* through all the interleavings of its logins (web_gateway.rs 251-259,    *)
(* 520-527, 187-245).                                                      *)
THEOREM GatewayKeeps == WebSpec => []GatewayKept
  <1>1. WebIInv => GatewayKept
    BY DEF WebIInv, GatewayIInv, SessionsIInv, GatewayKept
  <1> QED BY <1>1, WebKeeps, PTL

(* However a stream's packets come to the relay, and whatever lengths they *)
(* have, the browser's samples last as long as the stream did, in the      *)
(* format it was told, but for what two lengths differ by for each packet  *)
(* concealed; and whoever subscribes to a browser's stream is sent all of  *)
(* it from then on, in numbers without a gap (web_gateway.rs 1317-1400,    *)
(* web_publish.rs 151-237).                                                *)
THEOREM BrowserAudio == WebSpec => []BrowserAudioWhole
  <1>1. WebIInv => BrowserAudioWhole
    BY DEF WebIInv, RelayIInv, PublisherIInv, BrowserAudioWhole
  <1> QED BY <1>1, WebKeeps, PTL

=============================================================================
