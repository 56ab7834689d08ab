------------------------------ MODULE Desktop_proofs ------------------------------
(***************************************************************************)
(* The safety properties of DesktopSessions, for any rows, any drivers and *)
(* any number of starts, and those of the directory of streams, for any    *)
(* number of nodes and interfaces.                                         *)
(*                                                                         *)
(* Those of the sessions are inductive together with the type invariant, except that who    *)
(* holds a driver is better said driver by driver (Reserved) than with the *)
(* union over the workers of DriversHeldOnce.                              *)
(***************************************************************************)
EXTENDS DesktopSessions, DiscoveryDirectory, FiniteSetTheorems, TLAPS

(* Worker n holds driver d.                                                *)
Holds(n, d) == phase[n] \in Holding /\ DriverOf[sessionOf[n]] = d

(* A driver is reserved as long as a worker holds it, and only one does.   *)
Reserved ==
  /\ \A d \in Drivers : d \in locks <=> \E n \in Starts : Holds(n, d)
  /\ \A d \in Drivers : \A m, n \in Starts : Holds(m, d) /\ Holds(n, d) => m = n

-----------------------------------------------------------------------------
(* DriversHeldOnce, driver by driver.                                      *)
LEMMA ReservedMeans == TypeOK => (Reserved <=> DriversHeldOnce)
  <1> SUFFICES ASSUME TypeOK
               PROVE  Reserved <=> DriversHeldOnce
    OBVIOUS
  <1> DEFINE holders == {m \in Starts : phase[m] \in Holding}
  <1>1. ASSUME NEW n \in Starts
        PROVE  /\ DriverOf[sessionOf[n]] \in Drivers \cup {NoDriver}
               /\ \A d \in Drivers : d \in Needs(sessionOf[n]) <=> DriverOf[sessionOf[n]] = d
               /\ Needs(sessionOf[n]) \subseteq Drivers
    BY SessionsAssumption DEF TypeOK, Needs
  <1>2. \A d : d \in UNION {Needs(sessionOf[n]) : n \in holders}
               <=> \E n \in holders : d \in Needs(sessionOf[n])
    OBVIOUS
  <1>3. locks \subseteq Drivers
    BY DEF TypeOK
  <1>4. \A d \in Drivers : (\E n \in holders : d \in Needs(sessionOf[n]))
                           <=> \E n \in Starts : Holds(n, d)
    BY <1>1 DEF Holds
  <1>5. (locks = UNION {Needs(sessionOf[n]) : n \in holders})
        <=> \A d \in Drivers : d \in locks <=> \E n \in Starts : Holds(n, d)
    BY <1>1, <1>2, <1>3, <1>4
  <1>6. (\A m, n \in Starts :
            m # n /\ phase[m] \in Holding /\ phase[n] \in Holding =>
              Needs(sessionOf[m]) \cap Needs(sessionOf[n]) = {})
        <=> \A d \in Drivers : \A m, n \in Starts : Holds(m, d) /\ Holds(n, d) => m = n
    BY <1>1 DEF Holds
  <1> QED BY <1>5, <1>6 DEF Reserved, DriversHeldOnce

-----------------------------------------------------------------------------
(* What a start of row s does to the threads, whichever handler it is.     *)
NewThreads(s, to) ==
  /\ started < MaxStarts
  /\ started' = started + 1
  /\ sessionOf' = [sessionOf EXCEPT ![started + 1] = s]
  /\ phase' = [phase EXCEPT ![started + 1] = to]
  /\ renewing' \subseteq renewing \cup {started + 1}

(* A handler that starts row s.                                            *)
Begun(s) ==
  /\ s \in listed /\ ~ running[s]
  /\ running' = [running EXCEPT ![s] = TRUE]
  /\ NewThreads(s, "opening")
  /\ UNCHANGED <<listed, gateway>>
  /\ \/ DriverOf[s] = NoDriver /\ locks' = locks
     \/ DriverOf[s] # NoDriver /\ DriverOf[s] \notin locks /\ locks' = locks \cup {DriverOf[s]}

(* Every handler that starts a row starts it like this.                    *)
LEMMA StartBegins ==
  ASSUME NEW s \in Sessions, Start(s)
  PROVE  Begun(s)
  BY DEF Start, StartPublisher, StartAsioPublisher, StartReceiver, StartAsioReceiver,
         Begin, Spawn, Begun, NewThreads, DriverFree

(* A started thread is a new one, of the row it was started for; the other *)
(* threads are as they were.                                               *)
LEMMA NewThreadFacts ==
  ASSUME TypeOK, NEW s \in Sessions, NEW to \in {"opening", "gone"}, NewThreads(s, to)
  PROVE  /\ started + 1 \in Starts /\ started' \in 0 .. MaxStarts
         /\ sessionOf' \in [Starts -> Sessions] /\ phase' \in [Starts -> Phases]
         /\ phase[started + 1] = "unborn"
         /\ phase'[started + 1] = to /\ sessionOf'[started + 1] = s
         /\ \A n \in Starts \ {started + 1} : phase'[n] = phase[n] /\ sessionOf'[n] = sessionOf[n]
         /\ renewing' \subseteq 1 .. started'
         /\ \A n \in Starts : phase'[n] = "unborn" <=> n > started'
  <1>1. /\ started \in Nat /\ MaxStarts \in Nat /\ started < MaxStarts
        /\ started' = started + 1 /\ started + 1 \in Starts
    BY SessionsAssumption DEF TypeOK, NewThreads, Starts
  <1>2. /\ sessionOf' \in [Starts -> Sessions] /\ phase' \in [Starts -> Phases]
        /\ phase'[started + 1] = to /\ sessionOf'[started + 1] = s
        /\ \A n \in Starts \ {started + 1} : phase'[n] = phase[n] /\ sessionOf'[n] = sessionOf[n]
    BY <1>1 DEF TypeOK, NewThreads, Phases
  <1>3. \A n \in Starts : n \in Int /\ (phase[n] = "unborn" <=> n > started)
    BY DEF TypeOK, Starts
  <1>4. phase[started + 1] = "unborn"
    BY <1>1, <1>3
  <1>5. ASSUME NEW n \in Starts
        PROVE  phase'[n] = "unborn" <=> n > started'
    <2>1. CASE n = started + 1
      BY <1>1, <1>2, <2>1
    <2>2. CASE n # started + 1
      BY <1>1, <1>2, <1>3, <2>2
    <2> QED BY <2>1, <2>2
  <1>6. renewing' \subseteq 1 .. started'
    BY <1>1 DEF TypeOK, NewThreads
  <1> QED BY <1>1, <1>2, <1>4, <1>5, <1>6

(* A step of a thread moves it to another phase and starts none.           *)
LEMMA MoveFacts ==
  ASSUME TypeOK, NEW n \in Starts, NEW from \in Phases \ {"unborn"},
         NEW to \in Phases \ {"unborn"},
         Moves(n, from, to), UNCHANGED <<started, sessionOf, renewing>>
  PROVE  /\ phase' \in [Starts -> Phases]
         /\ phase[n] = from /\ phase'[n] = to
         /\ \A m \in Starts \ {n} : phase'[m] = phase[m]
         /\ \A m \in Starts : phase'[m] = "unborn" <=> m > started'
         /\ n \in 1 .. started
  <1>1. /\ phase' \in [Starts -> Phases]
        /\ phase[n] = from /\ phase'[n] = to
        /\ \A m \in Starts \ {n} : phase'[m] = phase[m]
    BY DEF Moves, TypeOK
  <1>2. \A m \in Starts : phase[m] = "unborn" <=> m > started
    BY DEF TypeOK
  <1>3. n \in 1 .. started
    BY <1>1, <1>2 DEF TypeOK, Starts
  <1> QED BY <1>1, <1>2, <1>3

-----------------------------------------------------------------------------
(* The initial state.                                                      *)
IInv == TypeOK /\ Reserved /\ RunningIsBacked /\ NoOrphanRuns /\ GatewaySingle

LEMMA InitInv == Init => IInv
  <1> SUFFICES ASSUME Init
               PROVE  IInv
    OBVIOUS
  <1>1. TypeOK
    <2>1. (CHOOSE s \in Sessions : TRUE) \in Sessions
      BY SessionsAssumption
    <2>2. sessionOf \in [Starts -> Sessions]
      BY <2>1 DEF Init
    <2>3. \A n \in Starts : phase[n] = "unborn" /\ n > started
      BY SessionsAssumption DEF Init, Starts
    <2> QED BY <2>2, <2>3, SessionsAssumption DEF Init, TypeOK, Phases
  <1>2. Reserved
    BY DEF Init, Reserved, Holds, Holding
  <1>3. RunningIsBacked /\ NoOrphanRuns
    BY DEF Init, RunningIsBacked, NoOrphanRuns
  <1>4. GatewaySingle
    BY DEF Init, GatewaySingle
  <1> QED BY <1>1, <1>2, <1>3, <1>4 DEF IInv

-----------------------------------------------------------------------------
(* Each step keeps the type invariant.                                     *)
LEMMA TypeStep ==
  ASSUME TypeOK, [Next]_vars
  PROVE  TypeOK'
  <1>1. ASSUME NEW s \in Sessions, Start(s)
        PROVE  TypeOK'
    <2>1. Begun(s)
      BY <1>1, StartBegins
    <2>2. /\ started' \in 0 .. MaxStarts
          /\ sessionOf' \in [Starts -> Sessions] /\ phase' \in [Starts -> Phases]
          /\ renewing' \subseteq 1 .. started'
          /\ \A n \in Starts : phase'[n] = "unborn" <=> n > started'
      BY <2>1, NewThreadFacts DEF Begun
    <2>3. locks' \subseteq Drivers
      <3>1. DriverOf[s] = NoDriver \/ DriverOf[s] \in Drivers
        BY SessionsAssumption
      <3>2. locks \subseteq Drivers
        BY DEF TypeOK
      <3> QED BY <2>1, <3>1, <3>2 DEF Begun
    <2> QED BY <2>1, <2>2, <2>3 DEF Begun, TypeOK
  <1>2. ASSUME NEW s \in Sessions, StartFails(s)
        PROVE  TypeOK'
    <2>1. NewThreads(s, "gone")
      BY <1>2 DEF StartFails, Spawn, NewThreads
    <2>2. /\ started' \in 0 .. MaxStarts
          /\ sessionOf' \in [Starts -> Sessions] /\ phase' \in [Starts -> Phases]
          /\ renewing' \subseteq 1 .. started'
          /\ \A n \in Starts : phase'[n] = "unborn" <=> n > started'
      BY <2>1, NewThreadFacts
    <2> QED BY <1>2, <2>2 DEF StartFails, sessionVars, TypeOK
  <1>3. ASSUME NEW s \in Sessions, Stop(s) \/ Add(s) \/ Remove(s)
        PROVE  TypeOK'
    BY <1>3 DEF Stop, Add, Remove, threadVars, TypeOK
  <1>4. CASE StopAll
    BY <1>4 DEF StopAll, threadVars, TypeOK
  <1>5. CASE ApplyPreset
    BY <1>5 DEF ApplyPreset, threadVars, TypeOK
  <1>6. CASE GatewayStart \/ GatewayStop \/ GatewayFails \/ GatewayEnds
    <2>1. gateway' \in [running : BOOLEAN, active : BOOLEAN, threads : Nat]
      <3>1. gateway.threads \in Nat /\ gateway \in [running : BOOLEAN, active : BOOLEAN, threads : Nat]
        BY DEF TypeOK
      <3>2. CASE GatewayStart
        BY <3>1, <3>2 DEF GatewayStart
      <3>3. CASE GatewayStop \/ GatewayFails
        BY <3>1, <3>3 DEF GatewayStop, GatewayFails
      <3>4. CASE GatewayEnds
        BY <3>1, <3>4 DEF GatewayEnds
      <3> QED BY <1>6, <3>2, <3>3, <3>4
    <2>2. UNCHANGED <<listed, running, started, sessionOf, phase, renewing, locks>>
      BY <1>6 DEF GatewayStart, GatewayStop, GatewayFails, GatewayEnds, sessionVars, threadVars
    <2> QED BY <2>1, <2>2 DEF TypeOK
  <1>7. ASSUME NEW n \in Starts, Thread(n)
        PROVE  TypeOK'
    <2>1. CASE Open(n) \/ OpenFails(n) \/ Leave(n) \/ ServeFails(n)
      <3>1. /\ phase' \in [Starts -> Phases]
            /\ \A m \in Starts : phase'[m] = "unborn" <=> m > started'
        BY <2>1, MoveFacts DEF Open, OpenFails, Leave, ServeFails, Phases
      <3> QED BY <2>1, <3>1 DEF Open, OpenFails, Leave, ServeFails, sessionVars, TypeOK
    <2>2. CASE Release(n)
      <3>1. /\ phase' \in [Starts -> Phases]
            /\ \A m \in Starts : phase'[m] = "unborn" <=> m > started'
        BY <2>2, MoveFacts DEF Release, Phases
      <3> QED BY <2>2, <3>1 DEF Release, sessionVars, TypeOK
    <2>3. CASE Finish(n)
      <3>1. /\ phase' \in [Starts -> Phases]
            /\ \A m \in Starts : phase'[m] = "unborn" <=> m > started'
        BY <2>3, MoveFacts DEF Finish, Phases
      <3> QED BY <2>3, <3>1 DEF Finish, TypeOK
    <2>4. CASE RenewalEnds(n)
      BY <2>4 DEF RenewalEnds, sessionVars, TypeOK
    <2> QED BY <1>7, <2>1, <2>2, <2>3, <2>4 DEF Thread
  <1>8. CASE UNCHANGED vars
    BY <1>8 DEF vars, sessionVars, threadVars, TypeOK
  <1> QED BY <1>1, <1>2, <1>3, <1>4, <1>5, <1>6, <1>7, <1>8 DEF Next, User

(* Each step keeps the drivers reserved by those that hold them.           *)
LEMMA DriverStep ==
  ASSUME TypeOK, Reserved, [Next]_vars
  PROVE  Reserved'
  <1>1. ASSUME NEW s \in Sessions, Start(s)
        PROVE  Reserved'
    <2>1. Begun(s)
      BY <1>1, StartBegins
    <2>0. PICK new \in Starts : new = started + 1
      BY <2>1, NewThreadFacts DEF Begun
    <2>2. /\ phase[new] = "unborn" /\ phase'[new] = "opening"
          /\ sessionOf'[new] = s
          /\ \A n \in Starts \ {new} : phase'[n] = phase[n] /\ sessionOf'[n] = sessionOf[n]
      BY <2>0, <2>1, NewThreadFacts DEF Begun
    <2>3. \A d : ~ Holds(new, d) /\ (Holds(new, d)' <=> DriverOf[s] = d)
      BY <2>2 DEF Holds, Holding
    <2>4. \A d : \A n \in Starts \ {new} : Holds(n, d)' <=> Holds(n, d)
      BY <2>2 DEF Holds
    <2>5. \A d \in Drivers : d \in locks' <=> d \in locks \/ DriverOf[s] = d
      BY <2>1, SessionsAssumption DEF Begun
    <2>6. \A d \in Drivers : DriverOf[s] = d => d \notin locks
      BY <2>1, SessionsAssumption DEF Begun
    <2>7. \A d \in Drivers : d \in locks' <=> \E n \in Starts : Holds(n, d)'
      BY <2>2, <2>3, <2>4, <2>5 DEF Reserved
    <2>8. \A d \in Drivers : \A m, n \in Starts : Holds(m, d)' /\ Holds(n, d)' => m = n
      BY <2>3, <2>4, <2>6 DEF Reserved
    <2> QED BY <2>7, <2>8 DEF Reserved
  <1>2. ASSUME NEW s \in Sessions, StartFails(s)
        PROVE  Reserved'
    <2>1. NewThreads(s, "gone") /\ locks' = locks
      BY <1>2 DEF StartFails, Spawn, NewThreads
    <2>2. /\ phase[started + 1] = "unborn" /\ phase'[started + 1] = "gone"
          /\ \A n \in Starts \ {started + 1} :
               phase'[n] = phase[n] /\ sessionOf'[n] = sessionOf[n]
      BY <2>1, NewThreadFacts
    <2>3. \A d : \A n \in Starts : Holds(n, d)' <=> Holds(n, d)
      BY <2>2 DEF Holds, Holding
    <2> QED BY <2>1, <2>3 DEF Reserved
  <1>3. ASSUME NEW n \in Starts, Open(n) \/ OpenFails(n) \/ Leave(n) \/ ServeFails(n)
        PROVE  Reserved'
    <2>1. /\ phase[n] \in Holding /\ phase'[n] \in Holding
          /\ \A m \in Starts \ {n} : phase'[m] = phase[m]
      BY <1>3, MoveFacts DEF Open, OpenFails, Leave, ServeFails, Phases, Holding
    <2>2. sessionOf' = sessionOf /\ locks' = locks
      BY <1>3 DEF Open, OpenFails, Leave, ServeFails
    <2>3. \A d : \A m \in Starts : Holds(m, d)' <=> Holds(m, d)
      BY <2>1, <2>2 DEF Holds
    <2> QED BY <2>2, <2>3 DEF Reserved
  <1>4. ASSUME NEW n \in Starts, Release(n)
        PROVE  Reserved'
    <2>1. /\ phase[n] = "returned" /\ phase'[n] = "released"
          /\ \A m \in Starts \ {n} : phase'[m] = phase[m]
      BY <1>4, MoveFacts DEF Release, Phases
    <2>2. sessionOf' = sessionOf /\ locks' = locks \ Needs(sessionOf[n])
      BY <1>4 DEF Release
    <2>3. \A d : ~ Holds(n, d)' /\ (Holds(n, d) <=> DriverOf[sessionOf[n]] = d)
      BY <2>1 DEF Holds, Holding
    <2>4. \A d : \A m \in Starts \ {n} : Holds(m, d)' <=> Holds(m, d)
      BY <2>1, <2>2 DEF Holds
    <2>5. \A d \in Drivers : d \in locks' <=> d \in locks /\ ~ Holds(n, d)
      BY <2>2, <2>3, SessionsAssumption DEF Needs
    <2> QED BY <2>3, <2>4, <2>5 DEF Reserved
  <1>5. ASSUME NEW n \in Starts, Finish(n)
        PROVE  Reserved'
    <2>1. /\ phase[n] = "released" /\ phase'[n] = "gone"
          /\ \A m \in Starts \ {n} : phase'[m] = phase[m]
      BY <1>5, MoveFacts DEF Finish, Phases
    <2>2. sessionOf' = sessionOf /\ locks' = locks
      BY <1>5 DEF Finish
    <2>3. \A d : \A m \in Starts : Holds(m, d)' <=> Holds(m, d)
      BY <2>1, <2>2 DEF Holds, Holding
    <2> QED BY <2>2, <2>3 DEF Reserved
  <1>6. ASSUME UNCHANGED <<phase, sessionOf, locks>>
        PROVE  Reserved'
    BY <1>6 DEF Reserved, Holds
  <1>7. ASSUME NEW s \in Sessions, Stop(s) \/ Add(s) \/ Remove(s)
        PROVE  Reserved'
    BY <1>6, <1>7 DEF Stop, Add, Remove, threadVars
  <1>8. CASE StopAll \/ ApplyPreset
    BY <1>6, <1>8 DEF StopAll, ApplyPreset, threadVars
  <1>9. CASE GatewayStart \/ GatewayStop \/ GatewayFails \/ GatewayEnds
    BY <1>6, <1>9 DEF GatewayStart, GatewayStop, GatewayFails, GatewayEnds, threadVars
  <1>10. ASSUME NEW n \in Starts, RenewalEnds(n)
         PROVE  Reserved'
    BY <1>6, <1>10 DEF RenewalEnds
  <1>11. CASE UNCHANGED vars
    BY <1>6, <1>11 DEF vars, threadVars
  <1> QED BY <1>1, <1>2, <1>3, <1>4, <1>5, <1>7, <1>8, <1>9, <1>10, <1>11
          DEF Next, User, Thread

(* Each step leaves a live worker behind every flag that is up.            *)
LEMMA BackedStep ==
  ASSUME TypeOK, RunningIsBacked, [Next]_vars
  PROVE  RunningIsBacked'
  <1> DEFINE Backed(s, n) == n \in Starts /\ sessionOf[n] = s /\ Alive(n)
  <1>a. \A s \in Sessions : running[s] => \E n : Backed(s, n)
    <2>1. \A n \in 1 .. started : n \in Starts
      BY SessionsAssumption DEF TypeOK, Starts
    <2> QED BY <2>1 DEF RunningIsBacked
  <1>b. ASSUME TypeOK', \A s \in Sessions : running'[s] => \E n : Backed(s, n)'
        PROVE  RunningIsBacked'
    <2>1. \A n \in Starts : Alive(n)' => n \in 1 .. started'
      BY <1>b DEF TypeOK, Alive, Starts
    <2> QED BY <1>b, <2>1 DEF RunningIsBacked
  <1>c. TypeOK'
    BY TypeStep
  <1>1. ASSUME NEW s \in Sessions, Start(s)
        PROVE  RunningIsBacked'
    <2>1. Begun(s)
      BY <1>1, StartBegins
    <2>2. PICK new \in Starts : new = started + 1
      BY <2>1, NewThreadFacts DEF Begun
    <2>3. /\ phase[new] = "unborn" /\ phase'[new] = "opening"
          /\ sessionOf'[new] = s
          /\ \A n \in Starts \ {new} : phase'[n] = phase[n] /\ sessionOf'[n] = sessionOf[n]
      BY <2>1, <2>2, NewThreadFacts DEF Begun
    <2>4. Backed(s, new)'
      BY <2>3 DEF Alive
    <2>5. \A t, n : Backed(t, n) => Backed(t, n)'
      BY <2>3 DEF Alive
    <2>6. \A t \in Sessions \ {s} : running'[t] = running[t]
      BY <2>1 DEF Begun, TypeOK
    <2>7. \A t \in Sessions : running'[t] => \E n : Backed(t, n)'
      BY <1>a, <2>4, <2>5, <2>6
    <2> QED BY <1>b, <1>c, <2>7
  <1>2. ASSUME NEW s \in Sessions, StartFails(s)
        PROVE  RunningIsBacked'
    <2>1. NewThreads(s, "gone") /\ running' = running
      BY <1>2 DEF StartFails, Spawn, NewThreads, sessionVars
    <2>2. PICK new \in Starts : new = started + 1
      BY <2>1, NewThreadFacts
    <2>3. /\ phase[new] = "unborn"
          /\ \A n \in Starts \ {new} : phase'[n] = phase[n] /\ sessionOf'[n] = sessionOf[n]
      BY <2>1, <2>2, NewThreadFacts
    <2>4. \A t, n : Backed(t, n) => Backed(t, n)'
      BY <2>3 DEF Alive
    <2> QED BY <1>a, <1>b, <1>c, <2>1, <2>4
  <1>3. ASSUME NEW n \in Starts,
               Open(n) \/ OpenFails(n) \/ Leave(n) \/ ServeFails(n) \/ Release(n)
        PROVE  RunningIsBacked'
    <2>1. /\ phase'[n] \notin {"unborn", "gone"}
          /\ \A m \in Starts \ {n} : phase'[m] = phase[m]
      BY <1>3, MoveFacts DEF Open, OpenFails, Leave, ServeFails, Release, Phases
    <2>2. sessionOf' = sessionOf /\ running' = running
      BY <1>3 DEF Open, OpenFails, Leave, ServeFails, Release, sessionVars
    <2>3. \A t, m : Backed(t, m) => Backed(t, m)'
      BY <2>1, <2>2 DEF Alive
    <2> QED BY <1>a, <1>b, <1>c, <2>2, <2>3
  <1>4. ASSUME NEW n \in Starts, Finish(n)
        PROVE  RunningIsBacked'
    <2>1. /\ \A m \in Starts \ {n} : phase'[m] = phase[m]
          /\ sessionOf' = sessionOf /\ sessionOf[n] \in Sessions
      BY <1>4, MoveFacts DEF Finish, Phases, TypeOK
    <2>2. \A t \in Sessions : running'[t] => t # sessionOf[n] /\ running[t]
      BY <1>4, <2>1 DEF Finish, TypeOK
    <2>3. \A t, m : Backed(t, m) /\ t # sessionOf[n] => Backed(t, m)'
      BY <2>1 DEF Alive
    <2> QED BY <1>a, <1>b, <1>c, <2>2, <2>3
  <1>5. ASSUME UNCHANGED <<started, phase, sessionOf>>,
               \A t \in Sessions : running'[t] => running[t]
        PROVE  RunningIsBacked'
    BY <1>5 DEF RunningIsBacked, Alive
  <1>6. ASSUME NEW s \in Sessions, Stop(s) \/ Add(s) \/ Remove(s)
        PROVE  RunningIsBacked'
    <2>1. \A t \in Sessions : running'[t] => running[t]
      BY <1>6 DEF Stop, Add, Remove, TypeOK
    <2> QED BY <1>5, <1>6, <2>1 DEF Stop, Add, Remove, threadVars
  <1>7. CASE StopAll \/ ApplyPreset
    <2>1. \A t \in Sessions : running'[t] => running[t]
      BY <1>7 DEF StopAll, ApplyPreset
    <2> QED BY <1>5, <1>7, <2>1 DEF StopAll, ApplyPreset, threadVars
  <1>8. CASE GatewayStart \/ GatewayStop \/ GatewayFails \/ GatewayEnds
    BY <1>5, <1>8 DEF GatewayStart, GatewayStop, GatewayFails, GatewayEnds, sessionVars, threadVars
  <1>9. ASSUME NEW n \in Starts, RenewalEnds(n)
        PROVE  RunningIsBacked'
    BY <1>5, <1>9 DEF RenewalEnds, sessionVars
  <1>10. CASE UNCHANGED vars
    BY <1>5, <1>10 DEF vars, sessionVars, threadVars
  <1> QED BY <1>1, <1>2, <1>3, <1>4, <1>6, <1>7, <1>8, <1>9, <1>10 DEF Next, User, Thread

(* Each step leaves the flags of rows that are gone down.                  *)
LEMMA OrphanStep ==
  ASSUME TypeOK, NoOrphanRuns, [Next]_vars
  PROVE  NoOrphanRuns'
  <1>1. ASSUME NEW s \in Sessions, Start(s)
        PROVE  NoOrphanRuns'
    <2>1. Begun(s)
      BY <1>1, StartBegins
    <2> QED BY <2>1 DEF Begun, NoOrphanRuns, TypeOK
  <1>2. ASSUME NEW s \in Sessions, StartFails(s) \/ Stop(s) \/ Add(s) \/ Remove(s)
        PROVE  NoOrphanRuns'
    BY <1>2 DEF StartFails, Stop, Add, Remove, sessionVars, NoOrphanRuns, TypeOK
  <1>3. CASE StopAll
    BY <1>3 DEF StopAll, NoOrphanRuns
  <1>4. CASE ApplyPreset
    BY <1>4 DEF ApplyPreset, NoOrphanRuns
  <1>5. CASE GatewayStart \/ GatewayStop \/ GatewayFails \/ GatewayEnds
    BY <1>5 DEF GatewayStart, GatewayStop, GatewayFails, GatewayEnds, sessionVars, NoOrphanRuns
  <1>6. ASSUME NEW n \in Starts, Thread(n)
        PROVE  NoOrphanRuns'
    <2>1. CASE Finish(n)
      BY <2>1 DEF Finish, NoOrphanRuns, TypeOK
    <2>2. CASE Open(n) \/ OpenFails(n) \/ Leave(n) \/ ServeFails(n) \/ Release(n) \/ RenewalEnds(n)
      BY <2>2 DEF Open, OpenFails, Leave, ServeFails, Release, RenewalEnds, sessionVars, NoOrphanRuns
    <2> QED BY <1>6, <2>1, <2>2 DEF Thread
  <1>7. CASE UNCHANGED vars
    BY <1>7 DEF vars, sessionVars, NoOrphanRuns
  <1> QED BY <1>1, <1>2, <1>3, <1>4, <1>5, <1>6, <1>7 DEF Next, User

(* Each step keeps the gateway to one thread.                              *)
LEMMA GatewayStep ==
  ASSUME TypeOK, GatewaySingle, [Next]_vars
  PROVE  GatewaySingle'
  <1>1. CASE GatewayStart \/ GatewayStop \/ GatewayFails \/ GatewayEnds
    BY <1>1 DEF GatewayStart, GatewayStop, GatewayFails, GatewayEnds, GatewaySingle, TypeOK
  <1>2. CASE StopAll
    BY <1>2 DEF StopAll, GatewaySingle, TypeOK
  <1>3. ASSUME NEW s \in Sessions, Start(s)
        PROVE  GatewaySingle'
    BY <1>3, StartBegins DEF Begun, GatewaySingle
  <1>4. CASE \/ \E s \in Sessions : StartFails(s) \/ Stop(s) \/ Add(s) \/ Remove(s)
             \/ ApplyPreset \/ \E n \in Starts : Thread(n)
             \/ UNCHANGED vars
    <2>1. gateway' = gateway
      BY <1>4 DEF StartFails, Stop, Add, Remove, ApplyPreset, Thread, Open, OpenFails, Leave,
                  ServeFails, Release, Finish, RenewalEnds, vars
    <2> QED BY <2>1 DEF GatewaySingle
  <1> QED BY <1>1, <1>2, <1>3, <1>4 DEF Next, User

-----------------------------------------------------------------------------
(* The invariant of all behaviours.                                        *)
LEMMA Invariant == Spec => []IInv
  <1>1. IInv /\ [Next]_vars => IInv'
    BY TypeStep, DriverStep, BackedStep, OrphanStep, GatewayStep DEF IInv
  <1> QED BY InitInv, <1>1, PTL DEF Spec

(* Every variable keeps to its range, whatever is started and stopped.     *)
THEOREM TypeCorrect == Spec => []TypeOK
  <1>1. IInv => TypeOK
    BY DEF IInv
  <1> QED BY Invariant, <1>1, PTL

(* No ASIO driver is opened by two sessions at once, and none stays        *)
(* reserved when nobody holds it, whichever start or worker fails.         *)
THEOREM DriversOnce == Spec => []DriversHeldOnce
  <1>1. IInv => DriversHeldOnce
    BY ReservedMeans DEF IInv
  <1> QED BY Invariant, <1>1, PTL

(* A row is shown as running only while a worker of it lives, however many *)
(* workers of earlier starts share its flag.                               *)
THEOREM RunningBacked == Spec => []RunningIsBacked
  <1>1. IInv => RunningIsBacked
    BY DEF IInv
  <1> QED BY Invariant, <1>1, PTL

(* What runs has a row to stop it by.                                      *)
THEOREM NoOrphans == Spec => []NoOrphanRuns
  <1>1. IInv => NoOrphanRuns
    BY DEF IInv
  <1> QED BY Invariant, <1>1, PTL

(* The gateway never has two threads.                                      *)
THEOREM OneGateway == Spec => []GatewaySingle
  <1>1. IInv => GatewaySingle
    BY DEF IInv
  <1> QED BY Invariant, <1>1, PTL

-----------------------------------------------------------------------------
(* The directory of streams.                                               *)

DirectoryTypes ==
  /\ DOMAIN directory \subseteq Nodes /\ IsFiniteSet(DOMAIN directory)
  /\ \A n \in DOMAIN directory : directory[n] \in Nat
  /\ noted \subseteq announcing /\ announcing \subseteq Nodes /\ arriving \subseteq Nodes
  /\ sinceSent \in [Nodes -> 0 .. 1]
  /\ lostInRow \in [Nodes -> 0 .. MaxLostInRow]
  /\ quietFor \in [Nodes -> Nat]
  /\ turned \in BOOLEAN

(* An announcement of n is under way or due.                               *)
Pending(n) == IF n \in arriving \/ sinceSent[n] > 0 THEN 1 ELSE 0

(* A node that was heard is heard again but for what was lost in a row.    *)
HeardAgain ==
  \A n \in noted :
    /\ n \notin oversized /\ InterfaceOf[n] = joined
    /\ n \in DOMAIN directory /\ directory[n] <= lostInRow[n] + Pending(n)

(* An entry of a node that stopped is at least as old as that.             *)
QuietAge ==
  /\ \A n \in arriving \ announcing : quietFor[n] = 0
  /\ \A n \in DOMAIN directory \ announcing : quietFor[n] <= directory[n]

(* A turn of the loop leaves no expired entry.                             *)
Expired == turned => \A n \in DOMAIN directory : directory[n] < Expiry

DirectoryIInv ==
  /\ DirectoryTypes /\ Cardinality(DOMAIN directory) <= MaxNodes
  /\ HeardAgain /\ QuietAge /\ Expired

(* What the end of a turn keeps of a directory.                            *)
LEMMA FreshFacts ==
  ASSUME NEW dir, IsFiniteSet(DOMAIN dir)
  PROVE  /\ DOMAIN Fresh(dir) = {n \in DOMAIN dir : dir[n] < Expiry}
         /\ \A n \in DOMAIN Fresh(dir) : Fresh(dir)[n] = dir[n]
         /\ IsFiniteSet(DOMAIN Fresh(dir))
         /\ Cardinality(DOMAIN dir) <= MaxNodes => Cardinality(DOMAIN Fresh(dir)) <= MaxNodes
  <1> DEFINE kept == {n \in DOMAIN dir : dir[n] < Expiry}
  <1>1. DOMAIN Fresh(dir) = kept /\ \A n \in kept : Fresh(dir)[n] = dir[n]
    BY DEF Fresh, Restrict
  <1>2. /\ IsFiniteSet(kept) /\ Cardinality(kept) <= Cardinality(DOMAIN dir)
        /\ Cardinality(kept) \in Nat /\ Cardinality(DOMAIN dir) \in Nat /\ MaxNodes \in Nat
    BY FS_Subset, FS_CardinalityType, DirectoryAssumption
  <1> HIDE DEF kept
  <1>3. Cardinality(DOMAIN dir) <= MaxNodes => Cardinality(kept) <= MaxNodes
    BY <1>2
  <1> QED BY <1>1, <1>2, <1>3 DEF kept

(* Who is heard is renewed, or entered while there is room.                *)
LEMMA NotedFacts ==
  ASSUME NEW dir, NEW n, IsFiniteSet(DOMAIN dir), Cardinality(DOMAIN dir) <= MaxNodes
  PROVE  LET new == Noted(dir, n)
         IN  /\ IsFiniteSet(DOMAIN new) /\ Cardinality(DOMAIN new) <= MaxNodes
             /\ DOMAIN dir \subseteq DOMAIN new /\ DOMAIN new \subseteq DOMAIN dir \cup {n}
             /\ \A m \in DOMAIN dir : m # n => new[m] = dir[m]
             /\ n \in DOMAIN new => new[n] = 0
  <1> DEFINE new == Noted(dir, n)
  <1>1. CASE n \in DOMAIN dir \/ Cardinality(DOMAIN dir) < MaxNodes
    <2>1. /\ DOMAIN new = DOMAIN dir \cup {n}
          /\ \A m \in DOMAIN dir \cup {n} : new[m] = IF m = n THEN 0 ELSE dir[m]
      BY <1>1 DEF Noted
    <2>2. /\ IsFiniteSet(DOMAIN dir \cup {n})
          /\ Cardinality(DOMAIN dir \cup {n}) =
               IF n \in DOMAIN dir THEN Cardinality(DOMAIN dir) ELSE Cardinality(DOMAIN dir) + 1
      BY FS_AddElement
    <2>3. Cardinality(DOMAIN dir \cup {n}) <= MaxNodes
      BY <1>1, <2>2, FS_CardinalityType, DirectoryAssumption
    <2> HIDE DEF new
    <2> QED BY <2>1, <2>2, <2>3 DEF new
  <1>2. CASE ~ (n \in DOMAIN dir \/ Cardinality(DOMAIN dir) < MaxNodes)
    <2>1. new = dir
      BY <1>2 DEF Noted
    <2> QED BY <1>2, <2>1
  <1> QED BY <1>1, <1>2

LEMMA ReceiveKeeps ==
  ASSUME DirectoryIInv, NEW n \in Nodes, Receive(n)
  PROVE  DirectoryIInv'
  <1> DEFINE heard == n \notin oversized /\ InterfaceOf[n] = joined
             dir == IF heard THEN Noted(directory, n) ELSE directory
  <1>1. /\ DirectoryTypes /\ Cardinality(DOMAIN directory) <= MaxNodes
        /\ HeardAgain /\ QuietAge
    BY DEF DirectoryIInv
  <1>2. /\ n \in arriving /\ arriving' = arriving \ {n}
        /\ lostInRow' = [lostInRow EXCEPT ![n] = 0]
        /\ directory' = Fresh(dir)
        /\ noted' = (IF heard /\ n \in announcing /\ n \in DOMAIN directory'
                     THEN noted \cup {n} ELSE noted)
        /\ turned' = TRUE
        /\ oversized' = oversized /\ announcing' = announcing /\ sinceSent' = sinceSent
        /\ quietFor' = quietFor /\ joined' = joined
    BY DEF Receive
  <1>3. /\ IsFiniteSet(DOMAIN dir) /\ Cardinality(DOMAIN dir) <= MaxNodes
        /\ DOMAIN directory \subseteq DOMAIN dir /\ DOMAIN dir \subseteq DOMAIN directory \cup {n}
        /\ \A m \in DOMAIN directory : m # n => dir[m] = directory[m]
        /\ heard /\ n \in DOMAIN dir => dir[n] = 0
        /\ ~ heard => dir = directory
    BY <1>1, NotedFacts DEF DirectoryTypes
  <1>4. \A m \in DOMAIN dir : dir[m] \in Nat
    BY <1>1, <1>3 DEF DirectoryTypes
  <1> HIDE DEF dir, heard
  <1>5. /\ DOMAIN directory' = {m \in DOMAIN dir : dir[m] < Expiry}
        /\ \A m \in DOMAIN directory' : directory'[m] = dir[m]
        /\ IsFiniteSet(DOMAIN directory') /\ Cardinality(DOMAIN directory') <= MaxNodes
    BY <1>2, <1>3, FreshFacts
  <1>6. DirectoryTypes'
    BY <1>1, <1>2, <1>3, <1>4, <1>5, DirectoryAssumption DEF DirectoryTypes
  <1>7. HeardAgain'
    <2> SUFFICES ASSUME NEW m \in noted'
                 PROVE  /\ m \notin oversized' /\ InterfaceOf[m] = joined'
                        /\ m \in DOMAIN directory' /\ directory'[m] <= lostInRow'[m] + Pending(m)'
      BY DEF HeardAgain
    <2>1. m \in Nodes /\ lostInRow'[m] \in Nat /\ Pending(m)' \in Nat
      BY <1>6, DirectoryAssumption DEF DirectoryTypes, Pending
    <2>2. CASE m = n /\ heard /\ n \in DOMAIN directory'
      <3>1. directory'[n] = 0
        BY <1>3, <1>5, <2>2
      <3> QED BY <1>2, <2>1, <2>2, <3>1 DEF heard
    <2>3. CASE m = n /\ n \in noted
      <3>1. heard /\ n \in DOMAIN directory
        BY <1>1, <2>3 DEF HeardAgain, heard
      <3>2. n \in DOMAIN dir /\ dir[n] = 0 /\ MaxLostInRow + 1 < Expiry /\ MaxLostInRow \in Nat /\ Expiry \in Nat
        BY <1>3, <3>1, DirectoryAssumption
      <3>3. n \in DOMAIN directory'
        BY <1>5, <3>2
      <3> QED BY <2>2, <2>3, <3>1, <3>3
    <2>4. CASE m # n
      <3>1. /\ m \in noted /\ m \notin oversized /\ InterfaceOf[m] = joined
            /\ m \in DOMAIN directory /\ directory[m] <= lostInRow[m] + Pending(m)
        BY <1>1, <1>2, <2>4 DEF HeardAgain
      <3>2. /\ lostInRow[m] \in Nat /\ lostInRow[m] <= MaxLostInRow /\ Pending(m) \in 0 .. 1
            /\ directory[m] \in Nat /\ dir[m] = directory[m] /\ m \in DOMAIN dir
        BY <1>1, <1>3, <2>1, <2>4, <3>1, DirectoryAssumption DEF DirectoryTypes, Pending
      <3>3. directory[m] < Expiry
        BY <3>1, <3>2, DirectoryAssumption
      <3>4. lostInRow'[m] = lostInRow[m] /\ Pending(m)' = Pending(m)
        BY <1>1, <1>2, <2>1, <2>4 DEF DirectoryTypes, Pending
      <3> QED BY <1>2, <1>5, <3>1, <3>2, <3>3, <3>4
    <2> QED BY <1>2, <2>2, <2>3, <2>4
  <1>8. QuietAge'
    <2>1. \A m \in arriving' \ announcing' : quietFor'[m] = 0
      BY <1>1, <1>2 DEF QuietAge
    <2>2. ASSUME NEW m \in DOMAIN directory' \ announcing'
          PROVE  quietFor'[m] <= directory'[m]
      <3>1. m \in DOMAIN dir /\ directory'[m] = dir[m] /\ m \notin announcing
        BY <1>2, <1>5, <2>2
      <3>2. CASE m = n
        <4>1. quietFor[n] = 0
          BY <1>1, <1>2, <3>1, <3>2 DEF QuietAge
        <4> QED BY <1>2, <1>4, <3>1, <3>2, <4>1
      <3>3. CASE m # n
        BY <1>1, <1>2, <1>3, <3>1, <3>3 DEF QuietAge
      <3> QED BY <3>2, <3>3
    <2> QED BY <2>1, <2>2 DEF QuietAge
  <1>9. Expired'
    BY <1>5 DEF Expired
  <1> QED BY <1>5, <1>6, <1>7, <1>8, <1>9 DEF DirectoryIInv

LEMMA ReceiveNothingKeeps ==
  ASSUME DirectoryIInv, ReceiveNothing
  PROVE  DirectoryIInv'
  <1>1. /\ DirectoryTypes /\ Cardinality(DOMAIN directory) <= MaxNodes
        /\ HeardAgain /\ QuietAge
    BY DEF DirectoryIInv
  <1>2. /\ directory' = Fresh(directory) /\ turned' = TRUE /\ noted' = noted
        /\ oversized' = oversized /\ announcing' = announcing /\ sinceSent' = sinceSent
        /\ arriving' = arriving /\ lostInRow' = lostInRow /\ quietFor' = quietFor /\ joined' = joined
    BY DEF ReceiveNothing
  <1>3. /\ DOMAIN directory' = {m \in DOMAIN directory : directory[m] < Expiry}
        /\ \A m \in DOMAIN directory' : directory'[m] = directory[m]
        /\ IsFiniteSet(DOMAIN directory') /\ Cardinality(DOMAIN directory') <= MaxNodes
    BY <1>1, <1>2, FreshFacts DEF DirectoryTypes
  <1>4. DirectoryTypes'
    BY <1>1, <1>2, <1>3 DEF DirectoryTypes
  <1>5. HeardAgain'
    <2> SUFFICES ASSUME NEW m \in noted
                 PROVE  /\ m \notin oversized /\ InterfaceOf[m] = joined
                        /\ m \in DOMAIN directory' /\ directory'[m] <= lostInRow[m] + Pending(m)
      BY <1>2 DEF HeardAgain, Pending
    <2>1. /\ m \in Nodes /\ m \notin oversized /\ InterfaceOf[m] = joined
          /\ m \in DOMAIN directory /\ directory[m] <= lostInRow[m] + Pending(m)
      BY <1>1 DEF HeardAgain, DirectoryTypes
    <2>2. /\ lostInRow[m] \in 0 .. MaxLostInRow /\ Pending(m) \in 0 .. 1 /\ directory[m] \in Nat
      BY <1>1, <2>1 DEF DirectoryTypes, Pending
    <2>3. directory[m] < Expiry
      BY <2>1, <2>2, DirectoryAssumption
    <2> QED BY <1>3, <2>1, <2>3
  <1>6. QuietAge'
    BY <1>1, <1>2, <1>3 DEF QuietAge
  <1>7. Expired'
    BY <1>3 DEF Expired
  <1> QED BY <1>3, <1>4, <1>5, <1>6, <1>7 DEF DirectoryIInv

(* A listener that joins another interface has heard nobody there.         *)
LEMMA LookKeeps ==
  ASSUME DirectoryIInv, LookAtSelection
  PROVE  DirectoryIInv'
  <1>1. /\ DirectoryTypes /\ HeardAgain /\ QuietAge /\ Expired
    BY DEF DirectoryIInv
  <1>2. /\ noted' = (IF joined' = joined THEN noted ELSE {})
        /\ directory' = directory /\ turned' = turned
        /\ oversized' = oversized /\ announcing' = announcing /\ sinceSent' = sinceSent
        /\ arriving' = arriving /\ lostInRow' = lostInRow /\ quietFor' = quietFor
    BY DEF LookAtSelection
  <1>3. DirectoryTypes'
    BY <1>1, <1>2 DEF DirectoryTypes
  <1>4. HeardAgain'
    BY <1>1, <1>2 DEF HeardAgain, Pending
  <1> QED BY <1>1, <1>2, <1>3, <1>4 DEF DirectoryIInv, QuietAge, Expired

LEMMA StartAnnouncingKeeps ==
  ASSUME DirectoryIInv, NEW n \in Nodes, StartAnnouncing(n)
  PROVE  DirectoryIInv'
  <1>1. /\ DirectoryTypes /\ HeardAgain /\ QuietAge /\ Expired
    BY DEF DirectoryIInv
  <1>2. /\ n \notin announcing /\ announcing' = announcing \cup {n} /\ arriving' = arriving \cup {n}
        /\ sinceSent' = [sinceSent EXCEPT ![n] = 0]
        /\ directory' = directory /\ turned' = turned /\ noted' = noted /\ joined' = joined
        /\ oversized' = oversized /\ lostInRow' = lostInRow /\ quietFor' = quietFor
    BY DEF StartAnnouncing
  <1>3. DirectoryTypes'
    BY <1>1, <1>2 DEF DirectoryTypes
  <1>4. HeardAgain'
    <2>1. \A m \in noted : Pending(m)' = Pending(m)
      BY <1>1, <1>2 DEF DirectoryTypes, Pending
    <2> QED BY <1>1, <1>2, <2>1 DEF HeardAgain
  <1>5. QuietAge'
    BY <1>1, <1>2 DEF QuietAge
  <1> QED BY <1>1, <1>2, <1>3, <1>4, <1>5 DEF DirectoryIInv, Expired

LEMMA AnnounceKeeps ==
  ASSUME DirectoryIInv, NEW n \in Nodes, Announce(n)
  PROVE  DirectoryIInv'
  <1>1. /\ DirectoryTypes /\ HeardAgain /\ QuietAge /\ Expired
    BY DEF DirectoryIInv
  <1>2. /\ n \in announcing /\ sinceSent[n] > 0 /\ arriving' = arriving \cup {n}
        /\ sinceSent' = [sinceSent EXCEPT ![n] = 0]
        /\ directory' = directory /\ turned' = turned /\ noted' = noted /\ joined' = joined
        /\ announcing' = announcing
        /\ oversized' = oversized /\ lostInRow' = lostInRow /\ quietFor' = quietFor
    BY DEF Announce
  <1>3. DirectoryTypes'
    BY <1>1, <1>2 DEF DirectoryTypes
  <1>4. HeardAgain'
    <2>1. \A m \in noted : Pending(m)' = Pending(m)
      BY <1>1, <1>2 DEF DirectoryTypes, Pending
    <2> QED BY <1>1, <1>2, <2>1 DEF HeardAgain
  <1>5. QuietAge'
    BY <1>1, <1>2 DEF QuietAge
  <1> QED BY <1>1, <1>2, <1>3, <1>4, <1>5 DEF DirectoryIInv, Expired

(* A publisher that stops is quiet from now on, as is what it sent.        *)
LEMMA StopAnnouncingKeeps ==
  ASSUME DirectoryIInv, NEW n \in Nodes, StopAnnouncing(n)
  PROVE  DirectoryIInv'
  <1>1. /\ DirectoryTypes /\ HeardAgain /\ QuietAge /\ Expired
    BY DEF DirectoryIInv
  <1>2. /\ announcing' = announcing \ {n} /\ noted' = noted \ {n}
        /\ quietFor' = [quietFor EXCEPT ![n] = 0] /\ sinceSent' = [sinceSent EXCEPT ![n] = 0]
        /\ directory' = directory /\ turned' = turned /\ joined' = joined /\ arriving' = arriving
        /\ oversized' = oversized /\ lostInRow' = lostInRow
    BY DEF StopAnnouncing
  <1>3. DirectoryTypes'
    BY <1>1, <1>2 DEF DirectoryTypes
  <1>4. HeardAgain'
    <2>1. \A m \in noted' : m \in noted /\ Pending(m)' = Pending(m)
      BY <1>1, <1>2 DEF DirectoryTypes, Pending
    <2> QED BY <1>1, <1>2, <2>1 DEF HeardAgain
  <1>5. QuietAge'
    <2>1. \A m \in Nodes : quietFor'[m] = IF m = n THEN 0 ELSE quietFor[m]
      BY <1>1, <1>2 DEF DirectoryTypes
    <2>2. \A m \in arriving' \ announcing' : quietFor'[m] = 0
      BY <1>1, <1>2, <2>1 DEF DirectoryTypes, QuietAge
    <2>3. \A m \in DOMAIN directory' \ announcing' : quietFor'[m] <= directory'[m]
      BY <1>1, <1>2, <2>1 DEF DirectoryTypes, QuietAge
    <2> QED BY <2>2, <2>3 DEF QuietAge
  <1> QED BY <1>1, <1>2, <1>3, <1>4, <1>5 DEF DirectoryIInv, Expired

(* What is lost was due, and counts against the network.                   *)
LEMMA LoseAnnouncementKeeps ==
  ASSUME DirectoryIInv, NEW n \in Nodes, LoseAnnouncement(n)
  PROVE  DirectoryIInv'
  <1>1. /\ DirectoryTypes /\ HeardAgain /\ QuietAge /\ Expired
    BY DEF DirectoryIInv
  <1>2. /\ n \in arriving /\ lostInRow[n] < MaxLostInRow /\ arriving' = arriving \ {n}
        /\ lostInRow' = [lostInRow EXCEPT ![n] = @ + 1]
        /\ directory' = directory /\ turned' = turned /\ noted' = noted /\ joined' = joined
        /\ announcing' = announcing /\ sinceSent' = sinceSent
        /\ oversized' = oversized /\ quietFor' = quietFor
    BY DEF LoseAnnouncement
  <1>3. DirectoryTypes'
    BY <1>1, <1>2, DirectoryAssumption DEF DirectoryTypes
  <1>4. HeardAgain'
    <2>1. ASSUME NEW m \in noted
          PROVE  lostInRow[m] + Pending(m) <= lostInRow'[m] + Pending(m)'
      <3>1. m \in Nodes /\ lostInRow[m] \in Nat
        BY <1>1, <2>1, DirectoryAssumption DEF DirectoryTypes
      <3>2. CASE m = n
        <4>1. lostInRow'[m] = lostInRow[m] + 1 /\ Pending(m) = 1 /\ Pending(m)' \in 0 .. 1
          BY <1>1, <1>2, <3>2 DEF DirectoryTypes, Pending
        <4> QED BY <3>1, <4>1
      <3>3. CASE m # n
        <4>1. lostInRow'[m] = lostInRow[m] /\ Pending(m)' = Pending(m) /\ Pending(m) \in 0 .. 1
          BY <1>1, <1>2, <3>1, <3>3 DEF DirectoryTypes, Pending
        <4> QED BY <3>1, <4>1
      <3> QED BY <3>2, <3>3
    <2>2. \A m \in noted : /\ lostInRow[m] \in Nat /\ lostInRow'[m] \in Nat /\ directory[m] \in Nat
                           /\ Pending(m) \in 0 .. 1 /\ Pending(m)' \in 0 .. 1
      BY <1>1, <1>3, DirectoryAssumption DEF DirectoryTypes, HeardAgain, Pending
    <2> SUFFICES ASSUME NEW m \in noted
                 PROVE  /\ m \notin oversized /\ InterfaceOf[m] = joined
                        /\ m \in DOMAIN directory /\ directory[m] <= lostInRow'[m] + Pending(m)'
      BY <1>2 DEF HeardAgain
    <2>3. /\ m \notin oversized /\ InterfaceOf[m] = joined
          /\ m \in DOMAIN directory /\ directory[m] <= lostInRow[m] + Pending(m)
      BY <1>1 DEF HeardAgain
    <2>4. directory[m] <= lostInRow'[m] + Pending(m)'
      BY <2>1, <2>2, <2>3
    <2> QED BY <2>3, <2>4
  <1>5. QuietAge'
    BY <1>1, <1>2 DEF QuietAge
  <1> QED BY <1>1, <1>2, <1>3, <1>4, <1>5 DEF DirectoryIInv, Expired

(* A second passes when nothing is under way: every entry ages, and every  *)
(* publisher owes an announcement.                                         *)
LEMMA SecondKeeps ==
  ASSUME DirectoryIInv, Second
  PROVE  DirectoryIInv'
  <1>1. /\ DirectoryTypes /\ Cardinality(DOMAIN directory) <= MaxNodes /\ HeardAgain /\ QuietAge
    BY DEF DirectoryIInv
  <1>2. /\ arriving = {} /\ \A n \in announcing : sinceSent[n] = 0
        /\ directory' = [n \in DOMAIN directory |-> directory[n] + 1]
        /\ sinceSent' = [n \in Nodes |-> IF n \in announcing THEN 1 ELSE 0]
        /\ quietFor' = [n \in Nodes |->
             IF n \in announcing \/ quietFor[n] > Expiry THEN quietFor[n] ELSE quietFor[n] + 1]
        /\ turned' = FALSE
        /\ oversized' = oversized /\ announcing' = announcing /\ arriving' = arriving
        /\ lostInRow' = lostInRow /\ joined' = joined /\ noted' = noted
    BY DEF Second
  <1>3. /\ DOMAIN directory' = DOMAIN directory
        /\ \A n \in DOMAIN directory : directory'[n] = directory[n] + 1
    BY <1>2
  <1>4. DirectoryTypes'
    <2>1. quietFor' \in [Nodes -> Nat]
      BY <1>1, <1>2 DEF DirectoryTypes
    <2>2. sinceSent' \in [Nodes -> 0 .. 1]
      BY <1>2
    <2>3. \A n \in DOMAIN directory' : directory'[n] \in Nat
      BY <1>1, <1>3 DEF DirectoryTypes
    <2> QED BY <1>1, <1>2, <1>3, <2>1, <2>2, <2>3 DEF DirectoryTypes
  <1>5. HeardAgain'
    <2> SUFFICES ASSUME NEW m \in noted
                 PROVE  /\ m \notin oversized /\ InterfaceOf[m] = joined
                        /\ m \in DOMAIN directory /\ directory'[m] <= lostInRow[m] + Pending(m)'
      BY <1>2, <1>3 DEF HeardAgain, Pending
    <2>1. /\ m \notin oversized /\ InterfaceOf[m] = joined /\ m \in announcing /\ m \in Nodes
          /\ m \in DOMAIN directory /\ directory[m] <= lostInRow[m] + Pending(m)
      BY <1>1 DEF HeardAgain, DirectoryTypes
    <2>2. Pending(m) = 0 /\ Pending(m)' = 1
      BY <1>2, <2>1 DEF Pending
    <2>3. lostInRow[m] \in Nat /\ directory[m] \in Nat
      BY <1>1, <2>1, DirectoryAssumption DEF DirectoryTypes
    <2> QED BY <1>3, <2>1, <2>2, <2>3
  <1>6. QuietAge'
    <2>1. ASSUME NEW m \in DOMAIN directory' \ announcing'
          PROVE  quietFor'[m] <= directory'[m]
      <3>1. m \in Nodes /\ directory[m] \in Nat /\ quietFor[m] \in Nat /\ quietFor[m] <= directory[m]
        BY <1>1, <1>2, <1>3, <2>1 DEF DirectoryTypes, QuietAge
      <3>2. quietFor'[m] \in {quietFor[m], quietFor[m] + 1}
        BY <1>2, <3>1
      <3> QED BY <1>3, <2>1, <3>1, <3>2
    <2> QED BY <1>2, <2>1 DEF QuietAge
  <1>7. Expired'
    BY <1>2 DEF Expired
  <1> QED BY <1>1, <1>3, <1>4, <1>5, <1>6, <1>7 DEF DirectoryIInv

(* What the directory keeps, in every state.                               *)
THEOREM DirectoryKeeps == DirectorySpec => []DirectoryIInv
  <1>1. DirectoryInit => DirectoryIInv
    <2> SUFFICES ASSUME DirectoryInit PROVE DirectoryIInv
      OBVIOUS
    <2>1. DOMAIN directory = {} /\ IsFiniteSet({}) /\ Cardinality({}) = 0
      BY FS_EmptySet DEF DirectoryInit
    <2>2. DirectoryTypes
      <3>1. DOMAIN directory \subseteq Nodes /\ \A n \in DOMAIN directory : directory[n] \in Nat
        BY <2>1
      <3>2. /\ sinceSent \in [Nodes -> 0 .. 1]
            /\ lostInRow \in [Nodes -> 0 .. MaxLostInRow] /\ quietFor \in [Nodes -> Nat]
        BY DirectoryAssumption DEF DirectoryInit
      <3> QED BY <2>1, <3>1, <3>2 DEF DirectoryInit, DirectoryTypes
    <2>3. HeardAgain /\ QuietAge /\ Expired
      BY <2>1 DEF DirectoryInit, HeardAgain, QuietAge, Expired
    <2> QED BY <2>1, <2>2, <2>3, DirectoryAssumption DEF DirectoryIInv
  <1>2. DirectoryIInv /\ [DirectoryNext]_directoryVars => DirectoryIInv'
    <2> SUFFICES ASSUME DirectoryIInv, [DirectoryNext]_directoryVars
                 PROVE  DirectoryIInv'
      OBVIOUS
    <2>1. CASE \E n \in Nodes : \/ Receive(n) \/ StartAnnouncing(n) \/ Announce(n)
                                \/ StopAnnouncing(n) \/ LoseAnnouncement(n)
      BY <2>1, ReceiveKeeps, StartAnnouncingKeeps, AnnounceKeeps, StopAnnouncingKeeps,
         LoseAnnouncementKeeps
    <2>2. CASE ReceiveNothing
      BY <2>2, ReceiveNothingKeeps
    <2>3. CASE LookAtSelection
      BY <2>3, LookKeeps
    <2>4. CASE Second
      BY <2>4, SecondKeeps
    <2>5. CASE \E i \in Interfaces : SelectInterface(i)
      BY <2>5 DEF SelectInterface, DirectoryIInv, DirectoryTypes, HeardAgain, QuietAge, Expired,
                  Pending
    <2>6. CASE UNCHANGED directoryVars
      BY <2>6 DEF directoryVars, DirectoryIInv, DirectoryTypes, HeardAgain, QuietAge, Expired,
                  Pending
    <2> QED BY <2>1, <2>2, <2>3, <2>4, <2>5, <2>6 DEF DirectoryNext
  <1> QED BY <1>1, <1>2, PTL DEF DirectorySpec

(* Who was heard and goes on announcing stays listed, who stopped is gone  *)
(* within the expiry, and the directory keeps within its limit, for any    *)
(* number of nodes and whatever the network loses in a row.                *)
THEOREM DirectoryListsWhoIsHeard == DirectorySpec => []DirectoryFollows
  <1>1. DirectoryIInv => DirectoryFollows
    <2> SUFFICES ASSUME DirectoryIInv PROVE DirectoryFollows
      OBVIOUS
    <2>1. ASSUME turned, NEW n \in DOMAIN directory, n \notin announcing
          PROVE  quietFor[n] <= Expiry
      <3>1. quietFor[n] <= directory[n] /\ directory[n] < Expiry
        BY <2>1 DEF DirectoryIInv, QuietAge, Expired
      <3>2. quietFor[n] \in Nat /\ directory[n] \in Nat /\ Expiry \in Nat
        BY DirectoryAssumption DEF DirectoryIInv, DirectoryTypes
      <3> QED BY <3>1, <3>2
    <2> QED BY <2>1 DEF DirectoryIInv, HeardAgain, DirectoryFollows
  <1> QED BY <1>1, DirectoryKeeps, PTL

=============================================================================
