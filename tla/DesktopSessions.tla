---------------------------- MODULE DesktopSessions ----------------------------
(***************************************************************************)
(* The session life cycle of the desktop application and its headless mode *)
(* (apps/sender).  A session is a row of a list with a `running' flag; its *)
(* worker thread polls the flag, and lowers it as its last step.  The flag *)
(* is all they share: a session may be started again while the worker of   *)
(* an earlier start still winds down, and both then go by the same flag.   *)
(*                                                                         *)
(* Sessions that capture or play through an ASIO driver reserve it first   *)
(* (ASIO_DEVICE_LOCKS).  Sessions that receive also have a renewal thread  *)
(* that repeats the subscription.  The browser gateway is a session of its *)
(* own kind, with a second flag for its thread.                            *)
(*                                                                         *)
(* A click handler of the user interface thread is one step: between its   *)
(* statements a worker can only read the flag or take a step that commutes *)
(* with the rest of the handler.                                           *)
(***************************************************************************)
EXTENDS Integers, FiniteSets

CONSTANTS
  Sessions,     \* rows of the session lists
  Receiving,    \* those that receive, and so renew a subscription
  AsioPlayback, \* rows of the ASIO playback panel, which keeps its own list
  Drivers,      \* ASIO drivers
  DriverOf,     \* the driver of an ASIO session, NoDriver of another
  NoDriver,
  MaxStarts     \* bound: starts in a behaviour

ASSUME SessionsAssumption ==
  /\ Sessions # {}
  /\ Receiving \subseteq Sessions /\ AsioPlayback \subseteq Receiving
  /\ NoDriver \notin Drivers
  /\ DriverOf \in [Sessions -> Drivers \cup {NoDriver}]
  /\ MaxStarts \in Nat

Starts == 1 .. MaxStarts
Phases == {"unborn", "opening", "serving", "returned", "released", "gone"}

VARIABLES
  listed,       \* the rows the lists show
  running,      \* session.running
  started,      \* starts so far; start n has worker n and renewal thread n
  sessionOf,    \* the session a start belongs to
  phase,        \* where the worker of a start is
  renewing,     \* starts whose renewal thread lives
  locks,        \* ASIO_DEVICE_LOCKS
  gateway       \* the gateway's flags, and whether its thread is serving

sessionVars == <<listed, running>>
threadVars == <<started, sessionOf, phase, renewing>>
vars == <<sessionVars, threadVars, locks, gateway>>

-----------------------------------------------------------------------------
(* The user.                                                               *)

Holding == {"opening", "serving", "returned"}     \* a worker holds its driver
Alive(n) == phase[n] \notin {"unborn", "gone"}
DriverFree(s) == DriverOf[s] \notin locks
Needs(s) == {DriverOf[s]} \ {NoDriver}

(* The next start's threads; a failed thread::spawn leaves no worker.      *)
Spawn(s, to) ==
  /\ started < MaxStarts
  /\ started' = started + 1
  /\ sessionOf' = [sessionOf EXCEPT ![started + 1] = s]
  /\ phase' = [phase EXCEPT ![started + 1] = to]
  /\ renewing' = IF s \in Receiving THEN renewing \cup {started + 1} ELSE renewing

Begin(s) ==
  /\ s \in listed /\ ~ running[s]
  /\ running' = [running EXCEPT ![s] = TRUE]
  /\ Spawn(s, "opening")
  /\ UNCHANGED <<listed, gateway>>

(* Capture sessions, single and combined.                                  *)
StartPublisher(s) ==
  /\ DriverOf[s] = NoDriver /\ s \notin Receiving
  /\ Begin(s)
  /\ UNCHANGED locks

(* An ASIO session reserves its driver first; if it is taken the click     *)
(* changes nothing.                                                        *)
StartAsioPublisher(s) ==
  /\ DriverOf[s] # NoDriver /\ s \notin Receiving
  /\ DriverFree(s)
  /\ Begin(s)
  /\ locks' = locks \cup {DriverOf[s]}

(* Playback sessions, mixed or split: if the first request cannot be sent  *)
(* nothing changes.                                                        *)
StartReceiver(s) ==
  /\ DriverOf[s] = NoDriver /\ s \in Receiving
  /\ Begin(s)
  /\ UNCHANGED locks

(* Here the driver comes first: a request that cannot be sent gives it     *)
(* back.                                                                   *)
StartAsioReceiver(s) ==
  /\ DriverOf[s] # NoDriver /\ s \in Receiving
  /\ DriverFree(s)
  /\ Begin(s)
  /\ locks' = locks \cup {DriverOf[s]}

Start(s) ==
  StartPublisher(s) \/ StartAsioPublisher(s) \/ StartReceiver(s) \/ StartAsioReceiver(s)

(* The worker cannot be spawned: flag and driver are given back.  (The     *)
(* playback panel does not expect that, and panics.)                       *)
(* Faulty variant: the driver is kept.                                     *)
StartFails_KeepsDriver(s) ==
  /\ s \in listed \ AsioPlayback /\ ~ running[s]
  /\ DriverFree(s)
  /\ Spawn(s, "gone")
  /\ locks' = locks \cup Needs(s)
  /\ UNCHANGED <<sessionVars, gateway>>

StartFails(s) ==
  /\ s \in listed \ AsioPlayback /\ ~ running[s]
  /\ DriverFree(s)
  /\ Spawn(s, "gone")
  /\ UNCHANGED <<sessionVars, locks, gateway>>

Stop(s) ==
  /\ s \in listed /\ running[s]
  /\ running' = [running EXCEPT ![s] = FALSE]
  /\ UNCHANGED <<listed, threadVars, locks, gateway>>

(* stop_all_sessions, and the application's end: the five lists, not the   *)
(* panel's.                                                                *)
StopAll ==
  /\ running' = [s \in Sessions |-> s \in AsioPlayback /\ running[s]]
  /\ gateway' = [gateway EXCEPT !.running = FALSE]
  /\ UNCHANGED <<listed, threadVars, locks>>

(* A new row has a flag of its own.                                        *)
Unused(s) == \A n \in 1 .. started : sessionOf[n] # s

Add(s) ==
  /\ s \notin listed
  /\ Unused(s)
  /\ listed' = listed \cup {s}
  /\ UNCHANGED <<running, threadVars, locks, gateway>>

(* Faulty variant: a running row can be removed.                           *)
Remove_Running(s) ==
  /\ s \in listed
  /\ listed' = listed \ {s}
  /\ UNCHANGED <<running, threadVars, locks, gateway>>

Remove(s) ==
  /\ s \in listed /\ ~ running[s]
  /\ listed' = listed \ {s}
  /\ UNCHANGED <<running, threadVars, locks, gateway>>

(* A preset replaces the rows of the five lists, once they are stopped.    *)
ApplyPreset ==
  /\ \A s \in listed \ AsioPlayback : ~ running[s]
  /\ \E fresh \in SUBSET (Sessions \ AsioPlayback) :
       /\ \A s \in fresh : Unused(s)
       /\ listed' = (listed \cap AsioPlayback) \cup fresh
  /\ UNCHANGED <<running, threadVars, locks, gateway>>

-----------------------------------------------------------------------------
(* The threads.                                                            *)

Moves(n, from, to) ==
  /\ phase[n] = from
  /\ phase' = [phase EXCEPT ![n] = to]

(* The worker's function: binds, opens the device, serves, returns.        *)
Open(n) ==
  /\ Moves(n, "opening", "serving")
  /\ UNCHANGED <<sessionVars, started, sessionOf, renewing, locks, gateway>>

OpenFails(n) ==
  /\ Moves(n, "opening", "returned")
  /\ UNCHANGED <<sessionVars, started, sessionOf, renewing, locks, gateway>>

Leave(n) ==
  /\ ~ running[sessionOf[n]]
  /\ Moves(n, "serving", "returned")
  /\ UNCHANGED <<sessionVars, started, sessionOf, renewing, locks, gateway>>

ServeFails(n) ==
  /\ Moves(n, "serving", "returned")
  /\ UNCHANGED <<sessionVars, started, sessionOf, renewing, locks, gateway>>

(* release_asio_device, then the flag: in this order.                      *)
Release(n) ==
  /\ Moves(n, "returned", "released")
  /\ locks' = locks \ Needs(sessionOf[n])
  /\ UNCHANGED <<sessionVars, started, sessionOf, renewing, gateway>>

(* Faulty variant: the flag is left to the user.                           *)
Finish_FlagUp(n) ==
  /\ Moves(n, "released", "gone")
  /\ UNCHANGED <<sessionVars, started, sessionOf, renewing, locks, gateway>>

Finish(n) ==
  /\ Moves(n, "released", "gone")
  /\ running' = [running EXCEPT ![sessionOf[n]] = FALSE]
  /\ UNCHANGED <<listed, started, sessionOf, renewing, locks, gateway>>

(* Faulty variant: the renewal thread goes by its worker alone.            *)
RenewalEnds_WithWorker(n) ==
  /\ n \in renewing
  /\ phase[n] = "serving" /\ ~ running[sessionOf[n]]
  /\ renewing' = renewing \ {n}
  /\ UNCHANGED <<sessionVars, started, sessionOf, phase, locks, gateway>>

RenewalEnds(n) ==
  /\ n \in renewing
  /\ ~ running[sessionOf[n]]
  /\ renewing' = renewing \ {n}
  /\ UNCHANGED <<sessionVars, started, sessionOf, phase, locks, gateway>>

-----------------------------------------------------------------------------
(* The browser gateway: a start waits for the old thread's end.            *)

GatewayStart ==
  /\ ~ gateway.active
  /\ gateway' = [running |-> TRUE, active |-> TRUE, threads |-> gateway.threads + 1]
  /\ UNCHANGED <<sessionVars, threadVars, locks>>

GatewayStop ==
  /\ gateway.active /\ gateway.running
  /\ gateway' = [gateway EXCEPT !.running = FALSE]
  /\ UNCHANGED <<sessionVars, threadVars, locks>>

(* run_web_gateway returns, stopped or failed, and lowers the flag.        *)
GatewayFails ==
  /\ gateway.threads > 0 /\ gateway.running
  /\ gateway' = [gateway EXCEPT !.running = FALSE]
  /\ UNCHANGED <<sessionVars, threadVars, locks>>

GatewayEnds ==
  /\ gateway.threads > 0 /\ ~ gateway.running
  /\ gateway' = [running |-> FALSE, active |-> FALSE, threads |-> gateway.threads - 1]
  /\ UNCHANGED <<sessionVars, threadVars, locks>>

-----------------------------------------------------------------------------
Init ==
  /\ listed = {}
  /\ running = [s \in Sessions |-> FALSE]
  /\ started = 0
  /\ sessionOf = [n \in Starts |-> CHOOSE s \in Sessions : TRUE]
  /\ phase = [n \in Starts |-> "unborn"]
  /\ renewing = {}
  /\ locks = {}
  /\ gateway = [running |-> FALSE, active |-> FALSE, threads |-> 0]

User ==
  \/ \E s \in Sessions : Start(s) \/ StartFails(s) \/ Stop(s) \/ Add(s) \/ Remove(s)
  \/ StopAll \/ ApplyPreset
  \/ GatewayStart \/ GatewayStop

Thread(n) ==
  \/ Open(n) \/ OpenFails(n) \/ Leave(n) \/ ServeFails(n)
  \/ Release(n) \/ Finish(n) \/ RenewalEnds(n)

Next == User \/ (\E n \in Starts : Thread(n)) \/ GatewayFails \/ GatewayEnds

Spec == Init /\ [][Next]_vars

(* Threads run: a bind or a device call returns, the loops read the flag   *)
(* every 200 ms or sooner.  Nobody has to click, and nothing has to fail.  *)
Fairness ==
  /\ \A n \in Starts :
       /\ WF_vars(Open(n) \/ OpenFails(n)) /\ WF_vars(Leave(n))
       /\ WF_vars(Release(n)) /\ WF_vars(Finish(n)) /\ WF_vars(RenewalEnds(n))
  /\ WF_vars(GatewayEnds)

FairSpec == Spec /\ Fairness

-----------------------------------------------------------------------------
(* Every variable keeps to its range; threads belong to starts that were.  *)
TypeOK ==
  /\ listed \subseteq Sessions /\ running \in [Sessions -> BOOLEAN]
  /\ started \in 0 .. MaxStarts
  /\ sessionOf \in [Starts -> Sessions] /\ phase \in [Starts -> Phases]
  /\ \A n \in Starts : phase[n] = "unborn" <=> n > started
  /\ renewing \subseteq 1 .. started
  /\ locks \subseteq Drivers
  /\ gateway \in [running : BOOLEAN, active : BOOLEAN, threads : Nat]

(* The reserved drivers are those of the live workers, each of one only:   *)
(* no driver is opened twice, and none stays reserved after its worker,    *)
(* whichever way a start or a worker fails.                                *)
DriversHeldOnce ==
  /\ locks = UNION {Needs(sessionOf[n]) : n \in {m \in Starts : phase[m] \in Holding}}
  /\ \A m, n \in Starts :
       m # n /\ phase[m] \in Holding /\ phase[n] \in Holding =>
         Needs(sessionOf[m]) \cap Needs(sessionOf[n]) = {}

(* A row shown as running has a worker that has not ended, though several  *)
(* workers of it share the flag and each lowers it.                        *)
RunningIsBacked ==
  \A s \in Sessions : running[s] => \E n \in 1 .. started : sessionOf[n] = s /\ Alive(n)

(* What runs can be stopped: a session whose row is gone never runs again, *)
(* although its threads may still be there.                                *)
NoOrphanRuns == \A s \in Sessions \ listed : ~ running[s]

(* The gateway has one thread at a time: a restart waits for the old one.  *)
GatewaySingle ==
  /\ gateway.threads <= 1
  /\ gateway.active <=> gateway.threads = 1
  /\ gateway.running => gateway.active

(* A session that is stopped and left alone ends with all its threads, a   *)
(* removed one too.                                                        *)
StoppedEnds ==
  \A s \in Sessions :
    <>[](~ running[s]) =>
      <>[](\A n \in 1 .. started : sessionOf[n] = s => ~ Alive(n) /\ n \notin renewing)

=============================================================================
