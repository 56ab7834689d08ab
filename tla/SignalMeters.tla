----------------------------- MODULE SignalMeters -----------------------------
(***************************************************************************)
(* The signal meters (signal_meter.rs): every session registers a meter    *)
(* under a name and removes it when it ends; audio threads raise the peaks *)
(* of a meter they hold, without a lock; the desktop application collects  *)
(* the peaks of all registered meters and resets them.                     *)
(*                                                                         *)
(* Sessions may use the same name: one that is stopped ends while its      *)
(* successor already runs.  Peaks are levels from 0, silence.  A meter has *)
(* one channel here, channels do not meet.                                 *)
(***************************************************************************)
EXTENDS Integers, Functions

CONSTANTS
  Metered,          \* sessions; a session's meter bears its name here
  MeterName,        \* the name a session registers under, [Metered -> names]
  ObserverOf,       \* the session a thread observes for, [threads -> Metered]
  Levels,           \* peaks above silence
  MaxObserved       \* bound: observations of a thread

ASSUME MetersAssumption ==
  /\ \A t \in DOMAIN ObserverOf : ObserverOf[t] \in Metered
  /\ Levels \subseteq Nat \ {0} /\ MaxObserved \in Nat

Observers == DOMAIN ObserverOf

VARIABLES
  lifecycle,        \* lifecycle[s]: "new", "running", "ended"
  newest,           \* newest[n]: the last session registered under a name
  meters,           \* the registry: name -> session
  peak,             \* channel_peaks of a session's meter
  observing,        \* atomic_max_f32: [value, current, shown], value 0: none
  observed,         \* observations of a thread
  unseen,           \* the highest level observed to the end and not shown since
  monitor           \* meters the desktop application has yet to read

meterVars == <<lifecycle, newest, meters, peak, observing, observed, unseen, monitor>>

NoObservation == [value |-> 0, current |-> 0, shown |-> 0]
Higher(a, b) == IF a < b THEN b ELSE a

MetersInit ==
  /\ lifecycle = [s \in Metered |-> "new"]
  /\ newest = << >> /\ meters = << >>
  /\ peak = [s \in Metered |-> 0]
  /\ observing = [t \in Observers |-> NoObservation]
  /\ observed = [t \in Observers |-> 0]
  /\ unseen = [s \in Metered |-> 0]
  /\ monitor = {}

-----------------------------------------------------------------------------
(* The registry.                                                           *)

With(f, n, s) == [m \in DOMAIN f \cup {n} |-> IF m = n THEN s ELSE f[m]]
Without(f, n) == Restrict(f, DOMAIN f \ {n})

Register(s) ==
  /\ lifecycle[s] = "new"
  /\ lifecycle' = [lifecycle EXCEPT ![s] = "running"]
  /\ meters' = With(meters, MeterName[s], s)
  /\ newest' = With(newest, MeterName[s], s)
  /\ UNCHANGED <<peak, observing, observed, unseen, monitor>>

(* Faulty variant: whatever bears the name is removed.                     *)
OwnMeter_ByName(s) == Without(meters, MeterName[s])

(* The guard of a session removes its own meter only.                      *)
OwnMeter(s) ==
  IF MeterName[s] \in DOMAIN meters /\ meters[MeterName[s]] = s
  THEN Without(meters, MeterName[s]) ELSE meters

(* The audio thread is gone before the guard is dropped.                   *)
DropGuard(s) ==
  /\ lifecycle[s] = "running"
  /\ \A t \in Observers : ObserverOf[t] = s => observing[t] = NoObservation
  /\ lifecycle' = [lifecycle EXCEPT ![s] = "ended"]
  /\ meters' = OwnMeter(s)
  /\ UNCHANGED <<newest, peak, observing, observed, unseen, monitor>>

-----------------------------------------------------------------------------
(* atomic_max_f32: load, compare, exchange if nobody came between.         *)

Load(t) ==
  /\ lifecycle[ObserverOf[t]] = "running"
  /\ observing[t] = NoObservation /\ observed[t] < MaxObserved
  /\ observed' = [observed EXCEPT ![t] = @ + 1]
  /\ \E level \in Levels :
       observing' = [observing EXCEPT ![t] =
         [value |-> level, current |-> peak[ObserverOf[t]], shown |-> 0]]
  /\ UNCHANGED <<lifecycle, newest, meters, peak, unseen, monitor>>

(* Seen, if a level as high has been shown since the load.                 *)
Observed(t) ==
  /\ observing' = [observing EXCEPT ![t] = NoObservation]
  /\ unseen' = [unseen EXCEPT ![ObserverOf[t]] =
       IF observing[t].shown >= observing[t].value THEN @ ELSE Higher(@, observing[t].value)]
  /\ UNCHANGED <<lifecycle, newest, meters, observed, monitor>>

AlreadyHigher(t) ==
  /\ observing[t] # NoObservation
  /\ observing[t].value <= observing[t].current
  /\ Observed(t)
  /\ UNCHANGED peak

Exchange(t) ==
  /\ observing[t] # NoObservation
  /\ observing[t].value > observing[t].current
  /\ peak[ObserverOf[t]] = observing[t].current
  /\ peak' = [peak EXCEPT ![ObserverOf[t]] = observing[t].value]
  /\ Observed(t)

(* Faulty variant: a failed exchange is not tried again.                   *)
ExchangeFails_GivesUp(t) ==
  /\ observing[t] # NoObservation
  /\ observing[t].value > observing[t].current
  /\ peak[ObserverOf[t]] # observing[t].current
  /\ Observed(t)
  /\ UNCHANGED peak

ExchangeFails(t) ==
  /\ observing[t] # NoObservation
  /\ observing[t].value > observing[t].current
  /\ peak[ObserverOf[t]] # observing[t].current
  /\ observing' = [observing EXCEPT ![t].current = peak[ObserverOf[t]]]
  /\ UNCHANGED <<lifecycle, newest, meters, peak, observed, unseen, monitor>>

-----------------------------------------------------------------------------
(* The monitor takes the handles under the lock and reads them without it: *)
(* a meter may be removed in between.                                      *)

CollectMeters ==
  /\ monitor = {}
  /\ monitor' = Range(meters)
  /\ UNCHANGED <<lifecycle, newest, meters, peak, observing, observed, unseen>>

ReadMeter(s) ==
  /\ s \in monitor
  /\ monitor' = monitor \ {s}
  /\ peak' = [peak EXCEPT ![s] = 0]
  /\ unseen' = [unseen EXCEPT ![s] = IF @ <= peak[s] THEN 0 ELSE @]
  /\ observing' = [t \in Observers |->
       IF ObserverOf[t] = s /\ observing[t] # NoObservation
       THEN [observing[t] EXCEPT !.shown = Higher(@, peak[s])] ELSE observing[t]]
  /\ UNCHANGED <<lifecycle, newest, meters, observed>>

MetersNext ==
  \/ \E s \in Metered : Register(s) \/ DropGuard(s) \/ ReadMeter(s)
  \/ \E t \in Observers : Load(t) \/ AlreadyHigher(t) \/ Exchange(t) \/ ExchangeFails(t)
  \/ CollectMeters

-----------------------------------------------------------------------------
(* A session that runs is monitored unless another one registered under    *)
(* its name later, even while its predecessor ends; an ended one is not.   *)
RunningIsMonitored ==
  /\ \A s \in Metered :
       lifecycle[s] = "running" /\ newest[MeterName[s]] = s =>
         MeterName[s] \in DOMAIN meters /\ meters[MeterName[s]] = s
  /\ \A n \in DOMAIN meters : lifecycle[meters[n]] = "running"

(* No peak goes unseen: a level once observed stays until the monitor has  *)
(* shown it or a higher one, however loads, exchanges and resets interleave*)
PeaksKept == \A s \in Metered : unseen[s] <= peak[s]

=============================================================================
