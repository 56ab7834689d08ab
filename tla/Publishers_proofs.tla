--------------------------- MODULE Publishers_proofs ---------------------------
(***************************************************************************)
(* What the run of the publishing components checks on a few callbacks,    *)
(* packets and samples, proved for every value of the constants.           *)
(*                                                                         *)
(* First the components that share PublishersSpec: while one runs the      *)
(* others stand still, so each keeps its own invariant.  The resampler,    *)
(* for every pair of rates and every way to cut the stream into packets:   *)
(* each step that multiplies rates and counts leaves the solver one linear *)
(* fact, the products are named first.  The meters, by the way names and   *)
(* sessions belong together and by what a thread in the middle of an       *)
(* exchange may rely on.  The recording, for every capacity and number of  *)
(* audio threads: once finalize took the sender away, what the queue took  *)
(* is settled.  The codec and the tones, by laws of flattened sequences.   *)
(*                                                                         *)
(* Then the capture publisher.  Its safety properties are not inductive by *)
(* themselves: that the books balance when a block is popped needs that    *)
(* the blocks are consecutive stretches of the accepted audio (LedgerInv); *)
(* that nothing is pushed after the worker left needs that the stream was  *)
(* dropped before the queue was closed (LockInv, DrainInv).                *)
(***************************************************************************)
EXTENDS MCPublishers, SequenceTheorems, WellFoundedInduction, TLAPS

(* The resampler.                                                          *)

(* Every variable keeps to its range.                                      *)
ResampleTypes ==
  /\ inputRate \in Nat \ {0} /\ outputRate \in Nat \ {0}
  /\ resamplePc \in {"idle", "emit"}
  /\ phase \in Nat /\ available \in Nat /\ arrived \in Nat
  /\ drained \in Nat /\ outputs \in Nat

(* While nothing is pending, nothing is owed; once something is, one frame *)
(* always stays.                                                           *)
PendingKept ==
  /\ available = 0 => phase = 0 /\ resamplePc = "idle"
  /\ available > 0 => arrived > 0
  /\ available = 0 /\ arrived > 0 => inputRate = outputRate

ResampleIInv == ResampleTypes /\ PendingKept /\ InPlace /\ UpToDate

-----------------------------------------------------------------------------
(* Multiplication, in the form the steps need.                             *)

LEMMA Distribute ==
  ASSUME NEW a \in Int, NEW b \in Int, NEW c \in Int
  PROVE  /\ (a + b) * c = a * c + b * c
         /\ (a - b) * c = a * c - b * c
         /\ a * c \in Int
  BY SMT

LEMMA Monotone ==
  ASSUME NEW a \in Int, NEW b \in Int, NEW c \in Nat \ {0}
  PROVE  /\ a <= b => a * c <= b * c
         /\ a * c <= b * c => a <= b
  BY SMT

(* The frame an output lies on or after, and how far after.                *)
LEMMA PhaseParts ==
  ASSUME ResampleTypes
  PROVE  /\ First \in Nat /\ Fraction \in 0 .. outputRate - 1
         /\ phase = First * outputRate + Fraction
  BY SMT DEF ResampleTypes, First, Fraction

(* Where f whole frames and a part r of one lie against frame a.           *)
LEMMA EdgeArithmetic ==
  ASSUME NEW a \in Nat, NEW f \in Nat, NEW o \in Nat \ {0}, NEW r \in 0 .. o - 1
  PROVE  (f < a \/ (f = a /\ r = 0)) <=> f * o + r <= a * o
  <1>1. f * o \in Int /\ a * o \in Int
    BY SMT
  <1>2. CASE f < a
    <2>1. (f + 1) * o <= a * o /\ (f + 1) * o = f * o + o
      BY <1>2, SMT
    <2> QED BY <1>1, <1>2, <2>1
  <1>3. CASE f = a
    BY <1>1, <1>3
  <1>4. CASE f > a
    <2>1. (a + 1) * o <= f * o /\ (a + 1) * o = a * o + o
      BY <1>4, SMT
    <2> QED BY <1>1, <1>4, <2>1
  <1> QED BY <1>2, <1>3, <1>4

(* An output is reachable exactly if it lies on the newest pending frame or*)
(* before it.                                                              *)
LEMMA ReachableIsArrived ==
  ASSUME ResampleTypes, available > 0
  PROVE  Reachable <=> phase <= (available - 1) * outputRate
  <1>1. /\ First \in Nat /\ Fraction \in 0 .. outputRate - 1
        /\ phase = First * outputRate + Fraction
        /\ outputRate \in Nat \ {0} /\ available - 1 \in Nat /\ available \in Nat
    BY PhaseParts DEF ResampleTypes
  <1>2. Reachable <=> First < available - 1 \/ (First = available - 1 /\ Fraction = 0)
    BY <1>1 DEF Reachable
  <1>3. (First < available - 1 \/ (First = available - 1 /\ Fraction = 0))
          <=> First * outputRate + Fraction <= (available - 1) * outputRate
    BY <1>1, EdgeArithmetic
  <1> QED BY <1>1, <1>2, <1>3

-----------------------------------------------------------------------------
LEMMA ResampleInitInv == ResampleInit => ResampleIInv
  <1> SUFFICES ASSUME ResampleInit PROVE ResampleIInv
    OBVIOUS
  <1>1. inputRate \in Nat \ {0} /\ outputRate \in Nat \ {0}
    BY ResamplerAssumption DEF ResampleInit
  <1>2. 0 * outputRate = 0 /\ 0 * inputRate = 0
    BY <1>1
  <1> QED BY <1>1, <1>2 DEF ResampleInit, ResampleIInv, ResampleTypes, PendingKept,
                            InPlace, UpToDate

LEMMA PassThroughInv ==
  ASSUME ResampleIInv, PassThrough
  PROVE  ResampleIInv'
  <1>1. PICK n \in PacketSizes :
          arrived' = arrived + n /\ drained' = drained + n /\ outputs' = outputs + n
    BY DEF PassThrough
  <1>2. n \in Nat \ {0}
    BY <1>1, ResamplerAssumption
  <1>3. /\ inputRate = outputRate /\ available = 0 /\ phase = 0 /\ drained = arrived
        /\ resamplePc = "idle"
        /\ UNCHANGED <<inputRate, outputRate, resamplePc, phase, available>>
    BY DEF PassThrough, ResampleIInv, PendingKept, ResampleTypes, InPlace
  <1>4. ResampleTypes'
    BY <1>1, <1>2, <1>3 DEF ResampleIInv, ResampleTypes
  <1> DEFINE r == outputRate
  <1>5. r \in Nat \ {0} /\ drained \in Nat /\ outputs \in Nat /\ arrived \in Nat
    BY DEF ResampleIInv, ResampleTypes
  <1>6. drained * r = outputs * r
    BY <1>3, <1>5 DEF ResampleIInv, InPlace
  <1>7. drained = outputs
    BY <1>5, <1>6, Monotone
  <1>8. (outputs + n) * r = (arrived + n) * r /\ (outputs + n - 1) * r = (arrived + n - 1) * r
    BY <1>3, <1>7
  <1>9. (outputs + n) * r > (arrived + n - 1) * r
    <2>1. (arrived + n - 1) * r = (arrived + n) * r - 1 * r /\ (arrived + n) * r \in Int /\ 1 * r = r
      BY <1>2, <1>5, Distribute
    <2> QED BY <1>5, <1>8, <2>1
  <1>10. InPlace'
    <2>1. (outputs + n - 1) * r \in Int
      BY <1>2, <1>5
    <2> QED BY <1>1, <1>2, <1>3, <1>5, <1>7, <1>8, <2>1 DEF InPlace
  <1>11. UpToDate'
    <2>1. /\ outputs' = outputs + n /\ inputRate' = outputRate
          /\ arrived' = arrived + n /\ outputRate' = outputRate /\ available' = 0
      BY <1>1, <1>3
    <2>2. outputs' * inputRate' = (outputs + n) * r
      BY <2>1
    <2>3. arrived' - 1 = arrived + n - 1
      BY <1>2, <1>5, <2>1
    <2>4. (arrived' - 1) * outputRate' = (arrived + n - 1) * r
      BY <2>1, <2>3
    <2> QED BY <1>9, <2>1, <2>2, <2>4 DEF UpToDate
  <1>12. PendingKept'
    BY <1>3 DEF PendingKept
  <1> QED BY <1>4, <1>10, <1>11, <1>12 DEF ResampleIInv

LEMMA BeginInv ==
  ASSUME ResampleIInv, BeginProcess
  PROVE  ResampleIInv'
  <1>1. PICK n \in PacketSizes : arrived' = arrived + n /\ available' = available + n
    BY DEF BeginProcess
  <1>2. n \in Nat \ {0}
    BY <1>1, ResamplerAssumption
  <1>3. /\ resamplePc' = "emit" /\ UNCHANGED <<inputRate, outputRate, phase, drained, outputs>>
    BY DEF BeginProcess
  <1>4. ResampleTypes'
    BY <1>1, <1>2, <1>3 DEF ResampleIInv, ResampleTypes
  <1>5. (arrived - 1) * outputRate <= (arrived + n - 1) * outputRate
    BY <1>2, Monotone DEF ResampleIInv, ResampleTypes
  <1>6. /\ (arrived - 1) * outputRate \in Int /\ (arrived + n - 1) * outputRate \in Int
        /\ (outputs - 1) * inputRate \in Int
    BY <1>2, Distribute DEF ResampleIInv, ResampleTypes
  <1>7. InPlace'
    BY <1>1, <1>2, <1>3, <1>5, <1>6 DEF InPlace, ResampleIInv, ResampleTypes
  <1>8. UpToDate'
    BY <1>3 DEF UpToDate
  <1>9. PendingKept'
    BY <1>1, <1>2, <1>3 DEF PendingKept, ResampleIInv, ResampleTypes
  <1> QED BY <1>4, <1>7, <1>8, <1>9 DEF ResampleIInv

LEMMA EmitInv ==
  ASSUME ResampleIInv, Emit
  PROVE  ResampleIInv'
  <1>1. /\ Reachable /\ resamplePc = "emit" /\ outputs' = outputs + 1
        /\ phase' = phase + inputRate
        /\ UNCHANGED <<inputRate, outputRate, resamplePc, available, arrived, drained>>
    BY DEF Emit
  <1>2. ResampleTypes /\ ResampleTypes'
    BY <1>1 DEF ResampleIInv, ResampleTypes
  <1>3. available > 0
    BY <1>1, <1>2 DEF ResampleIInv, PendingKept, ResampleTypes
  <1> DEFINE o == outputRate
             i == inputRate
  <1>4. (outputs + 1) * i = outputs * i + 1 * i /\ outputs * i \in Int /\ 1 * i = i
    BY <1>2, Distribute DEF ResampleTypes
  <1>5. drained * o + phase' = (outputs + 1) * i
    BY <1>1, <1>2, <1>4 DEF ResampleIInv, InPlace, ResampleTypes
  <1>6. phase <= (available - 1) * o
    BY <1>1, <1>2, <1>3, ReachableIsArrived
  <1>7. outputs * i <= (arrived - 1) * o
    <2>1. arrived - 1 = drained + (available - 1)
      BY <1>2 DEF ResampleIInv, InPlace, ResampleTypes
    <2>2. (drained + (available - 1)) * o = drained * o + (available - 1) * o
      BY <1>2, Distribute DEF ResampleTypes
    <2>3. drained * o \in Int /\ (available - 1) * o \in Int
      BY <1>2, Distribute DEF ResampleTypes
    <2>4. drained * o + phase = outputs * i
      BY DEF ResampleIInv, InPlace
    <2> QED BY <1>2, <1>4, <1>6, <2>1, <2>2, <2>3, <2>4 DEF ResampleTypes
  <1>8. InPlace'
    <2>1. outputs + 1 - 1 = outputs
      BY <1>2 DEF ResampleTypes
    <2> QED BY <1>1, <1>2, <1>5, <1>7, <2>1 DEF InPlace, ResampleIInv, ResampleTypes
  <1>9. UpToDate'
    BY <1>1 DEF UpToDate
  <1>10. PendingKept'
    BY <1>1, <1>3 DEF PendingKept, ResampleIInv
  <1> QED BY <1>2, <1>8, <1>9, <1>10 DEF ResampleIInv

LEMMA EndInv ==
  ASSUME ResampleIInv, EndProcess
  PROVE  ResampleIInv'
  <1>1. /\ resamplePc = "emit" /\ ~ Reachable /\ resamplePc' = "idle"
        /\ available' = available - Used /\ drained' = drained + Used
        /\ phase' = phase - Used * outputRate
        /\ UNCHANGED <<inputRate, outputRate, arrived, outputs>>
    BY DEF EndProcess
  <1>2. ResampleTypes
    BY DEF ResampleIInv
  <1>3. available > 0
    BY <1>1, <1>2 DEF ResampleIInv, PendingKept, ResampleTypes
  <1> DEFINE o == outputRate
             a == available - 1
  <1>4. o \in Nat \ {0} /\ a \in Nat /\ drained \in Nat /\ phase \in Nat
    BY <1>2, <1>3 DEF ResampleTypes
  <1>5. phase > a * o /\ a * o \in Nat
    BY <1>1, <1>2, <1>3, <1>4, ReachableIsArrived
  (* The loop is left at the newest frame or past it: all before it goes.  *)
  <1>6. Used = a
    <2>1. First \in Nat /\ (First < available => First + 1 >= available)
      BY <1>1, <1>2, PhaseParts DEF Reachable, ResampleTypes
    <2> QED BY <1>2, <1>3, <2>1 DEF Used, ResampleTypes
  <1>7. available' = 1 /\ drained' = drained + a /\ phase' = phase - a * o
    BY <1>1, <1>2, <1>6 DEF ResampleTypes
  <1>8. ResampleTypes'
    BY <1>1, <1>2, <1>4, <1>5, <1>7 DEF ResampleTypes
  <1>9. (drained + a) * o = drained * o + a * o /\ drained * o \in Int
    BY <1>4, Distribute
  <1>10. drained + a = arrived - 1 /\ arrived > 0
    BY <1>2, <1>3, <1>4 DEF ResampleIInv, InPlace, PendingKept, ResampleTypes
  <1>11. drained * o + phase = outputs * inputRate
    BY DEF ResampleIInv, InPlace
  <1>12. (drained + a) * o + phase' = outputs * inputRate
    BY <1>4, <1>5, <1>7, <1>9, <1>11
  <1>13. outputs * inputRate > (arrived - 1) * o
    BY <1>4, <1>5, <1>9, <1>10, <1>11
  <1>14. InPlace'
    <2>1. outputs > 0 => (outputs - 1) * inputRate <= (arrived - 1) * outputRate
      BY DEF ResampleIInv, InPlace
    <2>2. UNCHANGED <<inputRate, outputRate, arrived, outputs>>
      BY <1>1
    <2>3. drained' * outputRate' + phase' = outputs' * inputRate'
      BY <1>7, <1>12, <2>2
    <2>4. phase' >= 0
      BY <1>8 DEF ResampleTypes
    <2>5. drained' + available' = arrived'
      BY <1>2, <1>4, <1>7, <1>10, <2>2 DEF ResampleTypes
    <2> QED BY <2>1, <2>2, <2>3, <2>4, <2>5 DEF InPlace
  <1>15. UpToDate'
    BY <1>1, <1>7, <1>13 DEF UpToDate
  <1>16. PendingKept'
    BY <1>1, <1>7, <1>10 DEF PendingKept
  <1> QED BY <1>8, <1>14, <1>15, <1>16 DEF ResampleIInv

LEMMA ResampleStepInv ==
  ASSUME ResampleIInv, [ResampleNext]_resampleVars
  PROVE  ResampleIInv'
  <1>1. CASE UNCHANGED resampleVars
    BY <1>1 DEF resampleVars, ResampleIInv, ResampleTypes, PendingKept, InPlace, UpToDate
  <1> QED
    BY <1>1, PassThroughInv, BeginInv, EmitInv, EndInv DEF ResampleNext

(* StreamingLinearResampler::process puts every output frame where it      *)
(* belongs, for all rates and all packets, plays nothing before it has     *)
(* arrived and keeps one frame between calls (stream_control.rs:198-245).  *)
THEOREM ResamplerInPlace == ResampleSpec => []ResampledInPlace
  <1>1. ResampleInit => ResampleIInv
    BY ResampleInitInv
  <1>2. ResampleIInv /\ [ResampleNext]_resampleVars => ResampleIInv'
    BY ResampleStepInv
  <1>3. ResampleIInv => ResampledInPlace
    BY DEF ResampleIInv, ResampledInPlace
  <1> QED BY <1>1, <1>2, <1>3, PTL DEF ResampleSpec

-----------------------------------------------------------------------------
(* The signal meters.                                                      *)

Observation == [value : Nat, current : Nat, shown : Nat]

(* Every variable keeps to its range.                                      *)
MeterTypes ==
  /\ lifecycle \in [Metered -> {"new", "running", "ended"}]
  /\ \A n \in DOMAIN meters : meters[n] \in Metered
  /\ peak \in [Metered -> Nat] /\ unseen \in [Metered -> Nat]
  /\ observing \in [Observers -> Observation]
  /\ monitor \subseteq Metered

(* A meter bears its session's name, and no session runs without having    *)
(* registered.                                                             *)
NamesBelong ==
  /\ \A n \in DOMAIN meters : MeterName[meters[n]] = n
  /\ \A s \in Metered : lifecycle[s] = "running" => MeterName[s] \in DOMAIN newest

(* What a thread loaded is still there, or has been shown since.           *)
LoadedIsKept ==
  \A t \in Observers :
    \/ observing[t].current <= peak[ObserverOf[t]]
    \/ observing[t].current <= observing[t].shown

MetersIInv == MeterTypes /\ NamesBelong /\ RunningIsMonitored /\ LoadedIsKept /\ PeaksKept

-----------------------------------------------------------------------------
LEMMA MetersInitInv == MetersInit => MetersIInv
  <1> SUFFICES ASSUME MetersInit PROVE MetersIInv
    OBVIOUS
  <1>1. DOMAIN meters = {}
    BY DEF MetersInit
  <1>2. \A t \in Observers : observing[t] = NoObservation /\ ObserverOf[t] \in Metered
    BY MetersAssumption DEF MetersInit, Observers
  <1>3. MeterTypes /\ NamesBelong /\ RunningIsMonitored
    BY <1>1 DEF MetersInit, MeterTypes, NamesBelong, RunningIsMonitored, Observation,
                NoObservation
  <1>4. LoadedIsKept
    BY <1>2 DEF MetersInit, LoadedIsKept, NoObservation
  <1>5. PeaksKept
    BY DEF MetersInit, PeaksKept
  <1> QED BY <1>3, <1>4, <1>5 DEF MetersIInv

(* Where only the registry changes, the peaks stay right.                  *)
LEMMA PeaksUntouched ==
  ASSUME LoadedIsKept, PeaksKept, UNCHANGED <<peak, observing, unseen>>
  PROVE  LoadedIsKept' /\ PeaksKept'
  BY DEF LoadedIsKept, PeaksKept

(* Where only peaks change, the registry stays right.                      *)
LEMMA RegistryUntouched ==
  ASSUME NamesBelong, RunningIsMonitored, UNCHANGED <<lifecycle, newest, meters>>
  PROVE  NamesBelong' /\ RunningIsMonitored'
  BY DEF NamesBelong, RunningIsMonitored

LEMMA RegisterInv ==
  ASSUME MetersIInv, NEW s \in Metered, Register(s)
  PROVE  MetersIInv'
  <1> DEFINE n == MeterName[s]
  <1>1. /\ lifecycle' = [lifecycle EXCEPT ![s] = "running"]
        /\ UNCHANGED <<peak, observing, observed, unseen, monitor>>
    BY DEF Register
  <1>2. /\ DOMAIN meters' = DOMAIN meters \cup {n} /\ meters'[n] = s
        /\ \A m \in DOMAIN meters : m # n => meters'[m] = meters[m]
    BY DEF Register, With
  <1>3. /\ DOMAIN newest' = DOMAIN newest \cup {n} /\ newest'[n] = s
        /\ \A m \in DOMAIN newest : m # n => newest'[m] = newest[m]
    BY DEF Register, With
  <1>4. MeterTypes'
    BY <1>1, <1>2 DEF MetersIInv, MeterTypes
  <1>5. /\ lifecycle'[s] = "running"
        /\ \A x \in Metered : x # s => lifecycle'[x] = lifecycle[x]
    BY <1>1 DEF MetersIInv, MeterTypes
  <1>6. NamesBelong'
    BY <1>2, <1>3, <1>5 DEF MetersIInv, MeterTypes, NamesBelong
  <1>7. RunningIsMonitored'
    <2>1. ASSUME NEW x \in Metered, lifecycle'[x] = "running", newest'[MeterName[x]] = x
          PROVE  MeterName[x] \in DOMAIN meters' /\ meters'[MeterName[x]] = x
      <3>1. CASE x = s
        BY <1>2, <3>1
      <3>2. CASE x # s
        <4>1. MeterName[x] # n
          BY <1>3, <2>1, <3>2
        <4>2. lifecycle[x] = "running" /\ MeterName[x] \in DOMAIN newest
          BY <1>5, <2>1, <3>2 DEF MetersIInv, NamesBelong
        <4>3. newest[MeterName[x]] = x
          BY <1>3, <2>1, <4>1, <4>2
        <4> QED BY <1>2, <4>1, <4>2, <4>3 DEF MetersIInv, RunningIsMonitored
      <3> QED BY <3>1, <3>2
    <2>2. \A m \in DOMAIN meters' : lifecycle'[meters'[m]] = "running"
      BY <1>2, <1>5 DEF MetersIInv, MeterTypes, RunningIsMonitored
    <2> QED BY <2>1, <2>2 DEF RunningIsMonitored
  <1> QED BY <1>1, <1>4, <1>6, <1>7, PeaksUntouched DEF MetersIInv

LEMMA DropGuardInv ==
  ASSUME MetersIInv, NEW s \in Metered, DropGuard(s)
  PROVE  MetersIInv'
  <1> DEFINE n == MeterName[s]
  <1>1. /\ lifecycle' = [lifecycle EXCEPT ![s] = "ended"]
        /\ UNCHANGED <<newest, peak, observing, observed, unseen, monitor>>
    BY DEF DropGuard
  <1>2. /\ lifecycle'[s] = "ended"
        /\ \A x \in Metered : x # s => lifecycle'[x] = lifecycle[x]
    BY <1>1 DEF MetersIInv, MeterTypes
  (* Exactly the entries that are another session's stay.                  *)
  <1>3. /\ DOMAIN meters' = {m \in DOMAIN meters : meters[m] # s}
        /\ \A m \in DOMAIN meters' : meters'[m] = meters[m]
    <2>1. \A m \in DOMAIN meters : meters[m] = s => m = n
      BY DEF MetersIInv, NamesBelong
    <2>2. CASE n \in DOMAIN meters /\ meters[n] = s
      <3>1. meters' = [m \in DOMAIN meters \ {n} |-> meters[m]]
        BY <2>2 DEF DropGuard, OwnMeter, Without, Restrict
      <3> QED BY <2>1, <2>2, <3>1
    <2>3. CASE ~ (n \in DOMAIN meters /\ meters[n] = s)
      <3>1. meters' = meters
        BY <2>3 DEF DropGuard, OwnMeter
      <3> QED BY <2>1, <2>3, <3>1
    <2> QED BY <2>2, <2>3
  <1>4. MeterTypes'
    BY <1>1, <1>3 DEF MetersIInv, MeterTypes
  <1>5. NamesBelong'
    BY <1>1, <1>2, <1>3 DEF MetersIInv, NamesBelong
  <1>6. RunningIsMonitored'
    BY <1>1, <1>2, <1>3 DEF MetersIInv, MeterTypes, RunningIsMonitored
  <1> QED BY <1>1, <1>4, <1>5, <1>6, PeaksUntouched DEF MetersIInv

-----------------------------------------------------------------------------
LEMMA LoadInv ==
  ASSUME MetersIInv, NEW t \in Observers, Load(t)
  PROVE  MetersIInv'
  <1>1. PICK level \in Levels :
          observing' = [observing EXCEPT ![t] =
            [value |-> level, current |-> peak[ObserverOf[t]], shown |-> 0]]
    BY DEF Load
  <1>2. UNCHANGED <<lifecycle, newest, meters, peak, unseen, monitor>>
    BY DEF Load
  <1>3. ObserverOf[t] \in Metered /\ level \in Nat
    BY <1>1, MetersAssumption DEF Observers
  <1>4. peak[ObserverOf[t]] \in Nat
    BY <1>3 DEF MetersIInv, MeterTypes
  <1>5. MeterTypes'
    BY <1>1, <1>2, <1>3, <1>4 DEF MetersIInv, MeterTypes, Observation
  <1>6. \A u \in Observers : observing'[u] =
          IF u = t THEN [value |-> level, current |-> peak[ObserverOf[t]], shown |-> 0]
          ELSE observing[u]
    BY <1>1 DEF MetersIInv, MeterTypes
  <1>7. LoadedIsKept'
    BY <1>2, <1>4, <1>6 DEF MetersIInv, LoadedIsKept
  <1>8. PeaksKept'
    BY <1>2 DEF MetersIInv, PeaksKept
  <1> QED BY <1>2, <1>5, <1>7, <1>8, RegistryUntouched DEF MetersIInv

(* The end of an observation, whatever peak it leaves, if it raised it or  *)
(* found it as high.                                                       *)
LEMMA ObservedInv ==
  ASSUME MetersIInv, NEW t \in Observers, Observed(t),
         peak' \in [Metered -> Nat],
         \A s \in Metered : peak[s] <= peak'[s],
         observing[t].value <= peak'[ObserverOf[t]] \/ observing[t].value <= observing[t].shown
  PROVE  MetersIInv'
  <1> DEFINE s == ObserverOf[t]
             v == observing[t].value
  <1>1. /\ observing' = [observing EXCEPT ![t] = NoObservation]
        /\ UNCHANGED <<lifecycle, newest, meters, monitor>>
    BY DEF Observed
  <1>2. s \in Metered /\ v \in Nat /\ observing[t].shown \in Nat
    BY MetersAssumption DEF Observers, MetersIInv, MeterTypes, Observation
  <1>3. unseen' = [unseen EXCEPT ![s] = IF observing[t].shown >= v THEN @ ELSE Higher(@, v)]
    BY DEF Observed
  <1>4. \A x \in Metered : unseen'[x] =
          IF x = s /\ ~ (observing[t].shown >= v) /\ unseen[s] < v THEN v ELSE unseen[x]
    BY <1>2, <1>3 DEF MetersIInv, MeterTypes, Higher
  <1>5. unseen' \in [Metered -> Nat]
    BY <1>2, <1>3 DEF MetersIInv, MeterTypes, Higher
  <1>6. MeterTypes'
    BY <1>1, <1>5 DEF MetersIInv, MeterTypes, Observation, NoObservation
  <1>7. PeaksKept'
    BY <1>2, <1>4 DEF MetersIInv, MeterTypes, PeaksKept
  <1>8. LoadedIsKept'
    <2> SUFFICES ASSUME NEW u \in Observers
                 PROVE  \/ observing'[u].current <= peak'[ObserverOf[u]]
                        \/ observing'[u].current <= observing'[u].shown
      BY DEF LoadedIsKept
    <2>1. ObserverOf[u] \in Metered
      BY MetersAssumption DEF Observers
    <2>2. CASE u = t
      <3>1. observing'[u] = NoObservation
        BY <1>1, <2>2 DEF MetersIInv, MeterTypes
      <3> QED BY <2>1, <3>1 DEF NoObservation
    <2>3. CASE u # t
      <3>1. observing'[u] = observing[u]
        BY <1>1, <2>3 DEF MetersIInv, MeterTypes
      <3>2. observing[u].current \in Nat /\ peak[ObserverOf[u]] \in Nat
        BY <2>1 DEF MetersIInv, MeterTypes, Observation
      <3> QED BY <2>1, <3>1, <3>2 DEF MetersIInv, LoadedIsKept
    <2> QED BY <2>2, <2>3
  <1> QED BY <1>1, <1>6, <1>7, <1>8, RegistryUntouched DEF MetersIInv

LEMMA AlreadyHigherInv ==
  ASSUME MetersIInv, NEW t \in Observers, AlreadyHigher(t)
  PROVE  MetersIInv'
  <1>1. ObserverOf[t] \in Metered
    BY MetersAssumption DEF Observers
  <1>2. /\ observing[t].value <= observing[t].current /\ peak' = peak /\ Observed(t)
    BY DEF AlreadyHigher
  <1>3. /\ observing[t].value \in Nat /\ observing[t].current \in Nat
        /\ observing[t].shown \in Nat /\ peak \in [Metered -> Nat]
    BY DEF MetersIInv, MeterTypes, Observation
  <1>4. \/ observing[t].current <= peak[ObserverOf[t]]
        \/ observing[t].current <= observing[t].shown
    BY DEF MetersIInv, LoadedIsKept
  <1>5. observing[t].value <= peak'[ObserverOf[t]] \/ observing[t].value <= observing[t].shown
    BY <1>1, <1>2, <1>3, <1>4
  <1>6. \A s \in Metered : peak[s] <= peak'[s]
    BY <1>2, <1>3
  <1> QED BY <1>2, <1>3, <1>5, <1>6, ObservedInv

LEMMA ExchangeInv ==
  ASSUME MetersIInv, NEW t \in Observers, Exchange(t)
  PROVE  MetersIInv'
  <1>1. ObserverOf[t] \in Metered
    BY MetersAssumption DEF Observers
  <1>2. /\ observing[t].value > observing[t].current
        /\ peak[ObserverOf[t]] = observing[t].current
        /\ peak' = [peak EXCEPT ![ObserverOf[t]] = observing[t].value]
        /\ Observed(t)
    BY DEF Exchange
  <1>3. /\ observing[t].value \in Nat /\ observing[t].current \in Nat
        /\ peak \in [Metered -> Nat]
    BY DEF MetersIInv, MeterTypes, Observation
  <1>4. peak' \in [Metered -> Nat] /\ \A s \in Metered : peak[s] <= peak'[s]
    BY <1>1, <1>2, <1>3
  <1>5. observing[t].value <= peak'[ObserverOf[t]]
    BY <1>1, <1>2, <1>3
  <1> QED BY <1>2, <1>4, <1>5, ObservedInv

LEMMA ExchangeFailsInv ==
  ASSUME MetersIInv, NEW t \in Observers, ExchangeFails(t)
  PROVE  MetersIInv'
  <1>1. /\ observing' = [observing EXCEPT ![t].current = peak[ObserverOf[t]]]
        /\ UNCHANGED <<lifecycle, newest, meters, peak, observed, unseen, monitor>>
    BY DEF ExchangeFails
  <1>2. ObserverOf[t] \in Metered
    BY MetersAssumption DEF Observers
  <1>3. peak[ObserverOf[t]] \in Nat
    BY <1>2 DEF MetersIInv, MeterTypes
  <1>4. MeterTypes'
    BY <1>1, <1>3 DEF MetersIInv, MeterTypes, Observation
  <1>5. LoadedIsKept'
    BY <1>1, <1>3 DEF MetersIInv, MeterTypes, LoadedIsKept, Observation
  <1>6. PeaksKept'
    BY <1>1 DEF MetersIInv, PeaksKept
  <1> QED BY <1>1, <1>4, <1>5, <1>6, RegistryUntouched DEF MetersIInv

-----------------------------------------------------------------------------
LEMMA CollectInv ==
  ASSUME MetersIInv, CollectMeters
  PROVE  MetersIInv'
  <1>1. /\ monitor' = {meters[n] : n \in DOMAIN meters}
        /\ UNCHANGED <<lifecycle, newest, meters, peak, observing, observed, unseen>>
    BY DEF CollectMeters, Range
  <1>2. MeterTypes'
    BY <1>1 DEF MetersIInv, MeterTypes
  <1> QED BY <1>1, <1>2, PeaksUntouched, RegistryUntouched DEF MetersIInv

LEMMA ReadMeterInv ==
  ASSUME MetersIInv, NEW s \in Metered, ReadMeter(s)
  PROVE  MetersIInv'
  <1>1. /\ monitor' = monitor \ {s}
        /\ peak' = [peak EXCEPT ![s] = 0]
        /\ unseen' = [unseen EXCEPT ![s] = IF @ <= peak[s] THEN 0 ELSE @]
        /\ UNCHANGED <<lifecycle, newest, meters, observed>>
    BY DEF ReadMeter
  <1>2. peak[s] \in Nat /\ unseen[s] \in Nat /\ unseen[s] <= peak[s]
    BY DEF MetersIInv, MeterTypes, PeaksKept
  <1>3. \A t \in Observers : observing'[t] =
          IF ObserverOf[t] = s /\ observing[t] # NoObservation
          THEN [observing[t] EXCEPT !.shown = Higher(@, peak[s])] ELSE observing[t]
    BY DEF ReadMeter
  <1>4. \A t \in Observers : observing[t] \in Observation /\ observing'[t] \in Observation
    <2>1. \A t \in Observers : observing[t] \in Observation
      BY DEF MetersIInv, MeterTypes
    <2> QED BY <1>2, <1>3, <2>1 DEF Observation, Higher
  <1>5. MeterTypes'
    <2>1. observing' \in [Observers -> Observation]
      BY <1>4 DEF ReadMeter
    <2> QED BY <1>1, <1>2, <2>1 DEF MetersIInv, MeterTypes
  <1>6. PeaksKept'
    BY <1>1, <1>2 DEF MetersIInv, MeterTypes, PeaksKept
  <1>7. LoadedIsKept'
    <2> SUFFICES ASSUME NEW t \in Observers
                 PROVE  \/ observing'[t].current <= peak'[ObserverOf[t]]
                        \/ observing'[t].current <= observing'[t].shown
      BY DEF LoadedIsKept
    <2>1. /\ ObserverOf[t] \in Metered
          /\ \/ observing[t].current <= peak[ObserverOf[t]]
             \/ observing[t].current <= observing[t].shown
      BY MetersAssumption DEF Observers, MetersIInv, LoadedIsKept
    <2>2. observing[t].current \in Nat /\ observing[t].shown \in Nat
      BY <1>4 DEF Observation
    <2>3. CASE ObserverOf[t] # s
      BY <1>1, <1>3, <2>1, <2>3 DEF MetersIInv, MeterTypes
    <2>4. CASE ObserverOf[t] = s /\ observing[t] # NoObservation
      <3>1. /\ observing'[t].current = observing[t].current
            /\ observing'[t].shown = Higher(observing[t].shown, peak[s])
        BY <1>3, <1>4, <2>4 DEF Observation
      <3> QED BY <1>2, <2>1, <2>2, <2>4, <3>1 DEF Higher
    <2>5. CASE ObserverOf[t] = s /\ observing[t] = NoObservation
      <3>1. observing'[t] = NoObservation
        BY <1>3, <2>5
      <3> QED BY <3>1 DEF NoObservation
    <2> QED BY <2>3, <2>4, <2>5
  <1> QED BY <1>1, <1>5, <1>6, <1>7, RegistryUntouched DEF MetersIInv

LEMMA MetersStepInv ==
  ASSUME MetersIInv, [MetersNext]_meterVars
  PROVE  MetersIInv'
  <1>1. CASE UNCHANGED meterVars
    BY <1>1, PeaksUntouched, RegistryUntouched DEF meterVars, MetersIInv, MeterTypes
  <1>2. CASE MetersNext
    BY <1>2, RegisterInv, DropGuardInv, ReadMeterInv, LoadInv, AlreadyHigherInv,
       ExchangeInv, ExchangeFailsInv, CollectInv DEF MetersNext
  <1> QED BY <1>1, <1>2

-----------------------------------------------------------------------------
(* The recording.                                                          *)

(* Every variable keeps to its range.                                      *)
RecordTypes ==
  /\ flac \in BOOLEAN /\ sender \in BOOLEAN
  /\ writerLock \in Writers \cup {"nobody", "finalize"}
  /\ written \in Nat /\ inside \in [Writers -> Nat]
  /\ recordQueue \in Seq(Nat) /\ taken \in Seq(Nat)
  /\ collected \in Seq(Nat) /\ file \in Seq(Nat)
  /\ diskPc \in {"create", "receive", "save", "done", "failed"}
  /\ finalizePc \in {"no", "lock", "join", "done"}

(* Only the holder of the lock has a block in hand, and it is a new one.   *)
InHand ==
  /\ \A w \in Writers : inside[w] # 0 => writerLock = w
  /\ finalizePc = "join" => writerLock = "finalize"
  /\ \A w \in Writers : inside[w] <= written
  /\ \A i \in ToSet(taken) \cup refused : i \in Nat \ {0} /\ i <= written

(* The end of the queue, and of the file, is reached without the sender.   *)
Settled ==
  /\ finalizePc \in {"join", "done"} => ~ sender
  /\ diskPc \in {"save", "done"} => ~ sender /\ recordQueue = << >>
  /\ diskPc = "done" => file = collected
  /\ finalizePc = "done" => diskPc \in {"done", "failed"}

(* Nothing gets lost on the way through the queue.                         *)
InOrder == diskPc # "failed" => collected \o recordQueue = taken

(* A block is queued or refused.                                           *)
OnePlace ==
  /\ ToSet(taken) \cap refused = {}
  /\ \A w \in Writers : inside[w] \notin ToSet(taken) \cup refused

RecordIInv ==
  RecordTypes /\ InHand /\ Settled /\ InOrder /\ OnePlace /\ Len(recordQueue) <= QueueBlocks

-----------------------------------------------------------------------------
LEMMA ToSetOfAppend ==
  ASSUME NEW S, NEW s \in Seq(S), NEW e \in S
  PROVE  ToSet(Append(s, e)) = ToSet(s) \cup {e}
  <1>1. /\ DOMAIN s = 1 .. Len(s) /\ Len(s) \in Nat
        /\ DOMAIN Append(s, e) = 1 .. Len(s) + 1
        /\ \A i \in 1 .. Len(s) : Append(s, e)[i] = s[i]
        /\ Append(s, e)[Len(s) + 1] = e
    BY AppendProperties, LenProperties
  <1>2. 1 .. Len(s) + 1 = (1 .. Len(s)) \cup {Len(s) + 1}
    BY <1>1
  <1> QED BY <1>1, <1>2 DEF ToSet

(* Taking the head of a queue over to what was collected loses nothing.    *)
LEMMA HeadMoves ==
  ASSUME NEW S, NEW c \in Seq(S), NEW q \in Seq(S), q # << >>
  PROVE  /\ Append(c, Head(q)) \o Tail(q) = c \o q
         /\ Append(c, Head(q)) \in Seq(S) /\ Tail(q) \in Seq(S)
         /\ Len(Tail(q)) <= Len(q)
  <1>1. /\ Head(q) \in S /\ Tail(q) \in Seq(S) /\ Len(Tail(q)) = Len(q) - 1
        /\ Len(q) \in Nat
    BY HeadTailProperties, LenProperties
  <1>2. Append(c, Head(q)) = c \o <<Head(q)>> /\ Append(c, Head(q)) \in Seq(S)
    BY <1>1, AppendIsConcat, AppendProperties
  <1>3. <<Head(q)>> \o Tail(q) = q
    BY <1>1
  <1>4. (c \o <<Head(q)>>) \o Tail(q) = c \o (<<Head(q)>> \o Tail(q))
    <2>1. <<Head(q)>> \in Seq(S)
      BY <1>1
    <2> QED BY <1>1, <2>1, ConcatAssociative
  <1> QED BY <1>1, <1>2, <1>3, <1>4

LEMMA AppendMoves ==
  ASSUME NEW S, NEW c \in Seq(S), NEW q \in Seq(S), NEW e \in S
  PROVE  c \o Append(q, e) = Append(c \o q, e)
  <1>1. Append(q, e) = q \o <<e>> /\ <<e>> \in Seq(S) /\ c \o q \in Seq(S)
    BY AppendIsConcat, ConcatProperties
  <1>2. Append(c \o q, e) = (c \o q) \o <<e>>
    BY <1>1, AppendIsConcat
  <1> QED BY <1>1, <1>2, ConcatAssociative

-----------------------------------------------------------------------------
LEMMA RecordInitInv == RecordInit => RecordIInv
  <1> SUFFICES ASSUME RecordInit PROVE RecordIInv
    OBVIOUS
  <1>1. << >> \in Seq(Nat) /\ Len(<< >>) = 0 /\ ToSet(<< >>) = {} /\ << >> \o << >> = << >>
    BY DEF ToSet
  <1>2. RecordTypes
    BY <1>1 DEF RecordInit, RecordTypes
  <1>3. InHand /\ Settled /\ InOrder /\ OnePlace
    BY <1>1 DEF RecordInit, InHand, Settled, InOrder, OnePlace
  <1> QED BY <1>1, <1>2, <1>3, RecordingAssumption DEF RecordInit, RecordIInv

(* A call gets a number of its own, and the lock or a refusal.             *)
LEMMA WriteBeginsInv ==
  ASSUME RecordIInv, NEW w \in Writers, WriteBegins(w)
  PROVE  RecordIInv'
  <1> USE DEF RecordIInv
  <1>1. /\ inside[w] = 0 /\ written' = written + 1
        /\ UNCHANGED <<flac, sender, diskPc, collected, file, finalizePc, recordQueue, taken>>
    BY DEF WriteBegins, Refuse
  <1>2. written + 1 \notin ToSet(taken) \cup refused /\ written \in Nat
        /\ inside \in [Writers -> Nat]
    BY DEF RecordTypes, InHand
  <1>3. /\ \A i \in ToSet(taken) \cup refused : i \in Nat \ {0} /\ i <= written + 1
        /\ \A v \in Writers : inside[v] \in Nat /\ inside[v] <= written
    BY <1>2 DEF InHand
  <1>4. Settled' /\ InOrder' /\ Len(recordQueue') <= QueueBlocks
    BY <1>1 DEF Settled, InOrder
  <1>5. CASE writerLock = "nobody" /\ writerLock' = w
             /\ inside' = [inside EXCEPT ![w] = written + 1] /\ refused' = refused
    <2>1. RecordTypes'
      BY <1>1, <1>2, <1>5 DEF RecordTypes
    <2>2. \A v \in Writers : inside'[v] = IF v = w THEN written + 1 ELSE inside[v]
      BY <1>2, <1>5
    <2>3. InHand'
      <3>1. \A v \in Writers : inside[v] = 0
        BY <1>5, RecordingAssumption DEF InHand
      <3> QED BY <1>1, <1>2, <1>3, <1>5, <2>2, <3>1 DEF InHand
    <2>4. OnePlace'
      BY <1>1, <1>2, <1>5, <2>2 DEF OnePlace
    <2> QED BY <1>4, <2>1, <2>3, <2>4
  <1>6. CASE writerLock # "nobody" /\ refused' = refused \cup {written + 1}
             /\ UNCHANGED <<writerLock, inside>>
    <2>1. RecordTypes'
      BY <1>1, <1>2, <1>6 DEF RecordTypes
    <2>2. InHand'
      BY <1>1, <1>2, <1>3, <1>6 DEF InHand
    <2>3. OnePlace'
      BY <1>1, <1>2, <1>3, <1>6 DEF OnePlace
    <2> QED BY <1>4, <2>1, <2>2, <2>3
  <1> QED BY <1>5, <1>6 DEF WriteBegins, Refuse

LEMMA WriteEndsInv ==
  ASSUME RecordIInv, NEW w \in Writers, WriteEnds(w)
  PROVE  RecordIInv'
  <1> USE DEF RecordIInv
  <1> DEFINE b == inside[w]
  <1>1. /\ b # 0 /\ inside' = [inside EXCEPT ![w] = 0] /\ writerLock' = "nobody"
        /\ UNCHANGED <<flac, written, sender, diskPc, collected, file, finalizePc>>
    BY DEF WriteEnds
  <1>2. /\ b \in Nat \ {0} /\ b <= written /\ written \in Nat
        /\ b \notin ToSet(taken) \cup refused
        /\ \A v \in Writers : v # w => inside[v] = 0
        /\ finalizePc # "join"
    BY <1>1, RecordingAssumption DEF RecordTypes, InHand, OnePlace
  <1>3. \A v \in Writers : inside'[v] = 0
    BY <1>1, <1>2 DEF RecordTypes
  <1>4. \A i \in ToSet(taken) \cup refused : i \in Nat \ {0} /\ i <= written
    BY DEF InHand
  <1>5. /\ recordQueue \in Seq(Nat) /\ taken \in Seq(Nat) /\ collected \in Seq(Nat)
        /\ Len(recordQueue) \in Nat
    BY LenProperties DEF RecordTypes
  <1>6. CASE Queued(b)
    <2>1. /\ sender /\ diskPc # "failed" /\ Len(recordQueue) < QueueBlocks
          /\ recordQueue' = Append(recordQueue, b) /\ taken' = Append(taken, b)
          /\ refused' = refused
      BY <1>6 DEF Queued
    <2>2. /\ recordQueue' \in Seq(Nat) /\ taken' \in Seq(Nat)
          /\ Len(recordQueue') = Len(recordQueue) + 1
      BY <1>2, <1>5, <2>1, AppendProperties
    <2>3. ToSet(taken') = ToSet(taken) \cup {b}
      BY <1>2, <1>5, <2>1, ToSetOfAppend
    <2>4. RecordTypes'
      BY <1>1, <1>2, <2>2 DEF RecordTypes
    <2>5. InHand'
      BY <1>1, <1>2, <1>3, <1>4, <2>1, <2>3 DEF InHand
    <2>6. Settled'
      BY <1>1, <2>1 DEF Settled
    <2>7. InOrder'
      <3>1. collected \o Append(recordQueue, b) = Append(collected \o recordQueue, b)
        <4>1. b \in Nat /\ recordQueue \in Seq(Nat) /\ collected \in Seq(Nat)
          BY <1>2, <1>5
        <4> QED BY <4>1, AppendMoves
      <3> QED BY <1>1, <2>1, <3>1 DEF InOrder
    <2>8. OnePlace'
      <3>1. (ToSet(taken) \cup {b}) \cap refused = {}
        BY <1>2 DEF OnePlace
      <3>2. 0 \notin ToSet(taken) \cup {b} \cup refused
        BY <1>2, <1>4
      <3>3. \A v \in Writers : inside'[v] \notin ToSet(taken') \cup refused'
        BY <1>3, <2>1, <2>3, <3>2
      <3>4. ToSet(taken') \cap refused' = {}
        BY <2>1, <2>3, <3>1
      <3> QED BY <3>3, <3>4 DEF OnePlace
    <2>9. Len(recordQueue') <= QueueBlocks
      BY <1>5, <2>1, <2>2, RecordingAssumption
    <2> QED BY <2>4, <2>5, <2>6, <2>7, <2>8, <2>9
  <1>7. CASE Refuse(b)
    <2>1. refused' = refused \cup {b} /\ UNCHANGED <<recordQueue, taken>>
      BY <1>7 DEF Refuse
    <2>2. RecordTypes'
      BY <1>1, <2>1 DEF RecordTypes
    <2>3. InHand'
      BY <1>1, <1>2, <1>3, <1>4, <2>1 DEF InHand
    <2>4. Settled' /\ InOrder' /\ Len(recordQueue') <= QueueBlocks
      BY <1>1, <2>1 DEF Settled, InOrder
    <2>5. OnePlace'
      BY <1>2, <1>3, <1>4, <2>1 DEF OnePlace
    <2> QED BY <2>2, <2>3, <2>4, <2>5
  <1> QED BY <1>6, <1>7 DEF WriteEnds

-----------------------------------------------------------------------------
LEMMA DiskStepInv ==
  ASSUME RecordIInv, DiskStep
  PROVE  RecordIInv'
  <1> USE DEF RecordIInv
  <1>0. /\ recordQueue \in Seq(Nat) /\ collected \in Seq(Nat) /\ Len(recordQueue) \in Nat
        /\ << >> \in Seq(Nat) /\ Len(<< >>) = 0 /\ QueueBlocks \in Nat
    BY LenProperties, RecordingAssumption DEF RecordTypes
  <1>1. UNCHANGED <<flac, writerLock, written, inside, sender, taken, refused, finalizePc>>
    BY DEF DiskStep, CreateFile, TakeRecorded, StopReceiving, SaveFile
  <1>2. InHand' /\ OnePlace'
    BY <1>1 DEF InHand, OnePlace
  <1>3. CASE CreateFile
    <2>1. /\ diskPc = "create" /\ diskPc' \in {"receive", "failed"}
          /\ UNCHANGED <<collected, file>>
          /\ diskPc' = "failed" => recordQueue' = << >>
          /\ diskPc' = "receive" => recordQueue' = recordQueue
      BY <1>3 DEF CreateFile
    <2>2. recordQueue' \in Seq(Nat) /\ Len(recordQueue') <= QueueBlocks
      <3>1. CASE recordQueue' = << >>
        BY <1>0, <3>1
      <3>2. CASE recordQueue' = recordQueue
        BY <1>0, <3>2
      <3> QED BY <2>1, <3>1, <3>2
    <2>3. RecordTypes'
      BY <1>1, <2>1, <2>2 DEF RecordTypes
    <2>4. Settled' /\ InOrder'
      BY <1>1, <2>1 DEF Settled, InOrder
    <2> QED BY <1>2, <2>2, <2>3, <2>4
  <1>4. CASE TakeRecorded
    <2>1. /\ diskPc = "receive" /\ recordQueue # << >> /\ UNCHANGED <<diskPc, file>>
          /\ recordQueue' = Tail(recordQueue) /\ collected' = Append(collected, Head(recordQueue))
      BY <1>4 DEF TakeRecorded
    <2>2. /\ collected' \o recordQueue' = collected \o recordQueue
          /\ collected' \in Seq(Nat) /\ recordQueue' \in Seq(Nat)
          /\ Len(recordQueue') <= Len(recordQueue) /\ Len(recordQueue') \in Nat
      <3>1. recordQueue \in Seq(Nat) /\ collected \in Seq(Nat) /\ recordQueue # << >>
        BY <1>0, <2>1
      <3>2. /\ Append(collected, Head(recordQueue)) \o Tail(recordQueue)
                 = collected \o recordQueue
            /\ Append(collected, Head(recordQueue)) \in Seq(Nat)
            /\ Tail(recordQueue) \in Seq(Nat) /\ Len(Tail(recordQueue)) <= Len(recordQueue)
        BY <3>1, HeadMoves
      <3>3. Len(Tail(recordQueue)) \in Nat
        BY <3>2, LenProperties
      <3> QED BY <2>1, <3>2, <3>3
    <2>3. RecordTypes'
      <3>1. taken \in Seq(Nat) /\ file \in Seq(Nat)
        BY DEF RecordTypes
      <3> QED BY <1>1, <2>1, <2>2, <3>1 DEF RecordTypes
    <2>4. Settled' /\ InOrder'
      BY <1>1, <2>1, <2>2 DEF Settled, InOrder
    <2>5. Len(recordQueue') <= QueueBlocks
      BY <1>0, <2>2
    <2> QED BY <1>2, <2>3, <2>4, <2>5
  <1>5. CASE StopReceiving
    BY <1>1, <1>2, <1>5 DEF StopReceiving, SenderGone, RecordTypes, Settled, InOrder
  <1>6. CASE SaveFile
    BY <1>1, <1>2, <1>6 DEF SaveFile, RecordTypes, Settled, InOrder
  <1> QED BY <1>3, <1>4, <1>5, <1>6 DEF DiskStep

LEMMA FinalizeInv ==
  ASSUME RecordIInv, BeginFinalize \/ FinalizeStep
  PROVE  RecordIInv'
  <1> USE DEF RecordIInv
  <1>1. UNCHANGED <<flac, written, inside, recordQueue, taken, refused, diskPc, collected, file>>
    BY DEF BeginFinalize, FinalizeStep, DropSender, JoinWriter
  <1>2. InOrder' /\ OnePlace' /\ Len(recordQueue') <= QueueBlocks
    BY <1>1 DEF InOrder, OnePlace
  <1>3. CASE BeginFinalize
    BY <1>1, <1>2, <1>3 DEF BeginFinalize, RecordTypes, InHand, Settled
  <1>4. CASE DropSender
    <2>1. \A w \in Writers : inside[w] = 0
      BY <1>4, RecordingAssumption DEF DropSender, InHand
    <2> QED BY <1>1, <1>2, <1>4, <2>1 DEF DropSender, RecordTypes, InHand, Settled
  <1>5. CASE JoinWriter
    <2>1. \A w \in Writers : inside[w] = 0
      BY <1>5, RecordingAssumption DEF JoinWriter, InHand
    <2> QED BY <1>1, <1>2, <1>5, <2>1 DEF JoinWriter, RecordTypes, InHand, Settled
  <1> QED BY <1>3, <1>4, <1>5 DEF FinalizeStep

LEMMA RecordStepInv ==
  ASSUME RecordIInv, [RecordNext]_recordVars
  PROVE  RecordIInv'
  <1>1. CASE UNCHANGED recordVars
    BY <1>1 DEF recordVars, RecordIInv, RecordTypes, InHand, Settled, InOrder, OnePlace
  <1>2. CASE RecordNext
    BY <1>2, WriteBeginsInv, WriteEndsInv, DiskStepInv, FinalizeInv DEF RecordNext
  <1> QED BY <1>1, <1>2

LEMMA RecordIInvSuffices == RecordIInv => RecordedWhole
  <1> SUFFICES ASSUME RecordIInv PROVE RecordedWhole
    OBVIOUS
  <1>1. finalizePc = "done" => diskPc = "failed" \/ file = taken
    <2> SUFFICES ASSUME finalizePc = "done", diskPc # "failed" PROVE file = taken
      OBVIOUS
    <2>1. diskPc = "done" /\ recordQueue = << >> /\ file = collected
      BY DEF RecordIInv, Settled
    <2>2. collected \o << >> = collected
      BY ConcatEmptySeq DEF RecordIInv, RecordTypes
    <2> QED BY <2>1, <2>2 DEF RecordIInv, InOrder
  <1> QED BY <1>1 DEF RecordIInv, RecordedWhole, InOrder, OnePlace

-----------------------------------------------------------------------------
(* Induction up to n: of the numbers at which it fails, one is the least.  *)
LEMMA Least ==
  ASSUME NEW T \in SUBSET Nat, T # {}
  PROVE  \E x \in T : \A y \in T : x <= y
  <1> DEFINE R == {ss \in Nat \X Nat : ss[1] < ss[2]}
  <1>1. IsWellFoundedOn(R, Nat)
    BY NatLessThanWellFounded DEF OpToRel
  <1>2. \A x, y \in Nat : <<y, x>> \in R <=> y < x
    OBVIOUS
  <1> HIDE DEF R
  <1>3. PICK x \in T : \A y \in T : ~ (<<y, x>> \in R)
    BY <1>1, WFMin
  <1>4. \A y \in T : ~ (y < x) /\ y \in Nat /\ x \in Nat
    BY <1>2, <1>3
  <1> QED BY <1>3, <1>4

LEMMA UpTo ==
  ASSUME NEW n \in Nat, NEW Good, 0 \in Good, \A i \in 0 .. n - 1 : i \in Good => i + 1 \in Good
  PROVE  \A i \in 0 .. n : i \in Good
  <1> SUFFICES ASSUME NEW b \in 0 .. n, b \notin Good PROVE FALSE
    OBVIOUS
  <1> DEFINE T == {i \in 0 .. n : i \notin Good}
  <1>1. T \in SUBSET Nat /\ b \in T
    OBVIOUS
  <1>2. PICK x \in T : \A y \in T : x <= y
    BY <1>1, Least
  <1>3. x # 0 /\ x \in 1 .. n
    BY <1>2
  <1>4. x - 1 \in Good /\ x - 1 \in 0 .. n - 1
    BY <1>2, <1>3
  <1> QED BY <1>2, <1>4

(* A part of a sequence, told from where it starts.                        *)
LEMMA Part ==
  ASSUME NEW S, NEW s \in Seq(S), NEW k \in Nat, NEW n \in Nat, k + n <= Len(s)
  PROVE  /\ SubSeq(s, k + 1, k + n) \in Seq(S) /\ Len(SubSeq(s, k + 1, k + n)) = n
         /\ \A i \in 1 .. n : SubSeq(s, k + 1, k + n)[i] = s[k + i]
  <1> DEFINE m == k + 1
             l == k + n
             a == SubSeq(s, m, l)
  <1>1. Len(s) \in Nat /\ \A i \in 1 .. Len(s) : s[i] \in S
    BY LenProperties, ElementOfSeq
  <1>2. m \in Int /\ l \in Int /\ \A i \in m .. l : s[i] \in S
    BY <1>1
  <1>3. /\ l - m + 1 = n /\ (IF m <= l THEN l - m + 1 ELSE 0) = n
        /\ \A i \in 1 .. n : m + i - 1 = k + i
    BY <1>1
  <1> HIDE DEF m, l
  <1>4. /\ a \in Seq(S) /\ Len(a) = IF m <= l THEN l - m + 1 ELSE 0
        /\ \A i \in 1 .. l - m + 1 : a[i] = s[m + i - 1]
    BY <1>2, SubSeqProperties
  <1> HIDE DEF a
  <1>5. a \in Seq(S) /\ Len(a) = n /\ \A i \in 1 .. n : a[i] = s[k + i]
    BY <1>3, <1>4
  <1> QED BY <1>5 DEF a, m, l

(* Parts of a sequence that grows at its end.                              *)
LEMMA StartStays ==
  ASSUME NEW S, NEW s \in Seq(S), NEW t \in Seq(S), NEW k \in Nat, NEW n \in Nat, k + n <= Len(s)
  PROVE  SubSeq(s \o t, k + 1, k + n) = SubSeq(s, k + 1, k + n)
  <1> DEFINE u == s \o t
             a == SubSeq(u, k + 1, k + n)
             b == SubSeq(s, k + 1, k + n)
  <1>1. Len(s) \in Nat /\ Len(t) \in Nat
    BY LenProperties
  <1>2. u \in Seq(S) /\ Len(u) = Len(s) + Len(t) /\ \A i \in 1 .. Len(s) : u[i] = s[i]
    BY <1>1, ConcatProperties
  <1> HIDE DEF u
  <1>3. k + n <= Len(u)
    BY <1>1, <1>2
  <1>4. /\ a \in Seq(S) /\ Len(a) = n /\ \A i \in 1 .. n : a[i] = u[k + i]
        /\ b \in Seq(S) /\ Len(b) = n /\ \A i \in 1 .. n : b[i] = s[k + i]
    BY <1>2, <1>3, Part
  <1> HIDE DEF a, b
  <1>5. \A i \in 1 .. n : a[i] = b[i]
    <2>1. \A i \in 1 .. n : k + i \in 1 .. Len(s)
      BY <1>1
    <2> QED BY <1>2, <1>4, <2>1
  <1>6. a = b
    BY <1>4, <1>5, SeqEqual
  <1> QED BY <1>6 DEF a, b, u

LEMMA EndGrows ==
  ASSUME NEW S, NEW s \in Seq(S), NEW t \in Seq(S), NEW k \in Nat, k <= Len(s)
  PROVE  SubSeq(s \o t, k + 1, Len(s \o t)) = SubSeq(s, k + 1, Len(s)) \o t
  <1> DEFINE u == s \o t
             m == Len(s) - k
             n == Len(u) - k
             a == SubSeq(s, k + 1, k + m)
             b == SubSeq(u, k + 1, k + n)
             c == a \o t
  <1>1. Len(s) \in Nat /\ Len(t) \in Nat
    BY LenProperties
  <1>2. /\ u \in Seq(S) /\ Len(u) = Len(s) + Len(t)
        /\ \A i \in 1 .. Len(s) + Len(t) : u[i] = IF i <= Len(s) THEN s[i] ELSE t[i - Len(s)]
    BY ConcatProperties
  <1> HIDE DEF u
  <1>3. m \in Nat /\ n \in Nat /\ k + m = Len(s) /\ k + n = Len(u) /\ n = m + Len(t)
    BY <1>1, <1>2
  <1>4. k + m <= Len(s) /\ k + n <= Len(u)
    BY <1>1, <1>2
  <1> HIDE DEF m, n
  <1>5. a \in Seq(S) /\ Len(a) = m /\ \A i \in 1 .. m : a[i] = s[k + i]
    <2>1. m \in Nat /\ k + m <= Len(s)
      BY <1>3, <1>4
    <2> QED BY <2>1, Part
  <1>6. b \in Seq(S) /\ Len(b) = n /\ \A i \in 1 .. n : b[i] = u[k + i]
    <2>1. u \in Seq(S) /\ n \in Nat /\ k + n <= Len(u)
      BY <1>2, <1>3, <1>4
    <2> QED BY <2>1, Part
  <1> HIDE DEF a, b
  <1>7. /\ c \in Seq(S) /\ Len(c) = n
        /\ \A i \in 1 .. n : c[i] = IF i <= m THEN a[i] ELSE t[i - m]
    <2>1. /\ c \in Seq(S) /\ Len(c) = Len(a) + Len(t)
          /\ \A i \in 1 .. Len(a) + Len(t) : c[i] = IF i <= Len(a) THEN a[i] ELSE t[i - Len(a)]
      BY <1>5, ConcatProperties
    <2> HIDE DEF c
    <2> QED BY <1>3, <1>5, <2>1
  <1> HIDE DEF c
  <1>8. \A i \in 1 .. n : b[i] = c[i]
    <2> SUFFICES ASSUME NEW i \in 1 .. n PROVE b[i] = c[i]
      OBVIOUS
    <2>1. /\ k + i \in 1 .. Len(s) + Len(t) /\ (k + i <= Len(s) <=> i <= m)
          /\ (k + i) - Len(s) = i - m
      <3>1. k \in Nat /\ m \in Nat /\ Len(t) \in Nat /\ i \in Nat /\ k + m = Len(s) /\ n = m + Len(t)
        BY <1>1, <1>3
      <3> QED BY <3>1
    <2>2. b[i] = IF i <= m THEN s[k + i] ELSE t[i - m]
      BY <1>2, <1>6, <2>1
    <2>3. i <= m => i \in 1 .. m
      BY <1>3
    <2> QED BY <1>5, <1>7, <2>2, <2>3
  <1>9. b = c
    BY <1>6, <1>7, <1>8, SeqEqual
  <1>10. b = SubSeq(u, k + 1, Len(u)) /\ a = SubSeq(s, k + 1, Len(s))
    BY <1>3 DEF a, b
  <1> QED BY <1>9, <1>10 DEF c, u

LEMMA Parted ==
  ASSUME NEW S, NEW s \in Seq(S), NEW n \in Nat, n <= Len(s)
  PROVE  /\ SubSeq(s, 1, n) \in Seq(S) /\ Len(SubSeq(s, 1, n)) = n
         /\ SubSeq(s, n + 1, Len(s)) \in Seq(S) /\ Len(SubSeq(s, n + 1, Len(s))) = Len(s) - n
         /\ SubSeq(s, 1, n) \o SubSeq(s, n + 1, Len(s)) = s
  <1> DEFINE l == Len(s)
             m == l - n
  <1>1. l \in Nat /\ m \in Nat /\ n + m = l /\ 0 + 1 = 1 /\ 0 + n = n
    BY LenProperties
  <1>2. n + m <= Len(s) /\ 0 + n <= Len(s)
    BY <1>1
  <1> HIDE DEF l, m
  <1>3. SubSeq(s, 0 + 1, 0 + n) \in Seq(S) /\ Len(SubSeq(s, 0 + 1, 0 + n)) = n
    BY <1>2, Part
  <1>4. SubSeq(s, n + 1, n + m) \in Seq(S) /\ Len(SubSeq(s, n + 1, n + m)) = m
    BY <1>1, <1>2, Part
  <1>5. SubSeq(s, 1, n) \o SubSeq(s, n + 1, l) = s
    <2>1. 1 \in 1 .. Len(s) + 1 /\ n \in 1 - 1 .. Len(s) /\ l \in n .. Len(s)
      BY <1>1, <1>2 DEF l
    <2>2. SubSeq(s, 1, n) \o SubSeq(s, n + 1, l) = SubSeq(s, 1, l)
      BY <2>1, ConcatAdjacentSubSeq
    <2>3. SubSeq(s, 1, l) = s
      BY SubSeqFull DEF l
    <2> QED BY <2>2, <2>3
  <1>6. SubSeq(s, 1, n) \in Seq(S) /\ Len(SubSeq(s, 1, n)) = n
    BY <1>1, <1>3
  <1>7. SubSeq(s, n + 1, l) \in Seq(S) /\ Len(SubSeq(s, n + 1, l)) = l - n
    BY <1>1, <1>4 DEF m
  <1> QED BY <1>5, <1>6, <1>7 DEF l

(* A part of the end of a sequence is a part of the sequence.              *)
LEMMA PartOfEnd ==
  ASSUME NEW S, NEW s \in Seq(S), NEW k \in Nat, NEW n \in Nat, k + n <= Len(s)
  PROVE  LET end == SubSeq(s, k + 1, Len(s)) IN
         /\ SubSeq(end, 1, n) = SubSeq(s, k + 1, k + n)
         /\ SubSeq(end, n + 1, Len(end)) = SubSeq(s, k + n + 1, Len(s))
  <1> DEFINE l == Len(s)
             j == k + n
             e == l - k
             r == e - n
             end == SubSeq(s, k + 1, k + e)
             a == SubSeq(end, 0 + 1, 0 + n)
             b == SubSeq(s, k + 1, k + n)
             c == SubSeq(end, n + 1, n + r)
             d == SubSeq(s, j + 1, j + r)
  <1>1. /\ l \in Nat /\ j \in Nat /\ e \in Nat /\ r \in Nat
        /\ k + e = l /\ n + r = e /\ j + r = l /\ k + n = j /\ 0 + n <= e /\ n + r <= e
        /\ k + e <= Len(s) /\ j + r <= Len(s)
    BY LenProperties
  <1> HIDE DEF l, j, e, r
  <1>2. end \in Seq(S) /\ Len(end) = e /\ \A i \in 1 .. e : end[i] = s[k + i]
    <2>1. e \in Nat /\ k + e <= Len(s)
      BY <1>1
    <2> QED BY <2>1, Part
  <1> HIDE DEF end
  <1>3. /\ a \in Seq(S) /\ Len(a) = n /\ \A i \in 1 .. n : a[i] = end[0 + i]
        /\ b \in Seq(S) /\ Len(b) = n /\ \A i \in 1 .. n : b[i] = s[k + i]
    BY <1>1, <1>2, Part
  <1>4. /\ c \in Seq(S) /\ Len(c) = r /\ \A i \in 1 .. r : c[i] = end[n + i]
        /\ d \in Seq(S) /\ Len(d) = r /\ \A i \in 1 .. r : d[i] = s[j + i]
    BY <1>1, <1>2, Part
  <1> HIDE DEF a, b, c, d
  <1>5. a = b
    <2>1. \A i \in 1 .. n : 0 + i \in 1 .. e /\ 0 + i = i
      BY <1>1
    <2>2. \A i \in 1 .. n : a[i] = b[i]
      BY <1>2, <1>3, <2>1
    <2> QED BY <1>3, <2>2, SeqEqual
  <1>6. c = d
    <2>1. \A i \in 1 .. r : n + i \in 1 .. e /\ k + (n + i) = j + i
      BY <1>1 DEF j
    <2>2. \A i \in 1 .. r : c[i] = d[i]
      BY <1>2, <1>4, <2>1
    <2> QED BY <1>4, <2>2, SeqEqual
  <1>7. /\ end = SubSeq(s, k + 1, Len(s)) /\ a = SubSeq(end, 1, n) /\ b = SubSeq(s, k + 1, k + n)
        /\ c = SubSeq(end, n + 1, Len(end)) /\ d = SubSeq(s, k + n + 1, Len(s))
    BY <1>1, <1>2 DEF a, b, c, d, end, j, l
  <1> QED BY <1>5, <1>6, <1>7

-----------------------------------------------------------------------------
(* The codec's packets.                                                    *)

OpusTypes ==
  /\ captured \in Nat /\ opusNumber \in Nat
  /\ rest \in Seq(Nat) /\ pending \in Seq(Nat) /\ pushed \in Seq(Nat)
  /\ \A p \in opusSent : p.seq \in Nat

(* What was pushed is in as many full frames as there are numbers, or      *)
(* waits.                                                                  *)
OpusCounted == Len(pushed) = opusNumber * OpusFrame + Len(pending)

OpusIInv == OpusTypes /\ OpusCounted /\ OpusWhole

LEMMA OpusInitInv == OpusInit => OpusIInv
  <1> SUFFICES ASSUME OpusInit PROVE OpusIInv
    OBVIOUS
  <1>1. << >> \in Seq(Nat) /\ Len(<< >>) = 0 /\ 0 * OpusFrame = 0
    BY OpusAssumption
  <1>2. SubSeq(<< >>, 1, 0) = << >>
    BY SubSeqEmpty
  <1> QED BY <1>1, <1>2, OpusAssumption DEF OpusInit, OpusIInv, OpusTypes, OpusCounted, OpusWhole

(* A chunk goes to the end of what is pushed, and of what waits.           *)
LEMMA ChunkFacts ==
  ASSUME OpusIInv, TakeChunk
  PROVE  LET k == opusNumber * OpusFrame IN
         /\ rest' \in Seq(Nat) /\ pushed' \in Seq(Nat) /\ Filled \in Seq(Nat)
         /\ Len(pushed') = k + Len(Filled) /\ Len(Filled) < 2 * OpusFrame
         /\ Filled = SubSeq(pushed', k + 1, Len(pushed')) /\ k \in Nat
         /\ \A p \in opusSent :
              p.frames = SubSeq(pushed', p.seq * OpusFrame + 1, (p.seq + 1) * OpusFrame)
  <1> DEFINE k == opusNumber * OpusFrame
             n == IF Len(rest) < OpusFrame THEN Len(rest) ELSE OpusFrame
  <1>1. OpusTypes /\ OpusCounted /\ OpusWhole
    BY DEF OpusIInv
  <1>2. OpusFrame \in Nat \ {0} /\ opusNumber \in Nat /\ k \in Nat
    BY <1>1, OpusAssumption DEF OpusTypes
  <1>3. /\ rest \in Seq(Nat) /\ pending \in Seq(Nat) /\ pushed \in Seq(Nat)
        /\ Len(rest) \in Nat /\ Len(pending) \in Nat /\ Len(pushed) \in Nat
    BY <1>1, LenProperties DEF OpusTypes
  <1>4. n \in Nat /\ n <= Len(rest) /\ n <= OpusFrame
    BY <1>2, <1>3
  <1>5. Chunk = SubSeq(rest, 1, n)
    BY DEF Chunk
  <1> HIDE DEF n
  <1>6. /\ Chunk \in Seq(Nat) /\ Len(Chunk) = n
        /\ SubSeq(rest, n + 1, Len(rest)) \in Seq(Nat)
    BY <1>3, <1>4, <1>5, Parted
  <1>7. rest' \in Seq(Nat) /\ pushed' = pushed \o Chunk
    BY <1>6 DEF TakeChunk
  <1>8. /\ pushed' \in Seq(Nat) /\ Len(pushed') = Len(pushed) + n
        /\ Filled \in Seq(Nat) /\ Len(Filled) = Len(pending) + n
    BY <1>3, <1>6, <1>7, ConcatProperties DEF Filled
  <1> HIDE DEF k
  <1>9. Len(pushed) = k + Len(pending) /\ Len(pending) < OpusFrame
        /\ pending = SubSeq(pushed, k + 1, Len(pushed))
    BY <1>1 DEF OpusCounted, OpusWhole, k
  <1>10. k <= Len(pushed)
    BY <1>2, <1>3, <1>9
  <1>11. Filled = SubSeq(pushed', k + 1, Len(pushed'))
    <2>1. /\ pushed \in Seq(Nat) /\ Chunk \in Seq(Nat) /\ k \in Nat
          /\ pushed' = pushed \o Chunk
      BY <1>2, <1>3, <1>6, <1>7
    <2>2. SubSeq(pushed', k + 1, Len(pushed')) = SubSeq(pushed, k + 1, Len(pushed)) \o Chunk
      BY <1>10, <2>1, EndGrows
    <2> QED BY <1>9, <2>2 DEF Filled
  <1>12. ASSUME NEW p \in opusSent
         PROVE  p.frames = SubSeq(pushed', p.seq * OpusFrame + 1, (p.seq + 1) * OpusFrame)
    <2>1. p.seq \in Nat /\ p.seq + 1 \in Nat /\ p.seq + 1 <= opusNumber
      <3>1. p.seq \in Nat /\ p.seq < opusNumber
        BY <1>1 DEF OpusTypes, OpusWhole
      <3> QED BY <1>2, <3>1
    <2>2. p.seq * OpusFrame \in Nat /\ (p.seq + 1) * OpusFrame = p.seq * OpusFrame + OpusFrame
      BY <1>2, <2>1
    <2>3. (p.seq + 1) * OpusFrame <= k
      BY <1>2, <2>1, Monotone DEF k
    <2>4. p.seq * OpusFrame + OpusFrame <= Len(pushed)
      BY <1>2, <1>3, <1>10, <2>2, <2>3
    <2>5. p.frames = SubSeq(pushed, p.seq * OpusFrame + 1, (p.seq + 1) * OpusFrame)
      BY <1>1 DEF OpusWhole
    <2>6. PICK a \in Nat : a = p.seq * OpusFrame
      BY <2>2
    <2>7. SubSeq(pushed \o Chunk, a + 1, a + OpusFrame) = SubSeq(pushed, a + 1, a + OpusFrame)
      <3>1. a + OpusFrame <= Len(pushed) /\ OpusFrame \in Nat
        BY <1>2, <2>4, <2>6
      <3>2. pushed \in Seq(Nat) /\ Chunk \in Seq(Nat)
        BY <1>3, <1>6
      <3> QED BY <3>1, <3>2, StartStays
    <2> QED BY <1>7, <2>2, <2>5, <2>6, <2>7
  <1>13. Len(pushed') = k + Len(Filled) /\ Len(Filled) < 2 * OpusFrame
    <2>1. PICK a \in Nat, b \in Nat : a = Len(pushed) /\ b = Len(pending)
      BY <1>3
    <2>2. Len(pushed') = a + n /\ Len(Filled) = b + n /\ a = k + b /\ b < OpusFrame
      BY <1>8, <1>9, <2>1
    <2> QED BY <1>2, <1>4, <2>2
  <1> QED BY <1>2, <1>7, <1>8, <1>11, <1>12, <1>13 DEF k

LEMMA PopOpusBlockInv ==
  ASSUME OpusIInv, PopOpusBlock
  PROVE  OpusIInv'
  <1>1. captured \in Nat
    BY DEF OpusIInv, OpusTypes
  <1>2. PICK n \in OpusBlocks, listening \in BOOLEAN :
          /\ captured' = captured + n
          /\ rest' = IF listening THEN [i \in 1 .. n |-> captured + i] ELSE << >>
    BY DEF PopOpusBlock
  <1>3. n \in Nat
    BY OpusAssumption
  <1>4. [i \in 1 .. n |-> captured + i] \in Seq(Nat)
    BY <1>1, <1>3
  <1>5. captured' \in Nat /\ rest' \in Seq(Nat)
    BY <1>1, <1>2, <1>3, <1>4
  <1>6. UNCHANGED <<pending, pushed, opusNumber, opusSent>>
    BY DEF PopOpusBlock
  <1> QED BY <1>5, <1>6 DEF OpusIInv, OpusTypes, OpusCounted, OpusWhole

LEMMA PushShortInv ==
  ASSUME OpusIInv, PushShort
  PROVE  OpusIInv'
  <1> DEFINE k == opusNumber * OpusFrame
  <1>1. /\ TakeChunk /\ Len(Filled) < OpusFrame /\ pending' = Filled
        /\ UNCHANGED <<captured, opusNumber, opusSent>>
    BY DEF PushShort, TakeChunk
  <1>2. /\ rest' \in Seq(Nat) /\ pushed' \in Seq(Nat) /\ Filled \in Seq(Nat)
        /\ Len(pushed') = k + Len(Filled)
        /\ Filled = SubSeq(pushed', k + 1, Len(pushed'))
        /\ \A p \in opusSent :
             p.frames = SubSeq(pushed', p.seq * OpusFrame + 1, (p.seq + 1) * OpusFrame)
    BY <1>1, ChunkFacts
  <1>3. OpusTypes'
    BY <1>1, <1>2 DEF OpusIInv, OpusTypes
  <1>4. OpusCounted'
    BY <1>1, <1>2 DEF OpusCounted
  <1>5. OpusWhole'
    BY <1>1, <1>2 DEF OpusIInv, OpusWhole
  <1> QED BY <1>3, <1>4, <1>5 DEF OpusIInv

LEMMA PushFullInv ==
  ASSUME OpusIInv, PushFull
  PROVE  OpusIInv'
  <1> DEFINE k == opusNumber * OpusFrame
             packet == [seq |-> opusNumber, frames |-> SubSeq(Filled, 1, OpusFrame)]
             end == SubSeq(pushed', k + 1, Len(pushed'))
  <1>1. /\ TakeChunk /\ Len(Filled) >= OpusFrame
        /\ pending' = SubSeq(Filled, OpusFrame + 1, Len(Filled))
        /\ opusNumber' = opusNumber + 1 /\ captured' = captured
        /\ opusSent' \subseteq opusSent \cup {packet}
    BY DEF PushFull, TakeChunk
  <1>2. /\ rest' \in Seq(Nat) /\ pushed' \in Seq(Nat) /\ Filled \in Seq(Nat)
        /\ Len(pushed') = k + Len(Filled) /\ Len(Filled) < 2 * OpusFrame
        /\ Filled = end /\ k \in Nat
        /\ \A p \in opusSent :
             p.frames = SubSeq(pushed', p.seq * OpusFrame + 1, (p.seq + 1) * OpusFrame)
    BY <1>1, ChunkFacts
  <1>3. /\ OpusFrame \in Nat \ {0} /\ opusNumber \in Nat /\ Len(Filled) \in Nat
        /\ Len(pushed') \in Nat /\ k \in Nat
    <2>1. Len(Filled) \in Nat /\ Len(pushed') \in Nat
      BY <1>2, LenProperties
    <2>2. opusNumber \in Nat
      BY DEF OpusIInv, OpusTypes
    <2> QED BY <1>2, <2>1, <2>2, OpusAssumption
  <1>4. opusNumber' * OpusFrame = k + OpusFrame
    BY <1>1, <1>3, Distribute
  <1> HIDE DEF k
  <1>5. OpusFrame \in Nat /\ k + OpusFrame <= Len(pushed')
    BY <1>1, <1>2, <1>3
  <1>6. /\ SubSeq(end, 1, OpusFrame) = SubSeq(pushed', k + 1, k + OpusFrame)
        /\ SubSeq(end, OpusFrame + 1, Len(end)) = SubSeq(pushed', k + OpusFrame + 1, Len(pushed'))
    BY <1>2, <1>3, <1>5, PartOfEnd
  <1> HIDE DEF end
  <1>7. /\ pending' = SubSeq(pushed', opusNumber' * OpusFrame + 1, Len(pushed'))
        /\ packet.frames = SubSeq(pushed', k + 1, (opusNumber + 1) * OpusFrame)
    BY <1>1, <1>2, <1>4, <1>6
  <1>8. pending' \in Seq(Nat) /\ Len(pending') = Len(Filled) - OpusFrame
    <2>1. OpusFrame \in Nat /\ OpusFrame <= Len(Filled) /\ Filled \in Seq(Nat)
      BY <1>1, <1>2, <1>3
    <2> QED BY <1>1, <2>1, Parted
  <1>9. OpusTypes'
    <2>1. opusNumber' \in Nat
      BY <1>1, <1>3
    <2>2. \A p \in opusSent' : p.seq \in Nat
      BY <1>1, <1>3 DEF OpusIInv, OpusTypes
    <2>3. captured' \in Nat
      BY <1>1 DEF OpusIInv, OpusTypes
    <2> QED BY <1>2, <1>8, <2>1, <2>2, <2>3 DEF OpusTypes
  <1>10. OpusCounted'
    BY <1>2, <1>3, <1>4, <1>8 DEF OpusCounted
  <1>11. OpusWhole'
    <2>1. ASSUME NEW p \in opusSent'
          PROVE  /\ p.seq < opusNumber'
                 /\ p.frames = SubSeq(pushed', p.seq * OpusFrame + 1, (p.seq + 1) * OpusFrame)
      <3>1. CASE p = packet
        BY <1>1, <1>3, <1>7, <3>1 DEF k
      <3>2. CASE p \in opusSent
        <4>1. p.seq \in Nat /\ p.seq < opusNumber
          BY <3>2 DEF OpusIInv, OpusTypes, OpusWhole
        <4>2. p.seq < opusNumber'
          BY <1>1, <1>3, <4>1
        <4> QED BY <1>2, <3>2, <4>2
      <3> QED BY <1>1, <2>1, <3>1, <3>2
    <2>2. Len(pending') < OpusFrame
      BY <1>2, <1>3, <1>8
    <2> QED BY <1>7, <2>1, <2>2 DEF OpusWhole
  <1> QED BY <1>9, <1>10, <1>11 DEF OpusIInv

LEMMA OpusStepInv ==
  ASSUME OpusIInv, [OpusNext]_opusVars
  PROVE  OpusIInv'
  <1>1. CASE UNCHANGED opusVars
    BY <1>1 DEF opusVars, OpusIInv, OpusTypes, OpusCounted, OpusWhole
  <1> QED BY <1>1, PopOpusBlockInv, PushShortInv, PushFullInv DEF OpusNext

-----------------------------------------------------------------------------
(* The flattening of ss, one sequence after the other.                     *)
Flattens(f, ss) == f = [i \in 1 .. Len(ss) |-> IF i = 1 THEN ss[i] ELSE f[i - 1] \o ss[i]]

LEMMA FlattenExists ==
  ASSUME NEW ss, Len(ss) \in Nat
  PROVE  \E f : Flattens(f, ss)
  <1> DEFINE Step(f, i) == IF i = 1 THEN ss[i] ELSE f[i - 1] \o ss[i]
             Is(f, n) == f = [i \in 1 .. n |-> Step(f, i)]
             Good == {n \in Nat : \E f : Is(f, n)}
             len == Len(ss)
  <1>1. 0 \in Good
    <2> DEFINE f == [i \in 1 .. 0 |-> << >>]
    <2>1. Is(f, 0)
      OBVIOUS
    <2> QED BY <2>1
  <1>2. ASSUME NEW n \in 0 .. len - 1, n \in Good
        PROVE  n + 1 \in Good
    <2>1. PICK f : Is(f, n)
      BY <1>2
    <2> DEFINE h == [i \in 1 .. n + 1 |-> IF i = n + 1 THEN Step(f, n + 1) ELSE f[i]]
    <2>2. \A i \in 1 .. n + 1 : h[i] = Step(h, i)
      <3> SUFFICES ASSUME NEW i \in 1 .. n + 1 PROVE h[i] = Step(h, i)
        OBVIOUS
      <3>1. i - 1 \in 1 .. n => h[i - 1] = f[i - 1]
        OBVIOUS
      <3>2. i = 1 \/ i - 1 \in 1 .. n
        OBVIOUS
      <3>3. CASE i = n + 1
        BY <3>1, <3>2, <3>3
      <3>4. CASE i \in 1 .. n
        <4>1. f[i] = Step(f, i)
          BY <2>1, <3>4
        <4>2. h[i] = f[i]
          BY <3>4
        <4> QED BY <3>1, <3>2, <4>1, <4>2
      <3> QED BY <3>3, <3>4
    <2>3. Is(h, n + 1)
      BY <2>2
    <2>4. \E g : Is(g, n + 1)
      BY <2>3
    <2> HIDE DEF Is
    <2> QED BY <2>4
  <1> HIDE DEF Good
  <1>3. len \in Good
    <2>1. \A i \in 0 .. len - 1 : i \in Good => i + 1 \in Good
      BY <1>2
    <2>2. \A i \in 0 .. len : i \in Good
      BY <1>1, <2>1, UpTo
    <2> QED BY <2>2
  <1> USE DEF Good
  <1> QED BY <1>3 DEF Flattens

(* The beginnings of two sequences that begin alike are flattened alike.   *)
LEMMA FlattensAgree ==
  ASSUME NEW S, NEW ss, NEW tt, NEW f, NEW g, Flattens(f, ss), Flattens(g, tt),
         Len(ss) \in Nat, Len(tt) \in Nat, Len(ss) <= Len(tt),
         \A i \in 1 .. Len(ss) : tt[i] = ss[i] /\ ss[i] \in Seq(S)
  PROVE  \A i \in 1 .. Len(ss) : f[i] = g[i] /\ f[i] \in Seq(S)
  <1> DEFINE Good == {i \in Nat : i = 0 \/ (f[i] = g[i] /\ f[i] \in Seq(S))}
             len == Len(ss)
  <1>1. ASSUME NEW i \in 1 .. len
        PROVE  /\ f[i] = IF i = 1 THEN ss[i] ELSE f[i - 1] \o ss[i]
               /\ g[i] = IF i = 1 THEN ss[i] ELSE g[i - 1] \o ss[i]
    <2>1. f[i] = IF i = 1 THEN ss[i] ELSE f[i - 1] \o ss[i]
      BY DEF Flattens
    <2>2. i \in 1 .. Len(tt) /\ tt[i] = ss[i]
      OBVIOUS
    <2>3. g = [j \in 1 .. Len(tt) |-> IF j = 1 THEN tt[j] ELSE g[j - 1] \o tt[j]]
      BY DEF Flattens
    <2> QED BY <2>1, <2>2, <2>3
  <1>2. 0 \in Good
    OBVIOUS
  <1>3. ASSUME NEW i \in 0 .. len - 1, i \in Good
        PROVE  i + 1 \in Good
    <2>1. i + 1 \in 1 .. len /\ (i + 1) - 1 = i /\ i + 1 \in Nat /\ ss[i + 1] \in Seq(S)
      OBVIOUS
    <2>2. CASE i = 0
      BY <1>1, <2>1, <2>2
    <2>3. CASE i # 0
      <3>1. f[i] = g[i] /\ f[i] \in Seq(S) /\ i + 1 # 1
        BY <1>3, <2>3
      <3>2. f[i + 1] = f[i] \o ss[i + 1] /\ g[i + 1] = g[i] \o ss[i + 1]
        BY <1>1, <2>1, <3>1
      <3>3. f[i] \o ss[i + 1] \in Seq(S)
        BY <2>1, <3>1, ConcatProperties
      <3> QED BY <2>1, <3>1, <3>2, <3>3
    <2> QED BY <2>2, <2>3
  <1> HIDE DEF Good
  <1>4. \A i \in 0 .. len : i \in Good
    BY <1>2, <1>3, UpTo
  <1> QED BY <1>4 DEF Good

(* FlattenSeq of one sequence more has it at its end.                      *)
LEMMA FlattenFacts ==
  ASSUME NEW S, NEW ss \in Seq(Seq(S))
  PROVE  /\ FlattenSeq(ss) \in Seq(S)
         /\ ss = << >> => FlattenSeq(ss) = << >>
         /\ \A x \in Seq(S) : FlattenSeq(Append(ss, x)) = FlattenSeq(ss) \o x
  <1> DEFINE len == Len(ss)
  <1>1. len \in Nat /\ \A i \in 1 .. len : ss[i] \in Seq(S)
    BY LenProperties, ElementOfSeq
  <1>2. ASSUME NEW tt, Len(tt) \in Nat \ {0}
        PROVE  \E f : Flattens(f, tt) /\ FlattenSeq(tt) = f[Len(tt)]
    <2>1. PICK f : Flattens(f, tt)
      BY <1>2, FlattenExists
    <2> QED BY <1>2, <2>1 DEF FlattenSeq, Flattens
  <1>3. len = 0 => ss = << >> /\ FlattenSeq(ss) = << >>
    <2>1. ASSUME len = 0 PROVE ss = << >>
      BY <2>1, EmptySeq
    <2>2. ASSUME len = 0 PROVE FlattenSeq(ss) = ss
      BY <2>2 DEF FlattenSeq
    <2> QED BY <2>1, <2>2
  <1>4. FlattenSeq(ss) \in Seq(S)
    <2>1. CASE len = 0
      BY <1>3, <2>1, EmptySeq
    <2>2. CASE len # 0
      <3>1. PICK f : Flattens(f, ss) /\ FlattenSeq(ss) = f[len]
        BY <1>1, <1>2, <2>2
      <3>2. \A i \in 1 .. len : f[i] \in Seq(S)
        <4>1. /\ Flattens(f, ss) /\ Len(ss) \in Nat /\ Len(ss) <= Len(ss)
              /\ \A i \in 1 .. Len(ss) : ss[i] = ss[i] /\ ss[i] \in Seq(S)
          BY <1>1, <3>1
        <4> QED BY ONLY <4>1, FlattensAgree
      <3>3. len \in 1 .. len
        BY <1>1, <2>2
      <3> QED BY <3>1, <3>2, <3>3
    <2> QED BY <2>1, <2>2
  <1>5. ASSUME NEW x \in Seq(S)
        PROVE  FlattenSeq(Append(ss, x)) = FlattenSeq(ss) \o x
    <2> DEFINE tt == Append(ss, x)
    <2>1. /\ tt \in Seq(Seq(S)) /\ Len(tt) = len + 1 /\ tt[len + 1] = x
          /\ \A i \in 1 .. len : tt[i] = ss[i]
      BY AppendProperties
    <2> HIDE DEF tt
    <2>2. PICK g : Flattens(g, tt) /\ FlattenSeq(tt) = g[len + 1]
      <3>1. Len(tt) \in Nat \ {0}
        BY <1>1, <2>1
      <3> QED BY <1>2, <2>1, <3>1
    <2>3. g[len + 1] = IF len + 1 = 1 THEN x ELSE g[len] \o x
      <3>1. g = [j \in 1 .. Len(tt) |-> IF j = 1 THEN tt[j] ELSE g[j - 1] \o tt[j]]
        BY <2>2 DEF Flattens
      <3>2. len + 1 \in 1 .. Len(tt) /\ (len + 1) - 1 = len
        BY <1>1, <2>1
      <3> QED BY <2>1, <3>1, <3>2
    <2>4. CASE len = 0
      <3>1. FlattenSeq(tt) = x /\ FlattenSeq(ss) = << >>
        BY <1>3, <2>2, <2>3, <2>4
      <3> QED BY <3>1, ConcatEmptySeq DEF tt
    <2>5. CASE len # 0
      <3>1. PICK f : Flattens(f, ss) /\ FlattenSeq(ss) = f[len]
        BY <1>1, <1>2, <2>5
      <3>2. Len(tt) \in Nat /\ len <= Len(tt) /\ len \in 1 .. len /\ len + 1 # 1
        BY <1>1, <2>1, <2>5
      <3>3. \A i \in 1 .. len : f[i] = g[i]
        <4>1. \A i \in 1 .. Len(ss) : tt[i] = ss[i] /\ ss[i] \in Seq(S)
          BY <1>1, <2>1
        <4>2. Flattens(f, ss) /\ Flattens(g, tt)
          BY <2>2, <3>1
        <4>3. Len(ss) \in Nat /\ Len(tt) \in Nat /\ Len(ss) <= Len(tt)
          BY <1>1, <3>2
        <4>4. \A i \in 1 .. Len(ss) : f[i] = g[i] /\ f[i] \in Seq(S)
          BY <4>1, <4>2, <4>3, FlattensAgree
        <4> QED BY <4>4
      <3>4. FlattenSeq(tt) = FlattenSeq(ss) \o x
        BY <2>2, <2>3, <3>1, <3>2, <3>3
      <3> QED BY <3>4 DEF tt
    <2> QED BY <2>4, <2>5
  <1> QED BY <1>1, <1>3, <1>4, <1>5, EmptySeq

-----------------------------------------------------------------------------
(* The test tones.                                                         *)

TonePackets == [seq : Nat, at : Nat, late : Nat, frames : Seq(Nat)]

ToneTypes ==
  /\ now \in Nat /\ target \in Nat /\ timeline \in Nat /\ toneNumber \in Nat
  /\ generated \in Nat /\ skipped \in Nat /\ idled \in Nat
  /\ heldBack \in Seq(Nat) /\ tonePackets \in Seq(TonePackets)

(* Nothing is due beyond the clock, and what is generated is not too old.  *)
ToneClock ==
  /\ target <= now /\ timeline <= now
  /\ tonePc \in {"due", "generate"} => timeline < target
  /\ tonePc = "generate" => target - timeline <= CatchUp

(* Frames rise, and stay behind the timeline.                              *)
Rising(s, end) ==
  /\ \A i \in 1 .. Len(s) : s[i] < end
  /\ \A i \in 1 .. Len(s) - 1 : s[i] < s[i + 1]

ToneInOrder ==
  /\ Rising(FramesSent \o heldBack, timeline)
  /\ toneNumber = Len(tonePackets)
  /\ ~ useOpus => heldBack = << >>

PacketInTime(i) ==
  /\ tonePackets[i].seq = i - 1
  /\ tonePackets[i].late <= CatchUp
  /\ ~ useOpus => tonePackets[i].at = tonePackets[i].frames[1]

ToneIInv == ToneTypes /\ ToneClock /\ ToneInOrder /\ DiagnosticPaced

(* The frames that were sent, and those of one packet more.                *)
LEMMA SentFacts ==
  ASSUME ToneTypes
  PROVE  /\ FramesSent \in Seq(Nat)
         /\ tonePackets = << >> => FramesSent = << >>
         /\ \A p \in TonePackets : tonePackets' = Append(tonePackets, p) =>
              FramesSent' = FramesSent \o p.frames
  <1> DEFINE f == [i \in 1 .. Len(tonePackets) |-> tonePackets[i].frames]
  <1>1. Len(tonePackets) \in Nat /\ \A i \in 1 .. Len(tonePackets) : tonePackets[i].frames \in Seq(Nat)
    <2>1. Len(tonePackets) \in Nat
      BY LenProperties DEF ToneTypes
    <2>2. \A i \in 1 .. Len(tonePackets) : tonePackets[i] \in TonePackets
      BY ElementOfSeq DEF ToneTypes
    <2> QED BY <2>1, <2>2 DEF TonePackets
  <1>2. f \in Seq(Seq(Nat)) /\ Len(f) = Len(tonePackets)
    BY <1>1
  <1>3. FramesSent = FlattenSeq(f)
    BY DEF FramesSent
  <1>4. FramesSent \in Seq(Nat) /\ (f = << >> => FramesSent = << >>)
    <2> HIDE DEF f
    <2> QED BY <1>2, <1>3, FlattenFacts
  <1>5. tonePackets = << >> => f = << >>
    OBVIOUS
  <1>6. ASSUME NEW p \in TonePackets, tonePackets' = Append(tonePackets, p)
        PROVE  FramesSent' = FramesSent \o p.frames
    <2> DEFINE g == [i \in 1 .. Len(tonePackets') |-> tonePackets'[i].frames]
    <2>1. p.frames \in Seq(Nat)
      BY DEF TonePackets
    <2>2. /\ Len(tonePackets') = Len(tonePackets) + 1
          /\ tonePackets'[Len(tonePackets) + 1] = p
          /\ \A i \in 1 .. Len(tonePackets) : tonePackets'[i] = tonePackets[i]
      BY <1>6, AppendProperties DEF ToneTypes
    <2>3. /\ Append(f, p.frames) \in Seq(Seq(Nat)) /\ Len(Append(f, p.frames)) = Len(tonePackets) + 1
          /\ Append(f, p.frames)[Len(tonePackets) + 1] = p.frames
          /\ \A i \in 1 .. Len(tonePackets) : Append(f, p.frames)[i] = f[i]
      <3> HIDE DEF f
      <3> QED BY <1>2, <2>1, AppendProperties
    <2>4. g \in Seq(Seq(Nat)) /\ Len(g) = Len(tonePackets) + 1
          /\ \A i \in 1 .. Len(tonePackets) + 1 : g[i] = tonePackets'[i].frames
      <3>1. \A i \in 1 .. Len(tonePackets) + 1 : tonePackets'[i].frames \in Seq(Nat)
        <4> SUFFICES ASSUME NEW i \in 1 .. Len(tonePackets) + 1
                     PROVE  tonePackets'[i].frames \in Seq(Nat)
          OBVIOUS
        <4>1. i = Len(tonePackets) + 1 \/ i \in 1 .. Len(tonePackets)
          BY <1>1
        <4> QED BY <1>1, <2>1, <2>2, <4>1
      <3>2. Len(tonePackets') \in Nat
        BY <1>1, <2>2
      <3> QED BY <2>2, <3>1, <3>2
    <2>5. \A i \in 1 .. Len(tonePackets) + 1 : g[i] = Append(f, p.frames)[i]
      <3> SUFFICES ASSUME NEW i \in 1 .. Len(tonePackets) + 1
                   PROVE  g[i] = Append(f, p.frames)[i]
        OBVIOUS
      <3>1. i = Len(tonePackets) + 1 \/ i \in 1 .. Len(tonePackets)
        BY <1>1
      <3> QED BY <1>1, <2>2, <2>3, <2>4, <3>1
    <2> HIDE DEF f, g
    <2>6. g = Append(f, p.frames)
      BY <2>3, <2>4, <2>5, SeqEqual
    <2>7. FlattenSeq(Append(f, p.frames)) = FlattenSeq(f) \o p.frames
      BY <1>2, <2>1, FlattenFacts
    <2>8. FramesSent' = FlattenSeq(g)
      BY DEF FramesSent, g
    <2> QED BY <1>3, <2>6, <2>7, <2>8
  <1> QED BY <1>4, <1>5, <1>6

(* A tone goes on where the timeline is.                                   *)
LEMMA ToneRises ==
  ASSUME NEW s \in Seq(Nat), NEW k \in Nat, NEW n \in Nat, Rising(s, k)
  PROVE  LET tone == [i \in 1 .. n |-> k + i - 1] IN
         /\ tone \in Seq(Nat) /\ Len(tone) = n
         /\ s \o tone \in Seq(Nat) /\ Len(s \o tone) = Len(s) + n
         /\ Rising(s \o tone, k + n)
  <1> DEFINE tone == [i \in 1 .. n |-> k + i - 1]
             t == s \o tone
  <1>1. tone \in Seq(Nat) /\ Len(tone) = n /\ \A i \in 1 .. n : tone[i] = k + i - 1
    OBVIOUS
  <1>2. Len(s) \in Nat /\ \A i \in 1 .. Len(s) : s[i] \in Nat
    BY LenProperties, ElementOfSeq
  <1> HIDE DEF tone
  <1>3. /\ t \in Seq(Nat) /\ Len(t) = Len(s) + n
        /\ \A i \in 1 .. Len(s) + n : t[i] = IF i <= Len(s) THEN s[i] ELSE tone[i - Len(s)]
    BY <1>1, ConcatProperties
  <1> HIDE DEF t
  <1>4. \A i \in 1 .. Len(s) + n : t[i] = IF i <= Len(s) THEN s[i] ELSE k + (i - Len(s)) - 1
    <2> SUFFICES ASSUME NEW i \in 1 .. Len(s) + n
                 PROVE  t[i] = IF i <= Len(s) THEN s[i] ELSE k + (i - Len(s)) - 1
      OBVIOUS
    <2>1. i > Len(s) => i - Len(s) \in 1 .. n
      BY <1>2
    <2> QED BY <1>1, <1>2, <1>3, <2>1
  <1>5. ASSUME NEW i \in 1 .. Len(t)
        PROVE  t[i] < k + n
    <2>1. i \in 1 .. Len(s) + n
      BY <1>3
    <2>2. CASE i <= Len(s)
      <3>1. s[i] < k /\ s[i] \in Nat /\ t[i] = s[i]
        BY <1>2, <1>4, <2>1, <2>2 DEF Rising
      <3> QED BY <3>1
    <2>3. CASE i > Len(s)
      BY <1>2, <1>4, <2>1, <2>3
    <2> QED BY <1>2, <2>2, <2>3
  <1>6. ASSUME NEW i \in 1 .. Len(t) - 1
        PROVE  t[i] < t[i + 1]
    <2>1. i \in 1 .. Len(s) + n /\ i + 1 \in 1 .. Len(s) + n /\ i \in Nat
      BY <1>2, <1>3
    <2>2. CASE i + 1 <= Len(s)
      <3>1. i \in 1 .. Len(s) - 1 /\ i <= Len(s)
        BY <1>2, <2>1, <2>2
      <3> QED BY <1>4, <2>1, <2>2, <3>1 DEF Rising
    <2>3. CASE i = Len(s)
      <3>1. s[i] < k /\ t[i] = s[i] /\ i <= Len(s)
        BY <1>2, <1>4, <2>1, <2>3 DEF Rising
      <3>2. t[i + 1] = k
        BY <1>2, <1>4, <2>1, <2>3
      <3> QED BY <3>1, <3>2
    <2>4. CASE i > Len(s)
      <3>1. t[i] = k + (i - Len(s)) - 1 /\ t[i + 1] = k + (i + 1 - Len(s)) - 1
        BY <1>2, <1>4, <2>1, <2>4
      <3> QED BY <1>2, <2>1, <3>1
    <2> QED BY <1>2, <2>1, <2>2, <2>3, <2>4
  <1>7. Rising(t, k + n)
    BY <1>5, <1>6 DEF Rising
  <1> QED BY <1>1, <1>3, <1>7 DEF t, tone

LEMMA ToneInitInv == ToneInit => ToneIInv
  <1> SUFFICES ASSUME ToneInit PROVE ToneIInv
    OBVIOUS
  <1>1. /\ now = 0 /\ tonePc = "top" /\ target = 0 /\ timeline = 0 /\ heldBack = << >>
        /\ toneNumber = 0 /\ tonePackets = << >> /\ generated = 0 /\ skipped = 0 /\ idled = 0
    BY DEF ToneInit
  <1>2. ToneTypes
    BY <1>1 DEF ToneTypes
  <1>3. FramesSent \o heldBack = << >> /\ Len(<< >>) = 0
    BY <1>1, <1>2, SentFacts, ConcatEmptySeq, EmptySeq
  <1>4. ToneClock
    BY <1>1 DEF ToneClock
  <1>5. ToneInOrder
    BY <1>1, <1>3 DEF ToneInOrder, Rising
  <1>6. DiagnosticPaced
    BY <1>1, <1>3, DiagnosticAssumption DEF DiagnosticPaced
  <1> QED BY <1>2, <1>4, <1>5, <1>6 DEF ToneIInv

(* Steps that generate nothing: the timeline stays, follows the clock or   *)
(* skips.                                                                  *)
LEMMA NoToneInv ==
  ASSUME ToneIInv, ToneTypes', ToneClock', timeline <= timeline',
         timeline' = generated' + skipped' + idled',
         UNCHANGED <<useOpus, heldBack, toneNumber, tonePackets, generated>>
  PROVE  ToneIInv'
  <1>1. FramesSent' = FramesSent
    BY DEF FramesSent
  <1> DEFINE all == FramesSent \o heldBack
  <1>2. /\ all \in Seq(Nat) /\ Len(all) \in Nat
        /\ \A i \in 1 .. Len(all) : all[i] \in Nat
    <2>1. all \in Seq(Nat)
      BY SentFacts, ConcatProperties DEF ToneIInv, ToneTypes
    <2> HIDE DEF all
    <2> QED BY <2>1, LenProperties, ElementOfSeq
  <1>3. Rising(all, timeline) /\ timeline \in Nat /\ timeline' \in Nat
    BY DEF ToneIInv, ToneInOrder, ToneTypes
  <1> HIDE DEF all
  <1>4. Rising(all, timeline')
    BY <1>2, <1>3 DEF Rising
  <1>5. ToneInOrder'
    BY <1>1, <1>4 DEF ToneIInv, ToneInOrder, all
  <1>6. DiagnosticPaced'
    BY <1>1 DEF ToneIInv, DiagnosticPaced, ToneClock
  <1> QED BY <1>5, <1>6 DEF ToneIInv

LEMMA ToneWaitsInv ==
  ASSUME ToneIInv, TimePasses \/ ListenersChange \/ AskListeners \/ Idle \/ ReadClock \/ SkipStale
  PROVE  ToneIInv'
  <1>1. /\ now \in Nat /\ target \in Nat /\ timeline \in Nat
        /\ generated \in Nat /\ skipped \in Nat /\ idled \in Nat
        /\ target <= now /\ timeline <= now
        /\ timeline = generated + skipped + idled
    BY DEF ToneIInv, ToneTypes, ToneClock, DiagnosticPaced
  <1>2. UNCHANGED <<useOpus, heldBack, toneNumber, tonePackets, generated>>
    BY DEF TimePasses, ListenersChange, AskListeners, Idle, ReadClock, SkipStale
  <1>3. CASE TimePasses \/ ListenersChange \/ AskListeners \/ ReadClock
    <2>1. now' \in Nat /\ now <= now' /\ target' \in Nat /\ target' <= now'
          /\ UNCHANGED <<timeline, skipped, idled>>
      BY <1>1, <1>3 DEF TimePasses, ListenersChange, AskListeners, ReadClock
    <2>2. ToneTypes'
      BY <1>1, <1>2, <2>1 DEF ToneIInv, ToneTypes
    <2>3. ToneClock'
      <3>1. CASE TimePasses \/ ListenersChange
        BY <1>1, <2>1, <3>1 DEF ToneIInv, ToneClock, TimePasses, ListenersChange
      <3>2. CASE AskListeners
        BY <1>1, <2>1, <3>2 DEF ToneIInv, ToneClock, AskListeners
      <3>3. CASE ReadClock
        BY <1>1, <2>1, <3>3 DEF ToneClock, ReadClock
      <3> QED BY <1>3, <3>1, <3>2, <3>3
    <2> QED BY <1>1, <1>2, <2>1, <2>2, <2>3, NoToneInv
  <1>4. CASE Idle
    <2>1. /\ tonePc' = "top" /\ target' = now /\ timeline' = now
          /\ idled' = idled + (now - timeline) /\ UNCHANGED <<now, skipped>>
      BY <1>4 DEF Idle
    <2>2. ToneTypes' /\ ToneClock' /\ timeline <= timeline' /\ timeline' = generated' + skipped' + idled'
      <3>1. idled' \in Nat /\ timeline' = generated' + skipped' + idled'
        BY <1>1, <1>2, <2>1
      <3> QED BY <1>1, <1>2, <2>1, <3>1 DEF ToneIInv, ToneTypes, ToneClock
    <2> QED BY <1>2, <2>2, NoToneInv
  <1>5. CASE SkipStale
    <2>1. /\ tonePc = "due" /\ tonePc' = "generate" /\ timeline' = timeline + Excess
          /\ skipped' = skipped + Excess /\ UNCHANGED <<now, target, idled>>
      BY <1>5 DEF SkipStale
    <2>2. /\ timeline < target /\ Excess \in Nat /\ Excess < target - timeline
          /\ target - (timeline + Excess) <= CatchUp
      BY <1>1, <2>1, DiagnosticAssumption DEF ToneIInv, ToneClock, Excess
    <2>3. /\ timeline' \in Nat /\ timeline <= timeline' /\ timeline' < target /\ skipped' \in Nat
          /\ timeline' = generated + skipped' + idled /\ target - timeline' <= CatchUp
      BY <1>1, <2>1, <2>2
    <2>4. ToneTypes' /\ ToneClock'
      BY <1>1, <1>2, <2>1, <2>3 DEF ToneIInv, ToneTypes, ToneClock
    <2> QED BY <1>2, <2>1, <2>3, <2>4, NoToneInv
  <1> QED BY <1>3, <1>4, <1>5

(* The tone is sent, with what was held back first, or held back.          *)
LEMMA ToneGoesOnInv ==
  ASSUME ToneIInv, Advance, heldBack' \in Seq(Nat), Len(heldBack') < PacketLimit,
         ~ useOpus => heldBack' = << >>,
         FramesSent' \o heldBack' = (FramesSent \o heldBack) \o Tone,
         \/ UNCHANGED <<toneNumber, tonePackets>>
         \/ \E frames \in Seq(Nat) : SendTone(frames) /\ (~ useOpus => frames[1] = timeline)
  PROVE  ToneIInv'
  <1> DEFINE all == FramesSent \o heldBack
             tone == [i \in 1 .. Due |-> timeline + i - 1]
  <1>1. /\ now \in Nat /\ target \in Nat /\ timeline \in Nat
        /\ generated \in Nat /\ skipped \in Nat /\ idled \in Nat /\ toneNumber \in Nat
        /\ target <= now /\ timeline <= now /\ timeline = generated + skipped + idled
        /\ tonePackets \in Seq(TonePackets) /\ toneNumber = Len(tonePackets)
    BY DEF ToneIInv, ToneTypes, ToneClock, DiagnosticPaced, ToneInOrder
  <1>2. /\ tonePc = "generate" /\ tonePc' = "top" /\ timeline' = timeline + Due
        /\ generated' = generated + Due /\ UNCHANGED <<useOpus, now, target, skipped, idled>>
    BY DEF Advance
  <1>3. timeline < target /\ target - timeline <= CatchUp
    BY <1>2 DEF ToneIInv, ToneClock
  <1>4. Due \in Nat /\ timeline + Due <= target
    BY <1>1, <1>3, DiagnosticAssumption DEF Due
  <1>5. /\ all \in Seq(Nat) /\ Rising(all, timeline) /\ Len(all) = generated
    <2>1. FramesSent \in Seq(Nat) /\ heldBack \in Seq(Nat)
      BY SentFacts DEF ToneIInv, ToneTypes
    <2>2. all \in Seq(Nat)
      BY <2>1, ConcatProperties
    <2> QED BY <2>2 DEF ToneIInv, ToneInOrder, DiagnosticPaced
  <1> HIDE DEF all
  <1>6. /\ all \o tone \in Seq(Nat) /\ Len(all \o tone) = Len(all) + Due
        /\ Rising(all \o tone, timeline + Due)
    <2>1. all \in Seq(Nat) /\ timeline \in Nat /\ Due \in Nat /\ Rising(all, timeline)
      BY <1>1, <1>4, <1>5
    <2> QED BY <2>1, ToneRises
  <1>7. FramesSent' \o heldBack' = all \o tone
    BY DEF Tone, all
  <1> HIDE DEF tone
  <1>8. /\ timeline' \in Nat /\ generated' \in Nat /\ timeline' <= now'
        /\ timeline' = generated' + skipped' + idled'
        /\ Len(all \o tone) = generated' /\ Rising(all \o tone, timeline')
    BY <1>1, <1>2, <1>4, <1>5, <1>6
  <1>9. /\ tonePackets' \in Seq(TonePackets) /\ toneNumber' \in Nat /\ toneNumber' = Len(tonePackets')
        /\ \A i \in DOMAIN tonePackets' : PacketInTime(i)'
    <2>1. \A i \in DOMAIN tonePackets : PacketInTime(i)
      BY DEF ToneIInv, DiagnosticPaced, PacketInTime
    <2>2. CASE UNCHANGED <<toneNumber, tonePackets>>
      BY <1>1, <1>2, <2>1, <2>2 DEF PacketInTime
    <2>3. ASSUME NEW frames \in Seq(Nat), SendTone(frames), ~ useOpus => frames[1] = timeline
          PROVE  /\ tonePackets' \in Seq(TonePackets) /\ toneNumber' \in Nat
                 /\ toneNumber' = Len(tonePackets')
                 /\ \A i \in DOMAIN tonePackets' : PacketInTime(i)'
      <3> DEFINE p == [seq |-> toneNumber, at |-> timeline, late |-> target - timeline, frames |-> frames]
      <3>1. p \in TonePackets
        BY <1>1, <1>3 DEF TonePackets
      <3>2. toneNumber' = toneNumber + 1 /\ tonePackets' = Append(tonePackets, p)
        BY <2>3 DEF SendTone
      <3>3. /\ p.seq = toneNumber /\ p.late <= CatchUp /\ (~ useOpus' => p.at = p.frames[1])
        BY <1>2, <1>3, <2>3
      <3> HIDE DEF p
      <3>4. /\ tonePackets' \in Seq(TonePackets) /\ Len(tonePackets') = Len(tonePackets) + 1
            /\ tonePackets'[Len(tonePackets) + 1] = p
            /\ \A i \in 1 .. Len(tonePackets) : tonePackets'[i] = tonePackets[i]
        BY <1>1, <3>1, <3>2, AppendProperties
      <3>5. DOMAIN tonePackets' = 1 .. Len(tonePackets') /\ DOMAIN tonePackets = 1 .. Len(tonePackets)
        BY <1>1, <3>4, LenProperties
      <3>6. ASSUME NEW i \in DOMAIN tonePackets'
            PROVE  PacketInTime(i)'
        <4>1. CASE i \in DOMAIN tonePackets
          BY <1>2, <2>1, <3>4, <3>5, <4>1 DEF PacketInTime
        <4>2. CASE i \notin DOMAIN tonePackets
          <5>1. i = Len(tonePackets) + 1 /\ i - 1 = toneNumber
            BY <1>1, <3>4, <3>5, <4>2
          <5> QED BY <3>3, <3>4, <5>1 DEF PacketInTime
        <4> QED BY <4>1, <4>2
      <3> QED BY <1>1, <3>2, <3>4, <3>6
    <2> QED BY <2>2, <2>3
  <1>10. ToneTypes'
    BY <1>1, <1>2, <1>8, <1>9 DEF ToneIInv, ToneTypes
  <1>11. ToneClock'
    BY <1>1, <1>2, <1>8 DEF ToneClock
  <1>12. ToneInOrder'
    BY <1>2, <1>7, <1>8, <1>9 DEF ToneInOrder
  <1>13. DiagnosticPaced'
    <2>1. \A i \in 1 .. Len(all \o tone) - 1 : (all \o tone)[i] < (all \o tone)[i + 1]
      BY <1>8 DEF Rising
    <2> QED BY <1>7, <1>8, <1>9, <2>1 DEF DiagnosticPaced, PacketInTime
  <1> QED BY <1>10, <1>11, <1>12, <1>13 DEF ToneIInv

LEMMA ToneSentInv ==
  ASSUME ToneIInv, SendPlain \/ HoldBack \/ SendEncoded
  PROVE  ToneIInv'
  <1>1. /\ timeline \in Nat /\ target \in Nat /\ toneNumber \in Nat /\ PacketLimit \in Nat \ {0}
        /\ FramesSent \in Seq(Nat) /\ heldBack \in Seq(Nat)
        /\ Len(heldBack) \in Nat /\ Len(heldBack) < PacketLimit
    <2>1. FramesSent \in Seq(Nat) /\ heldBack \in Seq(Nat) /\ Len(heldBack) < PacketLimit
      BY SentFacts DEF ToneIInv, ToneTypes, DiagnosticPaced
    <2> QED BY <2>1, DiagnosticAssumption, LenProperties DEF ToneIInv, ToneTypes
  <1>2. Advance /\ timeline < target /\ target - timeline <= CatchUp
    BY DEF SendPlain, HoldBack, SendEncoded, Advance, ToneIInv, ToneClock
  <1>3. Due \in Nat /\ Due >= 1 /\ Due <= PacketLimit
    BY <1>1, <1>2 DEF Due
  <1>4. Tone \in Seq(Nat) /\ Len(Tone) = Due /\ Tone[1] = timeline
    BY <1>1, <1>3 DEF Tone
  <1>5. ASSUME NEW frames \in Seq(Nat), SendTone(frames)
        PROVE  FramesSent' = FramesSent \o frames
    <2> DEFINE p == [seq |-> toneNumber, at |-> timeline, late |-> target - timeline, frames |-> frames]
    <2>1. p \in TonePackets /\ p.frames = frames
      BY <1>1, <1>2 DEF TonePackets
    <2>2. tonePackets' = Append(tonePackets, p)
      BY <1>5 DEF SendTone
    <2> HIDE DEF p
    <2> QED BY <2>1, <2>2, SentFacts DEF ToneIInv
  <1>6. /\ heldBack \o Tone \in Seq(Nat) /\ Len(heldBack \o Tone) = Len(heldBack) + Due
        /\ (FramesSent \o heldBack) \o Tone = FramesSent \o (heldBack \o Tone)
    <2>1. (FramesSent \o heldBack) \o Tone = FramesSent \o (heldBack \o Tone)
      <3>1. FramesSent \in Seq(Nat) /\ heldBack \in Seq(Nat) /\ Tone \in Seq(Nat)
        BY <1>1, <1>4
      <3>2. \A a, b, c \in Seq(Nat) : (a \o b) \o c = a \o (b \o c)
        BY ConcatAssociative
      <3> QED BY ONLY <3>1, <3>2, Zenon
    <2>2. heldBack \o Tone \in Seq(Nat) /\ Len(heldBack \o Tone) = Len(heldBack) + Due
      BY <1>1, <1>4, ConcatProperties
    <2> QED BY <2>1, <2>2
  <1>7. CASE SendPlain
    <2>1. ~ useOpus /\ SendTone(Tone) /\ heldBack' = heldBack /\ heldBack = << >>
      BY <1>7 DEF SendPlain, ToneIInv, ToneInOrder
    <2>2. FramesSent' = FramesSent \o Tone
      BY <1>4, <1>5, <2>1
    <2>3. FramesSent' \o heldBack' = (FramesSent \o heldBack) \o Tone
      <3>1. FramesSent \o Tone \in Seq(Nat)
        BY <1>1, <1>4, ConcatProperties
      <3> QED BY <1>1, <2>1, <2>2, <3>1, ConcatEmptySeq
    <2> QED BY <1>1, <1>2, <1>4, <2>1, <2>3, ToneGoesOnInv
  <1>8. CASE HoldBack
    <2>1. /\ useOpus /\ heldBack' = heldBack \o Tone /\ Len(heldBack \o Tone) < PacketLimit
          /\ UNCHANGED <<toneNumber, tonePackets>>
      BY <1>8 DEF HoldBack
    <2>2. FramesSent' = FramesSent
      BY <2>1 DEF FramesSent
    <2> QED BY <1>2, <1>6, <2>1, <2>2, ToneGoesOnInv
  <1>9. CASE SendEncoded
    <2> DEFINE s == heldBack \o Tone
               a == SubSeq(s, 1, PacketLimit)
               b == SubSeq(s, PacketLimit + 1, Len(s))
    <2>1. useOpus /\ PacketLimit <= Len(s) /\ SendTone(a) /\ heldBack' = b
      BY <1>1, <1>3, <1>6, <1>9 DEF SendEncoded
    <2> HIDE DEF s
    <2>2. s \in Seq(Nat) /\ Len(s) = Len(heldBack) + Due
      BY <1>6 DEF s
    <2>3. a \in Seq(Nat) /\ b \in Seq(Nat) /\ Len(b) = Len(s) - PacketLimit /\ a \o b = s
      <3>1. PacketLimit \in Nat /\ PacketLimit <= Len(s)
        BY <1>1, <2>1
      <3> QED BY <2>2, <3>1, Parted
    <2> HIDE DEF a, b
    <2>4. FramesSent' = FramesSent \o a
      BY <1>5, <2>1, <2>3
    <2>5. FramesSent' \o heldBack' = (FramesSent \o heldBack) \o Tone
      <3>1. (FramesSent \o a) \o b = FramesSent \o s
        <4>1. FramesSent \in Seq(Nat) /\ a \in Seq(Nat) /\ b \in Seq(Nat)
          BY <1>1, <2>3
        <4>2. \A u, v, w \in Seq(Nat) : (u \o v) \o w = u \o (v \o w)
          BY ConcatAssociative
        <4>3. (FramesSent \o a) \o b = FramesSent \o (a \o b)
          BY <4>1, <4>2
        <4> QED BY <2>3, <4>3
      <3> QED BY <1>6, <2>1, <2>4, <3>1 DEF s
    <2>6. Len(heldBack') < PacketLimit
      BY <1>1, <1>3, <2>1, <2>2, <2>3
    <2> QED BY <1>2, <2>1, <2>3, <2>5, <2>6, ToneGoesOnInv
  <1> QED BY <1>7, <1>8, <1>9

LEMMA ToneStepInv ==
  ASSUME ToneIInv, [ToneNext]_toneVars
  PROVE  ToneIInv'
  <1>1. CASE UNCHANGED toneVars
    <2>1. UNCHANGED <<useOpus, now, tonePc, target, timeline, heldBack, toneNumber, tonePackets,
                      generated, skipped, idled>>
      BY <1>1 DEF toneVars
    <2>2. FramesSent' = FramesSent
      BY <2>1 DEF FramesSent
    <2> QED BY <2>1, <2>2 DEF ToneIInv, ToneTypes, ToneClock, ToneInOrder, DiagnosticPaced
  <1> QED BY <1>1, ToneWaitsInv, ToneSentInv DEF ToneNext, ToneStep

-----------------------------------------------------------------------------
(* The panel: what RunningIsPublished needs of its variables.              *)
PanelTypes ==
  /\ testRun \in Nat
  /\ threads \in [Runs -> {"none", "publish", "leave", "report", "gone"}]

PanelIInv == PanelTypes /\ RunningIsPublished

(* The invariants of the components.                                       *)
PublishersIInv ==
  MetersIInv /\ RecordIInv /\ ResampleIInv /\ PanelIInv /\ OpusIInv /\ ToneIInv

-----------------------------------------------------------------------------
LEMMA PanelInitInv == PanelInit => PanelIInv
  <1>1. PanelInit => PanelTypes
    BY DEF PanelInit, PanelTypes
  <1>2. PanelInit => RunningIsPublished
    BY Zenon DEF PanelInit, RunningIsPublished
  <1> QED BY <1>1, <1>2 DEF PanelIInv

(* While it is set, the flag has a thread that will clear it: a step that  *)
(* takes such a thread away clears the flag.                               *)
LEMMA PanelStepInv ==
  ASSUME PanelIInv, [PanelNext]_panelVars
  PROVE  PanelIInv'
  <1> USE DEF PanelIInv
  <1>1. CASE StartTest
    <2>1. testRun + 1 \in Runs
      BY <1>1, PanelAssumption DEF StartTest, Runs, PanelTypes
    <2>2. CASE running' = TRUE /\ threads' = [threads EXCEPT ![testRun + 1] = "publish"]
      <3>1. PanelTypes'
        <4>1. testRun' = testRun + 1
          BY <1>1, Zenon DEF StartTest
        <4>2. threads' = [threads EXCEPT ![testRun + 1] = "publish"]
          BY <2>2, Zenon
        <4>3. testRun' \in Nat
          BY <4>1 DEF PanelTypes
        <4>4. threads' \in [Runs -> {"none", "publish", "leave", "report", "gone"}]
          BY <4>2 DEF PanelTypes
        <4> QED BY <4>3, <4>4 DEF PanelTypes
      <3>2. threads'[testRun + 1] = "publish"
        BY <2>1, <2>2 DEF PanelTypes
      <3> QED BY <2>1, <3>1, <3>2 DEF RunningIsPublished
    <2>3. CASE UNCHANGED <<running, threads>>
      BY <1>1, <2>3 DEF StartTest, PanelTypes, RunningIsPublished
    <2> QED BY <1>1, <2>2, <2>3 DEF StartTest
  <1>2. CASE StopTest \/ DropPanel \/ \E r \in Runs : ClearRunning(r)
    <2>1. running' = FALSE
      BY <1>2, Zenon DEF StopTest, DropPanel, ClearRunning
    <2>2. PanelTypes'
      BY <1>2 DEF StopTest, DropPanel, ClearRunning, PanelTypes
    <2> QED BY <2>1, <2>2, Zenon DEF RunningIsPublished
  <1>3. CASE RemoveTest
    BY <1>3 DEF RemoveTest, PanelTypes, RunningIsPublished
  <1>4. ASSUME NEW r \in Runs, LeaveLoop(r) PROVE PanelIInv'
    <2>1. PanelTypes'
      BY <1>4 DEF LeaveLoop, PanelTypes
    <2>2. ~ running /\ running' = running
      BY <1>4, Zenon DEF LeaveLoop
    <2> QED BY <2>1, <2>2, Zenon DEF RunningIsPublished
  <1>5. ASSUME NEW r \in Runs, ShowReport(r) PROVE PanelIInv'
    <2>1. PanelTypes'
      BY <1>5 DEF ShowReport, PanelTypes
    <2>2. \A q \in Runs : threads[q] \in {"publish", "leave"} => threads'[q] = threads[q]
      BY <1>5 DEF ShowReport, PanelTypes
    <2>3. running' = running
      BY <1>5 DEF ShowReport
    <2> QED BY <2>1, <2>2, <2>3, Zenon DEF RunningIsPublished
  <1>6. ASSUME NEW r \in Runs, PublishFails(r) PROVE PanelIInv'
    <2>1. PanelTypes'
      BY <1>6 DEF PublishFails, PanelTypes
    <2>2. threads'[r] = "leave"
      BY <1>6 DEF PublishFails, PanelTypes
    <2> QED BY <2>1, <2>2, Zenon DEF RunningIsPublished
  <1>7. CASE UNCHANGED panelVars
    BY <1>7 DEF panelVars, PanelTypes, RunningIsPublished
  <1> QED BY <1>1, <1>2, <1>3, <1>4, <1>5, <1>6, <1>7 DEF PanelNext, ThreadEnds

-----------------------------------------------------------------------------
LEMMA PublishersInductive ==
  ASSUME PublishersIInv, [PublishersNext]_allVars
  PROVE  PublishersIInv'
  <1>1. [MetersNext]_meterVars
    BY DEF PublishersNext, allVars, serviceVars
  <1>2. [RecordNext]_recordVars
    BY DEF PublishersNext, allVars, serviceVars
  <1>3. [ResampleNext]_resampleVars
    BY DEF PublishersNext, allVars, codecVars
  <1>4. [PanelNext]_panelVars
    BY DEF PublishersNext, allVars, serviceVars
  <1>5. [OpusNext]_opusVars
    BY DEF PublishersNext, allVars, codecVars
  <1>6. [ToneNext]_toneVars
    BY DEF PublishersNext, allVars, codecVars
  <1> QED BY <1>1, <1>2, <1>3, <1>4, <1>5, <1>6, MetersStepInv, RecordStepInv, ResampleStepInv,
             PanelStepInv, OpusStepInv, ToneStepInv DEF PublishersIInv

LEMMA PublishersInvariant == PublishersSpec => []PublishersIInv
  <1>1. PublishersInit => PublishersIInv
    BY MetersInitInv, RecordInitInv, ResampleInitInv, PanelInitInv, OpusInitInv, ToneInitInv
    DEF PublishersInit, PublishersIInv
  <1> QED BY <1>1, PublishersInductive, PTL DEF PublishersSpec

(* A session that runs is monitored though another of its name ends, no    *)
(* peak goes unseen, and no test is shown that nothing publishes           *)
(* (signal_meter.rs, diagnostic_panel.rs).                                 *)
THEOREM MonitorStaysTrue == PublishersSpec => []MonitorIsTrue
  <1>1. PublishersIInv => MonitorIsTrue
    BY DEF PublishersIInv, MetersIInv, PanelIInv, MonitorIsTrue
  <1> QED BY <1>1, PublishersInvariant, PTL

(* What a recording's queue takes is in the file when finalize returns,    *)
(* and a resampled stream keeps its place (recording.rs,                   *)
(* stream_control.rs).                                                     *)
THEOREM SamplesStay == PublishersSpec => []SamplesKept
  <1>1. PublishersIInv => SamplesKept
    BY RecordIInvSuffices
    DEF PublishersIInv, ResampleIInv, ResampledInPlace, SamplesKept
  <1> QED BY <1>1, PublishersInvariant, PTL

(* Packet n of the codec carries the n-th stretch of what was pushed,      *)
(* whether or not those before it were sent; tones leave in order, once,   *)
(* none later than the catch-up bound, and the time that passed is what    *)
(* was generated, skipped and idled (opus.rs, transmit.rs,                 *)
(* diagnostic_publish.rs).                                                 *)
THEOREM StreamsInTime == PublishersSpec => []StreamsKeepTime
  <1>1. PublishersIInv => StreamsKeepTime
    BY DEF PublishersIInv, OpusIInv, ToneIInv, StreamsKeepTime
  <1> QED BY <1>1, PublishersInvariant, PTL

-----------------------------------------------------------------------------
(* The capture publisher: its queue, worker and session.                   *)

(* Who holds the lock, and what that says of the threads.                  *)
LockInv ==
  /\ lock = Callback => streaming /\ pushing \in Blocks /\ pushing.first = accepted
  /\ lock # Callback => pushing = NoBlock
  /\ lock = Worker <=> workerPc \in {"popping", "checking"}
  /\ lock = Closer => session = "closing"
  /\ streaming <=> session = "running"
  /\ closed <=> session \in {"joining", "done"}
  /\ workerPc = "block" => inHand \in Blocks

(* The bound on the queue's latency.                                       *)
CapacityKept == bufferedFrames <= MaxFrames

(* Every queued block ends within the accepted audio.                      *)
LedgerInv ==
  /\ CounterMatchesBlocks
  /\ \A i \in 1 .. Len(blocks) : blocks[i].first + blocks[i].frames <= accepted

(* The worker leaves its loop only when nothing can arrive any more.       *)
DrainInv ==
  /\ workerPc \in {"final", "done"} => closed /\ blocks = << >>
  /\ workerPc = "done" => droppedFrames = 0
  /\ session = "done" => workerPc = "done"

(* A block sent too late leaves the worker with an empty snapshot.         *)
GatingInv ==
  /\ staleBlocks \in {0, 1}
  /\ staleBlocks = 1 =>
       ~ subscribed /\ (workerPc \in {"pop", "popping", "block"} => ~ destinations)

CaptureIInv ==
  /\ TypeOK /\ LockInv /\ LedgerInv /\ CapacityKept /\ FramesAccounted
  /\ DrainInv /\ GatingInv

-----------------------------------------------------------------------------
(* Sequences, in the form the steps need.                                  *)

(* What is left of a queue when its first block is taken.                  *)
LEMMA TailFacts ==
  ASSUME NEW S, NEW s \in Seq(S), s # << >>
  PROVE  /\ Tail(s) \in Seq(S) /\ Len(s) \in Nat \ {0}
         /\ Len(Tail(s)) = Len(s) - 1
         /\ Head(s) = s[1] /\ s[1] \in S
         /\ \A i \in 1 .. Len(s) - 1 : Tail(s)[i] = s[i + 1]
         /\ Len(s) = 1 => Tail(s) = << >>
  BY HeadTailProperties, EmptySeq, LenProperties, ElementOfSeq

(* A queue to which a block has been appended.                             *)
LEMMA AppendFacts ==
  ASSUME NEW S, NEW s \in Seq(S), NEW e \in S
  PROVE  /\ Append(s, e) \in Seq(S) /\ Len(s) \in Nat
         /\ Append(s, e) # << >>
         /\ Len(Append(s, e)) = Len(s) + 1
         /\ Append(s, e)[Len(s) + 1] = e
         /\ \A i \in 1 .. Len(s) : Append(s, e)[i] = s[i]
         /\ s = << >> => Len(s) = 0
  BY AppendProperties, EmptySeq, LenProperties

(* The number of packets of a block is its length divided and rounded up.  *)
LEMMA PacketCountFacts ==
  ASSUME NEW frames \in Nat \ {0}
  PROVE  /\ PacketCount(frames) \in Nat \ {0}
         /\ PacketCount(frames) * PacketFrames >= frames
         /\ (PacketCount(frames) - 1) * PacketFrames < frames
  BY PublisherAssumption, SMTT(30) DEF PacketCount

(* All packets of a block start inside it.                                 *)
LEMMA PacketStarts ==
  ASSUME NEW frames \in Nat \ {0}, NEW i \in 1 .. PacketCount(frames)
  PROVE  /\ (i - 1) * PacketFrames \in 0 .. frames - 1
         /\ i < PacketCount(frames) => i * PacketFrames < frames
  <1> DEFINE c == PacketCount(frames)
  <1>1. c \in Nat \ {0} /\ (c - 1) * PacketFrames < frames
    BY PacketCountFacts
  <1>2. PacketFrames \in Nat \ {0}
    BY PublisherAssumption
  <1> HIDE DEF c
  <1>3. ASSUME NEW j \in 0 .. c - 1
        PROVE  j * PacketFrames \in Nat /\ j * PacketFrames <= (c - 1) * PacketFrames
    BY <1>1, <1>2, SMTT(30)
  <1>4. i \in 1 .. c
    BY DEF c
  <1>5. (i - 1) * PacketFrames \in 0 .. frames - 1
    <2>1. i - 1 \in 0 .. c - 1
      BY <1>1, <1>4
    <2>2. (c - 1) * PacketFrames \in Int
      BY <1>1, <1>2
    <2> QED BY <1>1, <1>3, <2>1, <2>2
  <1>6. i < c => i * PacketFrames < frames
    <2>1. i < c => i \in 0 .. c - 1
      BY <1>1, <1>4
    <2>2. (c - 1) * PacketFrames \in Int
      BY <1>1, <1>2
    <2> QED BY <1>1, <1>3, <2>1, <2>2
  <1> QED BY <1>5, <1>6 DEF c

(* A function on 1 .. n is a sequence.                                     *)
LEMMA FunctionIsSeq ==
  ASSUME NEW S, NEW n \in Nat, NEW f \in [1 .. n -> S]
  PROVE  f \in Seq(S)
  <1>1. Seq(S) = UNION {[1 .. k -> S] : k \in Nat}
    BY SeqDef
  <1> QED BY <1>1, Zenon

(* The packets of a block are records of the right type.                   *)
LEMMA PacketizeType ==
  ASSUME NEW block \in Blocks, nextSeq \in Nat
  PROVE  Packetize(block) \in
           Seq([seq : Nat, stamp : 1 .. MaxBlocks, offset : Nat, frames : Nat])
  <1>1. block.frames \in Nat \ {0} /\ block.id \in 1 .. MaxBlocks
    BY QueueAssumption DEF Blocks
  <1>2. PacketCount(block.frames) \in Nat
    BY <1>1, PacketCountFacts
  <1>3. PacketFrames \in Nat
    BY PublisherAssumption
  <1>4. ASSUME NEW i \in 1 .. PacketCount(block.frames)
        PROVE  Packetize(block)[i] \in
                 [seq : Nat, stamp : 1 .. MaxBlocks, offset : Nat, frames : Nat]
    <2>1. (i - 1) * PacketFrames \in 0 .. block.frames - 1
      BY <1>1, PacketStarts
    <2>2. nextSeq + i - 1 \in Nat
      BY <1>2
    <2> DEFINE offset == (i - 1) * PacketFrames
               remains == block.frames - offset
    <2>3. offset \in Nat /\ remains \in Nat
      BY <1>1, <2>1
    <2>4. Packetize(block)[i] =
            [seq |-> nextSeq + i - 1, stamp |-> block.id, offset |-> offset,
             frames |-> IF i * PacketFrames <= block.frames THEN PacketFrames ELSE remains]
      BY DEF Packetize
    <2> HIDE DEF offset, remains
    <2> QED BY <1>1, <1>3, <2>2, <2>3, <2>4
  <1>5. Packetize(block) \in
          [1 .. PacketCount(block.frames) ->
             [seq : Nat, stamp : 1 .. MaxBlocks, offset : Nat, frames : Nat]]
    <2>1. Packetize(block) =
            [i \in 1 .. PacketCount(block.frames) |-> Packetize(block)[i]]
      BY Zenon DEF Packetize
    <2> QED BY <1>4, <2>1
  <1> QED BY <1>2, <1>5, FunctionIsSeq

-----------------------------------------------------------------------------
(* Which steps touch the queue's contents.                                 *)

(* Only the callback that holds the lock and a pop change the blocks.      *)
LEMMA QueueUntouched ==
  ASSUME [Next]_vars, ~ CallbackContinues, ~ PopBlock
  PROVE  UNCHANGED <<blocks, bufferedFrames, accepted>>
  BY DEF Next, vars, queueVars, CallbackArrives, PushTooLarge, PushRefused,
         PushLock, DropNew, ReportDrops, TakeDropped, WorkerStep, Snapshot,
         PopLock, WaitForLock, PopNothing, Unlock, Discard, Send, CheckLock,
         Check, FinalReport, Stop, SessionStep, DropStream, CloseLock,
         CloseQueue, Close, Join, Toggle

(* The initial state satisfies the invariant.                              *)
LEMMA CaptureInitInv == Init => CaptureIInv
  <1> SUFFICES ASSUME Init PROVE CaptureIInv
    OBVIOUS
  <1> USE QueueAssumption, PublisherAssumption DEF Init, QueueInit
  <1>1. << >> \in Seq(Blocks) /\ Len(blocks) = 0
    OBVIOUS
  <1>2. << >> \in Seq([seq : Nat, stamp : 1 .. MaxBlocks, offset : Nat, frames : Nat])
    OBVIOUS
  <1>3. TypeOK
    <2>1. blocks \in Seq(Blocks)
      BY <1>1
    <2>2. wire \in Seq([seq : Nat, stamp : 1 .. MaxBlocks, offset : Nat, frames : Nat])
      BY <1>2
    <2>3. recycled \in 0 .. PoolLimit /\ offered \in 0 .. MaxBlocks /\ toggles \in 0 .. MaxToggles
      OBVIOUS
    <2> QED BY <2>1, <2>2, <2>3, Zenon DEF TypeOK
  <1>4. LockInv
    BY DEF LockInv
  <1>5. LedgerInv /\ CapacityKept
    BY <1>1 DEF LedgerInv, CounterMatchesBlocks, CapacityKept
  <1>6. FramesAccounted /\ DrainInv /\ GatingInv
    BY DEF FramesAccounted, DrainInv, GatingInv, NoBlock
  <1> QED BY <1>3, <1>4, <1>5, <1>6 DEF CaptureIInv

(* Lock ownership and the threads' positions stay consistent.              *)
LEMMA LockStep ==
  ASSUME CaptureIInv, [Next]_vars
  PROVE  LockInv'
  <1> USE QueueAssumption, PublisherAssumption DEF CaptureIInv, LockInv, TypeOK
  <1>1. CASE CallbackArrives
    <2> PICK frames \in BlockSizes :
          PushTooLarge(frames) \/ PushRefused(frames) \/ PushLock(offered + 1, frames)
      BY <1>1 DEF CallbackArrives
    <2>1. CASE PushTooLarge(frames) \/ PushRefused(frames)
      BY <1>1, <2>1 DEF CallbackArrives, PushTooLarge, PushRefused, DropNew, workerVars
    <2>2. CASE PushLock(offered + 1, frames)
      BY <1>1, <2>2 DEF CallbackArrives, PushLock, CanEnter, workerVars, Blocks
    <2> QED BY <2>1, <2>2
  <1>2. CASE CallbackContinues
    BY <1>2 DEF CallbackContinues, PushEvict, PushAppend, sessionVars, workerVars
  <1>3. CASE ReportDrops
    BY <1>3 DEF ReportDrops, TakeDropped, sessionVars
  <1>4. CASE Snapshot \/ Discard \/ Send
    BY <1>4 DEF Snapshot, Discard, Send, Goto, queueVars, sessionVars
  <1>5. CASE PopLock \/ CheckLock
    BY <1>5 DEF PopLock, CheckLock, WaitForLock, Goto, sessionVars
  <1>6. CASE PopBlock
    BY <1>6, TailFacts DEF PopBlock, PopSome, Goto, sessionVars
  <1>7. CASE PopNothing \/ Check
    BY <1>7 DEF PopNothing, Check, Unlock, Goto, sessionVars
  <1>8. CASE FinalReport
    BY <1>8 DEF FinalReport, TakeDropped, Goto, sessionVars
  <1>9. CASE Stop \/ Toggle
    BY <1>9 DEF Stop, Toggle, queueVars, workerVars
  <1>10. CASE DropStream
    BY <1>10 DEF DropStream, queueVars, workerVars
  <1>11. CASE CloseLock
    BY <1>11 DEF CloseLock, WaitForLock, workerVars, sessionVars
  <1>12. CASE CloseQueue
    BY <1>12 DEF CloseQueue, Close, workerVars
  <1>13. CASE Join
    BY <1>13 DEF Join, queueVars, workerVars
  <1>14. CASE UNCHANGED vars
    BY <1>14 DEF vars, queueVars, sessionVars, workerVars
  <1> QED
    BY <1>1, <1>2, <1>3, <1>4, <1>5, <1>6, <1>7, <1>8, <1>9, <1>10, <1>11,
       <1>12, <1>13, <1>14 DEF Next, WorkerStep, SessionStep

(* The blocks stay consecutive and buffered_samples stays their sum.       *)
LEMMA LedgerStep ==
  ASSUME CaptureIInv, [Next]_vars
  PROVE  LedgerInv' /\ CapacityKept' /\ bufferedFrames' \in Nat
  <1> USE QueueAssumption DEF CaptureIInv
  <1>0. /\ blocks \in Seq(Blocks) /\ Len(blocks) \in Nat
        /\ bufferedFrames \in Nat /\ accepted \in Nat
        /\ \A i \in 1 .. Len(blocks) :
             blocks[i].first \in Nat /\ blocks[i].frames \in 1 .. MaxFrames
    <2>1. blocks \in Seq(Blocks)
      BY DEF TypeOK
    <2>2. ASSUME NEW i \in 1 .. Len(blocks) PROVE blocks[i] \in Blocks
      BY <2>1, ElementOfSeq
    <2>3. Len(blocks) \in Nat
      BY <2>1, LenProperties
    <2> QED BY <2>1, <2>2, <2>3 DEF TypeOK, Blocks
  <1>1. CASE PushEvict \/ PopBlock
    <2>1. /\ blocks # << >> /\ blocks' = Tail(blocks)
          /\ bufferedFrames' = bufferedFrames - Head(blocks).frames
          /\ accepted' = accepted
      BY <1>1 DEF PushEvict, PopBlock, PopSome
    <2>2. /\ Len(blocks') = Len(blocks) - 1 /\ Head(blocks) = blocks[1]
          /\ Len(blocks) \in Nat \ {0}
          /\ \A i \in 1 .. Len(blocks') : blocks'[i] = blocks[i + 1]
          /\ Len(blocks) = 1 => blocks' = << >>
      BY <1>0, <2>1, TailFacts
    <2>3. \A i \in 1 .. Len(blocks') : blocks'[i].first + blocks'[i].frames <= accepted'
      BY <1>0, <2>1, <2>2 DEF LedgerInv
    <2>4. \A i \in 1 .. Len(blocks') - 1 :
            blocks'[i + 1].first = blocks'[i].first + blocks'[i].frames
      BY <1>0, <2>1, <2>2 DEF LedgerInv, CounterMatchesBlocks
    <2>5. CASE Len(blocks) = 1
      <3>1. bufferedFrames' = 0 /\ blocks' = << >>
        BY <1>0, <2>1, <2>2, <2>5 DEF LedgerInv, CounterMatchesBlocks
      <3> QED BY <2>3, <2>4, <3>1 DEF LedgerInv, CounterMatchesBlocks, CapacityKept
    <2>6. CASE Len(blocks) > 1
      <3>0. /\ blocks'[1] = blocks[2]
            /\ blocks[2].first = blocks[1].first + blocks[1].frames
            /\ bufferedFrames = accepted - blocks[1].first
            /\ blocks[1].first \in Nat /\ blocks[1].frames \in Nat
            /\ blocks[2].first \in Nat /\ blocks[2].frames \in Nat
            /\ blocks[2].first + blocks[2].frames <= accepted
        <4>1. 1 \in 1 .. Len(blocks') /\ 1 \in 1 .. Len(blocks) - 1 /\ 2 \in 1 .. Len(blocks)
          BY <2>2, <2>6
        <4> QED BY <1>0, <2>1, <2>2, <4>1 DEF LedgerInv, CounterMatchesBlocks
      <3>1. bufferedFrames' = accepted' - blocks'[1].first
        <4>1. bufferedFrames' = bufferedFrames - blocks[1].frames
          BY <2>1, <2>2
        <4>2. accepted' = accepted /\ accepted \in Nat
          BY <1>0, <2>1
        <4> QED BY <3>0, <4>1, <4>2
      <3>2. blocks'[Len(blocks')].first + blocks'[Len(blocks')].frames = accepted'
        BY <1>0, <2>1, <2>2, <2>6 DEF LedgerInv, CounterMatchesBlocks
      <3>3. blocks' # << >>
        BY <2>2, <2>6
      <3>4. bufferedFrames' \in 0 .. MaxFrames
        <4>1. bufferedFrames' = bufferedFrames - blocks[1].frames
          BY <2>1, <2>2
        <4>2. accepted' = accepted /\ accepted \in Nat /\ bufferedFrames \in Nat
          BY <1>0, <2>1
        <4>3. bufferedFrames <= MaxFrames
          BY DEF CapacityKept
        <4> QED BY <3>0, <4>1, <4>2, <4>3
      <3> QED
        BY <2>3, <2>4, <3>1, <3>2, <3>3, <3>4
        DEF LedgerInv, CounterMatchesBlocks, CapacityKept
    <2> QED BY <2>2, <2>5, <2>6
  <1>2. CASE PushAppend
    <2>1. /\ pushing \in Blocks /\ pushing.first = accepted
          /\ pushing.first \in Nat /\ pushing.frames \in 1 .. MaxFrames
      BY <1>2 DEF PushAppend, LockInv, Blocks
    <2>2. /\ blocks' = Append(blocks, pushing)
          /\ bufferedFrames' = bufferedFrames + pushing.frames
          /\ accepted' = accepted + pushing.frames
          /\ ~ Full \/ blocks = << >>
      BY <1>2 DEF PushAppend
    <2>3. /\ Len(blocks') = Len(blocks) + 1 /\ blocks' # << >>
          /\ blocks'[Len(blocks) + 1] = pushing
          /\ \A i \in 1 .. Len(blocks) : blocks'[i] = blocks[i]
          /\ blocks = << >> => Len(blocks) = 0
          /\ blocks # << >> => Len(blocks) > 0
      <3>1. blocks \in Seq(Blocks) /\ pushing \in Blocks
        BY <1>0, <2>1
      <3> DEFINE t == Append(blocks, pushing)
      <3>2. /\ Len(t) = Len(blocks) + 1 /\ t # << >> /\ t[Len(blocks) + 1] = pushing
            /\ \A i \in 1 .. Len(blocks) : t[i] = blocks[i]
            /\ blocks = << >> => Len(blocks) = 0
        BY ONLY <3>1, AppendFacts
      <3>3. blocks # << >> => Len(blocks) > 0
        BY <3>1, TailFacts
      <3>4. blocks' = t
        BY <2>2
      <3> HIDE DEF t
      <3> QED BY <3>2, <3>3, <3>4
    <2>4. ASSUME NEW i \in 1 .. Len(blocks')
          PROVE  blocks'[i].first + blocks'[i].frames <= accepted'
      <3>1. CASE i \in 1 .. Len(blocks)
        <4>1. /\ blocks'[i] = blocks[i]
              /\ blocks[i].first \in Nat /\ blocks[i].frames \in Nat
              /\ blocks[i].first + blocks[i].frames <= accepted
          BY <1>0, <2>3, <3>1 DEF LedgerInv
        <4>2. accepted \in Nat /\ accepted' = accepted + pushing.frames /\ pushing.frames \in Nat
          BY <1>0, <2>1, <2>2
        <4> QED BY <4>1, <4>2
      <3>2. CASE i = Len(blocks) + 1
        BY <1>0, <2>1, <2>2, <2>3, <3>2
      <3> QED BY <1>0, <2>3, <3>1, <3>2
    <2>5. \A i \in 1 .. Len(blocks') - 1 :
            blocks'[i + 1].first = blocks'[i].first + blocks'[i].frames
      <3> SUFFICES ASSUME NEW i \in 1 .. Len(blocks') - 1
                   PROVE  blocks'[i + 1].first = blocks'[i].first + blocks'[i].frames
        OBVIOUS
      <3>1. i \in 1 .. Len(blocks) /\ blocks'[i] = blocks[i]
        BY <1>0, <2>3
      <3>2. CASE i = Len(blocks)
        <4>1. blocks'[i + 1] = pushing /\ blocks # << >>
          BY <1>0, <2>3, <3>1, <3>2
        <4>2. accepted = blocks[i].first + blocks[i].frames
          BY <3>2, <4>1 DEF LedgerInv, CounterMatchesBlocks
        <4> QED BY <2>1, <3>1, <4>1, <4>2
      <3>3. CASE i # Len(blocks)
        <4>1. i + 1 \in 1 .. Len(blocks) /\ i \in 1 .. Len(blocks) - 1
          BY <1>0, <3>1, <3>3
        <4>2. blocks[i + 1].first = blocks[i].first + blocks[i].frames
          BY <4>1 DEF LedgerInv, CounterMatchesBlocks
        <4>3. blocks'[i + 1] = blocks[i + 1]
          BY <2>3, <4>1
        <4> QED BY <3>1, <4>2, <4>3
      <3> QED BY <3>2, <3>3
    <2>6. bufferedFrames' = accepted' - blocks'[1].first
      BY <1>0, <2>1, <2>2, <2>3 DEF LedgerInv, CounterMatchesBlocks
    <2>7. bufferedFrames' \in Nat /\ bufferedFrames' <= MaxFrames
      BY <1>0, <2>1, <2>2 DEF LedgerInv, CounterMatchesBlocks, Full
    <2> QED
      BY <1>0, <2>1, <2>2, <2>3, <2>4, <2>5, <2>6, <2>7
      DEF LedgerInv, CounterMatchesBlocks, CapacityKept
  <1>3. CASE ~ CallbackContinues /\ ~ PopBlock
    BY <1>0, <1>3, QueueUntouched DEF LedgerInv, CounterMatchesBlocks, CapacityKept
  <1> QED BY <1>1, <1>2, <1>3 DEF CallbackContinues

(* Every frame is still accounted for.                                     *)
LEMMA AccountStep ==
  ASSUME CaptureIInv, [Next]_vars
  PROVE  FramesAccounted'
  <1> USE QueueAssumption, PublisherAssumption DEF CaptureIInv, FramesAccounted
  <1>0. /\ offeredFrames \in Nat /\ consumed \in Nat /\ bufferedFrames \in Nat
        /\ droppedFrames \in Nat /\ reported \in Nat
        /\ pushing \in Blocks \cup {NoBlock} /\ pushing.frames \in Nat
        /\ blocks # << >> => Head(blocks).frames \in Nat
    <2>1. blocks # << >> => Head(blocks) \in Blocks
      BY TailFacts DEF TypeOK
    <2>2. \A b \in Blocks : b.frames \in Nat
      BY DEF Blocks
    <2>3. NoBlock.frames = 0
      BY DEF NoBlock
    <2> QED BY <2>1, <2>2, <2>3 DEF TypeOK
  <1>1. CASE CallbackArrives
    <2> PICK frames \in BlockSizes :
          /\ offeredFrames' = offeredFrames + frames
          /\ PushTooLarge(frames) \/ PushRefused(frames) \/ PushLock(offered + 1, frames)
      BY <1>1 DEF CallbackArrives
    <2>1. frames \in Nat /\ consumed' = consumed /\ reported' = reported
      BY <1>1 DEF CallbackArrives, workerVars
    <2>2. CASE PushTooLarge(frames) \/ PushRefused(frames)
      <3>1. /\ bufferedFrames' = bufferedFrames /\ pushing' = pushing
            /\ droppedFrames' = droppedFrames + frames
        BY <2>2 DEF PushTooLarge, PushRefused, DropNew
      <3>2. offeredFrames' = offeredFrames + frames
        OBVIOUS
      <3> QED BY <1>0, <2>1, <3>1, <3>2
    <2>3. CASE PushLock(offered + 1, frames)
      <3>1. pushing.frames = 0 /\ pushing'.frames = frames
        BY <2>3 DEF PushLock, CanEnter, LockInv, NoBlock
      <3> QED BY <1>0, <2>1, <2>3, <3>1 DEF PushLock
    <2> QED BY <2>2, <2>3
  <1>2. CASE PushEvict /\ UNCHANGED <<sessionVars, workerVars>>
    <2>1. /\ offeredFrames' = offeredFrames /\ consumed' = consumed /\ reported' = reported
          /\ pushing' = pushing
      BY <1>2 DEF PushEvict, sessionVars, workerVars
    <2>2. /\ bufferedFrames' = bufferedFrames - Head(blocks).frames
          /\ droppedFrames' = droppedFrames + Head(blocks).frames
          /\ Head(blocks).frames \in Nat
      BY <1>0, <1>2 DEF PushEvict
    <2> DEFINE h == Head(blocks).frames
               p == pushing.frames
    <2>3. pushing'.frames = p /\ h \in Nat /\ p \in Nat
      BY <1>0, <2>1, <2>2
    <2>4. /\ offeredFrames = consumed + bufferedFrames + p + droppedFrames + reported
          /\ bufferedFrames' = bufferedFrames - h /\ droppedFrames' = droppedFrames + h
      BY <2>2
    <2> HIDE DEF h, p
    <2>5. offeredFrames' = consumed' + bufferedFrames' + p + droppedFrames' + reported'
      BY ONLY <1>0, <2>1, <2>3, <2>4
    <2> QED BY <2>3, <2>5
  <1>3. CASE PushAppend /\ UNCHANGED <<sessionVars, workerVars>>
    BY <1>0, <1>3 DEF PushAppend, sessionVars, workerVars, NoBlock
  <1>4. CASE ReportDrops \/ FinalReport
    BY <1>0, <1>4 DEF ReportDrops, FinalReport, TakeDropped, sessionVars
  <1>5. CASE PopBlock
    BY <1>0, <1>5 DEF PopBlock, PopSome, sessionVars
  <1>6. CASE Snapshot \/ PopLock \/ PopNothing \/ Discard \/ Send \/ CheckLock \/ Check
    BY <1>0, <1>6 DEF Snapshot, PopLock, PopNothing, Discard, Send, CheckLock,
       Check, WaitForLock, Unlock, queueVars, sessionVars
  <1>7. CASE Stop \/ SessionStep \/ Toggle \/ UNCHANGED vars
    BY <1>0, <1>7 DEF Stop, SessionStep, DropStream, CloseLock, CloseQueue, Join,
       Toggle, WaitForLock, Close, queueVars, sessionVars, workerVars, vars
  <1> QED
    BY <1>1, <1>2, <1>3, <1>4, <1>5, <1>6, <1>7
    DEF Next, WorkerStep, CallbackContinues

(* Nothing arrives behind the worker's back once it leaves its loop.       *)
LEMMA DrainStep ==
  ASSUME CaptureIInv, [Next]_vars
  PROVE  DrainInv'
  <1> USE DEF CaptureIInv, DrainInv
  <1>1. CASE CallbackArrives
    <2>1. streaming /\ ~ closed
      BY <1>1 DEF CallbackArrives, LockInv
    <2> QED
      BY <1>1, <2>1 DEF CallbackArrives, PushTooLarge, PushRefused, PushLock, DropNew,
         workerVars
  <1>2. CASE CallbackContinues
    <2>1. ~ closed
      BY <1>2 DEF CallbackContinues, PushEvict, PushAppend, LockInv
    <2> QED BY <1>2, <2>1 DEF CallbackContinues, sessionVars, workerVars
  <1>3. CASE ReportDrops
    BY <1>3 DEF ReportDrops, TakeDropped, sessionVars
  <1>4. CASE Snapshot \/ PopLock \/ PopNothing \/ Discard \/ Send \/ CheckLock
    BY <1>4 DEF Snapshot, PopLock, PopNothing, Discard, Send, CheckLock, Goto,
       WaitForLock, Unlock, queueVars, sessionVars
  <1>5. CASE PopBlock
    BY <1>5 DEF PopBlock, PopSome, Goto, sessionVars
  <1>6. CASE Check
    BY <1>6 DEF Check, Unlock, Goto, sessionVars
  <1>7. CASE FinalReport
    BY <1>7 DEF FinalReport, TakeDropped, Goto, sessionVars
  <1>8. CASE Stop \/ SessionStep \/ Toggle \/ UNCHANGED vars
    BY <1>8 DEF Stop, SessionStep, DropStream, CloseLock, CloseQueue, Join,
       Toggle, WaitForLock, Close, queueVars, sessionVars, workerVars, vars
  <1> QED
    BY <1>1, <1>2, <1>3, <1>4, <1>5, <1>6, <1>7, <1>8 DEF Next, WorkerStep

(* A block is sent to nobody at most once.                                 *)
LEMMA GatingStep ==
  ASSUME CaptureIInv, [Next]_vars
  PROVE  GatingInv'
  <1> USE DEF CaptureIInv, GatingInv
  <1>1. CASE Send
    BY <1>1 DEF Send, Goto, sessionVars
  <1>2. CASE Toggle
    BY <1>2 DEF Toggle
  <1>3. CASE WorkerStep /\ ~ Send
    BY <1>3 DEF WorkerStep, Snapshot, PopLock, PopBlock, PopNothing, Discard,
       CheckLock, Check, FinalReport, Goto, sessionVars
  <1>4. CASE CallbackArrives \/ CallbackContinues \/ ReportDrops
    BY <1>4 DEF CallbackArrives, CallbackContinues, ReportDrops, sessionVars, workerVars
  <1>5. CASE Stop \/ SessionStep \/ UNCHANGED vars
    BY <1>5 DEF Stop, SessionStep, DropStream, CloseLock, CloseQueue, Join,
       sessionVars, workerVars, vars
  <1> QED BY <1>1, <1>2, <1>3, <1>4, <1>5 DEF Next

(* Every variable keeps to its range.                                      *)
LEMMA TypeStep ==
  ASSUME CaptureIInv, [Next]_vars
  PROVE  TypeOK'
  <1> USE QueueAssumption, PublisherAssumption
  <1>0. TypeOK /\ LockInv
    BY DEF CaptureIInv
  <1>1. bufferedFrames' \in Nat
    BY LedgerStep
  <1>2. CASE CallbackArrives
    <2> PICK frames \in BlockSizes :
          /\ offeredFrames' = offeredFrames + frames
          /\ PushTooLarge(frames) \/ PushRefused(frames) \/ PushLock(offered + 1, frames)
      BY <1>2 DEF CallbackArrives
    <2>1. /\ offeredFrames' \in Nat /\ offered' \in 0 .. MaxBlocks
          /\ offered' = offered + 1 /\ offered + 1 \in 1 .. MaxBlocks
      BY <1>0, <1>2 DEF CallbackArrives, TypeOK
    <2>2. CASE PushTooLarge(frames) \/ PushRefused(frames)
      BY <1>0, <1>2, <2>1, <2>2
      DEF CallbackArrives, PushTooLarge, PushRefused, DropNew, workerVars, TypeOK
    <2>3. CASE PushLock(offered + 1, frames)
      <3>1. pushing' \in Blocks
        BY <1>0, <2>1, <2>3 DEF PushLock, Blocks, TypeOK
      <3> QED
        BY <1>0, <1>2, <2>1, <2>3, <3>1 DEF CallbackArrives, PushLock, workerVars, TypeOK
    <2> QED BY <2>2, <2>3
  <1>3. CASE CallbackContinues
    <2>1. UNCHANGED <<sessionVars, workerVars>>
      BY <1>3 DEF CallbackContinues
    <2>2. CASE PushEvict
      <3>1. blocks' \in Seq(Blocks) /\ Head(blocks).frames \in Nat
        <4>1. Head(blocks) \in Blocks /\ blocks' \in Seq(Blocks)
          BY <1>0, <2>2, TailFacts DEF PushEvict, TypeOK
        <4> QED BY <4>1 DEF Blocks
      <3>2. droppedFrames' \in Nat /\ recycled' \in 0 .. PoolLimit
        BY <1>0, <2>2, <3>1 DEF PushEvict, TypeOK
      <3> QED
        BY <1>0, <1>1, <2>1, <2>2, <3>1, <3>2
        DEF PushEvict, sessionVars, workerVars, TypeOK
    <2>3. CASE PushAppend
      <3>1. pushing \in Blocks /\ pushing.frames \in Nat
        BY <1>0, <2>3 DEF PushAppend, LockInv, Blocks
      <3>2. blocks' \in Seq(Blocks)
        BY <1>0, <2>3, <3>1, AppendFacts DEF PushAppend, TypeOK
      <3>3. accepted' \in Nat /\ recycled' \in 0 .. PoolLimit
        <4>1. accepted' \in Nat
          BY <1>0, <2>3, <3>1 DEF PushAppend, TypeOK
        <4>2. CASE recycled > 0
          BY <1>0, <2>3, <4>1, <4>2 DEF PushAppend, TypeOK
        <4>3. CASE ~ recycled > 0
          BY <1>0, <2>3, <4>1, <4>3 DEF PushAppend, TypeOK
        <4> QED BY <4>2, <4>3
      <3> QED
        BY <1>0, <1>1, <2>1, <2>3, <3>2, <3>3
        DEF PushAppend, sessionVars, workerVars, TypeOK
    <2> QED BY <1>3, <2>2, <2>3 DEF CallbackContinues
  <1>4. CASE ReportDrops
    BY <1>0, <1>4 DEF ReportDrops, TakeDropped, sessionVars, TypeOK
  <1>5. CASE PopBlock
    <2>1. Head(blocks) \in Blocks /\ blocks' \in Seq(Blocks)
      BY <1>0, <1>5, TailFacts DEF PopBlock, PopSome, TypeOK
    <2>2. Head(blocks).frames \in Nat
      BY <2>1 DEF Blocks
    <2> QED
      BY <1>0, <1>1, <1>5, <2>1, <2>2 DEF PopBlock, PopSome, Goto, sessionVars, TypeOK
  <1>6. CASE Send
    <2>1. inHand \in Blocks /\ inHand.frames \in Nat \ {0}
      BY <1>0, <1>6 DEF Send, Goto, LockInv, Blocks
    <2>2. wire' \in Seq([seq : Nat, stamp : 1 .. MaxBlocks, offset : Nat, frames : Nat])
      BY <1>0, <1>6, <2>1, PacketizeType DEF Send, TypeOK
    <2>3. nextSeq' \in Nat
      <3>1. PacketCount(inHand.frames) \in Nat
        BY <2>1, PacketCountFacts
      <3>2. nextSeq' = nextSeq + PacketCount(inHand.frames) /\ nextSeq \in Nat
        BY <1>0, <1>6 DEF Send, TypeOK
      <3> QED BY <3>1, <3>2
    <2> QED
      BY <1>0, <1>6, <2>2, <2>3 DEF Send, Goto, queueVars, sessionVars, TypeOK
  <1>7. CASE Snapshot \/ PopLock \/ PopNothing \/ Discard \/ CheckLock \/ Check
    <2>1. CASE Snapshot
      BY <1>0, <2>1 DEF Snapshot, Goto, queueVars, sessionVars, TypeOK
    <2>6. CASE Discard
      BY <1>0, <2>6 DEF Discard, Goto, queueVars, sessionVars, TypeOK
    <2>2. CASE PopLock
      BY <1>0, <2>2 DEF PopLock, WaitForLock, Goto, sessionVars, TypeOK
    <2>3. CASE CheckLock
      BY <1>0, <2>3 DEF CheckLock, WaitForLock, Goto, sessionVars, TypeOK
    <2>4. CASE PopNothing
      BY <1>0, <2>4 DEF PopNothing, Unlock, Goto, sessionVars, TypeOK
    <2>5. CASE Check
      BY <1>0, <2>5 DEF Check, Unlock, Goto, sessionVars, TypeOK
    <2> QED BY <1>7, <2>1, <2>2, <2>3, <2>4, <2>5, <2>6
  <1>8. CASE FinalReport
    BY <1>0, <1>8 DEF FinalReport, TakeDropped, Goto, sessionVars, TypeOK
  <1>9. CASE Stop \/ Toggle
    <2>1. CASE Stop
      <3>1. keepRunning' \in BOOLEAN
        BY <2>1 DEF Stop
      <3>2. UNCHANGED <<queueVars, workerVars, offered, offeredFrames, streaming,
                        session, subscribed, toggles>>
        BY <2>1 DEF Stop
      <3> QED BY <1>0, <3>1, <3>2 DEF queueVars, workerVars, TypeOK
    <2>2. CASE Toggle
      BY <1>0, <2>2 DEF Toggle, queueVars, TypeOK
    <2> QED BY <1>9, <2>1, <2>2
  <1>10. CASE SessionStep
    <2>1. CASE DropStream
      BY <1>0, <2>1 DEF DropStream, queueVars, workerVars, TypeOK
    <2>2. CASE CloseLock
      BY <1>0, <2>2 DEF CloseLock, WaitForLock, sessionVars, workerVars, TypeOK
    <2>3. CASE CloseQueue
      BY <1>0, <2>3 DEF CloseQueue, Close, workerVars, TypeOK
    <2>4. CASE Join
      BY <1>0, <2>4 DEF Join, queueVars, workerVars, TypeOK
    <2> QED BY <1>10, <2>1, <2>2, <2>3, <2>4 DEF SessionStep
  <1>11. CASE UNCHANGED vars
    BY <1>0, <1>11 DEF vars, queueVars, sessionVars, workerVars, TypeOK
  <1> QED
    BY <1>2, <1>3, <1>4, <1>5, <1>6, <1>7, <1>8, <1>9, <1>10, <1>11
    DEF Next, WorkerStep

(* The invariant is inductive.                                             *)
LEMMA CaptureKept == CaptureIInv /\ [Next]_vars => CaptureIInv'
  BY TypeStep, LockStep, LedgerStep, AccountStep, DrainStep, GatingStep DEF CaptureIInv

(* The inductive invariant holds in every state.                           *)
LEMMA CaptureInvariant == Spec => []CaptureIInv
  BY CaptureInitInv, CaptureKept, PTL DEF Spec

-----------------------------------------------------------------------------
(* Type correctness: in particular buffered_samples never underflows.      *)
THEOREM TypeCorrect == Spec => []TypeOK
  <1>1. CaptureIInv => TypeOK
    BY DEF CaptureIInv
  <1> QED BY CaptureInvariant, <1>1, PTL

(* buffered_samples is at all times the audio in the queued blocks, which  *)
(* are consecutive, and never exceeds the capacity.                        *)
THEOREM QueueBounded == Spec => []LatencyBounded
  <1>1. CaptureIInv => LatencyBounded
    BY DEF CaptureIInv, LedgerInv, CapacityKept, LatencyBounded
  <1> QED BY CaptureInvariant, <1>1, PTL

(* No frame the device delivered is lost without being counted.            *)
THEOREM NoFrameUncounted == Spec => []FramesAccounted
  <1>1. CaptureIInv => FramesAccounted
    BY DEF CaptureIInv
  <1> QED BY CaptureInvariant, <1>1, PTL

(* A session that ended has drained its queue and reported every drop.     *)
THEOREM SessionEndsClean == Spec => []NothingLeftBehind
  <1>1. CaptureIInv => NothingLeftBehind
    <2> SUFFICES ASSUME CaptureIInv, session = "done" PROVE NothingLeftBehind
      BY DEF NothingLeftBehind
    <2>1. workerPc = "done" /\ blocks = << >> /\ droppedFrames = 0
      BY DEF CaptureIInv, DrainInv
    <2>2. bufferedFrames = 0
      BY <2>1 DEF CaptureIInv, LedgerInv, CounterMatchesBlocks
    <2>3. lock = Free /\ pushing.frames = 0
      BY <2>1, QueueAssumption DEF CaptureIInv, LockInv, TypeOK, NoBlock
    <2> QED
      BY <2>1, <2>2, <2>3 DEF NothingLeftBehind, CaptureIInv, FramesAccounted, TypeOK
  <1> QED BY CaptureInvariant, <1>1, PTL

(* After the last subscriber left at most one more block is sent.          *)
THEOREM GatingPrompt == Spec => []GatingIsPrompt
  <1>1. CaptureIInv => GatingIsPrompt
    BY DEF CaptureIInv, GatingInv, GatingIsPrompt
  <1> QED BY CaptureInvariant, <1>1, PTL

-----------------------------------------------------------------------------
(* Order: blocks leave the queue in the order of the callbacks.            *)

OrderInv ==
  /\ \A i \in 1 .. Len(blocks) : inHand.id < blocks[i].id /\ blocks[i].id <= offered
  /\ \A i, j \in 1 .. Len(blocks) : i < j => blocks[i].id < blocks[j].id
  /\ lock = Callback =>
       /\ inHand.id < pushing.id /\ pushing.id <= offered
       /\ \A i \in 1 .. Len(blocks) : blocks[i].id < pushing.id
  /\ inHand.id <= offered

(* Only a callback makes numbers, and only a pop puts one in hand.         *)
LEMMA OrderUntouched ==
  ASSUME CaptureIInv, [Next]_vars, ~ CallbackArrives, ~ CallbackContinues, ~ PopBlock
  PROVE  /\ UNCHANGED <<blocks, inHand, offered, pushing>>
         /\ lock' = Callback => lock = Callback
  BY QueueAssumption DEF Next, vars, queueVars, sessionVars, workerVars, ReportDrops,
         TakeDropped, WorkerStep, Snapshot, PopLock, WaitForLock, PopNothing, Unlock,
         Discard, Send, CheckLock, Check, FinalReport, Stop, SessionStep, DropStream,
         CloseLock, CloseQueue, Close, Join, Toggle

(* Every step keeps the waiting numbers ascending, the one in hand first.  *)
LEMMA OrderStep ==
  ASSUME CaptureIInv, OrderInv, [Next]_vars
  PROVE  OrderInv'
  <1>0. /\ blocks \in Seq(Blocks) /\ Len(blocks) \in Nat /\ offered \in Nat
        /\ inHand.id \in Nat /\ pushing.id \in Nat
        /\ \A i \in 1 .. Len(blocks) : blocks[i].id \in Nat
    <2>1. /\ blocks \in Seq(Blocks) /\ offered \in Nat
          /\ inHand \in Blocks \cup {NoBlock} /\ pushing \in Blocks \cup {NoBlock}
      BY PublisherAssumption DEF CaptureIInv, TypeOK
    <2>2. \A b \in Blocks \cup {NoBlock} : b.id \in Nat
      BY PublisherAssumption DEF Blocks, NoBlock
    <2>3. \A i \in 1 .. Len(blocks) : blocks[i] \in Blocks
      BY <2>1, ElementOfSeq
    <2>4. Len(blocks) \in Nat
      BY <2>1, LenProperties
    <2> QED BY <2>1, <2>2, <2>3, <2>4
  <1>1. CASE CallbackArrives
    <2> PICK frames \in BlockSizes :
          PushTooLarge(frames) \/ PushRefused(frames) \/ PushLock(offered + 1, frames)
      BY <1>1 DEF CallbackArrives
    <2>1. offered' = offered + 1 /\ inHand' = inHand /\ blocks' = blocks /\ lock # Callback
      BY <1>1 DEF CallbackArrives, workerVars, PushTooLarge, PushRefused, PushLock, DropNew
    <2>2. lock' = Callback => pushing'.id = offered + 1
      BY <2>1 DEF PushTooLarge, PushRefused, PushLock, DropNew
    <2> QED BY <1>0, <2>1, <2>2 DEF OrderInv
  <1>2. CASE CallbackContinues
    <2>0. inHand' = inHand /\ offered' = offered
      BY <1>2 DEF CallbackContinues, workerVars, sessionVars
    <2>1. CASE PushEvict
      <3>1. /\ blocks' = Tail(blocks) /\ blocks # << >>
            /\ pushing' = pushing /\ lock' = lock
        BY <2>1 DEF PushEvict
      <3>2. /\ Len(blocks') = Len(blocks) - 1
            /\ \A i \in 1 .. Len(blocks') : blocks'[i] = blocks[i + 1]
        BY <1>0, <3>1, TailFacts
      <3> QED BY <1>0, <2>0, <3>1, <3>2 DEF OrderInv
    <2>2. CASE PushAppend
      <3>1. /\ blocks' = Append(blocks, pushing) /\ pushing \in Blocks
            /\ lock = Callback /\ lock' = Free /\ Free # Callback
        BY <2>2, QueueAssumption DEF PushAppend, CaptureIInv, LockInv
      <3>2. /\ Len(blocks') = Len(blocks) + 1 /\ blocks'[Len(blocks) + 1] = pushing
            /\ \A i \in 1 .. Len(blocks) : blocks'[i] = blocks[i]
        BY <1>0, <3>1, AppendFacts
      <3> QED BY <1>0, <2>0, <3>1, <3>2 DEF OrderInv
    <2> QED BY <1>2, <2>1, <2>2 DEF CallbackContinues
  <1>3. CASE PopBlock
    <2>1. /\ blocks' = Tail(blocks) /\ blocks # << >> /\ inHand' = Head(blocks)
          /\ offered' = offered /\ lock' = Free /\ Free # Callback
      BY <1>3, QueueAssumption DEF PopBlock, PopSome, sessionVars
    <2>2. /\ Len(blocks') = Len(blocks) - 1 /\ inHand' = blocks[1] /\ Len(blocks) > 0
          /\ \A i \in 1 .. Len(blocks') : blocks'[i] = blocks[i + 1]
      BY <1>0, <2>1, TailFacts
    <2> QED BY <1>0, <2>1, <2>2 DEF OrderInv
  <1>4. CASE ~ CallbackArrives /\ ~ CallbackContinues /\ ~ PopBlock
    BY <1>4, OrderUntouched DEF OrderInv
  <1> QED BY <1>1, <1>2, <1>3, <1>4

(* The numbers are in order in every state.                                *)
LEMMA OrderInvariant == Spec => []OrderInv
  <1>1. Init => OrderInv
    BY PublisherAssumption, QueueAssumption DEF Init, QueueInit, OrderInv, NoBlock
  <1>2. CaptureIInv /\ OrderInv /\ [Next]_vars => OrderInv'
    BY OrderStep
  <1> QED BY <1>1, <1>2, CaptureInvariant, PTL DEF Spec

-----------------------------------------------------------------------------
(* The packets of the block in hand cover it, wherever the worker is.      *)

Covers(packets, block) ==
  /\ packets[1].offset = 0
  /\ \A i \in 1 .. Len(packets) : packets[i].frames \in 1 .. PacketFrames
  /\ \A i \in 1 .. Len(packets) - 1 :
       /\ packets[i + 1].offset = packets[i].offset + packets[i].frames
       /\ packets[i + 1].seq = packets[i].seq + 1
  /\ packets[Len(packets)].offset + packets[Len(packets)].frames = block.frames

WireInv ==
  wire # << >> =>
    /\ wire[1].stamp \in Nat /\ wire[1].stamp <= inHand.id
    /\ wire[1].stamp = inHand.id =>
         Covers(wire, inHand) /\ wire[Len(wire)].seq + 1 = nextSeq

(* The packets of a block follow one another and end where it ends.        *)
LEMMA PacketizeCovers ==
  ASSUME NEW block \in Blocks, nextSeq \in Nat
  PROVE  LET packets == Packetize(block)
         IN  /\ Len(packets) = PacketCount(block.frames)
             /\ packets[1].stamp = block.id
             /\ Covers(packets, block)
             /\ packets[Len(packets)].seq + 1 = nextSeq + PacketCount(block.frames)
  <1> DEFINE n == PacketCount(block.frames)
             F == block.frames
             P == PacketFrames
             packets == Packetize(block)
  <1>1. F \in Nat \ {0} /\ P \in Nat \ {0}
    BY QueueAssumption, PublisherAssumption DEF Blocks
  <1>2. n \in Nat \ {0} /\ n * P >= F /\ (n - 1) * P < F
    BY <1>1, PacketCountFacts
  <1>3. Len(packets) = n
    BY <1>2 DEF Packetize
  <1>4. ASSUME NEW i \in 1 .. n
        PROVE  /\ packets[i].seq = nextSeq + i - 1
               /\ packets[i].stamp = block.id
               /\ packets[i].offset = (i - 1) * P
               /\ packets[i].frames = IF i * P <= F THEN P ELSE F - (i - 1) * P
    BY DEF Packetize
  <1>5. ASSUME NEW i \in 1 .. n
        PROVE  /\ (i - 1) * P \in 0 .. F - 1
               /\ i * P = (i - 1) * P + P
               /\ i < n => i * P < F
    <2>1. (i - 1) * P \in 0 .. F - 1 /\ (i < n => i * P < F)
      BY <1>1, PacketStarts
    <2>2. i * P = (i - 1) * P + P
      BY <1>1, <1>2, SMTT(30)
    <2> QED BY <2>1, <2>2
  <1>6. ASSUME NEW i \in 1 .. n PROVE packets[i].frames \in 1 .. P
    <2> DEFINE o == (i - 1) * P
               e == i * P
    <2>1. o \in 0 .. F - 1 /\ e = o + P
      BY <1>5
    <2>2. packets[i].frames = IF e <= F THEN P ELSE F - o
      BY <1>4
    <2> HIDE DEF o, e
    <2> QED BY <1>1, <2>1, <2>2
  <1>7. ASSUME NEW i \in 1 .. n - 1
        PROVE  /\ packets[i + 1].offset = packets[i].offset + packets[i].frames
               /\ packets[i + 1].seq = packets[i].seq + 1
    <2>1. i \in 1 .. n /\ i + 1 \in 1 .. n /\ i < n /\ (i + 1) - 1 = i
      BY <1>2
    <2>2. packets[i + 1].offset = i * P /\ packets[i + 1].seq = nextSeq + i
      BY <1>4, <2>1
    <2>3. packets[i].frames = P
      BY <1>1, <1>4, <1>5, <2>1
    <2>4. packets[i].offset = (i - 1) * P /\ packets[i].seq = nextSeq + i - 1
      BY <1>4, <2>1
    <2>5. i * P = (i - 1) * P + P
      BY <1>5, <2>1
    <2>6. packets[i + 1].offset = packets[i].offset + packets[i].frames
      BY <2>2, <2>3, <2>4, <2>5, Zenon
    <2> QED BY <2>1, <2>2, <2>4, <2>6
  <1>8. packets[n].offset + packets[n].frames = F /\ packets[n].seq + 1 = nextSeq + n
    <2> DEFINE o == (n - 1) * P
               e == n * P
    <2>1. o \in 0 .. F - 1 /\ e = o + P /\ e >= F
      BY <1>2, <1>5
    <2>2. /\ packets[n].frames = IF e <= F THEN P ELSE F - o
          /\ packets[n].offset = o /\ packets[n].seq = nextSeq + n - 1
      BY <1>2, <1>4
    <2> HIDE DEF o, e
    <2>3. packets[n].offset + packets[n].frames = F
      BY <1>1, <2>1, <2>2
    <2>4. packets[n].seq + 1 = nextSeq + n
      BY <1>2, <2>2
    <2> QED BY <2>3, <2>4
  <1>9. packets[1].offset = 0 /\ packets[1].stamp = block.id
    <2>1. 1 \in 1 .. n /\ (1 - 1) * P = 0
      BY <1>1, <1>2
    <2> QED BY <1>4, <2>1
  <1> HIDE DEF n, F, P, packets
  <1>10. /\ Len(packets) = n /\ packets[1].stamp = block.id
         /\ packets[Len(packets)].seq + 1 = nextSeq + n
         /\ Covers(packets, block)
    BY <1>2, <1>3, <1>6, <1>7, <1>8, <1>9 DEF Covers, P, F
  <1> QED BY <1>10 DEF n, packets

(* Every step keeps what is on the wire a cover of its block.              *)
LEMMA WireStep ==
  ASSUME CaptureIInv, OrderInv, WireInv, [Next]_vars
  PROVE  WireInv'
  <1>0. inHand.id \in Nat /\ nextSeq \in Nat
    <2>1. \A b \in Blocks \cup {NoBlock} : b.id \in Nat
      BY PublisherAssumption DEF Blocks, NoBlock
    <2> QED BY <2>1 DEF CaptureIInv, TypeOK
  <1>1. CASE Send
    <2>1. inHand \in Blocks /\ inHand' = inHand
      BY <1>1 DEF Send, Goto, CaptureIInv, LockInv
    <2>2. wire' = Packetize(inHand) /\ nextSeq' = nextSeq + PacketCount(inHand.frames)
      BY <1>1 DEF Send
    <2>3. /\ wire'[1].stamp = inHand.id /\ Covers(wire', inHand)
          /\ wire'[Len(wire')].seq + 1 = nextSeq'
      BY <1>0, <2>1, <2>2, PacketizeCovers
    <2> QED BY <1>0, <2>1, <2>3 DEF WireInv
  <1>2. CASE PopBlock
    <2>1. blocks \in Seq(Blocks) /\ blocks # << >> /\ inHand' = Head(blocks) /\ wire' = wire
      BY <1>2 DEF PopBlock, PopSome, CaptureIInv, TypeOK
    <2>2. inHand' = blocks[1] /\ 1 \in 1 .. Len(blocks) /\ blocks[1] \in Blocks
      BY <2>1, TailFacts
    <2>3. inHand.id < inHand'.id /\ inHand'.id \in Nat
      BY <2>2, PublisherAssumption DEF OrderInv, Blocks
    <2> QED BY <1>0, <2>1, <2>3 DEF WireInv
  <1>3. CASE ~ Send /\ ~ PopBlock
    <2>1. UNCHANGED <<wire, inHand, nextSeq>>
      BY <1>3 DEF Next, vars, workerVars, CallbackArrives, CallbackContinues, ReportDrops,
         WorkerStep, Snapshot, PopLock, PopNothing, Discard, CheckLock, Check,
         FinalReport, Stop, SessionStep, DropStream, CloseLock, CloseQueue, Join, Toggle
    <2> QED BY <2>1 DEF WireInv, Covers
  <1> QED BY <1>1, <1>2, <1>3

(* The packets of a block cover it without gap, overlap or empty packet.   *)
THEOREM PacketsCover == Spec => []PacketsCoverBlock
  <1>1. Init => WireInv
    BY DEF Init, WireInv
  <1>2. CaptureIInv /\ OrderInv /\ WireInv /\ [Next]_vars => WireInv'
    BY WireStep
  <1>3. WireInv => PacketsCoverBlock
    BY DEF WireInv, Covers, PacketsCoverBlock
  <1> QED BY <1>1, <1>2, <1>3, CaptureInvariant, OrderInvariant, PTL DEF Spec

-----------------------------------------------------------------------------
(* The queue implements LossyFifo.                                         *)

Ids(b) == [i \in 1 .. Len(b) |-> b[i].id]

(* The abstract queue is the sequence of the blocks' numbers.              *)
LEMMA IdsFacts ==
  ASSUME NEW b \in Seq(Blocks)
  PROVE  /\ Ids(b) \in Seq(Nat) /\ Len(Ids(b)) = Len(b)
         /\ b # << >> => Ids(b) # << >> /\ Head(Ids(b)) = b[1].id
         /\ \A i \in 1 .. Len(b) : Ids(b)[i] = b[i].id
         /\ Len(b) \in Nat
  <1>1. Len(b) \in Nat /\ \A i \in 1 .. Len(b) : b[i] \in Blocks
    BY LenProperties, ElementOfSeq
  <1>2. \A i \in 1 .. Len(b) : b[i].id \in Nat
    BY <1>1, PublisherAssumption DEF Blocks
  <1>3. Ids(b) \in [1 .. Len(b) -> Nat]
    BY <1>2 DEF Ids
  <1>4. Ids(b) \in Seq(Nat)
    BY <1>1, <1>3, FunctionIsSeq
  <1>5. Len(Ids(b)) = Len(b) /\ \A i \in 1 .. Len(b) : Ids(b)[i] = b[i].id
    BY <1>1 DEF Ids
  <1>6. ASSUME b # << >> PROVE Ids(b) # << >> /\ Head(Ids(b)) = b[1].id
    <2>1. Len(b) > 0
      BY <1>6, TailFacts
    <2>2. Ids(b) # << >>
      BY <1>5, <2>1
    <2> QED BY <1>1, <1>4, <1>5, <2>1, <2>2, TailFacts
  <1> QED BY <1>1, <1>4, <1>5, <1>6

(* Taking the first block takes the first number.                          *)
LEMMA IdsTail ==
  ASSUME NEW b \in Seq(Blocks), b # << >>
  PROVE  Ids(Tail(b)) = Tail(Ids(b))
  <1>1. /\ Tail(b) \in Seq(Blocks) /\ Len(Tail(b)) = Len(b) - 1
        /\ \A i \in 1 .. Len(b) - 1 : Tail(b)[i] = b[i + 1]
    BY TailFacts
  <1>2. /\ Tail(Ids(b)) \in Seq(Nat) /\ Len(Tail(Ids(b))) = Len(b) - 1
        /\ \A i \in 1 .. Len(b) - 1 : Tail(Ids(b))[i] = Ids(b)[i + 1]
    BY IdsFacts, TailFacts
  <1>3. /\ Ids(Tail(b)) \in Seq(Nat) /\ Len(Ids(Tail(b))) = Len(b) - 1
        /\ \A i \in 1 .. Len(b) - 1 : Ids(Tail(b))[i] = Tail(b)[i].id
    BY <1>1, IdsFacts
  <1>4. \A i \in 1 .. Len(b) - 1 : Ids(Tail(b))[i] = Tail(Ids(b))[i]
    BY <1>1, <1>2, <1>3, IdsFacts
  <1> QED BY <1>2, <1>3, <1>4, SeqEqual

(* Every step is a step of the lossy FIFO, or leaves it as it is.          *)
LEMMA FifoStep ==
  ASSUME CaptureIInv, OrderInv, [Next]_vars
  PROVE  Fifo!Next \/ UNCHANGED Fifo!fifoVars
  <1>0. blocks \in Seq(Blocks)
    BY DEF CaptureIInv, TypeOK
  <1>1. CASE PushEvict /\ UNCHANGED workerVars
    <2>1. blocks # << >> /\ blocks' = Tail(blocks) /\ inHand' = inHand
      BY <1>1 DEF PushEvict, workerVars
    <2>2. Ids(blocks) # << >> /\ Ids(blocks') = Tail(Ids(blocks))
      BY <1>0, <2>1, IdsFacts, IdsTail
    <2> QED BY <2>1, <2>2 DEF Fifo!Next, Fifo!LoseOldest, Ids
  <1>2. CASE PopBlock
    <2>1. blocks # << >> /\ blocks' = Tail(blocks) /\ inHand' = Head(blocks)
      BY <1>2 DEF PopBlock, PopSome
    <2>2. /\ Ids(blocks) # << >> /\ Ids(blocks') = Tail(Ids(blocks))
          /\ inHand'.id = Head(Ids(blocks))
      BY <1>0, <2>1, IdsFacts, IdsTail, TailFacts
    <2>3. inHand'.id > inHand.id
      <3>1. inHand' = blocks[1] /\ 1 \in 1 .. Len(blocks)
        BY <1>0, <2>1, TailFacts
      <3> QED BY <3>1 DEF OrderInv
    <2> QED BY <2>2, <2>3 DEF Fifo!Next, Fifo!Take, Ids
  <1>3. CASE PushAppend /\ UNCHANGED workerVars
    <2>1. /\ blocks' = Append(blocks, pushing) /\ inHand' = inHand
          /\ pushing \in Blocks /\ lock = Callback
      BY <1>3 DEF PushAppend, workerVars, CaptureIInv, LockInv
    <2>2. /\ blocks' \in Seq(Blocks) /\ Len(blocks') = Len(blocks) + 1
          /\ blocks'[Len(blocks) + 1] = pushing
          /\ \A i \in 1 .. Len(blocks) : blocks'[i] = blocks[i]
      BY <1>0, <2>1, AppendFacts
    <2>3. /\ Len(Ids(blocks')) = Len(Ids(blocks)) + 1 /\ Len(Ids(blocks)) = Len(blocks)
          /\ Ids(blocks')[Len(Ids(blocks'))] = pushing.id
          /\ \A i \in 1 .. Len(blocks) : Ids(blocks')[i] = Ids(blocks)[i]
          /\ Len(blocks) \in Nat
      <3>1. /\ Len(Ids(blocks')) = Len(blocks')
            /\ \A i \in 1 .. Len(blocks') : Ids(blocks')[i] = blocks'[i].id
        BY <2>2, IdsFacts
      <3>2. /\ Len(Ids(blocks)) = Len(blocks) /\ Len(blocks) \in Nat
            /\ \A i \in 1 .. Len(blocks) : Ids(blocks)[i] = blocks[i].id
        BY <1>0, IdsFacts
      <3>3. Len(blocks) + 1 \in 1 .. Len(blocks') /\ 1 .. Len(blocks) \subseteq 1 .. Len(blocks')
        BY <2>2, <3>2
      <3> QED BY <2>2, <3>1, <3>2, <3>3
    <2>4. SubSeq(Ids(blocks'), 1, Len(Ids(blocks))) = Ids(blocks)
      <3>1. Ids(blocks) \in Seq(Nat) /\ Ids(blocks') \in Seq(Nat)
        BY <1>0, <2>2, IdsFacts
      <3>2. \A i \in 1 .. Len(blocks) : Ids(blocks')[i] \in Nat
        BY <2>3, <3>1, ElementOfSeq
      <3>3. /\ SubSeq(Ids(blocks'), 1, Len(blocks)) \in Seq(Nat)
            /\ Len(SubSeq(Ids(blocks'), 1, Len(blocks))) = Len(blocks)
            /\ \A i \in 1 .. Len(blocks) :
                 SubSeq(Ids(blocks'), 1, Len(blocks))[i] = Ids(blocks')[i]
        BY <2>3, <3>2, SubSeqProperties
      <3> QED BY <2>3, <3>1, <3>3, SeqEqual
    <2>5. /\ \A i \in 1 .. Len(Ids(blocks)) : Ids(blocks)[i] < pushing.id
          /\ inHand.id < pushing.id
      BY <1>0, <2>1, <2>3, IdsFacts DEF OrderInv
    <2> QED BY <2>1, <2>3, <2>4, <2>5 DEF Fifo!Next, Fifo!Accept, Ids
  <1>4. CASE ~ CallbackContinues /\ ~ PopBlock
    <2>1. blocks' = blocks /\ inHand' = inHand
      <3>1. CASE CallbackArrives
        BY <1>4, <3>1, QueueUntouched DEF CallbackArrives, workerVars
      <3>2. CASE ~ CallbackArrives
        BY <1>4, <3>2, OrderUntouched
      <3> QED BY <3>1, <3>2
    <2> QED BY <2>1 DEF Fifo!fifoVars
  <1> QED BY <1>1, <1>2, <1>3, <1>4 DEF CallbackContinues

(* Seen from its consumer the queue is a lossy FIFO.                       *)
THEOREM ImplementsLossyFifo == Spec => QueueIsLossyFifo
  <1>1. Init => Fifo!Init
    BY DEF Init, QueueInit, Fifo!Init, NoBlock
  <1>2. CaptureIInv /\ OrderInv /\ [Next]_vars => [Fifo!Next]_Fifo!fifoVars
    BY FifoStep
  <1> QED BY <1>1, <1>2, CaptureInvariant, OrderInvariant, PTL DEF Spec, QueueIsLossyFifo, Fifo!Spec

=============================================================================
