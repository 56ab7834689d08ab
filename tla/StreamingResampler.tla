-------------------------- MODULE StreamingResampler --------------------------
(***************************************************************************)
(* StreamingLinearResampler (stream_control.rs): a stream that arrives in  *)
(* packets at one rate is played at another.  Between calls it keeps the   *)
(* frames not used up and the fractional position of the next output.      *)
(*                                                                         *)
(* Positions are whole numbers in units of 1/outputRate of an input frame, *)
(* so that the step from one output to the next is inputRate.  The code    *)
(* computes them in f64; what that rounds is left out.  The sound, one     *)
(* linear interpolation, is left out.                                      *)
(***************************************************************************)
EXTENDS Integers

CONSTANTS
  Rates,            \* sample rates of sources and devices
  PacketSizes,      \* frames a call may bring
  MaxIn             \* bound: input frames of a run

ASSUME ResamplerAssumption ==
  /\ Rates \subseteq Nat \ {0} /\ PacketSizes \subseteq Nat \ {0} /\ MaxIn \in Nat

VARIABLES
  inputRate, outputRate,
  resamplePc,       \* "idle" between two calls, "emit" in process's loop
  phase,            \* position of the next output in the pending frames
  available,        \* pending frames
  arrived,          \* input frames so far
  drained,         \* input frames used up
  outputs           \* output frames so far

resampleVars == <<inputRate, outputRate, resamplePc, phase, available, arrived,
                  drained, outputs>>

ResampleInit ==
  /\ inputRate \in Rates /\ outputRate \in Rates
  /\ resamplePc = "idle" /\ phase = 0 /\ available = 0
  /\ arrived = 0 /\ drained = 0 /\ outputs = 0

(* Equal rates: the input is the output, nothing is kept.                  *)
PassThrough ==
  /\ resamplePc = "idle"
  /\ inputRate = outputRate /\ available = 0
  /\ \E n \in PacketSizes :
       /\ arrived + n <= MaxIn
       /\ arrived' = arrived + n
       /\ drained' = drained + n
       /\ outputs' = outputs + n
  /\ UNCHANGED <<inputRate, outputRate, resamplePc, phase, available>>

BeginProcess ==
  /\ resamplePc = "idle"
  /\ ~ (inputRate = outputRate /\ available = 0)
  /\ \E n \in PacketSizes :
       /\ arrived + n <= MaxIn
       /\ arrived' = arrived + n
       /\ available' = available + n
  /\ resamplePc' = "emit"
  /\ UNCHANGED <<inputRate, outputRate, phase, drained, outputs>>

-----------------------------------------------------------------------------
First == phase \div outputRate
Fraction == phase % outputRate

(* Faulty variant: the last frame stands in for the one still to come.     *)
Reachable_AtEdge == First < available

(* An output lies on a pending frame or between two of them: between the   *)
(* last one and what has not arrived yet there is nothing to interpolate.  *)
Reachable == First < available /\ (First + 1 < available \/ Fraction = 0)

Emit ==
  /\ resamplePc = "emit"
  /\ Reachable
  /\ outputs' = outputs + 1
  /\ phase' = phase + inputRate
  /\ UNCHANGED <<inputRate, outputRate, resamplePc, available, arrived, drained>>

(* Faulty variant: the last frame goes too.                                *)
Used_All == available

(* Used frames are drained, but the last one is kept: the next output may  *)
(* lie between it and the next packet's first.                             *)
Used == IF First < available - 1 THEN First ELSE available - 1

EndProcess ==
  /\ resamplePc = "emit"
  /\ ~ Reachable
  /\ resamplePc' = "idle"
  /\ available' = available - Used
  /\ drained' = drained + Used
  /\ phase' = phase - Used * outputRate
  /\ UNCHANGED <<inputRate, outputRate, arrived, outputs>>

ResampleNext == PassThrough \/ BeginProcess \/ Emit \/ EndProcess

ResampleSpec == ResampleInit /\ [][ResampleNext]_resampleVars

-----------------------------------------------------------------------------
(* Output k lies exactly at k * inputRate / outputRate input frames,       *)
(* however the stream was cut into packets: no edge sample is used twice,  *)
(* none is left out, the position never lies before the pending frames, and*)
(* nothing is played of what has not arrived.                              *)
InPlace ==
  /\ drained * outputRate + phase = outputs * inputRate
  /\ phase >= 0
  /\ drained + available = arrived
  /\ outputs > 0 => (outputs - 1) * inputRate <= (arrived - 1) * outputRate

(* Between calls, everything that could be played has been: the next       *)
(* output lies past the newest frame, and the frames used have been drained*)
(* up to the newest, so neither delay nor memory grows.                    *)
UpToDate ==
  resamplePc = "idle" /\ arrived > 0 =>
    /\ outputs * inputRate > (arrived - 1) * outputRate
    /\ available <= 1

ResampledInPlace == InPlace /\ UpToDate

=============================================================================
