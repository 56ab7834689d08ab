------------------------------ MODULE MCPublishers ------------------------------
(***************************************************************************)
(* The publishing components for TLC: a capture session, the Opus path of  *)
(* its worker, the test tone publisher and the panel that starts it, a     *)
(* recording, the resampler of the receiving side and the signal meters.   *)
(* They are independent of one another; `side' says which one runs, the    *)
(* others stay in one initial state.                                       *)
(***************************************************************************)
EXTENDS CapturePublisher, OpusPublisher, DiagnosticPublisher, DiagnosticPanel,
        Recording, StreamingResampler, SignalMeters

VARIABLE side

codecVars == <<opusVars, toneVars, resampleVars>>
serviceVars == <<panelVars, recordVars, meterVars>>
allVars == <<vars, codecVars, serviceVars, side>>

PublishersInit ==
  /\ Init /\ OpusInit /\ ToneInit /\ PanelInit /\ RecordInit /\ ResampleInit /\ MetersInit
  /\ side \in {"capture", "opus", "tone", "panel", "record", "resample", "meters"}
  /\ side # "tone" => ~ useOpus
  /\ side # "record" => ~ flac
  /\ side # "resample" => inputRate = 1 /\ outputRate = 1

PublishersNext ==
  /\ UNCHANGED side
  /\ \/ side = "capture" /\ Next /\ UNCHANGED <<codecVars, serviceVars>>
     \/ side = "opus" /\ OpusNext /\ UNCHANGED <<vars, toneVars, resampleVars, serviceVars>>
     \/ side = "tone" /\ ToneNext /\ UNCHANGED <<vars, opusVars, resampleVars, serviceVars>>
     \/ side = "resample" /\ ResampleNext /\ UNCHANGED <<vars, opusVars, toneVars, serviceVars>>
     \/ side = "panel" /\ PanelNext /\ UNCHANGED <<vars, codecVars, recordVars, meterVars>>
     \/ side = "record" /\ RecordNext /\ UNCHANGED <<vars, codecVars, panelVars, meterVars>>
     \/ side = "meters" /\ MetersNext /\ UNCHANGED <<vars, codecVars, panelVars, recordVars>>

(* The threads run, as FairSpec says of a capture session; nothing forces  *)
(* a callback, a subscriber, a button or a block of samples to come.       *)
CaptureStep(A) == side = "capture" /\ A /\ UNCHANGED <<codecVars, serviceVars, side>>
RecordStep(A) ==
  side = "record" /\ A /\ UNCHANGED <<vars, codecVars, panelVars, meterVars, side>>
PanelStep(A) ==
  side = "panel" /\ A /\ UNCHANGED <<vars, codecVars, recordVars, meterVars, side>>

PublishersFairness ==
  /\ WF_allVars(CaptureStep(CallbackContinues))
  /\ WF_allVars(CaptureStep(WorkerStep))
  /\ SF_allVars(CaptureStep(SessionStep))
  /\ WF_allVars(RecordStep(DiskStep))
  /\ SF_allVars(RecordStep(FinalizeStep))
  /\ \A w \in Writers : WF_allVars(RecordStep(WriteEnds(w)))
  /\ \A r \in Runs : WF_allVars(PanelStep(ThreadEnds(r)))

PublishersSpec == PublishersInit /\ [][PublishersNext]_allVars /\ PublishersFairness

(* What is published keeps time: Opus packets and test tones are numbered, *)
(* stamped and filled so that a receiver can tell what is missing.         *)
StreamsKeepTime == OpusWhole /\ DiagnosticPaced

(* Samples are neither lost nor moved behind the publisher's back: those   *)
(* recorded are in the file, those resampled in their place.               *)
SamplesKept == RecordedWhole /\ ResampledInPlace

(* What the desktop application shows of its sessions is so.               *)
MonitorIsTrue == RunningIsMonitored /\ PeaksKept /\ RunningIsPublished

(* What is stopped, ends: sessions, recordings, tests.                     *)
StopsEnd == StopEnds /\ FinalizeEnds /\ RemovedTestEnds

SessionNames == [s1 |-> "publish", s2 |-> "publish"]
SessionThreads == [t1 |-> "s2", t2 |-> "s2"]

=============================================================================
