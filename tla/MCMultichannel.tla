---------------------------- MODULE MCMultichannel ----------------------------
(***************************************************************************)
(* The components that handle several channels, for TLC: the combining     *)
(* publisher, the ASIO publisher, ASIO playback and the split receiver.    *)
(* They are independent of one another; `side' says which one runs, the    *)
(* others stay in their initial states.                                    *)
(***************************************************************************)
EXTENDS CombinePublisher, AsioPublisher, AsioPlayback, SplitReceiver

VARIABLE side

allVars == <<vars, txAll, playbackVars, splitVars, side>>

MultiInit ==
  /\ Init /\ TxInit /\ PlaybackInit /\ SplitInit
  /\ side \in {"combine", "publish", "play", "split"}

MultiNext ==
  /\ UNCHANGED side
  /\ \/ side = "combine" /\ Next /\ UNCHANGED <<txAll, playbackVars, splitVars>>
     \/ side = "publish" /\ TxNext /\ UNCHANGED <<vars, playbackVars, splitVars>>
     \/ side = "play" /\ PlaybackNext /\ UNCHANGED <<vars, txAll, splitVars>>
     \/ side = "split" /\ SplitNext /\ UNCHANGED <<vars, txAll, playbackVars>>

(* Only the component that runs can be asked to go on.                     *)
MultiFairness ==
  /\ WF_allVars(side = "combine" /\ Worker /\ UNCHANGED <<txAll, playbackVars, splitVars, side>>)
  /\ WF_allVars(side = "publish" /\ TransmitLoop /\ UNCHANGED <<vars, playbackVars, splitVars, side>>)
  /\ PlaybackFairness
  /\ SplitFairness

MultiSpec == MultiInit /\ [][MultiNext]_allVars /\ MultiFairness

(* All of them go on: what can be combined is, and a stop is an end.       *)
WorkersGoOn == ReadyIsCombined /\ TransmitStops /\ PlaybackStops /\ SplitStops

(* At the playing end the audio stays whole however it arrives: in ASIO    *)
(* playback channels move together and latency is bounded (its clock       *)
(* correction may repeat a frame); what the split receiver has for a       *)
(* device is cut at the old end only, so it plays no frame twice.          *)
PlayoutWhole == PlayedWhole /\ SplitIsSuffix

SelectedChannels == <<3, 1>>
RoutedChannels == <<"left", "right", "left">>

=============================================================================
