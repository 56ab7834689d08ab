----------------------------- MODULE AsioPlayback -----------------------------
(***************************************************************************)
(* Playback of a stream through an ASIO driver (audio-core,                *)
(* asio_subscribe.rs).  The session thread waits for a first packet, opens *)
(* the driver, primes the shared buffer, and then appends every packet,    *)
(* corrects the clock by a frame, adapts its target and trims, each in a   *)
(* lock section of its own; the driver's callback pops frames in between   *)
(* and routes every channel to an output.                                  *)
(*                                                                         *)
(* A sample is a pair of its frame and its channel; packets have           *)
(* PacketFrames frames and arrive in any order, late or never.  Packets of *)
(* other streams and formats, which change nothing, and resampling are     *)
(* left out.                                                               *)
(***************************************************************************)
EXTENDS Integers, Sequences

CONSTANTS
  Routes,        \* output_routes: per channel an output, or Muted
  Outputs, Muted,
  PacketFrames,
  Targets,       \* values of jitter_controller.target_frames
  CapFrames,     \* max_buffered_frames: 200 ms
  Packets,       \* bound: numbers of packets
  CallbackFrames \* frames of one callback

Channels == Len(Routes)

(* validate_routes                                                         *)
ASSUME AsioPlaybackAssumption ==
  /\ Routes \in Seq(Outputs \cup {Muted}) /\ Channels > 0
  /\ \E c \in 1 .. Channels : Routes[c] # Muted
  /\ PacketFrames \in Nat \ {0} /\ CallbackFrames \in Nat \ {0} /\ CapFrames \in Nat
  /\ \A t \in Targets : t \in Nat /\ t + PacketFrames <= CapFrames
  /\ Packets \subseteq Nat \ {0}

VARIABLES
  buffer,        \* audio_buffer
  sessionPc,     \* where receive_and_play_asio is
  target,
  toCome,        \* packets still under way
  streamOpen,
  recording,     \* "none", "open", "final"
  rendered,      \* the last callback's frames: per output the samples mixed
  playing        \* keep_running

playbackVars == <<buffer, sessionPc, target, toCome, streamOpen, recording, rendered, playing>>

Samples(p) ==
  [i \in 1 .. PacketFrames * Channels |->
     <<(p - 1) * PacketFrames + 1 + ((i - 1) \div Channels), 1 + ((i - 1) % Channels)>>]

Least(a, b) == IF a < b THEN a ELSE b

-----------------------------------------------------------------------------
(* wait_for_first_packet, and the driver.                                  *)

FirstPacket(p) ==
  /\ sessionPc = "first" /\ playing /\ p \in toCome
  /\ buffer' = Samples(p) /\ toCome' = toCome \ {p}
  /\ sessionPc' = "open"
  /\ UNCHANGED <<target, streamOpen, recording, rendered, playing>>

(* A packet that is not Float32 ends the session with an error; so does a  *)
(* stop before the first packet.                                           *)
NoFirstPacket ==
  /\ sessionPc \in {"first", "prime"}
  /\ sessionPc' = "failed"
  /\ UNCHANGED <<buffer, target, toCome, streamOpen, recording, rendered, playing>>

OpenDriver(record) ==
  /\ sessionPc = "open"
  /\ recording' = IF record THEN "open" ELSE "none"
  /\ target' \in Targets
  /\ sessionPc' = "prime"
  /\ UNCHANGED <<buffer, toCome, streamOpen, rendered, playing>>

DriverRefused ==
  /\ sessionPc \in {"open", "start"}
  /\ sessionPc' = "failed"
  /\ UNCHANGED <<buffer, target, toCome, streamOpen, recording, rendered, playing>>

-----------------------------------------------------------------------------
(* prime_buffer                                                            *)

PrimePacket(p) ==
  /\ sessionPc = "prime" /\ playing /\ p \in toCome
  /\ Len(buffer) < target * Channels
  /\ buffer' = buffer \o Samples(p) /\ toCome' = toCome \ {p}
  /\ UNCHANGED <<sessionPc, target, streamOpen, recording, rendered, playing>>

(* Enough is buffered, the deadline has passed, or the session was stopped.*)
PrimeEnds ==
  /\ sessionPc = "prime"
  /\ sessionPc' = IF playing THEN "start" ELSE "finalise"
  /\ UNCHANGED <<buffer, target, toCome, streamOpen, recording, rendered, playing>>

StartStream ==
  /\ sessionPc = "start"
  /\ streamOpen' = TRUE
  /\ sessionPc' = "receive"
  /\ UNCHANGED <<buffer, target, toCome, recording, rendered, playing>>

-----------------------------------------------------------------------------
(* run_receive_loop                                                        *)

ReceiveAudio(p) ==
  /\ sessionPc = "receive" /\ playing /\ p \in toCome
  /\ buffer' = buffer \o Samples(p) /\ toCome' = toCome \ {p}
  /\ sessionPc' = "correct"
  /\ UNCHANGED <<target, streamOpen, recording, rendered, playing>>

(* Faulty variant: a single sample is dropped.                             *)
Corrected_OneSample == {buffer, IF buffer = << >> THEN buffer ELSE Tail(buffer)}

(* apply_clock_correction: nothing, the oldest frame is dropped, or a copy *)
(* of the oldest frame is put behind the newest.                           *)
Corrected ==
  {buffer,
   SubSeq(buffer, Channels + 1, Len(buffer)),
   IF Len(buffer) >= Channels THEN buffer \o SubSeq(buffer, 1, Channels) ELSE buffer}

CorrectClock ==
  /\ sessionPc = "correct"
  /\ buffer' \in Corrected
  /\ sessionPc' = "adapt"
  /\ UNCHANGED <<target, toCome, streamOpen, recording, rendered, playing>>

Adapt ==
  /\ sessionPc = "adapt"
  /\ target' \in Targets
  /\ sessionPc' = "trim"
  /\ UNCHANGED <<buffer, toCome, streamOpen, recording, rendered, playing>>

(* Faulty variant: the buffer is trimmed to the target alone, with no cap. *)
TrimLimit_Uncapped == 4 * target

TrimLimit == Least(CapFrames, 4 * target)

Trim ==
  /\ sessionPc = "trim"
  /\ LET keep == Least(Len(buffer), TrimLimit * Channels)
     IN  buffer' = SubSeq(buffer, Len(buffer) - keep + 1, Len(buffer))
  /\ sessionPc' = "receive"
  /\ UNCHANGED <<target, toCome, streamOpen, recording, rendered, playing>>

(* A stop, a receive error, or a packet that is not Float32.               *)
ReceiveEnds ==
  /\ sessionPc = "receive"
  /\ sessionPc' = "close"
  /\ UNCHANGED <<buffer, target, toCome, streamOpen, recording, rendered, playing>>

CloseStream ==
  /\ sessionPc = "close"
  /\ streamOpen' = FALSE
  /\ sessionPc' = "finalise"
  /\ UNCHANGED <<buffer, target, toCome, recording, rendered, playing>>

Finalise ==
  /\ sessionPc = "finalise"
  /\ recording' = IF recording = "open" THEN "final" ELSE recording
  /\ sessionPc' = "done"
  /\ UNCHANGED <<buffer, target, toCome, streamOpen, rendered, playing>>

-----------------------------------------------------------------------------
(* render_routed_audio: every route takes the next sample of the frame; a  *)
(* frame that is not there stays silent.                                   *)
RoutedFrame(f) ==
  [o \in Outputs |->
     {buffer[(f - 1) * Channels + c] : c \in {k \in 1 .. Channels :
                                              Routes[k] = o /\ f * Channels <= Len(buffer)}}]

Render ==
  /\ streamOpen
  /\ rendered' = [f \in 1 .. CallbackFrames |-> RoutedFrame(f)]
  /\ LET popped == Least(Len(buffer) \div Channels, CallbackFrames)
     IN  buffer' = SubSeq(buffer, popped * Channels + 1, Len(buffer))
  /\ UNCHANGED <<sessionPc, target, toCome, streamOpen, recording, playing>>

StopPlayback ==
  /\ playing' = FALSE
  /\ UNCHANGED <<buffer, sessionPc, target, toCome, streamOpen, recording, rendered>>

Session ==
  \/ DriverRefused \/ PrimeEnds \/ StartStream \/ CorrectClock \/ Adapt \/ Trim
  \/ CloseStream \/ Finalise
  \/ \E record \in BOOLEAN : OpenDriver(record)

(* Once stopped the two waits for packets end: the read times out.         *)
Timeouts == ~ playing /\ (NoFirstPacket \/ ReceiveEnds)

PlaybackInit ==
  /\ buffer = << >> /\ sessionPc = "first" /\ target \in Targets
  /\ toCome = Packets /\ streamOpen = FALSE /\ recording = "none"
  /\ rendered = << >> /\ playing = TRUE

PlaybackNext ==
  \/ \E p \in Packets : FirstPacket(p) \/ PrimePacket(p) \/ ReceiveAudio(p)
  \/ Session \/ NoFirstPacket \/ ReceiveEnds
  \/ Render \/ StopPlayback

PlaybackFairness == WF_playbackVars(Session) /\ WF_playbackVars(Timeouts)

PlaybackSpec == PlaybackInit /\ [][PlaybackNext]_playbackVars /\ PlaybackFairness

-----------------------------------------------------------------------------
(* Whatever the session does to the buffer between two callbacks, every    *)
(* output plays only samples of channels routed to it, all of one frame:   *)
(* channels are never shifted.                                             *)
RoutedWhole ==
  \A f \in DOMAIN rendered :
    /\ \A o \in Outputs : \A s \in rendered[f][o] : Routes[s[2]] = o
    /\ \A o, q \in Outputs : \A s \in rendered[f][o], t \in rendered[f][q] : s[1] = t[1]

(* The buffer never holds more than 200 ms, the packet that just came and  *)
(* the frame the clock correction adds; a final recording is not written.  *)
BufferBounded ==
  /\ Len(buffer) <= (CapFrames + PacketFrames + 1) * Channels
  /\ recording = "final" => ~ streamOpen

(* The two together: what is played is whole and at most that much late.   *)
PlayedWhole == RoutedWhole /\ BufferBounded

PlaybackStops == ~ playing ~> sessionPc \in {"done", "failed"}

=============================================================================
