-------------------------- MODULE DiagnosticPublisher --------------------------
(***************************************************************************)
(* The publisher of test tones (diagnostic_publish.rs).  There is no       *)
(* device: the thread compares what it generated (its timeline) with the   *)
(* time that passed, both in sample frames, and generates what is due.     *)
(* It may be held up anywhere, for any time.                               *)
(*                                                                         *)
(* A frame is its position on the timeline.  With Opus, the encoder of     *)
(* OpusPublisher collects the frames, here fed at most one frame at once.  *)
(***************************************************************************)
EXTENDS Integers, Sequences, SequencesExt

CONSTANTS
  PacketLimit,      \* maximum_frames_per_packet
  CatchUp,          \* maximum_catch_up_frames: 20 ms, or a packet if longer
  MaxTime           \* bound: the time a run takes, in frames

ASSUME DiagnosticAssumption ==
  /\ PacketLimit \in Nat \ {0} /\ MaxTime \in Nat
  /\ CatchUp \in Nat /\ CatchUp >= PacketLimit

VARIABLES
  useOpus,          \* config.use_opus
  now,              \* start.elapsed(), in frames
  listened,         \* somebody is subscribed
  tonePc,           \* "top", "clock", "due", "generate"
  someone,          \* the snapshot of the destinations
  target,           \* elapsed_target_frames
  timeline,         \* generated_timeline_frames
  heldBack,         \* the Opus encoder's pending frames
  toneNumber,       \* sequence_number
  tonePackets,      \* what was sent: [seq, at, late, frames]
  generated,        \* report.generated_frames
  skipped,          \* report.skipped_catch_up_frames
  idled             \* frames of the time nobody listened

toneVars == <<useOpus, now, listened, tonePc, someone, target, timeline, heldBack,
              toneNumber, tonePackets, generated, skipped, idled>>

ToneInit ==
  /\ useOpus \in BOOLEAN
  /\ now = 0 /\ listened = FALSE /\ tonePc = "top" /\ someone = FALSE
  /\ target = 0 /\ timeline = 0 /\ heldBack = << >>
  /\ toneNumber = 0 /\ tonePackets = << >>
  /\ generated = 0 /\ skipped = 0 /\ idled = 0

-----------------------------------------------------------------------------
TimePasses ==
  /\ now < MaxTime
  /\ now' = now + 1
  /\ UNCHANGED <<useOpus, listened, tonePc, someone, target, timeline, heldBack,
                 toneNumber, tonePackets, generated, skipped, idled>>

ListenersChange ==
  /\ listened' = ~ listened
  /\ UNCHANGED <<useOpus, now, tonePc, someone, target, timeline, heldBack,
                 toneNumber, tonePackets, generated, skipped, idled>>

AskListeners ==
  /\ tonePc = "top"
  /\ tonePc' = "clock"
  /\ someone' = listened
  /\ UNCHANGED <<useOpus, now, listened, target, timeline, heldBack,
                 toneNumber, tonePackets, generated, skipped, idled>>

(* The clock is read after the listeners.  Alone, the timeline follows.    *)
Idle ==
  /\ tonePc = "clock" /\ ~ someone
  /\ tonePc' = "top"
  /\ target' = now
  /\ timeline' = now
  /\ idled' = idled + (now - timeline)
  /\ UNCHANGED <<useOpus, now, listened, someone, heldBack, toneNumber,
                 tonePackets, generated, skipped>>

(* Nothing due: wait_for_next_audio_frame, then all over again.            *)
ReadClock ==
  /\ tonePc = "clock" /\ someone
  /\ target' = now
  /\ tonePc' = IF now <= timeline THEN "top" ELSE "due"
  /\ UNCHANGED <<useOpus, now, listened, someone, timeline, heldBack, toneNumber,
                 tonePackets, generated, skipped, idled>>

(* Faulty variant: everything due is sent.                                 *)
Excess_Ignored == 0

(* What is older than the catch-up bound is not generated any more.        *)
Excess == IF target - timeline > CatchUp THEN target - timeline - CatchUp ELSE 0

SkipStale ==
  /\ tonePc = "due"
  /\ tonePc' = "generate"
  /\ timeline' = timeline + Excess
  /\ skipped' = skipped + Excess
  /\ UNCHANGED <<useOpus, now, listened, someone, target, heldBack, toneNumber,
                 tonePackets, generated, idled>>

-----------------------------------------------------------------------------
(* One packet's worth of tone, or what is due of it.                       *)

Due == IF target - timeline < PacketLimit THEN target - timeline ELSE PacketLimit
Tone == [i \in 1 .. Due |-> timeline + i - 1]

Advance ==
  /\ tonePc = "generate"
  /\ tonePc' = "top"
  /\ timeline' = timeline + Due
  /\ generated' = generated + Due
  /\ UNCHANGED <<useOpus, now, listened, someone, target, skipped, idled>>

(* A packet is stamped with the timeline before the newest frames in it.   *)
SendTone(frames) ==
  /\ toneNumber' = toneNumber + 1
  /\ tonePackets' = Append(tonePackets,
       [seq |-> toneNumber, at |-> timeline, late |-> target - timeline, frames |-> frames])

SendPlain ==
  /\ Advance
  /\ ~ useOpus
  /\ SendTone(Tone)
  /\ UNCHANGED heldBack

(* Faulty variant: the encoder forgets what does not fill a frame.         *)
HoldBack_Forgets ==
  /\ Advance
  /\ useOpus
  /\ Len(heldBack \o Tone) < PacketLimit
  /\ heldBack' = Tone
  /\ UNCHANGED <<toneNumber, tonePackets>>

(* A number only for a packet: where the encoder asks for more, none.      *)
HoldBack ==
  /\ Advance
  /\ useOpus
  /\ Len(heldBack \o Tone) < PacketLimit
  /\ heldBack' = heldBack \o Tone
  /\ UNCHANGED <<toneNumber, tonePackets>>

SendEncoded ==
  /\ Advance
  /\ useOpus
  /\ Len(heldBack \o Tone) >= PacketLimit
  /\ SendTone(SubSeq(heldBack \o Tone, 1, PacketLimit))
  /\ heldBack' = SubSeq(heldBack \o Tone, PacketLimit + 1, Len(heldBack \o Tone))

ToneStep ==
  \/ AskListeners \/ Idle \/ ReadClock \/ SkipStale
  \/ SendPlain \/ HoldBack \/ SendEncoded

ToneNext == TimePasses \/ ListenersChange \/ ToneStep

-----------------------------------------------------------------------------
FramesSent == FlattenSeq([i \in 1 .. Len(tonePackets) |-> tonePackets[i].frames])

(* The tones keep time however the thread is held up and whoever comes and *)
(* goes: the timeline never runs ahead of the clock and splits into what   *)
(* was generated, skipped and idled; the frames leave in order, once, none *)
(* held back for ever; no packet is sent that is later than the catch-up   *)
(* bound, so nobody gets the backlog of a pause; packets are numbered      *)
(* without gap, and plain ones do not overlap in time.                     *)
DiagnosticPaced ==
  /\ timeline <= now
  /\ timeline = generated + skipped + idled
  /\ LET all == FramesSent \o heldBack
     IN  /\ Len(all) = generated /\ Len(heldBack) < PacketLimit
         /\ \A i \in 1 .. Len(all) - 1 : all[i] < all[i + 1]
  /\ \A i \in DOMAIN tonePackets :
       /\ tonePackets[i].seq = i - 1
       /\ tonePackets[i].late <= CatchUp
       /\ ~ useOpus => tonePackets[i].at = tonePackets[i].frames[1]

=============================================================================
