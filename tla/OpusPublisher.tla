----------------------------- MODULE OpusPublisher -----------------------------
(***************************************************************************)
(* The Opus path of the capture publisher (transmit.rs) and the encoder it *)
(* feeds (opus.rs).  The device delivers blocks of any length, Opus takes  *)
(* frames of one length: the encoder keeps the rest of a block for later,  *)
(* and answers each push with at most one packet.                          *)
(*                                                                         *)
(* A sample frame is the number of its capture.  What libopus does to the  *)
(* sound is left out; it does not fail on a full frame of a rate it took.  *)
(***************************************************************************)
EXTENDS Integers, Sequences, SequencesExt

CONSTANTS
  OpusFrame,        \* OPUS_FRAME_SAMPLES: 480
  OpusBlocks,       \* frames a block may have
  MaxCaptured       \* bound: frames captured in a run

ASSUME OpusAssumption ==
  /\ OpusFrame \in Nat \ {0} /\ MaxCaptured \in Nat
  /\ OpusBlocks \subseteq Nat \ {0}

VARIABLES
  captured,         \* frames captured, the number of the newest one
  rest,             \* frames of the popped block not yet pushed
  pending,          \* the encoder's pending frames
  pushed,           \* every frame pushed, in order
  opusNumber,       \* packets_sent
  opusSent          \* packets that left: [seq, frames]

opusVars == <<captured, rest, pending, pushed, opusNumber, opusSent>>

OpusInit ==
  /\ captured = 0 /\ rest = << >> /\ pending = << >> /\ pushed = << >>
  /\ opusNumber = 0 /\ opusSent = {}

(* A block is popped.  Where nobody listened at the snapshot before, it is *)
(* discarded; the encoder keeps what it has.                               *)
PopOpusBlock ==
  /\ rest = << >>
  /\ \E n \in OpusBlocks, listening \in BOOLEAN :
       /\ captured + n <= MaxCaptured
       /\ captured' = captured + n
       /\ rest' = IF listening THEN [i \in 1 .. n |-> captured + i] ELSE << >>
  /\ UNCHANGED <<pending, pushed, opusNumber, opusSent>>

(* Faulty variant: the whole block is pushed at once.                      *)
Chunk_Whole == rest

(* push_samples: at most one frame is encoded, the rest stays pending.     *)
Chunk == SubSeq(rest, 1, IF Len(rest) < OpusFrame THEN Len(rest) ELSE OpusFrame)

Filled == pending \o Chunk

TakeChunk ==
  /\ rest # << >>
  /\ rest' = SubSeq(rest, Len(Chunk) + 1, Len(rest))
  /\ pushed' = pushed \o Chunk
  /\ UNCHANGED captured

PushShort ==
  /\ TakeChunk
  /\ Len(Filled) < OpusFrame
  /\ pending' = Filled
  /\ UNCHANGED <<opusNumber, opusSent>>

(* Faulty variant: a packet that is not sent takes no number.              *)
PushFull_NumbersSent ==
  /\ TakeChunk
  /\ Len(Filled) >= OpusFrame
  /\ pending' = SubSeq(Filled, OpusFrame + 1, Len(Filled))
  /\ \/ /\ opusNumber' = opusNumber + 1
        /\ opusSent' = opusSent \cup {[seq |-> opusNumber, frames |-> SubSeq(Filled, 1, OpusFrame)]}
     \/ UNCHANGED <<opusNumber, opusSent>>

(* The packet takes its number before it is put together, encrypted and    *)
(* sent.  Where one of these fails, the destination sees a gap.            *)
PushFull ==
  /\ TakeChunk
  /\ Len(Filled) >= OpusFrame
  /\ pending' = SubSeq(Filled, OpusFrame + 1, Len(Filled))
  /\ opusNumber' = opusNumber + 1
  /\ \/ opusSent' = opusSent \cup
           {[seq |-> opusNumber, frames |-> SubSeq(Filled, 1, OpusFrame)]}
     \/ UNCHANGED opusSent

OpusNext == PopOpusBlock \/ PushShort \/ PushFull

-----------------------------------------------------------------------------
(* The number of a packet is its place in time: packet n carries the n-th  *)
(* stretch of OpusFrame frames of all that was pushed, whether or not the  *)
(* packets before it could be sent, so the receiver conceals a packet that *)
(* was not sent for exactly as long as it was.  Less than one frame waits  *)
(* in the encoder: the codec adds no delay that grows.                     *)
OpusWhole ==
  /\ \A p \in opusSent :
       /\ p.seq < opusNumber
       /\ p.frames = SubSeq(pushed, p.seq * OpusFrame + 1, (p.seq + 1) * OpusFrame)
  /\ Len(pending) < OpusFrame
  /\ pending = SubSeq(pushed, opusNumber * OpusFrame + 1, Len(pushed))

=============================================================================
