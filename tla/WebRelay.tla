------------------------------- MODULE WebRelay -------------------------------
(***************************************************************************)
(* relay_audio_to_websocket (audio-core, web_gateway.rs): the packets of   *)
(* one stream become batches of samples for one browser.  Nothing is put   *)
(* in order here: a gap is concealed at once, what comes late is appended  *)
(* where it comes, and so is what error correction rebuilds.               *)
(*                                                                         *)
(* The publisher numbers its packets from First on; a device's block is    *)
(* cut into packets of the greatest length and a shorter one, so lengths   *)
(* differ.  `published' holds the frame at which each packet ends.  A      *)
(* batch is a sequence of pieces, in the order of its samples.             *)
(***************************************************************************)
EXTENDS Integers, Sequences, FiniteSets

CONSTANTS
  SeqSpace,      \* 2^32
  First,         \* the number of the first packet
  MaxSent,       \* bound: packets published
  MaxSurplus,    \* bound: frames that come late, twice or rebuilt
  MinFrames, MaxFrames,  \* samples_per_channel, the least and the greatest
  TargetFrames,  \* WEB_AUDIO_BATCH_MS of frames
  GroupSize,     \* packets of an FEC group
  Timeouts,      \* receive timeouts that make WEB_STREAM_TIMEOUT: 5 of 200 ms
  NoSeq, NoFormat

ASSUME RelayAssumption ==
  /\ SeqSpace \in Nat /\ First \in 0 .. SeqSpace - 1
  /\ MaxSent \in Nat /\ 2 * MaxSent < SeqSpace
  /\ MaxSurplus \in Nat
  /\ MaxFrames \in Nat /\ MinFrames \in 1 .. MaxFrames
  /\ TargetFrames \in Nat \ {0} /\ GroupSize \in Nat \ {0, 1}
  /\ Timeouts \in Nat \ {0} /\ NoSeq \notin Int
  /\ NoFormat \notin {"first", "second"}

VARIABLES
  published,    \* where each packet published ends, in frames of the stream
  changeAt,     \* place of the first packet in another format, which starts
                \* a new FEC group; never changes
  relaying,     \* the function has not returned
  nextExpected, \* next_expected_seq
  expectedFormat,
  history,      \* places the FEC decoder knows
  batch,        \* batched_payload
  batchedFrames,
  silence,      \* timeouts since last_audio_packet, if there was one
  disconnected, \* stream_disconnected
  joinedAt,     \* the place of the first packet heard
  surplus,      \* frames appended whose place was concealed, or heard, before
  concealed,    \* packets concealed
  told,         \* what the browser was told: its format, whether the stream flows
  relayed,      \* frames sent to the browser
  discarded     \* frames cleared

relayVars == <<published, changeAt, relaying, nextExpected, expectedFormat, history, batch,
               batchedFrames, silence, disconnected, joinedAt, surplus, concealed, told,
               relayed, discarded>>

NumberOf(pos) == (First + pos) % SeqSpace
FormatOf(pos) == IF pos < changeAt THEN "first" ELSE "second"
Distance(a, b) == (a - b) % SeqSpace

FramesOf(pieces) ==
  LET upTo[i \in 0 .. Len(pieces)] == IF i = 0 THEN 0 ELSE upTo[i - 1] + pieces[i].frames
  IN  upTo[Len(pieces)]

(* A packet's frames begin where the packet before it ends.                *)
StartOf(pos)  == IF pos = 0 THEN 0 ELSE published[pos]
LengthOf(pos) == StartOf(pos + 1) - StartOf(pos)
Places        == 0 .. Len(published) - 1

Heard(pos) == [kind |-> "heard", frames |-> LengthOf(pos), format |-> FormatOf(pos)]

(* What decode_fec rebuilds is as long as the first packet of its group.   *)
FirstOf(pos) == GroupSize * (pos \div GroupSize)
Rebuilt(pos) == [kind |-> "rebuilt", frames |-> LengthOf(FirstOf(pos)), format |-> FormatOf(pos)]

(* synthesize_concealment, for packets that are missing before one with    *)
(* `length' frames: they are taken to be as long as that one.  The format  *)
(* is the one that the concealer was made with.                            *)
Concealed(missing, length) ==
  [kind |-> "concealed", frames |-> missing * length, format |-> expectedFormat]

-----------------------------------------------------------------------------
Publish ==
  /\ Len(published) < MaxSent
  /\ \E frames \in MinFrames .. MaxFrames :
       published' = Append(published, StartOf(Len(published)) + frames)
  /\ UNCHANGED <<changeAt, relaying, nextExpected, expectedFormat, history, batch,
                 batchedFrames, silence, disconnected, joinedAt, surplus, concealed, told,
                 relayed, discarded>>

(* A packet is compared with next_expected_seq.                            *)
IsGap(pos) == nextExpected # NoSeq /\ Distance(NumberOf(pos), nextExpected) \in 1 .. SeqSpace \div 2 - 1
IsLate(pos) == nextExpected # NoSeq /\ Distance(NumberOf(pos), nextExpected) >= SeqSpace \div 2
Missing(pos) == IF IsGap(pos) THEN Distance(NumberOf(pos), nextExpected) ELSE 0

(* What the batch has once the gap is concealed.                           *)
WithGap(pos) ==
  IF IsGap(pos) THEN Append(batch, Concealed(Missing(pos), LengthOf(pos))) ELSE batch

(* batched_payload.clear(), and the frames with it.                        *)
(* Faulty variant: the frames of a batch are not counted off.              *)
Cleared_KeepsFrames(pieces, frames) == [pieces |-> << >>, frames |-> frames]
Cleared(pieces, frames) == [pieces |-> << >>, frames |-> 0]

(* Another format ends the relay, with an error to the browser.            *)
HearOther(pos) ==
  /\ relaying /\ expectedFormat \notin {NoFormat, FormatOf(pos)}
  /\ relaying' = FALSE
  /\ UNCHANGED <<published, changeAt, nextExpected, expectedFormat, history, batch,
                 batchedFrames, silence, disconnected, joinedAt, surplus, concealed, told,
                 relayed, discarded>>

(* The first packet's format is told first, then that the stream is back,  *)
(* which discards the batch with what was just concealed; then the packet  *)
(* is appended and a full batch is sent.                                   *)
Hear(pos) ==
  LET gapped == batchedFrames + Missing(pos) * LengthOf(pos)
      kept   == IF disconnected THEN Cleared(WithGap(pos), gapped)
                ELSE [pieces |-> WithGap(pos), frames |-> gapped]
      pieces == Append(kept.pieces, Heard(pos))
      frames == kept.frames + LengthOf(pos)
  IN  /\ relaying /\ expectedFormat \in {NoFormat, FormatOf(pos)}
      /\ IsLate(pos) => surplus < MaxSurplus
      /\ nextExpected' = IF IsLate(pos) THEN nextExpected ELSE NumberOf(pos + 1)
      /\ expectedFormat' = FormatOf(pos)
      /\ told' = [format |-> FormatOf(pos), flows |-> TRUE]
      /\ history' = history \cup {pos}
      /\ silence' = 0
      /\ disconnected' = FALSE
      /\ joinedAt' = IF nextExpected = NoSeq THEN pos ELSE joinedAt
      /\ surplus' = surplus + (IF IsLate(pos) THEN LengthOf(pos) ELSE 0)
      /\ concealed' = concealed + Missing(pos)
      /\ discarded' = discarded + (IF disconnected THEN FramesOf(WithGap(pos)) ELSE 0)
      /\ IF frames >= TargetFrames
         THEN /\ batch' = << >> /\ batchedFrames' = 0
              /\ relayed' = relayed + FramesOf(pieces)
         ELSE /\ batch' = pieces /\ batchedFrames' = frames
              /\ UNCHANGED relayed
      /\ UNCHANGED <<published, changeAt, relaying>>

(* A parity packet: what is rebuilt is appended, whatever was concealed.   *)
HearParity(pos) ==
  LET group == {p \in Places : p \div GroupSize = pos \div GroupSize}
  IN  /\ relaying
      /\ Cardinality(group) = GroupSize
      /\ group \ history = {pos} /\ surplus < MaxSurplus
      /\ history' = history \cup {pos}
      /\ batch' = Append(batch, Rebuilt(pos))
      /\ batchedFrames' = batchedFrames + LengthOf(FirstOf(pos))
      /\ surplus' = surplus + LengthOf(FirstOf(pos))
      /\ UNCHANGED <<published, changeAt, relaying, nextExpected, expectedFormat, silence,
                     disconnected, joinedAt, concealed, told, relayed, discarded>>

(* 200 ms without any packet: the batch is old and is sent; a second       *)
(* without audio, and the browser is told so, once.                        *)
TimeOut ==
  /\ relaying
  /\ silence' = IF silence = NoSeq THEN NoSeq
                ELSE IF silence < Timeouts THEN silence + 1 ELSE silence
  /\ batch' = << >> /\ batchedFrames' = 0
  /\ relayed' = relayed + FramesOf(batch)
  /\ disconnected' = (disconnected \/ silence' = Timeouts)
  /\ told' = [told EXCEPT !.flows = ~ disconnected']
  /\ UNCHANGED <<published, changeAt, relaying, nextExpected, expectedFormat, history, joinedAt,
                 surplus, concealed, discarded>>

(* The browser is gone, the socket failed, or the gateway stops.           *)
Return ==
  /\ relaying
  /\ relaying' = FALSE
  /\ UNCHANGED <<published, changeAt, nextExpected, expectedFormat, history, batch,
                 batchedFrames, silence, disconnected, joinedAt, surplus, concealed, told,
                 relayed, discarded>>

RelayInit ==
  /\ published = << >>
  /\ changeAt \in {pos \in 1 .. MaxSent : pos % GroupSize = 0}
  /\ relaying = TRUE
  /\ nextExpected = NoSeq /\ expectedFormat = NoFormat
  /\ history = {} /\ batch = << >> /\ batchedFrames = 0
  /\ silence = NoSeq /\ disconnected = FALSE
  /\ joinedAt = 0 /\ surplus = 0 /\ concealed = 0
  /\ told = [format |-> NoFormat, flows |-> TRUE]
  /\ relayed = 0 /\ discarded = 0

RelayNext ==
  \/ Publish \/ TimeOut \/ Return
  \/ \E pos \in Places : Hear(pos) \/ HearOther(pos) \/ HearParity(pos)

-----------------------------------------------------------------------------
(* The batch is in the format that the browser was told, and every frame   *)
(* of the stream, from the first packet heard to the last, is on its way   *)
(* to the browser or was discarded with an interruption; what error        *)
(* correction rebuilds and what comes late comes on top, because its place *)
(* was concealed already.  A packet concealed is as long as the one that   *)
(* ended its gap, so each puts the browser's time out by no more than two  *)
(* lengths differ, and not at all on a stream whose packets have one       *)
(* length (web_gateway.rs 1317-1328, 1359-1377, 1382-1400).                *)
InFormat ==
  /\ \A i \in DOMAIN batch : batch[i].format = told.format
  /\ told.format = expectedFormat /\ (batch # << >> => told.format # NoFormat)

Drift ==
  LET span == IF nextExpected = NoSeq THEN 0 ELSE Distance(nextExpected, NumberOf(joinedAt))
  IN  relayed + discarded + batchedFrames - surplus
        - (StartOf(joinedAt + span) - StartOf(joinedAt))

FramesKept ==
  LET off == concealed * (MaxFrames - MinFrames)
  IN  /\ batchedFrames = FramesOf(batch)
      /\ Drift \in - off .. off

RelayKeepsTime == InFormat /\ FramesKept

=============================================================================
