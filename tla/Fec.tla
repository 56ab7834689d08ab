---------------------------------- MODULE Fec ----------------------------------
(***************************************************************************)
(* Forward error correction (network-core, fec.rs): the publisher's        *)
(* FecEncoder adds one XOR parity packet to FecGroupSize audio packets,    *)
(* the receiver's FecDecoder rebuilds a single missing packet of a group   *)
(* from the parity and the packets in its history.                         *)
(*                                                                         *)
(* A byte is a set of packet positions: {k} at any place of the payload    *)
(* of packet k, {} for zero.  XOR of bytes is then symmetric difference,   *)
(* and what a rebuilt byte is made of can be read off.                     *)
(***************************************************************************)
EXTENDS Integers, FiniteSets, Sequences, FiniteSetsExt

CONSTANTS
  FecGroupSize,     \* DEFAULT_FEC_GROUP_SIZE: 5
  HistoryCapacity,  \* FecDecoder.history_capacity: 32
  FecSpace,         \* 2^32
  FecFirstSeqs,     \* numbers the first packet may have
  Lengths,          \* payload lengths
  FecMaxSent,       \* bound: packets sent
  MaxSkew           \* bound: the network is no more packets late

ASSUME FecAssumption ==
  /\ FecGroupSize \in Nat /\ FecGroupSize >= 2
  /\ HistoryCapacity \in Nat /\ HistoryCapacity >= FecGroupSize
  /\ FecSpace \in Nat /\ FecSpace > HistoryCapacity
  /\ FecFirstSeqs \subseteq 0 .. FecSpace - 1
  /\ Lengths \subseteq Nat \ {0}
  /\ FecMaxSent \in Nat /\ MaxSkew \in Nat

VARIABLES
  fecSent,     \* the audio packets sent, in order: [seq, payload]
  parity,      \* FecEncoder.parity_buffer
  count,       \* FecEncoder.count
  base,        \* position of the group's first packet
  first,       \* number of the first packet of the stream
  flying,      \* positions of audio packets under way
  parities,    \* parity packets under way
  received,    \* positions of packets that arrived or were rebuilt
  history,     \* FecDecoder.history: sequence number -> payload
  rebuilt      \* what the last call returned: a set of at most one packet

encoderVars == <<parity, count, base>>
decoderVars == <<received, history, rebuilt>>
fecVars == <<fecSent, first, encoderVars, flying, parities, decoderVars>>

-----------------------------------------------------------------------------
Xor(a, b) == (a \ b) \cup (b \ a)
SmallerOf(m, n) == IF m < n THEN m ELSE n
LargerOf(m, n) == IF m > n THEN m ELSE n

(* The encoder's loop: XOR where both have bytes, the longer one's rest.   *)
XorInto(a, b) ==
  [i \in 1 .. LargerOf(Len(a), Len(b)) |->
     CASE i <= Len(a) /\ i <= Len(b) -> Xor(a[i], b[i])
       [] i > Len(b) -> a[i]
       [] i > Len(a) -> b[i]]

(* The decoder's loop: never longer than the parity.                       *)
RemoveFrom(a, b) ==
  [i \in 1 .. Len(a) |-> IF i <= Len(b) THEN Xor(a[i], b[i]) ELSE a[i]]

FecSeqOf(pos) == (first + pos - 1) % FecSpace
Payload(pos, length) == [i \in 1 .. length |-> {pos}]
NumberSent == Len(fecSent)

-----------------------------------------------------------------------------
(* Publisher: push_audio_packet for every packet it sends.                 *)

(* Faulty variant: the parity of the previous group is not cleared.        *)
Send_KeepsParity(length) ==
  LET pos     == NumberSent + 1
      payload == Payload(pos, length)
      group   == IF count = 0 THEN pos ELSE base
      joined  == XorInto(parity, payload)
  IN  /\ NumberSent < FecMaxSent
      /\ fecSent' = Append(fecSent, [seq |-> FecSeqOf(pos), payload |-> payload])
      /\ flying' = flying \cup {pos}
      /\ base' = group
      /\ parity' = joined
      /\ IF count + 1 >= FecGroupSize
         THEN /\ count' = 0
              /\ parities' = parities \cup
                   {[base |-> group, count |-> count + 1, payload |-> joined,
                     length |-> IF count = 0 THEN length ELSE Len(fecSent[group].payload)]}
         ELSE /\ count' = count + 1
              /\ UNCHANGED parities
      /\ UNCHANGED <<first, decoderVars>>

Send(length) ==
  LET pos     == NumberSent + 1
      payload == Payload(pos, length)
      group   == IF count = 0 THEN pos ELSE base
      joined  == IF count = 0 THEN payload ELSE XorInto(parity, payload)
  IN  /\ NumberSent < FecMaxSent
      /\ fecSent' = Append(fecSent, [seq |-> FecSeqOf(pos), payload |-> payload])
      /\ flying' = flying \cup {pos}
      /\ base' = group
      /\ IF count + 1 >= FecGroupSize
         THEN /\ count' = 0 /\ parity' = << >>
              /\ parities' = parities \cup
                   {[base |-> group, count |-> count + 1, payload |-> joined,
                     length |-> IF count = 0 THEN length ELSE Len(fecSent[group].payload)]}
         ELSE /\ count' = count + 1 /\ parity' = joined
              /\ UNCHANGED parities
      /\ UNCHANGED <<first, decoderVars>>

-----------------------------------------------------------------------------
(* Receiver.                                                               *)

InTime(pos) == NumberSent - pos < MaxSkew

(* record_received: `while len > capacity' drops the smallest number.      *)
(* Faulty variant: the largest number is.                                  *)
Recorded_DropsNewest(h, seq, payload) ==
  LET with == [k \in DOMAIN h \cup {seq} |-> IF k = seq THEN payload ELSE h[k]]
      last == CHOOSE k \in DOMAIN with : \A j \in DOMAIN with : j <= k
  IN  IF Cardinality(DOMAIN with) <= HistoryCapacity THEN with
      ELSE [k \in DOMAIN with \ {last} |-> with[k]]

Recorded(h, seq, payload) ==
  LET with   == [k \in DOMAIN h \cup {seq} |-> IF k = seq THEN payload ELSE h[k]]
      oldest == CHOOSE k \in DOMAIN with : \A j \in DOMAIN with : k <= j
  IN  IF Cardinality(DOMAIN with) <= HistoryCapacity THEN with
      ELSE [k \in DOMAIN with \ {oldest} |-> with[k]]

ReceiveAudio(pos) ==
  /\ InTime(pos)
  /\ flying' = flying \ {pos}
  /\ history' = Recorded(history, fecSent[pos].seq, fecSent[pos].payload)
  /\ received' = received \cup {pos}
  /\ rebuilt' = {}
  /\ UNCHANGED <<fecSent, first, encoderVars, parities>>

(* decode_fec                                                              *)
FecGroup(f) == f.base .. f.base + f.count - 1
MissingOf(f) == {pos \in FecGroup(f) : FecSeqOf(pos) \notin DOMAIN history}

RemoveAll(bytes, seqs) == FoldSet(LAMBDA k, acc : RemoveFrom(acc, history[k]), bytes, seqs)

ReceiveParity(f) ==
  /\ InTime(f.base)
  /\ parities' = parities \ {f}
  /\ Cardinality(MissingOf(f)) = 1
  /\ LET missing == CHOOSE pos \in MissingOf(f) : TRUE
         present == {FecSeqOf(pos) : pos \in FecGroup(f) \ MissingOf(f)}
         bytes   == SubSeq(RemoveAll(f.payload, present), 1, f.length)
     IN  /\ history' = Recorded(history, FecSeqOf(missing), bytes)
         /\ received' = received \cup {missing}
         /\ rebuilt' = {[pos |-> missing, payload |-> bytes]}
  /\ UNCHANGED <<fecSent, first, encoderVars, flying>>

IgnoreParity(f) ==
  /\ InTime(f.base)
  /\ parities' = parities \ {f}
  /\ Cardinality(MissingOf(f)) # 1
  /\ rebuilt' = {}
  /\ UNCHANGED <<fecSent, first, encoderVars, flying, received, history>>

Lose ==
  /\ \/ \E pos \in flying : flying' = flying \ {pos} /\ UNCHANGED parities
     \/ \E f \in parities : parities' = parities \ {f} /\ UNCHANGED flying
  /\ UNCHANGED <<fecSent, first, encoderVars, decoderVars>>

FecInit ==
  /\ fecSent = << >> /\ first \in FecFirstSeqs
  /\ parity = << >> /\ count = 0 /\ base = 0
  /\ flying = {} /\ parities = {}
  /\ received = {} /\ history = << >> /\ rebuilt = {}

FecNext ==
  \/ \E length \in Lengths : Send(length)
  \/ \E pos \in flying : ReceiveAudio(pos)
  \/ \E f \in parities : ReceiveParity(f) \/ IgnoreParity(f)
  \/ Lose

-----------------------------------------------------------------------------
(* A packet is rebuilt from its own bytes only: cut to the length of the   *)
(* group's first packet, or filled up to it with zeros.                    *)
RebuiltIsOwn ==
  \A p \in rebuilt : \A i \in 1 .. Len(p.payload) :
    p.payload[i] = IF i <= Len(fecSent[p.pos].payload) THEN {p.pos} ELSE {}

(* If exactly one packet of a group did not arrive, and only then, that    *)
(* packet is rebuilt (fec.rs 126-127).                                     *)
SingleLossIsRebuilt ==
  [][\A f \in parities : ReceiveParity(f) \/ IgnoreParity(f) =>
       LET lost == FecGroup(f) \ received
       IN  {p.pos : p \in rebuilt'} = IF Cardinality(lost) = 1 THEN lost ELSE {}]_fecVars

=============================================================================
