------------------------------ MODULE DawReceiver ------------------------------
(***************************************************************************)
(* The plug-in's receiver (apps/plugin, OpenAudioDawReceiver and its       *)
(* ReceiverRuntime).  A worker thread subscribes to the publishers of the  *)
(* chosen slot and copies every packet that arrives on the chosen port     *)
(* into a buffer of a fixed pool; the host's callback `process' plays the  *)
(* blocks frame by frame, gives the buffers back, and itself restarts the  *)
(* runtime when a parameter has changed.                                   *)
(*                                                                         *)
(* The four parameters are one configuration: a slot and a port.  A        *)
(* packet is its stream and its number, counted over all publishers.       *)
(* Packets are lost, not reordered.                                        *)
(***************************************************************************)
EXTENDS Naturals, Sequences

CONSTANTS
  Configs,     \* values of the parameters: records of a slot and a port
  Slots,       \* slots, each with one publisher whose stream it names
  PoolSize,    \* queue_cap
  BlockFrames, \* frames of a packet
  MaxPackets   \* bound: packets the publishers send

ASSUME DawReceiverAssumption ==
  /\ Configs # {} /\ \A c \in Configs : c.slot \in Slots
  /\ PoolSize \in Nat \ {0} /\ BlockFrames \in Nat \ {0} /\ MaxPackets \in Nat

VARIABLES
  wanted,      \* active_slot and active_port: what the parameters say
  receive,     \* the parameter "Receive"
  config,      \* configuration of the runtime
  alive,       \* the plug-in has a runtime
  rxRunning,   \* ReceiverRuntime.running
  rxPc, packet,\* the worker, and the packet it holds
  pool,        \* number of buffers in free_blocks
  queued,      \* ready_blocks
  current, offset, \* current_block, None or a packet, and block_offset in frames
  playPc,      \* the callback
  played,      \* per stream, the last packet and frame that was played
  number,      \* packets the publishers have sent
  leases       \* subscriptions the publishers hold: a slot and a port

params == <<wanted, receive>>
runtimeVars == <<config, alive, rxRunning>>
workerState == <<rxPc, packet>>
playState == <<playPc, current, offset, played>>
network == <<number, leases>>
rxVars == <<params, runtimeVars, workerState, pool, queued, playState, network>>

NoPacket == [stream |-> CHOOSE s \in Slots : TRUE, number |-> 0]
Packets == [stream : Slots, number : 1 .. MaxPackets]

-----------------------------------------------------------------------------
(* Parameters and publishers.                                              *)

SetParameters(c) ==
  /\ wanted' = c
  /\ UNCHANGED <<receive, runtimeVars, workerState, pool, queued, playState, network>>

SetReceive(v) ==
  /\ receive' = v
  /\ UNCHANGED <<wanted, runtimeVars, workerState, pool, queued, playState, network>>

(* A subscription is not withdrawn: the publisher holds it until its lease *)
(* ends.                                                                   *)
LeaseRunsOut(l) ==
  /\ l \in leases
  /\ leases' = leases \ {l}
  /\ UNCHANGED <<params, runtimeVars, workerState, pool, queued, playState, number>>

-----------------------------------------------------------------------------
(* ReceiverRuntime::start, and activate.                                   *)

Started(c) ==
  /\ config' = c /\ alive' = TRUE /\ rxRunning' = TRUE
  /\ rxPc' = "loop" /\ packet' = NoPacket
  /\ pool' = PoolSize /\ queued' = << >>

RxActivate ==
  /\ ~ alive /\ playPc = "idle"
  /\ Started(wanted)
  /\ UNCHANGED <<params, playState, network>>

(* The host deactivates: the worker is joined, the block thrown away.      *)
RxDeactivate ==
  /\ playPc = "idle"
  /\ IF alive
     THEN rxRunning' = FALSE /\ playPc' = "deactivate" /\ UNCHANGED current
     ELSE current' = NoPacket /\ UNCHANGED <<rxRunning, playPc>>
  /\ UNCHANGED <<params, config, alive, workerState, pool, queued, offset, played, network>>

RxDeactivated ==
  /\ playPc = "deactivate" /\ rxPc = "done"
  /\ alive' = FALSE /\ playPc' = "idle"
  /\ current' = NoPacket
  /\ UNCHANGED <<params, config, rxRunning, workerState, pool, queued, offset, played, network>>

-----------------------------------------------------------------------------
(* The worker thread.                                                      *)

(* Every second: a publisher of the slot that was discovered is asked.     *)
Resubscribe ==
  /\ rxPc = "loop" /\ rxRunning
  /\ leases' = leases \union {[slot |-> config.slot, port |-> config.port]}
  /\ UNCHANGED <<params, runtimeVars, workerState, pool, queued, playState, number>>

RxExits ==
  /\ rxPc = "loop" /\ ~ rxRunning
  /\ rxPc' = "done"
  /\ UNCHANGED <<params, runtimeVars, packet, pool, queued, playState, network>>

(* A publisher that holds a lease sends a packet; it may be lost, or the   *)
(* worker receives it, whatever stream it is of.                           *)
PacketLost ==
  /\ number < MaxPackets
  /\ number' = number + 1
  /\ UNCHANGED <<params, runtimeVars, workerState, pool, queued, playState, leases>>

ReceivePacket(s) ==
  /\ rxPc = "loop" /\ rxRunning
  /\ number < MaxPackets
  /\ [slot |-> s, port |-> config.port] \in leases
  /\ number' = number + 1
  /\ packet' = [stream |-> s, number |-> number']
  /\ IF pool > 0
     THEN pool' = pool - 1 /\ rxPc' = "push"
     ELSE rxPc' = "recycle" /\ UNCHANGED pool
  /\ UNCHANGED <<params, runtimeVars, queued, playState, leases>>

Recycle ==
  /\ rxPc = "recycle"
  /\ IF queued = << >>
     THEN rxPc' = "loop" /\ UNCHANGED queued
     ELSE rxPc' = "push" /\ queued' = Tail(queued)
  /\ UNCHANGED <<params, runtimeVars, packet, pool, playState, network>>

(* A full queue refuses the block, whose buffer is then gone.              *)
Push ==
  /\ rxPc = "push"
  /\ queued' = IF Len(queued) < PoolSize THEN Append(queued, packet) ELSE queued
  /\ rxPc' = "loop"
  /\ UNCHANGED <<params, runtimeVars, packet, pool, playState, network>>

RxWorker == RxExits \/ Recycle \/ Push

-----------------------------------------------------------------------------
(* The callback.                                                           *)

Holding == current # NoPacket
Exhausted == offset = BlockFrames

ProcessBegins ==
  /\ alive /\ playPc = "idle"
  /\ IF config # wanted
     THEN rxRunning' = FALSE /\ playPc' = "rejoin"
     ELSE playPc' = (IF receive THEN "render" ELSE "idle") /\ UNCHANGED rxRunning
  /\ UNCHANGED <<params, config, alive, workerState, pool, queued, current, offset, played, network>>

(* Still inside process: the old worker has been joined and the runtime is *)
(* started anew; without one the plug-in is silent until it is activated.  *)
Restart ==
  /\ playPc = "rejoin" /\ rxPc = "done"
  /\ Started(wanted)
  /\ playPc' = "idle"
  /\ UNCHANGED <<params, current, offset, played, network>>

RestartFails ==
  /\ playPc = "rejoin" /\ rxPc = "done"
  /\ alive' = FALSE
  /\ playPc' = "idle"
  /\ UNCHANGED <<params, config, rxRunning, workerState, pool, queued, current, offset, played, network>>

(* Faulty variant: the exhausted block is dropped.                         *)
GiveBack_Drops ==
  /\ playPc = "render" /\ Holding /\ Exhausted
  /\ current' = NoPacket
  /\ UNCHANGED <<params, runtimeVars, workerState, pool, queued, playPc, offset, played, network>>

(* An exhausted block is given back; a full queue drops its buffer.        *)
GiveBack ==
  /\ playPc = "render" /\ Holding /\ Exhausted
  /\ pool' = IF pool < PoolSize THEN pool + 1 ELSE pool
  /\ current' = NoPacket
  /\ UNCHANGED <<params, runtimeVars, workerState, queued, playPc, offset, played, network>>

(* Faulty variant: block_offset is left where it was.                      *)
Take_KeepsOffset ==
  /\ playPc = "render" /\ ~ Holding /\ queued # << >>
  /\ current' = Head(queued) /\ queued' = Tail(queued)
  /\ UNCHANGED <<params, runtimeVars, workerState, pool, playPc, offset, played, network>>

Take ==
  /\ playPc = "render" /\ ~ Holding /\ queued # << >>
  /\ current' = Head(queued) /\ queued' = Tail(queued)
  /\ offset' = 0
  /\ UNCHANGED <<params, runtimeVars, workerState, pool, playPc, played, network>>

RenderFrame ==
  /\ playPc = "render" /\ Holding /\ ~ Exhausted
  /\ offset' = offset + 1
  /\ played' = [played EXCEPT ![current.stream] = <<current.number, offset'>>]
  /\ UNCHANGED <<params, runtimeVars, workerState, pool, queued, playPc, current, network>>

(* The host's buffer is full, or there is nothing but silence to play.     *)
ProcessEnds ==
  /\ playPc = "render"
  /\ playPc' = "idle"
  /\ UNCHANGED <<params, runtimeVars, workerState, pool, queued, current, offset, played, network>>

RxProcess ==
  \/ ProcessBegins \/ Restart \/ RestartFails \/ GiveBack \/ Take \/ RenderFrame \/ ProcessEnds

-----------------------------------------------------------------------------
RxInit ==
  /\ wanted \in Configs /\ receive = FALSE
  /\ config = wanted /\ alive = FALSE /\ rxRunning = FALSE
  /\ rxPc = "done" /\ packet = NoPacket
  /\ pool = 0 /\ queued = << >>
  /\ current = NoPacket /\ offset = 0 /\ playPc = "idle"
  /\ played = [s \in Slots |-> <<0, 0>>]
  /\ number = 0 /\ leases = {}

RxNext ==
  \/ \E c \in Configs : SetParameters(c)
  \/ \E v \in BOOLEAN : SetReceive(v)
  \/ \E l \in leases : LeaseRunsOut(l)
  \/ RxActivate \/ RxDeactivate \/ RxDeactivated
  \/ Resubscribe \/ RxWorker
  \/ PacketLost \/ \E s \in Slots : ReceivePacket(s)
  \/ RxProcess

RxFairness ==
  /\ WF_rxVars(RxWorker) /\ WF_rxVars(RxDeactivated)
  /\ WF_rxVars(Restart \/ RestartFails)

RxSpec == RxInit /\ [][RxNext]_rxVars /\ RxFairness

-----------------------------------------------------------------------------
(* The pool never has more than one buffer above its size (the block kept  *)
(* over a restart), and none is lost but by such a block.                  *)
PoolBounded ==
  alive => pool + Len(queued) + (IF rxPc = "push" THEN 1 ELSE 0) + (IF Holding THEN 1 ELSE 0)
             \in PoolSize .. PoolSize + 1

(* No frame is played twice and none after a later one of its stream, over *)
(* recycled buffers and restarts.                                          *)
PlayedForward ==
  [][\A s \in Slots : played'[s] # played[s] =>
       \/ played'[s][1] > played[s][1] /\ played'[s][2] = 1
       \/ played'[s][1] = played[s][1] /\ played'[s][2] = played[s][2] + 1]_rxVars

(* A restart inside process comes to an end: the old worker leaves.        *)
RestartEnds == (playPc = "rejoin") ~> (playPc = "idle")

=============================================================================
