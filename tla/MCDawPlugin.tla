------------------------------ MODULE MCDawPlugin ------------------------------
(***************************************************************************)
(* The two plug-ins of the library for TLC.  A plug-in instance is a       *)
(* sender or a receiver: `side' says which, and the other one stays in its *)
(* initial state.                                                          *)
(***************************************************************************)
EXTENDS DawSender, DawReceiver

VARIABLE side

receiverVars ==
  <<wanted, receive, config, alive, rxRunning, rxPc, packet, pool, queued,
    current, offset, playPc, played, number, leases>>
pluginVars == <<vars, receiverVars, side>>

PluginInit == Init /\ RxInit /\ side \in {"send", "receive"}

PluginNext ==
  /\ UNCHANGED side
  /\ \/ side = "send" /\ Next /\ UNCHANGED receiverVars
     \/ side = "receive" /\ RxNext /\ UNCHANGED vars

PluginSpec ==
  /\ PluginInit /\ [][PluginNext]_pluginVars
  /\ Fairness /\ RxFairness

(* A sender that is deactivated and a receiver that restarts inside the    *)
(* callback wait for their threads, and get them.                          *)
StopsEnd == DeactivateEnds /\ RestartEnds

SlotConfigs == {[slot |-> 1, port |-> 7101], [slot |-> 2, port |-> 7101]}

=============================================================================
