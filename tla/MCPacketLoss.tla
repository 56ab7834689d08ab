----------------------------- MODULE MCPacketLoss -----------------------------
(***************************************************************************)
(* What the receiver does about lost packets, for TLC: the reorder window  *)
(* of ReorderStream, or forward error correction.  The two are checked     *)
(* side by side; `side' says which one runs.                               *)
(***************************************************************************)
EXTENDS MCReorderStream, Fec

VARIABLE side

allVars == <<vars, fecVars, side>>

(* What the idle window starts from does not matter: one state of it.      *)
LossInit ==
  /\ Init /\ FecInit /\ side \in {"window", "fec"}
  /\ side = "fec" => skew = 2 /\ pubSeq = 0

LossNext ==
  /\ UNCHANGED side
  /\ \/ side = "window" /\ Next /\ UNCHANGED fecVars
     \/ side = "fec" /\ FecNext /\ UNCHANGED vars

(* Error correction at work: what is rebuilt is the packet that was lost,  *)
(* and a group that lost one packet only gets it back.                     *)
FecKept == []RebuiltIsOwn /\ SingleLossIsRebuilt

LossSpec ==
  /\ LossInit /\ [][LossNext]_allVars
  /\ WF_allVars(side = "window" /\ Consume /\ UNCHANGED <<fecVars, side>>)
  /\ WF_allVars(side = "window" /\ Flush /\ UNCHANGED <<fecVars, side>>)

=============================================================================
