--------------------------- MODULE OrderedPlayback ---------------------------
(***************************************************************************)
(* What the application may rely on: it walks the publisher's stream from  *)
(* the first packet it is given, and every place of the stream is either   *)
(* played, in its turn and once, or skipped by an explicit loss report.    *)
(* `cursor' is the next place to account for, `played' the places played.  *)
(***************************************************************************)
EXTENDS Integers

CONSTANT NotStarted

VARIABLES cursor, played

playbackVars == <<cursor, played>>

Init == cursor = NotStarted /\ played = {}

(* The first packet of all fixes where the walk starts.                    *)
Start ==
  /\ cursor = NotStarted
  /\ cursor' \in Nat
  /\ played' = {cursor' - 1}

PlayNext ==
  /\ cursor # NotStarted
  /\ played' = played \cup {cursor}
  /\ cursor' = cursor + 1

SkipLost ==
  /\ cursor # NotStarted
  /\ cursor' \in Nat
  /\ cursor' > cursor
  /\ UNCHANGED played

Next == Start \/ PlayNext \/ SkipLost

Spec == Init /\ [][Next]_playbackVars

=============================================================================
