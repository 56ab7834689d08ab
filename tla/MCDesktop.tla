------------------------------- MODULE MCDesktop -------------------------------
(***************************************************************************)
(* The desktop application for TLC: its sessions, or the directory of      *)
(* streams its discovery thread keeps; `side' says which one runs.         *)
(*                                                                         *)
(* The sessions are a capture and a playback session that want the same    *)
(* ASIO driver, and a publisher and a player without.                      *)
(***************************************************************************)
EXTENDS DesktopSessions, DiscoveryDirectory

CONSTANTS publish, capture, asioPlay, play, asio

VARIABLE side

MCDriverOf == [s \in Sessions |-> IF s \in {publish, play} THEN NoDriver ELSE asio]
AllWired == [n \in Nodes |-> "wired"]

desktopVars == <<vars, directoryVars, side>>

(* While the sessions run, the directory has one initial state.            *)
DesktopInit ==
  /\ Init /\ DirectoryInit
  /\ \/ side = "sessions" /\ oversized = {} /\ selected = "wired"
     \/ side = "directory" /\ oversized \subseteq {2}

DesktopNext ==
  /\ UNCHANGED side
  /\ \/ side = "sessions" /\ Next /\ UNCHANGED directoryVars
     \/ side = "directory" /\ DirectoryNext /\ UNCHANGED vars

DesktopSpec == DesktopInit /\ [][DesktopNext]_desktopVars /\ Fairness

=============================================================================
