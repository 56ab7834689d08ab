-------------------------- MODULE DiscoveryDirectory --------------------------
(***************************************************************************)
(* The directory of streams (network-core, discovery.rs): every publisher  *)
(* announces its stream once a second, the listener keeps who it heard,    *)
(* renews who it hears again and drops who it has not heard for three      *)
(* seconds.  The user may change the network interface; the listener joins *)
(* the new one when it next looks.                                         *)
(*                                                                         *)
(* A node is one run of a publisher: restarted, it has a new node_id.      *)
(***************************************************************************)
EXTENDS Integers, FiniteSets, Functions

CONSTANTS
  Nodes,           \* node ids
  Interfaces,
  InterfaceOf,     \* where a node's announcements arrive
  MaxNodes,        \* MAX_DISCOVERED_NODES: 256
  Expiry,          \* 3 s, in ticks of the publisher's second
  LookEvery,       \* the listener looks at the interface: 2 s
  MaxLostInRow     \* the network loses at most so many announcements in a row

ASSUME DirectoryAssumption ==
  /\ InterfaceOf \in [Nodes -> Interfaces]
  /\ MaxNodes \in Nat /\ Expiry \in Nat /\ LookEvery \in Nat /\ MaxLostInRow \in Nat
  /\ MaxLostInRow + 1 < Expiry

VARIABLES
  oversized,     \* nodes whose announcement is longer than the listener's buffer
                 \* of 1024 bytes; never changes
  directory,     \* node -> seconds since last_seen
  announcing,    \* publishers that run and are active
  sinceSent,     \* seconds since an announcement
  arriving,      \* announcements under way
  lostInRow,
  quietFor,      \* seconds since a publisher stopped
  selected,      \* selector
  joined,        \* current_joined
  sinceLooked,   \* last_iface_check
  turned,        \* the loop ran since the last second
  noted          \* nodes heard since their interface was joined

directoryVars == <<oversized, directory, announcing, sinceSent, arriving, lostInRow, quietFor, selected,
                   joined, sinceLooked, turned, noted>>

(* A known node is renewed, a new one entered while there is room.         *)
(* Faulty variant: a full directory renews nobody.                         *)
Noted_OnlyWithRoom(dir, n) ==
  IF Cardinality(DOMAIN dir) < MaxNodes
  THEN [m \in DOMAIN dir \cup {n} |-> IF m = n THEN 0 ELSE dir[m]]
  ELSE dir

Noted(dir, n) ==
  IF n \in DOMAIN dir \/ Cardinality(DOMAIN dir) < MaxNodes
  THEN [m \in DOMAIN dir \cup {n} |-> IF m = n THEN 0 ELSE dir[m]]
  ELSE dir

(* The end of each turn of the loop.                                       *)
Fresh(dir) == Restrict(dir, {n \in DOMAIN dir : dir[n] < Expiry})

(* An announcement that does not fit is cut off and cannot be parsed.      *)
Receive(n) ==
  /\ n \in arriving
  /\ arriving' = arriving \ {n}
  /\ lostInRow' = [lostInRow EXCEPT ![n] = 0]
  /\ LET heard == n \notin oversized /\ InterfaceOf[n] = joined
     IN  /\ directory' = Fresh(IF heard THEN Noted(directory, n) ELSE directory)
         /\ noted' = IF heard /\ n \in announcing /\ n \in DOMAIN directory'
                     THEN noted \cup {n} ELSE noted
  /\ turned' = TRUE
  /\ UNCHANGED <<oversized, announcing, sinceSent, quietFor, selected, joined, sinceLooked>>

ReceiveNothing ==
  /\ arriving = {}
  /\ directory' = Fresh(directory)
  /\ turned' = TRUE
  /\ UNCHANGED <<oversized, announcing, sinceSent, arriving, lostInRow, quietFor, selected, joined,
                 sinceLooked, noted>>

(* Every two seconds the loop compares the selection with what it joined.  *)
LookAtSelection ==
  /\ sinceLooked >= LookEvery
  /\ sinceLooked' = 0
  /\ joined' = selected
  /\ noted' = IF joined' = joined THEN noted ELSE {}
  /\ UNCHANGED <<oversized, directory, announcing, sinceSent, arriving, lostInRow, quietFor, selected,
                 turned>>

SelectInterface(i) ==
  /\ selected' = i
  /\ UNCHANGED <<oversized, directory, announcing, sinceSent, arriving, lostInRow, quietFor, joined,
                 sinceLooked, turned, noted>>

-----------------------------------------------------------------------------
(* The publishers and the network.                                         *)

StartAnnouncing(n) ==
  /\ n \notin announcing
  /\ announcing' = announcing \cup {n}
  /\ arriving' = arriving \cup {n}
  /\ sinceSent' = [sinceSent EXCEPT ![n] = 0]
  /\ UNCHANGED <<oversized, directory, lostInRow, quietFor, selected, joined, sinceLooked, turned, noted>>

Announce(n) ==
  /\ n \in announcing /\ sinceSent[n] > 0
  /\ arriving' = arriving \cup {n}
  /\ sinceSent' = [sinceSent EXCEPT ![n] = 0]
  /\ UNCHANGED <<oversized, directory, announcing, lostInRow, quietFor, selected, joined, sinceLooked,
                 turned, noted>>

StopAnnouncing(n) ==
  /\ n \in announcing
  /\ announcing' = announcing \ {n}
  /\ noted' = noted \ {n}
  /\ quietFor' = [quietFor EXCEPT ![n] = 0]
  /\ sinceSent' = [sinceSent EXCEPT ![n] = 0]
  /\ UNCHANGED <<oversized, directory, arriving, lostInRow, selected, joined, sinceLooked, turned>>

LoseAnnouncement(n) ==
  /\ n \in arriving /\ lostInRow[n] < MaxLostInRow
  /\ arriving' = arriving \ {n}
  /\ lostInRow' = [lostInRow EXCEPT ![n] = @ + 1]
  /\ UNCHANGED <<oversized, directory, announcing, sinceSent, quietFor, selected, joined, sinceLooked,
                 turned, noted>>

(* A second; the loop runs at least every 500 ms.                          *)
Second ==
  /\ turned /\ arriving = {} /\ sinceLooked < LookEvery
  /\ \A n \in announcing : sinceSent[n] = 0
  /\ directory' = [n \in DOMAIN directory |-> directory[n] + 1]
  /\ sinceSent' = [n \in Nodes |-> IF n \in announcing THEN 1 ELSE 0]
  /\ quietFor' = [n \in Nodes |->
       IF n \in announcing \/ quietFor[n] > Expiry THEN quietFor[n] ELSE quietFor[n] + 1]
  /\ sinceLooked' = sinceLooked + 1
  /\ turned' = FALSE
  /\ UNCHANGED <<oversized, announcing, arriving, lostInRow, selected, joined, noted>>

DirectoryInit ==
  /\ oversized \in SUBSET Nodes
  /\ directory = << >> /\ announcing = {} /\ arriving = {} /\ noted = {}
  /\ sinceSent = [n \in Nodes |-> 0]
  /\ lostInRow = [n \in Nodes |-> 0]
  /\ quietFor = [n \in Nodes |-> Expiry]
  /\ selected \in Interfaces /\ joined = selected
  /\ sinceLooked = 0 /\ turned = FALSE

DirectoryNext ==
  \/ \E n \in Nodes :
       \/ Receive(n) \/ StartAnnouncing(n) \/ Announce(n) \/ StopAnnouncing(n)
       \/ LoseAnnouncement(n)
  \/ ReceiveNothing \/ LookAtSelection \/ Second
  \/ \E i \in Interfaces : SelectInterface(i)

DirectorySpec == DirectoryInit /\ [][DirectoryNext]_directoryVars

-----------------------------------------------------------------------------
(* A node that was heard and goes on announcing stays listed, whatever is  *)
(* lost and however many others there are; one that stopped is gone after  *)
(* three seconds; the directory keeps within its limit (discovery.rs 491,  *)
(* 507-508).                                                               *)
DirectoryFollows ==
  /\ Cardinality(DOMAIN directory) <= MaxNodes
  /\ noted \subseteq DOMAIN directory
  /\ turned => \A n \in DOMAIN directory : n \in announcing \/ quietFor[n] <= Expiry

=============================================================================
