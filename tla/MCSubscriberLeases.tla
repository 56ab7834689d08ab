-------------------------- MODULE MCSubscriberLeases --------------------------
(* Two receivers that compete for the places of one stream, or for the     *)
(* only stream there is room for.                                          *)
EXTENDS SubscriberLeases

CONSTANTS r1, r2, s1, s2

MCAssignments == {[r \in Receivers |-> s1], [r \in Receivers |-> IF r = r1 THEN s1 ELSE s2]}

(* Where each has a stream of its own the limit per stream does not matter. *)
LeasesInit == Init /\ (streamOf[r1] # streamOf[r2] => maxSubscribers = 1)

LeasesSpec == LeasesInit /\ [][Next]_vars /\ Fairness

=============================================================================
