--------------------------- MODULE SubscriberLeases ---------------------------
(***************************************************************************)
(* A publisher's subscriber registry (network-core, discovery.rs): the     *)
(* control listener enters and renews receivers, every snapshot a          *)
(* publisher takes expires the ones not heard of for SUBSCRIBER_LEASE.     *)
(*                                                                         *)
(* The receivers here are the ones that ask again all the time, as the     *)
(* desktop application, the ASIO player, the plug-in and the web gateway   *)
(* do; StreamSession has the one that asks only after silence.             *)
(*                                                                         *)
(* Time passes in ticks.  The network loses or delays requests within the  *)
(* bounds MaxLosses and MaxDelay.                                          *)
(***************************************************************************)
EXTENDS Integers, FiniteSets, Sequences

CONSTANTS
  Receivers,        \* receiver addresses
  Streams,
  Assignments,      \* the streams receivers may ask for, [Receivers -> Streams]
  Lease,            \* SUBSCRIBER_LEASE: 15 s
  MaxStreams,       \* MAX_SUBSCRIBER_STREAMS: 1024
  Limits,           \* values of MAX_SUBSCRIBERS_PER_STREAM (64 in the code)
  RenewEvery,       \* a running receiver asks at least this often
  MaxLosses,        \* the network loses at most so many requests in a row
  MaxDelay          \* ticks a request may be under way

ASSUME LeasesAssumption ==
  /\ Assignments \subseteq [Receivers -> Streams] /\ Limits \subseteq Nat \ {0}
  /\ Lease \in Nat \ {0} /\ MaxStreams \in Nat \ {0}
  /\ RenewEvery \in Nat \ {0} /\ MaxLosses \in Nat /\ MaxDelay \in Nat
  /\ (MaxLosses + 1) * RenewEvery + MaxDelay < Lease

VARIABLES
  streamOf,       \* the stream a receiver asks for, never changes
  maxSubscribers, \* MAX_SUBSCRIBERS_PER_STREAM, never changes
  registry,       \* SubscriberRegistry: stream -> entries [address, age]
  running,        \* receivers whose renewal thread runs
  sinceAsked,     \* ticks since a running receiver asked
  requests,       \* requests under way: [from, age]
  losses,         \* requests lost in a row
  entered,        \* running receivers that found a place since they started
  stoppedFor      \* ticks since a receiver stopped

setting == <<streamOf, maxSubscribers>>
vars == <<setting, registry, running, sinceAsked, requests, losses, entered, stoppedFor>>

Longest == Lease + MaxDelay      \* bound: longer times are not told apart
Later(t, bound) == IF t < bound THEN t + 1 ELSE t

-----------------------------------------------------------------------------
(* The registry.                                                           *)

Alive(entry) == entry.age < Lease
Listed(reg, r) ==
  /\ streamOf[r] \in DOMAIN reg
  /\ \E i \in DOMAIN reg[streamOf[r]] : reg[streamOf[r]][i].address = r

(* retain: the entries among the first i that have not expired.            *)
RetainedUpTo(entries) ==
  LET kept[i \in 0 .. Len(entries)] ==
        IF i = 0 THEN << >>
        ELSE IF Alive(entries[i]) THEN Append(kept[i - 1], entries[i])
        ELSE kept[i - 1]
  IN  kept

Retained(entries) == RetainedUpTo(entries)[Len(entries)]

(* Expired entries leave, and with its last entry the stream.              *)
Purge(reg) ==
  [s \in {t \in DOMAIN reg : \E i \in DOMAIN reg[t] : Alive(reg[t][i])} |-> Retained(reg[s])]

Entries(reg, s) == IF s \in DOMAIN reg THEN reg[s] ELSE << >>
Subscribers(reg, s) == {Entries(reg, s)[i].address : i \in DOMAIN Entries(reg, s)}
WithEntries(reg, s, entries) ==
  [t \in DOMAIN reg \cup {s} |-> IF t = s THEN entries ELSE reg[t]]

(* The subscribe branch of the control listener, on a purged registry.     *)
(* Faulty variants: one more than the limit is entered; a renewal renews   *)
(* every entry of the stream; it renews none.                              *)
Entered_Overfull(reg, r) ==
  LET s == streamOf[r]
      entries == Entries(reg, s)
      full == s \notin DOMAIN reg /\ Cardinality(DOMAIN reg) >= MaxStreams
  IN  CASE full -> reg
        [] Listed(reg, r) ->
             WithEntries(reg, s, [i \in DOMAIN entries |->
               IF entries[i].address = r THEN [address |-> r, age |-> 0] ELSE entries[i]])
        [] ~ full /\ ~ Listed(reg, r) /\ Len(entries) <= maxSubscribers ->
             WithEntries(reg, s, Append(entries, [address |-> r, age |-> 0]))
        [] OTHER -> reg

Entered_RenewsAll(reg, r) ==
  LET s == streamOf[r]
      entries == Entries(reg, s)
      full == s \notin DOMAIN reg /\ Cardinality(DOMAIN reg) >= MaxStreams
  IN  CASE full -> reg
        [] Listed(reg, r) ->
             WithEntries(reg, s, [i \in DOMAIN entries |->
                                    [entries[i] EXCEPT !.age = 0]])
        [] ~ full /\ ~ Listed(reg, r) /\ Len(entries) < maxSubscribers ->
             WithEntries(reg, s, Append(entries, [address |-> r, age |-> 0]))
        [] OTHER -> reg

Entered_NotRenewed(reg, r) ==
  LET s == streamOf[r]
      entries == Entries(reg, s)
      full == s \notin DOMAIN reg /\ Cardinality(DOMAIN reg) >= MaxStreams
  IN  CASE full -> reg
        [] Listed(reg, r) -> reg
        [] ~ full /\ ~ Listed(reg, r) /\ Len(entries) < maxSubscribers ->
             WithEntries(reg, s, Append(entries, [address |-> r, age |-> 0]))
        [] OTHER -> reg

Entered(reg, r) ==
  LET s == streamOf[r]
      entries == Entries(reg, s)
      full == s \notin DOMAIN reg /\ Cardinality(DOMAIN reg) >= MaxStreams
  IN  CASE full -> reg
        [] Listed(reg, r) ->
             WithEntries(reg, s, [i \in DOMAIN entries |->
               IF entries[i].address = r THEN [address |-> r, age |-> 0] ELSE entries[i]])
        [] ~ full /\ ~ Listed(reg, r) /\ Len(entries) < maxSubscribers ->
             WithEntries(reg, s, Append(entries, [address |-> r, age |-> 0]))
        [] OTHER -> reg

(* active_subscribers, which returns the Subscribers of s that are left.   *)
Snapshot ==
  /\ registry' = Purge(registry)
  /\ UNCHANGED <<setting, running, sinceAsked, requests, losses, entered, stoppedFor>>

(* run_control_listener takes a request off its socket.                    *)
(* Faulty variant: expiry is left to the publishers' snapshots.            *)
Handle_Unpurged(m) ==
  /\ requests' = requests \ {m}
  /\ registry' = Entered(registry, m.from)
  /\ losses' = [losses EXCEPT ![m.from] = 0]
  /\ entered' = IF m.from \in running /\ Listed(registry', m.from)
                THEN entered \cup {m.from} ELSE entered
  /\ UNCHANGED <<setting, running, sinceAsked, stoppedFor>>

Handle(m) ==
  /\ requests' = requests \ {m}
  /\ losses' = [losses EXCEPT ![m.from] = 0]
  /\ registry' = Entered(Purge(registry), m.from)
  /\ entered' = IF m.from \in running /\ Listed(registry', m.from)
                THEN entered \cup {m.from} ELSE entered
  /\ UNCHANGED <<setting, running, sinceAsked, stoppedFor>>

-----------------------------------------------------------------------------
(* The receivers and the network.                                          *)

SendRequest(r) ==
  /\ requests' = requests \cup {[from |-> r, age |-> 0]}
  /\ sinceAsked' = [sinceAsked EXCEPT ![r] = 0]

Start(r) ==
  /\ r \notin running
  /\ running' = running \cup {r}
  /\ SendRequest(r)
  /\ UNCHANGED <<setting, registry, losses, entered, stoppedFor>>

(* The loop sends, then sleeps a second in ten parts.                      *)
Ask(r) ==
  /\ r \in running
  /\ sinceAsked[r] > 0
  /\ SendRequest(r)
  /\ UNCHANGED <<setting, registry, running, losses, entered, stoppedFor>>

(* Nothing tells the publisher.                                            *)
Stop(r) ==
  /\ r \in running
  /\ running' = running \ {r}
  /\ entered' = entered \ {r}
  /\ stoppedFor' = [stoppedFor EXCEPT ![r] = 0]
  /\ sinceAsked' = [sinceAsked EXCEPT ![r] = 0]
  /\ UNCHANGED <<setting, registry, requests, losses>>

Lose(m) ==
  /\ losses[m.from] < MaxLosses
  /\ requests' = requests \ {m}
  /\ losses' = [losses EXCEPT ![m.from] = @ + 1]
  /\ UNCHANGED <<setting, registry, running, sinceAsked, entered, stoppedFor>>

Tick ==
  /\ \A m \in requests : m.age < MaxDelay
  /\ \A r \in running : sinceAsked[r] < RenewEvery
  /\ registry' = [s \in DOMAIN registry |->
       [i \in DOMAIN registry[s] |->
          [registry[s][i] EXCEPT !.age = Later(@, Lease)]]]
  /\ requests' = {[m EXCEPT !.age = @ + 1] : m \in requests}
  /\ sinceAsked' = [r \in Receivers |->
       IF r \in running THEN sinceAsked[r] + 1 ELSE sinceAsked[r]]
  /\ stoppedFor' = [r \in Receivers |->
       IF r \in running THEN stoppedFor[r] ELSE Later(stoppedFor[r], Longest)]
  /\ UNCHANGED <<setting, running, losses, entered>>

Init ==
  /\ streamOf \in Assignments /\ maxSubscribers \in Limits
  /\ registry = << >>
  /\ running = {}
  /\ sinceAsked = [r \in Receivers |-> 0]
  /\ requests = {}
  /\ losses = [r \in Receivers |-> 0]
  /\ entered = {}
  /\ stoppedFor = [r \in Receivers |-> Longest]

Deliver == \E m \in requests : Lose(m) \/ Handle(m)

Next ==
  \/ Snapshot
  \/ Deliver
  \/ \E r \in Receivers : Start(r) \/ Ask(r) \/ Stop(r)
  \/ Tick

Spec == Init /\ [][Next]_vars

(* Time goes on: threads ask, requests arrive or are lost.                 *)
Fairness ==
  /\ WF_vars(Tick) /\ WF_vars(Deliver)
  /\ \A r \in Receivers : WF_vars(Ask(r))

FairSpec == Spec /\ Fairness

-----------------------------------------------------------------------------
(* A receiver holds one place, of the stream it asked for, and the places  *)
(* are within the limits: nobody is sent a packet twice.                   *)
OnePlaceEach ==
  /\ Cardinality(DOMAIN registry) <= MaxStreams
  /\ \A s \in DOMAIN registry :
       /\ Len(registry[s]) <= maxSubscribers
       /\ \A i \in DOMAIN registry[s] : streamOf[registry[s][i].address] = s
       /\ \A i, j \in DOMAIN registry[s] :
            registry[s][i].address = registry[s][j].address => i = j

(* A receiver that found a place and goes on asking keeps it, whatever     *)
(* requests are lost, and however many others want one.                    *)
SteadyIsKept ==
  \A r \in entered :
    /\ Listed(registry, r)
    /\ \A i \in DOMAIN registry[streamOf[r]] :
         registry[streamOf[r]][i].address = r => Alive(registry[streamOf[r]][i])

(* No snapshot has a receiver that stopped a lease and a delay ago:        *)
(* nobody else's requests keep its place.                                  *)
AbandonedIsDropped ==
  LET snapshot == Purge(registry)
  IN  \A s \in DOMAIN snapshot : \A r \in Subscribers(snapshot, s) :
        r \in running \/ stoppedFor[r] < Longest

(* The lease does what it is for: it keeps who asks and drops who left.    *)
LeaseHonoured == SteadyIsKept /\ AbandonedIsDropped

(* Whoever goes on asking gets a place in the end if there is one for all  *)
(* that ask: places of receivers that went away are given back.            *)
Fit(rs) ==
  LET wanted == {streamOf[r] : r \in rs}
  IN  /\ Cardinality(wanted) <= MaxStreams
      /\ \A s \in wanted : Cardinality({r \in rs : streamOf[r] = s}) <= maxSubscribers

PlacesComeBack ==
  \A rs \in SUBSET Receivers \ {{}} :
    Fit(rs) => (<>[](running = rs) => <>[](rs \subseteq entered))

=============================================================================
