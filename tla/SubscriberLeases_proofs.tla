------------------------ MODULE SubscriberLeases_proofs ------------------------
(***************************************************************************)
(* Proofs about the subscriber registry: a receiver has one place and the  *)
(* places are within the limits; who goes on asking is kept, whatever the  *)
(* network loses within its bounds, and who stopped is dropped.            *)
(*                                                                         *)
(* The order of entries plays no part: the registry is looked at as the    *)
(* set of its entries (In), and each change of it is described once by     *)
(* what it does to that set.                                               *)
(***************************************************************************)
EXTENDS SubscriberLeases, FiniteSetTheorems, SequenceTheorems, WellFoundedInduction, TLAPS

Entry == [address : Receivers, age : 0 .. Lease]

(* An entry that stands in a list, and in that of stream s.                *)
Among(es, e) == \E i \in DOMAIN es : es[i] = e
In(reg, s, e) == s \in DOMAIN reg /\ Among(reg[s], e)

Placed(es, s) ==
  /\ es \in Seq(Entry) /\ Len(es) <= maxSubscribers
  /\ \A i \in DOMAIN es : streamOf[es[i].address] = s
  /\ \A i, j \in DOMAIN es : es[i].address = es[j].address => i = j

RegistryKept(reg) ==
  /\ DOMAIN reg \subseteq Streams
  /\ IsFiniteSet(DOMAIN reg) /\ Cardinality(DOMAIN reg) <= MaxStreams
  /\ \A s \in DOMAIN reg : Placed(reg[s], s)

Request == [from : Receivers, age : 0 .. MaxDelay]

LeaseTypes ==
  /\ streamOf \in [Receivers -> Streams] /\ maxSubscribers \in Nat \ {0}
  /\ running \subseteq Receivers /\ entered \subseteq running
  /\ requests \subseteq Request /\ IsFiniteSet(requests)
  /\ sinceAsked \in [Receivers -> 0 .. RenewEvery]
  /\ losses \in [Receivers -> 0 .. MaxLosses]
  /\ stoppedFor \in [Receivers -> Nat]

(* The requests of r among reqs that were sent more than c ticks ago.      *)
Late(reqs, r, c) == {m \in reqs : m.from = r /\ m.age > c}

(* A receiver asks every RenewEvery ticks, and what it asked was lost or   *)
(* is under way; so the age of an entry is bounded by the requests sent    *)
(* since it was renewed, and for every c by those that are older than c.   *)
RenewedBy(reqs, r, since, lost, age) ==
  /\ age <= since + RenewEvery * (lost + Cardinality(Late(reqs, r, -1)))
  /\ \A c \in 0 .. age : age - c <= RenewEvery * (lost + Cardinality(Late(reqs, r, c)) + 1)

Renewed(r, age) == RenewedBy(requests, r, sinceAsked[r], losses[r], age)

SteadyInv ==
  \A r \in entered :
    /\ \E e \in Entry : In(registry, streamOf[r], e) /\ e.address = r
    /\ \A e \in Entry : In(registry, streamOf[r], e) /\ e.address = r => Renewed(r, e.age)

(* Requests on their way were sent before their receiver stopped, and an   *)
(* entry it renewed since is as old as that, but for the delay.            *)
StoppedInv ==
  /\ \A m \in requests :
       IF m.from \in running THEN sinceAsked[m.from] <= m.age ELSE stoppedFor[m.from] <= m.age
  /\ \A s \in Streams : \A e \in Entry :
       In(registry, s, e) /\ e.address \notin running => stoppedFor[e.address] <= e.age + MaxDelay

LeaseIInv == LeaseTypes /\ RegistryKept(registry) /\ SteadyInv /\ StoppedInv

-----------------------------------------------------------------------------
(* Natural numbers.                                                        *)

LEMMA Least ==
  ASSUME NEW T \in SUBSET Nat, T # {}
  PROVE  \E x \in T : \A y \in T : x <= y
  <1> DEFINE R == {ss \in Nat \X Nat : ss[1] < ss[2]}
  <1>1. IsWellFoundedOn(R, Nat)
    BY NatLessThanWellFounded DEF OpToRel
  <1>2. \A x, y \in Nat : <<y, x>> \in R <=> y < x
    OBVIOUS
  <1> HIDE DEF R
  <1>3. PICK x \in T : \A y \in T : ~ (<<y, x>> \in R)
    BY <1>1, WFMin
  <1>4. \A y \in T : ~ (y < x) /\ y \in Nat /\ x \in Nat
    BY <1>2, <1>3
  <1> QED BY <1>3, <1>4

(* Induction up to n, the claim being given by the set of what satisfies it. *)
LEMMA UpTo ==
  ASSUME NEW n \in Nat, NEW Good, 0 \in Good, \A i \in 0 .. n - 1 : i \in Good => i + 1 \in Good
  PROVE  \A i \in 0 .. n : i \in Good
  <1> SUFFICES ASSUME NEW b \in 0 .. n, b \notin Good PROVE FALSE
    OBVIOUS
  <1> DEFINE T == {i \in 0 .. n : i \notin Good}
  <1>1. T \in SUBSET Nat /\ b \in T
    OBVIOUS
  <1>2. PICK x \in T : \A y \in T : x <= y
    BY <1>1, Least
  <1>3. x # 0 /\ x \in 1 .. n
    BY <1>2
  <1>4. x - 1 \in Good /\ x - 1 \in 0 .. n - 1
    BY <1>2, <1>3
  <1> QED BY <1>2, <1>4

LEMMA TimesMonotone ==
  ASSUME NEW k \in Nat, NEW m \in Nat, NEW n \in Nat, m <= n
  PROVE  k * m <= k * n /\ k * m \in Nat /\ k * (m + 1) = k * m + k
  OBVIOUS

-----------------------------------------------------------------------------
(* retain.                                                                 *)

LEMMA RetainedSteps ==
  ASSUME NEW es, Len(es) \in Nat
  PROVE  LET kept == RetainedUpTo(es)
         IN  /\ kept[0] = << >>
             /\ \A i \in 1 .. Len(es) :
                  kept[i] = IF Alive(es[i]) THEN Append(kept[i - 1], es[i]) ELSE kept[i - 1]
  <1> DEFINE Step(k, i) == IF i = 0 THEN << >>
                           ELSE IF Alive(es[i]) THEN Append(k[i - 1], es[i]) ELSE k[i - 1]
             Is(k, n) == k = [i \in 0 .. n |-> Step(k, i)]
             Good == {n \in Nat : \E k : Is(k, n)}
  <1>1. 0 \in Good
    <2> DEFINE k == [i \in 0 .. 0 |-> << >>]
    <2>1. Is(k, 0)
      OBVIOUS
    <2> QED BY <2>1
  <1>2. ASSUME NEW n \in 0 .. Len(es) - 1, n \in Good
        PROVE  n + 1 \in Good
    <2>1. PICK k : Is(k, n)
      BY <1>2
    <2> DEFINE h == [i \in 0 .. n + 1 |-> IF i = n + 1 THEN Step(k, n + 1) ELSE k[i]]
    <2>2. \A i \in 0 .. n + 1 : h[i] = Step(h, i)
      <3> SUFFICES ASSUME NEW i \in 0 .. n + 1 PROVE h[i] = Step(h, i)
        OBVIOUS
      <3>1. i - 1 \in 0 .. n => h[i - 1] = k[i - 1]
        OBVIOUS
      <3>2. CASE i = n + 1
        BY <3>1, <3>2
      <3>3. CASE i \in 0 .. n
        <4>1. k[i] = Step(k, i)
          BY <2>1, <3>3
        <4>2. h[i] = k[i]
          BY <3>3
        <4> QED BY <3>1, <3>3, <4>1, <4>2
      <3> QED BY <3>2, <3>3
    <2>3. Is(h, n + 1)
      BY <2>2
    <2>4. \E g : Is(g, n + 1)
      BY <2>3
    <2> HIDE DEF Is
    <2> QED BY <2>4
  <1> HIDE DEF Good
  <1>3. Len(es) \in Good
    <2>1. \A i \in 0 .. Len(es) - 1 : i \in Good => i + 1 \in Good
      BY <1>2
    <2>2. \A i \in 0 .. Len(es) : i \in Good
      BY <1>1, <2>1, UpTo
    <2> QED BY <2>2
  <1> USE DEF Good
  <1>4. PICK k : Is(k, Len(es))
    BY <1>3
  <1> DEFINE kept == RetainedUpTo(es)
  <1>5. Is(kept, Len(es))
    BY <1>4 DEF RetainedUpTo
  <1>6. \A i \in 0 .. Len(es) : kept[i] = Step(kept, i)
    BY <1>5
  <1> QED BY <1>6

(* What is retained is what has not expired, in places of its own.         *)
LEMMA RetainedFacts ==
  ASSUME NEW s, NEW es, Placed(es, s), maxSubscribers \in Nat
  PROVE  /\ Placed(Retained(es), s)
         /\ \A e : Among(Retained(es), e) <=> Alive(e) /\ Among(es, e)
  <1> DEFINE kept == RetainedUpTo(es)
             n == Len(es)
             Right(i) ==
               /\ kept[i] \in Seq(Entry) /\ Len(kept[i]) <= i
               /\ \A k \in 1 .. Len(kept[i]) :
                    Alive(kept[i][k]) /\ \E j \in 1 .. i : es[j] = kept[i][k]
               /\ \A j \in 1 .. i : Alive(es[j]) => \E k \in 1 .. Len(kept[i]) : kept[i][k] = es[j]
               /\ \A k, l \in 1 .. Len(kept[i]) :
                    kept[i][k].address = kept[i][l].address => k = l
             Good == {i \in Nat : Right(i)}
  <1>1. /\ es \in Seq(Entry) /\ n \in Nat /\ DOMAIN es = 1 .. n
        /\ \A i \in 1 .. n : es[i] \in Entry
        /\ \A i, j \in 1 .. n : es[i].address = es[j].address => i = j
    BY LenProperties, ElementOfSeq DEF Placed
  <1>2. /\ kept[0] = << >>
        /\ \A i \in 1 .. n : kept[i] = IF Alive(es[i]) THEN Append(kept[i - 1], es[i]) ELSE kept[i - 1]
    BY <1>1, RetainedSteps
  <1> HIDE DEF kept
  <1>3. 0 \in Good
    <2>1. kept[0] \in Seq(Entry) /\ Len(kept[0]) = 0
      BY <1>2, EmptySeq
    <2> QED BY <2>1
  <1>4. ASSUME NEW i \in 0 .. n - 1, Right(i)
        PROVE  Right(i + 1)
    <2> DEFINE old == kept[i]
               new == kept[i + 1]
               e == es[i + 1]
    <2>1. i + 1 \in 1 .. n /\ i + 1 - 1 = i /\ i \in Nat
      BY <1>1
    <2>2. /\ old \in Seq(Entry) /\ Len(old) \in Nat /\ Len(old) <= i
          /\ \A k \in 1 .. Len(old) : Alive(old[k]) /\ \E j \in 1 .. i : es[j] = old[k]
          /\ \A j \in 1 .. i : Alive(es[j]) => \E k \in 1 .. Len(old) : old[k] = es[j]
          /\ \A k, l \in 1 .. Len(old) : old[k].address = old[l].address => k = l
      BY <1>4, LenProperties
    <2>3. new = IF Alive(e) THEN Append(old, e) ELSE old
      BY <1>2, <2>1
    <2>4. \A j \in 1 .. i + 1 : j \in 1 .. i \/ j = i + 1
      BY <2>1
    <2>5. \A j \in 1 .. i : j \in 1 .. i + 1 /\ j \in 1 .. n /\ j # i + 1
      BY <1>1, <2>1
    <2>6. CASE ~ Alive(e)
      <3>1. new = old /\ Len(new) <= i + 1
        BY <2>1, <2>2, <2>3, <2>6
      <3> HIDE DEF old, new
      <3> QED BY <2>2, <2>4, <2>5, <2>6, <3>1 DEF new
    <2>7. CASE Alive(e)
      <3> DEFINE m == Len(old)
      <3>1. /\ new \in Seq(Entry) /\ Len(new) = m + 1
            /\ \A k \in 1 .. m : new[k] = old[k]
            /\ new[m + 1] = e
        BY <1>1, <2>1, <2>2, <2>3, <2>7, AppendProperties
      <3>2. \A k \in 1 .. m : Alive(old[k]) /\ \E j \in 1 .. i : es[j] = old[k]
        BY <2>2
      <3>3. \A j \in 1 .. i : Alive(es[j]) => \E k \in 1 .. m : old[k] = es[j]
        BY <2>2
      <3>4. \A k, l \in 1 .. m : old[k].address = old[l].address => k = l
        BY <2>2
      <3>5. m \in Nat /\ m <= i
        BY <2>2
      <3> HIDE DEF m, old, new, e
      <3>6. \A k \in 1 .. m + 1 : k \in 1 .. m \/ k = m + 1
        BY <3>5
      <3>7. \A k \in 1 .. m : k \in 1 .. m + 1
        BY <3>5
      <3>8. m + 1 \in 1 .. m + 1 /\ m + 1 <= i + 1 /\ i + 1 \in 1 .. i + 1
        BY <2>1, <3>5
      <3>9. \A k \in 1 .. m + 1 : Alive(new[k]) /\ \E j \in 1 .. i + 1 : es[j] = new[k]
        <4> TAKE k \in 1 .. m + 1
        <4>1. CASE k \in 1 .. m
          BY <2>5, <3>1, <3>2, <4>1
        <4>2. CASE k = m + 1
          BY <2>7, <3>1, <3>8, <4>2 DEF e
        <4> QED BY <3>6, <4>1, <4>2
      <3>10. \A j \in 1 .. i + 1 : Alive(es[j]) => \E k \in 1 .. m + 1 : new[k] = es[j]
        <4> TAKE j \in 1 .. i + 1
        <4>1. CASE j \in 1 .. i
          BY <3>1, <3>3, <3>7, <4>1
        <4>2. CASE j = i + 1
          BY <3>1, <3>8, <4>2 DEF e
        <4> QED BY <2>4, <4>1, <4>2
      <3>11. \A k \in 1 .. m : old[k].address # e.address
        <4> TAKE k \in 1 .. m
        <4>1. PICK j \in 1 .. i : es[j] = old[k]
          BY <3>2
        <4> QED BY <1>1, <2>1, <2>5, <4>1 DEF e
      <3>12. \A k, l \in 1 .. m + 1 : new[k].address = new[l].address => k = l
        BY <3>1, <3>4, <3>6, <3>11
      <3> QED BY <3>1, <3>8, <3>9, <3>10, <3>12 DEF new
    <2> QED BY <2>6, <2>7
  <1>5. Right(n)
    <2> HIDE DEF Right
    <2>1. \A i \in 0 .. n - 1 : i \in Good => i + 1 \in Good
      <3> TAKE i \in 0 .. n - 1
      <3>1. i + 1 \in Nat
        BY <1>1
      <3> QED BY <1>4, <3>1
    <2>2. \A i \in 0 .. n : i \in Good
      <3> HIDE DEF Good, n
      <3> QED BY <1>1, <1>3, <2>1, UpTo
    <2> QED BY <1>1, <2>2
  <1>6. kept[n] = Retained(es)
    BY DEF Retained, kept
  <1>7. Len(kept[n]) \in Nat /\ DOMAIN kept[n] = 1 .. Len(kept[n])
    BY <1>5, LenProperties
  <1>8. Placed(kept[n], s)
    <2>1. Len(kept[n]) <= maxSubscribers
      <3>1. n <= maxSubscribers
        BY DEF Placed
      <3>2. Len(kept[n]) <= n
        BY <1>5
      <3> HIDE DEF n
      <3> QED BY <1>1, <1>7, <3>1, <3>2
    <2>2. \A i \in DOMAIN kept[n] : streamOf[kept[n][i].address] = s
      <3> TAKE i \in DOMAIN kept[n]
      <3>1. PICK j \in 1 .. n : es[j] = kept[n][i]
        BY <1>5, <1>7
      <3>2. streamOf[es[j].address] = s
        BY <1>1 DEF Placed
      <3> QED BY <3>1, <3>2
    <2> QED BY <1>5, <1>7, <2>1, <2>2 DEF Placed
  <1>9. \A e : Among(kept[n], e) <=> Alive(e) /\ Among(es, e)
    <2> TAKE e
    <2>1. ASSUME NEW k \in DOMAIN kept[n], kept[n][k] = e
          PROVE  Alive(e) /\ \E i \in DOMAIN es : es[i] = e
      BY <1>1, <1>5, <1>7, <2>1
    <2>2. ASSUME Alive(e), NEW i \in DOMAIN es, es[i] = e
          PROVE  \E k \in DOMAIN kept[n] : kept[n][k] = e
      BY <1>1, <1>5, <1>7, <2>2
    <2> QED BY <2>1, <2>2 DEF Among
  <1> QED BY <1>6, <1>8, <1>9

-----------------------------------------------------------------------------
(* What each change of the registry does to the set of its entries.        *)

LEMMA EntryOfIn ==
  ASSUME NEW reg, RegistryKept(reg), NEW s, NEW e, In(reg, s, e)
  PROVE  s \in Streams /\ e \in Entry /\ streamOf[e.address] = s
  BY LenProperties, ElementOfSeq DEF In, Among, RegistryKept, Placed

(* Of one address there is one entry.                                      *)
LEMMA OneEntry ==
  ASSUME NEW reg, RegistryKept(reg), NEW s, NEW e, NEW f,
         In(reg, s, e), In(reg, s, f), e.address = f.address
  PROVE  e = f
  BY DEF In, Among, RegistryKept, Placed

LEMMA PurgeFacts ==
  ASSUME NEW reg, RegistryKept(reg), maxSubscribers \in Nat
  PROVE  /\ RegistryKept(Purge(reg))
         /\ \A s, e : In(Purge(reg), s, e) <=> In(reg, s, e) /\ Alive(e)
  <1> DEFINE kept == {t \in DOMAIN reg : \E i \in DOMAIN reg[t] : Alive(reg[t][i])}
  <1>1. /\ DOMAIN Purge(reg) = kept /\ kept \subseteq DOMAIN reg
        /\ \A s \in kept : Purge(reg)[s] = Retained(reg[s])
    BY DEF Purge
  <1>2. \A s \in DOMAIN reg : Placed(reg[s], s)
    BY DEF RegistryKept
  <1>3. IsFiniteSet(kept) /\ Cardinality(kept) <= Cardinality(DOMAIN reg)
    BY <1>1, FS_Subset DEF RegistryKept
  <1>4. /\ Cardinality(kept) \in Nat /\ Cardinality(DOMAIN reg) \in Nat
        /\ Cardinality(DOMAIN reg) <= MaxStreams /\ MaxStreams \in Nat
    BY <1>3, FS_CardinalityType, LeasesAssumption DEF RegistryKept
  <1>5. Cardinality(kept) <= MaxStreams
    BY <1>3, <1>4
  <1>6. \A s \in kept : Placed(Purge(reg)[s], s)
    BY <1>1, <1>2, RetainedFacts
  <1>7. RegistryKept(Purge(reg))
    <2> HIDE DEF kept
    <2> QED BY <1>1, <1>3, <1>5, <1>6 DEF RegistryKept
  <1>8. ASSUME NEW s, NEW e
        PROVE  In(Purge(reg), s, e) <=> In(reg, s, e) /\ Alive(e)
    <2>1. CASE s \in kept
      <3>1. Placed(reg[s], s)
        BY <1>1, <1>2, <2>1
      <3>2. Among(Retained(reg[s]), e) <=> Alive(e) /\ Among(reg[s], e)
        BY <3>1, RetainedFacts
      <3> QED BY <1>1, <2>1, <3>2 DEF In
    <2>2. CASE s \notin kept
      BY <1>1, <2>2 DEF In, Among
    <2> QED BY <2>1, <2>2
  <1> QED BY <1>7, <1>8

(* A request enters or renews its sender, and nobody else.                 *)
LEMMA EnteredFacts ==
  ASSUME NEW reg, RegistryKept(reg), maxSubscribers \in Nat,
         NEW r \in Receivers, streamOf \in [Receivers -> Streams]
  PROVE  LET new == Entered(reg, r)
             renewed == [address |-> r, age |-> 0]
         IN  /\ RegistryKept(new)
             /\ \A s, e : In(new, s, e) =>
                  e = renewed \/ (In(reg, s, e) /\ e.address # r)
             /\ \A s, e : In(reg, s, e) /\ e.address # r => In(new, s, e)
             /\ Listed(reg, r) => In(new, streamOf[r], renewed)
             /\ Listed(new, r) => In(new, streamOf[r], renewed)
  <1> DEFINE new == Entered(reg, r)
             renewed == [address |-> r, age |-> 0]
             s0 == streamOf[r]
             es == Entries(reg, s0)
             n == Len(es)
             renewal == [i \in DOMAIN es |-> IF es[i].address = r THEN renewed ELSE es[i]]
             Facts == /\ RegistryKept(new)
                      /\ \A s, e : In(new, s, e) => e = renewed \/ (In(reg, s, e) /\ e.address # r)
                      /\ \A s, e : In(reg, s, e) /\ e.address # r => In(new, s, e)
                      /\ Listed(reg, r) => In(new, s0, renewed)
                      /\ Listed(new, r) => In(new, s0, renewed)
  <1>1. s0 \in Streams /\ renewed \in Entry
    BY LeasesAssumption DEF Entry
  <1>2. Placed(es, s0)
    <2>1. Placed(<< >>, s0)
      BY EmptySeq DEF Placed
    <2> QED BY <2>1 DEF RegistryKept, Entries
  <1>3. es \in Seq(Entry) /\ n \in Nat /\ DOMAIN es = 1 .. n /\ n <= maxSubscribers
    BY <1>2, LenProperties DEF Placed
  <1>4. Listed(reg, r) <=> \E i \in 1 .. n : es[i].address = r
    BY <1>3 DEF Listed, Entries
  <1>5. \A e : In(reg, s0, e) <=> \E i \in 1 .. n : es[i] = e
    BY <1>3 DEF In, Among, Entries
  (* The three that follow are the branches of Entered.                    *)
  <1>6. ASSUME ~ Listed(reg, r), new = reg
        PROVE  Facts
    <2>1. \A s, e : In(reg, s, e) => e.address # r
      BY <1>6, EntryOfIn DEF In, Among, Listed
    <2> QED BY <1>6, <2>1
  (* A list that takes the place of the one the sender's stream has.       *)
  <1>7. ASSUME NEW list, new = WithEntries(reg, s0, list), Placed(list, s0),
               s0 \in DOMAIN reg \/ Cardinality(DOMAIN reg) < MaxStreams,
               \A e : Among(list, e) <=> e = renewed \/ (In(reg, s0, e) /\ e.address # r)
        PROVE  Facts
    <2>1. /\ DOMAIN new = DOMAIN reg \cup {s0} /\ new[s0] = list
          /\ \A s \in DOMAIN reg : s # s0 => new[s] = reg[s]
      BY <1>7 DEF WithEntries
    <2>2. IsFiniteSet(DOMAIN new) /\ Cardinality(DOMAIN new) <= MaxStreams
      <3>1. /\ IsFiniteSet(DOMAIN reg) /\ Cardinality(DOMAIN reg) \in Nat
            /\ Cardinality(DOMAIN reg) <= MaxStreams /\ MaxStreams \in Nat
        BY FS_CardinalityType, LeasesAssumption DEF RegistryKept
      <3>2. /\ IsFiniteSet(DOMAIN reg \cup {s0})
            /\ Cardinality(DOMAIN reg \cup {s0}) =
                 IF s0 \in DOMAIN reg THEN Cardinality(DOMAIN reg) ELSE Cardinality(DOMAIN reg) + 1
        BY <3>1, FS_AddElement
      <3> HIDE DEF new, s0
      <3> QED BY <1>7, <2>1, <3>1, <3>2
    <2>3. RegistryKept(new)
      BY <1>1, <1>7, <2>1, <2>2 DEF RegistryKept
    <2>4. \A s, e : s # s0 => (In(new, s, e) <=> In(reg, s, e))
      BY <2>1 DEF In
    <2>5. \A e : In(new, s0, e) <=> e = renewed \/ (In(reg, s0, e) /\ e.address # r)
      BY <1>7, <2>1 DEF In
    <2>6. \A s, e : In(reg, s, e) /\ s # s0 => e.address # r
      BY EntryOfIn
    <2> HIDE DEF new, renewed, s0
    <2> QED BY <2>3, <2>4, <2>5, <2>6
  <1>8. CASE s0 \notin DOMAIN reg /\ Cardinality(DOMAIN reg) >= MaxStreams
    <2>1. new = reg
      BY <1>8 DEF Entered, Listed
    <2>2. ~ Listed(reg, r)
      BY <1>8 DEF Listed
    <2> QED BY <1>6, <2>1, <2>2
  <1>9. CASE Listed(reg, r)
    <2>1. new = WithEntries(reg, s0, renewal)
      BY <1>9 DEF Entered, Listed
    <2>2. /\ renewal \in Seq(Entry) /\ Len(renewal) = n /\ DOMAIN renewal = 1 .. n
          /\ \A i \in 1 .. n : renewal[i] = IF es[i].address = r THEN renewed ELSE es[i]
      <3>1. \A i \in 1 .. n : es[i] \in Entry
        BY <1>3, ElementOfSeq
      <3>2. renewal = [i \in 1 .. n |-> IF es[i].address = r THEN renewed ELSE es[i]]
        BY <1>3
      <3>3. renewal \in [1 .. n -> Entry]
        BY <1>1, <3>1, <3>2
      <3> HIDE DEF renewal
      <3>4. renewal \in Seq(Entry)
        BY <1>3, <3>3, SeqDef
      <3> QED BY <1>3, <3>2, <3>3, <3>4, LenProperties
    <2>3. \A i \in 1 .. n : renewal[i].address = es[i].address
      BY <2>2
    <2>4. Placed(renewal, s0)
      <3> HIDE DEF renewal
      <3> QED BY <1>2, <1>3, <2>2, <2>3 DEF Placed
    <2>5. \A e : Among(renewal, e) <=> e = renewed \/ (In(reg, s0, e) /\ e.address # r)
      <3> HIDE DEF renewal
      <3> QED BY <1>4, <1>5, <1>9, <2>2 DEF Among
    <2>6. s0 \in DOMAIN reg
      BY <1>9 DEF Listed
    <2> QED BY <1>7, <2>1, <2>4, <2>5, <2>6
  <1>10. CASE /\ s0 \in DOMAIN reg \/ Cardinality(DOMAIN reg) < MaxStreams
              /\ ~ Listed(reg, r) /\ n < maxSubscribers
    <2> DEFINE longer == Append(es, renewed)
    <2>1. new = WithEntries(reg, s0, longer)
      BY <1>10, LeasesAssumption, FS_CardinalityType DEF Entered, RegistryKept
    <2>2. /\ longer \in Seq(Entry) /\ Len(longer) = n + 1 /\ DOMAIN longer = 1 .. n + 1
          /\ \A i \in 1 .. n : longer[i] = es[i]
          /\ longer[n + 1] = renewed
      BY <1>1, <1>3, AppendProperties, LenProperties
    <2>3. \A i \in 1 .. n + 1 : i \in 1 .. n \/ i = n + 1
      BY <1>3
    <2>4. \A i \in 1 .. n : i \in 1 .. n + 1 /\ i # n + 1 /\ es[i].address # r
      BY <1>3, <1>4, <1>10
    <2>5. n + 1 \in 1 .. n + 1 /\ n + 1 <= maxSubscribers
      BY <1>3, <1>10
    <2> HIDE DEF longer, es, n
    <2>6. Placed(longer, s0)
      <3>1. \A i, j \in 1 .. n + 1 : longer[i].address = longer[j].address => i = j
        <4>1. \A i, j \in 1 .. n : es[i].address = es[j].address => i = j
          BY <1>2, <1>3 DEF Placed
        <4>2. \A i \in 1 .. n : longer[i].address = es[i].address /\ es[i].address # r
          BY <2>2, <2>4
        <4>3. longer[n + 1].address = r
          BY <2>2
        <4> QED BY <2>3, <4>1, <4>2, <4>3
      <3>2. \A i \in 1 .. n + 1 : streamOf[longer[i].address] = s0
        BY <1>2, <1>3, <2>2, <2>3 DEF Placed
      <3> QED BY <2>2, <2>5, <3>1, <3>2 DEF Placed
    <2>7. \A e : Among(longer, e) <=> e = renewed \/ (In(reg, s0, e) /\ e.address # r)
      BY <1>5, <2>2, <2>3, <2>4, <2>5 DEF Among
    <2> QED BY <1>7, <1>10, <2>1, <2>6, <2>7
  <1>11. CASE /\ s0 \in DOMAIN reg \/ Cardinality(DOMAIN reg) < MaxStreams
              /\ ~ Listed(reg, r) /\ ~ (n < maxSubscribers)
    <2>1. new = reg
      BY <1>11, LeasesAssumption, FS_CardinalityType DEF Entered, RegistryKept
    <2> QED BY <1>6, <1>11, <2>1
  <1>12. \/ s0 \notin DOMAIN reg /\ Cardinality(DOMAIN reg) >= MaxStreams
         \/ s0 \in DOMAIN reg \/ Cardinality(DOMAIN reg) < MaxStreams
    BY LeasesAssumption, FS_CardinalityType DEF RegistryKept
  <1> QED BY <1>8, <1>9, <1>10, <1>11, <1>12

(* A tick ages every entry, and that is all.                               *)
Older(e) == [e EXCEPT !.age = Later(@, Lease)]
Aged(reg) == [s \in DOMAIN reg |-> [i \in DOMAIN reg[s] |-> Older(reg[s][i])]]

LEMMA OlderFacts ==
  ASSUME NEW e \in Entry
  PROVE  /\ Older(e) \in Entry /\ Older(e).address = e.address
         /\ e.age \in Nat /\ e.age <= Lease /\ Older(e).age \in Nat
         /\ Older(e).age = IF e.age < Lease THEN e.age + 1 ELSE e.age
  BY LeasesAssumption DEF Older, Entry, Later

LEMMA AgedFacts ==
  ASSUME NEW reg, RegistryKept(reg), maxSubscribers \in Nat
  PROVE  /\ RegistryKept(Aged(reg))
         /\ \A s, f : In(Aged(reg), s, f) => \E e : In(reg, s, e) /\ f = Older(e)
         /\ \A s, e : In(reg, s, e) => In(Aged(reg), s, Older(e))
  <1> DEFINE aged(es) == [i \in DOMAIN es |-> Older(es[i])]
  <1>1. ASSUME NEW s, NEW es, Placed(es, s)
        PROVE  /\ Placed(aged(es), s)
               /\ \A f : Among(aged(es), f) <=> \E e : Among(es, e) /\ f = Older(e)
    <2>1. /\ es \in Seq(Entry) /\ Len(es) \in Nat /\ DOMAIN es = 1 .. Len(es)
          /\ \A i \in 1 .. Len(es) : es[i] \in Entry
      BY <1>1, LenProperties, ElementOfSeq DEF Placed
    <2>2. \A i \in 1 .. Len(es) : Older(es[i]) \in Entry /\ Older(es[i]).address = es[i].address
      BY <2>1, OlderFacts
    <2>3. DOMAIN aged(es) = 1 .. Len(es) /\ \A i \in 1 .. Len(es) : aged(es)[i] = Older(es[i])
      BY <2>1
    <2>4. aged(es) \in [1 .. Len(es) -> Entry]
      BY <2>1, <2>2
    <2> HIDE DEF aged
    <2>5. aged(es) \in Seq(Entry)
      BY <2>1, <2>4, SeqDef
    <2>6. Len(aged(es)) = Len(es)
      BY <2>1, <2>3, <2>5, LenProperties
    <2>7. Placed(aged(es), s)
      BY <1>1, <2>1, <2>2, <2>3, <2>5, <2>6 DEF Placed
    <2>8. \A f : Among(aged(es), f) <=> \E e : Among(es, e) /\ f = Older(e)
      BY <2>1, <2>3 DEF Among
    <2> QED BY <2>7, <2>8
  <1>2. DOMAIN Aged(reg) = DOMAIN reg /\ \A s \in DOMAIN reg : Aged(reg)[s] = aged(reg[s])
    BY DEF Aged
  <1>3. \A s \in DOMAIN reg : Placed(reg[s], s)
    BY DEF RegistryKept
  <1> HIDE DEF aged
  <1>4. RegistryKept(Aged(reg))
    BY <1>1, <1>2, <1>3 DEF RegistryKept
  <1>5. ASSUME NEW s, NEW f
        PROVE  In(Aged(reg), s, f) <=> \E e : In(reg, s, e) /\ f = Older(e)
    <2>1. CASE s \in DOMAIN reg
      <3>1. Among(aged(reg[s]), f) <=> \E e : Among(reg[s], e) /\ f = Older(e)
        BY <1>1, <1>3, <2>1
      <3> QED BY <1>2, <2>1, <3>1 DEF In
    <2>2. CASE s \notin DOMAIN reg
      BY <1>2, <2>2 DEF In
    <2> QED BY <2>1, <2>2
  <1> QED BY <1>4, <1>5

-----------------------------------------------------------------------------
(* The requests under way.                                                 *)

LEMMA LateFacts ==
  ASSUME NEW reqs, IsFiniteSet(reqs), NEW r, NEW c
  PROVE  IsFiniteSet(Late(reqs, r, c)) /\ Cardinality(Late(reqs, r, c)) \in Nat
  BY FS_Subset, FS_CardinalityType DEF Late

(* The bound allows more when the losses and requests together are more.   *)
LEMMA BoundGrows ==
  ASSUME NEW reqs, IsFiniteSet(reqs), NEW more, IsFiniteSet(more), NEW r,
         NEW since \in Nat, NEW later \in Nat, since <= later,
         NEW lost \in Nat, NEW gone \in Nat,
         NEW age \in Nat, RenewedBy(reqs, r, since, lost, age),
         \A c \in Int : lost + Cardinality(Late(reqs, r, c)) <= gone + Cardinality(Late(more, r, c))
  PROVE  RenewedBy(more, r, later, gone, age)
  <1> DEFINE K(c) == lost + Cardinality(Late(reqs, r, c))
             N(c) == gone + Cardinality(Late(more, r, c))
  <1>1. \A c \in Int : K(c) \in Nat /\ N(c) \in Nat /\ K(c) <= N(c)
    BY LateFacts
  <1> HIDE DEF K, N
  <1>2. ASSUME NEW k \in Nat, NEW n \in Nat, k <= n
        PROVE  RenewEvery * k <= RenewEvery * n /\ RenewEvery * k \in Nat /\ RenewEvery * n \in Nat
    BY <1>2, TimesMonotone, LeasesAssumption
  <1>3. age <= later + RenewEvery * N(-1)
    <2>1. age <= since + RenewEvery * K(-1)
      BY DEF RenewedBy, K
    <2>2. K(-1) \in Nat /\ N(-1) \in Nat /\ K(-1) <= N(-1)
      BY <1>1
    <2>3. RenewEvery * K(-1) <= RenewEvery * N(-1) /\ RenewEvery * K(-1) \in Nat /\ RenewEvery * N(-1) \in Nat
      BY <1>2, <2>2
    <2> QED BY <2>1, <2>3
  <1>4. ASSUME NEW c \in 0 .. age
        PROVE  age - c <= RenewEvery * (N(c) + 1)
    <2>1. age - c <= RenewEvery * (K(c) + 1)
      BY <1>4 DEF RenewedBy, K
    <2>2. K(c) + 1 \in Nat /\ N(c) + 1 \in Nat /\ K(c) + 1 <= N(c) + 1
      BY <1>1
    <2>3. /\ RenewEvery * (K(c) + 1) <= RenewEvery * (N(c) + 1)
          /\ RenewEvery * (K(c) + 1) \in Nat /\ RenewEvery * (N(c) + 1) \in Nat
      BY <1>2, <2>2
    <2> QED BY <2>1, <2>3
  <1> QED BY <1>3, <1>4 DEF RenewedBy, N

(* An entry that was just renewed keeps within it.                         *)
LEMMA NewlyRenewed ==
  ASSUME NEW reqs, IsFiniteSet(reqs), NEW r, NEW since \in Nat, NEW lost \in Nat
  PROVE  RenewedBy(reqs, r, since, lost, 0)
  <1>1. ASSUME NEW n \in Nat
        PROVE  RenewEvery * n \in Nat
    BY <1>1, TimesMonotone, LeasesAssumption
  <1>2. \A c \in Int : Cardinality(Late(reqs, r, c)) \in Nat
    BY LateFacts
  <1>3. \A c \in Int : /\ RenewEvery * (lost + Cardinality(Late(reqs, r, c))) \in Nat
                       /\ RenewEvery * (lost + Cardinality(Late(reqs, r, c)) + 1) \in Nat
    BY <1>1, <1>2
  <1> QED BY <1>3 DEF RenewedBy

(* An entry of a receiver that goes on asking is younger than the lease.   *)
LEMMA RenewedIsAlive ==
  ASSUME LeaseTypes, NEW r \in Receivers, NEW e \in Entry, Renewed(r, e.age)
  PROVE  Alive(e)
  <1> DEFINE c == MaxDelay
  <1>1. /\ e.age \in Nat /\ c \in Nat /\ losses[r] \in Nat /\ losses[r] <= MaxLosses
        /\ MaxLosses \in Nat /\ RenewEvery \in Nat /\ Lease \in Nat
        /\ (MaxLosses + 1) * RenewEvery + c < Lease
    BY LeasesAssumption DEF LeaseTypes, Entry
  <1>2. RenewEvery * (losses[r] + 1) <= (MaxLosses + 1) * RenewEvery
    BY <1>1, TimesMonotone
  <1>3. (MaxLosses + 1) * RenewEvery \in Nat /\ RenewEvery * (losses[r] + 1) \in Nat
    BY <1>1
  <1>4. CASE e.age <= c
    BY <1>1, <1>3, <1>4 DEF Alive
  <1>5. CASE ~ (e.age <= c)
    <2>1. Late(requests, r, c) = {}
      BY LeasesAssumption DEF LeaseTypes, Late, Request
    <2>2. Cardinality(Late(requests, r, c)) = 0
      BY <2>1, FS_EmptySet
    <2>3. e.age - c <= RenewEvery * (losses[r] + 0 + 1)
      BY <1>1, <1>5, <2>2 DEF Renewed, RenewedBy
    <2>4. losses[r] + 0 + 1 = losses[r] + 1
      BY <1>1
    <2>5. e.age - c <= RenewEvery * (losses[r] + 1)
      BY <2>3, <2>4
    <2> HIDE DEF c
    <2> QED BY <1>1, <1>2, <1>3, <2>5 DEF Alive
  <1> QED BY <1>4, <1>5

-----------------------------------------------------------------------------
(* The steps.                                                              *)

LEMMA StartsSteady ==
  ASSUME Init
  PROVE  LeaseIInv
  <1>1. DOMAIN registry = {}
    BY DEF Init
  <1>2. RegistryKept(registry)
    BY <1>1, FS_EmptySet, LeasesAssumption DEF RegistryKept
  <1>3. \A s, e : ~ In(registry, s, e)
    BY <1>1 DEF In
  <1>4. LeaseTypes
    BY FS_EmptySet, LeasesAssumption DEF Init, LeaseTypes, Longest
  <1> QED BY <1>2, <1>3, <1>4 DEF LeaseIInv, SteadyInv, StoppedInv, Init

LEMMA SnapshotKeeps ==
  ASSUME LeaseIInv, Snapshot
  PROVE  LeaseIInv'
  <1> USE DEF LeaseIInv
  <1>1. LeaseTypes /\ maxSubscribers \in Nat
    BY DEF LeaseTypes
  <1>2. /\ RegistryKept(registry)'
        /\ \A s, e : In(registry', s, e) <=> In(registry, s, e) /\ Alive(e)
    <2>1. registry' = Purge(registry) /\ maxSubscribers' = maxSubscribers /\ streamOf' = streamOf
      BY DEF Snapshot, setting
    <2>2. RegistryKept(Purge(registry))
      BY <1>1, PurgeFacts
    <2> QED BY <1>1, <2>1, <2>2, PurgeFacts DEF RegistryKept, Placed
  <1>3. LeaseTypes'
    BY DEF Snapshot, setting, LeaseTypes
  <1>4. SteadyInv'
    <2> SUFFICES ASSUME NEW r \in entered
                 PROVE  /\ \E e \in Entry : In(registry', streamOf[r], e) /\ e.address = r
                        /\ \A e \in Entry : In(registry', streamOf[r], e) /\ e.address = r => Renewed(r, e.age)
      BY DEF Snapshot, setting, SteadyInv, Renewed
    <2>1. r \in Receivers
      BY DEF LeaseTypes
    <2>2. PICK e \in Entry : In(registry, streamOf[r], e) /\ e.address = r /\ Renewed(r, e.age)
      BY DEF SteadyInv
    <2>3. Alive(e)
      BY <1>1, <2>1, <2>2, RenewedIsAlive
    <2> QED BY <1>2, <2>2, <2>3 DEF SteadyInv
  <1>5. StoppedInv'
    BY <1>2 DEF Snapshot, setting, StoppedInv
  <1> QED BY <1>2, <1>3, <1>4, <1>5

LEMMA HandleKeeps ==
  ASSUME LeaseIInv, NEW m \in requests, Handle(m)
  PROVE  LeaseIInv'
  <1> DEFINE r == m.from
             reg == Purge(registry)
             renewed == [address |-> r, age |-> 0]
  <1>1. LeaseTypes /\ maxSubscribers \in Nat /\ r \in Receivers /\ streamOf \in [Receivers -> Streams]
    BY DEF LeaseIInv, LeaseTypes, Request
  <1>2. RegistryKept(reg) /\ \A s, e : In(reg, s, e) <=> In(registry, s, e) /\ Alive(e)
    BY <1>1, PurgeFacts DEF LeaseIInv
  <1>3. /\ RegistryKept(registry')
        /\ \A s, e : In(registry', s, e) => e = renewed \/ (In(reg, s, e) /\ e.address # r)
        /\ \A s, e : In(reg, s, e) /\ e.address # r => In(registry', s, e)
        /\ Listed(reg, r) => In(registry', streamOf[r], renewed)
        /\ Listed(registry', r) => In(registry', streamOf[r], renewed)
    <2>1. registry' = Entered(reg, r)
      BY DEF Handle
    <2> HIDE DEF reg, r
    <2> QED BY <1>1, <1>2, <2>1, EnteredFacts
  <1>4. /\ streamOf' = streamOf /\ maxSubscribers' = maxSubscribers /\ running' = running
        /\ sinceAsked' = sinceAsked /\ stoppedFor' = stoppedFor
        /\ requests' = requests \ {m} /\ losses' = [losses EXCEPT ![r] = 0]
        /\ entered' \subseteq entered \cup {r} /\ entered' \subseteq running
        /\ r \in entered' => r \in entered \/ Listed(registry', r)
    BY <1>1 DEF Handle, setting, LeaseTypes
  <1>5. LeaseTypes'
    <2>1. IsFiniteSet(requests \ {m})
      BY <1>1, FS_Subset DEF LeaseTypes
    <2> QED BY <1>1, <1>4, <2>1, LeasesAssumption DEF LeaseTypes
  <1>6. RegistryKept(registry)'
    BY <1>3, <1>4 DEF RegistryKept, Placed
  <1>7. /\ renewed \in Entry /\ renewed.address = r /\ renewed.age = 0
        /\ IsFiniteSet(requests) /\ IsFiniteSet(requests')
        /\ \A q \in Receivers : /\ sinceAsked[q] \in Nat /\ losses[q] \in Nat /\ losses'[q] \in Nat
    BY <1>1, <1>5, LeasesAssumption DEF LeaseTypes, Entry
  <1>8. SteadyInv'
    <2> SUFFICES ASSUME NEW q \in entered'
                 PROVE  /\ \E e \in Entry : In(registry', streamOf[q], e) /\ e.address = q
                        /\ \A e \in Entry : In(registry', streamOf[q], e) /\ e.address = q =>
                             RenewedBy(requests', q, sinceAsked[q], losses'[q], e.age)
      BY <1>4 DEF SteadyInv, Renewed
    <2>1. q \in Receivers
      BY <1>1, <1>4 DEF LeaseTypes
    <2>2. ASSUME q \in entered
          PROVE  \E e \in Entry : /\ In(reg, streamOf[q], e) /\ e.address = q
                                  /\ RenewedBy(requests, q, sinceAsked[q], losses[q], e.age)
      <3>1. PICK e \in Entry : In(registry, streamOf[q], e) /\ e.address = q /\ Renewed(q, e.age)
        BY <2>2 DEF LeaseIInv, SteadyInv
      <3>2. Alive(e)
        BY <1>1, <2>1, <3>1, RenewedIsAlive
      <3> QED BY <1>2, <3>1, <3>2 DEF Renewed
    <2>3. CASE q = r
      <3>1. In(registry', streamOf[r], renewed)
        <4>1. CASE q \in entered
          <5>1. Listed(reg, r)
            BY <2>2, <2>3, <4>1 DEF In, Among, Listed
          <5> QED BY <1>3, <5>1
        <4>2. CASE q \notin entered
          BY <1>3, <1>4, <2>3, <4>2
        <4> QED BY <4>1, <4>2
      <3>2. \A e \in Entry : In(registry', streamOf[r], e) /\ e.address = r => e = renewed
        BY <1>3
      <3>3. RenewedBy(requests', q, sinceAsked[q], losses'[q], 0)
        BY <1>7, <2>1, NewlyRenewed
      <3> HIDE DEF renewed, r
      <3> QED BY <1>7, <2>3, <3>1, <3>2, <3>3
    <2>4. CASE q # r
      <3>1. q \in entered
        BY <1>4, <2>4
      <3>2. PICK e \in Entry : /\ In(reg, streamOf[q], e) /\ e.address = q
                               /\ RenewedBy(requests, q, sinceAsked[q], losses[q], e.age)
        BY <2>2, <3>1
      <3>3. In(registry', streamOf[q], e)
        BY <1>3, <2>4, <3>2
      <3>4. ASSUME NEW f \in Entry, In(registry', streamOf[q], f), f.address = q
            PROVE  f = e
        BY <1>6, <3>2, <3>3, <3>4, <1>3, OneEntry
      <3>5. \A c \in Int : Late(requests', q, c) = Late(requests, q, c)
        BY <1>4, <2>4 DEF Late
      <3>6. losses'[q] = losses[q]
        BY <1>1, <1>4, <2>1, <2>4 DEF LeaseTypes
      <3>7. RenewedBy(requests', q, sinceAsked[q], losses'[q], e.age)
        BY <3>2, <3>5, <3>6, LeasesAssumption DEF RenewedBy, Entry
      <3> QED BY <3>2, <3>3, <3>4, <3>7
    <2> QED BY <2>3, <2>4
  <1>9. StoppedInv'
    <2>1. \A n \in requests' : n \in requests
      BY <1>4
    <2>2. ASSUME NEW s \in Streams, NEW e \in Entry, In(registry', s, e), e.address \notin running
          PROVE  stoppedFor[e.address] <= e.age + MaxDelay
      <3>1. CASE e = renewed
        <4>1. stoppedFor[r] <= m.age /\ m.age <= MaxDelay /\ m.age \in Nat /\ stoppedFor[r] \in Nat
          BY <1>1, <2>2, <3>1, LeasesAssumption DEF LeaseIInv, StoppedInv, LeaseTypes, Request
        <4> HIDE DEF renewed
        <4> QED BY <1>7, <3>1, <4>1, LeasesAssumption
      <3>2. CASE In(reg, s, e)
        BY <1>2, <2>2, <3>2 DEF LeaseIInv, StoppedInv
      <3> QED BY <1>3, <2>2, <3>1, <3>2
    <2> QED BY <1>4, <2>1, <2>2 DEF LeaseIInv, StoppedInv
  <1> QED BY <1>5, <1>6, <1>8, <1>9 DEF LeaseIInv

LEMMA LoseKeeps ==
  ASSUME LeaseIInv, NEW m \in requests, Lose(m)
  PROVE  LeaseIInv'
  <1>1. LeaseTypes /\ m.from \in Receivers
    BY DEF LeaseIInv, LeaseTypes, Request
  <1>2. /\ streamOf' = streamOf /\ maxSubscribers' = maxSubscribers /\ running' = running
        /\ sinceAsked' = sinceAsked /\ stoppedFor' = stoppedFor /\ entered' = entered
        /\ registry' = registry
        /\ requests' = requests \ {m} /\ losses' = [losses EXCEPT ![m.from] = @ + 1]
        /\ losses[m.from] < MaxLosses
    BY DEF Lose, setting
  <1>3. IsFiniteSet(requests \ {m}) /\ IsFiniteSet(requests)
    BY <1>1, FS_Subset DEF LeaseTypes
  <1>4. LeaseTypes'
    BY <1>1, <1>2, <1>3, LeasesAssumption DEF LeaseTypes
  <1>5. ASSUME NEW r \in Receivers, NEW c \in Int
        PROVE  losses[r] + Cardinality(Late(requests, r, c))
                 <= losses'[r] + Cardinality(Late(requests', r, c))
    <2>1. IsFiniteSet(Late(requests, r, c)) /\ Cardinality(Late(requests, r, c)) \in Nat /\ losses[r] \in Nat
      BY <1>1, <1>3, LateFacts, LeasesAssumption DEF LeaseTypes
    <2>2. CASE r = m.from
      <3>1. Late(requests', r, c) = Late(requests, r, c) \ {m}
        BY <1>2 DEF Late
      <3>2. /\ Cardinality(Late(requests', r, c)) \in Nat
            /\ Cardinality(Late(requests, r, c)) <= Cardinality(Late(requests', r, c)) + 1
        <4> DEFINE L == Late(requests, r, c)
        <4>1. /\ Cardinality(L \ {m}) = IF m \in L THEN Cardinality(L) - 1 ELSE Cardinality(L)
              /\ Cardinality(L \ {m}) \in Nat
          BY <2>1, FS_RemoveElement, FS_CardinalityType
        <4> HIDE DEF L
        <4> QED BY <2>1, <3>1, <4>1 DEF L
      <3>3. losses'[r] = losses[r] + 1
        BY <1>1, <1>2, <2>2 DEF LeaseTypes
      <3> QED BY <2>1, <3>2, <3>3
    <2>3. CASE r # m.from
      <3>1. Late(requests', r, c) = Late(requests, r, c)
        BY <1>2, <2>3 DEF Late
      <3>2. losses'[r] = losses[r]
        BY <1>1, <1>2, <2>3 DEF LeaseTypes
      <3> QED BY <2>1, <3>1, <3>2
    <2> QED BY <2>2, <2>3
  <1>6. ASSUME NEW r \in entered, NEW e \in Entry, Renewed(r, e.age)
        PROVE  Renewed(r, e.age)'
    <2>1. /\ r \in Receivers /\ sinceAsked[r] \in Nat /\ losses[r] \in Nat /\ losses'[r] \in Nat
          /\ e.age \in Nat
      BY <1>1, <1>4, LeasesAssumption DEF LeaseTypes, Entry
    <2>2. RenewedBy(requests', r, sinceAsked[r], losses'[r], e.age)
      <3>1. RenewedBy(requests, r, sinceAsked[r], losses[r], e.age) /\ IsFiniteSet(requests')
        BY <1>2, <1>3, <1>6 DEF Renewed
      <3>2. \A c \in Int : losses[r] + Cardinality(Late(requests, r, c))
                             <= losses'[r] + Cardinality(Late(requests', r, c))
        BY <1>5, <2>1
      <3>3. sinceAsked[r] <= sinceAsked[r]
        BY <2>1
      <3> QED BY <1>3, <2>1, <3>1, <3>2, <3>3, BoundGrows
    <2> QED BY <1>2, <2>2 DEF Renewed
  <1>7. SteadyInv'
    BY <1>2, <1>6 DEF LeaseIInv, SteadyInv
  <1>8. StoppedInv'
    BY <1>2 DEF LeaseIInv, StoppedInv
  <1> QED BY <1>2, <1>4, <1>7, <1>8 DEF LeaseIInv, RegistryKept, Placed

(* A receiver that starts holds no place yet.                              *)
LEMMA StartKeeps ==
  ASSUME LeaseIInv, NEW r \in Receivers, Start(r)
  PROVE  LeaseIInv'
  <1>1. LeaseTypes
    BY DEF LeaseIInv
  <1>2. /\ streamOf' = streamOf /\ maxSubscribers' = maxSubscribers /\ running' = running \cup {r}
        /\ registry' = registry /\ losses' = losses /\ stoppedFor' = stoppedFor /\ entered' = entered
        /\ requests' = requests \cup {[from |-> r, age |-> 0]}
        /\ sinceAsked' = [sinceAsked EXCEPT ![r] = 0] /\ r \notin running
    BY DEF Start, SendRequest, setting
  <1>3. IsFiniteSet(requests')
    BY <1>1, <1>2, FS_AddElement DEF LeaseTypes
  <1>4. LeaseTypes'
    BY <1>1, <1>2, <1>3, LeasesAssumption DEF LeaseTypes, Request
  <1>5. SteadyInv'
    <2>1. ASSUME NEW q \in entered
          PROVE  /\ sinceAsked'[q] = sinceAsked[q]
                 /\ \A c : Late(requests', q, c) = Late(requests, q, c)
      BY <1>1, <1>2 DEF LeaseTypes, Late
    <2>2. ASSUME NEW q \in entered, NEW e \in Entry, Renewed(q, e.age)
          PROVE  Renewed(q, e.age)'
      BY <1>2, <2>1, <2>2 DEF Renewed, RenewedBy
    <2> QED BY <1>2, <2>2 DEF LeaseIInv, SteadyInv
  <1>6. StoppedInv'
    <2>1. ASSUME NEW m \in requests'
          PROVE  IF m.from \in running' THEN sinceAsked'[m.from] <= m.age ELSE stoppedFor[m.from] <= m.age
      BY <1>1, <1>2, LeasesAssumption DEF LeaseIInv, StoppedInv, LeaseTypes, Request
    <2> QED BY <1>2, <2>1 DEF LeaseIInv, StoppedInv
  <1> QED BY <1>2, <1>4, <1>5, <1>6 DEF LeaseIInv, RegistryKept, Placed

(* The request is one more: those under way are as old as the last one.    *)
LEMMA AskKeeps ==
  ASSUME LeaseIInv, NEW r \in Receivers, Ask(r)
  PROVE  LeaseIInv'
  <1> DEFINE asked == [from |-> r, age |-> 0]
  <1>1. LeaseTypes
    BY DEF LeaseIInv
  <1>2. /\ streamOf' = streamOf /\ maxSubscribers' = maxSubscribers /\ running' = running
        /\ registry' = registry /\ losses' = losses /\ stoppedFor' = stoppedFor /\ entered' = entered
        /\ requests' = requests \cup {asked}
        /\ sinceAsked' = [sinceAsked EXCEPT ![r] = 0] /\ r \in running /\ sinceAsked[r] > 0
    BY DEF Ask, SendRequest, setting
  <1>3. IsFiniteSet(requests') /\ IsFiniteSet(requests)
    BY <1>1, <1>2, FS_AddElement DEF LeaseTypes
  <1>4. LeaseTypes'
    BY <1>1, <1>2, <1>3, LeasesAssumption DEF LeaseTypes, Request
  <1>5. asked \notin requests
    BY <1>1, <1>2, LeasesAssumption DEF LeaseIInv, StoppedInv, LeaseTypes
  <1>6. ASSUME NEW e \in Entry, Renewed(r, e.age)
        PROVE  RenewedBy(requests', r, 0, losses[r], e.age)
    <2> DEFINE K(c) == Cardinality(Late(requests, r, c))
               N(c) == Cardinality(Late(requests', r, c))
    <2>1. \A c \in Int : K(c) \in Nat /\ N(c) \in Nat
      BY <1>3, LateFacts
    <2>2. N(-1) = K(-1) + 1
      <3>1. Late(requests', r, -1) = Late(requests, r, -1) \cup {asked}
        BY <1>2 DEF Late
      <3>2. asked \notin Late(requests, r, -1) /\ IsFiniteSet(Late(requests, r, -1))
        BY <1>3, <1>5, LateFacts DEF Late
      <3> QED BY <3>1, <3>2, FS_AddElement
    <2>3. \A c \in Nat : N(c) = K(c)
      <3>1. \A c \in Nat : Late(requests', r, c) = Late(requests, r, c)
        BY <1>2 DEF Late
      <3> QED BY <3>1
    <2>4. /\ e.age <= sinceAsked[r] + RenewEvery * (losses[r] + K(-1))
          /\ \A c \in 0 .. e.age : e.age - c <= RenewEvery * (losses[r] + K(c) + 1)
      BY <1>6 DEF Renewed, RenewedBy
    <2>5. /\ losses[r] \in Nat /\ sinceAsked[r] \in Nat /\ sinceAsked[r] <= RenewEvery
          /\ e.age \in Nat /\ RenewEvery \in Nat
      BY <1>1, LeasesAssumption DEF LeaseTypes, Entry
    <2> HIDE DEF K, N
    <2>6. e.age <= 0 + RenewEvery * (losses[r] + N(-1))
      <3> DEFINE k == losses[r] + K(-1)
      <3>1. k \in Nat /\ losses[r] + N(-1) = k + 1
        BY <2>1, <2>2, <2>5
      <3>3. e.age <= sinceAsked[r] + RenewEvery * k
        BY <2>4
      <3> HIDE DEF k
      <3>2. RenewEvery * (k + 1) = RenewEvery * k + RenewEvery /\ RenewEvery * k \in Nat
        <4>1. k \in Nat /\ k <= k
          BY <3>1
        <4> QED BY <2>5, <4>1, TimesMonotone
      <3> QED BY <2>5, <3>1, <3>2, <3>3
    <2>7. \A c \in 0 .. e.age : e.age - c <= RenewEvery * (losses[r] + N(c) + 1)
      BY <2>3, <2>4
    <2> QED BY <2>6, <2>7 DEF RenewedBy, N
  <1>7. SteadyInv'
    <2>1. ASSUME NEW q \in entered, q # r
          PROVE  /\ sinceAsked'[q] = sinceAsked[q]
                 /\ \A c : Late(requests', q, c) = Late(requests, q, c)
      BY <1>1, <1>2, <2>1 DEF LeaseTypes, Late
    <2>2. sinceAsked'[r] = 0
      BY <1>1, <1>2 DEF LeaseTypes
    <2>3. ASSUME NEW q \in entered, NEW e \in Entry, Renewed(q, e.age)
          PROVE  Renewed(q, e.age)'
      <3>1. CASE q = r
        BY <1>2, <1>6, <2>2, <2>3, <3>1 DEF Renewed
      <3>2. CASE q # r
        BY <1>2, <2>1, <2>3, <3>2 DEF Renewed, RenewedBy
      <3> QED BY <3>1, <3>2
    <2> QED BY <1>2, <2>3 DEF LeaseIInv, SteadyInv
  <1>8. StoppedInv'
    <2>1. ASSUME NEW m \in requests'
          PROVE  IF m.from \in running' THEN sinceAsked'[m.from] <= m.age ELSE stoppedFor[m.from] <= m.age
      BY <1>1, <1>2, LeasesAssumption DEF LeaseIInv, StoppedInv, LeaseTypes, Request
    <2> QED BY <1>2, <2>1 DEF LeaseIInv, StoppedInv
  <1> QED BY <1>2, <1>4, <1>7, <1>8 DEF LeaseIInv, RegistryKept, Placed

LEMMA StopKeeps ==
  ASSUME LeaseIInv, NEW r \in Receivers, Stop(r)
  PROVE  LeaseIInv'
  <1>1. LeaseTypes
    BY DEF LeaseIInv
  <1>2. /\ streamOf' = streamOf /\ maxSubscribers' = maxSubscribers /\ running' = running \ {r}
        /\ registry' = registry /\ losses' = losses /\ requests' = requests
        /\ entered' = entered \ {r}
        /\ stoppedFor' = [stoppedFor EXCEPT ![r] = 0]
        /\ sinceAsked' = [sinceAsked EXCEPT ![r] = 0]
    BY DEF Stop, setting
  <1>3. LeaseTypes'
    BY <1>1, <1>2, LeasesAssumption DEF LeaseTypes
  <1>4. SteadyInv'
    <2>1. \A q \in entered' : q \in entered /\ sinceAsked'[q] = sinceAsked[q]
      BY <1>1, <1>2 DEF LeaseTypes
    <2> QED BY <1>2, <2>1 DEF LeaseIInv, SteadyInv, Renewed, RenewedBy
  <1>5. StoppedInv'
    <2>1. ASSUME NEW m \in requests
          PROVE  IF m.from \in running' THEN sinceAsked'[m.from] <= m.age ELSE stoppedFor'[m.from] <= m.age
      BY <1>1, <1>2, LeasesAssumption DEF LeaseIInv, StoppedInv, LeaseTypes, Request
    <2>2. ASSUME NEW s \in Streams, NEW e \in Entry, In(registry, s, e), e.address \notin running'
          PROVE  stoppedFor'[e.address] <= e.age + MaxDelay
      <3>1. e.address \in Receivers /\ e.age + MaxDelay \in Nat
        BY LeasesAssumption DEF Entry
      <3>2. CASE e.address = r
        BY <1>1, <1>2, <3>1, <3>2, LeasesAssumption DEF LeaseTypes
      <3>3. CASE e.address # r
        BY <1>1, <1>2, <2>2, <3>1, <3>3 DEF LeaseIInv, StoppedInv, LeaseTypes
      <3> QED BY <3>2, <3>3
    <2> QED BY <1>2, <2>1, <2>2 DEF StoppedInv
  <1> QED BY <1>2, <1>3, <1>4, <1>5 DEF LeaseIInv, RegistryKept, Placed

LEMMA TickKeeps ==
  ASSUME LeaseIInv, Tick
  PROVE  LeaseIInv'
  <1> DEFINE aged == [m \in requests |-> [m EXCEPT !.age = @ + 1]]
  <1>1. LeaseTypes /\ maxSubscribers \in Nat
    BY DEF LeaseIInv, LeaseTypes
  <1>2. /\ streamOf' = streamOf /\ maxSubscribers' = maxSubscribers /\ running' = running
        /\ losses' = losses /\ entered' = entered
        /\ registry' = Aged(registry)
        /\ \A m \in requests : m.age < MaxDelay
        /\ \A r \in running : sinceAsked[r] < RenewEvery
        /\ requests' = {[m EXCEPT !.age = @ + 1] : m \in requests}
        /\ sinceAsked' = [r \in Receivers |-> IF r \in running THEN sinceAsked[r] + 1 ELSE sinceAsked[r]]
        /\ stoppedFor' = [r \in Receivers |->
             IF r \in running THEN stoppedFor[r] ELSE Later(stoppedFor[r], Longest)]
    BY DEF Tick, setting, Aged, Older
  <1>3. /\ RegistryKept(registry')
        /\ \A s, f : In(registry', s, f) => \E e : In(registry, s, e) /\ f = Older(e)
        /\ \A s, e : In(registry, s, e) => In(registry', s, Older(e))
    BY <1>1, <1>2, AgedFacts DEF LeaseIInv
  (* The requests are the same, each a tick older.                         *)
  <1>4. /\ DOMAIN aged = requests
        /\ \A m \in requests : /\ m \in Request /\ m.age \in Nat /\ aged[m] \in requests'
                               /\ aged[m].from = m.from /\ aged[m].age = m.age + 1
                               /\ aged[m] \in Request
        /\ \A n \in requests' : \E m \in requests : n = aged[m]
        /\ \A m, n \in requests : aged[m] = aged[n] => m = n
    <2>1. DOMAIN aged = requests /\ \A m \in requests : aged[m] = [m EXCEPT !.age = @ + 1]
      OBVIOUS
    <2>2. \A m \in requests : m \in [from : Receivers, age : 0 .. MaxDelay] /\ MaxDelay \in Nat
      BY <1>1, LeasesAssumption DEF LeaseTypes, Request
    <2>3. requests' = {aged[m] : m \in requests}
      BY <1>2, <2>1
    <2> HIDE DEF aged
    <2>4. \A m \in requests :
            /\ m.from \in Receivers /\ m.age \in Nat /\ m.age + 1 \in 0 .. MaxDelay
            /\ aged[m] = [from |-> m.from, age |-> m.age + 1]
            /\ aged[m].from = m.from /\ aged[m].age = m.age + 1
      BY <1>2, <2>1, <2>2
    <2>5. \A m \in requests : aged[m] \in Request /\ m \in Request
      <3> TAKE m \in requests
      <3>1. m.from \in Receivers /\ m.age + 1 \in 0 .. MaxDelay
        BY <2>4
      <3>2. [from |-> m.from, age |-> m.age + 1] \in Request
        BY <3>1 DEF Request
      <3>3. aged[m] = [from |-> m.from, age |-> m.age + 1]
        BY <2>4
      <3> QED BY <2>2, <3>2, <3>3 DEF Request
    <2>6. \A m, n \in requests : aged[m] = aged[n] => m = n
      <3> TAKE m, n \in requests
      <3>1. HAVE aged[m] = aged[n]
      <3>2. m.from = n.from /\ m.age + 1 = n.age + 1 /\ m.age \in Nat /\ n.age \in Nat
        BY <2>4, <3>1
      <3>3. m.age = n.age
        BY <3>2
      <3> QED BY <2>2, <3>2, <3>3
    <2> QED BY <2>1, <2>3, <2>4, <2>5, <2>6
  <1> HIDE DEF aged
  <1>5. IsFiniteSet(requests) /\ IsFiniteSet(requests')
    <2>1. aged \in Surjection(requests, requests')
      <3>1. aged \in [requests -> requests']
        BY <1>4 DEF aged
      <3> QED BY <1>4, <3>1 DEF Surjection
    <2> QED BY <1>1, <2>1, FS_Surjection DEF LeaseTypes
  <1>6. LeaseTypes'
    <2>1. \A n \in requests' : n \in Request
      BY <1>4
    <2>2. sinceAsked' \in [Receivers -> 0 .. RenewEvery]
      BY <1>1, <1>2, LeasesAssumption DEF LeaseTypes
    <2>3. stoppedFor' \in [Receivers -> Nat]
      BY <1>1, <1>2 DEF LeaseTypes, Later
    <2> QED BY <1>1, <1>2, <1>5, <2>1, <2>2, <2>3 DEF LeaseTypes
  <1>7. RegistryKept(registry)'
    BY <1>2, <1>3 DEF RegistryKept, Placed
  <1>8. ASSUME NEW r, NEW c \in Int
        PROVE  /\ Cardinality(Late(requests, r, c)) \in Nat /\ Cardinality(Late(requests', r, c + 1)) \in Nat
               /\ Cardinality(Late(requests, r, c)) <= Cardinality(Late(requests', r, c + 1))
    <2> DEFINE old == Late(requests, r, c)
               new == Late(requests', r, c + 1)
               f == [m \in old |-> aged[m]]
    <2>1. /\ IsFiniteSet(old) /\ Cardinality(old) \in Nat
          /\ IsFiniteSet(new) /\ Cardinality(new) \in Nat
      BY <1>5, LateFacts
    <2>2. \A m \in old : m \in requests /\ aged[m] \in new
      BY <1>4 DEF Late
    <2>3. f \in Injection(old, new)
      <3> HIDE DEF old, new
      <3> QED BY <1>4, <2>2 DEF Injection, IsInjective
    <2> QED BY <2>1, <2>3, FS_Injection
  <1>9. ASSUME NEW r \in entered, NEW e \in Entry, Renewed(r, e.age)
        PROVE  Renewed(r, Older(e).age)'
    <2> DEFINE K(c) == Cardinality(Late(requests, r, c))
               N(c) == Cardinality(Late(requests', r, c))
               lost == losses[r]
    <2>1. \A c \in Int : K(c) \in Nat /\ N(c + 1) \in Nat /\ K(c) <= N(c + 1)
      BY <1>8
    <2>2. /\ r \in running /\ r \in Receivers /\ lost \in Nat
          /\ sinceAsked[r] \in Nat /\ sinceAsked[r] < RenewEvery /\ RenewEvery \in Nat
          /\ sinceAsked'[r] = sinceAsked[r] + 1
      BY <1>1, <1>2, LeasesAssumption DEF LeaseTypes
    <2>3. e.age \in Nat /\ Older(e).age = e.age + 1
      <3>1. Alive(e)
        BY <1>1, <1>9, <2>2, RenewedIsAlive
      <3> QED BY <3>1, OlderFacts DEF Alive
    <2>4. /\ e.age <= sinceAsked[r] + RenewEvery * (lost + K(-1))
          /\ \A c \in 0 .. e.age : e.age - c <= RenewEvery * (lost + K(c) + 1)
      BY <1>9 DEF Renewed, RenewedBy
    <2>5. \A c \in Int : Late(requests', r, -1) = Late(requests', r, 0)
      BY <1>4 DEF Late
    <2> HIDE DEF K, N, lost
    <2>6. ASSUME NEW k \in Nat, NEW n \in Nat, k <= n
          PROVE  /\ RenewEvery * k <= RenewEvery * n /\ RenewEvery * k \in Nat /\ RenewEvery * n \in Nat
                 /\ RenewEvery * (n + 1) = RenewEvery * n + RenewEvery
      BY <2>2, <2>6, TimesMonotone
    <2>7. /\ RenewEvery * (lost + K(-1)) <= RenewEvery * (lost + N(0))
          /\ RenewEvery * (lost + K(-1)) \in Nat /\ RenewEvery * (lost + N(0)) \in Nat
          /\ RenewEvery * (lost + N(0) + 1) = RenewEvery * (lost + N(0)) + RenewEvery
      <3>1. /\ lost + K(-1) \in Nat /\ lost + N(0) \in Nat /\ lost + K(-1) <= lost + N(0)
        <4>1. K(-1) \in Nat /\ N(-1 + 1) \in Nat /\ K(-1) <= N(-1 + 1)
          BY <2>1
        <4>2. -1 + 1 = 0
          OBVIOUS
        <4> QED BY <2>2, <4>1, <4>2
      <3> QED BY <2>6, <3>1
    <2>8. e.age + 1 <= sinceAsked[r] + 1 + RenewEvery * (lost + N(0))
      BY <2>2, <2>3, <2>4, <2>7
    <2>9. ASSUME NEW c \in 0 .. e.age + 1
          PROVE  e.age + 1 - c <= RenewEvery * (lost + N(c) + 1)
      <3>1. CASE c = 0
        <4>1. e.age + 1 - 0 <= RenewEvery * (lost + N(0) + 1)
          BY <2>2, <2>3, <2>7, <2>8
        <4> QED BY <3>1, <4>1
      <3>2. CASE c # 0
        <4>1. c - 1 \in 0 .. e.age /\ c - 1 + 1 = c /\ c - 1 \in Int
          BY <2>3, <2>9, <3>2
        <4>2. e.age - (c - 1) <= RenewEvery * (lost + K(c - 1) + 1)
          BY <2>4, <4>1
        <4>3. K(c - 1) \in Nat /\ N(c) \in Nat /\ K(c - 1) <= N(c)
          BY <2>1, <4>1
        <4>4. /\ lost + K(c - 1) + 1 \in Nat /\ lost + N(c) + 1 \in Nat
              /\ lost + K(c - 1) + 1 <= lost + N(c) + 1
          BY <2>2, <4>3
        <4>5. /\ RenewEvery * (lost + K(c - 1) + 1) <= RenewEvery * (lost + N(c) + 1)
              /\ RenewEvery * (lost + K(c - 1) + 1) \in Nat /\ RenewEvery * (lost + N(c) + 1) \in Nat
          BY <2>6, <4>4
        <4>6. e.age + 1 - c = e.age - (c - 1) /\ e.age - (c - 1) \in Int
          BY <2>3, <4>1
        <4> QED BY <4>2, <4>5, <4>6
      <3> QED BY <3>1, <3>2
    <2>10. RenewedBy(requests', r, sinceAsked'[r], lost, e.age + 1)
      <3>1. N(0) = N(-1)
        BY <2>5 DEF N
      <3>2. e.age + 1 <= sinceAsked'[r] + RenewEvery * (lost + N(-1))
        BY <2>2, <2>8, <3>1
      <3> DEFINE age == e.age + 1
                 since == sinceAsked'[r]
                 late == requests'
      <3>3. age <= since + RenewEvery * (lost + Cardinality(Late(late, r, -1)))
        BY <3>2 DEF N
      <3>4. \A c \in 0 .. age : age - c <= RenewEvery * (lost + Cardinality(Late(late, r, c)) + 1)
        <4>1. ASSUME NEW c \in 0 .. e.age + 1
              PROVE  e.age + 1 - c <= RenewEvery * (lost + N(c) + 1)
          BY <2>9
        <4> QED BY <2>1, <2>2, <2>3, <4>1 DEF N
      <3> HIDE DEF age, since, late
      <3>5. RenewedBy(late, r, since, lost, age)
        BY <3>3, <3>4 DEF RenewedBy
      <3> QED BY <3>5 DEF age, since, late
    <2> QED BY <1>2, <2>3, <2>10 DEF Renewed, lost
  <1>10. SteadyInv'
    <2> SUFFICES ASSUME NEW r \in entered
                 PROVE  /\ \E e \in Entry : In(registry', streamOf[r], e) /\ e.address = r
                        /\ \A e \in Entry : In(registry', streamOf[r], e) /\ e.address = r => Renewed(r, e.age)'
      BY <1>2 DEF SteadyInv
    <2>1. PICK e \in Entry : In(registry, streamOf[r], e) /\ e.address = r /\ Renewed(r, e.age)
      BY DEF LeaseIInv, SteadyInv
    <2>2. Older(e) \in Entry /\ Older(e).address = r /\ In(registry', streamOf[r], Older(e))
      BY <1>3, <2>1, OlderFacts
    <2>3. Renewed(r, Older(e).age)'
      BY <1>9, <2>1
    <2>4. \A f \in Entry : In(registry', streamOf[r], f) /\ f.address = r => f = Older(e)
      BY <1>3, <1>7, <2>2, OneEntry
    <2> QED BY <2>2, <2>3, <2>4
  <1>11. StoppedInv'
    <2>1. ASSUME NEW n \in requests'
          PROVE  IF n.from \in running THEN sinceAsked'[n.from] <= n.age ELSE stoppedFor'[n.from] <= n.age
      <3>1. PICK m \in requests : n = aged[m]
        BY <1>4
      <3>2. n.from = m.from /\ n.age = m.age + 1 /\ m.age \in Nat /\ m.from \in Receivers
        BY <1>4, <3>1 DEF Request
      <3>3. CASE m.from \in running
        BY <1>1, <1>2, <3>2, <3>3, LeasesAssumption DEF LeaseIInv, StoppedInv, LeaseTypes
      <3>4. CASE m.from \notin running
        BY <1>1, <1>2, <3>2, <3>4, LeasesAssumption DEF LeaseIInv, StoppedInv, LeaseTypes, Later
      <3> QED BY <3>2, <3>3, <3>4
    <2>2. ASSUME NEW s \in Streams, NEW f \in Entry, In(registry', s, f), f.address \notin running
          PROVE  stoppedFor'[f.address] <= f.age + MaxDelay
      <3>1. PICK e : In(registry, s, e) /\ f = Older(e)
        BY <1>3, <2>2
      <3>2. e \in Entry
        BY <3>1, EntryOfIn DEF LeaseIInv
      <3>3. /\ f.address = e.address /\ e.address \in Receivers
            /\ e.age \in Nat /\ e.age <= Lease /\ f.age = IF e.age < Lease THEN e.age + 1 ELSE e.age
        BY <3>1, <3>2, OlderFacts DEF Entry
      <3>4. stoppedFor[e.address] <= e.age + MaxDelay /\ stoppedFor[e.address] \in Nat
        BY <1>1, <2>2, <3>1, <3>2, <3>3 DEF LeaseIInv, StoppedInv, LeaseTypes
      <3>5. stoppedFor'[e.address] = IF stoppedFor[e.address] < Lease + MaxDelay
                                     THEN stoppedFor[e.address] + 1 ELSE stoppedFor[e.address]
        BY <1>2, <2>2, <3>3 DEF Later, Longest
      <3> QED BY <3>3, <3>4, <3>5, LeasesAssumption
    <2> QED BY <1>2, <2>1, <2>2 DEF StoppedInv
  <1> QED BY <1>6, <1>7, <1>10, <1>11 DEF LeaseIInv

-----------------------------------------------------------------------------
(* The theorems.                                                           *)

THEOREM RegistryKeeps == Spec => []LeaseIInv
  <1>1. LeaseIInv /\ [Next]_vars => LeaseIInv'
    <2> SUFFICES ASSUME LeaseIInv, [Next]_vars PROVE LeaseIInv'
      OBVIOUS
    <2>1. CASE Snapshot
      BY <2>1, SnapshotKeeps
    <2>2. CASE Deliver
      BY <2>2, LoseKeeps, HandleKeeps DEF Deliver
    <2>3. CASE \E r \in Receivers : Start(r) \/ Ask(r) \/ Stop(r)
      BY <2>3, StartKeeps, AskKeeps, StopKeeps
    <2>4. CASE Tick
      BY <2>4, TickKeeps
    <2>5. CASE UNCHANGED vars
      BY <2>5 DEF vars, setting, LeaseIInv, LeaseTypes, RegistryKept, Placed, SteadyInv, StoppedInv, Renewed
    <2> QED BY <2>1, <2>2, <2>3, <2>4, <2>5 DEF Next
  <1> QED BY StartsSteady, <1>1, PTL DEF Spec

(* A receiver never has two places, nor one of another stream, and the     *)
(* places stay within the limits, for any number of receivers and streams. *)
THEOREM PlacesOnce == Spec => []OnePlaceEach
  <1>1. LeaseIInv => OnePlaceEach
    BY DEF LeaseIInv, RegistryKept, Placed, OnePlaceEach
  <1> QED BY RegistryKeeps, <1>1, PTL

(* Who goes on asking keeps its place whatever the network loses within    *)
(* its bounds, and no snapshot has who stopped a lease and a delay ago.    *)
THEOREM LeasesHonoured == Spec => []LeaseHonoured
  <1>1. LeaseIInv => LeaseHonoured
    <2> SUFFICES ASSUME LeaseIInv PROVE SteadyIsKept /\ AbandonedIsDropped
      BY DEF LeaseHonoured
    <2>1. LeaseTypes /\ maxSubscribers \in Nat /\ RegistryKept(registry)
      BY DEF LeaseIInv, LeaseTypes
    <2>2. SteadyIsKept
      <3> SUFFICES ASSUME NEW r \in entered
                   PROVE  /\ Listed(registry, r)
                          /\ \A i \in DOMAIN registry[streamOf[r]] :
                               registry[streamOf[r]][i].address = r => Alive(registry[streamOf[r]][i])
        BY DEF SteadyIsKept
      <3>1. PICK e \in Entry : In(registry, streamOf[r], e) /\ e.address = r /\ Renewed(r, e.age)
        BY DEF LeaseIInv, SteadyInv
      <3>2. Alive(e)
        BY <2>1, <3>1, RenewedIsAlive DEF Entry
      <3>3. \A f : In(registry, streamOf[r], f) /\ f.address = r => f = e
        BY <2>1, <3>1, OneEntry
      <3> QED BY <3>1, <3>2, <3>3 DEF In, Among, Listed
    <2>3. AbandonedIsDropped
      <3> DEFINE snapshot == Purge(registry)
      <3> SUFFICES ASSUME NEW s \in DOMAIN snapshot, NEW r \in Subscribers(snapshot, s), r \notin running
                   PROVE  stoppedFor[r] < Longest
        BY DEF AbandonedIsDropped
      <3>1. PICK e : In(snapshot, s, e) /\ e.address = r
        BY DEF Subscribers, Entries, In, Among
      <3>2. In(registry, s, e) /\ Alive(e)
        BY <2>1, <3>1, PurgeFacts
      <3>3. s \in Streams /\ e \in Entry
        BY <2>1, <3>2, EntryOfIn
      <3>4. stoppedFor[r] <= e.age + MaxDelay /\ stoppedFor[r] \in Nat
        BY <2>1, <3>1, <3>2, <3>3 DEF LeaseIInv, StoppedInv, LeaseTypes, Entry
      <3> QED BY <3>2, <3>3, <3>4, LeasesAssumption DEF Alive, Longest, Entry
    <2> QED BY <2>2, <2>3
  <1> QED BY RegistryKeeps, <1>1, PTL

=============================================================================
