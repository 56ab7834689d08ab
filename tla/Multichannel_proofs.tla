------------------------- MODULE Multichannel_proofs -------------------------
(***************************************************************************)
(* The components that handle several channels, proved for every number of *)
(* channels, every route and selection, every capacity and packet size.    *)
(*                                                                         *)
(* The ASIO components keep interleaved samples in flat buffers: what      *)
(* keeps channels in their places is that everything put in or taken out   *)
(* is whole frames (Framed).  The combiner's channels stay together        *)
(* because what waits for it, in `pending' and in the queue, lies at its   *)
(* place but for what that source has lost (Aligned).                      *)
(***************************************************************************)
EXTENDS MCMultichannel, SequenceTheorems, WellFoundedInduction, TLAPS

-----------------------------------------------------------------------------
(* Multiplication and division, in the form the steps need.                *)

LEMMA Distribute ==
  ASSUME NEW a \in Int, NEW b \in Int, NEW c \in Int
  PROVE  (a + b) * c = a * c + b * c /\ a * c \in Int /\ 1 * c = c /\ 0 * c = 0
  BY SMT

LEMMA Monotone ==
  ASSUME NEW a \in Nat, NEW b \in Nat, NEW c \in Nat \ {0}
  PROVE  /\ a * c \in Nat /\ b * c \in Nat
         /\ a <= b <=> a * c <= b * c
         /\ a * c = b * c => a = b
  BY SMT

(* Sample c of frame f.                                                    *)
LEMMA Quotient ==
  ASSUME NEW w \in Nat \ {0}, NEW f \in Nat, NEW c \in 0 .. w - 1
  PROVE  (f * w + c) \div w = f /\ (f * w + c) % w = c
  BY SMT

LEMMA SampleOfFrame ==
  ASSUME NEW w \in Nat \ {0}, NEW r \in Nat, NEW f \in 0 .. r - 1, NEW c \in 1 .. w
  PROVE  f * w + c \in 1 .. r * w /\ f * w \in Nat
  <1>1. (f + 1) * w = f * w + w /\ f * w \in Nat /\ r * w \in Nat
    <2>1. f \in Nat /\ 1 * w = w
      OBVIOUS
    <2> QED BY <2>1, Distribute, Monotone
  <1>2. (f + 1) * w <= r * w
    <2>1. f + 1 \in Nat /\ f + 1 <= r
      OBVIOUS
    <2> QED BY <2>1, Monotone
  <1> QED BY <1>1, <1>2

LEMMA FrameOfSample ==
  ASSUME NEW w \in Nat \ {0}, NEW r \in Nat, NEW i \in 1 .. r * w
  PROVE  \E f \in 0 .. r - 1, c \in 1 .. w : i = f * w + c
  <1> DEFINE f == (i - 1) \div w
             c == (i - 1) % w
  <1>1. r * w \in Nat
    BY Monotone
  <1>2. f \in Nat /\ c \in 0 .. w - 1 /\ i - 1 = f * w + c
    BY <1>1, SMT
  <1> HIDE DEF f, c
  <1>3. f < r
    <2>1. f * w < r * w /\ f * w \in Nat
      BY <1>1, <1>2, Monotone
    <2> QED BY <1>2, <2>1, Monotone
  <1>4. c + 1 \in 1 .. w /\ i = f * w + (c + 1) /\ f \in 0 .. r - 1
    <2>1. f * w \in Nat
      BY <1>2, Monotone
    <2> QED BY <1>2, <1>3, <2>1
  <1> QED BY <1>4

-----------------------------------------------------------------------------
(* Induction up to n: of the numbers at which it fails, one is the least.  *)
LEMMA Smallest ==
  ASSUME NEW T \in SUBSET Nat, T # {}
  PROVE  \E x \in T : \A y \in T : x <= y
  <1> DEFINE R == {ss \in Nat \X Nat : ss[1] < ss[2]}
  <1>1. IsWellFoundedOn(R, Nat)
    BY NatLessThanWellFounded DEF OpToRel
  <1>2. \A x, y \in Nat : <<y, x>> \in R <=> y < x
    OBVIOUS
  <1> HIDE DEF R
  <1>3. PICK x \in T : \A y \in T : ~ (<<y, x>> \in R)
    BY <1>1, WFMin
  <1>4. \A y \in T : ~ (y < x) /\ y \in Nat /\ x \in Nat
    BY <1>2, <1>3
  <1> QED BY <1>3, <1>4

LEMMA UpTo ==
  ASSUME NEW n \in Nat, NEW Good, 0 \in Good, \A i \in 0 .. n - 1 : i \in Good => i + 1 \in Good
  PROVE  \A i \in 0 .. n : i \in Good
  <1> SUFFICES ASSUME NEW b \in 0 .. n, b \notin Good PROVE FALSE
    OBVIOUS
  <1> DEFINE T == {i \in 0 .. n : i \notin Good}
  <1>1. T \in SUBSET Nat /\ b \in T
    OBVIOUS
  <1>2. PICK x \in T : \A y \in T : x <= y
    BY <1>1, Smallest
  <1>3. x # 0 /\ x \in 1 .. n
    BY <1>2
  <1>4. x - 1 \in Good /\ x - 1 \in 0 .. n - 1
    BY <1>2, <1>3
  <1> QED BY <1>2, <1>4

LEMMA MinFacts ==
  ASSUME NEW T \in SUBSET Nat, T # {}
  PROVE  Min(T) \in T /\ \A y \in T : Min(T) <= y
  BY Smallest DEF Min

(* A part of a sequence, told from where it starts.                        *)
LEMMA Part ==
  ASSUME NEW S, NEW s \in Seq(S), NEW k \in Nat, NEW n \in Nat, k + n <= Len(s)
  PROVE  /\ SubSeq(s, k + 1, k + n) \in Seq(S) /\ Len(SubSeq(s, k + 1, k + n)) = n
         /\ \A i \in 1 .. n : SubSeq(s, k + 1, k + n)[i] = s[k + i]
  <1> DEFINE m == k + 1
             l == k + n
             a == SubSeq(s, m, l)
  <1>1. Len(s) \in Nat /\ \A i \in 1 .. Len(s) : s[i] \in S
    BY LenProperties, ElementOfSeq
  <1>2. m \in Int /\ l \in Int /\ \A i \in m .. l : s[i] \in S
    BY <1>1
  <1>3. /\ l - m + 1 = n /\ (IF m <= l THEN l - m + 1 ELSE 0) = n
        /\ \A i \in 1 .. n : m + i - 1 = k + i
    BY <1>1
  <1> HIDE DEF m, l
  <1>4. /\ a \in Seq(S) /\ Len(a) = IF m <= l THEN l - m + 1 ELSE 0
        /\ \A i \in 1 .. l - m + 1 : a[i] = s[m + i - 1]
    BY <1>2, SubSeqProperties
  <1> HIDE DEF a
  <1>5. a \in Seq(S) /\ Len(a) = n /\ \A i \in 1 .. n : a[i] = s[k + i]
    BY <1>3, <1>4
  <1> QED BY <1>5 DEF a, m, l

-----------------------------------------------------------------------------
(* The number of frame f, of w samples.                                    *)
FrameNo(s, f, w) == s[f * w + 1][1]

(* r frames of w samples: a sample bears its frame's number and the label  *)
(* of its place.                                                           *)
Framed(s, r, w, label) ==
  /\ Len(s) = r * w
  /\ \A f \in 0 .. r - 1 : \A c \in 1 .. w : s[f * w + c] = <<FrameNo(s, f, w), label[c]>>

(* A sample: the frame it belongs to, and its channel.                     *)
Stamped == Nat \X Nat

(* m frames of s, after k frames.                                          *)
FramesFrom(s, k, m, w) == SubSeq(s, k * w + 1, k * w + m * w)

LEMMA FramedPart ==
  ASSUME NEW S, NEW s \in Seq(S), NEW r \in Nat, NEW w \in Nat \ {0}, NEW label,
         Framed(s, r, w, label), NEW k \in Nat, NEW m \in Nat, k + m <= r
  PROVE  LET t == FramesFrom(s, k, m, w)
         IN  /\ t \in Seq(S) /\ Framed(t, m, w, label)
             /\ \A f \in 0 .. m - 1 : FrameNo(t, f, w) = FrameNo(s, k + f, w)
  <1> DEFINE K == k * w
             N == m * w
             t == SubSeq(s, K + 1, K + N)
  <1>1. K \in Nat /\ N \in Nat /\ K + N <= Len(s)
    <2>1. (k + m) * w = K + N /\ (k + m) * w <= r * w /\ K \in Nat /\ N \in Nat
      BY Distribute, Monotone
    <2> QED BY <2>1 DEF Framed
  <1>2. ASSUME NEW f \in 0 .. m - 1, NEW c \in 1 .. w
        PROVE  f * w + c \in 1 .. N /\ K + (f * w + c) = (k + f) * w + c /\ k + f \in 0 .. r - 1
    <2>1. f * w + c \in 1 .. N /\ f * w \in Nat
      BY SampleOfFrame
    <2>2. (k + f) * w = K + f * w
      BY Distribute
    <2> QED BY <1>1, <2>1, <2>2
  <1> HIDE DEF K, N
  <1>3. t \in Seq(S) /\ Len(t) = N /\ \A i \in 1 .. N : t[i] = s[K + i]
    BY <1>1, Part
  <1> HIDE DEF t
  <1>4. \A f \in 0 .. m - 1 : \A c \in 1 .. w : t[f * w + c] = s[(k + f) * w + c]
    BY <1>2, <1>3
  <1>5. \A f \in 0 .. m - 1 : \A c \in 1 .. w :
          s[(k + f) * w + c] = <<FrameNo(s, k + f, w), label[c]>>
    BY <1>2 DEF Framed
  <1>6. \A f \in 0 .. m - 1 : FrameNo(t, f, w) = FrameNo(s, k + f, w)
    <2>1. 1 \in 1 .. w
      OBVIOUS
    <2> QED BY <1>4, <2>1 DEF FrameNo
  <1>7. Framed(t, m, w, label)
    <2>1. Len(t) = m * w
      BY <1>3 DEF N
    <2>2. \A f \in 0 .. m - 1 : \A c \in 1 .. w : t[f * w + c] = <<FrameNo(t, f, w), label[c]>>
      BY <1>4, <1>5, <1>6
    <2> QED BY <2>1, <2>2 DEF Framed
  <1> QED BY <1>3, <1>6, <1>7 DEF t, K, N, FramesFrom

LEMMA FramedJoin ==
  ASSUME NEW S, NEW s \in Seq(S), NEW t \in Seq(S), NEW r \in Nat, NEW q \in Nat,
         NEW w \in Nat \ {0}, NEW label, Framed(s, r, w, label), Framed(t, q, w, label)
  PROVE  /\ s \o t \in Seq(S) /\ Framed(s \o t, r + q, w, label)
         /\ \A f \in 0 .. r - 1 : FrameNo(s \o t, f, w) = FrameNo(s, f, w)
         /\ \A f \in 0 .. q - 1 : FrameNo(s \o t, r + f, w) = FrameNo(t, f, w)
  <1> DEFINE u == s \o t
             R == r * w
             Q == q * w
  <1>1. R \in Nat /\ Q \in Nat /\ (r + q) * w = R + Q
    BY Distribute, Monotone
  <1>2. Len(s) = R /\ Len(t) = Q
    BY DEF Framed
  <1>3. /\ u \in Seq(S) /\ Len(u) = R + Q
        /\ \A i \in 1 .. R + Q : u[i] = IF i <= R THEN s[i] ELSE t[i - R]
    <2>1. /\ u \in Seq(S) /\ Len(u) = Len(s) + Len(t)
          /\ \A i \in 1 .. Len(s) + Len(t) : u[i] = IF i <= Len(s) THEN s[i] ELSE t[i - Len(s)]
      BY ConcatProperties
    <2> HIDE DEF u, R, Q
    <2> QED BY <1>2, <2>1
  <1>4. ASSUME NEW f \in 0 .. r - 1, NEW c \in 1 .. w
        PROVE  u[f * w + c] = s[f * w + c]
    <2>1. f * w + c \in 1 .. R
      BY SampleOfFrame
    <2> HIDE DEF u, R, Q
    <2> QED BY <1>1, <1>3, <2>1
  <1>5. ASSUME NEW f \in 0 .. q - 1, NEW c \in 1 .. w
        PROVE  u[(r + f) * w + c] = t[f * w + c]
    <2>1. f * w + c \in 1 .. Q
      BY SampleOfFrame
    <2>2. (r + f) * w = R + f * w /\ f * w \in Nat
      BY Distribute, Monotone
    <2> DEFINE i == f * w + c
    <2>3. (r + f) * w + c = R + i
      BY <1>1, <2>2
    <2> HIDE DEF u, R, Q, i
    <2>4. R + i \in 1 .. R + Q /\ ~ (R + i <= R) /\ (R + i) - R = i
      BY <1>1, <2>1 DEF i
    <2>5. u[R + i] = t[i]
      BY <1>3, <2>4
    <2> QED BY <2>3, <2>5 DEF i
  <1> HIDE DEF u
  <1>. 1 \in 1 .. w
    OBVIOUS
  <1>6. \A f \in 0 .. r - 1 : FrameNo(u, f, w) = FrameNo(s, f, w)
    BY <1>4 DEF FrameNo
  <1>7. \A f \in 0 .. q - 1 : FrameNo(u, r + f, w) = FrameNo(t, f, w)
    BY <1>5 DEF FrameNo
  <1>8. ASSUME NEW f \in 0 .. (r + q) - 1, NEW c \in 1 .. w
        PROVE  u[f * w + c] = <<FrameNo(u, f, w), label[c]>>
    <2>1. CASE f < r
      <3>1. f \in 0 .. r - 1
        BY <2>1
      <3>2. s[f * w + c] = <<FrameNo(s, f, w), label[c]>>
        BY <3>1 DEF Framed
      <3> QED BY <1>4, <1>6, <3>1, <3>2
    <2>2. CASE f >= r
      <3> DEFINE g == f - r
      <3>1. g \in 0 .. q - 1 /\ r + g = f
        BY <2>2
      <3> HIDE DEF g
      <3>2. t[g * w + c] = <<FrameNo(t, g, w), label[c]>>
        BY <3>1 DEF Framed
      <3>3. u[(r + g) * w + c] = <<FrameNo(u, r + g, w), label[c]>>
        BY <1>5, <1>7, <3>1, <3>2
      <3> QED BY <3>1, <3>3
    <2>3. f < r \/ f >= r
      OBVIOUS
    <2> QED BY <2>1, <2>2, <2>3
  <1>9. Framed(u, r + q, w, label)
    BY <1>1, <1>3, <1>8 DEF Framed
  <1> QED BY <1>3, <1>6, <1>7, <1>9 DEF u

-----------------------------------------------------------------------------
(* The ASIO publisher.                                                     *)

(* Every variable keeps to its range.                                      *)
TxTypes ==
  /\ ring \in Seq(Stamped) /\ samples \in Seq(Stamped)
  /\ delivered \in Nat /\ evicted \in Nat /\ taken \in Nat /\ sequence \in Nat
  /\ txPc \in {"loop", "count", "counted", "take", "send", "done"}
  /\ framesToSend \in 0 .. MaxPacketFrames

(* r whole frames, each later than the one before, none after `last'.      *)
FramesRise(s, r, last) ==
  /\ Framed(s, r, Width, Selected)
  /\ \A f \in 0 .. r - 1 : FrameNo(s, f, Width) <= last
  /\ \A f \in 1 .. r - 1 : FrameNo(s, f - 1, Width) < FrameNo(s, f, Width)

RingFrames ==
  \E r \in Nat :
    /\ FramesRise(ring, r, delivered)
    /\ delivered = evicted + r + taken
    /\ r <= IF MaxBlockFrames > MaxBufferedFrames THEN MaxBlockFrames ELSE MaxBufferedFrames

PacketFramesRise == \E q \in 0 .. MaxPacketFrames : FramesRise(samples, q, delivered)

TxIInv == TxTypes /\ RingFrames /\ PacketFramesRise

LEMMA WidthFacts == Width \in Nat \ {0} /\ \A c \in 1 .. Width : Selected[c] \in Nat
  BY AsioPublisherAssumption, LenProperties, ElementOfSeq DEF Width

LEMMA RisingPart ==
  ASSUME NEW s \in Seq(Stamped), NEW r \in Nat, NEW last \in Nat, FramesRise(s, r, last),
         NEW k \in Nat, NEW m \in Nat, k + m <= r
  PROVE  LET t == FramesFrom(s, k, m, Width)
         IN  t \in Seq(Stamped) /\ FramesRise(t, m, last)
  <1> DEFINE t == FramesFrom(s, k, m, Width)
  <1>1. /\ t \in Seq(Stamped) /\ Framed(t, m, Width, Selected)
        /\ \A f \in 0 .. m - 1 : FrameNo(t, f, Width) = FrameNo(s, k + f, Width)
    <2>1. Width \in Nat \ {0} /\ Framed(s, r, Width, Selected)
      BY WidthFacts DEF FramesRise
    <2> QED BY <2>1, FramedPart
  <1> HIDE DEF t
  <1>2. \A f \in 0 .. m - 1 : FrameNo(t, f, Width) <= last
    <2>1. \A f \in 0 .. m - 1 : k + f \in 0 .. r - 1
      OBVIOUS
    <2> QED BY <1>1, <2>1 DEF FramesRise
  <1>3. \A f \in 1 .. m - 1 : FrameNo(t, f - 1, Width) < FrameNo(t, f, Width)
    <2> SUFFICES ASSUME NEW f \in 1 .. m - 1
                 PROVE  FrameNo(t, f - 1, Width) < FrameNo(t, f, Width)
      OBVIOUS
    <2>1. f - 1 \in 0 .. m - 1 /\ f \in 0 .. m - 1 /\ k + f \in 1 .. r - 1
          /\ k + (f - 1) = (k + f) - 1
      OBVIOUS
    <2>2. FrameNo(s, (k + f) - 1, Width) < FrameNo(s, k + f, Width)
      BY <2>1 DEF FramesRise
    <2>3. FrameNo(t, f, Width) = FrameNo(s, k + f, Width)
      BY <1>1, <2>1
    <2>4. FrameNo(t, f - 1, Width) = FrameNo(s, (k + f) - 1, Width)
      BY <1>1, <2>1
    <2> QED BY <2>2, <2>3, <2>4
  <1>4. FramesRise(t, m, last)
    BY <1>1, <1>2, <1>3 DEF FramesRise
  <1> QED BY <1>1, <1>4 DEF t

(* What a callback brings is whole frames, in order and the newest.        *)
LEMMA DeliveredFrames ==
  ASSUME NEW n \in Nat, NEW after \in Nat
  PROVE  /\ FramesOf(n, after) \in Seq(Stamped)
         /\ Framed(FramesOf(n, after), n, Width, Selected)
         /\ \A f \in 0 .. n - 1 : FrameNo(FramesOf(n, after), f, Width) = after + 1 + f
  <1> DEFINE t == FramesOf(n, after)
             N == n * Width
  <1>1. Width \in Nat \ {0} /\ N \in Nat
    BY WidthFacts, Monotone
  <1>2. ASSUME NEW f \in 0 .. n - 1, NEW c \in 1 .. Width
        PROVE  f * Width + c \in 1 .. N /\ t[f * Width + c] = <<after + 1 + f, Selected[c]>>
    <2> DEFINE i == f * Width + c
    <2>1. i \in 1 .. N /\ f * Width \in Nat
      BY <1>1, SampleOfFrame
    <2>2. i - 1 = f * Width + (c - 1) /\ c - 1 \in 0 .. Width - 1 /\ f \in Nat
      BY <1>1, <2>1
    <2>3. (i - 1) \div Width = f /\ (i - 1) % Width = c - 1
      <3>1. (f * Width + (c - 1)) \div Width = f /\ (f * Width + (c - 1)) % Width = c - 1
        BY <1>1, <2>2, Quotient
      <3> HIDE DEF i
      <3> QED BY <2>2, <3>1
    <2> HIDE DEF i
    <2>4. t[i] = <<after + 1 + ((i - 1) \div Width), Selected[1 + ((i - 1) % Width)]>>
      BY <2>1 DEF FramesOf
    <2>5. 1 + (c - 1) = c
      BY <2>2
    <2> QED BY <2>1, <2>3, <2>4, <2>5 DEF i
  <1>3. \A i \in 1 .. N : t[i] \in Stamped
    <2> SUFFICES ASSUME NEW i \in 1 .. N PROVE t[i] \in Stamped
      OBVIOUS
    <2>1. PICK f \in 0 .. n - 1, c \in 1 .. Width : i = f * Width + c
      BY <1>1, FrameOfSample
    <2>2. t[i] = <<after + 1 + f, Selected[c]>>
      BY <1>2, <2>1
    <2>3. after + 1 + f \in Nat /\ Selected[c] \in Nat
      BY WidthFacts
    <2> HIDE DEF t
    <2> QED BY <2>2, <2>3 DEF Stamped
  <1>4. t \in Seq(Stamped) /\ Len(t) = N
    <2>1. t = [i \in 1 .. N |-> t[i]]
      BY DEF FramesOf
    <2> HIDE DEF t, N
    <2> QED BY <1>1, <1>3, <2>1
  <1> HIDE DEF t
  <1>5. 1 \in 1 .. Width
    BY <1>1
  <1>6. \A f \in 0 .. n - 1 : t[f * Width + 1] = <<after + 1 + f, Selected[1]>>
    BY <1>2, <1>5
  <1>7. \A f \in 0 .. n - 1 : FrameNo(t, f, Width) = after + 1 + f
    BY <1>6 DEF FrameNo
  <1>8. \A f \in 0 .. n - 1 : \A c \in 1 .. Width :
          t[f * Width + c] = <<FrameNo(t, f, Width), Selected[c]>>
    BY <1>2, <1>7
  <1>9. Framed(t, n, Width, Selected)
    BY <1>4, <1>8 DEF Framed
  <1> QED BY <1>4, <1>7, <1>9 DEF t

LEMMA RisingJoin ==
  ASSUME NEW s \in Seq(Stamped), NEW r \in Nat, NEW last \in Nat, FramesRise(s, r, last),
         NEW n \in Nat
  PROVE  /\ s \o FramesOf(n, last) \in Seq(Stamped)
         /\ FramesRise(s \o FramesOf(n, last), r + n, last + n)
  <1> DEFINE t == FramesOf(n, last)
             u == s \o t
  <1>1. /\ t \in Seq(Stamped) /\ Framed(t, n, Width, Selected)
        /\ \A f \in 0 .. n - 1 : FrameNo(t, f, Width) = last + 1 + f
    BY DeliveredFrames
  <1> HIDE DEF t
  <1>2. /\ u \in Seq(Stamped) /\ Framed(u, r + n, Width, Selected)
        /\ \A f \in 0 .. r - 1 : FrameNo(u, f, Width) = FrameNo(s, f, Width)
        /\ \A f \in 0 .. n - 1 : FrameNo(u, r + f, Width) = FrameNo(t, f, Width)
    <2>1. Width \in Nat \ {0} /\ Framed(s, r, Width, Selected)
      BY WidthFacts DEF FramesRise
    <2> QED BY <1>1, <2>1, FramedJoin
  <1> HIDE DEF u
  <1>3. \A f \in 0 .. r - 1 : FrameNo(u, f, Width) = FrameNo(s, f, Width)
                              /\ FrameNo(u, f, Width) <= last
    BY <1>2 DEF FramesRise
  <1>4. \A f \in r .. (r + n) - 1 : FrameNo(u, f, Width) = last + 1 + (f - r)
    <2> SUFFICES ASSUME NEW f \in r .. (r + n) - 1
                 PROVE  FrameNo(u, f, Width) = last + 1 + (f - r)
      OBVIOUS
    <2>1. f - r \in 0 .. n - 1 /\ r + (f - r) = f
      OBVIOUS
    <2>2. FrameNo(u, r + (f - r), Width) = FrameNo(t, f - r, Width)
      BY <1>2, <2>1
    <2> QED BY <1>1, <2>1, <2>2
  <1>5. \A f \in 0 .. r - 1 : FrameNo(s, f, Width) \in Nat
    <2> SUFFICES ASSUME NEW f \in 0 .. r - 1 PROVE FrameNo(s, f, Width) \in Nat
      OBVIOUS
    <2>1. f * Width + 1 \in 1 .. r * Width /\ Len(s) = r * Width
      <3>1. 1 \in 1 .. Width /\ Width \in Nat \ {0}
        BY WidthFacts
      <3> QED BY <3>1, SampleOfFrame DEF FramesRise, Framed
    <2>2. s[f * Width + 1] \in Stamped
      BY <2>1, ElementOfSeq
    <2> QED BY <2>2 DEF Stamped, FrameNo
  <1>6. \A f \in 0 .. (r + n) - 1 : FrameNo(u, f, Width) <= last + n
    <2> SUFFICES ASSUME NEW f \in 0 .. (r + n) - 1 PROVE FrameNo(u, f, Width) <= last + n
      OBVIOUS
    <2>1. CASE f \in 0 .. r - 1
      <3>1. FrameNo(u, f, Width) <= last /\ FrameNo(u, f, Width) \in Nat
        BY <1>3, <1>5, <2>1
      <3> QED BY <3>1
    <2>2. CASE f \in r .. (r + n) - 1
      BY <1>4, <2>2
    <2> QED BY <2>1, <2>2
  <1>7. \A f \in 1 .. (r + n) - 1 : FrameNo(u, f - 1, Width) < FrameNo(u, f, Width)
    <2> SUFFICES ASSUME NEW f \in 1 .. (r + n) - 1
                 PROVE  FrameNo(u, f - 1, Width) < FrameNo(u, f, Width)
      OBVIOUS
    <2> DEFINE g == f - 1
    <2>1. CASE f \in 1 .. r - 1
      <3>1. FrameNo(s, g, Width) < FrameNo(s, f, Width)
        BY <2>1 DEF FramesRise
      <3>2. g \in 0 .. r - 1 /\ f \in 0 .. r - 1
        BY <2>1
      <3> HIDE DEF g
      <3>3. FrameNo(u, g, Width) = FrameNo(s, g, Width) /\ FrameNo(u, f, Width) = FrameNo(s, f, Width)
        BY <1>3, <3>2
      <3>4. FrameNo(u, g, Width) < FrameNo(u, f, Width)
        BY <3>1, <3>3
      <3> QED BY <3>4 DEF g
    <2>2. CASE f = r
      <3>1. g \in 0 .. r - 1 /\ f \in r .. (r + n) - 1
        BY <2>2
      <3> HIDE DEF g
      <3>2. FrameNo(u, f, Width) = last + 1 + (f - r)
        BY <1>4, <3>1
      <3>3. FrameNo(u, g, Width) <= last /\ FrameNo(u, g, Width) \in Nat
        BY <1>3, <1>5, <3>1
      <3>4. FrameNo(u, g, Width) < FrameNo(u, f, Width)
        BY <2>2, <3>2, <3>3
      <3> QED BY <3>4 DEF g
    <2>3. CASE f > r
      <3>1. g \in r .. (r + n) - 1 /\ f \in r .. (r + n) - 1 /\ g < f
        BY <2>3
      <3> HIDE DEF g
      <3>2. FrameNo(u, f, Width) = last + 1 + (f - r) /\ FrameNo(u, g, Width) = last + 1 + (g - r)
        BY <1>4, <3>1
      <3>3. FrameNo(u, g, Width) < FrameNo(u, f, Width)
        BY <3>1, <3>2
      <3> QED BY <3>3 DEF g
    <2>4. f \in 1 .. r - 1 \/ f = r \/ f > r
      OBVIOUS
    <2> QED BY <2>1, <2>2, <2>3, <2>4
  <1>8. FramesRise(u, r + n, last + n)
    BY <1>2, <1>6, <1>7 DEF FramesRise
  <1> QED BY <1>2, <1>8 DEF u, t

LEMMA FrameNoNat ==
  ASSUME NEW s \in Seq(Stamped), NEW r \in Nat, NEW w \in Nat \ {0}, NEW label,
         Framed(s, r, w, label), NEW f \in 0 .. r - 1
  PROVE  FrameNo(s, f, w) \in Nat
  <1>1. f * w + 1 \in 1 .. r * w /\ Len(s) = r * w
    <2>1. 1 \in 1 .. w
      OBVIOUS
    <2> QED BY <2>1, SampleOfFrame DEF Framed
  <1>2. s[f * w + 1] \in Stamped
    BY <1>1, ElementOfSeq
  <1> QED BY <1>2 DEF Stamped, FrameNo

LEMMA RiseLater ==
  ASSUME NEW s \in Seq(Stamped), NEW r \in Nat, NEW last \in Nat, FramesRise(s, r, last),
         NEW later \in Nat, last <= later
  PROVE  FramesRise(s, r, later)
  <1>1. Width \in Nat \ {0} /\ Framed(s, r, Width, Selected)
    BY WidthFacts DEF FramesRise
  <1>2. \A f \in 0 .. r - 1 : FrameNo(s, f, Width) \in Nat
    BY <1>1, FrameNoNat
  <1> QED BY <1>2 DEF FramesRise

LEMMA NoFrames ==
  ASSUME NEW last \in Nat
  PROVE  << >> \in Seq(Stamped) /\ FramesRise(<< >>, 0, last)
  <1>1. 0 * Width = 0
    BY WidthFacts
  <1> QED BY <1>1, EmptySeq DEF FramesRise, Framed

(* The start and the end of whole frames.                                  *)
LEMMA WholeParts ==
  ASSUME NEW s, NEW k \in Nat, NEW m \in Nat, NEW w \in Nat \ {0}, Len(s) = (k + m) * w
  PROVE  /\ SubSeq(s, k * w + 1, Len(s)) = FramesFrom(s, k, m, w)
         /\ SubSeq(s, 1, k * w) = FramesFrom(s, 0, k, w)
  <1>1. k * w \in Nat /\ m * w \in Nat
    BY Monotone
  <1>2. (k + m) * w = k * w + m * w /\ k * w \in Nat /\ 0 * w = 0
    BY <1>1, Distribute, Monotone
  <1>3. k * w + m * w = Len(s) /\ 0 * w + 1 = 1 /\ 0 * w + k * w = k * w
    BY <1>1, <1>2
  <1>4. SubSeq(s, k * w + 1, Len(s)) = FramesFrom(s, k, m, w)
    BY <1>3 DEF FramesFrom
  <1>5. SubSeq(s, 1, k * w) = FramesFrom(s, 0, k, w)
    BY <1>3 DEF FramesFrom
  <1> QED BY <1>4, <1>5

-----------------------------------------------------------------------------
LEMMA TxInitInv == TxInit => TxIInv
  <1> SUFFICES ASSUME TxInit PROVE TxIInv
    OBVIOUS
  <1>1. /\ MaxBufferedFrames \in Nat /\ MaxBlockFrames \in Nat /\ MaxPacketFrames \in Nat
        /\ 0 \in Nat /\ 0 \in 0 .. MaxPacketFrames
    BY AsioPublisherAssumption
  <1>2. TxTypes
    BY <1>1, NoFrames DEF TxInit, TxTypes
  <1>3. FramesRise(ring, 0, delivered) /\ FramesRise(samples, 0, delivered)
    BY <1>1, NoFrames DEF TxInit
  <1>4. RingFrames
    BY <1>1, <1>3 DEF TxInit, RingFrames
  <1>5. PacketFramesRise
    BY <1>1, <1>3 DEF PacketFramesRise
  <1> QED BY <1>2, <1>4, <1>5 DEF TxIInv

(* What a callback evicts is whole frames, as many as its own need.        *)
LEMMA ExcessFrames ==
  ASSUME NEW r \in Nat, Len(ring) = r * Width, NEW n \in Nat
  PROVE  \E e \in 0 .. r :
           /\ Excess(n) = e * Width
           /\ (Excess(n) + Width - 1) \div Width = e
           /\ (r - e) + n <= IF n > MaxBufferedFrames THEN n ELSE MaxBufferedFrames
  <1> DEFINE d == r + n - MaxBufferedFrames
             excess == Len(ring) + n * Width - MaxBufferedFrames * Width
  <1>1. Width \in Nat \ {0} /\ MaxBufferedFrames \in Nat
    BY WidthFacts, AsioPublisherAssumption
  <1>2. /\ r + n = d + MaxBufferedFrames /\ d \in Int /\ r + n \in Nat
        /\ (d + MaxBufferedFrames) * Width = d * Width + MaxBufferedFrames * Width
        /\ (r + n) * Width = r * Width + n * Width
        /\ d * Width \in Int /\ MaxBufferedFrames * Width \in Int
    BY <1>1, Distribute
  <1>3. excess = d * Width
    <2> HIDE DEF d
    <2> QED BY <1>1, <1>2
  <1>4. \A e \in Nat : (e * Width + Width - 1) \div Width = e
    <2> SUFFICES ASSUME NEW e \in Nat PROVE (e * Width + Width - 1) \div Width = e
      OBVIOUS
    <2>1. Width - 1 \in 0 .. Width - 1
      BY <1>1
    <2>2. (e * Width + (Width - 1)) \div Width = e
      BY <1>1, <2>1, Quotient
    <2>3. e * Width + (Width - 1) = e * Width + Width - 1
      <3>1. e * Width \in Nat
        BY <1>1, Monotone
      <3> QED BY <1>1, <3>1
    <2> QED BY <2>2, <2>3
  <1>5. Excess(n) = IF excess <= 0 THEN 0
                    ELSE IF ((excess + Width - 1) \div Width) * Width > Len(ring) THEN Len(ring)
                    ELSE ((excess + Width - 1) \div Width) * Width
    BY DEF Excess
  <1>6. CASE d <= 0
    <2>1. d * Width <= 0
      <3> DEFINE g == 0 - d
      <3>1. g \in Nat /\ d + g = 0
        BY <1>2, <1>6
      <3> HIDE DEF g, d
      <3>2. (d + g) * Width = d * Width + g * Width /\ 0 * Width = 0 /\ g * Width \in Nat
        BY <1>1, <1>2, <3>1, Distribute, Monotone
      <3> QED BY <1>2, <3>1, <3>2
    <2>2. Excess(n) = 0 * Width
      <3> HIDE DEF excess, d
      <3> QED BY <1>1, <1>3, <1>5, <2>1
    <2>3. 0 \in 0 .. r /\ (r - 0) + n <= MaxBufferedFrames /\ 0 \in Nat
      BY <1>1, <1>6
    <2>4. (Excess(n) + Width - 1) \div Width = 0
      BY <1>4, <2>2, <2>3
    <2>5. (r - 0) + n <= IF n > MaxBufferedFrames THEN n ELSE MaxBufferedFrames
      BY <1>1, <2>3
    <2> QED BY <2>2, <2>3, <2>4, <2>5
  <1>7. CASE d > 0
    <2>1. d \in Nat /\ d * Width > 0
      <3>1. d \in Nat /\ 1 <= d /\ 1 \in Nat /\ 1 * Width = Width
        BY <1>1, <1>2, <1>7
      <3>2. 1 * Width <= d * Width /\ d * Width \in Nat
        BY <1>1, <3>1, Monotone
      <3> HIDE DEF d
      <3> QED BY <1>1, <3>1, <3>2
    <2>2. (excess + Width - 1) \div Width = d
      <3> HIDE DEF excess, d
      <3> QED BY <1>3, <1>4, <2>1
    <2>3. Excess(n) = IF d * Width > r * Width THEN r * Width ELSE d * Width
      <3> HIDE DEF excess, d
      <3> QED BY <1>3, <1>5, <2>1, <2>2
    <2>4. d <= r <=> d * Width <= r * Width
      <3> HIDE DEF d
      <3> QED BY <1>1, <2>1, Monotone
    <2>5. d * Width \in Int /\ r * Width \in Int
      BY <1>1, <1>2, <2>1, Distribute
    <2>6. CASE d <= r
      <3>1. Excess(n) = d * Width /\ d \in 0 .. r
        BY <2>1, <2>3, <2>4, <2>5, <2>6
      <3>2. (r - d) + n <= IF n > MaxBufferedFrames THEN n ELSE MaxBufferedFrames
        BY <1>1, <1>2
      <3>3. (Excess(n) + Width - 1) \div Width = d
        BY <1>4, <2>1, <3>1
      <3> HIDE DEF d
      <3> QED BY <3>1, <3>2, <3>3
    <2>7. CASE d > r
      <3>1. Excess(n) = r * Width /\ r \in 0 .. r
        BY <2>1, <2>3, <2>4, <2>5, <2>7
      <3>2. (r - r) + n <= IF n > MaxBufferedFrames THEN n ELSE MaxBufferedFrames
        BY <1>1
      <3>3. (Excess(n) + Width - 1) \div Width = r
        BY <1>4, <3>1
      <3> QED BY <3>1, <3>2, <3>3
    <2>8. d <= r \/ d > r
      BY <1>1
    <2> QED BY <2>6, <2>7, <2>8
  <1>8. d <= 0 \/ d > 0
    BY <1>1
  <1> QED BY <1>6, <1>7, <1>8

LEMMA DeliverInv ==
  ASSUME TxIInv, NEW n \in 1 .. MaxBlockFrames, Deliver(n)
  PROVE  TxIInv'
  <1>1. TxTypes /\ Width \in Nat \ {0} /\ n \in Nat /\ MaxBufferedFrames \in Nat
        /\ MaxBlockFrames \in Nat /\ n <= MaxBlockFrames /\ MaxPacketFrames \in Nat
    BY WidthFacts, AsioPublisherAssumption DEF TxIInv
  <1>2. /\ delivered \in Nat /\ evicted \in Nat /\ taken \in Nat
        /\ ring \in Seq(Stamped) /\ samples \in Seq(Stamped)
    BY <1>1 DEF TxTypes
  <1>3. delivered' = delivered + n /\ UNCHANGED <<txVars, subscribed, txRunning>>
    BY DEF Deliver
  <1>4. PICK r \in Nat :
          /\ FramesRise(ring, r, delivered)
          /\ delivered = evicted + r + taken
          /\ r <= IF MaxBlockFrames > MaxBufferedFrames THEN MaxBlockFrames ELSE MaxBufferedFrames
    BY DEF TxIInv, RingFrames
  <1>5. PacketFramesRise'
    <2>1. PICK q \in 0 .. MaxPacketFrames : FramesRise(samples, q, delivered)
      BY DEF TxIInv, PacketFramesRise
    <2>2. delivered + n \in Nat /\ delivered <= delivered + n /\ q \in Nat
      BY <1>1, <1>2
    <2>3. FramesRise(samples, q, delivered + n)
      BY <1>2, <2>1, <2>2, RiseLater
    <2>4. samples' = samples
      BY <1>3 DEF txVars
    <2> QED BY <1>3, <2>3, <2>4 DEF PacketFramesRise
  <1>6. CASE txPc \in {"count", "take"}
    <2>1. evicted' = evicted + n /\ ring' = ring
      BY <1>6 DEF Deliver
    <2>2. TxTypes'
      BY <1>1, <1>3, <2>1 DEF TxTypes, txVars
    <2>3. FramesRise(ring, r, delivered + n)
      <3>1. delivered + n \in Nat /\ delivered <= delivered + n
        BY <1>1, <1>2
      <3> QED BY <1>2, <1>4, <3>1, RiseLater
    <2>4. delivered' = evicted' + r + taken'
      BY <1>1, <1>2, <1>3, <1>4, <2>1 DEF txVars
    <2>5. RingFrames'
      BY <1>3, <1>4, <2>1, <2>3, <2>4 DEF RingFrames
    <2> QED BY <1>5, <2>2, <2>5 DEF TxIInv
  <1>7. CASE txPc \notin {"count", "take"}
    <2>1. /\ ring' = SubSeq(ring, Excess(n) + 1, Len(ring)) \o FramesOf(n, delivered)
          /\ evicted' = evicted + (Excess(n) + Width - 1) \div Width
      BY <1>7 DEF Deliver
    <2>2. Len(ring) = r * Width /\ Framed(ring, r, Width, Selected)
      BY <1>4 DEF FramesRise, Framed
    <2>3. PICK e \in 0 .. r :
            /\ Excess(n) = e * Width
            /\ (Excess(n) + Width - 1) \div Width = e
            /\ (r - e) + n <= IF n > MaxBufferedFrames THEN n ELSE MaxBufferedFrames
      BY <1>1, <2>2, ExcessFrames
    <2> DEFINE m == r - e
               left == FramesFrom(ring, e, m, Width)
    <2>4. m \in Nat /\ e \in Nat /\ e + m = r
      OBVIOUS
    <2>5. SubSeq(ring, Excess(n) + 1, Len(ring)) = left
      <3> HIDE DEF m
      <3>1. Len(ring) = (e + m) * Width
        BY <2>2, <2>4
      <3>2. SubSeq(ring, e * Width + 1, Len(ring)) = FramesFrom(ring, e, m, Width)
        <4>1. e \in Nat /\ m \in Nat /\ Width \in Nat \ {0}
          BY <1>1, <2>4
        <4> HIDE DEF left
        <4> QED BY ONLY <3>1, <4>1, WholeParts
      <3> QED BY <2>3, <3>2
    <2>6. m + n <= IF n > MaxBufferedFrames THEN n ELSE MaxBufferedFrames
      BY <2>3
    <2> HIDE DEF m
    <2>7. left \in Seq(Stamped) /\ FramesRise(left, m, delivered)
      <3>1. e + m <= r
        BY <2>4
      <3> QED BY <1>2, <1>4, <2>4, <3>1, RisingPart
    <2> HIDE DEF left
    <2>8. ring' \in Seq(Stamped) /\ FramesRise(ring', m + n, delivered + n)
      <3>1. /\ left \o FramesOf(n, delivered) \in Seq(Stamped)
            /\ FramesRise(left \o FramesOf(n, delivered), m + n, delivered + n)
        BY <1>1, <1>2, <2>4, <2>7, RisingJoin
      <3> QED BY <2>1, <2>5, <3>1
    <2>9. evicted' = evicted + e
      BY <2>1, <2>3
    <2>10. TxTypes'
      BY <1>1, <1>2, <1>3, <2>4, <2>8, <2>9 DEF TxTypes, txVars
    <2>11. RingFrames'
      <3>1. m + n \in Nat /\ delivered' = evicted' + (m + n) + taken'
        BY <1>1, <1>2, <1>3, <1>4, <2>4, <2>9 DEF txVars
      <3>2. m + n <= IF MaxBlockFrames > MaxBufferedFrames THEN MaxBlockFrames
                     ELSE MaxBufferedFrames
        BY <1>1, <2>4, <2>6
      <3>3. FramesRise(ring', m + n, delivered')
        BY <1>3, <2>8
      <3> QED BY <3>1, <3>2, <3>3 DEF RingFrames
    <2> QED BY <1>5, <2>10, <2>11 DEF TxIInv
  <1> QED BY <1>6, <1>7

LEMMA CountInv ==
  ASSUME TxIInv, Count
  PROVE  TxIInv'
  <1>1. /\ ring' = ring /\ samples' = samples /\ delivered' = delivered /\ evicted' = evicted
        /\ taken' = taken /\ sequence' = sequence
    BY DEF Count, captureVars
  <1>2. TxTypes /\ Width \in Nat \ {0} /\ MaxPacketFrames \in Nat
    BY WidthFacts, AsioPublisherAssumption DEF TxIInv
  <1>3. Len(ring) \div Width \in Nat
    <2>1. PICK r \in Nat : Len(ring) = r * Width
      BY DEF TxIInv, RingFrames, FramesRise, Framed
    <2>2. 0 \in 0 .. Width - 1 /\ r * Width + 0 = r * Width
      BY <1>2, Monotone
    <2>3. (r * Width + 0) \div Width = r
      BY <1>2, <2>2, Quotient
    <2> QED BY <2>1, <2>2, <2>3
  <1>4. framesToSend' \in 0 .. MaxPacketFrames /\ txPc' \in {"loop", "counted"}
    <2> DEFINE available == Len(ring) \div Width
    <2>1. \/ txPc' = "loop" /\ framesToSend' = framesToSend
          \/ /\ framesToSend' = IF available < MaxPacketFrames THEN available ELSE MaxPacketFrames
             /\ txPc' = "counted"
      BY DEF Count
    <2>2. available \in Nat
      BY <1>3
    <2> HIDE DEF available
    <2>3. framesToSend \in 0 .. MaxPacketFrames
      BY <1>2 DEF TxTypes
    <2> QED BY <1>2, <2>1, <2>2, <2>3
  <1>5. TxTypes'
    BY <1>1, <1>2, <1>4 DEF TxTypes
  <1>6. RingFrames' /\ PacketFramesRise'
    BY <1>1 DEF TxIInv, RingFrames, PacketFramesRise
  <1> QED BY <1>5, <1>6 DEF TxIInv

LEMMA TakeFramesInv ==
  ASSUME TxIInv, TakeFrames
  PROVE  TxIInv'
  <1>1. /\ delivered' = delivered /\ evicted' = evicted /\ sequence' = sequence
        /\ framesToSend' = framesToSend
    BY DEF TakeFrames
  <1>2. TxTypes /\ Width \in Nat \ {0} /\ framesToSend \in 0 .. MaxPacketFrames
        /\ framesToSend \in Nat /\ MaxPacketFrames \in Nat
    BY WidthFacts, AsioPublisherAssumption DEF TxIInv, TxTypes
  <1>3. CASE Len(ring) < framesToSend * Width
    <2>1. txPc' = "loop" /\ ring' = ring /\ samples' = samples /\ taken' = taken
      BY <1>3 DEF TakeFrames
    <2> QED BY <1>1, <1>2, <2>1 DEF TxIInv, TxTypes, RingFrames, PacketFramesRise
  <1>4. CASE ~ (Len(ring) < framesToSend * Width)
    <2> DEFINE k == framesToSend
    <2>1. /\ samples' = SubSeq(ring, 1, k * Width)
          /\ ring' = SubSeq(ring, k * Width + 1, Len(ring))
          /\ taken' = taken + k /\ txPc' = "send"
      BY <1>4 DEF TakeFrames
    <2>2. PICK r \in Nat :
            /\ FramesRise(ring, r, delivered)
            /\ delivered = evicted + r + taken
            /\ r <= IF MaxBlockFrames > MaxBufferedFrames THEN MaxBlockFrames
                    ELSE MaxBufferedFrames
      BY DEF TxIInv, RingFrames
    <2>3. Len(ring) = r * Width
      BY <2>2 DEF FramesRise, Framed
    <2> HIDE DEF k
    <2>4. k \in Nat /\ k \in 0 .. r
      <3>1. k \in Nat /\ ~ (r * Width < k * Width)
        BY <1>2, <1>4, <2>3 DEF k
      <3>2. k * Width \in Nat /\ r * Width \in Nat /\ (k <= r <=> k * Width <= r * Width)
        BY <1>2, <3>1, Monotone
      <3> QED BY <3>1, <3>2
    <2> DEFINE m == r - k
    <2>5. m \in Nat /\ k + m = r /\ 0 + k <= r /\ k + m <= r
      BY <2>4
    <2>6. samples' = FramesFrom(ring, 0, k, Width) /\ ring' = FramesFrom(ring, k, m, Width)
      <3> HIDE DEF m
      <3>1. Len(ring) = (k + m) * Width
        BY <2>3, <2>5
      <3>2. /\ SubSeq(ring, k * Width + 1, Len(ring)) = FramesFrom(ring, k, m, Width)
            /\ SubSeq(ring, 1, k * Width) = FramesFrom(ring, 0, k, Width)
        <4>1. k \in Nat /\ m \in Nat /\ Width \in Nat \ {0}
          BY <1>2, <2>4, <2>5
        <4> QED BY ONLY <3>1, <4>1, WholeParts
      <3> QED BY <2>1, <3>2
    <2> HIDE DEF m
    <2>7. ring \in Seq(Stamped) /\ delivered \in Nat /\ evicted \in Nat /\ taken \in Nat
      BY <1>2 DEF TxTypes
    <2>8. samples' \in Seq(Stamped) /\ FramesRise(samples', k, delivered)
      <3>1. 0 \in Nat
        OBVIOUS
      <3> QED BY <2>2, <2>4, <2>5, <2>6, <2>7, <3>1, RisingPart
    <2>9. ring' \in Seq(Stamped) /\ FramesRise(ring', m, delivered)
      BY <2>2, <2>4, <2>5, <2>6, <2>7, RisingPart
    <2>10. TxTypes'
      BY <1>1, <1>2, <2>1, <2>4, <2>7, <2>8, <2>9 DEF TxTypes
    <2>11. RingFrames'
      <3>1. delivered' = evicted' + m + taken' /\ m <= r
        BY <1>1, <2>1, <2>2, <2>4, <2>5, <2>7
      <3>2. m <= IF MaxBlockFrames > MaxBufferedFrames THEN MaxBlockFrames ELSE MaxBufferedFrames
        <4>1. MaxBlockFrames \in Nat /\ MaxBufferedFrames \in Nat
          BY AsioPublisherAssumption
        <4> QED BY <2>2, <2>5, <3>1, <4>1
      <3> QED BY <1>1, <2>5, <2>9, <3>1, <3>2 DEF RingFrames
    <2>12. PacketFramesRise'
      <3>1. k \in 0 .. MaxPacketFrames
        BY <1>2 DEF k
      <3> QED BY <1>1, <2>8, <3>1 DEF PacketFramesRise
    <2> QED BY <2>10, <2>11, <2>12 DEF TxIInv
  <1> QED BY <1>3, <1>4

LEMMA TxStepInv ==
  ASSUME TxIInv, [TxNext]_txAll
  PROVE  TxIInv'
  <1>1. CASE UNCHANGED txAll
    BY <1>1 DEF TxIInv, TxTypes, RingFrames, PacketFramesRise, txAll, captureVars, txVars
  <1>2. ASSUME NEW n \in 1 .. MaxBlockFrames, Deliver(n)
        PROVE  TxIInv'
    BY <1>2, DeliverInv
  <1>3. ASSUME \/ LockToCount \/ LockToTake \/ SendPacket \/ TransmitEnds
               \/ SubscriptionChanges \/ StopTransmit
        PROVE  TxIInv'
    <2>1. /\ ring' = ring /\ samples' = samples /\ delivered' = delivered /\ evicted' = evicted
          /\ taken' = taken /\ framesToSend' = framesToSend
          /\ txPc' \in {txPc, "count", "take", "loop", "done"}
          /\ sequence' \in {sequence, sequence + 1}
      BY <1>3 DEF LockToCount, LockToTake, SendPacket, TransmitEnds, SubscriptionChanges,
                  StopTransmit, captureVars, txVars
    <2>2. TxTypes'
      BY <2>1 DEF TxIInv, TxTypes
    <2>3. RingFrames' /\ PacketFramesRise'
      BY <2>1 DEF TxIInv, RingFrames, PacketFramesRise
    <2> QED BY <2>2, <2>3 DEF TxIInv
  <1> QED
    BY <1>1, <1>2, <1>3, CountInv, TakeFramesInv DEF TxNext, TransmitLoop

LEMMA RisingIsWhole ==
  ASSUME NEW s \in Seq(Stamped), NEW r \in Nat, NEW last, FramesRise(s, r, last)
  PROVE  IsWhole(s) /\ Len(s) \div Width = r
  <1>1. Width \in Nat \ {0} /\ Len(s) = r * Width
    BY WidthFacts DEF FramesRise, Framed
  <1>2. Len(s) % Width = 0 /\ Len(s) \div Width = r
    <2>1. 0 \in 0 .. Width - 1 /\ r * Width + 0 = r * Width
      BY <1>1, Monotone
    <2> QED BY <1>1, <2>1, Quotient
  <1>3. ASSUME NEW i \in 1 .. Len(s)
        PROVE  /\ s[i][2] = Selected[1 + ((i - 1) % Width)]
               /\ s[i][1] = s[i - ((i - 1) % Width)][1]
               /\ i > Width => s[i - Width][1] < s[i][1]
    <2>1. PICK f \in 0 .. r - 1, c \in 1 .. Width : i = f * Width + c
      <3>1. i \in 1 .. r * Width
        BY <1>1
      <3> QED BY <1>1, <3>1, FrameOfSample
    <2>2. f \in Nat /\ c - 1 \in 0 .. Width - 1 /\ f * Width \in Nat /\ c \in Nat
      BY <1>1, Monotone
    <2>3. i - 1 = f * Width + (c - 1)
      BY <2>1, <2>2
    <2>4. (i - 1) % Width = c - 1
      BY <1>1, <2>2, <2>3, Quotient
    <2>5. s[i] = <<FrameNo(s, f, Width), Selected[c]>>
      BY <2>1 DEF FramesRise, Framed
    <2>6. 1 + (c - 1) = c /\ i - (c - 1) = f * Width + 1
      BY <2>1, <2>2
    <2>7. i > Width => s[i - Width][1] < s[i][1]
      <3> SUFFICES ASSUME i > Width PROVE s[i - Width][1] < s[i][1]
        OBVIOUS
      <3>1. f # 0
        <4>1. 0 * Width = 0
          BY <1>1
        <4> QED BY <1>1, <2>1, <2>2, <4>1
      <3>2. f - 1 \in 0 .. r - 1 /\ f \in 1 .. r - 1 /\ f - 1 \in Int
        BY <3>1
      <3>3. i - Width = (f - 1) * Width + c
        <4> DEFINE g == f - 1
        <4>1. g \in Int /\ g + 1 = f
          BY <3>2
        <4> HIDE DEF g
        <4>2. (g + 1) * Width = g * Width + 1 * Width /\ 1 * Width = Width /\ g * Width \in Int
          BY <1>1, <4>1, Distribute
        <4>3. i - Width = g * Width + c
          BY <1>1, <2>1, <2>2, <4>1, <4>2
        <4> QED BY <4>3 DEF g
      <3>4. s[i - Width] = <<FrameNo(s, f - 1, Width), Selected[c]>>
        BY <3>2, <3>3 DEF FramesRise, Framed
      <3>5. FrameNo(s, f - 1, Width) < FrameNo(s, f, Width)
        BY <3>2 DEF FramesRise
      <3> QED BY <2>5, <3>4, <3>5
    <2> QED BY <2>4, <2>5, <2>6, <2>7 DEF FrameNo
  <1> QED BY <1>2, <1>3 DEF IsWhole

LEMMA TxSuffices == TxIInv => PublishedWhole
  <1> SUFFICES ASSUME TxIInv PROVE PublishedWhole
    OBVIOUS
  <1>1. /\ ring \in Seq(Stamped) /\ samples \in Seq(Stamped) /\ Width \in Nat \ {0}
        /\ MaxBlockFrames \in Nat /\ MaxBufferedFrames \in Nat /\ MaxPacketFrames \in Nat
    BY WidthFacts, AsioPublisherAssumption DEF TxIInv, TxTypes
  <1> DEFINE most == IF MaxBlockFrames > MaxBufferedFrames THEN MaxBlockFrames ELSE MaxBufferedFrames
  <1>2. PICK r \in Nat : /\ FramesRise(ring, r, delivered)
                         /\ delivered = evicted + r + taken /\ r <= most
    BY DEF TxIInv, RingFrames
  <1>3. PICK q \in 0 .. MaxPacketFrames : FramesRise(samples, q, delivered)
    BY DEF TxIInv, PacketFramesRise
  <1>4. IsWhole(ring) /\ Len(ring) \div Width = r /\ Len(ring) = r * Width
    BY <1>1, <1>2, RisingIsWhole DEF FramesRise, Framed
  <1>5. IsWhole(samples) /\ Len(samples) = q * Width
    <2>1. q \in Nat
      OBVIOUS
    <2> QED BY <1>1, <1>3, <2>1, RisingIsWhole DEF FramesRise, Framed
  <1>6. q * Width <= MaxPacketFrames * Width
    BY <1>1, Monotone
  <1>7. Len(ring) <= Width * most
    <2>1. most \in Nat
      BY <1>1
    <2> HIDE DEF most
    <2>2. r * Width <= most * Width /\ most * Width = Width * most
      BY <1>1, <1>2, <2>1, Monotone
    <2> QED BY <1>4, <2>2
  <1> QED BY <1>2, <1>4, <1>5, <1>6, <1>7 DEF PublishedWhole

-----------------------------------------------------------------------------
(* ASIO playback.                                                          *)

ChannelNumbers == [c \in 1 .. Channels |-> c]

(* Every variable keeps to its range.                                      *)
PlaybackTypes ==
  /\ buffer \in Seq(Stamped) /\ target \in Targets /\ toCome \subseteq Packets
  /\ sessionPc \in {"first", "open", "prime", "start", "receive", "correct", "adapt", "trim",
                    "close", "finalise", "done", "failed"}

(* The buffer is whole frames, and only between a packet and the trim that *)
(* follows it are they more than the cap.                                  *)
FrameLimit(pc) ==
  IF pc \in {"adapt", "trim"} THEN CapFrames + PacketFrames + 1
  ELSE IF pc = "correct" THEN CapFrames + PacketFrames ELSE CapFrames

BufferOf(b, r) == b \in Seq(Stamped) /\ Framed(b, r, Channels, ChannelNumbers)

BufferFrames == \E r \in Nat : BufferOf(buffer, r) /\ r <= FrameLimit(sessionPc)

(* The driver runs only while the session may still stop it.               *)
StreamPhases ==
  /\ streamOpen => sessionPc \in {"receive", "correct", "adapt", "trim", "close"}
  /\ recording = "final" => sessionPc = "done"

PlaybackIInv == PlaybackTypes /\ BufferFrames /\ StreamPhases /\ RoutedWhole

LEMMA ChannelFacts ==
  /\ Channels \in Nat \ {0} /\ PacketFrames \in Nat \ {0} /\ CapFrames \in Nat
  /\ CallbackFrames \in Nat \ {0} /\ Packets \subseteq Nat \ {0}
  /\ \A t \in Targets : t \in Nat /\ t + PacketFrames <= CapFrames
  /\ \A pc : FrameLimit(pc) \in Nat /\ CapFrames <= FrameLimit(pc)
  <1>1. Channels \in Nat \ {0}
    BY AsioPlaybackAssumption, LenProperties DEF Channels
  <1>2. PacketFrames \in Nat \ {0} /\ CapFrames \in Nat
    BY AsioPlaybackAssumption
  <1> QED BY <1>1, <1>2, AsioPlaybackAssumption DEF FrameLimit

LEMMA PacketIsFrames ==
  ASSUME NEW p \in Packets
  PROVE  BufferOf(Samples(p), PacketFrames)
  <1> DEFINE t == Samples(p)
             N == PacketFrames * Channels
             from == (p - 1) * PacketFrames + 1
  <1>1. Channels \in Nat \ {0} /\ PacketFrames \in Nat \ {0} /\ PacketFrames \in Nat /\ p \in Nat \ {0}
    BY ChannelFacts
  <1>2. N \in Nat /\ from \in Nat
    <2>1. p - 1 \in Nat
      BY <1>1
    <2>2. (p - 1) * PacketFrames \in Nat /\ N \in Nat
      BY <1>1, <2>1, Monotone
    <2> QED BY <2>2
  <1>3. ASSUME NEW f \in 0 .. PacketFrames - 1, NEW c \in 1 .. Channels
        PROVE  f * Channels + c \in 1 .. N /\ t[f * Channels + c] = <<from + f, c>>
    <2> DEFINE i == f * Channels + c
    <2>1. i \in 1 .. N /\ f * Channels \in Nat
      BY <1>1, SampleOfFrame
    <2>2. i - 1 = f * Channels + (c - 1) /\ c - 1 \in 0 .. Channels - 1 /\ f \in Nat
      BY <1>1, <2>1
    <2>3. (i - 1) \div Channels = f /\ (i - 1) % Channels = c - 1
      <3>1. (f * Channels + (c - 1)) \div Channels = f /\ (f * Channels + (c - 1)) % Channels = c - 1
        BY <1>1, <2>2, Quotient
      <3> HIDE DEF i
      <3> QED BY <2>2, <3>1
    <2> HIDE DEF i
    <2>4. t[i] = <<from + ((i - 1) \div Channels), 1 + ((i - 1) % Channels)>>
      BY <2>1 DEF Samples
    <2>5. 1 + (c - 1) = c
      BY <2>2
    <2> HIDE DEF t, from
    <2> QED BY <2>1, <2>3, <2>4, <2>5 DEF i
  <1> HIDE DEF from
  <1>4. \A i \in 1 .. N : t[i] \in Stamped
    <2> SUFFICES ASSUME NEW i \in 1 .. N PROVE t[i] \in Stamped
      OBVIOUS
    <2>1. PICK f \in 0 .. PacketFrames - 1, c \in 1 .. Channels : i = f * Channels + c
      BY <1>1, FrameOfSample
    <2>2. t[i] = <<from + f, c>>
      BY <1>3, <2>1
    <2> HIDE DEF t
    <2>3. from + f \in Nat /\ c \in Nat
      BY <1>1, <1>2
    <2> QED BY <2>2, <2>3 DEF Stamped
  <1>5. t \in Seq(Stamped) /\ Len(t) = N
    <2>1. t = [i \in 1 .. N |-> t[i]]
      BY DEF Samples
    <2> HIDE DEF t, N
    <2> QED BY <1>2, <1>4, <2>1
  <1> HIDE DEF t
  <1>6. \A f \in 0 .. PacketFrames - 1 : FrameNo(t, f, Channels) = from + f
    <2>1. 1 \in 1 .. Channels
      BY <1>1
    <2>2. \A f \in 0 .. PacketFrames - 1 : t[f * Channels + 1] = <<from + f, 1>>
      BY <1>3, <2>1
    <2> QED BY <2>2 DEF FrameNo
  <1>7. \A f \in 0 .. PacketFrames - 1 : \A c \in 1 .. Channels :
          t[f * Channels + c] = <<FrameNo(t, f, Channels), ChannelNumbers[c]>>
    <2>1. \A c \in 1 .. Channels : ChannelNumbers[c] = c
      BY DEF ChannelNumbers
    <2> QED BY <1>3, <1>6, <2>1
  <1>8. Framed(t, PacketFrames, Channels, ChannelNumbers)
    BY <1>5, <1>7 DEF Framed
  <1> QED BY <1>5, <1>8 DEF BufferOf, t

LEMMA BufferParts ==
  ASSUME NEW b, NEW k \in Nat, NEW m \in Nat, BufferOf(b, k + m)
  PROVE  /\ BufferOf(SubSeq(b, k * Channels + 1, Len(b)), m)
         /\ BufferOf(SubSeq(b, 1, k * Channels), k)
  <1>1. Channels \in Nat \ {0} /\ k + m \in Nat /\ 0 \in Nat /\ 0 + k <= k + m /\ k + m <= k + m
    BY ChannelFacts
  <1>2. b \in Seq(Stamped) /\ Framed(b, k + m, Channels, ChannelNumbers)
        /\ Len(b) = (k + m) * Channels
    BY DEF BufferOf, Framed
  <1>3. /\ SubSeq(b, k * Channels + 1, Len(b)) = FramesFrom(b, k, m, Channels)
        /\ SubSeq(b, 1, k * Channels) = FramesFrom(b, 0, k, Channels)
    <2>1. Len(b) = (k + m) * Channels /\ Channels \in Nat \ {0}
      BY <1>1, <1>2
    <2> QED BY <2>1, WholeParts
  <1> DEFINE n == k + m
  <1>4. n \in Nat /\ k + m <= n /\ 0 + k <= n /\ Framed(b, n, Channels, ChannelNumbers)
    BY <1>1, <1>2
  <1> HIDE DEF n
  <1>5. BufferOf(FramesFrom(b, k, m, Channels), m)
    BY <1>1, <1>2, <1>4, FramedPart DEF BufferOf
  <1>6. BufferOf(FramesFrom(b, 0, k, Channels), k)
    BY <1>1, <1>2, <1>4, FramedPart DEF BufferOf
  <1> QED BY <1>3, <1>5, <1>6

LEMMA BufferJoin ==
  ASSUME NEW b, NEW c, NEW k \in Nat, NEW m \in Nat, BufferOf(b, k), BufferOf(c, m)
  PROVE  BufferOf(b \o c, k + m)
  <1>1. Channels \in Nat \ {0}
    BY ChannelFacts
  <1> QED BY <1>1, FramedJoin DEF BufferOf

(* A step that leaves the buffer alone, or appends a packet to it.         *)
LEMMA BufferStays ==
  ASSUME BufferFrames, buffer' = buffer, FrameLimit(sessionPc) <= FrameLimit(sessionPc')
  PROVE  BufferFrames'
  <1>1. PICK r \in Nat : BufferOf(buffer, r) /\ r <= FrameLimit(sessionPc)
    BY DEF BufferFrames
  <1>2. FrameLimit(sessionPc) \in Nat /\ FrameLimit(sessionPc') \in Nat
    BY ChannelFacts
  <1>3. r <= FrameLimit(sessionPc')
    BY <1>1, <1>2
  <1> QED BY <1>1, <1>3 DEF BufferFrames, FrameLimit

LEMMA CorrectedFrames ==
  ASSUME NEW r \in Nat, BufferOf(buffer, r), NEW b \in Corrected
  PROVE  \E q \in Nat : BufferOf(b, q) /\ q <= r + 1
  <1>1. Channels \in Nat \ {0} /\ Len(buffer) = r * Channels
        /\ 1 * Channels = Channels /\ r + 1 \in Nat
    BY ChannelFacts, Distribute DEF BufferOf, Framed
  <1>2. CASE r = 0
    <2>1. Len(buffer) = 0 /\ buffer = << >>
      <3>1. Len(buffer) = 0
        BY <1>1, <1>2
      <3> QED BY <3>1, EmptySeq DEF BufferOf
    <2>2. SubSeq(buffer, Channels + 1, Len(buffer)) = << >>
      BY <1>1, <2>1, SubSeqEmpty
    <2>3. b = buffer
      BY <1>1, <2>1, <2>2 DEF Corrected
    <2> QED BY <1>1, <2>3
  <1>3. CASE r # 0
    <2> DEFINE m == r - 1
    <2>1. m \in Nat /\ 1 + m = r /\ 1 \in Nat
      BY <1>3
    <2> HIDE DEF m
    <2>2. BufferOf(buffer, 1 + m)
      BY <2>1
    <2>3. /\ BufferOf(SubSeq(buffer, 1 * Channels + 1, Len(buffer)), m)
          /\ BufferOf(SubSeq(buffer, 1, 1 * Channels), 1)
      BY <2>1, <2>2, BufferParts
    <2>4. BufferOf(SubSeq(buffer, Channels + 1, Len(buffer)), m)
      BY <1>1, <2>3
    <2>5. BufferOf(buffer \o SubSeq(buffer, 1, Channels), r + 1)
      <3>1. BufferOf(SubSeq(buffer, 1, Channels), 1)
        BY <1>1, <2>3
      <3> QED BY <2>1, <3>1, BufferJoin
    <2>6. b \in {buffer, SubSeq(buffer, Channels + 1, Len(buffer)),
                 buffer \o SubSeq(buffer, 1, Channels)}
      BY DEF Corrected
    <2>7. m <= r + 1 /\ r <= r + 1
      BY <2>1
    <2>8. r + 1 \in Nat /\ r + 1 <= r + 1
      OBVIOUS
    <2>9. CASE b = buffer
      BY <2>7, <2>9
    <2>10. CASE b = SubSeq(buffer, Channels + 1, Len(buffer))
      BY <2>1, <2>4, <2>7, <2>10
    <2>11. CASE b = buffer \o SubSeq(buffer, 1, Channels)
      BY <2>5, <2>8, <2>11
    <2> QED BY <2>6, <2>9, <2>10, <2>11
  <1> QED BY <1>2, <1>3

-----------------------------------------------------------------------------
LEMMA PlaybackInitInv == PlaybackInit => PlaybackIInv
  <1> SUFFICES ASSUME PlaybackInit PROVE PlaybackIInv
    OBVIOUS
  <1>1. BufferOf(<< >>, 0)
    <2>1. 0 * Channels = 0
      BY ChannelFacts
    <2> QED BY <2>1, EmptySeq DEF BufferOf, Framed
  <1>2. BufferFrames
    <2>1. 0 <= FrameLimit(sessionPc) /\ 0 \in Nat
      BY ChannelFacts
    <2> QED BY <1>1, <2>1 DEF PlaybackInit, BufferFrames
  <1>3. PlaybackTypes /\ StreamPhases /\ RoutedWhole
    BY <1>1 DEF PlaybackInit, PlaybackTypes, StreamPhases, RoutedWhole, BufferOf
  <1> QED BY <1>2, <1>3 DEF PlaybackIInv

LEMMA FirstPacketInv ==
  ASSUME PlaybackIInv, NEW p \in Packets, FirstPacket(p)
  PROVE  PlaybackIInv'
  <1>1. /\ buffer' = Samples(p) /\ toCome' = toCome \ {p} /\ sessionPc' = "open"
        /\ sessionPc = "first"
        /\ UNCHANGED <<target, streamOpen, recording, rendered, playing>>
    BY DEF FirstPacket
  <1>2. BufferOf(buffer', PacketFrames)
    BY <1>1, PacketIsFrames
  <1>3. PlaybackTypes'
    BY <1>1, <1>2 DEF PlaybackIInv, PlaybackTypes, BufferOf
  <1>4. PacketFrames \in Nat /\ PacketFrames <= CapFrames
    BY ChannelFacts DEF PlaybackIInv, PlaybackTypes
  <1>5. BufferFrames'
    BY <1>1, <1>2, <1>4 DEF BufferFrames, FrameLimit
  <1>6. StreamPhases' /\ RoutedWhole'
    BY <1>1 DEF PlaybackIInv, StreamPhases, RoutedWhole
  <1> QED BY <1>3, <1>5, <1>6 DEF PlaybackIInv

LEMMA PrimePacketInv ==
  ASSUME PlaybackIInv, NEW p \in Packets, PrimePacket(p)
  PROVE  PlaybackIInv'
  <1>1. /\ buffer' = buffer \o Samples(p) /\ toCome' = toCome \ {p} /\ sessionPc = "prime"
        /\ Len(buffer) < target * Channels
        /\ UNCHANGED <<sessionPc, target, streamOpen, recording, rendered, playing>>
    BY DEF PrimePacket
  <1>2. PICK r \in Nat : BufferOf(buffer, r)
    BY DEF PlaybackIInv, BufferFrames
  <1>3. PacketFrames \in Nat /\ target \in Nat /\ target + PacketFrames <= CapFrames
        /\ Channels \in Nat \ {0} /\ CapFrames \in Nat
    BY ChannelFacts DEF PlaybackIInv, PlaybackTypes
  <1>4. BufferOf(buffer', r + PacketFrames)
    <2>1. BufferOf(Samples(p), PacketFrames)
      BY PacketIsFrames
    <2> QED BY <1>1, <1>2, <1>3, <2>1, BufferJoin
  <1>5. r < target
    <2>1. r * Channels < target * Channels
      BY <1>1, <1>2 DEF BufferOf, Framed
    <2>2. r * Channels \in Nat /\ target * Channels \in Nat
          /\ (target <= r <=> target * Channels <= r * Channels)
      BY <1>3, Monotone
    <2> QED BY <1>3, <2>1, <2>2
  <1>6. r + PacketFrames \in Nat /\ r + PacketFrames <= CapFrames
    BY <1>3, <1>5
  <1>7. BufferFrames'
    BY <1>1, <1>4, <1>6 DEF BufferFrames, FrameLimit
  <1>8. PlaybackTypes' /\ StreamPhases' /\ RoutedWhole'
    BY <1>1, <1>4 DEF PlaybackIInv, PlaybackTypes, StreamPhases, RoutedWhole, BufferOf
  <1> QED BY <1>7, <1>8 DEF PlaybackIInv

LEMMA ReceiveAudioInv ==
  ASSUME PlaybackIInv, NEW p \in Packets, ReceiveAudio(p)
  PROVE  PlaybackIInv'
  <1>1. /\ buffer' = buffer \o Samples(p) /\ toCome' = toCome \ {p}
        /\ sessionPc = "receive" /\ sessionPc' = "correct"
        /\ UNCHANGED <<target, streamOpen, recording, rendered, playing>>
    BY DEF ReceiveAudio
  <1>2. PICK r \in Nat : BufferOf(buffer, r) /\ r <= CapFrames
    BY <1>1 DEF PlaybackIInv, BufferFrames, FrameLimit
  <1>3. PacketFrames \in Nat /\ CapFrames \in Nat
    BY ChannelFacts
  <1>4. BufferOf(buffer', r + PacketFrames)
    <2>1. BufferOf(Samples(p), PacketFrames)
      BY PacketIsFrames
    <2> QED BY <1>1, <1>2, <1>3, <2>1, BufferJoin
  <1>5. r + PacketFrames \in Nat /\ r + PacketFrames <= CapFrames + PacketFrames
    BY <1>2, <1>3
  <1>6. BufferFrames'
    BY <1>1, <1>4, <1>5 DEF BufferFrames, FrameLimit
  <1>7. PlaybackTypes' /\ StreamPhases' /\ RoutedWhole'
    BY <1>1, <1>4 DEF PlaybackIInv, PlaybackTypes, StreamPhases, RoutedWhole, BufferOf
  <1> QED BY <1>6, <1>7 DEF PlaybackIInv

LEMMA CorrectClockInv ==
  ASSUME PlaybackIInv, CorrectClock
  PROVE  PlaybackIInv'
  <1>1. /\ buffer' \in Corrected /\ sessionPc = "correct" /\ sessionPc' = "adapt"
        /\ UNCHANGED <<target, toCome, streamOpen, recording, rendered, playing>>
    BY DEF CorrectClock
  <1>2. PICK r \in Nat : BufferOf(buffer, r) /\ r <= CapFrames + PacketFrames
    BY <1>1 DEF PlaybackIInv, BufferFrames, FrameLimit
  <1>3. PICK q \in Nat : BufferOf(buffer', q) /\ q <= r + 1
    BY <1>1, <1>2, CorrectedFrames
  <1>4. q <= CapFrames + PacketFrames + 1
    BY <1>2, <1>3, ChannelFacts
  <1>5. BufferFrames'
    BY <1>1, <1>3, <1>4 DEF BufferFrames, FrameLimit
  <1>6. PlaybackTypes' /\ StreamPhases' /\ RoutedWhole'
    BY <1>1, <1>3 DEF PlaybackIInv, PlaybackTypes, StreamPhases, RoutedWhole, BufferOf
  <1> QED BY <1>5, <1>6 DEF PlaybackIInv

(* The newest frames stay, as many as the limit allows.                    *)
LEMMA TrimInv ==
  ASSUME PlaybackIInv, Trim
  PROVE  PlaybackIInv'
  <1> DEFINE keep == IF Len(buffer) < TrimLimit * Channels THEN Len(buffer) ELSE TrimLimit * Channels
  <1>1. /\ buffer' = SubSeq(buffer, Len(buffer) - keep + 1, Len(buffer))
        /\ sessionPc' = "receive" /\ sessionPc = "trim"
        /\ UNCHANGED <<target, toCome, streamOpen, recording, rendered, playing>>
    BY DEF Trim, Least
  <1>2. PICK r \in Nat : BufferOf(buffer, r)
    BY DEF PlaybackIInv, BufferFrames
  <1>3. TrimLimit \in Nat /\ TrimLimit <= CapFrames /\ Channels \in Nat \ {0} /\ CapFrames \in Nat
    BY ChannelFacts DEF TrimLimit, Least, PlaybackIInv, PlaybackTypes
  <1>4. Len(buffer) = r * Channels
    BY <1>2 DEF BufferOf, Framed
  <1> DEFINE m == IF r < TrimLimit THEN r ELSE TrimLimit
             k == r - m
  <1>5. m \in Nat /\ k \in Nat /\ k + m = r /\ m <= CapFrames
    BY <1>3
  <1>6. keep = m * Channels
    <2>1. /\ r * Channels \in Nat /\ TrimLimit * Channels \in Nat
          /\ (TrimLimit <= r <=> TrimLimit * Channels <= r * Channels)
      BY <1>3, Monotone
    <2>2. CASE r < TrimLimit
      BY <1>3, <1>4, <2>1, <2>2
    <2>3. CASE ~ (r < TrimLimit)
      BY <1>3, <1>4, <2>1, <2>3
    <2> QED BY <2>2, <2>3
  <1> HIDE DEF m, k, keep
  <1>7. Len(buffer) - keep + 1 = k * Channels + 1
    <2>1. (k + m) * Channels = k * Channels + m * Channels /\ k * Channels \in Int /\ m * Channels \in Int
      BY <1>3, <1>5, Distribute
    <2> QED BY <1>4, <1>5, <1>6, <2>1
  <1>8. BufferOf(buffer', m)
    <2>1. BufferOf(buffer, k + m)
      BY <1>2, <1>5
    <2>2. BufferOf(SubSeq(buffer, k * Channels + 1, Len(buffer)), m)
      BY <1>5, <2>1, BufferParts
    <2> QED BY <1>1, <1>7, <2>2
  <1>9. BufferFrames'
    BY <1>1, <1>5, <1>8 DEF BufferFrames, FrameLimit
  <1>10. PlaybackTypes' /\ StreamPhases' /\ RoutedWhole'
    BY <1>1, <1>8 DEF PlaybackIInv, PlaybackTypes, StreamPhases, RoutedWhole, BufferOf
  <1> QED BY <1>9, <1>10 DEF PlaybackIInv

LEMMA RenderInv ==
  ASSUME PlaybackIInv, Render
  PROVE  PlaybackIInv'
  <1>1. /\ rendered' = [f \in 1 .. CallbackFrames |-> RoutedFrame(f)]
        /\ UNCHANGED <<sessionPc, target, toCome, streamOpen, recording, playing>>
    BY DEF Render
  <1>2. PICK r \in Nat : BufferOf(buffer, r) /\ r <= FrameLimit(sessionPc)
    BY DEF PlaybackIInv, BufferFrames
  <1>3. Channels \in Nat \ {0} /\ CallbackFrames \in Nat
    BY ChannelFacts
  <1>4. Len(buffer) = r * Channels
    BY <1>2 DEF BufferOf, Framed
  <1>5. Len(buffer) \div Channels = r
    <2>1. 0 \in 0 .. Channels - 1 /\ r * Channels + 0 = r * Channels
      BY <1>3, Monotone
    <2>2. (r * Channels + 0) \div Channels = r
      BY <1>3, <2>1, Quotient
    <2> QED BY <1>4, <2>1, <2>2
  <1> DEFINE k == IF r < CallbackFrames THEN r ELSE CallbackFrames
             m == r - k
  <1>6. k \in Nat /\ m \in Nat /\ k + m = r /\ m <= r
    BY <1>3
  <1>7. buffer' = SubSeq(buffer, k * Channels + 1, Len(buffer))
    BY <1>5 DEF Render, Least
  <1> HIDE DEF k, m
  <1>8. BufferOf(buffer', m)
    <2>1. BufferOf(buffer, k + m)
      BY <1>2, <1>6
    <2> QED BY <1>6, <1>7, <2>1, BufferParts
  <1>9. BufferFrames'
    <2>1. FrameLimit(sessionPc) \in Nat
      BY ChannelFacts
    <2>2. m <= FrameLimit(sessionPc)
      BY <1>2, <1>6, <2>1
    <2> QED BY <1>1, <1>6, <1>8, <2>2 DEF BufferFrames
  <1>10. ASSUME NEW f \in 1 .. CallbackFrames, NEW o \in Outputs, NEW s \in RoutedFrame(f)[o]
         PROVE  Routes[s[2]] = o /\ s[1] = FrameNo(buffer, f - 1, Channels)
    <2>1. PICK c \in 1 .. Channels : /\ Routes[c] = o /\ f * Channels <= Len(buffer)
                                     /\ s = buffer[(f - 1) * Channels + c]
      BY DEF RoutedFrame
    <2>2. f - 1 \in 0 .. r - 1
      <3>1. f \in Nat /\ f * Channels <= r * Channels
        BY <1>3, <1>4, <2>1
      <3>2. f <= r
        BY <1>3, <3>1, Monotone
      <3> QED BY <3>2
    <2>3. s = <<FrameNo(buffer, f - 1, Channels), ChannelNumbers[c]>>
      BY <1>2, <2>1, <2>2 DEF BufferOf, Framed
    <2>4. ChannelNumbers[c] = c
      BY DEF ChannelNumbers
    <2> QED BY <2>1, <2>3, <2>4
  <1>11. RoutedWhole'
    <2>1. ASSUME NEW f \in DOMAIN rendered'
          PROVE  f \in 1 .. CallbackFrames /\ rendered'[f] = RoutedFrame(f)
      BY <1>1
    <2> QED BY <1>10, <2>1 DEF RoutedWhole
  <1>12. PlaybackTypes' /\ StreamPhases'
    BY <1>1, <1>8 DEF PlaybackIInv, PlaybackTypes, StreamPhases, BufferOf
  <1> QED BY <1>9, <1>11, <1>12 DEF PlaybackIInv

LEMMA PlaybackStepInv ==
  ASSUME PlaybackIInv, [PlaybackNext]_playbackVars
  PROVE  PlaybackIInv'
  <1>1. ASSUME \/ NoFirstPacket \/ DriverRefused \/ PrimeEnds \/ StartStream \/ ReceiveEnds
               \/ CloseStream \/ Finalise \/ StopPlayback \/ UNCHANGED playbackVars
               \/ Adapt \/ \E record \in BOOLEAN : OpenDriver(record)
        PROVE  PlaybackIInv'
    <2>1. buffer' = buffer /\ toCome' = toCome /\ rendered' = rendered /\ target' \in Targets
      BY <1>1 DEF NoFirstPacket, DriverRefused, PrimeEnds, StartStream, ReceiveEnds, CloseStream,
                  Finalise, StopPlayback, Adapt, OpenDriver, playbackVars, PlaybackIInv,
                  PlaybackTypes
    <2>2. /\ PlaybackTypes' /\ StreamPhases'
          /\ sessionPc' = sessionPc \/ sessionPc \notin {"correct", "adapt", "trim"}
             \/ (sessionPc = "adapt" /\ sessionPc' = "trim")
      BY <1>1, <2>1 DEF NoFirstPacket, DriverRefused, PrimeEnds, StartStream, ReceiveEnds,
                  CloseStream, Finalise, StopPlayback, Adapt, OpenDriver, playbackVars,
                  PlaybackIInv, PlaybackTypes, StreamPhases
    <2>3. FrameLimit(sessionPc) <= FrameLimit(sessionPc')
      <3>1. \A pc : FrameLimit(pc) \in Nat /\ CapFrames <= FrameLimit(pc)
        BY ChannelFacts
      <3>2. CASE sessionPc' = sessionPc
        BY <3>1, <3>2
      <3>3. CASE sessionPc \notin {"correct", "adapt", "trim"}
        <4>1. FrameLimit(sessionPc) = CapFrames
          BY <3>3 DEF FrameLimit
        <4> QED BY <3>1, <4>1
      <3>4. CASE sessionPc = "adapt" /\ sessionPc' = "trim"
        <4>1. FrameLimit("adapt") = FrameLimit("trim")
          BY DEF FrameLimit
        <4> QED BY <3>1, <3>4, <4>1
      <3> QED BY <2>2, <3>2, <3>3, <3>4
    <2>4. BufferFrames'
      BY <2>1, <2>3, BufferStays DEF PlaybackIInv
    <2> QED BY <2>1, <2>2, <2>4 DEF PlaybackIInv, RoutedWhole
  <1> QED
    BY <1>1, FirstPacketInv, PrimePacketInv, ReceiveAudioInv, CorrectClockInv, TrimInv, RenderInv
    DEF PlaybackNext, Session

LEMMA PlaybackSuffices == PlaybackIInv => PlayedWhole
  <1> SUFFICES ASSUME PlaybackIInv PROVE PlayedWhole
    OBVIOUS
  <1>1. PICK r \in Nat : BufferOf(buffer, r) /\ r <= FrameLimit(sessionPc)
    BY DEF PlaybackIInv, BufferFrames
  <1>2. Channels \in Nat \ {0} /\ CapFrames \in Nat /\ PacketFrames \in Nat
        /\ r <= CapFrames + PacketFrames + 1
    BY <1>1, ChannelFacts DEF FrameLimit
  <1>3. Len(buffer) <= (CapFrames + PacketFrames + 1) * Channels
    <2> DEFINE n == CapFrames + PacketFrames + 1
    <2>1. n \in Nat /\ r <= n
      BY <1>2
    <2> HIDE DEF n
    <2>2. r * Channels <= n * Channels
      BY <1>2, <2>1, Monotone
    <2> QED BY <1>1, <2>2 DEF BufferOf, Framed, n
  <1>4. recording = "final" => ~ streamOpen
    BY DEF PlaybackIInv, StreamPhases
  <1> QED BY <1>3, <1>4 DEF PlaybackIInv, PlayedWhole, BufferBounded

-----------------------------------------------------------------------------
(* The split receiver.                                                     *)

(* Every variable keeps to its range.                                      *)
SplitTypes ==
  /\ splitPc \in {"first", "open", "demux", "receive", "trim", "finalise", "done", "failed"}
  /\ channel \in 1 .. Devices + 1 /\ received \in Nat /\ payload \in Nat \X Nat
  /\ opened \in 0 .. Devices
  /\ channelQueue \in [1 .. Devices -> Seq(Nat)]
  /\ written \in [1 .. Devices -> Nat] /\ heard \in [1 .. Devices -> Nat]

(* How far the thread is with the packet at hand: the channels before the  *)
(* one it is at have it, the others are a packet behind.                   *)
Handed ==
  /\ payload[2] = received
  /\ splitPc \notin {"first", "done", "failed"} => 1 <= payload[1] /\ payload[1] <= received
  /\ splitPc = "demux" =>
       \A c \in 1 .. Devices : written[c] = IF c < channel THEN received ELSE payload[1] - 1
  /\ splitPc \in {"trim", "receive"} => \A c \in 1 .. Devices : written[c] = received
  /\ splitPc = "open" => payload[1] = 1
  /\ splitPc \in {"first", "open"} => \A c \in 1 .. Devices : written[c] = 0

(* The channels trimmed so far are short enough.                           *)
TrimmedSoFar ==
  /\ splitPc = "trim" =>
       \A c \in 1 .. Devices : c < channel => Len(channelQueue[c]) <= MaximumSamples
  /\ splitPc = "receive" /\ payload[1] > 1 =>
       \A c \in 1 .. Devices : Len(channelQueue[c]) <= MaximumSamples

(* A queue is the newest of what was written.                              *)
Newest(q, last, played) ==
  q = Run(last - Len(q) + 1, last) /\ played <= last - Len(q)

QueuesNewest == \A c \in 1 .. Devices : Newest(channelQueue[c], written[c], heard[c])

SplitIInv == SplitTypes /\ Handed /\ TrimmedSoFar /\ QueuesNewest

LEMMA RunFacts ==
  ASSUME NEW from \in Nat, NEW to \in Nat, from <= to + 1, from > 0
  PROVE  /\ Run(from, to) \in Seq(Nat) /\ Len(Run(from, to)) = to - from + 1
         /\ \A i \in 1 .. to - from + 1 : Run(from, to)[i] = from + i - 1
  <1> DEFINE n == to - from + 1
  <1>1. n \in Nat /\ \A i \in 1 .. n : from + i - 1 \in Nat
    OBVIOUS
  <1>2. Run(from, to) = [i \in 1 .. n |-> from + i - 1]
    BY DEF Run
  <1> HIDE DEF n
  <1>3. Run(from, to) \in Seq(Nat) /\ Len(Run(from, to)) = n
    BY <1>1, <1>2
  <1> QED BY <1>2, <1>3 DEF n

(* A sequence is a run if its elements say so.                             *)
LEMMA IsRun ==
  ASSUME NEW q \in Seq(Nat), NEW last \in Nat, Len(q) <= last,
         \A i \in 1 .. Len(q) : q[i] = last - Len(q) + i
  PROVE  q = Run(last - Len(q) + 1, last)
  <1> DEFINE n == Len(q)
             from == last - n + 1
  <1>1. n \in Nat
    BY LenProperties
  <1>2. from \in Nat /\ from > 0 /\ from <= last + 1 /\ last - from + 1 = n
    BY <1>1
  <1>3. \A i \in 1 .. n : q[i] = from + i - 1
    BY <1>1
  <1> HIDE DEF from, n
  <1>4. /\ Run(from, last) \in Seq(Nat) /\ Len(Run(from, last)) = n
        /\ \A i \in 1 .. n : Run(from, last)[i] = from + i - 1
    BY <1>2, RunFacts
  <1>5. q = Run(from, last)
    BY <1>3, <1>4, SeqEqual DEF n
  <1> QED BY <1>5 DEF from, n

LEMMA NewestFacts ==
  ASSUME NEW q \in Seq(Nat), NEW last \in Nat, NEW played \in Nat, Newest(q, last, played)
  PROVE  /\ Len(q) \in Nat /\ Len(q) <= last
         /\ \A i \in 1 .. Len(q) : q[i] = last - Len(q) + i
  <1> DEFINE n == Len(q)
             from == last - n + 1
  <1>1. n \in Nat
    BY LenProperties
  <1>2. n <= last
    BY <1>1 DEF Newest
  <1>3. from \in Nat /\ from > 0 /\ from <= last + 1 /\ last - from + 1 = n
    BY <1>1, <1>2
  <1>4. q = Run(from, last)
    BY DEF Newest
  <1> HIDE DEF from
  <1>5. \A i \in 1 .. n : q[i] = from + i - 1
    BY <1>3, <1>4, RunFacts
  <1>6. \A i \in 1 .. n : from + i - 1 = last - n + i
    BY <1>1, <1>2 DEF from
  <1> QED BY <1>1, <1>2, <1>5, <1>6

LEMMA NewestGrows ==
  ASSUME NEW q \in Seq(Nat), NEW last \in Nat, NEW played \in Nat, Newest(q, last, played),
         NEW to \in Nat, last < to
  PROVE  q \o Run(last + 1, to) \in Seq(Nat) /\ Newest(q \o Run(last + 1, to), to, played)
  <1> DEFINE t == Run(last + 1, to)
             u == q \o t
             n == Len(q)
             m == to - last
  <1>1. n \in Nat /\ n <= last /\ m \in Nat /\ \A i \in 1 .. n : q[i] = last - n + i
    BY NewestFacts
  <1>2. /\ t \in Seq(Nat) /\ Len(t) = m /\ \A i \in 1 .. m : t[i] = last + i
    <2>1. last + 1 \in Nat /\ last + 1 <= to + 1 /\ last + 1 > 0 /\ to - (last + 1) + 1 = m
          /\ \A i \in 1 .. m : last + 1 + i - 1 = last + i
      OBVIOUS
    <2> HIDE DEF m
    <2>2. /\ t \in Seq(Nat) /\ Len(t) = to - (last + 1) + 1
          /\ \A i \in 1 .. to - (last + 1) + 1 : t[i] = last + 1 + i - 1
      BY <2>1, RunFacts
    <2> HIDE DEF t
    <2> QED BY <2>1, <2>2
  <1> HIDE DEF t
  <1>3. /\ u \in Seq(Nat) /\ Len(u) = n + m
        /\ \A i \in 1 .. n + m : u[i] = IF i <= n THEN q[i] ELSE t[i - n]
    <2>1. /\ u \in Seq(Nat) /\ Len(u) = Len(q) + Len(t)
          /\ \A i \in 1 .. Len(q) + Len(t) : u[i] = IF i <= Len(q) THEN q[i] ELSE t[i - Len(q)]
      BY <1>2, ConcatProperties
    <2> HIDE DEF u, m
    <2> QED BY <1>2, <2>1
  <1> HIDE DEF u, n
  <1>4. \A i \in 1 .. Len(u) : u[i] = to - Len(u) + i
    <2> SUFFICES ASSUME NEW i \in 1 .. n + m PROVE u[i] = to - (n + m) + i
      BY <1>3
    <2>1. CASE i <= n
      BY <1>1, <1>3, <2>1
    <2>2. CASE i > n
      <3>1. i - n \in 1 .. m
        BY <1>1, <2>2
      <3>2. u[i] = last + (i - n)
        BY <1>1, <1>2, <1>3, <2>2, <3>1
      <3> QED BY <1>1, <3>2
    <2> QED BY <1>1, <2>1, <2>2
  <1>5. Len(u) <= to /\ played <= to - Len(u)
    BY <1>1, <1>3 DEF Newest, n
  <1>6. Newest(u, to, played)
    BY <1>3, <1>4, <1>5, IsRun DEF Newest
  <1> QED BY <1>3, <1>6 DEF u, t

LEMMA NewestCut ==
  ASSUME NEW q \in Seq(Nat), NEW last \in Nat, NEW played \in Nat, Newest(q, last, played),
         NEW n \in Nat, n <= Len(q)
  PROVE  LET t == SubSeq(q, Len(q) - n + 1, Len(q))
         IN  t \in Seq(Nat) /\ Len(t) = n /\ Newest(t, last, played)
  <1> DEFINE k == Len(q) - n
             t == SubSeq(q, k + 1, k + n)
  <1>1. Len(q) \in Nat /\ Len(q) <= last /\ \A i \in 1 .. Len(q) : q[i] = last - Len(q) + i
    BY NewestFacts
  <1>2. k \in Nat /\ k + n = Len(q)
    BY <1>1
  <1> HIDE DEF k
  <1>3. t \in Seq(Nat) /\ Len(t) = n /\ \A i \in 1 .. n : t[i] = q[k + i]
    <2>1. k + n <= Len(q)
      BY <1>1, <1>2
    <2> QED BY <1>2, <2>1, Part
  <1> HIDE DEF t
  <1>4. \A i \in 1 .. Len(t) : t[i] = last - Len(t) + i
    <2> SUFFICES ASSUME NEW i \in 1 .. n PROVE t[i] = last - n + i
      BY <1>3
    <2>1. k + i \in 1 .. Len(q)
      BY <1>2
    <2>2. t[i] = last - Len(q) + (k + i)
      BY <1>1, <1>3, <2>1
    <2>3. last - Len(q) + (k + i) = last - n + i
      BY <1>2
    <2> QED BY <2>2, <2>3
  <1>5. Len(t) <= last /\ played <= last - Len(t)
    BY <1>1, <1>2, <1>3 DEF Newest
  <1>6. Newest(t, last, played)
    BY <1>3, <1>4, <1>5, IsRun DEF Newest
  <1> QED BY <1>2, <1>3, <1>6 DEF t, k

LEMMA NewestPlayed ==
  ASSUME NEW q \in Seq(Nat), NEW last \in Nat, NEW played \in Nat, Newest(q, last, played),
         q # << >>
  PROVE  /\ Tail(q) \in Seq(Nat) /\ Head(q) \in Nat /\ Newest(Tail(q), last, Head(q))
         /\ Len(Tail(q)) <= Len(q)
  <1>1. Len(q) \in Nat /\ Len(q) <= last /\ \A i \in 1 .. Len(q) : q[i] = last - Len(q) + i
    BY NewestFacts
  <1>2. /\ Tail(q) \in Seq(Nat) /\ Len(Tail(q)) = Len(q) - 1 /\ Len(q) > 0
        /\ \A i \in 1 .. Len(q) - 1 : Tail(q)[i] = q[i + 1]
        /\ Head(q) = q[1]
    BY <1>1, HeadTailProperties, EmptySeq
  <1>3. Head(q) = last - Len(q) + 1
    BY <1>1, <1>2
  <1>4. \A i \in 1 .. Len(Tail(q)) : Tail(q)[i] = last - Len(Tail(q)) + i
    BY <1>1, <1>2
  <1>5. Len(Tail(q)) <= last /\ Head(q) <= last - Len(Tail(q)) /\ Head(q) \in Nat
    BY <1>1, <1>2, <1>3
  <1>6. Newest(Tail(q), last, Head(q))
    BY <1>2, <1>4, <1>5, IsRun DEF Newest
  <1> QED BY <1>1, <1>2, <1>5, <1>6

-----------------------------------------------------------------------------
LEMMA SplitInitInv == SplitInit => SplitIInv
  <1> SUFFICES ASSUME SplitInit PROVE SplitIInv
    OBVIOUS
  <1>1. Devices \in Nat \ {0}
    BY SplitReceiverAssumption
  <1>2. SplitTypes /\ Handed /\ TrimmedSoFar
    BY <1>1 DEF SplitInit, SplitTypes, Handed, TrimmedSoFar
  <1>3. Newest(<< >>, 0, 0)
    <2>1. Len(<< >>) = 0 /\ Run(1, 0) \in Seq(Nat) /\ Len(Run(1, 0)) = 0
      BY RunFacts
    <2>2. << >> = Run(1, 0)
      BY <2>1, EmptySeq
    <2> QED BY <2>1, <2>2 DEF Newest
  <1>4. QueuesNewest
    BY <1>3 DEF SplitInit, QueuesNewest
  <1> QED BY <1>2, <1>4 DEF SplitIInv

LEMMA PayloadInv ==
  ASSUME SplitIInv, NEW n \in 1 .. MaxPayload, FirstPayload(n) \/ NextPayload(n)
  PROVE  SplitIInv'
  <1>1. n \in Nat /\ n > 0 /\ Devices \in Nat \ {0}
    BY SplitReceiverAssumption
  <1>2. CASE FirstPayload(n)
    <2>1. splitPc = "first" /\ splitPc' = "open" /\ payload' = <<1, n>> /\ received' = n
          /\ UNCHANGED <<opened, channel, channelQueue, written, heard, finalised, splitRunning>>
      BY <1>2 DEF FirstPayload
    <2>2. SplitTypes'
      BY <1>1, <2>1 DEF SplitIInv, SplitTypes
    <2>3. Handed'
      BY <1>1, <2>1 DEF SplitIInv, Handed
    <2> QED BY <2>1, <2>2, <2>3 DEF SplitIInv, TrimmedSoFar, QueuesNewest
  <1>3. CASE NextPayload(n)
    <2>1. splitPc = "receive" /\ splitPc' = "demux" /\ payload' = <<received + 1, received + n>>
          /\ received' = received + n /\ channel' = 1
          /\ UNCHANGED <<opened, channelQueue, written, heard, finalised, splitRunning>>
      BY <1>3 DEF NextPayload
    <2>2. SplitTypes'
      <3>1. payload' \in Nat \X Nat /\ received' \in Nat /\ channel' \in 1 .. Devices + 1
        BY <1>1, <2>1 DEF SplitIInv, SplitTypes
      <3> QED BY <2>1, <3>1 DEF SplitIInv, SplitTypes
    <2>3. QueuesNewest' /\ TrimmedSoFar'
      BY <2>1 DEF SplitIInv, TrimmedSoFar, QueuesNewest
    <2>4. Handed'
      <3>1. payload'[1] = received + 1 /\ payload'[2] = received + n /\ received \in Nat
        BY <2>1 DEF SplitIInv, SplitTypes
      <3>2. \A c \in 1 .. Devices : written'[c] = received /\ ~ (c < channel')
        BY <2>1 DEF SplitIInv, Handed
      <3> QED BY <1>1, <2>1, <3>1, <3>2 DEF Handed
    <2> QED BY <2>2, <2>3, <2>4 DEF SplitIInv
  <1> QED BY <1>2, <1>3

LEMMA DemuxInv ==
  ASSUME SplitIInv, Demux
  PROVE  SplitIInv'
  <1>1. /\ splitPc = "demux" /\ channel <= Devices /\ channel' = channel + 1
        /\ channelQueue' = [channelQueue EXCEPT ![channel] = @ \o Run(payload[1], payload[2])]
        /\ written' = [written EXCEPT ![channel] = payload[2]]
        /\ UNCHANGED <<splitPc, opened, payload, received, heard, finalised, splitRunning>>
    BY DEF Demux
  <1>2. SplitTypes /\ Handed /\ Devices \in Nat /\ channel \in 1 .. Devices
    BY <1>1, SplitReceiverAssumption DEF SplitIInv, SplitTypes
  <1> DEFINE q == channelQueue[channel]
             last == payload[1] - 1
             grown == q \o Run(last + 1, received)
  <1>3. /\ payload[2] = received /\ received \in Nat /\ last \in Nat /\ last < received
        /\ written[channel] = last /\ last + 1 = payload[1]
    BY <1>1, <1>2 DEF Handed, SplitTypes
  <1>4. q \in Seq(Nat) /\ heard[channel] \in Nat /\ Newest(q, last, heard[channel])
    BY <1>2, <1>3 DEF SplitIInv, SplitTypes, QueuesNewest
  <1>5. channelQueue' = [channelQueue EXCEPT ![channel] = grown]
    BY <1>1, <1>3
  <1> HIDE DEF q, last
  <1>6. grown \in Seq(Nat) /\ Newest(grown, received, heard[channel])
    BY <1>3, <1>4, NewestGrows
  <1> HIDE DEF grown
  <1>7. SplitTypes'
    <2>1. channelQueue' \in [1 .. Devices -> Seq(Nat)]
      BY <1>2, <1>5, <1>6 DEF SplitTypes
    <2>2. written' \in [1 .. Devices -> Nat] /\ channel' \in 1 .. Devices + 1
      BY <1>1, <1>2, <1>3 DEF SplitTypes
    <2> QED BY <1>1, <1>2, <2>1, <2>2 DEF SplitTypes
  <1>8. Handed'
    <2>1. splitPc' = "demux" /\ payload' = payload /\ received' = received /\ channel' = channel + 1
      BY <1>1
    <2>2. \A c \in 1 .. Devices : written[c] = IF c < channel THEN received ELSE payload[1] - 1
      BY <1>1, <1>2 DEF Handed
    <2>3. ASSUME NEW c \in 1 .. Devices
          PROVE  written'[c] = IF c < channel + 1 THEN received ELSE payload[1] - 1
      <3>1. CASE c = channel
        BY <1>1, <1>2, <1>3, <3>1 DEF SplitTypes
      <3>2. CASE c # channel
        <4>1. written'[c] = written[c] /\ (c < channel + 1 <=> c < channel)
          BY <1>1, <1>2, <3>2 DEF SplitTypes
        <4> QED BY <2>2, <4>1
      <3> QED BY <3>1, <3>2
    <2>4. payload[2] = received /\ 1 <= payload[1] /\ payload[1] <= received
      BY <1>1, <1>2 DEF Handed
    <2> QED BY <2>1, <2>3, <2>4 DEF Handed
  <1>9. TrimmedSoFar'
    BY <1>1 DEF TrimmedSoFar
  <1>10. QueuesNewest'
    BY <1>1, <1>2, <1>3, <1>5, <1>6 DEF QueuesNewest, SplitIInv, SplitTypes
  <1> QED BY <1>7, <1>8, <1>9, <1>10 DEF SplitIInv

LEMMA TrimChannelInv ==
  ASSUME SplitIInv, TrimChannel
  PROVE  SplitIInv'
  <1> DEFINE q == channelQueue[channel]
             cut == IF Len(q) > MaximumSamples
                    THEN SubSeq(q, Len(q) - MaximumSamples + 1, Len(q)) ELSE q
  <1>1. /\ splitPc = "trim" /\ channel <= Devices /\ channel' = channel + 1
        /\ channelQueue' = [channelQueue EXCEPT ![channel] = cut]
        /\ UNCHANGED <<splitPc, opened, payload, received, written, heard, finalised, splitRunning>>
    BY DEF TrimChannel
  <1>2. SplitTypes /\ Handed /\ Devices \in Nat /\ channel \in 1 .. Devices
        /\ MaximumSamples \in Nat
    <2>1. Devices \in Nat /\ MaximumSamples \in Nat /\ channel \in 1 .. Devices + 1
      BY SplitReceiverAssumption DEF SplitIInv, SplitTypes
    <2>2. channel \in 1 .. Devices
      BY <1>1, <2>1
    <2> QED BY <2>1, <2>2 DEF SplitIInv
  <1>3. q \in Seq(Nat) /\ heard[channel] \in Nat /\ written[channel] \in Nat
        /\ Newest(q, written[channel], heard[channel])
    BY <1>2 DEF SplitIInv, SplitTypes, QueuesNewest
  <1> HIDE DEF q
  <1>4. cut \in Seq(Nat) /\ Len(cut) <= MaximumSamples
        /\ Newest(cut, written[channel], heard[channel])
    <2>1. CASE Len(q) > MaximumSamples
      <3>1. MaximumSamples <= Len(q)
        BY <1>2, <1>3, <2>1, LenProperties
      <3> DEFINE t == SubSeq(q, Len(q) - MaximumSamples + 1, Len(q))
      <3>2. t \in Seq(Nat) /\ Len(t) = MaximumSamples /\ Newest(t, written[channel], heard[channel])
        BY <1>2, <1>3, <3>1, NewestCut
      <3>3. cut = t
        BY <2>1
      <3> HIDE DEF t, cut
      <3> QED BY <1>2, <3>2, <3>3
    <2>2. CASE ~ (Len(q) > MaximumSamples)
      BY <1>2, <1>3, <2>2, LenProperties
    <2> QED BY <2>1, <2>2
  <1> HIDE DEF cut
  <1>5. SplitTypes'
    BY <1>1, <1>2, <1>4 DEF SplitTypes
  <1>6. Handed'
    BY <1>1 DEF Handed, SplitIInv
  <1>7. TrimmedSoFar'
    <2> SUFFICES ASSUME NEW c \in 1 .. Devices, c < channel'
                 PROVE  Len(channelQueue'[c]) <= MaximumSamples
      BY <1>1 DEF TrimmedSoFar
    <2>1. c = channel \/ c < channel
      BY <1>1, <1>2
    <2> QED BY <1>1, <1>2, <1>4, <2>1 DEF SplitIInv, TrimmedSoFar, SplitTypes
  <1>8. QueuesNewest'
    BY <1>1, <1>2, <1>4 DEF QueuesNewest, SplitIInv, SplitTypes
  <1> QED BY <1>5, <1>6, <1>7, <1>8 DEF SplitIInv

LEMMA RenderChannelInv ==
  ASSUME SplitIInv, NEW c \in 1 .. Devices, RenderChannel(c)
  PROVE  SplitIInv'
  <1>1. /\ channelQueue[c] # << >>
        /\ heard' = [heard EXCEPT ![c] = Head(channelQueue[c])]
        /\ channelQueue' = [channelQueue EXCEPT ![c] = Tail(@)]
        /\ UNCHANGED <<splitPc, opened, channel, payload, received, written, finalised, splitRunning>>
    BY DEF RenderChannel
  <1>2. SplitTypes /\ channelQueue[c] \in Seq(Nat) /\ written[c] \in Nat /\ heard[c] \in Nat
        /\ Newest(channelQueue[c], written[c], heard[c])
    BY DEF SplitIInv, SplitTypes, QueuesNewest
  <1>3. /\ Tail(channelQueue[c]) \in Seq(Nat) /\ Head(channelQueue[c]) \in Nat
        /\ Newest(Tail(channelQueue[c]), written[c], Head(channelQueue[c]))
        /\ Len(Tail(channelQueue[c])) <= Len(channelQueue[c])
    BY <1>1, <1>2, NewestPlayed
  <1>4. SplitTypes'
    BY <1>1, <1>2, <1>3 DEF SplitTypes
  <1>5. Handed'
    BY <1>1 DEF Handed, SplitIInv
  <1>6. TrimmedSoFar'
    <2>1. ASSUME NEW d \in 1 .. Devices
          PROVE  Len(channelQueue[d]) <= MaximumSamples => Len(channelQueue'[d]) <= MaximumSamples
      <3>1. CASE d = c
        <4>1. Len(channelQueue[c]) \in Nat /\ Len(Tail(channelQueue[c])) \in Nat
              /\ MaximumSamples \in Nat
          BY <1>2, <1>3, LenProperties, SplitReceiverAssumption
        <4>2. channelQueue'[d] = Tail(channelQueue[c])
          BY <1>1, <1>2, <3>1 DEF SplitTypes
        <4> QED BY <1>3, <3>1, <4>1, <4>2
      <3>2. CASE d # c
        BY <1>1, <1>2, <3>2 DEF SplitTypes
      <3> QED BY <3>1, <3>2
    <2> QED BY <1>1, <2>1 DEF SplitIInv, TrimmedSoFar
  <1>7. QueuesNewest'
    BY <1>1, <1>2, <1>3 DEF QueuesNewest, SplitIInv, SplitTypes
  <1> QED BY <1>4, <1>5, <1>6, <1>7 DEF SplitIInv

LEMMA SplitStepInv ==
  ASSUME SplitIInv, [SplitNext]_splitVars
  PROVE  SplitIInv'
  <1>1. ASSUME \/ StoppedEarly \/ OpenDevice \/ DeviceRefused \/ AllOpen \/ Demuxed \/ Trimmed
               \/ SplitEnds \/ FinaliseAll \/ ReceiveFails \/ StopSplit \/ UNCHANGED splitVars
        PROVE  SplitIInv'
    <2>1. /\ channelQueue' = channelQueue /\ written' = written /\ heard' = heard
          /\ payload' = payload /\ received' = received
      BY <1>1 DEF StoppedEarly, OpenDevice, DeviceRefused, AllOpen, Demuxed, Trimmed, SplitEnds,
                  FinaliseAll, ReceiveFails, StopSplit, splitVars
    <2>2. Devices \in Nat \ {0}
      BY SplitReceiverAssumption
    <2>3. /\ channel' \in {channel, 1} /\ opened' \in 0 .. Devices
          /\ splitPc' \in {"open", "demux", "receive", "trim", "done", "failed", "finalise"}
             \/ splitPc' = splitPc
      <3>1. channel' \in {channel, 1}
        BY <1>1 DEF StoppedEarly, OpenDevice, DeviceRefused, AllOpen, Demuxed, Trimmed,
                    SplitEnds, FinaliseAll, ReceiveFails, StopSplit, splitVars
      <3>2. opened' = opened \/ opened' = 0 \/ (opened < Devices /\ opened' = opened + 1)
        BY <1>1 DEF StoppedEarly, OpenDevice, DeviceRefused, AllOpen, Demuxed, Trimmed,
                    SplitEnds, FinaliseAll, ReceiveFails, StopSplit, splitVars
      <3>3. opened \in 0 .. Devices
        BY DEF SplitIInv, SplitTypes
      <3>4. opened' \in 0 .. Devices
        BY <2>2, <3>2, <3>3
      <3>5. \/ splitPc' \in {"open", "demux", "receive", "trim", "done", "failed", "finalise"}
            \/ splitPc' = splitPc
        BY <1>1 DEF StoppedEarly, OpenDevice, DeviceRefused, AllOpen, Demuxed, Trimmed,
                    SplitEnds, FinaliseAll, ReceiveFails, StopSplit, splitVars
      <3> QED BY <3>1, <3>4, <3>5
    <2>4. \/ splitPc' = splitPc /\ channel' = channel
          \/ splitPc = "open" /\ splitPc' = "demux" /\ channel' = 1
          \/ splitPc = "demux" /\ splitPc' = "receive" /\ payload[1] = 1 /\ channel > Devices
          \/ splitPc = "demux" /\ splitPc' = "trim" /\ channel' = 1 /\ channel > Devices
          \/ splitPc = "trim" /\ splitPc' = "receive" /\ channel > Devices
          \/ splitPc' = "finalise" /\ splitPc = "receive"
          \/ splitPc' \in {"done", "failed"}
      BY <1>1 DEF StoppedEarly, OpenDevice, DeviceRefused, AllOpen, Demuxed, Trimmed,
                  SplitEnds, FinaliseAll, ReceiveFails, StopSplit, splitVars
    <2>5. SplitTypes'
      <3>1. channel' \in 1 .. Devices + 1
        <4>1. channel \in 1 .. Devices + 1
          BY DEF SplitIInv, SplitTypes
        <4> QED BY <2>2, <2>3, <4>1
      <3>2. splitPc' \in {"first", "open", "demux", "receive", "trim", "finalise", "done", "failed"}
        BY <2>3 DEF SplitIInv, SplitTypes
      <3> QED BY <2>1, <2>3, <3>1, <3>2 DEF SplitIInv, SplitTypes
    <2> DEFINE first == payload[1]
    <2>6. first \in Nat /\ received \in Nat /\ channel \in 1 .. Devices + 1
      BY DEF SplitIInv, SplitTypes
    <2>7. \A c \in 1 .. Devices : (channel > Devices => c < channel) /\ ~ (c < 1)
      BY <2>2, <2>6
    <2>8. Handed'
      BY <2>1, <2>2, <2>4, <2>6, <2>7 DEF SplitIInv, Handed
    <2>9. TrimmedSoFar'
      BY <2>1, <2>2, <2>4, <2>6, <2>7 DEF SplitIInv, TrimmedSoFar
    <2>10. QueuesNewest'
      BY <2>1 DEF SplitIInv, QueuesNewest
    <2> QED BY <2>5, <2>8, <2>9, <2>10 DEF SplitIInv
  <1> QED
    BY <1>1, PayloadInv, DemuxInv, TrimChannelInv, RenderChannelInv DEF SplitNext, SplitThread

LEMMA SplitSuffices == SplitIInv => SplitIsSuffix
  BY DEF SplitIInv, SplitIsSuffix, QueuesNewest, Newest, TrimmedSoFar, Handed

-----------------------------------------------------------------------------
(* The combining publisher.                                                *)

Blocks == Seq(Nat)

(* What SizeOf adds up.                                                    *)
Sums(f, b) == f = [i \in 0 .. Len(b) |-> IF i = 0 THEN 0 ELSE f[i - 1] + Len(b[i])]

LEMMA SumExists ==
  ASSUME NEW b, Len(b) \in Nat
  PROVE  \E f : Sums(f, b)
  <1> DEFINE Step(f, i) == IF i = 0 THEN 0 ELSE f[i - 1] + Len(b[i])
             Is(f, n) == f = [i \in 0 .. n |-> Step(f, i)]
             Good == {n \in Nat : \E f : Is(f, n)}
             len == Len(b)
  <1>1. 0 \in Good
    <2> DEFINE f == [i \in 0 .. 0 |-> 0]
    <2>1. Is(f, 0)
      OBVIOUS
    <2> QED BY <2>1
  <1>2. ASSUME NEW n \in 0 .. len - 1, n \in Good
        PROVE  n + 1 \in Good
    <2>1. PICK f : Is(f, n)
      BY <1>2
    <2> DEFINE h == [i \in 0 .. n + 1 |-> IF i = n + 1 THEN Step(f, n + 1) ELSE f[i]]
    <2>2. \A i \in 0 .. n + 1 : h[i] = Step(h, i)
      <3> SUFFICES ASSUME NEW i \in 0 .. n + 1 PROVE h[i] = Step(h, i)
        OBVIOUS
      <3>1. i = 0 \/ (i - 1 \in 0 .. n /\ h[i - 1] = f[i - 1])
        OBVIOUS
      <3>2. CASE i = n + 1
        BY <3>1, <3>2
      <3>3. CASE i \in 0 .. n
        <4>1. f[i] = Step(f, i)
          BY <2>1, <3>3
        <4>2. h[i] = f[i]
          BY <3>3
        <4> QED BY <3>1, <4>1, <4>2
      <3> QED BY <3>2, <3>3
    <2>3. Is(h, n + 1)
      BY <2>2
    <2>4. \E g : Is(g, n + 1)
      BY <2>3
    <2> HIDE DEF Is
    <2> QED BY <2>4
  <1> HIDE DEF Good
  <1>3. len \in Good
    <2>1. \A i \in 0 .. len - 1 : i \in Good => i + 1 \in Good
      BY <1>2
    <2>2. \A i \in 0 .. len : i \in Good
      BY <1>1, <2>1, UpTo
    <2> QED BY <2>2
  <1> USE DEF Good
  <1> QED BY <1>3 DEF Sums

LEMMA SumSteps ==
  ASSUME NEW b \in Seq(Blocks), NEW f, Sums(f, b)
  PROVE  f[0] = 0 /\ \A i \in 1 .. Len(b) : f[i] = f[i - 1] + Len(b[i]) /\ Len(b[i]) \in Nat
  <1>1. Len(b) \in Nat /\ \A i \in 1 .. Len(b) : Len(b[i]) \in Nat
    <2>1. Len(b) \in Nat /\ \A i \in 1 .. Len(b) : b[i] \in Blocks
      BY LenProperties, ElementOfSeq
    <2> QED BY <2>1, LenProperties DEF Blocks
  <1>2. \A i \in 0 .. Len(b) : f[i] = IF i = 0 THEN 0 ELSE f[i - 1] + Len(b[i])
    BY DEF Sums
  <1> QED BY <1>1, <1>2

(* The first n blocks, added up.                                           *)
AddsUp(g, b, n) == g[0] = 0 /\ \A i \in 1 .. n : g[i] = g[i - 1] + Len(b[i])

(* Two ways to add up the same blocks agree.                               *)
LEMMA SumsAgree ==
  ASSUME NEW b \in Seq(Blocks), NEW f, Sums(f, b), NEW g, NEW n \in Nat, n <= Len(b),
         AddsUp(g, b, n)
  PROVE  \A i \in 0 .. n : g[i] = f[i] /\ f[i] \in Nat
  <1> DEFINE Good == {i \in Nat : g[i] = f[i] /\ f[i] \in Nat}
  <1>1. f[0] = 0 /\ \A i \in 1 .. Len(b) : f[i] = f[i - 1] + Len(b[i]) /\ Len(b[i]) \in Nat
    BY SumSteps
  <1>2. 0 \in Good
    BY <1>1 DEF AddsUp
  <1>3. ASSUME NEW i \in 0 .. n - 1, i \in Good
        PROVE  i + 1 \in Good
    <2>1. i + 1 \in 1 .. n /\ i + 1 \in 1 .. Len(b) /\ (i + 1) - 1 = i /\ i + 1 \in Nat
      BY LenProperties
    <2> QED BY <1>1, <1>3, <2>1 DEF AddsUp
  <1> HIDE DEF Good
  <1>4. \A i \in 0 .. n : i \in Good
    BY <1>2, <1>3, UpTo
  <1> QED BY <1>4 DEF Good

LEMMA SumFacts ==
  ASSUME NEW b \in Seq(Blocks), NEW f, Sums(f, b)
  PROVE  SizeOf(b) = f[Len(b)] /\ \A i \in 0 .. Len(b) : f[i] \in Nat
  <1>1. Len(b) \in Nat
    BY LenProperties
  <1>2. \A i \in 0 .. Len(b) : f[i] \in Nat
    <2>1. AddsUp(f, b, Len(b)) /\ Len(b) <= Len(b)
      BY <1>1, SumSteps DEF AddsUp
    <2> QED BY <1>1, <2>1, SumsAgree
  <1>3. PICK g : Sums(g, b) /\ SizeOf(b) = g[Len(b)]
    BY DEF SizeOf, Sums
  <1>4. \A i \in 0 .. Len(b) : g[i] = f[i]
    <2>1. AddsUp(g, b, Len(b)) /\ Len(b) <= Len(b)
      BY <1>1, <1>3, SumSteps DEF AddsUp
    <2> QED BY <1>1, <2>1, SumsAgree
  <1> QED BY <1>1, <1>2, <1>3, <1>4

LEMMA EmptySize == SizeOf(<< >>) = 0
  <1>1. << >> \in Seq(Blocks) /\ Len(<< >>) = 0
    BY EmptySeq
  <1>2. PICK f : Sums(f, << >>)
    BY <1>1, SumExists
  <1> QED BY <1>1, <1>2, SumFacts, SumSteps

-----------------------------------------------------------------------------
(* Blocks after `at' frames of which every sample lies at its place, or up *)
(* to l places before the one its number names.                            *)
QueueAligned(q, at, l) ==
  \E f : /\ Sums(f, q)
         /\ \A j \in 1 .. Len(q) : \A i \in 1 .. Len(q[j]) :
              q[j][i] - (at + f[j - 1] + i) \in 0 .. l

LEMMA AlignedLater ==
  ASSUME NEW q, NEW at, NEW l \in Nat, QueueAligned(q, at, l), NEW m \in Nat, l <= m
  PROVE  QueueAligned(q, at, m)
  <1>1. \A x \in 0 .. l : x \in 0 .. m
    OBVIOUS
  <1> QED BY <1>1 DEF QueueAligned

LEMMA AlignedAppend ==
  ASSUME NEW q \in Seq(Blocks), NEW at \in Nat, NEW l \in Nat, QueueAligned(q, at, l),
         NEW x \in Blocks,
         \A i \in 1 .. Len(x) : x[i] - (at + SizeOf(q) + i) \in 0 .. l
  PROVE  /\ QueueAligned(Append(q, x), at, l) /\ Append(q, x) \in Seq(Blocks)
         /\ SizeOf(Append(q, x)) = SizeOf(q) + Len(x)
  <1> DEFINE t == Append(q, x)
             n == Len(q)
  <1>1. PICK f : /\ Sums(f, q)
                 /\ \A j \in 1 .. n : \A i \in 1 .. Len(q[j]) : q[j][i] - (at + f[j - 1] + i) \in 0 .. l
    BY DEF QueueAligned
  <1>2. n \in Nat /\ Len(x) \in Nat
    BY LenProperties DEF Blocks
  <1>3. /\ t \in Seq(Blocks) /\ Len(t) = n + 1 /\ t[n + 1] = x
        /\ \A i \in 1 .. n : t[i] = q[i]
    BY AppendProperties
  <1> HIDE DEF t
  <1>4. PICK g : Sums(g, t)
    BY <1>2, <1>3, SumExists
  <1>5. g[0] = 0 /\ \A i \in 1 .. n + 1 : g[i] = g[i - 1] + Len(t[i])
    <2>1. g[0] = 0 /\ \A i \in 1 .. Len(t) : g[i] = g[i - 1] + Len(t[i]) /\ Len(t[i]) \in Nat
      BY ONLY <1>3, <1>4, SumSteps
    <2> QED BY <1>3, <2>1
  <1>6. \A i \in 0 .. n : g[i] = f[i] /\ f[i] \in Nat
    <2>1. \A i \in 1 .. n : i \in 1 .. n + 1 /\ t[i] = q[i]
      <3> HIDE DEF n
      <3> QED BY <1>2, <1>3
    <2>2. AddsUp(g, q, n) /\ n <= Len(q)
      BY <1>2, <1>5, <2>1 DEF AddsUp
    <2>3. Sums(f, q)
      BY <1>1
    <2> HIDE DEF n
    <2> QED BY <1>2, <2>2, <2>3, SumsAgree
  <1>7. SizeOf(q) = f[n] /\ SizeOf(t) = g[n + 1]
    <2>1. SizeOf(q) = f[n]
      BY <1>1, SumFacts
    <2>2. SizeOf(t) = g[Len(t)]
      BY <1>3, <1>4, SumFacts
    <2> QED BY <1>3, <2>1, <2>2
  <1>8. SizeOf(t) = SizeOf(q) + Len(x) /\ g[n] = SizeOf(q)
    <2>1. n \in 0 .. n /\ n + 1 \in 1 .. n + 1 /\ (n + 1) - 1 = n
      BY <1>2
    <2>2. g[n] = SizeOf(q)
      BY <1>6, <1>7, <2>1
    <2>3. g[n + 1] = g[(n + 1) - 1] + Len(t[n + 1])
      BY <1>5, <2>1
    <2>4. g[n + 1] = SizeOf(q) + Len(x)
      BY <1>3, <2>1, <2>2, <2>3
    <2> QED BY <1>7, <2>2, <2>4
  <1>9. ASSUME NEW j \in 1 .. n + 1, NEW i \in 1 .. Len(t[j])
        PROVE  t[j][i] - (at + g[j - 1] + i) \in 0 .. l
    <2>1. CASE j = n + 1
      <3>1. j - 1 = n
        BY <1>2, <2>1
      <3> QED BY <1>3, <1>8, <2>1, <3>1
    <2>2. CASE j \in 1 .. n
      <3>1. j - 1 \in 0 .. n
        BY <1>2, <2>2
      <3> QED BY <1>1, <1>3, <1>6, <2>2, <3>1
    <2>3. j = n + 1 \/ j \in 1 .. n
      <3> HIDE DEF n
      <3> QED BY <1>2
    <2> QED BY <2>1, <2>2, <2>3
  <1>10. QueueAligned(t, at, l)
    BY <1>3, <1>4, <1>9 DEF QueueAligned
  <1> QED BY <1>3, <1>8, <1>10 DEF t

(* The blocks after the first k, when d of the e frames before them count  *)
(* as had and the others as lost.                                          *)
LEMMA AlignedEnd ==
  ASSUME NEW q \in Seq(Blocks), NEW at \in Nat, NEW l \in Nat, QueueAligned(q, at, l),
         NEW k \in Nat, NEW t \in Seq(Blocks), k + Len(t) = Len(q),
         \A i \in 1 .. Len(t) : t[i] = q[k + i]
  PROVE  LET e == SizeOf(SubSeq(q, 1, k))
         IN  /\ e \in Nat /\ SizeOf(t) \in Nat /\ SizeOf(q) = e + SizeOf(t)
             /\ \A d \in 0 .. e : QueueAligned(t, at + d, l + (e - d))
  <1> DEFINE n == Len(t)
             start == SubSeq(q, 0 + 1, 0 + k)
             e == SizeOf(start)
  <1>1. PICK f : /\ Sums(f, q)
                 /\ \A j \in 1 .. Len(q) : \A i \in 1 .. Len(q[j]) :
                      q[j][i] - (at + f[j - 1] + i) \in 0 .. l
    BY DEF QueueAligned
  <1>2. n \in Nat /\ Len(q) = k + n /\ k <= Len(q) /\ 0 + k <= Len(q)
    BY LenProperties
  <1>3. f[0] = 0 /\ \A i \in 1 .. Len(q) : f[i] = f[i - 1] + Len(q[i]) /\ Len(q[i]) \in Nat
    BY <1>1, SumSteps
  <1>4. SizeOf(q) = f[k + n] /\ \A i \in 0 .. k + n : f[i] \in Nat
    BY <1>1, <1>2, SumFacts
  <1>5. e = f[k]
    <2>1. /\ start \in Seq(Blocks) /\ Len(start) = k
          /\ \A i \in 1 .. k : start[i] = q[0 + i]
      <3>1. 0 \in Nat
        OBVIOUS
      <3> QED BY <1>2, <3>1, Part
    <2> HIDE DEF start
    <2>2. PICK g : Sums(g, start)
      BY <2>1, SumExists
    <2>3. AddsUp(g, q, k)
      <3>1. \A i \in 1 .. k : start[i] = q[i]
        <4>1. \A i \in 1 .. k : 0 + i = i
          OBVIOUS
        <4> QED BY <2>1, <4>1
      <3>2. g[0] = 0 /\ \A i \in 1 .. Len(start) : g[i] = g[i - 1] + Len(start[i])
        BY <2>1, <2>2, SumSteps
      <3> QED BY <2>1, <3>1, <3>2 DEF AddsUp
    <2>4. \A i \in 0 .. k : g[i] = f[i]
      <3>1. Sums(f, q) /\ k <= Len(q)
        BY <1>1, <1>2
      <3> QED BY <2>3, <3>1, SumsAgree
    <2>5. e = g[k] /\ k \in 0 .. k
      <3>1. SizeOf(start) = g[Len(start)]
        BY <2>1, <2>2, SumFacts
      <3> QED BY <2>1, <3>1
    <2> QED BY <2>4, <2>5
  <1> HIDE DEF e
  <1>6. PICK h : Sums(h, t)
    BY <1>2, SumExists
  <1> DEFINE g == [i \in 0 .. n |-> f[k + i] - e]
  <1>7. \A i \in 0 .. n : g[i] = h[i] /\ h[i] \in Nat
    <2>1. \A i \in 0 .. n : g[i] = f[k + i] - e
      OBVIOUS
    <2> HIDE DEF g
    <2>2. e \in Nat /\ g[0] = 0
      <3>1. 0 \in 0 .. n /\ k + 0 = k /\ k \in 0 .. k + n
        BY <1>2
      <3> QED BY <1>4, <1>5, <2>1, <3>1
    <2>3. ASSUME NEW i \in 1 .. n
          PROVE  g[i] = g[i - 1] + Len(t[i])
      <3>1. /\ i \in 0 .. n /\ i - 1 \in 0 .. n /\ k + i \in 1 .. Len(q)
            /\ (k + i) - 1 = k + (i - 1) /\ k + (i - 1) \in 0 .. k + n
        BY <1>2
      <3>2. f[k + i] = f[k + (i - 1)] + Len(q[k + i]) /\ Len(q[k + i]) \in Nat
        BY <1>3, <3>1
      <3>3. g[i] = f[k + i] - e /\ g[i - 1] = f[k + (i - 1)] - e
        BY <2>1, <3>1
      <3>4. t[i] = q[k + i] /\ f[k + (i - 1)] \in Nat
        BY <1>4, <3>1
      <3> DEFINE a == f[k + (i - 1)]
                 m == Len(t[i])
      <3>5. a \in Nat /\ m \in Nat /\ g[i] = (a + m) - e /\ g[i - 1] = a - e
        BY <3>2, <3>3, <3>4
      <3> HIDE DEF a, m, e
      <3>6. (a + m) - e = (a - e) + m
        BY <2>2, <3>5
      <3> QED BY <3>5, <3>6 DEF m
    <2>4. AddsUp(g, t, n) /\ n <= Len(t)
      BY <1>2, <2>2, <2>3 DEF AddsUp
    <2> HIDE DEF n
    <2> QED BY <1>2, <1>6, <2>4, SumsAgree
  <1>8. \A i \in 0 .. n : f[k + i] = e + h[i]
    <2>1. ASSUME NEW i \in 0 .. n PROVE f[k + i] = e + h[i]
      <3>1. k + i \in 0 .. k + n /\ k \in 0 .. k + n
        BY <1>2
      <3>2. f[k + i] \in Nat /\ e \in Nat /\ f[k + i] - e = h[i]
        BY <1>4, <1>5, <1>7, <3>1
      <3> QED BY <1>7, <3>2
    <2> QED BY <2>1
  <1>9. SizeOf(t) = h[n] /\ SizeOf(t) \in Nat /\ e \in Nat /\ SizeOf(q) = e + SizeOf(t)
    <2>1. n \in 0 .. n /\ k \in 0 .. k + n
      BY <1>2
    <2>2. SizeOf(t) = h[n]
      BY <1>6, SumFacts
    <2> QED BY <1>4, <1>5, <1>7, <1>8, <2>1, <2>2
  <1> HIDE DEF g
  <1>10. ASSUME NEW d \in 0 .. e
         PROVE  QueueAligned(t, at + d, l + (e - d))
    <2>1. ASSUME NEW j \in 1 .. n, NEW i \in 1 .. Len(t[j])
          PROVE  t[j][i] - ((at + d) + h[j - 1] + i) \in 0 .. l + (e - d)
      <3> DEFINE x == t[j][i]
                 v == x - (at + f[k + (j - 1)] + i)
      <3>1. k + j \in 1 .. Len(q) /\ (k + j) - 1 = k + (j - 1) /\ j - 1 \in 0 .. n /\ t[j] = q[k + j]
        <4>1. j \in Nat /\ 1 <= j /\ j <= n
          BY <1>2
        <4>2. k + j \in 1 .. Len(q) /\ (k + j) - 1 = k + (j - 1) /\ j - 1 \in 0 .. n
          BY <1>2, <4>1
        <4> QED BY <4>2
      <3>2. v \in 0 .. l
        BY <1>1, <3>1
      <3>3. f[k + (j - 1)] = e + h[j - 1] /\ h[j - 1] \in Nat
        BY <1>7, <1>8, <3>1
      <3>4. x \in Nat /\ i \in Nat
        <4>1. t[j] \in Blocks
          BY ElementOfSeq
        <4>2. t[j][i] \in Nat
          BY <4>1, ElementOfSeq DEF Blocks
        <4>3. Len(t[j]) \in Nat
          BY <4>1, LenProperties DEF Blocks
        <4> QED BY <4>2, <4>3
      <3> HIDE DEF x
      <3>5. x - ((at + d) + h[j - 1] + i) = v + (e - d)
        <4> DEFINE y == h[j - 1]
        <4>1. y \in Nat /\ e \in Nat /\ d \in Nat /\ f[k + (j - 1)] = e + y
          BY <1>9, <3>3
        <4> HIDE DEF y
        <4>2. x - ((at + d) + y + i) = x - (at + (e + y) + i) + (e - d)
          BY <3>4, <4>1
        <4> QED BY <4>1, <4>2 DEF y
      <3>6. v + (e - d) \in 0 .. l + (e - d)
        <4> HIDE DEF v
        <4> QED BY <1>9, <3>2
      <3> QED BY <3>5, <3>6 DEF x
    <2> QED BY <1>6, <2>1 DEF QueueAligned
  <1>11. start = SubSeq(q, 1, k)
    BY <1>2
  <1> QED BY <1>9, <1>10, <1>11 DEF e

-----------------------------------------------------------------------------
(* The combining publisher.                                                *)

(* Samples after `at' frames, each at its place or up to l later.          *)
Held(b, at, l) == \A i \in 1 .. Len(b) : b[i] - (at + i) \in 0 .. l

(* Every variable keeps to its range.                                      *)
CombineTypes ==
  /\ captured \in [Sources -> Nat] /\ lost \in [Sources -> Nat] /\ recorded \in [Sources -> Nat]
  /\ queue \in [Sources -> Seq(Blocks)]
  /\ pending \in [Sources -> Blocks] /\ packet \in [Sources -> Blocks]
  /\ combined \in Nat

(* The frames of a source are accounted for, and those that wait lie       *)
(* where they will be combined, but for what was lost before them.         *)
SourceSound(s) ==
  /\ captured[s] = lost[s] + SizeOf(queue[s]) + recorded[s]
  /\ recorded[s] = Len(pending[s]) + combined
  /\ QueueAligned(queue[s], recorded[s], lost[s])
  /\ Held(pending[s], combined, lost[s])
  /\ Held(packet[s], combined - Len(packet[s]), lost[s])

CombineIInv == CombineTypes /\ \A s \in Active : SourceSound(s)

LEMMA SourceTypes ==
  ASSUME CombineTypes, NEW s \in Sources
  PROVE  /\ captured[s] \in Nat /\ lost[s] \in Nat /\ recorded[s] \in Nat /\ combined \in Nat
         /\ queue[s] \in Seq(Blocks) /\ pending[s] \in Blocks /\ packet[s] \in Blocks
         /\ Len(pending[s]) \in Nat /\ Len(packet[s]) \in Nat /\ Len(queue[s]) \in Nat
  <1>1. queue[s] \in Seq(Blocks) /\ pending[s] \in Blocks /\ packet[s] \in Blocks
    BY DEF CombineTypes
  <1>2. Len(pending[s]) \in Nat /\ Len(packet[s]) \in Nat /\ Len(queue[s]) \in Nat
    BY <1>1, LenProperties DEF Blocks
  <1> QED BY <1>1, <1>2 DEF CombineTypes

LEMMA HeldLater ==
  ASSUME NEW b, NEW at, NEW l \in Nat, Held(b, at, l), NEW m \in Nat, l <= m
  PROVE  Held(b, at, m)
  <1>1. \A x \in 0 .. l : x \in 0 .. m
    OBVIOUS
  <1> QED BY <1>1 DEF Held

LEMMA HeldJoin ==
  ASSUME NEW a \in Blocks, NEW b \in Blocks, NEW at \in Nat, NEW l \in Nat,
         Held(a, at, l), Held(b, Len(a) + at, l)
  PROVE  a \o b \in Blocks /\ Len(a \o b) = Len(a) + Len(b) /\ Held(a \o b, at, l)
  <1> DEFINE c == a \o b
             n == Len(a)
             m == Len(b)
  <1>1. n \in Nat /\ m \in Nat /\ \A i \in 1 .. m : b[i] \in Nat
    BY LenProperties, ElementOfSeq DEF Blocks
  <1>2. /\ c \in Blocks /\ Len(c) = n + m
        /\ \A i \in 1 .. n + m : c[i] = IF i <= n THEN a[i] ELSE b[i - n]
    BY ConcatProperties DEF Blocks
  <1>3. /\ \A i \in 1 .. n : a[i] - (at + i) \in 0 .. l
        /\ \A i \in 1 .. m : b[i] - ((n + at) + i) \in 0 .. l
    BY DEF Held
  <1> HIDE DEF c, n, m
  <1>4. ASSUME NEW i \in 1 .. n + m PROVE c[i] - (at + i) \in 0 .. l
    <2>1. CASE i <= n
      <3>1. i \in 1 .. n /\ c[i] = a[i]
        BY <1>1, <1>2, <2>1
      <3> QED BY <1>3, <3>1
    <2>2. CASE ~ (i <= n)
      <3> DEFINE j == i - n
      <3>1. j \in 1 .. m /\ i = n + j /\ c[i] = b[j]
        BY <1>1, <1>2, <2>2
      <3> HIDE DEF j
      <3>2. (n + at) + j = at + i
        BY <1>1, <3>1
      <3> QED BY <1>3, <3>1, <3>2
    <2> QED BY <2>1, <2>2
  <1>5. Held(c, at, l)
    BY <1>2, <1>4 DEF Held
  <1> QED BY <1>2, <1>5 DEF c, n, m

LEMMA HeldRest ==
  ASSUME NEW b \in Blocks, NEW at \in Nat, NEW l \in Nat, Held(b, at, l),
         NEW n \in Nat, n <= Len(b)
  PROVE  LET t == SubSeq(b, n + 1, Len(b))
         IN  Len(t) = Len(b) - n /\ Held(t, at + n, l)
  <1> DEFINE m == Len(b) - n
             t == SubSeq(b, n + 1, n + m)
  <1>1. m \in Nat /\ n + m = Len(b) /\ n + m <= Len(b)
    BY LenProperties DEF Blocks
  <1> HIDE DEF m
  <1>2. Len(t) = m /\ \A i \in 1 .. m : t[i] = b[n + i]
    BY <1>1, Part DEF Blocks
  <1> HIDE DEF t
  <1>3. ASSUME NEW i \in 1 .. m PROVE t[i] - ((at + n) + i) \in 0 .. l
    <2>1. n + i \in 1 .. Len(b) /\ (at + n) + i = at + (n + i)
      BY <1>1
    <2> QED BY <1>2, <2>1 DEF Held
  <1>4. Held(t, at + n, l)
    BY <1>2, <1>3 DEF Held
  <1>5. t = SubSeq(b, n + 1, Len(b))
    BY <1>1 DEF t
  <1> QED BY <1>2, <1>4, <1>5 DEF m

LEMMA RestOfBlock ==
  ASSUME NEW b \in Blocks, NEW n \in Nat
  PROVE  SubSeq(b, n + 1, Len(b)) \in Blocks
  <1>1. Len(b) \in Int /\ n + 1 \in Int /\ \A i \in n + 1 .. Len(b) : b[i] \in Nat
    BY LenProperties, ElementOfSeq DEF Blocks
  <1> QED BY <1>1, SubSeqProperties DEF Blocks

LEMMA CombineInitInv == Init => CombineIInv
  <1> SUFFICES ASSUME Init PROVE CombineIInv
    OBVIOUS
  <1>1. << >> \in Seq(Blocks) /\ << >> \in Blocks /\ Len(<< >>) = 0
    BY EmptySeq DEF Blocks
  <1>2. CombineTypes
    BY <1>1 DEF Init, Zero, Empty, CombineTypes
  <1>3. ASSUME NEW s \in Active PROVE SourceSound(s)
    <2>1. s \in Sources
      BY DEF Active
    <2>2. /\ captured[s] = 0 /\ lost[s] = 0 /\ recorded[s] = 0 /\ combined = 0
          /\ queue[s] = << >> /\ pending[s] = << >> /\ packet[s] = << >>
      BY <2>1 DEF Init, Zero, Empty
    <2>3. QueueAligned(<< >>, 0, 0)
      <3>1. PICK f : Sums(f, << >>)
        BY <1>1, SumExists
      <3> QED BY <1>1, <3>1 DEF QueueAligned
    <2>4. \A at : Held(<< >>, at, 0)
      BY <1>1 DEF Held
    <2> QED BY <1>1, <2>2, <2>3, <2>4, EmptySize DEF SourceSound
  <1> QED BY <1>2, <1>3 DEF CombineIInv

(* What a source loses shifts nothing that waits.                          *)
LEMMA SourceLoses ==
  ASSUME CombineTypes, NEW s \in Active, SourceSound(s), NEW n \in Nat,
         captured'[s] = captured[s] + n, lost'[s] = lost[s] + n, queue'[s] = queue[s],
         recorded' = recorded, pending' = pending, packet' = packet, combined' = combined
  PROVE  SourceSound(s)'
  <1> DEFINE l == lost[s]
  <1>1. s \in Sources
    BY DEF Active
  <1>2. /\ l \in Nat /\ l + n \in Nat /\ l <= l + n
        /\ captured[s] \in Nat /\ recorded[s] \in Nat /\ queue[s] \in Seq(Blocks)
    BY <1>1, SourceTypes
  <1>3. SizeOf(queue[s]) \in Nat
    <2>1. PICK f : Sums(f, queue[s])
      <3>1. queue[s] \in Seq(Blocks)
        BY <1>2
      <3> QED BY ONLY <3>1, SumExists
    <2>2. SizeOf(queue[s]) = f[Len(queue[s])] /\ \A i \in 0 .. Len(queue[s]) : f[i] \in Nat
      BY <1>2, <2>1, SumFacts
    <2> QED BY <1>1, <2>2, SourceTypes
  <1>4. captured'[s] = lost'[s] + SizeOf(queue'[s]) + recorded'[s]
    BY <1>2, <1>3 DEF SourceSound
  <1>5. QueueAligned(queue[s], recorded[s], l + n)
    <2>1. QueueAligned(queue[s], recorded[s], l)
      BY DEF SourceSound
    <2> HIDE DEF l
    <2> QED BY <1>2, <2>1, AlignedLater
  <1>6. Held(pending[s], combined, l + n) /\ Held(packet[s], combined - Len(packet[s]), l + n)
    <2>1. Held(pending[s], combined, l) /\ Held(packet[s], combined - Len(packet[s]), l)
      BY DEF SourceSound
    <2> HIDE DEF l
    <2> QED BY <1>2, <2>1, HeldLater
  <1>7. recorded'[s] = Len(pending'[s]) + combined'
    BY DEF SourceSound
  <1> QED BY <1>4, <1>5, <1>6, <1>7 DEF SourceSound

LEMMA CaptureInv ==
  ASSUME CombineIInv, NEW s \in Sources, NEW n \in 1 .. MaxBlock, Capture(s, n)
  PROVE  CombineIInv'
  <1> DEFINE q == queue[s]
             x == Frames(s, n)
             l == lost[s]
             at == recorded[s]
  <1>1. /\ s \in Active /\ captured' = [captured EXCEPT ![s] = @ + n] /\ Push(s, x)
        /\ pending' = pending /\ recorded' = recorded /\ packet' = packet /\ combined' = combined
    BY DEF Capture, workerVars
  <1>2. CombineTypes /\ SourceSound(s) /\ n \in Nat
    BY <1>1, CombineAssumption DEF CombineIInv
  <1>3. /\ captured[s] \in Nat /\ l \in Nat /\ at \in Nat /\ q \in Seq(Blocks) /\ Len(q) \in Nat
    BY <1>2, SourceTypes
  <1>4. /\ x \in Blocks /\ Len(x) = n /\ \A i \in 1 .. n : x[i] = captured[s] + i
    <2>1. x \in [1 .. n -> Nat] /\ \A i \in 1 .. n : x[i] = captured[s] + i
      BY <1>3 DEF Frames
    <2> HIDE DEF x
    <2> QED BY <1>2, <2>1, IsASeq, LenProperties DEF Blocks
  <1>5. captured'[s] = captured[s] + n /\ captured' \in [Sources -> Nat]
    BY <1>1, <1>2, <1>3 DEF CombineTypes
  <1> HIDE DEF x
  <1>6. CASE Len(x) > Capacity
    <2>1. lost' = [lost EXCEPT ![s] = @ + Len(x)] /\ queue' = queue
      BY <1>1, <1>6 DEF Push
    <2>2. CombineTypes' /\ lost'[s] = l + n
      BY <1>1, <1>2, <1>3, <1>4, <1>5, <2>1 DEF CombineTypes
    <2>3. SourceSound(s)'
      BY <1>1, <1>2, <1>5, <2>1, <2>2, SourceLoses
    <2>4. ASSUME NEW u \in Active, u # s PROVE SourceSound(u)'
      <3>1. SourceSound(u) /\ captured'[u] = captured[u] /\ lost'[u] = lost[u]
        BY <1>1, <1>2, <2>1, <2>4 DEF CombineIInv, CombineTypes, Active
      <3> QED BY <1>1, <2>1, <3>1 DEF SourceSound
    <2> QED BY <2>2, <2>3, <2>4 DEF CombineIInv
  <1>7. CASE ~ (Len(x) > Capacity)
    <2> DEFINE evictions == {k \in 0 .. Len(q) :
                               SizeOf(SubSeq(q, k + 1, Len(q))) + Len(x) <= Capacity}
               k == Min(evictions)
               gone == SubSeq(q, 1, k)
               t == SubSeq(q, k + 1, Len(q))
               e == SizeOf(gone)
    <2>1. /\ queue' = [queue EXCEPT ![s] = Append(SubSeq(q, Len(gone) + 1, Len(q)), x)]
          /\ lost' = [lost EXCEPT ![s] = @ + e]
      BY <1>1, <1>7 DEF Push
    <2>2. k \in 0 .. Len(q)
      <3>1. Len(q) \in evictions
        <4>1. SubSeq(q, Len(q) + 1, Len(q)) = << >>
          BY <1>3, SubSeqEmpty
        <4>2. SizeOf(SubSeq(q, Len(q) + 1, Len(q))) + Len(x) <= Capacity
          <5>1. SizeOf(SubSeq(q, Len(q) + 1, Len(q))) = 0
            BY <4>1, EmptySize
          <5>2. Len(x) \in Nat /\ Capacity \in Nat /\ 0 + Len(x) <= Capacity
            BY <1>2, <1>4, <1>7, CombineAssumption
          <5> QED BY <5>1, <5>2
        <4> QED BY <1>3, <4>2
      <3>2. evictions \in SUBSET Nat /\ evictions \subseteq 0 .. Len(q)
        BY <1>3
      <3> HIDE DEF evictions
      <3>3. k \in evictions
        BY <3>1, <3>2, MinFacts
      <3> QED BY <3>2, <3>3
    <2> HIDE DEF k
    <2>3. Len(gone) = k /\ k \in Nat
      <3> DEFINE z == SubSeq(q, 0 + 1, 0 + k)
      <3>1. 0 \in Nat /\ k \in Nat /\ 0 + k <= Len(q)
        BY <1>3, <2>2
      <3>2. Len(z) = k
        BY <1>3, <3>1, Part
      <3>3. z = gone
        BY <3>1
      <3> QED BY <3>1, <3>2, <3>3
    <2> HIDE DEF gone
    <2>4. /\ t \in Seq(Blocks) /\ k + Len(t) = Len(q) /\ \A i \in 1 .. Len(t) : t[i] = q[k + i]
      <3> DEFINE m == Len(q) - k
                 z == SubSeq(q, k + 1, k + m)
      <3>1. m \in Nat /\ k + m <= Len(q) /\ k + m = Len(q)
        BY <1>3, <2>2
      <3> HIDE DEF m
      <3>2. z \in Seq(Blocks) /\ Len(z) = m /\ \A i \in 1 .. m : z[i] = q[k + i]
        BY <1>3, <2>3, <3>1, Part
      <3>3. z = t
        BY <3>1
      <3> QED BY <3>1, <3>2, <3>3
    <2> HIDE DEF t
    <2>5. /\ e \in Nat /\ SizeOf(t) \in Nat /\ SizeOf(q) = e + SizeOf(t)
          /\ QueueAligned(t, at, l + e)
      <3>1. QueueAligned(q, at, l)
        BY <1>2 DEF SourceSound
      <3>2. /\ e \in Nat /\ SizeOf(t) \in Nat /\ SizeOf(q) = e + SizeOf(t)
            /\ \A d \in 0 .. e : QueueAligned(t, at + d, l + (e - d))
        <4> HIDE DEF at, l
        <4> QED BY <1>3, <2>3, <2>4, <3>1, AlignedEnd DEF gone
      <3> HIDE DEF e
      <3>3. 0 \in 0 .. e /\ at + 0 = at /\ l + (e - 0) = l + e
        BY <1>3, <3>2
      <3>4. QueueAligned(t, at + 0, l + (e - 0))
        BY <3>2, <3>3
      <3> QED BY <3>2, <3>3, <3>4
    <2> HIDE DEF e
    <2>6. captured[s] = l + (e + SizeOf(t)) + at
      BY <1>2, <2>5 DEF SourceSound
    <2>7. /\ QueueAligned(Append(t, x), at, l + e) /\ Append(t, x) \in Seq(Blocks)
          /\ SizeOf(Append(t, x)) = SizeOf(t) + n
      <3> DEFINE w == l + e
                 v == SizeOf(t)
                 c == captured[s]
      <3>1. ASSUME NEW i \in 1 .. n PROVE x[i] - (at + v + i) \in 0 .. w
        <4>1. x[i] = c + i /\ c = l + (e + v) + at /\ v \in Nat /\ e \in Nat
          BY <1>4, <2>5, <2>6
        <4> HIDE DEF v, c
        <4>2. x[i] - (at + v + i) = w /\ w \in 0 .. w
          <5>1. l \in Nat /\ at \in Nat /\ i \in Nat
            BY <1>2, <1>3
          <5>2. (l + (e + v) + at) + i - (at + v + i) = l + e
            BY <4>1, <5>1
          <5>3. l + e \in Nat
            BY <4>1, <5>1
          <5>4. w = l + e
            OBVIOUS
          <5>5. x[i] = (l + (e + v) + at) + i
            BY <4>1
          <5>6. x[i] - (at + v + i) = w
            BY <4>1, <5>1, <5>5
          <5> HIDE DEF w
          <5>7. w \in 0 .. w
            BY <5>3, <5>4
          <5> QED BY <5>6, <5>7
        <4> QED BY <4>2
      <3>2. w \in Nat /\ QueueAligned(t, at, w)
        BY <1>3, <2>5
      <3>3. \A i \in 1 .. Len(x) : x[i] - (at + SizeOf(t) + i) \in 0 .. w
        BY <1>4, <3>1
      <3> HIDE DEF w, v, at
      <3>4. /\ QueueAligned(Append(t, x), at, w) /\ Append(t, x) \in Seq(Blocks)
            /\ SizeOf(Append(t, x)) = SizeOf(t) + Len(x)
        <4>1. at \in Nat
          BY <1>3
        <4> QED BY ONLY <4>1, <1>4, <2>4, <3>2, <3>3, AlignedAppend
      <3> QED BY <1>4, <3>4 DEF w
    <2>8. queue' = [queue EXCEPT ![s] = Append(t, x)]
      BY <2>1, <2>3 DEF t
    <2>9. CombineTypes' /\ lost'[s] = l + e /\ queue'[s] = Append(t, x)
      <3>1. lost' \in [Sources -> Nat] /\ lost'[s] = l + e
        BY <1>2, <1>3, <2>1, <2>5 DEF CombineTypes
      <3>2. queue' \in [Sources -> Seq(Blocks)] /\ queue'[s] = Append(t, x)
        BY <1>2, <2>7, <2>8 DEF CombineTypes
      <3> QED BY <1>1, <1>2, <1>5, <3>1, <3>2 DEF CombineTypes
    <2>10. SourceSound(s)'
      <3>1. captured'[s] = lost'[s] + SizeOf(queue'[s]) + recorded'[s]
        <4> DEFINE v == SizeOf(t)
        <4>1. v \in Nat /\ e \in Nat /\ l \in Nat /\ at \in Nat /\ n \in Nat
          BY <1>2, <1>3, <2>5
        <4>2. captured'[s] = (l + (e + v) + at) + n
          BY <1>5, <2>6
        <4>3. lost'[s] = l + e /\ SizeOf(queue'[s]) = v + n /\ recorded'[s] = at
          BY <1>1, <2>7, <2>9
        <4> HIDE DEF v, l, at
        <4> QED BY <4>1, <4>2, <4>3
      <3>2. QueueAligned(queue'[s], recorded'[s], lost'[s])
        BY <1>1, <2>7, <2>9
      <3>3. Held(pending[s], combined, lost'[s]) /\ Held(packet[s], combined - Len(packet[s]), lost'[s])
        <4>1. l \in Nat /\ lost'[s] \in Nat /\ l <= lost'[s]
          BY <1>3, <2>5, <2>9
        <4>2. Held(pending[s], combined, l) /\ Held(packet[s], combined - Len(packet[s]), l)
          BY <1>2 DEF SourceSound
        <4> HIDE DEF l
        <4> QED BY <4>1, <4>2, HeldLater
      <3>4. recorded[s] = Len(pending[s]) + combined
        BY <1>2 DEF SourceSound
      <3> QED BY <1>1, <3>1, <3>2, <3>3, <3>4 DEF SourceSound
    <2>11. ASSUME NEW u \in Active, u # s PROVE SourceSound(u)'
      <3>1. /\ SourceSound(u) /\ captured'[u] = captured[u] /\ lost'[u] = lost[u]
            /\ queue'[u] = queue[u]
        BY <1>1, <1>2, <2>1, <2>8, <2>11 DEF CombineIInv, CombineTypes, Active
      <3> QED BY <1>1, <3>1 DEF SourceSound
    <2> QED BY <2>9, <2>10, <2>11 DEF CombineIInv
  <1> QED BY <1>6, <1>7

LEMMA CaptureRefusedInv ==
  ASSUME CombineIInv, NEW s \in Sources, NEW n \in 1 .. MaxBlock, CaptureRefused(s, n)
  PROVE  CombineIInv'
  <1>1. /\ s \in Active /\ captured' = [captured EXCEPT ![s] = @ + n]
        /\ lost' = [lost EXCEPT ![s] = @ + n] /\ queue' = queue
        /\ pending' = pending /\ recorded' = recorded /\ packet' = packet /\ combined' = combined
    BY DEF CaptureRefused, workerVars
  <1>2. CombineTypes /\ SourceSound(s) /\ n \in Nat
    BY <1>1, CombineAssumption DEF CombineIInv
  <1>3. captured[s] \in Nat /\ lost[s] \in Nat
    BY <1>2, SourceTypes
  <1>4. CombineTypes' /\ captured'[s] = captured[s] + n /\ lost'[s] = lost[s] + n
    BY <1>1, <1>2, <1>3 DEF CombineTypes
  <1>5. SourceSound(s)'
    BY <1>1, <1>2, <1>4, SourceLoses
  <1>6. ASSUME NEW u \in Active, u # s PROVE SourceSound(u)'
    <2>1. SourceSound(u) /\ captured'[u] = captured[u] /\ lost'[u] = lost[u]
      BY <1>1, <1>2, <1>6 DEF CombineIInv, CombineTypes, Active
    <2> QED BY <1>1, <2>1 DEF SourceSound
  <1> QED BY <1>4, <1>5, <1>6 DEF CombineIInv

LEMMA OneBlock ==
  ASSUME NEW q \in Seq(Blocks), q # << >>
  PROVE  /\ SizeOf(SubSeq(q, 1, 1)) = Len(Head(q)) /\ Head(q) \in Blocks
         /\ Tail(q) \in Seq(Blocks) /\ 1 + Len(Tail(q)) = Len(q)
         /\ \A i \in 1 .. Len(Tail(q)) : Tail(q)[i] = q[1 + i]
  <1> DEFINE a == SubSeq(q, 0 + 1, 0 + 1)
  <1>1. /\ Head(q) \in Blocks /\ Tail(q) \in Seq(Blocks) /\ Len(Tail(q)) = Len(q) - 1
        /\ \A i \in 1 .. Len(Tail(q)) : Tail(q)[i] = q[i + 1]
    BY HeadTailProperties
  <1>2. Head(q) = q[1] /\ Len(q) \in Nat /\ Len(q) # 0
    BY LenProperties, EmptySeq
  <1>3. a \in Seq(Blocks) /\ Len(a) = 1 /\ a[1] = Head(q)
    <2>1. 0 \in Nat /\ 1 \in Nat /\ 0 + 1 <= Len(q)
      BY <1>2
    <2>2. a \in Seq(Blocks) /\ Len(a) = 1 /\ \A i \in 1 .. 1 : a[i] = q[0 + i]
      BY <2>1, Part
    <2> QED BY <1>2, <2>2
  <1> HIDE DEF a
  <1>4. SizeOf(a) = Len(Head(q))
    <2>1. PICK f : Sums(f, a)
      BY <1>3, SumExists
    <2>2. SizeOf(a) = f[Len(a)]
      BY <1>3, <2>1, SumFacts
    <2>3. f[0] = 0 /\ \A i \in 1 .. Len(a) : f[i] = f[i - 1] + Len(a[i]) /\ Len(a[i]) \in Nat
      BY <1>3, <2>1, SumSteps
    <2>4. f[1] = f[0] + Len(a[1]) /\ Len(a[1]) \in Nat
      BY <1>3, <2>3
    <2> QED BY <1>3, <2>2, <2>3, <2>4
  <1>5. a = SubSeq(q, 1, 1)
    BY DEF a
  <1>6. \A i \in 1 .. Len(Tail(q)) : Tail(q)[i] = q[1 + i]
    BY <1>1, <1>2
  <1> QED BY <1>1, <1>2, <1>4, <1>5, <1>6

LEMMA DrainBlockInv == CombineIInv /\ DrainBlock => CombineIInv'
  <1> SUFFICES ASSUME CombineIInv, DrainBlock PROVE CombineIInv'
    OBVIOUS
  <1>0. PICK s : s = slot
    OBVIOUS
  <1> DEFINE q == queue[s]
             h == Head(q)
             t == Tail(q)
             l == lost[s]
             at == recorded[s]
             e == Len(h)
  <1>1. /\ s \in Active /\ q # << >> /\ queue' = [queue EXCEPT ![s] = Tail(@)]
        /\ pending' = [pending EXCEPT ![s] = @ \o h]
        /\ recorded' = [recorded EXCEPT ![s] = @ + Len(h)]
        /\ captured' = captured /\ lost' = lost /\ packet' = packet /\ combined' = combined
    BY <1>0 DEF DrainBlock
  <1>2. CombineTypes /\ SourceSound(s) /\ s \in Sources
    BY <1>1 DEF CombineIInv, Active
  <1>3. /\ captured[s] \in Nat /\ l \in Nat /\ at \in Nat /\ q \in Seq(Blocks)
        /\ combined \in Nat /\ pending[s] \in Blocks /\ Len(pending[s]) \in Nat
    BY <1>2, SourceTypes
  <1>4. /\ SizeOf(SubSeq(q, 1, 1)) = e /\ h \in Blocks /\ t \in Seq(Blocks)
        /\ 1 + Len(t) = Len(q) /\ \A i \in 1 .. Len(t) : t[i] = q[1 + i]
    BY <1>1, <1>3, OneBlock
  <1>5. QueueAligned(q, at, l)
    BY <1>2 DEF SourceSound
  <1>6. /\ e \in Nat /\ SizeOf(t) \in Nat /\ SizeOf(q) = e + SizeOf(t)
        /\ QueueAligned(t, at + e, l)
    <2> HIDE DEF at, l, t, e, q
    <2>1. LET z == SizeOf(SubSeq(q, 1, 1))
          IN  /\ z \in Nat /\ SizeOf(t) \in Nat /\ SizeOf(q) = z + SizeOf(t)
              /\ \A d \in 0 .. z : QueueAligned(t, at + d, l + (z - d))
      <3>1. 1 \in Nat
        OBVIOUS
      <3> QED BY ONLY <1>3, <1>4, <1>5, <3>1, AlignedEnd
    <2>2. /\ e \in Nat /\ SizeOf(t) \in Nat /\ SizeOf(q) = e + SizeOf(t)
          /\ \A d \in 0 .. e : QueueAligned(t, at + d, l + (e - d))
      BY <1>4, <2>1
    <2>3. e \in 0 .. e /\ l + (e - e) = l
      BY <1>3, <2>2
    <2>4. QueueAligned(t, at + e, l + (e - e))
      BY <2>2, <2>3
    <2> QED BY <2>2, <2>3, <2>4
  <1>7. Held(h, at, l)
    <2>1. PICK f : /\ Sums(f, q)
                   /\ \A j \in 1 .. Len(q) : \A i \in 1 .. Len(q[j]) :
                        q[j][i] - (at + f[j - 1] + i) \in 0 .. l
      BY <1>5 DEF QueueAligned
    <2>2. f[0] = 0 /\ 1 \in 1 .. Len(q) /\ q[1] = h
      <3>1. f[0] = 0
        BY <1>3, <2>1, SumSteps
      <3>2. Len(t) \in Nat
        BY <1>4, LenProperties
      <3> QED BY <1>4, <3>1, <3>2
    <2> HIDE DEF h, q, at
    <2>3. \A i \in 1 .. Len(h) : h[i] - (at + f[1 - 1] + i) \in 0 .. l
      BY <2>1, <2>2
    <2>4. at + f[1 - 1] = at
      BY <1>3, <2>2
    <2> QED BY <2>3, <2>4 DEF Held
  <1>8. /\ pending[s] \o h \in Blocks /\ Len(pending[s] \o h) = Len(pending[s]) + e
        /\ Held(pending[s] \o h, combined, l)
    <2>1. Held(pending[s], combined, l) /\ at = Len(pending[s]) + combined
      BY <1>2 DEF SourceSound
    <2>2. Held(h, Len(pending[s]) + combined, l)
      BY <1>7, <2>1
    <2> HIDE DEF h, l, at
    <2> QED BY <1>3, <1>4, <2>1, <2>2, HeldJoin
  <1>9. /\ queue'[s] = t /\ pending'[s] = pending[s] \o h /\ recorded'[s] = at + e /\ CombineTypes'
    <2>1. queue' \in [Sources -> Seq(Blocks)] /\ queue'[s] = t
      BY <1>1, <1>2, <1>4 DEF CombineTypes
    <2> HIDE DEF h
    <2>2. pending' \in [Sources -> Blocks] /\ pending'[s] = pending[s] \o h
      BY <1>1, <1>2, <1>8 DEF CombineTypes
    <2>3. recorded' \in [Sources -> Nat] /\ recorded'[s] = at + e
      BY <1>1, <1>2, <1>3, <1>6 DEF CombineTypes
    <2> QED BY <1>1, <1>2, <2>1, <2>2, <2>3 DEF CombineTypes
  <1>10. SourceSound(s)'
    <2> HIDE DEF t, h, e
    <2>1. captured'[s] = lost'[s] + SizeOf(queue'[s]) + recorded'[s]
      <3>1. captured[s] = l + SizeOf(q) + at
        BY <1>2 DEF SourceSound
      <3>2. captured[s] = l + SizeOf(t) + (at + e)
        BY <1>3, <1>6, <3>1
      <3> QED BY <1>1, <1>9, <3>2
    <2>2. recorded'[s] = Len(pending'[s]) + combined'
      <3>1. at = Len(pending[s]) + combined
        BY <1>2 DEF SourceSound
      <3>2. Len(pending'[s]) = Len(pending[s]) + e /\ combined' = combined
        BY <1>1, <1>8, <1>9
      <3> QED BY <1>3, <1>6, <1>9, <3>1, <3>2
    <2>3. Held(packet[s], combined - Len(packet[s]), lost[s])
      BY <1>2 DEF SourceSound
    <2> QED BY <1>1, <1>6, <1>8, <1>9, <2>1, <2>2, <2>3 DEF SourceSound
  <1>11. ASSUME NEW u \in Active, u # s PROVE SourceSound(u)'
    <2>1. /\ SourceSound(u) /\ queue'[u] = queue[u] /\ pending'[u] = pending[u]
          /\ recorded'[u] = recorded[u]
      BY <1>1, <1>2, <1>11 DEF CombineIInv, CombineTypes, Active
    <2> QED BY <1>1, <2>1 DEF SourceSound
  <1> QED BY <1>9, <1>10, <1>11 DEF CombineIInv

LEMMA CombineInv == CombineIInv /\ Combine => CombineIInv'
  <1> SUFFICES ASSUME CombineIInv, Combine PROVE CombineIInv'
    OBVIOUS
  <1> DEFINE lens == {Len(pending[s]) : s \in Active}
             n == Min({Available, MaxPacket})
  <1>1. /\ packet' = [s \in Sources |-> Take(s, n)]
        /\ pending' = [s \in Sources |-> SubSeq(pending[s], n + 1, Len(pending[s]))]
        /\ combined' = combined + n
        /\ captured' = captured /\ lost' = lost /\ queue' = queue /\ recorded' = recorded
    BY DEF Combine, sourceVars
  <1>2. CombineTypes
    BY DEF CombineIInv
  <1>3. n \in Nat /\ \A s \in Active : n <= Len(pending[s]) /\ Len(pending[s]) \in Nat
    <2>1. \A s \in Active : Len(pending[s]) \in Nat
      BY <1>2, SourceTypes DEF Active
    <2>2. lens \in SUBSET Nat /\ lens # {}
      BY <2>1, CombineAssumption
    <2>3. Available \in lens /\ \A y \in lens : Available <= y
      <3> HIDE DEF lens
      <3>1. Min(lens) \in lens /\ \A y \in lens : Min(lens) <= y
        BY <2>2, MinFacts
      <3> QED BY <3>1 DEF Available, lens
    <2>4. n \in {Available, MaxPacket} /\ n <= Available
      <3> DEFINE T == {Available, MaxPacket}
      <3>1. T \in SUBSET Nat /\ T # {} /\ Available \in T
        BY <2>2, <2>3, CombineAssumption
      <3> HIDE DEF T
      <3>2. Min(T) \in T /\ \A y \in T : Min(T) <= y
        BY <3>1, MinFacts
      <3> QED BY <3>1, <3>2 DEF T
    <2> HIDE DEF n
    <2>5. n \in Nat /\ Available \in Nat
      BY <2>2, <2>3, <2>4, CombineAssumption
    <2>6. ASSUME NEW s \in Active PROVE n <= Len(pending[s])
      <3>1. Available <= Len(pending[s])
        BY <2>3
      <3> QED BY <2>1, <2>4, <2>5, <3>1
    <2> QED BY <2>1, <2>5, <2>6
  <1> HIDE DEF n
  <1>4. ASSUME NEW s \in Sources PROVE Take(s, n) \in Blocks /\ Len(Take(s, n)) = n
    <2>1. \A i \in 1 .. Len(pending[s]) : pending[s][i] \in Nat
      <3>1. pending[s] \in Seq(Nat)
        BY <1>2, SourceTypes DEF Blocks
      <3> QED BY <3>1, ElementOfSeq
    <2>2. Len(pending[s]) \in Nat
      BY <1>2, SourceTypes
    <2>3. Take(s, n) \in [1 .. n -> Nat]
      BY <1>3, <2>1, <2>2 DEF Take, Silence
    <2> QED BY <1>3, <2>3, IsASeq, LenProperties DEF Blocks
  <1>5. CombineTypes'
    <2>1. pending' \in [Sources -> Blocks]
      <3>1. \A s \in Sources : SubSeq(pending[s], n + 1, Len(pending[s])) \in Blocks
        BY <1>2, <1>3, SourceTypes, RestOfBlock
      <3> QED BY <1>1, <3>1
    <2>2. packet' \in [Sources -> Blocks]
      BY <1>1, <1>4
    <2>3. combined' \in Nat
      BY <1>1, <1>2, <1>3 DEF CombineTypes
    <2> QED BY <1>1, <1>2, <2>1, <2>2, <2>3 DEF CombineTypes
  <1>6. ASSUME NEW s \in Active PROVE SourceSound(s)'
    <2> DEFINE b == pending[s]
               t == SubSeq(b, n + 1, Len(b))
    <2>1. s \in Sources /\ SourceSound(s) /\ n <= Len(b) /\ Len(b) \in Nat
      BY <1>3 DEF Active, CombineIInv
    <2>2. lost[s] \in Nat /\ combined \in Nat /\ b \in Blocks /\ Held(b, combined, lost[s])
      BY <1>2, <2>1, SourceTypes DEF SourceSound
    <2>3. pending'[s] = t /\ packet'[s] = Take(s, n)
      BY <1>1, <2>1
    <2>4. Len(t) = Len(b) - n /\ Held(t, combined + n, lost[s])
      BY <1>3, <2>1, <2>2, HeldRest
    <2>5. Held(Take(s, n), (combined + n) - Len(Take(s, n)), lost[s])
      <3>1. ASSUME NEW i \in 1 .. n PROVE Take(s, n)[i] - (combined + i) \in 0 .. lost[s]
        <4>1. i \in 1 .. Len(b) /\ i <= Len(b)
          BY <1>3, <2>1
        <4>2. Take(s, n)[i] = b[i]
          BY <4>1 DEF Take
        <4> QED BY <2>2, <4>1, <4>2 DEF Held
      <3>2. (combined + n) - n = combined
        BY <1>3, <2>2
      <3> QED BY <1>4, <2>1, <3>1, <3>2 DEF Held
    <2>6. recorded[s] = Len(t) + (combined + n)
      <3>1. recorded[s] = Len(b) + combined
        BY <2>1 DEF SourceSound
      <3> HIDE DEF t, b
      <3> QED BY <1>3, <2>1, <2>2, <2>4, <3>1
    <2> HIDE DEF t, b
    <2> QED BY <1>1, <2>1, <2>3, <2>4, <2>5, <2>6 DEF SourceSound
  <1> QED BY <1>5, <1>6 DEF CombineIInv

LEMMA CombineStepInv == CombineIInv /\ [Next]_vars => CombineIInv'
  <1> SUFFICES ASSUME CombineIInv, [Next]_vars PROVE CombineIInv'
    OBVIOUS
  <1>1. CASE /\ captured' = captured /\ queue' = queue /\ lost' = lost
             /\ pending' = pending /\ recorded' = recorded /\ packet' = packet
             /\ combined' = combined
    BY <1>1 DEF CombineIInv, CombineTypes, SourceSound
  <1>2. CASE Begin
    BY <1>1, <1>2 DEF Begin, sourceVars
  <1>3. CASE DrainBlock
    BY <1>3, DrainBlockInv
  <1>4. CASE DrainNext
    BY <1>1, <1>4 DEF DrainNext, sourceVars
  <1>5. CASE Wait
    BY <1>1, <1>5 DEF Wait, sourceVars
  <1>6. CASE Combine
    BY <1>6, CombineInv
  <1>7. CASE Finish
    BY <1>1, <1>7 DEF Finish, sourceVars
  <1>8. CASE Stop
    BY <1>1, <1>8 DEF Stop, sourceVars, workerVars
  <1>9. CASE UNCHANGED vars
    BY <1>1, <1>9 DEF vars, sourceVars, workerVars
  <1>10. CASE \E s \in Sources, n \in 1 .. MaxBlock : Capture(s, n) \/ CaptureRefused(s, n)
    BY <1>10, CaptureInv, CaptureRefusedInv
  <1> QED
    BY <1>2, <1>3, <1>4, <1>5, <1>6, <1>7, <1>8, <1>9, <1>10 DEF Next, Worker

LEMMA CombineSuffices == CombineIInv => CombinedWhole
  <1> SUFFICES ASSUME CombineIInv PROVE CombinedWhole
    OBVIOUS
  <1>1. \A s \in Active : SourceSound(s) /\ s \in Sources /\ CombineTypes
    BY DEF CombineIInv, Active
  <1>2. FramesAccounted
    BY <1>1 DEF FramesAccounted, SourceSound
  <1>3. ASSUME NEW s \in Active PROVE DOMAIN packet[s] = 1 .. Len(packet[s])
    <2>1. packet[s] \in Seq(Nat)
      BY <1>1, SourceTypes DEF Blocks
    <2> QED BY <2>1, LenProperties
  <1>4. ChannelsAligned
    BY <1>1, <1>3 DEF ChannelsAligned, SourceSound, Held
  <1> QED BY <1>2, <1>4 DEF CombinedWhole

-----------------------------------------------------------------------------
(* The components together: the one that runs steps, the others stay.      *)

MultiIInv == CombineIInv /\ TxIInv /\ PlaybackIInv /\ SplitIInv

LEMMA MultiKept == MultiSpec => []MultiIInv
  <1>1. MultiInit => MultiIInv
    BY CombineInitInv, TxInitInv, PlaybackInitInv, SplitInitInv DEF MultiInit, MultiIInv
  <1>2. MultiIInv /\ [MultiNext]_allVars => MultiIInv'
    <2> SUFFICES ASSUME MultiIInv, [MultiNext]_allVars PROVE MultiIInv'
      OBVIOUS
    <2>1. [Next]_vars /\ [TxNext]_txAll /\ [PlaybackNext]_playbackVars /\ [SplitNext]_splitVars
      BY DEF MultiNext, allVars
    <2> QED
      BY <2>1, CombineStepInv, TxStepInv, PlaybackStepInv, SplitStepInv DEF MultiIInv
  <1> QED BY <1>1, <1>2, PTL DEF MultiSpec

(* Whatever the sources deliver and lose, however their queues fill and    *)
(* the worker drains them (combine.rs): every frame was dropped, waits or  *)
(* was combined, and the channels of a packet lie apart by no more than    *)
(* what a source has lost.                                                 *)
THEOREM CombinesWhole == MultiSpec => []CombinedWhole
  <1>1. MultiIInv => CombinedWhole
    BY CombineSuffices DEF MultiIInv
  <1> QED BY <1>1, MultiKept, PTL

(* Whatever callbacks deliver and the ring evicts, while the worker counts *)
(* and takes (asio.rs, transmit.rs): a packet holds whole frames of the    *)
(* selected channels, in their order.                                      *)
THEOREM PublishesWhole == MultiSpec => []PublishedWhole
  <1>1. MultiIInv => PublishedWhole
    BY TxSuffices DEF MultiIInv
  <1> QED BY <1>1, MultiKept, PTL

(* At the playing end, ASIO playback moves the channels together within    *)
(* its latency cap, and the split receiver's channels never play a frame   *)
(* twice (asio_playback.rs, split_receive.rs).                             *)
THEOREM PlaysWhole == MultiSpec => []PlayoutWhole
  <1>1. MultiIInv => PlayoutWhole
    BY PlaybackSuffices, SplitSuffices DEF MultiIInv, PlayoutWhole
  <1> QED BY <1>1, MultiKept, PTL

=============================================================================
