----------------------------- MODULE RingLemmas -----------------------------
(***************************************************************************)
(* Lemmas about rings of n slots with a head, and about the list of the    *)
(* newest entries, for modules EventLog and History.                       *)
(***************************************************************************)
EXTENDS SequenceTheorems, TLAPS

\* The remainders the ring takes are of numbers below twice its size.
LEMMA Remainders ==
  ASSUME NEW n \in Nat \ {0}, NEW x \in 0 .. n - 1
  PROVE  x % n = x /\ (x + n) % n = x
OBVIOUS

\* The slot i places behind the head.
LEMMA SlotBehind ==
  ASSUME NEW n \in Nat \ {0}, NEW h \in 0 .. n - 1, NEW i \in 1 .. n
  PROVE  (h + n - i) % n = IF i <= h THEN h - i ELSE h + n - i
<1>1. CASE i <= h
  <2>1. h - i \in 0 .. n - 1 /\ h + n - i = (h - i) + n
    BY <1>1
  <2> QED BY <1>1, <2>1, Remainders
<1>2. CASE ~(i <= h)
  <2>1. h + n - i \in 0 .. n - 1
    BY <1>2
  <2> QED BY <1>2, <2>1, Remainders
<1> QED BY <1>1, <1>2

\* The head after it moved.
LEMMA HeadMoves ==
  ASSUME NEW n \in Nat \ {0}, NEW h \in 0 .. n - 1
  PROVE  (h + 1) % n = IF h + 1 < n THEN h + 1 ELSE 0
<1>1. CASE h + 1 < n
  BY <1>1, Remainders
<1>2. CASE ~(h + 1 < n)
  <2>1. h + 1 = 0 + n /\ 0 \in 0 .. n - 1
    BY <1>2
  <2> QED BY <1>2, <2>1, Remainders
<1> QED BY <1>1, <1>2

\* The newest of a list with one more in front.
LEMMA NewestOfPushed ==
  ASSUME NEW S, NEW n \in Nat \ {0}, NEW c \in 0 .. n, NEW d \in 0 .. n,
         d = IF c < n THEN c + 1 ELSE c,
         NEW f \in [1 .. c -> S], NEW g \in [1 .. d -> S],
         g[1] \in S, \A i \in 1 .. d - 1 : g[i + 1] = f[i]
  PROVE  g = SubSeq(<<g[1]>> \o f, 1, IF n < Len(<<g[1]>> \o f) THEN n ELSE Len(<<g[1]>> \o f))
<1> DEFINE w == <<g[1]>>
           p == w \o f
<1>1. f \in Seq(S) /\ g \in Seq(S) /\ w \in Seq(S)
  BY SeqDef, c \in Nat, d \in Nat
<1>2. Len(f) = c /\ Len(g) = d /\ Len(w) = 1 /\ w[1] = g[1]
  <2>1. DOMAIN f = 1 .. c /\ DOMAIN g = 1 .. d
    OBVIOUS
  <2>2. Len(f) \in Nat /\ DOMAIN f = 1 .. Len(f) /\ Len(g) \in Nat /\ DOMAIN g = 1 .. Len(g)
    BY <1>1, LenProperties
  <2> QED BY <2>1, <2>2
<1>3. /\ p \in Seq(S) /\ Len(p) = 1 + c
      /\ \A i \in 1 .. 1 + c : p[i] = IF i <= 1 THEN g[1] ELSE f[i - 1]
  <2> HIDE DEF w
  <2>1. /\ p \in Seq(S) /\ Len(p) = Len(w) + Len(f)
        /\ \A i \in 1 .. Len(w) + Len(f) : p[i] = IF i <= Len(w) THEN w[i] ELSE f[i - Len(w)]
    BY <1>1, ConcatProperties
  <2>2. \A i \in 1 .. 1 + c : i <= 1 => i = 1
    OBVIOUS
  <2> QED BY <1>2, <2>1, <2>2
<1> HIDE DEF w, p
<1>4. (IF n < Len(p) THEN n ELSE Len(p)) = d
  BY <1>3
<1>5. \A i \in 1 .. d : p[i] \in S
  <2>1. \A i \in 1 .. 1 + c : i \in 1 .. Len(p)
    BY <1>3
  <2>2. \A i \in 1 .. d : i \in 1 .. 1 + c
    OBVIOUS
  <2> QED BY <1>3, <2>1, <2>2, ElementOfSeq
<1>6. /\ SubSeq(p, 1, d) \in Seq(S) /\ Len(SubSeq(p, 1, d)) = d
      /\ \A i \in 1 .. d : SubSeq(p, 1, d)[i] = p[i]
  <2>1. /\ SubSeq(p, 1, d) \in Seq(S)
        /\ Len(SubSeq(p, 1, d)) = IF 1 <= d THEN d - 1 + 1 ELSE 0
        /\ \A i \in 1 .. d - 1 + 1 : SubSeq(p, 1, d)[i] = p[1 + i - 1]
    BY <1>5, SubSeqProperties, 1 \in Int, d \in Int
  <2> QED BY <2>1
<1>7. \A i \in 1 .. d : g[i] = SubSeq(p, 1, d)[i]
  <2> SUFFICES ASSUME NEW i \in 1 .. d PROVE g[i] = p[i]
    BY <1>6
  <2>1. CASE i = 1
    BY <1>3, <2>1
  <2>2. CASE i # 1
    <3>1. i - 1 \in 1 .. d - 1 /\ i \in 1 .. 1 + c /\ ~(i <= 1)
      BY <2>2
    <3>2. g[(i - 1) + 1] = f[i - 1]
      BY <3>1
    <3> QED BY <1>3, <3>1, <3>2
  <2> QED BY <2>1, <2>2
<1>8. g = SubSeq(p, 1, d)
  BY <1>1, <1>2, <1>6, <1>7, SeqEqual
<1> QED BY <1>4, <1>8 DEF p, w


\* Where a slot has its bit, when b bits are packed into a byte.
LEMMA PackedBit ==
  ASSUME NEW b \in Nat \ {0}, NEW x \in Nat
  PROVE  x \div b \in Nat /\ x % b \in 0 .. b - 1 /\ x = b * (x \div b) + (x % b)
OBVIOUS

\* Two slots do not share a bit.
LEMMA OwnBit ==
  ASSUME NEW b \in Nat \ {0}, NEW x \in Nat, NEW y \in Nat,
         x \div b = y \div b, x % b = y % b
  PROVE  x = y
BY PackedBit

\* A slot of n has its byte among those that n slots need.
LEMMA ByteExists ==
  ASSUME NEW b \in Nat \ {0}, NEW n \in Nat \ {0}, NEW x \in 0 .. n - 1
  PROVE  x \div b \in 0 .. (n + b - 1) \div b - 1
<1> DEFINE q == x \div b
           s == (n + b - 1) \div b
<1>1. /\ q \in Nat /\ x % b \in 0 .. b - 1 /\ x = b * q + (x % b)
      /\ s \in Nat /\ (n + b - 1) % b \in 0 .. b - 1 /\ n + b - 1 = b * s + ((n + b - 1) % b)
  BY PackedBit, x \in Nat, n + b - 1 \in Nat
<1> HIDE DEF q, s
<1>2. b * q + b < b * s + b
  BY <1>1
<1>3. q < s
  <2> SUFFICES ASSUME s <= q PROVE FALSE
    BY <1>1
  <2>1. PICK k \in Nat : q = s + k
    <3>1. q - s \in Nat /\ q = s + (q - s)
      BY <1>1
    <3> QED BY <3>1
  <2>2. b * q = b * s + b * k /\ b * k \in Nat /\ b * s \in Nat
    BY <1>1, <2>1
  <2> QED BY <1>2, <2>2
<1> QED BY <1>1, <1>3 DEF q, s
=============================================================================
