-------------------------- MODULE ByteStreamProofs --------------------------
(***************************************************************************)
(* Lemmas about runs of bytes of a stream, for the modules that read one.  *)
(***************************************************************************)
EXTENDS ByteStream, SequenceTheorems, TLAPS

\* The bytes at an offset are a sequence of as many offsets.
LEMMA BytesType ==
  ASSUME NEW o \in Nat, NEW k \in Nat
  PROVE  Bytes(o, k) \in Seq(Nat) /\ Len(Bytes(o, k)) = k
         /\ \A i \in 1..k : Bytes(o, k)[i] = o + i - 1
<1>1. \A i \in 1..k : o + i - 1 \in Nat
  OBVIOUS
<1>2. Bytes(o, k) \in Seq(Nat)
  BY <1>1 DEF Bytes
<1>3. DOMAIN Bytes(o, k) = 1..k
  BY DEF Bytes
<1>4. Len(Bytes(o, k)) = k
  BY <1>2, <1>3
<1>5. QED
  BY <1>2, <1>4 DEF Bytes

\* No bytes at all.
LEMMA BytesEmpty == ASSUME NEW o \in Nat PROVE Bytes(o, 0) = <<>>
<1>1. Bytes(o, 0) \in Seq(Nat) /\ Len(Bytes(o, 0)) = 0
  BY BytesType
<1>2. QED
  BY <1>1

\* Two neighbouring runs of bytes are one.
LEMMA BytesAppend ==
  ASSUME NEW o \in Nat, NEW m \in Nat, NEW n \in Nat
  PROVE  Bytes(o, m) \o Bytes(o + m, n) = Bytes(o, m + n)
<1> DEFINE a == Bytes(o, m)
           b == Bytes(o + m, n)
           c == Bytes(o, m + n)
<1>1. /\ a \in Seq(Nat) /\ Len(a) = m /\ \A i \in 1..m : a[i] = o + i - 1
      /\ b \in Seq(Nat) /\ Len(b) = n /\ \A i \in 1..n : b[i] = o + m + i - 1
      /\ c \in Seq(Nat) /\ Len(c) = m + n /\ \A i \in 1..(m + n) : c[i] = o + i - 1
  <2>1. o + m \in Nat /\ m + n \in Nat
    OBVIOUS
  <2>2. QED
    BY <2>1, BytesType
<1> HIDE DEF a, b, c
<1>2. /\ a \o b \in Seq(Nat)
      /\ Len(a \o b) = m + n
      /\ \A i \in 1..(m + n) : (a \o b)[i] = IF i <= m THEN a[i] ELSE b[i - m]
  BY <1>1, ConcatProperties
<1>3. \A i \in 1..(m + n) : (a \o b)[i] = c[i]
  <2>1. SUFFICES ASSUME NEW i \in 1..(m + n) PROVE (a \o b)[i] = c[i]
    OBVIOUS
  <2>2. CASE i <= m
    BY <1>1, <1>2, <2>2
  <2>3. CASE ~(i <= m)
    <3>1. i - m \in 1..n
      BY <2>3
    <3>2. QED
      BY <1>1, <1>2, <2>3, <3>1
  <2>4. QED
    BY <2>2, <2>3
<1>4. a \o b = c
  BY <1>1, <1>2, <1>3, SeqEqual
<1>5. QED
  BY <1>4 DEF a, b, c

\* A part of a run of bytes is a run of bytes.
LEMMA BytesSub ==
  ASSUME NEW o \in Nat, NEW m \in Nat, NEW i \in Nat, NEW n \in Nat, i + n <= m
  PROVE  SubSeq(Bytes(o, m), i + 1, i + n) = Bytes(o + i, n)
<1> DEFINE s == Bytes(o, m)
           c == Bytes(o + i, n)
<1>1. /\ s \in Seq(Nat) /\ Len(s) = m /\ \A j \in 1..m : s[j] = o + j - 1
      /\ c \in Seq(Nat) /\ Len(c) = n /\ \A j \in 1..n : c[j] = o + i + j - 1
  <2>1. o + i \in Nat
    OBVIOUS
  <2>2. QED
    BY <2>1, BytesType
<1> HIDE DEF s, c
<1> DEFINE t == SubSeq(s, i + 1, i + n)
<1>2. /\ t \in Seq(Nat)
      /\ Len(t) = IF i + 1 <= i + n THEN i + n - (i + 1) + 1 ELSE 0
      /\ \A j \in 1..(i + n - (i + 1) + 1) : t[j] = s[i + 1 + j - 1]
  <2>1. i + 1 \in 1..(Len(s) + 1) /\ i + n \in 0..Len(s)
    BY <1>1
  <2>2. QED
    BY <1>1, <2>1, SubSeqProperties
<1> HIDE DEF t
<1>3. Len(t) = n /\ \A j \in 1..n : t[j] = o + i + j - 1
  <2>1. Len(t) = n
    BY <1>2
  <2>2. SUFFICES ASSUME NEW j \in 1..n PROVE t[j] = o + i + j - 1
    BY <2>1
  <2>3. j \in 1..(i + n - (i + 1) + 1) /\ i + 1 + j - 1 \in 1..m
    OBVIOUS
  <2>4. t[j] = s[i + 1 + j - 1]
    BY <1>2, <2>3
  <2>5. s[i + 1 + j - 1] = o + (i + 1 + j - 1) - 1
    BY <1>1, <2>3
  <2>6. QED
    BY <2>4, <2>5
<1>4. t = c
  BY <1>1, <1>2, <1>3, SeqEqual
<1>5. QED
  BY <1>4 DEF s, c, t

=============================================================================
