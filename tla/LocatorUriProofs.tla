-------------------------- MODULE LocatorUriProofs --------------------------
(***************************************************************************)
(* The text of a locator is read back as that locator, for every           *)
(* vocabulary, every name and every number that fits its field.            *)
(***************************************************************************)
EXTENDS LocatorUri, SequenceTheorems, WellFoundedInduction, TLAPS

-----------------------------------------------------------------------------
(***************************************************************************)
(* Counting                                                                *)
(***************************************************************************)

\* A non-empty set of numbers has a least one.
LEMMA LeastOf ==
  ASSUME NEW T \in SUBSET Nat, T # {}
  PROVE  \E m \in T : \A j \in T : m <= j
<1>1. IsWellFoundedOn(OpToRel(<, Nat), Nat)
  BY NatLessThanWellFounded
<1>2. PICK m \in T : \A j \in Nat : <<j, m>> \in OpToRel(<, Nat) => j \notin T
  BY <1>1, WFMin
<1>3. \A j \in T : ~(j < m)
  BY <1>2 DEF OpToRel
<1>4. QED
  BY <1>3

\* A set that holds 0 and the successor of each of its numbers below N holds
\* all numbers up to N.
LEMMA UpTo ==
  ASSUME NEW N \in Nat, NEW S, 0 \in S,
         \A n \in 0..(N - 1) : n \in S => n + 1 \in S
  PROVE  \A n \in 0..N : n \in S
<1> DEFINE T == {n \in 0..N : n \notin S}
<1>1. SUFFICES ASSUME T # {} PROVE FALSE
  OBVIOUS
<1>2. PICK m \in T : \A j \in T : m <= j
  <2>1. T \in SUBSET Nat
    OBVIOUS
  <2> HIDE DEF T
  <2>2. QED
    BY <1>1, <2>1, LeastOf
<1>3. m # 0
  BY <1>2
<1>4. m - 1 \in 0..(N - 1) /\ m - 1 < m /\ (m - 1) + 1 = m
  BY <1>2, <1>3
<1>5. m - 1 \in S
  BY <1>2, <1>4
<1>6. QED
  BY <1>2, <1>4, <1>5


-----------------------------------------------------------------------------
(***************************************************************************)
(* Texts                                                                   *)
(***************************************************************************)

Text == Seq(Lexicon)

\* A set of sequences that holds the empty one and the extensions of each of
\* its elements holds them all.
LEMMA ByAppending ==
  ASSUME NEW V, NEW P, <<>> \in P,
         \A s \in Seq(V), x \in V : s \in P => Append(s, x) \in P
  PROVE  \A s \in Seq(V) : s \in P
<1> DEFINE S == {n \in Nat : \A s \in Seq(V) : Len(s) = n => s \in P}
<1>1. 0 \in S
  <2>1. \A s \in Seq(V) : Len(s) = 0 => s = <<>>
    BY EmptySeq
  <2>2. QED
    BY <2>1
<1>2. ASSUME NEW n \in Nat, n \in S PROVE n + 1 \in S
  <2>1. SUFFICES ASSUME NEW s \in Seq(V), Len(s) = n + 1 PROVE s \in P
    OBVIOUS
  <2>2. s # <<>>
    BY <2>1, EmptySeq
  <2>3. PICK r \in Seq(V), x \in V : s = Append(r, x)
    BY <2>2, SequenceEmptyOrAppend
  <2>4. Len(r) \in Nat /\ Len(s) = Len(r) + 1
    BY <2>3, AppendProperties, LenProperties
  <2>5. Len(r) = n
    BY <2>1, <2>4
  <2>6. r \in P
    BY <1>2, <2>5
  <2>7. QED
    BY <2>3, <2>6
<1>3. SUFFICES ASSUME NEW s \in Seq(V) PROVE s \in P
  OBVIOUS
<1>4. Len(s) \in Nat
  BY LenProperties
<1>5. Len(s) \in S
  <2> DEFINE N == Len(s)
  <2>1. N \in Nat
    BY <1>4
  <2> HIDE DEF S, N
  <2>2. \A n \in 0..(N - 1) : n \in S => n + 1 \in S
    BY <1>2, <2>1
  <2>3. \A n \in 0..N : n \in S
    BY <1>1, <2>1, <2>2, UpTo
  <2>4. QED
    BY <2>1, <2>3 DEF N
<1>6. QED
  BY <1>5

\* The sequences that FlattenSeq goes through.
Flattened(ss) ==
  CHOOSE f : f = [i \in 1..Len(ss) |-> IF i = 1 THEN ss[i] ELSE f[i - 1] \o ss[i]]

LEMMA FlattenedIs ==
  ASSUME NEW ss, Len(ss) \in Nat \ {0}
  PROVE  /\ FlattenSeq(ss) = Flattened(ss)[Len(ss)]
         /\ Flattened(ss)[1] = ss[1]
         /\ \A i \in 2..Len(ss) : Flattened(ss)[i] = Flattened(ss)[i - 1] \o ss[i]
<1> DEFINE w == Len(ss)
           F(i, before) == IF i = 1 THEN ss[i] ELSE before \o ss[i]
           S == {d \in Nat : \E g : \A i \in 1..d : g[i] = F(i, g[i - 1])}
<1> HIDE DEF F
<1>1. 0 \in S
  OBVIOUS
<1>2. ASSUME NEW d \in 0..(w - 1), d \in S PROVE d + 1 \in S
  <2>1. PICK g : \A i \in 1..d : g[i] = F(i, g[i - 1])
    BY <1>2
  <2> DEFINE h == [i \in 0..(d + 1) |-> IF i = d + 1 THEN F(d + 1, g[d]) ELSE g[i]]
  <2>2. ASSUME NEW i \in 1..(d + 1) PROVE h[i] = F(i, h[i - 1])
    <3>1. CASE i = d + 1
      <4>1. i - 1 = d /\ d \in 0..(d + 1) /\ d # d + 1
        BY <3>1
      <4>2. QED
        BY <3>1, <4>1
    <3>2. CASE i # d + 1
      <4>1. i \in 1..d /\ i - 1 \in 0..(d + 1) /\ i - 1 # d + 1
        BY <3>2
      <4>2. h[i] = g[i] /\ h[i - 1] = g[i - 1]
        BY <3>2, <4>1
      <4>3. QED
        BY <2>1, <4>1, <4>2
    <3>3. QED
      BY <3>1, <3>2
  <2> HIDE DEF h
  <2>3. QED
    BY <2>2
<1> HIDE DEF S
<1>3. w \in S
  <2>1. \A n \in 0..w : n \in S
    BY <1>1, <1>2, UpTo
  <2>2. QED
    BY <2>1
<1>4. PICK g : \A i \in 1..w : g[i] = F(i, g[i - 1])
  BY <1>3 DEF S
<1> DEFINE f == [i \in 1..w |-> g[i]]
<1>5. f = [i \in 1..w |-> F(i, f[i - 1])]
  <2>1. ASSUME NEW i \in 1..w PROVE f[i] = F(i, f[i - 1])
    <3>1. CASE i = 1
      BY <1>4, <3>1 DEF F
    <3>2. CASE i # 1
      <4>1. i - 1 \in 1..w
        BY <3>2
      <4>2. QED
        BY <1>4, <4>1
    <3>3. QED
      BY <3>1, <3>2
  <2>2. f = [i \in 1..w |-> f[i]]
    OBVIOUS
  <2> HIDE DEF f
  <2>3. QED
    BY <2>1, <2>2
<1> HIDE DEF f
<1>6. Flattened(ss) = [i \in 1..w |-> F(i, Flattened(ss)[i - 1])]
  BY <1>5 DEF Flattened, F
<1>7. \A i \in 1..w : Flattened(ss)[i] = F(i, Flattened(ss)[i - 1])
  BY <1>6
<1>8. FlattenSeq(ss) = Flattened(ss)[w]
  BY DEF FlattenSeq, Flattened
<1>9. Flattened(ss)[1] = ss[1]
  BY <1>7 DEF F
<1>10. ASSUME NEW i \in 2..w PROVE Flattened(ss)[i] = Flattened(ss)[i - 1] \o ss[i]
  <2>1. i \in 1..w /\ i # 1
    OBVIOUS
  <2>2. QED
    BY <1>7, <2>1 DEF F
<1>11. QED
  BY <1>8, <1>9, <1>10

\* Flattening takes one more text at the end.
LEMMA FlattenAppend ==
  ASSUME NEW V, NEW ss \in Seq(Seq(V)), NEW x \in Seq(V), FlattenSeq(ss) \in Seq(V)
  PROVE  FlattenSeq(Append(ss, x)) = FlattenSeq(ss) \o x
<1> DEFINE n == Len(ss)
           tt == Append(ss, x)
           f == Flattened(ss)
           g == Flattened(tt)
<1>1. /\ n \in Nat /\ Len(tt) = n + 1 /\ tt[n + 1] = x
      /\ \A i \in 1..n : tt[i] = ss[i]
  BY AppendProperties, LenProperties
<1> HIDE DEF tt
<1>2. /\ FlattenSeq(tt) = g[n + 1] /\ g[1] = tt[1]
      /\ \A i \in 2..(n + 1) : g[i] = g[i - 1] \o tt[i]
  <2>1. n + 1 \in Nat \ {0}
    BY <1>1
  <2>2. QED
    BY <1>1, <2>1, FlattenedIs
<1> HIDE DEF g
<1>3. CASE n = 0
  <2>1. ss = <<>>
    BY <1>3, EmptySeq
  <2>2. FlattenSeq(ss) = <<>>
    BY <2>1 DEF FlattenSeq
  <2>3. <<>> \o x = x
    BY ConcatEmptySeq
  <2>4. FlattenSeq(tt) = x
    BY <1>1, <1>2, <1>3
  <2>5. QED
    BY <2>2, <2>3, <2>4 DEF tt
<1>4. CASE n # 0
  <2>1. /\ FlattenSeq(ss) = f[n] /\ f[1] = ss[1]
        /\ \A i \in 2..n : f[i] = f[i - 1] \o ss[i]
    BY <1>1, <1>4, FlattenedIs
  <2> HIDE DEF f
  <2> DEFINE S == {k \in Nat : f[k + 1] = g[k + 1]}
  <2>2. 0 \in S
    BY <1>1, <1>2, <1>4, <2>1
  <2>3. ASSUME NEW k \in 0..((n - 1) - 1), k \in S PROVE k + 1 \in S
    <3>1. (k + 1) + 1 \in 2..n /\ (k + 1) + 1 \in 2..(n + 1) /\ ((k + 1) + 1) - 1 = k + 1
          /\ (k + 1) + 1 \in 1..n
      BY <1>1
    <3>2. f[(k + 1) + 1] = f[k + 1] \o ss[(k + 1) + 1]
      BY <2>1, <3>1
    <3>3. g[(k + 1) + 1] = g[k + 1] \o ss[(k + 1) + 1]
      BY <1>1, <1>2, <3>1
    <3>4. f[k + 1] = g[k + 1] /\ k + 1 \in Nat
      BY <2>3
    <3>5. f[(k + 1) + 1] = g[(k + 1) + 1]
      BY <3>2, <3>3, <3>4
    <3>6. QED
      BY <3>4, <3>5
  <2>4. n - 1 \in S
    <3> HIDE DEF S
    <3>1. n - 1 \in Nat
      BY <1>1, <1>4
    <3>2. \A k \in 0..(n - 1) : k \in S
      BY <2>2, <2>3, <3>1, UpTo
    <3>3. QED
      BY <3>1, <3>2
  <2>5. f[n] = g[n]
    BY <1>1, <2>4
  <2>6. g[n + 1] = g[n] \o x
    <3>1. n + 1 \in 2..(n + 1) /\ (n + 1) - 1 = n
      BY <1>1, <1>4
    <3>2. QED
      BY <1>1, <1>2, <3>1
  <2>7. QED
    BY <1>2, <2>1, <2>5, <2>6 DEF tt
<1>5. QED
  BY <1>3, <1>4

\* Texts flatten to a text.
LEMMA FlattenType ==
  ASSUME NEW V
  PROVE  \A ss \in Seq(Seq(V)) : FlattenSeq(ss) \in Seq(V)
<1> DEFINE P == {ss \in Seq(Seq(V)) : FlattenSeq(ss) \in Seq(V)}
<1>1. <<>> \in P
  <2>1. FlattenSeq(<<>>) = <<>>
    BY DEF FlattenSeq
  <2>2. QED
    BY <2>1, EmptySeq
<1>2. ASSUME NEW ss \in Seq(Seq(V)), NEW x \in Seq(V), ss \in P PROVE Append(ss, x) \in P
  <2>1. FlattenSeq(Append(ss, x)) = FlattenSeq(ss) \o x
    BY <1>2, FlattenAppend
  <2>2. QED
    BY <1>2, <2>1, ConcatProperties, AppendProperties
<1>3. \A ss \in Seq(Seq(V)) : ss \in P
  <2> HIDE DEF P
  <2>1. QED
    BY <1>1, <1>2, ByAppending
<1>4. QED
  BY <1>3

-----------------------------------------------------------------------------
(***************************************************************************)
(* Splitting                                                               *)
(***************************************************************************)

\* The parts after each character of a text.
PartsUpTo(t, c) ==
  CHOOSE f : f = [i \in 0..Len(t) |-> IF i = 0 THEN << <<>> >> ELSE Extended(f[i - 1], t[i], c)]

LEMMA PartsAre ==
  ASSUME NEW t, NEW c, Len(t) \in Nat
  PROVE  /\ Split(t, c) = PartsUpTo(t, c)[Len(t)]
         /\ PartsUpTo(t, c)[0] = << <<>> >>
         /\ \A i \in 1..Len(t) : PartsUpTo(t, c)[i] = Extended(PartsUpTo(t, c)[i - 1], t[i], c)
<1> DEFINE w == Len(t)
           F(i, before) == IF i = 0 THEN << <<>> >> ELSE Extended(before, t[i], c)
           S == {d \in Nat : \E g : \A i \in 0..d : g[i] = F(i, g[i - 1])}
<1> HIDE DEF F
<1>1. 0 \in S
  <2> DEFINE g == [i \in {0} |-> << <<>> >>]
  <2>1. \A i \in 0..0 : g[i] = F(i, g[i - 1])
    BY DEF F
  <2> HIDE DEF g
  <2>2. QED
    BY <2>1
<1>2. ASSUME NEW d \in 0..(w - 1), d \in S PROVE d + 1 \in S
  <2>1. PICK g : \A i \in 0..d : g[i] = F(i, g[i - 1])
    BY <1>2
  <2> DEFINE h == [i \in 0..(d + 1) |-> IF i = d + 1 THEN F(d + 1, g[d]) ELSE g[i]]
  <2>2. ASSUME NEW i \in 0..(d + 1) PROVE h[i] = F(i, h[i - 1])
    <3>1. CASE i = d + 1
      <4>1. i - 1 = d /\ d \in 0..(d + 1) /\ d # d + 1
        BY <3>1
      <4>2. QED
        BY <3>1, <4>1
    <3>2. CASE i # d + 1 /\ i # 0
      <4>1. i \in 0..d /\ i - 1 \in 0..(d + 1) /\ i - 1 # d + 1
        BY <3>2
      <4>2. h[i] = g[i] /\ h[i - 1] = g[i - 1]
        BY <3>2, <4>1
      <4>3. QED
        BY <2>1, <4>1, <4>2
    <3>3. CASE i # d + 1 /\ i = 0
      <4>1. h[i] = g[0] /\ 0 \in 0..d
        BY <3>3
      <4>2. QED
        BY <2>1, <3>3, <4>1 DEF F
    <3>4. QED
      BY <3>1, <3>2, <3>3
  <2> HIDE DEF h
  <2>3. QED
    BY <2>2
<1> HIDE DEF S
<1>3. w \in S
  <2>1. \A n \in 0..w : n \in S
    BY <1>1, <1>2, UpTo
  <2>2. QED
    BY <2>1
<1>4. PICK g : \A i \in 0..w : g[i] = F(i, g[i - 1])
  BY <1>3 DEF S
<1> DEFINE f == [i \in 0..w |-> g[i]]
<1>5. f = [i \in 0..w |-> F(i, f[i - 1])]
  <2>1. ASSUME NEW i \in 0..w PROVE f[i] = F(i, f[i - 1])
    <3>1. CASE i = 0
      BY <1>4, <3>1 DEF F
    <3>2. CASE i # 0
      <4>1. i - 1 \in 0..w
        BY <3>2
      <4>2. QED
        BY <1>4, <4>1
    <3>3. QED
      BY <3>1, <3>2
  <2>2. f = [i \in 0..w |-> f[i]]
    OBVIOUS
  <2> HIDE DEF f
  <2>3. QED
    BY <2>1, <2>2
<1> HIDE DEF f
<1>6. PartsUpTo(t, c) = [i \in 0..w |-> F(i, PartsUpTo(t, c)[i - 1])]
  BY <1>5 DEF PartsUpTo, F
<1>7. \A i \in 0..w : PartsUpTo(t, c)[i] = F(i, PartsUpTo(t, c)[i - 1])
  BY <1>6
<1>8. Split(t, c) = PartsUpTo(t, c)[w]
  BY DEF Split, PartsUpTo
<1>9. PartsUpTo(t, c)[0] = << <<>> >>
  BY <1>7 DEF F
<1>10. ASSUME NEW i \in 1..w PROVE PartsUpTo(t, c)[i] = Extended(PartsUpTo(t, c)[i - 1], t[i], c)
  <2>1. i \in 0..w /\ i # 0
    OBVIOUS
  <2>2. QED
    BY <1>7, <2>1 DEF F
<1>11. QED
  BY <1>8, <1>9, <1>10

\* The empty text has one part, and one character more extends the parts.
LEMMA SplitEmpty == \A c : Split(<<>>, c) = << <<>> >>
<1>1. Len(<<>>) = 0
  OBVIOUS
<1>2. QED
  BY <1>1, PartsAre

LEMMA SplitAppend ==
  ASSUME NEW V, NEW t \in Seq(V), NEW x \in V, NEW c
  PROVE  Split(Append(t, x), c) = Extended(Split(t, c), x, c)
<1> DEFINE n == Len(t)
           u == Append(t, x)
           f == PartsUpTo(t, c)
           g == PartsUpTo(u, c)
           S == {k \in Nat : f[k] = g[k]}
<1>1. /\ n \in Nat /\ Len(u) = n + 1 /\ u[n + 1] = x
      /\ \A i \in 1..n : u[i] = t[i]
  BY AppendProperties, LenProperties
<1> HIDE DEF u
<1>2. /\ Split(t, c) = f[n] /\ f[0] = << <<>> >>
      /\ \A i \in 1..n : f[i] = Extended(f[i - 1], t[i], c)
  BY <1>1, PartsAre
<1>3. /\ Split(u, c) = g[n + 1] /\ g[0] = << <<>> >>
      /\ \A i \in 1..(n + 1) : g[i] = Extended(g[i - 1], u[i], c)
  BY <1>1, PartsAre
<1> HIDE DEF f, g
<1>4. 0 \in S
  BY <1>2, <1>3
<1>5. ASSUME NEW k \in 0..(n - 1), k \in S PROVE k + 1 \in S
  <2>1. k + 1 \in 1..n /\ k + 1 \in 1..(n + 1) /\ (k + 1) - 1 = k /\ k + 1 \in Nat
    BY <1>1
  <2>2. f[k + 1] = Extended(f[k], t[k + 1], c) /\ g[k + 1] = Extended(g[k], t[k + 1], c)
    BY <1>1, <1>2, <1>3, <2>1
  <2>3. f[k] = g[k]
    BY <1>5
  <2>4. QED
    BY <2>1, <2>2, <2>3
<1>6. f[n] = g[n]
  <2> HIDE DEF S
  <2>1. \A k \in 0..n : k \in S
    BY <1>1, <1>4, <1>5, UpTo
  <2>2. n \in S
    BY <1>1, <2>1
  <2>3. QED
    BY <2>2 DEF S
<1>7. g[n + 1] = Extended(g[n], x, c)
  <2>1. n + 1 \in 1..(n + 1) /\ (n + 1) - 1 = n
    BY <1>1
  <2>2. QED
    BY <1>1, <1>3, <2>1
<1>8. QED
  BY <1>2, <1>3, <1>6, <1>7 DEF u

\* The last part of a split text, and that part with more at its end.
Grown(parts, u) == [parts EXCEPT ![Len(parts)] = @ \o u]

\* A text without a character.
Free(u, c) == \A i \in 1..Len(u) : u[i] # c

LEMMA AppendFree ==
  ASSUME NEW V, NEW u \in Seq(V), NEW x \in V, NEW c
  PROVE  Free(Append(u, x), c) <=> Free(u, c) /\ x # c
<1> DEFINE n == Len(u)
           t == Append(u, x)
<1>1. /\ n \in Nat /\ Len(t) = n + 1 /\ t[n + 1] = x
      /\ \A i \in 1..n : t[i] = u[i]
  BY AppendProperties, LenProperties
<1> HIDE DEF t
<1>2. Free(t, c) => Free(u, c) /\ x # c
  <2>1. 1..n \subseteq 1..(n + 1) /\ n + 1 \in 1..(n + 1)
    BY <1>1
  <2>2. QED
    BY <1>1, <2>1 DEF Free
<1>3. Free(u, c) /\ x # c => Free(t, c)
  <2>1. \A i \in 1..(n + 1) : i \in 1..n \/ i = n + 1
    BY <1>1
  <2>2. QED
    BY <1>1, <2>1 DEF Free
<1>4. QED
  BY <1>2, <1>3 DEF t

LEMMA ConcatFree ==
  ASSUME NEW V, NEW s \in Seq(V), NEW t \in Seq(V), NEW c, Free(s, c), Free(t, c)
  PROVE  Free(s \o t, c)
<1>1. /\ Len(s) \in Nat /\ Len(t) \in Nat /\ Len(s \o t) = Len(s) + Len(t)
      /\ \A i \in 1..(Len(s) + Len(t)) : (s \o t)[i] = IF i <= Len(s) THEN s[i] ELSE t[i - Len(s)]
  BY ConcatProperties, LenProperties
<1>2. ASSUME NEW i \in 1..(Len(s) + Len(t)) PROVE (s \o t)[i] # c
  <2>1. CASE i <= Len(s)
    BY <1>1, <2>1 DEF Free
  <2>2. CASE ~(i <= Len(s))
    <3>1. i - Len(s) \in 1..Len(t)
      BY <1>1, <2>2
    <3>2. QED
      BY <1>1, <2>2, <3>1 DEF Free
  <2>3. QED
    BY <2>1, <2>2
<1>3. QED
  BY <1>1, <1>2 DEF Free

LEMMA FlattenFree ==
  ASSUME NEW V, NEW c
  PROVE  \A ss \in Seq(Seq(V)) :
           (\A i \in 1..Len(ss) : Free(ss[i], c)) => Free(FlattenSeq(ss), c)
<1> DEFINE P == {ss \in Seq(Seq(V)) :
                   (\A i \in 1..Len(ss) : Free(ss[i], c)) => Free(FlattenSeq(ss), c)}
<1>1. <<>> \in P
  <2>1. FlattenSeq(<<>>) = <<>> /\ <<>> \in Seq(Seq(V)) /\ Len(<<>>) = 0
    BY EmptySeq DEF FlattenSeq
  <2>2. QED
    BY <2>1 DEF Free
<1>2. ASSUME NEW ss \in Seq(Seq(V)), NEW x \in Seq(V), ss \in P PROVE Append(ss, x) \in P
  <2> DEFINE tt == Append(ss, x)
  <2>1. /\ tt \in Seq(Seq(V)) /\ Len(ss) \in Nat /\ Len(tt) = Len(ss) + 1
        /\ tt[Len(ss) + 1] = x /\ \A i \in 1..Len(ss) : tt[i] = ss[i]
    BY AppendProperties, LenProperties
  <2>2. FlattenSeq(ss) \in Seq(V) /\ FlattenSeq(tt) = FlattenSeq(ss) \o x
    BY FlattenType, FlattenAppend
  <2> HIDE DEF tt
  <2>3. ASSUME \A i \in 1..Len(tt) : Free(tt[i], c) PROVE Free(FlattenSeq(tt), c)
    <3>1. Free(x, c) /\ \A i \in 1..Len(ss) : Free(ss[i], c)
      <4>1. 1..Len(ss) \subseteq 1..Len(tt) /\ Len(ss) + 1 \in 1..Len(tt)
        BY <2>1
      <4>2. QED
        BY <2>1, <2>3, <4>1
    <3>2. Free(FlattenSeq(ss), c)
      BY <1>2, <3>1
    <3>3. QED
      BY <2>2, <3>1, <3>2, ConcatFree
  <2>4. QED
    BY <2>1, <2>3 DEF tt
<1> HIDE DEF P
<1>3. \A ss \in Seq(Seq(V)) : ss \in P
  BY <1>1, <1>2, ByAppending
<1>4. QED
  BY <1>3 DEF P

LEMMA ExtendedType ==
  ASSUME NEW V, NEW parts \in Seq(Seq(V)), parts # <<>>, NEW x \in V, NEW c
  PROVE  Extended(parts, x, c) \in Seq(Seq(V)) /\ Extended(parts, x, c) # <<>>
<1> DEFINE n == Len(parts)
<1>1. n \in 1..n /\ n \in Nat \ {0}
  BY EmptySeq
<1>2. CASE x = c
  <2>1. <<>> \in Seq(V)
    BY EmptySeq
  <2>2. QED
    BY <1>2, <2>1, AppendProperties DEF Extended
<1>3. CASE x # c
  <2>1. parts[n] \in Seq(V)
    BY <1>1, ElementOfSeq
  <2> DEFINE y == Append(parts[n], x)
  <2>2. y \in Seq(V)
    BY <2>1, AppendProperties
  <2>3. Extended(parts, x, c) = [parts EXCEPT ![n] = y]
    BY <1>3 DEF Extended
  <2> HIDE DEF y
  <2>4. Extended(parts, x, c) \in Seq(Seq(V)) /\ Len(Extended(parts, x, c)) = n
    BY <1>1, <2>2, <2>3, ExceptSeq
  <2>5. QED
    BY <1>1, <2>4
<1>4. QED
  BY <1>2, <1>3

LEMMA SplitType ==
  ASSUME NEW V, NEW c
  PROVE  \A t \in Seq(V) : Split(t, c) \in Seq(Seq(V)) /\ Split(t, c) # <<>>
<1> DEFINE P == {t \in Seq(V) : Split(t, c) \in Seq(Seq(V)) /\ Split(t, c) # <<>>}
<1>1. <<>> \in P
  <2>1. <<>> \in Seq(V)
    BY EmptySeq
  <2>2. << <<>> >> \in Seq(Seq(V)) /\ << <<>> >> # <<>>
    BY <2>1
  <2>3. QED
    BY <2>1, <2>2, SplitEmpty
<1>2. ASSUME NEW t \in Seq(V), NEW x \in V, t \in P PROVE Append(t, x) \in P
  <2>1. Split(Append(t, x), c) = Extended(Split(t, c), x, c)
    BY SplitAppend
  <2>2. QED
    BY <1>2, <2>1, ExtendedType, AppendProperties
<1> HIDE DEF P
<1>3. \A t \in Seq(V) : t \in P
  BY <1>1, <1>2, ByAppending
<1>4. QED
  BY <1>3 DEF P

\* The parts with nothing more, and with one character more.
LEMMA GrownIs ==
  ASSUME NEW V, NEW parts \in Seq(Seq(V)), parts # <<>>, NEW u \in Seq(V)
  PROVE  /\ Grown(parts, <<>>) = parts
         /\ Grown(parts, u) \in Seq(Seq(V)) /\ Grown(parts, u) # <<>>
         /\ Len(Grown(parts, u)) = Len(parts)
         /\ \A i \in 1..Len(parts) :
              Grown(parts, u)[i] = IF i = Len(parts) THEN parts[i] \o u ELSE parts[i]
<1> DEFINE n == Len(parts)
<1>1. n \in Nat \ {0} /\ n \in 1..n
  BY EmptySeq
<1>2. parts[n] \in Seq(V)
  BY <1>1, ElementOfSeq
<1> DEFINE y == parts[n] \o u
<1>3. y \in Seq(V) /\ parts[n] \o <<>> = parts[n]
  BY <1>2, ConcatProperties, ConcatEmptySeq
<1>4. Grown(parts, u) = [parts EXCEPT ![n] = y]
  BY DEF Grown
<1> HIDE DEF y
<1>5. /\ Grown(parts, u) \in Seq(Seq(V)) /\ Len(Grown(parts, u)) = n
      /\ \A i \in 1..n : Grown(parts, u)[i] = IF i = n THEN y ELSE parts[i]
  BY <1>1, <1>3, <1>4, ExceptSeq
<1>6. Grown(parts, u) # <<>>
  BY <1>1, <1>5
<1>7. Grown(parts, <<>>) = parts
  <2>1. Grown(parts, <<>>) = [parts EXCEPT ![n] = parts[n]]
    BY <1>3 DEF Grown
  <2> DEFINE g == [parts EXCEPT ![n] = parts[n]]
  <2>2. /\ g \in Seq(Seq(V)) /\ Len(g) = n
        /\ \A i \in 1..n : g[i] = IF i = n THEN parts[n] ELSE parts[i]
    BY <1>1, <1>2, ExceptSeq
  <2> HIDE DEF g
  <2>3. \A i \in 1..n : g[i] = parts[i]
    BY <2>2
  <2>4. g = parts
    BY <2>2, <2>3, SeqEqual
  <2>5. QED
    BY <2>1, <2>4 DEF g
<1>8. QED
  BY <1>1, <1>5, <1>6, <1>7 DEF y

LEMMA ConcatAppend ==
  ASSUME NEW V, NEW p \in Seq(V), NEW u \in Seq(V), NEW x \in V
  PROVE  /\ p \o Append(u, x) = Append(p \o u, x)
         /\ p \o u \in Seq(V) /\ Append(p \o u, x) \in Seq(V) /\ Append(u, x) \in Seq(V)
<1> DEFINE one == <<x>>
<1>1. one \in Seq(V) /\ Append(u, x) = u \o one /\ Append(u, x) \in Seq(V)
  BY AppendIsConcat, AppendProperties
<1>2. p \o u \in Seq(V)
  BY ConcatProperties
<1>3. Append(p \o u, x) = (p \o u) \o one /\ Append(p \o u, x) \in Seq(V)
  BY <1>2, AppendIsConcat, AppendProperties
<1> HIDE DEF one
<1>4. (p \o u) \o one = p \o (u \o one)
  BY <1>1, ConcatAssociative
<1>5. QED
  BY <1>1, <1>2, <1>3, <1>4

LEMMA GrownOnce ==
  ASSUME NEW V, NEW parts \in Seq(Seq(V)), parts # <<>>,
         NEW u \in Seq(V), NEW x \in V, NEW c, x # c
  PROVE  Extended(Grown(parts, u), x, c) = Grown(parts, Append(u, x))
<1> DEFINE n == Len(parts)
           p == parts[n]
           v == Append(u, x)
           g == Grown(parts, u)
           e == Extended(g, x, c)
           h == Grown(parts, v)
<1>1. n \in Nat \ {0} /\ n \in 1..n /\ v \in Seq(V)
  BY EmptySeq, AppendProperties
<1>2. p \in Seq(V)
  BY <1>1, ElementOfSeq
<1>3. p \o v = Append(p \o u, x) /\ p \o u \in Seq(V) /\ Append(p \o u, x) \in Seq(V)
  <2> HIDE DEF p
  <2>1. QED
    BY <1>2, ConcatAppend
<1> HIDE DEF v
<1>4. /\ g \in Seq(Seq(V)) /\ Len(g) = n
      /\ \A i \in 1..n : g[i] = IF i = n THEN parts[i] \o u ELSE parts[i]
  BY GrownIs
<1>5. /\ h \in Seq(Seq(V)) /\ Len(h) = n
      /\ \A i \in 1..n : h[i] = IF i = n THEN parts[i] \o v ELSE parts[i]
  BY <1>1, GrownIs
<1> HIDE DEF g, h
<1> DEFINE y == Append(p \o u, x)
<1>6. g[n] = p \o u
  BY <1>1, <1>4
<1>7. y \in Seq(V) /\ e = [g EXCEPT ![n] = y] /\ y = p \o v
  BY <1>3, <1>4, <1>6 DEF Extended
<1> HIDE DEF y, e
<1>8. /\ e \in Seq(Seq(V)) /\ Len(e) = n
      /\ \A i \in 1..n : e[i] = IF i = n THEN y ELSE g[i]
  BY <1>1, <1>4, <1>7, ExceptSeq
<1>9. \A i \in 1..n : e[i] = h[i]
  BY <1>4, <1>5, <1>7, <1>8
<1>10. e = h
  BY <1>5, <1>8, <1>9, SeqEqual
<1>11. QED
  BY <1>10 DEF e, g, h, v

\* What has no character of the split belongs to the last part.
LEMMA SplitConcat ==
  ASSUME NEW V, NEW t \in Seq(V), NEW c
  PROVE  \A u \in Seq(V) : Free(u, c) => Split(t \o u, c) = Grown(Split(t, c), u)
<1> DEFINE P == {u \in Seq(V) : Free(u, c) => Split(t \o u, c) = Grown(Split(t, c), u)}
<1>1. Split(t, c) \in Seq(Seq(V)) /\ Split(t, c) # <<>>
  BY SplitType
<1>2. <<>> \in P
  <2>1. <<>> \in Seq(V) /\ t \o <<>> = t
    BY EmptySeq, ConcatEmptySeq
  <2>2. Grown(Split(t, c), <<>>) = Split(t, c)
    BY <1>1, <2>1, GrownIs
  <2>3. QED
    BY <2>1, <2>2
<1>3. ASSUME NEW u \in Seq(V), NEW x \in V, u \in P PROVE Append(u, x) \in P
  <2>1. Append(u, x) \in Seq(V) /\ t \o u \in Seq(V)
    BY ConcatAppend
  <2>2. t \o Append(u, x) = Append(t \o u, x)
    BY ConcatAppend
  <2>3. ASSUME Free(Append(u, x), c)
        PROVE  Split(t \o Append(u, x), c) = Grown(Split(t, c), Append(u, x))
    <3>1. Free(u, c) /\ x # c
      BY <2>3, AppendFree
    <3>2. Split(t \o u, c) = Grown(Split(t, c), u)
      BY <1>3, <3>1
    <3>3. Split(Append(t \o u, x), c) = Extended(Split(t \o u, c), x, c)
      BY <2>1, SplitAppend
    <3>4. QED
      BY <1>1, <2>2, <3>1, <3>2, <3>3, GrownOnce
  <2>4. QED
    BY <2>1, <2>3
<1> HIDE DEF P
<1>4. \A u \in Seq(V) : u \in P
  BY <1>2, <1>3, ByAppending
<1>5. QED
  BY <1>4 DEF P

\* A new part.
LEMMA SplitPart ==
  ASSUME NEW V, NEW c \in V, NEW t \in Seq(V), NEW x \in Seq(V), Free(x, c)
  PROVE  Split(t \o (<<c>> \o x), c) = Append(Split(t, c), x)
<1> DEFINE parts == Split(t, c)
           nil == <<>>
           more == Append(parts, nil)
           tc == Append(t, c)
           n == Len(parts)
<1>1. parts \in Seq(Seq(V)) /\ parts # <<>> /\ n \in Nat \ {0}
  BY SplitType, EmptySeq
<1>2. /\ t \o (<<c>> \o x) = tc \o x /\ tc \in Seq(V)
  <2> DEFINE one == <<c>>
  <2>1. one \in Seq(V) /\ tc = t \o one /\ tc \in Seq(V)
    BY AppendIsConcat, AppendProperties
  <2> HIDE DEF one, tc
  <2>2. (t \o one) \o x = t \o (one \o x)
    BY <2>1, ConcatAssociative
  <2>3. QED
    BY <2>1, <2>2 DEF one
<1>3. Split(tc, c) = more
  BY SplitAppend DEF Extended, parts
<1>8. nil \in Seq(V) /\ nil \o x = x
  BY EmptySeq, ConcatEmptySeq
<1> HIDE DEF parts, nil, tc
<1>4. /\ more \in Seq(Seq(V)) /\ more # <<>> /\ Len(more) = n + 1 /\ more[n + 1] = nil
      /\ \A i \in 1..n : more[i] = parts[i]
  <2> HIDE DEF n
  <2>1. Len(parts) = n
    BY DEF n
  <2> DEFINE W == Seq(V)
  <2>2. parts \in Seq(W) /\ nil \in W
    BY <1>1, <1>8
  <2> HIDE DEF W
  <2>3. /\ more \in Seq(W) /\ more # <<>> /\ Len(more) = Len(parts) + 1
        /\ \A i \in 1..Len(parts) : more[i] = parts[i]
        /\ more[Len(parts) + 1] = nil
    BY <2>2, AppendProperties
  <2>4. QED
    BY <2>1, <2>3 DEF W
<1>5. Split(t \o (<<c>> \o x), c) = Grown(more, x)
  <2>1. Split(tc \o x, c) = Grown(Split(tc, c), x)
    BY <1>2, SplitConcat
  <2>2. QED
    BY <1>2, <1>3, <2>1
<1> HIDE DEF more
<1>6. /\ Grown(more, x) \in Seq(Seq(V)) /\ Len(Grown(more, x)) = n + 1
      /\ \A i \in 1..(n + 1) : Grown(more, x)[i] = IF i = n + 1 THEN more[i] \o x ELSE more[i]
  <2> DEFINE m == Len(more)
  <2>1. m = n + 1
    BY <1>4
  <2>2. /\ Grown(more, x) \in Seq(Seq(V)) /\ Len(Grown(more, x)) = m
        /\ \A i \in 1..m : Grown(more, x)[i] = IF i = m THEN more[i] \o x ELSE more[i]
    BY <1>4, GrownIs
  <2> HIDE DEF m
  <2>3. QED
    BY <2>1, <2>2
<1> DEFINE a == Append(parts, x)
<1>7. /\ a \in Seq(Seq(V)) /\ Len(a) = n + 1 /\ a[n + 1] = x
      /\ \A i \in 1..n : a[i] = parts[i]
  BY <1>1, AppendProperties
<1> HIDE DEF a
<1>9. ASSUME NEW i \in 1..(n + 1) PROVE Grown(more, x)[i] = a[i]
  <2>1. CASE i = n + 1
    BY <1>4, <1>6, <1>7, <1>8, <2>1
  <2>2. CASE i # n + 1
    <3>1. i \in 1..n
      BY <1>1, <2>2
    <3>2. QED
      BY <1>4, <1>6, <1>7, <2>2, <3>1
  <2>3. QED
    BY <2>1, <2>2
<1>10. Grown(more, x) = a
  BY <1>6, <1>7, <1>9, SeqEqual
<1>11. QED
  BY <1>5, <1>10 DEF a, parts

-----------------------------------------------------------------------------
(***************************************************************************)
(* Joining                                                                 *)
(***************************************************************************)

\* Texts with a character before each, and with one between any two.
Led(ps, c) == [i \in DOMAIN ps |-> <<c>> \o ps[i]]
Joined(ps, c) == [i \in DOMAIN ps |-> (IF i = 1 THEN <<>> ELSE <<c>>) \o ps[i]]

LEMMA LedIs ==
  ASSUME NEW V, NEW c \in V, NEW ps \in Seq(Seq(V))
  PROVE  /\ Led(ps, c) \in Seq(Seq(V)) /\ Len(Led(ps, c)) = Len(ps)
         /\ \A i \in 1..Len(ps) : Led(ps, c)[i] = <<c>> \o ps[i]
<1> DEFINE n == Len(ps)
           W == Seq(V)
           d == Led(ps, c)
<1>1. n \in Nat /\ DOMAIN ps = 1..n
  BY LenProperties
<1>2. \A i \in 1..n : <<c>> \o ps[i] \in W
  <2>1. SUFFICES ASSUME NEW i \in 1..n PROVE <<c>> \o ps[i] \in W
    OBVIOUS
  <2>2. ps[i] \in Seq(V) /\ <<c>> \in Seq(V)
    BY ElementOfSeq
  <2>3. QED
    BY <2>2, ConcatProperties
<1>3. d = [i \in 1..n |-> <<c>> \o ps[i]]
  BY <1>1 DEF Led
<1> HIDE DEF n, W, d
<1>4. d \in [1..n -> W]
  BY <1>2, <1>3
<1>5. d \in Seq(W) /\ Len(d) = n
  BY <1>1, <1>4
<1>6. \A i \in 1..n : d[i] = <<c>> \o ps[i]
  BY <1>3
<1>7. QED
  BY <1>5, <1>6 DEF n, W, d

LEMMA JoinedIs ==
  ASSUME NEW V, NEW c \in V, NEW ps \in Seq(Seq(V))
  PROVE  /\ Joined(ps, c) \in Seq(Seq(V)) /\ Len(Joined(ps, c)) = Len(ps)
         /\ \A i \in 1..Len(ps) : Joined(ps, c)[i] = IF i = 1 THEN ps[i] ELSE <<c>> \o ps[i]
<1> DEFINE n == Len(ps)
           W == Seq(V)
           d == Joined(ps, c)
           E(i) == IF i = 1 THEN ps[i] ELSE <<c>> \o ps[i]
<1>1. n \in Nat /\ DOMAIN ps = 1..n
  BY LenProperties
<1>2. ASSUME NEW i \in 1..n
      PROVE  E(i) \in W /\ (IF i = 1 THEN <<>> ELSE <<c>>) \o ps[i] = E(i)
  <2>1. ps[i] \in Seq(V) /\ <<c>> \in Seq(V)
    BY ElementOfSeq
  <2>2. <<c>> \o ps[i] \in Seq(V) /\ <<>> \o ps[i] = ps[i]
    BY <2>1, ConcatProperties, ConcatEmptySeq
  <2>3. CASE i = 1
    BY <2>1, <2>2, <2>3
  <2>4. CASE i # 1
    BY <2>1, <2>2, <2>4
  <2>5. QED
    BY <2>3, <2>4
<1>3. d = [i \in 1..n |-> (IF i = 1 THEN <<>> ELSE <<c>>) \o ps[i]]
  BY <1>1 DEF Joined
<1> HIDE DEF n, W, d, E
<1>4. d = [i \in 1..n |-> E(i)]
  BY <1>2, <1>3
<1>5. d \in [1..n -> W]
  BY <1>2, <1>4
<1>6. d \in Seq(W) /\ Len(d) = n
  BY <1>1, <1>5
<1>7. \A i \in 1..n : d[i] = E(i)
  BY <1>4
<1>8. QED
  BY <1>6, <1>7 DEF n, W, d, E

\* One text more.
LEMMA LedAppend ==
  ASSUME NEW V, NEW c \in V, NEW ps \in Seq(Seq(V)), NEW x \in Seq(V)
  PROVE  /\ Led(Append(ps, x), c) = Append(Led(ps, c), <<c>> \o x)
         /\ <<c>> \o x \in Seq(V)
<1> DEFINE n == Len(ps)
           qs == Append(ps, x)
           y == <<c>> \o x
           a == Led(qs, c)
           d == Led(ps, c)
           b == Append(d, y)
<1>1. n \in Nat /\ qs \in Seq(Seq(V)) /\ Len(qs) = n + 1 /\ qs[n + 1] = x
      /\ \A i \in 1..n : qs[i] = ps[i]
  BY AppendProperties, LenProperties
<1>2. y \in Seq(V)
  <2>1. <<c>> \in Seq(V)
    OBVIOUS
  <2>2. QED
    BY <2>1, ConcatProperties
<1> HIDE DEF qs
<1>3. a \in Seq(Seq(V)) /\ Len(a) = n + 1 /\ \A i \in 1..(n + 1) : a[i] = <<c>> \o qs[i]
  <2> DEFINE m == Len(qs)
  <2>1. a \in Seq(Seq(V)) /\ Len(a) = m /\ \A i \in 1..m : a[i] = <<c>> \o qs[i]
    BY <1>1, LedIs
  <2>2. m = n + 1
    BY <1>1
  <2> HIDE DEF m
  <2>3. QED
    BY <2>1, <2>2
<1>4. d \in Seq(Seq(V)) /\ Len(d) = n /\ \A i \in 1..n : d[i] = <<c>> \o ps[i]
  BY LedIs
<1> HIDE DEF a, d
<1>5. a[n + 1] = y
  BY SMTT(40), <1>1, <1>3
<1> HIDE DEF y
<1>6. b \in Seq(Seq(V)) /\ Len(b) = n + 1 /\ b[n + 1] = y /\ \A i \in 1..n : b[i] = d[i]
  BY <1>2, <1>4, AppendProperties
<1> HIDE DEF b
<1>7. ASSUME NEW i \in 1..(n + 1) PROVE a[i] = b[i]
  <2>1. CASE i = n + 1
    BY <1>5, <1>6, <2>1
  <2>2. CASE i # n + 1
    <3>1. i \in 1..n
      BY <1>1, <2>2
    <3>2. QED
      BY <1>1, <1>3, <1>4, <1>6, <3>1
  <2>3. QED
    BY <2>1, <2>2
<1>8. a = b
  BY <1>3, <1>6, <1>7, SeqEqual
<1>9. QED
  BY <1>2, <1>8 DEF a, b, d, y, qs

LEMMA JoinedAppend ==
  ASSUME NEW V, NEW c \in V, NEW ps \in Seq(Seq(V)), NEW x \in Seq(V)
  PROVE  Joined(Append(ps, x), c) =
           Append(Joined(ps, c), IF ps = <<>> THEN x ELSE <<c>> \o x)
<1> DEFINE n == Len(ps)
           qs == Append(ps, x)
           y == IF ps = <<>> THEN x ELSE <<c>> \o x
           a == Joined(qs, c)
           d == Joined(ps, c)
           b == Append(d, y)
<1>1. n \in Nat /\ qs \in Seq(Seq(V)) /\ Len(qs) = n + 1 /\ qs[n + 1] = x
      /\ \A i \in 1..n : qs[i] = ps[i]
  BY AppendProperties, LenProperties
<1>2. y \in Seq(V) /\ (n = 0 => y = x) /\ (n # 0 => y = <<c>> \o x)
  <2>1. <<c>> \in Seq(V)
    OBVIOUS
  <2>2. <<c>> \o x \in Seq(V)
    BY <2>1, ConcatProperties
  <2>3. ps = <<>> <=> n = 0
    BY EmptySeq
  <2>4. QED
    BY <2>2, <2>3
<1> HIDE DEF qs
<1>3. a \in Seq(Seq(V)) /\ Len(a) = n + 1
      /\ \A i \in 1..(n + 1) : a[i] = IF i = 1 THEN qs[i] ELSE <<c>> \o qs[i]
  <2> DEFINE m == Len(qs)
  <2>1. a \in Seq(Seq(V)) /\ Len(a) = m
        /\ \A i \in 1..m : a[i] = IF i = 1 THEN qs[i] ELSE <<c>> \o qs[i]
    BY <1>1, JoinedIs
  <2>2. m = n + 1
    BY <1>1
  <2> HIDE DEF m
  <2>3. QED
    BY <2>1, <2>2
<1>4. d \in Seq(Seq(V)) /\ Len(d) = n
      /\ \A i \in 1..n : d[i] = IF i = 1 THEN ps[i] ELSE <<c>> \o ps[i]
  BY JoinedIs
<1> HIDE DEF a, d, y
<1>5. a[n + 1] = y
  <2>1. n + 1 \in 1..(n + 1) /\ (n + 1 = 1 <=> n = 0)
    BY <1>1
  <2>2. CASE n = 0
    BY <1>1, <1>2, <1>3, <2>1, <2>2
  <2>3. CASE n # 0
    BY <1>1, <1>2, <1>3, <2>1, <2>3
  <2>4. QED
    BY <2>2, <2>3
<1>6. b \in Seq(Seq(V)) /\ Len(b) = n + 1 /\ b[n + 1] = y /\ \A i \in 1..n : b[i] = d[i]
  BY <1>2, <1>4, AppendProperties
<1> HIDE DEF b
<1>7. ASSUME NEW i \in 1..(n + 1) PROVE a[i] = b[i]
  <2>1. CASE i = n + 1
    BY <1>5, <1>6, <2>1
  <2>2. CASE i # n + 1
    <3>1. i \in 1..n
      BY <1>1, <2>2
    <3>2. QED
      BY ZenonT(40), <1>1, <1>3, <1>4, <1>6, <3>1
  <2>3. QED
    BY <2>1, <2>2
<1>8. a = b
  BY <1>3, <1>6, <1>7, SeqEqual
<1>9. QED
  BY <1>8 DEF a, b, d, y, qs

\* Three texts in a row.
LEMMA ConcatThree ==
  ASSUME NEW V, NEW s \in Seq(V), NEW t \in Seq(V), NEW u \in Seq(V)
  PROVE  /\ (s \o t) \o u = s \o (t \o u)
         /\ s \o t \in Seq(V) /\ t \o u \in Seq(V) /\ (s \o t) \o u \in Seq(V)
<1>1. (s \o t) \o u = s \o (t \o u)
  BY ConcatAssociative
<1>2. s \o t \in Seq(V)
  BY ConcatProperties
<1>3. t \o u \in Seq(V)
  BY ConcatProperties
<1>4. (s \o t) \o u \in Seq(V)
  BY <1>2, ConcatProperties
<1>5. QED
  BY <1>1, <1>2, <1>3, <1>4

\* A text without the character is one part.
LEMMA SplitFree ==
  ASSUME NEW V, NEW u \in Seq(V), NEW c, Free(u, c)
  PROVE  Split(u, c) = <<u>>
<1> DEFINE nil == <<>>
           one == <<nil>>
           g == Grown(one, u)
<1>1. nil \in Seq(V) /\ nil \o u = u
  BY EmptySeq, ConcatEmptySeq
<1>2. Split(nil, c) = one
  BY SplitEmpty
<1>3. Split(nil \o u, c) = Grown(Split(nil, c), u)
  <2> HIDE DEF nil, one, g
  <2>1. \A v \in Seq(V) : Free(v, c) => Split(nil \o v, c) = Grown(Split(nil, c), v)
    BY <1>1, SplitConcat
  <2>2. QED
    BY <2>1
<1>4. one \in Seq(Seq(V)) /\ one # <<>> /\ Len(one) = 1 /\ one[1] = nil
  <2> HIDE DEF nil
  <2>1. QED
    BY <1>1
<1> HIDE DEF nil, one
<1>5. g \in Seq(Seq(V)) /\ Len(g) = 1 /\ g[1] = one[1] \o u
  <2>1. /\ g \in Seq(Seq(V)) /\ Len(g) = Len(one)
        /\ \A i \in 1..Len(one) : g[i] = IF i = Len(one) THEN one[i] \o u ELSE one[i]
    BY <1>4, GrownIs
  <2> HIDE DEF g
  <2>2. QED
    BY <1>4, <2>1
<1>6. g = <<u>>
  <2> HIDE DEF g
  <2>1. g[1] = u
    BY <1>1, <1>4, <1>5
  <2> DEFINE w == <<u>>
  <2>2. w \in Seq(Seq(V)) /\ Len(w) = 1 /\ w[1] = u
    OBVIOUS
  <2> HIDE DEF w
  <2>3. \A i \in 1..1 : g[i] = w[i]
    BY <2>1, <2>2
  <2>4. g = w
    BY <1>5, <2>2, <2>3, SeqEqual
  <2>5. QED
    BY <2>4 DEF w
<1>7. QED
  BY <1>1, <1>2, <1>3, <1>6

\* All texts of a sequence are without the character.
AllFree(ps, c) == \A i \in 1..Len(ps) : Free(ps[i], c)

LEMMA AllFreeAppend ==
  ASSUME NEW V, NEW ps \in Seq(Seq(V)), NEW x \in Seq(V), NEW c, AllFree(Append(ps, x), c)
  PROVE  AllFree(ps, c) /\ Free(x, c)
<1> DEFINE n == Len(ps)
           qs == Append(ps, x)
<1>1. /\ n \in Nat /\ Len(qs) = n + 1 /\ qs[n + 1] = x
      /\ \A i \in 1..n : qs[i] = ps[i]
  BY AppendProperties, LenProperties
<1>2. \A i \in 1..Len(qs) : Free(qs[i], c)
  BY DEF AllFree
<1> HIDE DEF qs
<1>3. n + 1 \in 1..Len(qs) /\ \A i \in 1..n : i \in 1..Len(qs)
  BY <1>1
<1>4. QED
  BY <1>1, <1>2, <1>3 DEF AllFree

\* No text.
LEMMA NoTexts ==
  \A c : Led(<<>>, c) = <<>> /\ Joined(<<>>, c) = <<>> /\ FlattenSeq(<<>>) = <<>>
<1>1. DOMAIN <<>> = {}
  OBVIOUS
<1>2. \A c : Led(<<>>, c) = <<>> /\ Joined(<<>>, c) = <<>>
  BY <1>1 DEF Led, Joined
<1>3. FlattenSeq(<<>>) = <<>>
  BY DEF FlattenSeq
<1>4. QED
  BY <1>2, <1>3

\* What is led by a character is split by it.
LEMMA SplitLed ==
  ASSUME NEW V, NEW c \in V, NEW u \in Seq(V), Free(u, c)
  PROVE  \A ps \in Seq(Seq(V)) : AllFree(ps, c) => Split(u \o FlattenSeq(Led(ps, c)), c) = <<u>> \o ps
<1> DEFINE W == Seq(V)
           P == {ps \in Seq(W) : AllFree(ps, c) => Split(u \o FlattenSeq(Led(ps, c)), c) = <<u>> \o ps}
           nil == <<>>
           one == <<u>>
<1>1. nil \in P
  <2>1. u \o nil = u /\ one \o nil = one /\ nil \in Seq(W)
    BY EmptySeq, ConcatEmptySeq
  <2>2. FlattenSeq(Led(nil, c)) = nil
    BY NoTexts
  <2>3. Split(u, c) = one
    BY SplitFree
  <2> HIDE DEF nil, one
  <2>4. QED
    BY <2>1, <2>2, <2>3 DEF one
<1>2. ASSUME NEW ps \in Seq(W), NEW x \in W, ps \in P PROVE Append(ps, x) \in P
  <2> DEFINE F == FlattenSeq(Led(ps, c))
             y == <<c>> \o x
  <2>1. Led(Append(ps, x), c) = Append(Led(ps, c), y) /\ y \in Seq(V)
    BY LedAppend
  <2>2. Led(ps, c) \in Seq(Seq(V)) /\ F \in Seq(V)
    BY LedIs, FlattenType
  <2>3. FlattenSeq(Append(Led(ps, c), y)) = F \o y
    <3> HIDE DEF y
    <3>1. QED
      BY <2>1, <2>2, FlattenAppend
  <2>4. u \o F \in Seq(V) /\ u \o (F \o y) = (u \o F) \o y
    <3> HIDE DEF y, F, P, W, nil, one
    <3>1. QED
      BY SMTT(40), <2>1, <2>2, ConcatThree
  <2>5. Append(ps, x) \in Seq(W)
    BY AppendProperties
  <2>6. ASSUME AllFree(Append(ps, x), c)
        PROVE  Split(u \o FlattenSeq(Led(Append(ps, x), c)), c) = one \o Append(ps, x)
    <3>1. AllFree(ps, c) /\ Free(x, c)
      BY <2>6, AllFreeAppend
    <3>2. Split(u \o F, c) = one \o ps
      BY <1>2, <3>1
    <3>3. Split((u \o F) \o y, c) = Append(Split(u \o F, c), x)
      <4> HIDE DEF F
      <4>1. QED
        BY <2>4, <3>1, SplitPart
    <3>4. one \o Append(ps, x) = Append(one \o ps, x)
      <4>1. one \in Seq(W)
        OBVIOUS
      <4> HIDE DEF one, W
      <4>2. QED
        BY <4>1, ConcatAppend
    <3> HIDE DEF F, y, one
    <3>5. QED
      BY <2>1, <2>3, <2>4, <3>2, <3>3, <3>4
  <2>7. QED
    BY <2>5, <2>6
<1>3. \A ps \in Seq(W) : ps \in P
  <2> HIDE DEF P, W
  <2>1. QED
    BY <1>1, <1>2, ByAppending
<1>4. QED
  BY <1>3

\* What is joined by a character is split by it.
LEMMA SplitJoined ==
  ASSUME NEW V, NEW c \in V
  PROVE  \A ps \in Seq(Seq(V)) :
           ps # <<>> /\ AllFree(ps, c) => Split(FlattenSeq(Joined(ps, c)), c) = ps
<1> DEFINE W == Seq(V)
           P == {ps \in Seq(W) : ps # <<>> /\ AllFree(ps, c) => Split(FlattenSeq(Joined(ps, c)), c) = ps}
<1>1. <<>> \in P
  BY EmptySeq
<1>2. ASSUME NEW ps \in Seq(W), NEW x \in W, ps \in P PROVE Append(ps, x) \in P
  <2> DEFINE F == FlattenSeq(Joined(ps, c))
             y == IF ps = <<>> THEN x ELSE <<c>> \o x
  <2>1. Joined(Append(ps, x), c) = Append(Joined(ps, c), y)
    BY JoinedAppend
  <2>2. Joined(ps, c) \in Seq(Seq(V)) /\ F \in Seq(V)
    BY JoinedIs, FlattenType
  <2>3. y \in Seq(V)
    BY LedAppend
  <2>4. FlattenSeq(Append(Joined(ps, c), y)) = F \o y
    <3> HIDE DEF y
    <3>1. QED
      BY <2>2, <2>3, FlattenAppend
  <2>5. Append(ps, x) \in Seq(W)
    BY AppendProperties
  <2>6. ASSUME AllFree(Append(ps, x), c)
        PROVE  Split(FlattenSeq(Joined(Append(ps, x), c)), c) = Append(ps, x)
    <3>1. AllFree(ps, c) /\ Free(x, c)
      BY <2>6, AllFreeAppend
    <3>2. CASE ps = <<>>
      <4>1. F = <<>> /\ y = x
        BY <3>2, NoTexts
      <4>2. F \o y = x
        BY <4>1, ConcatEmptySeq
      <4>3. Split(x, c) = <<x>>
        BY <3>1, SplitFree
      <4>4. Append(ps, x) = <<x>>
        BY <3>2
      <4> HIDE DEF F, y
      <4>5. QED
        BY <2>1, <2>4, <4>2, <4>3, <4>4
    <3>3. CASE ps # <<>>
      <4>1. Split(F, c) = ps
        BY <1>2, <3>1, <3>3
      <4>2. Split(F \o (<<c>> \o x), c) = Append(Split(F, c), x)
        <5> HIDE DEF F
        <5>1. QED
          BY <2>2, <3>1, SplitPart
      <4>3. y = <<c>> \o x
        BY <3>3
      <4> HIDE DEF F, y
      <4>4. QED
        BY <2>1, <2>4, <4>1, <4>2, <4>3
    <3>4. QED
      BY <3>2, <3>3
  <2>7. QED
    BY <2>5, <2>6
<1>3. \A ps \in Seq(W) : ps \in P
  <2> HIDE DEF P, W
  <2>1. QED
    BY <1>1, <1>2, ByAppending
<1>4. QED
  BY <1>3

\* To lead is to join, after a character in front.
LEMMA LedJoined ==
  ASSUME NEW V, NEW c \in V
  PROVE  \A ps \in Seq(Seq(V)) :
           ps # <<>> => FlattenSeq(Led(ps, c)) = <<c>> \o FlattenSeq(Joined(ps, c))
<1> DEFINE W == Seq(V)
           P == {ps \in Seq(W) : ps # <<>> => FlattenSeq(Led(ps, c)) = <<c>> \o FlattenSeq(Joined(ps, c))}
<1>1. <<>> \in P
  BY EmptySeq
<1>2. ASSUME NEW ps \in Seq(W), NEW x \in W, ps \in P PROVE Append(ps, x) \in P
  <2> DEFINE F == FlattenSeq(Joined(ps, c))
             L == FlattenSeq(Led(ps, c))
             y == IF ps = <<>> THEN x ELSE <<c>> \o x
             z == <<c>> \o x
             one == <<c>>
  <2>1. Joined(Append(ps, x), c) = Append(Joined(ps, c), y)
    BY JoinedAppend
  <2>2. Joined(ps, c) \in Seq(Seq(V)) /\ F \in Seq(V)
    BY JoinedIs, FlattenType
  <2>3. y \in Seq(V) /\ z \in Seq(V)
    BY LedAppend
  <2>4. FlattenSeq(Append(Joined(ps, c), y)) = F \o y
    <3> HIDE DEF y
    <3>1. QED
      BY <2>2, <2>3, FlattenAppend
  <2>5. Append(ps, x) \in Seq(W)
    BY AppendProperties
  <2>6. Led(Append(ps, x), c) = Append(Led(ps, c), z)
    BY LedAppend
  <2>7. Led(ps, c) \in Seq(Seq(V)) /\ L \in Seq(V)
    BY LedIs, FlattenType
  <2>8. FlattenSeq(Append(Led(ps, c), z)) = L \o z
    <3> HIDE DEF z
    <3>1. QED
      BY <2>3, <2>7, FlattenAppend
  <2>9. L \o z = one \o (F \o y)
    <3>1. CASE ps = <<>>
      <4>1. F = <<>> /\ L = <<>> /\ y = x /\ z = one \o x
        BY <3>1, NoTexts
      <4>2. <<>> \o x = x /\ <<>> \o z = z
        BY <2>3, ConcatEmptySeq
      <4> HIDE DEF F, L, y, z, one
      <4>3. QED
        BY <4>1, <4>2
    <3>2. CASE ps # <<>>
      <4>1. L = one \o F /\ y = z
        BY <1>2, <3>2
      <4>2. one \in Seq(V)
        OBVIOUS
      <4> HIDE DEF F, L, y, z, one, P, W
      <4>3. (one \o F) \o z = one \o (F \o z)
        BY SMTT(40), <2>2, <2>3, <4>2, ConcatThree
      <4>4. QED
        BY <4>1, <4>3
    <3>3. QED
      BY <3>1, <3>2
  <2> HIDE DEF F, L, y, z
  <2>10. QED
    BY <2>1, <2>4, <2>5, <2>6, <2>8, <2>9
<1>3. \A ps \in Seq(W) : ps \in P
  <2> HIDE DEF P, W
  <2>1. QED
    BY <1>1, <1>2, ByAppending
<1>4. QED
  BY <1>3

-----------------------------------------------------------------------------
(***************************************************************************)
(* Cutting at the first of a character                                     *)
(***************************************************************************)

LEMMA AroundIs ==
  ASSUME NEW V, NEW c \in V, NEW u \in Seq(V), NEW v \in Seq(V)
  PROVE  LET t == u \o (<<c>> \o v)
         IN  /\ t \in Seq(V) /\ Len(t) = Len(u) + 1 + Len(v) /\ t[Len(u) + 1] = c
             /\ \A i \in 1..Len(u) : t[i] = u[i]
             /\ \A i \in 1..Len(v) : t[Len(u) + 1 + i] = v[i]
<1> DEFINE one == <<c>>
           w == one \o v
           t == u \o w
           m == Len(u)
           n == Len(v)
<1>1. one \in Seq(V) /\ Len(one) = 1 /\ one[1] = c
  OBVIOUS
<1> HIDE DEF one
<1>2. m \in Nat /\ n \in Nat
  BY LenProperties
<1>3. /\ w \in Seq(V) /\ Len(w) = 1 + n
      /\ \A i \in 1..(1 + n) : w[i] = IF i <= 1 THEN one[i] ELSE v[i - 1]
  <2>1. /\ w \in Seq(V) /\ Len(w) = Len(one) + n
        /\ \A i \in 1..(Len(one) + n) : w[i] = IF i <= Len(one) THEN one[i] ELSE v[i - Len(one)]
    BY <1>1, ConcatProperties
  <2> HIDE DEF w, n
  <2>2. QED
    BY <1>1, <2>1
<1>4. w[1] = c /\ \A i \in 1..n : w[1 + i] = v[i]
  <2> HIDE DEF w, n
  <2>1. 1 \in 1..(1 + n) /\ \A i \in 1..n : 1 + i \in 1..(1 + n) /\ ~(1 + i <= 1) /\ (1 + i) - 1 = i
    BY <1>2
  <2>2. QED
    BY <1>1, <1>3, <2>1
<1> HIDE DEF w
<1>5. /\ t \in Seq(V) /\ Len(t) = m + Len(w)
      /\ \A i \in 1..(m + Len(w)) : t[i] = IF i <= m THEN u[i] ELSE w[i - m]
  BY <1>3, ConcatProperties
<1> HIDE DEF t, m, n
<1>6. Len(t) = m + 1 + n
  BY <1>2, <1>3, <1>5
<1>7. t[m + 1] = c
  <2>1. m + 1 \in 1..(m + Len(w)) /\ ~(m + 1 <= m) /\ (m + 1) - m = 1
    BY <1>2, <1>3
  <2>2. QED
    BY <1>4, <1>5, <2>1
<1>8. \A i \in 1..m : t[i] = u[i]
  <2>1. \A i \in 1..m : i \in 1..(m + Len(w)) /\ i <= m
    BY <1>2, <1>3
  <2>2. QED
    BY <1>5, <2>1
<1>9. \A i \in 1..n : t[m + 1 + i] = v[i]
  <2>1. \A i \in 1..n : /\ m + 1 + i \in 1..(m + Len(w)) /\ ~(m + 1 + i <= m)
                        /\ (m + 1 + i) - m = 1 + i
    BY <1>2, <1>3
  <2>2. QED
    BY <1>4, <1>5, <2>1
<1>10. QED
  BY <1>5, <1>6, <1>7, <1>8, <1>9 DEF t, w, one, m, n

\* A cut is the two parts around the first of the character.
LEMMA SplitOnceIs ==
  ASSUME NEW V, NEW c \in V, NEW u \in Seq(V), NEW v \in Seq(V), Free(u, c)
  PROVE  SplitOnce(u \o (<<c>> \o v), c) = {<<u, v>>}
<1> DEFINE t == u \o (<<c>> \o v)
           m == Len(u)
           n == Len(v)
           a == SubSeq(t, 1, m)
           b == SubSeq(t, m + 2, Len(t))
           First == {i \in DOMAIN t : t[i] = c /\ \A j \in 1..(i - 1) : t[j] # c}
<1>1. /\ t \in Seq(V) /\ Len(t) = m + 1 + n /\ t[m + 1] = c
      /\ \A i \in 1..m : t[i] = u[i]
      /\ \A i \in 1..n : t[m + 1 + i] = v[i]
  BY AroundIs
<1>2. m \in Nat /\ n \in Nat
  BY LenProperties
<1> HIDE DEF t, m, n
<1>3. DOMAIN t = 1..(m + 1 + n)
  BY <1>1, LenProperties
<1>4. \A i \in 1..m : t[i] # c
  BY <1>1 DEF Free, m
<1>5. First = {m + 1}
  <2>1. m + 1 \in First
    BY <1>1, <1>2, <1>3, <1>4
  <2>2. ASSUME NEW i \in First PROVE i = m + 1
    <3>1. i \in 1..(m + 1 + n) /\ t[i] = c /\ \A j \in 1..(i - 1) : t[j] # c
      BY <1>3
    <3>2. ~(i \in 1..m)
      BY <1>4, <3>1
    <3>3. ~(i > m + 1)
      <4>1. SUFFICES ASSUME i > m + 1 PROVE FALSE
        OBVIOUS
      <4>2. m + 1 \in 1..(i - 1)
        BY <1>2, <3>1, <4>1
      <4>3. QED
        BY <1>1, <3>1, <4>2
    <3>4. QED
      BY <1>2, <3>1, <3>2, <3>3
  <2> HIDE DEF First
  <2>3. QED
    BY <2>1, <2>2
<1>6. a = u
  <2>1. \A i \in 1..m : t[i] \in V
    <3>1. \A i \in 1..m : i \in 1..Len(t)
      BY <1>1, <1>2
    <3>2. QED
      BY <1>1, <3>1, ElementOfSeq
  <2>2. /\ a \in Seq(V) /\ Len(a) = IF 1 <= m THEN m - 1 + 1 ELSE 0
        /\ \A i \in 1..(m - 1 + 1) : a[i] = t[1 + i - 1]
    BY <1>2, <2>1, SubSeqProperties
  <2> HIDE DEF a
  <2>3. Len(a) = m
    BY <1>2, <2>2
  <2>4. \A i \in 1..m : a[i] = u[i]
    <3>1. \A i \in 1..m : i \in 1..(m - 1 + 1) /\ 1 + i - 1 = i
      BY <1>2
    <3>2. QED
      BY <1>1, <2>2, <3>1
  <2>5. Len(u) = m
    BY DEF m
  <2>6. QED
    BY <2>2, <2>3, <2>4, <2>5, SeqEqual
<1>7. b = v
  <2> DEFINE e == m + 1 + n
  <2>0. Len(t) = e
    BY <1>1
  <2>1. \A i \in (m + 2)..e : t[i] \in V
    <3>1. \A i \in (m + 2)..e : i \in 1..Len(t)
      BY <1>1, <1>2
    <3>2. QED
      BY <1>1, <3>1, ElementOfSeq
  <2>2. m + 2 \in Int /\ e \in Int
    BY <1>2
  <2>3. b = SubSeq(t, m + 2, e)
    BY <2>0
  <2> DEFINE k == m + 2
  <2> HIDE DEF e, k
  <2>4. /\ SubSeq(t, k, e) \in Seq(V) /\ Len(SubSeq(t, k, e)) = IF k <= e THEN e - k + 1 ELSE 0
        /\ \A i \in 1..(e - k + 1) : SubSeq(t, k, e)[i] = t[k + i - 1]
    BY <2>1, <2>2, SubSeqProperties DEF k
  <2>5. b \in Seq(V) /\ Len(b) = n
    <3>1. (IF k <= e THEN e - k + 1 ELSE 0) = n
      BY <1>2 DEF e, k
    <3>2. QED
      BY <2>3, <2>4, <3>1 DEF k
  <2>6. \A i \in 1..n : b[i] = v[i]
    <3>1. \A i \in 1..n : i \in 1..(e - k + 1) /\ k + i - 1 = m + 1 + i
      BY <1>2 DEF e, k
    <3>2. SubSeq(t, k, e) = b
      BY <2>3 DEF k
    <3> HIDE DEF b
    <3>3. QED
      BY <1>1, <2>4, <3>1, <3>2
  <2>7. Len(v) = n
    BY DEF n
  <2> HIDE DEF b
  <2>8. QED
    BY <2>5, <2>6, <2>7, SeqEqual
<1>8. SplitOnce(t, c) = {<<SubSeq(t, 1, i - 1), SubSeq(t, i + 1, Len(t))>> : i \in First}
  BY DEF SplitOnce
<1>9. (m + 1) - 1 = m /\ (m + 1) + 1 = m + 2
  BY <1>2
<1> HIDE DEF First
<1>10. SplitOnce(t, c) = {<<a, b>>}
  BY <1>5, <1>8, <1>9
<1>11. QED
  BY <1>6, <1>7, <1>10 DEF t

LEMMA SplitOnceFree ==
  ASSUME NEW V, NEW c, NEW t \in Seq(V), Free(t, c)
  PROVE  SplitOnce(t, c) = {}
<1>1. DOMAIN t = 1..Len(t)
  BY LenProperties
<1>2. \A i \in DOMAIN t : t[i] # c
  BY <1>1 DEF Free
<1>3. QED
  BY <1>2 DEF SplitOnce

LEMMA SplitOnceType ==
  ASSUME NEW V, NEW c, NEW t \in Seq(V)
  PROVE  SplitOnce(t, c) \subseteq Seq(V) \X Seq(V)
<1> DEFINE n == Len(t)
<1>1. n \in Nat /\ DOMAIN t = 1..n
  BY LenProperties
<1>2. ASSUME NEW i \in 1..n
      PROVE  SubSeq(t, 1, i - 1) \in Seq(V) /\ SubSeq(t, i + 1, n) \in Seq(V)
  <2>1. \A j \in 1..n : t[j] \in V
    BY ElementOfSeq
  <2>2. i - 1 \in Int /\ i + 1 \in Int /\ n \in Int
    BY <1>1
  <2>3. /\ \A j \in 1..(i - 1) : j \in 1..n
        /\ \A j \in (i + 1)..n : j \in 1..n
    BY <1>1
  <2> HIDE DEF n
  <2> DEFINE p == i - 1
             q == i + 1
  <2> HIDE DEF p, q
  <2>4. SubSeq(t, 1, p) \in Seq(V)
    BY <2>1, <2>2, <2>3, SubSeqProperties DEF p
  <2>5. SubSeq(t, q, n) \in Seq(V)
    BY <2>1, <2>2, <2>3, SubSeqProperties DEF q
  <2>6. QED
    BY <2>4, <2>5 DEF p, q
<1> DEFINE First == {i \in DOMAIN t : t[i] = c /\ \A j \in 1..(i - 1) : t[j] # c}
<1>3. SplitOnce(t, c) = {<<SubSeq(t, 1, i - 1), SubSeq(t, i + 1, n)>> : i \in First}
  BY DEF SplitOnce
<1>4. First \subseteq 1..n
  BY <1>1
<1> HIDE DEF First, n
<1>5. ASSUME NEW i \in First
      PROVE  <<SubSeq(t, 1, i - 1), SubSeq(t, i + 1, n)>> \in Seq(V) \X Seq(V)
  BY <1>2, <1>4
<1>6. QED
  BY <1>3, <1>5

-----------------------------------------------------------------------------
(***************************************************************************)
(* Characters                                                              *)
(***************************************************************************)

\* The characters that cut a text into layers, bodies, fields and components.
Structure == {"|", ":", ",", "/"}

LEMMA AlphabetAre ==
  /\ Alphabet[1] = "a" /\ Alphabet[2] = "b" /\ Alphabet[3] = "c" /\ Alphabet[4] = "d"
  /\ Alphabet[5] = "." /\ Alphabet[6] = "_" /\ Alphabet[7] = "-" /\ Alphabet[8] = "/"
  /\ Alphabet[9] = "|" /\ Alphabet[10] = ":" /\ Alphabet[11] = "," /\ Alphabet[12] = "%"
  /\ Alphabet[13] = "+" /\ Alphabet[14] = " " /\ Alphabet[15] = "@" /\ Alphabet[16] = "="
BY DEF Alphabet

\* The place of a character in the alphabet.
Place(c) ==
  IF c = "a" THEN 1 ELSE IF c = "b" THEN 2 ELSE IF c = "c" THEN 3 ELSE IF c = "d" THEN 4
  ELSE IF c = "." THEN 5 ELSE IF c = "_" THEN 6 ELSE IF c = "-" THEN 7 ELSE IF c = "/" THEN 8
  ELSE IF c = "|" THEN 9 ELSE IF c = ":" THEN 10 ELSE IF c = "," THEN 11 ELSE IF c = "%" THEN 12
  ELSE IF c = "+" THEN 13 ELSE IF c = " " THEN 14 ELSE IF c = "@" THEN 15 ELSE 16

LEMMA Placed ==
  /\ Place("a") = 1 /\ Place("b") = 2 /\ Place("c") = 3 /\ Place("d") = 4
  /\ Place(".") = 5 /\ Place("_") = 6 /\ Place("-") = 7 /\ Place("/") = 8
  /\ Place("|") = 9 /\ Place(":") = 10 /\ Place(",") = 11 /\ Place("%") = 12
  /\ Place("+") = 13 /\ Place(" ") = 14 /\ Place("@") = 15 /\ Place("=") = 16
BY Zenon DEF Place

LEMMA AlphabetIs ==
  /\ DOMAIN Alphabet = 1..16
  /\ \A i \in 1..16 : Place(Alphabet[i]) = i
  /\ ToSet(Alphabet) = {Alphabet[i] : i \in 1..16}
<1>1. DOMAIN Alphabet = 1..16
  BY DEF Alphabet
<1>2. /\ Place(Alphabet[1]) = 1 /\ Place(Alphabet[2]) = 2 /\ Place(Alphabet[3]) = 3
      /\ Place(Alphabet[4]) = 4 /\ Place(Alphabet[5]) = 5 /\ Place(Alphabet[6]) = 6
      /\ Place(Alphabet[7]) = 7 /\ Place(Alphabet[8]) = 8 /\ Place(Alphabet[9]) = 9
      /\ Place(Alphabet[10]) = 10 /\ Place(Alphabet[11]) = 11 /\ Place(Alphabet[12]) = 12
      /\ Place(Alphabet[13]) = 13 /\ Place(Alphabet[14]) = 14 /\ Place(Alphabet[15]) = 15
      /\ Place(Alphabet[16]) = 16
  BY ZenonT(40), AlphabetAre, Placed
<1>3. \A i \in 1..16 : Place(Alphabet[i]) = i
  BY <1>2
<1>4. QED
  BY <1>1, <1>3 DEF ToSet

LEMMA ReservedAre ==
  /\ Structure \cup {"%"} \subseteq Reserved
  /\ Reserved \subseteq ToSet(Alphabet)
  /\ ToSet(Alphabet) \subseteq Lexicon
<1>1. Reserved \subseteq ToSet(Alphabet)
  BY DEF Reserved
<1>2. ToSet(Alphabet) \subseteq Lexicon
  BY DEF Lexicon
<1>3. Structure \cup {"%"} \subseteq ToSet(Alphabet)
  <2>1. /\ Alphabet[8] \in ToSet(Alphabet) /\ Alphabet[9] \in ToSet(Alphabet)
        /\ Alphabet[10] \in ToSet(Alphabet) /\ Alphabet[11] \in ToSet(Alphabet)
        /\ Alphabet[12] \in ToSet(Alphabet)
    BY AlphabetIs
  <2>2. QED
    BY <2>1, AlphabetAre, Zenon DEF Structure
<1>4. QED
  BY <1>1, <1>2, <1>3, Zenon DEF Reserved, Structure

LEMMA DigitsAre ==
  /\ \A i \in 1..4 : Digits[i] \in Lexicon /\ Digits[i] \notin Structure \cup {"+"}
  /\ \A i \in 1..4 : \A j \in 1..4 : Digits[i] = Digits[j] => i = j
<1>1. Digits[1] = "a" /\ Digits[2] = "b" /\ Digits[3] = "c" /\ Digits[4] = "d"
  BY DEF Digits
<1>2. \A x \in {"a", "b", "c", "d"} : x \in ToSet(Alphabet) /\ x \notin Structure \cup {"+"}
  <2>1. /\ Alphabet[1] \in ToSet(Alphabet) /\ Alphabet[2] \in ToSet(Alphabet)
        /\ Alphabet[3] \in ToSet(Alphabet) /\ Alphabet[4] \in ToSet(Alphabet)
    BY AlphabetIs
  <2>2. \A x \in {"a", "b", "c", "d"} : x \in ToSet(Alphabet)
    BY <2>1, AlphabetAre, Zenon
  <2>3. \A x \in {"a", "b", "c", "d"} : x \notin Structure \cup {"+"}
    BY Zenon DEF Structure
  <2>4. QED
    BY <2>2, <2>3
<1>3. \A i \in 1..4 : Digits[i] \in {"a", "b", "c", "d"}
  BY <1>1
<1>4. \A i \in 1..4 : \A j \in 1..4 : Digits[i] = Digits[j] => i = j
  BY <1>1
<1>5. QED
  BY <1>2, <1>3, <1>4, ReservedAre

\* A character is found at its place.
LEMMA PlaceOf ==
  ASSUME NEW c \in ToSet(Alphabet)
  PROVE  \E i \in 1..16 : Alphabet[i] = c /\ (CHOOSE k \in DOMAIN Alphabet : Alphabet[k] = c) = i
<1> DEFINE p == CHOOSE k \in DOMAIN Alphabet : Alphabet[k] = c
<1>1. \E k \in DOMAIN Alphabet : Alphabet[k] = c
  BY DEF ToSet
<1>2. p \in DOMAIN Alphabet /\ Alphabet[p] = c
  BY <1>1
<1> HIDE DEF p
<1>3. p \in 1..16
  BY <1>2, AlphabetIs
<1>4. QED
  BY <1>2, <1>3 DEF p

\* An escape is a percent sign and two digits, and tells its character.
LEMMA EscapeIs ==
  ASSUME NEW c \in ToSet(Alphabet)
  PROVE  \E n \in 0..15 : /\ Alphabet[n + 1] = c
                          /\ n \div 4 \in 0..3 /\ n % 4 \in 0..3 /\ n = 4 * (n \div 4) + (n % 4)
                          /\ Escape(c) = <<"%", Digits[1 + (n \div 4)], Digits[1 + (n % 4)]>>
<1>1. PICK i \in 1..16 : Alphabet[i] = c /\ (CHOOSE k \in DOMAIN Alphabet : Alphabet[k] = c) = i
  BY PlaceOf
<1> DEFINE n == i - 1
<1>2. n \in 0..15 /\ n + 1 = i
  OBVIOUS
<1>3. Escape(c) = <<"%", Digits[1 + (n \div 4)], Digits[1 + (n % 4)]>>
  BY <1>1 DEF Escape
<1> HIDE DEF n
<1>4. n \div 4 \in 0..3 /\ n % 4 \in 0..3 /\ n = 4 * (n \div 4) + (n % 4)
  BY <1>2
<1>5. QED
  BY <1>1, <1>2, <1>3, <1>4

\* A character in a text, and what it is written as.
Code(b) == IF b \in Reserved THEN Escape(b) ELSE <<b>>

LEMMA EscapeOnce ==
  ASSUME NEW c \in ToSet(Alphabet), NEW d \in ToSet(Alphabet), Escape(c) \in Escaped(d)
  PROVE  c = d
<1>1. PICK n \in 0..15 : /\ Alphabet[n + 1] = c
                         /\ n \div 4 \in 0..3 /\ n % 4 \in 0..3 /\ n = 4 * (n \div 4) + (n % 4)
                         /\ Escape(c) = <<"%", Digits[1 + (n \div 4)], Digits[1 + (n % 4)]>>
  BY EscapeIs
<1>2. PICK m \in 0..15 : /\ Alphabet[m + 1] = d
                         /\ m \div 4 \in 0..3 /\ m % 4 \in 0..3 /\ m = 4 * (m \div 4) + (m % 4)
                         /\ Escape(d) = <<"%", Digits[1 + (m \div 4)], Digits[1 + (m % 4)]>>
  BY EscapeIs
<1> DEFINE p == n \div 4
           q == n % 4
           r == m \div 4
           s == m % 4
<1>3. /\ p \in 0..3 /\ q \in 0..3 /\ r \in 0..3 /\ s \in 0..3
      /\ n = 4 * p + q /\ m = 4 * r + s
      /\ Escape(c) = <<"%", Digits[1 + p], Digits[1 + q]>>
      /\ Escape(d) = <<"%", Digits[1 + r], Digits[1 + s]>>
  BY <1>1, <1>2
<1> HIDE DEF p, q, r, s
<1>4. Escape(c) = Escape(d)
  <2>1. Escape(c) = Escape(d) \/ Escape(c) = <<"%", "+", Escape(d)[3]>>
    BY DEF Escaped
  <2>2. Digits[1 + p] # "+"
    <3>1. 1 + p \in 1..4
      BY <1>3
    <3>2. QED
      BY <3>1, DigitsAre
  <2>3. Escape(c)[2] = Digits[1 + p]
    BY <1>3
  <2>4. <<"%", "+", Escape(d)[3]>>[2] = "+"
    OBVIOUS
  <2>5. QED
    BY <2>1, <2>2, <2>3, <2>4
<1>5. Digits[1 + p] = Digits[1 + r] /\ Digits[1 + q] = Digits[1 + s]
  BY <1>3, <1>4
<1>6. 1 + p \in 1..4 /\ 1 + q \in 1..4 /\ 1 + r \in 1..4 /\ 1 + s \in 1..4
  BY <1>3
<1>7. 1 + p = 1 + r /\ 1 + q = 1 + s
  BY <1>5, <1>6, DigitsAre
<1>8. p = r /\ q = s
  BY <1>3, <1>7
<1>9. QED
  BY <1>1, <1>2, <1>3, <1>8

LEMMA EscapeText ==
  ASSUME NEW c \in ToSet(Alphabet)
  PROVE  /\ Escape(c) \in Seq(Lexicon) /\ Len(Escape(c)) = 3 /\ Escape(c)[1] = "%"
         /\ \A d \in Structure : Free(Escape(c), d)
<1>1. PICK n \in 0..15 : /\ n \div 4 \in 0..3 /\ n % 4 \in 0..3
                         /\ Escape(c) = <<"%", Digits[1 + (n \div 4)], Digits[1 + (n % 4)]>>
  BY EscapeIs
<1> DEFINE x == Digits[1 + (n \div 4)]
           y == Digits[1 + (n % 4)]
           e == <<"%", x, y>>
<1>2. 1 + (n \div 4) \in 1..4 /\ 1 + (n % 4) \in 1..4
  BY <1>1
<1>3. /\ x \in Lexicon /\ x \notin Structure
      /\ y \in Lexicon /\ y \notin Structure
  BY <1>2, DigitsAre
<1> HIDE DEF x, y
<1>4. e \in Seq(Lexicon) /\ Len(e) = 3 /\ e[1] = "%" /\ e[2] = x /\ e[3] = y
  <2>1. "%" \in Lexicon
    BY ReservedAre
  <2>2. QED
    BY <1>3, <2>1
<1>5. \A d \in Structure : Free(e, d)
  <2> HIDE DEF e
  <2>1. "%" \notin Structure
    BY Zenon DEF Structure
  <2>2. \A i \in 1..3 : e[i] \notin Structure
    BY <1>3, <1>4, <2>1
  <2>3. QED
    BY <1>4, <2>2 DEF Free
<1>6. QED
  BY <1>1, <1>4, <1>5 DEF e, x, y

LEMMA CodeText ==
  ASSUME NEW b \in Lexicon
  PROVE  Code(b) \in Seq(Lexicon) /\ \A d \in Structure : Free(Code(b), d)
<1>1. CASE b \in Reserved
  BY <1>1, EscapeText, ReservedAre DEF Code
<1>2. CASE b \notin Reserved
  <2> DEFINE e == <<b>>
  <2>1. e \in Seq(Lexicon) /\ Len(e) = 1 /\ e[1] = b
    OBVIOUS
  <2>2. Code(b) = e
    BY <1>2 DEF Code
  <2> HIDE DEF e
  <2>3. b \notin Structure
    BY <1>2, ReservedAre
  <2>4. ASSUME NEW d \in Structure PROVE Free(e, d)
    <3>1. \A i \in 1..1 : e[i] # d
      BY <2>1, <2>3
    <3>2. QED
      BY <2>1, <3>1 DEF Free
  <2>5. QED
    BY <2>1, <2>2, <2>4
<1>3. QED
  BY <1>1, <1>2

\* A name is written without structure.
Coded(bytes) == [i \in DOMAIN bytes |-> Code(bytes[i])]

LEMMA CodedIs ==
  ASSUME NEW bytes \in Seq(Lexicon)
  PROVE  /\ PctEncode(bytes) = FlattenSeq(Coded(bytes))
         /\ Coded(bytes) \in Seq(Seq(Lexicon)) /\ Len(Coded(bytes)) = Len(bytes)
         /\ \A i \in 1..Len(bytes) : Coded(bytes)[i] = Code(bytes[i])
<1> DEFINE n == Len(bytes)
           W == Seq(Lexicon)
           d == Coded(bytes)
<1>1. n \in Nat /\ DOMAIN bytes = 1..n
  BY LenProperties
<1>2. \A i \in 1..n : Code(bytes[i]) \in W
  BY ElementOfSeq, CodeText
<1>3. d = [i \in 1..n |-> Code(bytes[i])]
  BY <1>1 DEF Coded
<1>4. PctEncode(bytes) = FlattenSeq(d)
  BY DEF PctEncode, Coded, Code
<1> HIDE DEF n, W, d
<1>5. d \in [1..n -> W]
  BY <1>2, <1>3
<1>6. d \in Seq(W) /\ Len(d) = n
  BY <1>1, <1>5
<1>7. \A i \in 1..n : d[i] = Code(bytes[i])
  BY <1>3
<1>8. QED
  BY <1>4, <1>6, <1>7 DEF n, W, d

LEMMA EncodeText ==
  ASSUME NEW bytes \in Seq(Lexicon)
  PROVE  PctEncode(bytes) \in Seq(Lexicon) /\ \A d \in Structure : Free(PctEncode(bytes), d)
<1>1. PctEncode(bytes) \in Seq(Lexicon)
  BY CodedIs, FlattenType
<1>2. ASSUME NEW d \in Structure PROVE Free(PctEncode(bytes), d)
  <2>1. \A i \in 1..Len(Coded(bytes)) : Free(Coded(bytes)[i], d)
    BY CodedIs, CodeText, ElementOfSeq
  <2>2. QED
    BY <2>1, CodedIs, FlattenFree
<1>3. QED
  BY <1>1, <1>2

LEMMA EncodeAppend ==
  ASSUME NEW bytes \in Seq(Lexicon), NEW b \in Lexicon
  PROVE  PctEncode(Append(bytes, b)) = PctEncode(bytes) \o Code(b)
<1> DEFINE n == Len(bytes)
           qs == Append(bytes, b)
           a == Coded(qs)
           d == Coded(bytes)
           y == Code(b)
           e == Append(d, y)
<1>1. n \in Nat /\ qs \in Seq(Lexicon) /\ Len(qs) = n + 1 /\ qs[n + 1] = b
      /\ \A i \in 1..n : qs[i] = bytes[i]
  <2> HIDE DEF a, d, y, e
  <2>1. QED
    BY AppendProperties, LenProperties
<1> HIDE DEF qs
<1>2. y \in Seq(Lexicon)
  BY CodeText
<1>3. /\ a \in Seq(Seq(Lexicon)) /\ Len(a) = n + 1 /\ PctEncode(qs) = FlattenSeq(a)
      /\ \A i \in 1..(n + 1) : a[i] = Code(qs[i])
  <2> DEFINE m == Len(qs)
  <2>1. /\ a \in Seq(Seq(Lexicon)) /\ Len(a) = m /\ PctEncode(qs) = FlattenSeq(a)
        /\ \A i \in 1..m : a[i] = Code(qs[i])
    BY <1>1, CodedIs
  <2>2. m = n + 1
    BY <1>1
  <2> HIDE DEF m
  <2>3. QED
    BY <2>1, <2>2
<1>4. /\ d \in Seq(Seq(Lexicon)) /\ Len(d) = n /\ PctEncode(bytes) = FlattenSeq(d)
      /\ \A i \in 1..n : d[i] = Code(bytes[i])
  BY CodedIs
<1> HIDE DEF a, d
<1>5. a[n + 1] = y
  <2> HIDE DEF n
  <2>1. n + 1 \in 1..(n + 1)
    BY <1>1
  <2>2. QED
    BY <1>1, <1>3, <2>1
<1> HIDE DEF y
<1>6. e \in Seq(Seq(Lexicon)) /\ Len(e) = n + 1 /\ e[n + 1] = y /\ \A i \in 1..n : e[i] = d[i]
  BY <1>2, <1>4, AppendProperties
<1>7. FlattenSeq(e) = FlattenSeq(d) \o y
  BY <1>2, <1>4, FlattenAppend, FlattenType
<1> HIDE DEF e
<1>8. ASSUME NEW i \in 1..(n + 1) PROVE a[i] = e[i]
  <2>1. CASE i = n + 1
    BY <1>5, <1>6, <2>1
  <2>2. CASE i # n + 1
    <3>1. i \in 1..n
      BY <1>1, <2>2
    <3>2. QED
      BY <1>1, <1>3, <1>4, <1>6, <3>1
  <2>3. QED
    BY <2>1, <2>2
<1>9. a = e
  BY <1>3, <1>6, <1>8, SeqEqual
<1>10. QED
  BY <1>3, <1>4, <1>7, <1>9 DEF y, qs

-----------------------------------------------------------------------------
(***************************************************************************)
(* Names are read back                                                     *)
(***************************************************************************)

\* Texts with a character, and with one of several, in front.
One(c, rests) == {<<c>> \o rest : rest \in rests}
Before(c, rest) == <<c>> \o rest
Either(cs, rests) == {Before(c, rest) : c \in cs, rest \in rests}

\* The characters that an escape may mean.
Unescaped(e) == {d \in ToSet(Alphabet) : e \in Escaped(d)}

\* What the text from a place on decodes to, by what the rest does.
Meant(t, i, next, after) ==
  IF i > Len(t) THEN {<<>>}
  ELSE IF t[i] # "%" THEN One(t[i], next)
  ELSE IF i + 2 > Len(t) THEN {}
  ELSE Either(Unescaped(SubSeq(t, i, i + 2)), after)

From(t) == CHOOSE f : f = [i \in 1..(Len(t) + 3) |-> Meant(t, i, f[i + 1], f[i + 3])]

LEMMA MeantIs ==
  ASSUME NEW t, NEW i, NEW next, NEW after, NEW L, L = Len(t)
  PROVE  /\ i > L => Meant(t, i, next, after) = {<<>>}
         /\ ~(i > L) /\ t[i] # "%" => Meant(t, i, next, after) = One(t[i], next)
         /\ ~(i > L) /\ t[i] = "%" /\ i + 2 > L => Meant(t, i, next, after) = {}
         /\ ~(i > L) /\ t[i] = "%" /\ ~(i + 2 > L) =>
              Meant(t, i, next, after) = Either(Unescaped(SubSeq(t, i, i + 2)), after)
BY Zenon DEF Meant

LEMMA OneType ==
  ASSUME NEW c \in Lexicon, NEW cs \in SUBSET Lexicon, NEW rests \in SUBSET Seq(Lexicon)
  PROVE  One(c, rests) \subseteq Seq(Lexicon) /\ Either(cs, rests) \subseteq Seq(Lexicon)
<1> DEFINE T == Seq(Lexicon)
<1>1. \A d \in Lexicon, r \in T : <<d>> \o r \in T
  <2>1. SUFFICES ASSUME NEW d \in Lexicon, NEW r \in T PROVE <<d>> \o r \in T
    OBVIOUS
  <2>2. <<d>> \in Seq(Lexicon)
    OBVIOUS
  <2>3. QED
    BY <2>2, ConcatProperties
<1> HIDE DEF T
<1>2. rests \subseteq T
  BY DEF T
<1>3. One(c, rests) \subseteq T
  BY <1>1, <1>2 DEF One
<1>4. Either(cs, rests) \subseteq T
  <2>1. ASSUME NEW x \in Either(cs, rests) PROVE x \in T
    <3>1. PICK d \in cs, r \in rests : x = Before(d, r)
      BY DEF Either
    <3>2. Before(d, r) \in T
      BY <1>1, <1>2 DEF Before
    <3>3. QED
      BY <3>1, <3>2
  <2>2. QED
    BY <2>1
<1>5. QED
  BY <1>3, <1>4 DEF T

LEMMA FromIs ==
  ASSUME NEW t, Len(t) \in Nat
  PROVE  /\ PctDecode(t) = From(t)[1]
         /\ \A i \in 1..(Len(t) + 3) : From(t)[i] = Meant(t, i, From(t)[i + 1], From(t)[i + 3])
<1> DEFINE L == Len(t)
           N == L + 3
           F(i, a, b) == Meant(t, i, a, b)
           S == {d \in Nat : \E g : \A i \in (N + 1 - d)..N : g[i] = F(i, g[i + 1], g[i + 3])}
<1>1. ASSUME NEW i \in 1..N, i > L PROVE \A a, b, c, d : F(i, a, b) = F(i, c, d)
  BY <1>1 DEF Meant
<1>2. L \in Nat /\ N \in Nat /\ N = L + 3
  OBVIOUS
<1> HIDE DEF F, L, N
<1>3. 0 \in S
  <2>1. (N + 1 - 0)..N = {}
    BY <1>2
  <2>2. QED
    BY <2>1
<1>4. ASSUME NEW d \in 0..(N - 1), d \in S PROVE d + 1 \in S
  <2> DEFINE k == N - d
  <2>1. PICK g : \A i \in (N + 1 - d)..N : g[i] = F(i, g[i + 1], g[i + 3])
    BY <1>4
  <2>2. k \in 1..N /\ N + 1 - d = k + 1 /\ N + 1 - (d + 1) = k /\ d + 1 \in Nat
    BY <1>2
  <2> HIDE DEF k
  <2> DEFINE h == [i \in 1..(N + 3) |-> IF i = k THEN F(k, g[k + 1], g[k + 3]) ELSE g[i]]
  <2>3. ASSUME NEW i \in k..N PROVE h[i] = F(i, h[i + 1], h[i + 3])
    <3>1. i \in 1..(N + 3) /\ i + 1 \in 1..(N + 3) /\ i + 3 \in 1..(N + 3) /\ i + 1 # k /\ i + 3 # k
      BY <1>2, <2>2
    <3>2. h[i + 1] = g[i + 1] /\ h[i + 3] = g[i + 3]
      BY <3>1
    <3>3. CASE i = k
      BY <3>1, <3>2, <3>3
    <3>4. CASE i # k
      <4>1. i \in (k + 1)..N
        BY <2>2, <3>4
      <4>2. g[i] = F(i, g[i + 1], g[i + 3])
        BY <2>1, <2>2, <4>1
      <4>3. h[i] = g[i]
        BY <3>1, <3>4
      <4>4. QED
        BY <3>2, <4>2, <4>3
    <3>5. QED
      BY <3>3, <3>4
  <2> HIDE DEF h
  <2>4. QED
    BY <2>2, <2>3
<1> HIDE DEF S
<1>5. N \in S
  <2>1. \A n \in 0..N : n \in S
    BY <1>2, <1>3, <1>4, UpTo
  <2>2. QED
    BY <1>2, <2>1
<1>6. PICK g : \A i \in 1..N : g[i] = F(i, g[i + 1], g[i + 3])
  <2>1. N + 1 - N = 1
    BY <1>2
  <2>2. QED
    BY <1>5, <2>1 DEF S
<1> DEFINE f == [i \in 1..N |-> g[i]]
<1>7. f = [i \in 1..N |-> F(i, f[i + 1], f[i + 3])]
  <2>1. ASSUME NEW i \in 1..N PROVE f[i] = F(i, f[i + 1], f[i + 3])
    <3>1. f[i] = g[i] /\ g[i] = F(i, g[i + 1], g[i + 3])
      BY <1>6
    <3>2. CASE i > L
      <4>1. F(i, g[i + 1], g[i + 3]) = F(i, f[i + 1], f[i + 3])
        <5> HIDE DEF f
        <5>1. QED
          BY <1>1, <3>2
      <4>2. QED
        BY <3>1, <4>1
    <3>3. CASE ~(i > L)
      <4>1. i + 1 \in 1..N /\ i + 3 \in 1..N
        BY <1>2, <3>3
      <4>2. f[i + 1] = g[i + 1] /\ f[i + 3] = g[i + 3]
        BY <4>1
      <4>3. QED
        BY <3>1, <4>2
    <3>4. QED
      BY <3>2, <3>3
  <2>2. f = [i \in 1..N |-> f[i]]
    OBVIOUS
  <2> HIDE DEF f
  <2>3. QED
    BY <2>1, <2>2
<1> HIDE DEF f
<1>8. From(t) = [i \in 1..N |-> F(i, From(t)[i + 1], From(t)[i + 3])]
  BY <1>7 DEF From, F, N, L
<1>9. \A i \in 1..N : From(t)[i] = F(i, From(t)[i + 1], From(t)[i + 3])
  BY <1>8
<1>10. PctDecode(t) = From(t)[1]
  BY DEF PctDecode, From, Meant, One, Either, Before, Unescaped
<1>11. QED
  BY <1>9, <1>10 DEF F, N, L

\* A set that holds of all places after the text and of each place if it does
\* of the later ones holds of all.
LEMMA Backwards ==
  ASSUME NEW N \in Nat, NEW P,
         \A i \in 1..N : (\A j \in (i + 1)..N : j \in P) => i \in P
  PROVE  \A i \in 1..N : i \in P
<1> DEFINE S == {d \in Nat : \A i \in (N + 1 - d)..N : i \in P}
<1>1. 0 \in S
  <2>1. (N + 1 - 0)..N = {}
    OBVIOUS
  <2>2. QED
    BY <2>1
<1>2. ASSUME NEW d \in 0..(N - 1), d \in S PROVE d + 1 \in S
  <2> DEFINE k == N - d
  <2>1. k \in 1..N /\ N + 1 - d = k + 1 /\ N + 1 - (d + 1) = k /\ d + 1 \in Nat
    OBVIOUS
  <2>2. \A j \in (k + 1)..N : j \in P
    BY <1>2, <2>1
  <2> HIDE DEF k
  <2>3. k \in P
    BY <2>1, <2>2
  <2>4. \A i \in k..N : i = k \/ i \in (k + 1)..N
    BY <2>1
  <2>5. QED
    BY <2>1, <2>2, <2>3, <2>4
<1> HIDE DEF S
<1>3. \A d \in 0..N : d \in S
  BY <1>1, <1>2, UpTo
<1>4. N \in S
  BY <1>3
<1>5. N + 1 - N = 1
  OBVIOUS
<1>6. QED
  BY <1>4, <1>5 DEF S

\* A text decodes to texts.
LEMMA FromType ==
  ASSUME NEW t \in Seq(Lexicon)
  PROVE  \A i \in 1..(Len(t) + 3) : From(t)[i] \subseteq Seq(Lexicon)
<1> DEFINE L == Len(t)
           N == L + 3
           P == {i \in 1..N : From(t)[i] \subseteq Seq(Lexicon)}
<1>1. L \in Nat /\ N \in Nat
  BY LenProperties
<1>3. ASSUME NEW i \in 1..N, \A j \in (i + 1)..N : j \in P PROVE i \in P
  <2>1. From(t)[i] = Meant(t, i, From(t)[i + 1], From(t)[i + 3])
    BY <1>1, FromIs
  <2>2. CASE i > L
    <3>1. From(t)[i] = {<<>>}
      BY <2>1, <2>2 DEF Meant
    <3>2. <<>> \in Seq(Lexicon)
      BY EmptySeq
    <3>3. QED
      BY <3>1, <3>2
  <2>3. CASE i \in 1..L
    <3>1. i + 1 \in P /\ i + 3 \in P
      <4>1. i + 1 \in (i + 1)..N /\ i + 3 \in (i + 1)..N
        BY <1>1, <2>3
      <4>2. QED
        BY <1>3, <4>1
    <3>2. From(t)[i + 1] \subseteq Seq(Lexicon) /\ From(t)[i + 3] \subseteq Seq(Lexicon)
      BY <3>1
    <3>3. t[i] \in Lexicon /\ ToSet(Alphabet) \subseteq Lexicon
      BY <2>3, ElementOfSeq, ReservedAre
    <3> DEFINE a == From(t)[i + 1]
               b == From(t)[i + 3]
    <3> HIDE DEF a, b
    <3>4. ~(i > L)
      BY <2>3, <1>1
    <3>5. Meant(t, i, a, b) \subseteq Seq(Lexicon)
      <4> DEFINE U == Unescaped(SubSeq(t, i, i + 2))
      <4>1. U \subseteq Lexicon
        BY <3>3 DEF Unescaped
      <4>2. a \in SUBSET Seq(Lexicon) /\ b \in SUBSET Seq(Lexicon)
        BY <3>2 DEF a, b
      <4>3. One(t[i], a) \subseteq Seq(Lexicon)
        BY <3>3, <4>2, OneType
      <4>4. Either(U, b) \subseteq Seq(Lexicon)
        BY <3>3, <4>1, <4>2, OneType
      <4> HIDE DEF U, L
      <4>5. /\ t[i] # "%" => Meant(t, i, a, b) = One(t[i], a)
            /\ t[i] = "%" /\ i + 2 > L => Meant(t, i, a, b) = {}
            /\ t[i] = "%" /\ ~(i + 2 > L) => Meant(t, i, a, b) = Either(U, b)
        <5>1. L = Len(t)
          BY DEF L
        <5>2. QED
          BY <3>4, <5>1, MeantIs DEF U
      <4>6. QED
        BY <4>3, <4>4, <4>5
    <3>6. QED
      BY <2>1, <3>5 DEF a, b
  <2>4. QED
    BY <1>1, <2>2, <2>3
<1>4. \A i \in 1..N : i \in P
  <2> HIDE DEF P, N
  <2>1. QED
    BY <1>1, <1>3, Backwards
<1>5. QED
  BY <1>4

LEMMA DecodeType == \A t \in Seq(Lexicon) : PctDecode(t) \subseteq Seq(Lexicon)
<1>1. SUFFICES ASSUME NEW t \in Seq(Lexicon) PROVE PctDecode(t) \subseteq Seq(Lexicon)
  OBVIOUS
<1>2. Len(t) \in Nat
  BY LenProperties
<1>3. PctDecode(t) = From(t)[1] /\ 1 \in 1..(Len(t) + 3)
  BY <1>2, FromIs
<1>4. QED
  BY <1>3, FromType

\* What comes before a place does not matter to what the rest means.
LEMMA Shifted ==
  ASSUME NEW s \in Seq(Lexicon), NEW t \in Seq(Lexicon)
  PROVE  \A i \in 1..(Len(t) + 3) : From(s \o t)[Len(s) + i] = From(t)[i]
<1> DEFINE k == Len(s)
           L == Len(t)
           N == L + 3
           u == s \o t
           P == {i \in 1..N : From(u)[k + i] = From(t)[i]}
<1>1. /\ k \in Nat /\ L \in Nat /\ N \in Nat /\ N = L + 3 /\ Len(u) = k + L
      /\ \A i \in 1..(k + L) : u[i] = IF i <= k THEN s[i] ELSE t[i - k]
      /\ u \in Seq(Lexicon)
  BY ConcatProperties, LenProperties
<1> HIDE DEF u
<1>2. \A i \in 1..L : u[k + i] = t[i]
  <2> HIDE DEF k, L, N
  <2>1. \A i \in 1..L : k + i \in 1..(k + L) /\ ~(k + i <= k) /\ (k + i) - k = i
    BY <1>1
  <2>2. QED
    BY <1>1, <2>1
<1>3. ASSUME NEW i \in 1..N, \A j \in (i + 1)..N : j \in P PROVE i \in P
  <2>1. From(t)[i] = Meant(t, i, From(t)[i + 1], From(t)[i + 3])
    BY <1>1, FromIs
  <2>2. From(u)[k + i] = Meant(u, k + i, From(u)[(k + i) + 1], From(u)[(k + i) + 3])
    <3>1. k + i \in 1..(Len(u) + 3)
      BY <1>1
    <3>2. QED
      BY <1>1, <3>1, FromIs
  <2>3. CASE i > L
    <3>1. k + i > Len(u)
      BY <1>1, <2>3
    <3>2. From(t)[i] = {<<>>} /\ From(u)[k + i] = {<<>>}
      BY <2>1, <2>2, <2>3, <3>1 DEF Meant
    <3>3. QED
      BY <3>2
  <2>4. CASE i \in 1..L
    <3>1. i + 1 \in P /\ i + 3 \in P
      <4>1. i + 1 \in (i + 1)..N /\ i + 3 \in (i + 1)..N
        BY <1>1, <2>4
      <4>2. QED
        BY <1>3, <4>1
    <3>2. (k + i) + 1 = k + (i + 1) /\ (k + i) + 3 = k + (i + 3)
      BY <1>1
    <3>3. From(u)[(k + i) + 1] = From(t)[i + 1] /\ From(u)[(k + i) + 3] = From(t)[i + 3]
      BY <3>1, <3>2
    <3>4. u[k + i] = t[i]
      BY <1>2, <2>4
    <3>5. /\ ~(i > L) /\ ~(k + i > Len(u))
          /\ (i + 2 > L <=> (k + i) + 2 > Len(u))
      BY <1>1, <2>4
    <3>6. ASSUME ~(i + 2 > L) PROVE SubSeq(u, k + i, (k + i) + 2) = SubSeq(t, i, i + 2)
      <4>1. /\ i + 1 \in 1..L /\ i + 2 \in 1..L
            /\ (k + i) + 1 = k + (i + 1) /\ (k + i) + 2 = k + (i + 2)
        BY <1>1, <2>4, <3>6
      <4>2. u[(k + i) + 1] = t[i + 1] /\ u[(k + i) + 2] = t[i + 2]
        BY <1>2, <4>1
      <4>3. \A j \in i..(i + 2) : j \in 1..L /\ (j = i \/ j = i + 1 \/ j = i + 2)
        BY <1>1, <2>4, <4>1
      <4>4. i \in Int /\ i + 2 \in Int /\ k + i \in Int /\ (k + i) + 2 \in Int
        BY <1>1
      <4>5. \A j \in i..(i + 2) : t[j] \in Lexicon
        BY <4>3, ElementOfSeq
      <4>6. \A j \in (k + i)..((k + i) + 2) : u[j] \in Lexicon
        <5>1. \A j \in (k + i)..((k + i) + 2) : j \in 1..Len(u)
          BY <1>1, <2>4, <4>1
        <5>2. QED
          BY <1>1, <5>1, ElementOfSeq
      <4> DEFINE p == SubSeq(t, i, i + 2)
                 q == SubSeq(u, k + i, (k + i) + 2)
      <4>7. /\ p \in Seq(Lexicon) /\ Len(p) = (IF i <= i + 2 THEN (i + 2) - i + 1 ELSE 0)
            /\ \A j \in 1..((i + 2) - i + 1) : p[j] = t[i + j - 1]
        BY <4>4, <4>5, SubSeqProperties
      <4>8. /\ q \in Seq(Lexicon)
            /\ Len(q) = (IF k + i <= (k + i) + 2 THEN ((k + i) + 2) - (k + i) + 1 ELSE 0)
            /\ \A j \in 1..(((k + i) + 2) - (k + i) + 1) : q[j] = u[(k + i) + j - 1]
        <5> DEFINE m == k + i
        <5>1. m \in Int /\ m + 2 \in Int /\ \A j \in m..(m + 2) : u[j] \in Lexicon
          BY <4>4, <4>6
        <5> HIDE DEF m
        <5>2. /\ SubSeq(u, m, m + 2) \in Seq(Lexicon)
              /\ Len(SubSeq(u, m, m + 2)) = (IF m <= m + 2 THEN (m + 2) - m + 1 ELSE 0)
              /\ \A j \in 1..((m + 2) - m + 1) : SubSeq(u, m, m + 2)[j] = u[m + j - 1]
          BY SMTT(40), <5>1, SubSeqProperties
        <5>3. QED
          BY <5>2 DEF m
      <4> HIDE DEF p, q, k, L, N
      <4>9. Len(p) = 3 /\ Len(q) = 3
        BY <4>4, <4>7, <4>8
      <4>10. \A j \in 1..3 : p[j] = q[j]
        <5>1. /\ 1 \in 1..((i + 2) - i + 1) /\ 2 \in 1..((i + 2) - i + 1) /\ 3 \in 1..((i + 2) - i + 1)
              /\ i + 1 - 1 = i /\ i + 2 - 1 = i + 1 /\ i + 3 - 1 = i + 2
          BY <4>4
        <5>2. p[1] = t[i] /\ p[2] = t[i + 1] /\ p[3] = t[i + 2]
          BY <4>7, <5>1
        <5> DEFINE m == k + i
        <5>3. /\ 1 \in 1..((m + 2) - m + 1) /\ 2 \in 1..((m + 2) - m + 1) /\ 3 \in 1..((m + 2) - m + 1)
              /\ m + 1 - 1 = m /\ m + 2 - 1 = m + 1 /\ m + 3 - 1 = m + 2
          BY <4>4
        <5>4. q[1] = u[m] /\ q[2] = u[m + 1] /\ q[3] = u[m + 2]
          BY <4>8, <5>3
        <5>5. QED
          BY <3>4, <4>2, <5>2, <5>4
      <4>11. p = q
        BY <4>7, <4>8, <4>9, <4>10, SeqEqual
      <4>12. QED
        BY <4>11 DEF p, q, k, L
    <3> DEFINE a == From(t)[i + 1]
               b == From(t)[i + 3]
    <3> HIDE DEF a, b
    <3>7. Meant(t, i, a, b) = Meant(u, k + i, a, b)
      <4> DEFINE U == Unescaped(SubSeq(t, i, i + 2))
                 W == Unescaped(SubSeq(u, k + i, (k + i) + 2))
                 m == k + i
                 M == Len(u)
      <4>1. ~(i + 2 > L) => U = W
        BY <3>6
      <4>2. /\ t[i] # "%" => Meant(t, i, a, b) = One(t[i], a)
            /\ t[i] = "%" /\ i + 2 > L => Meant(t, i, a, b) = {}
            /\ t[i] = "%" /\ ~(i + 2 > L) => Meant(t, i, a, b) = Either(U, b)
        <5> HIDE DEF U, L
        <5>1. L = Len(t)
          BY DEF L
        <5>2. QED
          BY <3>5, <5>1, MeantIs DEF U
      <4>3. /\ u[m] # "%" => Meant(u, m, a, b) = One(u[m], a)
            /\ u[m] = "%" /\ m + 2 > M => Meant(u, m, a, b) = {}
            /\ u[m] = "%" /\ ~(m + 2 > M) => Meant(u, m, a, b) = Either(W, b)
        <5>1. W = Unescaped(SubSeq(u, m, m + 2)) /\ ~(m > M)
          BY <3>5
        <5> HIDE DEF W, m, M
        <5>2. M = Len(u)
          BY DEF M
        <5>3. QED
          BY <5>1, <5>2, MeantIs
      <4>4. u[m] = t[i] /\ (m + 2 > M <=> i + 2 > L)
        BY <3>4, <3>5
      <4> HIDE DEF U, W, L, M, m
      <4>5. Meant(t, i, a, b) = Meant(u, m, a, b)
        BY <4>1, <4>2, <4>3, <4>4
      <4>6. QED
        BY <4>5 DEF m
    <3>8. QED
      BY <2>1, <2>2, <3>3, <3>7 DEF a, b
  <2>5. QED
    BY <1>1, <2>3, <2>4
<1>4. \A i \in 1..N : i \in P
  <2> HIDE DEF P, N
  <2>1. QED
    BY <1>1, <1>3, Backwards
<1>5. QED
  BY <1>4 DEF u

\* A character that is read first.
LEMMA DecodeCode ==
  ASSUME NEW x \in Lexicon, NEW t \in Seq(Lexicon)
  PROVE  PctDecode(Code(x) \o t) = One(x, PctDecode(t))
<1> DEFINE e == Code(x)
           L == Len(t)
           k == Len(e)
           u == e \o t
           M == Len(u)
           D == PctDecode(t)
<1>1. e \in Seq(Lexicon)
  BY CodeText
<1>2. L \in Nat /\ D = From(t)[1] /\ 1 \in 1..(L + 3)
  <2>1. L \in Nat
    BY LenProperties
  <2>2. QED
    BY <2>1, FromIs
<1> HIDE DEF e
<1>3. /\ u \in Seq(Lexicon) /\ k \in Nat /\ M = k + L
      /\ \A i \in 1..(k + L) : u[i] = IF i <= k THEN e[i] ELSE t[i - k]
  BY <1>1, ConcatProperties, LenProperties
<1>4. From(u)[k + 1] = D
  BY <1>1, <1>2, Shifted
<1>5. \A i \in 1..k : u[i] = e[i] /\ i \in 1..M
  <2> HIDE DEF u, k, L, M
  <2>1. \A i \in 1..k : i \in 1..(k + L) /\ i <= k
    BY <1>2, <1>3
  <2>2. QED
    BY <1>3, <2>1
<1> HIDE DEF u, D, L, k
<1>6. PctDecode(u) = Meant(u, 1, From(u)[1 + 1], From(u)[1 + 3])
  <2>1. M \in Nat
    BY <1>2, <1>3
  <2>2. 1 \in 1..(M + 3)
    BY <2>1
  <2>3. QED
    BY <2>1, <2>2, FromIs
<1>7. CASE x \notin Reserved
  <2>1. e = <<x>> /\ x # "%"
    BY <1>7, ReservedAre DEF e, Code
  <2>2. k = 1 /\ e[1] = x
    BY <2>1 DEF k
  <2>3. u[1] = x /\ ~(1 > M)
    BY <1>2, <1>3, <1>5, <2>2
  <2>4. Meant(u, 1, From(u)[1 + 1], From(u)[1 + 3]) = One(x, From(u)[1 + 1])
    BY <2>1, <2>3, MeantIs
  <2>5. QED
    BY <1>4, <1>6, <2>2, <2>4 DEF e, u, D
<1>8. CASE x \in Reserved
  <2>1. e = Escape(x) /\ x \in ToSet(Alphabet)
    BY <1>8, ReservedAre DEF e, Code
  <2>2. k = 3 /\ e[1] = "%"
    BY <2>1, EscapeText DEF k
  <2>3. u[1] = "%" /\ ~(1 > M) /\ ~(1 + 2 > M) /\ 1 + 2 = 3
    BY <1>2, <1>3, <1>5, <2>2
  <2>4. SubSeq(u, 1, 3) = e
    <3> DEFINE q == SubSeq(u, 1, 3)
    <3>1. \A i \in 1..3 : u[i] \in Lexicon
      BY <1>3, <1>5, <2>2, ElementOfSeq
    <3>2. /\ q \in Seq(Lexicon) /\ Len(q) = (IF 1 <= 3 THEN 3 - 1 + 1 ELSE 0)
          /\ \A i \in 1..(3 - 1 + 1) : q[i] = u[1 + i - 1]
      BY <3>1, SubSeqProperties
    <3> HIDE DEF q
    <3>3. Len(q) = 3 /\ \A i \in 1..3 : q[i] = u[i]
      <4>1. 3 - 1 + 1 = 3 /\ \A i \in 1..3 : 1 + i - 1 = i
        OBVIOUS
      <4>2. QED
        BY <3>2, <4>1
    <3>4. \A i \in 1..3 : q[i] = e[i]
      BY <1>5, <2>2, <3>3
    <3>5. Len(e) = 3
      BY <2>2 DEF k
    <3>6. q = e
      BY <1>1, <3>2, <3>3, <3>4, <3>5, SeqEqual
    <3>7. QED
      BY <3>6 DEF q
  <2>5. Unescaped(e) = {x}
    <3>1. x \in Unescaped(e)
      <4>1. e \in Escaped(x)
        BY <2>1 DEF Escaped
      <4>2. QED
        BY <2>1, <4>1 DEF Unescaped
    <3>2. ASSUME NEW d \in Unescaped(e) PROVE d = x
      BY <2>1, EscapeOnce DEF Unescaped
    <3>3. QED
      BY <3>1, <3>2
  <2>6. Meant(u, 1, From(u)[1 + 1], From(u)[1 + 3]) = Either({x}, From(u)[1 + 3])
    <3> DEFINE m == 1
               C == Unescaped(SubSeq(u, m, m + 2))
               a == From(u)[m + 1]
               b == From(u)[m + 3]
    <3>1. C = {x}
      BY <2>3, <2>4, <2>5
    <3>2. u[m] = "%" /\ ~(m > M) /\ ~(m + 2 > M) /\ M = Len(u)
      BY <2>3
    <3> HIDE DEF M, m, a, b
    <3>3. Meant(u, m, a, b) = Either(C, b)
      BY <3>2, MeantIs
    <3> HIDE DEF C
    <3>4. QED
      BY <3>1, <3>3 DEF a, b, m
  <2>7. Either({x}, From(u)[1 + 3]) = One(x, From(u)[1 + 3])
    <3> DEFINE R == From(u)[1 + 3]
    <3>1. \A r : Before(x, r) = <<x>> \o r
      BY DEF Before
    <3> HIDE DEF R
    <3>2. Either({x}, R) = {Before(x, r) : r \in R}
      BY DEF Either
    <3>3. {Before(x, r) : r \in R} = {<<x>> \o r : r \in R}
      BY <3>1
    <3>4. QED
      BY <3>2, <3>3 DEF One, R
  <2>8. 1 + 3 = k + 1
    BY <2>2
  <2>9. QED
    BY <1>4, <1>6, <2>6, <2>7, <2>8 DEF e, u, D
<1>9. QED
  BY <1>7, <1>8

\* A name that is read first.
Continued(bytes, rests) == {bytes \o rest : rest \in rests}

LEMMA DecodeName ==
  ASSUME NEW t \in Seq(Lexicon)
  PROVE  \A bytes \in Seq(Lexicon) :
           \A u \in Seq(Lexicon) : PctDecode(PctEncode(bytes) \o u) = Continued(bytes, PctDecode(u))
<1> DEFINE T == Seq(Lexicon)
           P == {bytes \in T :
                   \A u \in T : PctDecode(PctEncode(bytes) \o u) = Continued(bytes, PctDecode(u))}
<1>1. <<>> \in P
  <2> DEFINE nil == <<>>
  <2>1. PctEncode(nil) = nil /\ nil \in T
    <3>1. Coded(nil) = <<>>
      BY DEF Coded
    <3>2. FlattenSeq(<<>>) = <<>>
      BY DEF FlattenSeq
    <3>3. QED
      BY <3>1, <3>2, CodedIs, EmptySeq
  <2>2. \A r \in T : nil \o r = r
    BY ConcatEmptySeq
  <2> HIDE DEF nil
  <2>3. ASSUME NEW u \in T PROVE PctDecode(PctEncode(nil) \o u) = Continued(nil, PctDecode(u))
    <3>1. PctDecode(u) \subseteq T
      BY DecodeType
    <3> DEFINE D == PctDecode(u)
    <3> HIDE DEF D, T
    <3>2. D \subseteq T
      BY <3>1 DEF D
    <3>3. {nil \o r : r \in D} = D
      BY <2>2, <3>2
    <3>4. PctEncode(nil) \o u = u
      BY <2>1, <2>2
    <3>5. QED
      BY <3>3, <3>4 DEF Continued, D
  <2>4. QED
    BY <2>1, <2>3 DEF nil
<1>2. ASSUME NEW bs \in T, NEW x \in Lexicon, bs \in P PROVE Append(bs, x) \in P
  <2> DEFINE as == Append(bs, x)
             E == PctEncode(bs)
             e == Code(x)
  <2>1. as \in T /\ E \in T /\ e \in T
    BY AppendProperties, EncodeText, CodeText
  <2>2. PctEncode(as) = E \o e
    BY EncodeAppend
  <2>3. ASSUME NEW u \in T PROVE PctDecode(PctEncode(as) \o u) = Continued(as, PctDecode(u))
    <3> DEFINE D == PctDecode(u)
    <3>1. D \subseteq T
      BY DecodeType
    <3>2. PctDecode(e \o u) = One(x, D)
      BY DecodeCode
    <3> HIDE DEF D, e, E, as
    <3>3. (E \o e) \o u = E \o (e \o u) /\ e \o u \in T
      <4> HIDE DEF P
      <4>1. QED
        BY SMTT(40), <2>1, ConcatThree
    <3>4. PctDecode(E \o (e \o u)) = Continued(bs, PctDecode(e \o u))
      BY <1>2, <3>3 DEF E
    <3>5. \A r \in D : bs \o (<<x>> \o r) = as \o r
      <4>1. SUFFICES ASSUME NEW r \in D PROVE bs \o (<<x>> \o r) = as \o r
        OBVIOUS
      <4> DEFINE one == <<x>>
      <4>2. one \in Seq(Lexicon) /\ r \in Seq(Lexicon) /\ bs \in Seq(Lexicon)
        BY <3>1
      <4> HIDE DEF one, P, T
      <4>3. (bs \o one) \o r = bs \o (one \o r)
        BY SMTT(40), <4>2, ConcatThree
      <4>4. as = bs \o one
        BY AppendIsConcat DEF as, one
      <4>5. QED
        BY <4>3, <4>4 DEF one
    <3>6. Continued(bs, One(x, D)) = Continued(as, D)
      <4> DEFINE F(r) == <<x>> \o r
                 G(r) == bs \o r
                 H(r) == as \o r
      <4>1. \A r \in D : G(F(r)) = H(r)
        BY <3>5
      <4> HIDE DEF F, G, H
      <4>2. {G(s) : s \in {F(r) : r \in D}} = {H(r) : r \in D}
        BY <4>1
      <4>3. QED
        BY <4>2 DEF F, G, H, Continued, One
    <3>7. QED
      BY <2>2, <3>2, <3>3, <3>4, <3>6 DEF D
  <2>4. QED
    BY <2>1, <2>3
<1>3. \A bs \in T : bs \in P
  <2> HIDE DEF P
  <2>1. QED
    BY <1>1, <1>2, ByAppending
<1>4. QED
  BY <1>3

\* A name is read back.
LEMMA DecodeEncode ==
  ASSUME NEW bytes \in Seq(Lexicon)
  PROVE  PctDecode(PctEncode(bytes)) = {bytes}
<1> DEFINE nil == <<>>
           E == PctEncode(bytes)
<1>1. nil \in Seq(Lexicon) /\ Len(nil) = 0 /\ E \in Seq(Lexicon)
  BY EmptySeq, EncodeText
<1>2. PctDecode(nil) = {nil}
  <2>1. Len(nil) \in Nat /\ 1 \in 1..(Len(nil) + 3) /\ 1 > Len(nil)
    BY <1>1
  <2>2. PctDecode(nil) = Meant(nil, 1, From(nil)[1 + 1], From(nil)[1 + 3])
    BY <2>1, FromIs
  <2>3. QED
    BY <2>1, <2>2, MeantIs
<1>3. E \o nil = E /\ bytes \o nil = bytes
  BY <1>1, ConcatEmptySeq
<1> HIDE DEF nil
<1>4. PctDecode(E \o nil) = Continued(bytes, {nil})
  BY <1>1, <1>2, DecodeName
<1>5. Continued(bytes, {nil}) = {bytes}
  BY <1>3 DEF Continued
<1>6. QED
  BY <1>3, <1>4, <1>5

-----------------------------------------------------------------------------
(***************************************************************************)
(* Words and numerals                                                      *)
(***************************************************************************)

\* The characters that cut a text, those that cut a token among them.
Cuts == Structure \cup {"."}

LEMMA CutsAre == Cuts \subseteq ToSet(Alphabet) /\ Structure \subseteq Cuts
<1>1. "." \in ToSet(Alphabet)
  <2>1. Alphabet[5] \in ToSet(Alphabet)
    BY AlphabetIs
  <2>2. QED
    BY <2>1, AlphabetAre, Zenon
<1>2. QED
  BY <1>1, ReservedAre DEF Cuts

\* The words and numerals cut nothing.
Literals ==
  {"loc:", "fvfs:", "file", "os", "dir", "range", "container", "volume", "encryption", "snapshot",
   "fs", "stream", "archive", "p", "f", "b", "vss", "apfs"}

Vocabulary == Formats \cup Schemes \cup Ciphers \cup Kinds \cup Guids

LEMMA WordsAre ==
  /\ Literals \cup Vocabulary \cup DOMAIN Fields \cup Numbered
       \cup {"default", "resourcefork", "slack"} \cup {ToString(n) : n \in 0..U64} \subseteq Lexicon
  /\ \A w \in Literals \cup Vocabulary \cup DOMAIN Fields \cup Numbered
       \cup {"default", "resourcefork", "slack"} \cup {ToString(n) : n \in 0..U64} : w \notin Cuts
<1> DEFINE Streams == {"default", "resourcefork", "slack"}
           Numerals == {ToString(n) : n \in 0..U64}
<1>1. Numerals \subseteq Lexicon /\ Vocabulary \subseteq Lexicon
  BY DEF Lexicon, Vocabulary
<1>2. DOMAIN Fields \subseteq Lexicon /\ Numbered \subseteq Lexicon
  BY DEF Lexicon
<1>3. Literals \subseteq Lexicon
  BY DEF Lexicon, Literals
<1>4. Streams \subseteq Lexicon
  BY DEF Lexicon
<1>5. DOMAIN Fields =
        {"ntfsref", "extinode", "apfsoid", "fatdirentry", "isoextent", "opaque"}
  BY DEF Fields
<1>6. \A w \in Literals : w \notin Cuts
  BY Zenon DEF Literals, Cuts, Structure
<1>7. \A w \in DOMAIN Fields \cup Numbered \cup Streams : w \notin Cuts
  BY <1>5, Zenon DEF Numbered, Cuts, Structure
<1>8. \A w \in Vocabulary \cup Numerals : w \notin Cuts
  BY CutsAre, WordsAssumption DEF Vocabulary
<1> HIDE DEF Streams, Numerals
<1>9. Literals \cup Vocabulary \cup DOMAIN Fields \cup Numbered \cup Streams \cup Numerals \subseteq Lexicon
  BY <1>1, <1>2, <1>3, <1>4
<1>10. \A w \in Literals \cup Vocabulary \cup DOMAIN Fields \cup Numbered \cup Streams \cup Numerals :
         w \notin Cuts
  BY <1>6, <1>7, <1>8
<1>11. QED
  BY <1>9, <1>10 DEF Streams, Numerals

\* A word without a cut.
Plain(w) == w \in Lexicon /\ w \notin Cuts

LEMMA PlainText ==
  ASSUME NEW w, Plain(w)
  PROVE  <<w>> \in Seq(Lexicon) /\ \A c \in Cuts : Free(<<w>>, c)
<1> DEFINE e == <<w>>
<1>1. w \in Lexicon /\ w \notin Cuts
  BY DEF Plain
<1>2. e \in Seq(Lexicon) /\ Len(e) = 1 /\ e[1] = w
  BY <1>1
<1> HIDE DEF e
<1>3. ASSUME NEW c \in Cuts PROVE Free(e, c)
  <2>1. \A i \in 1..1 : e[i] # c
    BY <1>1, <1>2
  <2>2. QED
    BY <1>2, <2>1 DEF Free
<1>4. QED
  BY <1>2, <1>3 DEF e

LEMMA NumeralText ==
  ASSUME NEW n \in 0..U64
  PROVE  Plain(ToString(n)) /\ Numeral(n) \in Seq(Lexicon) /\ \A c \in Cuts : Free(Numeral(n), c)
<1>1. Plain(ToString(n))
  BY WordsAre DEF Plain
<1>2. QED
  BY <1>1, PlainText DEF Numeral

\* A numeral is read as its number.
LEMMA NumberIs ==
  ASSUME NEW max \in 0..U64, NEW n \in 0..max
  PROVE  Number(Numeral(n), max) = {n}
<1> DEFINE x == ToString(n)
           t == <<x>>
           digits == IF t # <<>> /\ t[1] = "+" THEN Tail(t) ELSE t
<1>1. U64 \in Nat /\ n \in 0..U64
  BY LocatorUriAssumption
<1>2. x # "+"
  <2>1. Alphabet[13] \in ToSet(Alphabet)
    BY AlphabetIs
  <2>2. "+" \in ToSet(Alphabet)
    BY <2>1, AlphabetAre, Zenon
  <2>3. QED
    BY <1>1, <2>2, WordsAssumption
<1> HIDE DEF x
<1>3. t # <<>> /\ t[1] = x /\ Len(t) = 1
  OBVIOUS
<1>4. Front(t) = <<>>
  <2>1. Front(t) = SubSeq(t, 1, 0)
    BY <1>3 DEF Front
  <2>2. QED
    BY <2>1
<1>5. Last(t) = x
  BY <1>3 DEF Last
<1> HIDE DEF t
<1>6. digits = t
  BY <1>2, <1>3
<1> HIDE DEF digits
<1>7. ToSet(Front(digits)) \subseteq {"0"}
  BY <1>4, <1>6 DEF ToSet
<1>8. Number(Numeral(n), max) =
        {m \in 0..max : digits # <<>> /\ Last(digits) = ToString(m)
                         /\ ToSet(Front(digits)) \subseteq {"0"}}
  BY DEF Number, Numeral, digits, t, x
<1>9. Number(Numeral(n), max) = {m \in 0..max : x = ToString(m)}
  BY <1>3, <1>5, <1>6, <1>7, <1>8
<1>10. \A m \in 0..max : x = ToString(m) => m = n
  <2>1. \A m \in 0..max : m \in 0..U64
    BY <1>1
  <2>2. QED
    BY <1>1, <2>1, WordsAssumption DEF x
<1>11. QED
  BY <1>9, <1>10 DEF x

LEMMA NumberType == \A t, max : Number(t, max) \subseteq 0..max
BY DEF Number

\* A narrowed number fits, and one that fits stays.
LEMMA NarrowedIs ==
  ASSUME NEW max \in Nat, NEW n \in Nat
  PROVE  Narrowed(n, max) \in 0..max /\ (n \in 0..max => Narrowed(n, max) = n)
<1>1. n % (max + 1) \in 0..max
  OBVIOUS
<1>2. ASSUME n \in 0..max PROVE n % (max + 1) = n
  BY <1>2
<1>3. QED
  BY <1>1, <1>2 DEF Narrowed

-----------------------------------------------------------------------------
(***************************************************************************)
(* File ids and streams                                                    *)
(***************************************************************************)

LEMMA WordIs ==
  ASSUME NEW vocabulary
  PROVE  /\ \A w \in vocabulary : Word(<<w>>, vocabulary) = {w}
         /\ \A t : Word(t, vocabulary) \subseteq vocabulary
BY DEF Word

LEMMA FieldsAre ==
  ASSUME NEW k \in DOMAIN Fields
  PROVE  /\ DOMAIN Fields[k] = 1..Len(Fields[k]) /\ Len(Fields[k]) \in {1, 2}
         /\ \A i \in DOMAIN Fields[k] : Fields[k][i] \in 0..U64
<1>1. U64 \in Nat /\ U32 \in 0..U64 /\ U16 \in 0..U64 /\ U64 \in 0..U64
  BY LocatorUriAssumption
<1>2. k \in {"ntfsref", "extinode", "apfsoid", "fatdirentry", "isoextent", "opaque"}
  BY DEF Fields
<1>3. \/ \E a \in 0..U64, b \in 0..U64 : Fields[k] = <<a, b>>
      \/ \E a \in 0..U64 : Fields[k] = <<a>>
  BY <1>1, <1>2 DEF Fields
<1> DEFINE f == Fields[k]
<1> HIDE DEF f
<1>4. CASE \E a \in 0..U64, b \in 0..U64 : f = <<a, b>>
  <2>1. PICK a \in 0..U64, b \in 0..U64 : f = <<a, b>>
    BY <1>4
  <2>2. DOMAIN f = 1..2 /\ Len(f) = 2 /\ f[1] = a /\ f[2] = b
    BY <2>1
  <2>3. \A i \in 1..2 : f[i] \in 0..U64
    BY <2>2
  <2>4. QED
    BY <2>2, <2>3 DEF f
<1>5. CASE \E a \in 0..U64 : f = <<a>>
  <2>1. PICK a \in 0..U64 : f = <<a>>
    BY <1>5
  <2>2. DOMAIN f = 1..1 /\ Len(f) = 1 /\ f[1] = a
    BY <2>1
  <2>3. \A i \in 1..1 : f[i] \in 0..U64
    BY <2>2
  <2>4. QED
    BY <2>2, <2>3 DEF f
<1>6. QED
  BY <1>3, <1>4, <1>5 DEF f

LEMMA FileIdIs ==
  ASSUME NEW id
  PROVE  id \in FileId <=>
           \E k \in DOMAIN Fields : \E nums \in [DOMAIN Fields[k] -> 0..U64] :
              /\ id = [kind |-> k, nums |-> nums]
              /\ \A i \in DOMAIN Fields[k] : nums[i] <= Fields[k][i]
<1> DEFINE R(k) == {s \in [DOMAIN Fields[k] -> 0..U64] : \A i \in DOMAIN s : s[i] <= Fields[k][i]}
           Ids(k) == {[kind |-> k, nums |-> nums] : nums \in R(k)}
<1>1. FileId = UNION {Ids(k) : k \in DOMAIN Fields}
  BY DEF FileId
<1>2. \A k, s : s \in R(k) <=> /\ s \in [DOMAIN Fields[k] -> 0..U64]
                               /\ \A i \in DOMAIN Fields[k] : s[i] <= Fields[k][i]
  OBVIOUS
<1> HIDE DEF R
<1>3. \A k : id \in Ids(k) <=> \E nums \in R(k) : id = [kind |-> k, nums |-> nums]
  OBVIOUS
<1> HIDE DEF Ids
<1>4. id \in FileId <=> \E k \in DOMAIN Fields : id \in Ids(k)
  BY <1>1
<1>5. QED
  BY <1>2, <1>3, <1>4

\* The token of a file id, and that token in parts.
LEMMA FileIdText ==
  ASSUME NEW id \in FileId
  PROVE  LET ns == [i \in DOMAIN id.nums |-> Numeral(id.nums[i])]
         IN  /\ FileIdToken(id) = <<id.kind>> \o FlattenSeq(Led(ns, "."))
             /\ ns \in Seq(Seq(Lexicon)) /\ Len(ns) = Len(Fields[id.kind])
             /\ id.kind \in DOMAIN Fields /\ Plain(id.kind)
             /\ DOMAIN id.nums = DOMAIN Fields[id.kind]
             /\ \A i \in DOMAIN Fields[id.kind] :
                  id.nums[i] \in 0..Fields[id.kind][i] /\ ns[i] = Numeral(id.nums[i])
             /\ \A c \in Cuts : AllFree(ns, c)
<1> DEFINE ns == [i \in DOMAIN id.nums |-> Numeral(id.nums[i])]
<1>0. PICK k \in DOMAIN Fields : \E nums \in [DOMAIN Fields[k] -> 0..U64] :
              /\ id = [kind |-> k, nums |-> nums]
              /\ \A i \in DOMAIN Fields[k] : nums[i] <= Fields[k][i]
  BY FileIdIs
<1>1. PICK nums \in [DOMAIN Fields[k] -> 0..U64] :
              /\ id = [kind |-> k, nums |-> nums]
              /\ \A i \in DOMAIN Fields[k] : nums[i] <= Fields[k][i]
  BY <1>0
<1>2. id.kind = k /\ id.nums = nums
  BY <1>1
<1> DEFINE f == Fields[k]
           n == Len(f)
<1>3. DOMAIN f = 1..n /\ n \in {1, 2} /\ \A i \in 1..n : f[i] \in 0..U64
  BY FieldsAre
<1>4. Plain(k)
  BY WordsAre DEF Plain
<1> HIDE DEF f, n
<1>5. \A i \in 1..n : nums[i] \in 0..f[i] /\ nums[i] \in 0..U64
  <2>1. nums \in [1..n -> 0..U64]
    BY <1>3 DEF f
  <2>2. \A i \in 1..n : nums[i] \in 0..U64 /\ nums[i] <= f[i]
    BY <1>1, <1>3, <2>1 DEF f
  <2>3. U64 \in Nat
    BY LocatorUriAssumption
  <2>4. QED
    BY <1>3, <2>2, <2>3
<1>6. DOMAIN nums = 1..n
  BY <1>3 DEF f
<1>7. ns = [i \in 1..n |-> Numeral(nums[i])]
  BY <1>2, <1>6
<1> DEFINE T == Seq(Lexicon)
<1>8. \A i \in 1..n : Numeral(nums[i]) \in T /\ \A c \in Cuts : Free(Numeral(nums[i]), c)
  BY <1>5, NumeralText
<1>9. Led(ns, ".") = [i \in DOMAIN id.nums |-> <<".">> \o Numeral(id.nums[i])]
  BY DEF Led
<1>10. FileIdToken(id) = <<id.kind>> \o FlattenSeq(Led(ns, "."))
  BY <1>9 DEF FileIdToken
<1> HIDE DEF ns, T
<1>11. ns \in [1..n -> T] /\ \A i \in 1..n : ns[i] = Numeral(nums[i])
  BY <1>7, <1>8
<1>12. ns \in Seq(T) /\ Len(ns) = n
  <2>1. n \in Nat
    BY <1>3
  <2>2. QED
    BY <1>11, <2>1
<1>13. \A c \in Cuts : AllFree(ns, c)
  BY <1>8, <1>11, <1>12 DEF AllFree
<1>14. /\ DOMAIN id.nums = DOMAIN Fields[id.kind] /\ id.kind \in DOMAIN Fields /\ Plain(id.kind)
       /\ DOMAIN Fields[id.kind] = 1..n
  BY <1>2, <1>3, <1>4, <1>6 DEF f
<1>15. Len(ns) = Len(Fields[id.kind])
  BY <1>2, <1>12 DEF f, n
<1>16. ASSUME NEW i \in DOMAIN Fields[id.kind]
       PROVE  id.nums[i] \in 0..Fields[id.kind][i] /\ ns[i] = Numeral(id.nums[i])
  BY <1>2, <1>5, <1>11, <1>14 DEF f
<1>17. QED
  BY <1>10, <1>12, <1>13, <1>14, <1>15, <1>16 DEF ns, T

\* The token has no character that cuts a layer.
LEMMA FileIdFree ==
  ASSUME NEW id \in FileId
  PROVE  FileIdToken(id) \in Seq(Lexicon) /\ \A c \in Structure : Free(FileIdToken(id), c)
<1> DEFINE ns == [i \in DOMAIN id.nums |-> Numeral(id.nums[i])]
           k == id.kind
           d == Led(ns, ".")
<1>1. /\ FileIdToken(id) = <<k>> \o FlattenSeq(d) /\ ns \in Seq(Seq(Lexicon)) /\ Plain(k)
      /\ \A c \in Cuts : AllFree(ns, c)
  BY FileIdText
<1> HIDE DEF ns, k
<1>2. "." \in Lexicon
  BY CutsAre, ReservedAre DEF Cuts
<1>3. d \in Seq(Seq(Lexicon)) /\ Len(d) = Len(ns) /\ \A i \in 1..Len(ns) : d[i] = <<".">> \o ns[i]
  BY <1>1, <1>2, LedIs
<1>4. <<k>> \in Seq(Lexicon) /\ \A c \in Cuts : Free(<<k>>, c)
  BY <1>1, PlainText
<1> HIDE DEF d
<1> DEFINE e == <<k>>
<1>5. FlattenSeq(d) \in Seq(Lexicon) /\ e \in Seq(Lexicon)
  BY <1>3, <1>4, FlattenType
<1>6. ASSUME NEW c \in Structure PROVE Free(e \o FlattenSeq(d), c)
  <2>1. c \in Cuts /\ Free(e, c)
    BY <1>4, CutsAre
  <2>2. Free(<<".">>, c) /\ <<".">> \in Seq(Lexicon)
    <3>1. c # "."
      BY Zenon DEF Structure
    <3> DEFINE o == <<".">>
    <3>2. Len(o) = 1 /\ o[1] = "." /\ o \in Seq(Lexicon)
      BY <1>2
    <3> HIDE DEF o
    <3>3. \A i \in 1..1 : o[i] # c
      BY <3>1, <3>2
    <3>4. Free(o, c)
      BY <3>2, <3>3 DEF Free
    <3>5. QED
      BY <3>2, <3>4 DEF o
  <2>3. ASSUME NEW i \in 1..Len(d) PROVE Free(d[i], c)
    <3> DEFINE o == <<".">>
    <3>1. ns[i] \in Seq(Lexicon) /\ Free(ns[i], c) /\ d[i] = o \o ns[i]
      BY <1>1, <1>3, <2>1, ElementOfSeq DEF AllFree
    <3>2. Free(o, c) /\ o \in Seq(Lexicon)
      BY <2>2
    <3> HIDE DEF o
    <3>3. QED
      BY <3>1, <3>2, ConcatFree
  <2>4. Free(FlattenSeq(d), c)
    BY <1>3, <2>3, FlattenFree
  <2> HIDE DEF e
  <2>5. QED
    BY <1>5, <2>1, <2>4, ConcatFree
<1>7. e \o FlattenSeq(d) \in Seq(Lexicon)
  BY <1>5, ConcatProperties
<1>8. QED
  BY <1>1, <1>6, <1>7

\* A file id is read back, and what is read is a file id.
LEMMA ParseFileIdIs ==
  ASSUME NEW id \in FileId
  PROVE  ParseFileId(FileIdToken(id)) = {id}
<1> DEFINE ns == [i \in DOMAIN id.nums |-> Numeral(id.nums[i])]
           k == id.kind
           f == Fields[k]
           n == Len(f)
           e == <<k>>
           t == FileIdToken(id)
           p == Split(t, ".")
<1>1. /\ t = e \o FlattenSeq(Led(ns, ".")) /\ ns \in Seq(Seq(Lexicon)) /\ Len(ns) = n
      /\ k \in DOMAIN Fields /\ Plain(k) /\ DOMAIN id.nums = DOMAIN f
      /\ \A i \in DOMAIN f : id.nums[i] \in 0..f[i] /\ ns[i] = Numeral(id.nums[i])
      /\ AllFree(ns, ".")
  BY FileIdText DEF Cuts
<1>2. DOMAIN f = 1..n /\ n \in {1, 2} /\ \A i \in DOMAIN f : f[i] \in 0..U64
  BY <1>1, FieldsAre
<1> HIDE DEF ns
<1>3. p = <<e>> \o ns
  <2>1. "." \in Lexicon /\ "." \in Cuts
    BY CutsAre, ReservedAre DEF Cuts
  <2>2. e \in Seq(Lexicon) /\ Free(e, ".")
    BY <1>1, <2>1, PlainText
  <2> HIDE DEF e, t
  <2>3. QED
    BY <1>1, <2>1, <2>2, SplitLed
<1>4. e \in Seq(Lexicon)
  BY <1>1, PlainText
<1> HIDE DEF p, e, t
<1>5. Len(p) = 1 + n /\ p[1] = e /\ \A i \in 1..n : p[i + 1] = ns[i]
  <2> DEFINE o == <<e>>
  <2>1. o \in Seq(Seq(Lexicon)) /\ Len(o) = 1 /\ o[1] = e
    BY <1>4
  <2> HIDE DEF o
  <2>2. /\ Len(o \o ns) = Len(o) + Len(ns)
        /\ \A i \in 1..(Len(o) + Len(ns)) : (o \o ns)[i] = IF i <= Len(o) THEN o[i] ELSE ns[i - Len(o)]
    BY ZenonT(40), <1>1, <2>1, ConcatProperties
  <2> DEFINE q == o \o ns
  <2>3. /\ Len(q) = 1 + n
        /\ \A i \in 1..(1 + n) : q[i] = IF i <= 1 THEN o[i] ELSE ns[i - 1]
    BY <1>1, <2>1, <2>2
  <2>4. p = q
    BY <1>3 DEF o
  <2> HIDE DEF q, n
  <2>5. /\ 1 \in 1..(1 + n) /\ \A i \in 1..n : i + 1 \in 1..(1 + n) /\ ~(i + 1 <= 1) /\ (i + 1) - 1 = i
    BY <1>2
  <2>6. QED
    BY <2>1, <2>3, <2>4, <2>5
<1>6. Word(p[1], DOMAIN Fields) = {k}
  BY <1>1, <1>5, WordIs DEF e
<1>7. ASSUME NEW i \in 1..n
      PROVE  /\ Number(p[i + 1], U64) = {id.nums[i]}
             /\ Narrowed(id.nums[i], f[i]) = id.nums[i]
  <2>1. U64 \in Nat /\ f[i] \in 0..U64 /\ id.nums[i] \in 0..f[i] /\ p[i + 1] = Numeral(id.nums[i])
    BY <1>1, <1>2, <1>5, LocatorUriAssumption
  <2>2. U64 \in 0..U64 /\ id.nums[i] \in 0..U64 /\ f[i] \in Nat /\ id.nums[i] \in Nat
    BY <2>1
  <2>3. Number(p[i + 1], U64) = {id.nums[i]}
    BY <2>1, <2>2, NumberIs
  <2>4. Narrowed(id.nums[i], f[i]) = id.nums[i]
    BY <2>1, <2>2, NarrowedIs
  <2>5. QED
    BY <2>3, <2>4
<1> DEFINE R(x) == [i \in DOMAIN Fields[x] |->
                      Narrowed(CHOOSE m \in Number(p[i + 1], U64) : TRUE, Fields[x][i])]
           G(x) == \A i \in DOMAIN Fields[x] : i < Len(p) /\ Number(p[i + 1], U64) # {}
<1>8. ParseFileId(t) = {[kind |-> x, nums |-> R(x)] : x \in {x \in Word(p[1], DOMAIN Fields) : G(x)}}
  BY DEF ParseFileId, p
<1>9. G(k)
  <2>1. \A i \in 1..n : i < Len(p)
    BY <1>2, <1>5
  <2>2. QED
    BY <1>2, <1>7, <2>1
<1>10. R(k) = id.nums
  <2>1. \A i \in 1..n : Narrowed(CHOOSE m \in Number(p[i + 1], U64) : TRUE, f[i]) = id.nums[i]
    BY <1>7
  <2>2. R(k) = [i \in 1..n |-> id.nums[i]]
    BY <1>2, <2>1
  <2>3. \E s : s \in [1..n -> 0..U64] /\ id.nums = s
    <3>1. PICK x \in DOMAIN Fields : \E nums \in [DOMAIN Fields[x] -> 0..U64] :
                  id = [kind |-> x, nums |-> nums]
      BY FileIdIs
    <3>2. PICK nums \in [DOMAIN Fields[x] -> 0..U64] : id = [kind |-> x, nums |-> nums]
      BY <3>1
    <3>3. id.nums = nums /\ k = x
      BY <3>2
    <3>4. QED
      BY <1>2, <3>3
  <2>4. id.nums = [i \in 1..n |-> id.nums[i]]
    BY <2>3
  <2>5. QED
    BY <2>2, <2>4
<1> HIDE DEF R, G, f, n
<1>11. id = [kind |-> k, nums |-> id.nums]
  BY FileIdIs
<1> HIDE DEF k
<1>12. {x \in Word(p[1], DOMAIN Fields) : G(x)} = {k}
  BY <1>6, <1>9
<1>13. ParseFileId(t) = {[kind |-> k, nums |-> R(k)]}
  BY <1>8, <1>12
<1>14. QED
  BY <1>10, <1>11, <1>13 DEF t

LEMMA ParseFileIdType == \A t : ParseFileId(t) \subseteq FileId
<1>1. SUFFICES ASSUME NEW t, NEW id \in ParseFileId(t) PROVE id \in FileId
  OBVIOUS
<1> DEFINE p == Split(t, ".")
           R(k) == [i \in DOMAIN Fields[k] |->
                      Narrowed(CHOOSE m \in Number(p[i + 1], U64) : TRUE, Fields[k][i])]
           G(k) == \A i \in DOMAIN Fields[k] : i < Len(p) /\ Number(p[i + 1], U64) # {}
<1>2. ParseFileId(t) = {[kind |-> k, nums |-> R(k)] : k \in {k \in Word(p[1], DOMAIN Fields) : G(k)}}
  BY DEF ParseFileId
<1> HIDE DEF R, G
<1>3. PICK k \in Word(p[1], DOMAIN Fields) : G(k) /\ id = [kind |-> k, nums |-> R(k)]
  BY <1>2
<1>4. k \in DOMAIN Fields
  BY WordIs
<1> DEFINE f == Fields[k]
           r == R(k)
<1>5. \A i \in DOMAIN f : f[i] \in 0..U64
  BY <1>4, FieldsAre
<1>6. r = [i \in DOMAIN f |-> Narrowed(CHOOSE m \in Number(p[i + 1], U64) : TRUE, f[i])]
  BY DEF R
<1>7. \A i \in DOMAIN f : Number(p[i + 1], U64) # {}
  BY <1>3 DEF G
<1> HIDE DEF f, r, p
<1>8. ASSUME NEW i \in DOMAIN f PROVE r[i] \in 0..U64 /\ r[i] <= f[i]
  <2> DEFINE m == CHOOSE m \in Number(p[i + 1], U64) : TRUE
  <2>1. m \in 0..U64
    BY <1>7, NumberType
  <2>2. U64 \in Nat /\ f[i] \in 0..U64
    BY <1>5, LocatorUriAssumption
  <2>3. r[i] = Narrowed(m, f[i])
    BY <1>6
  <2> HIDE DEF m
  <2>4. m \in Nat /\ f[i] \in Nat
    BY <2>1, <2>2
  <2>5. r[i] \in 0..f[i]
    BY <2>3, <2>4, NarrowedIs
  <2>6. QED
    BY <2>2, <2>5
<1>9. r \in [DOMAIN f -> 0..U64]
  BY <1>6, <1>8
<1>10. id = [kind |-> k, nums |-> r]
  BY <1>3 DEF r
<1>11. QED
  BY <1>4, <1>8, <1>9, <1>10, FileIdIs DEF f

LEMMA PairIs ==
  ASSUME NEW W, NEW a \in W, NEW b \in W
  PROVE  Append(<<a>>, b) = <<a, b>> /\ <<a, b>> \in Seq(W)
<1> DEFINE s == <<a>>
           p == Append(s, b)
           q == <<a, b>>
<1>1. s \in Seq(W) /\ Len(s) = 1 /\ s[1] = a
  OBVIOUS
<1>2. q \in Seq(W) /\ Len(q) = 2 /\ q[1] = a /\ q[2] = b
  OBVIOUS
<1> HIDE DEF s, q
<1>3. /\ p \in Seq(W) /\ Len(p) = Len(s) + 1 /\ p[Len(s) + 1] = b
      /\ \A i \in 1..Len(s) : p[i] = s[i]
  <2>1. \A r \in Seq(W), x \in W :
           /\ Append(r, x) \in Seq(W) /\ Len(Append(r, x)) = Len(r) + 1
           /\ Append(r, x)[Len(r) + 1] = x
           /\ \A i \in 1..Len(r) : Append(r, x)[i] = r[i]
    BY AppendProperties
  <2>2. s \in Seq(W)
    BY <1>1
  <2>3. QED
    BY <2>1, <2>2
<1> HIDE DEF p
<1>4. Len(p) = 2 /\ p[1] = a /\ p[2] = b
  BY <1>1, <1>3
<1>5. \A i \in 1..2 : p[i] = q[i]
  BY <1>2, <1>4
<1>6. p = q
  BY <1>2, <1>3, <1>4, <1>5, SeqEqual
<1>7. QED
  BY <1>2, <1>6 DEF p, q, s

LEMMA PairConcat ==
  ASSUME NEW V, NEW a \in V, NEW b \in V, NEW t \in Seq(V)
  PROVE  <<a, b>> \o t = <<a>> \o (<<b>> \o t)
<1> DEFINE x == <<a>>
           y == <<b>>
<1>1. x \in Seq(V) /\ y \in Seq(V)
  OBVIOUS
<1>2. x \o y = <<a, b>>
  <2>1. Append(x, b) = <<a, b>>
    BY PairIs
  <2> HIDE DEF x
  <2>2. Append(x, b) = x \o y
    BY <1>1, AppendIsConcat
  <2>3. QED
    BY <2>1, <2>2
<1> HIDE DEF x, y
<1>3. \A r, s, u \in Seq(V) : (r \o s) \o u = r \o (s \o u)
  BY SMTT(40), ConcatThree
<1>4. (x \o y) \o t = x \o (y \o t)
  BY <1>1, <1>3
<1>5. QED
  BY <1>2, <1>4 DEF x, y

StreamWords == {"default", "resourcefork", "slack"}

LEMMA StreamIdIs ==
  ASSUME NEW s
  PROVE  s \in StreamId <=>
           \/ \E k \in StreamWords : s = [kind |-> k]
           \/ \E k \in Numbered : \E n \in 0..U16 : s = [kind |-> k, n |-> n]
BY DEF StreamId, StreamWords

\* The token of a stream, and that token in parts.
LEMMA StreamText ==
  ASSUME NEW s \in StreamId
  PROVE  /\ StreamToken(s) \in Seq(Lexicon) /\ \A c \in Structure : Free(StreamToken(s), c)
         /\ s.kind \in Numbered => Split(StreamToken(s), ".") = << <<s.kind>>, Numeral(s.n) >>
         /\ s.kind \notin Numbered => Split(StreamToken(s), ".") = << <<s.kind>> >>
<1>1. U16 \in 0..U64 /\ U64 \in Nat
  BY LocatorUriAssumption
<1>2. "." \in Lexicon /\ "." \in Cuts
  BY CutsAre, ReservedAre DEF Cuts
<1>3. CASE \E k \in StreamWords : s = [kind |-> k]
  <2>1. PICK k \in StreamWords : s = [kind |-> k]
    BY <1>3
  <2>2. s.kind = k /\ k \notin Numbered
    BY <2>1 DEF StreamWords, Numbered
  <2>3. Plain(k)
    BY WordsAre DEF Plain, StreamWords
  <2> DEFINE e == <<k>>
  <2>4. StreamToken(s) = e
    BY <2>2 DEF StreamToken
  <2>5. e \in Seq(Lexicon) /\ \A c \in Cuts : Free(e, c)
    BY <2>3, PlainText
  <2>6. Split(e, ".") = <<e>>
    <3> HIDE DEF e
    <3>1. QED
      BY <1>2, <2>5, SplitFree
  <2>7. \A c \in Structure : Free(e, c)
    BY <2>5, CutsAre
  <2> HIDE DEF e
  <2>8. QED
    BY <2>2, <2>4, <2>5, <2>6, <2>7 DEF e
<1>4. CASE \E k \in Numbered : \E n \in 0..U16 : s = [kind |-> k, n |-> n]
  <2>1. PICK k \in Numbered : \E n \in 0..U16 : s = [kind |-> k, n |-> n]
    BY <1>4
  <2>2. PICK n \in 0..U16 : s = [kind |-> k, n |-> n]
    BY <2>1
  <2>3. s.kind = k /\ s.n = n /\ n \in 0..U64
    BY <1>1, <2>2
  <2>4. Plain(k)
    BY WordsAre DEF Plain
  <2> DEFINE e == <<k>>
             o == <<".">>
             x == Numeral(n)
  <2>5. e \in Seq(Lexicon) /\ \A c \in Cuts : Free(e, c)
    BY <2>4, PlainText
  <2>6. x \in Seq(Lexicon) /\ \A c \in Cuts : Free(x, c)
    BY <2>3, NumeralText
  <2>7. StreamToken(s) = e \o (o \o x)
    <3>1. StreamToken(s) = <<k, ".">> \o x
      BY <2>3 DEF StreamToken
    <3>2. k \in Lexicon
      BY <2>4 DEF Plain
    <3> HIDE DEF x
    <3>3. QED
      BY SMTT(40), <1>2, <2>6, <3>1, <3>2, PairConcat
  <2>8. Split(e, ".") = <<e>>
    <3> HIDE DEF e
    <3>1. QED
      BY <1>2, <2>5, SplitFree
  <2>9. Split(e \o (o \o x), ".") = Append(Split(e, "."), x)
    <3> HIDE DEF e, x
    <3>1. QED
      BY <1>2, <2>5, <2>6, SplitPart
  <2>10. o \in Seq(Lexicon) /\ \A c \in Structure : Free(o, c)
    <3>1. o \in Seq(Lexicon) /\ Len(o) = 1 /\ o[1] = "."
      BY <1>2
    <3>2. \A c \in Structure : c # "."
      BY Zenon DEF Structure
    <3> HIDE DEF o
    <3>3. ASSUME NEW c \in Structure PROVE Free(o, c)
      <4>1. \A i \in 1..1 : o[i] # c
        BY <3>1, <3>2
      <4>2. QED
        BY <3>1, <4>1 DEF Free
    <3>4. QED
      BY <3>1, <3>3
  <2> HIDE DEF e, o, x
  <2>11. e \o (o \o x) \in Seq(Lexicon) /\ o \o x \in Seq(Lexicon)
    BY <2>5, <2>6, <2>10, ConcatThree
  <2>12. ASSUME NEW c \in Structure PROVE Free(e \o (o \o x), c)
    <3>1. Free(e, c) /\ Free(o, c) /\ Free(x, c)
      BY <2>5, <2>6, <2>10, CutsAre
    <3>2. Free(o \o x, c)
      BY <2>6, <2>10, <3>1, ConcatFree
    <3>3. QED
      BY <2>5, <2>11, <3>1, <3>2, ConcatFree
  <2>13. Split(StreamToken(s), ".") = <<e, x>>
    <3>1. Append(<<e>>, x) = <<e, x>>
      BY <2>5, <2>6, PairIs
    <3>2. QED
      BY <2>7, <2>8, <2>9, <3>1
  <2>14. QED
    BY <2>3, <2>7, <2>11, <2>12, <2>13 DEF e, x
<1>5. QED
  BY <1>3, <1>4, StreamIdIs

\* A stream is read back, and what is read is a stream.
LEMMA ParseStreamIs ==
  ASSUME NEW s \in StreamId
  PROVE  ParseStream(StreamToken(s)) = {s}
<1> DEFINE t == StreamToken(s)
           p == Split(t, ".")
           N == IF Len(p) = 1 THEN {} ELSE Number(p[2], U32)
<1>1. U16 \in 0..U32 /\ U32 \in 0..U64 /\ U64 \in Nat
  BY LocatorUriAssumption
<1>2. ParseStream(t) = {[kind |-> k] : k \in Word(p[1], StreamWords)}
                       \cup {[kind |-> k, n |-> Narrowed(n, U16)] : k \in Word(p[1], Numbered), n \in N}
  BY DEF ParseStream, StreamWords
<1>3. CASE \E k \in StreamWords : s = [kind |-> k]
  <2>1. PICK k \in StreamWords : s = [kind |-> k]
    BY <1>3
  <2>2. s.kind = k /\ k \notin Numbered
    BY <2>1 DEF StreamWords, Numbered
  <2>3. p = << <<k>> >>
    BY <2>2, StreamText
  <2> HIDE DEF p
  <2>4. p[1] = <<k>> /\ Len(p) = 1
    BY <2>3
  <2>5. Word(p[1], StreamWords) = {k} /\ Word(p[1], Numbered) = {}
    BY <2>2, <2>4, WordIs DEF Word
  <2>6. ParseStream(t) = {[kind |-> k]}
    BY <1>2, <2>5
  <2>7. QED
    BY <2>1, <2>6
<1>4. CASE \E k \in Numbered : \E n \in 0..U16 : s = [kind |-> k, n |-> n]
  <2>1. PICK k \in Numbered : \E n \in 0..U16 : s = [kind |-> k, n |-> n]
    BY <1>4
  <2>2. PICK n \in 0..U16 : s = [kind |-> k, n |-> n]
    BY <2>1
  <2>3. s.kind = k /\ s.n = n /\ n \in 0..U32 /\ n \in Nat /\ U16 \in Nat
    BY <1>1, <2>2
  <2>4. k \notin StreamWords
    BY DEF StreamWords, Numbered
  <2>5. p = << <<k>>, Numeral(n) >>
    BY <2>3, StreamText
  <2> HIDE DEF p
  <2>6. p[1] = <<k>> /\ Len(p) = 2 /\ p[2] = Numeral(n)
    BY <2>5
  <2>7. Word(p[1], StreamWords) = {} /\ Word(p[1], Numbered) = {k}
    BY <2>4, <2>6, WordIs DEF Word
  <2>8. N = {n}
    BY <1>1, <2>3, <2>6, NumberIs
  <2> HIDE DEF N
  <2>9. Narrowed(n, U16) = n
    BY <2>3, NarrowedIs
  <2>10. ParseStream(t) = {[kind |-> k, n |-> n]}
    BY <1>2, <2>7, <2>8, <2>9
  <2>11. QED
    BY <2>2, <2>10
<1>5. QED
  BY <1>3, <1>4, StreamIdIs

LEMMA ParseStreamType == \A t : ParseStream(t) \subseteq StreamId
<1>1. SUFFICES ASSUME NEW t, NEW s \in ParseStream(t) PROVE s \in StreamId
  OBVIOUS
<1> DEFINE p == Split(t, ".")
           N == IF Len(p) = 1 THEN {} ELSE Number(p[2], U32)
<1>2. ParseStream(t) = {[kind |-> k] : k \in Word(p[1], StreamWords)}
                       \cup {[kind |-> k, n |-> Narrowed(n, U16)] : k \in Word(p[1], Numbered), n \in N}
  BY DEF ParseStream, StreamWords
<1>3. U16 \in Nat /\ U32 \in Nat
  BY LocatorUriAssumption
<1>4. N \subseteq Nat
  BY <1>3, NumberType
<1>5. Word(p[1], StreamWords) \subseteq StreamWords /\ Word(p[1], Numbered) \subseteq Numbered
  BY WordIs
<1> HIDE DEF p, N
<1>6. CASE s \in {[kind |-> k] : k \in Word(p[1], StreamWords)}
  BY <1>5, <1>6, StreamIdIs
<1>7. CASE s \in {[kind |-> k, n |-> Narrowed(n, U16)] : k \in Word(p[1], Numbered), n \in N}
  <2>1. PICK k \in Word(p[1], Numbered), n \in N : s = [kind |-> k, n |-> Narrowed(n, U16)]
    BY <1>7
  <2>2. k \in Numbered /\ Narrowed(n, U16) \in 0..U16
    BY <1>3, <1>4, <1>5, NarrowedIs
  <2>3. QED
    BY <2>1, <2>2, StreamIdIs
<1>8. QED
  BY <1>2, <1>6, <1>7

-----------------------------------------------------------------------------
(***************************************************************************)
(* Paths and nodes                                                         *)
(***************************************************************************)

\* The components of a path, escaped.
Names(path) == [i \in DOMAIN path |-> PctEncode(path[i])]

LEMMA NamesAre ==
  ASSUME NEW path \in Seq(Name)
  PROVE  /\ Names(path) \in Seq(Seq(Lexicon)) /\ Len(Names(path)) = Len(path)
         /\ \A i \in 1..Len(path) : path[i] \in Seq(Lexicon) /\ Names(path)[i] = PctEncode(path[i])
         /\ \A c \in Structure : AllFree(Names(path), c)
<1> HIDE DEF Lexicon, Structure, Free
<1> DEFINE N == Len(path)
<1>1. N \in Nat /\ DOMAIN path = 1..N /\ \A i \in 1..N : path[i] \in Seq(Lexicon)
  BY DEF Name
<1>2. \A i \in 1..N : PctEncode(path[i]) \in Seq(Lexicon)
                      /\ \A c \in Structure : Free(PctEncode(path[i]), c)
  BY <1>1, EncodeText
<1> HIDE DEF N
<1>3. Names(path) \in Seq(Seq(Lexicon)) /\ Len(Names(path)) = N
      /\ \A i \in 1..N : Names(path)[i] = PctEncode(path[i])
  BY <1>1, <1>2 DEF Names
<1>4. \A c \in Structure : AllFree(Names(path), c)
  BY <1>2, <1>3 DEF AllFree
<1>5. QED
  BY <1>1, <1>3, <1>4 DEF N

\* What follows the first slash of a path.
Within(path) == FlattenSeq(Joined(Names(path), "/"))

LEMMA UnslashedIs ==
  /\ \A t \in Seq(Lexicon) : Unslashed(t) \in Seq(Lexicon)
  /\ \A t \in Seq(Lexicon) : Unslashed(<<"/">> \o t) = t
  /\ \A t \in Seq(Lexicon) : t = <<>> \/ t[1] # "/" => Unslashed(t) = t
<1> HIDE DEF Lexicon
<1>1. "/" \in Lexicon
  BY ReservedAre DEF Structure
<1>2. \A t \in Seq(Lexicon) : t # <<>> => Tail(t) \in Seq(Lexicon)
  OBVIOUS
<1>3. ASSUME NEW t \in Seq(Lexicon) PROVE Unslashed(<<"/">> \o t) = t
  <2> DEFINE u == <<"/">> \o t
  <2>1. u \in Seq(Lexicon) /\ u # <<>> /\ u[1] = "/" /\ Tail(u) = t
    BY <1>1
  <2> HIDE DEF u
  <2>2. Unslashed(u) = t
    BY <2>1 DEF Unslashed
  <2>3. QED
    BY <2>2 DEF u
<1>4. QED
  BY <1>2, <1>3 DEF Unslashed

LEMMA CompsAre ==
  ASSUME NEW path \in Seq(Name)
  PROVE  /\ Comps(path) \in Seq(Lexicon)
         /\ \A c \in Structure \ {"/"} : Free(Comps(path), c)
         /\ path = <<>> => Comps(path) = <<>>
         /\ path # <<>> => /\ Within(path) \in Seq(Lexicon)
                           /\ Comps(path) = <<"/">> \o Within(path)
                           /\ Split(Within(path), "/") = Names(path)
<1> HIDE DEF Lexicon, Structure, Free
<1> DEFINE ns == Names(path)
<1>1. ns \in Seq(Seq(Lexicon)) /\ Len(ns) = Len(path) /\ Len(path) \in Nat
      /\ \A c \in Structure : AllFree(ns, c)
  BY NamesAre
<1>2. DOMAIN ns = DOMAIN path /\ \A i \in DOMAIN path : ns[i] = PctEncode(path[i])
  BY DEF Names
<1>3. Comps(path) = FlattenSeq(Led(ns, "/"))
  BY <1>2 DEF Comps, Led
<1>4. "/" \in Structure /\ "/" \in Lexicon
  BY ReservedAre DEF Structure
<1> HIDE DEF ns
<1>5. /\ Led(ns, "/") \in Seq(Seq(Lexicon)) /\ Len(Led(ns, "/")) = Len(ns)
      /\ \A i \in 1..Len(ns) : Led(ns, "/")[i] = <<"/">> \o ns[i]
  BY <1>1, <1>4, LedIs
<1>6. Comps(path) \in Seq(Lexicon)
  BY <1>3, <1>5, FlattenType
<1>7. \A c \in Structure \ {"/"} : Free(Comps(path), c)
  <2> SUFFICES ASSUME NEW c \in Structure \ {"/"} PROVE Free(Comps(path), c)
    OBVIOUS
  <2>1. <<"/">> \in Seq(Lexicon) /\ Free(<<"/">>, c)
    BY <1>4 DEF Free
  <2>2. \A i \in 1..Len(ns) : ns[i] \in Seq(Lexicon) /\ Free(ns[i], c)
    BY <1>1 DEF AllFree
  <2>3. \A i \in 1..Len(ns) : Free(<<"/">> \o ns[i], c)
    BY <2>1, <2>2, ConcatFree
  <2>4. \A i \in 1..Len(Led(ns, "/")) : Free(Led(ns, "/")[i], c)
    BY <1>5, <2>3
  <2>5. QED
    BY <1>3, <1>5, <2>4, FlattenFree
<1>8. path = <<>> => Comps(path) = <<>>
  <2> SUFFICES ASSUME path = <<>> PROVE Comps(path) = <<>>
    OBVIOUS
  <2>1. ns = <<>>
    BY <1>1
  <2>2. QED
    BY <1>3, <2>1, NoTexts
<1>9. path # <<>> => /\ Within(path) \in Seq(Lexicon)
                     /\ Comps(path) = <<"/">> \o Within(path)
                     /\ Split(Within(path), "/") = ns
  <2> SUFFICES ASSUME path # <<>>
               PROVE  /\ Within(path) \in Seq(Lexicon)
                      /\ Comps(path) = <<"/">> \o Within(path)
                      /\ Split(Within(path), "/") = ns
    OBVIOUS
  <2>1. ns # <<>> /\ AllFree(ns, "/")
    BY <1>1, <1>4
  <2>2. Within(path) = FlattenSeq(Joined(ns, "/"))
    BY DEF Within, ns
  <2>3. Joined(ns, "/") \in Seq(Seq(Lexicon))
    BY <1>1, <1>4, JoinedIs
  <2>4. Within(path) \in Seq(Lexicon)
    BY <2>2, <2>3, FlattenType
  <2>5. FlattenSeq(Led(ns, "/")) = <<"/">> \o FlattenSeq(Joined(ns, "/"))
    BY <1>1, <1>4, <2>1, LedJoined
  <2>6. Split(FlattenSeq(Joined(ns, "/")), "/") = ns
    BY <1>1, <1>4, <2>1, SplitJoined
  <2>7. QED
    BY <1>3, <2>2, <2>4, <2>5, <2>6
<1>10. QED
  BY <1>6, <1>7, <1>8, <1>9 DEF ns

\* The names the parts stand for.
Decoded(ps) == [i \in DOMAIN ps |-> CHOOSE name \in PctDecode(ps[i]) : TRUE]

LEMMA DecodeCompsIs ==
  ASSUME NEW t
  PROVE  DecodeComps(t) =
           IF \E i \in DOMAIN Split(t, "/") : PctDecode(Split(t, "/")[i]) = {} THEN {}
           ELSE {Decoded(Split(t, "/"))}
BY DEF DecodeComps, Decoded

LEMMA DecodeWithin ==
  ASSUME NEW path \in Seq(Name), path # <<>>
  PROVE  DecodeComps(Within(path)) = {path}
<1> HIDE DEF Lexicon, Structure, Free
<1> DEFINE ps == Names(path)
<1>1. Split(Within(path), "/") = ps
  BY CompsAre
<1>2. ps \in Seq(Seq(Lexicon)) /\ Len(ps) = Len(path)
      /\ \A i \in 1..Len(path) : path[i] \in Seq(Lexicon) /\ ps[i] = PctEncode(path[i])
  BY NamesAre
<1>3. \A i \in 1..Len(path) : PctDecode(ps[i]) = {path[i]}
  BY <1>2, DecodeEncode
<1> HIDE DEF ps
<1>4. DOMAIN ps = 1..Len(path) /\ DOMAIN path = 1..Len(path)
  BY <1>2
<1>5. \A i \in 1..Len(path) : (CHOOSE name \in PctDecode(ps[i]) : TRUE) = path[i]
  BY <1>3
<1>6. Decoded(ps) = path
  BY <1>4, <1>5 DEF Decoded
<1>7. ~\E i \in DOMAIN ps : PctDecode(ps[i]) = {}
  BY <1>3, <1>4
<1>8. QED
  BY <1>1, <1>6, <1>7, DecodeCompsIs

LEMMA DecodeCompsType == \A t \in Seq(Lexicon) : DecodeComps(t) \subseteq Seq(Name)
<1> HIDE DEF Lexicon
<1> SUFFICES ASSUME NEW t \in Seq(Lexicon), NEW path \in DecodeComps(t) PROVE path \in Seq(Name)
  OBVIOUS
<1> DEFINE ps == Split(t, "/")
<1>1. ps \in Seq(Seq(Lexicon))
  BY SplitType
<1>2. /\ ~\E i \in DOMAIN ps : PctDecode(ps[i]) = {}
      /\ path = Decoded(ps)
  BY DecodeCompsIs
<1> HIDE DEF ps
<1>3. DOMAIN ps = 1..Len(ps) /\ Len(ps) \in Nat /\ \A i \in 1..Len(ps) : ps[i] \in Seq(Lexicon)
  BY <1>1
<1>4. \A i \in 1..Len(ps) : PctDecode(ps[i]) # {} /\ PctDecode(ps[i]) \subseteq Seq(Lexicon)
  BY <1>2, <1>3, DecodeType
<1>5. \A i \in 1..Len(ps) : (CHOOSE name \in PctDecode(ps[i]) : TRUE) \in Seq(Lexicon)
  BY <1>4
<1>6. QED
  BY <1>2, <1>3, <1>5 DEF Name, Decoded

LEMMA PathOfIs ==
  /\ \A path \in Seq(Name) : PathOf(Comps(path)) = {path}
  /\ \A t \in Seq(Lexicon) : PathOf(t) \subseteq Seq(Name)
<1> HIDE DEF Lexicon, Structure
<1>1. ASSUME NEW path \in Seq(Name), path = <<>> PROVE PathOf(Comps(path)) = {path}
  BY <1>1, CompsAre DEF PathOf
<1>2. ASSUME NEW path \in Seq(Name), path # <<>> PROVE PathOf(Comps(path)) = {path}
  <2>1. Within(path) \in Seq(Lexicon) /\ Comps(path) = <<"/">> \o Within(path)
    BY <1>2, CompsAre
  <2>2. Unslashed(Comps(path)) = Within(path)
    BY <2>1, UnslashedIs
  <2>3. <<"/">> \o Within(path) # <<>>
    BY <2>1
  <2>4. QED
    BY <1>2, <2>1, <2>2, <2>3, DecodeWithin DEF PathOf
<1>3. ASSUME NEW t \in Seq(Lexicon) PROVE PathOf(t) \subseteq Seq(Name)
  <2>1. Unslashed(t) \in Seq(Lexicon)
    BY UnslashedIs
  <2>2. DecodeComps(Unslashed(t)) \subseteq Seq(Name)
    BY <2>1, DecodeCompsType
  <2>3. {<<>>} \subseteq Seq(Name)
    BY DEF Name
  <2>4. QED
    BY <2>2, <2>3 DEF PathOf
<1>4. QED
  BY <1>1, <1>2, <1>3

LEMMA NodeAddrIs ==
  ASSUME NEW a
  PROVE  a \in NodeAddr <=>
           \/ \E path \in Seq(Name) : a = [by |-> "path", path |-> path]
           \/ \E id \in FileId : a = [by |-> "file", id |-> id]
           \/ \E id \in FileId : \E path \in Seq(Name) : a = [by |-> "both", id |-> id, path |-> path]
<1> HIDE DEF FileId, Name
<1>1. QED
  BY DEF NodeAddr

\* The first word of a text and what is left of it.
LEMMA HeadIs ==
  ASSUME NEW V, NEW x \in V, NEW t \in Seq(V)
  PROVE  /\ <<x>> \o t \in Seq(V) /\ <<x>> \o t # <<>>
         /\ (<<x>> \o t)[1] = x /\ Tail(<<x>> \o t) = t
OBVIOUS

LEMMA ParseBothIs ==
  ASSUME NEW id \in FileId, NEW path \in Seq(Name)
  PROVE  /\ FileIdToken(id) \o Comps(path) \in Seq(Lexicon)
         /\ \A c \in Structure \ {"/"} : Free(FileIdToken(id) \o Comps(path), c)
         /\ ParseBoth(FileIdToken(id) \o Comps(path)) = {[by |-> "both", id |-> id, path |-> path]}
<1> HIDE DEF Lexicon, Structure, Free, FileId, Name
<1> DEFINE u == FileIdToken(id)
           v == Comps(path)
           both == [by |-> "both", id |-> id, path |-> path]
<1>1. "/" \in Structure /\ "/" \in Lexicon
  BY ReservedAre DEF Structure
<1>2. u \in Seq(Lexicon) /\ Free(u, "/") /\ \A c \in Structure : Free(u, c)
  BY <1>1, FileIdFree
<1>3. v \in Seq(Lexicon) /\ \A c \in Structure \ {"/"} : Free(v, c)
  BY CompsAre
<1>4. ParseFileId(u) = {id}
  BY ParseFileIdIs
<1> HIDE DEF u, v
<1>5. u \o v \in Seq(Lexicon)
  BY <1>2, <1>3
<1>6. \A c \in Structure \ {"/"} : Free(u \o v, c)
  BY <1>2, <1>3, ConcatFree
<1>7. CASE path = <<>>
  <2>1. v = <<>>
    BY <1>7, CompsAre DEF v
  <2>2. u \o v = u
    BY <1>2, <2>1
  <2>3. SplitOnce(u \o v, "/") = {}
    BY <1>2, <2>2, SplitOnceFree
  <2>4. ParseBoth(u \o v) = {[by |-> "both", id |-> i, path |-> <<>>] : i \in ParseFileId(u \o v)}
    BY <2>3 DEF ParseBoth
  <2>5. ParseBoth(u \o v) = {[by |-> "both", id |-> i, path |-> <<>>] : i \in {id}}
    BY <1>4, <2>2, <2>4
  <2>6. @ = {both}
    BY <1>7
  <2>7. ParseBoth(u \o v) = {both}
    BY <2>5, <2>6
  <2>8. QED
    BY <1>5, <1>6, <2>7 DEF u, v
<1>8. CASE path # <<>>
  <2> DEFINE w == Within(path)
  <2>1. w \in Seq(Lexicon) /\ v = <<"/">> \o w
    BY <1>8, CompsAre DEF v
  <2>2. DecodeComps(w) = {path}
    BY <1>8, DecodeWithin
  <2> HIDE DEF w
  <2>3. SplitOnce(u \o v, "/") = {<<u, w>>}
    BY <1>1, <1>2, <2>1, SplitOnceIs
  <2>4. ParseBoth(u \o v) =
          UNION {{[by |-> "both", id |-> i, path |-> p] :
                    i \in ParseFileId(c[1]), p \in DecodeComps(c[2])} : c \in {<<u, w>>}}
    BY <2>3 DEF ParseBoth
  <2>5. @ = {[by |-> "both", id |-> i, path |-> p] : i \in ParseFileId(u), p \in DecodeComps(w)}
    OBVIOUS
  <2>6. @ = {both}
    BY <1>4, <2>2
  <2>7. ParseBoth(u \o v) = {both}
    BY <2>4, <2>5, <2>6
  <2>8. QED
    BY <1>5, <1>6, <2>7 DEF u, v
<1>9. QED
  BY <1>7, <1>8

LEMMA ParseBothType == \A t \in Seq(Lexicon) : ParseBoth(t) \subseteq NodeAddr
<1> HIDE DEF Lexicon, FileId, Name
<1> SUFFICES ASSUME NEW t \in Seq(Lexicon), NEW a \in ParseBoth(t) PROVE a \in NodeAddr
  OBVIOUS
<1>1. <<>> \in Seq(Name)
  OBVIOUS
<1>2. CASE SplitOnce(t, "/") = {}
  <2>1. \E id \in ParseFileId(t) : a = [by |-> "both", id |-> id, path |-> <<>>]
    BY <1>2 DEF ParseBoth
  <2>2. QED
    BY <1>1, <2>1, ParseFileIdType, NodeAddrIs
<1>3. CASE SplitOnce(t, "/") # {}
  <2>1. PICK c \in SplitOnce(t, "/") :
          a \in {[by |-> "both", id |-> id, path |-> path] :
                   id \in ParseFileId(c[1]), path \in DecodeComps(c[2])}
    BY <1>3 DEF ParseBoth
  <2>2. PICK id \in ParseFileId(c[1]), path \in DecodeComps(c[2]) :
          a = [by |-> "both", id |-> id, path |-> path]
    BY <2>1
  <2>3. c[2] \in Seq(Lexicon)
    BY SplitOnceType
  <2>4. id \in FileId /\ path \in Seq(Name)
    BY <2>3, ParseFileIdType, DecodeCompsType
  <2>5. QED
    BY <2>2, <2>4, NodeAddrIs
<1>4. QED
  BY <1>2, <1>3

LEMMA NodeWords ==
  /\ "p" \in Lexicon /\ "f" \in Lexicon /\ "b" \in Lexicon /\ "/" \in Lexicon
  /\ \A c \in Structure \ {"/"} :
       Free(<<"p">>, c) /\ Free(<<"f">>, c) /\ Free(<<"b">>, c) /\ Free(<<"/">>, c)
<1>1. "p" \in Lexicon /\ "f" \in Lexicon /\ "b" \in Lexicon
  BY DEF Lexicon
<1>2. "/" \in Lexicon
  BY ReservedAre DEF Structure
<1>3. "p" \notin Structure /\ "f" \notin Structure /\ "b" \notin Structure
  BY Zenon DEF Structure
<1> HIDE DEF Structure, Lexicon
<1>4. QED
  BY <1>1, <1>2, <1>3 DEF Free

\* A node is read back from its text, which holds no character of structure
\* but slashes.
LEMMA ParseNodeAddrIs ==
  ASSUME NEW a \in NodeAddr
  PROVE  /\ NodeAddrEncode(a) \in Seq(Lexicon)
         /\ \A c \in Structure \ {"/"} : Free(NodeAddrEncode(a), c)
         /\ ParseNodeAddr(NodeAddrEncode(a)) = {a}
<1> HIDE DEF Lexicon, Structure, Free, FileId, Name, NodeAddr
<1>1. CASE \E path \in Seq(Name) : a = [by |-> "path", path |-> path]
  <2>1. PICK path \in Seq(Name) : a = [by |-> "path", path |-> path]
    BY <1>1
  <2> DEFINE v == Comps(path)
             t == <<"p">> \o v
  <2>2. NodeAddrEncode(a) = t
    BY <2>1 DEF NodeAddrEncode
  <2>3. v \in Seq(Lexicon) /\ \A c \in Structure \ {"/"} : Free(v, c)
    BY CompsAre
  <2>4. PathOf(v) = {path}
    BY PathOfIs
  <2> HIDE DEF v
  <2>5. t \in Seq(Lexicon) /\ t # <<>> /\ t[1] = "p" /\ Tail(t) = v
    BY <2>3, NodeWords, HeadIs
  <2>6. \A c \in Structure \ {"/"} : Free(t, c)
    <3>1. <<"p">> \in Seq(Lexicon)
      BY NodeWords
    <3>2. QED
      BY <2>3, <3>1, NodeWords, ConcatFree
  <2> HIDE DEF t
  <2>7. ParseNodeAddr(t) = {[by |-> "path", path |-> p] : p \in PathOf(v)}
    BY <2>5 DEF ParseNodeAddr
  <2>8. QED
    BY <2>1, <2>2, <2>4, <2>5, <2>6, <2>7
<1>2. CASE \E id \in FileId : a = [by |-> "file", id |-> id]
  <2>1. PICK id \in FileId : a = [by |-> "file", id |-> id]
    BY <1>2
  <2> DEFINE v == FileIdToken(id)
             w == <<"/">> \o v
             t == <<"f">> \o w
  <2>2. NodeAddrEncode(a) = <<"f", "/">> \o v
    BY <2>1 DEF NodeAddrEncode
  <2>3. v \in Seq(Lexicon) /\ \A c \in Structure : Free(v, c)
    BY FileIdFree
  <2>4. ParseFileId(v) = {id}
    BY ParseFileIdIs
  <2> HIDE DEF v
  <2>5. NodeAddrEncode(a) = t
    BY <2>2, <2>3, NodeWords, PairConcat
  <2>6. w \in Seq(Lexicon)
    BY <2>3, NodeWords, HeadIs
  <2>7. Unslashed(w) = v
    BY <2>3, UnslashedIs
  <2>8. \A c \in Structure \ {"/"} : Free(w, c)
    <3>1. <<"/">> \in Seq(Lexicon)
      BY NodeWords
    <3>2. QED
      BY <2>3, <3>1, NodeWords, ConcatFree
  <2> HIDE DEF w
  <2>9. t \in Seq(Lexicon) /\ t # <<>> /\ t[1] = "f" /\ Tail(t) = w
    BY <2>6, NodeWords, HeadIs
  <2>10. \A c \in Structure \ {"/"} : Free(t, c)
    <3>1. <<"f">> \in Seq(Lexicon)
      BY NodeWords
    <3>2. QED
      BY <2>6, <2>8, <3>1, NodeWords, ConcatFree
  <2> HIDE DEF t
  <2>11. ParseNodeAddr(t) = {[by |-> "file", id |-> i] : i \in ParseFileId(v)}
    BY <2>7, <2>9 DEF ParseNodeAddr
  <2>12. QED
    BY <2>1, <2>4, <2>5, <2>9, <2>10, <2>11
<1>3. CASE \E id \in FileId : \E path \in Seq(Name) : a = [by |-> "both", id |-> id, path |-> path]
  <2>1. PICK id \in FileId, path \in Seq(Name) : a = [by |-> "both", id |-> id, path |-> path]
    BY <1>3
  <2> DEFINE x == FileIdToken(id)
             y == Comps(path)
             v == x \o y
             w == <<"/">> \o v
             t == <<"b">> \o w
  <2>2. NodeAddrEncode(a) = (<<"b", "/">> \o x) \o y
    BY <2>1 DEF NodeAddrEncode
  <2>3. v \in Seq(Lexicon) /\ \A c \in Structure \ {"/"} : Free(v, c)
    BY ParseBothIs
  <2>4. ParseBoth(v) = {a}
    BY <2>1, ParseBothIs
  <2>5. x \in Seq(Lexicon) /\ y \in Seq(Lexicon)
    BY FileIdFree, CompsAre
  <2> HIDE DEF x, y
  <2>6. <<"b", "/">> \in Seq(Lexicon)
    BY NodeWords
  <2>7. NodeAddrEncode(a) = <<"b", "/">> \o v
    BY <2>2, <2>5, <2>6, ConcatThree
  <2> HIDE DEF v
  <2>8. NodeAddrEncode(a) = t
    BY SMTT(40), <2>3, <2>7, NodeWords, PairConcat
  <2>9. w \in Seq(Lexicon)
    BY <2>3, NodeWords, HeadIs
  <2>10. Unslashed(w) = v
    BY <2>3, UnslashedIs
  <2>11. \A c \in Structure \ {"/"} : Free(w, c)
    <3>1. <<"/">> \in Seq(Lexicon)
      BY NodeWords
    <3>2. QED
      BY <2>3, <3>1, NodeWords, ConcatFree
  <2> HIDE DEF w
  <2>12. t \in Seq(Lexicon) /\ t # <<>> /\ t[1] = "b" /\ Tail(t) = w
    BY <2>9, NodeWords, HeadIs
  <2>13. \A c \in Structure \ {"/"} : Free(t, c)
    <3>1. <<"b">> \in Seq(Lexicon)
      BY NodeWords
    <3>2. QED
      BY <2>9, <2>11, <3>1, NodeWords, ConcatFree
  <2> HIDE DEF t
  <2>14. ParseNodeAddr(t) = ParseBoth(v)
    BY <2>10, <2>12 DEF ParseNodeAddr
  <2>15. QED
    BY <2>4, <2>8, <2>12, <2>13, <2>14
<1>4. QED
  BY <1>1, <1>2, <1>3, NodeAddrIs

LEMMA ParseNodeAddrType == \A t \in Seq(Lexicon) : ParseNodeAddr(t) \subseteq NodeAddr
<1> HIDE DEF Lexicon, FileId, Name, NodeAddr
<1> SUFFICES ASSUME NEW t \in Seq(Lexicon), t # <<>> PROVE ParseNodeAddr(t) \subseteq NodeAddr
  BY DEF ParseNodeAddr
<1>1. Tail(t) \in Seq(Lexicon)
  OBVIOUS
<1>2. Unslashed(Tail(t)) \in Seq(Lexicon)
  BY <1>1, UnslashedIs
<1>3. CASE t[1] = "p"
  <2>1. ParseNodeAddr(t) = {[by |-> "path", path |-> path] : path \in PathOf(Tail(t))}
    BY <1>3 DEF ParseNodeAddr
  <2>2. PathOf(Tail(t)) \subseteq Seq(Name)
    BY <1>1, PathOfIs
  <2>3. QED
    BY <2>1, <2>2, NodeAddrIs
<1>4. CASE t[1] = "f"
  <2>1. ParseNodeAddr(t) = {[by |-> "file", id |-> id] : id \in ParseFileId(Unslashed(Tail(t)))}
    BY <1>4 DEF ParseNodeAddr
  <2>2. ParseFileId(Unslashed(Tail(t))) \subseteq FileId
    BY ParseFileIdType
  <2>3. QED
    BY <2>1, <2>2, NodeAddrIs
<1>5. CASE t[1] = "b"
  BY <1>2, <1>5, ParseBothType DEF ParseNodeAddr
<1>6. CASE t[1] \notin {"p", "f", "b"}
  BY <1>6 DEF ParseNodeAddr
<1>7. QED
  BY <1>3, <1>4, <1>5, <1>6

-----------------------------------------------------------------------------
(***************************************************************************)
(* Layers                                                                  *)
(***************************************************************************)

LEMMA CommaIs == "," \in Structure /\ "," \in Lexicon
<1>1. "," \in Structure
  BY Zenon DEF Structure
<1> HIDE DEF Structure, Lexicon
<1>2. QED
  BY <1>1, ReservedAre

LEMMA TripleIs ==
  ASSUME NEW W, NEW a \in W, NEW b \in W, NEW g \in W
  PROVE  Append(<<a, b>>, g) = <<a, b, g>>
<1> DEFINE s == <<a, b>>
           t == <<a, b, g>>
<1>1. s \in Seq(W) /\ Len(s) = 2 /\ s[1] = a /\ s[2] = b
  OBVIOUS
<1>2. t \in Seq(W) /\ Len(t) = 3 /\ t[1] = a /\ t[2] = b /\ t[3] = g
  OBVIOUS
<1> HIDE DEF s, t
<1> DEFINE p == Append(s, g)
<1>3. /\ p \in Seq(W) /\ Len(p) = Len(s) + 1 /\ p[Len(s) + 1] = g
      /\ \A i \in 1..Len(s) : p[i] = s[i]
  <2>1. \A r \in Seq(W), x \in W :
           /\ Append(r, x) \in Seq(W) /\ Len(Append(r, x)) = Len(r) + 1
           /\ Append(r, x)[Len(r) + 1] = x
           /\ \A i \in 1..Len(r) : Append(r, x)[i] = r[i]
    BY AppendProperties
  <2>2. QED
    BY <1>1, <2>1
<1> HIDE DEF p
<1>4. Len(p) = 3 /\ p[1] = a /\ p[2] = b /\ p[3] = g
  BY <1>1, <1>3
<1>5. \A i \in 1..3 : p[i] = t[i]
  BY <1>2, <1>4
<1>6. p = t
  BY <1>2, <1>3, <1>4, <1>5, SeqEqual
<1>7. QED
  BY <1>6 DEF p, s, t

\* Two texts with a character between them.
Around(a, d, b) == a \o <<d>> \o b

LEMMA AroundAre ==
  ASSUME NEW d \in Structure, NEW a \in Seq(Lexicon), NEW b \in Seq(Lexicon)
  PROVE  /\ Around(a, d, b) \in Seq(Lexicon)
         /\ \A c \in Structure : Free(a, c) /\ Free(b, c) /\ c # d => Free(Around(a, d, b), c)
         /\ Free(a, d) => SplitOnce(Around(a, d, b), d) = {<<a, b>>}
         /\ Free(a, d) /\ Free(b, d) => Split(Around(a, d, b), d) = <<a, b>>
         /\ \A g \in Seq(Lexicon) :
              Free(a, d) /\ Free(b, d) /\ Free(g, d) =>
                Split(Around(Around(a, d, b), d, g), d) = <<a, b, g>>
<1> HIDE DEF Lexicon, Structure, Free
<1>1. d \in Lexicon
  BY ReservedAre
<1>2. <<d>> \in Seq(Lexicon) /\ \A c : c # d => Free(<<d>>, c)
  BY <1>1 DEF Free
<1>3. \A x \in Seq(Lexicon) : \A y \in Seq(Lexicon) :
        Around(x, d, y) = x \o (<<d>> \o y) /\ Around(x, d, y) \in Seq(Lexicon)
        /\ <<d>> \o y \in Seq(Lexicon)
  <2> SUFFICES ASSUME NEW x \in Seq(Lexicon), NEW y \in Seq(Lexicon)
               PROVE  Around(x, d, y) = x \o (<<d>> \o y) /\ Around(x, d, y) \in Seq(Lexicon)
                      /\ <<d>> \o y \in Seq(Lexicon)
    OBVIOUS
  <2> DEFINE m == <<d>>
  <2>1. Around(x, d, y) = (x \o m) \o y
    BY DEF Around
  <2>2. m \in Seq(Lexicon)
    BY <1>2
  <2> HIDE DEF m
  <2>3. (x \o m) \o y = x \o (m \o y)
    BY SMTT(40), <2>2, ConcatThree
  <2>4. (x \o m) \o y \in Seq(Lexicon) /\ m \o y \in Seq(Lexicon)
    BY <2>2, ConcatThree, ZenonT(30)
  <2>5. QED
    BY <2>1, <2>3, <2>4 DEF m
<1>4. \A c \in Structure : Free(a, c) /\ Free(b, c) /\ c # d => Free(Around(a, d, b), c)
  <2> SUFFICES ASSUME NEW c \in Structure, Free(a, c), Free(b, c), c # d
               PROVE  Free(Around(a, d, b), c)
    OBVIOUS
  <2> DEFINE m == <<d>> \o b
  <2> DEFINE u == <<d>>
  <2>1. Free(u, c)
    BY <1>2
  <2>2. u \in Seq(Lexicon) /\ u \o b \in Seq(Lexicon)
    BY <1>2, <1>3
  <2> HIDE DEF u
  <2>3. Free(u \o b, c)
    BY <2>1, <2>2, ConcatFree
  <2>4. Around(a, d, b) = a \o m /\ m \in Seq(Lexicon)
    BY <1>3
  <2>5. Free(m, c)
    BY <2>3 DEF u
  <2> HIDE DEF m
  <2>6. QED
    BY <2>4, <2>5, ConcatFree
<1>5. Free(a, d) => SplitOnce(Around(a, d, b), d) = {<<a, b>>}
  <2>1. \A u \in Seq(Lexicon) : \A v \in Seq(Lexicon) :
          Free(u, d) => SplitOnce(u \o (<<d>> \o v), d) = {<<u, v>>}
    BY <1>1, SplitOnceIs
  <2>2. QED
    BY <1>3, <2>1
<1>6. \A x \in Seq(Lexicon) : \A y \in Seq(Lexicon) :
        Free(y, d) => Split(Around(x, d, y), d) = Append(Split(x, d), y)
  <2> SUFFICES ASSUME NEW x \in Seq(Lexicon), NEW y \in Seq(Lexicon), Free(y, d)
               PROVE  Split(Around(x, d, y), d) = Append(Split(x, d), y)
    OBVIOUS
  <2>1. Split(x \o (<<d>> \o y), d) = Append(Split(x, d), y)
    BY <1>1, SplitPart
  <2>2. QED
    BY <1>3, <2>1
<1>7. Free(a, d) /\ Free(b, d) => Split(Around(a, d, b), d) = <<a, b>>
  <2> SUFFICES ASSUME Free(a, d), Free(b, d) PROVE Split(Around(a, d, b), d) = <<a, b>>
    OBVIOUS
  <2>1. Split(a, d) = <<a>>
    BY SplitFree
  <2>2. Split(Around(a, d, b), d) = Append(<<a>>, b)
    BY <1>6, <2>1
  <2>3. QED
    BY <2>2, PairIs
<1>8. ASSUME NEW g \in Seq(Lexicon), Free(a, d), Free(b, d), Free(g, d)
      PROVE  Split(Around(Around(a, d, b), d, g), d) = <<a, b, g>>
  <2>1. Split(Around(Around(a, d, b), d, g), d) = Append(<<a, b>>, g)
    BY <1>3, <1>6, <1>7, <1>8
  <2>2. QED
    BY <2>1, TripleIs
<1>9. QED
  BY <1>3, <1>4, <1>5, <1>7, <1>8

\* Two fields, the first without a comma, are found again in their pair.
LEMMA PairsAre ==
  ASSUME NEW a \in Seq(Lexicon), NEW b \in Seq(Lexicon)
  PROVE  /\ Pair(a, b) \in Seq(Lexicon)
         /\ \A c \in Structure : Free(a, c) /\ Free(b, c) /\ c # "," => Free(Pair(a, b), c)
         /\ Free(a, ",") => Pairs(Pair(a, b)) = {<<a, b>>}
         /\ Free(a, ",") /\ Free(b, ",") => Parts(Pair(a, b)) = <<a, b>>
         /\ \A g \in Seq(Lexicon) :
              Free(a, ",") /\ Free(b, ",") /\ Free(g, ",") =>
                Parts(Pair(Pair(a, b), g)) = <<a, b, g>>
<1> HIDE DEF Lexicon, Structure, Free
<1>1. \A d : d = "," => d \in Structure
  BY Zenon, CommaIs
<1>2. \A d : d = "," => /\ \A x, y : Pair(x, y) = Around(x, d, y)
                        /\ \A t : Pairs(t) = SplitOnce(t, d) /\ Parts(t) = Split(t, d)
  BY Zenon DEF Pair, Pairs, Parts, Around
<1>3. SUFFICES ASSUME NEW d, d = ","
      PROVE  /\ Pair(a, b) \in Seq(Lexicon)
             /\ \A c \in Structure : Free(a, c) /\ Free(b, c) /\ c # d => Free(Pair(a, b), c)
             /\ Free(a, d) => Pairs(Pair(a, b)) = {<<a, b>>}
             /\ Free(a, d) /\ Free(b, d) => Parts(Pair(a, b)) = <<a, b>>
             /\ \A g \in Seq(Lexicon) :
                  Free(a, d) /\ Free(b, d) /\ Free(g, d) =>
                    Parts(Pair(Pair(a, b), g)) = <<a, b, g>>
  BY Zenon
<1>4. /\ d \in Structure
      /\ \A x, y : Pair(x, y) = Around(x, d, y)
      /\ \A t : Pairs(t) = SplitOnce(t, d) /\ Parts(t) = Split(t, d)
  BY <1>1, <1>2, <1>3, Zenon
<1>5. QED
  <2>1. Pair(a, b) = Around(a, d, b) /\ Pairs(Pair(a, b)) = SplitOnce(Around(a, d, b), d)
        /\ Parts(Pair(a, b)) = Split(Around(a, d, b), d)
        /\ \A g : Parts(Pair(Pair(a, b), g)) = Split(Around(Around(a, d, b), d, g), d)
    BY <1>4, Zenon
  <2>2. /\ Around(a, d, b) \in Seq(Lexicon)
        /\ \A c \in Structure : Free(a, c) /\ Free(b, c) /\ c # d => Free(Around(a, d, b), c)
        /\ Free(a, d) => SplitOnce(Around(a, d, b), d) = {<<a, b>>}
        /\ Free(a, d) /\ Free(b, d) => Split(Around(a, d, b), d) = <<a, b>>
        /\ \A g \in Seq(Lexicon) :
             Free(a, d) /\ Free(b, d) /\ Free(g, d) =>
               Split(Around(Around(a, d, b), d, g), d) = <<a, b, g>>
    <3> HIDE DEF Around
    <3>1. d \in Structure
      BY <1>4
    <3>2. QED
      BY ONLY <3>1, AroundAre, a \in Seq(Lexicon), b \in Seq(Lexicon)
  <2>3. QED
    BY <2>1, <2>2, Zenon

LEMMA PairsType == \A t \in Seq(Lexicon) : Pairs(t) \subseteq Seq(Lexicon) \X Seq(Lexicon)
BY SplitOnceType DEF Pairs

LEMMA OptionalIs ==
  ASSUME NEW values
  PROVE  /\ \A o : o \in Optional(values) <=> o = {} \/ \E v \in values : o = {v}
BY DEF Optional

LEMMA LayerIs ==
  ASSUME NEW l
  PROVE  l \in Layer <=>
    \/ \E tag \in {"file", "dir"} : \E path \in Name : l = [tag |-> tag, path |-> path]
    \/ \E a \in 0..U64 : \E n \in 0..U64 : l = [tag |-> "range", start |-> a, len |-> n]
    \/ \E f \in Formats : l = [tag |-> "container", format |-> f]
    \/ \E s \in Schemes : \E n \in 0..U64 : \E g \in Optional(Guids) :
         l = [tag |-> "volume", scheme |-> s, index |-> n, guid |-> g]
    \/ \E s \in Ciphers : l = [tag |-> "encryption", scheme |-> s]
    \/ \E k \in {"vss", "apfs"} : \E n \in 0..U64 : l = [tag |-> "snapshot", kind |-> k, id |-> n]
    \/ \E k \in Kinds : \E a \in NodeAddr : l = [tag |-> "fs", kind |-> k, at |-> a]
    \/ \E id \in StreamId : l = [tag |-> "stream", id |-> id]
    \/ \E m \in Optional(0..U64) : l = [tag |-> "archive", member |-> m]
<1> HIDE DEF Name, NodeAddr, StreamId, Optional
<1> DEFINE Nat64 == 0..U64
<1>1. Nat64 = 0..U64
  OBVIOUS
<1> HIDE DEF Nat64
<1>2. QED
  BY <1>1 DEF Layer

\* A layer is read by the first word of its text, and is of no character that
\* joins layers.
LEMMA TaggedIs ==
  ASSUME NEW tag, Plain(tag), NEW body \in Seq(Lexicon), Free(body, "|")
  PROVE  /\ <<tag, ":">> \o body \in Seq(Lexicon)
         /\ Free(<<tag, ":">> \o body, "|")
         /\ LayerParse(<<tag, ":">> \o body) = ParseBody(<<tag>>, body)
<1> HIDE DEF Lexicon, Structure, Cuts, Free
<1> DEFINE head == <<tag>>
           colon == <<":">>
           t == <<tag, ":">> \o body
<1>1. ":" \in Structure /\ "|" \in Structure /\ ":" \in Lexicon /\ tag \in Lexicon
  BY ReservedAre DEF Structure, Plain
<1>2. ":" \in Cuts /\ "|" \in Cuts
  BY <1>1, CutsAre
<1>3. head \in Seq(Lexicon) /\ Free(head, ":") /\ Free(head, "|")
  BY <1>2, PlainText
<1>4. colon \in Seq(Lexicon) /\ Free(colon, "|")
  BY <1>1 DEF Free
<1>5. t = head \o (colon \o body)
  BY <1>1, PairConcat
<1>6. colon \o body \in Seq(Lexicon) /\ Free(colon \o body, "|")
  <2> HIDE DEF colon
  <2>1. QED
    BY <1>4, ConcatFree
<1>7. t \in Seq(Lexicon) /\ Free(t, "|")
  <2> DEFINE rest == colon \o body
  <2>1. rest \in Seq(Lexicon) /\ Free(rest, "|") /\ t = head \o rest
    BY <1>5, <1>6
  <2> HIDE DEF rest, head, t
  <2>2. QED
    BY <1>3, <2>1, ConcatFree
<1>8. SplitOnce(head \o (<<":">> \o body), ":") = {<<head, body>>}
  <2> HIDE DEF head
  <2>1. QED
    BY <1>1, <1>3, SplitOnceIs
<1>9. SplitOnce(t, ":") = {<<head, body>>}
  BY <1>5, <1>8
<1> HIDE DEF t
<1>10. LayerParse(t) = UNION {ParseBody(c[1], c[2]) : c \in {<<head, body>>}}
  BY <1>9 DEF LayerParse
<1>11. @ = ParseBody(head, body)
  OBVIOUS
<1>12. QED
  BY <1>7, <1>10, <1>11 DEF t

LEMMA OtherBody ==
  ASSUME NEW tag, NEW body,
         \A w \in {"file", "os", "dir", "range", "container", "volume", "encryption",
                   "snapshot", "fs", "stream", "archive"} : tag # <<w>>
  PROVE  ParseBody(tag, body) = {}
BY DEF ParseBody

\* What the fields of a volume stand for.
VolumeOf(p) ==
  {[tag |-> "volume", scheme |-> s, index |-> n, guid |-> g] :
     s \in Word(p[1], Schemes),
     n \in IF Len(p) < 2 THEN {} ELSE Number(p[2], U64),
     g \in IF Len(p) < 3 THEN {{}} ELSE {{w} : w \in Word(p[3], Guids)}}

LEMMA ParseVolumeIs == \A body : ParseVolume(body) = VolumeOf(Parts(body))
BY DEF ParseVolume, VolumeOf

\* The fields of a volume, one for each way of writing one.
LEMMA VolumeIs ==
  ASSUME NEW s \in Schemes, NEW n \in 0..U64
  PROVE  /\ VolumeOf(<< <<s>>, Numeral(n) >>) =
              {[tag |-> "volume", scheme |-> s, index |-> n, guid |-> {}]}
         /\ \A g \in Guids : VolumeOf(<< <<s>>, Numeral(n), <<g>> >>) =
              {[tag |-> "volume", scheme |-> s, index |-> n, guid |-> {g}]}
<1>1. Word(<<s>>, Schemes) = {s}
  BY WordIs
<1>2. Number(Numeral(n), U64) = {n}
  BY NumberIs, LocatorUriAssumption
<1>3. \A g \in Guids : Word(<<g>>, Guids) = {g}
  BY WordIs
<1> DEFINE x == <<s>>
           y == Numeral(n)
<1>4. VolumeOf(<<x, y>>) = {[tag |-> "volume", scheme |-> s, index |-> n, guid |-> {}]}
  <2> DEFINE p == <<x, y>>
  <2>1. p[1] = x /\ p[2] = y /\ Len(p) = 2
    OBVIOUS
  <2> HIDE DEF p
  <2>2. Word(p[1], Schemes) = {s} /\ (IF Len(p) < 2 THEN {} ELSE Number(p[2], U64)) = {n}
        /\ (IF Len(p) < 3 THEN {{}} ELSE {{w} : w \in Word(p[3], Guids)}) = {{}}
    BY <1>1, <1>2, <2>1
  <2>3. VolumeOf(p) = {[tag |-> "volume", scheme |-> s, index |-> n, guid |-> {}]}
    BY <2>2 DEF VolumeOf
  <2>4. QED
    BY <2>3 DEF p
<1>5. ASSUME NEW g \in Guids
      PROVE  VolumeOf(<<x, y, <<g>> >>) = {[tag |-> "volume", scheme |-> s, index |-> n, guid |-> {g}]}
  <2> DEFINE z == <<g>>
             p == <<x, y, z>>
  <2>1. p[1] = x /\ p[2] = y /\ p[3] = z /\ Len(p) = 3
    OBVIOUS
  <2> HIDE DEF p
  <2>2. Word(p[1], Schemes) = {s} /\ (IF Len(p) < 2 THEN {} ELSE Number(p[2], U64)) = {n}
    BY <1>1, <1>2, <2>1
  <2>3. Word(p[3], Guids) = {g}
    BY <1>3, <2>1
  <2> DEFINE h == {g}
  <2>4. (IF Len(p) < 3 THEN {{}} ELSE {{w} : w \in Word(p[3], Guids)}) = {h}
    BY <2>1, <2>3
  <2> HIDE DEF h
  <2>5. VolumeOf(p) = {[tag |-> "volume", scheme |-> s, index |-> n, guid |-> h]}
    <3> DEFINE A == Word(p[1], Schemes)
               B == IF Len(p) < 2 THEN {} ELSE Number(p[2], U64)
               C == IF Len(p) < 3 THEN {{}} ELSE {{w} : w \in Word(p[3], Guids)}
    <3>1. VolumeOf(p) = {[tag |-> "volume", scheme |-> a, index |-> b, guid |-> c] :
                           a \in A, b \in B, c \in C}
      BY DEF VolumeOf
    <3>2. A = {s} /\ B = {n} /\ C = {h}
      BY <2>2, <2>4
    <3> HIDE DEF A, B, C
    <3>3. QED
      BY <3>1, <3>2
  <2>6. QED
    BY <2>5 DEF p, h
<1>6. QED
  BY <1>4, <1>5

LEMMA VolumeType ==
  \A p : \A l \in VolumeOf(p) :
    \E s \in Schemes : \E n \in 0..U64 : \E g \in Optional(Guids) :
      l = [tag |-> "volume", scheme |-> s, index |-> n, guid |-> g]
<1> SUFFICES ASSUME NEW p, NEW l \in VolumeOf(p)
             PROVE  \E s \in Schemes : \E n \in 0..U64 : \E g \in Optional(Guids) :
                      l = [tag |-> "volume", scheme |-> s, index |-> n, guid |-> g]
  OBVIOUS
<1> HIDE DEF Optional
<1>1. Word(p[1], Schemes) \subseteq Schemes
  BY WordIs
<1>2. (IF Len(p) < 2 THEN {} ELSE Number(p[2], U64)) \subseteq 0..U64
  BY NumberType
<1>3. (IF Len(p) < 3 THEN {{}} ELSE {{w} : w \in Word(p[3], Guids)}) \subseteq Optional(Guids)
  <2>1. Word(p[3], Guids) \subseteq Guids
    BY WordIs
  <2>2. {} \in Optional(Guids) /\ \A w \in Guids : {w} \in Optional(Guids)
    BY OptionalIs
  <2>3. QED
    BY <2>1, <2>2
<1>4. QED
  BY <1>1, <1>2, <1>3 DEF VolumeOf

LEMMA ParseBodyType ==
  \A tag : \A body \in Seq(Lexicon) : ParseBody(tag, body) \subseteq Layer
<1> HIDE DEF Lexicon, FileId, Name, NodeAddr, StreamId, Optional, Layer
<1> SUFFICES ASSUME NEW tag, NEW body \in Seq(Lexicon), NEW l \in ParseBody(tag, body)
             PROVE  l \in Layer
  OBVIOUS
<1>1. CASE tag \in {<<"file">>, <<"os">>, <<"dir">>}
  <2>1. PctDecode(body) \subseteq Name
    BY DecodeType DEF Name
  <2>2. CASE tag \in {<<"file">>, <<"os">>}
    <3>1. ParseBody(tag, body) = {[tag |-> "file", path |-> path] : path \in PctDecode(body)}
      BY <2>2 DEF ParseBody
    <3>2. PICK path \in PctDecode(body) : l = [tag |-> "file", path |-> path]
      BY <3>1
    <3>3. QED
      BY <2>1, <3>2, LayerIs
  <2>3. CASE tag = <<"dir">>
    <3>1. ParseBody(tag, body) = {[tag |-> "dir", path |-> path] : path \in PctDecode(body)}
      BY <2>3 DEF ParseBody
    <3>2. PICK path \in PctDecode(body) : l = [tag |-> "dir", path |-> path]
      BY <3>1
    <3>3. QED
      BY <2>1, <3>2, LayerIs
  <2>4. QED
    BY <1>1, <2>2, <2>3
<1>2. CASE tag = <<"range">>
  <2>1. ParseBody(tag, body) =
          UNION {{[tag |-> "range", start |-> a, len |-> n] :
                    a \in Number(c[1], U64), n \in Number(c[2], U64)} : c \in Pairs(body)}
    BY <1>2 DEF ParseBody
  <2>2. PICK c \in Pairs(body) : l \in
          {[tag |-> "range", start |-> a, len |-> n] :
             a \in Number(c[1], U64), n \in Number(c[2], U64)}
    BY <2>1
  <2>3. PICK a \in Number(c[1], U64), n \in Number(c[2], U64) :
          l = [tag |-> "range", start |-> a, len |-> n]
    BY <2>2
  <2>4. a \in 0..U64 /\ n \in 0..U64
    BY NumberType
  <2>5. QED
    BY <2>3, <2>4, LayerIs
<1>3. CASE tag = <<"container">>
  <2>1. ParseBody(tag, body) =
          {[tag |-> "container", format |-> f] : f \in Word(body, Formats)}
    BY <1>3 DEF ParseBody
  <2>2. PICK f \in Word(body, Formats) : l = [tag |-> "container", format |-> f]
    BY <2>1
  <2>3. f \in Formats
    BY WordIs
  <2>4. QED
    BY <2>2, <2>3, LayerIs
<1>4. CASE tag = <<"volume">>
  <2>1. ParseBody(tag, body) = ParseVolume(body)
    BY <1>4 DEF ParseBody
  <2>2. QED
    BY <2>1, ParseVolumeIs, VolumeType, LayerIs
<1>5. CASE tag = <<"encryption">>
  <2>1. ParseBody(tag, body) =
          {[tag |-> "encryption", scheme |-> s] : s \in Word(body, Ciphers)}
    BY <1>5 DEF ParseBody
  <2>2. PICK s \in Word(body, Ciphers) : l = [tag |-> "encryption", scheme |-> s]
    BY <2>1
  <2>3. s \in Ciphers
    BY WordIs
  <2>4. QED
    BY <2>2, <2>3, LayerIs
<1>6. CASE tag = <<"snapshot">>
  <2>1. ParseBody(tag, body) =
          UNION {{[tag |-> "snapshot", kind |-> k, id |-> n] :
                    k \in Word(c[1], {"vss", "apfs"}), n \in Number(c[2], U64)} : c \in Pairs(body)}
    BY <1>6 DEF ParseBody
  <2>2. PICK c \in Pairs(body) : l \in
          {[tag |-> "snapshot", kind |-> k, id |-> n] :
             k \in Word(c[1], {"vss", "apfs"}), n \in Number(c[2], U64)}
    BY <2>1
  <2>3. PICK k \in Word(c[1], {"vss", "apfs"}), n \in Number(c[2], U64) :
          l = [tag |-> "snapshot", kind |-> k, id |-> n]
    BY <2>2
  <2>4. k \in {"vss", "apfs"} /\ n \in 0..U64
    BY NumberType, WordIs
  <2>5. QED
    BY <2>3, <2>4, LayerIs
<1>7. CASE tag = <<"fs">>
  <2>1. ParseBody(tag, body) =
          UNION {{[tag |-> "fs", kind |-> k, at |-> a] :
                    k \in Word(c[1], Kinds), a \in ParseNodeAddr(c[2])} : c \in Pairs(body)}
    BY <1>7 DEF ParseBody
  <2>2. PICK c \in Pairs(body) : l \in
          {[tag |-> "fs", kind |-> k, at |-> a] : k \in Word(c[1], Kinds), a \in ParseNodeAddr(c[2])}
    BY <2>1
  <2>3. PICK k \in Word(c[1], Kinds), a \in ParseNodeAddr(c[2]) :
          l = [tag |-> "fs", kind |-> k, at |-> a]
    BY <2>2
  <2>4. c[2] \in Seq(Lexicon)
    BY PairsType
  <2>5. k \in Kinds /\ a \in NodeAddr
    BY <2>4, WordIs, ParseNodeAddrType
  <2>6. QED
    BY <2>3, <2>5, LayerIs
<1>8. CASE tag = <<"stream">>
  <2>1. ParseBody(tag, body) =
          {[tag |-> "stream", id |-> id] : id \in ParseStream(body)}
    BY <1>8 DEF ParseBody
  <2>2. PICK id \in ParseStream(body) : l = [tag |-> "stream", id |-> id]
    BY <2>1
  <2>3. id \in StreamId
    BY ParseStreamType
  <2>4. QED
    BY <2>2, <2>3, LayerIs
<1>9. CASE tag = <<"archive">>
  <2>1. ParseBody(tag, body) =
          IF body = <<>> THEN {[tag |-> "archive", member |-> {}]}
          ELSE {[tag |-> "archive", member |-> {n}] : n \in Number(body, U64)}
    BY <1>9 DEF ParseBody
  <2>2. PICK m : l = [tag |-> "archive", member |-> m]
                 /\ (m = {} \/ \E n \in Number(body, U64) : m = {n})
    BY <2>1
  <2>3. m \in Optional(0..U64)
    BY <2>2, NumberType, OptionalIs
  <2>4. QED
    BY <2>2, <2>3, LayerIs
<1>10. CASE \A w \in {"file", "os", "dir", "range", "container", "volume", "encryption",
                      "snapshot", "fs", "stream", "archive"} : tag # <<w>>
  BY <1>10, OtherBody
<1>11. QED
  BY <1>1, <1>2, <1>3, <1>4, <1>5, <1>6, <1>7, <1>8, <1>9, <1>10

LEMMA LayerParseType == \A t \in Seq(Lexicon) : LayerParse(t) \subseteq Layer
<1> HIDE DEF Lexicon, Layer
<1>1. \A t \in Seq(Lexicon) : \A c \in SplitOnce(t, ":") : c[2] \in Seq(Lexicon)
  BY SplitOnceType
<1>2. QED
  BY <1>1, ParseBodyType DEF LayerParse

\* A text without a character of structure or a dot.
Bare(t) == t \in Seq(Lexicon) /\ \A c \in Cuts : Free(t, c)

LEMMA BareAre ==
  /\ \A w : Plain(w) => Bare(<<w>>)
  /\ \A n \in 0..U64 : Bare(Numeral(n))
  /\ \A t : Bare(t) => t \in Seq(Lexicon) /\ Free(t, "|")
<1> HIDE DEF Lexicon, Cuts, Structure, Free
<1>1. "|" \in Cuts
  BY CutsAre DEF Structure
<1>2. QED
  BY <1>1, PlainText, NumeralText DEF Bare

LEMMA PairText ==
  ASSUME NEW a, Bare(a), NEW b \in Seq(Lexicon)
  PROVE  /\ Pair(a, b) \in Seq(Lexicon)
         /\ Free(b, "|") => Free(Pair(a, b), "|")
         /\ Pairs(Pair(a, b)) = {<<a, b>>}
         /\ Bare(b) => Parts(Pair(a, b)) = <<a, b>>
         /\ \A g : Bare(b) /\ Bare(g) => Parts(Pair(Pair(a, b), g)) = <<a, b, g>>
<1> HIDE DEF Lexicon, Cuts, Structure, Free
<1>1. a \in Seq(Lexicon) /\ Free(a, ",") /\ \A t : Bare(t) => t \in Seq(Lexicon) /\ Free(t, ",")
  <2>1. "," \in Cuts
    BY CommaIs, CutsAre
  <2>2. QED
    BY <2>1 DEF Bare
<1>2. "|" \in Structure /\ Free(a, "|")
  BY BareAre DEF Structure
<1>3. "|" # ","
  BY Zenon
<1>4. Free(b, "|") => Free(Pair(a, b), "|")
  BY <1>1, <1>2, <1>3, PairsAre, Zenon
<1>5. Pairs(Pair(a, b)) = {<<a, b>>} /\ Pair(a, b) \in Seq(Lexicon)
  BY <1>1, PairsAre, Zenon
<1>6. Bare(b) => Parts(Pair(a, b)) = <<a, b>>
  BY <1>1, PairsAre, Zenon
<1>7. \A g : Bare(b) /\ Bare(g) => Parts(Pair(Pair(a, b), g)) = <<a, b, g>>
  BY <1>1, PairsAre, Zenon
<1>8. QED
  BY <1>4, <1>5, <1>6, <1>7

LEMMA PairJoins ==
  ASSUME NEW a \in Seq(Lexicon), NEW b \in Seq(Lexicon), Free(a, "|"), Free(b, "|")
  PROVE  Pair(a, b) \in Seq(Lexicon) /\ Free(Pair(a, b), "|")
<1> HIDE DEF Lexicon, Structure, Free
<1>1. "|" \in Structure
  BY DEF Structure
<1>2. "|" # ","
  BY Zenon
<1>3. QED
  BY <1>1, <1>2, PairsAre, Zenon

\* What a layer is written as, and that it is read again from it.
Tells(l, tag, body) ==
  /\ Plain(tag) /\ body \in Seq(Lexicon) /\ Free(body, "|")
  /\ LayerEncode(l) = <<tag, ":">> \o body
  /\ ParseBody(<<tag>>, body) = {l}

LEMMA TagsAre ==
  \A w \in {"file", "dir", "range", "container", "volume", "encryption", "snapshot", "fs",
            "stream", "archive", "vss", "apfs"} : Plain(w)
<1>1. \A w \in Literals : Plain(w)
  <2> HIDE DEF Lexicon, Cuts, Literals, Vocabulary
  <2>1. QED
    BY WordsAre DEF Plain
<1>2. QED
  BY <1>1 DEF Literals

LEMMA VocabularyIs ==
  \A w : w \in Formats \/ w \in Schemes \/ w \in Ciphers \/ w \in Kinds \/ w \in Guids => Plain(w)
<1>1. \A w \in Vocabulary : Plain(w)
  <2> HIDE DEF Lexicon, Cuts, Literals, Vocabulary
  <2>1. QED
    BY WordsAre DEF Plain
<1>2. QED
  BY <1>1 DEF Vocabulary

LEMMA FileTold ==
  ASSUME NEW tag \in {"file", "dir"}, NEW path \in Name
  PROVE  Tells([tag |-> tag, path |-> path], tag, PctEncode(path))
<1> HIDE DEF Lexicon, Cuts, Structure, Free, Plain
<1> DEFINE body == PctEncode(path)
           l == [tag |-> tag, path |-> path]
<1>1. body \in Seq(Lexicon) /\ Free(body, "|")
  <2>1. "|" \in Structure
    BY DEF Structure
  <2>2. QED
    BY <2>1, EncodeText DEF Name
<1>2. PctDecode(body) = {path}
  BY DecodeEncode DEF Name
<1>3. LayerEncode(l) = <<tag, ":">> \o body
  BY DEF LayerEncode
<1> HIDE DEF body
<1>4. ParseBody(<<tag>>, body) = {[tag |-> tag, path |-> p] : p \in PctDecode(body)}
  BY DEF ParseBody
<1>5. ParseBody(<<tag>>, body) = {l}
  BY <1>2, <1>4
<1>6. QED
  BY <1>1, <1>3, <1>5, TagsAre DEF Tells, body

LEMMA RangeTold ==
  ASSUME NEW a \in 0..U64, NEW n \in 0..U64
  PROVE  Tells([tag |-> "range", start |-> a, len |-> n], "range", Pair(Numeral(a), Numeral(n)))
<1> HIDE DEF Lexicon, Cuts, Structure, Free, Plain
<1> DEFINE x == Numeral(a)
           y == Numeral(n)
           body == Pair(x, y)
           l == [tag |-> "range", start |-> a, len |-> n]
<1>1. Bare(x) /\ y \in Seq(Lexicon) /\ Free(y, "|")
  BY BareAre
<1>2. Number(x, U64) = {a} /\ Number(y, U64) = {n}
  BY NumberIs, LocatorUriAssumption
<1>3. LayerEncode(l) = <<"range", ":">> \o body
  BY DEF LayerEncode
<1> HIDE DEF x, y
<1>4. body \in Seq(Lexicon) /\ Free(body, "|") /\ Pairs(body) = {<<x, y>>}
  BY <1>1, PairText
<1> HIDE DEF body
<1>5. ParseBody(<<"range">>, body) =
        UNION {{[tag |-> "range", start |-> b, len |-> m] :
                  b \in Number(c[1], U64), m \in Number(c[2], U64)} : c \in Pairs(body)}
  BY DEF ParseBody
<1>6. @ = {[tag |-> "range", start |-> b, len |-> m] : b \in Number(x, U64), m \in Number(y, U64)}
  BY <1>4
<1>7. @ = {l}
  BY <1>2
<1>8. QED
  BY <1>3, <1>4, <1>5, <1>6, <1>7, TagsAre DEF Tells, body, x, y

LEMMA WordTold ==
  /\ \A f \in Formats : Tells([tag |-> "container", format |-> f], "container", <<f>>)
  /\ \A s \in Ciphers : Tells([tag |-> "encryption", scheme |-> s], "encryption", <<s>>)
<1> HIDE DEF Lexicon, Cuts, Structure, Free, Plain
<1>1. ASSUME NEW f \in Formats PROVE Tells([tag |-> "container", format |-> f], "container", <<f>>)
  <2> DEFINE body == <<f>>
  <2>1. body \in Seq(Lexicon) /\ Free(body, "|")
    BY VocabularyIs, BareAre
  <2>2. Word(body, Formats) = {f}
    BY WordIs
  <2>3. LayerEncode([tag |-> "container", format |-> f]) = <<"container", ":">> \o body
    BY DEF LayerEncode
  <2> HIDE DEF body
  <2>4. ParseBody(<<"container">>, body) =
          {[tag |-> "container", format |-> g] : g \in Word(body, Formats)}
    BY DEF ParseBody
  <2>5. QED
    BY <2>1, <2>2, <2>3, <2>4, TagsAre DEF Tells, body
<1>2. ASSUME NEW s \in Ciphers PROVE Tells([tag |-> "encryption", scheme |-> s], "encryption", <<s>>)
  <2> DEFINE body == <<s>>
  <2>1. body \in Seq(Lexicon) /\ Free(body, "|")
    BY VocabularyIs, BareAre
  <2>2. Word(body, Ciphers) = {s}
    BY WordIs
  <2>3. LayerEncode([tag |-> "encryption", scheme |-> s]) = <<"encryption", ":">> \o body
    BY DEF LayerEncode
  <2> HIDE DEF body
  <2>4. ParseBody(<<"encryption">>, body) =
          {[tag |-> "encryption", scheme |-> x] : x \in Word(body, Ciphers)}
    BY DEF ParseBody
  <2>5. QED
    BY <2>1, <2>2, <2>3, <2>4, TagsAre DEF Tells, body
<1>3. QED
  BY <1>1, <1>2

LEMMA VolumeTold ==
  ASSUME NEW s \in Schemes, NEW n \in 0..U64, NEW g \in Optional(Guids)
  PROVE  \E body : Tells([tag |-> "volume", scheme |-> s, index |-> n, guid |-> g], "volume", body)
<1> HIDE DEF Lexicon, Cuts, Structure, Free, Plain
<1> DEFINE x == <<s>>
           y == Numeral(n)
           l == [tag |-> "volume", scheme |-> s, index |-> n, guid |-> g]
<1>1. Bare(x) /\ Bare(y) /\ y \in Seq(Lexicon) /\ Free(y, "|") /\ Plain("volume")
  BY VocabularyIs, BareAre, TagsAre
<1>2. /\ VolumeOf(<<x, y>>) = {[tag |-> "volume", scheme |-> s, index |-> n, guid |-> {}]}
      /\ \A w \in Guids : VolumeOf(<<x, y, <<w>> >>) =
           {[tag |-> "volume", scheme |-> s, index |-> n, guid |-> {w}]}
  BY VolumeIs
<1>3. \A body : ParseBody(<<"volume">>, body) = ParseVolume(body)
  BY DEF ParseBody
<1>4. LayerEncode(l) =
        <<"volume", ":">> \o (IF g = {} THEN Pair(x, y) ELSE Pair(Pair(x, y), <<CHOOSE w \in g : TRUE>>))
  BY DEF LayerEncode
<1> HIDE DEF x, y
<1>5. Pair(x, y) \in Seq(Lexicon) /\ Free(Pair(x, y), "|") /\ Parts(Pair(x, y)) = <<x, y>>
  BY <1>1, PairText
<1>6. CASE g = {}
  <2>1. ParseBody(<<"volume">>, Pair(x, y)) = {l}
    BY <1>2, <1>3, <1>5, <1>6, ParseVolumeIs
  <2>2. Tells(l, "volume", Pair(x, y))
    BY <1>1, <1>4, <1>5, <1>6, <2>1 DEF Tells
  <2>3. QED
    BY <2>2
<1>7. ASSUME NEW w \in Guids, g = {w}
      PROVE  \E body : Tells(l, "volume", body)
  <2> DEFINE z == <<w>>
             body == Pair(Pair(x, y), z)
  <2>1. Bare(z) /\ z \in Seq(Lexicon) /\ Free(z, "|")
    BY VocabularyIs, BareAre
  <2>2. (CHOOSE v \in g : TRUE) = w /\ g # {}
    BY <1>7
  <2>3. LayerEncode(l) = <<"volume", ":">> \o body
    BY <1>4, <2>2
  <2>4. VolumeOf(<<x, y, z>>) = {l}
    BY <1>2, <1>7
  <2> HIDE DEF z
  <2>5. Parts(body) = <<x, y, z>>
    BY <1>1, <2>1, PairText
  <2>6. body \in Seq(Lexicon) /\ Free(body, "|")
    <3> DEFINE p == Pair(x, y)
    <3>1. p \in Seq(Lexicon) /\ Free(p, "|")
      BY <1>5
    <3> HIDE DEF p
    <3>2. Pair(p, z) \in Seq(Lexicon) /\ Free(Pair(p, z), "|")
      BY <2>1, <3>1, PairJoins
    <3>3. QED
      BY <3>2 DEF p
  <2> HIDE DEF body
  <2>7. ParseBody(<<"volume">>, body) = {l}
    BY <1>3, <2>4, <2>5, ParseVolumeIs
  <2>8. Tells(l, "volume", body)
    BY <1>1, <2>3, <2>6, <2>7 DEF Tells
  <2>9. QED
    BY <2>8
<1>8. QED
  BY <1>6, <1>7, OptionalIs

LEMMA SnapshotTold ==
  ASSUME NEW k \in {"vss", "apfs"}, NEW n \in 0..U64
  PROVE  Tells([tag |-> "snapshot", kind |-> k, id |-> n], "snapshot", Pair(<<k>>, Numeral(n)))
<1> HIDE DEF Lexicon, Cuts, Structure, Free, Plain
<1> DEFINE x == <<k>>
           y == Numeral(n)
           body == Pair(x, y)
           l == [tag |-> "snapshot", kind |-> k, id |-> n]
<1>1. Bare(x) /\ y \in Seq(Lexicon) /\ Free(y, "|")
  BY BareAre, TagsAre
<1>2. Word(x, {"vss", "apfs"}) = {k} /\ Number(y, U64) = {n}
  BY WordIs, NumberIs, LocatorUriAssumption
<1>3. LayerEncode(l) = <<"snapshot", ":">> \o body
  BY DEF LayerEncode
<1> HIDE DEF x, y
<1>4. body \in Seq(Lexicon) /\ Free(body, "|") /\ Pairs(body) = {<<x, y>>}
  BY <1>1, PairText
<1> HIDE DEF body
<1>5. ParseBody(<<"snapshot">>, body) =
        UNION {{[tag |-> "snapshot", kind |-> j, id |-> m] :
                  j \in Word(c[1], {"vss", "apfs"}), m \in Number(c[2], U64)} : c \in Pairs(body)}
  BY DEF ParseBody
<1>6. @ = {[tag |-> "snapshot", kind |-> j, id |-> m] :
             j \in Word(x, {"vss", "apfs"}), m \in Number(y, U64)}
  BY <1>4
<1>7. @ = {l}
  BY <1>2
<1>8. QED
  BY SMTT(40), <1>3, <1>4, <1>5, <1>6, <1>7, TagsAre DEF Tells, body, x, y

LEMMA FsTold ==
  ASSUME NEW k \in Kinds, NEW a \in NodeAddr
  PROVE  Tells([tag |-> "fs", kind |-> k, at |-> a], "fs", Pair(<<k>>, NodeAddrEncode(a)))
<1> HIDE DEF Lexicon, Cuts, Structure, Free, Plain, NodeAddr
<1> DEFINE x == <<k>>
           y == NodeAddrEncode(a)
           body == Pair(x, y)
           l == [tag |-> "fs", kind |-> k, at |-> a]
<1>1. Bare(x) /\ y \in Seq(Lexicon) /\ Free(y, "|")
  <2>1. "|" \in Structure \ {"/"}
    BY DEF Structure
  <2>2. QED
    BY <2>1, BareAre, VocabularyIs, ParseNodeAddrIs
<1>2. Word(x, Kinds) = {k} /\ ParseNodeAddr(y) = {a}
  BY WordIs, ParseNodeAddrIs
<1>3. LayerEncode(l) = <<"fs", ":">> \o body
  BY DEF LayerEncode
<1> HIDE DEF x, y
<1>4. body \in Seq(Lexicon) /\ Free(body, "|") /\ Pairs(body) = {<<x, y>>}
  BY <1>1, PairText
<1> HIDE DEF body
<1>5. ParseBody(<<"fs">>, body) =
        UNION {{[tag |-> "fs", kind |-> j, at |-> b] :
                  j \in Word(c[1], Kinds), b \in ParseNodeAddr(c[2])} : c \in Pairs(body)}
  BY DEF ParseBody
<1>6. @ = {[tag |-> "fs", kind |-> j, at |-> b] : j \in Word(x, Kinds), b \in ParseNodeAddr(y)}
  BY <1>4
<1>7. @ = {l}
  BY <1>2
<1>8. ParseBody(<<"fs">>, body) = {l} /\ Plain("fs")
  BY <1>5, <1>6, <1>7, TagsAre
<1> HIDE DEF l
<1>9. Tells(l, "fs", body)
  BY <1>3, <1>4, <1>8 DEF Tells
<1>10. QED
  BY <1>9 DEF l, body, x, y

LEMMA StreamTold ==
  ASSUME NEW id \in StreamId
  PROVE  Tells([tag |-> "stream", id |-> id], "stream", StreamToken(id))
<1> HIDE DEF Lexicon, Cuts, Structure, Free, Plain, StreamId
<1> DEFINE body == StreamToken(id)
<1>1. body \in Seq(Lexicon) /\ Free(body, "|")
  <2>1. "|" \in Structure
    BY DEF Structure
  <2>2. QED
    BY <2>1, StreamText
<1>2. ParseStream(body) = {id}
  BY ParseStreamIs
<1>3. LayerEncode([tag |-> "stream", id |-> id]) = <<"stream", ":">> \o body
  BY DEF LayerEncode
<1> HIDE DEF body
<1>4. ParseBody(<<"stream">>, body) = {[tag |-> "stream", id |-> i] : i \in ParseStream(body)}
  BY DEF ParseBody
<1>5. QED
  BY <1>1, <1>2, <1>3, <1>4, TagsAre DEF Tells, body

LEMMA ArchiveTold ==
  ASSUME NEW m \in Optional(0..U64)
  PROVE  \E body : Tells([tag |-> "archive", member |-> m], "archive", body)
<1> HIDE DEF Lexicon, Cuts, Structure, Free, Plain
<1> DEFINE l == [tag |-> "archive", member |-> m]
<1>1. LayerEncode(l) = <<"archive", ":">> \o (IF m = {} THEN <<>> ELSE Numeral(CHOOSE i \in m : TRUE))
  BY DEF LayerEncode
<1>2. \A body : ParseBody(<<"archive">>, body) =
        IF body = <<>> THEN {[tag |-> "archive", member |-> {}]}
        ELSE {[tag |-> "archive", member |-> {i}] : i \in Number(body, U64)}
  BY DEF ParseBody
<1>3. Plain("archive")
  BY TagsAre
<1>4. CASE m = {}
  <2>1. ParseBody(<<"archive">>, <<>>) = {l}
    BY <1>2, <1>4
  <2>2. <<>> \in Seq(Lexicon) /\ Free(<<>>, "|")
    BY DEF Free
  <2>3. Tells(l, "archive", <<>>)
    BY <1>1, <1>3, <1>4, <2>1, <2>2 DEF Tells
  <2>4. QED
    BY <2>3
<1>5. ASSUME NEW n \in 0..U64, m = {n} PROVE \E body : Tells(l, "archive", body)
  <2> DEFINE body == Numeral(n)
  <2>1. body \in Seq(Lexicon) /\ Free(body, "|") /\ body # <<>>
    BY BareAre DEF Numeral
  <2>2. Number(body, U64) = {n}
    BY NumberIs, LocatorUriAssumption
  <2>3. (CHOOSE i \in m : TRUE) = n /\ m # {}
    BY <1>5
  <2>4. LayerEncode(l) = <<"archive", ":">> \o body
    BY <1>1, <2>3
  <2> HIDE DEF body
  <2>5. ParseBody(<<"archive">>, body) = {[tag |-> "archive", member |-> {i}] : i \in {n}}
    BY <1>2, <2>1, <2>2
  <2>6. @ = {l}
    BY <1>5
  <2>7. Tells(l, "archive", body)
    BY <1>3, <2>1, <2>4, <2>5, <2>6 DEF Tells
  <2>8. QED
    BY <2>7
<1>6. QED
  BY ZenonT(40), <1>4, <1>5, OptionalIs

\* A layer is read again from its text, which holds nothing that joins layers.
LEMMA LayerReadBack ==
  ASSUME NEW l \in Layer
  PROVE  /\ LayerEncode(l) \in Seq(Lexicon) /\ Free(LayerEncode(l), "|")
         /\ LayerParse(LayerEncode(l)) = {l}
<1> HIDE DEF Lexicon, Cuts, Structure, Free, Plain, Name, NodeAddr, StreamId, Optional, Layer, Tells
<1> DEFINE Told(k) == \E tag : \E body : Tells(k, tag, body)
<1>1. Told(l)
  <2>1. \A tag \in {"file", "dir"} : \A path \in Name : Told([tag |-> tag, path |-> path])
    BY FileTold
  <2>2. \A a \in 0..U64 : \A n \in 0..U64 : Told([tag |-> "range", start |-> a, len |-> n])
    BY RangeTold
  <2>3. \A f \in Formats : Told([tag |-> "container", format |-> f])
    BY WordTold
  <2>4. \A s \in Schemes : \A n \in 0..U64 : \A g \in Optional(Guids) :
          Told([tag |-> "volume", scheme |-> s, index |-> n, guid |-> g])
    BY VolumeTold
  <2>5. \A s \in Ciphers : Told([tag |-> "encryption", scheme |-> s])
    BY WordTold
  <2>6. \A k \in {"vss", "apfs"} : \A n \in 0..U64 : Told([tag |-> "snapshot", kind |-> k, id |-> n])
    BY SnapshotTold
  <2>7. \A k \in Kinds : \A a \in NodeAddr : Told([tag |-> "fs", kind |-> k, at |-> a])
    BY FsTold
  <2>8. \A id \in StreamId : Told([tag |-> "stream", id |-> id])
    BY StreamTold
  <2>9. \A m \in Optional(0..U64) : Told([tag |-> "archive", member |-> m])
    BY ArchiveTold
  <2> HIDE DEF Told
  <2>10. QED
    BY <2>1, <2>2, <2>3, <2>4, <2>5, <2>6, <2>7, <2>8, <2>9, LayerIs
<1>2. PICK tag, body : Tells(l, tag, body)
  BY <1>1
<1>3. /\ Plain(tag) /\ body \in Seq(Lexicon) /\ Free(body, "|")
      /\ LayerEncode(l) = <<tag, ":">> \o body
      /\ ParseBody(<<tag>>, body) = {l}
  BY <1>2 DEF Tells
<1>4. QED
  BY <1>3, TaggedIs

-----------------------------------------------------------------------------
(***************************************************************************)
(* Locators                                                                *)
(***************************************************************************)

\* The texts of the layers.
Encoded(l) == [i \in DOMAIN l |-> LayerEncode(l[i])]

LEMMA EncodedIs ==
  ASSUME NEW l \in Locator
  PROVE  /\ Encoded(l) \in Seq(Seq(Lexicon)) /\ Encoded(l) # <<>> /\ AllFree(Encoded(l), "|")
         /\ DOMAIN l = 1..Len(l) /\ DOMAIN Encoded(l) = 1..Len(l)
         /\ \A i \in 1..Len(l) : LayerParse(Encoded(l)[i]) = {l[i]}
         /\ ToUri(l) = <<"loc:">> \o FlattenSeq(Joined(Encoded(l), "|"))
<1> HIDE DEF Lexicon, Layer, Free
<1>1. l \in Seq(Layer) /\ l # <<>>
  BY DEF Locator
<1> DEFINE N == Len(l)
<1>2. N \in Nat \ {0} /\ DOMAIN l = 1..N /\ \A i \in 1..N : l[i] \in Layer
  BY <1>1
<1>3. \A i \in 1..N : /\ LayerEncode(l[i]) \in Seq(Lexicon) /\ Free(LayerEncode(l[i]), "|")
                      /\ LayerParse(LayerEncode(l[i])) = {l[i]}
  BY <1>2, LayerReadBack
<1>4. ToUri(l) = <<"loc:">> \o FlattenSeq(Joined(Encoded(l), "|"))
  BY DEF ToUri, Joined, Encoded
<1> DEFINE es == Encoded(l)
<1> HIDE DEF N
<1>5. DOMAIN es = 1..N /\ \A i \in 1..N : es[i] = LayerEncode(l[i])
  BY <1>2 DEF Encoded
<1>6. es \in Seq(Seq(Lexicon)) /\ Len(es) = N
  BY <1>2, <1>3, <1>5 DEF Encoded
<1> HIDE DEF es
<1>7. AllFree(es, "|") /\ es # <<>>
  BY <1>2, <1>3, <1>5, <1>6 DEF AllFree
<1>8. QED
  BY <1>2, <1>3, <1>4, <1>5, <1>6, <1>7 DEF N, es

\* What the parts of a text stand for.
Accepted(parts) == [i \in DOMAIN parts |-> CHOOSE l \in LayerParse(parts[i]) : TRUE]

LEMMA FromUriIs ==
  ASSUME NEW t
  PROVE  FromUri(t) =
           IF t = <<>> \/ t[1] \notin Prefix THEN {}
           ELSE IF \E i \in DOMAIN Split(Tail(t), "|") : LayerParse(Split(Tail(t), "|")[i]) = {} THEN {}
           ELSE {Accepted(Split(Tail(t), "|"))}
BY DEF FromUri, Accepted

LEMMA ToUriText == \A l \in Locator : ToUri(l) \in Seq(Lexicon)
<1> HIDE DEF Locator
<1> SUFFICES ASSUME NEW l \in Locator PROVE ToUri(l) \in Seq(Lexicon)
  OBVIOUS
<1>1. "|" \in Lexicon /\ "loc:" \in Lexicon
  <2>1. "|" \in Lexicon
    BY ReservedAre DEF Structure
  <2>2. "loc:" \in Lexicon
    BY DEF Lexicon
  <2>3. QED
    BY <2>1, <2>2
<1> HIDE DEF Lexicon
<1> DEFINE es == Encoded(l)
<1>2. es \in Seq(Seq(Lexicon)) /\ ToUri(l) = <<"loc:">> \o FlattenSeq(Joined(es, "|"))
  BY EncodedIs
<1> HIDE DEF es
<1>3. Joined(es, "|") \in Seq(Seq(Lexicon))
  BY <1>1, <1>2, JoinedIs
<1>4. FlattenSeq(Joined(es, "|")) \in Seq(Lexicon)
  BY <1>3, FlattenType
<1>5. QED
  BY <1>1, <1>2, <1>4, HeadIs

\* A locator is read back from its text.
LEMMA FromToUri == \A l \in Locator : FromUri(ToUri(l)) = {l}
<1> HIDE DEF Locator
<1> SUFFICES ASSUME NEW l \in Locator PROVE FromUri(ToUri(l)) = {l}
  OBVIOUS
<1>1. "|" \in Lexicon /\ "loc:" \in Lexicon /\ "loc:" \in Prefix
  <2>1. "|" \in Lexicon
    BY ReservedAre DEF Structure
  <2>2. "loc:" \in Lexicon
    BY DEF Lexicon
  <2>3. QED
    BY <2>1, <2>2 DEF Prefix
<1> HIDE DEF Lexicon, Free, Prefix
<1> DEFINE es == Encoded(l)
           t == ToUri(l)
           rest == FlattenSeq(Joined(es, "|"))
<1>2. /\ es \in Seq(Seq(Lexicon)) /\ es # <<>> /\ AllFree(es, "|")
      /\ DOMAIN l = 1..Len(l) /\ DOMAIN es = 1..Len(l)
      /\ \A i \in 1..Len(l) : LayerParse(es[i]) = {l[i]}
      /\ t = <<"loc:">> \o rest
  BY EncodedIs
<1> HIDE DEF es
<1>3. Joined(es, "|") \in Seq(Seq(Lexicon))
  BY <1>1, <1>2, JoinedIs
<1>4. rest \in Seq(Lexicon)
  BY <1>3, FlattenType
<1>5. Split(rest, "|") = es
  BY <1>1, <1>2, SplitJoined
<1> HIDE DEF rest, t
<1>6. t # <<>> /\ t[1] = "loc:" /\ Tail(t) = rest
  BY <1>1, <1>2, <1>4, HeadIs
<1>7. Accepted(es) = l
  <2>1. \A i \in 1..Len(l) : (CHOOSE x \in LayerParse(es[i]) : TRUE) = l[i]
    BY <1>2
  <2>2. l = [i \in DOMAIN l |-> l[i]]
    <3>1. l \in Seq(Layer)
      BY DEF Locator
    <3> HIDE DEF Layer
    <3>2. QED
      BY <3>1
  <2> HIDE DEF Layer
  <2>3. QED
    BY <1>2, <2>1, <2>2 DEF Accepted
<1>8. ~\E i \in DOMAIN es : LayerParse(es[i]) = {}
  BY <1>2
<1>9. FromUri(t) = {Accepted(es)}
  BY <1>1, <1>5, <1>6, <1>8, FromUriIs
<1>10. QED
  BY <1>7, <1>9 DEF t

\* Whatever text is accepted is accepted for a locator.
LEMMA FromUriType == \A t \in Seq(Lexicon) : FromUri(t) \subseteq Locator
<1> SUFFICES ASSUME NEW t \in Seq(Lexicon), NEW l \in FromUri(t) PROVE l \in Locator
  OBVIOUS
<1> HIDE DEF Lexicon, Layer
<1> DEFINE ps == Split(Tail(t), "|")
<1>1. t # <<>> /\ l = Accepted(ps) /\ ~\E i \in DOMAIN ps : LayerParse(ps[i]) = {}
  BY FromUriIs
<1>2. Tail(t) \in Seq(Lexicon)
  BY <1>1
<1>3. ps \in Seq(Seq(Lexicon)) /\ ps # <<>>
  BY <1>2, SplitType
<1> HIDE DEF ps
<1>4. Len(ps) \in Nat \ {0} /\ DOMAIN ps = 1..Len(ps) /\ \A i \in 1..Len(ps) : ps[i] \in Seq(Lexicon)
  BY <1>3
<1>5. \A i \in 1..Len(ps) : (CHOOSE x \in LayerParse(ps[i]) : TRUE) \in Layer
  BY <1>1, <1>4, LayerParseType
<1>6. Accepted(ps) \in Seq(Layer) /\ Len(Accepted(ps)) = Len(ps)
  BY <1>4, <1>5 DEF Accepted
<1>7. Accepted(ps) # <<>>
  BY <1>4, <1>6
<1>8. QED
  BY <1>1, <1>6, <1>7 DEF Locator

-----------------------------------------------------------------------------
(***************************************************************************)
(* From a report to a session and back                                     *)
(***************************************************************************)

\* A damaged text is still one of the words, numerals and characters.
LEMMA DamagedText ==
  ASSUME NEW t \in Seq(Lexicon)
  PROVE  /\ \A i \in DOMAIN t : \A s \in Slips : ReplaceAt(t, i, s) \in Seq(Lexicon)
         /\ \A i \in DOMAIN t : RemoveAt(t, i) \in Seq(Lexicon)
         /\ \A i \in 1..(Len(t) + 1) : \A s \in Slips : InsertAt(t, i, s) \in Seq(Lexicon)
<1>1. Slips \subseteq Lexicon
  BY DEF Lexicon
<1> HIDE DEF Lexicon
<1>2. ASSUME NEW i \in DOMAIN t, NEW s \in Slips PROVE ReplaceAt(t, i, s) \in Seq(Lexicon)
  BY <1>1 DEF ReplaceAt
<1>3. \A i \in 1..(Len(t) + 1) :
        SubSeq(t, 1, i - 1) \in Seq(Lexicon) /\ SubSeq(t, i, Len(t)) \in Seq(Lexicon)
  OBVIOUS
<1>4. ASSUME NEW i \in DOMAIN t PROVE RemoveAt(t, i) \in Seq(Lexicon)
  <2>1. SubSeq(t, 1, i - 1) \in Seq(Lexicon) /\ SubSeq(t, i + 1, Len(t)) \in Seq(Lexicon)
    BY <1>3
  <2>2. QED
    BY <2>1 DEF RemoveAt
<1>5. ASSUME NEW i \in 1..(Len(t) + 1), NEW s \in Slips PROVE InsertAt(t, i, s) \in Seq(Lexicon)
  <2>1. SubSeq(t, 1, i - 1) \in Seq(Lexicon) /\ SubSeq(t, i, Len(t)) \in Seq(Lexicon)
    BY <1>3
  <2>2. <<s>> \in Seq(Lexicon)
    BY <1>1
  <2>3. QED
    BY <2>1, <2>2 DEF InsertAt
<1>6. QED
  BY <1>2, <1>4, <1>5

LEMMA InitTypes == Init => TypeOK
<1> HIDE DEF Locator
<1> SUFFICES ASSUME Init PROVE TypeOK
  OBVIOUS
<1>1. loc \in Locator
  BY WrittenAssumption DEF Init
<1>2. text \in Seq(Lexicon)
  <2> HIDE DEF Lexicon
  <2>1. QED
    BY <1>1, ToUriText DEF Init
<1>3. slips \in 0..MaxSlips
  BY LocatorUriAssumption DEF Init
<1> HIDE DEF Lexicon
<1>4. QED
  BY <1>1, <1>2, <1>3 DEF TypeOK

LEMMA NextTypes == TypeOK /\ [Next]_vars => TypeOK'
<1> HIDE DEF Locator, Lexicon
<1> SUFFICES ASSUME TypeOK, [Next]_vars PROVE TypeOK'
  OBVIOUS
<1> USE DEF TypeOK
<1>1. CASE Slip
  <2>1. text' \in Seq(Lexicon)
    BY <1>1, DamagedText DEF Slip
  <2>2. slips' \in 0..MaxSlips
    BY <1>1, LocatorUriAssumption DEF Slip
  <2>3. QED
    BY <1>1, <2>1, <2>2 DEF Slip
<1>2. CASE Reopen
  <2>1. PICK l \in FromUri(text) : loc' = l /\ text' = ToUri(l)
    BY <1>2 DEF Reopen
  <2>2. l \in Locator
    BY FromUriType
  <2>3. ToUri(l) \in Seq(Lexicon)
    BY <2>2, ToUriText
  <2>4. QED
    BY <1>2, <2>1, <2>2, <2>3 DEF Reopen
<1>3. CASE UNCHANGED vars
  BY <1>3 DEF vars
<1>4. QED
  BY <1>1, <1>2, <1>3 DEF Next

\* In every session, whatever became of the text, what is known by it is a
\* locator with numbers that fit their fields (from_uri accepts no other).
THEOREM SessionTypes == Spec => []TypeOK
BY InitTypes, NextTypes, PTL DEF Spec

LEMMA TypedReadsBack == TypeOK => RoundTrip
<1> HIDE DEF Locator, Lexicon
<1>1. QED
  BY FromToUri DEF TypeOK, RoundTrip

\* Every locator that is written or accepted is read back unchanged from the
\* text to_uri gives it, whatever its names are made of.
THEOREM ReadsBack == Spec => []RoundTrip
BY SessionTypes, TypedReadsBack, PTL

-----------------------------------------------------------------------------
(***************************************************************************)
(* The older form of a text                                                *)
(***************************************************************************)

\* One more text joined to those before it.
LEMMA JoinedOnce ==
  ASSUME NEW V, NEW c \in V, NEW ps \in Seq(Seq(V)), NEW x \in Seq(V)
  PROVE  /\ FlattenSeq(Joined(ps, c)) \in Seq(V)
         /\ FlattenSeq(Joined(Append(ps, x), c)) =
              IF ps = <<>> THEN x ELSE FlattenSeq(Joined(ps, c)) \o (<<c>> \o x)
<1> DEFINE F == FlattenSeq(Joined(ps, c))
           y == IF ps = <<>> THEN x ELSE <<c>> \o x
<1>1. Joined(Append(ps, x), c) = Append(Joined(ps, c), y)
  BY JoinedAppend
<1>2. Joined(ps, c) \in Seq(Seq(V)) /\ F \in Seq(V)
  BY JoinedIs, FlattenType
<1>3. y \in Seq(V)
  BY LedAppend
<1>4. FlattenSeq(Append(Joined(ps, c), y)) = F \o y
  <2> HIDE DEF y
  <2>1. QED
    BY <1>2, <1>3, FlattenAppend
<1>5. ps = <<>> => F \o y = x
  <2> SUFFICES ASSUME ps = <<>> PROVE F \o y = x
    OBVIOUS
  <2>1. F = <<>> /\ y = x
    BY NoTexts
  <2> HIDE DEF F, y
  <2>2. QED
    BY <2>1, ConcatEmptySeq
<1>6. QED
  BY <1>1, <1>2, <1>4, <1>5

\* A sequence that is not empty is one with an element appended.
LEMMA FrontLast ==
  ASSUME NEW W, NEW s \in Seq(W), s # <<>>
  PROVE  \E front \in Seq(W) : \E last \in W : s = Append(front, last)
<1> DEFINE n == Len(s)
           front == SubSeq(s, 1, n - 1)
<1>1. n \in Nat \ {0} /\ n = Len(s) /\ s[n] \in W
  OBVIOUS
<1> HIDE DEF n
<1>2. front \in Seq(W) /\ Len(front) = n - 1 /\ \A i \in 1..(n - 1) : front[i] = s[i]
  <2>1. 1 \in Int /\ n - 1 \in Int /\ \A i \in 1..(n - 1) : s[i] \in W
    BY <1>1
  <2>2. /\ front \in Seq(W)
        /\ Len(front) = IF 1 <= n - 1 THEN (n - 1) - 1 + 1 ELSE 0
        /\ \A i \in 1..((n - 1) - 1 + 1) : front[i] = s[1 + i - 1]
    BY <2>1, SubSeqProperties
  <2> HIDE DEF front
  <2>3. QED
    BY <1>1, <2>2
<1> HIDE DEF front
<1>3. /\ Append(front, s[n]) \in Seq(W) /\ Len(Append(front, s[n])) = n
      /\ Append(front, s[n])[n] = s[n]
      /\ \A i \in 1..(n - 1) : Append(front, s[n])[i] = s[i]
  BY <1>1, <1>2, AppendProperties
<1>4. \A i \in 1..n : Append(front, s[n])[i] = s[i]
  BY <1>1, <1>3
<1>5. Append(front, s[n]) = s
  BY <1>1, <1>3, <1>4, SeqEqual
<1>6. QED
  BY <1>1, <1>2, <1>5

\* An appended character goes to the last part.
LEMMA ExtendedIs ==
  ASSUME NEW V, NEW front \in Seq(Seq(V)), NEW last \in Seq(V), NEW x \in V, NEW c
  PROVE  Extended(Append(front, last), x, c) =
           IF x = c THEN Append(Append(front, last), <<>>) ELSE Append(front, Append(last, x))
<1> DEFINE n == Len(front) + 1
           p == Append(front, last)
           e == Append(last, x)
           q == Append(front, e)
           r == [p EXCEPT ![n] = e]
           W == Seq(V)
<1>1. e \in W /\ Len(front) \in Nat
  BY AppendProperties
<1>2. \A y \in W : /\ Append(front, y) \in Seq(W) /\ Len(Append(front, y)) = n
                   /\ Append(front, y)[n] = y
                   /\ \A i \in 1..Len(front) : Append(front, y)[i] = front[i]
  BY AppendProperties
<1> HIDE DEF W
<1>3. p \in Seq(W) /\ Len(p) = n /\ p[n] = last /\ \A i \in 1..Len(front) : p[i] = front[i]
  BY <1>2 DEF W
<1>4. q \in Seq(W) /\ Len(q) = n /\ q[n] = e /\ \A i \in 1..Len(front) : q[i] = front[i]
  BY <1>1, <1>2
<1>5. x # c => Extended(p, x, c) = r
  BY <1>3 DEF Extended
<1> HIDE DEF p, q, e
<1>6. r \in Seq(W) /\ Len(r) = n /\ r[n] = e /\ \A i \in 1..Len(front) : r[i] = front[i]
  BY <1>1, <1>3
<1> HIDE DEF r
<1>7. \A i \in 1..n : r[i] = q[i]
  <2>1. \A i \in 1..n : i \in 1..Len(front) \/ i = n
    BY <1>1
  <2>2. QED
    BY <1>4, <1>6, <2>1
<1>8. r = q
  BY <1>4, <1>6, <1>7, SeqEqual
<1>9. x = c => Extended(p, x, c) = Append(p, <<>>)
  BY DEF Extended
<1>10. QED
  BY <1>5, <1>8, <1>9 DEF p, q, e

\* The parts of a text make it up again.
LEMMA JoinedSplit ==
  ASSUME NEW V, NEW c \in V
  PROVE  \A t \in Seq(V) : FlattenSeq(Joined(Split(t, c), c)) = t /\ AllFree(Split(t, c), c)
<1> DEFINE P == {t \in Seq(V) : FlattenSeq(Joined(Split(t, c), c)) = t /\ AllFree(Split(t, c), c)}
           W == Seq(V)
<1>1. <<>> \in P
  <2>1. << <<>> >> = Append(<<>>, <<>>) /\ <<>> \in Seq(W) /\ <<>> \in W
    OBVIOUS
  <2>2. FlattenSeq(Joined(Append(<<>>, <<>>), c)) = <<>>
    <3>1. \A ps \in Seq(W) : \A x \in W :
            ps = <<>> => FlattenSeq(Joined(Append(ps, x), c)) = x
      BY ZenonT(40), JoinedOnce
    <3>2. QED
      BY <2>1, <3>1
  <2>3. AllFree(<< <<>> >>, c)
    BY DEF AllFree, Free
  <2>4. QED
    BY <2>1, <2>2, <2>3, SplitEmpty
<1>2. ASSUME NEW t \in Seq(V), NEW x \in V, t \in P PROVE Append(t, x) \in P
  <2> DEFINE ps == Split(t, c)
  <2>1. ps \in Seq(W) /\ ps # <<>>
    BY SplitType
  <2>2. Split(Append(t, x), c) = Extended(ps, x, c)
    BY SplitAppend
  <2>3. FlattenSeq(Joined(ps, c)) = t /\ AllFree(ps, c)
    BY <1>2
  <2>4. Append(t, x) \in Seq(V) /\ <<>> \in W
    BY AppendProperties
  <2> HIDE DEF ps
  <2>5. PICK front \in Seq(W), last \in W : ps = Append(front, last)
    BY <2>1, FrontLast
  <2>6. AllFree(front, c) /\ Free(last, c)
    BY <2>3, <2>5, AllFreeAppend
  <2>7. CASE x = c
    <3>1. Extended(ps, x, c) = Append(ps, <<>>)
      BY <2>5, <2>7, ExtendedIs
    <3>2. FlattenSeq(Joined(Append(ps, <<>>), c)) = t \o (<<c>> \o <<>>)
      BY ZenonT(40), <2>1, <2>3, <2>4, JoinedOnce
    <3>3. t \o (<<c>> \o <<>>) = Append(t, x)
      BY <2>7
    <3>4. AllFree(Append(ps, <<>>), c)
      <4>1. \A i \in 1..(Len(ps) + 1) :
              Append(ps, <<>>)[i] = IF i = Len(ps) + 1 THEN <<>> ELSE ps[i]
        BY <2>1
      <4>2. Len(Append(ps, <<>>)) = Len(ps) + 1
        BY <2>1
      <4>3. Free(<<>>, c)
        BY DEF Free
      <4> HIDE DEF Free
      <4>4. QED
        BY <2>1, <2>3, <4>1, <4>2, <4>3 DEF AllFree
    <3>5. QED
      BY <2>2, <2>4, <3>1, <3>2, <3>3, <3>4
  <2>8. CASE x # c
    <3> DEFINE e == Append(last, x)
               F == FlattenSeq(Joined(front, c))
    <3>1. Extended(ps, x, c) = Append(front, e)
      BY <2>5, <2>8, ExtendedIs
    <3>2. e \in W /\ Free(e, c)
      BY <2>6, <2>8, AppendFree, AppendProperties
    <3>3. t = IF front = <<>> THEN last ELSE F \o (<<c>> \o last)
      BY <2>3, <2>5, JoinedOnce
    <3>4. FlattenSeq(Joined(Append(front, e), c)) = IF front = <<>> THEN e ELSE F \o (<<c>> \o e)
      BY <3>2, JoinedOnce
    <3>5. (IF front = <<>> THEN e ELSE F \o (<<c>> \o e)) = Append(t, x)
      <4>1. F \in W /\ <<c>> \o last \in W
        BY JoinedOnce, LedAppend
      <4>2. <<c>> \in Seq(V)
        OBVIOUS
      <4> DEFINE one == <<c>>
      <4> HIDE DEF F, one
      <4>3. one \o Append(last, x) = Append(one \o last, x)
        BY <4>2, ConcatAppend DEF one
      <4>4. F \o Append(one \o last, x) = Append(F \o (one \o last), x)
        BY SMTT(40), <4>1, ConcatAppend DEF one
      <4>5. QED
        BY <3>3, <4>3, <4>4 DEF one
    <3>6. AllFree(Append(front, e), c)
      <4>1. Len(front) \in Nat /\ Len(Append(front, e)) = Len(front) + 1
            /\ Append(front, e)[Len(front) + 1] = e
            /\ \A i \in 1..Len(front) : Append(front, e)[i] = front[i]
        BY <3>2, AppendProperties
      <4> HIDE DEF e, Free
      <4>2. QED
        BY <2>6, <3>2, <4>1 DEF AllFree
    <3>7. QED
      BY <2>2, <2>4, <3>1, <3>4, <3>5, <3>6
  <2>9. QED
    BY <2>7, <2>8
<1> HIDE DEF P
<1>3. \A t \in Seq(V) : t \in P
  BY <1>1, <1>2, ByAppending
<1>4. QED
  BY <1>3 DEF P

\* Where the older form of a text without its prefix differs, and that form.
Aliased(t, j) ==
  t[j] = "file" /\ j < Len(t) /\ t[j + 1] = ":" /\ (j = 1 \/ t[j - 1] = "|")

Old(t) == [j \in DOMAIN t |-> IF Aliased(t, j) THEN "os" ELSE t[j]]

LEMMA OldWords ==
  /\ "file" \in Lexicon /\ "os" \in Lexicon /\ "loc:" \in Lexicon /\ "fvfs:" \in Lexicon
  /\ ":" \in Lexicon /\ "|" \in Lexicon
<1>1. "file" \in Lexicon /\ "os" \in Lexicon /\ "loc:" \in Lexicon /\ "fvfs:" \in Lexicon
  BY DEF Lexicon
<1>2. ":" \in Lexicon /\ "|" \in Lexicon
  BY ReservedAre DEF Structure
<1>3. QED
  BY <1>1, <1>2

LEMMA OldIs ==
  ASSUME NEW t \in Seq(Lexicon)
  PROVE  /\ Old(t) \in Seq(Lexicon) /\ Len(Old(t)) = Len(t)
         /\ \A j \in 1..Len(t) : Old(t)[j] = IF Aliased(t, j) THEN "os" ELSE t[j]
         /\ Free(t, "|") => Free(Old(t), "|")
<1> HIDE DEF Lexicon, Aliased
<1> DEFINE n == Len(t)
<1>1. n \in Nat /\ DOMAIN t = 1..n /\ \A j \in 1..n : t[j] \in Lexicon
  OBVIOUS
<1>2. n = Len(t)
  OBVIOUS
<1> HIDE DEF n
<1>3. Old(t) = [j \in 1..n |-> IF Aliased(t, j) THEN "os" ELSE t[j]]
  BY <1>1 DEF Old
<1>4. \A j \in 1..n : (IF Aliased(t, j) THEN "os" ELSE t[j]) \in Lexicon
  BY <1>1, OldWords
<1>5. Old(t) \in Seq(Lexicon) /\ Len(Old(t)) = n
      /\ \A j \in 1..n : Old(t)[j] = IF Aliased(t, j) THEN "os" ELSE t[j]
  BY <1>1, <1>3, <1>4
<1>6. Free(t, "|") => Free(Old(t), "|")
  BY <1>2, <1>5 DEF Free
<1>7. QED
  BY <1>2, <1>5, <1>6

LEMMA LegacyIs ==
  ASSUME NEW t \in Seq(Lexicon), t # <<>>
  PROVE  /\ Legacy(t) # <<>> /\ Legacy(t)[1] = "fvfs:"
         /\ Tail(Legacy(t)) = Old(Tail(t)) /\ Tail(t) \in Seq(Lexicon)
<1> HIDE DEF Lexicon
<1> DEFINE n == Len(t)
           s == Legacy(t)
           r == Tail(t)
<1>1. n \in Nat \ {0} /\ n = Len(t) /\ DOMAIN t = 1..n /\ \A i \in 1..n : t[i] \in Lexicon
  OBVIOUS
<1> HIDE DEF n
<1>2. r \in Seq(Lexicon) /\ Len(r) = n - 1 /\ \A i \in 1..(n - 1) : r[i] = t[i + 1]
  BY <1>1
<1> DEFINE New(i) == CASE i = 1 -> "fvfs:"
                       [] i > 1 /\ t[i] = "file" /\ i < n /\ t[i + 1] = ":"
                            /\ (i = 2 \/ t[i - 1] = "|") -> "os"
                       [] OTHER -> t[i]
<1>3. s = [i \in 1..n |-> New(i)]
  BY <1>1 DEF Legacy
<1>4. \A i \in 1..n : New(i) \in Lexicon
  BY <1>1, OldWords
<1>5. New(1) = "fvfs:"
  OBVIOUS
<1> HIDE DEF r
<1>6. \A i \in 1..(n - 1) : New(i + 1) = IF Aliased(r, i) THEN "os" ELSE r[i]
  <2> SUFFICES ASSUME NEW i \in 1..(n - 1)
               PROVE  New(i + 1) = IF Aliased(r, i) THEN "os" ELSE r[i]
    OBVIOUS
  <2>1. r[i] = t[i + 1] /\ i + 1 > 1 /\ i + 1 # 1 /\ (i + 1) - 1 = i
    BY <1>1, <1>2
  <2>2. i < n - 1 => r[i + 1] = t[(i + 1) + 1]
    BY <1>1, <1>2
  <2>3. i < n - 1 <=> i + 1 < n
    BY <1>1
  <2>4. i # 1 => r[i - 1] = t[i]
    <3>1. i # 1 => i - 1 \in 1..(n - 1) /\ (i - 1) + 1 = i
      BY <1>1
    <3>2. QED
      BY <1>2, <3>1
  <2>5. i = 1 <=> i + 1 = 2
    BY <1>1
  <2>6. Aliased(r, i) <=> t[i + 1] = "file" /\ i + 1 < n /\ t[(i + 1) + 1] = ":"
                          /\ (i + 1 = 2 \/ t[i] = "|")
    BY <1>2, <2>1, <2>2, <2>3, <2>4, <2>5 DEF Aliased
  <2>7. QED
    BY <2>1, <2>6
<1> HIDE DEF New
<1>7. s \in Seq(Lexicon) /\ Len(s) = n /\ \A i \in 1..n : s[i] = New(i)
  BY <1>1, <1>3, <1>4
<1> HIDE DEF s
<1>8. Tail(s) \in Seq(Lexicon) /\ Len(Tail(s)) = n - 1 /\ \A i \in 1..(n - 1) : Tail(s)[i] = s[i + 1]
  BY <1>1, <1>7
<1>9. Old(r) \in Seq(Lexicon) /\ Len(Old(r)) = n - 1
      /\ \A i \in 1..(n - 1) : Old(r)[i] = IF Aliased(r, i) THEN "os" ELSE r[i]
  BY <1>2, OldIs
<1>10. \A i \in 1..(n - 1) : Tail(s)[i] = Old(r)[i]
  <2>1. \A i \in 1..(n - 1) : i + 1 \in 1..n
    BY <1>1
  <2>2. QED
    BY <1>6, <1>7, <1>8, <1>9, <2>1
<1>11. Tail(s) = Old(r)
  BY <1>8, <1>9, <1>10, SeqEqual
<1>12. s # <<>> /\ s[1] = "fvfs:"
  BY <1>1, <1>5, <1>7
<1>13. QED
  BY <1>2, <1>11, <1>12 DEF r, s

LEMMA AroundAs ==
  ASSUME NEW V, NEW c \in V, NEW u \in Seq(V), NEW v \in Seq(V), NEW t, t = u \o (<<c>> \o v)
  PROVE  /\ t \in Seq(V) /\ Len(t) = Len(u) + 1 + Len(v) /\ t[Len(u) + 1] = c
         /\ \A i \in 1..Len(u) : t[i] = u[i]
         /\ \A i \in 1..Len(v) : t[Len(u) + 1 + i] = v[i]
<1> DEFINE s == u \o (<<c>> \o v)
<1>1. /\ s \in Seq(V) /\ Len(s) = Len(u) + 1 + Len(v) /\ s[Len(u) + 1] = c
      /\ \A i \in 1..Len(u) : s[i] = u[i]
      /\ \A i \in 1..Len(v) : s[Len(u) + 1 + i] = v[i]
  BY AroundIs
<1>2. t = s
  OBVIOUS
<1> HIDE DEF s
<1>3. QED
  BY <1>1, <1>2

\* The older form of joined texts is that of each.
LEMMA OldAround ==
  ASSUME NEW u \in Seq(Lexicon), NEW x \in Seq(Lexicon)
  PROVE  Old(u \o (<<"|">> \o x)) = Old(u) \o (<<"|">> \o Old(x))
<1> HIDE DEF Lexicon
<1> DEFINE w == u \o (<<"|">> \o x)
           z == Old(u) \o (<<"|">> \o Old(x))
           m == Len(u)
           n == Len(x)
<1>1. m \in Nat /\ n \in Nat /\ m = Len(u) /\ n = Len(x)
  OBVIOUS
<1>2. /\ w \in Seq(Lexicon) /\ Len(w) = m + 1 + n /\ w[m + 1] = "|"
      /\ \A i \in 1..m : w[i] = u[i]
      /\ \A i \in 1..n : w[m + 1 + i] = x[i]
  <2>1. "|" \in Lexicon
    BY OldWords
  <2> HIDE DEF m, n, w
  <2>2. w = u \o (<<"|">> \o x)
    BY DEF w
  <2>3. /\ w \in Seq(Lexicon) /\ Len(w) = Len(u) + 1 + Len(x) /\ w[Len(u) + 1] = "|"
        /\ \A i \in 1..Len(u) : w[i] = u[i]
        /\ \A i \in 1..Len(x) : w[Len(u) + 1 + i] = x[i]
    BY <2>1, <2>2, AroundAs
  <2>4. QED
    BY <2>3 DEF m, n
<1>3. /\ Old(u) \in Seq(Lexicon) /\ Len(Old(u)) = m
      /\ \A i \in 1..m : Old(u)[i] = IF Aliased(u, i) THEN "os" ELSE u[i]
  BY OldIs
<1>4. /\ Old(x) \in Seq(Lexicon) /\ Len(Old(x)) = n
      /\ \A i \in 1..n : Old(x)[i] = IF Aliased(x, i) THEN "os" ELSE x[i]
  BY OldIs
<1>5. /\ z \in Seq(Lexicon) /\ Len(z) = m + 1 + n /\ z[m + 1] = "|"
      /\ \A i \in 1..m : z[i] = Old(u)[i]
      /\ \A i \in 1..n : z[m + 1 + i] = Old(x)[i]
  <2> HIDE DEF m, n
  <2> DEFINE a == Old(u)
             b == Old(x)
  <2>1. "|" \in Lexicon
    BY OldWords
  <2>2. a \in Seq(Lexicon) /\ b \in Seq(Lexicon) /\ Len(a) = m /\ Len(b) = n
    BY <1>3, <1>4
  <2> HIDE DEF m, n, z, a, b
  <2>3. z = a \o (<<"|">> \o b)
    BY DEF z, a, b
  <2>4. /\ z \in Seq(Lexicon) /\ Len(z) = Len(a) + 1 + Len(b) /\ z[Len(a) + 1] = "|"
        /\ \A i \in 1..Len(a) : z[i] = a[i]
        /\ \A i \in 1..Len(b) : z[Len(a) + 1 + i] = b[i]
    <3> DEFINE Made(p, q, s) ==
                 /\ s \in Seq(Lexicon) /\ Len(s) = Len(p) + 1 + Len(q) /\ s[Len(p) + 1] = "|"
                 /\ \A i \in 1..Len(p) : s[i] = p[i]
                 /\ \A i \in 1..Len(q) : s[Len(p) + 1 + i] = q[i]
    <3>1. ASSUME NEW p \in Seq(Lexicon), NEW q \in Seq(Lexicon), NEW s, s = p \o (<<"|">> \o q)
          PROVE  Made(p, q, s)
      BY <2>1, <3>1, AroundAs
    <3>2. a \in Seq(Lexicon) /\ b \in Seq(Lexicon)
      BY <2>2
    <3> HIDE DEF Made
    <3>3. Made(a, b, z)
      BY <2>3, <3>1, <3>2
    <3>4. QED
      BY <3>3 DEF Made
  <2>5. QED
    BY <2>2, <2>4 DEF a, b
<1> HIDE DEF w, z, m, n
<1>6. /\ Old(w) \in Seq(Lexicon) /\ Len(Old(w)) = m + 1 + n
      /\ \A i \in 1..(m + 1 + n) : Old(w)[i] = IF Aliased(w, i) THEN "os" ELSE w[i]
  BY <1>2, OldIs
<1>7. ASSUME NEW i \in 1..m PROVE Old(w)[i] = z[i]
  <2>1. i \in 1..(m + 1 + n) /\ i < Len(w) /\ w[i] = u[i]
    BY <1>1, <1>2
  <2>2. i # 1 => w[i - 1] = u[i - 1]
    <3>1. i # 1 => i - 1 \in 1..m
      BY <1>1
    <3>2. QED
      BY <1>2, <3>1
  <2>3. CASE i < m
    <3>1. i + 1 \in 1..m /\ i < Len(u)
      BY <1>1, <2>3
    <3>2. w[i + 1] = u[i + 1]
      BY <1>2, <3>1
    <3>3. Aliased(w, i) <=> Aliased(u, i)
      BY <2>1, <2>2, <3>1, <3>2 DEF Aliased
    <3>4. QED
      BY <1>3, <1>5, <1>6, <2>1, <3>3
  <2>4. CASE i = m
    <3>1. ~Aliased(w, i)
      BY <1>2, <2>4 DEF Aliased
    <3>2. ~Aliased(u, i)
      BY <1>1, <2>4 DEF Aliased
    <3>3. QED
      BY <1>3, <1>5, <1>6, <2>1, <3>1, <3>2
  <2>5. QED
    BY <1>1, <2>3, <2>4
<1>8. Old(w)[m + 1] = z[m + 1]
  <2>1. m + 1 \in 1..(m + 1 + n)
    BY <1>1
  <2>2. ~Aliased(w, m + 1)
    BY <1>2 DEF Aliased
  <2>3. QED
    BY <1>2, <1>5, <1>6, <2>1, <2>2
<1>9. ASSUME NEW i \in 1..n PROVE Old(w)[m + 1 + i] = z[m + 1 + i]
  <2> DEFINE j == m + 1 + i
  <2>1. j \in 1..(m + 1 + n) /\ w[j] = x[i] /\ j # 1
    BY <1>1, <1>2
  <2>2. j < Len(w) <=> i < Len(x)
    BY <1>1, <1>2
  <2>3. i < Len(x) => w[j + 1] = x[i + 1]
    <3>1. i < Len(x) => i + 1 \in 1..n /\ m + 1 + (i + 1) = j + 1
      BY <1>1
    <3>2. QED
      BY <1>2, <3>1
  <2>4. i = 1 => w[j - 1] = "|"
    <3>1. i = 1 => j - 1 = m + 1
      BY <1>1
    <3>2. QED
      BY <1>2, <3>1
  <2>5. i # 1 => w[j - 1] = x[i - 1]
    <3>1. i # 1 => i - 1 \in 1..n /\ m + 1 + (i - 1) = j - 1
      BY <1>1
    <3>2. QED
      BY <1>2, <3>1
  <2> HIDE DEF j
  <2>6. Aliased(w, j) <=> Aliased(x, i)
    BY <2>1, <2>2, <2>3, <2>4, <2>5 DEF Aliased
  <2>7. Old(w)[j] = Old(x)[i]
    BY <1>4, <1>6, <2>1, <2>6
  <2>8. QED
    BY <1>5, <2>7 DEF j
<1>10. \A i \in 1..(m + 1 + n) : Old(w)[i] = z[i]
  <2> SUFFICES ASSUME NEW i \in 1..(m + 1 + n) PROVE Old(w)[i] = z[i]
    OBVIOUS
  <2>1. i \in 1..m \/ i = m + 1 \/ (i - (m + 1) \in 1..n /\ i = m + 1 + (i - (m + 1)))
    BY <1>1
  <2>2. QED
    BY <1>7, <1>8, <1>9, <2>1
<1>11. Old(w) = z
  BY <1>5, <1>6, <1>10, SeqEqual
<1>12. QED
  BY <1>11 DEF w, z

\* The older forms of the parts.
Olds(ps) == [i \in DOMAIN ps |-> Old(ps[i])]

LEMMA OldsAre ==
  ASSUME NEW ps \in Seq(Seq(Lexicon))
  PROVE  /\ Olds(ps) \in Seq(Seq(Lexicon)) /\ Len(Olds(ps)) = Len(ps)
         /\ \A i \in 1..Len(ps) : ps[i] \in Seq(Lexicon) /\ Olds(ps)[i] = Old(ps[i])
         /\ AllFree(ps, "|") => AllFree(Olds(ps), "|")
<1> HIDE DEF Lexicon, Free
<1> DEFINE W == Seq(Lexicon)
           n == Len(ps)
<1>1. n \in Nat /\ n = Len(ps) /\ DOMAIN ps = 1..n /\ \A i \in 1..n : ps[i] \in W
  OBVIOUS
<1> HIDE DEF n
<1>2. \A i \in 1..n : Old(ps[i]) \in W /\ (Free(ps[i], "|") => Free(Old(ps[i]), "|"))
  BY <1>1, OldIs
<1> HIDE DEF W
<1>3. Olds(ps) \in Seq(W) /\ Len(Olds(ps)) = n /\ \A i \in 1..n : Olds(ps)[i] = Old(ps[i])
  BY <1>1, <1>2 DEF Olds
<1>4. AllFree(ps, "|") => AllFree(Olds(ps), "|")
  BY <1>1, <1>2, <1>3 DEF AllFree
<1>5. QED
  BY <1>1, <1>3, <1>4 DEF W

LEMMA OldsAppend ==
  ASSUME NEW ps \in Seq(Seq(Lexicon)), NEW x \in Seq(Lexicon)
  PROVE  /\ Olds(Append(ps, x)) = Append(Olds(ps), Old(x)) /\ Old(x) \in Seq(Lexicon)
         /\ ps = <<>> <=> Olds(ps) = <<>>
<1> HIDE DEF Lexicon
<1> DEFINE W == Seq(Lexicon)
           n == Len(ps)
           q == Append(ps, x)
           r == Append(Olds(ps), Old(x))
<1>1. Olds(ps) \in Seq(W) /\ Len(Olds(ps)) = n /\ n \in Nat /\ \A i \in 1..n : Olds(ps)[i] = Old(ps[i])
  BY OldsAre
<1>2. Old(x) \in W
  BY OldIs
<1>3. q \in Seq(W) /\ Len(q) = n + 1 /\ q[n + 1] = x /\ \A i \in 1..n : q[i] = ps[i]
  BY AppendProperties
<1>4. Olds(q) \in Seq(W) /\ Len(Olds(q)) = Len(q) /\ \A i \in 1..Len(q) : Olds(q)[i] = Old(q[i])
  BY <1>3, OldsAre
<1> HIDE DEF W, n, q
<1>5. r \in Seq(W) /\ Len(r) = n + 1 /\ r[n + 1] = Old(x) /\ \A i \in 1..n : r[i] = Olds(ps)[i]
  BY <1>1, <1>2, AppendProperties
<1> HIDE DEF r
<1>6. \A i \in 1..(n + 1) : Olds(q)[i] = r[i]
  <2>1. \A i \in 1..(n + 1) : i \in 1..n \/ i = n + 1
    BY <1>1
  <2>2. QED
    BY <1>1, <1>3, <1>4, <1>5, <2>1
<1>7. Olds(q) = r
  BY <1>3, <1>4, <1>5, <1>6, SeqEqual
<1>8. ps = <<>> <=> Olds(ps) = <<>>
  BY <1>1 DEF n, W
<1>9. QED
  BY <1>2, <1>7, <1>8 DEF q, r, W

LEMMA OldJoined ==
  \A ps \in Seq(Seq(Lexicon)) :
    ps # <<>> => Old(FlattenSeq(Joined(ps, "|"))) = FlattenSeq(Joined(Olds(ps), "|"))
<1> HIDE DEF Lexicon
<1> DEFINE W == Seq(Lexicon)
           P == {ps \in Seq(W) : ps # <<>> =>
                   Old(FlattenSeq(Joined(ps, "|"))) = FlattenSeq(Joined(Olds(ps), "|"))}
<1>1. <<>> \in P
  OBVIOUS
<1>2. ASSUME NEW ps \in Seq(W), NEW x \in W, ps \in P PROVE Append(ps, x) \in P
  <2> DEFINE F == FlattenSeq(Joined(ps, "|"))
             G == FlattenSeq(Joined(Olds(ps), "|"))
             F1 == FlattenSeq(Joined(Append(ps, x), "|"))
             G1 == FlattenSeq(Joined(Olds(Append(ps, x)), "|"))
  <2>1. "|" \in Lexicon
    BY OldWords
  <2>2. F \in W /\ F1 = IF ps = <<>> THEN x ELSE F \o (<<"|">> \o x)
    BY <2>1, JoinedOnce
  <2>3. Olds(ps) \in Seq(W)
    BY OldsAre
  <2>4. /\ Olds(Append(ps, x)) = Append(Olds(ps), Old(x)) /\ Old(x) \in W
        /\ ps = <<>> <=> Olds(ps) = <<>>
    BY OldsAppend
  <2>5. G1 = IF ps = <<>> THEN Old(x) ELSE G \o (<<"|">> \o Old(x))
    <3> DEFINE os == Olds(ps)
               y == Old(x)
    <3>1. os \in Seq(W) /\ y \in W /\ (ps = <<>> <=> os = <<>>)
          /\ G = FlattenSeq(Joined(os, "|")) /\ G1 = FlattenSeq(Joined(Append(os, y), "|"))
      BY <2>3, <2>4
    <3> HIDE DEF os, y, G, G1
    <3>2. FlattenSeq(Joined(Append(os, y), "|")) =
            IF os = <<>> THEN y ELSE FlattenSeq(Joined(os, "|")) \o (<<"|">> \o y)
      <4>1. ASSUME NEW a \in Seq(W), NEW b \in W
            PROVE  FlattenSeq(Joined(Append(a, b), "|")) =
                     IF a = <<>> THEN b ELSE FlattenSeq(Joined(a, "|")) \o (<<"|">> \o b)
        BY <2>1, JoinedOnce
      <4> HIDE DEF W
      <4>2. QED
        BY <3>1, <4>1
    <3>3. QED
      BY <3>1, <3>2 DEF y
  <2>6. ps # <<>> => Old(F) = G
    BY <1>2
  <2>7. Append(ps, x) \in Seq(W)
    BY AppendProperties
  <2> HIDE DEF F, G
  <2>8. ps # <<>> => Old(F \o (<<"|">> \o x)) = Old(F) \o (<<"|">> \o Old(x))
    BY <2>2, OldAround
  <2> HIDE DEF F1, G1
  <2>9. Old(F1) = G1
    BY <2>2, <2>5, <2>6, <2>8
  <2>10. QED
    BY <2>7, <2>9 DEF F1, G1
<1> HIDE DEF P
<1>3. \A ps \in Seq(W) : ps \in P
  BY <1>1, <1>2, ByAppending
<1>4. QED
  BY <1>3 DEF P

\* A layer means the same in both forms.
LEMMA OldLayer ==
  ASSUME NEW p \in Seq(Lexicon), Free(p, "|")
  PROVE  LayerParse(Old(p)) = LayerParse(p)
<1> HIDE DEF Lexicon
<1> DEFINE n == Len(p)
<1>1. n \in Nat /\ n = Len(p)
  OBVIOUS
<1>2. \A j \in 2..n : ~Aliased(p, j)
  <2>1. \A j \in 2..n : j # 1 /\ j - 1 \in 1..n
    BY <1>1
  <2>2. QED
    BY <1>1, <2>1 DEF Aliased, Free
<1>3. /\ Old(p) \in Seq(Lexicon) /\ Len(Old(p)) = n
      /\ \A j \in 1..n : Old(p)[j] = IF Aliased(p, j) THEN "os" ELSE p[j]
  BY OldIs
<1> HIDE DEF n
<1>4. CASE n = 0 \/ ~Aliased(p, 1)
  <2>1. \A j \in 1..n : Old(p)[j] = p[j]
    <3>1. \A j \in 1..n : j = 1 \/ j \in 2..n
      BY <1>1
    <3>2. QED
      BY <1>1, <1>2, <1>3, <1>4, <3>1
  <2>2. Old(p) = p
    BY <1>1, <1>3, <2>1, SeqEqual
  <2>3. QED
    BY <2>2
<1>5. CASE n # 0 /\ Aliased(p, 1)
  <2>1. p[1] = "file" /\ n >= 2 /\ p[2] = ":"
    BY <1>1, <1>5 DEF Aliased
  <2> DEFINE v == SubSeq(p, 3, n)
             head(tag) == <<tag, ":">>
             u(tag) == head(tag) \o v
  <2>2. v \in Seq(Lexicon) /\ Len(v) = n - 2 /\ \A i \in 1..(n - 2) : v[i] = p[2 + i]
    BY <1>1, <2>1
  <2>3. Free(v, "|")
    <3>1. \A i \in 1..(n - 2) : 2 + i \in 1..n
      BY <1>1
    <3>2. QED
      BY <1>1, <2>2, <3>1 DEF Free
  <2> HIDE DEF v
  <2>4. ASSUME NEW tag \in Lexicon
        PROVE  /\ u(tag) \in Seq(Lexicon) /\ Len(u(tag)) = n /\ u(tag)[1] = tag /\ u(tag)[2] = ":"
               /\ \A i \in 1..(n - 2) : u(tag)[2 + i] = v[i]
    <3> DEFINE h == <<tag, ":">>
    <3>1. h \in Seq(Lexicon) /\ Len(h) = 2 /\ h[1] = tag /\ h[2] = ":"
      BY OldWords
    <3> HIDE DEF h
    <3>2. /\ h \o v \in Seq(Lexicon) /\ Len(h \o v) = 2 + (n - 2)
          /\ \A i \in 1..(2 + (n - 2)) : (h \o v)[i] = IF i <= 2 THEN h[i] ELSE v[i - 2]
      <4>1. \A s \in Seq(Lexicon) : \A z \in Seq(Lexicon) :
              /\ s \o z \in Seq(Lexicon) /\ Len(s \o z) = Len(s) + Len(z)
              /\ \A i \in 1..(Len(s) + Len(z)) :
                   (s \o z)[i] = IF i <= Len(s) THEN s[i] ELSE z[i - Len(s)]
        BY ConcatProperties
      <4>2. Len(h) = 2 /\ Len(v) = n - 2 /\ h \in Seq(Lexicon) /\ v \in Seq(Lexicon)
        BY <2>2, <3>1
      <4> DEFINE hv == h \o v
      <4>3. /\ hv \in Seq(Lexicon) /\ Len(hv) = Len(h) + Len(v)
            /\ \A i \in 1..(Len(h) + Len(v)) : hv[i] = IF i <= Len(h) THEN h[i] ELSE v[i - Len(h)]
        BY <4>1, <4>2
      <4> HIDE DEF hv
      <4>4. /\ hv \in Seq(Lexicon) /\ Len(hv) = 2 + (n - 2)
            /\ \A i \in 1..(2 + (n - 2)) : hv[i] = IF i <= 2 THEN h[i] ELSE v[i - 2]
        BY <4>2, <4>3
      <4>5. QED
        BY <4>4 DEF hv
    <3>3. \A i \in 1..(n - 2) : 2 + i \in 1..(2 + (n - 2)) /\ ~(2 + i <= 2) /\ (2 + i) - 2 = i
      BY <1>1
    <3>4. u(tag) = h \o v
      BY DEF h
    <3>5. QED
      BY <1>1, <2>1, <3>1, <3>2, <3>3, <3>4
  <2>5. \A i \in 1..n : i = 1 \/ i = 2 \/ (i - 2 \in 1..(n - 2) /\ 2 + (i - 2) = i)
    BY <1>1
  <2>6. p = u("file")
    <3> DEFINE s == u("file")
    <3>1. /\ s \in Seq(Lexicon) /\ Len(s) = n /\ s[1] = "file" /\ s[2] = ":"
          /\ \A i \in 1..(n - 2) : s[2 + i] = v[i]
      BY <2>4, OldWords
    <3> HIDE DEF s
    <3>2. \A i \in 1..n : p[i] = s[i]
      BY <2>1, <2>2, <2>5, <3>1
    <3>3. p = s
      BY <1>1, <3>1, <3>2, SeqEqual
    <3>4. QED
      BY <3>3 DEF s
  <2>7. Old(p) = u("os")
    <3> DEFINE s == u("os")
    <3>1. /\ s \in Seq(Lexicon) /\ Len(s) = n /\ s[1] = "os" /\ s[2] = ":"
          /\ \A i \in 1..(n - 2) : s[2 + i] = v[i]
      BY <2>4, OldWords
    <3> HIDE DEF s
    <3>2. \A i \in 1..n : i # 1 => i \in 2..n
      BY <1>1
    <3>3. \A i \in 1..n : i # 1 => Old(p)[i] = p[i]
      BY <1>2, <1>3, <3>2
    <3>4. Old(p)[1] = "os"
      BY <1>1, <1>3, <1>5
    <3>5. \A i \in 1..n : Old(p)[i] = s[i]
      <4> SUFFICES ASSUME NEW i \in 1..n PROVE Old(p)[i] = s[i]
        OBVIOUS
      <4>1. CASE i = 1
        BY <3>1, <3>4, <4>1
      <4>2. CASE i = 2
        BY <2>1, <3>1, <3>3, <4>2
      <4>3. CASE i - 2 \in 1..(n - 2) /\ 2 + (i - 2) = i
        <5> DEFINE j == i - 2
        <5>1. j \in 1..(n - 2) /\ 2 + j = i /\ i # 1
          BY <1>1, <4>3
        <5> HIDE DEF j
        <5>2. s[2 + j] = v[j] /\ v[j] = p[2 + j]
          BY <2>2, <3>1, <5>1
        <5>3. QED
          BY <3>3, <5>1, <5>2
      <4>4. QED
        BY <2>5, <4>1, <4>2, <4>3
    <3>6. Old(p) = s
      BY <1>1, <1>3, <3>1, <3>5, SeqEqual
    <3>7. QED
      BY <3>6 DEF s
  <2>8. Plain("file") /\ Plain("os")
    <3>1. \A w \in Literals : Plain(w)
      <4> HIDE DEF Lexicon, Cuts, Literals, Vocabulary
      <4>1. QED
        BY WordsAre DEF Plain
    <3>2. QED
      BY <3>1 DEF Literals
  <2> HIDE DEF Plain, Free
  <2>9. LayerParse(p) = ParseBody(<<"file">>, v) /\ LayerParse(Old(p)) = ParseBody(<<"os">>, v)
    BY <2>2, <2>3, <2>6, <2>7, <2>8, TaggedIs
  <2>10. ParseBody(<<"os">>, v) = ParseBody(<<"file">>, v)
    BY DEF ParseBody
  <2>11. QED
    BY <2>9, <2>10
<1>6. QED
  BY <1>4, <1>5

\* A text in the older form is accepted for the same locator, or refused.
LEMMA LegacyReads ==
  ASSUME NEW t \in Seq(Lexicon), t # <<>>, t[1] = "loc:"
  PROVE  FromUri(Legacy(t)) = FromUri(t)
<1> HIDE DEF Lexicon, Free
<1> DEFINE r == Tail(t)
           ps == Split(r, "|")
           qs == Olds(ps)
<1>1. /\ Legacy(t) # <<>> /\ Legacy(t)[1] = "fvfs:"
      /\ Tail(Legacy(t)) = Old(r) /\ r \in Seq(Lexicon)
  BY LegacyIs
<1> HIDE DEF r
<1>2. "|" \in Lexicon
  BY OldWords
<1>3. ps \in Seq(Seq(Lexicon)) /\ ps # <<>>
  BY <1>1, SplitType
<1>4. FlattenSeq(Joined(ps, "|")) = r /\ AllFree(ps, "|")
  BY <1>1, <1>2, JoinedSplit
<1> HIDE DEF ps
<1>5. Old(r) = FlattenSeq(Joined(qs, "|"))
  BY <1>3, <1>4, OldJoined
<1>6. /\ qs \in Seq(Seq(Lexicon)) /\ Len(qs) = Len(ps) /\ AllFree(qs, "|")
      /\ \A i \in 1..Len(ps) : ps[i] \in Seq(Lexicon) /\ qs[i] = Old(ps[i])
  BY <1>3, <1>4, OldsAre
<1> HIDE DEF qs
<1>7. qs # <<>> /\ DOMAIN qs = 1..Len(ps) /\ DOMAIN ps = 1..Len(ps)
  BY <1>3, <1>6
<1>8. Split(Old(r), "|") = qs
  BY <1>2, <1>5, <1>6, <1>7, SplitJoined
<1>9. \A i \in 1..Len(ps) : LayerParse(qs[i]) = LayerParse(ps[i])
  BY <1>4, <1>6, OldLayer DEF AllFree
<1>10. Accepted(qs) = Accepted(ps)
  BY <1>7, <1>9 DEF Accepted
<1>11. "loc:" \in Prefix /\ "fvfs:" \in Prefix
  BY DEF Prefix
<1>12. FromUri(t) = IF \E i \in DOMAIN ps : LayerParse(ps[i]) = {} THEN {} ELSE {Accepted(ps)}
  BY <1>11, FromUriIs DEF ps, r
<1>13. FromUri(Legacy(t)) = IF \E i \in DOMAIN qs : LayerParse(qs[i]) = {} THEN {} ELSE {Accepted(qs)}
  BY <1>1, <1>8, <1>11, FromUriIs
<1>14. QED
  BY <1>7, <1>9, <1>10, <1>12, <1>13

LEMMA TypedAlias == TypeOK => LegacyAlias
<1> HIDE DEF Lexicon, Locator
<1>1. QED
  BY LegacyReads DEF TypeOK, LegacyAlias

\* In every session, a text of the new form means the same in the older one
\* that from_uri still reads (LEGACY_SCHEME and the `os:` token).
THEOREM OlderTexts == Spec => []LegacyAlias
BY SessionTypes, TypedAlias, PTL
=============================================================================
