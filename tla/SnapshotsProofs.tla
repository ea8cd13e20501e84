--------------------------- MODULE SnapshotsProofs ---------------------------
(***************************************************************************)
(* Epoch tags and field reads: a number written as bytes and read back is  *)
(* the number, bytes read and written again are the bytes, and the bytes   *)
(* of numbers order as the numbers do, for every radix and width.          *)
(***************************************************************************)
EXTENDS Snapshots, LocatorUriProofs

-----------------------------------------------------------------------------
(***************************************************************************)
(* Division                                                                *)
(***************************************************************************)

\* A product of a positive number is at least its factor.
LEMMA Stretch ==
  ASSUME NEW x \in Nat, x >= 1, NEW D \in Nat
  PROVE  x * D \in Nat /\ x * D >= D
<1>1. x - 1 \in Nat /\ x * D = (x - 1) * D + D
  OBVIOUS
<1>2. (x - 1) * D \in Nat
  BY <1>1
<1>3. QED
  BY <1>1, <1>2

\* Quotient and remainder are the only numbers that make up the dividend.
LEMMA Divided ==
  ASSUME NEW n \in Nat, NEW D \in Nat \ {0}
  PROVE  /\ n \div D \in Nat /\ n % D \in 0..(D - 1)
         /\ n = (n \div D) * D + (n % D)
OBVIOUS

LEMMA DividedOnce ==
  ASSUME NEW a \in Nat, NEW c \in Nat, NEW D \in Nat \ {0},
         NEW b \in 0..(D - 1), NEW d \in 0..(D - 1), a * D + b = c * D + d
  PROVE  a = c /\ b = d
<1>1. ASSUME NEW x \in Nat, NEW y \in Nat, NEW e \in 0..(D - 1), NEW f \in 0..(D - 1),
             x * D + e = y * D + f, x > y
      PROVE  FALSE
  <2>1. x - y \in Nat /\ x - y >= 1 /\ x * D = y * D + (x - y) * D
    BY <1>1
  <2>2. (x - y) * D \in Nat /\ (x - y) * D >= D
    BY <2>1, Stretch
  <2>3. y * D \in Nat
    OBVIOUS
  <2>4. QED
    BY <1>1, <2>1, <2>2, <2>3
<1>2. ~(a > c) /\ ~(c > a)
  BY <1>1
<1>3. a = c
  BY <1>2
<1>4. QED
  BY <1>3

LEMMA Quotient ==
  ASSUME NEW a \in Nat, NEW D \in Nat \ {0}, NEW b \in 0..(D - 1)
  PROVE  (a * D + b) \div D = a /\ (a * D + b) % D = b
<1> DEFINE n == a * D + b
<1>1. n \in Nat
  OBVIOUS
<1>2. n \div D \in Nat /\ n % D \in 0..(D - 1) /\ a * D + b = (n \div D) * D + (n % D)
  BY <1>1, Divided
<1> HIDE DEF n
<1>3. a = n \div D /\ b = n % D
  BY <1>2, DividedOnce
<1>4. QED
  BY <1>3 DEF n

\* A quotient of a quotient.
LEMMA DividedTwice ==
  ASSUME NEW n \in Nat, NEW D \in Nat \ {0}, NEW E \in Nat \ {0}
  PROVE  n \div (E * D) = (n \div D) \div E
<1> DEFINE q == n \div D
           r == n % D
           s == q \div E
           t == q % E
<1>1. q \in Nat /\ r \in 0..(D - 1) /\ n = q * D + r
  BY Divided
<1>2. s \in Nat /\ t \in 0..(E - 1) /\ q = s * E + t
  BY <1>1, Divided
<1> HIDE DEF q, r, s, t
<1>3. n = s * (E * D) + (t * D + r)
  BY <1>1, <1>2
<1>4. E * D \in Nat \ {0} /\ t * D + r \in 0..(E * D - 1)
  <2>1. t * D \in Nat /\ E - 1 - t \in Nat
    BY <1>2
  <2>2. (E - 1 - t) * D \in Nat
    BY <2>1
  <2>3. E * D = t * D + (E - 1 - t) * D + D
    BY <1>2
  <2>4. QED
    BY <1>1, <2>1, <2>2, <2>3
<1>5. n \div (E * D) = s
  <2> DEFINE F == E * D
             u == t * D + r
  <2>1. F \in Nat \ {0} /\ u \in 0..(F - 1) /\ n = s * F + u
    BY <1>3, <1>4
  <2> HIDE DEF F, u
  <2>2. n \div F = s
    BY <1>2, <2>1, Quotient
  <2>3. QED
    BY <2>2 DEF F
<1>6. QED
  BY <1>5 DEF q, s

-----------------------------------------------------------------------------
(***************************************************************************)
(* Powers of the radix                                                     *)
(***************************************************************************)

\* The recursive definition of Power defines it: its values up to any number
\* exist and are unique, and together they make the function.
LEMMA PowerIs ==
  /\ Power[0] = 1
  /\ \A k \in Nat : Power[k + 1] = Radix * Power[k]
<1> DEFINE F(k, before) == IF k = 0 THEN 1 ELSE Radix * before
           UpToN(g, N) == \A k \in 0..N : g[k] = F(k, g[k - 1])
           f == [n \in Nat |-> (CHOOSE g : UpToN(g, n))[n]]
<1> HIDE DEF F
<1>1. ASSUME NEW N \in Nat PROVE \E g : UpToN(g, N)
  <2> DEFINE S == {d \in Nat : \E g : UpToN(g, d)}
  <2>1. 0 \in S
    <3> DEFINE g == [k \in {0} |-> 1]
    <3>1. \A k \in 0..0 : g[k] = F(k, g[k - 1])
      BY DEF F
    <3> HIDE DEF g
    <3>2. UpToN(g, 0)
      BY <3>1
    <3>3. QED
      BY <3>2
  <2>2. ASSUME NEW d \in 0..(N - 1), d \in S PROVE d + 1 \in S
    <3>1. PICK g : UpToN(g, d)
      BY <2>2
    <3> DEFINE h == [k \in 0..(d + 1) |-> IF k = d + 1 THEN F(d + 1, g[d]) ELSE g[k]]
    <3>2. ASSUME NEW k \in 0..(d + 1) PROVE h[k] = F(k, h[k - 1])
      <4>1. CASE k = d + 1
        <5>1. k - 1 = d /\ d \in 0..(d + 1) /\ d # d + 1
          BY <4>1
        <5>2. QED
          BY <4>1, <5>1
      <4>2. CASE k # d + 1 /\ k # 0
        <5>1. k \in 0..d /\ k - 1 \in 0..(d + 1) /\ k - 1 # d + 1
          BY <4>2
        <5>2. h[k] = g[k] /\ h[k - 1] = g[k - 1]
          BY <4>2, <5>1
        <5>3. QED
          BY <3>1, <5>1, <5>2
      <4>3. CASE k # d + 1 /\ k = 0
        <5>1. h[k] = g[0] /\ 0 \in 0..d
          BY <4>3
        <5>2. QED
          BY <3>1, <4>3, <5>1 DEF F
      <4>4. QED
        BY <4>1, <4>2, <4>3
    <3> HIDE DEF h
    <3>3. UpToN(h, d + 1)
      BY <3>2
    <3>4. QED
      BY <3>3
  <2> HIDE DEF S
  <2>3. N \in S
    <3>1. \A n \in 0..N : n \in S
      BY <2>1, <2>2, UpTo
    <3>2. QED
      BY <3>1
  <2>4. QED
    BY <2>3 DEF S
<1>2. ASSUME NEW N \in Nat, NEW g, NEW h, UpToN(g, N), UpToN(h, N)
      PROVE  \A k \in 0..N : g[k] = h[k]
  <2> DEFINE S == {k \in Nat : g[k] = h[k]}
  <2>1. 0 \in S
    BY <1>2 DEF F
  <2>2. ASSUME NEW n \in 0..(N - 1), n \in S PROVE n + 1 \in S
    <3>1. n + 1 \in 0..N /\ (n + 1) - 1 = n
      OBVIOUS
    <3>2. g[n + 1] = F(n + 1, g[n]) /\ h[n + 1] = F(n + 1, h[n])
      BY <1>2, <3>1
    <3>3. QED
      BY <2>2, <3>2
  <2>3. \A n \in 0..N : n \in S
    <3> HIDE DEF S
    <3>1. QED
      BY <2>1, <2>2, UpTo
  <2>4. QED
    BY <2>3
<1>3. ASSUME NEW n \in Nat PROVE f[n] = F(n, f[n - 1])
  <2> DEFINE g == CHOOSE g : UpToN(g, n)
  <2>1. UpToN(g, n) /\ f[n] = g[n]
    BY <1>1
  <2>2. CASE n = 0
    BY <2>1, <2>2 DEF F
  <2>3. CASE n # 0
    <3> DEFINE h == CHOOSE h : UpToN(h, n - 1)
    <3>1. n - 1 \in Nat /\ n \in 0..n
      BY <2>3
    <3>2. UpToN(h, n - 1) /\ f[n - 1] = h[n - 1]
      BY <1>1, <3>1
    <3>3. UpToN(g, n - 1)
      <4>1. \A k \in 0..(n - 1) : k \in 0..n
        BY <3>1
      <4>2. QED
        BY <2>1, <4>1
    <3> HIDE DEF g, h, f
    <3>4. \A k \in 0..(n - 1) : g[k] = h[k]
      BY <1>2, <3>1, <3>2, <3>3
    <3>5. g[n - 1] = f[n - 1]
      BY <3>1, <3>2, <3>4
    <3>6. g[n] = F(n, g[n - 1])
      BY <2>1, <3>1
    <3>7. QED
      BY <2>1, <3>5, <3>6
  <2>4. QED
    BY <2>2, <2>3
<1>4. f = [k \in Nat |-> F(k, f[k - 1])]
  <2>1. f = [k \in Nat |-> f[k]]
    OBVIOUS
  <2> HIDE DEF f
  <2>2. QED
    BY <1>3, <2>1
<1> HIDE DEF f
<1>5. Power = [k \in Nat |-> F(k, Power[k - 1])]
  BY <1>4 DEF Power, F
<1>6. \A k \in Nat : Power[k] = F(k, Power[k - 1])
  BY <1>5
<1>7. Power[0] = 1
  BY <1>6 DEF F
<1>8. ASSUME NEW k \in Nat PROVE Power[k + 1] = Radix * Power[k]
  <2>1. k + 1 \in Nat /\ k + 1 # 0 /\ (k + 1) - 1 = k
    OBVIOUS
  <2>2. QED
    BY <1>6, <2>1 DEF F
<1>9. QED
  BY <1>7, <1>8

LEMMA PowerType ==
  ASSUME NEW N \in Nat
  PROVE  Power[N] \in Nat \ {0}
<1> DEFINE S == {k \in Nat : Power[k] \in Nat \ {0}}
<1>1. 0 \in S
  BY PowerIs
<1>2. ASSUME NEW n \in 0..(N - 1), n \in S PROVE n + 1 \in S
  <2>1. Power[n + 1] = Radix * Power[n] /\ Power[n] \in Nat \ {0} /\ Radix \in Nat \ {0}
    BY <1>2, PowerIs, FieldReadersAssumption DEF FieldReadersAssumption
  <2>2. QED
    BY <2>1
<1> HIDE DEF S
<1>3. \A n \in 0..N : n \in S
  BY <1>1, <1>2, UpTo
<1>4. QED
  BY <1>3 DEF S

-----------------------------------------------------------------------------
(***************************************************************************)
(* Numbers and their bytes                                                 *)
(***************************************************************************)

Byte == 0..(Radix - 1)

\* The partial sums of FromBytes.
Sums(order, bytes) ==
  CHOOSE f : f = [i \in 0..Len(bytes) |->
                    IF i = 0 THEN 0 ELSE f[i - 1] + bytes[i] * Weight(order, Len(bytes), i)]

LEMMA SumsAre ==
  ASSUME NEW order, NEW bytes, Len(bytes) \in Nat
  PROVE  /\ FromBytes(order, bytes) = Sums(order, bytes)[Len(bytes)]
         /\ Sums(order, bytes)[0] = 0
         /\ \A i \in 1..Len(bytes) :
              Sums(order, bytes)[i] =
                Sums(order, bytes)[i - 1] + bytes[i] * Weight(order, Len(bytes), i)
<1> DEFINE w == Len(bytes)
           F(i, before) == IF i = 0 THEN 0 ELSE before + bytes[i] * Weight(order, w, i)
           S == {d \in Nat : \E g : \A i \in 0..d : g[i] = F(i, g[i - 1])}
<1> HIDE DEF F
<1>1. 0 \in S
  <2> DEFINE g == [i \in {0} |-> 0]
  <2>1. \A i \in 0..0 : g[i] = F(i, g[i - 1])
    BY DEF F
  <2> HIDE DEF g
  <2>2. QED
    BY <2>1
<1>2. ASSUME NEW d \in 0..(w - 1), d \in S PROVE d + 1 \in S
  <2>1. PICK g : \A i \in 0..d : g[i] = F(i, g[i - 1])
    BY <1>2
  <2> DEFINE h == [i \in 0..(d + 1) |-> IF i = d + 1 THEN F(d + 1, g[d]) ELSE g[i]]
  <2>2. ASSUME NEW i \in 0..(d + 1) PROVE h[i] = F(i, h[i - 1])
    <3>1. CASE i = d + 1
      <4>1. i - 1 = d /\ d \in 0..(d + 1) /\ d # d + 1
        BY <3>1
      <4>2. QED
        BY <3>1, <4>1
    <3>2. CASE i # d + 1 /\ i # 0
      <4>1. i \in 0..d /\ i - 1 \in 0..(d + 1) /\ i - 1 # d + 1
        BY <3>2
      <4>2. h[i] = g[i] /\ h[i - 1] = g[i - 1]
        BY <3>2, <4>1
      <4>3. QED
        BY <2>1, <4>1, <4>2
    <3>3. CASE i # d + 1 /\ i = 0
      <4>1. h[i] = g[0] /\ 0 \in 0..d
        BY <3>3
      <4>2. QED
        BY <2>1, <3>3, <4>1 DEF F
    <3>4. QED
      BY <3>1, <3>2, <3>3
  <2> HIDE DEF h
  <2>3. QED
    BY <2>2
<1> HIDE DEF S
<1>3. w \in S
  <2>1. \A n \in 0..w : n \in S
    BY <1>1, <1>2, UpTo
  <2>2. QED
    BY <2>1
<1>4. PICK g : \A i \in 0..w : g[i] = F(i, g[i - 1])
  BY <1>3 DEF S
<1> DEFINE f == [i \in 0..w |-> g[i]]
<1>5. f = [i \in 0..w |-> F(i, f[i - 1])]
  <2>1. ASSUME NEW i \in 0..w PROVE f[i] = F(i, f[i - 1])
    <3>1. CASE i = 0
      BY <1>4, <3>1 DEF F
    <3>2. CASE i # 0
      <4>1. i - 1 \in 0..w
        BY <3>2
      <4>2. QED
        BY <1>4, <4>1
    <3>3. QED
      BY <3>1, <3>2
  <2>2. f = [i \in 0..w |-> f[i]]
    OBVIOUS
  <2> HIDE DEF f
  <2>3. QED
    BY <2>1, <2>2
<1> HIDE DEF f
<1>6. Sums(order, bytes) = [i \in 0..w |-> F(i, Sums(order, bytes)[i - 1])]
  BY <1>5 DEF Sums, F
<1>7. \A i \in 0..w : Sums(order, bytes)[i] = F(i, Sums(order, bytes)[i - 1])
  BY <1>6
<1>8. FromBytes(order, bytes) = Sums(order, bytes)[w]
  BY DEF FromBytes, Sums
<1>9. Sums(order, bytes)[0] = 0
  BY <1>7 DEF F
<1>10. ASSUME NEW i \in 1..w
       PROVE  Sums(order, bytes)[i] = Sums(order, bytes)[i - 1] + bytes[i] * Weight(order, w, i)
  BY <1>7 DEF F
<1>11. QED
  BY <1>8, <1>9, <1>10

\* The bytes of a number.
LEMMA ByteOf ==
  ASSUME NEW n \in Nat, NEW w \in Nat, NEW order \in Order
  PROVE  /\ Len(ToBytes(order, n, w)) = w
         /\ ToBytes(order, n, w) \in [1..w -> Byte]
         /\ \A i \in 1..w : /\ Weight(order, w, i) \in Nat \ {0}
                            /\ n \div Weight(order, w, i) \in Nat
                            /\ ToBytes(order, n, w)[i] = (n \div Weight(order, w, i)) % Radix
<1>1. ASSUME NEW i \in 1..w PROVE Weight(order, w, i) \in Nat \ {0}
  <2>1. w - i \in Nat /\ i - 1 \in Nat
    OBVIOUS
  <2>2. QED
    BY <2>1, PowerType DEF Weight
<1>2. ASSUME NEW i \in 1..w
      PROVE  /\ n \div Weight(order, w, i) \in Nat
             /\ (n \div Weight(order, w, i)) % Radix \in Byte
  <2>1. n \div Weight(order, w, i) \in Nat
    BY <1>1, Divided
  <2>2. QED
    BY <2>1, Divided, FieldReadersAssumption DEF FieldReadersAssumption, Byte
<1> DEFINE b == [i \in 1..w |-> (n \div Weight(order, w, i)) % Radix]
<1>3. b \in [1..w -> Byte]
  BY <1>2
<1>4. Len(b) = w
  <2>1. b \in Seq(Byte) /\ DOMAIN b = 1..w
    BY <1>3
  <2> HIDE DEF b
  <2>2. QED
    BY <2>1
<1>5. b = ToBytes(order, n, w)
  BY DEF ToBytes
<1>6. \A i \in 1..w : b[i] = (n \div Weight(order, w, i)) % Radix
  OBVIOUS
<1> HIDE DEF b
<1>7. QED
  BY <1>1, <1>2, <1>3, <1>4, <1>5, <1>6

\* One digit off a quotient.
LEMMA NextQuotient ==
  ASSUME NEW n \in Nat, NEW k \in Nat
  PROVE  LET q == n \div Power[k] IN
           /\ q \in Nat /\ q \div Radix \in Nat /\ q % Radix \in Byte
           /\ n \div Power[k + 1] = q \div Radix
           /\ q = (q \div Radix) * Radix + (q % Radix)
<1> DEFINE q == n \div Power[k]
<1>1. /\ Radix \in Nat \ {0} /\ Power[k] \in Nat \ {0} /\ Power[k + 1] = Radix * Power[k]
  BY PowerIs, PowerType, FieldReadersAssumption DEF FieldReadersAssumption
<1>2. q \in Nat
  BY <1>1, Divided
<1>3. n \div Power[k + 1] = q \div Radix
  BY <1>1, DividedTwice
<1> HIDE DEF q
<1>4. q \div Radix \in Nat /\ q % Radix \in Byte /\ q = (q \div Radix) * Radix + (q % Radix)
  BY <1>1, <1>2, Divided DEF Byte
<1>5. QED
  BY <1>2, <1>3, <1>4 DEF q

\* The quotient by the number of sequences of as many bytes is 0, and by 1 the
\* number itself.
LEMMA LastQuotient ==
  ASSUME NEW w \in Nat, NEW n \in 0..(Power[w] - 1)
  PROVE  n \div Power[w] = 0 /\ n \div Power[0] = n /\ n \in Nat
<1>1. Power[w] \in Nat \ {0} /\ Power[0] = 1
  BY PowerIs, PowerType
<1>2. n \in Nat /\ 0 * Power[w] + n = n
  BY <1>1
<1>3. n \div Power[w] = 0
  <2> DEFINE D == Power[w]
  <2>1. D \in Nat \ {0} /\ n \in 0..(D - 1) /\ 0 * D + n = n
    BY <1>1, <1>2
  <2> HIDE DEF D
  <2>2. (0 * D + n) \div D = 0
    BY <2>1, Quotient
  <2>3. QED
    BY <2>1, <2>2 DEF D
<1>4. n \div 1 = n
  BY <1>2
<1>5. QED
  BY <1>1, <1>2, <1>3, <1>4

\* A number written as bytes is read back: the sum of the first bytes is the
\* number without its lower digits (big endian) or its higher ones (little).
LEMMA ReadBack ==
  ASSUME NEW order \in Order, NEW w \in Nat, NEW n \in 0..(Power[w] - 1)
  PROVE  FromBytes(order, ToBytes(order, n, w)) = n
<1> DEFINE b == ToBytes(order, n, w)
           sum == Sums(order, b)
<1>1. n \in Nat /\ n \div Power[w] = 0 /\ n \div Power[0] = n
  BY LastQuotient
<1>2. /\ Len(b) = w
      /\ \A i \in 1..w : b[i] = (n \div Weight(order, w, i)) % Radix
  BY <1>1, ByteOf
<1> HIDE DEF b
<1>3. /\ FromBytes(order, b) = sum[w] /\ sum[0] = 0
      /\ \A i \in 1..w : sum[i] = sum[i - 1] + b[i] * Weight(order, w, i)
  BY <1>2, SumsAre
<1> HIDE DEF sum
<1>4. Radix \in Nat \ {0}
  BY FieldReadersAssumption DEF FieldReadersAssumption
<1>5. CASE order = "be"
  <2> DEFINE S == {i \in Nat : sum[i] = (n \div Power[w - i]) * Power[w - i]}
  <2>1. 0 \in S
    BY <1>1, <1>3, PowerType
  <2>2. ASSUME NEW i \in 0..(w - 1), i \in S PROVE i + 1 \in S
    <3> DEFINE k == w - (i + 1)
               q == n \div Power[k]
               D == Power[k]
    <3>1. k \in Nat /\ k + 1 = w - i /\ i + 1 \in 1..w /\ (i + 1) - 1 = i
      BY <2>2
    <3>2. Weight(order, w, i + 1) = D /\ b[i + 1] = q % Radix
      BY <1>2, <1>5, <3>1 DEF Weight
    <3>3. /\ q \in Nat /\ q \div Radix \in Nat /\ q % Radix \in Byte
          /\ n \div Power[k + 1] = q \div Radix
          /\ q = (q \div Radix) * Radix + (q % Radix)
      BY <1>1, <3>1, NextQuotient
    <3>4. D \in Nat /\ Power[k + 1] = Radix * D
      BY <3>1, PowerIs, PowerType
    <3>5. sum[i] = (q \div Radix) * (Radix * D)
      BY <2>2, <3>1, <3>3, <3>4
    <3>6. sum[i + 1] = sum[i] + (q % Radix) * D
      BY <1>3, <3>1, <3>2
    <3>7. q % Radix \in Nat
      BY <1>4, <3>3 DEF Byte
    <3> HIDE DEF q, D
    <3>8. sum[i + 1] = q * D
      <4> DEFINE h == q \div Radix
                 l == q % Radix
      <4>1. h \in Nat /\ l \in Nat /\ q = h * Radix + l
            /\ sum[i + 1] = h * (Radix * D) + l * D
        BY <3>3, <3>5, <3>6, <3>7
      <4> HIDE DEF h, l
      <4>2. QED
        BY <1>4, <3>4, <4>1
    <3>9. QED
      BY <3>1, <3>8 DEF q, D
  <2>3. w \in S
    <3> HIDE DEF S
    <3>1. \A i \in 0..w : i \in S
      BY <2>1, <2>2, UpTo
    <3>2. QED
      BY <3>1
  <2>4. sum[w] = (n \div Power[0]) * Power[0]
    BY <2>3
  <2>5. QED
    BY <1>1, <1>3, <2>4, PowerIs DEF b
<1>6. CASE order = "le"
  <2> DEFINE S == {i \in Nat : sum[i] = n - (n \div Power[i]) * Power[i]}
  <2>1. 0 \in S
    BY <1>1, <1>3, PowerIs
  <2>2. ASSUME NEW i \in 0..(w - 1), i \in S PROVE i + 1 \in S
    <3> DEFINE q == n \div Power[i]
               D == Power[i]
    <3>1. i \in Nat /\ i + 1 \in 1..w /\ (i + 1) - 1 = i
      BY <2>2
    <3>2. Weight(order, w, i + 1) = D /\ b[i + 1] = q % Radix
      BY <1>2, <1>6, <3>1 DEF Weight
    <3>3. /\ q \in Nat /\ q \div Radix \in Nat /\ q % Radix \in Byte
          /\ n \div Power[i + 1] = q \div Radix
          /\ q = (q \div Radix) * Radix + (q % Radix)
      BY <1>1, <3>1, NextQuotient
    <3>4. D \in Nat /\ Power[i + 1] = Radix * D
      BY <3>1, PowerIs, PowerType
    <3>5. sum[i] = n - q * D
      BY <2>2
    <3>6. sum[i + 1] = sum[i] + (q % Radix) * D
      BY <1>3, <3>1, <3>2
    <3>7. q % Radix \in Nat
      BY <1>4, <3>3 DEF Byte
    <3> HIDE DEF q, D
    <3>8. sum[i + 1] = n - (q \div Radix) * (Radix * D)
      <4> DEFINE h == q \div Radix
                 l == q % Radix
      <4>1. h \in Nat /\ l \in Nat /\ q = h * Radix + l
            /\ sum[i + 1] = (n - q * D) + l * D
        BY <3>3, <3>5, <3>6, <3>7
      <4> HIDE DEF h, l
      <4>2. sum[i + 1] = n - h * (Radix * D)
        BY <1>1, <1>4, <3>4, <4>1
      <4>3. QED
        BY <4>2 DEF h
    <3>9. QED
      BY <3>1, <3>3, <3>4, <3>8
  <2>3. w \in S
    <3> HIDE DEF S
    <3>1. \A i \in 0..w : i \in S
      BY <2>1, <2>2, UpTo
    <3>2. QED
      BY <3>1
  <2>4. sum[w] = n - (n \div Power[w]) * Power[w]
    BY <2>3
  <2>5. QED
    BY <1>1, <1>3, <2>4, PowerType DEF b
<1>7. QED
  BY <1>5, <1>6 DEF Order

\* One more digit, the lowest or the highest one.
LEMMA NextDigit ==
  ASSUME NEW D \in Nat \ {0}, NEW d \in Byte, NEW a \in Nat
  PROVE  /\ a * (Radix * D) + d * D = (a * Radix + d) * D
         /\ a * Radix + d \in Nat /\ d * D \in Nat
         /\ (a * Radix + d) % Radix = d
         /\ d * D <= Radix * D - D
<1>1. Radix \in Nat \ {0} /\ d \in 0..(Radix - 1) /\ d \in Nat
  BY FieldReadersAssumption DEF FieldReadersAssumption, Byte
<1>2. a * (Radix * D) + d * D = (a * Radix + d) * D /\ a * Radix \in Nat /\ d * D \in Nat
  BY <1>1
<1>3. (a * Radix + d) % Radix = d
  BY <1>1, Quotient
<1>4. d * D <= Radix * D - D
  <2>1. Radix - d \in Nat /\ Radix - d >= 1 /\ Radix * D = d * D + (Radix - d) * D
    BY <1>1
  <2>2. (Radix - d) * D \in Nat /\ (Radix - d) * D >= D
    BY <2>1, Stretch
  <2>3. QED
    BY <1>2, <2>1, <2>2
<1>5. QED
  BY <1>1, <1>2, <1>3, <1>4

\* Where a number is a multiple of a power and a rest below it, the digit
\* there is that of the multiple.
LEMMA DigitAt ==
  ASSUME NEW a \in Nat, NEW d \in Byte, NEW k \in Nat, NEW r \in 0..(Power[k] - 1)
  PROVE  (((a * Radix + d) * Power[k] + r) \div Power[k]) % Radix = d
<1> DEFINE D == Power[k]
           m == a * Radix + d
<1>1. D \in Nat \ {0}
  BY PowerType
<1>2. m \in Nat /\ m % Radix = d
  BY <1>1, NextDigit
<1>3. r \in 0..(D - 1)
  OBVIOUS
<1> HIDE DEF D, m
<1>4. (m * D + r) \div D = m
  BY <1>1, <1>2, <1>3, Quotient
<1>5. QED
  BY <1>2, <1>4 DEF D, m

\* Big endian: what comes before a byte is a multiple of the power above it,
\* and what comes after it is less than the power at it.
LEMMA BigEndian ==
  ASSUME NEW w \in Nat, NEW bytes \in [1..w -> Byte], Len(bytes) = w
  PROVE  \A i \in 0..w :
           /\ \E a \in Nat : Sums("be", bytes)[i] = a * Power[w - i]
           /\ \E r \in 0..(Power[w - i] - 1) :
                FromBytes("be", bytes) = Sums("be", bytes)[i] + r
<1> DEFINE sum == Sums("be", bytes)
           n == FromBytes("be", bytes)
<1>1. /\ n = sum[w] /\ sum[0] = 0
      /\ \A i \in 1..w : sum[i] = sum[i - 1] + bytes[i] * Power[w - i]
  BY SumsAre DEF Weight
<1> HIDE DEF sum, n
<1> DEFINE S == {i \in Nat : \E a \in Nat : sum[i] = a * Power[w - i]}
           T == {k \in Nat : \E r \in 0..(Power[k] - 1) : n = sum[w - k] + r}
<1>2. 0 \in S
  <2>1. sum[0] = 0 * Power[w - 0] /\ 0 \in Nat
    BY <1>1, PowerType
  <2>2. QED
    BY <2>1
<1>3. ASSUME NEW i \in 0..(w - 1), i \in S PROVE i + 1 \in S
  <2>1. PICK a \in Nat : sum[i] = a * Power[w - i]
    BY <1>3
  <2> DEFINE k == w - (i + 1)
             d == bytes[i + 1]
             D == Power[k]
  <2>2. k \in Nat /\ w - i = k + 1 /\ i + 1 \in 1..w /\ (i + 1) - 1 = i
    BY <1>3
  <2>3. D \in Nat \ {0} /\ Power[w - i] = Radix * D /\ d \in Byte
    BY <2>2, PowerIs, PowerType
  <2>4. sum[i + 1] = a * (Radix * D) + d * D
    BY <1>1, <2>1, <2>2, <2>3
  <2> HIDE DEF D, d
  <2>5. sum[i + 1] = (a * Radix + d) * D /\ a * Radix + d \in Nat
    BY <2>3, <2>4, NextDigit
  <2>6. QED
    BY <2>2, <2>5 DEF D
<1>4. 0 \in T
  <2>1. 0 \in 0..(Power[0] - 1)
    BY PowerIs
  <2>2. sum[w] \in Nat
    <3>1. \A i \in 0..w : i \in S
      <4> HIDE DEF S
      <4>1. QED
        BY <1>2, <1>3, UpTo
    <3>2. w \in 0..w /\ w - w = 0
      OBVIOUS
    <3>3. PICK a \in Nat : sum[w] = a * Power[0]
      BY <3>1, <3>2
    <3>4. QED
      BY <3>3, PowerIs
  <2>3. n = sum[w - 0] + 0
    BY <1>1, <2>2
  <2>4. QED
    BY <2>1, <2>3
<1>5. \A i \in 0..w : i \in S
  <2> HIDE DEF S
  <2>1. QED
    BY <1>2, <1>3, UpTo
<1>6. ASSUME NEW k \in 0..(w - 1), k \in T PROVE k + 1 \in T
  <2>1. PICK r \in 0..(Power[k] - 1) : n = sum[w - k] + r
    BY <1>6
  <2> DEFINE i == w - k
             d == bytes[i]
             D == Power[k]
  <2>2. k \in Nat /\ i \in 1..w /\ w - i = k /\ i - 1 = w - (k + 1) /\ i - 1 \in 0..w
    BY <1>6
  <2>3. D \in Nat \ {0} /\ Power[k + 1] = Radix * D /\ d \in Byte /\ r \in 0..(D - 1)
    BY <2>1, <2>2, PowerIs, PowerType
  <2>4. PICK a \in Nat : sum[i - 1] = a * Power[w - (i - 1)]
    BY <1>5, <2>2
  <2>5. sum[i - 1] \in Nat
    <3>1. Power[w - (i - 1)] \in Nat
      BY <2>2, PowerType
    <3>2. QED
      BY <2>4, <3>1
  <2>6. n = (sum[i - 1] + d * D) + r
    BY <1>1, <2>1, <2>2
  <2> HIDE DEF D, d
  <2>7. d * D \in Nat /\ d * D <= Radix * D - D
    BY <2>3, NextDigit
  <2>8. d * D + r \in 0..(Radix * D - 1) /\ n = sum[i - 1] + (d * D + r)
    <3>1. Radix * D \in Nat
      BY <2>3, PowerType
    <3>2. QED
      BY <2>3, <2>5, <2>6, <2>7, <3>1
  <2>9. QED
    BY <2>2, <2>3, <2>8
<1>7. \A k \in 0..w : k \in T
  <2> HIDE DEF T
  <2>1. QED
    BY <1>4, <1>6, UpTo
<1>8. ASSUME NEW i \in 0..w
      PROVE  /\ \E a \in Nat : sum[i] = a * Power[w - i]
             /\ \E r \in 0..(Power[w - i] - 1) : n = sum[i] + r
  <2>1. w - i \in 0..w /\ w - (w - i) = i
    OBVIOUS
  <2>2. i \in S /\ w - i \in T
    BY <1>5, <1>7, <2>1
  <2>3. QED
    BY <2>1, <2>2
<1>9. QED
  BY <1>8 DEF sum, n

\* Little endian: what comes before a byte is less than the power at it, and
\* what comes after it is a multiple of the power above.
LEMMA LittleEndian ==
  ASSUME NEW w \in Nat, NEW bytes \in [1..w -> Byte], Len(bytes) = w
  PROVE  \A i \in 0..w :
           /\ Sums("le", bytes)[i] \in 0..(Power[i] - 1)
           /\ \E a \in Nat : FromBytes("le", bytes) = Sums("le", bytes)[i] + a * Power[i]
<1> DEFINE sum == Sums("le", bytes)
           n == FromBytes("le", bytes)
<1>1. /\ n = sum[w] /\ sum[0] = 0
      /\ \A i \in 1..w : sum[i] = sum[i - 1] + bytes[i] * Power[i - 1]
  BY SumsAre DEF Weight
<1> HIDE DEF sum, n
<1> DEFINE S == {i \in Nat : sum[i] \in 0..(Power[i] - 1)}
           T == {k \in Nat : \E a \in Nat : n = sum[w - k] + a * Power[w - k]}
<1>2. 0 \in S
  BY <1>1, PowerIs
<1>3. ASSUME NEW i \in 0..(w - 1), i \in S PROVE i + 1 \in S
  <2> DEFINE d == bytes[i + 1]
             D == Power[i]
  <2>1. i \in Nat /\ i + 1 \in 1..w /\ (i + 1) - 1 = i
    BY <1>3
  <2>2. D \in Nat \ {0} /\ Power[i + 1] = Radix * D /\ d \in Byte /\ sum[i] \in 0..(D - 1)
    BY <1>3, <2>1, PowerIs, PowerType
  <2>3. sum[i + 1] = sum[i] + d * D /\ Power[i + 1] \in Nat
    BY <1>1, <2>1, PowerType
  <2> HIDE DEF D, d
  <2>4. d * D \in Nat /\ d * D <= Radix * D - D
    BY <2>2, NextDigit
  <2>5. sum[i + 1] \in 0..(Power[i + 1] - 1)
    BY <2>2, <2>3, <2>4
  <2>6. QED
    BY <2>1, <2>5
<1>4. \A i \in 0..w : i \in S
  <2> HIDE DEF S
  <2>1. QED
    BY <1>2, <1>3, UpTo
<1>5. 0 \in T
  <2>1. w \in 0..w /\ w - 0 = w
    OBVIOUS
  <2>2. sum[w] \in Nat /\ Power[w] \in Nat
    BY <1>4, <2>1, PowerType
  <2>3. n = sum[w] + 0 * Power[w]
    BY <1>1, <2>2
  <2>4. QED
    BY <2>1, <2>3
<1>6. ASSUME NEW k \in 0..(w - 1), k \in T PROVE k + 1 \in T
  <2> DEFINE i == w - (k + 1)
             d == bytes[i + 1]
             D == Power[i]
  <2>1. /\ k + 1 \in Nat /\ i \in Nat /\ i + 1 \in 1..w /\ (i + 1) - 1 = i /\ w - k = i + 1
        /\ i \in 0..w
    BY <1>6
  <2>2. PICK a \in Nat : n = sum[i + 1] + a * Power[i + 1]
    BY <1>6, <2>1
  <2>3. D \in Nat \ {0} /\ Power[i + 1] = Radix * D /\ d \in Byte /\ sum[i] \in Nat
    BY SMTT(40), <1>4, <2>1, PowerIs, PowerType
  <2>4. sum[i + 1] = sum[i] + d * D
    BY <1>1, <2>1
  <2> HIDE DEF D, d
  <2>5. a * (Radix * D) + d * D = (a * Radix + d) * D /\ a * Radix + d \in Nat /\ d * D \in Nat
    BY <2>3, NextDigit
  <2>6. a * (Radix * D) \in Nat
    <3>1. Radix * D \in Nat
      BY <2>1, <2>3, PowerType
    <3>2. QED
      BY <3>1
  <2>7. n = sum[i] + (a * Radix + d) * D
    BY <2>2, <2>3, <2>4, <2>5, <2>6
  <2>8. QED
    BY <2>1, <2>5, <2>7 DEF D
<1>7. \A k \in 0..w : k \in T
  <2> HIDE DEF T
  <2>1. QED
    BY <1>5, <1>6, UpTo
<1>8. ASSUME NEW i \in 0..w
      PROVE  /\ sum[i] \in 0..(Power[i] - 1)
             /\ \E a \in Nat : n = sum[i] + a * Power[i]
  <2>1. w - i \in 0..w /\ w - (w - i) = i
    OBVIOUS
  <2>2. i \in S /\ w - i \in T
    BY <1>4, <1>7, <2>1
  <2>3. QED
    BY <2>1, <2>2
<1>9. QED
  BY <1>8 DEF sum, n

\* Bytes read as a number are the bytes it is written as.
LEMMA WrittenBack ==
  ASSUME NEW order \in Order, NEW w \in Nat, NEW bytes \in [1..w -> Byte], Len(bytes) = w
  PROVE  /\ FromBytes(order, bytes) \in Nat
         /\ ToBytes(order, FromBytes(order, bytes), w) = bytes
<1> DEFINE n == FromBytes(order, bytes)
<1>1. CASE order = "be"
  <2> DEFINE sum == Sums("be", bytes)
  <2>1. n = sum[w] /\ \A i \in 1..w : sum[i] = sum[i - 1] + bytes[i] * Power[w - i]
    BY <1>1, SumsAre DEF Weight
  <2>2. \A i \in 0..w : /\ \E a \in Nat : sum[i] = a * Power[w - i]
                        /\ \E r \in 0..(Power[w - i] - 1) : n = sum[i] + r
    BY <1>1, BigEndian
  <2> HIDE DEF n, sum
  <2>3. n \in Nat
    <3>1. w \in 0..w /\ w - w = 0
      OBVIOUS
    <3>2. PICK a \in Nat : sum[w] = a * Power[0]
      BY <2>2, <3>1
    <3>3. QED
      BY <2>1, <3>2, PowerIs
  <2>4. ASSUME NEW i \in 1..w PROVE (n \div Power[w - i]) % Radix = bytes[i]
    <3> DEFINE k == w - i
               d == bytes[i]
    <3>1. k \in Nat /\ i - 1 \in 0..w /\ w - (i - 1) = k + 1 /\ d \in Byte /\ i \in 0..w
      OBVIOUS
    <3>2. PICK a \in Nat : sum[i - 1] = a * Power[k + 1]
      BY <2>2, <3>1
    <3>3. PICK r \in 0..(Power[k] - 1) : n = sum[i] + r
      BY <2>2, <3>1
    <3>4. Power[k] \in Nat \ {0} /\ Power[k + 1] = Radix * Power[k]
      BY <3>1, PowerIs, PowerType
    <3>5. sum[i] = a * (Radix * Power[k]) + d * Power[k]
      BY <2>1, <3>2, <3>4
    <3> HIDE DEF k, d
    <3>6. sum[i] = (a * Radix + d) * Power[k]
      BY <3>1, <3>4, <3>5, NextDigit
    <3>7. n = (a * Radix + d) * Power[k] + r
      BY <3>3, <3>6
    <3>8. (n \div Power[k]) % Radix = d
      BY <3>1, <3>3, <3>7, DigitAt
    <3>9. QED
      BY <3>8 DEF k, d
  <2>5. \A i \in 1..w : (n \div Weight(order, w, i)) % Radix = bytes[i]
    BY <1>1, <2>4 DEF Weight
  <2>6. ToBytes(order, n, w) = bytes
    BY <2>5 DEF ToBytes
  <2>7. QED
    BY <2>3, <2>6 DEF n
<1>2. CASE order = "le"
  <2> DEFINE sum == Sums("le", bytes)
  <2>1. n = sum[w] /\ \A i \in 1..w : sum[i] = sum[i - 1] + bytes[i] * Power[i - 1]
    BY <1>2, SumsAre DEF Weight
  <2>2. \A i \in 0..w : /\ sum[i] \in 0..(Power[i] - 1)
                        /\ \E a \in Nat : n = sum[i] + a * Power[i]
    BY <1>2, LittleEndian
  <2> HIDE DEF n, sum
  <2>3. n \in Nat
    BY <2>1, <2>2, PowerType
  <2>4. ASSUME NEW i \in 1..w PROVE (n \div Power[i - 1]) % Radix = bytes[i]
    <3> DEFINE k == i - 1
               d == bytes[i]
    <3>1. k \in Nat /\ k \in 0..w /\ i \in 0..w /\ i = k + 1 /\ d \in Byte
      OBVIOUS
    <3>2. PICK a \in Nat : n = sum[i] + a * Power[i]
      BY <2>2, <3>1
    <3>3. sum[k] \in 0..(Power[k] - 1)
      BY <2>2, <3>1
    <3>4. Power[k] \in Nat \ {0} /\ Power[i] = Radix * Power[k]
      BY <3>1, PowerIs, PowerType
    <3>5. sum[i] = sum[k] + d * Power[k]
      BY <2>1
    <3> HIDE DEF k, d
    <3>6. /\ a * (Radix * Power[k]) + d * Power[k] = (a * Radix + d) * Power[k]
          /\ d * Power[k] \in Nat /\ a * Radix + d \in Nat
      BY <3>1, <3>4, NextDigit
    <3>7. a * (Radix * Power[k]) \in Nat /\ (a * Radix + d) * Power[k] \in Nat /\ sum[k] \in Nat
      <4>1. Radix * Power[k] \in Nat
        BY <3>1, <3>4, PowerType
      <4>2. QED
        BY <3>3, <3>4, <3>6, <4>1
    <3>8. n = (a * Radix + d) * Power[k] + sum[k]
      BY <3>2, <3>4, <3>5, <3>6, <3>7
    <3>9. (n \div Power[k]) % Radix = d
      BY <3>1, <3>3, <3>8, DigitAt
    <3>10. QED
      BY <3>9 DEF k, d
  <2>5. \A i \in 1..w : (n \div Weight(order, w, i)) % Radix = bytes[i]
    BY <1>2, <2>4 DEF Weight
  <2>6. ToBytes(order, n, w) = bytes
    BY <2>5 DEF ToBytes
  <2>7. QED
    BY <2>3, <2>6 DEF n
<1>3. QED
  BY <1>1, <1>2 DEF Order

-----------------------------------------------------------------------------
(***************************************************************************)
(* The order of numbers and of their bytes                                 *)
(***************************************************************************)

\* A number that is not greater has no greater quotient.
LEMMA DividedInOrder ==
  ASSUME NEW n \in Nat, NEW m \in Nat, NEW D \in Nat \ {0}, n <= m
  PROVE  n \div D <= m \div D
<1> DEFINE a == n \div D
           c == m \div D
<1>1. /\ a \in Nat /\ n % D \in 0..(D - 1) /\ n = a * D + (n % D)
      /\ c \in Nat /\ m % D \in 0..(D - 1) /\ m = c * D + (m % D)
  BY Divided
<1> HIDE DEF a, c
<1>2. SUFFICES ASSUME a > c PROVE FALSE
  BY <1>1 DEF a, c
<1>3. a - c \in Nat /\ a - c >= 1 /\ a * D = c * D + (a - c) * D
  BY <1>1, <1>2
<1>4. (a - c) * D \in Nat /\ (a - c) * D >= D /\ c * D \in Nat
  BY <1>1, <1>3, Stretch
<1>5. QED
  BY <1>1, <1>3, <1>4

\* The big endian bytes of numbers order lexicographically as the numbers do.
LEMMA BytesInOrder ==
  ASSUME NEW w \in Nat, NEW n \in 0..(Power[w] - 1), NEW m \in 0..(Power[w] - 1)
  PROVE  n < m <=>
           \E k \in 1..w :
             /\ ToBytes("be", n, w)[k] < ToBytes("be", m, w)[k]
             /\ \A i \in 1..(k - 1) : ToBytes("be", n, w)[i] = ToBytes("be", m, w)[i]
<1> DEFINE q(i) == n \div Power[w - i]
           r(i) == m \div Power[w - i]
           a == ToBytes("be", n, w)
           b == ToBytes("be", m, w)
<1>1. n \in Nat /\ m \in Nat /\ q(0) = 0 /\ r(0) = 0 /\ q(w) = n /\ r(w) = m
  <2>1. w - 0 = w /\ w - w = 0
    OBVIOUS
  <2>2. QED
    BY <2>1, LastQuotient
<1>2. ASSUME NEW i \in 1..w
      PROVE  /\ a[i] = q(i) % Radix /\ b[i] = r(i) % Radix
             /\ a[i] \in Nat /\ b[i] \in Nat
             /\ q(i) = q(i - 1) * Radix + a[i] /\ r(i) = r(i - 1) * Radix + b[i]
  <2>1. w - i \in Nat /\ w - (i - 1) = (w - i) + 1
    OBVIOUS
  <2>2. "be" \in Order /\ Weight("be", w, i) = Power[w - i]
    BY DEF Order, Weight
  <2>3. ASSUME NEW x \in Nat
        PROVE  /\ ToBytes("be", x, w)[i] = (x \div Power[w - i]) % Radix
               /\ x \div Power[w - (i - 1)] = (x \div Power[w - i]) \div Radix
               /\ (x \div Power[w - i]) % Radix \in Byte
               /\ x \div Power[w - i] =
                    ((x \div Power[w - i]) \div Radix) * Radix + ((x \div Power[w - i]) % Radix)
    <3>1. ToBytes("be", x, w)[i] = (x \div Power[w - i]) % Radix
      BY <2>2 DEF ToBytes
    <3>2. LET y == x \div Power[w - i] IN
            /\ y % Radix \in Byte
            /\ x \div Power[(w - i) + 1] = y \div Radix
            /\ y = (y \div Radix) * Radix + (y % Radix)
      BY <2>1, NextQuotient
    <3>3. QED
      BY <2>1, <3>1, <3>2
  <2>4. /\ a[i] = q(i) % Radix /\ q(i - 1) = q(i) \div Radix /\ q(i) % Radix \in Byte
        /\ q(i) = (q(i) \div Radix) * Radix + (q(i) % Radix)
    BY <1>1, <2>3
  <2>5. /\ b[i] = r(i) % Radix /\ r(i - 1) = r(i) \div Radix /\ r(i) % Radix \in Byte
        /\ r(i) = (r(i) \div Radix) * Radix + (r(i) % Radix)
    BY <1>1, <2>3
  <2>6. Byte \subseteq Nat
    BY FieldReadersAssumption DEF FieldReadersAssumption, Byte
  <2> HIDE DEF a, b, q, r
  <2>7. QED
    BY <2>4, <2>5, <2>6
<1>3. ASSUME NEW i \in 0..w PROVE q(i) \in Nat /\ r(i) \in Nat
  <2>1. Power[w - i] \in Nat \ {0}
    BY PowerType
  <2>2. QED
    BY <1>1, <2>1, Divided
<1>4. ASSUME NEW i \in 0..w
      PROVE  /\ n <= m => q(i) <= r(i)
             /\ m <= n => r(i) <= q(i)
  <2>1. Power[w - i] \in Nat \ {0}
    BY PowerType
  <2>2. QED
    BY <1>1, <2>1, DividedInOrder
<1>5. Radix \in Nat
  BY FieldReadersAssumption DEF FieldReadersAssumption
<1> HIDE DEF a, b, q, r
<1>6. ASSUME n < m
      PROVE  \E k \in 1..w : a[k] < b[k] /\ \A i \in 1..(k - 1) : a[i] = b[i]
  <2> DEFINE T == {i \in 0..w : q(i) # r(i)}
  <2>1. w \in T
    BY <1>1, <1>6
  <2>2. PICK k \in T : \A j \in T : k <= j
    <3>1. T \in SUBSET Nat /\ T # {}
      BY <2>1
    <3> HIDE DEF T
    <3>2. QED
      BY <3>1, LeastOf
  <2>3. k \in 1..w /\ k - 1 \in 0..w /\ q(k) # r(k)
    BY <1>1, <2>2
  <2>4. \A i \in 0..(k - 1) : q(i) = r(i)
    BY <2>2, <2>3
  <2>5. a[k] < b[k]
    <3>1. q(k) < r(k) /\ q(k - 1) = r(k - 1) /\ q(k - 1) \in Nat
      BY <1>3, <1>4, <1>6, <2>3, <2>4
    <3>2. q(k - 1) * Radix \in Nat
      BY <1>5, <3>1
    <3>3. /\ q(k) = q(k - 1) * Radix + a[k] /\ r(k) = q(k - 1) * Radix + b[k]
          /\ a[k] \in Nat /\ b[k] \in Nat
      BY <1>2, <2>3, <3>1
    <3>4. QED
      BY <3>1, <3>2, <3>3
  <2>6. ASSUME NEW i \in 1..(k - 1) PROVE a[i] = b[i]
    <3>1. i \in 0..(k - 1) /\ i \in 1..w
      BY <2>3
    <3>2. q(i) = r(i)
      BY <2>4, <3>1
    <3>3. QED
      BY <1>2, <3>1, <3>2
  <2>7. QED
    BY <2>3, <2>5, <2>6
<1>7. ASSUME NEW k \in 1..w, a[k] < b[k], \A i \in 1..(k - 1) : a[i] = b[i]
      PROVE  n < m
  <2> DEFINE S == {i \in Nat : q(i) = r(i)}
  <2>1. 0 \in S
    BY <1>1
  <2>2. ASSUME NEW i \in 0..((k - 1) - 1), i \in S PROVE i + 1 \in S
    <3>1. i + 1 \in 1..(k - 1) /\ i + 1 \in 1..w /\ (i + 1) - 1 = i
      OBVIOUS
    <3>2. a[i + 1] = b[i + 1] /\ q(i) = r(i)
      BY <1>7, <2>2, <3>1
    <3>3. QED
      BY <1>2, <3>1, <3>2
  <2>3. k - 1 \in S
    <3> HIDE DEF S
    <3>1. k - 1 \in Nat
      OBVIOUS
    <3>2. \A i \in 0..(k - 1) : i \in S
      BY <2>1, <2>2, <3>1, UpTo
    <3>3. QED
      BY <3>1, <3>2
  <2>4. q(k) < r(k)
    <3>1. q(k - 1) = r(k - 1) /\ q(k - 1) \in Nat
      BY <1>3, <2>3
    <3>2. q(k - 1) * Radix \in Nat
      BY <1>5, <3>1
    <3>3. /\ q(k) = q(k - 1) * Radix + a[k] /\ r(k) = q(k - 1) * Radix + b[k]
          /\ a[k] \in Nat /\ b[k] \in Nat
      BY <1>2, <3>1
    <3>4. QED
      BY <1>7, <3>2, <3>3
  <2>5. ~(m <= n)
    <3>1. k \in 0..w
      OBVIOUS
    <3>2. QED
      BY <1>3, <1>4, <2>4, <3>1
  <2>6. QED
    BY <1>1, <2>5
<1>8. QED
  BY <1>6, <1>7 DEF a, b

-----------------------------------------------------------------------------
(***************************************************************************)
(* Epoch tags                                                              *)
(***************************************************************************)

\* The constants of a tag.
LEMMA TagConstants ==
  /\ TimeLen \in Nat /\ TagLen \in Nat /\ TimeAt \in Nat /\ TimeAt + TimeLen = TagLen
  /\ TagLen <= MaxOffset /\ MaxOffset \in Nat
  /\ 0..U64 = 0..(Power[TimeLen] - 1) /\ U64 \in Nat
<1>1. TimeLen \in Nat /\ MaxOffset \in Nat
  BY FieldReadersAssumption, SnapshotsAssumption DEF FieldReadersAssumption, SnapshotsAssumption
<1>2. TagLen \in TimeLen..MaxOffset /\ U64 = Power[TimeLen] - 1
  BY SnapshotsAssumption DEF SnapshotsAssumption
<1>3. U64 \in Nat
  BY LocatorUriAssumption DEF LocatorUriAssumption
<1>4. QED
  BY <1>1, <1>2, <1>3 DEF TimeAt

\* A tag is a sequence of bytes, zero but for those of the time at its end.
LEMMA TagIs ==
  ASSUME NEW time \in 0..U64
  PROVE  LET tag == EpochFromCreateTime(time) IN
           /\ tag \in [1..TagLen -> Byte] /\ Len(tag) = TagLen
           /\ \A i \in 1..TimeAt : tag[i] = 0
           /\ \A i \in 1..TimeLen : tag[TimeAt + i] = ToBytes("be", time, TimeLen)[i]
<1> DEFINE b == ToBytes("be", time, TimeLen)
           tag == [i \in 1..TagLen |-> IF i <= TimeAt THEN 0 ELSE b[i - TimeAt]]
<1>1. tag = EpochFromCreateTime(time)
  BY DEF EpochFromCreateTime
<1>2. b \in [1..TimeLen -> Byte]
  <2>1. "be" \in Order /\ time \in Nat /\ TimeLen \in Nat
    BY TagConstants DEF Order
  <2>2. QED
    BY <2>1, ByteOf
<1>3. 0 \in Byte
  BY FieldReadersAssumption DEF FieldReadersAssumption, Byte
<1> HIDE DEF b
<1>4. ASSUME NEW i \in 1..TagLen PROVE tag[i] \in Byte
  <2>1. ~(i <= TimeAt) => i - TimeAt \in 1..TimeLen
    BY TagConstants
  <2>2. QED
    BY <1>2, <1>3, <2>1
<1>5. \A i \in 1..TimeAt : tag[i] = 0
  BY TagConstants
<1>6. ASSUME NEW i \in 1..TimeLen PROVE tag[TimeAt + i] = b[i]
  <2>1. TimeAt + i \in 1..TagLen /\ ~(TimeAt + i <= TimeAt) /\ (TimeAt + i) - TimeAt = i
    BY TagConstants
  <2>2. QED
    BY <2>1
<1>7. tag \in [1..TagLen -> Byte]
  BY <1>4
<1> HIDE DEF tag
<1>8. tag \in Seq(Byte) /\ Len(tag) = TagLen
  BY <1>7, TagConstants
<1>9. QED
  BY <1>1, <1>5, <1>6, <1>7, <1>8 DEF b

\* The tags of times order as the times do.
LEMMA TagsInOrder ==
  ASSUME NEW t \in 0..U64, NEW u \in 0..U64
  PROVE  t < u <=> Earlier(EpochFromCreateTime(t), EpochFromCreateTime(u))
<1> DEFINE x == EpochFromCreateTime(t)
           y == EpochFromCreateTime(u)
           a == ToBytes("be", t, TimeLen)
           b == ToBytes("be", u, TimeLen)
<1>1. t < u <=> \E k \in 1..TimeLen : a[k] < b[k] /\ \A i \in 1..(k - 1) : a[i] = b[i]
  <2>1. TimeLen \in Nat /\ t \in 0..(Power[TimeLen] - 1) /\ u \in 0..(Power[TimeLen] - 1)
    BY TagConstants
  <2>2. QED
    BY <2>1, BytesInOrder
<1>2. /\ \A i \in 1..TimeAt : x[i] = 0 /\ y[i] = 0
      /\ \A i \in 1..TimeLen : x[TimeAt + i] = a[i] /\ y[TimeAt + i] = b[i]
  BY TagIs
<1> HIDE DEF x, y, a, b
<1>3. ASSUME NEW k \in 1..TimeLen, a[k] < b[k], \A i \in 1..(k - 1) : a[i] = b[i]
      PROVE  Earlier(x, y)
  <2>1. TimeAt + k \in 1..TagLen /\ x[TimeAt + k] < y[TimeAt + k]
    BY <1>2, <1>3, TagConstants
  <2>2. ASSUME NEW i \in 1..((TimeAt + k) - 1) PROVE x[i] = y[i]
    <3>1. CASE i <= TimeAt
      BY <1>2, <3>1, TagConstants
    <3>2. CASE ~(i <= TimeAt)
      <4>1. i - TimeAt \in 1..(k - 1) /\ i - TimeAt \in 1..TimeLen /\ TimeAt + (i - TimeAt) = i
        BY <3>2, TagConstants
      <4>2. QED
        BY <1>2, <1>3, <4>1
    <3>3. QED
      BY <3>1, <3>2
  <2>3. QED
    BY <2>1, <2>2 DEF Earlier
<1>4. ASSUME NEW k \in 1..TagLen, x[k] < y[k], \A i \in 1..(k - 1) : x[i] = y[i]
      PROVE  \E h \in 1..TimeLen : a[h] < b[h] /\ \A i \in 1..(h - 1) : a[i] = b[i]
  <2>1. ~(k <= TimeAt)
    BY <1>2, <1>4, TagConstants
  <2> DEFINE h == k - TimeAt
  <2>2. h \in 1..TimeLen /\ TimeAt + h = k
    BY <2>1, TagConstants
  <2>3. a[h] < b[h]
    BY <1>2, <1>4, <2>2
  <2>4. ASSUME NEW i \in 1..(h - 1) PROVE a[i] = b[i]
    <3>1. TimeAt + i \in 1..(k - 1) /\ i \in 1..TimeLen
      BY <2>2, TagConstants
    <3>2. QED
      BY <1>2, <1>4, <3>1
  <2> HIDE DEF h
  <2>5. QED
    BY <2>2, <2>3, <2>4
<1>5. QED
  BY <1>1, <1>3, <1>4 DEF Earlier, x, y

\* A field in range is read as the number its bytes are written of, and one
\* out of range as 0.
LEMMA FieldRead ==
  ASSUME NEW order \in Order, NEW width \in Nat, NEW data \in Seq(Byte), NEW off \in Nat,
         Len(data) <= MaxOffset
  PROVE  LET n == ReadField(order, width, data, off) IN
           /\ off + width <= Len(data) =>
                /\ SubSeq(data, off + 1, off + width) \in [1..width -> Byte]
                /\ Len(SubSeq(data, off + 1, off + width)) = width
                /\ n = FromBytes(order, SubSeq(data, off + 1, off + width))
           /\ ~(off + width <= Len(data)) => n = 0
<1> DEFINE part == SubSeq(data, off + 1, off + width)
<1>1. MaxOffset \in Nat /\ Len(data) \in Nat
  BY TagConstants
<1>2. ASSUME off + width <= Len(data)
      PROVE  /\ part \in [1..width -> Byte] /\ Len(part) = width
             /\ ReadField(order, width, data, off) = FromBytes(order, part)
  <2>1. \A i \in (off + 1)..(off + width) : data[i] \in Byte
    BY <1>1, <1>2
  <2>2. part \in Seq(Byte) /\ Len(part) = width
    BY <1>1, <1>2, <2>1
  <2> HIDE DEF part
  <2>3. part \in [1..width -> Byte]
    BY <2>2
  <2>4. Slice(data, off, width) = {part}
    BY <1>1, <1>2 DEF Slice, part
  <2>5. (CHOOSE bytes \in {part} : TRUE) = part /\ {part} # {}
    OBVIOUS
  <2>6. QED
    BY <2>2, <2>3, <2>4, <2>5 DEF ReadField
<1>3. ASSUME ~(off + width <= Len(data))
      PROVE  ReadField(order, width, data, off) = 0
  BY <1>3 DEF ReadField, Slice
<1>4. QED
  BY <1>2, <1>3

-----------------------------------------------------------------------------
(***************************************************************************)
(* The listing of views                                                    *)
(***************************************************************************)

\* Every view of the listing has the tag of its time.
TagInv == \A v \in views : v.time \in 0..U64 /\ v.view.epoch = EpochFromCreateTime(v.time)

\* Views keep the tags they were made with, through any listing and citing.
LEMMA TagsKept == SSpec => []TagInv
<1>1. SInit => TagInv
  BY DEF SInit, TagInv
<1>2. TagInv /\ [SNext]_snapshotVars => TagInv'
  <2> SUFFICES ASSUME TagInv, [SNext]_snapshotVars PROVE TagInv'
    OBVIOUS
  <2>1. CASE TakeView
    <3>1. PICK xid \in Xids, time \in 0..U64 :
            views' = views \cup {[view |-> SnapshotView(loc, xid, time), time |-> time]}
      BY <2>1 DEF TakeView
    <3>2. SnapshotView(loc, xid, time).epoch = EpochFromCreateTime(time)
      BY DEF SnapshotView
    <3>3. QED
      BY <3>1, <3>2 DEF TagInv
  <2>2. CASE Cite
    BY <2>2 DEF Cite, TagInv
  <2>3. CASE UNCHANGED views
    BY <2>3 DEF TagInv
  <2>4. QED
    BY <2>1, <2>2, <2>3 DEF SNext, snapshotVars
<1>3. QED
  BY <1>1, <1>2, PTL DEF SSpec

\* The tags of any listing sort it by the times of the snapshots: epoch tags
\* compare as bytes the way create times compare as numbers.
THEOREM HistoryOrder == SSpec => []EpochsOrdered
<1>1. TagInv => EpochsOrdered
  BY TagsInOrder DEF TagInv, EpochsOrdered
<1>2. QED
  BY <1>1, TagsKept, PTL

\* The create time is read back out of the tag it was made into.
THEOREM TimeFromTag == SSpec => []EpochReversible
<1>1. ASSUME NEW t \in 0..U64
      PROVE  ReadField("be", TimeLen, EpochFromCreateTime(t), TimeAt) = t
  <2> DEFINE tag == EpochFromCreateTime(t)
             part == SubSeq(tag, TimeAt + 1, TimeAt + TimeLen)
             b == ToBytes("be", t, TimeLen)
  <2>1. /\ tag \in [1..TagLen -> Byte] /\ Len(tag) = TagLen
        /\ \A i \in 1..TimeLen : tag[TimeAt + i] = b[i]
    BY TagIs
  <2>2. b \in [1..TimeLen -> Byte] /\ FromBytes("be", b) = t
    <3>1. t \in 0..(Power[TimeLen] - 1)
      BY TagConstants
    <3>2. "be" \in Order /\ t \in Nat /\ TimeLen \in Nat
      BY TagConstants DEF Order
    <3>3. b \in [1..TimeLen -> Byte]
      BY <3>2, ByteOf
    <3>4. FromBytes("be", b) = t
      BY <3>1, <3>2, ReadBack
    <3>5. QED
      BY <3>3, <3>4
  <2> HIDE DEF tag, b
  <2>3. tag \in Seq(Byte)
    BY <2>1, TagConstants
  <2>4. part = b
    <3>1. \A i \in 1..TimeLen : part[i] = tag[TimeAt + i]
      BY <2>1, <2>3, TagConstants
    <3>2. part \in Seq(Byte) /\ Len(part) = TimeLen
      <4>1. \A i \in (TimeAt + 1)..(TimeAt + TimeLen) : tag[i] \in Byte
        BY <2>1, TagConstants
      <4>2. QED
        BY <2>1, <2>3, <4>1, TagConstants
    <3> HIDE DEF part
    <3>3. part \in [1..TimeLen -> Byte]
      BY <3>2
    <3>4. \A i \in 1..TimeLen : part[i] = b[i]
      BY <2>1, <3>1
    <3>5. part = [i \in 1..TimeLen |-> part[i]] /\ b = [i \in 1..TimeLen |-> b[i]]
      BY <2>2, <3>3
    <3>6. QED
      BY <3>4, <3>5
  <2>5. ReadField("be", TimeLen, tag, TimeAt) = FromBytes("be", part)
    <3>1. "be" \in Order /\ TimeLen \in Nat /\ TimeAt \in Nat /\ Len(tag) <= MaxOffset
          /\ TimeAt + TimeLen <= Len(tag)
      BY <2>1, TagConstants DEF Order
    <3>2. QED
      BY <2>3, <3>1, FieldRead
  <2>6. QED
    BY <2>2, <2>4, <2>5 DEF tag
<1>2. TagInv => EpochReversible
  BY <1>1 DEF TagInv, EpochReversible
<1>3. QED
  BY <1>2, TagsKept, PTL

\* Whatever field of a tag is read, in range or out of it, the readers make up
\* no number: it is the one whose bytes stand there, or 0.
THEOREM ReadsExact == SSpec => []FieldsExact
<1>1. ASSUME NEW t \in 0..U64, NEW order \in Order, NEW width \in Widths, NEW off \in 0..MaxOffset
      PROVE  LET tag == EpochFromCreateTime(t)
                 n == ReadField(order, width, tag, off)
             IN  IF off + width <= TagLen
                 THEN ToBytes(order, n, width) = SubSeq(tag, off + 1, off + width)
                 ELSE n = 0
  <2> DEFINE tag == EpochFromCreateTime(t)
             part == SubSeq(tag, off + 1, off + width)
             n == ReadField(order, width, tag, off)
  <2>1. tag \in [1..TagLen -> Byte] /\ Len(tag) = TagLen
    BY TagIs
  <2> HIDE DEF tag
  <2>2. tag \in Seq(Byte)
    BY <2>1, TagConstants
  <2>3. width \in Nat /\ off \in Nat /\ Len(tag) <= MaxOffset
    BY <2>1, TagConstants, FieldReadersAssumption DEF FieldReadersAssumption
  <2>4. /\ off + width <= TagLen =>
             part \in [1..width -> Byte] /\ Len(part) = width /\ n = FromBytes(order, part)
        /\ ~(off + width <= TagLen) => n = 0
    BY <2>1, <2>2, <2>3, FieldRead
  <2> HIDE DEF part, n
  <2>5. ASSUME off + width <= TagLen PROVE ToBytes(order, n, width) = part
    BY <2>3, <2>4, <2>5, WrittenBack
  <2>6. QED
    BY <2>4, <2>5 DEF tag, part, n
<1>2. TagInv => FieldsExact
  BY <1>1 DEF TagInv, FieldsExact
<1>3. QED
  BY <1>2, TagsKept, PTL

-----------------------------------------------------------------------------
(***************************************************************************)
(* Citing a view                                                           *)
(***************************************************************************)

\* The session's locator and those of all listed views are locators.
CitedInv == TypeOK /\ \A v \in views : v.view.locator \in Locator

\* snapshot_view makes a locator of a locator.
LEMMA ViewLocator ==
  ASSUME NEW l \in Locator, NEW xid \in Xids, NEW time
  PROVE  SnapshotView(l, xid, time).locator \in Locator
<1> HIDE DEF Layer
<1> DEFINE top == [tag |-> "snapshot", kind |-> "apfs", id |-> xid]
<1>1. xid \in 0..U64
  BY SnapshotsAssumption
<1>2. top \in Layer
  BY <1>1, LayerIs
<1>3. SnapshotView(l, xid, time).locator = Append(l, top)
  BY DEF SnapshotView
<1> HIDE DEF top
<1>4. l \in Seq(Layer)
  BY DEF Locator
<1>5. Append(l, top) \in Seq(Layer) /\ Append(l, top) # <<>>
  <2>1. \A s \in Seq(Layer), x \in Layer : Append(s, x) \in Seq(Layer) /\ Append(s, x) # <<>>
    BY AppendProperties
  <2>2. QED
    BY <1>2, <1>4, <2>1
<1>6. QED
  BY <1>3, <1>5 DEF Locator

LEMMA CitedTypes == SSpec => []CitedInv
<1> HIDE DEF Locator, Lexicon
<1>1. SInit => CitedInv
  BY InitTypes DEF SInit, CitedInv
<1>2. CitedInv /\ [SNext]_snapshotVars => CitedInv'
  <2> SUFFICES ASSUME CitedInv, [SNext]_snapshotVars PROVE CitedInv'
    OBVIOUS
  <2>1. CASE TakeView
    <3>1. TypeOK' /\ loc \in Locator
      BY <2>1 DEF TakeView, CitedInv, TypeOK
    <3>2. PICK xid \in Xids, time \in 0..U64 :
            views' = views \cup {[view |-> SnapshotView(loc, xid, time), time |-> time]}
      BY <2>1 DEF TakeView
    <3>3. SnapshotView(loc, xid, time).locator \in Locator
      BY <3>1, ViewLocator
    <3>4. QED
      BY <3>1, <3>2, <3>3 DEF CitedInv
  <2>2. CASE Cite
    <3>1. PICK v \in views : loc' = v.view.locator /\ text' = ToUri(v.view.locator)
      BY <2>2 DEF Cite
    <3>2. v.view.locator \in Locator
      BY DEF CitedInv
    <3>3. ToUri(v.view.locator) \in Seq(Lexicon)
      BY <3>2, ToUriText
    <3>4. TypeOK'
      BY <2>2, <3>1, <3>2, <3>3 DEF Cite, CitedInv, TypeOK
    <3>5. views' = {}
      BY <2>2 DEF Cite
    <3>6. QED
      BY <3>4, <3>5 DEF CitedInv
  <2>3. CASE Next /\ UNCHANGED views
    <3>1. TypeOK'
      BY <2>3, NextTypes DEF CitedInv
    <3>2. QED
      BY <2>3, <3>1 DEF CitedInv
  <2>4. CASE UNCHANGED snapshotVars
    <3>1. UNCHANGED vars /\ UNCHANGED views
      BY <2>4 DEF snapshotVars, vars
    <3>2. TypeOK'
      BY <3>1, NextTypes DEF CitedInv
    <3>3. QED
      BY <3>1, <3>2 DEF CitedInv
  <2>5. QED
    BY <2>1, <2>2, <2>3, <2>4 DEF SNext
<1>3. QED
  BY <1>1, <1>2, PTL DEF SSpec

\* The locator of a listed snapshot, cited and opened again through any
\* damage, is a locator, read back unchanged from its text and from the older
\* form of it.
THEOREM ViewsReadBack == SSpec => [](TypeOK /\ RoundTrip /\ LegacyAlias)
<1>1. CitedInv => TypeOK
  BY DEF CitedInv
<1>2. TypeOK => RoundTrip
  BY TypedReadsBack
<1>3. TypeOK => LegacyAlias
  BY TypedAlias
<1>4. QED
  BY <1>1, <1>2, <1>3, CitedTypes, PTL
=============================================================================
