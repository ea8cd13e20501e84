------------------------- MODULE SourceStackProofs -------------------------
(***************************************************************************)
(* Theorems about windows stacked on a file, for any number of windows,    *)
(* any bases, lengths and seeks, and any width of the integers.            *)
(***************************************************************************)
EXTENDS SourceStack, ByteStreamProofs, WellFoundedInduction

-----------------------------------------------------------------------------
(***************************************************************************)
(* The inductive invariant                                                 *)
(***************************************************************************)

U == 0..MaxU

SubRange == [base : U, len : U]

Typed ==
  /\ faults \in Faults
  /\ size \in Sizes /\ len \in Sizes
  /\ windows \in Seq(SubRange)
  /\ cur = Unopened \/ cur \in [base : U, len : U, pos : U]
  /\ from \in U /\ copied \in Seq(Nat) /\ ended \in BOOLEAN
  /\ exact \in [outcome : {"none", "ok", "range", "io"}, asked : Request, bytes : Seq(Nat)]
  /\ sniff \in [stage : {"none", "head", "both"}, total : U, head : Seq(Nat), tail : Seq(Nat)]

\* A file that is left alone has the length it was opened with.
CalmKept == Calm => size = len

\* The cursor lies inside the innermost window, as every window in its parent.
CursorNests == Opened /\ cur.len > 0 => cur.base + cur.len <= TopLen

\* What the sniff buffers are filled with.
SniffOK ==
  /\ sniff.stage # "none" =>
       sniff.total = TopLen /\ sniff.head = Bytes(TopOffset, Len(sniff.head))
  /\ sniff.stage = "both" /\ Calm =>
       sniff.tail = Bytes(TopOffset + TailStart, Lesser(sniff.total, TailCap))

\* A cursor that is not open yet has read nothing.
Fresh == ~Opened => from = 0 /\ copied = <<>> /\ ~ended

IInv ==
  /\ Typed
  /\ CalmKept
  /\ Fresh
  /\ WindowsNest
  /\ CursorNests
  /\ CopyFaithful
  /\ CopyComplete
  /\ ExactAll
  /\ RangeErrorsTrue
  /\ SniffOK

-----------------------------------------------------------------------------
(***************************************************************************)
(* Numbers                                                                 *)
(***************************************************************************)

LEMMA Constants ==
  /\ MaxU \in Nat /\ MaxI \in Nat /\ MaxI <= MaxU
  /\ Sizes \subseteq U /\ Bounds \subseteq U
  /\ Lengths \subseteq Nat \ {0}
  /\ Steps \subseteq Int
  /\ SniffCap \in Nat \ {0} /\ TailCap \in Nat
BY SourceStackAssumption DEF U

LEMMA TopType == ASSUME Typed PROVE TopLen \in U /\ Len(windows) \in Nat
<1>1. windows \in Seq(SubRange) /\ len \in U
  BY Constants DEF Typed
<1>2. CASE windows = <<>>
  BY <1>1, <1>2 DEF TopLen
<1>3. CASE windows # <<>>
  <2>1. Len(windows) \in 1..Len(windows) /\ Len(windows) \in Nat
    BY <1>1, <1>3
  <2>2. windows[Len(windows)] \in SubRange
    BY <1>1, <2>1
  <2>3. QED
    BY <1>3, <2>1, <2>2 DEF TopLen, SubRange
<1>4. QED
  BY <1>2, <1>3

LEMMA WindowType ==
  ASSUME Typed, NEW k \in 1..Len(windows)
  PROVE  windows[k].base \in U /\ windows[k].len \in U
<1>1. windows[k] \in SubRange
  BY DEF Typed
<1>2. QED
  BY <1>1 DEF SubRange

\* The clamp of a new window or cursor keeps it inside the innermost source.
LEMMA ClampedIn ==
  ASSUME Typed, NEW b \in U, NEW n \in U
  PROVE  Clamped(b, n) \in U /\ (Clamped(b, n) > 0 => b + Clamped(b, n) <= TopLen)
BY TopType, Constants DEF Clamped, Lesser, SatSub, U

-----------------------------------------------------------------------------
(***************************************************************************)
(* The two recursive functions exist                                       *)
(***************************************************************************)

\* A non-empty set of numbers has a least one.
LEMMA Least ==
  ASSUME NEW S \in SUBSET Nat, NEW n \in S
  PROVE  \E m \in S : \A j \in S : m <= j
<1>1. IsWellFoundedOn(OpToRel(<, Nat), Nat)
  BY NatLessThanWellFounded
<1>2. PICK m \in S : \A j \in Nat : <<j, m>> \in OpToRel(<, Nat) => j \notin S
  BY <1>1, WFMin
<1>3. ASSUME NEW j \in S PROVE m <= j
  <2>1. ~(j < m)
    BY <1>2 DEF OpToRel
  <2>2. QED
    BY <2>1
<1>4. QED
  BY <1>3

\* The requests the windows make of each other: Chain(r)[k] is what the k-th
\* window asks of the one below it, or of the file.
Chain(r) ==
  CHOOSE f : f = [k \in 0..Len(windows) |->
                    IF k = Len(windows) THEN r ELSE Cut(windows[k + 1], f[k + 1])]

LEMMA ChainIs ==
  ASSUME NEW r, Len(windows) \in Nat
  PROVE  /\ Translated(r) = Chain(r)[0]
         /\ Chain(r)[Len(windows)] = r
         /\ \A k \in 0..(Len(windows) - 1) : Chain(r)[k] = Cut(windows[k + 1], Chain(r)[k + 1])
<1> DEFINE L == Len(windows)
           Step(g, k) == g[k] = IF k = L THEN r ELSE Cut(windows[k + 1], g[k + 1])
           From(d) == \E g : \A k \in (L - d)..L : Step(g, k)
           S == {d \in 0..L : ~From(d)}
<1> L \in Nat
  OBVIOUS
<1> HIDE DEF L
<1>1. S = {}
  <2>1. SUFFICES ASSUME S # {} PROVE FALSE
    OBVIOUS
  <2>2. PICK m \in S : \A j \in S : m <= j
    <3>1. S \in SUBSET Nat
      OBVIOUS
    <3>2. QED
      BY <2>1, <3>1, Least
  <2>3. m \in 0..L /\ ~From(m)
    BY <2>2
  <2>4. CASE m = 0
    <3>1. \A k \in (L - 0)..L : Step([j \in {L} |-> r], k)
      OBVIOUS
    <3>2. From(0)
      BY <3>1
    <3>3. QED
      BY <2>3, <2>4, <3>2
  <2>5. CASE m > 0
    <3>1. m - 1 \in 0..L /\ m - 1 \notin S
      BY <2>2, <2>3, <2>5
    <3>2. PICK g : \A k \in (L - (m - 1))..L : Step(g, k)
      BY <3>1
    <3> DEFINE h == [k \in (L - m)..L |-> IF k = L - m THEN Cut(windows[k + 1], g[k + 1]) ELSE g[k]]
    <3>3. ASSUME NEW k \in (L - m)..L PROVE Step(h, k)
      <4>1. CASE k = L - m
        <5>1. k # L /\ k + 1 \in (L - m)..L /\ k + 1 # L - m
          BY <2>3, <2>5, <4>1
        <5>2. h[k] = Cut(windows[k + 1], g[k + 1]) /\ h[k + 1] = g[k + 1]
          BY <4>1, <5>1
        <5>3. QED
          BY <5>1, <5>2
      <4>2. CASE k # L - m /\ k # L
        <5>1. k \in (L - (m - 1))..L /\ k + 1 \in (L - m)..L /\ k + 1 # L - m
          BY <2>3, <2>5, <4>2
        <5>2. h[k] = g[k] /\ h[k + 1] = g[k + 1]
          BY <4>2, <5>1
        <5>3. QED
          BY <3>2, <4>2, <5>1, <5>2
      <4>3. CASE k # L - m /\ k = L
        <5>1. k \in (L - (m - 1))..L /\ h[k] = g[k]
          BY <2>3, <2>5, <4>3
        <5>2. QED
          BY <3>2, <4>3, <5>1
      <4>4. QED
        BY <4>1, <4>2, <4>3
    <3> HIDE DEF h
    <3>4. From(m)
      BY <3>3
    <3>5. QED
      BY <2>3, <3>4
  <2>6. QED
    BY <2>3, <2>4, <2>5
<1>2. PICK g : \A k \in 0..L : Step(g, k)
  <2>1. From(L)
    <3>1. L \in 0..L
      OBVIOUS
    <3>2. L \notin S
      BY <1>1
    <3>3. QED
      BY <3>1, <3>2
  <2>2. L - L = 0
    OBVIOUS
  <2>3. QED
    BY <2>1, <2>2
<1> DEFINE f == [k \in 0..L |-> g[k]]
<1>3. f = [k \in 0..L |-> IF k = L THEN r ELSE Cut(windows[k + 1], f[k + 1])]
  <2>1. ASSUME NEW k \in 0..L
        PROVE  f[k] = IF k = L THEN r ELSE Cut(windows[k + 1], f[k + 1])
    <3>1. f[k] = g[k] /\ (k # L => k + 1 \in 0..L /\ f[k + 1] = g[k + 1])
      OBVIOUS
    <3>2. QED
      BY <1>2, <3>1
  <2>2. QED
    BY <2>1
<1> HIDE DEF f
<1>4. Chain(r) = [k \in 0..L |-> IF k = L THEN r ELSE Cut(windows[k + 1], Chain(r)[k + 1])]
  BY <1>3 DEF Chain, L
<1>5. Translated(r) = Chain(r)[0]
  BY DEF Translated, Chain
<1>6. /\ Chain(r)[L] = r
      /\ \A k \in 0..(L - 1) : Chain(r)[k] = Cut(windows[k + 1], Chain(r)[k + 1])
  <2> DEFINE c == Chain(r)
  <2> HIDE DEF c
  <2>1. c = [k \in 0..L |-> IF k = L THEN r ELSE Cut(windows[k + 1], c[k + 1])]
    BY <1>4 DEF c
  <2>2. \A k \in 0..L : c[k] = IF k = L THEN r ELSE Cut(windows[k + 1], c[k + 1])
    BY <2>1
  <2>3. c[L] = r
    BY <2>2
  <2>4. ASSUME NEW k \in 0..(L - 1) PROVE c[k] = Cut(windows[k + 1], c[k + 1])
    <3>1. k \in 0..L /\ k # L
      OBVIOUS
    <3>2. QED
      BY <2>2, <3>1
  <2>5. QED
    BY <2>3, <2>4 DEF c
<1>7. QED
  BY <1>5, <1>6 DEF L

LEMMA OffsetIs ==
  ASSUME Typed
  PROVE  /\ Offset[0] = 0
         /\ \A k \in 1..Len(windows) :
              Offset[k] = Offset[k - 1] + windows[k].base
         /\ \A k \in 0..Len(windows) : Offset[k] \in Nat
<1> DEFINE L == Len(windows)
           Step(g, k) == g[k] = IF k = 0 THEN 0 ELSE g[k - 1] + windows[k].base
           UpTo(d) == \E g : \A k \in 0..d : Step(g, k)
           S == {d \in 0..L : ~UpTo(d)}
<1>1. L \in Nat /\ \A k \in 1..L : windows[k].base \in Nat
  BY TopType, WindowType, Constants DEF U
<1> HIDE DEF L
<1>2. S = {}
  <2>1. SUFFICES ASSUME S # {} PROVE FALSE
    OBVIOUS
  <2>2. PICK m \in S : \A j \in S : m <= j
    <3>1. S \in SUBSET Nat
      BY <1>1
    <3>2. QED
      BY <2>1, <3>1, Least
  <2>3. m \in 0..L /\ ~UpTo(m)
    BY <2>2
  <2>4. CASE m = 0
    <3>1. \A k \in 0..0 : Step([j \in {0} |-> 0], k)
      OBVIOUS
    <3>2. UpTo(0)
      BY <3>1
    <3>3. QED
      BY <2>3, <2>4, <3>2
  <2>5. CASE m > 0
    <3>1. m - 1 \in 0..L /\ ~(m <= m - 1)
      BY <1>1, <2>3, <2>5
    <3>2. PICK g : \A k \in 0..(m - 1) : Step(g, k)
      <4>1. m - 1 \notin S
        BY <2>2, <3>1
      <4>2. QED
        BY <3>1, <4>1
    <3> DEFINE h == [k \in 0..m |-> IF k = m THEN g[m - 1] + windows[m].base ELSE g[k]]
    <3>3. ASSUME NEW k \in 0..m PROVE Step(h, k)
      <4>1. CASE k = m
        <5>1. k # 0 /\ k - 1 \in 0..m /\ k - 1 # m
          BY <1>1, <2>3, <2>5, <4>1
        <5>2. h[k] = g[m - 1] + windows[m].base /\ h[k - 1] = g[k - 1]
          BY <4>1, <5>1
        <5>3. QED
          BY <4>1, <5>1, <5>2
      <4>2. CASE k # m /\ k # 0
        <5>1. k \in 0..(m - 1) /\ k - 1 \in 0..m /\ k - 1 # m
          BY <1>1, <2>3, <2>5, <4>2
        <5>2. h[k] = g[k] /\ h[k - 1] = g[k - 1]
          BY <4>2, <5>1
        <5>3. QED
          BY <3>2, <4>2, <5>1, <5>2
      <4>3. CASE k # m /\ k = 0
        <5>1. k \in 0..(m - 1) /\ h[k] = g[k]
          BY <1>1, <2>3, <2>5, <4>3
        <5>2. QED
          BY <3>2, <4>3, <5>1
      <4>4. QED
        BY <4>1, <4>2, <4>3
    <3> HIDE DEF h
    <3>4. UpTo(m)
      BY <3>3
    <3>5. QED
      BY <2>3, <3>4
  <2>6. QED
    BY <1>1, <2>3, <2>4, <2>5
<1>3. PICK g : \A k \in 0..L : Step(g, k)
  <2>1. L \in 0..L
    BY <1>1
  <2> HIDE DEF Step
  <2>2. UpTo(L)
    BY ZenonT(40), <1>2, <2>1
  <2>3. QED
    BY <2>2 DEF Step
<1> DEFINE f == [k \in 0..L |-> g[k]]
<1>4. f = [k \in 0..L |-> IF k = 0 THEN 0 ELSE f[k - 1] + windows[k].base]
  <2>1. ASSUME NEW k \in 0..L
        PROVE  f[k] = IF k = 0 THEN 0 ELSE f[k - 1] + windows[k].base
    <3>1. f[k] = g[k] /\ (k # 0 => k - 1 \in 0..L /\ f[k - 1] = g[k - 1])
      BY <1>1
    <3>2. QED
      BY <1>3, <3>1
  <2>2. QED
    BY <2>1
<1> HIDE DEF f
<1>5. Offset = [k \in 0..L |-> IF k = 0 THEN 0 ELSE Offset[k - 1] + windows[k].base]
  BY <1>4 DEF Offset, L
<1>6. \A k \in 0..L : Offset[k] = IF k = 0 THEN 0 ELSE Offset[k - 1] + windows[k].base
  BY <1>5
<1> HIDE DEF S, UpTo, Step
<1>7. \A k \in 0..L : Offset[k] \in Nat
  <2> DEFINE B == {k \in 0..L : Offset[k] \notin Nat}
  <2>1. SUFFICES ASSUME B # {} PROVE FALSE
    OBVIOUS
  <2>2. PICK m \in B : \A j \in B : m <= j
    <3>1. B \in SUBSET Nat
      BY <1>1
    <3>2. QED
      BY <2>1, <3>1, Least
  <2>3. m \in 0..L /\ Offset[m] \notin Nat
    BY <2>2
  <2>4. m # 0
    BY <1>1, <1>6, <2>3
  <2>5. m - 1 \in 0..L /\ m - 1 \notin B /\ m \in 1..L
    BY <1>1, <2>2, <2>3, <2>4
  <2>6. Offset[m - 1] \in Nat /\ windows[m].base \in Nat
    BY <1>1, <2>5
  <2>7. QED
    BY <1>6, <2>3, <2>4, <2>6
<1>8. Offset[0] = 0
  BY <1>1, <1>6
<1>9. ASSUME NEW k \in 1..L PROVE Offset[k] = Offset[k - 1] + windows[k].base
  <2>1. k \in 0..L /\ k # 0
    BY <1>1
  <2>2. QED
    BY <1>6, <2>1
<1>10. QED
  BY <1>7, <1>8, <1>9 DEF L

-----------------------------------------------------------------------------
(***************************************************************************)
(* What a read of the innermost source may answer                          *)
(***************************************************************************)

\* The length of what the k-th window is cut from.
LenAt(k) == IF k = 0 THEN len ELSE windows[k].len

\* A request inside the innermost window reaches the file as the same bytes,
\* cut at the window's end, and lies in every window of the stack.
LEMMA TranslatedInside ==
  ASSUME Typed, WindowsNest, NEW o \in U, NEW n \in Nat \ {0}, o < TopLen,
         NEW m, m = Lesser(n, TopLen - o)
  PROVE  /\ Translated([offset |-> o, n |-> n])
              = [offset |-> TopOffset + o, n |-> IF windows = <<>> THEN n ELSE m]
         /\ TopOffset + o + m <= len
         /\ \A k \in DOMAIN windows : /\ Offset[k] <= TopOffset + o
                                      /\ TopOffset + o + m <= Offset[k] + windows[k].len
<1> DEFINE L == Len(windows)
           T == Offset[L]
           r == [offset |-> o, n |-> n]
           c == Chain(r)
           Asks(k) == /\ c[k] = [offset |-> (T - Offset[k]) + o, n |-> IF k = L THEN n ELSE m]
                      /\ (T - Offset[k]) + o >= 0
                      /\ (T - Offset[k]) + o + m <= LenAt(k)
           S == {d \in 0..L : ~Asks(L - d)}
<1>1. /\ L \in Nat /\ TopLen \in U /\ TopLen = LenAt(L) /\ len \in U
      /\ (windows = <<>> <=> L = 0) /\ DOMAIN windows = 1..L
  <2>1. windows \in Seq(SubRange) /\ len \in U
    BY Constants DEF Typed
  <2>2. QED
    BY <2>1, TopType DEF TopLen, LenAt
<1>2. MaxU \in Nat /\ o \in Nat /\ m \in Nat \ {0} /\ m <= n /\ o + m <= TopLen
  BY <1>1, Constants DEF Lesser, U
<1>3. \A k \in 1..L : windows[k].base \in 0..MaxU /\ windows[k].len \in 0..MaxU
  BY WindowType DEF U
<1>4. /\ \A k \in 1..L : Offset[k] = Offset[k - 1] + windows[k].base
      /\ \A k \in 0..L : Offset[k] \in Nat
      /\ Offset[0] = 0
  BY OffsetIs
<1>5. /\ Translated(r) = c[0] /\ c[L] = r
      /\ \A k \in 0..(L - 1) : c[k] = Cut(windows[k + 1], c[k + 1])
  BY <1>1, ChainIs
<1>6. \A k \in 0..L : LenAt(k) \in 0..MaxU
  BY <1>1, <1>3 DEF LenAt, U
<1>7. \A k \in 1..L : windows[k].len > 0 => windows[k].base + windows[k].len <= LenAt(k - 1)
  <2>1. SUFFICES ASSUME NEW k \in 1..L, windows[k].len > 0
                 PROVE  windows[k].base + windows[k].len <= LenAt(k - 1)
    OBVIOUS
  <2>2. windows[k].base + windows[k].len <= IF k = 1 THEN len ELSE windows[k - 1].len
    BY <1>1, <2>1 DEF WindowsNest
  <2>3. k - 1 = 0 <=> k = 1
    BY <1>1
  <2>4. QED
    BY <2>2, <2>3 DEF LenAt
<1> HIDE DEF L, c, Asks
<1>8. S = {}
  <2>1. SUFFICES ASSUME S # {} PROVE FALSE
    OBVIOUS
  <2>2. PICK d \in S : \A j \in S : d <= j
    <3>1. S \in SUBSET (0..L) /\ 0..L \in SUBSET Nat
      BY <1>1
    <3>2. QED
      BY <2>1, <3>1, Least
  <2>3. d \in 0..L /\ ~Asks(L - d)
    BY <2>2
  <2>4. Asks(L)
    <3>1. L \in 0..L /\ Offset[L] \in Nat
      BY <1>1, <1>4
    <3>2. (T - Offset[L]) + o = o
      BY <1>2, <3>1
    <3>3. QED
      BY <1>1, <1>2, <1>5, <3>2 DEF Asks
  <2>5. d > 0
    <3>1. d = 0 => L - d = L
      BY <1>1
    <3>2. QED
      BY <1>1, <2>3, <2>4, <3>1
  <2>6. d - 1 \in 0..L /\ ~(d <= d - 1)
    BY <1>1, <2>3, <2>5
  <2> DEFINE k == L - d
             w == windows[k + 1]
             below == c[k + 1]
  <2>7. k \in 0..(L - 1) /\ k + 1 \in 1..L /\ k + 1 \in 0..L /\ k \in 0..L /\ k # L /\ L - (d - 1) = k + 1
    BY <1>1, <2>3, <2>5
  <2>8. Asks(k + 1)
    <3>1. d - 1 \notin S
      BY <2>2, <2>6
    <3>2. Asks(L - (d - 1))
      BY <2>6, <3>1
    <3>3. QED
      BY <2>7, <3>2
  <2>9. c[k] = Cut(w, below)
    BY <1>5, <2>7
  <2> HIDE DEF k
  <2> DEFINE off == (T - Offset[k + 1]) + o
             asked == IF k + 1 = L THEN n ELSE m
  <2>10. below = [offset |-> off, n |-> asked] /\ off >= 0 /\ off + m <= w.len
    <3>1. k + 1 # 0
      BY <2>7
    <3>2. QED
      BY <2>8, <3>1 DEF LenAt, Asks
  <2>11. T \in Nat /\ Offset[k] \in Nat /\ Offset[k + 1] \in Nat /\ Offset[k + 1] = Offset[k] + w.base
         /\ w.base \in 0..MaxU /\ w.len \in 0..MaxU /\ LenAt(k) \in 0..MaxU
    <3>1. (k + 1) - 1 = k
      BY <2>7
    <3>2. Offset[k + 1] = Offset[(k + 1) - 1] + w.base
      BY <1>4, <2>7
    <3>3. L \in 0..L
      BY <1>1
    <3>4. QED
      BY <1>3, <1>4, <1>6, <2>7, <3>1, <3>2, <3>3
  <2>12. w.base + w.len <= LenAt(k)
    <3>1. w.len > 0
      BY <1>2, <2>10, <2>11
    <3>2. (k + 1) - 1 = k
      BY <2>7
    <3>3. w.base + w.len <= LenAt((k + 1) - 1)
      BY <1>7, <2>7, <3>1
    <3>4. QED
      BY <3>2, <3>3
  <2>13. k + 1 = L => w.len = TopLen /\ off = o
    <3>1. k + 1 = L => LenAt(L) = windows[L].len
      BY <2>7 DEF LenAt
    <3>2. k + 1 = L => Offset[k + 1] = T
      OBVIOUS
    <3>3. k + 1 = L => off = o
      BY <1>2, <2>11, <3>2
    <3>4. QED
      BY <1>1, <3>1, <3>3
  <2> DEFINE q == [offset |-> off, n |-> asked]
  <2>14. off \in Nat /\ ~(off >= w.len) /\ SatAdd(w.base, off) = w.base + off
    <3>1. off \in Int /\ off >= 0 /\ off + m <= w.len
      BY <1>2, <2>10, <2>11
    <3> HIDE DEF off, w
    <3>2. off < w.len /\ w.base + off <= MaxU
      BY <1>2, <2>11, <2>12, <3>1
    <3>3. w.base + off \in Int
      BY <2>11, <3>1
    <3>4. QED
      BY <1>2, <2>11, <3>1, <3>2, <3>3 DEF SatAdd, Lesser
  <2>15. Lesser(asked, w.len - off) = m
    <3>1. CASE k + 1 = L
      BY <2>13, <3>1
    <3>2. CASE k + 1 # L
      <4>1. off + m <= w.len
        BY <2>10
      <4> HIDE DEF off, w
      <4>2. ~(m < w.len - off) => w.len - off = m
        BY <1>2, <2>11, <2>14, <4>1
      <4>3. asked = m
        BY <3>2
      <4>4. QED
        BY <4>2, <4>3 DEF Lesser
    <3>3. QED
      BY <3>1, <3>2
  <2>16. Cut(w, q) = [offset |-> w.base + off, n |-> m]
    BY <2>14, <2>15 DEF Cut
  <2>17. w.base + off = (T - Offset[k]) + o
    BY <1>2, <2>11
  <2>18. c[k] = [offset |-> (T - Offset[k]) + o, n |-> m]
    BY <2>9, <2>10, <2>16, <2>17
  <2>19. (T - Offset[k]) + o >= 0 /\ (T - Offset[k]) + o + m <= LenAt(k)
    <3>1. w.base + off >= 0 /\ w.base + off + m <= LenAt(k)
      BY <1>2, <2>10, <2>11, <2>12, <2>14
    <3>2. QED
      BY <2>17, <3>1
  <2>20. Asks(k)
    BY <2>7, <2>18, <2>19 DEF Asks
  <2>21. QED
    BY <2>3, <2>20 DEF k
<1>9. ASSUME NEW k \in 0..L PROVE Asks(k)
  <2>1. L - k \in 0..L /\ L - (L - k) = k
    BY <1>1
  <2>2. L - k \notin S
    BY <1>8
  <2>3. QED
    BY <2>1, <2>2
<1>10. 0 \in 0..L /\ Asks(0)
  BY <1>1, <1>9
<1>11. T \in Nat /\ (T - Offset[0]) + o = T + o
  <2>1. L \in 0..L
    BY <1>1
  <2>2. QED
    BY <1>2, <1>4, <2>1
<1>12. Translated(r) = [offset |-> T + o, n |-> IF windows = <<>> THEN n ELSE m]
  BY <1>1, <1>5, <1>10, <1>11 DEF Asks
<1>13. T + o + m <= len
  BY <1>10, <1>11 DEF LenAt, Asks
<1>14. ASSUME NEW k \in 1..L PROVE Offset[k] <= T + o /\ T + o + m <= Offset[k] + windows[k].len
  <2>1. (T - Offset[k]) + o >= 0 /\ (T - Offset[k]) + o + m <= windows[k].len
    <3>1. k \in 0..L /\ k # 0
      BY <1>1
    <3>2. QED
      BY <1>9, <3>1 DEF LenAt, Asks
  <2>2. Offset[k] \in Nat /\ windows[k].len \in Nat
    BY <1>1, <1>3, <1>4
  <2>3. QED
    BY <1>2, <1>11, <2>1, <2>2
<1>15. QED
  BY <1>1, <1>12, <1>13, <1>14 DEF TopOffset, L

\* A request outside the innermost window, or for nothing, reaches no byte.
LEMMA TranslatedOutside ==
  ASSUME Typed, NEW o \in U, NEW n \in Nat, o >= TopLen \/ n = 0
  PROVE  ReadAt([offset |-> o, n |-> n]) = {Ok(<<>>)}
<1> DEFINE L == Len(windows)
           r == [offset |-> o, n |-> n]
           c == Chain(r)
           Dry(k) == c[k].offset \in Nat /\ c[k].n = 0
           S == {d \in 1..L : ~Dry(L - d)}
<1>1. /\ L \in Nat /\ (windows = <<>> <=> L = 0) /\ MaxU \in Nat /\ o \in Nat /\ len \in U
  <2>1. windows \in Seq(SubRange) /\ len \in U
    BY Constants DEF Typed
  <2>2. QED
    BY <2>1, Constants DEF U
<1>2. \A k \in 1..L : windows[k].base \in 0..MaxU /\ windows[k].len \in 0..MaxU
  BY WindowType DEF U
<1>3. /\ Translated(r) = c[0] /\ c[L] = r
      /\ \A k \in 0..(L - 1) : c[k] = Cut(windows[k + 1], c[k + 1])
  BY <1>1, ChainIs
<1>4. windows # <<>> => TopLen = windows[L].len
  BY DEF TopLen
<1>5. windows = <<>> => TopLen = len
  BY DEF TopLen
<1> HIDE DEF L, c
\* A window asks for nothing if nothing is asked of it, or outside of it.
<1>6. ASSUME NEW k \in 0..(L - 1), NEW q, c[k + 1] = q, q.offset \in Nat, q.n \in Nat,
             q.n = 0 \/ q.offset >= windows[k + 1].len
      PROVE  Dry(k)
  <2> DEFINE w == windows[k + 1]
  <2>1. k + 1 \in 1..L
    BY <1>1
  <2>2. w.base \in 0..MaxU /\ w.len \in 0..MaxU
    BY <1>2, <2>1
  <2>3. c[k] = Cut(w, q)
    BY <1>3, <1>6
  <2> HIDE DEF w
  <2>4. CASE q.offset >= w.len
    <3>1. c[k] = [offset |-> 0, n |-> 0]
      BY <2>3, <2>4 DEF Cut, Nothing
    <3>2. QED
      BY <3>1
  <2>5. CASE ~(q.offset >= w.len)
    <3>1. c[k] = [offset |-> SatAdd(w.base, q.offset), n |-> Lesser(q.n, w.len - q.offset)]
      BY <2>3, <2>5 DEF Cut
    <3>2. q.n = 0 /\ w.len - q.offset \in Nat /\ 0 < w.len - q.offset
      BY <1>1, <1>6, <2>2, <2>5 DEF w
    <3>3. Lesser(q.n, w.len - q.offset) = 0
      BY <3>2 DEF Lesser
    <3>4. SatAdd(w.base, q.offset) \in Nat
      BY <1>1, <1>6, <2>2 DEF SatAdd, Lesser
    <3>5. QED
      BY <3>1, <3>3, <3>4
  <2>6. QED
    BY <2>4, <2>5
<1>7. CASE windows = <<>>
  <2>1. Translated(r) = r
    BY <1>1, <1>3, <1>7
  <2>2. n = 0 \/ o >= len
    BY <1>5, <1>7
  <2>3. QED
    BY <2>1, <2>2 DEF ReadAt
<1>8. CASE windows # <<>>
  <2> HIDE DEF Dry
  <2>1. Dry(L - 1)
    <3>1. L - 1 \in 0..(L - 1) /\ (L - 1) + 1 = L
      BY <1>1, <1>8
    <3>2. c[(L - 1) + 1] = r /\ r.offset = o /\ r.n = n
      BY <1>3, <3>1
    <3>3. r.n = 0 \/ r.offset >= windows[(L - 1) + 1].len
      BY <1>4, <1>8, <3>1
    <3>4. QED
      BY <1>1, <1>6, <3>1, <3>2, <3>3
  <2>2. S = {}
    <3>1. SUFFICES ASSUME S # {} PROVE FALSE
      OBVIOUS
    <3>2. PICK d \in S : \A j \in S : d <= j
      <4>1. S \in SUBSET (1..L) /\ 1..L \in SUBSET Nat
        BY <1>1
      <4>2. QED
        BY <3>1, <4>1, Least
    <3>3. d \in 1..L /\ ~Dry(L - d)
      BY <3>2
    <3>4. d # 1
      BY <2>1, <3>3
    <3>5. d - 1 \in 1..L /\ ~(d <= d - 1)
      BY <1>1, <3>3, <3>4
    <3>6. Dry(L - (d - 1))
      <4>1. d - 1 \notin S
        BY <3>2, <3>5
      <4>2. QED
        BY <3>5, <4>1
    <3>7. L - d \in 0..(L - 1) /\ L - (d - 1) = (L - d) + 1
      BY <1>1, <3>3
    <3>8. c[(L - d) + 1].offset \in Nat /\ c[(L - d) + 1].n = 0
      BY <3>6, <3>7 DEF Dry
    <3>9. Dry(L - d)
      BY <1>6, <3>7, <3>8
    <3>10. QED
      BY <3>3, <3>9
  <2>3. Dry(0)
    <3>1. L \in 1..L /\ L - L = 0
      BY <1>1, <1>8
    <3>2. L \notin S
      BY <2>2
    <3>3. QED
      BY <3>1, <3>2
  <2>4. Translated(r).n = 0
    BY <1>3, <2>3 DEF Dry
  <2>5. QED
    BY <2>4 DEF ReadAt
<1>9. QED
  BY <1>7, <1>8

\* An answer is an error, or bytes from the offset asked for on: no more than
\* were asked for, none from outside the innermost window, and over a calm file
\* all there are.
LEMMA AnswerIs ==
  ASSUME Typed, WindowsNest, NEW o \in U, NEW n \in Nat,
         NEW a \in ReadAt([offset |-> o, n |-> n]), a # Err
  PROVE  \E m \in 0..n :
           /\ a = Ok(Bytes(TopOffset + o, m))
           /\ windows # <<>> => m <= SatSub(TopLen, o)
           /\ Calm /\ size = len => m = Lesser(n, SatSub(TopLen, o))
<1> DEFINE most == Lesser(n, SatSub(TopLen, o))
           q == Translated([offset |-> o, n |-> n])
<1>1. TopLen \in Nat /\ o \in Nat /\ size \in Nat /\ len \in Nat /\ TopOffset \in Nat
  <2>1. Len(windows) \in 0..Len(windows)
    BY TopType
  <2>2. TopOffset \in Nat
    BY <2>1, OffsetIs DEF TopOffset
  <2>3. QED
    BY <2>2, TopType, Constants DEF U, Typed
<1>2. CASE o >= TopLen \/ n = 0
  <2>1. a = Ok(<<>>)
    BY <1>2, TranslatedOutside
  <2>2. Bytes(TopOffset + o, 0) = <<>>
    BY <1>1, BytesEmpty
  <2>3. most = 0 /\ 0 <= SatSub(TopLen, o)
    BY <1>1, <1>2 DEF SatSub, Lesser
  <2>4. QED
    BY <2>1, <2>2, <2>3
<1>3. CASE ~(o >= TopLen) /\ n # 0
  <2>1. SatSub(TopLen, o) = TopLen - o
    BY <1>1, <1>3 DEF SatSub
  <2>2. /\ q = [offset |-> TopOffset + o, n |-> IF windows = <<>> THEN n ELSE most]
        /\ TopOffset + o + most <= len
    BY <1>1, <1>3, <2>1, TranslatedInside
  <2>3. most \in Nat \ {0} /\ most <= n /\ most <= TopLen - o
    BY <1>1, <1>3, <2>1 DEF Lesser
  <2> DEFINE there == Lesser(q.n, SatSub(size, q.offset))
  <2>4. ~(q.n = 0 \/ q.offset >= len)
    BY <1>1, <1>3, <2>2, <2>3
  <2>5. a \in Pread(q)
    BY <2>4 DEF ReadAt
  <2>6. q.n \in Nat /\ q.n <= n /\ q.offset = TopOffset + o /\ (windows # <<>> => q.n <= TopLen - o)
    BY <2>2, <2>3
  <2>7. there \in Nat /\ there <= q.n
    BY <1>1, <2>6 DEF Lesser, SatSub
  <2>8. size = len => there = most
    <3>1. windows = <<>> => TopLen = len /\ TopOffset = 0
      BY OffsetIs DEF TopLen, TopOffset
    <3>2. CASE windows = <<>>
      BY <1>1, <1>3, <2>1, <2>2, <3>1, <3>2 DEF SatSub
    <3>3. CASE windows # <<>>
      BY <1>1, <2>2, <2>3, <3>3 DEF Lesser, SatSub
    <3>4. QED
      BY <3>2, <3>3
  <2> HIDE DEF there, q, most
  <2>9. PICK m \in 0..there : a = Ok(Bytes(q.offset, m)) /\ (Calm => m = there)
    <3>1. CASE there = 0
      <4>1. a = Ok(<<>>)
        BY <2>5, <3>1 DEF Pread, there
      <4>2. Bytes(q.offset, 0) = <<>>
        BY <1>1, <2>6, BytesEmpty
      <4>3. QED
        BY <3>1, <4>1, <4>2
    <3>2. CASE there # 0
      <4>1. PICK m \in IF "partial" \in faults THEN 1..there ELSE {there} : a = Ok(Bytes(q.offset, m))
        BY <2>5, <3>2 DEF Pread, there
      <4>2. m \in 0..there
        BY <2>7, <4>1
      <4>3. Calm => m = there
        BY <4>1 DEF Calm
      <4>4. QED
        BY <4>1, <4>2, <4>3
    <3>3. QED
      BY <3>1, <3>2
  <2>10. m \in 0..n /\ (windows # <<>> => m <= SatSub(TopLen, o))
    BY <1>1, <2>1, <2>6, <2>7, <2>9
  <2>11. QED
    BY <2>6, <2>8, <2>9, <2>10 DEF most
<1>4. QED
  BY <1>2, <1>3

-----------------------------------------------------------------------------
(***************************************************************************)
(* The invariant is inductive                                              *)
(***************************************************************************)

LEMMA SameStack ==
  ASSUME windows' = windows, len' = len
  PROVE  TopLen' = TopLen /\ TopOffset' = TopOffset
<1>1. TopLen' = TopLen
  BY DEF TopLen
<1>2. Offset' = Offset
  BY DEF Offset
<1>3. QED
  BY <1>1, <1>2 DEF TopOffset

LEMMA OffsetType == ASSUME Typed PROVE TopOffset \in Nat
<1>1. Len(windows) \in 0..Len(windows)
  BY TopType
<1>2. QED
  BY <1>1, OffsetIs DEF TopOffset

LEMMA InitIInv == Init => IInv
<1> SUFFICES ASSUME Init PROVE IInv
  OBVIOUS
<1>1. /\ size \in U /\ len = size /\ size \in Sizes /\ 0 \in U /\ <<>> \in Seq(Nat) /\ <<>> \in Seq(SubRange)
      /\ windows = <<>> /\ ~Opened /\ from = 0 /\ copied = <<>> /\ ~ended
      /\ exact.outcome = "none" /\ sniff.stage = "none" /\ Nothing \in Request
  BY Constants DEF Init, U, Opened, Unopened, NoSniff, Nothing, Request
<1>2. Typed
  BY <1>1 DEF Init, Typed, NoSniff, Nothing, Request
<1>3. WindowsNest
  BY <1>1 DEF WindowsNest
<1>4. QED
  BY <1>1, <1>2, <1>3 DEF IInv, CalmKept, Fresh, CursorNests, CopyFaithful, CopyComplete,
                          ExactAll, RangeErrorsTrue, SniffOK

\* The file changes under the sources.
LEMMA ChangeIInv == IInv /\ Change => IInv'
<1> SUFFICES ASSUME IInv, Change PROVE IInv'
  OBVIOUS
<1>1. /\ ~Calm /\ ~Calm' /\ size' \in Sizes /\ len' = len /\ windows' = windows /\ cur' = cur
      /\ faults' = faults /\ from' = from /\ copied' = copied /\ ended' = ended
      /\ exact' = exact /\ sniff' = sniff
  BY DEF Change, Calm
<1>2. TopLen' = TopLen /\ TopOffset' = TopOffset
  BY <1>1, SameStack
<1>3. Typed' /\ Fresh'
  BY <1>1 DEF IInv, Typed, Fresh, Opened
<1>4. WindowsNest'
  BY <1>1 DEF IInv, WindowsNest
<1>5. CursorNests' /\ CopyFaithful' /\ ExactAll'
  BY <1>1, <1>2 DEF IInv, CursorNests, Opened, CopyFaithful, ExactAll
<1>6. CalmKept' /\ CopyComplete' /\ RangeErrorsTrue'
  BY <1>1 DEF CalmKept, CopyComplete, RangeErrorsTrue
<1>7. SniffOK'
  BY <1>1, <1>2 DEF IInv, SniffOK
<1>8. QED
  BY <1>3, <1>4, <1>5, <1>6, <1>7 DEF IInv

\* A new window lies inside the one it is made over, and nobody reads yet.
LEMMA NarrowIInv == IInv /\ Narrow => IInv'
<1> SUFFICES ASSUME IInv, Narrow PROVE IInv'
  OBVIOUS
<1>1. /\ Unused /\ size' = size /\ len' = len /\ cur' = cur /\ faults' = faults
      /\ from' = from /\ copied' = copied /\ ended' = ended /\ exact' = exact /\ sniff' = sniff
  BY DEF Narrow
<1>2. PICK base \in Bounds, n \in Bounds :
        windows' = Append(windows, [base |-> base, len |-> Clamped(base, n)])
  BY DEF Narrow
<1> DEFINE L == Len(windows)
           w == [base |-> base, len |-> Clamped(base, n)]
<1>3. /\ base \in U /\ Clamped(base, n) \in U
      /\ (Clamped(base, n) > 0 => base + Clamped(base, n) <= TopLen)
  BY Constants, ClampedIn DEF IInv
<1>4. w \in SubRange
  BY <1>3 DEF SubRange
<1>5. windows \in Seq(SubRange) /\ L \in Nat
  BY DEF IInv, Typed
<1>6. /\ windows' \in Seq(SubRange) /\ Len(windows') = L + 1 /\ DOMAIN windows' = 1..(L + 1)
      /\ windows'[L + 1] = w /\ \A k \in 1..L : windows'[k] = windows[k]
  <2> HIDE DEF w
  <2>1. windows' = Append(windows, w)
    BY <1>2 DEF w
  <2>2. QED
    BY <1>4, <1>5, <2>1
<1>7. WindowsNest'
  <2>1. SUFFICES ASSUME NEW k \in 1..(L + 1), windows'[k].len > 0
                 PROVE  windows'[k].base + windows'[k].len
                          <= IF k = 1 THEN len ELSE windows'[k - 1].len
    BY <1>1, <1>6 DEF WindowsNest
  <2>2. CASE k = L + 1
    <3>1. windows'[k].base = base /\ windows'[k].len = Clamped(base, n)
      BY <1>6, <2>2
    <3>2. TopLen = IF k = 1 THEN len ELSE windows'[k - 1].len
      <4>1. windows = <<>> <=> L = 0
        BY <1>5
      <4>2. L # 0 => k - 1 = L /\ L \in 1..L
        BY <1>5, <2>2
      <4>3. QED
        BY <1>5, <1>6, <2>2, <4>1, <4>2 DEF TopLen
    <3>3. QED
      BY <1>3, <2>1, <3>1, <3>2
  <2>3. CASE k # L + 1
    <3>1. k \in 1..L /\ (k # 1 => k - 1 \in 1..L)
      BY <1>5, <2>3
    <3>2. windows[k].base + windows[k].len <= IF k = 1 THEN len ELSE windows[k - 1].len
      <4>1. windows'[k] = windows[k] /\ k \in DOMAIN windows
        BY <1>5, <1>6, <3>1
      <4>2. QED
        BY <2>1, <4>1 DEF IInv, WindowsNest
    <3>3. QED
      BY <1>6, <3>1, <3>2
  <2>4. QED
    BY <2>2, <2>3
<1>8. Typed'
  BY <1>1, <1>6 DEF IInv, Typed
<1>9. ~Opened' /\ exact'.outcome = "none" /\ sniff'.stage = "none"
  BY <1>1 DEF Unused, Opened
<1>10. CalmKept' /\ Fresh'
  BY <1>1 DEF IInv, CalmKept, Calm, Fresh, Opened
<1>11. QED
  BY <1>7, <1>8, <1>9, <1>10 DEF IInv, CursorNests, CopyFaithful, CopyComplete, ExactAll,
                                  RangeErrorsTrue, SniffOK

\* A new cursor lies inside the innermost window and has read nothing.
LEMMA OpenIInv == IInv /\ Open => IInv'
<1> SUFFICES ASSUME IInv, Open PROVE IInv'
  OBVIOUS
<1>1. /\ Unused /\ size' = size /\ len' = len /\ windows' = windows /\ faults' = faults
      /\ from' = from /\ copied' = copied /\ ended' = ended /\ exact' = exact /\ sniff' = sniff
  BY DEF Open
<1>2. PICK base \in Bounds, n \in Bounds : cur' = [base |-> base, len |-> Clamped(base, n), pos |-> 0]
  BY DEF Open
<1>3. /\ base \in U /\ Clamped(base, n) \in U
      /\ (Clamped(base, n) > 0 => base + Clamped(base, n) <= TopLen)
  BY Constants, ClampedIn DEF IInv
<1>4. TopLen' = TopLen /\ TopOffset' = TopOffset
  BY <1>1, SameStack
<1>5. from = 0 /\ copied = <<>> /\ ~ended
  BY <1>1 DEF IInv, Fresh, Unused
<1>6. Typed'
  <2>1. 0 \in U
    BY Constants DEF U
  <2>2. QED
    BY <1>1, <1>2, <1>3, <2>1 DEF IInv, Typed
<1>7. Opened' /\ CursorNests'
  BY <1>2, <1>3, <1>4 DEF Opened, CursorNests
<1>8. CopyFaithful'
  <2>1. TopOffset \in Nat /\ TopOffset + base + 0 \in Nat
    BY <1>3, Constants, OffsetType DEF IInv, U
  <2>2. Bytes(TopOffset + base + 0, 0) = <<>>
    BY <2>1, BytesEmpty
  <2>3. QED
    BY <1>1, <1>2, <1>4, <1>5, <2>2 DEF CopyFaithful
<1>9. WindowsNest' /\ CalmKept' /\ Fresh' /\ CopyComplete'
  BY <1>1, <1>5, <1>7 DEF IInv, WindowsNest, CalmKept, Calm, Fresh, CopyComplete
<1>10. ExactAll' /\ RangeErrorsTrue' /\ SniffOK'
  BY <1>1 DEF Unused, ExactAll, RangeErrorsTrue, SniffOK
<1>11. QED
  BY <1>6, <1>7, <1>8, <1>9, <1>10 DEF IInv

\* A seek starts a new copy at the position its user means: what was read since
\* the last seek has moved the cursor by just that much.
LEMMA SeekIInv == IInv /\ Seek => IInv'
<1> SUFFICES ASSUME IInv, Seek PROVE IInv'
  OBVIOUS
<1>1. /\ Opened /\ size' = size /\ len' = len /\ windows' = windows /\ faults' = faults
      /\ copied' = <<>> /\ ended' = FALSE /\ exact' = exact /\ sniff' = sniff
  BY DEF Seek
<1>2. PICK s \in SeekFrom : /\ Target(s) >= 0 /\ cur' = [cur EXCEPT !.pos = Sought(Target(s))]
                            /\ from' = Lesser(Meant(s), MaxU)
  BY DEF Seek
<1> DEFINE target == Target(s)
<1>3. cur \in [base : U, len : U, pos : U]
  BY <1>1 DEF IInv, Typed, Opened, Unopened
<1>4. Meant(s) = target
  <2>1. cur.pos = from + Len(copied)
    BY <1>1 DEF IInv, CopyFaithful
  <2>2. QED
    BY <2>1 DEF Meant, Target
<1>5. target \in Int
  <2>1. cur.len \in Int /\ cur.pos \in Int
    BY <1>3, Constants DEF U
  <2>2. CASE s.whence = "start" /\ s.o \in Bounds
    <3>1. target = s.o
      BY <2>2 DEF Target
    <3>2. s.o \in Int
      <4>1. s.o \in U
        BY <2>2, Constants
      <4>2. QED
        BY <4>1, Constants DEF U
    <3>3. QED
      BY <3>1, <3>2
  <2>3. CASE s.whence \in {"end", "current"} /\ s.o \in Steps
    <3>1. target = cur.len + s.o \/ target = cur.pos + s.o
      BY <2>3 DEF Target
    <3>2. s.o \in Int
      BY <2>3, Constants
    <3>3. QED
      BY <2>1, <3>1, <3>2
  <2>4. QED
    BY <1>2, <2>2, <2>3 DEF SeekFrom
<1>6. Sought(target) \in U /\ target >= 0
  BY <1>2, <1>5, Constants DEF Sought, Lesser, U
<1>7. from' = Sought(target)
  BY <1>2, <1>4 DEF Sought
<1> HIDE DEF target
<1>8. /\ cur' = [base |-> cur.base, len |-> cur.len, pos |-> Sought(target)] /\ Opened'
      /\ from' = cur'.pos
  <2>1. cur' = [cur EXCEPT !.pos = Sought(target)]
    BY <1>2 DEF target
  <2>2. QED
    BY <1>3, <1>6, <1>7, <2>1, Constants DEF Opened, U
<1>9. TopLen' = TopLen /\ TopOffset' = TopOffset
  BY <1>1, SameStack
<1>10. Typed'
  <2>1. cur' \in [base : U, len : U, pos : U] /\ from' \in U
    BY <1>3, <1>6, <1>8
  <2>2. copied' \in Seq(Nat)
    <3>1. <<>> \in Seq(Nat)
      OBVIOUS
    <3>2. QED
      BY <1>1, <3>1
  <2>3. ended' \in BOOLEAN
    BY <1>1
  <2>4. QED
    BY <1>1, <2>1, <2>2, <2>3 DEF IInv, Typed
<1>11. CopyFaithful'
  <2>1. TopOffset + cur.base + Sought(target) \in Nat /\ Sought(target) \in Nat
    BY <1>3, <1>6, Constants, OffsetType DEF IInv, U
  <2>2. Bytes(TopOffset + cur.base + Sought(target), 0) = <<>>
    BY <2>1, BytesEmpty
  <2>3. QED
    BY <1>1, <1>8, <1>9, <2>1, <2>2 DEF CopyFaithful
<1>12. CursorNests'
  BY <1>1, <1>8, <1>9 DEF IInv, CursorNests
<1>13. WindowsNest' /\ CalmKept' /\ Fresh' /\ CopyComplete'
  BY <1>1, <1>8 DEF IInv, WindowsNest, CalmKept, Calm, Fresh, CopyComplete
<1>14. ExactAll' /\ RangeErrorsTrue' /\ SniffOK'
  BY <1>1, <1>9 DEF IInv, ExactAll, RangeErrorsTrue, SniffOK, Calm, TailStart
<1>15. QED
  BY <1>8, <1>10, <1>11, <1>12, <1>13, <1>14 DEF IInv

\* A read appends what it was given, right behind what it had.
LEMMA ReadIInv == IInv /\ Read => IInv'
<1> SUFFICES ASSUME IInv, Read PROVE IInv'
  OBVIOUS
<1>1. /\ Opened /\ ~ended /\ size' = size /\ len' = len /\ windows' = windows /\ faults' = faults
      /\ from' = from /\ exact' = exact /\ sniff' = sniff
  BY DEF Read
<1>2. cur \in [base : U, len : U, pos : U]
  BY <1>1 DEF IInv, Typed, Opened, Unopened
<1>3. TopLen' = TopLen /\ TopOffset' = TopOffset
  BY <1>1, SameStack
<1>4. WindowsNest' /\ CalmKept'
  BY <1>1 DEF IInv, WindowsNest, CalmKept, Calm
<1>5. ExactAll' /\ RangeErrorsTrue' /\ SniffOK'
  BY <1>1, <1>3 DEF IInv, ExactAll, RangeErrorsTrue, SniffOK, Calm, TailStart
<1>6. /\ cur.base \in Nat /\ cur.len \in Nat /\ cur.pos \in Nat /\ from \in Nat /\ MaxU \in Nat
      /\ cur.base <= MaxU /\ cur.len <= MaxU /\ cur.pos <= MaxU
      /\ TopOffset \in Nat /\ TopLen \in Nat /\ TopLen <= MaxU
  BY <1>2, Constants, OffsetType, TopType DEF IInv, Typed, U
<1>7. /\ cur.pos = from + Len(copied) /\ copied = Bytes(TopOffset + cur.base + from, Len(copied))
      /\ copied \in Seq(Nat) /\ Len(copied) \in Nat
  BY <1>1 DEF IInv, CopyFaithful, Typed
<1>8. CASE cur.pos >= cur.len
  <2>1. ended' = TRUE /\ cur' = cur /\ copied' = copied
    BY <1>8 DEF Read
  <2>2. Typed' /\ Fresh' /\ CursorNests' /\ CopyFaithful'
    BY <1>1, <1>3, <2>1 DEF IInv, Typed, Fresh, Opened, CursorNests, CopyFaithful
  <2>3. CopyComplete'
    BY <1>1, <1>6, <1>7, <1>8, <2>1 DEF CopyComplete
  <2>4. QED
    BY <1>4, <1>5, <2>2, <2>3 DEF IInv
<1>9. CASE ~(cur.pos >= cur.len)
  <2>1. PICK n \in Lengths :
          \E a \in ReadAt([offset |-> SatAdd(cur.base, cur.pos), n |-> Lesser(n, cur.len - cur.pos)]) :
            /\ cur' = [cur EXCEPT !.pos = SatAdd(cur.pos, Len(a.bytes))]
            /\ copied' = copied \o a.bytes
            /\ ended' = (a = Ok(<<>>))
    BY <1>9 DEF Read, Advanced
  <2> DEFINE want == Lesser(n, cur.len - cur.pos)
             o == SatAdd(cur.base, cur.pos)
  <2>2. PICK a \in ReadAt([offset |-> o, n |-> want]) :
            /\ cur' = [cur EXCEPT !.pos = SatAdd(cur.pos, Len(a.bytes))]
            /\ copied' = copied \o a.bytes
            /\ ended' = (a = Ok(<<>>))
    BY <2>1
  <2>3. want \in Nat \ {0} /\ cur.pos + want <= cur.len
    BY <1>6, <1>9, Constants DEF Lesser
  <2>4. cur.base + cur.len <= TopLen
    BY <1>1, <1>6, <1>9 DEF IInv, CursorNests
  <2>5. o = cur.base + cur.pos /\ o \in U /\ o + want <= TopLen /\ o < TopLen
    BY <1>6, <1>9, <2>3, <2>4 DEF SatAdd, Lesser, U
  <2> HIDE DEF want, o
  <2>6. PICK m \in 0..want :
          /\ a.bytes = Bytes(TopOffset + o, m) /\ Len(a.bytes) = m /\ a.bytes \in Seq(Nat)
          /\ (Calm /\ a = Ok(<<>>) => FALSE)
    <3>1. CASE a = Err
      <4>1. a.bytes = <<>> /\ a # Ok(<<>>)
        BY <3>1 DEF Err, Ok
      <4>2. Bytes(TopOffset + o, 0) = <<>>
        BY <1>6, <2>5, BytesEmpty
      <4>3. QED
        BY <2>3, <4>1, <4>2
    <3>2. CASE a # Err
      <4>1. PICK m \in 0..want :
              /\ a = Ok(Bytes(TopOffset + o, m))
              /\ Calm /\ size = len => m = Lesser(want, SatSub(TopLen, o))
        BY <2>2, <2>3, <2>5, <3>2, AnswerIs DEF IInv
      <4>2. TopOffset + o \in Nat /\ m \in Nat
        BY <1>6, <2>3, <2>5
      <4>3. Len(Bytes(TopOffset + o, m)) = m /\ Bytes(TopOffset + o, m) \in Seq(Nat)
        BY <4>2, BytesType
      <4>4. Lesser(want, SatSub(TopLen, o)) > 0
        BY <1>6, <2>3, <2>5 DEF Lesser, SatSub
      <4>5. Calm => size = len
        BY DEF IInv, CalmKept
      <4>6. a = Ok(<<>>) => m = 0
        <5>1. a.bytes = Bytes(TopOffset + o, m) /\ (a = Ok(<<>>) => a.bytes = <<>>)
          BY <4>1 DEF Ok
        <5>2. QED
          BY <4>3, <5>1
      <4>7. QED
        BY <4>1, <4>3, <4>4, <4>5, <4>6 DEF Ok
    <3>3. QED
      BY <3>1, <3>2
  <2>7. SatAdd(cur.pos, m) = cur.pos + m /\ cur.pos + m \in U
    BY <1>6, <2>3 DEF SatAdd, Lesser, U
  <2>8. cur' = [base |-> cur.base, len |-> cur.len, pos |-> cur.pos + m]
    BY <1>2, <2>2, <2>6, <2>7
  <2>9. Opened'
    BY <1>6, <2>8 DEF Opened
  <2>10. Typed'
    <3>1. cur' \in [base : U, len : U, pos : U]
      BY <1>2, <2>7, <2>8
    <3>2. copied' \in Seq(Nat)
      BY <1>7, <2>2, <2>6
    <3>3. ended' \in BOOLEAN
      BY <2>2
    <3>4. QED
      BY <1>1, <3>1, <3>2, <3>3 DEF IInv, Typed
  <2>11. CopyFaithful'
    <3> DEFINE b == TopOffset + cur.base + from
               k == Len(copied)
    <3>1. b \in Nat /\ k \in Nat /\ m \in Nat /\ TopOffset + o = b + k
      BY SMTT(40), <1>6, <1>7, <2>3, <2>5
    <3>2. Bytes(b, k) \o Bytes(b + k, m) = Bytes(b, k + m)
      BY <3>1, BytesAppend
    <3>3. Len(Bytes(b, k + m)) = k + m
      <4> HIDE DEF b, k
      <4>1. k + m \in Nat
        BY <3>1
      <4>2. QED
        BY <3>1, <4>1, BytesType
    <3>4. copied' = Bytes(b, k + m) /\ Len(copied') = k + m
      BY <1>7, <2>2, <2>6, <3>1, <3>2, <3>3
    <3>5. cur.pos + m = from + (k + m)
      BY <1>6, <1>7, <3>1
    <3>6. QED
      BY <1>1, <1>3, <2>8, <3>4, <3>5 DEF CopyFaithful
  <2>12. CursorNests'
    BY <1>3, <2>4, <2>8 DEF CursorNests
  <2>13. CopyComplete'
    BY <1>1, <2>2, <2>6 DEF CopyComplete, Calm
  <2>14. Fresh'
    BY <2>9 DEF Fresh
  <2>15. QED
    BY <1>4, <1>5, <2>10, <2>11, <2>12, <2>13, <2>14 DEF IInv
<1>10. QED
  BY <1>8, <1>9

\* A read_exact_at ends with all the bytes it was asked for, or says why not.
LEMMA ReadExactAtIInv == IInv /\ ReadExactAt => IInv'
<1> SUFFICES ASSUME IInv, ReadExactAt PROVE IInv'
  OBVIOUS
<1>1. /\ size' = size /\ len' = len /\ windows' = windows /\ faults' = faults /\ cur' = cur
      /\ from' = from /\ copied' = copied /\ ended' = ended /\ sniff' = sniff
  BY DEF ReadExactAt
<1>2. PICK o \in Bounds, n \in Lengths :
        \E a \in ReadAt([offset |-> o, n |-> n]) :
          exact' = [outcome |-> IF a.kind = "err" THEN "io"
                                ELSE IF Len(a.bytes) = n THEN "ok" ELSE "range",
                    asked |-> [offset |-> o, n |-> n], bytes |-> a.bytes]
  BY DEF ReadExactAt, Enough
<1>3. PICK a \in ReadAt([offset |-> o, n |-> n]) :
        exact' = [outcome |-> IF a.kind = "err" THEN "io"
                              ELSE IF Len(a.bytes) = n THEN "ok" ELSE "range",
                  asked |-> [offset |-> o, n |-> n], bytes |-> a.bytes]
  BY <1>2
<1>4. TopLen' = TopLen /\ TopOffset' = TopOffset
  BY <1>1, SameStack
<1>5. o \in U /\ o \in Nat /\ n \in Nat \ {0} /\ TopOffset \in Nat /\ TopLen \in Nat
  BY Constants, TopType, OffsetType DEF IInv, U
<1>6. WindowsNest' /\ CalmKept' /\ CursorNests' /\ CopyFaithful' /\ CopyComplete' /\ Fresh'
  BY <1>1, <1>4 DEF IInv, WindowsNest, CalmKept, Calm, CursorNests, Opened, CopyFaithful,
                    CopyComplete, Fresh
<1>7. SniffOK'
  BY <1>1, <1>4 DEF IInv, SniffOK, Calm, TailStart
<1>8. a.bytes \in Seq(Nat) /\ ExactAll' /\ RangeErrorsTrue'
  <2>1. CASE a = Err
    <3>1. a.bytes = <<>> /\ exact'.outcome = "io"
      BY <1>3, <2>1 DEF Err
    <3>2. <<>> \in Seq(Nat)
      OBVIOUS
    <3>3. QED
      BY <3>1, <3>2 DEF ExactAll, RangeErrorsTrue
  <2>2. CASE a # Err
    <3>1. PICK m \in 0..n :
            /\ a = Ok(Bytes(TopOffset + o, m))
            /\ Calm /\ size = len => m = Lesser(n, SatSub(TopLen, o))
      BY <1>3, <1>5, <2>2, AnswerIs DEF IInv
    <3>2. TopOffset + o \in Nat /\ m \in Nat
      BY <1>5
    <3>3. Len(Bytes(TopOffset + o, m)) = m /\ Bytes(TopOffset + o, m) \in Seq(Nat)
      BY <3>2, BytesType
    <3>4. a.bytes = Bytes(TopOffset + o, m) /\ a.kind = "ok"
      BY <3>1 DEF Ok
    <3>5. /\ exact'.outcome = IF m = n THEN "ok" ELSE "range"
          /\ exact'.asked.offset = o /\ exact'.asked.n = n /\ exact'.bytes = Bytes(TopOffset + o, m)
      BY <1>3, <3>3, <3>4
    <3>6. ExactAll'
      BY <1>4, <3>5 DEF ExactAll
    <3>7. RangeErrorsTrue'
      <4>1. SUFFICES ASSUME Calm, m # n PROVE o + n > TopLen
        BY <1>1, <1>4, <3>5 DEF RangeErrorsTrue, Calm
      <4>2. m = Lesser(n, SatSub(TopLen, o))
        BY <3>1, <4>1 DEF IInv, CalmKept
      <4>3. QED
        BY <1>5, <4>1, <4>2 DEF Lesser, SatSub
    <3>8. QED
      BY <3>3, <3>4, <3>6, <3>7
  <2>3. QED
    BY <2>1, <2>2
<1>9. Typed'
  <2>1. [offset |-> o, n |-> n] \in Request
    BY <1>5 DEF Request
  <2>2. exact' \in [outcome : {"none", "ok", "range", "io"}, asked : Request, bytes : Seq(Nat)]
    BY <1>3, <1>8, <2>1
  <2>3. QED
    BY <1>1, <2>2 DEF IInv, Typed
<1>10. QED
  BY <1>6, <1>7, <1>8, <1>9 DEF IInv

\* The head is what the source has at its beginning.
LEMMA SniffHeadIInv == IInv /\ SniffHead => IInv'
<1> SUFFICES ASSUME IInv, SniffHead PROVE IInv'
  OBVIOUS
<1>1. /\ size' = size /\ len' = len /\ windows' = windows /\ faults' = faults /\ cur' = cur
      /\ from' = from /\ copied' = copied /\ ended' = ended /\ exact' = exact
  BY DEF SniffHead
<1>2. TopLen' = TopLen /\ TopOffset' = TopOffset
  BY <1>1, SameStack
<1>3. WindowsNest' /\ CalmKept' /\ CursorNests' /\ CopyFaithful' /\ CopyComplete' /\ Fresh'
  BY <1>1, <1>2 DEF IInv, WindowsNest, CalmKept, Calm, CursorNests, Opened, CopyFaithful,
                    CopyComplete, Fresh
<1>4. ExactAll' /\ RangeErrorsTrue'
  BY <1>1, <1>2 DEF IInv, ExactAll, RangeErrorsTrue, Calm
<1> DEFINE cap == IF TopLen < 1 THEN 1 ELSE Lesser(TopLen, SniffCap)
<1>5. PICK a \in ReadAt([offset |-> 0, n |-> cap]) :
        sniff' = IF a = Err THEN NoSniff
                 ELSE [NoSniff EXCEPT !.stage = "head", !.total = TopLen, !.head = a.bytes]
  BY DEF SniffHead, HeadBuffer
<1>6. TopLen \in U /\ TopLen \in Nat /\ TopOffset \in Nat /\ 0 \in U /\ cap \in Nat
  BY Constants, TopType, OffsetType DEF IInv, U, Lesser
<1> HIDE DEF cap
<1>7. CASE a = Err
  <2>1. sniff' = NoSniff
    BY <1>5, <1>7
  <2>2. <<>> \in Seq(Nat)
    OBVIOUS
  <2>3. NoSniff \in [stage : {"none", "head", "both"}, total : U, head : Seq(Nat), tail : Seq(Nat)]
    BY <1>6, <2>2 DEF NoSniff
  <2>4. Typed'
    BY <1>1, <2>1, <2>3 DEF IInv, Typed
  <2>5. SniffOK'
    BY <2>1 DEF SniffOK, NoSniff
  <2>6. QED
    BY <1>3, <1>4, <2>4, <2>5 DEF IInv
<1>8. CASE a # Err
  <2>1. PICK m \in 0..cap : a = Ok(Bytes(TopOffset + 0, m))
    BY <1>5, <1>6, <1>8, AnswerIs DEF IInv
  <2>2. TopOffset + 0 = TopOffset /\ m \in Nat
    BY <1>6
  <2>3. Len(Bytes(TopOffset, m)) = m /\ Bytes(TopOffset, m) \in Seq(Nat)
    BY <1>6, <2>2, BytesType
  <2>4. a.bytes = Bytes(TopOffset, m)
    BY <2>1, <2>2 DEF Ok
  <2>5. sniff' = [stage |-> "head", total |-> TopLen, head |-> Bytes(TopOffset, m), tail |-> <<>>]
    BY <1>5, <1>8, <2>4 DEF NoSniff
  <2>6. <<>> \in Seq(Nat)
    OBVIOUS
  <2>7. sniff' \in [stage : {"none", "head", "both"}, total : U, head : Seq(Nat), tail : Seq(Nat)]
    BY <1>6, <2>3, <2>5, <2>6
  <2>8. Typed'
    BY <1>1, <2>7 DEF IInv, Typed
  <2>9. SniffOK'
    BY <1>2, <2>3, <2>5 DEF SniffOK
  <2>10. QED
    BY <1>3, <1>4, <2>8, <2>9 DEF IInv
<1>9. QED
  BY <1>7, <1>8

\* Over a calm file the tail is what the source has at its end.
LEMMA SniffTailIInv == IInv /\ SniffTail => IInv'
<1> SUFFICES ASSUME IInv, SniffTail PROVE IInv'
  OBVIOUS
<1>1. /\ size' = size /\ len' = len /\ windows' = windows /\ faults' = faults /\ cur' = cur
      /\ from' = from /\ copied' = copied /\ ended' = ended /\ exact' = exact
      /\ sniff.stage = "head"
  BY DEF SniffTail
<1>2. TopLen' = TopLen /\ TopOffset' = TopOffset
  BY <1>1, SameStack
<1>3. WindowsNest' /\ CalmKept' /\ CursorNests' /\ CopyFaithful' /\ CopyComplete' /\ Fresh'
  BY <1>1, <1>2 DEF IInv, WindowsNest, CalmKept, Calm, CursorNests, Opened, CopyFaithful,
                    CopyComplete, Fresh
<1>4. ExactAll' /\ RangeErrorsTrue'
  BY <1>1, <1>2 DEF IInv, ExactAll, RangeErrorsTrue, Calm
<1> DEFINE T == [stage : {"none", "head", "both"}, total : U, head : Seq(Nat), tail : Seq(Nat)]
           k == Lesser(sniff.total, TailCap)
<1>5. sniff \in T /\ sniff.total = TopLen /\ sniff.head = Bytes(TopOffset, Len(sniff.head))
  BY <1>1 DEF IInv, Typed, SniffOK
<1>6. TopLen \in U /\ TopLen \in Nat /\ TopOffset \in Nat /\ MaxU \in Nat /\ 0 \in U /\ TailCap \in Nat
  BY Constants, TopType, OffsetType DEF IInv, U
<1>7. k \in Nat /\ k <= TopLen /\ TailStart = TopLen - k /\ TailStart \in U
  BY <1>5, <1>6 DEF TailStart, Lesser, U
<1>8. PICK a \in ReadAt([offset |-> TailStart, n |-> k]) :
        sniff' = IF a = Err THEN NoSniff ELSE [sniff EXCEPT !.stage = "both", !.tail = a.bytes]
  BY DEF SniffTail
<1> HIDE DEF k
<1>9. CASE a = Err
  <2>1. sniff' = NoSniff
    BY <1>8, <1>9
  <2>2. <<>> \in Seq(Nat)
    OBVIOUS
  <2>3. NoSniff \in T
    BY <1>6, <2>2 DEF NoSniff
  <2>4. Typed'
    BY <1>1, <2>1, <2>3 DEF IInv, Typed
  <2>5. SniffOK'
    BY <2>1 DEF SniffOK, NoSniff
  <2>6. QED
    BY <1>3, <1>4, <2>4, <2>5 DEF IInv
<1>10. CASE a # Err
  <2>1. PICK m \in 0..k :
          /\ a = Ok(Bytes(TopOffset + TailStart, m))
          /\ Calm /\ size = len => m = Lesser(k, SatSub(TopLen, TailStart))
    BY <1>7, <1>8, <1>10, AnswerIs DEF IInv
  <2>2. TopOffset + TailStart \in Nat /\ m \in Nat
    BY <1>6, <1>7
  <2>3. Bytes(TopOffset + TailStart, m) \in Seq(Nat)
    BY <2>2, BytesType
  <2>4. a.bytes = Bytes(TopOffset + TailStart, m)
    BY <2>1 DEF Ok
  <2>5. sniff' = [stage |-> "both", total |-> TopLen, head |-> sniff.head,
                  tail |-> Bytes(TopOffset + TailStart, m)]
    BY <1>5, <1>8, <1>10, <2>4
  <2>6. sniff' \in T
    BY <1>5, <1>6, <2>3, <2>5
  <2>7. Typed'
    BY <1>1, <2>6 DEF IInv, Typed
  <2>8. TailStart' = TailStart /\ Lesser(sniff'.total, TailCap) = k
    BY <1>5, <2>5 DEF TailStart, k
  <2>9. Calm => m = k
    <3>1. SatSub(TopLen, TailStart) = k
      BY <1>6, <1>7 DEF SatSub
    <3>2. QED
      BY <1>7, <2>1, <3>1 DEF IInv, CalmKept, Lesser
  <2>10. SniffOK'
    BY <1>1, <1>2, <1>5, <2>5, <2>8, <2>9 DEF SniffOK, Calm
  <2>11. QED
    BY <1>3, <1>4, <2>7, <2>10 DEF IInv
<1>11. QED
  BY <1>9, <1>10

LEMMA NextIInv == IInv /\ [Next]_vars => IInv'
<1> SUFFICES ASSUME IInv, [Next]_vars PROVE IInv'
  OBVIOUS
<1>1. CASE UNCHANGED vars
  <2>1. /\ size' = size /\ len' = len /\ windows' = windows /\ faults' = faults /\ cur' = cur
        /\ from' = from /\ copied' = copied /\ ended' = ended /\ exact' = exact /\ sniff' = sniff
    BY <1>1 DEF vars
  <2>2. TopLen' = TopLen /\ TopOffset' = TopOffset
    BY <2>1, SameStack
  <2>3. Typed' /\ WindowsNest' /\ CalmKept' /\ CursorNests' /\ CopyFaithful' /\ CopyComplete' /\ Fresh'
    BY <2>1, <2>2 DEF IInv, Typed, WindowsNest, CalmKept, Calm, CursorNests, Opened, CopyFaithful,
                      CopyComplete, Fresh
  <2>4. ExactAll' /\ RangeErrorsTrue' /\ SniffOK'
    BY <2>1, <2>2 DEF IInv, ExactAll, RangeErrorsTrue, SniffOK, Calm, TailStart
  <2>5. QED
    BY <2>3, <2>4 DEF IInv
<1>2. CASE Next
  BY <1>2, ChangeIInv, NarrowIInv, OpenIInv, ReadIInv, SeekIInv, ReadExactAtIInv, SniffHeadIInv,
     SniffTailIInv DEF Next
<1>3. QED
  BY <1>1, <1>2

-----------------------------------------------------------------------------
(***************************************************************************)
(* What the invariant says of the answers and the buffers                  *)
(***************************************************************************)

\* An answer lies in every window.
LEMMA AnswersInside == IInv => NoEscape
<1> SUFFICES ASSUME IInv, NEW o \in Bounds, NEW n \in Lengths,
                    NEW a \in ReadAt([offset |-> o, n |-> n]), NEW i \in DOMAIN a.bytes
             PROVE  /\ a.bytes[i] = TopOffset + o + i - 1
                    /\ \A k \in DOMAIN windows : a.bytes[i] \in Offset[k]..(Offset[k] + windows[k].len - 1)
  BY DEF NoEscape
<1>1. /\ o \in U /\ o \in Nat /\ n \in Nat \ {0} /\ TopOffset \in Nat /\ TopLen \in Nat
      /\ Typed /\ WindowsNest
  BY Constants, TopType, OffsetType DEF IInv, U
<1>2. a # Err
  BY DEF Err
<1>3. PICK m \in 0..n : /\ a = Ok(Bytes(TopOffset + o, m))
                        /\ windows # <<>> => m <= SatSub(TopLen, o)
  BY <1>1, <1>2, AnswerIs
<1>4. /\ Len(Bytes(TopOffset + o, m)) = m /\ Bytes(TopOffset + o, m) \in Seq(Nat)
      /\ \A j \in 1..m : Bytes(TopOffset + o, m)[j] = (TopOffset + o) + j - 1
  <2>1. TopOffset + o \in Nat /\ m \in Nat
    BY <1>1
  <2>2. QED
    BY <2>1, BytesType
<1>5. i \in 1..m /\ a.bytes[i] = TopOffset + o + i - 1
  <2>1. a.bytes = Bytes(TopOffset + o, m)
    BY <1>3 DEF Ok
  <2>2. QED
    BY <1>4, <2>1
<1>6. ASSUME NEW k \in DOMAIN windows
      PROVE  a.bytes[i] \in Offset[k]..(Offset[k] + windows[k].len - 1)
  <2>1. windows # <<>> /\ k \in 1..Len(windows) /\ k \in 0..Len(windows)
    BY <1>1 DEF Typed
  <2>2. o < TopLen /\ m <= TopLen - o
    <3>1. m <= SatSub(TopLen, o) /\ m \in Nat /\ m >= 1
      BY <1>1, <1>3, <1>5, <2>1
    <3>2. QED
      BY <1>1, <3>1 DEF SatSub
  <2> DEFINE most == Lesser(n, TopLen - o)
  <2>3. most \in Nat /\ m <= most
    BY <1>1, <1>3, <2>2 DEF Lesser
  <2>4. Offset[k] <= TopOffset + o /\ TopOffset + o + most <= Offset[k] + windows[k].len
    BY <1>1, <2>2, TranslatedInside
  <2> HIDE DEF most
  <2>5. Offset[k] \in Nat /\ windows[k].len \in Nat
    BY <1>1, <2>1, OffsetIs, WindowType, Constants DEF U
  <2>6. QED
    BY <1>1, <1>5, <2>3, <2>4, <2>5
<1>7. QED
  BY <1>5, <1>6

\* A range of the head is that range of the source.
LEMMA HeadRanges == IInv => HeadTrue
<1> SUFFICES ASSUME IInv, sniff.stage # "none", NEW off \in 0..SniffCap, NEW n \in 0..SniffCap,
                    off + n <= Len(sniff.head)
             PROVE  SubSeq(sniff.head, off + 1, off + n) = Bytes(TopOffset + off, n)
  BY DEF HeadTrue, HeadAt
<1>1. off \in Nat /\ n \in Nat /\ TopOffset \in Nat /\ Len(sniff.head) \in Nat
  BY Constants, OffsetType DEF IInv, Typed
<1>2. sniff.head = Bytes(TopOffset, Len(sniff.head))
  BY DEF IInv, SniffOK
<1>3. \A o, m, i, j \in Nat :
        i + j <= m => SubSeq(Bytes(o, m), i + 1, i + j) = Bytes(o + i, j)
  BY BytesSub
<1>4. SubSeq(Bytes(TopOffset, Len(sniff.head)), off + 1, off + n) = Bytes(TopOffset + off, n)
  BY ZenonT(40), <1>1, <1>3
<1>5. QED
  BY <1>2, <1>4

\* A range of the tail is that range of the source, counted from its end.
LEMMA TailRanges == IInv => CalmTailTrue
<1> SUFFICES ASSUME IInv, Calm, sniff.stage = "both", NEW from_end \in 0..TailCap, NEW n \in 0..TailCap,
                    Len(sniff.tail) - from_end >= 0,
                    Len(sniff.tail) - from_end + n <= Len(sniff.tail)
             PROVE  SubSeq(sniff.tail, Len(sniff.tail) - from_end + 1, Len(sniff.tail) - from_end + n)
                      = Bytes(TopOffset + sniff.total - from_end, n)
  BY DEF CalmTailTrue, TailTrue, TailAt
<1> DEFINE k == Lesser(sniff.total, TailCap)
           start == k - from_end
<1>1. /\ TopOffset \in Nat /\ sniff.total \in Nat /\ TailCap \in Nat /\ n \in Nat /\ from_end \in Nat
  BY Constants, OffsetType DEF IInv, Typed, U
<1>2. k \in Nat /\ k <= sniff.total /\ TailStart = sniff.total - k
  BY <1>1 DEF Lesser, TailStart
<1> HIDE DEF k
<1>3. sniff.tail = Bytes(TopOffset + TailStart, k)
  BY DEF IInv, SniffOK, k
<1>4. TopOffset + TailStart \in Nat
  BY <1>1, <1>2
<1>5. Len(sniff.tail) = k
  BY <1>2, <1>3, <1>4, BytesType
<1>6. k - from_end >= 0 /\ k - from_end + n <= k
  BY <1>5
<1>7. start \in Nat /\ start + n <= k /\ (TopOffset + TailStart) + start = TopOffset + sniff.total - from_end
  BY <1>1, <1>2, <1>6
<1> DEFINE o == TopOffset + TailStart
<1>8. SubSeq(Bytes(o, k), start + 1, start + n) = Bytes(o + start, n)
  <2>1. \A p, m, i, j \in Nat :
          i + j <= m => SubSeq(Bytes(p, m), i + 1, i + j) = Bytes(p + i, j)
    BY BytesSub
  <2>2. o \in Nat /\ k \in Nat /\ start \in Nat /\ n \in Nat /\ start + n <= k
    BY <1>1, <1>2, <1>4, <1>7
  <2> HIDE DEF start, o
  <2>3. QED
    BY ZenonT(40), <2>1, <2>2
<1>9. QED
  BY <1>3, <1>5, <1>7, <1>8

LEMMA TypesFollow == IInv => TypeOK
<1> SUFFICES ASSUME IInv PROVE TypeOK
  OBVIOUS
<1>1. size \in Nat /\ len \in Nat /\ from \in Nat
  BY Constants DEF IInv, Typed, U
<1>2. \A k \in DOMAIN windows : windows[k].base \in 0..MaxU /\ windows[k].len \in 0..MaxU
  <2>1. DOMAIN windows = 1..Len(windows) /\ Typed
    BY DEF IInv, Typed
  <2>2. QED
    BY <2>1, WindowType DEF U
<1>3. cur = Unopened \/ (cur.base \in 0..MaxU /\ cur.len \in 0..MaxU /\ cur.pos \in 0..MaxU)
  BY DEF IInv, Typed, U
<1>4. exact.outcome \in {"none", "ok", "range", "io"} /\ sniff.stage \in {"none", "head", "both"}
  BY DEF IInv, Typed
<1>5. QED
  BY <1>1, <1>2, <1>3, <1>4 DEF IInv, Typed, TypeOK

-----------------------------------------------------------------------------
(***************************************************************************)
(* The theorems                                                            *)
(***************************************************************************)

LEMMA Invariance == Spec => []IInv
BY InitIInv, NextIInv, PTL DEF Spec

\* Bases, lengths and positions fit their u64, whatever windows are made and
\* wherever the cursor seeks.
THEOREM TypeCorrect == Spec => []TypeOK
BY Invariance, TypesFollow, PTL

\* SubRange::new: a window with bytes in it lies inside its parent, at the end of
\* the u64 range too, for stacks of any depth.
THEOREM WindowsAreNested == Spec => []WindowsNest
<1>1. IInv => WindowsNest
  BY DEF IInv
<1>2. QED
  BY Invariance, <1>1, PTL

\* SubRange::read_at: no read through a stack of any depth answers a byte outside
\* one of its windows, or from another offset than was asked for.
THEOREM NoReadEscapes == Spec => []NoEscape
BY Invariance, AnswersInside, PTL

\* SourceCursor: what its user reads between two seeks are the bytes from the
\* position on, whatever short reads, failed reads and saturating seeks happen.
THEOREM CopiesAreTrue == Spec => []CopyFaithful
<1>1. IInv => CopyFaithful
  BY DEF IInv
<1>2. QED
  BY Invariance, <1>1, PTL

\* SourceCursor: a user that reads a file nobody changes until it is given nothing
\* has everything up to the end of the window.
THEOREM CopiesAreComplete == Spec => []CopyComplete
<1>1. IInv => CopyComplete
  BY DEF IInv
<1>2. QED
  BY Invariance, <1>1, PTL

\* read_exact_at: success is all the bytes asked for, the file changing or not.
THEOREM ExactReadsAreWhole == Spec => []ExactAll
<1>1. IInv => ExactAll
  BY DEF IInv
<1>2. QED
  BY Invariance, <1>1, PTL

\* read_exact_at: over a file nobody changes a range error means that the source
\* is too short for the request.
THEOREM RangeErrorsAreTrue == Spec => []RangeErrorsTrue
<1>1. IInv => RangeErrorsTrue
  BY DEF IInv
<1>2. QED
  BY Invariance, <1>1, PTL

\* SniffWindow::at: what a probe sees at an offset of the head is in the source at
\* that offset, the file changing or not.
THEOREM HeadsAreTrue == Spec => []HeadTrue
BY Invariance, HeadRanges, PTL

\* SniffWindow::tail_at: over a file nobody changes, what a probe sees from_end
\* bytes before the end is in the source from_end bytes before its end.
THEOREM TailsAreTrue == Spec => []CalmTailTrue
BY Invariance, TailRanges, PTL

=============================================================================
