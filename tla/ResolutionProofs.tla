-------------------------- MODULE ResolutionProofs --------------------------
(***************************************************************************)
(* The resolver implements Resolution: for every registry, every evidence  *)
(* and every depth cap, a call answers with the site whose route is least. *)
(***************************************************************************)
EXTENDS ResolverProofs, WellFoundedInduction

-----------------------------------------------------------------------------
(***************************************************************************)
(* Sites level by level                                                    *)
(***************************************************************************)

\* A set of numbers that holds 0 and the successor of each of its elements
\* below a bound holds all numbers up to it.
LEMMA CountUp ==
  ASSUME NEW N \in Nat, NEW S \in SUBSET Nat, 0 \in S,
         \A n \in 0..(N - 1) : n \in S => n + 1 \in S
  PROVE  0..N \subseteq S
<1> DEFINE T == (0..N) \ S
<1>1. SUFFICES ASSUME T # {} PROVE FALSE
  OBVIOUS
<1>2. IsWellFoundedOn(OpToRel(<, Nat), Nat)
  BY NatLessThanWellFounded
<1>3. T \subseteq Nat
  OBVIOUS
<1>4. PICK m \in T : \A k \in Nat : <<k, m>> \in OpToRel(<, Nat) => k \notin T
  BY <1>1, <1>2, <1>3, WFMin
<1>5. m \in 1..N
  OBVIOUS
<1>6. m - 1 \in 0..(N - 1) /\ m - 1 < m /\ (m - 1) + 1 = m /\ m - 1 \in Nat
  BY <1>5
<1>7. <<m - 1, m>> \in OpToRel(<, Nat)
  BY <1>5, <1>6 DEF OpToRel
<1>8. m - 1 \in S
  <2>1. m - 1 \notin T
    BY <1>4, <1>6, <1>7
  <2>2. m - 1 \in 0..N
    BY <1>5
  <2>3. QED
    BY <2>1, <2>2
<1>9. QED
  BY <1>4, <1>6, <1>8

\* The sites of a source, given those of the level below.
Grow(c, below, s) ==
  Promise!Sites(c, s) \cup
    UNION {{Promise!Under(h, e) : e \in below[h.to]} : h \in Promise!Hops(c, s)}

\* The recursive function of Resolution: the sites at most n - 1 layers below
\* each source.
Level(c) ==
  CHOOSE g : g = [n \in 0..(MaxDepth + 1) |->
                    [s \in Source |-> IF n = 0 THEN {} ELSE Grow(c, g[n - 1], s)]]

LEMMA LevelIs ==
  ASSUME NEW c
  PROVE  /\ Promise!SitesOf(c) = Level(c)[MaxDepth + 1][c.root]
         /\ \A s \in Source : Level(c)[0][s] = {}
         /\ \A n \in 1..(MaxDepth + 1), s \in Source :
              Level(c)[n][s] = Grow(c, Level(c)[n - 1], s)
<1> DEFINE N == MaxDepth + 1
           F(n, prev) == [s \in Source |-> IF n = 0 THEN {} ELSE Grow(c, prev, s)]
           Follows(g, n) == g[n] = F(n, g[n - 1])
           S == {d \in Nat : \E g : \A n \in 0..d : Follows(g, n)}
<1>0. MaxDepth \in Nat /\ N \in Nat
  BY OpenersWellFormed DEF OpenersAssumption
<1> HIDE DEF N
<1> HIDE DEF F
<1>1. 0 \in S
  <2> DEFINE x == F(0, <<>>)
             g == [n \in {0} |-> x]
  <2>1. F(0, g[0 - 1]) = x
    BY DEF F
  <2> HIDE DEF x
  <2>2. \A n \in 0..0 : Follows(g, n)
    <3>1. SUFFICES ASSUME NEW n \in 0..0 PROVE Follows(g, n)
      OBVIOUS
    <3>2. n = 0
      BY <3>1
    <3>3. g[n] = x
      BY <3>2
    <3>4. QED
      BY <2>1, <3>2, <3>3
  <2> HIDE DEF g
  <2>3. QED
    BY <2>2
<1>2. ASSUME NEW d \in S PROVE d + 1 \in S
  <2>1. PICK g : \A n \in 0..d : Follows(g, n)
    OBVIOUS
  <2> DEFINE x == F(d + 1, g[d])
             h == [n \in 0..(d + 1) |-> IF n = d + 1 THEN x ELSE g[n]]
  <2> HIDE DEF x
  <2>2. ASSUME NEW n \in 0..(d + 1) PROVE Follows(h, n)
    <3>1. CASE n = d + 1
      <4>1. h[n] = x /\ h[n - 1] = g[d]
        <5>1. d \in 0..(d + 1) /\ d # d + 1 /\ n - 1 = d
          BY <3>1
        <5>2. QED
          BY <3>1, <5>1
      <4>2. QED
        BY <3>1, <4>1 DEF x
    <3>2. CASE n # d + 1 /\ n # 0
      <4>1. n \in 0..d /\ n - 1 \in 0..(d + 1) /\ n - 1 # d + 1
        BY <3>2
      <4>2. h[n] = g[n] /\ h[n - 1] = g[n - 1]
        BY <3>2, <4>1
      <4>3. QED
        BY <2>1, <4>1, <4>2
    <3>3. CASE n = 0
      <4>1. h[n] = g[n] /\ 0 \in 0..d
        BY <3>3
      <4>2. g[0] = F(0, g[0 - 1])
        BY <2>1, <4>1
      <4>3. F(0, g[0 - 1]) = F(0, h[0 - 1])
        BY DEF F
      <4>4. QED
        BY <3>3, <4>1, <4>2, <4>3
    <3>4. QED
      BY <3>1, <3>2, <3>3
  <2> HIDE DEF h
  <2>3. \E k : \A n \in 0..(d + 1) : Follows(k, n)
    BY <2>2
  <2>4. QED
    BY <2>3
<1>3. PICK g : \A n \in 0..N : Follows(g, n)
  <2>1. N \in S
    <3> HIDE DEF S
    <3>1. S \subseteq Nat
      BY DEF S
    <3>2. 0..N \subseteq S
      BY <1>0, <1>1, <1>2, <3>1, CountUp
    <3>3. N \in 0..N
      BY <1>0
    <3>4. QED
      BY <3>2, <3>3
  <2>2. QED
    BY <2>1
<1> DEFINE f == [n \in 0..N |-> g[n]]
<1>4. f = [n \in 0..N |-> F(n, f[n - 1])]
  <2>1. ASSUME NEW n \in 0..N PROVE f[n] = F(n, f[n - 1])
    <3>1. CASE n = 0
      BY <1>3, <3>1 DEF F
    <3>2. CASE n # 0
      <4>1. n - 1 \in 0..N
        BY <1>0, <3>2
      <4>2. f[n] = g[n] /\ f[n - 1] = g[n - 1]
        BY <4>1
      <4>3. QED
        BY <1>3, <4>2
    <3>3. QED
      BY <3>1, <3>2
  <2>2. QED
    BY <2>1
<1> HIDE DEF f
<1>5. Level(c) = [n \in 0..N |-> F(n, Level(c)[n - 1])]
  BY <1>4 DEF Level, N, F
<1>6. \A n \in 0..N : Level(c)[n] = F(n, Level(c)[n - 1])
  <2> DEFINE l == Level(c)
  <2> HIDE DEF l
  <2>1. l = [n \in 0..N |-> F(n, l[n - 1])]
    BY <1>5 DEF l
  <2>2. \A n \in 0..N : l[n] = F(n, l[n - 1])
    BY <2>1
  <2>3. QED
    BY <2>2 DEF l
<1>7. Promise!SitesOf(c) = Level(c)[MaxDepth + 1][c.root]
  BY DEF Promise!SitesOf, Level, Grow
<1>8. \A s \in Source : Level(c)[0][s] = {}
  <2>1. 0 \in 0..N
    BY <1>0
  <2>2. QED
    BY <1>6, <2>1 DEF F
<1>9. ASSUME NEW n \in 1..N, NEW s \in Source
      PROVE  Level(c)[n][s] = Grow(c, Level(c)[n - 1], s)
  <2>1. n \in 0..N /\ n # 0
    BY <1>0
  <2>2. QED
    BY <1>6, <2>1 DEF F
<1>10. QED
  BY <1>7, <1>8, <1>9 DEF N

-----------------------------------------------------------------------------
(***************************************************************************)
(* The sites and the hops of a source, one kind at a time                  *)
(***************************************************************************)

PassAt(c, p) == Passes[c.entry][p]

OpenerAt(c, p, i) == Registered[PassAt(c, p)][i]

\* Opener i of pass p claims the source.
Claimant(c, s, p, i) ==
  /\ p \in DOMAIN Passes[c.entry]
  /\ i \in DOMAIN Registered[PassAt(c, p)]
  /\ Engaged(c, s, PassAt(c, p), OpenerAt(c, p, i))

AnswerAt(c, s, p, i) == AnswerOf(c, s, OpenerAt(c, p, i))

LayerAt(c, s, p, i, j) == LayerOf(c, s, PassAt(c, p), OpenerAt(c, p, i), j)

Mounts(c, s, x, p, i) ==
  /\ Claimant(c, s, p, i) /\ PassAt(c, p) \in MountPass /\ AnswerAt(c, s, p, i).ok
  /\ x = Promise!Site(<<p, i, 0>>, "some", s,
           IF PassAt(c, p) = "fs" THEN <<LayerAt(c, s, p, i, 1)>> ELSE <<>>)

Fails(c, s, x, p, i) ==
  /\ Claimant(c, s, p, i) /\ ~AnswerAt(c, s, p, i).ok
  /\ x = Promise!Site(<<p, i, 0>>, "err", s, <<>>)

\* The opener succeeds and hands children back.
Opens(c, s, p, i) ==
  Claimant(c, s, p, i) /\ PassAt(c, p) \notin MountPass /\ AnswerAt(c, s, p, i).ok

Breaks(c, s, x, p, i, j) ==
  /\ Opens(c, s, p, i) /\ PassAt(c, p) # "try"
  /\ j \in DOMAIN AnswerAt(c, s, p, i).kids /\ AnswerAt(c, s, p, i).kids[j] = Broken
  /\ x = Promise!Site(<<p, i, j>>, "err", s, <<>>)

Unreadable(c, s, x) ==
  /\ c.entry # "tree" /\ ~c.evidence[s].readable
  /\ x = Promise!Site(<<0, 0, 0>>, "err", s, <<>>)

RawTerminal(c, s, x) ==
  /\ c.entry = "source"
  /\ x = Promise!Site(<<Len(Passes[c.entry]) + 1, 0, 0>>, "some", s, <<>>)

HopAt(c, s, h, p, i, j) ==
  /\ Opens(c, s, p, i)
  /\ j \in DOMAIN AnswerAt(c, s, p, i).kids /\ AnswerAt(c, s, p, i).kids[j] # Broken
  /\ h = [at |-> <<p, i, j>>, to |-> AnswerAt(c, s, p, i).kids[j],
          layer |-> LayerAt(c, s, p, i, j)]

\* The definitions Resolution shares with the resolver.
LEMMA SharedDefs ==
  /\ Promise!Passes = Passes
  /\ Promise!Registered = Registered
  /\ Promise!MountPass = MountPass
  /\ \A c, s, o : Promise!AnswerOf(c, s, o) = AnswerOf(c, s, o)
  /\ \A c, s, o : Promise!Kids(c, s, o) = Kids(c, s, o)
  /\ \A c, s, p, o : Promise!Engaged(c, s, p, o) = Engaged(c, s, p, o)
  /\ \A c, s, p, o, j : Promise!LayerOf(c, s, p, o, j) = LayerOf(c, s, p, o, j)
BY DEF Promise!Passes, Passes, Promise!Registered, Registered, Promise!MountPass,
   MountPass, Promise!AnswerOf, AnswerOf, Promise!Kids, Kids, Promise!Engaged, Engaged,
   Promise!LayerOf, LayerOf, Promise!NoIndex, NoIndex, Promise!LayerKind, LayerKind

ClaimOf(c, p, i) == [p |-> p, i |-> i, pass |-> PassAt(c, p), opener |-> OpenerAt(c, p, i)]

LEMMA ClaimsAre ==
  ASSUME NEW c, NEW s, NEW cl
  PROVE  cl \in Promise!Claims(c, s) <=> \E p, i : Claimant(c, s, p, i) /\ cl = ClaimOf(c, p, i)
BY SharedDefs DEF Promise!Claims, Claimant, ClaimOf, PassAt, OpenerAt

\* The sites of a source are the mounts, the failures of an opener, the broken
\* children, the unreadable source and the raw terminal.
LEMMA SitesAre ==
  ASSUME NEW c, NEW s, NEW x
  PROVE  x \in Promise!Sites(c, s) <=>
           \/ \E p, i : Mounts(c, s, x, p, i)
           \/ \E p, i : Fails(c, s, x, p, i)
           \/ \E p, i, j : Breaks(c, s, x, p, i, j)
           \/ Unreadable(c, s, x)
           \/ RawTerminal(c, s, x)
<1> DEFINE C == Promise!Claims(c, s)
           mounts == {cl \in C : cl.pass \in MountPass}
           layers == C \ mounts
           Ans(cl) == AnswerOf(c, s, cl.opener)
           A == {Promise!Site(<<cl.p, cl.i, 0>>, "some", s,
                   IF cl.pass = "fs" THEN <<LayerOf(c, s, "fs", cl.opener, 1)>> ELSE <<>>) :
                   cl \in {m \in mounts : Ans(m).ok}}
           B == {Promise!Site(<<cl.p, cl.i, 0>>, "err", s, <<>>) :
                   cl \in {m \in mounts \cup layers : ~Ans(m).ok}}
           K == UNION {{Promise!Site(<<cl.p, cl.i, j>>, "err", s, <<>>) :
                     j \in {j \in DOMAIN Ans(cl).kids : Ans(cl).kids[j] = Broken}} :
                    cl \in {l \in layers : l.pass # "try" /\ Ans(l).ok}}
           D == {Promise!Site(<<0, 0, 0>>, "err", s, <<>>) :
                   y \in {y \in {s} : c.entry # "tree" /\ ~c.evidence[y].readable}}
           R == {Promise!Site(<<Len(Passes[c.entry]) + 1, 0, 0>>, "some", s, <<>>) :
                   y \in {y \in {s} : c.entry = "source"}}
<1>1. Promise!Sites(c, s) = A \cup B \cup K \cup D \cup R
  BY DEF Promise!Sites, Promise!AnswerOf, AnswerOf, Promise!Passes, Passes,
     Promise!MountPass, MountPass, Promise!LayerOf, LayerOf, Promise!LayerKind, LayerKind,
     Promise!NoIndex, NoIndex
<1>2. \A cl : cl \in C <=> \E p, i : Claimant(c, s, p, i) /\ cl = ClaimOf(c, p, i)
  BY ClaimsAre
<1>3. \A p, i : Claimant(c, s, p, i) => ClaimOf(c, p, i) \in C
  BY <1>2
<1>4. \A p, i : /\ ClaimOf(c, p, i).p = p /\ ClaimOf(c, p, i).i = i
               /\ ClaimOf(c, p, i).pass = PassAt(c, p)
               /\ ClaimOf(c, p, i).opener = OpenerAt(c, p, i)
  BY DEF ClaimOf
<1> HIDE DEF C
<1>5. x \in A <=> \E p, i : Mounts(c, s, x, p, i)
  <2>1. ASSUME x \in A PROVE \E p, i : Mounts(c, s, x, p, i)
    <3>1. PICK cl \in C : /\ cl.pass \in MountPass /\ Ans(cl).ok
            /\ x = Promise!Site(<<cl.p, cl.i, 0>>, "some", s,
                     IF cl.pass = "fs" THEN <<LayerOf(c, s, "fs", cl.opener, 1)>> ELSE <<>>)
      BY <2>1
    <3>2. PICK p, i : Claimant(c, s, p, i) /\ cl = ClaimOf(c, p, i)
      BY <1>2
    <3>3. Mounts(c, s, x, p, i)
      BY <1>4, <3>1, <3>2 DEF Mounts, AnswerAt, LayerAt
    <3>4. QED
      BY <3>3
  <2>2. ASSUME NEW p, NEW i, Mounts(c, s, x, p, i) PROVE x \in A
    <3> DEFINE cl == ClaimOf(c, p, i)
    <3>1. cl \in C /\ cl.pass \in MountPass /\ Ans(cl).ok
      BY <1>3, <1>4, <2>2 DEF Mounts, AnswerAt
    <3>2. x = Promise!Site(<<cl.p, cl.i, 0>>, "some", s,
                IF cl.pass = "fs" THEN <<LayerOf(c, s, "fs", cl.opener, 1)>> ELSE <<>>)
      BY <1>4, <2>2 DEF Mounts, LayerAt
    <3> HIDE DEF cl
    <3>3. QED
      BY <3>1, <3>2
  <2>3. QED
    BY <2>1, <2>2
<1>6. x \in B <=> \E p, i : Fails(c, s, x, p, i)
  <2>1. ASSUME x \in B PROVE \E p, i : Fails(c, s, x, p, i)
    <3>1. PICK cl \in C : ~Ans(cl).ok /\ x = Promise!Site(<<cl.p, cl.i, 0>>, "err", s, <<>>)
      BY <2>1
    <3>2. PICK p, i : Claimant(c, s, p, i) /\ cl = ClaimOf(c, p, i)
      BY <1>2
    <3>3. Fails(c, s, x, p, i)
      BY <1>4, <3>1, <3>2 DEF Fails, AnswerAt
    <3>4. QED
      BY <3>3
  <2>2. ASSUME NEW p, NEW i, Fails(c, s, x, p, i) PROVE x \in B
    <3> DEFINE cl == ClaimOf(c, p, i)
    <3>1. cl \in C /\ ~Ans(cl).ok
      BY <1>3, <1>4, <2>2 DEF Fails, AnswerAt
    <3>2. x = Promise!Site(<<cl.p, cl.i, 0>>, "err", s, <<>>)
      BY <1>4, <2>2 DEF Fails
    <3> HIDE DEF cl
    <3>3. QED
      BY <3>1, <3>2
  <2>3. QED
    BY <2>1, <2>2
<1>7. x \in K <=> \E p, i, j : Breaks(c, s, x, p, i, j)
  <2>1. ASSUME x \in K PROVE \E p, i, j : Breaks(c, s, x, p, i, j)
    <3>1. PICK cl \in C : /\ cl.pass \notin MountPass /\ cl.pass # "try" /\ Ans(cl).ok
            /\ \E j \in DOMAIN Ans(cl).kids : /\ Ans(cl).kids[j] = Broken
                 /\ x = Promise!Site(<<cl.p, cl.i, j>>, "err", s, <<>>)
      BY <2>1
    <3>2. PICK j \in DOMAIN Ans(cl).kids : /\ Ans(cl).kids[j] = Broken
                 /\ x = Promise!Site(<<cl.p, cl.i, j>>, "err", s, <<>>)
      BY <3>1
    <3>3. PICK p, i : Claimant(c, s, p, i) /\ cl = ClaimOf(c, p, i)
      BY <1>2
    <3>4. Breaks(c, s, x, p, i, j)
      BY <1>4, <3>1, <3>2, <3>3 DEF Breaks, Opens, AnswerAt
    <3>5. QED
      BY <3>4
  <2>2. ASSUME NEW p, NEW i, NEW j, Breaks(c, s, x, p, i, j) PROVE x \in K
    <3> DEFINE cl == ClaimOf(c, p, i)
    <3>1. /\ cl \in C /\ cl.pass \notin MountPass /\ cl.pass # "try" /\ Ans(cl).ok
          /\ j \in DOMAIN Ans(cl).kids /\ Ans(cl).kids[j] = Broken
      BY <1>3, <1>4, <2>2 DEF Breaks, Opens, AnswerAt
    <3>2. x = Promise!Site(<<cl.p, cl.i, j>>, "err", s, <<>>)
      BY <1>4, <2>2 DEF Breaks
    <3> HIDE DEF cl
    <3>3. x \in {Promise!Site(<<cl.p, cl.i, k>>, "err", s, <<>>) :
                  k \in {k \in DOMAIN Ans(cl).kids : Ans(cl).kids[k] = Broken}}
      BY <3>1, <3>2
    <3>4. cl \in {l \in layers : l.pass # "try" /\ Ans(l).ok}
      BY <3>1
    <3> HIDE DEF layers, Ans
    <3>5. QED
      BY <3>3, <3>4
  <2>3. QED
    BY <2>1, <2>2
<1>8. (x \in D <=> Unreadable(c, s, x)) /\ (x \in R <=> RawTerminal(c, s, x))
  BY DEF Unreadable, RawTerminal
<1> HIDE DEF A, B, K, D, R
<1>9. QED
  BY <1>1, <1>5, <1>6, <1>7, <1>8

LEMMA HopsAre ==
  ASSUME NEW c, NEW s, NEW h
  PROVE  h \in Promise!Hops(c, s) <=> \E p, i, j : HopAt(c, s, h, p, i, j)
<1> DEFINE C == Promise!Claims(c, s)
           Good == {l \in C : l.pass \notin MountPass /\ AnswerOf(c, s, l.opener).ok}
           Hop(cl, j) == [at |-> <<cl.p, cl.i, j>>, to |-> Kids(c, s, cl.opener)[j],
                          layer |-> LayerOf(c, s, cl.pass, cl.opener, j)]
           H == UNION {{Hop(cl, j) :
                   j \in {j \in DOMAIN Kids(c, s, cl.opener) : Kids(c, s, cl.opener)[j] # Broken}} :
                 cl \in Good}
<1>1. Promise!Hops(c, s) = H
  BY DEF Promise!Hops, Promise!AnswerOf, AnswerOf, Promise!Kids, Kids,
     Promise!MountPass, MountPass, Promise!LayerOf, LayerOf, Promise!LayerKind, LayerKind,
     Promise!NoIndex, NoIndex
<1>2. \A cl : cl \in C <=> \E p, i : Claimant(c, s, p, i) /\ cl = ClaimOf(c, p, i)
  BY ClaimsAre
<1>3. \A p, i : Claimant(c, s, p, i) => ClaimOf(c, p, i) \in C
  BY <1>2
<1>4. \A p, i : /\ ClaimOf(c, p, i).p = p /\ ClaimOf(c, p, i).i = i
               /\ ClaimOf(c, p, i).pass = PassAt(c, p)
               /\ ClaimOf(c, p, i).opener = OpenerAt(c, p, i)
  BY DEF ClaimOf
<1> HIDE DEF C
<1>5. ASSUME h \in H PROVE \E p, i, j : HopAt(c, s, h, p, i, j)
  <2>1. PICK cl \in C : /\ cl.pass \notin MountPass /\ AnswerOf(c, s, cl.opener).ok
          /\ \E j \in DOMAIN Kids(c, s, cl.opener) :
               Kids(c, s, cl.opener)[j] # Broken /\ h = Hop(cl, j)
    BY <1>5
  <2>2. PICK j \in DOMAIN Kids(c, s, cl.opener) :
               Kids(c, s, cl.opener)[j] # Broken /\ h = Hop(cl, j)
    BY <2>1
  <2>3. PICK p, i : Claimant(c, s, p, i) /\ cl = ClaimOf(c, p, i)
    BY <1>2
  <2>4. HopAt(c, s, h, p, i, j)
    BY <1>4, <2>1, <2>2, <2>3 DEF HopAt, Opens, AnswerAt, Kids, LayerAt
  <2>5. QED
    BY <2>4
<1>6. ASSUME NEW p, NEW i, NEW j, HopAt(c, s, h, p, i, j) PROVE h \in H
  <2> DEFINE cl == ClaimOf(c, p, i)
  <2>1. /\ cl \in Good
        /\ j \in DOMAIN Kids(c, s, cl.opener) /\ Kids(c, s, cl.opener)[j] # Broken
    BY <1>3, <1>4, <1>6 DEF HopAt, Opens, AnswerAt, Kids
  <2>2. h = Hop(cl, j)
    BY <1>4, <1>6 DEF HopAt, AnswerAt, Kids, LayerAt
  <2> HIDE DEF cl, Good
  <2>3. QED
    BY <2>1, <2>2
<1> HIDE DEF H
<1>7. QED
  BY <1>1, <1>5, <1>6

-----------------------------------------------------------------------------
(***************************************************************************)
(* Coordinates and their order                                             *)
(***************************************************************************)

Coordinate == Nat \X Nat \X Nat

LEMMA CoordinateOf ==
  ASSUME NEW p \in Nat, NEW i \in Nat, NEW j \in Nat
  PROVE  /\ <<p, i, j>> \in Coordinate
         /\ <<p, i, j>>[1] = p /\ <<p, i, j>>[2] = i /\ <<p, i, j>>[3] = j
BY DEF Coordinate

LEMMA CoordinateParts ==
  ASSUME NEW a \in Coordinate
  PROVE  a[1] \in Nat /\ a[2] \in Nat /\ a[3] \in Nat /\ a = <<a[1], a[2], a[3]>>
BY DEF Coordinate

LEMMA SmallerIs ==
  ASSUME NEW a, NEW b
  PROVE  Promise!Smaller(a, b) <=>
           \/ a[1] < b[1]
           \/ a[1] = b[1] /\ a[2] < b[2]
           \/ a[1] = b[1] /\ a[2] = b[2] /\ a[3] < b[3]
<1>1. /\ \A m \in 1..(1 - 1) : FALSE
      /\ \A m : m \in 1..(2 - 1) <=> m = 1
      /\ \A m : m \in 1..(3 - 1) <=> m = 1 \/ m = 2
      /\ \A k : k \in 1..3 <=> k = 1 \/ k = 2 \/ k = 3
  OBVIOUS
<1>2. QED
  BY <1>1 DEF Promise!Smaller

LEMMA SmallerOrder ==
  ASSUME NEW a \in Coordinate, NEW b \in Coordinate
  PROVE  /\ ~Promise!Smaller(a, a)
         /\ ~(Promise!Smaller(a, b) /\ Promise!Smaller(b, a))
         /\ a = b \/ Promise!Smaller(a, b) \/ Promise!Smaller(b, a)
<1>1. /\ a[1] \in Nat /\ a[2] \in Nat /\ a[3] \in Nat /\ a = <<a[1], a[2], a[3]>>
      /\ b[1] \in Nat /\ b[2] \in Nat /\ b[3] \in Nat /\ b = <<b[1], b[2], b[3]>>
  BY CoordinateParts
<1>2. a[1] = b[1] /\ a[2] = b[2] /\ a[3] = b[3] => a = b
  BY <1>1
<1>3. QED
  BY <1>1, <1>2, SmallerIs

\* A site, and what leads to it.
Found == {e \in [route : Seq(Coordinate), res : {"some", "err"}, src : Source,
                 spec : Seq(Layer), source_spec : Seq(Layer)] : e.route # <<>>}

\* Two routes are never each before the other.
LEMMA BeforeOrder ==
  ASSUME NEW r \in Seq(Coordinate), NEW q \in Seq(Coordinate),
         Promise!Before(r, q), Promise!Before(q, r)
  PROVE  FALSE
<1>1. PICK k \in (DOMAIN r) \cap (DOMAIN q) :
        Promise!Smaller(r[k], q[k]) /\ \A m \in 1..(k - 1) : r[m] = q[m]
  BY DEF Promise!Before
<1>2. PICK n \in (DOMAIN r) \cap (DOMAIN q) :
        Promise!Smaller(q[n], r[n]) /\ \A m \in 1..(n - 1) : q[m] = r[m]
  BY DEF Promise!Before
<1>3. /\ k \in Nat \ {0} /\ n \in Nat \ {0}
      /\ r[k] \in Coordinate /\ q[k] \in Coordinate
      /\ r[n] \in Coordinate /\ q[n] \in Coordinate
  OBVIOUS
<1>4. CASE k < n
  <2>1. k \in 1..(n - 1)
    BY <1>3, <1>4
  <2>2. q[k] = r[k]
    BY <1>2, <2>1
  <2>3. QED
    BY <1>1, <1>3, <2>2, SmallerOrder
<1>5. CASE n < k
  <2>1. n \in 1..(k - 1)
    BY <1>3, <1>5
  <2>2. r[n] = q[n]
    BY <1>1, <2>1
  <2>3. QED
    BY <1>2, <1>3, <2>2, SmallerOrder
<1>6. CASE k = n
  BY <1>1, <1>2, <1>3, <1>6, SmallerOrder
<1>7. QED
  BY <1>3, <1>4, <1>5, <1>6

\* The first of a set of sites: every other one comes after it.
First(S, e) == e \in S /\ \A x \in S : x = e \/ Promise!Before(e.route, x.route)

LEMMA FirstUnique ==
  ASSUME NEW S \in SUBSET Found, NEW e, First(S, e)
  PROVE  (CHOOSE y \in S : \A x \in S : x = y \/ Promise!Before(y.route, x.route)) = e
<1> DEFINE f == CHOOSE y \in S : \A x \in S : x = y \/ Promise!Before(y.route, x.route)
<1>1. First(S, f)
  BY DEF First
<1> HIDE DEF f
<1>2. e \in Found /\ f \in Found
  BY <1>1 DEF First
<1>3. e.route \in Seq(Coordinate) /\ f.route \in Seq(Coordinate)
  BY <1>2 DEF Found
<1>4. f = e
  BY <1>1, <1>3, BeforeOrder DEF First
<1>5. QED
  BY <1>4 DEF f

-----------------------------------------------------------------------------
(***************************************************************************)
(* The types of sites, hops and levels                                     *)
(***************************************************************************)

\* A claim is made by a registered opener of one of the passes of the entry.
LEMMA ClaimType ==
  ASSUME NEW c \in Call, NEW s \in Source, NEW p, NEW i, Claimant(c, s, p, i)
  PROVE  /\ p \in 1..Len(Passes[c.entry]) /\ p \in Nat /\ p > 0
         /\ PassAt(c, p) \in Pass /\ PassAt(c, p) \in PassesOf(c)
         /\ i \in 1..Len(Registered[PassAt(c, p)]) /\ i \in Nat /\ i > 0
         /\ OpenerAt(c, p, i) \in Opener
         /\ OpenerAt(c, p, i) \in Elements(Registered[PassAt(c, p)])
         /\ AnswerAt(c, s, p, i) \in Answer
         /\ AnswerAt(c, s, p, i).kids \in Seq(Source \cup {Broken})
         /\ Kids(c, s, OpenerAt(c, p, i)) = AnswerAt(c, s, p, i).kids
<1>1. Passes[c.entry] \in Seq(Pass)
  BY PassesType DEF Call
<1>2. p \in 1..Len(Passes[c.entry]) /\ PassAt(c, p) \in Pass /\ PassAt(c, p) \in PassesOf(c)
  BY <1>1 DEF Claimant, PassAt, PassesOf, Elements
<1>3. Registered[PassAt(c, p)] \in Seq(Opener)
  BY <1>2, RegisteredType
<1>4. /\ i \in 1..Len(Registered[PassAt(c, p)])
      /\ OpenerAt(c, p, i) \in Opener
      /\ OpenerAt(c, p, i) \in Elements(Registered[PassAt(c, p)])
  BY <1>3 DEF Claimant, OpenerAt, Elements
<1>5. QED
  BY <1>2, <1>4, AnswerType DEF AnswerAt, Kids

LEMMA SiteFields ==
  ASSUME NEW at \in Coordinate, NEW res \in {"some", "err"}, NEW s \in Source,
         NEW spec \in Seq(Layer), NEW x, x = Promise!Site(at, res, s, spec)
  PROVE  /\ x \in Found /\ x.route = <<at>>
         /\ x.res = res /\ x.src = s /\ x.spec = spec /\ x.source_spec = <<>>
<1>1. <<at>> \in Seq(Coordinate) /\ <<at>> # <<>> /\ <<at>>[1] = at /\ <<>> \in Seq(Layer)
  OBVIOUS
<1> DEFINE r == <<at>>
           no == <<>>
<1>2. x = [route |-> r, res |-> res, src |-> s, spec |-> spec, source_spec |-> no]
  BY DEF Promise!Site
<1>3. r \in Seq(Coordinate) /\ r # <<>> /\ r[1] = at /\ no \in Seq(Layer)
  BY <1>1
<1> HIDE DEF r, no
<1>4. /\ x.route = r /\ x.res = res /\ x.src = s /\ x.spec = spec /\ x.source_spec = no
      /\ x.route[1] = at
  BY <1>2, <1>3
<1>5. x \in Found
  BY <1>2, <1>3 DEF Found
<1>6. QED
  BY <1>4, <1>5 DEF r, no

LEMMA MountsType ==
  ASSUME NEW c \in Call, NEW s \in Source, NEW x, NEW p, NEW i, Mounts(c, s, x, p, i)
  PROVE  /\ x \in Found /\ <<p, i, 0>> \in Coordinate /\ x.route = <<<<p, i, 0>>>>
         /\ x.res = "some" /\ x.src = s /\ x.source_spec = <<>>
         /\ PassAt(c, p) = "fs" => x.spec = <<LayerAt(c, s, p, i, 1)>>
         /\ PassAt(c, p) # "fs" => x.spec = <<>>
<1> DEFINE spec == IF PassAt(c, p) = "fs" THEN <<LayerAt(c, s, p, i, 1)>> ELSE <<>>
<1>1. Claimant(c, s, p, i) /\ x = Promise!Site(<<p, i, 0>>, "some", s, spec)
  BY DEF Mounts
<1>2. p \in Nat /\ i \in Nat /\ PassAt(c, p) \in Pass /\ OpenerAt(c, p, i) \in Opener
  BY <1>1, ClaimType
<1>3. PassAt(c, p) = "fs" => LayerAt(c, s, p, i, 1) \in Layer
  BY <1>2, LayerType DEF LayerAt
<1>4. spec \in Seq(Layer)
  BY <1>3
<1>5. <<p, i, 0>> \in Coordinate
  BY <1>2, CoordinateOf
<1> DEFINE at == <<p, i, 0>>
<1>6. at \in Coordinate /\ x = Promise!Site(at, "some", s, spec)
      /\ "some" \in {"some", "err"}
  BY <1>1, <1>5
<1> HIDE DEF spec, at
<1>7. /\ x \in Found /\ x.route = <<at>> /\ x.res = "some" /\ x.src = s /\ x.spec = spec
      /\ x.source_spec = <<>>
  BY <1>4, <1>6, SiteFields
<1>8. QED
  BY <1>5, <1>7 DEF spec, at

LEMMA FailsType ==
  ASSUME NEW c \in Call, NEW s \in Source, NEW x, NEW p, NEW i, Fails(c, s, x, p, i)
  PROVE  /\ x \in Found /\ <<p, i, 0>> \in Coordinate /\ x.route = <<<<p, i, 0>>>>
         /\ x.res = "err"
<1>1. Claimant(c, s, p, i) /\ x = Promise!Site(<<p, i, 0>>, "err", s, <<>>)
  BY DEF Fails
<1>2. <<p, i, 0>> \in Coordinate /\ <<>> \in Seq(Layer)
  BY <1>1, ClaimType, CoordinateOf
<1> DEFINE at == <<p, i, 0>>
           no == <<>>
<1>3. at \in Coordinate /\ no \in Seq(Layer) /\ x = Promise!Site(at, "err", s, no)
      /\ "err" \in {"some", "err"}
  BY <1>1, <1>2
<1> HIDE DEF at, no
<1>4. x \in Found /\ x.route = <<at>> /\ x.res = "err"
  BY <1>3, SiteFields
<1>5. QED
  BY <1>3, <1>4 DEF at

LEMMA BreaksType ==
  ASSUME NEW c \in Call, NEW s \in Source, NEW x, NEW p, NEW i, NEW j,
         Breaks(c, s, x, p, i, j)
  PROVE  /\ x \in Found /\ <<p, i, j>> \in Coordinate /\ x.route = <<<<p, i, j>>>>
         /\ x.res = "err" /\ j \in Nat \ {0}
<1>1. Claimant(c, s, p, i) /\ x = Promise!Site(<<p, i, j>>, "err", s, <<>>)
  BY DEF Breaks, Opens
<1>2. j \in Nat \ {0}
  <2>1. j \in DOMAIN AnswerAt(c, s, p, i).kids
    BY DEF Breaks
  <2>2. AnswerAt(c, s, p, i).kids \in Seq(Source \cup {Broken})
    BY <1>1, ClaimType
  <2>3. QED
    BY <2>1, <2>2
<1>3. <<p, i, j>> \in Coordinate /\ <<>> \in Seq(Layer)
  BY <1>1, <1>2, ClaimType, CoordinateOf
<1> DEFINE at == <<p, i, j>>
           no == <<>>
<1>4. at \in Coordinate /\ no \in Seq(Layer) /\ x = Promise!Site(at, "err", s, no)
      /\ "err" \in {"some", "err"}
  BY <1>1, <1>3
<1> HIDE DEF at, no
<1>5. x \in Found /\ x.route = <<at>> /\ x.res = "err"
  BY <1>4, SiteFields
<1>6. QED
  BY <1>2, <1>4, <1>5 DEF at

LEMMA UnreadableType ==
  ASSUME NEW c \in Call, NEW s \in Source, NEW x, Unreadable(c, s, x)
  PROVE  /\ x \in Found /\ <<0, 0, 0>> \in Coordinate /\ x.route = <<<<0, 0, 0>>>>
         /\ x.res = "err"
<1>1. <<0, 0, 0>> \in Coordinate /\ <<>> \in Seq(Layer)
  BY CoordinateOf
<1> DEFINE at == <<0, 0, 0>>
           no == <<>>
<1>2. at \in Coordinate /\ no \in Seq(Layer) /\ x = Promise!Site(at, "err", s, no)
      /\ "err" \in {"some", "err"}
  BY <1>1 DEF Unreadable
<1> HIDE DEF at, no
<1>3. x \in Found /\ x.route = <<at>> /\ x.res = "err"
  BY <1>2, SiteFields
<1>4. QED
  BY <1>2, <1>3 DEF at

LEMMA RawTerminalType ==
  ASSUME NEW c \in Call, NEW s \in Source, NEW x, RawTerminal(c, s, x)
  PROVE  LET at == <<Len(Passes[c.entry]) + 1, 0, 0>>
         IN  /\ x \in Found /\ at \in Coordinate /\ x.route = <<at>>
             /\ x.res = "some" /\ x.src = s /\ x.spec = <<>> /\ x.source_spec = <<>>
<1> DEFINE n == Len(Passes[c.entry]) + 1
<1>1. n \in Nat /\ <<>> \in Seq(Layer)
  <2>1. Len(Passes[c.entry]) \in 1..6
    BY PassesType DEF Call
  <2>2. QED
    BY <2>1
<1>2. x = Promise!Site(<<n, 0, 0>>, "some", s, <<>>)
  BY DEF RawTerminal
<1> HIDE DEF n
<1>3. <<n, 0, 0>> \in Coordinate
  BY <1>1, CoordinateOf
<1> DEFINE at == <<n, 0, 0>>
           no == <<>>
<1>4. at \in Coordinate /\ no \in Seq(Layer) /\ x = Promise!Site(at, "some", s, no)
      /\ "some" \in {"some", "err"}
  BY <1>1, <1>2, <1>3
<1> HIDE DEF at, no
<1>5. /\ x \in Found /\ x.route = <<at>> /\ x.res = "some" /\ x.src = s
      /\ x.spec = no /\ x.source_spec = <<>>
  BY <1>4, SiteFields
<1>6. QED
  BY <1>4, <1>5 DEF n, at, no

LEMMA HopType ==
  ASSUME NEW c \in Call, NEW s \in Source, NEW h, NEW p, NEW i, NEW j, HopAt(c, s, h, p, i, j)
  PROVE  /\ h.at = <<p, i, j>> /\ h.at \in Coordinate /\ j \in Nat \ {0}
         /\ h.to = AnswerAt(c, s, p, i).kids[j] /\ h.to \in Source
         /\ h.layer = LayerAt(c, s, p, i, j) /\ h.layer \in Layer
<1>1. /\ Claimant(c, s, p, i) /\ PassAt(c, p) \notin MountPass
      /\ j \in DOMAIN AnswerAt(c, s, p, i).kids /\ AnswerAt(c, s, p, i).kids[j] # Broken
      /\ h = [at |-> <<p, i, j>>, to |-> AnswerAt(c, s, p, i).kids[j],
              layer |-> LayerAt(c, s, p, i, j)]
  BY DEF HopAt, Opens
<1>2. /\ p \in Nat /\ i \in Nat /\ PassAt(c, p) \in Pass /\ OpenerAt(c, p, i) \in Opener
      /\ AnswerAt(c, s, p, i).kids \in Seq(Source \cup {Broken})
  BY <1>1, ClaimType
<1>3. j \in Nat \ {0} /\ AnswerAt(c, s, p, i).kids[j] \in Source
  BY <1>1, <1>2
<1>4. <<p, i, j>> \in Coordinate
  BY <1>2, <1>3, CoordinateOf
<1>5. PassAt(c, p) # "tree"
  BY <1>1 DEF MountPass
<1>6. LayerAt(c, s, p, i, j) \in Layer
  BY <1>2, <1>3, <1>5, LayerType DEF LayerAt
<1>7. QED
  BY <1>1, <1>3, <1>4, <1>6

\* What kind of site x is, from its coordinate.
SiteKind(c, s, x, p, i, j) ==
  /\ x \in Found /\ <<p, i, j>> \in Coordinate /\ x.route = <<<<p, i, j>>>>
  /\ \/ j = 0 /\ Mounts(c, s, x, p, i)
     \/ j = 0 /\ Fails(c, s, x, p, i)
     \/ j > 0 /\ Breaks(c, s, x, p, i, j)
     \/ p = 0 /\ Unreadable(c, s, x)
     \/ p = Len(Passes[c.entry]) + 1 /\ i = 0 /\ j = 0 /\ RawTerminal(c, s, x)

LEMMA SiteType ==
  ASSUME NEW c \in Call, NEW s \in Source, NEW x \in Promise!Sites(c, s)
  PROVE  \E p, i, j : SiteKind(c, s, x, p, i, j)
<1>1. ASSUME NEW p, NEW i, Mounts(c, s, x, p, i) PROVE SiteKind(c, s, x, p, i, 0)
  <2>1. x \in Found /\ <<p, i, 0>> \in Coordinate /\ x.route = <<<<p, i, 0>>>>
    BY <1>1, MountsType
  <2>2. QED
    BY <1>1, <2>1 DEF SiteKind
<1>2. ASSUME NEW p, NEW i, Fails(c, s, x, p, i) PROVE SiteKind(c, s, x, p, i, 0)
  BY <1>2, FailsType DEF SiteKind
<1>3. ASSUME NEW p, NEW i, NEW j, Breaks(c, s, x, p, i, j) PROVE SiteKind(c, s, x, p, i, j)
  <2>1. j \in Nat \ {0}
    BY <1>3, BreaksType
  <2>2. j > 0
    BY <2>1
  <2>3. QED
    BY <1>3, <2>2, BreaksType DEF SiteKind
<1>4. ASSUME Unreadable(c, s, x) PROVE SiteKind(c, s, x, 0, 0, 0)
  BY <1>4, UnreadableType DEF SiteKind
<1>5. ASSUME RawTerminal(c, s, x) PROVE SiteKind(c, s, x, Len(Passes[c.entry]) + 1, 0, 0)
  BY <1>5, RawTerminalType DEF SiteKind
<1>6. QED
  BY <1>1, <1>2, <1>3, <1>4, <1>5, SitesAre

\* A claim's pass is one of the entry's, so it is neither the coordinate of the
\* unreadable source nor that of the raw terminal.
LEMMA ClaimInside ==
  ASSUME NEW c \in Call, NEW s \in Source, NEW p, NEW i, Claimant(c, s, p, i)
  PROVE  p # 0 /\ p # Len(Passes[c.entry]) + 1
<1>1. p \in 1..Len(Passes[c.entry]) /\ Len(Passes[c.entry]) \in 1..6
  BY ClaimType, PassesType DEF Call
<1> DEFINE n == Len(Passes[c.entry])
<1>2. p \in 1..n /\ n \in 1..6
  BY <1>1
<1> HIDE DEF n
<1>3. p # 0 /\ p # n + 1
  BY <1>2
<1>4. QED
  BY <1>3 DEF n

\* A source has one site at most at a coordinate.
LEMMA SameSite ==
  ASSUME NEW c \in Call, NEW s \in Source, NEW x, NEW y, NEW p, NEW i, NEW j,
         SiteKind(c, s, x, p, i, j), SiteKind(c, s, y, p, i, j)
  PROVE  x = y
<1>1. \A z : Mounts(c, s, z, p, i) \/ Fails(c, s, z, p, i) \/ Breaks(c, s, z, p, i, j)
             => p # 0 /\ p # Len(Passes[c.entry]) + 1
  BY ClaimInside DEF Mounts, Fails, Breaks, Opens
<1>2. 0 # Len(Passes[c.entry]) + 1
  <2>1. Len(Passes[c.entry]) \in 1..6
    BY PassesType DEF Call
  <2>2. QED
    BY <2>1
<1>3. ~(j = 0 /\ j > 0)
  OBVIOUS
<1>4. CASE Mounts(c, s, x, p, i) /\ j = 0
  <2>1. Mounts(c, s, y, p, i)
    BY <1>1, <1>3, <1>4 DEF SiteKind, Mounts, Fails
  <2>2. QED
    BY <1>4, <2>1 DEF Mounts
<1>5. CASE Fails(c, s, x, p, i) /\ j = 0
  <2>1. Fails(c, s, y, p, i)
    BY <1>1, <1>3, <1>5 DEF SiteKind, Mounts, Fails
  <2>2. QED
    BY <1>5, <2>1 DEF Fails
<1>6. CASE Breaks(c, s, x, p, i, j) /\ j > 0
  <2>1. Breaks(c, s, y, p, i, j)
    BY <1>1, <1>3, <1>6 DEF SiteKind
  <2>2. QED
    BY <1>6, <2>1 DEF Breaks
<1>7. CASE p = 0 /\ Unreadable(c, s, x)
  <2>1. Unreadable(c, s, y)
    BY <1>1, <1>2, <1>7 DEF SiteKind
  <2>2. QED
    BY <1>7, <2>1 DEF Unreadable
<1>8. CASE p = Len(Passes[c.entry]) + 1 /\ RawTerminal(c, s, x)
  <2>1. RawTerminal(c, s, y)
    BY <1>1, <1>2, <1>8 DEF SiteKind
  <2>2. QED
    BY <1>8, <2>1 DEF RawTerminal
<1>9. QED
  BY <1>4, <1>5, <1>6, <1>7, <1>8 DEF SiteKind

\* A coordinate is not both a site's and a hop's.
LEMMA SiteNotHop ==
  ASSUME NEW c \in Call, NEW s \in Source, NEW x, NEW h, NEW p, NEW i, NEW j,
         SiteKind(c, s, x, p, i, j), HopAt(c, s, h, p, i, j)
  PROVE  FALSE
<1>1. Claimant(c, s, p, i) /\ j \in Nat \ {0}
  BY HopType DEF HopAt, Opens
<1>2. p # 0 /\ p # Len(Passes[c.entry]) + 1 /\ j # 0
  BY <1>1, ClaimInside
<1>3. Breaks(c, s, x, p, i, j)
  BY <1>2 DEF SiteKind
<1>4. QED
  BY <1>3 DEF Breaks, HopAt

LEMMA UnderType ==
  ASSUME NEW h, h.at \in Coordinate, h.layer \in Layer, NEW e \in Found
  PROVE  LET x == Promise!Under(h, e)
         IN  /\ x \in Found
             /\ x.route = <<h.at>> \o e.route /\ x.route[1] = h.at
             /\ x.res = e.res /\ x.src = e.src
             /\ x.spec = <<h.layer>> \o e.spec
             /\ x.source_spec = <<h.layer>> \o e.source_spec
<1> DEFINE route == <<h.at>> \o e.route
           spec == <<h.layer>> \o e.spec
           source_spec == <<h.layer>> \o e.source_spec
           x == Promise!Under(h, e)
<1>1. /\ e.route \in Seq(Coordinate) /\ e.res \in {"some", "err"} /\ e.src \in Source
      /\ e.spec \in Seq(Layer) /\ e.source_spec \in Seq(Layer)
      /\ e = [route |-> e.route, res |-> e.res, src |-> e.src, spec |-> e.spec,
              source_spec |-> e.source_spec]
  BY DEF Found
<1>2. /\ route \in Seq(Coordinate) /\ spec \in Seq(Layer) /\ source_spec \in Seq(Layer)
      /\ route[1] = h.at /\ Len(route) = Len(e.route) + 1
  BY <1>1
<1>3. route # <<>>
  BY <1>1, <1>2
<1>4. x = [e EXCEPT !.route = route, !.spec = spec, !.source_spec = source_spec]
  BY DEF Promise!Under
<1> HIDE DEF route, spec, source_spec, x
<1>5. x = [route |-> route, res |-> e.res, src |-> e.src, spec |-> spec,
           source_spec |-> source_spec]
  BY <1>1, <1>4
<1>6. x \in Found
  BY <1>1, <1>2, <1>3, <1>5 DEF Found
<1>7. /\ x.route = route /\ x.res = e.res /\ x.src = e.src
      /\ x.spec = spec /\ x.source_spec = source_spec
  BY <1>5
<1>8. QED
  BY <1>2, <1>6, <1>7 DEF route, spec, source_spec, x

-----------------------------------------------------------------------------
(***************************************************************************)
(* The sites within a number of layers                                     *)
(***************************************************************************)

\* What a source's sites at level n are, given those of level n - 1.
LEMMA LevelElement ==
  ASSUME NEW c, NEW n \in 1..(MaxDepth + 1), NEW s \in Source, NEW x
  PROVE  x \in Level(c)[n][s] <=>
           \/ x \in Promise!Sites(c, s)
           \/ \E p, i, j, h : /\ HopAt(c, s, h, p, i, j)
                              /\ \E e \in Level(c)[n - 1][h.to] : x = Promise!Under(h, e)
<1>1. Level(c)[n][s] = Grow(c, Level(c)[n - 1], s)
  BY LevelIs
<1> DEFINE below == Level(c)[n - 1]
<1> HIDE DEF below
<1>2. Level(c)[n][s] = Grow(c, below, s)
  BY <1>1 DEF below
<1>3. x \in Grow(c, below, s) <=>
        \/ x \in Promise!Sites(c, s)
        \/ \E h \in Promise!Hops(c, s) : \E e \in below[h.to] : x = Promise!Under(h, e)
  BY DEF Grow
<1>4. (\E h \in Promise!Hops(c, s) : \E e \in below[h.to] : x = Promise!Under(h, e)) <=>
        \E p, i, j, h : /\ HopAt(c, s, h, p, i, j)
                        /\ \E e \in below[h.to] : x = Promise!Under(h, e)
  BY HopsAre
<1>5. QED
  BY <1>2, <1>3, <1>4 DEF below

LEMMA LevelType ==
  ASSUME NEW c \in Call, NEW n \in 0..(MaxDepth + 1), NEW s \in Source
  PROVE  Level(c)[n][s] \subseteq Found
<1> DEFINE N == MaxDepth + 1
           S == {d \in Nat : d \in 0..N => \A t \in Source : Level(c)[d][t] \subseteq Found}
<1>0. N \in Nat
  BY OpenersWellFormed DEF OpenersAssumption
<1>1. 0 \in S
  BY LevelIs
<1>2. ASSUME NEW d \in 0..(N - 1), d \in S PROVE d + 1 \in S
  <2>1. d + 1 \in 1..N /\ d \in 0..N /\ (d + 1) - 1 = d /\ d + 1 \in Nat
    BY <1>0, <1>2
  <2>2. \A t \in Source : Level(c)[d][t] \subseteq Found
    BY <1>2, <2>1
  <2>3. ASSUME NEW t \in Source, NEW x \in Level(c)[d + 1][t] PROVE x \in Found
    <3>1. \/ x \in Promise!Sites(c, t)
          \/ \E p, i, j, h : /\ HopAt(c, t, h, p, i, j)
                             /\ \E e \in Level(c)[d][h.to] : x = Promise!Under(h, e)
      BY <2>1, <2>3, LevelElement
    <3>2. CASE x \in Promise!Sites(c, t)
      BY <3>2, SiteType DEF SiteKind
    <3>3. CASE \E p, i, j, h : /\ HopAt(c, t, h, p, i, j)
                               /\ \E e \in Level(c)[d][h.to] : x = Promise!Under(h, e)
      <4>1. PICK p, i, j, h : /\ HopAt(c, t, h, p, i, j)
                              /\ \E e \in Level(c)[d][h.to] : x = Promise!Under(h, e)
        BY <3>3
      <4>2. h.at \in Coordinate /\ h.to \in Source /\ h.layer \in Layer
        BY <4>1, HopType
      <4>3. PICK e \in Level(c)[d][h.to] : x = Promise!Under(h, e)
        BY <4>1
      <4>4. e \in Found
        BY <2>2, <4>2, <4>3
      <4>5. QED
        BY <4>2, <4>3, <4>4, UnderType
    <3>4. QED
      BY <3>1, <3>2, <3>3
  <2>4. QED
    BY <2>1, <2>3
<1>3. S \in SUBSET Nat
  OBVIOUS
<1> HIDE DEF S
<1>4. 0..N \subseteq S
  BY <1>0, <1>1, <1>2, <1>3, CountUp
<1>5. QED
  BY <1>4 DEF S

\* What kind of element of level n of source s x is, from its coordinate.
LevelKind(c, n, s, x, p, i, j) ==
  /\ x \in Found /\ <<p, i, j>> \in Coordinate /\ x.route[1] = <<p, i, j>>
  /\ \/ x \in Promise!Sites(c, s) /\ SiteKind(c, s, x, p, i, j)
     \/ \E h : /\ HopAt(c, s, h, p, i, j)
               /\ \E e \in Level(c)[n - 1][h.to] : x = Promise!Under(h, e)

LEMMA LevelCases ==
  ASSUME NEW c \in Call, NEW n \in 1..(MaxDepth + 1), NEW s \in Source,
         NEW x \in Level(c)[n][s]
  PROVE  \E p, i, j : LevelKind(c, n, s, x, p, i, j)
<1>1. ASSUME x \in Promise!Sites(c, s)
      PROVE  \E p, i, j : LevelKind(c, n, s, x, p, i, j)
  <2>1. PICK p, i, j : SiteKind(c, s, x, p, i, j)
    BY <1>1, SiteType
  <2>2. x \in Found /\ <<p, i, j>> \in Coordinate /\ x.route[1] = <<p, i, j>>
    BY <2>1 DEF SiteKind
  <2>3. LevelKind(c, n, s, x, p, i, j)
    BY <1>1, <2>1, <2>2 DEF LevelKind
  <2>4. QED
    BY <2>3
<1>2. ASSUME \E p, i, j, h : /\ HopAt(c, s, h, p, i, j)
                             /\ \E e \in Level(c)[n - 1][h.to] : x = Promise!Under(h, e)
      PROVE  \E p, i, j : LevelKind(c, n, s, x, p, i, j)
  <2>1. PICK p, i, j, h : /\ HopAt(c, s, h, p, i, j)
                          /\ \E e \in Level(c)[n - 1][h.to] : x = Promise!Under(h, e)
    BY <1>2
  <2>2. PICK e \in Level(c)[n - 1][h.to] : x = Promise!Under(h, e)
    BY <2>1
  <2>3. h.at = <<p, i, j>> /\ h.at \in Coordinate /\ h.to \in Source /\ h.layer \in Layer
    BY <2>1, HopType
  <2>4. n - 1 \in 0..(MaxDepth + 1)
    BY OpenersWellFormed DEF OpenersAssumption
  <2>5. e \in Found
    BY <2>2, <2>3, <2>4, LevelType
  <2>6. x \in Found /\ x.route[1] = h.at
    BY <2>2, <2>3, <2>5, UnderType
  <2>7. LevelKind(c, n, s, x, p, i, j)
    BY <2>1, <2>3, <2>6 DEF LevelKind
  <2>8. QED
    BY <2>7
<1>3. QED
  BY <1>1, <1>2, LevelElement

-----------------------------------------------------------------------------
(***************************************************************************)
(* A source that leads nowhere has no sites                                *)
(***************************************************************************)

LEMMA SiteEnds ==
  ASSUME NEW c \in Call, NEW s \in Source, NEW x \in Promise!Sites(c, s)
  PROVE  Ends(c, s)
<1>1. ASSUME NEW p, NEW i, Claimant(c, s, p, i)
      PROVE  /\ PassAt(c, p) \in PassesOf(c)
             /\ OpenerAt(c, p, i) \in Elements(Registered[PassAt(c, p)])
             /\ Engaged(c, s, PassAt(c, p), OpenerAt(c, p, i))
  BY <1>1, ClaimType DEF Claimant
<1>2. ASSUME NEW p, NEW i, Mounts(c, s, x, p, i) PROVE Ends(c, s)
  BY <1>1, <1>2 DEF Mounts, Ends
<1>3. ASSUME NEW p, NEW i, Fails(c, s, x, p, i) PROVE Ends(c, s)
  BY <1>1, <1>3 DEF Fails, Ends, AnswerAt
<1>4. ASSUME NEW p, NEW i, NEW j, Breaks(c, s, x, p, i, j) PROVE Ends(c, s)
  <2>1. Claimant(c, s, p, i) /\ PassAt(c, p) # "try"
    BY <1>4 DEF Breaks, Opens
  <2>2. Broken \in Elements(Kids(c, s, OpenerAt(c, p, i)))
    BY <1>4 DEF Breaks, Elements, AnswerAt, Kids
  <2>3. QED
    BY <1>1, <2>1, <2>2 DEF Ends
<1>5. Unreadable(c, s, x) \/ RawTerminal(c, s, x) => Ends(c, s)
  BY DEF Unreadable, RawTerminal, Ends
<1>6. QED
  BY <1>2, <1>3, <1>4, <1>5, SitesAre

LEMMA HopLeads ==
  ASSUME NEW c \in Call, NEW s \in Source, NEW h, NEW p, NEW i, NEW j, HopAt(c, s, h, p, i, j)
  PROVE  Leads(c, s, h.to)
<1>1. Claimant(c, s, p, i) /\ PassAt(c, p) \notin MountPass /\ AnswerAt(c, s, p, i).ok
  BY DEF HopAt, Opens
<1>2. /\ PassAt(c, p) \in PassesOf(c)
      /\ OpenerAt(c, p, i) \in Elements(Registered[PassAt(c, p)])
      /\ Engaged(c, s, PassAt(c, p), OpenerAt(c, p, i))
      /\ Kids(c, s, OpenerAt(c, p, i)) = AnswerAt(c, s, p, i).kids
  BY <1>1, ClaimType DEF Claimant
<1>3. /\ j \in DOMAIN Kids(c, s, OpenerAt(c, p, i))
      /\ Kids(c, s, OpenerAt(c, p, i))[j] = h.to
  BY <1>2 DEF HopAt
<1>4. Yields(c, s, PassAt(c, p), OpenerAt(c, p, i), j, h.to)
  BY <1>1, <1>2, <1>3 DEF Yields, AnswerAt
<1>5. QED
  BY <1>2, <1>3, <1>4 DEF Leads

\* Below a source that leads nowhere, nothing leads anywhere either.
LEMMA BarrenBelow ==
  ASSUME NEW c, NEW s \in Source, NEW d \in Nat, d <= MaxDepth, Barren(c, s, d)
  PROVE  /\ ~Ends(c, s)
         /\ \A t \in Source : Leads(c, s, t) => Barren(c, t, d + 1)
<1>1. MaxDepth \in Nat
  BY OpenersWellFormed DEF OpenersAssumption
<1>2. ~Ends(c, s)
  <2> DEFINE path == [k \in 1..1 |-> s]
  <2>1. path \in [1..1 -> Source] /\ path[1] = s /\ 1 \in 1..(MaxDepth + 1 - d)
    BY <1>1
  <2>2. \A k \in 1..(1 - 1) : Leads(c, path[k], path[k + 1])
    OBVIOUS
  <2> HIDE DEF path
  <2>3. QED
    BY <2>1, <2>2 DEF Barren
<1>3. ASSUME NEW t \in Source, Leads(c, s, t) PROVE Barren(c, t, d + 1)
  <2>1. SUFFICES ASSUME NEW n \in 1..(MaxDepth + 1 - (d + 1)), NEW path \in [1..n -> Source],
                        path[1] = t,
                        \A k \in 1..(n - 1) : Leads(c, path[k], path[k + 1]),
                        Ends(c, path[n])
                 PROVE  FALSE
    BY DEF Barren
  <2> DEFINE q == [k \in 1..(n + 1) |-> IF k = 1 THEN s ELSE path[k - 1]]
  <2>2. n + 1 \in 1..(MaxDepth + 1 - d) /\ n \in Nat \ {0} /\ (n + 1) - 1 = n
    BY <1>1
  <2>3. \A k \in 2..(n + 1) : q[k] = path[k - 1] /\ k - 1 \in 1..n
    BY <2>2
  <2>4. q[1] = s /\ q[n + 1] = path[n] /\ q \in [1..(n + 1) -> Source]
    <3>1. \A k \in 1..(n + 1) : k # 1 => k - 1 \in 1..n
      BY <2>2
    <3>2. QED
      BY <2>2, <3>1
  <2>5. \A k \in 1..(n + 1 - 1) : Leads(c, q[k], q[k + 1])
    <3>1. SUFFICES ASSUME NEW k \in 1..n PROVE Leads(c, q[k], q[k + 1])
      BY SMTT(40), <2>2
    <3>2. CASE k = 1
      <4>1. q[k] = s /\ q[k + 1] = t
        BY <2>1, <2>2, <2>4, <3>2
      <4>2. QED
        BY <1>3, <4>1
    <3>3. CASE k # 1
      <4>1. /\ k \in 2..(n + 1) /\ k + 1 \in 2..(n + 1) /\ k - 1 \in 1..(n - 1)
            /\ (k + 1) - 1 = k /\ (k - 1) + 1 = k
        BY <2>2, <3>3
      <4>2. q[k] = path[k - 1] /\ q[k + 1] = path[k]
        BY <2>3, <4>1
      <4>3. QED
        BY <2>1, <4>1, <4>2
    <3>4. QED
      BY <3>2, <3>3
  <2> HIDE DEF q
  <2>6. QED
    BY <2>1, <2>2, <2>4, <2>5 DEF Barren
<1>4. QED
  BY <1>2, <1>3

LEMMA BarrenIsEmpty ==
  ASSUME NEW c \in Call, NEW d \in 0..(MaxDepth + 1), NEW s \in Source, Barren(c, s, d)
  PROVE  Level(c)[MaxDepth + 1 - d][s] = {}
<1> DEFINE N == MaxDepth + 1
           S == {n \in Nat : n \in 0..N =>
                   \A t \in Source : Barren(c, t, N - n) => Level(c)[n][t] = {}}
<1>0. MaxDepth \in Nat /\ N \in Nat
  BY OpenersWellFormed DEF OpenersAssumption
<1>1. 0 \in S
  BY LevelIs
<1>2. ASSUME NEW n \in 0..(N - 1), n \in S PROVE n + 1 \in S
  <2>1. /\ n + 1 \in 1..N /\ n \in 0..N /\ (n + 1) - 1 = n /\ n + 1 \in Nat
        /\ N - (n + 1) \in Nat /\ N - (n + 1) <= MaxDepth /\ (N - (n + 1)) + 1 = N - n
    BY <1>0, <1>2
  <2>2. \A t \in Source : Barren(c, t, N - n) => Level(c)[n][t] = {}
    BY <1>2, <2>1
  <2>3. ASSUME NEW t \in Source, Barren(c, t, N - (n + 1)), NEW x \in Level(c)[n + 1][t]
        PROVE  FALSE
    <3>1. /\ ~Ends(c, t)
          /\ \A u \in Source : Leads(c, t, u) => Barren(c, u, N - n)
      BY <2>1, <2>3, BarrenBelow
    <3>2. \/ x \in Promise!Sites(c, t)
          \/ \E p, i, j, h : /\ HopAt(c, t, h, p, i, j)
                             /\ \E e \in Level(c)[n][h.to] : x = Promise!Under(h, e)
      BY <2>1, <2>3, LevelElement
    <3>3. PICK p, i, j, h : /\ HopAt(c, t, h, p, i, j)
                            /\ \E e \in Level(c)[n][h.to] : x = Promise!Under(h, e)
      BY <3>1, <3>2, SiteEnds
    <3>4. h.to \in Source /\ Leads(c, t, h.to)
      BY <3>3, HopType, HopLeads
    <3>5. QED
      BY <2>2, <3>1, <3>3, <3>4
  <2>4. QED
    BY <2>1, <2>3
<1>3. S \in SUBSET Nat
  OBVIOUS
<1> HIDE DEF S
<1>4. 0..N \subseteq S
  BY <1>0, <1>1, <1>2, <1>3, CountUp
<1> DEFINE n == N - d
<1>5. n \in 0..N /\ N - n = d
  BY <1>0
<1> HIDE DEF n
<1>6. \A t \in Source : Barren(c, t, N - n) => Level(c)[n][t] = {}
  BY <1>4, <1>5 DEF S
<1>7. Level(c)[n][s] = {}
  BY <1>5, <1>6
<1>8. n = MaxDepth + 1 - d
  BY <1>0 DEF n
<1>9. QED
  BY <1>7, <1>8

-----------------------------------------------------------------------------
(***************************************************************************)
(* The first site of a level                                               *)
(***************************************************************************)

\* A smaller first coordinate decides.
LEMMA BeforeAt ==
  ASSUME NEW x \in Found, NEW y \in Found, Promise!Smaller(x.route[1], y.route[1])
  PROVE  Promise!Before(x.route, y.route)
<1>1. /\ x.route \in Seq(Coordinate) /\ x.route # <<>>
      /\ y.route \in Seq(Coordinate) /\ y.route # <<>>
  BY DEF Found
<1>2. 1 \in (DOMAIN x.route) \cap (DOMAIN y.route) /\ 1..(1 - 1) = {}
  BY <1>1
<1>3. QED
  BY <1>2 DEF Promise!Before

\* Equal first coordinates leave it to the rest of the routes.
LEMMA BeforeUnder ==
  ASSUME NEW a \in Coordinate, NEW r \in Seq(Coordinate), NEW q \in Seq(Coordinate),
         Promise!Before(r, q)
  PROVE  Promise!Before(<<a>> \o r, <<a>> \o q)
<1> DEFINE R == <<a>> \o r
           Q == <<a>> \o q
<1>1. PICK k \in (DOMAIN r) \cap (DOMAIN q) :
        Promise!Smaller(r[k], q[k]) /\ \A m \in 1..(k - 1) : r[m] = q[m]
  BY DEF Promise!Before
<1>2. /\ DOMAIN R = 1..(Len(r) + 1) /\ DOMAIN Q = 1..(Len(q) + 1)
      /\ R[1] = a /\ Q[1] = a
      /\ \A m \in 1..Len(r) : R[m + 1] = r[m]
      /\ \A m \in 1..Len(q) : Q[m + 1] = q[m]
      /\ k \in 1..Len(r) /\ k \in 1..Len(q)
  OBVIOUS
<1> HIDE DEF R, Q
<1>3. k + 1 \in (DOMAIN R) \cap (DOMAIN Q) /\ Promise!Smaller(R[k + 1], Q[k + 1])
  BY <1>1, <1>2
<1>4. \A m \in 1..(k + 1 - 1) : R[m] = Q[m]
  <2>1. SUFFICES ASSUME NEW m \in 1..k PROVE R[m] = Q[m]
    BY <1>2
  <2>2. CASE m = 1
    BY <1>2, <2>2
  <2>3. CASE m # 1
    <3>1. m - 1 \in 1..(k - 1) /\ m - 1 \in 1..Len(r) /\ m - 1 \in 1..Len(q) /\ (m - 1) + 1 = m
      BY <1>2, <2>3
    <3>2. QED
      BY <1>1, <1>2, <3>1
  <2>4. QED
    BY <2>2, <2>3
<1>5. Promise!Before(R, Q)
  BY <1>3, <1>4 DEF Promise!Before
<1>6. QED
  BY <1>5 DEF R, Q

\* A site of the source itself that nothing precedes.
LEMMA FirstAt ==
  ASSUME NEW c \in Call, NEW n \in 1..(MaxDepth + 1), NEW s \in Source,
         NEW x \in Promise!Sites(c, s),
         \A y \in Level(c)[n][s] : ~Promise!Smaller(y.route[1], x.route[1])
  PROVE  First(Level(c)[n][s], x)
<1>1. x \in Level(c)[n][s]
  BY LevelElement
<1>2. PICK p, i, j : SiteKind(c, s, x, p, i, j)
  BY SiteType
<1>3. x \in Found /\ <<p, i, j>> \in Coordinate /\ x.route[1] = <<p, i, j>>
  BY <1>2 DEF SiteKind
<1>4. ASSUME NEW y \in Level(c)[n][s] PROVE y = x \/ Promise!Before(x.route, y.route)
  <2>0. PICK q, m, l : LevelKind(c, n, s, y, q, m, l)
    BY LevelCases
  <2>1. /\ y \in Found /\ <<q, m, l>> \in Coordinate /\ y.route[1] = <<q, m, l>>
        /\ SiteKind(c, s, y, q, m, l) \/ \E h : HopAt(c, s, h, q, m, l)
    BY <2>0 DEF LevelKind
  <2>2. CASE Promise!Smaller(x.route[1], y.route[1])
    BY <1>3, <2>1, <2>2, BeforeAt
  <2>3. CASE x.route[1] = y.route[1]
    <3>1. p = q /\ i = m /\ j = l
      BY <1>3, <2>1, <2>3
    <3>2. QED
      BY <1>2, <2>1, <3>1, SameSite, SiteNotHop
  <2>4. x.route[1] = y.route[1] \/ Promise!Smaller(x.route[1], y.route[1])
    <3>1. x.route[1] \in Coordinate /\ y.route[1] \in Coordinate
      BY <1>3, <2>1
    <3>2. QED
      BY <3>1, SmallerOrder
  <2>5. QED
    BY <2>2, <2>3, <2>4
<1>5. QED
  BY <1>1, <1>4 DEF First

\* The first site of a child that nothing precedes.
LEMMA FirstUnder ==
  ASSUME NEW c \in Call, NEW n \in 1..(MaxDepth + 1), NEW s \in Source,
         NEW h, NEW p, NEW i, NEW j, HopAt(c, s, h, p, i, j),
         NEW e, First(Level(c)[n - 1][h.to], e),
         \A y \in Level(c)[n][s] : ~Promise!Smaller(y.route[1], h.at)
  PROVE  First(Level(c)[n][s], Promise!Under(h, e))
<1> DEFINE x == Promise!Under(h, e)
<1>1. /\ h.at = <<p, i, j>> /\ h.at \in Coordinate /\ h.to \in Source /\ h.layer \in Layer
  BY HopType
<1>2. n - 1 \in 0..(MaxDepth + 1)
  BY OpenersWellFormed DEF OpenersAssumption
<1>3. Level(c)[n - 1][h.to] \subseteq Found /\ e \in Level(c)[n - 1][h.to] /\ e \in Found
  BY <1>1, <1>2, LevelType DEF First
<1>4. x \in Found /\ x.route = <<h.at>> \o e.route /\ x.route[1] = h.at
  BY <1>1, <1>3, UnderType
<1>5. x \in Level(c)[n][s]
  BY <1>3, LevelElement
<1> HIDE DEF x
<1>6. ASSUME NEW y \in Level(c)[n][s] PROVE y = x \/ Promise!Before(x.route, y.route)
  <2>0. PICK q, m, l : LevelKind(c, n, s, y, q, m, l)
    BY LevelCases
  <2>1. /\ y \in Found /\ <<q, m, l>> \in Coordinate /\ y.route[1] = <<q, m, l>>
        /\ \/ SiteKind(c, s, y, q, m, l)
           \/ \E g : /\ HopAt(c, s, g, q, m, l)
                     /\ \E f \in Level(c)[n - 1][g.to] : y = Promise!Under(g, f)
    BY <2>0 DEF LevelKind
  <2>2. CASE Promise!Smaller(h.at, y.route[1])
    BY <1>4, <2>1, <2>2, BeforeAt
  <2>3. CASE h.at = y.route[1]
    <3>1. p = q /\ i = m /\ j = l
      BY <1>1, <2>1, <2>3
    <3>2. PICK g : /\ HopAt(c, s, g, p, i, j)
                   /\ \E f \in Level(c)[n - 1][g.to] : y = Promise!Under(g, f)
      BY <2>1, <3>1, SiteNotHop
    <3>3. g = h
      BY <3>2 DEF HopAt
    <3>4. PICK f \in Level(c)[n - 1][h.to] : y = Promise!Under(h, f)
      BY <3>2, <3>3
    <3>5. CASE f = e
      BY <3>4, <3>5 DEF x
    <3>6. CASE Promise!Before(e.route, f.route)
      <4>1. f \in Found
        BY <1>3
      <4>2. e.route \in Seq(Coordinate) /\ f.route \in Seq(Coordinate)
        BY <1>3, <4>1 DEF Found
      <4>3. y.route = <<h.at>> \o f.route
        BY <1>1, <3>4, <4>1, UnderType
      <4>4. QED
        BY <1>1, <1>4, <3>6, <4>2, <4>3, BeforeUnder
    <3>7. QED
      BY <3>5, <3>6 DEF First
  <2>4. h.at = y.route[1] \/ Promise!Smaller(h.at, y.route[1])
    <3>1. y.route[1] \in Coordinate
      BY <2>1
    <3>2. QED
      BY <1>1, <3>1, SmallerOrder
  <2>5. QED
    BY <2>2, <2>3, <2>4
<1>7. QED
  BY <1>5, <1>6 DEF First, x

-----------------------------------------------------------------------------
(***************************************************************************)
(* Where a record's cursor is among the sites of its source                *)
(***************************************************************************)

\* The coordinate a record is at: the last resort goes through the indices it
\* recorded.
Rank(c, f) == IF PassName(c, f) = "try" THEN f.attempts[f.i] ELSE f.i

\* The schemes are recorded in their order, by the signature pass only.
Ordered(c, f) ==
  /\ \A m, n \in DOMAIN f.attempts : m < n => f.attempts[m] < f.attempts[n]
  /\ ~PastSig(c, f) => \A m \in DOMAIN f.attempts : InSig(c, f) /\ f.attempts[m] < f.i

Below(f) == MaxDepth + 1 - f.depth

Sub(c, f) == Level(c)[Below(f)][f.src]

\* A site or hop of a level is not spent, nor is the child it belongs to.
Live(c, s, d, p, i, j) ==
  /\ Claimant(c, s, p, i)
  /\ ~Spent(c, s, d, PassAt(c, p), OpenerAt(c, p, i))
  /\ Opens(c, s, p, i) => /\ j \in DOMAIN AnswerAt(c, s, p, i).kids
                          /\ ~KidSpent(c, d, PassAt(c, p), AnswerAt(c, s, p, i).kids[j])

LEMMA LevelLive ==
  ASSUME NEW c \in Call, NEW d \in Nat, d <= MaxDepth, NEW s \in Source,
         NEW x, NEW p, NEW i, NEW j, LevelKind(c, MaxDepth + 1 - d, s, x, p, i, j)
  PROVE  \/ p = 0 /\ c.entry # "tree" /\ ~c.evidence[s].readable
         \/ p = Len(Passes[c.entry]) + 1 /\ c.entry = "source"
         \/ Live(c, s, d, p, i, j)
<1> DEFINE n == MaxDepth + 1 - d
<1>0. LevelKind(c, n, s, x, p, i, j)
  OBVIOUS
<1> HIDE DEF n
<1>1. CASE SiteKind(c, s, x, p, i, j)
  <2>1. CASE Mounts(c, s, x, p, i)
    BY <2>1 DEF Mounts, Live, Spent, Claimant, Opens
  <2>2. CASE Fails(c, s, x, p, i)
    BY <2>2 DEF Fails, Live, Spent, Claimant, Opens, AnswerAt
  <2>3. CASE Breaks(c, s, x, p, i, j)
    <3>1. /\ Claimant(c, s, p, i) /\ PassAt(c, p) # "try"
          /\ j \in DOMAIN AnswerAt(c, s, p, i).kids /\ AnswerAt(c, s, p, i).kids[j] = Broken
      BY <2>3 DEF Breaks, Opens
    <3>2. ~KidSpent(c, d, PassAt(c, p), AnswerAt(c, s, p, i).kids[j])
      BY <3>1 DEF KidSpent
    <3>3. AnswerAt(c, s, p, i).kids[j] \in Elements(Kids(c, s, OpenerAt(c, p, i)))
      BY <3>1 DEF Elements, Kids, AnswerAt
    <3>4. QED
      BY <3>1, <3>2, <3>3 DEF Live, Spent, Claimant
  <2>4. QED
    BY <1>1, <2>1, <2>2, <2>3 DEF SiteKind, Unreadable, RawTerminal
<1>2. ASSUME NEW h, HopAt(c, s, h, p, i, j),
             \E e \in Level(c)[n - 1][h.to] : x = Promise!Under(h, e)
      PROVE  Live(c, s, d, p, i, j)
  <2>1. MaxDepth \in Nat
    BY OpenersWellFormed DEF OpenersAssumption
  <2>2. /\ n - 1 = MaxDepth + 1 - (d + 1) /\ d + 1 \in 0..(MaxDepth + 1)
        /\ h.to = AnswerAt(c, s, p, i).kids[j] /\ h.to \in Source
    BY <1>2, <2>1, HopType DEF n
  <2>3. ~Barren(c, h.to, d + 1)
    <3>1. Level(c)[MaxDepth + 1 - (d + 1)][h.to] # {}
      BY <1>2, <2>2
    <3>2. QED
      BY <2>2, <3>1, BarrenIsEmpty
  <2>4. h.to # Broken
    BY <2>2, OpenersWellFormed DEF OpenersAssumption
  <2>5. ~KidSpent(c, d, PassAt(c, p), h.to)
    BY <2>3, <2>4 DEF KidSpent
  <2>6. Claimant(c, s, p, i) /\ j \in DOMAIN AnswerAt(c, s, p, i).kids
    BY <1>2 DEF HopAt, Opens
  <2>7. h.to \in Elements(Kids(c, s, OpenerAt(c, p, i)))
    BY <2>2, <2>6 DEF Elements, Kids, AnswerAt
  <2>8. QED
    BY <2>2, <2>5, <2>6, <2>7 DEF Live, Spent, Claimant
<1>3. QED
  BY <1>0, <1>1, <1>2 DEF LevelKind

\* Nothing in an earlier pass than the record's is left.
LEMMA NoEarlierPass ==
  ASSUME NEW c \in Call, NEW f, FrameOK(c, f), Passed(c, f), f.pass > 0,
         NEW x, NEW p, NEW i, NEW j, LevelKind(c, Below(f), f.src, x, p, i, j)
  PROVE  /\ p \in Nat /\ i \in Nat /\ j \in Nat /\ p >= f.pass
         /\ p = f.pass => Live(c, f.src, f.depth, p, i, j) /\ PassAt(c, p) = PassName(c, f)
         /\ p > Len(Passes[c.entry]) => p = Len(Passes[c.entry]) + 1
<1>1. /\ f.src \in Source /\ f.depth \in Nat /\ f.depth <= MaxDepth
      /\ f.pass \in Nat /\ f.pass \in 1..Len(Passes[c.entry])
  BY DEF FrameOK, DepthOK, Frame
<1>2. <<p, i, j>> \in Coordinate
  BY DEF LevelKind
<1>3. p \in Nat /\ i \in Nat /\ j \in Nat
  BY <1>2 DEF Coordinate
<1>4. \/ p = 0 /\ c.entry # "tree" /\ ~c.evidence[f.src].readable
      \/ p = Len(Passes[c.entry]) + 1 /\ c.entry = "source"
      \/ Live(c, f.src, f.depth, p, i, j)
  BY <1>1, LevelLive DEF Below
<1>5. ~(p = 0 /\ c.entry # "tree" /\ ~c.evidence[f.src].readable)
  BY DEF Passed, CursorOK
<1>6. ASSUME Live(c, f.src, f.depth, p, i, j) PROVE p >= f.pass /\ p \in 1..Len(Passes[c.entry])
  <2>1. p \in 1..Len(Passes[c.entry]) /\ OpenerAt(c, p, i) \in Elements(Registered[PassAt(c, p)])
    BY <1>1, <1>6, ClaimType DEF Live
  <2>2. ~Spent(c, f.src, f.depth, PassAt(c, p), OpenerAt(c, p, i))
    BY <1>6 DEF Live
  <2>3. p \notin 1..(f.pass - 1)
    BY <2>1, <2>2 DEF Passed, PassesSpent, PassAt
  <2>4. QED
    BY <1>1, <2>1, <2>3
<1> DEFINE n == Len(Passes[c.entry])
<1>7. n \in Nat
  BY PassesType DEF Call
<1>8. f.pass <= n
  BY <1>1, <1>7
<1>9. /\ (p = n + 1 /\ c.entry = "source") \/ Live(c, f.src, f.depth, p, i, j)
      /\ Live(c, f.src, f.depth, p, i, j) => p >= f.pass /\ p <= n
  BY <1>4, <1>5, <1>6
<1> HIDE DEF n
<1>10. /\ p >= f.pass
       /\ p = f.pass => Live(c, f.src, f.depth, p, i, j)
       /\ p > n => p = n + 1
  BY <1>1, <1>3, <1>7, <1>8, <1>9
<1>11. QED
  BY <1>3, <1>10 DEF n, PassAt, PassName

\* A pass that is done leaves nothing of its own.
LEMMA NothingInPass ==
  ASSUME NEW c \in Call, NEW f, FrameOK(c, f), Passed(c, f), f.pass > 0,
         f.i > Len(Line(c, f)),
         NEW x, NEW p, NEW i, NEW j, LevelKind(c, Below(f), f.src, x, p, i, j)
  PROVE  p > f.pass /\ p \in Nat
<1>1. /\ p \in Nat /\ p >= f.pass /\ f.pass \in Nat
      /\ p = f.pass => Live(c, f.src, f.depth, p, i, j) /\ PassAt(c, p) = PassName(c, f)
  BY NoEarlierPass DEF FrameOK, Frame
<1>2. ASSUME p = f.pass PROVE FALSE
  <2>1. /\ Claimant(c, f.src, p, i) /\ PassAt(c, p) = PassName(c, f) /\ f.src \in Source
        /\ ~Spent(c, f.src, f.depth, PassAt(c, p), OpenerAt(c, p, i))
    BY <1>1, <1>2 DEF Live, FrameOK, Frame
  <2>2. OpenerAt(c, p, i) \in Elements(Registered[PassName(c, f)])
    BY <2>1, ClaimType
  <2>3. QED
    BY <2>1, <2>2, PassDone
<1>3. QED
  BY <1>1, <1>2

\* The opener at a record's cursor, by its index in the registry.
LEMMA RankOf ==
  ASSUME NEW c \in Call, NEW f, FrameOK(c, f), f.pass > 0, f.i <= Len(Line(c, f))
  PROVE  /\ Rank(c, f) \in DOMAIN Registered[PassName(c, f)]
         /\ Rank(c, f) \in Nat
         /\ Line(c, f)[f.i] = Registered[PassName(c, f)][Rank(c, f)]
         /\ PassName(c, f) = "try" =>
              /\ f.i \in DOMAIN f.attempts
              /\ AnswerOf(c, f.src, Line(c, f)[f.i]).verdict = "Maybe"
<1>1. /\ f.i \in Nat \ {0} /\ f.attempts \in Seq(Nat)
      /\ PassName(c, f) \in Pass /\ Line(c, f) \in Seq(Opener)
  BY LineType DEF FrameOK, Frame
<1>2. f.i \in DOMAIN Line(c, f)
  BY <1>1
<1>3. Registered[PassName(c, f)] \in Seq(Opener)
  BY <1>1, RegisteredType
<1>4. CASE PassName(c, f) # "try"
  <2>1. Line(c, f) = Registered[PassName(c, f)] /\ Rank(c, f) = f.i
    BY <1>4 DEF Line, Rank
  <2>2. QED
    BY <1>1, <1>2, <1>4, <2>1
<1>5. CASE PassName(c, f) = "try"
  <2>1. /\ Line(c, f) = [k \in DOMAIN f.attempts |-> EncryptionLayers[f.attempts[k]]]
        /\ Rank(c, f) = f.attempts[f.i] /\ Registered[PassName(c, f)] = EncryptionLayers
    BY <1>5 DEF Line, Rank, Registered
  <2>2. f.i \in DOMAIN f.attempts /\ Line(c, f)[f.i] = EncryptionLayers[f.attempts[f.i]]
    BY <1>2, <2>1
  <2>3. /\ f.attempts[f.i] \in DOMAIN EncryptionLayers
        /\ AnswerOf(c, f.src, EncryptionLayers[f.attempts[f.i]]).verdict = "Maybe"
    BY <2>2 DEF FrameOK, AttemptsOK
  <2>4. f.attempts[f.i] \in Nat
    BY <1>1, <2>2
  <2>5. QED
    BY <2>1, <2>2, <2>3, <2>4
<1>6. QED
  BY <1>4, <1>5

\* Nothing left in the record's pass is registered before the opener it is at.
LEMMA NoEarlierOpener ==
  ASSUME NEW c \in Call, NEW f, FrameOK(c, f), Passed(c, f), Ordered(c, f), f.pass > 0,
         f.i <= Len(Line(c, f)),
         NEW p, NEW i \in Nat, NEW j, p = f.pass, Live(c, f.src, f.depth, p, i, j)
  PROVE  /\ i >= Rank(c, f)
         /\ i = Rank(c, f) => OpenerAt(c, p, i) = Line(c, f)[f.i]
<1>1. /\ f.src \in Source /\ f.i \in Nat \ {0} /\ f.attempts \in Seq(Nat)
      /\ f.pass \in 1..Len(Passes[c.entry]) /\ PassAt(c, p) = PassName(c, f)
  BY DEF FrameOK, Frame, PassAt, PassName
<1>2. /\ Claimant(c, f.src, p, i)
      /\ ~Spent(c, f.src, f.depth, PassName(c, f), OpenerAt(c, p, i))
      /\ OpenerAt(c, p, i) = Registered[PassName(c, f)][i]
      /\ i \in DOMAIN Registered[PassName(c, f)]
  BY <1>1 DEF Live, Claimant, OpenerAt
<1>3. \A m \in 1..(f.i - 1) : Spent(c, f.src, f.depth, PassName(c, f), Line(c, f)[m])
  BY DEF Passed, OpenersSpent
<1>4. Rank(c, f) \in Nat /\ Line(c, f)[f.i] = Registered[PassName(c, f)][Rank(c, f)]
  BY RankOf
<1>5. CASE PassName(c, f) # "try"
  <2>1. Line(c, f) = Registered[PassName(c, f)] /\ Rank(c, f) = f.i
    BY <1>5 DEF Line, Rank
  <2>2. i \notin 1..(f.i - 1)
    BY <1>2, <1>3, <2>1
  <2>3. i > 0
    BY <1>1, <1>2, ClaimType
  <2>4. QED
    BY <1>1, <1>2, <1>4, <2>1, <2>2, <2>3
<1>6. CASE PassName(c, f) = "try"
  <2>1. /\ Line(c, f) = [k \in DOMAIN f.attempts |-> EncryptionLayers[f.attempts[k]]]
        /\ Rank(c, f) = f.attempts[f.i] /\ Registered[PassName(c, f)] = EncryptionLayers
        /\ f.i \in DOMAIN f.attempts
    BY <1>6, RankOf DEF Line, Rank, Registered
  <2>2. AnswerOf(c, f.src, EncryptionLayers[i]).verdict = "Maybe"
    BY <1>1, <1>2, <1>6, <2>1 DEF Claimant, Engaged
  <2>3. PICK m \in DOMAIN f.attempts : f.attempts[m] = i
    <3>1. PastSig(c, f) /\ i \in DOMAIN EncryptionLayers
      BY <1>1, <1>2, <1>6, <2>1, TryPastSig
    <3>2. QED
      BY <2>2, <3>1 DEF Passed, AttemptsComplete
  <2>4. m \notin 1..(f.i - 1)
    <3>1. Line(c, f)[m] = OpenerAt(c, p, i)
      BY <1>2, <2>1, <2>3
    <3>2. QED
      BY <1>2, <1>3, <3>1
  <2>5. m \in Nat \ {0} /\ (m = f.i \/ f.i < m)
    BY SMTT(40), <1>1, <2>4
  <2>6. f.i < m => f.attempts[f.i] < i
    BY <2>1, <2>3 DEF Ordered
  <2>7. QED
    BY <1>2, <1>4, <2>1, <2>3, <2>5, <2>6
<1>7. QED
  BY <1>5, <1>6

\* Nothing a record's source holds comes before its cursor.
LEMMA NothingBefore ==
  ASSUME NEW c \in Call, NEW f, FrameOK(c, f), Passed(c, f), Ordered(c, f), f.pass > 0,
         f.i <= Len(Line(c, f)), NEW x \in Sub(c, f)
  PROVE  ~Promise!Smaller(x.route[1], <<f.pass, Rank(c, f), f.j>>)
<1>1. /\ f.src \in Source /\ f.j \in Nat /\ f.pass \in Nat /\ f.pass \in 1..Len(Passes[c.entry])
      /\ f.depth \in Nat /\ f.depth <= MaxDepth
  BY DEF FrameOK, DepthOK, Frame
<1>2. Below(f) \in 1..(MaxDepth + 1)
  BY <1>1, OpenersWellFormed DEF OpenersAssumption, Below
<1>3. PICK p, i, j : LevelKind(c, Below(f), f.src, x, p, i, j)
  BY <1>1, <1>2, LevelCases DEF Sub
<1>4. x.route[1] = <<p, i, j>>
  BY <1>3 DEF LevelKind
<1>5. /\ p \in Nat /\ i \in Nat /\ j \in Nat /\ p >= f.pass
      /\ p = f.pass => Live(c, f.src, f.depth, p, i, j) /\ PassAt(c, p) = PassName(c, f)
  BY <1>3, NoEarlierPass
<1>6. p = f.pass => i >= Rank(c, f)
  BY <1>5, NoEarlierOpener
<1>7. Rank(c, f) \in Nat
  BY RankOf
<1>8. ASSUME p = f.pass, i = Rank(c, f) PROVE j >= f.j
  <2>1. SUFFICES ASSUME f.j > 0, j < f.j PROVE FALSE
    BY <1>1, <1>5
  <2>2. /\ OpenerAt(c, p, i) = Line(c, f)[f.i] /\ PassAt(c, p) = PassName(c, f)
        /\ Live(c, f.src, f.depth, p, i, j)
    BY <1>5, <1>8, NoEarlierOpener
  <2>3. Opened(c, f)
    BY <2>1 DEF FrameOK
  <2>4. Opens(c, f.src, p, i)
    BY <2>2, <2>3 DEF Opened, Opens, Live, AnswerAt
  <2>5. /\ j \in DOMAIN AnswerAt(c, f.src, p, i).kids
        /\ ~KidSpent(c, f.depth, PassName(c, f), AnswerAt(c, f.src, p, i).kids[j])
        /\ AnswerAt(c, f.src, p, i).kids \in Seq(Source \cup {Broken})
    BY <1>1, <2>2, <2>4, ClaimType DEF Live
  <2>6. j \in 1..(f.j - 1)
    BY <1>1, <2>1, <2>5
  <2>7. AnswerAt(c, f.src, p, i).kids = KidsOf(c, f)
    BY <2>2 DEF AnswerAt, KidsOf, Kids
  <2>8. QED
    BY <2>5, <2>6, <2>7 DEF Passed, KidsSpent
<1>9. QED
  <2> DEFINE a == <<p, i, j>>
             b == <<f.pass, Rank(c, f), f.j>>
  <2>1. a[1] = p /\ a[2] = i /\ a[3] = j /\ b[1] = f.pass /\ b[2] = Rank(c, f) /\ b[3] = f.j
    OBVIOUS
  <2> HIDE DEF a, b
  <2>2. ~Promise!Smaller(a, b)
    BY <1>1, <1>5, <1>6, <1>7, <1>8, <2>1, SmallerIs
  <2>3. QED
    BY <1>4, <2>2 DEF a, b

-----------------------------------------------------------------------------
(***************************************************************************)
(* The invariant of the refinement, on top of SInv                         *)
(***************************************************************************)

\* The layer a record pushes for the child it is at.
ChildLayer(c, f) == LayerOf(c, f.src, PassName(c, f), Line(c, f)[f.i], f.j)

RecordOK(c, f) == Ordered(c, f) /\ (c.entry = "tree" => f.pass > 0)

\* Each record's locator is its caller's, extended by the layer of the child
\* the caller is at.
Traced(c, st) ==
  /\ \A k \in 1..Len(st) : RecordOK(c, st[k])
  /\ \A k \in 1..(Len(st) - 1) : st[k + 1].spec = Append(st[k].spec, ChildLayer(c, st[k]))

\* r is what a record whose locator is spec returns for site e.
Reports(c, r, e, spec) ==
  \/ e.res = "err" /\ r = Promise!Answers("err", c)
  \/ e.res = "some" /\ r = Some(e.src, spec \o e.spec, spec \o e.source_spec)

\* What the innermost record returns is the first of the sites below it.
FirstOK(c, f, r) == \E e : First(Sub(c, f), e) /\ Reports(c, r, e, f.spec)

FoundOK(c, st, r) ==
  /\ r.res = "none" => r = Promise!Answers("none", c)
  /\ r.res \in {"some", "err"} /\ st # <<>> => FirstOK(c, st[Len(st)], r)

DoneOK(c, st, r) == st = <<>> => r.res # "pending" /\ r = Promise!Promised(c)

RInv == SInv /\ Traced(call, stack) /\ FoundOK(call, stack, ret) /\ DoneOK(call, stack, ret)

-----------------------------------------------------------------------------
(***************************************************************************)
(* Records: the order of the attempts                                      *)
(***************************************************************************)

\* The signature pass occurs once.
LEMMA SigOnce ==
  ASSUME NEW c \in Call, NEW f, f.pass \in 1..Len(Passes[c.entry]), InSig(c, f)
  PROVE  ~PastSig(c, f)
<1>1. PassName(c, f) = "sig" /\ c.entry \in Entry
  BY DEF InSig, Call
<1>2. c.entry # "source"
  <2>1. Passes["source"] = <<"cont", "arch">>
    BY DEF Passes
  <2>2. QED
    BY <1>1, <2>1 DEF PassName
<1>3. c.entry # "tree"
  <2>1. Passes["tree"] = <<"tree">>
    BY DEF Passes
  <2>2. QED
    BY <1>1, <2>1 DEF PassName
<1>4. c.entry = "open"
  BY <1>1, <1>2, <1>3 DEF Entry
<1>5. Passes[c.entry] = <<"fs", "vs", "sig", "cont", "arch", "try">>
  BY <1>4 DEF Passes
<1>6. f.pass = 3
  BY <1>1, <1>5 DEF PassName
<1>7. \A q \in 1..(f.pass - 1) : Passes[c.entry][q] # "sig"
  BY <1>5, <1>6
<1>8. QED
  BY <1>7 DEF PastSig

\* Moving on in a pass.
LEMMA OrderedOn ==
  ASSUME NEW c, NEW f, Ordered(c, f), NEW g, g.pass = f.pass, g.attempts = f.attempts,
         f.i \in Nat, g.i \in Nat, g.i >= f.i, f.attempts \in Seq(Nat)
  PROVE  Ordered(c, g)
<1>1. PastSig(c, g) <=> PastSig(c, f)
  BY DEF PastSig
<1>2. InSig(c, g) <=> InSig(c, f)
  BY DEF InSig, PassName
<1>3. \A m \in DOMAIN f.attempts : f.attempts[m] \in Nat
  OBVIOUS
<1>4. \A m \in DOMAIN f.attempts : f.attempts[m] < f.i => f.attempts[m] < g.i
  BY <1>3
<1>5. QED
  BY <1>1, <1>2, <1>4 DEF Ordered

LEMMA OrderedRecorded ==
  ASSUME NEW c \in Call, NEW f, FrameOK(c, f), Ordered(c, f), InSig(c, f),
         NEW g, g.pass = f.pass, g.i = f.i + 1, g.attempts = Append(f.attempts, f.i)
  PROVE  Ordered(c, g)
<1>1. f.attempts \in Seq(Nat) /\ f.i \in Nat /\ f.pass \in 1..Len(Passes[c.entry])
  BY DEF FrameOK, Frame, InSig
<1>2. ~PastSig(c, f) /\ (PastSig(c, g) <=> PastSig(c, f)) /\ InSig(c, g)
  BY <1>1, SigOnce DEF PastSig, InSig, PassName
<1>3. \A m \in DOMAIN f.attempts : f.attempts[m] < f.i /\ f.attempts[m] \in Nat
  BY <1>1, <1>2 DEF Ordered
<1>4. /\ DOMAIN g.attempts = 1..(Len(f.attempts) + 1) /\ DOMAIN f.attempts = 1..Len(f.attempts)
      /\ g.attempts[Len(f.attempts) + 1] = f.i /\ Len(f.attempts) \in Nat
      /\ \A m \in DOMAIN f.attempts : g.attempts[m] = f.attempts[m]
  BY <1>1
<1>5. \A m \in DOMAIN g.attempts : m = Len(f.attempts) + 1 \/ m \in DOMAIN f.attempts
  BY <1>4
<1>6. \A m \in DOMAIN g.attempts : g.attempts[m] < g.i
  BY <1>1, <1>3, <1>4, <1>5
<1>7. ASSUME NEW m \in DOMAIN g.attempts, NEW n \in DOMAIN g.attempts, m < n
      PROVE  g.attempts[m] < g.attempts[n]
  <2>1. m \in DOMAIN f.attempts
    BY <1>4, <1>7
  <2>2. CASE n = Len(f.attempts) + 1
    BY <1>3, <1>4, <2>1, <2>2
  <2>3. CASE n \in DOMAIN f.attempts
    BY <1>4, <1>7, <2>1, <2>3 DEF Ordered
  <2>4. QED
    BY <1>5, <2>2, <2>3
<1>8. QED
  BY <1>2, <1>6, <1>7 DEF Ordered

LEMMA OrderedNextPass ==
  ASSUME NEW c \in Call, NEW f, FrameOK(c, f), Ordered(c, f), f.pass > 0,
         NEW g, g.pass = f.pass + 1, g.attempts = f.attempts
  PROVE  Ordered(c, g)
<1>1. f.pass \in Nat \ {0}
  BY DEF FrameOK, Frame
<1>2. ~PastSig(c, g) => ~PastSig(c, f) /\ ~InSig(c, f)
  <2>1. f.pass \in 1..(g.pass - 1) /\ \A q \in 1..(f.pass - 1) : q \in 1..(g.pass - 1)
    BY <1>1
  <2>2. QED
    BY <2>1 DEF PastSig, InSig, PassName
<1>3. QED
  BY <1>2 DEF Ordered

LEMMA OrderedNone ==
  ASSUME NEW c, NEW g, g.attempts = <<>>
  PROVE  Ordered(c, g)
<1>1. DOMAIN g.attempts = {}
  OBVIOUS
<1>2. QED
  BY <1>1 DEF Ordered

-----------------------------------------------------------------------------
(***************************************************************************)
(* The stack                                                               *)
(***************************************************************************)

LEMMA TracedReplaceTop ==
  ASSUME NEW c, NEW st, StackOK(c, st), Traced(c, st), st # <<>>,
         NEW g, g \in Frame, RecordOK(c, g), g.spec = st[Len(st)].spec
  PROVE  Traced(c, [st EXCEPT ![Len(st)] = g])
<1> DEFINE r == [st EXCEPT ![Len(st)] = g]
<1>1. st \in Seq(Frame) /\ Len(st) \in Nat \ {0}
  BY TopOK DEF StackOK
<1>2. r \in Seq(Frame) /\ Len(r) = Len(st)
  BY <1>1
<1>3. r[Len(st)] = g /\ \A k \in 1..(Len(st) - 1) : r[k] = st[k]
  BY <1>1
<1> HIDE DEF r
<1>4. \A k \in 1..Len(r) : r[k].spec = st[k].spec
  BY <1>1, <1>2, <1>3
<1>5. \A k \in 1..Len(r) : RecordOK(c, r[k])
  <2>1. SUFFICES ASSUME NEW k \in 1..Len(r) PROVE RecordOK(c, r[k])
    OBVIOUS
  <2>2. k = Len(st) \/ k \in 1..(Len(st) - 1)
    BY <1>1, <1>2
  <2>3. QED
    BY <1>1, <1>3, <2>2 DEF Traced
<1>6. ASSUME NEW k \in 1..(Len(r) - 1)
      PROVE  r[k + 1].spec = Append(r[k].spec, ChildLayer(c, r[k]))
  <2>1. k + 1 \in 1..Len(r) /\ k \in 1..(Len(st) - 1)
    BY <1>1, <1>2
  <2>2. QED
    BY <1>3, <1>4, <2>1 DEF Traced
<1>7. QED
  BY <1>5, <1>6 DEF Traced, r

LEMMA TracedPush ==
  ASSUME NEW c, NEW st, StackOK(c, st), Traced(c, st), st # <<>>,
         NEW g, g \in Frame, RecordOK(c, g),
         g.spec = Append(st[Len(st)].spec, ChildLayer(c, st[Len(st)]))
  PROVE  Traced(c, Append(st, g))
<1> DEFINE r == Append(st, g)
<1>1. st \in Seq(Frame) /\ Len(st) \in Nat \ {0}
  BY TopOK DEF StackOK
<1>2. r \in Seq(Frame) /\ Len(r) = Len(st) + 1
  BY <1>1
<1>3. r[Len(st) + 1] = g /\ \A k \in 1..Len(st) : r[k] = st[k]
  BY <1>1
<1> HIDE DEF r
<1>4. \A k \in 1..Len(r) : RecordOK(c, r[k])
  <2>1. SUFFICES ASSUME NEW k \in 1..Len(r) PROVE RecordOK(c, r[k])
    OBVIOUS
  <2>2. k = Len(st) + 1 \/ k \in 1..Len(st)
    BY <1>1, <1>2
  <2>3. QED
    BY <1>1, <1>3, <2>2 DEF Traced
<1>5. ASSUME NEW k \in 1..(Len(r) - 1)
      PROVE  r[k + 1].spec = Append(r[k].spec, ChildLayer(c, r[k]))
  <2>1. k \in 1..Len(st)
    BY <1>1, <1>2
  <2>2. CASE k = Len(st)
    BY <1>3, <2>1, <2>2
  <2>3. CASE k \in 1..(Len(st) - 1)
    <3>1. k + 1 \in 1..Len(st)
      BY <1>1, <2>3
    <3>2. QED
      BY <1>3, <2>1, <2>3, <3>1 DEF Traced
  <2>4. QED
    BY <1>1, <2>1, <2>2, <2>3
<1>6. QED
  BY <1>4, <1>5 DEF Traced, r

LEMMA TracedPop ==
  ASSUME NEW c, NEW st, StackOK(c, st), Traced(c, st), st # <<>>
  PROVE  LET r == SubSeq(st, 1, Len(st) - 1)
             n == Len(st) - 1
         IN  /\ Traced(c, r)
             /\ n > 0 => st[Len(st)].spec = Append(r[n].spec, ChildLayer(c, r[n]))
<1> DEFINE r == SubSeq(st, 1, Len(st) - 1)
           n == Len(st) - 1
<1>1. st \in Seq(Frame) /\ Len(st) \in Nat \ {0}
  BY TopOK DEF StackOK
<1>2. Len(r) = n /\ \A k \in 1..Len(r) : r[k] = st[k]
  BY PopFrame
<1> HIDE DEF r
<1>3. \A k \in 1..Len(r) : RecordOK(c, r[k])
  <2>1. \A k \in 1..Len(r) : k \in 1..Len(st)
    BY <1>1, <1>2
  <2>2. QED
    BY <1>2, <2>1 DEF Traced
<1>4. ASSUME NEW k \in 1..(Len(r) - 1)
      PROVE  r[k + 1].spec = Append(r[k].spec, ChildLayer(c, r[k]))
  <2>1. k \in 1..Len(r) /\ k + 1 \in 1..Len(r) /\ k \in 1..(Len(st) - 1)
    BY <1>1, <1>2
  <2>2. QED
    BY <1>2, <2>1 DEF Traced
<1>5. ASSUME n > 0 PROVE st[Len(st)].spec = Append(r[n].spec, ChildLayer(c, r[n]))
  <2>1. n \in 1..(Len(st) - 1) /\ n + 1 = Len(st) /\ n \in 1..Len(r)
    BY <1>1, <1>2, <1>5
  <2>2. st[n + 1].spec = Append(st[n].spec, ChildLayer(c, st[n]))
    BY <2>1 DEF Traced
  <2>3. QED
    BY <1>2, <2>1, <2>2
<1>6. QED
  BY <1>3, <1>4, <1>5 DEF Traced, r

-----------------------------------------------------------------------------
(***************************************************************************)
(* What a record returns is the first site below it                        *)
(***************************************************************************)

\* The claim of the opener a record is at, by its coordinate.
LEMMA CursorClaim ==
  ASSUME NEW c \in Call, NEW f, FrameOK(c, f), f.pass > 0, f.i <= Len(Line(c, f)),
         PassName(c, f) = "try" \/ Engaged(c, f.src, PassName(c, f), Line(c, f)[f.i])
  PROVE  /\ Claimant(c, f.src, f.pass, Rank(c, f))
         /\ PassAt(c, f.pass) = PassName(c, f)
         /\ OpenerAt(c, f.pass, Rank(c, f)) = Line(c, f)[f.i]
         /\ AnswerAt(c, f.src, f.pass, Rank(c, f)) = AnswerOf(c, f.src, Line(c, f)[f.i])
<1>1. f.pass \in 1..Len(Passes[c.entry]) /\ Passes[c.entry] \in Seq(Pass)
  BY PassesType DEF FrameOK, Frame, Call
<1>2. PassAt(c, f.pass) = PassName(c, f)
  BY DEF PassAt, PassName
<1>3. /\ Rank(c, f) \in DOMAIN Registered[PassName(c, f)]
      /\ Line(c, f)[f.i] = Registered[PassName(c, f)][Rank(c, f)]
      /\ PassName(c, f) = "try" => AnswerOf(c, f.src, Line(c, f)[f.i]).verdict = "Maybe"
  BY RankOf
<1>4. OpenerAt(c, f.pass, Rank(c, f)) = Line(c, f)[f.i]
  BY <1>2, <1>3 DEF OpenerAt
<1>5. Engaged(c, f.src, PassName(c, f), Line(c, f)[f.i])
  BY <1>3 DEF Engaged
<1>6. QED
  BY <1>1, <1>2, <1>3, <1>4, <1>5 DEF Claimant, AnswerAt

\* A site at the cursor is the first one of the record's source.
LEMMA CursorSite ==
  ASSUME NEW c \in Call, NEW f, FrameOK(c, f), Passed(c, f), Ordered(c, f), f.pass > 0,
         f.i <= Len(Line(c, f)), NEW x \in Promise!Sites(c, f.src),
         x.route[1] = <<f.pass, Rank(c, f), f.j>>
  PROVE  First(Sub(c, f), x)
<1>1. f.src \in Source /\ f.depth \in Nat /\ f.depth <= MaxDepth
  BY DEF FrameOK, DepthOK, Frame
<1>2. Below(f) \in 1..(MaxDepth + 1)
  BY <1>1, OpenersWellFormed DEF OpenersAssumption, Below
<1>3. \A y \in Sub(c, f) : ~Promise!Smaller(y.route[1], x.route[1])
  BY NothingBefore
<1>4. QED
  BY <1>1, <1>2, <1>3, FirstAt DEF Sub

\* A filesystem or tree opener mounts its source.
LEMMA FirstMount ==
  ASSUME NEW c \in Call, NEW f, FrameOK(c, f), Passed(c, f), Ordered(c, f), f.pass > 0,
         f.i <= Len(Line(c, f)), f.j = 0,
         Engaged(c, f.src, PassName(c, f), Line(c, f)[f.i]), PassName(c, f) \in MountPass,
         AnswerOf(c, f.src, Line(c, f)[f.i]).ok
  PROVE  FirstOK(c, f,
           Some(f.src, IF PassName(c, f) = "fs"
                         THEN Append(f.spec, LayerOf(c, f.src, "fs", Line(c, f)[f.i], 1))
                         ELSE f.spec,
                f.spec))
<1> DEFINE p == f.pass
           i == Rank(c, f)
           x == Promise!Site(<<p, i, 0>>, "some", f.src,
                  IF PassAt(c, p) = "fs" THEN <<LayerAt(c, f.src, p, i, 1)>> ELSE <<>>)
<1>1. /\ Claimant(c, f.src, p, i) /\ PassAt(c, p) = PassName(c, f)
      /\ OpenerAt(c, p, i) = Line(c, f)[f.i] /\ AnswerAt(c, f.src, p, i).ok
  BY CursorClaim
<1>2. f.src \in Source /\ f.spec \in Seq(Layer)
  BY DEF FrameOK, Frame
<1> HIDE DEF p, i
<1>3. Mounts(c, f.src, x, p, i)
  BY <1>1 DEF Mounts
<1> HIDE DEF x
<1> DEFINE s == f.src
<1>0. s \in Source /\ Mounts(c, s, x, p, i)
  BY <1>2, <1>3
<1> HIDE DEF s
<1>4. /\ x \in Found /\ <<p, i, 0>> \in Coordinate /\ x.route = <<<<p, i, 0>>>>
      /\ x.res = "some" /\ x.src = s /\ x.source_spec = <<>>
      /\ PassAt(c, p) = "fs" => x.spec = <<LayerAt(c, s, p, i, 1)>>
      /\ PassAt(c, p) # "fs" => x.spec = <<>>
  BY <1>0, MountsType
<1>12. x.src = f.src
  BY <1>4 DEF s
<1>5. x \in Promise!Sites(c, f.src)
  BY <1>3, SitesAre
<1>6. x.route[1] = <<f.pass, Rank(c, f), f.j>>
  BY <1>4 DEF p, i
<1>7. First(Sub(c, f), x)
  BY <1>5, <1>6, CursorSite
<1>8. f.spec \o x.source_spec = f.spec
  <2> DEFINE v == f.spec
             w == x.source_spec
  <2>1. w = <<>> /\ v \in Seq(Layer)
    BY <1>2, <1>4
  <2> HIDE DEF v, w
  <2>2. v \o w = v
    BY <2>1
  <2>3. QED
    BY <2>2 DEF v, w
<1>9. CASE PassName(c, f) = "fs"
  <2> DEFINE l == LayerOf(c, f.src, "fs", Line(c, f)[f.i], 1)
             v == f.spec
             w == x.spec
  <2>1. w = <<l>>
    BY <1>1, <1>4, <1>9 DEF LayerAt, s
  <2>2. l \in Layer
    BY <1>1, <1>2, ClaimType, <1>9, LayerType
  <2>3. v \in Seq(Layer)
    BY <1>2
  <2> HIDE DEF l, v, w
  <2>4. v \o w = Append(v, l)
    BY <2>1, <2>2, <2>3
  <2>5. QED
    BY <1>4, <1>12, <1>7, <1>8, <1>9, <2>4 DEF FirstOK, Reports, l, v, w
<1>10. CASE PassName(c, f) # "fs"
  <2> DEFINE v == f.spec
             w == x.spec
  <2>1. w = <<>> /\ v \in Seq(Layer)
    BY <1>1, <1>2, <1>4, <1>10
  <2> HIDE DEF v, w
  <2>2. v \o w = v
    BY <2>1
  <2>3. QED
    BY <1>4, <1>12, <1>7, <1>8, <1>10, <2>2 DEF FirstOK, Reports, v, w
<1>11. QED
  BY <1>9, <1>10

\* An opener that claims the source fails to open it.
LEMMA FirstFailure ==
  ASSUME NEW c \in Call, NEW f, FrameOK(c, f), Passed(c, f), Ordered(c, f), f.pass > 0,
         f.i <= Len(Line(c, f)), f.j = 0,
         PassName(c, f) = "try" \/ Engaged(c, f.src, PassName(c, f), Line(c, f)[f.i]),
         ~AnswerOf(c, f.src, Line(c, f)[f.i]).ok
  PROVE  FirstOK(c, f, Promise!Answers("err", c))
<1> DEFINE p == f.pass
           i == Rank(c, f)
           x == Promise!Site(<<p, i, 0>>, "err", f.src, <<>>)
<1>1. Claimant(c, f.src, p, i) /\ ~AnswerAt(c, f.src, p, i).ok /\ f.src \in Source
  BY CursorClaim DEF FrameOK, Frame
<1> HIDE DEF p, i
<1>2. Fails(c, f.src, x, p, i)
  BY <1>1 DEF Fails
<1> HIDE DEF x
<1> DEFINE s == f.src
<1>8. s \in Source /\ Fails(c, s, x, p, i)
  BY <1>1, <1>2
<1> HIDE DEF s
<1>3. /\ x \in Found /\ <<p, i, 0>> \in Coordinate /\ x.route = <<<<p, i, 0>>>>
      /\ x.res = "err"
  BY <1>8, FailsType
<1>4. x \in Promise!Sites(c, f.src)
  BY <1>2, SitesAre
<1>5. x.route[1] = <<f.pass, Rank(c, f), f.j>>
  BY <1>3 DEF p, i
<1>6. First(Sub(c, f), x)
  BY <1>4, <1>5, CursorSite
<1>7. QED
  BY <1>3, <1>6 DEF FirstOK, Reports

\* A child cannot be had.
LEMMA FirstBroken ==
  ASSUME NEW c \in Call, NEW f, FrameOK(c, f), Passed(c, f), Ordered(c, f), f.pass > 0,
         f.i <= Len(Line(c, f)), f.j > 0, PassName(c, f) # "try",
         f.j \in DOMAIN KidsOf(c, f), KidsOf(c, f)[f.j] = Broken
  PROVE  FirstOK(c, f, Promise!Answers("err", c))
<1> DEFINE p == f.pass
           i == Rank(c, f)
           x == Promise!Site(<<p, i, f.j>>, "err", f.src, <<>>)
<1>1. Opened(c, f) /\ f.src \in Source
  BY DEF FrameOK, Frame
<1>2. /\ Claimant(c, f.src, p, i) /\ PassAt(c, p) = PassName(c, f)
      /\ AnswerAt(c, f.src, p, i) = AnswerOf(c, f.src, Line(c, f)[f.i])
  BY <1>1, CursorClaim DEF Opened
<1> HIDE DEF p, i
<1>3. Opens(c, f.src, p, i)
  BY <1>1, <1>2 DEF Opens, Opened
<1>4. Breaks(c, f.src, x, p, i, f.j)
  BY <1>2, <1>3 DEF Breaks, KidsOf, Kids
<1> HIDE DEF x
<1> DEFINE s == f.src
           j == f.j
<1>5. s \in Source /\ Breaks(c, s, x, p, i, j)
  BY <1>1, <1>4
<1> HIDE DEF s, j
<1>10. /\ x \in Found /\ <<p, i, j>> \in Coordinate /\ x.route = <<<<p, i, j>>>>
       /\ x.res = "err" /\ j \in Nat \ {0}
  BY <1>5, BreaksType
<1>6. x \in Promise!Sites(c, f.src)
  BY <1>4, SitesAre
<1>7. x.route[1] = <<f.pass, Rank(c, f), f.j>>
  BY <1>10 DEF p, i, j
<1>8. First(Sub(c, f), x)
  BY <1>6, <1>7, CursorSite
<1>9. QED
  BY <1>10, <1>8 DEF FirstOK, Reports

\* The source cannot be read.
LEMMA FirstUnreadable ==
  ASSUME NEW c \in Call, NEW f, FrameOK(c, f), f.depth <= MaxDepth,
         c.entry # "tree", ~c.evidence[f.src].readable
  PROVE  FirstOK(c, f, Promise!Answers("err", c))
<1> DEFINE x == Promise!Site(<<0, 0, 0>>, "err", f.src, <<>>)
<1>1. f.src \in Source /\ f.depth \in Nat
  BY DEF FrameOK, Frame
<1>2. Below(f) \in 1..(MaxDepth + 1)
  BY <1>1, OpenersWellFormed DEF OpenersAssumption, Below
<1>3. Unreadable(c, f.src, x)
  BY DEF Unreadable
<1> HIDE DEF x
<1>4. x.route = <<<<0, 0, 0>>>> /\ x.res = "err"
  BY <1>1, <1>3, UnreadableType
<1>5. x \in Promise!Sites(c, f.src)
  BY <1>3, SitesAre
<1>6. ASSUME NEW y \in Sub(c, f) PROVE ~Promise!Smaller(y.route[1], x.route[1])
  <2>1. PICK p, i, j : LevelKind(c, Below(f), f.src, y, p, i, j)
    BY <1>1, <1>2, <1>6, LevelCases DEF Sub
  <2> DEFINE a == y.route[1]
             b == x.route[1]
  <2>2. a \in Coordinate
    BY <2>1 DEF LevelKind
  <2>3. b = <<0, 0, 0>> /\ b[1] = 0 /\ b[2] = 0 /\ b[3] = 0
    BY <1>4
  <2> HIDE DEF a, b
  <2>4. a[1] \in Nat /\ a[2] \in Nat /\ a[3] \in Nat
    BY <2>2, CoordinateParts
  <2>5. ~Promise!Smaller(a, b)
    BY <2>3, <2>4, SmallerIs
  <2>6. QED
    BY <2>5 DEF a, b
<1>7. First(Sub(c, f), x)
  BY <1>1, <1>2, <1>5, <1>6, FirstAt DEF Sub
<1>8. QED
  BY <1>4, <1>7 DEF FirstOK, Reports

\* Nothing packages the source any further.
LEMMA FirstRaw ==
  ASSUME NEW c \in Call, NEW f, FrameOK(c, f), Passed(c, f), f.pass > 0,
         f.i > Len(Line(c, f)), f.pass = Len(Passes[c.entry]), c.entry = "source"
  PROVE  FirstOK(c, f, Some(f.src, f.spec, f.spec))
<1> DEFINE n == Len(Passes[c.entry]) + 1
           x == Promise!Site(<<n, 0, 0>>, "some", f.src, <<>>)
<1>1. /\ f.src \in Source /\ f.depth \in Nat /\ f.depth <= MaxDepth /\ f.spec \in Seq(Layer)
      /\ f.pass \in Nat /\ n = f.pass + 1
  BY DEF FrameOK, DepthOK, Frame
<1>2. Below(f) \in 1..(MaxDepth + 1)
  BY <1>1, OpenersWellFormed DEF OpenersAssumption, Below
<1>3. RawTerminal(c, f.src, x)
  BY DEF RawTerminal
<1> HIDE DEF x
<1> DEFINE s == f.src
<1>10. s \in Source /\ RawTerminal(c, s, x)
  BY <1>1, <1>3
<1> HIDE DEF s
<1>11. LET at == <<Len(Passes[c.entry]) + 1, 0, 0>>
       IN  /\ x \in Found /\ at \in Coordinate /\ x.route = <<at>>
           /\ x.res = "some" /\ x.src = s /\ x.spec = <<>> /\ x.source_spec = <<>>
  BY <1>10, RawTerminalType
<1>4. /\ x.route = <<<<n, 0, 0>>>> /\ x.res = "some" /\ x.src = f.src
      /\ x.spec = <<>> /\ x.source_spec = <<>>
  BY <1>11 DEF s
<1>5. x \in Promise!Sites(c, f.src)
  BY <1>3, SitesAre
<1> HIDE DEF n
<1>6. ASSUME NEW y \in Sub(c, f) PROVE ~Promise!Smaller(y.route[1], x.route[1])
  <2>1. PICK p, i, j : LevelKind(c, Below(f), f.src, y, p, i, j)
    BY <1>1, <1>2, <1>6, LevelCases DEF Sub
  <2>2. p > f.pass /\ p \in Nat
    BY <2>1, NothingInPass
  <2> DEFINE a == y.route[1]
             b == x.route[1]
  <2>3. a \in Coordinate /\ a[1] = p
    BY <2>1 DEF LevelKind, Coordinate
  <2>4. b[1] = n /\ b[2] = 0 /\ b[3] = 0
    BY <1>4
  <2> HIDE DEF a, b
  <2>5. a[1] >= n /\ a[1] \in Nat /\ a[2] \in Nat /\ a[3] \in Nat /\ n \in Nat
    BY <1>1, <2>2, <2>3, CoordinateParts
  <2>6. ~Promise!Smaller(a, b)
    BY <2>4, <2>5, SmallerIs
  <2>7. QED
    BY <2>6 DEF a, b
<1>7. First(Sub(c, f), x)
  BY <1>1, <1>2, <1>5, <1>6, FirstAt DEF Sub
<1>8. f.spec \o x.spec = f.spec /\ f.spec \o x.source_spec = f.spec
  BY <1>1, <1>4
<1>9. QED
  BY <1>4, <1>7, <1>8 DEF FirstOK, Reports

\* The first site of the child a record is at is the record's own first one:
\* the caller returns what the call below it found.
LEMMA FirstChild ==
  ASSUME NEW c \in Call, NEW f, FrameOK(c, f), Passed(c, f), Ordered(c, f), f.j > 0,
         NEW t, At(c, f, t.src), t.src \in Source, t.depth = f.depth + 1,
         t.spec = Append(f.spec, ChildLayer(c, f)),
         NEW r, FirstOK(c, t, r)
  PROVE  FirstOK(c, f, r)
<1> DEFINE p == f.pass
           i == Rank(c, f)
           j == f.j
           s == f.src
           l == LayerAt(c, s, p, i, j)
           h == [at |-> <<p, i, j>>, to |-> t.src, layer |-> l]
           n == Below(f)
           v == f.spec
<1>1. /\ Opened(c, f) /\ s \in Source /\ f.pass > 0 /\ f.i <= Len(Line(c, f))
      /\ f.depth \in Nat /\ f.depth <= MaxDepth /\ v \in Seq(Layer) /\ MaxDepth \in Nat
  BY OpenersWellFormed DEF FrameOK, Frame, Opened, DepthOK, OpenersAssumption
<1>2. /\ Claimant(c, s, p, i) /\ PassAt(c, p) = PassName(c, f)
      /\ OpenerAt(c, p, i) = Line(c, f)[f.i]
      /\ AnswerAt(c, s, p, i) = AnswerOf(c, s, Line(c, f)[f.i])
  BY <1>1, CursorClaim DEF Opened
<1>3. n \in 1..(MaxDepth + 1) /\ n - 1 = Below(t)
  <2> DEFINE d == f.depth
             b == t.depth
  <2>1. d \in Nat /\ d <= MaxDepth /\ b = d + 1 /\ MaxDepth \in Nat
    BY <1>1
  <2>2. n = MaxDepth + 1 - d /\ Below(t) = MaxDepth + 1 - b
    BY DEF Below
  <2> HIDE DEF d, b, n
  <2>3. QED
    BY <2>1, <2>2
<1>4. \A y \in Level(c)[n][s] : ~Promise!Smaller(y.route[1], <<p, i, j>>)
  BY <1>1, NothingBefore DEF Sub
<1>5. l = ChildLayer(c, f)
  BY <1>2 DEF ChildLayer, LayerAt
<1>6. /\ j \in DOMAIN AnswerAt(c, s, p, i).kids /\ t.src = AnswerAt(c, s, p, i).kids[j]
      /\ t.src # Broken
  BY <1>2, OpenersWellFormed DEF At, KidsOf, Kids, OpenersAssumption
<1>7. HopAt(c, s, h, p, i, j)
  BY <1>1, <1>2, <1>6 DEF HopAt, Opens, Opened
<1>8. h.at = <<p, i, j>> /\ h.to = t.src /\ h.layer = l
  OBVIOUS
<1> HIDE DEF h, l, p, i, j, s, n, v
<1>9. PICK e : First(Sub(c, t), e) /\ Reports(c, r, e, t.spec)
  BY DEF FirstOK
<1>10. First(Level(c)[n - 1][h.to], e)
  BY <1>3, <1>8, <1>9 DEF Sub
<1>11. First(Level(c)[n][s], Promise!Under(h, e))
  BY <1>3, <1>1, <1>4, <1>7, <1>8, <1>10, FirstUnder
<1>12. h.at \in Coordinate /\ h.layer \in Layer /\ h.to \in Source /\ l \in Layer
  BY <1>1, <1>7, <1>8, HopType
<1>13. e \in Found
  <2>1. n - 1 \in 0..(MaxDepth + 1)
    BY <1>1, <1>3
  <2>2. Level(c)[n - 1][h.to] \subseteq Found
    BY <1>12, <2>1, LevelType
  <2>3. QED
    BY <1>10, <2>2 DEF First
<1> DEFINE x == Promise!Under(h, e)
<1>14. /\ x.res = e.res /\ x.src = e.src /\ x.spec = <<h.layer>> \o e.spec
       /\ x.source_spec = <<h.layer>> \o e.source_spec
  BY <1>12, <1>13, UnderType
<1>15. e.spec \in Seq(Layer) /\ e.source_spec \in Seq(Layer)
  BY <1>13 DEF Found
<1>16. ASSUME NEW q \in Seq(Layer) PROVE Append(v, l) \o q = v \o (<<l>> \o q)
  BY SMTT(40), <1>1, <1>12, <1>16
<1>17. t.spec = Append(v, l)
  BY <1>5 DEF v
<1> HIDE DEF x
<1>18. /\ t.spec \o e.spec = v \o x.spec /\ t.spec \o e.source_spec = v \o x.source_spec
  BY <1>8, <1>14, <1>15, <1>16, <1>17
<1>19. Reports(c, r, x, v)
  BY <1>9, <1>14, <1>18 DEF Reports
<1>20. First(Sub(c, f), x)
  BY <1>11 DEF Sub, n, s, x
<1>21. QED
  BY <1>19, <1>20 DEF FirstOK, v

\* The first site below the root is the answer promised.
LEMMA FirstPromised ==
  ASSUME NEW c \in Call, NEW f, f.src = c.root, f.depth = 0, f.spec = <<>>,
         NEW r, FirstOK(c, f, r)
  PROVE  r = Promise!Promised(c)
<1> DEFINE S == Promise!SitesOf(c)
           N == MaxDepth + 1
           first == CHOOSE y \in S : \A x \in S : x = y \/ Promise!Before(y.route, x.route)
<1>1. MaxDepth \in Nat /\ N \in 0..(MaxDepth + 1) /\ Below(f) = N /\ c.root \in Source
  BY OpenersWellFormed DEF OpenersAssumption, Below, Call
<1>2. S = Sub(c, f)
  BY <1>1, LevelIs DEF Sub
<1>3. S \in SUBSET Found
  BY <1>1, <1>2, LevelType DEF Sub
<1>4. PICK e : First(S, e) /\ Reports(c, r, e, f.spec)
  BY <1>2 DEF FirstOK
<1>5. Promise!Promised(c) =
        IF S = {} THEN Promise!Answers("none", c)
        ELSE IF first.res = "err" THEN Promise!Answers("err", c)
        ELSE [res |-> "some", src |-> first.src, spec |-> first.spec,
              source_spec |-> first.source_spec]
  BY DEF Promise!Promised
<1> HIDE DEF S
<1>6. first = e /\ e \in S /\ S # {} /\ e \in Found
  BY <1>3, <1>4, FirstUnique DEF First
<1> HIDE DEF first
<1>7. CASE e.res = "err"
  BY <1>4, <1>5, <1>6, <1>7 DEF Reports
<1>8. CASE e.res = "some"
  <2>1. e.spec \in Seq(Layer) /\ e.source_spec \in Seq(Layer)
    BY <1>6 DEF Found
  <2> DEFINE v == f.spec
             w == e.spec
             u == e.source_spec
  <2>2. v = <<>> /\ w \in Seq(Layer) /\ u \in Seq(Layer)
    BY <2>1
  <2>3. r = [res |-> "some", src |-> e.src, spec |-> v \o w, source_spec |-> v \o u]
    BY <1>4, <1>8 DEF Reports, Some
  <2> HIDE DEF v, w, u
  <2>4. v \o w = w /\ v \o u = u
    BY <2>2
  <2>5. r = [res |-> "some", src |-> e.src, spec |-> e.spec, source_spec |-> e.source_spec]
    BY <2>3, <2>4 DEF w, u
  <2>6. QED
    BY <1>5, <1>6, <1>8, <2>5
<1>9. QED
  BY <1>6, <1>7, <1>8 DEF Found

\* A call whose root leads nowhere is promised Ok(None).
LEMMA NonePromised ==
  ASSUME NEW c \in Call, Barren(c, c.root, 0)
  PROVE  Promise!Promised(c) = Promise!Answers("none", c)
<1>1. MaxDepth \in Nat /\ 0 \in 0..(MaxDepth + 1) /\ c.root \in Source
  BY OpenersWellFormed DEF OpenersAssumption, Call
<1>2. Level(c)[MaxDepth + 1 - 0][c.root] = {}
  BY <1>1, BarrenIsEmpty
<1>3. MaxDepth + 1 - 0 = MaxDepth + 1
  BY <1>1
<1>4. Promise!SitesOf(c) = {}
  BY <1>2, <1>3, LevelIs
<1>5. QED
  BY <1>4 DEF Promise!Promised

-----------------------------------------------------------------------------
(***************************************************************************)
(* The steps                                                               *)
(***************************************************************************)

LEMMA InitRInv == Init => RInv
<1>1. SUFFICES ASSUME Init PROVE RInv
  OBVIOUS
<1> DEFINE p == IF call.entry = "tree" THEN 1 ELSE 0
           g == Enter(call.root, <<>>, 0, p)
<1>2. SInv
  BY <1>1, InitSInv
<1>3. stack = <<g>> /\ ret = Pending
  BY <1>1 DEF Init
<1>4. ret.res = "pending"
  BY <1>3 DEF Pending, Bare
<1>5. g.pass = p /\ g.attempts = <<>> /\ (call.entry = "tree" => p > 0)
  BY DEF Enter
<1> HIDE DEF p, g
<1>6. stack[1] = g /\ Len(stack) = 1 /\ stack # <<>>
  BY <1>3
<1>7. RecordOK(call, g)
  BY <1>5, OrderedNone DEF RecordOK
<1>8. Traced(call, stack)
  <2>1. 1..(Len(stack) - 1) = {} /\ \A k \in 1..Len(stack) : k = 1
    BY <1>6
  <2>2. QED
    BY <1>6, <1>7, <2>1 DEF Traced
<1>9. QED
  BY <1>2, <1>4, <1>6, <1>8 DEF RInv, FoundOK, DoneOK

\* The answers of the resolver are those of its promise.
LEMMA AnswersAre ==
  /\ None = Promise!Answers("none", call) /\ None.res = "none"
  /\ Err = Promise!Answers("err", call) /\ Err.res = "err"
  /\ Pending = Promise!Answers("pending", call) /\ Pending.res = "pending"
BY DEF None, Err, Pending, Bare, Promise!Answers

\* Every step of the search keeps to the order of the promise.
LEMMA NextRInv == RInv /\ [Next]_vars => RInv'
<1>1. SUFFICES ASSUME RInv, [Next]_vars PROVE RInv'
  OBVIOUS
<1>2. SInv'
  BY <1>1, NextSInv DEF RInv
<1>3. /\ CallOK(call) /\ call \in Call /\ StackOK(call, stack) /\ SearchOK(call, stack)
      /\ Traced(call, stack) /\ FoundOK(call, stack, ret) /\ DoneOK(call, stack, ret)
  BY <1>1 DEF RInv, SInv, IInv, CallOK
<1>4. stack # <<>> => /\ FrameOK(call, Top) /\ Top \in Frame /\ Passed(call, Top)
                     /\ RecordOK(call, Top) /\ Ordered(call, Top)
                     /\ Top = stack[Len(stack)]
  <2>1. SUFFICES ASSUME stack # <<>>
                 PROVE  /\ FrameOK(call, Top) /\ Top \in Frame /\ Passed(call, Top)
                        /\ RecordOK(call, Top)
    BY DEF Top, RecordOK
  <2>2. Len(stack) \in 1..Len(stack)
    BY <1>3, <2>1, TopOK
  <2>3. QED
    BY <1>3, <2>1, <2>2, TopOK DEF Top, SearchOK, Traced
<1>5. stack # <<>> /\ Top.pass # 0 => Top.pass > 0 /\ Top.depth <= MaxDepth
  BY <1>4 DEF Frame, FrameOK, DepthOK
<1>6. ASSUME call' = call, Traced(call, stack'), FoundOK(call, stack', ret'),
             DoneOK(call, stack', ret')
      PROVE  RInv'
  BY <1>2, <1>6 DEF RInv
\* A step that only moves the cursor of the innermost record.
<1>7. ASSUME NEW g, stack # <<>>, g \in Frame, RecordOK(call, g), g.spec = Top.spec,
             stack' = SetTop(g), ret'.res = "pending", call' = call
      PROVE  RInv'
  <2>1. Traced(call, SetTop(g))
    BY <1>3, <1>4, <1>7, TracedReplaceTop DEF SetTop
  <2>2. SetTop(g) # <<>>
    <3>1. stack \in Seq(Frame) /\ Len(stack) \in Nat \ {0}
      BY <1>3, <1>7, TopOK DEF StackOK
    <3>2. Len(SetTop(g)) = Len(stack)
      BY <1>7, <3>1 DEF SetTop
    <3>3. QED
      BY <3>1, <3>2
  <2>3. QED
    BY <1>6, <1>7, <2>1, <2>2 DEF FoundOK, DoneOK
\* A step that returns the first site below the innermost record, or None.
<1>8. ASSUME stack # <<>>, stack' = stack, call' = call,
             ret' = None \/ (ret'.res # "none" /\ FirstOK(call, Top, ret'))
      PROVE  RInv'
  <2>1. FoundOK(call, stack, ret')
    BY <1>4, <1>8, AnswersAre DEF FoundOK
  <2>2. QED
    BY <1>3, <1>6, <1>8, <2>1 DEF DoneOK
<1>9. ASSUME stack # <<>>, stack' = stack, call' = call, ret' = Err,
             FirstOK(call, Top, Promise!Answers("err", call))
      PROVE  RInv'
  BY <1>8, <1>9, AnswersAre
<1>10. CurrentAnswer = AnswerOf(call, Top.src, Line(call, Top)[Top.i])
  BY DEF CurrentAnswer, Current
<1>11. CASE DepthCap
  BY <1>8, <1>11 DEF DepthCap, Running
<1>12. CASE Sniff
  <2> DEFINE g == [Top EXCEPT !.pass = 1]
  <2>1. /\ stack # <<>> /\ Top.pass = 0 /\ Top.depth <= MaxDepth
        /\ call' = call /\ ret.res = "pending"
    BY <1>12 DEF Sniff, Running
  <2>2. CASE call.evidence[Top.src].readable
    <3>1. stack' = SetTop(g) /\ ret' = ret
      BY <1>12, <2>2 DEF Sniff
    <3>2. /\ g \in Frame /\ g.pass = 1 /\ g.attempts = Top.attempts /\ g.spec = Top.spec
      BY <1>4, <2>1 DEF Frame
    <3> HIDE DEF g
    <3>3. DOMAIN Top.attempts = {}
      <4>1. 1..(Top.pass - 1) = {} /\ ~(Top.pass > 0)
        BY <2>1
      <4>2. ~PastSig(call, Top) /\ ~InSig(call, Top)
        BY <4>1 DEF PastSig, InSig
      <4>3. QED
        BY <1>4, <2>1, <4>2 DEF Ordered
    <3>4. RecordOK(call, g)
      BY <3>2, <3>3 DEF RecordOK, Ordered
    <3>5. QED
      BY <1>7, <2>1, <3>1, <3>2, <3>4
  <2>3. CASE ~call.evidence[Top.src].readable
    <3>1. stack' = stack /\ ret' = Err
      BY <1>12, <2>3 DEF Sniff
    <3>2. call.entry # "tree"
      BY <1>4, <2>1 DEF RecordOK
    <3>3. FirstOK(call, Top, Promise!Answers("err", call))
      BY <1>3, <1>4, <2>1, <2>3, <3>2, FirstUnreadable
    <3>4. QED
      BY <1>9, <2>1, <3>1, <3>3
  <2>4. QED
    BY <2>2, <2>3

<1>13. CASE Decline
  <2> DEFINE g == [NextOpener(Top) EXCEPT !.attempts =
                     IF PassName(call, Top) = "sig" /\ CurrentAnswer.verdict = "Maybe"
                       THEN Recorded(Top) ELSE @]
  <2>1. /\ stack # <<>> /\ Top.pass # 0 /\ Top.i <= Len(Line(call, Top))
        /\ stack' = SetTop(g) /\ call' = call /\ ret' = ret /\ ret.res = "pending"
    BY <1>13 DEF Decline, AtOpener, InPass, Running
  <2>2. /\ NextOpener(Top) \in Frame /\ NextOpener(Top).pass = Top.pass
        /\ NextOpener(Top).i = Top.i + 1 /\ NextOpener(Top).attempts = Top.attempts
        /\ NextOpener(Top).spec = Top.spec
    BY <1>4, <2>1, NextOpenerOK DEF FrameOK, NextOpener, Frame
  <2>3. Top.i \in Nat /\ Top.attempts \in Seq(Nat)
    BY <1>4, <2>1 DEF Frame
  <2>4. CASE PassName(call, Top) = "sig" /\ CurrentAnswer.verdict = "Maybe"
    <3>1. g = [NextOpener(Top) EXCEPT !.attempts = Recorded(Top)]
      BY <2>4
    <3>2. InSig(call, Top)
      BY <1>5, <2>1, <2>4 DEF InSig
    <3>3. g \in Frame
      BY <1>3, <1>4, <1>5, <1>10, <2>1, <2>4, <3>1, RecordedOK DEF FrameOK
    <3>4. /\ g.pass = Top.pass /\ g.i = Top.i + 1 /\ g.spec = Top.spec
          /\ g.attempts = Append(Top.attempts, Top.i)
      BY <2>2, <3>1 DEF Frame, Recorded
    <3> HIDE DEF g
    <3>5. Ordered(call, g)
      BY <1>3, <1>4, <2>1, <3>2, <3>4, OrderedRecorded
    <3>6. RecordOK(call, g)
      BY <1>4, <2>1, <3>4, <3>5 DEF RecordOK
    <3>7. QED
      BY <1>7, <2>1, <3>3, <3>4, <3>6
  <2>5. CASE ~(PassName(call, Top) = "sig" /\ CurrentAnswer.verdict = "Maybe")
    <3>1. g = [NextOpener(Top) EXCEPT !.attempts = @]
      BY <2>5
    <3>2. g = NextOpener(Top)
      BY <2>2, <3>1 DEF Frame
    <3> HIDE DEF g
    <3>3. g.i \in Nat /\ g.i >= Top.i
      BY <2>2, <2>3, <3>2
    <3>4. Ordered(call, g)
      BY <1>4, <2>1, <2>2, <2>3, <3>2, <3>3, OrderedOn
    <3>5. RecordOK(call, g)
      BY <1>4, <2>1, <2>2, <3>2, <3>4 DEF RecordOK
    <3>6. QED
      BY <1>7, <2>1, <2>2, <3>2, <3>5
  <2>6. QED
    BY <2>4, <2>5
\* A step to the next opener.
<1>14. ASSUME stack # <<>>, stack' = SetTop(NextOpener(Top)), ret' = ret,
              ret.res = "pending", call' = call
       PROVE  RInv'
  <2> DEFINE g == NextOpener(Top)
  <2>1. /\ g \in Frame /\ g.pass = Top.pass /\ g.i = Top.i + 1
        /\ g.attempts = Top.attempts /\ g.spec = Top.spec
    BY <1>4, <1>14, NextOpenerOK DEF FrameOK, NextOpener, Frame
  <2>2. Top.i \in Nat /\ Top.attempts \in Seq(Nat)
    BY <1>4, <1>14 DEF Frame
  <2> HIDE DEF g
  <2>3. g.i \in Nat /\ g.i >= Top.i
    BY <2>1, <2>2
  <2>4. Ordered(call, g)
    BY <1>4, <1>14, <2>1, <2>2, <2>3, OrderedOn
  <2>5. RecordOK(call, g)
    BY <1>4, <1>14, <2>1, <2>4 DEF RecordOK
  <2>6. QED
    BY <1>7, <1>14, <2>1, <2>5 DEF g
<1>15. CASE Mount
  <2>1. /\ stack # <<>> /\ call' = call /\ stack' = stack /\ Top.pass # 0
        /\ Top.i <= Len(Line(call, Top)) /\ Top.j = 0 /\ Claimed
        /\ PassName(call, Top) \in MountPass
    BY <1>15 DEF Mount, AtOpener, InPass, Running
  <2>2. Engaged(call, Top.src, PassName(call, Top), Line(call, Top)[Top.i])
    BY <2>1 DEF Claimed, Current, MountPass
  <2>3. CASE CurrentAnswer.ok
    <3>1. ret' = Some(Top.src,
                      IF PassName(call, Top) = "fs"
                        THEN Append(Top.spec,
                               LayerOf(call, Top.src, "fs", Line(call, Top)[Top.i], 1))
                        ELSE Top.spec,
                      Top.spec)
      BY <1>15, <2>3 DEF Mount, Current
    <3>2. FirstOK(call, Top, ret')
      BY <1>3, <1>4, <1>5, <1>10, <2>1, <2>2, <2>3, <3>1, FirstMount
    <3>3. ret'.res # "none"
      BY <3>1 DEF Some
    <3>4. QED
      BY <1>8, <2>1, <3>2, <3>3
  <2>4. CASE ~CurrentAnswer.ok
    <3>1. ret' = Err
      BY <1>15, <2>4 DEF Mount
    <3>2. FirstOK(call, Top, Promise!Answers("err", call))
      BY <1>3, <1>4, <1>5, <1>10, <2>1, <2>2, <2>4, FirstFailure
    <3>3. QED
      BY <1>9, <2>1, <3>1, <3>2
  <2>5. QED
    BY <2>3, <2>4
<1>16. CASE OpenLayer
  <2>1. /\ stack # <<>> /\ call' = call /\ Top.pass # 0 /\ ret.res = "pending"
        /\ Top.i <= Len(Line(call, Top)) /\ Top.j = 0 /\ Claimed
    BY <1>16 DEF OpenLayer, AtOpener, InPass, Running
  <2>2. CASE CurrentAnswer.ok
    <3> DEFINE g == [Top EXCEPT !.j = 1]
    <3>1. stack' = SetTop(g) /\ ret' = ret
      BY <1>16, <2>2 DEF OpenLayer
    <3>2. /\ g \in Frame /\ g.pass = Top.pass /\ g.i = Top.i
          /\ g.attempts = Top.attempts /\ g.spec = Top.spec
      <4>1. Top \in Frame /\ 1 \in Nat
        BY <1>4, <2>1
      <4>2. g \in Frame
        BY <4>1, ChildCursor
      <4>3. QED
        BY <4>1, <4>2 DEF Frame
    <3> HIDE DEF g
    <3>6. Top.i \in Nat /\ Top.attempts \in Seq(Nat) /\ g.i \in Nat /\ g.i >= Top.i
      BY <1>4, <2>1, <3>2 DEF Frame
    <3>3. Ordered(call, g)
      BY <1>4, <2>1, <3>2, <3>6, OrderedOn
    <3>4. RecordOK(call, g)
      BY <1>4, <2>1, <3>2, <3>3 DEF RecordOK
    <3>5. QED
      BY <1>7, <2>1, <3>1, <3>2, <3>4
  <2>3. CASE ~CurrentAnswer.ok
    <3>1. stack' = stack /\ ret' = Err
      BY <1>16, <2>3 DEF OpenLayer
    <3>2. FirstOK(call, Top, Promise!Answers("err", call))
      BY <1>3, <1>4, <1>5, <1>10, <2>1, <2>3, FirstFailure DEF Claimed, Current
    <3>3. QED
      BY <1>9, <2>1, <3>1, <3>2
  <2>4. QED
    BY <2>2, <2>3

<1>17. CASE Descend
  <2> DEFINE kid == CurrentAnswer.kids[Top.j]
             l == LayerOf(call, Top.src, PassName(call, Top), Current, Top.j)
             g == Enter(kid, Append(Top.spec, l), Top.depth + 1, 0)
  <2>1. /\ stack # <<>> /\ Top.pass # 0 /\ Top.j > 0 /\ Top.i <= Len(Line(call, Top))
        /\ call' = call /\ ret' = ret /\ ret.res = "pending" /\ stack' = Append(stack, g)
    BY <1>17 DEF Descend, AtChild, InPass, Running
  <2>2. g.attempts = <<>> /\ g.spec = Append(Top.spec, ChildLayer(call, Top))
    BY DEF Enter, ChildLayer, Current
  <2> HIDE DEF g
  <2>3. g \in Frame
    <3>1. /\ stack \in Seq(Frame) /\ Append(stack, g) \in Seq(Frame)
      BY <1>2, <1>3, <2>1 DEF SInv, IInv, StackOK
    <3>2. /\ Len(Append(stack, g)) = Len(stack) + 1
          /\ Append(stack, g)[Len(stack) + 1] = g
          /\ Len(stack) + 1 \in 1..(Len(stack) + 1)
      BY <3>1
    <3>3. QED
      BY <3>1, <3>2, ElementOfSeq
  <2>4. call.entry # "tree"
    <3>1. Opened(call, Top)
      BY <1>4, <2>1 DEF FrameOK
    <3>2. Passes["tree"] = <<"tree">>
      BY DEF Passes
    <3>3. Top.pass \in 0..Len(Passes[call.entry]) /\ Top.pass \in Nat
      BY <1>4, <2>1 DEF FrameOK, Frame
    <3>4. ASSUME call.entry = "tree" PROVE FALSE
      <4>1. Top.pass = 1
        <5>1. Len(Passes[call.entry]) = 1
          BY <3>2, <3>4
        <5>2. QED
          BY <2>1, <3>3, <5>1
      <4>2. PassName(call, Top) = "tree"
        BY <3>2, <3>4, <4>1 DEF PassName
      <4>3. QED
        BY <3>1, <4>2 DEF Opened, MountPass
    <3>5. QED
      BY <3>4
  <2>5. RecordOK(call, g)
    BY <2>2, <2>4, OrderedNone DEF RecordOK
  <2>6. Traced(call, Append(stack, g))
    BY <1>3, <1>4, <2>1, <2>2, <2>3, <2>5, TracedPush
  <2>7. Append(stack, g) # <<>>
    <3>1. stack \in Seq(Frame)
      BY <1>3 DEF StackOK
    <3>2. Len(Append(stack, g)) = Len(stack) + 1 /\ Len(stack) \in Nat
      BY <2>3, <3>1
    <3>3. Len(<<>>) = 0
      OBVIOUS
    <3>4. QED
      BY <3>2, <3>3
  <2>8. QED
    BY <1>6, <2>1, <2>6, <2>7 DEF FoundOK, DoneOK
<1>18. CASE ChildFails
  <2>1. /\ stack # <<>> /\ call' = call /\ Top.pass # 0 /\ Top.i <= Len(Line(call, Top))
        /\ Top.j > 0 /\ ret.res = "pending"
        /\ Top.j <= Len(CurrentAnswer.kids) /\ CurrentAnswer.kids[Top.j] = Broken
    BY <1>18 DEF ChildFails, AtChild, InPass, Running
  <2>2. CASE PassName(call, Top) = "try"
    BY <1>14, <1>18, <2>1, <2>2 DEF ChildFails, Tolerated
  <2>3. CASE PassName(call, Top) # "try"
    <3>1. stack' = stack /\ ret' = Err
      BY <1>18, <2>3 DEF ChildFails, Tolerated
    <3>2. Line(call, Top)[Top.i] \in Opener /\ Top.src \in Source /\ Top.j \in Nat
      BY <1>3, <1>4, <2>1, CursorOpener
    <3>3. /\ KidsOf(call, Top) \in Seq(Source \cup {Broken})
          /\ KidsOf(call, Top) = CurrentAnswer.kids
      BY <1>3, <3>2, AnswerType DEF KidsOf, CurrentAnswer, Current, Kids
    <3>4. Top.j \in DOMAIN KidsOf(call, Top) /\ KidsOf(call, Top)[Top.j] = Broken
      BY <2>1, <3>2, <3>3
    <3>5. FirstOK(call, Top, Promise!Answers("err", call))
      BY <1>3, <1>4, <1>5, <2>1, <2>3, <3>4, FirstBroken
    <3>6. QED
      BY <1>9, <2>1, <3>1, <3>5
  <2>4. QED
    BY <2>2, <2>3
<1>19. CASE LayerSpent
  BY <1>14, <1>19 DEF LayerSpent, AtChild, InPass, Running
<1>20. CASE NextPass
  <2> DEFINE g == [Top EXCEPT !.pass = Top.pass + 1, !.i = 1, !.j = 0]
  <2>1. /\ stack # <<>> /\ call' = call /\ ret' = ret /\ Top.pass # 0
        /\ Top.pass < Len(Passes[call.entry])
        /\ stack' = SetTop(g) /\ ret.res = "pending"
    BY <1>20 DEF NextPass, InPass, Running
  <2>2. g \in Frame
    BY <1>3, <1>4, <1>5, <2>1, NextPassOK DEF FrameOK
  <2>3. /\ g.pass = Top.pass + 1 /\ g.attempts = Top.attempts /\ g.spec = Top.spec
        /\ Top.pass \in Nat
    BY <1>4, <2>1 DEF Frame
  <2> HIDE DEF g
  <2>4. Ordered(call, g)
    BY <1>3, <1>4, <1>5, <2>1, <2>3, OrderedNextPass
  <2>5. g.pass > 0
    BY <2>3
  <2>6. RecordOK(call, g)
    BY <2>4, <2>5 DEF RecordOK
  <2>7. QED
    BY <1>7, <2>1, <2>2, <2>3, <2>6
<1>21. CASE Exhausted
  <2>1. /\ stack # <<>> /\ Top.pass # 0 /\ call' = call /\ stack' = stack
        /\ Top.i > Len(Line(call, Top)) /\ Top.pass = Len(Passes[call.entry])
    BY <1>21 DEF Exhausted, InPass, Running
  <2>2. CASE call.entry = "source"
    <3>1. ret' = Some(Top.src, Top.spec, Top.spec)
      BY <1>21, <2>2 DEF Exhausted
    <3>2. FirstOK(call, Top, ret')
      BY <1>3, <1>4, <1>5, <2>1, <2>2, <3>1, FirstRaw
    <3>3. ret'.res # "none"
      BY <3>1 DEF Some
    <3>4. QED
      BY <1>8, <2>1, <3>2, <3>3
  <2>3. CASE call.entry # "source"
    BY <1>8, <1>21, <2>1, <2>3 DEF Exhausted
  <2>4. QED
    BY <2>2, <2>3

<1>22. CASE Return
  <2> DEFINE below == SubSeq(stack, 1, Len(stack) - 1)
             n == Len(stack) - 1
  <2>1. stack # <<>> /\ call' = call /\ ret.res # "pending"
    BY <1>22 DEF Return
  <2>2. \/ /\ n > 0 /\ ret.res = "none"
           /\ stack' = [below EXCEPT ![n] = Resume(below[n])] /\ ret' = Pending
        \/ /\ ~(n > 0 /\ ret.res = "none")
           /\ stack' = below /\ ret' = ret
    BY <1>22 DEF Return
  <2>3. /\ StackOK(call, below) /\ Len(below) = n /\ n \in Nat /\ Top.depth = n
        /\ \A k \in 1..n : below[k].j > 0
    BY <1>3, <2>1, PopFrame, TopOK DEF Top
  <2>4. /\ SearchOK(call, below)
        /\ n > 0 => At(call, below[n], Top.src)
        /\ n = 0 => Top.src = call.root /\ below = <<>>
    BY <1>3, <1>4, <2>1, SearchPop
  <2>5. /\ Traced(call, below)
        /\ n > 0 => Top.spec = Append(below[n].spec, ChildLayer(call, below[n]))
    BY <1>3, <1>4, <2>1, TracedPop
  <2> HIDE DEF below
  <2> DEFINE f == below[n]
  <2>6. n > 0 => /\ below # <<>> /\ FrameOK(call, f) /\ f \in Frame /\ f.depth = n - 1
                 /\ f.j > 0 /\ Passed(call, f) /\ RecordOK(call, f) /\ Ordered(call, f)
    <3>1. SUFFICES ASSUME n > 0
                   PROVE  /\ below # <<>> /\ FrameOK(call, f) /\ f \in Frame
                          /\ f.depth = n - 1 /\ f.j > 0 /\ Passed(call, f)
                          /\ RecordOK(call, f)
      BY DEF RecordOK
    <3>2. n \in 1..n /\ below # <<>>
      BY <2>3, <3>1
    <3>3. QED
      BY <2>3, <2>4, <2>5, <3>2, TopOK DEF SearchOK, Traced
  <2>7. CASE /\ n > 0 /\ ret.res = "none"
             /\ stack' = [below EXCEPT ![n] = Resume(f)] /\ ret' = Pending
    <3> DEFINE m == f.j + 1
               g == [f EXCEPT !.j = m]
    <3>1. g = Resume(f)
      BY DEF Resume
    <3>2. m \in Nat
      BY <2>6, <2>7 DEF Frame
    <3> HIDE DEF f
    <3>3. /\ g \in Frame /\ g.pass = f.pass /\ g.i = f.i /\ g.attempts = f.attempts
          /\ g.spec = f.spec
      <4> HIDE DEF m
      <4>1. f \in Frame
        BY <2>6, <2>7
      <4>2. g \in Frame
        BY <3>2, <4>1, ChildCursor
      <4>3. QED
        BY <4>1, <4>2 DEF Frame
    <3> HIDE DEF g
    <3>9. f.i \in Nat /\ f.attempts \in Seq(Nat) /\ g.i \in Nat /\ g.i >= f.i
      BY <2>6, <2>7, <3>3 DEF Frame
    <3>4. Ordered(call, g)
      BY <2>6, <2>7, <3>3, <3>9, OrderedOn
    <3>5. RecordOK(call, g)
      BY <2>6, <2>7, <3>3, <3>4 DEF RecordOK
    <3>6. Traced(call, [below EXCEPT ![n] = g])
      BY <2>3, <2>5, <2>6, <2>7, <3>3, <3>5, TracedReplaceTop DEF f
    <3>7. [below EXCEPT ![n] = g] # <<>>
      <4>1. below \in Seq(Frame) /\ Len(below) = n /\ n \in Nat \ {0}
        BY <2>3, <2>7 DEF StackOK
      <4>2. Len([below EXCEPT ![n] = g]) = n
        BY <4>1
      <4>3. QED
        BY <4>1, <4>2
    <3>8. QED
      BY <1>6, <2>1, <2>7, <3>1, <3>6, <3>7, AnswersAre DEF FoundOK, DoneOK
  <2>8. CASE n = 0 /\ stack' = below /\ ret' = ret
    <3>1. below = <<>> /\ Top.src = call.root /\ Top.depth = 0
      BY <2>3, <2>4, <2>8
    <3>2. ret = Promise!Promised(call)
      <4>1. CASE ret.res = "none"
        <5>1. NoneOK(call', stack', ret')
          BY <1>2 DEF SInv
        <5>2. Barren(call, call.root, 0)
          BY <2>1, <2>8, <3>1, <4>1, <5>1 DEF NoneOK
        <5>3. QED
          BY <1>3, <4>1, <5>2, NonePromised DEF FoundOK
      <4>2. CASE ret.res # "none"
        <5>1. ret.res \in {"some", "err"}
          BY <1>1, <2>1, <4>2 DEF RInv, SInv, IInv, RetOK, Outcome
        <5>2. FirstOK(call, Top, ret)
          BY <1>3, <1>4, <2>1, <5>1 DEF FoundOK
        <5>3. Top.spec = <<>>
          <6>1. Top.spec \in Seq(Layer) /\ Len(Top.spec) = 0
            BY <1>4, <2>1, <3>1 DEF FrameOK, DepthOK, Frame
          <6>2. QED
            BY <6>1, EmptySeq
        <5>4. QED
          BY <1>3, <3>1, <5>2, <5>3, FirstPromised
      <4>3. QED
        BY <4>1, <4>2
    <3>3. QED
      BY <1>3, <1>6, <2>1, <2>5, <2>8, <3>1, <3>2 DEF FoundOK, DoneOK
  <2>9. CASE n > 0 /\ ret.res # "none" /\ stack' = below /\ ret' = ret
    <3>1. ret.res \in {"some", "err"}
      BY <1>1, <2>1, <2>9 DEF RInv, SInv, IInv, RetOK, Outcome
    <3>2. FirstOK(call, Top, ret)
      BY <1>3, <1>4, <2>1, <3>1 DEF FoundOK
    <3>3. /\ At(call, f, Top.src) /\ Top.spec = Append(f.spec, ChildLayer(call, f))
          /\ Top.src \in Source /\ Top.depth = f.depth + 1
      BY SMTT(40), <1>4, <2>1, <2>3, <2>4, <2>5, <2>6, <2>9 DEF Frame
    <3> HIDE DEF f
    <3>4. FirstOK(call, f, ret)
      BY <1>3, <2>6, <2>9, <3>2, <3>3, FirstChild
    <3>5. FoundOK(call, below, ret) /\ DoneOK(call, below, ret)
      BY <1>3, <2>3, <2>6, <2>9, <3>4 DEF FoundOK, DoneOK, f
    <3>6. QED
      BY <1>6, <2>1, <2>5, <2>9, <3>5
  <2>10. QED
    BY <2>2, <2>3, <2>7, <2>8, <2>9
<1>23. CASE UNCHANGED vars
  BY <1>3, <1>6, <1>23 DEF vars
<1>24. QED
  BY <1>1, <1>11, <1>12, <1>13, <1>15, <1>16, <1>17, <1>18, <1>19, <1>20, <1>21,
     <1>22, <1>23 DEF Next, Step, Returned

-----------------------------------------------------------------------------
(***************************************************************************)
(* Theorems                                                                *)
(***************************************************************************)

\* At every step of the recursion the locators of the records extend one another
\* and what the innermost record returns is the first of the sites below it.
THEOREM OrderInvariance == Spec => []RInv
BY InitRInv, NextRInv, PTL DEF Spec

outcome == IF Done THEN ret ELSE Pending

LEMMA InitPromise == Init => Promise!Init
<1>1. SUFFICES ASSUME Init PROVE Promise!Init
  OBVIOUS
<1>2. call \in Call
  BY <1>1, CallsAssumption DEF Init
<1>3. stack # <<>>
  <2> DEFINE g == Enter(call.root, <<>>, 0, IF call.entry = "tree" THEN 1 ELSE 0)
  <2>1. stack = <<g>>
    BY <1>1 DEF Init
  <2> HIDE DEF g
  <2>2. Len(stack) = 1 /\ Len(<<>>) = 0
    BY <2>1
  <2>3. QED
    BY <2>2
<1>4. outcome = Promise!Answers("pending", call)
  BY <1>3, AnswersAre DEF outcome, Done
<1>5. Promise!Call = Call
  BY DEF Promise!Call, Call, Promise!Entry, Entry, Promise!Evidence, Evidence,
     Promise!Answer, Answer, Promise!Opener, Opener, Promise!Elements, Elements,
     Promise!Verdict, Verdict
<1>6. QED
  BY <1>2, <1>4, <1>5 DEF Promise!Init, outcome

\* The step in which the outermost record returns is the step of the promise;
\* every other step of the search is invisible.
LEMMA StepRefines ==
  RInv /\ RInv' /\ [Next]_vars => [Promise!Resolve]_<<call, outcome>>
<1>1. SUFFICES ASSUME RInv, RInv', [Next]_vars
               PROVE  [Promise!Resolve]_<<call, outcome>>
  OBVIOUS
<1>2. call' = call
  BY <1>1 DEF Next, Step, Returned, vars, DepthCap, Sniff, Decline, Mount, OpenLayer,
     Descend, ChildFails, LayerSpent, NextPass, Exhausted, Return
<1>3. Pending' = Pending /\ Pending.res = "pending"
  BY <1>2 DEF Pending, Bare
<1>4. CASE Done
  <2>1. UNCHANGED vars
    BY <1>1, <1>4 DEF Next, Step, Returned, vars, Done, DepthCap, Sniff, Decline, Mount,
       OpenLayer, Descend, ChildFails, LayerSpent, NextPass, Exhausted, Return,
       AtOpener, AtChild, InPass, Running
  <2>2. outcome' = outcome
    BY <1>3, <2>1 DEF outcome, Done, vars
  <2>3. QED
    BY <1>2, <2>2
<1>5. CASE ~Done /\ ~Done'
  <2>1. outcome' = outcome
    BY <1>3, <1>5 DEF outcome
  <2>2. QED
    BY <1>2, <2>1
<1>6. CASE ~Done /\ Done'
  <2>1. outcome = Pending /\ outcome' = ret'
    BY <1>6 DEF outcome
  <2>2. ret'.res # "pending" /\ ret' = Promise!Promised(call)
    BY <1>1, <1>2, <1>6 DEF RInv, DoneOK, Done
  <2>3. Promise!Resolve
    BY <1>2, <1>3, <2>1, <2>2 DEF Promise!Resolve, Promise!Answered, outcome
  <2>4. QED
    BY <2>3
<1>7. QED
  BY <1>4, <1>5, <1>6

\* The recursive search of open_with_credentials and resolve_to_source, and the
\* loop of open_tree, answer what Resolution promises in a single step: the
\* site whose route is least, filesystem before volume system before signature
\* encryption before container before archive before credential attempt, in
\* registration order and child order, at every level within the depth cap.
THEOREM AnswersFirst == Spec => ResolvesFirst
<1>1. Init => Promise!Init
  BY InitPromise
<1>2. RInv /\ RInv' /\ [Next]_vars => [Promise!Resolve]_<<call, IF Done THEN ret ELSE Pending>>
  BY StepRefines DEF outcome
<1>3. QED
  BY <1>1, <1>2, OrderInvariance, PTL DEF Spec, ResolvesFirst, Promise!Spec
=============================================================================
