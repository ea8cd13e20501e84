--------------------------- MODULE ResolverProofs ---------------------------
(***************************************************************************)
(* Theorems about the resolver, for every registry, every evidence and     *)
(* every depth cap.                                                        *)
(***************************************************************************)
EXTENDS Resolver, SequenceTheorems, TLAPS

-----------------------------------------------------------------------------
(***************************************************************************)
(* The inductive invariant is a predicate of each activation record, of    *)
(* how neighbouring records fit together, and of what is being returned.   *)
(***************************************************************************)

\* The record is in the middle of the children of an opener it opened.
Opened(c, f) ==
  /\ f.pass > 0
  /\ f.i <= Len(Line(c, f))
  /\ PassName(c, f) \notin MountPass
  /\ Engaged(c, f.src, PassName(c, f), Line(c, f)[f.i])
  /\ AnswerOf(c, f.src, Line(c, f)[f.i]).ok

\* Everything recorded for the last resort is a Maybe scheme.
AttemptsOK(c, f) ==
  \A m \in DOMAIN f.attempts :
    /\ f.attempts[m] \in DOMAIN EncryptionLayers
    /\ AnswerOf(c, f.src, EncryptionLayers[f.attempts[m]]).verdict = "Maybe"

DepthOK(f) ==
  /\ Len(f.spec) = f.depth
  /\ f.depth <= MaxDepth + 1
  /\ f.pass > 0 => f.depth <= MaxDepth

FrameOK(c, f) ==
  /\ f \in Frame
  /\ f.pass \in 0..Len(Passes[c.entry])
  /\ AttemptsOK(c, f)
  /\ DepthOK(f)
  /\ f.j > 0 => Opened(c, f)
  /\ Replays(c, f.spec, f.src)

StackOK(c, st) ==
  /\ st \in Seq(Frame)
  /\ \A k \in 1..Len(st) : FrameOK(c, st[k]) /\ st[k].depth = k - 1
  /\ \A k \in 1..(Len(st) - 1) : st[k].j > 0

RetOK(c, r) ==
  /\ r \in Outcome
  /\ r.res = "some" => /\ Len(r.source_spec) <= MaxDepth
                       /\ Replays(c, r.source_spec, r.src)

CallOK(c) == c \in Call /\ WellFormed(c)

IInv == CallOK(call) /\ StackOK(call, stack) /\ RetOK(call, ret)

-----------------------------------------------------------------------------
(***************************************************************************)
(* The constants and the data of a call                                    *)
(***************************************************************************)

\* Each entry point goes through a sequence of known passes.
LEMMA PassesType ==
  ASSUME NEW e \in Entry
  PROVE  Passes[e] \in Seq(Pass) /\ Len(Passes[e]) \in 1..6
<1>1. Passes["open"] \in Seq(Pass) /\ Len(Passes["open"]) = 6
  BY DEF Passes, Pass
<1>2. Passes["source"] \in Seq(Pass) /\ Len(Passes["source"]) = 2
  BY DEF Passes, Pass
<1>3. Passes["tree"] \in Seq(Pass) /\ Len(Passes["tree"]) = 1
  BY DEF Passes, Pass
<1>4. QED
  BY <1>1, <1>2, <1>3 DEF Entry

\* What an opener answers about a source has the type of an Answer.
LEMMA AnswerType ==
  ASSUME NEW c \in Call, NEW s \in Source, NEW o \in Opener
  PROVE  /\ AnswerOf(c, s, o) \in Answer
         /\ Kids(c, s, o) \in Seq(Source \cup {Broken})
BY DEF Call, Evidence, Answer, AnswerOf, Kids

\* The registry's lists are sequences of openers.
LEMMA RegisteredType ==
  ASSUME NEW p \in Pass
  PROVE  Registered[p] \in Seq(Opener)
BY OpenersWellFormed DEF OpenersAssumption

\* The line of openers a record goes through holds openers registered for
\* its pass.
LEMMA LineType ==
  ASSUME NEW c \in Call, NEW f, FrameOK(c, f), f.pass > 0
  PROVE  /\ PassName(c, f) \in Pass
         /\ PassName(c, f) \in PassesOf(c)
         /\ Line(c, f) \in Seq(Opener)
         /\ \A i \in 1..Len(Line(c, f)) :
              /\ Line(c, f)[i] \in Opener
              /\ Line(c, f)[i] \in Elements(Registered[PassName(c, f)])
<1>1. c.entry \in Entry
  BY DEF Call
<1>2. f.pass \in 1..Len(Passes[c.entry]) /\ f.attempts \in Seq(Nat)
  BY DEF FrameOK, Frame
<1>3. PassName(c, f) \in Pass /\ PassName(c, f) \in PassesOf(c)
  BY <1>1, <1>2, PassesType DEF PassName, PassesOf, Elements
<1>4. Registered[PassName(c, f)] \in Seq(Opener)
  BY <1>3, RegisteredType
<1>5. CASE PassName(c, f) # "try"
  BY <1>3, <1>4, <1>5 DEF Line, Elements
<1>6. CASE PassName(c, f) = "try"
  <2>1. Registered[PassName(c, f)] = EncryptionLayers
    BY <1>6 DEF Registered
  <2>2. Line(c, f) = [k \in 1..Len(f.attempts) |-> EncryptionLayers[f.attempts[k]]]
    BY <1>2, <1>6 DEF Line
  <2>3. \A k \in 1..Len(f.attempts) : f.attempts[k] \in DOMAIN EncryptionLayers
    BY <1>2 DEF FrameOK, AttemptsOK
  <2>4. \A k \in 1..Len(f.attempts) :
          /\ EncryptionLayers[f.attempts[k]] \in Opener
          /\ EncryptionLayers[f.attempts[k]] \in Elements(EncryptionLayers)
    BY <1>4, <2>1, <2>3 DEF Elements
  <2>5. Line(c, f) \in Seq(Opener) /\ Len(Line(c, f)) = Len(f.attempts)
    BY <1>2, <2>2, <2>4
  <2>6. QED
    BY <1>3, <2>1, <2>2, <2>4, <2>5
<1>7. QED
  BY <1>5, <1>6

\* Every locator layer the resolver pushes is a Layer.
LEMMA LayerType ==
  ASSUME NEW c \in Call, NEW s \in Source, NEW p \in Pass \ {"tree"},
         NEW o \in Opener, NEW j \in Nat \ {0}
  PROVE  LayerOf(c, s, p, o, j) \in Layer
<1>1. LayerKind[p] \in LayerName
  BY DEF Pass, LayerKind, LayerName
<1>2. QED
  BY <1>1 DEF LayerOf, Layer, NoIndex

-----------------------------------------------------------------------------
(***************************************************************************)
(* Locators                                                                *)
(***************************************************************************)

\* The empty locator stands for the root of the call.
LEMMA ReplaysRoot ==
  ASSUME NEW c \in Call
  PROVE  Replays(c, <<>>, c.root)
<1> DEFINE path == [k \in 1..(Len(<<>>) + 1) |-> c.root]
<1>1. path \in [1..(Len(<<>>) + 1) -> Source]
  BY DEF Call
<1>2. path[1] = c.root /\ path[Len(<<>>) + 1] = c.root
  OBVIOUS
<1>3. \A k \in 1..Len(<<>>) : Reopens(c, path[k], <<>>[k], path[k + 1])
  <2>1. 1..Len(<<>>) = {}
    OBVIOUS
  <2>2. QED
    BY <2>1
<1> HIDE DEF path
<1>4. QED
  BY <1>1, <1>2, <1>3 DEF Replays

\* A locator extended by a layer that reopens a child replays to that child.
LEMMA ReplaysAppend ==
  ASSUME NEW c \in Call, NEW spec \in Seq(Layer), NEW s \in Source,
         Replays(c, spec, s),
         NEW l \in Layer, NEW t \in Source, Reopens(c, s, l, t)
  PROVE  Replays(c, Append(spec, l), t)
<1>1. PICK path \in [1..(Len(spec) + 1) -> Source] :
        /\ path[1] = c.root
        /\ path[Len(spec) + 1] = s
        /\ \A k \in 1..Len(spec) : Reopens(c, path[k], spec[k], path[k + 1])
  BY DEF Replays
<1> DEFINE more == Append(spec, l)
           q == [k \in 1..(Len(spec) + 2) |-> IF k = Len(spec) + 2 THEN t ELSE path[k]]
<1>2. Len(more) = Len(spec) + 1 /\ Len(spec) \in Nat
  OBVIOUS
<1>3. \A k \in 1..Len(spec) : more[k] = spec[k]
  OBVIOUS
<1>4. more[Len(spec) + 1] = l
  OBVIOUS
<1>5. q \in [1..(Len(more) + 1) -> Source]
  BY <1>2
<1>6. q[1] = c.root /\ q[Len(more) + 1] = t
  BY <1>1, <1>2
<1>7. \A k \in 1..Len(more) : Reopens(c, q[k], more[k], q[k + 1])
  <2>1. SUFFICES ASSUME NEW k \in 1..Len(more)
                 PROVE  Reopens(c, q[k], more[k], q[k + 1])
    OBVIOUS
  <2>2. CASE k = Len(spec) + 1
    <3>1. q[k] = s /\ q[k + 1] = t /\ more[k] = l
      BY <1>1, <1>2, <1>4, <2>2
    <3>2. QED
      BY <3>1
  <2>3. CASE k \in 1..Len(spec)
    <3>1. q[k] = path[k] /\ q[k + 1] = path[k + 1] /\ more[k] = spec[k]
      BY <1>2, <1>3, <2>3
    <3>2. QED
      BY <1>1, <2>3, <3>1
  <2>4. QED
    BY <1>2, <2>2, <2>3
<1> HIDE DEF q, more
<1>8. Replays(c, more, t)
  BY <1>5, <1>6, <1>7 DEF Replays
<1>9. QED
  BY <1>8 DEF more

\* The layer pushed for the child a record is at reopens that very child.
LEMMA ChildReopens ==
  ASSUME NEW c, CallOK(c), NEW f, FrameOK(c, f), f.j > 0,
         f.j <= Len(Kids(c, f.src, Line(c, f)[f.i])),
         Kids(c, f.src, Line(c, f)[f.i])[f.j] # Broken
  PROVE  LET o == Line(c, f)[f.i]
             l == LayerOf(c, f.src, PassName(c, f), o, f.j)
         IN  /\ Kids(c, f.src, o)[f.j] \in Source
             /\ l \in Layer
             /\ Reopens(c, f.src, l, Kids(c, f.src, o)[f.j])
<1> DEFINE o == Line(c, f)[f.i]
           p == PassName(c, f)
           a == AnswerOf(c, f.src, o)
           l == LayerOf(c, f.src, p, o, f.j)
<1>1. c \in Call /\ f.src \in Source /\ f.j \in Nat \ {0} /\ f.i \in Nat \ {0}
  BY DEF CallOK, FrameOK, Frame
<1>2. Opened(c, f)
  BY DEF FrameOK
<1>3. /\ p \in Pass /\ p \notin MountPass
      /\ o \in Opener /\ o \in Elements(Registered[p])
  BY <1>1, <1>2, LineType DEF Opened
<1>4. /\ a \in Answer /\ a.kids \in Seq(Source \cup {Broken})
      /\ a.kids = Kids(c, f.src, o)
  BY <1>1, <1>3, AnswerType DEF Kids
<1>5. f.j \in DOMAIN a.kids /\ a.kids[f.j] \in Source
  BY <1>1, <1>4
<1>6. p \in {"vs", "sig", "cont", "arch", "try"}
  BY <1>3 DEF Pass, MountPass
<1>7. l \in Layer
  BY <1>1, <1>3, <1>6, LayerType
<1>8. a.ok /\ a.verdict # "No"
  BY <1>2, <1>6 DEF Opened, Engaged
<1>9. \/ o \in Elements(Containers) \cup Elements(EncryptionLayers)
      \/ a.stream
      => a.kids = <<a.kids[f.j]>>
  <2>1. SUFFICES ASSUME o \in Elements(Containers) \cup Elements(EncryptionLayers) \/ a.stream
                 PROVE  a.kids = <<a.kids[f.j]>>
    OBVIOUS
  <2>2. Len(a.kids) = 1
    BY <1>1, <1>3, <1>8, <2>1 DEF CallOK, WellFormed, AnswerOf
  <2>3. f.j = 1
    BY <1>1, <1>4, <1>5, <2>2
  <2>4. QED
    BY <1>4, <2>2, <2>3
<1> HIDE DEF o, p, a
<1>10. Reopens(c, f.src, l, a.kids[f.j])
  <2>1. AnswerOf(c, f.src, o) = a
    BY DEF a
  <2>2. CASE p = "vs"
    <3>1. o \in Elements(VolumeSystems)
      BY <1>3, <2>2 DEF Registered
    <3>2. l = [kind |-> "volume", opener |-> o, index |-> f.j - 1]
      BY <2>2 DEF LayerOf, LayerKind
    <3>3. l.kind = "volume" /\ l.opener = o /\ l.index + 1 = f.j
      BY <1>1, <3>2
    <3>4. QED
      BY <1>3, <1>5, <1>8, <2>1, <3>1, <3>3 DEF Reopens
  <2>3. CASE p \in {"sig", "try"}
    <3>1. o \in Elements(EncryptionLayers)
      BY <1>3, <2>3 DEF Registered
    <3>2. l = [kind |-> "encryption", opener |-> o, index |-> NoIndex]
      BY <2>3 DEF LayerOf, LayerKind
    <3>3. l.kind = "encryption" /\ l.opener = o /\ l.index = NoIndex
      BY <3>2
    <3>4. QED
      BY <1>3, <1>8, <1>9, <2>1, <3>1, <3>3 DEF Reopens
  <2>4. CASE p = "cont"
    <3>1. o \in Elements(Containers)
      BY <1>3, <2>4 DEF Registered
    <3>2. l = [kind |-> "container", opener |-> o, index |-> NoIndex]
      BY <2>4 DEF LayerOf, LayerKind
    <3>3. l.kind = "container" /\ l.opener = o /\ l.index = NoIndex
      BY <3>2
    <3>4. QED
      BY <1>3, <1>8, <1>9, <2>1, <3>1, <3>3 DEF Reopens
  <2>5. CASE p = "arch"
    <3>1. o \in Elements(Archives)
      BY <1>3, <2>5 DEF Registered
    <3>2. l = [kind |-> "archive", opener |-> Unnamed,
               index |-> IF a.stream THEN NoIndex ELSE f.j - 1]
      BY <1>4, <2>1, <2>5 DEF LayerOf, LayerKind, Answer
    <3>3. /\ l.kind = "archive"
          /\ a.stream => l.index = NoIndex
          /\ ~a.stream => l.index + 1 = f.j
      BY <1>1, <3>2
    <3>4. CASE a.stream
      BY <1>3, <1>8, <1>9, <2>1, <3>1, <3>3, <3>4 DEF Reopens
    <3>5. CASE ~a.stream
      BY <1>3, <1>5, <1>8, <2>1, <3>1, <3>3, <3>5 DEF Reopens
    <3>6. QED
      BY <3>4, <3>5
  <2>6. QED
    BY <1>6, <2>2, <2>3, <2>4, <2>5
<1>11. QED
  BY <1>4, <1>5, <1>7, <1>10 DEF o, p, a

-----------------------------------------------------------------------------
(***************************************************************************)
(* The stack                                                               *)
(***************************************************************************)

\* The innermost record of a non-empty stack, and its place in it.
LEMMA TopOK ==
  ASSUME NEW c, NEW st, StackOK(c, st), st # <<>>
  PROVE  /\ Len(st) \in Nat \ {0}
         /\ FrameOK(c, st[Len(st)])
         /\ st[Len(st)] \in Frame
         /\ st[Len(st)].depth = Len(st) - 1
<1>1. st \in Seq(Frame)
  BY DEF StackOK
<1>2. Len(st) \in Nat \ {0}
  BY <1>1, EmptySeq
<1>3. Len(st) \in 1..Len(st)
  BY <1>2
<1>4. QED
  BY <1>2, <1>3 DEF StackOK, FrameOK

\* Updating the innermost record at the same depth keeps the stack well-formed.
LEMMA ReplaceTop ==
  ASSUME NEW c, NEW st, StackOK(c, st), st # <<>>,
         NEW g, FrameOK(c, g), g.depth = st[Len(st)].depth
  PROVE  StackOK(c, [st EXCEPT ![Len(st)] = g])
<1> DEFINE r == [st EXCEPT ![Len(st)] = g]
<1>1. st \in Seq(Frame) /\ Len(st) \in Nat \ {0} /\ g \in Frame
  BY TopOK DEF StackOK, FrameOK
<1>2. r \in Seq(Frame) /\ Len(r) = Len(st)
  BY <1>1
<1>3. r[Len(st)] = g /\ \A k \in 1..(Len(st) - 1) : r[k] = st[k]
  BY <1>1
<1> HIDE DEF r
<1>4. \A k \in 1..Len(r) : FrameOK(c, r[k]) /\ r[k].depth = k - 1
  <2>1. SUFFICES ASSUME NEW k \in 1..Len(r)
                 PROVE  FrameOK(c, r[k]) /\ r[k].depth = k - 1
    OBVIOUS
  <2>2. CASE k = Len(st)
    BY <1>3, <2>2, TopOK
  <2>3. CASE k \in 1..(Len(st) - 1)
    BY <1>1, <1>3, <2>3 DEF StackOK
  <2>4. QED
    BY <1>1, <1>2, <2>2, <2>3
<1>5. \A k \in 1..(Len(r) - 1) : r[k].j > 0
  BY <1>2, <1>3 DEF StackOK
<1>6. QED
  BY <1>2, <1>4, <1>5 DEF StackOK, r

\* So does pushing a record one level deeper than a caller that waits for it.
LEMMA PushFrame ==
  ASSUME NEW c, NEW st, StackOK(c, st), st # <<>>, st[Len(st)].j > 0,
         NEW g, FrameOK(c, g), g.depth = st[Len(st)].depth + 1
  PROVE  StackOK(c, Append(st, g))
<1> DEFINE r == Append(st, g)
<1>1. st \in Seq(Frame) /\ Len(st) \in Nat \ {0} /\ g \in Frame
  BY TopOK DEF StackOK, FrameOK
<1>2. r \in Seq(Frame) /\ Len(r) = Len(st) + 1
  BY <1>1
<1>3. r[Len(st) + 1] = g /\ \A k \in 1..Len(st) : r[k] = st[k]
  BY <1>1
<1> HIDE DEF r
<1>4. \A k \in 1..Len(r) : FrameOK(c, r[k]) /\ r[k].depth = k - 1
  <2>1. SUFFICES ASSUME NEW k \in 1..Len(r)
                 PROVE  FrameOK(c, r[k]) /\ r[k].depth = k - 1
    OBVIOUS
  <2>2. CASE k = Len(st) + 1
    BY <1>1, <1>3, <2>2, TopOK
  <2>3. CASE k \in 1..Len(st)
    BY <1>3, <2>3 DEF StackOK
  <2>4. QED
    BY <1>1, <1>2, <2>2, <2>3
<1>5. \A k \in 1..(Len(r) - 1) : r[k].j > 0
  <2>1. SUFFICES ASSUME NEW k \in 1..Len(st) PROVE st[k].j > 0
    BY <1>1, <1>2, <1>3
  <2>2. k = Len(st) \/ k \in 1..(Len(st) - 1)
    BY <1>1
  <2>3. QED
    BY <2>2 DEF StackOK
<1>6. QED
  BY <1>2, <1>4, <1>5 DEF StackOK, r

\* And so does popping; the caller, if any, was waiting for a child.
LEMMA PopFrame ==
  ASSUME NEW c, NEW st, StackOK(c, st), st # <<>>
  PROVE  LET r == SubSeq(st, 1, Len(st) - 1) IN
           /\ StackOK(c, r)
           /\ Len(r) = Len(st) - 1
           /\ \A k \in 1..Len(r) : r[k] = st[k] /\ r[k].j > 0
<1> DEFINE r == SubSeq(st, 1, Len(st) - 1)
<1>1. st \in Seq(Frame) /\ Len(st) \in Nat \ {0}
  BY TopOK DEF StackOK
<1>2. /\ r \in Seq(Frame) /\ Len(r) = Len(st) - 1
      /\ \A k \in 1..Len(r) : r[k] = st[k]
  <2>1. \A k \in 1..(Len(st) - 1) : st[k] \in Frame
    BY <1>1
  <2> DEFINE n == Len(st) - 1
  <2>2. n \in Nat
    BY <1>1
  <2> HIDE DEF n
  <2>3. /\ SubSeq(st, 1, n) \in Seq(Frame)
        /\ Len(SubSeq(st, 1, n)) = IF 1 <= n THEN n - 1 + 1 ELSE 0
        /\ \A k \in 1..(n - 1 + 1) : SubSeq(st, 1, n)[k] = st[1 + k - 1]
    BY <2>1, <2>2, SubSeqProperties DEF n
  <2>4. r = SubSeq(st, 1, n)
    BY DEF n
  <2> HIDE DEF r
  <2>5. Len(r) = n
    BY <2>2, <2>3, <2>4
  <2>6. \A k \in 1..n : r[k] = st[k]
    BY <2>2, <2>3, <2>4
  <2>7. QED
    BY <2>3, <2>4, <2>5, <2>6 DEF n
<1> HIDE DEF r
<1>3. \A k \in 1..Len(r) : k \in 1..Len(st) /\ r[k].j > 0
  BY <1>1, <1>2 DEF StackOK
<1>4. \A k \in 1..Len(r) : FrameOK(c, r[k]) /\ r[k].depth = k - 1
  BY <1>2, <1>3 DEF StackOK
<1>5. \A k \in 1..(Len(r) - 1) : k \in 1..Len(r)
  BY <1>1, <1>2
<1>6. StackOK(c, r)
  BY <1>2, <1>3, <1>4, <1>5 DEF StackOK
<1>7. QED
  BY <1>2, <1>3, <1>6 DEF r

\* What is returned without a found source is well-formed.
LEMMA BareOK ==
  ASSUME NEW x \in {"pending", "none", "err"}, CallOK(call)
  PROVE  RetOK(call, Bare(x)) /\ Bare(x).res = x
<1>1. call.root \in Source
  BY DEF CallOK, Call
<1>2. QED
  BY <1>1 DEF RetOK, Outcome, Bare

-----------------------------------------------------------------------------
(***************************************************************************)
(* The invariant holds initially and every step preserves it               *)
(***************************************************************************)

\* Moving the cursor leaves a record a record.
LEMMA PassCursor ==
  ASSUME NEW f \in Frame, NEW n \in Nat PROVE [f EXCEPT !.pass = n] \in Frame
BY DEF Frame

LEMMA OpenerCursor ==
  ASSUME NEW f \in Frame, NEW n \in Nat \ {0} PROVE [f EXCEPT !.i = n] \in Frame
BY DEF Frame

LEMMA ChildCursor ==
  ASSUME NEW f \in Frame, NEW n \in Nat PROVE [f EXCEPT !.j = n] \in Frame
BY DEF Frame

\* A new record is well-formed when its locator stands for its source.
LEMMA EnterOK ==
  ASSUME NEW c \in Call, NEW s \in Source, NEW spec \in Seq(Layer),
         NEW p \in 0..Len(Passes[c.entry]), NEW d, d = Len(spec),
         d <= MaxDepth + 1, p > 0 => d <= MaxDepth,
         Replays(c, spec, s)
  PROVE  FrameOK(c, Enter(s, spec, d, p))
<1> DEFINE g == Enter(s, spec, d, p)
<1>1. c.entry \in Entry /\ p \in Nat /\ d \in Nat
  BY PassesType DEF Call
<1>2. g \in Frame
  BY <1>1 DEF Enter, Frame
<1>3. DOMAIN g.attempts = {}
  BY DEF Enter
<1>4. /\ g.src = s /\ g.spec = spec /\ g.depth = d /\ g.pass = p /\ g.j = 0
  BY DEF Enter
<1> HIDE DEF g
<1>5. AttemptsOK(c, g)
  BY <1>3 DEF AttemptsOK
<1>6. QED
  BY <1>2, <1>4, <1>5 DEF FrameOK, DepthOK, g

LEMMA InitIInv == Init => IInv
<1>1. SUFFICES ASSUME Init PROVE IInv
  OBVIOUS
<1> DEFINE p == IF call.entry = "tree" THEN 1 ELSE 0
           g == Enter(call.root, <<>>, 0, p)
<1>2. CallOK(call) /\ call \in Call /\ call.root \in Source /\ call.entry \in Entry
  BY <1>1, CallsAssumption DEF Init, CallOK, Call
<1>3. p \in 0..Len(Passes[call.entry]) /\ MaxDepth \in Nat
  <2>1. MaxDepth \in Nat
    BY OpenersWellFormed DEF OpenersAssumption
  <2>2. Len(Passes[call.entry]) \in 1..6
    BY <1>2, PassesType
  <2>3. p \in {0, 1}
    OBVIOUS
  <2>4. QED
    BY <2>1, <2>2, <2>3
<1>4. Replays(call, <<>>, call.root)
  BY <1>2, ReplaysRoot
<1>5. <<>> \in Seq(Layer) /\ Len(<<>>) = 0
  OBVIOUS
<1> HIDE DEF p
<1>6. FrameOK(call, g) /\ g.depth = 0 /\ g \in Frame
  <2>1. 0 <= MaxDepth + 1 /\ (p > 0 => 0 <= MaxDepth)
    BY <1>3
  <2>2. FrameOK(call, Enter(call.root, <<>>, 0, p))
    BY <1>2, <1>3, <1>4, <1>5, <2>1, EnterOK
  <2>3. QED
    BY <2>2 DEF Enter, FrameOK
<1>7. stack = <<g>> /\ ret = Pending
  BY <1>1 DEF Init, p
<1> HIDE DEF g
<1>8. StackOK(call, stack)
  <2>1. stack \in Seq(Frame) /\ Len(stack) = 1 /\ stack[1] = g
    BY <1>6, <1>7
  <2>2. QED
    BY <1>6, <2>1 DEF StackOK
<1>9. RetOK(call, ret)
  BY <1>2, <1>7, BareOK DEF Pending
<1>10. QED
  BY <1>2, <1>8, <1>9 DEF IInv

\* Going on to the next opener of the pass.
LEMMA NextOpenerOK ==
  ASSUME NEW c, NEW f, FrameOK(c, f)
  PROVE  FrameOK(c, NextOpener(f)) /\ NextOpener(f).depth = f.depth
<1>1. f \in Frame
  BY DEF FrameOK
<1>2. /\ NextOpener(f) \in Frame /\ NextOpener(f).j = 0
      /\ NextOpener(f).pass = f.pass /\ NextOpener(f).depth = f.depth
      /\ NextOpener(f).src = f.src /\ NextOpener(f).spec = f.spec
      /\ NextOpener(f).attempts = f.attempts
  <2>1. [f EXCEPT !.i = f.i + 1] \in Frame
    <3>1. f.i + 1 \in Nat \ {0}
      BY <1>1 DEF Frame
    <3>2. QED
      BY <1>1, <3>1, OpenerCursor
  <2>2. [[f EXCEPT !.i = f.i + 1] EXCEPT !.j = 0] \in Frame
    BY <2>1, ChildCursor
  <2>3. NextOpener(f) = [[f EXCEPT !.i = f.i + 1] EXCEPT !.j = 0]
    BY <1>1 DEF NextOpener
  <2>4. QED
    BY <1>1, <2>2, <2>3 DEF Frame
<1>3. QED
  BY <1>2 DEF FrameOK, AttemptsOK, DepthOK

\* Going on to the next pass.
LEMMA NextPassOK ==
  ASSUME NEW c \in Call, NEW f, FrameOK(c, f), f.pass < Len(Passes[c.entry]),
         f.depth <= MaxDepth
  PROVE  LET g == [f EXCEPT !.pass = f.pass + 1, !.i = 1, !.j = 0]
         IN  FrameOK(c, g) /\ g.depth = f.depth
<1> DEFINE g == [f EXCEPT !.pass = f.pass + 1, !.i = 1, !.j = 0]
<1>1. f \in Frame /\ f.pass \in 0..Len(Passes[c.entry])
  BY DEF FrameOK
<1>2. Len(Passes[c.entry]) \in Nat /\ f.pass \in Nat
  BY <1>1, PassesType DEF Call, Frame
<1>3. /\ g \in Frame /\ g.j = 0
      /\ g.pass = f.pass + 1 /\ g.depth = f.depth
      /\ g.src = f.src /\ g.spec = f.spec /\ g.attempts = f.attempts
  <2>1. [f EXCEPT !.pass = f.pass + 1] \in Frame
    <3>1. f.pass + 1 \in Nat
      BY <1>2
    <3>2. QED
      BY <1>1, <3>1, PassCursor
  <2>2. [[f EXCEPT !.pass = f.pass + 1] EXCEPT !.i = 1] \in Frame
    <3>1. 1 \in Nat \ {0}
      OBVIOUS
    <3>2. QED
      BY <2>1, <3>1, OpenerCursor
  <2>3. [[[f EXCEPT !.pass = f.pass + 1] EXCEPT !.i = 1] EXCEPT !.j = 0] \in Frame
    BY <2>2, ChildCursor
  <2>4. g = [[[f EXCEPT !.pass = f.pass + 1] EXCEPT !.i = 1] EXCEPT !.j = 0]
    BY <1>1
  <2>5. QED
    BY <1>1, <1>2, <2>3, <2>4 DEF Frame
<1>4. g.pass \in 0..Len(Passes[c.entry])
  BY <1>1, <1>2, <1>3
<1> HIDE DEF g
<1>5. FrameOK(c, g)
  BY <1>3, <1>4 DEF FrameOK, AttemptsOK, DepthOK
<1>6. QED
  BY <1>3, <1>5 DEF g

\* Going through the children of an opener that is open.
LEMMA AtChildOK ==
  ASSUME NEW c \in Call, NEW f, FrameOK(c, f), NEW n \in Nat,
         Opened(c, f)
  PROVE  FrameOK(c, [f EXCEPT !.j = n]) /\ [f EXCEPT !.j = n].depth = f.depth
<1> DEFINE g == [f EXCEPT !.j = n]
<1>1. f \in Frame
  BY DEF FrameOK
<1>2. /\ g \in Frame /\ g.i = f.i
      /\ g.pass = f.pass /\ g.depth = f.depth
      /\ g.src = f.src /\ g.spec = f.spec /\ g.attempts = f.attempts
  BY <1>1, ChildCursor DEF Frame
<1> HIDE DEF g
<1>3. PassName(c, g) = PassName(c, f) /\ Line(c, g) = Line(c, f)
  BY <1>2 DEF PassName, Line
<1>4. Opened(c, g)
  BY <1>2, <1>3 DEF Opened
<1>5. FrameOK(c, g)
  BY <1>2, <1>4 DEF FrameOK, AttemptsOK, DepthOK
<1>6. QED
  BY <1>2, <1>5 DEF g

\* The signature pass records a Maybe scheme.
LEMMA RecordedOK ==
  ASSUME NEW c \in Call, NEW f, FrameOK(c, f), f.pass > 0,
         PassName(c, f) = "sig", f.i <= Len(Line(c, f)),
         AnswerOf(c, f.src, Line(c, f)[f.i]).verdict = "Maybe"
  PROVE  LET g == [NextOpener(f) EXCEPT !.attempts = Recorded(f)]
         IN  FrameOK(c, g) /\ g.depth = f.depth
<1> DEFINE g == [NextOpener(f) EXCEPT !.attempts = Recorded(f)]
<1>1. f \in Frame /\ f.attempts \in Seq(Nat) /\ f.i \in Nat \ {0}
  BY DEF FrameOK, Frame
<1>2. Line(c, f) = EncryptionLayers
  BY DEF Line, Registered
<1>3. EncryptionLayers \in Seq(Opener)
  BY <1>2, LineType
<1>4. f.i \in DOMAIN EncryptionLayers
  BY <1>1, <1>2, <1>3
<1>5. /\ g \in Frame /\ g.j = 0
      /\ g.pass = f.pass /\ g.depth = f.depth
      /\ g.src = f.src /\ g.spec = f.spec /\ g.attempts = Append(f.attempts, f.i)
  <2>1. NextOpener(f) \in Frame
    BY NextOpenerOK DEF FrameOK
  <2>2. Recorded(f) \in Seq(Nat) /\ Recorded(f) = Append(f.attempts, f.i)
    BY <1>1 DEF Recorded
  <2>3. g \in Frame
    BY <2>1, <2>2 DEF Frame
  <2>4. /\ g.j = 0 /\ g.pass = f.pass /\ g.depth = f.depth
        /\ g.src = f.src /\ g.spec = f.spec
    BY <1>1 DEF NextOpener, Frame
  <2>5. g.attempts = Append(f.attempts, f.i)
    BY <2>1, <2>2 DEF Frame
  <2>6. QED
    BY <2>3, <2>4, <2>5
<1> HIDE DEF g
<1>6. AttemptsOK(c, g)
  <2>1. SUFFICES ASSUME NEW m \in DOMAIN g.attempts
                 PROVE  /\ g.attempts[m] \in DOMAIN EncryptionLayers
                        /\ AnswerOf(c, f.src, EncryptionLayers[g.attempts[m]]).verdict = "Maybe"
    BY <1>5 DEF AttemptsOK
  <2>2. m = Len(f.attempts) + 1 \/ m \in DOMAIN f.attempts
    BY <1>1, <1>5
  <2>3. CASE m = Len(f.attempts) + 1
    <3>1. g.attempts[m] = f.i
      BY <1>1, <1>5, <2>3
    <3>2. QED
      BY <1>2, <1>4, <3>1
  <2>4. CASE m \in DOMAIN f.attempts
    <3>1. g.attempts[m] = f.attempts[m]
      BY <1>1, <1>5, <2>4
    <3>2. QED
      BY <2>4, <3>1 DEF FrameOK, AttemptsOK
  <2>5. QED
    BY <2>2, <2>3, <2>4
<1>7. FrameOK(c, g)
  BY <1>5, <1>6 DEF FrameOK, DepthOK
<1>8. QED
  BY <1>5, <1>7 DEF g

\* Every step of the search preserves the invariant.
LEMMA NextIInv == IInv /\ [Next]_vars => IInv'
<1>1. SUFFICES ASSUME IInv, [Next]_vars PROVE IInv'
  OBVIOUS
<1>2. /\ CallOK(call) /\ StackOK(call, stack) /\ RetOK(call, ret)
      /\ call \in Call /\ call.root \in Source /\ call.entry \in Entry
  BY <1>1 DEF IInv, CallOK, Call
<1>3. stack # <<>> => /\ FrameOK(call, Top) /\ Top \in Frame
                     /\ Top.depth = Len(stack) - 1 /\ Top = stack[Len(stack)]
  BY <1>2, TopOK DEF Top
<1>4. stack # <<>> /\ Top.pass # 0 => Top.pass > 0 /\ Top.depth <= MaxDepth
  BY <1>3 DEF Frame, FrameOK, DepthOK
\* A step that only replaces the innermost record, or only returns.
<1>5. ASSUME NEW g, stack # <<>>, FrameOK(call, g), g.depth = Top.depth
      PROVE  StackOK(call, SetTop(g))
  BY <1>2, <1>3, <1>5, ReplaceTop DEF SetTop
<1>6. \A x \in {"pending", "none", "err"} : RetOK(call, Bare(x))
  BY <1>2, BareOK
<1>7. RetOK(call, None) /\ RetOK(call, Err) /\ RetOK(call, Pending)
  BY <1>6 DEF None, Err, Pending
<1>8. ASSUME call' = call, StackOK(call, stack'), RetOK(call, ret')
      PROVE  IInv'
  BY <1>2, <1>8 DEF IInv
\* What is found is found under the locator of the record that found it.
<1>9. ASSUME stack # <<>>, Top.pass # 0, NEW spec \in Seq(Layer)
      PROVE  RetOK(call, Some(Top.src, spec, Top.spec))
  <2>1. Top.spec \in Seq(Layer) /\ Top.src \in Source
    BY <1>3, <1>9 DEF Frame
  <2>2. Len(Top.spec) <= MaxDepth /\ Replays(call, Top.spec, Top.src)
    BY <1>3, <1>4, <1>9 DEF FrameOK, DepthOK
  <2>3. QED
    BY <2>1, <2>2, <1>9 DEF RetOK, Outcome, Some
<1>10. CASE DepthCap
  BY <1>2, <1>7, <1>8, <1>10 DEF DepthCap
<1>11. CASE Sniff
  <2>1. stack # <<>> /\ Top.pass = 0 /\ Top.depth <= MaxDepth /\ call' = call
    BY <1>11 DEF Sniff, Running
  <2> DEFINE g == [Top EXCEPT !.pass = 1]
  <2>2. FrameOK(call, g) /\ g.depth = Top.depth
    <3>1. 1 \in Nat /\ 1 \in 0..Len(Passes[call.entry])
      <4> DEFINE n == Len(Passes[call.entry])
      <4>1. n \in 1..6
        BY <1>2, PassesType
      <4> HIDE DEF n
      <4>2. 1 \in 0..n
        BY <4>1
      <4>3. QED
        BY <4>2 DEF n
    <3>2. g \in Frame
      BY <1>3, <2>1, <3>1, PassCursor
    <3>3. Top.j = 0
      <4>1. Top.j \in Nat
        BY <1>3, <2>1 DEF Frame
      <4>2. ~(Top.j > 0)
        BY <1>3, <2>1 DEF FrameOK, Opened
      <4>3. QED
        BY <4>1, <4>2
    <3>4. /\ g.pass = 1 /\ g.src = Top.src /\ g.spec = Top.spec /\ g.depth = Top.depth
          /\ g.attempts = Top.attempts /\ g.j = 0
      BY <1>3, <2>1, <3>3 DEF Frame
    <3> HIDE DEF g
    <3>5. QED
      BY <1>3, <2>1, <3>1, <3>2, <3>4 DEF FrameOK, AttemptsOK, DepthOK
  <2> HIDE DEF g
  <2>3. StackOK(call, SetTop(g))
    BY <1>5, <2>1, <2>2
  <2>4. \/ stack' = SetTop(g) /\ ret' = ret
        \/ stack' = stack /\ ret' = Err
    BY <1>11 DEF Sniff, g
  <2>5. QED
    BY <1>2, <1>7, <1>8, <2>1, <2>3, <2>4
<1>12. CASE Decline
  <2> DEFINE g == [NextOpener(Top) EXCEPT !.attempts =
                     IF PassName(call, Top) = "sig" /\ CurrentAnswer.verdict = "Maybe"
                       THEN Recorded(Top) ELSE @]
  <2>1. /\ stack # <<>> /\ Top.pass # 0 /\ Top.i <= Len(Line(call, Top))
        /\ stack' = SetTop(g) /\ call' = call /\ ret' = ret
    BY <1>12 DEF Decline, AtOpener, InPass, Running
  <2>2. FrameOK(call, NextOpener(Top)) /\ NextOpener(Top).depth = Top.depth
    BY <1>3, <2>1, NextOpenerOK
  <2>3. FrameOK(call, g) /\ g.depth = Top.depth
    <3>1. CASE PassName(call, Top) = "sig" /\ CurrentAnswer.verdict = "Maybe"
      <4>1. g = [NextOpener(Top) EXCEPT !.attempts = Recorded(Top)]
        BY <3>1
      <4>2. QED
        BY <1>2, <1>3, <1>4, <2>1, <3>1, <4>1, RecordedOK DEF CurrentAnswer, Current
    <3>2. CASE ~(PassName(call, Top) = "sig" /\ CurrentAnswer.verdict = "Maybe")
      <4>1. g = [NextOpener(Top) EXCEPT !.attempts = @]
        BY <3>2
      <4>2. NextOpener(Top) \in Frame
        BY <2>2 DEF FrameOK
      <4>3. g = NextOpener(Top)
        BY <4>1, <4>2 DEF Frame
      <4>4. QED
        BY <2>2, <4>3
    <3>3. QED
      BY <3>1, <3>2
  <2> HIDE DEF g
  <2>4. QED
    BY <1>2, <1>5, <1>8, <2>1, <2>3
<1>13. CASE Mount
  <2>1. stack # <<>> /\ Top.pass # 0 /\ call' = call /\ stack' = stack
    BY <1>13 DEF Mount, AtOpener, InPass, Running
  <2>2. Top.i <= Len(Line(call, Top)) /\ Top.i \in Nat \ {0} /\ Top.spec \in Seq(Layer)
    BY <1>3, <1>13, <2>1 DEF Mount, AtOpener, Frame
  <2>3. Current \in Opener /\ Top.src \in Source
    BY <1>2, <1>3, <1>4, <2>1, <2>2, LineType DEF Current, Frame
  <2>4. LayerOf(call, Top.src, "fs", Current, 1) \in Layer
    BY <1>2, <2>3, LayerType DEF Pass
  <2>5. Append(Top.spec, LayerOf(call, Top.src, "fs", Current, 1)) \in Seq(Layer)
    BY <2>2, <2>4
  <2>6. RetOK(call, ret')
    <3>1. \/ ret' = Err
          \/ ret' = Some(Top.src, Top.spec, Top.spec)
          \/ ret' = Some(Top.src, Append(Top.spec, LayerOf(call, Top.src, "fs", Current, 1)),
                         Top.spec)
      BY <1>13 DEF Mount
    <3>2. QED
      BY <1>7, <1>9, <2>1, <2>2, <2>5, <3>1
  <2>7. QED
    BY <1>2, <1>8, <2>1, <2>6
<1>14. CASE OpenLayer
  <2> DEFINE g == [Top EXCEPT !.j = 1]
  <2>1. /\ stack # <<>> /\ Top.pass # 0 /\ Top.i <= Len(Line(call, Top)) /\ call' = call
        /\ Claimed /\ PassName(call, Top) \notin MountPass
    BY <1>14 DEF OpenLayer, AtOpener, InPass, Running
  <2>2. \/ stack' = SetTop(g) /\ ret' = ret /\ CurrentAnswer.ok
        \/ stack' = stack /\ ret' = Err
    BY <1>14 DEF OpenLayer
  <2>3. Engaged(call, Top.src, PassName(call, Top), Current)
    <3>1. CASE PassName(call, Top) = "try"
      <4>1. Line(call, Top) =
              [k \in DOMAIN Top.attempts |-> EncryptionLayers[Top.attempts[k]]]
        BY <3>1 DEF Line
      <4>2. Top.i \in Nat \ {0} /\ Line(call, Top) \in Seq(Opener)
        BY <1>2, <1>3, <1>4, <2>1, LineType DEF Frame
      <4>3. Top.i \in DOMAIN Top.attempts
        <5>1. Top.i \in DOMAIN Line(call, Top)
          BY <2>1, <4>2
        <5>2. QED
          BY <4>1, <5>1
      <4>4. Current = EncryptionLayers[Top.attempts[Top.i]]
        BY <4>1, <4>3 DEF Current
      <4>5. AnswerOf(call, Top.src, Current).verdict = "Maybe"
        BY <1>3, <2>1, <4>3, <4>4 DEF FrameOK, AttemptsOK
      <4>6. QED
        BY <3>1, <4>5 DEF Engaged
    <3>2. CASE PassName(call, Top) # "try"
      BY <2>1, <3>2 DEF Claimed
    <3>3. QED
      BY <3>1, <3>2
  <2>4. CASE stack' = SetTop(g) /\ ret' = ret /\ CurrentAnswer.ok
    <3>1. Opened(call, Top)
      BY <1>4, <2>1, <2>3, <2>4 DEF Opened, CurrentAnswer, Current
    <3>2. FrameOK(call, g) /\ g.depth = Top.depth
      BY <1>2, <1>3, <2>1, <3>1, AtChildOK
    <3> HIDE DEF g
    <3>3. QED
      BY <1>2, <1>5, <1>8, <2>1, <2>4, <3>2
  <2>5. QED
    BY <1>2, <1>7, <1>8, <2>1, <2>2, <2>4
<1>15. CASE Descend
  <2> DEFINE kid == CurrentAnswer.kids[Top.j]
             l == LayerOf(call, Top.src, PassName(call, Top), Current, Top.j)
             g == Enter(kid, Append(Top.spec, l), Top.depth + 1, 0)
  <2>1. /\ stack # <<>> /\ Top.pass # 0 /\ Top.j > 0 /\ call' = call /\ ret' = ret
        /\ Top.j <= Len(CurrentAnswer.kids) /\ kid # Broken
        /\ stack' = Append(stack, g)
    BY <1>15 DEF Descend, AtChild, InPass, Running
  <2>2. kid \in Source /\ l \in Layer /\ Reopens(call, Top.src, l, kid)
    BY <1>2, <1>3, <2>1, ChildReopens DEF CurrentAnswer, Current, Kids
  <2>3. /\ Top.spec \in Seq(Layer) /\ Top.src \in Source /\ Top.depth \in Nat
        /\ Len(Top.spec) = Top.depth /\ Top.depth <= MaxDepth
        /\ Replays(call, Top.spec, Top.src)
    BY <1>3, <1>4, <2>1 DEF FrameOK, DepthOK, Frame
  <2> HIDE DEF kid, l
  <2>4. Replays(call, Append(Top.spec, l), kid)
    BY <1>2, <2>2, <2>3, ReplaysAppend
  <2>5. /\ Append(Top.spec, l) \in Seq(Layer)
        /\ Top.depth + 1 = Len(Append(Top.spec, l))
    BY <2>2, <2>3
  <2>6. Top.depth + 1 <= MaxDepth + 1 /\ 0 \in 0..Len(Passes[call.entry])
    <3>1. Len(Passes[call.entry]) \in 1..6 /\ MaxDepth \in Nat
      BY <1>2, PassesType, OpenersWellFormed DEF OpenersAssumption
    <3>2. QED
      BY <2>3, <3>1
  <2>7. FrameOK(call, g)
    <3>1. ~(0 > 0) /\ call \in Call
      BY <1>2
    <3> HIDE DEF g
    <3>2. FrameOK(call, Enter(kid, Append(Top.spec, l), Top.depth + 1, 0))
      BY <2>2, <2>4, <2>5, <2>6, <3>1, EnterOK
    <3>3. QED
      BY <3>2 DEF g
  <2>8. g.depth = Top.depth + 1
    BY DEF Enter
  <2> HIDE DEF g
  <2>9. StackOK(call, Append(stack, g))
    BY <1>2, <1>3, <2>1, <2>7, <2>8, PushFrame
  <2>10. QED
    BY <1>2, <1>8, <2>1, <2>9
<1>16. CASE ChildFails
  <2>1. stack # <<>> /\ call' = call
    BY <1>16 DEF ChildFails, AtChild, InPass, Running
  <2>2. \/ stack' = SetTop(NextOpener(Top)) /\ ret' = ret
        \/ stack' = stack /\ ret' = Err
    BY <1>16 DEF ChildFails
  <2>3. StackOK(call, SetTop(NextOpener(Top)))
    BY <1>3, <1>5, <2>1, NextOpenerOK
  <2>4. QED
    BY <1>2, <1>7, <1>8, <2>1, <2>2, <2>3
<1>17. CASE LayerSpent
  <2>1. stack # <<>> /\ call' = call /\ stack' = SetTop(NextOpener(Top)) /\ ret' = ret
    BY <1>17 DEF LayerSpent, AtChild, InPass, Running
  <2>2. StackOK(call, SetTop(NextOpener(Top)))
    BY <1>3, <1>5, <2>1, NextOpenerOK
  <2>3. QED
    BY <1>2, <1>8, <2>1, <2>2
<1>18. CASE NextPass
  <2> DEFINE g == [Top EXCEPT !.pass = Top.pass + 1, !.i = 1, !.j = 0]
  <2>1. /\ stack # <<>> /\ call' = call /\ ret' = ret /\ Top.pass # 0
        /\ Top.pass < Len(Passes[call.entry])
        /\ stack' = SetTop(g)
    BY <1>18 DEF NextPass, InPass, Running
  <2>2. FrameOK(call, g) /\ g.depth = Top.depth
    BY <1>2, <1>3, <1>4, <2>1, NextPassOK
  <2> HIDE DEF g
  <2>3. QED
    BY <1>2, <1>5, <1>8, <2>1, <2>2
<1>19. CASE Exhausted
  <2>1. stack # <<>> /\ Top.pass # 0 /\ call' = call /\ stack' = stack
    BY <1>19 DEF Exhausted, InPass, Running
  <2>2. Top.spec \in Seq(Layer)
    BY <1>3, <2>1 DEF Frame
  <2>3. ret' = None \/ ret' = Some(Top.src, Top.spec, Top.spec)
    BY <1>19 DEF Exhausted
  <2>4. QED
    BY <1>2, <1>7, <1>8, <1>9, <2>1, <2>2, <2>3
<1>20. CASE Return
  <2> DEFINE below == SubSeq(stack, 1, Len(stack) - 1)
             n == Len(stack) - 1
  <2>1. stack # <<>> /\ call' = call
    BY <1>20 DEF Return
  <2>2. \/ n > 0 /\ stack' = [below EXCEPT ![n] = Resume(below[n])] /\ ret' = Pending
        \/ stack' = below /\ ret' = ret
    BY <1>20 DEF Return
  <2>3. /\ StackOK(call, below) /\ Len(below) = n /\ n \in Nat
        /\ \A k \in 1..n : below[k].j > 0
    BY <1>2, <2>1, PopFrame, TopOK
  <2> HIDE DEF below
  <2>4. CASE n > 0 /\ stack' = [below EXCEPT ![n] = Resume(below[n])] /\ ret' = Pending
    <3> DEFINE f == below[n]
    <3>1. below # <<>> /\ n \in 1..n
      BY <2>3, <2>4
    <3>2. FrameOK(call, f) /\ f.j > 0 /\ f \in Frame
      BY <2>3, <3>1, TopOK
    <3>3. Opened(call, f) /\ f.j + 1 \in Nat
      BY <3>2 DEF FrameOK, Frame
    <3> HIDE DEF f
    <3>4. FrameOK(call, [f EXCEPT !.j = f.j + 1]) /\ [f EXCEPT !.j = f.j + 1].depth = f.depth
      BY <1>2, <3>2, <3>3, AtChildOK
    <3>5. Resume(f) = [f EXCEPT !.j = f.j + 1]
      BY DEF Resume
    <3>6. StackOK(call, [below EXCEPT ![n] = Resume(f)])
      BY <2>3, <3>1, <3>4, <3>5, ReplaceTop DEF f
    <3>7. QED
      BY <1>7, <1>8, <2>1, <2>4, <3>6 DEF f
  <2>5. QED
    BY <1>2, <1>8, <2>1, <2>2, <2>3, <2>4
<1>21. CASE UNCHANGED vars
  BY <1>2, <1>8, <1>21 DEF vars
<1>22. QED
  BY <1>1, <1>10, <1>11, <1>12, <1>13, <1>14, <1>15, <1>16, <1>17, <1>18, <1>19,
     <1>20, <1>21 DEF Next, Step, Returned

-----------------------------------------------------------------------------
(***************************************************************************)
(* Theorems                                                                *)
(***************************************************************************)

\* The inductive invariant holds in every state of every call.
THEOREM Invariance == Spec => []IInv
BY InitIInv, NextIInv, PTL DEF Spec

\* The variables of the resolver keep their types (open_with_credentials,
\* resolve_to_source, open_tree).
THEOREM TypeCorrect == Spec => []TypeOK
<1>1. IInv => TypeOK
  <2>1. SUFFICES ASSUME IInv PROVE TypeOK
    OBVIOUS
  <2>2. call \in Call /\ stack \in Seq(Frame) /\ ret \in Outcome
    BY <2>1 DEF IInv, CallOK, StackOK, RetOK
  <2>3. ASSUME NEW k \in DOMAIN stack
        PROVE  /\ stack[k].pass \in 0..Len(Passes[call.entry])
               /\ Elements(stack[k].attempts) \subseteq DOMAIN EncryptionLayers
    <3>1. FrameOK(call, stack[k])
      BY <2>1, <2>2 DEF IInv, StackOK
    <3>2. QED
      BY <3>1 DEF FrameOK, AttemptsOK, Elements
  <2>4. QED
    BY <2>2, <2>3 DEF TypeOK
<1>2. QED
  BY <1>1, Invariance, PTL

\* The bomb guard: for every evidence, self-containing ones included, the
\* recursion of the resolver stays within the depth cap and pushes one locator
\* layer per level.
THEOREM BombGuard == Spec => []DepthBounded
<1>1. IInv => DepthBounded
  BY DEF IInv, StackOK, RetOK, FrameOK, DepthOK, DepthBounded
<1>2. QED
  BY <1>1, Invariance, PTL

\* Every locator the resolver builds or returns replays to the source it
\* stands for.
THEOREM LocatorsReplay == Spec => []RouteFaithful
<1>1. IInv => RouteFaithful
  BY DEF IInv, StackOK, RetOK, FrameOK, RouteFaithful
<1>2. QED
  BY <1>1, Invariance, PTL

-----------------------------------------------------------------------------
(***************************************************************************)
(* The search is exhaustive: whatever it goes past leads nowhere, and an   *)
(* answer of Ok(None) means there was nothing to find and nothing to       *)
(* report within the depth cap.  Its invariant, on top of IInv:            *)
(***************************************************************************)

PastSig(c, f) == \E q \in 1..(f.pass - 1) : Passes[c.entry][q] = "sig"

InSig(c, f) == f.pass > 0 /\ PassName(c, f) = "sig"

\* Every Maybe scheme the signature pass has looked at is recorded.
AttemptsComplete(c, f) ==
  \A k \in DOMAIN EncryptionLayers :
    /\ AnswerOf(c, f.src, EncryptionLayers[k]).verdict = "Maybe"
    /\ PastSig(c, f) \/ (InSig(c, f) /\ k < f.i)
    => \E m \in DOMAIN f.attempts : f.attempts[m] = k

KidsOf(c, f) == Kids(c, f.src, Line(c, f)[f.i])

PassesSpent(c, f) ==
  \A p \in 1..(f.pass - 1) :
    \A o \in Elements(Registered[Passes[c.entry][p]]) :
      Spent(c, f.src, f.depth, Passes[c.entry][p], o)

OpenersSpent(c, f) ==
  f.pass > 0 => \A m \in 1..(f.i - 1) : Spent(c, f.src, f.depth, PassName(c, f), Line(c, f)[m])

KidsSpent(c, f) ==
  f.pass > 0 => \A m \in 1..(f.j - 1) : KidSpent(c, f.depth, PassName(c, f), KidsOf(c, f)[m])

CursorOK(c, f) ==
  /\ f.pass = 0 => f.i = 1
  /\ f.pass > 0 => /\ c.entry # "tree" => c.evidence[f.src].readable
                   /\ f.i <= Len(Line(c, f)) + 1
  /\ f.j > 0 => f.j <= Len(KidsOf(c, f)) + 1

Passed(c, f) ==
  /\ PassesSpent(c, f)
  /\ OpenersSpent(c, f)
  /\ KidsSpent(c, f)
  /\ CursorOK(c, f)
  /\ AttemptsComplete(c, f)

\* The record is at a child, and that child is source s.
At(c, f, s) == f.j \in DOMAIN KidsOf(c, f) /\ s = KidsOf(c, f)[f.j]

\* Each record works on the child its caller is at.
Linked(c, st) ==
  /\ st # <<>> => st[1].src = c.root
  /\ \A k \in 1..(Len(st) - 1) : At(c, st[k], st[k + 1].src)

SearchOK(c, st) == (\A k \in 1..Len(st) : Passed(c, st[k])) /\ Linked(c, st)

NoneOK(c, st, r) ==
  r.res = "none" => /\ st = <<>> => Barren(c, c.root, 0)
                    /\ st # <<>> => Barren(c, st[Len(st)].src, st[Len(st)].depth)

SInv == IInv /\ SearchOK(call, stack) /\ NoneOK(call, stack, ret)

-----------------------------------------------------------------------------
(***************************************************************************)
(* Sources that lead nowhere                                               *)
(***************************************************************************)

\* Past the depth cap there is nothing.
LEMMA BarrenAtCap ==
  ASSUME NEW c, NEW s, NEW d \in Nat, d > MaxDepth
  PROVE  Barren(c, s, d)
<1>1. MaxDepth \in Nat
  BY OpenersWellFormed DEF OpenersAssumption
<1>2. 1..(MaxDepth + 1 - d) = {}
  BY <1>1
<1>3. QED
  BY <1>2 DEF Barren

\* A source that is no end, and whose children lead nowhere, leads nowhere.
LEMMA BarrenStep ==
  ASSUME NEW c, NEW s \in Source, NEW d \in Nat, ~Ends(c, s),
         \A t \in Source : Leads(c, s, t) => Barren(c, t, d + 1)
  PROVE  Barren(c, s, d)
<1>1. MaxDepth \in Nat
  BY OpenersWellFormed DEF OpenersAssumption
<1>2. SUFFICES ASSUME NEW n \in 1..(MaxDepth + 1 - d), NEW path \in [1..n -> Source],
                      path[1] = s,
                      \A k \in 1..(n - 1) : Leads(c, path[k], path[k + 1]),
                      Ends(c, path[n])
               PROVE  FALSE
  BY DEF Barren
<1>3. n # 1
  BY <1>2
<1>4. n - 1 \in 1..(MaxDepth + 1 - (d + 1)) /\ 1 \in 1..(n - 1) /\ 2 \in 1..n
  BY <1>1, <1>3
<1>5. Leads(c, s, path[2]) /\ path[2] \in Source
  BY <1>2, <1>4
<1>6. Barren(c, path[2], d + 1)
  BY <1>5
<1> DEFINE q == [k \in 1..(n - 1) |-> path[k + 1]]
<1>7. q \in [1..(n - 1) -> Source] /\ q[1] = path[2] /\ q[n - 1] = path[n]
  BY <1>4
<1>8. \A k \in 1..(n - 1 - 1) : Leads(c, q[k], q[k + 1])
  <2>1. SUFFICES ASSUME NEW k \in 1..(n - 1 - 1) PROVE Leads(c, q[k], q[k + 1])
    OBVIOUS
  <2>2. q[k] = path[k + 1] /\ q[k + 1] = path[k + 1 + 1] /\ k + 1 \in 1..(n - 1)
    BY <1>4
  <2>3. QED
    BY <1>2, <2>2
<1> HIDE DEF q
<1>9. QED
  BY <1>2, <1>4, <1>6, <1>7, <1>8 DEF Barren

\* The credential attempts come after the signature pass.
LEMMA TryPastSig ==
  ASSUME NEW c \in Call, NEW f, f.pass \in 1..Len(Passes[c.entry]), PassName(c, f) = "try"
  PROVE  PastSig(c, f)
<1>1. c.entry = "open"
  <2>1. c.entry \in Entry
    BY DEF Call
  <2>2. c.entry # "source"
    <3>1. Passes["source"] = <<"cont", "arch">>
      BY DEF Passes
    <3>2. QED
      BY <3>1 DEF PassName
  <2>3. c.entry # "tree"
    <3>1. Passes["tree"] = <<"tree">>
      BY DEF Passes
    <3>2. QED
      BY <3>1 DEF PassName
  <2>4. QED
    BY <2>1, <2>2, <2>3 DEF Entry
<1>2. Passes[c.entry] = <<"fs", "vs", "sig", "cont", "arch", "try">>
  BY <1>1 DEF Passes
<1>3. f.pass = 6
  BY <1>2 DEF PassName
<1>4. 3 \in 1..(f.pass - 1) /\ Passes[c.entry][3] = "sig"
  BY <1>2, <1>3
<1>5. QED
  BY <1>4 DEF PastSig

\* A pass whose cursor has run off its line has spent every registered opener.
LEMMA PassDone ==
  ASSUME NEW c \in Call, NEW f, FrameOK(c, f), Passed(c, f), f.pass > 0,
         f.i > Len(Line(c, f))
  PROVE  \A o \in Elements(Registered[PassName(c, f)]) :
           Spent(c, f.src, f.depth, PassName(c, f), o)
<1>1. /\ f \in Frame /\ f.i \in Nat /\ f.pass \in 1..Len(Passes[c.entry])
      /\ f.attempts \in Seq(Nat)
  BY DEF FrameOK, Frame
<1>2. Line(c, f) \in Seq(Opener) /\ PassName(c, f) \in Pass
  BY LineType
<1>3. \A m \in 1..Len(Line(c, f)) : Spent(c, f.src, f.depth, PassName(c, f), Line(c, f)[m])
  <2>1. \A m \in 1..Len(Line(c, f)) : m \in 1..(f.i - 1)
    BY <1>1, <1>2
  <2>2. QED
    BY <2>1 DEF Passed, OpenersSpent
<1>4. SUFFICES ASSUME NEW o \in Elements(Registered[PassName(c, f)])
               PROVE  Spent(c, f.src, f.depth, PassName(c, f), o)
  OBVIOUS
<1>5. CASE PassName(c, f) # "try"
  <2>1. Line(c, f) = Registered[PassName(c, f)]
    BY <1>5 DEF Line
  <2>2. PICK m \in 1..Len(Line(c, f)) : Line(c, f)[m] = o
    BY <1>2, <2>1 DEF Elements
  <2>3. QED
    BY <1>3, <2>2
<1>6. CASE PassName(c, f) = "try"
  <2>1. Registered[PassName(c, f)] = EncryptionLayers
    BY <1>6 DEF Registered
  <2>2. PICK k \in DOMAIN EncryptionLayers : EncryptionLayers[k] = o
    BY <2>1 DEF Elements
  <2>3. SUFFICES ASSUME Engaged(c, f.src, "try", o)
                 PROVE  Spent(c, f.src, f.depth, PassName(c, f), o)
    BY <1>6 DEF Spent
  <2>4. AnswerOf(c, f.src, EncryptionLayers[k]).verdict = "Maybe"
    BY <2>2, <2>3 DEF Engaged
  <2>5. PastSig(c, f)
    BY <1>1, <1>6, TryPastSig
  <2>6. PICK m \in DOMAIN f.attempts : f.attempts[m] = k
    BY <2>4, <2>5 DEF Passed, AttemptsComplete
  <2>7. Line(c, f) = [x \in DOMAIN f.attempts |-> EncryptionLayers[f.attempts[x]]]
    BY <1>6 DEF Line
  <2>8. Line(c, f)[m] = o
    BY <2>2, <2>6, <2>7
  <2>9. m \in 1..Len(Line(c, f))
    <3>1. m \in DOMAIN Line(c, f)
      BY <2>7
    <3>2. QED
      BY <1>2, <3>1
  <2>10. QED
    BY <1>3, <2>8, <2>9
<1>7. QED
  BY <1>5, <1>6

\* A record of the disk descent that has been through everything is at a
\* source that leads nowhere.
LEMMA ExhaustedIsBarren ==
  ASSUME NEW c, CallOK(c), NEW f, FrameOK(c, f), Passed(c, f), c.entry # "source",
         f.pass = Len(Passes[c.entry]), f.i > Len(Line(c, f))
  PROVE  Barren(c, f.src, f.depth)
<1>1. c \in Call /\ f.src \in Source /\ f.depth \in Nat /\ c.entry \in Entry
  BY DEF CallOK, Call, FrameOK, Frame
<1>2. Passes[c.entry] \in Seq(Pass) /\ Len(Passes[c.entry]) \in 1..6 /\ f.pass > 0
  <2>1. Passes[c.entry] \in Seq(Pass) /\ Len(Passes[c.entry]) \in 1..6
    BY <1>1, PassesType
  <2> DEFINE n == Len(Passes[c.entry])
  <2>2. n \in 1..6 /\ f.pass = n
    BY <1>1, PassesType
  <2> HIDE DEF n
  <2>3. f.pass > 0
    BY <2>2
  <2>4. QED
    BY <2>1, <2>3
<1>3. ASSUME NEW pass \in PassesOf(c), NEW o \in Elements(Registered[pass])
      PROVE  Spent(c, f.src, f.depth, pass, o)
  <2>1. PICK p \in 1..Len(Passes[c.entry]) : pass = Passes[c.entry][p]
    BY <1>2 DEF PassesOf, Elements
  <2>2. CASE p = f.pass
    BY <1>1, <1>2, <1>3, <2>1, <2>2, PassDone DEF PassName
  <2>3. CASE p # f.pass
    <3>1. p \in 1..(f.pass - 1)
      BY <1>2, <2>3
    <3>2. QED
      BY <1>3, <2>1, <3>1 DEF Passed, PassesSpent
  <2>4. QED
    BY <2>2, <2>3
<1>4. \A pass \in PassesOf(c) : Registered[pass] \in Seq(Opener)
  BY <1>2, RegisteredType DEF PassesOf, Elements
<1>5. ~Ends(c, f.src)
  <2>1. c.entry = "tree" \/ c.evidence[f.src].readable
    BY <1>2 DEF Passed, CursorOK
  <2>2. ASSUME NEW pass \in PassesOf(c), NEW o \in Elements(Registered[pass]),
               Engaged(c, f.src, pass, o)
        PROVE  /\ pass \notin MountPass
               /\ AnswerOf(c, f.src, o).ok
               /\ pass = "try" \/ Broken \notin Elements(Kids(c, f.src, o))
    BY <1>3, <2>2 DEF Spent, KidSpent
  <2>3. QED
    BY <2>1, <2>2 DEF Ends
<1>6. ASSUME NEW t \in Source, Leads(c, f.src, t)
      PROVE  Barren(c, t, f.depth + 1)
  <2>1. PICK pass \in PassesOf(c) : \E o \in Elements(Registered[pass]) :
          \E j \in DOMAIN Kids(c, f.src, o) : Yields(c, f.src, pass, o, j, t)
    BY <1>6 DEF Leads
  <2>2. PICK o \in Elements(Registered[pass]) :
          \E j \in DOMAIN Kids(c, f.src, o) : Yields(c, f.src, pass, o, j, t)
    BY <2>1
  <2>3. PICK j \in DOMAIN Kids(c, f.src, o) : Yields(c, f.src, pass, o, j, t)
    BY <2>2
  <2>4. Engaged(c, f.src, pass, o) /\ Kids(c, f.src, o)[j] = t
    BY <2>3 DEF Yields
  <2>5. t \in Elements(Kids(c, f.src, o))
    BY <2>4 DEF Elements
  <2>6. KidSpent(c, f.depth, pass, t)
    BY <1>3, <2>4, <2>5 DEF Spent
  <2>7. t # Broken
    BY OpenersWellFormed DEF OpenersAssumption
  <2>8. QED
    BY <2>6, <2>7 DEF KidSpent
<1>7. QED
  BY <1>1, <1>5, <1>6, BarrenStep

-----------------------------------------------------------------------------
(***************************************************************************)
(* The stack                                                               *)
(***************************************************************************)

\* Moving the cursor of the innermost record past what is spent.
LEMMA SearchReplaceTop ==
  ASSUME NEW c, NEW st, StackOK(c, st), SearchOK(c, st), st # <<>>,
         NEW g, g \in Frame, Passed(c, g), g.src = st[Len(st)].src
  PROVE  SearchOK(c, [st EXCEPT ![Len(st)] = g])
<1> DEFINE r == [st EXCEPT ![Len(st)] = g]
<1>1. st \in Seq(Frame) /\ Len(st) \in Nat \ {0}
  BY TopOK DEF StackOK
<1>2. r \in Seq(Frame) /\ Len(r) = Len(st)
  BY <1>1
<1>3. r[Len(st)] = g /\ \A k \in 1..(Len(st) - 1) : r[k] = st[k]
  BY <1>1
<1> HIDE DEF r
<1>4. \A k \in 1..Len(r) : r[k].src = st[k].src
  BY <1>1, <1>2, <1>3
<1>5. \A k \in 1..Len(r) : Passed(c, r[k])
  <2>1. SUFFICES ASSUME NEW k \in 1..Len(r) PROVE Passed(c, r[k])
    OBVIOUS
  <2>2. k = Len(st) \/ k \in 1..(Len(st) - 1)
    BY <1>1, <1>2
  <2>3. QED
    BY <1>1, <1>3, <2>2 DEF SearchOK
<1>6. Linked(c, r)
  <2>1. r # <<>> /\ 1 \in 1..Len(r)
    BY <1>1, <1>2
  <2>2. r[1].src = c.root
    BY <1>4, <2>1 DEF SearchOK, Linked
  <2>3. ASSUME NEW k \in 1..(Len(r) - 1)
        PROVE  At(c, r[k], r[k + 1].src)
    <3>1. k + 1 \in 1..Len(r) /\ k \in 1..(Len(st) - 1)
      BY <1>1, <1>2
    <3>2. QED
      BY <1>3, <1>4, <3>1 DEF SearchOK, Linked
  <2>4. QED
    BY <2>2, <2>3 DEF Linked
<1>7. QED
  BY <1>5, <1>6 DEF SearchOK, r

\* A new record has passed nothing yet.
LEMMA EnterPassed ==
  ASSUME NEW c, NEW s, NEW spec, NEW d
  PROVE  Passed(c, Enter(s, spec, d, 0))
<1> DEFINE g == Enter(s, spec, d, 0)
<1>1. g.pass = 0 /\ g.i = 1 /\ g.j = 0
  BY DEF Enter
<1> HIDE DEF g
<1>2. 1..(g.pass - 1) = {} /\ 1..(g.i - 1) = {} /\ ~(g.pass > 0) /\ ~(g.j > 0)
  BY <1>1
<1>3. ~PastSig(c, g) /\ ~InSig(c, g)
  BY <1>2 DEF PastSig, InSig
<1>4. AttemptsComplete(c, g)
  BY <1>3 DEF AttemptsComplete
<1>5. CursorOK(c, g)
  BY <1>1, <1>2 DEF CursorOK
<1>6. PassesSpent(c, g) /\ OpenersSpent(c, g) /\ KidsSpent(c, g)
  BY <1>2 DEF PassesSpent, OpenersSpent, KidsSpent
<1>7. Passed(c, g)
  BY <1>4, <1>5, <1>6 DEF Passed
<1>8. QED
  BY <1>7 DEF g

\* The opener the cursor of a record is at.
LEMMA CursorOpener ==
  ASSUME NEW c \in Call, NEW f, FrameOK(c, f), f.pass # 0, f.i <= Len(Line(c, f))
  PROVE  /\ Line(c, f)[f.i] \in Opener /\ f.src \in Source /\ f.j \in Nat
         /\ Line(c, f)[f.i] \in Elements(Registered[PassName(c, f)])
<1>1. f.src \in Source /\ f.j \in Nat /\ f.i \in Nat \ {0} /\ f.pass \in Nat
  BY DEF FrameOK, Frame
<1>2. f.pass > 0
  BY <1>1
<1>3. Line(c, f) \in Seq(Opener)
  BY <1>2, LineType
<1>4. f.i \in 1..Len(Line(c, f))
  BY <1>1, <1>3
<1>5. QED
  BY <1>1, <1>2, <1>4, LineType

\* Descending into the child the innermost record is at.
LEMMA SearchPush ==
  ASSUME NEW c, NEW st, StackOK(c, st), SearchOK(c, st), st # <<>>,
         NEW g, g \in Frame, Passed(c, g),
         At(c, st[Len(st)], g.src)
  PROVE  SearchOK(c, Append(st, g))
<1> DEFINE r == Append(st, g)
<1>1. st \in Seq(Frame) /\ Len(st) \in Nat \ {0}
  BY TopOK DEF StackOK
<1>2. r \in Seq(Frame) /\ Len(r) = Len(st) + 1
  BY <1>1
<1>3. r[Len(st) + 1] = g /\ \A k \in 1..Len(st) : r[k] = st[k]
  BY <1>1
<1> HIDE DEF r
<1>4. \A k \in 1..Len(r) : Passed(c, r[k])
  <2>1. SUFFICES ASSUME NEW k \in 1..Len(r) PROVE Passed(c, r[k])
    OBVIOUS
  <2>2. k = Len(st) + 1 \/ k \in 1..Len(st)
    BY <1>1, <1>2
  <2>3. QED
    BY <1>1, <1>3, <2>2 DEF SearchOK
<1>5. Linked(c, r)
  <2>1. 1 \in 1..Len(st)
    BY <1>1
  <2>2. r[1].src = c.root
    BY <1>3, <2>1 DEF SearchOK, Linked
  <2>3. ASSUME NEW k \in 1..(Len(r) - 1)
        PROVE  At(c, r[k], r[k + 1].src)
    <3>1. CASE k = Len(st)
      BY <1>1, <1>3, <3>1
    <3>2. CASE k \in 1..(Len(st) - 1)
      <4>1. k + 1 \in 1..Len(st) /\ k \in 1..Len(st)
        BY <1>1, <3>2
      <4>2. QED
        BY <1>3, <3>2, <4>1 DEF SearchOK, Linked
    <3>3. QED
      BY <1>1, <1>2, <3>1, <3>2
  <2>4. QED
    BY <2>2, <2>3 DEF Linked
<1>6. QED
  BY <1>4, <1>5 DEF SearchOK, r

\* Returning to the caller; the child it was at is the record that returned.
LEMMA SearchPop ==
  ASSUME NEW c, NEW st, StackOK(c, st), SearchOK(c, st), st # <<>>
  PROVE  LET r == SubSeq(st, 1, Len(st) - 1)
             n == Len(st) - 1
         IN  /\ SearchOK(c, r)
             /\ n > 0 => At(c, r[n], st[Len(st)].src)
             /\ n = 0 => st[Len(st)].src = c.root /\ r = <<>>
<1> DEFINE r == SubSeq(st, 1, Len(st) - 1)
           n == Len(st) - 1
<1>1. st \in Seq(Frame) /\ Len(st) \in Nat \ {0}
  BY TopOK DEF StackOK
<1>2. /\ StackOK(c, r) /\ Len(r) = n
      /\ \A k \in 1..Len(r) : r[k] = st[k]
  BY PopFrame
<1>3. r \in Seq(Frame)
  BY <1>2 DEF StackOK
<1> HIDE DEF r
<1>4. \A k \in 1..Len(r) : Passed(c, r[k])
  <2>1. \A k \in 1..Len(r) : k \in 1..Len(st)
    BY <1>1, <1>2
  <2>2. QED
    BY <1>2, <2>1 DEF SearchOK
<1>5. Linked(c, r)
  <2>1. ASSUME r # <<>> PROVE r[1].src = c.root
    <3>1. 1 \in 1..Len(r)
      BY <1>3, <2>1
    <3>2. r[1] = st[1]
      BY <1>2, <3>1
    <3>3. QED
      BY <3>2 DEF SearchOK, Linked
  <2>2. ASSUME NEW k \in 1..(Len(r) - 1)
        PROVE  At(c, r[k], r[k + 1].src)
    <3>1. k \in 1..Len(r) /\ k + 1 \in 1..Len(r) /\ k \in 1..(Len(st) - 1)
      BY <1>1, <1>2
    <3>2. QED
      BY <1>2, <3>1 DEF SearchOK, Linked
  <2>3. QED
    BY <2>1, <2>2 DEF Linked
<1>6. ASSUME n > 0 PROVE At(c, r[n], st[Len(st)].src)
  <2>1. n \in 1..(Len(st) - 1) /\ n + 1 = Len(st) /\ n \in 1..Len(r)
    BY <1>1, <1>2, <1>6
  <2>2. At(c, st[n], st[n + 1].src)
    BY <2>1 DEF SearchOK, Linked
  <2>3. QED
    BY <1>2, <2>1, <2>2
<1>7. ASSUME n = 0 PROVE st[Len(st)].src = c.root /\ r = <<>>
  <2>1. Len(st) = 1
    BY <1>1, <1>7
  <2>2. r = <<>>
    <3>1. Len(r) = 0
      BY <1>2, <1>7
    <3>2. QED
      BY <1>3, <3>1, EmptySeq
  <2>3. QED
    BY <2>1, <2>2 DEF SearchOK, Linked
<1>8. QED
  BY <1>4, <1>5, <1>6, <1>7 DEF SearchOK, r

-----------------------------------------------------------------------------
(***************************************************************************)
(* The steps                                                               *)
(***************************************************************************)

LEMMA InitSInv == Init => SInv
<1>1. SUFFICES ASSUME Init PROVE SInv
  OBVIOUS
<1> DEFINE p == IF call.entry = "tree" THEN 1 ELSE 0
           g == Enter(call.root, <<>>, 0, p)
<1>2. IInv
  BY <1>1, InitIInv
<1>3. stack = <<g>> /\ ret = Pending
  BY <1>1 DEF Init
<1>4. ret.res # "none"
  BY <1>3 DEF Pending, Bare
<1>5. g.pass = p /\ g.i = 1 /\ g.j = 0 /\ g.src = call.root /\ p \in {0, 1}
  BY DEF Enter
<1>6. p = 1 => call.entry = "tree"
  OBVIOUS
<1> HIDE DEF p, g
<1>7. stack[1] = g /\ Len(stack) = 1
  BY <1>3
<1>8. call \in Call /\ FrameOK(call, g)
  BY <1>2, <1>7 DEF IInv, CallOK, StackOK
<1>9. Passed(call, g)
  <2>1. 1..(g.pass - 1) = {} /\ 1..(g.i - 1) = {} /\ ~(g.j > 0) /\ 1..(g.j - 1) = {}
    BY <1>5
  <2>2. g.pass > 0 => Line(call, g) \in Seq(Opener)
    BY <1>8, LineType
  <2>3. CursorOK(call, g)
    BY <1>5, <1>6, <2>1, <2>2 DEF CursorOK
  <2>4. AttemptsComplete(call, g)
    <3>1. ~PastSig(call, g)
      BY <2>1 DEF PastSig
    <3>2. ~InSig(call, g)
      <4>1. Passes["tree"][1] = "tree"
        BY DEF Passes
      <4>2. QED
        BY <1>5, <1>6, <4>1 DEF InSig, PassName
    <3>3. QED
      BY <3>1, <3>2 DEF AttemptsComplete
  <2>5. QED
    BY <2>1, <2>3, <2>4 DEF Passed, PassesSpent, OpenersSpent, KidsSpent
<1>10. Linked(call, stack)
  <2>1. 1..(Len(stack) - 1) = {}
    BY <1>7
  <2>2. QED
    BY <1>5, <1>7, <2>1 DEF Linked
<1>11. SearchOK(call, stack)
  BY <1>7, <1>9, <1>10 DEF SearchOK
<1>12. QED
  BY <1>2, <1>4, <1>11 DEF SInv, NoneOK

\* The opener at the cursor is spent: the cursor may go on to the next one.
LEMMA PassedNextOpener ==
  ASSUME NEW c \in Call, NEW f, FrameOK(c, f), Passed(c, f), f.pass > 0,
         f.i <= Len(Line(c, f)),
         Spent(c, f.src, f.depth, PassName(c, f), Line(c, f)[f.i]),
         InSig(c, f) => AnswerOf(c, f.src, Line(c, f)[f.i]).verdict # "Maybe"
  PROVE  Passed(c, NextOpener(f))
<1> DEFINE g == NextOpener(f)
<1>1. f \in Frame /\ f.i \in Nat \ {0} /\ f.pass \in Nat
  BY DEF FrameOK, Frame
<1>2. /\ g.pass = f.pass /\ g.i = f.i + 1 /\ g.j = 0 /\ g.src = f.src
      /\ g.depth = f.depth /\ g.attempts = f.attempts
  BY <1>1 DEF NextOpener, Frame
<1> HIDE DEF g
<1>3. PassName(c, g) = PassName(c, f) /\ Line(c, g) = Line(c, f)
  BY <1>2 DEF PassName, Line
<1>4. Line(c, f) \in Seq(Opener)
  BY LineType
<1>5. PassesSpent(c, g)
  BY <1>2 DEF Passed, PassesSpent
<1>6. OpenersSpent(c, g)
  <2>1. \A m \in 1..(g.i - 1) : m = f.i \/ m \in 1..(f.i - 1)
    BY <1>1, <1>2
  <2>2. QED
    BY <1>2, <1>3, <2>1 DEF Passed, OpenersSpent
<1>7. KidsSpent(c, g)
  <2>1. 1..(g.j - 1) = {}
    BY <1>2
  <2>2. QED
    BY <2>1 DEF KidsSpent
<1>8. CursorOK(c, g)
  <2>1. g.i <= Len(Line(c, g)) + 1 /\ ~(g.j > 0)
    BY <1>1, <1>2, <1>3, <1>4
  <2>2. QED
    BY <1>2, <2>1 DEF Passed, CursorOK
<1>9. AttemptsComplete(c, g)
  <2>1. PastSig(c, g) <=> PastSig(c, f)
    BY <1>2 DEF PastSig
  <2>2. InSig(c, g) <=> InSig(c, f)
    BY <1>2, <1>3 DEF InSig
  <2>3. SUFFICES ASSUME NEW k \in DOMAIN EncryptionLayers,
                        AnswerOf(c, f.src, EncryptionLayers[k]).verdict = "Maybe",
                        PastSig(c, f) \/ (InSig(c, f) /\ k < g.i)
                 PROVE  \E m \in DOMAIN f.attempts : f.attempts[m] = k
    BY <1>2, <2>1, <2>2 DEF AttemptsComplete
  <2>4. CASE InSig(c, f) /\ k < g.i
    <3>1. Line(c, f) = EncryptionLayers
      BY <2>4 DEF InSig, Line, Registered
    <3>2. k # f.i
      BY <2>3, <2>4, <3>1
    <3>3. k \in Nat
      BY <1>4, <3>1
    <3>4. k < f.i
      BY <1>1, <1>2, <2>4, <3>2, <3>3
    <3>5. QED
      BY <2>3, <2>4, <3>4 DEF Passed, AttemptsComplete
  <2>5. QED
    BY <2>3, <2>4 DEF Passed, AttemptsComplete
<1>10. QED
  BY <1>5, <1>6, <1>7, <1>8, <1>9 DEF Passed, g

\* The signature pass records the Maybe scheme at the cursor and goes on.
LEMMA PassedRecorded ==
  ASSUME NEW c \in Call, NEW f, FrameOK(c, f), Passed(c, f), InSig(c, f),
         f.i <= Len(Line(c, f)),
         AnswerOf(c, f.src, Line(c, f)[f.i]).verdict = "Maybe"
  PROVE  LET g == [NextOpener(f) EXCEPT !.attempts = Recorded(f)]
         IN  Passed(c, g) /\ g.src = f.src
<1> DEFINE g == [NextOpener(f) EXCEPT !.attempts = Recorded(f)]
<1>1. f \in Frame /\ f.i \in Nat \ {0} /\ f.pass \in Nat /\ f.attempts \in Seq(Nat)
  BY DEF FrameOK, Frame
<1>2. f.pass > 0 /\ PassName(c, f) = "sig"
  BY DEF InSig
<1>3. /\ g.pass = f.pass /\ g.i = f.i + 1 /\ g.j = 0 /\ g.src = f.src
      /\ g.depth = f.depth /\ g.attempts = Append(f.attempts, f.i)
  <2>1. NextOpener(f) \in Frame
    BY NextOpenerOK DEF FrameOK
  <2>2. /\ NextOpener(f).pass = f.pass /\ NextOpener(f).i = f.i + 1
        /\ NextOpener(f).j = 0 /\ NextOpener(f).src = f.src
        /\ NextOpener(f).depth = f.depth
    BY <1>1 DEF NextOpener, Frame
  <2>3. /\ g.pass = NextOpener(f).pass /\ g.i = NextOpener(f).i
        /\ g.j = NextOpener(f).j /\ g.src = NextOpener(f).src
        /\ g.depth = NextOpener(f).depth /\ g.attempts = Recorded(f)
    BY <2>1 DEF Frame
  <2>4. QED
    BY <2>2, <2>3 DEF Recorded
<1> HIDE DEF g
<1>4. PassName(c, g) = "sig" /\ Line(c, g) = EncryptionLayers /\ Line(c, f) = EncryptionLayers
  BY <1>2, <1>3 DEF PassName, Line, Registered
<1>5. EncryptionLayers \in Seq(Opener)
  BY <1>2, <1>4, LineType
<1>6. PassesSpent(c, g)
  BY <1>3 DEF Passed, PassesSpent
<1>7. OpenersSpent(c, g)
  <2>1. Spent(c, f.src, f.depth, "sig", EncryptionLayers[f.i])
    BY <1>4 DEF Spent, Engaged
  <2>2. \A m \in 1..(g.i - 1) : m = f.i \/ m \in 1..(f.i - 1)
    BY <1>1, <1>3
  <2>3. \A m \in 1..(f.i - 1) : Spent(c, f.src, f.depth, "sig", EncryptionLayers[m])
    BY <1>2, <1>4 DEF Passed, OpenersSpent
  <2>4. QED
    BY <1>3, <1>4, <2>1, <2>2, <2>3 DEF OpenersSpent
<1>8. KidsSpent(c, g)
  <2>1. 1..(g.j - 1) = {}
    BY <1>3
  <2>2. QED
    BY <2>1 DEF KidsSpent
<1>9. CursorOK(c, g)
  <2>1. g.i <= Len(Line(c, g)) + 1 /\ ~(g.j > 0)
    BY <1>1, <1>3, <1>4, <1>5
  <2>2. QED
    BY <1>2, <1>3, <2>1 DEF Passed, CursorOK
<1>10. AttemptsComplete(c, g)
  <2>1. PastSig(c, g) <=> PastSig(c, f)
    BY <1>3 DEF PastSig
  <2>2. SUFFICES ASSUME NEW k \in DOMAIN EncryptionLayers,
                        AnswerOf(c, f.src, EncryptionLayers[k]).verdict = "Maybe",
                        PastSig(c, f) \/ k < g.i
                 PROVE  \E m \in DOMAIN g.attempts : g.attempts[m] = k
    BY <1>3, <2>1 DEF AttemptsComplete
  <2>3. \A m \in DOMAIN f.attempts : m \in DOMAIN g.attempts /\ g.attempts[m] = f.attempts[m]
    BY <1>1, <1>3
  <2>4. CASE k = f.i
    <3>1. Len(f.attempts) + 1 \in DOMAIN g.attempts /\ g.attempts[Len(f.attempts) + 1] = f.i
      BY <1>1, <1>3
    <3>2. QED
      BY <2>4, <3>1
  <2>5. CASE PastSig(c, f) \/ k < f.i
    <3>1. PICK m \in DOMAIN f.attempts : f.attempts[m] = k
      BY <2>2, <2>5 DEF Passed, AttemptsComplete
    <3>2. QED
      BY <2>3, <3>1
  <2>6. k \in Nat
    BY <1>5
  <2>7. QED
    BY <1>1, <1>3, <2>2, <2>4, <2>5, <2>6
<1>11. Passed(c, g)
  BY <1>6, <1>7, <1>8, <1>9, <1>10 DEF Passed
<1>12. QED
  BY <1>3, <1>11 DEF g

\* The end of a pass that is not the last.
LEMMA PassedNextPass ==
  ASSUME NEW c \in Call, NEW f, FrameOK(c, f), Passed(c, f), f.pass > 0,
         f.i > Len(Line(c, f)), f.pass < Len(Passes[c.entry]), f.depth <= MaxDepth
  PROVE  LET g == [f EXCEPT !.pass = f.pass + 1, !.i = 1, !.j = 0]
         IN  Passed(c, g) /\ g.src = f.src
<1> DEFINE g == [f EXCEPT !.pass = f.pass + 1, !.i = 1, !.j = 0]
<1>1. f \in Frame /\ f.i \in Nat \ {0} /\ f.pass \in Nat
  BY DEF FrameOK, Frame
<1>2. /\ g.pass = f.pass + 1 /\ g.i = 1 /\ g.j = 0 /\ g.src = f.src
      /\ g.depth = f.depth /\ g.attempts = f.attempts
  BY <1>1 DEF Frame
<1>3. FrameOK(c, g)
  BY NextPassOK
<1> HIDE DEF g
<1>4. \A p \in 1..(g.pass - 1) : p = f.pass \/ p \in 1..(f.pass - 1)
  BY <1>1, <1>2
<1>5. Line(c, g) \in Seq(Opener) /\ Line(c, f) \in Seq(Opener)
  <2>1. g.pass > 0
    BY <1>1, <1>2
  <2>2. QED
    BY <1>3, <2>1, LineType
<1>6. PassesSpent(c, g)
  <2>1. \A o \in Elements(Registered[PassName(c, f)]) :
          Spent(c, f.src, f.depth, PassName(c, f), o)
    BY PassDone
  <2>2. QED
    BY <1>2, <1>4, <2>1 DEF Passed, PassesSpent, PassName
<1>7. OpenersSpent(c, g) /\ KidsSpent(c, g)
  <2>1. 1..(g.i - 1) = {} /\ 1..(g.j - 1) = {}
    BY <1>2
  <2>2. QED
    BY <2>1 DEF OpenersSpent, KidsSpent
<1>8. CursorOK(c, g)
  <2>1. g.i <= Len(Line(c, g)) + 1 /\ ~(g.j > 0)
    BY <1>2, <1>5
  <2>2. QED
    BY <1>2, <2>1 DEF Passed, CursorOK
<1>9. AttemptsComplete(c, g)
  <2>1. SUFFICES ASSUME NEW k \in DOMAIN EncryptionLayers,
                        AnswerOf(c, f.src, EncryptionLayers[k]).verdict = "Maybe",
                        PastSig(c, g) \/ (InSig(c, g) /\ k < g.i)
                 PROVE  \E m \in DOMAIN f.attempts : f.attempts[m] = k
    BY <1>2 DEF AttemptsComplete
  <2>2. EncryptionLayers \in Seq(Opener)
    <3>1. Registered["sig"] = EncryptionLayers
      BY DEF Registered
    <3>2. "sig" \in Pass
      BY DEF Pass
    <3>3. QED
      BY <3>1, <3>2, RegisteredType
  <2>3. k \in 1..Len(EncryptionLayers)
    BY <2>2
  <2>4. ~(k < g.i)
    BY <1>2, <2>3
  <2>5. PICK q \in 1..(g.pass - 1) : Passes[c.entry][q] = "sig"
    BY <2>1, <2>4 DEF PastSig
  <2>6. CASE q = f.pass
    <3>1. InSig(c, f)
      BY <2>5, <2>6 DEF InSig, PassName
    <3>2. Line(c, f) = EncryptionLayers
      BY <3>1 DEF InSig, Line, Registered
    <3>3. k < f.i
      BY <1>1, <2>2, <2>3, <3>2
    <3>4. QED
      BY <2>1, <3>1, <3>3 DEF Passed, AttemptsComplete
  <2>7. CASE q \in 1..(f.pass - 1)
    BY <2>1, <2>5, <2>7 DEF Passed, AttemptsComplete, PastSig
  <2>8. QED
    BY <1>4, <2>5, <2>6, <2>7
<1>10. QED
  BY <1>2, <1>6, <1>7, <1>8, <1>9 DEF Passed, g

\* Going on to a child when the ones before it lead nowhere.
LEMMA PassedChild ==
  ASSUME NEW c \in Call, NEW f, FrameOK(c, f), Passed(c, f), NEW n \in Nat \ {0},
         n <= Len(KidsOf(c, f)) + 1,
         \A m \in 1..(n - 1) : KidSpent(c, f.depth, PassName(c, f), KidsOf(c, f)[m])
  PROVE  Passed(c, [f EXCEPT !.j = n]) /\ [f EXCEPT !.j = n].src = f.src
<1> DEFINE g == [f EXCEPT !.j = n]
<1>1. f \in Frame
  BY DEF FrameOK
<1>2. /\ g.pass = f.pass /\ g.i = f.i /\ g.j = n /\ g.src = f.src
      /\ g.depth = f.depth /\ g.attempts = f.attempts
  BY <1>1 DEF Frame
<1> HIDE DEF g
<1>3. PassName(c, g) = PassName(c, f) /\ Line(c, g) = Line(c, f)
  BY <1>2 DEF PassName, Line
<1>4. KidsOf(c, g) = KidsOf(c, f)
  BY <1>2, <1>3 DEF KidsOf
<1>5. PassesSpent(c, g) /\ OpenersSpent(c, g)
  BY <1>2, <1>3 DEF Passed, PassesSpent, OpenersSpent
<1>6. KidsSpent(c, g) /\ CursorOK(c, g)
  BY <1>2, <1>3, <1>4 DEF Passed, KidsSpent, CursorOK
<1>7. AttemptsComplete(c, g)
  <2>1. (PastSig(c, g) <=> PastSig(c, f)) /\ (InSig(c, g) <=> InSig(c, f))
    BY <1>2, <1>3 DEF PastSig, InSig
  <2>2. QED
    BY <1>2, <2>1 DEF Passed, AttemptsComplete
<1>8. QED
  BY <1>2, <1>5, <1>6, <1>7 DEF Passed, g

\* An opener all of whose children lead nowhere is spent.
LEMMA ChildrenSpent ==
  ASSUME NEW c \in Call, NEW f, FrameOK(c, f), Opened(c, f),
         \A m \in 1..Len(KidsOf(c, f)) :
           KidSpent(c, f.depth, PassName(c, f), KidsOf(c, f)[m])
  PROVE  Spent(c, f.src, f.depth, PassName(c, f), Line(c, f)[f.i])
<1>1. f.src \in Source /\ f.i \in Nat \ {0}
  BY DEF FrameOK, Frame
<1>2. Line(c, f)[f.i] \in Opener
  BY <1>1, LineType DEF Opened
<1>3. KidsOf(c, f) \in Seq(Source \cup {Broken})
  BY <1>1, <1>2, AnswerType DEF KidsOf
<1>4. \A kid \in Elements(KidsOf(c, f)) : KidSpent(c, f.depth, PassName(c, f), kid)
  <2>1. DOMAIN KidsOf(c, f) = 1..Len(KidsOf(c, f))
    BY <1>3
  <2>2. QED
    BY <2>1 DEF Elements
<1>5. QED
  BY <1>4 DEF Spent, Opened, KidsOf

\* Every step of the search preserves its invariant.
LEMMA NextSInv == SInv /\ [Next]_vars => SInv'
<1>1. SUFFICES ASSUME SInv, [Next]_vars PROVE SInv'
  OBVIOUS
<1>2. IInv'
  BY <1>1, NextIInv DEF SInv
<1>3. /\ CallOK(call) /\ call \in Call /\ StackOK(call, stack) /\ RetOK(call, ret)
      /\ SearchOK(call, stack) /\ NoneOK(call, stack, ret)
  BY <1>1 DEF SInv, IInv, CallOK
<1>4. stack # <<>> => /\ FrameOK(call, Top) /\ Top \in Frame /\ Passed(call, Top)
                     /\ Top.depth = Len(stack) - 1 /\ Top = stack[Len(stack)]
  <2>1. SUFFICES ASSUME stack # <<>>
                 PROVE  /\ FrameOK(call, Top) /\ Top \in Frame /\ Passed(call, Top)
                        /\ Top.depth = Len(stack) - 1
    BY DEF Top
  <2>2. Len(stack) \in 1..Len(stack)
    BY <1>3, <2>1, TopOK
  <2>3. QED
    BY <1>3, <2>1, <2>2, TopOK DEF Top, SearchOK
<1>5. stack # <<>> /\ Top.pass # 0 => Top.pass > 0 /\ Top.depth <= MaxDepth
  BY <1>4 DEF Frame, FrameOK, DepthOK
<1>6. ASSUME call' = call, SearchOK(call, stack'), NoneOK(call, stack', ret')
      PROVE  SInv'
  BY <1>2, <1>6 DEF SInv
\* A step that only moves the cursor of the innermost record.
<1>7. ASSUME NEW g, stack # <<>>, g \in Frame, Passed(call, g), g.src = Top.src,
             stack' = SetTop(g), ret'.res # "none", call' = call
      PROVE  SInv'
  <2>1. SearchOK(call, SetTop(g))
    BY <1>3, <1>4, <1>7, SearchReplaceTop DEF SetTop
  <2>2. QED
    BY <1>6, <1>7, <2>1 DEF NoneOK
\* A step that returns a found source or a failure.
<1>8. ASSUME stack' = stack, call' = call, ret'.res # "none"
      PROVE  SInv'
  BY <1>3, <1>6, <1>8 DEF NoneOK
<1>9. Err.res # "none" /\ Pending.res # "none" /\ None.res = "none"
  BY DEF Err, Pending, None, Bare
<1>10. CASE DepthCap
  <2>1. stack # <<>> /\ Top.depth > MaxDepth /\ call' = call /\ stack' = stack /\ ret' = None
    BY <1>10 DEF DepthCap, Running
  <2>2. Top.depth \in Nat
    BY <1>4, <2>1 DEF Frame
  <2>3. Barren(call, Top.src, Top.depth)
    BY <2>1, <2>2, BarrenAtCap
  <2>4. NoneOK(call, stack', ret')
    BY <1>4, <2>1, <2>3 DEF NoneOK
  <2>5. QED
    BY <1>3, <1>6, <2>1, <2>4
<1>11. CASE Sniff
  <2> DEFINE g == [Top EXCEPT !.pass = 1]
  <2>1. stack # <<>> /\ Top.pass = 0 /\ call' = call /\ ret.res = "pending"
    BY <1>11 DEF Sniff, Running
  <2>2. CASE call.evidence[Top.src].readable
    <3>1. stack' = SetTop(g) /\ ret' = ret
      BY <1>11, <2>2 DEF Sniff
    <3>2. stack \in Seq(Frame) /\ Len(stack) \in 1..Len(stack)
      BY <1>3, <2>1, TopOK DEF StackOK
    <3>3. FrameOK(call, g)
      <4>1. StackOK(call, SetTop(g)) /\ Len(SetTop(g)) = Len(stack)
        BY <1>2, <2>1, <3>1, <3>2 DEF IInv, SetTop
      <4>2. SetTop(g)[Len(stack)] = g
        BY <3>2 DEF SetTop
      <4>3. QED
        BY <3>2, <4>1, <4>2 DEF StackOK
    <3>4. /\ g.pass = 1 /\ g.i = Top.i /\ g.j = Top.j /\ g.src = Top.src
          /\ g.depth = Top.depth /\ g.attempts = Top.attempts
      BY <1>4, <2>1 DEF Frame
    <3>5. g.j = 0 /\ g.i = 1
      <4>1. Top.j \in Nat /\ ~(Top.j > 0)
        BY <1>4, <2>1 DEF FrameOK, Opened, Frame
      <4>2. Top.i = 1
        BY <1>4, <2>1 DEF Passed, CursorOK
      <4>3. QED
        BY <3>4, <4>1, <4>2
    <3> HIDE DEF g
    <3>6. 1..(g.pass - 1) = {} /\ 1..(g.i - 1) = {} /\ 1..(g.j - 1) = {} /\ ~(g.j > 0)
      BY <3>4, <3>5
    <3>7. g.i <= Len(Line(call, g)) + 1
      <4>1. Line(call, g) \in Seq(Opener)
        BY <1>3, <3>3, <3>4, LineType
      <4>2. QED
        BY <3>5, <4>1
    <3>8. AttemptsComplete(call, g)
      <4>1. ~PastSig(call, g)
        BY <3>6 DEF PastSig
      <4>2. EncryptionLayers \in Seq(Opener)
        <5>1. Registered["sig"] = EncryptionLayers /\ "sig" \in Pass
          BY DEF Registered, Pass
        <5>2. QED
          BY <5>1, RegisteredType
      <4>3. \A k \in DOMAIN EncryptionLayers : ~(k < g.i)
        BY <3>5, <4>2
      <4>4. QED
        BY <4>1, <4>3 DEF AttemptsComplete
    <3>9. Passed(call, g) /\ g \in Frame
      BY <2>2, <3>3, <3>4, <3>6, <3>7, <3>8 DEF Passed, PassesSpent, OpenersSpent,
         KidsSpent, CursorOK, FrameOK
    <3>10. QED
      BY <1>7, <2>1, <3>1, <3>4, <3>9 DEF g
  <2>3. CASE ~call.evidence[Top.src].readable
    BY <1>8, <1>9, <1>11, <2>1, <2>3 DEF Sniff
  <2>4. QED
    BY <2>2, <2>3
<1>12. CASE Decline
  <2> DEFINE g == [NextOpener(Top) EXCEPT !.attempts =
                     IF PassName(call, Top) = "sig" /\ CurrentAnswer.verdict = "Maybe"
                       THEN Recorded(Top) ELSE @]
  <2>1. /\ stack # <<>> /\ Top.pass # 0 /\ Top.i <= Len(Line(call, Top)) /\ ~Claimed
        /\ stack' = SetTop(g) /\ call' = call /\ ret' = ret /\ ret.res = "pending"
    BY <1>12 DEF Decline, AtOpener, InPass, Running
  <2>2. CurrentAnswer = AnswerOf(call, Top.src, Line(call, Top)[Top.i])
    BY DEF CurrentAnswer, Current
  <2>3. NextOpener(Top) \in Frame /\ NextOpener(Top).src = Top.src
    BY <1>4, <2>1, NextOpenerOK DEF FrameOK, NextOpener, Frame
  <2>4. g \in Frame /\ Passed(call, g) /\ g.src = Top.src
    <3>1. CASE PassName(call, Top) = "sig" /\ CurrentAnswer.verdict = "Maybe"
      <4>1. g = [NextOpener(Top) EXCEPT !.attempts = Recorded(Top)]
        BY <3>1
      <4>2. InSig(call, Top)
        BY <1>5, <2>1, <3>1 DEF InSig
      <4>3. FrameOK(call, g)
        BY <1>3, <1>4, <1>5, <2>1, <2>2, <3>1, <4>1, RecordedOK
      <4>4. QED
        BY <1>3, <1>4, <2>1, <2>2, <3>1, <4>1, <4>2, <4>3, PassedRecorded DEF FrameOK
    <3>2. CASE ~(PassName(call, Top) = "sig" /\ CurrentAnswer.verdict = "Maybe")
      <4>1. g = [NextOpener(Top) EXCEPT !.attempts = @]
        BY <3>2
      <4>2. g = NextOpener(Top)
        BY <2>3, <4>1 DEF Frame
      <4>3. ~Engaged(call, Top.src, PassName(call, Top), Line(call, Top)[Top.i])
        BY <2>1 DEF Claimed, Current
      <4>4. Spent(call, Top.src, Top.depth, PassName(call, Top), Line(call, Top)[Top.i])
        BY <4>3 DEF Spent
      <4>5. InSig(call, Top) =>
              AnswerOf(call, Top.src, Line(call, Top)[Top.i]).verdict # "Maybe"
        BY <2>2, <3>2 DEF InSig
      <4>6. Passed(call, NextOpener(Top))
        BY <1>3, <1>4, <1>5, <2>1, <4>4, <4>5, PassedNextOpener
      <4>7. QED
        BY <2>3, <4>2, <4>6
    <3>3. QED
      BY <3>1, <3>2
  <2> HIDE DEF g
  <2>5. QED
    BY <1>7, <2>1, <2>4
<1>13. CASE Mount
  <2>1. call' = call /\ stack' = stack
    BY <1>13 DEF Mount
  <2>2. ret'.res # "none"
    BY <1>9, <1>13 DEF Mount, Some
  <2>3. QED
    BY <1>8, <2>1, <2>2
<1>14. CASE OpenLayer
  <2> DEFINE g == [Top EXCEPT !.j = 1]
  <2>1. /\ stack # <<>> /\ Top.pass # 0 /\ Top.i <= Len(Line(call, Top)) /\ call' = call
        /\ ret.res = "pending"
    BY <1>14 DEF OpenLayer, AtOpener, InPass, Running
  <2>2. \/ stack' = SetTop(g) /\ ret' = ret
        \/ stack' = stack /\ ret' = Err
    BY <1>14 DEF OpenLayer
  <2>3. g \in Frame
    <3>1. 1 \in Nat
      OBVIOUS
    <3>2. QED
      BY <1>4, <2>1, <3>1, ChildCursor
  <2>4. Passed(call, g) /\ g.src = Top.src
    <3>1. Line(call, Top)[Top.i] \in Opener /\ Top.src \in Source
      BY <1>3, <1>4, <2>1, CursorOpener DEF CallOK
    <3>2. KidsOf(call, Top) \in Seq(Source \cup {Broken})
      BY <1>3, <3>1, AnswerType DEF KidsOf
    <3>3. 1 \in Nat \ {0} /\ 1 <= Len(KidsOf(call, Top)) + 1 /\ 1..(1 - 1) = {}
      BY <3>2
    <3>4. QED
      BY <1>3, <1>4, <2>1, <3>3, PassedChild
  <2> HIDE DEF g
  <2>5. QED
    BY <1>7, <1>8, <1>9, <2>1, <2>2, <2>3, <2>4
<1>15. CASE Descend
  <2> DEFINE kid == CurrentAnswer.kids[Top.j]
             l == LayerOf(call, Top.src, PassName(call, Top), Current, Top.j)
             g == Enter(kid, Append(Top.spec, l), Top.depth + 1, 0)
  <2>1. /\ stack # <<>> /\ Top.pass # 0 /\ Top.j > 0 /\ Top.i <= Len(Line(call, Top))
        /\ call' = call /\ ret' = ret /\ ret.res = "pending"
        /\ Top.j <= Len(CurrentAnswer.kids) /\ stack' = Append(stack, g)
    BY <1>15 DEF Descend, AtChild, InPass, Running
  <2>2. /\ stack \in Seq(Frame) /\ Append(stack, g) \in Seq(Frame)
    BY <1>2, <1>3, <2>1 DEF IInv, StackOK
  <2>3. g \in Frame
    <3> HIDE DEF g
    <3>1. /\ Len(Append(stack, g)) = Len(stack) + 1
          /\ Append(stack, g)[Len(stack) + 1] = g
          /\ Len(stack) + 1 \in 1..(Len(stack) + 1)
      BY <2>2
    <3>2. QED
      BY <2>2, <3>1, ElementOfSeq
  <2>4. Passed(call, g)
    BY EnterPassed
  <2>5. At(call, Top, g.src)
    <3>1. Line(call, Top)[Top.i] \in Opener /\ Top.src \in Source /\ Top.j \in Nat
      BY <1>3, <1>4, <2>1, CursorOpener DEF CallOK
    <3>2. KidsOf(call, Top) \in Seq(Source \cup {Broken})
      BY <1>3, <3>1, AnswerType DEF KidsOf
    <3>3. KidsOf(call, Top) = CurrentAnswer.kids
      BY DEF KidsOf, CurrentAnswer, Current, Kids
    <3>4. Top.j \in DOMAIN KidsOf(call, Top) /\ g.src = KidsOf(call, Top)[Top.j]
      BY <2>1, <3>1, <3>2, <3>3 DEF Enter
    <3>5. QED
      BY <3>4 DEF At
  <2> HIDE DEF g
  <2>6. SearchOK(call, Append(stack, g))
    BY <1>3, <1>4, <2>1, <2>3, <2>4, <2>5, SearchPush
  <2>7. QED
    BY <1>6, <2>1, <2>6 DEF NoneOK
<1>16. CASE ChildFails
  <2>1. /\ stack # <<>> /\ call' = call /\ Top.pass # 0 /\ Top.i <= Len(Line(call, Top))
        /\ Top.j > 0 /\ ret.res = "pending"
        /\ Top.j <= Len(CurrentAnswer.kids) /\ CurrentAnswer.kids[Top.j] = Broken
    BY <1>16 DEF ChildFails, AtChild, InPass, Running
  <2>2. \/ PassName(call, Top) = "try" /\ stack' = SetTop(NextOpener(Top)) /\ ret' = ret
        \/ stack' = stack /\ ret' = Err
    BY <1>16 DEF ChildFails, Tolerated
  <2>3. CASE PassName(call, Top) = "try" /\ stack' = SetTop(NextOpener(Top)) /\ ret' = ret
    <3>1. /\ Line(call, Top)[Top.i] \in Opener /\ Top.src \in Source /\ Top.j \in Nat
          /\ Line(call, Top)[Top.i] \in Elements(Registered[PassName(call, Top)])
      BY <1>3, <1>4, <2>1, CursorOpener DEF CallOK
    <3>2. /\ KidsOf(call, Top) \in Seq(Source \cup {Broken})
          /\ KidsOf(call, Top) = CurrentAnswer.kids
      BY <1>3, <3>1, AnswerType DEF KidsOf, CurrentAnswer, Current, Kids
    <3>3. Opened(call, Top)
      BY <1>4, <2>1 DEF FrameOK
    <3>4. Len(KidsOf(call, Top)) = 1
      <4>1. Line(call, Top)[Top.i] \in Elements(EncryptionLayers)
        BY <2>3, <3>1 DEF Registered
      <4>2. /\ AnswerOf(call, Top.src, Line(call, Top)[Top.i]).ok
            /\ AnswerOf(call, Top.src, Line(call, Top)[Top.i]).verdict # "No"
        BY <2>3, <3>3 DEF Opened, Engaged
      <4>3. QED
        BY <1>3, <3>1, <4>1, <4>2 DEF CallOK, WellFormed, KidsOf, Kids, AnswerOf
    <3>5. \A m \in 1..Len(KidsOf(call, Top)) :
            KidSpent(call, Top.depth, PassName(call, Top), KidsOf(call, Top)[m])
      <4>1. SUFFICES ASSUME NEW m \in 1..Len(KidsOf(call, Top))
                     PROVE  KidsOf(call, Top)[m] = Broken
        BY <2>3 DEF KidSpent
      <4>2. m = Top.j
        BY <2>1, <3>1, <3>2, <3>4
      <4>3. QED
        BY <2>1, <3>2, <4>2
    <3>6. Spent(call, Top.src, Top.depth, PassName(call, Top), Line(call, Top)[Top.i])
      BY <1>3, <1>4, <2>1, <3>3, <3>5, ChildrenSpent
    <3>7. ~InSig(call, Top)
      BY <2>3 DEF InSig
    <3>8. Passed(call, NextOpener(Top))
      BY <1>3, <1>4, <1>5, <2>1, <3>6, <3>7, PassedNextOpener
    <3>9. NextOpener(Top) \in Frame /\ NextOpener(Top).src = Top.src
      BY <1>4, <2>1, NextOpenerOK DEF FrameOK, NextOpener, Frame
    <3>10. QED
      BY <1>7, <2>1, <2>3, <3>8, <3>9
  <2>4. QED
    BY <1>8, <1>9, <2>1, <2>2, <2>3
<1>17. CASE LayerSpent
  <2>1. /\ stack # <<>> /\ call' = call /\ Top.pass # 0 /\ Top.i <= Len(Line(call, Top))
        /\ Top.j > 0 /\ ret.res = "pending" /\ Top.j > Len(CurrentAnswer.kids)
        /\ stack' = SetTop(NextOpener(Top)) /\ ret' = ret
    BY <1>17 DEF LayerSpent, AtChild, InPass, Running
  <2>2. Line(call, Top)[Top.i] \in Opener /\ Top.src \in Source /\ Top.j \in Nat
    BY <1>3, <1>4, <2>1, CursorOpener DEF CallOK
  <2>3. /\ KidsOf(call, Top) \in Seq(Source \cup {Broken})
        /\ KidsOf(call, Top) = CurrentAnswer.kids
    BY <1>3, <2>2, AnswerType DEF KidsOf, CurrentAnswer, Current, Kids
  <2>4. Opened(call, Top)
    BY <1>4, <2>1 DEF FrameOK
  <2>5. \A m \in 1..Len(KidsOf(call, Top)) :
          KidSpent(call, Top.depth, PassName(call, Top), KidsOf(call, Top)[m])
    <3>1. \A m \in 1..Len(KidsOf(call, Top)) : m \in 1..(Top.j - 1)
      BY <2>1, <2>2, <2>3
    <3>2. QED
      BY <1>4, <1>5, <2>1, <3>1 DEF Passed, KidsSpent
  <2>6. Spent(call, Top.src, Top.depth, PassName(call, Top), Line(call, Top)[Top.i])
    BY <1>3, <1>4, <2>1, <2>4, <2>5, ChildrenSpent
  <2>7. InSig(call, Top) => AnswerOf(call, Top.src, Line(call, Top)[Top.i]).verdict # "Maybe"
    BY <2>4 DEF InSig, Opened, Engaged
  <2>8. Passed(call, NextOpener(Top))
    BY <1>3, <1>4, <1>5, <2>1, <2>6, <2>7, PassedNextOpener
  <2>9. NextOpener(Top) \in Frame /\ NextOpener(Top).src = Top.src
    BY <1>4, <2>1, NextOpenerOK DEF FrameOK, NextOpener, Frame
  <2>10. QED
    BY <1>7, <2>1, <2>8, <2>9
<1>18. CASE NextPass
  <2> DEFINE g == [Top EXCEPT !.pass = Top.pass + 1, !.i = 1, !.j = 0]
  <2>1. /\ stack # <<>> /\ call' = call /\ ret' = ret /\ Top.pass # 0
        /\ Top.pass < Len(Passes[call.entry]) /\ Top.i > Len(Line(call, Top))
        /\ stack' = SetTop(g) /\ ret.res = "pending"
    BY <1>18 DEF NextPass, InPass, Running
  <2>2. FrameOK(call, g)
    BY <1>3, <1>4, <1>5, <2>1, NextPassOK
  <2>3. Passed(call, g) /\ g.src = Top.src
    BY <1>3, <1>4, <1>5, <2>1, PassedNextPass
  <2> HIDE DEF g
  <2>4. QED
    BY <1>7, <2>1, <2>2, <2>3 DEF FrameOK
<1>19. CASE Exhausted
  <2>1. /\ stack # <<>> /\ Top.pass # 0 /\ call' = call /\ stack' = stack
        /\ Top.i > Len(Line(call, Top)) /\ Top.pass = Len(Passes[call.entry])
    BY <1>19 DEF Exhausted, InPass, Running
  <2>2. CASE call.entry = "source"
    BY <1>8, <1>19, <2>1, <2>2 DEF Exhausted, Some
  <2>3. CASE call.entry # "source"
    <3>1. Barren(call, Top.src, Top.depth)
      BY <1>3, <1>4, <2>1, <2>3, ExhaustedIsBarren
    <3>2. NoneOK(call, stack', ret')
      BY <1>4, <2>1, <3>1 DEF NoneOK
    <3>3. QED
      BY <1>3, <1>6, <2>1, <3>2
  <2>4. QED
    BY <2>2, <2>3
<1>20. CASE Return
  <2> DEFINE below == SubSeq(stack, 1, Len(stack) - 1)
             n == Len(stack) - 1
  <2>1. stack # <<>> /\ call' = call
    BY <1>20 DEF Return
  <2>2. \/ /\ n > 0 /\ ret.res = "none"
           /\ stack' = [below EXCEPT ![n] = Resume(below[n])] /\ ret' = Pending
        \/ /\ ~(n > 0 /\ ret.res = "none")
           /\ stack' = below /\ ret' = ret
    BY <1>20 DEF Return
  <2>3. /\ StackOK(call, below) /\ Len(below) = n /\ n \in Nat
        /\ \A k \in 1..n : below[k].j > 0
    <3>1. n \in Nat
      BY <1>3, <2>1, TopOK
    <3>2. /\ StackOK(call, below) /\ Len(below) = n
          /\ \A k \in 1..Len(below) : below[k] = stack[k] /\ below[k].j > 0
      BY <1>3, <2>1, PopFrame
    <3> HIDE DEF below, n
    <3>3. QED
      BY <3>1, <3>2
  <2>4. /\ SearchOK(call, below)
        /\ n > 0 => At(call, below[n], Top.src)
        /\ n = 0 => Top.src = call.root /\ below = <<>>
    BY <1>3, <1>4, <2>1, SearchPop
  <2>5. ret.res = "none" => Barren(call, Top.src, Top.depth) /\ Top.depth = n
    BY <1>3, <1>4, <2>1 DEF NoneOK
  <2> HIDE DEF below
  <2>6. CASE /\ n > 0 /\ ret.res = "none"
             /\ stack' = [below EXCEPT ![n] = Resume(below[n])] /\ ret' = Pending
    <3> DEFINE f == below[n]
    <3>1. below # <<>> /\ n \in 1..n
      BY <2>3, <2>6
    <3>2. /\ FrameOK(call, f) /\ f.j > 0 /\ f \in Frame /\ f.depth = n - 1
          /\ Passed(call, f) /\ At(call, f, Top.src)
      BY <2>3, <2>4, <2>6, <3>1, TopOK DEF SearchOK
    <3> HIDE DEF f
    <3>3. Opened(call, f) /\ f.j \in Nat /\ f.pass > 0 /\ f.i \in Nat \ {0} /\ f.src \in Source
      BY <3>2 DEF FrameOK, Frame, Opened
    <3>4. KidsOf(call, f) \in Seq(Source \cup {Broken})
      BY <1>3, <3>2, <3>3, LineType, AnswerType DEF KidsOf, Opened
    <3>5. f.j \in 1..Len(KidsOf(call, f)) /\ KidsOf(call, f)[f.j] = Top.src
      BY <3>2, <3>4 DEF At
    <3>6. KidSpent(call, f.depth, PassName(call, f), Top.src)
      <4>1. Top.src # Broken
        BY <1>4, <2>1, OpenersWellFormed DEF OpenersAssumption, Frame
      <4>2. f.depth + 1 = Top.depth
        BY <2>3, <2>5, <2>6, <3>2
      <4>3. QED
        BY <2>5, <2>6, <4>1, <4>2 DEF KidSpent
    <3>7. \A m \in 1..(f.j + 1 - 1) :
            KidSpent(call, f.depth, PassName(call, f), KidsOf(call, f)[m])
      <4>1. \A m \in 1..(f.j + 1 - 1) : m = f.j \/ m \in 1..(f.j - 1)
        BY <3>3
      <4>2. QED
        BY <3>2, <3>3, <3>5, <3>6, <4>1 DEF Passed, KidsSpent
    <3> DEFINE m0 == f.j + 1
               g == [f EXCEPT !.j = m0]
    <3>8. /\ m0 \in Nat \ {0} /\ m0 \in Nat /\ m0 <= Len(KidsOf(call, f)) + 1
          /\ \A m \in 1..(m0 - 1) :
               KidSpent(call, f.depth, PassName(call, f), KidsOf(call, f)[m])
      BY <3>3, <3>4, <3>5, <3>7
    <3>9. Passed(call, g) /\ g.src = f.src
      <4> HIDE DEF m0
      <4>1. QED
        BY <1>3, <3>2, <3>3, <3>8, PassedChild
    <3>10. g \in Frame
      BY <3>2, <3>8, ChildCursor
    <3>11. Resume(f) = g
      BY DEF Resume
    <3> HIDE DEF g
    <3>12. SearchOK(call, [below EXCEPT ![n] = g])
      BY <2>3, <2>4, <3>1, <3>9, <3>10, SearchReplaceTop DEF f
    <3>13. QED
      BY <1>6, <1>9, <2>1, <2>6, <3>11, <3>12 DEF NoneOK, f
  <2>7. CASE ~(n > 0 /\ ret.res = "none") /\ stack' = below /\ ret' = ret
    <3>1. NoneOK(call, below, ret)
      <4>1. SUFFICES ASSUME ret.res = "none"
                     PROVE  below = <<>> /\ Barren(call, call.root, 0)
        BY DEF NoneOK
      <4>2. n = 0
        BY <2>3, <2>7, <4>1
      <4>3. QED
        BY <2>4, <2>5, <4>1, <4>2
    <3>2. QED
      BY <1>6, <2>1, <2>4, <2>7, <3>1
  <2>8. QED
    BY <2>2, <2>6, <2>7
<1>21. CASE UNCHANGED vars
  BY <1>3, <1>6, <1>21 DEF vars
<1>22. QED
  BY <1>1, <1>10, <1>11, <1>12, <1>13, <1>14, <1>15, <1>16, <1>17, <1>18, <1>19,
     <1>20, <1>21 DEF Next, Step, Returned

-----------------------------------------------------------------------------
(***************************************************************************)
(* Theorems                                                                *)
(***************************************************************************)

\* At every step of the recursion what lies before the cursor of each record
\* is spent, and a None on its way up is clean.
THEOREM SearchInvariance == Spec => []SInv
BY InitSInv, NextSInv, PTL DEF Spec

\* Whatever open_with_credentials and resolve_to_source go past, at any level,
\* holds no filesystem, no failure and no locked layer within the depth cap.
THEOREM Exhaustive == Spec => []NothingPassedOver
<1>1. SInv => NothingPassedOver
  <2>1. SUFFICES ASSUME SInv, NEW k \in DOMAIN stack
                 PROVE  LET f == stack[k] IN
                    /\ PassesSpent(call, f) /\ OpenersSpent(call, f) /\ KidsSpent(call, f)
    BY DEF NothingPassedOver, PassesSpent, OpenersSpent, KidsSpent, KidsOf
  <2>2. k \in 1..Len(stack)
    BY <2>1 DEF SInv, IInv, StackOK
  <2>3. QED
    BY <2>1, <2>2 DEF SInv, SearchOK, Passed
<1>2. QED
  BY <1>1, SearchInvariance, PTL

\* An answer of Ok(None) is a clean unknown: nothing within the depth cap was
\* unreadable, mountable, damaged or locked.
THEOREM CleanUnknown == Spec => []NoneIsClean
<1>1. SInv => NoneIsClean
  BY DEF SInv, NoneOK, NoneIsClean, Done, Top
<1>2. QED
  BY <1>1, SearchInvariance, PTL
=============================================================================
