----------------------------- MODULE WalkProofs -----------------------------
(***************************************************************************)
(* Theorems about the walk, for every filesystem and every depth cap.      *)
(***************************************************************************)
EXTENDS Walk, SequenceTheorems, FiniteSetTheorems, WellFoundedInduction, TLAPS

-----------------------------------------------------------------------------
(***************************************************************************)
(* The inductive invariant                                                 *)
(***************************************************************************)

OnStack(n) == \E k \in 1..Len(stack) : stack[k].id = n

Seen(n) == n \in visited \/ OnStack(n)

\* A directory the walk has come to by names it has returned.
Met(n) == n \in Reachable /\ IsDir(n) /\ (n = Root \/ Returns(n))

\* Each listed directory adds at most one level.
StackOK ==
  \A k \in 1..Len(stack) :
    /\ Met(stack[k].id)
    /\ stack[k].depth <= Cardinality(visited)

DirOK ==
  at > 0 => /\ dir.id \in visited
            /\ at <= Len(Entries) + 1
            /\ dir.depth + 1 <= Cardinality(visited)

EntryDone(e) ==
  /\ e.id # Torn
  /\ e.name \notin Dots => vol[e.id].meta # "bad" /\ Returns(e.id)

\* The entries of listed directories are dealt with, up to the current one.
ListedOK ==
  res # "err" =>
    \A n \in visited :
      /\ vol[n].listable
      /\ \A k \in 1..Len(vol[n].entries) :
           (at > 0 /\ n = dir.id => k < at) => EntryDone(vol[n].entries[k])

Few == Cardinality({n \in Reachable : IsDir(n)}) <= DepthCap + 1

\* With few directories none that was returned is forgotten.
SeenOK ==
  Few => /\ Seen(Root)
         /\ \A k \in 1..Len(out) : IsDir(out[k].id) => Seen(out[k].id)

VisitedOK == \A n \in visited : Met(n)

IInv == TypeOK /\ StackOK /\ VisitedOK /\ DirOK /\ ListedOK /\ SeenOK

-----------------------------------------------------------------------------
(***************************************************************************)
(* What is on the filesystem                                               *)
(***************************************************************************)

\* The volume does not change, and so neither does what is on it.
LEMMA SameVolume ==
  ASSUME vol' = vol
  PROVE  /\ Reachable' = Reachable
         /\ \A n : IsDir(n)' = IsDir(n) /\ Named(n)' = Named(n)
         /\ Few' = Few
<1>1. \A n : IsDir(n)' = IsDir(n) /\ Named(n)' = Named(n)
  BY DEF IsDir, Named
<1>2. Reachable' = Reachable
  BY <1>1 DEF Reachable, Closed
<1>3. Few' = Few
  BY <1>1, <1>2 DEF Few
<1>4. QED
  BY <1>1, <1>2, <1>3

\* The root is reachable, and so is what a reachable directory names.
LEMMA ReachableClosed ==
  /\ Root \in Reachable
  /\ \A n \in Reachable : IsDir(n) =>
       \A e \in Named(n) : e.id \in Node => e.id \in Reachable
<1>1. Root \in Node
  BY WalkAssumption
<1>2. QED
  BY <1>1 DEF Reachable, Closed

\* An entry that is neither torn nor a dot is named by its directory.
LEMMA EntryNamed ==
  ASSUME TypeOK, DirOK, AtEntry, Entry.id # Torn, Entry.name \notin Dots
  PROVE  /\ Entry \in Named(dir.id) /\ Entry.id \in Node /\ Entry.name \in Name
         /\ at \in 1..Len(vol[dir.id].entries) /\ dir.id \in Node
<1>1. dir.id \in Node /\ at \in 1..Len(vol[dir.id].entries)
      /\ vol[dir.id].entries \in Seq(DirEntry)
  <2>1. dir.id \in Node /\ at \in Nat /\ at > 0
    BY DEF TypeOK, AtEntry, Listing, DirOK
  <2>2. vol[dir.id].entries \in Seq(DirEntry)
    BY <2>1 DEF TypeOK, Volume
  <2>3. at <= Len(vol[dir.id].entries) /\ Len(vol[dir.id].entries) \in Nat
    BY <2>2 DEF AtEntry, Entries
  <2>4. QED
    BY <2>1, <2>2, <2>3
<1>2. Entry \in DirEntry
  BY <1>1 DEF Entry, Entries
<1>3. Entry \in Named(dir.id)
  BY <1>1 DEF Named, Entry, Entries
<1>4. QED
  BY <1>1, <1>2, <1>3 DEF DirEntry

\* What popping the stack leaves.
LEMMA PopType ==
  ASSUME TypeOK, stack # <<>>
  PROVE  /\ Top \in Item /\ Len(stack) \in 1..Len(stack)
         /\ Popped \in Seq(Item) /\ Len(Popped) = Len(stack) - 1
         /\ \A k \in 1..Len(Popped) : k \in 1..Len(stack) /\ Popped[k] = stack[k]
         /\ \A k \in 1..Len(stack) : k \in 1..Len(Popped) \/ k = Len(stack)
<1>1. stack \in Seq(Item) /\ Len(stack) \in Nat /\ Len(stack) > 0
  BY EmptySeq, LenProperties DEF TypeOK
<1>2. Top \in Item
  BY <1>1 DEF Top
<1>3. /\ Popped \in Seq(Item) /\ Len(Popped) = Len(stack) - 1
      /\ \A k \in 1..(Len(stack) - 1) : Popped[k] = stack[k]
  BY <1>1 DEF Popped
<1>4. QED
  BY <1>1, <1>2, <1>3

\* visited is a finite set.
LEMMA VisitedFinite ==
  ASSUME TypeOK
  PROVE  IsFiniteSet(visited) /\ Cardinality(visited) \in Nat
BY WalkAssumption, FS_Subset, FS_CardinalityType DEF TypeOK

-----------------------------------------------------------------------------
(***************************************************************************)
(* The invariant is inductive                                              *)
(***************************************************************************)

LEMMA InitIInv == Init => IInv
<1>1. SUFFICES ASSUME Init PROVE IInv
  OBVIOUS
<1>2. Len(stack) = 1 /\ stack[1] = [path |-> <<>>, id |-> Root, depth |-> 0] /\ visited = {}
      /\ at = 0 /\ out = <<>>
  BY <1>1 DEF Init
<1>3. TypeOK
  <2>1. dir \in Item /\ stack \in Seq(Item) /\ out \in Seq(Found)
    BY <1>1, WalkAssumption DEF Init, Item
  <2>2. QED
    BY <1>1, <2>1, WalkAssumption DEF Init, TypeOK
<1>4. StackOK
  <2>1. Met(Root)
    BY ReachableClosed DEF Met, IsDir
  <2>2. Cardinality(visited) = 0
    BY <1>2, FS_EmptySet
  <2>3. \A k \in 1..Len(stack) : k = 1
    BY <1>2
  <2>4. QED
    BY <1>2, <2>1, <2>2, <2>3 DEF StackOK
<1>5. VisitedOK /\ DirOK /\ ListedOK
  BY <1>2 DEF VisitedOK, DirOK, ListedOK
<1>6. SeenOK
  <2>1. OnStack(Root)
    BY <1>2 DEF OnStack
  <2>2. Len(out) = 0
    BY <1>2
  <2>3. QED
    BY <2>1, <2>2 DEF SeenOK, Seen
<1>7. QED
  BY <1>3, <1>4, <1>5, <1>6 DEF IInv

\* A directory that was met stays met as long as nothing returned is lost.
LEMMA MetKept ==
  ASSUME vol' = vol, \A n : Returns(n) => Returns(n)', NEW n, Met(n)
  PROVE  Met(n)'
BY SameVolume DEF Met

\* Moving on within a directory, or stopping.
LEMMA MoveOn ==
  ASSUME IInv, TypeOK', UNCHANGED <<vol, stack, visited, dir, out>>, DirOK', ListedOK'
  PROVE  IInv'
<1>1. \A n : Returns(n) <=> Returns(n)'
  BY DEF Returns
<1>2. \A n : Met(n) => Met(n)'
  BY <1>1, MetKept
<1>3. StackOK' /\ VisitedOK'
  BY <1>2 DEF IInv, StackOK, VisitedOK
<1>4. SeenOK'
  <2>1. \A n : Seen(n)' = Seen(n)
    BY DEF Seen, OnStack
  <2>2. QED
    BY <2>1, SameVolume DEF IInv, SeenOK
<1>5. QED
  BY <1>3, <1>4 DEF IInv

LEMMA SkipIInv == IInv /\ Skip => IInv'
<1>1. SUFFICES ASSUME IInv, Skip PROVE IInv'
  OBVIOUS
<1>2. TypeOK /\ stack # <<>> /\ stack' = Popped /\ Skipped /\ at = 0
      /\ UNCHANGED <<vol, visited, dir, at, out, res>>
  BY <1>1 DEF IInv, Skip
<1>3. /\ Top \in Item /\ Popped \in Seq(Item) /\ Len(Popped) = Len(stack) - 1
      /\ \A k \in 1..Len(Popped) : k \in 1..Len(stack) /\ Popped[k] = stack[k]
      /\ \A k \in 1..Len(stack) : k \in 1..Len(Popped) \/ k = Len(stack)
      /\ Len(stack) \in 1..Len(stack)
  BY <1>2, PopType
<1>4. TypeOK'
  BY <1>2, <1>3 DEF TypeOK
<1>5. \A n : Returns(n)' <=> Returns(n)
  BY <1>2 DEF Returns
<1>6. \A n : Met(n) => Met(n)'
  BY <1>2, <1>5, MetKept
<1>7. StackOK'
  BY <1>1, <1>2, <1>3, <1>6 DEF IInv, StackOK
<1>8. VisitedOK'
  BY <1>1, <1>2, <1>6 DEF IInv, VisitedOK
<1>9. DirOK' /\ ListedOK'
  BY <1>1, <1>2, <1>5 DEF IInv, DirOK, ListedOK, EntryDone
<1>10. SeenOK'
  <2>1. SUFFICES ASSUME Few PROVE \A n : Seen(n) => Seen(n)'
    BY <1>1, <1>2, SameVolume DEF IInv, SeenOK
  <2>2. Top.id \in visited
    <3>1. SUFFICES ASSUME Top.id \notin visited PROVE FALSE
      OBVIOUS
    <3>2. Met(Top.id) /\ Top.depth <= Cardinality(visited) /\ Top.depth \in Nat
      BY <1>1, <1>3 DEF IInv, StackOK, Top, Item
    <3>3. Top.depth > DepthCap
      BY <1>2, <3>1 DEF Skipped
    <3> DEFINE dirs == {n \in Reachable : IsDir(n)}
               more == visited \cup {Top.id}
    <3>4. more \subseteq dirs /\ dirs \subseteq Node
      BY <1>1, <3>2 DEF IInv, VisitedOK, Met, Reachable
    <3>5. IsFiniteSet(visited) /\ Cardinality(visited) \in Nat
      BY <1>2, VisitedFinite
    <3>6. IsFiniteSet(more) /\ Cardinality(more) = Cardinality(visited) + 1
      BY <3>1, <3>5, FS_AddElement
    <3>7. IsFiniteSet(dirs)
      BY <3>4, WalkAssumption, FS_Subset
    <3>8. Cardinality(more) <= Cardinality(dirs) /\ Cardinality(dirs) \in Nat
      BY <3>4, <3>7, FS_Subset, FS_CardinalityType
    <3>9. Cardinality(dirs) <= DepthCap + 1 /\ DepthCap \in Nat
      BY <2>1, WalkAssumption DEF Few
    <3> HIDE DEF dirs, more
    <3>10. QED
      BY <3>2, <3>3, <3>5, <3>6, <3>8, <3>9
  <2>3. SUFFICES ASSUME NEW n, OnStack(n), n # Top.id PROVE OnStack(n)'
    BY <1>2, <2>2 DEF Seen
  <2>4. PICK k \in 1..Len(stack) : stack[k].id = n
    BY <2>3 DEF OnStack
  <2>5. k \in 1..Len(Popped) /\ Popped[k].id = n
    BY <1>3, <2>3, <2>4 DEF Top
  <2>6. QED
    BY <1>2, <2>5 DEF OnStack
<1>11. QED
  BY <1>4, <1>7, <1>8, <1>9, <1>10 DEF IInv

LEMMA ReadDirIInv == IInv /\ ReadDir => IInv'
<1>1. SUFFICES ASSUME IInv, ReadDir PROVE IInv'
  OBVIOUS
<1>2. /\ TypeOK /\ stack # <<>> /\ stack' = Popped /\ Top.id \notin visited /\ at = 0
      /\ visited' = visited \cup {Top.id} /\ vol' = vol /\ out' = out
      /\ \/ vol[Top.id].listable /\ dir' = Top /\ at' = 1 /\ res' = res
         \/ res' = "err" /\ dir' = dir /\ at' = at
  BY <1>1 DEF IInv, ReadDir, Skipped
<1>3. /\ Top \in Item /\ Popped \in Seq(Item) /\ Len(Popped) = Len(stack) - 1
      /\ \A k \in 1..Len(Popped) : k \in 1..Len(stack) /\ Popped[k] = stack[k]
      /\ \A k \in 1..Len(stack) : k \in 1..Len(Popped) \/ k = Len(stack)
      /\ Len(stack) \in 1..Len(stack)
  BY <1>2, PopType
<1>4. Met(Top.id) /\ Top.depth <= Cardinality(visited) /\ Top.depth \in Nat
  BY <1>1, <1>3 DEF IInv, StackOK, Top, Item
<1>5. Top.id \in Node /\ vol[Top.id].entries \in Seq(DirEntry)
  BY <1>2, <1>4 DEF Met, Reachable, TypeOK, Volume
<1>6. TypeOK'
  BY <1>2, <1>3, <1>5 DEF TypeOK
<1>7. /\ Cardinality(visited) \in Nat /\ Cardinality(visited') = Cardinality(visited) + 1
  BY <1>2, VisitedFinite, FS_AddElement
<1>8. \A n : Returns(n)' <=> Returns(n)
  BY <1>2 DEF Returns
<1>9. \A n : Met(n) => Met(n)'
  BY <1>2, <1>8, MetKept
<1>10. StackOK'
  <2>1. SUFFICES ASSUME NEW k \in 1..Len(Popped)
                 PROVE  /\ \E n : n = Popped[k].id /\ Met(n)'
                        /\ Popped[k].depth <= Cardinality(visited')
    BY <1>2 DEF StackOK
  <2>2. Met(stack[k].id) /\ stack[k].depth <= Cardinality(visited) /\ Popped[k] = stack[k]
        /\ stack[k] \in Item
    BY <1>1, <1>2, <1>3 DEF IInv, StackOK, TypeOK
  <2>3. stack[k].depth \in Nat
    BY <2>2 DEF Item
  <2>4. \E n : n = Popped[k].id /\ Met(n)'
    BY <1>9, <2>2
  <2>5. QED
    BY <1>7, <2>2, <2>3, <2>4
<1>11. VisitedOK'
  <2>1. SUFFICES ASSUME NEW n \in visited' PROVE Met(n)'
    BY DEF VisitedOK
  <2>2. Met(n)
    BY <1>1, <1>2, <1>4, <2>1 DEF IInv, VisitedOK
  <2>3. QED
    BY <1>2, <1>8, <2>2, SameVolume DEF Met
<1>12. DirOK'
  <2>1. SUFFICES ASSUME at' > 0 PROVE DirOK'
    BY DEF DirOK
  <2>2. dir' = Top /\ at' = 1
    BY <1>2, <2>1
  <2>3. Entries' = vol[Top.id].entries
    BY <1>2, <2>2 DEF Entries
  <2>4. 1 <= Len(Entries') + 1
    BY <1>5, <2>3
  <2>5. Top.depth + 1 <= Cardinality(visited')
    BY <1>4, <1>7
  <2>6. QED
    BY <1>2, <2>2, <2>4, <2>5 DEF DirOK
<1>13. ListedOK'
  <2>1. SUFFICES ASSUME res' # "err", NEW n \in visited'
                 PROVE  /\ vol'[n].listable
                        /\ \A k \in 1..Len(vol'[n].entries) :
                             (at' > 0 /\ n = dir'.id => k < at') =>
                               \E e : e = vol'[n].entries[k] /\ EntryDone(e)'
    BY DEF ListedOK
  <2>2. /\ vol[Top.id].listable /\ dir' = Top /\ at' = 1 /\ res # "err"
    BY <1>2, <2>1
  <2>3. CASE n = Top.id
    BY <1>2, <2>2, <2>3
  <2>4. CASE n # Top.id
    <3>1. n \in visited
      BY <1>2, <2>1, <2>4
    <3>2. /\ vol[n].listable
          /\ \A k \in 1..Len(vol[n].entries) : EntryDone(vol[n].entries[k])
      BY <1>1, <1>2, <2>2, <3>1 DEF IInv, ListedOK
    <3>3. \A e : EntryDone(e) => EntryDone(e)'
      BY <1>2, <1>8 DEF EntryDone
    <3>4. QED
      BY <1>2, <3>2, <3>3
  <2>5. QED
    BY <2>3, <2>4
<1>14. SeenOK'
  <2>1. SUFFICES \A n : Seen(n) => Seen(n)'
    BY <1>1, <1>2, SameVolume DEF IInv, SeenOK
  <2>2. SUFFICES ASSUME NEW n, OnStack(n), n # Top.id PROVE OnStack(n)'
    BY <1>2 DEF Seen
  <2>3. PICK k \in 1..Len(stack) : stack[k].id = n
    BY <2>2 DEF OnStack
  <2>4. k \in 1..Len(Popped) /\ Popped[k].id = n
    BY <1>3, <2>2, <2>3 DEF Top
  <2>5. QED
    BY <1>2, <2>4 DEF OnStack
<1>15. QED
  BY <1>6, <1>10, <1>11, <1>12, <1>13, <1>14 DEF IInv

\* The node of the entry is returned, and listed later if it is a directory.
LEMMA EmitIInv == IInv /\ Emit => IInv'
<1>1. SUFFICES ASSUME IInv, Emit PROVE IInv'
  OBVIOUS
<1>2. /\ TypeOK /\ DirOK /\ AtEntry /\ Entry.id # Torn /\ Entry.name \notin Dots
      /\ vol[Entry.id].meta # "bad" /\ at > 0 /\ res = "running"
      /\ UNCHANGED <<vol, visited, dir, res>> /\ at' = at + 1
  BY <1>1 DEF IInv, Emit, AtEntry, Listing, Running, Fatal, Onward
<1> DEFINE item == [path |-> PathTo, id |-> Entry.id, depth |-> dir.depth + 1]
           isdir == vol[Entry.id].meta = "dir"
<1>3. out' = Append(out, [path |-> PathTo, id |-> Entry.id])
      /\ stack' = IF isdir THEN Append(stack, item) ELSE stack
  BY <1>1 DEF Emit, Pushed
<1>4. /\ Entry \in Named(dir.id) /\ Entry.id \in Node /\ Entry.name \in Name
      /\ at \in 1..Len(vol[dir.id].entries) /\ dir.id \in Node
  BY <1>2, EntryNamed
<1>5. /\ PathTo \in Seq(Name) /\ dir.depth \in Nat /\ at \in Nat
      /\ out \in Seq(Found) /\ stack \in Seq(Item)
  BY <1>2, <1>4 DEF TypeOK, Item, PathTo
<1>6. /\ item \in Item /\ [path |-> PathTo, id |-> Entry.id] \in Found
      /\ item.id = Entry.id /\ item.depth = dir.depth + 1
  BY <1>4, <1>5 DEF Item, Found
<1>7. PICK d : d = Entry.id
  OBVIOUS
<1> HIDE DEF item
<1>8. /\ out' \in Seq(Found) /\ Len(out') = Len(out) + 1 /\ Len(out) \in Nat
      /\ \A k \in 1..Len(out) : out'[k] = out[k]
      /\ out'[Len(out) + 1].id = d
  BY <1>3, <1>5, <1>6, <1>7
<1>9. /\ stack' \in Seq(Item) /\ Len(stack) \in Nat
      /\ \A k \in 1..Len(stack) : k \in 1..Len(stack') /\ stack'[k] = stack[k]
      /\ \A k \in 1..Len(stack') : k \in 1..Len(stack) \/ (isdir /\ stack'[k] = item)
      /\ isdir => Len(stack') = Len(stack) + 1 /\ stack'[Len(stack) + 1].id = d
  BY <1>3, <1>5, <1>6, <1>7
<1>10. TypeOK'
  BY <1>2, <1>5, <1>8, <1>9 DEF TypeOK
<1>11. Returns(d)' /\ \A n : Returns(n) => Returns(n)'
  <2>1. Len(out) + 1 \in DOMAIN out'
    BY <1>8
  <2>2. Returns(d)'
    BY <1>8, <2>1 DEF Returns
  <2>3. ASSUME NEW n, Returns(n) PROVE Returns(n)'
    <3>1. PICK k \in DOMAIN out : out[k].id = n
      BY <2>3 DEF Returns
    <3>2. k \in DOMAIN out' /\ out'[k] = out[k]
      BY <1>5, <1>8, <3>1
    <3>3. QED
      BY <3>1, <3>2 DEF Returns
  <2>4. QED
    BY <2>2, <2>3
<1>12. \A n : Met(n) => Met(n)'
  BY <1>2, <1>11, MetKept
<1>13. isdir => Met(d)'
  <2>1. Met(dir.id)
    BY <1>1, <1>2 DEF IInv, DirOK, VisitedOK
  <2>2. d \in Reachable
    BY <1>4, <1>7, <2>1, ReachableClosed DEF Met
  <2>3. isdir => IsDir(d)
    BY <1>7 DEF IsDir
  <2>4. QED
    BY <1>2, <1>11, <2>2, <2>3, SameVolume DEF Met
<1>14. StackOK'
  <2>1. SUFFICES ASSUME NEW k \in 1..Len(stack')
                 PROVE  /\ \E n : n = stack'[k].id /\ Met(n)'
                        /\ stack'[k].depth <= Cardinality(visited')
    BY DEF StackOK
  <2>2. CASE k \in 1..Len(stack)
    BY <1>1, <1>2, <1>9, <1>12, <2>2 DEF IInv, StackOK
  <2>3. CASE k \notin 1..Len(stack)
    <3>1. isdir /\ stack'[k] = item
      BY <1>9, <2>3
    <3>2. stack'[k].id = d /\ stack'[k].depth = dir.depth + 1
      BY <1>6, <1>7, <3>1
    <3>3. dir.depth + 1 <= Cardinality(visited')
      BY <1>2 DEF DirOK
    <3>4. QED
      BY <1>13, <3>1, <3>2, <3>3
  <2>4. QED
    BY <2>2, <2>3
<1>15. VisitedOK'
  BY <1>1, <1>2, <1>12 DEF IInv, VisitedOK
<1>16. DirOK'
  <2>1. Entries' = Entries /\ Len(Entries) \in Nat /\ at <= Len(Entries)
    BY <1>2, <1>4 DEF Entries, AtEntry, TypeOK, Volume
  <2>2. at + 1 <= Len(Entries) + 1
    BY <1>5, <2>1
  <2>3. QED
    BY <1>2, <2>1, <2>2 DEF DirOK
<1>17. ListedOK'
  <2>1. \A e : EntryDone(e) => EntryDone(e)'
    BY <1>2, <1>11 DEF EntryDone
  <2>2. PICK e : e = Entry
    OBVIOUS
  <2>3. EntryDone(e)'
    BY <1>2, <1>7, <1>11, <2>2 DEF EntryDone
  <2>4. SUFFICES ASSUME NEW n \in visited'
                 PROVE  /\ vol'[n].listable
                        /\ \A k \in 1..Len(vol'[n].entries) :
                             (at' > 0 /\ n = dir'.id => k < at') =>
                               \E x : x = vol'[n].entries[k] /\ EntryDone(x)'
    BY DEF ListedOK
  <2>5. /\ vol[n].listable
        /\ \A k \in 1..Len(vol[n].entries) :
             (n = dir.id => k < at) => EntryDone(vol[n].entries[k])
    BY <1>1, <1>2, <2>4 DEF IInv, ListedOK
  <2>6. ASSUME NEW k \in 1..Len(vol[n].entries), n = dir.id => k < at + 1
        PROVE  \E x : x = vol[n].entries[k] /\ EntryDone(x)'
    <3>1. CASE n = dir.id /\ k = at
      BY <2>2, <2>3, <3>1 DEF Entry, Entries
    <3>2. CASE n = dir.id => k # at
      <4>1. n = dir.id => k < at
        BY <1>5, <2>6, <3>2
      <4>2. QED
        BY <2>1, <2>5, <4>1
    <3>3. QED
      BY <3>1, <3>2
  <2>7. at' > 0 /\ visited' = visited
    BY <1>2, <1>5
  <2>8. QED
    BY <1>2, <2>5, <2>6, <2>7
<1>18. SeenOK'
  <2>1. SUFFICES ASSUME Few
                 PROVE  /\ Seen(Root)'
                        /\ \A k \in 1..Len(out') :
                             \E n : n = out'[k].id /\ (IsDir(n)' => Seen(n)')
    BY <1>2, SameVolume DEF SeenOK
  <2>2. \A n : Seen(n) => Seen(n)'
    BY <1>2, <1>9 DEF Seen, OnStack
  <2>3. Seen(Root)
    BY <1>1, <2>1 DEF IInv, SeenOK
  <2>4. IsDir(d) => Seen(d)'
    <3>1. CASE d = Root
      BY <2>2, <2>3, <3>1
    <3>2. CASE d # Root
      <4>1. SUFFICES ASSUME isdir PROVE OnStack(d)'
        BY <1>7, <3>2 DEF IsDir, Seen
      <4>2. Len(stack) + 1 \in 1..Len(stack') /\ stack'[Len(stack) + 1].id = d
        BY <1>9, <4>1
      <4>3. QED
        BY <4>2 DEF OnStack
    <3>3. QED
      BY <3>1, <3>2
  <2>5. ASSUME NEW k \in 1..Len(out') PROVE \E n : n = out'[k].id /\ (IsDir(n)' => Seen(n)')
    <3>1. CASE k \in 1..Len(out)
      BY <1>1, <1>2, <1>8, <2>1, <2>2, <3>1, SameVolume DEF IInv, SeenOK
    <3>2. CASE k \notin 1..Len(out)
      <4>1. k = Len(out) + 1
        BY <1>8, <2>5, <3>2
      <4>2. QED
        BY <1>2, <1>8, <2>4, <4>1, SameVolume
    <3>3. QED
      BY <3>1, <3>2
  <2>6. QED
    BY <2>2, <2>3, <2>5
<1>19. QED
  BY <1>10, <1>14, <1>15, <1>16, <1>17, <1>18 DEF IInv

\* A dot entry needs nothing but to be readable.
LEMMA SkipDotIInv == IInv /\ SkipDot => IInv'
<1>1. SUFFICES ASSUME IInv, SkipDot PROVE IInv'
  OBVIOUS
<1>2. /\ TypeOK /\ DirOK /\ ListedOK /\ at > 0 /\ AtEntry /\ res = "running"
      /\ Entry.id # Torn /\ Entry.name \in Dots /\ at' = at + 1
      /\ UNCHANGED <<vol, stack, visited, dir, out, res>>
  BY <1>1 DEF IInv, SkipDot, AtEntry, Listing, Running, Onward
<1>3. /\ dir.id \in visited /\ dir.id \in Node /\ at \in Nat
      /\ Entries \in Seq(DirEntry) /\ Len(Entries) \in Nat /\ at <= Len(Entries)
  BY <1>2 DEF TypeOK, DirOK, Entries, Volume, AtEntry
<1>4. TypeOK'
  BY <1>2, <1>3 DEF TypeOK
<1>5. DirOK'
  <2>1. Entries' = Entries /\ at + 1 <= Len(Entries) + 1
    BY <1>2, <1>3 DEF Entries
  <2>2. QED
    BY <1>2, <2>1 DEF DirOK
<1>6. ListedOK'
  <2>1. \A e : EntryDone(e) => EntryDone(e)'
    BY <1>2 DEF EntryDone, Returns
  <2>2. EntryDone(Entry)
    BY <1>2 DEF EntryDone
  <2>3. SUFFICES ASSUME NEW n \in visited', NEW k \in 1..Len(vol'[n].entries),
                        at' > 0 /\ n = dir'.id => k < at'
                 PROVE  /\ vol'[n].listable
                        /\ \E x : x = vol'[n].entries[k] /\ EntryDone(x)'
    <3>1. \A n \in visited' : vol'[n].listable
      BY <1>2 DEF ListedOK
    <3>2. QED
      BY <2>3, <3>1 DEF ListedOK
  <2>4. n \in visited /\ k \in 1..Len(vol[n].entries) /\ (n = dir.id => k < at + 1)
    BY <1>2, <1>3, <2>3
  <2>5. EntryDone(vol[n].entries[k]) /\ vol[n].listable
    <3>1. CASE n = dir.id /\ k = at
      BY <1>2, <2>2, <2>4, <3>1 DEF Entry, Entries, ListedOK
    <3>2. CASE ~(n = dir.id /\ k = at)
      <4>1. n = dir.id => k < at
        BY <1>3, <2>4, <3>2
      <4>2. QED
        BY <1>2, <2>4, <4>1 DEF ListedOK
    <3>3. QED
      BY <3>1, <3>2
  <2>6. QED
    BY <1>2, <2>1, <2>5
<1>7. QED
  BY <1>1, <1>2, <1>4, <1>5, <1>6, MoveOn

LEMMA NextIInv == IInv /\ [Next]_vars => IInv'
<1>1. SUFFICES ASSUME IInv, [Next]_vars PROVE IInv'
  OBVIOUS
<1>2. ASSUME UNCHANGED <<vol, stack, visited, dir, out>>, at' = at, res' \in {"err", res}
      PROVE  IInv'
  <2>1. TypeOK'
    BY <1>1, <1>2 DEF IInv, TypeOK
  <2>2. DirOK'
    BY <1>1, <1>2 DEF IInv, DirOK, Entries
  <2>3. ListedOK'
    BY <1>1, <1>2 DEF IInv, ListedOK, EntryDone, Returns
  <2>4. QED
    BY <1>1, <1>2, <2>1, <2>2, <2>3, MoveOn
<1>3. CASE UNCHANGED vars \/ Returned
  BY <1>2, <1>3 DEF vars, Returned
<1>4. CASE EntryFails \/ MetaFails
  BY <1>2, <1>4 DEF EntryFails, MetaFails
<1>5. CASE EndOfDir
  <2>1. /\ UNCHANGED <<vol, stack, visited, dir, out, res>> /\ at' = 0
        /\ at > Len(Entries) /\ at > 0 /\ TypeOK /\ at \in Nat
        /\ dir.id \in Node /\ Len(Entries) \in Nat
    BY <1>1, <1>5 DEF IInv, EndOfDir, Listing, TypeOK, Entries, Volume, DirOK
  <2>2. TypeOK' /\ DirOK'
    BY <2>1 DEF TypeOK, DirOK
  <2>3. \A k \in 1..Len(Entries) : k < at
    BY <2>1
  <2>4. ListedOK'
    BY <1>1, <2>1, <2>3 DEF IInv, ListedOK, EntryDone, Returns, Entries
  <2>5. QED
    BY <1>1, <2>1, <2>2, <2>4, MoveOn
<1>6. CASE Finish
  <2>1. /\ UNCHANGED <<vol, stack, visited, dir, at, out>> /\ res' = "ok" /\ res # "err"
    BY <1>6 DEF Finish, Running
  <2>2. TypeOK' /\ DirOK'
    BY <1>1, <2>1 DEF IInv, TypeOK, DirOK, Entries
  <2>3. ListedOK'
    BY <1>1, <2>1 DEF IInv, ListedOK, EntryDone, Returns
  <2>4. QED
    BY <1>1, <2>1, <2>2, <2>3, MoveOn
<1>7. QED
  BY <1>1, <1>3, <1>4, <1>5, <1>6, SkipIInv, ReadDirIInv, EmitIInv, SkipDotIInv DEF Next, Step

-----------------------------------------------------------------------------
(***************************************************************************)
(* Theorems                                                                *)
(***************************************************************************)

\* The walk returns only when there is nothing left to list.
Ended == res = "ok" => at = 0 /\ stack = <<>>

LEMMA NextEnded == Ended /\ [Next]_vars => Ended'
<1>1. SUFFICES ASSUME Ended, [Next]_vars PROVE Ended'
  OBVIOUS
<1>2. CASE UNCHANGED vars \/ Returned
  BY <1>1, <1>2 DEF vars, Returned, Ended
<1>3. CASE Finish
  BY <1>3 DEF Finish, Ended
<1>4. CASE Step /\ ~Finish
  <2>1. res = "running" /\ res' \in {res, "err"}
    BY <1>4 DEF Step, Skip, ReadDir, EntryFails, SkipDot, MetaFails, Emit, EndOfDir,
                AtEntry, Listing, Running
  <2>2. QED
    BY <2>1 DEF Ended
<1>5. QED
  BY <1>1, <1>2, <1>3, <1>4 DEF Next

\* What every reachable state of a walk satisfies.
THEOREM Invariance == Spec => [](IInv /\ Ended)
<1>1. Init => Ended
  BY DEF Init, Ended
<1>2. QED
  BY <1>1, InitIInv, NextIInv, NextEnded, PTL DEF Spec

\* The variables of the walk keep their types, for every filesystem.
THEOREM TypeCorrect == Spec => []TypeOK
<1>1. IInv => TypeOK
  BY DEF IInv
<1>2. QED
  BY <1>1, Invariance, PTL

\* The entries of a directory that was listed are readable and returned.
LEMMA EndLoud == IInv /\ Ended => Loud
<1>1. SUFFICES ASSUME IInv, Ended, res = "ok", NEW n \in visited,
                      NEW k \in DOMAIN vol[n].entries
               PROVE  /\ vol[n].listable
                      /\ EntryDone(vol[n].entries[k])
  <2>1. SUFFICES ASSUME IInv, Ended, res = "ok", NEW n \in visited
                 PROVE  vol[n].listable
    BY <1>1 DEF Loud, EntryDone
  <2>2. QED
    BY <2>1 DEF IInv, ListedOK
<1>2. vol[n].entries \in Seq(DirEntry)
  BY <1>1 DEF IInv, TypeOK, Volume
<1>3. k \in 1..Len(vol[n].entries) /\ at = 0
  BY <1>1, <1>2 DEF Ended
<1>4. QED
  BY <1>1, <1>3 DEF IInv, ListedOK

\* An Ok of walk hides no error: every directory it listed could be listed to its
\* last entry, and every node named there could be read and is returned.
THEOREM LoudErrors == Spec => []Loud
<1>1. QED
  BY EndLoud, Invariance, PTL

\* With nothing left to list, what was returned is closed under listing.
LEMMA EndComplete == IInv /\ Ended => Complete
<1>1. SUFFICES ASSUME IInv, Ended, res = "ok", Few, NEW n \in Reachable, n # Root
               PROVE  Returns(n)
  BY DEF Complete, Few
<1> DEFINE S == visited \cup {m \in Node : m = Root \/ Returns(m)}
<1>2. stack = <<>> /\ at = 0 /\ TypeOK
  BY <1>1 DEF Ended, IInv
<1>3. \A m : ~OnStack(m)
  BY <1>2 DEF OnStack
<1>4. \A m \in visited : m = Root \/ Returns(m)
  BY <1>1 DEF IInv, VisitedOK, Met
<1>5. \A m \in S : IsDir(m) => m \in visited
  <2>1. Root \in visited
    BY <1>1, <1>3 DEF IInv, SeenOK, Seen
  <2>2. ASSUME NEW m \in Node, Returns(m), IsDir(m) PROVE m \in visited
    <3>1. PICK k \in DOMAIN out : out[k].id = m
      BY <2>2 DEF Returns
    <3>2. k \in 1..Len(out)
      BY <1>2, <3>1 DEF TypeOK
    <3>3. QED
      BY <1>1, <1>3, <2>2, <3>1, <3>2 DEF IInv, SeenOK, Seen
  <2>3. QED
    BY <2>1, <2>2
<1>6. Closed(S)
  <2>1. SUFFICES ASSUME NEW m \in visited, NEW e \in Named(m), e.id \in Node
                 PROVE  Returns(e.id)
    BY <1>5 DEF Closed
  <2>2. PICK k \in DOMAIN vol[m].entries : e = vol[m].entries[k] /\ e.name \notin Dots
    BY <2>1 DEF Named
  <2>3. QED
    BY <1>1, <2>2, EndLoud DEF Loud
<1>7. S \in SUBSET Node /\ Root \in S
  BY <1>2, WalkAssumption DEF TypeOK
<1>8. n \in S
  BY <1>1, <1>6, <1>7 DEF Reachable
<1>9. QED
  BY <1>1, <1>4, <1>8

\* walk returns every node of a filesystem that has no more directories than the
\* depth cap lets nest, whatever loops and second parents they form.
THEOREM FullWalk == Spec => []Complete
<1>1. QED
  BY EndComplete, Invariance, PTL

-----------------------------------------------------------------------------
(***************************************************************************)
(* Paths                                                                   *)
(***************************************************************************)

Routes ==
  /\ PathsFaithful
  /\ at > 0 => Leads(dir.path, dir.id) /\ dir.depth = Len(dir.path)

\* The empty path leads to the root.
LEMMA LeadsRoot == Leads(<<>>, Root)
<1> DEFINE via == [k \in 1..1 |-> Root]
<1>1. via \in [1..(Len(<<>>) + 1) -> Node] /\ via[1] = Root /\ via[Len(<<>>) + 1] = Root
  BY WalkAssumption
<1>2. \A k \in 1..Len(<<>>) : FALSE
  OBVIOUS
<1> HIDE DEF via
<1>3. QED
  BY <1>1, <1>2 DEF Leads

\* One more name leads to the node it names.
LEMMA LeadsOn ==
  ASSUME NEW path \in Seq(Name), NEW n, Leads(path, n), IsDir(n),
         NEW e \in Named(n), e \in DirEntry, e.id \in Node
  PROVE  Leads(Append(path, e.name), e.id)
<1>1. PICK via \in [1..(Len(path) + 1) -> Node] :
        /\ via[1] = Root /\ via[Len(path) + 1] = n
        /\ \A k \in 1..Len(path) : /\ IsDir(via[k])
                                   /\ [name |-> path[k], id |-> via[k + 1]] \in Named(via[k])
  BY DEF Leads
<1> DEFINE len == Len(path)
           more == [k \in 1..(len + 2) |-> IF k <= len + 1 THEN via[k] ELSE e.id]
           longer == Append(path, e.name)
<1>2. len \in Nat /\ e.name \in Name
  BY DEF DirEntry
<1>3. Len(longer) = len + 1 /\ longer[len + 1] = e.name /\ \A k \in 1..len : longer[k] = path[k]
  BY <1>2
<1>4. more \in [1..(len + 2) -> Node]
  BY <1>1, <1>2
<1>5. more[len + 2] = e.id /\ \A k \in 1..(len + 1) : more[k] = via[k]
  BY <1>2
<1>6. more[1] = Root /\ more[len + 1] = n
  BY <1>1, <1>2, <1>5
<1>7. [name |-> e.name, id |-> e.id] = e
  BY DEF DirEntry
<1> HIDE DEF more, longer, len
<1>8. ASSUME NEW k \in 1..(len + 1)
      PROVE  IsDir(more[k]) /\ [name |-> longer[k], id |-> more[k + 1]] \in Named(more[k])
  <2>1. CASE k = len + 1
    <3>1. k + 1 = len + 2
      BY <1>2, <2>1
    <3>2. more[k] = n /\ longer[k] = e.name /\ more[k + 1] = e.id
      BY <1>3, <1>5, <1>6, <2>1, <3>1
    <3>3. QED
      BY <1>7, <3>2
  <2>2. CASE k # len + 1
    <3>1. k \in 1..len /\ k + 1 \in 1..(len + 1) /\ k \in 1..(len + 1)
      BY <1>2, <1>8, <2>2
    <3>2. more[k] = via[k] /\ more[k + 1] = via[k + 1] /\ longer[k] = path[k]
      BY <1>3, <1>5, <3>1
    <3>3. QED
      BY <1>1, <3>1, <3>2 DEF len
  <2>3. QED
    BY <2>1, <2>2
<1>9. Len(longer) + 1 = len + 2
  BY <1>2, <1>3
<1>10. Leads(longer, e.id)
  BY <1>3, <1>4, <1>5, <1>6, <1>8, <1>9 DEF Leads
<1>11. QED
  BY <1>10 DEF longer

LEMMA InitRoutes == Init => Routes
<1>1. SUFFICES ASSUME Init PROVE Routes
  OBVIOUS
<1>2. stack = <<[path |-> <<>>, id |-> Root, depth |-> 0]>> /\ out = <<>> /\ at = 0
  BY <1>1 DEF Init
<1>3. DOMAIN stack = {1} /\ stack[1].path = <<>> /\ stack[1].id = Root
      /\ stack[1].depth = Len(stack[1].path)
  BY <1>2
<1>4. DOMAIN out = {}
  BY <1>2
<1>5. QED
  BY <1>2, <1>3, <1>4, LeadsRoot DEF Routes, PathsFaithful

\* The volume does not change, and so paths lead where they led.
LEMMA SameLeads ==
  ASSUME vol' = vol PROVE \A path, n : Leads(path, n)' <=> Leads(path, n)
BY SameVolume DEF Leads

LEMMA NextRoutes == IInv /\ Routes /\ [Next]_vars => Routes'
<1>1. SUFFICES ASSUME IInv, Routes, [Next]_vars PROVE Routes'
  OBVIOUS
<1>2. TypeOK /\ vol' = vol
  BY <1>1 DEF IInv, Next, Step, Skip, ReadDir, EntryFails, SkipDot, MetaFails, Emit, EndOfDir,
              Finish, Returned, vars
<1>3. \A path, n : Leads(path, n)' <=> Leads(path, n)
  BY <1>2, SameLeads
<1>4. CASE Skip \/ ReadDir
  <2>1. stack # <<>> /\ stack' = Popped /\ out' = out
        /\ (dir' = Top \/ (dir' = dir /\ at' = at)) /\ at = 0
    BY <1>4 DEF Skip, ReadDir
  <2>2. /\ Popped \in Seq(Item) /\ Len(stack) \in 1..Len(stack)
        /\ \A k \in 1..Len(Popped) : k \in 1..Len(stack) /\ Popped[k] = stack[k]
    BY <1>2, <2>1, PopType
  <2>3. \A k \in DOMAIN stack' : k \in DOMAIN stack /\ stack'[k] = stack[k]
    BY <1>2, <2>1, <2>2 DEF TypeOK
  <2>4. PathsFaithful'
    <3>1. \A k \in DOMAIN stack' : /\ \E p, n : p = stack'[k].path /\ n = stack'[k].id /\ Leads(p, n)'
                                   /\ stack'[k].depth = Len(stack'[k].path)
      BY <1>1, <1>3, <2>3 DEF Routes, PathsFaithful
    <3>2. \A k \in DOMAIN out' : \E p, n : p = out'[k].path /\ n = out'[k].id /\ Leads(p, n)'
      BY <1>1, <1>3, <2>1 DEF Routes, PathsFaithful
    <3>3. QED
      BY <3>1, <3>2 DEF PathsFaithful
  <2>5. Len(stack) \in DOMAIN stack
    BY <1>2, <2>2 DEF TypeOK
  <2>6. at' > 0 => /\ \E p, n : p = dir'.path /\ n = dir'.id /\ Leads(p, n)'
                   /\ dir'.depth = Len(dir'.path)
    BY <1>1, <1>3, <2>1, <2>5 DEF Routes, PathsFaithful, Top
  <2>7. QED
    BY <2>4, <2>6 DEF Routes
<1>5. CASE Emit
  <2>1. /\ DirOK /\ VisitedOK /\ AtEntry /\ Entry.id # Torn /\ Entry.name \notin Dots /\ at > 0
        /\ dir' = dir
        /\ out' = Append(out, [path |-> PathTo, id |-> Entry.id])
        /\ \/ stack' = stack
           \/ stack' = Append(stack, [path |-> PathTo, id |-> Entry.id, depth |-> dir.depth + 1])
    BY <1>1, <1>5 DEF IInv, Emit, AtEntry, Listing, Pushed
  <2>2. /\ Entry \in Named(dir.id) /\ Entry.id \in Node /\ Entry.name \in Name
        /\ Entry \in DirEntry
    <3>1. /\ Entry \in Named(dir.id) /\ Entry.id \in Node /\ Entry.name \in Name
          /\ at \in 1..Len(vol[dir.id].entries) /\ dir.id \in Node
      BY <1>2, <2>1, EntryNamed
    <3>2. vol[dir.id].entries \in Seq(DirEntry)
      BY <1>2, <3>1 DEF TypeOK, Volume
    <3>3. QED
      BY <3>1, <3>2 DEF Entry, Entries
  <2>3. dir.path \in Seq(Name) /\ Leads(dir.path, dir.id) /\ IsDir(dir.id)
        /\ dir.depth = Len(dir.path)
    BY <1>1, <1>2, <2>1 DEF TypeOK, Item, Routes, DirOK, VisitedOK, Met
  <2>4. PICK p, n : p = PathTo /\ n = Entry.id
    OBVIOUS
  <2>5. Leads(p, n)' /\ Len(p) = dir.depth + 1 /\ p \in Seq(Name)
    <3>1. Leads(p, n)
      BY <2>2, <2>3, <2>4, LeadsOn DEF PathTo
    <3>2. QED
      BY <1>3, <2>2, <2>3, <2>4, <3>1 DEF PathTo
  <2>6. \A k \in DOMAIN out' : \E q, m : q = out'[k].path /\ m = out'[k].id /\ Leads(q, m)'
    <3>1. out \in Seq(Found) /\ [path |-> p, id |-> n] \in Found
      BY <1>2, <2>2, <2>4, <2>5 DEF TypeOK, Found
    <3>2. SUFFICES ASSUME NEW k \in DOMAIN out'
                   PROVE  \/ k \in DOMAIN out /\ out'[k] = out[k]
                          \/ out'[k] = [path |-> p, id |-> n]
      BY <1>1, <1>3, <2>5 DEF Routes, PathsFaithful
    <3>3. QED
      BY <2>1, <2>4, <3>1
  <2>7. \A k \in DOMAIN stack' : /\ \E q, m : q = stack'[k].path /\ m = stack'[k].id /\ Leads(q, m)'
                                 /\ stack'[k].depth = Len(stack'[k].path)
    <3> DEFINE item == [path |-> p, id |-> n, depth |-> dir.depth + 1]
    <3>1. stack \in Seq(Item) /\ item \in Item
      BY <1>2, <2>2, <2>3, <2>4, <2>5 DEF TypeOK, Item
    <3>2. item.path = p /\ item.id = n /\ item.depth = Len(item.path)
      BY <2>5
    <3>3. stack' = stack \/ stack' = Append(stack, item)
      BY <2>1, <2>4
    <3> HIDE DEF item
    <3>4. SUFFICES ASSUME NEW k \in DOMAIN stack'
                   PROVE  \/ k \in DOMAIN stack /\ stack'[k] = stack[k]
                          \/ stack'[k] = item
      BY <1>1, <1>3, <2>5, <3>2 DEF Routes, PathsFaithful
    <3>5. QED
      BY <3>1, <3>3
  <2>8. \E q, m : q = dir'.path /\ m = dir'.id /\ Leads(q, m)' /\ dir'.depth = Len(q)
    BY <1>3, <2>1, <2>3
  <2>9. QED
    BY <2>6, <2>7, <2>8 DEF Routes, PathsFaithful
<1>6. CASE UNCHANGED <<stack, out, dir>> /\ (at' > 0 => at > 0)
  BY <1>1, <1>3, <1>6 DEF Routes, PathsFaithful
<1>7. CASE EntryFails \/ MetaFails \/ EndOfDir \/ Finish \/ Returned \/ UNCHANGED vars
  BY <1>6, <1>7 DEF EntryFails, MetaFails, EndOfDir, Finish, Returned, vars
<1>8. CASE SkipDot
  BY <1>6, <1>8 DEF SkipDot, AtEntry, Listing
<1>9. QED
  BY <1>1, <1>4, <1>5, <1>7, <1>8 DEF Next, Step

\* The path of a WalkEntry leads from the root to its node.
THEOREM PathsLead == Spec => []PathsFaithful
<1>1. Spec => []Routes
  BY InitRoutes, NextRoutes, Invariance, PTL DEF Spec
<1>2. Routes => PathsFaithful
  BY DEF Routes
<1>3. QED
  BY <1>1, <1>2, PTL

-----------------------------------------------------------------------------
(***************************************************************************)
(* Paths                                                                   *)
(***************************************************************************)

\* A non-empty set of numbers has a least one.
LEMMA Least ==
  ASSUME NEW S \in SUBSET Nat, NEW n \in S
  PROVE  \E m \in S : \A j \in S : m <= j
<1>1. IsWellFoundedOn(OpToRel(<, Nat), Nat)
  BY NatLessThanWellFounded
<1>2. PICK m \in S : \A j \in Nat : <<j, m>> \in OpToRel(<, Nat) => j \notin S
  BY <1>1, WFMin
<1>3. ASSUME NEW j \in S PROVE m <= j
  <2>1. ~(j < m)
    BY <1>2 DEF OpToRel
  <2>2. QED
    BY <2>1
<1>4. QED
  BY <1>3

Front(path) == SubSeq(path, 1, Len(path) - 1)

Final(path) == path[Len(path)]

LEMMA FrontIs ==
  ASSUME NEW path \in Seq(Name), Len(path) > 0
  PROVE  /\ Front(path) \in Seq(Name) /\ Len(Front(path)) = Len(path) - 1
         /\ \A k \in 1..(Len(path) - 1) : Front(path)[k] = path[k]
         /\ Final(path) \in Name
<1>1. Len(path) \in Nat /\ Len(path) \in 1..Len(path)
  OBVIOUS
<1>2. 1 \in Int /\ Len(path) - 1 \in Int /\ \A k \in 1..(Len(path) - 1) : path[k] \in Name
  BY <1>1
<1>3. /\ Front(path) \in Seq(Name)
      /\ Len(Front(path)) = IF 1 <= Len(path) - 1 THEN Len(path) - 1 - 1 + 1 ELSE 0
      /\ \A k \in 1..(Len(path) - 1 - 1 + 1) : Front(path)[k] = path[1 + k - 1]
  BY <1>2, SubSeqProperties DEF Front
<1>4. Len(Front(path)) = Len(path) - 1
  <2> DEFINE len == Len(path)
             less == Len(Front(path))
  <2>1. len \in Nat /\ len > 0 /\ less = IF 1 <= len - 1 THEN len - 1 - 1 + 1 ELSE 0
    BY <1>1, <1>3
  <2> HIDE DEF len, less
  <2>2. less = len - 1
    BY <2>1
  <2>3. QED
    BY <2>2 DEF len, less
<1>5. Final(path) \in Name
  BY <1>1 DEF Final
<1>6. ASSUME NEW k \in 1..(Len(path) - 1) PROVE Front(path)[k] = path[k]
  <2>1. k \in 1..(Len(path) - 1 - 1 + 1) /\ 1 + k - 1 = k
    BY <1>1
  <2>2. QED
    BY <1>3, <2>1
<1>7. QED
  BY <1>3, <1>4, <1>5, <1>6

LEMMA FrontOfAppend ==
  ASSUME NEW path \in Seq(Name), NEW x \in Name
  PROVE  /\ Front(Append(path, x)) = path /\ Final(Append(path, x)) = x
         /\ Append(path, x) \in Seq(Name) /\ Len(Append(path, x)) = Len(path) + 1
<1> DEFINE p == Append(path, x)
<1>1. p \in Seq(Name) /\ Len(p) = Len(path) + 1 /\ p[Len(path) + 1] = x
      /\ \A k \in 1..Len(path) : p[k] = path[k]
  OBVIOUS
<1> HIDE DEF p
<1>2. /\ Front(p) \in Seq(Name) /\ Len(Front(p)) = Len(path)
      /\ \A k \in 1..Len(path) : Front(p)[k] = p[k]
  <2>1. Len(p) > 0 /\ Len(p) - 1 = Len(path)
    BY <1>1
  <2>2. /\ Front(p) \in Seq(Name) /\ Len(Front(p)) = Len(p) - 1
        /\ \A k \in 1..(Len(p) - 1) : Front(p)[k] = p[k]
    BY <1>1, <2>1, FrontIs
  <2>3. QED
    BY <2>1, <2>2
<1>3. Front(p) = path
  BY <1>1, <1>2, SeqEqual
<1>4. QED
  BY <1>1, <1>3 DEF p, Final

\* Only the root is at the end of the empty path.
LEMMA LeadsNowhere == ASSUME NEW n, NEW path \in Seq(Name), Len(path) = 0, Leads(path, n) PROVE n = Root
<1>1. PICK via \in [1..(Len(path) + 1) -> Node] : via[1] = Root /\ via[Len(path) + 1] = n
  BY DEF Leads
<1>2. QED
  BY <1>1

\* The last name of a path is an entry of the directory the rest leads to.
LEMMA LeadsBack ==
  ASSUME NEW path \in Seq(Name), Len(path) > 0, NEW n, Leads(path, n)
  PROVE  \E m \in Node : /\ Leads(Front(path), m) /\ IsDir(m)
                         /\ [name |-> Final(path), id |-> n] \in Named(m)
<1>1. PICK via \in [1..(Len(path) + 1) -> Node] :
        /\ via[1] = Root /\ via[Len(path) + 1] = n
        /\ \A k \in 1..Len(path) : /\ IsDir(via[k])
                                   /\ [name |-> path[k], id |-> via[k + 1]] \in Named(via[k])
  BY DEF Leads
<1> DEFINE len == Len(path)
           f == Front(path)
           less == [k \in 1..len |-> via[k]]
<1>2. len \in Nat /\ len \in 1..len /\ Len(f) + 1 = len /\ f \in Seq(Name)
      /\ \A k \in 1..(len - 1) : f[k] = path[k]
  BY FrontIs
<1>3. less \in [1..len -> Node] /\ \A k \in 1..len : less[k] = via[k]
  BY <1>1
<1> HIDE DEF len, f, less
<1>4. less[1] = Root /\ via[len] \in Node /\ less[len] = via[len]
  BY <1>1, <1>2, <1>3
<1>5. ASSUME NEW k \in 1..Len(f)
      PROVE  IsDir(less[k]) /\ [name |-> f[k], id |-> less[k + 1]] \in Named(less[k])
  <2>1. k \in 1..(len - 1) /\ k \in 1..len /\ k + 1 \in 1..len
    BY <1>2
  <2>2. less[k] = via[k] /\ less[k + 1] = via[k + 1] /\ f[k] = path[k]
    BY <1>2, <1>3, <2>1
  <2>3. QED
    BY <1>1, <2>1, <2>2 DEF len
<1>6. Leads(f, via[len])
  BY <1>2, <1>3, <1>4, <1>5 DEF Leads
<1>7. IsDir(via[len]) /\ [name |-> Final(path), id |-> n] \in Named(via[len])
  BY <1>1, <1>2 DEF len, Final
<1>8. QED
  BY <1>4, <1>6, <1>7 DEF f

\* Where a path leads can be reached.
LEMMA LeadsReach ==
  ASSUME NEW path \in Seq(Name), NEW n \in Node, Leads(path, n)
  PROVE  n \in Reachable
<1> DEFINE Far(l) == \E p \in Seq(Name) : \E m \in Node : Len(p) = l /\ Leads(p, m) /\ m \notin Reachable
           S == {l \in Nat : Far(l)}
<1>1. SUFFICES ASSUME n \notin Reachable PROVE FALSE
  OBVIOUS
<1>2. Len(path) \in S
  BY <1>1
<1>3. PICK l \in S : \A j \in S : l <= j
  <2>1. S \in SUBSET Nat
    OBVIOUS
  <2>2. QED
    BY <1>2, <2>1, Least
<1>4. PICK p \in Seq(Name), m \in Node : Len(p) = l /\ Leads(p, m) /\ m \notin Reachable
  BY <1>3
<1>5. l # 0
  BY <1>4, LeadsNowhere, ReachableClosed
<1>6. l \in Nat /\ l > 0
  BY <1>3, <1>5
<1>7. PICK d \in Node : Leads(Front(p), d) /\ IsDir(d) /\ [name |-> Final(p), id |-> m] \in Named(d)
  BY <1>4, <1>6, LeadsBack
<1>8. Front(p) \in Seq(Name) /\ Len(Front(p)) = l - 1
  BY <1>4, <1>6, FrontIs
<1>9. d \in Reachable
  <2>1. SUFFICES ASSUME d \notin Reachable PROVE FALSE
    OBVIOUS
  <2>2. Far(l - 1)
    BY <1>7, <1>8, <2>1
  <2>3. l - 1 \in S /\ ~(l <= l - 1)
    BY <1>6, <2>2
  <2>4. QED
    BY <1>3, <2>3
<1>10. m \in Reachable
  BY <1>4, <1>7, <1>9, ReachableClosed
<1>11. QED
  BY <1>4, <1>10

\* In a directory whose entries have names of their own, dots aside, one name is
\* one entry.
Distinct(v) ==
  \A n \in Node : \A i, j \in 1..Len(v[n].entries) :
    v[n].entries[i].name = v[n].entries[j].name /\ v[n].entries[i].name \notin Dots => i = j

LEMMA NamedOnce ==
  ASSUME TypeOK, Distinct(vol), NEW n \in Node, NEW d \in Named(n), NEW e \in Named(n), d.name = e.name
  PROVE  d = e
<1>1. vol[n].entries \in Seq(DirEntry)
  BY DEF TypeOK, Volume
<1>2. PICK i \in 1..Len(vol[n].entries) : d = vol[n].entries[i] /\ d.name \notin Dots
  BY <1>1 DEF Named
<1>3. PICK j \in 1..Len(vol[n].entries) : e = vol[n].entries[j]
  BY <1>1 DEF Named
<1>4. i = j
  BY <1>2, <1>3 DEF Distinct
<1>5. QED
  BY <1>2, <1>3, <1>4

\* There a path leads to one node.
LEMMA LeadsOnce ==
  ASSUME TypeOK, Distinct(vol), NEW path \in Seq(Name), NEW m \in Node, NEW n \in Node,
         Leads(path, m), Leads(path, n)
  PROVE  m = n
<1> DEFINE Forks(l) == \E p \in Seq(Name) : \E a, b \in Node :
                         Len(p) = l /\ Leads(p, a) /\ Leads(p, b) /\ a # b
           S == {l \in Nat : Forks(l)}
<1>1. SUFFICES ASSUME m # n PROVE FALSE
  OBVIOUS
<1>2. Len(path) \in S
  BY <1>1
<1>3. PICK l \in S : \A j \in S : l <= j
  <2>1. S \in SUBSET Nat
    OBVIOUS
  <2>2. QED
    BY <1>2, <2>1, Least
<1>4. PICK p \in Seq(Name), a \in Node, b \in Node :
        Len(p) = l /\ Leads(p, a) /\ Leads(p, b) /\ a # b
  BY <1>3
<1>5. l # 0
  BY <1>4, LeadsNowhere
<1>6. l \in Nat /\ l > 0
  BY <1>3, <1>5
<1>7. PICK c \in Node : Leads(Front(p), c) /\ [name |-> Final(p), id |-> a] \in Named(c)
  BY <1>4, <1>6, LeadsBack
<1>8. PICK d \in Node : Leads(Front(p), d) /\ [name |-> Final(p), id |-> b] \in Named(d)
  BY <1>4, <1>6, LeadsBack
<1>9. Front(p) \in Seq(Name) /\ Len(Front(p)) = l - 1
  BY <1>4, <1>6, FrontIs
<1>10. c = d
  <2>1. SUFFICES ASSUME c # d PROVE FALSE
    OBVIOUS
  <2>2. Forks(l - 1)
    BY <1>7, <1>8, <1>9, <2>1
  <2>3. l - 1 \in S /\ ~(l <= l - 1)
    BY <1>6, <2>2
  <2>4. QED
    BY <1>3, <2>3
<1>11. [name |-> Final(p), id |-> a] = [name |-> Final(p), id |-> b]
  BY <1>7, <1>8, <1>10, NamedOnce
<1>12. QED
  BY <1>4, <1>11

\* In a tree there is no way to the root, and one directory above any other.
LEMMA OneParent ==
  ASSUME TypeOK, Tree, NEW m \in Reachable, IsDir(m), NEW d \in Named(m), d.id \in Reachable, IsDir(d.id)
  PROVE  /\ d.id # Root
         /\ \A n \in Reachable : IsDir(n) => \A e \in Named(n) : e.id = d.id => n = m
<1> DEFINE dirs == {n \in Reachable : IsDir(n)}
           all == UNION {{<<n, k>> : k \in DOMAIN vol[n].entries} : n \in dirs}
           Goes(l) == vol[l[1]].entries[l[2]]
           links == {l \in all : Goes(l).name \notin Dots /\ Goes(l).id \in dirs}
<1>1. \A l \in links : /\ Goes(l).id # Root
                        /\ \A k \in links : Goes(k).id = Goes(l).id => k = l
  BY DEF Tree
<1>2. ASSUME NEW n \in Reachable, IsDir(n), NEW e \in Named(n), e.id = d.id
      PROVE  \E k : <<n, k>> \in links /\ Goes(<<n, k>>) = e
  <2>1. PICK k \in DOMAIN vol[n].entries : e = vol[n].entries[k] /\ e.name \notin Dots
    BY DEF Named
  <2>2. <<n, k>> \in all
    BY <1>2, <2>1
  <2>3. Goes(<<n, k>>) = e /\ e.id \in dirs
    BY <1>2, <2>1
  <2>4. QED
    BY <2>1, <2>2, <2>3
<1>3. PICK k : <<m, k>> \in links /\ Goes(<<m, k>>) = d
  BY <1>2
<1>4. d.id # Root
  BY <1>1, <1>3
<1>5. ASSUME NEW n \in Reachable, IsDir(n), NEW e \in Named(n), e.id = d.id PROVE n = m
  <2>1. PICK j : <<n, j>> \in links /\ Goes(<<n, j>>) = e
    BY <1>2, <1>5
  <2>2. <<n, j>> = <<m, k>>
    BY <1>1, <1>3, <1>5, <2>1
  <2>3. QED
    BY <2>2
<1>6. QED
  BY <1>4, <1>5

\* There all paths to a directory have one length.
LEMMA OneLength ==
  ASSUME TypeOK, Tree, NEW p \in Seq(Name), NEW q \in Seq(Name), NEW n \in Node, IsDir(n),
         Leads(p, n), Leads(q, n)
  PROVE  Len(p) = Len(q)
<1> DEFINE Differ(l) == \E a, b \in Seq(Name) : \E m \in Node :
                          /\ Len(a) = l /\ Len(b) # l /\ IsDir(m)
                          /\ Leads(a, m) /\ Leads(b, m)
           S == {l \in Nat : Differ(l)}
<1>1. SUFFICES ASSUME Len(p) # Len(q) PROVE FALSE
  OBVIOUS
<1>2. Len(p) \in S
  BY <1>1
<1>3. PICK l \in S : \A j \in S : l <= j
  <2>1. S \in SUBSET Nat
    OBVIOUS
  <2>2. QED
    BY <1>2, <2>1, Least
<1>4. PICK a \in Seq(Name), b \in Seq(Name), m \in Node :
        Len(a) = l /\ Len(b) # l /\ IsDir(m) /\ Leads(a, m) /\ Leads(b, m)
  BY <1>3
<1>5. l \in Nat /\ Len(b) \in Nat
  BY <1>3
<1>6. m \in Reachable
  BY <1>4, LeadsReach
<1>7. ASSUME NEW path \in Seq(Name), Leads(path, m), Len(path) > 0
      PROVE  /\ m # Root
             /\ \E d \in Node : /\ Leads(Front(path), d) /\ IsDir(d) /\ d \in Reachable
                               /\ \E e \in Named(d) : e.id = m
  <2>1. PICK d \in Node : Leads(Front(path), d) /\ IsDir(d) /\ [name |-> Final(path), id |-> m] \in Named(d)
    BY <1>7, LeadsBack
  <2>2. Front(path) \in Seq(Name)
    BY <1>7, FrontIs
  <2>3. d \in Reachable
    BY <2>1, <2>2, LeadsReach
  <2>4. [name |-> Final(path), id |-> m].id = m
    OBVIOUS
  <2>5. m # Root
    BY <1>4, <1>6, <2>1, <2>3, <2>4, OneParent
  <2>6. QED
    BY <2>1, <2>3, <2>4, <2>5
<1>8. l > 0 /\ Len(b) > 0
  <2>1. l = 0 => m = Root
    BY <1>4, LeadsNowhere
  <2>2. Len(b) = 0 => m = Root
    BY <1>4, LeadsNowhere
  <2>3. QED
    BY <1>4, <1>5, <1>7, <2>1, <2>2
<1>9. PICK c \in Node : /\ Leads(Front(a), c) /\ IsDir(c) /\ c \in Reachable
                        /\ \E e \in Named(c) : e.id = m
  BY <1>4, <1>7, <1>8
<1>10. PICK d \in Node : /\ Leads(Front(b), d) /\ IsDir(d) /\ d \in Reachable
                         /\ \E e \in Named(d) : e.id = m
  BY <1>4, <1>7, <1>8
<1>11. c = d
  BY <1>4, <1>6, <1>9, <1>10, OneParent
<1>12. /\ Front(a) \in Seq(Name) /\ Len(Front(a)) = l - 1
       /\ Front(b) \in Seq(Name) /\ Len(Front(b)) = Len(b) - 1
  BY <1>4, <1>8, FrontIs
<1>13. Len(Front(b)) # l - 1
  BY <1>4, <1>5, <1>12
<1>14. Differ(l - 1)
  BY <1>9, <1>10, <1>11, <1>12, <1>13
<1>15. l - 1 \in S /\ ~(l <= l - 1)
  BY <1>5, <1>8, <1>14
<1>16. QED
  BY <1>3, <1>15

-----------------------------------------------------------------------------
(***************************************************************************)
(* No directory of a tree is forgotten                                     *)
(***************************************************************************)

\* All paths to a node are longer than the cap.
Deep(n) == \A path \in Seq(Name) : Leads(path, n) => Len(path) > DepthCap

\* The directories named by the entries the walk is through with.
Through(n, k) == (at > 0 /\ n = dir.id) => k < at

Branches(n) ==
  \A k \in 1..Len(vol[n].entries) :
    LET e == vol[n].entries[k]
    IN  Through(n, k) /\ e.name \notin Dots /\ e.id \in Node /\ IsDir(e.id) => Seen(e.id) \/ Deep(e.id)

TreeOK ==
  Tree /\ res # "err" => Seen(Root) /\ \A n \in visited : Branches(n)

\* Tree, of a filesystem and what can be reached on it.
TreeOf(v, reachable) ==
  LET dirs  == {n \in reachable : n = Root \/ v[n].meta = "dir"}
      all   == UNION {{<<n, k>> : k \in DOMAIN v[n].entries} : n \in dirs}
      Goes(l) == v[l[1]].entries[l[2]]
      links == {l \in all : Goes(l).name \notin Dots /\ Goes(l).id \in dirs}
  IN  \A l \in links : /\ Goes(l).id # Root
                       /\ \A m \in links : Goes(m).id = Goes(l).id => m = l

LEMMA SameTree == ASSUME vol' = vol PROVE (Tree' <=> Tree) /\ \A n : Deep(n)' = Deep(n)
<1>1. \A path, n : Leads(path, n)' <=> Leads(path, n)
  BY SameLeads
<1>2. \A n : Deep(n)' = Deep(n)
  BY <1>1 DEF Deep
<1>3. Reachable' = Reachable
  BY SameVolume
<1>4. (Tree <=> TreeOf(vol, Reachable)) /\ (Tree' <=> TreeOf(vol', Reachable'))
  <2>1. Tree <=> TreeOf(vol, Reachable)
    BY Zenon DEF Tree, TreeOf, IsDir
  <2>2. Tree' <=> TreeOf(vol', Reachable')
    BY Zenon DEF Tree, TreeOf, IsDir
  <2>3. QED
    BY <2>1, <2>2
<1>5. Tree' <=> Tree
  BY <1>3, <1>4
<1>6. QED
  BY <1>2, <1>5

LEMMA RootNotDeep == ~Deep(Root)
<1>1. <<>> \in Seq(Name) /\ Len(<<>>) = 0
  OBVIOUS
<1>2. Deep(Root) => Len(<<>>) > DepthCap
  BY <1>1, LeadsRoot DEF Deep
<1>3. ~(Len(<<>>) > DepthCap)
  BY <1>1, WalkAssumption
<1>4. QED
  BY <1>2, <1>3

\* What is skipped and was not listed is too deep.
LEMMA SkipKeeps ==
  ASSUME TypeOK, PathsFaithful, Tree, Skip, NEW n \in Node, IsDir(n), Seen(n)
  PROVE  Seen(n)' \/ Deep(n)
<1>1. stack # <<>> /\ stack' = Popped /\ visited' = visited /\ Skipped
  BY DEF Skip
<1>2. SUFFICES ASSUME n \notin visited, OnStack(n) PROVE OnStack(n)' \/ Deep(n)
  BY <1>1 DEF Seen
<1>3. PICK k \in 1..Len(stack) : stack[k].id = n
  BY <1>2 DEF OnStack
<1>4. /\ Top \in Item /\ Len(Popped) = Len(stack) - 1
      /\ \A j \in 1..Len(Popped) : j \in 1..Len(stack) /\ Popped[j] = stack[j]
      /\ \A j \in 1..Len(stack) : j \in 1..Len(Popped) \/ j = Len(stack)
      /\ Len(stack) \in 1..Len(stack)
  BY <1>1, PopType
<1>5. CASE k \in 1..Len(Popped)
  BY <1>1, <1>3, <1>4, <1>5 DEF OnStack
<1>6. CASE k = Len(stack)
  <2>1. n = Top.id /\ Top.depth > DepthCap
    BY <1>1, <1>2, <1>3, <1>6 DEF Skipped, Top
  <2>2. Leads(Top.path, n) /\ Top.depth = Len(Top.path) /\ Top.path \in Seq(Name)
    <3>1. Len(stack) \in DOMAIN stack
      BY <1>4 DEF TypeOK
    <3>2. QED
      BY <1>4, <2>1, <3>1 DEF PathsFaithful, Top, Item
  <2>3. ASSUME NEW path \in Seq(Name), Leads(path, n) PROVE Len(path) > DepthCap
    <3>1. Len(path) = Len(Top.path)
      BY <2>2, <2>3, OneLength
    <3>2. QED
      BY <2>1, <2>2, <3>1
  <2>4. QED
    BY <2>3 DEF Deep
<1>7. QED
  BY <1>3, <1>4, <1>5, <1>6

\* Every other step leaves what was seen seen.
LEMMA ReadDirKeeps == ASSUME TypeOK, ReadDir, NEW n, Seen(n) PROVE Seen(n)'
<1>1. stack # <<>> /\ stack' = Popped /\ visited' = visited \cup {Top.id}
  BY DEF ReadDir
<1>2. SUFFICES ASSUME OnStack(n), n # Top.id PROVE OnStack(n)'
  BY <1>1 DEF Seen
<1>3. PICK k \in 1..Len(stack) : stack[k].id = n
  BY <1>2 DEF OnStack
<1>4. /\ \A j \in 1..Len(Popped) : j \in 1..Len(stack) /\ Popped[j] = stack[j]
      /\ \A j \in 1..Len(stack) : j \in 1..Len(Popped) \/ j = Len(stack)
  BY <1>1, PopType
<1>5. k \in 1..Len(Popped) /\ Popped[k].id = n
  BY <1>2, <1>3, <1>4 DEF Top
<1>6. QED
  BY <1>1, <1>5 DEF OnStack

LEMMA EmitKeeps ==
  ASSUME TypeOK, DirOK, Emit
  PROVE  /\ \A n : Seen(n) => Seen(n)'
         /\ vol[Entry.id].meta = "dir" => \E n : n = Entry.id /\ Seen(n)'
<1> DEFINE item == [path |-> PathTo, id |-> Entry.id, depth |-> dir.depth + 1]
<1>1. /\ visited' = visited
      /\ stack' = IF vol[Entry.id].meta = "dir" THEN Append(stack, item) ELSE stack
      /\ AtEntry /\ Entry.id # Torn /\ Entry.name \notin Dots
  BY DEF Emit, Pushed
<1>2. item \in Item /\ item.id = Entry.id
  <2>1. Entry.id \in Node /\ Entry.name \in Name
    BY <1>1, EntryNamed
  <2>2. dir.path \in Seq(Name) /\ dir.depth \in Nat
    BY DEF TypeOK, Item
  <2>3. PathTo \in Seq(Name)
    BY <2>1, <2>2 DEF PathTo
  <2>4. QED
    BY <2>1, <2>2, <2>3 DEF Item
<1> HIDE DEF item
<1>3. CASE vol[Entry.id].meta = "dir"
  <2>1. stack \in Seq(Item) /\ stack' = Append(stack, item)
    BY <1>1, <1>3 DEF TypeOK
  <2>2. /\ Len(stack) + 1 \in 1..Len(stack') /\ stack'[Len(stack) + 1].id = Entry.id
        /\ \A k \in 1..Len(stack) : k \in 1..Len(stack') /\ stack'[k] = stack[k]
    BY <1>2, <2>1
  <2>3. \A n : OnStack(n) => OnStack(n)'
    BY <2>2 DEF OnStack
  <2>4. \E n : n = Entry.id /\ OnStack(n)'
    BY <2>2 DEF OnStack
  <2>5. ASSUME NEW n, Seen(n) PROVE Seen(n)'
    BY <1>1, <2>3, <2>5 DEF Seen
  <2>6. \E n : n = Entry.id /\ Seen(n)'
    BY <2>4 DEF Seen
  <2>7. QED
    BY <2>5, <2>6
<1>4. CASE vol[Entry.id].meta # "dir"
  BY <1>1, <1>4 DEF Seen, OnStack
<1>5. QED
  BY <1>3, <1>4

\* A step that loses no directory of a tree it has seen, and that is through with
\* no entry but the one it stands at.
LEMMA TreeKept ==
  ASSUME IInv, TreeOK, Tree, vol' = vol, res # "err",
         \A n \in Node : IsDir(n) /\ Seen(n) => Seen(n)' \/ Deep(n),
         \A n \in visited' : \A k \in 1..Len(vol[n].entries) :
           Through(n, k)' => \/ n \in visited /\ Through(n, k)
                             \/ vol[n].entries[k].name \in Dots
                             \/ \E m : m = vol[n].entries[k].id /\ (IsDir(m) => m = Root \/ Seen(m)')
  PROVE  TreeOK'
<1>1. Seen(Root)'
  <2>1. Root \in Node /\ IsDir(Root) /\ Seen(Root)
    BY WalkAssumption DEF TreeOK, IsDir
  <2>2. Seen(Root)' \/ Deep(Root)
    BY <2>1
  <2>3. QED
    BY <2>2, RootNotDeep
<1>2. \A n : Deep(n)' = Deep(n)
  BY SameTree
<1>3. \A n : IsDir(n)' = IsDir(n)
  BY SameVolume
<1>4. ASSUME NEW n \in visited', NEW k \in 1..Len(vol[n].entries), NEW m \in Node,
             m = vol[n].entries[k].id, vol[n].entries[k].name \notin Dots, IsDir(m), Through(n, k)'
      PROVE  Seen(m)' \/ Deep(m)
  <2>1. CASE n \in visited /\ Through(n, k)
    <3>1. Branches(n)
      BY <2>1 DEF TreeOK
    <3>2. Seen(m) \/ Deep(m)
      BY <1>4, <2>1, <3>1 DEF Branches
    <3>3. QED
      BY <1>4, <3>2
  <2>2. CASE m = Root \/ Seen(m)'
    BY <1>1, <2>2
  <2>3. QED
    BY <1>4, <2>1, <2>2
<1>5. ASSUME NEW n \in visited' PROVE Branches(n)'
  <2>1. SUFFICES ASSUME NEW k \in 1..Len(vol[n].entries), Through(n, k)',
                        vol[n].entries[k].name \notin Dots, vol[n].entries[k].id \in Node,
                        NEW m, m = vol[n].entries[k].id, IsDir(m)
                 PROVE  Seen(m)' \/ Deep(m)
    BY <1>2, <1>3 DEF Branches
  <2>2. QED
    BY <1>4, <2>1
<1>6. QED
  BY <1>1, <1>5 DEF TreeOK

LEMMA NextTreeOK == IInv /\ PathsFaithful /\ TreeOK /\ [Next]_vars => TreeOK'
<1> SUFFICES ASSUME IInv, PathsFaithful, TreeOK, [Next]_vars, Tree', res' # "err" PROVE TreeOK'
  BY DEF TreeOK
<1>1. TypeOK /\ DirOK /\ vol' = vol /\ res # "err"
  BY DEF IInv, Next, Step, Skip, ReadDir, EntryFails, SkipDot, MetaFails, Emit, EndOfDir,
         Finish, Returned, vars, AtEntry, Listing, Running
<1>2. Tree
  BY <1>1, SameTree
<1>3. \A n \in visited : n \in Node
  BY <1>1 DEF TypeOK
<1>4. CASE Skip
  <2>1. visited' = visited /\ at' = at /\ dir' = dir
    BY <1>4 DEF Skip
  <2>2. \A n \in Node : IsDir(n) /\ Seen(n) => Seen(n)' \/ Deep(n)
    BY <1>1, <1>2, <1>4, SkipKeeps
  <2>3. \A n, k : Through(n, k)' <=> Through(n, k)
    BY <2>1 DEF Through
  <2>4. QED
    BY <1>1, <1>2, <2>1, <2>2, <2>3, TreeKept
<1>5. CASE ReadDir
  <2>1. visited' = visited \cup {Top.id} /\ dir' = Top /\ at' = 1 /\ at = 0
    BY <1>5 DEF ReadDir
  <2>2. \A n : Seen(n) => Seen(n)'
    BY <1>1, <1>5, ReadDirKeeps
  <2>3. ASSUME NEW n \in visited', NEW k \in 1..Len(vol[n].entries), Through(n, k)'
        PROVE  n \in visited /\ Through(n, k)
    <3>1. n # Top.id
      <4>1. n = Top.id => k < 1
        BY <2>1, <2>3 DEF Through
      <4>2. k >= 1
        OBVIOUS
      <4>3. QED
        BY <4>1, <4>2
    <3>2. QED
      BY <2>1, <3>1 DEF Through
  <2>4. QED
    BY <1>1, <1>2, <2>2, <2>3, TreeKept
<1>6. CASE SkipDot \/ Emit
  <2>1. visited' = visited /\ at' = at + 1 /\ dir' = dir /\ at \in Nat /\ at > 0
    BY <1>1, <1>6 DEF SkipDot, Emit, Onward, AtEntry, Listing, TypeOK
  <2>2. \A n : Seen(n) => Seen(n)'
    <3>1. CASE SkipDot
      BY <3>1 DEF SkipDot, Seen, OnStack
    <3>2. QED
      BY <1>1, <1>6, <3>1, EmitKeeps
  <2>3. ASSUME NEW n \in visited', NEW k \in 1..Len(vol[n].entries), Through(n, k)'
        PROVE  \/ n \in visited /\ Through(n, k)
               \/ vol[n].entries[k].name \in Dots
               \/ \E m : m = vol[n].entries[k].id /\ (IsDir(m) => m = Root \/ Seen(m)')
    <3>1. CASE n = dir.id /\ k = at
      <4>1. Entry = vol[n].entries[k]
        BY <3>1 DEF Entry, Entries
      <4>2. CASE SkipDot
        BY <4>1, <4>2 DEF SkipDot
      <4>3. CASE Emit
        <5>1. vol[Entry.id].meta = "dir" => \E m : m = Entry.id /\ Seen(m)'
          BY <1>1, <4>3, EmitKeeps
        <5>2. PICK m : m = Entry.id
          OBVIOUS
        <5>3. IsDir(m) => m = Root \/ Seen(m)'
          BY <5>1, <5>2 DEF IsDir
        <5>4. QED
          BY <4>1, <5>2, <5>3
      <4>4. QED
        BY <1>6, <4>2, <4>3
    <3>2. CASE ~(n = dir.id /\ k = at)
      <4>1. n \in visited
        BY <2>1
      <4>2. n = dir.id => k < at + 1 /\ k # at
        BY <2>1, <2>3, <3>2 DEF Through
      <4>3. n = dir.id => k < at
        BY <2>1, <4>2
      <4>4. QED
        BY <4>1, <4>3 DEF Through
    <3>3. QED
      BY <3>1, <3>2
  <2>4. QED
    BY <1>1, <1>2, <2>2, <2>3, TreeKept
<1>7. CASE EndOfDir
  <2>1. /\ visited' = visited /\ stack' = stack /\ at \in Nat /\ at > Len(vol[dir.id].entries)
        /\ dir.id \in Node
    BY <1>1, <1>7 DEF EndOfDir, Entries, TypeOK, Item
  <2>2. \A n : Seen(n) => Seen(n)'
    BY <2>1 DEF Seen, OnStack
  <2>3. Len(vol[dir.id].entries) \in Nat
    <3>1. vol[dir.id].entries \in Seq(DirEntry)
      BY <1>1, <2>1 DEF TypeOK, Volume
    <3>2. QED
      BY <3>1
  <2>4. ASSUME NEW n \in visited', NEW k \in 1..Len(vol[n].entries)
        PROVE  n \in visited /\ Through(n, k)
    BY <2>1, <2>3 DEF Through
  <2>5. QED
    BY <1>1, <1>2, <2>2, <2>4, TreeKept
<1>8. CASE Finish \/ Returned \/ UNCHANGED vars
  <2>1. visited' = visited /\ stack' = stack /\ at' = at /\ dir' = dir
    BY <1>8 DEF Finish, Returned, vars
  <2>2. \A n : Seen(n) => Seen(n)'
    BY <2>1 DEF Seen, OnStack
  <2>3. \A n, k : Through(n, k)' <=> Through(n, k)
    BY <2>1 DEF Through
  <2>4. QED
    BY <1>1, <1>2, <2>1, <2>2, <2>3, TreeKept
<1>9. ~EntryFails /\ ~MetaFails
  BY DEF EntryFails, MetaFails
<1>10. QED
  BY <1>4, <1>5, <1>6, <1>7, <1>8, <1>9 DEF Next, Step

LEMMA InitTreeOK == Init => TreeOK
<1>1. SUFFICES ASSUME Init PROVE TreeOK
  OBVIOUS
<1>2. Len(stack) = 1 /\ stack[1].id = Root /\ visited = {}
  BY <1>1 DEF Init
<1>3. Seen(Root)
  BY <1>2 DEF Seen, OnStack
<1>4. QED
  BY <1>2, <1>3 DEF TreeOK

\* At the end of a walk that found no error, the entries of what was listed are
\* returned.
LEMMA EndNamed ==
  ASSUME IInv, Ended, res = "ok", NEW n \in visited, NEW e \in Named(n)
  PROVE  /\ e.id \in Node /\ Returns(e.id)
         /\ Tree /\ TreeOK /\ IsDir(e.id) => Seen(e.id) \/ Deep(e.id)
<1>1. n \in Node /\ vol[n].entries \in Seq(DirEntry)
  BY DEF IInv, TypeOK, Volume
<1>2. PICK k \in DOMAIN vol[n].entries : e = vol[n].entries[k] /\ e.name \notin Dots
  BY DEF Named
<1>3. k \in 1..Len(vol[n].entries) /\ e \in DirEntry
  BY <1>1, <1>2
<1>4. EntryDone(e)
  BY <1>2, EndLoud DEF Loud, EntryDone
<1>5. e.id \in Node /\ Returns(e.id)
  BY <1>2, <1>3, <1>4 DEF EntryDone, DirEntry
<1>6. Through(n, k)
  BY DEF Through, Ended
<1>7. Tree /\ TreeOK => Branches(n)
  BY DEF TreeOK
<1>8. QED
  BY <1>2, <1>3, <1>5, <1>6, <1>7 DEF Branches

\* Then every directory that is not too deep was listed.
LEMMA EndListed ==
  ASSUME IInv, Ended, TreeOK, Tree, res = "ok", NEW path \in Seq(Name), NEW n \in Node,
         Leads(path, n), IsDir(n), Len(path) <= DepthCap
  PROVE  n \in visited
<1> DEFINE Missed(l) == \E p \in Seq(Name) : \E d \in Node :
                          /\ Len(p) = l /\ l <= DepthCap
                          /\ Leads(p, d) /\ IsDir(d) /\ d \notin visited
           S == {l \in Nat : Missed(l)}
<1>1. SUFFICES ASSUME n \notin visited PROVE FALSE
  OBVIOUS
<1>2. Len(path) \in S
  BY <1>1
<1>3. PICK l \in S : \A j \in S : l <= j
  <2>1. S \in SUBSET Nat
    OBVIOUS
  <2>2. QED
    BY <1>2, <2>1, Least
<1>4. PICK p \in Seq(Name), d \in Node :
        /\ Len(p) = l /\ l <= DepthCap
        /\ Leads(p, d) /\ IsDir(d) /\ d \notin visited
  BY <1>3
<1>5. \A m : Seen(m) => m \in visited
  <2>1. stack = <<>>
    BY DEF Ended
  <2>2. QED
    BY <2>1 DEF Seen, OnStack
<1>6. l # 0
  <2>1. Root \in visited
    BY <1>5 DEF TreeOK
  <2>2. QED
    BY <1>4, <2>1, LeadsNowhere
<1>7. l \in Nat /\ l > 0 /\ DepthCap \in Nat
  BY <1>3, <1>6, WalkAssumption
<1>8. PICK c \in Node : Leads(Front(p), c) /\ IsDir(c) /\ [name |-> Final(p), id |-> d] \in Named(c)
  BY <1>4, <1>7, LeadsBack
<1>9. Front(p) \in Seq(Name) /\ Len(Front(p)) = l - 1
  BY <1>4, <1>7, FrontIs
<1>10. c \in visited
  <2>1. SUFFICES ASSUME c \notin visited PROVE FALSE
    OBVIOUS
  <2>2. l - 1 <= DepthCap /\ l - 1 \in Nat /\ ~(l <= l - 1)
    BY <1>4, <1>7
  <2>3. Missed(l - 1)
    BY <1>8, <1>9, <2>1, <2>2
  <2>4. QED
    BY <1>3, <2>2, <2>3
<1>11. PICK e \in Named(c) : e = [name |-> Final(p), id |-> d]
  BY <1>8
<1>12. Seen(e.id) \/ Deep(e.id)
  BY <1>4, <1>10, <1>11, EndNamed
<1>13. e.id = d
  BY <1>11
<1>14. Len(p) > DepthCap
  BY <1>4, <1>5, <1>12, <1>13 DEF Deep
<1>15. QED
  BY <1>4, <1>7, <1>14

LEMMA EndTree == IInv /\ Ended /\ TreeOK => TreeComplete
<1> SUFFICES ASSUME IInv, Ended, TreeOK, res = "ok", Tree, NEW n \in Node, Within(n, DepthCap + 1)
             PROVE  Returns(n)
  BY DEF TreeComplete
<1>1. DepthCap \in Nat
  BY WalkAssumption
<1>2. PICK m \in 1..(DepthCap + 1) : \E p \in [1..m -> Name] : Leads(p, n)
  BY DEF Within
<1> PICK path \in [1..m -> Name] : Leads(path, n)
  BY <1>2
<1>3. path \in Seq(Name) /\ Len(path) = m /\ m \in Nat /\ m > 0
  BY <1>1, <1>2
<1>4. PICK c \in Node : Leads(Front(path), c) /\ IsDir(c) /\ [name |-> Final(path), id |-> n] \in Named(c)
  BY <1>2, <1>3, LeadsBack
<1>5. Front(path) \in Seq(Name) /\ Len(Front(path)) <= DepthCap
  BY <1>1, <1>2, <1>3, FrontIs
<1>6. c \in visited
  BY <1>4, <1>5, EndListed
<1>7. PICK e \in Named(c) : e = [name |-> Final(path), id |-> n]
  BY <1>4
<1>8. Returns(e.id)
  BY <1>6, <1>7, EndNamed
<1>9. QED
  BY <1>7, <1>8

\* walk: in a filesystem whose directories have one parent each, every node that
\* is nested no deeper than the cap is returned, whatever else is deeper.
THEOREM TreeWalk == Spec => []TreeComplete
<1>1. Spec => []TreeOK
  BY InitTreeOK, NextTreeOK, Invariance, PathsLead, PTL DEF Spec
<1>2. QED
  BY <1>1, EndTree, Invariance, PTL

-----------------------------------------------------------------------------
(***************************************************************************)
(* No entry is returned twice                                              *)
(***************************************************************************)

\* The path of a returned node goes through a directory that was listed, to an
\* entry of it that the walk is through with.
Taken(path) ==
  /\ path \in Seq(Name) /\ Len(path) > 0
  /\ \E n \in visited : \E k \in 1..Len(vol[n].entries) :
       /\ Leads(Front(path), n) /\ Through(n, k)
       /\ vol[n].entries[k].name = Final(path) /\ Final(path) \notin Dots

\* Two paths to one entry of a directory.
Again(p, q) ==
  Final(p) = Final(q) /\ \E n \in Node : Leads(Front(p), n) /\ Leads(Front(q), n)

OnceOK ==
  Distinct(vol) =>
    /\ \A k \in 1..Len(out) : Taken(out[k].path)
    /\ \A j, k \in 1..Len(out) : j # k => ~Again(out[j].path, out[k].path)

LEMMA OnceListed == TypeOK /\ Distinct(vol) /\ OnceOK => ListedOnce
<1> SUFFICES ASSUME TypeOK, Distinct(vol), OnceOK, NEW j \in DOMAIN out, NEW k \in DOMAIN out, j # k,
                    out[j].path[Len(out[j].path)] = out[k].path[Len(out[k].path)],
                    NEW n \in Node,
                    Leads(SubSeq(out[j].path, 1, Len(out[j].path) - 1), n),
                    Leads(SubSeq(out[k].path, 1, Len(out[k].path) - 1), n)
             PROVE  FALSE
  BY DEF ListedOnce
<1>1. j \in 1..Len(out) /\ k \in 1..Len(out)
  BY DEF TypeOK
<1>2. Again(out[j].path, out[k].path)
  BY DEF Again, Front, Final
<1>3. QED
  BY <1>1, <1>2 DEF OnceOK

\* A step that returns nothing and forgets nothing of what it is through with.
LEMMA OnceKept ==
  ASSUME OnceOK, vol' = vol, out' = out, visited \subseteq visited',
         \A n \in visited : \A k : Through(n, k) /\ k \in 1..Len(vol[n].entries) => Through(n, k)'
  PROVE  OnceOK'
<1> SUFFICES ASSUME Distinct(vol) PROVE OnceOK'
  BY DEF OnceOK, Distinct
<1>1. \A path, n : Leads(path, n)' <=> Leads(path, n)
  BY SameLeads
<1>2. ASSUME NEW k \in 1..Len(out) PROVE \E p : p = out[k].path /\ Taken(p)'
  <2>1. PICK p : p = out[k].path
    OBVIOUS
  <2>2. Taken(p)
    BY <2>1 DEF OnceOK
  <2> PICK n \in visited : \E j \in 1..Len(vol[n].entries) :
          /\ Leads(Front(p), n) /\ Through(n, j)
          /\ vol[n].entries[j].name = Final(p) /\ Final(p) \notin Dots
    BY <2>2 DEF Taken
  <2>3. PICK j \in 1..Len(vol[n].entries) :
          /\ Leads(Front(p), n) /\ Through(n, j)
          /\ vol[n].entries[j].name = Final(p) /\ Final(p) \notin Dots
    OBVIOUS
  <2>4. n \in visited' /\ Through(n, j)' /\ Leads(Front(p), n)'
    BY <1>1, <2>3
  <2>5. Taken(p)'
    BY <2>2, <2>3, <2>4 DEF Taken
  <2>6. QED
    BY <2>1, <2>5
<1>3. \A p, q : Again(p, q)' <=> Again(p, q)
  BY <1>1 DEF Again
<1>4. QED
  BY <1>2, <1>3 DEF OnceOK

LEMMA EmitOnceOK == IInv /\ Routes /\ OnceOK /\ Emit => OnceOK'
<1> SUFFICES ASSUME IInv, Routes, OnceOK, Emit, Distinct(vol) PROVE OnceOK'
  BY DEF OnceOK, Distinct, Emit
<1>1. /\ TypeOK /\ DirOK /\ AtEntry /\ Entry.id # Torn /\ Entry.name \notin Dots
      /\ UNCHANGED <<vol, visited, dir>> /\ at' = at + 1
      /\ at \in Nat /\ at > 0 /\ dir.id \in visited
  BY DEF IInv, Emit, Onward, AtEntry, Listing, TypeOK, DirOK
<1>2. /\ Entry.id \in Node /\ Entry.name \in Name /\ dir.id \in Node
      /\ at \in 1..Len(vol[dir.id].entries)
  BY <1>1, EntryNamed
<1>3. PICK path : path = PathTo
  OBVIOUS
<1>4. /\ path \in Seq(Name) /\ Len(path) > 0 /\ Front(path) = dir.path /\ Final(path) = Entry.name
      /\ dir.path \in Seq(Name)
  <2>1. dir.path \in Seq(Name)
    BY <1>1 DEF TypeOK, Item
  <2>2. path = Append(dir.path, Entry.name)
    BY <1>3 DEF PathTo
  <2>3. Len(dir.path) + 1 > 0
    BY <2>1
  <2>4. QED
    BY <1>2, <2>1, <2>2, <2>3, FrontOfAppend
<1>5. \A p, n : Leads(p, n)' <=> Leads(p, n)
  BY <1>1, SameLeads
<1>6. Leads(dir.path, dir.id)
  BY <1>1 DEF Routes
<1>7. Taken(path)'
  <2>1. PICK n, k : n = dir.id /\ k = at
    OBVIOUS
  <2>2. Through(n, k)' /\ n \in visited' /\ k \in 1..Len(vol'[n].entries)
    BY <1>1, <1>2, <2>1 DEF Through
  <2>3. vol'[n].entries[k].name = Final(path) /\ Final(path) \notin Dots
    BY <1>1, <1>4, <2>1 DEF Entry, Entries
  <2>4. Leads(Front(path), n)
    BY <1>4, <1>6, <2>1
  <2>5. Leads(Front(path), n)'
    BY <1>5, <2>4
  <2>6. QED
    BY <1>4, <2>2, <2>3, <2>5 DEF Taken
<1>8. ASSUME NEW j \in 1..Len(out), NEW p, p = out[j].path PROVE Taken(p)' /\ ~Again(p, path)
  <2>1. Taken(p)
    BY <1>8 DEF OnceOK
  <2> PICK n \in visited : \E k \in 1..Len(vol[n].entries) :
          /\ Leads(Front(p), n) /\ Through(n, k)
          /\ vol[n].entries[k].name = Final(p) /\ Final(p) \notin Dots
    BY <2>1 DEF Taken
  <2>2. PICK k \in 1..Len(vol[n].entries) :
          /\ Leads(Front(p), n) /\ Through(n, k)
          /\ vol[n].entries[k].name = Final(p) /\ Final(p) \notin Dots
    OBVIOUS
  <2>3. Through(n, k)'
    BY <1>1, <2>2 DEF Through
  <2>4. Taken(p)'
    BY <1>1, <1>5, <2>1, <2>2, <2>3 DEF Taken
  <2>5. SUFFICES ASSUME Again(p, path) PROVE FALSE
    BY <2>4
  <2>6. Final(p) = Entry.name
    BY <1>4, <2>5 DEF Again
  <2>7. PICK m \in Node : Leads(Front(p), m) /\ Leads(dir.path, m)
    BY <1>4, <2>5 DEF Again
  <2>8. n \in Node /\ p \in Seq(Name) /\ Len(p) > 0
    BY <1>1, <2>1, <2>2 DEF TypeOK, Taken
  <2>9. Front(p) \in Seq(Name)
    BY <2>8, FrontIs
  <2>10. m = dir.id /\ n = m
    BY <1>1, <1>2, <1>4, <1>6, <2>2, <2>7, <2>8, <2>9, LeadsOnce
  <2>11. k < at
    BY <1>1, <2>2, <2>10 DEF Through
  <2>12. k = at
    BY <1>1, <1>2, <2>2, <2>6, <2>10 DEF Distinct, Entry, Entries
  <2>13. QED
    BY <1>1, <2>11, <2>12
<1>9. /\ Len(out') = Len(out) + 1 /\ Len(out) \in Nat /\ out'[Len(out) + 1].path = path
      /\ \A k \in 1..Len(out) : out'[k] = out[k]
  <2> DEFINE found == [path |-> path, id |-> Entry.id]
  <2>1. out \in Seq(Found) /\ found \in Found
    BY <1>1, <1>2, <1>4 DEF TypeOK, Found
  <2>2. out' = Append(out, found) /\ found.path = path
    BY <1>3 DEF Emit
  <2> HIDE DEF found
  <2>3. QED
    BY <2>1, <2>2
<1>10. ASSUME NEW k \in 1..Len(out') PROVE \E p : p = out'[k].path /\ Taken(p)'
  <2>1. CASE k = Len(out) + 1
    BY <1>7, <1>9, <2>1
  <2>2. CASE k # Len(out) + 1
    <3>1. k \in 1..Len(out)
      BY <1>9, <2>2
    <3>2. QED
      BY <1>8, <1>9, <3>1
  <2>3. QED
    BY <2>1, <2>2
<1>11. ASSUME NEW j \in 1..Len(out'), NEW k \in 1..Len(out'), j # k
       PROVE  \E p, q : p = out'[j].path /\ q = out'[k].path /\ ~Again(p, q)
  <2>1. \A i \in 1..Len(out') : i = Len(out) + 1 \/ i \in 1..Len(out)
    BY <1>9
  <2>2. CASE j \in 1..Len(out) /\ k \in 1..Len(out)
    BY <1>9, <1>11, <2>2 DEF OnceOK
  <2>3. CASE j \in 1..Len(out) /\ k = Len(out) + 1
    BY <1>8, <1>9, <2>3
  <2>4. CASE k \in 1..Len(out) /\ j = Len(out) + 1
    <3>1. ~Again(out[k].path, path)
      BY <1>8, <2>4
    <3>2. ~Again(path, out[k].path)
      BY <3>1 DEF Again
    <3>3. QED
      BY <1>9, <2>4, <3>2
  <2>5. QED
    BY <1>11, <2>1, <2>2, <2>3, <2>4
<1>12. \A p, q : Again(p, q)' <=> Again(p, q)
  BY <1>5 DEF Again
<1>13. QED
  BY <1>10, <1>11, <1>12 DEF OnceOK

LEMMA NextOnceOK == IInv /\ Routes /\ OnceOK /\ [Next]_vars => OnceOK'
<1> SUFFICES ASSUME IInv, Routes, OnceOK, [Next]_vars PROVE OnceOK'
  OBVIOUS
<1>1. TypeOK
  BY DEF IInv
<1>2. CASE Emit
  BY <1>2, EmitOnceOK
<1>3. CASE ReadDir
  <2>1. /\ vol' = vol /\ out' = out /\ visited' = visited \cup {Top.id} /\ Top.id \notin visited
        /\ at = 0 /\ (at' = 0 \/ dir' = Top)
    BY <1>3 DEF ReadDir, Skipped
  <2>2. ASSUME NEW n \in visited, NEW k PROVE Through(n, k)'
    BY <2>1 DEF Through
  <2>3. QED
    BY <2>1, <2>2, OnceKept
<1>4. CASE SkipDot
  <2>1. /\ vol' = vol /\ out' = out /\ visited' = visited /\ dir' = dir /\ at' = at + 1
        /\ at \in Nat /\ at > 0
    BY <1>1, <1>4 DEF SkipDot, Onward, AtEntry, Listing, TypeOK
  <2>2. ASSUME NEW n \in visited, NEW k \in 1..Len(vol[n].entries), Through(n, k) PROVE Through(n, k)'
    BY <2>1, <2>2 DEF Through
  <2>3. QED
    BY <2>1, <2>2, OnceKept
<1>5. CASE EndOfDir
  <2>1. vol' = vol /\ out' = out /\ visited' = visited /\ at' = 0
    BY <1>5 DEF EndOfDir
  <2>2. ASSUME NEW n \in visited, NEW k PROVE Through(n, k)'
    BY <2>1 DEF Through
  <2>3. QED
    BY <2>1, <2>2, OnceKept
<1>6. CASE Skip \/ EntryFails \/ MetaFails \/ Finish \/ Returned \/ UNCHANGED vars
  <2>1. vol' = vol /\ out' = out /\ visited' = visited /\ at' = at /\ dir' = dir
    BY <1>6 DEF Skip, EntryFails, MetaFails, Finish, Returned, vars
  <2>2. ASSUME NEW n \in visited, NEW k, Through(n, k) PROVE Through(n, k)'
    BY <2>1, <2>2 DEF Through
  <2>3. QED
    BY <2>1, <2>2, OnceKept
<1>7. QED
  BY <1>2, <1>3, <1>4, <1>5, <1>6 DEF Next, Step

\* walk: over a filesystem that gives the entries of a directory different names,
\* no entry of a directory is returned twice, whatever loops and second parents
\* the directories form.
THEOREM OneListing == Spec => [](Distinct(vol) => ListedOnce)
<1>1. Init => OnceOK
  <2>1. Init => Len(out) = 0
    BY DEF Init
  <2>2. QED
    BY <2>1 DEF OnceOK
<1>2. IInv => TypeOK
  BY DEF IInv
<1>3. Spec => []OnceOK
  BY <1>1, InitRoutes, NextRoutes, NextOnceOK, Invariance, PTL DEF Spec
<1>4. QED
  BY <1>2, <1>3, OnceListed, Invariance, PTL

=============================================================================
