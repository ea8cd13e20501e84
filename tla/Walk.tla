-------------------------------- MODULE Walk --------------------------------
(***************************************************************************)
(* walk of resolver/src/lib.rs: the traversal of a mounted filesystem that *)
(* returns every node under the root, with a work stack, a visited set and *)
(* a depth cap.  The filesystem is untrusted: directories may contain      *)
(* themselves, a directory may have several parents, and listing it, an    *)
(* entry of it, or the metadata of a node may fail.                        *)
(***************************************************************************)
EXTENDS Integers, Sequences, FiniteSets

CONSTANTS
  Node,        \* file ids
  Root,        \* fs.root()
  Name,        \* entry names
  Dots,        \* the names `.` and `..`
  Torn,        \* in place of an id: the entry stream yields an error
  Volumes,     \* the filesystems considered
  DepthCap     \* WALK_MAX_DEPTH

DirEntry == [name : Name, id : Node \cup {Torn}]

\* What the filesystem says of each node: its metadata, or that they cannot be
\* read, whether read_dir succeeds, and the entries of the stream.
Volume == [Node -> [meta : {"dir", "other", "bad"}, listable : BOOLEAN, entries : Seq(DirEntry)]]

ASSUME WalkAssumption ==
  /\ Root \in Node /\ Torn \notin Node
  /\ Dots \subseteq Name
  /\ IsFiniteSet(Node)
  /\ DepthCap \in Nat
  /\ Volumes \subseteq Volume

VARIABLES vol,       \* the filesystem walked
          stack,     \* directories to list, with their path and depth
          visited,   \* directories listed or being listed
          dir, at,   \* the item being listed and its next entry; 0: none
          out,       \* the nodes found
          res        \* "running", "ok" or "err"

vars == <<vol, stack, visited, dir, at, out, res>>

-----------------------------------------------------------------------------
Item == [path : Seq(Name), id : Node, depth : Nat]

Found == [path : Seq(Name), id : Node]

Top == stack[Len(stack)]

Popped == SubSeq(stack, 1, Len(stack) - 1)

Running == res = "running"

\* Slips in Skipped: both conditions are asked for, and the cap one too small.
SkippedIfBoth == Top.depth > DepthCap /\ Top.id \in visited
SkippedAtCap == Top.depth >= DepthCap \/ Top.id \in visited

\* depth > WALK_MAX_DEPTH || !visited.insert(dir_id)
Skipped == Top.depth > DepthCap \/ Top.id \in visited

Listing == Running /\ at > 0

Entries == vol[dir.id].entries

Entry == Entries[at]

AtEntry == Listing /\ at <= Len(Entries)

\* A slip in Onward: the loop stays on the entries it skips.
OnwardUnlessSkipped == IF Entry.name \in Dots THEN at ELSE at + 1

Onward == at + 1

\* A slip in PathTo: the path of the directory.
PathToDir == dir.path

PathTo == Append(dir.path, Entry.name)

\* A slip in Pushed: the depth counts down.
PushedDown == Append(stack, [path |-> PathTo, id |-> Entry.id, depth |-> dir.depth - 1])

Pushed == Append(stack, [path |-> PathTo, id |-> Entry.id, depth |-> dir.depth + 1])

\* A slip in Fatal: a node without metadata is left out.
FatalNever == FALSE

\* fs.meta(entry.id)? gives an error.
Fatal == vol[Entry.id].meta = "bad"

-----------------------------------------------------------------------------
Init ==
  /\ vol \in Volumes
  /\ stack = <<[path |-> <<>>, id |-> Root, depth |-> 0]>>
  /\ visited = {}
  /\ dir = [path |-> <<>>, id |-> Root, depth |-> 0] /\ at = 0
  /\ out = <<>>
  /\ res = "running"

\* The item is too deep or was listed before: continue.
Skip ==
  /\ Running /\ at = 0 /\ stack # <<>>
  /\ Skipped
  /\ stack' = Popped
  /\ UNCHANGED <<vol, visited, dir, at, out, res>>

\* fs.read_dir(dir_id)?
ReadDir ==
  /\ Running /\ at = 0 /\ stack # <<>>
  /\ ~Skipped
  /\ stack' = Popped
  /\ visited' = visited \cup {Top.id}
  /\ IF vol[Top.id].listable
       THEN dir' = Top /\ at' = 1 /\ res' = res
       ELSE res' = "err" /\ UNCHANGED <<dir, at>>
  /\ UNCHANGED <<vol, out>>

\* let entry = entry?
EntryFails ==
  /\ AtEntry
  /\ Entry.id = Torn
  /\ res' = "err"
  /\ UNCHANGED <<vol, stack, visited, dir, at, out>>

SkipDot ==
  /\ AtEntry
  /\ Entry.id # Torn
  /\ Entry.name \in Dots
  /\ at' = Onward
  /\ UNCHANGED <<vol, stack, visited, dir, out, res>>

MetaFails ==
  /\ AtEntry
  /\ Entry.id # Torn
  /\ Entry.name \notin Dots
  /\ Fatal
  /\ res' = "err"
  /\ UNCHANGED <<vol, stack, visited, dir, at, out>>

\* out.push(..), and the directories go on the stack.
Emit ==
  /\ AtEntry
  /\ Entry.id # Torn
  /\ Entry.name \notin Dots
  /\ ~Fatal
  /\ out' = Append(out, [path |-> PathTo, id |-> Entry.id])
  /\ stack' = IF vol[Entry.id].meta = "dir" THEN Pushed ELSE stack
  /\ at' = Onward
  /\ UNCHANGED <<vol, visited, dir, res>>

EndOfDir ==
  /\ Listing /\ at > Len(Entries)
  /\ at' = 0
  /\ UNCHANGED <<vol, stack, visited, dir, out, res>>

\* Ok(out)
Finish ==
  /\ Running /\ at = 0 /\ stack = <<>>
  /\ res' = "ok"
  /\ UNCHANGED <<vol, stack, visited, dir, at, out>>

Step == \/ Skip \/ ReadDir \/ EntryFails \/ SkipDot \/ MetaFails \/ Emit
        \/ EndOfDir \/ Finish

Returned == ~Running /\ UNCHANGED vars

Next == Step \/ Returned

Spec == Init /\ [][Next]_vars

FairSpec == Spec /\ WF_vars(Step)

-----------------------------------------------------------------------------
(***************************************************************************)
(* What is on the filesystem.                                              *)
(***************************************************************************)

Named(n) == {e \in {vol[n].entries[k] : k \in DOMAIN vol[n].entries} : e.name \notin Dots}

\* A node the walk has to descend into.
IsDir(n) == n = Root \/ vol[n].meta = "dir"

Closed(S) == \A n \in S : IsDir(n) => \A e \in Named(n) : e.id \in Node => e.id \in S

Reachable == {n \in Node : \A S \in SUBSET Node : Root \in S /\ Closed(S) => n \in S}

\* path leads from the root to n, through directories.
Leads(path, n) ==
  \E via \in [1..(Len(path) + 1) -> Node] :
    /\ via[1] = Root /\ via[Len(path) + 1] = n
    /\ \A k \in 1..Len(path) : /\ IsDir(via[k])
                               /\ [name |-> path[k], id |-> via[k + 1]] \in Named(via[k])

\* n is found at most k names below the root.
Within(n, k) == \E m \in 1..k : \E path \in [1..m -> Name] : Leads(path, n)

\* Each directory is entered from one place, and the root from nowhere.
Tree ==
  LET dirs  == {n \in Reachable : IsDir(n)}
      all   == UNION {{<<n, k>> : k \in DOMAIN vol[n].entries} : n \in dirs}
      Goes(l) == vol[l[1]].entries[l[2]]
      links == {l \in all : Goes(l).name \notin Dots /\ Goes(l).id \in dirs}
  IN  \A l \in links : /\ Goes(l).id # Root
                       /\ \A m \in links : Goes(m).id = Goes(l).id => m = l

Returns(n) == \E k \in DOMAIN out : out[k].id = n

-----------------------------------------------------------------------------
(***************************************************************************)
(* Properties                                                              *)
(***************************************************************************)

\* The variables have their types.
TypeOK ==
  /\ vol \in Volume
  /\ stack \in Seq(Item)
  /\ visited \subseteq Node
  /\ dir \in Item /\ at \in Nat
  /\ out \in Seq(Found)
  /\ res \in {"running", "ok", "err"}

\* The path of every returned node, and of every directory still to be listed,
\* leads from the root to that node.
PathsFaithful ==
  /\ \A k \in DOMAIN out : Leads(out[k].path, out[k].id)
  /\ \A k \in DOMAIN stack : Leads(stack[k].path, stack[k].id) /\ stack[k].depth = Len(stack[k].path)

\* Loops and second parents do not multiply the answer: no directory is listed
\* twice, so no two returned nodes are the same entry of the same directory.
\* (The names in each directory considered are distinct.)
ListedOnce ==
  \A j, k \in DOMAIN out :
    LET front(p) == SubSeq(p, 1, Len(p) - 1)
    IN  j # k /\ out[j].path[Len(out[j].path)] = out[k].path[Len(out[k].path)] =>
          \A n \in Node : ~(Leads(front(out[j].path), n) /\ Leads(front(out[k].path), n))

\* Every node of the filesystem is returned, as long as it has no more
\* directories than the depth cap allows to nest.
Complete ==
  res = "ok" /\ Cardinality({n \in Reachable : IsDir(n)}) <= DepthCap + 1 =>
    \A n \in Reachable \ {Root} : Returns(n)

\* In a filesystem whose directories have one parent, every node that is not
\* nested deeper than the cap is returned.
TreeComplete ==
  res = "ok" /\ Tree => \A n \in Node : Within(n, DepthCap + 1) => Returns(n)

\* An error aborts loud: an answer of Ok means that every directory that was
\* listed could be, to its last entry, and every node in it could be read.
Loud ==
  res = "ok" =>
    \A n \in visited :
      /\ vol[n].listable
      /\ \A k \in DOMAIN vol[n].entries :
           LET e == vol[n].entries[k]
           IN  e.id # Torn /\ (e.name \notin Dots => vol[e.id].meta # "bad" /\ Returns(e.id))

\* The walk ends, whatever the directories contain.
Terminates == <>~Running

\* Every node of the filesystem within the depth cap is returned.
EveryNodeWithinCap ==
  res = "ok" => \A n \in Node \ {Root} : Within(n, DepthCap + 1) => Returns(n)
=============================================================================
