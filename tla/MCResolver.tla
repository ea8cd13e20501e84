----------------------------- MODULE MCResolver -----------------------------
(***************************************************************************)
(* Small evidences for the resolver.  Each source gets a profile, the      *)
(* openers that claim it and what they hand back; a profile that is not    *)
(* mentioned declines.                                                     *)
(***************************************************************************)
EXTENDS Resolver

CONSTANTS s1, s2, s3,              \* sources
          f1, v1, e1, e2, c1, a1, a2, t1   \* openers

MCFilesystems == <<f1>>
MCVolumeSystems == <<v1>>
MCEncryptionLayers == <<e1, e2>>
MCContainers == <<c1>>
MCArchives == <<a1, a2>>
MCTrees == <<t1>>

No == [verdict |-> "No", ok |-> FALSE, stream |-> FALSE, kids |-> <<>>]
Says(verdict, kids) == [verdict |-> verdict, ok |-> TRUE, stream |-> FALSE, kids |-> kids]
Fails(verdict) == [verdict |-> verdict, ok |-> FALSE, stream |-> FALSE, kids |-> <<>>]
Stream(kid) == [verdict |-> "Yes", ok |-> TRUE, stream |-> TRUE, kids |-> <<kid>>]

Profile(claims) ==
  [readable |-> TRUE,
   answer |-> [o \in Opener |-> IF o \in DOMAIN claims THEN claims[o] ELSE No]]

Only(o, ans) == Profile([x \in {o} |-> ans])
Both(o, ans, q, bns) == Profile([x \in {o, q} |-> IF x = o THEN ans ELSE bns])

Unknown == Profile([x \in {} |-> No])
Unreadable == [Unknown EXCEPT !.readable = FALSE]

\* Terminals: nothing to descend into.
Leaves == {Unknown, Unreadable, Only(f1, Says("Maybe", <<>>)), Only(f1, Fails("Yes"))}

\* One layer over the given sources, with every way the layer can fail.
Layers(S) ==
  LET one == {<<s>> : s \in S} IN
       {Only(v1, Says("Yes", k)) : k \in {<<x, y>> : x \in S, y \in S \cup {Broken}}}
  \cup {Only(o, Says(v, k)) : o \in {e1, e2}, v \in {"Yes", "Maybe"}, k \in one \cup {<<Broken>>}}
  \cup {Only(c1, Says("Yes", k)) : k \in one}
  \cup {Only(a1, Stream(s)) : s \in S}
  \cup {Only(a2, Says("Yes", k)) : k \in {<<>>} \cup {<<x, y>> : x \in S, y \in S}}
  \cup {Only(o, Fails("Maybe")) : o \in {v1, e1, c1, a1}}

\* Two openers claim the same source.
Contested(x, y) ==
  {Both(e1, Says("Maybe", <<x>>), v1, Says("Maybe", <<y>>)),
   Both(e1, Says("Maybe", <<x>>), e2, Says("Yes", <<y>>)),
   Both(e1, Says("Maybe", <<x>>), c1, Says("Maybe", <<y>>)),
   Both(e1, Says("Maybe", <<x>>), a2, Says("Yes", <<x, y>>)),
   Both(e1, Says("Maybe", <<Broken>>), e2, Says("Maybe", <<y>>)),
   Both(f1, Says("Maybe", <<>>), e1, Fails("Yes")),
   Both(c1, Says("Yes", <<x>>), a1, Stream(y))}

Plain == {Unknown, Only(f1, Says("Maybe", <<>>))}

Assemble(first, second, third) ==
  {[s \in {s1, s2, s3} |-> CASE s = s1 -> p [] s = s2 -> q [] OTHER -> r] :
     p \in first, q \in second, r \in third}

Roots == Leaves \cup Layers({s2, s3}) \cup Contested(s2, s3) \cup Contested(s3, s2)
           \cup Contested(s1, s2)
Inner == Leaves \cup Layers({s2, s3}) \cup Contested(s3, s1)

\* A directory evidence is asked of the tree openers only.
TreeCalls ==
  {[entry |-> "tree", root |-> s1, evidence |-> e] :
     e \in Assemble({Unknown, Only(t1, Says("Yes", <<>>)), Only(t1, Fails("Maybe"))},
                    {Unknown}, {Unknown})}

On(entries, evidences) ==
  {[entry |-> n, root |-> s1, evidence |-> e] : n \in entries, e \in evidences}

MCCalls == TreeCalls \cup
  On({"open", "source"},
     Assemble(Roots, Inner, Leaves \cup {Only(c1, Says("Yes", <<s1>>))}))

\* A bare stream wrapped in an archive, which may be empty.
ArchiveCalls ==
  On({"source"}, Assemble({Only(a2, Says("Yes", k)) : k \in {<<>>, <<s2>>, <<s2, s3>>}},
                          {Unknown}, {Unknown}))

\* Schemes that only say Maybe, and fail: their construction or the decrypt.
AttemptCalls ==
  On({"open"}, Assemble({Only(e1, Fails("Maybe")), Only(e1, Says("Maybe", <<Broken>>)),
                         Both(e1, Fails("Maybe"), e2, Says("Maybe", <<s2>>)),
                         Both(e1, Says("Maybe", <<Broken>>), e2, Says("Maybe", <<s2>>))},
                        Plain, {Unknown}))

\* Containers all the way down.
BombCalls ==
  On({"source"}, Assemble({Only(c1, Says("Yes", <<s>>)) : s \in {s1, s2}},
                          {Only(c1, Says("Yes", <<s>>)) : s \in {s1, s2, s3}},
                          {Only(c1, Says("Yes", <<s1>>))}))
=============================================================================
