------------------------------- MODULE MCWalk -------------------------------
(***************************************************************************)
(* Small filesystems for the walk: up to three directories linked in every *)
(* way, a file, and every way an entry, a listing or a node can be broken. *)
(***************************************************************************)
EXTENDS Walk

CONSTANTS r, a, b, d, f, x, y, dot

Is(meta, entries) == [meta |-> meta, listable |-> TRUE, entries |-> entries]

File == Is("other", <<>>)

To(name, id) == [name |-> name, id |-> id]

\* Listings of up to two entries.
Listings(ids) ==
  {<<>>} \cup {<<To(x, p)>> : p \in ids} \cup {<<To(x, p), To(y, q)>> : p \in ids, q \in ids}

Dotted == {<<To(dot, p), To(x, q)>> : p \in {r, a}, q \in {a, b, f}}

Torns == {<<To(x, Torn)>>, <<To(x, b), To(y, Torn)>>}

FourNodes(onr, ona, onb, onf) ==
  {[n \in {r, a, b, f} |-> CASE n = r -> p [] n = a -> q [] n = b -> s [] OTHER -> t] :
     p \in onr, q \in ona, s \in onb, t \in onf}

Dirs(listings) == {Is("dir", l) : l \in listings}

Linked == FourNodes(Dirs(Listings({r, a, b, f})), Dirs(Listings({r, a, b, f})),
                    Dirs(Listings({r, a, b, f})), {File})

Faulty ==
  FourNodes(Dirs({<<To(x, a), To(y, b)>>} \cup Dotted \cup Torns) \cup {Is("other", <<To(x, a)>>)},
            Dirs({<<To(x, f)>>} \cup Dotted \cup Torns)
              \cup {[Is("dir", <<>>) EXCEPT !.listable = FALSE], Is("bad", <<>>)},
            Dirs({<<To(x, f), To(y, a)>>}) \cup {[Is("dir", <<>>) EXCEPT !.listable = FALSE]},
            {File, Is("bad", <<>>)})

MCVolumes == Linked \cup Faulty

\* A directory with two parents at different depths.
TwoParents ==
  {[n \in {r, a, b, d, f} |->
      CASE n = r -> Is("dir", <<To(x, p), To(y, q)>>)
        [] n = a -> Is("dir", <<To(x, b)>>)
        [] n = b -> Is("dir", <<To(x, d)>>)
        [] n = d -> Is("dir", <<To(x, f)>>)
        [] OTHER -> File] : p \in {a, b}, q \in {a, b}}
=============================================================================
