---------------------------- MODULE MCLocatorUri ----------------------------
(***************************************************************************)
(* Locators of every kind of layer and node address, with names made of    *)
(* the characters that structure a text and numbers at the ends of their   *)
(* ranges.                                                                 *)
(***************************************************************************)
EXTENDS LocatorUri

\* A numeral is one character of a text, so that no two of them make a third.
ASSUME Numerals == U64 <= 8

Names == {<<>>, <<"a", ".">>, <<"/", "b">>, <<"|", ":">>, <<",", "%", "a">>, <<"%">>}

Paths == {<<>>} \cup {<<n>> : n \in Names} \cup {<<m, n>> : m, n \in {<<>>, <<"/", "b">>, <<"c">>}}

Ids == {[kind |-> "ntfsref", nums |-> <<U64, U16>>], [kind |-> "extinode", nums |-> <<0, U32>>],
        [kind |-> "apfsoid", nums |-> <<U64, 0>>], [kind |-> "fatdirentry", nums |-> <<U32, 1>>],
        [kind |-> "isoextent", nums |-> <<2>>], [kind |-> "opaque", nums |-> <<U64>>]}

Addrs ==
  {[by |-> "path", path |-> p] : p \in Paths} \cup {[by |-> "file", id |-> id] : id \in Ids}
  \cup {[by |-> "both", id |-> id, path |-> p] :
          id \in {i \in Ids : i.kind \in {"ntfsref", "isoextent"}}, p \in Paths}

Tops ==
  {[tag |-> "range", start |-> a, len |-> U64] : a \in {0, U64}}
  \cup {[tag |-> "container", format |-> f] : f \in Formats}
  \cup {[tag |-> "volume", scheme |-> s, index |-> 1, guid |-> g] :
          s \in Schemes, g \in {{}} \cup {{w} : w \in Guids}}
  \cup {[tag |-> "encryption", scheme |-> s] : s \in Ciphers}
  \cup {[tag |-> "snapshot", kind |-> k, id |-> U64] : k \in {"vss", "apfs"}}
  \cup {[tag |-> "fs", kind |-> k, at |-> a] : k \in Kinds, a \in Addrs}
  \cup {[tag |-> "stream", id |-> [kind |-> k]] : k \in {"default", "resourcefork", "slack"}}
  \cup {[tag |-> "stream", id |-> [kind |-> k, n |-> U16]] : k \in Numbered}
  \cup {[tag |-> "archive", member |-> m] : m \in {{}, {0}}}

Roots == {[tag |-> t, path |-> p] : t \in {"file", "dir"}, p \in Names}

MCWritten == {<<r>> : r \in Roots} \cup {<<[tag |-> "file", path |-> <<"a">>], t>> : t \in Tops}

MCSlips == {"a", ".", "/", "|", ":", ",", "%", "+", ToString(U64), ToString(U64 + 1)}

\* Only numerals are misread.
MCNumerals == {ToString(n) : n \in 0..U64}
=============================================================================
