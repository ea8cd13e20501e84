---------------------------- MODULE LocatorUri ----------------------------
(***************************************************************************)
(* The canonical text of a locator and its parser (uri.rs), and what may   *)
(* happen to a text between a report and the session that opens it again.  *)
(* A text is a sequence of words, numerals and single characters; bytes    *)
(* are the characters of a small alphabet, escaped by two digits of radix  *)
(* four where the code has two hexadecimal ones.  What a parser returns    *)
(* is a set: {v} is Ok(v) and {} is an error.                              *)
(***************************************************************************)
EXTENDS Integers, SequencesExt

CONSTANTS
  U16, U32, U64,                     \* the largest integers; usize is u64
  Formats, Schemes, Ciphers, Kinds,  \* the vocabularies
  Guids,
  Written,   \* the locators the program writes
  Slips,     \* what a text picks up when it is copied
  MaxSlips   \* so often at most

ASSUME LocatorUriAssumption ==
  /\ U64 \in Nat /\ U32 \in 0..U64 /\ U16 \in 0..U32
  /\ MaxSlips \in Nat

VARIABLES
  loc,    \* the locator written or opened last
  text,   \* the text it is known by
  slips   \* how often it was damaged

vars == <<loc, text, slips>>

-----------------------------------------------------------------------------
(***************************************************************************)
(* Characters                                                              *)
(***************************************************************************)

Digits == <<"a", "b", "c", "d">>

Alphabet == <<"a", "b", "c", "d", ".", "_", "-", "/", "|", ":", ",", "%", "+", " ", "@", "=">>

\* All that is not [A-Za-z0-9._-].
Reserved == ToSet(Alphabet) \ {"a", "b", "c", "d", ".", "_", "-"}

Escape(c) ==
  LET n == (CHOOSE i \in DOMAIN Alphabet : Alphabet[i] = c) - 1
  IN  <<"%", Digits[1 + (n \div 4)], Digits[1 + (n % 4)]>>

PctEncode(bytes) ==
  FlattenSeq([i \in DOMAIN bytes |-> IF bytes[i] \in Reserved THEN Escape(bytes[i]) ELSE <<bytes[i]>>])

\* u8::from_str_radix takes a plus sign for the first of the two digits.
Escaped(c) ==
  {Escape(c)} \cup (IF Escape(c)[2] = Digits[1] THEN {<<"%", "+", Escape(c)[3]>>} ELSE {})

PctDecode(t) ==
  LET from[i \in 1..(Len(t) + 3)] ==
        IF i > Len(t) THEN {<<>>}
        ELSE IF t[i] # "%" THEN {<<t[i]>> \o rest : rest \in from[i + 1]}
        ELSE IF i + 2 > Len(t) THEN {}
        ELSE {<<c>> \o rest : c \in {d \in ToSet(Alphabet) : SubSeq(t, i, i + 2) \in Escaped(d)},
                              rest \in from[i + 3]}
  IN  from[1]

\* str::split: the character begins a new part, any other is of the last one.
Extended(parts, d, c) ==
  IF d = c THEN Append(parts, <<>>) ELSE [parts EXCEPT ![Len(parts)] = Append(@, d)]

Split(t, c) ==
  LET upto[i \in 0..Len(t)] == IF i = 0 THEN << <<>> >> ELSE Extended(upto[i - 1], t[i], c)
  IN  upto[Len(t)]

\* str::split_once
SplitOnce(t, c) ==
  {<<SubSeq(t, 1, i - 1), SubSeq(t, i + 1, Len(t))>> :
     i \in {i \in DOMAIN t : t[i] = c /\ \A j \in 1..(i - 1) : t[j] # c}}

\* strip_prefix('/').unwrap_or(t)
Unslashed(t) == IF t # <<>> /\ t[1] = "/" THEN Tail(t) ELSE t

Numeral(n) == <<ToString(n)>>

\* parse::<u64>() and its narrower siblings: a numeral, with a plus sign and
\* zeros before it or not.
Number(t, max) ==
  LET digits == IF t # <<>> /\ t[1] = "+" THEN Tail(t) ELSE t
  IN  {n \in 0..max : digits # <<>> /\ Last(digits) = ToString(n) /\ ToSet(Front(digits)) \subseteq {"0"}}

\* The words of the vocabularies and the numerals are no characters, and a
\* numeral is written for one number.
ASSUME WordsAssumption ==
  /\ (Formats \cup Schemes \cup Ciphers \cup Kinds \cup Guids) \cap ToSet(Alphabet) = {}
  /\ \A n \in 0..U64 :
       /\ ToString(n) \notin ToSet(Alphabet)
       /\ \A m \in 0..U64 : ToString(m) = ToString(n) => m = n

\* A symbol of a vocabulary: the token tables of uri.rs (90-204) are taken for
\* what they are meant to be, one token for each value and back, and so are the
\* hexadecimal digits of a guid, and path_to_bytes and bytes_to_path (71-88) for
\* the identity they are on unix; elsewhere these two are lossy on names that
\* are no UTF-8, and what is said here of names does not hold for those.
Word(t, vocabulary) == {w \in vocabulary : t = <<w>>}

-----------------------------------------------------------------------------
(***************************************************************************)
(* Nodes and streams                                                       *)
(***************************************************************************)

\* The kinds of file ids and the width of their fields.
Fields == [ntfsref |-> <<U64, U16>>, extinode |-> <<U64, U32>>, apfsoid |-> <<U64, U64>>,
           fatdirentry |-> <<U32, U16>>, isoextent |-> <<U32>>, opaque |-> <<U64>>]

FileIdToken(id) ==
  <<id.kind>> \o FlattenSeq([i \in DOMAIN id.nums |-> <<".">> \o Numeral(id.nums[i])])

\* A slip in Narrowed: no narrowing.
NarrowedNot(n, max) == n

\* `as u16`, `as u32`
Narrowed(n, max) == n % (max + 1)

\* Parts after the last field are not looked at.
ParseFileId(t) ==
  LET p == Split(t, ".")
  IN  {[kind |-> k, nums |-> [i \in DOMAIN Fields[k] |->
          Narrowed(CHOOSE n \in Number(p[i + 1], U64) : TRUE, Fields[k][i])]] :
       k \in {k \in Word(p[1], DOMAIN Fields) :
                \A i \in DOMAIN Fields[k] : i < Len(p) /\ Number(p[i + 1], U64) # {}}}

Numbered == {"named", "xattr"}

StreamToken(s) == IF s.kind \in Numbered THEN <<s.kind, ".">> \o Numeral(s.n) ELSE <<s.kind>>

ParseStream(t) ==
  LET p == Split(t, ".")
  IN  {[kind |-> k] : k \in Word(p[1], {"default", "resourcefork", "slack"})}
      \cup {[kind |-> k, n |-> Narrowed(n, U16)] :
              k \in Word(p[1], Numbered), n \in IF Len(p) = 1 THEN {} ELSE Number(p[2], U32)}

Comps(path) == FlattenSeq([i \in DOMAIN path |-> <<"/">> \o PctEncode(path[i])])

NodeAddrEncode(a) ==
  CASE a.by = "path" -> <<"p">> \o Comps(a.path)
    [] a.by = "file" -> <<"f", "/">> \o FileIdToken(a.id)
    [] a.by = "both" -> <<"b", "/">> \o FileIdToken(a.id) \o Comps(a.path)

\* The path of the components between the slashes of t, if each decodes.
DecodeComps(t) ==
  LET parts == Split(t, "/")
  IN  IF \E i \in DOMAIN parts : PctDecode(parts[i]) = {} THEN {}
      ELSE {[i \in DOMAIN parts |-> CHOOSE name \in PctDecode(parts[i]) : TRUE]}

\* A slip in PathOf: the slash before the first component stays.
PathOfSlashed(rest) == IF rest = <<>> THEN {<<>>} ELSE DecodeComps(rest)

PathOf(rest) == IF rest = <<>> THEN {<<>>} ELSE DecodeComps(Unslashed(rest))

ParseBoth(t) ==
  LET cut == SplitOnce(t, "/")
  IN  IF cut = {} THEN {[by |-> "both", id |-> id, path |-> <<>>] : id \in ParseFileId(t)}
      ELSE UNION {{[by |-> "both", id |-> id, path |-> path] :
                     id \in ParseFileId(c[1]), path \in DecodeComps(c[2])} : c \in cut}

ParseNodeAddr(t) ==
  IF t = <<>> THEN {}
  ELSE CASE t[1] = "p" -> {[by |-> "path", path |-> path] : path \in PathOf(Tail(t))}
         [] t[1] = "f" -> {[by |-> "file", id |-> id] : id \in ParseFileId(Unslashed(Tail(t)))}
         [] t[1] = "b" -> ParseBoth(Unslashed(Tail(t)))
         [] OTHER -> {}

-----------------------------------------------------------------------------
(***************************************************************************)
(* Layers and locators                                                     *)
(***************************************************************************)

\* Two fields with a comma between them, such a text cut at its first comma,
\* and at all of them.
Pair(a, b) == a \o <<",">> \o b

Pairs(t) == SplitOnce(t, ",")

Parts(t) == Split(t, ",")

\* An absent guid or member is {}.
LayerEncode(l) ==
  <<l.tag, ":">> \o
    CASE l.tag \in {"file", "dir"} -> PctEncode(l.path)
      [] l.tag = "range" -> Pair(Numeral(l.start), Numeral(l.len))
      [] l.tag = "container" -> <<l.format>>
      [] l.tag = "volume" ->
           IF l.guid = {} THEN Pair(<<l.scheme>>, Numeral(l.index))
           ELSE Pair(Pair(<<l.scheme>>, Numeral(l.index)), <<CHOOSE g \in l.guid : TRUE>>)
      [] l.tag = "encryption" -> <<l.scheme>>
      [] l.tag = "snapshot" -> Pair(<<l.kind>>, Numeral(l.id))
      [] l.tag = "fs" -> Pair(<<l.kind>>, NodeAddrEncode(l.at))
      [] l.tag = "stream" -> StreamToken(l.id)
      [] l.tag = "archive" -> IF l.member = {} THEN <<>>
                              ELSE Numeral(CHOOSE i \in l.member : TRUE)

\* What follows the index of a volume is its guid; a fourth part is not looked at.
ParseVolume(body) ==
  LET p == Parts(body)
  IN  {[tag |-> "volume", scheme |-> s, index |-> n, guid |-> g] :
         s \in Word(p[1], Schemes),
         n \in IF Len(p) < 2 THEN {} ELSE Number(p[2], U64),
         g \in IF Len(p) < 3 THEN {{}} ELSE {{w} : w \in Word(p[3], Guids)}}

ParseBody(tag, body) ==
  CASE tag \in {<<"file">>, <<"os">>} -> {[tag |-> "file", path |-> path] : path \in PctDecode(body)}
    [] tag = <<"dir">> -> {[tag |-> "dir", path |-> path] : path \in PctDecode(body)}
    [] tag = <<"range">> ->
         UNION {{[tag |-> "range", start |-> a, len |-> n] :
                   a \in Number(c[1], U64), n \in Number(c[2], U64)} : c \in Pairs(body)}
    [] tag = <<"container">> -> {[tag |-> "container", format |-> f] : f \in Word(body, Formats)}
    [] tag = <<"volume">> -> ParseVolume(body)
    [] tag = <<"encryption">> -> {[tag |-> "encryption", scheme |-> s] : s \in Word(body, Ciphers)}
    [] tag = <<"snapshot">> ->
         UNION {{[tag |-> "snapshot", kind |-> k, id |-> n] :
                   k \in Word(c[1], {"vss", "apfs"}), n \in Number(c[2], U64)} : c \in Pairs(body)}
    [] tag = <<"fs">> ->
         UNION {{[tag |-> "fs", kind |-> k, at |-> a] :
                   k \in Word(c[1], Kinds), a \in ParseNodeAddr(c[2])} : c \in Pairs(body)}
    [] tag = <<"stream">> -> {[tag |-> "stream", id |-> id] : id \in ParseStream(body)}
    [] tag = <<"archive">> ->
         IF body = <<>> THEN {[tag |-> "archive", member |-> {}]}
         ELSE {[tag |-> "archive", member |-> {n}] : n \in Number(body, U64)}
    [] OTHER -> {}

LayerParse(t) == UNION {ParseBody(c[1], c[2]) : c \in SplitOnce(t, ":")}

\* A locator is the sequence of its layers, the root first.
ToUri(l) ==
  <<"loc:">> \o FlattenSeq([i \in DOMAIN l |->
                  (IF i = 1 THEN <<>> ELSE <<"|">>) \o LayerEncode(l[i])])

\* A slip in Prefix: texts of earlier versions are no longer read.
PrefixNew == {"loc:"}

Prefix == {"loc:", "fvfs:"}

FromUri(t) ==
  IF t = <<>> \/ t[1] \notin Prefix THEN {}
  ELSE LET parts == Split(Tail(t), "|")
       IN  IF \E i \in DOMAIN parts : LayerParse(parts[i]) = {} THEN {}
           ELSE {[i \in DOMAIN parts |-> CHOOSE l \in LayerParse(parts[i]) : TRUE]}

-----------------------------------------------------------------------------
(***************************************************************************)
(* From a report to a session and back                                     *)
(***************************************************************************)

Init ==
  /\ loc \in Written
  /\ text = ToUri(loc)
  /\ slips = 0

\* A character or word of the text is replaced, lost or added on the way.
Slip ==
  /\ slips < MaxSlips
  /\ \/ \E i \in DOMAIN text, s \in Slips : text' = ReplaceAt(text, i, s)
     \/ \E i \in DOMAIN text : text' = RemoveAt(text, i)
     \/ \E i \in 1..(Len(text) + 1), s \in Slips : text' = InsertAt(text, i, s)
  /\ slips' = slips + 1
  /\ UNCHANGED loc

\* The text is parsed, and what it was accepted for is cited anew.
Reopen ==
  /\ \E l \in FromUri(text) : loc' = l /\ text' = ToUri(l)
  /\ UNCHANGED slips

Next == Slip \/ Reopen

Spec == Init /\ [][Next]_vars

-----------------------------------------------------------------------------
(***************************************************************************)
(* Properties                                                              *)
(***************************************************************************)

\* The words, numerals and characters of a text, the old prefix and tag among them.
Lexicon ==
  ToSet(Alphabet) \cup Slips \cup {ToString(n) : n \in 0..U64}
  \cup {"loc:", "fvfs:", "file", "os", "dir", "range", "container", "volume", "encryption",
        "snapshot", "fs", "stream", "archive", "p", "f", "b", "vss", "apfs"}
  \cup Formats \cup Schemes \cup Ciphers \cup Kinds \cup Guids
  \cup DOMAIN Fields \cup Numbered \cup {"default", "resourcefork", "slack"}

Name == Seq(Lexicon)

FileId ==
  UNION {{[kind |-> k, nums |-> nums] :
            nums \in {s \in [DOMAIN Fields[k] -> 0..U64] :
                        \A i \in DOMAIN s : s[i] <= Fields[k][i]}} : k \in DOMAIN Fields}

NodeAddr ==
  [by : {"path"}, path : Seq(Name)] \cup [by : {"file"}, id : FileId]
  \cup [by : {"both"}, id : FileId, path : Seq(Name)]

StreamId == [kind : {"default", "resourcefork", "slack"}] \cup [kind : Numbered, n : 0..U16]

\* At most one of the values.
Optional(values) == {{}} \cup {{v} : v \in values}

Layer ==
  [tag : {"file", "dir"}, path : Name]
  \cup [tag : {"range"}, start : 0..U64, len : 0..U64]
  \cup [tag : {"container"}, format : Formats]
  \cup [tag : {"volume"}, scheme : Schemes, index : 0..U64, guid : Optional(Guids)]
  \cup [tag : {"encryption"}, scheme : Ciphers]
  \cup [tag : {"snapshot"}, kind : {"vss", "apfs"}, id : 0..U64]
  \cup [tag : {"fs"}, kind : Kinds, at : NodeAddr]
  \cup [tag : {"stream"}, id : StreamId]
  \cup [tag : {"archive"}, member : Optional(0..U64)]

Locator == Seq(Layer) \ {<<>>}

\* The program writes locators only.
ASSUME WrittenAssumption == Written \subseteq Locator

\* The last locator is one, with numbers that fit their fields, whatever text
\* it was read from.
TypeOK ==
  /\ loc \in Locator
  /\ text \in Seq(Lexicon)
  /\ slips \in 0..MaxSlips

\* Every locator, written by the program or accepted from a damaged text, is
\* read back unchanged from its own text: nothing in a name or a number can
\* pass for structure.
RoundTrip == FromUri(ToUri(loc)) = {loc}

\* The text as a version before the renaming would have written it.
Legacy(t) ==
  [i \in DOMAIN t |->
     CASE i = 1 -> "fvfs:"
       [] i > 1 /\ t[i] = "file" /\ i < Len(t) /\ t[i + 1] = ":" /\ (i = 2 \/ t[i - 1] = "|") -> "os"
       [] OTHER -> t[i]]

\* A text in the old form means what it means in the new form, and is refused
\* when that is refused.
LegacyAlias == text # <<>> /\ text[1] = "loc:" => FromUri(Legacy(text)) = FromUri(text)

\* from_uri is loud on malformed input: the numbers of a text it accepts are
\* numbers of the locator (but for a zero, which may be in front of one).
NumbersKept ==
  \A l \in FromUri(text) :
    \A i \in DOMAIN text :
      text[i] \in {ToString(n) : n \in 1..U64} => text[i] \in ToSet(ToUri(l))
=============================================================================
