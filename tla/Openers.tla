------------------------------ MODULE Openers ------------------------------
(***************************************************************************)
(* What the layer resolver works on: the registry of openers               *)
(* (core/src/registry.rs), the answers those openers give about the byte   *)
(* sources of a piece of evidence, and the locator layers that record a    *)
(* descent (core/src/locator.rs).                                          *)
(*                                                                         *)
(* A byte source is immutable, so what every opener says of it is fixed    *)
(* before the call: an evidence is a function from sources to answers.     *)
(* Sources may contain each other in any way, themselves included (the     *)
(* self-referential container the depth cap is for).                       *)
(***************************************************************************)
EXTENDS Integers, Sequences

CONSTANTS
  Source,            \* the byte sources (DynSource) the evidence holds
  Broken,            \* in place of a source: open_volume or decrypt fails
  Filesystems,       \* the registered openers, in registration order: one
  VolumeSystems,     \* sequence for each Vec of the registry
  EncryptionLayers,
  Containers,
  Archives,
  Trees,
  Unnamed,           \* an archive layer does not name its opener
  MaxDepth           \* MAX_DEPTH (8 in the code)

Verdict == {"No", "Maybe", "Yes"}

Elements(seq) == {seq[k] : k \in DOMAIN seq}

Opener == UNION {Elements(seq) : seq \in {Filesystems, VolumeSystems,
                   EncryptionLayers, Containers, Archives, Trees}}

(***************************************************************************)
(* What one opener does with one source.  verdict is probe()'s answer; ok  *)
(* says whether open() then succeeds; kids are the sources it hands back,  *)
(* in order: the volumes of a volume system, the members of an archive, or *)
(* the one decoded, peeled or decrypted stream.  stream tells the archive  *)
(* variants Stream (1 -> 1) and Members (1 -> N) apart.                    *)
(***************************************************************************)
Answer == [verdict : Verdict, ok : BOOLEAN, stream : BOOLEAN,
           kids : Seq(Source \cup {Broken})]

Evidence == [Source -> [readable : BOOLEAN, answer : [Opener -> Answer]]]

(***************************************************************************)
(* The entry points of SourceOpen and the opener lists each one goes       *)
(* through.  "sig" and "try" are the two passes over the encryption        *)
(* layers: the signature pass and the credential-attempt last resort.      *)
(***************************************************************************)
Entry == {"open", "source", "tree"}

Pass == {"fs", "vs", "sig", "cont", "arch", "try", "tree"}

Passes == [open   |-> <<"fs", "vs", "sig", "cont", "arch", "try">>,
           source |-> <<"cont", "arch">>,
           tree   |-> <<"tree">>]

Registered == [fs |-> Filesystems, vs |-> VolumeSystems,
               sig |-> EncryptionLayers, cont |-> Containers,
               arch |-> Archives, try |-> EncryptionLayers, tree |-> Trees]

\* The passes whose opener mounts a filesystem and ends the search.
MountPass == {"fs", "tree"}

Call == [entry : Entry, root : Source, evidence : Evidence]

(***************************************************************************)
(* What the signatures of the openers say: a decoder and a decrypted layer *)
(* are one source, and so is Stream; only a volume or a decrypt can fail   *)
(* on its own, after its opener's open() succeeded.                        *)
(***************************************************************************)
WellFormed(c) ==
  \A s \in Source : \A o \in Opener :
    LET a == c.evidence[s].answer[o] IN
      a.ok /\ a.verdict # "No" =>
        /\ o \in Elements(Containers) \cup Elements(EncryptionLayers) \/ a.stream =>
             Len(a.kids) = 1
        /\ o \in Elements(Containers) \cup Elements(Archives) =>
             Broken \notin Elements(a.kids)

PassesOf(c) == Elements(Passes[c.entry])

AnswerOf(c, s, o) == c.evidence[s].answer[o]

Kids(c, s, o) == AnswerOf(c, s, o).kids

(***************************************************************************)
(* is_candidate() for most openers; for an encryption layer the verdict    *)
(* selects the pass that uses it.                                          *)
(***************************************************************************)
Engaged(c, s, pass, o) ==
  LET v == AnswerOf(c, s, o).verdict
  IN  CASE pass = "sig" -> v = "Yes"
        [] pass = "try" -> v = "Maybe"
        [] OTHER        -> v # "No"

(***************************************************************************)
(* Locator layers, without the base layer of the call.  An index of        *)
(* NoIndex stands for a layer that has none, and for member: None.         *)
(***************************************************************************)
NoIndex == -1

LayerKind == [fs |-> "fs", vs |-> "volume", sig |-> "encryption",
              try |-> "encryption", cont |-> "container", arch |-> "archive"]

LayerName == {"fs", "volume", "encryption", "container", "archive"}

Layer == [kind : LayerName, opener : Opener \cup {Unnamed}, index : Nat \cup {NoIndex}]

(***************************************************************************)
(* The layer an opener's child adds to the locator.  In the code a layer   *)
(* carries scheme(), format() or kind() of its opener and an archive layer *)
(* nothing but the member; here the opener itself stands for that token.   *)
(* So openers are taken to have tokens of their own: two that share one    *)
(* could not be told apart in a locator, as two archive openers cannot.    *)
(***************************************************************************)

\* A slip in LayerOf: the index counts from one.
LayerFromOne(c, s, pass, o, j) ==
  [kind   |-> LayerKind[pass],
   opener |-> IF pass = "arch" THEN Unnamed ELSE o,
   index  |-> IF pass = "vs" \/ (pass = "arch" /\ ~AnswerOf(c, s, o).stream)
                THEN j ELSE NoIndex]

LayerOf(c, s, pass, o, j) ==
  [kind   |-> LayerKind[pass],
   opener |-> IF pass = "arch" THEN Unnamed ELSE o,
   index  |-> IF pass = "vs" \/ (pass = "arch" /\ ~AnswerOf(c, s, o).stream)
                THEN j - 1 ELSE NoIndex]

OpenersAssumption ==
  /\ MaxDepth \in Nat
  /\ Broken \notin Source
  /\ Unnamed \notin Opener
  /\ \A p \in Pass : Registered[p] \in Seq(Opener)

ASSUME OpenersWellFormed == OpenersAssumption
=============================================================================
