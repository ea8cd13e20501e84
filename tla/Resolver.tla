------------------------------ MODULE Resolver ------------------------------
(***************************************************************************)
(* The layer resolver of resolver/src/lib.rs: the recursive search of      *)
(* open_with_credentials and resolve_to_source, and the loop of open_tree. *)
(* The recursion is a stack of activation records; a cursor in each one    *)
(* says which opener, and which child of it, comes next.                   *)
(***************************************************************************)
EXTENDS Openers

CONSTANT Calls       \* the calls considered: entry point, root, evidence

ASSUME CallsAssumption == Calls \subseteq {c \in Call : WellFormed(c)}

VARIABLES call,      \* the arguments of the call
          stack,     \* activation records, the innermost one last
          ret        \* what the innermost record returns, or Pending

vars == <<call, stack, ret>>

-----------------------------------------------------------------------------
(***************************************************************************)
(* A record's cursor is (pass, i, j): the i-th opener of the pass, not     *)
(* opened yet when j = 0, and otherwise the j-th child it handed back.     *)
(* Pass 0 is the start of the function.  attempts is credential_attempt.   *)
(***************************************************************************)
Frame == [src : Source, spec : Seq(Layer), depth : Nat, pass : Nat,
          i : Nat \ {0}, j : Nat, attempts : Seq(Nat)]

Outcome == [res : {"pending", "none", "some", "err"}, src : Source,
            spec : Seq(Layer), source_spec : Seq(Layer)]

Bare(res) == [res |-> res, src |-> call.root, spec |-> <<>>, source_spec |-> <<>>]

Pending == Bare("pending")

\* Ok(None), the early return of an error with `?`, and Ok(Some(found)).
None == Bare("none")
Err == Bare("err")
Some(s, spec, source_spec) ==
  [res |-> "some", src |-> s, spec |-> spec, source_spec |-> source_spec]

\* A slip in Enter: the recursive call passes its own depth on.
EnterSameDepth(s, spec, depth, pass) ==
  [src |-> s, spec |-> spec, depth |-> IF depth = 0 THEN 0 ELSE depth - 1,
   pass |-> pass, i |-> 1, j |-> 0, attempts |-> <<>>]

\* The activation record of a call.
Enter(s, spec, depth, pass) ==
  [src |-> s, spec |-> spec, depth |-> depth, pass |-> pass, i |-> 1, j |-> 0,
   attempts |-> <<>>]

Top == stack[Len(stack)]

SetTop(f) == [stack EXCEPT ![Len(stack)] = f]

Running == ret.res = "pending" /\ stack # <<>>

InPass == Running /\ Top.pass # 0

PassName(c, f) == Passes[c.entry][f.pass]

\* The last resort goes through the schemes recorded for it, the other passes
\* through everything registered.  The recorded positions are positions of the
\* same slice, so the skip of lib.rs:490-492 for one beyond it never happens.
Line(c, f) ==
  IF PassName(c, f) = "try"
    THEN [k \in DOMAIN f.attempts |-> EncryptionLayers[f.attempts[k]]]
    ELSE Registered[PassName(c, f)]

Current == Line(call, Top)[Top.i]

CurrentAnswer == AnswerOf(call, Top.src, Current)

AtOpener == InPass /\ Top.i <= Len(Line(call, Top)) /\ Top.j = 0

AtChild == InPass /\ Top.i <= Len(Line(call, Top)) /\ Top.j > 0

\* Slips in Claimed: a Maybe scheme is decrypted in the signature pass, and a
\* filesystem needs a Yes.
ClaimedEagerly ==
  \/ PassName(call, Top) \in {"try", "sig"} /\ CurrentAnswer.verdict # "No"
  \/ Engaged(call, Top.src, PassName(call, Top), Current)
ClaimedOnYes ==
  PassName(call, Top) = "try"
    \/ /\ Engaged(call, Top.src, PassName(call, Top), Current)
       /\ PassName(call, Top) = "fs" => CurrentAnswer.verdict = "Yes"

Claimed == PassName(call, Top) = "try" \/ Engaged(call, Top.src, PassName(call, Top), Current)

NextOpener(f) == [f EXCEPT !.i = @ + 1, !.j = 0]

\* A slip in Recorded: the index after the scheme's own.
RecordedNext(f) == Append(f.attempts, f.i + 1)

\* credential_attempt.push(i)
Recorded(f) == Append(f.attempts, f.i)

\* A slip in Tolerated: a volume that cannot be opened is skipped.
ToleratedVolume(pass) == pass \in {"try", "vs"}

\* The passes in which a child that cannot be had is no failure.
Tolerated(pass) == pass = "try"

\* A slip in Resume: the caller takes the same child again.
ResumeSame(f) == f

\* The caller's loop goes on after a child that came back empty.
Resume(f) == [f EXCEPT !.j = @ + 1]

-----------------------------------------------------------------------------
Init ==
  /\ call \in Calls
  /\ stack = <<Enter(call.root, <<>>, 0, IF call.entry = "tree" THEN 1 ELSE 0)>>
  /\ ret = Pending

\* if depth > MAX_DEPTH { return Ok(None) }
DepthCap ==
  /\ Running /\ Top.pass = 0
  /\ Top.depth > MaxDepth
  /\ ret' = None
  /\ UNCHANGED <<call, stack>>

\* read_sniff_buffers(&source)? and the window built from it.
Sniff ==
  /\ Running /\ Top.pass = 0
  /\ Top.depth <= MaxDepth
  /\ IF call.evidence[Top.src].readable
       THEN /\ stack' = SetTop([Top EXCEPT !.pass = 1])
            /\ ret' = ret
       ELSE /\ ret' = Err
            /\ stack' = stack
  /\ UNCHANGED call

\* The opener does not claim the source.  The signature pass keeps the index
\* of a Maybe scheme for the last resort.
Decline ==
  /\ AtOpener
  /\ ~Claimed
  /\ stack' = SetTop([NextOpener(Top) EXCEPT !.attempts =
       IF PassName(call, Top) = "sig" /\ CurrentAnswer.verdict = "Maybe"
         THEN Recorded(Top) ELSE @])
  /\ UNCHANGED <<call, ret>>

\* A filesystem or tree opener claims the source: its open() ends the search.
Mount ==
  /\ AtOpener
  /\ Claimed
  /\ PassName(call, Top) \in MountPass
  /\ ret' = IF CurrentAnswer.ok
              THEN Some(Top.src,
                        IF PassName(call, Top) = "fs"
                          THEN Append(Top.spec, LayerOf(call, Top.src, "fs", Current, 1))
                          ELSE Top.spec,
                        Top.spec)
              ELSE Err
  /\ UNCHANGED <<call, stack>>

\* Any other opener claims it: open()? gives the children to descend into.
OpenLayer ==
  /\ AtOpener
  /\ Claimed
  /\ PassName(call, Top) \notin MountPass
  /\ IF CurrentAnswer.ok
       THEN /\ stack' = SetTop([Top EXCEPT !.j = 1])
            /\ ret' = ret
       ELSE /\ ret' = Err
            /\ stack' = stack
  /\ UNCHANGED call

\* The recursive call on the next child, under the locator extended by a layer.
Descend ==
  /\ AtChild
  /\ Top.j <= Len(CurrentAnswer.kids)
  /\ CurrentAnswer.kids[Top.j] # Broken
  /\ stack' = Append(stack, Enter(CurrentAnswer.kids[Top.j],
                Append(Top.spec, LayerOf(call, Top.src, PassName(call, Top), Current, Top.j)),
                Top.depth + 1, 0))
  /\ UNCHANGED <<call, ret>>

\* open_volume(index)? and layer.open(creds)? are loud; the decrypt of a
\* credential attempt that fails goes on with the next scheme.
ChildFails ==
  /\ AtChild
  /\ Top.j <= Len(CurrentAnswer.kids)
  /\ CurrentAnswer.kids[Top.j] = Broken
  /\ IF Tolerated(PassName(call, Top))
       THEN /\ stack' = SetTop(NextOpener(Top))
            /\ ret' = ret
       ELSE /\ ret' = Err
            /\ stack' = stack
  /\ UNCHANGED call

\* Every child of the opener came back empty.
LayerSpent ==
  /\ AtChild
  /\ Top.j > Len(CurrentAnswer.kids)
  /\ stack' = SetTop(NextOpener(Top))
  /\ UNCHANGED <<call, ret>>

\* The loop over one opener list ends and the next one starts.
NextPass ==
  /\ InPass
  /\ Top.i > Len(Line(call, Top))
  /\ Top.pass < Len(Passes[call.entry])
  /\ stack' = SetTop([Top EXCEPT !.pass = @ + 1, !.i = 1, !.j = 0])
  /\ UNCHANGED <<call, ret>>

\* Nothing claimed the source: Ok(None), or the source itself as the raw terminal.
Exhausted ==
  /\ InPass
  /\ Top.i > Len(Line(call, Top))
  /\ Top.pass = Len(Passes[call.entry])
  /\ ret' = IF call.entry = "source" THEN Some(Top.src, Top.spec, Top.spec) ELSE None
  /\ UNCHANGED <<call, stack>>

\* The innermost record returns.  Its caller takes the next child on Ok(None)
\* and returns anything else as it is.
Return ==
  /\ ret.res # "pending"
  /\ stack # <<>>
  /\ LET below  == SubSeq(stack, 1, Len(stack) - 1)
         caller == Len(stack) - 1
     IN  IF caller > 0 /\ ret.res = "none"
           THEN /\ stack' = [below EXCEPT ![caller] = Resume(@)]
                /\ ret' = Pending
           ELSE /\ stack' = below
                /\ ret' = ret
  /\ UNCHANGED call

Done == stack = <<>>

\* The call has returned.
Returned == Done /\ UNCHANGED vars

Step == \/ DepthCap \/ Sniff \/ Decline \/ Mount \/ OpenLayer \/ Descend
        \/ ChildFails \/ LayerSpent \/ NextPass \/ Exhausted \/ Return

Next == Step \/ Returned

Spec == Init /\ [][Next]_vars

FairSpec == Spec /\ WF_vars(Step)
-----------------------------------------------------------------------------
(***************************************************************************)
(* What the search is judged by, read off the evidence alone.              *)
(***************************************************************************)

\* Something other than a credential attempt fails at source s.
LoudFailure(c, s) ==
  \/ ~c.evidence[s].readable
  \/ \E pass \in PassesOf(c) \ {"try"} : \E o \in Elements(Registered[pass]) :
       /\ Engaged(c, s, pass, o)
       /\ ~AnswerOf(c, s, o).ok \/ Broken \in Elements(Kids(c, s, o))

\* A search that looks at source s does not come back empty from it.  That
\* counts a Maybe encryption scheme whose layer cannot be constructed: the `?`
\* of lib.rs:493, which the comment at lib.rs:478-480 and error.rs:91-92 call
\* loud.  ADR 0010 (lines 63 and 83-86) has it fall through instead; that
\* reading is AttemptFallsThrough below, and it does not hold.
Ends(c, s) ==
  \/ c.entry # "tree" /\ ~c.evidence[s].readable
  \/ c.entry = "source"
  \/ \E pass \in PassesOf(c) : \E o \in Elements(Registered[pass]) :
       /\ Engaged(c, s, pass, o)
       /\ \/ pass \in MountPass
          \/ ~AnswerOf(c, s, o).ok
          \/ pass # "try" /\ Broken \in Elements(Kids(c, s, o))

\* Opener o of the pass hands back t as its j-th child of s.
Yields(c, s, pass, o, j, t) ==
  /\ pass \notin MountPass
  /\ Engaged(c, s, pass, o)
  /\ AnswerOf(c, s, o).ok
  /\ j \in DOMAIN Kids(c, s, o)
  /\ Kids(c, s, o)[j] = t

Leads(c, s, t) ==
  \E pass \in PassesOf(c) : \E o \in Elements(Registered[pass]) :
    \E j \in DOMAIN Kids(c, s, o) : Yields(c, s, pass, o, j, t)

\* Starting at source s at nesting level d, no path of layers within the
\* depth cap ends anywhere.
Barren(c, s, d) ==
  \A n \in 1..(MaxDepth + 1 - d) : \A path \in [1..n -> Source] :
    ~ /\ path[1] = s
      /\ \A k \in 1..(n - 1) : Leads(c, path[k], path[k + 1])
      /\ Ends(c, path[n])

KidSpent(c, d, pass, kid) ==
  IF kid = Broken THEN pass = "try" ELSE Barren(c, kid, d + 1)

Spent(c, s, d, pass, o) ==
  Engaged(c, s, pass, o) =>
    /\ pass \notin MountPass
    /\ AnswerOf(c, s, o).ok
    /\ \A kid \in Elements(Kids(c, s, o)) : KidSpent(c, d, pass, kid)

\* What a reader of the locator takes a layer over source s to mean: an opener
\* goes by the token the layer carries for it (see LayerOf), so an archive
\* layer stands for any archive opener that claims s.
Reopens(c, s, layer, t) ==
  \E o \in Opener :
    LET a == AnswerOf(c, s, o) IN
      /\ a.verdict # "No" /\ a.ok
      /\ layer.kind # "archive" => layer.opener = o
      /\ o \in Elements(CASE layer.kind = "volume"     -> VolumeSystems
                         [] layer.kind = "encryption" -> EncryptionLayers
                         [] layer.kind = "container"  -> Containers
                         [] layer.kind = "archive"    -> Archives)
      /\ IF layer.kind = "volume" \/ (layer.kind = "archive" /\ ~a.stream)
           THEN layer.index + 1 \in DOMAIN a.kids /\ a.kids[layer.index + 1] = t
           ELSE layer.index = NoIndex /\ a.kids = <<t>>

\* A locator replayed from the root of the call, layer by layer, gives s.
Replays(c, spec, s) ==
  \E path \in [1..(Len(spec) + 1) -> Source] :
    /\ path[1] = c.root
    /\ path[Len(spec) + 1] = s
    /\ \A k \in 1..Len(spec) : Reopens(c, path[k], spec[k], path[k + 1])

-----------------------------------------------------------------------------
(***************************************************************************)
(* Properties                                                              *)
(***************************************************************************)

\* The variables have their types: the stack holds well-formed activation
\* records whose cursor stays inside the opener lists.
TypeOK ==
  /\ call \in Call
  /\ stack \in Seq(Frame)
  /\ ret \in Outcome
  /\ \A k \in DOMAIN stack :
       /\ stack[k].pass \in 0..Len(Passes[call.entry])
       /\ Elements(stack[k].attempts) \subseteq DOMAIN EncryptionLayers

\* The bomb guard of open_with_credentials and resolve_to_source: whatever the
\* evidence contains, itself included, the recursion is at most MaxDepth + 2
\* calls deep, each level has pushed one locator layer, and nothing is ever
\* found under more than MaxDepth layers.
DepthBounded ==
  /\ \A k \in DOMAIN stack : /\ stack[k].depth = k - 1
                             /\ Len(stack[k].spec) = k - 1
                             /\ stack[k].depth <= MaxDepth + 1
  /\ ret.res = "some" => Len(ret.source_spec) <= MaxDepth

\* The locator of every level of the descent, and of what is returned,
\* replays from the root to the very source it stands for: the index in a
\* volume or archive layer is the child that was opened, the scheme is the
\* opener's, also through the indirect list of credential attempts.
RouteFaithful ==
  /\ \A k \in DOMAIN stack : Replays(call, stack[k].spec, stack[k].src)
  /\ ret.res = "some" => Replays(call, ret.source_spec, ret.src)

\* Whatever a level of the descent has gone past (an earlier pass, an earlier
\* opener, an earlier child) leads nowhere: no filesystem, no failure, no
\* locked encryption layer within the depth cap was passed over in silence.
\* A failure is what lib.rs propagates with `?`; the one thing passed over is a
\* Maybe scheme whose decrypt fails.  See Ends for the failure on which the
\* code and ADR 0010 differ.
NothingPassedOver ==
  \A k \in DOMAIN stack :
    LET f == stack[k] IN
      /\ \A p \in 1..(f.pass - 1) :
           LET pass == Passes[call.entry][p]
           IN  \A o \in Elements(Registered[pass]) : Spent(call, f.src, f.depth, pass, o)
      /\ f.pass > 0 =>
           /\ \A m \in 1..(f.i - 1) : Spent(call, f.src, f.depth, PassName(call, f), Line(call, f)[m])
           /\ \A m \in 1..(f.j - 1) :
                KidSpent(call, f.depth, PassName(call, f), Kids(call, f.src, Line(call, f)[f.i])[m])

\* Ok(None) is a clean unknown: an answer of None, at any level, means that no
\* source reachable within the depth cap below that level is unreadable,
\* mountable, damaged or locked.  The code must never report identified
\* evidence it could not open as "not recognized".  A Maybe scheme whose layer
\* cannot be constructed counts as damaged here, as it does in the code; ADR
\* 0010 would have it end in Ok(None) (see Ends).
NoneIsClean ==
  ret.res = "none" =>
    /\ Done => Barren(call, call.root, 0)
    /\ ~Done => Barren(call, Top.src, Top.depth)

\* resolve_to_source returns the innermost source no packaging layer claims.
InnermostSource ==
  Done /\ call.entry = "source" /\ ret.res = "some" =>
    \A o \in Elements(Containers) \cup Elements(Archives) :
      AnswerOf(call, ret.src, o).verdict = "No"

\* A container that only ever decodes to further containers has no innermost
\* source: past the depth cap resolve_to_source yields Ok(None).
BombIsNone ==
  Done /\ call.entry = "source"
    /\ (\A s \in Source : \E o \in Elements(Containers) : AnswerOf(call, s, o).verdict # "No")
    => ret.res # "some"

\* ADR 0010, lines 63 and 83-86: after a Maybe verdict a failed construct or
\* decrypt means the next scheme and in the end Ok(None).  So an error from
\* open_with_credentials has a cause outside the credential attempts.
AttemptFallsThrough ==
  Done /\ call.entry = "open" /\ ret.res = "err" => \E s \in Source : LoudFailure(call, s)

\* The call returns, whatever the evidence contains.
Termination == <>Done

\* The search as a whole answers what the declarative specification promises;
\* what that specification takes from the code where the documents say
\* something else is listed at the head of Resolution.
Promise == INSTANCE Resolution WITH
             outcome <- IF Done THEN ret ELSE Pending

ResolvesFirst == Promise!Spec
=============================================================================
