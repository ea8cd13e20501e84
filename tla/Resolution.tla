----------------------------- MODULE Resolution -----------------------------
(***************************************************************************)
(* What the resolver promises, without a search.  Every place a call could *)
(* stop is a site of some source within the depth cap: a filesystem to     *)
(* mount, or a failure to report.  A site has a route: the coordinates     *)
(* (pass, opener, child) taken at each level to get there.  The call       *)
(* returns, in one step, the site whose route is lexicographically least,  *)
(* that is: filesystem before volume system before signature encryption    *)
(* before container before archive before credential attempt, each in      *)
(* registration order, children in index order, at every level.            *)
(*                                                                         *)
(* On four points the documents say something else than the code, and the  *)
(* promise is the code's:                                                  *)
(*  - Several openers, or several members, that lead somewhere: the least  *)
(*    route wins (lib.rs:254-268, 395-403, and the doc at 155-157).        *)
(*    error.rs:110-113, ADR 0007:87-88 and, for a collection of dumps, ADR *)
(*    0011:106-108 speak of reporting the ambiguity; no code under src/    *)
(*    constructs VfsError::Ambiguous outside a test.                       *)
(*  - A Maybe scheme whose layer cannot be constructed is an error         *)
(*    (lib.rs:493); ADR 0010:63, 83-86 lets it fall through.  The property *)
(*    Resolver!AttemptFallsThrough shows the difference.                   *)
(*  - Past the depth cap resolve_to_source answers with the container at   *)
(*    the cap; the doc at lib.rs:159-161 says Ok(None).  The property      *)
(*    Resolver!BombIsNone shows it.                                        *)
(*  - An archive without members is the raw terminal; the doc at           *)
(*    lib.rs:74-75 rules that out.  Resolver!InnermostSource shows it.     *)
(***************************************************************************)
EXTENDS Openers

VARIABLES call, outcome

Answers(res, c) == [res |-> res, src |-> c.root, spec |-> <<>>, source_spec |-> <<>>]

\* Every claim made on source s: the pass, its rank, the opener and its rank.
Claims(c, s) ==
  LET passes == Passes[c.entry]
      Claim(p, i) == [p |-> p, i |-> i, pass |-> passes[p],
                      opener |-> Registered[passes[p]][i]]
      all == UNION {{Claim(p, i) : i \in DOMAIN Registered[passes[p]]} : p \in DOMAIN passes}
  IN  {cl \in all : Engaged(c, s, cl.pass, cl.opener)}

Site(at, res, s, spec) ==
  [route |-> <<at>>, res |-> res, src |-> s, spec |-> spec, source_spec |-> <<>>]

\* The sites of one source: where a search that looks at it would stop.  An
\* opener that engages and cannot open the source is a failure in every pass,
\* the last resort included; a child that cannot be had is none there.
Sites(c, s) ==
  LET mounts == {cl \in Claims(c, s) : cl.pass \in MountPass}
      layers == Claims(c, s) \ mounts
      Ans(cl) == AnswerOf(c, s, cl.opener)
  IN  {Site(<<cl.p, cl.i, 0>>, "some", s,
            IF cl.pass = "fs" THEN <<LayerOf(c, s, "fs", cl.opener, 1)>> ELSE <<>>) :
         cl \in {m \in mounts : Ans(m).ok}}
      \cup {Site(<<cl.p, cl.i, 0>>, "err", s, <<>>) :
              cl \in {m \in mounts \cup layers : ~Ans(m).ok}}
      \cup (UNION {{Site(<<cl.p, cl.i, j>>, "err", s, <<>>) :
                      j \in {j \in DOMAIN Ans(cl).kids : Ans(cl).kids[j] = Broken}} :
                     cl \in {l \in layers : l.pass # "try" /\ Ans(l).ok}})
      \cup {Site(<<0, 0, 0>>, "err", s, <<>>) :
              x \in {y \in {s} : c.entry # "tree" /\ ~c.evidence[y].readable}}
      \cup {Site(<<Len(Passes[c.entry]) + 1, 0, 0>>, "some", s, <<>>) :
              x \in {y \in {s} : c.entry = "source"}}

\* The children a source can be descended into, with the layer each one adds.
Hops(c, s) ==
  UNION {LET kids == Kids(c, s, cl.opener)
         IN  {[at |-> <<cl.p, cl.i, j>>, to |-> kids[j],
               layer |-> LayerOf(c, s, cl.pass, cl.opener, j)] :
                j \in {j \in DOMAIN kids : kids[j] # Broken}} :
           cl \in {l \in Claims(c, s) : /\ l.pass \notin MountPass
                                        /\ AnswerOf(c, s, l.opener).ok}}

Under(hop, e) ==
  [e EXCEPT !.route = <<hop.at>> \o @, !.spec = <<hop.layer>> \o @,
            !.source_spec = <<hop.layer>> \o @]

\* The sites at most MaxDepth layers below the root of the call.  For
\* resolve_to_source every source within the cap is a site, so there is always
\* one: the container at the cap at the latest.
SitesOf(c) ==
  LET Below[n \in 0..(MaxDepth + 1)] ==
        [s \in Source |->
           IF n = 0 THEN {}
           ELSE Sites(c, s) \cup
                UNION {{Under(h, e) : e \in Below[n - 1][h.to]} : h \in Hops(c, s)}]
  IN  Below[MaxDepth + 1][c.root]

\* Lexicographic order, on coordinates and on routes.
Smaller(a, b) ==
  \E k \in 1..3 : a[k] < b[k] /\ \A m \in 1..(k - 1) : a[m] = b[m]

Before(r, q) ==
  \E k \in (DOMAIN r) \cap (DOMAIN q) :
    Smaller(r[k], q[k]) /\ \A m \in 1..(k - 1) : r[m] = q[m]

Promised(c) ==
  LET sites == SitesOf(c)
      first == CHOOSE e \in sites : \A x \in sites : x = e \/ Before(e.route, x.route)
  IN  IF sites = {} THEN Answers("none", c)
      ELSE IF first.res = "err" THEN Answers("err", c)
      ELSE [res |-> "some", src |-> first.src, spec |-> first.spec,
            source_spec |-> first.source_spec]

Init == call \in Call /\ outcome = Answers("pending", call)

Answered == outcome.res # "pending"

Resolve ==
  /\ ~Answered
  /\ Answered'
  /\ outcome' = Promised(call)
  /\ UNCHANGED call

Spec == Init /\ [][Resolve]_<<call, outcome>>
=============================================================================
