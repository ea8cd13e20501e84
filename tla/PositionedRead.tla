--------------------------- MODULE PositionedRead ---------------------------
(***************************************************************************)
(* What read_at promises its callers (ImageSource, core/src/source.rs): a  *)
(* read takes effect in one step, whoever else is reading; it returns the  *)
(* bytes at its own offset, all of them up to the end of the stream, or it *)
(* fails.                                                                  *)
(***************************************************************************)
EXTENDS ByteStream

CONSTANTS
  Thread,      \* the callers
  Declared,    \* the length the source reports, len()
  Actual,      \* the bytes its readers really have
  Requests,    \* the reads considered
  Idle         \* no read is in progress

VARIABLES req, ans

vars == <<req, ans>>

\* The number of bytes of a request that exist.
Present(r) ==
  LET end == Lesser(Declared, Actual)
  IN  IF r.offset >= end THEN 0 ELSE Lesser(r.n, end - r.offset)

Init == req = [t \in Thread |-> Idle] /\ ans = [t \in Thread |-> Ok(<<>>)]

Call(t) ==
  /\ req[t] = Idle
  /\ \E r \in Requests : req' = [req EXCEPT ![t] = r]
  /\ ans' = [ans EXCEPT ![t] = Ok(<<>>)]

\* At or past the end there is nothing to fail.
Reply(t) ==
  /\ req[t] # Idle
  /\ req' = [req EXCEPT ![t] = Idle]
  /\ \E a \in {Ok(Bytes(req[t].offset, Present(req[t])))} \cup {Err, Panicked} :
       /\ req[t].offset >= Declared => a.kind = "ok"
       /\ ans' = [ans EXCEPT ![t] = a]

Next == \E t \in Thread : Call(t) \/ Reply(t)

Spec == Init /\ [][Next]_vars
=============================================================================
