----------------------------- MODULE MCWorkers -----------------------------
(***************************************************************************)
(* Two workers and a third thread over two cursors.  The windows overlap;  *)
(* the stream is declared with three bytes, of which the readers have two. *)
(***************************************************************************)
EXTENDS Workers

CONSTANTS t1, t2, t3

MCWindow == [w \in Worker |-> IF w = t1 THEN [base |-> 0, len |-> 4] ELSE [base |-> 1, len |-> 1]]

MCRequests == [offset : 0..4, n : 0..4]

\* A read cut by the declared length and then by the readers, and one that
\* starts past the end.
ShortStream == {[offset |-> 0, n |-> 4], [offset |-> 3, n |-> 1]}
=============================================================================
