----------------------------- MODULE MCSeekPool -----------------------------
(***************************************************************************)
(* Two threads over two cursors.                                           *)
(***************************************************************************)
EXTENDS SeekPool

CONSTANTS t1, t2

\* A read of all the source has, and one the declared length cuts.
TwoWindows == {[offset |-> 0, n |-> 2], [offset |-> 1, n |-> 2]}
=============================================================================
