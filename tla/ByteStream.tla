----------------------------- MODULE ByteStream -----------------------------
(***************************************************************************)
(* Positioned reads of an immutable byte stream (core/src/source.rs).  The *)
(* byte at an offset is represented by the offset, so that the content of  *)
(* a buffer tells where each of its bytes was read.                        *)
(***************************************************************************)
EXTENDS Integers, Sequences

Lesser(a, b) == IF a < b THEN a ELSE b

\* The k bytes at offset.
Bytes(offset, k) == [i \in 1..k |-> offset + i - 1]

\* A call of read_at(offset, buf) with a buffer of n bytes.
Request == [offset : Nat, n : Nat]

\* What it returns: Ok(bytes.len()) with bytes in the front of the buffer, Err,
\* or the unwinding of a panic.
Answer == [kind : {"ok", "err", "panic"}, bytes : Seq(Nat)]

Ok(bytes) == [kind |-> "ok", bytes |-> bytes]
Err       == [kind |-> "err", bytes |-> <<>>]
Panicked  == [kind |-> "panic", bytes |-> <<>>]
=============================================================================
