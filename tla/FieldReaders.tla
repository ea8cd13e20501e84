---------------------------- MODULE FieldReaders ----------------------------
(***************************************************************************)
(* The bounds-checked integer readers of core/src/read.rs, and the writing *)
(* of an integer as bytes that they reverse.  A byte is a digit of Radix.  *)
(***************************************************************************)
EXTENDS Integers, Sequences

CONSTANTS
  Radix,       \* 256
  Widths,      \* the bytes of a u16, u32 and u64: 2, 4 and 8
  MaxOffset    \* usize::MAX

ASSUME FieldReadersAssumption ==
  /\ Radix \in Nat \ {0, 1}
  /\ Widths \subseteq Nat \ {0}
  /\ MaxOffset \in Nat

Order == {"be", "le"}

\* The number of sequences of k bytes.
Power[k \in Nat] == IF k = 0 THEN 1 ELSE Radix * Power[k - 1]

\* The value of the i-th of width bytes counts so often.
Weight(order, width, i) == Power[IF order = "be" THEN width - i ELSE i - 1]

\* to_be_bytes, to_le_bytes
ToBytes(order, n, width) == [i \in 1..width |-> (n \div Weight(order, width, i)) % Radix]

\* from_be_bytes, from_le_bytes
FromBytes(order, bytes) ==
  LET sum[i \in 0..Len(bytes)] ==
        IF i = 0 THEN 0 ELSE sum[i - 1] + bytes[i] * Weight(order, Len(bytes), i)
  IN  sum[Len(bytes)]

\* A slip in Slice: what is there of a field is taken for the field.
SlicePartial(data, off, width) ==
  IF off >= Len(data) THEN {}
  ELSE {SubSeq(data, off + 1, IF off + width <= Len(data) THEN off + width ELSE Len(data))}

\* off.checked_add(width) and data.get(off..end): {} where they are None.  The
\* first decides nothing the second would not: a slice is shorter than usize::MAX, so
\* a sum beyond it is beyond data too.  In the code it is there so that the
\* addition does not overflow, which is a panic in a debug build.
Slice(data, off, width) ==
  IF off + width <= MaxOffset /\ off + width <= Len(data)
  THEN {SubSeq(data, off + 1, off + width)} ELSE {}

\* be_u16 .. le_u64
ReadField(order, width, data, off) ==
  LET field == Slice(data, off, width)
  IN  IF field = {} THEN 0 ELSE FromBytes(order, CHOOSE bytes \in field : TRUE)
=============================================================================
