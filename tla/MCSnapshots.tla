----------------------------- MODULE MCSnapshots -----------------------------
(***************************************************************************)
(* The locators of MCLocatorUri, and the snapshots of those that end in a  *)
(* volume.  Numbers are binary: the largest u16, u32 and u64 have one, two *)
(* and three digits.                                                       *)
(***************************************************************************)
EXTENDS MCLocatorUri, Snapshots

MCSources == {l \in MCWritten : l[Len(l)].tag = "volume"}

MCXids == {0, U64}
=============================================================================
