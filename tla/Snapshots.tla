------------------------------ MODULE Snapshots ------------------------------
(***************************************************************************)
(* Views of the snapshots of a volume (resolver/src/lib.rs): each has an   *)
(* epoch tag made from its time and a locator under that of the source.    *)
(* A listing of views is built up, and the locator of one of them goes the *)
(* way of LocatorUri, cited as a text and opened again.                    *)
(***************************************************************************)
EXTENDS LocatorUri, FieldReaders

CONSTANTS
  Sources,     \* the locators whose snapshots are listed
  Xids,        \* the transaction ids of the snapshots
  TagLen,      \* the bytes of an epoch tag: 32
  TimeLen,     \* those of a u64: 8
  MaxViews     \* the bound of a listing

ASSUME SnapshotsAssumption ==
  /\ TimeLen \in Widths /\ TagLen \in TimeLen..MaxOffset
  /\ U64 = Power[TimeLen] - 1
  /\ Xids \subseteq 0..U64
  /\ MaxViews \in Nat

VARIABLE
  views        \* the listing, with the times the epochs were made from

snapshotVars == <<loc, text, slips, views>>

-----------------------------------------------------------------------------
\* Where the time begins in the tag.
TimeAt == TagLen - TimeLen

\* Slips in EpochFromCreateTime: the bytes of the host, and the wrong end.
EpochOfHost(time) ==
  [i \in 1..TagLen |-> IF i <= TimeAt THEN 0 ELSE ToBytes("le", time, TimeLen)[i - TimeAt]]
EpochAtFront(time) ==
  [i \in 1..TagLen |-> IF i > TimeLen THEN 0 ELSE ToBytes("be", time, TimeLen)[i]]

EpochFromCreateTime(time) ==
  [i \in 1..TagLen |-> IF i <= TimeAt THEN 0 ELSE ToBytes("be", time, TimeLen)[i - TimeAt]]

SnapshotView(spec, xid, time) ==
  [epoch |-> EpochFromCreateTime(time), xid |-> xid,
   locator |-> Append(spec, [tag |-> "snapshot", kind |-> "apfs", id |-> xid])]

-----------------------------------------------------------------------------
SInit == Init /\ views = {}

\* snapshot_view, called for one more snapshot of the source.
TakeView ==
  /\ Cardinality(views) < MaxViews
  /\ slips = 0 /\ loc \in Sources
  /\ \E xid \in Xids, time \in 0..U64 :
       views' = views \cup {[view |-> SnapshotView(loc, xid, time), time |-> time]}
  /\ UNCHANGED <<loc, text, slips>>

\* One of the views is cited.
Cite ==
  /\ \E v \in views : loc' = v.view.locator /\ text' = ToUri(v.view.locator)
  /\ views' = {}
  /\ UNCHANGED slips

SNext == TakeView \/ Cite \/ (Next /\ UNCHANGED views)

SSpec == SInit /\ [][SNext]_snapshotVars

-----------------------------------------------------------------------------
(***************************************************************************)
(* Properties                                                              *)
(***************************************************************************)

\* Lexicographic order of tags, by which a history is sorted.
Earlier(a, b) ==
  \E k \in 1..TagLen : a[k] < b[k] /\ \A i \in 1..(k - 1) : a[i] = b[i]

\* A later snapshot has a lexicographically greater tag, and only a later one.
EpochsOrdered ==
  \A v, w \in views : v.time < w.time <=> Earlier(v.view.epoch, w.view.epoch)

\* The time is read back out of the tag by the reader of a big endian u64.
EpochReversible ==
  \A v \in views : ReadField("be", TimeLen, v.view.epoch, TimeAt) = v.time

\* A reader pointed anywhere into a tag, in range, across its end or beyond it,
\* returns the number whose bytes stand there, or 0.
FieldsExact ==
  \A v \in views : \A order \in Order, width \in Widths, off \in 0..MaxOffset :
    LET n == ReadField(order, width, v.view.epoch, off)
    IN  IF off + width <= TagLen
        THEN ToBytes(order, n, width) = SubSeq(v.view.epoch, off + 1, off + width)
        ELSE n = 0
=============================================================================
