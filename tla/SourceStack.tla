---------------------------- MODULE SourceStack ----------------------------
(***************************************************************************)
(* A file, the byte windows stacked on it, and the three ways the windows  *)
(* are read: through a Read + Seek view (SourceCursor), with read_exact_at *)
(* and with the two bounded reads a probe is given (read_sniff_buffers and *)
(* SniffWindow).  FileSource keeps the length it saw when it was opened;   *)
(* the file may change under it, and pread may return less than it could.  *)
(***************************************************************************)
EXTENDS ByteStream

CONSTANTS
  MaxU,        \* u64::MAX
  MaxI,        \* i64::MAX
  Sizes,       \* the lengths the file has at any time
  Faults,      \* what may happen to the file, one of these sets
  MaxWindows,  \* the SubRanges stacked at most
  Bounds,      \* the bases and lengths windows are made with
  Steps,       \* the distances of relative seeks
  Lengths,     \* the sizes of the buffers given to reads
  SniffCap, TailCap

ASSUME SourceStackAssumption ==
  /\ MaxU \in Nat /\ MaxI \in 0..MaxU /\ MaxWindows \in Nat
  /\ Sizes \subseteq 0..MaxI
  /\ Faults \subseteq SUBSET {"change", "partial"}
  /\ Bounds \subseteq 0..MaxU
  /\ Steps \subseteq (0 - MaxI - 1)..MaxI
  /\ Lengths \subseteq Nat \ {0}
  /\ SniffCap \in Nat \ {0} /\ TailCap \in Nat

VARIABLES
  faults,           \* "change": the file is changed while it is open;
                    \* "partial": pread may return less than there is
  size, len,        \* the file's length, and the one FileSource keeps
  windows,          \* SubRanges, the outermost one first
  cur,              \* the SourceCursor over the innermost, or Unopened
  from, copied, ended,   \* what its user read since the last seek
  exact,            \* the last read_exact_at and its outcome
  sniff             \* the sniff buffers, as far as they are read

vars == <<faults, size, len, windows, cur, from, copied, ended, exact, sniff>>

-----------------------------------------------------------------------------
Unopened == [base |-> 0, len |-> 0, pos |-> -1]

Opened == cur.pos >= 0

\* Nobody reads yet.  One user at a time is enough: reading leaves the sources
\* as they are.
Unused == ~Opened /\ exact.outcome = "none" /\ sniff.stage = "none"

\* u64 arithmetic that saturates.
SatAdd(a, b) == Lesser(a + b, MaxU)
SatSub(a, b) == IF a < b THEN 0 ELSE a - b

TopLen == IF windows = <<>> THEN len ELSE windows[Len(windows)].len

\* A slip in Clamped: the window may be as long as its parent.
ClampedToParent(base, n) == Lesser(n, TopLen)

\* len.min(parent.len().saturating_sub(base))
Clamped(base, n) == Lesser(n, SatSub(TopLen, base))

Nothing == [offset |-> 0, n |-> 0]

\* A slip in Cut: the request is not cut at the window's end.
CutNot(w, r) ==
  IF r.offset >= w.len THEN Nothing ELSE [offset |-> SatAdd(w.base, r.offset), n |-> r.n]

\* The request a window makes of its parent.
Cut(w, r) ==
  IF r.offset >= w.len THEN Nothing
  ELSE [offset |-> SatAdd(w.base, r.offset), n |-> Lesser(r.n, w.len - r.offset)]

\* The request that reaches the file.
Translated(r) ==
  LET cut[k \in 0..Len(windows)] ==
        IF k = Len(windows) THEN r ELSE Cut(windows[k + 1], cut[k + 1])
  IN  cut[0]

\* What pread may answer.
Pread(r) ==
  LET there == Lesser(r.n, SatSub(size, r.offset))
  IN  IF there = 0 THEN {Ok(<<>>)}
      ELSE {Ok(Bytes(r.offset, m)) : m \in IF "partial" \in faults THEN 1..there ELSE {there}}

\* What read_at of the innermost window may answer.
ReadAt(r) ==
  LET q == Translated(r)
  IN  IF q.n = 0 \/ q.offset >= len THEN {Ok(<<>>)} ELSE {Err} \cup Pread(q)

-----------------------------------------------------------------------------
NoSniff == [stage |-> "none", total |-> 0, head |-> <<>>, tail |-> <<>>]

Init ==
  /\ faults \in Faults
  /\ size \in Sizes
  /\ len = size
  /\ windows = <<>>
  /\ cur = Unopened
  /\ from = 0 /\ copied = <<>> /\ ended = FALSE
  /\ exact = [outcome |-> "none", asked |-> Nothing, bytes |-> <<>>]
  /\ sniff = NoSniff

\* Another program writes or truncates the file.
Change ==
  /\ "change" \in faults
  /\ size' \in Sizes
  /\ UNCHANGED <<faults, len, windows, cur, from, copied, ended, exact, sniff>>

\* SubRange::new over the innermost source.
Narrow ==
  /\ Unused
  /\ Len(windows) < MaxWindows
  /\ \E base, n \in Bounds :
       windows' = Append(windows, [base |-> base, len |-> Clamped(base, n)])
  /\ UNCHANGED <<faults, size, len, cur, from, copied, ended, exact, sniff>>

\* SourceCursor::new
Open ==
  /\ Unused
  /\ \E base, n \in Bounds : cur' = [base |-> base, len |-> Clamped(base, n), pos |-> 0]
  /\ UNCHANGED <<faults, size, len, windows, from, copied, ended, exact, sniff>>

\* A slip in Advanced: the cursor moves on by what was asked for.
AdvancedByWant(asked, got) == SatAdd(cur.pos, asked)

Advanced(asked, got) == SatAdd(cur.pos, got)

\* Read::read of the cursor; its user appends the bytes to what it has.
Read ==
  /\ Opened /\ ~ended
  /\ IF cur.pos >= cur.len
       THEN ended' = TRUE /\ UNCHANGED <<cur, copied>>
       ELSE \E n \in Lengths :
              LET want == Lesser(n, cur.len - cur.pos)
              IN  \E a \in ReadAt([offset |-> SatAdd(cur.base, cur.pos), n |-> want]) :
                    /\ cur' = [cur EXCEPT !.pos = Advanced(want, Len(a.bytes))]
                    /\ copied' = copied \o a.bytes
                    /\ ended' = (a = Ok(<<>>))
  /\ UNCHANGED <<faults, size, len, windows, from, exact, sniff>>

SeekFrom == [whence : {"start"}, o : Bounds] \cup [whence : {"end", "current"}, o : Steps]

\* A slip in Target: a relative seek counts from the position in the source.
TargetInSource(s) ==
  CASE s.whence = "start"   -> s.o
    [] s.whence = "end"     -> cur.len + s.o
    [] s.whence = "current" -> cur.base + cur.pos + s.o

\* Where the code seeks to, in i128.
Target(s) ==
  CASE s.whence = "start"   -> s.o
    [] s.whence = "end"     -> cur.len + s.o
    [] s.whence = "current" -> cur.pos + s.o

\* A slip in Sought: no saturation at the end of u64.
SoughtWide(target) == target

Sought(target) == Lesser(target, MaxU)

\* Where the user means to be: a relative seek counts from what has been read.
Meant(s) ==
  CASE s.whence = "start"   -> s.o
    [] s.whence = "end"     -> cur.len + s.o
    [] s.whence = "current" -> from + Len(copied) + s.o

\* Seek::seek; a target before the window is refused and moves nothing.
Seek ==
  /\ Opened
  /\ \E s \in SeekFrom :
       /\ Target(s) >= 0
       /\ cur' = [cur EXCEPT !.pos = Sought(Target(s))]
       /\ from' = Lesser(Meant(s), MaxU)
  /\ copied' = <<>> /\ ended' = FALSE
  /\ UNCHANGED <<faults, size, len, windows, exact, sniff>>

\* A slip in Enough: something was read.
EnoughSome(got, r) == got > 0
\* A slip in Enough: the last byte of the source counts as past the end.
EnoughInside(got, r) == got = r.n /\ r.offset + r.n < TopLen

Enough(got, r) == got = r.n

\* read_exact_at of the innermost source.
ReadExactAt ==
  /\ ~Opened /\ sniff.stage = "none"
  /\ \E o \in Bounds, n \in Lengths :
       LET r == [offset |-> o, n |-> n]
       IN  \E a \in ReadAt(r) :
             exact' = [outcome |-> IF a.kind = "err" THEN "io"
                                   ELSE IF Enough(Len(a.bytes), r) THEN "ok" ELSE "range",
                       asked |-> r, bytes |-> a.bytes]
  /\ UNCHANGED <<faults, size, len, windows, cur, from, copied, ended, sniff>>

\* A slip in HeadBuffer: the buffer as it was allocated, zeroes (-1) included.
HeadBufferWhole(bytes, cap) == bytes \o [i \in 1..(cap - Len(bytes)) |-> -1]

\* head.get(..n)
HeadBuffer(bytes, cap) == bytes

\* read_sniff_buffers: len() and the read of the head.
SniffHead ==
  /\ ~Opened /\ exact.outcome = "none" /\ sniff.stage # "head"
  /\ LET cap == IF TopLen < 1 THEN 1 ELSE Lesser(TopLen, SniffCap)
     IN  \E a \in ReadAt([offset |-> 0, n |-> cap]) :
           sniff' = IF a = Err THEN NoSniff
                    ELSE [NoSniff EXCEPT !.stage = "head", !.total = TopLen,
                                         !.head = HeadBuffer(a.bytes, cap)]
  /\ UNCHANGED <<faults, size, len, windows, cur, from, copied, ended, exact>>

\* A slip in TailStart: the tail is taken for as long as the head.
TailStartOfHead == sniff.total - Lesser(sniff.total, SniffCap)

TailStart == sniff.total - Lesser(sniff.total, TailCap)

\* The read of the tail.  An error of either read gives no window at all.
SniffTail ==
  /\ sniff.stage = "head"
  /\ \E a \in ReadAt([offset |-> TailStart, n |-> Lesser(sniff.total, TailCap)]) :
       sniff' = IF a = Err THEN NoSniff
                ELSE [sniff EXCEPT !.stage = "both", !.tail = a.bytes]
  /\ UNCHANGED <<faults, size, len, windows, cur, from, copied, ended, exact>>

Next == Change \/ Narrow \/ Open \/ Read \/ Seek \/ ReadExactAt \/ SniffHead \/ SniffTail

Spec == Init /\ [][Next]_vars

-----------------------------------------------------------------------------
(***************************************************************************)
(* What the windows are about                                              *)
(***************************************************************************)

\* Where the windows from the outermost to the k-th begin in the file.
Offset[k \in 0..Len(windows)] == IF k = 0 THEN 0 ELSE Offset[k - 1] + windows[k].base

TopOffset == Offset[Len(windows)]

\* SniffWindow::at and tail_at: None is {}.
HeadAt(off, n) == IF off + n <= Len(sniff.head) THEN {SubSeq(sniff.head, off + 1, off + n)} ELSE {}

TailAt(from_end, n) ==
  LET start == Len(sniff.tail) - from_end
  IN  IF start >= 0 /\ start + n <= Len(sniff.tail)
        THEN {SubSeq(sniff.tail, start + 1, start + n)} ELSE {}

-----------------------------------------------------------------------------
(***************************************************************************)
(* Properties                                                              *)
(***************************************************************************)

\* The variables have their types; positions and lengths fit a u64.
TypeOK ==
  /\ faults \in Faults
  /\ size \in Nat /\ len \in Nat
  /\ \A k \in DOMAIN windows : windows[k].base \in 0..MaxU /\ windows[k].len \in 0..MaxU
  /\ cur = Unopened \/ (cur.base \in 0..MaxU /\ cur.len \in 0..MaxU /\ cur.pos \in 0..MaxU)
  /\ from \in Nat /\ ended \in BOOLEAN
  /\ exact.outcome \in {"none", "ok", "range", "io"}
  /\ sniff.stage \in {"none", "head", "both"}

\* A window that is not empty lies inside its parent, whatever base and length
\* it was made with, at the end of the u64 range too.
WindowsNest ==
  \A k \in DOMAIN windows :
    windows[k].len > 0 =>
      windows[k].base + windows[k].len <= IF k = 1 THEN len ELSE windows[k - 1].len

\* No read escapes a window: what a read of the innermost window returns lies in
\* every window of the stack, and begins at the offset that was asked for.
NoEscape ==
  \A o \in Bounds, n \in Lengths : \A a \in ReadAt([offset |-> o, n |-> n]) :
    \A i \in DOMAIN a.bytes :
      /\ a.bytes[i] = TopOffset + o + i - 1
      /\ \A k \in DOMAIN windows : a.bytes[i] \in Offset[k]..(Offset[k] + windows[k].len - 1)

\* What the user of the cursor has read since the last seek are the bytes of the
\* window at the position the user asked for, none left out or read twice, in the
\* face of short reads, failed reads and seeks past the end.
CopyFaithful ==
  Opened => /\ cur.pos = from + Len(copied)
            /\ copied = Bytes(TopOffset + cur.base + from, Len(copied))

Calm == faults = {}

\* A read of nothing is the end: over a calm file, a user that reads to the end
\* of the cursor has everything from the seek position to the end of the window.
CopyComplete == Calm /\ Opened /\ ended => from + Len(copied) >= cur.len

\* read_exact_at gives all the bytes asked for or an error.
ExactAll ==
  exact.outcome = "ok" => exact.bytes = Bytes(TopOffset + exact.asked.offset, exact.asked.n)

\* Over a calm file read_exact_at reports a range error only if the stream is
\* too short.
RangeErrorsTrue == Calm /\ exact.outcome = "range" => exact.asked.offset + exact.asked.n > TopLen

\* What a probe finds in the head of the window is in the source at that offset.
HeadTrue ==
  sniff.stage # "none" =>
    \A off, n \in 0..SniffCap : \A b \in HeadAt(off, n) : b = Bytes(TopOffset + off, n)

\* What a probe finds from_end bytes before the end is there in the source.
TailTrue ==
  sniff.stage = "both" =>
    \A from_end, n \in 0..TailCap : \A b \in TailAt(from_end, n) :
      b = Bytes(TopOffset + sniff.total - from_end, n)

\* So it does as long as the file is calm: the tail ends where the source ends.
CalmTailTrue == Calm => TailTrue
=============================================================================
