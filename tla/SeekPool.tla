------------------------------ MODULE SeekPool ------------------------------
(***************************************************************************)
(* SeekPoolSource of core/src/adapters.rs: threads that share one source   *)
(* by reference, over a pool of Read + Seek readers ("cursors"), each      *)
(* behind a mutex.  A read checks a cursor out, seeks it, and reads until  *)
(* its window is full.  The readers are external: one may read short,      *)
(* fail, or panic, which poisons the mutex of its cursor.                  *)
(***************************************************************************)
EXTENDS ByteStream, FiniteSets

CONSTANTS
  Thread,      \* the threads that hold the source
  PoolSize,    \* the number of cursors
  Declared,    \* len: the length the pool was made with
  Actual,      \* the bytes every reader really has
  Requests,    \* the reads considered
  Idle,        \* no read is in progress
  Free         \* nobody holds the mutex

SeekPoolAssumption ==
  /\ IsFiniteSet(Thread)
  /\ PoolSize \in Nat
  /\ Declared \in Nat
  /\ Actual \in Nat
  /\ Requests \subseteq Request
  /\ Idle \notin Requests
  /\ Free \notin Thread

ASSUME SeekPoolConstants == SeekPoolAssumption

Cursor == 1..PoolSize

VARIABLES
  req,         \* the read a thread is in, or Idle
  ans,         \* the answer to its last read
  pc,          \* where it is in read_at
  at,          \* the cursor it probes or holds
  buf,         \* the bytes it has read so far
  lock,        \* the holder of each cursor's mutex
  poisoned,    \* the poison flag of each mutex
  pos          \* the seek position of each reader

vars == <<req, ans, pc, at, buf, lock, poisoned, pos>>

-----------------------------------------------------------------------------
\* want: what is left of the buffer when it is cut at the end of the source.
Want(r) == Lesser(r.n, Declared - r.offset)

\* Slips in SeekTarget: the read goes on where the cursor happens to be, and a
\* relative seek instead of an absolute one.
SeekTargetStale(t) == pos[at[t]]
SeekTargetRelative(t) == req[t].offset - pos[at[t]]

\* SeekFrom::Start(offset)
SeekTarget(t) == req[t].offset

\* A slip in Unlocked: a thread that fails in its seek keeps the cursor.
UnlockedUnless(t) == IF pc[t] = "seek" THEN lock ELSE [lock EXCEPT ![at[t]] = Free]

\* The guard of the cursor is dropped.
Unlocked(t) == [lock EXCEPT ![at[t]] = Free]

\* A slip in Passing: a busy cursor sends the thread straight to the first.
PassingAll(t) ==
  /\ at' = [at EXCEPT ![t] = PoolSize + 1]
  /\ pc' = [pc EXCEPT ![t] = "wait"]

\* A slip in Passing: the scan starts over.
PassingRound(t) ==
  /\ at' = [at EXCEPT ![t] = IF at[t] < PoolSize THEN @ + 1 ELSE 1]
  /\ pc' = [pc EXCEPT ![t] = "probe"]

\* The loop of checkout goes on to the next cursor; after the last one it
\* blocks on the first.
Passing(t) ==
  /\ at' = [at EXCEPT ![t] = @ + 1]
  /\ pc' = [pc EXCEPT ![t] = IF at[t] < PoolSize THEN "probe" ELSE "wait"]

Returns(t, a) ==
  /\ req' = [req EXCEPT ![t] = Idle]
  /\ ans' = [ans EXCEPT ![t] = a]
  /\ pc' = [pc EXCEPT ![t] = "idle"]
  /\ at' = [at EXCEPT ![t] = 1]
  /\ buf' = [buf EXCEPT ![t] = <<>>]

\* The thread is inside a call of its reader.
Reading(t) == pc[t] = "seek" \/ (pc[t] = "read" /\ Len(buf[t]) < Want(req[t]))

-----------------------------------------------------------------------------
\* The readers may be handed over at any position.
Init ==
  /\ req = [t \in Thread |-> Idle]
  /\ ans = [t \in Thread |-> Ok(<<>>)]
  /\ pc = [t \in Thread |-> "idle"]
  /\ at = [t \in Thread |-> 1]
  /\ buf = [t \in Thread |-> <<>>]
  /\ lock = [c \in Cursor |-> Free]
  /\ poisoned = [c \in Cursor |-> FALSE]
  /\ pos \in [Cursor -> 0..Actual]

Call(t) ==
  /\ pc[t] = "idle"
  /\ \E r \in Requests : req' = [req EXCEPT ![t] = r]
  /\ ans' = [ans EXCEPT ![t] = Ok(<<>>)]
  /\ pc' = [pc EXCEPT ![t] = "start"]
  /\ UNCHANGED <<at, buf, lock, poisoned, pos>>

\* if offset >= self.len { return Ok(0) }
PastEnd(t) ==
  /\ pc[t] = "start"
  /\ req[t].offset >= Declared
  /\ Returns(t, Ok(<<>>))
  /\ UNCHANGED <<lock, poisoned, pos>>

Checkout(t) ==
  /\ pc[t] = "start"
  /\ req[t].offset < Declared
  /\ pc' = [pc EXCEPT ![t] = IF PoolSize > 0 THEN "probe" ELSE "wait"]
  /\ UNCHANGED <<req, ans, at, buf, lock, poisoned, pos>>

\* try_lock gives the guard of a free cursor.
TryLock(t) ==
  /\ pc[t] = "probe"
  /\ lock[at[t]] = Free
  /\ lock' = [lock EXCEPT ![at[t]] = t]
  /\ pc' = [pc EXCEPT ![t] = IF poisoned[at[t]] THEN "reject" ELSE "seek"]
  /\ UNCHANGED <<req, ans, at, buf, poisoned, pos>>

\* try_lock gives Err(WouldBlock).
Busy(t) ==
  /\ pc[t] = "probe"
  /\ lock[at[t]] # Free
  /\ Passing(t)
  /\ UNCHANGED <<req, ans, buf, lock, poisoned, pos>>

\* try_lock gave Err(Poisoned(guard)): the guard is dropped unused.
Reject(t) ==
  /\ pc[t] = "reject"
  /\ lock' = Unlocked(t)
  /\ Passing(t)
  /\ UNCHANGED <<req, ans, buf, poisoned, pos>>

\* self.pool.first() is None: Ok(0), wherever the read began.
NoCursor(t) ==
  /\ pc[t] = "wait"
  /\ Returns(t, Ok(<<>>))
  /\ UNCHANGED <<lock, poisoned, pos>>

\* lock() on the first cursor, poisoned or not.
LockFirst(t) ==
  /\ pc[t] = "wait"
  /\ lock[1] = Free
  /\ lock' = [lock EXCEPT ![1] = t]
  /\ at' = [at EXCEPT ![t] = 1]
  /\ pc' = [pc EXCEPT ![t] = "seek"]
  /\ UNCHANGED <<req, ans, buf, poisoned, pos>>

\* The fallback of checkout, on self.pool.first().
FirstCursor(t) == IF PoolSize > 0 THEN LockFirst(t) ELSE NoCursor(t)

Seek(t) ==
  /\ pc[t] = "seek"
  /\ pos' = [pos EXCEPT ![at[t]] = SeekTarget(t)]
  /\ pc' = [pc EXCEPT ![t] = "read"]
  /\ UNCHANGED <<req, ans, at, buf, lock, poisoned>>

\* The reader returns some of the bytes asked for.
Fill(t) ==
  /\ pc[t] = "read"
  /\ \E n \in 1..Lesser(Want(req[t]) - Len(buf[t]), Actual - pos[at[t]]) :
       /\ buf' = [buf EXCEPT ![t] = @ \o Bytes(pos[at[t]], n)]
       /\ pos' = [pos EXCEPT ![at[t]] = @ + n]
  /\ UNCHANGED <<req, ans, pc, at, lock, poisoned>>

\* The window is full, or the reader returns 0.
Finish(t) ==
  /\ pc[t] = "read"
  /\ Len(buf[t]) >= Want(req[t]) \/ pos[at[t]] >= Actual
  /\ Returns(t, Ok(buf[t]))
  /\ lock' = Unlocked(t)
  /\ UNCHANGED <<poisoned, pos>>

\* A slip in Fail: what was read before the failure is the answer.
FailSwallowed(t) ==
  /\ Reading(t)
  /\ Returns(t, Ok(buf[t]))
  /\ lock' = Unlocked(t)
  /\ \E p \in 0..Actual : pos' = [pos EXCEPT ![at[t]] = p]
  /\ UNCHANGED poisoned

\* seek or read fails, leaving the reader anywhere.
Fail(t) ==
  /\ Reading(t)
  /\ Returns(t, Err)
  /\ lock' = Unlocked(t)
  /\ \E p \in 0..Actual : pos' = [pos EXCEPT ![at[t]] = p]
  /\ UNCHANGED poisoned

\* seek or read panics: the guard is dropped by the unwinding.
Panic(t) ==
  /\ Reading(t)
  /\ Returns(t, Panicked)
  /\ lock' = Unlocked(t)
  /\ poisoned' = [poisoned EXCEPT ![at[t]] = TRUE]
  /\ \E p \in 0..Actual : pos' = [pos EXCEPT ![at[t]] = p]

\* The steps of read_at itself.
Proceed(t) ==
  \/ PastEnd(t) \/ Checkout(t) \/ TryLock(t) \/ Busy(t) \/ Reject(t) \/ FirstCursor(t)
  \/ Seek(t) \/ Fill(t) \/ Finish(t) \/ Fail(t) \/ Panic(t)

Next == \E t \in Thread : Call(t) \/ Proceed(t)

Spec == Init /\ [][Next]_vars

\* A thread that can go on does; a mutex that stays free is eventually had.
FairSpec == Spec /\ \A t \in Thread : WF_vars(Proceed(t))

-----------------------------------------------------------------------------
(***************************************************************************)
(* Properties                                                              *)
(***************************************************************************)

\* The variables have their types.
TypeOK ==
  /\ req \in [Thread -> Requests \cup {Idle}]
  /\ ans \in [Thread -> Answer]
  /\ pc \in [Thread -> {"idle", "start", "probe", "reject", "wait", "seek", "read"}]
  /\ at \in [Thread -> 1..(PoolSize + 1)]
  /\ buf \in [Thread -> Seq(Nat)]
  /\ lock \in [Cursor -> Thread \cup {Free}]
  /\ poisoned \in [Cursor -> BOOLEAN]
  /\ pos \in [Cursor -> Nat]

\* checkout gives a cursor to one thread at a time, and no path out of
\* read_at, failing or unwinding, leaves a cursor checked out.
CursorsAccounted ==
  \A c \in Cursor : \A t \in Thread :
    lock[c] = t <=> pc[t] \in {"reject", "seek", "read"} /\ at[t] = c

\* Parallel reads scale up to the pool size: while no cursor is poisoned, the
\* threads that wait are at most those the pool is short of, although the
\* probing of the cursors one after the other is no atomic look at the pool.
\* They count against the idle threads too: that a thread is not left waiting
\* for the first cursor while another one is free is not claimed.
FewWait ==
  (\A c \in Cursor : ~poisoned[c]) =>
    LET waiting == {t \in Thread : pc[t] = "wait"}
    IN  waiting = {} \/ Cardinality(waiting) + PoolSize <= Cardinality(Thread)

\* The cursors are invisible: every thread's reads are those of a cursorless
\* positioned read.  A pool of no cursors, which SeekPoolSource::new accepts,
\* answers Ok(0) before the end and is no positioned read.
Positioned == INSTANCE PositionedRead
ReadsAsPositioned == Positioned!Spec

\* Once the threads make no new reads, the reads in progress all return: no
\* thread is left waiting for a cursor, whatever the readers did.
Drains ==
  <>[][\A t \in Thread : ~Call(t)]_vars => <>[](\A t \in Thread : pc[t] = "idle")

\* checkout blocks on the first cursor only when all are busy: the last one it
\* looked at is held by another thread.
BlocksOnlyWhenBusy ==
  [][\A t \in Thread : pc[t] # "wait" /\ pc'[t] = "wait" => lock[at[t]] \notin {Free, t}]_vars
=============================================================================
