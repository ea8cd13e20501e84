--------------------------- MODULE SeekPoolProofs ---------------------------
(***************************************************************************)
(* Theorems about the cursor pool, for any number of threads and cursors,  *)
(* any lengths and any reads; and about the workers that read windows of   *)
(* it, for any number of workers and other threads, any windows and        *)
(* buffers.                                                                *)
(***************************************************************************)
EXTENDS Workers, ByteStreamProofs, FiniteSetTheorems

-----------------------------------------------------------------------------
(***************************************************************************)
(* The inductive invariant                                                 *)
(***************************************************************************)

\* The thread is in the scan of checkout, or past it.
Scanning == {"probe", "reject", "seek", "read", "wait"}

\* What a thread knows at each point of read_at.
ThreadOK(t) ==
  /\ pc[t] = "idle" <=> req[t] = Idle
  /\ pc[t] \in Scanning => req[t].offset < Declared
  /\ pc[t] \in {"idle", "start"} => at[t] = 1
  /\ pc[t] \in {"probe", "reject", "seek", "read"} => at[t] \in Cursor
  /\ pc[t] = "wait" => at[t] = PoolSize + 1
  /\ pc[t] = "reject" => poisoned[at[t]]

\* The bytes read so far are those at the front of the window, and the reader
\* stands right behind them.
DataOK(t) ==
  /\ pc[t] # "read" => buf[t] = <<>>
  /\ pc[t] = "read" =>
       /\ buf[t] = Bytes(req[t].offset, Len(buf[t]))
       /\ pos[at[t]] = req[t].offset + Len(buf[t])
       /\ Len(buf[t]) <= Want(req[t])
       /\ Len(buf[t]) > 0 => pos[at[t]] <= Actual

\* The threads whose scan has reached cursor k, or that hold one from k on.
Beyond(k) == {t \in Thread : pc[t] \in Scanning /\ at[t] >= k}

Healthy == \A c \in Cursor : ~poisoned[c]

\* A thread gets past a cursor only while another thread holds it.
Crowded ==
  Healthy => \A k \in 1..(PoolSize + 1) :
               Beyond(k) # {} => Cardinality(Beyond(k)) + k <= Cardinality(Thread) + 1

IInv ==
  /\ TypeOK
  /\ CursorsAccounted
  /\ \A t \in Thread : ThreadOK(t) /\ DataOK(t)

-----------------------------------------------------------------------------
(***************************************************************************)
(* The invariant is inductive                                              *)
(***************************************************************************)

LEMMA InitIInv == Init => IInv
<1> SUFFICES ASSUME Init PROVE IInv
  OBVIOUS
<1>1. TypeOK
  <2>1. Ok(<<>>) \in Answer /\ <<>> \in Seq(Nat)
    BY DEF Ok, Answer
  <2>2. PoolSize \in Nat /\ Actual \in Nat
    BY SeekPoolConstants DEF SeekPoolAssumption
  <2>3. 1 \in 1..(PoolSize + 1)
    BY <2>2
  <2>4. pos \in [Cursor -> Nat]
    BY <2>2 DEF Init
  <2>5. QED
    BY <2>1, <2>3, <2>4 DEF Init, TypeOK
<1>2. CursorsAccounted
  BY SeekPoolConstants DEF Init, CursorsAccounted, SeekPoolAssumption
<1>3. \A t \in Thread : ThreadOK(t) /\ DataOK(t)
  BY DEF Init, ThreadOK, DataOK, Scanning
<1>4. QED
  BY <1>1, <1>2, <1>3 DEF IInv

\* The constants, and what is left of a window.
LEMMA WantType ==
  ASSUME NEW r \in Requests, r.offset < Declared
  PROVE  Want(r) \in Nat /\ r.offset \in Nat
<1>1. r \in Request /\ Declared \in Nat
  BY SeekPoolConstants DEF SeekPoolAssumption
<1>2. r.offset \in Nat /\ r.n \in Nat
  BY <1>1 DEF Request
<1>3. QED
  BY <1>1, <1>2 DEF Want, Lesser

\* A step of thread t that touches only t's own variables, and of the pool only
\* the cursor t holds, keeps the invariant of the other threads.
LEMMA Others ==
  ASSUME IInv, NEW t \in Thread, NEW u \in Thread, u # t,
         req'[u] = req[u], pc'[u] = pc[u], at'[u] = at[u], buf'[u] = buf[u],
         \A c \in Cursor : poisoned[c] => poisoned'[c],
         \A c \in Cursor : pos'[c] = pos[c] \/ (pc[t] \in {"seek", "read"} /\ at[t] = c)
  PROVE  ThreadOK(u)' /\ DataOK(u)'
<1>1. ThreadOK(u) /\ DataOK(u)
  BY DEF IInv
<1>2. ThreadOK(u)'
  BY <1>1 DEF ThreadOK
<1>3. pc[u] = "read" => pos'[at[u]] = pos[at[u]]
  <2>1. SUFFICES ASSUME pc[u] = "read", pos'[at[u]] # pos[at[u]] PROVE FALSE
    OBVIOUS
  <2>2. at[u] \in Cursor
    BY <1>1, <2>1 DEF ThreadOK
  <2>3. pc[t] \in {"seek", "read"} /\ at[t] = at[u]
    BY <2>1, <2>2
  <2>4. lock[at[u]] = t /\ lock[at[u]] = u
    BY <2>1, <2>2, <2>3 DEF IInv, CursorsAccounted
  <2>5. QED
    BY <2>4
<1>4. DataOK(u)'
  BY <1>1, <1>3 DEF DataOK
<1>5. QED
  BY <1>2, <1>4

\* Leaving read_at puts a thread back where it began.
LEMMA ReturnOK ==
  ASSUME IInv, NEW t \in Thread, NEW a \in Answer, Returns(t, a)
  PROVE  /\ req' \in [Thread -> Requests \cup {Idle}]
         /\ ans' \in [Thread -> Answer]
         /\ pc' \in [Thread -> {"idle", "start", "probe", "reject", "wait", "seek", "read"}]
         /\ at' \in [Thread -> 1..(PoolSize + 1)]
         /\ buf' \in [Thread -> Seq(Nat)]
         /\ pc'[t] = "idle" /\ req'[t] = Idle /\ at'[t] = 1 /\ buf'[t] = <<>>
         /\ \A u \in Thread : u # t => /\ req'[u] = req[u] /\ pc'[u] = pc[u]
                                       /\ at'[u] = at[u] /\ buf'[u] = buf[u]
<1>1. 1 \in 1..(PoolSize + 1) /\ <<>> \in Seq(Nat)
  BY SeekPoolConstants DEF SeekPoolAssumption
<1>2. QED
  BY <1>1 DEF Returns, IInv, TypeOK

\* The two ways to drop a guard and return: the pool afterwards.
LEMMA ReleaseOK ==
  ASSUME IInv, NEW t \in Thread, NEW a \in Answer, Returns(t, a),
         pc[t] \in {"seek", "read"}, lock' = Unlocked(t),
         poisoned' \in [Cursor -> BOOLEAN], \A c \in Cursor : poisoned[c] => poisoned'[c],
         pos' \in [Cursor -> Nat], \A c \in Cursor : pos'[c] = pos[c] \/ at[t] = c
  PROVE  IInv'
<1>1. at[t] \in Cursor
  BY DEF IInv, ThreadOK
<1>2. TypeOK'
  BY <1>1, ReturnOK DEF IInv, TypeOK, Unlocked
<1>3. CursorsAccounted'
  <2>1. SUFFICES ASSUME NEW c \in Cursor, NEW u \in Thread
                 PROVE  lock'[c] = u <=> pc'[u] \in {"reject", "seek", "read"} /\ at'[u] = c
    BY DEF CursorsAccounted
  <2>2. lock'[c] = IF c = at[t] THEN Free ELSE lock[c]
    BY <1>1 DEF Unlocked, IInv, TypeOK
  <2>3. Free \notin Thread
    BY SeekPoolConstants DEF SeekPoolAssumption
  <2>4. lock[at[t]] = t /\ (lock[c] = t => c = at[t])
    BY <1>1 DEF IInv, CursorsAccounted
  <2>5. CASE u = t
    BY <2>2, <2>3, <2>4, <2>5, ReturnOK
  <2>6. CASE u # t
    <3>1. pc'[u] = pc[u] /\ at'[u] = at[u]
      BY <2>6, ReturnOK
    <3>2. lock[c] = u <=> pc[u] \in {"reject", "seek", "read"} /\ at[u] = c
      BY DEF IInv, CursorsAccounted
    <3>3. c = at[t] => lock[c] # u
      BY <2>4, <2>6
    <3>4. QED
      BY <2>2, <2>3, <3>1, <3>2, <3>3
  <2>7. QED
    BY <2>5, <2>6
<1>4. \A u \in Thread : ThreadOK(u)' /\ DataOK(u)'
  <2>1. SUFFICES ASSUME NEW u \in Thread PROVE ThreadOK(u)' /\ DataOK(u)'
    OBVIOUS
  <2>2. CASE u = t
    BY <2>2, ReturnOK DEF ThreadOK, DataOK, Scanning
  <2>3. CASE u # t
    BY <2>3, ReturnOK, Others
  <2>4. QED
    BY <2>2, <2>3
<1>5. QED
  BY <1>2, <1>3, <1>4 DEF IInv

\* A step of thread t inside read_at that neither takes nor drops a cursor.
LEMMA MoveOK ==
  ASSUME IInv, NEW t \in Thread, TypeOK', ThreadOK(t)', DataOK(t)',
         lock' = lock,
         pc[t] \in {"reject", "seek", "read"} <=> pc'[t] \in {"reject", "seek", "read"},
         pc[t] \in {"reject", "seek", "read"} => at'[t] = at[t],
         \A u \in Thread : u # t => /\ req'[u] = req[u] /\ pc'[u] = pc[u]
                                    /\ at'[u] = at[u] /\ buf'[u] = buf[u],
         poisoned' = poisoned,
         \A c \in Cursor : pos'[c] = pos[c] \/ (pc[t] \in {"seek", "read"} /\ at[t] = c)
  PROVE  IInv'
<1>1. CursorsAccounted'
  BY DEF IInv, CursorsAccounted
<1>2. \A u \in Thread : ThreadOK(u)' /\ DataOK(u)'
  BY Others
<1>3. QED
  BY <1>1, <1>2 DEF IInv

\* A thread takes a free cursor.
LEMMA TakeOK ==
  ASSUME IInv, NEW t \in Thread, NEW c \in Cursor, lock[c] = Free,
         pc[t] \in {"probe", "wait"}, pc' = [pc EXCEPT ![t] = pc'[t]],
         pc'[t] \in {"reject", "seek"}, pc'[t] = "reject" => poisoned[c],
         at' = [at EXCEPT ![t] = c], lock' = [lock EXCEPT ![c] = t],
         UNCHANGED <<req, ans, buf, poisoned, pos>>
  PROVE  IInv'
<1>1. TypeOK'
  <2>1. c \in 1..(PoolSize + 1)
    BY SeekPoolConstants DEF SeekPoolAssumption, Cursor
  <2>2. QED
    BY <2>1 DEF IInv, TypeOK
<1>2. CursorsAccounted'
  <2>1. SUFFICES ASSUME NEW d \in Cursor, NEW u \in Thread
                 PROVE  lock'[d] = u <=> pc'[u] \in {"reject", "seek", "read"} /\ at'[u] = d
    BY DEF CursorsAccounted
  <2>2. /\ lock'[d] = IF d = c THEN t ELSE lock[d]
        /\ pc'[u] = IF u = t THEN pc'[t] ELSE pc[u]
        /\ at'[u] = IF u = t THEN c ELSE at[u]
    BY DEF IInv, TypeOK
  <2>3. lock[d] = u <=> pc[u] \in {"reject", "seek", "read"} /\ at[u] = d
    BY DEF IInv, CursorsAccounted
  <2>4. Free \notin Thread
    BY SeekPoolConstants DEF SeekPoolAssumption
  <2>5. QED
    BY <2>2, <2>3, <2>4
<1>3. \A u \in Thread : ThreadOK(u)' /\ DataOK(u)'
  <2>1. SUFFICES ASSUME NEW u \in Thread PROVE ThreadOK(u)' /\ DataOK(u)'
    OBVIOUS
  <2>2. /\ pc'[u] = IF u = t THEN pc'[t] ELSE pc[u]
        /\ at'[u] = IF u = t THEN c ELSE at[u]
    BY DEF IInv, TypeOK
  <2>3. ThreadOK(u) /\ DataOK(u)
    BY DEF IInv
  <2>4. CASE u = t
    BY <2>2, <2>3, <2>4 DEF ThreadOK, DataOK, Scanning
  <2>5. CASE u # t
    BY <2>2, <2>5, Others
  <2>6. QED
    BY <2>4, <2>5
<1>4. QED
  BY <1>1, <1>2, <1>3 DEF IInv

\* Going on to the next cursor.
LEMMA PassingOK ==
  ASSUME IInv, NEW t \in Thread, pc[t] \in {"probe", "reject"}, Passing(t)
  PROVE  /\ at' \in [Thread -> 1..(PoolSize + 1)]
         /\ pc' \in [Thread -> {"idle", "start", "probe", "reject", "wait", "seek", "read"}]
         /\ at'[t] = at[t] + 1
         /\ pc'[t] = IF at[t] < PoolSize THEN "probe" ELSE "wait"
         /\ pc'[t] = "probe" => at'[t] \in Cursor
         /\ pc'[t] = "wait" => at'[t] = PoolSize + 1
         /\ \A u \in Thread : u # t => pc'[u] = pc[u] /\ at'[u] = at[u]
<1>1. at[t] \in Cursor /\ PoolSize \in Nat
  BY SeekPoolConstants DEF SeekPoolAssumption, IInv, ThreadOK
<1>2. at[t] + 1 \in 1..(PoolSize + 1)
  BY <1>1 DEF Cursor
<1>3. QED
  BY <1>1, <1>2 DEF Passing, IInv, TypeOK, Cursor

LEMMA NextIInv == IInv /\ [Next]_vars => IInv'
<1>1. SUFFICES ASSUME IInv, [Next]_vars PROVE IInv'
  OBVIOUS
<1>2. CASE UNCHANGED vars
  BY <1>1, <1>2 DEF vars, IInv, TypeOK, CursorsAccounted, ThreadOK, DataOK
<1>3. SUFFICES ASSUME NEW t \in Thread, Call(t) \/ Proceed(t) PROVE IInv'
  BY <1>1, <1>2 DEF Next
<1>4. /\ TypeOK /\ ThreadOK(t) /\ DataOK(t)
      /\ PoolSize \in Nat /\ Declared \in Nat /\ Actual \in Nat
      /\ Idle \notin Requests
  BY <1>1, SeekPoolConstants DEF IInv, SeekPoolAssumption
<1>5. pc[t] # "idle" => req[t] \in Requests
  BY <1>4 DEF TypeOK, ThreadOK
<1>6. CASE Call(t)
  <2>1. PICK r \in Requests : req' = [req EXCEPT ![t] = r]
    BY <1>6 DEF Call
  <2>2. /\ pc[t] = "idle" /\ UNCHANGED <<at, buf, lock, poisoned, pos>>
        /\ pc' = [pc EXCEPT ![t] = "start"] /\ ans' = [ans EXCEPT ![t] = Ok(<<>>)]
    BY <1>6 DEF Call
  <2>3. TypeOK'
    <3>1. Ok(<<>>) \in Answer
      BY DEF Ok, Answer
    <3>2. QED
      BY <1>4, <2>1, <2>2, <3>1 DEF TypeOK
  <2>4. pc'[t] = "start" /\ req'[t] = r
    BY <1>4, <2>1, <2>2 DEF TypeOK
  <2>5. ThreadOK(t)' /\ DataOK(t)'
    BY <1>4, <2>2, <2>4 DEF ThreadOK, DataOK, Scanning
  <2>6. \A u \in Thread : u # t => req'[u] = req[u] /\ pc'[u] = pc[u]
    BY <1>4, <2>1, <2>2 DEF TypeOK
  <2>7. QED
    BY <1>1, <2>2, <2>3, <2>4, <2>5, <2>6, MoveOK
<1>7. CASE PastEnd(t)
  <2>1. /\ pc[t] = "start" /\ Returns(t, Ok(<<>>)) /\ UNCHANGED <<lock, poisoned, pos>>
    BY <1>7 DEF PastEnd
  <2>2. Ok(<<>>) \in Answer
    BY DEF Ok, Answer
  <2>3. TypeOK'
    BY <1>1, <1>4, <2>1, <2>2, ReturnOK DEF TypeOK
  <2>4. ThreadOK(t)' /\ DataOK(t)'
    BY <1>1, <2>1, <2>2, ReturnOK DEF ThreadOK, DataOK, Scanning
  <2>5. /\ pc'[t] = "idle"
        /\ \A u \in Thread : u # t => /\ req'[u] = req[u] /\ pc'[u] = pc[u]
                                      /\ at'[u] = at[u] /\ buf'[u] = buf[u]
    BY <1>1, <2>1, <2>2, ReturnOK
  <2>6. QED
    BY <1>1, <2>1, <2>3, <2>4, <2>5, MoveOK
<1>8. CASE Checkout(t)
  <2>1. /\ pc[t] = "start" /\ req[t].offset < Declared
        /\ pc' = [pc EXCEPT ![t] = IF PoolSize > 0 THEN "probe" ELSE "wait"]
        /\ UNCHANGED <<req, ans, at, buf, lock, poisoned, pos>>
    BY <1>8 DEF Checkout
  <2>2. TypeOK'
    BY <1>4, <2>1 DEF TypeOK
  <2>3. /\ pc'[t] = IF PoolSize > 0 THEN "probe" ELSE "wait"
        /\ \A u \in Thread : u # t => pc'[u] = pc[u]
    BY <1>4, <2>1 DEF TypeOK
  <2>4. at[t] = 1 /\ (PoolSize > 0 => 1 \in Cursor) /\ (~(PoolSize > 0) => PoolSize + 1 = 1)
    BY <1>4, <2>1 DEF ThreadOK, Cursor
  <2>5. ThreadOK(t)'
    BY <1>4, <2>1, <2>3, <2>4 DEF ThreadOK
  <2>6. DataOK(t)'
    BY <1>4, <2>1, <2>3 DEF DataOK
  <2>7. pc'[t] \notin {"reject", "seek", "read"}
    BY <2>3
  <2>8. QED
    BY <1>1, <2>1, <2>2, <2>3, <2>5, <2>6, <2>7, MoveOK
<1>9. CASE TryLock(t)
  <2>1. /\ pc[t] = "probe" /\ lock[at[t]] = Free /\ at[t] \in Cursor
        /\ lock' = [lock EXCEPT ![at[t]] = t]
        /\ pc' = [pc EXCEPT ![t] = IF poisoned[at[t]] THEN "reject" ELSE "seek"]
        /\ UNCHANGED <<req, ans, at, buf, poisoned, pos>>
    BY <1>4, <1>9 DEF TryLock, ThreadOK
  <2>2. /\ pc'[t] = IF poisoned[at[t]] THEN "reject" ELSE "seek"
        /\ pc' = [pc EXCEPT ![t] = pc'[t]]
    BY <1>4, <2>1 DEF TypeOK
  <2>3. at' = [at EXCEPT ![t] = at[t]]
    BY <1>4, <2>1 DEF TypeOK
  <2>4. /\ pc'[t] \in {"reject", "seek"} /\ (pc'[t] = "reject" => poisoned[at[t]])
        /\ UNCHANGED <<req, ans, buf, poisoned, pos>>
    BY <2>1, <2>2
  <2>5. QED
    BY <1>1, <2>1, <2>2, <2>3, <2>4, TakeOK
<1>10. CASE Busy(t)
  <2>1. /\ pc[t] = "probe" /\ Passing(t) /\ UNCHANGED <<req, ans, buf, lock, poisoned, pos>>
    BY <1>10 DEF Busy
  <2>2. TypeOK'
    BY <1>1, <1>4, <2>1, PassingOK DEF TypeOK
  <2>3. ThreadOK(t)'
    BY <1>1, <1>4, <2>1, PassingOK DEF ThreadOK, Scanning
  <2>4. DataOK(t)'
    BY <1>1, <1>4, <2>1, PassingOK DEF DataOK
  <2>5. /\ pc'[t] \notin {"reject", "seek", "read"}
        /\ \A u \in Thread : u # t => pc'[u] = pc[u] /\ at'[u] = at[u]
    BY <1>1, <2>1, PassingOK
  <2>6. QED
    BY <1>1, <2>1, <2>2, <2>3, <2>4, <2>5, MoveOK
<1>11. CASE Reject(t)
  <2>1. /\ pc[t] = "reject" /\ Passing(t) /\ lock' = Unlocked(t)
        /\ UNCHANGED <<req, ans, buf, poisoned, pos>> /\ at[t] \in Cursor
    BY <1>4, <1>11 DEF Reject, ThreadOK
  <2>2. TypeOK'
    BY <1>1, <1>4, <2>1, PassingOK DEF TypeOK, Unlocked
  <2>3. CursorsAccounted'
    <3>1. SUFFICES ASSUME NEW c \in Cursor, NEW u \in Thread
                   PROVE  lock'[c] = u <=> pc'[u] \in {"reject", "seek", "read"} /\ at'[u] = c
      BY DEF CursorsAccounted
    <3>2. lock'[c] = IF c = at[t] THEN Free ELSE lock[c]
      BY <1>4, <2>1 DEF Unlocked, TypeOK
    <3>3. /\ Free \notin Thread
          /\ lock[at[t]] = t /\ (lock[c] = t => c = at[t])
          /\ lock[c] = u <=> pc[u] \in {"reject", "seek", "read"} /\ at[u] = c
      BY <1>1, <2>1, SeekPoolConstants DEF SeekPoolAssumption, IInv, CursorsAccounted
    <3>4. /\ pc'[t] \notin {"reject", "seek", "read"}
          /\ u # t => pc'[u] = pc[u] /\ at'[u] = at[u]
      BY <1>1, <2>1, PassingOK
    <3>5. QED
      BY <3>2, <3>3, <3>4
  <2>4. ThreadOK(t)'
    BY <1>1, <1>4, <2>1, PassingOK DEF ThreadOK, Scanning
  <2>5. DataOK(t)'
    BY <1>1, <1>4, <2>1, PassingOK DEF DataOK
  <2>6. \A u \in Thread : u # t => pc'[u] = pc[u] /\ at'[u] = at[u]
    BY <1>1, <2>1, PassingOK
  <2>7. \A u \in Thread : u # t => ThreadOK(u)' /\ DataOK(u)'
    BY <1>1, <2>1, <2>6, Others
  <2>8. QED
    BY <2>2, <2>3, <2>4, <2>5, <2>7 DEF IInv
<1>12. CASE PoolSize = 0 /\ NoCursor(t)
  <2>1. /\ pc[t] = "wait" /\ Returns(t, Ok(<<>>)) /\ UNCHANGED <<lock, poisoned, pos>>
    BY <1>12 DEF NoCursor
  <2>2. Ok(<<>>) \in Answer
    BY DEF Ok, Answer
  <2>3. TypeOK'
    BY <1>1, <1>4, <2>1, <2>2, ReturnOK DEF TypeOK
  <2>4. ThreadOK(t)' /\ DataOK(t)'
    BY <1>1, <2>1, <2>2, ReturnOK DEF ThreadOK, DataOK, Scanning
  <2>5. /\ pc'[t] = "idle"
        /\ \A u \in Thread : u # t => /\ req'[u] = req[u] /\ pc'[u] = pc[u]
                                      /\ at'[u] = at[u] /\ buf'[u] = buf[u]
    BY <1>1, <2>1, <2>2, ReturnOK
  <2>6. QED
    BY <1>1, <2>1, <2>3, <2>4, <2>5, MoveOK
<1>13. CASE PoolSize > 0 /\ LockFirst(t)
  <2>1. /\ pc[t] = "wait" /\ lock[1] = Free /\ 1 \in Cursor
        /\ lock' = [lock EXCEPT ![1] = t] /\ at' = [at EXCEPT ![t] = 1]
        /\ pc' = [pc EXCEPT ![t] = "seek"] /\ UNCHANGED <<req, ans, buf, poisoned, pos>>
    BY <1>4, <1>13 DEF LockFirst, Cursor
  <2>2. pc'[t] = "seek"
    BY <1>4, <2>1 DEF TypeOK
  <2>3. QED
    BY <1>1, <2>1, <2>2, TakeOK
<1>14. CASE Seek(t)
  <2>1. /\ pc[t] = "seek" /\ pos' = [pos EXCEPT ![at[t]] = req[t].offset]
        /\ pc' = [pc EXCEPT ![t] = "read"] /\ at[t] \in Cursor
        /\ UNCHANGED <<req, ans, at, buf, lock, poisoned>>
        /\ req[t] \in Requests /\ req[t].offset < Declared
    BY <1>4, <1>5, <1>14 DEF Seek, SeekTarget, ThreadOK, Scanning
  <2>2. Want(req[t]) \in Nat /\ req[t].offset \in Nat
    BY <2>1, WantType
  <2>3. TypeOK'
    BY <1>4, <2>1, <2>2 DEF TypeOK
  <2>4. /\ pc'[t] = "read" /\ pos'[at[t]] = req[t].offset
        /\ \A u \in Thread : u # t => pc'[u] = pc[u]
        /\ \A c \in Cursor : c # at[t] => pos'[c] = pos[c]
    BY <1>4, <2>1 DEF TypeOK
  <2>5. ThreadOK(t)'
    BY <1>4, <2>1, <2>4 DEF ThreadOK, Scanning
  <2>6. buf[t] = <<>> /\ Len(buf[t]) = 0 /\ buf[t] = Bytes(req[t].offset, 0)
    BY <1>4, <2>1, <2>2, BytesEmpty DEF DataOK
  <2>7. DataOK(t)'
    BY <2>1, <2>2, <2>4, <2>6 DEF DataOK, Want
  <2>8. QED
    BY <1>1, <2>1, <2>3, <2>4, <2>5, <2>7, MoveOK
<1>15. CASE Fill(t)
  <2>1. PICK n \in 1..Lesser(Want(req[t]) - Len(buf[t]), Actual - pos[at[t]]) :
          /\ buf' = [buf EXCEPT ![t] = buf[t] \o Bytes(pos[at[t]], n)]
          /\ pos' = [pos EXCEPT ![at[t]] = pos[at[t]] + n]
    BY <1>15 DEF Fill
  <2>2. /\ pc[t] = "read" /\ UNCHANGED <<req, ans, pc, at, lock, poisoned>>
        /\ at[t] \in Cursor /\ req[t] \in Requests /\ req[t].offset < Declared
    BY <1>4, <1>5, <1>15 DEF Fill, ThreadOK, Scanning
  <2> DEFINE o == req[t].offset
             m == Len(buf[t])
             w == Want(req[t])
  <2>3. /\ w \in Nat /\ o \in Nat /\ m \in Nat
        /\ pos[at[t]] = o + m /\ buf[t] = Bytes(o, m) /\ m <= w
    BY <1>4, <2>2, WantType DEF DataOK, TypeOK
  <2>4. n \in Nat /\ n > 0 /\ m + n <= w /\ o + m + n <= Actual
    <3>1. w - m \in Int /\ Actual - pos[at[t]] \in Int
      BY <1>4, <2>3
    <3>2. n \in Nat /\ n > 0 /\ n <= w - m /\ n <= Actual - pos[at[t]]
      BY <2>1, <3>1 DEF Lesser
    <3>3. QED
      BY <1>4, <2>3, <3>2
  <2>5. /\ buf'[t] = Bytes(o, m) \o Bytes(o + m, n)
        /\ pos'[at[t]] = o + m + n
        /\ \A u \in Thread : u # t => buf'[u] = buf[u]
        /\ \A c \in Cursor : c # at[t] => pos'[c] = pos[c]
    BY <1>4, <2>1, <2>2, <2>3 DEF TypeOK
  <2>6. /\ buf'[t] = Bytes(o, m + n) /\ Len(buf'[t]) = m + n
        /\ buf'[t] \in Seq(Nat)
    <3>1. m + n \in Nat
      BY <2>3, <2>4
    <3> HIDE DEF o, m, w
    <3>2. buf'[t] = Bytes(o, m + n)
      BY <2>3, <2>4, <2>5, BytesAppend
    <3>3. QED
      BY <2>3, <3>1, <3>2, BytesType
  <2>7. TypeOK'
    <3>1. o + m + n \in Nat
      BY <2>3, <2>4
    <3>2. buf' \in [Thread -> Seq(Nat)]
      BY <1>4, <2>1, <2>6 DEF TypeOK
    <3>3. pos' \in [Cursor -> Nat]
      BY <1>4, <2>1, <2>3, <3>1 DEF TypeOK
    <3>4. QED
      BY <1>4, <2>2, <3>2, <3>3 DEF TypeOK
  <2>8. ThreadOK(t)'
    BY <1>4, <2>2 DEF ThreadOK
  <2>9. DataOK(t)'
    <3>1. /\ buf'[t] = Bytes(o, Len(buf'[t])) /\ pos'[at[t]] = o + Len(buf'[t])
          /\ Len(buf'[t]) <= w /\ pos'[at[t]] <= Actual
      <4> HIDE DEF o, m, w
      <4>1. buf'[t] = Bytes(o, Len(buf'[t]))
        BY <2>6
      <4>2. pos'[at[t]] = o + (m + n) /\ o + (m + n) <= Actual
        BY <1>4, <2>3, <2>4, <2>5
      <4>3. QED
        BY <2>4, <2>6, <4>1, <4>2
    <3>2. req' = req /\ pc' = pc /\ at' = at /\ pc[t] = "read"
      BY <2>2
    <3>3. QED
      BY <3>1, <3>2 DEF DataOK, Want
  <2>10. QED
    BY <1>1, <2>2, <2>5, <2>7, <2>8, <2>9, MoveOK
<1>16. CASE Finish(t)
  <2>1. /\ pc[t] = "read" /\ Returns(t, Ok(buf[t])) /\ lock' = Unlocked(t)
        /\ UNCHANGED <<poisoned, pos>>
    BY <1>16 DEF Finish
  <2>2. Ok(buf[t]) \in Answer
    BY <1>4 DEF Ok, Answer, TypeOK
  <2>3. QED
    BY <1>1, <1>4, <2>1, <2>2, ReleaseOK DEF TypeOK
<1>17. CASE Fail(t)
  <2>1. PICK p \in 0..Actual : pos' = [pos EXCEPT ![at[t]] = p]
    BY <1>17 DEF Fail
  <2>2. /\ pc[t] \in {"seek", "read"} /\ Returns(t, Err) /\ lock' = Unlocked(t)
        /\ UNCHANGED poisoned
    BY <1>17 DEF Fail, Reading
  <2>3. Err \in Answer
    BY DEF Err, Answer
  <2>4. pos' \in [Cursor -> Nat] /\ \A c \in Cursor : pos'[c] = pos[c] \/ at[t] = c
    <3>1. p \in Nat /\ pos \in [Cursor -> Nat]
      BY <1>4 DEF TypeOK
    <3>2. QED
      BY <2>1, <3>1
  <2>5. QED
    BY <1>1, <1>4, <2>2, <2>3, <2>4, ReleaseOK DEF TypeOK
<1>18. CASE Panic(t)
  <2>1. PICK p \in 0..Actual : pos' = [pos EXCEPT ![at[t]] = p]
    BY <1>18 DEF Panic
  <2>2. /\ pc[t] \in {"seek", "read"} /\ Returns(t, Panicked) /\ lock' = Unlocked(t)
        /\ poisoned' = [poisoned EXCEPT ![at[t]] = TRUE]
    BY <1>18 DEF Panic, Reading
  <2>3. Panicked \in Answer
    BY DEF Panicked, Answer
  <2>4. pos' \in [Cursor -> Nat] /\ \A c \in Cursor : pos'[c] = pos[c] \/ at[t] = c
    <3>1. p \in Nat /\ pos \in [Cursor -> Nat]
      BY <1>4 DEF TypeOK
    <3>2. QED
      BY <2>1, <3>1
  <2>5. poisoned' \in [Cursor -> BOOLEAN] /\ \A c \in Cursor : poisoned[c] => poisoned'[c]
    BY <1>4, <2>2 DEF TypeOK
  <2>6. QED
    BY <1>1, <2>2, <2>3, <2>4, <2>5, ReleaseOK
<1>19. PoolSize > 0 \/ PoolSize = 0
  BY <1>4
<1>20. QED
  BY <1>3, <1>6, <1>7, <1>8, <1>9, <1>10, <1>11, <1>12, <1>13, <1>14, <1>15, <1>16,
     <1>17, <1>18, <1>19 DEF Proceed, FirstCursor

-----------------------------------------------------------------------------
(***************************************************************************)
(* Crowding                                                                *)
(***************************************************************************)

\* The sets that are counted are finite.
LEMMA BeyondFinite ==
  ASSUME NEW k
  PROVE  /\ IsFiniteSet(Beyond(k)) /\ Cardinality(Beyond(k)) \in Nat
         /\ Cardinality(Beyond(k)) <= Cardinality(Thread) /\ Cardinality(Thread) \in Nat
<1>1. IsFiniteSet(Thread)
  BY SeekPoolConstants DEF SeekPoolAssumption
<1>2. Beyond(k) \in SUBSET Thread
  BY DEF Beyond
<1>3. IsFiniteSet(Beyond(k)) /\ Cardinality(Beyond(k)) <= Cardinality(Thread)
  BY <1>1, <1>2, FS_Subset
<1>4. Cardinality(Beyond(k)) \in Nat /\ Cardinality(Thread) \in Nat
  BY <1>1, <1>3, FS_CardinalityType
<1>5. QED
  BY <1>3, <1>4

\* A thread that gets past cursor k leaves behind the thread that holds it: of
\* those that were at k or beyond, at least one is not beyond k afterwards.
LEMMA OneBehind ==
  ASSUME NEW k, NEW t \in Thread, NEW u \in Thread, u \in Beyond(k), at[u] = k, k \in Nat,
         u \notin Beyond(k + 1)', Beyond(k + 1)' \subseteq Beyond(k)
  PROVE  Cardinality(Beyond(k + 1)') + 1 <= Cardinality(Beyond(k))
<1> DEFINE A == Beyond(k)
           B == Beyond(k + 1)'
<1>1. /\ IsFiniteSet(A) /\ Cardinality(A) \in Nat /\ u \in A /\ u \notin B
      /\ B \subseteq A
  BY BeyondFinite
<1> HIDE DEF A, B
<1>2. IsFiniteSet(A \ {u}) /\ Cardinality(A \ {u}) = Cardinality(A) - 1
  BY <1>1, FS_RemoveElement
<1>3. B \in SUBSET (A \ {u})
  BY <1>1
<1>4. IsFiniteSet(B) /\ Cardinality(B) <= Cardinality(A \ {u})
  BY <1>2, <1>3, FS_Subset
<1>5. Cardinality(B) \in Nat
  BY <1>4, FS_CardinalityType
<1>6. Cardinality(B) + 1 <= Cardinality(A)
  BY <1>1, <1>2, <1>4, <1>5
<1>7. QED
  BY <1>6 DEF A, B

\* A step after which no more threads are beyond any cursor than before.
LEMMA CrowdedKept ==
  ASSUME Crowded, Healthy' => Healthy,
         \A k \in 2..(PoolSize + 1) : Beyond(k)' \subseteq Beyond(k)
  PROVE  Crowded'
<1>1. PoolSize \in Nat
  BY SeekPoolConstants DEF SeekPoolAssumption
<1>2. SUFFICES ASSUME Healthy', NEW k \in 1..(PoolSize + 1), Beyond(k)' # {}
               PROVE  Cardinality(Beyond(k)') + k <= Cardinality(Thread) + 1
  BY DEF Crowded
<1>3. /\ IsFiniteSet(Beyond(k)') /\ Cardinality(Beyond(k)') \in Nat
      /\ Cardinality(Beyond(k)') <= Cardinality(Thread) /\ Cardinality(Thread) \in Nat
  <2>1. IsFiniteSet(Thread) /\ Beyond(k)' \in SUBSET Thread
    BY SeekPoolConstants DEF SeekPoolAssumption, Beyond
  <2>2. QED
    BY <2>1, FS_Subset, FS_CardinalityType
<1>4. CASE k = 1
  BY <1>3, <1>4
<1>5. CASE k # 1
  <2>1. Beyond(k)' \subseteq Beyond(k)
    BY <1>1, <1>5
  <2>2. IsFiniteSet(Beyond(k)) /\ Cardinality(Beyond(k)) \in Nat
    BY BeyondFinite
  <2>3. Cardinality(Beyond(k)') <= Cardinality(Beyond(k))
    BY <2>1, <2>2, FS_Subset
  <2>4. Cardinality(Beyond(k)) + k <= Cardinality(Thread) + 1
    BY <1>2, <2>1 DEF Crowded
  <2>5. QED
    BY <1>3, <2>2, <2>3, <2>4
<1>6. QED
  BY <1>4, <1>5

LEMMA NextCrowded == IInv /\ Crowded /\ [Next]_vars => Crowded'
<1>1. SUFFICES ASSUME IInv, Crowded, [Next]_vars PROVE Crowded'
  OBVIOUS
<1>2. CASE UNCHANGED vars
  <2>1. \A k : Beyond(k)' = Beyond(k)
    BY <1>2 DEF vars, Beyond
  <2>2. Healthy' = Healthy
    BY <1>2 DEF vars, Healthy
  <2>3. QED
    BY <1>1, <2>1, <2>2, CrowdedKept
<1>3. SUFFICES ASSUME NEW t \in Thread, Call(t) \/ Proceed(t) PROVE Crowded'
  BY <1>1, <1>2 DEF Next
<1>4. TypeOK /\ ThreadOK(t) /\ PoolSize \in Nat
  BY <1>1, SeekPoolConstants DEF IInv, SeekPoolAssumption
<1>5. ASSUME pc' = [pc EXCEPT ![t] = pc'[t]], at' = [at EXCEPT ![t] = at'[t]],
             \/ pc'[t] \notin Scanning
             \/ at'[t] = 1
             \/ pc[t] \in Scanning /\ at'[t] = at[t],
             poisoned' = poisoned \/ Panic(t)
      PROVE  Crowded'
  <2>1. Healthy' => Healthy
    BY <1>4, <1>5 DEF Healthy, Panic, TypeOK
  <2>2. ASSUME NEW k \in 2..(PoolSize + 1) PROVE Beyond(k)' \subseteq Beyond(k)
    <3>1. SUFFICES ASSUME NEW u \in Thread, pc'[u] \in Scanning, at'[u] >= k
                   PROVE  pc[u] \in Scanning /\ at[u] >= k
      BY DEF Beyond
    <3>2. u # t => pc'[u] = pc[u] /\ at'[u] = at[u]
      BY <1>4, <1>5 DEF TypeOK
    <3>3. ~(1 >= k)
      BY <1>4, <2>2
    <3>4. QED
      BY <1>5, <3>1, <3>2, <3>3
  <2>3. QED
    BY <1>1, <2>1, <2>2, CrowdedKept
<1>6. ASSUME NEW a, Returns(t, a), poisoned' = poisoned \/ Panic(t) PROVE Crowded'
  <2>1. pc'[t] = "idle" /\ pc' = [pc EXCEPT ![t] = pc'[t]] /\ at' = [at EXCEPT ![t] = at'[t]]
    BY <1>4, <1>6 DEF Returns, TypeOK
  <2>2. pc'[t] \notin Scanning
    BY <2>1 DEF Scanning
  <2>3. QED
    BY <1>5, <1>6, <2>1, <2>2
<1>7. CASE Call(t)
  <2>1. /\ pc' = [pc EXCEPT ![t] = "start"] /\ at' = at /\ poisoned' = poisoned
    BY <1>7 DEF Call
  <2>2. pc'[t] \notin Scanning /\ pc' = [pc EXCEPT ![t] = pc'[t]]
        /\ at' = [at EXCEPT ![t] = at'[t]]
    BY <1>4, <2>1 DEF Scanning, TypeOK
  <2>3. QED
    BY <1>5, <2>1, <2>2
<1>8. CASE Checkout(t)
  <2>1. /\ pc[t] = "start" /\ at' = at /\ poisoned' = poisoned
        /\ pc' = [pc EXCEPT ![t] = IF PoolSize > 0 THEN "probe" ELSE "wait"]
    BY <1>8 DEF Checkout
  <2>2. at'[t] = 1 /\ pc' = [pc EXCEPT ![t] = pc'[t]] /\ at' = [at EXCEPT ![t] = at'[t]]
    BY <1>4, <2>1 DEF ThreadOK, TypeOK
  <2>3. QED
    BY <1>5, <2>1, <2>2
<1>9. CASE TryLock(t)
  <2>1. /\ pc[t] = "probe" /\ at' = at /\ poisoned' = poisoned
        /\ pc' = [pc EXCEPT ![t] = IF poisoned[at[t]] THEN "reject" ELSE "seek"]
    BY <1>9 DEF TryLock
  <2>2. /\ pc[t] \in Scanning /\ at'[t] = at[t]
        /\ pc' = [pc EXCEPT ![t] = pc'[t]] /\ at' = [at EXCEPT ![t] = at'[t]]
    BY <1>4, <2>1 DEF Scanning, TypeOK
  <2>3. QED
    BY <1>5, <2>1, <2>2
<1>10. CASE Busy(t)
  <2>1. /\ pc[t] = "probe" /\ Passing(t) /\ poisoned' = poisoned /\ at[t] \in Cursor
        /\ lock[at[t]] # Free
    BY <1>4, <1>10 DEF Busy, ThreadOK
  <2>2. PICK u \in Thread : lock[at[t]] = u
    BY <1>4, <2>1 DEF TypeOK
  <2>3. u # t /\ pc[u] \in {"reject", "seek", "read"} /\ at[u] = at[t]
    BY <1>1, <2>1, <2>2 DEF IInv, CursorsAccounted
  <2>4. /\ at'[t] = at[t] + 1 /\ pc'[t] \in Scanning
        /\ \A v \in Thread : v # t => pc'[v] = pc[v] /\ at'[v] = at[v]
    BY <1>1, <2>1, PassingOK DEF Scanning
  <2>k. PICK k \in 1..PoolSize : k = at[t]
    BY <2>1 DEF Cursor
  <2>5. /\ k = at[t] /\ k \in Nat /\ k >= 1 /\ k <= PoolSize /\ at'[t] = k + 1 /\ at[u] = k
        /\ \A v \in Thread : at[v] \in Nat
    BY <1>4, <2>k, <2>1, <2>3, <2>4 DEF TypeOK
  <2>6. \A j \in 1..(PoolSize + 1) : j # k + 1 => Beyond(j)' \subseteq Beyond(j)
    <3>1. SUFFICES ASSUME NEW j \in 1..(PoolSize + 1), j # k + 1, NEW v \in Thread,
                          pc'[v] \in Scanning, at'[v] >= j
                   PROVE  pc[v] \in Scanning /\ at[v] >= j
      BY DEF Beyond
    <3>2. CASE v # t
      BY <2>4, <3>1, <3>2
    <3>3. CASE v = t
      <4>1. k + 1 >= j
        BY <2>5, <3>1, <3>3
      <4>2. k >= j
        BY <2>5, <3>1, <4>1
      <4>3. QED
        BY <2>1, <2>5, <3>3, <4>2 DEF Scanning
    <3>4. QED
      BY <3>2, <3>3
  <2>7. u \in Beyond(k) /\ u \notin Beyond(k + 1)' /\ Beyond(k + 1)' \subseteq Beyond(k)
    <3>1. u \in Beyond(k)
      BY <2>3, <2>5 DEF Beyond, Scanning
    <3>2. u \notin Beyond(k + 1)'
      <4>1. at'[u] = k
        BY <2>3, <2>4, <2>5
      <4>2. ~(k >= k + 1)
        BY <2>5
      <4>3. QED
        BY <4>1, <4>2 DEF Beyond
    <3>3. ASSUME NEW v \in Thread, pc'[v] \in Scanning, at'[v] >= k + 1
          PROVE  pc[v] \in Scanning /\ at[v] >= k
      <4>1. CASE v = t
        BY <2>1, <2>5, <4>1 DEF Scanning
      <4>2. CASE v # t
        BY <2>4, <2>5, <3>3, <4>2
      <4>3. QED
        BY <4>1, <4>2
    <3>4. QED
      BY <3>1, <3>2, <3>3 DEF Beyond
  <2>8. Cardinality(Beyond(k + 1)') + 1 <= Cardinality(Beyond(k))
    BY <2>3, <2>5, <2>7, OneBehind
  <2>9. SUFFICES ASSUME Healthy', NEW j \in 1..(PoolSize + 1), Beyond(j)' # {}
                 PROVE  Cardinality(Beyond(j)') + j <= Cardinality(Thread) + 1
    BY DEF Crowded
  <2>10. Healthy
    BY <2>1, <2>9 DEF Healthy
  <2>11. IsFiniteSet(Beyond(j)') /\ Cardinality(Beyond(j)') \in Nat /\ Cardinality(Thread) \in Nat
    <3>1. IsFiniteSet(Thread) /\ Beyond(j)' \in SUBSET Thread
      BY SeekPoolConstants DEF SeekPoolAssumption, Beyond
    <3>2. QED
      BY <3>1, FS_Subset, FS_CardinalityType
  <2>12. CASE j = k + 1
    <3>1. Cardinality(Beyond(k)) + k <= Cardinality(Thread) + 1 /\ Cardinality(Beyond(k)) \in Nat
      <4>1. k \in 1..(PoolSize + 1) /\ Beyond(k) # {}
        BY <1>4, <2>5, <2>7
      <4>2. Cardinality(Beyond(k)) \in Nat
        BY BeyondFinite
      <4>3. QED
        BY <1>1, <2>10, <4>1, <4>2 DEF Crowded
    <3>2. QED
      BY <2>5, <2>8, <2>11, <2>12, <3>1
  <2>13. CASE j # k + 1
    <3>1. Cardinality(Beyond(j)) + j <= Cardinality(Thread) + 1 /\ Cardinality(Beyond(j)) \in Nat
      BY <1>1, <2>6, <2>9, <2>10, <2>13, BeyondFinite DEF Crowded
    <3>2. Cardinality(Beyond(j)') <= Cardinality(Beyond(j))
      BY <2>6, <2>13, BeyondFinite, FS_Subset
    <3>3. QED
      BY <2>11, <3>1, <3>2
  <2>14. QED
    BY <2>12, <2>13
<1>11. CASE Reject(t)
  <2>1. pc[t] = "reject" /\ poisoned' = poisoned
    BY <1>11 DEF Reject
  <2>2. at[t] \in Cursor /\ poisoned[at[t]]
    BY <1>4, <2>1 DEF ThreadOK
  <2>3. ~Healthy'
    BY <2>1, <2>2 DEF Healthy
  <2>4. QED
    BY <2>3 DEF Crowded
<1>12. CASE LockFirst(t)
  <2>1. /\ at' = [at EXCEPT ![t] = 1] /\ pc' = [pc EXCEPT ![t] = "seek"] /\ poisoned' = poisoned
    BY <1>12 DEF LockFirst
  <2>2. at'[t] = 1 /\ pc' = [pc EXCEPT ![t] = pc'[t]] /\ at' = [at EXCEPT ![t] = at'[t]]
    BY <1>4, <2>1 DEF TypeOK
  <2>3. QED
    BY <1>5, <2>1, <2>2
<1>13. CASE Seek(t)
  <2>1. /\ pc[t] = "seek" /\ at' = at /\ pc' = [pc EXCEPT ![t] = "read"] /\ poisoned' = poisoned
    BY <1>13 DEF Seek
  <2>2. /\ pc[t] \in Scanning /\ at'[t] = at[t]
        /\ pc' = [pc EXCEPT ![t] = pc'[t]] /\ at' = [at EXCEPT ![t] = at'[t]]
    BY <1>4, <2>1 DEF Scanning, TypeOK
  <2>3. QED
    BY <1>5, <2>1, <2>2
<1>14. CASE Fill(t)
  <2>1. pc[t] = "read" /\ at' = at /\ pc' = pc /\ poisoned' = poisoned
    BY <1>14 DEF Fill
  <2>2. /\ pc[t] \in Scanning /\ at'[t] = at[t]
        /\ pc' = [pc EXCEPT ![t] = pc'[t]] /\ at' = [at EXCEPT ![t] = at'[t]]
    BY <1>4, <2>1 DEF Scanning, TypeOK
  <2>3. QED
    BY <1>5, <2>1, <2>2
<1>15. CASE PastEnd(t) \/ NoCursor(t)
  BY <1>6, <1>15 DEF PastEnd, NoCursor
<1>16. CASE Finish(t) \/ Fail(t)
  BY <1>6, <1>16 DEF Finish, Fail
<1>17. CASE Panic(t)
  BY <1>6, <1>17 DEF Panic
<1>18. QED
  BY <1>3, <1>7, <1>8, <1>9, <1>10, <1>11, <1>12, <1>13, <1>14, <1>15, <1>16, <1>17
     DEF Proceed, FirstCursor

\* In the first state nobody is in a read.
LEMMA InitCrowded == Init => Crowded
<1>1. SUFFICES ASSUME Init, NEW k \in 1..(PoolSize + 1) PROVE Beyond(k) = {}
  BY DEF Crowded
<1>2. QED
  BY <1>1 DEF Init, Beyond, Scanning

-----------------------------------------------------------------------------
(***************************************************************************)
(* Theorems                                                                *)
(***************************************************************************)

\* What every reachable state of the pool satisfies (SeekPoolSource::read_at).
THEOREM Invariance == Spec => []IInv
<1>1. QED
  BY InitIInv, NextIInv, PTL DEF Spec

\* The variables of the pool keep their types, whatever the readers do.
THEOREM TypeCorrect == Spec => []TypeOK
<1>1. IInv => TypeOK
  BY DEF IInv
<1>2. QED
  BY <1>1, Invariance, PTL

\* A cursor is checked out by one thread at a time and never left checked out,
\* through errors and panics of the readers.
THEOREM CursorsSafe == Spec => []CursorsAccounted
<1>1. IInv => CursorsAccounted
  BY DEF IInv
<1>2. QED
  BY <1>1, Invariance, PTL

\* While no mutex is poisoned, a thread is past a cursor only if another holds it.
THEOREM CrowdInvariance == Spec => []Crowded
<1>1. QED
  BY InitCrowded, NextCrowded, Invariance, PTL DEF Spec

\* The threads that wait are beyond all cursors.
LEMMA CrowdedFew == IInv /\ Crowded => FewWait
<1>1. SUFFICES ASSUME IInv, Crowded, Healthy,
                      {t \in Thread : pc[t] = "wait"} # {}
               PROVE  Cardinality({t \in Thread : pc[t] = "wait"}) + PoolSize
                        <= Cardinality(Thread)
  BY DEF FewWait, Healthy
<1> DEFINE W == {t \in Thread : pc[t] = "wait"}
           B == Beyond(PoolSize + 1)
<1>2. PoolSize \in Nat
  BY SeekPoolConstants DEF SeekPoolAssumption
<1>3. W \subseteq B
  BY <1>1, <1>2 DEF IInv, ThreadOK, Beyond, Scanning
<1>4. PoolSize + 1 \in 1..(PoolSize + 1) /\ B # {}
  BY <1>1, <1>2, <1>3
<1>5. Cardinality(B) + PoolSize + 1 <= Cardinality(Thread) + 1
  BY <1>1, <1>2, <1>4, BeyondFinite DEF Crowded
<1>6. IsFiniteSet(B) /\ Cardinality(B) \in Nat /\ Cardinality(Thread) \in Nat
  BY BeyondFinite
<1> HIDE DEF W, B
<1>7. IsFiniteSet(W) /\ Cardinality(W) <= Cardinality(B)
  BY <1>3, <1>6, FS_Subset
<1>8. Cardinality(W) \in Nat
  BY <1>7, FS_CardinalityType
<1>9. Cardinality(W) + PoolSize <= Cardinality(Thread)
  BY <1>2, <1>5, <1>6, <1>7, <1>8
<1>10. QED
  BY <1>9 DEF W

\* Parallel reads scale up to the pool size: the non-atomic scan of checkout
\* leaves no more threads waiting than the pool is short of.
THEOREM Scales == Spec => []FewWait
<1>1. QED
  BY CrowdedFew, Invariance, CrowdInvariance, PTL

-----------------------------------------------------------------------------
(***************************************************************************)
(* The pool implements positioned reads                                    *)
(***************************************************************************)

\* Both modules speak of the same bytes and answers.
LEMMA SameAnswers ==
  /\ \A b : Positioned!Ok(b) = Ok(b)
  /\ Positioned!Err = Err /\ Positioned!Panicked = Panicked
  /\ \A o, k : Positioned!Bytes(o, k) = Bytes(o, k)
  /\ \A m, n : Positioned!Lesser(m, n) = Lesser(m, n)
BY DEF Positioned!Ok, Ok, Positioned!Err, Err, Positioned!Panicked, Panicked,
       Positioned!Bytes, Bytes, Positioned!Lesser, Lesser

\* A window that is full, or that the reader can add nothing to, holds the bytes
\* the stream has there.
LEMMA FinishBytes ==
  ASSUME IInv, NEW t \in Thread, Finish(t)
  PROVE  buf[t] = Bytes(req[t].offset, Positioned!Present(req[t]))
<1>1. /\ pc[t] = "read" /\ buf[t] = Bytes(req[t].offset, Len(buf[t])) /\ at[t] \in Cursor
      /\ pos[at[t]] = req[t].offset + Len(buf[t]) /\ Len(buf[t]) <= Want(req[t])
      /\ Len(buf[t]) > 0 => pos[at[t]] <= Actual
      /\ req[t].offset < Declared /\ req[t] # Idle
      /\ Len(buf[t]) >= Want(req[t]) \/ pos[at[t]] >= Actual
  BY DEF IInv, DataOK, ThreadOK, Scanning, Finish
<1>2. req[t].offset \in Nat /\ req[t].n \in Nat /\ Len(buf[t]) \in Nat
      /\ Declared \in Nat /\ Actual \in Nat
  BY <1>1, SeekPoolConstants DEF IInv, TypeOK, SeekPoolAssumption, Request
<1>3. ASSUME NEW o \in Nat, NEW n \in Nat, NEW b \in Nat, NEW p \in Nat, p = o + b,
             b <= Lesser(n, Declared - o), b > 0 => p <= Actual, o < Declared,
             b >= Lesser(n, Declared - o) \/ p >= Actual
      PROVE  b = IF o >= Lesser(Declared, Actual) THEN 0
                 ELSE Lesser(n, Lesser(Declared, Actual) - o)
  BY <1>2, <1>3 DEF Lesser
<1>4. Len(buf[t]) = Positioned!Present(req[t])
  BY SMTT(40), <1>1, <1>2, <1>3, SameAnswers DEF Want, Positioned!Present
<1>5. QED
  BY <1>1, <1>4

\* Every step of a thread is one of the cursorless read, or changes nothing of it.
LEMMA StepRefines ==
  ASSUME PoolSize > 0, IInv, [Next]_vars
  PROVE  [Positioned!Next]_(Positioned!vars)
<1> USE DEF Positioned!vars
<1>1. CASE UNCHANGED vars
  BY <1>1 DEF vars
<1>2. SUFFICES ASSUME NEW t \in Thread, Call(t) \/ Proceed(t)
               PROVE  [Positioned!Next]_(Positioned!vars)
  BY <1>1 DEF Next
<1>3. CASE Call(t)
  <2>1. req[t] = Idle
    BY <1>3 DEF IInv, ThreadOK, Call
  <2>2. Positioned!Call(t)
    BY <1>3, <2>1, SameAnswers DEF Call, Positioned!Call
  <2>3. QED
    BY <2>2 DEF Positioned!Next
<1>4. ASSUME NEW a, Returns(t, a), req[t] # Idle,
             a \in {Ok(Bytes(req[t].offset, Positioned!Present(req[t]))), Err, Panicked},
             req[t].offset >= Declared => a.kind = "ok"
      PROVE  Positioned!Next
  BY <1>4, SameAnswers DEF Returns, Positioned!Reply, Positioned!Next
<1>5. CASE PastEnd(t)
  <2>1. /\ pc[t] = "start" /\ req[t].offset >= Declared /\ Returns(t, Ok(<<>>)) /\ req[t] # Idle
    BY <1>5 DEF PastEnd, IInv, ThreadOK
  <2>2. req[t].offset \in Nat /\ Declared \in Nat /\ Actual \in Nat
    BY <2>1, SeekPoolConstants DEF IInv, TypeOK, SeekPoolAssumption, Request
  <2>3. Positioned!Present(req[t]) = 0
    BY <2>1, <2>2, SameAnswers DEF Positioned!Present, Lesser
  <2>4. Ok(<<>>) = Ok(Bytes(req[t].offset, Positioned!Present(req[t])))
    BY <2>2, <2>3, BytesEmpty
  <2>5. QED
    BY <1>4, <2>1, <2>4 DEF Ok
<1>6. CASE Finish(t)
  <2>1. buf[t] = Bytes(req[t].offset, Positioned!Present(req[t]))
    BY <1>6, FinishBytes
  <2>2. Returns(t, Ok(buf[t])) /\ req[t] # Idle
    BY <1>6 DEF Finish, IInv, ThreadOK
  <2>3. QED
    BY <1>4, <2>1, <2>2 DEF Ok
<1>7. CASE Fail(t) \/ Panic(t)
  <2>1. PICK a \in {Err, Panicked} : Returns(t, a)
    BY <1>7 DEF Fail, Panic
  <2>2. pc[t] \in {"seek", "read"}
    BY <1>7 DEF Fail, Panic, Reading
  <2>3. req[t] # Idle /\ req[t].offset < Declared
    BY <2>2 DEF IInv, ThreadOK, Scanning
  <2>4. req[t].offset \in Nat /\ Declared \in Nat
    BY <2>3, SeekPoolConstants DEF IInv, TypeOK, SeekPoolAssumption, Request
  <2>5. ~(req[t].offset >= Declared)
    BY <2>3, <2>4
  <2>6. QED
    BY <1>4, <2>1, <2>3, <2>5
<1>8. CASE Checkout(t) \/ TryLock(t) \/ Busy(t) \/ Reject(t) \/ LockFirst(t) \/ Seek(t) \/ Fill(t)
  BY <1>8 DEF Checkout, TryLock, Busy, Reject, LockFirst, Seek, Fill
<1>9. QED
  BY <1>2, <1>3, <1>5, <1>6, <1>7, <1>8 DEF Proceed, FirstCursor

\* read_at over a pool with a cursor is the cursorless positioned read that
\* ImageSource promises: the shared cursors, the scan and the short reads of the
\* readers cannot be seen in an answer.
THEOREM Implements == ASSUME PoolSize > 0 PROVE Spec => ReadsAsPositioned
<1>1. Init => Positioned!Init
  BY SameAnswers DEF Init, Positioned!Init
<1>2. IInv /\ [Next]_vars => [Positioned!Next]_(Positioned!vars)
  BY StepRefines
<1>3. QED
  BY <1>1, <1>2, Invariance, PTL DEF Spec, ReadsAsPositioned, Positioned!Spec

-----------------------------------------------------------------------------
(***************************************************************************)
(* The workers: their invariant, on top of the one of the pool             *)
(***************************************************************************)

\* What a worker asks for at its position.
Asking(w) == [offset |-> Window[w].base + cur[w], n |-> asked[w]]

\* While it asks, it is short of the end of its window, and the question or the
\* answer at hand belongs to its position.
AskOK(w) ==
  /\ asked[w] = 0 => pc[w] = "idle"
  /\ asked[w] > 0 =>
       /\ cur[w] + asked[w] <= WindowLen(w)
       /\ pc[w] # "idle" => req[w] = Asking(w)
       /\ pc[w] = "idle" =>
            ans[w] \in {Ok(Bytes(Asking(w).offset, Positioned!Present(Asking(w)))), Err, Panicked}

\* Its copy is the front of its window, and the whole of it at the end.
CopyOK(w) ==
  /\ cur[w] = Len(copied[w]) /\ copied[w] = Bytes(Window[w].base, cur[w])
  /\ cur[w] <= Held(w)
  /\ fate[w] = "eof" => cur[w] = Held(w)

WInv == WTypeOK /\ \A w \in Worker : AskOK(w) /\ CopyOK(w)

-----------------------------------------------------------------------------
(***************************************************************************)
(* The workers use the pool as its specification says                      *)
(***************************************************************************)

LEMMA PoolStep == [WNext]_allVars => [Next]_vars
<1>1. SUFFICES ASSUME WNext PROVE [Next]_vars
  BY DEF allVars
<1>2. CASE \E w \in Worker : ReadNothing(w) \/ Read(w) \/ Take(w)
  <2>1. PICK w \in Worker : ReadNothing(w) \/ Read(w) \/ Take(w)
    BY <1>2
  <2>2. w \in Thread
    BY WorkersConstants DEF WorkersAssumption
  <2>3. CASE Read(w)
    BY <2>2, <2>3 DEF Read, Next
  <2>4. CASE ReadNothing(w) \/ Take(w)
    BY <2>4 DEF ReadNothing, Take
  <2>5. QED
    BY <2>1, <2>3, <2>4
<1>3. CASE \E t \in Thread : ReadDirect(t) \/ (Proceed(t) /\ UNCHANGED workerVars)
  BY <1>3 DEF ReadDirect, Next
<1>4. QED
  BY <1>1, <1>2, <1>3 DEF WNext

\* Everything that holds of the pool holds of the pool the workers share.
THEOREM PoolKept == WSpec => Spec
<1>1. WInit => Init
  BY DEF WInit
<1>2. QED
  BY <1>1, PoolStep, PTL DEF WSpec, Spec

LEMMA WInvariance == WSpec => []IInv
<1>1. QED
  BY PoolKept, Invariance, PTL

-----------------------------------------------------------------------------
(***************************************************************************)
(* The constants                                                           *)
(***************************************************************************)

LEMMA WindowType ==
  ASSUME NEW w \in Worker
  PROVE  /\ Window[w].base \in Nat /\ Window[w].len \in Nat
         /\ Declared \in Nat /\ Actual \in Nat
         /\ WindowLen(w) \in Nat /\ Held(w) \in Nat
         /\ w \in Thread
<1>1. /\ Window[w] \in [base : Nat, len : Nat] /\ w \in Thread
      /\ Declared \in Nat /\ Actual \in Nat
  BY WorkersConstants, SeekPoolConstants DEF WorkersAssumption, SeekPoolAssumption
<1>2. Window[w].base \in Nat /\ Window[w].len \in Nat
  BY <1>1
<1>3. WindowLen(w) \in Nat
  BY <1>1, <1>2 DEF WindowLen, Lesser
<1>4. Held(w) \in Nat
  BY <1>1, <1>2, <1>3 DEF Held, Lesser
<1>5. QED
  BY <1>1, <1>2, <1>3, <1>4

\* What is there of a question inside the window lies in the window, and there
\* is none of it only behind what the readers have.
LEMMA PresentInWindow ==
  ASSUME NEW w \in Worker, NEW c \in Nat, NEW k \in Nat, k > 0,
         c + k <= WindowLen(w), c <= Held(w)
  PROVE  LET p == Positioned!Present([offset |-> Window[w].base + c, n |-> k])
         IN  /\ p \in Nat /\ c + p <= Held(w)
             /\ p = 0 => c = Held(w)
<1> DEFINE b == Window[w].base
           r == [offset |-> b + c, n |-> k]
           end == Lesser(Declared, Actual)
<1>1. b \in Nat /\ Window[w].len \in Nat /\ Declared \in Nat /\ Actual \in Nat
      /\ WindowLen(w) \in Nat /\ Held(w) \in Nat
  BY WindowType
<1>2. Positioned!Present(r) = IF b + c >= end THEN 0 ELSE Lesser(k, end - (b + c))
  BY SameAnswers DEF Positioned!Present
<1>3. b < Declared /\ b + WindowLen(w) <= Declared
  BY <1>1 DEF WindowLen, Lesser
<1>4. Held(w) = IF b >= Actual THEN 0 ELSE Lesser(WindowLen(w), Actual - b)
  BY DEF Held
<1> HIDE DEF b
<1>5. CASE b + c >= Actual
  <2>1. b + c >= end
    BY <1>1, <1>5 DEF Lesser
  <2>2. c = Held(w)
    BY <1>1, <1>3, <1>4, <1>5 DEF Lesser
  <2>3. Positioned!Present(r) = 0
    BY <1>2, <2>1
  <2>4. QED
    BY <1>1, <2>2, <2>3 DEF b
<1>6. CASE b + c < Actual
  <2>1. ~(b + c >= end) /\ end \in Nat
    BY <1>1, <1>3, <1>6 DEF Lesser
  <2>2. Positioned!Present(r) = Lesser(k, end - (b + c))
    BY <1>2, <2>1
  <2>3. Held(w) = Lesser(WindowLen(w), Actual - b)
    BY <1>1, <1>4, <1>6
  <2>4. Lesser(k, end - (b + c)) \in Nat \ {0}
    BY <1>1, <2>1 DEF Lesser
  <2>5. c + Lesser(k, end - (b + c)) <= Lesser(WindowLen(w), Actual - b)
    BY <1>1, <1>3, <1>6, <2>1 DEF Lesser
  <2>6. QED
    BY <2>2, <2>3, <2>4, <2>5 DEF b
<1>7. QED
  BY <1>1, <1>5, <1>6

-----------------------------------------------------------------------------
(***************************************************************************)
(* The invariant is inductive                                              *)
(***************************************************************************)

LEMMA WInitInv == WInit => WInv
<1> SUFFICES ASSUME WInit PROVE WInv
  OBVIOUS
<1>1. WTypeOK
  <2>1. <<>> \in Seq(Nat)
    OBVIOUS
  <2>2. QED
    BY <2>1 DEF WInit, WTypeOK
<1>2. ASSUME NEW w \in Worker PROVE AskOK(w) /\ CopyOK(w)
  <2>1. w \in Thread /\ Window[w].base \in Nat /\ Held(w) \in Nat
    BY WindowType
  <2>2. AskOK(w)
    BY <2>1 DEF WInit, Init, AskOK
  <2>3. Bytes(Window[w].base, 0) = <<>>
    BY <2>1, BytesEmpty
  <2>4. QED
    BY <2>1, <2>2, <2>3 DEF WInit, CopyOK
<1>3. QED
  BY <1>1, <1>2 DEF WInv

\* The pool does not touch a question before it answers it.
LEMMA ReqKept ==
  ASSUME IInv, NEW t \in Thread, Proceed(t), NEW u \in Thread
  PROVE  req'[u] \in {req[u], Idle}
<1>1. req \in [Thread -> Requests \cup {Idle}]
  BY DEF IInv, TypeOK
<1>2. ASSUME NEW a, Returns(t, a) PROVE req'[u] \in {req[u], Idle}
  BY <1>1, <1>2 DEF Returns
<1>3. CASE PastEnd(t) \/ NoCursor(t) \/ Finish(t) \/ Fail(t) \/ Panic(t)
  BY <1>2, <1>3 DEF PastEnd, NoCursor, Finish, Fail, Panic
<1>4. CASE Checkout(t) \/ TryLock(t) \/ Busy(t) \/ Reject(t) \/ LockFirst(t) \/ Seek(t) \/ Fill(t)
  BY <1>4 DEF Checkout, TryLock, Busy, Reject, LockFirst, Seek, Fill
<1>5. QED
  BY <1>3, <1>4 DEF Proceed, FirstCursor

\* A step of the pool leaves a thread as it is or answers it.
LEMMA Answered ==
  ASSUME PoolSize > 0, IInv, NEW t \in Thread, Proceed(t), NEW u \in Thread
  PROVE  \/ req'[u] = req[u] /\ ans'[u] = ans[u]
         \/ /\ req[u] # Idle /\ req'[u] = Idle
            /\ ans'[u] \in {Ok(Bytes(req[u].offset, Positioned!Present(req[u]))), Err, Panicked}
<1>1. req \in [Thread -> Requests \cup {Idle}] /\ ans \in [Thread -> Answer] /\ Idle \notin Requests
  BY SeekPoolConstants DEF IInv, TypeOK, SeekPoolAssumption
<1>2. [Positioned!Next]_(Positioned!vars)
  BY StepRefines DEF Next
<1>3. CASE UNCHANGED Positioned!vars
  BY <1>3 DEF Positioned!vars
<1>4. CASE Positioned!Next
  <2>1. PICK v \in Thread : Positioned!Call(v) \/ Positioned!Reply(v)
    BY <1>4 DEF Positioned!Next
  <2>2. ~Positioned!Call(v)
    <3>1. SUFFICES ASSUME Positioned!Call(v) PROVE FALSE
      OBVIOUS
    <3>2. req[v] = Idle /\ req'[v] \in Requests
      BY <1>1, <3>1 DEF Positioned!Call
    <3>3. QED
      BY <1>1, <3>2, ReqKept
  <2>3. Positioned!Reply(v)
    BY <2>1, <2>2
  <2>4. PICK a \in {Ok(Bytes(req[v].offset, Positioned!Present(req[v]))), Err, Panicked} :
          req' = [req EXCEPT ![v] = Idle] /\ ans' = [ans EXCEPT ![v] = a] /\ req[v] # Idle
    BY <2>3, SameAnswers DEF Positioned!Reply
  <2>5. CASE u = v
    BY <1>1, <2>4, <2>5
  <2>6. CASE u # v
    BY <1>1, <2>4, <2>6
  <2>7. QED
    BY <2>5, <2>6
<1>5. QED
  BY <1>2, <1>3, <1>4

\* What is asked for lies where the stream is, so that its bytes are a sequence.
LEMMA AskingType ==
  ASSUME WInv, NEW w \in Worker, asked[w] > 0
  PROVE  LET p == Positioned!Present(Asking(w))
         IN  /\ Asking(w).offset = Window[w].base + cur[w]
             /\ p \in Nat /\ cur[w] + p <= Held(w) /\ (p = 0 => cur[w] = Held(w))
             /\ Bytes(Window[w].base + cur[w], p) \in Seq(Nat)
             /\ Len(Bytes(Window[w].base + cur[w], p)) = p
<1>1. cur[w] \in Nat /\ asked[w] \in Nat
  BY DEF WInv, WTypeOK
<1>2. cur[w] + asked[w] <= WindowLen(w) /\ cur[w] <= Held(w)
  BY DEF WInv, AskOK, CopyOK
<1> DEFINE p == Positioned!Present(Asking(w))
<1>3. p \in Nat /\ cur[w] + p <= Held(w) /\ (p = 0 => cur[w] = Held(w))
  BY <1>1, <1>2, PresentInWindow DEF Asking
<1>4. Window[w].base + cur[w] \in Nat
  BY <1>1, WindowType
<1> HIDE DEF p
<1>5. Bytes(Window[w].base + cur[w], p) \in Seq(Nat) /\ Len(Bytes(Window[w].base + cur[w], p)) = p
  BY <1>3, <1>4, BytesType
<1>6. QED
  BY <1>3, <1>5 DEF p, Asking

\* A worker whose thread and cursor are left alone keeps its invariant.
LEMMA Alone ==
  ASSUME WInv, NEW w \in Worker,
         asked'[w] = asked[w], cur'[w] = cur[w], copied'[w] = copied[w], fate'[w] = fate[w],
         pc'[w] = pc[w], req'[w] = req[w], ans'[w] = ans[w]
  PROVE  AskOK(w)' /\ CopyOK(w)'
BY DEF WInv, AskOK, CopyOK, Asking, WindowLen, Held

\* A call of one thread leaves the others alone.
LEMMA CallAlone ==
  ASSUME IInv, NEW t \in Thread, Call(t), NEW u \in Thread, u # t
  PROVE  pc'[u] = pc[u] /\ req'[u] = req[u] /\ ans'[u] = ans[u]
BY DEF IInv, TypeOK, Call

LEMMA ProceedWInv ==
  ASSUME PoolSize > 0, IInv, IInv', WInv,
         NEW t \in Thread, Proceed(t), UNCHANGED workerVars
  PROVE  WInv'
<1>1. WTypeOK'
  BY DEF WInv, WTypeOK, workerVars
<1>2. SUFFICES ASSUME NEW w \in Worker PROVE AskOK(w)' /\ CopyOK(w)'
  BY <1>1 DEF WInv
<1>3. asked' = asked /\ cur' = cur /\ copied' = copied /\ fate' = fate
  BY DEF workerVars
<1>4. AskOK(w) /\ CopyOK(w)
  BY DEF WInv
<1>5. w \in Thread /\ asked[w] \in Nat
  BY WindowType DEF WInv, WTypeOK
<1>6. (pc[w] = "idle" <=> req[w] = Idle) /\ (pc'[w] = "idle" <=> req'[w] = Idle)
  BY <1>5 DEF IInv, ThreadOK
<1>7. CopyOK(w)'
  BY <1>3, <1>4 DEF CopyOK, WindowLen, Held
<1>8. CASE req'[w] = req[w] /\ ans'[w] = ans[w]
  <2>1. pc'[w] = "idle" <=> pc[w] = "idle"
    BY <1>6, <1>8
  <2>2. AskOK(w)'
    BY <1>3, <1>4, <1>8, <2>1 DEF AskOK, Asking, WindowLen
  <2>3. QED
    BY <1>7, <2>2
<1>9. CASE /\ req[w] # Idle /\ req'[w] = Idle
           /\ ans'[w] \in {Ok(Bytes(req[w].offset, Positioned!Present(req[w]))), Err, Panicked}
  <2>1. pc[w] # "idle" /\ pc'[w] = "idle"
    BY <1>6, <1>9
  <2>2. asked[w] > 0 /\ req[w] = Asking(w)
    BY <1>4, <1>5, <2>1 DEF AskOK
  <2>3. Asking(w)' = Asking(w)
    BY <1>3 DEF Asking
  <2>4. AskOK(w)'
    BY <1>3, <1>4, <1>9, <2>1, <2>2, <2>3 DEF AskOK, WindowLen, Positioned!Present, Positioned!Lesser
  <2>5. QED
    BY <1>7, <2>4
<1>10. QED
  BY <1>5, <1>8, <1>9, Answered

LEMMA ReadNothingWInv ==
  ASSUME WInv, NEW v \in Worker, ReadNothing(v)
  PROVE  WInv'
<1>1. /\ fate[v] = "reading" /\ asked[v] = 0 /\ cur[v] >= WindowLen(v)
      /\ fate' = [fate EXCEPT ![v] = "eof"]
      /\ asked' = asked /\ cur' = cur /\ copied' = copied
      /\ pc' = pc /\ req' = req /\ ans' = ans
  BY DEF ReadNothing, vars
<1>2. WTypeOK'
  BY <1>1 DEF WInv, WTypeOK
<1>3. SUFFICES ASSUME NEW w \in Worker PROVE AskOK(w)' /\ CopyOK(w)'
  BY <1>2 DEF WInv
<1>4. CASE w = v
  <2>1. AskOK(v) /\ CopyOK(v) /\ cur[v] \in Nat /\ WindowLen(v) \in Nat
    BY WindowType DEF WInv, WTypeOK
  <2>2. AskOK(v)'
    BY <1>1, <2>1 DEF AskOK
  <2>3. Held(v) <= WindowLen(v) /\ Held(v) \in Nat
    BY WindowType DEF Held, Lesser
  <2>4. cur[v] = Held(v)
    BY <1>1, <2>1, <2>3 DEF CopyOK
  <2>5. CopyOK(v)'
    BY <1>1, <2>1, <2>4 DEF CopyOK, Held, WindowLen
  <2>6. QED
    BY <1>4, <2>2, <2>5
<1>5. CASE w # v
  <2>1. fate'[w] = fate[w]
    BY <1>1, <1>5 DEF WInv, WTypeOK
  <2>2. QED
    BY <1>1, <2>1, Alone
<1>6. QED
  BY <1>4, <1>5

LEMMA ReadWInv ==
  ASSUME IInv, IInv', WInv, NEW v \in Worker, Read(v)
  PROVE  WInv'
<1>1. PICK n \in Chunks :
        /\ Call(v)
        /\ req'[v] = [offset |-> Window[v].base + cur[v], n |-> Lesser(n, WindowLen(v) - cur[v])]
        /\ asked' = [asked EXCEPT ![v] = Lesser(n, WindowLen(v) - cur[v])]
  BY DEF Read
<1>2. /\ cur[v] < WindowLen(v) /\ cur' = cur /\ copied' = copied /\ fate' = fate
  BY DEF Read
<1>3. v \in Thread /\ WindowLen(v) \in Nat /\ cur[v] \in Nat /\ n \in Nat \ {0}
  BY WindowType, WorkersConstants DEF WInv, WTypeOK, WorkersAssumption
<1> DEFINE want == Lesser(n, WindowLen(v) - cur[v])
<1>4. want \in Nat \ {0} /\ cur[v] + want <= WindowLen(v)
  BY <1>2, <1>3 DEF Lesser
<1> HIDE DEF want
<1>5. asked' = [asked EXCEPT ![v] = want] /\ req'[v] = [offset |-> Window[v].base + cur[v], n |-> want]
  BY <1>1 DEF want
<1>6. WTypeOK'
  BY <1>2, <1>4, <1>5 DEF WInv, WTypeOK
<1>7. SUFFICES ASSUME NEW w \in Worker PROVE AskOK(w)' /\ CopyOK(w)'
  BY <1>6 DEF WInv
<1>8. CASE w = v
  <2>1. asked'[v] = want
    BY <1>5 DEF WInv, WTypeOK
  <2>2. pc'[v] = "start"
    BY <1>1, <1>3 DEF IInv, TypeOK, Call
  <2>3. AskOK(v)'
    BY <1>2, <1>4, <1>5, <2>1, <2>2 DEF AskOK, Asking, WindowLen
  <2>4. CopyOK(v)'
    BY <1>2 DEF WInv, CopyOK, Held, WindowLen
  <2>5. QED
    BY <1>8, <2>3, <2>4
<1>9. CASE w # v
  <2>1. asked'[w] = asked[w]
    BY <1>5, <1>9 DEF WInv, WTypeOK
  <2>2. pc'[w] = pc[w] /\ req'[w] = req[w] /\ ans'[w] = ans[w]
    BY <1>1, <1>3, <1>9, CallAlone, WindowType
  <2>3. QED
    BY <1>2, <2>1, <2>2, Alone
<1>10. QED
  BY <1>8, <1>9

\* The answer joins the copy at its place; only an empty one at the end of what
\* the readers have ends the worker.
LEMMA TakeWInv ==
  ASSUME WInv, NEW v \in Worker, Take(v)
  PROVE  WInv'
<1> DEFINE b == Window[v].base
           p == Positioned!Present(Asking(v))
           new == ans[v].bytes
<1>1. /\ asked[v] > 0 /\ pc[v] = "idle"
      /\ asked' = [asked EXCEPT ![v] = 0]
      /\ cur' = [cur EXCEPT ![v] = cur[v] + Len(new)]
      /\ copied' = [copied EXCEPT ![v] = copied[v] \o new]
      /\ pc' = pc /\ req' = req /\ ans' = ans
  BY DEF Take, Advanced, WInv, WTypeOK, vars
<1>2. PICK f \in IF AtEnd(v) THEN {"eof"} ELSE Outcomes[ans[v].kind] :
        fate' = [fate EXCEPT ![v] = f]
  BY DEF Take
<1>3. /\ b \in Nat /\ cur[v] \in Nat /\ Held(v) \in Nat
      /\ cur[v] = Len(copied[v]) /\ copied[v] = Bytes(b, cur[v])
      /\ cur[v] <= Held(v)
  BY WindowType DEF WInv, WTypeOK, CopyOK
<1>4. ans[v] \in {Ok(Bytes(b + cur[v], p)), Err, Panicked}
  BY <1>1, AskingType DEF WInv, AskOK
<1>5. /\ p \in Nat /\ cur[v] + p <= Held(v) /\ (p = 0 => cur[v] = Held(v))
      /\ Bytes(b + cur[v], p) \in Seq(Nat) /\ Len(Bytes(b + cur[v], p)) = p
  BY <1>1, AskingType
<1> HIDE DEF p, b
<1>6. AtEnd(v) => cur[v] = Held(v)
  BY <1>4, <1>5 DEF AtEnd, Ok, Err, Panicked
<1>7. f \in {"reading", "eof", "gave up", "died"} /\ (f = "eof" => AtEnd(v))
  <2>1. ans[v].kind \in {"ok", "err", "panic"}
    BY <1>4 DEF Ok, Err, Panicked
  <2>2. Outcomes[ans[v].kind] \subseteq {"reading", "gave up", "died"}
    <3>1. /\ Outcomes["ok"] = {"reading"} /\ Outcomes["panic"] = {"died"}
          /\ Outcomes["err"] = {"reading", "gave up"}
      BY DEF Outcomes
    <3>2. QED
      BY <2>1, <3>1
  <2>3. QED
    BY <1>2, <2>2
<1>8. PICK k \in Nat : new = Bytes(b + cur[v], k) /\ Len(new) = k /\ new \in Seq(Nat) /\ cur[v] + k <= Held(v)
                       /\ (AtEnd(v) => k = 0)
  <2>1. CASE ans[v] = Ok(Bytes(b + cur[v], p))
    <3>1. new = Bytes(b + cur[v], p)
      BY <2>1 DEF Ok
    <3>2. AtEnd(v) => p = 0
      BY <1>5, <3>1 DEF AtEnd, Ok
    <3>3. QED
      BY <1>5, <3>1, <3>2
  <2>2. CASE ans[v] \in {Err, Panicked}
    <3>1. new = <<>>
      BY <2>2 DEF Err, Panicked
    <3>2. Bytes(b + cur[v], 0) = <<>>
      BY <1>3, BytesEmpty
    <3>3. QED
      BY <1>3, <3>1, <3>2
  <2>3. QED
    BY <1>4, <2>1, <2>2
<1> HIDE DEF new
<1>9. WTypeOK'
  <2>1. copied[v] \in Seq(Nat) /\ new \in Seq(Nat) /\ Len(new) \in Nat
    BY <1>8 DEF WInv, WTypeOK
  <2>2. copied[v] \o new \in Seq(Nat) /\ cur[v] + Len(new) \in Nat
    BY <1>3, <2>1
  <2>3. QED
    BY <1>1, <1>2, <1>7, <2>2 DEF WInv, WTypeOK
<1>10. SUFFICES ASSUME NEW w \in Worker PROVE AskOK(w)' /\ CopyOK(w)'
  BY <1>9 DEF WInv
<1>11. CASE w = v
  <2>1. asked'[v] = 0 /\ pc'[v] = "idle" /\ cur'[v] = cur[v] + k
        /\ copied'[v] = copied[v] \o new /\ fate'[v] = f
    BY <1>1, <1>2, <1>8 DEF WInv, WTypeOK
  <2>2. AskOK(v)'
    BY <2>1 DEF AskOK
  <2>3. copied[v] \o new = Bytes(b, cur[v] + k)
    <3>1. b \in Nat /\ cur[v] \in Nat
      BY <1>3
    <3>2. Bytes(b, cur[v]) \o Bytes(b + cur[v], k) = Bytes(b, cur[v] + k)
      BY <3>1, BytesAppend
    <3>3. QED
      BY <1>3, <1>8, <3>2
  <2>4. Len(copied[v] \o new) = cur[v] + k
    <3>1. b \in Nat /\ cur[v] + k \in Nat
      BY <1>3
    <3>2. Len(Bytes(b, cur[v] + k)) = cur[v] + k
      BY <3>1, BytesType
    <3>3. QED
      BY <2>3, <3>2
  <2>5. f = "eof" => cur[v] + k = Held(v)
    BY <1>3, <1>6, <1>7, <1>8
  <2>6. CopyOK(v)'
    BY <1>8, <2>1, <2>3, <2>4, <2>5 DEF CopyOK, Held, WindowLen, b
  <2>7. QED
    BY <1>11, <2>2, <2>6
<1>12. CASE w # v
  <2>1. asked'[w] = asked[w] /\ cur'[w] = cur[w] /\ copied'[w] = copied[w] /\ fate'[w] = fate[w]
    BY <1>1, <1>2, <1>12 DEF WInv, WTypeOK
  <2>2. QED
    BY <1>1, <2>1, Alone
<1>13. QED
  BY <1>11, <1>12

LEMMA WNextInv == PoolSize > 0 /\ IInv /\ IInv' /\ WInv /\ [WNext]_allVars => WInv'
<1>1. SUFFICES ASSUME PoolSize > 0, IInv, IInv', WInv, [WNext]_allVars PROVE WInv'
  OBVIOUS
<1>2. CASE UNCHANGED allVars
  <2>1. /\ asked' = asked /\ cur' = cur /\ copied' = copied /\ fate' = fate
        /\ pc' = pc /\ req' = req /\ ans' = ans
    BY <1>2 DEF allVars, vars, workerVars
  <2>2. QED
    BY <1>1, <2>1, Alone DEF WInv, WTypeOK
<1>3. ASSUME NEW w \in Worker, ReadNothing(w) \/ Read(w) \/ Take(w) PROVE WInv'
  BY <1>1, <1>3, ReadNothingWInv, ReadWInv, TakeWInv
<1>4. ASSUME NEW t \in Thread, Proceed(t), UNCHANGED workerVars PROVE WInv'
  BY <1>1, <1>4, ProceedWInv
<1>5. ASSUME NEW t \in Thread, ReadDirect(t) PROVE WInv'
  <2>1. /\ t \notin Worker /\ Call(t)
        /\ asked' = asked /\ cur' = cur /\ copied' = copied /\ fate' = fate
    BY <1>5 DEF ReadDirect, workerVars
  <2>2. WTypeOK'
    BY <1>1, <2>1 DEF WInv, WTypeOK
  <2>3. ASSUME NEW w \in Worker PROVE AskOK(w)' /\ CopyOK(w)'
    <3>1. pc'[w] = pc[w] /\ req'[w] = req[w] /\ ans'[w] = ans[w]
      BY <1>1, <2>1, CallAlone, WindowType
    <3>2. QED
      BY <1>1, <2>1, <3>1, Alone
  <2>4. QED
    BY <2>2, <2>3 DEF WInv
<1>6. QED
  BY <1>1, <1>2, <1>3, <1>4, <1>5 DEF WNext

-----------------------------------------------------------------------------
(***************************************************************************)
(* A pool of no cursors, which SeekPoolSource::new accepts                 *)
(***************************************************************************)

\* Nobody has been given a byte.
Starved ==
  /\ WTypeOK
  /\ \A t \in Thread : ans[t].bytes = <<>>
  /\ \A w \in Worker : cur[w] = 0 /\ copied[w] = <<>>

\* Without cursors read_at gets no further than checkout.
LEMMA EmptyAnswers ==
  ASSUME PoolSize = 0, IInv, NEW t \in Thread, Call(t) \/ Proceed(t),
         \A u \in Thread : ans[u].bytes = <<>>
  PROVE  \A u \in Thread : ans'[u].bytes = <<>>
<1>1. ans \in [Thread -> Answer] /\ pc[t] \notin {"probe", "reject", "seek", "read"}
  BY DEF IInv, TypeOK, ThreadOK, Cursor
<1>2. ASSUME ans' = [ans EXCEPT ![t] = Ok(<<>>)] PROVE \A u \in Thread : ans'[u].bytes = <<>>
  BY <1>1, <1>2 DEF Ok
<1>3. CASE Call(t)
  BY <1>2, <1>3 DEF Call
<1>4. CASE PastEnd(t) \/ NoCursor(t)
  BY <1>2, <1>4 DEF PastEnd, NoCursor, Returns
<1>5. CASE Checkout(t)
  BY <1>5 DEF Checkout
<1>6. ~(TryLock(t) \/ Busy(t) \/ Reject(t) \/ Seek(t) \/ Fill(t) \/ Finish(t) \/ Fail(t) \/ Panic(t))
  BY <1>1 DEF TryLock, Busy, Reject, Seek, Fill, Finish, Fail, Panic, Reading
<1>7. QED
  BY <1>3, <1>4, <1>5, <1>6 DEF Proceed, FirstCursor

LEMMA StarvedInit == WInit => Starved
<1>1. <<>> \in Seq(Nat)
  OBVIOUS
<1>2. QED
  BY <1>1 DEF WInit, Init, Starved, WTypeOK, Ok

LEMMA StarvedNext == PoolSize = 0 /\ IInv /\ Starved /\ [WNext]_allVars => Starved'
<1>1. SUFFICES ASSUME PoolSize = 0, IInv, Starved, [WNext]_allVars PROVE Starved'
  OBVIOUS
<1>2. CASE UNCHANGED allVars
  BY <1>1, <1>2 DEF allVars, vars, workerVars, Starved, WTypeOK
<1>3. ASSUME NEW w \in Worker, ReadNothing(w) PROVE Starved'
  BY <1>1, <1>3 DEF ReadNothing, vars, Starved, WTypeOK
<1>4. ASSUME NEW w \in Worker, Read(w) PROVE Starved'
  <2>1. w \in Thread /\ Chunks \subseteq Nat \ {0} /\ cur[w] = 0 /\ WindowLen(w) \in Nat
    BY <1>1, WindowType, WorkersConstants DEF Starved, WorkersAssumption
  <2>2. PICK n \in Chunks :
          /\ Call(w)
          /\ asked' = [asked EXCEPT ![w] = Lesser(n, WindowLen(w) - cur[w])]
    BY <1>4 DEF Read
  <2>3. Lesser(n, WindowLen(w) - cur[w]) \in Nat
    BY <2>1, <2>2 DEF Lesser
  <2>4. cur' = cur /\ copied' = copied /\ fate' = fate
    BY <1>4 DEF Read
  <2>5. WTypeOK'
    BY <1>1, <2>2, <2>3, <2>4 DEF Starved, WTypeOK
  <2>6. \A u \in Thread : ans'[u].bytes = <<>>
    BY <1>1, <2>1, <2>2, EmptyAnswers DEF Starved
  <2>7. QED
    BY <1>1, <2>4, <2>5, <2>6 DEF Starved
<1>5. ASSUME NEW w \in Worker, Take(w) PROVE Starved'
  <2>1. w \in Thread /\ ans[w].bytes = <<>> /\ cur[w] = 0 /\ copied[w] = <<>>
    BY <1>1, WindowType DEF Starved
  <2>2. /\ asked' = [asked EXCEPT ![w] = 0] /\ ans' = ans
        /\ cur' = [cur EXCEPT ![w] = cur[w] + Len(ans[w].bytes)]
        /\ copied' = [copied EXCEPT ![w] = copied[w] \o ans[w].bytes]
    BY <1>5 DEF Take, Advanced, vars
  <2>3. PICK f \in IF AtEnd(w) THEN {"eof"} ELSE Outcomes[ans[w].kind] :
          fate' = [fate EXCEPT ![w] = f]
    BY <1>5 DEF Take
  <2>4. ans[w].kind \in {"ok", "err", "panic"}
    BY <1>1, <2>1 DEF IInv, TypeOK, Answer
  <2>5. /\ Outcomes["ok"] = {"reading"} /\ Outcomes["panic"] = {"died"}
        /\ Outcomes["err"] = {"reading", "gave up"}
    BY DEF Outcomes
  <2>6. f \in {"reading", "eof", "gave up", "died"}
    BY <2>3, <2>4, <2>5
  <2>7. cur[w] + Len(ans[w].bytes) = 0 /\ copied[w] \o ans[w].bytes = <<>> /\ <<>> \in Seq(Nat)
    BY <2>1
  <2>8. WTypeOK'
    BY <1>1, <2>2, <2>3, <2>6, <2>7 DEF Starved, WTypeOK
  <2>9. \A v \in Worker : cur'[v] = 0 /\ copied'[v] = <<>>
    BY <1>1, <2>2, <2>7 DEF Starved, WTypeOK
  <2>10. QED
    BY <1>1, <2>2, <2>8, <2>9 DEF Starved
<1>6. ASSUME NEW t \in Thread, Call(t) \/ Proceed(t), UNCHANGED workerVars PROVE Starved'
  <2>1. \A u \in Thread : ans'[u].bytes = <<>>
    BY <1>1, <1>6, EmptyAnswers DEF Starved
  <2>2. QED
    BY <1>1, <1>6, <2>1 DEF Starved, WTypeOK, workerVars
<1>7. QED
  BY <1>1, <1>2, <1>3, <1>4, <1>5, <1>6 DEF WNext, ReadDirect

-----------------------------------------------------------------------------
(***************************************************************************)
(* Theorems                                                                *)
(***************************************************************************)

\* What every reachable state of the workers satisfies over a pool with a
\* cursor (SourceCursor over SeekPoolSource).
THEOREM WorkersInvariance == ASSUME PoolSize > 0 PROVE WSpec => []WInv
<1>1. PoolSize > 0
  OBVIOUS
<1>2. IInv /\ IInv' /\ WInv /\ [WNext]_allVars => WInv'
  BY <1>1, WNextInv
<1>3. QED
  BY <1>2, WInitInv, WInvariance, PTL DEF WSpec

LEMMA EmptyPoolStarved == ASSUME PoolSize = 0 PROVE WSpec => []Starved
<1>1. PoolSize = 0
  OBVIOUS
<1>2. IInv /\ Starved /\ [WNext]_allVars => Starved'
  BY <1>1, StarvedNext
<1>3. QED
  BY <1>2, StarvedInit, WInvariance, PTL DEF WSpec

\* Over a pool of no cursors no worker ever gets a byte.  The Ok(0) that it gets
\* instead, before the end too, is what a reader takes for the end of a stream:
\* the branch of read_at that a comment calls unreachable.
THEOREM EmptyPool ==
  ASSUME PoolSize = 0
  PROVE  WSpec => [](\A w \in Worker : copied[w] = <<>>)
<1>1. Starved => \A w \in Worker : copied[w] = <<>>
  BY DEF Starved
<1>2. QED
  BY <1>1, EmptyPoolStarved, PTL

\* The variables of the workers keep their types, over a pool of any size.
THEOREM WorkersTypeCorrect == WSpec => []WTypeOK
<1>1. PoolSize > 0 \/ PoolSize = 0
  BY SeekPoolConstants DEF SeekPoolAssumption
<1>2. CASE PoolSize > 0
  <2>1. WInv => WTypeOK
    BY DEF WInv
  <2>2. WSpec => []WInv
    BY <1>2, WorkersInvariance
  <2>3. QED
    BY <2>1, <2>2, PTL
<1>3. CASE PoolSize = 0
  <2>1. Starved => WTypeOK
    BY DEF Starved
  <2>2. WSpec => []Starved
    BY <1>3, EmptyPoolStarved
  <2>3. QED
    BY <2>1, <2>2, PTL
<1>4. QED
  BY <1>1, <1>2, <1>3

\* Every worker's copy is the front of its window, byte for byte, whoever it
\* shares the cursors of the pool with, how many there are, none included, and
\* whatever failed before.
THEOREM CopiesAreFaithful == WSpec => []CopiesFaithful
<1>1. PoolSize > 0 \/ PoolSize = 0
  BY SeekPoolConstants DEF SeekPoolAssumption
<1>2. CASE PoolSize > 0
  <2>1. WInv => CopiesFaithful
    BY DEF WInv, CopyOK, CopiesFaithful
  <2>2. WSpec => []WInv
    BY <1>2, WorkersInvariance
  <2>3. QED
    BY <2>1, <2>2, PTL
<1>3. CASE PoolSize = 0
  <2>1. Starved => CopiesFaithful
    <3>1. SUFFICES ASSUME Starved, NEW w \in Worker
                   PROVE  cur[w] = Len(copied[w]) /\ copied[w] = Bytes(Window[w].base, cur[w])
      BY DEF CopiesFaithful
    <3>2. Bytes(Window[w].base, 0) = <<>>
      BY WindowType, BytesEmpty
    <3>3. QED
      BY <3>1, <3>2 DEF Starved
  <2>2. WSpec => []Starved
    BY <1>3, EmptyPoolStarved
  <2>3. QED
    BY <2>1, <2>2, PTL
<1>4. QED
  BY <1>1, <1>2, <1>3

\* Over a pool with a cursor, a worker that came to the end of its window has
\* all of it; over a pool of no cursors, which the constructor accepts as well,
\* it has nothing.
THEOREM CopiesAreWhole ==
  WSpec => [](IF PoolSize > 0 THEN CopiesWhole ELSE \A w \in Worker : copied[w] = <<>>)
<1> DEFINE Goal == IF PoolSize > 0 THEN CopiesWhole ELSE \A w \in Worker : copied[w] = <<>>
<1>1. PoolSize > 0 \/ (PoolSize = 0 /\ ~(PoolSize > 0))
  BY SeekPoolConstants DEF SeekPoolAssumption
<1>2. CASE PoolSize > 0
  <2>1. WInv => Goal
    <3>1. WInv => CopiesWhole
      <4>1. SUFFICES ASSUME WInv, NEW w \in Worker, fate[w] = "eof"
                     PROVE  Len(copied[w]) = Held(w)
        BY DEF CopiesWhole
      <4>2. QED
        BY <4>1 DEF WInv, CopyOK
    <3>2. QED
      BY <1>2, <3>1
  <2>2. WSpec => []WInv
    BY <1>2, WorkersInvariance
  <2>3. QED
    BY <2>1, <2>2, PTL
<1>3. CASE PoolSize = 0 /\ ~(PoolSize > 0)
  <2>1. Starved => Goal
    BY <1>3 DEF Starved
  <2>2. WSpec => []Starved
    BY <1>3, EmptyPoolStarved
  <2>3. QED
    BY <2>1, <2>2, PTL
<1>4. QED
  BY <1>1, <1>2, <1>3

=============================================================================
