------------------------------ MODULE Workers ------------------------------
(***************************************************************************)
(* Workers that analyse windows of one shared pool, each through a         *)
(* SourceCursor of its own (adapters.rs), beside threads that call read_at *)
(* themselves.  A worker reads its window from the start to the end; after *)
(* a failed read it may try again or give up, and a panic ends it.         *)
(***************************************************************************)
EXTENDS SeekPool

CONSTANTS
  Worker,     \* the threads that own a cursor
  Window,     \* the base and length each cursor is made with
  Chunks,     \* the sizes of the buffers given to Read::read
  Direct      \* the reads of the other threads

WorkersAssumption ==
  /\ Worker \subseteq Thread
  /\ Window \in [Worker -> [base : Nat, len : Nat]]
  /\ Chunks \subseteq Nat \ {0}
  /\ Direct \subseteq Requests
  /\ \A w \in Worker : \A p \in 0..Declared : \A k \in 0..Declared :
       [offset |-> Window[w].base + p, n |-> k] \in Requests

ASSUME WorkersConstants == WorkersAssumption

VARIABLES
  cur,        \* the position of each worker's cursor in its window
  copied,     \* what the worker has read
  fate,       \* "reading", or how its analysis ended
  asked       \* its cursor is inside read_at of the pool, with a buffer of so
              \* many bytes; 0: it is not

workerVars == <<cur, copied, fate, asked>>

allVars == <<vars, workerVars>>

-----------------------------------------------------------------------------
\* len.min(src.len().saturating_sub(base))
WindowLen(w) ==
  IF Window[w].base >= Declared THEN 0 ELSE Lesser(Window[w].len, Declared - Window[w].base)

\* Slips in Advanced: the cursor moves on by what was asked for, or back.
AdvancedByWant(w) == cur[w] + asked[w]
AdvancedBack(w) == cur[w] - Len(ans[w].bytes)

Advanced(w) == cur[w] + Len(ans[w].bytes)

\* The read gave Ok(0).
AtEnd(w) == ans[w] = Ok(<<>>)

\* How a worker may go on after a read, by the kind of its answer.
Outcomes == [ok |-> {"reading"}, err |-> {"reading", "gave up"}, panic |-> {"died"}]

-----------------------------------------------------------------------------
WInit ==
  /\ Init
  /\ cur = [w \in Worker |-> 0]
  /\ copied = [w \in Worker |-> <<>>]
  /\ fate = [w \in Worker |-> "reading"]
  /\ asked = [w \in Worker |-> 0]

\* Read::read past the end of the window is Ok(0), and the pool is not asked.
ReadNothing(w) ==
  /\ fate[w] = "reading" /\ asked[w] = 0
  /\ cur[w] >= WindowLen(w)
  /\ fate' = [fate EXCEPT ![w] = "eof"]
  /\ UNCHANGED <<vars, cur, copied, asked>>

\* Read::read asks the pool for what its buffer and the window have room for.
Read(w) ==
  /\ fate[w] = "reading" /\ asked[w] = 0
  /\ cur[w] < WindowLen(w)
  /\ \E n \in Chunks :
       LET want == Lesser(n, WindowLen(w) - cur[w])
       IN  /\ Call(w)
           /\ req'[w] = [offset |-> Window[w].base + cur[w], n |-> want]
           /\ asked' = [asked EXCEPT ![w] = want]
  /\ UNCHANGED <<cur, copied, fate>>

\* The pool has answered; Read::read returns.
Take(w) ==
  /\ asked[w] > 0 /\ pc[w] = "idle"
  /\ asked' = [asked EXCEPT ![w] = 0]
  /\ cur' = [cur EXCEPT ![w] = Advanced(w)]
  /\ copied' = [copied EXCEPT ![w] = @ \o ans[w].bytes]
  /\ \E f \in IF AtEnd(w) THEN {"eof"} ELSE Outcomes[ans[w].kind] :
       fate' = [fate EXCEPT ![w] = f]
  /\ UNCHANGED vars

\* A thread without a cursor reads the pool itself.
ReadDirect(t) ==
  /\ t \notin Worker
  /\ Call(t)
  /\ req'[t] \in Direct
  /\ UNCHANGED workerVars

WNext ==
  \/ \E w \in Worker : ReadNothing(w) \/ Read(w) \/ Take(w)
  \/ \E t \in Thread : ReadDirect(t) \/ (Proceed(t) /\ UNCHANGED workerVars)

WSpec == WInit /\ [][WNext]_allVars

\* A worker that is reading goes on, and so does every thread inside the pool.
WFairSpec ==
  /\ WSpec
  /\ \A t \in Thread : WF_allVars(Proceed(t) /\ UNCHANGED workerVars)
  /\ \A w \in Worker : WF_allVars(ReadNothing(w) \/ Read(w) \/ Take(w))

-----------------------------------------------------------------------------
(***************************************************************************)
(* Properties                                                              *)
(***************************************************************************)

\* The variables of the workers have their types.
WTypeOK ==
  /\ cur \in [Worker -> Nat]
  /\ copied \in [Worker -> Seq(Nat)]
  /\ fate \in [Worker -> {"reading", "eof", "gave up", "died"}]
  /\ asked \in [Worker -> Nat]

\* What a worker has read are the bytes of its window from the start on, none
\* left out, read twice or mixed with another thread's, although the cursors of
\* the pool are handed from thread to thread at any position, and reads fail
\* and are tried again.
CopiesFaithful ==
  \A w \in Worker : /\ cur[w] = Len(copied[w])
                    /\ copied[w] = Bytes(Window[w].base, cur[w])

\* What the readers of the pool have of a window.
Held(w) ==
  IF Window[w].base >= Actual THEN 0 ELSE Lesser(WindowLen(w), Actual - Window[w].base)

\* A worker that came to the end of its window has all of it, whoever else
\* failed, gave up or panicked under a lock in the meantime.  This takes a pool
\* with a cursor: one of no cursors answers Ok(0) everywhere.
CopiesWhole == \A w \in Worker : fate[w] = "eof" => Len(copied[w]) = Held(w)

\* If the readers of the pool fail no more and no other thread keeps reading,
\* every worker comes to an end: an earlier panic costs the pool cursors, but
\* leaves nobody waiting.
AllFinish ==
  <>[][\A t \in Thread : ~Fail(t) /\ ~Panic(t) /\ ~ReadDirect(t)]_allVars
    => <>(\A w \in Worker : fate[w] # "reading")
=============================================================================
