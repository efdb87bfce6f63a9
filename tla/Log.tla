-------------------------------- MODULE Log --------------------------------
(***************************************************************************)
(* Logging: the pool of scratch buffers and the way of a line through it   *)
(* (src/src/log.go).                                                       *)
(*                                                                         *)
(* Any number of goroutines log at once.  Nothing calls LogInit, so logCh  *)
(* is nil and every line takes the default branch of send: the goroutine   *)
(* writes it itself.                                                       *)
(*                                                                         *)
(* A goroutine has one line in the works at a time, and its name stands    *)
(* for that line.  A buffer holds a sequence of lines, which is at most    *)
(* one line long unless buffers get mixed up.                              *)
(***************************************************************************)
EXTENDS Goroutines, Naturals, Sequences

CONSTANTS
  Buffers,    \* memory for buffers
  Made,       \* the buffers newBufPool makes, 64 in the code
  PoolSize    \* capacity of the pool, 256 in the code

ASSUME LogAssumption ==
  /\ Made \in Seq(Buffers) /\ Len(Made) <= PoolSize
  /\ \A m, n \in 1..Len(Made) : Made[m] = Made[n] => m = n
  /\ PoolSize \in Nat
  /\ None \notin Buffers

VARIABLES
  pool,    \* bufPool.ch
  held,    \* the lines in each buffer
  logger   \* per goroutine: its place in the log functions, its buffer and
           \*   the message send made of it

logVars == <<pool, held, logger>>

At(at, buf, msg) == [at |-> at, buf |-> buf, msg |-> msg]
Quiet == At("out", None, <<>>)

newBufPool ==
  /\ pool = Made
  /\ held = [b \in Buffers |-> <<>>]
  /\ logger = [p \in Procs |-> Quiet]

----------------------------------------------------------------------------
\* make: memory that nothing refers to.
Unused(b) ==
  /\ \A n \in 1..Len(pool) : pool[n] # b
  /\ \A p \in Procs : logger[p].buf # b

\* The first buffer of the pool or, when there is none, a new one, emptied.
get(p) ==
  /\ logger[p].at = "out"
  /\ \E b \in Buffers :
       /\ IF pool # <<>> THEN b = Head(pool) /\ pool' = Tail(pool)
                         ELSE Unused(b) /\ pool' = pool
       /\ held' = [held EXCEPT ![b] = <<>>]
       /\ logger' = [logger EXCEPT ![p] = At("format", b, <<>>)]

\* Mutant: the buffer does not get the line (*bp = b is missing).
formatMutant(p) ==
  /\ logger[p].at = "format"
  /\ logger' = [logger EXCEPT ![p] = At("copy", logger[p].buf, <<>>)]
  /\ UNCHANGED <<pool, held>>

\* logLine, logSpace, logHttpReq and logDnsReq append the line to the buffer.
format(p) ==
  /\ logger[p].at = "format"
  /\ held' = [held EXCEPT ![logger[p].buf] = Append(@, p)]
  /\ logger' = [logger EXCEPT ![p] = At("copy", logger[p].buf, <<>>)]
  /\ UNCHANGED pool

\* send copies the buffer.
copy(p) ==
  /\ logger[p].at = "copy"
  /\ logger' = [logger EXCEPT
                  ![p] = At("put", logger[p].buf, held[logger[p].buf])]
  /\ UNCHANGED <<pool, held>>

\* Back to the pool if there is room, and left to the garbage collector if not.
put(p, to) ==
  LET b == logger[p].buf IN
  /\ held' = [held EXCEPT ![b] = <<>>]
  /\ pool' = IF Len(pool) < PoolSize THEN Append(pool, b) ELSE pool
  /\ logger' = [logger EXCEPT ![p] = At(to, None, logger[p].msg)]

\* send gives the buffer back before it writes.
release(p) == logger[p].at = "put" /\ put(p, "write")

\* Mutant: the early return is missing.
skipMutant(p) ==
  /\ logger[p].at = "format"
  /\ held' = [held EXCEPT ![logger[p].buf] = <<>>]
  /\ pool' = IF Len(pool) < PoolSize THEN Append(pool, logger[p].buf) ELSE pool
  /\ UNCHANGED logger

\* logHttpReq and logDnsReq give up the line below the debug level.
skip(p) == logger[p].at = "format" /\ put(p, "out")

\* The whole message in one Write.
write(p) ==
  /\ logger[p].at = "write"
  /\ logger' = [logger EXCEPT ![p] = Quiet]
  /\ UNCHANGED <<pool, held>>

\* The steps after get.
Logs(p) == format(p) \/ copy(p) \/ release(p) \/ skip(p) \/ write(p)

LogNext == \E p \in Procs : get(p) \/ Logs(p)

LogSpec == newBufPool /\ [][LogNext]_logVars

----------------------------------------------------------------------------
(* Properties                                                              *)

\* No two goroutines hold the same buffer, none holds one that is in the pool,
\* and none is in the pool twice.
Exclusive ==
  /\ \A p, q \in Procs :
       logger[p].buf # None /\ logger[p].buf = logger[q].buf => p = q
  /\ \A p \in Procs : \A n \in 1..Len(pool) : pool[n] # logger[p].buf
  /\ \A m, n \in 1..Len(pool) : pool[m] = pool[n] => m = n

\* What a goroutine writes to the log is its own line, whole and alone, though
\* its buffer went back to the pool before and others may be filling it.
OwnLine == \A p \in Procs : logger[p].at = "write" => logger[p].msg = <<p>>
=============================================================================
