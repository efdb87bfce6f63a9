--------------------------- MODULE ServingProofs ---------------------------
(***************************************************************************)
(* What holds in an instance that serves requests, for any number of       *)
(* goroutines, requests, buffers and metrics:                              *)
(*                                                                         *)
(*   - the scratch buffers of the log never mix two lines (ServingLog);    *)
(*   - a scrape that runs by itself shows every runtime metric             *)
(*     (ScrapeCorrect);                                                    *)
(*   - the tables are never used without their locks (ServingCorrect,      *)
(*     ServingTypeCorrect);                                                *)
(*   - goroutines never wait for locks in a circle (DeadlockFree).         *)
(***************************************************************************)
EXTENDS Serving, TLAPS

\* The first element of a sequence and the others.
LEMMA HeadTail ==
  ASSUME NEW S, NEW s \in Seq(S), s # <<>>
  PROVE  /\ Tail(s) \in Seq(S) /\ Len(s) \in Nat /\ Len(s) >= 1
         /\ Len(Tail(s)) = Len(s) - 1
         /\ Head(s) = s[1] /\ Head(s) \in S
         /\ \A n \in 1..Len(Tail(s)) : Tail(s)[n] = s[n + 1]
<1>1. Len(s) \in Nat /\ Len(s) # 0
    OBVIOUS
<1>2. Head(s) = s[1] /\ Head(s) \in S
    OBVIOUS
<1>3. /\ Tail(s) \in Seq(S) /\ Len(Tail(s)) = Len(s) - 1
      /\ \A n \in 1..Len(Tail(s)) : Tail(s)[n] = s[n + 1]
    OBVIOUS
<1>. QED BY <1>1, <1>2, <1>3

\* One sequence after another.
LEMMA Concat ==
  ASSUME NEW S, NEW s \in Seq(S), NEW u \in Seq(S)
  PROVE  /\ s \o u \in Seq(S) /\ Len(s) \in Nat /\ Len(u) \in Nat
         /\ Len(s \o u) = Len(s) + Len(u)
         /\ \A n \in 1..Len(s \o u) :
              (s \o u)[n] = IF n <= Len(s) THEN s[n] ELSE u[n - Len(s)]
  OBVIOUS

----------------------------------------------------------------------------
(* The log                                                                 *)

Places == {"out", "format", "copy", "put", "write"}

\* Types, and where a goroutine has a buffer and a message.
LogTypes ==
  /\ pool \in Seq(Buffers)
  /\ held \in [Buffers -> Seq(Procs)]
  /\ logger \in [Procs -> [at : Places, buf : Buffers \cup {None},
                           msg : Seq(Procs)]]
  /\ \A p \in Procs :
       logger[p].buf = None <=> logger[p].at \in {"out", "write"}

\* The buffer of a goroutine holds nothing until its line is in, and its line
\* alone from then on.
Filled ==
  \A p \in Procs :
    /\ logger[p].at = "format" => held[logger[p].buf] = <<>>
    /\ logger[p].at = "copy"   => held[logger[p].buf] = <<p>>
    /\ logger[p].at = "put"    => logger[p].msg = <<p>>

LogInv == LogTypes /\ Exclusive /\ Filled /\ OwnLine

\* No element occurs twice.
Distinct(s) == \A m, n \in 1..Len(s) : s[m] = s[n] => m = n

\* Taking the head of a sequence of distinct elements leaves the others.
LEMMA DistinctTail ==
  ASSUME NEW S, NEW s \in Seq(S), s # <<>>, Distinct(s)
  PROVE  /\ Tail(s) \in Seq(S) /\ Distinct(Tail(s))
         /\ \E m \in 1..Len(s) : Head(s) = s[m]
         /\ \A n \in 1..Len(Tail(s)) :
              Tail(s)[n] # Head(s) /\ \E m \in 1..Len(s) : Tail(s)[n] = s[m]
<1>1. /\ Tail(s) \in Seq(S) /\ Len(s) \in Nat /\ Len(s) >= 1
      /\ Len(Tail(s)) = Len(s) - 1
      /\ Head(s) = s[1]
      /\ \A n \in 1..Len(Tail(s)) : Tail(s)[n] = s[n + 1]
    BY HeadTail
<1>2. \A n \in 1..Len(Tail(s)) : n + 1 \in 1..Len(s) /\ n + 1 # 1
    BY <1>1
<1>. QED BY <1>1, <1>2 DEF Distinct

\* Appending a new element to a sequence of distinct ones.
LEMMA DistinctAppend ==
  ASSUME NEW S, NEW s \in Seq(S), NEW e \in S, Distinct(s),
         \A n \in 1..Len(s) : s[n] # e
  PROVE  /\ Append(s, e) \in Seq(S) /\ Distinct(Append(s, e))
         /\ \A n \in 1..Len(Append(s, e)) :
              Append(s, e)[n] = e \/ \E m \in 1..Len(s) : Append(s, e)[n] = s[m]
<1> DEFINE t == Append(s, e)
<1>1. /\ t \in Seq(S) /\ Len(s) \in Nat /\ Len(t) = Len(s) + 1
      /\ \A n \in 1..Len(s) : t[n] = s[n]
      /\ t[Len(s) + 1] = e
    OBVIOUS
<1>2. \A n \in 1..Len(t) : n \in 1..Len(s) \/ n = Len(s) + 1
    BY <1>1
<1>. HIDE DEF t
<1>3. Distinct(t) /\ \A n \in 1..Len(t) :
                     t[n] = e \/ \E m \in 1..Len(s) : t[n] = s[m]
    BY Zenon, <1>1, <1>2 DEF Distinct
<1>. QED BY Zenon, <1>1, <1>3 DEF t

\* The pool starts with distinct, empty buffers that nobody holds.
LEMMA LogInitInv == newBufPool => LogInv
<1> SUFFICES ASSUME newBufPool PROVE LogInv
    BY Zenon
<1> USE LogAssumption DEF newBufPool, Quiet, At
<1>1. LogTypes
    BY DEF LogTypes, Places
<1>2. Exclusive
  <2>1. \A n \in 1..Len(pool) : pool[n] \in Buffers
      OBVIOUS
  <2>. QED BY Zenon, <2>1 DEF Exclusive
<1>3. Filled /\ OwnLine
    BY Zenon DEF Filled, OwnLine
<1>. QED BY Zenon, <1>1, <1>2, <1>3 DEF LogInv

\* A buffer that is taken from the pool or made is no other goroutine's.
LEMMA LogGet ==
  ASSUME LogInv, NEW p \in Procs, get(p)
  PROVE  LogInv'
<1> USE LogAssumption DEF At
<1>. PICK b \in Buffers :
       /\ IF pool # <<>> THEN b = Head(pool) /\ pool' = Tail(pool)
                         ELSE Unused(b) /\ pool' = pool
       /\ held' = [held EXCEPT ![b] = <<>>]
       /\ logger' = [logger EXCEPT ![p] = At("format", b, <<>>)]
    BY Zenon DEF get
<1>1. pool \in Seq(Buffers) /\ Distinct(pool)
    BY Zenon DEF LogInv, LogTypes, Exclusive, Distinct
<1>2. /\ pool' \in Seq(Buffers) /\ Distinct(pool')
      /\ \A q \in Procs : logger[q].buf # b
      /\ \A n \in 1..Len(pool') : pool'[n] # b
      /\ \A n \in 1..Len(pool') : \E m \in 1..Len(pool) : pool'[n] = pool[m]
  <2>1. CASE pool # <<>>
    <3>1. b = Head(pool) /\ pool' = Tail(pool)
        BY Zenon, <2>1
    <3>2. \A q \in Procs : \A m \in 1..Len(pool) : pool[m] # logger[q].buf
        BY Zenon DEF LogInv, Exclusive
    <3>. QED BY <1>1, <2>1, <3>1, <3>2, DistinctTail
  <2>2. CASE pool = <<>>
    <3>1. Unused(b) /\ pool' = pool
        BY Zenon, <2>2
    <3>. QED BY Zenon, <1>1, <3>1 DEF Unused
  <2>. QED BY Zenon, <2>1, <2>2
<1>3. logger[p].at = "out" /\ logger[p].buf = None /\ b # None
    BY Zenon DEF get, LogInv, LogTypes
<1>4. LogTypes'
    BY <1>2, <1>3 DEF LogInv, LogTypes, Places
<1>5. Exclusive'
  <2>1. \A q \in Procs : logger'[q].buf = IF q = p THEN b ELSE logger[q].buf
      BY Zenon DEF LogInv, LogTypes
  <2>2. \A q \in Procs : \A m \in 1..Len(pool) : pool[m] # logger[q].buf
      BY Zenon DEF LogInv, Exclusive
  <2>3. \A q \in Procs : \A n \in 1..Len(pool') : pool'[n] # logger'[q].buf
      BY <1>2, <2>1, <2>2
  <2>4. \A q, r \in Procs :
          logger'[q].buf # None /\ logger'[q].buf = logger'[r].buf => q = r
      BY <1>2, <2>1 DEF LogInv, Exclusive
  <2>. QED BY Zenon, <1>2, <2>3, <2>4 DEF Exclusive, Distinct
<1>6. Filled' /\ OwnLine'
  <2>1. /\ logger'[p] = At("format", b, <<>>) /\ held'[b] = <<>>
        /\ \A q \in Procs : q # p =>
             logger'[q] = logger[q] /\ held'[logger[q].buf] = held[logger[q].buf]
      BY <1>2 DEF LogInv, LogTypes
  <2>2. ASSUME NEW q \in Procs
        PROVE  /\ logger'[q].at = "format" => held'[logger'[q].buf] = <<>>
               /\ logger'[q].at = "copy"   => held'[logger'[q].buf] = <<q>>
               /\ logger'[q].at = "put"    => logger'[q].msg = <<q>>
               /\ logger'[q].at = "write"  => logger'[q].msg = <<q>>
    <3>1. CASE q = p
        BY <2>1, <3>1
    <3>2. CASE q # p
      <4>1. /\ logger'[q] = logger[q]
            /\ held'[logger'[q].buf] = held[logger[q].buf]
          BY <2>1, <3>2
      <4>2. /\ logger[q].at = "format" => held[logger[q].buf] = <<>>
            /\ logger[q].at = "copy"   => held[logger[q].buf] = <<q>>
            /\ logger[q].at = "put"    => logger[q].msg = <<q>>
            /\ logger[q].at = "write"  => logger[q].msg = <<q>>
          BY Zenon DEF LogInv, Filled, OwnLine
      <4>. QED BY Zenon, <4>1, <4>2
    <3>. QED BY Zenon, <3>1, <3>2
  <2>. QED BY Zenon, <2>2 DEF Filled, OwnLine
<1>. QED BY Zenon, <1>4, <1>5, <1>6 DEF LogInv

\* A line goes into a buffer nobody else holds.
LEMMA LogFormat ==
  ASSUME LogInv, NEW p \in Procs, format(p)
  PROVE  LogInv'
<1> USE DEF At
<1>1. logger[p].buf \in Buffers /\ logger[p].buf # None
    BY Zenon DEF format, LogInv, LogTypes
<1>2. \A s \in Seq(Procs) : s = <<>> => Append(s, p) = <<p>>
    OBVIOUS
<1>3. LogTypes'
    BY <1>1 DEF format, LogInv, LogTypes, Places
<1>4. Exclusive'
  <2>1. pool' = pool /\ \A q \in Procs : logger'[q].buf = logger[q].buf
      BY Zenon DEF format, LogInv, LogTypes
  <2>. QED BY <2>1 DEF LogInv, Exclusive
<1>5. Filled'
    BY <1>1, <1>2 DEF format, LogInv, LogTypes, Exclusive, Filled
<1>6. OwnLine'
    BY Zenon DEF format, LogInv, LogTypes, OwnLine
<1>. QED BY Zenon, <1>3, <1>4, <1>5, <1>6 DEF LogInv

\* The copy is what the buffer holds.
LEMMA LogCopy ==
  ASSUME LogInv, NEW p \in Procs, copy(p)
  PROVE  LogInv'
<1> USE DEF At
<1>1. logger[p].buf \in Buffers
    BY Zenon DEF copy, LogInv, LogTypes
<1>2. LogTypes'
    BY Zenon, <1>1 DEF copy, LogInv, LogTypes, Places
<1>3. Exclusive'
    BY DEF copy, LogInv, LogTypes, Exclusive
<1>4. Filled' /\ OwnLine'
    BY <1>1 DEF copy, LogInv, LogTypes, Filled, OwnLine
<1>. QED BY Zenon, <1>2, <1>3, <1>4 DEF LogInv

\* A buffer goes to the pool at most once, and its holder lets go of it.
LEMMA LogPut ==
  ASSUME LogInv, NEW p \in Procs, release(p) \/ skip(p)
  PROVE  LogInv'
<1> USE DEF At
<1> DEFINE b == logger[p].buf
<1>1. b \in Buffers /\ b # None
    BY Zenon DEF release, skip, LogInv, LogTypes
<1>2. \E to \in {"write", "out"} : put(p, to) /\ (to = "write" <=> logger[p].at = "put")
    BY Zenon DEF release, skip
<1>3. PICK to \in {"write", "out"} :
        put(p, to) /\ (to = "write" <=> logger[p].at = "put")
    BY Zenon, <1>2
<1>4. /\ held' = [held EXCEPT ![b] = <<>>]
      /\ pool' = IF Len(pool) < PoolSize THEN Append(pool, b) ELSE pool
      /\ logger' = [logger EXCEPT ![p] = At(to, None, logger[p].msg)]
    BY Zenon, <1>3 DEF put
<1>5. LogTypes'
    BY <1>1, <1>4 DEF LogInv, LogTypes, Places
<1>6. \A q \in Procs \ {p} : logger[q].buf # b
    BY Zenon, <1>1 DEF LogInv, Exclusive
<1>7. /\ Distinct(pool')
      /\ \A n \in 1..Len(pool') :
           pool'[n] = b \/ \E m \in 1..Len(pool) : pool'[n] = pool[m]
  <2>1. /\ pool \in Seq(Buffers) /\ Distinct(pool)
        /\ \A n \in 1..Len(pool) : pool[n] # b
      BY Zenon DEF LogInv, LogTypes, Exclusive, Distinct
  <2>2. pool' = pool \/ pool' = Append(pool, b)
      BY Zenon, <1>4
  <2>. HIDE DEF b
  <2>3. CASE pool' = pool
      BY Zenon, <2>1, <2>3
  <2>4. CASE pool' = Append(pool, b)
      BY <1>1, <2>1, <2>4, DistinctAppend
  <2>. QED BY Zenon, <2>2, <2>3, <2>4
<1>8. \A n \in 1..Len(pool') : pool'[n] # None
  <2>1. \A m \in 1..Len(pool) : pool[m] \in Buffers
      BY DEF LogInv, LogTypes
  <2>. QED BY <1>1, <1>7, <2>1, LogAssumption
<1>9. Exclusive'
  <2>1. \A q \in Procs : logger'[q].buf = IF q = p THEN None ELSE logger[q].buf
      BY Zenon, <1>4 DEF LogInv, LogTypes
  <2>2. \A q \in Procs : \A m \in 1..Len(pool) : pool[m] # logger[q].buf
      BY Zenon DEF LogInv, Exclusive
  <2>3. \A q \in Procs : \A n \in 1..Len(pool') : pool'[n] # logger'[q].buf
      BY <1>6, <1>7, <1>8, <2>1, <2>2
  <2>4. \A q, r \in Procs :
          logger'[q].buf # None /\ logger'[q].buf = logger'[r].buf => q = r
      BY <2>1 DEF LogInv, Exclusive
  <2>. QED BY Zenon, <1>7, <2>3, <2>4 DEF Exclusive, Distinct
<1>10. Filled'
    BY <1>1, <1>3, <1>4, <1>6 DEF LogInv, LogTypes, Filled
<1>11. OwnLine'
    BY <1>3, <1>4 DEF LogInv, LogTypes, Filled, OwnLine
<1>. QED BY Zenon, <1>5, <1>9, <1>10, <1>11 DEF LogInv

\* A goroutine that has written is done.
LEMMA LogWrite ==
  ASSUME LogInv, NEW p \in Procs, write(p)
  PROVE  LogInv'
<1> USE DEF At
<1>1. LogTypes'
    BY DEF write, Quiet, LogInv, LogTypes, Places
<1>2. \A n \in 1..Len(pool) : pool[n] # None
    BY LogAssumption DEF LogInv, LogTypes
<1>3. Exclusive'
    BY <1>2 DEF write, Quiet, LogInv, LogTypes, Exclusive
<1>4. Filled' /\ OwnLine'
    BY DEF write, Quiet, LogInv, LogTypes, Filled, OwnLine
<1>. QED BY Zenon, <1>1, <1>3, <1>4 DEF LogInv

\* The steps of the log keep the invariant.
LEMMA LogKept ==
  ASSUME LogInv, [LogNext]_logVars
  PROVE  LogInv'
<1>1. ASSUME UNCHANGED logVars PROVE LogInv'
    BY <1>1 DEF logVars, LogInv, LogTypes, Exclusive, Filled, OwnLine
<1>. QED BY <1>1, LogGet, LogFormat, LogCopy, LogPut, LogWrite DEF LogNext, Logs

\* For any number of goroutines and buffers and any capacity of the pool:
\* buffers are never shared (get, put), and what send writes for a goroutine
\* is that goroutine's line.
THEOREM LogCorrect == LogSpec => [](Exclusive /\ OwnLine)
  BY LogKept, LogInitInv, PTL DEF LogSpec, LogInv

\* Whatever handlers, worker, watch loops and bouncer run at once, what they do
\* to the log are steps of the log module.
LEMMA LogSteps == [Next]_allVars => [LogNext]_logVars
<1>1. ASSUME NEW p \in Procs, log(p)
      PROVE  get(p) \/ Logs(p)
    BY Zenon, <1>1 DEF log, Logs
<1>2. ASSUME NEW p \in Procs, arrive(p) \/ Run(p) \/ stall(p)
      PROVE  log(p) \/ UNCHANGED logVars
    BY <1>2 DEF arrive, Run, stall, rlock, runlock, lock, unlock, proceed,
                sample, logVars
<1>3. UNCHANGED allVars => UNCHANGED logVars
    BY Zenon DEF allVars, logVars
<1>. QED BY Zenon, <1>1, <1>2, <1>3 DEF Next, LogNext

\* The same in the whole instance, which implements the log module.
THEOREM ServingLog == Spec => LogSpec /\ [](Exclusive /\ OwnLine)
<1>1. Init => newBufPool
    BY Zenon DEF Init
<1>2. Init /\ [][Next]_allVars => LogSpec
    BY <1>1, LogSteps, PTL DEF LogSpec
<1>. QED BY <1>2, LogCorrect, PTL DEF Spec

----------------------------------------------------------------------------
(* The runtime metrics of a scrape                                         *)

All == 1..RuntimeCount

Scraping == [at : {"out", "make", "name", "read", "range", "write"},
             index : 1..(RuntimeCount + 1),
             over : Procs \cup {None}, wrote : SUBSET All]

ScrapeTypes ==
  /\ runtimeSamples \in Procs \cup {None}
  /\ named \in [Procs -> SUBSET All]
  /\ valued \in [Procs -> SUBSET All]
  /\ scrape \in [Procs -> Scraping]
  /\ mixed \subseteq Procs

\* What a scrape has at each place.
Placed(p) ==
  /\ scrape[p].at # "out" => scrape[p].index \in All
  /\ scrape[p].at \in {"name", "read", "range"} => runtimeSamples # None
  /\ scrape[p].at = "range" => scrape[p].index = 1
  /\ scrape[p].at \in {"make", "name", "read", "range"} => scrape[p].wrote = {}
  /\ scrape[p].at = "write" => scrape[p].over \in Procs

\* The samples in use have all their names, or the scrape that made them is
\* at it and has come as far as its index.
Naming ==
  runtimeSamples # None =>
    \/ named[runtimeSamples] = All
    \/ /\ scrape[runtimeSamples].at = "name"
       /\ 1..(scrape[runtimeSamples].index - 1) \subseteq named[runtimeSamples]

\* What a scrape that is not mixed up with another one has got.
Undisturbed(p) ==
  p \notin mixed =>
    /\ scrape[p].at # "out" => \A q \in Procs \ {p} : ~Making(q)
    /\ scrape[p].at = "range" => valued[runtimeSamples] = All
    /\ scrape[p].at = "write" => /\ valued[scrape[p].over] = All
                                 /\ scrape[p].wrote = 1..(scrape[p].index - 1)
    /\ Finished(p) => scrape[p].wrote = All

ScrapeInv ==
  /\ ScrapeTypes /\ Naming
  /\ \A p \in Procs : Placed(p) /\ Undisturbed(p)

\* Nothing is made, and no scrape is under way.
LEMMA ScrapeInitInv == ScrapeInit => ScrapeInv
<1> SUFFICES ASSUME ScrapeInit PROVE ScrapeInv
    BY Zenon
<1> USE ScrapeAssumption, GoroutinesAssumption DEF ScrapeInit
<1>1. Away \in Scraping /\ Away.at = "out" /\ Away.index # RuntimeCount + 1
    BY DEF Away, Scraping, All
<1>2. ScrapeTypes
    BY Zenon, <1>1 DEF ScrapeTypes
<1>3. Naming
    BY Zenon DEF Naming
<1>4. \A p \in Procs : scrape[p] = Away
    BY Zenon
<1>5. \A p \in Procs : Placed(p) /\ Undisturbed(p)
    BY Zenon, <1>1, <1>4 DEF Placed, Undisturbed, Finished
<1>. QED BY Zenon, <1>2, <1>3, <1>5 DEF ScrapeInv

\* 1 is an index, and not the one behind the last.
LEMMA FirstIndex ==
  1 \in All /\ 1 \in 1..(RuntimeCount + 1) /\ 1 # RuntimeCount + 1
  BY ScrapeAssumption DEF All

\* One scrape moves on.
LEMMA ScrapeMoves ==
  ASSUME ScrapeInv, NEW p \in Procs, NEW r \in Scraping,
         scrape' = [scrape EXCEPT ![p] = r]
  PROVE  /\ scrape' \in [Procs -> Scraping]
         /\ scrape'[p] = r
         /\ \A q \in Procs \ {p} : scrape'[q] = scrape[q]
  BY Zenon DEF ScrapeInv, ScrapeTypes

\* Go moves a scrape to another place and to the first index.
LEMMA GoEffect ==
  ASSUME ScrapeInv, NEW p \in Procs, NEW at, Go(p, at)
  PROVE  scrape' = [scrape EXCEPT ![p] =
                      [scrape[p] EXCEPT !.at = at, !.index = 1]]
<1> DEFINE f == [scrape EXCEPT ![p].at = at]
<1>1. scrape' = [f EXCEPT ![p].index = 1]
    BY Zenon DEF Go
<1>2. scrape \in [Procs -> Scraping]
    BY Zenon DEF ScrapeInv, ScrapeTypes
<1>3. f[p] = [scrape[p] EXCEPT !.at = at]
    BY Zenon, <1>2
<1>4. DOMAIN f = Procs /\ \A q \in Procs : q # p => f[q] = scrape[q]
    BY Zenon, <1>2
<1>. HIDE DEF f
<1>5. scrape' = [f EXCEPT ![p] = [f[p] EXCEPT !.index = 1]]
    BY <1>1, <1>4
<1>6. [scrape[p] EXCEPT !.at = at, !.index = 1]
        = [[scrape[p] EXCEPT !.at = at] EXCEPT !.index = 1]
    BY <1>2 DEF Scraping
<1>. QED BY Zenon, <1>2, <1>3, <1>4, <1>5, <1>6

\* A scrape begins: it makes samples only when there are none, and then all
\* the others under way are mixed up with it.
LEMMA ScrapeBegins ==
  ASSUME ScrapeInv, NEW p \in Procs, writeRuntimeMetrics(p)
  PROVE  ScrapeInv'
<1> USE ScrapeAssumption, GoroutinesAssumption
<1> DEFINE r == [Away EXCEPT
                   !.at = IF runtimeSamples = None THEN "make" ELSE "read"]
<1>1. /\ r.at = (IF runtimeSamples = None THEN "make" ELSE "read")
      /\ r.index = 1 /\ r.over = None /\ r.wrote = {} /\ r \in Scraping
    BY DEF Away, Scraping, All
<1>2. scrape' = [scrape EXCEPT ![p] = r]
    BY Zenon DEF writeRuntimeMetrics
<1> HIDE DEF r
<1>3. /\ scrape' \in [Procs -> Scraping] /\ scrape'[p] = r
      /\ \A q \in Procs \ {p} : scrape'[q] = scrape[q]
    BY Zenon, <1>1, <1>2, ScrapeMoves
<1>4. /\ UNCHANGED <<runtimeSamples, named, valued>> /\ mixed' \subseteq Procs
      /\ scrape[p].at = "out"
      /\ \A q \in Procs \ {p} : q \notin mixed' =>
           q \notin mixed /\ (scrape[q].at # "out" => runtimeSamples # None)
      /\ p \notin mixed' => \A q \in Procs \ {p} : ~Making(q)
    BY DEF writeRuntimeMetrics, ScrapeInv, ScrapeTypes, Making
<1>5. ScrapeTypes'
    BY Zenon, <1>3, <1>4 DEF ScrapeInv, ScrapeTypes
<1>6. Naming'
    BY Zenon, <1>3, <1>4 DEF ScrapeInv, ScrapeTypes, Naming
<1>7. ASSUME NEW q \in Procs PROVE Placed(q)' /\ Undisturbed(q)'
  <2>1. CASE q = p
      BY <1>1, <1>3, <1>4, <2>1 DEF Placed, Undisturbed, Finished, Making, All
  <2>2. CASE q # p
      BY <1>1, <1>3, <1>4, <2>2
         DEF ScrapeInv, Placed, Undisturbed, Finished, Making
  <2>. QED BY Zenon, <2>1, <2>2
<1>. QED BY Zenon, <1>5, <1>6, <1>7 DEF ScrapeInv

\* The samples of a scrape come into use without names.
LEMMA ScrapeMakes ==
  ASSUME ScrapeInv, NEW p \in Procs, make(p)
  PROVE  ScrapeInv'
<1> USE ScrapeAssumption, GoroutinesAssumption
<1> DEFINE s == scrape[p]
           r == [s EXCEPT !.at = "name", !.index = 1]
<1>1. s \in Scraping /\ s.at = "make" /\ s.wrote = {}
    BY Zenon DEF make, ScrapeInv, ScrapeTypes, Placed
<1>2. r \in Scraping /\ r.at = "name" /\ r.index = 1 /\ r.wrote = {}
    BY Zenon, <1>1, FirstIndex DEF Scraping
<1>3. scrape' = [scrape EXCEPT ![p] = r]
    BY Zenon DEF make, Go, ScrapeInv, ScrapeTypes
<1> HIDE DEF r
<1>4. /\ scrape' \in [Procs -> Scraping] /\ scrape'[p] = r
      /\ \A q \in Procs \ {p} : scrape'[q] = scrape[q]
    BY Zenon, <1>2, <1>3, ScrapeMoves
<1>5. runtimeSamples' = p /\ UNCHANGED <<named, valued, mixed>> /\ p # None
    BY Zenon DEF make
<1>6. ScrapeTypes'
    BY Zenon, <1>4, <1>5 DEF ScrapeInv, ScrapeTypes
<1>7. Naming'
  <2>1. 1..(r.index - 1) = {}
      BY <1>2
  <2>. QED BY Zenon, <1>2, <1>4, <1>5, <2>1 DEF Naming
<1>8. ASSUME NEW q \in Procs PROVE Placed(q)' /\ Undisturbed(q)'
  <2>1. CASE q = p
      BY <1>1, <1>2, <1>4, <1>5, <2>1
         DEF ScrapeInv, Placed, Undisturbed, Finished, Making, All
  <2>2. CASE q # p
    <3>1. q \notin mixed => scrape[q].at = "out"
        BY <1>1, <2>2 DEF ScrapeInv, Undisturbed, Making
    <3>. QED BY <1>4, <1>5, <2>2, <3>1
                DEF ScrapeInv, Placed, Undisturbed, Finished
  <2>. QED BY Zenon, <2>1, <2>2
<1>. QED BY Zenon, <1>6, <1>7, <1>8 DEF ScrapeInv

\* One name more, in whosever samples.
LEMMA ScrapeNames ==
  ASSUME ScrapeInv, NEW p \in Procs, name(p)
  PROVE  ScrapeInv'
<1> USE ScrapeAssumption, GoroutinesAssumption
<1> DEFINE s == scrape[p]
           S == runtimeSamples
           r == IF s.index = RuntimeCount
                THEN [s EXCEPT !.at = "read", !.index = 1]
                ELSE [s EXCEPT !.index = @ + 1]
<1>1. s \in Scraping /\ s.at = "name" /\ s.wrote = {} /\ s.index \in All
    BY Zenon DEF name, ScrapeInv, ScrapeTypes, Placed
<1>2. /\ r \in Scraping /\ r.wrote = {} /\ r.index \in All
      /\ s.index = RuntimeCount => r.at = "read" /\ r.index = 1
      /\ s.index # RuntimeCount => r.at = "name" /\ r.index = s.index + 1
  <2>1. s.index # RuntimeCount => s.index + 1 \in All
      BY <1>1 DEF All
  <2>2. All \subseteq 1..(RuntimeCount + 1)
      BY DEF All
  <2>. QED BY Zenon, <1>1, <2>1, <2>2, FirstIndex DEF Scraping
<1>3. scrape' = [scrape EXCEPT ![p] = r]
    BY Zenon DEF name, Go, ScrapeInv, ScrapeTypes
<1>4. /\ named' = [named EXCEPT ![S] = @ \cup {s.index}]
      /\ S \in Procs /\ UNCHANGED <<runtimeSamples, valued, mixed>>
    BY Zenon, <1>1 DEF name, ScrapeInv, ScrapeTypes, Placed
<1> HIDE DEF r
<1>5. /\ scrape' \in [Procs -> Scraping] /\ scrape'[p] = r
      /\ \A q \in Procs \ {p} : scrape'[q] = scrape[q]
    BY Zenon, <1>2, <1>3, ScrapeMoves
<1>6. named' \in [Procs -> SUBSET All] /\ named'[S] = named[S] \cup {s.index}
      /\ named[S] \subseteq All
    BY Zenon, <1>1, <1>4 DEF ScrapeInv, ScrapeTypes
<1>7. ScrapeTypes'
    BY Zenon, <1>4, <1>5, <1>6 DEF ScrapeInv, ScrapeTypes
<1>8. Naming'
  <2>1. CASE named[S] = All
      BY Zenon, <1>1, <1>4, <1>6, <2>1 DEF Naming
  <2>2. CASE named[S] # All
    <3>1. scrape[S].at = "name" /\ 1..(scrape[S].index - 1) \subseteq named[S]
        BY Zenon, <1>4, <2>2 DEF ScrapeInv, Naming
    <3>2. CASE S # p
        BY Zenon, <1>4, <1>5, <1>6, <3>1, <3>2 DEF Naming
    <3>3. CASE S = p
      <4>1. 1..s.index \subseteq named'[S]
          BY <1>1, <1>6, <3>1, <3>3 DEF All
      <4>2. CASE s.index = RuntimeCount
          BY <1>4, <1>6, <1>1, <4>1, <4>2 DEF Naming, All
      <4>3. CASE s.index # RuntimeCount
        <5>1. r.index - 1 = s.index
            BY <1>1, <1>2, <4>3 DEF All
        <5>. QED BY Zenon, <1>2, <1>4, <1>5, <3>3, <4>1, <4>3, <5>1 DEF Naming
      <4>. QED BY Zenon, <4>2, <4>3
    <3>. QED BY Zenon, <3>2, <3>3
  <2>. QED BY Zenon, <2>1, <2>2
<1>9. ASSUME NEW q \in Procs PROVE Placed(q)' /\ Undisturbed(q)'
  <2>1. CASE q = p
      BY <1>1, <1>2, <1>4, <1>5, <2>1
         DEF ScrapeInv, Placed, Undisturbed, Finished, Making, All
  <2>2. CASE q # p
    <3>1. q \notin mixed => scrape[q].at = "out"
        BY <1>1, <2>2 DEF ScrapeInv, Undisturbed, Making
    <3>. QED BY <1>4, <1>5, <2>2, <3>1
                DEF ScrapeInv, Placed, Undisturbed, Finished
  <2>. QED BY Zenon, <2>1, <2>2
<1>. QED BY Zenon, <1>7, <1>8, <1>9 DEF ScrapeInv

\* A scrape that is not mixed up with others reads samples that have all their
\* names.
LEMMA ScrapeReads ==
  ASSUME ScrapeInv, NEW p \in Procs, read(p)
  PROVE  ScrapeInv'
<1> USE ScrapeAssumption, GoroutinesAssumption
<1> DEFINE s == scrape[p]
           S == runtimeSamples
           r == [s EXCEPT !.at = "range", !.index = 1]
<1>1. s \in Scraping /\ s.at = "read" /\ s.wrote = {} /\ s.index \in All
    BY Zenon DEF read, ScrapeInv, ScrapeTypes, Placed
<1>2. r \in Scraping /\ r.wrote = {} /\ r.index = 1 /\ r.at = "range"
    BY Zenon, <1>1, FirstIndex DEF Scraping
<1>3. scrape' = [scrape EXCEPT ![p] = r]
    BY Zenon DEF read, Go, ScrapeInv, ScrapeTypes
<1>4. /\ valued' = [valued EXCEPT ![S] = @ \cup named[S]]
      /\ S \in Procs /\ UNCHANGED <<runtimeSamples, named, mixed>>
    BY Zenon, <1>1 DEF read, ScrapeInv, ScrapeTypes, Placed
<1> HIDE DEF r
<1>5. /\ scrape' \in [Procs -> Scraping] /\ scrape'[p] = r
      /\ \A q \in Procs \ {p} : scrape'[q] = scrape[q]
    BY Zenon, <1>2, <1>3, ScrapeMoves
<1>6. /\ valued' \in [Procs -> SUBSET All] /\ valued'[S] = valued[S] \cup named[S]
      /\ named[S] \subseteq All /\ valued[S] \subseteq All
      /\ \A o \in Procs : valued[o] = All => valued'[o] = All
    BY Zenon, <1>4 DEF ScrapeInv, ScrapeTypes
<1>7. ScrapeTypes'
    BY Zenon, <1>4, <1>5, <1>6 DEF ScrapeInv, ScrapeTypes
<1>8. Naming'
    BY Zenon, <1>1, <1>4, <1>5 DEF ScrapeInv, Naming
<1>9. p \notin mixed => valued'[S] = All
    BY ZenonT(30), <1>1, <1>4, <1>6 DEF ScrapeInv, Naming, Undisturbed, Making
<1>10. ASSUME NEW q \in Procs PROVE Placed(q)' /\ Undisturbed(q)'
  <2>1. CASE q = p
      BY <1>1, <1>2, <1>4, <1>5, <1>9, <2>1
         DEF ScrapeInv, Placed, Undisturbed, Finished, Making, All
  <2>2. CASE q # p
    <3>1. /\ scrape'[q] = scrape[q] /\ Placed(q) /\ Undisturbed(q)
          /\ \A o \in Procs : Making(o)' <=> Making(o)
        BY <1>1, <1>2, <1>4, <1>5, <2>2 DEF ScrapeInv, Making
    <3>2. Placed(q)'
        BY Zenon, <1>4, <3>1 DEF Placed
    <3>. QED BY <1>4, <1>6, <3>1, <3>2 DEF Placed, Undisturbed, Finished
  <2>. QED BY Zenon, <2>1, <2>2
<1>. QED BY Zenon, <1>7, <1>8, <1>10 DEF ScrapeInv
\* The samples to write are chosen, and the first is next.
LEMMA ScrapeRanges ==
  ASSUME ScrapeInv, NEW p \in Procs, range(p)
  PROVE  ScrapeInv'
<1> USE ScrapeAssumption, GoroutinesAssumption
<1> DEFINE s == scrape[p]
           r == [s EXCEPT !.at = "write", !.over = runtimeSamples]
<1>1. /\ s \in Scraping /\ s.at = "range" /\ s.wrote = {} /\ s.index = 1
      /\ runtimeSamples \in Procs /\ s.index \in All
    BY Zenon DEF range, ScrapeInv, ScrapeTypes, Placed
<1>2. /\ r \in Scraping /\ r.wrote = {} /\ r.index = 1 /\ r.at = "write"
      /\ r.over = runtimeSamples
    BY Zenon, <1>1, FirstIndex DEF Scraping
<1>3. scrape' = [scrape EXCEPT ![p] = r]
  <2>1. scrape' = [scrape EXCEPT ![p].at = "write", ![p].over = runtimeSamples]
      BY Zenon DEF range
  <2>. QED BY Zenon, <1>1, <2>1 DEF ScrapeInv, ScrapeTypes
<1>4. UNCHANGED <<runtimeSamples, named, valued, mixed>>
    BY Zenon DEF range
<1> HIDE DEF r
<1>5. /\ scrape' \in [Procs -> Scraping] /\ scrape'[p] = r
      /\ \A q \in Procs \ {p} : scrape'[q] = scrape[q]
    BY Zenon, <1>2, <1>3, ScrapeMoves
<1>6. ScrapeTypes'
    BY Zenon, <1>4, <1>5 DEF ScrapeInv, ScrapeTypes
<1>7. Naming'
    BY Zenon, <1>1, <1>4, <1>5 DEF ScrapeInv, Naming
<1>8. ASSUME NEW q \in Procs PROVE Placed(q)' /\ Undisturbed(q)'
  <2>1. CASE q = p
    <3>1. 1..(r.index - 1) = {} /\ r.index # RuntimeCount + 1
        BY <1>2
    <3>. QED BY ZenonT(30), <1>1, <1>2, <1>4, <1>5, <2>1, <3>1
                DEF ScrapeInv, Placed, Undisturbed, Finished, Making
  <2>2. CASE q # p
    <3>1. /\ scrape'[q] = scrape[q] /\ Placed(q) /\ Undisturbed(q)
          /\ \A o \in Procs : Making(o)' <=> Making(o)
        BY <1>1, <1>2, <1>4, <1>5, <2>2 DEF ScrapeInv, Making
    <3>. QED BY <1>4, <3>1 DEF Placed, Undisturbed, Finished
  <2>. QED BY Zenon, <2>1, <2>2
<1>. QED BY Zenon, <1>6, <1>7, <1>8 DEF ScrapeInv

\* One sample is written, if it has a value.
LEMMA ScrapeWrites ==
  ASSUME ScrapeInv, NEW p \in Procs, writeSample(p)
  PROVE  ScrapeInv'
<1> USE ScrapeAssumption, GoroutinesAssumption
<1> DEFINE s == scrape[p]
           new == {s.index} \cap valued[s.over]
           r == [s EXCEPT
                   !.at = IF s.index = RuntimeCount THEN "out" ELSE "write",
                   !.index = @ + 1, !.wrote = @ \cup new]
<1>1. /\ s \in Scraping /\ s.at = "write" /\ s.over \in Procs
      /\ s.index \in All
    BY Zenon DEF writeSample, ScrapeInv, ScrapeTypes, Placed
<1>2. /\ scrape' = [scrape EXCEPT ![p] = r]
      /\ UNCHANGED <<runtimeSamples, named, valued, mixed>>
    BY Zenon DEF writeSample
<1>3. new \subseteq All /\ new = {s.index} \cap valued[s.over]
    BY <1>1
<1> HIDE DEF new
<1>4. /\ r \in Scraping /\ r.wrote = s.wrote \cup new /\ r.over = s.over
      /\ r.index = s.index + 1
      /\ r.at = IF s.index = RuntimeCount THEN "out" ELSE "write"
  <2>1. s.index + 1 \in 1..(RuntimeCount + 1)
      BY <1>1 DEF All
  <2>2. s.wrote \subseteq All
      BY Zenon, <1>1 DEF Scraping
  <2>. QED BY Zenon, <1>1, <1>3, <2>1, <2>2 DEF Scraping
<1> HIDE DEF r
<1>5. /\ scrape' \in [Procs -> Scraping] /\ scrape'[p] = r
      /\ \A q \in Procs \ {p} : scrape'[q] = scrape[q]
    BY Zenon, <1>2, <1>4, ScrapeMoves
<1>6. ScrapeTypes'
    BY Zenon, <1>2, <1>5 DEF ScrapeInv, ScrapeTypes
<1>7. Naming'
    BY <1>1, <1>2, <1>5 DEF ScrapeInv, ScrapeTypes, Naming
<1>8. ASSUME NEW q \in Procs PROVE Placed(q)' /\ Undisturbed(q)'
  <2>1. CASE q = p
    <3>1. s.index # RuntimeCount => r.index \in All
        BY <1>1, <1>4 DEF All
    <3>2. Placed(p)'
        BY <1>1, <1>4, <1>5, <3>1 DEF Placed
    <3>3. ASSUME p \notin mixed
          PROVE  /\ valued[s.over] = All /\ r.wrote = 1..(r.index - 1)
                 /\ r.index = RuntimeCount + 1 <=> s.index = RuntimeCount
                 /\ \A o \in Procs \ {p} : ~Making(o)
      <4>1. /\ valued[s.over] = All /\ s.wrote = 1..(s.index - 1)
            /\ \A o \in Procs \ {p} : ~Making(o)
          BY Zenon, <1>1, <3>3 DEF ScrapeInv, Undisturbed
      <4>2. new = {s.index}
          BY Zenon, <1>1, <1>3, <4>1
      <4>. QED BY SMTT(30), <1>1, <1>4, <4>1, <4>2 DEF All
    <3>4. Undisturbed(p)'
      <4>1. r.at = "out" <=> s.index = RuntimeCount
          BY Zenon, <1>4
      <4>2. r.index = RuntimeCount + 1 => r.index - 1 = RuntimeCount
          BY <1>1, <1>4 DEF All
      <4>3. r.at # "range"
          BY Zenon, <1>4
      <4>. QED BY Zenon, <1>2, <1>4, <1>5, <3>3, <4>1, <4>2, <4>3
                  DEF Undisturbed, Finished, Making, All
    <3>. QED BY Zenon, <2>1, <3>2, <3>4
  <2>2. CASE q # p
    <3>1. /\ scrape'[q] = scrape[q] /\ Placed(q) /\ Undisturbed(q)
          /\ \A o \in Procs : Making(o)' <=> Making(o)
        BY <1>1, <1>2, <1>4, <1>5, <2>2 DEF ScrapeInv, Making
    <3>. QED BY SMTT(30), <1>2, <3>1 DEF Placed, Undisturbed, Finished
  <2>. QED BY Zenon, <2>1, <2>2
<1>. QED BY Zenon, <1>6, <1>7, <1>8 DEF ScrapeInv

\* A scrape that panics leaves the samples as they are.
LEMMA ScrapeTorn ==
  ASSUME ScrapeInv, NEW p \in Procs, torn(p)
  PROVE  ScrapeInv'
<1> USE ScrapeAssumption, GoroutinesAssumption
<1> DEFINE s == scrape[p]
           r == [s EXCEPT !.at = "out", !.index = 1]
<1>1. s \in Scraping /\ s.at = "read"
    BY Zenon DEF torn, ScrapeInv, ScrapeTypes, Placed
<1>2. r \in Scraping /\ r.index = 1 /\ r.at = "out"
    BY Zenon, <1>1, FirstIndex DEF Scraping
<1>3. /\ scrape' = [scrape EXCEPT ![p] = r]
      /\ UNCHANGED <<runtimeSamples, named, valued, mixed>>
    BY Zenon, GoEffect DEF torn
<1> HIDE DEF r
<1>4. /\ scrape' \in [Procs -> Scraping] /\ scrape'[p] = r
      /\ \A q \in Procs \ {p} : scrape'[q] = scrape[q]
    BY Zenon, <1>2, <1>3, ScrapeMoves
<1>5. ScrapeTypes'
    BY Zenon, <1>3, <1>4 DEF ScrapeInv, ScrapeTypes
<1>6. Naming'
    BY SMTT(30), <1>1, <1>3, <1>4 DEF ScrapeInv, ScrapeTypes, Naming
<1>7. ASSUME NEW q \in Procs PROVE Placed(q)' /\ Undisturbed(q)'
  <2>1. CASE q = p
      BY <1>2, <1>3, <1>4, <2>1 DEF Placed, Undisturbed, Finished
  <2>2. CASE q # p
    <3>1. /\ scrape'[q] = scrape[q] /\ Placed(q) /\ Undisturbed(q)
          /\ \A o \in Procs : Making(o)' <=> Making(o)
        BY <1>1, <1>2, <1>3, <1>4, <2>2 DEF ScrapeInv, Making
    <3>. QED BY <1>3, <3>1 DEF Placed, Undisturbed, Finished
  <2>. QED BY Zenon, <2>1, <2>2
<1>. QED BY Zenon, <1>5, <1>6, <1>7 DEF ScrapeInv

\* What a step of an instance does to the samples keeps the invariant.
LEMMA ScrapeNext ==
  ASSUME ScrapeInv, [Next]_allVars
  PROVE  ScrapeInv'
<1>1. ASSUME UNCHANGED scrapeVars PROVE ScrapeInv'
    BY <1>1 DEF scrapeVars, ScrapeInv, ScrapeTypes, Naming, Placed,
                Undisturbed, Finished, Making
<1>2. ASSUME NEW p \in Procs, sample(p) PROVE ScrapeInv'
    BY ZenonT(30), <1>2, ScrapeBegins, ScrapeMakes, ScrapeNames, ScrapeReads,
       ScrapeRanges, ScrapeWrites, ScrapeTorn DEF sample, Scrapes
<1>3. ASSUME NEW p \in Procs, arrive(p) \/ Run(p) \/ stall(p)
      PROVE  sample(p) \/ UNCHANGED scrapeVars
    BY <1>3 DEF arrive, Run, stall, rlock, runlock, lock, unlock, proceed, log
<1>4. UNCHANGED allVars => UNCHANGED scrapeVars
    BY Zenon DEF allVars
<1>. QED BY Zenon, <1>1, <1>2, <1>3, <1>4 DEF Next

\* For any number of goroutines and metrics: a scrape that none was making
\* samples during shows every runtime metric.
THEOREM ScrapeCorrect == Spec => []RuntimeComplete
<1>1. Init => ScrapeInv
    BY Zenon, ScrapeInitInv DEF Init
<1>2. ScrapeInv => RuntimeComplete
    BY Zenon DEF ScrapeInv, Undisturbed, RuntimeComplete, All
<1>. QED BY <1>1, <1>2, ScrapeNext, PTL DEF Spec

----------------------------------------------------------------------------
(* Paths and locks                                                         *)

Kinds == {"read", "write"}

\* What takes a lock of a table, gives it back, and needs it.
Take(b, t) == Op(IF b = "read" THEN "rlock" ELSE "lock", t)
Give(b, t) == Op(IF b = "read" THEN "runlock" ELSE "unlock", t)
Use(b, t)  == Op(IF b = "read" THEN "look" ELSE "change", t)

Ops ==
  [op : {"rlock", "runlock", "look", "lock", "unlock", "change"}, on : Tables]
    \cup [op : {"etcd", "client", "log", "scrape"},
          on : Tables \cup {None, "request", "line"}]

\* Behind its first k operations the path s gives back a lock it has.
Owes(s, k, b, t) ==
  \E m \in (k + 1)..Len(s) :
    s[m] = Give(b, t) /\ \A j \in (k + 1)..(m - 1) : s[j] # Take(b, t)

\* What may be done with a lock that is not given back yet: nothing that waits,
\* except that a list is written to its client.
Under(e, b, t) ==
  \/ e \in {Take(b, t), Use(b, t)} \/ e.op = "log"
  \/ e.op = "client" /\ b = "read" /\ t = "ip"

\* A lock that is taken or used is given back later and before it is taken
\* again, nothing is given back twice, and a lock that is to be given back is
\* the only one.
Orderly(s) ==
  \A k \in 1..Len(s) : \A b \in Kinds, t \in Tables :
    /\ s[k] \in {Take(b, t), Use(b, t)} => Owes(s, k, b, t)
    /\ Owes(s, k, b, t) => Under(s[k], b, t)

\* An orderly path that starts without locks.
Whole(s) ==
  /\ s \in Seq(Ops) /\ Orderly(s)
  /\ \A b \in Kinds, t \in Tables : ~Owes(s, 0, b, t)

\* The operations on locks are different ones.
LEMMA Apart ==
  \A b, c \in Kinds : \A t, u \in Tables :
    /\ Take(b, t) = Take(c, u) => b = c /\ t = u
    /\ Give(b, t) = Give(c, u) => b = c /\ t = u
    /\ Use(b, t) = Use(c, u) => b = c /\ t = u
    /\ Take(b, t) # Give(c, u) /\ Use(b, t) # Give(c, u)
    /\ Take(b, t) # Use(c, u)
    /\ Take(b, t) \in Ops /\ Give(b, t) \in Ops /\ Use(b, t) \in Ops
  BY DEF Kinds, Tables, Take, Give, Use, Ops, Op

\* Nothing is done with a lock once it is given back.
LEMMA Above == \A b \in Kinds, t \in Tables : ~Under(Give(b, t), b, t)
  BY DEF Kinds, Tables, Under, Take, Give, Use, Op

\* What a path gives back once its first operation is done.
LEMMA OwesTail ==
  ASSUME NEW s \in Seq(Ops), s # <<>>, NEW k \in Nat, NEW b \in Kinds,
         NEW t \in Tables
  PROVE  Owes(Tail(s), k, b, t) <=> Owes(s, k + 1, b, t)
<1>1. /\ Tail(s) \in Seq(Ops) /\ Len(s) \in Nat /\ Len(s) >= 1
      /\ Len(Tail(s)) = Len(s) - 1
      /\ \A n \in 1..Len(Tail(s)) : Tail(s)[n] = s[n + 1]
    BY HeadTail
<1>2. ASSUME Owes(Tail(s), k, b, t) PROVE Owes(s, k + 1, b, t)
  <2>1. PICK m \in (k + 1)..Len(Tail(s)) :
          /\ Tail(s)[m] = Give(b, t)
          /\ \A j \in (k + 1)..(m - 1) : Tail(s)[j] # Take(b, t)
      BY Zenon, <1>2 DEF Owes
  <2>2. m + 1 \in (k + 2)..Len(s) /\ s[m + 1] = Give(b, t)
      BY <1>1, <2>1
  <2>3. ASSUME NEW j \in (k + 2)..m PROVE s[j] # Take(b, t)
    <3>1. /\ j - 1 \in (k + 1)..(m - 1) /\ j - 1 \in 1..Len(Tail(s))
          /\ (j - 1) + 1 = j
        BY <1>1, <2>1
    <3>. QED BY Zenon, <1>1, <2>1, <3>1
  <2>4. (k + 1) + 1 = k + 2 /\ (m + 1) - 1 = m
      OBVIOUS
  <2>. QED BY Zenon, <2>2, <2>3, <2>4 DEF Owes
<1>3. ASSUME Owes(s, k + 1, b, t) PROVE Owes(Tail(s), k, b, t)
  <2>0. (k + 1) + 1 = k + 2
      OBVIOUS
  <2>1. PICK m \in (k + 2)..Len(s) :
          s[m] = Give(b, t) /\ \A j \in (k + 2)..(m - 1) : s[j] # Take(b, t)
      BY Zenon, <1>3, <2>0 DEF Owes
  <2>2. m - 1 \in (k + 1)..Len(Tail(s)) /\ Tail(s)[m - 1] = Give(b, t)
      BY <1>1, <2>1
  <2>3. ASSUME NEW j \in (k + 1)..((m - 1) - 1) PROVE Tail(s)[j] # Take(b, t)
    <3>1. j + 1 \in (k + 2)..(m - 1) /\ j \in 1..Len(Tail(s))
        BY <1>1, <2>1
    <3>. QED BY Zenon, <1>1, <2>1, <3>1
  <2>. QED BY Zenon, <2>2, <2>3 DEF Owes
<1>. QED BY Zenon, <1>2, <1>3

\* What its first operation does to what a path gives back.
LEMMA OwesHead ==
  ASSUME NEW s \in Seq(Ops), s # <<>>, NEW b \in Kinds, NEW t \in Tables
  PROVE  /\ s[1] = Take(b, t) => ~Owes(s, 0, b, t)
         /\ s[1] = Give(b, t) => Owes(s, 0, b, t)
         /\ s[1] \notin {Take(b, t), Give(b, t)} =>
              (Owes(s, 0, b, t) <=> Owes(s, 1, b, t))
<1>1. Len(s) \in Nat /\ Len(s) >= 1 /\ 0 + 1 = 1 /\ 1 + 1 = 2
    BY HeadTail
<1>2. Owes(s, 0, b, t) <=>
        \E m \in 1..Len(s) :
          s[m] = Give(b, t) /\ \A j \in 1..(m - 1) : s[j] # Take(b, t)
    BY Zenon, <1>1 DEF Owes
<1>3. Owes(s, 1, b, t) <=>
        \E m \in 2..Len(s) :
          s[m] = Give(b, t) /\ \A j \in 2..(m - 1) : s[j] # Take(b, t)
    BY Zenon, <1>1 DEF Owes
<1>4. Take(b, t) # Give(b, t)
    BY Zenon, Apart
<1>5. s[1] = Take(b, t) => ~Owes(s, 0, b, t)
    BY <1>1, <1>2, <1>4
<1>6. s[1] = Give(b, t) => Owes(s, 0, b, t)
    BY <1>1, <1>2
<1>7. ASSUME s[1] \notin {Take(b, t), Give(b, t)}
      PROVE  Owes(s, 0, b, t) <=> Owes(s, 1, b, t)
    BY <1>1, <1>2, <1>3, <1>7
<1>. QED BY Zenon, <1>5, <1>6, <1>7

\* The rest of an orderly path is orderly.
LEMMA OrderlyTail ==
  ASSUME NEW s \in Seq(Ops), s # <<>>, Orderly(s)
  PROVE  /\ Tail(s) \in Seq(Ops) /\ Orderly(Tail(s)) /\ Head(s) = s[1]
         /\ Head(s) \in Ops
         /\ \A b \in Kinds, t \in Tables :
              Owes(Tail(s), 0, b, t) <=>
                Head(s) = Take(b, t) \/
                  (Owes(s, 0, b, t) /\ Head(s) # Give(b, t))
         /\ \A b \in Kinds, t \in Tables : Owes(s, 0, b, t) =>
              \/ Head(s) = Give(b, t)
              \/ Head(s) # Take(b, t) /\ Under(Head(s), b, t)
<1>1. /\ Tail(s) \in Seq(Ops) /\ Len(s) \in Nat /\ Len(s) >= 1
      /\ Len(Tail(s)) = Len(s) - 1 /\ Head(s) = s[1] /\ Head(s) \in Ops
      /\ \A n \in 1..Len(Tail(s)) : Tail(s)[n] = s[n + 1]
    BY HeadTail
<1>2. \A n \in 1..Len(Tail(s)) : n \in Nat /\ n + 1 \in 1..Len(s)
    BY <1>1
<1>3. ASSUME NEW n \in 1..Len(Tail(s)), NEW b \in Kinds, NEW t \in Tables
      PROVE  /\ Tail(s)[n] \in {Take(b, t), Use(b, t)} =>
                  Owes(Tail(s), n, b, t)
             /\ Owes(Tail(s), n, b, t) => Under(Tail(s)[n], b, t)
  <2>1. Tail(s)[n] = s[n + 1] /\ n \in Nat /\ n + 1 \in 1..Len(s)
      BY Zenon, <1>1, <1>2
  <2>2. Owes(Tail(s), n, b, t) <=> Owes(s, n + 1, b, t)
      BY Zenon, <2>1, OwesTail
  <2>. QED BY Zenon, <2>1, <2>2 DEF Orderly
<1>4. 0 \in Nat /\ 0 + 1 = 1 /\ 1 \in 1..Len(s)
    BY <1>1
<1>5. \A b \in Kinds, t \in Tables : Owes(Tail(s), 0, b, t) <=> Owes(s, 1, b, t)
    BY Zenon, <1>4, OwesTail
<1>6. \A b \in Kinds, t \in Tables :
        /\ s[1] \in {Take(b, t), Use(b, t)} => Owes(s, 1, b, t)
        /\ Owes(s, 1, b, t) => Under(s[1], b, t)
    BY Zenon, <1>4 DEF Orderly
<1>7. ASSUME NEW b \in Kinds, NEW t \in Tables
      PROVE  /\ Owes(s, 1, b, t) <=>
                  s[1] = Take(b, t) \/ (Owes(s, 0, b, t) /\ s[1] # Give(b, t))
             /\ Owes(s, 0, b, t) =>
                  \/ s[1] = Give(b, t)
                  \/ s[1] # Take(b, t) /\ Under(s[1], b, t)
  <2>1. /\ s[1] = Take(b, t) => ~Owes(s, 0, b, t)
        /\ s[1] = Give(b, t) => Owes(s, 0, b, t)
        /\ s[1] \notin {Take(b, t), Give(b, t)} =>
             (Owes(s, 0, b, t) <=> Owes(s, 1, b, t))
      BY Zenon, OwesHead
  <2>2. CASE s[1] = Take(b, t)
    <3>1. Take(b, t) # Give(b, t) /\ Owes(s, 1, b, t)
        BY Zenon, <1>6, <2>2, Apart
    <3>. QED BY Zenon, <2>1, <2>2, <3>1
  <2>3. CASE s[1] = Give(b, t)
    <3>1. ~Under(Give(b, t), b, t) /\ Take(b, t) # Give(b, t)
        BY Zenon, Apart, Above
    <3>2. ~Under(s[1], b, t) /\ s[1] # Take(b, t)
        BY Zenon, <2>3, <3>1
    <3>3. ~Owes(s, 1, b, t)
        BY Zenon, <1>6, <3>2
    <3>. QED BY Zenon, <2>1, <2>3, <3>2, <3>3
  <2>4. CASE s[1] \notin {Take(b, t), Give(b, t)}
      BY Zenon, <1>6, <2>1, <2>4
  <2>. QED BY Zenon, <2>2, <2>3, <2>4
<1>8. Orderly(Tail(s))
    BY Zenon, <1>3 DEF Orderly
<1>. QED BY Zenon, <1>1, <1>5, <1>7, <1>8

\* One whole path after another is a whole path.
LEMMA Joined ==
  ASSUME NEW s, NEW u, Whole(s), Whole(u)
  PROVE  Whole(s \o u)
<1> DEFINE w == s \o u
           l == Len(s)
<1>1. /\ w \in Seq(Ops) /\ s \in Seq(Ops) /\ u \in Seq(Ops)
      /\ l \in Nat /\ Len(u) \in Nat /\ Len(w) = l + Len(u)
      /\ \A n \in 1..Len(w) : w[n] = IF n <= l THEN s[n] ELSE u[n - l]
  <2>1. s \in Seq(Ops) /\ u \in Seq(Ops)
      BY Zenon DEF Whole
  <2>. QED BY <2>1, Concat
<1> HIDE DEF w, l
<1>2. ASSUME NEW b \in Kinds, NEW t \in Tables, NEW k \in 0..l
      PROVE  Owes(w, k, b, t) <=> Owes(s, k, b, t)
  <2>1. ASSUME Owes(s, k, b, t) PROVE Owes(w, k, b, t)
    <3>1. PICK m \in (k + 1)..l :
            s[m] = Give(b, t) /\ \A j \in (k + 1)..(m - 1) : s[j] # Take(b, t)
        BY Zenon, <2>1 DEF Owes, l
    <3>2. m \in (k + 1)..Len(w) /\ w[m] = s[m]
        BY <1>1, <3>1
    <3>3. \A j \in (k + 1)..(m - 1) : w[j] = s[j]
        BY <1>1, <3>1
    <3>. QED BY Zenon, <3>1, <3>2, <3>3 DEF Owes
  <2>2. ASSUME Owes(w, k, b, t) PROVE Owes(s, k, b, t)
    <3>1. PICK m \in (k + 1)..Len(w) :
            w[m] = Give(b, t) /\ \A j \in (k + 1)..(m - 1) : w[j] # Take(b, t)
        BY Zenon, <2>2 DEF Owes
    <3>2. CASE m <= l
      <4>1. m \in (k + 1)..l /\ s[m] = w[m]
          BY <1>1, <3>1, <3>2
      <4>2. \A j \in (k + 1)..(m - 1) : w[j] = s[j]
          BY <1>1, <3>1, <3>2
      <4>. QED BY Zenon, <3>1, <4>1, <4>2 DEF Owes, l
    <3>3. CASE m > l
      <4>1. m - l \in (0 + 1)..Len(u) /\ u[m - l] = Give(b, t)
          BY <1>1, <3>1, <3>3
      <4>2. ASSUME NEW j \in (0 + 1)..((m - l) - 1) PROVE u[j] # Take(b, t)
        <5>1. j + l \in (k + 1)..(m - 1) /\ w[j + l] = u[j]
            BY <1>1, <3>1, <3>3
        <5>. QED BY Zenon, <3>1, <5>1
      <4>. QED BY Zenon, <4>1, <4>2 DEF Whole, Owes
    <3>. QED BY <1>1, <3>1, <3>2, <3>3
  <2>. QED BY Zenon, <2>1, <2>2
<1>3. ASSUME NEW b \in Kinds, NEW t \in Tables, NEW k \in 1..Len(u)
      PROVE  Owes(w, k + l, b, t) <=> Owes(u, k, b, t)
  <2>1. ASSUME Owes(u, k, b, t) PROVE Owes(w, k + l, b, t)
    <3>1. PICK m \in (k + 1)..Len(u) :
            u[m] = Give(b, t) /\ \A j \in (k + 1)..(m - 1) : u[j] # Take(b, t)
        BY Zenon, <2>1 DEF Owes
    <3>2. m + l \in (k + l + 1)..Len(w) /\ w[m + l] = u[m]
        BY SMTT(30), <1>1, <3>1
    <3>3. ASSUME NEW j \in (k + l + 1)..((m + l) - 1) PROVE w[j] # Take(b, t)
      <4>1. j - l \in (k + 1)..(m - 1) /\ w[j] = u[j - l]
          BY <1>1, <3>1
      <4>. QED BY Zenon, <3>1, <4>1
    <3>. QED BY Zenon, <3>1, <3>2, <3>3 DEF Owes
  <2>2. ASSUME Owes(w, k + l, b, t) PROVE Owes(u, k, b, t)
    <3>1. PICK m \in (k + l + 1)..Len(w) :
            /\ w[m] = Give(b, t)
            /\ \A j \in (k + l + 1)..(m - 1) : w[j] # Take(b, t)
        BY Zenon, <2>2 DEF Owes
    <3>2. m - l \in (k + 1)..Len(u) /\ u[m - l] = w[m]
        BY SMTT(30), <1>1, <3>1
    <3>3. ASSUME NEW j \in (k + 1)..((m - l) - 1) PROVE u[j] # Take(b, t)
      <4>1. j + l \in (k + l + 1)..(m - 1) /\ w[j + l] = u[j]
          BY SMTT(30), <1>1, <3>1
      <4>. QED BY Zenon, <3>1, <4>1
    <3>. QED BY Zenon, <3>1, <3>2, <3>3 DEF Owes
  <2>. QED BY Zenon, <2>1, <2>2
<1>4. Orderly(w)
  <2>1. SUFFICES ASSUME NEW k \in 1..Len(w), NEW b \in Kinds, NEW t \in Tables
                 PROVE  /\ w[k] \in {Take(b, t), Use(b, t)} => Owes(w, k, b, t)
                        /\ Owes(w, k, b, t) => Under(w[k], b, t)
      BY Zenon DEF Orderly
  <2>2. CASE k <= l
    <3>1. k \in 1..l /\ k \in 0..l /\ w[k] = s[k]
        BY <1>1, <2>2
    <3>. QED BY Zenon, <1>2, <3>1 DEF Whole, Orderly, l
  <2>3. CASE k > l
    <3>1. k - l \in 1..Len(u) /\ w[k] = u[k - l] /\ (k - l) + l = k
        BY <1>1, <2>3
    <3>2. Owes(w, k, b, t) <=> Owes(u, k - l, b, t)
        BY Zenon, <1>3, <3>1
    <3>. QED BY Zenon, <3>1, <3>2 DEF Whole, Orderly
  <2>. QED BY <1>1, <2>2, <2>3
<1>5. 0 \in 0..l
    BY <1>1
<1>. QED BY Zenon, <1>1, <1>2, <1>4, <1>5 DEF Whole, w

\* Operations that have nothing to do with locks.
Plain(s) ==
  /\ s \in Seq(Ops)
  /\ \A k \in 1..Len(s) : s[k].op \in {"etcd", "client", "log", "scrape"}

\* A path without locks is whole.
LEMMA PlainWhole ==
  ASSUME NEW s, Plain(s)
  PROVE  Whole(s)
<1>1. \A b \in Kinds, t \in Tables :
        /\ Take(b, t).op \notin {"etcd", "client", "log", "scrape"}
        /\ Use(b, t).op \notin {"etcd", "client", "log", "scrape"}
        /\ Give(b, t).op \notin {"etcd", "client", "log", "scrape"}
    BY DEF Take, Use, Give, Op
<1>2. ASSUME NEW k \in Nat, NEW b \in Kinds, NEW t \in Tables
      PROVE  ~Owes(s, k, b, t)
  <2>1. \A m \in (k + 1)..Len(s) : m \in 1..Len(s)
      OBVIOUS
  <2>. QED BY Zenon, <1>1, <2>1 DEF Plain, Owes
<1>3. 0 \in Nat /\ \A k \in 1..Len(s) : k \in Nat
    OBVIOUS
<1>. QED BY Zenon, <1>1, <1>2, <1>3 DEF Plain, Whole, Orderly

\* A lock that is taken, used and given back is given back whatever is
\* waited for or logged meanwhile.
LEMMA Locked ==
  ASSUME NEW b \in Kinds, NEW t \in Tables, NEW s \in Seq(Ops),
         NEW n \in Nat, Len(s) = n + 3,
         s[1] = Take(b, t), s[2] = Use(b, t), s[n + 3] = Give(b, t),
         \A k \in 3..(n + 2) :
           s[k].op \in {"client", "log"} /\ Under(s[k], b, t)
  PROVE  Whole(s)
<1>1. \A c \in Kinds, u \in Tables :
        /\ Take(c, u).op \notin {"client", "log"}
        /\ Use(c, u).op \notin {"client", "log"}
        /\ Give(c, u).op \notin {"client", "log"}
    BY DEF Take, Use, Give, Op
<1>2. \A k \in 1..Len(s) : k = 1 \/ k = 2 \/ k = n + 3 \/ k \in 3..(n + 2)
    OBVIOUS
<1>3. ASSUME NEW c \in Kinds, NEW u \in Tables, NEW k \in 1..Len(s)
      PROVE  /\ s[k] = Take(c, u) <=> k = 1 /\ c = b /\ u = t
             /\ s[k] = Use(c, u) <=> k = 2 /\ c = b /\ u = t
             /\ s[k] = Give(c, u) <=> k = n + 3 /\ c = b /\ u = t
  <2>1. 2 # 1 /\ n + 3 # 1 /\ n + 3 # 2 /\ 1 \notin 3..(n + 2)
        /\ 2 \notin 3..(n + 2) /\ n + 3 \notin 3..(n + 2)
      BY SMTT(30)
  <2>0. /\ Take(b, t) = Take(c, u) <=> b = c /\ t = u
        /\ Give(b, t) = Give(c, u) <=> b = c /\ t = u
        /\ Use(b, t) = Use(c, u) <=> b = c /\ t = u
        /\ Take(b, t) # Give(c, u) /\ Use(b, t) # Give(c, u)
        /\ Take(c, u) # Give(b, t) /\ Use(c, u) # Give(b, t)
        /\ Take(b, t) # Use(c, u) /\ Take(c, u) # Use(b, t)
      BY Apart
  <2>2. CASE k = 1
    <3>1. s[k] = Take(b, t)
        BY Zenon, <2>2
    <3>. QED BY Zenon, <2>0, <2>1, <2>2, <3>1
  <2>3. CASE k = 2
    <3>1. s[k] = Use(b, t)
        BY Zenon, <2>3
    <3>. QED BY Zenon, <2>0, <2>1, <2>3, <3>1
  <2>4. CASE k = n + 3
    <3>1. s[k] = Give(b, t)
        BY Zenon, <2>4
    <3>. QED BY Zenon, <2>0, <2>1, <2>4, <3>1
  <2>5. CASE k \in 3..(n + 2)
    <3>1. s[k].op \in {"client", "log"}
        BY Zenon, <2>5
    <3>. QED BY Zenon, <1>1, <2>1, <2>5, <3>1
  <2>. QED BY Zenon, <1>2, <2>2, <2>3, <2>4, <2>5
<1>4. ASSUME NEW c \in Kinds, NEW u \in Tables, NEW k \in 0..Len(s)
      PROVE  Owes(s, k, c, u) <=> k \in 1..(n + 2) /\ c = b /\ u = t
  <2>1. ASSUME k \in 1..(n + 2), c = b, u = t PROVE Owes(s, k, c, u)
    <3>1. n + 3 \in (k + 1)..Len(s)
        BY <2>1
    <3>2. \A j \in (k + 1)..((n + 3) - 1) : j \in 1..Len(s) /\ j # 1
        BY <2>1
    <3>3. ASSUME NEW j \in (k + 1)..((n + 3) - 1) PROVE s[j] # Take(c, u)
        BY <1>3, <3>2
    <3>. QED BY Zenon, <2>1, <3>1, <3>3 DEF Owes
  <2>2. ASSUME Owes(s, k, c, u) PROVE k \in 1..(n + 2) /\ c = b /\ u = t
    <3>1. PICK m \in (k + 1)..Len(s) :
            s[m] = Give(c, u) /\ \A j \in (k + 1)..(m - 1) : s[j] # Take(c, u)
        BY Zenon, <2>2 DEF Owes
    <3>2. m \in 1..Len(s)
        OBVIOUS
    <3>3. m = n + 3 /\ c = b /\ u = t
        BY Zenon, <1>3, <3>1, <3>2
    <3>4. k # 0
        BY <3>1, <3>3
    <3>. QED BY <3>3, <3>4
  <2>. QED BY Zenon, <2>1, <2>2
<1>5. /\ 1 \in 1..(n + 2) /\ 2 \in 1..(n + 2) /\ n + 3 \notin 1..(n + 2)
      /\ 0 \notin 1..(n + 2) /\ 0 \in 0..Len(s)
      /\ \A k \in 1..Len(s) : k \in 0..Len(s)
    OBVIOUS
<1>6. \A c \in Kinds, u \in Tables : ~Owes(s, 0, c, u)
    BY Zenon, <1>4, <1>5
<1>7. ASSUME NEW c \in Kinds, NEW u \in Tables, NEW k \in 1..Len(s)
      PROVE  /\ s[k] \in {Take(c, u), Use(c, u)} => Owes(s, k, c, u)
             /\ Owes(s, k, c, u) => Under(s[k], c, u)
  <2>1. Owes(s, k, c, u) <=> k \in 1..(n + 2) /\ c = b /\ u = t
      BY Zenon, <1>4, <1>5
  <2>2. /\ s[k] = Take(c, u) <=> k = 1 /\ c = b /\ u = t
        /\ s[k] = Use(c, u) <=> k = 2 /\ c = b /\ u = t
      BY Zenon, <1>3
  <2>3. s[k] \in {Take(c, u), Use(c, u)} => Owes(s, k, c, u)
      BY Zenon, <1>5, <2>1, <2>2
  <2>4. ASSUME k \in 1..(n + 2) PROVE Under(s[k], b, t)
    <3>1. k = 1 \/ k = 2 \/ k \in 3..(n + 2)
        BY <2>4
    <3>. QED BY Zenon, <3>1 DEF Under
  <2>. QED BY Zenon, <2>1, <2>3, <2>4
<1>. QED BY Zenon, <1>6, <1>7 DEF Whole, Orderly

\* The pieces that handlers are made of.
LEMMA Pieces ==
  /\ Whole(<<>>) /\ Whole(Reply) /\ Whole(logReq) /\ Whole(logInfo)
  /\ Whole(logDebug) /\ Whole(Answer) /\ Whole(<<Op("scrape", None)>>)
  /\ \A t \in Tables : /\ Whole(Reading(t)) /\ Whole(Writing(t))
                       /\ Whole(Memory(t)) /\ Whole(Etcd(t))
<1>1. ASSUME NEW op \in {"etcd", "client", "log", "scrape"},
             NEW on \in Tables \cup {None, "request", "line"}
      PROVE  Whole(<<Op(op, on)>>)
  <2> DEFINE e == Op(op, on)
  <2>1. e \in Ops /\ e.op = op
      BY DEF Op, Ops
  <2> HIDE DEF e
  <2>2. <<e>> \in Seq(Ops) /\ \A k \in 1..Len(<<e>>) : <<e>>[k] = e
      BY <2>1
  <2>3. Plain(<<e>>)
      BY Zenon, <2>1, <2>2 DEF Plain
  <2>. QED BY Zenon, <2>3, PlainWhole DEF e
<1>2. Whole(<<>>)
  <2>1. Plain(<<>>)
      BY DEF Plain
  <2>. QED BY Zenon, <2>1, PlainWhole
<1>3. ASSUME NEW b \in Kinds, NEW t \in Tables
      PROVE  Whole(<<Take(b, t), Use(b, t), Give(b, t)>>)
  <2> DEFINE s == <<Take(b, t), Use(b, t), Give(b, t)>>
  <2>1. /\ s \in Seq(Ops) /\ Len(s) = 0 + 3
        /\ s[1] = Take(b, t) /\ s[2] = Use(b, t) /\ s[0 + 3] = Give(b, t)
      BY Apart
  <2>2. 0 \in Nat /\ \A k \in 3..(0 + 2) : FALSE
      OBVIOUS
  <2> HIDE DEF s
  <2>3. Whole(s)
      BY Zenon, <2>1, <2>2, Locked
  <2>. QED BY Zenon, <2>3 DEF s
<1>4. ASSUME NEW t \in Tables PROVE Whole(Reading(t)) /\ Whole(Writing(t))
  <2>1. /\ Reading(t) = <<Take("read", t), Use("read", t), Give("read", t)>>
        /\ Writing(t) = <<Take("write", t), Use("write", t), Give("write", t)>>
      BY DEF Reading, Writing, Take, Use, Give
  <2>. QED BY Zenon, <1>3, <2>1 DEF Kinds
<1>5. ASSUME NEW t \in Tables PROVE Whole(Memory(t)) /\ Whole(Etcd(t))
  <2>1. Whole(<<Op("etcd", t)>>)
      BY Zenon, <1>1
  <2>. QED BY Zenon, <1>2, <1>4, <2>1, Joined DEF Memory, Etcd
<1>. QED BY Zenon, <1>1, <1>2, <1>4, <1>5, Joined
         DEF Reply, logReq, logInfo, logDebug, Answer

\* The list is written to the client and logged under its lock.
LEMMA ListWhole == \A h \in handleList : Whole(h)
<1>1. ASSUME NEW a \in Ops, NEW c \in Ops, NEW d \in Ops, NEW e \in Ops,
             NEW l \in Seq(Ops),
             a = Take("read", "ip"), c = Use("read", "ip"),
             e = Give("read", "ip"), d.op = "client",
             \A k \in 1..Len(l) : l[k].op = "log"
      PROVE  Whole(<<a, c>> \o <<d>> \o l \o <<e>>)
  <2> DEFINE x == <<a, c>> \o <<d>>
             y == x \o l
             z == y \o <<e>>
             n == Len(l) + 1
  <2>1. /\ x \in Seq(Ops) /\ Len(x) = 3 /\ x[1] = a /\ x[2] = c /\ x[3] = d
      OBVIOUS
  <2> HIDE DEF x
  <2>2. Len(l) \in Nat /\ n \in Nat
      OBVIOUS
  <2>3. /\ y \in Seq(Ops) /\ Len(y) = 3 + Len(l)
        /\ \A k \in 1..Len(y) : y[k] = IF k <= 3 THEN x[k] ELSE l[k - 3]
    <3>1. /\ y \in Seq(Ops) /\ Len(y) = Len(x) + Len(l)
          /\ \A k \in 1..Len(y) :
               y[k] = IF k <= Len(x) THEN x[k] ELSE l[k - Len(x)]
        BY Zenon, <2>1, Concat
    <3> HIDE DEF y
    <3>. QED BY <2>1, <3>1
  <2> HIDE DEF y
  <2>4. /\ y[1] = a /\ y[2] = c /\ y[3] = d
        /\ \A k \in 4..Len(y) : y[k] = l[k - 3] /\ k - 3 \in 1..Len(l)
      BY <2>1, <2>2, <2>3
  <2>5. \A k \in 3..Len(y) :
          y[k].op \in {"client", "log"} /\ Under(y[k], "read", "ip")
    <3>1. \A k \in 3..Len(y) : k = 3 \/ k \in 4..Len(y)
        OBVIOUS
    <3>2. y[3].op = "client" /\ \A k \in 4..Len(y) : y[k].op = "log"
        BY Zenon, <1>1, <2>4
    <3>. QED BY Zenon, <3>1, <3>2 DEF Under
  <2>6. /\ <<e>> \in Seq(Ops) /\ Len(<<e>>) = 1 /\ <<e>>[1] = e
      OBVIOUS
  <2>7. /\ z \in Seq(Ops) /\ Len(z) = Len(y) + 1
        /\ \A k \in 1..Len(z) :
             z[k] = IF k <= Len(y) THEN y[k] ELSE <<e>>[k - Len(y)]
      BY <2>3, <2>6, Concat
  <2> HIDE DEF z
  <2>8. /\ Len(z) = n + 3 /\ z[1] = a /\ z[2] = c /\ z[n + 3] = e
        /\ \A k \in 3..(n + 2) : k \in 3..Len(y) /\ z[k] = y[k]
      BY SMTT(30), <2>2, <2>3, <2>4, <2>6, <2>7
  <2>9. "read" \in Kinds /\ "ip" \in Tables
      BY DEF Kinds, Tables
  <2> HIDE DEF n
  <2>10. Whole(z)
      BY ZenonT(30), <1>1, <2>2, <2>5, <2>7, <2>8, <2>9, Locked
  <2>. QED BY Zenon, <2>10 DEF x, y, z
<1>2. ASSUME NEW l \in {logReq, logDebug}
      PROVE  l \in Seq(Ops) /\ \A k \in 1..Len(l) : l[k].op = "log"
  <2>1. l \in {<<>>, <<Op("log", "request")>>, <<Op("log", "line")>>}
      BY Zenon DEF logReq, logDebug, logInfo
  <2>2. /\ Op("log", "request") \in Ops /\ Op("log", "request").op = "log"
        /\ Op("log", "line") \in Ops /\ Op("log", "line").op = "log"
      BY DEF Op, Ops
  <2>3. ASSUME NEW e \in Ops, e.op = "log"
        PROVE  <<e>> \in Seq(Ops) /\ \A k \in 1..Len(<<e>>) : <<e>>[k].op = "log"
      BY <2>3
  <2>4. <<>> \in Seq(Ops) /\ \A k \in 1..Len(<<>>) : <<>>[k].op = "log"
      OBVIOUS
  <2>. QED BY Zenon, <2>1, <2>2, <2>3, <2>4
<1>3. /\ Op("rlock", "ip") = Take("read", "ip")
      /\ Op("look", "ip") = Use("read", "ip")
      /\ Op("runlock", "ip") = Give("read", "ip")
    BY DEF Take, Use, Give
<1>4. /\ Op("client", None) \in Ops /\ Op("client", None).op = "client"
      /\ "read" \in Kinds /\ "ip" \in Tables
    BY DEF Op, Ops, Kinds, Tables
<1>5. ASSUME NEW l \in {logReq, logDebug}
      PROVE  Whole(<<Op("rlock", "ip"), Op("look", "ip")>> \o Reply \o l \o
                      <<Op("runlock", "ip")>>)
  <2>1. /\ Op("rlock", "ip") \in Ops /\ Op("look", "ip") \in Ops
        /\ Op("runlock", "ip") \in Ops
      BY DEF Op, Ops, Tables
  <2>. QED BY Zenon, <1>1, <1>2, <1>3, <1>4, <2>1 DEF Reply
<1>. QED BY Zenon, <1>5 DEF handleList

\* Every handler, the worker, the watch loops and the bouncer give back every
\* lock they take, use no table without its lock, and take no lock and wait for
\* nobody while they have one, except for the client of a list.
LEMMA HandlersWhole == \A h \in Handlers : Whole(h)
<1> USE Pieces, Joined
<1>1. "ip" \in Tables /\ "cidr" \in Tables
    BY DEF Tables
<1>2. \A s \in Search : Whole(s)
    BY Zenon, <1>1 DEF Search
<1>3. \A h \in handleLookup : Whole(h)
    BY Zenon, <1>2 DEF handleLookup
<1>4. \A h \in handleAuth : Whole(h)
  <2>1. \A s \in Search : Whole(s \o Answer) /\ Whole(s \o logReq \o Reply)
      BY Zenon, <1>2
  <2>. QED BY Zenon, <2>1 DEF handleAuth
<1>5. \A h \in handleDNSRequest : Whole(h)
  <2>1. \A l \in {<<>>, logInfo} : \A s \in {<<>>, Reading("ip")} :
          Whole(l \o s \o Answer)
      BY Zenon, <1>1
  <2>2. \A h \in handleDNSRequest :
          h = Reply \/ \E l \in {<<>>, logInfo}, s \in {<<>>, Reading("ip")} :
                         h = l \o s \o Answer
      BY SMTT(30) DEF handleDNSRequest
  <2>. QED BY Zenon, <2>1, <2>2
<1>6. \A h \in metricsHandler : Whole(h)
  <2>1. \A r \in {<<>>, Reply} :
          Whole(Reading("ip") \o r \o <<Op("scrape", None)>> \o Reply)
      BY Zenon, <1>1
  <2>. QED BY Zenon, <2>1 DEF metricsHandler
<1>7. \A h \in healthHandler \cup notFoundHandler : Whole(h)
    BY Zenon DEF healthHandler, notFoundHandler
<1>8. ASSUME NEW t \in Tables
      PROVE  \A h \in handlePut(t) \cup handleDelete(t) \cup expiry(t)
                        \cup bounce(t) : Whole(h)
  <2>1. \A h \in handlePut(t) : Whole(h)
    <3>1. Whole(Reading(t) \o Etcd(t) \o Memory(t) \o Answer)
        BY Zenon
    <3>. QED BY Zenon, <3>1 DEF handlePut
  <2>2. \A h \in handleDelete(t) : Whole(h)
      BY Zenon DEF handleDelete
  <2>3. \A h \in expiry(t) : Whole(h)
      BY Zenon DEF expiry
  <2>4. \A h \in bounce(t) : Whole(h)
    <3>1. Whole(Reading(t) \o Etcd(t) \o Memory(t) \o logDebug)
        BY Zenon
    <3>. QED BY Zenon, <3>1 DEF bounce
  <2>. QED BY Zenon, <2>1, <2>2, <2>3, <2>4
<1>9. \A h \in watchEvent \cup cidrWatchEvent : Whole(h)
  <2>1. Whole(logInfo) /\ Whole(Writing("ip")) /\ Whole(Writing("cidr"))
      BY Zenon DEF Tables
  <2>2. /\ Whole(logInfo \o <<>>) /\ Whole(logInfo \o logInfo)
        /\ Whole(logInfo \o Writing("ip"))
        /\ Whole(logInfo \o (logInfo \o Writing("ip")))
        /\ Whole(Writing("cidr") \o logInfo)
      BY Zenon, <2>1
  <2>. QED BY Zenon, <2>1, <2>2 DEF watchEvent, cidrWatchEvent
<1>. QED BY Zenon, <1>3, <1>4, <1>5, <1>6, <1>7, <1>8, <1>9, ListWhole DEF Handlers

----------------------------------------------------------------------------
(* The locks of an instance                                                *)

LockTypes ==
  /\ path \in [Procs -> Seq(Ops)]
  /\ readers \in [Tables -> SUBSET Procs]
  /\ writer \in [Tables -> Procs \cup {None}]
  /\ stuck \subseteq Procs /\ started \in 0..MaxRequests

Has(p, b, t) == IF b = "read" THEN p \in readers[t] ELSE p = writer[t]

\* A goroutine has the locks that its path gives back.
Locks ==
  \A p \in Procs :
    /\ Orderly(path[p])
    /\ \A b \in Kinds, t \in Tables : Has(p, b, t) <=> Owes(path[p], 0, b, t)

\* A goroutine that is in the log functions or in a scrape is at that operation.
AtWork ==
  \A p \in Procs :
    /\ logger[p].at \in {"out", "format"} => logger[p].msg = <<>>
    /\ logger[p] # Quiet => path[p] # <<>> /\ Head(path[p]).op = "log"
    /\ scrape[p].at # "out" => path[p] # <<>> /\ Head(path[p]).op = "scrape"

\* Who is stuck waits for a client or for etcd.
Stalled ==
  \A p \in stuck : path[p] # <<>> /\ Head(path[p]).op \in {"client", "etcd"}

ServingInv ==
  LogInv /\ ScrapeInv /\ LockTypes /\ Locks /\ AtWork /\ Stalled

\* A goroutine gets past an operation.
LEMMA Passing ==
  ASSUME LockTypes, Locks, NEW p \in Procs, path[p] # <<>>, Past(p)
  PROVE  /\ path' \in [Procs -> Seq(Ops)]
         /\ \A q \in Procs \ {p} : path'[q] = path[q]
         /\ Head(path[p]) \in Ops /\ Orderly(path'[p])
         /\ \A b \in Kinds, t \in Tables :
              /\ Owes(path'[p], 0, b, t) <=>
                   Head(path[p]) = Take(b, t) \/
                     (Has(p, b, t) /\ Head(path[p]) # Give(b, t))
              /\ Head(path[p]) = Give(b, t) => Has(p, b, t)
<1>1. path[p] \in Seq(Ops) /\ Orderly(path[p])
    BY Zenon DEF LockTypes, Locks
<1>2. path' = [path EXCEPT ![p] = Tail(path[p])]
    BY Zenon DEF Past
<1>3. /\ Tail(path[p]) \in Seq(Ops) /\ Orderly(Tail(path[p]))
      /\ Head(path[p]) \in Ops /\ Head(path[p]) = path[p][1]
      /\ \A b \in Kinds, t \in Tables :
           Owes(Tail(path[p]), 0, b, t) <=>
             Head(path[p]) = Take(b, t) \/
               (Owes(path[p], 0, b, t) /\ Head(path[p]) # Give(b, t))
    BY Zenon, <1>1, OrderlyTail
<1>4. path' \in [Procs -> Seq(Ops)] /\ path'[p] = Tail(path[p])
      /\ \A q \in Procs \ {p} : path'[q] = path[q]
    BY Zenon, <1>2, <1>3 DEF LockTypes
<1>5. \A b \in Kinds, t \in Tables :
        path[p][1] = Give(b, t) => Owes(path[p], 0, b, t)
    BY Zenon, <1>1, OwesHead
<1>. QED BY Zenon, <1>3, <1>4, <1>5 DEF Locks

\* Past an operation that is not one on locks everybody has the same locks.
LEMMA PassingPlain ==
  ASSUME LockTypes, Locks, NEW p \in Procs, path[p] # <<>>, Past(p),
         UNCHANGED <<readers, writer, stuck, started>>,
         Head(path[p]).op \in {"look", "change", "etcd", "client", "log", "scrape"}
  PROVE  LockTypes' /\ Locks'
<1>1. \A b \in Kinds, t \in Tables :
        /\ Take(b, t).op \notin {"look", "change", "etcd", "client", "log", "scrape"}
        /\ Give(b, t).op \notin {"look", "change", "etcd", "client", "log", "scrape"}
    BY DEF Take, Give, Op
<1>2. \A b \in Kinds, t \in Tables :
        Head(path[p]) # Take(b, t) /\ Head(path[p]) # Give(b, t)
    BY Zenon, <1>1
<1>3. /\ path' \in [Procs -> Seq(Ops)] /\ Orderly(path'[p])
      /\ \A q \in Procs \ {p} : path'[q] = path[q]
      /\ \A b \in Kinds, t \in Tables : Owes(path'[p], 0, b, t) <=> Has(p, b, t)
    BY Zenon, <1>2, Passing
<1>4. LockTypes'
    BY Zenon, <1>3 DEF LockTypes
<1>5. \A q \in Procs, b \in Kinds, t \in Tables : Has(q, b, t)' <=> Has(q, b, t)
    BY Zenon DEF Has
<1>6. Locks'
    BY Zenon, <1>3, <1>5 DEF Locks
<1>. QED BY Zenon, <1>4, <1>6

\* A lock is taken or given back.
LEMMA PassingLock ==
  ASSUME LockTypes, Locks, NEW p \in Procs, path[p] # <<>>, Past(p),
         UNCHANGED <<stuck, started>>, NEW b \in Kinds, NEW t \in Tables,
         readers' \in [Tables -> SUBSET Procs],
         writer' \in [Tables -> Procs \cup {None}],
         \/ Head(path[p]) = Take(b, t) /\ Has(p, b, t)'
         \/ Head(path[p]) = Give(b, t) /\ ~Has(p, b, t)',
         \A q \in Procs, c \in Kinds, u \in Tables :
           (q # p \/ c # b \/ u # t) => (Has(q, c, u)' <=> Has(q, c, u))
  PROVE  LockTypes' /\ Locks'
<1>1. /\ path' \in [Procs -> Seq(Ops)] /\ Orderly(path'[p])
      /\ \A q \in Procs \ {p} : path'[q] = path[q]
      /\ \A c \in Kinds, u \in Tables :
           Owes(path'[p], 0, c, u) <=>
             Head(path[p]) = Take(c, u) \/
               (Has(p, c, u) /\ Head(path[p]) # Give(c, u))
    BY Zenon, Passing
<1>2. LockTypes'
    BY Zenon, <1>1 DEF LockTypes
<1>3. \A c \in Kinds, u \in Tables :
        /\ Take(b, t) = Take(c, u) => b = c /\ t = u
        /\ Give(b, t) = Give(c, u) => b = c /\ t = u
        /\ Take(b, t) # Give(c, u) /\ Take(c, u) # Give(b, t)
    BY Apart
<1>4. ASSUME NEW c \in Kinds, NEW u \in Tables
      PROVE  Has(p, c, u)' <=> Owes(path'[p], 0, c, u)
  <2>1. CASE c = b /\ u = t
      BY Zenon, <1>1, <1>3, <2>1
  <2>2. CASE c # b \/ u # t
      BY Zenon, <1>1, <1>3, <2>2
  <2>. QED BY Zenon, <2>1, <2>2
<1>5. Locks'
    BY ZenonT(30), <1>1, <1>4 DEF Locks
<1>. QED BY Zenon, <1>2, <1>5

\* The operations on locks.
LEMMA LockSteps ==
  ASSUME LockTypes, Locks, NEW p \in Procs,
         rlock(p) \/ runlock(p) \/ lock(p) \/ unlock(p)
  PROVE  LockTypes' /\ Locks'
<1> USE GoroutinesAssumption
<1>1. path[p] # <<>> /\ Past(p) /\ UNCHANGED <<stuck, started>>
      /\ Head(path[p]).op \in {"rlock", "runlock", "lock", "unlock"}
    BY DEF rlock, runlock, lock, unlock, Next1
<1>2. PICK t \in Tables : On(p) = t /\ Head(path[p]) = Op(Head(path[p]).op, t)
  <2>1. Head(path[p]) \in Ops
      BY Zenon, <1>1, Passing
  <2>. QED BY <1>1, <2>1 DEF Ops, On, Op
<1>3. "read" \in Kinds /\ "write" \in Kinds /\ Kinds = {"read", "write"}
    BY DEF Kinds
<1>4. CASE rlock(p)
  <2>1. Head(path[p]) = Take("read", t)
      BY Zenon, <1>2, <1>4 DEF rlock, Next1, Take
  <2>2. readers' = [readers EXCEPT ![t] = @ \cup {p}] /\ writer' = writer
      BY Zenon, <1>2, <1>4 DEF rlock
  <2>3. readers' \in [Tables -> SUBSET Procs] /\ Has(p, "read", t)'
        /\ \A q \in Procs, c \in Kinds, u \in Tables :
             (q # p \/ c # "read" \/ u # t) => (Has(q, c, u)' <=> Has(q, c, u))
    <3>1. /\ readers' \in [Tables -> SUBSET Procs]
          /\ \A u \in Tables \ {t} : readers'[u] = readers[u]
          /\ \A q \in Procs \ {p} : q \in readers'[t] <=> q \in readers[t]
          /\ p \in readers'[t]
        BY Zenon, <1>2, <2>2 DEF LockTypes
    <3>. QED BY Zenon, <2>2, <3>1 DEF Has
  <2>. QED BY ZenonT(30), <1>1, <1>2, <1>3, <2>1, <2>2, <2>3, PassingLock DEF LockTypes
<1>5. CASE runlock(p)
  <2>1. Head(path[p]) = Give("read", t)
      BY Zenon, <1>2, <1>5 DEF runlock, Next1, Give
  <2>2. readers' = [readers EXCEPT ![t] = @ \ {p}] /\ writer' = writer
      BY Zenon, <1>2, <1>5 DEF runlock
  <2>3. readers' \in [Tables -> SUBSET Procs] /\ ~Has(p, "read", t)'
        /\ \A q \in Procs, c \in Kinds, u \in Tables :
             (q # p \/ c # "read" \/ u # t) => (Has(q, c, u)' <=> Has(q, c, u))
    <3>1. /\ readers' \in [Tables -> SUBSET Procs]
          /\ \A u \in Tables \ {t} : readers'[u] = readers[u]
          /\ \A q \in Procs \ {p} : q \in readers'[t] <=> q \in readers[t]
          /\ p \notin readers'[t]
        BY Zenon, <1>2, <2>2 DEF LockTypes
    <3>. QED BY Zenon, <2>2, <3>1 DEF Has
  <2>. QED BY Zenon, <1>1, <1>2, <1>3, <2>1, <2>2, <2>3, PassingLock DEF LockTypes
<1>6. CASE lock(p)
  <2>1. Head(path[p]) = Take("write", t)
      BY <1>2, <1>6 DEF lock, Next1, Take
  <2>2. /\ writer' = [writer EXCEPT ![t] = p] /\ writer[t] = None
        /\ readers' = readers
      BY Zenon, <1>2, <1>6 DEF lock
  <2>3. writer' \in [Tables -> Procs \cup {None}] /\ Has(p, "write", t)'
        /\ \A q \in Procs, c \in Kinds, u \in Tables :
             (q # p \/ c # "write" \/ u # t) => (Has(q, c, u)' <=> Has(q, c, u))
    <3>1. /\ writer' \in [Tables -> Procs \cup {None}]
          /\ \A u \in Tables \ {t} : writer'[u] = writer[u]
          /\ writer'[t] = p
        BY Zenon, <1>2, <2>2 DEF LockTypes
    <3>2. "write" # "read"
        OBVIOUS
    <3>. QED BY Zenon, <1>3, <2>2, <3>1, <3>2 DEF Has
  <2>. QED BY ZenonT(30), <1>1, <1>2, <1>3, <2>1, <2>2, <2>3, PassingLock DEF LockTypes
<1>7. CASE unlock(p)
  <2>1. Head(path[p]) = Give("write", t)
      BY <1>2, <1>7 DEF unlock, Next1, Give
  <2>2. writer' = [writer EXCEPT ![t] = None] /\ readers' = readers
      BY Zenon, <1>2, <1>7 DEF unlock
  <2>3. p = writer[t]
    <3>1. Has(p, "write", t)
        BY Zenon, <1>1, <1>2, <1>3, <2>1, Passing
    <3>. QED BY <3>1 DEF Has
  <2>4. writer' \in [Tables -> Procs \cup {None}] /\ ~Has(p, "write", t)'
        /\ \A q \in Procs, c \in Kinds, u \in Tables :
             (q # p \/ c # "write" \/ u # t) => (Has(q, c, u)' <=> Has(q, c, u))
    <3>1. /\ writer' \in [Tables -> Procs \cup {None}]
          /\ \A u \in Tables \ {t} : writer'[u] = writer[u]
          /\ writer'[t] = None
        BY Zenon, <1>2, <2>2 DEF LockTypes
    <3>2. "write" # "read"
        OBVIOUS
    <3>. QED BY Zenon, <1>3, <2>2, <2>3, <3>1, <3>2 DEF Has
  <2>. QED BY ZenonT(30), <1>1, <1>2, <1>3, <2>1, <2>2, <2>4, PassingLock DEF LockTypes
<1>. QED BY Zenon, <1>4, <1>5, <1>6, <1>7

\* A goroutine that has no locks takes a path that starts without any.
LEMMA NewPath ==
  ASSUME LockTypes, Locks, NEW p \in Procs, NEW h, Whole(h),
         \A b \in Kinds, u \in Tables : ~Owes(path[p], 0, b, u),
         path' = [path EXCEPT ![p] = h], UNCHANGED <<readers, writer, stuck>>,
         started' \in 0..MaxRequests
  PROVE  LockTypes' /\ Locks'
<1>1. /\ path' \in [Procs -> Seq(Ops)] /\ path'[p] = h
      /\ \A q \in Procs \ {p} : path'[q] = path[q]
    BY Zenon DEF LockTypes, Whole
<1>2. \A q \in Procs, b \in Kinds, u \in Tables : Has(q, b, u)' <=> Has(q, b, u)
    BY Zenon DEF Has
<1>3. LockTypes'
    BY Zenon, <1>1 DEF LockTypes
<1>4. Locks'
    BY Zenon, <1>1, <1>2 DEF Locks, Whole
<1>. QED BY Zenon, <1>3, <1>4

\* A goroutine that is not at the log or a scrape gets somewhere else.
LEMMA Elsewhere ==
  ASSUME LockTypes, AtWork, NEW p \in Procs,
         path[p] = <<>> \/ Head(path[p]).op \notin {"log", "scrape"},
         \A q \in Procs \ {p} : path'[q] = path[q],
         UNCHANGED <<logger, scrape>>
  PROVE  AtWork'
<1>1. logger[p] = Quiet /\ scrape[p].at = "out"
    BY Zenon DEF AtWork
<1>2. ASSUME NEW q \in Procs, q # p
      PROVE  path'[q] = path[q] /\ logger'[q] = logger[q] /\ scrape'[q] = scrape[q]
    BY Zenon, <1>2
<1>. QED BY Zenon, <1>1, <1>2 DEF AtWork

\* A step of a goroutine in the log functions.
LEMMA AtLog ==
  ASSUME ServingInv, NEW p \in Procs, log(p)
  PROVE  LockTypes' /\ Locks' /\ AtWork'
<1>1. /\ path[p] # <<>> /\ Head(path[p]).op = "log"
      /\ UNCHANGED <<readers, writer, stuck, started, scrape>>
    BY Zenon DEF log, Next1, scrapeVars
<1>2. /\ logger' \in [Procs -> [at : Places, buf : Buffers \cup {None},
                                msg : Seq(Procs)]]
      /\ \A q \in Procs \ {p} : logger'[q] = logger[q]
      /\ logger'[p].at \in {"out", "format"} => logger'[p].msg = <<>>
      /\ logger'[p].at = "out" => logger'[p] = Quiet
  <2>0. /\ logger \in [Procs -> [at : Places, buf : Buffers \cup {None},
                                 msg : Seq(Procs)]]
        /\ logger[p].at \in {"out", "format"} => logger[p].msg = <<>>
      BY Zenon DEF ServingInv, LogInv, LogTypes, AtWork
  <2>1. ASSUME NEW r, logger' = [logger EXCEPT ![p] = r]
        PROVE  logger'[p] = r /\ \A q \in Procs \ {p} : logger'[q] = logger[q]
      BY Zenon, <2>0, <2>1
  <2>2. LogInv'
      BY Zenon, LogGet, LogFormat, LogCopy, LogPut, LogWrite
         DEF ServingInv, log
  <2>3. \E at, buf, msg :
          /\ logger' = [logger EXCEPT ![p] = At(at, buf, msg)]
          /\ at \in {"out", "format"} => msg = <<>>
          /\ at = "out" => buf = None
    <3>1. CASE get(p)
      <4>1. "format" # "out"
          OBVIOUS
      <4>. QED BY Zenon, <3>1, <4>1 DEF get
    <3>2. CASE format(p)
      <4>1. "copy" \notin {"out", "format"} /\ "copy" # "out"
          OBVIOUS
      <4>. QED BY Zenon, <3>2, <4>1 DEF format
    <3>3. CASE copy(p)
      <4>1. "put" \notin {"out", "format"} /\ "put" # "out"
          OBVIOUS
      <4>. QED BY Zenon, <3>3, <4>1 DEF copy
    <3>4. CASE release(p)
      <4>1. "write" \notin {"out", "format"} /\ "write" # "out"
          OBVIOUS
      <4>. QED BY Zenon, <3>4, <4>1 DEF release, put
    <3>5. CASE skip(p)
        BY Zenon, <2>0, <3>5 DEF skip, put
    <3>6. CASE write(p)
        BY Zenon, <3>6 DEF write, Quiet
    <3>. QED BY Zenon, <3>1, <3>2, <3>3, <3>4, <3>5, <3>6 DEF log
  <2>4. PICK at, buf, msg :
          /\ logger' = [logger EXCEPT ![p] = At(at, buf, msg)]
          /\ at \in {"out", "format"} => msg = <<>>
          /\ at = "out" => buf = None
      BY Zenon, <2>3
  <2>5. /\ logger'[p] = At(at, buf, msg)
        /\ \A q \in Procs \ {p} : logger'[q] = logger[q]
      BY Zenon, <2>1, <2>4
  <2>6. At(at, buf, msg).at = at /\ At(at, buf, msg).msg = msg
      BY Zenon DEF At
  <2>. QED BY Zenon, <2>2, <2>4, <2>5, <2>6 DEF LogInv, LogTypes, Quiet
<1>3. CASE logger'[p].at = "out"
  <2>1. Past(p)
      BY Zenon, <1>3 DEF log
  <2>2. LockTypes' /\ Locks'
      BY Zenon, <1>1, <2>1, PassingPlain DEF ServingInv
  <2>3. \A q \in Procs \ {p} : path'[q] = path[q]
      BY Zenon, <1>1, <2>1, Passing DEF ServingInv
  <2>4. scrape[p].at = "out"
      BY <1>1 DEF ServingInv, AtWork
  <2>5. AtWork'
    <3>1. ASSUME NEW q \in Procs
          PROVE  /\ logger'[q].at \in {"out", "format"} => logger'[q].msg = <<>>
                 /\ logger'[q] # Quiet => path'[q] # <<>> /\ Head(path'[q]).op = "log"
                 /\ scrape'[q].at # "out" =>
                      path'[q] # <<>> /\ Head(path'[q]).op = "scrape"
      <4>1. CASE q = p
          BY Zenon, <1>1, <1>2, <1>3, <2>4, <4>1
      <4>2. CASE q # p
          BY Zenon, <1>1, <1>2, <2>3, <4>2 DEF ServingInv, AtWork
      <4>. QED BY Zenon, <4>1, <4>2
    <3>. QED BY Zenon, <3>1 DEF AtWork
  <2>. QED BY Zenon, <2>2, <2>5
<1>4. CASE logger'[p].at # "out"
  <2>1. path' = path
      BY Zenon, <1>4 DEF log
  <2>2. LockTypes' /\ Locks'
      BY Zenon, <1>1, <2>1 DEF ServingInv, LockTypes, Locks, Has
  <2>3. AtWork'
      BY Zenon, <1>1, <1>2, <2>1 DEF ServingInv, AtWork
  <2>. QED BY Zenon, <2>2, <2>3
<1>. QED BY Zenon, <1>3, <1>4

\* A step of a scrape, which goes on, ends or panics.
LEMMA AtScrape ==
  ASSUME ServingInv, NEW p \in Procs, sample(p)
  PROVE  LockTypes' /\ Locks' /\ AtWork'
<1>1. /\ path[p] # <<>> /\ Head(path[p]).op = "scrape"
      /\ UNCHANGED <<readers, writer, stuck, started, logger>>
    BY Zenon DEF sample, Next1, logVars
<1>2. \A q \in Procs \ {p} : scrape'[q] = scrape[q]
    BY DEF sample, Scrapes, writeRuntimeMetrics, make, name, read, range,
           writeSample, torn, Go, ServingInv, ScrapeInv, ScrapeTypes
<1>3. logger[p] = Quiet
    BY <1>1 DEF ServingInv, AtWork
<1>4. CASE scrape'[p].at # "out"
  <2>1. ~Finished(p)'
    <3>1. [Next]_allVars
        BY Zenon DEF Next, Run
    <3>2. scrape'[p].index \in All
        BY Zenon, <1>4, <3>1, ScrapeNext DEF ServingInv, ScrapeInv, Placed
    <3>. QED BY <3>2, ScrapeAssumption DEF Finished, All
  <2>2. path' = path
      BY <1>4, <2>1 DEF sample
  <2>3. LockTypes' /\ Locks'
      BY Zenon, <1>1, <2>2 DEF ServingInv, LockTypes, Locks, Has
  <2>4. AtWork'
      BY Zenon, <1>1, <1>2, <2>2 DEF ServingInv, AtWork
  <2>. QED BY Zenon, <2>3, <2>4
<1>5. CASE scrape'[p].at = "out"
  <2>1. Past(p) \/ path' = [path EXCEPT ![p] = <<>>]
      BY <1>5 DEF sample, Past
  <2>2. path[p] \in Seq(Ops) /\ Orderly(path[p])
      BY Zenon DEF ServingInv, LockTypes, Locks
  <2>3. \A b \in Kinds, t \in Tables : ~Owes(path[p], 0, b, t)
    <3>. SUFFICES ASSUME NEW b \in Kinds, NEW t \in Tables
                  PROVE  ~Owes(path[p], 0, b, t)
        OBVIOUS
    <3>1. PICK e : e = Head(path[p]) /\ e.op = "scrape"
        BY Zenon, <1>1
    <3>2. e # Give(b, t) /\ ~Under(e, b, t)
        BY <3>1 DEF Under, Take, Give, Use, Op
    <3>3. Owes(path[p], 0, b, t) =>
            \/ Head(path[p]) = Give(b, t)
            \/ Head(path[p]) # Take(b, t) /\ Under(Head(path[p]), b, t)
        BY Zenon, <1>1, <2>2, OrderlyTail
    <3>. QED BY Zenon, <3>1, <3>2, <3>3
  <2>4. LockTypes' /\ Locks' /\ \A q \in Procs \ {p} : path'[q] = path[q]
    <3>1. CASE Past(p)
        BY Zenon, <1>1, <3>1, Passing, PassingPlain DEF ServingInv
    <3>2. CASE path' = [path EXCEPT ![p] = <<>>]
      <4>1. started' \in 0..MaxRequests
          BY Zenon, <1>1 DEF ServingInv, LockTypes
      <4>2. \A q \in Procs \ {p} : path'[q] = path[q]
          BY Zenon, <3>2 DEF ServingInv, LockTypes
      <4>. QED BY Zenon, <1>1, <2>3, <3>2, <4>1, <4>2, NewPath, Pieces DEF ServingInv
    <3>. QED BY Zenon, <2>1, <3>1, <3>2
  <2>5. AtWork'
    <3>1. ASSUME NEW q \in Procs
          PROVE  /\ logger'[q].at \in {"out", "format"} => logger'[q].msg = <<>>
                 /\ logger'[q] # Quiet => path'[q] # <<>> /\ Head(path'[q]).op = "log"
                 /\ scrape'[q].at # "out" =>
                      path'[q] # <<>> /\ Head(path'[q]).op = "scrape"
      <4>1. CASE q = p
          BY Zenon, <1>1, <1>3, <1>5, <4>1 DEF ServingInv, AtWork
      <4>2. CASE q # p
          BY Zenon, <1>1, <1>2, <2>4, <4>2 DEF ServingInv, AtWork
      <4>. QED BY Zenon, <4>1, <4>2
    <3>. QED BY Zenon, <3>1 DEF AtWork
  <2>. QED BY Zenon, <2>4, <2>5
<1>. QED BY Zenon, <1>4, <1>5

\* Nobody moves.
LEMMA SameLocks ==
  ASSUME LockTypes, Locks, AtWork, stuck' \subseteq Procs,
         UNCHANGED <<path, readers, writer, started, logger, scrape>>
  PROVE  LockTypes' /\ Locks' /\ AtWork'
<1>1. LockTypes'
    BY Zenon DEF LockTypes
<1>2. \A q \in Procs, b \in Kinds, u \in Tables : Has(q, b, u)' <=> Has(q, b, u)
    BY Zenon DEF Has
<1>3. Locks'
    BY Zenon, <1>2 DEF Locks
<1>4. AtWork'
    BY Zenon DEF AtWork
<1>. QED BY Zenon, <1>1, <1>3, <1>4

\* Who is stuck stays where it is.
LEMMA StalledNext ==
  ASSUME LockTypes, Stalled, [Next]_allVars
  PROVE  Stalled'
<1>1. ASSUME NEW p \in Procs, NEW h, path' = [path EXCEPT ![p] = h],
             p \notin stuck, stuck' = stuck
      PROVE  Stalled'
  <2>1. \A q \in stuck : q \in Procs /\ q # p
      BY Zenon, <1>1 DEF LockTypes
  <2>2. \A q \in stuck : path'[q] = path[q]
      BY Zenon, <1>1, <2>1 DEF LockTypes
  <2>. QED BY Zenon, <1>1, <2>2 DEF Stalled
<1>2. ASSUME UNCHANGED <<path, stuck>> PROVE Stalled'
    BY Zenon, <1>2 DEF Stalled
<1>3. UNCHANGED allVars => UNCHANGED <<path, stuck>>
    BY Zenon DEF allVars, serveVars
<1>4. ASSUME NEW p \in Procs, arrive(p) PROVE Stalled'
  <2>1. p \notin stuck /\ stuck' = stuck
      BY Zenon, <1>4 DEF arrive, Stalled
  <2>. QED BY Zenon, <1>1, <1>4, <2>1 DEF arrive
<1>5. ASSUME NEW p \in Procs, Run(p) PROVE Stalled'
  <2>1. p \notin stuck /\ stuck' = stuck
      BY <1>5 DEF Run, rlock, runlock, lock, unlock, proceed, log, sample,
                  Looks, Changes, Next1
  <2>2. CASE Past(p)
      BY Zenon, <1>1, <2>1, <2>2 DEF Past
  <2>3. CASE ~Past(p)
    <3>1. log(p) \/ sample(p)
        BY Zenon, <1>5, <2>3 DEF Run, rlock, runlock, lock, unlock, proceed
    <3>2. path' = path \/ path' = [path EXCEPT ![p] = <<>>]
        BY <2>3, <3>1 DEF log, sample, Past
    <3>. QED BY Zenon, <1>1, <1>2, <2>1, <3>2
  <2>. QED BY Zenon, <2>2, <2>3
<1>6. ASSUME NEW p \in Procs, stall(p) PROVE Stalled'
  <2>1. /\ path' = path /\ stuck' = stuck \cup {p}
        /\ path[p] # <<>> /\ Head(path[p]).op \in {"client", "etcd"}
      BY Zenon, <1>6 DEF stall, Next1
  <2>. QED BY Zenon, <2>1 DEF Stalled
<1>. QED BY Zenon, <1>2, <1>3, <1>4, <1>5, <1>6 DEF Next

\* All steps together.
LEMMA ServingNext ==
  ASSUME ServingInv, [Next]_allVars
  PROVE  ServingInv'
<1>1. LogInv' /\ ScrapeInv'
    BY Zenon, LogSteps, LogKept, ScrapeNext DEF ServingInv
<1>2. ASSUME UNCHANGED allVars PROVE LockTypes' /\ Locks' /\ AtWork'
  <2>1. UNCHANGED <<path, readers, writer, stuck, started, logger, scrape>>
      BY Zenon, <1>2 DEF allVars, serveVars, logVars, scrapeVars
  <2>2. stuck' \subseteq Procs
      BY Zenon, <2>1 DEF ServingInv, LockTypes
  <2>. QED BY Zenon, <2>1, <2>2, SameLocks DEF ServingInv
<1>3. ASSUME NEW p \in Procs, arrive(p) PROVE LockTypes' /\ Locks' /\ AtWork'
  <2>1. PICK h \in Handlers : path' = [path EXCEPT ![p] = h]
      BY Zenon, <1>3 DEF arrive
  <2>2. Whole(h)
      BY Zenon, HandlersWhole
  <2>3. \A b \in Kinds, t \in Tables : ~Owes(path[p], 0, b, t)
      BY Zenon, <1>3, Pieces DEF arrive, Whole
  <2>4. started' \in 0..MaxRequests
      BY <1>3, ServingAssumption DEF arrive, ServingInv, LockTypes
  <2>5. /\ UNCHANGED <<readers, writer, stuck, logger, scrape>> /\ path[p] = <<>>
        /\ \A q \in Procs \ {p} : path'[q] = path[q]
      BY Zenon, <1>3, <2>1
         DEF arrive, logVars, scrapeVars, ServingInv, LockTypes
  <2>6. LockTypes' /\ Locks'
      BY Zenon, <2>1, <2>2, <2>3, <2>4, <2>5, NewPath DEF ServingInv
  <2>7. AtWork'
      BY Zenon, <2>5, Elsewhere DEF ServingInv
  <2>. QED BY Zenon, <2>6, <2>7
<1>4. ASSUME NEW p \in Procs, rlock(p) \/ runlock(p) \/ lock(p) \/ unlock(p)
      PROVE  LockTypes' /\ Locks' /\ AtWork'
  <2>1. LockTypes' /\ Locks'
      BY ZenonT(30), <1>4, LockSteps DEF ServingInv
  <2>2. /\ path[p] # <<>> /\ Past(p) /\ UNCHANGED <<logger, scrape>>
        /\ Head(path[p]).op \notin {"log", "scrape"}
      BY <1>4 DEF rlock, runlock, lock, unlock, Next1, logVars, scrapeVars
  <2>3. \A q \in Procs \ {p} : path'[q] = path[q]
      BY Zenon, <2>2, Passing DEF ServingInv
  <2>. QED BY Zenon, <2>1, <2>2, <2>3, Elsewhere DEF ServingInv
<1>5. ASSUME NEW p \in Procs, proceed(p) PROVE LockTypes' /\ Locks' /\ AtWork'
  <2>1. /\ path[p] # <<>> /\ Past(p)
        /\ UNCHANGED <<readers, writer, stuck, started, logger, scrape>>
        /\ Head(path[p]).op \in {"look", "change", "client", "etcd"}
      BY Zenon, <1>5 DEF proceed, Looks, Changes, Next1, logVars, scrapeVars
  <2>2. LockTypes' /\ Locks' /\ \A q \in Procs \ {p} : path'[q] = path[q]
    <3>1. LockTypes /\ Locks
        BY Zenon DEF ServingInv
    <3>2. LockTypes' /\ Locks'
        BY Zenon, <2>1, <3>1, PassingPlain
    <3>3. \A q \in Procs \ {p} : path'[q] = path[q]
        BY ZenonT(30), <2>1, <3>1, Passing
    <3>. QED BY Zenon, <3>2, <3>3
  <2>3. Head(path[p]).op \notin {"log", "scrape"}
      BY Zenon, <2>1
  <2>4. LockTypes /\ AtWork
      BY Zenon DEF ServingInv
  <2>5. AtWork'
      BY Zenon, <2>1, <2>2, <2>3, <2>4, Elsewhere
  <2>. QED BY ZenonT(30), <2>2, <2>5
<1>6. ASSUME NEW p \in Procs, stall(p) PROVE LockTypes' /\ Locks' /\ AtWork'
  <2>1. UNCHANGED <<path, readers, writer, started, logger, scrape>>
      BY Zenon, <1>6 DEF stall, logVars, scrapeVars
  <2>2. stuck' \subseteq Procs
      BY Zenon, <1>6 DEF stall, ServingInv, LockTypes
  <2>. QED BY Zenon, <2>1, <2>2, SameLocks DEF ServingInv
<1>7. LockTypes' /\ Locks' /\ AtWork'
    BY Zenon, <1>2, <1>3, <1>4, <1>5, <1>6, AtLog, AtScrape DEF Next, Run
<1>8. Stalled'
    BY Zenon, StalledNext DEF ServingInv
<1>. QED BY Zenon, <1>1, <1>7, <1>8 DEF ServingInv

\* Holds initially.
LEMMA ServingInit == Init => ServingInv
<1> SUFFICES ASSUME Init PROVE ServingInv
    BY Zenon
<1> USE GoroutinesAssumption, ServingAssumption
<1>1. LogInv /\ ScrapeInv
    BY Zenon, LogInitInv, ScrapeInitInv DEF Init
<1>2. LockTypes
    BY DEF Init, LockTypes
<1>3. Locks
  <2>1. \A p \in Procs : path[p] = <<>>
      BY Zenon DEF Init
  <2>2. \A p \in Procs, b \in Kinds, t \in Tables : ~Has(p, b, t)
      BY Zenon DEF Init, Has
  <2>. QED BY Zenon, <2>1, <2>2, Pieces DEF Whole, Locks
<1>4. AtWork
  <2>1. \A p \in Procs : logger[p] = Quiet /\ scrape[p] = Away
      BY Zenon DEF Init, newBufPool, ScrapeInit
  <2>2. Quiet.msg = <<>> /\ Away.at = "out"
      BY Zenon DEF Quiet, At, Away
  <2>. QED BY Zenon, <2>1, <2>2 DEF AtWork
<1>5. Stalled
    BY Zenon DEF Init, Stalled
<1>. QED BY Zenon, <1>1, <1>2, <1>3, <1>4, <1>5 DEF ServingInv

\* The invariant of an instance gives what it promises.
LEMMA ServingSafe == ServingInv => ServingTypeOK /\ NoRace
<1> SUFFICES ASSUME ServingInv PROVE ServingTypeOK /\ NoRace
    BY Zenon
<1>1. ServingTypeOK
  <2>1. ASSUME NEW p \in Procs, path[p] = <<>>
        PROVE  /\ logger[p] = Quiet /\ scrape[p].at = "out"
               /\ \A t \in Tables : p \notin readers[t] /\ p # writer[t]
    <3>1. \A b \in Kinds, t \in Tables : ~Has(p, b, t)
        BY Zenon, <2>1, Pieces DEF ServingInv, Locks, Whole
    <3>2. \A t \in Tables : ~Has(p, "read", t) /\ ~Has(p, "write", t)
        BY Zenon, <3>1 DEF Kinds
    <3>3. \A t \in Tables : p \notin readers[t] /\ p # writer[t]
        BY <3>2 DEF Has
    <3>. QED BY Zenon, <2>1, <3>3 DEF ServingInv, AtWork
  <2>. QED BY Zenon, <2>1 DEF ServingInv, LockTypes, ServingTypeOK
<1>2. ASSUME NEW p \in Procs, NEW t \in Tables,
             Next1(p, "look") \/ Next1(p, "change"), On(p) = t
      PROVE  IF Next1(p, "look") THEN p \in readers[t] ELSE p = writer[t]
  <2>1. PICK b \in Kinds : Head(path[p]).op = Use(b, t).op
                           /\ (b = "read" <=> Next1(p, "look"))
      BY <1>2 DEF Kinds, Use, Op, Next1
  <2>2. path[p] \in Seq(Ops) /\ Orderly(path[p]) /\ path[p] # <<>>
      BY Zenon, <1>2 DEF ServingInv, LockTypes, Locks, Next1
  <2>3. 1 \in 1..Len(path[p]) /\ Head(path[p]) = path[p][1] /\ Head(path[p]) \in Ops
      BY <2>2, HeadTail
  <2>4. Head(path[p]) = Use(b, t)
      BY <1>2, <2>1, <2>3 DEF Ops, Op, Use, On
  <2>5. Owes(path[p], 1, b, t)
      BY Zenon, <2>2, <2>3, <2>4 DEF Orderly
  <2>6. Owes(path[p], 0, b, t)
    <3>1. Use(b, t) # Take(b, t) /\ Use(b, t) # Give(b, t)
        BY DEF Use, Take, Give, Op
    <3>2. path[p][1] \notin {Take(b, t), Give(b, t)}
        BY Zenon, <2>3, <2>4, <3>1
    <3>. QED BY Zenon, <2>2, <2>5, <3>2, OwesHead
  <2>7. Has(p, b, t)
      BY Zenon, <2>6 DEF ServingInv, Locks
  <2>. QED BY Zenon, <2>1, <2>7 DEF Has
<1>3. NoRace
  <2>1. SUFFICES ASSUME NEW p \in Procs, NEW q \in Procs, NEW t \in Tables,
                        p # q, Changes(p, t)
                 PROVE  ~Looks(q, t) /\ ~Changes(q, t)
      BY Zenon DEF NoRace
  <2>2. Next1(p, "change") /\ On(p) = t /\ ~Next1(p, "look")
      BY <2>1 DEF Changes, Next1
  <2>3. p = writer[t] /\ readers[t] = {}
      BY Zenon, <1>2, <2>1, <2>2 DEF Changes
  <2>4. ~Looks(q, t)
      BY Zenon, <1>2, <2>3 DEF Looks
  <2>5. ASSUME Changes(q, t) PROVE FALSE
    <3>1. Next1(q, "change") /\ On(q) = t /\ ~Next1(q, "look")
        BY <2>5 DEF Changes, Next1
    <3>. QED BY Zenon, <1>2, <2>1, <2>3, <3>1
  <2>. QED BY Zenon, <2>4, <2>5
<1>. QED BY Zenon, <1>1, <1>3

\* Who has a lock gives it back, uses it or logs, or writes a list to its client.
LEMMA Holder ==
  ASSUME ServingInv, NEW p \in Procs, NEW b \in Kinds, NEW t \in Tables,
         Has(p, b, t)
  PROVE  /\ path[p] # <<>>
         /\ \/ Head(path[p]) \in {Give(b, t), Use(b, t)}
            \/ Head(path[p]).op = "log"
            \/ Head(path[p]).op = "client" /\ b = "read" /\ t = "ip"
<1>1. path[p] \in Seq(Ops) /\ Orderly(path[p]) /\ Owes(path[p], 0, b, t)
    BY Zenon DEF ServingInv, LockTypes, Locks
<1>2. path[p] # <<>>
    BY Zenon, <1>1, Pieces DEF Whole
<1>3. \/ Head(path[p]) = Give(b, t)
      \/ Head(path[p]) # Take(b, t) /\ Under(Head(path[p]), b, t)
    BY Zenon, <1>1, <1>2, OrderlyTail
<1>. QED BY Zenon, <1>2, <1>3 DEF Under

\* A reader of a table does not wait for a lock, and if it is stuck it is a list.
LEMMA ReaderFree ==
  ASSUME ServingInv, NEW p \in Procs, NEW t \in Tables, p \in readers[t]
  PROVE  /\ path[p] # <<>> /\ ~Waits(p)
         /\ p \in stuck => t = "ip" /\ Head(path[p]).op = "client"
<1>1. "read" \in Kinds /\ Has(p, "read", t)
    BY DEF Kinds, Has
<1>2. /\ path[p] # <<>>
      /\ \/ Head(path[p]) \in {Give("read", t), Use("read", t)}
         \/ Head(path[p]).op = "log"
         \/ Head(path[p]).op = "client" /\ t = "ip"
    BY Zenon, <1>1, Holder
<1>3. /\ Head(path[p]).op \in {"runlock", "look", "log", "client"}
      /\ Head(path[p]).op = "client" => t = "ip"
    BY <1>2 DEF Give, Use, Op
<1>4. Head(path[p]).op \notin {"rlock", "lock", "change", "etcd"}
    BY <1>3
<1>5. ~Waits(p)
    BY Zenon, <1>4 DEF Waits, Next1
<1>6. p \in stuck => Head(path[p]).op \in {"client", "etcd"}
    BY Zenon DEF ServingInv, Stalled
<1>. QED BY Zenon, <1>2, <1>3, <1>4, <1>5, <1>6

\* A writer waits for the readers of its table alone, and is never stuck.
LEMMA WriterFree ==
  ASSUME ServingInv, NEW p \in Procs, NEW t \in Tables, p = writer[t]
  PROVE  /\ path[p] # <<>> /\ p \notin stuck
         /\ Waits(p) => readers[t] # {}
<1>1. "write" \in Kinds /\ Has(p, "write", t) /\ "write" # "read"
    BY DEF Kinds, Has
<1>2. /\ path[p] # <<>>
      /\ \/ Head(path[p]) \in {Give("write", t), Use("write", t)}
         \/ Head(path[p]).op = "log"
    BY Zenon, <1>1, Holder
<1>3. /\ Head(path[p]).op \in {"unlock", "change", "log"}
      /\ Head(path[p]).op = "change" => On(p) = t
    BY <1>2 DEF Give, Use, Op, On
<1>4. Head(path[p]).op \notin {"rlock", "lock", "client", "etcd"}
    BY <1>3
<1>5. Waits(p) => readers[t] # {}
    BY Zenon, <1>3, <1>4 DEF Waits, Next1
<1>6. p \in stuck => Head(path[p]).op \in {"client", "etcd"}
    BY Zenon DEF ServingInv, Stalled
<1>. QED BY Zenon, <1>2, <1>4, <1>5, <1>6

\* So there is no circle.
LEMMA ServingFree == ServingInv => NoDeadlock
<1>. SUFFICES ASSUME ServingInv, NEW p \in Procs, Waits(p)
              PROVE  \E q \in Procs :
                       /\ q = writer[On(p)] \/ q \in readers[On(p)]
                       /\ path[q] # <<>> /\ ~Waits(q)
                       /\ q \in stuck =>
                            On(p) = "ip" /\ Head(path[q]).op = "client"
    BY Zenon DEF NoDeadlock
<1>1. PICK t \in Tables : t = On(p)
  <2>1. path[p] # <<>> /\ Head(path[p]).op \in {"rlock", "lock", "change"}
      BY Zenon DEF Waits, Next1
  <2>2. path[p] \in Seq(Ops)
      BY Zenon DEF ServingInv, LockTypes
  <2>3. Head(path[p]) \in Ops
      BY Zenon, <2>1, <2>2, HeadTail
  <2>. QED BY <2>1, <2>3 DEF Ops, On
<1>2. readers[t] \subseteq Procs /\ writer[t] \in Procs \cup {None}
    BY Zenon DEF ServingInv, LockTypes
<1>3. CASE readers[t] # {}
  <2>1. PICK q \in Procs : q \in readers[t]
      BY Zenon, <1>2, <1>3
  <2>. QED BY Zenon, <1>1, <2>1, ReaderFree
<1>4. CASE readers[t] = {}
  <2>1. PICK q \in Procs : q = writer[t]
      BY Zenon, <1>1, <1>2, <1>4 DEF Waits
  <2>. QED BY Zenon, <1>1, <1>4, <2>1, WriterFree
<1>. QED BY Zenon, <1>3, <1>4

\* For any number of goroutines and requests, in every configuration: no
\* goroutine reads or writes the map of a table while another one writes it,
\* and a goroutine at its end has given back its buffer and its locks.
THEOREM ServingCorrect == Spec => [](ServingTypeOK /\ NoRace)
  BY ServingInit, ServingNext, ServingSafe, PTL DEF Spec

\* The same for any number of goroutines: the locks and the scratch buffers are
\* held by goroutines that are at work, and by none that has come to its end.
THEOREM ServingTypeCorrect == Spec => []ServingTypeOK
  BY ServingCorrect, PTL

\* For any number of goroutines and requests, in every configuration: who waits
\* for a table waits for one that has it and waits for no lock itself, and that
\* is stuck only as a list with its client.
THEOREM DeadlockFree == Spec => []NoDeadlock
  BY ServingInit, ServingNext, ServingFree, PTL DEF Spec
=============================================================================
