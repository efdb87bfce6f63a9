------------------------------ MODULE Serving ------------------------------
(***************************************************************************)
(* The goroutines of one instance and what they wait for: the locks of the *)
(* two tables, clients, etcd, the log and each other's scrapes.            *)
(*                                                                         *)
(* A goroutine is the sequence of operations it has left.  A handler is    *)
(* given by the paths it can take, from its first lock, write or log line  *)
(* to its return; which path a request takes depends on data that is left  *)
(* out here (module Blocklist has it).                                     *)
(***************************************************************************)
EXTENDS Log, Scrape, FiniteSets

CONSTANTS
  Configs,      \* bound: the configurations the instance may start with
  MaxRequests   \* bound: requests and background goroutines started

Tables == {"ip", "cidr"}

ASSUME ServingAssumption ==
  Configs \subseteq BOOLEAN \X BOOLEAN \X BOOLEAN /\ MaxRequests \in Nat

VARIABLES
  gMultiInstanceMode,
  gLogJSON, \* the log is in JSON
  debug,    \* gLogLevel is LOG_DEBUG, and LOG_INFO otherwise
  path,     \* per goroutine: the operations it has left
  readers,  \* per table: who has it locked for reading
  writer,   \* per table: who has it locked for writing or waits for the
            \*   readers to leave
  stuck,    \* goroutines whose client or etcd never answers
  started   \* requests and background goroutines so far

config    == <<gMultiInstanceMode, gLogJSON, debug>>
serveVars == <<path, readers, writer, stuck, started>>
allVars   == <<config, logVars, scrapeVars, serveVars>>

----------------------------------------------------------------------------
(* Paths                                                                   *)

Op(op, on) == [op |-> op, on |-> on]

Reading(t) == <<Op("rlock", t), Op("look", t), Op("runlock", t)>>
Writing(t) == <<Op("lock", t), Op("change", t), Op("unlock", t)>>

\* The handlers write memory in single-instance mode only.
Memory(t) == IF gMultiInstanceMode THEN <<>> ELSE Writing(t)

\* A request to etcd, and the two for an address and its PTR record.
Etcd(t) ==
  <<Op("etcd", t)>> \o (IF t = "ip" THEN <<Op("etcd", t)>> ELSE <<>>)

\* What is written to the client.
Reply == <<Op("client", None)>>

\* logHttpReq and logDnsReq; logMsg does nothing for a level that is off.
logReq   == <<Op("log", "request")>>
logInfo  == <<Op("log", "line")>>
logDebug == IF debug THEN logInfo ELSE <<>>

Answer == Reply \o logReq

\* Mutant: the length of the table is taken under a lock of its own.
handleListMutant ==
  {<<Op("rlock", "ip")>> \o Reading("ip") \o Reply \o l \o
      <<Op("runlock", "ip")>> : l \in {logReq, logDebug}}

\* Mutant: an empty list is answered without the unlock.
handleListMutant2 ==
  {<<Op("rlock", "ip"), Op("look", "ip")>> \o Answer,
   <<Op("rlock", "ip"), Op("look", "ip")>> \o Reply \o logDebug \o
      <<Op("runlock", "ip")>>}

\* The table stays locked until the client has the list, which may be empty,
\* and the line is logged.
handleList ==
  {<<Op("rlock", "ip"), Op("look", "ip")>> \o Reply \o l \o
      <<Op("runlock", "ip")>> : l \in {logReq, logDebug}}

\* The address and, if it is not blocked, the networks.
Search == {Reading("ip"), Reading("ip") \o Reading("cidr")}

handleLookup == {Answer} \cup {s \o Answer : s \in Search}

\* An address that is not blocked is logged before the reply.
handleAuth ==
  {Answer} \cup {s \o Answer : s \in Search}
    \cup {s \o logReq \o Reply : s \in Search}

\* handlePut and handlePutNetwork: the address or network is rejected, or its
\* block is looked for and then a parameter is rejected.
handlePut(t) ==
  {Answer, Reading(t) \o Answer, Reading(t) \o Etcd(t) \o Memory(t) \o Answer}

\* handleDelete and handleDeleteNetwork.
handleDelete(t) == {Answer, Etcd(t) \o Memory(t) \o Answer}

\* A query without question, a refused or malformed one, and one for an address;
\* a second question is logged and left alone.
handleDNSRequest ==
  {Reply} \cup {l \o s \o Answer : l \in {<<>>, logInfo},
                                     s \in {<<>>, Reading("ip")}}

\* Mutant: the length of the table is taken without its lock.
metricsHandlerMutant == {<<Op("look", "ip"), Op("scrape", None)>> \o Reply}

\* ipTableLen and the runtime metrics.  What was written is sent at the end,
\* and before that when it does not fit the buffer.
metricsHandler ==
  {Reading("ip") \o r \o <<Op("scrape", None)>> \o Reply : r \in {<<>>, Reply}}

\* Health, readiness and liveness on the metrics port, and handleHealth.
healthHandler == {logDebug \o Reply, Reply}

\* An unknown path, on the metrics port and elsewhere.
notFoundHandler == {Reply, logReq \o Reply}

\* Lazy expiry of one entry, and a round of the worker up to and from the etcd
\* requests for one entry.
expiry(t) ==
  {Etcd(t) \o Memory(t) \o logInfo, Reading(t),
   Etcd(t) \o Writing(t) \o logInfo}

\* One event at each watch loop: dropped, a deletion, or an update, which the
\* address loop reports by two lines.
watchEvent ==
  IF gMultiInstanceMode
    THEN {logInfo \o more : more \in {<<>>, logInfo, Writing("ip"),
                                      logInfo \o Writing("ip")}}
    ELSE {}

cidrWatchEvent ==
  IF gMultiInstanceMode THEN {logInfo, Writing("cidr") \o logInfo} ELSE {}

\* The bouncer collects stale entries, rejects a reply or a decision, applies a
\* decision, or removes a stale entry or a deleted decision.
bounce(t) ==
  {Reading(t), logInfo, Reading(t) \o Etcd(t) \o Memory(t) \o logDebug}
    \cup {Etcd(t) \o Memory(t) \o l : l \in {logInfo, logDebug}}

Handlers ==
  handleList \cup handleLookup \cup handleAuth \cup handleDNSRequest
    \cup metricsHandler \cup healthHandler \cup notFoundHandler
    \cup watchEvent \cup cidrWatchEvent
    \cup UNION {handlePut(t) \cup handleDelete(t) \cup expiry(t)
                   \cup bounce(t) : t \in Tables}

----------------------------------------------------------------------------
(* Operations                                                              *)

Init ==
  /\ \E c \in Configs :
       gMultiInstanceMode = c[1] /\ gLogJSON = c[2] /\ debug = c[3]
  /\ newBufPool /\ ScrapeInit
  /\ path = [p \in Procs |-> <<>>]
  /\ readers = [t \in Tables |-> {}]
  /\ writer = [t \in Tables |-> None]
  /\ stuck = {}
  /\ started = 0

Next1(p, op) == path[p] # <<>> /\ Head(path[p]).op = op /\ p \notin stuck
On(p)   == Head(path[p]).on
Past(p) == path' = [path EXCEPT ![p] = Tail(@)]

\* A request arrives, or a background goroutine gets to work.
arrive(p) ==
  /\ path[p] = <<>> /\ started < MaxRequests
  /\ started' = started + 1
  /\ \E h \in Handlers : path' = [path EXCEPT ![p] = h]
  /\ UNCHANGED <<config, logVars, scrapeVars, readers, writer, stuck>>

\* sync.RWMutex: a writer that waits holds up new readers.
rlock(p) ==
  /\ Next1(p, "rlock") /\ writer[On(p)] = None
  /\ readers' = [readers EXCEPT ![On(p)] = @ \cup {p}]
  /\ Past(p)
  /\ UNCHANGED <<config, logVars, scrapeVars, writer, stuck, started>>

runlock(p) ==
  /\ Next1(p, "runlock")
  /\ readers' = [readers EXCEPT ![On(p)] = @ \ {p}]
  /\ Past(p)
  /\ UNCHANGED <<config, logVars, scrapeVars, writer, stuck, started>>

\* A writer waits for other writers, then for the readers.
lock(p) ==
  /\ Next1(p, "lock") /\ writer[On(p)] = None
  /\ writer' = [writer EXCEPT ![On(p)] = p]
  /\ Past(p)
  /\ UNCHANGED <<config, logVars, scrapeVars, readers, stuck, started>>

unlock(p) ==
  /\ Next1(p, "unlock")
  /\ writer' = [writer EXCEPT ![On(p)] = None]
  /\ Past(p)
  /\ UNCHANGED <<config, logVars, scrapeVars, readers, stuck, started>>

\* Is p reading or writing the map of table t?
Looks(p, t)   == Next1(p, "look") /\ On(p) = t
Changes(p, t) == Next1(p, "change") /\ On(p) = t
                   /\ (writer[t] = p => readers[t] = {})

\* The map of a table is read or written, or a client or etcd answers.
proceed(p) ==
  /\ \/ \E t \in Tables : Looks(p, t) \/ Changes(p, t)
     \/ Next1(p, "client") \/ Next1(p, "etcd")
  /\ Past(p)
  /\ UNCHANGED <<config, logVars, scrapeVars, readers, writer, stuck, started>>

\* A client stops reading, or etcd does not answer: no HTTP server and no request
\* to etcd has a time limit.
stall(p) ==
  /\ Next1(p, "client") \/ Next1(p, "etcd")
  /\ stuck' = stuck \cup {p}
  /\ UNCHANGED <<config, logVars, scrapeVars, path, readers, writer, started>>

\* A line is formatted, or given up, and written.
log(p) ==
  /\ Next1(p, "log")
  /\ \/ get(p) \/ copy(p) \/ release(p) \/ write(p)
     \/ IF On(p) = "line" \/ gLogJSON \/ debug THEN format(p) ELSE skip(p)
  /\ IF logger'[p].at = "out" THEN Past(p) ELSE UNCHANGED path
  /\ UNCHANGED <<config, scrapeVars, readers, writer, stuck, started>>

\* The runtime metrics; a panic ends the request.
sample(p) ==
  /\ Next1(p, "scrape")
  /\ writeRuntimeMetrics(p) \/ Scrapes(p)
  /\ path' = CASE scrape'[p].at # "out" -> path
               [] Finished(p)'          -> [path EXCEPT ![p] = Tail(@)]
               [] OTHER                 -> [path EXCEPT ![p] = <<>>]
  /\ UNCHANGED <<config, logVars, readers, writer, stuck, started>>

Run(p) ==
  \/ rlock(p) \/ runlock(p) \/ lock(p) \/ unlock(p)
  \/ proceed(p) \/ log(p) \/ sample(p)

Next == \E p \in Procs : arrive(p) \/ Run(p) \/ stall(p)

\* Go's scheduler runs every goroutine that can run.
Spec == Init /\ [][Next]_allVars /\ \A p \in Procs : WF_allVars(Run(p))

----------------------------------------------------------------------------
(* Properties                                                              *)

\* Types; and a goroutine at its end has given back its buffer and its locks.
ServingTypeOK ==
  /\ readers \in [Tables -> SUBSET Procs]
  /\ writer \in [Tables -> Procs \cup {None}]
  /\ stuck \subseteq Procs /\ started \in 0..MaxRequests
  /\ \A p \in Procs : path[p] = <<>> =>
       /\ logger[p] = Quiet /\ scrape[p].at = "out"
       /\ \A t \in Tables : p \notin readers[t] /\ p # writer[t]

\* No goroutine reads or writes the map of a table while another one writes it;
\* Go ends the process when that happens.
NoRace ==
  \A p, q \in Procs : \A t \in Tables :
    p # q /\ Changes(p, t) => ~Looks(q, t) /\ ~Changes(q, t)

\* Does p wait for a lock of the table it is about to use?
Waits(p) ==
  \/ (Next1(p, "rlock") \/ Next1(p, "lock")) /\ writer[On(p)] # None
  \/ Next1(p, "change") /\ writer[On(p)] = p /\ readers[On(p)] # {}

\* No circle of goroutines waits for each other's locks: who waits for a table
\* waits for one that has it, is not at its end and does not wait for a lock
\* itself.  That one goes on by itself, unless it is a list whose client does
\* not take it.
NoDeadlock ==
  \A p \in Procs : Waits(p) =>
    \E q \in Procs :
      /\ q = writer[On(p)] \/ q \in readers[On(p)]
      /\ path[q] # <<>> /\ ~Waits(q)
      /\ q \in stuck => On(p) = "ip" /\ Head(path[q]).op = "client"

\* Every request is answered and every goroutine comes to its end, whatever
\* others wait for, unless its own client or etcd keeps it waiting or the
\* client of a list does not take it: only handleList waits for someone with a
\* table locked.
Answered ==
  \A p \in Procs :
    path[p] # <<>> ~>
      \/ path[p] = <<>> \/ p \in stuck
      \/ \E q \in stuck : q \in readers["ip"]
=============================================================================
