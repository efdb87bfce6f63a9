----------------------------- MODULE Blocklist -----------------------------
(***************************************************************************)
(* The operations on the blocklist: the HTTP and DNS handlers, the two     *)
(* lazy-expiry goroutines and the expiration worker (src/src/main.go,      *)
(* cidr.go, dns.go), over etcd and the in-memory tables.                   *)
(*                                                                         *)
(* In single-instance mode an operation writes etcd and then memory; in    *)
(* multi-instance mode it writes etcd only and memory follows by           *)
(* replication, which is taken from its abstract specification, Replica.   *)
(*                                                                         *)
(* Every operation that changes the blocklist is a job: the request sent   *)
(* to etcd for the address, the one for its PTR record, and the update of  *)
(* memory are separate steps, and jobs interleave.                         *)
(***************************************************************************)
EXTENDS Replica, Integers

CONSTANTS
  MultiInstance,  \* gMultiInstanceMode
  Contains,       \* pairs of an address and a network it lies in
  Clients,        \* API requests that can be in progress at once
  Lazies,         \* bound: lazy-expiry goroutines alive at once
  Workers,        \* bound: instances whose expiration ticker fires
  MaxTime,        \* bound: the clock stops here
  Expirations,    \* bound: the expiration times clients ask for, 0 for never
  Sources,        \* bound: what a block can name as its source
  MaxRequests,    \* bound: requests that change the blocklist
  Faults          \* which faults may happen

Times == 1..MaxTime

\* Expiration times that can be stored: those clients ask for, which may lie
\* before the epoch, and those the bouncer computes from a duration.
Exps == Expirations \cup 0..2*MaxTime

ASSUME BlocklistAssumption ==
  /\ MultiInstance \in BOOLEAN
  /\ MultiInstance \/ \E i \in Instances : Instances = {i}
  /\ Contains \subseteq IPs \X Nets
  /\ Workers \subseteq Instances
  /\ MaxTime \in Nat \ {0} /\ MaxRequests \in Nat
  /\ Expirations \subseteq Int
  /\ Values = [first : Times, exp : Exps, src : Sources]
  /\ Faults \subseteq {"crash", "garbled", "etcd", "hang", "drop", "lapi"}

VARIABLES
  now,       \* time.Now().Unix(), the same for all instances
  up,        \* where main() is, per instance
  job,       \* what each client, lazy goroutine, worker and bouncer is doing
  sweep,     \* the expiration worker's round, per instance
  requests,  \* PUT and DELETE requests received so far
  dirty,     \* history: addresses whose last job overlapped another one on
             \*   the same address, or did not complete
  unread     \* history: addresses with a block that a failed load left out of
             \*   memory and no job put or removed there since, per instance

vars == <<hist, kv, table, pos, now, up, job, sweep, requests, dirty, unread>>

\* The worker of an instance goes by the instance's name.  Its bouncer's jobs
\* are started in module CrowdSec.
Bouncer(i) == <<"crowdsec", i>>
Procs == Clients \cup Lazies \cup Instances \cup {Bouncer(i) : i \in Instances}
Kinds == {"put", "delete", "lazy", "expire"}
NoJob == [kind |-> "delete", inst |-> NoEntry, a |-> NoEntry,
          rec |-> NoEntry, step |-> "done", clean |-> TRUE]
Resting == [phase |-> "wait", at |-> 0, todo |-> {}]

Init ==
  /\ etcdInit
  /\ ReplicaInit
  /\ now = 1
  /\ up = [i \in Instances |-> "down"]
  /\ job = [p \in Procs |-> NoJob]
  /\ sweep = [i \in Instances |-> Resting]
  /\ requests = 0
  /\ dirty = {}
  /\ unread = [i \in Instances |-> {}]

----------------------------------------------------------------------------
(* Entries and jobs                                                        *)

\* Mutant: a permanent block counts as expired.
ExpiredMutant(e, t) == e # NoEntry /\ e.val.exp <= t

Expired(e, t) == e # NoEntry /\ e.val.exp > 0 /\ e.val.exp <= t

Active(p) == job[p].step # "done"

Busy(a) == \E p \in Procs : Active(p) /\ job[p].a = a

\* Job j at another step.
Moved(j, step, clean) ==
  [kind |-> j.kind, inst |-> j.inst, a |-> j.a, rec |-> j.rec,
   step |-> step, clean |-> clean]

\* New jobs begin, as the function new says; jobs on the same address overlap.
Begin(new) ==
  LET merged   == [p \in Procs |-> IF p \in DOMAIN new THEN new[p] ELSE job[p]]
      On(a)    == {p \in Procs : merged[p].a = a /\ merged[p].step # "done"}
      Alone(p) == On(merged[p].a) \subseteq {p}
  IN job' = [p \in Procs |-> Moved(merged[p], merged[p].step,
                                    merged[p].clean /\ Alone(p))]

NewJob(kind, i, a, rec) ==
  [kind |-> kind, inst |-> i, a |-> a, rec |-> rec, step |-> "key",
   clean |-> TRUE]

\* The goroutine started for an expired entry of a, if e is one.
Lazy(i, a, e) ==
  IF Expired(e, now)
    THEN {[p \in {q} |-> NewJob("lazy", i, a, NoEntry)] :
            q \in {q \in Lazies : ~Active(q)}}
    ELSE {<<>>}

\* Merge of two functions with disjoint domains.
With(f, g) == [x \in DOMAIN f \cup DOMAIN g |->
                 IF x \in DOMAIN f THEN f[x] ELSE g[x]]

Record(first, exp, src) == [first |-> first, exp |-> exp, src |-> src]

\* first_seen of a block that is put: that of the unexpired block of an
\* address, or of any entry of a network, expired or not.
FirstSeen(i, a) ==
  LET e == table[i][a] IN
  IF e = NoEntry \/ (a \in IPs /\ Expired(e, now)) THEN now ELSE e.val.first

----------------------------------------------------------------------------
(* Arrival of a request: everything up to the first etcd write             *)

Request(p, i) ==
  /\ p \in Clients
  /\ ~Active(p)
  /\ up[i] = "up"
  /\ requests < MaxRequests
  /\ requests' = requests + 1
  /\ UNCHANGED <<etcdVars, replicaVars, now, up, sweep, dirty, unread>>

\* Mutant: every PUT starts first_seen anew.
handlePutMutant(p, i, ip, exp, src) ==
  LET put == NewJob("put", i, ip, Record(now, exp, src)) IN
  /\ Request(p, i)
  /\ \E lazy \in Lazy(i, ip, table[i][ip]) :
       Begin(With([q \in {p} |-> put], lazy))

\* A PUT of an address looks for the block it replaces, which starts the lazy
\* expiry of an expired one.
handlePut(p, i, ip, exp, src) ==
  LET e   == table[i][ip]
      put == NewJob("put", i, ip, Record(FirstSeen(i, ip), exp, src))
  IN
  /\ Request(p, i)
  /\ \E lazy \in Lazy(i, ip, e) : Begin(With([q \in {p} |-> put], lazy))

\* A look for ip alone that only matters for the goroutine it may start.
ipTableLookup(i, ip) ==
  /\ up[i] = "up"
  /\ \E lazy \in Lazy(i, ip, table[i][ip]) : Begin(lazy)
  /\ UNCHANGED <<etcdVars, replicaVars, now, up, sweep, requests, dirty, unread>>

\* The parameters of a PUT are checked after its lookup.
handlePutRejected(i, ip) == ipTableLookup(i, ip)

\* A and PTR queries are answered from the addresses, never from the networks.
handleDNSRequest(i, ip) == ipTableLookup(i, ip)

\* A PUT of a network looks for an entry to replace and starts nothing.
handlePutNetwork(p, i, net, exp, src) ==
  /\ Request(p, i)
  /\ Begin([q \in {p} |->
              NewJob("put", i, net, Record(FirstSeen(i, net), exp, src))])

\* A DELETE looks at nothing before it writes.
handleDelete(p, i, ip) ==
  /\ Request(p, i)
  /\ Begin([q \in {p} |-> NewJob("delete", i, ip, NoEntry)])

handleDeleteNetwork(p, i, net) ==
  /\ Request(p, i)
  /\ Begin([q \in {p} |-> NewJob("delete", i, net, NoEntry)])

\* handleLookup and handleAuth: the address itself, then the first network in
\* the table that contains it.  Reads are not counted: they only matter for
\* the goroutines they start.
handleLookup(i, ip) ==
  LET e == table[i][ip]
      matching == {net \in Nets : <<ip, net>> \in Contains
                                    /\ table[i][net] # NoEntry}
      stops == e # NoEntry /\ ~Expired(e, now)
  IN
  /\ up[i] = "up"
  /\ \E lazy \in Lazy(i, ip, e) :
       IF stops \/ matching = {}
         THEN Begin(lazy)
         ELSE \E net \in matching :
                \E lazy2 \in Lazy(i, net, table[i][net]) :
                  /\ DOMAIN lazy \cap DOMAIN lazy2 = {}
                  /\ Begin(With(lazy, lazy2))
  /\ UNCHANGED <<etcdVars, replicaVars, now, up, sweep, requests, dirty, unread>>

----------------------------------------------------------------------------
(* The steps of a job                                                      *)

\* Mutant: no handler updates memory, as if replication always did.
AfterwardsMutant(p) == IF job[p].kind # "expire" THEN "done" ELSE "mem"

\* Mutant: handlers update memory in multi-instance mode, too.
AfterwardsMutant2(p) == "mem"

\* Memory is written by the job itself in single-instance mode, and by the
\* expiration worker in either mode.
Afterwards(p) ==
  IF MultiInstance /\ job[p].kind # "expire" THEN "done" ELSE "mem"

\* Mutant: only PUT looks after the PTR record.
NextStepMutant(p) ==
  IF job[p].step = "key" /\ job[p].a \in IPs /\ job[p].kind = "put"
    THEN "ptr" ELSE Afterwards(p)

\* Mutant: a network gets a PTR record, too.
NextStepMutant2(p) == IF job[p].step = "key" THEN "ptr" ELSE Afterwards(p)

\* A single address has a PTR record, a network has none.
NextStep(p) ==
  IF job[p].step = "key" /\ job[p].a \in IPs THEN "ptr" ELSE Afterwards(p)

\* The job moves on; when it is done its address is in step again, unless
\* another job got in between or a write was lost.
Advance(p, to, ok) ==
  LET clean == job[p].clean /\ ok
      a     == job[p].a
  IN
  /\ job' = [job EXCEPT ![p] =
               IF to = "done" /\ p \notin Clients
                 THEN NoJob ELSE Moved(job[p], to, clean)]
  /\ dirty' = IF to # "done" THEN dirty
              ELSE IF clean  THEN dirty \ {a}
              ELSE dirty \cup {a}

\* etcdPut, etcdDelete, etcdPutCIDR or etcdDeleteCIDR, and the next step.
persist(p) ==
  LET j    == job[p]
      key  == IF j.step = "key" THEN KeyOf(j.a) ELSE reverseKey(j.a)
      rec  == IF j.step = "key" THEN j.rec ELSE PtrRecord
  IN
  /\ j.step \in {"key", "ptr"}
  /\ IF j.kind = "put" THEN etcdPut(key, rec) ELSE etcdDelete(key)
  /\ Advance(p, NextStep(p), TRUE)
  /\ UNCHANGED <<replicaVars, now, up, sweep, requests, unread>>

\* The request to etcd fails: nothing comes of it, and the job goes on.
persistFails(p) ==
  /\ "etcd" \in Faults
  /\ job[p].step \in {"key", "ptr"}
  /\ Advance(p, NextStep(p), FALSE)
  /\ UNCHANGED <<etcdVars, replicaVars, now, up, sweep, requests, unread>>

\* The request is never answered, and http.Post waits without a limit.
persistHangs(p) ==
  /\ "hang" \in Faults
  /\ job[p].step \in {"key", "ptr"}
  /\ job' = [job EXCEPT ![p] = Moved(job[p], "hung", FALSE)]
  /\ dirty' = dirty \cup {job[p].a}
  /\ UNCHANGED <<etcdVars, replicaVars, now, up, sweep, requests, unread>>

\* Mutant: a PUT does not replace an entry that is already in memory.
applyMutant(p) ==
  LET j == job[p]
      e == IF j.kind # "put" THEN NoEntry
           ELSE IF table[j.inst][j.a] # NoEntry THEN table[j.inst][j.a]
           ELSE Entry(j.a, j.rec, 0)
  IN
  /\ j.step = "mem"
  /\ table' = [table EXCEPT ![j.inst][j.a] = e]
  /\ unread' = [unread EXCEPT ![j.inst] = @ \ {j.a}]
  /\ Advance(p, "done", TRUE)
  /\ UNCHANGED <<etcdVars, pos, now, up, sweep, requests>>

\* The update of ipTable or cidrTable under its lock.  The entry a PUT stores
\* has no revision.
apply(p) ==
  LET j == job[p] IN
  /\ j.step = "mem"
  /\ table' = [table EXCEPT ![j.inst][j.a] =
                 IF j.kind = "put" THEN Entry(j.a, j.rec, 0) ELSE NoEntry]
  /\ unread' = [unread EXCEPT ![j.inst] = @ \ {j.a}]
  /\ Advance(p, "done", TRUE)
  /\ UNCHANGED <<etcdVars, pos, now, up, sweep, requests>>

----------------------------------------------------------------------------
(* expirationWorker                                                        *)

\* The ticker fires: read the clock and collect the expired addresses.
tick(i) ==
  /\ i \in Workers /\ up[i] = "up"
  /\ sweep[i].phase = "wait"
  /\ sweep' = [sweep EXCEPT ![i] =
                 [phase |-> "ip", at |-> now,
                  todo |-> {a \in IPs : Expired(table[i][a], now)}]]
  /\ UNCHANGED <<etcdVars, replicaVars, now, up, job, requests, dirty, unread>>

\* Take the next collected address or network, whatever became of it since.
expireNext(i) ==
  /\ ~Active(i)
  /\ \E a \in sweep[i].todo :
       /\ Begin([p \in {i} |-> NewJob("expire", i, a, NoEntry)])
       /\ sweep' = [sweep EXCEPT ![i] =
                      [phase |-> sweep[i].phase, at |-> sweep[i].at,
                       todo |-> sweep[i].todo \ {a}]]
  /\ UNCHANGED <<etcdVars, replicaVars, now, up, requests, dirty, unread>>

\* Mutant: the round ends after the addresses.
turnMutant(i) ==
  /\ sweep[i].phase # "wait"
  /\ sweep[i].todo = {} /\ ~Active(i)
  /\ sweep' = [sweep EXCEPT ![i] = Resting]
  /\ UNCHANGED <<etcdVars, replicaVars, now, up, job, requests, dirty, unread>>

\* After the addresses the networks, by the same clock reading; then wait.
turn(i) ==
  /\ sweep[i].phase # "wait"
  /\ sweep[i].todo = {} /\ ~Active(i)
  /\ sweep' = [sweep EXCEPT ![i] =
       IF sweep[i].phase = "ip"
         THEN [phase |-> "cidr", at |-> sweep[i].at,
               todo |-> {a \in Nets : Expired(table[i][a], sweep[i].at)}]
         ELSE Resting]
  /\ UNCHANGED <<etcdVars, replicaVars, now, up, job, requests, dirty, unread>>

----------------------------------------------------------------------------
(* Time, start and end of an instance, replication                         *)

clock ==
  /\ now < MaxTime
  /\ now' = now + 1
  /\ UNCHANGED <<etcdVars, replicaVars, up, job, sweep, requests, dirty, unread>>

\* One table is filled.  etcdRange ignores the status and the decoding error of
\* the reply, so that an error body reads as no keys; loadCIDRFromEtcd also goes
\* on after a transport error.  (After one, loadFromEtcd ends the process.)
Load(i, w) ==
  \/ LoadAll(i, w) /\ UNCHANGED unread
  \/ /\ "garbled" \in Faults
     /\ LoadNothing(i, w)
     /\ unread' = [unread EXCEPT ![i] =
                     @ \cup {a \in Owned(w) : Stored(a) # NoEntry}]

\* main() loads the addresses, then the networks, then serves.
boot(i) ==
  /\ \/ up[i] = "down" /\ Load(i, "ip")
        /\ up' = [up EXCEPT ![i] = "loadCIDR"]
     \/ up[i] = "loadCIDR" /\ Load(i, "cidr")
        /\ up' = [up EXCEPT ![i] = "up"]
  /\ UNCHANGED <<etcdVars, now, job, sweep, requests, dirty>>

\* The process ends, with whatever it was doing.
crash(i) ==
  /\ "crash" \in Faults
  /\ up[i] # "down"
  /\ Lose(i)
  /\ up' = [up EXCEPT ![i] = "down"]
  /\ job' = [p \in Procs |-> IF Active(p) /\ job[p].inst = i
                              THEN NoJob ELSE job[p]]
  /\ sweep' = [sweep EXCEPT ![i] = Resting]
  /\ dirty' = dirty \cup {job[p].a : p \in {q \in Procs : Active(q)
                                                  /\ job[q].inst = i}}
  /\ unread' = [unread EXCEPT ![i] = {}]
  /\ UNCHANGED <<etcdVars, now, requests>>

\* The watch loops run in multi-instance mode only.  A loop with no address to
\* maintain is left out.
watch(i) ==
  /\ MultiInstance
  /\ up[i] = "up"
  /\ \E w \in {w \in Watchers : Owned(w) # {}} :
       \/ Deliver(i, w)
       \/ "drop" \in Faults /\ Resume(i, w)
  /\ UNCHANGED <<etcdVars, now, up, job, sweep, requests, dirty, unread>>

----------------------------------------------------------------------------
\* The source a client names is any text, also the one the bouncer uses.
Receive(i) ==
  \/ \E p \in Clients, exp \in Expirations, src \in Sources :
       \/ \E ip \in IPs : handlePut(p, i, ip, exp, src)
       \/ \E net \in Nets : handlePutNetwork(p, i, net, exp, src)
  \/ \E p \in Clients : \/ \E ip \in IPs : handleDelete(p, i, ip)
                         \/ \E net \in Nets : handleDeleteNetwork(p, i, net)
  \/ \E ip \in IPs : \/ handlePutRejected(i, ip)
                      \/ handleDNSRequest(i, ip)
                      \/ handleLookup(i, ip)

Step(p) == persist(p) \/ apply(p)

Worker(i) == tick(i) \/ expireNext(i) \/ turn(i)

Next ==
  \/ \E i \in Instances :
       Receive(i) \/ Worker(i) \/ boot(i) \/ crash(i) \/ watch(i)
  \/ \E p \in Procs : Step(p) \/ persistFails(p) \/ persistHangs(p)
  \/ clock

Spec == Init /\ [][Next]_vars

\* A started request or goroutine runs to its end and the ticker keeps firing.
\* Nothing is assumed of clients.
FairSpec ==
  /\ Spec
  /\ \A p \in Procs : WF_vars(Step(p))
  /\ \A i \in Instances : WF_vars(Worker(i))

----------------------------------------------------------------------------
(* Properties                                                              *)

\* Every variable has its type; only an address has a PTR step, and only a
\* worker that is in a round has something left to do.
TypeOK ==
  /\ hist \in Seq(Events)
  /\ kv \in [Keys -> 0..Len(hist)]
  /\ table \in [Instances -> [Addrs -> Entries \cup {NoEntry}]]
  /\ pos \in [Instances -> [Watchers -> 0..Len(hist)]]
  /\ now \in Times
  /\ up \in [Instances -> {"down", "loadCIDR", "up"}]
  /\ job \in [Procs -> [kind : Kinds, inst : Instances \cup {NoEntry},
                        a : Addrs \cup {NoEntry},
                        rec : Values \cup {NoEntry},
                        step : {"key", "ptr", "mem", "hung", "done"},
                        clean : BOOLEAN]]
  /\ \A p \in Procs :
       /\ job[p].step = "ptr" => job[p].a \in IPs
       /\ job[p].kind = "put" => job[p].rec \in Values
  /\ sweep \in [Instances -> [phase : {"wait", "ip", "cidr"},
                              at : Times \cup {0}, todo : SUBSET Addrs]]
  /\ \A i \in Instances : sweep[i].phase = "wait" => sweep[i].todo = {}
  /\ requests \in 0..MaxRequests
  /\ dirty \subseteq Addrs
  /\ unread \in [Instances -> SUBSET Addrs]

ValueOf(e) == IF e = NoEntry THEN NoEntry ELSE e.val

\* Single-instance mode.  Memory and etcd hold the same block for every address
\* no job is at work on, whichever mix of requests, lazy deletions and worker
\* rounds came before, unless the last of them overlapped another job on that
\* address or lost a write: handlers lock the table for the memory step only.
\* After a load that failed, memory is without the blocks etcd had then, each
\* until a job on its address or a restart, and in step about all the others.
InStep ==
  \A i \in Instances : \A a \in Addrs :
    (up[i] = "up" /\ ~Busy(a) /\ a \notin dirty) =>
      IF a \in unread[i] THEN table[i][a] = NoEntry /\ Stored(a) # NoEntry
                         ELSE ValueOf(table[i][a]) = ValueOf(Stored(a))

\* Either mode.  The PTR record exists exactly when the block does, with the
\* same exception: the two keys are written by two requests.
PtrInStep ==
  \A ip \in IPs : (~Busy(ip) /\ ip \notin dirty) =>
    (kv[rblKey(ip)] # 0 <=> kv[reverseKey(ip)] # 0)

\* What lazy expiry or a worker sets out to delete was at some point written
\* with an expiration time that has passed, however stale the table it was
\* found in and whatever was written since.  In particular an address that was
\* only ever blocked permanently is never touched by expiry.
ExpiryJustified ==
  LET targets == {job[p].a : p \in {q \in Procs : Active(q) /\
                                      job[q].kind \in {"lazy", "expire"}}}
                   \cup UNION {sweep[i].todo : i \in Instances}
  IN \A a \in targets : \E r \in 1..Len(hist) :
       /\ hist[r].key = KeyOf(a) /\ hist[r].val # NoEntry
       /\ hist[r].val.exp \in 1..now

\* Single-instance mode.  A client whose PUT was answered finds the address
\* blocked at the instance that answered, also after a restart of it whose load
\* was read, as long as the block runs, etcd took the writes and no other job
\* on that address ran at the same time or later.
ReadYourWrites ==
  \A p \in Clients :
    LET j == job[p] IN
    (/\ j.kind = "put" /\ j.step = "done" /\ j.clean
     /\ up[j.inst] = "up" /\ j.a \notin unread[j.inst]) =>
      \/ Expired(Entry(j.a, j.rec, 0), now)
      \/ /\ table[j.inst][j.a] # NoEntry
         /\ ~Expired(table[j.inst][j.a], now)

\* Single-instance mode.  A PUT, by a client or the bouncer, that overwrites a
\* block before it expires keeps its first_seen (handlePut: "Preserve
\* first_seen if the IP is already blocked"), unless another job on the
\* address overlapped it or the one before, or memory is without the block
\* since a load that failed: the PUT looks for it there only.
FirstSeenKept ==
  [][\A p \in Procs :
       LET a   == job[p].a
           old == Stored(a)
       IN (/\ job[p].step = "key" /\ job'[p].step \in {"ptr", "mem"}
           /\ job[p].kind = "put" /\ job'[p].clean
           /\ a \notin dirty \cup unread[job[p].inst]
           /\ old # NoEntry /\ ~Expired(old, now)) =>
             job[p].rec.first = old.val.first]_vars

\* Multi-instance mode.  All that handlers, lazy expiry, the worker, start and
\* crash ever do to the tables and to etcd is what Replica allows: a request
\* changes memory only through etcd and the watch loops, and what the worker
\* does to memory by itself is to drop entries.  Module Watch lets others do
\* just that to its instances, so the two modules fit together.
KeepsToReplica == ReplicaSpec

Lingers(a) ==
  \/ Expired(Stored(a), now)
  \/ \E i \in Instances : Expired(table[i][a], now)

\* Single-instance mode, of a process that is not ended and began with an empty
\* etcd.  An expired block does not stay in memory or in etcd, unless the two
\* had come apart before.  A request to etcd that is never answered holds up
\* nothing but its own goroutine, so this ends only when it is the worker that
\* waits for one.
ExpiredLeave ==
  \A a \in Addrs :
    (Lingers(a) /\ a \notin dirty) ~>
      (~Lingers(a) \/ a \in dirty \/ \E i \in Instances : job[i].step = "hung")

\* README.md: the background process "removes expired entries from both memory
\* and etcd".
AllExpiredLeave == \A a \in Addrs : Lingers(a) ~> ~Lingers(a)
=============================================================================
