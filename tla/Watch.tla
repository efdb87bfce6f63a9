------------------------------- MODULE Watch -------------------------------
(***************************************************************************)
(* How an open-blocklist process in multi-instance mode keeps its          *)
(* in-memory tables in step with etcd (the load and watch functions of     *)
(* src/src/etcd.go, and the start-up sequence of src/src/main.go).         *)
(*                                                                         *)
(* An instance loads both tables, then runs two watch loops, one for       *)
(* single addresses and one for networks.  Both loops choose where to      *)
(* resume from the SAME variable gEtcdRevision.                            *)
(*                                                                         *)
(* What other parts of the program do to this state is left open: any key  *)
(* may be written or deleted in etcd at any time (StorePut, StoreDelete)   *)
(* and the expiration worker may drop an entry from memory (evict).        *)
(*                                                                         *)
(* The tables and the loops' positions are those of the abstract           *)
(* specification Replica, which this module implements.                    *)
(***************************************************************************)
EXTENDS Replica

CONSTANT
  Faults      \* which disturbances may happen: a subset of FaultKinds

FaultKinds == {"garbled", "drop", "crash", "evict"}

ASSUME WatchAssumption == Faults \subseteq FaultKinds

VARIABLES
  pc,             \* where main() is, per instance
  gEtcdRevision,  \* per instance; 0 when no revision is known
  wpc,            \* where each watch loop is, per instance and loop
  start,          \* start_revision of the create request, 0 for none
  upto,           \* the message in hand carries the events up to here
  hdr,            \* header revision of the message in hand
  seen,           \* history: the highest value pos ever had
  stale,          \* history: entries that a load failed to read, whose last
                  \*   event was skipped or that were dropped locally, per
                  \*   instance
  rewound         \* history: gEtcdRevision was once set to a lower value

loopVars == <<wpc, start, upto, hdr, pos, seen>>
vars     == <<hist, kv, pc, gEtcdRevision, table, wpc, start, upto, hdr, pos,
              seen, stale, rewound>>

----------------------------------------------------------------------------
(* Start and etcd                                                          *)

Max2(m, n) == IF m > n THEN m ELSE n

Init ==
  /\ etcdInit
  /\ pc = [i \in Instances |-> "down"]
  /\ gEtcdRevision = [i \in Instances |-> 0]
  /\ table = [i \in Instances |-> [a \in Addrs |-> NoEntry]]
  /\ wpc   = [i \in Instances |-> [w \in Watchers |-> "off"]]
  /\ start = [i \in Instances |-> [w \in Watchers |-> 0]]
  /\ upto  = [i \in Instances |-> [w \in Watchers |-> 0]]
  /\ hdr   = [i \in Instances |-> [w \in Watchers |-> 0]]
  /\ pos   = [i \in Instances |-> [w \in Watchers |-> 0]]
  /\ seen  = [i \in Instances |-> [w \in Watchers |-> 0]]
  /\ stale = [i \in Instances |-> {}]
  /\ rewound = [i \in Instances |-> FALSE]

\* Some instance, or any other etcd client, writes a key ...
StorePut(key, v) ==
  /\ etcdPut(key, v)
  /\ UNCHANGED <<pc, gEtcdRevision, table, loopVars, stale, rewound>>

\* ... or deletes one.
StoreDelete(key) ==
  /\ kv[key] # 0
  /\ etcdDelete(key)
  /\ UNCHANGED <<pc, gEtcdRevision, table, loopVars, stale, rewound>>

----------------------------------------------------------------------------
(* main(): load, open the listeners, start the watch loops                 *)

Goto(i, from, to) ==
  /\ pc[i] = from
  /\ pc' = [pc EXCEPT ![i] = to]

Load(i, w, entry) ==
  table' = [table EXCEPT ![i] =
              [a \in Addrs |-> IF a \in Owned(w) THEN entry[a] ELSE @[a]]]

\* The contents of a loop's table reflect the revision the range was read at.
LoadedAt(i, w, rev) ==
  /\ pos'  = [pos  EXCEPT ![i][w] = rev]
  /\ seen' = [seen EXCEPT ![i][w] = rev]
  /\ upto' = [upto EXCEPT ![i][w] = rev]
  /\ UNCHANGED <<wpc, start, hdr>>

\* waitForEtcd sees a healthy endpoint.  An instance that gives up after
\* maxWait stays "down".
waitForEtcd(i) ==
  /\ Goto(i, "down", "loadIP")
  /\ UNCHANGED <<etcdVars, gEtcdRevision, table, loopVars, stale, rewound>>

loadFromEtcd(i) ==
  /\ Goto(i, "loadIP", "loadCIDR")
  /\ gEtcdRevision' = [gEtcdRevision EXCEPT ![i] = Len(hist)]
  /\ Load(i, "ip", [a \in IPs |-> Stored(a)])
  /\ LoadedAt(i, "ip", Len(hist))
  /\ stale' = [stale EXCEPT ![i] = @ \ IPs]
  /\ UNCHANGED <<etcdVars, rewound>>

\* The revision of this second range is discarded: gEtcdRevision stays.
loadCIDRFromEtcd(i) ==
  /\ Goto(i, "loadCIDR", "serve")
  /\ Load(i, "cidr", [a \in Nets |-> Stored(a)])
  /\ LoadedAt(i, "cidr", Len(hist))
  /\ stale' = [stale EXCEPT ![i] = @ \ Nets]
  /\ UNCHANGED <<etcdVars, gEtcdRevision, rewound>>

\* etcdRange ignores the status and the decoding error of the reply: an error
\* body reads as no keys and revision 0.  loadCIDRFromEtcd also goes on after
\* a transport error; after one, loadFromEtcd ends the process (crash).
loadGarbled(i, w) ==
  /\ "garbled" \in Faults
  /\ IF w = "ip"
       THEN /\ Goto(i, "loadIP", "loadCIDR")
            /\ gEtcdRevision' = [gEtcdRevision EXCEPT ![i] = 0]
       ELSE /\ Goto(i, "loadCIDR", "serve")
            /\ UNCHANGED gEtcdRevision
  /\ Load(i, w, [a \in Owned(w) |-> NoEntry])
  /\ LoadedAt(i, w, Len(hist))
  /\ stale' = [stale EXCEPT ![i] = @ \cup Owned(w)]
  /\ UNCHANGED <<etcdVars, rewound>>

\* The listeners have been serving for two seconds when the loops start.
startWatchers(i) ==
  /\ Goto(i, "serve", "run")
  /\ wpc' = [wpc EXCEPT ![i] = [w \in Watchers |-> "idle"]]
  /\ UNCHANGED <<etcdVars, gEtcdRevision, table, start, upto, hdr, pos, seen,
                 stale, rewound>>

\* logFatal, SIGTERM or the loss of the process: everything but etcd is gone.
crash(i) ==
  /\ "crash" \in Faults
  /\ pc[i] # "down"
  /\ pc' = [pc EXCEPT ![i] = "down"]
  /\ gEtcdRevision' = [gEtcdRevision EXCEPT ![i] = 0]
  /\ table' = [table EXCEPT ![i] = [a \in Addrs |-> NoEntry]]
  /\ wpc'   = [wpc   EXCEPT ![i] = [w \in Watchers |-> "off"]]
  /\ start' = [start EXCEPT ![i] = [w \in Watchers |-> 0]]
  /\ upto'  = [upto  EXCEPT ![i] = [w \in Watchers |-> 0]]
  /\ hdr'   = [hdr   EXCEPT ![i] = [w \in Watchers |-> 0]]
  /\ pos'   = [pos   EXCEPT ![i] = [w \in Watchers |-> 0]]
  /\ seen'  = [seen  EXCEPT ![i] = [w \in Watchers |-> 0]]
  /\ stale' = [stale EXCEPT ![i] = {}]
  /\ rewound' = [rewound EXCEPT ![i] = FALSE]
  /\ UNCHANGED etcdVars

\* The expiration worker drops an entry it found expired, whatever the mode.
evict(i, a) ==
  /\ "evict" \in Faults
  /\ pc[i] = "run"
  /\ table[i][a] # NoEntry
  /\ table' = [table EXCEPT ![i][a] = NoEntry]
  /\ stale' = [stale EXCEPT ![i] = @ \cup {a}]
  /\ UNCHANGED <<etcdVars, pc, gEtcdRevision, loopVars, rewound>>

----------------------------------------------------------------------------
(* watchLoop and cidrWatchLoop: the same steps, w says which               *)

At(i, w, from, to) ==
  /\ wpc[i][w] = from
  /\ wpc' = [wpc EXCEPT ![i][w] = to]

\* Addresses of the loop with an event after revision from and up to to.
Touched(w, from, to) ==
  {a \in Owned(w) : \E r \in (from + 1)..to : hist[r].key = KeyOf(a)}

\* Top of the loop: choose where to resume.
readRevision(i, w) ==
  /\ At(i, w, "idle", "dial")
  /\ start' = [start EXCEPT ![i][w] =
                 IF gEtcdRevision[i] > 0 THEN gEtcdRevision[i] + 1 ELSE 0]
  /\ UNCHANGED <<etcdVars, pc, gEtcdRevision, table, upto, hdr, pos, seen,
                 stale, rewound>>

\* The request cannot be sent or is refused; sleep and try again.
connectFails(i, w) ==
  /\ "drop" \in Faults
  /\ At(i, w, "dial", "idle")
  /\ UNCHANGED <<etcdVars, pc, gEtcdRevision, table, start, upto, hdr, pos,
                 seen, stale, rewound>>

\* etcd creates the watch and answers with a "created" message: no events, and
\* the store's current revision in its header.  Events between what the loop
\* has processed and start_revision will never be sent to it.
connect(i, w) ==
  LET from == IF start[i][w] = 0 THEN Len(hist) ELSE start[i][w] - 1 IN
  /\ At(i, w, "dial", "msg")
  /\ pos'   = [pos   EXCEPT ![i][w] = from]
  /\ seen'  = [seen  EXCEPT ![i][w] = Max2(@, from)]
  /\ upto'  = [upto  EXCEPT ![i][w] = from]
  /\ hdr'   = [hdr   EXCEPT ![i][w] = Len(hist)]
  /\ stale' = [stale EXCEPT ![i] = @ \cup Touched(w, pos[i][w], from)]
  /\ start' = [start EXCEPT ![i][w] = 0]
  /\ UNCHANGED <<etcdVars, pc, gEtcdRevision, table, rewound>>

\* etcd sends the events of the range from pos up to some revision, in order.
\* The header has the store's revision when the message was built: catching
\* up is sent in batches, so it may be ahead of the last event carried.
sendEvents(i, w) ==
  /\ At(i, w, "scan", "msg")
  /\ \E h \in (pos[i][w] + 1)..Len(hist) : \E u \in (pos[i][w] + 1)..h :
       /\ InRange(w, hist[u].key)
       /\ upto' = [upto EXCEPT ![i][w] = u]
       /\ hdr'  = [hdr  EXCEPT ![i][w] = h]
  /\ UNCHANGED <<etcdVars, pc, gEtcdRevision, table, start, pos, seen, stale,
                 rewound>>

ForgetHeader(i, w) == hdr' = [hdr EXCEPT ![i][w] = 0]

AfterHeader(i, w) == IF upto[i][w] = pos[i][w] THEN "scan" ELSE "apply"

\* One line read: compare its header with gEtcdRevision ...
readHeader(i, w) ==
  /\ IF hdr[i][w] > gEtcdRevision[i]
       THEN At(i, w, "msg", "store") /\ UNCHANGED hdr
       ELSE At(i, w, "msg", AfterHeader(i, w)) /\ ForgetHeader(i, w)
  /\ UNCHANGED <<etcdVars, pc, gEtcdRevision, table, start, upto, pos, seen,
                 stale, rewound>>

\* Mutant: stores the revision to resume from, to which readRevision adds one.
updateRevisionMutant(i, w) ==
  /\ At(i, w, "store", AfterHeader(i, w))
  /\ gEtcdRevision' = [gEtcdRevision EXCEPT ![i] = hdr[i][w] + 1]
  /\ ForgetHeader(i, w)
  /\ UNCHANGED <<etcdVars, pc, table, start, upto, pos, seen, stale, rewound>>

\* Mutant: never stores a revision.
updateRevisionMutant2(i, w) ==
  /\ At(i, w, "store", AfterHeader(i, w))
  /\ ForgetHeader(i, w)
  /\ UNCHANGED <<etcdVars, pc, gEtcdRevision, table, start, upto, pos, seen,
                 stale, rewound>>

\* ... and store it, in a second step, before the events are applied.
updateRevision(i, w) ==
  /\ At(i, w, "store", AfterHeader(i, w))
  /\ gEtcdRevision' = [gEtcdRevision EXCEPT ![i] = hdr[i][w]]
  /\ rewound' = [rewound EXCEPT ![i] = @ \/ hdr[i][w] < gEtcdRevision[i]]
  /\ ForgetHeader(i, w)
  /\ UNCHANGED <<etcdVars, pc, table, start, upto, pos, seen, stale>>

\* Mutant: the event type is not looked at, a DELETE is skipped as undecodable.
applyEventMutant(i, w) ==
  LET r   == pos[i][w] + 1
      key == hist[r].key
  IN
  /\ At(i, w, "apply", IF r = upto[i][w] THEN "scan" ELSE "apply")
  /\ pos'  = [pos  EXCEPT ![i][w] = r]
  /\ seen' = [seen EXCEPT ![i][w] = Max2(@, r)]
  /\ IF Decodes(w, key) /\ hist[r].val # NoEntry
       THEN /\ table' = [table EXCEPT ![i][key.id] =
                           Entry(key.id, hist[r].val, r)]
            /\ stale' = [stale EXCEPT ![i] = @ \ {key.id}]
       ELSE UNCHANGED <<table, stale>>
  /\ UNCHANGED <<etcdVars, pc, gEtcdRevision, start, upto, hdr, rewound>>

\* Mutant: an entry gets the revision of the message, not of its event.
applyEventMutant2(i, w) ==
  LET r   == pos[i][w] + 1
      key == hist[r].key
  IN
  /\ At(i, w, "apply", IF r = upto[i][w] THEN "scan" ELSE "apply")
  /\ pos'  = [pos  EXCEPT ![i][w] = r]
  /\ seen' = [seen EXCEPT ![i][w] = Max2(@, r)]
  /\ IF Decodes(w, key)
       THEN /\ table' = [table EXCEPT ![i][key.id] =
                           Entry(key.id, hist[r].val, upto[i][w])]
            /\ stale' = [stale EXCEPT ![i] = @ \ {key.id}]
       ELSE UNCHANGED <<table, stale>>
  /\ UNCHANGED <<etcdVars, pc, gEtcdRevision, start, upto, hdr, rewound>>

\* One event of the message, applied under the table's lock.  A revision that
\* is outside the range carries no event, one that does not decode is skipped.
applyEvent(i, w) ==
  LET r   == pos[i][w] + 1
      key == hist[r].key
  IN
  /\ At(i, w, "apply", IF r = upto[i][w] THEN "scan" ELSE "apply")
  /\ pos'  = [pos  EXCEPT ![i][w] = r]
  /\ seen' = [seen EXCEPT ![i][w] = Max2(@, r)]
  /\ IF Decodes(w, key)
       THEN /\ table' = [table EXCEPT ![i][key.id] =
                           Entry(key.id, hist[r].val, r)]
            /\ stale' = [stale EXCEPT ![i] = @ \ {key.id}]
       ELSE UNCHANGED <<table, stale>>
  /\ UNCHANGED <<etcdVars, pc, gEtcdRevision, start, upto, hdr, rewound>>

\* Mutant: the loop returns when its stream ends.
closedMutant(i, w) ==
  /\ "drop" \in Faults
  /\ wpc[i][w] \in {"scan", "msg"}
  /\ wpc' = [wpc EXCEPT ![i][w] = "off"]
  /\ upto' = [upto EXCEPT ![i][w] = pos[i][w]]
  /\ ForgetHeader(i, w)
  /\ UNCHANGED <<etcdVars, pc, gEtcdRevision, table, start, pos, seen, stale,
                 rewound>>

\* The stream ends; a message that was not read yet is lost with it.
closed(i, w) ==
  /\ "drop" \in Faults
  /\ wpc[i][w] \in {"scan", "msg"}
  /\ wpc' = [wpc EXCEPT ![i][w] = "idle"]
  /\ upto' = [upto EXCEPT ![i][w] = pos[i][w]]
  /\ ForgetHeader(i, w)
  /\ UNCHANGED <<etcdVars, pc, gEtcdRevision, table, start, pos, seen, stale,
                 rewound>>

----------------------------------------------------------------------------
Store == \E key \in Keys :
  \/ \E v \in RecordsFor(key) : StorePut(key, v)
  \/ StoreDelete(key)

Main(i) ==
  \/ waitForEtcd(i)
  \/ loadFromEtcd(i)
  \/ loadCIDRFromEtcd(i)
  \/ \E w \in Watchers : loadGarbled(i, w)
  \/ startWatchers(i)

\* The steps a loop takes by itself, its stream delivering what it has.
Loop(i, w) ==
  \/ readRevision(i, w)
  \/ connect(i, w)
  \/ sendEvents(i, w)
  \/ readHeader(i, w)
  \/ updateRevision(i, w)
  \/ applyEvent(i, w)

Disturb(i) ==
  \/ crash(i)
  \/ \E w \in Watchers : connectFails(i, w) \/ closed(i, w)

Next ==
  \/ Store
  \/ \E i \in Instances :
       \/ Main(i)
       \/ \E w \in Watchers : Loop(i, w)
       \/ Disturb(i)
       \/ \E a \in Addrs : evict(i, a)

Spec == Init /\ [][Next]_vars

\* The loops' goroutines keep running and etcd keeps serving their streams;
\* from some point on nothing disturbs them.  Nothing is assumed of writers.
FairSpec ==
  /\ Spec
  /\ \A i \in Instances : \A w \in Watchers : WF_vars(Loop(i, w))
  /\ \A i \in Instances : <>[][~Disturb(i)]_vars

----------------------------------------------------------------------------
(* Properties                                                              *)

\* Every variable has its type; a revision an instance or a loop refers to is
\* one etcd has reached, and a loop works between what it has processed and
\* what its message carries.
TypeOK ==
  /\ hist \in Seq(Events) /\ Len(hist) >= 1
  /\ kv \in [Keys -> 0..Len(hist)]
  /\ pc \in [Instances -> {"down", "loadIP", "loadCIDR", "serve", "run"}]
  /\ gEtcdRevision \in [Instances -> 0..Len(hist)]
  /\ table \in [Instances -> [Addrs -> Entries \cup {NoEntry}]]
  /\ wpc \in [Instances -> [Watchers ->
                {"off", "idle", "dial", "msg", "store", "apply", "scan"}]]
  /\ start \in [Instances -> [Watchers -> 0..(Len(hist) + 1)]]
  /\ upto \in [Instances -> [Watchers -> 0..Len(hist)]]
  /\ hdr  \in [Instances -> [Watchers -> 0..Len(hist)]]
  /\ pos  \in [Instances -> [Watchers -> 0..Len(hist)]]
  /\ seen \in [Instances -> [Watchers -> 0..Len(hist)]]
  /\ stale \in [Instances -> SUBSET Addrs]
  /\ rewound \in [Instances -> BOOLEAN]

\* In history h, r is the last revision up to n that wrote or deleted key.
Latest(h, key, r, n) ==
  /\ r \in 1..n
  /\ h[r].key = key
  /\ \A s \in (r + 1)..n : h[s].key # key

\* At revision n of history h, e is the in-memory form of what etcd held for a.
HoldsAt(h, a, e, n) ==
  \/ /\ e = NoEntry
     /\ \A r \in 1..n : h[r].key # KeyOf(a)
  \/ \E r \in 1..n : /\ Latest(h, KeyOf(a), r, n)
                     /\ e = Entry(a, h[r].val, r)

Loaded(i, w) ==
  pc[i] \in (IF w = "ip" THEN {"loadCIDR", "serve", "run"}
                         ELSE {"serve", "run"})

\* loadFromEtcd, watchLoop and cidrWatchLoop never invent an entry: whatever
\* the interleaving, the losses and the replays, an entry in memory was
\* written to etcd under that very address, and the ModRevision of a
\* BlockEntry names the write it came from.
Provenance ==
  \A i \in Instances : \A a \in Addrs : table[i][a] # NoEntry =>
    \E r \in 1..Len(hist) : /\ hist[r].key = KeyOf(a)
                            /\ hist[r].val # NoEntry
                            /\ table[i][a] = Entry(a, hist[r].val, r)

\* An entry in memory is wrong for three reasons only: the reply its table was
\* loaded from could not be read and no event came since, its last event was
\* skipped because gEtcdRevision had moved past it when the loop reconnected,
\* or the expiration worker dropped it.  Otherwise it is exactly what etcd held
\* at one revision between the loop's position and the furthest position it
\* reached: late or replayed, but neither torn nor lost.
ReplicaExact ==
  \A i \in Instances : \A w \in Watchers : Loaded(i, w) =>
    \A a \in Owned(w) \ stale[i] :
      \E p \in pos[i][w]..seen[i][w] : HoldsAt(hist, a, table[i][a], p)

RollsBack(i, a) ==
  /\ table[i][a] # NoEntry
  /\ table'[i][a] # NoEntry
  /\ table'[i][a].mod < table[i][a].mod

\* The ModRevision of an address in memory never goes back, through any number
\* of reconnects, unless the two loops once raced on gEtcdRevision and stored
\* a lower revision over a higher one.
NoSilentRollback ==
  [][\A i \in Instances : \A a \in IPs : RollsBack(i, a) => rewound[i]]_vars

\* Once nothing disturbs the loops any more, every running instance ends with
\* the current etcd contents in memory, except for the entries that a load
\* failed to read, whose last event it skipped or that it dropped before.
CatchUp ==
  \A i \in Instances :
    <>[](pc[i] = "run" =>
           \A a \in Addrs \ stale[i] : table[i][a] = Stored(a))

\* Seen from outside, main(), the two watch loops and all their faults do
\* nothing but what the abstract specification of replication allows: module
\* Blocklist, which is built on Replica, may rely on it.
ImplementsReplica == ReplicaSpec

\* Both loops wait for a message and etcd has none for them.
Idle(i) ==
  \A w \in Watchers :
    /\ wpc[i][w] = "scan"
    /\ \A r \in (pos[i][w] + 1)..Len(hist) : ~InRange(w, hist[r].key)

\* README.md: the service "maintains an in-memory copy of all blocklist
\* entries".  When an instance has nothing left to receive, nothing it was
\* sent is missing from its tables.
InMemoryCopy ==
  \A i \in Instances : (pc[i] = "run" /\ Idle(i)) =>
    \A a \in Addrs : table[i][a] = Stored(a)

\* What is left of that copy: an instance with nothing to receive holds what
\* etcd holds, entry by entry and with the same ModRevision, whatever was lost,
\* replayed or reloaded before, except where a load failed to read the entry, a
\* reconnect skipped its last event or the expiration worker dropped it, and no
\* event came since.
CopyExact ==
  \A i \in Instances : (pc[i] = "run" /\ Idle(i)) =>
    \A a \in Addrs \ stale[i] : table[i][a] = Stored(a)
=============================================================================
