--------------------------- MODULE BlocklistTypes ---------------------------
(***************************************************************************)
(* Lemmas about the steps of module Blocklist (what etcd holds after a     *)
(* write, which jobs a request or the worker begins, what a step of a job  *)
(* leaves alone), its type correctness, where the blocks come from that    *)
(* expiry sets out to delete, and that in multi-instance mode tables and   *)
(* etcd only change as Replica says.                                       *)
(***************************************************************************)
EXTENDS Blocklist, TLAPS

----------------------------------------------------------------------------
(* Keys, and what etcd holds under them                                    *)

\* The keys of two addresses, and the two keys of one, are different.
LEMMA KeyFacts ==
  ASSUME NEW a \in Addrs
  PROVE  /\ KeyOf(a) \in Keys /\ RecordsFor(KeyOf(a)) = Values
         /\ \A b \in Addrs : KeyOf(a) = KeyOf(b) => a = b
         /\ a \in IPs => /\ KeyOf(a) = rblKey(a)
                         /\ reverseKey(a) \in Keys
                         /\ RecordsFor(reverseKey(a)) = {PtrRecord}
         /\ \A ip \in IPs : reverseKey(ip) # KeyOf(a)
         /\ \A ip \in IPs : reverseKey(ip) = reverseKey(a) => ip = a
  BY Zenon, EtcdAssumption
     DEF KeyOf, Addrs, rblKey, reverseKey, cidrToEtcdKey, Keys,
     RecordsFor

\* The record under a key, if there is one.
Held(k) == IF kv[k] = 0 THEN NoEntry ELSE hist[kv[k]].val

\* A live key is at a revision that put a record under it.
StoreOK ==
  /\ hist \in Seq(Events)
  /\ kv \in [Keys -> 0..Len(hist)]
  /\ \A k \in Keys : kv[k] # 0 =>
       hist[kv[k]].key = k /\ hist[kv[k]].val \in RecordsFor(k)

\* No record is the absence of one.
LEMMA RecordsAreRecords ==
  ASSUME NEW k
  PROVE  NoEntry \notin RecordsFor(k)
  BY Zenon, EtcdAssumption DEF RecordsFor

\* Stored shows what is held under the key of an address.
LEMMA StoredHeld ==
  ASSUME StoreOK, NEW a \in Addrs
  PROVE  /\ ValueOf(Stored(a)) = Held(KeyOf(a))
         /\ Stored(a) \in Entries \cup {NoEntry}
         /\ Stored(a) = NoEntry <=> kv[KeyOf(a)] = 0
         /\ Held(KeyOf(a)) = NoEntry <=> kv[KeyOf(a)] = 0
         /\ Held(KeyOf(a)) \in Values \cup {NoEntry}
<1>1. KeyOf(a) \in Keys /\ RecordsFor(KeyOf(a)) = Values
    BY Zenon, KeyFacts
<1>2. CASE kv[KeyOf(a)] = 0
    BY Zenon, <1>1, <1>2 DEF StoreOK, Stored, Held, ValueOf
<1>3. CASE kv[KeyOf(a)] # 0
  <2> DEFINE v == hist[kv[KeyOf(a)]].val
             e == [val |-> v, mod |-> IF a \in IPs THEN kv[KeyOf(a)] ELSE 0]
  <2>1. v \in Values /\ v # NoEntry
      BY Zenon, <1>1, <1>3, EtcdAssumption DEF StoreOK
  <2>2. kv[KeyOf(a)] \in Nat
      BY <1>1 DEF StoreOK
  <2>3. Stored(a) = e
      BY Zenon, <1>3, <2>1 DEF Stored, Entry
  <2>4. e \in Entries /\ e # NoEntry
      BY <2>1, <2>2, EtcdAssumption DEF Entries
  <2>. QED BY <1>3, <2>1, <2>3, <2>4 DEF Held, ValueOf
<1>. QED BY Zenon, <1>2, <1>3

\* A put: the record is held under its key, and nothing else changes.
LEMMA PutEffect ==
  ASSUME StoreOK, NEW key \in Keys, NEW v \in RecordsFor(key), etcdPut(key, v)
  PROVE  /\ StoreOK'
         /\ kv'[key] # 0 /\ Held(key)' = v
         /\ \A k \in Keys : k # key => kv'[k] = kv[k] /\ Held(k)' = Held(k)
         /\ Len(hist) <= Len(hist')
         /\ \A r \in 1..Len(hist) : hist'[r] = hist[r]
         /\ \E r \in 1..Len(hist') : hist'[r] = [key |-> key, val |-> v]
<1> DEFINE ev == [key |-> key, val |-> v]
<1>1. ev \in Events
    BY Zenon DEF Events, RecordsFor
<1>2. /\ hist' = Append(hist, ev) /\ kv' = [kv EXCEPT ![key] = Len(hist) + 1]
    BY Zenon DEF etcdPut
<1>3. /\ hist' \in Seq(Events) /\ Len(hist) \in Nat /\ Len(hist') = Len(hist) + 1
      /\ hist'[Len(hist) + 1] = ev
      /\ \A r \in 1..Len(hist) : hist'[r] = hist[r]
    BY <1>1, <1>2 DEF StoreOK
<1>4. /\ kv' \in [Keys -> 0..Len(hist')] /\ kv'[key] = Len(hist) + 1
      /\ \A k \in Keys : k # key => kv'[k] = kv[k]
    BY <1>2, <1>3 DEF StoreOK
<1>5. \A k \in Keys : k # key /\ kv[k] # 0 => kv[k] \in 1..Len(hist)
    BY <1>3 DEF StoreOK
<1>6. StoreOK'
  <2>1. hist'[kv'[key]].key = key /\ hist'[kv'[key]].val = v
      BY <1>3, <1>4
  <2>2. \A k \in Keys : k # key /\ kv'[k] # 0 =>
          hist'[kv'[k]].key = k /\ hist'[kv'[k]].val \in RecordsFor(k)
      BY <1>3, <1>4, <1>5 DEF StoreOK
  <2>. QED BY Zenon, <1>3, <1>4, <2>1, <2>2 DEF StoreOK
<1>7. kv'[key] # 0 /\ Held(key)' = v
    BY <1>3, <1>4 DEF Held
<1>8. \A k \in Keys : k # key => kv'[k] = kv[k] /\ Held(k)' = Held(k)
    BY Zenon, <1>3, <1>4, <1>5 DEF Held
<1>. QED BY <1>3, <1>6, <1>7, <1>8

\* A delete: nothing is held under the key, and nothing else changes.
LEMMA DeleteEffect ==
  ASSUME StoreOK, NEW key \in Keys, etcdDelete(key)
  PROVE  /\ StoreOK'
         /\ kv'[key] = 0 /\ Held(key)' = NoEntry
         /\ \A k \in Keys : k # key => kv'[k] = kv[k] /\ Held(k)' = Held(k)
         /\ Len(hist) <= Len(hist')
         /\ \A r \in 1..Len(hist) : hist'[r] = hist[r]
<1>1. CASE kv[key] = 0
    BY <1>1 DEF etcdDelete, etcdVars, StoreOK, Held
<1>2. CASE kv[key] # 0
  <2> DEFINE ev == [key |-> key, val |-> NoEntry]
  <2>1. ev \in Events
      BY Zenon DEF Events
  <2>2. /\ hist' = Append(hist, ev) /\ kv' = [kv EXCEPT ![key] = 0]
      BY Zenon, <1>2 DEF etcdDelete
  <2>3. /\ hist' \in Seq(Events) /\ Len(hist) \in Nat
        /\ Len(hist') = Len(hist) + 1
        /\ \A r \in 1..Len(hist) : hist'[r] = hist[r]
      BY <2>1, <2>2 DEF StoreOK
  <2>4. /\ kv' \in [Keys -> 0..Len(hist')] /\ kv'[key] = 0
        /\ \A k \in Keys : k # key => kv'[k] = kv[k]
      BY <2>2, <2>3 DEF StoreOK
  <2>5. \A k \in Keys : k # key /\ kv[k] # 0 => kv[k] \in 1..Len(hist)
      BY <2>3 DEF StoreOK
  <2>6. StoreOK'
      BY <2>3, <2>4, <2>5 DEF StoreOK
  <2>7. \A k \in Keys : k # key => kv'[k] = kv[k] /\ Held(k)' = Held(k)
      BY Zenon, <2>3, <2>4, <2>5 DEF Held
  <2>. QED BY <2>3, <2>4, <2>6, <2>7 DEF Held
<1>. QED BY Zenon, <1>1, <1>2

----------------------------------------------------------------------------
(* Types                                                                   *)

Steps == {"key", "ptr", "mem", "hung", "done"}

Jobs == [kind : Kinds, inst : Instances \cup {NoEntry},
         a : Addrs \cup {NoEntry}, rec : Values \cup {NoEntry},
         step : Steps, clean : BOOLEAN]

\* A job under way has an address and an instance that is up, and so has a
\* round of the worker, which read the clock before.  A put that is over still
\* has both.
Running ==
  /\ \A p \in Procs : Active(p) =>
       /\ job[p].a \in Addrs
       /\ job[p].inst \in Instances
       /\ up[job[p].inst] = "up"
  /\ \A i \in Instances : sweep[i].phase # "wait" =>
       up[i] = "up" /\ sweep[i].at \in 1..now
  /\ \A p \in Procs : job[p].kind = "put" =>
       job[p].a \in Addrs /\ job[p].inst \in Instances

Types == TypeOK /\ StoreOK /\ Running

\* The type of job, as TypeOK states it.
LEMMA JobTypes ==
  ASSUME Types
  PROVE  /\ job \in [Procs -> Jobs]
         /\ \A p \in Procs :
              /\ job[p].step = "ptr" => job[p].a \in IPs
              /\ job[p].kind = "put" => job[p].rec \in Values
  BY Zenon DEF Types, TypeOK, Jobs, Steps

\* A block is a record of the program.
LEMMA RecordTyped ==
  ASSUME NEW first \in Times, NEW exp \in Exps, NEW src \in Sources
  PROVE  /\ Record(first, exp, src) \in Values
         /\ Record(first, exp, src).first = first
         /\ Record(first, exp, src).exp = exp /\ Record(first, exp, src).src = src
  BY Zenon, BlocklistAssumption DEF Record

\* first_seen is a time.
LEMMA FirstSeenTyped ==
  ASSUME Types, NEW i \in Instances, NEW a \in Addrs
  PROVE  FirstSeen(i, a) \in Times
<1>1. table[i][a] \in Entries \cup {NoEntry} /\ now \in Times
    BY DEF Types, TypeOK
<1>2. ASSUME NEW e \in Entries PROVE e.val.first \in Times
    BY Zenon, BlocklistAssumption DEF Entries
<1>. QED BY Zenon, <1>1, <1>2 DEF FirstSeen

----------------------------------------------------------------------------
(* The beginning of jobs                                                   *)

\* What holds of a job when it begins.
StartOK(j) ==
  /\ j \in Jobs /\ j.step = "key" /\ j.clean = TRUE
  /\ j.a \in Addrs /\ j.inst \in Instances /\ up[j.inst] = "up"
  /\ j.kind = "put" => /\ j.rec \in Values
                       /\ j.rec.first = FirstSeen(j.inst, j.a)
  /\ j.kind \in {"lazy", "expire"} =>
       Expired(table[j.inst][j.a], now) \/ j.a \in sweep[j.inst].todo

\* What holds of the jobs that begin in a step.
NewOK(new) ==
  \A p \in DOMAIN new : p \in Procs /\ ~Active(p) /\ StartOK(new[p])

\* The bouncer begins none of these jobs.
Own(new) == \A p \in DOMAIN new : p \in Clients \cup Lazies \cup Instances

\* One new job.
LEMMA OneNew ==
  ASSUME NEW p \in Procs, ~Active(p), NEW j, StartOK(j)
  PROVE  /\ NewOK([q \in {p} |-> j])
         /\ p \in Clients \cup Lazies \cup Instances => Own([q \in {p} |-> j])
  BY Zenon DEF NewOK, Own

\* Jobs of two kinds.
LEMMA WithNew ==
  ASSUME NEW f, NEW g, NewOK(f), NewOK(g)
  PROVE  NewOK(With(f, g)) /\ (Own(f) /\ Own(g) => Own(With(f, g)))
<1>1. DOMAIN With(f, g) = DOMAIN f \cup DOMAIN g
    BY Zenon DEF With
<1>2. ASSUME NEW p \in DOMAIN With(f, g)
      PROVE  With(f, g)[p] = IF p \in DOMAIN f THEN f[p] ELSE g[p]
    BY Zenon DEF With
<1>. QED BY Zenon, <1>1, <1>2 DEF NewOK, Own

\* A delete, or a job of expiry for an entry it found expired.
LEMMA DeleteStarts ==
  ASSUME NEW kind \in {"delete", "lazy", "expire"},
         NEW i \in Instances, up[i] = "up", NEW a \in Addrs,
         kind # "delete" => Expired(table[i][a], now) \/ a \in sweep[i].todo
  PROVE  /\ StartOK(NewJob(kind, i, a, NoEntry))
         /\ NewJob(kind, i, a, NoEntry).kind = kind
         /\ NewJob(kind, i, a, NoEntry).a = a
  BY Zenon DEF StartOK, NewJob, Jobs, Kinds, Steps

\* A put that looked for the block it replaces.
LEMMA PutStarts ==
  ASSUME Types, NEW i \in Instances, up[i] = "up", NEW a \in Addrs,
         NEW exp \in Exps, NEW src \in Sources
  PROVE  LET j == NewJob("put", i, a, Record(FirstSeen(i, a), exp, src)) IN
         /\ StartOK(j)
         /\ j.kind = "put" /\ j.a = a /\ j.rec.exp = exp /\ j.rec.src = src
<1>1. ASSUME NEW r \in Values, r.first = FirstSeen(i, a)
      PROVE  LET j == NewJob("put", i, a, r) IN
             StartOK(j) /\ j.kind = "put" /\ j.a = a /\ j.rec = r
    BY Zenon, <1>1 DEF StartOK, NewJob, Jobs, Kinds, Steps
<1>2. PICK t \in Times : t = FirstSeen(i, a)
    BY Zenon, FirstSeenTyped
<1>3. PICK r : r = Record(t, exp, src)
    BY Zenon
<1>4. r \in Values /\ r.first = t /\ r.exp = exp /\ r.src = src
    BY <1>3, RecordTyped
<1>5. PICK j : j = NewJob("put", i, a, r)
    BY Zenon
<1>6. StartOK(j) /\ j.kind = "put" /\ j.a = a /\ j.rec = r
    BY Zenon, <1>1, <1>2, <1>4, <1>5
<1>7. j.rec.exp = exp /\ j.rec.src = src
    BY Zenon, <1>4, <1>6
<1>. QED BY Zenon, <1>2, <1>3, <1>5, <1>6, <1>7

\* Lazy expiry begins at most one job, for an expired entry.
LEMMA LazyStarts ==
  ASSUME NEW i \in Instances, up[i] = "up", NEW a \in Addrs,
         NEW lazy \in Lazy(i, a, table[i][a])
  PROVE  /\ NewOK(lazy) /\ Own(lazy)
         /\ \A p \in DOMAIN lazy :
              p \in Lazies /\ lazy[p].kind = "lazy" /\ lazy[p].a = a
<1>1. CASE Expired(table[i][a], now)
  <2>1. PICK q \in {q \in Lazies : ~Active(q)} :
          lazy = [p \in {q} |-> NewJob("lazy", i, a, NoEntry)]
      BY Zenon, <1>1 DEF Lazy
  <2>2. PICK j : j = NewJob("lazy", i, a, NoEntry)
      BY Zenon
  <2>3. StartOK(j) /\ j.kind = "lazy" /\ j.a = a
      BY <1>1, <2>2, DeleteStarts
  <2>4. lazy = [p \in {q} |-> j] /\ q \in Procs /\ q \in Lazies
      BY Zenon, <2>1, <2>2 DEF Procs
  <2>5. NewOK(lazy) /\ Own(lazy)
      BY Zenon, <2>3, <2>4, OneNew
  <2>. QED BY Zenon, <2>3, <2>4, <2>5
<1>2. CASE ~Expired(table[i][a], now)
  <2>1. lazy = <<>>
      BY Zenon, <1>2 DEF Lazy
  <2>. QED BY <2>1 DEF NewOK, Own
<1>. QED BY Zenon, <1>1, <1>2

\* Jobs begin, and nothing else changes but what the worker has left to do.
Begins ==
  /\ \E new : NewOK(new) /\ Begin(new)
  /\ UNCHANGED <<etcdVars, replicaVars, now, up, dirty, unread>>
  /\ requests' \in 0..MaxRequests
  /\ sweep' \in [Instances -> [phase : {"wait", "ip", "cidr"},
                               at : Times \cup {0}, todo : SUBSET Addrs]]
  /\ \A k \in Instances :
       /\ sweep'[k].phase = sweep[k].phase
       /\ sweep'[k].at = sweep[k].at
       /\ sweep'[k].todo \subseteq sweep[k].todo

\* What a request, a read or the worker's next entry begin.
LEMMA Starts ==
  ASSUME Types, NEW i \in Instances, Receive(i) \/ expireNext(i)
  PROVE  Begins /\ \E new : NewOK(new) /\ Own(new) /\ Begin(new)
<1> DEFINE Rest == /\ UNCHANGED <<etcdVars, replicaVars, now, up, dirty, unread>>
                   /\ sweep' = sweep /\ requests' \in 0..MaxRequests
<1>1. ASSUME NEW p, Request(p, i)
      PROVE  Rest /\ p \in Procs /\ ~Active(p) /\ p \in Clients /\ up[i] = "up"
    BY <1>1, BlocklistAssumption DEF Request, Procs, Types, TypeOK
<1>2. ASSUME NEW p, NEW ip \in IPs, NEW exp \in Expirations, NEW src \in Sources,
             handlePut(p, i, ip, exp, src)
      PROVE  Rest /\ \E new : NewOK(new) /\ Own(new) /\ Begin(new)
  <2> DEFINE put == NewJob("put", i, ip, Record(FirstSeen(i, ip), exp, src))
  <2>1. Request(p, i) /\ ip \in Addrs
      BY Zenon, <1>2 DEF handlePut, Addrs
  <2>2. PICK lazy \in Lazy(i, ip, table[i][ip]) :
          Begin(With([q \in {p} |-> put], lazy))
      BY Zenon, <1>2 DEF handlePut
  <2>3. NewOK([q \in {p} |-> put]) /\ Own([q \in {p} |-> put])
    <3>1. StartOK(put)
        BY Zenon, <1>1, <2>1, PutStarts DEF Exps
    <3>. HIDE DEF put
    <3>. QED BY Zenon, <1>1, <2>1, <3>1, OneNew
  <2>4. NewOK(lazy) /\ Own(lazy)
      BY Zenon, <1>1, <2>1, LazyStarts
  <2>. QED BY Zenon, <1>1, <2>1, <2>2, <2>3, <2>4, WithNew
<1>3. ASSUME NEW p, NEW net \in Nets, NEW exp \in Expirations,
             NEW src \in Sources, handlePutNetwork(p, i, net, exp, src)
      PROVE  Rest /\ \E new : NewOK(new) /\ Own(new) /\ Begin(new)
  <2>1. Request(p, i) /\ net \in Addrs
      BY Zenon, <1>3 DEF handlePutNetwork, Addrs
  <2>2. Begin([q \in {p} |->
                 NewJob("put", i, net, Record(FirstSeen(i, net), exp, src))])
      BY Zenon, <1>3 DEF handlePutNetwork
  <2>3. PICK put : put = NewJob("put", i, net, Record(FirstSeen(i, net), exp, src))
      BY Zenon
  <2>4. StartOK(put) /\ Begin([q \in {p} |-> put])
      BY Zenon, <1>1, <2>1, <2>2, <2>3, PutStarts DEF Exps
  <2>. QED BY Zenon, <1>1, <2>1, <2>3, <2>4, OneNew
<1>4. ASSUME NEW p, NEW a \in Addrs,
             handleDelete(p, i, a) \/ handleDeleteNetwork(p, i, a)
      PROVE  Rest /\ \E new : NewOK(new) /\ Own(new) /\ Begin(new)
  <2>1. Request(p, i) /\ Begin([q \in {p} |-> NewJob("delete", i, a, NoEntry)])
      BY Zenon, <1>4 DEF handleDelete, handleDeleteNetwork
  <2>2. PICK j : j = NewJob("delete", i, a, NoEntry)
      BY Zenon
  <2>3. StartOK(j)
      BY <1>1, <2>1, <2>2, DeleteStarts
  <2>. QED BY Zenon, <1>1, <2>1, <2>2, <2>3, OneNew
<1>5. ASSUME NEW ip \in IPs, ipTableLookup(i, ip)
      PROVE  Rest /\ \E new : NewOK(new) /\ Own(new) /\ Begin(new)
  <2>1. Rest /\ up[i] = "up" /\ ip \in Addrs
      BY Zenon, <1>5 DEF ipTableLookup, Addrs, Types, TypeOK
  <2>2. PICK lazy \in Lazy(i, ip, table[i][ip]) : Begin(lazy)
      BY Zenon, <1>5 DEF ipTableLookup
  <2>. QED BY Zenon, <2>1, <2>2, LazyStarts
<1>6. ASSUME NEW ip \in IPs, handleLookup(i, ip)
      PROVE  Rest /\ \E new : NewOK(new) /\ Own(new) /\ Begin(new)
  <2>1. Rest /\ up[i] = "up" /\ ip \in Addrs
      BY Zenon, <1>6 DEF handleLookup, Addrs, Types, TypeOK
  <2>2. PICK lazy \in Lazy(i, ip, table[i][ip]) :
          \/ Begin(lazy)
          \/ \E net \in Nets : \E lazy2 \in Lazy(i, net, table[i][net]) :
               Begin(With(lazy, lazy2))
      BY Zenon, <1>6 DEF handleLookup
  <2>3. NewOK(lazy) /\ Own(lazy)
      BY Zenon, <2>1, LazyStarts
  <2>4. ASSUME NEW net \in Nets, NEW lazy2 \in Lazy(i, net, table[i][net])
        PROVE  NewOK(With(lazy, lazy2)) /\ Own(With(lazy, lazy2))
      BY Zenon, <2>1, <2>3, LazyStarts, WithNew DEF Addrs
  <2>. QED BY Zenon, <2>1, <2>2, <2>3, <2>4
<1>7. CASE Receive(i)
  <2>1. Rest /\ \E new : NewOK(new) /\ Own(new) /\ Begin(new)
      BY Zenon, <1>2, <1>3, <1>4, <1>5, <1>6, <1>7
         DEF Receive, handlePutRejected, handleDNSRequest, Addrs
  <2>. QED BY Zenon, <2>1 DEF Begins, Types, TypeOK
<1>8. CASE expireNext(i)
  <2>1. PICK a \in sweep[i].todo :
          /\ Begin([p \in {i} |-> NewJob("expire", i, a, NoEntry)])
          /\ sweep' = [sweep EXCEPT ![i] =
                         [phase |-> sweep[i].phase, at |-> sweep[i].at,
                          todo |-> sweep[i].todo \ {a}]]
      BY Zenon, <1>8 DEF expireNext
  <2>2. /\ a \in Addrs /\ up[i] = "up" /\ i \in Procs /\ ~Active(i)
        /\ requests' \in 0..MaxRequests
      BY Zenon, <1>8, <2>1 DEF expireNext, Types, TypeOK, Running, Procs
  <2>3. \E new : NewOK(new) /\ Own(new) /\ Begin(new)
    <3>1. PICK j : j = NewJob("expire", i, a, NoEntry) /\ StartOK(j)
        BY Zenon, <2>1, <2>2, DeleteStarts
    <3>2. Begin([p \in {i} |-> j])
        BY Zenon, <2>1, <3>1
    <3>. QED BY Zenon, <2>2, <3>1, <3>2, OneNew
  <2>4. /\ sweep'[i].todo = sweep[i].todo \ {a}
        /\ sweep'[i].phase = sweep[i].phase /\ sweep'[i].at = sweep[i].at
        /\ \A k \in Instances : k # i => sweep'[k] = sweep[k]
        /\ sweep' \in [Instances -> [phase : {"wait", "ip", "cidr"},
                                     at : Times \cup {0}, todo : SUBSET Addrs]]
      BY Zenon, <2>1 DEF Types, TypeOK
  <2>. QED BY Zenon, <1>8, <2>2, <2>3, <2>4 DEF expireNext, Begins
<1>. QED BY Zenon, <1>7, <1>8

\* A job that goes on as it was, though perhaps no longer alone.
Kept(p) ==
  /\ job'[p].kind = job[p].kind /\ job'[p].inst = job[p].inst
  /\ job'[p].a = job[p].a /\ job'[p].rec = job[p].rec
  /\ job'[p].step = job[p].step
  /\ job'[p].clean => job[p].clean

\* A job that begins.
Fresh(p) ==
  LET j == job'[p] IN
  /\ ~Active(p) /\ j.step = "key"
  /\ j.a \in Addrs /\ j.inst \in Instances /\ up[j.inst] = "up"
  /\ j.kind = "put" => /\ j.rec \in Values
                       /\ j.rec.first = FirstSeen(j.inst, j.a)
  /\ j.kind \in {"lazy", "expire"} =>
       Expired(table[j.inst][j.a], now) \/ j.a \in sweep[j.inst].todo

\* Job j begins.
Begun(p, j) ==
  /\ job'[p].kind = j.kind /\ job'[p].inst = j.inst
  /\ job'[p].a = j.a /\ job'[p].rec = j.rec /\ job'[p].step = j.step

\* After new jobs begin, a clean job is alone with its address.
LEMMA BeginEffect ==
  ASSUME Types, NEW new, NewOK(new), Begin(new)
  PROVE  /\ job' \in [Procs -> Jobs]
         /\ \A p \in Procs : Kept(p) \/ Fresh(p)
         /\ \A p \in Procs : p \notin DOMAIN new => Kept(p)
         /\ \A p \in DOMAIN new : Fresh(p) /\ Begun(p, new[p])
         /\ \A p, q \in Procs :
              (job'[p].clean /\ job'[q].step # "done" /\ job'[q].a = job'[p].a)
                => q = p
<1> DEFINE m(p) == IF p \in DOMAIN new THEN new[p] ELSE job[p]
           Alone(p) == {q \in Procs : m(q).a = m(p).a /\ m(q).step # "done"}
                         \subseteq {p}
<1>1. job' = [p \in Procs |-> Moved(m(p), m(p).step, m(p).clean /\ Alone(p))]
    BY Zenon DEF Begin
<1>2. \A p \in Procs : m(p) \in Jobs
    BY Zenon, JobTypes DEF NewOK, StartOK
<1>3. ASSUME NEW p \in Procs
      PROVE  /\ job'[p] \in Jobs
             /\ job'[p].kind = m(p).kind /\ job'[p].inst = m(p).inst
             /\ job'[p].a = m(p).a /\ job'[p].rec = m(p).rec
             /\ job'[p].step = m(p).step
             /\ job'[p].clean => m(p).clean /\ Alone(p)
  <2>1. \A j \in Jobs, c \in BOOLEAN :
          LET k == Moved(j, j.step, c) IN
          /\ k \in Jobs /\ k.kind = j.kind /\ k.inst = j.inst /\ k.a = j.a
          /\ k.rec = j.rec /\ k.step = j.step /\ k.clean = c
      BY DEF Moved, Jobs
  <2> DEFINE c == m(p).clean /\ Alone(p)
  <2>2. c \in BOOLEAN /\ (c => m(p).clean /\ Alone(p))
      BY Zenon
  <2>3. job'[p] = Moved(m(p), m(p).step, c)
      BY Zenon, <1>1
  <2>4. m(p) \in Jobs
      BY Zenon, <1>2
  <2>. HIDE DEF m, Alone, c
  <2>. QED BY <2>1, <2>2, <2>3, <2>4
<1>4. job' \in [Procs -> Jobs]
  <2>1. job' = [p \in Procs |-> job'[p]]
      BY Zenon, <1>1
  <2>. QED BY Zenon, <1>3, <2>1
<1>5. ASSUME NEW p \in DOMAIN new PROVE Fresh(p) /\ Begun(p, new[p])
  <2>1. p \in Procs /\ ~Active(p) /\ StartOK(new[p])
      BY Zenon DEF NewOK
  <2>2. /\ new[p].kind = job'[p].kind /\ new[p].inst = job'[p].inst
        /\ new[p].a = job'[p].a /\ new[p].rec = job'[p].rec
        /\ new[p].step = job'[p].step
      BY Zenon, <1>3, <2>1
  <2>. QED BY Zenon, <2>1, <2>2 DEF Fresh, StartOK, Begun
<1>7. ASSUME NEW p \in Procs, p \notin DOMAIN new PROVE Kept(p)
    BY Zenon, <1>3, <1>7 DEF Kept
<1>6. ASSUME NEW p \in Procs, NEW q \in Procs, job'[p].clean,
             job'[q].step # "done", job'[q].a = job'[p].a
      PROVE  q = p
  <2>1. Alone(p) /\ m(q).a = m(p).a /\ m(q).step # "done"
      BY <1>3, <1>6
  <2>. HIDE DEF m
  <2>. QED BY Zenon, <2>1
<1>. QED BY Zenon, <1>4, <1>5, <1>6, <1>7

----------------------------------------------------------------------------
(* The steps of a job                                                      *)

\* A job goes on: it keeps what it is about, unless it is over and forgotten,
\* and no other job changes.
LEMMA AdvanceEffect ==
  ASSUME Types, NEW p \in Procs, Active(p), NEW to \in Steps, NEW ok \in BOOLEAN,
         to = "ptr" => job[p].a \in IPs, Advance(p, to, ok)
  PROVE  /\ job' \in [Procs -> Jobs]
         /\ \A q \in Procs : q # p => job'[q] = job[q]
         /\ job'[p].step = to
         /\ to = "done" /\ p \notin Clients => job'[p] = NoJob
         /\ to # "done" \/ p \in Clients =>
              /\ job'[p].kind = job[p].kind /\ job'[p].inst = job[p].inst
              /\ job'[p].a = job[p].a /\ job'[p].rec = job[p].rec
              /\ job'[p].clean => job[p].clean /\ ok
         /\ dirty' = IF to # "done" THEN dirty
                     ELSE IF job[p].clean /\ ok THEN dirty \ {job[p].a}
                     ELSE dirty \cup {job[p].a}
         /\ dirty' \subseteq Addrs
<1> DEFINE c == job[p].clean /\ ok
           j == IF to = "done" /\ p \notin Clients THEN NoJob
                  ELSE Moved(job[p], to, c)
<1>1. /\ job' = [job EXCEPT ![p] = j]
      /\ dirty' = IF to # "done" THEN dirty
                  ELSE IF c THEN dirty \ {job[p].a} ELSE dirty \cup {job[p].a}
    BY Zenon DEF Advance
<1>2. job \in [Procs -> Jobs] /\ job[p] \in Jobs /\ c \in BOOLEAN
    BY Zenon, JobTypes
<1>3. /\ NoJob \in Jobs /\ NoJob.step = "done" /\ NoJob.kind = "delete"
      /\ Moved(job[p], to, c) \in Jobs
      /\ Moved(job[p], to, c).kind = job[p].kind
      /\ Moved(job[p], to, c).inst = job[p].inst
      /\ Moved(job[p], to, c).a = job[p].a
      /\ Moved(job[p], to, c).rec = job[p].rec
      /\ Moved(job[p], to, c).step = to
      /\ Moved(job[p], to, c).clean = c
  <2>. HIDE DEF c
  <2>. QED BY <1>2 DEF Moved, Jobs, NoJob, Steps, Kinds
<1>4. /\ j \in Jobs /\ j.step = to
      /\ to = "done" /\ p \notin Clients => j = NoJob
      /\ to # "done" \/ p \in Clients =>
           /\ j.kind = job[p].kind /\ j.inst = job[p].inst
           /\ j.a = job[p].a /\ j.rec = job[p].rec /\ (j.clean => c)
  <2>. HIDE DEF c
  <2>. QED BY Zenon, <1>3
<1>5. /\ job' \in [Procs -> Jobs] /\ job'[p] = j
      /\ \A q \in Procs : q # p => job'[q] = job[q]
  <2>. HIDE DEF j
  <2>. QED BY Zenon, <1>1, <1>2, <1>4
<1>6. dirty \subseteq Addrs /\ job[p].a \in Addrs
    BY Zenon DEF Types, TypeOK, Running
<1>7. dirty' \subseteq Addrs
    BY Zenon, <1>1, <1>6
<1>. HIDE DEF j
<1>. QED BY Zenon, <1>1, <1>4, <1>5, <1>7

\* A write of a job: its key holds what the job puts there, or nothing, and
\* no other key changes.
LEMMA PersistEffect ==
  ASSUME Types, NEW p \in Procs, persist(p), NEW a \in Addrs, job[p].a = a,
         NEW key, key = IF job[p].step = "key" THEN KeyOf(a) ELSE reverseKey(a)
  PROVE  /\ StoreOK' /\ key \in Keys
         /\ kv'[key] # 0 <=> job[p].kind = "put"
         /\ job[p].step = "key" =>
              Held(key)' = IF job[p].kind = "put" THEN job[p].rec ELSE NoEntry
         /\ \A k \in Keys : k # key => kv'[k] = kv[k] /\ Held(k)' = Held(k)
         /\ Len(hist) \in Nat /\ Len(hist') \in Nat /\ Len(hist) <= Len(hist')
         /\ \A r \in 1..Len(hist) : hist'[r] = hist[r]
         /\ job[p].step = "key" /\ job[p].kind = "put" =>
              \E r \in 1..Len(hist') :
                hist'[r].key = KeyOf(a) /\ hist'[r].val = job[p].rec
<1>1. PICK rec : rec = IF job[p].step = "key" THEN job[p].rec ELSE PtrRecord
    BY Zenon
<1>2. /\ job[p].step \in {"key", "ptr"} /\ StoreOK
      /\ job[p].step = "ptr" => a \in IPs
      /\ job[p].kind = "put" => job[p].rec \in Values
  <2>1. StoreOK /\ job[p].step \in {"key", "ptr"}
      BY Zenon DEF persist, Types
  <2>. QED BY Zenon, <2>1, JobTypes
<1>3. key \in Keys /\ (job[p].kind = "put" => rec \in RecordsFor(key))
    BY <1>1, <1>2, KeyFacts
<1>4. IF job[p].kind = "put" THEN etcdPut(key, rec) ELSE etcdDelete(key)
    BY Zenon, <1>1 DEF persist
<1>5. Len(hist) \in Nat /\ (StoreOK' => Len(hist') \in Nat)
    BY <1>2 DEF StoreOK
<1>6. CASE job[p].kind = "put"
  <2>1. /\ StoreOK' /\ kv'[key] # 0 /\ Held(key)' = rec
        /\ \A k \in Keys : k # key => kv'[k] = kv[k] /\ Held(k)' = Held(k)
        /\ Len(hist) <= Len(hist')
        /\ \A r \in 1..Len(hist) : hist'[r] = hist[r]
        /\ \E r \in 1..Len(hist') : hist'[r] = [key |-> key, val |-> rec]
      BY Zenon, <1>2, <1>3, <1>4, <1>6, PutEffect
  <2>. QED BY <1>1, <1>3, <1>5, <1>6, <2>1
<1>7. CASE job[p].kind # "put"
  <2>1. /\ StoreOK' /\ kv'[key] = 0 /\ Held(key)' = NoEntry
        /\ \A k \in Keys : k # key => kv'[k] = kv[k] /\ Held(k)' = Held(k)
        /\ Len(hist) <= Len(hist')
        /\ \A r \in 1..Len(hist) : hist'[r] = hist[r]
      BY Zenon, <1>2, <1>3, <1>4, <1>7, DeleteEffect
  <2>. QED BY Zenon, <1>3, <1>5, <1>7, <2>1
<1>. QED BY Zenon, <1>6, <1>7

\* Where a job goes after a write.
LEMMA NextStepTyped ==
  ASSUME NEW p \in Procs, job[p].step \in {"key", "ptr"}
  PROVE  /\ NextStep(p) \in Steps
         /\ NextStep(p) = "ptr" => job[p].a \in IPs /\ job[p].step = "key"
         /\ NextStep(p) = "mem" =>
              /\ job[p].step = "ptr" \/ job[p].a \notin IPs
              /\ MultiInstance => job[p].kind = "expire"
         /\ NextStep(p) = "done" =>
              (job[p].step = "ptr" \/ job[p].a \notin IPs) /\ MultiInstance
         /\ NextStep(p) \in {"ptr", "mem", "done"}
  BY Zenon DEF NextStep, Afterwards, Steps

\* A job's step: one of the three outcomes of a request to etcd, or the update
\* of memory.
Moves(p) == persist(p) \/ persistFails(p) \/ persistHangs(p) \/ apply(p)

\* The job and the mark on its address after a step.
LEMMA MoveEffect ==
  ASSUME Types, NEW p \in Procs, Moves(p)
  PROVE  /\ Active(p) /\ job' \in [Procs -> Jobs]
         /\ job[p].step \in {"key", "ptr", "mem"}
         /\ \A q \in Procs : q # p => job'[q] = job[q]
         /\ job'[p] = NoJob \/
              /\ job'[p].kind = job[p].kind /\ job'[p].inst = job[p].inst
              /\ job'[p].a = job[p].a /\ job'[p].rec = job[p].rec
              /\ job'[p].clean => job[p].clean /\ (persist(p) \/ apply(p))
         /\ job'[p].step # "key"
         /\ job'[p].step = "ptr" => job[p].a \in IPs /\ job[p].step = "key"
         /\ job'[p].step = "mem" =>
              /\ job[p].step = "ptr" \/ job[p].a \notin IPs
              /\ job[p].step # "mem"
              /\ MultiInstance => job[p].kind = "expire"
         /\ job'[p].step = "done" =>
              \/ job[p].step = "mem"
              \/ (job[p].step = "ptr" \/ job[p].a \notin IPs) /\ MultiInstance
         /\ dirty' \subseteq Addrs
         /\ \A a \in Addrs : a # job[p].a => (a \in dirty' <=> a \in dirty)
         /\ job'[p].step = "done" /\ job[p].a \notin dirty' =>
              job[p].clean /\ (persist(p) \/ apply(p))
         /\ job'[p].step # "done" /\ job[p].a \notin dirty' => job[p].a \notin dirty
         /\ UNCHANGED <<pos, now, up, sweep, requests>>
<1>1. ASSUME NEW ok \in BOOLEAN, NEW to \in Steps, Active(p), Advance(p, to, ok),
             to = "ptr" => job[p].a \in IPs
      PROVE  /\ job' \in [Procs -> Jobs] /\ job'[p].step = to
             /\ \A q \in Procs : q # p => job'[q] = job[q]
             /\ job'[p] = NoJob \/
                  /\ job'[p].kind = job[p].kind /\ job'[p].inst = job[p].inst
                  /\ job'[p].a = job[p].a /\ job'[p].rec = job[p].rec
                  /\ job'[p].clean => job[p].clean /\ ok
             /\ dirty' \subseteq Addrs
             /\ \A a \in Addrs : a # job[p].a => (a \in dirty' <=> a \in dirty)
             /\ to = "done" /\ job[p].a \notin dirty' => job[p].clean /\ ok
             /\ to # "done" /\ job[p].a \notin dirty' => job[p].a \notin dirty
    BY <1>1, AdvanceEffect
<1>2. CASE persist(p)
  <2>1. /\ job[p].step \in {"key", "ptr"} /\ Active(p) /\ Advance(p, NextStep(p), TRUE)
        /\ UNCHANGED <<pos, now, up, sweep, requests>>
      BY Zenon, <1>2 DEF persist, Active, replicaVars
  <2>. QED BY Zenon, <1>1, <1>2, <2>1, NextStepTyped
<1>3. CASE persistFails(p)
  <2>1. /\ job[p].step \in {"key", "ptr"} /\ Active(p) /\ Advance(p, NextStep(p), FALSE)
        /\ UNCHANGED <<pos, now, up, sweep, requests>>
      BY Zenon, <1>3 DEF persistFails, Active, replicaVars
  <2>. QED BY Zenon, <1>1, <2>1, NextStepTyped
<1>4. CASE apply(p)
  <2>1. /\ job[p].step = "mem" /\ Active(p) /\ Advance(p, "done", TRUE)
        /\ UNCHANGED <<pos, now, up, sweep, requests>>
      BY Zenon, <1>4 DEF apply, Active
  <2>. QED BY Zenon, <1>1, <1>4, <2>1 DEF Steps
<1>5. CASE persistHangs(p)
  <2>1. /\ job[p].step \in {"key", "ptr"} /\ Active(p)
        /\ job' = [job EXCEPT ![p] = Moved(job[p], "hung", FALSE)]
        /\ dirty' = dirty \cup {job[p].a}
        /\ UNCHANGED <<pos, now, up, sweep, requests>>
      BY Zenon, <1>5 DEF persistHangs, Active, replicaVars
  <2>2. job \in [Procs -> Jobs] /\ job[p] \in Jobs
      BY Zenon, JobTypes
  <2>3. dirty \subseteq Addrs /\ job[p].a \in Addrs
      BY Zenon, <2>1 DEF Types, TypeOK, Running
  <2>4. LET k == Moved(job[p], "hung", FALSE) IN
        /\ k \in Jobs /\ k.kind = job[p].kind /\ k.inst = job[p].inst
        /\ k.a = job[p].a /\ k.rec = job[p].rec /\ k.step = "hung"
        /\ k.clean = FALSE
      BY Zenon, <2>2 DEF Moved, Jobs, Steps
  <2>. QED BY Zenon, <2>1, <2>2, <2>3, <2>4
<1>. QED BY Zenon, <1>2, <1>3, <1>4, <1>5 DEF Moves

----------------------------------------------------------------------------
(* Type correctness                                                        *)

\* Holds initially.
LEMMA TypesInit == Init => Types
<1>. SUFFICES ASSUME Init PROVE Types
    BY Zenon
<1>1. hist \in Seq(Events) /\ Len(hist) = 1 /\ kv \in [Keys -> 0..Len(hist)]
  <2>1. BootEvent \in Events
      BY Zenon DEF BootEvent, Events
  <2>. HIDE DEF BootEvent
  <2>2. hist = <<BootEvent>> /\ kv = [k \in Keys |-> 0]
      BY Zenon DEF Init, etcdInit
  <2>. QED BY <2>1, <2>2
<1>2. StoreOK
    BY Zenon, <1>1 DEF StoreOK, Init, etcdInit
<1>3. \A p \in Procs : job[p] = NoJob
    BY Zenon DEF Init
<1>4. NoJob \in Jobs /\ NoJob.step = "done" /\ NoJob.kind = "delete"
    BY Zenon DEF NoJob, Jobs, Kinds, Steps
<1>5. \A i \in Instances : sweep[i] = Resting
    BY Zenon DEF Init
<1>6. Running
    BY <1>3, <1>4, <1>5 DEF Running, Active, Resting
<1>7. job \in [Procs -> Jobs]
    BY Zenon, <1>4 DEF Init
<1>8. /\ table \in [Instances -> [Addrs -> Entries \cup {NoEntry}]]
      /\ pos \in [Instances -> [Watchers -> 0..Len(hist)]]
    BY <1>1 DEF Init, ReplicaInit
<1>9. /\ sweep \in [Instances -> [phase : {"wait", "ip", "cidr"},
                                  at : Times \cup {0}, todo : SUBSET Addrs]]
      /\ up \in [Instances -> {"down", "loadCIDR", "up"}]
      /\ \A i \in Instances : sweep[i].phase = "wait" => sweep[i].todo = {}
    BY Zenon DEF Init, Resting
<1>10. /\ requests \in 0..MaxRequests /\ dirty \subseteq Addrs
       /\ unread \in [Instances -> SUBSET Addrs]
    BY BlocklistAssumption DEF Init
<1>11. now \in Times
    BY BlocklistAssumption DEF Init, Times
<1>12. TypeOK
    BY Zenon, <1>1, <1>3, <1>4, <1>7, <1>8, <1>9, <1>10, <1>11
       DEF TypeOK, Jobs, Steps
<1>. QED BY Zenon, <1>2, <1>6, <1>12 DEF Types

\* Kept when jobs begin.
LEMMA TypesBegin ==
  ASSUME Types, Begins
  PROVE  Types'
<1>1. PICK new : NewOK(new) /\ Begin(new)
    BY Zenon DEF Begins
<1>2. /\ job' \in [Procs -> Jobs]
      /\ \A p \in Procs : Kept(p) \/ Fresh(p)
    BY Zenon, <1>1, BeginEffect
<1>3. /\ UNCHANGED <<etcdVars, replicaVars, now, up, dirty, unread>>
      /\ requests' \in 0..MaxRequests
      /\ sweep' \in [Instances -> [phase : {"wait", "ip", "cidr"},
                                   at : Times \cup {0}, todo : SUBSET Addrs]]
      /\ \A k \in Instances :
           /\ sweep'[k].phase = sweep[k].phase
           /\ sweep'[k].at = sweep[k].at
           /\ sweep'[k].todo \subseteq sweep[k].todo
    BY Zenon DEF Begins
<1>4. StoreOK'
    BY Zenon, <1>3 DEF Types, StoreOK, etcdVars
<1>5. Running'
    BY <1>2, <1>3 DEF Types, Running, Active, Kept, Fresh
<1>6. ASSUME NEW p \in Procs
      PROVE  /\ job'[p].step = "ptr" => job'[p].a \in IPs
             /\ job'[p].kind = "put" => job'[p].rec \in Values
    BY Zenon, <1>2, JobTypes DEF Kept, Fresh
<1>7. \A k \in Instances : sweep'[k].phase = "wait" => sweep'[k].todo = {}
    BY Zenon, <1>3 DEF Types, TypeOK
<1>8. TypeOK'
    BY Zenon, <1>2, <1>3, <1>6, <1>7
       DEF Types, TypeOK, Jobs, Steps, etcdVars, replicaVars
<1>. QED BY Zenon, <1>4, <1>5, <1>8 DEF Types

\* Kept by the steps of a job.
LEMMA TypesMoves ==
  ASSUME Types, NEW p \in Procs, Moves(p)
  PROVE  Types'
<1>1. /\ Active(p) /\ job' \in [Procs -> Jobs]
      /\ \A q \in Procs : q # p => job'[q] = job[q]
      /\ job'[p] = NoJob \/
           /\ job'[p].kind = job[p].kind /\ job'[p].inst = job[p].inst
           /\ job'[p].a = job[p].a /\ job'[p].rec = job[p].rec
      /\ job'[p].step = "ptr" => job[p].a \in IPs
      /\ dirty' \subseteq Addrs
      /\ UNCHANGED <<pos, now, up, sweep, requests>>
    BY Zenon, MoveEffect
<1>2. NoJob.step = "done" /\ NoJob.kind = "delete"
    BY Zenon DEF NoJob
<1>3. PICK a \in Addrs : a = job[p].a
    BY Zenon, <1>1 DEF Types, Running
<1>4. StoreOK' /\ Len(hist) \in Nat /\ Len(hist') \in Nat /\ Len(hist) <= Len(hist')
  <2>1. CASE persist(p)
      BY Zenon, <1>3, <2>1, PersistEffect
  <2>2. CASE ~persist(p)
    <3>1. UNCHANGED etcdVars
        BY Zenon, <2>2 DEF Moves, persistFails, persistHangs, apply
    <3>. QED BY <3>1 DEF Types, StoreOK, etcdVars
  <2>. QED BY Zenon, <2>1, <2>2
<1>5. table' \in [Instances -> [Addrs -> Entries \cup {NoEntry}]]
  <2>1. CASE apply(p)
    <3>1. PICK e : /\ e = IF job[p].kind = "put" THEN Entry(a, job[p].rec, 0) ELSE NoEntry
                   /\ table' = [table EXCEPT ![job[p].inst][a] = e]
        BY Zenon, <1>3, <2>1 DEF apply
    <3>2. e \in Entries \cup {NoEntry}
        BY Zenon, <3>1, JobTypes DEF Entry, Entries
    <3>3. table \in [Instances -> [Addrs -> Entries \cup {NoEntry}]]
        BY Zenon DEF Types, TypeOK
    <3>. QED BY Zenon, <3>1, <3>2, <3>3
  <2>2. CASE ~apply(p)
      BY Zenon, <2>2
         DEF Moves, persist, persistFails, persistHangs, replicaVars, Types,
         TypeOK
  <2>. QED BY Zenon, <2>1, <2>2
<1>10. unread' \in [Instances -> SUBSET Addrs]
  <2>1. CASE apply(p)
    <3>1. unread' = [unread EXCEPT ![job[p].inst] = @ \ {a}]
        BY Zenon, <1>3, <2>1 DEF apply
    <3>. QED BY Zenon, <3>1 DEF Types, TypeOK
  <2>2. CASE ~apply(p)
      BY Zenon, <2>2
         DEF Moves, persist, persistFails, persistHangs, Types, TypeOK
  <2>. QED BY Zenon, <2>1, <2>2
<1>6. Running'
    BY <1>1, <1>2 DEF Types, Running, Active
<1>7. ASSUME NEW q \in Procs
      PROVE  /\ job'[q].step = "ptr" => job'[q].a \in IPs
             /\ job'[q].kind = "put" => job'[q].rec \in Values
    BY Zenon, <1>1, <1>2, JobTypes
<1>8. pos' \in [Instances -> [Watchers -> 0..Len(hist')]]
    BY <1>1, <1>4 DEF Types, TypeOK
<1>9. TypeOK'
  <2>1. /\ hist' \in Seq(Events) /\ kv' \in [Keys -> 0..Len(hist')]
        /\ now' = now /\ up' = up /\ sweep' = sweep /\ requests' = requests
      BY Zenon, <1>1, <1>4 DEF StoreOK
  <2>2. job' \in [Procs -> [kind : Kinds, inst : Instances \cup {NoEntry},
                        a : Addrs \cup {NoEntry},
                        rec : Values \cup {NoEntry},
                        step : {"key", "ptr", "mem", "hung", "done"},
                        clean : BOOLEAN]]
      BY Zenon, <1>1 DEF Jobs, Steps
  <2>. QED BY Zenon, <1>1, <1>5, <1>7, <1>8, <1>10, <2>1, <2>2
         DEF Types, TypeOK
<1>. QED BY Zenon, <1>4, <1>6, <1>9 DEF Types

\* Kept by the ticker, the turn to the networks and the clock.
LEMMA TypesQuiet ==
  ASSUME Types, clock \/ \E i \in Instances : tick(i) \/ turn(i)
  PROVE  /\ Types'
         /\ UNCHANGED <<etcdVars, replicaVars, up, job, requests, dirty, unread>>
         /\ now <= now'
<1>1. now \in Times /\ now \in Nat /\ MaxTime \in Nat
    BY BlocklistAssumption DEF Types, TypeOK, Times
<1>2. CASE clock
  <2>1. /\ now' \in Times /\ now <= now'
        /\ UNCHANGED <<etcdVars, replicaVars, up, job, sweep, requests, dirty, unread>>
      BY <1>1, <1>2 DEF clock, Times
  <2>2. TypeOK' /\ StoreOK'
      BY Zenon, <2>1 DEF Types, TypeOK, StoreOK, etcdVars, replicaVars
  <2>3. Running'
      BY <1>1, <2>1 DEF Types, Running, Active, Times
  <2>. QED BY Zenon, <2>1, <2>2, <2>3 DEF Types
<1>3. ASSUME NEW i \in Instances, tick(i) \/ turn(i)
      PROVE  /\ Types' /\ now <= now'
             /\ UNCHANGED <<etcdVars, replicaVars, up, job, requests, dirty, unread>>
  <2>1. PICK s : /\ sweep' = [sweep EXCEPT ![i] = s]
                 /\ s \in [phase : {"wait", "ip", "cidr"},
                            at : Times \cup {0}, todo : SUBSET Addrs]
                 /\ s.phase = "wait" => s.todo = {}
                 /\ s.phase # "wait" => up[i] = "up" /\ s.at \in 1..now
    <3>1. CASE tick(i)
      <4> DEFINE s == [phase |-> "ip", at |-> now,
                       todo |-> {a \in IPs : Expired(table[i][a], now)}]
      <4>1. sweep' = [sweep EXCEPT ![i] = s] /\ up[i] = "up"
          BY Zenon, <3>1 DEF tick
      <4>2. /\ s \in [phase : {"wait", "ip", "cidr"},
                      at : Times \cup {0}, todo : SUBSET Addrs]
            /\ s.phase = "ip" /\ s.at \in 1..now
          BY <1>1 DEF Addrs, Times
      <4>. HIDE DEF s
      <4>. QED BY Zenon, <4>1, <4>2
    <3>2. CASE turn(i)
      <4>1. /\ up[i] = "up" /\ sweep[i].at \in 1..now
          BY Zenon, <3>2 DEF turn, Types, Running
      <4>2. CASE sweep[i].phase = "ip"
        <5> DEFINE s == [phase |-> "cidr", at |-> sweep[i].at,
                         todo |-> {a \in Nets : Expired(table[i][a], sweep[i].at)}]
        <5>1. sweep' = [sweep EXCEPT ![i] = s]
            BY Zenon, <3>2, <4>2 DEF turn
        <5>2. /\ s \in [phase : {"wait", "ip", "cidr"},
                        at : Times \cup {0}, todo : SUBSET Addrs]
              /\ s.phase = "cidr" /\ s.at \in 1..now
            BY <1>1, <4>1 DEF Addrs, Times
        <5>. HIDE DEF s
        <5>. QED BY Zenon, <4>1, <5>1, <5>2
      <4>3. CASE sweep[i].phase # "ip"
        <5>1. sweep' = [sweep EXCEPT ![i] = Resting]
            BY Zenon, <3>2, <4>3 DEF turn
        <5>2. /\ Resting \in [phase : {"wait", "ip", "cidr"},
                              at : Times \cup {0}, todo : SUBSET Addrs]
              /\ Resting.phase = "wait" /\ Resting.todo = {}
            BY Zenon DEF Resting
        <5>. QED BY Zenon, <5>1, <5>2
      <4>. QED BY Zenon, <4>2, <4>3
    <3>. QED BY Zenon, <1>3, <3>1, <3>2
  <2>2. UNCHANGED <<etcdVars, replicaVars, now, up, job, requests, dirty, unread>>
      BY Zenon, <1>3 DEF tick, turn
  <2>3. /\ sweep \in [Instances -> [phase : {"wait", "ip", "cidr"},
                                    at : Times \cup {0}, todo : SUBSET Addrs]]
        /\ \A k \in Instances : sweep[k].phase = "wait" => sweep[k].todo = {}
      BY Zenon DEF Types, TypeOK
  <2>4. /\ sweep'[i] = s /\ \A k \in Instances : k # i => sweep'[k] = sweep[k]
        /\ sweep' \in [Instances -> [phase : {"wait", "ip", "cidr"},
                                     at : Times \cup {0}, todo : SUBSET Addrs]]
      BY Zenon, <2>1, <2>3
  <2>5. \A k \in Instances : sweep'[k].phase = "wait" => sweep'[k].todo = {}
      BY Zenon, <2>1, <2>3, <2>4
  <2>6. Running'
      BY <2>1, <2>2, <2>4 DEF Types, Running, Active
  <2>7. StoreOK'
      BY Zenon, <2>2 DEF Types, StoreOK, etcdVars
  <2>8. TypeOK'
      BY Zenon, <2>2, <2>4, <2>5 DEF Types, TypeOK, etcdVars, replicaVars
  <2>. QED BY <1>1, <2>2, <2>6, <2>7, <2>8 DEF Types
<1>. QED BY Zenon, <1>2, <1>3

\* A load fills one table and leaves the other alone.
LEMMA FillEffect ==
  ASSUME Types, NEW i \in Instances, NEW w \in Watchers,
         NEW entry \in [Owned(w) -> Entries \cup {NoEntry}], Fill(i, w, entry)
  PROVE  /\ table' \in [Instances -> [Addrs -> Entries \cup {NoEntry}]]
         /\ pos' \in [Instances -> [Watchers -> 0..Len(hist)]]
         /\ \A k \in Instances : k # i => table'[k] = table[k]
         /\ \A a \in Addrs : table'[i][a] =
              IF a \in Owned(w) THEN entry[a] ELSE table[i][a]
<1> DEFINE f == [a \in Addrs |->
                   IF a \in Owned(w) THEN entry[a] ELSE table[i][a]]
<1>1. /\ table \in [Instances -> [Addrs -> Entries \cup {NoEntry}]]
      /\ pos \in [Instances -> [Watchers -> 0..Len(hist)]]
      /\ Len(hist) \in Nat
  <2>1. hist \in Seq(Events)
      BY Zenon DEF Types, TypeOK
  <2>2. Len(hist) \in Nat
      BY <2>1
  <2>. QED BY Zenon, <2>2 DEF Types, TypeOK
<1>2. table' = [table EXCEPT ![i] = f] /\ pos' = [pos EXCEPT ![i][w] = Len(hist)]
    BY Zenon, <1>1 DEF Fill
<1>3. \A a \in Addrs : f[a] = IF a \in Owned(w) THEN entry[a] ELSE table[i][a]
    BY Zenon
<1>4. \A a \in Addrs : f[a] \in Entries \cup {NoEntry}
  <2>1. \A a \in Owned(w) : entry[a] \in Entries \cup {NoEntry}
      BY Zenon
  <2>2. \A a \in Addrs : table[i][a] \in Entries \cup {NoEntry}
      BY Zenon, <1>1
  <2>. HIDE DEF f
  <2>. QED BY Zenon, <1>3, <2>1, <2>2
<1>5. f \in [Addrs -> Entries \cup {NoEntry}]
    BY Zenon, <1>4
<1>. HIDE DEF f
<1>. QED BY <1>1, <1>2, <1>3, <1>5

\* A load that is read fills it from etcd; one that is not empties it, and marks
\* the addresses of the blocks it missed.
LEMMA LoadEffect ==
  ASSUME Types, NEW i \in Instances, NEW w \in Watchers, Load(i, w)
  PROVE  /\ table' \in [Instances -> [Addrs -> Entries \cup {NoEntry}]]
         /\ pos' \in [Instances -> [Watchers -> 0..Len(hist)]]
         /\ unread' \in [Instances -> SUBSET Addrs]
         /\ \A k \in Instances :
              k # i => table'[k] = table[k] /\ unread'[k] = unread[k]
         /\ \A a \in Addrs \ Owned(w) :
              /\ table'[i][a] = table[i][a]
              /\ a \in unread'[i] <=> a \in unread[i]
         /\ \A a \in Owned(w) :
              \/ /\ table'[i][a] = Stored(a)
                 /\ a \in unread'[i] <=> a \in unread[i]
              \/ /\ table'[i][a] = NoEntry
                 /\ a \in unread'[i] <=> (a \in unread[i] \/ Stored(a) # NoEntry)
<1>1. StoreOK /\ Owned(w) \subseteq Addrs /\ unread \in [Instances -> SUBSET Addrs]
    BY Zenon DEF Types, TypeOK, Owned, Addrs
<1>2. CASE LoadAll(i, w) /\ UNCHANGED unread
  <2> DEFINE entry == [a \in Owned(w) |-> Stored(a)]
  <2>1. Fill(i, w, entry)
      BY Zenon, <1>2 DEF LoadAll
  <2>2. entry \in [Owned(w) -> Entries \cup {NoEntry}]
      BY Zenon, <1>1, StoredHeld
  <2>3. \A a \in Owned(w) : entry[a] = Stored(a)
      BY Zenon
  <2>. HIDE DEF entry
  <2>. QED BY Zenon, <1>1, <1>2, <2>1, <2>2, <2>3, FillEffect
<1>3. CASE LoadNothing(i, w) /\
             unread' = [unread EXCEPT ![i] =
                          @ \cup {a \in Owned(w) : Stored(a) # NoEntry}]
  <2> DEFINE entry == [a \in Owned(w) |-> NoEntry]
             left  == {a \in Owned(w) : Stored(a) # NoEntry}
  <2>1. Fill(i, w, entry)
      BY Zenon, <1>3 DEF LoadNothing
  <2>2. entry \in [Owned(w) -> Entries \cup {NoEntry}]
      BY Zenon
  <2>3. \A a \in Owned(w) : entry[a] = NoEntry
      BY Zenon
  <2>. HIDE DEF entry
  <2>4. /\ unread' \in [Instances -> SUBSET Addrs]
        /\ \A k \in Instances : k # i => unread'[k] = unread[k]
        /\ unread'[i] = unread[i] \cup left
      BY Zenon, <1>1, <1>3
  <2>5. \A a : a \in unread'[i] <=>
               (a \in unread[i] \/ (a \in Owned(w) /\ Stored(a) # NoEntry))
      BY Zenon, <2>4
  <2>6. /\ table' \in [Instances -> [Addrs -> Entries \cup {NoEntry}]]
        /\ pos' \in [Instances -> [Watchers -> 0..Len(hist)]]
        /\ \A k \in Instances : k # i => table'[k] = table[k]
        /\ \A a \in Addrs \ Owned(w) : table'[i][a] = table[i][a]
        /\ \A a \in Owned(w) : table'[i][a] = NoEntry
      BY Zenon, <1>1, <2>1, <2>2, <2>3, FillEffect
  <2>. QED BY Zenon, <2>4, <2>5, <2>6
<1>. QED BY Zenon, <1>2, <1>3 DEF Load

\* Kept when an instance loads, replicates or ends.
LEMMA TypesInstance ==
  ASSUME Types, NEW i \in Instances, boot(i) \/ crash(i) \/ watch(i)
  PROVE  Types'
<1>1. /\ table \in [Instances -> [Addrs -> Entries \cup {NoEntry}]]
      /\ pos \in [Instances -> [Watchers -> 0..Len(hist)]]
      /\ Len(hist) \in Nat /\ StoreOK
    BY DEF Types, TypeOK, StoreOK
<1>2. UNCHANGED <<etcdVars, now, requests>>
    BY Zenon DEF boot, crash, watch
<1>3. StoreOK'
    BY Zenon, <1>1, <1>2 DEF StoreOK, etcdVars
<1>4. /\ table' \in [Instances -> [Addrs -> Entries \cup {NoEntry}]]
      /\ pos' \in [Instances -> [Watchers -> 0..Len(hist)]]
      /\ unread' \in [Instances -> SUBSET Addrs]
  <2>1. ASSUME NEW w \in Watchers, Load(i, w)
        PROVE  /\ table' \in [Instances -> [Addrs -> Entries \cup {NoEntry}]]
               /\ pos' \in [Instances -> [Watchers -> 0..Len(hist)]]
               /\ unread' \in [Instances -> SUBSET Addrs]
      BY Zenon, <2>1, LoadEffect
  <2>2. ASSUME NEW w \in Watchers, Deliver(i, w)
        PROVE  /\ table' \in [Instances -> [Addrs -> Entries \cup {NoEntry}]]
               /\ pos' \in [Instances -> [Watchers -> 0..Len(hist)]]
    <3>1. PICK r : r = pos[i][w] + 1
        BY Zenon
    <3>2. r \in 1..Len(hist)
        BY <1>1, <2>2, <3>1 DEF Deliver
    <3>3. hist[r] \in Events
        BY <1>1, <3>2 DEF StoreOK
    <3>4. pos' = [pos EXCEPT ![i][w] = r]
        BY Zenon, <2>2, <3>1 DEF Deliver
    <3>5. CASE Decodes(w, hist[r].key)
      <4>1. hist[r].key.id \in Addrs /\ hist[r].val \in Values \cup {NoEntry}
          BY <3>3, <3>5 DEF Events, Decodes, Keys, BootEvent, RecordsFor, Addrs,
             rblKey, reverseKey, cidrToEtcdKey
      <4>2. Entry(hist[r].key.id, hist[r].val, r) \in Entries \cup {NoEntry}
          BY <3>2, <4>1 DEF Entry, Entries
      <4>3. table' = [table EXCEPT ![i][hist[r].key.id] =
                        Entry(hist[r].key.id, hist[r].val, r)]
          BY Zenon, <2>2, <3>1, <3>5 DEF Deliver
      <4>. QED BY <1>1, <3>2, <3>4, <4>1, <4>2, <4>3
    <3>6. CASE ~Decodes(w, hist[r].key)
        BY <1>1, <2>2, <3>1, <3>2, <3>4, <3>6 DEF Deliver
    <3>. QED BY Zenon, <3>5, <3>6
  <2>3. ASSUME NEW w \in Watchers, Resume(i, w)
        PROVE  /\ table' \in [Instances -> [Addrs -> Entries \cup {NoEntry}]]
               /\ pos' \in [Instances -> [Watchers -> 0..Len(hist)]]
      BY <1>1, <2>3 DEF Resume
  <2>4. CASE boot(i)
      BY Zenon, <2>1, <2>4 DEF boot, Watchers
  <2>5. CASE crash(i)
    <3>1. unread' \in [Instances -> SUBSET Addrs]
        BY Zenon, <2>5 DEF crash, Types, TypeOK
    <3>. QED BY <1>1, <2>5, <3>1 DEF crash, Lose, Watchers
  <2>6. CASE watch(i)
    <3>1. unread' \in [Instances -> SUBSET Addrs]
        BY Zenon, <2>6 DEF watch, Types, TypeOK
    <3>. QED BY Zenon, <2>2, <2>3, <2>6, <3>1 DEF watch
  <2>. QED BY Zenon, <2>4, <2>5, <2>6
<1>5. CASE boot(i)
  <2>1. /\ up[i] # "up" /\ \A k \in Instances : k # i => up'[k] = up[k]
        /\ UNCHANGED <<job, sweep, dirty>>
        /\ up' \in [Instances -> {"down", "loadCIDR", "up"}]
      BY Zenon, <1>5 DEF boot, Types, TypeOK
  <2>2. Running'
      BY Zenon, <1>2, <2>1 DEF Types, Running, Active
  <2>3. TypeOK'
      BY Zenon, <1>2, <1>4, <2>1 DEF Types, TypeOK, etcdVars
  <2>. QED BY Zenon, <1>3, <2>2, <2>3 DEF Types
<1>6. CASE watch(i)
  <2>1. UNCHANGED <<up, job, sweep, dirty>>
      BY Zenon, <1>6 DEF watch
  <2>2. Running'
      BY Zenon, <1>2, <2>1 DEF Types, Running, Active
  <2>3. TypeOK'
      BY Zenon, <1>2, <1>4, <2>1 DEF Types, TypeOK, etcdVars
  <2>. QED BY Zenon, <1>3, <2>2, <2>3 DEF Types
<1>7. CASE crash(i)
  <2>1. \A p \in Procs : \/ ~(Active(p) /\ job[p].inst = i) /\ job'[p] = job[p]
                         \/ Active(p) /\ job'[p] = NoJob
      BY Zenon, <1>7 DEF crash
  <2>2. NoJob \in Jobs /\ NoJob.step = "done" /\ NoJob.kind = "delete"
      BY Zenon DEF NoJob, Jobs, Kinds, Steps
  <2>3. job' = [p \in Procs |-> job'[p]]
      BY Zenon, <1>7 DEF crash
  <2>4. job' \in [Procs -> Jobs]
      BY Zenon, <2>1, <2>2, <2>3, JobTypes
  <2>5. /\ \A k \in Instances : k # i => up'[k] = up[k] /\ sweep'[k] = sweep[k]
        /\ sweep'[i] = Resting
        /\ up' \in [Instances -> {"down", "loadCIDR", "up"}]
        /\ sweep' \in [Instances -> [phase : {"wait", "ip", "cidr"},
                                     at : Times \cup {0}, todo : SUBSET Addrs]]
      BY Zenon, <1>7 DEF crash, Resting, Types, TypeOK
  <2>6. Running'
      BY <1>2, <2>1, <2>2, <2>5 DEF Types, Running, Active, Resting
  <2>7. dirty' \subseteq Addrs
      BY <1>7 DEF crash, Types, TypeOK, Running
  <2>8. ASSUME NEW p \in Procs
        PROVE  /\ job'[p].step = "ptr" => job'[p].a \in IPs
               /\ job'[p].kind = "put" => job'[p].rec \in Values
    <3>1. job'[p] = job[p] \/ job'[p] = NoJob
        BY Zenon, <2>1
    <3>. QED BY Zenon, <2>2, <3>1, JobTypes
  <2>9. \A k \in Instances : sweep'[k].phase = "wait" => sweep'[k].todo = {}
    <3>1. Resting.todo = {}
        BY Zenon DEF Resting
    <3>2. \A k \in Instances : sweep[k].phase = "wait" => sweep[k].todo = {}
        BY Zenon DEF Types, TypeOK
    <3>. QED BY Zenon, <2>5, <3>1, <3>2
  <2>10. TypeOK'
      BY Zenon, <1>2, <1>4, <2>4, <2>5, <2>7, <2>8, <2>9
         DEF Types, TypeOK, etcdVars, Jobs, Steps
  <2>. QED BY Zenon, <1>3, <2>6, <2>10 DEF Types
<1>. QED BY Zenon, <1>5, <1>6, <1>7

\* Kept by a step that changes nothing.
LEMMA TypesStutter ==
  ASSUME Types, UNCHANGED vars
  PROVE  Types'
  BY Zenon DEF Types, TypeOK, StoreOK, Running, Active, vars

\* A step of the program, or one in which the bouncer begins a job.
Acts == Next \/ Begins

\* The kinds of steps.
LEMMA Cases ==
  ASSUME Types, Acts
  PROVE  \/ Begins
         \/ \E p \in Procs : Moves(p)
         \/ clock \/ \E i \in Instances : tick(i) \/ turn(i)
         \/ \E i \in Instances : boot(i) \/ crash(i) \/ watch(i)
  BY Zenon, Starts DEF Acts, Next, Worker, Step, Moves

\* Types is an inductive invariant.
LEMMA TypesNext ==
  ASSUME Types, [Acts]_vars
  PROVE  Types'
  BY Zenon, Cases, TypesBegin, TypesMoves, TypesQuiet, TypesInstance,
     TypesStutter

\* Every variable keeps its type, in both modes and whatever fails: only an
\* address ever has a PTR step, and a worker between rounds has nothing to do.
THEOREM TypeCorrect == Spec => []TypeOK
<1>1. Types => TypeOK
    BY Zenon DEF Types
<1>2. Types /\ [Next]_vars => Types'
    BY Zenon, TypesNext DEF Acts
<1>. QED BY <1>1, <1>2, TypesInit, PTL DEF Spec

----------------------------------------------------------------------------
(* What expiry deletes                                                     *)

\* Record v was written for a at some time.
Origin(a, v) ==
  \E r \in 1..Len(hist) : hist[r].key = KeyOf(a) /\ hist[r].val = v

\* A record that has expired was written for a at some time.
Due(a) ==
  \E r \in 1..Len(hist) : /\ hist[r].key = KeyOf(a) /\ hist[r].val # NoEntry
                          /\ hist[r].val.exp \in 1..now

\* What is in memory, or on its way there, was written to etcd.
Known ==
  /\ \A i \in Instances, a \in Addrs, v \in Values :
       table[i][a] # NoEntry /\ table[i][a].val = v => Origin(a, v)
  /\ \A p \in Procs, a \in Addrs, v \in Values :
       (/\ ~MultiInstance /\ job[p].kind = "put" /\ job[p].a = a
        /\ job[p].step \in {"ptr", "mem"} /\ job[p].rec = v) => Origin(a, v)
  /\ \A p \in Procs : MultiInstance /\ job[p].kind = "put" => job[p].step # "mem"

\* What expiry is at work on, or will be, is due.
Targets ==
  /\ \A p \in Procs, a \in Addrs :
       Active(p) /\ job[p].kind \in {"lazy", "expire"} /\ job[p].a = a => Due(a)
  /\ \A i \in Instances, a \in Addrs : a \in sweep[i].todo => Due(a)

\* The history and the clock only grow.
LEMMA Grows ==
  ASSUME Types, [Acts]_vars
  PROVE  /\ Len(hist) \in Nat /\ Len(hist') \in Nat /\ Len(hist) <= Len(hist')
         /\ \A r \in 1..Len(hist) : hist'[r] = hist[r]
         /\ now \in Nat /\ now' \in Nat /\ now <= now'
<1>1. Types'
    BY Zenon, TypesNext
<1>2. /\ Len(hist) \in Nat /\ Len(hist') \in Nat
      /\ now \in Nat /\ now' \in Nat
    BY <1>1, BlocklistAssumption DEF Types, StoreOK, TypeOK, Times
<1>3. ASSUME hist' = hist, now' = now
      PROVE  /\ Len(hist) <= Len(hist') /\ \A r \in 1..Len(hist) : hist'[r] = hist[r]
             /\ now <= now'
    BY <1>2, <1>3
<1>4. ASSUME NEW p \in Procs, Moves(p)
      PROVE  /\ Len(hist) <= Len(hist') /\ \A r \in 1..Len(hist) : hist'[r] = hist[r]
             /\ now <= now'
  <2>1. Active(p) /\ now' = now
      BY Zenon, <1>4, MoveEffect
  <2>2. PICK a \in Addrs : job[p].a = a
      BY Zenon, <2>1 DEF Types, Running
  <2>3. CASE persist(p)
    <3>1. Len(hist) <= Len(hist') /\ \A r \in 1..Len(hist) : hist'[r] = hist[r]
        BY Zenon, <2>2, <2>3, PersistEffect
    <3>. QED BY <1>2, <2>1, <3>1
  <2>4. CASE ~persist(p)
      BY Zenon, <1>3, <1>4, <2>1, <2>4
         DEF Moves, persistFails, persistHangs, apply, etcdVars
  <2>. QED BY Zenon, <2>3, <2>4
<1>5. CASE clock \/ \E i \in Instances : tick(i) \/ turn(i)
  <2>1. hist' = hist /\ now <= now'
      BY Zenon, <1>5, TypesQuiet DEF etcdVars
  <2>. QED BY <1>2, <2>1
<1>6. CASE Begins
  <2>1. hist' = hist /\ now' = now
      BY Zenon, <1>6 DEF Begins, etcdVars
  <2>. QED BY Zenon, <1>2, <1>3, <2>1
<1>7. ASSUME NEW i \in Instances, boot(i) \/ crash(i) \/ watch(i)
      PROVE  hist' = hist /\ now' = now
    BY Zenon, <1>7 DEF boot, crash, watch, etcdVars
<1>8. CASE UNCHANGED vars
  <2>1. hist' = hist /\ now' = now
      BY <1>8 DEF vars
  <2>. QED BY Zenon, <1>2, <1>3, <2>1
<1>9. CASE Acts
    BY Zenon, <1>2, <1>3, <1>4, <1>5, <1>6, <1>7, <1>9, Cases
<1>. QED BY Zenon, <1>2, <1>8, <1>9

\* So what was written stays written, and what is due stays due.
LEMMA OriginKept ==
  ASSUME Types, [Acts]_vars, NEW a, NEW v
  PROVE  Origin(a, v) => Origin(a, v)'
<1>. SUFFICES ASSUME NEW r \in 1..Len(hist), hist[r].key = KeyOf(a), hist[r].val = v
              PROVE  \E s \in 1..Len(hist') : hist'[s].key = KeyOf(a) /\ hist'[s].val = v
    BY Zenon DEF Origin
<1>1. r \in 1..Len(hist') /\ hist'[r] = hist[r]
    BY Grows
<1>. QED BY Zenon, <1>1

\* The same for what is due.
LEMMA DueKept ==
  ASSUME Types, [Acts]_vars, NEW a
  PROVE  Due(a) => Due(a)'
<1>. SUFFICES ASSUME NEW r \in 1..Len(hist), hist[r].key = KeyOf(a),
                     hist[r].val # NoEntry, hist[r].val.exp \in 1..now
              PROVE  \E s \in 1..Len(hist') :
                       /\ hist'[s].key = KeyOf(a) /\ hist'[s].val # NoEntry
                       /\ hist'[s].val.exp \in 1..now'
    BY Zenon DEF Due
<1>1. r \in 1..Len(hist') /\ hist'[r] = hist[r]
    BY Grows
<1>2. \A x \in 1..now : x \in 1..now'
    BY Grows
<1>. QED BY Zenon, <1>1, <1>2

\* An expired entry is due.
LEMMA ExpiredDue ==
  ASSUME Types, Known, NEW i \in Instances, NEW a \in Addrs, NEW t \in 1..now,
         Expired(table[i][a], t)
  PROVE  Due(a)
<1>1. table[i][a] \in Entries
    BY DEF Types, TypeOK, Expired
<1>2. PICK v \in Values : v = table[i][a].val
    BY <1>1 DEF Entries
<1>3. Origin(a, v) /\ v # NoEntry
    BY Zenon, <1>2, EtcdAssumption DEF Known, Expired
<1>4. v.exp \in Int /\ now \in Nat
  <2>1. v.exp \in Exps /\ Exps \subseteq Int
      BY BlocklistAssumption DEF Exps
  <2>2. now \in Nat
      BY BlocklistAssumption DEF Types, TypeOK, Times
  <2>. QED BY Zenon, <2>1, <2>2
<1>5. v.exp > 0 /\ v.exp <= t
    BY Zenon, <1>2 DEF Expired
<1>6. v.exp \in 1..now
    BY <1>4, <1>5
<1>. QED BY Zenon, <1>3, <1>6 DEF Origin, Due

\* Kept when jobs begin.
LEMMA ExpiryBegin ==
  ASSUME Types, Known, Targets, Begins
  PROVE  Known' /\ Targets'
<1>1. PICK new : NewOK(new) /\ Begin(new)
    BY Zenon DEF Begins
<1>2. \A p \in Procs : Kept(p) \/ Fresh(p)
    BY Zenon, <1>1, BeginEffect
<1>3. /\ UNCHANGED <<hist, table, now>>
      /\ \A k \in Instances : sweep'[k].todo \subseteq sweep[k].todo
    BY Zenon DEF Begins, etcdVars, replicaVars
<1>4. /\ \A a, v : Origin(a, v) => Origin(a, v)'
      /\ \A a : Due(a) => Due(a)'
    BY ZenonT(30), <1>3 DEF Origin, Due
<1>5. Known'
    BY ZenonT(30), <1>2, <1>3, <1>4 DEF Known, Kept, Fresh
<1>6. ASSUME NEW p \in Procs, NEW a \in Addrs, job'[p].step # "done",
             job'[p].kind \in {"lazy", "expire"}, job'[p].a = a
      PROVE  Due(a)
  <2>1. CASE Kept(p)
      BY Zenon, <1>6, <2>1 DEF Kept, Targets, Active
  <2>2. CASE Fresh(p)
    <3>1. PICK k \in Instances : k = job'[p].inst
        BY Zenon, <2>2 DEF Fresh
    <3>2. Expired(table[k][a], now) \/ a \in sweep[k].todo
        BY Zenon, <1>6, <2>2, <3>1 DEF Fresh
    <3>3. now \in 1..now
        BY BlocklistAssumption DEF Types, TypeOK, Times
    <3>. QED BY Zenon, <3>2, <3>3, ExpiredDue DEF Targets
  <2>. QED BY Zenon, <1>2, <2>1, <2>2
<1>7. Targets'
    BY Zenon, <1>3, <1>4, <1>6 DEF Targets, Active
<1>. QED BY Zenon, <1>5, <1>7

\* Kept by the steps of a job, when a write that fails does not reach memory.
LEMMA ExpiryMoves ==
  ASSUME Types, Known, Targets, MultiInstance \/ "etcd" \notin Faults,
         NEW p \in Procs, Moves(p)
  PROVE  Known' /\ Targets'
<1>1. /\ Active(p) /\ \A q \in Procs : q # p => job'[q] = job[q]
      /\ job[p].step \in {"key", "ptr", "mem"}
      /\ job'[p] = NoJob \/
           /\ job'[p].kind = job[p].kind /\ job'[p].inst = job[p].inst
           /\ job'[p].a = job[p].a /\ job'[p].rec = job[p].rec
      /\ job'[p].step = "mem" => (MultiInstance => job[p].kind = "expire")
      /\ job'[p].step = "ptr" => job[p].step = "key"
      /\ job'[p].step = "mem" => job[p].step # "mem"
      /\ now' = now /\ sweep' = sweep
    BY Zenon, MoveEffect
<1>2. NoJob.step = "done" /\ NoJob.kind = "delete"
    BY Zenon DEF NoJob
<1>3. PICK b \in Addrs : b = job[p].a
    BY Zenon, <1>1 DEF Types, Running
<1>4. Acts
    BY Zenon DEF Acts, Next, Moves, Step
<1>5. /\ \A a, v : Origin(a, v) => Origin(a, v)'
      /\ \A a : Due(a) => Due(a)'
    BY Zenon, <1>4, OriginKept, DueKept
<1>6. Targets'
    BY Zenon, <1>1, <1>2, <1>5 DEF Targets, Active
<1>7. ASSUME NEW i \in Instances, NEW a \in Addrs, NEW v \in Values,
             table'[i][a] # NoEntry, table'[i][a].val = v
      PROVE  Origin(a, v)'
  <2>1. CASE table'[i][a] = table[i][a]
      BY Zenon, <1>5, <1>7, <2>1 DEF Known
  <2>2. CASE table'[i][a] # table[i][a]
    <3>1. apply(p)
        BY Zenon, <2>2
           DEF Moves, persist, persistFails, persistHangs, replicaVars
    <3>2. PICK e : /\ e = IF job[p].kind = "put" THEN Entry(b, job[p].rec, 0) ELSE NoEntry
                   /\ table' = [table EXCEPT ![job[p].inst][b] = e]
        BY Zenon, <1>3, <3>1 DEF apply
    <3>3. a = b /\ table'[i][a] = e
        BY <2>2, <3>2 DEF Types, TypeOK
    <3>4. job[p].kind = "put" /\ job[p].step = "mem" /\ job[p].rec \in Values
        BY Zenon, <1>7, <3>1, <3>2, <3>3, JobTypes DEF apply
    <3>5. v = job[p].rec
        BY <1>7, <3>2, <3>3, <3>4, EtcdAssumption DEF Entry
    <3>6. Origin(a, v)
        BY Zenon, <1>3, <3>3, <3>4, <3>5 DEF Known
    <3>. QED BY Zenon, <1>5, <3>6
  <2>. QED BY Zenon, <2>1, <2>2
<1>8. ASSUME NEW q \in Procs, NEW a \in Addrs, NEW v \in Values, ~MultiInstance,
             job'[q].kind = "put", job'[q].a = a,
             job'[q].step \in {"ptr", "mem"}, job'[q].rec = v
      PROVE  Origin(a, v)'
  <2>1. CASE q # p
      BY Zenon, <1>1, <1>5, <1>8, <2>1 DEF Known
  <2>2. CASE q = p
    <3>1. job[p].kind = "put" /\ job[p].a = a /\ job[p].rec = v
        BY Zenon, <1>1, <1>2, <1>8, <2>2
    <3>2. CASE job[p].step = "ptr"
        BY Zenon, <1>5, <1>8, <3>1, <3>2 DEF Known
    <3>3. CASE job[p].step = "key"
      <4>1. "etcd" \notin Faults
          BY Zenon, <1>8
      <4>2. persist(p)
        <5>1. ~apply(p) /\ ~persistFails(p)
            BY Zenon, <3>3, <4>1 DEF apply, persistFails
        <5>2. ~persistHangs(p)
          <6>1. persistHangs(p) => job'[p].step = "hung"
              BY JobTypes DEF persistHangs, Moved
          <6>. QED BY Zenon, <1>8, <2>2, <6>1
        <5>. QED BY Zenon, <5>1, <5>2 DEF Moves
      <4>. QED BY Zenon, <3>1, <3>3, <4>2, PersistEffect DEF Origin
    <3>. QED BY Zenon, <1>1, <1>8, <2>2, <3>2, <3>3
  <2>. QED BY Zenon, <2>1, <2>2
<1>9. ASSUME NEW q \in Procs, MultiInstance, job'[q].kind = "put"
      PROVE  job'[q].step # "mem"
    BY Zenon, <1>1, <1>2, <1>9 DEF Known
<1>. QED BY Zenon, <1>6, <1>7, <1>8, <1>9 DEF Known

\* Kept when a round collects what has expired.
LEMMA ExpiryQuiet ==
  ASSUME Types, Known, Targets, clock \/ \E i \in Instances : tick(i) \/ turn(i)
  PROVE  Known' /\ Targets'
<1>1. UNCHANGED <<hist, table, job>>
    BY Zenon, TypesQuiet DEF etcdVars, replicaVars
<1>2. Acts
    BY Zenon DEF Acts, Next, Worker
<1>3. /\ \A a, v : Origin(a, v) => Origin(a, v)'
      /\ \A a : Due(a) => Due(a)'
    BY Zenon, <1>2, OriginKept, DueKept
<1>4. Known'
    BY Zenon, <1>1, <1>3 DEF Known
<1>5. ASSUME NEW k \in Instances, NEW a \in Addrs, a \in sweep'[k].todo
      PROVE  Due(a)
  <2>1. CASE a \in sweep[k].todo
      BY Zenon, <2>1 DEF Targets
  <2>2. CASE a \notin sweep[k].todo
    <3>1. PICK i \in Instances : tick(i) \/ turn(i)
        BY Zenon, <1>5, <2>2 DEF clock
    <3>2. sweep \in [Instances -> [phase : {"wait", "ip", "cidr"},
                                  at : Times \cup {0}, todo : SUBSET Addrs]]
        BY Zenon DEF Types, TypeOK
    <3>3. i = k
        BY <1>5, <2>2, <3>1, <3>2 DEF tick, turn
    <3>4. \E t \in 1..now : Expired(table[k][a], t)
      <4>1. CASE tick(k)
        <5>1. Expired(table[k][a], now)
            BY <1>5, <3>2, <4>1 DEF tick
        <5>2. now \in 1..now
            BY BlocklistAssumption DEF Types, TypeOK, Times
        <5>. QED BY Zenon, <5>1, <5>2
      <4>2. CASE turn(k)
        <5>1. sweep[k].at \in 1..now
            BY ZenonT(30), <4>2 DEF turn, Types, Running
        <5>2. Expired(table[k][a], sweep[k].at)
            BY Zenon, <1>5, <3>2, <4>2 DEF turn, Resting
        <5>. QED BY Zenon, <5>1, <5>2
      <4>. QED BY Zenon, <3>1, <3>3, <4>1, <4>2
    <3>. QED BY Zenon, <3>4, ExpiredDue
  <2>. QED BY Zenon, <2>1, <2>2
<1>6. Targets'
    BY Zenon, <1>1, <1>3, <1>5 DEF Targets, Active
<1>. QED BY Zenon, <1>4, <1>6

\* Kept when an instance loads, replicates or ends.
LEMMA ExpiryInstance ==
  ASSUME Types, Known, Targets, NEW i \in Instances, boot(i) \/ crash(i) \/ watch(i)
  PROVE  Known' /\ Targets'
<1>1. hist' = hist /\ now' = now
    BY Zenon DEF boot, crash, watch, etcdVars
<1>2. /\ \A a, v : Origin(a, v) <=> Origin(a, v)'
      /\ \A a : Due(a) <=> Due(a)'
    BY Zenon, <1>1 DEF Origin, Due
<1>3. \A p \in Procs : job'[p] = job[p] \/ job'[p] = NoJob
    BY Zenon DEF boot, crash, watch
<1>4. NoJob.step = "done" /\ NoJob.kind = "delete"
    BY Zenon DEF NoJob
<1>5. \A k \in Instances : sweep'[k].todo \subseteq sweep[k].todo
  <2>1. CASE crash(i)
    <3>1. sweep'[i] = Resting /\ \A k \in Instances : k # i => sweep'[k] = sweep[k]
        BY <2>1 DEF crash, Types, TypeOK
    <3>2. Resting.todo = {}
        BY DEF Resting
    <3>. QED BY Zenon, <3>1, <3>2
  <2>2. CASE ~crash(i)
      BY Zenon, <2>2 DEF boot, watch
  <2>. QED BY Zenon, <2>1, <2>2
<1>6. Targets'
    BY <1>2, <1>3, <1>4, <1>5 DEF Targets, Active
<1>7. table \in [Instances -> [Addrs -> Entries \cup {NoEntry}]] /\ StoreOK
    BY Zenon DEF Types, TypeOK
<1>8. ASSUME NEW k \in Instances, NEW a \in Addrs, NEW v \in Values,
             table'[k][a] # NoEntry, table'[k][a].val = v, table'[k][a] # table[k][a]
      PROVE  Origin(a, v)
  <2>1. ~crash(i)
      BY <1>7, <1>8 DEF crash, Lose
  <2>2. ASSUME NEW w \in Watchers, Load(i, w)
        PROVE  Origin(a, v)
    <3>1. table'[k][a] = Stored(a)
        BY Zenon, <1>8, <2>2, LoadEffect
    <3>2. KeyOf(a) \in Keys
        BY Zenon, KeyFacts
    <3>3. kv[KeyOf(a)] # 0 /\ Held(KeyOf(a)) = v
        BY Zenon, <1>7, <1>8, <3>1, StoredHeld DEF ValueOf
    <3>4. kv[KeyOf(a)] \in 1..Len(hist) /\ hist[kv[KeyOf(a)]].key = KeyOf(a)
        BY <1>7, <3>2, <3>3 DEF StoreOK
    <3>. QED BY Zenon, <3>3, <3>4 DEF Held, Origin
  <2>3. ASSUME NEW w \in Watchers, Deliver(i, w)
        PROVE  Origin(a, v)
    <3>1. PICK r : r = pos[i][w] + 1
        BY SMTT(30)
    <3>2. r \in 1..Len(hist)
        BY <2>3, <3>1 DEF Deliver, Types, TypeOK
    <3>3. hist[r] \in Events
        BY <1>7, <3>2 DEF StoreOK
    <3>4. PICK key : key = hist[r].key
        OBVIOUS
    <3>5. Decodes(w, key) /\ table' = [table EXCEPT ![i][key.id] =
                                         Entry(key.id, hist[r].val, r)]
        BY Zenon, <1>8, <2>3, <3>1, <3>4 DEF Deliver
    <3>6. key.id = a /\ table'[k][a] = Entry(a, hist[r].val, r)
        BY <1>7, <1>8, <3>5, SMTT(30)
    <3>7. key = KeyOf(a)
        BY <3>3, <3>4, <3>5, <3>6, EtcdAssumption, SMTT(30)
           DEF Events, Decodes, Keys, BootEvent, KeyOf, rblKey, reverseKey, cidrToEtcdKey
    <3>8. hist[r].val = v
        BY <1>8, <3>6 DEF Entry
    <3>. QED BY Zenon, <3>2, <3>4, <3>7, <3>8 DEF Origin
  <2>4. CASE boot(i)
      BY Zenon, <2>2, <2>4 DEF boot, Watchers
  <2>5. CASE watch(i)
      BY Zenon, <1>8, <2>3, <2>5 DEF watch, Resume
  <2>. QED BY Zenon, <2>1, <2>4, <2>5
<1>9. Known'
    BY <1>2, <1>3, <1>4, <1>8 DEF Known
<1>. QED BY Zenon, <1>6, <1>9

Expiry == Types /\ Known /\ Targets

\* Expiry is an inductive invariant, in multi-instance mode whatever fails, and
\* in single-instance mode as long as no request to etcd fails.
LEMMA ExpiryInductive ==
  ASSUME MultiInstance \/ "etcd" \notin Faults
  PROVE  /\ Init => Expiry
         /\ Expiry /\ [Acts]_vars => Expiry'
         /\ Expiry => ExpiryJustified
<1>1. Init => Expiry
  <2>. SUFFICES ASSUME Init PROVE Expiry
      OBVIOUS
  <2>1. \A p \in Procs : job[p].step = "done" /\ job[p].kind = "delete"
      BY Zenon DEF Init, NoJob
  <2>2. \A i \in Instances : sweep[i].todo = {}
      BY DEF Init, Resting
  <2>3. \A i \in Instances, a \in Addrs : table[i][a] = NoEntry
      BY DEF Init, ReplicaInit
  <2>4. Known
      BY Zenon, <2>1, <2>3 DEF Known
  <2>5. Targets
      BY Zenon, <2>1, <2>2 DEF Targets, Active
  <2>. QED BY Zenon, <2>4, <2>5, TypesInit DEF Expiry
<1>2. Expiry /\ [Acts]_vars => Expiry'
  <2>. SUFFICES ASSUME Types, Known, Targets, [Acts]_vars
                PROVE  Types' /\ Known' /\ Targets'
      BY Zenon DEF Expiry
  <2>1. Types'
      BY Zenon, TypesNext
  <2>2. CASE UNCHANGED vars
    <3>1. UNCHANGED <<hist, table, now, job, sweep>>
        BY Zenon, <2>2 DEF vars
    <3>2. /\ \A a, v : Origin(a, v) <=> Origin(a, v)'
          /\ \A a : Due(a) <=> Due(a)'
        BY Zenon, <3>1 DEF Origin, Due
    <3>3. Known' /\ Targets'
        BY Zenon, <3>1, <3>2 DEF Known, Targets, Active
    <3>. QED BY Zenon, <2>1, <3>3
  <2>3. CASE Acts
      BY Zenon, <2>1, <2>3, Cases, ExpiryBegin, ExpiryMoves, ExpiryQuiet,
         ExpiryInstance
  <2>. QED BY Zenon, <2>2, <2>3
<1>3. Expiry => ExpiryJustified
  <2>. SUFFICES ASSUME Types, Targets PROVE ExpiryJustified
      BY Zenon DEF Expiry
  <2>1. \A p \in Procs : Active(p) => job[p].a \in Addrs
      BY Zenon DEF Types, Running
  <2>2. \A i \in Instances : sweep[i].todo \subseteq Addrs
      BY DEF Types, TypeOK
  <2>. QED BY Zenon, <2>1, <2>2 DEF Targets, ExpiryJustified, Due
<1>. QED BY Zenon, <1>1, <1>2, <1>3

\* What lazy expiry or a worker sets out to delete was written with an
\* expiration time that has passed, in multi-instance mode whatever fails, and
\* in single-instance mode as long as no request to etcd fails.
THEOREM ExpiryCorrect ==
  ASSUME MultiInstance \/ "etcd" \notin Faults
  PROVE  Spec => []ExpiryJustified
<1>1. /\ Init => Expiry
      /\ Expiry /\ [Next]_vars => Expiry'
      /\ Expiry => ExpiryJustified
    BY Zenon, ExpiryInductive DEF Acts
<1>. QED BY <1>1, PTL DEF Spec

----------------------------------------------------------------------------
(* Multi-instance mode: what happens to memory                             *)

\* A job's step: a write to etcd, nothing, or an entry dropped from memory.
LEMMA MovesReplica ==
  ASSUME Expiry, MultiInstance, NEW p \in Procs, Moves(p)
  PROVE  [ReplicaNext]_<<etcdVars, replicaVars>>
<1>1. Types /\ Active(p) /\ job[p].a \in Addrs /\ job[p].inst \in Instances
    BY Zenon, MoveEffect DEF Expiry, Types, Running
<1>2. PICK a \in Addrs : job[p].a = a
    BY Zenon, <1>1
<1>3. PICK i \in Instances : job[p].inst = i
    BY Zenon, <1>1
<1>4. CASE persist(p)
  <2>1. job[p].step \in {"key", "ptr"} /\ UNCHANGED replicaVars
      BY Zenon, <1>4 DEF persist
  <2>2. CASE job[p].step = "key"
    <3>1. KeyOf(a) \in Keys /\ RecordsFor(KeyOf(a)) = Values
        BY Zenon, KeyFacts
    <3>2. job[p].kind = "put" => job[p].rec \in RecordsFor(KeyOf(a))
        BY Zenon, <1>1, <3>1, JobTypes
    <3>3. IF job[p].kind = "put" THEN etcdPut(KeyOf(a), job[p].rec)
                                 ELSE etcdDelete(KeyOf(a))
        BY Zenon, <1>2, <1>4, <2>2 DEF persist
    <3>. QED BY Zenon, <2>1, <3>1, <3>2, <3>3 DEF ReplicaNext, Write, etcdDelete
  <2>3. CASE job[p].step = "ptr"
    <3>1. reverseKey(a) \in Keys /\ RecordsFor(reverseKey(a)) = {PtrRecord}
        BY Zenon, <1>1, <1>2, <2>3, JobTypes, KeyFacts
    <3>2. job[p].step # "key"
        BY <2>3
    <3>3. IF job[p].kind = "put" THEN etcdPut(reverseKey(a), PtrRecord)
                                 ELSE etcdDelete(reverseKey(a))
        BY Zenon, <1>2, <1>4, <3>2 DEF persist
    <3>. QED BY Zenon, <2>1, <3>1, <3>3 DEF ReplicaNext, Write, etcdDelete
  <2>. QED BY Zenon, <2>1, <2>2, <2>3
<1>5. CASE persistFails(p) \/ persistHangs(p)
    BY Zenon, <1>5 DEF persistFails, persistHangs
<1>6. CASE apply(p)
  <2>1. job[p].kind # "put"
      BY Zenon, <1>6 DEF apply, Expiry, Known
  <2>2. Drop(i, a) /\ UNCHANGED etcdVars
      BY Zenon, <1>2, <1>3, <1>6, <2>1 DEF apply, Drop
  <2>. QED BY Zenon, <2>2 DEF ReplicaNext, Replicate
<1>. QED BY Zenon, <1>4, <1>5, <1>6 DEF Moves

\* Every step of the program, and every job the bouncer begins, is a step of
\* Replica or leaves etcd and the tables alone.
LEMMA ActsReplica ==
  ASSUME Expiry, MultiInstance, [Acts]_vars
  PROVE  [ReplicaNext]_<<etcdVars, replicaVars>>
<1>1. CASE UNCHANGED vars
    BY Zenon, <1>1 DEF vars, etcdVars, replicaVars
<1>2. CASE Begins
    BY Zenon, <1>2 DEF Begins
<1>3. CASE clock \/ \E i \in Instances : tick(i) \/ turn(i)
    BY Zenon, <1>3, TypesQuiet DEF Expiry
<1>4. ASSUME NEW i \in Instances, boot(i) \/ crash(i) \/ watch(i)
      PROVE  ReplicaNext
  <2>1. UNCHANGED etcdVars
      BY Zenon, <1>4 DEF boot, crash, watch
  <2>2. \/ \E w \in Watchers : \/ LoadAll(i, w) \/ LoadNothing(i, w)
                               \/ Deliver(i, w) \/ Resume(i, w)
        \/ Lose(i)
      BY Zenon, <1>4 DEF boot, Load, crash, watch, Watchers
  <2>. QED BY Zenon, <2>1, <2>2 DEF ReplicaNext, Replicate
<1>. QED BY Zenon, <1>1, <1>2, <1>3, <1>4, MovesReplica, Cases DEF Expiry

\* In multi-instance mode, with failing and hanging requests, lost streams,
\* failed loads and crashes: memory changes only by loads, by watch events and by what the worker
\* drops, never by a handler, and etcd only by puts and deletes of the
\* program's own keys.
THEOREM BlocklistKeepsToReplica ==
  ASSUME MultiInstance
  PROVE  Spec => KeepsToReplica
<1>1. Init => Expiry /\ etcdInit /\ ReplicaInit
    BY Zenon, ExpiryInductive DEF Init
<1>2. Expiry /\ [Next]_vars => Expiry' /\ [ReplicaNext]_<<etcdVars, replicaVars>>
    BY Zenon, ExpiryInductive, ActsReplica DEF Acts
<1>. QED BY <1>1, <1>2, PTL DEF Spec, KeepsToReplica, ReplicaSpec
=============================================================================
