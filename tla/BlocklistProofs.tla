-------------------------- MODULE BlocklistProofs --------------------------
(***************************************************************************)
(* Proofs about module Blocklist, for every set of instances, addresses,   *)
(* clients and values, every choice of faults and every bound.             *)
(***************************************************************************)
EXTENDS BlocklistTypes

----------------------------------------------------------------------------
(* Jobs that are clean                                                     *)

\* A clean job that is under way, or a put that is over, shares its address
\* with no job that is under way.
Alone ==
  \A p, q \in Procs :
    (/\ p # q /\ Active(q) /\ job[q].a = job[p].a
     /\ Active(p) \/ job[p].kind = "put") => ~job[p].clean

\* What a clean job has written is still there.
Written ==
  \A p \in Procs, a \in Addrs : (job[p].a = a /\ job[p].clean) =>
    /\ (job[p].step \in {"ptr", "mem"}
          \/ (job[p].step = "done" /\ job[p].kind = "put")) =>
         Held(KeyOf(a)) = IF job[p].kind = "put" THEN job[p].rec ELSE NoEntry
    /\ job[p].step = "mem" /\ a \in IPs =>
         (kv[reverseKey(a)] # 0 <=> job[p].kind = "put")

\* A job's step does not touch another address.
LEMMA MoveFrame ==
  ASSUME Types, NEW p \in Procs, Moves(p), NEW a \in Addrs, job[p].a # a
  PROVE  /\ kv'[KeyOf(a)] = kv[KeyOf(a)] /\ Held(KeyOf(a))' = Held(KeyOf(a))
         /\ a \in IPs => kv'[reverseKey(a)] = kv[reverseKey(a)]
         /\ \A i \in Instances : /\ table'[i][a] = table[i][a]
                                 /\ a \in unread'[i] <=> a \in unread[i]
         /\ a \in dirty' <=> a \in dirty
         /\ job'[p] = NoJob \/ job'[p].a # a
<1>1. PICK b \in Addrs : b = job[p].a
    BY Zenon, MoveEffect DEF Types, Running
<1>2. /\ a \in dirty' <=> a \in dirty
      /\ job'[p] = NoJob \/ job'[p].a # a
    BY Zenon, MoveEffect
<1>3. CASE persist(p)
  <2>1. PICK key : key = IF job[p].step = "key" THEN KeyOf(b) ELSE reverseKey(b)
      BY Zenon
  <2>2. \A k \in Keys : k # key => kv'[k] = kv[k] /\ Held(k)' = Held(k)
      BY <1>1, <1>3, <2>1, PersistEffect
  <2>3. job[p].step # "key" => b \in IPs
      BY Zenon, <1>1, <1>3, JobTypes DEF persist
  <2>4. KeyOf(a) \in Keys /\ KeyOf(a) # key
      BY Zenon, <1>1, <2>1, <2>3, KeyFacts
  <2>5. a \in IPs => reverseKey(a) \in Keys /\ reverseKey(a) # key
      BY Zenon, <1>1, <2>1, <2>3, KeyFacts
  <2>6. table' = table /\ unread' = unread
      BY Zenon, <1>3 DEF persist, replicaVars
  <2>. QED BY Zenon, <1>2, <2>2, <2>4, <2>5, <2>6
<1>4. CASE ~persist(p)
  <2>1. UNCHANGED etcdVars
      BY Zenon, <1>4 DEF Moves, persistFails, persistHangs, apply
  <2>2. \A i \in Instances : /\ table'[i][a] = table[i][a]
                             /\ a \in unread'[i] <=> a \in unread[i]
    <3>1. CASE apply(p)
      <4>1. PICK e : /\ table' = [table EXCEPT ![job[p].inst][b] = e]
                     /\ unread' = [unread EXCEPT ![job[p].inst] = @ \ {b}]
          BY Zenon, <1>1, <3>1 DEF apply
      <4>2. /\ table \in [Instances -> [Addrs -> Entries \cup {NoEntry}]]
            /\ unread \in [Instances -> SUBSET Addrs]
          BY Zenon DEF Types, TypeOK
      <4>3. \A i \in Instances : table'[i][a] = table[i][a]
          BY Zenon, <1>1, <4>1, <4>2
      <4>4. \A i \in Instances : a \in unread'[i] <=> a \in unread[i]
          BY Zenon, <1>1, <4>1, <4>2
      <4>. QED BY Zenon, <4>3, <4>4
    <3>2. CASE ~apply(p)
        BY Zenon, <1>4, <3>2 DEF Moves, persistFails, persistHangs, replicaVars
    <3>. QED BY Zenon, <3>1, <3>2
  <2>. QED BY Zenon, <1>2, <2>1, <2>2 DEF etcdVars, Held
<1>. QED BY Zenon, <1>3, <1>4

\* Clean jobs stay alone.
LEMMA AloneNext ==
  ASSUME Types, Alone, [Acts]_vars
  PROVE  Alone'
<1>1. NoJob.step = "done" /\ NoJob.kind = "delete"
    BY Zenon DEF NoJob
<1>2. ASSUME Begins
      PROVE  Alone'
  <2>1. PICK new : NewOK(new) /\ Begin(new)
      BY Zenon, <1>2 DEF Begins
  <2>2. \A p, q \in Procs :
          (job'[p].clean /\ job'[q].step # "done" /\ job'[q].a = job'[p].a)
            => q = p
      BY Zenon, <2>1, BeginEffect
  <2>. QED BY Zenon, <2>2 DEF Alone, Active
<1>3. ASSUME NEW p \in Procs, Moves(p)
      PROVE  Alone'
  <2>1. /\ Active(p) /\ \A q \in Procs : q # p => job'[q] = job[q]
        /\ job'[p] = NoJob \/
             /\ job'[p].kind = job[p].kind /\ job'[p].a = job[p].a
             /\ job'[p].clean => job[p].clean
      BY Zenon, <1>3, MoveEffect
  <2>. QED BY <1>1, <2>1 DEF Alone, Active
<1>4. CASE clock \/ \E i \in Instances : tick(i) \/ turn(i)
    BY Zenon, <1>4, TypesQuiet DEF Alone, Active
<1>5. ASSUME NEW i \in Instances, boot(i) \/ crash(i) \/ watch(i)
      PROVE  Alone'
  <2>1. \A p \in Procs : job'[p] = job[p] \/ job'[p] = NoJob
      BY Zenon, <1>5 DEF boot, crash, watch
  <2>. QED BY <1>1, <2>1 DEF Alone, Active
<1>6. CASE UNCHANGED vars
    BY Zenon, <1>6 DEF Alone, Active, vars
<1>. QED BY Zenon, <1>2, <1>3, <1>4, <1>5, <1>6, Cases

\* What clean jobs have written stays.
LEMMA WrittenNext ==
  ASSUME Types, Alone, Written, [Acts]_vars
  PROVE  Written'
<1>1. NoJob.step = "done" /\ NoJob.kind = "delete"
    BY Zenon DEF NoJob
<1>2. ASSUME Begins
      PROVE  Written'
  <2>1. PICK new : NewOK(new) /\ Begin(new)
      BY Zenon, <1>2 DEF Begins
  <2>2. \A p \in Procs : Kept(p) \/ Fresh(p)
      BY Zenon, <2>1, BeginEffect
  <2>3. hist' = hist /\ kv' = kv
      BY Zenon, <1>2 DEF Begins, etcdVars
  <2>. QED BY <2>2, <2>3 DEF Written, Kept, Fresh, Held
<1>3. ASSUME NEW p \in Procs, Moves(p)
      PROVE  Written'
  <2>. SUFFICES ASSUME NEW q \in Procs, NEW a \in Addrs,
                       job'[q].a = a, job'[q].clean
                PROVE  /\ (job'[q].step \in {"ptr", "mem"}
                             \/ (job'[q].step = "done" /\ job'[q].kind = "put")) =>
                            Held(KeyOf(a))' = IF job'[q].kind = "put"
                                                THEN job'[q].rec ELSE NoEntry
                       /\ job'[q].step = "mem" /\ a \in IPs =>
                            (kv'[reverseKey(a)] # 0 <=> job'[q].kind = "put")
      BY Zenon DEF Written
  <2>1. CASE q # p
    <3>1. Active(p) /\ job'[q] = job[q]
        BY Zenon, <1>3, <2>1, MoveEffect
    <3>2. CASE job[p].a = a
        BY Zenon, <2>1, <3>1, <3>2 DEF Alone, Active
    <3>3. CASE job[p].a # a
        BY <1>3, <3>1, <3>3, MoveFrame DEF Written
    <3>. QED BY Zenon, <3>2, <3>3
  <2>2. CASE q = p
    <3>1. CASE job'[p] = NoJob
        BY Zenon, <1>1, <2>2, <3>1
    <3>2. CASE job'[p] # NoJob
      <4>1. /\ job'[p].kind = job[p].kind /\ job'[p].rec = job[p].rec
            /\ job[p].a = a /\ job[p].clean /\ (persist(p) \/ apply(p))
            /\ job'[p].step = "ptr" => a \in IPs /\ job[p].step = "key"
            /\ job'[p].step = "mem" => job[p].step = "ptr" \/ a \notin IPs
          BY Zenon, <1>3, <2>2, <3>2, MoveEffect
      <4>2. CASE apply(p)
        <5>1. job[p].step = "mem" /\ hist' = hist /\ kv' = kv
            BY Zenon, <4>2 DEF apply, etcdVars
        <5>2. job'[p].step = "done"
            BY Zenon, <4>2, <5>1, AdvanceEffect DEF apply, Active, Steps
        <5>. QED BY Zenon, <2>2, <4>1, <5>1, <5>2 DEF Written, Held
      <4>3. CASE persist(p)
        <5>1. PICK key : key = IF job[p].step = "key" THEN KeyOf(a) ELSE reverseKey(a)
            BY Zenon
        <5>2. /\ kv'[key] # 0 <=> job[p].kind = "put"
              /\ job[p].step = "key" =>
                   Held(key)' = IF job[p].kind = "put" THEN job[p].rec ELSE NoEntry
              /\ \A k \in Keys : k # key => kv'[k] = kv[k] /\ Held(k)' = Held(k)
            BY <4>1, <4>3, <5>1, PersistEffect
        <5>3. job[p].step \in {"key", "ptr"} /\ (job[p].step = "ptr" => a \in IPs)
            BY Zenon, <4>1, <4>3, JobTypes DEF persist
        <5>4. CASE job[p].step = "key"
            BY Zenon, <2>2, <4>1, <5>1, <5>2, <5>4
        <5>5. CASE job[p].step = "ptr"
          <6>1. KeyOf(a) \in Keys /\ KeyOf(a) # key /\ key = reverseKey(a)
              BY Zenon, <5>1, <5>3, <5>5, KeyFacts
          <6>2. Held(KeyOf(a))' = Held(KeyOf(a))
              BY Zenon, <5>2, <6>1
          <6>. QED BY Zenon, <2>2, <4>1, <5>2, <5>5, <6>1, <6>2 DEF Written
        <5>. QED BY Zenon, <5>3, <5>4, <5>5
      <4>. QED BY Zenon, <4>1, <4>2, <4>3
    <3>. QED BY Zenon, <3>1, <3>2
  <2>. QED BY Zenon, <2>1, <2>2
<1>4. CASE clock \/ \E i \in Instances : tick(i) \/ turn(i)
    BY <1>4, TypesQuiet DEF Written, Held, etcdVars
<1>5. ASSUME NEW i \in Instances, boot(i) \/ crash(i) \/ watch(i)
      PROVE  Written'
  <2>1. /\ \A p \in Procs : job'[p] = job[p] \/ job'[p] = NoJob
        /\ hist' = hist /\ kv' = kv
      BY Zenon, <1>5 DEF boot, crash, watch, etcdVars
  <2>. QED BY <1>1, <2>1 DEF Written, Held
<1>6. CASE UNCHANGED vars
    BY <1>6 DEF Written, Held, vars
<1>. QED BY Zenon, <1>2, <1>3, <1>4, <1>5, <1>6, Cases

\* A block and its PTR record come and go together.
LEMMA PtrNext ==
  ASSUME Types, Written, PtrInStep, [Acts]_vars
  PROVE  PtrInStep'
<1>1. NoJob.step = "done"
    BY Zenon DEF NoJob
<1>2. ASSUME Begins
      PROVE  PtrInStep'
  <2>1. PICK new : NewOK(new) /\ Begin(new)
      BY Zenon, <1>2 DEF Begins
  <2>2. \A p \in Procs : Kept(p) \/ Fresh(p)
      BY Zenon, <2>1, BeginEffect
  <2>3. kv' = kv /\ dirty' = dirty
      BY Zenon, <1>2 DEF Begins, etcdVars
  <2>. QED BY <2>2, <2>3 DEF PtrInStep, Busy, Active, Kept, Fresh
<1>3. ASSUME NEW p \in Procs, Moves(p)
      PROVE  PtrInStep'
  <2>. SUFFICES ASSUME NEW ip \in IPs, ~Busy(ip)', ip \notin dirty'
                PROVE  kv'[KeyOf(ip)] # 0 <=> kv'[reverseKey(ip)] # 0
      BY Zenon, KeyFacts DEF PtrInStep, Addrs
  <2>0. ip \in Addrs
      BY Zenon DEF Addrs
  <2>1. CASE job[p].a # ip
    <3>1. /\ kv'[KeyOf(ip)] = kv[KeyOf(ip)]
          /\ kv'[reverseKey(ip)] = kv[reverseKey(ip)]
          /\ ip \notin dirty
        BY Zenon, <1>3, <2>0, <2>1, MoveFrame
    <3>2. \A q \in Procs : q # p => job'[q] = job[q]
        BY Zenon, <1>3, MoveEffect
    <3>3. ~Busy(ip)
        BY Zenon, <2>1, <3>2 DEF Busy, Active
    <3>4. KeyOf(ip) = rblKey(ip)
        BY Zenon DEF KeyOf
    <3>. QED BY Zenon, <3>1, <3>3, <3>4 DEF PtrInStep
  <2>2. CASE job[p].a = ip
    <3>1. job'[p].step = "done"
        BY Zenon, <1>1, <1>3, <2>2, MoveEffect DEF Busy, Active
    <3>2. /\ job[p].clean /\ (persist(p) \/ apply(p))
          /\ job[p].step \in {"ptr", "mem"}
        BY Zenon, <1>3, <2>2, <3>1, MoveEffect
    <3>3. /\ Held(KeyOf(ip)) # NoEntry <=> job[p].kind = "put"
          /\ job[p].step = "mem" =>
               (kv[reverseKey(ip)] # 0 <=> job[p].kind = "put")
      <4>1. job[p].kind = "put" => job[p].rec # NoEntry
          BY Zenon, JobTypes, EtcdAssumption
      <4>. QED BY Zenon, <2>0, <2>2, <3>2, <4>1 DEF Written
    <3>4. kv[KeyOf(ip)] # 0 <=> job[p].kind = "put"
        BY Zenon, <2>0, <3>3, StoredHeld DEF Types
    <3>5. CASE apply(p)
      <4>1. job[p].step = "mem" /\ kv' = kv
          BY Zenon, <3>5 DEF apply, etcdVars
      <4>. QED BY Zenon, <3>3, <3>4, <4>1
    <3>6. CASE persist(p)
      <4>1. job[p].step = "ptr"
          BY Zenon, <3>2, <3>6 DEF persist
      <4>2. PICK key : key = reverseKey(ip)
          BY Zenon
      <4>3. /\ kv'[key] # 0 <=> job[p].kind = "put"
            /\ \A k \in Keys : k # key => kv'[k] = kv[k]
          BY <2>0, <2>2, <3>6, <4>1, <4>2, PersistEffect
      <4>4. KeyOf(ip) \in Keys /\ KeyOf(ip) # key
          BY Zenon, <2>0, <4>2, KeyFacts
      <4>. QED BY Zenon, <3>4, <4>2, <4>3, <4>4
    <3>. QED BY Zenon, <3>2, <3>5, <3>6
  <2>. QED BY Zenon, <2>1, <2>2
<1>4. CASE clock \/ \E i \in Instances : tick(i) \/ turn(i)
    BY Zenon, <1>4, TypesQuiet DEF PtrInStep, Busy, Active, etcdVars
<1>5. ASSUME NEW i \in Instances, boot(i) \/ crash(i) \/ watch(i)
      PROVE  PtrInStep'
  <2>1. kv' = kv /\ dirty \subseteq dirty'
      BY Zenon, <1>5 DEF boot, crash, watch, etcdVars
  <2>2. \A p \in Procs : Active(p) => job'[p] = job[p] \/ job[p].a \in dirty'
      BY Zenon, <1>5 DEF boot, crash, watch
  <2>. QED BY Zenon, <2>1, <2>2 DEF PtrInStep, Busy, Active
<1>6. CASE UNCHANGED vars
    BY Zenon, <1>6 DEF PtrInStep, Busy, Active, vars
<1>. QED BY Zenon, <1>2, <1>3, <1>4, <1>5, <1>6, Cases

Pairs == Types /\ Alone /\ Written /\ PtrInStep

\* Pairs is an inductive invariant.
LEMMA PairsInductive ==
  /\ Init => Pairs
  /\ Pairs /\ [Acts]_vars => Pairs'
<1>1. ASSUME Init PROVE Pairs
  <2>1. \A p \in Procs : job[p].step = "done" /\ job[p].kind = "delete"
      BY <1>1 DEF Init, NoJob
  <2>2. Alone /\ Written
      BY <2>1 DEF Alone, Written, Active
  <2>3. \A ip \in IPs : kv[rblKey(ip)] = 0 /\ kv[reverseKey(ip)] = 0
      BY Zenon, <1>1 DEF Init, etcdInit, Keys
  <2>4. PtrInStep
      BY <2>3 DEF PtrInStep
  <2>. QED BY Zenon, <1>1, <2>2, <2>4, TypesInit DEF Pairs
<1>2. Pairs /\ [Acts]_vars => Pairs'
    BY Zenon, TypesNext, AloneNext, WrittenNext, PtrNext DEF Pairs
<1>. QED BY Zenon, <1>1, <1>2

\* In both modes, with failing, hanging and interrupted requests: the PTR
\* record of an address exists exactly when its block does, as long as no job
\* is at work on it and the last one ran alone and lost no write.
THEOREM PtrCorrect == Spec => []PtrInStep
<1>1. /\ Init => Pairs
      /\ Pairs /\ [Next]_vars => Pairs'
      /\ Pairs => PtrInStep
    BY Zenon, PairsInductive DEF Acts, Pairs
<1>. QED BY <1>1, PTL DEF Spec

----------------------------------------------------------------------------
(* Single-instance mode: memory and etcd                                   *)

\* Memory has the block of a that etcd has, or none where a load that failed
\* missed it.
Agrees(i, a) ==
  /\ a \in unread[i] => table[i][a] = NoEntry /\ Held(KeyOf(a)) # NoEntry
  /\ a \notin unread[i] => ValueOf(table[i][a]) = Held(KeyOf(a))

\* Memory and etcd agree about an address at rest, and about the addresses once
\* they are loaded.
Matches ==
  /\ \A i \in Instances, a \in Addrs :
       (up[i] = "up" /\ ~Busy(a) /\ a \notin dirty) => Agrees(i, a)
  /\ \A i \in Instances, a \in IPs : up[i] = "loadCIDR" => Agrees(i, a)

\* Nothing is missed before its load.
Unloaded ==
  \A i \in Instances, a \in Addrs :
    up[i] = "down" \/ (up[i] = "loadCIDR" /\ a \in Nets) => a \notin unread[i]

\* A clean put that is over is in memory, unless a load missed it.
Answered ==
  \A i \in Instances, a \in Addrs, p \in Procs :
    (/\ up[i] = "up" /\ job[p].a = a /\ job[p].kind = "put"
     /\ job[p].step = "done" /\ job[p].clean /\ a \notin unread[i]) =>
       table[i][a] # NoEntry /\ table[i][a].val = job[p].rec

Ended(v, t) == v.exp > 0 /\ v.exp <= t

\* A clean put about to be written has the first_seen of the block it replaces,
\* unless a load missed that.
Preserves ==
  \A p \in Procs, i \in Instances, a \in Addrs, v \in Values :
    (/\ job[p].a = a /\ job[p].kind = "put" /\ job[p].step = "key"
     /\ job[p].clean /\ a \notin dirty
     /\ job[p].inst = i /\ a \notin unread[i]
     /\ Held(KeyOf(a)) = v /\ ~Ended(v, now)) => job[p].rec.first = v.first

\* Kept when jobs begin.
LEMMA SingleBegin ==
  ASSUME Types, Matches, Unloaded, Answered, Preserves, Begins
  PROVE  Matches' /\ Unloaded' /\ Answered' /\ Preserves'
<1>1. PICK new : NewOK(new) /\ Begin(new)
    BY Zenon DEF Begins
<1>2. /\ \A p \in Procs : Kept(p) \/ Fresh(p)
      /\ \A p, q \in Procs :
           (job'[p].clean /\ job'[q].step # "done" /\ job'[q].a = job'[p].a)
             => q = p
    BY Zenon, <1>1, BeginEffect
<1>3. UNCHANGED <<hist, kv, table, now, up, dirty, unread>>
    BY Zenon DEF Begins, etcdVars, replicaVars
<1>4. Matches'
  <2>1. ASSUME NEW a \in Addrs, Busy(a) PROVE Busy(a)'
      BY Zenon, <1>2, <2>1 DEF Busy, Active, Kept, Fresh
  <2>. QED BY Zenon, <1>3, <2>1 DEF Matches, Agrees, Held
<1>7. Unloaded'
    BY Zenon, <1>3 DEF Unloaded
<1>5. Answered'
    BY <1>2, <1>3 DEF Answered, Kept, Fresh
<1>6. Preserves'
  <2>. SUFFICES ASSUME NEW p \in Procs, NEW k \in Instances, NEW a \in Addrs,
                       NEW v \in Values,
                       job'[p].a = a, job'[p].kind = "put", job'[p].step = "key",
                       job'[p].clean, a \notin dirty',
                       job'[p].inst = k, a \notin unread'[k],
                       Held(KeyOf(a))' = v, ~Ended(v, now)'
                PROVE  job'[p].rec.first = v.first
      BY Zenon DEF Preserves
  <2>0. /\ a \notin dirty /\ a \notin unread[k]
        /\ Held(KeyOf(a)) = v /\ ~Ended(v, now)
      BY Zenon, <1>3 DEF Held, Ended
  <2>1. CASE Kept(p)
    <3>1. /\ job[p].a = a /\ job[p].kind = "put" /\ job[p].step = "key"
          /\ job[p].clean /\ job[p].inst = k /\ job'[p].rec = job[p].rec
        BY Zenon, <2>1 DEF Kept
    <3>. QED BY Zenon, <2>0, <3>1 DEF Preserves
  <2>2. CASE Fresh(p)
    <3>1. ~Busy(a)
        BY <1>2, <2>2 DEF Busy, Active, Kept, Fresh
    <3>3. up[k] = "up" /\ job'[p].rec.first = FirstSeen(k, a)
        BY Zenon, <2>2 DEF Fresh
    <3>4. table[k][a] # NoEntry /\ table[k][a].val = v
      <4>1. v # NoEntry
          BY Zenon, EtcdAssumption
      <4>2. ValueOf(table[k][a]) = v
          BY Zenon, <2>0, <3>1, <3>3 DEF Matches, Agrees
      <4>. QED BY Zenon, <4>1, <4>2 DEF ValueOf
    <3>. QED BY Zenon, <2>0, <3>3, <3>4 DEF FirstSeen, Expired, Ended
  <2>. QED BY Zenon, <1>2, <2>1, <2>2
<1>. QED BY Zenon, <1>4, <1>5, <1>6, <1>7

\* One process: isMultiInstance is what says that there are others.
LEMMA OneInstance ==
  ASSUME ~MultiInstance, NEW i \in Instances, NEW k \in Instances
  PROVE  k = i
  BY BlocklistAssumption

\* The entry of a record.
LEMMA EntryOf ==
  \A a \in Addrs, r \in Values : Entry(a, r, 0) # NoEntry /\ Entry(a, r, 0).val = r
<1>. SUFFICES ASSUME NEW a \in Addrs, NEW r \in Values
              PROVE  Entry(a, r, 0) # NoEntry /\ Entry(a, r, 0).val = r
    OBVIOUS
<1>1. r # NoEntry
    BY Zenon, EtcdAssumption
<1>2. PICK m \in Nat : Entry(a, r, 0) = [val |-> r, mod |-> m]
    BY <1>1 DEF Entry
<1>3. [val |-> r, mod |-> m] \in [val : Values, mod : Nat]
    BY <1>2
<1>. QED BY <1>2, <1>3, EtcdAssumption

\* What the update of memory leaves there, in single-instance mode.
LEMMA ApplyEffect ==
  ASSUME Types, ~MultiInstance, NEW p \in Procs, apply(p),
         NEW a \in Addrs, job[p].a = a, NEW i \in Instances
  PROVE  /\ job[p].kind = "put" =>
              table'[i][a] # NoEntry /\ table'[i][a].val = job[p].rec
         /\ job[p].kind # "put" => table'[i][a] = NoEntry
         /\ a \notin unread'[i]
<1>1. PICK e : /\ e = IF job[p].kind = "put" THEN Entry(a, job[p].rec, 0) ELSE NoEntry
               /\ table' = [table EXCEPT ![job[p].inst][a] = e]
               /\ unread' = [unread EXCEPT ![job[p].inst] = @ \ {a}]
    BY Zenon DEF apply
<1>2. job[p].inst = i
  <2>1. job[p].inst \in Instances
      BY Zenon DEF apply, Types, Running, Active
  <2>. QED BY Zenon, <2>1, OneInstance
<1>3. table \in [Instances -> [Addrs -> Entries \cup {NoEntry}]]
    BY Zenon DEF Types, TypeOK
<1>4. table'[i][a] = e
    BY <1>1, <1>2, <1>3
<1>5. job[p].kind = "put" => e # NoEntry /\ e.val = job[p].rec
  <2>1. job[p].kind = "put" => job[p].rec \in Values
      BY Zenon, JobTypes
  <2>. QED BY Zenon, <1>1, <2>1, EntryOf
<1>6. a \notin unread'[i]
    BY Zenon, <1>1, <1>2 DEF Types, TypeOK
<1>. QED BY Zenon, <1>1, <1>4, <1>5, <1>6

\* Kept by the steps of a job.
LEMMA SingleMoves ==
  ASSUME Types, Alone, Written, Matches, Unloaded, Answered, Preserves, ~MultiInstance,
         NEW p \in Procs, Moves(p)
  PROVE  Matches' /\ Unloaded' /\ Answered' /\ Preserves'
<1>1. /\ Active(p) /\ \A q \in Procs : q # p => job'[q] = job[q]
      /\ job'[p].step # "key"
      /\ now' = now /\ up' = up
    BY Zenon, MoveEffect
<1>2. PICK b \in Addrs : b = job[p].a
    BY Zenon, <1>1 DEF Types, Running
<1>3. \A i \in Instances : up[i] = "up"
  <2>1. job[p].inst \in Instances /\ up[job[p].inst] = "up"
      BY Zenon, <1>1 DEF Types, Running
  <2>. QED BY Zenon, <2>1, OneInstance
<1>4. NoJob.step = "done" /\ NoJob.kind = "delete"
    BY Zenon DEF NoJob
<1>5. ASSUME NEW a \in Addrs, a # b
      PROVE  /\ Held(KeyOf(a))' = Held(KeyOf(a))
             /\ a \in dirty' <=> a \in dirty
             /\ \A i \in Instances : /\ table'[i][a] = table[i][a]
                                     /\ a \in unread'[i] <=> a \in unread[i]
             /\ Busy(a) => Busy(a)'
    <2>1. job[p].a # a
        BY Zenon, <1>2, <1>5
    <2>2. Busy(a) => Busy(a)'
        BY Zenon, <1>1, <2>1 DEF Busy, Active
    <2>. QED BY Zenon, <2>1, <2>2, MoveFrame
\* The last step of a job in this mode is the update of memory.
<1>6. ASSUME job'[p].step = "done", persist(p) \/ apply(p)
      PROVE  /\ apply(p) /\ job[p].step = "mem"
             /\ hist' = hist /\ kv' = kv
    <2>1. job[p].step = "mem"
        BY Zenon, <1>6, MoveEffect
    <2>2. apply(p)
        BY Zenon, <1>6, <2>1 DEF persist
    <2>. QED BY Zenon, <2>1, <2>2 DEF apply, etcdVars
<1>7. Matches'
  <2>1. ASSUME NEW i \in Instances, NEW a \in Addrs, ~Busy(a)', a \notin dirty'
        PROVE  Agrees(i, a)'
    <3>1. CASE a # b
      <4>1. Agrees(i, a)
          BY Zenon, <1>3, <1>5, <2>1, <3>1 DEF Matches
      <4>2. /\ Held(KeyOf(a))' = Held(KeyOf(a)) /\ table'[i][a] = table[i][a]
            /\ a \in unread'[i] <=> a \in unread[i]
          BY Zenon, <1>5, <3>1
      <4>. QED BY Zenon, <4>1, <4>2 DEF Agrees
    <3>2. CASE a = b
      <4>1. job'[p].step = "done"
          BY Zenon, <1>2, <1>4, <2>1, <3>2, MoveEffect DEF Busy, Active
      <4>2. job[p].clean /\ (persist(p) \/ apply(p))
          BY Zenon, <1>2, <2>1, <3>2, <4>1, MoveEffect
      <4>3. apply(p) /\ job[p].step = "mem" /\ hist' = hist /\ kv' = kv
          BY Zenon, <1>6, <4>1, <4>2
      <4>4. Held(KeyOf(a))' = Held(KeyOf(a))
          BY <4>3 DEF Held
      <4>5. Held(KeyOf(a)) = IF job[p].kind = "put" THEN job[p].rec ELSE NoEntry
          BY Zenon, <1>2, <3>2, <4>2, <4>3 DEF Written
      <4>. QED BY Zenon, <1>2, <3>2, <4>3, <4>4, <4>5, ApplyEffect DEF Agrees, ValueOf
    <3>. QED BY Zenon, <3>1, <3>2
  <2>2. \A i \in Instances : up'[i] # "loadCIDR"
      BY <1>1, <1>3
  <2>. QED BY Zenon, <2>1, <2>2 DEF Matches
<1>10. Unloaded'
    BY <1>1, <1>3 DEF Unloaded
<1>8. Answered'
  <2>. SUFFICES ASSUME NEW i \in Instances, NEW a \in Addrs, NEW q \in Procs,
                       job'[q].a = a, job'[q].kind = "put",
                       job'[q].step = "done", job'[q].clean, a \notin unread'[i]
                PROVE  table'[i][a] # NoEntry /\ table'[i][a].val = job'[q].rec
      BY DEF Answered
  <2>1. CASE q # p
    <3>1. a # b
        BY Zenon, <1>1, <1>2, <2>1 DEF Alone
    <3>2. table'[i][a] = table[i][a] /\ (a \in unread'[i] <=> a \in unread[i])
        BY Zenon, <1>5, <3>1
    <3>3. job'[q] = job[q] /\ up[i] = "up" /\ a \notin unread[i]
        BY Zenon, <1>1, <1>3, <2>1, <3>2
    <3>5. /\ job[q].a = a /\ job[q].kind = "put" /\ job[q].step = "done"
          /\ job[q].clean
        BY Zenon, <3>3
    <3>4. table[i][a] # NoEntry /\ table[i][a].val = job[q].rec
        BY Zenon, <3>3, <3>5 DEF Answered
    <3>. QED BY Zenon, <3>2, <3>3, <3>4
  <2>2. CASE q = p
    <3>1. /\ job[p].kind = "put" /\ job[p].a = a /\ job'[p].rec = job[p].rec
          /\ persist(p) \/ apply(p)
        BY Zenon, <1>4, <2>2, MoveEffect
    <3>. QED BY <1>6, <2>2, <3>1, ApplyEffect
  <2>. QED BY Zenon, <2>1, <2>2
<1>9. Preserves'
  <2>. SUFFICES ASSUME NEW q \in Procs, NEW i \in Instances, NEW a \in Addrs,
                       NEW v \in Values,
                       job'[q].a = a, job'[q].kind = "put", job'[q].step = "key",
                       job'[q].clean, a \notin dirty',
                       job'[q].inst = i, a \notin unread'[i],
                       Held(KeyOf(a))' = v, ~Ended(v, now)'
                PROVE  job'[q].rec.first = v.first
      BY ZenonT(30) DEF Preserves
  <2>1. /\ q # p /\ job'[q] = job[q]
        /\ job[q].a = a /\ job[q].kind = "put" /\ job[q].step = "key"
        /\ job[q].clean /\ job[q].inst = i
      BY Zenon, <1>1
  <2>2. a # b
      BY Zenon, <1>1, <1>2, <2>1 DEF Alone, Active
  <2>3. /\ Held(KeyOf(a))' = Held(KeyOf(a))
        /\ a \in dirty' <=> a \in dirty
        /\ a \in unread'[i] <=> a \in unread[i]
      BY Zenon, <1>5, <2>2
  <2>4. ~Ended(v, now)
      BY Zenon, <1>1 DEF Ended
  <2>5. a \notin dirty /\ a \notin unread[i] /\ Held(KeyOf(a)) = v
      BY Zenon, <2>3
  <2>6. job[q].rec.first = v.first
      BY <2>1, <2>4, <2>5 DEF Preserves
  <2>. QED BY Zenon, <2>1, <2>6
<1>. QED BY Zenon, <1>7, <1>8, <1>9, <1>10

\* Kept when the instance loads its tables or ends.
LEMMA SingleInstance ==
  ASSUME Types, Written, Matches, Unloaded, Answered, Preserves, ~MultiInstance,
         NEW i \in Instances, boot(i) \/ crash(i) \/ watch(i)
  PROVE  Matches' /\ Unloaded' /\ Answered' /\ Preserves'
<1>1. hist' = hist /\ kv' = kv /\ now' = now /\ (boot(i) \/ crash(i))
    BY Zenon DEF boot, crash, watch, etcdVars
<1>2. \A a \in Addrs : Held(KeyOf(a))' = Held(KeyOf(a)) /\ Stored(a)' = Stored(a)
    BY Zenon, <1>1 DEF Held, Stored
<1>3. \A k \in Instances : k = i
    BY Zenon, OneInstance
<1>4. up \in [Instances -> {"down", "loadCIDR", "up"}]
    BY Zenon DEF Types, TypeOK
\* No job is under way in a process that starts or has ended.
<1>9. \A p \in Procs : job'[p].step = "done"
  <2>1. ASSUME NEW p \in Procs, Active(p) PROVE job[p].inst = i /\ up[i] = "up"
      BY Zenon, <1>3, <2>1 DEF Types, Running
  <2>2. CASE crash(i)
    <3>1. \A p \in Procs : job'[p] = IF Active(p) /\ job[p].inst = i
                                       THEN NoJob ELSE job[p]
        BY Zenon, <2>2 DEF crash
    <3>2. NoJob.step = "done"
        BY Zenon DEF NoJob
    <3>. QED BY Zenon, <2>1, <3>1, <3>2 DEF Active
  <2>3. CASE boot(i)
    <3>1. up[i] # "up" /\ job' = job
        BY Zenon, <2>3 DEF boot
    <3>. QED BY Zenon, <2>1, <3>1 DEF Active
  <2>. QED BY Zenon, <1>1, <2>2, <2>3
<1>10. Preserves'
    BY Zenon, <1>9 DEF Preserves
<1>5. CASE crash(i)
  <2>1. up'[i] = "down"
      BY <1>4, <1>5 DEF crash
  <2>2. Matches' /\ Answered'
      BY Zenon, <1>3, <2>1 DEF Matches, Answered
  <2>3. unread'[i] = {}
      BY Zenon, <1>5 DEF crash, Types, TypeOK
  <2>4. Unloaded'
      BY Zenon, <1>3, <2>3 DEF Unloaded
  <2>. QED BY Zenon, <1>10, <2>2, <2>4
\* What a load leaves of an address that no load missed before.
<1>11. ASSUME NEW w \in Watchers, Load(i, w), NEW a \in Owned(w), a \notin unread[i]
       PROVE  Agrees(i, a)'
  <2>1. a \in Addrs
      BY Zenon DEF Owned, Addrs
  <2>2. /\ Held(KeyOf(a))' = Held(KeyOf(a)) /\ ValueOf(Stored(a)) = Held(KeyOf(a))
        /\ Stored(a) # NoEntry => Held(KeyOf(a)) # NoEntry
      BY Zenon, <1>2, <2>1, StoredHeld DEF Types
  <2>3. \/ table'[i][a] = Stored(a) /\ a \notin unread'[i]
        \/ table'[i][a] = NoEntry /\ (a \in unread'[i] <=> Stored(a) # NoEntry)
      BY Zenon, <1>11, LoadEffect
  <2>. QED BY Zenon, <2>2, <2>3 DEF Agrees, ValueOf
<1>6. CASE boot(i) /\ up[i] = "down"
  <2>1. Load(i, "ip") /\ up'[i] = "loadCIDR"
      BY <1>4, <1>6 DEF boot
  <2>2. "ip" \in Watchers /\ Owned("ip") = IPs /\ \A a \in Addrs : a \notin unread[i]
      BY Zenon, <1>6 DEF Watchers, Owned, Unloaded
  <2>3. \A a \in IPs : Agrees(i, a)'
      BY Zenon, <1>11, <2>1, <2>2 DEF Addrs
  <2>4. Matches' /\ Answered'
      BY Zenon, <1>3, <2>1, <2>3 DEF Matches, Answered
  <2>5. \A a \in Nets : a \in Addrs \ Owned("ip")
      BY Zenon, <2>2, EtcdAssumption DEF Addrs
  <2>6. \A a \in Nets : a \notin unread'[i]
      BY Zenon, <2>1, <2>2, <2>5, LoadEffect
  <2>7. Unloaded'
      BY <1>3, <2>1, <2>6 DEF Unloaded
  <2>. QED BY Zenon, <1>10, <2>4, <2>7
<1>7. CASE boot(i) /\ up[i] = "loadCIDR"
  <2>1. Load(i, "cidr") /\ up'[i] = "up"
      BY <1>4, <1>7 DEF boot
  <2>2. "cidr" \in Watchers /\ Owned("cidr") = Nets
      BY Zenon DEF Watchers, Owned
  <2>3. ASSUME NEW a \in Addrs PROVE Agrees(i, a)'
    <3>1. CASE a \in Nets
        BY Zenon, <1>7, <1>11, <2>1, <2>2, <3>1 DEF Unloaded
    <3>2. CASE a \notin Nets
      <4>1. /\ table'[i][a] = table[i][a]
            /\ a \in unread'[i] <=> a \in unread[i]
          BY Zenon, <2>1, <2>2, <3>2, LoadEffect
      <4>2. a \in IPs
          BY Zenon, <3>2 DEF Addrs
      <4>3. Agrees(i, a) /\ Held(KeyOf(a))' = Held(KeyOf(a))
          BY Zenon, <1>2, <1>7, <4>2 DEF Matches
      <4>. QED BY Zenon, <4>1, <4>3 DEF Agrees
    <3>. QED BY Zenon, <3>1, <3>2
  <2>4. Matches'
      BY <1>3, <2>1, <2>3 DEF Matches
  <2>5. Unloaded'
      BY <1>3, <2>1 DEF Unloaded
  <2>6. Answered'
    <3>1. ASSUME NEW p \in Procs, NEW a \in Addrs, job[p].a = a, job[p].clean,
                 job[p].kind = "put", job[p].step = "done", a \notin unread'[i]
          PROVE  table'[i][a] # NoEntry /\ table'[i][a].val = job[p].rec
      <4>1. Held(KeyOf(a)) = job[p].rec
          BY Zenon, <3>1 DEF Written
      <4>2. job[p].rec # NoEntry
          BY Zenon, <3>1, JobTypes, EtcdAssumption
      <4>3. ValueOf(table'[i][a]) = Held(KeyOf(a))
        <5>1. ValueOf(table[i][a])' = ValueOf(table'[i][a])
            BY Zenon DEF ValueOf
        <5>. QED BY Zenon, <1>2, <2>3, <3>1, <5>1 DEF Agrees
      <4>. QED BY Zenon, <4>1, <4>2, <4>3 DEF ValueOf
    <3>2. job' = job
        BY Zenon, <1>7 DEF boot
    <3>3. \A k \in Instances, a \in Addrs, p \in Procs :
            (/\ job'[p].a = a /\ job'[p].kind = "put"
             /\ job'[p].step = "done" /\ job'[p].clean /\ a \notin unread'[k]) =>
               table'[k][a] # NoEntry /\ table'[k][a].val = job'[p].rec
        BY <1>3, <3>1, <3>2
    <3>. QED BY Zenon, <3>3 DEF Answered
  <2>. QED BY Zenon, <1>10, <2>4, <2>5, <2>6
<1>8. boot(i) => up[i] \in {"down", "loadCIDR"}
    BY Zenon DEF boot
<1>. QED BY Zenon, <1>1, <1>5, <1>6, <1>7, <1>8

SingleInv ==
  Types /\ Alone /\ Written /\ Matches /\ Unloaded /\ Answered /\ Preserves

\* SingleInv is an inductive invariant of single-instance mode.
LEMMA SingleInductive ==
  ASSUME ~MultiInstance
  PROVE  /\ Init => SingleInv
         /\ SingleInv /\ [Acts]_vars => SingleInv'
<1>1. Init => SingleInv
  <2>. SUFFICES ASSUME Init PROVE SingleInv
      OBVIOUS
  <2>1. \A p \in Procs : job[p].step = "done" /\ job[p].kind = "delete"
      BY Zenon DEF Init, NoJob
  <2>2. \A i \in Instances : up[i] = "down"
      BY DEF Init
  <2>3. Alone /\ Written
      BY <2>1 DEF Alone, Written, Active
  <2>4. Matches /\ Answered
      BY <2>1, <2>2 DEF Matches, Answered
  <2>6. Unloaded
      BY Zenon DEF Init, Unloaded
  <2>5. Preserves
      BY <2>1 DEF Preserves
  <2>. QED BY Zenon, <2>3, <2>4, <2>5, <2>6, TypesInit DEF SingleInv
<1>2. ASSUME Types, Alone, Written, Matches, Unloaded, Answered, Preserves, [Acts]_vars
      PROVE  SingleInv'
  <2>1. Types' /\ Alone' /\ Written'
      BY Zenon, <1>2, TypesNext, AloneNext, WrittenNext
  <2>2. ASSUME UNCHANGED <<hist, kv, table, up, job, dirty, unread>>, now <= now'
        PROVE  Matches' /\ Unloaded' /\ Answered' /\ Preserves'
    <3>1. Matches' /\ Unloaded' /\ Answered'
      <4>1. \A a \in Addrs : (Busy(a)' <=> Busy(a)) /\ Held(KeyOf(a))' = Held(KeyOf(a))
          BY Zenon, <2>2 DEF Busy, Active, Held
      <4>2. \A i \in Instances, a \in Addrs : Agrees(i, a)' <=> Agrees(i, a)
          BY Zenon, <2>2, <4>1 DEF Agrees
      <4>. QED BY Zenon, <1>2, <2>2, <4>1, <4>2
             DEF Matches, Unloaded, Answered, Addrs
    <3>2. ASSUME NEW v \in Values, ~Ended(v, now')
          PROVE  ~Ended(v, now)
      <4>1. v.exp \in Exps /\ Exps \subseteq Int
          BY BlocklistAssumption, SMTT(30) DEF Exps
      <4>2. now \in Int /\ now' \in Int
          BY <1>2, <2>1, BlocklistAssumption DEF Types, TypeOK, Times
      <4>3. PICK x \in Int, t \in Int, u \in Int :
              x = v.exp /\ t = now /\ u = now' /\ t <= u
          BY Zenon, <2>2, <4>1, <4>2
      <4>4. x > 0 /\ x <= t => x <= u
          BY <4>3
      <4>. QED BY Zenon, <3>2, <4>3, <4>4 DEF Ended
    <3>3. \A a \in Addrs : Held(KeyOf(a))' = Held(KeyOf(a))
        BY Zenon, <2>2 DEF Held
    <3>4. Preserves'
        BY <1>2, <2>2, <3>2, <3>3 DEF Preserves, Ended
    <3>. QED BY Zenon, <3>1, <3>4
  <2>3. CASE clock \/ \E i \in Instances : tick(i) \/ turn(i)
    <3>1. now <= now' /\ UNCHANGED <<hist, kv, table, up, job, dirty, unread>>
        BY Zenon, <1>2, <2>3, TypesQuiet DEF etcdVars, replicaVars
    <3>. QED BY Zenon, <2>1, <2>2, <3>1 DEF SingleInv
  <2>4. CASE UNCHANGED vars
    <3>1. now \in Nat
        BY <1>2, BlocklistAssumption DEF Types, TypeOK, Times
    <3>2. now <= now' /\ UNCHANGED <<hist, kv, table, up, job, dirty, unread>>
        BY <2>4, <3>1 DEF vars
    <3>. QED BY Zenon, <2>1, <2>2, <3>2 DEF SingleInv
  <2>5. Acts => SingleInv'
      BY Zenon, <1>2, <2>1, <2>3, Cases, SingleBegin, SingleMoves,
         SingleInstance
         DEF SingleInv
  <2>. QED BY Zenon, <1>2, <2>4, <2>5
<1>. QED BY Zenon, <1>1, <1>2 DEF SingleInv

\* So memory and etcd agree about an address at rest.
LEMMA SingleInStep == SingleInv => InStep
<1>. SUFFICES ASSUME Types, Matches PROVE InStep
    BY Zenon DEF SingleInv
<1>1. \A a \in Addrs : /\ ValueOf(Stored(a)) = Held(KeyOf(a))
                       /\ Stored(a) = NoEntry => Held(KeyOf(a)) = NoEntry
    BY Zenon, StoredHeld DEF Types
<1>2. ASSUME NEW i \in Instances, NEW a \in Addrs, Agrees(i, a)
      PROVE  IF a \in unread[i] THEN table[i][a] = NoEntry /\ Stored(a) # NoEntry
             ELSE ValueOf(table[i][a]) = ValueOf(Stored(a))
  <2>1. CASE a \in unread[i]
      BY Zenon, <1>1, <1>2, <2>1 DEF Agrees
  <2>2. CASE a \notin unread[i]
      BY Zenon, <1>1, <1>2, <2>2 DEF Agrees
  <2>. QED BY Zenon, <2>1, <2>2
<1>. QED BY Zenon, <1>2 DEF InStep, Matches

\* And a client finds what it put.
LEMMA SingleReads == SingleInv => ReadYourWrites
<1>. SUFFICES ASSUME Types, Answered, NEW p \in Clients, job[p].kind = "put",
                     job[p].step = "done", job[p].clean,
                     up[job[p].inst] = "up", job[p].a \notin unread[job[p].inst]
              PROVE  \/ Expired(Entry(job[p].a, job[p].rec, 0), now)
                     \/ /\ table[job[p].inst][job[p].a] # NoEntry
                        /\ ~Expired(table[job[p].inst][job[p].a], now)
    BY Zenon DEF SingleInv, ReadYourWrites
<1>1. p \in Procs
    BY Zenon DEF Procs
<1>2. job[p].a \in Addrs /\ job[p].inst \in Instances
    BY Zenon, <1>1 DEF Types, Running
<1>3. /\ table[job[p].inst][job[p].a] # NoEntry
      /\ table[job[p].inst][job[p].a].val = job[p].rec
    BY Zenon, <1>1, <1>2 DEF Answered
<1>4. job[p].rec \in Values
    BY Zenon, <1>1, JobTypes
<1>. QED BY Zenon, <1>2, <1>3, <1>4, EntryOf DEF Expired

\* What FirstSeenKept says of a step.
Keeps(p) ==
  (/\ job[p].step = "key" /\ job'[p].step \in {"ptr", "mem"}
   /\ job[p].kind = "put" /\ job'[p].clean
   /\ job[p].a \notin dirty \cup unread[job[p].inst]
   /\ Stored(job[p].a) # NoEntry /\ ~Expired(Stored(job[p].a), now)) =>
     job[p].rec.first = Stored(job[p].a).val.first

\* A clean put is written with the first_seen of the block it replaces.
LEMMA SingleKeeps ==
  SingleInv /\ [Acts]_vars => [\A p \in Procs : Keeps(p)]_vars
<1>. SUFFICES ASSUME SingleInv, Acts, NEW p \in Procs,
                     job[p].step = "key", job'[p].step \in {"ptr", "mem"},
                     job[p].kind = "put", job'[p].clean,
                     job[p].a \notin dirty \cup unread[job[p].inst],
                     Stored(job[p].a) # NoEntry,
                     ~Expired(Stored(job[p].a), now)
              PROVE  job[p].rec.first = Stored(job[p].a).val.first
    BY Zenon DEF Keeps
<1>1. Types /\ Preserves
    BY Zenon DEF SingleInv
<1>2. NoJob.step = "done"
    BY Zenon DEF NoJob
<1>3. job[p].clean
  <2>1. ASSUME Begins
        PROVE  FALSE
    <3>1. \E new : NewOK(new) /\ Begin(new)
        BY Zenon, <2>1 DEF Begins
    <3>2. Kept(p) \/ Fresh(p)
        BY Zenon, <1>1, <3>1, BeginEffect
    <3>. QED BY Zenon, <3>2 DEF Kept, Fresh
  <2>2. ASSUME NEW q \in Procs, Moves(q)
        PROVE  job[p].clean
      BY Zenon, <1>1, <1>2, <2>2, MoveEffect
  <2>3. ASSUME clock \/ \E i \in Instances : tick(i) \/ turn(i)
        PROVE  FALSE
      BY Zenon, <1>1, <2>3, TypesQuiet
  <2>4. ASSUME NEW i \in Instances, boot(i) \/ crash(i) \/ watch(i)
        PROVE  FALSE
    <3>1. job'[p] = job[p] \/ job'[p] = NoJob
        BY Zenon, <2>4 DEF boot, crash, watch
    <3>. QED BY Zenon, <1>2, <3>1
  <2>. QED BY Zenon, <1>1, <2>1, <2>2, <2>3, <2>4, Cases
<1>4. PICK a \in Addrs : a = job[p].a /\ job[p].inst \in Instances
    BY Zenon, <1>1 DEF Types, Running, Active
<1>5. PICK v : v = Stored(a).val
    OBVIOUS
<1>6. v \in Values /\ Held(KeyOf(a)) = v
  <2>1. Stored(a) \in Entries /\ ValueOf(Stored(a)) = Held(KeyOf(a))
      BY Zenon, <1>1, <1>4, StoredHeld DEF Types
  <2>2. Stored(a).val \in Values
      BY <2>1 DEF Entries
  <2>. QED BY Zenon, <1>4, <1>5, <2>1, <2>2 DEF ValueOf
<1>7. ~Ended(v, now)
    BY Zenon, <1>4, <1>5 DEF Ended, Expired
<1>. QED BY Zenon, <1>1, <1>3, <1>4, <1>5, <1>6, <1>7 DEF Preserves

\* Single-instance mode: whatever mix of requests, lazy deletions, worker
\* rounds, failures and restarts came before, memory and etcd hold the same
\* block for an address at rest, unless the last job on it overlapped another
\* one or lost a write.  A load that failed costs memory the blocks etcd had
\* then and nothing else.
THEOREM InStepCorrect ==
  ASSUME ~MultiInstance
  PROVE  Spec => []InStep
<1>1. (Init => SingleInv) /\ (SingleInv /\ [Next]_vars => SingleInv')
    BY Zenon, SingleInductive DEF Acts
<1>. QED BY <1>1, SingleInStep, PTL DEF Spec

\* Single-instance mode: a client finds what it put, also after a restart whose
\* load was read, until the block expires or another job on the address comes
\* along.
THEOREM ReadYourWritesCorrect ==
  ASSUME ~MultiInstance
  PROVE  Spec => []ReadYourWrites
<1>1. (Init => SingleInv) /\ (SingleInv /\ [Next]_vars => SingleInv')
    BY Zenon, SingleInductive DEF Acts
<1>. QED BY <1>1, SingleReads, PTL DEF Spec

\* Single-instance mode: a block that is written over before it expires keeps
\* its first_seen, whatever happens between the lookup and the write, unless a
\* load that failed has left it out of memory.
THEOREM FirstSeenCorrect ==
  ASSUME ~MultiInstance
  PROVE  Spec => FirstSeenKept
<1>1. (Init => SingleInv) /\ (SingleInv /\ [Next]_vars => SingleInv')
    BY Zenon, SingleInductive DEF Acts
<1>2. SingleInv /\ [Next]_vars => [\A p \in Procs : Keeps(p)]_vars
    BY Zenon, SingleKeeps DEF Acts
<1>. QED BY <1>1, <1>2, PTL DEF Spec, FirstSeenKept, Keeps
=============================================================================
