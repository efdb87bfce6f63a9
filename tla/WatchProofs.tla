---------------------------- MODULE WatchProofs ----------------------------
(***************************************************************************)
(* Proofs about module Watch, for every set of instances, addresses and    *)
(* values, every choice of faults and every bound on the history: it keeps *)
(* its types; the watch loops never invent an entry; an entry is what etcd *)
(* held at one revision unless its load failed, its event was skipped or   *)
(* it was dropped, and what etcd holds now once nothing is left to         *)
(* receive; a ModRevision goes back only after the two loops raced on      *)
(* gEtcdRevision; and Watch implements Replica, so that what module        *)
(* Blocklist assumes of replication is what main(), watchLoop and          *)
(* cidrWatchLoop do.                                                       *)
(***************************************************************************)
EXTENDS Watch, TLAPS

----------------------------------------------------------------------------
(* Keys and events                                                         *)

\* Two addresses never share an etcd key (rblKey, cidrToEtcdKey).
LEMMA KeyInjective ==
  ASSUME NEW a \in Addrs, NEW b \in Addrs, KeyOf(a) = KeyOf(b)
  PROVE  a = b
  BY Zenon, EtcdAssumption DEF KeyOf, Addrs, rblKey, cidrToEtcdKey

\* Every address's key is one of the keys the program uses.
LEMMA KeyTyped ==
  ASSUME NEW a \in Addrs
  PROVE  KeyOf(a) \in Keys /\ KeyOf(a).prefix # "arpa"
  BY Zenon DEF KeyOf, Addrs, rblKey, cidrToEtcdKey, Keys

\* A key that decodes in loop w is the key of the address it decodes to.
LEMMA DecodesKey ==
  ASSUME NEW w \in Watchers, NEW e \in Events, Decodes(w, e.key)
  PROVE  /\ e.key.id \in Owned(w)
         /\ e.key.id \in Addrs
         /\ e.key = KeyOf(e.key.id)
         /\ e.val \in Values \cup {NoEntry}
  <1>1. e.key \in Keys
    BY DEF Events, BootEvent, Decodes, Watchers
  <1>2. CASE w = "ip"
    BY <1>1, <1>2 DEF Decodes, Keys, rblKey, reverseKey, cidrToEtcdKey, Owned,
       Addrs, KeyOf, Events, RecordsFor
  <1>3. CASE w = "cidr"
    BY <1>1, <1>3, EtcdAssumption DEF Decodes, Keys, rblKey, reverseKey,
       cidrToEtcdKey, Owned, Addrs, KeyOf, Events, RecordsFor
  <1> QED
    BY Zenon, <1>2, <1>3 DEF Watchers

\* An event of an address that loop w maintains always decodes in that loop.
LEMMA OwnedDecodes ==
  ASSUME NEW w \in Watchers, NEW a \in Owned(w)
  PROVE  a \in Addrs /\ Decodes(w, KeyOf(a))
  BY Zenon, EtcdAssumption DEF Watchers, Owned, Addrs, Decodes, KeyOf, rblKey,
     cidrToEtcdKey

\* An entry made from a well-typed event is well typed.
LEMMA EntryTyped ==
  ASSUME NEW a \in Addrs, NEW v \in Values \cup {NoEntry}, NEW r \in Nat
  PROVE  Entry(a, v, r) \in Entries \cup {NoEntry}
  BY Zenon DEF Entry, Entries

----------------------------------------------------------------------------
(* What a history holds at a revision                                      *)

\* Appending an event changes nothing that was held before.
LEMMA HoldsAppend ==
  ASSUME NEW h \in Seq(Events), NEW ev \in Events, NEW a \in Addrs, NEW e,
         NEW n \in 0..Len(h), HoldsAt(h, a, e, n)
  PROVE  HoldsAt(Append(h, ev), a, e, n)
  <1>1. \A r \in 1..n : Append(h, ev)[r] = h[r]
    OBVIOUS
  <1> QED
    BY <1>1 DEF HoldsAt, Latest

\* What is held stays held while no event touches the address.
LEMMA HoldsExtend ==
  ASSUME NEW h \in Seq(Events), NEW a \in Addrs, NEW e,
         NEW p \in Nat, NEW q \in Nat, p <= q,
         \A r \in (p + 1)..q : h[r].key # KeyOf(a),
         HoldsAt(h, a, e, p)
  PROVE  HoldsAt(h, a, e, q)
  <1>1. CASE e = NoEntry /\ \A r \in 1..p : h[r].key # KeyOf(a)
    BY <1>1 DEF HoldsAt
  <1>2. CASE \E r \in 1..p : /\ Latest(h, KeyOf(a), r, p)
                             /\ e = Entry(a, h[r].val, r)
    <2>1. PICK r \in 1..p : /\ Latest(h, KeyOf(a), r, p)
                            /\ e = Entry(a, h[r].val, r)
      BY Zenon, <1>2
    <2>2. r \in 1..q /\ Latest(h, KeyOf(a), r, q)
      BY <2>1 DEF Latest
    <2> QED
      BY Zenon, <2>1, <2>2 DEF HoldsAt
  <1> QED
    BY Zenon, <1>1, <1>2 DEF HoldsAt

\* An event decides what is held at its own revision.
LEMMA HoldsWritten ==
  ASSUME NEW h \in Seq(Events), NEW a \in Addrs, NEW r \in 1..Len(h),
         h[r].key = KeyOf(a)
  PROVE  HoldsAt(h, a, Entry(a, h[r].val, r), r)
  BY DEF HoldsAt, Latest

\* An event of another key does not change which event of k is the last one.
LEMMA LatestAppend ==
  ASSUME NEW h \in Seq(Events), NEW ev \in Events, NEW k, k # ev.key,
         NEW r \in 1..Len(h), Latest(h, k, r, Len(h))
  PROVE  Latest(Append(h, ev), k, r, Len(h) + 1)
  <1>1. /\ Append(h, ev)[Len(h) + 1] = ev
        /\ \A s \in 1..Len(h) : Append(h, ev)[s] = h[s]
        /\ Len(h) \in Nat
    OBVIOUS
  <1>2. ASSUME NEW s \in (r + 1)..(Len(h) + 1)
        PROVE  Append(h, ev)[s].key # k
    <2>1. CASE s = Len(h) + 1
      BY Zenon, <1>1, <2>1
    <2>2. CASE s # Len(h) + 1
      <3>1. s \in (r + 1)..Len(h) /\ s \in 1..Len(h)
        BY <1>1, <2>2
      <3> QED
        BY Zenon, <1>1, <3>1 DEF Latest
    <2> QED
      BY Zenon, <2>1, <2>2
  <1> QED
    BY <1>1, <1>2 DEF Latest

----------------------------------------------------------------------------
(* Type correctness                                                        *)

\* A loop never holds a message that ends before its own position, applies
\* events only when there are some left, and runs only after main() got there.
LoopAt(i, w) ==
  /\ pos[i][w] <= seen[i][w]
  /\ wpc[i][w] \in {"msg", "store"} => pos[i][w] <= upto[i][w]
  /\ wpc[i][w] = "apply" => pos[i][w] < upto[i][w]
  /\ wpc[i][w] # "off" => pc[i] = "run"

LoopOK == \A i \in Instances : \A w \in Watchers : LoopAt(i, w)

\* etcd: a key is live exactly when its last event is a put, and kv has the
\* revision of that put.
StoreOK ==
  \A k \in Keys :
    IF kv[k] = 0
      THEN \/ \A r \in 1..Len(hist) : hist[r].key # k
           \/ \E r \in 1..Len(hist) : /\ Latest(hist, k, r, Len(hist))
                                      /\ hist[r].val = NoEntry
      ELSE /\ Latest(hist, k, kv[k], Len(hist))
           /\ hist[kv[k]].val # NoEntry

TypeInv == TypeOK /\ LoopOK /\ StoreOK

\* The initial state is well typed.
LEMMA TypeInit ==
  ASSUME Init
  PROVE  TypeInv
  <1>1. BootEvent \in Events
    BY Zenon DEF BootEvent, Events, RecordsFor
  <1>2. hist \in Seq(Events) /\ Len(hist) = 1
    BY <1>1 DEF Init, etcdInit
  <1>3. LoopOK
    BY DEF Init, etcdInit, LoopOK, LoopAt
  <1>4. TypeOK
    BY <1>2 DEF Init, etcdInit, TypeOK
  <1>5. StoreOK
    BY DEF Init, etcdInit, StoreOK, Keys, rblKey, reverseKey, cidrToEtcdKey,
       BootEvent
  <1> QED
    BY Zenon, <1>3, <1>4, <1>5 DEF TypeInv

\* What etcd holds for an address is a well-typed entry.
LEMMA StoredTyped ==
  ASSUME TypeInv, NEW a \in Addrs
  PROVE  Stored(a) \in Entries \cup {NoEntry}
  <1>1. KeyOf(a) \in Keys /\ KeyOf(a).prefix # "arpa"
    BY Zenon, KeyTyped
  <1>2. CASE kv[KeyOf(a)] = 0
    BY Zenon, <1>2 DEF Stored
  <1>3. CASE kv[KeyOf(a)] # 0
    <2>1. kv[KeyOf(a)] \in 1..Len(hist)
      BY <1>1, <1>3 DEF TypeInv, TypeOK
    <2>2. /\ hist[kv[KeyOf(a)]] \in Events
          /\ hist[kv[KeyOf(a)]].key = KeyOf(a)
      BY <1>1, <1>3, <2>1 DEF TypeInv, TypeOK, StoreOK, Latest
    <2>3. hist[kv[KeyOf(a)]].val \in Values \cup {NoEntry}
      BY Zenon, <1>1, <1>3, <2>2 DEF Events, RecordsFor
    <2> QED
      BY <1>3, <2>1, <2>3, EntryTyped DEF Stored
  <1> QED
    BY Zenon, <1>2, <1>3

\* Writing to etcd preserves the types and what kv says of the history.
LEMMA TypeStore ==
  ASSUME TypeInv, Store
  PROVE  TypeInv'
  <1>1. PICK key \in Keys, v \in Values \cup {PtrRecord, NoEntry} :
          /\ v \in RecordsFor(key) \cup {NoEntry}
          /\ hist' = Append(hist, [key |-> key, val |-> v])
          /\ kv' = [kv EXCEPT ![key] = IF v = NoEntry THEN 0
                                                     ELSE Len(hist) + 1]
          /\ UNCHANGED <<pc, gEtcdRevision, table, loopVars, stale, rewound>>
    <2>1. ASSUME NEW key \in Keys, StoreDelete(key)
          PROVE  /\ hist' = Append(hist, [key |-> key, val |-> NoEntry])
                 /\ kv' = [kv EXCEPT ![key] = 0]
                 /\ UNCHANGED <<pc, gEtcdRevision, table, loopVars, stale, rewound>>
      BY Zenon, <2>1 DEF StoreDelete, etcdDelete
    <2>2. ASSUME NEW key \in Keys, NEW v \in RecordsFor(key), StorePut(key, v)
          PROVE  /\ v \in Values \cup {PtrRecord} /\ v # NoEntry
                 /\ hist' = Append(hist, [key |-> key, val |-> v])
                 /\ kv' = [kv EXCEPT ![key] = Len(hist) + 1]
                 /\ UNCHANGED <<pc, gEtcdRevision, table, loopVars, stale, rewound>>
      BY Zenon, <2>2, EtcdAssumption DEF StorePut, etcdPut, RecordsFor
    <2> QED
      BY <2>1, <2>2, ZenonT(30) DEF Store
  <1> DEFINE ev == [key |-> key, val |-> v]
  <1>2. ev \in Events
    BY Zenon, <1>1 DEF Events, RecordsFor
  <1>3. /\ hist \in Seq(Events) /\ hist' \in Seq(Events)
        /\ Len(hist) \in Nat /\ Len(hist') = Len(hist) + 1
        /\ hist'[Len(hist) + 1] = ev
        /\ \A r \in 1..Len(hist) : hist'[r] = hist[r]
    BY <1>1, <1>2 DEF TypeInv, TypeOK
  <1>4. TypeOK'
    BY <1>1, <1>3, SMTT(30) DEF TypeInv, TypeOK, loopVars
  <1>5. LoopOK'
    BY Zenon, <1>1 DEF TypeInv, LoopOK, LoopAt, loopVars
  <1>6. StoreOK'
    <2> SUFFICES ASSUME NEW k \in Keys
                 PROVE  IF kv'[k] = 0
                          THEN \/ \A r \in 1..Len(hist') : hist'[r].key # k
                               \/ \E r \in 1..Len(hist') :
                                    /\ Latest(hist', k, r, Len(hist'))
                                    /\ hist'[r].val = NoEntry
                          ELSE /\ Latest(hist', k, kv'[k], Len(hist'))
                               /\ hist'[kv'[k]].val # NoEntry
      BY Zenon DEF StoreOK
    <2> kv \in [Keys -> 0..Len(hist)]
      BY Zenon DEF TypeInv, TypeOK
    <2>1. CASE k = key
      <3>1. Latest(hist', k, Len(hist'), Len(hist'))
        BY <1>3, <2>1 DEF Latest
      <3>2. hist'[Len(hist')].val = v /\ Len(hist') \in 1..Len(hist')
        BY <1>3
      <3>3. kv'[k] = IF v = NoEntry THEN 0 ELSE Len(hist')
        BY Zenon, <1>1, <1>3, <2>1
      <3> QED
        BY <1>3, <3>1, <3>2, <3>3
    <2>2. CASE k # key
      <3>1. kv'[k] = kv[k]
        BY Zenon, <1>1, <2>2
      <3>2. \A r \in 1..Len(hist) :
              Latest(hist, k, r, Len(hist)) => Latest(hist', k, r, Len(hist'))
        BY Zenon, <1>1, <1>2, <1>3, <2>2, LatestAppend
      <3>3. CASE kv[k] = 0
        <4>1. CASE \A r \in 1..Len(hist) : hist[r].key # k
          <5>1. hist'[Len(hist) + 1].key # k
            BY <1>3, <2>2
          <5>2. \A r \in 1..Len(hist') : r \in 1..Len(hist) \/ r = Len(hist) + 1
            BY <1>3
          <5> QED
            BY Zenon, <1>3, <3>1, <3>3, <4>1, <5>1, <5>2
        <4>2. CASE \E r \in 1..Len(hist) : /\ Latest(hist, k, r, Len(hist))
                                          /\ hist[r].val = NoEntry
          BY <1>3, <3>1, <3>2, <3>3, <4>2
        <4> QED
          BY Zenon, <3>3, <4>1, <4>2 DEF TypeInv, StoreOK
      <3>4. CASE kv[k] # 0
        <4>1. /\ kv[k] \in 1..Len(hist)
              /\ Latest(hist, k, kv[k], Len(hist))
              /\ hist[kv[k]].val # NoEntry
          BY <3>4 DEF TypeInv, StoreOK
        <4> QED
          BY Zenon, <1>3, <3>1, <3>2, <3>4, <4>1
      <3> QED
        BY Zenon, <3>3, <3>4
    <2> QED
      BY Zenon, <2>1, <2>2
  <1> QED
    BY Zenon, <1>4, <1>5, <1>6 DEF TypeInv

\* What kv says of the history is about etcd only.
LEMMA StoreFrame ==
  ASSUME TypeInv, UNCHANGED etcdVars
  PROVE  StoreOK'
  BY Zenon DEF TypeInv, StoreOK, etcdVars

\* Filling one of the two tables keeps the memory well typed.
LEMMA LoadTyped ==
  ASSUME TypeOK, NEW i \in Instances, NEW w \in Watchers,
         NEW entry \in [Owned(w) -> Entries \cup {NoEntry}], Load(i, w, entry)
  PROVE  table' \in [Instances -> [Addrs -> Entries \cup {NoEntry}]]
  <1> DEFINE t == [a \in Addrs |-> IF a \in Owned(w) THEN entry[a]
                                                    ELSE table[i][a]]
  <1>1. t \in [Addrs -> Entries \cup {NoEntry}]
    BY DEF TypeOK
  <1>2. table' = [table EXCEPT ![i] = t]
    BY Zenon DEF Load
  <1> HIDE DEF t
  <1> QED
    BY Zenon, <1>1, <1>2 DEF TypeOK

\* So does recording the revision it was read at.
LEMMA LoadedAtTyped ==
  ASSUME TypeOK, LoopOK, NEW i \in Instances, NEW w \in Watchers,
         pc[i] # "run", pc'[i] # "run", \A j \in Instances : j # i => pc'[j] = pc[j],
         LoadedAt(i, w, Len(hist)), UNCHANGED etcdVars
  PROVE  /\ pos'  \in [Instances -> [Watchers -> 0..Len(hist')]]
         /\ seen' \in [Instances -> [Watchers -> 0..Len(hist')]]
         /\ upto' \in [Instances -> [Watchers -> 0..Len(hist')]]
         /\ LoopOK'
  <1>1. Len(hist) \in Nat /\ hist' = hist
    BY DEF TypeOK, etcdVars
  <1>2. /\ pos'  \in [Instances -> [Watchers -> 0..Len(hist')]]
        /\ seen' \in [Instances -> [Watchers -> 0..Len(hist')]]
        /\ upto' \in [Instances -> [Watchers -> 0..Len(hist')]]
    BY <1>1 DEF TypeOK, LoadedAt
  <1>3. LoopOK'
    <2> SUFFICES ASSUME NEW j \in Instances, NEW x \in Watchers
                 PROVE  /\ pos'[j][x] <= seen'[j][x]
                        /\ wpc'[j][x] \in {"msg", "store"} => pos'[j][x] <= upto'[j][x]
                        /\ wpc'[j][x] = "apply" => pos'[j][x] < upto'[j][x]
                        /\ wpc'[j][x] # "off" => pc'[j] = "run"
      BY Zenon DEF LoopOK, LoopAt
    <2>1. CASE j = i
      BY <1>1, <2>1, SMTT(30) DEF TypeOK, LoopOK, LoopAt, LoadedAt
    <2>2. CASE j # i
      BY <1>1, <2>2, ZenonT(30) DEF TypeOK, LoopOK, LoopAt, LoadedAt
    <2> QED
      BY Zenon, <2>1, <2>2
  <1> QED
    BY Zenon, <1>2, <1>3

\* The steps of main() preserve the types.
LEMMA TypeMain ==
  ASSUME TypeInv, NEW i \in Instances, Main(i)
  PROVE  TypeInv'
  <1>1. CASE waitForEtcd(i)
    <2>1. TypeOK'
      BY Zenon, <1>1 DEF waitForEtcd, Goto, TypeInv, TypeOK, etcdVars, loopVars
    <2>2. LoopOK'
      BY Zenon, <1>1
         DEF waitForEtcd, Goto, TypeInv, TypeOK, LoopOK, LoopAt, etcdVars,
         loopVars
    <2> QED
      BY Zenon, <1>1, <2>1, <2>2, StoreFrame DEF waitForEtcd, TypeInv, etcdVars
  <1>2. CASE loadFromEtcd(i)
    <2>1. [a \in IPs |-> Stored(a)] \in [Owned("ip") -> Entries \cup {NoEntry}]
      BY Zenon, StoredTyped DEF Addrs, Owned
    <2>2. table' \in [Instances -> [Addrs -> Entries \cup {NoEntry}]]
      BY Zenon, <1>2, <2>1, LoadTyped DEF loadFromEtcd, TypeInv, Watchers
    <2>3. /\ pc[i] # "run" /\ pc'[i] # "run"
          /\ \A j \in Instances : j # i => pc'[j] = pc[j]
      BY Zenon, <1>2 DEF loadFromEtcd, Goto, TypeInv, TypeOK
    <2>4. /\ pos'  \in [Instances -> [Watchers -> 0..Len(hist')]]
          /\ seen' \in [Instances -> [Watchers -> 0..Len(hist')]]
          /\ upto' \in [Instances -> [Watchers -> 0..Len(hist')]]
          /\ LoopOK'
      BY Zenon, <1>2, <2>3, LoadedAtTyped
         DEF loadFromEtcd, TypeInv, Watchers, etcdVars
    <2>5. /\ gEtcdRevision' \in [Instances -> 0..Len(hist')]
          /\ pc' \in [Instances -> {"down", "loadIP", "loadCIDR", "serve", "run"}]
          /\ stale' \in [Instances -> SUBSET Addrs]
      <3>1. Len(hist) \in 0..Len(hist) /\ hist' = hist
        BY <1>2 DEF loadFromEtcd, TypeInv, TypeOK, etcdVars
      <3> QED
        BY Zenon, <1>2, <3>1 DEF loadFromEtcd, Goto, TypeInv, TypeOK
    <2>6. TypeOK'
      BY Zenon, <1>2, <2>2, <2>4, <2>5
         DEF loadFromEtcd, LoadedAt, TypeInv, TypeOK,
         etcdVars
    <2> QED
      BY Zenon, <1>2, <2>4, <2>6, StoreFrame DEF loadFromEtcd, TypeInv, etcdVars
  <1>3. CASE loadCIDRFromEtcd(i)
    <2>1. [a \in Nets |-> Stored(a)] \in [Owned("cidr") -> Entries \cup {NoEntry}]
      BY Zenon, StoredTyped DEF Addrs, Owned
    <2>2. table' \in [Instances -> [Addrs -> Entries \cup {NoEntry}]]
      BY Zenon, <1>3, <2>1, LoadTyped DEF loadCIDRFromEtcd, TypeInv, Watchers
    <2>3. /\ pc[i] # "run" /\ pc'[i] # "run"
          /\ \A j \in Instances : j # i => pc'[j] = pc[j]
      BY Zenon, <1>3 DEF loadCIDRFromEtcd, Goto, TypeInv, TypeOK
    <2>4. /\ pos'  \in [Instances -> [Watchers -> 0..Len(hist')]]
          /\ seen' \in [Instances -> [Watchers -> 0..Len(hist')]]
          /\ upto' \in [Instances -> [Watchers -> 0..Len(hist')]]
          /\ LoopOK'
      BY Zenon, <1>3, <2>3, LoadedAtTyped
         DEF loadCIDRFromEtcd, TypeInv, Watchers,
         etcdVars
    <2>5. TypeOK'
      BY Zenon, <1>3, <2>2, <2>4
         DEF loadCIDRFromEtcd, Goto, LoadedAt, TypeInv, TypeOK,
         etcdVars
    <2> QED
      BY Zenon, <1>3, <2>4, <2>5, StoreFrame
         DEF loadCIDRFromEtcd, TypeInv, etcdVars
  <1>4. ASSUME NEW w \in Watchers, loadGarbled(i, w)
        PROVE  TypeInv'
    <2>1. /\ table' \in [Instances -> [Addrs -> Entries \cup {NoEntry}]]
      BY Zenon, <1>4, LoadTyped DEF loadGarbled, TypeInv
    <2>2. /\ pc[i] # "run" /\ pc'[i] # "run"
          /\ \A j \in Instances : j # i => pc'[j] = pc[j]
          /\ pc' \in [Instances -> {"down", "loadIP", "loadCIDR", "serve", "run"}]
          /\ gEtcdRevision' \in [Instances -> 0..Len(hist)]
      <3>0. 0 \in 0..Len(hist)
        BY DEF TypeInv, TypeOK
      <3>1. CASE w = "ip"
        BY <1>4, <3>0, <3>1, ZenonT(30) DEF loadGarbled, Goto, TypeInv, TypeOK
      <3>2. CASE w # "ip"
        BY <1>4, <3>2, ZenonT(30) DEF loadGarbled, Goto, TypeInv, TypeOK
      <3> QED
        BY Zenon, <3>1, <3>2
    <2>3. /\ pos'  \in [Instances -> [Watchers -> 0..Len(hist')]]
          /\ seen' \in [Instances -> [Watchers -> 0..Len(hist')]]
          /\ upto' \in [Instances -> [Watchers -> 0..Len(hist')]]
          /\ LoopOK'
      BY Zenon, <1>4, <2>2, LoadedAtTyped DEF loadGarbled, TypeInv, etcdVars
    <2>4. TypeOK'
      BY <1>4, <2>1, <2>2, <2>3, ZenonT(30)
         DEF loadGarbled, LoadedAt, Owned, Addrs,
         TypeInv, TypeOK, etcdVars
    <2> QED
      BY Zenon, <1>4, <2>3, <2>4, StoreFrame DEF loadGarbled, TypeInv, etcdVars
  <1>5. CASE startWatchers(i)
    <2>1. TypeOK'
      BY Zenon, <1>5 DEF startWatchers, Goto, TypeInv, TypeOK, etcdVars
    <2>2. LoopOK'
      BY Zenon, <1>5 DEF startWatchers, Goto, TypeInv, TypeOK, LoopOK, LoopAt, etcdVars
    <2> QED
      BY Zenon, <1>5, <2>1, <2>2, StoreFrame
         DEF startWatchers, TypeInv, etcdVars
  <1> QED
    BY Zenon, <1>1, <1>2, <1>3, <1>4, <1>5 DEF Main

\* The disturbances and evict preserve the types.
LEMMA TypeDisturb ==
  ASSUME TypeInv, NEW i \in Instances,
         Disturb(i) \/ \E a \in Addrs : evict(i, a)
  PROVE  TypeInv'
  <1>1. CASE crash(i)
    <2>0. 0 \in 0..Len(hist) /\ 0 \in 0..(Len(hist) + 1) /\ hist' = hist
      BY <1>1 DEF TypeInv, TypeOK, crash, etcdVars
    <2>1. TypeOK'
      BY Zenon, <1>1, <2>0 DEF crash, TypeInv, TypeOK, etcdVars
    <2>2. LoopOK'
      BY <1>1, <2>0 DEF crash, TypeInv, TypeOK, LoopOK, LoopAt
    <2> QED
      BY Zenon, <1>1, <2>1, <2>2, StoreFrame DEF crash, TypeInv, etcdVars
  <1>2. ASSUME NEW w \in Watchers, connectFails(i, w)
        PROVE  TypeInv'
    <2>1. TypeOK'
      BY Zenon, <1>2 DEF connectFails, At, TypeInv, TypeOK, etcdVars
    <2>2. LoopOK'
      BY <1>2, ZenonT(30) DEF connectFails, At, TypeInv, TypeOK, LoopOK, LoopAt
    <2> QED
      BY Zenon, <1>2, <2>1, <2>2, StoreFrame DEF connectFails, TypeInv, etcdVars
  <1>3. ASSUME NEW w \in Watchers, closed(i, w)
        PROVE  TypeInv'
    <2>0. 0 \in 0..Len(hist) /\ hist' = hist
      BY <1>3 DEF TypeInv, TypeOK, closed, etcdVars
    <2>1. TypeOK'
      BY Zenon, <1>3, <2>0
         DEF closed, ForgetHeader, TypeInv, TypeOK, etcdVars
    <2>2. LoopOK'
      BY <1>3, <2>0, ZenonT(30)
         DEF closed, ForgetHeader, TypeInv, TypeOK, LoopOK, LoopAt
    <2> QED
      BY Zenon, <1>3, <2>1, <2>2, StoreFrame DEF closed, TypeInv, etcdVars
  <1>4. ASSUME NEW a \in Addrs, evict(i, a)
        PROVE  TypeInv'
    <2>1. TypeOK'
      BY <1>4 DEF evict, TypeInv, TypeOK, etcdVars, loopVars
    <2>2. LoopOK'
      BY Zenon, <1>4 DEF evict, TypeInv, TypeOK, LoopOK, LoopAt, loopVars
    <2> QED
      BY Zenon, <1>4, <2>1, <2>2, StoreFrame DEF evict, TypeInv, etcdVars
  <1> QED
    BY Zenon, <1>1, <1>2, <1>3, <1>4 DEF Disturb

\* g differs from f for loop w of instance i at most.
Only(f, g, i, w) == g = f \/ \E v : g = [f EXCEPT ![i][w] = v]

\* A step of one loop keeps what is known of the others.
LEMMA LoopFrame ==
  ASSUME TypeInv, NEW i \in Instances, NEW w \in Watchers, pc' = pc,
         Only(wpc, wpc', i, w), Only(pos, pos', i, w),
         Only(seen, seen', i, w), Only(upto, upto', i, w), LoopAt(i, w)'
  PROVE  LoopOK'
  <1> SUFFICES ASSUME NEW j \in Instances, NEW x \in Watchers, j # i \/ x # w
               PROVE  LoopAt(j, x)'
    BY Zenon DEF LoopOK
  <1>0. /\ pos \in [Instances -> [Watchers -> 0..Len(hist)]]
        /\ seen \in [Instances -> [Watchers -> 0..Len(hist)]]
        /\ upto \in [Instances -> [Watchers -> 0..Len(hist)]]
        /\ wpc \in [Instances -> [Watchers ->
                     {"off", "idle", "dial", "msg", "store", "apply", "scan"}]]
    BY ZenonT(30) DEF TypeInv, TypeOK
  <1>1. wpc'[j][x] = wpc[j][x]
    BY <1>0, SMTT(30) DEF Only
  <1>2. pos'[j][x] = pos[j][x]
    BY <1>0, SMTT(30) DEF Only
  <1>3. seen'[j][x] = seen[j][x]
    BY <1>0, SMTT(30) DEF Only
  <1>4. upto'[j][x] = upto[j][x]
    BY <1>0, SMTT(30) DEF Only
  <1> QED
    BY Zenon, <1>1, <1>2, <1>3, <1>4 DEF TypeInv, LoopOK, LoopAt

\* The steps of a watch loop preserve the types.
LEMMA TypeLoop ==
  ASSUME TypeInv, NEW i \in Instances, NEW w \in Watchers, Loop(i, w)
  PROVE  TypeInv'
  <1>0. /\ Len(hist) \in Nat /\ 0 \in 0..Len(hist)
        /\ 0 \in 0..(Len(hist) + 1) /\ Len(hist) \in 0..Len(hist)
    BY DEF TypeInv, TypeOK
  <1>1. CASE readRevision(i, w)
    <2>1. TypeOK'
      BY <1>0, <1>1, SMTT(30) DEF readRevision, At, TypeInv, TypeOK, etcdVars
    <2>2. LoopOK'
      <3>1. /\ Only(wpc, wpc', i, w) /\ Only(pos, pos', i, w)
            /\ Only(seen, seen', i, w) /\ Only(upto, upto', i, w)
        BY <1>1, ZenonT(30) DEF readRevision, At, Only
      <3>2. LoopAt(i, w)' /\ pc' = pc
        BY Zenon, <1>0, <1>1 DEF readRevision, At, TypeInv, TypeOK, LoopOK, LoopAt
      <3> QED
        BY Zenon, <3>1, <3>2, LoopFrame
    <2> QED
      BY Zenon, <1>1, <2>1, <2>2, StoreFrame DEF readRevision, TypeInv, etcdVars
  <1>2. CASE connect(i, w)
    <2> DEFINE from == IF start[i][w] = 0 THEN Len(hist) ELSE start[i][w] - 1
    <2>0. hist' = hist
      BY Zenon, <1>2 DEF connect, etcdVars
    <2>1. from \in 0..Len(hist)
      BY <1>0 DEF TypeInv, TypeOK
    <2>2. /\ pos'   = [pos   EXCEPT ![i][w] = from]
          /\ seen'  = [seen  EXCEPT ![i][w] = Max2(@, from)]
          /\ upto'  = [upto  EXCEPT ![i][w] = from]
      BY Zenon, <1>2 DEF connect
    <2> HIDE DEF from
    <2>3. Max2(seen[i][w], from) \in 0..Len(hist) /\ from <= Max2(seen[i][w], from)
      BY <1>0, <2>1 DEF TypeInv, TypeOK, Max2
    <2>4. Touched(w, pos[i][w], from) \subseteq Addrs
      BY Zenon, OwnedDecodes DEF Touched
    <2>5. TypeOK'
      <3>1. /\ pos'  \in [Instances -> [Watchers -> 0..Len(hist')]]
            /\ seen' \in [Instances -> [Watchers -> 0..Len(hist')]]
            /\ upto' \in [Instances -> [Watchers -> 0..Len(hist')]]
        BY Zenon, <2>0, <2>1, <2>2, <2>3 DEF TypeInv, TypeOK
      <3>2. stale' \in [Instances -> SUBSET Addrs]
        BY Zenon, <1>2, <2>4 DEF connect, TypeInv, TypeOK, from
      <3> QED
        BY Zenon, <1>0, <1>2, <3>1, <3>2
           DEF connect, At, TypeInv, TypeOK, etcdVars
    <2>6. LoopOK'
      <3>1. /\ Only(wpc, wpc', i, w) /\ Only(pos, pos', i, w)
            /\ Only(seen, seen', i, w) /\ Only(upto, upto', i, w)
        BY <1>2, <2>2, ZenonT(30) DEF connect, At, Only
      <3>2. LoopAt(i, w)' /\ pc' = pc
        BY <1>0, <1>2, <2>1, <2>2, <2>3, SMTT(30)
           DEF connect, At, TypeInv, TypeOK, LoopOK, LoopAt
      <3> QED
        BY Zenon, <3>1, <3>2, LoopFrame
    <2> QED
      BY Zenon, <1>2, <2>5, <2>6, StoreFrame DEF connect, TypeInv, etcdVars
  <1>3. CASE sendEvents(i, w)
    <2>1. PICK h \in (pos[i][w] + 1)..Len(hist), u \in (pos[i][w] + 1)..Len(hist) :
            /\ u <= h
            /\ upto' = [upto EXCEPT ![i][w] = u]
            /\ hdr'  = [hdr  EXCEPT ![i][w] = h]
      <3>1. PICK h \in (pos[i][w] + 1)..Len(hist) :
              \E u \in (pos[i][w] + 1)..h :
                /\ upto' = [upto EXCEPT ![i][w] = u]
                /\ hdr'  = [hdr  EXCEPT ![i][w] = h]
        BY <1>3, ZenonT(30) DEF sendEvents
      <3>2. \A u \in (pos[i][w] + 1)..h : u \in (pos[i][w] + 1)..Len(hist) /\ u <= h
        BY <1>0 DEF TypeInv, TypeOK
      <3> QED
        BY <3>1, <3>2, ZenonT(30)
    <2>2. /\ pos[i][w] \in Nat
          /\ h \in 0..Len(hist) /\ u \in 0..Len(hist) /\ pos[i][w] < u
      BY <1>0 DEF TypeInv, TypeOK
    <2>3. TypeOK'
      BY <1>3, <2>1, <2>2, ZenonT(30)
         DEF sendEvents, At, TypeInv, TypeOK, etcdVars
    <2>4. LoopOK'
      <3>1. /\ Only(wpc, wpc', i, w) /\ Only(pos, pos', i, w)
            /\ Only(seen, seen', i, w) /\ Only(upto, upto', i, w)
        BY <1>3, <2>1, ZenonT(30) DEF sendEvents, At, Only
      <3>2. LoopAt(i, w)' /\ pc' = pc
        BY <1>3, <2>1, <2>2, SMTT(30)
           DEF sendEvents, At, TypeInv, TypeOK, LoopOK, LoopAt
      <3> QED
        BY Zenon, <3>1, <3>2, LoopFrame
    <2> QED
      BY Zenon, <1>3, <2>3, <2>4, StoreFrame DEF sendEvents, TypeInv, etcdVars
  <1>4. CASE readHeader(i, w)
    <2>1. TypeOK'
      <3>1. wpc' \in [Instances -> [Watchers ->
                       {"off", "idle", "dial", "msg", "store", "apply", "scan"}]]
        <4>1. PICK c \in {"store", "apply", "scan"} : wpc' = [wpc EXCEPT ![i][w] = c]
          BY Zenon, <1>4 DEF readHeader, At, AfterHeader
        <4> QED
          BY Zenon, <4>1 DEF TypeInv, TypeOK
      <3>2. hdr' \in [Instances -> [Watchers -> 0..Len(hist)]]
        <4>1. hdr' = hdr \/ hdr' = [hdr EXCEPT ![i][w] = 0]
          BY Zenon, <1>4 DEF readHeader, ForgetHeader
        <4>2. hdr \in [Instances -> [Watchers -> 0..Len(hist)]]
          BY Zenon DEF TypeInv, TypeOK
        <4> QED
          BY <1>0, <4>1, <4>2
      <3> QED
        BY Zenon, <1>4, <3>1, <3>2 DEF readHeader, TypeInv, TypeOK, etcdVars
    <2>2. LoopOK'
      <3>1. /\ Only(wpc, wpc', i, w) /\ Only(pos, pos', i, w)
            /\ Only(seen, seen', i, w) /\ Only(upto, upto', i, w)
        BY Zenon, <1>4 DEF readHeader, At, Only
      <3>2. LoopAt(i, w)' /\ pc' = pc
        BY <1>0, <1>4
           DEF readHeader, AfterHeader, ForgetHeader, At, TypeInv, TypeOK,
           LoopOK, LoopAt
      <3> QED
        BY Zenon, <3>1, <3>2, LoopFrame
    <2> QED
      BY <1>4, <2>1, <2>2, StoreFrame, ZenonT(30)
         DEF readHeader, TypeInv, etcdVars
  <1>5. CASE updateRevision(i, w)
    <2>1. TypeOK'
      BY <1>0, <1>5, ZenonT(30)
         DEF updateRevision, At, AfterHeader, ForgetHeader, TypeInv,
         TypeOK, etcdVars
    <2>2. LoopOK'
      <3>1. /\ Only(wpc, wpc', i, w) /\ Only(pos, pos', i, w)
            /\ Only(seen, seen', i, w) /\ Only(upto, upto', i, w)
        BY <1>5, ZenonT(30) DEF updateRevision, At, Only
      <3>2. LoopAt(i, w)' /\ pc' = pc
        BY <1>0, <1>5, SMTT(30)
           DEF updateRevision, AfterHeader, ForgetHeader, At,
           TypeInv, TypeOK, LoopOK, LoopAt
      <3> QED
        BY Zenon, <3>1, <3>2, LoopFrame
    <2> QED
      BY <1>5, <2>1, <2>2, StoreFrame, ZenonT(30)
         DEF updateRevision, TypeInv, etcdVars
  <1>6. CASE applyEvent(i, w)
    <2> DEFINE r == pos[i][w] + 1
    <2>0. hist' = hist
      BY Zenon, <1>6 DEF applyEvent, etcdVars
    <2>1. r \in 1..Len(hist) /\ r <= upto[i][w]
      <3>1. pos[i][w] < upto[i][w]
        BY Zenon, <1>6 DEF applyEvent, At, TypeInv, LoopOK, LoopAt
      <3> QED
        BY <1>0, <3>1, SMTT(30) DEF TypeInv, TypeOK
    <2>2. hist[r] \in Events
      BY <2>1 DEF TypeInv, TypeOK
    <2>3. /\ At(i, w, "apply", IF r = upto[i][w] THEN "scan" ELSE "apply")
          /\ pos' = [pos EXCEPT ![i][w] = r]
          /\ seen' = [seen EXCEPT ![i][w] = Max2(@, r)]
          /\ IF Decodes(w, hist[r].key)
               THEN /\ table' = [table EXCEPT ![i][hist[r].key.id] =
                                   Entry(hist[r].key.id, hist[r].val, r)]
                    /\ stale' = [stale EXCEPT ![i] = @ \ {hist[r].key.id}]
               ELSE UNCHANGED <<table, stale>>
          /\ UNCHANGED <<etcdVars, pc, gEtcdRevision, start, upto, hdr, rewound>>
      BY <1>6, ZenonT(30) DEF applyEvent
    <2> HIDE DEF r
    <2>4. Max2(seen[i][w], r) \in 0..Len(hist) /\ r <= Max2(seen[i][w], r)
      BY <1>0, <2>1 DEF TypeInv, TypeOK, Max2
    <2>5. TypeOK'
      <3>1. /\ table' \in [Instances -> [Addrs -> Entries \cup {NoEntry}]]
            /\ stale' \in [Instances -> SUBSET Addrs]
        <4>1. CASE Decodes(w, hist[r].key)
          <5>1. hist[r].key.id \in Addrs /\ hist[r].val \in Values \cup {NoEntry}
            BY Zenon, <2>2, <4>1, DecodesKey
          <5>2. r \in Nat
            BY <2>1
          <5>3. Entry(hist[r].key.id, hist[r].val, r) \in Entries \cup {NoEntry}
            BY Zenon, <5>1, <5>2, EntryTyped
          <5>4. /\ table' = [table EXCEPT ![i][hist[r].key.id] =
                               Entry(hist[r].key.id, hist[r].val, r)]
                /\ stale' = [stale EXCEPT ![i] = @ \ {hist[r].key.id}]
            BY Zenon, <2>3, <4>1
          <5> QED
            BY Zenon, <5>1, <5>3, <5>4 DEF TypeInv, TypeOK
        <4>2. CASE ~Decodes(w, hist[r].key)
          BY Zenon, <2>3, <4>2 DEF TypeInv, TypeOK
        <4> QED
          BY Zenon, <4>1, <4>2
      <3>2. /\ pos' \in [Instances -> [Watchers -> 0..Len(hist')]]
            /\ seen' \in [Instances -> [Watchers -> 0..Len(hist')]]
        BY <2>0, <2>1, <2>3, <2>4, SMTT(30) DEF TypeInv, TypeOK
      <3> QED
        BY <2>3, <3>1, <3>2, ZenonT(30) DEF At, TypeInv, TypeOK, etcdVars
    <2>6. LoopOK'
      <3>1. /\ Only(wpc, wpc', i, w) /\ Only(pos, pos', i, w)
            /\ Only(seen, seen', i, w) /\ Only(upto, upto', i, w)
        BY <2>3, ZenonT(30) DEF At, Only
      <3>2. LoopAt(i, w)' /\ pc' = pc
        BY <2>1, <2>3, <2>4, SMTT(30) DEF At, TypeInv, TypeOK, LoopOK, LoopAt
      <3> QED
        BY Zenon, <3>1, <3>2, LoopFrame
    <2> QED
      BY Zenon, <2>3, <2>5, <2>6, StoreFrame DEF TypeInv
  <1> QED
    BY Zenon, <1>1, <1>2, <1>3, <1>4, <1>5, <1>6 DEF Loop

\* TypeInv is inductive.
LEMMA TypeNext ==
  ASSUME TypeInv, [Next]_vars
  PROVE  TypeInv'
  <1>1. CASE UNCHANGED vars
    BY Zenon, <1>1 DEF vars, TypeInv, TypeOK, LoopOK, LoopAt, StoreOK
  <1>2. CASE Next
    <2>1. CASE Store
      BY Zenon, <2>1, TypeStore
    <2>2. ASSUME NEW i \in Instances,
                 \/ Main(i)
                 \/ \E w \in Watchers : Loop(i, w)
                 \/ Disturb(i)
                 \/ \E a \in Addrs : evict(i, a)
          PROVE  TypeInv'
      BY Zenon, <2>2, TypeMain, TypeLoop, TypeDisturb
    <2> QED
      BY Zenon, <1>2, <2>1, <2>2 DEF Next
  <1> QED
    BY Zenon, <1>1, <1>2

\* TypeOK holds in every reachable state: among other things, no loop and no
\* instance ever refers to a revision etcd has not reached, so a start_revision
\* is never in the future.
THEOREM TypeCorrect == Spec => []TypeOK
  <1>1. Init => TypeInv
    BY Zenon, TypeInit
  <1>2. TypeInv /\ [Next]_vars => TypeInv'
    BY Zenon, TypeNext
  <1>3. TypeInv => TypeOK
    BY Zenon DEF TypeInv
  <1> QED
    BY <1>1, <1>2, <1>3, PTL DEF Spec

----------------------------------------------------------------------------
(* Every entry was written                                                 *)

\* Entry e of address a comes from one of the writes in history h.
Written(h, a, e) ==
  e # NoEntry => \E r \in 1..Len(h) : /\ h[r].key = KeyOf(a)
                                      /\ h[r].val # NoEntry
                                      /\ e = Entry(a, h[r].val, r)

\* What a load reads was written, and is what the store holds now.
LEMMA StoredHolds ==
  ASSUME TypeInv, NEW a \in Addrs
  PROVE  /\ Written(hist, a, Stored(a))
         /\ HoldsAt(hist, a, Stored(a), Len(hist))
  <1>1. KeyOf(a) \in Keys
    BY Zenon, KeyTyped
  <1>2. CASE kv[KeyOf(a)] = 0
    BY Zenon, <1>1, <1>2 DEF TypeInv, StoreOK, Stored, Written, HoldsAt, Entry
  <1>3. CASE kv[KeyOf(a)] # 0
    BY Zenon, <1>1, <1>3 DEF TypeInv, StoreOK, Stored, Written, HoldsAt, Latest
  <1> QED
    BY Zenon, <1>2, <1>3

\* An appended event takes no write away.
LEMMA WrittenAppend ==
  ASSUME NEW h \in Seq(Events), NEW ev \in Events, NEW a, NEW e, Written(h, a, e)
  PROVE  Written(Append(h, ev), a, e)
  <1>1. /\ Len(h) \in Nat /\ Len(Append(h, ev)) = Len(h) + 1
        /\ \A r \in 1..Len(h) : r \in 1..(Len(h) + 1) /\ Append(h, ev)[r] = h[r]
    OBVIOUS
  <1> QED
    BY Zenon, <1>1 DEF Written

\* Every write to etcd appends one well-typed event and touches no instance.
LEMMA StoreAppends ==
  ASSUME Store
  PROVE  /\ \E ev \in Events : hist' = Append(hist, ev)
         /\ UNCHANGED <<pc, gEtcdRevision, table, loopVars, stale, rewound>>
  <1>1. ASSUME NEW key \in Keys, NEW v \in RecordsFor(key) \cup {NoEntry}
        PROVE  [key |-> key, val |-> v] \in Events
    BY Zenon DEF Events, RecordsFor
  <1> QED
    BY <1>1, ZenonT(30) DEF Store, StorePut, StoreDelete, etcdPut,
       etcdDelete

\* The event an instance applies was written under the address it decodes to.
LEMMA ApplyWritten ==
  ASSUME TypeInv, NEW i \in Instances, NEW w \in Watchers, applyEvent(i, w)
  PROVE  LET r == pos[i][w] + 1
             b == hist[r].key.id
         IN /\ r \in 1..Len(hist)
            /\ hist[r] \in Events
            /\ \/ UNCHANGED <<table, stale>> /\ ~Decodes(w, hist[r].key)
               \/ /\ b \in Owned(w) /\ b \in Addrs /\ hist[r].key = KeyOf(b)
                  /\ table' = [table EXCEPT ![i][b] = Entry(b, hist[r].val, r)]
                  /\ stale' = [stale EXCEPT ![i] = @ \ {b}]
  <1> DEFINE r == pos[i][w] + 1
  <1>1. pos[i][w] < upto[i][w]
    BY Zenon DEF applyEvent, At, TypeInv, LoopOK, LoopAt
  <1>2. r \in 1..Len(hist)
    BY <1>1 DEF TypeInv, TypeOK
  <1>3. hist[r] \in Events
    BY <1>2 DEF TypeInv, TypeOK
  <1>4. CASE Decodes(w, hist[r].key)
    BY <1>2, <1>3, <1>4, DecodesKey, ZenonT(30) DEF applyEvent
  <1>5. CASE ~Decodes(w, hist[r].key)
    <2>1. UNCHANGED <<table, stale>>
      BY <1>5, ZenonT(30) DEF applyEvent
    <2> QED
      BY <1>2, <1>3, <1>5, <2>1, ZenonT(30)
  <1> QED
    BY <1>4, <1>5, ZenonT(30)

\* Provenance is preserved by every step.
LEMMA ProvenanceNext ==
  ASSUME TypeInv, Provenance, [Next]_vars
  PROVE  Provenance'
  <1>0. \A i \in Instances : \A a \in Addrs : Written(hist, a, table[i][a])
    BY Zenon DEF Provenance, Written
  <1>a. ASSUME \A i \in Instances : \A a \in Addrs : Written(hist', a, table'[i][a])
        PROVE  Provenance'
    BY Zenon, <1>a DEF Provenance, Written
  <1>b. ASSUME hist' = hist,
               NEW i \in Instances,
               \A a \in Addrs : \/ table'[i][a] = table[i][a]
                               \/ Written(hist, a, table'[i][a]),
               \A j \in Instances : j # i => table'[j] = table[j]
        PROVE  Provenance'
    <2>1. ASSUME NEW j \in Instances, NEW a \in Addrs
          PROVE  Written(hist', a, table'[j][a])
      <3>1. CASE j = i
        BY Zenon, <1>0, <1>b, <3>1
      <3>2. CASE j # i
        BY Zenon, <1>0, <1>b, <3>2
      <3> QED
        BY Zenon, <3>1, <3>2
    <2> QED
      BY Zenon, <1>a, <2>1
  <1>1. CASE Store
    <2>1. PICK ev \in Events : hist' = Append(hist, ev)
      BY Zenon, <1>1, StoreAppends
    <2>2. table' = table /\ hist \in Seq(Events)
      BY Zenon, <1>1, StoreAppends DEF TypeInv, TypeOK
    <2> QED
      BY Zenon, <1>0, <1>a, <2>1, <2>2, WrittenAppend
  <1>2. CASE UNCHANGED <<hist, table>>
    BY Zenon, <1>0, <1>a, <1>2
  <1>3. ASSUME NEW i \in Instances, NEW w \in Watchers, NEW e,
               hist' = hist, Load(i, w, e),
               \A a \in Owned(w) : e[a] = NoEntry \/ e[a] = Stored(a)
        PROVE  Provenance'
    <2>1. ASSUME NEW a \in Addrs
          PROVE  \/ table'[i][a] = table[i][a]
                 \/ Written(hist, a, table'[i][a])
      <3>1. table'[i][a] = IF a \in Owned(w) THEN e[a] ELSE table[i][a]
        BY Zenon, <1>3 DEF Load, TypeInv, TypeOK
      <3> QED
        BY Zenon, <1>3, <3>1, StoredHolds DEF Written
    <2>2. \A j \in Instances : j # i => table'[j] = table[j]
      BY Zenon, <1>3 DEF Load, TypeInv, TypeOK
    <2> QED
      BY Zenon, <1>3, <1>b, <2>1, <2>2
  <1>4. ASSUME NEW i \in Instances, crash(i) \/ \E a \in Addrs : evict(i, a)
        PROVE  Provenance'
    <2>1. /\ hist' = hist
          /\ \A a \in Addrs : table'[i][a] = table[i][a] \/ table'[i][a] = NoEntry
          /\ \A j \in Instances : j # i => table'[j] = table[j]
      BY <1>4 DEF crash, evict, etcdVars, TypeInv, TypeOK
    <2> QED
      BY Zenon, <1>b, <2>1 DEF Written
  <1>5. ASSUME NEW i \in Instances, NEW w \in Watchers, applyEvent(i, w)
        PROVE  Provenance'
    <2> DEFINE r == pos[i][w] + 1
               b == hist[r].key.id
    <2>1. hist' = hist /\ r \in 1..Len(hist)
      BY <1>5, ApplyWritten, ZenonT(30) DEF applyEvent, etcdVars
    <2>2. CASE table' = table
      BY Zenon, <1>2, <2>1, <2>2
    <2>3. CASE table' # table
      <3>1. /\ b \in Addrs /\ hist[r].key = KeyOf(b)
            /\ table' = [table EXCEPT ![i][b] = Entry(b, hist[r].val, r)]
        BY Zenon, <1>5, <2>3, ApplyWritten
      <3> HIDE DEF r, b
      <3>2. Written(hist, b, Entry(b, hist[r].val, r))
        BY Zenon, <2>1, <3>1 DEF Written, Entry
      <3>3. \A a \in Addrs : \/ table'[i][a] = table[i][a]
                             \/ Written(hist, a, table'[i][a])
        BY Zenon, <3>1, <3>2 DEF TypeInv, TypeOK
      <3>4. \A j \in Instances : j # i => table'[j] = table[j]
        BY Zenon, <3>1 DEF TypeInv, TypeOK
      <3> QED
        BY Zenon, <1>b, <2>1, <3>3, <3>4
    <2> QED
      BY Zenon, <2>2, <2>3
  <1> QED
    <2>1. CASE UNCHANGED vars
      BY Zenon, <1>2, <2>1 DEF vars
    <2>2. ASSUME NEW i \in Instances, Main(i)
          PROVE  Provenance'
      <3>1. CASE waitForEtcd(i) \/ startWatchers(i)
        BY Zenon, <1>2, <3>1 DEF waitForEtcd, startWatchers, etcdVars
      <3>2. CASE loadFromEtcd(i)
        BY Zenon, <1>3, <3>2 DEF loadFromEtcd, etcdVars, Watchers, Owned
      <3>3. CASE loadCIDRFromEtcd(i)
        BY Zenon, <1>3, <3>3 DEF loadCIDRFromEtcd, etcdVars, Watchers, Owned
      <3>4. ASSUME NEW w \in Watchers, loadGarbled(i, w)
            PROVE  Provenance'
        BY <1>3, <3>4 DEF loadGarbled, etcdVars
      <3> QED
        BY Zenon, <2>2, <3>1, <3>2, <3>3, <3>4 DEF Main
    <2>3. ASSUME NEW i \in Instances, NEW w \in Watchers, Loop(i, w)
          PROVE  Provenance'
      BY Zenon, <1>2, <1>5, <2>3 DEF Loop, readRevision, connect, sendEvents,
         readHeader, updateRevision, etcdVars
    <2>4. ASSUME NEW i \in Instances, Disturb(i)
          PROVE  Provenance'
      BY Zenon, <1>2, <1>4, <2>4 DEF Disturb, connectFails, closed, etcdVars
    <2> QED
      BY Zenon, <1>1, <1>4, <2>1, <2>2, <2>3, <2>4 DEF Next

\* For every number of instances, addresses and writes and under every fault,
\* loadFromEtcd, watchLoop and cidrWatchLoop never put an entry into memory
\* that was not written to etcd under that address.
THEOREM ProvenanceCorrect == Spec => []Provenance
  <1>1. Init => TypeInv /\ Provenance
    BY TypeInit DEF Init, Provenance
  <1>2. TypeInv /\ Provenance /\ [Next]_vars => (TypeInv /\ Provenance)'
    BY Zenon, TypeNext, ProvenanceNext
  <1> QED
    BY <1>1, <1>2, PTL DEF Spec

----------------------------------------------------------------------------
(* Every entry is what etcd held at one revision                           *)

\* The entry of a, kept by loop w, is what etcd held at a revision between
\* the loop's position and the furthest one it reached.
Exact(i, w, a) ==
  \E p \in pos[i][w]..seen[i][w] : HoldsAt(hist, a, table[i][a], p)

ExactIf(i, w, a) == (Loaded(i, w) /\ a \notin stale[i]) => Exact(i, w, a)

\* ReplicaExact, one entry at a time.
LEMMA ReplicaByEntry ==
  ReplicaExact <=> \A i \in Instances : \A w \in Watchers :
                     \A a \in Owned(w) : ExactIf(i, w, a)
  BY Zenon DEF ReplicaExact, ExactIf, Exact

\* The range of each number of an instance.
LEMMA Ranges ==
  ASSUME TypeInv, NEW i \in Instances
  PROVE  /\ hist \in Seq(Events) /\ Len(hist) \in Nat
         /\ gEtcdRevision[i] \in Nat
         /\ \A x \in Watchers :
              /\ start[i][x] \in 0..(Len(hist) + 1) /\ start[i][x] \in Nat
              /\ upto[i][x] \in Nat /\ hdr[i][x] \in Nat
              /\ pos[i][x] \in Nat /\ seen[i][x] \in Nat
         /\ \A a \in Addrs : table[i][a] \in Entries \cup {NoEntry}
  <1>1. hist \in Seq(Events) /\ gEtcdRevision[i] \in 0..Len(hist)
    BY Zenon DEF TypeInv, TypeOK
  <1>2. ASSUME NEW x \in Watchers
        PROVE  /\ start[i][x] \in 0..(Len(hist) + 1)
               /\ upto[i][x] \in 0..Len(hist) /\ hdr[i][x] \in 0..Len(hist)
               /\ pos[i][x] \in 0..Len(hist) /\ seen[i][x] \in 0..Len(hist)
    BY ZenonT(30) DEF TypeInv, TypeOK
  <1>3. Len(hist) \in Nat
    BY <1>1
  <1>4. PICK n \in Nat : n = Len(hist)
    BY Zenon, <1>3
  <1>5. 0..n \subseteq Nat /\ 0..(n + 1) \subseteq Nat
    OBVIOUS
  <1>6. table \in [Instances -> [Addrs -> Entries \cup {NoEntry}]]
    BY Zenon DEF TypeInv, TypeOK
  <1>7. \A a \in Addrs : table[i][a] \in Entries \cup {NoEntry}
    BY Zenon, <1>6
  <1> QED
    BY Zenon, <1>1, <1>2, <1>3, <1>4, <1>5, <1>7

\* A revision in the window of a loop, after the loop has moved on to r.
LEMMA WindowMoves ==
  ASSUME NEW m \in Nat, NEW n \in Nat, NEW r \in Nat, NEW p \in m..n
  PROVE  /\ p >= r => p \in r..Max2(n, r)
         /\ r \in r..Max2(n, r)
         /\ ~(p >= r) => /\ p \in Nat /\ p <= r
                         /\ \A s \in (p + 1)..r : s \in (m + 1)..r
  BY DEF Max2

\* A step that leaves an entry, its loop's positions and etcd alone.
LEMMA ExactKept ==
  ASSUME NEW i \in Instances, NEW w \in Watchers, NEW a \in Owned(w),
         ExactIf(i, w, a), hist' = hist, table'[i][a] = table[i][a],
         pos'[i][w] = pos[i][w], seen'[i][w] = seen[i][w],
         a \in stale[i] => a \in stale'[i],
         Loaded(i, w)' => Loaded(i, w)
  PROVE  ExactIf(i, w, a)'
  BY Zenon DEF ExactIf, Exact

\* A table that was just loaded holds what etcd holds.
LEMMA ExactLoaded ==
  ASSUME TypeInv, NEW i \in Instances, NEW w \in Watchers, NEW a \in Owned(w),
         hist' = hist, table'[i][a] = Stored(a), LoadedAt(i, w, Len(hist))
  PROVE  ExactIf(i, w, a)'
  <1>1. pos'[i][w] = Len(hist) /\ seen'[i][w] = Len(hist) /\ Len(hist) \in Nat
    BY DEF LoadedAt, TypeInv, TypeOK
  <1>2. HoldsAt(hist, a, Stored(a), Len(hist))
    BY Zenon, StoredHolds, OwnedDecodes
  <1>3. Len(hist) \in pos'[i][w]..seen'[i][w]
    BY <1>1
  <1>4. HoldsAt(hist', a, table'[i][a], Len(hist))
    BY Zenon, <1>2
  <1> QED
    BY Zenon, <1>3, <1>4 DEF ExactIf, Exact

\* etcd skips events on a connect: what stays out of stale was not touched.
LEMMA ExactConnect ==
  ASSUME TypeInv, NEW i \in Instances, NEW w \in Watchers, NEW a \in Owned(w),
         ExactIf(i, w, a), connect(i, w)
  PROVE  ExactIf(i, w, a)'
  <1> DEFINE from == IF start[i][w] = 0 THEN Len(hist) ELSE start[i][w] - 1
  <1> SUFFICES ASSUME Loaded(i, w), a \notin stale'[i]
               PROVE  Exact(i, w, a)'
    BY Zenon DEF ExactIf, Loaded, connect
  <1>1. /\ from \in Nat /\ Len(hist) \in Nat /\ hist \in Seq(Events)
        /\ pos[i][w] \in Nat /\ seen[i][w] \in Nat
    <2>1. start[i][w] \in Nat /\ Len(hist) \in Nat
      BY Zenon, Ranges
    <2>2. from \in Nat
      BY <2>1
    <2> HIDE DEF from
    <2> QED
      BY Zenon, <2>2, Ranges
  <1>2. /\ hist' = hist /\ table' = table /\ pos'[i][w] = from
        /\ seen'[i][w] = Max2(seen[i][w], from)
        /\ a \notin stale[i] /\ a \notin Touched(w, pos[i][w], from)
    BY Zenon DEF connect, etcdVars, TypeInv, TypeOK
  <1> HIDE DEF from
  <1>3. PICK p \in pos[i][w]..seen[i][w] : HoldsAt(hist, a, table[i][a], p)
    BY Zenon, <1>2 DEF ExactIf, Exact
  <1>4. \A r \in (pos[i][w] + 1)..from : hist[r].key # KeyOf(a)
    BY Zenon, <1>2 DEF Touched
  <1>5. CASE p >= from
    <2>1. p \in pos'[i][w]..seen'[i][w]
      BY Zenon, <1>1, <1>2, <1>5, WindowMoves
    <2> QED
      BY Zenon, <1>2, <1>3, <2>1 DEF Exact
  <1>6. CASE ~(p >= from)
    <2>1. p \in Nat /\ p <= from /\ \A r \in (p + 1)..from : hist[r].key # KeyOf(a)
      BY ZenonT(30), <1>1, <1>4, <1>6, WindowMoves
    <2>2. HoldsAt(hist, a, table[i][a], from)
      BY Zenon, <1>1, <1>3, <2>1, HoldsExtend, OwnedDecodes
    <2>3. from \in pos'[i][w]..seen'[i][w]
      BY Zenon, <1>1, <1>2, WindowMoves
    <2> QED
      BY Zenon, <1>2, <2>2, <2>3 DEF Exact
  <1> QED
    BY Zenon, <1>5, <1>6

\* One event applied: its own address is now exact, the others stay so.
LEMMA ExactApply ==
  ASSUME TypeInv, NEW i \in Instances, NEW w \in Watchers, NEW a \in Owned(w),
         ExactIf(i, w, a), applyEvent(i, w)
  PROVE  ExactIf(i, w, a)'
  <1> DEFINE r == pos[i][w] + 1
  <1> SUFFICES ASSUME Loaded(i, w), a \notin stale'[i]
               PROVE  Exact(i, w, a)'
    BY Zenon DEF ExactIf, Loaded, applyEvent
  <1>1. /\ r \in 1..Len(hist) /\ hist[r] \in Events /\ hist \in Seq(Events)
        /\ pos[i][w] \in Nat /\ seen[i][w] \in Nat
    <2>1. r \in 1..Len(hist) /\ hist[r] \in Events
      BY Zenon, ApplyWritten
    <2> HIDE DEF r
    <2> QED
      BY Zenon, <2>1, Ranges
  <1>2. /\ hist' = hist /\ pos'[i][w] = r /\ seen'[i][w] = Max2(seen[i][w], r)
    BY Zenon DEF applyEvent, etcdVars, TypeInv, TypeOK
  <1>3. r \in Nat /\ r \in pos'[i][w]..seen'[i][w]
    <2>1. r \in Nat
      BY <1>1
    <2> HIDE DEF r
    <2>2. seen[i][w] \in seen[i][w]..seen[i][w]
      BY <1>1
    <2> QED
      BY Zenon, <1>1, <1>2, <2>1, <2>2, WindowMoves
  <1>4. a \in Addrs /\ Decodes(w, KeyOf(a))
    BY Zenon, OwnedDecodes
  <1>5. CASE hist[r].key = KeyOf(a)
    <2>1. hist[r].key.id = a
      BY <1>1, <1>4, <1>5, DecodesKey, KeyInjective
    <2>2. table'[i][a] = Entry(a, hist[r].val, r)
      <3>1. table' = [table EXCEPT ![i][a] = Entry(a, hist[r].val, r)]
        BY <1>4, <1>5, <2>1, ApplyWritten
      <3> QED
        BY ZenonT(30), <1>4, <3>1 DEF TypeInv, TypeOK
    <2> QED
      BY Zenon, <1>1, <1>2, <1>3, <1>4, <1>5, <2>2, HoldsWritten DEF Exact
  <1>6. CASE hist[r].key # KeyOf(a)
    <2>1. table'[i][a] = table[i][a] /\ a \notin stale[i]
      <3>1. CASE UNCHANGED <<table, stale>>
        BY Zenon, <3>1
      <3>2. CASE ~UNCHANGED <<table, stale>>
        <4>1. PICK b \in Addrs :
                /\ hist[r].key = KeyOf(b)
                /\ table' = [table EXCEPT ![i][b] = Entry(b, hist[r].val, r)]
                /\ stale' = [stale EXCEPT ![i] = @ \ {b}]
          BY <3>2, ApplyWritten
        <4>2. b # a
          BY Zenon, <1>6, <4>1
        <4> QED
          BY ZenonT(30), <1>4, <4>1, <4>2 DEF TypeInv, TypeOK
      <3> QED
        BY Zenon, <3>1, <3>2
    <2>2. PICK p \in pos[i][w]..seen[i][w] : HoldsAt(hist, a, table[i][a], p)
      BY Zenon, <2>1 DEF ExactIf, Exact
    <2>3. CASE p >= r
      <3> HIDE DEF r
      <3>1. p \in pos'[i][w]..seen'[i][w]
        BY Zenon, <1>1, <1>2, <1>3, <2>2, <2>3, WindowMoves
      <3> QED
        BY Zenon, <1>2, <2>1, <2>2, <3>1 DEF Exact
    <2>4. CASE ~(p >= r)
      <3>1. /\ p \in Nat /\ r \in Nat /\ p <= r
            /\ \A s \in (p + 1)..r : hist[s].key # KeyOf(a)
        <4>1. \A s \in (pos[i][w] + 1)..r : s = r
          BY <1>1
        <4> HIDE DEF r
        <4>2. /\ p \in Nat /\ p <= r
              /\ \A s \in (p + 1)..r : s \in (pos[i][w] + 1)..r
          BY Zenon, <1>1, <1>3, <2>2, <2>4, WindowMoves
        <4> QED
          BY Zenon, <1>3, <1>6, <4>1, <4>2
      <3>2. HoldsAt(hist, a, table[i][a], r)
        BY Zenon, <1>1, <1>4, <2>2, <3>1, HoldsExtend
      <3> QED
        BY Zenon, <1>2, <1>3, <2>1, <3>2 DEF Exact
    <2> QED
      BY Zenon, <2>3, <2>4
  <1> QED
    BY Zenon, <1>5, <1>6

\* ReplicaExact is preserved by every step.
LEMMA ExactNext ==
  ASSUME TypeInv, ReplicaExact, [Next]_vars
  PROVE  ReplicaExact'
  <1> SUFFICES ASSUME NEW j \in Instances, NEW x \in Watchers, NEW a \in Owned(x)
               PROVE  ExactIf(j, x, a)'
    BY Zenon DEF ReplicaExact, ExactIf, Exact
  <1>0. ExactIf(j, x, a) /\ a \in Addrs
    BY Zenon, ReplicaByEntry, OwnedDecodes
  <1>1. CASE Store
    <2>1. PICK ev \in Events : hist' = Append(hist, ev)
      BY Zenon, <1>1, StoreAppends
    <2>2. UNCHANGED <<pc, table, pos, seen, stale>>
      BY Zenon, <1>1, StoreAppends DEF loopVars
    <2> SUFFICES ASSUME Loaded(j, x), a \notin stale[j]
                 PROVE  Exact(j, x, a)'
      BY Zenon, <2>2 DEF ExactIf, Loaded
    <2>3. PICK p \in pos[j][x]..seen[j][x] : HoldsAt(hist, a, table[j][a], p)
      BY Zenon, <1>0 DEF ExactIf, Exact
    <2>4. p \in 0..Len(hist) /\ hist \in Seq(Events)
      BY DEF TypeInv, TypeOK
    <2>5. HoldsAt(hist', a, table[j][a], p)
      BY Zenon, <1>0, <2>1, <2>3, <2>4, HoldsAppend
    <2> QED
      BY Zenon, <2>2, <2>3, <2>5 DEF Exact
  <1>2. CASE UNCHANGED <<hist, table, pos, seen, stale, pc>>
    BY Zenon, <1>0, <1>2, ExactKept DEF Loaded
  <1>3. ASSUME NEW i \in Instances, Main(i)
        PROVE  ExactIf(j, x, a)'
    <2>1. CASE waitForEtcd(i)
      BY <1>0, <2>1, ExactKept, ZenonT(30)
         DEF waitForEtcd, Goto, Loaded, etcdVars, loopVars,
         TypeInv, TypeOK
    <2>2. CASE startWatchers(i)
      BY <1>0, <2>2, ExactKept, ZenonT(30)
         DEF startWatchers, Goto, Loaded, etcdVars,
         TypeInv, TypeOK
    <2>3. ASSUME NEW w \in Watchers, NEW e, Load(i, w, e), hist' = hist,
                 LoadedAt(i, w, Len(hist)), j # i \/ x # w,
                 a \in stale[j] => a \in stale'[j],
                 Loaded(j, x)' => Loaded(j, x)
          PROVE  ExactIf(j, x, a)'
      <3>1. j = i => a \notin Owned(w)
        BY <2>3, EtcdAssumption DEF Owned, Watchers
      <3>2. table'[j][a] = table[j][a]
        BY Zenon, <1>0, <2>3, <3>1 DEF Load, TypeInv, TypeOK
      <3>3. pos'[j][x] = pos[j][x] /\ seen'[j][x] = seen[j][x]
        BY <2>3, ZenonT(30) DEF LoadedAt, TypeInv, TypeOK
      <3> QED
        BY Zenon, <1>0, <2>3, <3>2, <3>3, ExactKept
    <2>4. CASE loadFromEtcd(i)
      <3>1. CASE j = i /\ x = "ip"
        <4>1. table'[i][a] = Stored(a)
          BY Zenon, <1>0, <2>4, <3>1
             DEF loadFromEtcd, Load, Owned, TypeInv, TypeOK
        <4> QED
          BY Zenon, <2>4, <3>1, <4>1, ExactLoaded DEF loadFromEtcd, etcdVars
      <3>2. CASE ~(j = i /\ x = "ip")
        <4>1. a \in stale[j] => a \in stale'[j]
          BY Zenon, <2>4, <3>2, EtcdAssumption
             DEF loadFromEtcd, Owned, Watchers,
             TypeInv, TypeOK
        <4>2. Loaded(j, x)' => Loaded(j, x)
          BY <2>4, <3>2, ZenonT(30)
             DEF loadFromEtcd, Goto, Loaded, Watchers, TypeInv, TypeOK
        <4> QED
          BY Zenon, <2>3, <2>4, <3>2, <4>1, <4>2
             DEF loadFromEtcd, etcdVars, Watchers
      <3> QED
        BY Zenon, <3>1, <3>2
    <2>5. CASE loadCIDRFromEtcd(i)
      <3>1. CASE j = i /\ x = "cidr"
        <4>1. table'[i][a] = Stored(a)
          BY Zenon, <1>0, <2>5, <3>1
             DEF loadCIDRFromEtcd, Load, Owned, TypeInv, TypeOK
        <4> QED
          BY Zenon, <2>5, <3>1, <4>1, ExactLoaded DEF loadCIDRFromEtcd, etcdVars
      <3>2. CASE ~(j = i /\ x = "cidr")
        <4>1. a \in stale[j] => a \in stale'[j]
          BY Zenon, <2>5, <3>2, EtcdAssumption
             DEF loadCIDRFromEtcd, Owned, Watchers,
             TypeInv, TypeOK
        <4>2. Loaded(j, x)' => Loaded(j, x)
          BY <2>5, <3>2, ZenonT(30)
             DEF loadCIDRFromEtcd, Goto, Loaded, Watchers, TypeInv,
             TypeOK
        <4> QED
          BY Zenon, <2>3, <2>5, <3>2, <4>1, <4>2
             DEF loadCIDRFromEtcd, etcdVars, Watchers
      <3> QED
        BY Zenon, <3>1, <3>2
    <2>6. ASSUME NEW w \in Watchers, loadGarbled(i, w)
          PROVE  ExactIf(j, x, a)'
      <3>0. a \in stale[j] => a \in stale'[j]
        BY Zenon, <2>6 DEF loadGarbled, TypeInv, TypeOK
      <3>1. CASE j = i /\ x = w
        <4>1. a \in stale'[j]
          BY Zenon, <2>6, <3>1 DEF loadGarbled, TypeInv, TypeOK
        <4> QED
          BY Zenon, <4>1 DEF ExactIf
      <3>2. CASE ~(j = i /\ x = w)
        <4>1. Loaded(j, x)' => Loaded(j, x)
          BY <2>6, <3>2, ZenonT(30)
             DEF loadGarbled, Goto, Loaded, Watchers, TypeInv, TypeOK
        <4> QED
          BY Zenon, <2>3, <2>6, <3>0, <3>2, <4>1 DEF loadGarbled, etcdVars
      <3> QED
        BY Zenon, <3>1, <3>2
    <2> QED
      BY Zenon, <1>3, <2>1, <2>2, <2>4, <2>5, <2>6 DEF Main
  <1>4. ASSUME NEW i \in Instances, NEW w \in Watchers, connect(i, w)
        PROVE  ExactIf(j, x, a)'
    <2>1. CASE j = i /\ x = w
      BY Zenon, <1>0, <1>4, <2>1, ExactConnect
    <2>2. CASE ~(j = i /\ x = w)
      <3>1. /\ pos'[j][x] = pos[j][x] /\ seen'[j][x] = seen[j][x]
            /\ a \in stale[j] => a \in stale'[j]
        BY <1>4, <2>2, ZenonT(30) DEF connect, TypeInv, TypeOK
      <3>2. hist' = hist /\ table' = table /\ pc' = pc
        BY Zenon, <1>4 DEF connect, etcdVars
      <3> QED
        BY Zenon, <1>0, <3>1, <3>2, ExactKept DEF Loaded
    <2> QED
      BY Zenon, <2>1, <2>2
  <1>5. ASSUME NEW i \in Instances, NEW w \in Watchers, applyEvent(i, w)
        PROVE  ExactIf(j, x, a)'
    <2>1. CASE j = i /\ x = w
      BY Zenon, <1>0, <1>5, <2>1, ExactApply
    <2>2. CASE ~(j = i /\ x = w)
      <3>1. /\ pos'[j][x] = pos[j][x] /\ seen'[j][x] = seen[j][x]
            /\ hist' = hist /\ pc' = pc
        BY <1>5, <2>2, ZenonT(30) DEF applyEvent, etcdVars, TypeInv, TypeOK
      <3>2. table'[j][a] = table[j][a] /\ (a \in stale[j] => a \in stale'[j])
        <4>1. CASE UNCHANGED <<table, stale>>
          BY Zenon, <4>1
        <4>2. CASE ~UNCHANGED <<table, stale>>
          <5>0. PICK r \in 1..Len(hist) : r = pos[i][w] + 1
            BY Zenon, <1>5, ApplyWritten
          <5>1. PICK b \in Owned(w) :
                  /\ table' = [table EXCEPT ![i][b] = Entry(b, hist[r].val, r)]
                  /\ stale' = [stale EXCEPT ![i] = @ \ {b}]
            BY Zenon, <1>5, <4>2, <5>0, ApplyWritten
          <5>2. j # i \/ a # b
            BY Zenon, <2>2, EtcdAssumption DEF Owned, Watchers
          <5>3. b \in Addrs
            BY Zenon DEF Owned, Addrs
          <5> QED
            BY <1>0, <5>1, <5>2, <5>3, ZenonT(30) DEF TypeInv, TypeOK
        <4> QED
          BY Zenon, <4>1, <4>2
      <3> QED
        BY Zenon, <1>0, <3>1, <3>2, ExactKept DEF Loaded
    <2> QED
      BY Zenon, <2>1, <2>2
  <1>6. ASSUME NEW i \in Instances, crash(i)
        PROVE  ExactIf(j, x, a)'
    <2>1. CASE j = i
      BY Zenon, <1>6, <2>1 DEF crash, ExactIf, Loaded, TypeInv, TypeOK
    <2>2. CASE j # i
      BY <1>0, <1>6, <2>2, ExactKept, ZenonT(30)
         DEF crash, Loaded, etcdVars, TypeInv, TypeOK
    <2> QED
      BY Zenon, <2>1, <2>2
  <1>7. ASSUME NEW i \in Instances, NEW b \in Addrs, evict(i, b)
        PROVE  ExactIf(j, x, a)'
    <2>1. CASE j = i /\ a = b
      BY Zenon, <1>7, <2>1 DEF evict, ExactIf, TypeInv, TypeOK
    <2>2. CASE ~(j = i /\ a = b)
      <3>1. table'[j][a] = table[j][a] /\ (a \in stale[j] => a \in stale'[j])
        BY Zenon, <1>0, <1>7, <2>2 DEF evict, TypeInv, TypeOK
      <3> QED
        BY Zenon, <1>0, <1>7, <3>1, ExactKept
           DEF evict, Loaded, etcdVars, loopVars
    <2> QED
      BY Zenon, <2>1, <2>2
  <1> QED
    <2>1. CASE UNCHANGED vars
      BY Zenon, <1>2, <2>1 DEF vars
    <2>2. ASSUME NEW i \in Instances, NEW w \in Watchers, Loop(i, w)
          PROVE  ExactIf(j, x, a)'
      BY Zenon, <1>2, <1>4, <1>5, <2>2
         DEF Loop, readRevision, sendEvents, readHeader,
         updateRevision, etcdVars
    <2>3. ASSUME NEW i \in Instances, Disturb(i)
          PROVE  ExactIf(j, x, a)'
      BY Zenon, <1>2, <1>6, <2>3 DEF Disturb, connectFails, closed, etcdVars
    <2> QED
      BY Zenon, <1>1, <1>3, <1>7, <2>1, <2>2, <2>3 DEF Next

\* An entry in memory is what etcd held at some revision between the watch
\* loop's position and the furthest it reached, unless a load failed to read
\* it, its last event was skipped by a reconnect or the expiration worker
\* dropped it.
THEOREM ReplicaCorrect == Spec => []ReplicaExact
  <1>1. Init => TypeInv /\ ReplicaExact
    BY Zenon, TypeInit DEF Init, ReplicaExact, Loaded
  <1>2. TypeInv /\ ReplicaExact /\ [Next]_vars => (TypeInv /\ ReplicaExact)'
    BY Zenon, TypeNext, ExactNext
  <1> QED
    BY <1>1, <1>2, PTL DEF Spec

\* At one revision etcd holds one thing for an address.
LEMMA HoldsUnique ==
  ASSUME NEW h, NEW a \in Addrs, NEW n \in Nat, NEW e, NEW f,
         HoldsAt(h, a, e, n), HoldsAt(h, a, f, n)
  PROVE  e = f
  <1>1. ASSUME NEW r \in 1..n, NEW s \in 1..n,
               Latest(h, KeyOf(a), r, n), Latest(h, KeyOf(a), s, n)
        PROVE  r = s
    <2>1. ~(r < s) /\ ~(s < r)
      BY <1>1 DEF Latest
    <2> QED
      BY <2>1
  <1> QED
    BY Zenon, <1>1 DEF HoldsAt, Latest

\* When a loop has nothing left to receive, what etcd held for one of its
\* addresses at the loop's position or later is what it holds now.
LEMMA IdleHolds ==
  ASSUME TypeInv, NEW i \in Instances, NEW w \in Watchers, NEW a \in Owned(w),
         Idle(i), Exact(i, w, a)
  PROVE  table[i][a] = Stored(a)
  <1>1. a \in Addrs
    BY Zenon DEF Owned, Addrs
  <1>2. /\ hist \in Seq(Events) /\ Len(hist) \in Nat
        /\ pos[i][w] \in Nat /\ seen[i][w] \in 0..Len(hist)
    BY DEF TypeInv, TypeOK
  <1>3. PICK p \in pos[i][w]..seen[i][w] : HoldsAt(hist, a, table[i][a], p)
    BY Zenon DEF Exact
  <1>4. p \in Nat /\ p <= Len(hist) /\ pos[i][w] <= p
    BY <1>2, <1>3
  <1>5. InRange(w, KeyOf(a))
    BY Zenon, EtcdAssumption DEF InRange, KeyOf, Owned, Watchers, rblKey, cidrToEtcdKey
  <1>6. ASSUME NEW r \in (p + 1)..Len(hist)
        PROVE  hist[r].key # KeyOf(a)
    <2>1. r \in (pos[i][w] + 1)..Len(hist)
      BY <1>2, <1>4
    <2> QED
      BY Zenon, <1>5, <2>1 DEF Idle
  <1>7. HoldsAt(hist, a, table[i][a], Len(hist))
    BY Zenon, <1>1, <1>2, <1>3, <1>4, <1>6, HoldsExtend
  <1> QED
    BY Zenon, <1>1, <1>2, <1>7, StoredHolds, HoldsUnique

\* An instance with nothing left to receive holds exactly what etcd holds,
\* except for entries that a load failed to read, whose last event a reconnect
\* skipped or that the expiration worker dropped.
THEOREM CopyCorrect == Spec => []CopyExact
  <1>1. Init => TypeInv /\ ReplicaExact
    BY Zenon, TypeInit DEF Init, ReplicaExact, Loaded
  <1>2. TypeInv /\ ReplicaExact /\ [Next]_vars => (TypeInv /\ ReplicaExact)'
    BY Zenon, TypeNext, ExactNext
  <1>3. ASSUME TypeInv, ReplicaExact
        PROVE  CopyExact
    <2>1. SUFFICES ASSUME NEW i \in Instances, pc[i] = "run", Idle(i),
                          NEW a \in Addrs, a \notin stale[i]
                   PROVE  table[i][a] = Stored(a)
      BY Zenon DEF CopyExact
    <2>2. PICK w \in Watchers : a \in Owned(w)
      BY Zenon, <2>1 DEF Addrs, Owned, Watchers
    <2>3. Loaded(i, w)
      BY Zenon, <2>1 DEF Loaded
    <2>4. Exact(i, w, a)
      BY Zenon, <1>3, <2>1, <2>2, <2>3 DEF ReplicaExact, Exact
    <2> QED
      BY Zenon, <1>3, <2>1, <2>2, <2>4, IdleHolds
  <1> QED
    BY <1>1, <1>2, <1>3, PTL DEF Spec

----------------------------------------------------------------------------
(* Watch implements Replica                                                *)

\* Every write to etcd is one of Replica's writes.
LEMMA StoreRefines ==
  ASSUME Store
  PROVE  Write
  BY Zenon DEF Store, StorePut, StoreDelete, Write, replicaVars, loopVars

\* Loading a table, whole or garbled, is loading all or nothing.
LEMMA LoadRefines ==
  ASSUME NEW i \in Instances, Main(i)
  PROVE  \/ Replicate(i)
         \/ UNCHANGED <<etcdVars, replicaVars>>
  <1>1. CASE waitForEtcd(i) \/ startWatchers(i)
    BY Zenon, <1>1 DEF waitForEtcd, startWatchers, loopVars, replicaVars
  <1>2. CASE loadFromEtcd(i)
    <2>1. LoadAll(i, "ip") /\ UNCHANGED etcdVars
      BY Zenon, <1>2 DEF loadFromEtcd, Load, LoadedAt, LoadAll, Fill, Owned
    <2> QED
      BY Zenon, <2>1 DEF Replicate, Watchers
  <1>3. CASE loadCIDRFromEtcd(i)
    <2>1. LoadAll(i, "cidr") /\ UNCHANGED etcdVars
      BY Zenon, <1>3 DEF loadCIDRFromEtcd, Load, LoadedAt, LoadAll, Fill, Owned
    <2> QED
      BY Zenon, <2>1 DEF Replicate, Watchers
  <1>4. ASSUME NEW w \in Watchers, loadGarbled(i, w)
        PROVE  Replicate(i)
    <2>1. LoadNothing(i, w) /\ UNCHANGED etcdVars
      BY Zenon, <1>4 DEF loadGarbled, Load, LoadedAt, LoadNothing, Fill
    <2> QED
      BY Zenon, <2>1 DEF Replicate
  <1> QED
    BY Zenon, <1>1, <1>2, <1>3, <1>4 DEF Main

\* A reconnect is a jump, an applied event a delivery; the other steps of a
\* loop cannot be seen from outside.
LEMMA LoopRefines ==
  ASSUME TypeInv, NEW i \in Instances, NEW w \in Watchers, Loop(i, w)
  PROVE  \/ Replicate(i)
         \/ UNCHANGED <<etcdVars, replicaVars>>
  <1>1. CASE \/ readRevision(i, w) \/ sendEvents(i, w) \/ readHeader(i, w)
             \/ updateRevision(i, w)
    BY Zenon, <1>1 DEF readRevision, sendEvents, readHeader, updateRevision,
       replicaVars
  <1>2. CASE connect(i, w)
    <2> DEFINE from == IF start[i][w] = 0 THEN Len(hist) ELSE start[i][w] - 1
    <2>1. from \in 0..Len(hist)
      <3>1. start[i][w] \in 0..(Len(hist) + 1) /\ Len(hist) \in Nat
        BY DEF TypeInv, TypeOK
      <3> QED
        BY <3>1
    <2>2. /\ pos' = [pos EXCEPT ![i][w] = from]
          /\ UNCHANGED <<etcdVars, table>>
      BY Zenon, <1>2 DEF connect
    <2> HIDE DEF from
    <2>3. Resume(i, w) /\ UNCHANGED etcdVars
      BY <2>1, <2>2, ZenonT(30) DEF Resume
    <2> QED
      BY Zenon, <2>3 DEF Replicate
  <1>3. CASE applyEvent(i, w)
    <2>1. pos[i][w] + 1 <= Len(hist)
      <3>1. pos[i][w] < upto[i][w]
        BY Zenon, <1>3 DEF applyEvent, At, TypeInv, LoopOK, LoopAt
      <3>2. /\ pos[i][w] \in Nat /\ Len(hist) \in Nat
            /\ upto[i][w] \in 0..Len(hist)
        BY DEF TypeInv, TypeOK
      <3> QED
        BY <3>1, <3>2
    <2>2. Deliver(i, w) /\ UNCHANGED etcdVars
      <3> DEFINE r   == pos[i][w] + 1
                 key == hist[r].key
      <3>1. pos' = [pos EXCEPT ![i][w] = r] /\ UNCHANGED etcdVars
        BY <1>3, ZenonT(30) DEF applyEvent
      <3>2. CASE Decodes(w, key)
        <4>1. table' = [table EXCEPT ![i][key.id] =
                          Entry(key.id, hist[r].val, r)]
          BY <1>3, <3>2, ZenonT(30) DEF applyEvent
        <4> QED
          BY <2>1, <3>1, <3>2, <4>1, ZenonT(30) DEF Deliver
      <3>3. CASE ~Decodes(w, key)
        <4>1. table' = table
          BY <1>3, <3>3, ZenonT(30) DEF applyEvent
        <4> QED
          BY <2>1, <3>1, <3>3, <4>1, ZenonT(30) DEF Deliver
      <3> QED
        BY Zenon, <3>2, <3>3
    <2> QED
      BY Zenon, <2>2 DEF Replicate
  <1> QED
    BY Zenon, <1>1, <1>2, <1>3 DEF Loop

\* A crash loses everything, the expiration worker one entry; a lost stream
\* cannot be seen.
LEMMA DisturbRefines ==
  ASSUME NEW i \in Instances, Disturb(i) \/ \E a \in Addrs : evict(i, a)
  PROVE  \/ Replicate(i)
         \/ UNCHANGED <<etcdVars, replicaVars>>
  <1>1. CASE crash(i)
    <2>1. Lose(i) /\ UNCHANGED etcdVars
      BY Zenon, <1>1 DEF crash, Lose
    <2> QED
      BY Zenon, <2>1 DEF Replicate
  <1>2. CASE \E w \in Watchers : connectFails(i, w) \/ closed(i, w)
    BY Zenon, <1>2 DEF connectFails, closed, replicaVars
  <1>3. ASSUME NEW a \in Addrs, evict(i, a)
        PROVE  Replicate(i)
    <2>1. Drop(i, a) /\ UNCHANGED etcdVars
      BY Zenon, <1>3 DEF evict, Drop, loopVars
    <2> QED
      BY Zenon, <2>1 DEF Replicate
  <1> QED
    BY Zenon, <1>1, <1>2, <1>3 DEF Disturb

\* For every number of instances and addresses and under every fault, every
\* behaviour of the detailed protocol is one that Replica allows.
THEOREM WatchImplementsReplica == Spec => ImplementsReplica
  <1>1. Init => etcdInit /\ ReplicaInit
    BY Zenon DEF Init, ReplicaInit
  <1>2. TypeInv /\ [Next]_vars => [ReplicaNext]_<<etcdVars, replicaVars>>
    <2> SUFFICES ASSUME TypeInv, [Next]_vars
                 PROVE  ReplicaNext \/ UNCHANGED <<etcdVars, replicaVars>>
      BY Zenon
    <2>1. CASE UNCHANGED vars
      BY Zenon, <2>1 DEF vars, etcdVars, replicaVars
    <2>2. CASE Store
      BY Zenon, <2>2, StoreRefines DEF ReplicaNext
    <2>3. ASSUME NEW i \in Instances,
                 \/ Main(i)
                 \/ \E w \in Watchers : Loop(i, w)
                 \/ Disturb(i)
                 \/ \E a \in Addrs : evict(i, a)
          PROVE  ReplicaNext \/ UNCHANGED <<etcdVars, replicaVars>>
      BY Zenon, <2>3, LoadRefines, LoopRefines, DisturbRefines DEF ReplicaNext
    <2> QED
      BY Zenon, <2>1, <2>2, <2>3 DEF Next
  <1>3. Init => TypeInv
    BY Zenon, TypeInit
  <1>4. TypeInv /\ [Next]_vars => TypeInv'
    BY Zenon, TypeNext
  <1> QED
    BY <1>1, <1>2, <1>3, <1>4, PTL DEF Spec, ImplementsReplica, ReplicaSpec

----------------------------------------------------------------------------
(* When a ModRevision goes back                                            *)

\* Entry m (a ModRevision) is behind everything instance i may still receive:
\* behind the revision it would resume from, behind the start_revision it has
\* chosen, behind the position of its stream.
Behind(i, m) ==
  /\ 0 < m /\ m <= gEtcdRevision[i]
  /\ wpc[i]["ip"] = "dial" => m < start[i]["ip"]
  /\ wpc[i]["ip"] \in {"msg", "store", "apply", "scan"} => m <= pos[i]["ip"]

\* Why the ModRevision of an entry grows: an instance that loads has no entry
\* yet, the events of a message are covered by its header, and, as long as no
\* lower revision was stored, the header is stored before they are applied.
RollbackAt(i) ==
  /\ pc[i] \in {"down", "loadIP"} => \A a \in IPs : table[i][a] = NoEntry
  /\ \A w \in Watchers : wpc[i][w] \in {"msg", "store"} => upto[i][w] <= hdr[i][w]
  /\ ~rewound[i] =>
       /\ \A w \in Watchers : wpc[i][w] = "apply" => upto[i][w] <= gEtcdRevision[i]
       /\ \A a \in IPs : table[i][a] # NoEntry => Behind(i, table[i][a].mod)

RollbackInv == \A i \in Instances : RollbackAt(i)

\* A step of another instance, or of etcd alone.
SameFor(j) ==
  /\ pc'[j] = pc[j] /\ gEtcdRevision'[j] = gEtcdRevision[j]
  /\ table'[j] = table[j] /\ wpc'[j] = wpc[j] /\ start'[j] = start[j]
  /\ upto'[j] = upto[j] /\ hdr'[j] = hdr[j] /\ pos'[j] = pos[j]
  /\ rewound'[j] = rewound[j]

\* Kept for an instance whose state stays.
LEMMA RollbackFrame ==
  ASSUME NEW j \in Instances, RollbackAt(j), SameFor(j)
  PROVE  RollbackAt(j)'
  BY Zenon DEF RollbackAt, Behind, SameFor

\* Every step concerns one instance.
LEMMA OneInstance ==
  ASSUME TypeInv, NEW i \in Instances, NEW j \in Instances, j # i,
         \/ Main(i)
         \/ \E w \in Watchers : Loop(i, w)
         \/ Disturb(i)
         \/ \E a \in Addrs : evict(i, a)
  PROVE  SameFor(j)
  <1>1. CASE Main(i)
    <2>1. CASE waitForEtcd(i)
      BY Zenon, <2>1 DEF waitForEtcd, Goto, loopVars, SameFor, TypeInv, TypeOK
    <2>5. CASE startWatchers(i)
      BY Zenon, <2>5 DEF startWatchers, Goto, SameFor, TypeInv, TypeOK
    <2>2. CASE loadFromEtcd(i)
      BY Zenon, <2>2
         DEF loadFromEtcd, Goto, Load, LoadedAt, SameFor, TypeInv, TypeOK
    <2>3. CASE loadCIDRFromEtcd(i)
      BY Zenon, <2>3
         DEF loadCIDRFromEtcd, Goto, Load, LoadedAt, SameFor, TypeInv, TypeOK
    <2>4. ASSUME NEW w \in Watchers, loadGarbled(i, w)
          PROVE  SameFor(j)
      <3>1. pc'[j] = pc[j] /\ gEtcdRevision'[j] = gEtcdRevision[j]
        BY Zenon, <2>4 DEF loadGarbled, Goto, TypeInv, TypeOK
      <3>2. table'[j] = table[j]
        BY Zenon, <2>4 DEF loadGarbled, Load, TypeInv, TypeOK
      <3> QED
        BY Zenon, <2>4, <3>1, <3>2
           DEF loadGarbled, LoadedAt, SameFor, TypeInv, TypeOK
    <2> QED
      BY Zenon, <1>1, <2>1, <2>2, <2>3, <2>4, <2>5 DEF Main
  <1>2. ASSUME NEW w \in Watchers, Loop(i, w)
        PROVE  SameFor(j)
    <2>1. CASE readRevision(i, w)
      BY Zenon, <2>1 DEF readRevision, At, SameFor, TypeInv, TypeOK
    <2>2. CASE connect(i, w)
      BY Zenon, <2>2 DEF connect, At, SameFor, TypeInv, TypeOK
    <2>3. CASE sendEvents(i, w)
      BY Zenon, <2>3 DEF sendEvents, At, SameFor, TypeInv, TypeOK
    <2>4. CASE readHeader(i, w)
      BY Zenon, <2>4
         DEF readHeader, At, ForgetHeader, SameFor, TypeInv, TypeOK
    <2>5. CASE updateRevision(i, w)
      BY Zenon, <2>5
         DEF updateRevision, At, ForgetHeader, SameFor, TypeInv, TypeOK
    <2>6. CASE applyEvent(i, w)
      <3>1. /\ UNCHANGED <<pc, gEtcdRevision, start, upto, hdr, rewound>>
            /\ \E l : wpc' = [wpc EXCEPT ![i][w] = l]
            /\ \E r : pos' = [pos EXCEPT ![i][w] = r]
        BY <2>6, ZenonT(30) DEF applyEvent, At
      <3>2. \/ table' = table
            \/ \E b, e : table' = [table EXCEPT ![i][b] = e]
        BY <2>6, ZenonT(30) DEF applyEvent
      <3>3. table'[j] = table[j]
        BY Zenon, <3>2 DEF TypeInv, TypeOK
      <3>4. wpc'[j] = wpc[j] /\ pos'[j] = pos[j]
        BY Zenon, <3>1 DEF TypeInv, TypeOK
      <3> QED
        BY Zenon, <3>1, <3>3, <3>4 DEF SameFor
    <2> QED
      BY Zenon, <1>2, <2>1, <2>2, <2>3, <2>4, <2>5, <2>6 DEF Loop
  <1>3. CASE Disturb(i)
    <2>1. CASE crash(i)
      BY Zenon, <2>1 DEF crash, SameFor, TypeInv, TypeOK
    <2>2. CASE \E w \in Watchers : connectFails(i, w)
      BY Zenon, <2>2 DEF connectFails, At, SameFor, TypeInv, TypeOK
    <2>3. CASE \E w \in Watchers : closed(i, w)
      BY ZenonT(30), <2>3 DEF closed, ForgetHeader, SameFor, TypeInv, TypeOK
    <2> QED
      BY Zenon, <1>3, <2>1, <2>2, <2>3 DEF Disturb
  <1>4. CASE \E a \in Addrs : evict(i, a)
    BY Zenon, <1>4 DEF evict, loopVars, SameFor, TypeInv, TypeOK
  <1> QED
    BY Zenon, <1>1, <1>2, <1>3, <1>4

\* main(): the tables are loaded before any loop runs.
LEMMA RollbackMain ==
  ASSUME TypeInv, NEW i \in Instances, RollbackAt(i), Main(i)
  PROVE  RollbackAt(i)'
  <1>0. \A w \in Watchers : pc[i] # "run" => wpc[i][w] = "off"
    BY Zenon DEF TypeInv, LoopOK, LoopAt
  <1>1. CASE waitForEtcd(i)
    BY Zenon, <1>1
       DEF waitForEtcd, Goto, loopVars, RollbackAt, Behind, TypeInv, TypeOK
  <1>2. CASE loadFromEtcd(i)
    <2>1. /\ pc'[i] = "loadCIDR" /\ pc[i] = "loadIP" /\ wpc' = wpc
          /\ gEtcdRevision'[i] = Len(hist)
          /\ \A a \in IPs : table'[i][a] = Stored(a)
      BY Zenon, <1>2
         DEF loadFromEtcd, Goto, Load, LoadedAt, Owned, Addrs, TypeInv, TypeOK
    <2>2. ASSUME NEW a \in IPs, Stored(a) # NoEntry
          PROVE  0 < Stored(a).mod /\ Stored(a).mod <= Len(hist)
      <3>1. KeyOf(a) \in Keys
        BY Zenon, KeyTyped DEF Addrs
      <3>2. kv[KeyOf(a)] \in Nat /\ kv[KeyOf(a)] <= Len(hist)
        BY <3>1 DEF TypeInv, TypeOK
      <3> QED
        BY <2>2, <3>2 DEF Stored, Entry
    <2> QED
      BY Zenon, <1>0, <2>1, <2>2 DEF RollbackAt, Behind, Watchers
  <1>3. CASE loadCIDRFromEtcd(i)
    <2>1. /\ pc'[i] = "serve" /\ pc[i] = "loadCIDR" /\ wpc' = wpc
          /\ gEtcdRevision' = gEtcdRevision /\ rewound' = rewound
      BY Zenon, <1>3 DEF loadCIDRFromEtcd, Goto, LoadedAt, TypeInv, TypeOK
    <2>2. \A a \in IPs : table'[i][a] = table[i][a]
      BY Zenon, <1>3, EtcdAssumption
         DEF loadCIDRFromEtcd, Load, Owned, Addrs, TypeInv,
         TypeOK
    <2> QED
      BY Zenon, <1>0, <2>1, <2>2 DEF RollbackAt, Behind, Watchers
  <1>4. ASSUME NEW w \in Watchers, loadGarbled(i, w)
        PROVE  RollbackAt(i)'
    <2>1. /\ pc[i] # "run" /\ wpc' = wpc /\ rewound' = rewound
          /\ pc'[i] \in {"loadCIDR", "serve"}
      BY Zenon, <1>4 DEF loadGarbled, Goto, LoadedAt, TypeInv, TypeOK
    <2>2. \A a \in IPs : IF w = "ip" THEN table'[i][a] = NoEntry
                                     ELSE table'[i][a] = table[i][a]
      BY Zenon, <1>4, EtcdAssumption
         DEF loadGarbled, Load, Owned, Addrs, TypeInv, TypeOK
    <2>3. w # "ip" => gEtcdRevision' = gEtcdRevision
      BY Zenon, <1>4 DEF loadGarbled
    <2> QED
      BY Zenon, <1>0, <2>1, <2>2, <2>3 DEF RollbackAt, Behind, Watchers
  <1>5. CASE startWatchers(i)
    <2>1. /\ pc'[i] = "run" /\ table' = table /\ rewound' = rewound
          /\ gEtcdRevision' = gEtcdRevision
          /\ \A w \in Watchers : wpc'[i][w] = "idle"
      BY Zenon, <1>5 DEF startWatchers, Goto, TypeInv, TypeOK
    <2> QED
      BY Zenon, <2>1 DEF RollbackAt, Behind, Watchers
  <1> QED
    BY Zenon, <1>1, <1>2, <1>3, <1>4, <1>5 DEF Main

\* For a step of a running instance that applies no event it is enough that
\* it keeps what is behind behind.
LEMMA RollbackIntro ==
  ASSUME TypeInv, NEW i \in Instances, RollbackAt(i),
         pc'[i] = "run", table'[i] = table[i], ~rewound'[i] => ~rewound[i],
         \A x \in Watchers :
           wpc'[i][x] \in {"msg", "store"} => upto'[i][x] <= hdr'[i][x],
         ~rewound'[i] => \A x \in Watchers :
           wpc'[i][x] = "apply" => upto'[i][x] <= gEtcdRevision'[i],
         ASSUME NEW m \in Nat, Behind(i, m), ~rewound'[i] PROVE Behind(i, m)'
  PROVE  RollbackAt(i)'
  <1>1. ASSUME NEW a \in IPs, table'[i][a] # NoEntry, ~rewound'[i]
        PROVE  Behind(i, table[i][a].mod)'
    <2>1. table[i][a] \in Entries
      BY <1>1 DEF TypeInv, TypeOK, Addrs
    <2>2. table[i][a].mod \in Nat /\ Behind(i, table[i][a].mod)
      BY Zenon, <1>1, <2>1 DEF RollbackAt, Entries
    <2>3. \A m \in Nat : Behind(i, m) => Behind(i, m)'
      BY Zenon, <1>1
    <2> QED
      BY Zenon, <2>2, <2>3 DEF Behind
  <1> QED
    BY Zenon, <1>1 DEF RollbackAt

\* A watch loop: the header of a message is stored before its events are
\* applied, and the next start_revision is beyond the stored revision.
LEMMA RollbackLoop ==
  ASSUME TypeInv, NEW i \in Instances, NEW w \in Watchers, RollbackAt(i), Loop(i, w)
  PROVE  RollbackAt(i)'
  <1>0. /\ Len(hist) \in Nat
        /\ gEtcdRevision[i] \in Nat
        /\ \A x \in Watchers : /\ start[i][x] \in Nat /\ upto[i][x] \in Nat
                              /\ hdr[i][x] \in Nat /\ pos[i][x] \in Nat
        /\ \A a \in IPs : table[i][a] # NoEntry => table[i][a].mod \in Nat
        /\ pc[i] = "run"
        /\ "ip" \in Watchers
    <2>1. pc[i] = "run"
      BY ZenonT(30)
         DEF TypeInv, LoopOK, LoopAt, Loop, readRevision, connect, sendEvents,
         readHeader, updateRevision, applyEvent, At
    <2>2. ASSUME NEW a \in IPs, table[i][a] # NoEntry
          PROVE  table[i][a].mod \in Nat
      <3>1. table[i][a] \in Entries
        BY Zenon, <2>2, Ranges DEF Addrs
      <3> QED
        BY Zenon, <3>1 DEF Entries
    <2> QED
      BY Zenon, <2>1, <2>2, Ranges DEF Watchers
  <1>1. CASE readRevision(i, w)
    <2>1. /\ \A x \in Watchers : wpc'[i][x] = IF x = w THEN "dial" ELSE wpc[i][x]
          /\ \A x \in Watchers : x # w => start'[i][x] = start[i][x]
          /\ start'[i][w] = IF gEtcdRevision[i] > 0 THEN gEtcdRevision[i] + 1
                                                   ELSE 0
          /\ wpc[i][w] = "idle"
          /\ UNCHANGED <<pc, gEtcdRevision, table, upto, hdr, pos, rewound>>
      BY Zenon, <1>1 DEF readRevision, At, TypeInv, TypeOK
    <2>2. ASSUME NEW m \in Nat, Behind(i, m)
          PROVE  Behind(i, m)'
      <3>1. 0 < m /\ m <= gEtcdRevision[i] => m < start'[i][w]
        BY <1>0, <2>1
      <3> QED
        BY ZenonT(30), <1>0, <2>1, <2>2, <3>1 DEF Behind
    <2>3. /\ \A x \in Watchers :
               wpc'[i][x] \in {"msg", "store"} => upto'[i][x] <= hdr'[i][x]
          /\ ~rewound'[i] => \A x \in Watchers :
               wpc'[i][x] = "apply" => upto'[i][x] <= gEtcdRevision'[i]
      BY Zenon, <2>1 DEF RollbackAt
    <2> QED
      BY Zenon, <1>0, <2>1, <2>2, <2>3, RollbackIntro
  <1>2. CASE connect(i, w)
    <2>1. /\ wpc[i][w] = "dial"
          /\ \A x \in Watchers : wpc'[i][x] = IF x = w THEN "msg" ELSE wpc[i][x]
          /\ \A x \in Watchers : x # w => /\ start'[i][x] = start[i][x]
                                         /\ pos'[i][x] = pos[i][x]
                                         /\ upto'[i][x] = upto[i][x]
                                         /\ hdr'[i][x] = hdr[i][x]
          /\ UNCHANGED <<pc, gEtcdRevision, table, rewound>>
      BY Zenon, <1>2 DEF connect, At, TypeInv, TypeOK
    <2>2. /\ pos'[i][w] = IF start[i][w] = 0 THEN Len(hist) ELSE start[i][w] - 1
          /\ upto'[i][w] = pos'[i][w] /\ hdr'[i][w] = Len(hist)
      BY Zenon, <1>2 DEF connect, TypeInv, TypeOK
    <2>3. pos'[i][w] <= Len(hist)
      <3>1. start[i][w] \in 0..(Len(hist) + 1)
        BY Zenon, Ranges
      <3> QED
        BY <1>0, <2>2, <3>1
    <2>4. \A m \in Nat : m < start[i][w] => m <= pos'[i][w]
      BY <1>0, <2>2
    <2>5. ASSUME NEW m \in Nat, Behind(i, m)
          PROVE  Behind(i, m)'
      BY Zenon, <1>0, <2>1, <2>4, <2>5 DEF Behind
    <2>6. /\ \A x \in Watchers :
               wpc'[i][x] \in {"msg", "store"} => upto'[i][x] <= hdr'[i][x]
          /\ ~rewound'[i] => \A x \in Watchers :
               wpc'[i][x] = "apply" => upto'[i][x] <= gEtcdRevision'[i]
      BY <1>0, <2>1, <2>2, <2>3, ZenonT(30) DEF RollbackAt
    <2> QED
      BY Zenon, <1>0, <2>1, <2>5, <2>6, RollbackIntro
  <1>3. CASE sendEvents(i, w)
    <2>1. PICK h \in (pos[i][w] + 1)..Len(hist) : \E u \in (pos[i][w] + 1)..h :
            /\ upto' = [upto EXCEPT ![i][w] = u]
            /\ hdr'  = [hdr  EXCEPT ![i][w] = h]
      BY <1>3, ZenonT(30) DEF sendEvents
    <2>2. /\ upto'[i][w] <= hdr'[i][w]
          /\ \A x \in Watchers : x # w => /\ upto'[i][x] = upto[i][x]
                                         /\ hdr'[i][x] = hdr[i][x]
      BY <2>1 DEF TypeInv, TypeOK
    <2>3. /\ wpc[i][w] = "scan"
          /\ \A x \in Watchers : wpc'[i][x] = IF x = w THEN "msg" ELSE wpc[i][x]
          /\ UNCHANGED <<pc, gEtcdRevision, table, start, pos, rewound>>
      BY <1>3, ZenonT(30) DEF sendEvents, At, TypeInv, TypeOK
    <2>4. ASSUME NEW m \in Nat, Behind(i, m)
          PROVE  Behind(i, m)'
      BY Zenon, <1>0, <2>3, <2>4 DEF Behind
    <2>5. /\ \A x \in Watchers :
               wpc'[i][x] \in {"msg", "store"} => upto'[i][x] <= hdr'[i][x]
          /\ ~rewound'[i] => \A x \in Watchers :
               wpc'[i][x] = "apply" => upto'[i][x] <= gEtcdRevision'[i]
      BY Zenon, <2>2, <2>3 DEF RollbackAt
    <2> QED
      BY Zenon, <1>0, <2>3, <2>4, <2>5, RollbackIntro
  <1>4. CASE readHeader(i, w)
    <2>1. /\ wpc[i][w] = "msg"
          /\ \A x \in Watchers : x # w => /\ wpc'[i][x] = wpc[i][x]
                                         /\ hdr'[i][x] = hdr[i][x]
          /\ UNCHANGED <<pc, gEtcdRevision, table, start, upto, pos, rewound>>
      <3>1. /\ wpc[i][w] = "msg"
            /\ UNCHANGED <<pc, gEtcdRevision, table, start, upto, pos, rewound>>
        BY Zenon, <1>4 DEF readHeader, At
      <3>2. PICK to : wpc' = [wpc EXCEPT ![i][w] = to]
        BY Zenon, <1>4 DEF readHeader, At
      <3>3. hdr' = hdr \/ hdr' = [hdr EXCEPT ![i][w] = 0]
        BY Zenon, <1>4 DEF readHeader, ForgetHeader
      <3>4. PICK X : wpc \in [Instances -> [Watchers -> X]]
        BY Zenon DEF TypeInv, TypeOK
      <3>5. PICK Y : hdr \in [Instances -> [Watchers -> Y]]
        BY Zenon DEF TypeInv, TypeOK
      <3>6. \A x \in Watchers : x # w => wpc'[i][x] = wpc[i][x]
        BY Zenon, <3>2, <3>4
      <3>7. \A x \in Watchers : x # w => hdr'[i][x] = hdr[i][x]
        BY Zenon, <3>3, <3>5
      <3> QED
        BY Zenon, <3>1, <3>6, <3>7
    <2>2. CASE hdr[i][w] > gEtcdRevision[i]
      <3>1. wpc'[i][w] = "store" /\ hdr' = hdr
        BY <1>4, <2>2 DEF readHeader, At, TypeInv, TypeOK
      <3>2. ASSUME NEW m \in Nat, Behind(i, m)
            PROVE  Behind(i, m)'
        BY Zenon, <1>0, <2>1, <3>1, <3>2 DEF Behind
      <3>3. /\ \A x \in Watchers :
                 wpc'[i][x] \in {"msg", "store"} => upto'[i][x] <= hdr'[i][x]
            /\ ~rewound'[i] => \A x \in Watchers :
                 wpc'[i][x] = "apply" => upto'[i][x] <= gEtcdRevision'[i]
        BY Zenon, <2>1, <3>1 DEF RollbackAt
      <3> QED
        BY Zenon, <1>0, <2>1, <3>2, <3>3, RollbackIntro
    <2>3. CASE ~(hdr[i][w] > gEtcdRevision[i])
      <3>1. wpc'[i][w] \in {"scan", "apply"}
        <4>1. wpc' = [wpc EXCEPT ![i][w] = AfterHeader(i, w)]
          BY Zenon, <1>4, <2>3 DEF readHeader, At
        <4>2. \E X : wpc \in [Instances -> [Watchers -> X]]
          BY Zenon DEF TypeInv, TypeOK
        <4>3. wpc'[i][w] = AfterHeader(i, w)
          BY Zenon, <4>1, <4>2
        <4> QED
          BY Zenon, <4>3 DEF AfterHeader
      <3>2. upto[i][w] <= gEtcdRevision[i]
        <4>1. upto[i][w] <= hdr[i][w]
          BY Zenon, <2>1 DEF RollbackAt
        <4> QED
          BY <1>0, <2>3, <4>1
      <3>3. ASSUME NEW m \in Nat, Behind(i, m)
            PROVE  Behind(i, m)'
        BY Zenon, <1>0, <2>1, <3>1, <3>3 DEF Behind
      <3>4. /\ \A x \in Watchers :
                 wpc'[i][x] \in {"msg", "store"} => upto'[i][x] <= hdr'[i][x]
            /\ ~rewound'[i] => \A x \in Watchers :
                 wpc'[i][x] = "apply" => upto'[i][x] <= gEtcdRevision'[i]
        BY Zenon, <2>1, <3>1, <3>2 DEF RollbackAt
      <3> QED
        BY Zenon, <1>0, <2>1, <3>3, <3>4, RollbackIntro
    <2> QED
      BY Zenon, <2>2, <2>3
  <1>5. CASE updateRevision(i, w)
    <2>1. /\ wpc[i][w] = "store"
          /\ wpc'[i][w] \in {"scan", "apply"}
          /\ \A x \in Watchers : x # w => /\ wpc'[i][x] = wpc[i][x]
                                         /\ hdr'[i][x] = hdr[i][x]
          /\ UNCHANGED <<pc, table, start, upto, pos>>
      BY ZenonT(30), <1>5
         DEF updateRevision, At, AfterHeader, ForgetHeader, TypeInv, TypeOK
    <2>2. /\ gEtcdRevision'[i] = hdr[i][w]
          /\ ~rewound'[i] => ~rewound[i] /\ gEtcdRevision[i] <= hdr[i][w]
      <3>1. /\ gEtcdRevision'[i] = hdr[i][w]
            /\ rewound'[i] = (rewound[i] \/ hdr[i][w] < gEtcdRevision[i])
        BY Zenon, <1>5 DEF updateRevision, TypeInv, TypeOK
      <3>2. ~rewound'[i] => ~rewound[i] /\ ~(hdr[i][w] < gEtcdRevision[i])
        BY Zenon, <3>1
      <3> QED
        BY <1>0, <3>1, <3>2
    <2>3. upto[i][w] <= hdr[i][w]
      BY Zenon, <2>1 DEF RollbackAt
    <2>4. ~rewound'[i] => \A m \in Nat : m <= gEtcdRevision[i] => m <= gEtcdRevision'[i]
      BY <1>0, <2>2
    <2>5. ASSUME NEW m \in Nat, Behind(i, m), ~rewound'[i]
          PROVE  Behind(i, m)'
      BY Zenon, <1>0, <2>1, <2>4, <2>5 DEF Behind
    <2>6. /\ \A x \in Watchers :
               wpc'[i][x] \in {"msg", "store"} => upto'[i][x] <= hdr'[i][x]
          /\ ~rewound'[i] => \A x \in Watchers :
               wpc'[i][x] = "apply" => upto'[i][x] <= gEtcdRevision'[i]
      <3>1. ASSUME NEW x \in Watchers, wpc'[i][x] \in {"msg", "store"}
            PROVE  upto'[i][x] <= hdr'[i][x]
        BY Zenon, <2>1, <3>1 DEF RollbackAt
      <3>2. ASSUME NEW x \in Watchers, wpc'[i][x] = "apply", ~rewound'[i]
            PROVE  upto'[i][x] <= gEtcdRevision'[i]
        <4>1. CASE x = w
          BY Zenon, <2>1, <2>2, <2>3, <4>1
        <4>2. CASE x # w
          <5>1. upto[i][x] <= gEtcdRevision[i]
            BY Zenon, <2>1, <2>2, <3>2, <4>2 DEF RollbackAt
          <5> QED
            BY Zenon, <1>0, <2>1, <2>4, <3>2, <5>1
        <4> QED
          BY Zenon, <4>1, <4>2
      <3> QED
        BY Zenon, <3>1, <3>2
    <2> QED
      BY Zenon, <1>0, <2>1, <2>2, <2>5, <2>6, RollbackIntro
  <1>6. CASE applyEvent(i, w)
    <2> DEFINE r == pos[i][w] + 1
    <2>1. /\ wpc[i][w] = "apply"
          /\ wpc'[i][w] \in {"scan", "apply"}
          /\ \A x \in Watchers : x # w => /\ wpc'[i][x] = wpc[i][x]
                                         /\ pos'[i][x] = pos[i][x]
          /\ pos'[i][w] = r
          /\ UNCHANGED <<pc, gEtcdRevision, start, upto, hdr, rewound>>
      BY Zenon, <1>6 DEF applyEvent, At, TypeInv, TypeOK
    <2>2. r \in Nat /\ pos[i][w] < r /\ 0 < r /\ r <= upto[i][w]
      <3>1. LoopAt(i, w)
        BY Zenon DEF TypeInv, LoopOK
      <3>2. pos[i][w] < upto[i][w]
        BY Zenon, <2>1, <3>1 DEF LoopAt
      <3>3. pos[i][w] \in Nat /\ upto[i][w] \in Nat
        BY Zenon, <1>0
      <3> QED
        BY <3>2, <3>3
    <2>3. ASSUME NEW a \in IPs
          PROVE  \/ table'[i][a] = table[i][a]
                 \/ w = "ip" /\ (table'[i][a] # NoEntry => table'[i][a].mod = r)
      <3>1. CASE table' = table
        BY Zenon, <3>1
      <3>2. CASE table' # table
        <4>1. PICK b \in Owned(w) :
                table' = [table EXCEPT ![i][b] = Entry(b, hist[r].val, r)]
          <5> DEFINE c == hist[r].key.id
          <5>1. /\ c \in Owned(w)
                /\ table' = [table EXCEPT ![i][c] = Entry(c, hist[r].val, r)]
            BY Zenon, <1>6, <3>2, ApplyWritten
          <5> HIDE DEF c
          <5> QED
            BY Zenon, <5>1
        <4>2. CASE a = b
          <5>1. w = "ip" /\ a \in Addrs
            BY Zenon, <4>2, EtcdAssumption DEF Owned, Watchers, Addrs
          <5>2. table'[i][a] = Entry(a, hist[r].val, r)
            BY Zenon, <4>1, <4>2, <5>1 DEF TypeInv, TypeOK
          <5> QED
            BY <5>1, <5>2 DEF Entry
        <4>3. CASE a # b
          BY ZenonT(30), <4>1, <4>3 DEF TypeInv, TypeOK, Addrs
        <4> QED
          BY Zenon, <4>2, <4>3
      <3> QED
        BY Zenon, <3>1, <3>2
    <2> HIDE DEF r
    <2>4. ASSUME NEW a \in IPs, table'[i][a] # NoEntry, ~rewound[i]
          PROVE  Behind(i, table[i][a].mod)'
      <3>1. upto[i][w] <= gEtcdRevision[i]
        BY Zenon, <2>1, <2>4 DEF RollbackAt
      <3>2. CASE w = "ip" /\ table'[i][a].mod = r
        BY <1>0, <2>1, <2>2, <3>1, <3>2 DEF Behind
      <3>3. CASE table'[i][a] = table[i][a]
        <4>1. Behind(i, table[i][a].mod) /\ table[i][a].mod \in Nat
          BY Zenon, <1>0, <2>4, <3>3 DEF RollbackAt
        <4>2. CASE w = "ip"
          <5>1. \A m \in Nat : m <= pos[i]["ip"] => m <= pos'[i]["ip"]
            BY <1>0, <2>1, <2>2, <4>2
          <5> QED
            BY Zenon, <1>0, <2>1, <3>3, <4>1, <4>2, <5>1 DEF Behind
        <4>3. CASE w # "ip"
          BY Zenon, <1>0, <2>1, <3>3, <4>1, <4>3 DEF Behind
        <4> QED
          BY Zenon, <4>2, <4>3
      <3> QED
        BY Zenon, <2>3, <2>4, <3>2, <3>3
    <2>5. /\ \A x \in Watchers :
               wpc'[i][x] \in {"msg", "store"} => upto'[i][x] <= hdr'[i][x]
          /\ ~rewound'[i] => \A x \in Watchers :
               wpc'[i][x] = "apply" => upto'[i][x] <= gEtcdRevision'[i]
      BY Zenon, <2>1 DEF RollbackAt
    <2> QED
      BY <1>0, <2>1, <2>4, <2>5, ZenonT(30) DEF RollbackAt
  <1> QED
    BY Zenon, <1>1, <1>2, <1>3, <1>4, <1>5, <1>6 DEF Loop

\* Disturbances lose entries and positions, they never move one forward.
LEMMA RollbackDisturb ==
  ASSUME TypeInv, NEW i \in Instances, RollbackAt(i),
         Disturb(i) \/ \E a \in Addrs : evict(i, a)
  PROVE  RollbackAt(i)'
  <1>1. CASE crash(i)
    <2>1. /\ \A a \in IPs : table'[i][a] = NoEntry
          /\ \A w \in Watchers : wpc'[i][w] = "off"
      BY Zenon, <1>1 DEF crash, Addrs, TypeInv, TypeOK
    <2> QED
      BY <2>1, ZenonT(30) DEF RollbackAt
  <1>2. ASSUME NEW w \in Watchers, connectFails(i, w) \/ closed(i, w)
        PROVE  RollbackAt(i)'
    <2>1. /\ \A x \in Watchers : wpc'[i][x] = IF x = w THEN "idle" ELSE wpc[i][x]
          /\ \A x \in Watchers : x # w => /\ upto'[i][x] = upto[i][x]
                                         /\ hdr'[i][x] = hdr[i][x]
          /\ UNCHANGED <<pc, gEtcdRevision, table, start, pos, rewound>>
      <3>1. CASE connectFails(i, w)
        BY Zenon, <3>1 DEF connectFails, At, TypeInv, TypeOK
      <3>2. CASE closed(i, w)
        BY Zenon, <3>2 DEF closed, ForgetHeader, TypeInv, TypeOK
      <3> QED
        BY Zenon, <1>2, <3>1, <3>2
    <2>2. pc[i] = "run" /\ "ip" \in Watchers
      BY Zenon, <1>2
         DEF TypeInv, LoopOK, LoopAt, connectFails, closed, At, Watchers
    <2>3. ASSUME NEW m \in Nat, Behind(i, m)
          PROVE  Behind(i, m)'
      BY Zenon, <2>1, <2>2, <2>3 DEF Behind
    <2>4. /\ \A x \in Watchers :
               wpc'[i][x] \in {"msg", "store"} => upto'[i][x] <= hdr'[i][x]
          /\ ~rewound'[i] => \A x \in Watchers :
               wpc'[i][x] = "apply" => upto'[i][x] <= gEtcdRevision'[i]
      BY Zenon, <2>1 DEF RollbackAt
    <2> QED
      BY Zenon, <2>1, <2>2, <2>3, <2>4, RollbackIntro
  <1>3. ASSUME NEW b \in Addrs, evict(i, b)
        PROVE  RollbackAt(i)'
    <2>1. /\ \A a \in IPs : table'[i][a] = NoEntry \/ table'[i][a] = table[i][a]
          /\ UNCHANGED <<pc, gEtcdRevision, loopVars, rewound>>
      BY <1>3 DEF evict, Addrs, TypeInv, TypeOK
    <2> QED
      BY Zenon, <2>1 DEF RollbackAt, Behind, loopVars
  <1> QED
    BY Zenon, <1>1, <1>2, <1>3 DEF Disturb

\* RollbackInv is inductive relative to TypeInv.
LEMMA RollbackNext ==
  ASSUME TypeInv, RollbackInv, [Next]_vars
  PROVE  RollbackInv'
  <1> SUFFICES ASSUME NEW j \in Instances
               PROVE  RollbackAt(j)'
    BY Zenon DEF RollbackInv
  <1>0. RollbackAt(j)
    BY Zenon DEF RollbackInv
  <1>1. CASE Store \/ UNCHANGED vars
    <2>1. SameFor(j)
      BY <1>1, StoreAppends, ZenonT(30) DEF vars, loopVars, SameFor
    <2> QED
      BY Zenon, <1>0, <2>1, RollbackFrame
  <1>2. ASSUME NEW i \in Instances,
               \/ Main(i)
               \/ \E w \in Watchers : Loop(i, w)
               \/ Disturb(i)
               \/ \E a \in Addrs : evict(i, a)
        PROVE  RollbackAt(j)'
    <2>1. CASE j = i
      BY Zenon, <1>0, <1>2, <2>1, RollbackMain, RollbackLoop, RollbackDisturb
    <2>2. CASE j # i
      BY Zenon, <1>0, <1>2, <2>2, OneInstance, RollbackFrame
    <2> QED
      BY Zenon, <2>1, <2>2
  <1> QED
    BY Zenon, <1>1, <1>2 DEF Next

\* The entry that applyEvent keeps for an address has the event's ModRevision.
LEMMA EntryRevision ==
  ASSUME NEW a \in IPs, NEW v, NEW r, NEW e, e = Entry(a, v, r), e # NoEntry
  PROVE  e.mod = r
  <1>1. v # NoEntry
    BY Zenon DEF Entry
  <1>2. e = [val |-> v, mod |-> r]
    BY Zenon, <1>1 DEF Entry
  <1> QED
    BY <1>2

\* A step that lowers the ModRevision of an entry follows a rewound revision.
LEMMA RollbackStep ==
  ASSUME TypeInv, RollbackInv, Next, NEW j \in Instances, NEW a \in IPs,
         RollsBack(j, a)
  PROVE  rewound[j]
  <1>0. /\ table[j][a] # NoEntry /\ table'[j][a] # NoEntry
        /\ table'[j][a].mod < table[j][a].mod
        /\ table[j][a].mod \in Nat /\ a \in Addrs
    <2>1. table[j][a] \in Entries /\ a \in Addrs
      BY Zenon, Ranges DEF RollsBack, Addrs
    <2> QED
      BY Zenon, <2>1 DEF RollsBack, Entries
  <1>1. CASE table'[j][a] = table[j][a]
    <2>1. \A m \in Nat : ~(m < m)
      OBVIOUS
    <2> QED
      BY Zenon, <1>0, <1>1, <2>1
  <1>2. CASE loadFromEtcd(j) \/ loadGarbled(j, "ip")
    <2>1. pc[j] = "loadIP"
      BY Zenon, <1>2 DEF loadFromEtcd, loadGarbled, Goto
    <2> QED
      BY Zenon, <1>0, <2>1 DEF RollbackInv, RollbackAt
  <1>3. ASSUME NEW w \in Watchers, applyEvent(j, w), table'[j][a] # table[j][a],
               ~rewound[j]
        PROVE  FALSE
    <2> DEFINE r == pos[j][w] + 1
    <2>1. PICK b \in Owned(w) :
            table' = [table EXCEPT ![j][b] = Entry(b, hist[r].val, r)]
      <3> DEFINE c == hist[r].key.id
      <3>0. table' # table
        BY Zenon, <1>3
      <3>1. /\ c \in Owned(w)
            /\ table' = [table EXCEPT ![j][c] = Entry(c, hist[r].val, r)]
        BY Zenon, <1>3, <3>0, ApplyWritten
      <3> HIDE DEF c
      <3> QED
        BY Zenon, <3>1
    <2>2. a = b
      BY Zenon, <1>0, <1>3, <2>1 DEF TypeInv, TypeOK
    <2>3. w = "ip"
      BY Zenon, <2>2, EtcdAssumption DEF Owned, Watchers
    <2>4. table'[j][a] = Entry(a, hist[r].val, r)
      BY Zenon, <1>0, <2>1, <2>2 DEF TypeInv, TypeOK
    <2>5. table'[j][a].mod = r
      <3>1. table'[j][a] # NoEntry
        BY Zenon, <1>0
      <3> HIDE DEF r
      <3> QED
        BY Zenon, <2>4, <3>1, EntryRevision
    <2>6. wpc[j]["ip"] = "apply" /\ pos[j]["ip"] \in Nat
      BY Zenon, <1>3, <2>3, Ranges DEF applyEvent, At
    <2>7. table[j][a].mod <= pos[j]["ip"]
      BY Zenon, <1>0, <1>3, <2>6 DEF RollbackInv, RollbackAt, Behind
    <2>8. table'[j][a].mod = pos[j]["ip"] + 1
      BY Zenon, <2>3, <2>5
    <2> HIDE DEF r
    <2> QED
      BY <1>0, <2>6, <2>7, <2>8
  <1>4. CASE Store
    BY Zenon, <1>1, <1>4, StoreAppends
  <1>5. ASSUME NEW i \in Instances, i # j,
               \/ Main(i)
               \/ \E w \in Watchers : Loop(i, w)
               \/ Disturb(i)
               \/ \E c \in Addrs : evict(i, c)
        PROVE  rewound[j]
    <2>1. table'[j] = table[j]
      BY Zenon, <1>5, OneInstance DEF SameFor
    <2> QED
      BY Zenon, <1>1, <2>1
  <1>6. CASE Main(j)
    <2>1. CASE waitForEtcd(j) \/ startWatchers(j)
      BY Zenon, <1>1, <2>1 DEF waitForEtcd, startWatchers
    <2>2. CASE loadCIDRFromEtcd(j) \/ loadGarbled(j, "cidr")
      <3>1. PICK e : Load(j, "cidr", e)
        BY Zenon, <2>2 DEF loadCIDRFromEtcd, loadGarbled
      <3>2. table'[j][a] = table[j][a]
        BY Zenon, <1>0, <3>1, EtcdAssumption DEF Load, Owned, TypeInv, TypeOK
      <3> QED
        BY Zenon, <1>1, <3>2
    <2> QED
      BY Zenon, <1>2, <1>6, <2>1, <2>2 DEF Main, Watchers
  <1>7. ASSUME NEW w \in Watchers, Loop(j, w)
        PROVE  rewound[j]
    BY Zenon, <1>1, <1>3, <1>7
       DEF Loop, readRevision, connect, sendEvents, readHeader,
       updateRevision
  <1>8. CASE Disturb(j) \/ \E c \in Addrs : evict(j, c)
    <2>1. table'[j][a] = NoEntry \/ table'[j][a] = table[j][a]
      <3>1. CASE crash(j)
        BY Zenon, <1>0, <3>1 DEF crash, Addrs, TypeInv, TypeOK
      <3>2. CASE \E w \in Watchers : connectFails(j, w) \/ closed(j, w)
        BY Zenon, <3>2 DEF connectFails, closed
      <3>3. CASE \E c \in Addrs : evict(j, c)
        BY <1>0, <3>3 DEF evict, TypeInv, TypeOK
      <3> QED
        BY Zenon, <1>8, <3>1, <3>2, <3>3 DEF Disturb
    <2> QED
      BY Zenon, <1>0, <1>1, <2>1
  <1> QED
    BY Zenon, <1>4, <1>5, <1>6, <1>7, <1>8 DEF Next

\* However often watchLoop reconnects and whatever it is sent again, an entry
\* in memory is never replaced by an older one, as long as updateRevision never
\* stored a lower revision over a higher one.
THEOREM RollbackCorrect == Spec => NoSilentRollback
  <1>1. Init => TypeInv /\ RollbackInv
    <2>1. ASSUME Init, NEW i \in Instances
          PROVE  RollbackAt(i)
      <3>1. /\ \A a \in IPs : table[i][a] = NoEntry
            /\ \A w \in Watchers : wpc[i][w] = "off"
        BY Zenon, <2>1 DEF Init, Addrs
      <3> QED
        BY Zenon, <3>1 DEF RollbackAt
    <2> QED
      BY Zenon, <2>1, TypeInit DEF RollbackInv
  <1>2. TypeInv /\ RollbackInv /\ [Next]_vars => (TypeInv /\ RollbackInv)'
    BY Zenon, TypeNext, RollbackNext
  <1>3. TypeInv /\ RollbackInv /\ [Next]_vars =>
          [\A i \in Instances : \A a \in IPs : RollsBack(i, a) => rewound[i]]_vars
    BY Zenon, RollbackStep
  <1> QED
    BY <1>1, <1>2, <1>3, PTL DEF Spec, NoSilentRollback
=============================================================================
