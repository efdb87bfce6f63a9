----------------------------- MODULE CidrProofs -----------------------------
(***************************************************************************)
(* Proofs about module CidrTable, for every set of networks and every      *)
(* bound on time.                                                          *)
(***************************************************************************)
EXTENDS CidrTable, WellFoundedInduction, TLAPS

\* IndexOf finds a network wherever it is, and only there.
LEMMA IndexOfFinds ==
  ASSUME NEW s \in Seq(CIDREntry), NEW c,
         \A j, k \in DOMAIN s : s[j].cidr = s[k].cidr => j = k
  PROVE  /\ IndexOf(s, c) = 0 <=> \A k \in DOMAIN s : s[k].cidr # c
         /\ \A k \in DOMAIN s : s[k].cidr = c => IndexOf(s, c) = k
  <1>1. \A k \in DOMAIN s : k # 0 /\ k \in Nat
    OBVIOUS
  <1>2. CASE \A k \in DOMAIN s : s[k].cidr # c
    BY <1>2 DEF IndexOf
  <1>3. ASSUME NEW k \in DOMAIN s, s[k].cidr = c
        PROVE  IndexOf(s, c) = k
    <2>1. \A j \in 1..(k - 1) : j \in DOMAIN s /\ j # k
      OBVIOUS
    <2>2. \A j \in 1..(k - 1) : s[j].cidr # c
      BY <1>3, <2>1
    <2> QED
      BY <1>3, <2>2 DEF IndexOf
  <1> QED
    BY <1>1, <1>2, <1>3

\* What findByCIDR would answer on slice s.
Found(s, c) == IF IndexOf(s, c) = 0 THEN NoBlock ELSE s[IndexOf(s, c)].exp

\* The answer is decided by the entry of the network, wherever it stands.
LEMMA FoundIs ==
  ASSUME NEW s \in Seq(CIDREntry), NEW c,
         \A j, k \in DOMAIN s : s[j].cidr = s[k].cidr => j = k
  PROVE  /\ (\A k \in DOMAIN s : s[k].cidr # c) => Found(s, c) = NoBlock
         /\ \A k \in DOMAIN s : s[k].cidr = c => Found(s, c) = s[k].exp
  BY IndexOfFinds DEF Found

\* upsert keeps the slice free of duplicates and changes one network.
LEMMA UpsertStep ==
  ASSUME Unique, NEW e \in CIDREntry, upsert(e)
  PROVE  /\ Unique'
         /\ \A c \in Nets : Found(entries', c) =
              IF c = e.cidr THEN e.exp ELSE Found(entries, c)
  <1> DEFINE i == IndexOf(entries, e.cidr)
  <1>0. /\ entries \in Seq(CIDREntry)
        /\ \A j, k \in DOMAIN entries : entries[j].cidr = entries[k].cidr => j = k
    BY DEF Unique
  <1>1. CASE \E k \in DOMAIN entries : entries[k].cidr = e.cidr
    <2>1. PICK k \in DOMAIN entries : entries[k].cidr = e.cidr
      BY <1>1
    <2>2. i = k /\ k # 0
      BY <1>0, <2>1, IndexOfFinds
    <2>3. entries' = [entries EXCEPT ![k] = e]
      BY <2>2 DEF upsert
    <2>4. /\ entries' \in Seq(CIDREntry) /\ DOMAIN entries' = DOMAIN entries
          /\ entries'[k] = e
          /\ \A j \in DOMAIN entries : j # k => entries'[j] = entries[j]
      BY <1>0, <2>3
    <2>5. \A j, l \in DOMAIN entries' : entries'[j].cidr = entries'[l].cidr => j = l
      BY <1>0, <2>1, <2>4
    <2>6. ASSUME NEW c \in Nets
          PROVE  Found(entries', c) = IF c = e.cidr THEN e.exp
                                                    ELSE Found(entries, c)
      <3>1. CASE c = e.cidr
        BY <2>4, <2>5, <3>1, FoundIs
      <3>2. CASE c # e.cidr /\ \E j \in DOMAIN entries : entries[j].cidr = c
        <4>1. PICK j \in DOMAIN entries : entries[j].cidr = c
          BY <3>2
        <4>2. j # k /\ entries'[j] = entries[j] /\ j \in DOMAIN entries'
          BY <2>1, <2>4, <3>2, <4>1
        <4> QED
          BY <1>0, <2>4, <2>5, <3>2, <4>1, <4>2, FoundIs
      <3>3. CASE c # e.cidr /\ \A j \in DOMAIN entries : entries[j].cidr # c
        <4>1. \A j \in DOMAIN entries' : entries'[j].cidr # c
          BY <2>4, <3>3
        <4> QED
          BY <1>0, <2>4, <2>5, <3>3, <4>1, FoundIs
      <3> QED
        BY <3>1, <3>2, <3>3
    <2> QED
      BY <2>4, <2>5, <2>6 DEF Unique
  <1>2. CASE \A k \in DOMAIN entries : entries[k].cidr # e.cidr
    <2>1. entries' = Append(entries, e)
      BY <1>0, <1>2, IndexOfFinds DEF upsert
    <2>2. /\ entries' \in Seq(CIDREntry) /\ Len(entries) \in Nat
          /\ DOMAIN entries = 1..Len(entries)
          /\ DOMAIN entries' = 1..(Len(entries) + 1)
          /\ entries'[Len(entries) + 1] = e
          /\ \A j \in DOMAIN entries : entries'[j] = entries[j]
      BY <1>0, <2>1
    <2>3. \A j \in DOMAIN entries' : j \in DOMAIN entries \/ j = Len(entries) + 1
      BY <2>2
    <2>4. \A j, l \in DOMAIN entries' : entries'[j].cidr = entries'[l].cidr => j = l
      BY <1>0, <1>2, <2>2, <2>3
    <2>5. ASSUME NEW c \in Nets
          PROVE  Found(entries', c) = IF c = e.cidr THEN e.exp
                                                    ELSE Found(entries, c)
      <3>1. CASE c = e.cidr
        <4>1. Len(entries) + 1 \in DOMAIN entries'
          BY <2>2
        <4> QED
          BY <2>2, <2>4, <3>1, <4>1, FoundIs
      <3>2. CASE c # e.cidr /\ \E j \in DOMAIN entries : entries[j].cidr = c
        <4>1. PICK j \in DOMAIN entries : entries[j].cidr = c
          BY <3>2
        <4>2. j \in DOMAIN entries' /\ entries'[j] = entries[j]
          BY <2>2, <4>1
        <4>3. Found(entries, c) = entries[j].exp
          BY <1>0, <4>1, FoundIs
        <4>4. Found(entries', c) = entries'[j].exp
          BY <2>2, <2>4, <4>1, <4>2, FoundIs
        <4> QED
          BY <3>2, <4>2, <4>3, <4>4
      <3>3. CASE c # e.cidr /\ \A j \in DOMAIN entries : entries[j].cidr # c
        <4>1. \A j \in DOMAIN entries' : entries'[j].cidr # c
          BY <2>2, <2>3, <3>3
        <4>2. Found(entries, c) = NoBlock
          BY <1>0, <3>3, FoundIs
        <4>3. Found(entries', c) = NoBlock
          BY <2>2, <2>4, <4>1, FoundIs
        <4> QED
          BY <3>3, <4>2, <4>3
      <3> QED
        BY <3>1, <3>2, <3>3
    <2> QED
      BY <2>2, <2>4, <2>5 DEF Unique
  <1> QED
    BY <1>1, <1>2

\* remove takes the network out, keeps the slice free of duplicates and changes
\* no other network, although the last entry moves.
LEMMA RemoveStep ==
  ASSUME Unique, NEW d \in Nets, remove(d)
  PROVE  /\ Unique'
         /\ \A c \in Nets : Found(entries', c) =
              IF c = d THEN NoBlock ELSE Found(entries, c)
  <1> DEFINE i == IndexOf(entries, d)
             n == Len(entries)
             m == [entries EXCEPT ![i] = entries[n]]
  <1>0. /\ entries \in Seq(CIDREntry) /\ n \in Nat /\ DOMAIN entries = 1..n
        /\ \A j, k \in DOMAIN entries : entries[j].cidr = entries[k].cidr => j = k
    BY DEF Unique
  <1>1. i \in 1..n /\ entries[i].cidr = d
    <2>1. PICK k \in DOMAIN entries : entries[k].cidr = d
      BY <1>0, IndexOfFinds, SMTT(30) DEF remove
    <2> QED
      BY <1>0, <2>1, IndexOfFinds
  <1>2. entries' = SubSeq(m, 1, n - 1)
    BY DEF remove
  <1> HIDE DEF i
  <1>3. /\ m \in Seq(CIDREntry) /\ Len(m) = n
        /\ \A j \in 1..n : m[j] = IF j = i THEN entries[n] ELSE entries[j]
    BY <1>0, <1>1
  <1> HIDE DEF m
  <1>4. /\ entries' \in Seq(CIDREntry) /\ DOMAIN entries' = 1..(n - 1)
        /\ \A j \in 1..(n - 1) : entries'[j] = m[j]
    BY <1>0, <1>1, <1>2, <1>3
  <1>5. \A j \in 1..(n - 1) : entries'[j] = IF j = i THEN entries[n] ELSE entries[j]
    BY <1>0, <1>3, <1>4
  <1> HIDE DEF n
  <1>6. \A j \in 1..(n - 1) : j \in 1..n /\ j # n
    BY <1>0
  <1>7. n \in 1..n
    BY <1>0, <1>1
  <1>8. \A j, l \in DOMAIN entries' : entries'[j].cidr = entries'[l].cidr => j = l
    BY <1>0, <1>1, <1>4, <1>5, <1>6, <1>7
  <1>9. ASSUME NEW c \in Nets
        PROVE  Found(entries', c) = IF c = d THEN NoBlock ELSE Found(entries, c)
    <2>1. CASE c = d
      <3>1. \A j \in DOMAIN entries' : entries'[j].cidr # c
        BY <1>0, <1>1, <1>4, <1>5, <1>6, <1>7, <2>1
      <3> QED
        BY <1>4, <1>8, <2>1, <3>1, FoundIs, ZenonT(30)
    <2>2. CASE c # d /\ \E j \in DOMAIN entries : entries[j].cidr = c
      <3>1. PICK j \in 1..n : entries[j].cidr = c
        BY <1>0, <2>2
      <3>2. j # i
        BY <1>1, <2>2, <3>1
      <3>3. PICK k \in 1..(n - 1) : entries'[k] = entries[j]
        <4>1. CASE j = n
          <5>1. i \in 1..(n - 1)
            BY <1>0, <1>1, <3>2, <4>1
          <5> QED
            BY <1>5, <4>1, <5>1
        <4>2. CASE j # n
          <5>1. j \in 1..(n - 1)
            BY <1>0, <4>2
          <5> QED
            BY <1>5, <3>2, <5>1
        <4> QED
          BY <4>1, <4>2
      <3>4. Found(entries, c) = entries[j].exp
        BY <1>0, <3>1, FoundIs
      <3>5. Found(entries', c) = entries'[k].exp
        <4>1. k \in DOMAIN entries' /\ entries'[k].cidr = c
          BY <1>4, <3>1, <3>3
        <4> QED
          BY <1>4, <1>8, <4>1, FoundIs, ZenonT(30)
      <3> QED
        BY <2>2, <3>3, <3>4, <3>5
    <2>3. CASE c # d /\ \A j \in DOMAIN entries : entries[j].cidr # c
      <3>1. \A j \in DOMAIN entries' : entries'[j].cidr # c
        BY <1>0, <1>4, <1>5, <1>6, <1>7, <2>3
      <3>2. Found(entries, c) = NoBlock
        BY <1>0, <2>3, FoundIs
      <3>3. Found(entries', c) = NoBlock
        BY <1>4, <1>8, <3>1, FoundIs, ZenonT(30)
      <3> QED
        BY <2>3, <3>2, <3>3
    <2> QED
      BY <2>1, <2>2, <2>3
  <1> QED
    BY <1>4, <1>8, <1>9 DEF Unique

\* Unique is inductive.
LEMMA UniqueNext ==
  ASSUME Unique, [CidrNext]_vars
  PROVE  Unique'
  <1>1. CASE clock \/ UNCHANGED vars
    BY <1>1 DEF clock, vars, Unique
  <1> QED
    BY <1>1, UpsertStep, RemoveStep DEF CidrNext

\* The CIDR slice never holds a network twice, for every number of networks
\* and any sequence of upserts and swap-with-last removals.
THEOREM UniqueCorrect == CidrSpec => []Unique
  <1>1. CidrInit => Unique
    BY DEF CidrInit, Unique
  <1>2. Unique /\ [CidrNext]_vars => Unique'
    BY UniqueNext
  <1> QED
    BY <1>1, <1>2, PTL DEF CidrSpec

\* What a step of the slice is, seen through findByCIDR.
LEMMA StepOfMap ==
  ASSUME Unique
  PROVE  /\ \A e \in CIDREntry : upsert(e) => Map!Put(e.cidr, e.exp)
         /\ \A d \in Nets : remove(d) => Map!Delete(d)
  <1> DEFINE map == [c \in Nets |-> findByCIDR(c)]
  <1>0. /\ map  = [c \in Nets |-> Found(entries, c)]
        /\ map' = [c \in Nets |-> Found(entries', c)]
    BY DEF findByCIDR, Found
  <1>1. ASSUME NEW e \in CIDREntry, upsert(e)
        PROVE  Map!Put(e.cidr, e.exp)
    <2>1. \A c \in Nets : Found(entries', c) =
            IF c = e.cidr THEN e.exp ELSE Found(entries, c)
      BY <1>1, UpsertStep
    <2>2. map' = [map EXCEPT ![e.cidr] = e.exp]
      <3> HIDE DEF map
      <3> QED
        BY <1>0, <2>1
    <2> QED
      BY <2>2 DEF Map!Put
  <1>2. ASSUME NEW d \in Nets, remove(d)
        PROVE  Map!Delete(d)
    <2>1. \A c \in Nets : Found(entries', c) =
            IF c = d THEN NoBlock ELSE Found(entries, c)
      BY <1>2, RemoveStep
    <2>2. map' = [map EXCEPT ![d] = NoBlock]
      <3> HIDE DEF map
      <3> QED
        BY <1>0, <2>1
    <2> QED
      BY <2>2 DEF Map!Delete
  <1> QED
    BY <1>1, <1>2

\* upsert and remove change the network they are called with and no other,
\* for every set of networks, although remove moves the last entry.
THEOREM OwnNetworkOnly == CidrSpec => ActsOnItsOwn
  <1> DEFINE Own == /\ \A e \in CIDREntry : upsert(e) => Map!Put(e.cidr, e.exp)
                    /\ \A c \in Nets : remove(c) => Map!Delete(c)
  <1>1. Unique => Own
    BY StepOfMap
  <1>2. Unique => [Own]_vars
    BY <1>1
  <1> QED
    BY <1>2, UniqueCorrect, PTL DEF ActsOnItsOwn

\* The slice implements the map its callers take it for.
THEOREM TableImplementsMap == CidrSpec => ActsAsMap
  <1> DEFINE map == [c \in Nets |-> findByCIDR(c)]
  <1>1. CidrInit => Map!MapInit
    <2> SUFFICES ASSUME CidrInit PROVE Map!MapInit
      OBVIOUS
    <2>1. entries \in Seq(CIDREntry) /\ DOMAIN entries = {}
      BY DEF CidrInit
    <2>2. \A c \in Nets : findByCIDR(c) = NoBlock
      BY <2>1 DEF findByCIDR, IndexOf
    <2> QED
      BY <2>2 DEF Map!MapInit
  <1>2. Unique /\ [CidrNext]_vars => [Map!MapNext]_map
    <2> SUFFICES ASSUME Unique, [CidrNext]_vars
                 PROVE  Map!MapNext \/ UNCHANGED map
      OBVIOUS
    <2>1. CASE clock \/ UNCHANGED vars
      BY <2>1 DEF clock, vars, findByCIDR
    <2>2. ASSUME NEW e \in CIDREntry, upsert(e)
          PROVE  Map!MapNext
      <3>1. e.cidr \in Nets /\ e.exp \in Expirations
        BY DEF CIDREntry
      <3> QED
        BY <2>2, <3>1, StepOfMap DEF Map!MapNext
    <2>3. ASSUME NEW c \in Nets, remove(c)
          PROVE  Map!MapNext
      BY <2>3, StepOfMap DEF Map!MapNext
    <2> QED
      BY <2>1, <2>2, <2>3 DEF CidrNext
  <1> QED
    BY <1>1, <1>2, UniqueCorrect, PTL DEF CidrSpec, ActsAsMap, Map!MapSpec

\* A set of indices has a least one.
LEMMA Least ==
  ASSUME NEW T \in SUBSET Nat, T # {}
  PROVE  \E k \in T : \A j \in T : k <= j
  <1>1. PICK k \in T : \A j \in T : <<j, k>> \notin OpToRel(<, Nat)
    BY Zenon, NatLessThanWellFounded, WFMin
  <1>2. \A j \in T : ~(j < k)
    BY Zenon, <1>1 DEF OpToRel
  <1>. QED BY <1>2

\* lookup answers with the first network that contains the address, so it is nil
\* only if there is none or that one has expired.
THEOREM LookupCorrect == CidrSpec => []LookupExact
  <1>1. Unique => LookupExact
    <2>. SUFFICES ASSUME Unique PROVE LookupExact
      OBVIOUS
    <2>. SUFFICES ASSUME NEW ip \in IPs
         PROVE  /\ lookup(ip) # NoBlock =>
                     \E k \in DOMAIN entries :
                       /\ Matches(ip, k) /\ ~Expired(entries[k])
                       /\ entries[k].cidr = lookup(ip)
                /\ lookup(ip) = NoBlock =>
                     \A k \in DOMAIN entries :
                       Matches(ip, k) /\ ~Expired(entries[k]) =>
                         \E j \in 1..(k - 1) :
                           Matches(ip, j) /\ Expired(entries[j])
      BY DEF LookupExact
    <2> DEFINE all   == {k \in DOMAIN entries : Matches(ip, k)}
               first == {k \in DOMAIN entries :
                           Matches(ip, k) /\ \A j \in 1..(k - 1) : ~Matches(ip, j)}
    <2>1. /\ DOMAIN entries = 1..Len(entries) /\ Len(entries) \in Nat
          /\ \A k \in DOMAIN entries : entries[k].cidr # NoBlock
      <3>1. entries \in Seq(CIDREntry)
        BY DEF Unique
      <3>2. \A k \in DOMAIN entries : entries[k].cidr \in Nets
        <4>. SUFFICES ASSUME NEW k \in DOMAIN entries PROVE entries[k].cidr \in Nets
          OBVIOUS
        <4>1. entries[k] \in CIDREntry
          BY <3>1
        <4>. QED BY <4>1 DEF CIDREntry
      <3>. QED BY <3>1, <3>2, CidrAssumption
    <2>2. lookup(ip) = IF \E k \in first : ~Expired(entries[k])
                         THEN entries[CHOOSE k \in first : TRUE].cidr ELSE NoBlock
      BY Zenon DEF lookup
    <2>3. \A j, k \in first : j = k
      BY <2>1
    <2>4. CASE \E k \in first : ~Expired(entries[k])
      <3>1. PICK k \in first : ~Expired(entries[k])
        BY Zenon, <2>4
      <3>2. (CHOOSE j \in first : TRUE) = k
        BY Zenon, <2>3
      <3>3. lookup(ip) = entries[k].cidr
        BY Zenon, <2>2, <2>4, <3>2
      <3>4. k \in DOMAIN entries /\ Matches(ip, k)
        BY Zenon
      <3>. QED BY Zenon, <2>1, <3>1, <3>3, <3>4
    <2>5. CASE \A k \in first : Expired(entries[k])
      <3>1. lookup(ip) = NoBlock
        BY Zenon, <2>2, <2>5
      <3>. SUFFICES ASSUME NEW k \in DOMAIN entries, Matches(ip, k),
                           ~Expired(entries[k])
                    PROVE  \E j \in 1..(k - 1) :
                             Matches(ip, j) /\ Expired(entries[j])
        BY Zenon, <3>1
      <3>2. all \in SUBSET Nat /\ k \in all
        BY <2>1
      <3>3. PICK j \in all : \A l \in all : j <= l
        <4>1. all # {}
          BY Zenon, <3>2
        <4> HIDE DEF all
        <4>. QED BY Zenon, <3>2, <4>1, Least
      <3>4. j \in first
        BY <2>1, <3>3
      <3>5. j # k /\ Expired(entries[j]) /\ Matches(ip, j)
        BY Zenon, <2>5, <3>4
      <3>6. j \in 1..(k - 1)
        BY <2>1, <3>2, <3>3, <3>5
      <3>. QED BY Zenon, <3>5, <3>6
    <2>. QED BY Zenon, <2>4, <2>5
  <1>. QED BY <1>1, UniqueCorrect, PTL
=============================================================================
