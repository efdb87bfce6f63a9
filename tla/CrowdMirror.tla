---------------------------- MODULE CrowdMirror ----------------------------
(***************************************************************************)
(* Proof that in single-instance mode the blocklist follows CrowdSec's     *)
(* decisions while clients, expiry and restarts get in between.            *)
(***************************************************************************)
EXTENDS CrowdProofs

----------------------------------------------------------------------------
(* Single-instance mode: the jobs of the bouncer and those of the others   *)

\* No other job was begun for a since the bouncer's last one, and that one ran
\* alone and lost no write.
Calm(a) == a \notin dirty /\ a \notin overruled

\* The bouncer has a job under way for a.
Works(i, a) == Active(Bouncer(i)) /\ job[Bouncer(i)].a = a

\* What a bouncer's job may be.
Errand(i) ==
  Active(Bouncer(i)) =>
    /\ job[Bouncer(i)].kind \in {"put", "delete"}
    /\ job[Bouncer(i)].kind = "put" => job[Bouncer(i)].rec.src = "crowdsec"

\* Another job disturbs its address, unless the bouncer came along since.
Contested(i, a) ==
  \A p \in Ordinary : (Active(p) /\ job[p].a = a) => ~Calm(a) \/ Works(i, a)

\* If the bouncer did, the job is not clean any more.
Counted == \A p \in Ordinary : (Active(p) /\ job[p].clean) => job[p].a \in overruled

\* What etcd has of an address that is calm was put there by the bouncer.
Settled(a) ==
  (Calm(a) /\ ~Busy(a)) =>
    Held(KeyOf(a)) = NoEntry \/ Held(KeyOf(a)).src = "crowdsec"

Apart ==
  /\ Counted
  /\ \A i \in Instances : Errand(i)
  /\ \A i \in Instances, a \in Addrs : Contested(i, a)
  /\ \A a \in Addrs : Settled(a)

\* Holds initially.
LEMMA ApartInit == CrowdInit => Apart
<1>. SUFFICES ASSUME CrowdInit PROVE Apart
    BY Zenon
<1>1. \A p \in Procs : ~Active(p)
    BY Zenon DEF CrowdInit, Init, Active, NoJob
<1>2. Ordinary \subseteq Procs /\ \A i \in Instances : Bouncer(i) \in Procs
    BY Zenon, BouncerFacts DEF Ordinary, Procs
<1>3. \A a \in Addrs : Held(KeyOf(a)) = NoEntry
  <2>1. kv = [k \in Keys |-> 0]
      BY Zenon DEF CrowdInit, Init, etcdInit
  <2>. QED BY <2>1, KeyFacts DEF Held
<1>. QED BY Zenon, <1>1, <1>2, <1>3
       DEF Apart, Counted, Errand, Contested, Settled

\* Kept when nothing happens to the blocklist.
LEMMA ApartStill ==
  ASSUME Apart, UNCHANGED <<vars, overruled>>
  PROVE  Apart'
<1>1. UNCHANGED <<hist, kv, job, dirty, overruled>>
    BY Zenon DEF vars
<1>2. Counted' /\ \A i \in Instances : Errand(i)'
    BY Zenon, <1>1 DEF Apart, Counted, Errand, Active
<1>3. \A i \in Instances, a \in Addrs : Contested(i, a)'
    BY Zenon, <1>1 DEF Apart, Contested, Calm, Works, Active
<1>4. \A a \in Addrs : Settled(a)'
    BY Zenon, <1>1 DEF Apart, Settled, Calm, Busy, Active, Held
<1>. QED BY Zenon, <1>2, <1>3, <1>4 DEF Apart

\* Kept when the bouncer begins a job.
LEMMA ApartTake ==
  ASSUME ~MultiInstance, Sound, Apart, NEW i \in Instances, NEW b \in Addrs,
         crowdSecApply(i, b) \/ crowdSecRemove(i, b)
  PROVE  Apart'
<1>1. Takes(i, b)
    BY Zenon, TakeEffect DEF Sound
<1>2. /\ Begins /\ ~Active(Bouncer(i))
      /\ job'[Bouncer(i)].a = b /\ job'[Bouncer(i)].step = "key"
      /\ \A p \in Procs : p # Bouncer(i) => Kept(p) \/ LazyFor(p, b)
      /\ overruled' = overruled \ {b}
    BY Zenon, <1>1 DEF Takes
<1>3. UNCHANGED <<hist, kv, dirty>>
    BY Zenon, <1>2 DEF Begins, etcdVars
<1>4. Works(i, b)' /\ \A k \in Instances : k = i
    BY Zenon, <1>2, OneInstance DEF Works, Active
<1>5. \A p \in Ordinary : p \in Procs /\ p # Bouncer(i)
    BY Zenon, BouncerFacts DEF Ordinary, Procs
<1>6. \A k \in Instances : Errand(k)'
  <2>1. /\ bouncer[i].phase # "new" => job'[Bouncer(i)].kind = "delete"
        /\ bouncer[i].phase = "new" =>
             job'[Bouncer(i)].kind = "put" /\ job'[Bouncer(i)].rec.src = "crowdsec"
      BY Zenon, <1>1 DEF Takes
  <2>. QED BY Zenon, <1>4, <2>1 DEF Errand
<1>7. Counted'
  <2>. SUFFICES ASSUME NEW p \in Ordinary, Active(p)', job'[p].clean
                PROVE  job'[p].a \in overruled'
      BY Zenon DEF Counted
  <2>1. job'[p].a # b
    <3>1. \A q \in Procs :
            (job'[p].clean /\ job'[q].step # "done" /\ job'[q].a = job'[p].a)
              => q = p
        BY Zenon, <1>1, <1>5 DEF Takes
    <3>. QED BY Zenon, <1>2, <1>4, <1>5, <3>1, BouncerFacts DEF Works, Active
  <2>2. Kept(p)
      BY Zenon, <1>2, <1>5, <2>1 DEF LazyFor
  <2>. QED BY Zenon, <1>2, <2>1, <2>2 DEF Apart, Counted, Kept, Active
<1>8. ASSUME NEW a \in Addrs
      PROVE  Contested(i, a)' /\ Settled(a)'
  <2>1. CASE a = b
    <3>1. Works(i, a)' /\ Busy(a)'
        BY Zenon, <1>4, <2>1, BouncerFacts DEF Works, Busy
    <3>. QED BY Zenon, <3>1 DEF Contested, Settled
  <2>2. CASE a # b
    <3>1. Calm(a)' <=> Calm(a)
        BY Zenon, <1>2, <1>3, <2>2 DEF Calm
    <3>2. ~Works(i, a)
        BY Zenon, <1>2 DEF Works
    <3>3. ASSUME NEW p \in Procs
          PROVE  (Active(p) /\ job[p].a = a) <=> (Active(p)' /\ job'[p].a = a)
      <4>1. CASE p = Bouncer(i)
          BY Zenon, <1>2, <2>2, <4>1
      <4>2. CASE p # Bouncer(i)
          BY Zenon, <1>2, <2>2, <4>2 DEF Kept, LazyFor, Active
      <4>. QED BY Zenon, <4>1, <4>2
    <3>4. Contested(i, a)'
        BY Zenon, <1>5, <3>1, <3>2, <3>3 DEF Apart, Contested
    <3>5. Held(KeyOf(a))' = Held(KeyOf(a)) /\ (Busy(a)' <=> Busy(a))
        BY Zenon, <1>3, <3>3 DEF Held, Busy
    <3>. QED BY Zenon, <3>1, <3>4, <3>5 DEF Apart, Settled
  <2>. QED BY Zenon, <2>1, <2>2
<1>. QED BY Zenon, <1>4, <1>6, <1>7, <1>8 DEF Apart

\* Kept by a step of a job.
LEMMA ApartMoves ==
  ASSUME ~MultiInstance, Sound, SingleInv, Apart, NEW q \in Procs, Moves(q),
         overruled \subseteq overruled'
  PROVE  Apart'
<1>1. Types /\ Alone /\ Written /\ Ordinary \subseteq Procs
    BY Zenon DEF SingleInv, Ordinary, Procs
<1>2. /\ Active(q) /\ \A p \in Procs : p # q => job'[p] = job[p]
      /\ job'[q] = NoJob \/
           /\ job'[q].kind = job[q].kind /\ job'[q].a = job[q].a
           /\ job'[q].rec = job[q].rec /\ (job'[q].clean => job[q].clean)
      /\ job'[q].step = "done" /\ job[q].a \notin dirty' =>
           job[q].clean /\ (persist(q) \/ apply(q))
      /\ job'[q].step # "done" /\ job[q].a \notin dirty' => job[q].a \notin dirty
      /\ \A a \in Addrs : a # job[q].a => (a \in dirty' <=> a \in dirty)
    BY Zenon, <1>1, MoveEffect
<1>3. NoJob.step = "done"
    BY Zenon DEF NoJob
<1>4. ASSUME NEW i \in Instances
      PROVE  Errand(i)'
    BY Zenon, <1>2, <1>3, BouncerFacts DEF Apart, Errand, Active
<1>5. Counted'
    BY Zenon, <1>1, <1>2, <1>3 DEF Apart, Counted, Active
<1>6. ASSUME NEW a \in Addrs, job[q].a # a
      PROVE  /\ Calm(a)' => Calm(a)
             /\ \A p \in Procs : (Active(p) /\ job[p].a = a) <=> (Active(p)' /\ job'[p].a = a)
  <2>1. Calm(a)' => Calm(a)
      BY Zenon, <1>2, <1>6 DEF Calm
  <2>. QED BY Zenon, <1>2, <1>3, <1>6, <2>1 DEF Active
<1>7. ASSUME NEW i \in Instances, NEW a \in Addrs
      PROVE  Contested(i, a)'
  <2>. SUFFICES ASSUME NEW p \in Ordinary, Active(p)', job'[p].a = a, Calm(a)'
                PROVE  Works(i, a)'
      BY Zenon DEF Contested
  <2>1. CASE job[q].a # a
      BY ZenonT(30), <1>1, <1>6, <2>1, BouncerFacts DEF Apart, Contested, Works
  <2>2. CASE job[q].a = a
    <3>1. Active(p) /\ job[p].a = a
        BY Zenon, <1>1, <1>2, <1>3, <2>2 DEF Active
    <3>2. job'[q].step # "done"
      <4>1. CASE p = q
          BY Zenon, <4>1 DEF Active
      <4>2. CASE p # q
        <5>1. ~job[q].clean
            BY Zenon, <1>1, <1>2, <2>2, <3>1, <4>2 DEF Alone
        <5>. QED BY Zenon, <1>2, <2>2, <5>1 DEF Calm
      <4>. QED BY Zenon, <4>1, <4>2
    <3>3. Calm(a)
        BY Zenon, <1>2, <2>2, <3>2 DEF Calm
    <3>4. Works(i, a)
        BY Zenon, <3>1, <3>3 DEF Apart, Contested
    <3>. QED BY Zenon, <1>2, <1>3, <2>2, <3>2, <3>4, BouncerFacts DEF Works, Active
  <2>. QED BY Zenon, <2>1, <2>2
<1>8. ASSUME NEW a \in Addrs
      PROVE  Settled(a)'
  <2>. SUFFICES ASSUME Calm(a)', ~Busy(a)'
                PROVE  (Held(KeyOf(a)) = NoEntry \/ Held(KeyOf(a)).src = "crowdsec")'
      BY Zenon DEF Settled
  <2>1. CASE job[q].a # a
    <3>1. Calm(a) /\ ~Busy(a)
        BY Zenon, <1>6, <2>1 DEF Busy
    <3>2. Held(KeyOf(a))' = Held(KeyOf(a))
        BY Zenon, <1>1, <2>1, MoveFrame
    <3>. QED BY Zenon, <3>1, <3>2 DEF Apart, Settled
  <2>2. CASE job[q].a = a
    <3>1. job'[q].step = "done"
        BY Zenon, <1>2, <1>3, <2>2 DEF Busy, Active
    <3>2. job[q].clean /\ (persist(q) \/ apply(q))
        BY Zenon, <1>2, <2>2, <3>1 DEF Calm
    <3>3. job[q].step = "mem"
        BY Zenon, <1>1, <3>1, MoveEffect
    <3>4. apply(q) /\ Held(KeyOf(a))' = Held(KeyOf(a))
      <4>1. apply(q)
          BY Zenon, <3>2, <3>3 DEF persist
      <4>2. hist' = hist /\ kv' = kv
          BY Zenon, <4>1 DEF apply, etcdVars
      <4>. QED BY <4>1, <4>2 DEF Held
    <3>5. Held(KeyOf(a)) = IF job[q].kind = "put" THEN job[q].rec ELSE NoEntry
        BY Zenon, <1>1, <2>2, <3>2, <3>3 DEF Written
    <3>6. q \notin Ordinary
        BY Zenon, <1>2, <2>2, <3>2 DEF Apart, Counted, Calm
    <3>7. job[q].kind = "put" => job[q].rec.src = "crowdsec"
        BY ZenonT(30), <1>2, <3>6 DEF Apart, Errand, Ordinary, Procs
    <3>. QED BY Zenon, <3>4, <3>5, <3>7
  <2>. QED BY Zenon, <2>1, <2>2
<1>. QED BY Zenon, <1>4, <1>5, <1>7, <1>8 DEF Apart

\* Kept by the other steps of Blocklist.
LEMMA ApartOthers ==
  ASSUME ~MultiInstance, Sound, SingleInv, Apart, others
  PROVE  Apart'
<1>1. Types /\ Shape /\ Order /\ Ordinary \subseteq Procs
    BY Zenon DEF Sound, Ordinary, Procs
<1>2. /\ Next /\ overruled \subseteq overruled'
      /\ \A p \in Procs : Joins(p) => job'[p].a \in overruled'
    BY Zenon, <1>1, OthersEffect
<1>3. NoJob.step = "done"
    BY Zenon DEF NoJob
<1>4. \A i \in Instances : Errand(i)'
    BY Zenon, <1>1, <1>2, BouncerJob DEF Apart, Errand
<1>5. CASE Join
  <2>1. /\ \A p \in Procs : Kept(p) \/ (Joins(p) /\ job'[p].a \in overruled')
        /\ UNCHANGED <<hist, kv, dirty>>
      BY Zenon, <1>2, <1>5 DEF Join, Begins, etcdVars
  <2>2. Counted'
      BY Zenon, <1>1, <1>2, <2>1 DEF Apart, Counted, Kept, Active
  <2>3. ASSUME NEW a \in Addrs, Calm(a)'
        PROVE  /\ Calm(a)
               /\ \A p \in Procs : (Active(p) /\ job[p].a = a) <=> (Active(p)' /\ job'[p].a = a)
    <3>1. Calm(a)
        BY Zenon, <1>2, <2>1, <2>3 DEF Calm
    <3>2. \A p \in Procs : Kept(p) \/ (job'[p].a # a /\ ~Active(p))
        BY Zenon, <2>1, <2>3 DEF Calm, Joins, Fresh
    <3>. QED BY Zenon, <3>1, <3>2 DEF Kept, Active
  <2>4. ASSUME NEW i \in Instances, NEW a \in Addrs
        PROVE  Contested(i, a)'
      BY Zenon, <1>1, <2>3, BouncerFacts DEF Apart, Contested, Works
  <2>5. ASSUME NEW a \in Addrs
        PROVE  Settled(a)'
    <3>1. Held(KeyOf(a))' = Held(KeyOf(a))
        BY Zenon, <2>1 DEF Held
    <3>. QED BY Zenon, <2>3, <3>1 DEF Apart, Settled, Busy
  <2>. QED BY Zenon, <1>4, <2>2, <2>4, <2>5 DEF Apart
<1>6. CASE \E q \in Procs : Moves(q)
    BY Zenon, <1>2, <1>6, ApartMoves
<1>7. ASSUME UNCHANGED <<hist, kv, job, dirty>>
      PROVE  Apart'
  <2>1. Counted'
      BY Zenon, <1>1, <1>2, <1>7 DEF Apart, Counted, Active
  <2>2. \A a \in Addrs : Calm(a)' => Calm(a)
      BY Zenon, <1>2, <1>7 DEF Calm
  <2>3. \A i \in Instances, a \in Addrs : Contested(i, a)'
      BY Zenon, <1>7, <2>2 DEF Apart, Contested, Works, Active
  <2>4. \A a \in Addrs : Settled(a)'
      BY Zenon, <1>7, <2>2 DEF Apart, Settled, Busy, Active, Held
  <2>. QED BY Zenon, <1>4, <2>1, <2>3, <2>4 DEF Apart
<1>8. CASE clock \/ \E i \in Instances : tick(i) \/ turn(i)
    BY Zenon, <1>1, <1>7, <1>8, TypesQuiet DEF etcdVars
<1>9. ASSUME NEW i \in Instances, boot(i) \/ watch(i)
      PROVE  Apart'
    BY Zenon, <1>7, <1>9 DEF boot, watch, etcdVars
\* The process ends with all the jobs there are.
<1>10. ASSUME NEW i \in Instances, crash(i)
       PROVE  Apart'
  <2>1. /\ hist' = hist /\ kv' = kv /\ dirty \subseteq dirty'
        /\ \A p \in Procs : job'[p] = IF Active(p) /\ job[p].inst = i
                                        THEN NoJob ELSE job[p]
        /\ \A p \in Procs : Active(p) /\ job[p].inst = i => job[p].a \in dirty'
      BY Zenon, <1>10 DEF crash, etcdVars
  <2>2. ASSUME NEW p \in Procs
        PROVE  ~Active(p)' /\ (Active(p) => job[p].a \in dirty')
    <3>1. Active(p) => job[p].inst = i
        BY Zenon, <1>1, OneInstance DEF Types, Running
    <3>. QED BY Zenon, <1>3, <2>1, <3>1 DEF Active
  <2>3. Counted' /\ \A k \in Instances, a \in Addrs : Contested(k, a)'
      BY Zenon, <1>1, <2>2 DEF Counted, Contested
  <2>4. ASSUME NEW a \in Addrs
        PROVE  Settled(a)'
    <3>1. Calm(a)' => Calm(a) /\ ~Busy(a)
        BY Zenon, <1>2, <2>1, <2>2 DEF Calm, Busy
    <3>2. Held(KeyOf(a))' = Held(KeyOf(a))
        BY Zenon, <2>1 DEF Held
    <3>. QED BY Zenon, <3>1, <3>2 DEF Apart, Settled
  <2>. QED BY Zenon, <1>4, <2>3, <2>4 DEF Apart
<1>. QED BY Zenon, <1>1, <1>2, <1>5, <1>6, <1>8, <1>9, <1>10, NextCases

\* Apart is an inductive invariant.
LEMMA ApartNext ==
  ASSUME ~MultiInstance, Sound, SingleInv, Apart, [CrowdNext]_<<vars, crowdVars>>
  PROVE  Apart'
<1>1. Types /\ Shape /\ Order
    BY Zenon DEF Sound
<1>2. ASSUME NEW a \in Addrs, withdraw(a) \/ \E end \in Ends : decide(a, end)
      PROVE  Apart'
    BY Zenon, <1>1, <1>2, LapiEffect, ApartStill
<1>3. ASSUME NEW i \in Instances,
             lost(i) \/ fetchCrowdSecDecisions(i) \/ turnReply(i)
      PROVE  Apart'
  <2>1. UNCHANGED <<vars, overruled>>
      BY Zenon, <1>1, <1>3, LostEffect, FetchEffect, PollEffect DEF turnReply
  <2>. QED BY Zenon, <2>1, ApartStill
<1>4. CASE UNCHANGED <<vars, crowdVars>>
    BY Zenon, <1>4, ApartStill DEF crowdVars
<1>. QED BY Zenon, <1>2, <1>3, <1>4, ApartTake, ApartOthers DEF CrowdNext

----------------------------------------------------------------------------
(* What the bouncer has been told, and is about to do                      *)

\* The bouncer knows of the last change to the decision on a.
Told(i, a) ==
  /\ a \notin unsent[i].new /\ a \notin unsent[i].deleted
  /\ a \notin missed[i]

\* It will block a.
Coming(i, a) ==
  LET b == bouncer[i] IN
  \/ b.phase \in {"list", "ip", "cidr"} /\ a \in DOMAIN b.new
  \/ b.phase = "new" /\ a \in b.todo

\* It will unblock a.
Going(i, a) ==
  LET b == bouncer[i] IN
  \/ b.phase = "new" /\ ~b.startup /\ a \in b.deleted
  \/ b.phase \in {"ip", "cidr", "deleted"} /\ a \in b.todo

\* A block of value v lasts as long as a decision that ends at d.
Lasts(v, d) == v.exp = 0 \/ (d # 0 /\ v.exp >= d)

\* What the LAPI is going to send is up to date.
Changes(i, a) ==
  /\ a \in unsent[i].new /\ a \notin unsent[i].deleted => decided[a] # NoEntry
  /\ a \in unsent[i].deleted /\ decided[a] # NoEntry => a \in unsent[i].new

\* What the bouncer is going to do, or doing, is what was decided.  The clock
\* goes on in the meantime, so that a block may last longer than its decision.
Planned(i, a) ==
  Told(i, a) =>
    /\ Coming(i, a) =>
         /\ decided[a] # NoEntry /\ (bouncer[i].new[a] = 0 <=> decided[a] = 0)
         /\ now + bouncer[i].new[a] >= decided[a]
    /\ Going(i, a) => ~InForce(a)
    /\ Works(i, a) =>
         IF job[Bouncer(i)].kind = "put"
           THEN decided[a] # NoEntry /\ Lasts(job[Bouncer(i)].rec, decided[a])
           ELSE ~InForce(a)
    /\ (/\ bouncer[i].startup /\ bouncer[i].phase # "idle"
        /\ a \notin DOMAIN bouncer[i].new) => ~InForce(a)

Plan == \A i \in Instances, a \in Addrs : Changes(i, a) /\ Planned(i, a)

\* Holds initially.
LEMMA PlanInit == CrowdInit => Plan
<1>. SUFFICES ASSUME CrowdInit, NEW i \in Instances, NEW a \in Addrs
              PROVE  Changes(i, a) /\ Planned(i, a)
    BY Zenon DEF Plan
<1>1. ~Active(Bouncer(i))
    BY Zenon, BouncerFacts DEF CrowdInit, Init, Active, NoJob
<1>2. bouncer[i] = Starting /\ unsent[i].new = {} /\ unsent[i].deleted = {}
    BY Zenon DEF CrowdInit, NoChanges
<1>3. ~Coming(i, a) /\ ~Going(i, a) /\ bouncer[i].phase = "idle"
    BY <1>2, StartingTyped DEF Coming, Going
<1>. QED BY Zenon, <1>1, <1>2, <1>3 DEF Changes, Planned, Works

\* The time left of a decision, for every address on a list.
LEMMA LeftOf ==
  ASSUME Types, Shape, NEW a \in Addrs, InForce(a), NEW left,
         left = IF decided[a] = 0 THEN 0 ELSE decided[a] - now
  PROVE  (left = 0 <=> decided[a] = 0) /\ now + left >= decided[a]
<1>1. decided[a] \in Times \cup {0} /\ (decided[a] = 0 \/ decided[a] > now)
    BY Zenon, CrowdSecAssumption DEF InForce, Shape
<1>2. now \in Times /\ MaxTime \in Nat
    BY Zenon, NowTyped
<1>. QED BY <1>1, <1>2 DEF Times

\* When a decision ends.
LEMMA DecidedTyped ==
  ASSUME Shape, NEW a \in Addrs, decided[a] # NoEntry
  PROVE  decided[a] \in Nat
<1>1. decided[a] \in Times \cup {0}
    BY Zenon, CrowdSecAssumption DEF Shape
<1>2. Times \subseteq Nat /\ 0 \in Nat
    BY DEF Times
<1>. QED BY Zenon, <1>1, <1>2

\* A decision that is in force was so before.
LEMMA InForceBefore ==
  ASSUME Types, Types', Shape, NEW a \in Addrs, decided'[a] = decided[a],
         now <= now', InForce(a)'
  PROVE  InForce(a)
<1>1. decided[a] # NoEntry /\ (decided[a] = 0 \/ decided[a] > now')
    BY Zenon DEF InForce
<1>2. decided[a] \in Nat
    BY Zenon, <1>1, DecidedTyped
<1>3. now \in Nat /\ now' \in Nat
  <2>1. now \in Times /\ now' \in Times /\ MaxTime \in Nat
      BY Zenon, BlocklistAssumption DEF Types, TypeOK
  <2>. QED BY <2>1 DEF Times
<1>4. PICK d \in Nat, t \in Nat, u \in Nat :
        d = decided[a] /\ t = now /\ u = now' /\ t <= u
    BY Zenon, <1>2, <1>3
<1>5. d > u => d > t
    BY <1>4
<1>. QED BY Zenon, <1>1, <1>4, <1>5 DEF InForce

\* Between two replies there is no plan.
LEMMA PlannedIdle ==
  ASSUME NEW i \in Instances, NEW a \in Addrs,
         bouncer'[i].phase = "idle", ~Active(Bouncer(i))'
  PROVE  Planned(i, a)'
  BY DEF Planned, Coming, Going, Works

\* There is a duration for every address that will be blocked.
LEMMA ComingTyped ==
  ASSUME Shape, Order, NEW i \in Instances, NEW a \in Addrs, Coming(i, a)
  PROVE  a \in DOMAIN bouncer[i].new /\ bouncer[i].new[a] \in 0..MaxTime
<1>1. a \in DOMAIN bouncer[i].new
    BY Zenon DEF Coming, Order, InOrder
<1>2. bouncer[i].new \in Lefts
    BY Zenon DEF Shape, Bouncers
<1>. QED BY Zenon, <1>1, <1>2, LeftsTyped

\* A plan goes on while nothing new is told.
LEMMA PlannedFrame ==
  ASSUME Types, Types', Shape, Order, NEW i \in Instances, NEW a \in Addrs,
         Planned(i, a),
         decided'[a] = decided[a], Told(i, a)' => Told(i, a), now <= now',
         bouncer'[i] = bouncer[i],
         Works(i, a)' =>
           /\ Works(i, a) /\ job'[Bouncer(i)].kind = job[Bouncer(i)].kind
           /\ job'[Bouncer(i)].rec = job[Bouncer(i)].rec
  PROVE  Planned(i, a)'
<1>. SUFFICES ASSUME Told(i, a)' PROVE Planned(i, a)'
    BY Zenon DEF Planned
<1>1. InForce(a)' => InForce(a)
    BY Zenon, InForceBefore
<1>2. (Coming(i, a)' <=> Coming(i, a)) /\ (Going(i, a)' <=> Going(i, a))
    BY Zenon DEF Coming, Going
<1>3. ASSUME Coming(i, a)
      PROVE  now' + bouncer[i].new[a] >= decided[a]
  <2>1. now + bouncer[i].new[a] >= decided[a] /\ decided[a] # NoEntry
      BY Zenon, <1>3 DEF Planned
  <2>2. now \in Nat /\ now' \in Nat
    <3>1. now \in Times /\ now' \in Times /\ MaxTime \in Nat
        BY Zenon, BlocklistAssumption DEF Types, TypeOK
    <3>. QED BY <3>1 DEF Times
  <2>3. decided[a] \in Nat
      BY Zenon, <2>1, DecidedTyped
  <2>4. bouncer[i].new[a] \in Nat
      BY <1>3, ComingTyped
  <2>. QED BY SMTT(30), <2>1, <2>2, <2>3, <2>4
<1>. QED BY Zenon, <1>1, <1>2, <1>3 DEF Planned

\* Kept by the LAPI.
LEMMA PlanLapi ==
  ASSUME Sound, Types', Plan, NEW b \in Addrs,
         withdraw(b) \/ \E end \in Ends : decide(b, end)
  PROVE  Plan'
<1>. SUFFICES ASSUME NEW i \in Instances, NEW a \in Addrs
              PROVE  Changes(i, a)' /\ Planned(i, a)'
    BY Zenon DEF Plan
<1>1. Types /\ Shape /\ Order /\ Changes(i, a) /\ Planned(i, a)
    BY Zenon DEF Sound, Plan
<1>2. CASE a = b
  <2>1. IF withdraw(a) THEN decided'[a] = NoEntry /\ a \in unsent'[i].deleted
                       ELSE decided'[a] # NoEntry /\ a \in unsent'[i].new
      BY Zenon, <1>1, <1>2, LapiEffect
  <2>. QED BY Zenon, <2>1 DEF Changes, Planned, Told
<1>3. CASE a # b
  <2>1. /\ UNCHANGED <<vars, bouncer, missed>> /\ decided'[a] = decided[a]
        /\ a \in unsent'[i].new <=> a \in unsent[i].new
        /\ a \in unsent'[i].deleted <=> a \in unsent[i].deleted
      BY Zenon, <1>1, <1>3, LapiEffect
  <2>2. job' = job /\ now <= now'
    <3>1. now \in Nat
        BY Zenon, <1>1, NowTyped
    <3>. QED BY <2>1, <3>1 DEF vars
  <2>3. Planned(i, a)'
      BY Zenon, <1>1, <2>1, <2>2, PlannedFrame DEF Told, Works, Active
  <2>. QED BY Zenon, <1>1, <2>1, <2>3 DEF Changes
<1>. QED BY Zenon, <1>2, <1>3

\* Kept by the poll of a reply.
LEMMA PlanPoll ==
  ASSUME Sound, Sound', Plan, NEW k \in Instances,
         lost(k) \/ fetchCrowdSecDecisions(k)
  PROVE  Plan'
<1>1. Types /\ Types' /\ Shape /\ Order
    BY Zenon DEF Sound
<1>2. /\ Polls(k) /\ \A i \in Instances : i # k =>
                       bouncer'[i] = bouncer[i] /\ missed'[i] = missed[i]
    BY Zenon, <1>1, LostEffect, FetchEffect
<1>3. /\ bouncer[k].phase = "idle" /\ UNCHANGED <<vars, decided>>
      /\ unsent'[k].new = {} /\ unsent'[k].deleted = {}
      /\ \A i \in Instances : i # k => unsent'[i] = unsent[i]
    BY Zenon, <1>1, <1>2, PollEffect
<1>4. job' = job /\ now' = now /\ now <= now'
  <2>1. now \in Nat
      BY Zenon, <1>1, NowTyped
  <2>. QED BY <1>3, <2>1 DEF vars
<1>5. ~Active(Bouncer(k)) /\ ~Active(Bouncer(k))'
  <2>1. ~Active(Bouncer(k))
      BY Zenon, <1>1, <1>3 DEF Order, InOrder
  <2>. QED BY Zenon, <1>4, <2>1 DEF Active
<1>6. ASSUME NEW i \in Instances, NEW a \in Addrs, i # k
      PROVE  Changes(i, a)' /\ Planned(i, a)'
  <2>1. Changes(i, a) /\ Planned(i, a)
      BY Zenon DEF Plan
  <2>2. /\ unsent'[i] = unsent[i] /\ missed'[i] = missed[i]
        /\ bouncer'[i] = bouncer[i] /\ decided'[a] = decided[a]
      BY Zenon, <1>2, <1>3, <1>6
  <2>3. Planned(i, a)'
      BY Zenon, <1>1, <1>4, <2>1, <2>2, PlannedFrame DEF Told, Works, Active
  <2>. QED BY Zenon, <2>1, <2>2, <2>3 DEF Changes
<1>7. ASSUME NEW a \in Addrs
      PROVE  Changes(k, a)' /\ Planned(k, a)'
  <2>1. Changes(k, a)'
      BY Zenon, <1>3 DEF Changes
  <2>2. CASE lost(k)
    <3>1. bouncer'[k].phase = "idle"
        BY Zenon, <1>1, <1>3, <2>2, LostEffect
    <3>. QED BY Zenon, <1>5, <2>1, <3>1, PlannedIdle
  <2>3. CASE fetchCrowdSecDecisions(k)
    <3>. SUFFICES ASSUME Told(k, a)' PROVE Planned(k, a)'
        BY Zenon, <2>1 DEF Planned
    <3>1. /\ bouncer'[k].startup = bouncer[k].startup
          /\ DOMAIN bouncer'[k].new = News(k)
          /\ \A x \in News(k) : bouncer'[k].new[x] =
               IF decided[x] = 0 THEN 0 ELSE decided[x] - now
          /\ bouncer[k].startup => bouncer'[k].phase = "list"
          /\ ~bouncer[k].startup =>
               /\ bouncer'[k].phase = "new" /\ bouncer'[k].todo = News(k)
               /\ bouncer'[k].deleted \in {unsent[k].deleted, unsent[k].deleted \ News(k)}
               /\ missed'[k] = (missed[k] \ (News(k) \cup bouncer'[k].deleted))
                                 \cup (News(k) \cap bouncer'[k].deleted)
        BY <1>1, <2>3, FetchEffect
    <3>2. InForce(a)' <=> InForce(a)
        BY Zenon, <1>3, <1>4 DEF InForce
    <3>3. a \in News(k) =>
            /\ decided'[a] # NoEntry /\ (bouncer'[k].new[a] = 0 <=> decided'[a] = 0)
            /\ now' + bouncer'[k].new[a] >= decided'[a]
      <4>. SUFFICES ASSUME a \in News(k), NEW left, left = bouncer'[k].new[a]
                    PROVE  /\ decided[a] # NoEntry /\ (left = 0 <=> decided[a] = 0)
                           /\ now + left >= decided[a]
          BY Zenon, <1>3, <1>4
      <4>1. InForce(a) /\ left = IF decided[a] = 0 THEN 0 ELSE decided[a] - now
          BY Zenon, <3>1 DEF News
      <4>2. decided[a] # NoEntry
          BY Zenon, <4>1 DEF InForce
      <4>. QED BY Zenon, <1>1, <4>1, <4>2, LeftOf
    <3>4. CASE bouncer[k].startup
      <4>1. /\ Coming(k, a)' => a \in News(k)
            /\ ~Going(k, a)' /\ (a \notin News(k) => ~InForce(a))
          BY <3>1, <3>4 DEF Coming, Going, News
      <4>. QED BY Zenon, <1>5, <3>1, <3>2, <3>3, <4>1 DEF Planned, Works
    <3>5. CASE ~bouncer[k].startup
      <4>1. Coming(k, a)' => a \in News(k)
          BY <3>1, <3>5 DEF Coming
      <4>2. Going(k, a)' => a \in unsent[k].deleted /\ a \notin News(k)
        <5>1. Going(k, a)' => a \in bouncer'[k].deleted
            BY <3>1, <3>5 DEF Going
        <5>2. a \notin missed'[k]
            BY Zenon DEF Told
        <5>. QED BY Zenon, <3>1, <3>5, <5>1, <5>2
      <4>3. Going(k, a)' => ~InForce(a)
          BY Zenon, <4>2 DEF Plan, Changes, News, InForce
      <4>. QED BY Zenon, <1>5, <3>1, <3>2, <3>3, <3>5, <4>1, <4>3 DEF Planned, Works
    <3>. QED BY Zenon, <3>4, <3>5
  <2>. QED BY Zenon, <2>2, <2>3
<1>. QED BY Zenon, <1>6, <1>7 DEF Plan

\* Kept when the next part of a reply begins.
LEMMA PlanTurn ==
  ASSUME Sound, Sound', Plan, NEW k \in Instances, turnReply(k)
  PROVE  Plan'
<1>1. Types /\ Types' /\ Shape /\ Order
    BY Zenon DEF Sound
<1>2. /\ ~Active(Bouncer(k)) /\ UNCHANGED <<vars, decided, unsent, missed>>
      /\ \A i \in Instances : i # k => bouncer'[i] = bouncer[i]
    BY Zenon, <1>1, TurnEffect
<1>3. job' = job /\ now' = now /\ now <= now'
  <2>1. now \in Nat
      BY Zenon, <1>1, NowTyped
  <2>. QED BY <1>2, <2>1 DEF vars
<1>4. ~Active(Bouncer(k))'
    BY Zenon, <1>2, <1>3 DEF Active
<1>5. ASSUME NEW i \in Instances, NEW a \in Addrs
      PROVE  Changes(i, a)' /\ (i # k => Planned(i, a)')
  <2>1. Changes(i, a) /\ Planned(i, a)
      BY Zenon DEF Plan
  <2>2. Changes(i, a)'
      BY Zenon, <1>2, <2>1 DEF Changes
  <2>3. CASE i # k
    <3>1. bouncer'[i] = bouncer[i]
        BY Zenon, <1>2, <2>3
    <3>2. decided'[a] = decided[a] /\ (Told(i, a)' => Told(i, a))
        BY Zenon, <1>2 DEF Told
    <3>3. Works(i, a)' => /\ Works(i, a)
                          /\ job'[Bouncer(i)].kind = job[Bouncer(i)].kind
                          /\ job'[Bouncer(i)].rec = job[Bouncer(i)].rec
        BY Zenon, <1>3 DEF Works, Active
    <3>. QED BY Zenon, <1>1, <1>3, <2>1, <2>2, <3>1, <3>2, <3>3, PlannedFrame
  <2>. QED BY Zenon, <2>2, <2>3
<1>6. ASSUME NEW a \in Addrs
      PROVE  Planned(k, a)'
  <2>. SUFFICES ASSUME Told(k, a)' PROVE Planned(k, a)'
      BY Zenon DEF Planned
  <2>1. Planned(k, a) /\ Told(k, a)
      BY Zenon, <1>2 DEF Plan, Told
  <2>2. (InForce(a)' <=> InForce(a)) /\ ~Works(k, a)' /\ ~Works(k, a)
      BY Zenon, <1>2, <1>3, <1>4 DEF InForce, Works
  <2>3. bouncer[k].phase # "idle" /\ bouncer[k].todo = {}
      BY Zenon DEF turnReply
  <2>4. ASSUME NEW todo, GoesOn(bouncer[k], bouncer'[k], bouncer'[k].phase, todo),
               Coming(k, a)' => Coming(k, a), Going(k, a)' => ~InForce(a)
        PROVE  Planned(k, a)'
    <3>1. /\ bouncer'[k].startup = bouncer[k].startup
          /\ bouncer'[k].new = bouncer[k].new
        BY Zenon, <2>4 DEF GoesOn
    <3>. QED BY Zenon, <1>2, <1>3, <2>1, <2>2, <2>3, <2>4, <3>1 DEF Planned
  <2>5. CASE bouncer[k].phase = "list" /\ GoesOn(bouncer[k], bouncer'[k], "ip", stale(k, IPs))
    <3>1. Coming(k, a)' => Coming(k, a)
        BY <2>5 DEF GoesOn, Coming
    <3>2. Going(k, a)' => a \notin DOMAIN bouncer[k].new
        BY <2>5 DEF GoesOn, Going, stale
    <3>3. bouncer[k].startup
        BY Zenon, <1>1, <2>5 DEF Order, InOrder
    <3>4. Going(k, a)' => ~InForce(a)
        BY Zenon, <2>1, <2>3, <3>2, <3>3 DEF Planned
    <3>. QED BY Zenon, <2>4, <2>5, <3>1, <3>4 DEF GoesOn
  <2>6. CASE bouncer[k].phase = "ip" /\ GoesOn(bouncer[k], bouncer'[k], "cidr", stale(k, Nets))
    <3>1. Coming(k, a)' => Coming(k, a)
        BY <2>6 DEF GoesOn, Coming
    <3>2. Going(k, a)' => a \notin DOMAIN bouncer[k].new
        BY <2>6 DEF GoesOn, Going, stale
    <3>3. bouncer[k].startup
        BY Zenon, <1>1, <2>6 DEF Order, InOrder
    <3>4. Going(k, a)' => ~InForce(a)
        BY Zenon, <2>1, <2>3, <3>2, <3>3 DEF Planned
    <3>. QED BY Zenon, <2>4, <2>6, <3>1, <3>4 DEF GoesOn
  <2>7. CASE bouncer[k].phase = "cidr" /\ GoesOn(bouncer[k], bouncer'[k], "new", DOMAIN bouncer[k].new)
    <3>1. bouncer[k].startup
        BY Zenon, <1>1, <2>7 DEF Order, InOrder
    <3>2. (Coming(k, a)' => Coming(k, a)) /\ ~Going(k, a)'
        BY <2>7, <3>1 DEF GoesOn, Coming, Going
    <3>. QED BY Zenon, <2>4, <2>7, <3>2 DEF GoesOn
  <2>8. CASE /\ bouncer[k].phase = "new" /\ ~bouncer[k].startup
             /\ GoesOn(bouncer[k], bouncer'[k], "deleted", bouncer[k].deleted)
    <3>1. (Going(k, a)' => Going(k, a)) /\ ~Coming(k, a)'
        BY <2>8 DEF GoesOn, Coming, Going
    <3>2. Going(k, a)' => ~InForce(a)
        BY Zenon, <2>1, <3>1 DEF Planned
    <3>. QED BY Zenon, <2>4, <2>8, <3>1, <3>2 DEF GoesOn
  <2>9. CASE bouncer'[k].phase = "idle"
      BY Zenon, <1>4, <2>9, PlannedIdle
  <2>. QED BY Zenon, <1>1, <2>5, <2>6, <2>7, <2>8, <2>9, TurnEffect
<1>. QED BY Zenon, <1>5, <1>6 DEF Plan

\* Kept when the bouncer begins a job: it does as it has been told.
LEMMA PlanTake ==
  ASSUME Sound, Sound', Plan, NEW k \in Instances, NEW b \in Addrs,
         crowdSecApply(k, b) \/ crowdSecRemove(k, b)
  PROVE  Plan'
<1>1. Types /\ Types' /\ Shape /\ Order /\ Takes(k, b)
    BY Zenon, TakeEffect DEF Sound
<1>2. /\ Begins /\ ~Active(Bouncer(k)) /\ b \in bouncer[k].todo
      /\ bouncer[k].phase \notin {"idle", "list"}
      /\ job'[Bouncer(k)].a = b
      /\ \A p \in Procs : p # Bouncer(k) => Kept(p) \/ LazyFor(p, b)
      /\ \A i \in Instances : i # k => bouncer'[i] = bouncer[i]
      /\ GoesOn(bouncer[k], bouncer'[k], bouncer[k].phase, bouncer[k].todo \ {b})
      /\ UNCHANGED <<decided, unsent, missed>>
    BY Zenon, <1>1 DEF Takes
<1>3. now' = now /\ now <= now'
  <2>1. now \in Nat
      BY Zenon, <1>1, NowTyped
  <2>. QED BY <1>2, <2>1 DEF Begins
<1>4. ASSUME NEW i \in Instances, NEW a \in Addrs
      PROVE  Changes(i, a)' /\ (i # k => Planned(i, a)')
  <2>1. Changes(i, a) /\ Planned(i, a)
      BY Zenon DEF Plan
  <2>2. Changes(i, a)'
      BY Zenon, <1>2, <2>1 DEF Changes
  <2>3. CASE i # k
    <3>1. bouncer'[i] = bouncer[i]
        BY Zenon, <1>2, <2>3
    <3>2. decided'[a] = decided[a] /\ (Told(i, a)' => Told(i, a))
        BY Zenon, <1>2 DEF Told
    <3>3. Kept(Bouncer(i))
        BY Zenon, <1>2, <2>3, BouncerFacts DEF LazyFor
    <3>4. Works(i, a)' => /\ Works(i, a)
                          /\ job'[Bouncer(i)].kind = job[Bouncer(i)].kind
                          /\ job'[Bouncer(i)].rec = job[Bouncer(i)].rec
        BY Zenon, <3>3 DEF Works, Active, Kept
    <3>. QED BY Zenon, <1>1, <1>3, <2>1, <2>2, <3>1, <3>2, <3>4, PlannedFrame
  <2>. QED BY Zenon, <2>2, <2>3
<1>5. ASSUME NEW a \in Addrs
      PROVE  Planned(k, a)'
  <2>. SUFFICES ASSUME Told(k, a)' PROVE Planned(k, a)'
      BY Zenon DEF Planned
  <2>1. Planned(k, a) /\ Told(k, a)
      BY Zenon, <1>2 DEF Plan, Told
  <2>2. InForce(a)' <=> InForce(a)
      BY Zenon, <1>2, <1>3 DEF InForce
  <2>3. (Coming(k, a)' => Coming(k, a)) /\ (Going(k, a)' => Going(k, a))
      BY <1>2 DEF GoesOn, Coming, Going
  <2>4. ASSUME Works(k, a)'
        PROVE  IF job'[Bouncer(k)].kind = "put"
                 THEN decided[a] # NoEntry /\ Lasts(job'[Bouncer(k)].rec, decided[a])
                 ELSE ~InForce(a)
    <3>1. a = b
        BY Zenon, <1>2, <2>4 DEF Works
    <3>2. CASE bouncer[k].phase = "new"
      <4>1. Coming(k, a)
          BY Zenon, <1>2, <3>1, <3>2 DEF Coming
      <4>2. PICK left \in 0..MaxTime : left = bouncer[k].new[a]
          BY Zenon, <1>1, <4>1, ComingTyped
      <4>3. /\ job'[Bouncer(k)].kind = "put"
            /\ job'[Bouncer(k)].rec.exp = IF left = 0 THEN 0 ELSE now + left
          BY Zenon, <1>1, <3>1, <3>2, <4>2 DEF Takes
      <4>4. /\ decided[a] # NoEntry /\ (left = 0 <=> decided[a] = 0)
            /\ now + left >= decided[a]
          BY ZenonT(30), <2>1, <4>1, <4>2 DEF Planned
      <4>. QED BY Zenon, <4>3, <4>4 DEF Lasts
    <3>3. CASE bouncer[k].phase # "new"
      <4>1. job'[Bouncer(k)].kind = "delete"
          BY Zenon, <1>1, <3>3 DEF Takes
      <4>2. Going(k, a)
        <5>1. bouncer[k].phase \in Phases
            BY Zenon, <1>1 DEF Shape, Bouncers
        <5>. QED BY Zenon, <1>2, <3>1, <3>3, <5>1 DEF Going, Phases
      <4>. QED BY <2>1, <4>1, <4>2 DEF Planned
    <3>. QED BY Zenon, <3>2, <3>3
  <2>5. /\ bouncer'[k].startup = bouncer[k].startup /\ bouncer'[k].new = bouncer[k].new
        /\ bouncer'[k].phase = bouncer[k].phase
      BY Zenon, <1>2 DEF GoesOn
  <2>. QED BY Zenon, <1>2, <1>3, <2>1, <2>2, <2>3, <2>4, <2>5 DEF Planned
<1>. QED BY Zenon, <1>4, <1>5 DEF Plan

\* Plan is an inductive invariant, in both modes.
LEMMA PlanNext ==
  ASSUME Sound, Plan, [CrowdNext]_<<vars, crowdVars>>
  PROVE  Plan'
<1>1. Sound' /\ Types /\ Types' /\ Shape /\ Order
    BY Zenon, SoundNext DEF Sound
<1>2. now \in Nat
    BY Zenon, <1>1, NowTyped
<1>3. CASE others
  <2>1. /\ Next /\ UNCHANGED <<decided, unsent, missed>>
        /\ \A i \in Instances :
             bouncer'[i] = IF up'[i] = "down" THEN Starting ELSE bouncer[i]
      BY Zenon, <1>1, <1>3, OthersEffect
  <2>2. now <= now'
    <3>1. CASE now' = now
        BY <1>2, <3>1
    <3>2. CASE now' # now
      <4>1. clock \/ \E i \in Instances : tick(i) \/ turn(i)
        <5>1. ~Join /\ ~\E p \in Procs : Moves(p)
            BY Zenon, <1>1, <3>2, MoveEffect DEF Join, Begins
        <5>2. ~\E i \in Instances : boot(i) \/ crash(i) \/ watch(i)
            BY Zenon, <3>2 DEF boot, crash, watch
        <5>. QED BY Zenon, <1>1, <2>1, <5>1, <5>2, NextCases
      <4>. QED BY Zenon, <1>1, <4>1, TypesQuiet
    <3>. QED BY Zenon, <3>1, <3>2
  <2>3. ASSUME NEW i \in Instances, NEW a \in Addrs
        PROVE  Changes(i, a)' /\ Planned(i, a)'
    <3>1. Changes(i, a) /\ Planned(i, a)
        BY Zenon DEF Plan
    <3>2. Changes(i, a)'
        BY Zenon, <2>1, <3>1 DEF Changes
    <3>3. decided'[a] = decided[a] /\ (Told(i, a)' => Told(i, a))
        BY Zenon, <2>1 DEF Told
    <3>4. Works(i, a)' => /\ Works(i, a)
                          /\ job'[Bouncer(i)].kind = job[Bouncer(i)].kind
                          /\ job'[Bouncer(i)].rec = job[Bouncer(i)].rec
        BY Zenon, <1>1, <2>1, BouncerJob DEF Works
    <3>5. CASE up'[i] = "down"
      <4>1. bouncer'[i].phase = "idle"
          BY Zenon, <2>1, <3>5, StartingTyped
      <4>2. ~Active(Bouncer(i))'
          BY Zenon, <1>1, <4>1 DEF Sound, Order, InOrder
      <4>. QED BY Zenon, <3>2, <4>1, <4>2, PlannedIdle
    <3>6. CASE up'[i] # "down"
      <4>1. bouncer'[i] = bouncer[i]
          BY Zenon, <2>1, <3>6
      <4>. QED BY Zenon, <1>1, <2>2, <3>1, <3>2, <3>3, <3>4, <4>1, PlannedFrame
    <3>. QED BY Zenon, <3>5, <3>6
  <2>. QED BY Zenon, <2>3 DEF Plan
<1>4. CASE UNCHANGED <<vars, crowdVars>>
  <2>1. UNCHANGED <<job, decided, unsent, missed, bouncer>> /\ now' = now
      BY Zenon, <1>4 DEF vars, crowdVars
  <2>2. now <= now'
      BY <1>2, <2>1
  <2>3. ASSUME NEW i \in Instances, NEW a \in Addrs
        PROVE  Changes(i, a)' /\ Planned(i, a)'
    <3>1. Changes(i, a) /\ Planned(i, a)
        BY Zenon DEF Plan
    <3>2. decided'[a] = decided[a] /\ (Told(i, a)' => Told(i, a))
        BY Zenon, <2>1 DEF Told
    <3>3. Works(i, a)' => /\ Works(i, a)
                          /\ job'[Bouncer(i)].kind = job[Bouncer(i)].kind
                          /\ job'[Bouncer(i)].rec = job[Bouncer(i)].rec
        BY Zenon, <2>1 DEF Works, Active
    <3>4. Planned(i, a)'
        BY Zenon, <1>1, <2>1, <2>2, <3>1, <3>2, <3>3, PlannedFrame
    <3>. QED BY Zenon, <2>1, <3>1, <3>4 DEF Changes
  <2>. QED BY Zenon, <2>3 DEF Plan
<1>. QED BY Zenon, <1>1, <1>3, <1>4, PlanLapi, PlanPoll, PlanTurn, PlanTake
       DEF CrowdNext

----------------------------------------------------------------------------
(* What the bouncer has done                                               *)

\* The bouncer has not yet looked for a stale entry of a.
Unseen(i, a) ==
  bouncer[i].phase = "list" \/ (bouncer[i].phase = "ip" /\ a \in Nets)

\* It has read a reply, and has nothing left to do for a.
Quiet(i, a) ==
  /\ ~Coming(i, a) /\ ~Going(i, a) /\ ~Unseen(i, a)
  /\ bouncer[i].startup => bouncer[i].phase # "idle"

Ready(i, a) ==
  /\ Told(i, a) /\ Calm(a) /\ up[i] = "up"
  /\ Quiet(i, a) /\ ~Works(i, a)

\* What is decided is blocked for long enough, what is not is not.
Right(i, a) ==
  /\ InForce(a) => table[i][a] # NoEntry /\ Lasts(table[i][a].val, decided[a])
  /\ decided[a] = NoEntry => table[i][a] = NoEntry

Dealt == \A i \in Instances, a \in Addrs : Ready(i, a) => Right(i, a)

\* Holds initially.
LEMMA DealtInit == CrowdInit => Dealt
  BY Zenon DEF CrowdInit, Init, Dealt, Ready

\* An entry stays right while the clock goes on.
LEMMA RightFrame ==
  ASSUME Types, Types', Shape, Dealt, NEW i \in Instances, NEW a \in Addrs,
         decided'[a] = decided[a], table'[i][a] = table[i][a], now <= now',
         Ready(i, a)' => Ready(i, a)
  PROVE  (Ready(i, a) => Right(i, a))'
<1>. SUFFICES ASSUME Ready(i, a)' PROVE Right(i, a)'
    BY Zenon
<1>1. Right(i, a)
    BY Zenon DEF Dealt
<1>2. InForce(a)' => InForce(a)
    BY Zenon, InForceBefore
<1>. QED BY Zenon, <1>1, <1>2 DEF Right

\* Nothing is under way for an address that is calm.
LEMMA NotBusy ==
  ASSUME ~MultiInstance, Apart, NEW i \in Instances, NEW a \in Addrs,
         Calm(a), ~Works(i, a)
  PROVE  ~Busy(a)
<1>. SUFFICES ASSUME NEW p \in Procs, Active(p), job[p].a = a PROVE FALSE
    BY Zenon DEF Busy
<1>1. p \notin Ordinary
    BY Zenon DEF Apart, Contested
<1>2. p = Bouncer(i)
    BY Zenon, <1>1, OneInstance DEF Ordinary, Procs
<1>. QED BY Zenon, <1>2 DEF Works

\* The type of an entry in memory.
LEMMA TableTyped ==
  ASSUME Types, NEW i \in Instances, NEW a \in Addrs
  PROVE  table[i][a] \in Entries \cup {NoEntry}
<1>1. table \in [Instances -> [Addrs -> Entries \cup {NoEntry}]]
    BY Zenon DEF Types, TypeOK
<1>2. table[i] \in [Addrs -> Entries \cup {NoEntry}]
    BY Zenon, <1>1
<1>. QED BY Zenon, <1>2

\* A calm address that is blocked but not stale is on the list.
LEMMA NotStale ==
  ASSUME ~MultiInstance, SingleInv, Apart, NEW i \in Instances, NEW a \in Addrs,
         up[i] = "up", Calm(a), ~Works(i, a), ~Labelled(table[i][a])
  PROVE  table[i][a] = NoEntry
<1>1. ~Busy(a)
    BY Zenon, NotBusy
<1>2. Held(KeyOf(a)) = NoEntry \/ Held(KeyOf(a)).src = "crowdsec"
    BY Zenon, <1>1 DEF Apart, Settled
<1>3. table[i][a] = NoEntry \/ Held(KeyOf(a)) = table[i][a].val
    BY Zenon, <1>1 DEF SingleInv, Matches, Agrees, ValueOf, Calm
<1>4. table[i][a] # NoEntry => table[i][a].val # NoEntry
  <2>1. table[i][a] \in Entries \cup {NoEntry}
      BY Zenon, TableTyped DEF SingleInv
  <2>2. NoEntry \notin Values
      BY Zenon, EtcdAssumption
  <2>. QED BY Zenon, <2>1, <2>2 DEF Entries
<1>. QED BY Zenon, <1>2, <1>3, <1>4 DEF Labelled

\* Kept by the LAPI.
LEMMA DealtLapi ==
  ASSUME Sound, Types', Dealt, NEW b \in Addrs,
         withdraw(b) \/ \E end \in Ends : decide(b, end)
  PROVE  Dealt'
<1>. SUFFICES ASSUME NEW i \in Instances, NEW a \in Addrs
              PROVE  (Ready(i, a) => Right(i, a))'
    BY Zenon DEF Dealt
<1>1. Types /\ Shape /\ Order
    BY Zenon DEF Sound
<1>2. CASE a = b
  <2>1. a \in unsent'[i].deleted \/ a \in unsent'[i].new
      BY Zenon, <1>1, <1>2, LapiEffect
  <2>. QED BY Zenon, <2>1 DEF Ready, Told
<1>3. CASE a # b
  <2>1. /\ UNCHANGED <<vars, bouncer, missed, overruled>> /\ decided'[a] = decided[a]
        /\ a \in unsent'[i].new <=> a \in unsent[i].new
        /\ a \in unsent'[i].deleted <=> a \in unsent[i].deleted
      BY Zenon, <1>1, <1>3, LapiEffect
  <2>2. UNCHANGED <<table, job, dirty, up>> /\ now' = now
      BY Zenon, <2>1 DEF vars
  <2>3. now <= now'
      BY Zenon, <1>1, <2>2, NowStays
  <2>4. Ready(i, a)' => Ready(i, a)
      BY Zenon, <2>1, <2>2
         DEF Ready, Told, Calm, Quiet, Coming, Going, Unseen, Works, Active
  <2>. QED BY Zenon, <1>1, <2>1, <2>2, <2>3, <2>4, RightFrame
<1>. QED BY Zenon, <1>2, <1>3

\* Kept by a poll: of what the bouncer is told nothing new, it knew.
LEMMA DealtPoll ==
  ASSUME ~MultiInstance, Sound, Types', Plan, Dealt, NEW k \in Instances,
         lost(k) \/ fetchCrowdSecDecisions(k)
  PROVE  Dealt'
<1>. SUFFICES ASSUME NEW i \in Instances, NEW a \in Addrs, Ready(i, a)'
              PROVE  Right(i, a)'
    BY Zenon DEF Dealt
<1>1. Types /\ Shape /\ Order /\ i = k
    BY Zenon, OneInstance DEF Sound
<1>2. Polls(i)
    BY Zenon, <1>1, LostEffect, FetchEffect
<1>3. /\ up[i] = "up" /\ bouncer[i].phase = "idle"
      /\ UNCHANGED <<vars, decided, overruled>>
    BY Zenon, <1>1, <1>2, PollEffect
<1>4. UNCHANGED <<table, job, dirty, up>> /\ now' = now
    BY Zenon, <1>3 DEF vars
<1>5. now <= now'
    BY Zenon, <1>1, <1>4, NowStays
<1>6. Calm(a) /\ ~Works(i, a)
    BY Zenon, <1>3, <1>4 DEF Ready, Calm, Works, Active
<1>7. ASSUME ~bouncer[i].startup, Told(i, a)
      PROVE  Right(i, a)'
  <2>1. Quiet(i, a)
      BY SMTT(30), <1>3, <1>7 DEF Quiet, Coming, Going, Unseen
  <2>2. Ready(i, a)
      BY Zenon, <1>3, <1>6, <1>7, <2>1 DEF Ready
  <2>3. decided'[a] = decided[a] /\ table'[i][a] = table[i][a]
      BY Zenon, <1>3, <1>4
  <2>. QED BY Zenon, <1>1, <1>5, <2>2, <2>3, RightFrame
<1>8. CASE lost(k)
  <2>1. /\ bouncer' = bouncer
        /\ missed'[i] = IF bouncer[i].startup THEN missed[i]
                        ELSE missed[i] \cup unsent[i].new \cup unsent[i].deleted
      BY Zenon, <1>1, <1>8, LostEffect
  <2>2. ~bouncer[i].startup
      BY Zenon, <1>3, <2>1 DEF Ready, Quiet
  <2>3. Told(i, a)
      BY Zenon, <2>1, <2>2 DEF Ready, Told
  <2>. QED BY Zenon, <1>7, <2>2, <2>3
<1>9. CASE fetchCrowdSecDecisions(k)
  <2>1. /\ bouncer'[i].startup = bouncer[i].startup /\ DOMAIN bouncer'[i].new = News(i)
        /\ bouncer[i].startup => bouncer'[i].phase = "list"
        /\ ~bouncer[i].startup =>
             /\ bouncer'[i].phase = "new" /\ bouncer'[i].todo = News(i)
             /\ bouncer'[i].deleted \in {unsent[i].deleted, unsent[i].deleted \ News(i)}
             /\ missed'[i] = (missed[i] \ (News(i) \cup bouncer'[i].deleted))
                               \cup (News(i) \cap bouncer'[i].deleted)
      BY Zenon, <1>1, <1>9, FetchEffect
  <2>2. ~bouncer[i].startup
      BY Zenon, <2>1 DEF Ready, Quiet, Unseen
  <2>3. a \notin News(i) /\ a \notin bouncer'[i].deleted
      BY Zenon, <2>1, <2>2 DEF Ready, Quiet, Coming, Going
  <2>4. a \notin missed[i] /\ a \notin unsent[i].deleted
      BY Zenon, <2>1, <2>2, <2>3 DEF Ready, Told
  <2>5. CASE a \notin unsent[i].new
      BY Zenon, <1>7, <2>2, <2>4, <2>5 DEF Told
  <2>6. CASE a \in unsent[i].new
    <3>1. decided[a] # NoEntry
        BY Zenon, <2>4, <2>6 DEF Plan, Changes
    <3>2. ~InForce(a)
        BY Zenon, <2>3, <2>6 DEF News
    <3>. QED BY Zenon, <1>3, <1>4, <3>1, <3>2 DEF Right, InForce
  <2>. QED BY Zenon, <2>5, <2>6
<1>. QED BY Zenon, <1>8, <1>9

\* Kept when the next part of a reply begins: whatever is stale is found.
LEMMA DealtTurn ==
  ASSUME ~MultiInstance, Sound, Types', SingleInv, Apart, Plan, Dealt,
         NEW k \in Instances, turnReply(k)
  PROVE  Dealt'
<1>. SUFFICES ASSUME NEW i \in Instances, NEW a \in Addrs, Ready(i, a)'
              PROVE  Right(i, a)'
    BY Zenon DEF Dealt
<1>1. Types /\ Shape /\ Order /\ i = k
    BY Zenon, OneInstance DEF Sound
<1>2. /\ ~Active(Bouncer(i)) /\ bouncer[i].todo = {}
      /\ UNCHANGED <<vars, decided, unsent, missed, overruled>>
    BY Zenon, <1>1, TurnEffect
<1>3. UNCHANGED <<table, job, dirty, up>> /\ now' = now
    BY Zenon, <1>2 DEF vars
<1>4. now <= now'
    BY Zenon, <1>1, <1>3, NowStays
<1>5. Told(i, a) /\ Calm(a) /\ up[i] = "up" /\ ~Works(i, a)
    BY Zenon, <1>2, <1>3 DEF Ready, Told, Calm, Works
<1>6. ASSUME Quiet(i, a)
      PROVE  Right(i, a)'
  <2>1. Ready(i, a)
      BY Zenon, <1>5, <1>6 DEF Ready
  <2>2. decided'[a] = decided[a] /\ table'[i][a] = table[i][a]
      BY Zenon, <1>2, <1>3
  <2>. QED BY Zenon, <1>1, <1>4, <2>1, <2>2, RightFrame
<1>7. ASSUME bouncer[i].phase \in {"list", "ip"}, a \notin DOMAIN bouncer[i].new,
             ~Labelled(table[i][a])
      PROVE  Right(i, a)'
  <2>1. table[i][a] = NoEntry
      BY Zenon, <1>5, <1>7, NotStale
  <2>2. bouncer[i].startup /\ bouncer[i].phase # "idle"
      BY Zenon, <1>1, <1>7 DEF Order, InOrder
  <2>3. ~InForce(a)
      BY Zenon, <1>5, <1>7, <2>2 DEF Plan, Planned
  <2>. QED BY Zenon, <1>2, <1>3, <2>1, <2>3 DEF Right, InForce
<1>8. CASE bouncer[i].phase = "list" /\ GoesOn(bouncer[i], bouncer'[i], "ip", stale(i, IPs))
  <2>1. a \notin DOMAIN bouncer[i].new /\ a \notin stale(i, IPs) /\ a \notin Nets
      BY Zenon, <1>8 DEF Ready, Quiet, Coming, Going, Unseen, GoesOn
  <2>2. ~Labelled(table[i][a])
      BY Zenon, <2>1 DEF stale, Addrs
  <2>. QED BY Zenon, <1>7, <1>8, <2>1, <2>2
<1>9. CASE bouncer[i].phase = "ip" /\ GoesOn(bouncer[i], bouncer'[i], "cidr", stale(i, Nets))
  <2>1. a \notin DOMAIN bouncer[i].new /\ a \notin stale(i, Nets)
      BY Zenon, <1>9 DEF Ready, Quiet, Coming, Going, GoesOn
  <2>2. CASE a \in Nets
    <3>1. ~Labelled(table[i][a])
        BY Zenon, <2>1, <2>2 DEF stale
    <3>. QED BY Zenon, <1>7, <1>9, <2>1, <3>1
  <2>3. CASE a \notin Nets
    <3>1. Quiet(i, a)
        BY SMTT(30), <1>2, <1>9, <2>1, <2>3 DEF Quiet, Coming, Going, Unseen
    <3>. QED BY Zenon, <1>6, <3>1
  <2>. QED BY Zenon, <2>2, <2>3
<1>10. CASE bouncer[i].phase = "cidr" /\ GoesOn(bouncer[i], bouncer'[i], "new", DOMAIN bouncer[i].new)
  <2>1. a \notin DOMAIN bouncer[i].new
      BY Zenon, <1>10 DEF Ready, Quiet, Coming, GoesOn
  <2>2. Quiet(i, a)
      BY SMTT(30), <1>2, <1>10, <2>1 DEF Quiet, Coming, Going, Unseen
  <2>. QED BY Zenon, <1>6, <2>2
<1>11. CASE /\ bouncer[i].phase = "new" /\ ~bouncer[i].startup
            /\ GoesOn(bouncer[i], bouncer'[i], "deleted", bouncer[i].deleted)
  <2>1. a \notin bouncer[i].deleted
      BY Zenon, <1>11 DEF Ready, Quiet, Going, GoesOn
  <2>2. Quiet(i, a)
      BY SMTT(30), <1>2, <1>11, <2>1 DEF Quiet, Coming, Going, Unseen
  <2>. QED BY Zenon, <1>6, <2>2
<1>12. CASE (bouncer[i].phase = "new" /\ bouncer[i].startup) \/ bouncer[i].phase = "deleted"
  <2>1. Quiet(i, a)
      BY SMTT(30), <1>2, <1>12 DEF Quiet, Coming, Going, Unseen
  <2>. QED BY Zenon, <1>6, <2>1
<1>. QED BY Zenon, <1>1, <1>8, <1>9, <1>10, <1>11, <1>12, TurnEffect

\* Kept when the bouncer begins a job.
LEMMA DealtTake ==
  ASSUME ~MultiInstance, Sound, Types', Dealt, NEW k \in Instances, NEW b \in Addrs,
         crowdSecApply(k, b) \/ crowdSecRemove(k, b)
  PROVE  Dealt'
<1>. SUFFICES ASSUME NEW i \in Instances, NEW a \in Addrs, Ready(i, a)'
              PROVE  Right(i, a)'
    BY Zenon DEF Dealt
<1>1. Types /\ Shape /\ Order /\ i = k /\ Takes(k, b)
    BY Zenon, TakeEffect, OneInstance DEF Sound
<1>2. /\ Begins /\ ~Active(Bouncer(i)) /\ job'[Bouncer(i)].a = b
      /\ job'[Bouncer(i)].step = "key"
      /\ GoesOn(bouncer[i], bouncer'[i], bouncer[i].phase, bouncer[i].todo \ {b})
      /\ overruled' = overruled \ {b} /\ UNCHANGED <<decided, unsent, missed>>
    BY Zenon, <1>1 DEF Takes
<1>3. table' = table /\ now' = now /\ dirty' = dirty /\ up' = up
    BY Zenon, <1>2 DEF Begins, replicaVars
<1>4. now <= now'
    BY Zenon, <1>1, <1>3, NowStays
<1>5. a # b
    BY ZenonT(30), <1>2 DEF Ready, Works, Active
<1>6. Quiet(i, a)
    BY <1>2, <1>5 DEF Ready, Quiet, Coming, Going, Unseen, GoesOn
<1>7. Ready(i, a)
    BY Zenon, <1>2, <1>3, <1>5, <1>6 DEF Ready, Told, Calm, Works
<1>8. decided'[a] = decided[a] /\ table'[i][a] = table[i][a]
    BY Zenon, <1>2, <1>3
<1>. QED BY Zenon, <1>1, <1>4, <1>7, <1>8, RightFrame

\* Kept by a step of a job: if it ends a job of the bouncer, that job did what
\* was decided.
LEMMA DealtMoves ==
  ASSUME ~MultiInstance, Sound, Types', SingleInv, Apart, Apart', Plan, Dealt,
         NEW q \in Procs, Moves(q), overruled \subseteq overruled',
         UNCHANGED <<decided, unsent, missed>>,
         NEW i \in Instances, up'[i] = "up" => bouncer'[i] = bouncer[i],
         NEW a \in Addrs, Ready(i, a)'
  PROVE  Right(i, a)'
<1>1. Types /\ Shape /\ Order /\ bouncer'[i] = bouncer[i]
    BY Zenon DEF Sound, Ready
<1>2. /\ Active(q) /\ \A p \in Procs : p # q => job'[p] = job[p]
      /\ job'[q] = NoJob \/ job'[q].a = job[q].a
      /\ now' = now /\ up' = up
      /\ job'[q].step = "done" /\ job[q].a \notin dirty' =>
           job[q].clean /\ (persist(q) \/ apply(q))
    BY Zenon, <1>1, MoveEffect
<1>3. Told(i, a) /\ Quiet(i, a) /\ up[i] = "up"
    BY Zenon, <1>1, <1>2 DEF Ready, Told, Quiet, Coming, Going, Unseen
<1>4. now <= now'
    BY Zenon, <1>1, <1>2, NowStays
<1>5. CASE job[q].a # a
  <2>1. table'[i][a] = table[i][a] /\ (a \in dirty' <=> a \in dirty)
      BY Zenon, <1>1, <1>5, MoveFrame
  <2>2. ~Works(i, a)
      BY Zenon, <1>2, <1>5, BouncerFacts DEF Ready, Works, Active
  <2>3. Ready(i, a)
      BY Zenon, <1>3, <2>1, <2>2 DEF Ready, Calm
  <2>4. decided'[a] = decided[a]
      BY Zenon
  <2>. QED BY Zenon, <1>1, <1>4, <2>1, <2>3, <2>4, RightFrame
<1>6. CASE job[q].a = a
  <2>1. job'[q].step = "done"
    <3>1. ~Busy(a)'
      <4>1. \A p \in Ordinary : ~(Active(p)' /\ job'[p].a = a)
          BY Zenon DEF Ready, Apart, Contested
      <4>2. \A p \in Procs : p \in Ordinary \/ p = Bouncer(i)
          BY Zenon, OneInstance DEF Ordinary, Procs
      <4>. QED BY Zenon, <4>1, <4>2 DEF Ready, Works, Busy
    <3>2. NoJob.step = "done"
        BY Zenon DEF NoJob
    <3>. QED BY Zenon, <1>2, <1>6, <3>1, <3>2 DEF Busy, Active
  <2>2. job[q].clean /\ (persist(q) \/ apply(q))
      BY Zenon, <1>2, <1>6, <2>1 DEF Ready, Calm
  <2>3. job[q].step = "mem"
      BY Zenon, <1>1, <2>1, MoveEffect
  <2>4. apply(q)
      BY Zenon, <2>2, <2>3 DEF persist
  <2>5. q \notin Ordinary
      BY Zenon, <1>2, <1>6, <2>2 DEF Apart, Counted, Ready, Calm
  <2>6. q = Bouncer(i) /\ Works(i, a)
      BY Zenon, <1>2, <1>6, <2>5, OneInstance DEF Ordinary, Procs, Works
  <2>7. IF job[q].kind = "put"
          THEN decided[a] # NoEntry /\ Lasts(job[q].rec, decided[a])
          ELSE ~InForce(a)
      BY Zenon, <1>3, <2>6 DEF Plan, Planned
  <2>8. /\ job[q].kind = "put" =>
             table'[i][a] # NoEntry /\ table'[i][a].val = job[q].rec
        /\ job[q].kind # "put" => table'[i][a] = NoEntry
      BY Zenon, <1>1, <1>6, <2>4, ApplyEffect
  <2>9. InForce(a)' <=> InForce(a)
      BY Zenon, <1>2 DEF InForce
  <2>. QED BY Zenon, <2>7, <2>8, <2>9 DEF Right
<1>. QED BY Zenon, <1>5, <1>6

\* Kept by the other steps of Blocklist.
LEMMA DealtOthers ==
  ASSUME ~MultiInstance, Sound, Types', SingleInv, Apart, Apart', Plan, Dealt, others
  PROVE  Dealt'
<1>. SUFFICES ASSUME NEW i \in Instances, NEW a \in Addrs, Ready(i, a)'
              PROVE  Right(i, a)'
    BY Zenon DEF Dealt
<1>1. Types /\ Shape /\ Order
    BY Zenon DEF Sound
<1>2. /\ Next /\ overruled \subseteq overruled' /\ UNCHANGED <<decided, unsent, missed>>
      /\ bouncer'[i] = IF up'[i] = "down" THEN Starting ELSE bouncer[i]
    BY Zenon, <1>1, OthersEffect
<1>3. up'[i] = "up" /\ bouncer'[i] = bouncer[i]
    BY Zenon, <1>2 DEF Ready
<1>4. Told(i, a) /\ Quiet(i, a)
    BY Zenon, <1>2, <1>3 DEF Ready, Told, Quiet, Coming, Going, Unseen
<1>5. ASSUME table' = table, up' = up, dirty' = dirty, now <= now',
             Works(i, a) => Works(i, a)'
      PROVE  Right(i, a)'
  <2>1. Ready(i, a)
      BY Zenon, <1>2, <1>3, <1>4, <1>5 DEF Ready, Calm
  <2>2. decided'[a] = decided[a] /\ table'[i][a] = table[i][a]
      BY Zenon, <1>2, <1>5
  <2>. QED BY Zenon, <1>1, <1>5, <2>1, <2>2, RightFrame
<1>6. CASE Join
  <2>1. Kept(Bouncer(i))
      BY Zenon, <1>6, BouncerFacts DEF Join, Joins, Ordinary
  <2>2. Works(i, a) => Works(i, a)'
      BY Zenon, <2>1 DEF Works, Kept, Active
  <2>3. table' = table /\ up' = up /\ dirty' = dirty /\ now' = now
      BY Zenon, <1>6 DEF Join, Begins, replicaVars
  <2>4. now <= now'
      BY Zenon, <1>1, <2>3, NowStays
  <2>. QED BY Zenon, <1>5, <2>2, <2>3, <2>4
<1>7. CASE \E q \in Procs : Moves(q)
    BY Zenon, <1>2, <1>3, <1>7, DealtMoves
<1>8. CASE clock \/ \E k \in Instances : tick(k) \/ turn(k)
  <2>1. table' = table /\ up' = up /\ dirty' = dirty /\ job' = job /\ now <= now'
      BY Zenon, <1>1, <1>8, TypesQuiet DEF replicaVars
  <2>. QED BY Zenon, <1>5, <2>1 DEF Works, Active
<1>9. ASSUME NEW k \in Instances, boot(k) \/ crash(k) \/ watch(k)
      PROVE  Right(i, a)'
  <2>1. k = i
      BY Zenon, OneInstance
  <2>2. up \in [Instances -> {"down", "loadCIDR", "up"}]
      BY Zenon, <1>1 DEF Types, TypeOK
  <2>3. boot(i)
      BY Zenon, <1>3, <1>9, <2>1, <2>2 DEF crash, watch
  <2>4. up[i] # "up"
      BY Zenon, <2>3 DEF boot
  <2>5. bouncer'[i] = Starting
      BY Zenon, <1>1, <1>3, <2>4 DEF Order, InOrder
  <2>. QED BY Zenon, <2>5, StartingTyped DEF Ready, Quiet
<1>. QED BY Zenon, <1>1, <1>2, <1>6, <1>7, <1>8, <1>9, NextCases

\* Everything the bouncer's promise rests on, in single-instance mode.
MirrorInv == Sound /\ SingleInv /\ Apart /\ Plan /\ Dealt

\* MirrorInv is an inductive invariant.
LEMMA MirrorNext ==
  ASSUME ~MultiInstance, MirrorInv, [CrowdNext]_<<vars, crowdVars>>
  PROVE  MirrorInv'
<1>1. Sound /\ SingleInv /\ Apart /\ Plan /\ Dealt /\ Types
    BY Zenon DEF MirrorInv, Sound
<1>2. Sound' /\ Plan' /\ Apart' /\ Types'
    BY Zenon, <1>1, SoundNext, PlanNext, ApartNext DEF Sound
<1>3. SingleInv'
    BY Zenon, <1>1, CrowdActs, SingleInductive
<1>4. CASE UNCHANGED <<vars, crowdVars>>
  <2>1. UNCHANGED <<table, job, dirty, up, decided, unsent, missed, bouncer, overruled>>
        /\ now' = now
      BY Zenon, <1>4 DEF vars, crowdVars
  <2>2. ASSUME NEW i \in Instances, NEW a \in Addrs
        PROVE  (Ready(i, a) => Right(i, a))'
    <3>1. Ready(i, a)' => Ready(i, a)
        BY Zenon, <2>1
           DEF Ready, Told, Calm, Quiet, Coming, Going, Unseen, Works, Active
    <3>2. Right(i, a) => Right(i, a)'
        BY Zenon, <2>1 DEF Right, InForce
    <3>. QED BY Zenon, <1>1, <3>1, <3>2 DEF Dealt
  <2>. QED BY Zenon, <1>2, <1>3, <2>2 DEF MirrorInv, Dealt
<1>5. CASE CrowdNext
  <2>1. Dealt'
      BY Zenon, <1>1, <1>2, <1>5, DealtLapi, DealtPoll, DealtTurn, DealtTake,
         DealtOthers DEF CrowdNext
  <2>. QED BY Zenon, <1>2, <1>3, <2>1 DEF MirrorInv
<1>. QED BY Zenon, <1>4, <1>5

\* The promise follows.
LEMMA MirrorMirrors ==
  ASSUME ~MultiInstance, MirrorInv
  PROVE  Mirrors
<1>. SUFFICES ASSUME NEW i \in Instances, NEW a \in Addrs,
                     up[i] = "up", bouncer[i].phase = "idle", ~bouncer[i].startup,
                     a \notin unsent[i].new \cup unsent[i].deleted \cup missed[i],
                     a \notin dirty \cup overruled
              PROVE  /\ InForce(a) => table[i][a] # NoEntry /\ ~Expired(table[i][a], now)
                     /\ decided[a] = NoEntry =>
                          /\ table[i][a] = NoEntry
                          /\ Stored(a) = NoEntry \/ a \in unread[i]
    BY Zenon DEF Mirrors
<1>1. Sound /\ SingleInv /\ Apart /\ Dealt /\ Types /\ Shape /\ Order /\ Matches
    BY Zenon DEF MirrorInv, Sound, SingleInv
<1>2. Told(i, a) /\ Calm(a)
    BY Zenon DEF Told, Calm
<1>3. ~Works(i, a)
    BY Zenon, <1>1 DEF Order, InOrder, Works
<1>4. Quiet(i, a)
    BY DEF Quiet, Coming, Going, Unseen
<1>5. Right(i, a)
    BY Zenon, <1>1, <1>2, <1>3, <1>4 DEF Ready, Dealt
<1>6. ASSUME InForce(a)
      PROVE  ~Expired(table[i][a], now)
  <2>1. table[i][a] # NoEntry /\ Lasts(table[i][a].val, decided[a])
      BY Zenon, <1>5, <1>6 DEF Right
  <2>2. table[i][a].val.exp \in Int
    <3>1. table[i][a].val \in Values
      <4>1. table[i][a] \in Entries
          BY Zenon, <1>1, <2>1, TableTyped
      <4>. QED BY Zenon, <4>1 DEF Entries
    <3>2. table[i][a].val.exp \in Exps
        BY Zenon, <3>1, BlocklistAssumption
    <3>3. Expirations \subseteq Int /\ MaxTime \in Nat
        BY Zenon, BlocklistAssumption
    <3>4. 0..2*MaxTime \subseteq Int
        BY <3>3
    <3>. QED BY Zenon, <3>2, <3>3, <3>4 DEF Exps
  <2>3. decided[a] \in Nat /\ (decided[a] = 0 \/ decided[a] > now)
      BY Zenon, <1>1, <1>6, DecidedTyped DEF InForce
  <2>4. now \in Nat
      BY Zenon, <1>1, NowTyped
  <2>5. PICK x \in Int, d \in Nat, t \in Nat :
          x = table[i][a].val.exp /\ d = decided[a] /\ t = now
      BY Zenon, <2>2, <2>3, <2>4
  <2>6. x = 0 \/ (d # 0 /\ x >= d /\ d > t)
      BY Zenon, <2>1, <2>3, <2>5 DEF Lasts
  <2>7. ~(x > 0 /\ x <= t)
      BY <2>6
  <2>. QED BY Zenon, <2>5, <2>7 DEF Expired
<1>7. ASSUME decided[a] = NoEntry
      PROVE  table[i][a] = NoEntry /\ (Stored(a) = NoEntry \/ a \in unread[i])
  <2>1. table[i][a] = NoEntry
      BY Zenon, <1>5, <1>7 DEF Right
  <2>2. ~Busy(a)
      BY Zenon, <1>1, <1>2, <1>3, NotBusy
  <2>3. Held(KeyOf(a)) = NoEntry \/ a \in unread[i]
      BY Zenon, <1>2, <2>1, <2>2, <1>1 DEF Matches, Agrees, ValueOf, Calm
  <2>4. StoreOK
      BY Zenon, <1>1 DEF Types
  <2>. QED BY Zenon, <2>1, <2>3, <2>4, StoredHeld
<1>. QED BY Zenon, <1>5, <1>6, <1>7 DEF Right

\* Single-instance mode: between two polls the blocklist is what CrowdSec
\* decided, for every address whose last change the bouncer was told of and no
\* other job came to since: through lost replies, crashes, restarts with
\* decisions withdrawn in the meantime, failing etcd requests and the clock.
\* A load that fails leaves at most a block in etcd that memory does not have.
THEOREM MirrorsCorrect ==
  ASSUME ~MultiInstance
  PROVE  CrowdSpec => []Mirrors
<1>1. CrowdInit => MirrorInv
  <2>1. CrowdInit => Init
      BY Zenon DEF CrowdInit
  <2>. QED BY Zenon, <2>1, SoundInit, SingleInductive, ApartInit, PlanInit, DealtInit
         DEF MirrorInv
<1>2. MirrorInv /\ [CrowdNext]_<<vars, crowdVars>> => MirrorInv'
    BY Zenon, MirrorNext
<1>3. MirrorInv => Mirrors
    BY Zenon, MirrorMirrors
<1>. QED BY <1>1, <1>2, <1>3, PTL DEF CrowdSpec
=============================================================================
