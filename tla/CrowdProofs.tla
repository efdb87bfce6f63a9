---------------------------- MODULE CrowdProofs ----------------------------
(***************************************************************************)
(* Proofs about module CrowdSec: types, what module Blocklist promises     *)
(* with the bouncers beside it, and what the bouncer leaves alone.         *)
(***************************************************************************)
EXTENDS CrowdSec, BlocklistProofs

----------------------------------------------------------------------------
(* Types                                                                   *)

Phases == {"idle", "list", "ip", "cidr", "new", "deleted"}

\* The durations left of some decisions.
Lefts == {<<>>} \cup UNION {[S -> 0..MaxTime] : S \in SUBSET Addrs}

Bouncers == [startup : BOOLEAN, phase : Phases, new : Lefts,
             deleted : SUBSET Addrs, todo : SUBSET Addrs]

Shape ==
  /\ decided \in [Addrs -> Ends \cup {NoEntry}]
  /\ taken \in 0..MaxDecisions
  /\ unsent \in [Instances -> [new : SUBSET Addrs, deleted : SUBSET Addrs]]
  /\ bouncer \in [Instances -> Bouncers]
  /\ missed \in [Instances -> SUBSET Addrs]
  /\ overruled \subseteq Addrs /\ private \subseteq Addrs

\* The order of the parts of a reply.  A bouncer runs, and has a job, only
\* while its instance is up, and only in a part that has jobs.
InOrder(i) ==
  LET b == bouncer[i] IN
  /\ up[i] # "up" => b = Starting
  /\ b.phase \in {"idle", "list"} => b.todo = {} /\ ~Active(Bouncer(i))
  /\ b.phase \in {"list", "ip", "cidr"} => b.startup
  /\ b.phase = "deleted" => ~b.startup
  /\ b.phase = "new" => b.todo \subseteq DOMAIN b.new
  /\ Active(Bouncer(i)) => job[Bouncer(i)].inst = i

Order == \A i \in Instances : InOrder(i)

Sound == Types /\ Shape /\ Order

\* A list of durations.
LEMMA LeftsTyped ==
  ASSUME NEW f \in Lefts
  PROVE  DOMAIN f \subseteq Addrs /\ \A a \in DOMAIN f : f[a] \in 0..MaxTime
<1>1. CASE f = <<>>
    BY <1>1
<1>2. CASE f \in UNION {[S -> 0..MaxTime] : S \in SUBSET Addrs}
    BY Zenon, <1>2
<1>. QED BY Zenon, <1>1, <1>2 DEF Lefts

\* The loop before its first reply.
LEMMA StartingTyped ==
  /\ Starting \in Bouncers /\ Starting.startup = TRUE
  /\ Starting.phase = "idle" /\ Starting.todo = {} /\ DOMAIN Starting.new = {}
  /\ Starting.deleted = {}
<1>1. <<>> \in Lefts
    BY Zenon DEF Lefts
<1>2. /\ Starting \in Bouncers /\ Starting.startup = TRUE
      /\ Starting.phase = "idle" /\ Starting.todo = {} /\ Starting.new = <<>>
      /\ Starting.deleted = {}
    BY Zenon, <1>1 DEF Starting, Bouncers, Phases
<1>3. DOMAIN <<>> = {}
    OBVIOUS
<1>. QED BY Zenon, <1>2, <1>3

\* The clock.
LEMMA NowTyped ==
  ASSUME Types
  PROVE  now \in Times /\ now \in Nat /\ MaxTime \in Nat
<1>1. now \in Times
    BY Zenon DEF Types, TypeOK
<1>2. MaxTime \in Nat
    BY Zenon, BlocklistAssumption
<1>. QED BY <1>1, <1>2 DEF Times

\* A step that leaves it alone does not turn it back.
LEMMA NowStays ==
  ASSUME Types, now' = now
  PROVE  now <= now'
<1>1. now \in Nat
    BY Zenon, NowTyped
<1>. QED BY <1>1

\* Every process has one bouncer.
LEMMA BouncerFacts ==
  ASSUME NEW i \in Instances
  PROVE  /\ Bouncer(i) \in Procs
         /\ Bouncer(i) \notin Clients \cup Lazies \cup Instances
         /\ \A k \in Instances : Bouncer(k) = Bouncer(i) => k = i
<1>1. Bouncer(i) \in Procs /\ Bouncer(i) \notin Clients \cup Lazies \cup Instances
    BY Zenon, CrowdSecAssumption DEF Procs
<1>2. \A k \in Instances : Bouncer(k) = Bouncer(i) => k = i
    BY DEF Bouncer
<1>. QED BY Zenon, <1>1, <1>2

\* These invariants are what CrowdTypeOK says, and more.
LEMMA SoundTypes == Sound => CrowdTypeOK
<1>. SUFFICES ASSUME Types, Shape, Order PROVE CrowdTypeOK
    BY Zenon DEF Sound
<1>1. ASSUME NEW i \in Instances
      PROVE  LET b == bouncer[i] IN
             /\ b.startup \in BOOLEAN
             /\ b.phase \in {"idle", "list", "ip", "cidr", "new", "deleted"}
             /\ DOMAIN b.new \subseteq Addrs
             /\ \A a \in DOMAIN b.new : b.new[a] \in 0..MaxTime
             /\ b.deleted \cup b.todo \subseteq Addrs
             /\ b.phase = "idle" => b.todo = {} /\ ~Active(Bouncer(i))
             /\ b.phase = "new" => b.todo \subseteq DOMAIN b.new
  <2>1. /\ bouncer[i].startup \in BOOLEAN /\ bouncer[i].phase \in Phases
        /\ bouncer[i].new \in Lefts
        /\ bouncer[i].deleted \subseteq Addrs /\ bouncer[i].todo \subseteq Addrs
      BY Zenon DEF Shape, Bouncers
  <2>2. /\ bouncer[i].phase = "idle" => bouncer[i].todo = {} /\ ~Active(Bouncer(i))
        /\ bouncer[i].phase = "new" => bouncer[i].todo \subseteq DOMAIN bouncer[i].new
      BY Zenon DEF Order, InOrder
  <2>. QED BY Zenon, <2>1, <2>2, LeftsTyped DEF Phases
<1>2. DOMAIN bouncer = Instances
    BY Zenon DEF Shape
<1>. QED BY Zenon, <1>1, <1>2 DEF Shape, CrowdTypeOK

\* Holds initially.
LEMMA SoundInit == CrowdInit => Sound
<1>. SUFFICES ASSUME CrowdInit PROVE Sound
    BY Zenon
<1>1. Types
    BY Zenon, TypesInit DEF CrowdInit
<1>2. Shape
  <2>1. NoChanges \in [new : SUBSET Addrs, deleted : SUBSET Addrs]
      BY Zenon DEF NoChanges
  <2>2. taken \in 0..MaxDecisions
      BY CrowdSecAssumption DEF CrowdInit
  <2>. QED BY Zenon, <2>1, <2>2, StartingTyped DEF CrowdInit, Shape
<1>3. \A p \in Procs : ~Active(p)
    BY Zenon DEF CrowdInit, Init, Active, NoJob
<1>4. Order
  <2>1. \A i \in Instances : bouncer[i] = Starting
      BY Zenon DEF CrowdInit
  <2>. QED BY Zenon, <1>3, <2>1, StartingTyped, BouncerFacts DEF Order, InOrder
<1>. QED BY Zenon, <1>1, <1>2, <1>4 DEF Sound

----------------------------------------------------------------------------
(* The steps of the LAPI and the bouncer                                   *)

\* The LAPI decides, or withdraws a decision.
LEMMA LapiEffect ==
  ASSUME Shape, NEW a \in Addrs,
         withdraw(a) \/ \E end \in Ends : decide(a, end)
  PROVE  /\ UNCHANGED <<vars, bouncer, missed, overruled>>
         /\ decided' \in [Addrs -> Ends \cup {NoEntry}]
         /\ \A b \in Addrs : b # a => decided'[b] = decided[b]
         /\ taken' \in 0..MaxDecisions
         /\ unsent' \in [Instances -> [new : SUBSET Addrs, deleted : SUBSET Addrs]]
         /\ private' \subseteq private
         /\ \A i \in Instances, b \in Addrs : b # a =>
              /\ b \in unsent'[i].new <=> b \in unsent[i].new
              /\ b \in unsent'[i].deleted <=> b \in unsent[i].deleted
         /\ \A i \in Instances :
              IF withdraw(a)
                THEN /\ decided'[a] = NoEntry
                     /\ decided[a] # NoEntry /\ a \in unsent'[i].deleted
                     /\ a \in unsent[i].new => a \in unsent'[i].new
                ELSE /\ decided'[a] # NoEntry /\ a \in unsent'[i].new
                     /\ a \notin private'
<1>1. /\ decided \in [Addrs -> Ends \cup {NoEntry}] /\ taken \in 0..MaxDecisions
      /\ unsent \in [Instances -> [new : SUBSET Addrs, deleted : SUBSET Addrs]]
    BY Zenon DEF Shape
<1>2. CASE withdraw(a)
  <2>1. decided' = [decided EXCEPT ![a] = NoEntry] /\ decided[a] # NoEntry
      BY Zenon, <1>2 DEF withdraw
  <2>2. unsent' = [i \in Instances |-> [unsent[i] EXCEPT !.deleted = @ \cup {a}]]
      BY Zenon, <1>2 DEF withdraw
  <2>3. UNCHANGED <<vars, bouncer, missed, overruled, taken, private>>
      BY Zenon, <1>2 DEF withdraw
  <2>4. /\ unsent' \in [Instances -> [new : SUBSET Addrs, deleted : SUBSET Addrs]]
        /\ \A i \in Instances : /\ unsent'[i].new = unsent[i].new
                                /\ unsent'[i].deleted = unsent[i].deleted \cup {a}
    <3>1. ASSUME NEW i \in Instances
          PROVE  /\ unsent'[i] \in [new : SUBSET Addrs, deleted : SUBSET Addrs]
                 /\ unsent'[i].new = unsent[i].new
                 /\ unsent'[i].deleted = unsent[i].deleted \cup {a}
        BY Zenon, <1>1, <2>2
    <3>. QED BY Zenon, <2>2, <3>1
  <2>. QED BY Zenon, <1>1, <1>2, <2>1, <2>3, <2>4
<1>3. CASE ~withdraw(a)
  <2>1. PICK end \in Ends : decide(a, end)
      BY Zenon, <1>3
  <2>2. decided' = [decided EXCEPT ![a] = end] /\ end # NoEntry
      BY Zenon, <2>1, CrowdSecAssumption DEF decide
  <2>3. unsent' = [i \in Instances |-> [unsent[i] EXCEPT !.new = @ \cup {a}]]
      BY Zenon, <2>1 DEF decide
  <2>4. UNCHANGED <<vars, bouncer, missed, overruled>> /\ private' = private \ {a}
      BY Zenon, <2>1 DEF decide
  <2>5. taken' \in 0..MaxDecisions
      BY <1>1, <2>1, CrowdSecAssumption DEF decide
  <2>6. /\ unsent' \in [Instances -> [new : SUBSET Addrs, deleted : SUBSET Addrs]]
        /\ \A i \in Instances : /\ unsent'[i].new = unsent[i].new \cup {a}
                                /\ unsent'[i].deleted = unsent[i].deleted
    <3>1. ASSUME NEW i \in Instances
          PROVE  /\ unsent'[i] \in [new : SUBSET Addrs, deleted : SUBSET Addrs]
                 /\ unsent'[i].new = unsent[i].new \cup {a}
                 /\ unsent'[i].deleted = unsent[i].deleted
        BY Zenon, <1>1, <2>3
    <3>. QED BY Zenon, <2>3, <3>1
  <2>. QED BY Zenon, <1>1, <1>3, <2>2, <2>4, <2>5, <2>6
<1>. QED BY Zenon, <1>2, <1>3

\* A poll empties the list of changes.
LEMMA PollEffect ==
  ASSUME Shape, NEW i \in Instances, Polls(i)
  PROVE  /\ up[i] = "up" /\ bouncer[i].phase = "idle"
         /\ UNCHANGED <<vars, decided, taken, overruled, private>>
         /\ unsent' \in [Instances -> [new : SUBSET Addrs, deleted : SUBSET Addrs]]
         /\ unsent'[i].new = {} /\ unsent'[i].deleted = {}
         /\ \A k \in Instances : k # i => unsent'[k] = unsent[k]
<1>1. /\ NoChanges \in [new : SUBSET Addrs, deleted : SUBSET Addrs]
      /\ NoChanges.new = {} /\ NoChanges.deleted = {}
    BY Zenon DEF NoChanges
<1>2. /\ unsent' = [unsent EXCEPT ![i] = NoChanges]
      /\ up[i] = "up" /\ bouncer[i].phase = "idle"
      /\ UNCHANGED <<vars, decided, taken, overruled, private>>
    BY Zenon DEF Polls
<1>. QED BY Zenon, <1>1, <1>2 DEF Shape

\* A reply that is lost.
LEMMA LostEffect ==
  ASSUME Shape, NEW i \in Instances, lost(i)
  PROVE  /\ Polls(i) /\ bouncer' = bouncer
         /\ missed' \in [Instances -> SUBSET Addrs]
         /\ \A k \in Instances : k # i => missed'[k] = missed[k]
         /\ missed'[i] = IF bouncer[i].startup THEN missed[i]
                         ELSE missed[i] \cup unsent[i].new \cup unsent[i].deleted
<1>1. /\ missed \in [Instances -> SUBSET Addrs]
      /\ unsent[i].new \subseteq Addrs /\ unsent[i].deleted \subseteq Addrs
    BY Zenon DEF Shape
<1>2. /\ Polls(i) /\ bouncer' = bouncer
      /\ missed' = IF bouncer[i].startup THEN missed
                   ELSE [missed EXCEPT ![i] =
                           missed[i] \cup unsent[i].new \cup unsent[i].deleted]
    BY Zenon DEF lost
<1>. QED BY <1>1, <1>2

\* A reply that is read.
LEMMA FetchEffect ==
  ASSUME Types, Shape, NEW i \in Instances, fetchCrowdSecDecisions(i)
  PROVE  LET b == bouncer[i]
             c == bouncer'[i] IN
         /\ Polls(i) /\ bouncer' \in [Instances -> Bouncers]
         /\ \A k \in Instances : k # i => bouncer'[k] = bouncer[k] /\ missed'[k] = missed[k]
         /\ missed' \in [Instances -> SUBSET Addrs]
         /\ c.startup = b.startup /\ DOMAIN c.new = News(i)
         /\ \A a \in News(i) :
              c.new[a] = IF decided[a] = 0 THEN 0 ELSE decided[a] - now
         /\ b.startup =>
              /\ c.phase = "list" /\ c.todo = b.todo /\ c.deleted = b.deleted
              /\ missed'[i] = {}
         /\ ~b.startup =>
              /\ c.phase = "new" /\ c.todo = News(i)
              /\ c.deleted \in {unsent[i].deleted, unsent[i].deleted \ News(i)}
              /\ missed'[i] = (missed[i] \ (News(i) \cup c.deleted))
                                \cup (News(i) \cap c.deleted)
<1> DEFINE left == [a \in News(i) |-> IF decided[a] = 0 THEN 0 ELSE decided[a] - now]
<1>1. left \in Lefts
  <2>1. ASSUME NEW a \in News(i)
        PROVE  (IF decided[a] = 0 THEN 0 ELSE decided[a] - now) \in 0..MaxTime
    <3>1. decided[a] \in Times \cup {0} /\ (decided[a] = 0 \/ decided[a] > now)
        BY Zenon, CrowdSecAssumption DEF News, InForce, Shape
    <3>2. now \in Times /\ MaxTime \in Nat
        BY Zenon, NowTyped
    <3>. QED BY <3>1, <3>2 DEF Times
  <2>2. News(i) \in SUBSET Addrs
      BY Zenon DEF News
  <2>3. left \in [News(i) -> 0..MaxTime]
      BY Zenon, <2>1
  <2>. HIDE DEF left
  <2>. QED BY Zenon, <2>2, <2>3 DEF Lefts
<1>2. /\ bouncer \in [Instances -> Bouncers] /\ missed \in [Instances -> SUBSET Addrs]
      /\ unsent[i].deleted \subseteq Addrs /\ News(i) \subseteq Addrs
    BY Zenon DEF Shape, News
<1>3. DOMAIN left = News(i) /\ \A a \in News(i) :
        left[a] = IF decided[a] = 0 THEN 0 ELSE decided[a] - now
    BY Zenon
<1>4. CASE bouncer[i].startup
  <2>1. /\ Polls(i) /\ missed' = [missed EXCEPT ![i] = {}]
        /\ bouncer' = [bouncer EXCEPT ![i].phase = "list", ![i].new = left]
      BY Zenon, <1>4 DEF fetchCrowdSecDecisions
  <2>. HIDE DEF left
  <2>2. "list" \in Phases
      BY Zenon DEF Phases
  <2>3. /\ bouncer' \in [Instances -> Bouncers]
        /\ \A k \in Instances : k # i => bouncer'[k] = bouncer[k]
        /\ bouncer'[i].startup = bouncer[i].startup /\ bouncer'[i].phase = "list"
        /\ bouncer'[i].new = left /\ bouncer'[i].deleted = bouncer[i].deleted
        /\ bouncer'[i].todo = bouncer[i].todo
      BY Zenon, <1>1, <1>2, <2>1, <2>2 DEF Bouncers
  <2>. QED BY Zenon, <1>2, <1>3, <1>4, <2>1, <2>3
<1>5. CASE ~bouncer[i].startup
  <2>1. PICK deleted \in {unsent[i].deleted, unsent[i].deleted \ News(i)} :
          /\ bouncer' = [bouncer EXCEPT ![i] =
               [bouncer[i] EXCEPT !.phase = "new", !.new = left, !.todo = News(i),
                         !.deleted = deleted]]
          /\ missed' = [missed EXCEPT ![i] =
               (missed[i] \ (News(i) \cup deleted)) \cup (News(i) \cap deleted)]
      BY Zenon, <1>5 DEF fetchCrowdSecDecisions
  <2>. HIDE DEF left
  <2>2. "new" \in Phases /\ deleted \subseteq Addrs /\ Polls(i)
      BY Zenon, <1>2 DEF Phases, fetchCrowdSecDecisions
  <2>3. /\ bouncer' \in [Instances -> Bouncers]
        /\ \A k \in Instances : k # i => bouncer'[k] = bouncer[k]
        /\ bouncer'[i].startup = bouncer[i].startup /\ bouncer'[i].phase = "new"
        /\ bouncer'[i].new = left /\ bouncer'[i].deleted = deleted
        /\ bouncer'[i].todo = News(i)
      BY Zenon, <1>1, <1>2, <2>1, <2>2 DEF Bouncers
  <2>4. /\ missed' \in [Instances -> SUBSET Addrs]
        /\ missed'[i] = (missed[i] \ (News(i) \cup deleted)) \cup (News(i) \cap deleted)
        /\ \A k \in Instances : k # i => missed'[k] = missed[k]
      BY <1>2, <2>1, <2>2
  <2>. QED BY Zenon, <1>3, <1>5, <2>1, <2>2, <2>3, <2>4
<1>. QED BY Zenon, <1>4, <1>5

\* The loop goes from b to c, which is the part phase with todo.
GoesOn(b, c, phase, todo) ==
  /\ c.phase = phase /\ c.todo = todo
  /\ c.startup = b.startup /\ c.new = b.new /\ c.deleted = b.deleted

\* The next part of a reply.
LEMMA TurnEffect ==
  ASSUME Shape, Order, NEW i \in Instances, turnReply(i)
  PROVE  LET b == bouncer[i]
             c == bouncer'[i] IN
         /\ ~Active(Bouncer(i)) /\ b.todo = {}
         /\ UNCHANGED <<vars, decided, taken, unsent, missed, overruled, private>>
         /\ bouncer' \in [Instances -> Bouncers]
         /\ \A k \in Instances : k # i => bouncer'[k] = bouncer[k]
         /\ \/ b.phase = "list" /\ GoesOn(b, c, "ip", stale(i, IPs))
            \/ b.phase = "ip" /\ GoesOn(b, c, "cidr", stale(i, Nets))
            \/ b.phase = "cidr" /\ GoesOn(b, c, "new", DOMAIN b.new)
            \/ b.phase = "new" /\ ~b.startup /\ GoesOn(b, c, "deleted", b.deleted)
            \/ /\ (b.phase = "new" /\ b.startup) \/ b.phase = "deleted"
               /\ c.phase = "idle" /\ ~c.startup
               /\ c.todo = {} /\ DOMAIN c.new = {} /\ c.deleted = {}
<1>1. /\ bouncer[i].phase # "idle" /\ bouncer[i].todo = {} /\ ~Active(Bouncer(i))
      /\ bouncer' = [bouncer EXCEPT ![i] = Following(i)]
      /\ UNCHANGED <<vars, decided, taken, unsent, missed, overruled, private>>
    BY Zenon DEF turnReply
<1>2. PICK b \in Bouncers : b = bouncer[i]
    BY Zenon DEF Shape
<1>3. /\ b.phase \in Phases /\ b.new \in Lefts /\ b.deleted \subseteq Addrs
      /\ DOMAIN b.new \subseteq Addrs /\ b.startup \in BOOLEAN
    BY Zenon, <1>2, LeftsTyped DEF Bouncers
<1>4. stale(i, IPs) \subseteq Addrs /\ stale(i, Nets) \subseteq Addrs
    BY Zenon DEF stale, Addrs
<1>5. ASSUME NEW phase \in Phases, NEW todo \in SUBSET Addrs
      PROVE  LET c == [b EXCEPT !.phase = phase, !.todo = todo] IN
             c \in Bouncers /\ GoesOn(b, c, phase, todo)
    BY Zenon, <1>2 DEF Bouncers, GoesOn
<1>6. "ip" \in Phases /\ "cidr" \in Phases /\ "new" \in Phases /\ "deleted" \in Phases
    BY Zenon DEF Phases
<1>7. PICK c : c = Following(i)
    BY Zenon
<1>8. /\ c \in Bouncers
      /\ \/ b.phase = "list" /\ GoesOn(b, c, "ip", stale(i, IPs))
         \/ b.phase = "ip" /\ GoesOn(b, c, "cidr", stale(i, Nets))
         \/ b.phase = "cidr" /\ GoesOn(b, c, "new", DOMAIN b.new)
         \/ b.phase = "new" /\ ~b.startup /\ GoesOn(b, c, "deleted", b.deleted)
         \/ /\ (b.phase = "new" /\ b.startup) \/ b.phase = "deleted"
            /\ c.phase = "idle" /\ ~c.startup
            /\ c.todo = {} /\ DOMAIN c.new = {} /\ c.deleted = {}
  <2>1. CASE b.phase = "list"
    <3>1. c = [b EXCEPT !.phase = "ip", !.todo = stale(i, IPs)]
        BY <1>2, <1>7, <2>1 DEF Following
    <3>. QED BY Zenon, <1>4, <1>5, <1>6, <2>1, <3>1
  <2>2. CASE b.phase = "ip"
    <3>1. c = [b EXCEPT !.phase = "cidr", !.todo = stale(i, Nets)]
        BY <1>2, <1>7, <2>2 DEF Following
    <3>. QED BY Zenon, <1>4, <1>5, <1>6, <2>2, <3>1
  <2>3. CASE b.phase = "cidr"
    <3>1. c = [b EXCEPT !.phase = "new", !.todo = DOMAIN b.new]
        BY <1>2, <1>7, <2>3 DEF Following
    <3>. QED BY Zenon, <1>3, <1>5, <1>6, <2>3, <3>1
  <2>4. CASE b.phase = "new" /\ ~b.startup
    <3>1. c = [b EXCEPT !.phase = "deleted", !.todo = b.deleted]
        BY <1>2, <1>7, <2>4 DEF Following
    <3>. QED BY Zenon, <1>3, <1>5, <1>6, <2>4, <3>1
  <2>5. CASE (b.phase = "new" /\ b.startup) \/ b.phase = "deleted"
    <3>1. c = [Starting EXCEPT !.startup = FALSE]
        BY <1>2, <1>7, <2>5 DEF Following
    <3>2. /\ c \in Bouncers /\ c.phase = Starting.phase /\ ~c.startup
          /\ c.todo = Starting.todo /\ c.new = Starting.new
          /\ c.deleted = Starting.deleted
        BY Zenon, <3>1, StartingTyped DEF Bouncers
    <3>. QED BY Zenon, <2>5, <3>2, StartingTyped
  <2>. QED BY Zenon, <1>1, <1>2, <1>3, <2>1, <2>2, <2>3, <2>4, <2>5 DEF Phases
<1>9. /\ bouncer' \in [Instances -> Bouncers] /\ bouncer'[i] = c
      /\ \A k \in Instances : k # i => bouncer'[k] = bouncer[k]
    BY Zenon, <1>1, <1>7, <1>8 DEF Shape
<1>. QED BY Zenon, <1>1, <1>2, <1>8, <1>9

\* A goroutine of lazy expiry begins for a.
LazyFor(p, a) ==
  /\ p \in Lazies /\ ~Active(p)
  /\ job'[p].kind = "lazy" /\ job'[p].a = a /\ job'[p].step = "key"

\* The bouncer begins a job, and perhaps the lazy expiry of what it finds.
Takes(i, a) ==
  LET b == bouncer[i]
      c == bouncer'[i]
      j == job'[Bouncer(i)] IN
  /\ Begins
  /\ ~Active(Bouncer(i)) /\ up[i] = "up" /\ a \in b.todo
  /\ b.phase \notin {"idle", "list"}
  /\ j.a = a /\ j.inst = i /\ j.step = "key"
  /\ b.phase # "new" => j.kind = "delete"
  /\ b.phase = "new" =>
       /\ j.kind = "put" /\ j.rec.src = "crowdsec"
       /\ j.rec.exp = IF b.new[a] = 0 THEN 0 ELSE now + b.new[a]
  /\ \A p \in Procs : p # Bouncer(i) => Kept(p) \/ LazyFor(p, a)
  /\ \A p, q \in Procs :
       (job'[p].clean /\ job'[q].step # "done" /\ job'[q].a = job'[p].a)
         => q = p
  /\ bouncer' \in [Instances -> Bouncers]
  /\ \A k \in Instances : k # i => bouncer'[k] = bouncer[k]
  /\ GoesOn(b, c, b.phase, b.todo \ {a})
  /\ overruled' = overruled \ {a}
  /\ UNCHANGED <<decided, taken, unsent, missed, private>>

\* Both kinds of jobs begin in this way.
LEMMA TakeEffect ==
  ASSUME Types, Shape, Order, NEW i \in Instances, NEW a \in Addrs,
         crowdSecApply(i, a) \/ crowdSecRemove(i, a)
  PROVE  Takes(i, a)
<1>1. /\ ~Active(Bouncer(i)) /\ a \in bouncer[i].todo
      /\ bouncer' = [bouncer EXCEPT ![i].todo = @ \ {a}]
      /\ overruled' = overruled \ {a}
      /\ UNCHANGED <<decided, taken, unsent, missed, private>>
      /\ UNCHANGED <<etcdVars, replicaVars, now, up, sweep, requests, dirty, unread>>
    BY Zenon DEF crowdSecApply, crowdSecRemove, Take
<1>2. up[i] = "up" /\ bouncer[i].phase \notin {"idle", "list"}
    BY Zenon, <1>1, StartingTyped DEF Order, InOrder
<1>3. /\ bouncer' \in [Instances -> Bouncers]
      /\ \A k \in Instances : k # i => bouncer'[k] = bouncer[k]
      /\ GoesOn(bouncer[i], bouncer'[i], bouncer[i].phase, bouncer[i].todo \ {a})
    BY Zenon, <1>1 DEF Shape, Bouncers, GoesOn
<1>4. PICK j, lazy, new :
        /\ new = With([q \in {Bouncer(i)} |-> j], lazy)
        /\ Begin(new) /\ NewOK(new)
        /\ j.a = a /\ j.inst = i /\ j.step = "key"
        /\ bouncer[i].phase # "new" => j.kind = "delete"
        /\ bouncer[i].phase = "new" =>
             /\ j.kind = "put" /\ j.rec.src = "crowdsec"
             /\ j.rec.exp = IF bouncer[i].new[a] = 0 THEN 0 ELSE now + bouncer[i].new[a]
        /\ \A p \in DOMAIN lazy :
             p \in Lazies /\ lazy[p].kind = "lazy" /\ lazy[p].a = a
  <2>1. CASE crowdSecApply(i, a)
    <3>1. bouncer[i].phase = "new"
        BY Zenon, <2>1 DEF crowdSecApply
    <3>2. PICK exp : exp = IF bouncer[i].new[a] = 0 THEN 0 ELSE now + bouncer[i].new[a]
        BY Zenon
    <3>3. exp \in Exps
      <4>1. bouncer[i].new[a] \in 0..MaxTime
          BY Zenon, <1>1, <3>1, LeftsTyped DEF Shape, Order, InOrder, Bouncers
      <4>2. now \in Times /\ MaxTime \in Nat
          BY Zenon, NowTyped
      <4>. QED BY <3>2, <4>1, <4>2 DEF Exps, Times
    <3>4. PICK j : j = NewJob("put", i, a, Record(FirstSeen(i, a), exp, "crowdsec"))
        BY Zenon
    <3>5. StartOK(j) /\ j.kind = "put" /\ j.a = a /\ j.rec.exp = exp /\ j.rec.src = "crowdsec"
        BY SMTT(30), <1>2, <3>3, <3>4, PutStarts, CrowdSecAssumption
    <3>6. j.inst = i /\ j.step = "key"
        BY Zenon, <3>4 DEF NewJob
    <3>7. NewOK([q \in {Bouncer(i)} |-> j])
        BY Zenon, <1>1, <3>5, OneNew, BouncerFacts
    <3>8. PICK lazy \in IF a \in IPs THEN Lazy(i, a, table[i][a]) ELSE {<<>>} :
            Begin(With([q \in {Bouncer(i)} |-> j], lazy))
        BY Zenon, <2>1, <3>2, <3>4 DEF crowdSecApply
    <3>9. /\ NewOK(lazy)
          /\ \A p \in DOMAIN lazy :
               p \in Lazies /\ lazy[p].kind = "lazy" /\ lazy[p].a = a
      <4>1. CASE a \in IPs
        <5>1. lazy \in Lazy(i, a, table[i][a])
            BY Zenon, <3>8, <4>1
        <5>. QED BY <1>2, <5>1, LazyStarts
      <4>2. CASE a \notin IPs
        <5>1. lazy = <<>>
            BY Zenon, <3>8, <4>2
        <5>. QED BY <5>1 DEF NewOK
      <4>. QED BY Zenon, <4>1, <4>2
    <3>10. NewOK(With([q \in {Bouncer(i)} |-> j], lazy))
        BY Zenon, <3>7, <3>9, WithNew
    <3>11. PICK new : new = With([q \in {Bouncer(i)} |-> j], lazy)
        BY Zenon
    <3>12. /\ j.a = a /\ j.inst = i /\ j.step = "key"
           /\ bouncer[i].phase # "new" => j.kind = "delete"
           /\ bouncer[i].phase = "new" =>
                /\ j.kind = "put" /\ j.rec.src = "crowdsec"
                /\ j.rec.exp = IF bouncer[i].new[a] = 0 THEN 0 ELSE now + bouncer[i].new[a]
        BY Zenon, <3>1, <3>2, <3>5, <3>6
    <3>13. Begin(new) /\ NewOK(new)
        BY Zenon, <3>8, <3>10, <3>11
    <3>. QED BY Zenon, <3>9, <3>11, <3>12, <3>13
  <2>2. CASE crowdSecRemove(i, a)
    <3>1. PICK j : j = NewJob("delete", i, a, NoEntry)
        BY Zenon
    <3>2. StartOK(j) /\ j.kind = "delete" /\ j.a = a
        BY <1>2, <3>1, DeleteStarts
    <3>3. j.inst = i /\ j.step = "key"
        BY Zenon, <3>1 DEF NewJob
    <3>4. bouncer[i].phase # "new" /\ Begin([q \in {Bouncer(i)} |-> j])
        BY Zenon, <2>2, <3>1 DEF crowdSecRemove
    <3>5. NewOK([q \in {Bouncer(i)} |-> j])
        BY Zenon, <1>1, <3>2, OneNew, BouncerFacts
    <3>6. PICK none : none = [q \in {} |-> j]
        BY Zenon
    <3>7. PICK new : new = [q \in {Bouncer(i)} |-> j]
        BY Zenon
    <3>8. new = With([q \in {Bouncer(i)} |-> j], none) /\ DOMAIN none = {}
        BY <3>6, <3>7 DEF With
    <3>9. Begin(new) /\ NewOK(new)
        BY Zenon, <3>4, <3>5, <3>7
    <3>. QED BY Zenon, <3>2, <3>3, <3>4, <3>8, <3>9
  <2>. QED BY Zenon, <2>1, <2>2
<1>5. /\ Bouncer(i) \in DOMAIN new /\ new[Bouncer(i)] = j
      /\ \A p \in DOMAIN new : p # Bouncer(i) => p \in DOMAIN lazy /\ new[p] = lazy[p]
    BY Zenon, <1>4 DEF With
<1>6. /\ \A p \in Procs : p \notin DOMAIN new => Kept(p)
      /\ \A p \in DOMAIN new : Fresh(p) /\ Begun(p, new[p])
      /\ \A p, q \in Procs :
           (job'[p].clean /\ job'[q].step # "done" /\ job'[q].a = job'[p].a)
             => q = p
    BY Zenon, <1>4, BeginEffect
<1>7. ASSUME NEW p \in Procs, p # Bouncer(i)
      PROVE  Kept(p) \/ LazyFor(p, a)
  <2>. SUFFICES ASSUME p \in DOMAIN new PROVE LazyFor(p, a)
      BY Zenon, <1>6
  <2>1. /\ p \in Lazies /\ new[p].kind = "lazy" /\ new[p].a = a
        /\ Fresh(p) /\ Begun(p, new[p])
      BY Zenon, <1>4, <1>5, <1>6, <1>7
  <2>. QED BY Zenon, <2>1 DEF Fresh, Begun, LazyFor
<1>8. Begun(Bouncer(i), j)
    BY Zenon, <1>5, <1>6
<1>9. Begins
  <2>1. \E f : NewOK(f) /\ Begin(f)
      BY Zenon, <1>4
  <2>. QED BY Zenon, <1>1, <2>1 DEF Begins, Types, TypeOK
<1>10. LET k == job'[Bouncer(i)] IN
       /\ k.a = a /\ k.inst = i /\ k.step = "key"
       /\ bouncer[i].phase # "new" => k.kind = "delete"
       /\ bouncer[i].phase = "new" =>
            /\ k.kind = "put" /\ k.rec.src = "crowdsec"
            /\ k.rec.exp = IF bouncer[i].new[a] = 0 THEN 0 ELSE now + bouncer[i].new[a]
    BY Zenon, <1>4, <1>8 DEF Begun
<1>. QED BY Zenon, <1>1, <1>2, <1>3, <1>6, <1>7, <1>9, <1>10 DEF Takes

----------------------------------------------------------------------------
(* The steps of the rest of the program                                    *)

\* Those who work on the blocklist beside the bouncers.
Ordinary == Clients \cup Lazies \cup Instances

\* One of them begins a job.
Joins(p) == p \in Ordinary /\ Fresh(p)

\* Some of them do, and nothing else happens.
Join ==
  /\ Begins
  /\ \A p \in Procs : Kept(p) \/ Joins(p)
  /\ \A p, q \in Procs :
       (job'[p].clean /\ job'[q].step # "done" /\ job'[q].a = job'[p].a)
         => q = p

\* No bouncer begins a job in a step of Blocklist.
LEMMA NextCases ==
  ASSUME Types, Next
  PROVE  \/ Join
         \/ \E p \in Procs : Moves(p)
         \/ clock \/ \E i \in Instances : tick(i) \/ turn(i)
         \/ \E i \in Instances : boot(i) \/ crash(i) \/ watch(i)
<1>1. ASSUME NEW i \in Instances, Receive(i) \/ expireNext(i)
      PROVE  Join
  <2>1. Begins /\ \E new : NewOK(new) /\ Own(new) /\ Begin(new)
      BY Zenon, <1>1, Starts
  <2>2. PICK new : NewOK(new) /\ Own(new) /\ Begin(new)
      BY Zenon, <2>1
  <2>3. /\ \A p \in Procs : p \notin DOMAIN new => Kept(p)
        /\ \A p \in DOMAIN new : Fresh(p) /\ Begun(p, new[p])
        /\ \A p, q \in Procs :
             (job'[p].clean /\ job'[q].step # "done" /\ job'[q].a = job'[p].a)
               => q = p
      BY Zenon, <2>2, BeginEffect
  <2>4. ASSUME NEW p \in DOMAIN new
        PROVE  Joins(p)
    BY Zenon, <2>2, <2>3 DEF Own, Joins, Ordinary
  <2>. QED BY Zenon, <2>1, <2>3, <2>4 DEF Join
<1>. QED BY Zenon, <1>1 DEF Next, Worker, Step, Moves

\* A bouncer's job goes on as it is, and a bouncer that has none gets none.
LEMMA BouncerJob ==
  ASSUME Types, Next, NEW i \in Instances, Active(Bouncer(i))'
  PROVE  LET p == Bouncer(i) IN
         /\ Active(p) /\ job'[p].kind = job[p].kind /\ job'[p].inst = job[p].inst
         /\ job'[p].a = job[p].a /\ job'[p].rec = job[p].rec
<1>1. PICK p \in Procs : p = Bouncer(i) /\ p \notin Ordinary /\ job'[p].step # "done"
    BY Zenon, BouncerFacts DEF Ordinary, Active
<1>2. NoJob.step = "done"
    BY Zenon DEF NoJob
<1>3. /\ Active(p) /\ job'[p].kind = job[p].kind /\ job'[p].inst = job[p].inst
      /\ job'[p].a = job[p].a /\ job'[p].rec = job[p].rec
  <2>1. CASE Join
      BY Zenon, <1>1, <2>1 DEF Join, Joins, Kept, Active
  <2>2. ASSUME NEW q \in Procs, Moves(q)
        PROVE  /\ Active(p) /\ job'[p].kind = job[p].kind
               /\ job'[p].inst = job[p].inst
               /\ job'[p].a = job[p].a /\ job'[p].rec = job[p].rec
    <3>1. CASE q = p
        BY Zenon, <1>1, <1>2, <2>2, <3>1, MoveEffect
    <3>2. CASE q # p
      <4>1. job'[p] = job[p]
          BY Zenon, <2>2, <3>2, MoveEffect
      <4>. QED BY Zenon, <1>1, <4>1 DEF Active
    <3>. QED BY Zenon, <3>1, <3>2
  <2>3. CASE clock \/ \E k \in Instances : tick(k) \/ turn(k)
      BY Zenon, <1>1, <2>3, TypesQuiet DEF Active
  <2>4. CASE \E k \in Instances : boot(k) \/ crash(k) \/ watch(k)
    <3>1. job'[p] = job[p] \/ job'[p] = NoJob
        BY Zenon, <2>4 DEF boot, crash, watch
    <3>. QED BY Zenon, <1>1, <1>2, <3>1 DEF Active
  <2>. QED BY Zenon, <2>1, <2>2, <2>3, <2>4, NextCases
<1>. QED BY Zenon, <1>1, <1>3

\* An instance that is loading was not up before.
LEMMA UpEffect ==
  ASSUME Types, Next, NEW i \in Instances
  PROVE  up'[i] \in {"down", "up"} \/ up[i] # "up"
<1>1. up \in [Instances -> {"down", "loadCIDR", "up"}]
    BY Zenon DEF Types, TypeOK
<1>2. CASE Join
    BY Zenon, <1>1, <1>2 DEF Join, Begins
<1>3. CASE \E p \in Procs : Moves(p)
    BY Zenon, <1>1, <1>3, MoveEffect
<1>4. CASE clock \/ \E k \in Instances : tick(k) \/ turn(k)
    BY Zenon, <1>1, <1>4, TypesQuiet
<1>5. ASSUME NEW k \in Instances, boot(k) \/ crash(k) \/ watch(k)
      PROVE  up'[i] \in {"down", "up"} \/ up[i] # "up"
  <2>1. CASE watch(k)
      BY Zenon, <1>1, <2>1 DEF watch
  <2>2. CASE crash(k)
      BY Zenon, <1>1, <2>2 DEF crash
  <2>3. CASE boot(k)
      BY Zenon, <1>1, <2>3 DEF boot
  <2>. QED BY Zenon, <1>5, <2>1, <2>2, <2>3
<1>. QED BY Zenon, <1>2, <1>3, <1>4, <1>5, NextCases

\* What the history variables record of such a step.
LEMMA OthersEffect ==
  ASSUME Types, Shape, others
  PROVE  /\ Next /\ UNCHANGED <<decided, taken, unsent, missed>>
         /\ bouncer' \in [Instances -> Bouncers]
         /\ \A i \in Instances :
              bouncer'[i] = IF up'[i] = "down" THEN Starting ELSE bouncer[i]
         /\ overruled \subseteq overruled' /\ overruled' \subseteq Addrs
         /\ \A p \in Procs : Joins(p) => job'[p].a \in overruled'
         /\ private' \subseteq Addrs
         /\ \A a \in private' :
              /\ a \in private \/ Unknown(a)
              /\ \A p \in Procs : Joins(p) /\ job'[p].a = a => ~PutsLabel(job'[p])
<1> DEFINE begun == {p \in Procs : ~Active(p) /\ job'[p].step = "key"}
<1>1. /\ Next /\ UNCHANGED <<decided, taken, unsent, missed>>
      /\ bouncer' = [i \in Instances |->
                       IF up'[i] = "down" THEN Starting ELSE bouncer[i]]
      /\ overruled' = overruled \cup {job'[p].a : p \in begun}
      /\ private' = (private \cup {job'[p].a : p \in
                   {q \in begun : job'[q].kind = "put" /\ Unknown(job'[q].a)}})
                     \ {job'[p].a : p \in {q \in begun : PutsLabel(job'[q])}}
    BY Zenon DEF others
<1>2. bouncer' \in [Instances -> Bouncers]
    BY Zenon, <1>1, StartingTyped DEF Shape
<1>3. ASSUME NEW p \in begun
      PROVE  Join /\ job'[p].a \in Addrs
  <2>1. p \in Procs /\ ~Active(p) /\ job'[p].step = "key" /\ job'[p] # job[p]
      BY Zenon DEF Active
  <2>2. NoJob.step = "done"
      BY Zenon DEF NoJob
  <2>3. Join
    <3>1. ~\E q \in Procs : Moves(q)
        BY Zenon, <2>1, MoveEffect
    <3>2. ~(clock \/ \E i \in Instances : tick(i) \/ turn(i))
        BY Zenon, <2>1, TypesQuiet
    <3>3. ~\E i \in Instances : boot(i) \/ crash(i) \/ watch(i)
        BY Zenon, <2>1, <2>2 DEF boot, crash, watch
    <3>. QED BY Zenon, <1>1, <3>1, <3>2, <3>3, NextCases
  <2>4. Joins(p)
      BY Zenon, <2>1, <2>3 DEF Join, Kept, Active
  <2>. QED BY Zenon, <2>3, <2>4 DEF Joins, Fresh
<1>4. overruled' \subseteq Addrs /\ private' \subseteq Addrs
    BY ZenonT(30), <1>1, <1>3 DEF Shape
<1>5. \A p \in Procs : Joins(p) => p \in begun
    BY Zenon DEF Joins, Fresh
<1>6. ASSUME NEW a \in private'
      PROVE  /\ a \in private \/ Unknown(a)
             /\ \A p \in Procs : Joins(p) /\ job'[p].a = a => ~PutsLabel(job'[p])
  <2>1. /\ a \in private \/ \E p \in begun : a = job'[p].a /\ Unknown(job'[p].a)
        /\ \A p \in begun : PutsLabel(job'[p]) => a # job'[p].a
      BY Zenon, <1>1
  <2>. HIDE DEF begun
  <2>. QED BY Zenon, <1>5, <2>1
<1>7. \A p \in Procs : Joins(p) => job'[p].a \in overruled'
  <2>. HIDE DEF begun
  <2>. QED BY Zenon, <1>1, <1>5
<1>. QED BY Zenon, <1>1, <1>2, <1>4, <1>6, <1>7

\* Every step is one of Blocklist, or lets the bouncer begin a job, or leaves
\* Blocklist alone.
LEMMA CrowdActs ==
  ASSUME Sound, [CrowdNext]_<<vars, crowdVars>>
  PROVE  [Acts]_vars
<1>. USE DEF Sound
<1>1. ASSUME NEW a \in Addrs, withdraw(a) \/ \E end \in Ends : decide(a, end)
      PROVE  UNCHANGED vars
    BY Zenon, <1>1, LapiEffect
<1>2. ASSUME NEW i \in Instances,
             lost(i) \/ fetchCrowdSecDecisions(i) \/ turnReply(i)
      PROVE  UNCHANGED vars
    BY Zenon, <1>2, LostEffect, FetchEffect, PollEffect DEF turnReply
<1>3. ASSUME NEW i \in Instances, NEW a \in Addrs,
             crowdSecApply(i, a) \/ crowdSecRemove(i, a)
      PROVE  Begins
    BY Zenon, <1>3, TakeEffect DEF Takes
<1>4. others => Next
    BY Zenon DEF others
<1>. QED BY Zenon, <1>1, <1>2, <1>3, <1>4 DEF CrowdNext, Acts

\* Sound is an inductive invariant.
LEMMA SoundNext ==
  ASSUME Sound, [CrowdNext]_<<vars, crowdVars>>
  PROVE  Sound'
<1>1. Types /\ Shape /\ Order
    BY Zenon DEF Sound
<1>2. Types'
    BY Zenon, <1>1, CrowdActs, TypesNext
<1>3. ASSUME NEW a \in Addrs, withdraw(a) \/ \E end \in Ends : decide(a, end)
      PROVE  Shape' /\ Order'
  <2>1. /\ UNCHANGED <<vars, bouncer, missed, overruled>>
        /\ decided' \in [Addrs -> Ends \cup {NoEntry}]
        /\ taken' \in 0..MaxDecisions
        /\ unsent' \in [Instances -> [new : SUBSET Addrs, deleted : SUBSET Addrs]]
        /\ private' \subseteq private
      BY Zenon, <1>1, <1>3, LapiEffect
  <2>2. Order'
      BY Zenon, <1>1, <2>1 DEF Order, InOrder, Active, vars
  <2>. QED BY Zenon, <1>1, <2>1, <2>2 DEF Shape
<1>4. ASSUME NEW i \in Instances, lost(i)
      PROVE  Shape' /\ Order'
  <2>1. Polls(i) /\ bouncer' = bouncer /\ missed' \in [Instances -> SUBSET Addrs]
      BY Zenon, <1>1, <1>4, LostEffect
  <2>2. /\ UNCHANGED <<vars, decided, taken, overruled, private>>
        /\ unsent' \in [Instances -> [new : SUBSET Addrs, deleted : SUBSET Addrs]]
      BY Zenon, <1>1, <2>1, PollEffect
  <2>3. Order'
      BY Zenon, <1>1, <2>1, <2>2 DEF Order, InOrder, Active, vars
  <2>. QED BY Zenon, <1>1, <2>1, <2>2, <2>3 DEF Shape
<1>5. ASSUME NEW i \in Instances, fetchCrowdSecDecisions(i)
      PROVE  Shape' /\ Order'
  <2>1. /\ Polls(i) /\ bouncer' \in [Instances -> Bouncers]
        /\ \A k \in Instances : k # i => bouncer'[k] = bouncer[k]
        /\ missed' \in [Instances -> SUBSET Addrs]
        /\ bouncer'[i].startup = bouncer[i].startup
        /\ DOMAIN bouncer'[i].new = News(i)
        /\ bouncer[i].startup =>
             bouncer'[i].phase = "list" /\ bouncer'[i].todo = bouncer[i].todo
        /\ ~bouncer[i].startup =>
             bouncer'[i].phase = "new" /\ bouncer'[i].todo = News(i)
      BY <1>1, <1>5, FetchEffect
  <2>2. /\ UNCHANGED <<vars, decided, taken, overruled, private>>
        /\ unsent' \in [Instances -> [new : SUBSET Addrs, deleted : SUBSET Addrs]]
        /\ up[i] = "up" /\ bouncer[i].phase = "idle"
      BY Zenon, <1>1, <2>1, PollEffect
  <2>3. ASSUME NEW k \in Instances
        PROVE  InOrder(k)'
    <3>1. up'[k] = up[k] /\ job'[Bouncer(k)] = job[Bouncer(k)] /\ InOrder(k)
        BY Zenon, <1>1, <2>2 DEF Order, vars
    <3>2. CASE k # i
        BY Zenon, <2>1, <3>1, <3>2 DEF InOrder, Active
    <3>3. CASE k = i
      <4>1. bouncer[k].todo = {} /\ ~Active(Bouncer(k))
          BY Zenon, <2>2, <3>1, <3>3 DEF InOrder
      <4>2. bouncer'[k].phase \in {"list", "new"}
          BY Zenon, <2>1, <3>3
      <4>. QED BY SMTT(30), <2>1, <2>2, <3>1, <3>3, <4>1, <4>2 DEF InOrder, Active
    <3>. QED BY Zenon, <3>2, <3>3
  <2>. QED BY Zenon, <1>1, <2>1, <2>2, <2>3 DEF Shape, Order
<1>6. ASSUME NEW i \in Instances, turnReply(i)
      PROVE  Shape' /\ Order'
  <2>1. /\ ~Active(Bouncer(i)) /\ bouncer[i].todo = {} /\ bouncer[i].phase # "idle"
        /\ UNCHANGED <<vars, decided, taken, unsent, missed, overruled, private>>
        /\ bouncer' \in [Instances -> Bouncers]
        /\ \A k \in Instances : k # i => bouncer'[k] = bouncer[k]
        /\ LET b == bouncer[i]
               c == bouncer'[i] IN
           \/ b.phase = "list" /\ GoesOn(b, c, "ip", stale(i, IPs))
           \/ b.phase = "ip" /\ GoesOn(b, c, "cidr", stale(i, Nets))
           \/ b.phase = "cidr" /\ GoesOn(b, c, "new", DOMAIN b.new)
           \/ b.phase = "new" /\ ~b.startup /\ GoesOn(b, c, "deleted", b.deleted)
           \/ c.phase = "idle" /\ c.todo = {}
      BY Zenon, <1>1, <1>6, TurnEffect DEF turnReply
  <2>2. up[i] = "up"
      BY Zenon, <1>1, <2>1, StartingTyped DEF Order, InOrder
  <2>3. ASSUME NEW k \in Instances, k # i
        PROVE  /\ bouncer'[k] = bouncer[k] /\ up'[k] = up[k]
               /\ job'[Bouncer(k)] = job[Bouncer(k)]
      BY Zenon, <2>1, <2>3 DEF vars
  <2>4. /\ up'[i] = "up" /\ ~Active(Bouncer(i))'
        /\ LET b == bouncer[i]
               c == bouncer'[i] IN
           /\ c.phase \in {"idle", "list"} => c.todo = {}
           /\ c.phase \in {"list", "ip", "cidr"} => c.startup
           /\ c.phase = "deleted" => ~c.startup
           /\ c.phase = "new" => c.todo \subseteq DOMAIN c.new
      BY SMTT(30), <1>1, <2>1, <2>2 DEF Order, InOrder, GoesOn, Active, vars
  <2>5. ASSUME NEW k \in Instances
        PROVE  InOrder(k)'
    <3>1. CASE k # i
      <4>1. /\ bouncer'[k] = bouncer[k] /\ up'[k] = up[k]
            /\ job'[Bouncer(k)] = job[Bouncer(k)]
          BY Zenon, <2>3, <3>1
      <4>2. InOrder(k)
          BY Zenon, <1>1 DEF Order
      <4>. QED BY Zenon, <4>1, <4>2 DEF InOrder, Active
    <3>2. CASE k = i
        BY Zenon, <2>4, <3>2 DEF InOrder
    <3>. QED BY Zenon, <3>1, <3>2
  <2>. QED BY Zenon, <1>1, <2>1, <2>5 DEF Shape, Order
<1>7. ASSUME NEW i \in Instances, NEW a \in Addrs,
             crowdSecApply(i, a) \/ crowdSecRemove(i, a)
      PROVE  Shape' /\ Order'
  <2>1. /\ up[i] = "up" /\ Begins
        /\ bouncer[i].phase \notin {"idle", "list"}
        /\ job'[Bouncer(i)].inst = i
        /\ \A p \in Procs : p # Bouncer(i) => Kept(p) \/ LazyFor(p, a)
        /\ bouncer' \in [Instances -> Bouncers]
        /\ \A k \in Instances : k # i => bouncer'[k] = bouncer[k]
        /\ GoesOn(bouncer[i], bouncer'[i], bouncer[i].phase, bouncer[i].todo \ {a})
        /\ overruled' = overruled \ {a}
        /\ UNCHANGED <<decided, taken, unsent, missed, private>>
      BY ZenonT(30), <1>1, <1>7, TakeEffect DEF Takes
  <2>2. up' = up
      BY Zenon, <2>1 DEF Begins
  <2>3. ASSUME NEW k \in Instances, k # i
        PROVE  Kept(Bouncer(k))
      BY Zenon, <2>1, <2>3, BouncerFacts DEF LazyFor
  <2>4. ASSUME NEW k \in Instances
        PROVE  InOrder(k)'
    <3>1. InOrder(k)
        BY Zenon, <1>1 DEF Order
    <3>2. CASE k # i
        BY Zenon, <2>1, <2>2, <2>3, <3>1, <3>2 DEF InOrder, Kept, Active
    <3>3. CASE k = i
        BY <2>1, <2>2, <3>1, <3>3 DEF InOrder, GoesOn
    <3>. QED BY Zenon, <3>2, <3>3
  <2>. QED BY Zenon, <1>1, <2>1, <2>4 DEF Shape, Order
<1>8. ASSUME others
      PROVE  Shape' /\ Order'
  <2>1. /\ Next /\ UNCHANGED <<decided, taken, unsent, missed>>
        /\ bouncer' \in [Instances -> Bouncers]
        /\ \A i \in Instances :
             bouncer'[i] = IF up'[i] = "down" THEN Starting ELSE bouncer[i]
        /\ overruled' \subseteq Addrs /\ private' \subseteq Addrs
      BY Zenon, <1>1, <1>8, OthersEffect
  <2>2. ASSUME NEW i \in Instances
        PROVE  LET b == bouncer'[i] IN
               /\ up'[i] # "up" => b = Starting
               /\ b.phase \in {"idle", "list"} => b.todo = {} /\ ~Active(Bouncer(i))'
               /\ b.phase \in {"list", "ip", "cidr"} => b.startup
               /\ b.phase = "deleted" => ~b.startup
               /\ b.phase = "new" => b.todo \subseteq DOMAIN b.new
               /\ Active(Bouncer(i))' => job'[Bouncer(i)].inst = i
    <3>1. Active(Bouncer(i))' =>
            /\ Active(Bouncer(i)) /\ job'[Bouncer(i)].inst = i
            /\ up'[i] = "up"
      <4>1. Active(Bouncer(i))' =>
              Active(Bouncer(i)) /\ job'[Bouncer(i)].inst = job[Bouncer(i)].inst
          BY Zenon, <1>1, <2>1, BouncerJob
      <4>2. Active(Bouncer(i))' => up'[job'[Bouncer(i)].inst] = "up"
          BY Zenon, <1>2, BouncerFacts DEF Types, Running
      <4>. QED BY Zenon, <1>1, <4>1, <4>2 DEF Order, InOrder
    <3>2. up'[i] \in {"down", "loadCIDR", "up"}
        BY Zenon, <1>2 DEF Types, TypeOK
    <3>3. CASE up'[i] = "down"
        BY Zenon, <2>1, <3>1, <3>3, StartingTyped
    <3>4. CASE up'[i] # "down"
      <4>1. bouncer'[i] = bouncer[i]
          BY Zenon, <2>1, <3>4
      <4>2. up'[i] # "up" => up[i] # "up"
          BY Zenon, <1>1, <2>1, <3>4, UpEffect
      <4>. QED BY Zenon, <1>1, <3>1, <4>1, <4>2 DEF Order, InOrder
    <3>. QED BY Zenon, <3>3, <3>4
  <2>3. Order'
      BY Zenon, <2>2 DEF Order, InOrder
  <2>. QED BY Zenon, <1>1, <2>1, <2>3 DEF Shape
<1>9. CASE UNCHANGED <<vars, crowdVars>>
  <2>1. Shape'
      BY Zenon, <1>1, <1>9 DEF Shape, crowdVars
  <2>2. Order'
      BY Zenon, <1>1, <1>9 DEF Order, InOrder, Active, vars, crowdVars
  <2>. QED BY Zenon, <1>2, <2>1, <2>2 DEF Sound
<1>10. CASE CrowdNext
  <2>1. Shape' /\ Order'
      BY Zenon, <1>3, <1>4, <1>5, <1>6, <1>7, <1>8, <1>10 DEF CrowdNext
  <2>. QED BY Zenon, <1>2, <2>1 DEF Sound
<1>. QED BY Zenon, <1>9, <1>10

\* In both modes, with lost replies, restarts and every other fault: the state
\* of each crowdSecLoop has its type, and a bouncer between two polls has
\* nothing left over from a reply and no job under way.
THEOREM CrowdTypeCorrect == CrowdSpec => []CrowdTypeOK
<1>1. Sound /\ [CrowdNext]_<<vars, crowdVars>> => Sound'
    BY Zenon, SoundNext
<1>. QED BY <1>1, SoundInit, SoundTypes, PTL DEF CrowdSpec

\* With the bouncers at work: types, and the PTR record of an address at rest.
THEOREM CrowdPtrCorrect == CrowdSpec => [](TypeOK /\ PtrInStep)
<1>1. CrowdInit => Sound /\ Pairs
    BY Zenon, SoundInit, PairsInductive DEF CrowdInit
<1>2. Sound /\ Pairs /\ [CrowdNext]_<<vars, crowdVars>> => Sound' /\ Pairs'
    BY Zenon, SoundNext, CrowdActs, PairsInductive
<1>3. Pairs => TypeOK /\ PtrInStep
    BY Zenon DEF Pairs, Types
<1>. QED BY <1>1, <1>2, <1>3, PTL DEF CrowdSpec

\* With the bouncers at work: a job of expiry still only ever concerns an
\* address for which a block was written whose time has passed, in
\* multi-instance mode whatever fails, and in single-instance mode as long as
\* no request to etcd fails.
THEOREM CrowdExpiryCorrect ==
  ASSUME MultiInstance \/ "etcd" \notin Faults
  PROVE  CrowdSpec => []ExpiryJustified
<1>1. CrowdInit => Sound /\ Expiry
    BY Zenon, SoundInit, ExpiryInductive DEF CrowdInit
<1>2. Sound /\ Expiry /\ [CrowdNext]_<<vars, crowdVars>> => Sound' /\ Expiry'
    BY Zenon, SoundNext, CrowdActs, ExpiryInductive
<1>3. Expiry => ExpiryJustified
    BY Zenon, ExpiryInductive
<1>. QED BY <1>1, <1>2, <1>3, PTL DEF CrowdSpec

\* Multi-instance mode, with the bouncers at work: the bouncer too changes the
\* tables only through etcd and the watch loops.
THEOREM CrowdKeepsToReplica ==
  ASSUME MultiInstance
  PROVE  CrowdSpec => KeepsToReplica
<1>1. CrowdInit => Sound /\ Expiry /\ etcdInit /\ ReplicaInit
    BY Zenon, SoundInit, ExpiryInductive DEF CrowdInit, Init
<1>2. Sound /\ Expiry /\ [CrowdNext]_<<vars, crowdVars>> =>
        Sound' /\ Expiry' /\ [ReplicaNext]_<<etcdVars, replicaVars>>
    BY Zenon, SoundNext, CrowdActs, ExpiryInductive, ActsReplica
<1>. QED BY <1>1, <1>2, PTL DEF CrowdSpec, KeepsToReplica, ReplicaSpec

\* Single-instance mode, with the bouncer at work and loads that fail: memory
\* has what etcd has of an address at rest, less what a load missed, a client
\* finds what it put, and a block that is written over keeps its first_seen.
THEOREM CrowdSingleCorrect ==
  ASSUME ~MultiInstance
  PROVE  CrowdSpec => [](InStep /\ ReadYourWrites) /\ FirstSeenKept
<1>1. CrowdInit => Sound /\ SingleInv
    BY Zenon, SoundInit, SingleInductive DEF CrowdInit
<1>2. Sound /\ SingleInv /\ [CrowdNext]_<<vars, crowdVars>> => Sound' /\ SingleInv'
    BY Zenon, SoundNext, CrowdActs, SingleInductive
<1>3. Sound /\ SingleInv /\ [CrowdNext]_<<vars, crowdVars>> =>
        [\A p \in Procs : Keeps(p)]_vars
    BY Zenon, CrowdActs, SingleKeeps
<1>. QED BY <1>1, <1>2, <1>3, SingleInStep, SingleReads, PTL
       DEF CrowdSpec, FirstSeenKept, Keeps

----------------------------------------------------------------------------
(* What the bouncer leaves alone                                           *)

\* What a step of a job may leave of its own address, in single-instance mode.
LEMMA MoveOwn ==
  ASSUME Types, ~MultiInstance, NEW p \in Procs, Moves(p),
         NEW a \in Addrs, job[p].a = a
  PROVE  /\ \/ Held(KeyOf(a))' = Held(KeyOf(a))
            \/ Held(KeyOf(a))' = IF job[p].kind = "put" THEN job[p].rec ELSE NoEntry
         /\ \A i \in Instances :
              \/ table'[i][a] = table[i][a]
              \/ IF job[p].kind = "put"
                   THEN table'[i][a] # NoEntry /\ table'[i][a].val = job[p].rec
                   ELSE table'[i][a] = NoEntry
<1>1. CASE persist(p)
  <2>1. PICK key : key = IF job[p].step = "key" THEN KeyOf(a) ELSE reverseKey(a)
      BY Zenon
  <2>2. /\ job[p].step = "key" =>
             Held(key)' = IF job[p].kind = "put" THEN job[p].rec ELSE NoEntry
        /\ \A k \in Keys : k # key => Held(k)' = Held(k)
      BY <1>1, <2>1, PersistEffect
  <2>3. job[p].step # "key" => a \in IPs
      BY Zenon, <1>1, JobTypes DEF persist
  <2>4. /\ job[p].step # "key" => KeyOf(a) \in Keys /\ KeyOf(a) # key
        /\ job[p].step = "key" => key = KeyOf(a)
      BY Zenon, <2>1, <2>3, KeyFacts
  <2>5. table' = table
      BY Zenon, <1>1 DEF persist, replicaVars
  <2>. QED BY Zenon, <2>2, <2>4, <2>5
<1>2. CASE apply(p)
  <2>1. hist' = hist /\ kv' = kv
      BY Zenon, <1>2 DEF apply, etcdVars
  <2>2. Held(KeyOf(a))' = Held(KeyOf(a))
      BY <2>1 DEF Held
  <2>. QED BY Zenon, <1>2, <2>2, ApplyEffect
<1>3. CASE persistFails(p) \/ persistHangs(p)
    BY Zenon, <1>3 DEF persistFails, persistHangs, etcdVars, replicaVars, Held
<1>. QED BY Zenon, <1>1, <1>2, <1>3 DEF Moves

\* Nothing in memory or in etcd says that a was blocked by CrowdSec.
Unmarked(a) ==
  /\ ~Labelled(Stored(a))
  /\ \A i \in Instances : ~Labelled(table[i][a])

Marked(v) == v # NoEntry /\ v.src = "crowdsec"

LabelIsHeld ==
  \A a \in Addrs : Labelled(Stored(a)) <=> Marked(Held(KeyOf(a)))

\* The label in etcd.
LEMMA StoredLabel == StoreOK => LabelIsHeld
  BY Zenon, StoredHeld DEF Labelled, ValueOf, Marked, LabelIsHeld

\* No job that is under way writes such a block of a.
Unnamed(a) ==
  \A p \in Procs : ~(Active(p) /\ job[p].a = a /\ PutsLabel(job[p]))

\* The label comes with the job that writes it.
LEMMA UnmarkedKept ==
  ASSUME Types, Types', ~MultiInstance, Next, NEW a \in Addrs, Unmarked(a),
         Unnamed(a)
  PROVE  Unmarked(a)'
<1>1. StoreOK /\ StoreOK'
    BY Zenon DEF Types
<1>2. ASSUME UNCHANGED <<etcdVars, replicaVars>>
      PROVE  Unmarked(a)'
    BY Zenon, <1>2 DEF Unmarked, Labelled, Stored, etcdVars, replicaVars
<1>3. CASE Join
    BY Zenon, <1>2, <1>3 DEF Join, Begins
<1>4. CASE clock \/ \E i \in Instances : tick(i) \/ turn(i)
    BY Zenon, <1>2, <1>4, TypesQuiet
<1>5. ASSUME NEW p \in Procs, Moves(p)
      PROVE  Unmarked(a)'
  <2>1. PICK h : h = Held(KeyOf(a))
      BY Zenon
  <2>2. PICK g : g = Held(KeyOf(a))'
      BY Zenon
  <2>3. ~Marked(h)
      BY Zenon, <1>1, <2>1, StoredLabel DEF Unmarked, LabelIsHeld
  <2>4. Labelled(Stored(a))' <=> Marked(g)
    <3>1. LabelIsHeld'
        BY <1>1, StoredLabel, PTL
    <3>. QED BY Zenon, <2>2, <3>1 DEF Marked, LabelIsHeld
  <2>5. CASE job[p].a # a
    <3>1. g = h /\ \A i \in Instances : table'[i][a] = table[i][a]
        BY Zenon, <1>5, <2>1, <2>2, <2>5, MoveFrame
    <3>. QED BY Zenon, <2>3, <2>4, <3>1 DEF Unmarked, Labelled
  <2>6. CASE job[p].a = a
    <3>1. Active(p)
        BY Zenon, <1>5, MoveEffect
    <3>2. job[p].kind = "put" => job[p].rec.src # "crowdsec"
        BY Zenon, <2>6, <3>1 DEF Unnamed, PutsLabel
    <3>3. /\ g = h \/ g = IF job[p].kind = "put" THEN job[p].rec ELSE NoEntry
          /\ \A i \in Instances :
               \/ table'[i][a] = table[i][a]
               \/ IF job[p].kind = "put"
                    THEN table'[i][a] # NoEntry /\ table'[i][a].val = job[p].rec
                    ELSE table'[i][a] = NoEntry
        BY Zenon, <1>5, <2>1, <2>2, <2>6, MoveOwn
    <3>. QED BY Zenon, <2>3, <2>4, <3>2, <3>3 DEF Unmarked, Labelled, Marked
  <2>. QED BY Zenon, <2>5, <2>6
<1>6. ASSUME NEW k \in Instances, boot(k) \/ crash(k) \/ watch(k)
      PROVE  Unmarked(a)'
  <2>1. hist' = hist /\ kv' = kv /\ (boot(k) \/ crash(k))
      BY Zenon, <1>6 DEF boot, crash, watch, etcdVars
  <2>2. Stored(a)' = Stored(a)
      BY Zenon, <2>1 DEF Stored
  <2>3. table \in [Instances -> [Addrs -> Entries \cup {NoEntry}]]
      BY Zenon DEF Types, TypeOK
  <2>4. \A i \in Instances : table'[i][a] \in {table[i][a], Stored(a), NoEntry}
    <3>1. ASSUME NEW w \in Watchers, Load(k, w)
          PROVE  \A i \in Instances : table'[i][a] \in {table[i][a], Stored(a), NoEntry}
        BY Zenon, <3>1, LoadEffect
    <3>2. CASE boot(k)
        BY Zenon, <3>1, <3>2 DEF boot, Watchers
    <3>3. CASE crash(k)
        BY Zenon, <2>3, <3>3 DEF crash, Lose
    <3>. QED BY Zenon, <2>1, <3>2, <3>3
  <2>. QED BY Zenon, <2>2, <2>4 DEF Unmarked, Labelled
<1>. QED BY Zenon, <1>3, <1>4, <1>5, <1>6, NextCases

\* And such a job has begun as one.
LEMMA UnnamedKept ==
  ASSUME Types, Next, NEW a \in Addrs, Unnamed(a),
         \A p \in Procs : Joins(p) /\ job'[p].a = a => ~PutsLabel(job'[p])
  PROVE  Unnamed(a)'
<1>. SUFFICES ASSUME NEW p \in Procs, job'[p].step # "done", job'[p].a = a,
                     PutsLabel(job'[p])
              PROVE  FALSE
    BY Zenon DEF Unnamed, Active, PutsLabel
<1>1. NoJob.kind = "delete"
    BY Zenon DEF NoJob
<1>2. /\ job'[p] # job[p]
      /\ ~(Active(p) /\ job'[p].kind = job[p].kind /\ job'[p].a = job[p].a
             /\ job'[p].rec = job[p].rec)
    BY Zenon DEF Unnamed, Active, PutsLabel
<1>3. CASE Join
    BY Zenon, <1>2, <1>3 DEF Join, Kept, Active
<1>4. ASSUME NEW q \in Procs, Moves(q)
      PROVE  FALSE
    BY Zenon, <1>1, <1>2, <1>4, MoveEffect DEF PutsLabel
<1>5. CASE clock \/ \E i \in Instances : tick(i) \/ turn(i)
    BY Zenon, <1>2, <1>5, TypesQuiet
<1>6. CASE \E i \in Instances : boot(i) \/ crash(i) \/ watch(i)
  <2>1. job'[p] = job[p] \/ job'[p] = NoJob
      BY Zenon, <1>6 DEF boot, crash, watch
  <2>. QED BY Zenon, <1>1, <1>2, <2>1 DEF PutsLabel
<1>. QED BY Zenon, <1>3, <1>4, <1>5, <1>6, NextCases

Private == \A a \in private : Unknown(a)

\* Kept by every step.
LEMMA PrivateNext ==
  ASSUME ~MultiInstance, Sound, Sound', Private,
         [CrowdNext]_<<vars, crowdVars>>
  PROVE  Private'
<1>1. Types /\ Types' /\ Shape /\ Order
    BY Zenon DEF Sound
<1>. SUFFICES ASSUME NEW a \in private'
              PROVE  Unknown(a)'
    BY Zenon DEF Private
<1>2. a \in Addrs
    BY Zenon DEF Sound, Shape
<1>3. ASSUME UNCHANGED vars, Unknown(a), decided'[a] = NoEntry,
             \A i \in Instances :
               /\ a \notin unsent'[i].new \cup unsent'[i].deleted
               /\ a \notin DOMAIN bouncer'[i].new \cup bouncer'[i].deleted
                             \cup bouncer'[i].todo
      PROVE  Unknown(a)'
  <2>1. UNCHANGED <<hist, kv, table, job>>
      BY Zenon, <1>3 DEF vars
  <2>. QED BY Zenon, <1>3, <2>1 DEF Unknown, Stored, Labelled, Active, PutsLabel
<1>4. ASSUME NEW b \in Addrs, withdraw(b) \/ \E end \in Ends : decide(b, end)
      PROVE  Unknown(a)'
  <2>1. /\ UNCHANGED <<vars, bouncer>> /\ private' \subseteq private
        /\ \A x \in Addrs : x # b => decided'[x] = decided[x]
        /\ \A i \in Instances, x \in Addrs : x # b =>
              /\ x \in unsent'[i].new <=> x \in unsent[i].new
              /\ x \in unsent'[i].deleted <=> x \in unsent[i].deleted
        /\ \A i \in Instances :
              IF withdraw(b) THEN decided[b] # NoEntry ELSE b \notin private'
      BY Zenon, <1>1, <1>4, LapiEffect
  <2>2. Unknown(a)
      BY Zenon, <2>1 DEF Private
  <2>3. a # b
    <3>1. \E i \in Instances : TRUE
        BY Zenon, BlocklistAssumption
    <3>. QED BY Zenon, <2>1, <2>2, <3>1 DEF Unknown
  <2>4. decided'[a] = NoEntry /\ \A i \in Instances :
          /\ a \notin unsent'[i].new \cup unsent'[i].deleted
          /\ a \notin DOMAIN bouncer'[i].new \cup bouncer'[i].deleted
                        \cup bouncer'[i].todo
      BY Zenon, <1>2, <2>1, <2>2, <2>3 DEF Unknown
  <2>. QED BY Zenon, <1>3, <2>1, <2>2, <2>4
<1>5. ASSUME NEW k \in Instances, Polls(k), a \in private => Unknown(a),
             \A i \in Instances : i # k => bouncer'[i] = bouncer[i],
             a \notin DOMAIN bouncer'[k].new \cup bouncer'[k].deleted
                        \cup bouncer'[k].todo
      PROVE  Unknown(a)'
  <2>1. /\ UNCHANGED <<vars, decided, private>>
        /\ unsent'[k].new = {} /\ unsent'[k].deleted = {}
        /\ \A i \in Instances : i # k => unsent'[i] = unsent[i]
      BY Zenon, <1>1, <1>5, PollEffect
  <2>2. Unknown(a)
      BY Zenon, <1>5, <2>1
  <2>3. decided'[a] = NoEntry
      BY Zenon, <2>1, <2>2 DEF Unknown
  <2>4. ASSUME NEW i \in Instances
        PROVE  /\ a \notin unsent'[i].new \cup unsent'[i].deleted
               /\ a \notin DOMAIN bouncer'[i].new \cup bouncer'[i].deleted
                             \cup bouncer'[i].todo
    <3>1. CASE i = k
        BY Zenon, <1>5, <2>1, <3>1
    <3>2. CASE i # k
        BY Zenon, <1>5, <2>1, <2>2, <3>2 DEF Unknown
    <3>. QED BY Zenon, <3>1, <3>2
  <2>. QED BY Zenon, <1>3, <2>1, <2>2, <2>3, <2>4
<1>6. ASSUME NEW k \in Instances, lost(k)
      PROVE  Unknown(a)'
  <2>1. Polls(k) /\ bouncer' = bouncer
      BY Zenon, <1>1, <1>6, LostEffect
  <2>2. private' = private
      BY Zenon, <2>1 DEF Polls
  <2>3. Unknown(a)
      BY Zenon, <2>2 DEF Private
  <2>4. a \notin DOMAIN bouncer'[k].new \cup bouncer'[k].deleted \cup bouncer'[k].todo
      BY Zenon, <2>1, <2>3 DEF Unknown
  <2>. QED BY Zenon, <1>5, <2>1, <2>3, <2>4
<1>7. ASSUME NEW k \in Instances, fetchCrowdSecDecisions(k)
      PROVE  Unknown(a)'
  <2>1. /\ Polls(k) /\ \A i \in Instances : i # k => bouncer'[i] = bouncer[i]
        /\ DOMAIN bouncer'[k].new = News(k)
        /\ bouncer'[k].todo \in {bouncer[k].todo, News(k)}
        /\ bouncer'[k].deleted \in {bouncer[k].deleted, unsent[k].deleted,
                                    unsent[k].deleted \ News(k)}
      BY <1>1, <1>7, FetchEffect
  <2>2. private' = private
      BY Zenon, <2>1 DEF Polls
  <2>3. Unknown(a)
      BY Zenon, <2>2 DEF Private
  <2>4. a \notin News(k)
      BY Zenon, <2>3 DEF Unknown, News, InForce
  <2>5. /\ a \notin unsent[k].deleted /\ a \notin bouncer[k].deleted
        /\ a \notin bouncer[k].todo
      BY Zenon, <2>3 DEF Unknown
  <2>6. a \notin DOMAIN bouncer'[k].new \cup bouncer'[k].deleted \cup bouncer'[k].todo
      BY Zenon, <2>1, <2>4, <2>5
  <2>. QED BY ZenonT(30), <1>5, <2>1, <2>3, <2>6
<1>8. ASSUME NEW k \in Instances, turnReply(k)
      PROVE  Unknown(a)'
  <2>1. /\ UNCHANGED <<vars, decided, unsent, private>>
        /\ \A i \in Instances : i # k => bouncer'[i] = bouncer[i]
      BY Zenon, <1>1, <1>8, TurnEffect
  <2>2. Unknown(a)
      BY Zenon, <2>1 DEF Private
  <2>3. a \notin stale(k, IPs) /\ a \notin stale(k, Nets)
      BY Zenon, <2>2 DEF Unknown, stale
  <2>4. /\ a \notin DOMAIN bouncer[k].new /\ a \notin bouncer[k].deleted
        /\ a \notin bouncer[k].todo
      BY Zenon, <2>2 DEF Unknown
  <2>5. LET b == bouncer[k]
            c == bouncer'[k] IN
        \/ /\ c.todo \in {stale(k, IPs), stale(k, Nets), DOMAIN b.new, b.deleted}
           /\ c.new = b.new /\ c.deleted = b.deleted
        \/ c.todo = {} /\ DOMAIN c.new = {} /\ c.deleted = {}
      BY Zenon, <1>1, <1>8, TurnEffect DEF GoesOn
  <2>6. a \notin DOMAIN bouncer'[k].new \cup bouncer'[k].deleted \cup bouncer'[k].todo
      BY <2>3, <2>4, <2>5
  <2>7. decided'[a] = NoEntry
      BY Zenon, <2>1, <2>2 DEF Unknown
  <2>8. ASSUME NEW i \in Instances
        PROVE  /\ a \notin unsent'[i].new \cup unsent'[i].deleted
               /\ a \notin DOMAIN bouncer'[i].new \cup bouncer'[i].deleted
                             \cup bouncer'[i].todo
      BY Zenon, <2>1, <2>2, <2>6 DEF Unknown
  <2>. QED BY Zenon, <1>3, <2>1, <2>2, <2>7, <2>8
<1>9. ASSUME NEW k \in Instances, NEW b \in Addrs,
             crowdSecApply(k, b) \/ crowdSecRemove(k, b)
      PROVE  Unknown(a)'
  <2>1. /\ Begins /\ b \in bouncer[k].todo /\ job'[Bouncer(k)].a = b
        /\ \A p \in Procs : p # Bouncer(k) => Kept(p) \/ LazyFor(p, b)
        /\ \A i \in Instances : i # k => bouncer'[i] = bouncer[i]
        /\ GoesOn(bouncer[k], bouncer'[k], bouncer[k].phase, bouncer[k].todo \ {b})
        /\ UNCHANGED <<decided, unsent, private>>
    <3>1. Takes(k, b)
        BY Zenon, <1>1, <1>9, TakeEffect
    <3>. QED BY Zenon, <3>1 DEF Takes
  <2>2. UNCHANGED <<hist, kv, table>>
      BY Zenon, <2>1 DEF Begins, etcdVars, replicaVars
  <2>3. Unknown(a)
      BY Zenon, <2>1 DEF Private
  <2>4. decided'[a] = NoEntry /\ ~Labelled(Stored(a))'
      BY Zenon, <2>1, <2>2, <2>3 DEF Unknown, Stored, Labelled
  <2>5. ASSUME NEW i \in Instances
        PROVE  /\ ~Labelled(table[i][a])'
               /\ a \notin unsent'[i].new \cup unsent'[i].deleted
               /\ a \notin DOMAIN bouncer'[i].new \cup bouncer'[i].deleted
                             \cup bouncer'[i].todo
               /\ ~(Active(Bouncer(i)) /\ job[Bouncer(i)].a = a)'
    <3>1. ~Labelled(table[i][a])' /\ a \notin unsent'[i].new \cup unsent'[i].deleted
        BY Zenon, <2>1, <2>2, <2>3 DEF Unknown, Labelled
    <3>2. CASE i = k
      <4>1. b # a
          BY Zenon, <2>1, <2>3 DEF Unknown
      <4>. QED BY Zenon, <2>1, <2>3, <3>1, <3>2, <4>1 DEF Unknown, GoesOn
    <3>3. CASE i # k
      <4>1. Kept(Bouncer(i))
          BY Zenon, <2>1, <3>3, BouncerFacts DEF LazyFor
      <4>. QED BY Zenon, <2>1, <2>3, <3>1, <3>3, <4>1 DEF Unknown, Kept, Active
    <3>. QED BY Zenon, <3>2, <3>3
  <2>6. Unnamed(a)'
    <3>. SUFFICES ASSUME NEW p \in Procs, job'[p].step # "done", job'[p].a = a,
                         PutsLabel(job'[p])
                  PROVE  FALSE
        BY Zenon DEF Unnamed, Active, PutsLabel
    <3>1. b # a
        BY Zenon, <2>1, <2>3 DEF Unknown
    <3>2. p # Bouncer(k)
        BY Zenon, <2>1, <3>1
    <3>3. Kept(p)
        BY Zenon, <2>1, <3>1, <3>2 DEF LazyFor
    <3>. QED BY Zenon, <2>3, <3>3 DEF Unknown, Kept, Active, PutsLabel
  <2>. QED BY Zenon, <2>4, <2>5, <2>6 DEF Unknown, Unnamed
<1>10. ASSUME others
       PROVE  Unknown(a)'
  <2>1. /\ Next /\ UNCHANGED <<decided, unsent>>
        /\ \A i \in Instances :
             bouncer'[i] = IF up'[i] = "down" THEN Starting ELSE bouncer[i]
        /\ a \in private \/ Unknown(a)
        /\ \A p \in Procs : Joins(p) /\ job'[p].a = a => ~PutsLabel(job'[p])
      BY Zenon, <1>1, <1>10, OthersEffect
  <2>2. Unknown(a)
      BY Zenon, <2>1 DEF Private
  <2>3. Unnamed(a) /\ Unnamed(a)'
    <3>1. Unnamed(a)
        BY Zenon, <2>2 DEF Unknown, Unnamed
    <3>. QED BY Zenon, <1>1, <1>2, <2>1, <3>1, UnnamedKept
  <2>4. Unmarked(a)
      BY Zenon, <2>2 DEF Unknown, Unmarked
  <2>5. Unmarked(a)'
      BY Zenon, <1>1, <1>2, <2>1, <2>3, <2>4, UnmarkedKept
  <2>6. ASSUME NEW i \in Instances
        PROVE  /\ a \notin unsent'[i].new \cup unsent'[i].deleted
               /\ a \notin DOMAIN bouncer'[i].new \cup bouncer'[i].deleted
                             \cup bouncer'[i].todo
               /\ ~(Active(Bouncer(i)) /\ job[Bouncer(i)].a = a)'
    <3>1. ~(Active(Bouncer(i)) /\ job[Bouncer(i)].a = a)'
        BY Zenon, <1>1, <2>1, <2>2, BouncerJob DEF Unknown
    <3>2. CASE up'[i] = "down"
        BY Zenon, <2>1, <2>2, <3>1, <3>2, StartingTyped DEF Unknown
    <3>3. CASE up'[i] # "down"
        BY Zenon, <2>1, <2>2, <3>1, <3>3 DEF Unknown
    <3>. QED BY Zenon, <3>2, <3>3
  <2>7. decided'[a] = NoEntry
      BY Zenon, <2>1, <2>2 DEF Unknown
  <2>. QED BY Zenon, <2>3, <2>5, <2>6, <2>7 DEF Unknown, Unmarked, Unnamed
<1>11. CASE UNCHANGED <<vars, crowdVars>>
  <2>1. UNCHANGED vars /\ UNCHANGED <<decided, unsent, bouncer, private>>
      BY Zenon, <1>11 DEF crowdVars
  <2>2. Unknown(a)
      BY Zenon, <2>1 DEF Private
  <2>3. decided'[a] = NoEntry /\ \A i \in Instances :
          /\ a \notin unsent'[i].new \cup unsent'[i].deleted
          /\ a \notin DOMAIN bouncer'[i].new \cup bouncer'[i].deleted
                        \cup bouncer'[i].todo
      BY Zenon, <2>1, <2>2 DEF Unknown
  <2>. QED BY Zenon, <1>3, <2>1, <2>2, <2>3
<1>. QED BY Zenon, <1>4, <1>6, <1>7, <1>8, <1>9, <1>10, <1>11 DEF CrowdNext

\* Single-instance mode, for any number of polls, lost replies, restarts,
\* failed loads and reconciliations: the bouncer begins no job for an address
\* that a client blocked with a source of its own and that no decision and no
\* block in CrowdSec's name concerned then or since.
THEOREM KeepsOthersCorrect ==
  ASSUME ~MultiInstance
  PROVE  CrowdSpec => []KeepsOthers
<1>1. CrowdInit => Sound /\ Private
    BY Zenon, SoundInit DEF CrowdInit, Private
<1>2. Sound /\ Private /\ [CrowdNext]_<<vars, crowdVars>> => Sound' /\ Private'
    BY Zenon, SoundNext, PrivateNext
<1>3. Private => KeepsOthers
    BY Zenon DEF Private, KeepsOthers, Unknown
<1>. QED BY <1>1, <1>2, <1>3, PTL DEF CrowdSpec
=============================================================================
