----------------------------- MODULE CrowdSec -----------------------------
(***************************************************************************)
(* The CrowdSec bouncer (src/src/crowdsec.go) beside the other operations  *)
(* on the blocklist.                                                       *)
(*                                                                         *)
(* Each instance polls the CrowdSec LAPI: the first reply it can read is   *)
(* the list of all decisions in force and is reconciled with the tables,   *)
(* every later one holds the changes since the last reply that was sent.   *)
(* The bouncer works through a reply one job at a time, and its jobs       *)
(* interleave with those of clients, lazy goroutines and the worker.       *)
(*                                                                         *)
(* The LAPI is external.  It has at most one decision per address, and     *)
(* an address stands for every spelling that parses to it.                 *)
(***************************************************************************)
EXTENDS Blocklist

CONSTANTS
  Ends,         \* bound: when decisions end, 0 for one whose duration is
                \*   empty or does not parse
  MaxDecisions  \* bound: decisions ever taken

ASSUME CrowdSecAssumption ==
  /\ Ends \subseteq Times \cup {0} /\ NoEntry \notin Ends
  /\ MaxDecisions \in Nat
  /\ "crowdsec" \in Sources
  /\ \A i \in Instances : Bouncer(i) \notin Clients \cup Lazies \cup Instances

VARIABLES
  decided,   \* the LAPI: when the decision on an address ends
  taken,     \* the LAPI: decisions taken so far
  unsent,    \* the LAPI: what changed since the last reply, per bouncer
  bouncer,   \* where crowdSecLoop is and what it has read, per instance
  missed,    \* history: addresses whose last change a bouncer was not told of,
             \*   or was told of as taken and withdrawn at once
  overruled, \* history: addresses some other job was begun for since the last
             \*   one of a bouncer
  private    \* history: addresses a client blocked in its own name that no
             \*   decision concerned then or later

crowdVars == <<decided, taken, unsent, bouncer, missed, overruled, private>>

NoChanges == [new |-> {}, deleted |-> {}]

\* phase is "idle" between two replies; todo is what is left of the phase.
Starting == [startup |-> TRUE, phase |-> "idle", new |-> <<>>,
             deleted |-> {}, todo |-> {}]

CrowdInit ==
  /\ Init
  /\ decided = [a \in Addrs |-> NoEntry]
  /\ taken = 0
  /\ unsent = [i \in Instances |-> NoChanges]
  /\ bouncer = [i \in Instances |-> Starting]
  /\ missed = [i \in Instances |-> {}]
  /\ overruled = {}
  /\ private = {}

----------------------------------------------------------------------------
(* The LAPI                                                                *)

InForce(a) == decided[a] # NoEntry /\ (decided[a] = 0 \/ decided[a] > now)

decide(a, end) ==
  /\ taken < MaxDecisions
  /\ decided[a] = NoEntry
  /\ decided' = [decided EXCEPT ![a] = end]
  /\ taken' = taken + 1
  /\ unsent' = [i \in Instances |-> [unsent[i] EXCEPT !.new = @ \cup {a}]]
  /\ private' = private \ {a}
  /\ UNCHANGED <<vars, bouncer, missed, overruled>>

\* A decision is withdrawn, or has ended and is cleaned up.
withdraw(a) ==
  /\ decided[a] # NoEntry
  /\ decided' = [decided EXCEPT ![a] = NoEntry]
  /\ unsent' = [i \in Instances |-> [unsent[i] EXCEPT !.deleted = @ \cup {a}]]
  /\ UNCHANGED <<vars, taken, bouncer, missed, overruled, private>>

----------------------------------------------------------------------------
(* crowdSecLoop                                                            *)

Polls(i) ==
  /\ up[i] = "up"
  /\ bouncer[i].phase = "idle"
  /\ unsent' = [unsent EXCEPT ![i] = NoChanges]
  /\ UNCHANGED <<vars, decided, taken, overruled, private>>

\* The addresses the reply to i reports as new.
News(i) == {a \in Addrs : InForce(a) /\
              (bouncer[i].startup \/ a \in unsent[i].new)}

\* Mutant: only the reply to the first request is treated as a full list, also
\* when that reply was lost.
lostMutant(i) ==
  /\ "lapi" \in Faults
  /\ Polls(i)
  /\ bouncer' = [bouncer EXCEPT ![i].startup = FALSE]
  /\ UNCHANGED missed

\* The reply to a poll is lost, late or unreadable: the loop sleeps and polls
\* again.  The LAPI will not repeat the changes, but sends the list of all
\* decisions as often as it is asked to.  (A request that does not reach the
\* LAPI changes nothing.)
lost(i) ==
  /\ "lapi" \in Faults
  /\ Polls(i)
  /\ missed' = IF bouncer[i].startup THEN missed
               ELSE [missed EXCEPT ![i] =
                       @ \cup unsent[i].new \cup unsent[i].deleted]
  /\ UNCHANGED bouncer

\* A reply is read: the durations left of the new decisions, and the deleted
\* ones, among which the LAPI may or may not list an address that it has
\* decided on again.  Of a full list only the new decisions are looked at.
fetchCrowdSecDecisions(i) ==
  LET new  == News(i)
      left == [a \in new |-> IF decided[a] = 0 THEN 0 ELSE decided[a] - now]
  IN
  /\ Polls(i)
  /\ \/ /\ bouncer[i].startup
        /\ bouncer' = [bouncer EXCEPT ![i].phase = "list", ![i].new = left]
        /\ missed' = [missed EXCEPT ![i] = {}]
     \/ /\ ~bouncer[i].startup
        /\ \E deleted \in {unsent[i].deleted, unsent[i].deleted \ new} :
             /\ bouncer' = [bouncer EXCEPT ![i] =
                  [@ EXCEPT !.phase = "new", !.new = left, !.todo = new,
                            !.deleted = deleted]]
             /\ missed' = [missed EXCEPT ![i] =
                  (@ \ (new \cup deleted)) \cup (new \cap deleted)]

Labelled(e) == e # NoEntry /\ e.val.src = "crowdsec"

\* Mutant: every entry that is not on the list is stale.
staleMutant(i, S) ==
  {a \in S : table[i][a] # NoEntry /\ a \notin DOMAIN bouncer[i].new}

\* Entries synced from CrowdSec before and not on the list.
stale(i, S) ==
  {a \in S : Labelled(table[i][a]) /\ a \notin DOMAIN bouncer[i].new}

\* The part of a reply that follows phase.  crowdSecReconcile: remove stale
\* addresses, then stale networks, then apply the list.  A later reply: apply
\* the new decisions, then remove the deleted ones.  Then sleep.
Following(i) ==
  LET b == bouncer[i] IN
  CASE b.phase = "list" -> [b EXCEPT !.phase = "ip", !.todo = stale(i, IPs)]
    [] b.phase = "ip"   -> [b EXCEPT !.phase = "cidr", !.todo = stale(i, Nets)]
    [] b.phase = "cidr" -> [b EXCEPT !.phase = "new", !.todo = DOMAIN b.new]
    [] b.phase = "new" /\ ~b.startup ->
         [b EXCEPT !.phase = "deleted", !.todo = b.deleted]
    [] OTHER -> [Starting EXCEPT !.startup = FALSE]

\* Mutant: the loop does not wait for the last job of a part.
turnReplyMutant(i) ==
  /\ bouncer[i].phase # "idle" /\ bouncer[i].todo = {}
  /\ bouncer' = [bouncer EXCEPT ![i] = Following(i)]
  /\ UNCHANGED <<vars, decided, taken, unsent, missed, overruled, private>>

\* All jobs of a part are done: on to the next one.
turnReply(i) ==
  /\ bouncer[i].phase # "idle" /\ bouncer[i].todo = {}
  /\ ~Active(Bouncer(i))
  /\ bouncer' = [bouncer EXCEPT ![i] = Following(i)]
  /\ UNCHANGED <<vars, decided, taken, unsent, missed, overruled, private>>

\* The bouncer begins a job for the next address of its phase.
Take(i, a) ==
  /\ ~Active(Bouncer(i))
  /\ a \in bouncer[i].todo
  /\ bouncer' = [bouncer EXCEPT ![i].todo = @ \ {a}]
  /\ overruled' = overruled \ {a}
  /\ UNCHANGED <<decided, taken, unsent, missed, private>>
  /\ UNCHANGED <<etcdVars, replicaVars, now, up, sweep, requests, dirty, unread>>

\* Mutant: first_seen starts anew.
crowdSecApplyMutant(i, a) ==
  LET left == bouncer[i].new[a]
      rec  == Record(now, IF left = 0 THEN 0 ELSE now + left, "crowdsec")
  IN
  /\ bouncer[i].phase = "new"
  /\ Take(i, a)
  /\ \E lazy \in IF a \in IPs THEN Lazy(i, a, table[i][a]) ELSE {<<>>} :
       Begin(With([q \in {Bouncer(i)} |-> NewJob("put", i, a, rec)], lazy))

\* A decision becomes a block, whatever was there before; its duration counts
\* from now.  Looking for first_seen may start the lazy expiry of an address.
crowdSecApply(i, a) ==
  LET left == bouncer[i].new[a]
      rec  == Record(FirstSeen(i, a), IF left = 0 THEN 0 ELSE now + left,
                     "crowdsec")
  IN
  /\ bouncer[i].phase = "new"
  /\ Take(i, a)
  /\ \E lazy \in IF a \in IPs THEN Lazy(i, a, table[i][a]) ELSE {<<>>} :
       Begin(With([q \in {Bouncer(i)} |-> NewJob("put", i, a, rec)], lazy))

\* A stale entry, or the block of a deleted decision, is removed, whatever is
\* there by now.
crowdSecRemove(i, a) ==
  /\ bouncer[i].phase # "new"
  /\ Take(i, a)
  /\ Begin([q \in {Bouncer(i)} |-> NewJob("delete", i, a, NoEntry)])

----------------------------------------------------------------------------
(* The rest of the program                                                 *)

\* The job writes a block that names CrowdSec as its source.
PutsLabel(j) == j.kind = "put" /\ j.rec.src = "crowdsec"

\* Nothing the bouncer knows, is about to learn or wrote concerns a, and no
\* client wrote or is writing it in the bouncer's name.
Unknown(a) ==
  /\ decided[a] = NoEntry
  /\ ~Labelled(Stored(a))
  /\ \A p \in Procs : ~(Active(p) /\ job[p].a = a /\ PutsLabel(job[p]))
  /\ \A i \in Instances :
       /\ ~Labelled(table[i][a])
       /\ a \notin unsent[i].new \cup unsent[i].deleted
       /\ a \notin DOMAIN bouncer[i].new \cup bouncer[i].deleted
                     \cup bouncer[i].todo
       /\ ~(Active(Bouncer(i)) /\ job[Bouncer(i)].a = a)

\* A step of Blocklist.  A bouncer ends with its process.
others ==
  LET begun == {p \in Procs : ~Active(p) /\ job'[p].step = "key"} IN
  /\ Next
  /\ bouncer' = [i \in Instances |->
                   IF up'[i] = "down" THEN Starting ELSE bouncer[i]]
  /\ overruled' = overruled \cup {job'[p].a : p \in begun}
  /\ private' = (private \cup {job'[p].a : p \in
                   {q \in begun : job'[q].kind = "put" /\ Unknown(job'[q].a)}})
                 \ {job'[p].a : p \in {q \in begun : PutsLabel(job'[q])}}
  /\ UNCHANGED <<decided, taken, unsent, missed>>

CrowdNext ==
  \/ \E a \in Addrs : withdraw(a) \/ \E end \in Ends : decide(a, end)
  \/ \E i \in Instances : lost(i) \/ fetchCrowdSecDecisions(i) \/ turnReply(i)
  \/ \E i \in Instances : \E a \in Addrs :
       crowdSecApply(i, a) \/ crowdSecRemove(i, a)
  \/ others

CrowdSpec == CrowdInit /\ [][CrowdNext]_<<vars, crowdVars>>

----------------------------------------------------------------------------
(* Properties                                                              *)

\* The variables have their types, and a bouncer with nothing to do has
\* nothing left over from a reply.
CrowdTypeOK ==
  /\ decided \in [Addrs -> Ends \cup {NoEntry}]
  /\ taken \in 0..MaxDecisions
  /\ unsent \in [Instances -> [new : SUBSET Addrs, deleted : SUBSET Addrs]]
  /\ DOMAIN bouncer = Instances
  /\ \A i \in Instances :
       LET b == bouncer[i] IN
       /\ b.startup \in BOOLEAN
       /\ b.phase \in {"idle", "list", "ip", "cidr", "new", "deleted"}
       /\ DOMAIN b.new \subseteq Addrs
       /\ \A a \in DOMAIN b.new : b.new[a] \in 0..MaxTime
       /\ b.deleted \cup b.todo \subseteq Addrs
       /\ b.phase = "idle" => b.todo = {} /\ ~Active(Bouncer(i))
       /\ b.phase = "new" => b.todo \subseteq DOMAIN b.new
  /\ missed \in [Instances -> SUBSET Addrs]
  /\ overruled \cup private \subseteq Addrs

\* Single-instance mode.  A bouncer that is between two polls has the
\* blocklist as CrowdSec wants it: what is decided is blocked, what was
\* withdrawn, also while the service was down, is neither in memory nor in
\* etcd.  Left out are changes the LAPI has not sent yet, changes it sent in a
\* reply that was lost or that lists an address as both new and deleted (the
\* deletion is applied last), and addresses that another job concerned since.
\* After a load that failed the same holds, except that a block withdrawn in
\* the meantime stays in etcd: reconciliation looks for it in memory only.
Mirrors ==
  \A i \in Instances : \A a \in Addrs :
    (/\ up[i] = "up" /\ bouncer[i].phase = "idle" /\ ~bouncer[i].startup
     /\ a \notin unsent[i].new \cup unsent[i].deleted \cup missed[i]
     /\ a \notin dirty \cup overruled) =>
      /\ InForce(a) => table[i][a] # NoEntry /\ ~Expired(table[i][a], now)
      /\ decided[a] = NoEntry =>
           /\ table[i][a] = NoEntry
           /\ Stored(a) = NoEntry \/ a \in unread[i]

\* Single-instance mode.  The bouncer never does anything for an address that a
\* client blocked with a source of its own and that, then or since, no decision
\* concerned and no block in CrowdSec's name was written for, through any
\* number of polls, restarts, failed loads and reconciliations.
KeepsOthers ==
  \A i \in Instances :
    Active(Bouncer(i)) => job[Bouncer(i)].a \notin private

\* Reconciliation "removes any entries that were previously synced from
\* CrowdSec but are no longer present in the LAPI" (crowdSecReconcile): before
\* CrowdSec has decided anything there is nothing to remove.  It does not hold:
\* an entry counts as synced by the text of its source, which clients choose.
RemovesSyncedOnly ==
  \A i \in Instances :
    (Active(Bouncer(i)) /\ bouncer[i].phase \in {"ip", "cidr"}) => taken > 0
=============================================================================
