------------------------------ MODULE Replica ------------------------------
(***************************************************************************)
(* What replication promises the rest of the program, without saying how:  *)
(* an entry of an instance's tables changes only because the table was     *)
(* loaded, because the next event after the loop's position was applied,   *)
(* or because the entry was dropped.  A position may jump, so events can   *)
(* be applied late, again or never, but an entry is always the effect of   *)
(* the one event the loop is at.                                           *)
(*                                                                         *)
(* Module Watch implements this specification (ImplementsReplica), module    *)
(* Blocklist is built on it.                                               *)
(***************************************************************************)
EXTENDS Etcd

CONSTANT Instances  \* the open-blocklist processes that share one etcd

VARIABLES
  table,  \* ipTable.entries and cidrTable.entries, per instance
  pos     \* the events up to here were applied or skipped, per loop

replicaVars == <<table, pos>>

ReplicaInit ==
  /\ table = [i \in Instances |-> [a \in Addrs |-> NoEntry]]
  /\ pos   = [i \in Instances |-> [w \in Watchers |-> 0]]

\* One table is filled, from the keys etcd holds now or, after an unreadable
\* reply, with nothing.
Fill(i, w, entry) ==
  /\ table' = [table EXCEPT ![i] =
                 [a \in Addrs |-> IF a \in Owned(w) THEN entry[a] ELSE @[a]]]
  /\ pos' = [pos EXCEPT ![i][w] = Len(hist)]

LoadAll(i, w)     == Fill(i, w, [a \in Owned(w) |-> Stored(a)])
LoadNothing(i, w) == Fill(i, w, [a \in Owned(w) |-> NoEntry])

\* The next event reaches the loop.
Deliver(i, w) ==
  LET r   == pos[i][w] + 1
      key == hist[r].key
  IN
  /\ r <= Len(hist)
  /\ pos' = [pos EXCEPT ![i][w] = r]
  /\ table' = IF Decodes(w, key)
                THEN [table EXCEPT ![i][key.id] = Entry(key.id, hist[r].val, r)]
                ELSE table

\* The stream was lost and resumes at a revision that is not the next one.
Resume(i, w) ==
  /\ \E p \in 0..Len(hist) : pos' = [pos EXCEPT ![i][w] = p]
  /\ UNCHANGED table

\* An entry is dropped from memory only.
Drop(i, a) ==
  /\ table' = [table EXCEPT ![i][a] = NoEntry]
  /\ UNCHANGED pos

\* The process ends.
Lose(i) ==
  /\ table' = [table EXCEPT ![i] = [a \in Addrs |-> NoEntry]]
  /\ pos'   = [pos   EXCEPT ![i] = [w \in Watchers |-> 0]]

----------------------------------------------------------------------------
Write ==
  /\ UNCHANGED replicaVars
  /\ \E key \in Keys : \/ \E v \in RecordsFor(key) : etcdPut(key, v)
                       \/ kv[key] # 0 /\ etcdDelete(key)

Replicate(i) ==
  /\ UNCHANGED etcdVars
  /\ \/ \E w \in Watchers : \/ LoadAll(i, w)
                            \/ LoadNothing(i, w)
                            \/ Deliver(i, w)
                            \/ Resume(i, w)
     \/ \E a \in Addrs : Drop(i, a)
     \/ Lose(i)

ReplicaNext == (\E i \in Instances : Replicate(i)) \/ Write

ReplicaSpec ==
  etcdInit /\ ReplicaInit /\ [][ReplicaNext]_<<etcdVars, replicaVars>>
=============================================================================
