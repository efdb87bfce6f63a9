---------------------------- MODULE MCBlocklist ----------------------------
(* Instances of Blocklist for TLC.                                         *)
EXTENDS Blocklist, TLC

CONSTANTS ip1, net1

\* The records that fit the bounds on time.
MCValues == [first : Times, exp : Exps, src : Sources]

\* The address lies in the network.
MCContains == {<<ip1, net1>>} \cap (IPs \X Nets)

\* Never, at the last moment of the run, and before 1970.
MCExpirations == {0, MaxTime, 0 - 1}

\* In single-instance mode revisions are written and never read: two states
\* are the same when the live keys and the tables hold the same values.
SingleView ==
  <<[k \in Keys |-> IF kv[k] = 0 THEN NoEntry ELSE hist[kv[k]].val],
    [i \in Instances |-> [a \in Addrs |-> ValueOf(table[i][a])]],
    now, up, job, sweep, requests, dirty, unread>>

MCSymmetry == Permutations(Clients) \cup Permutations(Lazies)
                \cup Permutations(Instances)
=============================================================================
