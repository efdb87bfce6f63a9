-------------------------------- MODULE Etcd --------------------------------
(***************************************************************************)
(* The part of etcd the program relies on, and the keys and records it     *)
(* keeps there (the request functions of src/src/etcd.go, the key          *)
(* functions of src/src/helpers.go).                                       *)
(*                                                                         *)
(* etcd itself is external: an append-only history of key events, the      *)
(* index of an event being its mod_revision, and the live keys that        *)
(* history leaves.                                                         *)
(*                                                                         *)
(* Keys hold IPv4 addresses or networks, and values are records written by *)
(* the program itself, so that decoding a key or a value cannot fail.      *)
(***************************************************************************)
EXTENDS Naturals, Sequences

CONSTANTS
  IPs,        \* addresses that can be blocked one by one
  Nets,       \* canonical CIDR strings
  Values,     \* what a block record can hold
  PtrRecord,  \* the one PTRRecord the program ever writes
  NoEntry,    \* "no such key", "no such map entry", a DELETE event's value
  MaxRev      \* bound: etcd accepts no write beyond this revision

ASSUME EtcdAssumption ==
  /\ IPs \cap Nets = {}
  /\ NoEntry \notin Values \cup {PtrRecord}
  /\ NoEntry \notin [val : Values, mod : Nat]
  /\ MaxRev \in Nat

VARIABLES
  hist,           \* the event of every revision, oldest first
  kv              \* mod_revision of each live key, 0 for no such key

etcdVars == <<hist, kv>>

----------------------------------------------------------------------------
(* Keys and entries                                                        *)

Addrs    == IPs \cup Nets
Watchers == {"ip", "cidr"}

rblKey(ip)       == [prefix |-> "rbl",  id |-> ip]
reverseKey(ip)   == [prefix |-> "arpa", id |-> ip]
cidrToEtcdKey(c) == [prefix |-> "cidr", id |-> c]

Keys == {rblKey(ip) : ip \in IPs} \cup {reverseKey(ip) : ip \in IPs}
          \cup {cidrToEtcdKey(c) : c \in Nets}

\* The key a table entry is persisted under.
KeyOf(a) == IF a \in IPs THEN rblKey(a) ELSE cidrToEtcdKey(a)

\* The addresses a loop maintains.
Owned(w) == IF w = "ip" THEN IPs ELSE Nets

\* Mutant: both loops watch cidrPrefix.
InRangeMutant(w, key) == key.prefix = "cidr"

\* The key range a loop watches.  rblPrefix has no trailing "/", so it is
\* also a prefix of every CIDR key; PTR keys are outside both ranges.
InRange(w, key) ==
  key.prefix \in (IF w = "ip" THEN {"rbl", "cidr"} ELSE {"cidr"})

\* ipFromKey and cidrFromEtcdKey: whether the loop finds an address in key.
Decodes(w, key) == key.prefix = (IF w = "ip" THEN "rbl" ELSE "cidr")

\* The in-memory form of value v written at revision r.  A BlockEntry keeps
\* the ModRevision, a CIDREntry has no such field.
Entry(a, v, r) ==
  IF v = NoEntry THEN NoEntry
                 ELSE [val |-> v, mod |-> IF a \in IPs THEN r ELSE 0]

\* Mutant: a load takes the range's header revision for the mod_revision.
StoredMutant(a) ==
  IF kv[KeyOf(a)] = 0 THEN NoEntry
                      ELSE Entry(a, hist[kv[KeyOf(a)]].val, Len(hist))

\* The in-memory form of what etcd holds for a now.
Stored(a) ==
  IF kv[KeyOf(a)] = 0 THEN NoEntry
                      ELSE Entry(a, hist[kv[KeyOf(a)]].val, kv[KeyOf(a)])

\* What may be written under a key.
RecordsFor(key) == IF key.prefix = "arpa" THEN {PtrRecord} ELSE Values

BootEvent == [key |-> [prefix |-> "boot", id |-> NoEntry], val |-> NoEntry]

Entries == [val : Values, mod : Nat]
Events  == {e \in [key : Keys \cup {BootEvent.key},
                   val : Values \cup {PtrRecord, NoEntry}] :
              e.val \in RecordsFor(e.key) \cup {NoEntry}}

----------------------------------------------------------------------------
(* The store                                                               *)

\* An empty store is at revision 1.
etcdInit ==
  /\ hist = <<BootEvent>>
  /\ kv = [k \in Keys |-> 0]

\* A put adds a revision and makes the key live.
etcdPut(key, v) ==
  /\ Len(hist) < MaxRev
  /\ hist' = Append(hist, [key |-> key, val |-> v])
  /\ kv' = [kv EXCEPT ![key] = Len(hist) + 1]

\* Deleting a live key adds a revision; deleting an absent one does nothing.
etcdDelete(key) ==
  IF kv[key] = 0
    THEN UNCHANGED etcdVars
    ELSE /\ Len(hist) < MaxRev
         /\ hist' = Append(hist, [key |-> key, val |-> NoEntry])
         /\ kv' = [kv EXCEPT ![key] = 0]
=============================================================================
