------------------------------- MODULE Names -------------------------------
(***************************************************************************)
(* How an address is named, and what that does to the blocklist.           *)
(*                                                                         *)
(* A request names an address by a text, etcd by a key, a DNS query by     *)
(* labels, and ipTable by a text again.  The key functions are in          *)
(* src/src/helpers.go, their inverses in etcd.go, the query names in       *)
(* dns.go; the handlers and the expiry functions of main.go use them.      *)
(*                                                                         *)
(* Operations are atomic here, and in multi-instance mode an event reaches *)
(* the table at once: their interleaving is the subject of Watch and       *)
(* Blocklist.                                                              *)
(***************************************************************************)
EXTENDS Naturals, Sequences, Functions

CONSTANTS
  V4,      \* IPv4 addresses that requests name: sequences of four octets
  V6,      \* IPv6 addresses that requests name: sequences of nibbles, 32 in
           \*   the code
  Letters, \* the hexadecimal digits above 9
  None     \* no such entry, no address, no text

Octets == 0..255

ASSUME NamesAssumption ==
  /\ \A a \in V4 : a \in Seq(Octets) /\ Len(a) = 4
  /\ \A a \in V6 : /\ a \in Seq(0..9 \cup Letters)
                   /\ Len(a) > 4 /\ Len(a) % 4 = 0
  /\ Letters \cap Octets = {}
  /\ None \notin BOOLEAN /\ None \notin Seq(Octets \cup Letters)
  /\ None \notin [form : {"dotted"}, parts : Seq(Octets \cup Letters)]

VARIABLES
  multi,   \* gMultiInstanceMode
  store,   \* etcd: for each address with a block, whether the block runs out
  ptrs,    \* etcd: the addresses with a PTR record
  ipTable, \* for each text in the table, whether the block runs out
  odd,     \* history: addresses named by another text than the usual one since
           \*   the table was loaded
  tails,   \* history: last four parts of the IPv6 addresses ever blocked
  unread   \* history: IPv4 addresses with a block that the last load failed
           \*   to read and that nothing has changed since

namesVars == <<multi, store, ptrs, ipTable, odd, tails, unread>>

----------------------------------------------------------------------------
(* Texts, keys and labels                                                  *)

Dotted(p)  == [form |-> "dotted",  parts |-> p]  \* 1.2.3.4
Mapped(a)  == [form |-> "mapped",  parts |-> a]  \* ::ffff:1.2.3.4
Grouped(a) == [form |-> "grouped", parts |-> a]  \* eight groups of four
Short(a)   == [form |-> "short",   parts |-> a]  \* zeros left out

\* Zeros can be left out of an IPv6 text when a group starts with one.
Compressible(a) == \E k \in 1..Len(a) : k % 4 = 1 /\ a[k] = 0

\* net.IP.String.
String(a) == IF Len(a) = 4 THEN Dotted(a)
             ELSE IF Compressible(a) THEN Short(a) ELSE Grouped(a)

\* The texts a request can name a by.
Spellings(a) ==
  IF a \in V4 THEN {Dotted(a), Mapped(a)} ELSE {String(a), Grouped(a)}

\* net.ParseIP.  A dotted text may have come from the nibbles of a key.
ParseIP(text) ==
  IF text.form = "dotted" /\ ~(Range(text.parts) \subseteq Octets)
    THEN None ELSE text.parts

\* Keys are the parts of the address in either family, so an address stands
\* for its own rblKey and reverseKey.
rblKey(a) == a

Tail4(key) == SubSeq(key, Len(key) - 3, Len(key))

\* loadFromEtcd joins the last four parts of any key.
loadedText(key) == Dotted(Tail4(key))

\* ipFromKey does so too, and drops what is no address.
ipFromKey(key) == LET ip == Dotted(Tail4(key)) IN
                  IF ParseIP(ip) = None THEN None ELSE ip

\* A query name has the parts of the address in the opposite order.
reversed(labels) == [i \in 1..Len(labels) |-> labels[(Len(labels) - i) + 1]]

\* Mutant: the labels are not reversed.
rblQueryToIPMutant(labels) ==
  IF Len(labels) = 4 THEN Dotted(labels) ELSE Grouped(labels)

\* The text for the labels of an RBL query: four of them, or all nibbles.
rblQueryToIP(labels) ==
  IF Len(labels) = 4 THEN Dotted(reversed(labels))
                     ELSE Grouped(reversed(labels))

\* Reverse queries are answered for IPv4 only.
ptrQueryToIP(labels) ==
  IF Len(labels) = 4 THEN Dotted(reversed(labels)) ELSE None

Addresses == V4 \cup V6
Keys      == Addresses \cup {Tail4(a) : a \in V6}
Blocks    == BOOLEAN \cup {None}

\* The texts that can get into the table.
Texts == (UNION {Spellings(a) : a \in Addresses})
           \cup {loadedText(a) : a \in V6}

----------------------------------------------------------------------------
(* Operations                                                              *)

Init ==
  /\ multi \in BOOLEAN
  /\ store = [key \in Keys |-> None]
  /\ ptrs = {}
  /\ ipTable = [t \in Texts |-> None]
  /\ odd = {}
  /\ tails = {}
  /\ unread = {}

\* The table after the event of key, in multi-instance mode.
applied(key, b) ==
  LET ip == ipFromKey(key) IN
  IF ip = None THEN ipTable ELSE [ipTable EXCEPT ![ip] = b]

\* Mutant: the table is written in either mode.
ChangeMutant(text, a, b) ==
  /\ store' = [store EXCEPT ![rblKey(a)] = b]
  /\ ptrs' = IF b = None THEN ptrs \ {a} ELSE ptrs \cup {a}
  /\ ipTable' = [ipTable EXCEPT ![text] = b]
  /\ odd' = IF text # String(a) THEN odd \cup {a} ELSE odd
  /\ unread' = unread \ {a}
  /\ UNCHANGED multi

\* Mutant: the entry is deleted under the text that a query would look up.
ChangeMutant2(text, a, b) ==
  /\ store' = [store EXCEPT ![rblKey(a)] = b]
  /\ ptrs' = IF b = None THEN ptrs \ {a} ELSE ptrs \cup {a}
  /\ ipTable' = LET t == IF b = None THEN rblQueryToIP(reversed(a)) ELSE text IN
                IF ~multi THEN [ipTable EXCEPT ![t] = b]
                ELSE IF b = None /\ store[rblKey(a)] = None THEN ipTable
                ELSE applied(rblKey(a), b)
  /\ odd' = IF ~multi /\ text # String(a) THEN odd \cup {a} ELSE odd
  /\ unread' = unread \ {a}
  /\ UNCHANGED multi

\* Both keys of the address and, in single-instance mode, the entry under the
\* very text of the request.
Change(text, a, b) ==
  /\ store' = [store EXCEPT ![rblKey(a)] = b]
  /\ ptrs' = IF b = None THEN ptrs \ {a} ELSE ptrs \cup {a}
  /\ ipTable' = IF ~multi THEN [ipTable EXCEPT ![text] = b]
                ELSE IF b = None /\ store[rblKey(a)] = None THEN ipTable
                ELSE applied(rblKey(a), b)
  /\ odd' = IF ~multi /\ text # String(a) THEN odd \cup {a} ELSE odd
  /\ unread' = unread \ {a}
  /\ UNCHANGED multi

\* A text that does not parse is rejected.  b says whether the block runs out.
handlePut(text, b) ==
  LET a == ParseIP(text) IN
  /\ a # None
  /\ Change(text, a, b)
  /\ tails' = IF a \in V6 THEN tails \cup {Tail4(a)} ELSE tails

handleDelete(text) ==
  LET a == ParseIP(text) IN
  /\ a # None
  /\ Change(text, a, None)
  /\ UNCHANGED tails

\* An entry that runs out has done so; one whose text is no address stays.
deleteExpiredIP(text) ==
  LET a == ParseIP(text) IN
  /\ ipTable[text] = TRUE
  /\ a # None
  /\ Change(text, a, None)
  /\ UNCHANGED tails

\* The worker removes the entry in either mode.
expirationWorker(text) ==
  LET a == ParseIP(text) IN
  /\ ipTable[text] = TRUE
  /\ a # None
  /\ store' = [store EXCEPT ![rblKey(a)] = None]
  /\ ptrs' = ptrs \ {a}
  /\ ipTable' = [ipTable EXCEPT ![text] = None]
  /\ unread' = unread \ {a}
  /\ UNCHANGED <<multi, odd, tails>>

\* The reply of etcd is read.  Of keys that give the same text the last one wins.
loadKeys ==
  LET live == {key \in Keys : store[key] # None}
      From(t) == {key \in live : loadedText(key) = t}
  IN
  /\ \E won \in SUBSET live :
       /\ \A key \in live : \E k \in won : From(loadedText(key)) \cap won = {k}
       /\ ipTable' = [t \in Texts |->
             IF From(t) = {} THEN None
             ELSE store[CHOOSE key \in won : loadedText(key) = t]]
  /\ unread' = {}

\* An error of etcd, or a reply that cannot be decoded, reads as one without
\* keys; and, without a revision in it, the watch then starts at the present.
loadNothing ==
  /\ ipTable' = [t \in Texts |-> None]
  /\ unread' = {a \in V4 : store[rblKey(a)] # None}

\* The process ends and starts again.
loadFromEtcd ==
  /\ loadKeys \/ loadNothing
  /\ odd' = {}
  /\ UNCHANGED <<multi, store, ptrs, tails>>

Next ==
  \/ \E a \in Addresses : \E text \in Spellings(a) :
       handleDelete(text) \/ \E b \in BOOLEAN : handlePut(text, b)
  \/ \E text \in Texts : deleteExpiredIP(text) \/ expirationWorker(text)
  \/ loadFromEtcd

Spec == Init /\ [][Next]_namesVars

----------------------------------------------------------------------------
(* Properties                                                              *)

\* Types; and in multi-instance mode the table only has texts made from keys.
TypeOK ==
  /\ multi \in BOOLEAN
  /\ store \in [Keys -> Blocks]
  /\ ptrs \subseteq Keys
  /\ ipTable \in [Texts -> Blocks]
  /\ \A t \in Texts : multi /\ ipTable[t] # None => t.form = "dotted"
  /\ odd \subseteq Addresses
  /\ tails \subseteq {Tail4(a) : a \in V6}
  /\ unread \subseteq V4

Entry(text) == IF text \in Texts THEN ipTable[text] ELSE None

\* An IPv4 address has one block, whichever way one asks for it: the entry a
\* lookup finds under its text, the one an RBL query and the one a reverse
\* query find under the text made from their labels are the block etcd has
\* under the key of the address, and there is a PTR record exactly then.  This
\* survives restarts and replication, with two exceptions: in single-instance
\* mode a request that named the address by its IPv4-mapped IPv6 text, until
\* the next restart; and an address that spells the last four nibbles of an
\* IPv6 address that was blocked.  After a load that failed an address that
\* nothing has changed since is found in no way, whatever etcd has.
V4Exact ==
  \A a \in V4 \ (odd \cup tails) :
    /\ \A text \in {Dotted(a), rblQueryToIP(reversed(a)),
                      ptrQueryToIP(reversed(a))} :
         Entry(text) = IF a \in unread THEN None ELSE store[rblKey(a)]
    /\ a \in ptrs <=> store[rblKey(a)] # None

\* What is found for an IPv6 address is its block: the entry under its usual
\* text and the one an RBL query finds under the text of its nibbles are, if
\* there are any, what etcd has under the key of the address, so that deleting
\* or expiring the block of an address leaves no answer behind.  Excepted is,
\* until the next restart, an address that a request named by another text
\* than net.IP.String gives, in single-instance mode: the handlers write and
\* delete the entry under the very text of the request.
V6Sound ==
  \A a \in V6 \ odd : \A text \in {String(a), rblQueryToIP(reversed(a))} :
    Entry(text) \in {None, store[rblKey(a)]}

\* README.md: "IPv6 addresses can also be blocked", with a DNSBL query as the
\* way to see it.  In single-instance mode, a blocked IPv6 address that is named
\* by its usual text is found under that text and by an RBL query.  It does not
\* hold: the query looks for the text with all zeros.
V6Found ==
  \A a \in V6 \ odd : ~multi /\ store[rblKey(a)] # None =>
    Entry(String(a)) # None /\ Entry(rblQueryToIP(reversed(a))) # None
=============================================================================
