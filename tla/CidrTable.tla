----------------------------- MODULE CidrTable -----------------------------
(***************************************************************************)
(* The slice behind the CIDR table (src/src/cidr.go).  Every operation     *)
(* runs under the table's lock, so each is one step.  Callers upsert and   *)
(* remove networks at any time: the handlers, the watch loop, the          *)
(* CrowdSec bouncer, the expiration worker and the goroutine that lookup   *)
(* starts for an expired network.                                          *)
(***************************************************************************)
EXTENDS Naturals, Sequences

CONSTANTS
  Nets,      \* canonical CIDR strings
  IPs,       \* addresses that are looked up
  Contains,  \* pairs of an address and a network it lies in
  NoBlock,   \* nil
  MaxTime    \* bound: the clock stops here

Expirations == 0..MaxTime

ASSUME CidrAssumption ==
  /\ Contains \subseteq IPs \X Nets
  /\ MaxTime \in Nat
  /\ NoBlock \notin Expirations \cup Nets

VARIABLES
  entries,  \* the slice: networks with their expiration, 0 for never
  now       \* time.Now().Unix()

vars == <<entries, now>>

CIDREntry == [cidr : Nets, exp : Expirations]

\* The place of network c in slice s, 0 when it is not there.  The loops of
\* findByCIDR, upsert and remove stop at the first match.
IndexOf(s, c) ==
  IF \E k \in DOMAIN s : s[k].cidr = c
    THEN CHOOSE k \in DOMAIN s :
           /\ s[k].cidr = c
           /\ \A j \in 1..(k - 1) : s[j].cidr # c
    ELSE 0

findByCIDR(c) ==
  IF IndexOf(entries, c) = 0 THEN NoBlock
                             ELSE entries[IndexOf(entries, c)].exp

Expired(e) == e.exp > 0 /\ e.exp <= now

Matches(ip, k) == <<ip, entries[k].cidr>> \in Contains

\* Mutant: the scan ends at the first network that does not contain ip.
lookupMutant(ip) ==
  IF entries # <<>> /\ Matches(ip, 1) /\ ~Expired(entries[1])
    THEN entries[1].cidr ELSE NoBlock

\* The first network that contains ip decides; when it has expired the answer
\* is nil and a goroutine is started that will remove it.
lookup(ip) ==
  LET first == {k \in DOMAIN entries :
                  Matches(ip, k) /\ \A j \in 1..(k - 1) : ~Matches(ip, j)}
  IN IF \E k \in first : ~Expired(entries[k])
       THEN entries[CHOOSE k \in first : TRUE].cidr
       ELSE NoBlock

----------------------------------------------------------------------------
CidrInit == entries = <<>> /\ now = 1

\* Mutant: a network that is already in the table is appended again.
upsertMutant(e) ==
  /\ Len(entries) < 4
  /\ entries' = Append(entries, e)
  /\ UNCHANGED now

\* Replace the entry of the same network, or append.
upsert(e) ==
  /\ entries' = LET k == IndexOf(entries, e.cidr) IN
                IF k # 0 THEN [entries EXCEPT ![k] = e] ELSE Append(entries, e)
  /\ UNCHANGED now

\* Mutant: the slice is cut without moving the last entry.
removeMutant(c) ==
  /\ IndexOf(entries, c) # 0
  /\ entries' = SubSeq(entries, 1, Len(entries) - 1)
  /\ UNCHANGED now

\* Mutant: the slice is cut at the removed entry.
removeMutant2(c) ==
  /\ IndexOf(entries, c) # 0
  /\ entries' = SubSeq(entries, 1, IndexOf(entries, c) - 1)
  /\ UNCHANGED now

\* The last entry takes the place of the removed one.
remove(c) ==
  LET k    == IndexOf(entries, c)
      last == Len(entries)
  IN
  /\ k # 0
  /\ entries' = SubSeq([entries EXCEPT ![k] = entries[last]], 1, last - 1)
  /\ UNCHANGED now

clock == now < MaxTime /\ now' = now + 1 /\ UNCHANGED entries

CidrNext ==
  \/ \E e \in CIDREntry : upsert(e)
  \/ \E c \in Nets : remove(c)
  \/ clock

CidrSpec == CidrInit /\ [][CidrNext]_vars

----------------------------------------------------------------------------
(* Properties                                                              *)

\* The slice holds entries, at most one per network: remove deletes only the
\* first, so a second one would be found again after its network was unblocked.
Unique ==
  /\ entries \in Seq(CIDREntry)
  /\ \A j, k \in DOMAIN entries : entries[j].cidr = entries[k].cidr => j = k

Map == INSTANCE CidrMap WITH
         Blocks <- Expirations,
         block  <- [c \in Nets |-> findByCIDR(c)]

\* Replacing in place, appending and swapping with the last entry are a map's
\* put and delete: no step loses or changes two networks.
ActsAsMap == Map!MapSpec

\* upsert and remove change the network they were called with, to what they
\* were called with, and no other.
ActsOnItsOwn ==
  [][/\ \A e \in CIDREntry : upsert(e) => Map!Put(e.cidr, e.exp)
     /\ \A c \in Nets : remove(c) => Map!Delete(c)]_vars

\* An answer of lookup is an unexpired network that contains the address, and
\* it is nil only when there is none, or when an expired network that contains
\* the address stands before each of them.
LookupExact ==
  \A ip \in IPs :
    LET live == {k \in DOMAIN entries : Matches(ip, k) /\ ~Expired(entries[k])}
    IN IF lookup(ip) # NoBlock
         THEN \E k \in live : entries[k].cidr = lookup(ip)
         ELSE \A k \in live : \E j \in 1..(k - 1) :
                Matches(ip, j) /\ Expired(entries[j])

\* Comment on lookup: "Expired entries are skipped and queued for asynchronous
\* deletion".  An address in an unexpired network is found.
ExpiredSkipped ==
  \A ip \in IPs :
    (\E k \in DOMAIN entries : Matches(ip, k) /\ ~Expired(entries[k])) =>
      lookup(ip) # NoBlock
=============================================================================
