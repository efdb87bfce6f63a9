# Verification of open-blocklist

TLA+ models of the open-blocklist service (`src/src/*.go`), TLC runs that check
them on small instances, and TLAPS proofs that hold for every instance.
`PROJECT.json` lists the runs, the map from definitions to source lines, the
hazards, the findings and the theorems.

## The system

open-blocklist keeps a list of blocked IP addresses and networks. The list is
persisted in etcd and served from memory over HTTP and DNS.

| Part | Source | State | Operations |
|---|---|---|---|
| etcd client | `etcd.go`, keys in `helpers.go` | keys and revisions in etcd | put, delete, range, watch |
| address table | `main.go` | `ipTable.entries`, a map under an RWMutex | lookup, set, delete |
| network table | `cidr.go` | `cidrTable.entries`, a slice under an RWMutex | `lookup`, `findByCIDR`, `upsert`, `remove` |
| write API | `main.go` | none of its own | `handlePut`, `handleDelete`, `handlePutNetwork`, `handleDeleteNetwork` |
| read API | `main.go` | none | `handleLookup`, `handleAuth`, `handleList`, `handleHealth` |
| DNS server | `dns.go` | none | A and PTR queries |
| lazy expiry | `main.go`, `cidr.go` | goroutines | `deleteExpiredIP`, `deleteExpiredCIDR` |
| expiration worker | `main.go` | the list it collected | one round per tick |
| load and watch loops | `etcd.go` | `gEtcdRevision`, two streams | load at start, apply events, reconnect |
| start-up, shutdown | `main.go` | | the order of `main()`, signals |
| CrowdSec bouncer | `crowdsec.go` | `startup` | fetch, reconcile, apply, remove |
| codecs | `helpers.go`, `dns.go` | none | IPv4 text and number, keys, query names |
| logging | `log.go` | buffer pool | get, format, send, put |
| metrics, health | `metrics.go` | counters, `runtimeSamples` | scrape, probes |
| configuration | `helpers.go`, `main.go` | none that changes | read at start |

There are two modes. In **single-instance** mode an operation writes etcd and
then memory, and nothing reads etcd after start-up. In **multi-instance** mode
an operation writes etcd only; every instance, the writer included, gets the
change back through its watch loops.

What is hard about it:

* every operation on an address is up to three steps (block key, PTR key,
  memory), and no lock spans them;
* a lookup that meets an expired entry starts a goroutine that deletes the entry
  later, whatever was written in between; the worker does the same with a list;
* the errors of etcd requests are ignored, and an error body that etcd sends to a
  load reads as an empty list;
* the two watch loops share one `gEtcdRevision`, which either of them advances
  in three separate steps before it applies the events of the message;
* the CIDR slice changes its order with every removal, and its order decides
  which network answers;
* the CrowdSec LAPI reports a change once: a reply that is lost is not repeated;
* an address is named by a text in requests, a key in etcd, labels in DNS and a
  text again in the table, and the conversions are not inverse to each other for
  IPv6;
* `handleList` keeps the table locked while it waits for its client.

## Modules

| Module | Models |
|---|---|
| `Etcd` | etcd as the program uses it: the history of events, the live keys, the keys and records of the program |
| `Replica` | abstract: what replication may do to an instance's tables |
| `Watch` | `waitForEtcd`, the load functions, `watchLoop`, `cidrWatchLoop`; implements `Replica` |
| `Blocklist` | handlers, lazy expiry, worker, start and crash, over `Etcd` and `Replica` |
| `CrowdSec` | the bouncer and the LAPI, as jobs beside those of `Blocklist` |
| `CidrTable` | the slice of `cidr.go` |
| `CidrMap` | abstract: the map the slice stands for; implemented by `CidrTable` |
| `Names` | texts, keys and DNS labels of IPv4 and IPv6 addresses, and the operations that use them |
| `Ipv4Text` | `IPv4StrToUint32`, `Uint32ToIPv4Str` |
| `Goroutines` | the constants `Log` and `Scrape` share |
| `Log` | the buffer pool and the way of a log line |
| `Scrape` | `writeRuntimeMetrics` and the samples all scrapes share |
| `Serving` | all handlers and background goroutines with their locks, over `Log` and `Scrape` |
| `MCWatch`, `MCBlocklist`, `MCCrowdSec`, `MCCidrTable`, `MCNames`, `MCServing` | instances for TLC |
| `MCTables` | `CidrTable`, `Names` and `Ipv4Text` in one run: a behaviour is one of the three |
| `WatchProofs` | proofs about `Watch` |
| `BlocklistTypes`, `BlocklistProofs` | proofs about `Blocklist` |
| `CrowdProofs`, `CrowdMirror` | proofs about `CrowdSec`, that is, about `Blocklist` with the bouncers beside it |
| `CidrProofs` | proofs about `CidrTable` |
| `NamesProofs` | proofs about `Names` and `Ipv4Text` |
| `ServingProofs` | proofs about `Log` alone, and about `Log`, `Scrape` and the locks within `Serving` |

The composition is layered. `Watch` is checked and proved to implement
`Replica`, so `Blocklist` can be built on `Replica`, which has two variables
where the loops have nine. In the other direction, `Watch` lets anybody write
any key and drop any entry, and `Blocklist` and `CrowdSec` are proved to do
nothing else to its state in multi-instance mode (`KeepsToReplica`). `CidrTable`
is proved to implement `CidrMap`, so `Watch` and `Blocklist` keep the networks in
a function. `CrowdSec` extends `Blocklist`: a step is one of the bouncer, of the
LAPI, or of `Blocklist`.
`Serving` is a second view of the same program: `Blocklist` has the data and
takes each locked section as one step, `Serving` leaves out the data and has the
locks.

### Etcd

`hist` is the sequence of all events; the index of an event is its
`mod_revision`. `kv` gives the revision of each live key. `etcdDelete` of an
absent key adds no revision. Keys are records with a prefix and an address.
`InRange` is the range a loop watches: `rblPrefix` has no trailing slash, so the
address loop also receives every CIDR event, which `Decodes` then rejects.
Values are those the program writes itself, and addresses are IPv4, so decoding
cannot fail; `Names` has the other family.

### Watch

One loop is a cycle: read the revision (`readRevision`), connect (`connect`,
`connectFails`), receive a message (`sendEvents`), compare its header
(`readHeader`), store it (`updateRevision`), apply the events one by one
(`applyEvent`), until the stream ends (`closed`). `watchLoop` and
`cidrWatchLoop` have the same control, so one set of actions has the loop as a
parameter. Load, compare and store of `gEtcdRevision` are separate steps because
two goroutines do them without a lock. The header of a message may be ahead of
its last event: etcd sends a watcher that is catching up its events in batches.

What other parts do to this state is left open: any key may be written or
deleted at any time, and the worker may evict an entry (`evict`). Therefore one
instance in a run meets every history that others could produce; the theorems
are for any number.

`seen`, `stale` and `rewound` are history variables: they occur in no guard.
`stale` holds the addresses that a load failed to read, whose last event was
skipped or that were evicted; the properties say that nothing else is ever wrong.
After a load that failed they therefore say nothing of the addresses it should
have read, until an event brings them. `CopyExact` is what is left
of the copy that `InMemoryCopy` claims: with nothing to receive, memory is etcd
except for `stale`.

Watch describes multi-instance mode; the loops do not run in the other.

### Blocklist

A job is a handler, a lazy deletion, one deletion of the worker or one of the
bouncer's. `job[p]` holds what it does, at which instance, and its next step:
`"key"`, `"ptr"`, `"mem"`, `"done"`, or `"hung"`. A request's arrival (parsing,
clock, lookup of `first_seen`) is one step: it reads the clock and one table
entry, and then only its own copies. `persist` is an etcd request that succeeds,
`persistFails` one that fails, `persistHangs` one that is never answered; `apply`
is the memory update under the lock. `sweep` is the worker's round. A lookup is
modelled for the goroutine it can start.

`dirty` is a history variable: the addresses whose last job overlapped another
job on the same address, or did not complete. The properties `InStep`,
`PtrInStep` and `ExpiredLeave` hold outside of `dirty`; `block_linger` shows what
the exception costs.

`boot` fills the addresses, then the networks (`Load`). `etcdRange` looks neither
at the status of the reply nor at the error of decoding it, and `loadCIDRFromEtcd`
goes on after a transport error, so either table may stay empty whatever etcd has
(`"garbled"`). `unread` is a history variable: per instance the addresses whose
block its last load did not read and that no job has changed in memory since.
`InStep` says what memory lacks then: exactly these. `ReadYourWrites` and
`FirstSeenKept` except them, because the code looks at memory only: a PUT of such
an address starts `first_seen` anew. An expired key that was not read stays in etcd until a
later start reads it, as in `block_linger`; `ExpiredLeave` is for a process that
began with an empty etcd. In multi-instance mode a failed load is a
`LoadNothing` of `Replica`.

`ExpiryJustified` says that a record which has expired was the reason for a
deletion. It does not say that this record is the one deleted: the code does not
look again, so a block renewed after its predecessor was found expired is deleted
with it.

In multi-instance mode memory follows by `Deliver` of `Replica`, and by `Resume`
when streams may be lost (`"drop"`). The clock is the same for all instances and
counts in whole seconds, as the program does. An expiration of 0 means never;
clients can also ask for one below 0, which the code treats as never.

### CrowdSec

`decided` and `unsent` are the LAPI: the decisions, and for each bouncer what
changed since the last reply it was sent. `fetchCrowdSecDecisions` is a reply
that was read, `lost` one that was not; the LAPI forgets the changes in either
case. `bouncer[i].phase` is the place in `crowdSecLoop`: for the first reply
reconcile (stale addresses, stale networks, then the list), for later ones the
new decisions, then the deleted ones. Each address is a job like a client's. A
bouncer that starts again reconciles again. An expiration that CrowdSec gives is
computed from the duration left when the reply was sent, so a block may outlast
its decision by the time the job waited.

`missed`, `overruled` and `private` are history variables. `Mirrors` excepts
changes that were lost, that came as new and deleted in one reply, and addresses
another job concerned since: the code has no other claim to them. It also excepts,
in etcd only, a withdrawn block that the last load did not read: reconcile looks
for what to remove in memory.

A client may name any source, also `crowdsec` (`README.md` of the service shows
it), and reconcile takes such a block for one of its own; `crowd_label` shows it.
`private` therefore holds the addresses a client blocked with another source while
CrowdSec had nothing to do with them, until a client writes one in CrowdSec's name
(`PutsLabel`) or a decision concerns it. `KeepsOthers` is about these. For an
address that both a client and CrowdSec blocked the code has no rule who owns the
entry: `crowdSecRemove` of a deleted decision removes it whatever its source.

### CidrTable

The slice, with first-match scans and swap-with-last removal as in `cidr.go`.
Which address lies in which network is a constant.

### Names and Ipv4Text

An address is the sequence of its octets or nibbles, which is what its etcd keys
consist of; a text is a form (dotted, IPv4-mapped, eight groups, shortened) with
those parts. `rblQueryToIP`, `ptrQueryToIP`, `ipFromKey` and `loadedText` are the
conversions of the code. Operations are atomic: their interleaving is the subject
of `Blocklist` and `Watch`. A restart reads the keys (`loadKeys`) or nothing
(`loadNothing`); `unread` is as in `Blocklist`, for IPv4 addresses, and `V4Exact`
says that such an address is then found in no way.

`Ipv4Text` has the two codecs for return codes; `scans` gives the state of the
parser's loop after each character, as a recursive function of its index. Each
state of its specification is a text, so an invariant is a statement about all
texts within the bounds; texts grow until the scan has failed, after which more
characters change nothing. The reference definition in `ParsesExactly` does not
scan: it takes the three dots of the text, wherever they are, and weighs the
digits between them with powers of ten (`Number`). It says nothing of texts like
`1..2.3`: the comment on `IPv4StrToUint32` (`helpers.go:351`) promises 0 "for any
invalid input", while the code counts dots and not digits and takes an empty part
for 0.

### Log, Scrape and Serving

A goroutine in `Serving` is the sequence of operations it has left: lock, read or
change a map, ask etcd, write to the client, log, scrape. Each handler is given
by the set of its paths. `rlock` and `lock` follow `sync.RWMutex`: a writer that
waits holds up new readers. The readers that were waiting when a writer leaves
get no precedence over the next writer, as they do in Go; this allows more
behaviours than the program has. `stall` is a client or etcd that never answers.
`NoDeadlock` says that no circle of goroutines waits for locks: only someone
outside, the client of a list, can keep a table locked.

`Log` has the steps of a line from `get` to `write`. A goroutine's name stands
for its line, so `OwnLine` says that no other line and no part of one got into
it. `LogInit` has no caller, `logCh` is nil, and `send` always writes by itself.

`Scrape` has the loads and stores of `runtimeSamples` as separate steps, because
nothing orders those of two scrapes. A data race on a name, which is two words,
can show a half-written one; the scrape that reads it panics, `net/http` recovers,
and the request ends (`torn`). What the runtime's own lock inside `metrics.Read`
does after such a panic is not modelled.

## Runs

| Run | Checks | Result |
|---|---|---|
| `watch_sync` | `TypeOK`, `Provenance`, `ReplicaExact`, `CopyExact`, `ImplementsReplica`, `NoSilentRollback`, `CatchUp` (liveness) under all faults | holds |
| `watch_copy` | `InMemoryCopy` | violated |
| `block_single` | `TypeOK`, `InStep`, `PtrInStep`, `ReadYourWrites`, `FirstSeenKept`; two clients, failing etcd requests, crashes, failed loads | holds |
| `block_multi` | `PtrInStep`, `ExpiryJustified`, `KeepsToReplica`; multi-instance mode, lost and replayed events | holds |
| `block_expiry` | `ExpiredLeave` (liveness); hanging etcd requests | holds |
| `block_linger` | `AllExpiredLeave` (liveness) | violated |
| `crowd_sync` | `CrowdTypeOK`, `Mirrors`, `KeepsOthers`, `FirstSeenKept`; lost replies, crashes, failed loads | holds |
| `crowd_label` | `RemovesSyncedOnly` | violated |
| `tables` | `V4Exact`, `V6Sound`, `TypeOK` of `Names`; `ParsesExactly`, `RoundTrip`; `Unique`, `LookupExact`, `ActsAsMap`, `ActsOnItsOwn` | holds |
| `names_v6` | `V6Found` | violated |
| `serve` | `NoRace`, `NoDeadlock`, `Exclusive`, `OwnLine`, `RuntimeComplete`, `ServingTypeOK`, `Answered` (liveness) | holds |
| `cidr_lookup` | `ExpiredSkipped` | violated |

A violated property states what the repository's documentation or a comment says
of the program; `findings` in `PROJECT.json` quotes the line.

* `watch_copy`: an instance that was never disturbed and has nothing left to
  receive can lack an entry. An address is written between the two loads, so
  that the address load has missed it. The CIDR loop connects first, and the
  header of its first message moves `gEtcdRevision` past that event; the
  address loop, which connects next, starts after it.
* `block_linger`: a PUT and a lazy deletion of the same address overlap so that
  the key is in etcd and the entry is not in memory. When the block expires,
  nobody finds it: the worker looks at memory only.
* `crowd_label`: a client blocks an address with source `crowdsec`. The first list
  the bouncer gets is empty, CrowdSec never having decided anything, and reconcile
  sets out to remove the block as one it had synced.
* `names_v6`: in single-instance mode an IPv6 address is blocked by its short text.
  The table has it under that text; a DNSBL query looks under the text with all
  zeros. (After a restart the table has it under the last four nibbles of its key,
  as if they were an IPv4 address; this is the second exception of `V4Exact`. In
  multi-instance mode it is so from the start if the four are decimal digits;
  otherwise `ipFromKey` drops the event and there is no entry.) The block is missed, but nothing false is answered for the
  address: that is `V6Sound`, which holds.
* `cidr_lookup`: the first network that contains an address has expired, and
  lookup answers nil although another one blocks the address.

### Bounds

| Bound | Meaning | Why it is enough |
|---|---|---|
| `MaxRev` in `watch_*` | last revision of etcd, 3 or 4 | the store starts at 1; two or three events allow one event per loop and an overwrite or a delete, which every case of skipping, replay and rollback needs |
| `MaxRev` elsewhere | 20 or 100, never reached | the bound on requests is the effective one |
| `MaxRequests` | requests that change the list, 1 or 2; in `serve` goroutines started, 3 | a race needs two; in `serve` the third is a reader that comes while a writer waits for a reader, or a scrape after two that raced |
| `MaxTime` | the clock, up to 1 in `crowd_label`, else 2 or 3 | a block starts, expires, and in the runs on expiry time goes on after it |
| `Expirations` | what clients ask for | never, before the epoch, and times within `MaxTime` |
| `Lazies` | lazy goroutines alive at once, 1 | a lookup that would start a second one waits for the first; the worker is a second, independent deleter |
| `Workers` | instances whose ticker fires | none in `crowd_sync`, where lazy expiry deletes as well |
| `Clients` | requests in progress at once, 1 or 2 | |
| `Sources` | what a block can name as its source | one, and in the `crowd_*` runs the bouncer's, which clients can name, too |
| `Ends`, `MaxDecisions` | when decisions end; decisions, 2 | never and at the last moment; one can be withdrawn and issued again |
| `MaxBlocks` | addresses blocked at once in `Names`, 2 | two keys that give the same text when loaded |
| `Digits`, `MaxLen` | the digits 2, 5 and 6; length of a text, up to 9 | 255 and 256 in any part, empty parts, too few and too many dots; leading zeros are left to the proof |
| `Configs` | mode and logging | every branch on them is taken by one of the two |
| `Buffers`, `PoolSize`, `RuntimeCount` | 3, 1 and 2 | the pool runs empty and full; samples can be named in part |

Clients, lazy goroutines and instances are symmetric; the runs with liveness
properties use no symmetry. `SingleView` and `CrowdView` leave out revisions:
in single-instance mode no guard and no property reads one, so states that
differ in them only have the same future. Deadlock is not checked where the
system may come to rest: etcd at its last revision, no request left.

### Fairness

* `Watch`: each loop keeps taking its own steps, etcd keeps delivering what a
  stream has, and from some point on streams and processes do not break. The
  loops are endless goroutines that retry after two or three seconds. Nothing is
  assumed of writers.
* `Blocklist`: a job that has begun takes its steps, and the worker's ticker
  keeps firing. A request to etcd may also never return (`persistHangs`); then
  the job stays where it is. Nothing is assumed of clients or of lookups.
* `Serving`: a goroutine that can run does, as Go's scheduler guarantees, and
  the log takes what is written to it. A lock that is free again and again is
  not assumed to be obtained: only finitely many requests arrive.

## Theorems

All are proved for every value of the constants, from the named assumptions of
the modules: addresses and networks are disjoint, `NoEntry` and `None` are no
values, bounds are numbers, the buffers made first are different ones, a bouncer
is no client, decisions end at a time or never, an IPv4 address has four octets
and an IPv6 address more than four nibbles, a multiple of four. Bounds such as
`MaxTime` and `MaxRequests` are arbitrary numbers there.

| Theorem | Statement |
|---|---|
| `WatchProofs!TypeCorrect` | `Spec => []TypeOK` |
| `WatchProofs!ProvenanceCorrect` | `Spec => []Provenance` |
| `WatchProofs!ReplicaCorrect` | `Spec => []ReplicaExact` |
| `WatchProofs!CopyCorrect` | `Spec => []CopyExact` |
| `WatchProofs!WatchImplementsReplica` | `Spec => ImplementsReplica` |
| `WatchProofs!RollbackCorrect` | `Spec => NoSilentRollback` |
| `BlocklistTypes!TypeCorrect` | `Spec => []TypeOK` |
| `BlocklistTypes!ExpiryCorrect` | `Spec => []ExpiryJustified`, in multi-instance mode or without failing etcd requests |
| `BlocklistTypes!BlocklistKeepsToReplica` | `Spec => KeepsToReplica`, in multi-instance mode |
| `BlocklistProofs!PtrCorrect` | `Spec => []PtrInStep` |
| `BlocklistProofs!InStepCorrect` | `Spec => []InStep`, in single-instance mode |
| `BlocklistProofs!ReadYourWritesCorrect` | `Spec => []ReadYourWrites`, in single-instance mode |
| `BlocklistProofs!FirstSeenCorrect` | `Spec => FirstSeenKept`, in single-instance mode |
| `CidrProofs!UniqueCorrect` | `CidrSpec => []Unique` |
| `CidrProofs!OwnNetworkOnly` | `CidrSpec => ActsOnItsOwn` |
| `CidrProofs!TableImplementsMap` | `CidrSpec => ActsAsMap` |
| `CidrProofs!LookupCorrect` | `CidrSpec => []LookupExact` |
| `CrowdProofs!CrowdTypeCorrect` | `CrowdSpec => []CrowdTypeOK` |
| `CrowdProofs!CrowdPtrCorrect` | `CrowdSpec => [](TypeOK /\ PtrInStep)` |
| `CrowdProofs!CrowdExpiryCorrect` | `CrowdSpec => []ExpiryJustified`, in multi-instance mode or without failing etcd requests |
| `CrowdProofs!CrowdKeepsToReplica` | `CrowdSpec => KeepsToReplica`, in multi-instance mode |
| `CrowdProofs!CrowdSingleCorrect` | `CrowdSpec => [](InStep /\ ReadYourWrites) /\ FirstSeenKept`, in single-instance mode |
| `CrowdProofs!KeepsOthersCorrect` | `CrowdSpec => []KeepsOthers`, in single-instance mode |
| `CrowdMirror!MirrorsCorrect` | `CrowdSpec => []Mirrors`, in single-instance mode |
| `NamesProofs!NamesTypeCorrect` | `Spec => []TypeOK` |
| `NamesProofs!V4ExactCorrect` | `Spec => []V4Exact` |
| `NamesProofs!V6SoundCorrect` | `Spec => []V6Sound` of `Names` |
| `NamesProofs!RoundTripCorrect` | `TextSpec => []RoundTrip` |
| `NamesProofs!ParsesExactlyCorrect` | `TextSpec => []ParsesExactly` |
| `ServingProofs!LogCorrect` | `LogSpec => [](Exclusive /\ OwnLine)` |
| `ServingProofs!ServingLog` | `Spec => LogSpec /\ [](Exclusive /\ OwnLine)` of `Serving` |
| `ServingProofs!ScrapeCorrect` | `Spec => []RuntimeComplete` of `Serving` |
| `ServingProofs!ServingCorrect` | `Spec => [](ServingTypeOK /\ NoRace)` of `Serving` |
| `ServingProofs!ServingTypeCorrect` | `Spec => []ServingTypeOK` of `Serving` |
| `ServingProofs!DeadlockFree` | `Spec => []NoDeadlock` of `Serving` |

How the arguments go:

* **Watch, types.** `TypeOK` alone is not inductive. `TypeInv` adds `LoopOK` (a
  message in hand does not end before the loop's position, a loop that applies
  events has one left, loops run only after `main()` started them) and `StoreOK`
  (a key is live exactly when its last event is a put, and `kv` has that
  revision).
* **Provenance.** Inductive together with `TypeInv`: an entry comes from a load,
  where `kv` names its event, or from the event at the loop's position, and
  history only grows.
* **ReplicaExact.** The induction carries the revision `p` between `pos` and
  `seen` at which the entry was etcd's. Applying an event moves `p` for its
  address and, for every other address, either keeps `p` or follows the position
  over revisions that do not concern the address. `connect` moves the position,
  and puts into `stale` exactly the addresses it jumped over.
* **CopyExact.** From `ReplicaExact`: with nothing left to receive, no event of the
  address lies between `p` and the end of history, so what etcd held at `p` it
  holds now, and by `StoreOK` `kv` says the same (`HoldsUnique`). That the address
  loop's range covers every address it maintains is used here.
* **NoSilentRollback.** `RollbackInv`: as long as no lower revision was stored,
  the ModRevision of every entry is behind whatever the loop may still receive,
  which is `gEtcdRevision` between streams, the start revision while it
  connects, and its position while it reads. This needs that the header of a
  message is stored before its events are applied.
* **Refinement.** The variables of `Replica` are variables of `Watch`; each
  action is a `Replica` step or leaves them alone.
* **Blocklist, types.** `Types` adds to `TypeOK` that `StoreOK` holds of etcd and
  what a job that runs refers to (`Running`: its instance, its address and, for a
  round of the worker, a clock reading that has passed). `BlocklistTypes` first reduces
  the many ways a job begins or moves to a few facts (`BeginEffect`,
  `MoveEffect`), which the other proofs use instead of the actions.
* **ExpiryJustified.** `Known`: every entry in a table, and every entry a PUT is
  about to put there, was written to etcd before. `Targets`: what is about to be
  expired is due. History and the clock only grow, so what is due stays due. In
  single-instance mode a PUT whose etcd request failed still updates memory, so
  `Known` fails there and the theorem excludes it.
* **KeepsToReplica.** Each step is a `Replica` step or leaves its variables alone.
  The step to argue about is the update of memory: in multi-instance mode a put
  never gets there (part of `Known`), so what is left of it is a drop. The writes
  of a job need the types: its keys and records are the program's own. The
  bouncer only begins jobs, so the same holds with it.
* **PtrInStep, InStep.** `Alone`: a job that is still `clean` is the only one on
  its address. `Written`: such a job has written what its step says, so its keys
  agree when it is done. `Matches` is the same for memory, where `Agrees` says what
  memory has of an address that the last load read or did not read, and `Unloaded`
  that `unread` begins empty with each start. Without `Alone` nothing
  can be said of two jobs that take turns, which is what `dirty` records.
* **ReadYourWrites.** `Answered`: from the end of a clean PUT on, the entry of its
  record stays until another job begins on the address or it expires; `InStep`
  carries it over a restart whose load was read.
* **FirstSeenKept.** `Preserves`: until a clean PUT writes its key, etcd has what
  memory had when the PUT read `first_seen`.
* **CidrTable.** Uniqueness makes the first match the only match; then an entry's
  place in the slice does not matter, and each operation changes `findByCIDR`
  at one network. The same lemmas give the refinement. `LookupExact` needs the
  least index of a match, from the well-foundedness of the natural numbers.
* **CrowdSec, types.** `Sound` adds to `Types` and `Shape` the order of the parts
  of a reply (`Order`): what a bouncer has left to do is empty between two polls,
  reconciling comes only at startup, what is new is on the list it read, and a
  bouncer whose instance is down has neither a reply nor a job.
* **Blocklist beside the bouncers.** A step of `CrowdSec` moves the jobs of
  `Blocklist` as one of its own would: the bouncer begins jobs like a client's
  (`Takes`), the LAPI touches nothing. So the inductive invariants of `Blocklist`
  are inductive here too, and its theorems hold with bouncers at work.
* **KeepsOthers.** `Private`: nothing in memory, in etcd, in a job on its way, or in a reply says of
  such an address that CrowdSec had to do with it; thus reconcile does not find
  it, and no reply names it. A block gets CrowdSec's name only from the job that
  writes it (`UnmarkedKept`), and such a job of a client ends the claim.
* **Mirrors.** Three parts, each needed for the next. `Apart`: a job of another
  goroutine on an address makes it `dirty` or `overruled`, and what etcd has of an
  address outside of both was put there by the bouncer. `Plan`: for an address
  whose last change the bouncer was told of, what it is about to do is what was
  decided: it blocks what is in force, for at least as long, and unblocks what is
  not. `Dealt`: once it has nothing left to do for the address, memory has what
  was decided. The step that decides this is reconcile after a restart: what a
  lost reply or a crash left behind is in etcd with CrowdSec's label, hence loaded and
  found, or it is `unread`.
* **Names.** `Agreeing`: the PTR record exists exactly for what is blocked
  (`Paired`), a blocked IPv6 address has its last four nibbles on record
  (`Shadowed`), an IPv4-mapped text is in the table only since a request named it
  (`OddOnly`), and for the remaining IPv4 addresses the table has what etcd has,
  or nothing after a failed load (`Exact`). `Shadowed` and `OddOnly` are what a restart and a watch event need.
  For IPv6, `Usual`: an entry of an address that was always named by its usual
  text is under that text and is etcd's block. In multi-instance mode and after
  a restart there is no such entry, since every text is then made from a key.
* **RoundTrip.** `ScansLoop`: the recursive function is defined for every text.
  `ScansAppend`: a text with one more character takes the loop one step further.
  Both go by the least index at which they would fail. Then the loop is followed
  through the digits of a byte (`AtByte`) and a dot (`AtDot`), four and three
  times. The parser yields four bytes for every text (`ParseTyped`).
* **ParsesExactly.** The loop invariant `Right` says of the scan after each
  character: the dots so far are where the parts end (`Follows`, `Cuts`), the bytes
  so far are the numbers of those parts, and the running value is the number of
  the digits since the last dot (`NumberMore`: one more digit multiplies by ten and
  adds). Where the scan fails, no way of choosing dots makes the text a quad,
  however it goes on (`Hopeless`): another character, a fourth dot, too few dots at
  the end, or a number above 255, which more digits do not make smaller
  (`NumberGrows`). Induction over positions is by `Climbs`, over sets of positions
  and thus without an operator as parameter.
* **Log.** A buffer is with one goroutine, in the pool once, or unused, and the
  buffer of a goroutine that has formatted holds its line alone. Every step of
  `Serving` is a step of `Log` or leaves its variables alone.
* **Scrape.** `Naming`: the samples in use have all their names, or the scrape that
  made them is still at it. `Undisturbed`: a scrape that none was making samples
  during ranges over samples that are named and read.
* **Serving.** `Orderly`: in the rest of a path, a lock that is used is given back
  later, and not taken again before. `Locks`: a goroutine has exactly the locks its
  rest gives back. Every path of every handler is orderly from the start
  (`Whole`), and stays so when its first operation is done. `NoRace` follows, as a
  writer has the lock alone.
* **NoDeadlock.** `Orderly` also says what a path does while it has a lock
  (`Under`): it takes no other lock, and only a list waits for someone. `Stalled`:
  who is stuck is at an operation that can stall. Who waits for a table waits for a
  writer that has it or is next, or for a reader (`Holder`); a reader goes on by
  itself (`ReaderFree`), a writer does once the readers left (`WriterFree`), so in
  each case there is one that waits for nobody's lock.

Only model-checked:

* liveness (`CatchUp`, `ExpiredLeave`, `Answered`), which is outside the prover's
  reach, as fairness and `ENABLED` are. `CopyExact` and `NoDeadlock` are the safety
  part of the first and of the last, and are proved.

Every invariant, action property and refinement that a passing run checks is
stated by one of the theorems.

## Not modelled

* Values written to etcd by other programs; compaction in etcd, which the program
  never asks for, and the canceled watch that would follow from it; a message over
  the scanner's 1 MB.
* The asynchronous log writer (`LogInit`, `asyncLogWorker`, the waiting part of
  `LogFlush`): no caller starts it.
* A transport error of the address load, after which the process ends at once
  (`logFatal`): a start that has not happened.
* Connections to etcd: `etcdDelete` does not close the response.
* Other fields of a record (scenario, action, last_seen): they are copied and
  decide nothing. Validation of parameters is "accepted" or "rejected".
* Counters and the text of metrics, log lines and replies; configuration,
  profiling and the built-in tests: no state of the blocklist depends on them.
* Codecs that only tests call.
