# A TLA+ model of RegistaDB

RegistaDB is a small database server: entries (an id, a payload, creation and
update times) are kept in RocksDB and are created, read, updated and deleted
over ZeroMQ or HTTP. This directory holds TLA+ modules that model it, TLC
configurations that check them on small instances, and proofs that TLAPS checks
for every instance. `PROJECT.json` is the index: which lines a definition
models, which run checks which property, which mutation of the code each
property catches, the disagreements found between code and documents, and the
hazards the properties are for.

To check a run: `tlc -config linear.cfg MCExecuteRequest`. To check a proof:
`tlapm ExecuteRequestProofs.tla`.

## The system

| Component | State | Operations | Concurrency |
|---|---|---|---|
| `StorageManager` (regista_db/src/StorageManager.cpp) | column families `index_cf` (reversed id -> primary key) and `data_cf` (reversed creation time, id -> entry); the atomic id counter | `StoreEntry`, `GetEntryById`, `DeleteEntryById`, `GetNextId`, recovery of the counter in the constructor | called by every thread, no lock; each RocksDB call is atomic, a read or a delete is two of them |
| `RegistaServer::ExecuteRequest`, `PrepareEntry` | none of its own | CREATE, READ, UPDATE, DELETE, and refusals | run by the ZeroMQ thread and by every Drogon worker |
| ZeroMQ loop (`Run`, `HandleIngest`, `HandleQuery`) | a PULL and a REP socket, `running_`, `keep_running` | poll, at most one pushed entry and one query per round | one thread |
| REST gateway (`EntryController`) | none | GET, POST, PUT, DELETE on `/entries` | Drogon's worker threads |
| Process (`main.cpp`) | `keep_running`, the threads, `g_regista_server` | start, SIGINT, shutdown | main, signal handler, ZeroMQ thread, workers |
| Metrics bridge (`MetricsExporter.cpp`) | a detached polling thread, its own `keep_running` | start, stop | one thread, the exposer's threads |
| Documentation page (`swagger-initializer.js`, `index.html`; the document root in `main.cpp`) | the root Drogon serves; how far each page has come | find the root at start; load the page part by part, start Swagger UI on `openapi.yaml` | browser tabs, next to a server that may stop and come back |
| Java client (`RegistaClient`) | a PUSH and a REQ socket | `create`, `read`, `update`, `delete` (wait for a reply), `createNoReply` | one thread per client |

The gateway and the ZeroMQ loop both end in `ExecuteRequest` (the PULL socket
in `PrepareEntry` and `StoreEntry`), and that ends in `StorageManager`, so the
whole program shares one store, one counter and one clock without a lock. What
is hard in this code follows from that:

* An UPDATE reads and then writes; a READ and a DELETE look up a key and then
  use it. Anything may happen in between, including another life of the id.
* The row of an entry is filed under its creation time. Whatever changes that
  time loses the row.
* Ids come from clients and from a counter that is recovered from the largest
  id present. They may meet, wrap, or be given out twice.
* Writes are not synced: a power loss takes back the latest ones.
* The clock is `system_clock`: it may repeat a microsecond and step back.
* The loop must answer each query exactly once and must not starve queries;
  the client waits for ever; shutdown involves four kinds of threads.

What makes each component correct:

* Storage: the index never leads to a missing or foreign row; what is on disk
  is sound at every moment; the counter is recovered above every id.
* Request execution: clients see a map from ids to entries (the abstract
  specification `EntryStore`), generated ids are fresh, creation times are
  kept, nothing is leaked.
* ZeroMQ loop and client: every query gets one reply, its own; no starvation;
  what was pushed is eventually taken while the server lives, and lost only by
  an I/O error.
* REST gateway: the id of the path wins, the status tells what happened, what
  cannot be parsed is not stored.
* Process: after SIGINT everything stops, and nothing is used after it is gone.
* Documentation page: it is shown whenever the docs are offered, and the API's
  definition is not to be had from a server that was not told to offer them.

## Modules

| Module | Models | Extends / uses |
|---|---|---|
| `StorageManager` | the storage layer | |
| `ExecuteRequest` | request execution by concurrent threads | extends `StorageManager`, refines `EntryStore` |
| `EntryStore` | what the server promises: a map from ids to entries | |
| `EntryController` | the REST gateway on Drogon's workers | extends `ExecuteRequest` |
| `ServerLoop` | the ZeroMQ loop and its clients | refines `Tunnels` |
| `Tunnels` | what the two sockets promise: each query executed once, pushes taken in order | |
| `Lifecycle` | `main`, signals, shutdown, the metrics thread | extends `ServerLoop` |
| `SwaggerUI` | the document root and the load of the documentation page | |
| `MCExecuteRequest`, `MCEntryController`, `MCServerLoop`, `MCLifecycle`, `MCSwaggerUI` | instances for TLC | |
| `StorageManagerProofs`, `ExecuteRequestProofs`, `EntryControllerProofs`, `ServerLoopProofs`, `LifecycleProofs`, `SwaggerUIProofs` | theorems and proofs about the module of that name | extend it; `EntryControllerProofs` also `EntryStoreProofs`, `LifecycleProofs` also `ServerLoopProofs` |
| `EntryLifeProofs` | each life of an id has one row, one creation time, one creator | extends `ExecuteRequestProofs` |
| `EntryStoreProofs` | `ExecuteRequest` implements `EntryStore` | extends `EntryLifeProofs` |

### StorageManager

`index` and `data` are functions from keys to values or `None`. Keys are
numbers in the order in which RocksDB sees the big-endian bytes, so an index
key is `IdMax - id` and "the first key of `index_cf`" is `Min`. A primary key is
the pair of the reversed creation time, in microseconds, and the id, computed
through `google.protobuf.Timestamp` as the code does. `counter` wraps modulo
`IdMax + 1`, the width of an id.

`StoreEntry` is one WriteBatch and so one step. `GetEntryById` is `LookupIndex`
then `FetchRow`; `DeleteEntryById` is `LookupIndex` then `DeleteRows`; the key
that a thread remembers in between is `cursor[t]`. `Reopen` is the constructor
in a new process. `durable` is RocksDB's content on disk: `Flush` may bring it
up to date at any time, between any two batches, and `PowerLoss` reopens the
store on it.

### ExecuteRequest

Each thread has a program counter; a step is one access to something shared
(the clock, the counter, or one RocksDB call), with the local code around it.
`Accept` and `Refuse` are the switch and its early returns. CREATE is
`PrepareEntry`, `AssignId` if the id is 0, `Store`. READ is `Lookup`,
`FetchRead`. UPDATE is `Lookup`, `FetchOld`, `Stamp`, `Store`. DELETE is
`Lookup`, `Erase`. `Miss` and `FetchMiss` are the NOT_FOUND branches and
`IoError` a RocksDB status that is not ok. A pushed entry of the PULL socket
takes the steps of a CREATE whose response is dropped.

`seen` is a history variable: what the id of a request has held since the
request was accepted. No action reads it to decide anything; only the
refinement uses it.

### EntryStore

A map `store` from ids to entries. CREATE, READ and NOT_FOUND take effect at
one moment of the call. UPDATE and DELETE are what the code makes of them: they
need the id to have held an entry at some moment of the call, and then write or
erase whatever is there by then. `disk` is the map after a power loss. `Fail` is
an I/O error: it uses up one of `MaxFaults`, changes nothing, and says
INTERNAL_ERROR only where the code does, in the last step of a CREATE or an
UPDATE; a READ, a DELETE and an UPDATE that has not found its entry yet answer
NOT_FOUND, of an id that may be there.
`ExecuteRequest` implements it with `store` as what a lone reader would get for
each id.

### EntryController

Some of the threads of `ExecuteRequest` are Drogon's workers; the others stand
for the ZeroMQ thread, whose requests are not restricted. A worker in a call
holds its HTTP request in `http`; `reply` is its last answer. `RejectBody` is the
early returns for a body that does not parse; `Handle` builds the request
(`ToRequest`: the id of the path replaces the body's) and calls
`ExecuteRequest`; `Execute` is any step of that call; `Respond` maps the status
to a code and makes the reply. A body is a well-formed entry, absent, broken, or
JSON that is no entry: for the last, `JsonStringToMessage` fails and leaves the
entry empty, its status is ignored, and the call goes on with it (so it is in
the version of protobuf that the Dockerfile installs).

`effect` is a history variable: what has become of the entry that the request
is about. It is read off the store and not off the action: "erased" is that an
id which readers found before the step is not found after it, so that a DELETE
whose index entry and row have gone since its lookup (`DeleteEntryById` writes
its batch all the same) is not counted as having deleted; that one is
"overtaken", if its id did hold an entry during the call. No action reads
`effect`; `StatusTellsEffect` relates the reply to it.

### ServerLoop

`call[c]` is the call that client `c` is blocked in. A PUSH socket and the PULL
socket share the queue `ingest[c]`, at most `Hwm` long; the REQ socket's request
is in `query[c]`, then in `serving`, then as `reply[c]`. `Poll` records in
`revents` which sockets are ready, `HandleIngest` takes one pushed message,
`HandleQuery` one request, `SendResponse` answers it, and the loop goes back to
the poll; a handler that is entered without a message blocks, as `recv` does. A
poll that times out changes nothing. `Close` may lose what a client has pushed
and what has not reached the server.

The store is reduced to the ids it holds. Between `HandleQuery` and
`SendResponse` a request that parses is executed: `Refuse` are the early returns
of `ExecuteRequest` (`Invalid` is a request without entry, id or known
operation), `Succeed`, `NotFound` and `Fail` its other ends, with the same
choice between NOT_FOUND and INTERNAL_ERROR after an I/O error as in the module
of that name. `OtherCall` is an HTTP worker that changes the store, at any
moment; `seen` is what the request's id has been since the execution began, and
as in `EntryStore` a request may succeed or miss on what it has seen, not only
on what is there at its last step. `HandleIngest` stores what parses or, as the
result of `StoreEntry` is dropped, loses it to an I/O error in silence.

Fairness: the loop's thread runs (weak fairness of `LoopStep`); libzmq takes
from its peers in turn (strong fairness of each client's `HandleIngest` and
`HandleQuery`: they are enabled once a round); a blocked call of a client goes
on when it can. Nothing makes a client call, and nothing stops one from calling
for ever.

### Tunnels

The same calls without sockets, polls and rounds. `Call`, `Push` and `Close` are
the client's; `Take` takes the oldest message that a client has pushed, and only
an I/O error loses it; `Refuse` or `Begin` and `Execute` carry out what a client
asks, between the call and `Return`; `Other` is anybody else's change of the
store. `ServerLoop` implements it with `sent` as the push queue and `answer` as
the response being sent or on its way: `HandleIngest` is `Take`, `HandleQuery`
is `Begin`, or `Refuse` for what does not parse, the end of `ExecuteRequest` is
`Execute` or `Refuse`, `ReceiveReply` is `Return`, and `SendRequest` is `Call`;
`Poll` and `SendResponse` are stutters.

### Lifecycle

`main` goes from opening the storage over starting the loop's thread and
running Drogon to the shutdown, one action per statement that matters.
`Interrupt` is SIGINT, at any moment and any number of times: before Drogon
runs it finds `signal_handler`, later Drogon's own handler, and the thread that
handles it may be the loop's, whose poll then fails with EINTR. `running_` is a
plain `bool`; as each round calls into ZeroMQ, the build reads it again each
time, and it is modelled as seen at once. A round of the loop ends at its
flags, where `LeaveLoop` is. Drogon's workers change the store while it runs
(`WorkerStep`). Fairness: main's thread and the loop's run; no
signal has to come.

### SwaggerUI

`Start` is `main` from reading `ENABLE_SWAGGER_UI` to `run()`: `FindRoot` is the
loop over the five candidate directories, which takes the first that holds an
`index.html` and looks at nothing else. If the docs are not enabled, or there is
no copy of them, `main` tells Drogon nothing, and Drogon keeps its own root, the
working directory, and its own file types: `./static`, which the image has, is
then served under `/static`, HTML, scripts and styles but no YAML. So the page
has two paths, `Prefixes`. `Serves` is what Drogon does with a path: the file
must exist under the root and have one of the types in force. `Stop` ends the
server; the next `Start` may find another environment, another working
directory or other files. A tab asks for `index.html`, then for what it names,
relative to its own path and in any order. `LoadEvent` is the handler that
`swagger-initializer.js` sets: it needs all scripts, or the page stays blank.
Swagger UI then asks for `DefinitionUrl`, the one absolute path, and again
whenever the user presses Explore. Drogon, the browser and the two bundles are
external.

`outage` is a history variable: since the page's last request of the user, the
server was down or did not offer the docs. "Offered" means enabled, and the
first copy of the docs among the candidates is complete. No action reads it.

Fairness: in each tab, a request of the page that is waiting for its answer gets
one, be it a refusal (weak fairness of `PageStep`). Nothing makes the user open
the page or the server start.

## Runs

All runs with a clock use model values for threads and payloads and two clock
readings, one on each side of a full second, so that both fields of a timestamp
matter.

| Run | Question | Bounds |
|---|---|---|
| `linear` | Is every response one that a map from ids to entries would give? May an UPDATE take `updated_at` back? | 3 threads, 4 requests on one id, given or generated, 1 I/O error, 1 restart or power loss, clock monotone (as `UpdatesGoForward` needs it; the theorem is about any clock) |
| `server_ids` | If clients leave ids to the server: are index and disk sound, the counter recovered, ids fresh, rows never orphaned, creation times kept? | 2 threads, 4 requests, ids 0..3 (the counter wraps), 2 restarts or power losses, 1 I/O error, clock free |
| `rest` | Does each HTTP status tell what has become of the entry, also when DELETEs overlap, and do PUT and DELETE keep to the id of their path? Do the invariants survive I/O errors, the largest id and a wrapping counter? | 2 workers and the ZeroMQ thread, 3 requests, ids 0..2, 1 error, 1 restart, clock monotone |
| `loop` | Does every call on the tunnels return, with a reply to it, and is what is pushed taken? Can the loop block in a `recv`? Is each query executed once, whatever HTTP workers do to the store meanwhile? | 2 clients, one sends garbage too, refused requests, queues of 2, one id, 1 I/O error, calls and HTTP workers' changes unbounded |
| `lifecycle` | Does the process end, in the right order, whenever and however often it is interrupted, and may `main` join a thread that is blocked? | the same with queues of 1, signals unbounded |
| `docs` | Is the documentation page shown whenever it is offered, and its definition never when it is disabled? | 1 tab that opens, reloads or asks again 3 times, under either path, 6 deployments, restarts unbounded |

The invariants of the storage are checked where the server uses it, in
`server_ids` and `rest`; that they hold under any use at all, in any order, is
what `StorageManagerProofs` proves of `StorageSpec`.

Why the bounds are enough: the hazards are overlaps of a two-step call with
other calls on the same id, and three threads overlap every pair of calls with
a third; a fourth request creates the id first. Larger ids only add independent
ids, except at the wrap, which every id width has. On the tunnels, two clients
contend for both sockets, one of them can block on its full queue while the
other asks for ever, and a queue of two holds garbage before an entry. Tabs share nothing, so one is
enough; three requests of the user are a load, a reload in the middle of it and
a press of Explore. The deployments of `docs` are the image with the docs enabled
and not, a server started in `static` with the docs disabled, where the announced
path itself exists under Drogon's default root, a copy with a gap that is not
taken, one that is, and no copy at all.
`CHECK_DEADLOCK FALSE` is set because the bounded number of requests ends a
behaviour, as it ends when clients stop asking.

Safety needs no fairness and the modules of the store state none. A request
needs no other thread to make progress, since there is no lock. In `loop` and
`lifecycle` the clients may stop calling, and a process that ended is a
deadlock.

### Disagreements between the code and its documents

Each has a run in which TLC shows the behaviour; `PROJECT.json` quotes the text.

* `found_id_collision`: a generated id may be one a client has used; the entry
  under it is replaced.
* `found_update_revives`: an UPDATE that overlaps a DELETE writes the deleted
  entry back.
* `found_orphan_row`: creating an id twice leaves a row that DELETE does not
  delete.
* `found_mismatch_stored`: JSON that is no entry is not refused; an empty entry
  is stored and the answer is 201.
* `found_early_sigint`: a SIGINT that arrives before Drogon runs ends the ZeroMQ
  loop and not the process.
* `found_bridge_runs`: `StopMetricsBridge` stops nothing.

Seen while modelling, without a run of their own: an id may be given out again
after its entry was deleted and the server restarted, since the counter is
recovered from the ids present; after the largest id was used and the server
restarted the next generated id is 0, which UPDATE refuses; an I/O error during
a lookup is answered NOT_FOUND; a pushed entry whose write fails is lost and
nobody is told; two DELETEs of one id that overlap may both be answered 204;
`ENABLE_SWAGGER_UI=false`, which src/README.md gives as the way
to disable Swagger UI, leaves the page under `/static/app/docs/`, without its
definition, as Drogon keeps its default root.

## Proofs

`StorageManagerProofs` proves for every number of threads, every id and
timestamp width and every set of clock readings that the types hold, that
`IndexSound` and `DurableSound` always hold and that `CounterRecovered` does.
`IndexSound` is not inductive: a delete erases the row of a key that it read
earlier, possibly after the index has moved on. The strengthening is
`CursorSound`: a remembered primary key carries the id of its lookup. As primary
keys of different ids differ, the erased row is never another id's. The lemmas
say that index keys and ids are in bijection, that a primary key determines its
id, and that storing or erasing keeps a store sound; the bound of the recovered
counter needs that a non-empty set of keys has a least one, from the
well-foundedness of the naturals.

`ExecuteRequestProofs` proves types for every local variable and that `Spec`
implies `StorageSpec`: under any number of threads, requests, faults and
restarts the server uses the storage only as its specification allows. The
invariant is `ThreadSound`, what a thread holds at each position in the code;
for instance that a cursor is held exactly at the second step of a two-step
call, which makes `IoError` a storage step. `ServerIndexSound` then follows from
the storage's theorem without another induction.

`EntryControllerProofs` proves that the gateway implements `Spec` of
`ExecuteRequest`, so that what is proved of the server holds under it (the
refinement of `EntryStore`, the soundness of the index and the order of the
times are stated for it), and the two properties of the `rest` run that are
about HTTP. Their invariant is `GatewayInv`: for each worker,
what its thread is executing is the request made from its HTTP request, nothing
has been written as long as it executes, and the response it leaves tells what
the last step did. `EffectStep` is where `StatusTellsEffect` is earned: only a
step of `Erase` leaves an id without its entry (the map changes by no other
step but `Store`, which adds), and an `Erase` that finds none has seen one since
its call, which is what `SeenSound` of the refinement proof says.
The invariant is needed because the reply is given steps after the write, and every other
thread may act in between; the lemmas say that a step of one thread leaves the
others' locals alone and that a write touches what readers get for one id.

`ServerLoopProofs` proves `OneReplyEach` for any number of clients. Its invariant
adds `Paired`: the loop owes a reply exactly while it executes or replies, the
response it is about to send is one that fits that client's message, and what
travels is what the client asked. Without it nothing says that the client being
served is one that waits. Steps of the push tunnel are handled once, by the
lemma `KeptPaired`. `RecvNeverBlocks` is not inductive either: the query that a
poll found is received only after the pushed message of the same round, and
`Awaited` says that it is still there (`ClientsStay`: no client takes back what
it has sent, and one that closes is not in a call).

`LoopImplementsTunnels` maps each step of the loop to `Tunnels`. `Paired` is what
it needs: when `HandleQuery` takes a query its client is in that call and
has no answer yet, so the abstract `Begin` is enabled, and it is still in it when
the execution ends; and a reply that travels belongs to a client that waits.

`LifecycleProofs` proves the order of the shutdown on top of it. `Signalled` says
that a cleared flag, a quitting Drogon, an ended loop and a `main` past `run()`
each presuppose a signal; `Joined` says where the loop is before its start and
after the join. With `Awaited` they give `JoinNeverHangs`, the safety half of
`ShutdownCompletes`; the liveness itself is left to TLC. `ProcessImplementsTunnels`
carries the refinement of `Tunnels` over to the process with its signals and its
shutdown.

`EntryStoreProofs` proves the refinement, for every number of threads, requests,
I/O errors and restarts, for ids of clients and of the server and for any clock:
`ServerImplementsEntryStore`, without a hypothesis. The invariant is
`SeenSound`. A thread between its two steps holds a primary key that may be out
of the index by the time it is used; the proof needs that the row under it, or
its absence, is still something the id has held since the call. It is, because
every batch that touches that row sets or removes the index entry of the same
id in the same step, so that what the row has become is what the id then held
(`BatchKeepsOthers`). `EntryAsked` carries the rest: what is about to be stored
is what the request asks for, with the creation time of an entry the call has
seen. `LiveAfterBatch` says that a batch changes the map at one id, and each
action then has a lemma that maps it to one of `EntryStore` or to a stutter; that
of `IoError` distinguishes where the error struck, as an UPDATE answers
INTERNAL_ERROR only when it has seen an entry.

Two more theorems are about overlaps. `UpdatesNeverGoBack`: an UPDATE whose id
held one entry from its call to its store does not take `updated_at` back, if
the clock is not set back. The invariant is `StampFresh`: when it stamps, the
entry it read is no younger than the clock, and afterwards `seen` only grows.
`UpdatesApartCreateNothing`: under `[]Apart`, no DELETE is about to erase the id
of an UPDATE that has looked it up, `OnlyCreateCreates` holds; so the overlap of
`found_update_revives` is the only way in which an UPDATE creates an entry.

`EntryLifeProofs` proves what holds when clients leave all ids to the server
(`CreateIds = {0}`): `NoOrphanRows`, `GeneratedIdFresh`, `CreationTimeKept` and
`DeleteRemovesRows`, which `found_orphan_row` refutes for ids of clients.
The second assumption is `[]IdsLeft`, the counter does not come round: after the
largest id the counter gives out ids anew, and the theorems would be false. The
inductive invariant is `OneBirth`: the counter has passed every id that is present
or remembered by a thread, all threads that remember a key of one id remember the
same, and that is the key the index names, if it names one. So an UPDATE
that read long ago, and may run after a DELETE, still writes the one row its id
has ever had. It is needed because `NoOrphanRows` says nothing of what the
threads remember. A recovered counter may be below ids that were generated and
deleted again, which is harmless as no thread survives to remember them.
`UpdatesFollowCreation` needs no assumption on ids, only that the clock is not
set back: `TimesInOrder` says that no entry on the way to the store, in it or on
disk carries times out of order or of the future. Both times matter:
`UpdatesNeverGoBack` needs that `updated_at` is not of the future.

`SwaggerUIProofs` proves for any tabs, tries and deployments that a page breaks
only after an outage and that no page gets the API's definition from a server
which is not told to offer the docs: what Drogon serves then it serves with its
own types, and YAML is none of them. `PageSound` relates how far a page has come to the parts
it has got, as long as there was no outage.

Assumptions are `StorageAssumption`, `RequestAssumption`, `ControllerAssumption`,
`LoopAssumption` and `DocsAssumption`: the constants have their sorts and `None`
is none of the values. TLC evaluates all of them.

Model-checked only: the liveness of the loop, of the shutdown and of the
documentation page (liveness under fairness is beyond the prover). Every other
property of a passing run is proved.

## Plan

Done: the store, request execution and its refinement of the abstract map, the
gateway, the tunnels and their promise, the process, the documentation page;
proofs of every safety property of the passing runs, of both refinements, and of
what two of the disagreements need to come about. What is left:

1. Composition of `ServerLoop` with `ExecuteRequest`. Each is checked next to
   unrestricted others: `ExecuteRequest` has any thread issue any request, and
   `ServerLoop` reduces the store to the ids it holds.
2. The order of one client's calls: pushes and requests use two sockets, so a
   read may overtake the push before it. `Tunnels` allows that; with the store of
   `ExecuteRequest` it could be said what such a read may return.

## Not modelled

The Java value builders and readers: conversions without state between a Java
value and the oneof of playbook.proto, which the server never looks at. Payload
contents (one opaque value stands for metadata and data), message texts
and formatting, thread affinity, command-line options, the statistics RocksDB
collects and the gauges' values, Drogon's routing and the two wire formats of a
reply, the Grafana, Prometheus and Docker files, the demo programs. The vendored
bundles of Swagger UI are third-party and minified; of the ones that the page
does not load, and of oauth2-redirect.js, nothing is used at all.
RocksDB is external: single calls are atomic and linearizable, a WriteBatch is
all or nothing also on disk, iteration is in key order. A failed `DB::Open` is
left out: the constructor then reads an empty vector, which is undefined before
any request is served. Exceptions that ZeroMQ throws by itself, other than EINTR,
are left out: `Run` ends on any of them. `GeneratedIdFresh` is about a counter
that does not come round; the wrap to ids in use takes 2^64 creations or a
client's id near the largest.
