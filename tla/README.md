# TLA+ verification of JULEA

JULEA is a storage framework: applications link a client library that offers
objects, distributed objects, key-value pairs, items and database entries;
servers keep the data in exchangeable backends.  This directory holds
TLA+ models of its concurrent and distributed core, the TLC configurations that
check them, and TLAPS proofs of their most important invariants.  Every
definition is taken from the C source; `PROJECT.json` maps definitions to
source lines.

Run everything from this directory:

    tlc -workers 2 -config ConnectionPool.cfg MCConnectionPool
    tlapm ConnectionPoolProofs.tla

## 1. Inventory

| Part | State | Operations | Why it is hard | What makes it correct |
|---|---|---|---|---|
| Connection pool (`jconnection-pool.c`) | per server: queue of idle connections, atomic `count` | pop (try, check, add, connect, undo, blocking pop), push, init, fini | check and increment of `count` are separate; a failed connect keeps its slot | limit respected, a connection has one user, every pop returns |
| Messages (`jmessage.c`) | byte streams of connections | send, receive, read replies | payload follows its header; replies are optional | a header is found where one is expected, a reply meets its own request |
| Object client (`jobject.c`) and object server (`server/loop.c`) | requests in flight, files, memory chunk | create, delete, read, write, status, sync | a pool of connections, several replies to one read, messages without reply, a server that dies | what was confirmed was performed, results are the server's, confirmed requests are ordered |
| Background operations (`jbackground-operation.c`, `jhelper.c`) | pool of threads, reference counts, completion flags | new, wait, run, unref, execute_parallel, fini | tasks that create tasks in the same pool; two sides free one structure | no use after free, waits return |
| Batches (`jbatch.c`) | list of operations, semantics, reference count, background task | add, execute, execute_async, wait, unref | the last reference may be the task's; consistency decides when a batch runs | each operation once and in order, session batches have run when they are freed |
| Operation cache (`joperation-cache.c`, `jcache.c`) | queue of cached batches | add, flush | a background thread | it declines every operation in this version |
| Distributions (`jdistribution.c`, `distribution/*.c`) | type, block size, index, weights, position | configure, (de)serialise, reset, distribute | block and round arithmetic | every byte has one place |
| Distributed objects (`jdistributed-object.c`) | distribution per handle, a file per server | create, delete, read, write, status, sync | one background operation per server, several clients, short writes | together the stripes are one array of bytes |
| Database client and SQL backend (`jdb-internal.c`, `db-util/sql-generic-*.c`, `backend/db/sqlite.c`) | tables, `schema_structure`, transaction, global lock, schema cache per thread | schema create/get/delete, insert, update, delete, query, batch start/execute/abort | transactions of several threads, aborts in the middle of a list, statements that commit by themselves, crashes | isolation, truthful results, metadata that fits its table |
| Database client objects (`jdb-schema.c`, `-entry.c`, `-selector.c`, `-iterator.c`) | BSON documents, a reply under iteration | build, fetch, insert, update, delete, iterate | flags that say when an object may still change | an object belongs to the server once created or fetched |
| Key-value client, server messages, iterator (`jkv.c`, `jkv-iterator.c`, `server/loop.c`) and backends (`backend/kv/*.c`) | requests in flight, a reply per server, open batches and snapshots of the backends | put, get, delete, iterate, in process or remote | a length of 0 means "not found"; every backend makes its writes visible and durable at another moment | values read were there, confirmed writes stay, batches are atomic |
| Object backends (`backend/object/posix.c`, `gio.c`, `rados.c`) | names and files, global and per-thread tables of open files | create, open, close, delete, status, read, write, list | one lock that is held across a return; a handle may outlive its file; interrupted system calls | a handle is freed once and never used later, transfers have no gaps |
| Items and collections (`lib/item`) | a key-value pair plus a distributed object | create, get, delete, read, write, status, list | two stores, no atomicity between them; shared reference counts | whoever finds an item finds its data; an item is one flat file |
| HDF5 plugin over the database (`lib/hdf5-db`) | rows of eight tables, objects, reference counts of open HDF5 objects | file, group, dataset, attribute, link and object calls | every call is several statements without a transaction; processes share nothing but the tables | names are unique, links lead somewhere, files are freed once |
| Other backends, HDF5 over key-value, CLI, FUSE, tools, tracing, configuration, statistics, libfabric network | | | | not modelled, see section 8 |

How the parts interact: an application adds operations to a **batch**; executing
it hands runs of equal operations to an *exec function* of the **object**,
**distributed object**, key-value or **database client**.  The exec function pops a
connection from the **pool**, exchanges **messages** with a **server** thread and
pushes it back.  Distributed objects do this in one **background operation** per
server, chosen by the **distribution**; asynchronous batches are background
operations themselves.  The server calls a **backend** for each operation.
**Items** are built from key-value pairs and distributed objects, the **HDF5
plugin** from database entries and distributed objects.

## 2. Modules

| Module | Models | State and actions |
|---|---|---|
| `ConnectionPool` | `jconnection-pool.c` | `pc[t]` is the position in `pop_internal`; `TryPop`, `CheckCount`, `AddCount`, `Connect`, `UndoCount`, `BlockingPop` are its atomic accesses, `Push`, `PoolInit` and `PoolFini` the rest of the API |
| `BoundedPool` | abstract specification | acquire and release as single steps with a limit |
| `ConnectionPoolProofs` | proofs | |
| `ObjectProtocol` | `jobject.c`, `jmessage.c`, object messages of `server/loop.c`, `jd_on_run`, `jmemory-chunk.c` | `up`/`down` are the streams of a connection, `client[t]` an exec function, `server[c]` a server thread inside a handler, `exists`/`size`/`unsynced` the backend; `progress`, `outcome`, `issued` are histories |
| `ObjectProtocolProofs` | proofs | |
| `BackgroundOperation` | `jbackground-operation.c`, `j_helper_execute_parallel` | `queue`, `ref`, `completed` and an `actor` per application thread and worker |
| `BackgroundOperationProofs` | proofs | |
| `Batch` | `jbatch.c`, the reachable part of `joperation-cache.c` | `batch[b]` the structure, `actor` whoever executes or frees it, `added`/`done`/`calls` histories |
| `BatchProofs` | proofs | |
| `Distribution` | `jdistribution.c`, `distribution/*.c` | a distribution is a record, each function of the code an operator |
| `DistributedObject` | `jdistributed-object.c` on top of `Distribution` | `handle[c]`, `client[c]`, `part[c][s]` (the background operation for server s), `net`, `file[s]` |
| `FlatObject` | abstract specification | one array of bytes |
| `DistributedObjectProofs` | proofs about `Distribution` and `DistributedObject` | |
| `Database` | `jdb-internal.c`, `jbackend-operation.c`, database messages of `server/loop.c`, `db-util`, `sqlite.c` | `db` the state the open transaction sees, `saved` what is on disk, `lock` the global `sql_backend_lock`, `cache[w]` the thread's schema cache, `worker[w]` a list being executed |
| `DatabaseProofs` | proofs | |
| `KeyValue` | `jkv.c`, `jkv-iterator.c`, key-value messages of `server/loop.c`, `backend/kv/{leveldb,lmdb,gdbm,rocksdb,sqlite,mongodb}.c` | `client[c]` an exec function or an iterator with its replies, a worker per connection (or the client itself, in process), `versions[s]` every state a server's database was in; the differences of the backends are a record of when writes reach the database, who is kept out and what is synced |
| `KeyValueProofs` | proofs | |
| `ObjectFiles` | `backend/object/{posix,gio,rados}.c` as the object handlers of `server/loop.c` call them | `names` the history of the directory, `cache`/`files`/`object` the POSIX tables and handles, `lock` the mutex, `thread[t]` one message; the transfer loops step by system call |
| `ObjectFilesProofs` | proofs | |
| `DatabaseClient` | `lib/db/jdb-{schema,entry,selector,iterator}.c` | operators over schemas, entries, selectors and tables |
| `Hdf5Tables` | the `*_init` functions and selectors of `lib/hdf5-db` | the tables and the conditions made of them |
| `Hdf5Db` | `lib/hdf5-db/*.c` on top of `Hdf5Tables` | `proc[c]` a process inside a call, one query or batch per step; `db`, `objects` what is stored; `torn` (history) files whose truncation is not over |
| `Items` | `lib/item/*.c` on top of `Distribution` | `client[c]` a call and its handles, `items`/`collections` the pairs, `objects[s]` the parts, `net` the messages on their way, also those of clients that died |

`MC*` modules only give constants their values.  Operators called *Faulty* are
plausible errors of the operator they precede; replacing one by the other must
make the property named in `PROJECT.json` fail.  No specification uses them.

Composition: `DistributedObject` and `Items` extend `Distribution`, and the first
implements `FlatObject`; `Hdf5Db` extends `Hdf5Tables`, which extends `DatabaseClient`; `ConnectionPool` implements `BoundedPool`; `ObjectProtocol` uses the
pool, `Batch` the background operation and `DistributedObject` the server through
the interface the other module establishes.

## 3. Abstractions

* A stream carries whole items (a message, or the payload of one write); partial
  sends are the socket library's business.
* A request is a list of operations of one type on one object, as a batch hands
  it over.  Offsets and lengths are numbers of blocks.
* `ObjectProtocol`: the server may die (a failed assertion, a crash) and stays
  dead; the library never reconnects, so a restart would change nothing for
  existing connections.  The branch for a backend in the client's own process
  is left out: it has no messages.
* `Batch`: threads use a batch as the API intends (guard `Exclusive`): its list has
  no lock, and adding while it executes is a data race the application must
  avoid.
* `BackgroundOperation`: `j_fini` is called when no thread is about to create
  operations; what a call during `j_fini` does is a hazard listed in `PROJECT.json`.
* `DistributedObject`: a server handles a message in one step, in any order.  A
  short write or a failed read loses the tail of at most one piece of a
  message.  The operations of one request do not overlap.  Every client has its
  own handle; sharing one between threads is planned.  A weighted distribution
  is not read back from BSON: the code writes outside the structure there.
* `Database`: one table whose rows carry one value; the fields of
  different schema versions have different names, so an operation for
  another version fails.  SQLite only: `single_threaded` is set, the global lock
  is held for the whole transaction.  BEGIN does not fail, and COMMIT fails only
  after an abort.  A multi-row UPDATE or DELETE is one step (other threads are locked
  out).  The server's branch for `J_SEMANTICS_ATOMICITY_BATCH` is unreachable because no
  client sends its semantics with a database message.  Joins, SQL text and the
  prepared-statement cache are left out.
* `KeyValue`: a value is known by the operation that wrote it and by whether it
  is empty, the only thing the protocol tells apart.  A server's databases
  never fail; a loss of power takes what the backend did not sync.  RocksDB is
  written like LevelDB, so the run leaves it out of `BackendNames`.  An iterator asks for a set of keys,
  those that begin with the prefix; for SQLite it is the larger set of those that fit the
  pattern its `LIKE` makes of the prefix (`Selected`).  A MongoDB cursor holds a set of documents
  fetched ahead, as many as one likes, and refetches at any step from the
  database as it is by then.  What MongoDB is asked to write without acknowledgement (persistency
  *none*) is written when the call returns; no property relies on that.
* `ObjectFiles`: a file's contents are its size; a transfer is the set of bytes
  moved.  Counters have `Width` bits so that adding -1 to an unsigned one is
  what it is in C.  At most `MaxInterrupts` system calls are interrupted; any system
  call may fail for another reason (`LoopBreaks`: the POSIX loops end there; `LibraryFails`: a
  call of GIO or RADOS reports an error, with some of the bytes moved).
* `Items`: every message is sent, served and answered in steps of its own; a server
  handles one in a step, in any order, and also after its sender has died.  A number
  stands for the identifier an item is created with; a write writes the whole
  item (`ItemSize` bytes).  A name is a sequence of letters because
  the paths of different collections can begin alike.
* `Hdf5Db`: programs of a few calls stand for applications; data is one number
  per dataset or attribute and transfers are of whole dataspaces.  A number has `Bits`
  bits and is signed or not; statistics take an unsigned one for the signed one
  with the same bits, as `calculate_statistics` does (`AsSigned`).  The database
  may or may not give out an `_id` again (`reuse`): SQLite does for the largest one,
  MySQL and PostgreSQL do not.

## 4. Runs

| Run | Instance | Checks |
|---|---|---|
| `pool` | 3 threads, limit 2, 2 operations each, 1 failing connect | `ExclusiveUse`, refinement `ImplementsBoundedPool` (which states the limit), liveness `ServedWhileConnected` |
| `object` | 2 threads, 2 connections, 6 kinds of requests with and without replies, chunk of 2, server may die | `RepliesFindTheirRequests`, `StreamAligned`, `ResultsAreTheServers`, `ConfirmedInOrder` |
| `object_live` | 2 threads share 1 connection, requests larger than the server's chunk | `EveryExecReturns` |
| `background` | 2 workers, a task that fans out, one handled inline, `j_fini` | `LifetimeIsExact`, `WaitMeansDone`, `EveryWaitReturns` (`j_fini` included) |
| `background_full` | as many fanning tasks as workers | expected violation of `EveryWaitReturns`, section 7 |
| `batch` | 2 threads, 1 batch, 4 operations of 2 kinds on 2 keys, all consistencies | `ExecutedAsAdded` (once, in order, in uniform calls, completely), `SessionEndsWithBatch`, `NoUseAfterFree` |
| `distributed` | 2 clients, 2 servers, 5 bytes, all three distributions, short writes on server 1 | refinement `ActsAsOneArray`, `ReadsAreRegular`, `CountsAreExact` |
| `database` | 2 threads, 2 schema versions, lists of up to 3 operations of every type, in process and on a server, 1 crash | `OneTransaction`, `ResultsAreTrue`, `SchemaDescribesTable`, `EveryExecReturns` |
| `kv` | 2 clients, 2 servers, 3 keys, 5 backends, empty values, 1 loss of power | `GetsAreRegular`, `ConfirmedStays`, `ListsAreAtomic`, `IterationIsRegular`, `EveryRequestReturns` |
| `files` | 3 server threads, 2 names, 3 addresses of handles, 3 backends, 1 interrupted call, calls that fail anywhere | `HandlesAreExact`, `WorksOnTheNamedFile`, `TransferIsExact`, `ListingIsRegular`, `EveryMessageEnds` |
| `items` | 2 clients, 2 object and 2 key-value servers, 2 collection names one of which begins with the other (or, for SQLite, fits the other as a pattern), a death, a refused creation, late messages | `EntryHasObject`, `ItemsAreFiles`, `CollectionRefsExact` |
| `hdf5db` | 2 processes with programs of up to 20 calls in 11 scenarios, 1 crash, with and without reuse of `_id` | `NamesAreUnique`, `LinksResolve`, `FileRefsExact`, `StatisticsCover`, `IterationIsExact`, action property `NewIsEmpty` |

Several properties of the last two runs carry conditions ("with one writing
process", "unless a create and a delete overlapped").  The conditions are part of
the result: without them the property fails, because the code takes no lock
across its statements or messages.

Bounds and why they are enough: three threads over a limit of two are needed to
overshoot `count`, sleep and be served by a push; a failed connect needs one
failure.  Two threads and two connections give every overtaking of two requests;
a chunk of two blocks makes reads of three blocks need two replies and lets a
chunk be filled exactly.  Two workers with three nested tasks reach the state in
which the creator and the pool thread both hold a task.  Five bytes on two
servers with blocks of one or two bytes reach the second round of every
distribution and pieces that start inside a block.  Lists of three inserts with
a failing one in the middle cover operations before, at and after an abort; one
crash is enough because recovery keeps nothing but `saved`.  In `kv` three keys on two
servers give a server two keys, so an iterator can meet an empty value before a
full one; a list of two puts can be seen half done.  In `files` a creator, a deleter
and a third thread on the same name reach a handle that is shared, closed by one
and used by another, and whose address is used again; transfers of two bytes
have a first, a middle and a last piece.  In `items` two bytes on two servers make
every read and write two messages, so each can overlap the other's; with two key-value
servers a listing has a first and a second half.  Integers of three bits have
signed and unsigned ones the other kind does not have.  The HDF5
programs were chosen so that each pair puts one conflict to the test: both
create the same names, one reads what the other truncates, deletes or has not
finished creating, a lone process dies, numbers are used again, one dataset has two handles.

Deadlock checking is off where threads have nothing left to do after their
bounded number of requests, or where the system may really stop (a pool in
which every connect failed, a dead server).

## 5. Fairness

Weak fairness per thread (client thread, server thread, worker), never strong,
never per outcome: a thread that can continue does.  GLib's queues, condition
variables and mutexes wake a waiter, and the operating system schedules every
thread.  `GAsyncQueue` and `GMutex` promise no order among waiters, and no fairness of
theirs is assumed: each thread makes a bounded number of calls (`MaxOps`,
`MaxRequests`), so being overtaken forever is not a behaviour of the models;
starvation under endless load is therefore outside what they show.  `KeyValue` and
`ObjectFiles` assume less still: that some thread that can run does.  `Items` and `Hdf5Db`
state no fairness and no liveness: their calls wait for nobody.  Failures,
crashes, new requests and `j_fini` are never forced to happen.

## 6. Proofs

`ConnectionPoolProofs` (any finite sets of threads and connections, any set of
queues, any `max_count > 0`).  The inductive invariant `IInv` consists of the types,
`Placed` (control position, pool phase and held connection agree), `Counting`
(`count` is the number of slots taken plus the over-increments not yet undone; slots
never exceed the limit; an over-increment exists only while the pool is full)
and the uniqueness and conservation of connections.  The limit alone is not
inductive: without the exact meaning of `count` a thread that passes the check
could exceed it.  From it follow `TypeCorrect`, `CountSafe`, `UseSafe`, and with step
simulation `Refinement`: the pool implements `BoundedPool`.  Cardinalities come from
`FiniteSetTheorems`.

`DistributedObjectProofs` (any number of servers and clients, any block size, weights,
index, requests and set of faulty servers).  First the layout: `PieceProgress` (a piece is never empty,
so the loop over a range ends, and stays in its block), `PieceIsContiguous`
(consecutive bytes of a piece are consecutive on its server), `PlacesDiffer` (two bytes of
an object never share a place of a server) and `BsonKeepsLayout` (a handle made from another's BSON
form finds the data where it is; not stated of weighted distributions, which the code does not
read back properly).  They rest on a few lemmas on `\div` and `%`.  The partial sums of
the weights are defined by recursion: that the recursive function exists (`Iterates`,
`BeforeDef`) and what holds of all its values (`BeforeSums`, `BeforeGrows`) is shown by a least
counterexample, since `NatLessThanWellFounded` and `WFMin` of the library need no operator
as a parameter; `OneServerPerBlock` then says that the intervals of the sums divide a round.

Then the object.  `IInv` consists of types; `Layout` (all handles put a byte in the same place,
and no two bytes in one); `Numbered` (what the histories know of the requests
begun); `Working` (a client that cuts its request has sent nothing, its distribution
holds exactly what is left of the operation, and its pieces lie where the layout
has their bytes); `Travelling` (nothing of a message on its way has been done, there is one for a
server and a request, and who expects a reply still waits for it); `Emptied` (a file
that does not exist holds no bytes); `Seeing` (what a reply or the buffer holds of a
byte was its value since the read began).  All handlers of a server share one lemma:
whatever they do is `Legal`, that is, changes bytes of the server which the request
has not changed yet, each to what the request says, and replies what fits.  From `IInv`
follow `RegularReads` and, step by step, `OneArray`: the files of all servers, read through the
layout, implement `FlatObject`.  `ExactCounts` needs another invariant on top, `Counting` (no byte is in two
pieces of a message; what a server has applied of a confirmed write is nothing before it is sent
and the count of its reply afterwards), and the hypothesis `OpsApart`: the operations
of one request do not overlap.  Without it two operations that write the same byte count it twice; `ChunksApart`
shows that the operations one call of `j_distributed_object_read` or `_write` is cut into
satisfy it.

`DatabaseProofs` (any threads, versions, requests, bounds).  `IInv`: types; `Holder`
(only the holder of the lock is inside a batch); `OpenInside` (no transaction is
open while a schema change runs its self-committing statements); `Uncommitted`
(what is not on disk belongs to the holder's open transaction);
`SchemaDescribesTable`; `DdlProgress` (what the statements so far have done).
Neither isolation nor the metadata property is inductive alone: the first needs
to know where transactions are open, the second how far a schema change came.
One lemma per action; `Alone` is the key fact: whoever is inside a batch is alone
there.  `Reports`, on top of it, relates answers and effects: what another thread has
done is on disk (`Committed`), nothing is done before it is answered (`NotYetFor`), the
results so far agree with the transaction or, on a server, with the disk
(`ReportedFor`), and so do those of a list that has returned (`StoredFor`).  Results:
`TypeCorrect`, `Isolation`, `SchemaSafe`, `ReportsAreTrue`.

`BackgroundOperationProofs` (any threads, workers and operations, any lists of calls
and parts).  `LifetimeIsExact` is not inductive because it only counts references.
`IInv` adds where the operations are: `Shape` (an actor's list is what it has waited for,
then what it waits for, then what it has yet to create), `Unique` (an operation is in
the queue once or with one worker), `NotYet`, `Ran` and `Completes` (what has been
executed, known from where the operation is; `completed` is set only after the
function and all its parts have run) and `Closed` (after `j_fini` began nothing
creates operations).  Results: `ExactLifetime`, `WaitedForIsDone`.

`BatchProofs` (any finite set of threads, any batches, functions and keys).  `Counted` says
`ref_count` is the number of threads and tasks that hold the batch, `Alone` that one actor
at most works on its list and that whoever frees it knows of no reference.  `Progress`
says the operations done are a prefix of those added, the list a suffix, and
the locals of `j_batch_execute_internal` (`pos`, `same`) are the window between them;
`Grouped` that every call got equal operations.  Order and lifetime need each other: a
batch is executed in full before it is freed only because nobody else takes from
its list meanwhile.  That a session batch is not executed earlier is claimed only if it was
never executed asynchronously (section 7).  Results: `ExecutesAsAdded`, `SessionsEnd`, `NeverUsedAfterFree`.

`ObjectFilesProofs` (any finite sets of threads and handles with a handle for every
thread, any names, requests and counter width).  `Control` ties the tables of the
threads, the shared cache, the objects and the lock together: `Cached` says that from
`backend_file_get` to `backend_file_add` the lock is held and the cache has no object for the name,
`Placed` that `ref` is the number of threads at work on the object.  On top of it stand three
independent invariants: `Fresh` (an object opened for a name not removed since is the
file that has it), `Transferring` (what a loop has moved is a range from the first
byte, how the counter relates to it after interruptions, and that a transfer is short only
at the end of the file or after a call that failed) and `ListsRegularly`
(what was there all the time is found or still to come).  Results:
`ControlInvariance`, `ExactHandles`, `NamedFile`, `ExactTransfers`, `RegularListings`.

`ObjectProtocolProofs` (any threads, connections, objects and
requests, any chunk size, the server dying or not).  That replies find their requests is not
inductive: one has to know that a connection nobody waits at carries nothing
that will be answered, from the client's stream through the server thread to
the reply (`Quiet`), and that one somebody waits at carries that request only, in
exactly one of these places (`Tracked`).  For the data of reads `Tracked` says more: what
the client has got, the replies on their way and the reply being made up, one
after the other, are the results so far (`Whole`, cut at the positions of a
function `e`).  `Framed` says that the payloads of a write follow its header, `Apart` that a
connection is in the pool, with one thread or not yet made, `Works` and `Answers` how far
a server thread is, `Recorded`, `Ordered` and `Returns` what the histories say of
requests that were begun, answered and returned.  The server's steps on an
operation share one lemma (`WorkingIInv`: whatever advances a server thread and extends its
results by what it has done keeps the invariant), the client's local steps another
(`ClientLocal`).  Results: `RepliesFound`, `ResultsFound`, `InOrder`, and `Alignment` under the
hypothesis `Fits`: no write is larger than `memory_chunk_size`.  `j_object_write` cuts
its writes to `max_operation_size`, so `Fits` says that the server's chunk is no
smaller than that.  The requests of the run `object` satisfy it, those of `object_live` do
not, and there `StreamAligned` is false: the server answers a write that does not fit with 0 and leaves its data on the
stream.  The invariant without alignment, and with it the other three theorems, needs no such hypothesis.

`KeyValueProofs` (any clients, servers and connections, any finite set of keys, any
requests, every one of the six backends, any bounds on requests and power losses).
None of the four properties is inductive: what a get hands out depends on what a
worker has collected so far, and that on which message is whose.  `IInv` follows one
request.  `Connected`: a client that waits holds connections nobody else has, and a
message that will be answered is the last of its connection (`Asking`, `Expecting`,
`Tied`; messages without a reply may still be in front of it).  `Working`: the batch
or iterator of a worker agrees with the part of the message it has handled (`Batching`,
`Listing`); only in a backend whose batches are exclusive may a delete that
finds nothing be left out, because there nothing changes until the batch is
executed.  `Received`: what a reply says (`Answered`) and what the client made of it was true
of a state since the request; of an iterator of GDBM or MongoDB, whose database changes under
it, every pair was true of some state, and a MongoDB cursor has, read or still ahead,
all keys that were there all the time.  Underneath, `Kept` says that each pair is on the
server it belongs to and that no state holds half a list, and `Durable` that what
was promised is among the states that are on the disk.  All that is
said of a database is said of the states since a request, and these only grow; a lemma for
workers (`GoesOn`) and one for clients (`Asks`) therefore keep everything a step does
not concern, and after a loss of power nobody waits.  Results: `Invariance`,
`GetsRegular`, `ListsAtomic`, `ConfirmedStay`, `IterationRegular`.

The assumptions are the `ASSUME`s of the specification modules, which TLC
evaluates in every run: finiteness of threads and connections where the proof
counts them, positive limits and sizes, `NULL` distinct from everything else,
well-formed requests; that every operation is created by one call
(`BackgroundAssumption`); that there are handles for all threads; that
no request is `NULL` and no value of `DistributedObject`'s variables is
(`DistributedObjectAssumption`); that the keys of `KeyValue` are finitely many numbers, as the
backends sort them, its requests messages that have no number yet, and `NULL` none of its values, messages
and replies (`KeyValueAssumption`); that a buffer is shorter than the counter's largest value (`FilesAssumption`, which also says that
`2 ^ Width` is a positive number, as the provers do not know exponentiation).

Only model-checked: all liveness properties (fairness is out of the prover's
reach) and everything about `Items` and `Hdf5Db`.
`TypeCorrect` and `CountSafe` (the limit, as `count` states it) are proved and have no run of
their own.

## 7. Where code and documentation disagree

* With a run that must end in a violation, `background_full`: when every worker runs an
  asynchronous batch that fans out, the parts wait in the same pool for ever.

Met while modelling, visible in the models, and without a run of their own:

* With persistency *none* a create gets no reply, so a write on another
  connection can be handled first, although the comment at `jobject.c:265` says
  safe semantics are forced.
* Exec functions ignore a failed receive: a create is reported as finished
  although the server died before performing it (`jsemantics.h:154`).  The connection to the dead
  server goes back into the pool (`jobject.c:573`).
* `j_batch_execute_async` on a session batch executes nothing (`jbatch.c:254` is
  reached from the task as well), although `jbatch.h:147` says consistency is ignored.  The
  model does what the code does; `SessionEndsWithBatch` claims nothing of this case but
  that the batch has been executed when it is freed, which code and comment agree on.
* A database batch with `J_SEMANTICS_ATOMICITY_BATCH` sent to a server is committed
  operation by operation: the semantics never reach the message
  (`jdb-internal.c:72`, `jsemantics.h:89`).
* `H5VL_julea_db_file_delete` opens the file with a comment that this truncates it;
  opening does not, so links, groups, datasets and objects stay, and with a database that
  uses an `_id` again they belong to the next file.
* A selector that was used and then gets another field keeps its old form:
  `final_valid` is not reset, although a comment in `jdb-internal.c` says this case is handled.

Behaviour the models contain and a user of the code should know:

* *POSIX backend*: while a thread has a deleted object open, others find the
  deleted file in the cache, and even a create succeeds on it
  (`WorksOnTheNamedFile` says when this cannot happen).  An interrupted call before the
  first byte makes the reported count the largest number there is; any other
  error leaves a short count, and a write that is short does not succeed
  (`TransferIsExact`).  GIO lists nothing below a directory; RADOS does not list.
* *Key-value*: an empty value is a missing one for a remote get and the end of a
  remote iteration; GDBM and MongoDB write a list one pair at a time; GDBM never
  syncs.  An iterator of GDBM or MongoDB mixes states of different times, and MongoDB's may find
  what was deleted meanwhile.  With SQLite an iterator also brings keys that do not begin
  with the prefix: `LIKE` ignores case and takes `_` and `%` for wildcards (`kv/sqlite.c:212`), so
  the items of other collections may be listed, too.
* *Items*: `j_item_create` ignores the replies to its messages, so a refused object is
  not noticed; a create overlapping a delete, or persistency *none*, can leave an
  entry without its object; so can a message of a client that has died, served after others
  created the item again; a crash leaves objects without an entry.  A listing asks the
  key-value servers one after the other, and so mixes states.  Creating
  an item again draws a new start index, so old handles look for the data
  elsewhere.  Deleting a collection leaves its items.  Empty names collide because
  `g_build_path` drops them.
* *HDF5*: two processes that set up the tables at once make one of them fail;
  two that create the same file, link or attribute make two of it, and the
  assertions that there is one then end whoever looks; a file whose creation was cut short has root
  group 0; opening a group of a file ignores the name; whether a link exists is never
  found out for a file; closing a dataset that was only read stores its
  statistics over newer ones, also if another handle of the same process wrote them;
  large unsigned numbers count as negative ones; a recursive iteration over a file goes through
  the root group again for every group; hyperslab selections do not work (the tests say
  so).
* *Distributions*: a weighted distribution read back from BSON is undefined
  behaviour; one whose weights were never set divides by zero.  Threads that
  share a `JDistributedObject` share its position, too.  The size of a sparse object is
  that of the stripes (`jdistributed-object.c:500`).
* *Others*: a batch's list has no lock (`jbatch.c:326`); a failed `batch_start` is not
  noticed by the server (`loop.c:795`); the schema a thread has cached is never dropped
  (`sql-generic-dql.c:194`); `j_cache_release` of a foreign buffer returns with its
  mutex locked (`jcache.c:142`); work offered during `j_fini` is refused by the pool
  (`jbackground-operation.c:144`).

## 8. Not modelled

The reasons are listed per component in `PROJECT.json`.  In short: database backends
other than SQLite depend on the isolation of an external server, and null
backends store nothing; URIs, BSON helpers and configuration are sequential
conversions; tracing and statistics are output; the libfabric code is not
called by the message layer; command line, FUSE and tools call the client library
in sequence.  The HDF5 plugin over key-value makes the calls `KeyValue` and
`DistributedObject` model, but its own sequences are not modelled.  Of the HDF5 plugin
over the database, partial selections and type conversion are left out; of the
database interface, joins.

## 9. Plan

Modelled: all parts whose behaviour depends on order, concurrency or failure, but
the HDF5 plugin over key-value and the clients' in-process branches of objects and distributed objects.
What is left is mostly proofs:

1. `EntryHasObject` of `Items`: the order of messages in a call.
2. The tables of `Hdf5Db`: `NamesAreUnique` needs what a process knows between two of its queries.
3. Threads that share a handle in `DistributedObject`; the in-process branches.
