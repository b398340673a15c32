------------------------------ MODULE KeyValue ------------------------------
(***************************************************************************)
(* Key-value pairs: the client of lib/kv/jkv.c, its iterator               *)
(* (lib/kv/jkv-iterator.c), the KV messages of server/loop.c and the       *)
(* backends below backend/kv.                                              *)
(*                                                                         *)
(* Every server owns the keys that are hashed to it.  A request goes over  *)
(* a connection of the pool to one server, whose thread for that           *)
(* connection answers its messages one after another.  MongoDB is the only *)
(* backend that runs in the client's process: there the thread that        *)
(* executes the request calls the backend itself.                          *)
(*                                                                         *)
(* Operations of a batch are combined only when they use the same JKV, so  *)
(* a request is about one key; an iterator asks for the keys with a prefix *)
(* (match), of which SQLite makes a pattern that more keys may fit (like): *)
(* case does not count, nor what an underscore or a percent sign stand     *)
(* for.  A value is identified by the operation that wrote it (and whether *)
(* it was the last of its list); the only thing known of its contents is   *)
(* whether it is empty, because a length of 0 has a meaning of its own on  *)
(* the wire.                                                               *)
(***************************************************************************)
EXTENDS Integers, Sequences, FiniteSets, SequencesExt

CONSTANTS Clients,      \* client threads
          Servers,      \* servers of the kv backend
          Connections,  \* Connections[s]: the pool's connections to server s
          Keys,         \* keys, as numbers in the order the backends sort them
          ServerOf,     \* ServerOf[k]: j_helper_hash(k) modulo the server count
          Requests,     \* Requests[c]: the requests c may make
          BackendNames, \* the backends to choose from
          MaxRequests,  \* bound: MaxRequests[c], requests of a client
          MaxCrashes,   \* bound: power losses
          NULL          \* no value, nobody

Persistencies == {"NONE", "NETWORK", "STORAGE"}
RequestTypes == {"PUT", "DELETE", "GET", "ITERATE"}

Values == [by : Clients \X Nat \X Nat, len : Nat, last : BOOLEAN]
Pairs == [key : Keys, value : Values]
Fetched == [key : Keys, value : [by : (Clients \X Nat \X Nat) \cup {NULL}, len : Nat, last : BOOLEAN]]
Messages == [type : RequestTypes, persistency : Persistencies, key : Keys,
             match : SUBSET Keys, like : SUBSET Keys, lens : Seq(Nat) \ {<<>>}, id : (Clients \X Nat) \cup {NULL},
             server : Servers \cup {NULL}, confirm : BOOLEAN]
Replies == [ret : BOOLEAN, values : Seq(Values \cup {NULL} \cup Fetched), pairs : SUBSET Pairs,
            server : Servers]

ASSUME KeyValueAssumption ==
    /\ Servers # {} /\ Keys \subseteq Nat /\ IsFiniteSet(Keys) /\ ServerOf \in [Keys -> Servers]
    /\ MaxRequests \in [Clients -> Nat] /\ MaxCrashes \in Nat
    /\ BackendNames \subseteq {"leveldb", "rocksdb", "lmdb", "sqlite", "gdbm", "mongodb"}
    /\ \A c \in Clients : Requests[c] \subseteq {r \in Messages : r.id = NULL /\ r.match \subseteq r.like}
    /\ NULL \notin (UNION {Connections[s] : s \in Servers}) \cup Clients \cup Servers
    /\ NULL \notin Values \cup Messages \cup Replies \cup (Clients \X Nat)

-----------------------------------------------------------------------------
(* The backends, by what tells them apart.  For writing:                   *)
(*   exclusive  a batch keeps every other batch out until it is executed   *)
(*   at         when a put or delete reaches the database                  *)
(*   missing    what backend_delete answers for a key that is not there    *)
(*   synced     the persistencies that force an executed batch to the disk *)
(* For reading:                                                            *)
(*   exclusive  an iterator keeps everybody else out until it is drained   *)
(*   sorted     the pairs come in the order of the keys                    *)
(*   stepwise   an iterator goes on in the database as it is by then       *)
(*   documents  what such an iterator has ahead are documents read before  *)

LeveldbWrites == [exclusive |-> FALSE, at |-> "execute", missing |-> TRUE, synced |-> {"STORAGE"}]
LeveldbReads == [exclusive |-> FALSE, sorted |-> TRUE, stepwise |-> FALSE, documents |-> FALSE]

RocksdbWrites == [exclusive |-> FALSE, at |-> "execute", missing |-> TRUE, synced |-> {"STORAGE"}]
RocksdbReads == [exclusive |-> FALSE, sorted |-> TRUE, stepwise |-> FALSE, documents |-> FALSE]

(* LMDB admits one write transaction at a time, and the iterators of the   *)
(* backend open a write transaction, too.                                  *)
LmdbWrites == [exclusive |-> TRUE, at |-> "execute", missing |-> FALSE, synced |-> Persistencies]
LmdbReads == [exclusive |-> TRUE, sorted |-> TRUE, stepwise |-> FALSE, documents |-> FALSE]

(* The mutex is locked by batch_start and get_all and unlocked by          *)
(* batch_execute and the last iterate.                                     *)
SqliteWrites == [exclusive |-> TRUE, at |-> "execute", missing |-> TRUE, synced |-> Persistencies]
SqliteReads == [exclusive |-> TRUE, sorted |-> FALSE, stepwise |-> FALSE, documents |-> FALSE]

(* GDBM has no batches; the mutex protects single calls.                   *)
GdbmWrites == [exclusive |-> FALSE, at |-> "once", missing |-> FALSE, synced |-> {}]
GdbmReads == [exclusive |-> FALSE, sorted |-> FALSE, stepwise |-> TRUE, documents |-> FALSE]

(* MongoDB executes a bulk operation in order but not atomically; the      *)
(* journal is waited for when storage persistency asks for it.  A cursor   *)
(* has no snapshot and gets its documents in batches; the mutex is free    *)
(* between its steps.                                                      *)
MongodbWrites == [exclusive |-> FALSE, at |-> "bulk", missing |-> TRUE, synced |-> {"STORAGE"}]
MongodbReads == [exclusive |-> FALSE, sorted |-> FALSE, stepwise |-> TRUE, documents |-> TRUE]

WritesOf == [leveldb |-> LeveldbWrites, rocksdb |-> RocksdbWrites, lmdb |-> LmdbWrites,
             sqlite |-> SqliteWrites, gdbm |-> GdbmWrites, mongodb |-> MongodbWrites]
ReadsOf == [leveldb |-> LeveldbReads, rocksdb |-> RocksdbReads, lmdb |-> LmdbReads,
            sqlite |-> SqliteReads, gdbm |-> GdbmReads, mongodb |-> MongodbReads]

-----------------------------------------------------------------------------
VARIABLES backend,   \* the configured backend
          versions,  \* versions[s]: the states server s's database went through
          synced,    \* synced[s]: how many of them a power loss leaves
          lock,      \* lock[s]: the worker that keeps the others out
          worker,    \* worker[w]: a server's thread of a connection, in process of the client's own
          client,    \* client[c]: the request of client c
          promised,  \* history: <<key, value>> confirmed with storage persistency
          crashes

vars == <<backend, versions, synced, lock, worker, client, promised, crashes>>

Writes == WritesOf[backend]
Reads == ReadsOf[backend]
InProcess == backend = "mongodb"

Pool == UNION {Connections[s] : s \in Servers}
Workers == Pool \cup Clients
FirstServer == CHOOSE s \in Servers : TRUE

(* j_kv_new: the server of a key.  In process there is one database.       *)
Home(k) == IF InProcess THEN FirstServer ELSE ServerOf[k]
Asked == IF InProcess THEN {FirstServer} ELSE Servers

Store(s) == Last(versions[s])

NoAnswer == [ret |-> TRUE, values |-> <<>>, pairs |-> {}]
IdleWorker == [queue |-> <<>>, pc |-> "idle", i |-> 1, writes |-> <<>>, answer |-> NoAnswer,
               cursor |-> {}, reply |-> NULL]
IdleClient == [pc |-> "idle", n |-> 0, req |-> NULL, conn |-> NULL, todo |-> {},
               since |-> [s \in Servers |-> 1], answer |-> NoAnswer, got |-> [s \in Servers |-> {}],
               confirmed |-> FALSE]

Init ==
    /\ backend \in BackendNames
    /\ versions = [s \in Servers |-> << [k \in Keys |-> NULL] >>]
    /\ synced = [s \in Servers |-> 1]
    /\ lock = [s \in Servers |-> NULL]
    /\ worker = [w \in Workers |-> IdleWorker]
    /\ client = [c \in Clients |-> IdleClient]
    /\ promised = {}
    /\ crashes = 0

-----------------------------------------------------------------------------
(* The client.                                                             *)

(* The connections a client may be handed for server s: in process its own *)
(* thread, otherwise one that no other client has popped.                  *)
Channels(c, s) ==
    IF InProcess THEN {c}
    ELSE {w \in Connections[s] : \A d \in Clients : client[d].conn # w}

(* Reads always have a reply, writes when the persistency asks for one;    *)
(* without it, the write concern of MongoDB is unacknowledged.             *)
Waits(r) == r.type \in {"GET", "ITERATE"} \/ r.persistency \in {"NETWORK", "STORAGE"}

Send(c, w, s, r, n) ==
    worker' = [worker EXCEPT ![w].queue =
        Append(@, [r EXCEPT !.id = <<c, n>>, !.server = s, !.confirm = Waits(r)])]

Started(c, r) ==
    [IdleClient EXCEPT !.n = client[c].n + 1, !.req = [r EXCEPT !.id = <<c, client[c].n + 1>>],
                       !.since = [s \in Servers |-> Len(versions[s])]]

(* j_kv_put_exec, j_kv_delete_exec, j_kv_get_exec: the request is sent to  *)
(* the server of its key.  Without a reply the connection goes back to the *)
(* pool at once.                                                           *)
ListExec(c, r, w) ==
    LET s == Home(r.key) IN
    /\ client[c].pc = "idle" /\ client[c].n < MaxRequests[c]
    /\ r.type # "ITERATE" /\ w \in Channels(c, s)
    /\ Send(c, w, s, r, client[c].n + 1)
    /\ client' = [client EXCEPT ![c] =
          IF Waits(r) THEN [Started(c, r) EXCEPT !.pc = "wait", !.conn = w, !.todo = {s}]
                      ELSE Started(c, r)]
    /\ UNCHANGED <<backend, versions, synced, lock, promised, crashes>>

(* j_kv_iterator_new: all servers are asked, one after the other.          *)
IteratorNew(c, r) ==
    /\ client[c].pc = "idle" /\ client[c].n < MaxRequests[c]
    /\ r.type = "ITERATE"
    /\ client' = [client EXCEPT ![c] = [Started(c, r) EXCEPT !.pc = "fetch", !.todo = Asked]]
    /\ UNCHANGED <<backend, versions, synced, lock, worker, promised, crashes>>

FetchReply(c, s, w) ==
    /\ client[c].pc = "fetch" /\ s \in client[c].todo /\ w \in Channels(c, s)
    /\ Send(c, w, s, client[c].req, client[c].n)
    /\ client' = [client EXCEPT ![c].pc = "wait", ![c].conn = w]
    /\ UNCHANGED <<backend, versions, synced, lock, promised, crashes>>

(* Faulty: a length of 0 is taken for a value.                             *)
UnpackRaw(a) == a

(* What j_kv_get_exec makes of a reply: on the wire an empty value is a    *)
(* missing one.                                                            *)
Unpack(a) ==
    IF InProcess THEN a
    ELSE [a EXCEPT !.ret = \A i \in DOMAIN a.values : a.values[i] # NULL /\ a.values[i].len > 0,
                   !.values = [i \in DOMAIN a.values |->
                       IF a.values[i] # NULL /\ a.values[i].len = 0 THEN NULL ELSE a.values[i]]]

(* The reply is taken off the connection, which goes back to the pool.     *)
(* The results of puts and deletes in it are ignored.                      *)
Receive(c) ==
    LET w == client[c].conn
        a == worker[w].reply
        r == client[c].req
        s == a.server
        left == client[c].todo \ {s} IN
    /\ client[c].pc = "wait" /\ a # NULL
    /\ worker' = [worker EXCEPT ![w].reply = NULL]
    /\ client' = [client EXCEPT
          ![c].conn = NULL, ![c].todo = left, ![c].confirmed = TRUE,
          ![c].pc = IF left = {} THEN "idle" ELSE "fetch",
          ![c].got[s] = a.pairs,
          ![c].answer = IF r.type = "GET" THEN Unpack(a)
                        ELSE IF InProcess THEN a ELSE NoAnswer]
    /\ promised' = IF r.type = "PUT" /\ r.persistency = "STORAGE"
                   THEN promised \cup {<<r.key, <<c, client[c].n, Len(r.lens)>>>>}
                   ELSE promised
    /\ UNCHANGED <<backend, versions, synced, lock, crashes>>

-----------------------------------------------------------------------------
(* The server's thread of a connection, or the client's own thread.        *)

Busy(w) == worker[w].queue # <<>>
Current(w) == Head(worker[w].queue)
OpCount(w) == Len(Current(w).lens)

Enter(w, exclusive) ==
    LET s == Current(w).server IN
    IF exclusive THEN lock[s] = NULL /\ lock' = [lock EXCEPT ![s] = w]
    ELSE UNCHANGED lock

Leave(w) ==
    LET s == Current(w).server IN
    lock' = IF lock[s] = w THEN [lock EXCEPT ![s] = NULL] ELSE lock

BatchStart(w) ==
    /\ Busy(w) /\ worker[w].pc = "idle" /\ Current(w).type # "ITERATE"
    /\ Enter(w, Writes.exclusive)
    /\ worker' = [worker EXCEPT ![w].pc = "op", ![w].i = 1, ![w].writes = <<>>, ![w].answer = NoAnswer]
    /\ UNCHANGED <<backend, versions, synced, client, promised, crashes>>

(* A put or delete, value v, on the database or into the batch.            *)
Write(w, v) ==
    LET s == Current(w).server
        write == [key |-> Current(w).key, value |-> v] IN
    IF Writes.at = "once"
    THEN /\ versions' = [versions EXCEPT ![s] = Append(@, [Store(s) EXCEPT ![write.key] = v])]
         /\ worker' = [worker EXCEPT ![w].i = @ + 1]
    ELSE /\ worker' = [worker EXCEPT ![w].i = @ + 1, ![w].writes = Append(@, write)]
         /\ UNCHANGED versions

OperationPut(w) ==
    /\ worker[w].pc = "op" /\ worker[w].i <= OpCount(w) /\ Current(w).type = "PUT"
    /\ Write(w, [by |-> Append(Current(w).id, worker[w].i), len |-> Current(w).lens[worker[w].i],
                 last |-> worker[w].i = OpCount(w)])
    /\ UNCHANGED <<backend, synced, lock, client, promised, crashes>>

(* The key as the batch sees it.                                           *)
InBatch(w) ==
    IF worker[w].writes = <<>> THEN Store(Current(w).server)[Current(w).key]
    ELSE Last(worker[w].writes).value

(* The answer of backend_delete is FALSE when the backend looks for the    *)
(* key and does not find it; the reply that carries it is ignored.         *)
OperationDelete(w) ==
    /\ worker[w].pc = "op" /\ worker[w].i <= OpCount(w) /\ Current(w).type = "DELETE"
    /\ IF Writes.missing \/ InBatch(w) # NULL THEN Write(w, NULL)
       ELSE worker' = [worker EXCEPT ![w].i = @ + 1, ![w].answer.ret = FALSE] /\ UNCHANGED versions
    /\ UNCHANGED <<backend, synced, lock, client, promised, crashes>>

OperationGet(w) ==
    LET v == Store(Current(w).server)[Current(w).key] IN
    /\ worker[w].pc = "op" /\ worker[w].i <= OpCount(w) /\ Current(w).type = "GET"
    /\ worker' = [worker EXCEPT ![w].i = @ + 1,
          ![w].answer = [ret |-> @.ret /\ v # NULL, values |-> Append(@.values, v), pairs |-> {}]]
    /\ UNCHANGED <<backend, versions, synced, lock, client, promised, crashes>>

Applied(state, write) == [state EXCEPT ![write.key] = write.value]
Executed(state, writes) == FoldLeft(Applied, state, writes)

(* Faulty: the writes reach the database one by one.                       *)
CommittedSingly(s, writes) ==
    [i \in DOMAIN writes |-> Executed(Store(s), SubSeq(writes, 1, i))]

(* The states a batch leads through.                                       *)
Committed(s, writes) ==
    IF writes = <<>> THEN <<>>
    ELSE IF Writes.at = "bulk"
    THEN [i \in DOMAIN writes |-> Executed(Store(s), SubSeq(writes, 1, i))]
    ELSE << Executed(Store(s), writes) >>

(* Faulty: persistency is not looked at.                                   *)
NeverSynced(s, r) == synced[s]

SyncedAfter(s, r) == IF r.persistency \in Writes.synced THEN Len(versions'[s]) ELSE synced[s]

Replied(w, a) ==
    worker' = [worker EXCEPT ![w] = [IdleWorker EXCEPT
        !.queue = Tail(worker[w].queue),
        !.reply = IF Current(w).confirm
                  THEN [ret |-> a.ret, values |-> a.values, pairs |-> a.pairs, server |-> Current(w).server]
                  ELSE NULL]]

(* The batch is executed and the reply, if there is one, is sent.  The     *)
(* server ignores the result of j_backend_kv_batch_execute.                *)
BatchExecute(w) ==
    LET s == Current(w).server IN
    /\ worker[w].pc = "op" /\ worker[w].i > OpCount(w)
    /\ versions' = [versions EXCEPT ![s] = @ \o Committed(s, worker[w].writes)]
    /\ synced' = [synced EXCEPT ![s] = SyncedAfter(s, Current(w))]
    /\ Leave(w)
    /\ Replied(w, worker[w].answer)
    /\ UNCHANGED <<backend, client, promised, crashes>>

-----------------------------------------------------------------------------
(* Iterators.                                                              *)

Stored(s) == {k \in Keys : Store(s)[k] # NULL}

(* Faulty: the prefix is not looked at.                                    *)
MatchingAll(w) == Stored(Current(w).server)

(* The keys a backend takes for those with the prefix.                     *)
Selected(r) == IF backend = "sqlite" THEN r.like ELSE r.match

Matching(w) == {k \in Stored(Current(w).server) : k \in Selected(Current(w))}
Pair(s, k) == [key |-> k, value |-> Store(s)[k]]

(* backend_get_all and backend_get_by_prefix: the pairs to come, or, for a *)
(* stepwise iterator, the keys.                                            *)
IteratorStart(w) ==
    LET s == Current(w).server IN
    /\ Busy(w) /\ worker[w].pc = "idle" /\ Current(w).type = "ITERATE"
    /\ Enter(w, Reads.exclusive)
    /\ worker' = [worker EXCEPT ![w].pc = "iterate", ![w].answer = NoAnswer, ![w].i = Len(versions[s]),
          ![w].cursor = {Pair(s, k) : k \in Matching(w)}]
    /\ UNCHANGED <<backend, versions, synced, client, promised, crashes>>

HasKey(pairs, k) == \E p \in pairs : p.key = k
Distinct(pairs) == \A p, q \in pairs : p.key = q.key => p = q

(* A stepwise iterator meets a database that was changed.  GDBM finds the  *)
(* next key by hashing the last one, so that any key may be hidden, come   *)
(* again, or end the iterator.  A cursor of MongoDB keeps its place among  *)
(* the documents: those that were replaced stay ahead of it, or behind;    *)
(* one that was put may come, and one that was deleted may be in the batch *)
(* it has already got.                                                     *)
IterateLook(w) ==
    LET s == Current(w).server
        cursor == worker[w].cursor IN
    /\ worker[w].pc = "iterate" /\ Reads.stepwise /\ worker[w].i < Len(versions[s])
    /\ \E ahead \in SUBSET (cursor \cup {Pair(s, k) : k \in Matching(w)}) :
          /\ Distinct(ahead)
          /\ Reads.documents => \A k \in Stored(s) :
                versions[s][worker[w].i][k] # NULL => (HasKey(ahead, k) <=> HasKey(cursor, k))
          /\ worker' = [worker EXCEPT ![w].cursor = ahead, ![w].i = Len(versions[s])]
    /\ UNCHANGED <<backend, versions, synced, lock, client, promised, crashes>>

(* gdbm_fetch, where a key may be gone by now and its value empty, or      *)
(* mongoc_cursor_next.                                                     *)
Fetch(s, p) ==
    IF Reads.documents THEN p
    ELSE [key |-> p.key,
          value |-> IF Store(s)[p.key] = NULL THEN [by |-> NULL, len |-> 0, last |-> TRUE]
                    ELSE Store(s)[p.key]]

IterateStep(w) ==
    /\ worker[w].pc = "iterate" /\ Reads.stepwise
    /\ \E p \in worker[w].cursor :
          worker' = [worker EXCEPT ![w].cursor = @ \ {p},
              ![w].answer.values = Append(@, Fetch(Current(w).server, p))]
    /\ UNCHANGED <<backend, versions, synced, lock, client, promised, crashes>>

Orders(pairs) == {q \in [1 .. Cardinality(pairs) -> pairs] : \A i, j \in DOMAIN q : q[i] = q[j] => i = j}
Ascending(q) == \A i, j \in DOMAIN q : i < j => q[i].key < q[j].key

(* The pairs in the order the backend yields them.                         *)
Yielded(w) ==
    IF Reads.stepwise THEN {worker[w].answer.values}
    ELSE {q \in Orders(worker[w].cursor) : Reads.sorted => Ascending(q)}

(* j_kv_iterator_next: an empty value ends the reply of a server.  In      *)
(* process nothing is cut.                                                 *)
Seen(q) ==
    {q[i] : i \in {j \in DOMAIN q : InProcess \/ \A h \in 1 .. j : q[h].value.len > 0}}

(* Faulty: the lock is kept after the last pair.                           *)
IterateEndLocked(w) ==
    /\ worker[w].pc = "iterate" /\ (Reads.stepwise => worker[w].cursor = {})
    /\ \E q \in Yielded(w) : Replied(w, [NoAnswer EXCEPT !.pairs = Seen(q)])
    /\ UNCHANGED <<backend, versions, synced, lock, client, promised, crashes>>

(* backend_iterate until it answers FALSE, which closes the iterator.      *)
IterateEnd(w) ==
    /\ worker[w].pc = "iterate" /\ (Reads.stepwise => worker[w].cursor = {})
    /\ \E q \in Yielded(w) : Replied(w, [NoAnswer EXCEPT !.pairs = Seen(q)])
    /\ Leave(w)
    /\ UNCHANGED <<backend, versions, synced, client, promised, crashes>>

-----------------------------------------------------------------------------
(* Power is lost and everybody starts again: the database keeps what is on *)
(* the disk and possibly some of the writes after that.  GDBM promises     *)
(* nothing about its file then.                                            *)
PowerLoss ==
    /\ crashes < MaxCrashes /\ backend # "gdbm"
    /\ crashes' = crashes + 1
    /\ \E keep \in [Servers -> UNION {synced[s] .. Len(versions[s]) : s \in Servers}] :
          /\ \A s \in Servers : keep[s] \in synced[s] .. Len(versions[s])
          /\ versions' = [s \in Servers |-> SubSeq(versions[s], 1, keep[s])]
          /\ synced' = keep
    /\ lock' = [s \in Servers |-> NULL]
    /\ worker' = [w \in Workers |-> IdleWorker]
    /\ client' = [c \in Clients |-> [IdleClient EXCEPT !.n = client[c].n]]
    /\ UNCHANGED <<backend, promised>>

Step(w) ==
    \/ BatchStart(w)
    \/ OperationPut(w) \/ OperationDelete(w) \/ OperationGet(w)
    \/ BatchExecute(w)
    \/ IteratorStart(w) \/ IterateLook(w) \/ IterateStep(w) \/ IterateEnd(w)

Next ==
    \/ \E c \in Clients : \E r \in Requests[c] :
          IteratorNew(c, r) \/ \E w \in Workers : ListExec(c, r, w)
    \/ \E c \in Clients, s \in Servers, w \in Workers : FetchReply(c, s, w)
    \/ \E c \in Clients : Receive(c)
    \/ \E w \in Workers : Step(w)
    \/ PowerLoss

(* The threads do not stop while one of them can run.                      *)
Fairness ==
    /\ WF_vars(\E w \in Workers : Step(w))
    /\ WF_vars(\E c \in Clients : Receive(c) \/ \E s \in Servers, w \in Workers : FetchReply(c, s, w))

Spec == Init /\ [][Next]_vars /\ Fairness

-----------------------------------------------------------------------------
(* Properties.                                                             *)

Finished(c) == client[c].pc = "idle" /\ client[c].req # NULL /\ client[c].confirmed

(* States server s's database had since client c made its request.         *)
Since(c, s) == {versions[s][i] : i \in client[c].since[s] .. Len(versions[s])}

Nonempty(v) == IF ~InProcess /\ v # NULL /\ v.len = 0 THEN NULL ELSE v

(* The values j_kv_get_exec hands out are values the key had between the   *)
(* call and its return, an empty one standing for a missing one; the list  *)
(* succeeds exactly when all were found.                                   *)
GetsAreRegular ==
    \A c \in Clients : Finished(c) /\ client[c].req.type = "GET" =>
        LET a == client[c].answer
            k == client[c].req.key IN
        /\ Len(a.values) = Len(client[c].req.lens)
        /\ \A i \in DOMAIN a.values : \E d \in Since(c, Home(k)) : a.values[i] = Nonempty(d[k])
        /\ a.ret <=> \A i \in DOMAIN a.values : a.values[i] # NULL

(* What a batch wrote shows up as a whole or not at all, also after a loss *)
(* of power; GDBM and MongoDB do not promise that.                         *)
ListsAreAtomic ==
    backend \notin {"gdbm", "mongodb"} =>
        \A s \in Servers : \A i \in DOMAIN versions[s] : \A k \in Keys :
            versions[s][i][k] # NULL => versions[s][i][k].last

(* When j_kv_put_exec or j_kv_delete_exec has received its reply, or has   *)
(* itself executed the batch with a persistency that MongoDB acknowledges, *)
(* the whole list is in the database; and a put confirmed with             *)
(* J_SEMANTICS_PERSISTENCY_STORAGE survives a loss of power, unless the    *)
(* backend is GDBM, which never syncs.                                     *)
ConfirmedStays ==
    /\ \A c \in Clients : (/\ Finished(c) /\ client[c].req.type \in {"PUT", "DELETE"}
                           /\ client[c].req.persistency # "NONE") =>
          LET r == client[c].req IN
          \E d \in Since(c, Home(r.key)) :
              IF r.type = "DELETE" THEN d[r.key] = NULL
              ELSE d[r.key] # NULL /\ d[r.key].by = Append(r.id, Len(r.lens))
    /\ backend # "gdbm" =>
          \A p \in promised : \E s \in Servers : \E i \in DOMAIN versions[s] :
              versions[s][i][p[1]] # NULL /\ versions[s][i][p[1]].by = p[2]

(* The keys before the first empty value when the backend sorts them.      *)
Readable(d, m, s) ==
    {k \in m : d[k] # NULL /\ Home(k) = s /\
        (InProcess \/ \A h \in m : h <= k /\ Home(h) = s /\ d[h] # NULL => d[h].len > 0)}

(* An iterator sees of every server a state the server was in while it was *)
(* asked, up to the first empty value.  GDBM and MongoDB iterate over a    *)
(* database that is being changed: with them every pair it sees was there  *)
(* at some time, and with MongoDB a key that was there all the time is     *)
(* found.  With SQLite all this is true of the keys that fit the pattern.  *)
IterationIsRegular ==
    \A c \in Clients : Finished(c) /\ client[c].req.type = "ITERATE" =>
        \A s \in Asked :
            LET got == client[c].got[s]
                m == Selected(client[c].req) IN
            /\ \A p \in got : p.key \in m /\ \E d \in Since(c, s) : d[p.key] = p.value
            /\ Reads.sorted => \E d \in Since(c, s) :
                  got = {[key |-> k, value |-> d[k]] : k \in Readable(d, m, s)}
            /\ ~Reads.stepwise => Distinct(got) /\ \E d \in Since(c, s) :
                  \/ got = {[key |-> k, value |-> d[k]] : k \in {h \in m : d[h] # NULL}}
                  \/ \E h \in m : d[h] # NULL /\ d[h].len = 0
            /\ Reads.documents => \A k \in m :
                  (\A d \in Since(c, s) : d[k] # NULL) => HasKey(got, k)

(* Every request returns: no batch, no iterator and no reply keeps another *)
(* client waiting for ever.                                                *)
EveryRequestReturns ==
    \A c \in Clients : client[c].pc # "idle" ~> client[c].pc = "idle"
=============================================================================
