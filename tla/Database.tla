------------------------------ MODULE Database ------------------------------
(***************************************************************************)
(* The database interface: j_backend_db_func_exec of                       *)
(* lib/db/jdb-internal.c, the server's loop over the operations of a       *)
(* message (server/loop.c) and the SQL backend of lib/db-util with SQLite, *)
(* which is single threaded: sql_backend_lock is held from the start of a  *)
(* transaction to its end.  One table of one namespace.                    *)
(*                                                                         *)
(* A worker is a thread that executes lists of operations of one type: a   *)
(* client thread when the backend runs in the client's process, or the     *)
(* server's thread of a connection together with the client that waits for *)
(* its reply.  The client never gives the message its semantics, so the    *)
(* server always sees J_SEMANTICS_ATOMICITY_NONE and makes a transaction   *)
(* of every operation; its branches for J_SEMANTICS_ATOMICITY_BATCH cannot *)
(* be reached and are left out.                                            *)
(*                                                                         *)
(* A table has a version: the fields of different versions have different  *)
(* names, so an operation made for one version fails on another.           *)
(***************************************************************************)
EXTENDS Integers, Sequences, FiniteSets

CONSTANTS Workers,      \* threads that use the database
          Requests,     \* Requests[w]: the lists of operations w may execute
          Versions,     \* versions of the table's schema
          Values,       \* values of a row
          Deployments,  \* whether the backend may be in process or on a server
          MaxRequests,  \* bound: MaxRequests[w], lists w executes
          MaxCrashes,   \* bound: crashes of the process
          NULL          \* no table, no schema, no request, nobody

Types == {"SCHEMA_CREATE", "SCHEMA_GET", "SCHEMA_DELETE", "INSERT", "UPDATE", "DELETE", "QUERY"}
Ops == [version : Versions, v : Values, to : Values]

ASSUME DatabaseAssumption ==
    /\ Deployments \subseteq {"local", "server"}
    /\ NULL \notin Workers \cup Versions
    /\ MaxCrashes \in Nat /\ MaxRequests \in [Workers -> Nat]
    /\ \A w \in Workers : \A r \in Requests[w] :
          r.type \in Types /\ r.ops \in Seq(Ops) /\ r.ops # <<>>

Ids == Workers \X Nat \X Nat
Rows == [id : Ids, v : Values, by : Ids]
Schemas == (Versions \X BOOLEAN) \cup {NULL}
Databases == [table : Versions \cup {NULL}, meta : Schemas, rows : SUBSET Rows, done : SUBSET Ids]
DdlPcs == {"table", "list", "fields", "unlist", "drop"}

VARIABLES deployment,  \* where the backend runs
          db,          \* the database as the open transaction sees it
          saved,       \* the database on disk
          lock,        \* who holds sql_backend_lock
          cache,       \* cache[w]: the thread's schema_cache
          worker,      \* worker[w]: the list w executes
          crashes

vars == <<deployment, db, saved, lock, cache, worker, crashes>>

(* done is a history: the operations whose effect is in the database.      *)
(* meta is NULL or <<version, complete>>, the rows of schema_structure.    *)
Empty == [table |-> NULL, meta |-> NULL, rows |-> {}, done |-> {}]
Ready(version) == [Empty EXCEPT !.table = version, !.meta = <<version, TRUE>>]

Idle == [pc |-> "idle", n |-> 0, req |-> NULL, i |-> 0, open |-> FALSE,
         results |-> <<>>, rows |-> {}, ret |-> TRUE]

Init ==
    /\ deployment \in Deployments
    /\ saved \in {Empty} \cup {Ready(v) : v \in Versions}
    /\ db = saved
    /\ lock = NULL
    /\ cache = [w \in Workers |-> NULL]
    /\ worker = [w \in Workers |-> Idle]
    /\ crashes = 0

Op(w) == worker[w].req.ops[worker[w].i]
OpId(w) == <<w, worker[w].n, worker[w].i>>

-----------------------------------------------------------------------------
(* Transactions.                                                           *)

(* The list reaches the backend.                                           *)
FuncExec(w, r) ==
    /\ worker[w].pc = "idle" /\ worker[w].n < MaxRequests[w]
    /\ worker' = [worker EXCEPT ![w] =
          [Idle EXCEPT !.pc = "start", !.n = worker[w].n + 1, !.req = r, !.i = 1]]
    /\ UNCHANGED <<deployment, db, saved, lock, cache, crashes>>

(* Faulty: the lock is not taken.                                          *)
BatchStartUnlocked(w) ==
    /\ worker[w].pc = "start"
    /\ worker' = [worker EXCEPT ![w].pc = "op", ![w].open = TRUE]
    /\ UNCHANGED <<deployment, db, saved, lock, cache, crashes>>

(* sql_generic_batch_start: lock and BEGIN.                                *)
BatchStart(w) ==
    /\ worker[w].pc = "start" /\ lock = NULL
    /\ lock' = w
    /\ worker' = [worker EXCEPT ![w].pc = "op", ![w].open = TRUE]
    /\ UNCHANGED <<deployment, db, saved, cache, crashes>>

More(w) == worker[w].i < Len(worker[w].req.ops)

NextOperation(w) == IF deployment = "local" /\ More(w) THEN worker[w].i + 1 ELSE worker[w].i

(* An operation is over.  In process the next one goes into the same       *)
(* batch, on a server every operation has its own.                         *)
Answered(w, ok, open, rows) ==
    worker' = [worker EXCEPT
        ![w].pc = IF deployment = "local" /\ More(w) THEN "op" ELSE "end",
        ![w].i = NextOperation(w),
        ![w].open = open,
        ![w].results = Append(@, ok),
        ![w].rows = @ \cup rows]

(* An operation that succeeds leaves the database as d.  Without a         *)
(* transaction, after an abort, SQLite commits by itself.                  *)
Succeed(w, d, rows) ==
    /\ db' = [d EXCEPT !.done = @ \cup {OpId(w)}]
    /\ saved' = IF worker[w].open THEN saved ELSE db'
    /\ Answered(w, TRUE, worker[w].open, rows)

Fail(w) == Answered(w, FALSE, worker[w].open, {}) /\ UNCHANGED <<db, saved>>

(* _backend_batch_abort: ROLLBACK, refused when no transaction is open.    *)
Abort(w) ==
    /\ db' = saved
    /\ Answered(w, FALSE, FALSE, {})
    /\ UNCHANGED saved

(* Faulty: nothing is unlocked when COMMIT fails.                          *)
UnlockAfterCommit(w) == IF worker[w].open THEN NULL ELSE lock

Unlock(w) == NULL

Commit(w) == IF worker[w].open THEN db ELSE saved

(* Faulty: the result of the last operation.                               *)
LastTrue(results) == results[Len(results)]

AllTrue(results) == \A k \in DOMAIN results : results[k]

(* sql_generic_batch_execute: COMMIT, which fails when the batch was       *)
(* aborted, and unlock.  The server ignores the result and goes on to the  *)
(* next operation or sends the reply; in process the list is finished.     *)
BatchExecute(w) ==
    /\ worker[w].pc = "end"
    /\ saved' = Commit(w)
    /\ lock' = Unlock(w)
    /\ worker' = [worker EXCEPT ![w] =
          IF deployment = "server" /\ More(w)
          THEN [worker[w] EXCEPT !.pc = "start", !.i = worker[w].i + 1, !.open = FALSE]
          ELSE [worker[w] EXCEPT !.pc = "idle", !.open = FALSE,
                                 !.ret = AllTrue(worker[w].results)
                                           /\ (deployment = "local" => worker[w].open)]]
    /\ UNCHANGED <<deployment, db, cache, crashes>>

-----------------------------------------------------------------------------
(* Data.                                                                   *)

Runs(w, type) == worker[w].pc = "op" /\ worker[w].req.type = type

(* get_schema: the schema this thread has seen first, or the stored one.   *)
Schema(w) == IF cache[w] # NULL THEN cache[w] ELSE db.meta

Remember(w) == cache' = [cache EXCEPT ![w] = Schema(w)]

(* The thread's schema knows the fields of the operation and the table     *)
(* has them.                                                               *)
Fits(w) == Schema(w) = <<Op(w).version, TRUE>> /\ db.table = Op(w).version

(* _bind_selector_query: the value the condition compares with.            *)
Bound(w) == Op(w).v

(* build_query_condition_part: the condition of the selector.              *)
Selects(w, row) == row.v = Bound(w)

(* _backend_query_ids: the rows the selector asks for.                     *)
Matches(w) == {row \in db.rows : Selects(w, row)}

(* The rows after the INSERT and the UPDATE statements.                    *)
Inserted(w) == db.rows \cup {[id |-> OpId(w), v |-> Op(w).v, by |-> OpId(w)]}

Updated(w) ==
    (db.rows \ Matches(w))
        \cup {[row EXCEPT !.v = Op(w).to, !.by = OpId(w)] : row \in Matches(w)}

Insert(w) ==
    /\ Runs(w, "INSERT") /\ Remember(w)
    /\ IF Fits(w) THEN Succeed(w, [db EXCEPT !.rows = Inserted(w)], {}) ELSE Abort(w)
    /\ UNCHANGED <<deployment, lock, crashes>>

(* It is an error to match nothing.                                        *)
Update(w) ==
    /\ Runs(w, "UPDATE") /\ Remember(w)
    /\ IF Fits(w) /\ Matches(w) # {}
       THEN Succeed(w, [db EXCEPT !.rows = Updated(w)], {})
       ELSE Abort(w)
    /\ UNCHANGED <<deployment, lock, crashes>>

Delete(w) ==
    /\ Runs(w, "DELETE") /\ Remember(w)
    /\ IF Fits(w) /\ Matches(w) # {}
       THEN Succeed(w, [db EXCEPT !.rows = @ \ Matches(w)], {})
       ELSE Abort(w)
    /\ UNCHANGED <<deployment, lock, crashes>>

(* sql_generic_iterate, called until it has no more elements.              *)
Fetched(w) == {row \in db.rows : Selects(w, row)}

(* A query and the iteration over its result; failing is no reason to      *)
(* abort, and finding nothing is no failure.                               *)
Query(w) ==
    /\ Runs(w, "QUERY") /\ Remember(w)
    /\ IF Fits(w) THEN Succeed(w, db, Fetched(w)) ELSE Fail(w)
    /\ UNCHANGED <<deployment, lock, crashes>>

(* sql_generic_schema_get asks the database, never the cache.              *)
SchemaGet(w) ==
    /\ Runs(w, "SCHEMA_GET")
    /\ IF db.meta # NULL THEN Succeed(w, db, {}) ELSE Abort(w)
    /\ UNCHANGED <<deployment, lock, cache, crashes>>

-----------------------------------------------------------------------------
(* Schemas.  The transaction is committed first, then every statement      *)
(* commits by itself.                                                      *)

DdlStatement(w, from, to, d) ==
    /\ worker[w].pc = from
    /\ db' = d /\ saved' = d
    /\ worker' = [worker EXCEPT ![w].pc = to]
    /\ UNCHANGED <<deployment, lock, cache, crashes>>

(* The end of both: BEGIN again, for the batch that will be executed.      *)
DdlEnd(w, from, d, ok) ==
    /\ worker[w].pc = from
    /\ db' = d /\ saved' = d
    /\ Answered(w, ok, TRUE, {})
    /\ UNCHANGED <<deployment, lock, cache, crashes>>

DdlCommit(w) ==
    /\ worker[w].pc = "op" /\ worker[w].req.type \in {"SCHEMA_CREATE", "SCHEMA_DELETE"}
    /\ saved' = db
    /\ worker' = [worker EXCEPT
          ![w].pc = IF worker[w].req.type = "SCHEMA_CREATE" THEN "table" ELSE "unlist",
          ![w].open = FALSE]
    /\ UNCHANGED <<deployment, db, lock, cache, crashes>>

(* CREATE TABLE and CREATE INDEX fail on a table that exists.              *)
CreateTable(w) ==
    IF db.table = NULL
    THEN DdlStatement(w, "table", "list", [db EXCEPT !.table = Op(w).version, !.rows = {}])
    ELSE DdlEnd(w, "table", db, FALSE)

(* The rows of schema_structure are inserted one by one, _id first.        *)
ListId(w) == DdlStatement(w, "list", "fields", [db EXCEPT !.meta = <<Op(w).version, FALSE>>])

ListFields(w) ==
    DdlEnd(w, "fields", [db EXCEPT !.meta = <<Op(w).version, TRUE>>, !.done = @ \cup {OpId(w)}], TRUE)

(* Faulty: the table goes first.                                           *)
DropTableFirst(w) ==
    DdlStatement(w, "unlist", "drop", [db EXCEPT !.table = NULL, !.rows = {}])

(* DELETE FROM schema_structure first...                                   *)
Unlist(w) == DdlStatement(w, "unlist", "drop", [db EXCEPT !.meta = NULL])

(* ...then DROP TABLE IF EXISTS.                                           *)
DropTable(w) ==
    DdlEnd(w, "drop", [db EXCEPT !.table = NULL, !.rows = {}, !.done = @ \cup {OpId(w)}], TRUE)

-----------------------------------------------------------------------------
(* The process dies and is started again: what was not committed is gone,  *)
(* and so are the caches, the lock and the lists being executed.           *)
Crash ==
    /\ crashes < MaxCrashes /\ \E w \in Workers : worker[w].pc # "idle"
    /\ crashes' = crashes + 1
    /\ db' = saved
    /\ lock' = NULL
    /\ cache' = [w \in Workers |-> NULL]
    /\ worker' = [w \in Workers |->
          IF worker[w].pc = "idle" THEN worker[w] ELSE [Idle EXCEPT !.n = worker[w].n]]
    /\ UNCHANGED <<deployment, saved>>

Operation(w) ==
    \/ Insert(w) \/ Update(w) \/ Delete(w) \/ Query(w) \/ SchemaGet(w)
    \/ DdlCommit(w) \/ CreateTable(w) \/ ListId(w) \/ ListFields(w)
    \/ Unlist(w) \/ DropTable(w)

Step(w) == BatchStart(w) \/ Operation(w) \/ BatchExecute(w)

Next == Crash \/ \E w \in Workers : Step(w) \/ \E r \in Requests[w] : FuncExec(w, r)

(* A thread that can go on does.  The lock promises nothing about its      *)
(* order, but a thread that finds it free for good takes it.               *)
Fairness == \A w \in Workers : WF_vars(Step(w))

Spec == Init /\ [][Next]_vars /\ Fairness

-----------------------------------------------------------------------------
(* Properties.                                                             *)

WorkerStates ==
    [pc : {"idle", "start", "op", "end"} \cup DdlPcs, n : Nat, i : Nat, open : BOOLEAN,
     req : (UNION {Requests[w] : w \in Workers}) \cup {NULL},
     results : Seq(BOOLEAN), rows : SUBSET Rows, ret : BOOLEAN]

WorkersOK ==
    /\ worker \in [Workers -> WorkerStates]
    /\ \A w \in Workers :
          /\ worker[w].n <= MaxRequests[w]
          /\ worker[w].pc # "idle" =>
                /\ worker[w].req \in Requests[w]
                /\ worker[w].i \in DOMAIN worker[w].req.ops
                /\ Len(worker[w].results) =
                      IF worker[w].pc = "end" THEN worker[w].i ELSE worker[w].i - 1

(* Every variable has its type; every operation of a list gets one result. *)
TypeOK ==
    /\ deployment \in Deployments /\ crashes \in 0 .. MaxCrashes
    /\ db \in Databases /\ saved \in Databases
    /\ lock \in Workers \cup {NULL}
    /\ cache \in [Workers -> Schemas]
    /\ WorkersOK

(* What is not committed belongs to the thread that holds                  *)
(* sql_backend_lock and has a transaction open: nobody else can see it or  *)
(* commit it, and no batch ends with work left over.                       *)
OneTransaction ==
    /\ \A w \in Workers : worker[w].pc \notin {"idle", "start"} => lock = w
    /\ db # saved => \E w \in Workers : lock = w /\ worker[w].open

Finished(w) == worker[w].pc = "idle" /\ worker[w].req # NULL

(* What an exec function reports is what happened, and stays so across     *)
(* crashes: on a server an operation is answered without an error exactly  *)
(* when its effect is on disk, although nobody looks at the result of      *)
(* COMMIT; in process a list reported successful is on disk completely.    *)
ResultsAreTrue ==
    \A w \in Workers : Finished(w) =>
        LET stored(k) == <<w, worker[w].n, k>> \in saved.done
        IN IF deployment = "server"
           THEN \A k \in DOMAIN worker[w].req.ops : worker[w].results[k] = stored(k)
           ELSE worker[w].ret => \A k \in DOMAIN worker[w].req.ops : stored(k)

(* schema_structure never describes a table that is not there or is        *)
(* another one, whenever the process dies in the middle of creating or     *)
(* deleting a schema.                                                      *)
SchemaDescribesTable ==
    \A d \in {db, saved} : d.meta # NULL => d.table = d.meta[1]

(* Every list is executed to its end: no failure of an operation or of a   *)
(* COMMIT leaves the lock taken.                                           *)
EveryExecReturns ==
    \A w \in Workers : worker[w].pc # "idle" ~> worker[w].pc = "idle"

=============================================================================
