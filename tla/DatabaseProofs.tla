--------------------------- MODULE DatabaseProofs ---------------------------
(***************************************************************************)
(* Proofs about Database for every set of threads, versions, requests and  *)
(* bounds.  The invariant says who holds the lock, when a transaction is   *)
(* open, and how far a schema change has come; Reports adds what has been  *)
(* answered and what of it is done.                                        *)
(***************************************************************************)
EXTENDS Database, TLAPS

(* Only the holder of the lock is inside a batch.                          *)
Holder == \A w \in Workers : worker[w].pc \notin {"idle", "start"} => lock = w

(* A transaction is open at most between the operations of a batch, never  *)
(* while the statements of a schema change commit by themselves.           *)
OpenInside == \A w \in Workers : worker[w].open => worker[w].pc \in {"op", "end"}

(* Changes that are not committed belong to the open transaction.          *)
Uncommitted == db # saved => \E w \in Workers : lock = w /\ worker[w].open

(* What the statements of a schema change have done so far.                *)
DdlProgress ==
    \A w \in Workers :
        /\ worker[w].pc \in {"list", "fields"} => saved.table = Op(w).version
        /\ worker[w].pc = "drop" => saved.meta = NULL

IInv ==
    /\ TypeOK /\ Holder /\ OpenInside /\ Uncommitted
    /\ SchemaDescribesTable /\ DdlProgress

-----------------------------------------------------------------------------
(* Facts about states.                                                     *)

(* The operation a thread works on is one of its request.                  *)
LEMMA OpType ==
    ASSUME WorkersOK, NEW w \in Workers, worker[w].pc # "idle"
    PROVE  /\ worker[w].req.ops \in Seq(Ops) /\ worker[w].i \in 1 .. Len(worker[w].req.ops)
           /\ Op(w) \in Ops /\ OpId(w) \in Ids
  <1>1. /\ worker[w].req \in Requests[w] /\ worker[w].i \in DOMAIN worker[w].req.ops
        /\ worker[w].n \in Nat /\ worker[w].i \in Nat
    BY DEF WorkersOK, WorkerStates
  <1>2. worker[w].req.ops \in Seq(Ops)
    BY <1>1, DatabaseAssumption
  <1>. QED BY <1>1, <1>2 DEF Op, OpId, Ids

(* A thread that is inside a batch is alone there, and what is not         *)
(* committed is its own.                                                   *)
LEMMA Alone ==
    ASSUME IInv, NEW w \in Workers, worker[w].pc \notin {"idle", "start"}
    PROVE  /\ lock = w
           /\ \A u \in Workers \ {w} : worker[u].pc \in {"idle", "start"} /\ ~worker[u].open
           /\ ~worker[w].open => db = saved
  <1>1. lock = w
    BY DEF IInv, Holder
  <1>2. \A u \in Workers \ {w} : worker[u].pc \in {"idle", "start"}
    BY <1>1 DEF IInv, Holder
  <1>3. \A u \in Workers \ {w} : ~worker[u].open
    BY <1>2 DEF IInv, OpenInside
  <1>. QED BY <1>1, <1>2, <1>3 DEF IInv, Uncommitted

(* Steps of one thread: how they change worker.                            *)
LEMMA OneWorker ==
    ASSUME WorkersOK, NEW w \in Workers, NEW e \in WorkerStates,
           worker' = [worker EXCEPT ![w] = e],
           e.n <= MaxRequests[w],
           e.pc # "idle" =>
              /\ e.req \in Requests[w] /\ e.i \in DOMAIN e.req.ops
              /\ Len(e.results) = IF e.pc = "end" THEN e.i ELSE e.i - 1
    PROVE  /\ WorkersOK'
           /\ worker'[w] = e
           /\ \A u \in Workers \ {w} : worker'[u] = worker[u]
  BY DEF WorkersOK

(* The invariant after a step of the thread w inside its batch.            *)
LEMMA Inside ==
    ASSUME IInv, TypeOK', NEW w \in Workers, worker[w].pc \notin {"idle", "start"},
           lock' = lock, \A u \in Workers \ {w} : worker'[u] = worker[u],
           worker'[w].pc \notin {"idle", "start"},
           worker'[w].open => worker'[w].pc \in {"op", "end"},
           db' # saved' => worker'[w].open,
           SchemaDescribesTable',
           worker'[w].pc \in {"list", "fields"} => saved'.table = Op(w)'.version,
           worker'[w].pc = "drop" => saved'.meta = NULL
    PROVE  IInv'
  <1>1. /\ lock = w
        /\ \A u \in Workers \ {w} : worker[u].pc \in {"idle", "start"} /\ ~worker[u].open
    BY Alone
  <1>2. Holder'
    BY <1>1 DEF Holder
  <1>3. OpenInside'
    BY <1>1 DEF OpenInside
  <1>4. Uncommitted'
    BY <1>1 DEF Uncommitted
  <1>5. DdlProgress'
    BY <1>1 DEF DdlProgress
  <1>. QED BY <1>2, <1>3, <1>4, <1>5 DEF IInv

(* The end of an operation: one more result, then the next operation of    *)
(* the list or the end of the batch.                                       *)
LEMMA AnsweredEffect ==
    ASSUME WorkersOK, NEW w \in Workers, worker[w].pc \in {"op"} \cup DdlPcs,
           NEW ok \in BOOLEAN, NEW open \in BOOLEAN, NEW rows \in SUBSET Rows,
           Answered(w, ok, open, rows)
    PROVE  /\ WorkersOK'
           /\ \A u \in Workers \ {w} : worker'[u] = worker[u]
           /\ worker'[w].pc \in {"op", "end"} /\ worker'[w].open = open
  <1>. DEFINE x == worker[w]
              more == deployment = "local" /\ More(w)
              e == [x EXCEPT !.pc = IF more THEN "op" ELSE "end", !.i = NextOperation(w),
                             !.open = open, !.results = Append(x.results, ok),
                             !.rows = x.rows \cup rows]
  <1>1. /\ x \in WorkerStates /\ x.n <= MaxRequests[w] /\ x.req \in Requests[w]
        /\ Len(x.results) = x.i - 1 /\ x.pc # "idle"
    BY DEF WorkersOK, DdlPcs
  <1>2. /\ x.req.ops \in Seq(Ops) /\ x.i \in 1 .. Len(x.req.ops)
    BY <1>1, OpType
  <1>3. /\ NextOperation(w) \in DOMAIN x.req.ops /\ NextOperation(w) \in Nat
        /\ NextOperation(w) = IF more THEN x.i + 1 ELSE x.i
    BY <1>2 DEF NextOperation, More
  <1>4. /\ Append(x.results, ok) \in Seq(BOOLEAN) /\ Len(Append(x.results, ok)) = x.i
        /\ x.rows \cup rows \in SUBSET Rows
    <2>1. x.results \in Seq(BOOLEAN) /\ x.rows \in SUBSET Rows /\ x.i \in Nat
      BY <1>1 DEF WorkerStates
    <2>. HIDE DEF x
    <2>. QED BY <1>1, <2>1
  <1>5. worker' = [worker EXCEPT ![w] = e]
    BY Zenon DEF Answered
  <1>6. /\ e \in WorkerStates /\ e.n = x.n /\ e.req = x.req
        /\ e.pc = (IF more THEN "op" ELSE "end") /\ e.i = NextOperation(w) /\ e.open = open
        /\ e.results = Append(x.results, ok)
    <2>. HIDE DEF x, more
    <2>. QED BY <1>1, <1>3, <1>4 DEF WorkerStates
  <1>. HIDE DEF e
  <1>7. Len(e.results) = IF e.pc = "end" THEN e.i ELSE e.i - 1
    <2>1. x.i \in Nat
      BY <1>1 DEF WorkerStates
    <2>. HIDE DEF x, more
    <2>. QED BY <1>3, <1>4, <1>6, <2>1
  <1>8. /\ WorkersOK' /\ worker'[w] = e
        /\ \A u \in Workers \ {w} : worker'[u] = worker[u]
    <2>. HIDE DEF x, more
    <2>1. e.n <= MaxRequests[w] /\ e.req \in Requests[w] /\ e.i \in DOMAIN e.req.ops
      BY <1>1, <1>3, <1>6
    <2>. QED BY <1>5, <1>6, <1>7, <2>1, OneWorker
  <1>. QED BY <1>6, <1>8

(* An operation that succeeds.  The tables and their description are only  *)
(* changed by the statements of a schema change.                           *)
LEMMA SucceedKeeps ==
    ASSUME IInv, NEW w \in Workers, worker[w].pc = "op",
           NEW d \in Databases, d.table = db.table, d.meta = db.meta, d.done = db.done,
           NEW rows \in SUBSET Rows, Succeed(w, d, rows),
           cache' \in [Workers -> Schemas], UNCHANGED <<deployment, lock, crashes>>
    PROVE  IInv'
  <1>1. /\ WorkersOK' /\ \A u \in Workers \ {w} : worker'[u] = worker[u]
        /\ worker'[w].pc \in {"op", "end"} /\ worker'[w].open = worker[w].open
    <2>1. worker[w].open \in BOOLEAN
      BY DEF IInv, TypeOK, WorkersOK, WorkerStates
    <2>2. Answered(w, TRUE, worker[w].open, rows) /\ WorkersOK
      BY DEF Succeed, IInv, TypeOK
    <2>3. TRUE \in BOOLEAN /\ worker[w].pc \in {"op"} \cup DdlPcs
      OBVIOUS
    <2>. QED BY <2>1, <2>2, <2>3, AnsweredEffect
  <1>2. db' \in Databases /\ db'.table = db.table /\ db'.meta = db.meta
    <2>1. OpId(w) \in Ids
      BY OpType DEF IInv, TypeOK
    <2>2. db' = [d EXCEPT !.done = d.done \cup {OpId(w)}]
      BY DEF Succeed
    <2>. QED BY <2>1, <2>2 DEF Databases
  <1>3. /\ saved' \in Databases /\ saved' = IF worker[w].open THEN saved ELSE db'
    BY <1>2 DEF Succeed, IInv, TypeOK
  <1>4. TypeOK'
    BY <1>1, <1>2, <1>3 DEF TypeOK, IInv
  <1>5. SchemaDescribesTable'
    BY <1>2, <1>3 DEF SchemaDescribesTable, IInv
  <1>6. db' # saved' => worker'[w].open
    BY <1>1, <1>3
  <1>. QED BY <1>1, <1>4, <1>5, <1>6, Inside

(* An operation that fails and rolls back.                                 *)
LEMMA AbortKeeps ==
    ASSUME IInv, NEW w \in Workers, worker[w].pc = "op", Abort(w),
           cache' \in [Workers -> Schemas], UNCHANGED <<deployment, lock, crashes>>
    PROVE  IInv'
  <1>1. /\ WorkersOK' /\ \A u \in Workers \ {w} : worker'[u] = worker[u]
        /\ worker'[w].pc \in {"op", "end"} /\ worker'[w].open = FALSE
    <2>1. Answered(w, FALSE, FALSE, {}) /\ WorkersOK
      BY DEF Abort, IInv, TypeOK
    <2>2. FALSE \in BOOLEAN /\ {} \in SUBSET Rows /\ worker[w].pc \in {"op"} \cup DdlPcs
      OBVIOUS
    <2>. QED BY <2>1, <2>2, AnsweredEffect
  <1>2. db' = saved /\ saved' = saved
    BY DEF Abort
  <1>3. TypeOK' /\ SchemaDescribesTable'
    BY <1>1, <1>2 DEF TypeOK, IInv, SchemaDescribesTable
  <1>. QED BY <1>1, <1>2, <1>3, Inside

(* A query that fails and leaves its transaction open.                     *)
LEMMA FailKeeps ==
    ASSUME IInv, NEW w \in Workers, worker[w].pc = "op", Fail(w),
           cache' \in [Workers -> Schemas], UNCHANGED <<deployment, lock, crashes>>
    PROVE  IInv'
  <1>1. /\ WorkersOK' /\ \A u \in Workers \ {w} : worker'[u] = worker[u]
        /\ worker'[w].pc \in {"op", "end"} /\ worker'[w].open = worker[w].open
    <2>1. worker[w].open \in BOOLEAN
      BY DEF IInv, TypeOK, WorkersOK, WorkerStates
    <2>2. Answered(w, FALSE, worker[w].open, {}) /\ WorkersOK
      BY DEF Fail, IInv, TypeOK
    <2>3. FALSE \in BOOLEAN /\ {} \in SUBSET Rows /\ worker[w].pc \in {"op"} \cup DdlPcs
      OBVIOUS
    <2>. QED BY <2>1, <2>2, <2>3, AnsweredEffect
  <1>2. db' = db /\ saved' = saved
    BY DEF Fail
  <1>3. TypeOK' /\ SchemaDescribesTable'
    BY <1>1, <1>2 DEF TypeOK, IInv, SchemaDescribesTable
  <1>4. db' # saved' => worker'[w].open
    BY <1>1, <1>2, Alone
  <1>. QED BY <1>1, <1>3, <1>4, Inside

(* The thread's schema cache keeps its type.                               *)
LEMMA RememberType ==
    ASSUME IInv, NEW w \in Workers, Remember(w)
    PROVE  cache' \in [Workers -> Schemas]
  BY DEF IInv, TypeOK, Remember, Schema, Databases

-----------------------------------------------------------------------------
(* Operations on data.                                                     *)

(* The rows of the table after an insert, an update or a delete.           *)
LEMMA RowsType ==
    ASSUME IInv, NEW rows \in SUBSET Rows
    PROVE  /\ [db EXCEPT !.rows = rows] \in Databases
           /\ [db EXCEPT !.rows = rows].table = db.table
           /\ [db EXCEPT !.rows = rows].meta = db.meta
           /\ [db EXCEPT !.rows = rows].done = db.done
  BY DEF IInv, TypeOK, Databases

(* sql_generic_insert keeps the invariant.                                *)
LEMMA InsertKeeps ==
    ASSUME IInv, NEW w \in Workers, Insert(w)
    PROVE  IInv'
  <1>1. /\ worker[w].pc = "op" /\ cache' \in [Workers -> Schemas]
        /\ UNCHANGED <<deployment, lock, crashes>>
    BY RememberType DEF Insert, Runs
  <1>2. CASE Fits(w)
    <2>. DEFINE rows == db.rows \cup {[id |-> OpId(w), v |-> Op(w).v, by |-> OpId(w)]}
    <2>1. Op(w) \in Ops /\ OpId(w) \in Ids
      BY <1>1, OpType DEF IInv, TypeOK
    <2>2. rows \in SUBSET Rows
      <3>1. db.rows \in SUBSET Rows
        BY DEF IInv, TypeOK, Databases
      <3>2. Op(w).v \in Values
        BY <2>1 DEF Ops
      <3>. QED BY <2>1, <3>1, <3>2 DEF Rows
    <2>3. Succeed(w, [db EXCEPT !.rows = rows], {})
      BY <1>2 DEF Insert, Inserted
    <2>. HIDE DEF rows
    <2>. DEFINE d == [db EXCEPT !.rows = rows]
    <2>4. /\ d \in Databases /\ d.table = db.table /\ d.meta = db.meta /\ d.done = db.done
          /\ Succeed(w, d, {}) /\ {} \in SUBSET Rows
      BY <2>2, <2>3, RowsType
    <2>. HIDE DEF d
    <2>. QED BY <1>1, <2>4, SucceedKeeps
  <1>3. CASE ~Fits(w)
    BY <1>1, <1>3, AbortKeeps DEF Insert
  <1>. QED BY <1>2, <1>3

(* sql_generic_update keeps the invariant.                                *)
LEMMA UpdateKeeps ==
    ASSUME IInv, NEW w \in Workers, Update(w)
    PROVE  IInv'
  <1>1. /\ worker[w].pc = "op" /\ cache' \in [Workers -> Schemas]
        /\ UNCHANGED <<deployment, lock, crashes>>
    BY RememberType DEF Update, Runs
  <1>2. CASE Fits(w) /\ Matches(w) # {}
    <2>. DEFINE rows == (db.rows \ Matches(w))
                   \cup {[row EXCEPT !.v = Op(w).to, !.by = OpId(w)] : row \in Matches(w)}
    <2>1. Op(w) \in Ops /\ OpId(w) \in Ids
      BY <1>1, OpType DEF IInv, TypeOK
    <2>2. rows \in SUBSET Rows
      <3>1. db.rows \in SUBSET Rows /\ Matches(w) \subseteq Rows
        BY DEF IInv, TypeOK, Databases, Matches
      <3>2. Op(w).to \in Values
        BY <2>1 DEF Ops
      <3>3. \A row \in Matches(w) : [row EXCEPT !.v = Op(w).to, !.by = OpId(w)] \in Rows
        BY <2>1, <3>1, <3>2 DEF Rows
      <3>. QED BY <3>1, <3>3
    <2>3. Succeed(w, [db EXCEPT !.rows = rows], {})
      BY <1>2 DEF Update, Updated
    <2>. HIDE DEF rows
    <2>. DEFINE d == [db EXCEPT !.rows = rows]
    <2>4. /\ d \in Databases /\ d.table = db.table /\ d.meta = db.meta /\ d.done = db.done
          /\ Succeed(w, d, {}) /\ {} \in SUBSET Rows
      BY <2>2, <2>3, RowsType
    <2>. HIDE DEF d
    <2>. QED BY <1>1, <2>4, SucceedKeeps
  <1>3. CASE ~(Fits(w) /\ Matches(w) # {})
    BY <1>1, <1>3, AbortKeeps DEF Update
  <1>. QED BY <1>2, <1>3

(* sql_generic_delete keeps the invariant.                                *)
LEMMA DeleteKeeps ==
    ASSUME IInv, NEW w \in Workers, Delete(w)
    PROVE  IInv'
  <1>1. /\ worker[w].pc = "op" /\ cache' \in [Workers -> Schemas]
        /\ UNCHANGED <<deployment, lock, crashes>>
    BY RememberType DEF Delete, Runs
  <1>2. CASE Fits(w) /\ Matches(w) # {}
    <2>1. db.rows \ Matches(w) \in SUBSET Rows
      BY DEF IInv, TypeOK, Databases
    <2>2. Succeed(w, [db EXCEPT !.rows = db.rows \ Matches(w)], {})
      BY <1>2 DEF Delete
    <2>. DEFINE d == [db EXCEPT !.rows = db.rows \ Matches(w)]
    <2>3. /\ d \in Databases /\ d.table = db.table /\ d.meta = db.meta /\ d.done = db.done
          /\ Succeed(w, d, {}) /\ {} \in SUBSET Rows
      BY <2>1, <2>2, RowsType
    <2>. HIDE DEF d
    <2>. QED BY <1>1, <2>3, SucceedKeeps
  <1>3. CASE ~(Fits(w) /\ Matches(w) # {})
    BY <1>1, <1>3, AbortKeeps DEF Delete
  <1>. QED BY <1>2, <1>3

(* sql_generic_query keeps the invariant.                                 *)
LEMMA QueryKeeps ==
    ASSUME IInv, NEW w \in Workers, Query(w)
    PROVE  IInv'
  <1>1. worker[w].pc = "op" /\ cache' \in [Workers -> Schemas]
    BY RememberType DEF Query, Runs
  <1>2. db \in Databases /\ Fetched(w) \in SUBSET Rows
    BY DEF IInv, TypeOK, Databases, Fetched
  <1>3. CASE Fits(w)
    BY <1>1, <1>2, <1>3, SucceedKeeps DEF Query
  <1>4. CASE ~Fits(w)
    BY <1>1, <1>4, FailKeeps DEF Query
  <1>. QED BY <1>3, <1>4

(* sql_generic_schema_get keeps the invariant.                            *)
LEMMA SchemaGetKeeps ==
    ASSUME IInv, NEW w \in Workers, SchemaGet(w)
    PROVE  IInv'
  <1>1. worker[w].pc = "op" /\ cache' \in [Workers -> Schemas] /\ db \in Databases
    BY DEF SchemaGet, Runs, IInv, TypeOK
  <1>2. CASE db.meta # NULL
    BY <1>1, <1>2, SucceedKeeps DEF SchemaGet
  <1>3. CASE db.meta = NULL
    BY <1>1, <1>3, AbortKeeps DEF SchemaGet
  <1>. QED BY <1>2, <1>3

-----------------------------------------------------------------------------
(* Schema changes.                                                         *)

(* A thread that moves on to the next statement of a schema change.        *)
LEMMA NextStatement ==
    ASSUME WorkersOK, NEW w \in Workers, worker[w].pc \in {"op"} \cup DdlPcs,
           NEW to \in DdlPcs, NEW open \in BOOLEAN,
           worker' = [worker EXCEPT ![w] = [worker[w] EXCEPT !.pc = to, !.open = open]]
    PROVE  /\ WorkersOK' /\ \A u \in Workers \ {w} : worker'[u] = worker[u]
           /\ worker'[w].pc = to /\ worker'[w].open = open /\ Op(w)' = Op(w)
  <1>. DEFINE e == [worker[w] EXCEPT !.pc = to, !.open = open]
  <1>1. /\ worker[w] \in WorkerStates /\ worker[w].n <= MaxRequests[w]
        /\ worker[w].req \in Requests[w] /\ worker[w].i \in DOMAIN worker[w].req.ops
        /\ Len(worker[w].results) = worker[w].i - 1
    BY DEF WorkersOK, DdlPcs
  <1>2. /\ e \in WorkerStates /\ e.pc = to /\ e.open = open /\ e.n = worker[w].n
        /\ e.req = worker[w].req /\ e.i = worker[w].i /\ e.results = worker[w].results
    BY <1>1 DEF WorkerStates
  <1>3. to \notin {"idle", "end"}
    BY DEF DdlPcs
  <1>. HIDE DEF e
  <1>4. worker' = [worker EXCEPT ![w] = e]
    BY DEF e
  <1>5. /\ WorkersOK' /\ worker'[w] = e
        /\ \A u \in Workers \ {w} : worker'[u] = worker[u]
    <2>1. /\ e.n <= MaxRequests[w] /\ e.req \in Requests[w] /\ e.i \in DOMAIN e.req.ops
          /\ Len(e.results) = IF e.pc = "end" THEN e.i ELSE e.i - 1
      BY <1>1, <1>2, <1>3
    <2>. QED BY <1>2, <1>4, <2>1, OneWorker
  <1>. QED BY <1>2, <1>5 DEF Op

(* The transaction is committed before the first statement.                *)
LEMMA DdlCommitKeeps ==
    ASSUME IInv, NEW w \in Workers, DdlCommit(w)
    PROVE  IInv'
  <1>. DEFINE to == IF worker[w].req.type = "SCHEMA_CREATE" THEN "table" ELSE "unlist"
  <1>1. /\ worker[w].pc = "op" /\ saved' = db /\ db' = db
        /\ UNCHANGED <<deployment, lock, cache, crashes>>
        /\ worker' = [worker EXCEPT ![w] = [worker[w] EXCEPT !.pc = to, !.open = FALSE]]
    BY DEF DdlCommit
  <1>2. to \in {"table", "unlist"} /\ to \in DdlPcs
    BY DEF DdlPcs
  <1>. HIDE DEF to
  <1>3. /\ WorkersOK' /\ \A u \in Workers \ {w} : worker'[u] = worker[u]
        /\ worker'[w].pc = to /\ worker'[w].open = FALSE
    <2>1. WorkersOK /\ FALSE \in BOOLEAN /\ worker[w].pc \in {"op"} \cup DdlPcs
      BY <1>1 DEF IInv, TypeOK
    <2>. QED BY <1>1, <1>2, <2>1, NextStatement
  <1>4. TypeOK' /\ SchemaDescribesTable'
    BY <1>1, <1>3 DEF TypeOK, IInv, SchemaDescribesTable
  <1>. QED BY <1>1, <1>2, <1>3, <1>4, Inside

(* One statement of a schema change, committed by itself.                  *)
LEMMA DdlStatementKeeps ==
    ASSUME IInv, NEW w \in Workers, NEW from \in DdlPcs, NEW to \in DdlPcs,
           NEW d \in Databases, DdlStatement(w, from, to, d),
           d.meta # NULL => d.table = d.meta[1],
           to \in {"list", "fields"} => d.table = Op(w).version,
           to = "drop" => d.meta = NULL
    PROVE  IInv'
  <1>1. /\ worker[w].pc = from /\ db' = d /\ saved' = d
        /\ UNCHANGED <<deployment, lock, cache, crashes>>
        /\ worker' = [worker EXCEPT ![w].pc = to]
    BY DEF DdlStatement
  <1>2. /\ WorkersOK /\ worker[w] \in WorkerStates /\ worker[w].open \in BOOLEAN
        /\ worker[w].pc \in {"op"} \cup DdlPcs /\ ~worker[w].open
    BY <1>1 DEF IInv, TypeOK, WorkersOK, WorkerStates, OpenInside, DdlPcs
  <1>3. worker' = [worker EXCEPT ![w] = [worker[w] EXCEPT !.pc = to, !.open = worker[w].open]]
    BY <1>1, <1>2 DEF WorkerStates
  <1>4. /\ WorkersOK' /\ \A u \in Workers \ {w} : worker'[u] = worker[u]
        /\ worker'[w].pc = to /\ Op(w)' = Op(w) /\ worker'[w].open = worker[w].open
    BY <1>2, <1>3, NextStatement
  <1>5. TypeOK' /\ SchemaDescribesTable'
    BY <1>1, <1>4 DEF TypeOK, IInv, SchemaDescribesTable
  <1>6. worker[w].pc \notin {"idle", "start"} /\ to \notin {"idle", "start"}
    BY <1>1 DEF DdlPcs
  <1>. QED BY <1>1, <1>2, <1>4, <1>5, <1>6, Inside

(* The last statement, or the one that fails, and BEGIN.                   *)
LEMMA DdlEndKeeps ==
    ASSUME IInv, NEW w \in Workers, NEW from \in DdlPcs, NEW ok \in BOOLEAN,
           NEW d \in Databases, DdlEnd(w, from, d, ok),
           d.meta # NULL => d.table = d.meta[1]
    PROVE  IInv'
  <1>1. /\ worker[w].pc = from /\ db' = d /\ saved' = d
        /\ UNCHANGED <<deployment, lock, cache, crashes>>
        /\ Answered(w, ok, TRUE, {}) /\ WorkersOK
    BY DEF DdlEnd, IInv, TypeOK
  <1>2. /\ WorkersOK' /\ \A u \in Workers \ {w} : worker'[u] = worker[u]
        /\ worker'[w].pc \in {"op", "end"} /\ worker'[w].open = TRUE
    <2>1. TRUE \in BOOLEAN /\ {} \in SUBSET Rows /\ worker[w].pc \in {"op"} \cup DdlPcs
      BY <1>1
    <2>. QED BY <1>1, <2>1, AnsweredEffect
  <1>3. TypeOK' /\ SchemaDescribesTable'
    BY <1>1, <1>2 DEF TypeOK, IInv, SchemaDescribesTable
  <1>4. worker[w].pc \notin {"idle", "start"}
    BY <1>1 DEF DdlPcs
  <1>. QED BY <1>1, <1>2, <1>3, <1>4, Inside

(* sql_generic_schema_create and sql_generic_schema_delete keep the        *)
(* invariant: the table is there before its description and after it.      *)
LEMMA DdlKeeps ==
    ASSUME IInv, NEW w \in Workers,
           CreateTable(w) \/ ListId(w) \/ ListFields(w) \/ Unlist(w) \/ DropTable(w)
    PROVE  IInv'
  <1>. DEFINE created == [db EXCEPT !.table = Op(w).version, !.rows = {}]
              listed == [db EXCEPT !.meta = <<Op(w).version, FALSE>>]
              complete == [db EXCEPT !.meta = <<Op(w).version, TRUE>>, !.done = db.done \cup {OpId(w)}]
              unlisted == [db EXCEPT !.meta = NULL]
              dropped == [db EXCEPT !.table = NULL, !.rows = {}, !.done = db.done \cup {OpId(w)}]
  <1>1. /\ db \in Databases /\ WorkersOK
        /\ db.meta # NULL => db.table = db.meta[1]
        /\ NULL \notin Versions
    BY DatabaseAssumption DEF IInv, TypeOK, SchemaDescribesTable
  <1>2. worker[w].pc # "idle" => Op(w).version \in Versions /\ OpId(w) \in Ids
    BY <1>1, OpType DEF Ops
  <1>3. worker[w].pc \in DdlPcs => db = saved
    BY Alone DEF IInv, OpenInside, DdlPcs
  <1>4. CASE CreateTable(w)
    <2>1. CASE db.table = NULL
      <3>1. DdlStatement(w, "table", "list", created) /\ worker[w].pc = "table"
        BY <1>4, <2>1 DEF CreateTable, DdlStatement
      <3>2. db.meta = NULL
        BY <1>1, <2>1 DEF Databases, Schemas
      <3>3. created \in Databases /\ created.meta = NULL /\ created.table = Op(w).version
        BY <1>1, <1>2, <3>1, <3>2 DEF Databases
      <3>4. "table" \in DdlPcs /\ "list" \in DdlPcs
        BY DEF DdlPcs
      <3>. HIDE DEF created
      <3>. QED BY <3>1, <3>3, <3>4, DdlStatementKeeps
    <2>2. CASE db.table # NULL
      <3>1. DdlEnd(w, "table", db, FALSE)
        BY <1>4, <2>2 DEF CreateTable
      <3>2. "table" \in DdlPcs /\ FALSE \in BOOLEAN
        BY DEF DdlPcs
      <3>. QED BY <1>1, <3>1, <3>2, DdlEndKeeps
    <2>. QED BY <2>1, <2>2
  <1>5. CASE ListId(w)
    <2>1. DdlStatement(w, "list", "fields", listed) /\ worker[w].pc = "list"
      BY <1>5 DEF ListId, DdlStatement
    <2>2. db.table = Op(w).version
      BY <1>3, <2>1 DEF IInv, DdlProgress, DdlPcs
    <2>3. /\ listed \in Databases /\ listed.table = Op(w).version
          /\ listed.meta = <<Op(w).version, FALSE>>
      BY <1>1, <1>2, <2>1, <2>2 DEF Databases, Schemas
    <2>4. "list" \in DdlPcs /\ "fields" \in DdlPcs
      BY DEF DdlPcs
    <2>. HIDE DEF listed
    <2>5. listed.meta[1] = listed.table
      BY <2>3
    <2>. QED BY <2>1, <2>3, <2>4, <2>5, DdlStatementKeeps
  <1>6. CASE ListFields(w)
    <2>1. DdlEnd(w, "fields", complete, TRUE) /\ worker[w].pc = "fields"
      BY <1>6 DEF ListFields, DdlEnd
    <2>2. db.table = Op(w).version
      BY <1>3, <2>1 DEF IInv, DdlProgress, DdlPcs
    <2>3. /\ complete \in Databases /\ complete.table = Op(w).version
          /\ complete.meta = <<Op(w).version, TRUE>>
      BY <1>1, <1>2, <2>1, <2>2 DEF Databases, Schemas
    <2>4. "fields" \in DdlPcs /\ TRUE \in BOOLEAN
      BY DEF DdlPcs
    <2>. HIDE DEF complete
    <2>5. complete.meta[1] = complete.table
      BY <2>3
    <2>. QED BY <2>1, <2>3, <2>4, <2>5, DdlEndKeeps
  <1>7. CASE Unlist(w)
    <2>1. DdlStatement(w, "unlist", "drop", unlisted)
      BY <1>7 DEF Unlist
    <2>2. unlisted \in Databases /\ unlisted.meta = NULL
      BY <1>1 DEF Databases, Schemas
    <2>3. "unlist" \in DdlPcs /\ "drop" \in DdlPcs
      BY DEF DdlPcs
    <2>. HIDE DEF unlisted
    <2>. QED BY <2>1, <2>2, <2>3, DdlStatementKeeps
  <1>8. CASE DropTable(w)
    <2>1. DdlEnd(w, "drop", dropped, TRUE) /\ worker[w].pc = "drop"
      BY <1>8 DEF DropTable, DdlEnd
    <2>2. db.meta = NULL
      BY <1>3, <2>1 DEF IInv, DdlProgress, DdlPcs
    <2>3. dropped \in Databases /\ dropped.meta = NULL
      BY <1>1, <1>2, <2>1, <2>2 DEF Databases
    <2>4. "drop" \in DdlPcs /\ TRUE \in BOOLEAN
      BY DEF DdlPcs
    <2>. HIDE DEF dropped
    <2>. QED BY <2>1, <2>3, <2>4, DdlEndKeeps
  <1>. QED BY <1>4, <1>5, <1>6, <1>7, <1>8

-----------------------------------------------------------------------------
(* Batches and crashes.                                                    *)

(* A thread that has nothing to do.                                        *)
LEMMA IdleType ==
    /\ Idle \in WorkerStates
    /\ Idle.pc = "idle" /\ Idle.n = 0 /\ Idle.open = FALSE /\ Idle.results = <<>>
  <1>1. <<>> \in Seq(BOOLEAN)
    OBVIOUS
  <1>2. {} \in SUBSET Rows
    OBVIOUS
  <1>3. NULL \in (UNION {Requests[w] : w \in Workers}) \cup {NULL}
    OBVIOUS
  <1>4. "idle" \in {"idle", "start", "op", "end"} \cup DdlPcs
    OBVIOUS
  <1>5. 0 \in Nat /\ TRUE \in BOOLEAN /\ FALSE \in BOOLEAN
    OBVIOUS
  <1>6. Idle \in WorkerStates
    BY <1>1, <1>2, <1>3, <1>4, <1>5, Zenon DEF Idle, WorkerStates
  <1>. QED BY <1>6 DEF Idle

(* A list arrives.                                                         *)
LEMMA FuncExecKeeps ==
    ASSUME IInv, NEW w \in Workers, NEW r \in Requests[w], FuncExec(w, r)
    PROVE  IInv'
  <1>. DEFINE e == [Idle EXCEPT !.pc = "start", !.n = worker[w].n + 1, !.req = r, !.i = 1]
  <1>1. /\ worker[w].pc = "idle" /\ worker[w].n < MaxRequests[w]
        /\ UNCHANGED <<deployment, db, saved, lock, cache, crashes>>
        /\ worker' = [worker EXCEPT ![w] = e]
    BY DEF FuncExec
  <1>2. worker[w].n \in Nat /\ MaxRequests[w] \in Nat /\ r.ops \in Seq(Ops) /\ r.ops # <<>>
    BY DatabaseAssumption DEF IInv, TypeOK, WorkersOK, WorkerStates
  <1>3. /\ e.pc = "start" /\ e.n = worker[w].n + 1 /\ e.req = r /\ e.i = 1
        /\ e.open = FALSE /\ e.results = <<>>
    BY DEF Idle
  <1>4. e \in WorkerStates
    <2>1. worker[w].n + 1 \in Nat
      BY <1>2
    <2>2. r \in (UNION {Requests[u] : u \in Workers}) \cup {NULL}
      OBVIOUS
    <2>. QED BY <2>1, <2>2, IdleType DEF WorkerStates
  <1>5. e.n <= MaxRequests[w] /\ e.i \in DOMAIN e.req.ops /\ Len(e.results) = e.i - 1
    <2>. HIDE DEF e
    <2>. QED BY <1>1, <1>2, <1>3
  <1>. HIDE DEF e
  <1>6. /\ WorkersOK' /\ worker'[w] = e /\ \A u \in Workers \ {w} : worker'[u] = worker[u]
    <2>1. WorkersOK
      BY DEF IInv, TypeOK
    <2>. QED BY <1>1, <1>3, <1>4, <1>5, <2>1, OneWorker
  <1>7. TypeOK' /\ SchemaDescribesTable'
    BY <1>1, <1>6 DEF IInv, TypeOK, SchemaDescribesTable
  <1>8. Holder' /\ OpenInside'
    BY <1>1, <1>3, <1>6 DEF IInv, Holder, OpenInside
  <1>9. Uncommitted'
    <2>1. \A u \in Workers : worker[u].open => u # w
      BY <1>1 DEF IInv, OpenInside
    <2>. QED BY <1>1, <1>6, <2>1 DEF IInv, Uncommitted
  <1>10. DdlProgress'
    BY <1>1, <1>3, <1>6 DEF IInv, DdlProgress, Op
  <1>. QED BY <1>7, <1>8, <1>9, <1>10 DEF IInv

(* The lock is free: nobody is inside a batch, and everything is           *)
(* committed.                                                              *)
LEMMA NobodyInside ==
    ASSUME IInv, lock = NULL
    PROVE  /\ \A u \in Workers : worker[u].pc \in {"idle", "start"} /\ ~worker[u].open
           /\ db = saved
  <1>1. \A u \in Workers : worker[u].pc \in {"idle", "start"}
    BY DatabaseAssumption DEF IInv, Holder
  <1>2. \A u \in Workers : ~worker[u].open
    BY <1>1 DEF IInv, OpenInside
  <1>. QED BY <1>1, <1>2 DEF IInv, Uncommitted

(* sql_generic_batch_start keeps the invariant.                            *)
LEMMA BatchStartKeeps ==
    ASSUME IInv, NEW w \in Workers, BatchStart(w)
    PROVE  IInv'
  <1>. DEFINE e == [worker[w] EXCEPT !.pc = "op", !.open = TRUE]
  <1>1. /\ worker[w].pc = "start" /\ lock = NULL /\ lock' = w
        /\ UNCHANGED <<deployment, db, saved, cache, crashes>>
        /\ worker' = [worker EXCEPT ![w] = e]
    BY DEF BatchStart
  <1>2. /\ WorkersOK /\ worker[w] \in WorkerStates /\ worker[w].n <= MaxRequests[w]
        /\ worker[w].req \in Requests[w] /\ worker[w].i \in DOMAIN worker[w].req.ops
        /\ Len(worker[w].results) = worker[w].i - 1
    BY <1>1 DEF IInv, TypeOK, WorkersOK
  <1>3. /\ e \in WorkerStates /\ e.pc = "op" /\ e.open = TRUE /\ e.n = worker[w].n
        /\ e.req = worker[w].req /\ e.i = worker[w].i /\ e.results = worker[w].results
    BY <1>2 DEF WorkerStates
  <1>. HIDE DEF e
  <1>4. /\ WorkersOK' /\ worker'[w] = e /\ \A u \in Workers \ {w} : worker'[u] = worker[u]
    <2>1. /\ e.n <= MaxRequests[w] /\ e.req \in Requests[w] /\ e.i \in DOMAIN e.req.ops
          /\ Len(e.results) = IF e.pc = "end" THEN e.i ELSE e.i - 1
      BY <1>2, <1>3
    <2>. QED BY <1>1, <1>2, <1>3, <2>1, OneWorker
  <1>5. /\ \A u \in Workers : worker[u].pc \in {"idle", "start"} /\ ~worker[u].open
        /\ db = saved
    BY <1>1, NobodyInside
  <1>6. TypeOK' /\ SchemaDescribesTable'
    BY <1>1, <1>4 DEF IInv, TypeOK, SchemaDescribesTable
  <1>7. Holder' /\ OpenInside' /\ Uncommitted'
    BY <1>1, <1>3, <1>4, <1>5 DEF Holder, OpenInside, Uncommitted
  <1>8. DdlProgress'
    BY <1>3, <1>4, <1>5 DEF DdlProgress
  <1>. QED BY <1>6, <1>7, <1>8 DEF IInv

(* sql_generic_batch_execute keeps the invariant: when the lock is free    *)
(* again, nothing is left uncommitted.                                     *)
LEMMA BatchExecuteKeeps ==
    ASSUME IInv, NEW w \in Workers, BatchExecute(w)
    PROVE  IInv'
  <1>. DEFINE more == deployment = "server" /\ More(w)
              ret == AllTrue(worker[w].results) /\ (deployment = "local" => worker[w].open)
              next == [worker[w] EXCEPT !.pc = "start", !.i = worker[w].i + 1, !.open = FALSE]
              last == [worker[w] EXCEPT !.pc = "idle", !.open = FALSE, !.ret = ret]
              e == IF more THEN next ELSE last
  <1>1. /\ worker[w].pc = "end" /\ saved' = Commit(w) /\ lock' = NULL
        /\ UNCHANGED <<deployment, db, cache, crashes>>
        /\ worker' = [worker EXCEPT ![w] = e]
    BY DEF BatchExecute, Unlock
  <1>2. /\ WorkersOK /\ worker[w] \in WorkerStates /\ worker[w].n <= MaxRequests[w]
        /\ worker[w].req \in Requests[w] /\ Len(worker[w].results) = worker[w].i
        /\ worker[w].i \in Nat
    BY <1>1 DEF IInv, TypeOK, WorkersOK, WorkerStates
  <1>3. /\ worker[w].req.ops \in Seq(Ops) /\ worker[w].i \in 1 .. Len(worker[w].req.ops)
    BY <1>1, <1>2, OpType
  <1>4. ret \in BOOLEAN
    BY DEF AllTrue
  <1>5. /\ next \in WorkerStates /\ next.pc = "start" /\ next.open = FALSE
        /\ next.i = worker[w].i + 1 /\ next.n = worker[w].n
        /\ next.req = worker[w].req /\ next.results = worker[w].results
    <2>1. worker[w].i + 1 \in Nat
      BY <1>2
    <2>. QED BY <1>2, <2>1 DEF WorkerStates
  <1>6. /\ last \in WorkerStates /\ last.pc = "idle" /\ last.open = FALSE
        /\ last.n = worker[w].n
    <2>. HIDE DEF ret
    <2>. QED BY <1>2, <1>4 DEF WorkerStates
  <1>. HIDE DEF next, last
  <1>7. /\ e \in WorkerStates /\ e.pc \in {"idle", "start"} /\ e.open = FALSE
        /\ e.n <= MaxRequests[w]
        /\ e.pc # "idle" =>
              /\ e.req \in Requests[w] /\ e.i \in DOMAIN e.req.ops
              /\ Len(e.results) = IF e.pc = "end" THEN e.i ELSE e.i - 1
    <2>1. CASE more
      <3>1. e = next
        BY <2>1
      <3>2. worker[w].i + 1 \in DOMAIN worker[w].req.ops
        BY <1>3, <2>1 DEF More
      <3>3. Len(next.results) = next.i - 1
        BY <1>2, <1>5
      <3>. HIDE DEF e, more
      <3>. QED BY <1>2, <1>5, <3>1, <3>2, <3>3
    <2>2. CASE ~more
      <3>1. e = last
        BY <2>2
      <3>. HIDE DEF e, more
      <3>. QED BY <1>2, <1>6, <3>1
    <2>. QED BY <2>1, <2>2
  <1>. HIDE DEF e
  <1>8. /\ WorkersOK' /\ worker'[w] = e /\ \A u \in Workers \ {w} : worker'[u] = worker[u]
    BY <1>1, <1>2, <1>7, OneWorker
  <1>9. /\ \A u \in Workers \ {w} : worker[u].pc \in {"idle", "start"} /\ ~worker[u].open
        /\ saved' = db /\ db' = db
    BY <1>1, Alone DEF Commit
  <1>10. TypeOK' /\ SchemaDescribesTable'
    BY <1>1, <1>8, <1>9 DEF IInv, TypeOK, SchemaDescribesTable
  <1>11. Holder' /\ OpenInside' /\ Uncommitted' /\ DdlProgress'
    BY <1>7, <1>8, <1>9 DEF Holder, OpenInside, Uncommitted, DdlProgress
  <1>. QED BY <1>10, <1>11 DEF IInv

(* A crash keeps the invariant: the database is what was committed.        *)
LEMMA CrashKeeps ==
    ASSUME IInv, Crash
    PROVE  IInv'
  <1>1. /\ crashes < MaxCrashes /\ crashes' = crashes + 1
        /\ db' = saved /\ saved' = saved /\ lock' = NULL /\ deployment' = deployment
        /\ cache' = [w \in Workers |-> NULL]
        /\ worker' = [w \in Workers |->
              IF worker[w].pc = "idle" THEN worker[w] ELSE [Idle EXCEPT !.n = worker[w].n]]
    BY DEF Crash
  <1>2. \A w \in Workers :
           /\ worker'[w] \in WorkerStates /\ worker'[w].pc = "idle"
           /\ worker'[w].n = worker[w].n /\ worker'[w].open = FALSE
    <2>. TAKE w \in Workers
    <2>1. worker[w] \in WorkerStates
      BY DEF IInv, TypeOK, WorkersOK
    <2>2. CASE worker[w].pc = "idle"
      <3>1. worker[w].open = FALSE
        BY <2>1, <2>2 DEF IInv, OpenInside, WorkerStates
      <3>. QED BY <1>1, <2>1, <2>2, <3>1
    <2>3. CASE worker[w].pc # "idle"
      <3>. DEFINE e == [Idle EXCEPT !.n = worker[w].n]
      <3>1. worker'[w] = e
        BY <1>1, <2>3
      <3>2. worker[w].n \in Nat
        BY <2>1 DEF WorkerStates
      <3>3. e \in WorkerStates /\ e.pc = "idle" /\ e.n = worker[w].n /\ e.open = FALSE
        BY <3>2, IdleType DEF WorkerStates
      <3>. HIDE DEF e
      <3>. QED BY <3>1, <3>3
    <2>. QED BY <2>2, <2>3
  <1>3. WorkersOK'
    <2>1. worker' \in [Workers -> WorkerStates]
      BY <1>1, <1>2
    <2>. QED BY <1>2, <2>1 DEF IInv, TypeOK, WorkersOK
  <1>4. TypeOK'
    <2>1. crashes' \in 0 .. MaxCrashes
      BY <1>1, DatabaseAssumption DEF IInv, TypeOK
    <2>2. cache' \in [Workers -> Schemas]
      BY <1>1 DEF Schemas
    <2>. QED BY <1>1, <1>3, <2>1, <2>2 DEF IInv, TypeOK
  <1>5. SchemaDescribesTable' /\ Uncommitted'
    BY <1>1 DEF IInv, SchemaDescribesTable, Uncommitted
  <1>6. Holder' /\ OpenInside' /\ DdlProgress'
    BY <1>2 DEF Holder, OpenInside, DdlProgress
  <1>. QED BY <1>4, <1>5, <1>6 DEF IInv

-----------------------------------------------------------------------------
(* Theorems.                                                               *)

(* The invariant holds at the start.                                       *)
LEMMA InitInv == Init => IInv
  <1>. SUFFICES ASSUME Init PROVE IInv
    OBVIOUS
  <1>1. Idle \in WorkerStates /\ Idle.pc = "idle" /\ Idle.open = FALSE /\ Idle.n = 0
    BY IdleType
  <1>2. worker = [w \in Workers |-> Idle]
    BY DEF Init
  <1>3. WorkersOK
    BY <1>1, <1>2, DatabaseAssumption DEF WorkersOK
  <1>4. saved \in Databases /\ SchemaDescribesTable /\ db = saved
    <2>1. db = saved /\ (saved = Empty \/ \E v \in Versions : saved = Ready(v))
      BY DEF Init
    <2>2. Empty \in Databases /\ Empty.meta = NULL
      <3>1. {} \in SUBSET Rows /\ {} \in SUBSET Ids /\ NULL \in Schemas
        BY DEF Schemas
      <3>. QED BY <3>1 DEF Empty, Databases
    <2>3. ASSUME NEW v \in Versions
          PROVE  Ready(v) \in Databases /\ Ready(v).table = v /\ Ready(v).meta = <<v, TRUE>>
      <3>1. <<v, TRUE>> \in Schemas
        BY DEF Schemas
      <3>. QED BY <2>2, <3>1 DEF Ready, Databases
    <2>4. saved \in Databases /\ (saved.meta # NULL => saved.table = saved.meta[1])
      <3>1. CASE saved = Empty
        BY <2>2, <3>1
      <3>2. ASSUME NEW v \in Versions, saved = Ready(v)
            PROVE  saved \in Databases /\ (saved.meta # NULL => saved.table = saved.meta[1])
        <4>1. <<v, TRUE>>[1] = v
          OBVIOUS
        <4>2. Ready(v) \in Databases /\ Ready(v).table = v /\ Ready(v).meta = <<v, TRUE>>
          BY <2>3
        <4>. QED BY <3>2, <4>1, <4>2
      <3>. QED BY <2>1, <3>1, <3>2
    <2>. QED BY <2>1, <2>4 DEF SchemaDescribesTable
  <1>5. TypeOK
    BY <1>3, <1>4, DatabaseAssumption DEF Init, TypeOK, Schemas
  <1>. QED BY <1>1, <1>2, <1>4, <1>5 DEF IInv, Holder, OpenInside, Uncommitted, DdlProgress

(* Every step keeps the invariant.                                         *)
LEMMA NextInv == IInv /\ [Next]_vars => IInv'
  <1>. SUFFICES ASSUME IInv, [Next]_vars PROVE IInv'
    OBVIOUS
  <1>1. CASE Crash
    BY <1>1, CrashKeeps
  <1>2. ASSUME NEW w \in Workers, Step(w) PROVE IInv'
    BY <1>2, BatchStartKeeps, BatchExecuteKeeps, InsertKeeps, UpdateKeeps, DeleteKeeps,
       QueryKeeps, SchemaGetKeeps, DdlCommitKeeps, DdlKeeps DEF Step, Operation
  <1>3. ASSUME NEW w \in Workers, NEW r \in Requests[w], FuncExec(w, r) PROVE IInv'
    BY <1>3, FuncExecKeeps
  <1>4. CASE UNCHANGED vars
    BY <1>4 DEF vars, IInv, TypeOK, WorkersOK, Holder, OpenInside, Uncommitted,
                SchemaDescribesTable, DdlProgress, Op
  <1>. QED BY <1>1, <1>2, <1>3, <1>4 DEF Next

(* IInv is an invariant of the specification.                              *)
THEOREM Invariance == Spec => []IInv
  <1>. QED BY InitInv, NextInv, PTL DEF Spec

(* Every variable has its type, and every operation gets one result.       *)
THEOREM TypeCorrect == Spec => []TypeOK
  <1>1. IInv => TypeOK
    BY DEF IInv
  <1>. QED BY <1>1, Invariance, PTL

(* Transactions never mix: what is not committed belongs to the one thread *)
(* that holds sql_backend_lock with a transaction open.                    *)
THEOREM Isolation == Spec => []OneTransaction
  <1>1. IInv => OneTransaction
    BY DEF IInv, Holder, Uncommitted, OneTransaction
  <1>. QED BY <1>1, Invariance, PTL

(* schema_structure never describes a table that is not there or another   *)
(* one, whenever the process crashes.                                      *)
THEOREM SchemaSafe == Spec => []SchemaDescribesTable
  <1>1. IInv => SchemaDescribesTable
    BY DEF IInv
  <1>. QED BY <1>1, Invariance, PTL

-----------------------------------------------------------------------------
(* What the exec functions report.                                         *)

(* What is not committed was done by the holder of the lock.               *)
Committed ==
    /\ saved.done \subseteq db.done
    /\ \A w \in Workers, n, k \in Nat :
          <<w, n, k>> \in db.done /\ <<w, n, k>> \notin saved.done => lock = w

(* Only what has been answered, in this list or an earlier one, was done.  *)
NotYetFor(w) ==
    \A n, k \in Nat : <<w, n, k>> \in db.done =>
        /\ n <= worker[w].n
        /\ n = worker[w].n /\ worker[w].pc # "idle" => k <= Len(worker[w].results)

(* On a server the results so far say what was done, and what was answered *)
(* before this operation is on disk; in process they say so if there was   *)
(* no error.                                                               *)
ReportedFor(w) ==
    worker[w].pc # "idle" =>
        \A k \in 1 .. Len(worker[w].results) :
            IF deployment = "server"
            THEN /\ worker[w].results[k] <=> <<w, worker[w].n, k>> \in db.done
                 /\ k < worker[w].i /\ <<w, worker[w].n, k>> \in db.done
                       => <<w, worker[w].n, k>> \in saved.done
            ELSE AllTrue(worker[w].results) => <<w, worker[w].n, k>> \in db.done

StoredFor(w) ==
    Finished(w) =>
        IF deployment = "server"
        THEN \A k \in DOMAIN worker[w].req.ops :
                worker[w].results[k] = (<<w, worker[w].n, k>> \in saved.done)
        ELSE worker[w].ret =>
                \A k \in DOMAIN worker[w].req.ops : <<w, worker[w].n, k>> \in saved.done

(* In process a batch ends with the last operation of the list.            *)
LastFor(w) == deployment = "local" /\ worker[w].pc = "end" => ~More(w)

TrueFor(w) == NotYetFor(w) /\ ReportedFor(w) /\ StoredFor(w) /\ LastFor(w)
Reports == Committed /\ \A w \in Workers : TrueFor(w)

(* Numbers of lists and operations.                                        *)
LEMMA NumberTypes ==
    ASSUME WorkersOK, NEW w \in Workers
    PROVE  /\ worker[w].n \in Nat /\ worker[w].i \in Nat
           /\ worker[w].results \in Seq(BOOLEAN) /\ Len(worker[w].results) \in Nat
           /\ worker[w].req # NULL => \A k \in DOMAIN worker[w].req.ops : k \in Nat
           /\ worker[w].pc # "idle" =>
                 Len(worker[w].results) = IF worker[w].pc = "end" THEN worker[w].i ELSE worker[w].i - 1
  <1>1. worker[w] \in WorkerStates
    BY DEF WorkersOK
  <1>2. worker[w].n \in Nat /\ worker[w].i \in Nat /\ worker[w].results \in Seq(BOOLEAN)
    BY <1>1 DEF WorkerStates
  <1>3. ASSUME worker[w].req # NULL, NEW k \in DOMAIN worker[w].req.ops PROVE k \in Nat
    <2>1. PICK u \in Workers : worker[w].req \in Requests[u]
      BY <1>1, <1>3 DEF WorkerStates
    <2>2. worker[w].req.ops \in Seq(Ops)
      BY <2>1, DatabaseAssumption
    <2>. QED BY <1>3, <2>2
  <1>4. Len(worker[w].results) \in Nat
    BY <1>2
  <1>. QED BY <1>2, <1>3, <1>4 DEF WorkersOK

(* A thread that does nothing, while what it has done stays as it is on    *)
(* disk.                                                                   *)
LEMMA Untouched ==
    ASSUME WorkersOK, Committed, NEW u \in Workers, lock # u,
           worker'[u] = worker[u], deployment' = deployment,
           \A n, k \in Nat : /\ <<u, n, k>> \in db'.done <=> <<u, n, k>> \in saved.done
                             /\ <<u, n, k>> \in saved'.done <=> <<u, n, k>> \in saved.done,
           TrueFor(u)
    PROVE  TrueFor(u)'
  <1>1. \A n, k \in Nat : <<u, n, k>> \in db.done <=> <<u, n, k>> \in saved.done
    BY DEF Committed
  <1>2. /\ worker[u].n \in Nat /\ Len(worker[u].results) \in Nat
        /\ worker[u].req # NULL => \A k \in DOMAIN worker[u].req.ops : k \in Nat
    BY NumberTypes
  <1>3. NotYetFor(u)'
    BY <1>1 DEF TrueFor, NotYetFor
  <1>4. ReportedFor(u)'
    <2>1. SUFFICES ASSUME worker[u].pc # "idle", NEW k \in 1 .. Len(worker[u].results)
                   PROVE  IF deployment = "server"
                          THEN /\ worker[u].results[k] <=> <<u, worker[u].n, k>> \in db'.done
                               /\ k < worker[u].i /\ <<u, worker[u].n, k>> \in db'.done
                                     => <<u, worker[u].n, k>> \in saved'.done
                          ELSE AllTrue(worker[u].results) => <<u, worker[u].n, k>> \in db'.done
      BY DEF ReportedFor
    <2>2. k \in Nat
      BY <1>2, <2>1
    <2>3. /\ <<u, worker[u].n, k>> \in db.done <=> <<u, worker[u].n, k>> \in saved.done
          /\ <<u, worker[u].n, k>> \in db'.done <=> <<u, worker[u].n, k>> \in saved.done
          /\ <<u, worker[u].n, k>> \in saved'.done <=> <<u, worker[u].n, k>> \in saved.done
      BY <1>1, <1>2, <2>2
    <2>4. IF deployment = "server"
          THEN /\ worker[u].results[k] <=> <<u, worker[u].n, k>> \in db.done
               /\ k < worker[u].i /\ <<u, worker[u].n, k>> \in db.done
                     => <<u, worker[u].n, k>> \in saved.done
          ELSE AllTrue(worker[u].results) => <<u, worker[u].n, k>> \in db.done
      BY <2>1 DEF TrueFor, ReportedFor
    <2>. QED BY <2>3, <2>4
  <1>5. StoredFor(u)'
    <2>1. \A k \in DOMAIN worker[u].req.ops :
             worker[u].req # NULL =>
                (<<u, worker[u].n, k>> \in saved'.done <=> <<u, worker[u].n, k>> \in saved.done)
      BY <1>2
    <2>2. \A k \in DOMAIN worker[u].req.ops :
             worker[u].req # NULL =>
                (<<u, worker[u].n, k>> \in saved'.done) = (<<u, worker[u].n, k>> \in saved.done)
      BY <2>1
    <2>. QED BY <2>2 DEF TrueFor, StoredFor, Finished
  <1>6. LastFor(u)'
    BY DEF TrueFor, LastFor, More
  <1>. QED BY <1>3, <1>4, <1>5, <1>6 DEF TrueFor

(* An operation is answered: one more result, everything else of the list  *)
(* stays.                                                                  *)
LEMMA AnsweredResults ==
    ASSUME WorkersOK, NEW w \in Workers, NEW ok, NEW open, NEW rows, Answered(w, ok, open, rows)
    PROVE  /\ worker'[w].n = worker[w].n /\ worker'[w].req = worker[w].req
           /\ worker'[w].pc \in {"op", "end"}
           /\ worker'[w].i = worker[w].i \/ (deployment = "local" /\ worker'[w].i = worker[w].i + 1)
           /\ deployment = "local" /\ worker'[w].pc = "end" => ~More(w) /\ worker'[w].i = worker[w].i
           /\ worker'[w].results = Append(worker[w].results, ok)
           /\ \A u \in Workers \ {w} : worker'[u] = worker[u]
  <1>1. worker \in [Workers -> WorkerStates]
    BY DEF WorkersOK
  <1>2. worker[w] \in WorkerStates
    BY <1>1
  <1>. QED BY <1>1, <1>2 DEF Answered, NextOperation, WorkerStates

(* The results after one more.                                             *)
LEMMA OneMoreResult ==
    ASSUME NEW results \in Seq(BOOLEAN), NEW ok \in BOOLEAN, NEW n \in Nat, n = Len(results)
    PROVE  /\ Len(Append(results, ok)) = n + 1 /\ Append(results, ok)[n + 1] = ok
           /\ \A k \in 1 .. n : Append(results, ok)[k] = results[k]
           /\ AllTrue(Append(results, ok)) => AllTrue(results) /\ ok
  <1>1. /\ Len(Append(results, ok)) = n + 1 /\ Append(results, ok)[n + 1] = ok
        /\ \A k \in 1 .. n : Append(results, ok)[k] = results[k]
        /\ DOMAIN results = 1 .. n /\ DOMAIN Append(results, ok) = 1 .. n + 1
    OBVIOUS
  <1>2. AllTrue(Append(results, ok)) => AllTrue(results) /\ ok
    <2>1. n + 1 \in 1 .. n + 1 /\ \A k \in 1 .. n : k \in 1 .. n + 1
      OBVIOUS
    <2>. QED BY <1>1, <2>1, Zenon DEF AllTrue
  <1>. QED BY <1>1, <1>2

(* The end of an operation keeps the reports true: it succeeds and is      *)
(* done, or fails and at most takes back what was not committed.           *)
LEMMA AnsweredReports ==
    ASSUME IInv, Reports, NEW w \in Workers, worker[w].pc \in {"op"} \cup DdlPcs,
           NEW ok \in BOOLEAN, NEW open \in BOOLEAN, NEW rows, Answered(w, ok, open, rows),
           lock' = lock, deployment' = deployment,
           ok => db'.done = db.done \cup {OpId(w)},
           ~ok => db'.done = db.done \/ db'.done = saved.done,
           saved'.done = saved.done \/ saved'.done = db'.done
    PROVE  Reports'
  <1>1. lock = w /\ WorkersOK /\ worker[w].pc \notin {"idle", "start", "end"}
    BY Alone DEF IInv, TypeOK, DdlPcs
  <1>2. PICK n \in Nat, l \in Nat, results \in Seq(BOOLEAN) :
             /\ n = worker[w].n /\ results = worker[w].results /\ l = Len(results)
             /\ worker[w].i = l + 1
    BY <1>1, NumberTypes
  <1>3. OpId(w) = <<w, n, l + 1>>
    BY <1>2 DEF OpId
  <1>4. /\ worker'[w].n = n /\ worker'[w].pc \in {"op", "end"}
        /\ worker'[w].i = l + 1 \/ (deployment = "local" /\ worker'[w].i = l + 2)
        /\ worker'[w].results = Append(results, ok)
        /\ \A u \in Workers \ {w} : worker'[u] = worker[u]
    <2>1. /\ worker'[w].n = worker[w].n /\ worker'[w].pc \in {"op", "end"}
          /\ worker'[w].i = worker[w].i \/ (deployment = "local" /\ worker'[w].i = worker[w].i + 1)
          /\ worker'[w].results = Append(worker[w].results, ok)
          /\ \A u \in Workers \ {w} : worker'[u] = worker[u]
      BY <1>1, AnsweredResults
    <2>. QED BY <1>2, <2>1
  <1>5. PICK new \in Seq(BOOLEAN) :
             /\ new = Append(results, ok) /\ Len(new) = l + 1 /\ new[l + 1] = ok
             /\ \A k \in 1 .. l : new[k] = results[k]
             /\ AllTrue(new) => AllTrue(results) /\ ok
    <2>1. Append(results, ok) \in Seq(BOOLEAN)
      OBVIOUS
    <2>2. /\ Len(Append(results, ok)) = l + 1 /\ Append(results, ok)[l + 1] = ok
          /\ \A k \in 1 .. l : Append(results, ok)[k] = results[k]
          /\ AllTrue(Append(results, ok)) => AllTrue(results) /\ ok
      <3>1. l \in Nat /\ l = Len(results) /\ results \in Seq(BOOLEAN) /\ ok \in BOOLEAN
        BY <1>2
      <3>. QED BY ONLY <3>1, OneMoreResult
    <2>. QED BY <2>1, <2>2, Zenon
  <1>6. saved.done \subseteq db.done
    BY DEF Reports, Committed
  <1>7. saved'.done \subseteq db'.done
    <2>1. saved.done \subseteq db'.done
      BY <1>6
    <2>. QED BY <2>1
  <1>8. ASSUME NEW u \in Workers \ {w}, NEW m \in Nat, NEW k \in Nat
        PROVE  /\ <<u, m, k>> \in db'.done <=> <<u, m, k>> \in saved.done
               /\ <<u, m, k>> \in saved'.done <=> <<u, m, k>> \in saved.done
    <2>1. <<u, m, k>> \in db.done <=> <<u, m, k>> \in saved.done
      BY <1>1, <1>6 DEF Reports, Committed
    <2>2. <<u, m, k>> # OpId(w)
      BY <1>3
    <2>. QED BY <2>1, <2>2
  <1>9. Committed'
    <2>1. ASSUME NEW u \in Workers, NEW m \in Nat, NEW k \in Nat,
                 <<u, m, k>> \in db'.done, <<u, m, k>> \notin saved'.done
          PROVE  lock' = u
      BY <1>1, <1>8, <2>1
    <2>. QED BY <1>7, <2>1 DEF Committed
  <1>10. ASSUME NEW u \in Workers \ {w} PROVE TrueFor(u)'
    <2>1. Committed /\ TrueFor(u)
      BY DEF Reports
    <2>. QED BY <1>1, <1>4, <1>8, <2>1, Untouched
  <1>11. NotYetFor(w)'
    <2>1. ASSUME NEW m \in Nat, NEW k \in Nat, <<w, m, k>> \in db'.done
          PROVE  m <= n /\ (m = n => k <= l + 1)
      <3>1. CASE <<w, m, k>> \in db.done
        <4>1. m <= n /\ (m = n => k <= l)
          BY <1>1, <1>2, <3>1 DEF Reports, TrueFor, NotYetFor
        <4>. QED BY <4>1
      <3>2. CASE <<w, m, k>> = OpId(w)
        BY <1>3, <3>2
      <3>. QED BY <1>6, <2>1, <3>1, <3>2
    <2>2. worker'[w].n = n /\ Len(worker'[w].results) = l + 1
      BY <1>4, <1>5
    <2>. QED BY <2>1, <2>2 DEF NotYetFor
  <1>12. ReportedFor(w)'
    <2>1. SUFFICES ASSUME NEW k \in 1 .. l + 1
                   PROVE  IF deployment = "server"
                          THEN /\ new[k] <=> <<w, n, k>> \in db'.done
                               /\ k < worker'[w].i /\ <<w, n, k>> \in db'.done => <<w, n, k>> \in saved'.done
                          ELSE AllTrue(new) => <<w, n, k>> \in db'.done
      <3>1. worker'[w].results = new /\ Len(new) = l + 1 /\ worker'[w].n = n
        BY <1>4, <1>5
      <3>. QED BY <3>1 DEF ReportedFor
    <2>2. k \in Nat /\ (k # l + 1 => k \in 1 .. l /\ k < l + 1)
      OBVIOUS
    <2>3. <<w, n, k>> = OpId(w) <=> k = l + 1
      BY <1>3
    <2>4. CASE k = l + 1
      <3>1. <<w, n, k>> \notin db.done
        <4>1. ~(l + 1 <= l)
          OBVIOUS
        <4>. QED BY <1>1, <1>2, <2>4, <4>1 DEF Reports, TrueFor, NotYetFor
      <3>2. ok <=> <<w, n, k>> \in db'.done
        BY <1>6, <2>3, <2>4, <3>1
      <3>3. new[k] = ok /\ (AllTrue(new) => ok)
        BY <1>5, <2>4
      <3>4. deployment = "server" => ~(k < worker'[w].i)
        BY <1>4, <2>4
      <3>. QED BY <3>2, <3>3, <3>4
    <2>5. CASE k # l + 1
      <3>1. k \in 1 .. l /\ k < worker[w].i /\ new[k] = results[k]
        BY <1>2, <1>5, <2>2, <2>5
      <3>2. IF deployment = "server"
            THEN /\ results[k] <=> <<w, n, k>> \in db.done
                 /\ <<w, n, k>> \in db.done => <<w, n, k>> \in saved.done
            ELSE AllTrue(results) => <<w, n, k>> \in db.done
        BY <1>1, <1>2, <3>1 DEF Reports, TrueFor, ReportedFor
      <3>3. CASE deployment = "server"
        <4>1. <<w, n, k>> \in db'.done <=> <<w, n, k>> \in db.done
          BY <1>6, <2>3, <2>5, <3>2, <3>3
        <4>2. <<w, n, k>> \in db.done => <<w, n, k>> \in saved'.done
          BY <1>6, <3>2, <3>3, <4>1
        <4>. QED BY <3>1, <3>2, <3>3, <4>1, <4>2
      <3>4. CASE deployment # "server"
        BY <1>5, <3>2, <3>4
      <3>. QED BY <3>3, <3>4
    <2>. QED BY <2>4, <2>5
  <1>13. StoredFor(w)'
    BY <1>4 DEF StoredFor, Finished
  <1>14. LastFor(w)'
    BY <1>1, AnsweredResults DEF LastFor, More
  <1>. QED BY <1>9, <1>10, <1>11, <1>12, <1>13, <1>14 DEF Reports, TrueFor

(* A step within an operation keeps the reports true.                      *)
LEMMA WithinReports ==
    ASSUME IInv, Reports, NEW w \in Workers, worker[w].pc # "idle", worker'[w].pc \notin {"idle", "end"},
           lock \in {NULL, w}, lock' = w, deployment' = deployment,
           worker'[w].n = worker[w].n, worker'[w].i = worker[w].i,
           worker'[w].results = worker[w].results,
           \A u \in Workers \ {w} : worker'[u] = worker[u],
           db'.done = db.done, saved'.done = saved.done \/ saved'.done = db.done
    PROVE  Reports'
  <1>1. /\ WorkersOK /\ Committed /\ \A u \in Workers : u # NULL
        /\ \A u \in Workers \ {w} : lock # u
    BY DatabaseAssumption DEF IInv, TypeOK, Reports
  <1>2. ASSUME NEW u \in Workers \ {w}, NEW n \in Nat, NEW k \in Nat
        PROVE  /\ <<u, n, k>> \in db'.done <=> <<u, n, k>> \in saved.done
               /\ <<u, n, k>> \in saved'.done <=> <<u, n, k>> \in saved.done
    BY <1>1 DEF Committed
  <1>3. Committed'
    <2>1. ASSUME NEW u \in Workers, NEW n \in Nat, NEW k \in Nat,
                 <<u, n, k>> \in db'.done, <<u, n, k>> \notin saved'.done
          PROVE  lock' = u
      BY <1>2, <2>1
    <2>2. saved'.done \subseteq db'.done
      BY <1>1 DEF Committed
    <2>. QED BY <2>1, <2>2 DEF Committed
  <1>4. ASSUME NEW u \in Workers \ {w} PROVE TrueFor(u)'
    <2>1. TrueFor(u)
      BY DEF Reports
    <2>. QED BY <1>1, <1>2, <2>1, Untouched
  <1>5. NotYetFor(w)' /\ StoredFor(w)' /\ LastFor(w)'
    BY DEF Reports, TrueFor, NotYetFor, StoredFor, Finished, LastFor
  <1>6. ReportedFor(w)'
    <2>1. saved.done \subseteq saved'.done
      BY <1>1 DEF Committed
    <2>. QED BY <2>1 DEF Reports, TrueFor, ReportedFor
  <1>. QED BY <1>3, <1>4, <1>5, <1>6 DEF Reports, TrueFor

(* A list arrives: nothing of it was done.                                 *)
LEMMA FuncExecReports ==
    ASSUME IInv, Reports, NEW w \in Workers, NEW r \in Requests[w], FuncExec(w, r)
    PROVE  Reports'
  <1>1. WorkersOK /\ worker \in [Workers -> WorkerStates] /\ Committed
    BY DEF IInv, TypeOK, WorkersOK, Reports
  <1>2. PICK n \in Nat : n = worker[w].n
    BY <1>1, NumberTypes
  <1>3. /\ worker[w].pc = "idle" /\ UNCHANGED <<deployment, db, saved, lock>>
        /\ worker'[w] = [Idle EXCEPT !.pc = "start", !.n = worker[w].n + 1, !.req = r, !.i = 1]
        /\ \A u \in Workers \ {w} : worker'[u] = worker[u]
    BY <1>1 DEF FuncExec
  <1>4. worker'[w].pc = "start" /\ worker'[w].n = n + 1 /\ worker'[w].results = <<>>
    BY <1>2, <1>3 DEF Idle
  <1>5. Committed'
    BY <1>1, <1>3 DEF Committed
  <1>6. ASSUME NEW u \in Workers \ {w} PROVE TrueFor(u)'
    <2>1. TrueFor(u) /\ worker'[u] = worker[u]
      BY <1>3 DEF Reports
    <2>2. db' = db /\ saved' = saved /\ deployment' = deployment
      BY <1>3
    <2>3. NotYetFor(u)'
      BY <2>1, <2>2 DEF TrueFor, NotYetFor
    <2>4. ReportedFor(u)'
      BY <2>1, <2>2 DEF TrueFor, ReportedFor
    <2>5. StoredFor(u)' /\ LastFor(u)'
      BY <2>1, <2>2 DEF TrueFor, StoredFor, Finished, LastFor, More
    <2>. QED BY <2>3, <2>4, <2>5 DEF TrueFor
  <1>7. NotYetFor(w)'
    <2>1. \A m, k \in Nat : <<w, m, k>> \in db.done => m <= n
      BY <1>2 DEF Reports, TrueFor, NotYetFor
    <2>2. \A m \in Nat : m <= n => m <= n + 1 /\ m # n + 1
      OBVIOUS
    <2>. QED BY <1>3, <1>4, <2>1, <2>2 DEF NotYetFor
  <1>8. ReportedFor(w)' /\ StoredFor(w)' /\ LastFor(w)'
    <2>1. \A k \in 1 .. Len(worker'[w].results) : FALSE
      BY <1>4
    <2>. QED BY <1>4, <2>1 DEF ReportedFor, StoredFor, Finished, LastFor
  <1>. QED BY <1>5, <1>6, <1>7, <1>8 DEF Reports, TrueFor

(* The end of a batch: what was done is on disk, and the last one ends the *)
(* list.                                                                   *)
LEMMA BatchExecuteReports ==
    ASSUME IInv, Reports, NEW w \in Workers, BatchExecute(w)
    PROVE  Reports'
  <1>1. /\ WorkersOK /\ worker \in [Workers -> WorkerStates] /\ Committed /\ worker[w].pc = "end"
        /\ UNCHANGED <<deployment, db>> /\ lock' = NULL
    BY DEF IInv, TypeOK, WorkersOK, Reports, BatchExecute, Unlock
  <1>2. lock = w /\ saved' = db
    BY <1>1, Alone DEF BatchExecute, Commit
  <1>3. PICK n \in Nat, l \in Nat, results \in Seq(BOOLEAN) :
             /\ n = worker[w].n /\ results = worker[w].results /\ l = Len(results)
             /\ worker[w].i = l
    BY <1>1, NumberTypes
  <1>4. /\ worker[w].req.ops \in Seq(Ops) /\ l \in 1 .. Len(worker[w].req.ops)
    BY <1>1, <1>3, OpType
  <1>5. /\ \A u \in Workers \ {w} : worker'[u] = worker[u]
        /\ worker'[w].n = n /\ worker'[w].results = results /\ worker'[w].req = worker[w].req
        /\ \/ worker'[w].pc = "start" /\ worker'[w].i = l + 1
           \/ /\ worker'[w].pc = "idle" /\ ~(deployment = "server" /\ More(w))
              /\ worker'[w].ret = (AllTrue(results) /\ (deployment = "local" => worker[w].open))
    <2>1. worker[w] \in WorkerStates
      BY <1>1
    <2>2. CASE deployment = "server" /\ More(w)
      <3>1. worker' = [worker EXCEPT ![w] =
                [worker[w] EXCEPT !.pc = "start", !.i = worker[w].i + 1, !.open = FALSE]]
        BY <2>2, Zenon DEF BatchExecute
      <3>. QED BY <1>1, <1>3, <2>1, <3>1 DEF WorkerStates
    <2>3. CASE ~(deployment = "server" /\ More(w))
      <3>. DEFINE ret == AllTrue(worker[w].results) /\ (deployment = "local" => worker[w].open)
      <3>1. worker' = [worker EXCEPT ![w] =
                [worker[w] EXCEPT !.pc = "idle", !.open = FALSE, !.ret = ret]]
        BY <2>3, Zenon DEF BatchExecute
      <3>2. ret = (AllTrue(results) /\ (deployment = "local" => worker[w].open))
        BY <1>3
      <3>. HIDE DEF ret
      <3>3. /\ \A u \in Workers \ {w} : worker'[u] = worker[u]
            /\ worker'[w].n = n /\ worker'[w].results = results /\ worker'[w].req = worker[w].req
            /\ worker'[w].pc = "idle" /\ worker'[w].ret = ret
        BY <1>1, <1>3, <2>1, <3>1 DEF WorkerStates
      <3>. QED BY <2>3, <3>2, <3>3
    <2>. QED BY <2>2, <2>3
  <1>6. Committed'
    BY <1>1, <1>2 DEF Committed
  <1>7. ASSUME NEW u \in Workers \ {w} PROVE TrueFor(u)'
    <2>1. \A m, k \in Nat : <<u, m, k>> \in db.done <=> <<u, m, k>> \in saved.done
      BY <1>1, <1>2 DEF Committed
    <2>2. TrueFor(u)
      BY DEF Reports
    <2>. QED BY <1>1, <1>2, <1>5, <2>1, <2>2, Untouched
  <1>8. \A k \in 1 .. l :
           IF deployment = "server" THEN results[k] <=> <<w, n, k>> \in db.done
           ELSE AllTrue(results) => <<w, n, k>> \in db.done
    BY <1>1, <1>3 DEF Reports, TrueFor, ReportedFor
  <1>9. NotYetFor(w)'
    <2>1. \A m, k \in Nat : <<w, m, k>> \in db.done => m <= n /\ (m = n => k <= l)
      BY <1>1, <1>3 DEF Reports, TrueFor, NotYetFor
    <2>. QED BY <1>1, <1>3, <1>5, <2>1 DEF NotYetFor
  <1>10. ReportedFor(w)'
    <2>1. \A k \in 1 .. Len(worker'[w].results) :
             IF deployment = "server"
             THEN /\ worker'[w].results[k] <=> <<w, worker'[w].n, k>> \in db'.done
                  /\ k < worker'[w].i /\ <<w, worker'[w].n, k>> \in db'.done
                        => <<w, worker'[w].n, k>> \in saved'.done
             ELSE AllTrue(worker'[w].results) => <<w, worker'[w].n, k>> \in db'.done
      BY <1>1, <1>2, <1>3, <1>5, <1>8
    <2>. QED BY <1>1, <2>1 DEF ReportedFor
  <1>11. StoredFor(w)'
    <2>1. SUFFICES ASSUME worker'[w].pc = "idle"
                   PROVE  IF deployment = "server"
                          THEN \A k \in DOMAIN worker[w].req.ops : results[k] = (<<w, n, k>> \in db.done)
                          ELSE worker'[w].ret => \A k \in DOMAIN worker[w].req.ops : <<w, n, k>> \in db.done
      BY <1>1, <1>2, <1>5 DEF StoredFor, Finished
    <2>2. DOMAIN worker[w].req.ops = 1 .. l
      <3>1. ~More(w)
        <4>1. deployment \in {"local", "server"}
          BY DatabaseAssumption DEF IInv, TypeOK
        <4>2. CASE deployment = "server"
          BY <1>5, <2>1, <4>2
        <4>3. CASE deployment = "local"
          BY <1>1, <4>3 DEF Reports, TrueFor, LastFor
        <4>. QED BY <4>1, <4>2, <4>3
      <3>2. ~(l < Len(worker[w].req.ops))
        BY <1>3, <3>1 DEF More
      <3>. QED BY <1>4, <3>2
    <2>3. CASE deployment = "server"
      <3>1. ASSUME NEW k \in 1 .. l PROVE results[k] = (<<w, n, k>> \in db.done)
        <4>1. results[k] \in BOOLEAN
          BY <1>3
        <4>2. results[k] <=> <<w, n, k>> \in db.done
          BY <1>8, <2>3
        <4>. QED BY <4>1, <4>2
      <3>. QED BY <2>2, <2>3, <3>1
    <2>4. CASE deployment # "server"
      BY <1>5, <1>8, <2>1, <2>2, <2>4
    <2>. QED BY <2>3, <2>4
  <1>12. LastFor(w)'
    BY <1>5 DEF LastFor
  <1>. QED BY <1>6, <1>7, <1>9, <1>10, <1>11, <1>12 DEF Reports, TrueFor

(* A crash takes back what was not committed and forgets the lists.        *)
LEMMA CrashReports == ASSUME IInv, Reports, Crash PROVE Reports'
  <1>1. /\ db' = saved /\ saved' = saved /\ deployment' = deployment
        /\ worker' = [w \in Workers |->
              IF worker[w].pc = "idle" THEN worker[w] ELSE [Idle EXCEPT !.n = worker[w].n]]
    BY DEF Crash
  <1>2. Committed'
    BY <1>1 DEF Committed
  <1>3. ASSUME NEW w \in Workers PROVE TrueFor(w)'
    <2>1. /\ worker'[w].pc = "idle" /\ worker'[w].n = worker[w].n
          /\ worker'[w].req # NULL => worker[w].pc = "idle" /\ worker'[w] = worker[w]
      BY <1>1 DEF Idle
    <2>2. TrueFor(w) /\ saved.done \subseteq db.done
      BY DEF Reports, Committed
    <2>3. NotYetFor(w)'
      BY <1>1, <2>1, <2>2 DEF TrueFor, NotYetFor
    <2>4. StoredFor(w)'
      BY <1>1, <2>1, <2>2 DEF TrueFor, StoredFor, Finished
    <2>5. ReportedFor(w)' /\ LastFor(w)'
      BY <2>1 DEF ReportedFor, LastFor
    <2>. QED BY <2>3, <2>4, <2>5 DEF TrueFor
  <1>. QED BY <1>2, <1>3 DEF Reports

(* What the operations on data do to done.                                 *)
LEMMA DataReports ==
    ASSUME IInv, Reports, NEW w \in Workers,
           Insert(w) \/ Update(w) \/ Delete(w) \/ Query(w) \/ SchemaGet(w)
    PROVE  Reports'
  <1>1. /\ worker[w].pc = "op" /\ lock' = lock /\ deployment' = deployment
        /\ worker[w].open \in BOOLEAN /\ db \in Databases
    BY DEF Insert, Update, Delete, Query, SchemaGet, Runs, IInv, TypeOK, WorkersOK, WorkerStates
  <1>2. worker[w].pc \in {"op"} \cup DdlPcs /\ TRUE \in BOOLEAN /\ FALSE \in BOOLEAN
    BY <1>1
  <1>3. ASSUME NEW d \in Databases, d.done = db.done, NEW rows, Succeed(w, d, rows)
        PROVE  Reports'
    <2>1. Answered(w, TRUE, worker[w].open, rows) /\ (saved' = saved \/ saved' = db')
      BY <1>3 DEF Succeed
    <2>2. db'.done = db.done \cup {OpId(w)}
      BY <1>3 DEF Succeed, Databases
    <2>. QED BY <1>1, <1>2, <2>1, <2>2, AnsweredReports
  <1>4. ASSUME Abort(w) PROVE Reports'
    <2>1. Answered(w, FALSE, FALSE, {}) /\ saved' = saved /\ db' = saved
      BY <1>4 DEF Abort
    <2>. QED BY <1>1, <1>2, <2>1, AnsweredReports
  <1>5. ASSUME Fail(w) PROVE Reports'
    <2>1. Answered(w, FALSE, worker[w].open, {}) /\ saved' = saved /\ db' = db
      BY <1>5 DEF Fail
    <2>. QED BY <1>1, <1>2, <2>1, AnsweredReports
  <1>6. \A rows : [db EXCEPT !.rows = rows].done = db.done
    BY <1>1 DEF Databases
  <1>7. CASE Insert(w)
    <2>1. Succeed(w, [db EXCEPT !.rows = Inserted(w)], {}) \/ Abort(w)
      BY <1>7 DEF Insert
    <2>2. [db EXCEPT !.rows = Inserted(w)] \in Databases
      <3>1. Op(w).v \in Values /\ OpId(w) \in Ids
        BY <1>1, OpType DEF IInv, TypeOK, Ops
      <3>2. Inserted(w) \in SUBSET Rows
        BY <1>1, <3>1 DEF Inserted, Rows, Databases
      <3>. QED BY <3>2, RowsType
    <2>. QED BY <1>3, <1>4, <1>6, <2>1, <2>2
  <1>8. CASE Update(w)
    <2>1. Succeed(w, [db EXCEPT !.rows = Updated(w)], {}) \/ Abort(w)
      BY <1>8 DEF Update
    <2>2. [db EXCEPT !.rows = Updated(w)] \in Databases
      <3>1. Op(w).to \in Values /\ OpId(w) \in Ids
        BY <1>1, OpType DEF IInv, TypeOK, Ops
      <3>2. db.rows \subseteq Rows /\ Matches(w) \subseteq Rows
        BY <1>1 DEF Matches, Databases
      <3>3. \A row \in Matches(w) : [row EXCEPT !.v = Op(w).to, !.by = OpId(w)] \in Rows
        BY <3>1, <3>2 DEF Rows
      <3>4. Updated(w) \in SUBSET Rows
        BY <3>2, <3>3 DEF Updated
      <3>. QED BY <3>4, RowsType
    <2>. QED BY <1>3, <1>4, <1>6, <2>1, <2>2
  <1>9. CASE Delete(w)
    <2>1. Succeed(w, [db EXCEPT !.rows = db.rows \ Matches(w)], {}) \/ Abort(w)
      BY <1>9 DEF Delete
    <2>2. [db EXCEPT !.rows = db.rows \ Matches(w)] \in Databases
      <3>1. db.rows \ Matches(w) \in SUBSET Rows
        BY <1>1 DEF Databases
      <3>. QED BY <3>1, RowsType
    <2>. QED BY <1>3, <1>4, <1>6, <2>1, <2>2
  <1>10. CASE Query(w)
    BY <1>1, <1>3, <1>5, <1>10 DEF Query
  <1>11. CASE SchemaGet(w)
    BY <1>1, <1>3, <1>4, <1>11 DEF SchemaGet
  <1>. QED BY <1>7, <1>8, <1>9, <1>10, <1>11

(* What the statements of a schema change do to done: only the last one,   *)
(* which commits by itself, counts.                                        *)
LEMMA DdlReports ==
    ASSUME IInv, Reports, NEW w \in Workers,
           \/ DdlCommit(w) \/ CreateTable(w) \/ ListId(w) \/ ListFields(w) \/ Unlist(w) \/ DropTable(w)
    PROVE  Reports'
  <1>1. worker[w] \in WorkerStates /\ worker \in [Workers -> WorkerStates] /\ db \in Databases
    BY DEF IInv, TypeOK, WorkersOK
  <1>2. ASSUME NEW from \in DdlPcs, NEW to \in DdlPcs, NEW d, d.done = db.done, DdlStatement(w, from, to, d)
        PROVE  Reports'
    <2>1. /\ worker[w].pc = from /\ db' = d /\ saved' = d /\ lock' = lock /\ deployment' = deployment
          /\ worker' = [worker EXCEPT ![w].pc = to]
      BY <1>2 DEF DdlStatement
    <2>2. from \notin {"idle", "start"} /\ to \notin {"idle", "end"}
      BY DEF DdlPcs
    <2>3. lock = w
      BY <2>1, <2>2, Alone
    <2>4. /\ worker'[w].pc = to /\ worker'[w].n = worker[w].n /\ worker'[w].i = worker[w].i
          /\ worker'[w].results = worker[w].results /\ \A u \in Workers \ {w} : worker'[u] = worker[u]
      BY <1>1, <2>1 DEF WorkerStates
    <2>. QED BY <1>2, <2>1, <2>2, <2>3, <2>4, WithinReports
  <1>3. ASSUME NEW from \in DdlPcs, NEW ok \in BOOLEAN, NEW d, DdlEnd(w, from, d, ok),
               d.done = IF ok THEN db.done \cup {OpId(w)} ELSE db.done
        PROVE  Reports'
    <2>1. /\ worker[w].pc = from /\ db' = d /\ saved' = d /\ lock' = lock /\ deployment' = deployment
          /\ Answered(w, ok, TRUE, {})
      BY <1>3 DEF DdlEnd
    <2>2. ok => db'.done = db.done \cup {OpId(w)}
      BY <1>3, <2>1
    <2>3. ~ok => db'.done = db.done
      BY <1>3, <2>1
    <2>. QED BY <2>1, <2>2, <2>3, AnsweredReports
  <1>4. \A p \in {"table", "list", "fields", "unlist", "drop"} : p \in DdlPcs
    BY DEF DdlPcs
  <1>5. CASE DdlCommit(w)
    <2>. DEFINE to == IF worker[w].req.type = "SCHEMA_CREATE" THEN "table" ELSE "unlist"
    <2>1. /\ worker[w].pc = "op" /\ db' = db /\ saved' = db /\ lock' = lock /\ deployment' = deployment
          /\ worker' = [worker EXCEPT ![w].pc = to, ![w].open = FALSE]
      BY <1>5 DEF DdlCommit
    <2>2. to \notin {"idle", "end"}
      OBVIOUS
    <2>. HIDE DEF to
    <2>3. lock = w
      BY <2>1, Alone
    <2>4. /\ worker'[w].pc = to /\ worker'[w].n = worker[w].n /\ worker'[w].i = worker[w].i
          /\ worker'[w].results = worker[w].results /\ \A u \in Workers \ {w} : worker'[u] = worker[u]
      BY <1>1, <2>1 DEF WorkerStates
    <2>. QED BY <2>1, <2>2, <2>3, <2>4, WithinReports
  <1>6. CASE CreateTable(w)
    <2>1. CASE db.table = NULL
      <3>1. [db EXCEPT !.table = Op(w).version, !.rows = {}].done = db.done
        BY <1>1 DEF Databases
      <3>. QED BY <1>2, <1>4, <1>6, <2>1, <3>1 DEF CreateTable
    <2>2. CASE db.table # NULL
      <3>1. DdlEnd(w, "table", db, FALSE) /\ FALSE \in BOOLEAN
        BY <1>6, <2>2 DEF CreateTable
      <3>. QED BY <1>3, <1>4, <3>1
    <2>. QED BY <2>1, <2>2
  <1>7. CASE ListId(w)
    <2>1. [db EXCEPT !.meta = <<Op(w).version, FALSE>>].done = db.done
      BY <1>1 DEF Databases
    <2>. QED BY <1>2, <1>4, <1>7, <2>1 DEF ListId
  <1>8. CASE ListFields(w)
    <2>. DEFINE d == [db EXCEPT !.meta = <<Op(w).version, TRUE>>, !.done = @ \cup {OpId(w)}]
    <2>1. d.done = db.done \cup {OpId(w)}
      BY <1>1 DEF Databases
    <2>2. DdlEnd(w, "fields", d, TRUE) /\ TRUE \in BOOLEAN
      BY <1>8 DEF ListFields
    <2>. HIDE DEF d
    <2>. QED BY <1>3, <1>4, <2>1, <2>2
  <1>9. CASE Unlist(w)
    <2>1. [db EXCEPT !.meta = NULL].done = db.done
      BY <1>1 DEF Databases
    <2>. QED BY <1>2, <1>4, <1>9, <2>1 DEF Unlist
  <1>10. CASE DropTable(w)
    <2>. DEFINE d == [db EXCEPT !.table = NULL, !.rows = {}, !.done = @ \cup {OpId(w)}]
    <2>1. d.done = db.done \cup {OpId(w)}
      BY <1>1 DEF Databases
    <2>2. DdlEnd(w, "drop", d, TRUE) /\ TRUE \in BOOLEAN
      BY <1>10 DEF DropTable
    <2>. HIDE DEF d
    <2>. QED BY <1>3, <1>4, <2>1, <2>2
  <1>. QED BY <1>5, <1>6, <1>7, <1>8, <1>9, <1>10

(* A batch begins: the lock was free.                                      *)
LEMMA BatchStartReports == ASSUME IInv, Reports, NEW w \in Workers, BatchStart(w) PROVE Reports'
  <1>1. /\ worker[w].pc = "start" /\ lock = NULL /\ lock' = w
        /\ UNCHANGED <<deployment, db, saved>>
        /\ worker' = [worker EXCEPT ![w].pc = "op", ![w].open = TRUE]
    BY DEF BatchStart
  <1>2. worker \in [Workers -> WorkerStates] /\ worker[w] \in WorkerStates
    BY DEF IInv, TypeOK, WorkersOK
  <1>3. /\ worker'[w].pc = "op" /\ worker'[w].n = worker[w].n /\ worker'[w].i = worker[w].i
        /\ worker'[w].results = worker[w].results /\ \A u \in Workers \ {w} : worker'[u] = worker[u]
    BY <1>1, <1>2 DEF WorkerStates
  <1>. QED BY <1>1, <1>3, WithinReports

(* Before the first list nothing is done.                                  *)
LEMMA InitReports == Init => Reports
  <1>. SUFFICES ASSUME Init PROVE Reports
    OBVIOUS
  <1>1. db = saved /\ saved.done = {}
    <2>1. db = saved /\ (saved = Empty \/ \E v \in Versions : saved = Ready(v))
      BY DEF Init
    <2>2. Empty.done = {} /\ \A v \in Versions : Ready(v).done = {}
      BY DEF Empty, Ready
    <2>. QED BY <2>1, <2>2
  <1>2. \A w \in Workers : worker[w].pc = "idle" /\ worker[w].req = NULL
    BY DEF Init, Idle
  <1>3. Committed
    BY <1>1 DEF Committed
  <1>4. ASSUME NEW w \in Workers PROVE TrueFor(w)
    <2>1. NotYetFor(w)
      BY <1>1 DEF NotYetFor
    <2>2. ReportedFor(w) /\ StoredFor(w) /\ LastFor(w)
      BY <1>2 DEF ReportedFor, StoredFor, LastFor, Finished
    <2>. QED BY <2>1, <2>2 DEF TrueFor
  <1>. QED BY <1>3, <1>4 DEF Reports

(* Every step keeps what was reported true.                                *)
LEMMA NextReports == IInv /\ Reports /\ [Next]_vars => Reports'
  <1>. SUFFICES ASSUME IInv, Reports, [Next]_vars PROVE Reports'
    OBVIOUS
  <1>1. CASE Crash
    BY <1>1, CrashReports
  <1>2. ASSUME NEW w \in Workers, Step(w) PROVE Reports'
    BY <1>2, BatchStartReports, BatchExecuteReports, DataReports, DdlReports DEF Step, Operation
  <1>3. ASSUME NEW w \in Workers, NEW r \in Requests[w], FuncExec(w, r) PROVE Reports'
    BY <1>3, FuncExecReports
  <1>4. CASE UNCHANGED vars
    BY <1>4 DEF vars, Reports, Committed, TrueFor, NotYetFor, ReportedFor, StoredFor, LastFor, Finished, More
  <1>. QED BY <1>1, <1>2, <1>3, <1>4 DEF Next

(* What j_backend_db_func_exec reports is what happened: on a server an    *)
(* operation is answered without an error exactly when its effect is on    *)
(* disk, in process a list reported successful is on disk completely, for  *)
(* every set of threads and requests and wherever the process crashes.     *)
THEOREM ReportsAreTrue == Spec => []ResultsAreTrue
  <1>1. Init => IInv /\ Reports
    BY InitInv, InitReports
  <1>2. IInv /\ Reports /\ [Next]_vars => (IInv /\ Reports)'
    BY NextInv, NextReports
  <1>3. IInv /\ Reports => ResultsAreTrue
    BY DEF Reports, TrueFor, StoredFor, ResultsAreTrue
  <1>. QED BY <1>1, <1>2, <1>3, PTL DEF Spec
=============================================================================
