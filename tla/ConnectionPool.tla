--------------------------- MODULE ConnectionPool ---------------------------
(***************************************************************************)
(* The client's pool of server connections, lib/core/jconnection-pool.c.   *)
(*                                                                         *)
(* There is one JConnectionPoolQueue per backend type and server index: a  *)
(* GAsyncQueue of idle connections and the number `count' of connections   *)
(* made for it.  Client threads (application threads and the workers of    *)
(* the background pool) pop a connection, exchange messages over it and    *)
(* push it back.  Every atomic access to the queue or to `count' is a step *)
(* of its own; the queue itself is GLib's and external.                    *)
(***************************************************************************)
EXTENDS Naturals, Sequences, FiniteSets

CONSTANTS Threads,      \* the client's threads
          Queues,       \* the (backend type, server index) pairs
          Connections,  \* the identities a new TCP connection may have
          max_count,    \* j_configuration_get_max_connections()
          MaxOps,       \* bound: pops one thread performs
          MaxFailures   \* bound: connection attempts that fail, per queue

ASSUME PoolAssumption ==
    /\ IsFiniteSet(Threads)
    /\ IsFiniteSet(Connections)
    /\ max_count \in Nat \ {0}
    /\ MaxOps \in Nat
    /\ MaxFailures \in Nat

CONSTANT NULL           \* no connection, no queue
ASSUME NullAssumption == NULL \notin Connections \cup Queues

VARIABLES pool,         \* j_connection_pool: "none", "up" or "gone"
          queue,        \* queue[q]: the idle connections of q
          count,        \* count[q]: JConnectionPoolQueue.count
          pc,           \* pc[t]: where thread t is in pop_internal
          at,           \* at[t]: the queue t works with
          connection,   \* connection[t]: the local variable of pop_internal
          peer,         \* peer[c]: the queue whose server c is connected to
          closed,       \* connections closed by j_connection_pool_fini
          ops,          \* ops[t]: pops t has begun
          failed        \* failed[q]: attempts to connect for q that failed

vars == <<pool, queue, count, pc, at, connection, peer, closed, ops, failed>>

-----------------------------------------------------------------------------

Init ==
    /\ pool = "none"
    /\ queue = [q \in Queues |-> <<>>]
    /\ count = [q \in Queues |-> 0]
    /\ pc = [t \in Threads |-> "idle"]
    /\ at = [t \in Threads |-> NULL]
    /\ connection = [t \in Threads |-> NULL]
    /\ peer = [c \in Connections |-> NULL]
    /\ closed = {}
    /\ ops = [t \in Threads |-> 0]
    /\ failed = [q \in Queues |-> 0]

(* Moves thread t on in pop_internal.                                      *)
Goto(t, from, to) ==
    /\ pc[t] = from
    /\ pc' = [pc EXCEPT ![t] = to]

PoolInit ==
    /\ pool = "none"
    /\ pool' = "up"
    /\ queue' = [q \in Queues |-> <<>>]
    /\ count' = [q \in Queues |-> 0]
    /\ UNCHANGED <<pc, at, connection, peer, closed, ops, failed>>

(* j_connection_pool_pop: selects the queue and calls pop_internal.        *)
Pop(t, q) ==
    /\ pool = "up"
    /\ ops[t] < MaxOps
    /\ Goto(t, "idle", "try_pop")
    /\ at' = [at EXCEPT ![t] = q]
    /\ ops' = [ops EXCEPT ![t] = @ + 1]
    /\ UNCHANGED <<pool, queue, count, connection, peer, closed, failed>>

(* Faulty variant of Take: looks at the connection but leaves it queued.   *)
TakePeeks(t) ==
    /\ queue[at[t]] # <<>>
    /\ connection' = [connection EXCEPT ![t] = Head(queue[at[t]])]
    /\ UNCHANGED queue

(* Takes the first idle connection of the thread's queue.                  *)
Take(t) ==
    /\ queue[at[t]] # <<>>
    /\ connection' = [connection EXCEPT ![t] = Head(queue[at[t]])]
    /\ queue' = [queue EXCEPT ![at[t]] = Tail(@)]

(* g_async_queue_try_pop                                                   *)
TryPop(t) ==
    /\ \/ Goto(t, "try_pop", "have") /\ Take(t)
       \/ /\ Goto(t, "try_pop", "check")
          /\ queue[at[t]] = <<>>
          /\ UNCHANGED <<connection, queue>>
    /\ UNCHANGED <<pool, count, at, peer, closed, ops, failed>>

(* g_atomic_int_get(count) < max_count                                     *)
CheckCount(t) ==
    /\ Goto(t, "check", IF count[at[t]] < max_count THEN "add" ELSE "wait")
    /\ UNCHANGED <<pool, queue, count, at, connection, peer, closed, ops, failed>>

(* Faulty variant of AddCount: trusts the earlier check.                   *)
AddCountUnchecked(t) ==
    /\ Goto(t, "add", "connect")
    /\ count' = [count EXCEPT ![at[t]] = @ + 1]
    /\ UNCHANGED <<pool, queue, at, connection, peer, closed, ops, failed>>

(* g_atomic_int_add(count, 1) < max_count: the old value decides.          *)
AddCount(t) ==
    /\ Goto(t, "add", IF count[at[t]] < max_count THEN "connect" ELSE "undo")
    /\ count' = [count EXCEPT ![at[t]] = @ + 1]
    /\ UNCHANGED <<pool, queue, at, connection, peer, closed, ops, failed>>

(* g_atomic_int_add(count, -1)                                             *)
UndoCount(t) ==
    /\ Goto(t, "undo", "wait")
    /\ count' = [count EXCEPT ![at[t]] = @ - 1]
    /\ UNCHANGED <<pool, queue, at, connection, peer, closed, ops, failed>>

(* The server accepts: the PING exchange follows on the connection nobody  *)
(* else knows yet, and its answer only produces warnings.                  *)
Connect(t) ==
    /\ Goto(t, "connect", "have")
    /\ \E c \in Connections :
          /\ peer[c] = NULL
          /\ peer' = [peer EXCEPT ![c] = at[t]]
          /\ connection' = [connection EXCEPT ![t] = c]
    /\ UNCHANGED <<pool, queue, count, at, closed, ops, failed>>

(* The server cannot be reached: the failure is only logged, `count' keeps *)
(* the slot, and the thread goes on to the blocking pop.  (The code also   *)
(* reads the reply that never came; if that ends the process, the          *)
(* behaviour stops here.)                                                  *)
ConnectFails(t) ==
    /\ Goto(t, "connect", "wait")
    /\ failed[at[t]] < MaxFailures
    /\ failed' = [failed EXCEPT ![at[t]] = @ + 1]
    /\ UNCHANGED <<pool, queue, count, at, connection, peer, closed, ops>>

(* g_async_queue_pop: blocks until the queue is not empty.                 *)
BlockingPop(t) ==
    /\ Goto(t, "wait", "have")
    /\ Take(t)
    /\ UNCHANGED <<pool, count, at, peer, closed, ops, failed>>

(* Faulty variant of Push: an error path that returns without pushing.     *)
PushForgotten(t) ==
    /\ pool = "up"
    /\ Goto(t, "have", "idle")
    /\ connection' = [connection EXCEPT ![t] = NULL]
    /\ UNCHANGED <<pool, queue, count, at, peer, closed, ops, failed>>

(* j_connection_pool_push by the thread that is done with its connection.  *)
Push(t) ==
    /\ pool = "up"
    /\ Goto(t, "have", "idle")
    /\ queue' = [queue EXCEPT ![at[t]] = Append(@, connection[t])]
    /\ connection' = [connection EXCEPT ![t] = NULL]
    /\ UNCHANGED <<pool, count, at, peer, closed, ops, failed>>

(* j_connection_pool_fini runs in the library's destructor, after the      *)
(* operation cache and the background pool have been drained: no thread    *)
(* is inside pop_internal any more.                                        *)
PoolFini ==
    /\ pool = "up"
    /\ \A t \in Threads : pc[t] = "idle"
    /\ pool' = "gone"
    /\ closed' = closed \cup UNION {{queue[q][i] : i \in DOMAIN queue[q]} : q \in Queues}
    /\ queue' = [q \in Queues |-> <<>>]
    /\ UNCHANGED <<count, pc, at, connection, peer, ops, failed>>

Step(t) ==
    \/ TryPop(t)
    \/ CheckCount(t)
    \/ AddCount(t)
    \/ UndoCount(t)
    \/ Connect(t)
    \/ ConnectFails(t)
    \/ BlockingPop(t)
    \/ Push(t)

Next ==
    \/ PoolInit
    \/ PoolFini
    \/ \E t \in Threads : Step(t) \/ \E q \in Queues : Pop(t, q)

Spec == Init /\ [][Next]_vars

(* A thread that is inside pop_internal or uses a connection goes on: the  *)
(* servers answer, and the code between pop and push ends.  g_async_queue  *)
(* wakes a waiter when something is pushed but lets other threads overtake *)
(* it, hence weak fairness only.                                           *)
FairSpec == Spec /\ \A t \in Threads : WF_vars(Step(t))

-----------------------------------------------------------------------------
Threads_at(q, where) == {t \in Threads : at[t] = q /\ pc[t] = where}

(* The connections that were made to the server of queue q.                *)
Made(q) == {c \in Connections : peer[c] = q}

(* The slots of q that are taken for good: by a connection, by a           *)
(* connection being made and by an attempt that failed.                    *)
Slots(q) == Cardinality(Made(q)) + Cardinality(Threads_at(q, "connect")) + failed[q]

Idle(q) == {queue[q][i] : i \in DOMAIN queue[q]}

TypeOK ==
    /\ pool \in {"none", "up", "gone"}
    /\ queue \in [Queues -> Seq(Connections)]
    /\ count \in [Queues -> Nat]
    /\ pc \in [Threads -> {"idle", "try_pop", "check", "add", "undo", "connect", "wait", "have"}]
    /\ at \in [Threads -> Queues \cup {NULL}]
    /\ connection \in [Threads -> Connections \cup {NULL}]
    /\ peer \in [Connections -> Queues \cup {NULL}]
    /\ closed \in SUBSET Connections
    /\ ops \in [Threads -> Nat]
    /\ failed \in [Queues -> Nat]

(* `count' never drifts: whatever the interleaving of the check, the add   *)
(* and the undo, it is the number of slots taken for good plus the threads *)
(* about to take their increment back.                                     *)
CountIsExact ==
    \A q \in Queues : count[q] = Slots(q) + Cardinality(Threads_at(q, "undo"))

(* max_count is respected although the check and the increment are two     *)
(* steps (jconnection-pool.c:187-189): no server ever sees more than       *)
(* max_count connections of this client.                                   *)
WithinLimit == \A q \in Queues : Slots(q) <= max_count

(* The increment that is going to be undone is only ever on top of a full  *)
(* pool, so a thread misled by it in the check of line 187 has really      *)
(* nothing left to connect.                                                *)
OvercountOnlyWhenFull ==
    \A q \in Queues : Threads_at(q, "undo") # {} => Slots(q) = max_count

(* A connection is used by one thread at a time, is idle at most once, and *)
(* only ever in the queue of the server it leads to.                       *)
ExclusiveUse ==
    /\ \A q \in Queues : \A i, j \in DOMAIN queue[q] :
          queue[q][i] = queue[q][j] => i = j
    /\ \A q \in Queues : Idle(q) \subseteq Made(q)
    /\ \A t \in Threads : pc[t] = "have" =>
          connection[t] \in Made(at[t]) \ Idle(at[t])
    /\ \A t, u \in Threads : 
          pc[t] = "have" /\ pc[u] = "have" /\ connection[t] = connection[u] => t = u

(* No connection is lost: it is idle, in use or closed, and once the pool  *)
(* is gone all of them are closed.                                         *)
NoneLost ==
    \A q \in Queues : \A c \in Made(q) :
       /\ pool = "up" => \/ c \in Idle(q)
                         \/ \E t \in Threads : pc[t] = "have" /\ connection[t] = c
       /\ pool = "gone" => c \in closed

(* The pool implements the bounded pool of BoundedPool: the many steps of  *)
(* pop_internal look like one atomic acquisition, and push like a release. *)
Abstract ==
    INSTANCE BoundedPool WITH holds <- connection, leadsTo <- peer,
                              open <- Connections \ closed
ImplementsBoundedPool == Abstract!Spec

(* When an attempt to connect has failed, the thread is left to the        *)
(* blocking pop and its slot is never given back.  It is still served if   *)
(* any other thread ever got a connection to that server; if none did,     *)
(* nothing will ever wake it (lines 210-213 and 266).                      *)
ServedWhileConnected ==
    \A t \in Threads, q \in Queues :
       (pc[t] = "wait" /\ at[t] = q /\ Made(q) # {}) ~> (pc[t] = "have")
=============================================================================
