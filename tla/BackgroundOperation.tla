------------------------ MODULE BackgroundOperation ------------------------
(***************************************************************************)
(* Background operations (lib/core/jbackground-operation.c): a global      *)
(* thread pool executes functions for application threads, which wait for  *)
(* their results.  j_helper_execute_parallel (lib/core/jhelper.c) uses it  *)
(* to run one function per server, and so do operations that are           *)
(* themselves executed in the pool (j_batch_execute_async on a batch of    *)
(* distributed object operations): tasks that create tasks.                *)
(*                                                                         *)
(* What is done under the mutex of an operation is one step.  Every        *)
(* operation of the model is created at most once.                         *)
(***************************************************************************)
EXTENDS Naturals, Sequences

CONSTANTS Threads,  \* application threads
          Workers,  \* threads of the pool, g_get_num_processors() of them
          Ops,      \* background operations
          Calls,    \* Calls[t]: the operations thread t creates, in order
          Parts,    \* Parts[o]: the data o passes to j_helper_execute_parallel
          MayFini,  \* may the application call j_fini while tasks are queued?
          NULL

(* Every operation is passed to j_background_operation_new by one call.    *)
ASSUME BackgroundAssumption ==
    /\ Calls \in [Threads -> Seq(Ops)] /\ \A t \in Threads : Calls[t] # <<>>
    /\ Parts \in [Ops -> Seq(Ops)]
    /\ \A t, u \in Threads : \A i \in DOMAIN Calls[t], j \in DOMAIN Calls[u] :
          Calls[t][i] = Calls[u][j] => t = u /\ i = j
    /\ \A o, p \in Ops : \A i \in DOMAIN Parts[o], j \in DOMAIN Parts[p] :
          Parts[o][i] = Parts[p][j] => o = p /\ i = j
    /\ \A t \in Threads, o \in Ops : \A i \in DOMAIN Calls[t], j \in DOMAIN Parts[o] :
          Calls[t][i] # Parts[o][j]
    /\ MayFini \in BOOLEAN
    /\ Threads \cap Workers = {} /\ NULL \notin Ops

Actors == Threads \cup Workers

VARIABLES queue, \* the tasks of the GThreadPool no worker has taken
          pool,  \* j_thread_pool: up, closing (in g_thread_pool_free) or freed
          ref,   \* ref[o]: ref_count of o, 0 before it is created and when freed
          completed, \* completed[o]
          ran,   \* history: how often the function of o was executed
          actor  \* actor[a]: pc, the operation a worker executes, the operations
                 \* it has yet to create (todo) and to wait for (wait)

vars == <<queue, pool, ref, completed, ran, actor>>

Init ==
    /\ queue = <<>> /\ pool = "up"
    /\ ref = [o \in Ops |-> 0]
    /\ completed = [o \in Ops |-> FALSE]
    /\ ran = [o \in Ops |-> 0]
    /\ actor = [a \in Actors |->
          IF a \in Threads THEN [pc |-> "new", op |-> NULL, todo |-> Calls[a], wait |-> <<>>]
          ELSE [pc |-> "idle", op |-> NULL, todo |-> <<>>, wait |-> <<>>]]

-----------------------------------------------------------------------------
(* Faulty: only the creator's reference is counted.                        *)
NewUncounted(a) ==
    /\ actor[a].pc = "new"
    /\ LET o == Head(actor[a].todo) IN
       /\ ref' = [ref EXCEPT ![o] = 1]
       /\ completed' = [completed EXCEPT ![o] = FALSE]
       /\ queue' = IF pool = "up" THEN Append(queue, o) ELSE queue
       /\ actor' = [actor EXCEPT ![a].todo = Tail(@), ![a].wait = Append(@, o),
                                 ![a].pc = IF Len(actor[a].todo) = 1 THEN "wait" ELSE "new"]
    /\ UNCHANGED <<pool, ran>>

(* j_background_operation_new: one reference for the creator, one for the  *)
(* pool.  Once j_thread_pool is NULL the push is refused with a warning.   *)
New(a) ==
    /\ actor[a].pc = "new"
    /\ LET o == Head(actor[a].todo) IN
       /\ ref' = [ref EXCEPT ![o] = 2]
       /\ completed' = [completed EXCEPT ![o] = FALSE]
       /\ queue' = IF pool = "up" THEN Append(queue, o) ELSE queue
       /\ actor' = [actor EXCEPT ![a].todo = Tail(@), ![a].wait = Append(@, o),
                                 ![a].pc = IF Len(actor[a].todo) = 1 THEN "wait" ELSE "new"]
    /\ UNCHANGED <<pool, ran>>

(* j_background_operation_wait: the loop around g_cond_wait.               *)
Wait(a) ==
    /\ actor[a].pc = "wait"
    /\ actor' = [actor EXCEPT ![a].pc = IF completed[Head(actor[a].wait)] THEN "unref" ELSE "sleep"]
    /\ UNCHANGED <<queue, pool, ref, completed, ran>>

(* GCond permits wakeups without a signal.                                 *)
SpuriousWakeup(a) ==
    /\ actor[a].pc = "sleep"
    /\ actor' = [actor EXCEPT ![a].pc = "wait"]
    /\ UNCHANGED <<queue, pool, ref, completed, ran>>

(* j_background_operation_unref by the creator; after the last one the     *)
(* call returns, in a worker to the function it was executing.             *)
Unref(a) ==
    /\ actor[a].pc = "unref"
    /\ ref' = [ref EXCEPT ![Head(actor[a].wait)] = @ - 1]
    /\ actor' = [actor EXCEPT ![a].wait = Tail(@),
                              ![a].pc = IF Len(actor[a].wait) > 1 THEN "wait"
                                        ELSE IF a \in Workers THEN "complete" ELSE "done"]
    /\ UNCHANGED <<queue, pool, completed, ran>>

-----------------------------------------------------------------------------
(* The threads of the pool: j_background_operation_thread.                 *)

(* g_thread_pool_push hands a task to a thread that is free.               *)
Take(w) ==
    /\ actor[w].pc = "idle"
    /\ queue # <<>>
    /\ actor' = [actor EXCEPT ![w].pc = "run", ![w].op = Head(queue)]
    /\ queue' = Tail(queue)
    /\ UNCHANGED <<pool, ref, completed, ran>>

(* Faulty: the second loop of j_helper_execute_parallel is missing.        *)
RunUnjoined(w) ==
    LET o == actor[w].op
        parts == {Parts[o][i] : i \in DOMAIN Parts[o]}
    IN
    /\ actor[w].pc = "run"
    /\ ran' = [ran EXCEPT ![o] = @ + 1]
    /\ ref' = [p \in Ops |-> IF p \in parts THEN 1 ELSE ref[p]]
    /\ queue' = queue \o Parts[o]
    /\ actor' = [actor EXCEPT ![w].pc = "complete"]
    /\ UNCHANGED <<pool, completed>>

(* The function runs.  If it calls j_helper_execute_parallel, a single     *)
(* datum is handled inline, several become background operations.          *)
Run(w) ==
    LET o == actor[w].op IN
    /\ actor[w].pc = "run"
    /\ ran' = [p \in Ops |-> IF p = o \/ Parts[o] = <<p>> THEN ran[p] + 1 ELSE ran[p]]
    /\ actor' = IF Len(Parts[o]) > 1
                THEN [actor EXCEPT ![w].pc = "new", ![w].todo = Parts[o]]
                ELSE [actor EXCEPT ![w].pc = "complete"]
    /\ UNCHANGED <<queue, pool, ref, completed>>

(* Faulty: nobody is signalled.                                            *)
CompleteQuietly(w) ==
    /\ actor[w].pc = "complete"
    /\ completed' = [completed EXCEPT ![actor[w].op] = TRUE]
    /\ actor' = [actor EXCEPT ![w].pc = "drop"]
    /\ UNCHANGED <<queue, pool, ref, ran>>

(* The result is stored, then under the mutex completed is set and the     *)
(* condition signalled.  Only the creator waits for it.                    *)
Complete(w) ==
    LET o == actor[w].op IN
    /\ actor[w].pc = "complete"
    /\ completed' = [completed EXCEPT ![o] = TRUE]
    /\ actor' = [a \in Actors |->
          IF a = w THEN [actor[w] EXCEPT !.pc = "drop"]
          ELSE IF actor[a].pc = "sleep" /\ Head(actor[a].wait) = o
          THEN [actor[a] EXCEPT !.pc = "wait"] ELSE actor[a]]
    /\ UNCHANGED <<queue, pool, ref, ran>>

(* j_background_operation_unref by the thread of the pool.                 *)
Drop(w) ==
    /\ actor[w].pc = "drop"
    /\ ref' = [ref EXCEPT ![actor[w].op] = @ - 1]
    /\ actor' = [actor EXCEPT ![w].pc = "idle", ![w].op = NULL]
    /\ UNCHANGED <<queue, pool, completed, ran>>

-----------------------------------------------------------------------------
(* j_background_operation_fini from j_fini: j_thread_pool becomes NULL,    *)
(* then g_thread_pool_free waits for the queued and the running tasks.     *)
(* The application has waited for the tasks that create others: the        *)
(* creation would be refused and the task hang (see New).                  *)

Fini ==
    /\ MayFini /\ pool = "up"
    /\ \A t \in Threads : actor[t].pc # "new"
    /\ \A o \in Ops : ref[o] > 0 /\ Len(Parts[o]) > 1 => completed[o]
    /\ pool' = "closing"
    /\ UNCHANGED <<queue, ref, completed, ran, actor>>

PoolFreed ==
    /\ pool = "closing"
    /\ queue = <<>> /\ \A w \in Workers : actor[w].pc = "idle"
    /\ pool' = "freed"
    /\ UNCHANGED <<queue, ref, completed, ran, actor>>

Terminated ==
    /\ \A t \in Threads : actor[t].pc = "done"
    /\ \A w \in Workers : actor[w].pc = "idle"
    /\ queue = <<>> /\ pool # "closing"
    /\ UNCHANGED vars

Call(a) == New(a) \/ Wait(a) \/ Unref(a)
Work(w) == Take(w) \/ Run(w) \/ Complete(w) \/ Drop(w)

Next ==
    \/ \E a \in Actors : Call(a) \/ SpuriousWakeup(a)
    \/ \E w \in Workers : Work(w)
    \/ Fini \/ PoolFreed \/ Terminated

Spec == Init /\ [][Next]_vars

(* Every thread that can run does; spurious wakeups are not relied upon,   *)
(* nor is j_fini ever called.                                              *)
Fairness ==
    /\ \A t \in Threads : WF_vars(Call(t))
    /\ \A w \in Workers : WF_vars(Call(w) \/ Work(w))
    /\ WF_vars(PoolFreed)

FairSpec == Spec /\ Fairness

-----------------------------------------------------------------------------
(* Properties.                                                             *)

InSeq(o, s) == \E i \in DOMAIN s : s[i] = o
CreatorHolds(o) == \E a \in Actors : InSeq(o, actor[a].wait)
PoolHolds(o) == InSeq(o, queue) \/ \E w \in Workers : actor[w].op = o

(* Memory for an operation is held exactly as long as the creator or the   *)
(* pool thread may touch it (its mutex, its flag, its count): neither side *)
(* frees it under the other, and the last one does free it.                *)
LifetimeIsExact == \A o \in Ops : ref[o] > 0 <=> CreatorHolds(o) \/ PoolHolds(o)

(* What a wait waits for has happened: the function of the operation ran   *)
(* exactly once, and so did those it passed to j_helper_execute_parallel.  *)
WaitMeansDone ==
    \A a \in Actors : actor[a].pc = "unref" =>
        LET o == Head(actor[a].wait) IN
        /\ ran[o] = 1
        /\ \A i \in DOMAIN Parts[o] : ran[Parts[o][i]] = 1

(* Every application thread gets its results, and a j_fini returns.        *)
EveryWaitReturns ==
    /\ \A t \in Threads : <>(actor[t].pc = "done")
    /\ pool = "closing" ~> pool = "freed"
=============================================================================
