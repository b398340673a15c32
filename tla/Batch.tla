------------------------------- MODULE Batch -------------------------------
(***************************************************************************)
(* Batches (lib/core/jbatch.c): lists of operations that application       *)
(* threads fill and execute, synchronously or in the background, and that  *)
(* are freed with their last reference, by whichever thread drops it.      *)
(*                                                                         *)
(* The operation cache (lib/core/joperation-cache.c) declines every        *)
(* operation, so an eventual batch is executed at once and the flushes     *)
(* return at once.  A background operation is the task of its batch: it is *)
(* pushed to the pool, runs, and completes (BackgroundOperation).          *)
(*                                                                         *)
(* The list of a batch has no lock.  Threads use it as the API intends:    *)
(* between j_batch_execute_async and j_batch_wait, and while another       *)
(* thread executes the batch, they only reference and unreference it.      *)
(***************************************************************************)
EXTENDS Naturals, Sequences, FiniteSets

CONSTANTS Threads,       \* application threads
          Batches,       \* batches, each created at most once
          ExecFuncs,     \* exec functions of operations
          Keys,          \* keys of operations
          Consistencies, \* the consistency levels in use
          MaxOps,        \* bound: operations added to one batch
          NULL

ASSUME BatchAssumption ==
    /\ Consistencies \subseteq {"IMMEDIATE", "SESSION", "EVENTUAL"}
    /\ MaxOps \in Nat /\ IsFiniteSet(Threads) /\ Threads \cap Batches = {}
    /\ NULL \notin Batches \cup {"IMMEDIATE", "SESSION", "EVENTUAL"}

(* The task of batch b runs as actor b.                                    *)
Actors == Threads \cup Batches
Operations == [exec_func : ExecFuncs, key : Keys]

VARIABLES batch, \* batch[b]: consistency (NULL before creation), list, ref_count, freed
          background, \* background[b]: is batch->background_operation set?
          holds, \* holds[t]: the batches thread t has a reference to
          actor, \* actor[a]: pc, the batch it executes, and the locals of
                 \* j_batch_execute_internal
          added, \* history: added[b], all operations ever added
          done,  \* history: done[b], the operations that were executed
          calls  \* history: calls[b], the length of done[b] after each call

history == <<added, done, calls>>
vars == <<batch, background, holds, actor, added, done, calls>>

Idle == [pc |-> "idle", b |-> NULL, pos |-> 1, same |-> <<>>, ret |-> TRUE]

Init ==
    /\ batch = [b \in Batches |-> [consistency |-> NULL, list |-> <<>>, ref_count |-> 0,
                                   freed |-> FALSE]]
    /\ background = [b \in Batches |-> FALSE]
    /\ holds = [t \in Threads |-> {}]
    /\ actor = [a \in Actors |-> Idle]
    /\ added = [b \in Batches |-> <<>>]
    /\ done = [b \in Batches |-> <<>>]
    /\ calls = [b \in Batches |-> <<>>]

-----------------------------------------------------------------------------
(* What application threads do between calls that execute something.       *)

(* j_batch_new                                                             *)
BatchNew(t, b, c) ==
    /\ actor[t].pc = "idle"
    /\ batch[b].consistency = NULL
    /\ batch' = [batch EXCEPT ![b].consistency = c, ![b].ref_count = 1]
    /\ holds' = [holds EXCEPT ![t] = @ \cup {b}]
    /\ UNCHANGED <<background, actor, history>>

(* j_batch_ref, for another thread.                                        *)
BatchRef(t, u, b) ==
    /\ actor[t].pc = "idle"
    /\ b \in holds[t] /\ b \notin holds[u]
    /\ batch' = [batch EXCEPT ![b].ref_count = @ + 1]
    /\ holds' = [holds EXCEPT ![u] = @ \cup {b}]
    /\ UNCHANGED <<background, actor, history>>

(* Neither a task nor another thread is executing b.                       *)
Exclusive(t, b) == ~background[b] /\ \A u \in Threads \ {t} : actor[u].b # b

(* j_batch_add                                                             *)
BatchAdd(t, b, op) ==
    /\ actor[t].pc = "idle"
    /\ b \in holds[t] /\ Exclusive(t, b)
    /\ Len(added[b]) < MaxOps
    /\ batch' = [batch EXCEPT ![b].list = Append(@, op)]
    /\ added' = [added EXCEPT ![b] = Append(@, op)]
    /\ UNCHANGED <<background, holds, actor, done, calls>>

-----------------------------------------------------------------------------
(* j_batch_execute, by a thread or by the task of the batch.               *)

CanExecute(a, b) ==
    \/ a \in Threads /\ actor[a].pc = "idle" /\ b \in holds[a] /\ Exclusive(a, b)
    \/ a = b /\ actor[a].pc = "start"

(* Back in the thread, or in the task after the callback.                  *)
Return(a) == IF a \in Threads THEN Idle ELSE [Idle EXCEPT !.pc = "unref", !.b = a]

(* An empty batch fails, a session batch is left to j_batch_unref.         *)
ExecuteNothing(a, b) ==
    /\ CanExecute(a, b)
    /\ batch[b].list = <<>> \/ batch[b].consistency = "SESSION"
    /\ actor' = [actor EXCEPT ![a] = Return(a)]
    /\ UNCHANGED <<batch, background, holds, history>>

Execute(a, b) ==
    /\ CanExecute(a, b)
    /\ batch[b].list # <<>> /\ batch[b].consistency # "SESSION"
    /\ actor' = [actor EXCEPT ![a] = [Idle EXCEPT !.pc = "execute", !.b = b]]
    /\ UNCHANGED <<batch, background, holds, history>>

(* j_batch_execute_same: the list is handed to the exec function.          *)
Perform(b, same) ==
    /\ done' = [done EXCEPT ![b] = @ \o same]
    /\ calls' = [calls EXCEPT ![b] = Append(@, Len(done[b]) + Len(same))]

(* Faulty: only the exec functions are compared.                           *)
CombineKeys(a) ==
    LET me == actor[a]
        op == batch[me.b].list[me.pos]
        differs == me.same # <<>> /\ me.same[Len(me.same)].exec_func # op.exec_func
    IN
    /\ me.pc \in {"execute", "free"} /\ me.pos <= Len(batch[me.b].list)
    /\ IF differs
       THEN \E ok \in BOOLEAN :
              /\ Perform(me.b, me.same)
              /\ actor' = [actor EXCEPT ![a].pos = @ + 1, ![a].same = <<op>>, ![a].ret = ok /\ @]
       ELSE /\ actor' = [actor EXCEPT ![a].pos = @ + 1, ![a].same = Append(@, op)]
            /\ UNCHANGED <<done, calls>>
    /\ UNCHANGED <<batch, background, holds, added>>

(* One round of the loop in j_batch_execute_internal: when function or key *)
(* change, what was collected is executed first.  A failure does not stop  *)
(* the batch.                                                              *)
Combine(a) ==
    LET me == actor[a]
        op == batch[me.b].list[me.pos]
        differs == me.same # <<>> /\ me.same[Len(me.same)] # op
    IN
    /\ me.pc \in {"execute", "free"} /\ me.pos <= Len(batch[me.b].list)
    /\ IF differs
       THEN \E ok \in BOOLEAN :
              /\ Perform(me.b, me.same)
              /\ actor' = [actor EXCEPT ![a].pos = @ + 1, ![a].same = <<op>>, ![a].ret = ok /\ @]
       ELSE /\ actor' = [actor EXCEPT ![a].pos = @ + 1, ![a].same = Append(@, op)]
            /\ UNCHANGED <<done, calls>>
    /\ UNCHANGED <<batch, background, holds, added>>

(* The call after the loop; with nothing collected it does nothing.        *)
LastCall(a) ==
    LET me == actor[a] IN
    /\ me.pc \in {"execute", "free"} /\ me.pos > Len(batch[me.b].list)
    /\ IF me.same # <<>> THEN Perform(me.b, me.same) ELSE UNCHANGED <<done, calls>>
    /\ actor' = [actor EXCEPT ![a].pc = IF @ = "execute" THEN "executed" ELSE "freed"]
    /\ UNCHANGED <<batch, background, holds, added>>

(* j_list_delete_all, then j_batch_execute returns.                        *)
Executed(a) ==
    /\ actor[a].pc = "executed"
    /\ batch' = [batch EXCEPT ![actor[a].b].list = <<>>]
    /\ actor' = [actor EXCEPT ![a] = Return(a)]
    /\ UNCHANGED <<background, holds, history>>

-----------------------------------------------------------------------------
(* Asynchronous execution.                                                 *)

(* Faulty: the task has no reference of its own.                           *)
ExecuteAsyncUncounted(t, b) ==
    /\ actor[t].pc = "idle"
    /\ b \in holds[t] /\ Exclusive(t, b)
    /\ background' = [background EXCEPT ![b] = TRUE]
    /\ actor' = [actor EXCEPT ![b] = [Idle EXCEPT !.pc = "start", !.b = b]]
    /\ UNCHANGED <<batch, holds, history>>

(* j_batch_execute_async                                                   *)
ExecuteAsync(t, b) ==
    /\ actor[t].pc = "idle"
    /\ b \in holds[t] /\ Exclusive(t, b)
    /\ batch' = [batch EXCEPT ![b].ref_count = @ + 1]
    /\ background' = [background EXCEPT ![b] = TRUE]
    /\ actor' = [actor EXCEPT ![b] = [Idle EXCEPT !.pc = "start", !.b = b]]
    /\ UNCHANGED <<holds, history>>

(* j_batch_wait                                                            *)
BatchWait(t, b) ==
    /\ actor[t].pc = "idle"
    /\ b \in holds[t]
    /\ background[b] /\ actor[b].pc = "completed"
    /\ background' = [background EXCEPT ![b] = FALSE]
    /\ UNCHANGED <<batch, holds, actor, history>>

(* Faulty: sessions are not executed.                                      *)
DropSilently(a, b, next) ==
    /\ batch' = [batch EXCEPT ![b].ref_count = @ - 1]
    /\ actor' = [actor EXCEPT ![a] =
          IF batch[b].ref_count > 1 THEN next ELSE [Idle EXCEPT !.pc = "freed", !.b = b]]

(* A reference is dropped.  The last one ends the session of the batch,    *)
(* which is executed before it is freed.                                   *)
Drop(a, b, next) ==
    /\ batch' = [batch EXCEPT ![b].ref_count = @ - 1]
    /\ actor' = [actor EXCEPT ![a] =
          IF batch[b].ref_count > 1 THEN next
          ELSE IF batch[b].consistency = "SESSION" THEN [Idle EXCEPT !.pc = "free", !.b = b]
          ELSE [Idle EXCEPT !.pc = "freed", !.b = b]]

(* j_batch_unref by a thread...                                            *)
BatchUnref(t, b) ==
    /\ actor[t].pc = "idle"
    /\ b \in holds[t]
    /\ holds' = [holds EXCEPT ![t] = @ \ {b}]
    /\ Drop(t, b, Idle)
    /\ UNCHANGED <<background, history>>

Completed(b) == [Idle EXCEPT !.pc = "completed"]

(* ...and at the end of the task.                                          *)
TaskUnref(b) ==
    /\ actor[b].pc = "unref"
    /\ Drop(b, b, Completed(b))
    /\ UNCHANGED <<background, holds, history>>

Free(a) ==
    /\ actor[a].pc = "freed"
    /\ batch' = [batch EXCEPT ![actor[a].b].freed = TRUE, ![actor[a].b].list = <<>>]
    /\ background' = [background EXCEPT ![actor[a].b] = FALSE]
    /\ actor' = [actor EXCEPT ![a] = IF a \in Threads THEN Idle ELSE Completed(a)]
    /\ UNCHANGED <<holds, history>>

Internal(a) == Combine(a) \/ LastCall(a) \/ Executed(a) \/ Free(a)

Task(b) == ExecuteNothing(b, b) \/ Execute(b, b) \/ Internal(b) \/ TaskUnref(b)

Application(t) ==
    \E b \in Batches :
        \/ \E c \in Consistencies : BatchNew(t, b, c)
        \/ \E u \in Threads : BatchRef(t, u, b)
        \/ \E op \in Operations : BatchAdd(t, b, op)
        \/ ExecuteNothing(t, b) \/ Execute(t, b)
        \/ ExecuteAsync(t, b) \/ BatchWait(t, b) \/ BatchUnref(t, b)

AllFreed == \A b \in Batches : batch[b].freed
Terminated ==
    /\ AllFreed /\ \A b \in Batches : actor[b].pc \in {"idle", "completed"}
    /\ UNCHANGED vars

Next ==
    \/ \E t \in Threads : Application(t) \/ Internal(t)
    \/ \E b \in Batches : Task(b)
    \/ Terminated

Spec == Init /\ [][Next]_vars

-----------------------------------------------------------------------------
(* Properties.                                                             *)

(* What is executed is what was added: every operation at most once and in *)
(* order, however the batch is executed and whoever frees it; an exec      *)
(* function only gets operations of its own kind on one key (they share a  *)
(* message, which names the object once); and j_batch_execute that         *)
(* executes a batch executes all of it, failed operations or not.          *)
ExecutedAsAdded ==
    /\ \A b \in Batches :
          /\ Len(done[b]) <= Len(added[b])
          /\ done[b] = SubSeq(added[b], 1, Len(done[b]))
          /\ \A i \in DOMAIN calls[b] :
                \A p \in (IF i = 1 THEN 1 ELSE calls[b][i - 1] + 1) .. calls[b][i] :
                    done[b][p] = done[b][calls[b][i]]
    /\ \A a \in Actors : actor[a].pc = "executed" => done[actor[a].b] = added[actor[a].b]

(* A session batch is executed in full by the time j_batch_unref has freed *)
(* it, whichever thread or task drops the last reference; and as long as   *)
(* it was executed only synchronously, not before.  (Of a session batch    *)
(* that was executed asynchronously jbatch.h:147 says that its consistency *)
(* is ignored, so for that one nothing is claimed here of the time before  *)
(* it is freed; j_batch_execute leaves it alone in the task as well.)      *)
SessionEndsWithBatch ==
    \A b \in Batches : batch[b].consistency = "SESSION" =>
        /\ batch[b].freed => done[b] = added[b]
        /\ (batch[b].ref_count > 0 /\ actor[b].pc = "idle") => done[b] = <<>>

(* While a thread or the task may still use a batch it is not freed.       *)
NoUseAfterFree ==
    \A b \in Batches :
        \/ \E t \in Threads : b \in holds[t]
        \/ actor[b].pc \in {"start", "execute", "executed", "unref"}
        => batch[b].ref_count > 0 /\ ~batch[b].freed

=============================================================================
