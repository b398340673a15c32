---------------------------- MODULE BatchProofs ----------------------------
(***************************************************************************)
(* Proofs about Batch, for any number of threads, batches and operations.  *)
(***************************************************************************)
EXTENDS Batch, FiniteSetTheorems, SequenceTheorems, TLAPS

Levels == {"IMMEDIATE", "SESSION", "EVENTUAL"}
InUse == {"execute", "executed", "free", "freed"}
TaskPcs == {"start", "execute", "executed", "unref", "free", "freed"}

BatchStates == [consistency : Levels \cup {NULL}, list : Seq(Operations), ref_count : Nat,
                freed : BOOLEAN]
ActorStates == [pc : TaskPcs \cup {"idle", "completed"}, b : Batches \cup {NULL},
                pos : Nat \ {0}, same : Seq(Operations), ret : BOOLEAN]

(* The variables of the batches and of those who use them have their       *)
(* types.                                                                  *)
TypeOK ==
    /\ batch \in [Batches -> BatchStates]
    /\ background \in [Batches -> BOOLEAN]
    /\ holds \in [Threads -> SUBSET Batches]
    /\ actor \in [Actors -> ActorStates]
    /\ added \in [Batches -> Seq(Operations)]
    /\ done \in [Batches -> Seq(Operations)]
    /\ calls \in [Batches -> Seq(Nat)]

(* Who is where: a thread works on a batch it executes or frees, the task  *)
(* of b on b, and background_operation is set while the task runs.         *)
Placed ==
    /\ \A t \in Threads :
          /\ actor[t].pc \in InUse \cup {"idle"}
          /\ actor[t].b = NULL <=> actor[t].pc = "idle"
    /\ \A b \in Batches :
          /\ actor[b].pc \in TaskPcs => actor[b].b = b /\ background[b]
          /\ actor[b].pc \notin TaskPcs => actor[b].b = NULL

(* The actors that have a reference to b.                                  *)
TaskHolds(b) == actor[b].pc \in {"start", "execute", "executed", "unref"}
Holders(b) == {t \in Threads : b \in holds[t]} \cup {x \in {b} : TaskHolds(x)}

(* The count is the number of references; a batch without one is new,      *)
(* freed or being freed.                                                   *)
Counted ==
    \A b \in Batches :
        /\ batch[b].ref_count = Cardinality(Holders(b))
        /\ batch[b].ref_count > 0 => batch[b].consistency # NULL /\ ~batch[b].freed
        /\ batch[b].consistency = NULL => added[b] = <<>> /\ ~batch[b].freed

(* At most one actor uses the list of a batch.  Whoever executes it has a  *)
(* reference, and whoever frees it knows that there is none.               *)
Alone ==
    /\ \A t, u \in Threads : actor[t].b # NULL /\ actor[t].b = actor[u].b => t = u
    /\ \A t \in Threads : actor[t].b # NULL => actor[actor[t].b].pc \notin TaskPcs
    /\ \A a \in Actors :
          /\ actor[a].pc \in {"execute", "executed"} =>
                /\ a \in Holders(actor[a].b)
                /\ batch[actor[a].b].consistency # "SESSION"
          /\ actor[a].pc \in {"free", "freed"} =>
                /\ batch[actor[a].b].ref_count = 0
                /\ ~batch[actor[a].b].freed
                /\ batch[actor[a].b].consistency # NULL
          /\ actor[a].pc = "free" => batch[actor[a].b].consistency = "SESSION"

Unused(b) == \A a \in Actors : actor[a].b = b => actor[a].pc \notin InUse

(* What has been executed is a prefix of what was added, what the list     *)
(* holds a suffix, and an execution in progress is somewhere between.      *)
Begins(ran, all) == Len(ran) <= Len(all) /\ \A i \in 1 .. Len(ran) : ran[i] = all[i]
Ends(list, all) ==
    /\ Len(list) <= Len(all)
    /\ \A i \in 1 .. Len(list) : list[i] = all[Len(all) - Len(list) + i]
Collected(same, all, n) ==
    \A i \in 1 .. Len(same) : same[i] = all[n + i] /\ same[i] = same[Len(same)]

Prefix(b) == Begins(done[b], added[b])
Suffix(b) == Ends(batch[b].list, added[b])
Rest(b) ==
    /\ Unused(b) /\ ~batch[b].freed => Len(added[b]) = Len(done[b]) + Len(batch[b].list)
    /\ batch[b].consistency = "SESSION" =>
          /\ batch[b].freed => Len(done[b]) = Len(added[b])
          /\ batch[b].ref_count > 0 => Len(done[b]) = 0

(* The list begins after what an earlier execution has done; pos and same  *)
(* are within it.                                                          *)
Between(all, ran, list, same, pos) ==
    /\ pos <= Len(list) + 1
    /\ Len(ran) + Len(same) + Len(list) + 1 = Len(all) + pos
    /\ Collected(same, all, Len(ran))
Window(me) == Between(added[me.b], done[me.b], batch[me.b].list, me.same, me.pos)
AtEnd(me) ==
    /\ me.pc = "executed" => Len(done[me.b]) = Len(added[me.b])
    /\ me.pc = "freed" /\ batch[me.b].consistency = "SESSION" =>
          Len(done[me.b]) = Len(added[me.b])

Progress ==
    /\ \A b \in Batches : Prefix(b) /\ Suffix(b) /\ Rest(b)
    /\ \A a \in Actors : /\ actor[a].pc \in {"execute", "free"} => Window(actor[a])
                         /\ AtEnd(actor[a])

(* Every call of an exec function got equal operations: the calls end at   *)
(* the positions in ends, the last one at the end of ran.                  *)
CallsEqual(ends, ran) ==
    /\ ends = <<>> => Len(ran) = 0
    /\ ends # <<>> => ends[Len(ends)] = Len(ran)
    /\ \A i \in 1 .. Len(ends) :
          /\ ends[i] <= Len(ran)
          /\ \A p \in (IF i = 1 THEN 1 ELSE ends[i - 1] + 1) .. ends[i] : ran[p] = ran[ends[i]]
Grouped == \A b \in Batches : CallsEqual(calls[b], done[b])

Control == Placed /\ Counted /\ Alone
IInv == TypeOK /\ Control /\ Progress /\ Grouped

-----------------------------------------------------------------------------
(* Type correctness.                                                       *)

LEMMA IdleType == /\ Idle \in ActorStates
                  /\ \A a \in Batches : /\ [Idle EXCEPT !.pc = "unref", !.b = a] \in ActorStates
                                        /\ [Idle EXCEPT !.pc = "start", !.b = a] \in ActorStates
                                        /\ [Idle EXCEPT !.pc = "free", !.b = a] \in ActorStates
                                        /\ [Idle EXCEPT !.pc = "freed", !.b = a] \in ActorStates
                                        /\ [Idle EXCEPT !.pc = "execute", !.b = a] \in ActorStates
                                        /\ Completed(a) \in ActorStates
<1>1. /\ <<>> \in Seq(Operations) /\ 1 \in Nat \ {0} /\ NULL \in Batches \cup {NULL}
      /\ \A p \in TaskPcs : p \in TaskPcs \cup {"idle", "completed"}
  OBVIOUS
<1>2. Idle \in ActorStates
  BY <1>1 DEF Idle, ActorStates
<1>3. \A p \in TaskPcs, a \in Batches : [Idle EXCEPT !.pc = p, !.b = a] \in ActorStates
  BY <1>2 DEF ActorStates
<1>4. [Idle EXCEPT !.pc = "completed"] \in ActorStates
  BY <1>2 DEF ActorStates
<1>5. QED
  BY <1>2, <1>3, <1>4 DEF TaskPcs, Completed

(* What a thread or a task returns to.                                     *)
LEMMA ReturnType == ASSUME NEW a \in Actors PROVE Return(a) \in ActorStates
BY IdleType DEF Return, Actors

LEMMA DropType ==
    ASSUME TypeOK, NEW a \in Actors, NEW b \in Batches, NEW next \in ActorStates,
           batch[b].ref_count # 0, Drop(a, b, next)
    PROVE  batch' \in [Batches -> BatchStates] /\ actor' \in [Actors -> ActorStates]
<1>1. batch[b] \in BatchStates
  BY DEF TypeOK
<1>2. batch[b].ref_count - 1 \in Nat
  BY <1>1 DEF BatchStates
<1>3. [batch[b] EXCEPT !.ref_count = @ - 1] \in BatchStates
  BY <1>1, <1>2 DEF BatchStates
<1>4. QED
  BY <1>3, IdleType DEF TypeOK, Drop

(* An exec function is called for what has been collected.                 *)
LEMMA PerformType ==
    ASSUME TypeOK, NEW b \in Batches, NEW same \in Seq(Operations), Perform(b, same)
    PROVE  done' \in [Batches -> Seq(Operations)] /\ calls' \in [Batches -> Seq(Nat)]
<1>1. done[b] \in Seq(Operations) /\ calls[b] \in Seq(Nat)
  BY DEF TypeOK
<1>2. done[b] \o same \in Seq(Operations) /\ Len(done[b]) + Len(same) \in Nat
  BY <1>1, ConcatProperties, LenProperties
<1>3. QED
  BY <1>1, <1>2 DEF TypeOK, Perform

(* The batch of an actor that uses one.                                    *)
LEMMA UsedBatch ==
    ASSUME TypeOK, Placed, NEW a \in Actors, actor[a].pc \in InUse
    PROVE  actor[a].b \in Batches
<1>1. a \in Threads => actor[a].b # NULL
  BY DEF Placed, InUse
<1>2. a \in Batches => actor[a].b = a
  BY DEF Placed, InUse, TaskPcs
<1>3. QED
  BY <1>1, <1>2 DEF TypeOK, ActorStates, Actors

LEMMA CombineType ==
    ASSUME TypeOK, Placed, NEW a \in Actors, Combine(a)
    PROVE  TypeOK'
<1> DEFINE me == actor[a]
           op == batch[me.b].list[me.pos]
<1>1. me \in ActorStates /\ me.b \in Batches
  BY UsedBatch DEF TypeOK, Combine, InUse
<1>2. me.same \in Seq(Operations) /\ me.pos \in Nat \ {0} /\ batch[me.b].list \in Seq(Operations)
  BY <1>1 DEF TypeOK, ActorStates, BatchStates
<1>3. op \in Operations
  <2>0. me.pos <= Len(batch[me.b].list)
    BY DEF Combine
  <2>a. PICK n \in Nat : n = Len(batch[me.b].list)
    BY <1>2, LenProperties
  <2>1. me.pos \in 1 .. Len(batch[me.b].list)
    BY <1>2, <2>0, <2>a
  <2>2. QED
    BY <1>2, <2>1, ElementOfSeq
<1>4. <<op>> \in Seq(Operations) /\ Append(me.same, op) \in Seq(Operations) /\ me.pos + 1 \in Nat \ {0}
  BY <1>2, <1>3
<1>5. /\ \A ok \in BOOLEAN : [me EXCEPT !.pos = @ + 1, !.same = <<op>>, !.ret = ok /\ @] \in ActorStates
      /\ [me EXCEPT !.pos = @ + 1, !.same = Append(@, op)] \in ActorStates
  BY <1>1, <1>4 DEF ActorStates
<1>6. actor' \in [Actors -> ActorStates]
  <2>1. CASE \E ok \in BOOLEAN : actor' = [actor EXCEPT ![a].pos = @ + 1, ![a].same = <<op>>,
                                                        ![a].ret = ok /\ @]
    BY <1>5, <2>1 DEF TypeOK
  <2>2. CASE actor' = [actor EXCEPT ![a].pos = @ + 1, ![a].same = Append(@, op)]
    BY <1>5, <2>2 DEF TypeOK
  <2>3. QED
    BY <2>1, <2>2 DEF Combine
<1>7. done' \in [Batches -> Seq(Operations)] /\ calls' \in [Batches -> Seq(Nat)]
  <2>1. CASE Perform(me.b, me.same)
    BY <1>1, <1>2, <2>1, PerformType
  <2>2. CASE UNCHANGED <<done, calls>>
    BY <2>2 DEF TypeOK
  <2>3. QED
    BY <2>1, <2>2 DEF Combine
<1>8. QED
  BY <1>6, <1>7 DEF TypeOK, Combine

LEMMA InternalType ==
    ASSUME TypeOK, Placed, NEW a \in Actors, LastCall(a) \/ Executed(a) \/ Free(a)
    PROVE  TypeOK'
<1>1. actor[a] \in ActorStates /\ actor[a].b \in Batches
  BY UsedBatch DEF TypeOK, LastCall, Executed, Free, InUse
<1> DEFINE b == actor[a].b
<1>0. batch[b] \in BatchStates /\ <<>> \in Seq(Operations)
  BY <1>1 DEF TypeOK
<1>2. CASE LastCall(a)
  <2>1. actor[a].same \in Seq(Operations)
    BY <1>1 DEF ActorStates
  <2>2. done' \in [Batches -> Seq(Operations)] /\ calls' \in [Batches -> Seq(Nat)]
    <3>1. CASE Perform(actor[a].b, actor[a].same)
      BY <1>1, <2>1, <3>1, PerformType
    <3>2. CASE UNCHANGED <<done, calls>>
      BY <3>2 DEF TypeOK
    <3>3. QED
      BY <1>2, <3>1, <3>2 DEF LastCall
  <2>3. \A p \in {"executed", "freed"} : [actor[a] EXCEPT !.pc = p] \in ActorStates
    BY <1>1 DEF ActorStates, TaskPcs
  <2>4. QED
    BY <1>2, <2>2, <2>3 DEF TypeOK, LastCall
<1>3. CASE Executed(a)
  <2>1. [batch[b] EXCEPT !.list = <<>>] \in BatchStates
    BY <1>0 DEF BatchStates
  <2>2. QED
    BY <1>3, <2>1, ReturnType DEF TypeOK, Executed, history
<1>4. CASE Free(a)
  <2>1. [batch[b] EXCEPT !.freed = TRUE, !.list = <<>>] \in BatchStates
    BY <1>0 DEF BatchStates
  <2>2. (IF a \in Threads THEN Idle ELSE Completed(a)) \in ActorStates
    BY IdleType DEF Actors
  <2>3. QED
    BY <1>4, <2>1, <2>2 DEF TypeOK, Free, history
<1>5. QED
  BY <1>2, <1>3, <1>4

LEMMA ApplicationType ==
    ASSUME TypeOK, NEW t \in Threads, NEW b \in Batches,
           \/ \E c \in Consistencies : BatchNew(t, b, c)
           \/ \E u \in Threads : BatchRef(t, u, b)
           \/ \E op \in Operations : BatchAdd(t, b, op)
           \/ ExecuteAsync(t, b) \/ BatchWait(t, b)
    PROVE  TypeOK'
<1>1. batch[b] \in BatchStates /\ b \in Actors
  BY DEF TypeOK, Actors
<1>2. CASE \E c \in Consistencies : BatchNew(t, b, c)
  <2>1. \A c \in Consistencies :
            [batch[b] EXCEPT !.consistency = c, !.ref_count = 1] \in BatchStates
    BY <1>1, BatchAssumption DEF BatchStates, Levels
  <2>2. PICK c \in Consistencies : BatchNew(t, b, c)
    BY <1>2
  <2>3. batch' \in [Batches -> BatchStates]
    BY <2>1, <2>2 DEF TypeOK, BatchNew
  <2>4. QED
    BY <2>2, <2>3 DEF TypeOK, BatchNew, history
<1>3. [batch[b] EXCEPT !.ref_count = @ + 1] \in BatchStates
  BY <1>1 DEF BatchStates
<1>4. CASE \E u \in Threads : BatchRef(t, u, b)
  BY <1>3, <1>4 DEF TypeOK, BatchRef, history
<1>5. CASE \E op \in Operations : BatchAdd(t, b, op)
  <2>1. PICK op \in Operations : BatchAdd(t, b, op)
    BY <1>5
  <2>2. added[b] \in Seq(Operations) /\ batch[b].list \in Seq(Operations)
    BY <1>1 DEF TypeOK, BatchStates
  <2>3. /\ Append(added[b], op) \in Seq(Operations)
        /\ Append(batch[b].list, op) \in Seq(Operations)
    BY <2>2
  <2>4. [batch[b] EXCEPT !.list = Append(@, op)] \in BatchStates
    BY <1>1, <2>3 DEF BatchStates
  <2>5. QED
    BY <2>1, <2>3, <2>4 DEF TypeOK, BatchAdd
<1>6. CASE ExecuteAsync(t, b)
  BY <1>1, <1>3, <1>6, IdleType DEF TypeOK, ExecuteAsync, history
<1>7. CASE BatchWait(t, b)
  BY <1>7 DEF TypeOK, BatchWait, history
<1>8. QED
  BY <1>2, <1>4, <1>5, <1>6, <1>7

(* A batch that somebody holds has a count.                                *)
LEMMA HoldersFinite ==
    ASSUME NEW b PROVE IsFiniteSet(Holders(b)) /\ Cardinality(Holders(b)) \in Nat
<1>1. IsFiniteSet({t \in Threads : b \in holds[t]})
  BY FS_Subset, BatchAssumption
<1>2. IsFiniteSet({x \in {b} : TaskHolds(x)})
  BY FS_Subset, FS_Singleton
<1>3. IsFiniteSet(Holders(b))
  BY <1>1, <1>2, FS_Union DEF Holders
<1>4. QED
  BY <1>3, FS_CardinalityType

LEMMA HeldIsCounted ==
    ASSUME TypeOK, Counted, NEW b \in Batches, NEW x \in Holders(b)
    PROVE  /\ batch[b].ref_count \in Nat \ {0}
           /\ batch[b].ref_count = 1 => Holders(b) = {x}
<1>1. batch[b].ref_count = Cardinality(Holders(b))
  BY DEF Counted
<1>2. /\ IsFiniteSet(Holders(b) \ {x})
      /\ Cardinality(Holders(b) \ {x}) = Cardinality(Holders(b)) - 1
  BY HoldersFinite, FS_RemoveElement
<1>3. Cardinality(Holders(b)) \in Nat /\ Cardinality(Holders(b) \ {x}) \in Nat
  BY <1>2, HoldersFinite, FS_CardinalityType
<1>4. Cardinality(Holders(b) \ {x}) = 0 => Holders(b) \ {x} = {}
  BY <1>2, FS_EmptySet
<1>5. QED
  BY <1>1, <1>2, <1>3, <1>4

LEMMA DropsType ==
    ASSUME TypeOK, Counted, NEW b \in Batches,
           TaskUnref(b) \/ \E t \in Threads : BatchUnref(t, b)
    PROVE  TypeOK'
<1>1. CASE TaskUnref(b)
  <2>1. b \in Holders(b)
    BY <1>1 DEF TaskUnref, Holders, TaskHolds
  <2>2. batch[b].ref_count # 0
    BY <2>1, HeldIsCounted
  <2>3. batch' \in [Batches -> BatchStates] /\ actor' \in [Actors -> ActorStates]
    BY <1>1, <2>2, DropType, IdleType DEF TaskUnref, Actors
  <2>4. QED
    BY <1>1, <2>3 DEF TypeOK, TaskUnref, history
<1>2. ASSUME NEW t \in Threads, BatchUnref(t, b) PROVE TypeOK'
  <2>1. t \in Holders(b)
    BY <1>2 DEF BatchUnref, Holders
  <2>2. batch[b].ref_count # 0
    BY <2>1, HeldIsCounted
  <2>3. batch' \in [Batches -> BatchStates] /\ actor' \in [Actors -> ActorStates]
    BY <1>2, <2>2, DropType, IdleType DEF BatchUnref, Actors
  <2>4. QED
    BY <1>2, <2>3 DEF TypeOK, BatchUnref, history
<1>3. QED
  BY <1>1, <1>2

LEMMA ExecuteType ==
    ASSUME TypeOK, NEW a \in Actors, NEW b \in Batches, ExecuteNothing(a, b) \/ Execute(a, b)
    PROVE  TypeOK'
BY IdleType, ReturnType DEF TypeOK, ExecuteNothing, Execute, history

(* What a thread does between calls that execute something or drop a       *)
(* reference.                                                              *)
Step(a, b) ==
    \/ \E c \in Consistencies : BatchNew(a, b, c)
    \/ \E u \in Threads : BatchRef(a, u, b)
    \/ \E op \in Operations : BatchAdd(a, b, op)
    \/ ExecuteAsync(a, b) \/ BatchWait(a, b)

LEMMA TypeStep == TypeOK /\ Placed /\ Counted /\ [Next]_vars => TypeOK'
<1> SUFFICES ASSUME TypeOK, Placed, Counted, [Next]_vars PROVE TypeOK'
  OBVIOUS
<1>1. ASSUME UNCHANGED vars PROVE TypeOK'
  BY <1>1 DEF TypeOK, vars
<1>2. ASSUME NEW a \in Actors, Internal(a) PROVE TypeOK'
  BY <1>2, CombineType, InternalType DEF Internal
<1>3. ASSUME NEW t \in Threads, NEW b \in Batches, Step(t, b) PROVE TypeOK'
  BY <1>3, ApplicationType DEF Step
<1>4. QED
  BY <1>1, <1>2, <1>3, ExecuteType, DropsType DEF Next, Application, Task, Terminated, Step, Actors

-----------------------------------------------------------------------------
(* What the steps of an actor change.                                      *)

LEMMA ExecuteEffect ==
    ASSUME TypeOK, NEW a \in Actors, NEW b \in Batches, ExecuteNothing(a, b) \/ Execute(a, b)
    PROVE  /\ \A x \in Actors \ {a} : actor'[x] = actor[x]
           /\ UNCHANGED <<batch, background, holds, added, done, calls>>
           /\ a \in Threads =>
                 /\ actor[a].pc = "idle" /\ b \in holds[a] /\ Exclusive(a, b)
                 /\ \/ actor'[a].pc = "idle" /\ actor'[a].b = NULL
                    \/ actor'[a].pc = "execute" /\ actor'[a].b = b
           /\ a \notin Threads => /\ a = b /\ actor[a].pc = "start"
                                  /\ actor'[a].b = b /\ actor'[a].pc \in {"unref", "execute"}
           /\ actor'[a].pc = "execute" => /\ actor'[a].pos = 1 /\ actor'[a].same = <<>>
                                          /\ batch[b].consistency # "SESSION"
<1>0. b \notin Threads /\ CanExecute(a, b)
  BY BatchAssumption DEF ExecuteNothing, Execute
<1>1. CASE ExecuteNothing(a, b)
  <2>1. actor'[a] = Return(a) /\ \A x \in Actors \ {a} : actor'[x] = actor[x]
    BY <1>1 DEF ExecuteNothing, TypeOK
  <2>2. /\ a \in Threads => actor'[a].pc = "idle" /\ actor'[a].b = NULL
        /\ a \notin Threads => actor'[a].pc = "unref" /\ actor'[a].b = a
    BY <2>1 DEF Return, Idle
  <2>3. QED
    BY <1>0, <1>1, <2>1, <2>2 DEF ExecuteNothing, CanExecute, history
<1>2. CASE Execute(a, b)
  <2>1. /\ actor'[a] = [Idle EXCEPT !.pc = "execute", !.b = b]
        /\ \A x \in Actors \ {a} : actor'[x] = actor[x]
    BY <1>2 DEF Execute, TypeOK
  <2>2. /\ actor'[a].pc = "execute" /\ actor'[a].b = b
        /\ actor'[a].pos = 1 /\ actor'[a].same = <<>>
    BY <2>1 DEF Idle
  <2>3. QED
    BY <1>0, <1>2, <2>1, <2>2 DEF Execute, CanExecute, history
<1>3. QED
  BY <1>1, <1>2

LEMMA CombineEffect ==
    ASSUME TypeOK, NEW a \in Actors, Combine(a)
    PROVE  LET me == actor[a]
               op == batch[me.b].list[me.pos]
               differs == me.same # <<>> /\ me.same[Len(me.same)] # op
           IN
           /\ \A x \in Actors \ {a} : actor'[x] = actor[x]
           /\ actor'[a].pc = me.pc /\ actor'[a].b = me.b /\ actor'[a].pos = me.pos + 1
           /\ UNCHANGED <<batch, background, holds, added>>
           /\ differs => actor'[a].same = <<op>> /\ Perform(me.b, me.same)
           /\ ~differs => actor'[a].same = Append(me.same, op) /\ UNCHANGED <<done, calls>>
<1> DEFINE me == actor[a]
           op == batch[me.b].list[me.pos]
           differs == me.same # <<>> /\ me.same[Len(me.same)] # op
<1>0. me \in ActorStates
  BY DEF TypeOK
<1>1. CASE differs
  <2>1. PICK ok \in BOOLEAN :
            actor' = [actor EXCEPT ![a].pos = @ + 1, ![a].same = <<op>>, ![a].ret = ok /\ @]
    BY <1>1 DEF Combine
  <2>2. /\ actor'[a] = [me EXCEPT !.pos = @ + 1, !.same = <<op>>, !.ret = ok /\ @]
        /\ \A x \in Actors \ {a} : actor'[x] = actor[x]
    BY <2>1 DEF TypeOK
  <2>3. /\ actor'[a].pc = me.pc /\ actor'[a].b = me.b /\ actor'[a].pos = me.pos + 1
        /\ actor'[a].same = <<op>>
    BY <1>0, <2>2 DEF ActorStates
  <2>4. QED
    BY <1>1, <2>2, <2>3 DEF Combine
<1>2. CASE ~differs
  <2>1. /\ actor'[a] = [me EXCEPT !.pos = @ + 1, !.same = Append(@, op)]
        /\ \A x \in Actors \ {a} : actor'[x] = actor[x]
    BY <1>2 DEF TypeOK, Combine
  <2>2. /\ actor'[a].pc = me.pc /\ actor'[a].b = me.b /\ actor'[a].pos = me.pos + 1
        /\ actor'[a].same = Append(me.same, op)
    BY <1>0, <2>1 DEF ActorStates
  <2>3. QED
    BY <1>2, <2>1, <2>2 DEF Combine
<1>3. QED
  BY <1>1, <1>2

-----------------------------------------------------------------------------
(* Where the actors are.                                                   *)

LEMMA PlacedStep == TypeOK /\ Placed /\ Alone /\ [Next]_vars => Placed'
<1> SUFFICES ASSUME TypeOK, Placed, Alone, [Next]_vars PROVE Placed'
  OBVIOUS
<1> USE DEF Placed
<1>0. ASSUME NEW t \in Threads, NEW b \in Batches PROVE t # b /\ b # NULL
  BY BatchAssumption
<1>1. ASSUME UNCHANGED vars PROVE Placed'
  BY <1>1 DEF vars
<1>2. ASSUME NEW t \in Threads, NEW b \in Batches, Step(t, b) PROVE Placed'
  <2>1. CASE ExecuteAsync(t, b)
    BY <1>0, <2>1 DEF ExecuteAsync, TypeOK, Idle, TaskPcs, Actors
  <2>2. CASE BatchWait(t, b)
    BY <1>0, <2>2 DEF BatchWait, TypeOK, TaskPcs, Actors
  <2>3. QED
    BY <1>2, <2>1, <2>2 DEF Step, BatchNew, BatchRef, BatchAdd
<1>3. ASSUME NEW a \in Actors, NEW b \in Batches, ExecuteNothing(a, b) \/ Execute(a, b)
      PROVE  Placed'
  BY <1>0, <1>3, ExecuteEffect DEF InUse, TaskPcs, Actors
<1>4. ASSUME NEW t \in Threads, NEW b \in Batches, BatchUnref(t, b) PROVE Placed'
  BY <1>0, <1>4 DEF BatchUnref, Drop, TypeOK, Idle, InUse, TaskPcs, Actors
<1>5. ASSUME NEW b \in Batches, TaskUnref(b) PROVE Placed'
  BY <1>0, <1>5 DEF TaskUnref, Drop, Completed, TypeOK, Idle, InUse, TaskPcs, Actors
<1>6. ASSUME NEW a \in Actors, Internal(a) PROVE Placed'
  <2>1. CASE Combine(a)
    <3>1. \A x \in Actors : actor'[x].pc = actor[x].pc /\ actor'[x].b = actor[x].b
      BY <2>1, CombineEffect
    <3>2. QED
      BY <2>1, <3>1 DEF Combine, Actors
  <2>2. CASE LastCall(a)
    <3>1. /\ \A x \in Actors : actor'[x].b = actor[x].b /\ (x # a => actor'[x].pc = actor[x].pc)
          /\ actor[a].pc \in {"execute", "free"} /\ actor'[a].pc \in {"executed", "freed"}
      BY <2>2 DEF LastCall, TypeOK, ActorStates
    <3>2. QED
      BY <2>2, <3>1 DEF LastCall, InUse, TaskPcs, Actors
  <2>3. CASE Executed(a)
    BY <1>0, <2>3 DEF Executed, Return, TypeOK, Idle, InUse, TaskPcs, Actors
  <2>4. CASE Free(a)
    <3>1. actor[a].b \in Batches
      BY <2>4, UsedBatch DEF Free, InUse
    <3>2. CASE a \in Threads
      <4>1. actor[actor[a].b].pc \notin TaskPcs
        BY <3>1, <3>2, BatchAssumption DEF Alone
      <4>2. QED
        BY <1>0, <2>4, <3>1, <3>2, <4>1 DEF Free, TypeOK, Idle, InUse, TaskPcs, Actors
    <3>3. CASE a \notin Threads
      <4>1. a \in Batches /\ actor[a].b = a
        BY <2>4, <3>3 DEF Free, Actors, TaskPcs
      <4>2. QED
        BY <1>0, <2>4, <3>3, <4>1 DEF Free, Completed, TypeOK, Idle, InUse, TaskPcs, Actors
    <3>4. QED
      BY <3>2, <3>3
  <2>5. QED
    BY <1>6, <2>1, <2>2, <2>3, <2>4 DEF Internal
<1>7. QED
  BY <1>1, <1>2, <1>3, <1>4, <1>5, <1>6 DEF Next, Application, Task, Terminated, Step, Actors

-----------------------------------------------------------------------------
(* The reference counts.                                                   *)

LEMMA HolderAdded ==
    ASSUME NEW b, NEW x, x \notin Holders(b), Holders(b)' = Holders(b) \cup {x}
    PROVE  Cardinality(Holders(b)') = Cardinality(Holders(b)) + 1
BY HoldersFinite, FS_AddElement

LEMMA HolderRemoved ==
    ASSUME NEW b, NEW x, x \in Holders(b), Holders(b)' = Holders(b) \ {x}
    PROVE  Cardinality(Holders(b)') = Cardinality(Holders(b)) - 1
BY HoldersFinite, FS_RemoveElement

(* A batch nobody holds.                                                   *)
LEMMA NotHeld ==
    ASSUME TypeOK, Counted, NEW b \in Batches, batch[b].ref_count = 0 PROVE Holders(b) = {}
BY HoldersFinite, FS_EmptySet DEF Counted

(* The references to the other batches are not affected by a step on b.    *)
LEMMA CountedOthers ==
    ASSUME TypeOK, Counted, NEW b \in Batches,
           \A c \in Batches \ {b} : /\ batch'[c] = batch[c] /\ added'[c] = added[c]
                                    /\ Holders(c)' = Holders(c),
           batch'[b].ref_count = Cardinality(Holders(b)'),
           batch'[b].ref_count > 0 => batch'[b].consistency # NULL /\ ~batch'[b].freed,
           batch'[b].consistency = NULL => added'[b] = <<>> /\ ~batch'[b].freed
    PROVE  Counted'
BY DEF Counted

LEMMA CountedApplication ==
    ASSUME TypeOK, Placed, Counted, NEW t \in Threads, NEW b \in Batches, Step(t, b)
    PROVE  Counted'
<1>0. /\ batch[b] \in BatchStates /\ batch[b].ref_count \in Nat /\ b \notin Threads
      /\ batch[b].ref_count = Cardinality(Holders(b))
  BY BatchAssumption DEF TypeOK, BatchStates, Counted
<1>1. ASSUME NEW c \in Consistencies, BatchNew(t, b, c) PROVE Counted'
  <2>1. batch[b].ref_count = 0
    BY <1>0, <1>1 DEF BatchNew, Counted
  <2>2. Holders(b) = {}
    BY <2>1, NotHeld
  <2>3. Holders(b)' = Holders(b) \cup {t} /\ \A d \in Batches \ {b} : Holders(d)' = Holders(d)
    BY <1>1, <2>2 DEF BatchNew, Holders, TaskHolds, TypeOK
  <2>4. Cardinality(Holders(b)') = 1
    BY <2>2, <2>3, FS_Singleton
  <2>5. /\ batch'[b].ref_count = 1 /\ batch'[b].consistency = c /\ ~batch'[b].freed
        /\ \A d \in Batches \ {b} : batch'[d] = batch[d] /\ added'[d] = added[d]
    BY <1>0, <1>1 DEF BatchNew, TypeOK, BatchStates, Counted, history
  <2>6. c # NULL
    BY BatchAssumption
  <2>7. QED
    BY <2>3, <2>4, <2>5, <2>6, CountedOthers
<1>2. ASSUME NEW u \in Threads, BatchRef(t, u, b) PROVE Counted'
  <2>1. t \in Holders(b) /\ u \notin Holders(b)
    BY <1>0, <1>2 DEF BatchRef, Holders
  <2>2. batch[b].ref_count > 0
    BY <1>0, <2>1, HeldIsCounted
  <2>3. Holders(b)' = Holders(b) \cup {u} /\ \A d \in Batches \ {b} : Holders(d)' = Holders(d)
    BY <1>2 DEF BatchRef, Holders, TaskHolds, TypeOK
  <2>4. Cardinality(Holders(b)') = batch[b].ref_count + 1
    BY <1>0, <2>1, <2>3, HolderAdded
  <2>5. batch'[b] = [batch[b] EXCEPT !.ref_count = @ + 1]
    BY <1>2 DEF BatchRef, TypeOK
  <2>6. QED
    BY <1>0, <1>2, <2>2, <2>3, <2>4, <2>5, CountedOthers
       DEF BatchRef, TypeOK, BatchStates, Counted, history
<1>3. ASSUME ExecuteAsync(t, b) PROVE Counted'
  <2>1. t \in Holders(b) /\ b \notin Holders(b)
    BY <1>0, <1>3 DEF ExecuteAsync, Exclusive, Holders, Placed, TaskHolds, TaskPcs
  <2>2. batch[b].ref_count > 0
    BY <1>0, <2>1, HeldIsCounted
  <2>3. Holders(b)' = Holders(b) \cup {b} /\ \A d \in Batches \ {b} : Holders(d)' = Holders(d)
    BY <1>3 DEF ExecuteAsync, Holders, TaskHolds, TypeOK, Actors, Idle
  <2>4. Cardinality(Holders(b)') = batch[b].ref_count + 1
    BY <1>0, <2>1, <2>3, HolderAdded
  <2>5. batch'[b] = [batch[b] EXCEPT !.ref_count = @ + 1]
    BY <1>3 DEF ExecuteAsync, TypeOK
  <2>6. QED
    BY <1>0, <1>3, <2>2, <2>3, <2>4, <2>5, CountedOthers
       DEF ExecuteAsync, TypeOK, BatchStates, Counted, history
<1>4. ASSUME NEW op \in Operations, BatchAdd(t, b, op) PROVE Counted'
  <2>1. t \in Holders(b)
    BY <1>4 DEF BatchAdd, Holders
  <2>2. batch[b].ref_count > 0 /\ batch[b].consistency # NULL
    BY <1>0, <2>1, HeldIsCounted DEF Counted
  <2>3. \A d \in Batches : Holders(d)' = Holders(d)
    BY <1>4 DEF BatchAdd, Holders, TaskHolds
  <2>4. batch'[b] = [batch[b] EXCEPT !.list = Append(@, op)]
    BY <1>4 DEF BatchAdd, TypeOK
  <2>5. QED
    BY <1>0, <1>4, <2>2, <2>3, <2>4, CountedOthers DEF BatchAdd, TypeOK, BatchStates, Counted
<1>5. ASSUME BatchWait(t, b) PROVE Counted'
  BY <1>5 DEF BatchWait, Counted, Holders, TaskHolds, history
<1>6. QED
  BY <1>1, <1>2, <1>3, <1>4, <1>5 DEF Step

(* A reference is dropped, by a thread or at the end of the task.          *)
LEMMA CountedDrop ==
    ASSUME TypeOK, Counted, NEW a \in Actors, NEW b \in Batches, NEW next, Drop(a, b, next),
           a \in Holders(b), Holders(b)' = Holders(b) \ {a}, added' = added,
           \A d \in Batches \ {b} : Holders(d)' = Holders(d)
    PROVE  Counted'
<1>0. /\ batch[b] \in BatchStates /\ batch[b].ref_count \in Nat
      /\ batch[b].ref_count = Cardinality(Holders(b))
  BY DEF TypeOK, BatchStates, Counted
<1>1. batch[b].ref_count > 0
  BY <1>0, HeldIsCounted
<1>2. Cardinality(Holders(b)') = batch[b].ref_count - 1
  BY <1>0, HolderRemoved
<1>3. batch'[b] = [batch[b] EXCEPT !.ref_count = @ - 1]
  BY DEF Drop, TypeOK
<1>4. QED
  BY <1>0, <1>1, <1>2, <1>3, CountedOthers DEF Drop, TypeOK, BatchStates, Counted

LEMMA CountedStep == TypeOK /\ Placed /\ Counted /\ Alone /\ [Next]_vars => Counted'
<1> SUFFICES ASSUME TypeOK, Placed, Counted, Alone, [Next]_vars PROVE Counted'
  OBVIOUS
<1>0. ASSUME NEW t \in Threads, NEW b \in Batches PROVE t # b /\ b # NULL
  BY BatchAssumption
<1>1. ASSUME UNCHANGED vars PROVE Counted'
  BY <1>1 DEF vars, Counted, Holders, TaskHolds
<1>2. ASSUME NEW a \in Actors, NEW b \in Batches, ExecuteNothing(a, b) \/ Execute(a, b)
      PROVE  Counted'
  <2>1. \A d \in Batches : TaskHolds(d)' = TaskHolds(d)
    BY <1>0, <1>2, ExecuteEffect DEF TaskHolds, Actors
  <2>2. QED
    BY <1>2, <2>1 DEF ExecuteNothing, Execute, Counted, Holders, history
<1>3. ASSUME NEW t \in Threads, NEW b \in Batches, BatchUnref(t, b) PROVE Counted'
  <2>1. /\ t \in Holders(b) /\ Holders(b)' = Holders(b) \ {t} /\ t \in Actors
        /\ \A d \in Batches \ {b} : Holders(d)' = Holders(d)
    BY <1>0, <1>3 DEF BatchUnref, Drop, Holders, TaskHolds, TypeOK, Actors
  <2>2. QED
    BY <1>3, <2>1, CountedDrop DEF BatchUnref, history
<1>4. ASSUME NEW b \in Batches, TaskUnref(b) PROVE Counted'
  <2>1. ~TaskHolds(b)' /\ \A d \in Batches \ {b} : TaskHolds(d)' = TaskHolds(d)
    BY <1>4 DEF TaskUnref, Drop, Completed, TaskHolds, TypeOK, Actors, Idle
  <2>2. /\ b \in Holders(b) /\ Holders(b)' = Holders(b) \ {b} /\ b \in Actors
        /\ \A d \in Batches \ {b} : Holders(d)' = Holders(d)
    BY <1>0, <1>4, <2>1 DEF TaskUnref, Holders, TaskHolds, Actors
  <2>3. QED
    BY <1>4, <2>2, CountedDrop DEF TaskUnref, history
<1>5. ASSUME NEW a \in Actors, Internal(a) PROVE Counted'
  <2>0. a \in Batches => actor[a].b = a
    BY <1>5 DEF Internal, Combine, LastCall, Executed, Free, Placed, TaskPcs
  <2>1. \A d \in Batches : TaskHolds(d)' = TaskHolds(d)
    <3>1. CASE Combine(a)
      BY <3>1, CombineEffect DEF TaskHolds, Actors
    <3>2. CASE LastCall(a)
      BY <3>2 DEF LastCall, TaskHolds, TypeOK, ActorStates, Actors
    <3>3. CASE Executed(a)
      BY <1>0, <3>3 DEF Executed, Return, Idle, TaskHolds, TypeOK, Actors
    <3>4. CASE Free(a)
      BY <1>0, <3>4 DEF Free, Completed, Idle, TaskHolds, TypeOK, Actors
    <3>5. QED
      BY <1>5, <3>1, <3>2, <3>3, <3>4 DEF Internal
  <2>2. \A d \in Batches : Holders(d)' = Holders(d)
    BY <1>5, <2>1 DEF Internal, Combine, LastCall, Executed, Free, Holders
  <2>3. CASE Combine(a) \/ LastCall(a)
    BY <2>2, <2>3 DEF Combine, LastCall, Counted
  <2>4. actor[a].b \in Batches
    BY <1>5, UsedBatch DEF Internal, Combine, LastCall, Executed, Free, InUse
  <2>5. batch[actor[a].b] \in BatchStates
    BY <2>4 DEF TypeOK
  <2>6. CASE Executed(a)
    <3>1. batch'[actor[a].b] = [batch[actor[a].b] EXCEPT !.list = <<>>]
      BY <2>4, <2>6 DEF Executed, TypeOK
    <3>2. QED
      BY <2>2, <2>4, <2>5, <2>6, <3>1 DEF Executed, TypeOK, BatchStates, Counted, history
  <2>7. CASE Free(a)
    <3>1. batch'[actor[a].b] = [batch[actor[a].b] EXCEPT !.freed = TRUE, !.list = <<>>]
      BY <2>4, <2>7 DEF Free, TypeOK
    <3>2. batch[actor[a].b].ref_count = 0 /\ batch[actor[a].b].consistency # NULL
      BY <2>7 DEF Free, Alone
    <3>3. QED
      BY <2>2, <2>4, <2>5, <2>7, <3>1, <3>2 DEF Free, TypeOK, BatchStates, Counted, history
  <2>8. QED
    BY <1>5, <2>3, <2>6, <2>7 DEF Internal
<1>6. QED
  BY <1>1, <1>2, <1>3, <1>4, <1>5, CountedApplication
     DEF Next, Application, Task, Terminated, Step, Actors

-----------------------------------------------------------------------------
(* Nobody shares the list of a batch.                                      *)

LEMMA Unique ==
    ASSUME TypeOK, Placed, Alone, NEW a \in Actors, NEW x \in Actors,
           actor[a].pc \in InUse, actor[x].pc \in InUse, actor[a].b = actor[x].b
    PROVE  a = x
BY BatchAssumption DEF Placed, Alone, InUse, TaskPcs, Actors

(* A batch that is used exists.                                            *)
LEMMA UsedExists ==
    ASSUME TypeOK, Placed, Counted, Alone, NEW a \in Actors, actor[a].pc \in InUse
    PROVE  /\ actor[a].b \in Batches
           /\ batch[actor[a].b].consistency # NULL /\ ~batch[actor[a].b].freed
           /\ batch[actor[a].b].ref_count > 0 => actor[a].pc \in {"execute", "executed"}
<1>1. actor[a].b \in Batches
  BY UsedBatch
<1>2. CASE actor[a].pc \in {"execute", "executed"}
  <2>1. a \in Holders(actor[a].b)
    BY <1>2 DEF Alone
  <2>2. batch[actor[a].b].ref_count > 0
    BY <1>1, <2>1, HeldIsCounted
  <2>3. QED
    BY <1>1, <1>2, <2>2 DEF Counted
<1>3. CASE actor[a].pc \in {"free", "freed"}
  BY <1>1, <1>3 DEF Alone
<1>4. QED
  BY <1>2, <1>3 DEF InUse

(* The step of one actor: what it leaves to the others and what it must    *)
(* satisfy itself.                                                         *)
LEMMA AloneFrame ==
    ASSUME TypeOK, TypeOK', Placed, Placed', Alone, NEW a \in Actors,
           \A x \in Actors \ {a} : actor'[x] = actor[x],
           \A x \in Actors \ {a} : actor[x].pc \in InUse =>
              /\ batch'[actor[x].b].consistency = batch[actor[x].b].consistency
              /\ batch'[actor[x].b].ref_count = batch[actor[x].b].ref_count
              /\ batch'[actor[x].b].freed = batch[actor[x].b].freed
              /\ x \in Holders(actor[x].b) => x \in Holders(actor[x].b)',
           a \in Threads /\ actor'[a].b # NULL =>
              /\ \A u \in Threads \ {a} : actor[u].b # actor'[a].b
              /\ actor[actor'[a].b].pc \notin TaskPcs,
           a \in Batches /\ actor'[a].pc \in TaskPcs => \A u \in Threads : actor[u].b # a,
           actor'[a].pc \in {"execute", "executed"} =>
              /\ a \in Holders(actor[a].b)'
              /\ batch'[actor'[a].b].consistency # "SESSION",
           actor'[a].pc \in {"free", "freed"} =>
              /\ batch'[actor'[a].b].ref_count = 0
              /\ ~batch'[actor'[a].b].freed
              /\ batch'[actor'[a].b].consistency # NULL,
           actor'[a].pc = "free" => batch'[actor'[a].b].consistency = "SESSION"
    PROVE  Alone'
<1>0. ASSUME NEW t \in Threads, NEW b \in Batches PROVE t # b
  BY BatchAssumption
<1>1. ASSUME NEW t \in Threads, NEW u \in Threads, actor'[t].b # NULL, actor'[t].b = actor'[u].b
      PROVE  t = u
  BY <1>1 DEF Alone, Actors
<1>2. ASSUME NEW t \in Threads, actor'[t].b # NULL PROVE actor'[actor'[t].b].pc \notin TaskPcs
  <2>1. actor'[t].b \in Batches
    BY <1>2 DEF TypeOK, ActorStates, Actors
  <2>2. CASE t = a
    BY <1>0, <1>2, <2>1, <2>2 DEF Actors
  <2>3. CASE t # a
    BY <1>2, <2>1, <2>3 DEF Actors, Alone
  <2>4. QED
    BY <2>2, <2>3
<1>3. ASSUME NEW x \in Actors
      PROVE  /\ actor'[x].pc \in {"execute", "executed"} =>
                   /\ x \in Holders(actor[x].b)'
                   /\ batch'[actor'[x].b].consistency # "SESSION"
             /\ actor'[x].pc \in {"free", "freed"} =>
                   /\ batch'[actor'[x].b].ref_count = 0
                   /\ ~batch'[actor'[x].b].freed
                   /\ batch'[actor'[x].b].consistency # NULL
             /\ actor'[x].pc = "free" => batch'[actor'[x].b].consistency = "SESSION"
  <2>1. CASE x = a
    BY <2>1
  <2>2. CASE x # a
    BY <2>2 DEF Alone, InUse
  <2>3. QED
    BY <2>1, <2>2
<1>4. QED
  BY <1>1, <1>2, <1>3 DEF Alone

LEMMA AloneApplication ==
    ASSUME TypeOK, TypeOK', Placed, Placed', Counted, Alone,
           NEW t \in Threads, NEW b \in Batches, Step(t, b)
    PROVE  Alone'
<1>0. batch[b] \in BatchStates /\ t \in Actors /\ b \in Actors
  BY DEF TypeOK, Actors
<1>1. \A x \in Actors : actor[x].pc \in InUse =>
          /\ actor[x].b \in Batches /\ batch[actor[x].b].consistency # NULL
          /\ batch[actor[x].b].ref_count > 0 => actor[x].pc \in {"execute", "executed"}
  BY UsedExists
<1>2. CASE \E c \in Consistencies : BatchNew(t, b, c)
  <2>1. /\ actor' = actor /\ \A d \in Batches : Holders(d) \subseteq Holders(d)'
        /\ \A d \in Batches \ {b} : batch'[d] = batch[d]
    BY <1>2 DEF BatchNew, Holders, TaskHolds, TypeOK
  <2>2. \A x \in Actors : actor[x].pc \in InUse => actor[x].b # b
    BY <1>1, <1>2 DEF BatchNew
  <2>3. QED
    BY <1>1, <2>1, <2>2 DEF Alone, InUse
<1>3. CASE \E u \in Threads : BatchRef(t, u, b)
  <2>1. t \in Holders(b)
    BY <1>3 DEF BatchRef, Holders
  <2>2. batch[b].ref_count > 0
    BY <2>1, HeldIsCounted
  <2>3. /\ actor' = actor /\ \A d \in Batches : Holders(d) \subseteq Holders(d)'
        /\ \A d \in Batches \ {b} : batch'[d] = batch[d]
        /\ batch'[b].consistency = batch[b].consistency
    BY <1>0, <1>3 DEF BatchRef, Holders, TaskHolds, TypeOK, BatchStates
  <2>4. QED
    BY <1>1, <2>2, <2>3 DEF Alone, InUse
<1>4. CASE \E op \in Operations : BatchAdd(t, b, op)
  <2>1. /\ actor' = actor /\ \A d \in Batches : Holders(d) \subseteq Holders(d)'
        /\ \A d \in Batches : /\ batch'[d].consistency = batch[d].consistency
                              /\ batch'[d].ref_count = batch[d].ref_count
                              /\ batch'[d].freed = batch[d].freed
    BY <1>0, <1>4, SMTT(40) DEF BatchAdd, Holders, TaskHolds, TypeOK, BatchStates
  <2>2. QED
    BY <1>1, <2>1 DEF Alone, InUse
<1>5. CASE ExecuteAsync(t, b)
  <2>0. /\ actor'[b].pc = "start" /\ \A x \in Actors \ {b} : actor'[x] = actor[x]
        /\ batch' = [batch EXCEPT ![b].ref_count = @ + 1] /\ holds' = holds
    BY <1>0, <1>5 DEF ExecuteAsync, TypeOK, Idle
  <2>1. t \in Holders(b) /\ actor[b].pc \notin TaskPcs
    BY <1>5 DEF ExecuteAsync, Exclusive, Holders, Placed
  <2>2. batch[b].ref_count > 0
    BY <2>1, HeldIsCounted
  <2>3. ASSUME NEW x \in Actors \ {b}, actor[x].pc \in InUse
        PROVE  /\ batch'[actor[x].b].consistency = batch[actor[x].b].consistency
               /\ batch'[actor[x].b].ref_count = batch[actor[x].b].ref_count
               /\ batch'[actor[x].b].freed = batch[actor[x].b].freed
               /\ x \in Holders(actor[x].b) => x \in Holders(actor[x].b)'
    <3>1. actor[x].b # b
      BY <1>5, <2>3, BatchAssumption DEF ExecuteAsync, Exclusive, Placed, InUse, TaskPcs, Actors
    <3>2. batch'[actor[x].b] = batch[actor[x].b]
      BY <1>1, <2>0, <2>3, <3>1 DEF TypeOK
    <3>3. x \in Holders(actor[x].b) => x \in Holders(actor[x].b)'
      BY <1>1, <2>0, <2>3, <3>1 DEF Holders, TaskHolds, Actors
    <3>4. QED
      BY <3>2, <3>3
  <2>4. \A u \in Threads : actor[u].b # b
    BY <1>5, BatchAssumption DEF ExecuteAsync, Exclusive, Placed
  <2>5. QED
    BY <1>0, <2>0, <2>3, <2>4, BatchAssumption, AloneFrame
<1>6. CASE BatchWait(t, b)
  BY <1>6 DEF BatchWait, Alone, Holders, TaskHolds
<1>7. QED
  BY <1>2, <1>3, <1>4, <1>5, <1>6 DEF Step

LEMMA AloneExecute ==
    ASSUME TypeOK, TypeOK', Placed, Placed', Counted, Alone,
           NEW a \in Actors, NEW b \in Batches, ExecuteNothing(a, b) \/ Execute(a, b)
    PROVE  Alone'
<1>1. \A d \in Batches : TaskHolds(d)' = TaskHolds(d)
  BY ExecuteEffect, BatchAssumption DEF TaskHolds, Actors
<1>2. \A d \in Batches : Holders(d)' = Holders(d)
  BY <1>1, ExecuteEffect DEF Holders
<1>3. \A x \in Actors : actor[x].pc \in InUse => actor[x].b \in Batches
  BY UsedBatch
<1>4. a \in Threads => actor[b].pc \notin TaskPcs /\ \A u \in Threads \ {a} : actor[u].b # b
  BY ExecuteEffect DEF Exclusive, Placed
<1>5. a \notin Threads => a = b /\ \A u \in Threads : actor[u].b # b
  BY ExecuteEffect, BatchAssumption DEF Alone, TaskPcs
<1>6. actor'[a].pc = "execute" => a \in Holders(b)
  BY ExecuteEffect DEF Holders, TaskHolds
<1>7. /\ \A x \in Actors \ {a} : actor'[x] = actor[x] 
      /\ batch' = batch
      /\ actor'[a].pc \in {"idle", "execute", "unref"}
      /\ actor'[a].pc = "execute" => actor'[a].b = b /\ batch[b].consistency # "SESSION"
      /\ a \in Threads => actor'[a].b \in {NULL, b}
  BY ExecuteEffect
<1>8. a \in Batches => a \notin Threads
  BY BatchAssumption
<1>9. QED
  BY <1>2, <1>3, <1>4, <1>5, <1>6, <1>7, <1>8, AloneFrame

(* A reference is dropped: if it was the last one, nobody uses the batch   *)
(* and nobody can begin to.                                                *)
LEMMA AloneDrop ==
    ASSUME TypeOK, TypeOK', Placed, Placed', Counted, Alone,
           NEW a \in Actors, NEW b \in Batches, NEW next \in {Idle, Completed(b)},
           Drop(a, b, next), a \in Holders(b), Holders(b)' = Holders(b) \ {a},
           actor[a].pc \in {"idle", "unref"}, a \in Threads \/ a = b,
           \A d \in Batches \ {b} : Holders(d)' = Holders(d)
    PROVE  Alone'
<1>0. batch[b] \in BatchStates /\ batch[b].ref_count \in Nat \ {0} /\ b \notin Threads
  BY HeldIsCounted, BatchAssumption DEF TypeOK
<1>1. /\ batch'[b] = [batch[b] EXCEPT !.ref_count = @ - 1]
      /\ \A d \in Batches \ {b} : batch'[d] = batch[d]
      /\ \A x \in Actors \ {a} : actor'[x] = actor[x]
  BY DEF Drop, TypeOK
<1>2. \A x \in Actors \ {a} : actor[x].pc \in InUse =>
          /\ actor[x].b \in Batches
          /\ actor[x].b = b => x \in Holders(b) /\ actor[x].pc \in {"execute", "executed"}
  BY <1>0, UsedExists DEF Alone
<1>3. CASE batch[b].ref_count > 1
  <2>1. actor'[a] = next
    BY <1>3 DEF Drop, TypeOK
  <2>2. actor'[a].pc \in {"idle", "completed"} /\ actor'[a].b = NULL
    BY <2>1 DEF Idle, Completed
  <2>3. \A x \in Actors \ {a} : actor[x].pc \in InUse =>
          /\ batch'[actor[x].b].consistency = batch[actor[x].b].consistency
          /\ batch'[actor[x].b].freed = batch[actor[x].b].freed
          /\ x \in Holders(actor[x].b) => x \in Holders(actor[x].b)'
          /\ actor[x].b # b => batch'[actor[x].b].ref_count = batch[actor[x].b].ref_count
    BY <1>0, <1>1, <1>2 DEF BatchStates
  <2>4. \A x \in Actors \ {a} : actor'[x].pc \in {"free", "freed"} => actor[x].b # b
    BY <1>1, <1>2 DEF InUse
  <2>5. QED
    <3>1. \A t, u \in Threads : actor'[t].b # NULL /\ actor'[t].b = actor'[u].b => t = u
      BY <1>1, <2>2 DEF Alone, Actors
    <3>2. ASSUME NEW t \in Threads, actor'[t].b # NULL
          PROVE  actor'[actor'[t].b].pc \notin TaskPcs
      <4>1. t # a /\ actor'[t].b = actor[t].b /\ actor[t].b \in Actors
        BY <1>1, <2>2, <3>2, SMTT(40) DEF TypeOK, ActorStates, Actors
      <4>2. QED
        BY <1>1, <2>2, <3>2, <4>1 DEF Alone, TaskPcs
    <3>3. ASSUME NEW x \in Actors
          PROVE  /\ actor'[x].pc \in {"execute", "executed"} =>
                       /\ x \in Holders(actor[x].b)'
                       /\ batch'[actor'[x].b].consistency # "SESSION"
                 /\ actor'[x].pc \in {"free", "freed"} =>
                       /\ batch'[actor'[x].b].ref_count = 0
                       /\ ~batch'[actor'[x].b].freed
                       /\ batch'[actor'[x].b].consistency # NULL
                 /\ actor'[x].pc = "free" => batch'[actor'[x].b].consistency = "SESSION"
      <4>1. CASE x = a
        BY <2>2, <4>1
      <4>2. CASE x # a
        BY <1>1, <2>3, <2>4, <4>2 DEF Alone, InUse
      <4>3. QED
        BY <4>1, <4>2
    <3>4. QED
      BY <3>1, <3>2, <3>3 DEF Alone
<1>4. CASE batch[b].ref_count = 1
  <2>1. Holders(b) = {a}
    BY <1>4, HeldIsCounted
  <2>2. \A x \in Actors \ {a} : actor[x].pc \in InUse => actor[x].b # b
    BY <1>2, <2>1
  <2>3. /\ actor'[a].b = b /\ actor'[a].pc \in {"free", "freed"}
        /\ actor'[a].pc = "free" => batch[b].consistency = "SESSION"
    BY <1>4 DEF Drop, TypeOK, Idle
  <2>4. /\ batch'[b].ref_count = 0 /\ batch'[b].consistency = batch[b].consistency
        /\ ~batch'[b].freed /\ batch[b].consistency # NULL
    BY <1>0, <1>1, <1>4 DEF BatchStates, Counted
  <2>5. \A u \in Threads \ {a} : actor[u].b # b
    BY <2>2, BatchAssumption DEF Placed, Actors
  <2>6. a \in Threads => actor[b].pc \notin TaskPcs
    <3>1. ASSUME a \in Threads, actor[b].pc \in TaskPcs PROVE FALSE
      <4>1. b \in Actors \ {a} /\ actor[b].b = b
        BY <1>0, <3>1 DEF Actors, Placed
      <4>2. ~TaskHolds(b)
        BY <1>0, <2>1, <3>1 DEF Holders
      <4>3. actor[b].pc \in InUse
        BY <3>1, <4>2 DEF TaskHolds, TaskPcs, InUse
      <4>4. QED
        BY <2>2, <4>1, <4>3
    <3>2. QED
      BY <3>1
  <2>7. a \in Batches => a = b /\ \A u \in Threads : actor[u].b # a
    BY <2>5, BatchAssumption
  <2>8. \A x \in Actors \ {a} : actor[x].pc \in InUse =>
            /\ batch'[actor[x].b] = batch[actor[x].b]
            /\ Holders(actor[x].b)' = Holders(actor[x].b)
    BY <1>1, <1>2, <2>2
  <2>9. /\ actor'[a].pc \notin {"execute", "executed"}
        /\ batch'[actor'[a].b].ref_count = 0 /\ ~batch'[actor'[a].b].freed
        /\ batch'[actor'[a].b].consistency # NULL
        /\ actor'[a].pc = "free" => batch'[actor'[a].b].consistency = "SESSION"
    BY <2>3, <2>4
  <2>10. a \in Threads => /\ \A u \in Threads \ {a} : actor[u].b # actor'[a].b
                          /\ actor[actor'[a].b].pc \notin TaskPcs
    BY <2>3, <2>5, <2>6
  <2>11. QED
    BY <1>1, <2>7, <2>8, <2>9, <2>10, AloneFrame
<1>5. QED
  BY <1>0, <1>3, <1>4

LEMMA LastCallEffect ==
    ASSUME TypeOK, NEW a \in Actors, LastCall(a)
    PROVE  /\ \A x \in Actors \ {a} : actor'[x] = actor[x]
           /\ actor'[a].b = actor[a].b /\ actor'[a].same = actor[a].same
           /\ actor'[a].pc = IF actor[a].pc = "execute" THEN "executed" ELSE "freed"
           /\ UNCHANGED <<batch, background, holds, added>>
<1>1. actor[a] \in ActorStates
  BY DEF TypeOK
<1>2. /\ \A x \in Actors \ {a} : actor'[x] = actor[x]
      /\ actor'[a] = [actor[a] EXCEPT !.pc = IF @ = "execute" THEN "executed" ELSE "freed"]
  BY DEF LastCall, TypeOK
<1>3. QED
  BY <1>1, <1>2 DEF LastCall, ActorStates

(* The last step of an execution, or of the batch.                         *)
LEMMA EndEffect ==
    ASSUME TypeOK, Placed, NEW a \in Actors, Executed(a) \/ Free(a)
    PROVE  LET b == actor[a].b IN
           /\ b \in Batches
           /\ \A x \in Actors \ {a} : actor'[x] = actor[x]
           /\ actor'[a].pc \in {"idle", "completed", "unref"}
           /\ actor'[a].pc = "unref" => Executed(a) /\ actor'[a].b = a /\ a \notin Threads
           /\ actor'[a].pc # "unref" => actor'[a].b = NULL
           /\ \A d \in Batches \ {b} : batch'[d] = batch[d]
           /\ batch'[b].list = <<>> /\ batch'[b].consistency = batch[b].consistency
           /\ batch'[b].ref_count = batch[b].ref_count
           /\ Executed(a) => batch'[b].freed = batch[b].freed
           /\ Free(a) => batch'[b].freed
           /\ UNCHANGED <<holds, added, done, calls>>
<1> DEFINE b == actor[a].b
<1>1. b \in Batches /\ actor[a] \in ActorStates
  BY UsedBatch DEF TypeOK, Executed, Free, InUse
<1>2. batch[b] \in BatchStates
  BY <1>1 DEF TypeOK
<1>3. CASE Executed(a)
  <2>1. /\ actor'[a] = Return(a) /\ \A x \in Actors \ {a} : actor'[x] = actor[x]
        /\ batch'[b] = [batch[b] EXCEPT !.list = <<>>]
        /\ \A d \in Batches \ {b} : batch'[d] = batch[d]
    BY <1>1, <1>3 DEF Executed, TypeOK
  <2>2. ~Free(a)
    BY <1>3 DEF Executed, Free
  <2>3. /\ batch'[b].list = <<>> /\ batch'[b].consistency = batch[b].consistency
        /\ batch'[b].ref_count = batch[b].ref_count /\ batch'[b].freed = batch[b].freed
    BY <1>2, <2>1 DEF BatchStates
  <2>4. \/ a \in Threads /\ actor'[a].pc = "idle" /\ actor'[a].b = NULL
        \/ a \notin Threads /\ actor'[a].pc = "unref" /\ actor'[a].b = a
    BY <2>1 DEF Return, Idle
  <2>5. UNCHANGED <<holds, added, done, calls>>
    BY <1>3 DEF Executed, history
  <2>6. QED
    BY <1>1, <1>3, <2>1, <2>2, <2>3, <2>4, <2>5
<1>4. CASE Free(a)
  <2>1. /\ actor'[a] = IF a \in Threads THEN Idle ELSE Completed(a)
        /\ \A x \in Actors \ {a} : actor'[x] = actor[x]
        /\ batch'[b] = [batch[b] EXCEPT !.freed = TRUE, !.list = <<>>]
        /\ \A d \in Batches \ {b} : batch'[d] = batch[d]
    BY <1>1, <1>4 DEF Free, TypeOK
  <2>2. ~Executed(a)
    BY <1>4 DEF Executed, Free
  <2>3. /\ batch'[b].list = <<>> /\ batch'[b].consistency = batch[b].consistency
        /\ batch'[b].ref_count = batch[b].ref_count /\ batch'[b].freed
    BY <1>2, <2>1 DEF BatchStates
  <2>4. actor'[a].pc \in {"idle", "completed"} /\ actor'[a].b = NULL
    BY <2>1 DEF Completed, Idle
  <2>5. UNCHANGED <<holds, added, done, calls>>
    BY <1>4 DEF Free, history
  <2>6. QED
    BY <1>1, <1>4, <2>1, <2>2, <2>3, <2>4, <2>5
<1>5. QED
  BY <1>3, <1>4

LEMMA AloneInternal ==
    ASSUME TypeOK, TypeOK', Placed, Placed', Counted, Alone, NEW a \in Actors, Internal(a)
    PROVE  Alone'
<1>0. actor[a].pc \in InUse
  BY DEF Internal, Combine, LastCall, Executed, Free, InUse
<1>1. CASE Combine(a) \/ LastCall(a)
  <2>1. /\ batch' = batch /\ holds' = holds
        /\ \A x \in Actors \ {a} : actor'[x] = actor[x]
        /\ actor'[a].b = actor[a].b
        /\ \/ actor'[a].pc = actor[a].pc
           \/ actor[a].pc = "execute" /\ actor'[a].pc = "executed"
           \/ actor[a].pc = "free" /\ actor'[a].pc = "freed"
    BY <1>1, CombineEffect, LastCallEffect DEF LastCall
  <2>2. \A d \in Batches : Holders(d)' = Holders(d)
    BY <2>1 DEF Holders, TaskHolds, Actors
  <2>3. \A x \in Actors : actor[x].pc \in InUse => actor[x].b \in Batches
    BY UsedBatch
  <2>4. \A x \in Actors : /\ actor'[x].b = actor[x].b
                          /\ actor'[x].pc \in TaskPcs <=> actor[x].pc \in TaskPcs
                          /\ actor'[x].pc \in InUse <=> actor[x].pc \in InUse
    BY <2>1 DEF TaskPcs, InUse
  <2>5. ASSUME NEW t \in Threads, actor'[t].b # NULL PROVE actor'[actor'[t].b].pc \notin TaskPcs
    <3>1. actor[t].b \in Actors
      BY <2>4, <2>5 DEF TypeOK, ActorStates, Actors
    <3>2. QED
      BY <2>4, <2>5, <3>1 DEF Alone, Actors
  <2>6. \A t, u \in Threads : actor'[t].b # NULL /\ actor'[t].b = actor'[u].b => t = u
    BY <2>4 DEF Alone, Actors
  <2>7. ASSUME NEW x \in Actors
        PROVE  /\ actor'[x].pc \in {"execute", "executed"} =>
                     /\ x \in Holders(actor[x].b)'
                     /\ batch'[actor'[x].b].consistency # "SESSION"
               /\ actor'[x].pc \in {"free", "freed"} =>
                     /\ batch'[actor'[x].b].ref_count = 0
                     /\ ~batch'[actor'[x].b].freed
                     /\ batch'[actor'[x].b].consistency # NULL
               /\ actor'[x].pc = "free" => batch'[actor'[x].b].consistency = "SESSION"
    <3>1. Holders(actor[x].b)' = Holders(actor[x].b) \/ actor[x].pc \notin InUse
      BY <2>2, <2>3, <2>4
    <3>2. QED
      BY <2>1, <2>4, <3>1 DEF Alone, InUse
  <2>8. QED
    BY <2>5, <2>6, <2>7 DEF Alone
<1>2. CASE Executed(a) \/ Free(a)
  <2>1. ASSUME NEW x \in Actors \ {a}, actor[x].pc \in InUse
        PROVE  /\ batch'[actor[x].b] = batch[actor[x].b]
               /\ x \in Holders(actor[x].b) => x \in Holders(actor[x].b)'
    <3>1. actor[x].b \in Batches /\ actor[x].b # actor[a].b
      BY <1>0, <2>1, UsedBatch, Unique
    <3>2. QED
      BY <1>2, <2>1, <3>1, EndEffect DEF Holders, TaskHolds, Actors
  <2>2. a \in Batches => a = actor[a].b /\ a \notin Threads
    BY <1>0, BatchAssumption DEF Placed, InUse, TaskPcs
  <2>3. a \in Batches => \A u \in Threads : actor[u].b # a
    BY <1>0, <2>2, BatchAssumption DEF Alone, InUse, TaskPcs
  <2>4. /\ \A x \in Actors \ {a} : actor'[x] = actor[x]
        /\ actor'[a].pc \notin InUse /\ (a \in Threads => actor'[a].b = NULL)
    BY <1>2, EndEffect DEF InUse
  <2>5. QED
    BY <2>1, <2>3, <2>4, AloneFrame DEF InUse
<1>3. QED
  BY <1>1, <1>2 DEF Internal

LEMMA AloneStep == /\ TypeOK /\ Placed /\ Counted /\ Alone /\ TypeOK' /\ Placed' /\ [Next]_vars
                   => Alone'
<1> SUFFICES ASSUME TypeOK, Placed, Counted, Alone, TypeOK', Placed', [Next]_vars PROVE Alone'
  OBVIOUS
<1>0. ASSUME NEW t \in Threads, NEW b \in Batches PROVE t # b
  BY BatchAssumption
<1>1. ASSUME UNCHANGED vars PROVE Alone'
  BY <1>1 DEF vars, Alone, Holders, TaskHolds
<1>2. ASSUME NEW t \in Threads, NEW b \in Batches, BatchUnref(t, b) PROVE Alone'
  <2>1. /\ t \in Holders(b) /\ Holders(b)' = Holders(b) \ {t} /\ t \in Actors
        /\ \A d \in Batches \ {b} : Holders(d)' = Holders(d)
    BY <1>0, <1>2 DEF BatchUnref, Drop, Holders, TaskHolds, TypeOK, Actors
  <2>2. QED
    BY <1>2, <2>1, AloneDrop DEF BatchUnref
<1>3. ASSUME NEW b \in Batches, TaskUnref(b) PROVE Alone'
  <2>1. ~TaskHolds(b)' /\ \A d \in Batches \ {b} : TaskHolds(d)' = TaskHolds(d)
    BY <1>3 DEF TaskUnref, Drop, Completed, TaskHolds, TypeOK, Actors, Idle
  <2>2. /\ b \in Holders(b) /\ Holders(b)' = Holders(b) \ {b} /\ b \in Actors
        /\ \A d \in Batches \ {b} : Holders(d)' = Holders(d)
    BY <1>0, <1>3, <2>1 DEF TaskUnref, Holders, TaskHolds, Actors
  <2>3. QED
    BY <1>3, <2>2, AloneDrop DEF TaskUnref
<1>4. QED
  BY <1>1, <1>2, <1>3, AloneApplication, AloneExecute, AloneInternal
     DEF Next, Application, Task, Terminated, Step, Actors

LEMMA ControlStep == TypeOK /\ Control /\ [Next]_vars => TypeOK' /\ Control'
BY TypeStep, PlacedStep, CountedStep, AloneStep DEF Control

-----------------------------------------------------------------------------
(* Sequences: what was added, executed, collected, and what is listed.     *)

(* An operation is added.                                                  *)
LEMMA AddedOne ==
    ASSUME NEW S, NEW all \in Seq(S), NEW ran \in Seq(S), NEW list \in Seq(S), NEW e \in S
    PROVE  /\ Begins(ran, all) => Begins(ran, Append(all, e))
           /\ Ends(list, all) => Ends(Append(list, e), Append(all, e))
           /\ Len(all) = Len(ran) + Len(list) =>
                 Len(Append(all, e)) = Len(ran) + Len(Append(list, e))
<1>1. Begins(ran, all) => Begins(ran, Append(all, e))
  BY DEF Begins
<1>2. ASSUME Ends(list, all) PROVE Ends(Append(list, e), Append(all, e))
  <2> DEFINE l == Append(list, e)
             s == Append(all, e)
  <2>1. Len(l) = Len(list) + 1 /\ Len(s) = Len(all) + 1 /\ Len(list) <= Len(all)
    BY <1>2 DEF Ends
  <2>2. ASSUME NEW i \in 1 .. Len(list) + 1 PROVE l[i] = s[Len(all) - Len(list) + i]
    <3>1. CASE i = Len(list) + 1
      <4>1. Len(all) - Len(list) + i = Len(all) + 1
        BY <3>1
      <4>2. QED
        BY <3>1, <4>1
    <3>2. CASE i \in 1 .. Len(list)
      <4>1. Len(all) - Len(list) + i \in 1 .. Len(all)
        BY <2>1, <3>2
      <4>2. QED
        BY <1>2, <3>2, <4>1 DEF Ends
    <3>3. i = Len(list) + 1 \/ i \in 1 .. Len(list)
      OBVIOUS
    <3>4. QED
      BY <3>1, <3>2, <3>3
  <2>3. Len(s) - Len(l) = Len(all) - Len(list)
    BY <2>1
  <2>4. QED
    BY <2>1, <2>2, <2>3 DEF Ends
<1>3. QED
  BY <1>1, <1>2

(* An execution starts.                                                    *)
LEMMA AtStart ==
    ASSUME NEW S, NEW all \in Seq(S), NEW ran \in Seq(S), NEW list \in Seq(S),
           Len(all) = Len(ran) + Len(list)
    PROVE  Between(all, ran, list, <<>>, 1)
BY DEF Between, Collected

(* The operation at a position of the list is the next one of all.         *)
LEMMA AtPosition ==
    ASSUME NEW S, NEW all \in Seq(S), NEW ran \in Seq(S), NEW list \in Seq(S),
           NEW same \in Seq(S), NEW pos \in Nat \ {0}, pos <= Len(list),
           Ends(list, all), Between(all, ran, list, same, pos)
    PROVE  /\ list[pos] \in S /\ list[pos] = all[Len(ran) + Len(same) + 1]
           /\ Len(ran) + Len(same) + 1 <= Len(all)
<1>1. Len(all) - Len(list) + pos = Len(ran) + Len(same) + 1
  BY DEF Between
<1>2. QED
  BY <1>1, SMTT(40) DEF Ends

LEMMA Lengths ==
    ASSUME NEW S, NEW s \in Seq(S) PROVE Len(s) \in Nat
OBVIOUS

(* One more equal operation is collected.                                  *)
LEMMA CollectedGrows ==
    ASSUME NEW S, NEW all \in Seq(S), NEW same \in Seq(S), NEW n \in Nat, NEW op \in S,
           op = all[n + Len(same) + 1], Collected(same, all, n),
           same = <<>> \/ same[Len(same)] = op
    PROVE  Collected(Append(same, op), all, n)
<1> DEFINE more == Append(same, op)
<1>1. more \in Seq(S) /\ Len(more) = Len(same) + 1 /\ more[Len(more)] = op
  OBVIOUS
<1>2. ASSUME NEW i \in 1 .. Len(more) PROVE more[i] = all[n + i] /\ more[i] = more[Len(more)]
  <2>1. CASE i = Len(more)
    BY <1>1, <2>1
  <2>2. CASE i # Len(more)
    <3>1. i \in 1 .. Len(same) /\ more[i] = same[i] /\ same # <<>>
      BY <1>1, <2>2
    <3>2. QED
      BY <1>1, <3>1 DEF Collected
  <2>3. QED
    BY <2>1, <2>2
<1>3. QED
  BY <1>2 DEF Collected

(* A round of the loop that only collects.                                 *)
LEMMA CollectsOne ==
    ASSUME NEW S, NEW all \in Seq(S), NEW ran \in Seq(S), NEW list \in Seq(S),
           NEW same \in Seq(S), NEW pos \in Nat \ {0}, pos <= Len(list),
           Ends(list, all), Between(all, ran, list, same, pos),
           same = <<>> \/ same[Len(same)] = list[pos]
    PROVE  Between(all, ran, list, Append(same, list[pos]), pos + 1)
<1>1. list[pos] \in S /\ list[pos] = all[Len(ran) + Len(same) + 1]
  BY AtPosition
<1>2. Collected(Append(same, list[pos]), all, Len(ran))
  BY <1>1, CollectedGrows DEF Between
<1>3. Len(Append(same, list[pos])) = Len(same) + 1
  BY <1>1
<1>4. /\ Len(ran) + (Len(same) + 1) + Len(list) + 1 = Len(all) + (pos + 1)
      /\ pos + 1 <= Len(list) + 1
  <2>1. Len(ran) \in Nat /\ Len(same) \in Nat /\ Len(list) \in Nat /\ Len(all) \in Nat
    BY Lengths
  <2>2. Len(ran) + Len(same) + Len(list) + 1 = Len(all) + pos
    BY DEF Between
  <2> DEFINE r == Len(ran)
             m == Len(same)
             l == Len(list)
             a == Len(all)
  <2>3. r \in Nat /\ m \in Nat /\ l \in Nat /\ a \in Nat /\ r + m + l + 1 = a + pos /\ pos <= l
    BY <2>1, <2>2
  <2> HIDE DEF r, m, l, a
  <2>4. r + (m + 1) + l + 1 = a + (pos + 1) /\ pos + 1 <= l + 1
    BY ONLY <2>3, pos \in Nat
  <2>5. QED
    BY <2>4 DEF r, m, l, a
<1>5. QED
  BY <1>2, <1>3, <1>4, Zenon DEF Between

(* What was collected continues what was executed.                         *)
LEMMA ExecutedPrefix ==
    ASSUME NEW S, NEW all \in Seq(S), NEW ran \in Seq(S), NEW list \in Seq(S),
           NEW same \in Seq(S), NEW pos \in Nat \ {0},
           Begins(ran, all), Between(all, ran, list, same, pos)
    PROVE  Begins(ran \o same, all)
<1>1. ran \o same \in Seq(S) /\ Len(ran \o same) = Len(ran) + Len(same)
  OBVIOUS
<1>2. Len(ran \o same) <= Len(all)
  BY <1>1 DEF Between
<1>3. ASSUME NEW i \in 1 .. Len(ran) + Len(same) PROVE (ran \o same)[i] = all[i]
  <2>1. CASE i <= Len(ran)
    BY <2>1 DEF Begins
  <2>2. CASE i > Len(ran)
    <3>1. i - Len(ran) \in 1 .. Len(same) /\ (ran \o same)[i] = same[i - Len(ran)]
      BY <2>2
    <3>2. same[i - Len(ran)] = all[Len(ran) + (i - Len(ran))]
      BY <3>1 DEF Between, Collected
    <3>3. QED
      BY <3>1, <3>2
  <2>3. QED
    BY <2>1, <2>2
<1>4. QED
  BY <1>1, <1>2, <1>3 DEF Begins

(* A round of the loop that executes what was collected.                   *)
LEMMA ExecutesOne ==
    ASSUME NEW S, NEW all \in Seq(S), NEW ran \in Seq(S), NEW list \in Seq(S),
           NEW same \in Seq(S), NEW pos \in Nat \ {0}, pos <= Len(list),
           Ends(list, all), Between(all, ran, list, same, pos)
    PROVE  Between(all, ran \o same, list, <<list[pos]>>, pos + 1)
<1>1. list[pos] \in S /\ list[pos] = all[Len(ran) + Len(same) + 1]
  BY AtPosition
<1>2. ran \o same \in Seq(S) /\ Len(ran \o same) = Len(ran) + Len(same)
  OBVIOUS
<1>4. Len(<<list[pos]>>) = 1 /\ <<list[pos]>>[1] = list[pos]
  OBVIOUS
<1>3. Collected(<<list[pos]>>, all, Len(ran \o same))
  <2>1. list[pos] = all[Len(ran \o same) + 1]
    BY <1>1, <1>2
  <2>2. \A i \in 1 .. 1 : i = 1
    OBVIOUS
  <2>3. QED
    BY <1>4, <2>1, <2>2 DEF Collected
<1>5. /\ (Len(ran) + Len(same)) + 1 + Len(list) + 1 = Len(all) + (pos + 1)
      /\ pos + 1 <= Len(list) + 1
  <2>1. Len(ran) \in Nat /\ Len(same) \in Nat /\ Len(list) \in Nat /\ Len(all) \in Nat
    BY Lengths
  <2>2. Len(ran) + Len(same) + Len(list) + 1 = Len(all) + pos
    BY DEF Between
  <2> DEFINE r == Len(ran)
             m == Len(same)
             l == Len(list)
             a == Len(all)
  <2>3. r \in Nat /\ m \in Nat /\ l \in Nat /\ a \in Nat /\ r + m + l + 1 = a + pos /\ pos <= l
    BY <2>1, <2>2
  <2> HIDE DEF r, m, l, a
  <2>4. (r + m) + 1 + l + 1 = a + (pos + 1) /\ pos + 1 <= l + 1
    BY ONLY <2>3, pos \in Nat
  <2>5. QED
    BY <2>4 DEF r, m, l, a
<1>6. QED
  BY <1>2, <1>3, <1>4, <1>5, Zenon DEF Between

SameLength(s, t) == Len(s) = Len(t)

(* The call after the loop.                                                *)
LEMMA ExecutedAll ==
    ASSUME NEW S, NEW all \in Seq(S), NEW ran \in Seq(S), NEW list \in Seq(S),
           NEW same \in Seq(S), NEW pos \in Nat \ {0}, pos > Len(list),
           Between(all, ran, list, same, pos)
    PROVE  SameLength(ran \o same, all)
BY DEF Between, SameLength

-----------------------------------------------------------------------------
(* What has been executed and what is still to be executed.                *)

LEMMA SeqTypes ==
    ASSUME TypeOK, NEW b \in Batches
    PROVE  /\ batch[b] \in BatchStates /\ batch[b].list \in Seq(Operations)
           /\ Len(batch[b].list) \in Nat /\ batch[b].ref_count \in Nat
           /\ added[b] \in Seq(Operations) /\ Len(added[b]) \in Nat
           /\ done[b] \in Seq(Operations) /\ Len(done[b]) \in Nat
           /\ calls[b] \in Seq(Nat) /\ Len(calls[b]) \in Nat
BY LenProperties DEF TypeOK, BatchStates

(* A batch that a step leaves alone.                                       *)
LEMMA BatchFrame ==
    ASSUME NEW b \in Batches, Prefix(b), Suffix(b), Rest(b),
           batch'[b].list = batch[b].list, batch'[b].freed = batch[b].freed,
           batch'[b].consistency = "SESSION" =>
              /\ batch'[b].freed => batch[b].consistency = "SESSION"
              /\ batch'[b].ref_count > 0 => Len(done[b]) = 0,
           added'[b] = added[b], done'[b] = done[b], Unused(b)' => Unused(b)
    PROVE  Prefix(b)' /\ Suffix(b)' /\ Rest(b)'
BY DEF Prefix, Suffix, Rest

(* An actor whose batch a step leaves alone.                               *)
LEMMA ActorFrame ==
    ASSUME NEW x \in Actors, actor'[x] = actor[x],
           actor[x].pc \in {"execute", "free"} => Window(actor[x]), AtEnd(actor[x]),
           actor[x].pc \in InUse =>
              /\ batch'[actor[x].b].list = batch[actor[x].b].list
              /\ batch'[actor[x].b].consistency = batch[actor[x].b].consistency
              /\ added'[actor[x].b] = added[actor[x].b]
              /\ done'[actor[x].b] = done[actor[x].b]
    PROVE  /\ actor'[x].pc \in {"execute", "free"} => Window(actor[x])'
           /\ AtEnd(actor[x])'
<1>1. actor[x].pc \in {"execute", "free"} => Window(actor[x])'
  BY DEF Window, InUse
<1>2. AtEnd(actor[x])'
  BY DEF AtEnd, InUse
<1>3. QED
  BY <1>1, <1>2

LEMMA ProgressApplication ==
    ASSUME TypeOK, Control, Progress, NEW t \in Threads, NEW b \in Batches, Step(t, b)
    PROVE  Progress'
<1>0. b \in Actors /\ t \in Actors /\ b \notin Threads /\ batch[b] \in BatchStates
  BY BatchAssumption DEF Actors, TypeOK
<1>1. \A x \in Actors : actor[x].pc \in InUse =>
          actor[x].b \in Batches /\ batch[actor[x].b].consistency # NULL
  BY UsedExists DEF Control
<1>2. b \in holds[t] => batch[b].ref_count > 0 /\ ~batch[b].freed
  <2>1. ASSUME b \in holds[t] PROVE t \in Holders(b)
    BY <2>1 DEF Holders
  <2>2. QED
    BY <2>1, HeldIsCounted DEF Control, Counted
<1>3. CASE \E c \in Consistencies : BatchNew(t, b, c)
  <2>1. /\ UNCHANGED <<actor, added, done>> /\ \A d \in Batches \ {b} : batch'[d] = batch[d]
        /\ batch'[b].list = batch[b].list /\ batch'[b].freed = batch[b].freed
    BY <1>0, <1>3 DEF BatchNew, history, TypeOK, BatchStates
  <2>2. Len(done[b]) = 0 /\ ~batch[b].freed
    <3>1. added[b] = <<>> /\ ~batch[b].freed
      BY <1>3 DEF BatchNew, Control, Counted
    <3>2. QED
      BY <3>1, SeqTypes DEF Progress, Prefix, Begins
  <2>3. \A x \in Actors : actor[x].pc \in InUse => actor[x].b # b
    BY <1>1, <1>3 DEF BatchNew
  <2>4. \A d \in Batches : Unused(d)' = Unused(d)
    BY <2>1 DEF Unused
  <2>5. \A d \in Batches : Prefix(d)' /\ Suffix(d)' /\ Rest(d)'
    <3>1. Prefix(b)' /\ Suffix(b)' /\ Rest(b)'
      BY <2>1, <2>2, <2>4, BatchFrame DEF Progress
    <3>2. ASSUME NEW d \in Batches \ {b} PROVE Prefix(d)' /\ Suffix(d)' /\ Rest(d)'
      BY <2>1, <2>4, BatchFrame DEF Progress, Rest
    <3>3. QED
      BY <3>1, <3>2
  <2>6. ASSUME NEW x \in Actors
        PROVE  (actor'[x].pc \in {"execute", "free"} => Window(actor[x])') /\ AtEnd(actor[x])'
    BY <1>1, <2>1, <2>3, ActorFrame DEF Progress
  <2>7. QED
    BY <2>5, <2>6 DEF Progress
<1>4. CASE (\E u \in Threads : BatchRef(t, u, b)) \/ ExecuteAsync(t, b) \/ BatchWait(t, b)
  <2>1. /\ UNCHANGED <<added, done>>
        /\ \A x \in Actors : (x = b /\ ExecuteAsync(t, b)) \/ actor'[x] = actor[x]
        /\ \A d \in Batches : /\ d # b => batch'[d] = batch[d]
                              /\ batch'[d].list = batch[d].list
                              /\ batch'[d].consistency = batch[d].consistency
                              /\ batch'[d].freed = batch[d].freed
    BY <1>0, <1>4 DEF BatchRef, ExecuteAsync, BatchWait, history, TypeOK, BatchStates
  <2>2. batch[b].ref_count > 0
    BY <1>2, <1>4 DEF BatchRef, ExecuteAsync, BatchWait
  <2>3. ExecuteAsync(t, b) => actor'[b].pc = "start" /\ actor[b].pc \notin TaskPcs
    BY <1>0 DEF ExecuteAsync, Exclusive, Control, Placed, TypeOK, Idle
  <2>4. \A d \in Batches : Unused(d)' => Unused(d)
    BY <2>1, <2>3 DEF Unused, InUse, TaskPcs
  <2>5. \A d \in Batches : Prefix(d)' /\ Suffix(d)' /\ Rest(d)'
    <3>1. Prefix(b)' /\ Suffix(b)' /\ Rest(b)'
      BY <2>1, <2>2, <2>4, BatchFrame DEF Progress, Rest
    <3>2. ASSUME NEW d \in Batches \ {b} PROVE Prefix(d)' /\ Suffix(d)' /\ Rest(d)'
      BY <2>1, <2>4, BatchFrame DEF Progress, Rest
    <3>3. QED
      BY <3>1, <3>2
  <2>6. ASSUME NEW x \in Actors
        PROVE  (actor'[x].pc \in {"execute", "free"} => Window(actor[x])') /\ AtEnd(actor[x])'
    <3>1. CASE actor'[x] = actor[x]
      BY <1>1, <2>1, <3>1, ActorFrame DEF Progress
    <3>2. CASE actor'[x] # actor[x]
      BY <2>1, <2>3, <3>2 DEF AtEnd
    <3>3. QED
      BY <3>1, <3>2
  <2>7. QED
    BY <2>5, <2>6 DEF Progress
<1>5. ASSUME NEW op \in Operations, BatchAdd(t, b, op) PROVE Progress'
  <2>1. /\ UNCHANGED <<actor, done>>
        /\ \A d \in Batches \ {b} : batch'[d] = batch[d] /\ added'[d] = added[d]
        /\ batch'[b].list = Append(batch[b].list, op) /\ added'[b] = Append(added[b], op)
        /\ batch'[b].consistency = batch[b].consistency /\ batch'[b].freed = batch[b].freed
        /\ batch'[b].ref_count = batch[b].ref_count
    BY <1>0, <1>5 DEF BatchAdd, TypeOK, BatchStates
  <2>2. \A x \in Actors : actor[x].pc \in InUse => actor[x].b # b
    BY <1>5 DEF BatchAdd, Exclusive, Control, Placed, InUse, TaskPcs, Actors
  <2>3. \A d \in Batches : Unused(d)' = Unused(d)
    BY <2>1 DEF Unused
  <2>4. Prefix(b)' /\ Suffix(b)' /\ Rest(b)'
    <3>1. Prefix(b)' /\ Suffix(b)'
      BY <2>1, SeqTypes, AddedOne DEF Progress, Prefix, Suffix
    <3>2. Rest(b) /\ ~batch[b].freed /\ batch[b].ref_count > 0
      BY <1>2, <1>5 DEF Progress, BatchAdd
    <3>3. Unused(b)' => Len(added'[b]) = Len(done'[b]) + Len(batch'[b].list)
      <4>1. Len(added[b]) = Len(done[b]) + Len(batch[b].list) =>
                Len(Append(added[b], op)) = Len(done[b]) + Len(Append(batch[b].list, op))
        <5>1. \A x, y, z \in Seq(Operations) : Len(x) = Len(y) + Len(z) =>
                  Len(Append(x, op)) = Len(y) + Len(Append(z, op))
          BY AddedOne
        <5>2. QED
          BY <5>1, SeqTypes
      <4>2. Unused(b)' => Len(added[b]) = Len(done[b]) + Len(batch[b].list)
        BY <2>3, <3>2 DEF Rest
      <4>3. QED
        BY <2>1, <4>1, <4>2
    <3>4. QED
      BY <2>1, <3>1, <3>2, <3>3 DEF Rest
  <2>5. ASSUME NEW d \in Batches \ {b} PROVE Prefix(d)' /\ Suffix(d)' /\ Rest(d)'
    BY <2>1, <2>3, BatchFrame DEF Progress, Rest
  <2>6. ASSUME NEW x \in Actors
        PROVE  (actor'[x].pc \in {"execute", "free"} => Window(actor[x])') /\ AtEnd(actor[x])'
    BY <1>1, <2>1, <2>2, ActorFrame DEF Progress
  <2>7. QED
    BY <2>4, <2>5, <2>6 DEF Progress
<1>6. QED
  BY <1>3, <1>4, <1>5 DEF Step

(* Nobody uses a batch that t can use alone.                               *)
LEMMA StartsAlone ==
    ASSUME TypeOK, Control, NEW a \in Actors, NEW b \in Batches, CanExecute(a, b)
    PROVE  /\ Unused(b) /\ ~batch[b].freed
           /\ actor[a].pc \notin InUse
<1>1. b \notin Threads
  BY BatchAssumption
<1>2. CASE a \in Threads
  <2>1. actor[a].pc = "idle" /\ b \in holds[a] /\ Exclusive(a, b)
    BY <1>1, <1>2 DEF CanExecute
  <2>2. a \in Holders(b)
    BY <1>2, <2>1 DEF Holders
  <2>3. ~batch[b].freed
    BY <2>2, HeldIsCounted DEF Control, Counted
  <2>4. Unused(b)
    BY <2>1 DEF Unused, Exclusive, Control, Placed, InUse, TaskPcs, Actors
  <2>5. QED
    BY <2>1, <2>3, <2>4 DEF InUse
<1>3. CASE a \notin Threads
  <2>1. a = b /\ actor[b].pc = "start"
    BY <1>3 DEF CanExecute
  <2>2. b \in Holders(b)
    BY <2>1 DEF Holders, TaskHolds
  <2>3. ~batch[b].freed
    BY <2>2, HeldIsCounted DEF Control, Counted
  <2>4. Unused(b)
    BY <2>1, BatchAssumption DEF Unused, Control, Alone, Placed, InUse, TaskPcs, Actors
  <2>5. QED
    BY <2>1, <2>3, <2>4 DEF InUse
<1>4. QED
  BY <1>2, <1>3

LEMMA ProgressExecute ==
    ASSUME TypeOK, Control, Progress, NEW a \in Actors, NEW b \in Batches,
           ExecuteNothing(a, b) \/ Execute(a, b)
    PROVE  Progress'
<1>1. Unused(b) /\ ~batch[b].freed /\ actor[a].pc \notin InUse
  BY StartsAlone DEF ExecuteNothing, Execute
<1>2. \A d \in Batches : Unused(d)' => Unused(d)
  BY <1>1, ExecuteEffect DEF Unused
<1>3. ASSUME NEW d \in Batches PROVE Prefix(d)' /\ Suffix(d)' /\ Rest(d)'
  BY <1>2, ExecuteEffect, BatchFrame DEF Progress, Rest
<1>4. ASSUME NEW x \in Actors \ {a}
      PROVE  (actor'[x].pc \in {"execute", "free"} => Window(actor[x])') /\ AtEnd(actor[x])'
  BY ExecuteEffect, ActorFrame DEF Progress
<1>5. actor'[a].pc = "execute" => Window(actor[a])'
  <2>1. Between(added[b], done[b], batch[b].list, <<>>, 1)
    BY <1>1, SeqTypes, AtStart DEF Progress, Rest
  <2>2. QED
    BY <2>1, ExecuteEffect DEF Window
<1>6. actor'[a].pc \in {"idle", "unref", "execute"}
  BY ExecuteEffect
<1>7. AtEnd(actor[a])'
  BY <1>6 DEF AtEnd
<1>8. QED
  BY <1>3, <1>4, <1>5, <1>6, <1>7 DEF Progress

(* A reference to b is dropped.                                            *)
LEMMA ProgressDrop ==
    ASSUME TypeOK, Control, Progress, NEW a \in Actors, NEW b \in Batches,
           NEW next \in {Idle, Completed(b)}, Drop(a, b, next), a \in Holders(b),
           actor[a].pc \in {"idle", "unref"}, UNCHANGED <<added, done>>
    PROVE  Progress'
<1>0. batch[b] \in BatchStates /\ batch[b].ref_count \in Nat \ {0} /\ ~batch[b].freed
  BY HeldIsCounted DEF TypeOK, Control, Counted
<1>1. /\ batch'[b] = [batch[b] EXCEPT !.ref_count = @ - 1]
      /\ \A d \in Batches \ {b} : batch'[d] = batch[d]
      /\ \A x \in Actors \ {a} : actor'[x] = actor[x]
  BY DEF Drop, TypeOK
<1>2. /\ batch'[b].list = batch[b].list /\ batch'[b].freed = batch[b].freed
      /\ batch'[b].consistency = batch[b].consistency
      /\ batch'[b].ref_count = batch[b].ref_count - 1
  BY <1>0, <1>1 DEF BatchStates
<1>3. \A d \in Batches : Unused(d)' => Unused(d)
  BY <1>1 DEF Unused, InUse
<1>4. Prefix(b)' /\ Suffix(b)' /\ Rest(b)'
  <2>1. Prefix(b) /\ Suffix(b) /\ Rest(b)
    BY DEF Progress
  <2>2. batch[b].consistency = "SESSION" => Len(done[b]) = 0
    BY <1>0, <2>1 DEF Rest
  <2>3. added'[b] = added[b] /\ done'[b] = done[b]
    OBVIOUS
  <2>4. QED
    BY <1>2, <1>3, <2>1, <2>2, <2>3, BatchFrame
<1>5. ASSUME NEW d \in Batches \ {b} PROVE Prefix(d)' /\ Suffix(d)' /\ Rest(d)'
  BY <1>1, <1>3, BatchFrame DEF Progress, Rest
<1>6. ASSUME NEW x \in Actors \ {a}
      PROVE  (actor'[x].pc \in {"execute", "free"} => Window(actor[x])') /\ AtEnd(actor[x])'
  <2>1. actor[x].pc \in InUse => actor[x].b \in Batches
    BY UsedBatch DEF Control
  <2>2. QED
    BY <1>1, <1>2, <2>1, ActorFrame DEF Progress
<1>7. (actor'[a].pc \in {"execute", "free"} => Window(actor[a])') /\ AtEnd(actor[a])'
  <2>1. CASE batch[b].ref_count > 1
    <3>1. actor'[a] = next
      BY <2>1 DEF Drop, TypeOK
    <3>2. actor'[a].pc \in {"idle", "completed"}
      BY <3>1 DEF Idle, Completed
    <3>3. QED
      BY <3>2 DEF AtEnd
  <2>2. CASE batch[b].ref_count = 1
    <3>1. Holders(b) = {a}
      BY <2>2, HeldIsCounted DEF Control
    <3>2. Unused(b)
      <4>1. ASSUME NEW x \in Actors, actor[x].b = b, actor[x].pc \in InUse PROVE FALSE
        <5>1. actor[x].pc \in {"execute", "executed"}
          BY <1>0, <4>1, UsedExists DEF Control
        <5>2. x \in Holders(b)
          BY <4>1, <5>1 DEF Control, Alone
        <5>3. QED
          BY <3>1, <4>1, <5>2 DEF InUse
      <4>2. QED
        BY <4>1 DEF Unused
    <3>3. Between(added[b], done[b], batch[b].list, <<>>, 1)
      BY <1>0, <3>2, SeqTypes, AtStart DEF Progress, Rest
    <3>4. \/ /\ batch[b].consistency = "SESSION"
             /\ actor'[a] = [Idle EXCEPT !.pc = "free", !.b = b]
          \/ /\ batch[b].consistency # "SESSION"
             /\ actor'[a] = [Idle EXCEPT !.pc = "freed", !.b = b]
      BY <2>2 DEF Drop, TypeOK
    <3>5. /\ actor'[a].b = b /\ actor'[a].pos = 1 /\ actor'[a].same = <<>>
          /\ \/ actor'[a].pc = "free"
             \/ actor'[a].pc = "freed" /\ batch[b].consistency # "SESSION"
      BY <3>4 DEF Idle
    <3>6. Window(actor[a])'
      BY <1>2, <3>3, <3>5 DEF Window
    <3>7. AtEnd(actor[a])'
      BY <1>2, <3>5 DEF AtEnd
    <3>8. QED
      BY <3>6, <3>7
  <2>3. QED
    BY <1>0, <2>1, <2>2
<1>8. QED
  BY <1>4, <1>5, <1>6, <1>7 DEF Progress

(* What an exec function was called for.                                   *)
LEMMA PerformEffect ==
    ASSUME TypeOK, NEW b \in Batches, NEW same, Perform(b, same)
    PROVE  /\ done'[b] = done[b] \o same
           /\ calls'[b] = Append(calls[b], Len(done[b]) + Len(same))
           /\ \A d \in Batches \ {b} : done'[d] = done[d] /\ calls'[d] = calls[d]
BY DEF Perform, TypeOK

(* An actor that uses a batch changes this batch only.                     *)
LEMMA InternalFrame ==
    ASSUME TypeOK, Control, Progress, NEW a \in Actors, actor[a].pc \in InUse,
           NEW b \in Batches, actor[a].b = b,
           \A x \in Actors \ {a} : actor'[x] = actor[x],
           \A d \in Batches \ {b} :
              batch'[d] = batch[d] /\ added'[d] = added[d] /\ done'[d] = done[d],
           Prefix(b)', Suffix(b)', Rest(b)',
           actor'[a].pc \in {"execute", "free"} => Window(actor[a])',
           AtEnd(actor[a])'
    PROVE  Progress'
<1>1. ASSUME NEW d \in Batches \ {b} PROVE Prefix(d)' /\ Suffix(d)' /\ Rest(d)'
  <2>1. Unused(d)' => Unused(d)
    BY <1>1 DEF Unused
  <2>2. Prefix(d) /\ Suffix(d) /\ Rest(d)
    BY DEF Progress
  <2>3. batch'[d] = batch[d] /\ added'[d] = added[d] /\ done'[d] = done[d]
    BY <1>1
  <2>4. QED
    BY <2>1, <2>2, <2>3, BatchFrame DEF Rest
<1>2. ASSUME NEW x \in Actors \ {a}
      PROVE  (actor'[x].pc \in {"execute", "free"} => Window(actor[x])') /\ AtEnd(actor[x])'
  <2>1. actor[x].pc \in InUse => actor[x].b \in Batches \ {b}
    BY UsedBatch, Unique DEF Control
  <2>2. (actor[x].pc \in {"execute", "free"} => Window(actor[x])) /\ AtEnd(actor[x])
    BY DEF Progress
  <2>3. QED
    BY <2>1, <2>2, ActorFrame
<1>3. QED
  BY <1>1, <1>2 DEF Progress

(* A step of j_batch_execute_internal on batch b that leaves the list.     *)
LEMMA ExecutingBatch ==
    ASSUME TypeOK, Control, NEW a \in Actors, actor[a].pc \in {"execute", "free"},
           NEW b \in Batches, actor[a].b = b, Suffix(b), UNCHANGED <<batch, added>>,
           actor'[a].b = b, actor'[a].pc \in InUse
    PROVE  Suffix(b)' /\ Rest(b)'
<1>1. Suffix(b)'
  BY DEF Suffix
<1>2. ~Unused(b)'
  BY DEF Unused
<1>3. ~batch[b].freed /\ (batch[b].ref_count > 0 => actor[a].pc = "execute")
  BY UsedExists DEF Control, InUse
<1>4. actor[a].pc = "execute" => batch[b].consistency # "SESSION"
  BY DEF Control, Alone
<1>5. QED
  BY <1>1, <1>2, <1>3, <1>4 DEF Rest

(* The locals of an actor that executes batch b.                           *)
LEMMA Executing ==
    ASSUME TypeOK, Control, Progress, NEW a \in Actors, actor[a].pc \in {"execute", "free"}
    PROVE  /\ actor[a].b \in Batches /\ actor[a].pc \in InUse
           /\ actor[a].same \in Seq(Operations) /\ actor[a].pos \in Nat \ {0}
           /\ Prefix(actor[a].b) /\ Suffix(actor[a].b) /\ Rest(actor[a].b)
           /\ Between(added[actor[a].b], done[actor[a].b], batch[actor[a].b].list,
                      actor[a].same, actor[a].pos)
<1>1. actor[a].b \in Batches /\ actor[a].pc \in InUse
  BY UsedBatch DEF Control, InUse
<1>2. actor[a].same \in Seq(Operations) /\ actor[a].pos \in Nat \ {0}
  BY DEF TypeOK, ActorStates
<1>3. Window(actor[a])
  BY DEF Progress
<1>4. QED
  BY <1>1, <1>2, <1>3 DEF Progress, Window

(* One round of the loop.                                                  *)
LEMMA ProgressCombine ==
    ASSUME TypeOK, TypeOK', Control, Progress, NEW a \in Actors, Combine(a)
    PROVE  Progress'
<1> DEFINE b == actor[a].b
           list == batch[b].list
           same == actor[a].same
           pos == actor[a].pos
           differs == same # <<>> /\ same[Len(same)] # list[pos]
<1>0. actor[a].pc \in {"execute", "free"} /\ pos <= Len(list)
  BY DEF Combine
<1>1. /\ b \in Batches /\ actor[a].pc \in InUse /\ same \in Seq(Operations)
      /\ pos \in Nat \ {0} /\ Prefix(b) /\ Suffix(b) /\ Rest(b)
      /\ Between(added[b], done[b], list, same, pos)
  BY <1>0, Executing
<1>2. /\ added[b] \in Seq(Operations) /\ done[b] \in Seq(Operations)
      /\ list \in Seq(Operations) /\ Ends(list, added[b]) /\ Begins(done[b], added[b])
  BY <1>1, SeqTypes DEF Suffix, Prefix
<1>3. /\ \A x \in Actors \ {a} : actor'[x] = actor[x]
      /\ actor'[a].pc = actor[a].pc /\ actor'[a].b = b /\ actor'[a].pos = pos + 1
      /\ UNCHANGED <<batch, added>>
      /\ differs => actor'[a].same = <<list[pos]>> /\ Perform(b, same)
      /\ ~differs => actor'[a].same = Append(same, list[pos]) /\ UNCHANGED <<done, calls>>
  BY CombineEffect
<1>4. Suffix(b)' /\ Rest(b)'
  BY <1>0, <1>1, <1>3, ExecutingBatch
<1>5. CASE differs
  <2>1. /\ done'[b] = done[b] \o same
        /\ \A d \in Batches \ {b} : done'[d] = done[d]
    BY <1>1, <1>3, <1>5, PerformEffect
  <2>2. Begins(done[b] \o same, added[b])
    BY <1>1, <1>2, ExecutedPrefix
  <2>3. Between(added[b], done[b] \o same, list, <<list[pos]>>, pos + 1)
    BY <1>0, <1>1, <1>2, ExecutesOne
  <2>4. Prefix(b)'
    BY <1>3, <2>1, <2>2 DEF Prefix
  <2>5. Window(actor[a])'
    BY <1>3, <1>5, <2>1, <2>3 DEF Window
  <2>6. AtEnd(actor[a])'
    BY <1>0, <1>3 DEF AtEnd
  <2>7. QED
    BY <1>1, <1>3, <1>4, <2>1, <2>4, <2>5, <2>6, InternalFrame
<1>6. CASE ~differs
  <2>1. Between(added[b], done[b], list, Append(same, list[pos]), pos + 1)
    BY <1>0, <1>1, <1>2, <1>6, CollectsOne
  <2>2. Prefix(b)'
    BY <1>1, <1>3, <1>6 DEF Prefix
  <2>3. Window(actor[a])'
    BY <1>3, <1>6, <2>1 DEF Window
  <2>4. AtEnd(actor[a])'
    BY <1>0, <1>3 DEF AtEnd
  <2>5. QED
    BY <1>1, <1>3, <1>4, <1>6, <2>2, <2>3, <2>4, InternalFrame
<1>7. QED
  BY <1>5, <1>6

(* The call after the loop.                                                *)
LEMMA ProgressLastCall ==
    ASSUME TypeOK, TypeOK', Control, Progress, NEW a \in Actors, LastCall(a)
    PROVE  Progress'
<1> DEFINE b == actor[a].b
           list == batch[b].list
           same == actor[a].same
           pos == actor[a].pos
<1>0. actor[a].pc \in {"execute", "free"} /\ pos > Len(list)
  BY DEF LastCall
<1>1. /\ b \in Batches /\ actor[a].pc \in InUse /\ same \in Seq(Operations)
      /\ pos \in Nat \ {0} /\ Prefix(b) /\ Suffix(b) /\ Rest(b)
      /\ Between(added[b], done[b], list, same, pos)
  BY <1>0, Executing
<1>2. /\ added[b] \in Seq(Operations) /\ done[b] \in Seq(Operations)
      /\ list \in Seq(Operations) /\ Begins(done[b], added[b])
  BY <1>1, SeqTypes DEF Prefix
<1>3. /\ \A x \in Actors \ {a} : actor'[x] = actor[x]
      /\ actor'[a].pc \in {"executed", "freed"} /\ actor'[a].b = b
      /\ UNCHANGED <<batch, added>>
  BY LastCallEffect
<1>4. Suffix(b)' /\ Rest(b)'
  BY <1>0, <1>1, <1>3, ExecutingBatch DEF InUse
<1>5. /\ done'[b] = done[b] \o same
      /\ \A d \in Batches \ {b} : done'[d] = done[d]
  <2>1. CASE same # <<>>
    BY <1>1, <2>1, PerformEffect DEF LastCall
  <2>2. CASE same = <<>>
    <3>1. done[b] \o <<>> = done[b]
      BY <1>2, ConcatEmptySeq
    <3>2. UNCHANGED <<done, calls>>
      BY <2>2 DEF LastCall
    <3>3. QED
      BY <2>2, <3>1, <3>2
  <2>3. QED
    BY <2>1, <2>2
<1>6. Begins(done[b] \o same, added[b]) /\ Len(done[b] \o same) = Len(added[b])
  <2>1. Begins(done[b] \o same, added[b])
    BY <1>1, <1>2, ExecutedPrefix
  <2>2. Len(done[b] \o same) = Len(added[b])
    <3>1. SameLength(done[b] \o same, added[b])
      BY <1>0, <1>1, <1>2, ExecutedAll
    <3>2. QED
      BY <3>1 DEF SameLength
  <2>3. QED
    BY <2>1, <2>2
<1>7. Prefix(b)'
  BY <1>3, <1>5, <1>6 DEF Prefix
<1>8. AtEnd(actor[a])'
  BY <1>3, <1>5, <1>6 DEF AtEnd
<1>9. QED
  BY <1>1, <1>3, <1>4, <1>5, <1>7, <1>8, InternalFrame

(* The list is emptied, or the batch freed.                                *)
LEMMA ProgressEnd ==
    ASSUME TypeOK, TypeOK', Control, Progress, NEW a \in Actors, Executed(a) \/ Free(a)
    PROVE  Progress'
<1>0. actor[a].pc \in {"executed", "freed"} /\ actor[a].pc \in InUse
  BY DEF Executed, Free, InUse
<1>b. PICK b \in Batches : b = actor[a].b
  BY <1>0, UsedBatch DEF Control
<1>1. /\ b \in Batches
      /\ \A x \in Actors \ {a} : actor'[x] = actor[x]
      /\ actor'[a].pc \in {"idle", "completed", "unref"}
      /\ \A d \in Batches \ {b} : batch'[d] = batch[d]
      /\ batch'[b].list = <<>> /\ batch'[b].consistency = batch[b].consistency
      /\ batch'[b].ref_count = batch[b].ref_count
      /\ Executed(a) => batch'[b].freed = batch[b].freed
      /\ Free(a) => batch'[b].freed
      /\ UNCHANGED <<added, done>>
  BY <1>b, EndEffect DEF Control
<1>2. Prefix(b) /\ Rest(b) /\ AtEnd(actor[a])
  BY <1>1 DEF Progress
<1>3. Prefix(b)' /\ AtEnd(actor[a])'
  BY <1>1, <1>2 DEF Prefix, AtEnd
<1>4. /\ added[b] \in Seq(Operations) /\ Len(<<>>) = 0 /\ Len(added[b]) \in Nat
      /\ Len(done[b]) \in Nat
  BY <1>1, SeqTypes
<1>5. Suffix(b)'
  <2>1. Ends(<<>>, added[b])
    BY <1>4 DEF Ends
  <2>2. QED
    BY <1>1, <2>1 DEF Suffix
<1>6. Rest(b)'
  <2>1. CASE Executed(a)
    <3>1. Len(done[b]) = Len(added[b]) /\ batch[b].consistency # "SESSION"
      BY <1>b, <1>2, <2>1 DEF Executed, AtEnd, Control, Alone
    <3>2. QED
      BY <1>1, <1>4, <3>1 DEF Rest
  <2>2. CASE Free(a)
    <3>1. /\ batch[b].consistency = "SESSION" => Len(done[b]) = Len(added[b])
          /\ batch[b].ref_count = 0
      BY <1>b, <1>2, <2>2 DEF Free, AtEnd, Control, Alone
    <3>2. QED
      BY <1>1, <1>4, <2>2, <3>1 DEF Rest
  <2>3. QED
    BY <2>1, <2>2
<1>7. QED
  BY <1>b, <1>0, <1>1, <1>3, <1>5, <1>6, InternalFrame

LEMMA ProgressStep == TypeOK /\ Control /\ Progress /\ TypeOK' /\ [Next]_vars => Progress'
<1> SUFFICES ASSUME TypeOK, Control, Progress, TypeOK', [Next]_vars PROVE Progress'
  OBVIOUS
<1>1. ASSUME UNCHANGED vars PROVE Progress'
  BY <1>1 DEF vars, Progress, Prefix, Suffix, Rest, Unused, Window, AtEnd
<1>2. ASSUME NEW t \in Threads, NEW b \in Batches, BatchUnref(t, b) PROVE Progress'
  <2>1. t \in Holders(b) /\ t \in Actors /\ UNCHANGED <<added, done>> /\ actor[t].pc = "idle"
    BY <1>2 DEF BatchUnref, Holders, Actors, history
  <2>2. QED
    BY <1>2, <2>1, ProgressDrop DEF BatchUnref
<1>3. ASSUME NEW b \in Batches, TaskUnref(b) PROVE Progress'
  <2>1. b \in Holders(b) /\ b \in Actors /\ UNCHANGED <<added, done>> /\ actor[b].pc = "unref"
    BY <1>3 DEF TaskUnref, Holders, TaskHolds, Actors, history
  <2>2. QED
    BY <1>3, <2>1, ProgressDrop DEF TaskUnref
<1>4. ASSUME NEW a \in Actors, Internal(a) PROVE Progress'
  BY <1>4, ProgressCombine, ProgressLastCall, ProgressEnd DEF Internal
<1>5. QED
  BY <1>1, <1>2, <1>3, <1>4, ProgressApplication, ProgressExecute
     DEF Next, Application, Task, Terminated, Step, Actors

-----------------------------------------------------------------------------
(* Every call of an exec function gets equal operations.                   *)

(* One more call, for a nonempty list of equal operations.                 *)
LEMMA OneMoreCall ==
    ASSUME NEW S, NEW ran \in Seq(S), NEW same \in Seq(S), NEW ends \in Seq(Nat),
           same # <<>>, \A i \in 1 .. Len(same) : same[i] = same[Len(same)],
           CallsEqual(ends, ran)
    PROVE  CallsEqual(Append(ends, Len(ran) + Len(same)), ran \o same)
<1> DEFINE n == Len(ran)
           m == Len(same)
           k == Len(ends)
           more == Append(ends, n + m)
           all == ran \o same
<1>1. n \in Nat /\ m \in Nat \ {0} /\ k \in Nat /\ n + m \in Nat
  BY EmptySeq, LenProperties
<1>2. /\ more \in Seq(Nat) /\ Len(more) = k + 1 /\ more[k + 1] = n + m
      /\ \A i \in 1 .. k : more[i] = ends[i]
  BY <1>1, AppendProperties
<1>3. /\ Len(all) = n + m
      /\ \A i \in 1 .. n : all[i] = ran[i]
      /\ \A i \in n + 1 .. n + m : all[i] = same[i - n]
  BY <1>1, ConcatProperties
<1>a. /\ k = 0 => n = 0
      /\ k # 0 => ends[k] = n
      /\ \A i \in 1 .. k :
            /\ ends[i] \in Nat /\ ends[i] <= n
            /\ \A p \in (IF i = 1 THEN 1 ELSE ends[i - 1] + 1) .. ends[i] : ran[p] = ran[ends[i]]
  <2>1. k = 0 <=> ends = <<>>
    BY EmptySeq
  <2>2. \A i \in 1 .. k : ends[i] \in Nat
    BY ElementOfSeq
  <2>3. QED
    BY <2>1, <2>2 DEF CallsEqual
<1>b. \A i \in 1 .. m : same[i] = same[m]
  OBVIOUS
<1> HIDE DEF n, m, k, more, all
<1>4. ASSUME NEW i \in 1 .. k
      PROVE  /\ more[i] <= n + m
             /\ \A p \in (IF i = 1 THEN 1 ELSE more[i - 1] + 1) .. more[i] : all[p] = all[more[i]]
  <2>1. more[i] = ends[i] /\ ends[i] \in Nat /\ ends[i] <= n
    BY <1>2, <1>a
  <2>2. ASSUME NEW p \in (IF i = 1 THEN 1 ELSE more[i - 1] + 1) .. more[i]
        PROVE  all[p] = all[more[i]]
    <3>1. i # 1 => i - 1 \in 1 .. k /\ more[i - 1] = ends[i - 1] /\ ends[i - 1] \in Nat
      BY <1>1, <1>2, <1>a, SMTT(40)
    <3>2. p \in (IF i = 1 THEN 1 ELSE ends[i - 1] + 1) .. ends[i] /\ p \in 1 .. n
      BY <1>1, <2>1, <3>1
    <3>3. ran[p] = ran[ends[i]] /\ ends[i] \in 1 .. n
      BY <1>1, <1>a, <2>1, <3>2
    <3>4. QED
      BY <1>3, <2>1, <3>2, <3>3
  <2>3. QED
    BY <1>1, <2>1, <2>2
<1>5. ASSUME NEW p \in (IF k + 1 = 1 THEN 1 ELSE more[k] + 1) .. n + m
      PROVE  all[p] = all[n + m]
  <2>1. p \in n + 1 .. n + m
    <3>1. k = 0 => p \in n + 1 .. n + m
      BY <1>1, <1>a, <1>5
    <3>2. k # 0 => p \in n + 1 .. n + m
      BY <1>1, <1>2, <1>a, <1>5
    <3>3. QED
      BY <3>1, <3>2
  <2>2. p - n \in 1 .. m /\ n + m \in n + 1 .. n + m /\ (n + m) - n = m
    BY <1>1, <2>1
  <2>3. QED
    BY <1>3, <1>b, <2>1, <2>2
<1>6. more # <<>> /\ more[Len(more)] = Len(all)
  BY <1>1, <1>2, <1>3, EmptySeq
<1>7. ASSUME NEW i \in 1 .. Len(more)
      PROVE  /\ more[i] <= Len(all)
             /\ \A p \in (IF i = 1 THEN 1 ELSE more[i - 1] + 1) .. more[i] : all[p] = all[more[i]]
  <2>1. CASE i \in 1 .. k
    BY <1>3, <1>4, <2>1
  <2>2. CASE i = k + 1
    <3>1. i - 1 = k
      BY <1>1, <2>2
    <3>2. QED
      BY <1>1, <1>2, <1>3, <1>5, <2>2, <3>1
  <2>3. QED
    BY <1>1, <1>2, <2>1, <2>2
<1>8. CallsEqual(more, all)
  BY <1>6, <1>7 DEF CallsEqual
<1>9. QED
  BY <1>8 DEF more, all, n, m

LEMMA GroupedStep == TypeOK /\ Control /\ Progress /\ Grouped /\ [Next]_vars => Grouped'
<1> SUFFICES ASSUME TypeOK, Control, Progress, Grouped, [Next]_vars PROVE Grouped'
  OBVIOUS
<1>1. ASSUME UNCHANGED <<done, calls>> PROVE Grouped'
  BY <1>1 DEF Grouped
<1>2. ASSUME NEW a \in Actors, actor[a].pc \in {"execute", "free"}, actor[a].same # <<>>,
             Perform(actor[a].b, actor[a].same)
      PROVE  Grouped'
  <2>0. PICK b \in Batches, same \in Seq(Operations) : b = actor[a].b /\ same = actor[a].same
    BY <1>2, Executing
  <2>1. Between(added[b], done[b], batch[b].list, same, actor[a].pos)
    BY <1>2, <2>0, Executing
  <2>2. \A i \in 1 .. Len(same) : same[i] = same[Len(same)]
    BY <2>1 DEF Between, Collected
  <2>3. done[b] \in Seq(Operations) /\ calls[b] \in Seq(Nat) /\ CallsEqual(calls[b], done[b])
    BY SeqTypes DEF Grouped
  <2>4. CallsEqual(Append(calls[b], Len(done[b]) + Len(same)), done[b] \o same)
    BY <1>2, <2>0, <2>2, <2>3, OneMoreCall
  <2>5. /\ done'[b] = done[b] \o same
        /\ calls'[b] = Append(calls[b], Len(done[b]) + Len(same))
        /\ \A d \in Batches \ {b} : done'[d] = done[d] /\ calls'[d] = calls[d]
    BY <1>2, <2>0, PerformEffect
  <2>6. ASSUME NEW d \in Batches PROVE CallsEqual(calls[d], done[d])'
    BY <2>4, <2>5 DEF Grouped
  <2>7. QED
    BY <2>6 DEF Grouped
<1>3. ASSUME NEW a \in Actors, Internal(a) PROVE Grouped'
  <2>1. CASE Combine(a)
    <3>1. \/ UNCHANGED <<done, calls>>
          \/ actor[a].same # <<>> /\ Perform(actor[a].b, actor[a].same)
      BY <2>1 DEF Combine
    <3>2. actor[a].pc \in {"execute", "free"}
      BY <2>1 DEF Combine
    <3>3. QED
      BY <1>1, <1>2, <3>1, <3>2
  <2>2. CASE LastCall(a)
    <3>1. \/ UNCHANGED <<done, calls>>
          \/ actor[a].same # <<>> /\ Perform(actor[a].b, actor[a].same)
      BY <2>2 DEF LastCall
    <3>2. actor[a].pc \in {"execute", "free"}
      BY <2>2 DEF LastCall
    <3>3. QED
      BY <1>1, <1>2, <3>1, <3>2
  <2>3. CASE Executed(a) \/ Free(a)
    BY <1>1, <2>3 DEF Executed, Free, history
  <2>4. QED
    BY <1>3, <2>1, <2>2, <2>3 DEF Internal
<1>4. ASSUME NEW t \in Threads, Application(t) PROVE UNCHANGED <<done, calls>>
  BY <1>4 DEF Application, BatchNew, BatchRef, BatchAdd, ExecuteNothing, Execute, ExecuteAsync,
              BatchWait, BatchUnref, history
<1>5. ASSUME NEW b \in Batches, ExecuteNothing(b, b) \/ Execute(b, b) \/ TaskUnref(b)
      PROVE  UNCHANGED <<done, calls>>
  BY <1>5 DEF ExecuteNothing, Execute, TaskUnref, history
<1>6. QED
  BY <1>1, <1>3, <1>4, <1>5 DEF Next, Task, Terminated, vars, Actors

-----------------------------------------------------------------------------
(* The theorems.                                                           *)

LEMMA InitIInv == Init => IInv
<1> SUFFICES ASSUME Init PROVE IInv
  OBVIOUS
<1>0. <<>> \in Seq(Operations) /\ <<>> \in Seq(Nat) /\ Len(<<>>) = 0
  OBVIOUS
<1>1. TypeOK
  <2>1. [consistency |-> NULL, list |-> <<>>, ref_count |-> 0, freed |-> FALSE] \in BatchStates
    BY <1>0 DEF BatchStates
  <2>2. QED
    BY <1>0, <2>1, IdleType DEF Init, TypeOK
<1>2. \A a \in Actors : actor[a].pc = "idle" /\ actor[a].b = NULL
  BY DEF Init, Idle
<1>a. \A b \in Batches : batch[b].ref_count = 0 /\ batch[b].freed = FALSE
  BY DEF Init
<1>3. \A b \in Batches : /\ batch[b].list = <<>> /\ batch[b].consistency = NULL
                         /\ added[b] = <<>> /\ done[b] = <<>> /\ calls[b] = <<>>
  BY DEF Init
<1>4. Control
  <2>1. Placed
    BY <1>2 DEF Placed, InUse, TaskPcs, Actors
  <2>2. \A b \in Batches : Holders(b) = {}
    BY <1>2 DEF Init, Holders, TaskHolds, Actors
  <2>3. Counted
    <3>1. Cardinality({}) = 0
      BY FS_EmptySet
    <3>2. ASSUME NEW b \in Batches
          PROVE  /\ batch[b].ref_count = Cardinality(Holders(b)) /\ ~(batch[b].ref_count > 0)
                 /\ ~batch[b].freed
      BY <1>a, <2>2, <3>1
    <3>3. QED
      BY <1>3, <3>2 DEF Counted
  <2>4. Alone
    BY <1>2 DEF Alone, Actors
  <2>5. QED
    BY <2>1, <2>3, <2>4 DEF Control
<1>5. Progress
  <2>1. Begins(<<>>, <<>>) /\ Ends(<<>>, <<>>)
    BY <1>0 DEF Begins, Ends
  <2>2. ASSUME NEW b \in Batches PROVE Prefix(b) /\ Suffix(b) /\ Rest(b)
    <3>1. Prefix(b) /\ Suffix(b)
      BY <1>3, <2>1 DEF Prefix, Suffix
    <3>2. batch[b].consistency # "SESSION"
      BY <1>3, BatchAssumption
    <3>3. Len(added[b]) = Len(done[b]) + Len(batch[b].list)
      <4>1. added[b] = <<>> /\ done[b] = <<>> /\ batch[b].list = <<>>
        BY <1>3
      <4>2. Len(added[b]) = 0 /\ Len(done[b]) = 0 /\ Len(batch[b].list) = 0
        BY <1>0, <4>1, Zenon
      <4>3. QED
        BY <4>2
    <3>4. QED
      BY <3>1, <3>2, <3>3 DEF Rest
  <2>3. QED
    BY <1>2, <2>2 DEF Progress, AtEnd
<1>6. Grouped
  <2>1. CallsEqual(<<>>, <<>>)
    BY <1>0 DEF CallsEqual
  <2>2. QED
    BY <1>3, <2>1 DEF Grouped
<1>7. QED
  BY <1>1, <1>4, <1>5, <1>6 DEF IInv

(* The invariant of the batches: types, references, who executes what and  *)
(* how far it got.                                                         *)
THEOREM Invariance == Spec => []IInv
<1>1. IInv /\ [Next]_vars => IInv'
  BY ControlStep, ProgressStep, GroupedStep DEF IInv
<1>2. QED
  BY InitIInv, <1>1, PTL DEF Spec

(* A sequence that begins another one is a subsequence of it, and all of   *)
(* it when it is as long.                                                  *)
LEMMA BeginsSubSeq ==
    ASSUME NEW S, NEW ran \in Seq(S), NEW all \in Seq(S), Begins(ran, all)
    PROVE  /\ Len(ran) <= Len(all) /\ ran = SubSeq(all, 1, Len(ran))
           /\ Len(ran) = Len(all) => ran = all
<1>1. Len(ran) <= Len(all) /\ \A i \in 1 .. Len(ran) : ran[i] = all[i]
  BY DEF Begins
<1>2. /\ SubSeq(all, 1, Len(ran)) \in Seq(S) /\ Len(SubSeq(all, 1, Len(ran))) = Len(ran)
      /\ \A i \in 1 .. Len(ran) : SubSeq(all, 1, Len(ran))[i] = all[i]
  <2>1. Len(ran) \in Nat /\ Len(all) \in Nat
    BY LenProperties
  <2>2. \A i \in 1 .. Len(ran) : i \in 1 .. Len(all)
    BY <1>1, <2>1
  <2>3. QED
    BY <1>1, <2>1, <2>2, SubSeqProperties
<1>3. ran = SubSeq(all, 1, Len(ran))
  BY <1>1, <1>2, SeqEqual
<1>4. ASSUME Len(ran) = Len(all) PROVE ran = all
  BY <1>1, <1>4, SeqEqual
<1>5. QED
  BY <1>1, <1>3, <1>4

(* j_batch_execute executes the operations of a batch as they were added:  *)
(* in order, each at most once, grouped by function and key, and all of    *)
(* them when it returns, whichever threads and tasks execute the batch.    *)
THEOREM ExecutesAsAdded == Spec => []ExecutedAsAdded
<1>1. IInv => ExecutedAsAdded
  <2> SUFFICES ASSUME IInv PROVE ExecutedAsAdded
    OBVIOUS
  <2>1. TypeOK /\ Control /\ Progress /\ Grouped
    BY DEF IInv
  <2>2. ASSUME NEW b \in Batches
        PROVE  /\ Len(done[b]) <= Len(added[b])
               /\ done[b] = SubSeq(added[b], 1, Len(done[b]))
               /\ Len(done[b]) = Len(added[b]) => done[b] = added[b]
    BY <2>1, SeqTypes, BeginsSubSeq DEF Progress, Prefix
  <2>3. ASSUME NEW b \in Batches, NEW i \in DOMAIN calls[b],
               NEW p \in (IF i = 1 THEN 1 ELSE calls[b][i - 1] + 1) .. calls[b][i]
        PROVE  done[b][p] = done[b][calls[b][i]]
    <3>1. DOMAIN calls[b] = 1 .. Len(calls[b])
      BY <2>1, SeqTypes
    <3>2. QED
      BY <2>1, <2>3, <3>1 DEF Grouped, CallsEqual
  <2>4. ASSUME NEW a \in Actors, actor[a].pc = "executed"
        PROVE  done[actor[a].b] = added[actor[a].b]
    <3>1. actor[a].b \in Batches
      BY <2>1, <2>4, UsedBatch DEF Control, InUse
    <3>2. Len(done[actor[a].b]) = Len(added[actor[a].b])
      BY <2>1, <2>4 DEF Progress, AtEnd
    <3>3. QED
      BY <2>2, <3>1, <3>2
  <2>5. QED
    BY <2>2, <2>3, <2>4 DEF ExecutedAsAdded
<1>2. QED
  BY <1>1, Invariance, PTL

(* j_batch_unref executes a session batch in full before it frees it, in a *)
(* thread or in the task, and j_batch_execute executes none of it before,  *)
(* as long as j_batch_execute_async was not called.                        *)
THEOREM SessionsEnd == Spec => []SessionEndsWithBatch
<1>1. IInv => SessionEndsWithBatch
  <2> SUFFICES ASSUME IInv, NEW b \in Batches, batch[b].consistency = "SESSION"
               PROVE  /\ batch[b].freed => done[b] = added[b]
                      /\ (batch[b].ref_count > 0 /\ actor[b].pc = "idle") => done[b] = <<>>
    BY DEF SessionEndsWithBatch
  <2>1. TypeOK /\ Prefix(b) /\ Rest(b)
    BY DEF IInv, Progress
  <2>2. done[b] \in Seq(Operations) /\ added[b] \in Seq(Operations)
    BY <2>1, SeqTypes
  <2>3. ASSUME batch[b].freed PROVE done[b] = added[b]
    BY <2>1, <2>2, <2>3, BeginsSubSeq DEF Prefix, Rest
  <2>4. ASSUME batch[b].ref_count > 0, actor[b].pc = "idle" PROVE done[b] = <<>>
    BY <2>1, <2>2, <2>4, EmptySeq DEF Rest
  <2>5. QED
    BY <2>3, <2>4
<1>2. QED
  BY <1>1, Invariance, PTL

(* j_batch_unref frees a batch only when no thread and no task can use it  *)
(* any more.                                                               *)
THEOREM NeverUsedAfterFree == Spec => []NoUseAfterFree
<1>1. IInv => NoUseAfterFree
  <2> SUFFICES ASSUME IInv, NEW b \in Batches, NEW x \in Holders(b)
               PROVE  batch[b].ref_count > 0 /\ ~batch[b].freed
    BY DEF NoUseAfterFree, Holders, TaskHolds
  <2>1. TypeOK /\ Counted
    BY DEF IInv, Control
  <2>2. QED
    BY <2>1, HeldIsCounted DEF Counted
<1>2. QED
  BY <1>1, Invariance, PTL
=============================================================================
