------------------------ MODULE ConnectionPoolProofs ------------------------
(***************************************************************************)
(* Proofs about ConnectionPool, for any number of threads, queues and      *)
(* connections and any max_count.                                          *)
(***************************************************************************)
EXTENDS ConnectionPool, FiniteSetTheorems, TLAPS

(* Where the threads are, what they hold, and what the phases of the pool  *)
(* mean: the part of the inductive invariant that ties the control state   *)
(* to the data.                                                            *)
Placed ==
    /\ \A t \in Threads : pc[t] # "idle" => at[t] \in Queues /\ pool = "up"
    /\ \A t \in Threads : connection[t] = NULL <=> pc[t] # "have"
    /\ pool = "none" => /\ \A c \in Connections : peer[c] = NULL
                        /\ \A q \in Queues : failed[q] = 0
    /\ pool # "gone" => closed = {}

Counting == CountIsExact /\ WithinLimit /\ OvercountOnlyWhenFull

IInv == TypeOK /\ Placed /\ Counting /\ ExclusiveUse /\ NoneLost

-----------------------------------------------------------------------------
(* Type correctness.                                                       *)

(* Taking the first connection of a queue that is not empty.               *)
LEMMA TakeType ==
    ASSUME TypeOK, NEW t \in Threads, at[t] \in Queues, Take(t)
    PROVE  /\ connection' \in [Threads -> Connections \cup {NULL}]
           /\ queue' \in [Queues -> Seq(Connections)]
           /\ connection'[t] \in Connections
<1> DEFINE s == queue[at[t]]
<1>1. s \in Seq(Connections) /\ s # <<>>
  BY DEF TypeOK, Take
<1>2. Head(s) \in Connections /\ Tail(s) \in Seq(Connections)
  BY <1>1
<1>3. QED
  BY <1>2 DEF TypeOK, Take

(* The cardinalities the counting part speaks of are natural numbers.      *)
LEMMA SlotsType ==
    ASSUME TypeOK, NEW q \in Queues
    PROVE  /\ IsFiniteSet(Made(q)) /\ Cardinality(Made(q)) \in Nat
           /\ \A w : /\ IsFiniteSet(Threads_at(q, w))
                     /\ Cardinality(Threads_at(q, w)) \in Nat
           /\ Slots(q) \in Nat
<1>1. IsFiniteSet(Made(q)) /\ Cardinality(Made(q)) \in Nat
  BY FS_Subset, FS_CardinalityType, PoolAssumption DEF Made
<1>2. ASSUME NEW w PROVE IsFiniteSet(Threads_at(q, w)) /\ Cardinality(Threads_at(q, w)) \in Nat
  <2>1. Threads_at(q, w) \subseteq Threads
    BY DEF Threads_at
  <2>2. QED
    BY <2>1, FS_Subset, FS_CardinalityType, PoolAssumption
<1>3. QED
  BY <1>1, <1>2 DEF Slots, TypeOK

(* A thread at a place counts for that place.                              *)
LEMMA OneThere ==
    ASSUME TypeOK, NEW t \in Threads, at[t] \in Queues
    PROVE  Cardinality(Threads_at(at[t], pc[t])) \in Nat \ {0}
<1>1. t \in Threads_at(at[t], pc[t])
  BY DEF Threads_at
<1>2. QED
  BY <1>1, SlotsType, FS_EmptySet

(* Every step of the pool keeps the types of its variables.                *)
LEMMA TypeStep == TypeOK /\ Placed /\ Counting /\ [Next]_vars => TypeOK'
<1> SUFFICES ASSUME TypeOK, Placed, Counting, [Next]_vars PROVE TypeOK'
  OBVIOUS
<1> USE PoolAssumption, NullAssumption
<1>1. CASE PoolInit
  BY <1>1 DEF PoolInit, TypeOK
<1>2. CASE PoolFini
  <2>1. UNION {{queue[q][i] : i \in DOMAIN queue[q]} : q \in Queues} \subseteq Connections
    BY DEF TypeOK
  <2>2. QED
    BY <1>2, <2>1 DEF PoolFini, TypeOK
<1>3. ASSUME NEW t \in Threads, NEW q \in Queues, Pop(t, q) PROVE TypeOK'
  BY <1>3 DEF Pop, Goto, TypeOK
<1>4. ASSUME NEW t \in Threads, TryPop(t) PROVE TypeOK'
  <2>1. at[t] \in Queues
    BY <1>4 DEF TryPop, Goto, Placed
  <2>2. CASE Take(t)
    <3>1. connection' \in [Threads -> Connections \cup {NULL}]
      BY <2>1, <2>2, TakeType
    <3>2. queue' \in [Queues -> Seq(Connections)]
      BY <2>1, <2>2, TakeType
    <3>3. pc' \in [Threads -> {"idle", "try_pop", "check", "add", "undo", "connect", "wait", "have"}]
      BY <1>4 DEF TryPop, Goto, TypeOK
    <3>4. QED
      BY <1>4, <3>1, <3>2, <3>3 DEF TryPop, TypeOK
  <2>3. CASE ~Take(t)
    BY <1>4, <2>3 DEF TryPop, Goto, TypeOK
  <2>4. QED
    BY <2>2, <2>3
<1>5. ASSUME NEW t \in Threads, CheckCount(t) PROVE TypeOK'
  BY <1>5 DEF CheckCount, Goto, TypeOK
<1>6. ASSUME NEW t \in Threads, AddCount(t) PROVE TypeOK'
  <2>1. at[t] \in Queues
    BY <1>6 DEF AddCount, Goto, Placed
  <2>2. QED
    BY <1>6, <2>1 DEF AddCount, Goto, TypeOK
<1>7. ASSUME NEW t \in Threads, UndoCount(t) PROVE TypeOK'
  <2>1. at[t] \in Queues /\ pc[t] = "undo"
    BY <1>7 DEF UndoCount, Goto, Placed
  <2>2. count[at[t]] - 1 \in Nat
    BY <2>1, OneThere, SlotsType DEF Counting, CountIsExact, TypeOK
  <2>3. QED
    BY <1>7, <2>2 DEF UndoCount, Goto, TypeOK
<1>8. ASSUME NEW t \in Threads, Connect(t) PROVE TypeOK'
  <2>1. at[t] \in Queues
    BY <1>8 DEF Connect, Goto, Placed
  <2>2. QED
    BY <1>8, <2>1 DEF Connect, Goto, TypeOK
<1>9. ASSUME NEW t \in Threads, ConnectFails(t) PROVE TypeOK'
  <2>1. at[t] \in Queues
    BY <1>9 DEF ConnectFails, Goto, Placed
  <2>2. QED
    BY <1>9, <2>1 DEF ConnectFails, Goto, TypeOK
<1>10. ASSUME NEW t \in Threads, BlockingPop(t) PROVE TypeOK'
  <2>1. at[t] \in Queues
    BY <1>10 DEF BlockingPop, Goto, Placed
  <2>2. QED
    BY <1>10, <2>1, TakeType DEF BlockingPop, Goto, TypeOK
<1>11. ASSUME NEW t \in Threads, Push(t) PROVE TypeOK'
  <2>1. at[t] \in Queues /\ connection[t] \in Connections
    BY <1>11 DEF Push, Goto, Placed, TypeOK
  <2>2. Append(queue[at[t]], connection[t]) \in Seq(Connections)
    BY <2>1 DEF TypeOK
  <2>3. QED
    BY <1>11, <2>2 DEF Push, Goto, TypeOK
<1>12. CASE UNCHANGED vars
  BY <1>12 DEF vars, TypeOK
<1>13. QED
  BY <1>1, <1>2, <1>3, <1>4, <1>5, <1>6, <1>7, <1>8, <1>9, <1>10, <1>11, <1>12 DEF Next, Step

-----------------------------------------------------------------------------
(* The control state.                                                      *)

LEMMA PlacedStep == TypeOK /\ Placed /\ [Next]_vars => Placed'
<1> SUFFICES ASSUME TypeOK, Placed, [Next]_vars PROVE Placed'
  OBVIOUS
<1> USE NullAssumption DEF TypeOK, Placed
<1>1. CASE PoolInit
  BY <1>1 DEF PoolInit
<1>2. CASE PoolFini
  BY <1>2 DEF PoolFini
<1>3. ASSUME NEW t \in Threads, NEW q \in Queues, Pop(t, q) PROVE Placed'
  BY <1>3 DEF Pop, Goto
<1>4. ASSUME NEW t \in Threads, TryPop(t) PROVE Placed'
  <2>1. at[t] \in Queues
    BY <1>4 DEF TryPop, Goto
  <2>2. CASE Goto(t, "try_pop", "have") /\ Take(t)
    <3>1. connection'[t] \in Connections
      BY <2>1, <2>2, TakeType
    <3>2. QED
      BY <1>4, <2>1, <2>2, <3>1 DEF TryPop, Goto, Take
  <2>3. CASE ~(Goto(t, "try_pop", "have") /\ Take(t))
    BY <1>4, <2>1, <2>3 DEF TryPop, Goto
  <2>4. QED
    BY <2>2, <2>3
<1>5. ASSUME NEW t \in Threads, CheckCount(t) PROVE Placed'
  BY <1>5 DEF CheckCount, Goto
<1>6. ASSUME NEW t \in Threads, AddCount(t) PROVE Placed'
  BY <1>6 DEF AddCount, Goto
<1>7. ASSUME NEW t \in Threads, UndoCount(t) PROVE Placed'
  BY <1>7 DEF UndoCount, Goto
<1>8. ASSUME NEW t \in Threads, Connect(t) PROVE Placed'
  BY <1>8 DEF Connect, Goto
<1>9. ASSUME NEW t \in Threads, ConnectFails(t) PROVE Placed'
  BY <1>9 DEF ConnectFails, Goto
<1>10. ASSUME NEW t \in Threads, BlockingPop(t) PROVE Placed'
  <2>1. at[t] \in Queues
    BY <1>10 DEF BlockingPop, Goto
  <2>2. connection'[t] \in Connections
    BY <1>10, <2>1, TakeType DEF BlockingPop
  <2>3. QED
    BY <1>10, <2>1, <2>2 DEF BlockingPop, Goto, Take
<1>11. ASSUME NEW t \in Threads, Push(t) PROVE Placed'
  BY <1>11 DEF Push, Goto
<1>12. CASE UNCHANGED vars
  BY <1>12 DEF vars
<1>13. QED
  BY <1>1, <1>2, <1>3, <1>4, <1>5, <1>6, <1>7, <1>8, <1>9, <1>10, <1>11, <1>12 DEF Next, Step

-----------------------------------------------------------------------------
(* Counting.                                                               *)

(* How the number of threads of queue q at place w changes when a thread   *)
(* of the queue moves on.                                                  *)
LEMMA Movement ==
    ASSUME TypeOK, NEW t \in Threads, NEW from, NEW to, Goto(t, from, to),
           at' = at, at[t] \in Queues, NEW q \in Queues, NEW w
    PROVE  /\ at[t] # q \/ (from # w /\ to # w) =>
                 Threads_at(q, w)' = Threads_at(q, w)
           /\ at[t] = q /\ from # w /\ to = w =>
                 Cardinality(Threads_at(q, w)') = Cardinality(Threads_at(q, w)) + 1
           /\ at[t] = q /\ from = w /\ to # w =>
                 Cardinality(Threads_at(q, w)') = Cardinality(Threads_at(q, w)) - 1
<1>1. IsFiniteSet(Threads_at(q, w)) /\ Cardinality(Threads_at(q, w)) \in Nat
  BY SlotsType
<1>2. ASSUME at[t] # q \/ (from # w /\ to # w)
      PROVE  Threads_at(q, w)' = Threads_at(q, w)
  BY <1>2 DEF Threads_at, Goto, TypeOK
<1>3. ASSUME at[t] = q, from # w, to = w
      PROVE  Cardinality(Threads_at(q, w)') = Cardinality(Threads_at(q, w)) + 1
  <2>1. Threads_at(q, w)' = Threads_at(q, w) \cup {t} /\ t \notin Threads_at(q, w)
    BY <1>3 DEF Threads_at, Goto, TypeOK
  <2>2. QED
    BY <1>1, <2>1, FS_AddElement
<1>4. ASSUME at[t] = q, from = w, to # w
      PROVE  Cardinality(Threads_at(q, w)') = Cardinality(Threads_at(q, w)) - 1
  <2>1. Threads_at(q, w)' = Threads_at(q, w) \ {t} /\ t \in Threads_at(q, w)
    BY <1>4 DEF Threads_at, Goto, TypeOK
  <2>2. QED
    BY <1>1, <2>1, FS_RemoveElement
<1>5. QED
  BY <1>2, <1>3, <1>4

(* A step that changes neither the counted places nor what is counted      *)
(* keeps the counting.                                                     *)
LEMMA CountingFrame ==
    ASSUME Counting, UNCHANGED <<count, peer, failed>>,
           \A q \in Queues : \A w \in {"connect", "undo"} :
              Threads_at(q, w)' = Threads_at(q, w)
    PROVE  Counting'
<1>1. ASSUME NEW q \in Queues PROVE Slots(q)' = Slots(q)
  BY DEF Slots, Made
<1>2. QED
  BY <1>1 DEF Counting, CountIsExact, WithinLimit, OvercountOnlyWhenFull

(* With x slots taken and u increments to be undone, the three facts about *)
(* a single queue.                                                         *)
CountsAt(q) ==
    /\ count[q] = Slots(q) + Cardinality(Threads_at(q, "undo"))
    /\ Slots(q) <= max_count
    /\ Threads_at(q, "undo") # {} => Slots(q) = max_count

LEMMA CountingByQueue == Counting <=> \A q \in Queues : CountsAt(q)
BY DEF Counting, CountIsExact, WithinLimit, OvercountOnlyWhenFull, CountsAt

(* A queue the step does not concern.                                      *)
LEMMA OtherQueue ==
    ASSUME TypeOK, NEW t \in Threads, at[t] \in Queues, NEW from, NEW to,
           Goto(t, from, to), at' = at, NEW q \in Queues, q # at[t], CountsAt(q),
           count'[q] = count[q], failed'[q] = failed[q], Made(q)' = Made(q)
    PROVE  CountsAt(q)'
<1>1. /\ Threads_at(q, "undo")' = Threads_at(q, "undo")
      /\ Threads_at(q, "connect")' = Threads_at(q, "connect")
  BY Movement
<1>2. QED
  BY <1>1 DEF CountsAt, Slots

(* The counting survives every step.                                       *)
LEMMA CountingStep == TypeOK /\ Placed /\ Counting /\ [Next]_vars => Counting'
<1> SUFFICES ASSUME TypeOK, Placed, Counting, [Next]_vars PROVE Counting'
  OBVIOUS
<1>0. \A q \in Queues : CountsAt(q)
  BY CountingByQueue
<1>1. CASE PoolInit
  <2>1. ASSUME NEW q \in Queues PROVE CountsAt(q)'
    <3>1. Made(q)' = {} /\ failed'[q] = 0
      BY <1>1, NullAssumption DEF PoolInit, Placed, Made
    <3>2. Threads_at(q, "connect")' = {} /\ Threads_at(q, "undo")' = {}
      BY <1>1 DEF PoolInit, Placed, Threads_at, TypeOK
    <3>3. count'[q] = 0
      BY <1>1 DEF PoolInit
    <3>4. Cardinality({}) = 0
      BY FS_EmptySet
    <3>5. Slots(q)' = 0 /\ Cardinality(Threads_at(q, "undo"))' = 0
      BY <3>1, <3>2, <3>4 DEF Slots
    <3>6. QED
      BY <3>2, <3>3, <3>5, PoolAssumption DEF CountsAt
  <2>2. QED
    BY <2>1 DEF Counting, CountIsExact, WithinLimit, OvercountOnlyWhenFull, CountsAt
<1>2. CASE PoolFini
  BY <1>2, CountingFrame DEF PoolFini, Threads_at
<1>3. ASSUME NEW t \in Threads, NEW q \in Queues, Pop(t, q) PROVE Counting'
  <2>1. \A r \in Queues : \A w \in {"connect", "undo"} : Threads_at(r, w)' = Threads_at(r, w)
    BY <1>3 DEF Pop, Goto, Threads_at, TypeOK
  <2>2. QED
    BY <1>3, <2>1, CountingFrame DEF Pop
<1>4. ASSUME NEW t \in Threads, TryPop(t) \/ BlockingPop(t) \/ CheckCount(t) \/ Push(t)
      PROVE  Counting'
  <2>1. PICK from \in {"try_pop", "wait", "check", "have"},
             to \in {"have", "check", "add", "wait", "idle"} : Goto(t, from, to)
    BY <1>4 DEF TryPop, BlockingPop, CheckCount, Push
  <2>2. at[t] \in Queues /\ at' = at /\ UNCHANGED <<count, peer, failed>>
    BY <1>4, <2>1 DEF TryPop, BlockingPop, CheckCount, Push, Goto, Placed
  <2>3. \A r \in Queues : \A w \in {"connect", "undo"} : Threads_at(r, w)' = Threads_at(r, w)
    BY <2>1, <2>2, Movement
  <2>4. QED
    BY <2>2, <2>3, CountingFrame
<1>5. ASSUME NEW t \in Threads, AddCount(t) \/ UndoCount(t) \/ Connect(t) \/ ConnectFails(t)
      PROVE  Counting'
  <2>1. at[t] \in Queues /\ at' = at
    BY <1>5 DEF AddCount, UndoCount, Connect, ConnectFails, Goto, Placed
  <2>q. PICK q \in Queues : q = at[t]
    BY <2>1
  <2> DEFINE made == Cardinality(Made(q))
             busy == Cardinality(Threads_at(q, "connect"))
             undo == Cardinality(Threads_at(q, "undo"))
  <2>2. /\ made \in Nat /\ busy \in Nat /\ undo \in Nat /\ failed[q] \in Nat
        /\ IsFiniteSet(Made(q))
        /\ Threads_at(q, "undo") = {} <=> undo = 0
    BY <2>1, <2>q, SlotsType, FS_EmptySet DEF TypeOK
  <2>3. /\ count[q] = made + busy + failed[q] + undo
        /\ made + busy + failed[q] <= max_count
        /\ undo # 0 => made + busy + failed[q] = max_count
    BY <1>0, <2>1, <2>q, <2>2 DEF CountsAt, Slots
  <2>4. ASSUME NEW r \in Queues, r # q PROVE CountsAt(r)'
    <3>1. PICK from, to : Goto(t, from, to)
      BY <1>5 DEF AddCount, UndoCount, Connect, ConnectFails
    <3>2. count'[r] = count[r] /\ failed'[r] = failed[r]
      BY <1>5, <2>1, <2>q, <2>4 DEF AddCount, UndoCount, Connect, ConnectFails, TypeOK
    <3>3. Made(r)' = Made(r)
      BY <1>5, <2>1, <2>q, <2>4, NullAssumption
         DEF AddCount, UndoCount, Connect, ConnectFails, TypeOK, Made
    <3>4. QED
      BY <1>0, <2>1, <2>q, <2>4, <3>1, <3>2, <3>3, OtherQueue
  <2>5. ASSUME AddCount(t) /\ count[q] < max_count PROVE CountsAt(q)'
    <3>1. Goto(t, "add", "connect") /\ count'[q] = count[q] + 1
      BY <2>1, <2>q, <2>5 DEF AddCount, TypeOK
    <3>2. /\ Cardinality(Threads_at(q, "connect")') = busy + 1
          /\ Threads_at(q, "undo")' = Threads_at(q, "undo")
      BY <2>1, <2>q, <3>1, Movement
    <3>3. Made(q)' = Made(q) /\ failed'[q] = failed[q]
      BY <2>1, <2>q, <2>5 DEF AddCount, Made
    <3>4. CountsAt(q)'
      BY <2>1, <2>q, <2>2, <2>3, <2>5, <3>1, <3>2, <3>3, PoolAssumption DEF CountsAt, Slots
    <3>5. QED
      BY <3>4
  <2>6. ASSUME AddCount(t) /\ ~(count[q] < max_count) PROVE CountsAt(q)'
    <3>1. Goto(t, "add", "undo") /\ count'[q] = count[q] + 1
      BY <2>1, <2>q, <2>6 DEF AddCount, TypeOK
    <3>2. /\ Cardinality(Threads_at(q, "undo")') = undo + 1
          /\ Threads_at(q, "connect")' = Threads_at(q, "connect")
      BY <2>1, <2>q, <3>1, Movement
    <3>3. Made(q)' = Made(q) /\ failed'[q] = failed[q]
      BY <2>1, <2>q, <2>6 DEF AddCount, Made
    <3>4. made + busy + failed[q] = max_count
      BY <2>2, <2>3, <2>6, PoolAssumption
    <3>5. QED
      BY <2>1, <2>q, <2>2, <2>3, <3>1, <3>2, <3>3, <3>4, PoolAssumption DEF CountsAt, Slots
  <2>7. ASSUME UndoCount(t) PROVE CountsAt(q)'
    <3>1. Goto(t, "undo", "wait") /\ count'[q] = count[q] - 1
      BY <2>1, <2>q, <2>7 DEF UndoCount, TypeOK
    <3>2. /\ Cardinality(Threads_at(q, "undo")') = undo - 1
          /\ Threads_at(q, "connect")' = Threads_at(q, "connect")
      BY <2>1, <2>q, <3>1, Movement
    <3>3. Made(q)' = Made(q) /\ failed'[q] = failed[q]
      BY <2>1, <2>q, <2>7 DEF UndoCount, Made
    <3>4. undo # 0
      BY <2>1, <2>q, <3>1, OneThere DEF Goto
    <3>5. QED
      BY <2>1, <2>q, <2>2, <2>3, <3>1, <3>2, <3>3, <3>4, PoolAssumption DEF CountsAt, Slots
  <2>8. ASSUME Connect(t) PROVE CountsAt(q)'
    <3>1. Goto(t, "connect", "have") /\ count'[q] = count[q] /\ failed'[q] = failed[q]
      BY <2>1, <2>q, <2>8 DEF Connect
    <3>2. /\ Cardinality(Threads_at(q, "connect")') = busy - 1
          /\ Threads_at(q, "undo")' = Threads_at(q, "undo")
      BY <2>1, <2>q, <3>1, Movement
    <3>3. PICK c \in Connections : peer[c] = NULL /\ peer' = [peer EXCEPT ![c] = q]
      BY <2>8, <2>q DEF Connect
    <3>4. Made(q)' = Made(q) \cup {c} /\ c \notin Made(q)
      BY <2>1, <2>q, <3>3, NullAssumption DEF Made, TypeOK
    <3>5. Cardinality(Made(q)') = made + 1
      BY <2>2, <3>4, FS_AddElement
    <3>6. Slots(q)' = Slots(q)
      BY <2>2, <3>1, <3>2, <3>5 DEF Slots
    <3>7. QED
      BY <1>0, <3>1, <3>2, <3>6 DEF CountsAt
  <2>9. ASSUME ConnectFails(t) PROVE CountsAt(q)'
    <3>1. Goto(t, "connect", "wait") /\ count'[q] = count[q] /\ failed'[q] = failed[q] + 1
      BY <2>1, <2>q, <2>9 DEF ConnectFails, TypeOK
    <3>2. /\ Cardinality(Threads_at(q, "connect")') = busy - 1
          /\ Threads_at(q, "undo")' = Threads_at(q, "undo")
      BY <2>1, <2>q, <3>1, Movement
    <3>3. Made(q)' = Made(q)
      BY <2>1, <2>q, <2>9 DEF ConnectFails, Made
    <3>4. QED
      BY <2>1, <2>q, <2>2, <2>3, <3>1, <3>2, <3>3, PoolAssumption DEF CountsAt, Slots
  <2>10. CountsAt(q)'
    BY <1>5, <2>5, <2>6, <2>7, <2>8, <2>9
  <2>11. \A r \in Queues : CountsAt(r)'
    BY <2>4, <2>10
  <2>12. QED
    BY <2>11 DEF Counting, CountIsExact, WithinLimit, OvercountOnlyWhenFull, CountsAt
<1>12. CASE UNCHANGED vars
  BY <1>12, CountingFrame DEF vars, Threads_at
<1>13. QED
  BY <1>1, <1>2, <1>3, <1>4, <1>5, <1>12 DEF Next, Step

-----------------------------------------------------------------------------
(* Ownership.                                                              *)

Injective(s) == \A i, j \in DOMAIN s : s[i] = s[j] => i = j

(* What is in a duplicate-free sequence once its head is gone, and once an *)
(* element is appended to it.                                              *)
LEMMA TailOf ==
    ASSUME NEW S, NEW s \in Seq(S), s # <<>>, Injective(s)
    PROVE  /\ Injective(Tail(s))
           /\ {Tail(s)[i] : i \in DOMAIN Tail(s)} = {s[i] : i \in DOMAIN s} \ {Head(s)}
           /\ Head(s) \in {s[i] : i \in DOMAIN s}
<1>1. /\ Len(s) \in Nat \ {0} /\ DOMAIN s = 1 .. Len(s)
      /\ DOMAIN Tail(s) = 1 .. (Len(s) - 1) /\ Head(s) = s[1]
      /\ \A i \in 1 .. (Len(s) - 1) : Tail(s)[i] = s[i + 1]
  OBVIOUS
<1>2. Injective(Tail(s))
  BY <1>1 DEF Injective
<1>3. ASSUME NEW x \in {s[i] : i \in DOMAIN s}, x # Head(s)
      PROVE  x \in {Tail(s)[i] : i \in DOMAIN Tail(s)}
  <2>1. PICK i \in 2 .. Len(s) : x = s[i]
    BY <1>1, <1>3
  <2>2. i - 1 \in DOMAIN Tail(s) /\ Tail(s)[i - 1] = x
    BY <1>1, <2>1
  <2>3. QED
    BY <2>2
<1>4. ASSUME NEW i \in DOMAIN Tail(s)
      PROVE  Tail(s)[i] \in {s[k] : k \in DOMAIN s} \ {Head(s)}
  <2>1. i + 1 \in DOMAIN s /\ i + 1 # 1 /\ Tail(s)[i] = s[i + 1] /\ 1 \in DOMAIN s
    BY <1>1
  <2>2. QED
    BY <1>1, <2>1 DEF Injective
<1>5. QED
  BY <1>1, <1>2, <1>3, <1>4

LEMMA AppendOf ==
    ASSUME NEW S, NEW s \in Seq(S), NEW x \in S, Injective(s),
           x \notin {s[i] : i \in DOMAIN s}
    PROVE  /\ Injective(Append(s, x))
           /\ {Append(s, x)[i] : i \in DOMAIN Append(s, x)} = {s[i] : i \in DOMAIN s} \cup {x}
<1>1. /\ Len(s) \in Nat /\ DOMAIN s = 1 .. Len(s)
      /\ DOMAIN Append(s, x) = 1 .. (Len(s) + 1)
      /\ Append(s, x)[Len(s) + 1] = x
      /\ \A i \in 1 .. Len(s) : Append(s, x)[i] = s[i]
  OBVIOUS
<1>2. \A i \in DOMAIN Append(s, x) : i \in DOMAIN s \/ i = Len(s) + 1
  BY <1>1
<1>3. Injective(Append(s, x))
  BY <1>1, <1>2 DEF Injective
<1>4. QED
  BY <1>1, <1>2, <1>3

(* What Take does to the idle connections.                                 *)
LEMMA TakeIdle ==
    ASSUME TypeOK, ExclusiveUse, NEW t \in Threads, NEW q \in Queues, q = at[t], Take(t)
    PROVE  /\ connection'[t] \in Idle(q)
           /\ Idle(q)' = Idle(q) \ {connection'[t]}
           /\ Injective(queue'[q])
           /\ connection' = [connection EXCEPT ![t] = connection'[t]]
           /\ \A r \in Queues : r # q => queue'[r] = queue[r]
<1>1. /\ queue[q] \in Seq(Connections) /\ queue[q] # <<>> /\ Injective(queue[q])
      /\ queue'[q] = Tail(queue[q]) /\ connection'[t] = Head(queue[q])
  BY DEF TypeOK, ExclusiveUse, Take, Injective
<1>2. /\ Injective(Tail(queue[q]))
      /\ {Tail(queue[q])[i] : i \in DOMAIN Tail(queue[q])}
            = {queue[q][i] : i \in DOMAIN queue[q]} \ {Head(queue[q])}
      /\ Head(queue[q]) \in {queue[q][i] : i \in DOMAIN queue[q]}
  BY <1>1, TailOf
<1>3. Idle(q)' = {Tail(queue[q])[i] : i \in DOMAIN Tail(queue[q])}
  BY <1>1 DEF Idle
<1>4. connection'[t] \in Idle(q) /\ Idle(q)' = Idle(q) \ {connection'[t]} /\ Injective(queue'[q])
  BY <1>1, <1>2, <1>3 DEF Idle
<1>5. connection' = [connection EXCEPT ![t] = connection'[t]]
  BY DEF Take, TypeOK
<1>6. \A r \in Queues : r # q => queue'[r] = queue[r]
  BY DEF Take, TypeOK
<1>7. QED
  BY <1>4, <1>5, <1>6

Ownership == ExclusiveUse /\ NoneLost

(* Steps that move no connection.                                          *)
LEMMA OwnershipFrame ==
    ASSUME TypeOK, Placed, Ownership, UNCHANGED <<pool, queue, connection, peer, closed>>,
           \A t \in Threads : /\ pc'[t] = "have" <=> pc[t] = "have"
                              /\ pc[t] = "have" => at'[t] = at[t]
    PROVE  Ownership'
<1>1. \A q \in Queues : Made(q)' = Made(q) /\ Idle(q)' = Idle(q)
  BY DEF Made, Idle
<1>2. ExclusiveUse'
  <2>1. ASSUME NEW t \in Threads, pc'[t] = "have"
        PROVE  connection'[t] \in Made(at[t])' \ Idle(at[t])'
    <3>1. pc[t] = "have" /\ at'[t] = at[t] /\ at[t] \in Queues
      BY <2>1 DEF Placed
    <3>2. QED
      BY <1>1, <3>1 DEF Ownership, ExclusiveUse
  <2>2. QED
    BY <1>1, <2>1 DEF Ownership, ExclusiveUse
<1>3. NoneLost'
  BY <1>1 DEF Ownership, NoneLost
<1>4. QED
  BY <1>2, <1>3 DEF Ownership

(* A thread gets hold of an idle connection.                               *)
LEMMA OwnershipTake ==
    ASSUME TypeOK, Placed, Ownership, NEW t \in Threads, NEW from, Goto(t, from, "have"),
           from # "idle", from # "have", Take(t), UNCHANGED <<pool, at, peer, closed>>
    PROVE  Ownership'
<1>1. PICK q \in Queues : q = at[t]
  BY DEF Goto, Placed
<1> DEFINE c == connection'[t]
<1>2. /\ c \in Idle(q) /\ Idle(q)' = Idle(q) \ {c} /\ Injective(queue'[q])
      /\ connection' = [connection EXCEPT ![t] = c]
      /\ \A r \in Queues : r # q => queue'[r] = queue[r]
  BY <1>1, TakeIdle DEF Ownership
<1>3. /\ \A r \in Queues : Made(r)' = Made(r)
      /\ \A r \in Queues : r # q => Idle(r)' = Idle(r)
      /\ \A u \in Threads : u # t => connection'[u] = connection[u] /\ pc'[u] = pc[u]
      /\ pool = "up"
  BY <1>1, <1>2 DEF Made, Idle, Goto, TypeOK, Placed
<1>4. c \in Made(q) /\ \A r \in Queues : r # q => c \notin Made(r)
  BY <1>1, <1>2 DEF Ownership, ExclusiveUse, Made
<1>5. \A u \in Threads : pc[u] = "have" => connection[u] # c
  BY <1>1, <1>2, <1>4 DEF Ownership, ExclusiveUse, Placed
<1>6. ExclusiveUse'
  <2>1. ASSUME NEW r \in Queues PROVE Injective(queue'[r]) /\ Idle(r)' \subseteq Made(r)'
    BY <1>2, <1>3 DEF Ownership, ExclusiveUse, Injective
  <2>2. ASSUME NEW u \in Threads, pc'[u] = "have"
        PROVE  connection'[u] \in Made(at[u])' \ Idle(at[u])'
    <3>1. CASE u = t
      BY <1>1, <1>2, <1>3, <1>4, <3>1
    <3>2. CASE u # t
      <4>1. pc[u] = "have" /\ connection'[u] = connection[u] /\ at[u] \in Queues
        BY <1>3, <2>2, <3>2 DEF Placed
      <4>2. connection[u] \in Made(at[u]) \ Idle(at[u])
        BY <4>1 DEF Ownership, ExclusiveUse
      <4>3. Idle(at[u])' \subseteq Idle(at[u]) /\ Made(at[u])' = Made(at[u])
        BY <1>2, <1>3, <4>1
      <4>4. QED
        BY <4>1, <4>2, <4>3
    <3>3. QED
      BY <3>1, <3>2
  <2>3. ASSUME NEW u \in Threads, NEW v \in Threads, pc'[u] = "have", pc'[v] = "have",
               connection'[u] = connection'[v]
        PROVE  u = v
    BY <1>3, <1>5, <2>3 DEF Ownership, ExclusiveUse
  <2>4. QED
    BY <2>1, <2>2, <2>3 DEF ExclusiveUse, Injective
<1>7. NoneLost'
  <2>1. ASSUME NEW r \in Queues, NEW d \in Made(r)
        PROVE  d \in Idle(r)' \/ \E u \in Threads : pc'[u] = "have" /\ connection'[u] = d
    <3>1. CASE d = c
      BY <3>1 DEF Goto, TypeOK
    <3>2. CASE d # c
      <4>1. d \in Idle(r) \/ \E u \in Threads : pc[u] = "have" /\ connection[u] = d
        BY <1>3 DEF Ownership, NoneLost
      <4>2. CASE d \in Idle(r)
        BY <1>2, <1>3, <3>2, <4>2
      <4>3. CASE \E u \in Threads : pc[u] = "have" /\ connection[u] = d
        BY <1>3, <4>3 DEF Goto
      <4>4. QED
        BY <4>1, <4>2, <4>3
    <3>3. QED
      BY <3>1, <3>2
  <2>2. QED
    BY <1>3, <2>1 DEF NoneLost
<1>8. QED
  BY <1>6, <1>7 DEF Ownership

(* A new connection belongs to the thread that made it.                    *)
LEMMA OwnershipConnect ==
    ASSUME TypeOK, Placed, Ownership, NEW t \in Threads, Connect(t)
    PROVE  Ownership'
<1>1. PICK q \in Queues : q = at[t]
  BY DEF Connect, Goto, Placed
<1>2. PICK c \in Connections : /\ peer[c] = NULL
                               /\ peer' = [peer EXCEPT ![c] = q]
                               /\ connection' = [connection EXCEPT ![t] = c]
  BY <1>1 DEF Connect
<1>3. /\ Made(q)' = Made(q) \cup {c}
      /\ \A r \in Queues : r # q => Made(r)' = Made(r)
      /\ \A r \in Queues : c \notin Made(r) /\ Idle(r)' = Idle(r)
      /\ \A u \in Threads : u # t => connection'[u] = connection[u] /\ pc'[u] = pc[u]
      /\ pc'[t] = "have" /\ connection'[t] = c /\ pool = "up" /\ pool' = pool
      /\ at' = at /\ queue' = queue
  BY <1>1, <1>2, NullAssumption DEF Made, Idle, Connect, Goto, TypeOK, Placed
<1>4. \A u \in Threads : u # t /\ pc[u] = "have" => connection[u] # c
  BY <1>3 DEF Ownership, ExclusiveUse, Placed
<1>5. ExclusiveUse'
  <2>1. ASSUME NEW r \in Queues PROVE Injective(queue'[r]) /\ Idle(r)' \subseteq Made(r)'
    BY <1>3 DEF Ownership, ExclusiveUse, Injective
  <2>2. ASSUME NEW u \in Threads, pc'[u] = "have"
        PROVE  connection'[u] \in Made(at[u])' \ Idle(at[u])'
    <3>1. CASE u = t
      BY <1>1, <1>3, <3>1 DEF Ownership, ExclusiveUse
    <3>2. CASE u # t
      <4>1. pc[u] = "have" /\ connection'[u] = connection[u] /\ at[u] \in Queues
        BY <1>3, <2>2, <3>2 DEF Placed
      <4>2. connection[u] \in Made(at[u]) \ Idle(at[u])
        BY <4>1 DEF Ownership, ExclusiveUse
      <4>3. QED
        BY <1>3, <4>1, <4>2
    <3>3. QED
      BY <3>1, <3>2
  <2>3. ASSUME NEW u \in Threads, NEW v \in Threads, pc'[u] = "have", pc'[v] = "have",
               connection'[u] = connection'[v]
        PROVE  u = v
    BY <1>3, <1>4, <2>3 DEF Ownership, ExclusiveUse
  <2>4. QED
    BY <2>1, <2>2, <2>3 DEF ExclusiveUse, Injective
<1>6. NoneLost'
  <2>1. ASSUME NEW r \in Queues, NEW d \in Made(r)'
        PROVE  d \in Idle(r)' \/ \E u \in Threads : pc'[u] = "have" /\ connection'[u] = d
    <3>1. CASE d = c
      BY <1>3, <3>1
    <3>2. CASE d # c
      <4>1. d \in Made(r)
        BY <1>3, <2>1, <3>2
      <4>2. d \in Idle(r) \/ \E u \in Threads : pc[u] = "have" /\ connection[u] = d
        BY <1>3, <4>1 DEF Ownership, NoneLost
      <4>3. pc[t] # "have"
        BY DEF Connect, Goto
      <4>4. QED
        BY <1>3, <4>2, <4>3
    <3>3. QED
      BY <3>1, <3>2
  <2>2. QED
    BY <1>3, <2>1 DEF NoneLost
<1>7. QED
  BY <1>5, <1>6 DEF Ownership

(* A connection that is pushed becomes idle again.                         *)
LEMMA OwnershipPush ==
    ASSUME TypeOK, Placed, Ownership, NEW t \in Threads, Push(t)
    PROVE  Ownership'
<1>1. PICK q \in Queues : q = at[t]
  BY DEF Push, Goto, Placed
<1> DEFINE c == connection[t]
<1>2. /\ c \in Connections /\ c \in Made(q) /\ c \notin Idle(q)
      /\ queue[q] \in Seq(Connections) /\ Injective(queue[q])
      /\ queue'[q] = Append(queue[q], c)
      /\ \A r \in Queues : r # q => queue'[r] = queue[r]
  BY <1>1, NullAssumption DEF Push, Goto, Placed, TypeOK, Ownership, ExclusiveUse, Injective
<1>3. /\ Injective(Append(queue[q], c))
      /\ {Append(queue[q], c)[i] : i \in DOMAIN Append(queue[q], c)} = Idle(q) \cup {c}
  BY <1>2, AppendOf DEF Idle
<1>4. Idle(q)' = Idle(q) \cup {c}
  BY <1>2, <1>3 DEF Idle
<1>5. /\ \A r \in Queues : Made(r)' = Made(r)
      /\ \A r \in Queues : r # q => Idle(r)' = Idle(r)
      /\ \A u \in Threads : u # t => connection'[u] = connection[u] /\ pc'[u] = pc[u]
      /\ pc'[t] # "have" /\ pc[t] = "have" /\ pool = "up" /\ pool' = pool /\ at' = at
  BY <1>1, <1>2 DEF Made, Idle, Push, Goto, TypeOK
<1>6. ExclusiveUse'
  <2>1. ASSUME NEW r \in Queues PROVE Injective(queue'[r]) /\ Idle(r)' \subseteq Made(r)'
    BY <1>2, <1>3, <1>4, <1>5 DEF Ownership, ExclusiveUse, Injective
  <2>2. ASSUME NEW u \in Threads, pc'[u] = "have"
        PROVE  connection'[u] \in Made(at[u])' \ Idle(at[u])'
    <3>1. u # t /\ pc[u] = "have" /\ connection'[u] = connection[u] /\ at[u] \in Queues
      BY <1>5, <2>2 DEF Placed
    <3>2. connection[u] \in Made(at[u]) \ Idle(at[u]) /\ connection[u] # c
      BY <1>5, <3>1 DEF Ownership, ExclusiveUse
    <3>3. QED
      BY <1>4, <1>5, <3>1, <3>2
  <2>3. ASSUME NEW u \in Threads, NEW v \in Threads, pc'[u] = "have", pc'[v] = "have",
               connection'[u] = connection'[v]
        PROVE  u = v
    BY <1>5, <2>3 DEF Ownership, ExclusiveUse
  <2>4. QED
    BY <2>1, <2>2, <2>3 DEF ExclusiveUse, Injective
<1>7. NoneLost'
  <2>1. ASSUME NEW r \in Queues, NEW d \in Made(r)
        PROVE  d \in Idle(r)' \/ \E u \in Threads : pc'[u] = "have" /\ connection'[u] = d
    <3>1. CASE d = c
      <4>1. r = q
        BY <1>2, <3>1 DEF Made
      <4>2. QED
        BY <1>4, <3>1, <4>1
    <3>2. CASE d # c
      <4>1. d \in Idle(r) \/ \E u \in Threads : pc[u] = "have" /\ connection[u] = d
        BY <1>5 DEF Ownership, NoneLost
      <4>2. QED
        BY <1>4, <1>5, <3>2, <4>1
    <3>3. QED
      BY <3>1, <3>2
  <2>2. QED
    BY <1>5, <2>1 DEF NoneLost
<1>8. QED
  BY <1>6, <1>7 DEF Ownership

LEMMA OwnershipStep == TypeOK /\ Placed /\ Ownership /\ [Next]_vars => Ownership'
<1> SUFFICES ASSUME TypeOK, Placed, Ownership, [Next]_vars PROVE Ownership'
  OBVIOUS
<1>1. CASE PoolInit
  <2>1. \A q \in Queues : Made(q)' = {} /\ Idle(q)' = {} /\ queue'[q] = <<>>
    BY <1>1, NullAssumption DEF PoolInit, Placed, Made, Idle
  <2>2. \A t \in Threads : pc'[t] # "have"
    BY <1>1 DEF PoolInit, Placed
  <2>3. QED
    BY <2>1, <2>2 DEF Ownership, ExclusiveUse, NoneLost
<1>2. CASE PoolFini
  <2>1. \A q \in Queues : Made(q)' = Made(q) /\ Idle(q)' = {} /\ queue'[q] = <<>>
    BY <1>2 DEF PoolFini, Made, Idle
  <2>2. \A t \in Threads : pc'[t] # "have" /\ pc[t] # "have"
    BY <1>2 DEF PoolFini
  <2>3. \A q \in Queues : Idle(q) \subseteq closed'
    BY <1>2 DEF PoolFini, Idle
  <2>4. \A q \in Queues : Made(q)' \subseteq closed'
    BY <1>2, <2>1, <2>2, <2>3 DEF PoolFini, Ownership, NoneLost
  <2>5. QED
    BY <1>2, <2>1, <2>2, <2>4 DEF PoolFini, Ownership, ExclusiveUse, NoneLost
<1>3. ASSUME NEW t \in Threads, NEW q \in Queues, Pop(t, q) PROVE Ownership'
  BY <1>3, OwnershipFrame DEF Pop, Goto, TypeOK
<1>4. ASSUME NEW t \in Threads, TryPop(t) \/ BlockingPop(t) PROVE Ownership'
  <2>1. CASE Take(t)
    <3>1. UNCHANGED <<pool, at, peer, closed>>
      BY <1>4 DEF TryPop, BlockingPop
    <3>2. Goto(t, "try_pop", "have") \/ Goto(t, "wait", "have")
      BY <1>4, <2>1 DEF TryPop, BlockingPop, Take
    <3>3. QED
      BY <2>1, <3>1, <3>2, OwnershipTake
  <2>2. CASE ~Take(t)
    BY <1>4, <2>2, OwnershipFrame DEF TryPop, BlockingPop, Goto, TypeOK
  <2>3. QED
    BY <2>1, <2>2
<1>5. ASSUME NEW t \in Threads, CheckCount(t) \/ AddCount(t) \/ UndoCount(t) \/ ConnectFails(t)
      PROVE  Ownership'
  BY <1>5, OwnershipFrame DEF CheckCount, AddCount, UndoCount, ConnectFails, Goto, TypeOK
<1>6. CASE UNCHANGED vars
  BY <1>6, OwnershipFrame DEF vars
<1>7. QED
  BY <1>1, <1>2, <1>3, <1>4, <1>5, <1>6, OwnershipConnect, OwnershipPush DEF Next, Step

-----------------------------------------------------------------------------
LEMMA InitIInv == Init => IInv
<1> SUFFICES ASSUME Init PROVE IInv
  OBVIOUS
<1>1. TypeOK
  BY DEF Init, TypeOK
<1>2. Placed
  BY DEF Init, Placed
<1>3. ASSUME NEW q \in Queues
      PROVE  /\ Made(q) = {} /\ Idle(q) = {} /\ failed[q] = 0 /\ count[q] = 0
             /\ Threads_at(q, "connect") = {} /\ Threads_at(q, "undo") = {}
  BY NullAssumption DEF Init, Made, Idle, Threads_at
<1>4. Counting
  BY <1>3, FS_EmptySet, PoolAssumption
     DEF Counting, CountIsExact, WithinLimit, OvercountOnlyWhenFull, Slots
<1>5. ExclusiveUse /\ NoneLost
  BY <1>3 DEF Init, ExclusiveUse, NoneLost
<1>6. QED
  BY <1>1, <1>2, <1>4, <1>5 DEF IInv

LEMMA StepIInv == IInv /\ [Next]_vars => IInv'
BY TypeStep, PlacedStep, CountingStep, OwnershipStep DEF IInv, Ownership

(* The inductive invariant holds in every state of every behaviour.        *)
THEOREM Invariance == Spec => []IInv
BY InitIInv, StepIInv, PTL DEF Spec

(* The variables of the pool keep their types.                             *)
THEOREM TypeCorrect == Spec => []TypeOK
BY Invariance, PTL DEF IInv

(* However the threads interleave between the check and the increment of   *)
(* `count', no server gets more than max_count connections, `count' is     *)
(* exact, and it is too high only while the pool is exhausted.             *)
THEOREM CountSafe == Spec => [](CountIsExact /\ WithinLimit /\ OvercountOnlyWhenFull)
BY Invariance, PTL DEF IInv, Counting

(* No two threads ever use the same connection, and none is lost.          *)
THEOREM UseSafe == Spec => [](ExclusiveUse /\ NoneLost)
BY Invariance, PTL DEF IInv

-----------------------------------------------------------------------------
(* Refinement of BoundedPool.                                              *)

(* A thread that takes an idle connection acquires it.                     *)
LEMMA TakeReuses ==
    ASSUME IInv, NEW t \in Threads, NEW from, Goto(t, from, "have"), from # "idle",
           from # "have", Take(t), UNCHANGED <<peer, closed>>
    PROVE  Abstract!Next
<1>1. PICK q \in Queues : q = at[t]
  BY DEF IInv, Goto, Placed
<1> DEFINE c == connection'[t]
<1>2. c \in Idle(q) /\ connection' = [connection EXCEPT ![t] = c]
  BY <1>1, TakeIdle DEF IInv
<1>3. c \in Made(q) /\ c \in Connections /\ peer[c] = q
  BY <1>2 DEF IInv, ExclusiveUse, Made
<1>4. connection[t] = NULL /\ closed = {}
  BY DEF IInv, Goto, Placed
<1>5. ASSUME NEW u \in Threads PROVE connection[u] # c
  <2>1. CASE pc[u] = "have"
    <3>1. at[u] \in Queues /\ connection[u] \in Made(at[u]) \ Idle(at[u])
      BY <2>1 DEF IInv, ExclusiveUse, Placed
    <3>2. QED
      BY <1>2, <1>3, <3>1 DEF Made
  <2>2. CASE pc[u] # "have"
    BY <1>3, <2>2, NullAssumption DEF IInv, Placed
  <2>3. QED
    BY <2>1, <2>2
<1>6. Abstract!Reuse(t, q, c)
  BY <1>2, <1>3, <1>4, <1>5 DEF Abstract!Reuse, Abstract!Free
<1>7. QED
  BY <1>3, <1>6 DEF Abstract!Next

(* Making a connection is within the limit of the abstract pool.           *)
LEMMA ConnectOpens == ASSUME IInv, NEW t \in Threads, Connect(t) PROVE Abstract!Next
<1>1. PICK q \in Queues : q = at[t]
  BY DEF IInv, Connect, Goto, Placed
<1>2. PICK c \in Connections : /\ peer[c] = NULL
                               /\ peer' = [peer EXCEPT ![c] = q]
                               /\ connection' = [connection EXCEPT ![t] = c]
  BY <1>1 DEF Connect
<1>3. connection[t] = NULL /\ closed = {} /\ closed' = closed /\ pc[t] = "connect"
  BY DEF IInv, Connect, Goto, Placed
<1>4. \A u \in Threads : connection[u] # c
  <2>1. ASSUME NEW u \in Threads, pc[u] = "have" PROVE connection[u] # c
    <3>1. at[u] \in Queues /\ connection[u] \in Made(at[u])
      BY <2>1 DEF IInv, ExclusiveUse, Placed
    <3>2. QED
      BY <1>2, <3>1, NullAssumption DEF Made
  <2>2. QED
    BY <2>1, NullAssumption DEF IInv, Placed
<1>5. Cardinality(Made(q)) < max_count
  <2>1. /\ Cardinality(Made(q)) \in Nat /\ failed[q] \in Nat
        /\ Cardinality(Threads_at(q, "connect")) \in Nat \ {0}
    BY <1>1, <1>3, SlotsType, OneThere DEF IInv, TypeOK
  <2>2. QED
    BY <2>1, PoolAssumption DEF IInv, Counting, WithinLimit, Slots
<1>6. Abstract!Open(t, q, c)
  <2>1. Abstract!Cardinality(Made(q)) = Cardinality(Made(q))
    BY Zenon DEF Cardinality, Abstract!Cardinality
  <2>2. QED
    BY <1>2, <1>3, <1>4, <1>5, <2>1 DEF Abstract!Open, Abstract!Free, Made
<1>7. QED
  BY <1>6 DEF Abstract!Next

(* Finalising the pool closes every connection that was ever made.         *)
LEMMA FiniShutsDown == ASSUME IInv, IInv', PoolFini PROVE Abstract!Next
<1>1. \A t \in Threads : connection[t] = NULL
  BY DEF IInv, Placed, PoolFini
<1>2. closed' = UNION {Idle(q) : q \in Queues}
  BY DEF IInv, Placed, PoolFini, Idle
<1>3. ASSUME NEW c \in Connections PROVE c \in closed' <=> peer[c] # NULL
  <2>1. ASSUME c \in closed' PROVE peer[c] # NULL
    <3>1. PICK q \in Queues : c \in Idle(q)
      BY <1>2, <2>1
    <3>2. QED
      BY <3>1, NullAssumption DEF IInv, ExclusiveUse, Made
  <2>2. ASSUME peer[c] # NULL PROVE c \in closed'
    <3>1. peer[c] \in Queues /\ peer' = peer /\ pool' = "gone"
      BY <2>2 DEF IInv, TypeOK, PoolFini
    <3>2. c \in Made(peer[c])'
      BY <3>1 DEF Made
    <3>3. QED
      BY <3>1, <3>2 DEF IInv, NoneLost
  <2>3. QED
    BY <2>1, <2>2
<1>4. Connections \ closed' = {c \in Connections : peer[c] = NULL}
  BY <1>3
<1>5. Abstract!Shutdown
  BY <1>1, <1>4 DEF Abstract!Shutdown, PoolFini
<1>6. QED
  BY <1>5 DEF Abstract!Next

LEMMA StepRefines == IInv /\ IInv' /\ [Next]_vars => [Abstract!Next]_(Abstract!bvars)
<1> SUFFICES ASSUME IInv, IInv', [Next]_vars PROVE [Abstract!Next]_(Abstract!bvars)
  OBVIOUS
<1>1. CASE PoolInit \/ UNCHANGED vars
  BY <1>1 DEF PoolInit, vars, Abstract!bvars
<1>2. CASE PoolFini
  BY <1>2, FiniShutsDown
<1>3. ASSUME NEW t \in Threads, NEW q \in Queues, Pop(t, q)
      PROVE  [Abstract!Next]_(Abstract!bvars)
  BY <1>3 DEF Pop, Abstract!bvars
<1>4. ASSUME NEW t \in Threads, TryPop(t) \/ BlockingPop(t)
      PROVE  [Abstract!Next]_(Abstract!bvars)
  <2>1. CASE Take(t)
    <3>1. Goto(t, "try_pop", "have") \/ Goto(t, "wait", "have")
      BY <1>4, <2>1 DEF TryPop, BlockingPop, Take
    <3>2. UNCHANGED <<peer, closed>>
      BY <1>4 DEF TryPop, BlockingPop
    <3>3. QED
      BY <2>1, <3>1, <3>2, TakeReuses
  <2>2. CASE ~Take(t)
    BY <1>4, <2>2 DEF TryPop, BlockingPop, Abstract!bvars
  <2>3. QED
    BY <2>1, <2>2
<1>5. ASSUME NEW t \in Threads, CheckCount(t) \/ AddCount(t) \/ UndoCount(t) \/ ConnectFails(t)
      PROVE  [Abstract!Next]_(Abstract!bvars)
  BY <1>5 DEF CheckCount, AddCount, UndoCount, ConnectFails, Abstract!bvars
<1>6. ASSUME NEW t \in Threads, Connect(t) PROVE [Abstract!Next]_(Abstract!bvars)
  BY <1>6, ConnectOpens
<1>7. ASSUME NEW t \in Threads, Push(t) PROVE [Abstract!Next]_(Abstract!bvars)
  <2>1. connection[t] # NULL
    BY <1>7 DEF IInv, Placed, Push, Goto
  <2>2. Abstract!Release(t)
    BY <1>7, <2>1 DEF Abstract!Release, Push
  <2>3. QED
    BY <2>2 DEF Abstract!Next
<1>8. QED
  BY <1>1, <1>2, <1>3, <1>4, <1>5, <1>6, <1>7 DEF Next, Step

(* The pool implements the bounded pool: what the threads see of the many  *)
(* steps of pop and push is an atomic acquisition and release within the   *)
(* limit.                                                                  *)
THEOREM Refinement == Spec => ImplementsBoundedPool
<1>1. Init => Abstract!Init
  BY DEF Init, Abstract!Init
<1>2. QED
  BY <1>1, StepRefines, Invariance, PTL DEF Spec, ImplementsBoundedPool, Abstract!Spec
=============================================================================
