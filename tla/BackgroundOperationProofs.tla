--------------------- MODULE BackgroundOperationProofs ---------------------
(***************************************************************************)
(* Proofs about BackgroundOperation, for any number of application threads,*)
(* threads of the pool and operations, and any nesting of operations.      *)
(***************************************************************************)
EXTENDS BackgroundOperation, SequenceTheorems, TLAPS

Pcs == {"new", "wait", "sleep", "unref", "done", "idle", "run", "complete", "drop"}
ActorStates == [pc : Pcs, op : Ops \cup {NULL}, todo : Seq(Ops), wait : Seq(Ops)]

(* The variables have their types.                                         *)
TypeOK ==
    /\ queue \in Seq(Ops) /\ pool \in {"up", "closing", "freed"}
    /\ ref \in [Ops -> Nat] /\ completed \in [Ops -> BOOLEAN] /\ ran \in [Ops -> Nat]
    /\ actor \in [Actors -> ActorStates]

Injective(s) == \A i, j \in DOMAIN s : s[i] = s[j] => i = j

(* The operations of a list: those that are over, those that are waited    *)
(* for and those that are yet to be created.                               *)
Over(list, todo, wait) == Len(list) - Len(todo) - Len(wait)
InPast(o, list, todo, wait) == \E i \in 1 .. Over(list, todo, wait) : list[i] = o
Split(list, todo, wait) ==
    /\ list \in Seq(Ops) /\ todo \in Seq(Ops) /\ wait \in Seq(Ops)
    /\ Over(list, todo, wait) \in Nat
    /\ \A i \in DOMAIN wait : wait[i] = list[Over(list, todo, wait) + i]
    /\ \A i \in DOMAIN todo : todo[i] = list[Over(list, todo, wait) + Len(wait) + i]

(* What an actor creates: its program, or the parts of what it executes.   *)
List(a) == IF a \in Threads THEN Calls[a] ELSE IF actor[a].op = NULL THEN <<>> ELSE Parts[actor[a].op]
Past(a, o) == InPast(o, List(a), actor[a].todo, actor[a].wait)

Waiting == {"wait", "sleep", "unref"}
Shape(a) ==
    /\ Split(List(a), actor[a].todo, actor[a].wait)
    /\ actor[a].pc = "new" <=> actor[a].todo # <<>>
    /\ actor[a].pc \in Waiting <=> actor[a].todo = <<>> /\ actor[a].wait # <<>>
    /\ a \in Threads => actor[a].op = NULL /\ actor[a].pc \in Waiting \cup {"new", "done"}
    /\ a \in Workers => /\ actor[a].pc # "done" /\ (actor[a].op = NULL <=> actor[a].pc = "idle")
                        /\ actor[a].pc \in Waiting \cup {"new"} => Len(Parts[actor[a].op]) > 1

(* An operation is in the queue once, or with one worker.                  *)
Unique ==
    /\ Injective(queue)
    /\ \A w \in Workers : actor[w].op # NULL => ~InSeq(actor[w].op, queue)
    /\ \A w, v \in Workers : actor[w].op # NULL /\ actor[w].op = actor[v].op => w = v

(* The count of references.                                                *)
Counted ==
    \A o \in Ops : ref[o] = (IF CreatorHolds(o) THEN 1 ELSE 0) + (IF PoolHolds(o) THEN 1 ELSE 0)

(* What has run.                                                           *)
Done(o) == ran[o] = 1 /\ \A p \in Ops : InSeq(p, Parts[o]) => ran[p] = 1
NotYet ==
    /\ \A o \in Ops : InSeq(o, queue) => ran[o] = 0
    /\ \A a \in Actors, o \in Ops : InSeq(o, actor[a].todo) => ran[o] = 0 /\ ~PoolHolds(o)
    /\ \A o, p \in Ops : InSeq(p, Parts[o]) /\ (ran[p] # 0 \/ CreatorHolds(p) \/ PoolHolds(p)) => ran[o] # 0
Ran ==
    /\ \A w \in Workers : actor[w].op # NULL => ran[actor[w].op] = IF actor[w].pc = "run" THEN 0 ELSE 1
    /\ \A a \in Actors : actor[a].pc # "run" => \A o \in Ops : Past(a, o) => ran[o] = 1
Completes ==
    /\ \A o \in Ops : completed[o] => Done(o)
    /\ \A a \in Actors : actor[a].pc = "unref" => completed[Head(actor[a].wait)]
    /\ \A w \in Workers : actor[w].op # NULL /\ actor[w].pc # "drop" => ~completed[actor[w].op]

(* Once j_fini is called nothing creates operations any more.              *)
Closed ==
    pool # "up" =>
       /\ \A a \in Actors : actor[a].pc # "new"
       /\ \A o \in Ops : InSeq(o, queue) \/ (\E w \in Workers : actor[w].op = o /\ actor[w].pc = "run")
             => Len(Parts[o]) <= 1

Shapes == \A a \in Actors : Shape(a)
IInv == TypeOK /\ Shapes /\ Unique /\ Counted /\ NotYet /\ Ran /\ Completes /\ Closed

-----------------------------------------------------------------------------
(* Sequences.                                                              *)

LEMMA EmptyHasNone == \A o : ~InSeq(o, <<>>)
<1>1. DOMAIN << >> = {}
  BY EmptySeq, LenProperties
<1>2. QED
  BY <1>1 DEF InSeq

LEMMA HeadTail ==
    ASSUME NEW s \in Seq(Ops), s # <<>>
    PROVE  /\ Head(s) \in Ops /\ Tail(s) \in Seq(Ops) /\ InSeq(Head(s), s)
           /\ \A o : InSeq(o, s) <=> o = Head(s) \/ InSeq(o, Tail(s))
           /\ Injective(s) => Injective(Tail(s)) /\ ~InSeq(Head(s), Tail(s))
           /\ Len(s) = 1 <=> Tail(s) = <<>>
           /\ Len(s) > 1 <=> Tail(s) # <<>>
<1>1. /\ Head(s) \in Ops /\ Tail(s) \in Seq(Ops) /\ Len(Tail(s)) = Len(s) - 1
      /\ \A i \in 1 .. Len(Tail(s)) : Tail(s)[i] = s[i + 1]
  BY HeadTailProperties
<1>2. Len(s) \in Nat \ {0} /\ DOMAIN s = 1 .. Len(s) /\ DOMAIN Tail(s) = 1 .. Len(Tail(s)) /\ Head(s) = s[1]
  BY <1>1, EmptySeq, LenProperties
<1> DEFINE n == Len(s)
           r == Tail(s)
           h == Head(s)
<1>3. /\ n \in Nat \ {0} /\ DOMAIN s = 1 .. n /\ DOMAIN r = 1 .. n - 1 /\ h = s[1]
      /\ \A i \in 1 .. n - 1 : r[i] = s[i + 1]
  BY <1>1, <1>2
<1>a. Len(r) = n - 1 /\ r \in Seq(Ops)
  BY <1>1
<1> HIDE DEF n, r, h
<1>4. \A o : InSeq(o, s) <=> o = h \/ InSeq(o, r)
  <2>1. ASSUME NEW i \in 1 .. n PROVE s[i] = h \/ \E j \in 1 .. n - 1 : s[i] = r[j]
    <3>1. CASE i = 1
      BY <1>3, <3>1
    <3>2. CASE i # 1
      <4>1. i - 1 \in 1 .. n - 1 /\ r[i - 1] = s[i]
        BY <1>3, <3>2
      <4>2. QED
        BY <4>1
    <3>3. QED
      BY <3>1, <3>2
  <2>2. \A j \in 1 .. n - 1 : j + 1 \in 1 .. n /\ r[j] = s[j + 1]
    BY <1>3
  <2>3. 1 \in 1 .. n
    BY <1>3
  <2>4. QED
    BY <1>3, <2>1, <2>2, <2>3, ZenonT(40) DEF InSeq
<1>5. ASSUME Injective(s) PROVE Injective(r) /\ ~InSeq(h, r)
  <2>1. \A j \in 1 .. n - 1 : j \in Int /\ j + 1 \in 1 .. n /\ j + 1 # 1 /\ r[j] = s[j + 1] /\ 1 \in 1 .. n
    BY <1>3
  <2>2. Injective(r)
    <3>1. ASSUME NEW i \in 1 .. n - 1, NEW j \in 1 .. n - 1, r[i] = r[j] PROVE i = j
      <4>1. i + 1 = j + 1
        BY <1>3, <1>5, <2>1, <3>1, SMTT(40) DEF Injective
      <4>2. QED
        BY <2>1, <4>1
    <3>2. QED
      BY <1>3, <3>1 DEF Injective
  <2>3. ~InSeq(h, r)
    BY <1>3, <1>5, <2>1 DEF Injective, InSeq
  <2>4. QED
    BY <2>2, <2>3
<1>6. n = 1 <=> r = <<>>
  <2>1. r = <<>> => n = 1
    BY <1>3, <1>a, EmptySeq
  <2>2. r # <<>> => n # 1
    BY <1>3, <1>a, EmptySeq
  <2>3. QED
    BY <2>1, <2>2
<1>7. n > 1 <=> r # <<>>
  BY <1>3, <1>6
<1>8. InSeq(h, s)
  BY <1>4
<1>9. QED
  BY <1>1, <1>4, <1>5, <1>6, <1>7, <1>8 DEF n, r, h

LEMMA Appended ==
    ASSUME NEW s \in Seq(Ops), NEW x \in Ops
    PROVE  /\ Append(s, x) \in Seq(Ops) /\ Append(s, x) # <<>>
           /\ \A o : InSeq(o, Append(s, x)) <=> InSeq(o, s) \/ o = x
           /\ Injective(s) /\ ~InSeq(x, s) => Injective(Append(s, x))
           /\ s # <<>> => Head(Append(s, x)) = Head(s)
<1> DEFINE n == Len(s)
           r == Append(s, x)
<1>1. r \in Seq(Ops) /\ Len(r) = n + 1 /\ n \in Nat
  BY AppendProperties, LenProperties
<1>2. DOMAIN s = 1 .. n /\ DOMAIN r = 1 .. n + 1 /\ (s # <<>> => n # 0)
  BY <1>1, LenProperties, EmptySeq
<1>3. r[n + 1] = x /\ \A i \in 1 .. n : r[i] = s[i]
  BY AppendProperties
<1>4. r # <<>>
  BY <1>1, EmptySeq
<1>5. s # <<>> => Head(r) = Head(s)
  <2>1. ASSUME s # <<>> PROVE r[1] = s[1]
    BY <1>1, <1>2, <1>3, <2>1
  <2>2. QED
    BY <2>1
<1> HIDE DEF n, r
<1>6. \A o : InSeq(o, r) <=> InSeq(o, s) \/ o = x
  <2>1. \A i \in 1 .. n + 1 : i \in 1 .. n \/ i = n + 1
    BY <1>1
  <2>2. \A i \in 1 .. n : i \in 1 .. n + 1
    BY <1>1
  <2>3. n + 1 \in 1 .. n + 1
    BY <1>1
  <2>4. QED
    BY <1>2, <1>3, <2>1, <2>2, <2>3 DEF InSeq
<1>7. ASSUME Injective(s), ~InSeq(x, s) PROVE Injective(r)
  <2>1. \A i \in 1 .. n + 1 : i \in 1 .. n \/ i = n + 1
    BY <1>1
  <2>2. QED
    BY <1>2, <1>3, <1>7, <2>1 DEF InSeq, Injective
<1>8. QED
  BY <1>1, <1>4, <1>5, <1>6, <1>7 DEF n, r

(* A list is begun, goes on and ends.                                      *)
LEMMA SplitStart ==
    ASSUME NEW list \in Seq(Ops)
    PROVE  Split(list, list, <<>>) /\ \A o : ~InPast(o, list, list, <<>>)
<1>1. Len(list) \in Nat /\ << >> \in Seq(Ops) /\ Len(<< >>) = 0 /\ DOMAIN << >> = {}
  BY EmptySeq, LenProperties
<1>2. Over(list, list, <<>>) = 0 /\ DOMAIN list = 1 .. Len(list)
  <2>1. PICK n \in Nat : n = Len(list)
    BY <1>1
  <2>2. n - n - 0 = 0
    OBVIOUS
  <2>3. Len(list) - Len(list) - Len(<< >>) = 0
    BY <1>1, <2>1, <2>2, Zenon
  <2>4. DOMAIN list = 1 .. Len(list)
    BY LenProperties
  <2>5. QED
    BY <2>3, <2>4, Zenon DEF Over
<1>3. \A i \in 1 .. Len(list) : 0 + 0 + i = i
  OBVIOUS
<1>4. Split(list, list, <<>>)
  <2>1. \A i \in DOMAIN list : list[i] = list[Over(list, list, <<>>) + Len(<< >>) + i]
    BY <1>1, <1>2, <1>3, Zenon
  <2>2. \A i \in DOMAIN << >> : << >>[i] = list[Over(list, list, <<>>) + i]
    BY <1>1, Zenon
  <2>3. Over(list, list, <<>>) \in Nat
    BY <1>2
  <2>4. QED
    BY <1>1, <2>1, <2>2, <2>3, Zenon DEF Split
<1>5. QED
  BY <1>2, <1>4 DEF InPast

LEMMA SplitNew ==
    ASSUME NEW list, NEW todo, NEW wait, Split(list, todo, wait), todo # <<>>
    PROVE  /\ Split(list, Tail(todo), Append(wait, Head(todo)))
           /\ \A o : InPast(o, list, Tail(todo), Append(wait, Head(todo))) <=> InPast(o, list, todo, wait)
<1> DEFINE r == Tail(todo)
           v == Append(wait, Head(todo))
           n == Len(wait)
           m == Len(todo)
           k == Over(list, todo, wait)
<1>1. /\ list \in Seq(Ops) /\ todo \in Seq(Ops) /\ wait \in Seq(Ops) /\ k \in Nat
      /\ \A i \in DOMAIN wait : wait[i] = list[k + i]
      /\ \A i \in DOMAIN todo : todo[i] = list[k + n + i]
  BY DEF Split
<1>2. /\ r \in Seq(Ops) /\ Len(r) = m - 1 /\ Head(todo) = todo[1]
      /\ \A i \in 1 .. m - 1 : r[i] = todo[i + 1]
  BY <1>1, HeadTailProperties
<1>3. v \in Seq(Ops) /\ Len(v) = n + 1
  BY <1>1, HeadTail, AppendProperties
<1>4. v[n + 1] = todo[1] /\ \A i \in 1 .. n : v[i] = wait[i]
  BY <1>1, <1>2, HeadTail, AppendProperties
<1>5. /\ n \in Nat /\ m \in Nat \ {0} /\ Len(list) \in Nat
      /\ DOMAIN wait = 1 .. n /\ DOMAIN todo = 1 .. m /\ DOMAIN r = 1 .. m - 1 /\ DOMAIN v = 1 .. n + 1
  BY <1>1, <1>2, <1>3, LenProperties, EmptySeq
<1>6. Over(list, r, v) = k
  <2>1. Len(list) - (m - 1) - (n + 1) = Len(list) - m - n
    BY <1>5
  <2>2. QED
    BY <1>2, <1>3, <2>1 DEF Over
<1> HIDE DEF r, v, n, m, k
<1>7. \A i \in DOMAIN v : v[i] = list[k + i]
  <2>1. ASSUME NEW i \in 1 .. n + 1 PROVE v[i] = list[k + i]
    <3>1. CASE i \in 1 .. n
      BY <1>1, <1>4, <1>5, <3>1
    <3>2. CASE i = n + 1
      <4>1. v[i] = todo[1] /\ 1 \in 1 .. m
        BY <1>4, <1>5, <3>2
      <4>2. todo[1] = list[k + n + 1] /\ k + n + 1 = k + i
        BY <1>1, <1>5, <3>2, <4>1
      <4>3. QED
        BY <4>1, <4>2
    <3>3. QED
      BY <1>5, <3>1, <3>2
  <2>2. QED
    BY <1>5, <2>1
<1>8. \A i \in DOMAIN r : r[i] = list[k + (n + 1) + i]
  <2>1. ASSUME NEW i \in 1 .. m - 1 PROVE r[i] = list[k + (n + 1) + i]
    <3>1. i + 1 \in 1 .. m /\ k + n + (i + 1) = k + (n + 1) + i
      BY <1>1, <1>5
    <3>2. r[i] = todo[i + 1] /\ todo[i + 1] = list[k + n + (i + 1)]
      BY <1>1, <1>2, <1>5, <3>1
    <3>3. QED
      BY <3>1, <3>2
  <2>2. QED
    BY <1>5, <2>1
<1>9. Split(list, r, v)
  BY <1>1, <1>2, <1>3, <1>6, <1>7, <1>8 DEF Split
<1>10. \A o : InPast(o, list, r, v) <=> InPast(o, list, todo, wait)
  BY <1>6 DEF InPast, k
<1>11. QED
  BY <1>9, <1>10 DEF r, v

LEMMA SplitUnref ==
    ASSUME NEW list, NEW todo, NEW wait, Split(list, todo, wait), wait # <<>>
    PROVE  /\ Split(list, todo, Tail(wait))
           /\ \A o : InPast(o, list, todo, Tail(wait)) <=> InPast(o, list, todo, wait) \/ o = Head(wait)
<1> DEFINE r == Tail(wait)
           n == Len(wait)
           m == Len(todo)
           k == Over(list, todo, wait)
<1>1. /\ list \in Seq(Ops) /\ todo \in Seq(Ops) /\ wait \in Seq(Ops) /\ k \in Nat
      /\ \A i \in DOMAIN wait : wait[i] = list[k + i]
      /\ \A i \in DOMAIN todo : todo[i] = list[k + n + i]
  BY DEF Split
<1>2. /\ r \in Seq(Ops) /\ Len(r) = n - 1 /\ Head(wait) = wait[1]
      /\ \A i \in 1 .. n - 1 : r[i] = wait[i + 1]
  BY <1>1, HeadTailProperties
<1>3. /\ n \in Nat \ {0} /\ m \in Nat /\ Len(list) \in Nat
      /\ DOMAIN wait = 1 .. n /\ DOMAIN todo = 1 .. m /\ DOMAIN r = 1 .. n - 1
  BY <1>1, <1>2, LenProperties, EmptySeq
<1>4. Over(list, todo, r) = k + 1
  <2>1. Len(list) - m - (n - 1) = (Len(list) - m - n) + 1
    BY <1>3
  <2>2. QED
    BY <1>2, <2>1 DEF Over
<1> HIDE DEF r, n, m, k
<1>5. \A i \in DOMAIN r : r[i] = list[(k + 1) + i]
  <2>1. ASSUME NEW i \in 1 .. n - 1 PROVE r[i] = list[(k + 1) + i]
    <3>1. i + 1 \in 1 .. n /\ k + (i + 1) = (k + 1) + i
      BY <1>1, <1>3
    <3>2. r[i] = wait[i + 1] /\ wait[i + 1] = list[k + (i + 1)]
      BY <1>1, <1>2, <1>3, <3>1
    <3>3. QED
      BY <3>1, <3>2
  <2>2. QED
    BY <1>3, <2>1
<1>6. \A i \in DOMAIN todo : todo[i] = list[(k + 1) + (n - 1) + i]
  <2>1. ASSUME NEW i \in 1 .. m PROVE todo[i] = list[(k + 1) + (n - 1) + i]
    <3>1. (k + 1) + (n - 1) + i = k + n + i
      BY <1>1, <1>3
    <3>2. QED
      BY <1>1, <1>3, <3>1
  <2>2. QED
    BY <1>3, <2>1
<1>7. Split(list, todo, r)
  BY <1>1, <1>2, <1>4, <1>5, <1>6 DEF Split
<1>8. Head(wait) = list[k + 1]
  <2>1. 1 \in 1 .. n
    BY <1>3
  <2>2. QED
    BY <1>1, <1>2, <1>3, <2>1, Zenon
<1>9. (\A i \in 1 .. k + 1 : i \in 1 .. k \/ i = k + 1) /\ (\A i \in 1 .. k : i \in 1 .. k + 1) /\ k + 1 \in 1 .. k + 1
  BY <1>1
<1>10. \A o : InPast(o, list, todo, r) <=> (\E i \in 1 .. k : list[i] = o) \/ o = list[k + 1]
  BY <1>4, <1>9, Zenon DEF InPast
<1>11. \A o : InPast(o, list, todo, wait) <=> \E i \in 1 .. k : list[i] = o
  BY DEF InPast, k
<1>12. QED
  BY <1>7, <1>8, <1>10, <1>11 DEF r

LEMMA SplitEnd ==
    ASSUME NEW list, Split(list, <<>>, <<>>)
    PROVE  \A o : InSeq(o, list) => InPast(o, list, <<>>, <<>>)
<1>1. list \in Seq(Ops)
  BY DEF Split
<1>2. Len(list) \in Nat /\ DOMAIN list = 1 .. Len(list) /\ Len(<< >>) = 0
  BY <1>1, EmptySeq, LenProperties
<1>3. Over(list, <<>>, <<>>) = Len(list)
  BY <1>2 DEF Over
<1>4. QED
  BY <1>2, <1>3 DEF InPast, InSeq

LEMMA SplitParts ==
    ASSUME NEW list, NEW todo, NEW wait, Split(list, todo, wait), Injective(list)
    PROVE  /\ \A o : InSeq(o, todo) \/ InSeq(o, wait) => InSeq(o, list)
           /\ \A o : ~(InSeq(o, todo) /\ InSeq(o, wait))
           /\ Injective(todo) /\ Injective(wait)
<1> DEFINE n == Len(wait)
           m == Len(todo)
           k == Over(list, todo, wait)
           l == Len(list)
<1>1. /\ list \in Seq(Ops) /\ todo \in Seq(Ops) /\ wait \in Seq(Ops) /\ k \in Nat
      /\ \A i \in DOMAIN wait : wait[i] = list[k + i]
      /\ \A i \in DOMAIN todo : todo[i] = list[k + n + i]
  BY DEF Split
<1>2. /\ n \in Nat /\ m \in Nat /\ l \in Nat
      /\ DOMAIN wait = 1 .. n /\ DOMAIN todo = 1 .. m /\ DOMAIN list = 1 .. l
  BY <1>1, LenProperties
<1>3. k + n + m = l
  BY <1>2 DEF Over
<1> HIDE DEF n, m, k, l
<1>4. \A i \in 1 .. n : k + i \in 1 .. l
  BY <1>1, <1>2, <1>3
<1>5. \A i \in 1 .. m : k + n + i \in 1 .. l
  BY <1>1, <1>2, <1>3
<1>6. \A o : InSeq(o, todo) \/ InSeq(o, wait) => InSeq(o, list)
  BY <1>1, <1>2, <1>4, <1>5 DEF InSeq
<1>7. ASSUME NEW i \in 1 .. n, NEW j \in 1 .. m, wait[i] = todo[j] PROVE FALSE
  <2>0. list[k + i] = list[k + n + j] /\ k + i \in 1 .. l /\ k + n + j \in 1 .. l
    BY <1>1, <1>2, <1>4, <1>5, <1>7
  <2>1. k + i = k + n + j
    BY <1>2, <2>0 DEF Injective
  <2>2. QED
    BY <1>1, <1>2, <2>1
<1>8. \A o : ~(InSeq(o, todo) /\ InSeq(o, wait))
  BY <1>2, <1>7 DEF InSeq
<1>9. ASSUME NEW i \in 1 .. n, NEW j \in 1 .. n, wait[i] = wait[j] PROVE i = j
  <2>0. list[k + i] = list[k + j] /\ k + i \in 1 .. l /\ k + j \in 1 .. l
    BY <1>1, <1>2, <1>4, <1>9
  <2>1. k + i = k + j
    BY <1>2, <2>0 DEF Injective
  <2>2. QED
    BY <1>1, <1>2, <2>1
<1>10. ASSUME NEW i \in 1 .. m, NEW j \in 1 .. m, todo[i] = todo[j] PROVE i = j
  <2>0. list[k + n + i] = list[k + n + j] /\ k + n + i \in 1 .. l /\ k + n + j \in 1 .. l
    BY <1>1, <1>2, <1>5, <1>10
  <2>1. k + n + i = k + n + j
    BY <1>2, <2>0 DEF Injective
  <2>2. QED
    BY <1>1, <1>2, <2>1
<1>11. Injective(todo) /\ Injective(wait)
  BY <1>2, <1>9, <1>10 DEF Injective
<1>12. QED
  BY <1>6, <1>8, <1>11

-----------------------------------------------------------------------------
(* The lists of the actors.                                                *)

LEMMA PartsType == ASSUME NEW o \in Ops PROVE Parts[o] \in Seq(Ops) /\ Injective(Parts[o])
BY BackgroundAssumption DEF Injective

LEMMA ListType ==
    ASSUME TypeOK, NEW a \in Actors PROVE List(a) \in Seq(Ops) /\ Injective(List(a))
<1>1. CASE a \in Threads
  BY <1>1, BackgroundAssumption DEF List, Injective
<1>2. CASE a \notin Threads /\ actor[a].op = NULL
  <2>1. List(a) = <<>> /\ << >> \in Seq(Ops) /\ DOMAIN << >> = {}
    BY <1>2, EmptySeq, LenProperties DEF List
  <2>2. QED
    BY <2>1 DEF Injective
<1>3. CASE a \notin Threads /\ actor[a].op # NULL
  <2>1. actor[a].op \in Ops
    BY <1>3 DEF TypeOK, ActorStates
  <2>2. QED
    BY <1>3, <2>1, PartsType DEF List
<1>4. QED
  BY <1>1, <1>2, <1>3

(* No two actors create the same operation.                                *)
LEMMA ListsDisjoint ==
    ASSUME TypeOK, Unique, NEW o \in Ops, NEW a \in Actors, InSeq(o, List(a))
    PROVE  /\ \A b \in Actors : InSeq(o, List(b)) => a = b
           /\ \A p \in Ops : InSeq(o, Parts[p]) => a \in Workers /\ actor[a].op = p
<1>1. ASSUME NEW b \in Actors, b \notin Threads, InSeq(o, List(b))
      PROVE  b \in Workers /\ actor[b].op # NULL /\ actor[b].op \in Ops /\ InSeq(o, Parts[actor[b].op])
  <2>1. actor[b].op # NULL
    BY <1>1, EmptyHasNone DEF List
  <2>2. QED
    BY <1>1, <2>1 DEF List, TypeOK, ActorStates, Actors
<1>2. \A p, q \in Ops : InSeq(o, Parts[p]) /\ InSeq(o, Parts[q]) => p = q
  BY BackgroundAssumption DEF InSeq
<1>3. \A t, u \in Threads : InSeq(o, Calls[t]) /\ InSeq(o, Calls[u]) => t = u
  BY BackgroundAssumption DEF InSeq
<1>4. \A t \in Threads, p \in Ops : ~(InSeq(o, Calls[t]) /\ InSeq(o, Parts[p]))
  BY BackgroundAssumption DEF InSeq
<1>5. \A b \in Threads : List(b) = Calls[b]
  BY DEF List
<1>6. ASSUME NEW p \in Ops, InSeq(o, Parts[p]) PROVE a \in Workers /\ actor[a].op = p
  BY <1>1, <1>2, <1>4, <1>5, <1>6
<1>7. ASSUME NEW b \in Actors, InSeq(o, List(b)) PROVE a = b
  <2>1. CASE a \in Threads
    BY <1>1, <1>3, <1>4, <1>5, <1>7, <2>1
  <2>2. CASE a \notin Threads
    <3>1. b \in Workers /\ actor[a].op = actor[b].op /\ actor[a].op # NULL /\ a \in Workers
      BY <1>1, <1>2, <1>4, <1>5, <1>7, <2>2
    <3>2. QED
      BY <3>1 DEF Unique
  <2>3. QED
    BY <2>1, <2>2
<1>8. QED
  BY <1>6, <1>7

(* What an actor still creates or waits for.                               *)
LEMMA ShapeFacts ==
    ASSUME TypeOK, Shapes, NEW a \in Actors
    PROVE  /\ actor[a] \in ActorStates /\ actor[a].todo \in Seq(Ops) /\ actor[a].wait \in Seq(Ops)
           /\ \A o : InSeq(o, actor[a].todo) \/ InSeq(o, actor[a].wait) => InSeq(o, List(a))
           /\ \A o : ~(InSeq(o, actor[a].todo) /\ InSeq(o, actor[a].wait))
           /\ Injective(actor[a].todo) /\ Injective(actor[a].wait)
<1>1. actor[a] \in ActorStates /\ actor[a].todo \in Seq(Ops) /\ actor[a].wait \in Seq(Ops)
  BY DEF TypeOK, ActorStates
<1>2. Split(List(a), actor[a].todo, actor[a].wait)
  BY DEF Shapes, Shape
<1>3. Injective(List(a))
  BY ListType
<1>4. QED
  BY <1>1, <1>2, <1>3, SplitParts

(* Only a changes.                                                         *)
OnlyActor(a, new) ==
    actor' \in [Actors -> ActorStates] /\ actor'[a] = new /\ \A b \in Actors \ {a} : actor'[b] = actor[b]

LEMMA WithActor ==
    ASSUME TypeOK, NEW a \in Actors, NEW new \in ActorStates, actor' = [actor EXCEPT ![a] = new]
    PROVE  OnlyActor(a, new)
BY DEF TypeOK, OnlyActor

(* The lists of those who do not change.                                   *)
LEMMA SameShape ==
    ASSUME NEW a \in Actors, actor'[a] = actor[a]
    PROVE  /\ List(a)' = List(a) /\ Shape(a)' = Shape(a)
           /\ \A o : Past(a, o)' <=> Past(a, o)
BY DEF List, Shape, Past

-----------------------------------------------------------------------------
(* j_background_operation_new.                                             *)

LEMMA NewEffect ==
    ASSUME IInv, NEW a \in Actors, New(a)
    PROVE  \E o \in Ops, new \in ActorStates :
              /\ o = Head(actor[a].todo) /\ actor[a].todo # <<>> /\ InSeq(o, actor[a].todo)
              /\ ran[o] = 0 /\ ~PoolHolds(o) /\ ~CreatorHolds(o) /\ pool = "up"
              /\ OnlyActor(a, new) /\ new.op = actor[a].op
              /\ new.todo = Tail(actor[a].todo) /\ new.wait = Append(actor[a].wait, o)
              /\ new.pc = IF new.todo = <<>> THEN "wait" ELSE "new"
              /\ queue' = Append(queue, o) /\ ref' = [ref EXCEPT ![o] = 2]
              /\ completed' = [completed EXCEPT ![o] = FALSE] /\ UNCHANGED <<pool, ran>>
<1>1. TypeOK /\ Shapes /\ Unique /\ NotYet /\ Closed /\ actor[a].pc = "new" /\ Shape(a)
  BY DEF IInv, New, Shapes
<1>2. actor[a].todo # <<>> /\ pool = "up"
  BY <1>1 DEF Shape, Closed, TypeOK
<1>3. actor[a] \in ActorStates /\ actor[a].todo \in Seq(Ops) /\ actor[a].wait \in Seq(Ops)
  BY <1>1, ShapeFacts
<1>4. /\ Head(actor[a].todo) \in Ops /\ Tail(actor[a].todo) \in Seq(Ops)
      /\ InSeq(Head(actor[a].todo), actor[a].todo)
      /\ Len(actor[a].todo) = 1 <=> Tail(actor[a].todo) = <<>>
  BY <1>2, <1>3, HeadTail
<1>5. PICK o \in Ops : o = Head(actor[a].todo)
  BY <1>4
<1>6. ran[o] = 0 /\ ~PoolHolds(o)
  BY <1>1, <1>4, <1>5 DEF NotYet
<1>7. ~CreatorHolds(o)
  <2>1. InSeq(o, List(a)) /\ ~InSeq(o, actor[a].wait)
    BY <1>1, <1>4, <1>5, ShapeFacts
  <2>2. ASSUME NEW b \in Actors, InSeq(o, actor[b].wait) PROVE FALSE
    <3>1. InSeq(o, List(b))
      BY <1>1, <2>2, ShapeFacts
    <3>2. a = b
      BY <1>1, <2>1, <3>1, ListsDisjoint
    <3>3. QED
      BY <2>1, <2>2, <3>2
  <2>3. QED
    BY <2>2 DEF CreatorHolds
<1> DEFINE pc == IF Len(actor[a].todo) = 1 THEN "wait" ELSE "new"
           todo == Tail(actor[a].todo)
           wait == Append(actor[a].wait, o)
           new == [actor[a] EXCEPT !.todo = todo, !.wait = wait, !.pc = pc]
<1>8. wait \in Seq(Ops) /\ todo \in Seq(Ops) /\ pc \in Pcs /\ pc = IF todo = <<>> THEN "wait" ELSE "new"
  BY <1>3, <1>4, Appended DEF Pcs
<1>9. actor' = [actor EXCEPT ![a] = new]
  BY <1>5 DEF New
<1> HIDE DEF pc, todo, wait
<1>10. new \in ActorStates /\ new.op = actor[a].op /\ new.todo = todo /\ new.wait = wait /\ new.pc = pc
  BY <1>3, <1>8 DEF ActorStates
<1>11. OnlyActor(a, new)
  BY <1>1, <1>9, <1>10, WithActor
<1>12. /\ queue' = Append(queue, o) /\ ref' = [ref EXCEPT ![o] = 2]
       /\ completed' = [completed EXCEPT ![o] = FALSE] /\ UNCHANGED <<pool, ran>>
  BY <1>2, <1>5 DEF New
<1> HIDE DEF new
<1>13. new.pc = IF new.todo = <<>> THEN "wait" ELSE "new"
  BY <1>8, <1>10
<1>14. new.todo = Tail(actor[a].todo) /\ new.wait = Append(actor[a].wait, o)
  BY <1>10 DEF todo, wait
<1> new \in ActorStates
  BY <1>10
<1>15. WITNESS o \in Ops, new \in ActorStates
<1>16. QED
  BY <1>2, <1>4, <1>5, <1>6, <1>7, <1>10, <1>11, <1>12, <1>13, <1>14

LEMMA NewStep ==
    ASSUME IInv, NEW a \in Actors, New(a) PROVE IInv'
<1>0. TypeOK /\ Shapes /\ Unique /\ Counted /\ NotYet /\ Ran /\ Completes /\ Closed
  BY DEF IInv
<1>1. PICK o \in Ops, new \in ActorStates :
         /\ o = Head(actor[a].todo) /\ actor[a].todo # <<>> /\ InSeq(o, actor[a].todo)
         /\ ran[o] = 0 /\ ~PoolHolds(o) /\ ~CreatorHolds(o) /\ pool = "up"
         /\ OnlyActor(a, new) /\ new.op = actor[a].op
         /\ new.todo = Tail(actor[a].todo) /\ new.wait = Append(actor[a].wait, o)
         /\ new.pc = IF new.todo = <<>> THEN "wait" ELSE "new"
         /\ queue' = Append(queue, o) /\ ref' = [ref EXCEPT ![o] = 2]
         /\ completed' = [completed EXCEPT ![o] = FALSE] /\ UNCHANGED <<pool, ran>>
  BY NewEffect
<1>2. actor' \in [Actors -> ActorStates] /\ actor'[a] = new /\ \A b \in Actors \ {a} : actor'[b] = actor[b]
  BY <1>1 DEF OnlyActor
<1>3. \A b \in Actors : actor'[b].op = actor[b].op /\ List(b)' = List(b)
  BY <1>1, <1>2 DEF List
<1>4. /\ new.wait # <<>> /\ \A p : InSeq(p, new.wait) <=> InSeq(p, actor[a].wait) \/ p = o
      /\ actor[a].wait # <<>> => Head(new.wait) = Head(actor[a].wait)
  <2>1. actor[a].wait \in Seq(Ops)
    BY <1>0, ShapeFacts
  <2>2. /\ Append(actor[a].wait, o) # <<>>
        /\ \A p : InSeq(p, Append(actor[a].wait, o)) <=> InSeq(p, actor[a].wait) \/ p = o
        /\ actor[a].wait # <<>> => Head(Append(actor[a].wait, o)) = Head(actor[a].wait)
    BY <2>1, Appended
  <2>3. new.wait = Append(actor[a].wait, o)
    BY <1>1
  <2>4. QED
    BY <2>2, <2>3, Zenon
<1>5. \A p : InSeq(p, actor[a].todo) <=> p = o \/ InSeq(p, new.todo)
  BY <1>0, <1>1, ShapeFacts, HeadTail, SMTT(40)
<1>5a. ~InSeq(o, new.todo)
  BY <1>0, <1>1, ShapeFacts, HeadTail
<1>6. queue' \in Seq(Ops) /\ \A p : InSeq(p, queue') <=> InSeq(p, queue) \/ p = o
  BY <1>0, <1>1, Appended DEF TypeOK
<1>7. Injective(queue')
  BY <1>0, <1>1, Appended DEF TypeOK, Unique, PoolHolds
<1>8. \A p : CreatorHolds(p)' <=> CreatorHolds(p) \/ p = o
  BY <1>2, <1>4 DEF CreatorHolds
<1>9. \A p : PoolHolds(p)' <=> PoolHolds(p) \/ p = o
  BY <1>3, <1>6 DEF PoolHolds, Actors
<1>10. TypeOK'
  BY <1>0, <1>1, <1>2, <1>6 DEF TypeOK
<1>11. Split(List(a), new.todo, new.wait) /\ \A p : InPast(p, List(a), new.todo, new.wait) <=> Past(a, p)
  BY <1>0, <1>1, SplitNew, SMTT(40) DEF Shapes, Shape, Past
<1>12. Shapes'
  <2>1. Shape(a)'
    <3>1. Shape(a) /\ actor[a].pc = "new"
      BY <1>0 DEF Shapes, New
    <3>2. Split(List(a), actor[a].todo, actor[a].wait)'
      BY <1>2, <1>3, <1>11
    <3>3. QED
      BY <1>1, <1>2, <1>4, <3>1, <3>2 DEF Shape, Waiting
  <2>2. QED
    BY <1>0, <1>2, <2>1, SameShape DEF Shapes
<1>13. Unique'
  BY <1>0, <1>1, <1>3, <1>6, <1>7 DEF Unique, PoolHolds, Actors
<1>14. Counted'
  BY <1>0, <1>1, <1>8, <1>9 DEF Counted, TypeOK
<1>15. NotYet'
  <2>1. \A p \in Ops : InSeq(p, queue') => ran'[p] = 0
    BY <1>0, <1>1, <1>6 DEF NotYet
  <2>2. ASSUME NEW b \in Actors, NEW p \in Ops, InSeq(p, actor'[b].todo)
        PROVE  ran'[p] = 0 /\ ~PoolHolds(p)'
    <3>1. InSeq(p, actor[b].todo)
      BY <1>2, <1>5, <2>2
    <3>2. p # o
      <4>1. CASE b = a
        BY <1>2, <1>5a, <2>2, <4>1
      <4>2. CASE b # a
        <5>1. InSeq(o, List(a)) /\ InSeq(p, List(b))
          BY <1>0, <1>1, <3>1, ShapeFacts
        <5>2. QED
          BY <1>0, <4>2, <5>1, ListsDisjoint
      <4>3. QED
        BY <4>1, <4>2
    <3>3. QED
      BY <1>0, <1>1, <1>9, <3>1, <3>2 DEF NotYet
  <2>3. ASSUME NEW q \in Ops, NEW p \in Ops, InSeq(p, Parts[q]),
               ran'[p] # 0 \/ CreatorHolds(p)' \/ PoolHolds(p)'
        PROVE  ran'[q] # 0
    <3>1. CASE p # o
      BY <1>0, <1>1, <1>8, <1>9, <2>3, <3>1 DEF NotYet
    <3>2. CASE p = o
      <4>1. InSeq(o, List(a))
        BY <1>0, <1>1, ShapeFacts
      <4>2. a \in Workers /\ actor[a].op = q
        BY <1>0, <2>3, <3>2, <4>1, ListsDisjoint
      <4>3. ran[q] = 1
        BY <1>0, <4>2, BackgroundAssumption DEF Ran, New
      <4>4. QED
        BY <1>1, <4>3
    <3>3. QED
      BY <3>1, <3>2
  <2>4. QED
    BY <2>1, <2>2, <2>3 DEF NotYet
<1>16. Ran'
  <2>0. ran' = ran /\ actor[a].pc = "new" /\ new.pc # "run"
    BY <1>1 DEF New
  <2>1. ASSUME NEW w \in Workers, actor'[w].op # NULL
        PROVE  ran'[actor'[w].op] = IF actor'[w].pc = "run" THEN 0 ELSE 1
    <3>1. w \in Actors
      BY DEF Actors
    <3>2. actor'[w].op = actor[w].op
      BY <1>3, <3>1
    <3>3. actor'[w].pc = "run" <=> actor[w].pc = "run"
      BY <1>2, <2>0, <3>1
    <3>4. ran[actor[w].op] = IF actor[w].pc = "run" THEN 0 ELSE 1
      BY <1>0, <2>1, <3>2 DEF Ran
    <3>5. QED
      BY <2>0, <3>2, <3>3, <3>4
  <2>2. ASSUME NEW b \in Actors, actor'[b].pc # "run", NEW p \in Ops, Past(b, p)' PROVE ran'[p] = 1
    <3>1. CASE b = a
      <4>1. Past(a, p)' <=> InPast(p, List(a), new.todo, new.wait)
        BY <1>2, <1>3, Zenon DEF Past
      <4>2. Past(a, p)
        BY <1>11, <2>2, <3>1, <4>1, Zenon
      <4>3. QED
        BY <1>0, <2>0, <4>2 DEF Ran
    <3>2. CASE b # a
      BY <1>0, <1>1, <1>2, <2>2, <3>2, SameShape DEF Ran
    <3>3. QED
      BY <3>1, <3>2
  <2>3. QED
    BY <2>1, <2>2 DEF Ran
<1>17. Completes'
  <2>1. \A p \in Ops : completed'[p] => completed[p]
    BY <1>0, <1>1 DEF TypeOK
  <2>2. \A p \in Ops : Done(p)' = Done(p)
    BY <1>1 DEF Done
  <2>3. ASSUME NEW b \in Actors, actor'[b].pc = "unref" PROVE completed'[Head(actor'[b].wait)]
    <3>1. b # a /\ actor'[b] = actor[b]
      BY <1>1, <1>2, <2>3
    <3>2. completed[Head(actor[b].wait)]
      BY <1>0, <2>3, <3>1 DEF Completes
    <3>3. actor[b].wait \in Seq(Ops) /\ actor[b].wait # <<>>
      BY <1>0, <2>3, <3>1, ShapeFacts DEF Shapes, Shape, Waiting
    <3>4. InSeq(Head(actor[b].wait), actor[b].wait) /\ Head(actor[b].wait) \in Ops
      BY <3>3, HeadTail
    <3>5. Head(actor[b].wait) # o
      BY <1>1, <3>4 DEF CreatorHolds
    <3>6. QED
      BY <1>0, <1>1, <3>1, <3>2, <3>4, <3>5 DEF TypeOK
  <2>4. ASSUME NEW w \in Workers, actor'[w].op # NULL, actor'[w].pc # "drop"
        PROVE  ~completed'[actor'[w].op]
    <3>1. actor'[w].op = actor[w].op /\ actor[w].op \in Ops
      BY <1>0, <1>3, <2>4 DEF Actors, TypeOK, ActorStates
    <3>2. actor[w].pc # "drop"
      BY <1>2, <2>4 DEF New, Actors
    <3>3. ~completed[actor[w].op]
      BY <1>0, <2>4, <3>1, <3>2 DEF Completes
    <3>4. QED
      BY <2>1, <3>1, <3>3
  <2>5. QED
    BY <1>0, <2>1, <2>2, <2>3, <2>4 DEF Completes
<1>18. Closed'
  BY <1>1 DEF Closed
<1>19. QED
  BY <1>10, <1>12, <1>13, <1>14, <1>15, <1>16, <1>17, <1>18 DEF IInv

-----------------------------------------------------------------------------
(* Waiting and completing: nobody gets or loses an operation.              *)

Moves(b) ==
    /\ actor'[b].op = actor[b].op /\ actor'[b].todo = actor[b].todo /\ actor'[b].wait = actor[b].wait
    /\ \/ actor'[b].pc = actor[b].pc
       \/ actor[b].pc \in Waiting /\ actor'[b].pc \in Waiting
       \/ actor[b].pc = "complete" /\ actor'[b].pc = "drop"

LEMMA QuietStep ==
    ASSUME IInv, actor' \in [Actors -> ActorStates], \A b \in Actors : Moves(b),
           completed' \in [Ops -> BOOLEAN], UNCHANGED <<queue, pool, ref, ran>>
    PROVE  TypeOK' /\ Shapes' /\ Unique' /\ Counted' /\ NotYet' /\ Ran' /\ Closed'
<1>0. TypeOK /\ Shapes /\ Unique /\ Counted /\ NotYet /\ Ran /\ Closed
  BY DEF IInv
<1>1. \A b \in Actors : /\ actor'[b].op = actor[b].op /\ actor'[b].todo = actor[b].todo
                        /\ actor'[b].wait = actor[b].wait /\ List(b)' = List(b)
                        /\ \A p : Past(b, p)' <=> Past(b, p)
  BY DEF Moves, List, Past
<1>2. \A b \in Actors : /\ actor'[b].pc = "new" <=> actor[b].pc = "new"
                        /\ actor'[b].pc \in Waiting <=> actor[b].pc \in Waiting
                        /\ actor'[b].pc = "run" <=> actor[b].pc = "run"
                        /\ actor'[b].pc = "idle" <=> actor[b].pc = "idle"
                        /\ actor'[b].pc = "done" <=> actor[b].pc = "done"
  BY DEF Moves, Waiting
<1>3. (\A p : CreatorHolds(p)' <=> CreatorHolds(p)) /\ (\A p : PoolHolds(p)' <=> PoolHolds(p))
  BY <1>1 DEF CreatorHolds, PoolHolds, Actors
<1>4. TypeOK'
  BY <1>0 DEF TypeOK
<1>5. Shapes'
  <2>1. ASSUME NEW b \in Actors PROVE Shape(b)'
    <3>1. Shape(b)
      BY <1>0 DEF Shapes
    <3>2. Split(List(b), actor[b].todo, actor[b].wait)'
      BY <1>1, <3>1 DEF Shape
    <3>3. QED
      BY <1>1, <1>2, <3>1, <3>2 DEF Shape
  <2>2. QED
    BY <2>1 DEF Shapes
<1>6. Unique'
  BY <1>0, <1>1 DEF Unique, Actors
<1>7. Counted'
  BY <1>0, <1>3 DEF Counted
<1>8. NotYet'
  BY <1>0, <1>1, <1>3 DEF NotYet
<1>9. Ran'
  BY <1>0, <1>1, <1>2 DEF Ran, Actors
<1>10. Closed'
  BY <1>0, <1>1, <1>2 DEF Closed, Actors
<1>11. QED
  BY <1>4, <1>5, <1>6, <1>7, <1>8, <1>9, <1>10

(* j_background_operation_wait.                                            *)
LEMMA WaitStep ==
    ASSUME IInv, NEW a \in Actors, Wait(a) \/ SpuriousWakeup(a) PROVE IInv'
<1>0. TypeOK /\ Completes
  BY DEF IInv
<1>1. PICK pc \in Waiting : /\ actor' = [actor EXCEPT ![a].pc = pc]
                            /\ pc = "unref" => completed[Head(actor[a].wait)]
  BY DEF Wait, SpuriousWakeup, Waiting
<1>2. actor[a].pc \in Waiting /\ UNCHANGED <<queue, pool, ref, completed, ran>>
  BY DEF Wait, SpuriousWakeup, Waiting
<1> DEFINE new == [actor[a] EXCEPT !.pc = pc]
<1>3. actor[a] \in ActorStates /\ pc \in Pcs
  BY <1>0 DEF TypeOK, Waiting, Pcs
<1>4. /\ new \in ActorStates /\ new.op = actor[a].op /\ new.todo = actor[a].todo
      /\ new.wait = actor[a].wait /\ new.pc = pc
  BY <1>3 DEF ActorStates
<1>5. OnlyActor(a, new)
  BY <1>0, <1>1, <1>4, WithActor
<1> HIDE DEF new
<1>6. actor' \in [Actors -> ActorStates] /\ \A b \in Actors : Moves(b)
  BY <1>2, <1>4, <1>5 DEF OnlyActor, Moves
<1>7. TypeOK' /\ Shapes' /\ Unique' /\ Counted' /\ NotYet' /\ Ran' /\ Closed'
  BY <1>0, <1>2, <1>6, QuietStep DEF TypeOK
<1>8. Completes'
  <2>1. ASSUME NEW b \in Actors, actor'[b].pc = "unref" PROVE completed'[Head(actor'[b].wait)]
    <3>1. CASE b = a
      BY <1>1, <1>2, <1>4, <1>5, <2>1, <3>1 DEF OnlyActor
    <3>2. CASE b # a
      BY <1>0, <1>2, <1>5, <2>1, <3>2 DEF OnlyActor, Completes
    <3>3. QED
      BY <3>1, <3>2
  <2>2. ASSUME NEW w \in Workers, actor'[w].op # NULL, actor'[w].pc # "drop" PROVE ~completed'[actor'[w].op]
    <3>1. actor'[w].op = actor[w].op /\ actor[w].pc # "drop"
      BY <1>2, <1>6, <2>2 DEF Moves, Actors, Waiting
    <3>2. QED
      BY <1>0, <1>2, <2>2, <3>1 DEF Completes
  <2>3. \A o \in Ops : completed'[o] => Done(o)'
    BY <1>0, <1>2 DEF Completes, Done
  <2>4. QED
    BY <2>1, <2>2, <2>3 DEF Completes
<1>9. QED
  BY <1>7, <1>8 DEF IInv

(* What a worker has finished.                                             *)
LEMMA FinishedIsDone ==
    ASSUME IInv, NEW w \in Workers, actor[w].pc \in {"complete", "drop"}
    PROVE  actor[w].op \in Ops /\ Done(actor[w].op)
<1>0. TypeOK /\ Shapes /\ Unique /\ Ran /\ w \in Actors /\ w \notin Threads /\ Shape(w)
  BY BackgroundAssumption DEF IInv, Actors, Shapes
<1>1. actor[w].op # NULL /\ actor[w].op \in Ops /\ actor[w].todo = <<>> /\ actor[w].wait = <<>>
  BY <1>0 DEF Shape, Waiting, TypeOK, ActorStates
<1>2. List(w) = Parts[actor[w].op] /\ ran[actor[w].op] = 1
  BY <1>0, <1>1 DEF List, Ran
<1>3. Split(Parts[actor[w].op], <<>>, <<>>)
  BY <1>0, <1>1, <1>2 DEF Shape
<1>4. \A o : InSeq(o, Parts[actor[w].op]) => InPast(o, Parts[actor[w].op], <<>>, <<>>)
  BY <1>3, SplitEnd
<1>5. \A o : InSeq(o, Parts[actor[w].op]) => Past(w, o)
  BY <1>1, <1>2, <1>4, Zenon DEF Past
<1>6. QED
  BY <1>0, <1>1, <1>2, <1>5 DEF Ran, Done

(* The end of j_background_operation_thread.                               *)
LEMMA CompleteStep ==
    ASSUME IInv, NEW w \in Workers, Complete(w) PROVE IInv'
<1>0. TypeOK /\ Shapes /\ Unique /\ Completes /\ w \in Actors /\ actor[w].pc = "complete"
  BY DEF IInv, Actors, Complete
<1>1. PICK o \in Ops : o = actor[w].op /\ Done(o)
  BY <1>0, FinishedIsDone
<1>2. /\ completed' = [completed EXCEPT ![o] = TRUE] /\ UNCHANGED <<queue, pool, ref, ran>>
      /\ actor' = [a \in Actors |->
            IF a = w THEN [actor[w] EXCEPT !.pc = "drop"]
            ELSE IF actor[a].pc = "sleep" /\ Head(actor[a].wait) = o
            THEN [actor[a] EXCEPT !.pc = "wait"] ELSE actor[a]]
  BY <1>1 DEF Complete
<1>3. ASSUME NEW b \in Actors
      PROVE  /\ actor'[b] \in ActorStates /\ Moves(b)
             /\ actor'[b].pc = "unref" => actor[b].pc = "unref" /\ actor'[b].wait = actor[b].wait
             /\ b # w => actor'[b].pc # "drop" \/ actor[b].pc = "drop"
  <2>0. actor[b] \in ActorStates
    BY <1>0 DEF TypeOK
  <2>1. CASE b = w
    <3>1. actor'[b] = [actor[b] EXCEPT !.pc = "drop"]
      BY <1>2, <2>1
    <3>2. QED
      BY <1>0, <2>0, <2>1, <3>1 DEF ActorStates, Pcs, Moves
  <2>2. CASE b # w /\ actor[b].pc = "sleep" /\ Head(actor[b].wait) = o
    <3>1. actor'[b] = [actor[b] EXCEPT !.pc = "wait"]
      BY <1>2, <2>2
    <3>2. QED
      BY <2>0, <2>2, <3>1 DEF ActorStates, Pcs, Moves, Waiting
  <2>3. CASE b # w /\ ~(actor[b].pc = "sleep" /\ Head(actor[b].wait) = o)
    <3>1. actor'[b] = actor[b]
      BY <1>2, <2>3
    <3>2. QED
      BY <2>0, <3>1 DEF Moves
  <2>4. QED
    BY <2>1, <2>2, <2>3
<1>4. actor' \in [Actors -> ActorStates]
  BY <1>2, <1>3
<1>5. completed' \in [Ops -> BOOLEAN] /\ completed'[o] /\ \A p \in Ops \ {o} : completed'[p] = completed[p]
  BY <1>0, <1>2 DEF TypeOK
<1>6. TypeOK' /\ Shapes' /\ Unique' /\ Counted' /\ NotYet' /\ Ran' /\ Closed'
  BY <1>2, <1>3, <1>4, <1>5, QuietStep
<1>7. Completes'
  <2>1. ASSUME NEW b \in Actors, actor'[b].pc = "unref" PROVE completed'[Head(actor'[b].wait)]
    <3>1. actor[b].pc = "unref" /\ actor'[b].wait = actor[b].wait
      BY <1>3, <2>1
    <3>2. Head(actor[b].wait) \in Ops
      <4>1. actor[b].wait \in Seq(Ops) /\ actor[b].wait # <<>>
        BY <1>0, <3>1, ShapeFacts DEF Shapes, Shape, Waiting
      <4>2. QED
        BY <4>1, HeadTail
    <3>3. completed[Head(actor[b].wait)]
      BY <1>0, <3>1 DEF Completes
    <3>4. QED
      BY <1>5, <3>1, <3>2, <3>3
  <2>2. ASSUME NEW v \in Workers, actor'[v].op # NULL, actor'[v].pc # "drop" PROVE ~completed'[actor'[v].op]
    <3>1. v # w
      BY <1>0, <1>2, <2>2 DEF TypeOK, ActorStates
    <3>2. actor'[v].op = actor[v].op /\ actor[v].pc # "drop" /\ actor[v].op \in Ops
      BY <1>0, <1>3, <2>2 DEF Moves, Actors, Waiting, TypeOK, ActorStates
    <3>3. actor[v].op # o
      BY <1>0, <1>1, <2>2, <3>1, <3>2 DEF Unique
    <3>4. QED
      BY <1>0, <1>5, <2>2, <3>2, <3>3 DEF Completes
  <2>3. \A p \in Ops : completed'[p] => Done(p)'
    BY <1>0, <1>1, <1>2, <1>5 DEF Completes, Done
  <2>4. QED
    BY <2>1, <2>2, <2>3 DEF Completes
<1>8. QED
  BY <1>6, <1>7 DEF IInv

-----------------------------------------------------------------------------
(* j_background_operation_unref by the creator.                            *)

LEMMA UnrefEffect ==
    ASSUME IInv, NEW a \in Actors, Unref(a)
    PROVE  \E o \in Ops, new \in ActorStates :
              /\ o = Head(actor[a].wait) /\ actor[a].wait # <<>> /\ actor[a].todo = <<>>
              /\ InSeq(o, actor[a].wait) /\ completed[o]
              /\ OnlyActor(a, new) /\ new.op = actor[a].op /\ new.todo = actor[a].todo
              /\ new.wait = Tail(actor[a].wait)
              /\ new.pc = IF new.wait # <<>> THEN "wait" ELSE IF a \in Workers THEN "complete" ELSE "done"
              /\ ref' = [ref EXCEPT ![o] = @ - 1] /\ UNCHANGED <<queue, pool, completed, ran>>
<1>1. TypeOK /\ Shapes /\ Completes /\ actor[a].pc = "unref" /\ Shape(a)
  BY DEF IInv, Unref, Shapes
<1>2. actor[a].wait # <<>> /\ actor[a].todo = <<>>
  BY <1>1 DEF Shape, Waiting
<1>3. actor[a] \in ActorStates /\ actor[a].todo \in Seq(Ops) /\ actor[a].wait \in Seq(Ops)
  BY <1>1, ShapeFacts
<1>4. /\ Head(actor[a].wait) \in Ops /\ Tail(actor[a].wait) \in Seq(Ops)
      /\ InSeq(Head(actor[a].wait), actor[a].wait)
      /\ Len(actor[a].wait) > 1 <=> Tail(actor[a].wait) # <<>>
  BY <1>2, <1>3, HeadTail
<1>5. PICK o \in Ops : o = Head(actor[a].wait)
  BY <1>4
<1>6. completed[o] /\ InSeq(o, actor[a].wait)
  BY <1>1, <1>4, <1>5 DEF Completes
<1> DEFINE pc == IF Len(actor[a].wait) > 1 THEN "wait" ELSE IF a \in Workers THEN "complete" ELSE "done"
           wait == Tail(actor[a].wait)
           new == [actor[a] EXCEPT !.wait = wait, !.pc = pc]
<1>8. /\ wait \in Seq(Ops) /\ pc \in Pcs
      /\ pc = IF wait # <<>> THEN "wait" ELSE IF a \in Workers THEN "complete" ELSE "done"
  BY <1>4 DEF Pcs
<1>9. actor' = [actor EXCEPT ![a] = new]
  BY DEF Unref
<1> HIDE DEF pc, wait
<1>10. new \in ActorStates /\ new.op = actor[a].op /\ new.todo = actor[a].todo /\ new.wait = wait /\ new.pc = pc
  BY <1>3, <1>8 DEF ActorStates
<1>11. OnlyActor(a, new)
  BY <1>1, <1>9, <1>10, WithActor
<1>12. ref' = [ref EXCEPT ![o] = @ - 1] /\ UNCHANGED <<queue, pool, completed, ran>>
  BY <1>5 DEF Unref
<1> HIDE DEF new
<1>13. new.pc = IF new.wait # <<>> THEN "wait" ELSE IF a \in Workers THEN "complete" ELSE "done"
  BY <1>8, <1>10
<1>14. new.wait = Tail(actor[a].wait)
  BY <1>10 DEF wait
<1> new \in ActorStates
  BY <1>10
<1>15. WITNESS o \in Ops, new \in ActorStates
<1>16. QED
  BY <1>2, <1>5, <1>6, <1>10, <1>11, <1>12, <1>13, <1>14

LEMMA UnrefStep ==
    ASSUME IInv, NEW a \in Actors, Unref(a) PROVE IInv'
<1>0. TypeOK /\ Shapes /\ Unique /\ Counted /\ NotYet /\ Ran /\ Completes /\ Closed
  BY DEF IInv
<1>1. PICK o \in Ops, new \in ActorStates :
         /\ o = Head(actor[a].wait) /\ actor[a].wait # <<>> /\ actor[a].todo = <<>>
         /\ InSeq(o, actor[a].wait) /\ completed[o]
         /\ OnlyActor(a, new) /\ new.op = actor[a].op /\ new.todo = actor[a].todo
         /\ new.wait = Tail(actor[a].wait)
         /\ new.pc = IF new.wait # <<>> THEN "wait" ELSE IF a \in Workers THEN "complete" ELSE "done"
         /\ ref' = [ref EXCEPT ![o] = @ - 1] /\ UNCHANGED <<queue, pool, completed, ran>>
  BY UnrefEffect
<1>2. actor' \in [Actors -> ActorStates] /\ actor'[a] = new /\ \A b \in Actors \ {a} : actor'[b] = actor[b]
  BY <1>1 DEF OnlyActor
<1>3. \A b \in Actors : /\ actor'[b].op = actor[b].op /\ List(b)' = List(b)
                        /\ actor'[b].todo = actor[b].todo
  BY <1>1, <1>2 DEF List
<1>4. (\A p : InSeq(p, actor[a].wait) <=> p = o \/ InSeq(p, new.wait)) /\ ~InSeq(o, new.wait)
  <2>1. actor[a].wait \in Seq(Ops) /\ Injective(actor[a].wait)
    BY <1>0, ShapeFacts
  <2>2. QED
    BY <1>1, <2>1, HeadTail, SMTT(40)
<1>5. CreatorHolds(o) /\ ~CreatorHolds(o)'
  <2>1. CreatorHolds(o)
    BY <1>1 DEF CreatorHolds
  <2>2. InSeq(o, List(a))
    BY <1>0, <1>1, ShapeFacts
  <2>3. ASSUME NEW b \in Actors \ {a}, InSeq(o, actor[b].wait) PROVE FALSE
    <3>1. InSeq(o, List(b))
      BY <1>0, <2>3, ShapeFacts
    <3>2. QED
      BY <1>0, <2>2, <2>3, <3>1, ListsDisjoint
  <2>4. QED
    BY <1>2, <1>4, <2>1, <2>3 DEF CreatorHolds
<1>6. \A p : p # o => (CreatorHolds(p)' <=> CreatorHolds(p))
  BY <1>2, <1>4 DEF CreatorHolds
<1>7. \A p : PoolHolds(p)' <=> PoolHolds(p)
  BY <1>1, <1>3 DEF PoolHolds, Actors
<1>8. ref[o] \in Nat \ {0}
  BY <1>0, <1>5 DEF Counted, TypeOK
<1>9. ref' \in [Ops -> Nat] /\ ref'[o] = ref[o] - 1 /\ \A p \in Ops \ {o} : ref'[p] = ref[p]
  BY <1>0, <1>1, <1>8, SMTT(40) DEF TypeOK
<1>10. TypeOK'
  BY <1>0, <1>1, <1>2, <1>9 DEF TypeOK
<1>11. /\ Split(List(a), new.todo, new.wait)
       /\ \A p : InPast(p, List(a), new.todo, new.wait) <=> Past(a, p) \/ p = o
  BY <1>0, <1>1, SplitUnref, ZenonT(40) DEF Shapes, Shape, Past
<1>12. actor[a].pc = "unref" /\ actor'[a].pc \in {"wait", "complete", "done"}
  BY <1>1, <1>2 DEF Unref
<1>13. Shapes'
  <2>1. Shape(a)'
    <3>1. Shape(a) /\ (a \in Workers => a \notin Threads)
      BY <1>0, BackgroundAssumption DEF Shapes
    <3>2. Split(List(a), actor[a].todo, actor[a].wait)'
      BY <1>2, <1>3, <1>11
    <3>3. /\ actor'[a].pc \in Waiting <=> actor'[a].wait # <<>>
          /\ actor'[a].pc # "new" /\ actor'[a].todo = <<>> /\ actor'[a].pc # "idle"
      BY <1>1, <1>2 DEF Waiting
    <3>4. actor'[a].op = actor[a].op
      BY <1>3
    <3>5. a \in Threads => actor'[a].op = NULL /\ actor'[a].pc \in Waiting \cup {"new", "done"}
      BY <1>1, <1>2, <3>1, <3>4 DEF Shape, Waiting
    <3>6. a \in Workers => /\ actor'[a].pc # "done" /\ actor'[a].op # NULL
                           /\ actor'[a].pc \in Waiting \cup {"new"} => Len(Parts[actor'[a].op]) > 1
      BY <1>1, <1>2, <1>12, <3>1, <3>4 DEF Shape, Waiting
    <3>7. QED
      BY <3>2, <3>3, <3>5, <3>6 DEF Shape
  <2>2. QED
    BY <1>0, <1>2, <2>1, SameShape DEF Shapes
<1>14. Unique'
  BY <1>0, <1>1, <1>3, ZenonT(40) DEF Unique, Actors
<1>15. Counted'
  <2>1. ref'[o] = (IF CreatorHolds(o)' THEN 1 ELSE 0) + (IF PoolHolds(o)' THEN 1 ELSE 0)
    BY <1>0, <1>5, <1>7, <1>9 DEF Counted
  <2>2. QED
    BY <1>0, <1>6, <1>7, <1>9, <2>1 DEF Counted
<1>16. NotYet'
  BY <1>0, <1>1, <1>3, <1>5, <1>6, <1>7 DEF NotYet
<1>17. Ran'
  <2>1. ASSUME NEW w \in Workers, actor'[w].op # NULL
        PROVE  ran'[actor'[w].op] = IF actor'[w].pc = "run" THEN 0 ELSE 1
    BY <1>0, <1>1, <1>2, <1>3, <1>12, <2>1 DEF Ran, Actors
  <2>2. ASSUME NEW b \in Actors, actor'[b].pc # "run", NEW p \in Ops, Past(b, p)' PROVE ran'[p] = 1
    <3>1. CASE b = a
      <4>1. Past(a, p) \/ p = o
        BY <1>2, <1>3, <1>11, <2>2, <3>1 DEF Past
      <4>2. ran[o] = 1
        BY <1>0, <1>1 DEF Completes, Done
      <4>3. QED
        BY <1>0, <1>1, <1>12, <4>1, <4>2 DEF Ran
    <3>2. CASE b # a
      BY <1>0, <1>1, <1>2, <2>2, <3>2, SameShape DEF Ran
    <3>3. QED
      BY <3>1, <3>2
  <2>3. QED
    BY <2>1, <2>2 DEF Ran
<1>18. Completes'
  <2>1. \A p \in Ops : Done(p)' = Done(p)
    BY <1>1 DEF Done
  <2>2. ASSUME NEW b \in Actors, actor'[b].pc = "unref" PROVE completed'[Head(actor'[b].wait)]
    BY <1>0, <1>1, <1>2, <1>12, <2>2 DEF Completes
  <2>3. ASSUME NEW w \in Workers, actor'[w].op # NULL, actor'[w].pc # "drop" PROVE ~completed'[actor'[w].op]
    BY <1>0, <1>1, <1>2, <1>3, <1>12, <2>3 DEF Completes, Actors
  <2>4. QED
    BY <1>0, <1>1, <2>1, <2>2, <2>3 DEF Completes
<1>19. Closed'
  <2>1. \A b \in Actors : (actor'[b].pc = "new" => actor[b].pc = "new") /\ (actor'[b].pc = "run" => actor[b].pc = "run")
    BY <1>2, <1>12
  <2>2. QED
    BY <1>0, <1>1, <1>3, <2>1 DEF Closed, Actors
<1>20. QED
  BY <1>10, <1>13, <1>14, <1>15, <1>16, <1>17, <1>18, <1>19 DEF IInv

-----------------------------------------------------------------------------
(* The threads of the pool.                                                *)

LEMMA SplitNone ==
    ASSUME NEW list \in Seq(Ops) PROVE Split(list, <<>>, <<>>)
<1>1. Len(list) \in Nat /\ << >> \in Seq(Ops) /\ Len(<< >>) = 0 /\ DOMAIN << >> = {}
  BY EmptySeq, LenProperties
<1>2. Over(list, <<>>, <<>>) \in Nat
  BY <1>1 DEF Over
<1>3. \A i \in DOMAIN << >> : FALSE
  BY <1>1
<1>4. QED
  BY <1>1, <1>2, <1>3, Zenon DEF Split

LEMMA TakeStep ==
    ASSUME IInv, NEW w \in Workers, Take(w) PROVE IInv'
<1>0. /\ TypeOK /\ Shapes /\ Unique /\ Counted /\ NotYet /\ Ran /\ Completes /\ Closed
      /\ w \in Actors /\ w \notin Threads /\ actor[w].pc = "idle" /\ queue \in Seq(Ops) /\ queue # <<>>
  BY BackgroundAssumption DEF IInv, Actors, Take, TypeOK
<1>1. /\ Head(queue) \in Ops /\ Tail(queue) \in Seq(Ops) /\ InSeq(Head(queue), queue)
      /\ \A o : InSeq(o, queue) <=> o = Head(queue) \/ InSeq(o, Tail(queue))
      /\ Injective(Tail(queue)) /\ ~InSeq(Head(queue), Tail(queue))
  BY <1>0, HeadTail DEF Unique
<1>2. PICK o \in Ops : o = Head(queue)
  BY <1>1
<1>3. /\ actor[w] \in ActorStates /\ actor[w].op = NULL /\ actor[w].todo = <<>> /\ actor[w].wait = <<>>
  BY <1>0 DEF TypeOK, Shapes, Shape, Waiting
<1> DEFINE new == [actor[w] EXCEPT !.pc = "run", !.op = o]
<1>4. /\ new \in ActorStates /\ new.pc = "run" /\ new.op = o
      /\ new.todo = actor[w].todo /\ new.wait = actor[w].wait
  BY <1>3 DEF ActorStates, Pcs
<1>5. actor' = [actor EXCEPT ![w] = new] /\ queue' = Tail(queue) /\ UNCHANGED <<pool, ref, completed, ran>>
  BY <1>2 DEF Take
<1> HIDE DEF new
<1>6. actor' \in [Actors -> ActorStates] /\ actor'[w] = new /\ \A b \in Actors \ {w} : actor'[b] = actor[b]
  BY <1>0, <1>4, <1>5, WithActor DEF OnlyActor
<1>7. /\ \A b \in Actors : actor'[b].todo = actor[b].todo /\ actor'[b].wait = actor[b].wait
      /\ \A b \in Actors \ {w} : List(b)' = List(b)
  BY <1>4, <1>6 DEF List
<1>8. (\A p : CreatorHolds(p)' <=> CreatorHolds(p)) /\ (\A p \in Ops : PoolHolds(p)' <=> PoolHolds(p))
  <2>1. \A p : CreatorHolds(p)' <=> CreatorHolds(p)
    BY <1>7 DEF CreatorHolds
  <2>2. ASSUME NEW p \in Ops
        PROVE  (\E v \in Workers : actor'[v].op = p) <=> p = o \/ \E v \in Workers : actor[v].op = p
    <3>1. p # NULL
      BY BackgroundAssumption
    <3>2. QED
      BY <1>3, <1>4, <1>6, <3>1 DEF Actors
  <2>3. QED
    BY <1>1, <1>2, <1>5, <2>1, <2>2 DEF PoolHolds
<1>9. TypeOK'
  BY <1>0, <1>1, <1>5, <1>6 DEF TypeOK
<1>10. Shapes'
  <2>1. List(w)' = Parts[o] /\ o # NULL
    BY <1>0, <1>4, <1>6, BackgroundAssumption DEF List
  <2>2. Split(Parts[o], <<>>, <<>>)
    BY PartsType, SplitNone
  <2>3. Split(List(w), actor[w].todo, actor[w].wait)'
    BY <1>0, <1>3, <1>7, <2>1, <2>2, Zenon
  <2>4. Shape(w)'
    BY <1>0, <1>3, <1>4, <1>6, <2>1, <2>3 DEF Shape, Waiting
  <2>5. QED
    BY <1>0, <1>6, <2>4, SameShape DEF Shapes
<1>11. Unique'
  <2>1. ASSUME NEW v \in Workers \ {w}, actor[v].op # NULL
        PROVE  actor[v].op # o /\ ~InSeq(actor[v].op, queue')
    BY <1>0, <1>1, <1>2, <1>5, <2>1 DEF Unique
  <2>2. QED
    BY <1>0, <1>1, <1>2, <1>4, <1>5, <1>6, <2>1 DEF Unique, Actors
<1>12. Counted' /\ NotYet'
  BY <1>0, <1>1, <1>5, <1>7, <1>8 DEF Counted, NotYet
<1>13. Ran'
  <2>1. ran[o] = 0
    BY <1>0, <1>1, <1>2 DEF NotYet
  <2>2. \A v \in Workers \ {w} : actor'[v] = actor[v]
    BY <1>6 DEF Actors
  <2>3. \A v \in Workers : actor'[v].op # NULL => ran'[actor'[v].op] = IF actor'[v].pc = "run" THEN 0 ELSE 1
    BY <1>0, <1>4, <1>5, <1>6, <2>1, <2>2 DEF Ran
  <2>4. \A b \in Actors : actor'[b].pc # "run" => \A p \in Ops : Past(b, p)' => ran'[p] = 1
    BY <1>0, <1>4, <1>5, <1>6, SameShape DEF Ran
  <2>5. QED
    BY <2>3, <2>4 DEF Ran
<1>14. Completes'
  <2>1. ~completed[o]
    BY <1>0, <1>1, <1>2 DEF NotYet, Completes, Done
  <2>2. \A p \in Ops : Done(p)' = Done(p)
    BY <1>5 DEF Done
  <2>3. \A v \in Workers \ {w} : actor'[v] = actor[v]
    BY <1>6 DEF Actors
  <2>4. QED
    BY <1>0, <1>4, <1>5, <1>6, <2>1, <2>2, <2>3 DEF Completes
<1>15. Closed'
  <2>1. \A v \in Workers \ {w} : actor'[v] = actor[v]
    BY <1>6 DEF Actors
  <2>2. SUFFICES ASSUME pool # "up"
        PROVE  /\ \A a \in Actors : actor'[a].pc # "new"
               /\ \A p \in Ops : InSeq(p, queue') \/ (\E v \in Workers : actor'[v].op = p /\ actor'[v].pc = "run")
                     => Len(Parts[p]) <= 1
    BY <1>5 DEF Closed
  <2>3. \A a \in Actors : actor'[a].pc # "new"
    BY <1>0, <1>4, <1>6, <2>2 DEF Closed
  <2>4. ASSUME NEW p \in Ops, NEW v \in Workers, actor'[v].op = p, actor'[v].pc = "run"
        PROVE  p = o \/ (actor[v].op = p /\ actor[v].pc = "run")
    BY <1>4, <1>6, <2>1, <2>4
  <2>5. Len(Parts[o]) <= 1
    BY <1>0, <1>1, <1>2, <2>2 DEF Closed
  <2>6. \A p \in Ops : InSeq(p, queue') => InSeq(p, queue)
    BY <1>1, <1>5
  <2>7. QED
    BY <1>0, <2>2, <2>3, <2>4, <2>5, <2>6 DEF Closed
<1>16. QED
  BY <1>9, <1>10, <1>11, <1>12, <1>13, <1>14, <1>15 DEF IInv

LEMMA DropStep ==
    ASSUME IInv, NEW w \in Workers, Drop(w) PROVE IInv'
<1>0. /\ TypeOK /\ Shapes /\ Unique /\ Counted /\ NotYet /\ Ran /\ Completes /\ Closed
      /\ w \in Actors /\ w \notin Threads /\ actor[w].pc = "drop"
  BY BackgroundAssumption DEF IInv, Actors, Drop
<1>1. PICK o \in Ops : o = actor[w].op
  BY <1>0, FinishedIsDone
<1>2. actor[w] \in ActorStates /\ actor[w].todo = <<>> /\ actor[w].wait = <<>> /\ o # NULL
  BY <1>0, BackgroundAssumption DEF TypeOK, Shapes, Shape, Waiting
<1> DEFINE new == [actor[w] EXCEPT !.pc = "idle", !.op = NULL]
<1>3. /\ new \in ActorStates /\ new.pc = "idle" /\ new.op = NULL
      /\ new.todo = actor[w].todo /\ new.wait = actor[w].wait
  BY <1>2 DEF ActorStates, Pcs
<1>4. actor' = [actor EXCEPT ![w] = new] /\ ref' = [ref EXCEPT ![o] = @ - 1] /\ UNCHANGED <<queue, pool, completed, ran>>
  BY <1>1 DEF Drop
<1> HIDE DEF new
<1>5. actor' \in [Actors -> ActorStates] /\ actor'[w] = new /\ \A b \in Actors \ {w} : actor'[b] = actor[b]
  BY <1>0, <1>3, <1>4, WithActor DEF OnlyActor
<1>6. \A b \in Actors : actor'[b].todo = actor[b].todo /\ actor'[b].wait = actor[b].wait
  BY <1>3, <1>5
<1>7. \A v \in Workers \ {w} : actor'[v] = actor[v]
  BY <1>5 DEF Actors
<1>8. \A p : CreatorHolds(p)' <=> CreatorHolds(p)
  BY <1>6 DEF CreatorHolds
<1>9. PoolHolds(o) /\ ~PoolHolds(o)' /\ \A p \in Ops \ {o} : PoolHolds(p)' <=> PoolHolds(p)
  <2>1. PoolHolds(o)
    BY <1>1 DEF PoolHolds
  <2>2. ~InSeq(o, queue) /\ \A v \in Workers \ {w} : actor[v].op # o
    BY <1>0, <1>1, <1>2 DEF Unique
  <2>3. ~PoolHolds(o)'
    BY <1>2, <1>3, <1>4, <1>5, <1>7, <2>2 DEF PoolHolds
  <2>4. ASSUME NEW p \in Ops \ {o} PROVE PoolHolds(p)' <=> PoolHolds(p)
    <3>1. p # NULL /\ actor[w].op # p /\ actor'[w].op # p
      BY <1>1, <1>3, <1>5, BackgroundAssumption
    <3>2. QED
      BY <1>4, <1>7, <3>1 DEF PoolHolds
  <2>5. QED
    BY <2>1, <2>3, <2>4
<1>10. ref[o] \in Nat \ {0}
  BY <1>0, <1>9, SMTT(40) DEF Counted, TypeOK
<1>11. ref' \in [Ops -> Nat] /\ ref'[o] = ref[o] - 1 /\ \A p \in Ops \ {o} : ref'[p] = ref[p]
  BY <1>0, <1>4, <1>10 DEF TypeOK
<1>12. TypeOK'
  BY <1>0, <1>4, <1>5, <1>11 DEF TypeOK
<1>13. List(w)' = <<>> /\ << >> \in Seq(Ops)
  BY <1>0, <1>3, <1>5, EmptySeq DEF List
<1>14. Shapes'
  <2>1. Split(<<>>, <<>>, <<>>)
    BY <1>13, SplitNone
  <2>2. Split(List(w), actor[w].todo, actor[w].wait)'
    BY <1>0, <1>2, <1>6, <1>13, <2>1, Zenon
  <2>3. Shape(w)'
    BY <1>0, <1>2, <1>3, <1>5, <2>2 DEF Shape, Waiting
  <2>4. QED
    BY <1>0, <1>5, <2>3, SameShape DEF Shapes
<1>15. Unique'
  BY <1>0, <1>3, <1>4, <1>5, <1>7 DEF Unique
<1>16. Counted'
  <2>1. ref'[o] = (IF CreatorHolds(o)' THEN 1 ELSE 0) + (IF PoolHolds(o)' THEN 1 ELSE 0)
    BY <1>0, <1>8, <1>9, <1>11 DEF Counted
  <2>2. QED
    BY <1>0, <1>8, <1>9, <1>11, <2>1 DEF Counted
<1>17. NotYet'
  <2>1. \A p \in Ops : PoolHolds(p)' => PoolHolds(p)
    BY <1>9
  <2>2. QED
    BY <1>0, <1>4, <1>6, <1>8, <2>1 DEF NotYet
<1>18. Ran'
  <2>1. \A p : ~Past(w, p)'
    <3>1. \A p : ~InPast(p, <<>>, <<>>, <<>>)
      BY <1>13, SplitStart
    <3>2. QED
      BY <1>0, <1>2, <1>6, <1>13, <3>1, Zenon DEF Past
  <2>2. \A v \in Workers : actor'[v].op # NULL => ran'[actor'[v].op] = IF actor'[v].pc = "run" THEN 0 ELSE 1
    BY <1>0, <1>3, <1>4, <1>5, <1>7 DEF Ran
  <2>3. \A b \in Actors : actor'[b].pc # "run" => \A p \in Ops : Past(b, p)' => ran'[p] = 1
    BY <1>0, <1>4, <1>5, <2>1, SameShape DEF Ran
  <2>4. QED
    BY <2>2, <2>3 DEF Ran
<1>19. Completes'
  <2>1. \A p \in Ops : Done(p)' = Done(p)
    BY <1>4 DEF Done
  <2>2. QED
    BY <1>0, <1>3, <1>4, <1>5, <1>7, <2>1 DEF Completes
<1>20. Closed'
  <2>1. \A b \in Actors : (actor'[b].pc = "new" => actor[b].pc = "new")
    BY <1>3, <1>5
  <2>2. \A v \in Workers : actor'[v].pc = "run" => actor[v] = actor'[v]
    BY <1>3, <1>5, <1>7
  <2>3. QED
    BY <1>0, <1>4, <2>1, <2>2 DEF Closed
<1>21. QED
  BY <1>12, <1>14, <1>15, <1>16, <1>17, <1>18, <1>19, <1>20 DEF IInv

(* The function runs, and what it passes to j_helper_execute_parallel is   *)
(* fresh.                                                                  *)
LEMMA RunFresh ==
    ASSUME IInv, NEW w \in Workers, Run(w)
    PROVE  /\ actor[w].op \in Ops /\ actor[w].op # NULL /\ ran[actor[w].op] = 0
           /\ \A p \in Ops : InSeq(p, Parts[actor[w].op]) =>
                 p # actor[w].op /\ ran[p] = 0 /\ ~CreatorHolds(p) /\ ~PoolHolds(p)
<1>1. TypeOK /\ Shapes /\ NotYet /\ Ran /\ w \in Actors /\ actor[w].pc = "run" /\ Shape(w)
  BY DEF IInv, Actors, Run, Shapes
<1>2. actor[w].op \in Ops /\ actor[w].op # NULL /\ ran[actor[w].op] = 0
  BY <1>1 DEF Shape, Ran, TypeOK, ActorStates
<1>3. PoolHolds(actor[w].op)
  BY DEF PoolHolds
<1>4. QED
  BY <1>1, <1>2, <1>3 DEF NotYet

(* What the function did, as far as ran goes.                              *)
LEMMA RunCounts ==
    ASSUME IInv, NEW w \in Workers, Run(w)
    PROVE  /\ ran' \in [Ops -> Nat] /\ ran'[actor[w].op] = 1
           /\ \A p \in Ops : p # actor[w].op /\ ~InSeq(p, Parts[actor[w].op]) => ran'[p] = ran[p]
           /\ \A p \in Ops : InSeq(p, Parts[actor[w].op]) =>
                 ran'[p] = IF Len(Parts[actor[w].op]) > 1 THEN 0 ELSE 1
           /\ \A p \in Ops : ran[p] = 1 => ran'[p] = 1
           /\ \A p \in Ops : ran[p] # 0 => ran'[p] # 0
<1>0. ran \in [Ops -> Nat]
  BY DEF IInv, TypeOK
<1>1. PICK o \in Ops : o = actor[w].op
  BY RunFresh
<1>2. ran[o] = 0 /\ \A p \in Ops : InSeq(p, Parts[o]) => p # o /\ ran[p] = 0
  BY <1>1, RunFresh
<1>3. ran' = [p \in Ops |-> IF p = o \/ Parts[o] = <<p>> THEN ran[p] + 1 ELSE ran[p]]
  BY <1>1 DEF Run
<1>4. ASSUME NEW p \in Ops
      PROVE  /\ Parts[o] = <<p>> => InSeq(p, Parts[o]) /\ ~(Len(Parts[o]) > 1)
             /\ InSeq(p, Parts[o]) /\ ~(Len(Parts[o]) > 1) => Parts[o] = <<p>>
  <2>1. Parts[o] \in Seq(Ops) /\ DOMAIN Parts[o] = 1 .. Len(Parts[o]) /\ Len(Parts[o]) \in Nat
    BY PartsType, LenProperties
  <2>2. ASSUME Parts[o] = <<p>> PROVE InSeq(p, Parts[o]) /\ ~(Len(Parts[o]) > 1)
    <3>1. Len(<<p>>) = 1 /\ <<p>>[1] = p /\ 1 \in DOMAIN <<p>>
      OBVIOUS
    <3>2. InSeq(p, <<p>>)
      BY <3>1, Zenon DEF InSeq
    <3>3. ~(1 > 1)
      OBVIOUS
    <3>4. QED
      BY <2>2, <3>1, <3>2, <3>3, Zenon
  <2>3. ASSUME InSeq(p, Parts[o]), ~(Len(Parts[o]) > 1) PROVE Parts[o] = <<p>>
    <3>1. PICK i \in 1 .. Len(Parts[o]) : Parts[o][i] = p
      BY <2>1, <2>3 DEF InSeq
    <3>2. Len(Parts[o]) = 1 /\ i = 1
      <4>1. PICK n \in Nat : n = Len(Parts[o])
        BY <2>1
      <4>2. i \in 1 .. n /\ ~(n > 1)
        BY <2>3, <4>1
      <4>3. n = 1 /\ i = 1
        BY <4>2
      <4>4. QED
        BY <4>1, <4>3
    <3>3. <<p>> \in Seq(Ops) /\ Len(<<p>>) = 1 /\ <<p>>[1] = p
      OBVIOUS
    <3>4. \A j \in 1 .. Len(Parts[o]) : Parts[o][j] = <<p>>[j]
      BY <3>1, <3>2, <3>3
    <3>5. QED
      BY <2>1, <3>2, <3>3, <3>4, SeqEqual
  <2>4. QED
    BY <2>2, <2>3
<1>5. ASSUME NEW p \in Ops PROVE ran'[p] = IF p = o \/ Parts[o] = <<p>> THEN ran[p] + 1 ELSE ran[p]
  BY <1>3
<1>6. ran' \in [Ops -> Nat]
  BY <1>0, <1>3
<1>7. \A p \in Ops : ran[p] \in Nat
  BY <1>0
<1>8. ran'[o] = 1
  BY <1>2, <1>5
<1>9. \A p \in Ops : p # o /\ ~InSeq(p, Parts[o]) => ran'[p] = ran[p]
  BY <1>4, <1>5
<1>10. \A p \in Ops : InSeq(p, Parts[o]) => ran'[p] = IF Len(Parts[o]) > 1 THEN 0 ELSE 1
  <2>1. ASSUME NEW p \in Ops, InSeq(p, Parts[o]), Len(Parts[o]) > 1 PROVE ran'[p] = 0
    BY <1>2, <1>4, <1>5, <2>1
  <2>2. ASSUME NEW p \in Ops, InSeq(p, Parts[o]), ~(Len(Parts[o]) > 1) PROVE ran'[p] = 1
    BY <1>2, <1>4, <1>5, <2>2
  <2>3. QED
    BY <2>1, <2>2
<1>11. \A p \in Ops : (ran[p] = 1 => ran'[p] = 1) /\ (ran[p] # 0 => ran'[p] # 0)
  BY <1>2, <1>9
<1>12. QED
  BY <1>1, <1>6, <1>8, <1>9, <1>10, <1>11

LEMMA RunStep ==
    ASSUME IInv, NEW w \in Workers, Run(w) PROVE IInv'
<1>0. /\ TypeOK /\ Shapes /\ Unique /\ Counted /\ NotYet /\ Ran /\ Completes /\ Closed
      /\ w \in Actors /\ w \notin Threads /\ actor[w].pc = "run"
  BY BackgroundAssumption DEF IInv, Actors, Run
<1>1. PICK o \in Ops : o = actor[w].op
  BY RunFresh
<1>2. /\ o # NULL /\ ran[o] = 0
      /\ \A p \in Ops : InSeq(p, Parts[o]) => p # o /\ ran[p] = 0 /\ ~CreatorHolds(p) /\ ~PoolHolds(p)
  BY <1>1, RunFresh
<1>3. /\ ran' \in [Ops -> Nat] /\ ran'[o] = 1
      /\ \A p \in Ops : p # o /\ ~InSeq(p, Parts[o]) => ran'[p] = ran[p]
      /\ \A p \in Ops : InSeq(p, Parts[o]) => ran'[p] = IF Len(Parts[o]) > 1 THEN 0 ELSE 1
      /\ \A p \in Ops : ran[p] = 1 => ran'[p] = 1
      /\ \A p \in Ops : ran[p] # 0 => ran'[p] # 0
  BY <1>1, RunCounts
<1>4. /\ actor[w] \in ActorStates /\ actor[w].todo = <<>> /\ actor[w].wait = <<>>
      /\ Parts[o] \in Seq(Ops) /\ UNCHANGED <<queue, pool, ref, completed>>
  BY <1>0, PartsType DEF TypeOK, Shapes, Shape, Waiting, Run
<1>5. PICK new \in ActorStates :
         /\ actor' = [actor EXCEPT ![w] = new] /\ new.op = o /\ new.wait = <<>>
         /\ IF Len(Parts[o]) > 1 THEN new.pc = "new" /\ new.todo = Parts[o]
            ELSE new.pc = "complete" /\ new.todo = <<>>
  <2>1. CASE Len(Parts[o]) > 1
    <3> DEFINE new == [actor[w] EXCEPT !.pc = "new", !.todo = Parts[o]]
    <3>1. actor' = [actor EXCEPT ![w] = new]
      BY <1>1, <2>1 DEF Run
    <3>2. new \in ActorStates /\ new.op = actor[w].op /\ new.wait = actor[w].wait /\ new.pc = "new" /\ new.todo = Parts[o]
      BY <1>4 DEF ActorStates, Pcs
    <3> HIDE DEF new
    <3>3. QED
      BY <1>1, <1>4, <2>1, <3>1, <3>2
  <2>2. CASE ~(Len(Parts[o]) > 1)
    <3> DEFINE new == [actor[w] EXCEPT !.pc = "complete"]
    <3>1. actor' = [actor EXCEPT ![w] = new]
      BY <1>1, <2>2 DEF Run
    <3>2. new \in ActorStates /\ new.op = actor[w].op /\ new.wait = actor[w].wait /\ new.pc = "complete" /\ new.todo = actor[w].todo
      BY <1>4 DEF ActorStates, Pcs
    <3> HIDE DEF new
    <3>3. QED
      BY <1>1, <1>4, <2>2, <3>1, <3>2
  <2>3. QED
    BY <2>1, <2>2
<1>6. actor' \in [Actors -> ActorStates] /\ actor'[w] = new /\ \A b \in Actors \ {w} : actor'[b] = actor[b]
  BY <1>0, <1>5, WithActor DEF OnlyActor
<1>7. \A v \in Workers \ {w} : actor'[v] = actor[v]
  BY <1>6 DEF Actors
<1>8. \A b \in Actors : actor'[b].op = actor[b].op /\ actor'[b].wait = actor[b].wait /\ List(b)' = List(b)
  BY <1>1, <1>4, <1>5, <1>6 DEF List
<1>9. (\A p : CreatorHolds(p)' <=> CreatorHolds(p)) /\ (\A p : PoolHolds(p)' <=> PoolHolds(p))
  BY <1>4, <1>8 DEF CreatorHolds, PoolHolds, Actors
<1>10. TypeOK'
  BY <1>0, <1>3, <1>4, <1>6 DEF TypeOK
<1>11. List(w) = Parts[o] /\ List(w)' = Parts[o]
  BY <1>0, <1>1, <1>2, <1>8 DEF List
<1>12. /\ Split(Parts[o], new.todo, new.wait)
       /\ \A p : InPast(p, Parts[o], new.todo, new.wait) => ~(Len(Parts[o]) > 1) /\ InSeq(p, Parts[o])
  <2>1. CASE Len(Parts[o]) > 1
    <3>1. new.todo = Parts[o] /\ new.wait = <<>>
      BY <1>5, <2>1
    <3>2. Split(Parts[o], Parts[o], <<>>) /\ \A p : ~InPast(p, Parts[o], Parts[o], <<>>)
      BY <1>4, SplitStart
    <3>3. QED
      BY <3>1, <3>2, Zenon
  <2>2. CASE ~(Len(Parts[o]) > 1)
    <3>1. new.todo = <<>> /\ new.wait = <<>>
      BY <1>5, <2>2
    <3>2. Split(Parts[o], <<>>, <<>>)
      BY <1>4, SplitNone
    <3>3. \A p : InPast(p, Parts[o], <<>>, <<>>) => InSeq(p, Parts[o])
      <4>1. Len(Parts[o]) \in Nat /\ DOMAIN Parts[o] = 1 .. Len(Parts[o]) /\ Len(<< >>) = 0
        BY <1>4, LenProperties, EmptySeq
      <4>2. Over(Parts[o], <<>>, <<>>) = Len(Parts[o])
        BY <4>1 DEF Over
      <4>3. QED
        BY <4>1, <4>2 DEF InPast, InSeq
    <3>4. QED
      BY <2>2, <3>1, <3>2, <3>3, Zenon
  <2>3. QED
    BY <2>1, <2>2
<1>13. Shapes'
  <2>1. Split(List(w), actor[w].todo, actor[w].wait)'
    BY <1>6, <1>11, <1>12
  <2>2. Parts[o] # <<>> \/ ~(Len(Parts[o]) > 1)
    <3>1. Len(<< >>) = 0 /\ ~(0 > 1)
      BY EmptySeq
    <3>2. QED
      BY <3>1, Zenon
  <2>3. Shape(w)'
    BY <1>0, <1>2, <1>5, <1>6, <2>1, <2>2 DEF Shape, Waiting
  <2>4. QED
    BY <1>0, <1>6, <2>3, SameShape DEF Shapes
<1>14. Unique'
  BY <1>0, <1>4, <1>8 DEF Unique, Actors
<1>15. Counted'
  BY <1>0, <1>4, <1>9 DEF Counted
<1>16. PoolHolds(o)
  BY <1>1 DEF PoolHolds
<1>17. NotYet'
  <2>1. ASSUME NEW p \in Ops, InSeq(p, queue) PROVE ran'[p] = 0
    <3>1. PoolHolds(p) /\ p # o /\ ran[p] = 0
      BY <1>0, <1>1, <1>2, <2>1 DEF PoolHolds, Unique, NotYet
    <3>2. QED
      BY <1>2, <1>3, <3>1
  <2>2. ASSUME NEW b \in Actors, NEW p \in Ops, InSeq(p, actor'[b].todo)
        PROVE  ran'[p] = 0 /\ ~PoolHolds(p)'
    <3>1. CASE b = w
      <4>1. Len(Parts[o]) > 1 /\ InSeq(p, Parts[o])
        BY <1>5, <1>6, <2>2, <3>1, EmptyHasNone
      <4>2. QED
        BY <1>2, <1>3, <1>9, <4>1
    <3>2. CASE b # w
      <4>1. InSeq(p, actor[b].todo)
        BY <1>6, <2>2, <3>2
      <4>2. ran[p] = 0 /\ ~PoolHolds(p) /\ p # o
        BY <1>0, <1>16, <4>1 DEF NotYet
      <4>3. ~InSeq(p, Parts[o])
        <5>1. InSeq(p, List(b))
          BY <1>0, <4>1, ShapeFacts
        <5>2. QED
          BY <1>0, <1>11, <3>2, <5>1, ListsDisjoint
      <4>4. QED
        BY <1>3, <1>9, <4>2, <4>3
    <3>3. QED
      BY <3>1, <3>2
  <2>3. ASSUME NEW q \in Ops, NEW p \in Ops, InSeq(p, Parts[q]),
               ran'[p] # 0 \/ CreatorHolds(p)' \/ PoolHolds(p)'
        PROVE  ran'[q] # 0
    <3>1. CASE InSeq(p, Parts[o])
      <4>1. q = o
        BY <2>3, <3>1, BackgroundAssumption DEF InSeq
      <4>2. QED
        BY <1>3, <4>1
    <3>2. CASE ~InSeq(p, Parts[o])
      <4>1. ran[p] # 0 \/ CreatorHolds(p) \/ PoolHolds(p)
        BY <1>3, <1>9, <1>16, <2>3, <3>2
      <4>2. ran[q] # 0
        BY <1>0, <2>3, <4>1 DEF NotYet
      <4>3. QED
        BY <1>3, <4>2
    <3>3. QED
      BY <3>1, <3>2
  <2>4. QED
    BY <1>4, <2>1, <2>2, <2>3 DEF NotYet
<1>18. Ran'
  <2>1. ASSUME NEW v \in Workers, actor'[v].op # NULL
        PROVE  ran'[actor'[v].op] = IF actor'[v].pc = "run" THEN 0 ELSE 1
    <3>1. CASE v = w
      BY <1>3, <1>5, <1>6, <3>1
    <3>2. CASE v # w
      <4>1. actor'[v] = actor[v] /\ actor[v].op \in Ops /\ actor[v].op # o
        BY <1>0, <1>1, <1>2, <1>7, <2>1, <3>2 DEF Unique, TypeOK, ActorStates, Actors
      <4>2. PoolHolds(actor[v].op)
        BY DEF PoolHolds
      <4>3. ran'[actor[v].op] = ran[actor[v].op]
        BY <1>2, <1>3, <4>1, <4>2
      <4>4. QED
        BY <1>0, <2>1, <4>1, <4>3 DEF Ran
    <3>3. QED
      BY <3>1, <3>2
  <2>2. ASSUME NEW b \in Actors, actor'[b].pc # "run", NEW p \in Ops, Past(b, p)' PROVE ran'[p] = 1
    <3>1. CASE b = w
      <4>1. InPast(p, Parts[o], new.todo, new.wait)
        BY <1>6, <1>11, <2>2, <3>1 DEF Past
      <4>2. QED
        BY <1>3, <1>12, <4>1
    <3>2. CASE b # w
      BY <1>0, <1>3, <1>6, <2>2, <3>2, SameShape DEF Ran
    <3>3. QED
      BY <3>1, <3>2
  <2>3. QED
    BY <2>1, <2>2 DEF Ran
<1>19. Completes'
  <2>1. \A p \in Ops : Done(p) => Done(p)'
    BY <1>3 DEF Done
  <2>2. ~completed[o]
    BY <1>0, <1>1, <1>2 DEF Completes
  <2>3. \A b \in Actors : actor'[b].pc = "unref" => completed'[Head(actor'[b].wait)]
    BY <1>0, <1>4, <1>5, <1>6 DEF Completes
  <2>4. \A v \in Workers : actor'[v].op # NULL /\ actor'[v].pc # "drop" => ~completed'[actor'[v].op]
    BY <1>0, <1>4, <1>5, <1>6, <1>7, <2>2 DEF Completes
  <2>5. QED
    BY <1>0, <1>4, <2>1, <2>3, <2>4 DEF Completes
<1>20. Closed'
  <2>1. ASSUME pool # "up" PROVE actor'[w].pc = "complete"
    <3>1. Len(Parts[o]) <= 1
      BY <1>0, <1>1, <2>1 DEF Closed
    <3>2. ~(Len(Parts[o]) > 1)
      <4>1. Len(Parts[o]) \in Nat
        BY <1>4, LenProperties
      <4>2. QED
        BY <3>1, <4>1
    <3>3. QED
      BY <1>5, <1>6, <3>2
  <2>2. \A v \in Workers \ {w} : actor'[v] = actor[v]
    BY <1>7
  <2>3. QED
    BY <1>0, <1>4, <1>6, <2>1, <2>2 DEF Closed
<1>21. QED
  BY <1>10, <1>13, <1>14, <1>15, <1>17, <1>18, <1>19, <1>20 DEF IInv

-----------------------------------------------------------------------------
(* j_background_operation_fini.                                            *)

LEMMA FiniStep ==
    ASSUME IInv, Fini \/ PoolFreed PROVE IInv'
<1>0. TypeOK /\ Shapes /\ Unique /\ Counted /\ NotYet /\ Ran /\ Completes /\ Closed
  BY DEF IInv
<1>1. UNCHANGED <<queue, ref, completed, ran, actor>> /\ pool' \in {"up", "closing", "freed"}
  BY DEF Fini, PoolFreed
<1>2. TypeOK'
  BY <1>0, <1>1 DEF TypeOK
<1>3. Shapes' /\ Unique' /\ NotYet'
  BY <1>0, <1>1 DEF Shapes, Shape, List, Unique, NotYet, CreatorHolds, PoolHolds
<1>4. Counted'
  <2>1. (\A p : CreatorHolds(p)' <=> CreatorHolds(p)) /\ (\A p : PoolHolds(p)' <=> PoolHolds(p))
    BY <1>1 DEF CreatorHolds, PoolHolds
  <2>2. QED
    BY <1>0, <1>1, <2>1 DEF Counted
<1>5. Ran' /\ Completes'
  BY <1>0, <1>1 DEF Ran, Past, List, Completes, Done
<1>6. Closed'
  <2>1. CASE PoolFreed
    BY <1>0, <1>1, <2>1 DEF PoolFreed, Closed
  <2>2. CASE Fini
    <3>1. ASSUME NEW o \in Ops, PoolHolds(o), ~completed[o] PROVE Len(Parts[o]) <= 1
      <4>1. ref[o] > 0
        BY <1>0, <3>1 DEF Counted
      <4>2. ~(Len(Parts[o]) > 1)
        BY <2>2, <3>1, <4>1 DEF Fini
      <4>3. Len(Parts[o]) \in Nat
        BY PartsType, LenProperties
      <4>4. QED
        BY <4>2, <4>3
    <3>2. ASSUME NEW w \in Workers, actor[w].pc \in {"new", "run"}
          PROVE  actor[w].op \in Ops /\ Len(Parts[actor[w].op]) <= 1 /\ actor[w].pc # "new"
      <4>1. w \in Actors /\ Shape(w)
        BY <1>0 DEF Actors, Shapes
      <4>2. actor[w].op # NULL /\ actor[w].op \in Ops
        BY <1>0, <3>2, <4>1 DEF Shape, TypeOK, ActorStates
      <4>3. PoolHolds(actor[w].op) /\ ~completed[actor[w].op]
        BY <1>0, <3>2, <4>2 DEF PoolHolds, Completes
      <4>4. Len(Parts[actor[w].op]) <= 1 /\ Len(Parts[actor[w].op]) \in Nat
        BY <3>1, <4>2, <4>3, PartsType, LenProperties
      <4>5. ~(Len(Parts[actor[w].op]) > 1)
        BY <4>4
      <4>6. QED
        BY <4>1, <4>2, <4>4, <4>5 DEF Shape
    <3>3. \A a \in Actors : actor[a].pc # "new"
      BY <2>2, <3>2 DEF Fini, Actors
    <3>4. \A o \in Ops : InSeq(o, queue) => Len(Parts[o]) <= 1
      <4>1. ASSUME NEW o \in Ops, InSeq(o, queue) PROVE PoolHolds(o) /\ ~completed[o]
        BY <1>0, <4>1 DEF PoolHolds, NotYet, Completes, Done
      <4>2. QED
        BY <3>1, <4>1
    <3>5. QED
      BY <1>1, <3>2, <3>3, <3>4 DEF Closed
  <2>3. QED
    BY <2>1, <2>2
<1>7. QED
  BY <1>2, <1>3, <1>4, <1>5, <1>6 DEF IInv

LEMMA StutterStep ==
    ASSUME IInv, UNCHANGED vars PROVE IInv'
<1>0. TypeOK /\ Shapes /\ Unique /\ Counted /\ NotYet /\ Ran /\ Completes /\ Closed
  BY DEF IInv
<1>1. UNCHANGED <<queue, pool, ref, completed, ran, actor>>
  BY DEF vars
<1>2. TypeOK' /\ Closed' /\ Unique'
  BY <1>0, <1>1 DEF TypeOK, Closed, Unique
<1>3. Shapes' /\ NotYet'
  BY <1>0, <1>1 DEF Shapes, Shape, List, NotYet, CreatorHolds, PoolHolds
<1>4. Counted'
  <2>1. (\A p : CreatorHolds(p)' <=> CreatorHolds(p)) /\ (\A p : PoolHolds(p)' <=> PoolHolds(p))
    BY <1>1 DEF CreatorHolds, PoolHolds
  <2>2. QED
    BY <1>0, <1>1, <2>1 DEF Counted
<1>5. Ran' /\ Completes'
  BY <1>0, <1>1 DEF Ran, Past, List, Completes, Done
<1>6. QED
  BY <1>2, <1>3, <1>4, <1>5 DEF IInv

LEMMA InitIInv == ASSUME Init PROVE IInv
<1>0. << >> \in Seq(Ops)
  BY EmptySeq
<1>1. ASSUME NEW t \in Threads
      PROVE  /\ t \in Actors /\ t \notin Workers /\ Calls[t] \in Seq(Ops) /\ Calls[t] # <<>>
             /\ actor[t] = [pc |-> "new", op |-> NULL, todo |-> Calls[t], wait |-> <<>>]
  BY BackgroundAssumption DEF Init, Actors
<1>2. ASSUME NEW w \in Workers
      PROVE  /\ w \in Actors /\ w \notin Threads
             /\ actor[w] = [pc |-> "idle", op |-> NULL, todo |-> <<>>, wait |-> <<>>]
  BY BackgroundAssumption DEF Init, Actors
<1>3. TypeOK
  <2>1. \A a \in Actors : actor[a] \in ActorStates
    <3>0. PICK e \in Seq(Ops) : e = << >>
      BY <1>0, Zenon
    <3>1. ASSUME NEW t \in Threads PROVE actor[t] \in ActorStates
      <4>1. actor[t] = [pc |-> "new", op |-> NULL, todo |-> Calls[t], wait |-> e]
        BY <1>1, <3>0, Zenon
      <4>2. Calls[t] \in Seq(Ops)
        BY <1>1
      <4>3. QED
        BY <4>1, <4>2, SMT DEF ActorStates, Pcs
    <3>2. ASSUME NEW w \in Workers PROVE actor[w] \in ActorStates
      <4>1. actor[w] = [pc |-> "idle", op |-> NULL, todo |-> e, wait |-> e]
        BY <1>2, <3>0, Zenon
      <4>2. QED
        BY <4>1, SMT DEF ActorStates, Pcs
    <3>3. QED
      BY <3>1, <3>2 DEF Actors
  <2>2. actor \in [Actors -> ActorStates]
    BY <2>1 DEF Init
  <2>3. QED
    BY <1>0, <2>2 DEF Init, TypeOK
<1>4. ASSUME NEW a \in Actors
      PROVE /\ actor[a].wait = <<>> /\ actor[a].op = NULL /\ actor[a].pc \notin {"run", "unref"}
            /\ List(a) = actor[a].todo /\ actor[a].todo \in Seq(Ops)
            /\ a \in Threads => actor[a].pc = "new" /\ actor[a].todo # <<>> /\ a \notin Workers
            /\ a \in Workers => actor[a].pc = "idle" /\ actor[a].todo = <<>> /\ a \notin Threads
  <2>0. PICK e \in Seq(Ops) : e = << >>
    BY <1>0, Zenon
  <2>1. CASE a \in Threads
    <3>1. actor[a] = [pc |-> "new", op |-> NULL, todo |-> Calls[a], wait |-> e]
      BY <1>1, <2>0, <2>1, Zenon
    <3>2. Calls[a] \in Seq(Ops) /\ Calls[a] # e /\ a \notin Workers
      BY <1>1, <2>0, <2>1, Zenon
    <3>3. /\ actor[a].wait = e /\ actor[a].op = NULL /\ actor[a].pc = "new"
          /\ actor[a].todo = Calls[a]
      BY <3>1
    <3>4. List(a) = Calls[a]
      BY <2>1 DEF List
    <3>5. actor[a].wait = << >> /\ actor[a].todo # << >>
      BY <2>0, <3>2, <3>3, Zenon
    <3>6. QED
      BY <2>1, <3>2, <3>3, <3>4, <3>5
  <2>2. CASE a \in Workers
    <3>1. actor[a] = [pc |-> "idle", op |-> NULL, todo |-> e, wait |-> e]
      BY <1>2, <2>0, <2>2, Zenon
    <3>2. /\ actor[a].wait = e /\ actor[a].op = NULL /\ actor[a].pc = "idle"
          /\ actor[a].todo = e
      BY <3>1
    <3>3. a \notin Threads
      BY <1>2, <2>2
    <3>4. List(a) = e
      BY <2>0, <3>2, <3>3, Zenon DEF List
    <3>5. actor[a].wait = << >> /\ actor[a].todo = << >> /\ List(a) = actor[a].todo
      BY <2>0, <3>2, <3>4, Zenon
    <3>6. actor[a].todo \in Seq(Ops)
      BY <3>2
    <3>7. QED
      BY <2>2, <3>2, <3>3, <3>5, <3>6
  <2>3. QED
    BY <2>1, <2>2 DEF Actors
<1>5. ASSUME NEW a \in Actors
      PROVE  Split(List(a), actor[a].todo, actor[a].wait) /\ \A o : ~Past(a, o)
  <2>1. PICK list \in Seq(Ops) : list = actor[a].todo
    BY <1>4
  <2>2. Split(list, list, <<>>) /\ \A o : ~InPast(o, list, list, <<>>)
    BY SplitStart
  <2>3. List(a) = list /\ actor[a].wait = <<>>
    BY <1>4, <2>1
  <2>4. QED
    BY <2>1, <2>2, <2>3, Zenon DEF Past
<1>6. Shapes
  <2>1. ASSUME NEW a \in Actors PROVE Shape(a)
    <3>1. CASE a \in Threads
      BY <1>4, <1>5, <3>1 DEF Shape, Waiting
    <3>2. CASE a \in Workers
      BY <1>4, <1>5, <3>2 DEF Shape, Waiting
    <3>3. QED
      BY <3>1, <3>2 DEF Actors
  <2>2. QED
    BY <2>1 DEF Shapes
<1>7. queue = <<>> /\ DOMAIN << >> = {} /\ \A o : ~InSeq(o, queue)
  BY EmptySeq, LenProperties, EmptyHasNone DEF Init
<1>8. \A o \in Ops : ~CreatorHolds(o) /\ ~PoolHolds(o)
  BY <1>2, <1>4, <1>7, EmptyHasNone, BackgroundAssumption DEF CreatorHolds, PoolHolds
<1>9. Unique
  BY <1>2, <1>7 DEF Unique, Injective
<1>10. Counted
  BY <1>8 DEF Init, Counted
<1>11. NotYet
  BY <1>7, <1>8 DEF Init, NotYet
<1>12. Ran
  BY <1>2, <1>5 DEF Ran
<1>13. Completes
  <2>1. \A o \in Ops : ~completed[o]
    BY DEF Init
  <2>2. \A w \in Workers : actor[w].op = NULL
    BY <1>2
  <2>3. QED
    BY <1>4, <2>1, <2>2 DEF Completes
<1>14. Closed
  BY DEF Init, Closed
<1>15. QED
  BY <1>3, <1>6, <1>9, <1>10, <1>11, <1>12, <1>13, <1>14 DEF IInv

LEMMA NextIInv == ASSUME IInv, [Next]_vars PROVE IInv'
<1>1. CASE \E a \in Actors : New(a)
  BY <1>1, NewStep
<1>2. CASE \E a \in Actors : Wait(a) \/ SpuriousWakeup(a)
  BY <1>2, WaitStep
<1>3. CASE \E a \in Actors : Unref(a)
  BY <1>3, UnrefStep
<1>4. CASE \E w \in Workers : Work(w)
  BY <1>4, TakeStep, RunStep, CompleteStep, DropStep DEF Work
<1>5. CASE Fini \/ PoolFreed
  BY <1>5, FiniStep
<1>6. CASE Terminated \/ UNCHANGED vars
  BY <1>6, StutterStep DEF Terminated
<1>7. QED
  BY <1>1, <1>2, <1>3, <1>4, <1>5, <1>6 DEF Next, Call

(* The types, the lists of the actors, the places of the operations and    *)
(* what has run.                                                           *)
THEOREM Invariance == Spec => []IInv
<1>1. Init => IInv
  BY InitIInv
<1>2. IInv /\ [Next]_vars => IInv'
  BY NextIInv
<1>3. QED
  BY <1>1, <1>2, PTL DEF Spec

(* j_background_operation_unref frees an operation exactly when neither    *)
(* its creator nor the thread of the pool can touch it any more, for any   *)
(* number of threads, workers and operations and however operations create *)
(* others, and also when j_fini is called while tasks are queued.          *)
THEOREM ExactLifetime == Spec => []LifetimeIsExact
<1>1. IInv => LifetimeIsExact
  BY DEF IInv, Counted, LifetimeIsExact
<1>2. QED
  BY <1>1, Invariance, PTL

(* j_background_operation_wait returns only when the function has run,     *)
(* once, and all that it passed to j_helper_execute_parallel, once each.   *)
THEOREM WaitedForIsDone == Spec => []WaitMeansDone
<1>1. ASSUME IInv PROVE WaitMeansDone
  <2>1. ASSUME NEW a \in Actors, actor[a].pc = "unref"
        PROVE  /\ ran[Head(actor[a].wait)] = 1
               /\ \A i \in DOMAIN Parts[Head(actor[a].wait)] : ran[Parts[Head(actor[a].wait)][i]] = 1
    <3>1. actor[a].wait \in Seq(Ops) /\ actor[a].wait # <<>>
      BY <1>1, <2>1, ShapeFacts DEF IInv, Shapes, Shape, Waiting
    <3>2. PICK o \in Ops : o = Head(actor[a].wait)
      BY <3>1, HeadTail
    <3>3. Done(o)
      BY <1>1, <2>1, <3>2 DEF IInv, Completes
    <3>4. \A i \in DOMAIN Parts[o] : Parts[o][i] \in Ops
      BY PartsType, LenProperties, ElementOfSeq
    <3>5. QED
      BY <3>2, <3>3, <3>4 DEF Done, InSeq
  <2>2. QED
    BY <2>1 DEF WaitMeansDone
<1>2. IInv => WaitMeansDone
  BY <1>1
<1>3. QED
  BY <1>2, Invariance, PTL
=============================================================================
