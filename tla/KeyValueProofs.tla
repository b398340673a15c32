---------------------------- MODULE KeyValueProofs ----------------------------
(***************************************************************************)
(* Proofs about KeyValue: what a client of the key-value store is handed   *)
(* was true of the database while it waited, for every set of clients,     *)
(* servers, connections, keys and requests, every backend and any number   *)
(* of requests and power losses.                                           *)
(*                                                                         *)
(* The inductive invariant follows one request: the client's own state     *)
(* (Asking, Expecting), the message and the reply on the connection it     *)
(* holds (Tied), the progress of the thread that works on the message      *)
(* (Working), what the reply says (Answered) and what the client made of   *)
(* it (Received).  Everything said of the database is said of the states   *)
(* since the request, Since(c, s), or of those a power loss leaves,        *)
(* Forced(s).  The databases only get more states, so that all of it stays *)
(* true while others go on; after a power loss nobody waits for anything.  *)
(***************************************************************************)
EXTENDS KeyValue, FiniteSetTheorems, SequenceTheorems, WellFoundedInduction, TLAPS

-----------------------------------------------------------------------------
(* Sets of numbers.                                                        *)

(* A set of natural numbers has a least one.                               *)
LEMMA LeastNat ==
    ASSUME NEW T \in SUBSET Nat, T # {}
    PROVE  \E x \in T : \A y \in T : x <= y
  <1>. DEFINE R == {ss \in Nat \X Nat : ss[1] < ss[2]}
  <1>1. IsWellFoundedOn(R, Nat)
    BY Zenon, NatLessThanWellFounded DEF OpToRel
  <1>2. PICK x \in T : \A y \in T : ~(<<y, x>> \in R)
    <2>. HIDE DEF R
    <2>. QED BY <1>1, WFMin, Zenon
  <1>3. ASSUME NEW y \in T PROVE x <= y
    <2>1. x \in Nat /\ y \in Nat /\ <<y, x>> \in Nat \X Nat /\ <<y, x>>[1] = y /\ <<y, x>>[2] = x
      OBVIOUS
    <2>2. ~(y < x)
      BY <1>2, <2>1
    <2>. QED BY <2>1, <2>2
  <1>. QED BY <1>3

(* A non-empty set of numbers up to n has a greatest one.                  *)
LEMMA Greatest ==
    ASSUME NEW n \in Nat, NEW T \in SUBSET (1 .. n), T # {}
    PROVE  /\ Max(T) \in T /\ \A y \in T : Max(T) >= y
  <1>. DEFINE U == {n - y : y \in T}
  <1>1. PICK x \in U : \A y \in U : x <= y
    <2>1. U \in SUBSET Nat /\ U # {}
      <3>1. \A y \in T : y \in Nat /\ n - y \in Nat
        OBVIOUS
      <3>. QED BY <3>1
    <2>. HIDE DEF U
    <2>. QED BY <2>1, LeastNat
  <1>2. PICK t \in T : x = n - t
    BY <1>1
  <1>3. ASSUME NEW y \in T PROVE t >= y
    <2>1. n - t <= n - y
      BY <1>1, <1>2, Zenon
    <2>. QED BY <2>1
  <1>4. \E m \in T : \A y \in T : m >= y
    BY <1>3
  <1>. QED BY <1>4, Zenon DEF Max

-----------------------------------------------------------------------------
(* What a list of writes of one key makes of a database.                   *)

(* The last one decides.                                                   *)
LEMMA LastDecides ==
    ASSUME NEW d, NEW K, NEW V, d \in [K -> V], NEW k \in K,
           NEW writes \in Seq([key : {k}, value : V])
    PROVE  /\ writes = <<>> => Executed(d, writes) = d
           /\ writes # <<>> => Executed(d, writes) = Applied(d, writes[Len(writes)])
  <1>. DEFINE D == DOMAIN writes
              F(f) == [T \in SUBSET D |-> IF T = {} THEN d
                                          ELSE [f[T \ {Max(T)}] EXCEPT ![writes[Max(T)].key] = writes[Max(T)].value]]
              g == [T \in SUBSET D |-> IF T = {} THEN d ELSE [d EXCEPT ![k] = writes[Max(T)].value]]
              iter == CHOOSE f : f = F(f)
  <1>1. Executed(d, writes) = iter[D]
    BY DEF Executed, FoldLeft, MapThenFoldSet, Applied
  <1>2. PICK n \in Nat : D = 1 .. n /\ n = Len(writes)
    OBVIOUS
  <1>3. ASSUME NEW T \in SUBSET D, T # {}
        PROVE  Max(T) \in T /\ Max(T) \in D /\ writes[Max(T)].key = k /\ writes[Max(T)].value \in V
    <2>1. Max(T) \in T
      BY <1>2, <1>3, Greatest, Zenon
    <2>2. \A j \in D : writes[j] \in [key : {k}, value : V]
      BY ElementOfSeq, <1>2, Zenon
    <2>3. \A j \in D : writes[j].key = k /\ writes[j].value \in V
      BY <2>2
    <2>. HIDE DEF D
    <2>. QED BY <2>1, <2>3
  <1>4. ASSUME NEW T \in SUBSET D PROVE g[T] = F(g)[T]
    <2>1. CASE T = {}
      BY <2>1
    <2>2. CASE T # {}
      <3>. DEFINE x == Max(T)
                  v == writes[x].value
                  e == g[T \ {x}]
      <3>1. x \in T /\ writes[x].key = k /\ g[T] = [d EXCEPT ![k] = v]
        BY <1>3, <2>2
      <3>2. F(g)[T] = [e EXCEPT ![k] = v]
        BY <2>2, <3>1, Zenon
      <3>3. e = d \/ \E u : e = [d EXCEPT ![k] = u]
        BY Zenon
      <3>. HIDE DEF e, g, F, x, v
      <3>4. [e EXCEPT ![k] = v] = [d EXCEPT ![k] = v]
        BY <3>3, Zenon
      <3>. QED BY <3>1, <3>2, <3>4
    <2>. QED BY <2>1, <2>2
  <1>5. g = F(g)
    <2>1. g = [T \in SUBSET D |-> g[T]]
      OBVIOUS
    <2>2. F(g) = [T \in SUBSET D |-> F(g)[T]]
      <3>. HIDE DEF g
      <3>. QED OBVIOUS
    <2>. HIDE DEF g, F
    <2>. QED BY <1>4, <2>1, <2>2, Zenon
  <1>6. iter = F(iter)
    <2>1. \E f : f = F(f)
      BY <1>5, Zenon
    <2>. HIDE DEF F
    <2>. QED BY <2>1, Zenon
  <1>. HIDE DEF iter
  <1>7. ASSUME NEW m \in Nat, \A h \in Nat : h < m => \A T \in SUBSET D : T \subseteq 1 .. h => iter[T] = g[T]
        PROVE  \A T \in SUBSET D : T \subseteq 1 .. m => iter[T] = g[T]
    <2>. SUFFICES ASSUME NEW T \in SUBSET D, T \subseteq 1 .. m PROVE iter[T] = g[T]
      BY Zenon
    <2>1. CASE T = {}
      <3>1. iter[T] = F(iter)[T]
        <4>. HIDE DEF F
        <4>. QED BY <1>6
      <3>. QED BY <2>1, <3>1
    <2>2. CASE T # {}
      <3>. DEFINE x == Max(T)
      <3>1. x \in T /\ x \in 1 .. m /\ T \ {x} \subseteq 1 .. x - 1 /\ x - 1 \in Nat /\ x - 1 < m
        <4>1. x \in T /\ \A y \in T : x >= y
          BY <1>2, <2>2, Greatest, Zenon
        <4>. HIDE DEF x
        <4>. QED BY <4>1
      <3>2. iter[T \ {x}] = g[T \ {x}]
        <4>. HIDE DEF g, x
        <4>. QED BY <1>7, <3>1
      <3>3. iter[T] = F(iter)[T]
        <4>. HIDE DEF F
        <4>. QED BY <1>6
      <3>4. iter[T] = F(g)[T]
        <4>. HIDE DEF g
        <4>. QED BY <2>2, <3>2, <3>3, Zenon
      <3>. HIDE DEF F, g
      <3>. QED BY <1>4, <3>4
    <2>. QED BY <2>1, <2>2
  <1>8. \A m \in Nat : \A T \in SUBSET D : T \subseteq 1 .. m => iter[T] = g[T]
    <2>. DEFINE Bad == {m \in Nat : ~(\A T \in SUBSET D : T \subseteq 1 .. m => iter[T] = g[T])}
    <2>. SUFFICES ASSUME Bad # {} PROVE FALSE
      BY Zenon
    <2>1. PICK m \in Bad : \A y \in Bad : m <= y
      <3>1. Bad \in SUBSET Nat
        OBVIOUS
      <3>. HIDE DEF Bad
      <3>. QED BY <3>1, LeastNat
    <2>2. m \in Nat /\ \A h \in Nat : h < m => h \notin Bad
      <3>1. Bad \in SUBSET Nat
        OBVIOUS
      <3>. HIDE DEF Bad
      <3>. QED BY <2>1, <3>1
    <2>. HIDE DEF g
    <2>3. \A h \in Nat : h < m => \A T \in SUBSET D : T \subseteq 1 .. h => iter[T] = g[T]
      BY <2>2
    <2>. QED BY <1>7, <2>1, <2>2, <2>3, Zenon
  <1>9. iter[D] = g[D]
    <2>. HIDE DEF g
    <2>. QED BY <1>2, <1>8
  <1>10. D # {} => Max(D) = Len(writes)
    <2>. SUFFICES ASSUME D # {} PROVE Max(D) = n
      BY <1>2
    <2>1. Max(D) \in D /\ \A y \in D : Max(D) >= y
      BY <1>2, Greatest, Zenon
    <2>2. n \in D
      BY <1>2
    <2>. QED BY <1>2, <2>1, <2>2
  <1>11. D = {} <=> writes = <<>>
    <2>1. n = 0 => writes = <<>>
      BY <1>2, EmptySeq
    <2>2. writes = <<>> => D = {}
      OBVIOUS
    <2>3. D = {} => n = 0
      <3>. HIDE DEF D
      <3>. QED BY <1>2
    <2>. HIDE DEF D
    <2>. QED BY <2>1, <2>2, <2>3
  <1>12. D \in SUBSET D
    OBVIOUS
  <1>13. iter[D] = IF D = {} THEN d ELSE [d EXCEPT ![k] = writes[Max(D)].value]
    BY <1>9, <1>12, Zenon
  <1>14. writes # <<>> => [d EXCEPT ![k] = writes[Len(writes)].value] = Applied(d, writes[Len(writes)])
    <2>1. D # {} => writes[Max(D)].key = k
      BY <1>3, <1>12
    <2>. HIDE DEF D
    <2>. QED BY <1>10, <1>11, <2>1, Zenon DEF Applied
  <1>. HIDE DEF D, g
  <1>. QED BY <1>1, <1>10, <1>11, <1>13, <1>14, Zenon

States == [Keys -> Values \cup {NULL}]
Answers == [ret : BOOLEAN, values : Seq(Values \cup {NULL} \cup Fetched), pairs : SUBSET Pairs]
WorkerStates ==
    [queue : Seq(Messages), pc : {"idle", "op", "iterate"}, i : Nat,
     writes : Seq([key : Keys, value : Values \cup {NULL}]), answer : Answers,
     cursor : SUBSET Pairs, reply : Replies \cup {NULL}]
ClientStates ==
    [pc : {"idle", "wait", "fetch"}, n : Nat, req : Messages \cup {NULL}, conn : Workers \cup {NULL},
     todo : SUBSET Servers, since : [Servers -> Nat], answer : Answers \cup Replies,
     got : [Servers -> SUBSET Pairs], confirmed : BOOLEAN]

(* The variables have their types.                                         *)
TypeOK ==
    /\ backend \in BackendNames
    /\ versions \in [Servers -> Seq(States)]
    /\ synced \in [Servers -> Nat]
    /\ lock \in [Servers -> Workers \cup {NULL}]
    /\ worker \in [Workers -> WorkerStates]
    /\ client \in [Clients -> ClientStates]

(* What is in a database: each pair where it belongs, and no half of a     *)
(* list.  A request began, and the disk was last written, at some state.   *)
Proper(s, d) ==
    \A k \in Keys : d[k] # NULL => Home(k) = s /\ (Writes.at = "execute" => d[k].last)
Kept ==
    \A s \in Servers :
       /\ synced[s] \in 1 .. Len(versions[s])
       /\ \A n \in 1 .. Len(versions[s]) : Proper(s, versions[s][n])
       /\ \A c \in Clients : client[c].since[s] \in 1 .. Len(versions[s])

(* One of the states D has the value written by the operation mark, or no  *)
(* value, for key k.                                                       *)
Has(D, k, mark) == \E d \in D : d[k] # NULL /\ d[k].by = mark
Lacks(D, k) == \E d \in D : d[k] = NULL
MarkOf(r) == Append(r.id, Len(r.lens))

(* The states a loss of power leaves.                                      *)
Forced(s) == {versions[s][n] : n \in 1 .. synced[s]}
Durable ==
    backend # "gdbm" => \A p \in promised : p[1] \in Keys /\ \E s \in Servers : Has(Forced(s), p[1], p[2])

(* The messages of a connection: only the last one has somebody waiting.   *)
Sound(r) ==
    /\ r.server \in Servers /\ r.id \in Clients \X Nat
    /\ r.type = "ITERATE" => r.confirm
    /\ r.type # "ITERATE" => r.server = Home(r.key)
Awaited(w, r, p) ==
    /\ p.pc = "wait" /\ p.conn = w /\ r.server \in p.todo
    /\ r = [p.req EXCEPT !.server = r.server, !.confirm = TRUE]
Tied(w, u) ==
    /\ \A j \in 1 .. Len(u.queue) :
          /\ Sound(u.queue[j])
          /\ u.queue[j].confirm => j = Len(u.queue) /\ Awaited(w, u.queue[j], client[u.queue[j].id[1]])
    /\ u.reply # NULL => u.queue = <<>> /\ \E c \in Clients : client[c].conn = w

(* What a client asks, and the reply it waits for.                         *)
Asking(c, p) ==
    /\ p.pc = "wait" <=> p.conn # NULL
    /\ InProcess => p.conn \in {c, NULL}
    /\ p.pc # "idle" => p.req # NULL /\ p.todo # {}
    /\ p.pc = "idle" => p.todo = {}
    /\ p.req # NULL =>
          /\ p.req.id = <<c, p.n>> /\ p.todo \subseteq Asked
          /\ p.pc = "fetch" => p.req.type = "ITERATE"
          /\ p.req.type # "ITERATE" => p.todo \subseteq {Home(p.req.key)}
Expecting(c, p, u) ==
    p.pc = "wait" =>
       IF u.reply = NULL
       THEN u.queue # <<>> /\ Last(u.queue).confirm /\ Last(u.queue).id[1] = c
       ELSE u.reply.server \in p.todo

Connected ==
    /\ \A w \in Workers : Tied(w, worker[w])
    /\ \A c \in Clients : Asking(c, client[c]) /\ Expecting(c, client[c], worker[client[c].conn])
    /\ \A c, d \in Clients : client[c].conn = client[d].conn /\ client[c].conn # NULL => c = d

(* What a reply says: the values of a key, the pairs of an iterator, that  *)
(* something was done.  D are the states since the request, F those on the *)
(* disk.                                                                   *)
Known(D, k, values) == \A j \in 1 .. Len(values) : \E d \in D : values[j] = d[k]

PairsOf(d, keys) == {[key |-> k, value |-> d[k]] : k \in keys}
Found(d, m) == {k \in m : d[k] # NULL}

Listed(D, s, m, got) ==
    /\ \A p \in got : p.key \in m /\ \E d \in D : d[p.key] = p.value
    /\ Reads.sorted => \E d \in D : got = PairsOf(d, Readable(d, m, s))
    /\ ~Reads.stepwise => Distinct(got) /\ \E d \in D :
          got = PairsOf(d, Found(d, m)) \/ \E h \in m : d[h] # NULL /\ d[h].len = 0
    /\ Reads.documents => \A k \in m : (\A d \in D : d[k] # NULL) => HasKey(got, k)

AllFound(a) == a.ret <=> \A j \in 1 .. Len(a.values) : a.values[j] # NULL

Effective(D, r) ==
    /\ r.type = "PUT" => Has(D, r.key, MarkOf(r))
    /\ r.type = "DELETE" => Lacks(D, r.key)

Answered(D, F, s, r, a) ==
    /\ r.type = "GET" =>
          /\ a.values \in Seq(Values \cup {NULL}) /\ Len(a.values) = Len(r.lens)
          /\ Known(D, r.key, a.values) /\ AllFound(a)
    /\ r.type = "ITERATE" => Listed(D, s, Selected(r), a.pairs)
    /\ Effective(D, r)
    /\ r.type = "PUT" /\ r.persistency = "STORAGE" /\ backend # "gdbm" => Has(F, r.key, MarkOf(r))

(* What a client was told.                                                 *)
Handed(D, r, a) ==
    r.type = "GET" =>
       /\ a.values \in Seq(Values \cup {NULL}) /\ Len(a.values) = Len(r.lens)
       /\ \A j \in 1 .. Len(a.values) : \E d \in D : a.values[j] = Nonempty(d[r.key])
       /\ AllFound(a)

ReplyTrue(c) ==
    LET p == client[c]
        a == worker[p.conn].reply IN
    p.pc = "wait" /\ a # NULL => Answered(Since(c, a.server), Forced(a.server), a.server, p.req, a)
ListsTrue(c) ==
    LET p == client[c] IN
    p.req # NULL /\ p.req.type = "ITERATE" /\ (p.pc # "idle" \/ p.confirmed) =>
       \A s \in Asked \ p.todo : Listed(Since(c, s), s, Selected(p.req), p.got[s])
ResultsTrue(c) ==
    LET p == client[c]
        s == Home(p.req.key) IN
    Finished(c) => Handed(Since(c, s), p.req, p.answer) /\ Effective(Since(c, s), p.req)
Received(c) == ReplyTrue(c) /\ ListsTrue(c) /\ ResultsTrue(c)

(* What a worker has done of a message r, its progress being p; D are the  *)
(* states since the request, d is the present one.                         *)
Putting(p, r, D) ==
    /\ \A j \in 1 .. Len(p.writes) :
          /\ p.writes[j].key = r.key /\ p.writes[j].value # NULL
          /\ p.writes[j].value.by = Append(r.id, j)
          /\ p.writes[j].value.last <=> j = Len(r.lens)
    /\ Writes.at # "once" => Len(p.writes) = p.i - 1
    /\ Writes.at = "once" /\ r.confirm /\ p.i > 1 => Has(D, r.key, Append(r.id, p.i - 1))
Deleting(p, r, D, d) ==
    /\ \A j \in 1 .. Len(p.writes) : p.writes[j].key = r.key /\ p.writes[j].value = NULL
    /\ Writes.at # "once" /\ Writes.missing => Len(p.writes) = p.i - 1
    /\ Writes.at # "once" /\ p.i > 1 /\ p.writes = <<>> => d[r.key] = NULL
    /\ Writes.at = "once" /\ r.confirm /\ p.i > 1 => Lacks(D, r.key)
Getting(p, r, D) ==
    /\ p.writes = <<>> /\ p.answer.values \in Seq(Values \cup {NULL}) /\ Len(p.answer.values) = p.i - 1
    /\ AllFound(p.answer)
    /\ r.confirm => Known(D, r.key, p.answer.values)
Batching(p, r, D, d) ==
    /\ p.queue # <<>> /\ r.type # "ITERATE" /\ p.i \in 1 .. Len(r.lens) + 1
    /\ Writes.at = "once" => p.writes = <<>>
    /\ r.type = "PUT" => Putting(p, r, D)
    /\ r.type = "DELETE" => Deleting(p, r, D, d)
    /\ r.type = "GET" => Getting(p, r, D)

(* A step of a GDBM iterator yields a pair that was there, or an empty     *)
(* value; one of a MongoDB cursor a pair that was there, and the keys that *)
(* were there all the time have come or are still to come.                 *)
Stepped(p, r, D) ==
    LET v == p.answer.values IN
    /\ v \in Seq(Fetched)
    /\ \A j \in 1 .. Len(v) :
          /\ v[j].key \in Selected(r)
          /\ Reads.documents \/ v[j].value.len > 0 =>
                v[j].value \in Values /\ \E d \in D : d[v[j].key] = v[j].value
    /\ Reads.documents =>
          /\ \A x \in p.cursor : \E d \in D : d[x.key] = x.value
          /\ \A k \in Selected(r) :
                (\A d \in D : d[k] # NULL) => HasKey(p.cursor, k) \/ \E j \in 1 .. Len(v) : v[j].key = k
Listing(p, r, D) ==
    /\ p.queue # <<>> /\ r.type = "ITERATE"
    /\ Distinct(p.cursor) /\ \A x \in p.cursor : x.key \in Selected(r)
    /\ ~Reads.stepwise => \E d \in D : p.cursor = PairsOf(d, Found(d, Selected(r)))
    /\ Reads.stepwise => Stepped(p, r, D)

(* An iterator has last looked at the database after it was asked for.     *)
Looked(p, r, since, n) == p.i \in since .. n

Working(w) ==
    LET p == worker[w]
        r == Current(w)
        D == Since(r.id[1], r.server) IN
    /\ p.pc = "op" => Batching(p, r, D, Store(r.server)) /\ (Writes.exclusive => lock[r.server] = w)
    /\ p.pc = "iterate" =>
          /\ Listing(p, r, D) /\ (Reads.exclusive => lock[r.server] = w)
          /\ Looked(p, r, client[r.id[1]].since[r.server], Len(versions[r.server]))

IInv ==
    /\ TypeOK /\ Kept /\ Durable /\ Connected
    /\ \A c \in Clients : Received(c)
    /\ \A w \in Workers : Working(w)

-----------------------------------------------------------------------------
(* The backends, and what does not depend on the database.                 *)

(* What the proofs need to know of the tables of backends: an operation    *)
(* that may skip its write is one of a backend with exclusive batches or   *)
(* of GDBM; only GDBM writes at once and does not sync; the backend in the *)
(* client's process has the cursor over documents, and does not sort.      *)
LEMMA Backends ==
    ASSUME backend \in BackendNames
    PROVE  /\ Writes.exclusive \in BOOLEAN /\ Reads.exclusive \in BOOLEAN
           /\ Writes.at \in {"once", "execute", "bulk"}
           /\ Writes.at # "once" /\ ~Writes.exclusive => Writes.missing
           /\ Writes.at = "once" <=> backend = "gdbm"
           /\ backend # "gdbm" => "STORAGE" \in Writes.synced
           /\ backend \notin {"gdbm", "mongodb"} => Writes.at = "execute"
           /\ Writes.at = "bulk" => InProcess
           /\ Reads.sorted \in BOOLEAN /\ Reads.stepwise \in BOOLEAN /\ Reads.documents \in BOOLEAN
           /\ Reads.sorted => ~InProcess /\ ~Reads.stepwise
           /\ Reads.documents <=> InProcess
           /\ Reads.documents => Reads.stepwise
           /\ InProcess => Writes.at # "once"
  <1>. USE DEF Persistencies, Writes, Reads, WritesOf, ReadsOf, InProcess
  <1>1. backend \in {"leveldb", "rocksdb", "lmdb", "sqlite", "gdbm", "mongodb"}
    BY KeyValueAssumption
  <1>2. CASE backend = "leveldb"
    BY <1>2, Zenon DEF LeveldbWrites, LeveldbReads
  <1>3. CASE backend = "rocksdb"
    BY <1>3, Zenon DEF RocksdbWrites, RocksdbReads
  <1>4. CASE backend = "lmdb"
    BY <1>4, Zenon DEF LmdbWrites, LmdbReads
  <1>5. CASE backend = "sqlite"
    BY <1>5, Zenon DEF SqliteWrites, SqliteReads
  <1>6. CASE backend = "gdbm"
    BY <1>6, Zenon DEF GdbmWrites, GdbmReads
  <1>7. CASE backend = "mongodb"
    BY <1>7, Zenon DEF MongodbWrites, MongodbReads
  <1>. QED BY <1>1, <1>2, <1>3, <1>4, <1>5, <1>6, <1>7

(* The backend does not change, nor what is derived from it.               *)
LEMMA Fixed ==
    ASSUME UNCHANGED backend
    PROVE  /\ Writes' = Writes /\ Reads' = Reads /\ InProcess' = InProcess /\ Asked' = Asked
           /\ \A k : Home(k)' = Home(k) /\ Nonempty(k)' = Nonempty(k)
           /\ \A r : Selected(r)' = Selected(r)
           /\ \A d, m, s : Readable(d, m, s)' = Readable(d, m, s)
           /\ \A s, d : Proper(s, d)' = Proper(s, d)
           /\ \A D, r : Effective(D, r)' = Effective(D, r)
           /\ \A D, F, s, r, a : Answered(D, F, s, r, a)' = Answered(D, F, s, r, a)
           /\ \A D, s, m, g : Listed(D, s, m, g)' = Listed(D, s, m, g)
           /\ \A D, r, a : Handed(D, r, a)' = Handed(D, r, a)
           /\ \A p, r, D, d : Batching(p, r, D, d)' = Batching(p, r, D, d)
           /\ \A p, r, D : Listing(p, r, D)' = Listing(p, r, D)
           /\ \A r : Sound(r)' = Sound(r)
           /\ \A c, p : Asking(c, p)' = Asking(c, p)
  <1>1. Writes' = Writes /\ Reads' = Reads /\ InProcess' = InProcess /\ Asked' = Asked
    BY DEF Writes, Reads, InProcess, Asked, FirstServer
  <1>2. \A k : Home(k)' = Home(k) /\ Nonempty(k)' = Nonempty(k)
    BY <1>1 DEF Home, Nonempty, FirstServer
  <1>0. \A r : Selected(r)' = Selected(r)
    BY DEF Selected
  <1>3. \A d, m, s : Readable(d, m, s)' = Readable(d, m, s)
    <2>. SUFFICES ASSUME NEW d, NEW m, NEW s PROVE Readable(d, m, s)' = Readable(d, m, s)
      OBVIOUS
    <2>. QED BY <1>1, <1>2 DEF Readable
  <1>4. \A s, d : Proper(s, d)' = Proper(s, d)
    BY <1>1, <1>2 DEF Proper
  <1>5. \A D, r : Effective(D, r)' = Effective(D, r)
    BY DEF Effective, Has, Lacks, MarkOf
  <1>6. \A D, s, m, g : Listed(D, s, m, g)' = Listed(D, s, m, g)
    <2>. SUFFICES ASSUME NEW D, NEW s, NEW m, NEW g PROVE Listed(D, s, m, g)' = Listed(D, s, m, g)
      OBVIOUS
    <2>. QED BY <1>1, <1>3, Zenon DEF Listed, Distinct, HasKey, PairsOf, Found
  <1>7. \A D, F, s, r, a : Answered(D, F, s, r, a)' = Answered(D, F, s, r, a)
    <2>. SUFFICES ASSUME NEW D, NEW F, NEW s, NEW r, NEW a
                  PROVE  Answered(D, F, s, r, a)' = Answered(D, F, s, r, a)
      OBVIOUS
    <2>. QED BY <1>0, <1>5, <1>6, Zenon DEF Answered, AllFound, Known, Has, MarkOf
  <1>8. \A D, r, a : Handed(D, r, a)' = Handed(D, r, a)
    <2>. SUFFICES ASSUME NEW D, NEW r, NEW a PROVE Handed(D, r, a)' = Handed(D, r, a)
      OBVIOUS
    <2>. QED BY <1>2, Zenon DEF Handed, AllFound
  <1>9. \A p, r, D, d : Batching(p, r, D, d)' = Batching(p, r, D, d)
    <2>. SUFFICES ASSUME NEW p, NEW r, NEW D, NEW d PROVE Batching(p, r, D, d)' = Batching(p, r, D, d)
      OBVIOUS
    <2>. QED BY <1>1, Zenon DEF Batching, Putting, Deleting, Getting, Has, Lacks, Known, AllFound
  <1>10. \A p, r, D : Listing(p, r, D)' = Listing(p, r, D)
    <2>. SUFFICES ASSUME NEW p, NEW r, NEW D PROVE Listing(p, r, D)' = Listing(p, r, D)
      OBVIOUS
    <2>. QED BY <1>0, <1>1, Zenon DEF Listing, Stepped, Distinct, HasKey, PairsOf, Found
  <1>11. \A r : Sound(r)' = Sound(r)
    BY <1>2 DEF Sound
  <1>12. \A c, p : Asking(c, p)' = Asking(c, p)
    BY <1>1, <1>2, Zenon DEF Asking
  <1>. QED
    BY <1>0, <1>1, <1>2, <1>3, <1>4, <1>5, <1>6, <1>7, <1>8, <1>9, <1>10, <1>11, <1>12

(* What was said of the states since a request stays true when there are   *)
(* more of them.                                                           *)
LEMMA MoreStates ==
    ASSUME NEW D, NEW E, D \subseteq E
    PROVE  /\ \A k, mark : Has(D, k, mark) => Has(E, k, mark)
           /\ \A k : Lacks(D, k) => Lacks(E, k)
           /\ \A k, v : Known(D, k, v) => Known(E, k, v)
           /\ \A r : Effective(D, r) => Effective(E, r)
           /\ \A s, m, g : Listed(D, s, m, g) => Listed(E, s, m, g)
           /\ \A F, G, s, r, a : Answered(D, F, s, r, a) /\ F \subseteq G => Answered(E, G, s, r, a)
           /\ \A r, a : Handed(D, r, a) => Handed(E, r, a)
           /\ \A p, r : Listing(p, r, D) => Listing(p, r, E)
  <1>1. \A k, mark : Has(D, k, mark) => Has(E, k, mark)
    BY DEF Has
  <1>2. \A k : Lacks(D, k) => Lacks(E, k)
    BY DEF Lacks
  <1>3. \A k, v : Known(D, k, v) => Known(E, k, v)
    BY DEF Known
  <1>4. \A r : Effective(D, r) => Effective(E, r)
    BY <1>1, <1>2 DEF Effective
  <1>5. \A s, m, g : Listed(D, s, m, g) => Listed(E, s, m, g)
    BY DEF Listed
  <1>6. \A F, G, s, r, a : Answered(D, F, s, r, a) /\ F \subseteq G => Answered(E, G, s, r, a)
    <2>. SUFFICES ASSUME NEW F, NEW G, NEW s, NEW r, NEW a, Answered(D, F, s, r, a), F \subseteq G
                  PROVE  Answered(E, G, s, r, a)
      OBVIOUS
    <2>1. \A k, mark : Has(F, k, mark) => Has(G, k, mark)
      BY DEF Has
    <2>. QED BY <1>3, <1>4, <1>5, <2>1 DEF Answered
  <1>7. \A r, a : Handed(D, r, a) => Handed(E, r, a)
    BY DEF Handed
  <1>8. \A p, r : Listing(p, r, D) => Listing(p, r, E)
    <2>. SUFFICES ASSUME NEW p, NEW r, Listing(p, r, D) PROVE Listing(p, r, E)
      OBVIOUS
    <2>1. Stepped(p, r, D) => Stepped(p, r, E)
      BY DEF Stepped
    <2>. QED BY <2>1 DEF Listing
  <1>. QED
    BY <1>1, <1>2, <1>3, <1>4, <1>5, <1>6, <1>7, <1>8

(* The databases only get more states.                                     *)
Grown ==
    \A s \in Servers : /\ Len(versions[s]) <= Len(versions'[s]) /\ synced[s] <= synced'[s]
                       /\ \A n \in 1 .. Len(versions[s]) : versions'[s][n] = versions[s][n]

(* The states of Since and Forced after a step.                            *)
SinceNext(c, s) == {versions'[s][i] : i \in client'[c].since[s] .. Len(versions'[s])}
ForcedNext(s) == {versions'[s][n] : n \in 1 .. synced'[s]}

(* The states since a request and those on the disk stay what they are.    *)
LEMMA GrownStates ==
    ASSUME TypeOK, Kept, Grown, versions' \in [Servers -> Seq(States)], synced' \in [Servers -> Nat],
           NEW s \in Servers
    PROVE  /\ Forced(s) \subseteq ForcedNext(s)
           /\ \A c \in Clients : client'[c].since = client[c].since => Since(c, s) \subseteq SinceNext(c, s)
           /\ \A c \in Clients : client'[c].since[s] \in 1 .. Len(versions[s]) =>
                 client'[c].since[s] \in 1 .. Len(versions'[s])
  <1>. DEFINE n == Len(versions[s])
              m == Len(versions'[s])
  <1>1. n \in Nat /\ m \in Nat /\ n <= m /\ synced[s] \in 1 .. n /\ synced[s] <= synced'[s] /\ synced'[s] \in Nat
    BY DEF TypeOK, Kept, Grown
  <1>2. \A i \in 1 .. n : versions'[s][i] = versions[s][i]
    BY DEF Grown
  <1>3. Forced(s) \subseteq ForcedNext(s)
    <2>. HIDE DEF n, m
    <2>1. \A i \in 1 .. synced[s] : i \in 1 .. synced'[s] /\ i \in 1 .. n
      BY <1>1
    <2>. QED BY <1>2, <2>1 DEF Forced, ForcedNext
  <1>4. ASSUME NEW c \in Clients, client'[c].since = client[c].since
        PROVE  Since(c, s) \subseteq SinceNext(c, s)
    <2>1. client[c].since[s] \in 1 .. n
      BY DEF Kept
    <2>2. \A i \in client[c].since[s] .. n : i \in client'[c].since[s] .. m /\ i \in 1 .. n
      <3>. HIDE DEF n, m
      <3>. QED BY <1>1, <1>4, <2>1
    <2>. QED BY <1>2, <2>2, Zenon DEF Since, SinceNext
  <1>5. ASSUME NEW c \in Clients, client'[c].since[s] \in 1 .. n PROVE client'[c].since[s] \in 1 .. m
    <2>. HIDE DEF n, m
    <2>. QED BY <1>1, <1>5
  <1>. QED BY <1>3, <1>4, <1>5

-----------------------------------------------------------------------------
(* The steps of the workers.                                               *)

(* A worker's next message, with the queue it heads.                       *)
LEMMA CurrentMessage ==
    ASSUME IInv, NEW w \in Workers, worker[w].queue # <<>>
    PROVE  /\ worker[w] \in WorkerStates /\ worker[w].queue \in Seq(Messages)
           /\ Len(worker[w].queue) \in Nat \ {0}
           /\ Current(w) = worker[w].queue[1] /\ Current(w) \in Messages
           /\ Sound(Current(w)) /\ Current(w).server \in Servers /\ Current(w).id \in Clients \X Nat
           /\ Current(w).id[1] \in Clients
           /\ Current(w).confirm => /\ Len(worker[w].queue) = 1
                                    /\ Awaited(w, Current(w), client[Current(w).id[1]])
           /\ worker[w].reply = NULL
  <1>1. worker[w] \in WorkerStates /\ worker[w].queue \in Seq(Messages)
    BY Zenon DEF IInv, TypeOK, WorkerStates
  <1>2. Len(worker[w].queue) \in Nat \ {0} /\ Current(w) = worker[w].queue[1]
    BY <1>1, EmptySeq DEF Current
  <1>3. 1 \in 1 .. Len(worker[w].queue)
    BY <1>2
  <1>4. Current(w) \in Messages
    BY <1>1, <1>2, <1>3, ElementOfSeq
  <1>5. Tied(w, worker[w])
    BY DEF IInv, Connected
  <1>6. /\ Sound(worker[w].queue[1])
        /\ worker[w].queue[1].confirm =>
              /\ 1 = Len(worker[w].queue)
              /\ Awaited(w, worker[w].queue[1], client[worker[w].queue[1].id[1]])
        /\ worker[w].reply = NULL
    BY <1>3, <1>5, Zenon DEF Tied
  <1>7. Current(w).id \in Clients \X Nat /\ Current(w).server \in Servers
    BY <1>2, <1>6 DEF Sound
  <1>8. Current(w).id[1] \in Clients
    BY <1>7
  <1>. QED BY <1>1, <1>2, <1>4, <1>6, <1>7, <1>8

(* What a worker has done stays true when its database gets more states;   *)
(* only a delete looks at the present one, and then nobody else writes.    *)
LEMMA BatchGrows ==
    ASSUME TypeOK, NEW p \in WorkerStates, NEW r, NEW D, NEW E, NEW d, NEW e,
           Batching(p, r, D, d), r.confirm => D \subseteq E, Writes.exclusive => d = e
    PROVE  Batching(p, r, E, e)
  <1>1. r.confirm => /\ \A k, mark : Has(D, k, mark) => Has(E, k, mark)
                     /\ \A k : Lacks(D, k) => Lacks(E, k)
                     /\ \A k, v : Known(D, k, v) => Known(E, k, v)
    BY MoreStates
  <1>2. r.type = "PUT" => Putting(p, r, E)
    BY <1>1 DEF Batching, Putting
  <1>3. r.type = "GET" => Getting(p, r, E)
    BY <1>1 DEF Batching, Getting
  <1>4. ASSUME r.type = "DELETE" PROVE Deleting(p, r, E, e)
    <2>1. Deleting(p, r, D, d)
      BY <1>4 DEF Batching
    <2>2. ASSUME Writes.at # "once", p.i > 1, p.writes = <<>> PROVE e[r.key] = NULL
      <3>1. CASE Writes.exclusive
        BY <2>1, <2>2, <3>1 DEF Deleting
      <3>2. CASE ~Writes.exclusive
        <4>1. Writes.missing
          BY <2>2, <3>2, Backends DEF TypeOK
        <4>2. Len(p.writes) = p.i - 1
          BY <2>1, <2>2, <4>1 DEF Deleting
        <4>3. Len(p.writes) = 0 /\ p.i \in Nat
          BY <2>2 DEF WorkerStates
        <4>. QED BY <2>2, <4>2, <4>3
      <3>. QED BY <3>1, <3>2
    <2>. QED BY <1>1, <2>1, <2>2 DEF Deleting
  <1>. QED BY <1>2, <1>3, <1>4 DEF Batching

(* A message says the same as the request it was made of.                  *)
LEMMA SameRequest ==
    ASSUME NEW q \in Messages, NEW s, NEW r, r = [q EXCEPT !.server = s, !.confirm = TRUE]
    PROVE  /\ r.type = q.type /\ r.persistency = q.persistency /\ r.key = q.key /\ Selected(r) = Selected(q)
           /\ r.lens = q.lens /\ r.id = q.id /\ r.server = s /\ r.confirm
           /\ \A D, F, t, a : Answered(D, F, t, r, a) <=> Answered(D, F, t, q, a)
  <1>1. /\ r.type = q.type /\ r.persistency = q.persistency /\ r.key = q.key /\ Selected(r) = Selected(q)
        /\ r.lens = q.lens /\ r.id = q.id /\ r.server = s /\ r.confirm
    BY DEF Messages, Selected
  <1>2. \A D, F, t, a : Answered(D, F, t, r, a) <=> Answered(D, F, t, q, a)
    BY <1>1 DEF Answered, Effective, MarkOf
  <1>. QED BY <1>1, <1>2

(* Worker w goes from one state to the next; p is the new one.  It keeps   *)
(* its queue, or has answered the first message.                           *)
Goes(w, p) ==
    /\ p \in WorkerStates /\ worker[w].queue # <<>> /\ worker' = [worker EXCEPT ![w] = p]
    /\ UNCHANGED <<backend, client, promised>>
    /\ versions' \in [Servers -> Seq(States)] /\ synced' \in [Servers -> Nat] /\ Grown
    /\ \A s \in Servers : /\ synced'[s] <= Len(versions'[s])
                          /\ \A n \in 1 .. Len(versions'[s]) : Proper(s, versions'[s][n])
                          /\ versions'[s] = versions[s] \/ (Writes.exclusive => lock[s] = w)
    /\ lock' \in [Servers -> Workers \cup {NULL}]
    /\ \A u \in Workers \ {w}, s \in Servers : lock[s] = u => lock'[s] = u
    /\ \/ p.queue = worker[w].queue /\ p.reply = NULL /\ Working(w)'
       \/ /\ p.queue = Tail(worker[w].queue) /\ p.pc = "idle"
          /\ Current(w).confirm =>
                /\ p.reply # NULL /\ p.reply.server = Current(w).server
                /\ Answered(SinceNext(Current(w).id[1], Current(w).server), ForcedNext(Current(w).server),
                            Current(w).server, Current(w), p.reply)
          /\ ~Current(w).confirm => p.reply = NULL

(* The databases, their disks and what was promised.                       *)
LEMMA GoesKept ==
    ASSUME IInv, NEW w \in Workers, NEW p, Goes(w, p)
    PROVE  TypeOK' /\ Kept' /\ Durable'
  <1>1. TypeOK'
    BY Zenon DEF IInv, TypeOK, Goes, Workers, Pool
  <1>2. Kept'
    <2>. SUFFICES ASSUME NEW s \in Servers
                  PROVE  /\ synced'[s] \in 1 .. Len(versions'[s])
                         /\ \A n \in 1 .. Len(versions'[s]) : Proper(s, versions[s][n])'
                         /\ \A c \in Clients : client'[c].since[s] \in 1 .. Len(versions'[s])
      BY DEF Kept
    <2>1. synced'[s] \in 1 .. Len(versions'[s])
      <3>1. synced[s] \in 1 .. Len(versions[s]) /\ Len(versions[s]) \in Nat
        BY DEF IInv, Kept, TypeOK
      <3>2. synced'[s] \in Nat /\ synced'[s] <= Len(versions'[s]) /\ synced[s] <= synced'[s] /\ Len(versions'[s]) \in Nat
        BY DEF Goes, Grown
      <3>. QED BY <3>1, <3>2
    <2>2. \A n \in 1 .. Len(versions'[s]) : Proper(s, versions[s][n])'
      <3>1. UNCHANGED backend /\ \A n \in 1 .. Len(versions'[s]) : Proper(s, versions'[s][n])
        BY DEF Goes
      <3>. QED BY <3>1, Fixed
    <2>3. ASSUME NEW c \in Clients PROVE client'[c].since[s] \in 1 .. Len(versions'[s])
      <3>1. client' = client /\ client[c].since[s] \in 1 .. Len(versions[s])
        BY DEF Goes, IInv, Kept
      <3>. QED BY <3>1, GrownStates DEF Goes, IInv
    <2>. QED BY <2>1, <2>2, <2>3
  <1>3. Durable'
    <2>. SUFFICES ASSUME backend # "gdbm", NEW x \in promised
                  PROVE  x[1] \in Keys /\ \E s \in Servers : Has(ForcedNext(s), x[1], x[2])
      BY DEF Durable, Goes, Has, Forced, ForcedNext
    <2>1. PICK s \in Servers : x[1] \in Keys /\ Has(Forced(s), x[1], x[2])
      BY DEF IInv, Durable
    <2>2. Forced(s) \subseteq ForcedNext(s)
      BY GrownStates DEF Goes, IInv
    <2>. QED BY <2>1, <2>2, MoreStates
  <1>. QED BY <1>1, <1>2, <1>3

(* A sequence without an element is the empty one.                         *)
LEMMA NoElement ==
    ASSUME NEW S, NEW s \in Seq(S), Len(s) = 0
    PROVE  s = <<>>
  BY EmptySeq

(* The other workers stay as they are.                                     *)
LEMMA GoesAlone ==
    ASSUME IInv, NEW w \in Workers, NEW p, Goes(w, p)
    PROVE  /\ worker'[w] = p /\ \A u \in Workers \ {w} : worker'[u] = worker[u]
           /\ client' = client /\ UNCHANGED backend
  BY DEF Goes, IInv, TypeOK

(* Messages and replies: the worker stays with its message, or replies to  *)
(* the client that waits for it.                                           *)
LEMMA GoesConnected ==
    ASSUME IInv, NEW w \in Workers, NEW p, Goes(w, p)
    PROVE  Connected'
  <1>. PICK r, q, t : r = Current(w) /\ q = worker[w].queue /\ t = Tail(q)
    BY Zenon
  <1>1. /\ worker'[w] = p /\ \A u \in Workers \ {w} : worker'[u] = worker[u]
        /\ client' = client /\ UNCHANGED backend
    BY GoesAlone
  <1>2. /\ q \in Seq(Messages) /\ Len(q) \in Nat \ {0} /\ r = q[1] /\ worker[w].reply = NULL
        /\ r.id[1] \in Clients
        /\ r.confirm => Len(q) = 1 /\ Awaited(w, r, client[r.id[1]])
    <2>1. worker[w].queue # <<>>
      BY DEF Goes
    <2>. QED BY <2>1, CurrentMessage
  <1>3. \A m : Sound(m)' = Sound(m)
    BY <1>1, Fixed
  <1>4. \A j \in 1 .. Len(q) :
           Sound(q[j]) /\ (q[j].confirm => j = Len(q) /\ Awaited(w, q[j], client[q[j].id[1]]))
    BY DEF IInv, Connected, Tied
  <1>5. \/ p.queue = q /\ p.reply = NULL
        \/ /\ p.queue = t
           /\ p.reply # NULL <=> r.confirm
           /\ r.confirm => p.reply.server = r.server
    BY DEF Goes
  <1>6. /\ Len(t) = Len(q) - 1 /\ \A j \in 1 .. Len(q) - 1 : t[j] = q[j + 1]
        /\ t \in Seq(Messages)
    BY <1>2, EmptySeq, HeadTailProperties, Zenon
  <1>7. Tied(w, p)'
    <2>1. CASE p.queue = q /\ p.reply = NULL
      <3>1. /\ \A j \in 1 .. Len(q) :
                  /\ Sound(q[j])
                  /\ q[j].confirm => j = Len(q) /\ Awaited(w, q[j], client'[q[j].id[1]])
        BY <1>1, <1>4
      <3>. QED BY <1>1, <1>3, <2>1, <3>1 DEF Tied
    <2>2. CASE p.queue = t /\ (p.reply # NULL <=> r.confirm)
      <3>1. ASSUME NEW j \in 1 .. Len(q) - 1
            PROVE  /\ Sound(q[j + 1]) /\ t[j] = q[j + 1]
                   /\ q[j + 1].confirm => j = Len(q) - 1 /\ Awaited(w, q[j + 1], client'[q[j + 1].id[1]])
        <4>1. j + 1 \in 1 .. Len(q)
          BY <1>2
        <4>2. q[j + 1].confirm => j + 1 = Len(q) /\ Awaited(w, q[j + 1], client[q[j + 1].id[1]])
          BY <1>4, <4>1
        <4>3. Sound(q[j + 1])
          BY <1>4, <4>1
        <4>. QED BY <1>1, <1>2, <1>6, <4>1, <4>2, <4>3
      <3>2. \A j \in 1 .. Len(p.queue) :
                /\ Sound(p.queue[j])
                /\ p.queue[j].confirm => j = Len(p.queue) /\ Awaited(w, p.queue[j], client'[p.queue[j].id[1]])
        <4>. QED BY <1>1, <1>6, <2>2, <3>1
      <3>3. p.reply # NULL => p.queue = <<>> /\ \E c \in Clients : client'[c].conn = w
        <4>1. r.confirm => t = <<>>
          BY <1>2, <1>6, NoElement
        <4>. QED BY <1>1, <1>2, <2>2, <4>1 DEF Awaited
      <3>. QED BY <1>1, <1>3, <3>2, <3>3 DEF Tied
    <2>. QED BY <1>5, <2>1, <2>2
  <1>8. ASSUME NEW u \in Workers, u # w PROVE Tied(u, worker[u])'
    <2>1. Tied(u, worker[u]) /\ worker'[u] = worker[u]
      BY <1>1, <1>8 DEF IInv, Connected
    <2>2. \A j \in 1 .. Len(worker[u].queue) : Sound(worker[u].queue[j])
      BY <1>1, <1>3, <2>1 DEF Tied
    <2>. QED BY <1>1, <1>3, <2>1, <2>2 DEF Tied
  <1>9. ASSUME NEW c \in Clients PROVE Expecting(c, client'[c], worker'[client'[c].conn])
    <2>1. Expecting(c, client[c], worker[client[c].conn]) /\ Asking(c, client[c])
      BY DEF IInv, Connected
    <2>. SUFFICES ASSUME client[c].pc = "wait" PROVE Expecting(c, client[c], worker'[client[c].conn])
      BY <1>1 DEF Expecting
    <2>2. client[c].conn \in Workers
      BY <2>1 DEF Asking, IInv, TypeOK, ClientStates
    <2>3. CASE client[c].conn # w
      BY <1>1, <2>1, <2>2, <2>3
    <2>4. CASE client[c].conn = w
      <3>1. q # <<>> /\ Last(q).confirm /\ Last(q).id[1] = c
        BY <1>2, <2>1, <2>4 DEF Expecting
      <3>2. Last(q) = q[Len(q)]
        BY DEF Last
      <3>3. CASE p.queue = q /\ p.reply = NULL
        BY <1>1, <2>4, <3>1, <3>3 DEF Expecting
      <3>4. CASE p.queue = t /\ r.confirm /\ p.reply # NULL /\ p.reply.server = r.server
        <4>1. r.id[1] = c
          BY <1>2, <3>1, <3>2, <3>4
        <4>. QED BY <1>1, <1>2, <2>4, <3>4, <4>1 DEF Expecting, Awaited
      <3>5. CASE p.queue = t /\ ~r.confirm /\ p.reply = NULL
        <4>1. Len(q) # 1
          BY <1>2, <3>1, <3>2, <3>5
        <4>2. t # <<>> /\ t[Len(t)] = q[Len(q)]
          <5>0. PICK n : n = Len(q)
            BY Zenon
          <5>1. n - 1 \in 1 .. n - 1 /\ n - 1 + 1 = n /\ n - 1 # 0
            <6>1. n \in Nat /\ n # 0 /\ n # 1
              BY <1>2, <4>1, <5>0
            <6>. QED BY <6>1
          <5>. QED BY <1>6, <5>0, <5>1, Zenon
        <4>3. Last(t) = Last(q)
          BY <4>2, Zenon DEF Last
        <4>4. worker'[client[c].conn] = p /\ Last(t).confirm /\ Last(t).id[1] = c
          BY <1>1, <2>4, <3>1, <4>3
        <4>. QED BY <3>5, <4>2, <4>4, Zenon DEF Expecting
      <3>. QED BY <1>5, <3>3, <3>4, <3>5
    <2>. QED BY <2>3, <2>4
  <1>10. \A c \in Clients : Asking(c, client[c])'
    <2>1. \A c \in Clients : Asking(c, client[c])
      BY DEF IInv, Connected
    <2>. QED BY <1>1, <2>1, Fixed
  <1>11. \A c, d \in Clients : client'[c].conn = client'[d].conn /\ client'[c].conn # NULL => c = d
    BY <1>1 DEF IInv, Connected
  <1>. QED BY <1>1, <1>7, <1>8, <1>9, <1>10, <1>11 DEF Connected, Expecting, Workers, Pool

(* What the clients were told stays true, and the reply that is sent is    *)
(* true.                                                                   *)
LEMMA GoesReceived ==
    ASSUME IInv, NEW w \in Workers, NEW p, Goes(w, p), NEW c \in Clients
    PROVE  Received(c)'
  <1>. PICK r, x, u : r = Current(w) /\ x = client[c] /\ u = worker'[x.conn]
    OBVIOUS
  <1>1. /\ worker'[w] = p /\ \A v \in Workers \ {w} : worker'[v] = worker[v]
        /\ client' = client /\ UNCHANGED backend
    BY GoesAlone
  <1>2. Received(c) /\ Asking(c, x) /\ x \in ClientStates
    BY DEF IInv, Connected, TypeOK
  <1>3. \A s \in Servers : Since(c, s) \subseteq SinceNext(c, s) /\ Forced(s) \subseteq ForcedNext(s)
    BY <1>1, GrownStates DEF Goes, IInv
  <1>4. Asked \subseteq Servers /\ \A k \in Keys : Home(k) \in Servers
    BY KeyValueAssumption, Zenon DEF Asked, FirstServer, Home
  <1>5. ASSUME x.pc = "wait", u.reply # NULL
        PROVE  Answered(SinceNext(c, u.reply.server), ForcedNext(u.reply.server), u.reply.server, x.req, u.reply)
    <2>1. x.conn \in Workers /\ x.req # NULL
      BY <1>2, <1>5 DEF Asking, ClientStates
    <2>2. CASE x.conn # w
      <3>1. u = worker[x.conn]
        BY <1>1, <2>1, <2>2
      <3>2. u.reply.server \in Servers
        <4>1. worker[x.conn] \in WorkerStates
          BY <2>1 DEF IInv, TypeOK
        <4>. QED BY <1>5, <3>1, <4>1, Zenon DEF WorkerStates, Replies
      <3>3. Answered(Since(c, u.reply.server), Forced(u.reply.server), u.reply.server, x.req, u.reply)
        BY <1>2, <1>5, <3>1 DEF Received, ReplyTrue, ListsTrue, ResultsTrue
      <3>. QED BY <1>3, <3>2, <3>3, MoreStates
    <2>3. CASE x.conn = w
      <3>1. u = p
        BY <1>1, <2>3
      <3>2. /\ r.confirm /\ p.reply.server = r.server
            /\ Answered(SinceNext(r.id[1], r.server), ForcedNext(r.server), r.server, r, p.reply)
        BY <1>5, <3>1 DEF Goes
      <3>3. /\ r.id[1] \in Clients /\ Awaited(w, r, client[r.id[1]])
        <4>1. worker[w].queue # <<>>
          BY DEF Goes
        <4>. QED BY <3>2, <4>1, CurrentMessage
      <3>4. r.id[1] = c
        <4>1. client[r.id[1]].conn = w /\ client[c].conn = w /\ w # NULL
          BY <2>3, <3>3, KeyValueAssumption DEF Awaited, Workers, Pool
        <4>. QED BY <3>3, <4>1 DEF IInv, Connected
      <3>5. r = [x.req EXCEPT !.server = r.server, !.confirm = TRUE]
        BY <3>3, <3>4 DEF Awaited
      <3>6. x.req \in Messages
        BY <1>2, <2>1 DEF ClientStates
      <3>7. Answered(SinceNext(c, r.server), ForcedNext(r.server), r.server, x.req, p.reply)
        <4>1. \A D, F, s, a : Answered(D, F, s, r, a) <=> Answered(D, F, s, x.req, a)
          <5>1. PICK m, z : m = x.req /\ z = r.server
            OBVIOUS
          <5>2. m \in Messages /\ r = [m EXCEPT !.server = z, !.confirm = TRUE]
            BY <3>5, <3>6, <5>1
          <5>3. \A D, F, s, a : Answered(D, F, s, r, a) <=> Answered(D, F, s, m, a)
            BY <5>2, SameRequest, Zenon
          <5>. QED BY <5>1, <5>3
        <4>2. Answered(SinceNext(c, r.server), ForcedNext(r.server), r.server, r, p.reply)
          BY <3>2, <3>4
        <4>. QED BY <4>1, <4>2, Zenon
      <3>. QED BY <3>1, <3>2, <3>7
    <2>. QED BY <2>2, <2>3
  <1>6. ASSUME x.req # NULL, x.req.type = "ITERATE", x.pc # "idle" \/ x.confirmed, NEW s \in Asked \ x.todo
        PROVE  Listed(SinceNext(c, s), s, Selected(x.req), x.got[s])
    <2>1. Listed(Since(c, s), s, Selected(x.req), x.got[s])
      BY <1>2, <1>6 DEF Received, ReplyTrue, ListsTrue, ResultsTrue
    <2>. QED BY <1>3, <1>4, <2>1, MoreStates
  <1>7. ASSUME Finished(c)
        PROVE  /\ Handed(SinceNext(c, Home(x.req.key)), x.req, x.answer)
               /\ Effective(SinceNext(c, Home(x.req.key)), x.req)
    <2>1. Home(x.req.key) \in Servers
      BY <1>2, <1>4, <1>7 DEF Finished, ClientStates, Messages
    <2>2. /\ Handed(Since(c, Home(x.req.key)), x.req, x.answer)
          /\ Effective(Since(c, Home(x.req.key)), x.req)
      BY <1>2, <1>7 DEF Received, ReplyTrue, ListsTrue, ResultsTrue
    <2>. QED BY <1>3, <2>1, <2>2, MoreStates
  <1>8. ReplyTrue(c)'
    <2>1. \A D, F, s, m, a : Answered(D, F, s, m, a)' = Answered(D, F, s, m, a)
      BY <1>1, Fixed
    <2>2. client'[c] = x /\ worker'[client'[c].conn].reply = u.reply
      BY <1>1
    <2>. QED BY <1>5, <2>1, <2>2, Zenon DEF ReplyTrue, Since, SinceNext, Forced, ForcedNext
  <1>9. ListsTrue(c)'
    <2>1. (\A y : Selected(y)' = Selected(y)) /\ Asked' = Asked /\ \A D, s, m, g : Listed(D, s, m, g)' = Listed(D, s, m, g)
      BY <1>1, Fixed
    <2>2. client'[c] = x
      BY <1>1
    <2>. QED BY <1>6, <2>1, <2>2, Zenon DEF ListsTrue, Since, SinceNext
  <1>10. ResultsTrue(c)'
    <2>1. /\ \A k : Home(k)' = Home(k)
          /\ \A D, m, a : Handed(D, m, a)' = Handed(D, m, a)
          /\ \A D, m : Effective(D, m)' = Effective(D, m)
      BY <1>1, Fixed
    <2>2. client'[c] = x /\ (Finished(c)' = Finished(c))
      BY <1>1 DEF Finished
    <2>. QED BY <1>7, <2>1, <2>2, Zenon DEF ResultsTrue, Since, SinceNext
  <1>. QED BY <1>8, <1>9, <1>10 DEF Received

(* What the workers have done of their messages; only the one that goes on *)
(* changes the databases it depends on.                                    *)
LEMMA GoesWorking ==
    ASSUME IInv, NEW w \in Workers, NEW p, Goes(w, p), NEW u \in Workers
    PROVE  Working(u)'
  <1>1. /\ worker'[w] = p /\ \A v \in Workers \ {w} : worker'[v] = worker[v]
        /\ client' = client /\ UNCHANGED backend
    BY GoesAlone
  <1>2. CASE u = w
    <2>1. CASE Working(w)'
      BY <1>2, <2>1
    <2>2. CASE p.pc = "idle"
      BY <1>1, <1>2, <2>2 DEF Working
    <2>. QED BY <2>1, <2>2 DEF Goes
  <1>3. CASE u # w
    <2>. SUFFICES ASSUME worker[u].pc \in {"op", "iterate"} PROVE Working(u)'
      BY <1>1, <1>3 DEF Working
    <2>. PICK x, r, s, c : x = worker[u] /\ r = Current(u) /\ s = r.server /\ c = r.id[1]
      OBVIOUS
    <2>1. Working(u) /\ worker'[u] = x /\ Current(u)' = r
      BY <1>1, <1>3 DEF IInv, Current
    <2>2. x.queue # <<>>
      BY <2>1 DEF Working, Batching, Listing
    <2>3. s \in Servers /\ c \in Clients /\ x \in WorkerStates
      BY <2>2, CurrentMessage
    <2>4. Since(c, s) \subseteq SinceNext(c, s)
      BY <1>1, <2>3, GrownStates DEF Goes, IInv
    <2>5. lock[s] = u => lock'[s] = u
      BY <1>3, <2>3 DEF Goes
    <2>6. Writes' = Writes /\ Reads' = Reads
      BY <1>1, Fixed
    <2>7. ASSUME x.pc = "op"
          PROVE  Batching(x, r, SinceNext(c, s), Last(versions'[s])) /\ (Writes.exclusive => lock'[s] = u)
      <3>1. Batching(x, r, Since(c, s), Store(s)) /\ (Writes.exclusive => lock[s] = u)
        BY <2>1, <2>7 DEF Working
      <3>2. Writes.exclusive => Last(versions'[s]) = Store(s)
        BY <1>3, <2>3, <3>1 DEF Goes, Store
      <3>. QED BY <2>3, <2>4, <2>5, <3>1, <3>2, BatchGrows DEF IInv
    <2>8. ASSUME x.pc = "iterate"
          PROVE  /\ Listing(x, r, SinceNext(c, s)) /\ (Reads.exclusive => lock'[s] = u)
                 /\ Looked(x, r, client'[c].since[s], Len(versions'[s]))
      <3>1. /\ Listing(x, r, Since(c, s)) /\ (Reads.exclusive => lock[s] = u)
            /\ Looked(x, r, client[c].since[s], Len(versions[s]))
        BY <2>1, <2>8 DEF Working
      <3>2. Len(versions[s]) \in Nat /\ Len(versions'[s]) \in Nat /\ Len(versions[s]) <= Len(versions'[s])
            /\ client[c].since[s] \in Nat
        BY <2>3 DEF Goes, Grown, IInv, TypeOK, ClientStates
      <3>3. Looked(x, r, client'[c].since[s], Len(versions'[s]))
        BY <1>1, <3>1, <3>2 DEF Looked
      <3>. QED BY <2>4, <2>5, <3>1, <3>3, MoreStates
    <2>9. /\ \A y, m, D, d : Batching(y, m, D, d)' = Batching(y, m, D, d)
          /\ \A y, m, D : Listing(y, m, D)' = Listing(y, m, D)
      BY <1>1, Fixed
    <2>. QED BY <2>1, <2>6, <2>7, <2>8, <2>9 DEF Working, Since, SinceNext, Store
  <1>. QED BY <1>2, <1>3

(* So the invariant holds in the next state.                               *)
LEMMA GoesOn ==
    ASSUME IInv, NEW w \in Workers, NEW p, Goes(w, p)
    PROVE  IInv'
  <1>1. TypeOK' /\ Kept' /\ Durable' /\ Connected'
    BY GoesKept, GoesConnected
  <1>2. \A c \in Clients : Received(c)'
    BY GoesReceived
  <1>3. \A u \in Workers : Working(u)'
    BY GoesWorking
  <1>. QED BY <1>1, <1>2, <1>3 DEF IInv, Workers, Pool

-----------------------------------------------------------------------------
(* The steps of a batch.                                                   *)

(* A worker that does not touch the databases and the locks of the others. *)
LEMMA Quietly ==
    ASSUME IInv, NEW w \in Workers, NEW p \in WorkerStates, worker[w].queue # <<>>,
           worker' = [worker EXCEPT ![w] = p], p.queue = worker[w].queue, p.reply = NULL,
           UNCHANGED <<backend, versions, synced, client, promised>>,
           lock' \in [Servers -> Workers \cup {NULL}],
           \A u \in Workers \ {w}, s \in Servers : lock[s] = u => lock'[s] = u,
           Working(w)'
    PROVE  Goes(w, p)
  <1>1. versions' \in [Servers -> Seq(States)] /\ synced' \in [Servers -> Nat] /\ Grown
    <2>1. \A s \in Servers : Len(versions[s]) \in Nat /\ synced[s] \in Nat
      BY DEF IInv, TypeOK
    <2>. QED BY <2>1 DEF IInv, TypeOK, Grown
  <1>2. \A s \in Servers : /\ synced'[s] <= Len(versions'[s])
                           /\ \A n \in 1 .. Len(versions'[s]) : Proper(s, versions'[s][n])
    BY DEF IInv, Kept
  <1>. QED BY <1>1, <1>2 DEF Goes

(* Taking the lock of a server does not take it from another worker.       *)
LEMMA EnterKeeps ==
    ASSUME IInv, NEW w \in Workers, NEW x \in BOOLEAN, Current(w).server \in Servers, Enter(w, x)
    PROVE  /\ lock' \in [Servers -> Workers \cup {NULL}]
           /\ \A u \in Workers \ {w}, s \in Servers : lock[s] = u => lock'[s] = u
           /\ x => lock'[Current(w).server] = w
  <1>1. \A u \in Workers : u # NULL
    BY KeyValueAssumption DEF Workers, Pool
  <1>. QED BY <1>1, Zenon DEF Enter, IInv, TypeOK

(* Nor does giving it back.                                                *)
LEMMA LeaveKeeps ==
    ASSUME IInv, NEW w \in Workers, Current(w).server \in Servers, Leave(w)
    PROVE  /\ lock' \in [Servers -> Workers \cup {NULL}]
           /\ \A u \in Workers \ {w}, s \in Servers : lock[s] = u => lock'[s] = u
  BY DEF Leave, IInv, TypeOK

(* A sequence over a set is one over a larger set.                         *)
LEMMA SeqMore ==
    ASSUME NEW S, NEW T, S \subseteq T, NEW s \in Seq(S)
    PROVE  s \in Seq(T)
  <1>1. \A j \in 1 .. Len(s) : s[j] \in T
    BY ElementOfSeq
  <1>2. Len(s) \in Nat /\ s = [j \in 1 .. Len(s) |-> s[j]]
    BY LenProperties
  <1>. QED BY <1>1, <1>2

(* There is an answer to begin with.                                       *)
LEMMA NoAnswerYet == NoAnswer \in Answers /\ AllFound(NoAnswer) /\ NoAnswer.values = <<>>
  BY DEF NoAnswer, Answers, AllFound

(* The present state of a database is one since any request.               *)
LEMMA StoreSince ==
    ASSUME IInv, NEW s \in Servers, NEW c \in Clients
    PROVE  /\ Len(versions[s]) \in Nat /\ Len(versions[s]) # 0 /\ versions[s] \in Seq(States)
           /\ Store(s) = versions[s][Len(versions[s])]
           /\ Store(s) \in States /\ Proper(s, Store(s)) /\ Store(s) \in Since(c, s)
  <1>. PICK n : n = Len(versions[s])
    BY Zenon
  <1>1. versions[s] \in Seq(States) /\ n \in Nat /\ synced[s] \in 1 .. n /\ client[c].since[s] \in 1 .. n
    BY DEF IInv, TypeOK, Kept
  <1>2. n # 0 /\ n \in 1 .. n /\ n \in client[c].since[s] .. n
    BY <1>1
  <1>3. versions[s][n] \in States
    BY <1>1, <1>2, ElementOfSeq
  <1>. QED BY <1>1, <1>2, <1>3 DEF Store, Last, Since, IInv, Kept

(* What is to be shown of the worker that goes on with message r.          *)
LEMMA WorkingNext ==
    ASSUME NEW w \in Workers, NEW p, NEW r, worker'[w] = p, p.queue = worker[w].queue, r = Current(w),
           UNCHANGED backend,
           p.pc = "op" => /\ Batching(p, r, SinceNext(r.id[1], r.server), Last(versions'[r.server]))
                          /\ Writes.exclusive => lock'[r.server] = w,
           p.pc = "iterate" => /\ Listing(p, r, SinceNext(r.id[1], r.server))
                               /\ Reads.exclusive => lock'[r.server] = w
                               /\ Looked(p, r, client'[r.id[1]].since[r.server], Len(versions'[r.server]))
    PROVE  Working(w)'
  <1>1. /\ \A y, m, D, d : Batching(y, m, D, d)' = Batching(y, m, D, d)
        /\ \A y, m, D : Listing(y, m, D)' = Listing(y, m, D)
        /\ Writes' = Writes /\ Reads' = Reads
    BY Fixed
  <1>2. Current(w)' = r
    BY DEF Current
  <1>. QED BY <1>1, <1>2 DEF Working, Since, SinceNext, Store

(* A batch has nothing done when it starts.                                *)
LEMMA BatchStartKeeps ==
    ASSUME IInv, NEW w \in Workers, BatchStart(w)
    PROVE  IInv'
  <1>. DEFINE p == [worker[w] EXCEPT !.pc = "op", !.i = 1, !.writes = <<>>, !.answer = NoAnswer]
  <1>. PICK r : r = Current(w)
    OBVIOUS
  <1>1. worker[w].queue # <<>> /\ r.type # "ITERATE" /\ Enter(w, Writes.exclusive)
    BY DEF BatchStart, Busy
  <1>2. worker[w] \in WorkerStates /\ r \in Messages /\ r.server \in Servers /\ worker[w].reply = NULL
    BY <1>1, CurrentMessage
  <1>3. /\ p \in WorkerStates /\ worker' = [worker EXCEPT ![w] = p] /\ p.queue = worker[w].queue
        /\ p.reply = NULL /\ p.pc = "op" /\ p.i = 1 /\ p.writes = <<>> /\ p.answer = NoAnswer
    <2>1. p \in WorkerStates
      <3>. HIDE DEF NoAnswer
      <3>1. \A x \in WorkerStates, a \in Answers :
               [x EXCEPT !.pc = "op", !.i = 1, !.writes = <<>>, !.answer = a] \in WorkerStates
        <4>. SUFFICES ASSUME NEW x \in WorkerStates, NEW a \in Answers
                      PROVE  [x EXCEPT !.pc = "op", !.i = 1, !.writes = <<>>, !.answer = a] \in WorkerStates
          OBVIOUS
        <4>. DEFINE WS == Seq([key : Keys, value : Values \cup {NULL}])
        <4>1. <<>> \in WS
          OBVIOUS
        <4>2. x \in [queue : Seq(Messages), pc : {"idle", "op", "iterate"}, i : Nat, writes : WS,
                     answer : Answers, cursor : SUBSET Pairs, reply : Replies \cup {NULL}]
          BY DEF WorkerStates
        <4>. HIDE DEF WS
        <4>3. [x EXCEPT !.pc = "op", !.i = 1, !.writes = <<>>, !.answer = a] \in
                 [queue : Seq(Messages), pc : {"idle", "op", "iterate"}, i : Nat, writes : WS,
                     answer : Answers, cursor : SUBSET Pairs, reply : Replies \cup {NULL}]
          BY <4>1, <4>2, Zenon
        <4>. QED BY <4>3 DEF WorkerStates, WS
      <3>. QED BY <1>2, <3>1, NoAnswerYet, Zenon
    <2>2. p.queue = worker[w].queue /\ p.reply = NULL /\ p.pc = "op" /\ p.i = 1 /\ p.writes = <<>> /\ p.answer = NoAnswer
      BY <1>2 DEF WorkerStates
    <2>. QED BY <2>1, <2>2, Zenon DEF BatchStart
  <1>4. worker'[w] = p
    BY <1>3 DEF IInv, TypeOK
  <1>5. /\ lock' \in [Servers -> Workers \cup {NULL}]
        /\ \A u \in Workers \ {w}, s \in Servers : lock[s] = u => lock'[s] = u
        /\ Writes.exclusive => lock'[r.server] = w
    <2>1. Writes.exclusive \in BOOLEAN
      BY Backends DEF IInv, TypeOK
    <2>. QED BY <1>1, <1>2, <2>1, EnterKeeps
  <1>. HIDE DEF p
  <1>6. 1 \in 1 .. Len(r.lens) + 1
    BY <1>2 DEF Messages
  <1>7. AllFound(p.answer) /\ p.answer.values = <<>>
    BY <1>3, NoAnswerYet
  <1>8. ASSUME NEW D, NEW d PROVE Batching(p, r, D, d)
    <2>1. Putting(p, r, D) /\ Deleting(p, r, D, d) /\ Getting(p, r, D)
      BY <1>3, <1>7 DEF Putting, Deleting, Getting, Known
    <2>. QED BY <1>1, <1>3, <1>6, <2>1 DEF Batching
  <1>9. Working(w)'
    <2>1. /\ Batching(p, r, SinceNext(r.id[1], r.server), Last(versions'[r.server]))
          /\ Writes.exclusive => lock'[r.server] = w
          /\ UNCHANGED backend
      BY <1>5, <1>8 DEF BatchStart
    <2>. QED BY <1>3, <1>4, <2>1, WorkingNext
  <1>10. Goes(w, p)
    BY <1>1, <1>3, <1>5, <1>9, Quietly, Zenon DEF BatchStart
  <1>. QED BY <1>10, GoesOn

(* A get adds the value the key has now.                                   *)
LEMMA OperationGetKeeps ==
    ASSUME IInv, NEW w \in Workers, OperationGet(w)
    PROVE  IInv'
  <1>. PICK r, s, c, v, x : /\ r = Current(w) /\ s = r.server /\ c = r.id[1] /\ v = Store(s)[r.key]
                            /\ x = worker[w]
    OBVIOUS
  <1>. DEFINE a == [ret |-> x.answer.ret /\ v # NULL, values |-> Append(x.answer.values, v), pairs |-> {}]
              p == [x EXCEPT !.i = @ + 1, !.answer = a]
  <1>1. x.pc = "op" /\ x.i <= Len(r.lens) /\ r.type = "GET" /\ Working(w)
    BY DEF OperationGet, OpCount, IInv
  <1>2. Batching(x, r, Since(c, s), Store(s)) /\ (Writes.exclusive => lock[s] = w)
    BY <1>1 DEF Working
  <1>3. x.queue # <<>> /\ x.i \in 1 .. Len(r.lens) + 1 /\ Getting(x, r, Since(c, s))
    BY <1>1, <1>2 DEF Batching
  <1>4. x \in WorkerStates /\ r \in Messages /\ s \in Servers /\ x.reply = NULL /\ c \in Clients
    BY <1>3, CurrentMessage
  <1>5. Store(s) \in States /\ Store(s) \in Since(c, s)
    BY <1>4, StoreSince
  <1>6. v \in Values \cup {NULL}
    BY <1>4, <1>5 DEF States, Messages
  <1>. PICK vs, ws : vs = x.answer.values /\ ws = Append(vs, v)
    BY Zenon
  <1>7. /\ vs \in Seq(Values \cup {NULL}) /\ Len(vs) = x.i - 1 /\ AllFound(x.answer) /\ x.writes = <<>>
        /\ r.confirm => Known(Since(c, s), r.key, vs)
    BY <1>3 DEF Getting
  <1>8. /\ ws \in Seq(Values \cup {NULL}) /\ Len(ws) = Len(vs) + 1 /\ Len(vs) \in Nat
        /\ \A j \in 1 .. Len(vs) : ws[j] = vs[j]
        /\ ws[Len(vs) + 1] = v
    BY <1>6, <1>7, AppendProperties
  <1>9. \A j \in 1 .. Len(ws) : j \in 1 .. Len(vs) \/ j = Len(vs) + 1
    BY <1>8
  <1>10. \A j \in 1 .. Len(vs) : j \in 1 .. Len(ws)
    BY <1>8
  <1>11. Len(vs) + 1 \in 1 .. Len(ws)
    BY <1>8
  <1>12. AllFound(a)
    <2>1. a.values = ws /\ (a.ret <=> x.answer.ret /\ v # NULL)
      BY Zenon
    <2>2. x.answer.ret <=> \A j \in 1 .. Len(vs) : vs[j] # NULL
      BY <1>7 DEF AllFound
    <2>3. (\A j \in 1 .. Len(ws) : ws[j] # NULL) <=> (\A j \in 1 .. Len(vs) : vs[j] # NULL) /\ v # NULL
      BY <1>8, <1>9, <1>10, <1>11
    <2>. HIDE DEF a
    <2>. QED BY <2>1, <2>2, <2>3, Zenon DEF AllFound
  <1>13. r.confirm => Known(Since(c, s), r.key, ws)
    BY <1>5, <1>7, <1>8, <1>9 DEF Known
  <1>14. ws \in Seq(Values \cup {NULL} \cup Fetched)
    <2>1. Values \cup {NULL} \subseteq Values \cup {NULL} \cup Fetched
      OBVIOUS
    <2>. QED BY <1>8, <2>1, SeqMore
  <1>15. /\ p \in WorkerStates /\ worker' = [worker EXCEPT ![w] = p] /\ p.queue = x.queue /\ p.reply = NULL
         /\ p.pc = "op" /\ p.i = x.i + 1 /\ p.writes = <<>> /\ p.answer = a /\ a.values = ws /\ x.i \in Nat
    <2>1. a \in Answers
      BY <1>4, <1>14 DEF WorkerStates, Answers
    <2>2. worker' = [worker EXCEPT ![w] = p]
      BY Zenon DEF OperationGet
    <2>. HIDE DEF a
    <2>3. x.i \in Nat /\ x.i + 1 \in Nat
      BY <1>4 DEF WorkerStates
    <2>4. p \in WorkerStates /\ p.queue = x.queue /\ p.reply = NULL /\ p.pc = "op" /\ p.i = x.i + 1 /\ p.answer = a
      BY <1>1, <1>4, <2>1, <2>3, Zenon DEF WorkerStates
    <2>5. p.writes = <<>>
      BY <1>4, <1>7 DEF WorkerStates
    <2>. QED BY <2>2, <2>3, <2>4, <2>5, Zenon DEF a
  <1>16. worker'[w] = p
    BY <1>15 DEF IInv, TypeOK
  <1>. HIDE DEF p, a
  <1>17. SinceNext(c, s) = Since(c, s) /\ UNCHANGED <<backend, versions, synced, lock, client, promised>>
    BY DEF OperationGet, SinceNext, Since
  <1>18. Batching(p, r, Since(c, s), Store(s))
    <2>1. Getting(p, r, Since(c, s))
      BY <1>7, <1>8, <1>12, <1>13, <1>15 DEF Getting
    <2>2. p.i \in 1 .. Len(r.lens) + 1
      BY <1>1, <1>3, <1>4, <1>15 DEF Messages
    <2>. QED BY <1>1, <1>3, <1>15, <2>1, <2>2 DEF Batching
  <1>19. Working(w)'
    <2>1. Last(versions'[s]) = Store(s) /\ lock' = lock
      BY <1>17 DEF Store
    <2>. QED BY <1>2, <1>15, <1>16, <1>17, <1>18, <2>1, WorkingNext
  <1>20. Goes(w, p)
    <2>1. lock' \in [Servers -> Workers \cup {NULL}]
      BY <1>17 DEF IInv, TypeOK
    <2>. QED BY <1>3, <1>15, <1>17, <1>19, <2>1, Quietly, Zenon
  <1>. QED BY <1>20, GoesOn

(* The mark of a value: whose request wrote it, which of his, and where in *)
(* its list.                                                               *)
LEMMA Triple ==
    ASSUME NEW c, NEW n, NEW i, NEW a, a = <<c, n>>, NEW b, b = <<c, n, i>>
    PROVE  Append(a, i) = b
  <1>. DEFINE S == {c, n, i}
  <1>1. a \in Seq(S) /\ Len(a) = 2 /\ a[1] = c /\ a[2] = n
    OBVIOUS
  <1>2. b \in Seq(S) /\ Len(b) = 3 /\ b[1] = c /\ b[2] = n /\ b[3] = i
    OBVIOUS
  <1>. PICK u : u = Append(a, i)
    OBVIOUS
  <1>3. u \in Seq(S) /\ Len(u) = 3 /\ u[1] = c /\ u[2] = n /\ u[3] = i
    <2>1. /\ Append(a, i) \in Seq(S) /\ Len(Append(a, i)) = Len(a) + 1
          /\ \A j \in 1 .. Len(a) : Append(a, i)[j] = a[j]
          /\ Append(a, i)[Len(a) + 1] = i
      BY <1>1, AppendProperties
    <2>. QED BY <1>1, <2>1
  <1>4. \A j \in 1 .. 3 : j = 1 \/ j = 2 \/ j = 3
    OBVIOUS
  <1>. HIDE DEF S
  <1>5. u = b
    <2>1. Len(u) = Len(b) /\ \A j \in 1 .. Len(u) : u[j] = b[j]
      BY ONLY <1>2, <1>3, <1>4
    <2>. QED BY ONLY <1>2, <1>3, <2>1, SeqEqual
  <1>. QED BY <1>5, Zenon

(* A mark is a triple.                                                     *)
LEMMA Marks ==
    ASSUME NEW id \in Clients \X Nat, NEW i \in Nat
    PROVE  Append(id, i) \in Clients \X Nat \X Nat
  <1>1. PICK c \in Clients, n \in Nat : id = <<c, n>>
    OBVIOUS
  <1>. PICK b : b = <<c, n, i>>
    BY Zenon
  <1>2. Append(id, i) = b
    BY ONLY <1>1, b = <<c, n, i>>, Triple, Zenon
  <1>. QED BY <1>2

(* The new state of a database after a write of v for key k.               *)
LEMMA StateWritten ==
    ASSUME IInv, NEW s \in Servers, NEW d \in States, Proper(s, d), NEW k \in Keys, Home(k) = s,
           NEW v \in Values \cup {NULL}, Writes.at = "execute" /\ v # NULL => v.last
    PROVE  /\ [d EXCEPT ![k] = v] \in States /\ Proper(s, [d EXCEPT ![k] = v])
           /\ [d EXCEPT ![k] = v][k] = v
  BY DEF States, Proper

(* Database s goes on with the states ds.                                  *)
LEMMA Continued ==
    ASSUME IInv, NEW s \in Servers, NEW ds \in Seq(States),
           versions' = [versions EXCEPT ![s] = @ \o ds],
           \A n \in 1 .. Len(ds) : Proper(s, ds[n]),
           synced' \in [Servers -> Nat], \A t \in Servers : synced[t] <= synced'[t],
           \A t \in Servers : synced'[t] <= Len(versions'[t])
    PROVE  /\ versions' \in [Servers -> Seq(States)] /\ Grown
           /\ \A t \in Servers : /\ \A n \in 1 .. Len(versions'[t]) : Proper(t, versions'[t][n])
                                 /\ t # s => versions'[t] = versions[t]
           /\ Len(versions'[s]) = Len(versions[s]) + Len(ds)
           /\ \A n \in 1 .. Len(ds) : versions'[s][Len(versions[s]) + n] = ds[n]
           /\ \A c \in Clients : client' = client => \A n \in 1 .. Len(ds) : ds[n] \in SinceNext(c, s)
  <1>. PICK vs, m, n : vs = versions[s] /\ m = Len(vs) /\ n = Len(ds)
    BY Zenon
  <1>1. vs \in Seq(States) /\ m \in Nat /\ n \in Nat /\ versions \in [Servers -> Seq(States)]
    BY DEF IInv, TypeOK
  <1>2. /\ vs \o ds \in Seq(States) /\ Len(vs \o ds) = m + n
        /\ \A j \in 1 .. m + n : (vs \o ds)[j] = IF j <= m THEN vs[j] ELSE ds[j - m]
    BY <1>1, ConcatProperties
  <1>3. versions'[s] = vs \o ds /\ \A t \in Servers : t # s => versions'[t] = versions[t]
    BY <1>1
  <1>4. versions' \in [Servers -> Seq(States)]
    BY <1>1, <1>2
  <1>5. \A j \in 1 .. m : versions'[s][j] = vs[j]
    <2>1. \A j \in 1 .. m : j \in 1 .. m + n /\ j <= m
      BY <1>1
    <2>. QED BY <1>2, <1>3, <2>1
  <1>6. \A j \in 1 .. n : versions'[s][m + j] = ds[j]
    <2>1. \A j \in 1 .. n : m + j \in 1 .. m + n /\ ~(m + j <= m) /\ (m + j) - m = j
      BY <1>1
    <2>. QED BY <1>2, <1>3, <2>1
  <1>7. Grown
    <2>1. \A t \in Servers : Len(versions[t]) \in Nat
      BY <1>1
    <2>2. m <= m + n
      BY <1>1
    <2>. QED BY <1>2, <1>3, <1>5, <2>1, <2>2 DEF Grown
  <1>8. \A t \in Servers : \A j \in 1 .. Len(versions'[t]) : Proper(t, versions'[t][j])
    <2>1. \A t \in Servers : \A j \in 1 .. Len(versions[t]) : Proper(t, versions[t][j])
      BY DEF IInv, Kept
    <2>2. ASSUME NEW j \in 1 .. m + n PROVE Proper(s, versions'[s][j])
      <3>1. CASE j <= m
        <4>1. j \in 1 .. m
          BY <1>1, <3>1
        <4>. QED BY <1>5, <2>1, <4>1
      <3>2. CASE ~(j <= m)
        <4>1. j - m \in 1 .. n /\ j = m + (j - m)
          BY <1>1, <3>2
        <4>. QED BY <1>6, <4>1, Zenon
      <3>. QED BY <3>1, <3>2
    <2>. QED BY <1>2, <1>3, <2>1, <2>2
  <1>9. ASSUME NEW c \in Clients, client' = client, NEW j \in 1 .. n PROVE ds[j] \in SinceNext(c, s)
    <2>1. client'[c].since[s] \in 1 .. m
      BY <1>9 DEF IInv, Kept
    <2>2. m + j \in client'[c].since[s] .. m + n
      BY <1>1, <2>1
    <2>. QED BY <1>2, <1>3, <1>6, <2>2, Zenon DEF SinceNext
  <1>. QED BY <1>2, <1>3, <1>4, <1>6, <1>7, <1>8, <1>9

(* What a write needs of worker w and of the value v.                      *)
Writing(w, v) ==
    /\ worker[w].pc = "op" /\ worker[w].i <= Len(Current(w).lens)
    /\ Current(w).type \in {"PUT", "DELETE"} /\ v \in Values \cup {NULL}
    /\ Current(w).type = "PUT" => /\ v # NULL /\ v.by = Append(Current(w).id, worker[w].i)
                                  /\ v.last <=> worker[w].i = Len(Current(w).lens)
    /\ Current(w).type = "DELETE" => v = NULL
    /\ UNCHANGED <<backend, synced, lock, client, promised>>

(* A write that reaches the database at once.                              *)
LEMMA WriteOnce ==
    ASSUME IInv, NEW w \in Workers, NEW v, Writing(w, v), Write(w, v), Writes.at = "once"
    PROVE  IInv'
  <1>. PICK r, s, c, x, N : /\ r = Current(w) /\ s = r.server /\ c = r.id[1] /\ x = worker[w]
                            /\ N = [Store(s) EXCEPT ![r.key] = v]
    BY Zenon
  <1>. DEFINE p == [x EXCEPT !.i = @ + 1]
  <1>1. x.pc = "op" /\ x.i <= Len(r.lens) /\ r.type \in {"PUT", "DELETE"} /\ Working(w)
    BY DEF Writing, IInv
  <1>2. Batching(x, r, Since(c, s), Store(s)) /\ (Writes.exclusive => lock[s] = w)
    BY <1>1 DEF Working
  <1>3. x.queue # <<>> /\ x.i \in 1 .. Len(r.lens) + 1 /\ x.writes = <<>>
    BY <1>2 DEF Batching
  <1>4. x \in WorkerStates /\ r \in Messages /\ s \in Servers /\ x.reply = NULL /\ c \in Clients /\ Sound(r)
    BY <1>3, CurrentMessage
  <1>5. r.key \in Keys /\ Home(r.key) = s
    BY <1>1, <1>4 DEF Messages, Sound
  <1>6. Store(s) \in States /\ Proper(s, Store(s))
    BY <1>4, StoreSince
  <1>7. N \in States /\ Proper(s, N) /\ N[r.key] = v
    BY <1>4, <1>5, <1>6, StateWritten DEF Writing
  <1>8. versions' = [versions EXCEPT ![s] = @ \o <<N>>]
    <2>1. versions' = [versions EXCEPT ![s] = Append(@, N)]
      BY DEF Write
    <2>2. Append(versions[s], N) = versions[s] \o <<N>>
      <3>1. versions[s] \in Seq(States)
        BY <1>4, StoreSince
      <3>. QED BY <1>7, <3>1, AppendIsConcat
    <2>. QED BY <2>1, <2>2, Zenon
  <1>9. <<N>> \in Seq(States) /\ Len(<<N>>) = 1 /\ \A n \in 1 .. 1 : <<N>>[n] = N
    BY <1>7
  <1>10. synced' = synced /\ synced \in [Servers -> Nat] /\ \A t \in Servers : synced[t] <= Len(versions[t])
    BY DEF Writing, IInv, TypeOK, Kept
  <1>11. \A t \in Servers : synced[t] <= synced'[t] /\ synced'[t] <= Len(versions'[t])
    <2>1. \A t \in Servers : synced[t] \in Nat /\ Len(versions[t]) \in Nat /\ Len(versions[t]) <= Len(versions'[t])
      <3>. SUFFICES ASSUME NEW t \in Servers
                    PROVE  synced[t] \in Nat /\ Len(versions[t]) \in Nat /\ Len(versions[t]) <= Len(versions'[t])
        OBVIOUS
      <3>1. synced[t] \in Nat /\ Len(versions[t]) \in Nat /\ versions[s] \in Seq(States)
            /\ versions \in [Servers -> Seq(States)]
        BY <1>4 DEF IInv, TypeOK
      <3>2. CASE t = s
        <4>1. Len(versions[s] \o <<N>>) = Len(versions[s]) + 1
          BY <1>9, <3>1, ConcatProperties
        <4>. QED BY <1>8, <3>1, <3>2, <4>1
      <3>3. CASE t # s
        BY <1>8, <3>1, <3>3
      <3>. QED BY <3>2, <3>3
    <2>2. \A t \in Servers : Len(versions'[t]) \in Nat
      BY <1>8, <1>9, ConcatProperties DEF IInv, TypeOK
    <2>. QED BY <1>10, <2>1, <2>2
  <1>12. /\ versions' \in [Servers -> Seq(States)] /\ Grown
         /\ \A t \in Servers : \A n \in 1 .. Len(versions'[t]) : Proper(t, versions'[t][n])
         /\ N \in SinceNext(c, s)
    <2>1. synced' \in [Servers -> Nat] /\ client' = client /\ \A n \in 1 .. Len(<<N>>) : Proper(s, <<N>>[n])
      BY <1>7, <1>9, <1>10, Zenon DEF Writing
    <2>2. PICK ds : ds = <<N>>
      BY Zenon
    <2>3. 1 \in 1 .. Len(ds) /\ ds[1] = N /\ ds \in Seq(States)
      BY <1>9, <2>2
    <2>4. versions' = [versions EXCEPT ![s] = @ \o ds] /\ \A n \in 1 .. Len(ds) : Proper(s, ds[n])
      BY <1>8, <2>1, <2>2, Zenon
    <2>5. /\ versions' \in [Servers -> Seq(States)] /\ Grown
          /\ \A t \in Servers : /\ \A n \in 1 .. Len(versions'[t]) : Proper(t, versions'[t][n])
                                /\ t # s => versions'[t] = versions[t]
          /\ \A d \in Clients : client' = client => \A n \in 1 .. Len(ds) : ds[n] \in SinceNext(d, s)
      BY <1>4, <1>11, <2>1, <2>3, <2>4, Continued, Zenon
    <2>. QED BY <1>4, <2>1, <2>3, <2>5
  <1>13. /\ p \in WorkerStates /\ worker' = [worker EXCEPT ![w] = p] /\ p.queue = x.queue /\ p.reply = NULL
         /\ p.pc = "op" /\ p.i = x.i + 1 /\ p.writes = <<>> /\ x.i \in Nat
    <2>1. x.i \in Nat /\ x.i + 1 \in Nat
      BY <1>4 DEF WorkerStates
    <2>2. worker' = [worker EXCEPT ![w] = p]
      BY DEF Write
    <2>. QED BY <1>1, <1>3, <1>4, <2>1, <2>2, Zenon DEF WorkerStates
  <1>14. worker'[w] = p
    BY <1>13 DEF IInv, TypeOK
  <1>. HIDE DEF p
  <1>15. ASSUME NEW d PROVE Batching(p, r, SinceNext(c, s), d)
    <2>1. p.i - 1 = x.i
      BY <1>13
    <2>2. r.type = "PUT" => Has(SinceNext(c, s), r.key, Append(r.id, x.i))
      BY <1>7, <1>12, Zenon DEF Has, Writing
    <2>3. r.type = "DELETE" => Lacks(SinceNext(c, s), r.key)
      BY <1>7, <1>12, Zenon DEF Lacks, Writing
    <2>4. p.i \in 1 .. Len(r.lens) + 1
      BY <1>1, <1>3, <1>4, <1>13 DEF Messages
    <2>5. r.type = "PUT" => Putting(p, r, SinceNext(c, s))
      BY <1>13, <2>1, <2>2 DEF Putting
    <2>6. r.type = "DELETE" => Deleting(p, r, SinceNext(c, s), d)
      BY <1>13, <2>3 DEF Deleting
    <2>. QED BY <1>1, <1>3, <1>13, <2>4, <2>5, <2>6 DEF Batching
  <1>16. Working(w)'
    <2>1. UNCHANGED <<backend, lock>>
      BY DEF Writing
    <2>. QED BY <1>2, <1>13, <1>14, <1>15, <2>1, WorkingNext
  <1>17. Goes(w, p)
    <2>1. ~Writes.exclusive \/ lock[s] = w
      BY <1>2
    <2>2. \A t \in Servers : versions'[t] = versions[t] \/ (Writes.exclusive => lock[t] = w)
      BY <1>8, <2>1 DEF IInv, TypeOK
    <2>3. lock' = lock /\ lock \in [Servers -> Workers \cup {NULL}]
      BY DEF Writing, IInv, TypeOK
    <2>. QED BY <1>3, <1>10, <1>11, <1>12, <1>13, <1>16, <2>2, <2>3 DEF Goes, Writing
  <1>. QED BY <1>17, GoesOn

(* A longer sequence of writes.                                            *)
LEMMA OneMoreWrite ==
    ASSUME NEW S, NEW ws \in Seq(S), NEW y \in S
    PROVE  /\ Append(ws, y) \in Seq(S) /\ Append(ws, y) # <<>> /\ Len(ws) \in Nat
           /\ Len(Append(ws, y)) = Len(ws) + 1
           /\ \A j \in 1 .. Len(Append(ws, y)) :
                 \/ j \in 1 .. Len(ws) /\ Append(ws, y)[j] = ws[j]
                 \/ j = Len(ws) + 1 /\ Append(ws, y)[j] = y
  <1>1. /\ Append(ws, y) \in Seq(S) /\ Append(ws, y) # <<>> /\ Len(Append(ws, y)) = Len(ws) + 1
        /\ \A j \in 1 .. Len(ws) : Append(ws, y)[j] = ws[j]
        /\ Append(ws, y)[Len(ws) + 1] = y
    BY AppendProperties
  <1>2. Len(ws) \in Nat
    OBVIOUS
  <1>3. \A j \in 1 .. Len(ws) + 1 : j \in 1 .. Len(ws) \/ j = Len(ws) + 1
    BY <1>2
  <1>. QED BY <1>1, <1>2, <1>3

(* A write into the batch.                                                 *)
LEMMA WriteLater ==
    ASSUME IInv, NEW w \in Workers, NEW v, Writing(w, v), Write(w, v), Writes.at # "once"
    PROVE  IInv'
  <1>. PICK r, s, c, x, y, ws : /\ r = Current(w) /\ s = r.server /\ c = r.id[1] /\ x = worker[w]
                                /\ y = [key |-> r.key, value |-> v] /\ ws = Append(x.writes, y)
    BY Zenon
  <1>. DEFINE p == [x EXCEPT !.i = @ + 1, !.writes = ws]
  <1>1. x.pc = "op" /\ x.i <= Len(r.lens) /\ r.type \in {"PUT", "DELETE"} /\ Working(w)
    BY DEF Writing, IInv
  <1>2. Batching(x, r, Since(c, s), Store(s)) /\ (Writes.exclusive => lock[s] = w)
    BY <1>1 DEF Working
  <1>3. /\ x.queue # <<>> /\ x.i \in 1 .. Len(r.lens) + 1
        /\ r.type = "PUT" => Putting(x, r, Since(c, s))
        /\ r.type = "DELETE" => Deleting(x, r, Since(c, s), Store(s))
    BY <1>2 DEF Batching
  <1>4. x \in WorkerStates /\ r \in Messages /\ s \in Servers /\ x.reply = NULL /\ c \in Clients
    BY <1>3, CurrentMessage
  <1>5. /\ x.writes \in Seq([key : Keys, value : Values \cup {NULL}])
        /\ y \in [key : Keys, value : Values \cup {NULL}] /\ x.i \in Nat /\ x.i + 1 \in Nat
        /\ y.key = r.key /\ y.value = v
    BY <1>4 DEF WorkerStates, Messages, Writing
  <1>6. /\ ws \in Seq([key : Keys, value : Values \cup {NULL}]) /\ ws # <<>> /\ Len(x.writes) \in Nat
        /\ Len(ws) = Len(x.writes) + 1
        /\ \A j \in 1 .. Len(ws) : \/ j \in 1 .. Len(x.writes) /\ ws[j] = x.writes[j]
                                   \/ j = Len(x.writes) + 1 /\ ws[j] = y
    BY <1>5, OneMoreWrite
  <1>7. /\ p \in WorkerStates /\ worker' = [worker EXCEPT ![w] = p] /\ p.queue = x.queue /\ p.reply = NULL
        /\ p.pc = "op" /\ p.i = x.i + 1 /\ p.writes = ws
    <2>1. worker' = [worker EXCEPT ![w] = p]
      BY Zenon DEF Write
    <2>. DEFINE WS == Seq([key : Keys, value : Values \cup {NULL}])
    <2>2. ws \in WS /\ x \in [queue : Seq(Messages), pc : {"idle", "op", "iterate"}, i : Nat, writes : WS,
                     answer : Answers, cursor : SUBSET Pairs, reply : Replies \cup {NULL}]
      BY <1>4, <1>6 DEF WorkerStates
    <2>. HIDE DEF WS
    <2>3. p \in [queue : Seq(Messages), pc : {"idle", "op", "iterate"}, i : Nat, writes : WS,
                     answer : Answers, cursor : SUBSET Pairs, reply : Replies \cup {NULL}]
      BY <1>5, <2>2, Zenon
    <2>. QED BY <1>1, <1>4, <2>1, <2>2, <2>3 DEF WorkerStates, WS
  <1>8. worker'[w] = p
    BY <1>7 DEF IInv, TypeOK
  <1>. HIDE DEF p
  <1>9. UNCHANGED <<backend, versions, synced, lock, client, promised>>
    BY DEF Writing, Write
  <1>10. SinceNext(c, s) = Since(c, s) /\ Last(versions'[s]) = Store(s)
    BY <1>9 DEF SinceNext, Since, Store
  <1>11. Batching(p, r, Since(c, s), Store(s))
    <2>1. p.i - 1 = x.i /\ p.i \in 1 .. Len(r.lens) + 1
      <3>1. p.i = x.i + 1 /\ x.i \in Nat /\ x.i <= Len(r.lens) /\ Len(r.lens) \in Nat
        BY <1>1, <1>4, <1>5, <1>7 DEF Messages
      <3>. QED BY <3>1
    <2>2. ASSUME r.type = "PUT" PROVE Putting(p, r, Since(c, s))
      <3>1. Len(x.writes) = x.i - 1 /\ Len(x.writes) + 1 = x.i
        BY <1>3, <1>5, <2>2 DEF Putting
      <3>2. /\ y.key = r.key /\ y.value # NULL /\ y.value.by = Append(r.id, x.i)
            /\ y.value.last <=> x.i = Len(r.lens)
        BY <1>5, <2>2 DEF Writing
      <3>3. \A j \in 1 .. Len(x.writes) :
               /\ x.writes[j].key = r.key /\ x.writes[j].value # NULL
               /\ x.writes[j].value.by = Append(r.id, j)
               /\ x.writes[j].value.last <=> j = Len(r.lens)
        BY <1>3, <2>2, Zenon DEF Putting
      <3>4. \A j \in 1 .. Len(ws) :
               /\ ws[j].key = r.key /\ ws[j].value # NULL
               /\ ws[j].value.by = Append(r.id, j)
               /\ ws[j].value.last <=> j = Len(r.lens)
        <4>. SUFFICES ASSUME NEW j \in 1 .. Len(ws)
                      PROVE  /\ ws[j].key = r.key /\ ws[j].value # NULL
                             /\ ws[j].value.by = Append(r.id, j)
                             /\ ws[j].value.last <=> j = Len(r.lens)
          BY Zenon
        <4>1. CASE j \in 1 .. Len(x.writes) /\ ws[j] = x.writes[j]
          BY <3>3, <4>1, Zenon
        <4>2. CASE j = x.i /\ ws[j] = y
          BY <3>2, <4>2, Zenon
        <4>. QED BY <1>6, <3>1, <4>1, <4>2, Zenon
      <3>5. Len(ws) = p.i - 1
        BY <1>6, <2>1, <3>1
      <3>. QED BY <1>7, <3>4, <3>5, Zenon DEF Putting
    <2>3. ASSUME r.type = "DELETE" PROVE Deleting(p, r, Since(c, s), Store(s))
      <3>1. y.key = r.key /\ y.value = NULL
        BY <1>5, <2>3 DEF Writing
      <3>2. \A j \in 1 .. Len(ws) : ws[j].key = r.key /\ ws[j].value = NULL
        BY <1>3, <1>6, <2>3, <3>1 DEF Deleting
      <3>3. Writes.missing => Len(ws) = p.i - 1
        <4>1. Writes.missing => Len(x.writes) = x.i - 1
          BY <1>3, <2>3 DEF Deleting
        <4>. QED BY <1>5, <1>6, <2>1, <4>1
      <3>. QED BY <1>6, <1>7, <3>2, <3>3 DEF Deleting
    <2>. QED BY <1>1, <1>3, <1>7, <2>1, <2>2, <2>3 DEF Batching
  <1>12. Working(w)'
    BY <1>2, <1>7, <1>8, <1>9, <1>10, <1>11, WorkingNext
  <1>13. Goes(w, p)
    <2>1. lock' \in [Servers -> Workers \cup {NULL}]
      BY <1>9 DEF IInv, TypeOK
    <2>. QED BY <1>3, <1>7, <1>9, <1>12, <2>1, Quietly, Zenon
  <1>. QED BY <1>13, GoesOn

(* A put writes a value of its own mark.                                   *)
LEMMA OperationPutKeeps ==
    ASSUME IInv, NEW w \in Workers, OperationPut(w)
    PROVE  IInv'
  <1>. PICK r, x : r = Current(w) /\ x = worker[w]
    OBVIOUS
  <1>. DEFINE v == [by |-> Append(r.id, x.i), len |-> r.lens[x.i], last |-> x.i = Len(r.lens)]
  <1>1. x.pc = "op" /\ x.i <= Len(r.lens) /\ r.type = "PUT" /\ Working(w)
    BY DEF OperationPut, OpCount, IInv
  <1>2. Batching(x, r, Since(r.id[1], r.server), Store(r.server))
    BY <1>1 DEF Working
  <1>3. x.queue # <<>> /\ x.i \in 1 .. Len(r.lens) + 1
    BY <1>2 DEF Batching
  <1>4. r \in Messages /\ r.id \in Clients \X Nat
    BY <1>3, CurrentMessage
  <1>5. r.lens \in Seq(Nat) /\ Len(r.lens) \in Nat
    BY <1>4 DEF Messages
  <1>6. x.i \in Nat /\ x.i \in 1 .. Len(r.lens)
    BY <1>1, <1>3, <1>5
  <1>7. r.lens[x.i] \in Nat /\ Append(r.id, x.i) \in Clients \X Nat \X Nat
    BY <1>4, <1>5, <1>6, ElementOfSeq, Marks, Zenon
  <1>8. v \in Values
    BY <1>7 DEF Values
  <1>9. v # NULL
    BY <1>8, KeyValueAssumption, Zenon
  <1>10. Write(w, v) /\ UNCHANGED <<backend, synced, lock, client, promised>>
    BY DEF OperationPut, OpCount
  <1>11. v.by = Append(r.id, x.i) /\ (v.last <=> x.i = Len(r.lens))
    BY Zenon
  <1>. HIDE DEF v
  <1>12. Writing(w, v)
    BY <1>1, <1>8, <1>9, <1>10, <1>11 DEF Writing
  <1>. QED BY <1>10, <1>12, WriteOnce, WriteLater

(* A key that is not there need not be deleted.                            *)
LEMMA OperationDeleteKeeps ==
    ASSUME IInv, NEW w \in Workers, OperationDelete(w)
    PROVE  IInv'
  <1>. PICK r, s, c, x : r = Current(w) /\ s = r.server /\ c = r.id[1] /\ x = worker[w]
    OBVIOUS
  <1>1. /\ x.pc = "op" /\ x.i <= Len(r.lens) /\ r.type = "DELETE" /\ Working(w)
        /\ UNCHANGED <<backend, synced, lock, client, promised>>
    BY DEF OperationDelete, OpCount, IInv
  <1>2. Batching(x, r, Since(c, s), Store(s)) /\ (Writes.exclusive => lock[s] = w)
    BY <1>1 DEF Working
  <1>3. /\ x.queue # <<>> /\ x.i \in 1 .. Len(r.lens) + 1 /\ Deleting(x, r, Since(c, s), Store(s))
        /\ Writes.at = "once" => x.writes = <<>>
    BY <1>1, <1>2 DEF Batching
  <1>4. x \in WorkerStates /\ r \in Messages /\ s \in Servers /\ x.reply = NULL /\ c \in Clients
    BY <1>3, CurrentMessage
  <1>5. CASE Write(w, NULL)
    <2>1. Writing(w, NULL)
      BY <1>1 DEF Writing
    <2>. QED BY <1>5, <2>1, WriteOnce, WriteLater
  <1>6. CASE /\ ~Writes.missing /\ InBatch(w) = NULL
             /\ worker' = [worker EXCEPT ![w].i = @ + 1, ![w].answer.ret = FALSE] /\ UNCHANGED versions
    <2>. DEFINE p == [x EXCEPT !.i = @ + 1, !.answer.ret = FALSE]
    <2>1. x.i \in Nat /\ x.i + 1 \in Nat /\ x.answer \in Answers
      BY <1>4 DEF WorkerStates
    <2>2. [x.answer EXCEPT !.ret = FALSE] \in Answers
      BY <2>1, Zenon DEF Answers
    <2>3. /\ p \in WorkerStates /\ worker' = [worker EXCEPT ![w] = p] /\ p.queue = x.queue /\ p.reply = NULL
          /\ p.pc = "op" /\ p.i = x.i + 1 /\ p.writes = x.writes
      BY <1>1, <1>4, <1>6, <2>1, <2>2, Zenon DEF WorkerStates
    <2>4. worker'[w] = p
      BY <2>3 DEF IInv, TypeOK
    <2>. HIDE DEF p
    <2>5. SinceNext(c, s) = Since(c, s) /\ Last(versions'[s]) = Store(s)
      BY <1>1, <1>6 DEF SinceNext, Since, Store
    <2>6. Store(s) \in Since(c, s)
      BY <1>4, StoreSince
    <2>7. x.writes = <<>> => Store(s)[r.key] = NULL
      BY <1>6 DEF InBatch
    <2>8. Deleting(p, r, Since(c, s), Store(s))
      BY <1>3, <1>6, <2>3, <2>6, <2>7 DEF Deleting, Lacks
    <2>9. Batching(p, r, Since(c, s), Store(s))
      <3>1. p.i \in 1 .. Len(r.lens) + 1
        BY <1>1, <1>3, <1>4, <2>1, <2>3 DEF Messages
      <3>. QED BY <1>1, <1>3, <2>3, <2>8, <3>1 DEF Batching
    <2>10. Working(w)'
      BY <1>1, <1>2, <2>3, <2>4, <2>5, <2>9, WorkingNext
    <2>11. Goes(w, p)
      <3>1. lock' \in [Servers -> Workers \cup {NULL}]
        BY <1>1 DEF IInv, TypeOK
      <3>. QED BY <1>1, <1>3, <1>6, <2>3, <2>10, <3>1, Quietly, Zenon
    <2>. QED BY <2>11, GoesOn
  <1>. QED BY <1>5, <1>6 DEF OperationDelete

(* The writes of a list about key k.                                       *)
ListsOf(k) == Seq([key : {k}, value : Values \cup {NULL}])

(* What is there after a list of writes of key k.                          *)
LEMMA ListWritten ==
    ASSUME NEW k \in Keys, NEW d \in States
    PROVE  \A us \in Seq([key : {k}, value : Values \cup {NULL}]) :
              us # <<>> => Executed(d, us) = Applied(d, us[Len(us)])
  <1>. SUFFICES ASSUME NEW us \in Seq([key : {k}, value : Values \cup {NULL}]), us # <<>>
                PROVE  Executed(d, us) = Applied(d, us[Len(us)])
    OBVIOUS
  <1>1. d \in [Keys -> Values \cup {NULL}]
    BY DEF States
  <1>. QED BY <1>1, LastDecides, Zenon

(* The states a batch leads through: the last one has what was written     *)
(* last, and only a bulk operation shows the ones before.                  *)
Leading(s, ws, ds) ==
    /\ ds \in Seq(States)
    /\ \A n \in 1 .. Len(ds) : \E j \in 1 .. Len(ws) :
          /\ ds[n] = Applied(Store(s), ws[j]) /\ ws[j].value \in Values \cup {NULL}
          /\ Writes.at = "execute" => j = Len(ws)
    /\ ws # <<>> => \E n \in 1 .. Len(ds) : n = Len(ds) /\ ds[n] = Applied(Store(s), ws[Len(ws)])

(* Executing the writes of a batch, which are about one key, leads to the  *)
(* state with the last of them; a backend that is not atomic goes through  *)
(* the others.                                                             *)
LEMMA CommittedStates ==
    ASSUME IInv, NEW s \in Servers, NEW k \in Keys, NEW ws, ws \in ListsOf(k)
    PROVE  Leading(s, ws, Committed(s, ws))
  <1>. PICK ds : ds = Committed(s, ws)
    OBVIOUS
  <1>. SUFFICES /\ ds \in Seq(States)
                /\ \A n \in 1 .. Len(ds) : \E j \in 1 .. Len(ws) :
                      /\ ds[n] = Applied(Store(s), ws[j]) /\ ws[j].value \in Values \cup {NULL}
                      /\ Writes.at = "execute" => j = Len(ws)
                /\ ws # <<>> => \E n \in 1 .. Len(ds) : n = Len(ds) /\ ds[n] = Applied(Store(s), ws[Len(ws)])
    BY DEF Leading
  <1>. PICK d, V, S, m : /\ d = Store(s) /\ V = Values \cup {NULL} /\ S = [key : {k}, value : Values \cup {NULL}]
                         /\ m = Len(ws)
    BY Zenon
  <1>1. d \in States /\ States = [Keys -> V] /\ m \in Nat /\ ws \in Seq(S)
    <2>1. ws \in Seq(S) /\ m \in Nat
      BY DEF ListsOf
    <2>2. d \in States
      <3>1. versions[s] \in Seq(States) /\ synced[s] \in 1 .. Len(versions[s])
        BY DEF IInv, TypeOK, Kept
      <3>2. Len(versions[s]) \in 1 .. Len(versions[s])
        BY <3>1
      <3>. QED BY <3>1, <3>2, ElementOfSeq DEF Store, Last
    <2>. QED BY <2>1, <2>2 DEF States
  <1>2. \A us \in Seq(S) : us # <<>> => Executed(d, us) = Applied(d, us[Len(us)])
    BY <1>1, ListWritten
  <1>3. \A j \in 1 .. m : ws[j].value \in V /\ Applied(d, ws[j]) \in States
    <2>1. \A j \in 1 .. m : ws[j] \in S
      BY <1>1, ElementOfSeq, Zenon
    <2>2. \A j \in 1 .. m : ws[j].value \in V /\ ws[j].key = k
      BY <2>1
    <2>. QED BY <1>1, <2>2 DEF Applied
  <1>4. CASE ws = <<>>
    <2>1. ds = <<>>
      BY <1>4 DEF Committed
    <2>2. ds \in Seq(States) /\ Len(ds) = 0
      BY <2>1
    <2>3. \A n \in 1 .. Len(ds) : FALSE
      BY <2>2
    <2>. QED BY <1>4, <2>2, <2>3
  <1>5. CASE ws # <<>> /\ Writes.at = "bulk"
    <2>1. m # 0 /\ DOMAIN ws = 1 .. m
      BY <1>1, <1>5, EmptySeq
    <2>2. ds = [j \in 1 .. m |-> Executed(d, SubSeq(ws, 1, j))]
      BY <1>5, <2>1 DEF Committed
    <2>3. ASSUME NEW j \in 1 .. m PROVE Executed(d, SubSeq(ws, 1, j)) = Applied(d, ws[j])
      <3>. PICK us : us = SubSeq(ws, 1, j)
        BY Zenon
      <3>1. us \in Seq(S) /\ Len(us) = j /\ us[j] = ws[j] /\ us # <<>>
        <4>1. \A h \in 1 .. j : h \in 1 .. m
          BY <1>1
        <4>2. \A h \in 1 .. j : ws[h] \in S
          BY <1>1, <4>1, ElementOfSeq, Zenon
        <4>3. /\ us \in Seq(S) /\ Len(us) = IF 1 <= j THEN j - 1 + 1 ELSE 0
              /\ \A h \in 1 .. j - 1 + 1 : us[h] = ws[1 + h - 1]
          BY <4>2, SubSeqProperties
        <4>4. 1 <= j /\ j - 1 + 1 = j /\ j \in 1 .. j - 1 + 1 /\ 1 + j - 1 = j /\ j # 0
          BY <1>1
        <4>. QED BY <4>3, <4>4, EmptySeq
      <3>. QED BY <1>2, <3>1, Zenon
    <2>4. ds = [j \in 1 .. m |-> Applied(d, ws[j])]
      BY <2>2, <2>3
    <2>5. ds \in Seq(States) /\ Len(ds) = m /\ m \in 1 .. m
      BY <1>1, <1>3, <2>1, <2>4
    <2>6. \A n \in 1 .. m : ds[n] = Applied(d, ws[n])
      BY <2>4
    <2>7. Writes.at # "execute"
      BY <1>5
    <2>. QED BY <1>1, <1>3, <2>5, <2>6, <2>7
  <1>6. CASE ws # <<>> /\ Writes.at # "bulk"
    <2>1. ds = << Applied(d, ws[m]) >>
      BY <1>1, <1>2, <1>6, Zenon DEF Committed
    <2>2. m \in 1 .. m
      BY <1>1, <1>6, EmptySeq
    <2>3. ds \in Seq(States) /\ Len(ds) = 1 /\ ds[1] = Applied(d, ws[m])
      <3>. PICK e : e = Applied(d, ws[m])
        OBVIOUS
      <3>1. e \in States /\ ds = <<e>>
        BY <1>3, <2>1, <2>2
      <3>. QED BY <3>1
    <2>4. \A n \in 1 .. 1 : n = 1
      OBVIOUS
    <2>. QED BY <1>3, <2>2, <2>3, <2>4
  <1>. QED BY <1>4, <1>5, <1>6

(* A worker without work.                                                  *)
LEMMA IdleWorkers == IdleWorker \in WorkerStates /\ IdleWorker.pc = "idle" /\ IdleWorker.queue = <<>> /\ IdleWorker.reply = NULL
  <1>. DEFINE WS == Seq([key : Keys, value : Values \cup {NULL}])
  <1>1. <<>> \in WS /\ <<>> \in Seq(Messages)
    OBVIOUS
  <1>. HIDE DEF WS
  <1>2. IdleWorker \in [queue : Seq(Messages), pc : {"idle", "op", "iterate"}, i : Nat, writes : WS,
                        answer : Answers, cursor : SUBSET Pairs, reply : Replies \cup {NULL}]
    BY <1>1, NoAnswerYet DEF IdleWorker
  <1>3. IdleWorker.pc = "idle" /\ IdleWorker.queue = <<>> /\ IdleWorker.reply = NULL
    BY DEF IdleWorker
  <1>. QED BY <1>2, <1>3 DEF WorkerStates, WS

(* A worker replies and lets the others in.                                *)
LEMMA RepliedKeeps ==
    ASSUME IInv, NEW w \in Workers, worker[w].queue # <<>>, NEW a \in Answers, Replied(w, a), Leave(w),
           UNCHANGED <<backend, client, promised>>,
           versions' \in [Servers -> Seq(States)], synced' \in [Servers -> Nat], Grown,
           \A t \in Servers : /\ synced'[t] <= Len(versions'[t])
                              /\ \A n \in 1 .. Len(versions'[t]) : Proper(t, versions'[t][n])
                              /\ versions'[t] = versions[t] \/ (Writes.exclusive => lock[t] = w),
           NEW r, r = Current(w),
           r.confirm => Answered(SinceNext(r.id[1], r.server), ForcedNext(r.server), r.server, r, a)
    PROVE  IInv'
  <1>. PICK q, t, b : /\ q = worker[w].queue /\ t = Tail(q)
                      /\ b = [ret |-> a.ret, values |-> a.values, pairs |-> a.pairs, server |-> r.server]
    BY Zenon
  <1>. PICK z : z = IF r.confirm THEN b ELSE NULL
    BY Zenon
  <1>. DEFINE p == [IdleWorker EXCEPT !.queue = t, !.reply = z]
  <1>1. q \in Seq(Messages) /\ q # <<>> /\ r.server \in Servers
    BY CurrentMessage
  <1>2. t \in Seq(Messages)
    BY <1>1, HeadTailProperties
  <1>3. b \in Replies
    BY <1>1 DEF Answers, Replies
  <1>4. b # NULL /\ b.server = r.server
    BY <1>3, KeyValueAssumption
  <1>5. /\ p \in WorkerStates /\ worker' = [worker EXCEPT ![w] = p] /\ p.queue = t /\ p.pc = "idle"
        /\ r.confirm => p.reply = b
        /\ ~r.confirm => p.reply = NULL
    <2>1. worker' = [worker EXCEPT ![w] = p]
      BY DEF Replied
    <2>2. <<>> \in Seq([key : Keys, value : Values \cup {NULL}])
      OBVIOUS
    <2>3. z \in Replies \cup {NULL}
      BY <1>3
    <2>4. IdleWorker \in WorkerStates /\ IdleWorker.pc = "idle"
      BY IdleWorkers
    <2>5. p \in WorkerStates /\ p.queue = t /\ p.pc = "idle" /\ p.reply = z
      BY <1>2, <2>3, <2>4, Zenon DEF WorkerStates
    <2>. QED BY <2>1, <2>5
  <1>. HIDE DEF p
  <1>6. r.confirm => Answered(SinceNext(r.id[1], r.server), ForcedNext(r.server), r.server, r, b)
    <2>1. b.ret = a.ret /\ b.values = a.values /\ b.pairs = a.pairs
      OBVIOUS
    <2>2. \A D, F, s, m : Answered(D, F, s, m, a) => Answered(D, F, s, m, b)
      BY <2>1 DEF Answered, AllFound
    <2>. QED BY <2>2
  <1>7. /\ lock' \in [Servers -> Workers \cup {NULL}]
        /\ \A u \in Workers \ {w}, s \in Servers : lock[s] = u => lock'[s] = u
    BY <1>1, LeaveKeeps
  <1>8. Goes(w, p)
    BY <1>1, <1>4, <1>5, <1>6, <1>7 DEF Goes
  <1>. QED BY <1>8, GoesOn

(* The writes of a list are about one key.                                 *)
LEMMA OneKey ==
    ASSUME NEW k, NEW ws, ws \in ListsOf(k)
    PROVE  \A j \in 1 .. Len(ws) : ws[j].key = k /\ ws[j].value \in Values \cup {NULL}
  <1>. PICK S : S = [key : {k}, value : Values \cup {NULL}]
    BY Zenon
  <1>1. ws \in Seq(S)
    BY DEF ListsOf
  <1>2. \A j \in 1 .. Len(ws) : ws[j] \in S
    BY <1>1, ElementOfSeq, Zenon
  <1>. QED BY <1>2

(* The new state of a database after write y.                              *)
LEMMA StateApplied ==
    ASSUME IInv, NEW s \in Servers, NEW d \in States, Proper(s, d), NEW y, y.key \in Keys, Home(y.key) = s,
           y.value \in Values \cup {NULL}, Writes.at = "execute" /\ y.value # NULL => y.value.last
    PROVE  /\ Applied(d, y) \in States /\ Proper(s, Applied(d, y))
           /\ Applied(d, y)[y.key] = y.value
  BY DEF States, Proper, Applied

(* What a worker has written when it has gone through the list.            *)
Done(p, r, ws) ==
    /\ ws \in ListsOf(r.key) /\ Len(ws) \in Nat
    /\ p.i = Len(r.lens) + 1 /\ Len(r.lens) \in Nat \ {0}
    /\ Writes.at = "once" => ws = <<>>
    /\ r.type = "PUT" => /\ Writes.at # "once" => Len(ws) = Len(r.lens)
                         /\ \A j \in 1 .. Len(ws) : /\ ws[j].value # NULL
                                                    /\ ws[j].value.by = Append(r.id, j)
                                                    /\ ws[j].value.last <=> j = Len(r.lens)
    /\ r.type = "DELETE" => \A j \in 1 .. Len(ws) : ws[j].value = NULL
    /\ r.type \notin {"PUT", "DELETE"} => r.type = "GET" /\ ws = <<>>

(* When the last operation is over, the writes are those of the whole      *)
(* list.                                                                   *)
LEMMA WritesDone ==
    ASSUME IInv, NEW w \in Workers, worker[w].pc = "op", worker[w].i > OpCount(w)
    PROVE  Done(worker[w], Current(w), worker[w].writes)
  <1>. PICK r, ws : r = Current(w) /\ ws = worker[w].writes
    OBVIOUS
  <1>. PICK s, c, x : s = r.server /\ c = r.id[1] /\ x = worker[w]
    OBVIOUS
  <1>1. Working(w)
    BY DEF IInv
  <1>2. Batching(x, r, Since(c, s), Store(s))
    BY <1>1 DEF Working
  <1>3. /\ x.queue # <<>> /\ x.i \in 1 .. Len(r.lens) + 1 /\ r.type # "ITERATE"
        /\ Writes.at = "once" => ws = <<>>
        /\ r.type = "PUT" => Putting(x, r, Since(c, s))
        /\ r.type = "DELETE" => Deleting(x, r, Since(c, s), Store(s))
        /\ r.type = "GET" => Getting(x, r, Since(c, s))
    BY <1>2 DEF Batching
  <1>4. x \in WorkerStates /\ r \in Messages
    BY <1>3, CurrentMessage
  <1>5. r.lens \in Seq(Nat) /\ r.lens # <<>> /\ r.type \in {"PUT", "DELETE", "GET", "ITERATE"}
    BY <1>4 DEF Messages, RequestTypes
  <1>6. Len(r.lens) \in Nat \ {0}
    BY <1>5, EmptySeq
  <1>7. x.i = Len(r.lens) + 1
    <2>1. x.i > Len(r.lens)
      BY DEF OpCount
    <2>. QED BY <1>3, <1>6, <2>1
  <1>8. ws \in Seq([key : Keys, value : Values \cup {NULL}]) /\ Len(ws) \in Nat
    BY <1>4 DEF WorkerStates
  <1>9. ws \in ListsOf(r.key)
    <2>1. \A j \in 1 .. Len(ws) : ws[j].key = r.key
      <3>1. CASE r.type = "PUT"
        BY <1>3, <3>1 DEF Putting
      <3>2. CASE r.type = "DELETE"
        BY <1>3, <3>2 DEF Deleting
      <3>3. CASE r.type = "GET"
        <4>1. ws = <<>>
          BY <1>3, <3>3 DEF Getting
        <4>. QED BY <4>1
      <3>. QED BY <1>3, <1>5, <3>1, <3>2, <3>3
    <2>. PICK S, T : /\ S = [key : Keys, value : Values \cup {NULL}]
                     /\ T = [key : {r.key}, value : Values \cup {NULL}]
      BY Zenon
    <2>2. ws \in Seq(S)
      BY <1>8
    <2>3. \A j \in 1 .. Len(ws) : ws[j] \in S
      BY <2>2, ElementOfSeq, Zenon
    <2>4. \A j \in 1 .. Len(ws) : ws[j] \in T
      BY <2>1, <2>3
    <2>5. Len(ws) \in Nat /\ ws = [j \in 1 .. Len(ws) |-> ws[j]]
      BY <2>2, LenProperties
    <2>6. [j \in 1 .. Len(ws) |-> ws[j]] \in Seq(T)
      BY <2>4, <2>5
    <2>. QED BY <2>5, <2>6, Zenon DEF ListsOf
  <1>10. r.type = "PUT" => /\ Writes.at # "once" => Len(ws) = Len(r.lens)
                           /\ \A j \in 1 .. Len(ws) : /\ ws[j].value # NULL
                                                      /\ ws[j].value.by = Append(r.id, j)
                                                      /\ ws[j].value.last <=> j = Len(r.lens)
    <2>1. x.i - 1 = Len(r.lens)
      BY <1>6, <1>7
    <2>. QED BY <1>3, <2>1, Zenon DEF Putting
  <1>11. r.type = "DELETE" => \A j \in 1 .. Len(ws) : ws[j].value = NULL
    BY <1>3 DEF Deleting
  <1>12. r.type \notin {"PUT", "DELETE"} => r.type = "GET" /\ ws = <<>>
    BY <1>3, <1>5 DEF Getting
  <1>. QED BY <1>3, <1>6, <1>7, <1>8, <1>9, <1>10, <1>11, <1>12, Zenon DEF Done

(* The states of the databases after the batch of worker w; e is the last. *)
LEMMA BatchWritten ==
    ASSUME IInv, NEW w \in Workers, BatchExecute(w), NEW r, r = Current(w),
           NEW ws, ws = worker[w].writes, NEW s, s = r.server
    PROVE  /\ versions' \in [Servers -> Seq(States)] /\ synced' \in [Servers -> Nat] /\ Grown
           /\ \A t \in Servers : /\ synced'[t] <= Len(versions'[t])
                                 /\ \A n \in 1 .. Len(versions'[t]) : Proper(t, versions'[t][n])
                                 /\ t # s => versions'[t] = versions[t]
           /\ ws # <<>> => \E e \in States :
                 /\ e[r.key] = ws[Len(ws)].value /\ \A c \in Clients : e \in SinceNext(c, s)
                 /\ r.persistency \in Writes.synced => e \in ForcedNext(s)
  <1>. PICK ds : ds = Committed(s, ws)
    OBVIOUS
  <1>1. /\ worker[w].pc = "op" /\ worker[w].i > OpCount(w) /\ Working(w)
        /\ versions' = [versions EXCEPT ![s] = @ \o ds]
        /\ synced' = [synced EXCEPT ![s] = SyncedAfter(s, r)]
        /\ client' = client
    BY DEF BatchExecute, IInv
  <1>2. Batching(worker[w], r, Since(r.id[1], s), Store(s))
    BY <1>1 DEF Working
  <1>3. worker[w].queue # <<>> /\ r.type # "ITERATE"
    BY <1>2 DEF Batching
  <1>4. r \in Messages /\ s \in Servers /\ Sound(r) /\ r.id[1] \in Clients
    BY <1>3, CurrentMessage
  <1>5. r.key \in Keys /\ Home(r.key) = s
    BY <1>3, <1>4 DEF Messages, Sound
  <1>16. Done(worker[w], r, ws)
    BY <1>1, WritesDone
  <1>6. ws \in ListsOf(r.key) /\ Len(ws) \in Nat
    BY <1>16 DEF Done
  <1>17. Leading(s, ws, ds)
    BY <1>4, <1>5, <1>6, CommittedStates
  <1>7. /\ ds \in Seq(States)
        /\ \A n \in 1 .. Len(ds) : \E j \in 1 .. Len(ws) :
              /\ ds[n] = Applied(Store(s), ws[j]) /\ ws[j].value \in Values \cup {NULL}
              /\ Writes.at = "execute" => j = Len(ws)
        /\ ws # <<>> => \E n \in 1 .. Len(ds) : n = Len(ds) /\ ds[n] = Applied(Store(s), ws[Len(ws)])
    BY <1>17 DEF Leading
  <1>8. Store(s) \in States /\ Proper(s, Store(s))
    BY <1>4, StoreSince
  <1>9. \A j \in 1 .. Len(ws) : ws[j].key = r.key
    BY <1>6, OneKey
  <1>10. ASSUME NEW n \in 1 .. Len(ds) PROVE Proper(s, ds[n])
    <2>1. PICK j \in 1 .. Len(ws) : /\ ds[n] = Applied(Store(s), ws[j]) /\ ws[j].value \in Values \cup {NULL}
                                    /\ Writes.at = "execute" => j = Len(ws)
      BY <1>7
    <2>2. Writes.at = "execute" /\ ws[j].value # NULL => ws[j].value.last
      <3>. SUFFICES ASSUME Writes.at = "execute", ws[j].value # NULL PROVE ws[j].value.last
        OBVIOUS
      <3>1. r.type = "PUT"
        <4>1. ws # <<>>
          BY <1>6
        <4>. QED BY <1>16, <4>1 DEF Done
      <3>2. j = Len(r.lens)
        BY <1>6, <1>16, <2>1, <3>1 DEF Done
      <3>. QED BY <1>16, <3>1, <3>2, Zenon DEF Done
    <2>. PICK y : y = ws[j]
      OBVIOUS
    <2>3. y.key = r.key /\ y.value \in Values \cup {NULL} /\ (Writes.at = "execute" /\ y.value # NULL => y.value.last)
      BY <1>9, <2>1, <2>2
    <2>4. Proper(s, Applied(Store(s), y))
      BY <1>4, <1>5, <1>8, <2>3, StateApplied
    <2>. QED BY <2>1, <2>4
  <1>11. /\ Len(versions'[s]) = Len(versions[s]) + Len(ds) /\ Len(versions[s]) \in Nat /\ Len(ds) \in Nat
         /\ \A t \in Servers : t # s => versions'[t] = versions[t]
    <2>. PICK vs : vs = versions[s]
      OBVIOUS
    <2>1. versions \in [Servers -> Seq(States)] /\ vs \in Seq(States) /\ ds \in Seq(States)
      BY <1>4, <1>7 DEF IInv, TypeOK
    <2>2. Len(vs \o ds) = Len(vs) + Len(ds) /\ Len(vs) \in Nat /\ Len(ds) \in Nat
      BY <2>1, ConcatProperties
    <2>3. versions'[s] = vs \o ds /\ \A t \in Servers : t # s => versions'[t] = versions[t]
      BY <1>1, <1>4, <2>1, Zenon
    <2>. QED BY <2>2, <2>3
  <1>12. /\ \A t \in Servers : t # s => synced'[t] = synced[t]
         /\ synced'[s] = IF r.persistency \in Writes.synced THEN Len(versions'[s]) ELSE synced[s]
         /\ synced \in [Servers -> Nat]
    BY <1>1, <1>4, Zenon DEF SyncedAfter, IInv, TypeOK
  <1>13. /\ synced' \in [Servers -> Nat]
         /\ \A t \in Servers : synced[t] <= synced'[t] /\ synced'[t] <= Len(versions'[t])
    <2>1. \A t \in Servers : synced[t] \in Nat /\ synced[t] <= Len(versions[t]) /\ Len(versions[t]) \in Nat
      BY DEF IInv, TypeOK, Kept
    <2>2. synced'[s] \in Nat /\ synced[s] <= synced'[s] /\ synced'[s] <= Len(versions'[s])
      <3>. PICK m, n, h, e : m = Len(versions[s]) /\ n = Len(versions'[s]) /\ h = synced[s] /\ e = synced'[s]
        BY Zenon
      <3>1. m \in Nat /\ n \in Nat /\ m <= n /\ h \in Nat /\ h <= m
        <4>1. m \in Nat /\ h \in Nat /\ h <= m
          BY <1>4, <2>1
        <4>2. PICK k \in Nat : n = m + k
          BY <1>11, Zenon
        <4>. QED BY ONLY <4>1, <4>2
      <3>2. e = n \/ e = h
        BY <1>12, Zenon
      <3>3. CASE e = n
        BY <3>1, <3>3
      <3>4. CASE e = h
        BY <3>1, <3>4
      <3>. QED BY <3>2, <3>3, <3>4
    <2>3. \A t \in Servers : t # s => synced[t] <= synced'[t] /\ synced'[t] <= Len(versions'[t])
      BY <1>11, <1>12, <2>1
    <2>4. synced' \in [Servers -> Nat]
      BY <1>1, <1>12, <2>2, Zenon
    <2>. QED BY <2>2, <2>3, <2>4
  <1>14. /\ versions' \in [Servers -> Seq(States)] /\ Grown
         /\ \A t \in Servers : /\ \A n \in 1 .. Len(versions'[t]) : Proper(t, versions'[t][n])
                               /\ t # s => versions'[t] = versions[t]
         /\ Len(versions'[s]) = Len(versions[s]) + Len(ds)
         /\ \A n \in 1 .. Len(ds) : versions'[s][Len(versions[s]) + n] = ds[n]
         /\ \A c \in Clients : client' = client => \A n \in 1 .. Len(ds) : ds[n] \in SinceNext(c, s)
    <2>1. /\ s \in Servers /\ ds \in Seq(States) /\ versions' = [versions EXCEPT ![s] = @ \o ds]
          /\ \A n \in 1 .. Len(ds) : Proper(s, ds[n])
          /\ synced' \in [Servers -> Nat]
          /\ \A t \in Servers : synced[t] <= synced'[t]
          /\ \A t \in Servers : synced'[t] <= Len(versions'[t])
      BY <1>1, <1>4, <1>7, <1>10, <1>13, Zenon
    <2>. QED BY ONLY IInv, <2>1, Continued, Zenon
  <1>15. ASSUME ws # <<>>
         PROVE  \E e \in States :
                 /\ e[r.key] = ws[Len(ws)].value /\ \A c \in Clients : e \in SinceNext(c, s)
                 /\ r.persistency \in Writes.synced => e \in ForcedNext(s)
    <2>1. PICK n \in 1 .. Len(ds) : n = Len(ds) /\ ds[n] = Applied(Store(s), ws[Len(ws)])
      BY <1>7, <1>15
    <2>2. ds[n] \in States
      BY <1>7, ElementOfSeq
    <2>3. ds[n][r.key] = ws[Len(ws)].value
      <3>1. Len(ws) \in 1 .. Len(ws)
        BY <1>6, <1>15, EmptySeq
      <3>2. ws[Len(ws)].key = r.key
        BY <1>9, <3>1
      <3>. QED BY <1>5, <1>8, <2>1, <3>2 DEF Applied, States
    <2>4. \A c \in Clients : ds[n] \in SinceNext(c, s)
      BY <1>1, <1>14
    <2>5. ASSUME r.persistency \in Writes.synced PROVE ds[n] \in ForcedNext(s)
      <3>. PICK m : m = Len(versions'[s])
        BY Zenon
      <3>1. synced'[s] = m /\ m = Len(versions[s]) + n
        BY <1>11, <1>12, <2>1, <2>5
      <3>2. versions'[s][m] = ds[n]
        BY <1>14, <3>1, Zenon
      <3>3. m \in 1 .. synced'[s]
        <4>1. n \in Nat /\ n >= 1 /\ Len(versions[s]) \in Nat
          BY <1>11
        <4>. QED BY <3>1, <4>1
      <3>. QED BY <3>2, <3>3 DEF ForcedNext
    <2>. QED BY <2>2, <2>3, <2>4, <2>5
  <1>. QED BY <1>13, <1>14, <1>15

(* When the batch of a message is done, what the reply says is true.       *)
LEMMA BatchAnswers ==
    ASSUME IInv, NEW w \in Workers, BatchExecute(w), NEW r, r = Current(w), r.confirm,
           NEW D, D = SinceNext(r.id[1], r.server), NEW F, F = ForcedNext(r.server),
           worker[w].queue # <<>>, Grown, versions' \in [Servers -> Seq(States)], synced' \in [Servers -> Nat],
           NEW ws, ws = worker[w].writes,
           ws # <<>> => \E e \in States : /\ e[r.key] = ws[Len(ws)].value /\ e \in D
                                          /\ r.persistency \in Writes.synced => e \in F
    PROVE  Answered(D, F, r.server, r, worker[w].answer)
  <1>. PICK s, c, x, a, C : /\ s = r.server /\ c = r.id[1] /\ x = worker[w] /\ a = x.answer
                            /\ C = Since(c, s)
    OBVIOUS
  <1>1. x.pc = "op" /\ x.i > OpCount(w) /\ Working(w) /\ client' = client
    BY DEF BatchExecute, IInv
  <1>2. Batching(x, r, C, Store(s))
    BY <1>1 DEF Working
  <1>3. x \in WorkerStates /\ r \in Messages /\ s \in Servers /\ c \in Clients
    BY CurrentMessage
  <1>4. C \subseteq D
    BY <1>1, <1>3, GrownStates DEF IInv
  <1>5. Done(x, r, ws)
    BY <1>1, WritesDone
  <1>6. x.i = Len(r.lens) + 1 /\ Len(r.lens) \in Nat \ {0} /\ x.i - 1 = Len(r.lens) /\ x.i > 1
    BY <1>5 DEF Done
  <1>7. /\ r.type # "ITERATE"
        /\ r.type = "PUT" => Putting(x, r, C)
        /\ r.type = "DELETE" => Deleting(x, r, C, Store(s))
        /\ r.type = "GET" => Getting(x, r, C)
    BY <1>2 DEF Batching
  <1>8. ASSUME r.type = "GET"
        PROVE  /\ a.values \in Seq(Values \cup {NULL}) /\ Len(a.values) = Len(r.lens)
               /\ Known(D, r.key, a.values) /\ AllFound(a)
    <2>1. Getting(x, r, C)
      BY <1>7, <1>8
    <2>2. Known(C, r.key, a.values)
      BY <2>1 DEF Getting
    <2>3. Known(D, r.key, a.values)
      BY <1>4, <2>2 DEF Known
    <2>4. a.values \in Seq(Values \cup {NULL}) /\ Len(a.values) = Len(r.lens) /\ AllFound(a)
      BY <1>6, <2>1 DEF Getting
    <2>. QED BY <2>3, <2>4
  <1>9. ASSUME r.type = "PUT", Writes.at # "once"
        PROVE  /\ Has(D, r.key, MarkOf(r))
               /\ r.persistency \in Writes.synced => Has(F, r.key, MarkOf(r))
    <2>1. Len(ws) = Len(r.lens)
      BY <1>5, <1>9 DEF Done
    <2>2. Len(ws) \in 1 .. Len(ws)
      BY <1>6, <2>1
    <2>3. ws # <<>>
      BY <1>6, <2>1
    <2>4. ws[Len(ws)].value # NULL /\ ws[Len(ws)].value.by = Append(r.id, Len(ws))
      BY <1>5, <1>9, <2>2, Zenon DEF Done
    <2>. QED BY <2>1, <2>3, <2>4, Zenon DEF Has, MarkOf
  <1>10. ASSUME r.type = "PUT", Writes.at = "once" PROVE Has(D, r.key, MarkOf(r))
    <2>1. Has(C, r.key, Append(r.id, x.i - 1))
      BY <1>6, <1>7, <1>10 DEF Putting
    <2>2. Has(C, r.key, MarkOf(r))
      BY <1>6, <2>1 DEF MarkOf
    <2>. QED BY <1>4, <2>2, MoreStates, Zenon
  <1>11. ASSUME r.type = "DELETE" PROVE Lacks(D, r.key)
    <2>1. Deleting(x, r, C, Store(s))
      BY <1>7, <1>11
    <2>2. CASE Writes.at = "once"
      <3>1. Lacks(C, r.key)
        BY <1>6, <2>1, <2>2 DEF Deleting
      <3>. QED BY <1>4, <3>1, MoreStates, Zenon
    <2>3. CASE ws # <<>>
      <3>1. ws[Len(ws)].value = NULL
        <4>1. Len(ws) \in Nat
          BY <1>5 DEF Done
        <4>2. Len(ws) # 0
          BY <1>5, <2>3, NoElement DEF Done, ListsOf
        <4>3. Len(ws) \in 1 .. Len(ws)
          BY <4>1, <4>2
        <4>. QED BY <1>5, <1>11, <4>3 DEF Done
      <3>. QED BY <2>3, <3>1 DEF Lacks
    <2>4. CASE Writes.at # "once" /\ ws = <<>>
      <3>1. Store(s)[r.key] = NULL
        BY <1>6, <2>1, <2>4 DEF Deleting
      <3>2. Store(s) \in C
        BY <1>3, StoreSince
      <3>. QED BY <1>4, <3>1, <3>2 DEF Lacks
    <2>. QED BY <2>2, <2>3, <2>4
  <1>12. r.type = "PUT" => Has(D, r.key, MarkOf(r))
    BY <1>9, <1>10
  <1>13. r.type = "PUT" /\ r.persistency = "STORAGE" /\ backend # "gdbm" => Has(F, r.key, MarkOf(r))
    <2>1. backend # "gdbm" => Writes.at # "once" /\ "STORAGE" \in Writes.synced
      BY Backends DEF IInv, TypeOK
    <2>. QED BY <1>9, <2>1
  <1>. QED BY <1>7, <1>8, <1>11, <1>12, <1>13 DEF Answered, Effective

(* The reply to a batch is true of the states it led to, and what is to    *)
(* stay is on the disk.                                                    *)
LEMMA BatchExecuteKeeps ==
    ASSUME IInv, NEW w \in Workers, BatchExecute(w)
    PROVE  IInv'
  <1>. PICK r, s, c, x, ws : r = Current(w) /\ s = r.server /\ c = r.id[1] /\ x = worker[w] /\ ws = x.writes
    OBVIOUS
  <1>1. /\ x.pc = "op" /\ Working(w) /\ Leave(w) /\ Replied(w, x.answer)
        /\ UNCHANGED <<backend, client, promised>>
    BY DEF BatchExecute, IInv
  <1>2. Batching(x, r, Since(c, s), Store(s)) /\ (Writes.exclusive => lock[s] = w)
    BY <1>1 DEF Working
  <1>3. x.queue # <<>>
    BY <1>2 DEF Batching
  <1>4. x \in WorkerStates /\ r \in Messages /\ s \in Servers /\ c \in Clients
    BY <1>3, CurrentMessage
  <1>5. x.answer \in Answers
    BY <1>4 DEF WorkerStates
  <1>6. /\ versions' \in [Servers -> Seq(States)] /\ synced' \in [Servers -> Nat] /\ Grown
        /\ \A t \in Servers : /\ synced'[t] <= Len(versions'[t])
                              /\ \A n \in 1 .. Len(versions'[t]) : Proper(t, versions'[t][n])
                              /\ t # s => versions'[t] = versions[t]
        /\ ws # <<>> => \E e \in States :
              /\ e[r.key] = ws[Len(ws)].value /\ \A d \in Clients : e \in SinceNext(d, s)
              /\ r.persistency \in Writes.synced => e \in ForcedNext(s)
    BY BatchWritten
  <1>7. ws # <<>> => \E e \in States :
              /\ e[r.key] = ws[Len(ws)].value /\ e \in SinceNext(c, s)
              /\ r.persistency \in Writes.synced => e \in ForcedNext(s)
    BY <1>4, <1>6
  <1>8. r.confirm => Answered(SinceNext(c, s), ForcedNext(s), s, r, x.answer)
    BY <1>3, <1>6, <1>7, BatchAnswers
  <1>9. \A t \in Servers : versions'[t] = versions[t] \/ (Writes.exclusive => lock[t] = w)
    BY <1>2, <1>6
  <1>. QED BY <1>1, <1>3, <1>5, <1>6, <1>8, <1>9, RepliedKeeps, Zenon

(* The pairs of a state are known by their keys.                           *)
LEMMA PairsDistinct ==
    ASSUME NEW d, NEW keys
    PROVE  Distinct(PairsOf(d, keys))
  BY DEF Distinct, PairsOf

(* They are pairs.                                                         *)
LEMMA PairsTyped ==
    ASSUME NEW d \in States, NEW m \in SUBSET Keys
    PROVE  PairsOf(d, Found(d, m)) \in SUBSET Pairs
  BY DEF States, PairsOf, Found, Pairs

(* An iterator starts with the matching pairs of the present state.        *)
LEMMA IteratorStartKeeps ==
    ASSUME IInv, NEW w \in Workers, IteratorStart(w)
    PROVE  IInv'
  <1>. PICK r, s, c, x, d, n, t : /\ r = Current(w) /\ s = r.server /\ c = r.id[1] /\ x = worker[w]
                                  /\ d = Store(s) /\ n = Len(versions[s]) /\ t = PairsOf(d, Found(d, Selected(r)))
    BY Zenon
  <1>. DEFINE p == [x EXCEPT !.pc = "iterate", !.answer = NoAnswer, !.i = n, !.cursor = t]
  <1>1. x.queue # <<>> /\ x.pc = "idle" /\ r.type = "ITERATE"
    BY DEF IteratorStart, Busy
  <1>2. x \in WorkerStates /\ r \in Messages /\ s \in Servers /\ x.reply = NULL /\ c \in Clients
    BY <1>1, CurrentMessage
  <1>3. d \in States /\ d \in Since(c, s) /\ n \in Nat
    BY <1>2, StoreSince
  <1>4. Selected(r) \in SUBSET Keys
    BY <1>2 DEF Messages, Selected
  <1>5. t = {Pair(s, k) : k \in Matching(w)}
    <2>1. Matching(w) = Found(d, Selected(r))
      BY <1>4 DEF Matching, Stored, Found
    <2>. QED BY <2>1 DEF Pair, PairsOf
  <1>6. t \in SUBSET Pairs /\ Distinct(t) /\ \A y \in t : y.key \in Selected(r)
    <2>1. \A y \in t : y.key \in Selected(r)
      BY DEF PairsOf, Found
    <2>. QED BY <1>3, <1>4, <2>1, PairsDistinct, PairsTyped
  <1>7. /\ p \in WorkerStates /\ worker' = [worker EXCEPT ![w] = p] /\ p.queue = x.queue /\ p.reply = NULL
        /\ p.pc = "iterate" /\ p.answer = NoAnswer /\ p.cursor = t /\ p.i = n
    <2>1. worker' = [worker EXCEPT ![w] = p]
      BY <1>5, Zenon DEF IteratorStart
    <2>2. p \in WorkerStates
      BY <1>2, <1>3, <1>6, NoAnswerYet, Zenon DEF WorkerStates
    <2>3. p.queue = x.queue /\ p.reply = NULL /\ p.pc = "iterate" /\ p.answer = NoAnswer /\ p.cursor = t /\ p.i = n
      BY <1>2 DEF WorkerStates
    <2>. QED BY <2>1, <2>2, <2>3
  <1>8. worker'[w] = p
    BY <1>7 DEF IInv, TypeOK
  <1>9. /\ lock' \in [Servers -> Workers \cup {NULL}]
        /\ \A u \in Workers \ {w}, h \in Servers : lock[h] = u => lock'[h] = u
        /\ Reads.exclusive => lock'[s] = w
    <2>1. Reads.exclusive \in BOOLEAN
      BY Backends DEF IInv, TypeOK
    <2>2. Enter(w, Reads.exclusive)
      BY DEF IteratorStart
    <2>. QED BY <1>2, <2>1, <2>2, EnterKeeps
  <1>. HIDE DEF p
  <1>10. UNCHANGED <<backend, versions, synced, client, promised>>
    BY DEF IteratorStart
  <1>11. SinceNext(c, s) = Since(c, s)
    BY <1>10 DEF SinceNext, Since
  <1>12. Listing(p, r, Since(c, s))
    <2>1. Stepped(p, r, Since(c, s))
      <3>1. p.answer.values = <<>> /\ p.answer.values \in Seq(Fetched)
        BY <1>7, NoAnswerYet
      <3>2. \A y \in p.cursor : d[y.key] = y.value
        BY <1>7 DEF PairsOf
      <3>3. \A k \in Selected(r) : d[k] # NULL => HasKey(p.cursor, k)
        <4>. SUFFICES ASSUME NEW k \in Selected(r), d[k] # NULL PROVE HasKey(p.cursor, k)
          OBVIOUS
        <4>1. [key |-> k, value |-> d[k]] \in p.cursor
          BY <1>7 DEF PairsOf, Found
        <4>2. [key |-> k, value |-> d[k]].key = k
          OBVIOUS
        <4>. QED BY <4>1, <4>2, Zenon DEF HasKey
      <3>. QED BY <1>3, <3>1, <3>2, <3>3 DEF Stepped
    <2>. QED BY <1>1, <1>3, <1>6, <1>7, <2>1 DEF Listing
  <1>13. Working(w)'
    <2>1. Looked(p, r, client'[c].since[s], Len(versions'[s]))
      <3>1. client[c].since[s] \in 1 .. n
        BY <1>2 DEF IInv, Kept
      <3>2. n \in client[c].since[s] .. n
        BY <1>3, <3>1
      <3>. QED BY <1>7, <1>10, <3>2 DEF Looked
    <2>. QED BY <1>7, <1>8, <1>9, <1>10, <1>11, <1>12, <2>1, WorkingNext
  <1>14. Goes(w, p)
    BY <1>1, <1>7, <1>9, <1>10, <1>13, Quietly, Zenon
  <1>. QED BY <1>14, GoesOn

(* The steps of an iterator by the name of their sequence.                 *)
LEMMA SteppedBy ==
    ASSUME NEW p, NEW r, NEW D, NEW ws \in Seq(Fetched), p.answer.values = ws,
           \A j \in 1 .. Len(ws) :
              /\ ws[j].key \in Selected(r)
              /\ Reads.documents \/ ws[j].value.len > 0 =>
                    ws[j].value \in Values /\ \E d \in D : d[ws[j].key] = ws[j].value,
           Reads.documents => \A z \in p.cursor : \E d \in D : d[z.key] = z.value,
           Reads.documents => \A k \in Selected(r) :
              (\A d \in D : d[k] # NULL) => HasKey(p.cursor, k) \/ \E j \in 1 .. Len(ws) : ws[j].key = k
    PROVE  Stepped(p, r, D)
  BY DEF Stepped

(* A sequence of steps with one more.                                      *)
LEMMA OneMoreStep ==
    ASSUME NEW x, NEW r, NEW D, Stepped(x, r, D), NEW y \in x.cursor, y.key \in Selected(r),
           NEW e \in Fetched, e.key = y.key,
           Reads.documents \/ e.value.len > 0 => e.value \in Values /\ \E d \in D : d[y.key] = e.value,
           NEW p, p.cursor = x.cursor \ {y}, NEW vs, vs = x.answer.values, p.answer.values = Append(vs, e)
    PROVE  Stepped(p, r, D) /\ Append(vs, e) \in Seq(Fetched)
  <1>. PICK ws : ws = Append(vs, e)
    OBVIOUS
  <1>1. /\ vs \in Seq(Fetched)
        /\ \A j \in 1 .. Len(vs) :
              /\ vs[j].key \in Selected(r)
              /\ Reads.documents \/ vs[j].value.len > 0 =>
                    vs[j].value \in Values /\ \E d \in D : d[vs[j].key] = vs[j].value
        /\ Reads.documents =>
              /\ \A z \in x.cursor : \E d \in D : d[z.key] = z.value
              /\ \A k \in Selected(r) :
                    (\A d \in D : d[k] # NULL) => HasKey(x.cursor, k) \/ \E j \in 1 .. Len(vs) : vs[j].key = k
    BY DEF Stepped
  <1>2. /\ ws \in Seq(Fetched) /\ Len(vs) \in Nat /\ Len(ws) = Len(vs) + 1
        /\ \A j \in 1 .. Len(ws) : \/ j \in 1 .. Len(vs) /\ ws[j] = vs[j]
                                   \/ j = Len(vs) + 1 /\ ws[j] = e
    BY <1>1, OneMoreWrite
  <1>3. ASSUME NEW j \in 1 .. Len(ws)
        PROVE  /\ ws[j].key \in Selected(r)
               /\ Reads.documents \/ ws[j].value.len > 0 =>
                     ws[j].value \in Values /\ \E d \in D : d[ws[j].key] = ws[j].value
    <2>1. CASE j \in 1 .. Len(vs) /\ ws[j] = vs[j]
      BY <1>1, <2>1
    <2>2. CASE j = Len(vs) + 1 /\ ws[j] = e
      BY <2>2
    <2>. QED BY <1>2, <2>1, <2>2
  <1>4. ASSUME Reads.documents, NEW k \in Selected(r), \A d \in D : d[k] # NULL
        PROVE  HasKey(x.cursor \ {y}, k) \/ \E j \in 1 .. Len(ws) : ws[j].key = k
    <2>1. CASE HasKey(x.cursor, k)
      <3>1. CASE y.key = k
        <4>1. Len(vs) + 1 \in 1 .. Len(ws) /\ ~(Len(vs) + 1 \in 1 .. Len(vs))
          BY <1>2
        <4>2. ws[Len(vs) + 1] = e
          BY <1>2, <4>1
        <4>. QED BY <3>1, <4>1, <4>2
      <3>2. CASE y.key # k
        BY <2>1, <3>2 DEF HasKey
      <3>. QED BY <3>1, <3>2
    <2>2. CASE \E j \in 1 .. Len(vs) : vs[j].key = k
      <3>1. PICK j \in 1 .. Len(vs) : vs[j].key = k
        BY <2>2
      <3>2. j \in 1 .. Len(ws) /\ ws[j] = vs[j]
        BY <1>2
      <3>. QED BY <3>1, <3>2
    <2>3. HasKey(x.cursor, k) \/ \E j \in 1 .. Len(vs) : vs[j].key = k
      BY <1>1, <1>4, Zenon
    <2>. QED BY <2>1, <2>2, <2>3
  <1>5. Reads.documents => \A z \in p.cursor : \E d \in D : d[z.key] = z.value
    BY <1>1
  <1>6. Reads.documents => \A k \in Selected(r) :
           (\A d \in D : d[k] # NULL) => HasKey(p.cursor, k) \/ \E j \in 1 .. Len(ws) : ws[j].key = k
    BY <1>4, Zenon
  <1>7. p.answer.values = ws
    OBVIOUS
  <1>8. ws \in Seq(Fetched)
    BY <1>2
  <1>9. Stepped(p, r, D)
    BY <1>3, <1>5, <1>6, <1>7, <1>8, SteppedBy
  <1>. QED BY <1>2, <1>9

(* What a step yields for a key whose value is o by then.                  *)
LEMMA FetchedPair ==
    ASSUME NEW k \in Keys, NEW o \in Values \cup {NULL}, NEW v,
           v = IF o = NULL THEN [by |-> NULL, len |-> 0, last |-> TRUE] ELSE o,
           NEW e, e = [key |-> k, value |-> v]
    PROVE  /\ e \in Fetched /\ e.key = k
           /\ e.value.len > 0 => e.value \in Values /\ o = e.value
  <1>1. v.len > 0 => v = o /\ o \in Values
    <2>1. CASE o = NULL
      BY <2>1
    <2>2. CASE o # NULL
      BY <2>2
    <2>. QED BY <2>1, <2>2
  <1>2. v \in [by : (Clients \X Nat \X Nat) \cup {NULL}, len : Nat, last : BOOLEAN]
    <2>. DEFINE A == Clients \X Nat \X Nat
    <2>. HIDE DEF A
    <2>1. CASE o = NULL
      <3>1. v = [by |-> NULL, len |-> 0, last |-> TRUE]
        BY <2>1
      <3>2. \A a, b, f : a \in A \cup {NULL} /\ b \in Nat /\ f \in BOOLEAN =>
               [by |-> a, len |-> b, last |-> f] \in [by : A \cup {NULL}, len : Nat, last : BOOLEAN]
        BY ONLY TRUE
      <3>3. NULL \in A \cup {NULL} /\ 0 \in Nat /\ TRUE \in BOOLEAN
        BY ONLY TRUE
      <3>4. v \in [by : A \cup {NULL}, len : Nat, last : BOOLEAN]
        BY ONLY <3>1, <3>2, <3>3, Zenon
      <3>. QED BY <3>4 DEF A
    <2>2. CASE o # NULL
      <3>1. v \in [by : A, len : Nat, last : BOOLEAN]
        BY <2>2 DEF Values, A
      <3>2. v \in [by : A \cup {NULL}, len : Nat, last : BOOLEAN]
        BY <3>1
      <3>. QED BY <3>2 DEF A
    <2>. QED BY <2>1, <2>2
  <1>. DEFINE W == [by : (Clients \X Nat \X Nat) \cup {NULL}, len : Nat, last : BOOLEAN]
  <1>3. v \in W
    BY <1>2
  <1>. HIDE DEF W
  <1>4. e \in [key : Keys, value : W] /\ e.key = k /\ e.value = v
    BY <1>3
  <1>. QED BY <1>1, <1>4 DEF Fetched, W

(* What a stepwise iterator finds in a database that was changed keeps the *)
(* keys that were there all the time.                                      *)
LEMMA IterateLookKeeps ==
    ASSUME IInv, NEW w \in Workers, IterateLook(w)
    PROVE  IInv'
  <1>. PICK r, s, c, x, d, n : /\ r = Current(w) /\ s = r.server /\ c = r.id[1] /\ x = worker[w]
                               /\ d = Store(s) /\ n = Len(versions[s])
    BY Zenon
  <1>. PICK C, m : C = Since(c, s) /\ m = Selected(r)
    OBVIOUS
  <1>1. /\ x.pc = "iterate" /\ Reads.stepwise /\ Working(w)
        /\ UNCHANGED <<backend, versions, synced, lock, client, promised>>
    BY DEF IterateLook, IInv
  <1>2. /\ Listing(x, r, C) /\ (Reads.exclusive => lock[s] = w)
        /\ x.i \in client[c].since[s] .. n
    BY <1>1 DEF Working, Looked
  <1>3. /\ x.queue # <<>> /\ r.type = "ITERATE" /\ \A z \in x.cursor : z.key \in m
        /\ Stepped(x, r, C)
    BY <1>1, <1>2 DEF Listing
  <1>4. x \in WorkerStates /\ r \in Messages /\ s \in Servers /\ x.reply = NULL /\ c \in Clients
    BY <1>3, CurrentMessage
  <1>5. d \in States /\ d \in C /\ n \in Nat /\ x.cursor \in SUBSET Pairs /\ m \in SUBSET Keys
    BY <1>4, StoreSince DEF WorkerStates, Messages, Selected
  <1>. PICK t : t = PairsOf(d, Found(d, m))
    OBVIOUS
  <1>6. t = {Pair(s, k) : k \in Matching(w)}
    <2>1. Matching(w) = Found(d, m)
      BY <1>5 DEF Matching, Stored, Found
    <2>. QED BY <2>1 DEF Pair, PairsOf
  <1>. PICK ahead \in SUBSET (x.cursor \cup t) :
          /\ Distinct(ahead)
          /\ Reads.documents => \A k \in Stored(s) :
                versions[s][x.i][k] # NULL => (HasKey(ahead, k) <=> HasKey(x.cursor, k))
          /\ worker' = [worker EXCEPT ![w].cursor = ahead, ![w].i = n]
    <2>1. PICK a \in SUBSET (worker[w].cursor \cup {Pair(Current(w).server, k) : k \in Matching(w)}) :
              /\ Distinct(a)
              /\ Reads.documents => \A k \in Stored(Current(w).server) :
                    versions[Current(w).server][worker[w].i][k] # NULL =>
                       (HasKey(a, k) <=> HasKey(worker[w].cursor, k))
              /\ worker' = [worker EXCEPT ![w].cursor = a, ![w].i = Len(versions[Current(w).server])]
      BY Zenon DEF IterateLook
    <2>2. a \in SUBSET (x.cursor \cup t)
      BY <2>1, <1>6
    <2>3. /\ Reads.documents => \A k \in Stored(s) :
                 versions[s][x.i][k] # NULL => (HasKey(a, k) <=> HasKey(x.cursor, k))
          /\ worker' = [worker EXCEPT ![w].cursor = a, ![w].i = n]
      BY <2>1
    <2>. QED BY <2>1, <2>2, <2>3, Zenon
  <1>. DEFINE p == [x EXCEPT !.cursor = ahead, !.i = n]
  <1>7. t \in SUBSET Pairs /\ \A y \in t : y.key \in m /\ d[y.key] = y.value
    <2>1. \A y \in t : y.key \in m /\ d[y.key] = y.value
      BY DEF PairsOf, Found
    <2>. QED BY <1>5, <2>1, PairsTyped
  <1>8. /\ p \in WorkerStates /\ worker' = [worker EXCEPT ![w] = p] /\ p.queue = x.queue /\ p.reply = NULL
        /\ p.pc = "iterate" /\ p.cursor = ahead /\ p.i = n /\ p.answer = x.answer
    <2>1. ahead \in SUBSET Pairs
      BY <1>5, <1>7
    <2>2. worker' = [worker EXCEPT ![w] = p]
      BY Zenon
    <2>3. p \in WorkerStates
      BY <1>4, <1>5, <2>1, Zenon DEF WorkerStates
    <2>4. /\ p.queue = x.queue /\ p.reply = NULL
          /\ p.pc = "iterate" /\ p.cursor = ahead /\ p.i = n /\ p.answer = x.answer
      BY <1>1, <1>4 DEF WorkerStates
    <2>. QED BY <2>2, <2>3, <2>4
  <1>9. worker'[w] = p
    BY <1>8 DEF IInv, TypeOK
  <1>. HIDE DEF p
  <1>10. Reads.documents => /\ \A y \in ahead : \E f \in C : f[y.key] = y.value
                            /\ \A k \in m : (\A f \in C : f[k] # NULL) =>
                                  HasKey(ahead, k) \/ \E j \in 1 .. Len(x.answer.values) : x.answer.values[j].key = k
    <2>. SUFFICES ASSUME Reads.documents
                  PROVE  /\ \A y \in ahead : \E f \in C : f[y.key] = y.value
                         /\ \A k \in m : (\A f \in C : f[k] # NULL) =>
                               HasKey(ahead, k) \/ \E j \in 1 .. Len(x.answer.values) : x.answer.values[j].key = k
      OBVIOUS
    <2>1. /\ \A y \in x.cursor : \E f \in C : f[y.key] = y.value
          /\ \A k \in m : (\A f \in C : f[k] # NULL) =>
                HasKey(x.cursor, k) \/ \E j \in 1 .. Len(x.answer.values) : x.answer.values[j].key = k
      BY <1>3 DEF Stepped
    <2>2. versions[s][x.i] \in C
      BY <1>2, Zenon DEF Since
    <2>3. ASSUME NEW k \in m, \A f \in C : f[k] # NULL, HasKey(x.cursor, k) PROVE HasKey(ahead, k)
      <3>1. k \in Stored(s)
        BY <1>5, <2>3 DEF Stored
      <3>. QED BY <2>2, <2>3, <3>1
    <2>4. \A y \in ahead : \E f \in C : f[y.key] = y.value
      BY <1>5, <1>7, <2>1
    <2>. QED BY <2>1, <2>3, <2>4
  <1>11. Listing(p, r, C)
    <2>1. Stepped(p, r, C)
      BY <1>3, <1>8, <1>10 DEF Stepped
    <2>2. \A z \in p.cursor : z.key \in Selected(r)
      BY <1>3, <1>7, <1>8
    <2>. QED BY <1>1, <1>3, <1>8, <2>1, <2>2 DEF Listing
  <1>12. SinceNext(c, s) = C
    BY <1>1 DEF SinceNext, Since
  <1>13. Working(w)'
    <2>1. Reads.exclusive => lock'[s] = w
      BY <1>1, <1>2
    <2>2. UNCHANGED backend
      BY <1>1
    <2>3. Looked(p, r, client'[c].since[s], Len(versions'[s]))
      <3>1. client[c].since[s] \in 1 .. n
        BY <1>4 DEF IInv, Kept
      <3>2. n \in client[c].since[s] .. n
        BY <1>5, <3>1
      <3>. QED BY <1>1, <1>8, <3>2 DEF Looked
    <2>4. /\ w \in Workers /\ worker'[w] = p /\ p.queue = worker[w].queue /\ r = Current(w)
          /\ p.pc # "op" /\ Listing(p, r, SinceNext(r.id[1], r.server))
          /\ Reads.exclusive => lock'[r.server] = w
          /\ Looked(p, r, client'[r.id[1]].since[r.server], Len(versions'[r.server]))
      BY <1>8, <1>9, <1>11, <1>12, <2>1, <2>3
    <2>. QED BY ONLY <2>2, <2>4, WorkingNext
  <1>14. Goes(w, p)
    <2>1. lock' \in [Servers -> Workers \cup {NULL}]
      BY <1>1 DEF IInv, TypeOK
    <2>. QED BY <1>1, <1>3, <1>8, <1>13, <2>1, Quietly, Zenon
  <1>. QED BY <1>14, GoesOn

(* A pair of a database is one that may be fetched.                        *)
LEMMA PairFetched ==
    ASSUME NEW y \in Pairs
    PROVE  y \in Fetched /\ y.value \in Values /\ y.key \in Keys
  <1>. DEFINE A == Clients \X Nat \X Nat
  <1>. HIDE DEF A
  <1>1. y \in [key : Keys, value : [by : A, len : Nat, last : BOOLEAN]]
    BY DEF Pairs, Values, A
  <1>2. y \in [key : Keys, value : [by : A \cup {NULL}, len : Nat, last : BOOLEAN]]
    BY <1>1
  <1>3. y.value \in Values /\ y.key \in Keys
    BY DEF Pairs
  <1>. QED BY <1>2, <1>3 DEF Fetched, A

(* A step of a stepwise iterator adds a key that was still to come.        *)
LEMMA IterateStepKeeps ==
    ASSUME IInv, NEW w \in Workers, IterateStep(w)
    PROVE  IInv'
  <1>. PICK r, s, c, x, d : r = Current(w) /\ s = r.server /\ c = r.id[1] /\ x = worker[w] /\ d = Store(s)
    OBVIOUS
  <1>1. x.pc = "iterate" /\ Reads.stepwise /\ Working(w) /\ UNCHANGED <<backend, versions, synced, lock, client, promised>>
    BY DEF IterateStep, IInv
  <1>. PICK y \in worker[w].cursor :
              worker' = [worker EXCEPT ![w].cursor = @ \ {y},
                            ![w].answer.values = Append(@, Fetch(Current(w).server, y))]
    BY Zenon DEF IterateStep
  <1>. PICK rest : rest = x.cursor \ {y}
    OBVIOUS
  <1>. PICK vs, e, ws : vs = x.answer.values /\ e = Fetch(s, y) /\ ws = Append(vs, e)
    BY Zenon
  <1>. DEFINE a == [x.answer EXCEPT !.values = ws]
              p == [x EXCEPT !.cursor = rest, !.answer = a]
  <1>2. Listing(x, r, Since(c, s)) /\ (Reads.exclusive => lock[s] = w)
    BY <1>1 DEF Working
  <1>3. /\ x.queue # <<>> /\ r.type = "ITERATE" /\ Distinct(x.cursor) /\ \A z \in x.cursor : z.key \in Selected(r)
        /\ Stepped(x, r, Since(c, s))
    BY <1>1, <1>2 DEF Listing
  <1>4. x \in WorkerStates /\ r \in Messages /\ s \in Servers /\ x.reply = NULL /\ c \in Clients
    BY <1>3, CurrentMessage
  <1>5. d \in States /\ d \in Since(c, s) /\ y \in Pairs /\ x.answer \in Answers /\ x.cursor \in SUBSET Pairs
    BY <1>4, StoreSince DEF WorkerStates
  <1>6. y.key \in Keys /\ d[y.key] \in Values \cup {NULL}
    BY <1>5 DEF Pairs, States
  <1>7. /\ e \in Fetched /\ e.key = y.key
        /\ Reads.documents \/ e.value.len > 0 =>
              e.value \in Values /\ \E f \in Since(c, s) : f[y.key] = e.value
    <2>1. CASE Reads.documents
      <3>1. e = y
        BY <2>1 DEF Fetch
      <3>2. \E f \in Since(c, s) : f[y.key] = y.value
        BY <1>3, <2>1 DEF Stepped
      <3>. QED BY <1>5, <3>1, <3>2, PairFetched
    <2>2. CASE ~Reads.documents
      <3>. PICK o, v : o = d[y.key] /\ v = IF o = NULL THEN [by |-> NULL, len |-> 0, last |-> TRUE] ELSE o
        BY Zenon
      <3>1. /\ e \in Fetched /\ e.key = y.key
            /\ e.value.len > 0 => e.value \in Values /\ o = e.value
        <4>1. y.key \in Keys /\ o \in Values \cup {NULL} /\ e = [key |-> y.key, value |-> v]
              /\ v = IF o = NULL THEN [by |-> NULL, len |-> 0, last |-> TRUE] ELSE o
          BY <1>6, <2>2 DEF Fetch
        <4>. QED BY ONLY <4>1, FetchedPair
      <3>. QED BY <1>5, <2>2, <3>1
    <2>. QED BY <2>1, <2>2
  <1>8. p.cursor = rest /\ p.answer = a /\ a.values = ws /\ p.i = x.i
    BY <1>4, <1>5 DEF WorkerStates, Answers
  <1>9. Stepped(p, r, Since(c, s)) /\ ws \in Seq(Fetched)
    <2>. HIDE DEF p, a
    <2>1. y.key \in Selected(r) /\ p.answer.values = Append(vs, e)
      BY <1>3, <1>8
    <2>. PICK C : C = Since(c, s)
      OBVIOUS
    <2>2. /\ Stepped(x, r, C) /\ y \in x.cursor /\ y.key \in Selected(r)
          /\ e \in Fetched /\ e.key = y.key
          /\ Reads.documents \/ e.value.len > 0 => e.value \in Values /\ \E f \in C : f[y.key] = e.value
          /\ p.cursor = x.cursor \ {y} /\ vs = x.answer.values /\ p.answer.values = Append(vs, e)
      BY <1>3, <1>7, <1>8, <2>1
    <2>3. Stepped(p, r, C) /\ Append(vs, e) \in Seq(Fetched)
      BY ONLY <2>2, OneMoreStep, Zenon
    <2>. QED BY <2>3
  <1>10. ws \in Seq(Values \cup {NULL} \cup Fetched)
    <2>1. Fetched \subseteq Values \cup {NULL} \cup Fetched
      OBVIOUS
    <2>. QED BY <1>9, <2>1, SeqMore
  <1>11. /\ p \in WorkerStates /\ worker' = [worker EXCEPT ![w] = p] /\ p.queue = x.queue /\ p.reply = NULL
         /\ p.pc = "iterate"
    <2>1. a \in Answers
      BY <1>5, <1>10, Zenon DEF Answers
    <2>2. rest \in SUBSET Pairs
      BY <1>5
    <2>3. worker' = [worker EXCEPT ![w] = p]
      BY Zenon
    <2>. HIDE DEF a
    <2>4. p \in WorkerStates /\ p.queue = x.queue /\ p.reply = NULL /\ p.pc = "iterate"
      BY <1>1, <1>4, <2>1, <2>2, Zenon DEF WorkerStates
    <2>. QED BY <2>3, <2>4, Zenon
  <1>12. worker'[w] = p
    BY <1>11 DEF IInv, TypeOK
  <1>. HIDE DEF p, a
  <1>13. Listing(p, r, Since(c, s))
    <2>1. Distinct(p.cursor) /\ \A z \in p.cursor : z.key \in Selected(r)
      BY <1>3, <1>8 DEF Distinct
    <2>. QED BY <1>1, <1>3, <1>9, <1>11, <2>1 DEF Listing
  <1>14. SinceNext(c, s) = Since(c, s)
    BY <1>1 DEF SinceNext, Since
  <1>15. Working(w)'
    <2>1. Reads.exclusive => lock'[s] = w
      BY <1>1, <1>2
    <2>2. UNCHANGED backend
      BY <1>1
    <2>4. Looked(p, r, client'[c].since[s], Len(versions'[s]))
      <3>1. Looked(x, r, client[c].since[s], Len(versions[s]))
        BY <1>1 DEF Working
      <3>. QED BY ONLY <1>1, <1>8, <3>1 DEF Looked
    <2>3. /\ w \in Workers /\ worker'[w] = p /\ p.queue = worker[w].queue /\ r = Current(w)
          /\ p.pc # "op" /\ Listing(p, r, SinceNext(r.id[1], r.server))
          /\ Reads.exclusive => lock'[r.server] = w
          /\ Looked(p, r, client'[r.id[1]].since[r.server], Len(versions'[r.server]))
      BY <1>11, <1>12, <1>13, <1>14, <2>1, <2>4
    <2>. QED BY ONLY <2>2, <2>3, WorkingNext
  <1>16. Goes(w, p)
    <2>1. lock' \in [Servers -> Workers \cup {NULL}]
      BY <1>1 DEF IInv, TypeOK
    <2>. QED BY <1>1, <1>3, <1>11, <1>15, <2>1, Quietly, Zenon
  <1>. QED BY <1>16, GoesOn

(* An order goes through all of the pairs.                                 *)
LEMMA OrdersComplete ==
    ASSUME NEW T, IsFiniteSet(T), NEW q \in Orders(T)
    PROVE  /\ Cardinality(T) \in Nat /\ DOMAIN q = 1 .. Cardinality(T)
           /\ \A j \in 1 .. Cardinality(T) : q[j] \in T
           /\ \A y \in T : \E j \in 1 .. Cardinality(T) : q[j] = y
           /\ \A i, j \in 1 .. Cardinality(T) : q[i] = q[j] => i = j
  <1>. PICK n : n = Cardinality(T)
    OBVIOUS
  <1>1. n \in Nat
    BY FS_CardinalityType
  <1>2. IsFiniteSet(1 .. n) /\ Cardinality(1 .. n) = n
    BY <1>1, FS_Interval
  <1>3. q \in [1 .. n -> T] /\ \A i, j \in 1 .. n : q[i] = q[j] => i = j
    BY DEF Orders
  <1>4. q \in Injection(1 .. n, T)
    BY <1>3 DEF Injection, IsInjective
  <1>5. q \in Surjection(1 .. n, T)
    BY <1>2, <1>4, FS_Injection
  <1>6. \A y \in T : \E j \in 1 .. n : q[j] = y
    BY <1>5 DEF Surjection
  <1>. QED BY <1>1, <1>3, <1>6

(* The pairs of a finite set of keys are finitely many.                    *)
LEMMA FinitePairs ==
    ASSUME NEW d, NEW m \in SUBSET Keys
    PROVE  IsFiniteSet(PairsOf(d, Found(d, m)))
  <1>. DEFINE S == Found(d, m)
              f == [k \in S |-> [key |-> k, value |-> d[k]]]
  <1>1. IsFiniteSet(S)
    BY KeyValueAssumption, FS_Subset DEF Found
  <1>2. f \in Surjection(S, PairsOf(d, S))
    BY DEF Surjection, PairsOf
  <1>. HIDE DEF S, f
  <1>3. IsFiniteSet(PairsOf(d, S))
    BY <1>1, <1>2, FS_Surjection
  <1>. QED BY <1>3 DEF S

(* A pair of an order is one of the database.                              *)
LEMMA OrderedPairs ==
    ASSUME NEW d \in States, NEW m \in SUBSET Keys, NEW q \in Orders(PairsOf(d, Found(d, m))),
           NEW n, n = Cardinality(PairsOf(d, Found(d, m)))
    PROVE  /\ n \in Nat /\ DOMAIN q = 1 .. n
           /\ \A j \in 1 .. n : /\ q[j] \in Pairs /\ q[j].key \in Found(d, m)
                               /\ q[j].value = d[q[j].key] /\ q[j] = [key |-> q[j].key, value |-> d[q[j].key]]
           /\ \A k \in Found(d, m) : \E j \in 1 .. n : q[j].key = k
  <1>. PICK T : T = PairsOf(d, Found(d, m))
    OBVIOUS
  <1>1. IsFiniteSet(T) /\ T \in SUBSET Pairs
    BY FinitePairs, PairsTyped
  <1>2. /\ n \in Nat /\ DOMAIN q = 1 .. n
        /\ \A j \in 1 .. n : q[j] \in T
        /\ \A y \in T : \E j \in 1 .. n : q[j] = y
    BY <1>1, OrdersComplete
  <1>3. \A y \in T : y.key \in Found(d, m) /\ y.value = d[y.key] /\ y = [key |-> y.key, value |-> d[y.key]]
    BY DEF PairsOf
  <1>4. ASSUME NEW k \in Found(d, m) PROVE \E j \in 1 .. n : q[j].key = k
    <2>. PICK y : y = [key |-> k, value |-> d[k]]
      BY Zenon
    <2>1. y \in T /\ y.key = k
      BY DEF PairsOf
    <2>. QED BY <1>2, <2>1
  <1>. QED BY <1>1, <1>2, <1>3, <1>4

(* What the iterator of a client sees of all the pairs of a state: with    *)
(* sorted pairs, those before the first empty value; in any case all of    *)
(* them unless there is an empty value.                                    *)
LEMMA SeenListed ==
    ASSUME IInv, NEW s \in Servers, NEW d \in States, Proper(s, d), NEW m \in SUBSET Keys,
           NEW q \in Orders(PairsOf(d, Found(d, m))), Reads.sorted => Ascending(q),
           ~Reads.stepwise, NEW C, d \in C
    PROVE  Listed(C, s, m, Seen(q)) /\ Seen(q) \in SUBSET Pairs
  <1>. PICK n, F : n = Cardinality(PairsOf(d, Found(d, m))) /\ F = Found(d, m)
    OBVIOUS
  <1>1. /\ n \in Nat /\ DOMAIN q = 1 .. n
        /\ \A j \in 1 .. n : /\ q[j] \in Pairs /\ q[j].key \in F
                            /\ q[j].value = d[q[j].key] /\ q[j] = [key |-> q[j].key, value |-> d[q[j].key]]
        /\ \A k \in F : \E j \in 1 .. n : q[j].key = k
    BY OrderedPairs
  <1>2. /\ F \in SUBSET Keys /\ F \subseteq m
        /\ \A k \in F : d[k] # NULL /\ d[k] \in Values /\ d[k].len \in Nat /\ Home(k) = s /\ k \in Nat
        /\ \A k \in m : d[k] # NULL => k \in F
    <2>1. F \in SUBSET Keys /\ F \subseteq m /\ \A k \in F : d[k] # NULL
      BY DEF Found
    <2>2. \A k \in F : d[k] \in Values /\ Home(k) = s /\ k \in Nat
      BY <2>1, KeyValueAssumption DEF States, Proper
    <2>3. \A k \in F : d[k].len \in Nat
      BY <2>2 DEF Values
    <2>. QED BY <2>1, <2>2, <2>3 DEF Found
  <1>3. \A y : y \in Seen(q) <=> \E j \in 1 .. n : y = q[j] /\ (InProcess \/ \A h \in 1 .. j : q[h].value.len > 0)
    BY <1>1 DEF Seen
  <1>4. Seen(q) \in SUBSET Pairs /\ \A y \in Seen(q) : y.key \in m /\ d[y.key] = y.value
    BY <1>1, <1>2, <1>3
  <1>5. Distinct(Seen(q))
    <2>1. \A y \in Seen(q) : y = [key |-> y.key, value |-> d[y.key]]
      BY <1>1, <1>3
    <2>. QED BY <2>1 DEF Distinct
  <1>6. ASSUME Reads.sorted PROVE Seen(q) = PairsOf(d, Readable(d, m, s))
    <2>1. ~InProcess
      BY <1>6, Backends DEF IInv, TypeOK
    <2>2. \A i, j \in 1 .. n : i < j => q[i].key < q[j].key
      BY <1>1, <1>6 DEF Ascending
    <2>3. \A k : k \in Readable(d, m, s) <=> k \in F /\ \A h \in F : h <= k => d[h].len > 0
      BY <1>2, <2>1 DEF Readable
    <2>4. ASSUME NEW j \in 1 .. n
          PROVE  (\A h \in 1 .. j : q[h].value.len > 0) <=> q[j].key \in Readable(d, m, s)
      <3>1. ASSUME \A h \in 1 .. j : q[h].value.len > 0, NEW k \in F, k <= q[j].key PROVE d[k].len > 0
        <4>1. PICK i \in 1 .. n : q[i].key = k
          BY <1>1
        <4>2. ~(j < i)
          <5>1. j < i => q[j].key < k
            BY <2>2, <4>1
          <5>2. q[j].key \in Nat /\ k \in Nat
            BY <1>1, <1>2
          <5>. QED BY <3>1, <5>1, <5>2
        <4>3. i \in 1 .. j
          BY <1>1, <4>2
        <4>. QED BY <1>1, <3>1, <4>1, <4>3
      <3>2. ASSUME \A k \in F : k <= q[j].key => d[k].len > 0, NEW h \in 1 .. j PROVE q[h].value.len > 0
        <4>1. h \in 1 .. n /\ (h = j \/ h < j)
          BY <1>1
        <4>2. q[h].key <= q[j].key
          <5>1. q[h].key \in Nat /\ q[j].key \in Nat
            BY <1>1, <1>2, <4>1
          <5>. QED BY <2>2, <4>1, <5>1
        <4>. QED BY <1>1, <3>2, <4>1, <4>2
      <3>. QED BY <1>1, <2>3, <3>1, <3>2
    <2>5. ASSUME NEW y \in Seen(q) PROVE y \in PairsOf(d, Readable(d, m, s))
      <3>1. PICK j \in 1 .. n : y = q[j] /\ \A h \in 1 .. j : q[h].value.len > 0
        BY <1>3, <2>1
      <3>2. y.key \in Readable(d, m, s) /\ y = [key |-> y.key, value |-> d[y.key]]
        BY <1>1, <2>4, <3>1
      <3>. QED BY <3>2 DEF PairsOf
    <2>6. ASSUME NEW y \in PairsOf(d, Readable(d, m, s)) PROVE y \in Seen(q)
      <3>1. PICK k \in Readable(d, m, s) : y = [key |-> k, value |-> d[k]]
        BY DEF PairsOf
      <3>2. PICK j \in 1 .. n : q[j].key = k
        BY <1>1, <2>3
      <3>3. y = q[j]
        BY <1>1, <3>1, <3>2
      <3>. QED BY <1>3, <2>4, <3>2, <3>3
    <2>. QED BY <2>5, <2>6, Zenon
  <1>7. Seen(q) = PairsOf(d, F) \/ \E h \in m : d[h] # NULL /\ d[h].len = 0
    <2>. SUFFICES ASSUME \A h \in F : d[h].len # 0 PROVE Seen(q) = PairsOf(d, F)
      BY <1>2
    <2>1. \A j \in 1 .. n : q[j].value.len > 0
      <3>1. \A k \in F : d[k].len > 0
        BY <1>2
      <3>. QED BY <1>1, <3>1
    <2>2. \A j \in 1 .. n : q[j] \in Seen(q)
      <3>1. \A j \in 1 .. n : \A h \in 1 .. j : h \in 1 .. n
        BY <1>1
      <3>. QED BY <1>3, <2>1, <3>1
    <2>3. ASSUME NEW y \in PairsOf(d, F) PROVE y \in Seen(q)
      <3>1. PICK k \in F : y = [key |-> k, value |-> d[k]]
        BY DEF PairsOf
      <3>2. PICK j \in 1 .. n : q[j].key = k
        BY <1>1
      <3>. QED BY <1>1, <2>2, <3>1, <3>2
    <2>4. ASSUME NEW y \in Seen(q) PROVE y \in PairsOf(d, F)
      <3>1. y.key \in F /\ y = [key |-> y.key, value |-> d[y.key]]
        BY <1>1, <1>3
      <3>. QED BY <3>1 DEF PairsOf
    <2>. QED BY <2>3, <2>4, Zenon
  <1>8. /\ \A y \in Seen(q) : y.key \in m /\ \E e \in C : e[y.key] = y.value
        /\ Reads.sorted => \E e \in C : Seen(q) = PairsOf(e, Readable(e, m, s))
        /\ \E e \in C : Seen(q) = PairsOf(e, Found(e, m)) \/ \E h \in m : e[h] # NULL /\ e[h].len = 0
    BY <1>4, <1>6, <1>7
  <1>9. ~Reads.documents
    BY Backends DEF IInv, TypeOK
  <1>. QED BY <1>4, <1>5, <1>8, <1>9 DEF Listed

(* What it sees of the pairs the steps of an iterator yielded.             *)
LEMMA SteppedListed ==
    ASSUME IInv, NEW s \in Servers, NEW m \in SUBSET Keys, NEW x, NEW r, Selected(r) = m, NEW C, Stepped(x, r, C),
           Reads.stepwise, x.cursor = {}, NEW q, q = x.answer.values
    PROVE  Listed(C, s, m, Seen(q)) /\ Seen(q) \in SUBSET Pairs
  <1>1. ~Reads.sorted /\ (Reads.documents <=> InProcess)
    BY Backends DEF IInv, TypeOK
  <1>2. /\ q \in Seq(Fetched)
        /\ \A j \in 1 .. Len(q) :
              /\ q[j].key \in m
              /\ Reads.documents \/ q[j].value.len > 0 =>
                    q[j].value \in Values /\ \E d \in C : d[q[j].key] = q[j].value
        /\ Reads.documents => \A k \in m :
              (\A d \in C : d[k] # NULL) => HasKey(x.cursor, k) \/ \E j \in 1 .. Len(q) : q[j].key = k
    BY DEF Stepped
  <1>3. Len(q) \in Nat /\ DOMAIN q = 1 .. Len(q)
    BY <1>2
  <1>4. \A y \in Seen(q) : \E j \in 1 .. Len(q) : y = q[j] /\ (Reads.documents \/ q[j].value.len > 0)
    <2>1. \A y \in Seen(q) : \E j \in 1 .. Len(q) :
             y = q[j] /\ (InProcess \/ \A h \in 1 .. j : q[h].value.len > 0)
      BY <1>3 DEF Seen
    <2>2. \A j \in 1 .. Len(q) : j \in 1 .. j
      BY <1>3
    <2>. QED BY <1>1, <2>1, <2>2
  <1>5. ASSUME Reads.documents, NEW k \in m, \A d \in C : d[k] # NULL PROVE HasKey(Seen(q), k)
    <2>1. PICK j \in 1 .. Len(q) : q[j].key = k
      BY <1>2, <1>5 DEF HasKey
    <2>2. q[j] \in Seen(q)
      BY <1>1, <1>3, <1>5 DEF Seen
    <2>. QED BY <2>1, <2>2 DEF HasKey
  <1>6. ASSUME NEW y \in Seen(q) PROVE y \in Pairs /\ y.key \in m /\ \E d \in C : d[y.key] = y.value
    <2>1. PICK j \in 1 .. Len(q) : y = q[j] /\ (Reads.documents \/ q[j].value.len > 0)
      BY <1>4
    <2>2. q[j] \in Fetched
      BY <1>2, ElementOfSeq
    <2>3. y.key \in m /\ y.value \in Values /\ \E d \in C : d[y.key] = y.value
      BY <1>2, <2>1
    <2>4. y = [key |-> y.key, value |-> y.value]
      BY <2>1, <2>2 DEF Fetched
    <2>. QED BY <2>3, <2>4 DEF Pairs
  <1>. QED BY <1>1, <1>5, <1>6 DEF Listed

(* The last step of an iterator: what it saw is listed.                    *)
LEMMA YieldedListed ==
    ASSUME IInv, NEW w \in Workers, worker[w].pc = "iterate", Reads.stepwise => worker[w].cursor = {},
           NEW r, r = Current(w), NEW q \in Yielded(w)
    PROVE  /\ Listed(Since(r.id[1], r.server), r.server, Selected(r), Seen(q)) /\ Seen(q) \in SUBSET Pairs
           /\ worker[w].queue # <<>> /\ r.type = "ITERATE" /\ (Reads.exclusive => lock[r.server] = w)
  <1>. PICK s, c, x, C, m : s = r.server /\ c = r.id[1] /\ x = worker[w] /\ C = Since(c, s) /\ m = Selected(r)
    OBVIOUS
  <1>1. Working(w)
    BY DEF IInv
  <1>2. Listing(x, r, C) /\ (Reads.exclusive => lock[s] = w)
    BY <1>1 DEF Working
  <1>3. /\ x.queue # <<>> /\ r.type = "ITERATE"
        /\ ~Reads.stepwise => \E d \in C : x.cursor = PairsOf(d, Found(d, m))
        /\ Reads.stepwise => Stepped(x, r, C)
    BY <1>2 DEF Listing
  <1>4. r \in Messages /\ s \in Servers /\ c \in Clients
    BY <1>3, CurrentMessage
  <1>5. m \in SUBSET Keys
    BY <1>4 DEF Messages, Selected
  <1>6. CASE Reads.stepwise
    <2>1. q = x.answer.values
      BY <1>6 DEF Yielded
    <2>2. x.cursor = {} /\ Selected(r) = m /\ Stepped(x, r, C)
      BY <1>3, <1>6
    <2>3. Listed(C, s, m, Seen(q)) /\ Seen(q) \in SUBSET Pairs
      BY <1>4, <1>5, <1>6, <2>1, <2>2, SteppedListed, Zenon
    <2>. QED BY <1>2, <1>3, <2>3
  <1>7. CASE ~Reads.stepwise
    <2>1. PICK d \in C : x.cursor = PairsOf(d, Found(d, m))
      BY <1>3, <1>7
    <2>2. d \in States /\ Proper(s, d)
      <3>1. PICK n \in client[c].since[s] .. Len(versions[s]) : d = versions[s][n]
        BY DEF Since
      <3>2. client[c].since[s] \in 1 .. Len(versions[s]) /\ versions[s] \in Seq(States)
        BY <1>4 DEF IInv, TypeOK, Kept
      <3>3. n \in 1 .. Len(versions[s])
        BY <3>2
      <3>4. d \in States
        BY <3>1, <3>2, <3>3, ElementOfSeq
      <3>. QED BY <1>4, <3>1, <3>3, <3>4 DEF IInv, Kept
    <2>3. q \in Orders(PairsOf(d, Found(d, m))) /\ (Reads.sorted => Ascending(q))
      BY <1>7, <2>1 DEF Yielded
    <2>4. Listed(C, s, m, Seen(q)) /\ Seen(q) \in SUBSET Pairs
      BY <1>4, <1>5, <1>7, <2>2, <2>3, SeenListed
    <2>. QED BY <1>2, <1>3, <2>4
  <1>. QED BY <1>6, <1>7

(* The pairs an iterator has yielded are those of a state since the        *)
(* request, up to the first empty value.                                   *)
LEMMA IterateEndKeeps ==
    ASSUME IInv, NEW w \in Workers, IterateEnd(w)
    PROVE  IInv'
  <1>. PICK r, s, c, x : r = Current(w) /\ s = r.server /\ c = r.id[1] /\ x = worker[w]
    OBVIOUS
  <1>1. /\ x.pc = "iterate" /\ (Reads.stepwise => x.cursor = {})
        /\ Leave(w) /\ UNCHANGED <<backend, versions, synced, client, promised>>
    BY DEF IterateEnd
  <1>. PICK q \in Yielded(w) : Replied(w, [NoAnswer EXCEPT !.pairs = Seen(q)])
    BY DEF IterateEnd
  <1>. PICK g, a : g = Seen(q) /\ a = [NoAnswer EXCEPT !.pairs = g]
    OBVIOUS
  <1>2. /\ Listed(Since(c, s), s, Selected(r), g) /\ g \in SUBSET Pairs
        /\ x.queue # <<>> /\ r.type = "ITERATE"
    BY <1>1, YieldedListed
  <1>3. x \in WorkerStates /\ r \in Messages /\ s \in Servers /\ c \in Clients
    BY <1>2, CurrentMessage
  <1>4. a \in Answers /\ a.pairs = g
    BY <1>2, NoAnswerYet DEF Answers
  <1>5. SinceNext(c, s) = Since(c, s)
    BY <1>1 DEF SinceNext, Since
  <1>6. Answered(SinceNext(c, s), ForcedNext(s), s, r, a)
    BY <1>2, <1>4, <1>5 DEF Answered, Effective
  <1>7. /\ versions' \in [Servers -> Seq(States)] /\ synced' \in [Servers -> Nat] /\ Grown
        /\ \A t \in Servers : /\ synced'[t] <= Len(versions'[t])
                              /\ \A n \in 1 .. Len(versions'[t]) : Proper(t, versions'[t][n])
                              /\ versions'[t] = versions[t]
    <2>1. \A t \in Servers : Len(versions[t]) \in Nat /\ synced[t] \in Nat
      BY DEF IInv, TypeOK
    <2>. QED BY <1>1, <2>1 DEF IInv, TypeOK, Kept, Grown
  <1>. QED BY <1>1, <1>2, <1>4, <1>6, <1>7, RepliedKeeps, Zenon

(* Client c goes from one state to the next; P is the new one.             *)
Asks(c, P) ==
    /\ P \in ClientStates /\ client' = [client EXCEPT ![c] = P]
    /\ \A s \in Servers : P.since[s] \in 1 .. Len(versions[s])
    /\ Asking(c, P)
    /\ P.since = client[c].since \/ client[c].pc # "wait"
    /\ worker' \in [Workers -> WorkerStates]
    /\ UNCHANGED <<backend, versions, synced, lock>>

(* The other clients and the databases stay as they are.                   *)
LEMMA AsksAlone ==
    ASSUME IInv, NEW c \in Clients, NEW P, Asks(c, P)
    PROVE  /\ client'[c] = P /\ \A d \in Clients \ {c} : client'[d] = client[d]
           /\ UNCHANGED <<backend, versions, synced, lock>>
           /\ \A s \in Servers : /\ ForcedNext(s) = Forced(s)
                                 /\ \A d \in Clients \ {c} : SinceNext(d, s) = Since(d, s)
                                 /\ P.since = client[c].since => SinceNext(c, s) = Since(c, s)
  <1>1. client'[c] = P /\ \A d \in Clients \ {c} : client'[d] = client[d]
    BY DEF Asks, IInv, TypeOK
  <1>2. UNCHANGED <<backend, versions, synced, lock>>
    BY DEF Asks
  <1>. QED BY <1>1, <1>2 DEF Forced, ForcedNext, Since, SinceNext

(* The types and the databases.                                            *)
LEMMA AsksKept ==
    ASSUME IInv, NEW c \in Clients, NEW P, Asks(c, P)
    PROVE  TypeOK' /\ Kept'
  <1>1. /\ client'[c] = P /\ \A d \in Clients \ {c} : client'[d] = client[d]
        /\ UNCHANGED <<backend, versions, synced, lock>>
    BY AsksAlone
  <1>2. TypeOK'
    <2>1. client' \in [Clients -> ClientStates]
      BY DEF Asks, IInv, TypeOK
    <2>2. ClientStates' = ClientStates /\ WorkerStates' = WorkerStates
      BY DEF ClientStates, WorkerStates, Workers, Pool
    <2>. QED BY <1>1, <2>1, <2>2 DEF Asks, IInv, TypeOK, Workers, Pool
  <1>3. Kept'
    <2>1. \A s, d : Proper(s, d)' = Proper(s, d)
      BY <1>1, Fixed
    <2>2. \A s \in Servers : \A d \in Clients : client'[d].since[s] \in 1 .. Len(versions[s])
      BY <1>1 DEF Asks, IInv, Kept
    <2>3. \A s \in Servers : /\ synced[s] \in 1 .. Len(versions[s])
                             /\ \A n \in 1 .. Len(versions[s]) : Proper(s, versions[s][n])
      BY DEF IInv, Kept
    <2>4. \A s \in Servers : \A n \in 1 .. Len(versions[s]) : Proper(s, versions[s][n])'
      BY <1>1, <2>1, <2>3
    <2>. QED BY <1>1, <2>2, <2>3, <2>4 DEF Kept
  <1>. QED BY <1>2, <1>3

(* A worker goes on with its message, whoever else asks something.         *)
LEMMA AsksWorking ==
    ASSUME IInv, NEW c \in Clients, NEW P, Asks(c, P), NEW u \in Workers, NEW x, x = worker[u],
           NEW y, y = worker'[u],
           y.pc = x.pc, y.i = x.i, y.writes = x.writes, y.answer = x.answer, y.cursor = x.cursor,
           x.queue # <<>> => y.queue # <<>> /\ Head(y.queue) = Head(x.queue)
    PROVE  Working(u)'
  <1>. SUFFICES ASSUME x.pc \in {"op", "iterate"} PROVE Working(u)'
    BY DEF Working
  <1>. PICK r, s, d : r = Current(u) /\ s = r.server /\ d = r.id[1]
    OBVIOUS
  <1>1. Working(u)
    BY DEF IInv
  <1>2. x.queue # <<>>
    BY <1>1 DEF Working, Batching, Listing
  <1>3. x \in WorkerStates /\ s \in Servers /\ d \in Clients /\ Sound(r) /\ (r.confirm => Awaited(u, r, client[d]))
    BY <1>2, CurrentMessage
  <1>4. UNCHANGED <<backend, versions, synced, lock>> /\ Current(u)' = r
    BY <1>2, AsksAlone DEF Current
  <1>5. r.confirm => SinceNext(d, s) = Since(d, s)
    <2>1. r.confirm => client[d].pc = "wait"
      BY <1>3 DEF Awaited
    <2>2. r.confirm /\ d = c => P.since = client[c].since
      BY <2>1 DEF Asks
    <2>. QED BY <1>3, <2>2, AsksAlone
  <1>6. Last(versions'[s]) = Store(s)
    BY <1>4 DEF Store
  <1>7. ASSUME x.pc = "op"
        PROVE  Batching(y, r, SinceNext(d, s), Last(versions'[s])) /\ (Writes.exclusive => lock'[s] = u)
    <2>1. Batching(x, r, Since(d, s), Store(s)) /\ (Writes.exclusive => lock[s] = u)
      BY <1>1, <1>7 DEF Working
    <2>2. Batching(x, r, SinceNext(d, s), Store(s))
      BY <1>3, <1>5, <2>1, BatchGrows DEF IInv
    <2>3. Batching(y, r, SinceNext(d, s), Store(s))
      <3>1. \A D, f : Putting(x, r, D) => Putting(y, r, D)
        BY DEF Putting
      <3>2. \A D, f : Deleting(x, r, D, f) => Deleting(y, r, D, f)
        BY DEF Deleting
      <3>3. \A D : Getting(x, r, D) => Getting(y, r, D)
        BY DEF Getting
      <3>. QED BY <1>2, <2>2, <3>1, <3>2, <3>3 DEF Batching
    <2>. QED BY <1>4, <1>6, <2>1, <2>3
  <1>8. ASSUME x.pc = "iterate"
        PROVE  /\ Listing(y, r, SinceNext(d, s)) /\ (Reads.exclusive => lock'[s] = u)
               /\ Looked(y, r, client'[d].since[s], Len(versions'[s]))
    <2>1. /\ Listing(x, r, Since(d, s)) /\ (Reads.exclusive => lock[s] = u)
          /\ Looked(x, r, client[d].since[s], Len(versions[s]))
      BY <1>1, <1>8 DEF Working
    <2>2. Listing(x, r, SinceNext(d, s))
      BY <1>3, <1>5, <2>1 DEF Listing, Sound
    <2>3. Listing(y, r, SinceNext(d, s))
      BY <1>2, <2>2 DEF Listing, Stepped
    <2>4. client'[d].since = client[d].since
      <3>1. client[d].pc = "wait"
        BY <1>3, <2>1 DEF Listing, Sound, Awaited
      <3>. QED BY <1>3, <3>1, AsksAlone DEF Asks
    <2>. QED BY <1>4, <2>1, <2>3, <2>4 DEF Looked
  <1>9. /\ \A z, m, D, f : Batching(z, m, D, f)' = Batching(z, m, D, f)
        /\ \A z, m, D : Listing(z, m, D)' = Listing(z, m, D)
        /\ Writes' = Writes /\ Reads' = Reads
    BY <1>4, Fixed
  <1>. QED BY <1>4, <1>7, <1>8, <1>9 DEF Working, Since, SinceNext, Store

(* A worker whose messages client c does not wait for.                     *)
LEMMA AsksTied ==
    ASSUME IInv, NEW c \in Clients, NEW P, Asks(c, P), NEW u \in Workers, client[c].conn # u,
           worker'[u] = worker[u]
    PROVE  Tied(u, worker[u])'
  <1>. PICK q, z : q = worker[u].queue /\ z = worker[u].reply
    OBVIOUS
  <1>1. \A d \in Clients \ {c} : client'[d] = client[d]
    BY AsksAlone
  <1>2. /\ \A j \in 1 .. Len(q) :
              /\ Sound(q[j])
              /\ q[j].confirm => j = Len(q) /\ Awaited(u, q[j], client[q[j].id[1]])
        /\ z # NULL => q = <<>> /\ \E d \in Clients : client[d].conn = u
    BY DEF IInv, Connected, Tied
  <1>3. \A m : Sound(m)' = Sound(m)
    <2>1. UNCHANGED backend
      BY AsksAlone
    <2>. QED BY <2>1, Fixed
  <1>4. ASSUME NEW j \in 1 .. Len(q), q[j].confirm PROVE Awaited(u, q[j], client'[q[j].id[1]])
    <2>1. Awaited(u, q[j], client[q[j].id[1]]) /\ Sound(q[j])
      BY <1>2, <1>4
    <2>2. q[j].id[1] \in Clients /\ q[j].id[1] # c
      BY <2>1, Zenon DEF Sound, Awaited
    <2>. QED BY <1>1, <2>1, <2>2
  <1>5. z # NULL => \E d \in Clients : client'[d].conn = u
    BY <1>1, <1>2
  <1>. QED BY <1>2, <1>3, <1>4, <1>5 DEF Tied

(* What the other clients expect, were told, and what they were told of.   *)
LEMMA AsksOthers ==
    ASSUME IInv, NEW c \in Clients, NEW P, Asks(c, P), NEW d \in Clients \ {c},
           client[d].pc = "wait" => worker'[client[d].conn] = worker[client[d].conn]
    PROVE  /\ Asking(d, client[d])' /\ Expecting(d, client'[d], worker'[client'[d].conn])
           /\ Received(d)'
  <1>. PICK x : x = client[d]
    OBVIOUS
  <1>1. /\ client'[d] = x /\ UNCHANGED <<backend, versions, synced, lock>>
        /\ \A s \in Servers : ForcedNext(s) = Forced(s) /\ SinceNext(d, s) = Since(d, s)
    BY AsksAlone
  <1>2. Received(d) /\ Asking(d, x) /\ Expecting(d, x, worker[x.conn]) /\ x \in ClientStates
    BY DEF IInv, Connected, TypeOK
  <1>3. Asking(d, client[d])'
    BY <1>1, <1>2, Fixed
  <1>4. Expecting(d, client'[d], worker'[client'[d].conn])
    BY <1>1, <1>2 DEF Expecting
  <1>5. Asked \subseteq Servers /\ \A k \in Keys : Home(k) \in Servers
    BY KeyValueAssumption DEF Asked, FirstServer, Home
  <1>6. ReplyTrue(d)'
    <2>. SUFFICES ASSUME x.pc = "wait", worker[x.conn].reply # NULL PROVE ReplyTrue(d)'
      BY <1>1 DEF ReplyTrue
    <2>. PICK a, s : a = worker[x.conn].reply /\ s = a.server
      OBVIOUS
    <2>1. s \in Servers
      <3>1. x.conn \in Workers
        BY <1>2 DEF Asking, ClientStates
      <3>2. worker[x.conn] \in WorkerStates
        BY <3>1 DEF IInv, TypeOK
      <3>. QED BY <3>2, Zenon DEF WorkerStates, Replies
    <2>2. Answered(SinceNext(d, s), ForcedNext(s), s, x.req, a)
      BY <1>1, <1>2, <2>1 DEF Received, ReplyTrue
    <2>3. \A D, F, t, m, b : Answered(D, F, t, m, b)' = Answered(D, F, t, m, b)
      BY <1>1, Fixed
    <2>4. worker'[client'[d].conn].reply = a /\ client'[d] = x
      BY <1>1
    <2>. QED BY <2>2, <2>3, <2>4, Zenon DEF ReplyTrue, Since, SinceNext, Forced, ForcedNext
  <1>7. ListsTrue(d)'
    <2>1. (\A y : Selected(y)' = Selected(y)) /\ Asked' = Asked /\ \A D, s, m, g : Listed(D, s, m, g)' = Listed(D, s, m, g)
      BY <1>1, Fixed
    <2>2. ASSUME x.req # NULL, x.req.type = "ITERATE", x.pc # "idle" \/ x.confirmed, NEW s \in Asked \ x.todo
          PROVE  Listed(SinceNext(d, s), s, Selected(x.req), x.got[s])
      BY <1>1, <1>2, <1>5, <2>2 DEF Received, ListsTrue
    <2>. QED BY <1>1, <2>1, <2>2, Zenon DEF ListsTrue, Since, SinceNext
  <1>8. ResultsTrue(d)'
    <2>1. /\ \A k : Home(k)' = Home(k)
          /\ \A D, m, a : Handed(D, m, a)' = Handed(D, m, a)
          /\ \A D, m : Effective(D, m)' = Effective(D, m)
      BY <1>1, Fixed
    <2>2. ASSUME Finished(d)
          PROVE  /\ Handed(SinceNext(d, Home(x.req.key)), x.req, x.answer)
                 /\ Effective(SinceNext(d, Home(x.req.key)), x.req)
      <3>1. Home(x.req.key) \in Servers
        BY <1>2, <1>5, <2>2 DEF Finished, ClientStates, Messages
      <3>. QED BY <1>1, <1>2, <2>2, <3>1 DEF Received, ResultsTrue
    <2>3. Finished(d)' = Finished(d)
      BY <1>1 DEF Finished
    <2>4. client'[d] = x
      BY <1>1
    <2>. QED BY <2>1, <2>2, <2>3, <2>4, Zenon DEF ResultsTrue, Since, SinceNext
  <1>. QED BY <1>3, <1>4, <1>6, <1>7, <1>8 DEF Received

(* A longer queue.                                                         *)
LEMMA OneMoreMessage ==
    ASSUME NEW S, NEW q \in Seq(S), NEW m \in S
    PROVE  /\ Append(q, m) \in Seq(S) /\ Append(q, m) # <<>> /\ Last(Append(q, m)) = m
           /\ q # <<>> => Head(Append(q, m)) = Head(q)
           /\ \A j \in 1 .. Len(Append(q, m)) :
                 \/ j \in 1 .. Len(q) /\ Append(q, m)[j] = q[j]
                 \/ j = Len(Append(q, m)) /\ Append(q, m)[j] = m
  <1>1. /\ Append(q, m) \in Seq(S) /\ Append(q, m) # <<>> /\ Len(q) \in Nat /\ Len(Append(q, m)) = Len(q) + 1
        /\ \A j \in 1 .. Len(Append(q, m)) :
              \/ j \in 1 .. Len(q) /\ Append(q, m)[j] = q[j]
              \/ j = Len(q) + 1 /\ Append(q, m)[j] = m
    BY OneMoreWrite
  <1>2. Last(Append(q, m)) = m
    <2>1. Len(q) + 1 \in 1 .. Len(Append(q, m)) /\ Len(q) + 1 \notin 1 .. Len(q)
      BY <1>1
    <2>. QED BY <1>1, <2>1 DEF Last
  <1>3. ASSUME q # <<>> PROVE Head(Append(q, m)) = Head(q)
    <2>1. Len(q) # 0
      BY <1>3, NoElement
    <2>2. 1 \in 1 .. Len(Append(q, m)) /\ 1 # Len(q) + 1
      BY <1>1, <2>1
    <2>3. Append(q, m)[1] = q[1]
      BY <1>1, <2>2
    <2>. QED BY <1>1, <1>3, <2>3
  <1>. QED BY <1>1, <1>2, <1>3

(* A channel is nobody's.                                                  *)
LEMMA FreeChannel ==
    ASSUME IInv, NEW c \in Clients, client[c].conn = NULL, NEW s, NEW w \in Workers, w \in Channels(c, s)
    PROVE  /\ \A d \in Clients : client[d].conn # w
           /\ \A j \in 1 .. Len(worker[w].queue) : Sound(worker[w].queue[j]) /\ ~worker[w].queue[j].confirm
           /\ worker[w].reply = NULL
  <1>1. w # NULL
    BY KeyValueAssumption DEF Workers, Pool
  <1>2. \A d \in Clients : client[d].conn # w
    <2>1. CASE InProcess
      <3>1. w = c
        BY <2>1 DEF Channels
      <3>2. \A d \in Clients : client[d].conn \in {d, NULL}
        BY <2>1 DEF IInv, Connected, Asking
      <3>. QED BY <1>1, <3>1, <3>2
    <2>2. CASE ~InProcess
      BY <2>2 DEF Channels
    <2>. QED BY <2>1, <2>2
  <1>3. Tied(w, worker[w])
    BY DEF IInv, Connected
  <1>4. ASSUME NEW j \in 1 .. Len(worker[w].queue)
        PROVE  Sound(worker[w].queue[j]) /\ ~worker[w].queue[j].confirm
    <2>. PICK m : m = worker[w].queue[j]
      OBVIOUS
    <2>1. Sound(m) /\ (m.confirm => Awaited(w, m, client[m.id[1]]))
      BY <1>3 DEF Tied
    <2>2. m.id[1] \in Clients
      BY <2>1 DEF Sound
    <2>. QED BY <1>2, <2>1, <2>2 DEF Awaited
  <1>5. worker[w].reply = NULL
    BY <1>2, <1>3 DEF Tied
  <1>. QED BY <1>2, <1>4, <1>5

(* Client c sends message m.                                               *)
LEMMA SendKeeps ==
    ASSUME IInv, NEW c \in Clients, NEW P, Asks(c, P), NEW w \in Workers, NEW m \in Messages,
           w \in Channels(c, m.server), client[c].conn = NULL, UNCHANGED promised,
           worker' = [worker EXCEPT ![w].queue = Append(@, m)], Sound(m), m.id[1] = c,
           m.confirm => Awaited(w, m, P),
           ~m.confirm => P.conn = NULL,
           ListsTrue(c)', ResultsTrue(c)'
    PROVE  IInv'
  <1>. PICK x, q, h : x = worker[w] /\ q = x.queue /\ h = Append(q, m)
    BY Zenon
  <1>. DEFINE y == [x EXCEPT !.queue = h]
  <1>1. /\ client'[c] = P /\ \A d \in Clients \ {c} : client'[d] = client[d]
        /\ UNCHANGED <<backend, versions, synced, lock>>
    BY AsksAlone
  <1>2. x \in WorkerStates /\ q \in Seq(Messages)
    BY Zenon DEF IInv, TypeOK, WorkerStates
  <1>3. /\ h \in Seq(Messages) /\ h # <<>> /\ Last(h) = m
        /\ q # <<>> => Head(h) = Head(q)
        /\ \A j \in 1 .. Len(h) : \/ j \in 1 .. Len(q) /\ h[j] = q[j]
                                  \/ j = Len(h) /\ h[j] = m
    BY <1>2, OneMoreMessage
  <1>4. /\ worker'[w] = y /\ \A u \in Workers \ {w} : worker'[u] = worker[u]
        /\ y.queue = h /\ y.pc = x.pc /\ y.i = x.i /\ y.writes = x.writes /\ y.answer = x.answer
        /\ y.cursor = x.cursor /\ y.reply = x.reply
    <2>1. worker' = [worker EXCEPT ![w] = y]
      OBVIOUS
    <2>2. worker'[w] = y /\ \A u \in Workers \ {w} : worker'[u] = worker[u]
      BY <2>1 DEF IInv, TypeOK
    <2>3. /\ y.queue = h /\ y.pc = x.pc /\ y.i = x.i /\ y.writes = x.writes /\ y.answer = x.answer
          /\ y.cursor = x.cursor /\ y.reply = x.reply
      BY <1>2 DEF WorkerStates
    <2>. QED BY <2>2, <2>3
  <1>. HIDE DEF y
  <1>5. /\ \A d \in Clients : client[d].conn # w
        /\ \A j \in 1 .. Len(q) : Sound(q[j]) /\ ~q[j].confirm
        /\ x.reply = NULL
    BY FreeChannel
  <1>6. /\ P.pc = "wait" <=> P.conn # NULL
        /\ m.confirm => P.pc = "wait" /\ P.conn = w
    BY DEF Asks, Asking, Awaited
  <1>7. \A r : Sound(r)' = Sound(r)
    BY <1>1, Fixed
  <1>8. Tied(w, worker[w])'
    <2>1. ASSUME NEW j \in 1 .. Len(h)
          PROVE  /\ Sound(h[j])
                 /\ h[j].confirm => j = Len(h) /\ Awaited(w, h[j], client'[h[j].id[1]])
      <3>1. CASE j \in 1 .. Len(q) /\ h[j] = q[j]
        BY <1>5, <3>1
      <3>2. CASE j = Len(h) /\ h[j] = m
        BY <1>1, <3>2
      <3>. QED BY <1>3, <3>1, <3>2
    <2>. QED BY <1>4, <1>5, <1>7, <2>1 DEF Tied
  <1>9. ASSUME NEW u \in Workers, u # w PROVE Tied(u, worker[u])'
    <2>1. u # NULL
      BY KeyValueAssumption DEF Workers, Pool
    <2>. QED BY <1>4, <1>9, <2>1, AsksTied
  <1>10. ASSUME NEW d \in Clients \ {c}
         PROVE  /\ Asking(d, client[d])' /\ Expecting(d, client'[d], worker'[client'[d].conn])
                /\ Received(d)'
    <2>1. client[d].pc = "wait" => worker'[client[d].conn] = worker[client[d].conn]
      <3>1. client[d].pc = "wait" => client[d].conn \in Workers
        BY DEF IInv, Connected, Asking, TypeOK, ClientStates
      <3>. QED BY <1>4, <1>5, <3>1
    <2>. QED BY <2>1, AsksOthers, Zenon
  <1>11. Asking(c, client[c])'
    <2>1. Asking(c, P)
      BY DEF Asks
    <2>. QED BY <1>1, <2>1, Fixed
  <1>12. Expecting(c, client'[c], worker'[client'[c].conn])
    <2>. SUFFICES ASSUME P.pc = "wait" PROVE Expecting(c, P, worker'[P.conn])
      BY <1>1 DEF Expecting
    <2>1. m.confirm /\ P.conn = w
      BY <1>6
    <2>2. y.queue # <<>> /\ Last(y.queue).confirm /\ Last(y.queue).id[1] = c /\ y.reply = NULL
      BY <1>3, <1>4, <1>5, <2>1
    <2>. QED BY <1>4, <2>1, <2>2, Zenon DEF Expecting
  <1>13. \A d, e \in Clients : client'[d].conn = client'[e].conn /\ client'[d].conn # NULL => d = e
    <2>1. \A d \in Clients \ {c} : client'[d].conn # w
      BY <1>1, <1>5
    <2>2. P.conn \in {w, NULL}
      BY <1>6
    <2>3. \A d, e \in Clients : client[d].conn = client[e].conn /\ client[d].conn # NULL => d = e
      BY DEF IInv, Connected
    <2>. QED BY <1>1, <2>1, <2>2, <2>3
  <1>14. Connected'
    <2>1. \A u \in Workers : Tied(u, worker[u])'
      BY <1>8, <1>9, Zenon
    <2>2. \A d \in Clients : Asking(d, client[d])' /\ Expecting(d, client'[d], worker'[client'[d].conn])
      BY <1>10, <1>11, <1>12, Zenon
    <2>. QED BY <1>13, <2>1, <2>2, Zenon DEF Connected, Expecting, Workers, Pool
  <1>15. Received(c)'
    <2>1. ReplyTrue(c)'
      <3>1. P.pc = "wait" => worker'[P.conn].reply = NULL
        BY <1>4, <1>5, <1>6
      <3>. QED BY <1>1, <3>1 DEF ReplyTrue
    <2>. QED BY <2>1 DEF Received
  <1>16. ASSUME NEW u \in Workers PROVE Working(u)'
    <2>1. CASE u = w
      <3>. PICK z : z = worker'[w]
        BY Zenon
      <3>1. /\ z.pc = x.pc /\ z.i = x.i /\ z.writes = x.writes /\ z.answer = x.answer /\ z.cursor = x.cursor
            /\ x.queue # <<>> => z.queue # <<>> /\ Head(z.queue) = Head(x.queue)
        BY <1>3, <1>4
      <3>2. IInv /\ c \in Clients /\ Asks(c, P) /\ w \in Workers /\ x = worker[w] /\ z = worker'[w]
        OBVIOUS
      <3>3. Working(w)'
        BY ONLY <3>1, <3>2, AsksWorking
      <3>. QED BY <2>1, <3>3
    <2>2. CASE u # w
      <3>. PICK z, v : z = worker'[u] /\ v = worker[u]
        BY Zenon
      <3>1. z = v
        BY <1>4, <2>2
      <3>. QED BY <3>1, AsksWorking, Zenon
    <2>. QED BY <2>1, <2>2
  <1>17. Durable'
    BY <1>1 DEF IInv, Durable, Has, Forced
  <1>18. TypeOK' /\ Kept'
    BY AsksKept
  <1>. QED BY <1>10, <1>14, <1>15, <1>16, <1>17, <1>18 DEF IInv, Workers, Pool

(* Client c asks nobody yet.                                               *)
LEMMA StartKeeps ==
    ASSUME IInv, NEW c \in Clients, NEW P, Asks(c, P), client[c].conn = NULL, P.conn = NULL,
           UNCHANGED <<worker, promised>>, ListsTrue(c)', ResultsTrue(c)'
    PROVE  IInv'
  <1>1. /\ client'[c] = P /\ \A d \in Clients \ {c} : client'[d] = client[d]
        /\ UNCHANGED <<backend, versions, synced, lock>>
    BY AsksAlone
  <1>2. P.pc # "wait" /\ Asking(c, P)
    BY DEF Asks, Asking
  <1>3. ASSUME NEW u \in Workers PROVE Tied(u, worker[u])' /\ Working(u)'
    <2>. PICK x, y : x = worker[u] /\ y = worker'[u]
      OBVIOUS
    <2>1. u # NULL
      BY KeyValueAssumption DEF Workers, Pool
    <2>2. Tied(u, worker[u])'
      BY <2>1, AsksTied
    <2>3. x = y
      OBVIOUS
    <2>4. Working(u)'
      BY <2>3, AsksWorking
    <2>. QED BY <2>2, <2>4
  <1>4. ASSUME NEW d \in Clients \ {c}
         PROVE  /\ Asking(d, client[d])' /\ Expecting(d, client'[d], worker'[client'[d].conn])
                /\ Received(d)'
    BY AsksOthers
  <1>5. Asking(c, client[c])'
    BY <1>1, <1>2, Fixed
  <1>6. Expecting(c, client'[c], worker'[client'[c].conn])
    BY <1>1, <1>2 DEF Expecting
  <1>7. \A d, e \in Clients : client'[d].conn = client'[e].conn /\ client'[d].conn # NULL => d = e
    <2>1. \A d, e \in Clients : client[d].conn = client[e].conn /\ client[d].conn # NULL => d = e
      BY DEF IInv, Connected
    <2>. QED BY <1>1, <2>1
  <1>8. Connected'
    <2>1. \A u \in Workers : Tied(u, worker[u])'
      BY <1>3
    <2>2. \A d \in Clients : Asking(d, client[d])' /\ Expecting(d, client'[d], worker'[client'[d].conn])
      BY <1>4, <1>5, <1>6
    <2>. QED BY <1>7, <2>1, <2>2 DEF Connected, Expecting, Workers, Pool
  <1>9. Received(c)'
    <2>1. ReplyTrue(c)'
      BY <1>1, <1>2 DEF ReplyTrue
    <2>. QED BY <2>1 DEF Received
  <1>10. Durable'
    BY <1>1 DEF IInv, Durable, Has, Forced
  <1>11. TypeOK' /\ Kept'
    BY AsksKept
  <1>. QED BY <1>3, <1>4, <1>8, <1>9, <1>10, <1>11 DEF IInv, Workers, Pool

(* The message that is sent.                                               *)
LEMMA SentMessage ==
    ASSUME NEW r \in Messages, NEW i \in Clients \X Nat, NEW s \in Servers, NEW b \in BOOLEAN,
           NEW p, p = [r EXCEPT !.id = i],
           NEW m, m = [r EXCEPT !.id = i, !.server = s, !.confirm = b]
    PROVE  /\ p \in Messages /\ m \in Messages
           /\ p.id = i /\ p.type = r.type /\ p.key = r.key /\ p.persistency = r.persistency
           /\ m.id = i /\ m.type = r.type /\ m.key = r.key /\ m.server = s /\ m.confirm = b
           /\ b => m = [p EXCEPT !.server = s, !.confirm = TRUE]
  BY Zenon DEF Messages

(* A client that has asked nothing.                                        *)
LEMMA IdleClients ==
    /\ IdleClient \in ClientStates /\ IdleClient.pc = "idle" /\ IdleClient.conn = NULL /\ IdleClient.todo = {}
    /\ IdleClient.req = NULL /\ IdleClient.confirmed = FALSE /\ \A s \in Servers : IdleClient.since[s] = 1
  <1>1. IdleClient \in ClientStates
    <2>1. [s \in Servers |-> 1] \in [Servers -> Nat] /\ [s \in Servers |-> {}] \in [Servers -> SUBSET Pairs]
      OBVIOUS
    <2>. PICK f, g : f = [s \in Servers |-> 1] /\ g = [s \in Servers |-> {}]
      BY Zenon
    <2>2. IdleClient = [pc |-> "idle", n |-> 0, req |-> NULL, conn |-> NULL, todo |-> {}, since |-> f,
                        answer |-> NoAnswer, got |-> g, confirmed |-> FALSE]
      BY DEF IdleClient
    <2>3. f \in [Servers -> Nat] /\ g \in [Servers -> SUBSET Pairs]
      BY <2>1
    <2>. QED BY <2>2, <2>3, NoAnswerYet DEF ClientStates
  <1>2. /\ IdleClient.pc = "idle" /\ IdleClient.conn = NULL /\ IdleClient.todo = {}
        /\ IdleClient.req = NULL /\ IdleClient.confirmed = FALSE
        /\ IdleClient.since = [s \in Servers |-> 1]
    BY DEF IdleClient
  <1>. QED BY <1>1, <1>2

(* A client that begins a request.                                         *)
LEMMA StartedClient ==
    ASSUME IInv, NEW c \in Clients, NEW r \in Messages, NEW P, P = Started(c, r),
           NEW n, n = client[c].n + 1, NEW q, q = [r EXCEPT !.id = <<c, n>>]
    PROVE  /\ P \in ClientStates /\ P.pc = "idle" /\ P.conn = NULL /\ P.todo = {} /\ ~P.confirmed
           /\ P.req = q /\ q \in Messages /\ P.n = n /\ n \in Nat
           /\ \A s \in Servers : P.since[s] \in 1 .. Len(versions[s])
  <1>. PICK f, z : f = [s \in Servers |-> Len(versions[s])] /\ z = IdleClient
    BY Zenon
  <1>1. P = [z EXCEPT !.n = n, !.req = q, !.since = f]
    BY DEF Started
  <1>2. z \in ClientStates /\ z.pc = "idle" /\ z.conn = NULL /\ z.todo = {} /\ ~z.confirmed
    BY IdleClients
  <1>3. n \in Nat
    BY DEF IInv, TypeOK, ClientStates
  <1>4. <<c, n>> \in Clients \X Nat
    BY <1>3
  <1>5. q \in Messages
    BY <1>4, SentMessage, Zenon DEF Messages
  <1>6. f \in [Servers -> Nat] /\ \A s \in Servers : f[s] \in 1 .. Len(versions[s])
    <2>1. \A s \in Servers : Len(versions[s]) \in Nat /\ Len(versions[s]) # 0
      BY StoreSince
    <2>. QED BY <2>1
  <1>7. P \in ClientStates
    BY <1>1, <1>2, <1>3, <1>5, <1>6, Zenon DEF ClientStates
  <1>8. /\ P.pc = "idle" /\ P.conn = NULL /\ P.todo = {} /\ ~P.confirmed
        /\ P.req = q /\ P.n = n /\ P.since = f
    BY <1>1, <1>2 DEF ClientStates
  <1>. QED BY <1>3, <1>5, <1>6, <1>7, <1>8

(* The server of a key is one of those that are asked.                     *)
LEMMA Homes ==
    /\ Asked \subseteq Servers /\ Asked # {} /\ \A k \in Keys : Home(k) \in Servers /\ Home(k) \in Asked
  BY KeyValueAssumption DEF Asked, FirstServer, Home

(* A worker with one more message.                                         *)
LEMMA QueueTyped ==
    ASSUME IInv, NEW w \in Workers, NEW m \in Messages, worker' = [worker EXCEPT ![w].queue = Append(@, m)]
    PROVE  worker' \in [Workers -> WorkerStates]
  <1>. PICK x, h : x = worker[w] /\ h = Append(x.queue, m)
    BY Zenon
  <1>1. x \in WorkerStates /\ worker \in [Workers -> WorkerStates]
    BY DEF IInv, TypeOK
  <1>2. h \in Seq(Messages)
    BY <1>1, OneMoreMessage DEF WorkerStates
  <1>3. [x EXCEPT !.queue = h] \in WorkerStates
    BY <1>1, <1>2, Zenon DEF WorkerStates
  <1>4. worker' = [worker EXCEPT ![w] = [x EXCEPT !.queue = h]]
    OBVIOUS
  <1>. QED BY <1>1, <1>3, <1>4

(* Nothing is handed out before a request has returned.                    *)
LEMMA NothingHanded ==
    ASSUME NEW c \in Clients, NEW P, client'[c] = P, ~P.confirmed
    PROVE  ResultsTrue(c)'
  BY DEF ResultsTrue, Finished

(* j_kv_put_exec, j_kv_delete_exec and j_kv_get_exec: the message is the   *)
(* last of its connection, and somebody waits for it if it is to be        *)
(* confirmed.                                                              *)
LEMMA ListExecKeeps ==
    ASSUME IInv, NEW c \in Clients, NEW r \in Messages, NEW w \in Workers, ListExec(c, r, w)
    PROVE  IInv'
  <1>. PICK s, n, i, q, b, S : /\ s = Home(r.key) /\ n = client[c].n + 1 /\ i = <<c, n>>
                               /\ q = [r EXCEPT !.id = i] /\ b = Waits(r) /\ S = Started(c, r)
    BY Zenon
  <1>. PICK m, P : /\ m = [r EXCEPT !.id = i, !.server = s, !.confirm = b]
                   /\ P = IF b THEN [S EXCEPT !.pc = "wait", !.conn = w, !.todo = {s}] ELSE S
    OBVIOUS
  <1>1. /\ client[c].pc = "idle" /\ r.type # "ITERATE" /\ w \in Channels(c, s)
        /\ worker' = [worker EXCEPT ![w].queue = Append(@, m)] /\ client' = [client EXCEPT ![c] = P]
        /\ UNCHANGED <<backend, versions, synced, lock, promised>>
    BY DEF ListExec, Send
  <1>2. client[c].conn = NULL
    BY <1>1 DEF IInv, Connected, Asking
  <1>3. r.key \in Keys /\ s \in Servers /\ s \in Asked /\ b \in BOOLEAN
    BY Homes DEF Messages, Waits
  <1>4. /\ S \in ClientStates /\ S.pc = "idle" /\ S.conn = NULL /\ S.todo = {} /\ ~S.confirmed
        /\ S.req = q /\ q \in Messages /\ S.n = n /\ n \in Nat
        /\ \A t \in Servers : S.since[t] \in 1 .. Len(versions[t])
    BY StartedClient
  <1>5. i \in Clients \X Nat /\ i[1] = c
    BY <1>4
  <1>6. /\ m \in Messages /\ q.id = i /\ q.type = r.type /\ q.key = r.key
        /\ m.id = i /\ m.type = r.type /\ m.key = r.key /\ m.server = s /\ m.confirm = b
        /\ b => m = [q EXCEPT !.server = s, !.confirm = TRUE]
    <2>1. /\ r \in Messages /\ i \in Clients \X Nat /\ s \in Servers /\ b \in BOOLEAN
          /\ q = [r EXCEPT !.id = i] /\ m = [r EXCEPT !.id = i, !.server = s, !.confirm = b]
      BY <1>3, <1>5
    <2>. QED BY ONLY <2>1, Zenon DEF Messages
  <1>7. w # NULL /\ q # NULL
    BY <1>4, KeyValueAssumption, Zenon DEF Workers, Pool
  <1>8. /\ P \in ClientStates /\ ~P.confirmed /\ P.req = q /\ P.n = n /\ P.since = S.since
        /\ b => P.pc = "wait" /\ P.conn = w /\ P.todo = {s}
        /\ ~b => P.pc = "idle" /\ P.conn = NULL /\ P.todo = {}
    <2>1. CASE b
      <3>1. P = [S EXCEPT !.pc = "wait", !.conn = w, !.todo = {s}]
        BY <2>1
      <3>. PICK T : T = {s}
        BY Zenon
      <3>2. P \in ClientStates
        <4>1. T \in SUBSET Servers /\ w \in Workers /\ P = [S EXCEPT !.pc = "wait", !.conn = w, !.todo = T]
          BY <1>3, <3>1
        <4>. QED BY ONLY <1>4, <4>1, Zenon DEF ClientStates
      <3>3. /\ P.pc = "wait" /\ P.conn = w /\ P.todo = {s} /\ P.req = S.req /\ P.n = S.n
            /\ P.since = S.since /\ P.confirmed = S.confirmed
        BY ONLY <1>4, <3>1 DEF ClientStates
      <3>. QED BY <1>4, <2>1, <3>2, <3>3
    <2>2. CASE ~b
      BY <1>4, <2>2
    <2>. QED BY <1>3, <2>1, <2>2
  <1>9. Asking(c, P)
    <2>1. InProcess => w = c
      BY <1>1 DEF Channels
    <2>2. q.id = <<c, P.n>> /\ q.type # "ITERATE" /\ P.todo \subseteq {s} /\ s = Home(q.key)
      BY <1>1, <1>3, <1>6, <1>8
    <2>. QED BY <1>3, <1>7, <1>8, <2>1, <2>2, Zenon DEF Asking
  <1>10. Asks(c, P)
    <2>1. worker' \in [Workers -> WorkerStates]
      BY <1>1, <1>6, QueueTyped, Zenon
    <2>. QED BY <1>1, <1>4, <1>8, <1>9, <2>1 DEF Asks
  <1>11. Sound(m)
    BY <1>1, <1>3, <1>5, <1>6 DEF Sound
  <1>12. m.confirm => Awaited(w, m, P)
    BY <1>6, <1>8, Zenon DEF Awaited
  <1>13. client'[c] = P
    BY <1>10, AsksAlone
  <1>14. ListsTrue(c)' /\ ResultsTrue(c)'
    <2>1. ListsTrue(c)'
      BY <1>1, <1>6, <1>8, <1>13 DEF ListsTrue
    <2>. QED BY <1>8, <1>13, <2>1, NothingHanded, Zenon
  <1>15. w \in Channels(c, m.server) /\ m.id[1] = c /\ (~m.confirm => P.conn = NULL)
    BY <1>1, <1>5, <1>6, <1>8
  <1>. QED BY <1>1, <1>2, <1>6, <1>10, <1>11, <1>12, <1>14, <1>15, SendKeeps, Zenon

(* j_kv_iterator_new: nobody is asked yet.                                 *)
LEMMA IteratorNewKeeps ==
    ASSUME IInv, NEW c \in Clients, NEW r \in Messages, IteratorNew(c, r)
    PROVE  IInv'
  <1>. PICK n, q, S : n = client[c].n + 1 /\ q = [r EXCEPT !.id = <<c, n>>] /\ S = Started(c, r)
    BY Zenon
  <1>. PICK P : P = [S EXCEPT !.pc = "fetch", !.todo = Asked]
    OBVIOUS
  <1>1. /\ client[c].pc = "idle" /\ r.type = "ITERATE"
        /\ client' = [client EXCEPT ![c] = P]
        /\ UNCHANGED <<backend, versions, synced, lock, worker, promised>>
    BY DEF IteratorNew
  <1>2. client[c].conn = NULL
    BY <1>1 DEF IInv, Connected, Asking
  <1>3. /\ S \in ClientStates /\ S.pc = "idle" /\ S.conn = NULL /\ S.todo = {} /\ ~S.confirmed
        /\ S.req = q /\ q \in Messages /\ S.n = n /\ n \in Nat
        /\ \A t \in Servers : S.since[t] \in 1 .. Len(versions[t])
    BY StartedClient
  <1>4. q.id = <<c, n>> /\ q.type = r.type /\ q # NULL
    <2>1. q # NULL
      BY <1>3, KeyValueAssumption
    <2>2. q.id = <<c, n>> /\ q.type = r.type
      BY ONLY r \in Messages, q = [r EXCEPT !.id = <<c, n>>] DEF Messages
    <2>. QED BY <2>1, <2>2
  <1>5. Asked \subseteq Servers /\ Asked # {}
    BY Homes
  <1>6. /\ P \in ClientStates /\ ~P.confirmed /\ P.req = q /\ P.n = n /\ P.since = S.since
        /\ P.pc = "fetch" /\ P.conn = NULL /\ P.todo = Asked
    BY <1>3, <1>5, Zenon DEF ClientStates
  <1>7. Asking(c, P)
    BY <1>1, <1>4, <1>5, <1>6, Zenon DEF Asking
  <1>8. Asks(c, P)
    BY <1>1, <1>3, <1>6, <1>7 DEF Asks, IInv, TypeOK
  <1>9. client'[c] = P
    BY <1>8, AsksAlone
  <1>10. ListsTrue(c)' /\ ResultsTrue(c)'
    <2>1. Asked' = Asked
      BY <1>1, Fixed
    <2>2. ListsTrue(c)'
      BY <1>6, <1>9, <2>1 DEF ListsTrue
    <2>. QED BY <1>6, <1>9, <2>2, NothingHanded, Zenon
  <1>. QED BY <1>1, <1>2, <1>6, <1>8, <1>10, StartKeeps, Zenon

(* The next server is asked for its pairs.                                 *)
LEMMA FetchReplyKeeps ==
    ASSUME IInv, NEW c \in Clients, NEW s \in Servers, NEW w \in Workers, FetchReply(c, s, w)
    PROVE  IInv'
  <1>. PICK x, r, i, b : x = client[c] /\ r = x.req /\ i = <<c, x.n>> /\ b = Waits(r)
    BY Zenon
  <1>. PICK m, P : /\ m = [r EXCEPT !.id = i, !.server = s, !.confirm = b]
                   /\ P = [x EXCEPT !.pc = "wait", !.conn = w]
    OBVIOUS
  <1>1. /\ x.pc = "fetch" /\ s \in x.todo /\ w \in Channels(c, s)
        /\ worker' = [worker EXCEPT ![w].queue = Append(@, m)] /\ client' = [client EXCEPT ![c] = P]
        /\ UNCHANGED <<backend, versions, synced, lock, promised>>
    BY Zenon DEF FetchReply, Send
  <1>2. x \in ClientStates /\ Asking(c, x) /\ \A t \in Servers : x.since[t] \in 1 .. Len(versions[t])
    BY DEF IInv, TypeOK, Connected, Kept
  <1>3. x.conn = NULL /\ r # NULL /\ r.id = i /\ r.type = "ITERATE" /\ x.todo \subseteq Asked
    BY <1>1, <1>2 DEF Asking
  <1>4. r \in Messages /\ b
    BY <1>2, <1>3, Zenon DEF ClientStates, Waits
  <1>5. i \in Clients \X Nat /\ i[1] = c
    BY <1>2 DEF ClientStates
  <1>. PICK q : q = [r EXCEPT !.id = i]
    BY Zenon
  <1>6. q = r
    BY <1>3, <1>4, Zenon DEF Messages
  <1>7. /\ m \in Messages
        /\ m.id = i /\ m.type = r.type /\ m.key = r.key /\ m.server = s /\ m.confirm = b
        /\ m = [q EXCEPT !.server = s, !.confirm = TRUE]
    <2>1. /\ r \in Messages /\ i \in Clients \X Nat /\ s \in Servers /\ b \in BOOLEAN
          /\ q = [r EXCEPT !.id = i] /\ m = [r EXCEPT !.id = i, !.server = s, !.confirm = b]
      BY <1>4, <1>5
    <2>2. /\ m \in Messages
          /\ m.id = i /\ m.type = r.type /\ m.key = r.key /\ m.server = s /\ m.confirm = b
          /\ b => m = [q EXCEPT !.server = s, !.confirm = TRUE]
      BY ONLY <2>1, Zenon DEF Messages
    <2>. QED BY ONLY <1>4, <2>2
  <1>8. w # NULL
    BY KeyValueAssumption DEF Workers, Pool
  <1>9. /\ P \in ClientStates /\ P.req = r /\ P.n = x.n /\ P.since = x.since /\ P.got = x.got
        /\ P.pc = "wait" /\ P.conn = w /\ P.todo = x.todo
    BY <1>2, Zenon DEF ClientStates
  <1>10. Asking(c, P)
    <2>1. InProcess => w = c
      BY <1>1 DEF Channels
    <2>. QED BY <1>1, <1>2, <1>3, <1>8, <1>9, <2>1 DEF Asking
  <1>11. Asks(c, P)
    <2>1. worker' \in [Workers -> WorkerStates]
      BY <1>1, <1>7, QueueTyped, Zenon
    <2>. QED BY <1>1, <1>2, <1>9, <1>10, <2>1 DEF Asks
  <1>12. Sound(m)
    BY <1>3, <1>4, <1>5, <1>7 DEF Sound
  <1>13. Awaited(w, m, P)
    <2>1. m = [P.req EXCEPT !.server = m.server, !.confirm = TRUE]
      BY <1>6, <1>7, <1>9, Zenon
    <2>. QED BY <1>1, <1>7, <1>9, <2>1 DEF Awaited
  <1>14. client'[c] = P
    BY <1>11, AsksAlone
  <1>15. ListsTrue(c)'
    <2>1. (\A y : Selected(y)' = Selected(y)) /\ Asked' = Asked /\ \A D, t, h, g : Listed(D, t, h, g)' = Listed(D, t, h, g)
      BY <1>1, Fixed
    <2>2. \A t \in Servers : SinceNext(c, t) = Since(c, t)
      BY <1>9, <1>11, AsksAlone, Zenon
    <2>3. \A t \in Asked \ x.todo : Listed(Since(c, t), t, Selected(r), x.got[t])
      <3>1. ListsTrue(c)
        BY DEF IInv, Received
      <3>. QED BY <1>1, <1>3, <3>1 DEF ListsTrue
    <2>4. \A t \in Asked \ x.todo : Listed(SinceNext(c, t), t, Selected(r), x.got[t])
      BY <2>2, <2>3, Homes
    <2>. QED BY <1>9, <1>14, <2>1, <2>4, Zenon DEF ListsTrue, Since, SinceNext
  <1>16. ResultsTrue(c)'
    BY <1>9, <1>14 DEF ResultsTrue, Finished
  <1>17. w \in Channels(c, m.server) /\ m.id[1] = c
    BY <1>1, <1>5, <1>7
  <1>. QED BY <1>1, <1>3, <1>4, <1>7, <1>11, <1>12, <1>13, <1>15, <1>16, <1>17, SendKeeps, Zenon

(* On the wire an empty value is a missing one.                            *)
LEMMA Unpacked ==
    ASSUME NEW D, NEW r, r.type = "GET", NEW a \in Replies,
           a.values \in Seq(Values \cup {NULL}), Len(a.values) = Len(r.lens),
           Known(D, r.key, a.values), AllFound(a)
    PROVE  Handed(D, r, Unpack(a)) /\ Unpack(a) \in Replies
  <1>. PICK v, n : v = a.values /\ n = Len(v)
    OBVIOUS
  <1>1. /\ n \in Nat /\ DOMAIN v = 1 .. n
        /\ \A j \in 1 .. n : v[j] \in Values \cup {NULL} /\ \E d \in D : v[j] = d[r.key]
    BY ElementOfSeq DEF Known
  <1>2. CASE InProcess
    <2>1. Unpack(a) = a
      BY <1>2 DEF Unpack
    <2>2. \A y : Nonempty(y) = y
      BY <1>2 DEF Nonempty
    <2>3. \A j \in 1 .. n : \E d \in D : v[j] = Nonempty(d[r.key])
      BY <1>1, <2>2
    <2>. QED BY <2>1, <2>3 DEF Handed
  <1>3. CASE ~InProcess
    <2>. PICK b, u : /\ u = [i \in 1 .. n |-> IF v[i] # NULL /\ v[i].len = 0 THEN NULL ELSE v[i]]
                     /\ b = (\A i \in 1 .. n : v[i] # NULL /\ v[i].len > 0)
      BY Zenon
    <2>1. Unpack(a) = [a EXCEPT !.ret = b, !.values = u]
      BY <1>1, <1>3 DEF Unpack
    <2>2. u \in Seq(Values \cup {NULL}) /\ Len(u) = n /\ \A j \in 1 .. n : u[j] = Nonempty(v[j])
      <3>1. \A j \in 1 .. n : u[j] = Nonempty(v[j])
        BY <1>3 DEF Nonempty
      <3>2. \A j \in 1 .. n : u[j] \in Values \cup {NULL}
        BY <1>1
      <3>3. u = [i \in 1 .. n |-> u[i]]
        OBVIOUS
      <3>4. u \in Seq(Values \cup {NULL}) /\ Len(u) = n
        BY <1>1, <3>2, <3>3
      <3>. QED BY <3>1, <3>4, Zenon
    <2>3. u \in Seq(Values \cup {NULL} \cup Fetched)
      <3>1. Values \cup {NULL} \subseteq Values \cup {NULL} \cup Fetched
        OBVIOUS
      <3>. QED BY <2>2, <3>1, SeqMore
    <2>4. b \in BOOLEAN /\ (b <=> \A j \in 1 .. n : u[j] # NULL)
      <3>1. \A j \in 1 .. n : v[j] # NULL => v[j].len \in Nat
        BY <1>1 DEF Values
      <3>2. \A j \in 1 .. n : u[j] # NULL <=> v[j] # NULL /\ v[j].len > 0
        BY <3>1
      <3>. QED BY <3>2, Zenon
    <2>5. Unpack(a) \in Replies /\ Unpack(a).ret = b /\ Unpack(a).values = u
      BY <2>1, <2>3, <2>4, Zenon DEF Replies
    <2>6. \A j \in 1 .. n : \E d \in D : u[j] = Nonempty(d[r.key])
      <3>. SUFFICES ASSUME NEW j \in 1 .. n PROVE \E d \in D : u[j] = Nonempty(d[r.key])
        BY Zenon
      <3>1. PICK d \in D : v[j] = d[r.key]
        BY <1>1
      <3>2. u[j] = Nonempty(v[j])
        BY <2>2, Zenon
      <3>. QED BY <3>1, <3>2, Zenon
    <2>. PICK z : z = Unpack(a)
      OBVIOUS
    <2>7. z.values = u /\ (z.ret <=> \A j \in 1 .. n : u[j] # NULL)
      BY <2>4, <2>5, Zenon
    <2>8. Len(u) = Len(r.lens)
      BY <2>2
    <2>9. Handed(D, r, z)
      <3>1. z.values \in Seq(Values \cup {NULL}) /\ Len(z.values) = Len(r.lens) /\ Len(z.values) = n
        BY <2>2, <2>7, <2>8
      <3>2. \A j \in 1 .. Len(z.values) : \E d \in D : z.values[j] = Nonempty(d[r.key])
        <4>. SUFFICES ASSUME NEW j \in 1 .. Len(z.values)
                      PROVE  \E d \in D : z.values[j] = Nonempty(d[r.key])
          OBVIOUS
        <4>1. j \in 1 .. n
          BY <3>1
        <4>2. PICK d \in D : u[j] = Nonempty(d[r.key])
          BY <2>6, <4>1, Zenon
        <4>3. z.values[j] = Nonempty(d[r.key])
          BY <2>7, <4>2, Zenon
        <4>. QED BY <4>3
      <3>3. AllFound(z)
        BY <2>7, <3>1, Zenon DEF AllFound
      <3>. QED BY ONLY <3>1, <3>2, <3>3, Zenon DEF Handed
    <2>. QED BY <2>5, <2>9
  <1>. QED BY <1>2, <1>3

(* The reply client c takes, and what becomes of the client.               *)
LEMMA ReplyTaken ==
    ASSUME IInv, NEW c \in Clients, NEW x, x = client[c], x.pc = "wait", NEW r, r = x.req,
           NEW w, w = x.conn, NEW a, a = worker[w].reply, a # NULL, NEW s, s = a.server
    PROVE  /\ w \in Workers /\ a \in Replies /\ s \in x.todo /\ s \in Servers /\ x.todo \subseteq Asked
           /\ r \in Messages /\ r.id = <<c, x.n>> /\ x.n \in Nat
           /\ r.type # "ITERATE" => s = Home(r.key) /\ \A t \in x.todo : t = s
           /\ worker[w].queue = <<>> /\ Answered(Since(c, s), Forced(s), s, r, a)
  <1>1. /\ x \in ClientStates /\ Asking(c, x) /\ Expecting(c, x, worker[w]) /\ ReplyTrue(c)
    BY DEF IInv, TypeOK, Connected, Received
  <1>2. w \in Workers /\ r \in Messages /\ x.todo \in SUBSET Servers /\ x.n \in Nat
    BY <1>1 DEF Asking, ClientStates
  <1>3. worker[w] \in WorkerStates /\ Tied(w, worker[w])
    BY <1>2 DEF IInv, TypeOK, Connected
  <1>4. a \in Replies
    BY <1>3 DEF WorkerStates
  <1>5. s \in x.todo
    BY <1>1 DEF Expecting
  <1>6. Answered(Since(c, s), Forced(s), s, r, a)
    BY <1>1 DEF ReplyTrue
  <1>7. /\ r.id = <<c, x.n>> /\ x.todo \subseteq Asked
        /\ r.type # "ITERATE" => x.todo \subseteq {Home(r.key)}
    BY <1>1 DEF Asking
  <1>8. worker[w].queue = <<>>
    BY <1>3 DEF Tied
  <1>. QED BY <1>2, <1>4, <1>5, <1>6, <1>7, <1>8

(* What a client is handed.                                                *)
LEMMA AnswerTaken ==
    ASSUME NEW D, NEW F, NEW s, NEW r, NEW a \in Replies, Answered(D, F, s, r, a),
           NEW z, z = IF r.type = "GET" THEN Unpack(a) ELSE IF InProcess THEN a ELSE NoAnswer
    PROVE  z \in Answers \cup Replies /\ Handed(D, r, z)
  <1>1. CASE r.type = "GET"
    <2>1. /\ a.values \in Seq(Values \cup {NULL}) /\ Len(a.values) = Len(r.lens)
          /\ Known(D, r.key, a.values) /\ AllFound(a)
      BY <1>1 DEF Answered
    <2>2. Handed(D, r, Unpack(a)) /\ Unpack(a) \in Replies
      BY <1>1, <2>1, Unpacked, Zenon
    <2>. QED BY <1>1, <2>2
  <1>2. CASE r.type # "GET"
    BY <1>2, NoAnswerYet DEF Handed
  <1>. QED BY <1>1, <1>2

(* The workers when client c has taken the reply of worker w.              *)
LEMMA ReplyGone ==
    ASSUME IInv, NEW c \in Clients, NEW P, Asks(c, P), P.since = client[c].since,
           NEW w \in Workers, client[c].conn = w, worker[w].queue = <<>>,
           worker' = [worker EXCEPT ![w].reply = NULL]
    PROVE  /\ \A u \in Workers : Tied(u, worker[u])' /\ Working(u)'
           /\ \A u \in Workers \ {w} : worker'[u] = worker[u]
  <1>. PICK x : x = worker[w]
    OBVIOUS
  <1>. DEFINE y == [x EXCEPT !.reply = NULL]
  <1>1. x \in WorkerStates
    BY DEF IInv, TypeOK
  <1>2. /\ worker'[w] = y /\ \A u \in Workers \ {w} : worker'[u] = worker[u]
        /\ y.queue = x.queue /\ y.pc = x.pc /\ y.i = x.i /\ y.writes = x.writes /\ y.answer = x.answer
        /\ y.cursor = x.cursor /\ y.reply = NULL
    <2>1. worker' = [worker EXCEPT ![w] = y]
      OBVIOUS
    <2>2. worker'[w] = y /\ \A u \in Workers \ {w} : worker'[u] = worker[u]
      BY <2>1 DEF IInv, TypeOK
    <2>3. /\ y.queue = x.queue /\ y.pc = x.pc /\ y.i = x.i /\ y.writes = x.writes /\ y.answer = x.answer
          /\ y.cursor = x.cursor /\ y.reply = NULL
      BY <1>1 DEF WorkerStates
    <2>. QED BY <2>2, <2>3
  <1>. HIDE DEF y
  <1>3. Tied(w, worker[w])'
    <2>1. worker'[w].queue = <<>> /\ worker'[w].reply = NULL
      BY <1>2
    <2>2. \A j \in 1 .. Len(worker'[w].queue) : FALSE
      BY <2>1
    <2>. QED BY <2>1, <2>2 DEF Tied
  <1>4. ASSUME NEW u \in Workers, u # w PROVE Tied(u, worker[u])'
    <2>1. client[c].conn # u /\ worker'[u] = worker[u]
      BY <1>2, <1>4
    <2>. QED BY <2>1, AsksTied
  <1>5. Working(w)'
    <2>. PICK z : z = worker'[w]
      OBVIOUS
    <2>1. /\ z.pc = x.pc /\ z.i = x.i /\ z.writes = x.writes /\ z.answer = x.answer /\ z.cursor = x.cursor
          /\ x.queue # <<>> => z.queue # <<>> /\ Head(z.queue) = Head(x.queue)
          /\ IInv /\ c \in Clients /\ Asks(c, P) /\ w \in Workers /\ x = worker[w] /\ z = worker'[w]
      BY <1>2
    <2>. QED BY ONLY <2>1, AsksWorking
  <1>6. ASSUME NEW u \in Workers, u # w PROVE Working(u)'
    <2>. PICK z, v : z = worker'[u] /\ v = worker[u]
      BY Zenon
    <2>1. z = v
      BY <1>2, <1>6
    <2>. QED BY <2>1, AsksWorking
  <1>. QED BY <1>2, <1>3, <1>4, <1>5, <1>6

(* What was confirmed with storage persistency is on the disk.             *)
LEMMA PromiseKept ==
    ASSUME IInv, UNCHANGED <<backend, versions, synced>>, NEW s \in Servers, NEW r \in Messages,
           NEW c, NEW n, r.id = <<c, n>>, NEW D, NEW a, Answered(D, Forced(s), s, r, a),
           promised' = IF r.type = "PUT" /\ r.persistency = "STORAGE"
                       THEN promised \cup {<<r.key, <<c, n, Len(r.lens)>>>>} ELSE promised
    PROVE  Durable'
  <1>. SUFFICES ASSUME backend # "gdbm", NEW p \in promised'
                PROVE  p[1] \in Keys /\ \E t \in Servers : Has(Forced(t), p[1], p[2])
    BY DEF Durable, Has, Forced
  <1>1. CASE p \in promised
    BY <1>1 DEF IInv, Durable
  <1>2. CASE p \notin promised
    <2>1. r.type = "PUT" /\ r.persistency = "STORAGE" /\ p = <<r.key, <<c, n, Len(r.lens)>>>>
      BY <1>2
    <2>2. Has(Forced(s), r.key, MarkOf(r))
      BY <2>1 DEF Answered
    <2>3. MarkOf(r) = <<c, n, Len(r.lens)>>
      <3>. PICK l, m, q : l = Len(r.lens) /\ m = <<c, n>> /\ q = <<c, n, l>>
        BY Zenon
      <3>1. MarkOf(r) = Append(m, l)
        BY Zenon DEF MarkOf
      <3>2. Append(m, l) = q
        BY Triple, Zenon
      <3>. QED BY <3>1, <3>2, Zenon
    <2>4. r.key \in Keys
      BY DEF Messages
    <2>. QED BY <2>1, <2>2, <2>3, <2>4
  <1>. QED BY <1>1, <1>2

(* A reply that client c takes, P being the client then.                   *)
Takes(c, x, r, w, a, s, P) ==
    /\ x = client[c] /\ x.pc = "wait" /\ r = x.req /\ w = x.conn /\ a = worker[w].reply /\ a # NULL
    /\ s = a.server /\ worker' = [worker EXCEPT ![w].reply = NULL]
    /\ Asks(c, P) /\ P.conn = NULL /\ P.todo = x.todo \ {s} /\ P.confirmed
    /\ P.pc # "wait" /\ (P.pc = "idle" <=> P.todo = {}) /\ P.req = r /\ P.since = x.since
    /\ P.got[s] = a.pairs /\ \A t \in Servers \ {s} : P.got[t] = x.got[t]
    /\ Handed(Since(c, s), r, P.answer)

(* A true reply makes what the client is handed true.                      *)
LEMMA TakeKeeps ==
    ASSUME IInv, NEW c \in Clients, NEW x, NEW r, NEW w, NEW a, NEW s, NEW P,
           Takes(c, x, r, w, a, s, P), Durable'
    PROVE  IInv'
  <1>. USE DEF Takes
  <1>0. Asks(c, P) /\ worker' = [worker EXCEPT ![w].reply = NULL]
    OBVIOUS
  <1>14. /\ x = client[c] /\ x.pc = "wait" /\ r = x.req /\ w = x.conn /\ a = worker[w].reply /\ a # NULL
         /\ s = a.server
    OBVIOUS
  <1>15. /\ P.conn = NULL /\ P.todo = x.todo \ {s} /\ P.confirmed
         /\ P.pc # "wait" /\ (P.pc = "idle" <=> P.todo = {}) /\ P.req = r /\ P.since = x.since
    OBVIOUS
  <1>16. P.got[s] = a.pairs /\ \A t \in Servers \ {s} : P.got[t] = x.got[t]
    BY Zenon
  <1>17. Handed(Since(c, s), r, P.answer)
    OBVIOUS
  <1>. HIDE DEF Takes
  <1>1. /\ w \in Workers /\ s \in x.todo /\ s \in Servers /\ x.todo \subseteq Asked
        /\ r \in Messages
        /\ r.type # "ITERATE" => s = Home(r.key) /\ \A t \in x.todo : t = s
        /\ worker[w].queue = <<>> /\ Answered(Since(c, s), Forced(s), s, r, a)
    BY ONLY IInv, c \in Clients, <1>14, ReplyTaken, SMTT(30)
  <1>2. /\ client'[c] = P /\ \A d \in Clients \ {c} : client'[d] = client[d]
        /\ UNCHANGED <<backend, versions, synced, lock>>
        /\ \A t \in Servers : SinceNext(c, t) = Since(c, t)
    <2>1. P.since = client[c].since
      BY ONLY <1>14, <1>15
    <2>. QED BY ONLY IInv, c \in Clients, <1>0, <2>1, AsksAlone
  <1>3. /\ \A u \in Workers : Tied(u, worker[u])' /\ Working(u)'
        /\ \A u \in Workers \ {w} : worker'[u] = worker[u]
    <2>1. client[c].conn = w /\ P.since = client[c].since
      BY ONLY <1>14, <1>15
    <2>. QED BY ONLY IInv, c \in Clients, <1>0, <1>1, <2>1, ReplyGone, Zenon
  <1>4. \A d, e \in Clients : client[d].conn = client[e].conn /\ client[d].conn # NULL => d = e
    BY DEF IInv, Connected
  <1>5. w # NULL /\ r # NULL
    BY <1>1, KeyValueAssumption DEF Workers, Pool
  <1>6. ASSUME NEW d \in Clients \ {c}
        PROVE  /\ Asking(d, client[d])' /\ Expecting(d, client'[d], worker'[client'[d].conn])
               /\ Received(d)'
    <2>1. client[d].pc = "wait" => worker'[client[d].conn] = worker[client[d].conn]
      <3>1. client[d].pc = "wait" => client[d].conn \in Workers
        BY DEF IInv, Connected, Asking, TypeOK, ClientStates
      <3>2. client[d].conn # w
        BY ONLY c \in Clients, <1>4, <1>5, <1>14, <1>6
      <3>. QED BY <1>3, <3>1, <3>2
    <2>. QED BY ONLY IInv, c \in Clients, <1>0, <1>6, <2>1, AsksOthers
  <1>7. Connected'
    <2>1. Asking(c, client[c])'
      <3>1. Asking(c, P)
        BY ONLY <1>0 DEF Asks
      <3>2. \A d, p : Asking(d, p)' = Asking(d, p)
        BY <1>2, Fixed
      <3>. QED BY ONLY <1>2, <3>1, <3>2, Zenon
    <2>2. Expecting(c, client'[c], worker'[client'[c].conn])
      BY ONLY <1>2, <1>15 DEF Expecting
    <2>3. \A d, e \in Clients : client'[d].conn = client'[e].conn /\ client'[d].conn # NULL => d = e
      BY ONLY c \in Clients, <1>2, <1>4, <1>15
    <2>4. \A d \in Clients : Asking(d, client[d])' /\ Expecting(d, client'[d], worker'[client'[d].conn])
      BY <1>6, <2>1, <2>2
    <2>. QED BY <1>3, <2>3, <2>4 DEF Connected, Expecting, Workers, Pool
  <1>8. ReplyTrue(c)'
    BY ONLY <1>2, <1>15 DEF ReplyTrue
  <1>9. ListsTrue(c)'
    <2>. SUFFICES ASSUME r.type = "ITERATE" PROVE ListsTrue(c)'
      BY <1>2, <1>15 DEF ListsTrue
    <2>1. (\A y : Selected(y)' = Selected(y)) /\ Asked' = Asked /\ \A D, t, h, f : Listed(D, t, h, f)' = Listed(D, t, h, f)
      BY ONLY <1>2, Fixed
    <2>2. \A t \in Asked \ x.todo : Listed(Since(c, t), t, Selected(r), x.got[t])
      <3>1. ListsTrue(c)
        BY DEF IInv, Received
      <3>2. r.type = "ITERATE"
        OBVIOUS
      <3>. QED BY ONLY <1>5, <1>14, <3>1, <3>2 DEF ListsTrue
    <2>3. Listed(Since(c, s), s, Selected(r), a.pairs)
      BY ONLY <1>1, r.type = "ITERATE" DEF Answered
    <2>4. ASSUME NEW t \in Asked \ P.todo PROVE Listed(SinceNext(c, t), t, Selected(r), P.got[t])
      <3>1. t \in Servers /\ SinceNext(c, t) = Since(c, t)
        BY ONLY <1>2, <2>4, Homes
      <3>2. CASE t = s
        BY ONLY <1>16, <2>3, <3>1, <3>2
      <3>3. CASE t # s
        <4>1. t \in Asked \ x.todo /\ P.got[t] = x.got[t]
          BY ONLY <1>15, <1>16, <2>4, <3>1, <3>3
        <4>. QED BY ONLY <2>2, <3>1, <4>1
      <3>. QED BY <3>2, <3>3
    <2>. QED BY ONLY <1>2, <1>15, <2>1, <2>4, Zenon DEF ListsTrue, Since, SinceNext
  <1>10. ResultsTrue(c)'
    <2>. PICK h : h = Home(r.key)
      OBVIOUS
    <2>1. /\ \A k : Home(k)' = Home(k)
          /\ \A D, m, b : Handed(D, m, b)' = Handed(D, m, b)
          /\ \A D, m : Effective(D, m)' = Effective(D, m)
      BY ONLY <1>2, Fixed
    <2>2. Handed(SinceNext(c, h), r, P.answer) /\ Effective(SinceNext(c, h), r)
      <3>1. CASE r.type = "ITERATE"
        BY <3>1 DEF Handed, Effective
      <3>2. CASE r.type # "ITERATE"
        <4>1. SinceNext(c, h) = Since(c, s)
          BY <1>1, <1>2, <3>2
        <4>2. Effective(Since(c, s), r)
          BY ONLY <1>1 DEF Answered
        <4>. QED BY ONLY <1>17, <4>1, <4>2
      <3>. QED BY <3>1, <3>2
    <2>3. client'[c] = P /\ P.req = r /\ h = Home(r.key)
      BY <1>2, <1>15
    <2>. QED BY ONLY <2>1, <2>2, <2>3, Zenon DEF ResultsTrue, Since, SinceNext
  <1>11. Received(c)'
    BY <1>8, <1>9, <1>10 DEF Received
  <1>12. TypeOK' /\ Kept'
    BY ONLY IInv, c \in Clients, <1>0, AsksKept
  <1>. QED BY <1>3, <1>6, <1>7, <1>11, <1>12 DEF IInv, Workers, Pool

(* A client takes a reply.                                                 *)
LEMMA ReceiveKeeps ==
    ASSUME IInv, NEW c \in Clients, Receive(c)
    PROVE  IInv'
  <1>. PICK x, r, w : x = client[c] /\ r = x.req /\ w = x.conn
    OBVIOUS
  <1>. PICK a, s, e, left : a = worker[w].reply /\ s = a.server /\ e = a.pairs /\ left = x.todo \ {s}
    BY Zenon
  <1>. PICK z : z = IF r.type = "GET" THEN Unpack(a) ELSE IF InProcess THEN a ELSE NoAnswer
    OBVIOUS
  <1>. PICK pc : pc = IF left = {} THEN "idle" ELSE "fetch"
    OBVIOUS
  <1>. PICK g : g = [x.got EXCEPT ![s] = e]
    BY Zenon
  <1>. PICK P : P = [x EXCEPT !.conn = NULL, !.todo = left, !.confirmed = TRUE, !.pc = pc, !.got = g,
                              !.answer = z]
    BY Zenon
  <1>1. /\ x.pc = "wait" /\ a # NULL /\ worker' = [worker EXCEPT ![w].reply = NULL]
        /\ promised' = IF r.type = "PUT" /\ r.persistency = "STORAGE"
                       THEN promised \cup {<<r.key, <<c, x.n, Len(r.lens)>>>>} ELSE promised
        /\ UNCHANGED <<backend, versions, synced, lock>>
    BY Zenon DEF Receive
  <1>2. client' = [client EXCEPT ![c] = P]
    <2>1. client' = [client EXCEPT ![c].conn = NULL, ![c].todo = left, ![c].confirmed = TRUE, ![c].pc = pc,
                                   ![c].got[s] = e, ![c].answer = z]
      BY Zenon DEF Receive
    <2>2. client \in [Clients -> ClientStates]
      BY DEF IInv, TypeOK
    <2>3. /\ x = client[c] /\ c \in Clients /\ g = [x.got EXCEPT ![s] = e]
          /\ P = [x EXCEPT !.conn = NULL, !.todo = left, !.confirmed = TRUE, !.pc = pc, !.got = g,
                           !.answer = z]
      OBVIOUS
    <2>4. client' \in [Clients -> ClientStates] \/ DOMAIN client' = Clients
      BY ONLY <2>1, <2>2
    <2>5. client'[c] = [client[c] EXCEPT !.conn = NULL, !.todo = left, !.confirmed = TRUE, !.pc = pc,
                                        !.got[s] = e, !.answer = z]
      BY ONLY <2>1, <2>2, <2>3
    <2>6. client'[c] = P
      BY ONLY <2>3, <2>5
    <2>7. \A d \in Clients \ {c} : client'[d] = client[d]
      BY ONLY <2>1, <2>2
    <2>8. client' = [d \in Clients |-> client'[d]]
      <3>. PICK f, y : f = client /\ y = client'
        OBVIOUS
      <3>1. f = [d \in Clients |-> f[d]]
        BY ONLY <2>2, f = client
      <3>2. y = [f EXCEPT ![c].conn = NULL, ![c].todo = left, ![c].confirmed = TRUE, ![c].pc = pc,
                          ![c].got[s] = e, ![c].answer = z]
        BY ONLY <2>1, f = client /\ y = client'
      <3>. PICK h : h = [f EXCEPT ![c].conn = NULL, ![c].todo = left, ![c].confirmed = TRUE]
        BY Zenon
      <3>3. h = [d \in Clients |-> h[d]]
        BY ONLY <3>1, h = [f EXCEPT ![c].conn = NULL, ![c].todo = left, ![c].confirmed = TRUE], Zenon
      <3>4. y = [h EXCEPT ![c].pc = pc, ![c].got[s] = e, ![c].answer = z]
        BY ONLY <3>2, h = [f EXCEPT ![c].conn = NULL, ![c].todo = left, ![c].confirmed = TRUE], Zenon
      <3>5. y = [d \in Clients |-> y[d]]
        BY ONLY <3>3, <3>4, Zenon
      <3>. QED BY ONLY <3>5, y = client'
    <2>. QED BY ONLY <2>2, <2>3, <2>6, <2>7, <2>8
  <1>3. /\ w \in Workers /\ a \in Replies /\ s \in x.todo /\ s \in Servers /\ x.todo \subseteq Asked
        /\ r \in Messages /\ r.id = <<c, x.n>>
        /\ r.type # "ITERATE" => s = Home(r.key) /\ \A t \in x.todo : t = s
        /\ Answered(Since(c, s), Forced(s), s, r, a)
    <2>1. /\ IInv /\ c \in Clients /\ x = client[c] /\ x.pc = "wait" /\ r = x.req /\ w = x.conn
          /\ a = worker[w].reply /\ a # NULL /\ s = a.server
      BY <1>1, Zenon
    <2>2. w \in Workers /\ a \in Replies /\ s \in x.todo /\ s \in Servers /\ r \in Messages
      BY ONLY <2>1, ReplyTaken
    <2>4. x.todo \subseteq Asked
      BY ONLY <2>1, ReplyTaken
    <2>5. r.type # "ITERATE" => s = Home(r.key)
      BY ONLY <2>1, ReplyTaken
    <2>7. ASSUME r.type # "ITERATE", NEW t \in x.todo PROVE t = s
      <3>1. r # NULL
        BY <2>2, KeyValueAssumption
      <3>2. Asking(c, x)
        BY ONLY <2>1 DEF IInv, Connected
      <3>. QED BY ONLY <2>1, <2>5, <2>7, <3>1, <3>2 DEF Asking
    <2>6. Answered(Since(c, s), Forced(s), s, r, a)
      BY ONLY <2>1, ReplyTaken
    <2>3. r.id = <<c, x.n>>
      <3>1. r # NULL
        BY <2>2, KeyValueAssumption
      <3>. QED BY <3>1 DEF IInv, Connected, Asking
    <2>. QED BY <2>2, <2>3, <2>4, <2>5, <2>6, <2>7, Zenon
  <1>4. z \in Answers \cup Replies /\ Handed(Since(c, s), r, z)
    <2>1. z = IF r.type = "GET" THEN Unpack(a) ELSE IF InProcess THEN a ELSE NoAnswer
      OBVIOUS
    <2>. QED BY ONLY <1>3, <2>1, AnswerTaken
  <1>5. /\ x \in ClientStates /\ left \in SUBSET Servers /\ e \in SUBSET Pairs
        /\ \A t \in Servers : x.since[t] \in 1 .. Len(versions[t])
    BY <1>3, Zenon DEF IInv, TypeOK, Kept, ClientStates, Replies
  <1>6. pc \in {"idle", "fetch"} /\ (pc = "idle" <=> left = {})
    BY Zenon
  <1>7. /\ P \in ClientStates /\ P.conn = NULL /\ P.todo = left /\ P.confirmed /\ P.pc = pc
        /\ P.answer = z /\ P.req = x.req /\ P.since = x.since /\ P.n = x.n
        /\ P.got[s] = e /\ \A t \in Servers \ {s} : P.got[t] = x.got[t]
    <2>1. g = [x.got EXCEPT ![s] = e] /\ x.got \in [Servers -> SUBSET Pairs]
      BY <1>5, Zenon DEF ClientStates
    <2>2. g \in [Servers -> SUBSET Pairs] /\ g[s] = e /\ \A t \in Servers \ {s} : g[t] = x.got[t]
      BY ONLY <1>3, <1>5, <2>1
    <2>3. P = [x EXCEPT !.conn = NULL, !.todo = left, !.confirmed = TRUE, !.pc = pc, !.got = g, !.answer = z]
      OBVIOUS
    <2>4. /\ P \in ClientStates /\ P.conn = NULL /\ P.todo = left /\ P.confirmed /\ P.pc = pc
          /\ P.answer = z /\ P.req = x.req /\ P.since = x.since /\ P.n = x.n /\ P.got = g
      BY ONLY <1>4, <1>5, <1>6, <2>2, <2>3, Zenon DEF ClientStates
    <2>. QED BY ONLY <2>2, <2>4
  <1>8. Asks(c, P)
    <2>1. worker' \in [Workers -> WorkerStates]
      <3>1. worker[w] \in WorkerStates
        BY <1>3, Zenon DEF IInv, TypeOK
      <3>2. [worker[w] EXCEPT !.reply = NULL] \in WorkerStates
        BY <3>1, Zenon DEF WorkerStates
      <3>. QED BY <1>1, <3>2, Zenon DEF IInv, TypeOK
    <2>2. Asking(c, P)
      <3>1. r # NULL
        BY <1>3, KeyValueAssumption, Zenon
      <3>2. r.type # "ITERATE" => left = {}
        BY <1>3, Zenon
      <3>3. left \subseteq Asked
        BY <1>3, Zenon
      <3>4. P.req = r
        BY <1>7, Zenon
      <3>. QED BY ONLY <1>3, <1>6, <1>7, <3>1, <3>2, <3>3, <3>4 DEF Asking
    <2>3. c \in Clients /\ x = client[c]
      OBVIOUS
    <2>. QED BY ONLY <1>1, <1>2, <1>5, <1>7, <2>1, <2>2, <2>3 DEF Asks
  <1>9. Durable'
    <2>. PICK n : n = x.n
      OBVIOUS
    <2>. PICK D : D = Since(c, s)
      OBVIOUS
    <2>1. /\ IInv /\ UNCHANGED <<backend, versions, synced>> /\ s \in Servers /\ r \in Messages
          /\ r.id = <<c, n>> /\ Answered(D, Forced(s), s, r, a)
          /\ promised' = IF r.type = "PUT" /\ r.persistency = "STORAGE"
                         THEN promised \cup {<<r.key, <<c, n, Len(r.lens)>>>>} ELSE promised
      BY <1>1, <1>3, Zenon
    <2>. QED BY ONLY <2>1, PromiseKept, Zenon
  <1>10. x = client[c] /\ r = x.req /\ w = x.conn /\ a = worker[w].reply /\ s = a.server /\ left = x.todo \ {s} /\ e = a.pairs
    OBVIOUS
  <1>11. Takes(c, x, r, w, a, s, P)
    BY ONLY <1>1, <1>4, <1>6, <1>7, <1>8, <1>10, Zenon DEF Takes
  <1>. QED BY ONLY IInv, c \in Clients, <1>9, <1>11, TakeKeeps

(* Nobody does anything.                                                   *)
AllIdle ==
    /\ \A w \in Workers : worker[w] = IdleWorker
    /\ \A c \in Clients : /\ client[c].pc = "idle" /\ client[c].conn = NULL /\ client[c].todo = {}
                          /\ client[c].req = NULL /\ ~client[c].confirmed

(* Then nothing is claimed of messages, replies and progress.              *)
LEMMA IdleInvariant ==
    AllIdle => Connected /\ (\A c \in Clients : Received(c)) /\ (\A w \in Workers : Working(w))
  <1>. SUFFICES ASSUME AllIdle
                PROVE  Connected /\ (\A c \in Clients : Received(c)) /\ (\A w \in Workers : Working(w))
    OBVIOUS
  <1>1. \A w \in Workers : worker[w].pc = "idle" /\ worker[w].queue = <<>> /\ worker[w].reply = NULL
    BY IdleWorkers DEF AllIdle
  <1>2. \A c \in Clients : /\ client[c].pc = "idle" /\ client[c].conn = NULL /\ client[c].todo = {}
                           /\ client[c].req = NULL /\ ~client[c].confirmed
    BY DEF AllIdle
  <1>3. Connected
    <2>1. ASSUME NEW w \in Workers PROVE Tied(w, worker[w])
      <3>1. worker[w].queue = <<>> /\ worker[w].reply = NULL
        BY <1>1
      <3>2. \A j \in 1 .. Len(worker[w].queue) : FALSE
        BY <3>1
      <3>. QED BY <3>1, <3>2 DEF Tied
    <2>2. \A c \in Clients : Asking(c, client[c]) /\ Expecting(c, client[c], worker[client[c].conn])
      BY <1>2 DEF Asking, Expecting
    <2>. QED BY <1>2, <2>1, <2>2 DEF Connected
  <1>4. \A c \in Clients : Received(c)
    BY <1>2 DEF Received, ReplyTrue, ListsTrue, ResultsTrue, Finished
  <1>5. \A w \in Workers : Working(w)
    BY <1>1 DEF Working
  <1>. QED BY <1>3, <1>4, <1>5

(* The first states.                                                       *)
LEMMA InitKeeps ==
    ASSUME Init
    PROVE  IInv
  <1>. PICK z, h : z = [k \in Keys |-> NULL] /\ h = <<z>>
    BY Zenon
  <1>1. /\ backend \in BackendNames /\ versions = [s \in Servers |-> h] /\ synced = [s \in Servers |-> 1]
        /\ lock = [s \in Servers |-> NULL] /\ worker = [w \in Workers |-> IdleWorker]
        /\ client = [c \in Clients |-> IdleClient] /\ promised = {}
    BY DEF Init
  <1>2. z \in States /\ \A k \in Keys : z[k] = NULL
    BY DEF States
  <1>3. h \in Seq(States) /\ Len(h) = 1 /\ h[1] = z
    BY <1>2
  <1>4. TypeOK
    BY <1>1, <1>3, IdleClients, IdleWorkers DEF TypeOK
  <1>5. Kept
    <2>1. ASSUME NEW s \in Servers
          PROVE  /\ synced[s] \in 1 .. Len(versions[s])
                 /\ \A n \in 1 .. Len(versions[s]) : Proper(s, versions[s][n])
                 /\ \A c \in Clients : client[c].since[s] \in 1 .. Len(versions[s])
      <3>1. synced[s] = 1 /\ versions[s] = h
        BY <1>1
      <3>2. \A n \in 1 .. Len(h) : Proper(s, h[n])
        BY <1>2, <1>3 DEF Proper
      <3>3. \A c \in Clients : client[c].since[s] = 1
        BY <1>1, IdleClients
      <3>. QED BY <1>3, <3>1, <3>2, <3>3
    <2>. QED BY <2>1 DEF Kept
  <1>6. Durable
    BY <1>1 DEF Durable
  <1>7. AllIdle
    BY <1>1, IdleClients DEF AllIdle
  <1>. QED BY <1>4, <1>5, <1>6, <1>7, IdleInvariant DEF IInv

(* A loss of power.                                                        *)
LEMMA PowerLossKeeps ==
    ASSUME IInv, PowerLoss
    PROVE  IInv'
  <1>1. PICK keep :
          /\ \A s \in Servers : keep[s] \in synced[s] .. Len(versions[s])
          /\ versions' = [s \in Servers |-> SubSeq(versions[s], 1, keep[s])]
          /\ synced' = keep /\ keep \in [Servers -> UNION {synced[s] .. Len(versions[s]) : s \in Servers}]
    BY Zenon DEF PowerLoss
  <1>2. /\ lock' = [s \in Servers |-> NULL] /\ worker' = [w \in Workers |-> IdleWorker]
        /\ client' = [c \in Clients |-> [IdleClient EXCEPT !.n = client[c].n]] /\ UNCHANGED <<backend, promised>>
    BY DEF PowerLoss
  <1>3. ASSUME NEW s \in Servers
        PROVE  /\ synced[s] \in 1 .. Len(versions[s]) /\ keep[s] \in Nat /\ synced'[s] = keep[s] /\ keep[s] \in 1 .. Len(versions[s])
               /\ synced[s] <= keep[s] /\ versions'[s] \in Seq(States) /\ Len(versions'[s]) = keep[s]
               /\ \A n \in 1 .. keep[s] : versions'[s][n] = versions[s][n] /\ n \in 1 .. Len(versions[s])
    <2>. PICK v, i, k : v = versions[s] /\ i = synced[s] /\ k = keep[s]
      OBVIOUS
    <2>1. v \in Seq(States) /\ i \in Nat /\ i \in 1 .. Len(v) /\ k \in i .. Len(v)
      BY <1>1 DEF IInv, TypeOK, Kept
    <2>2. k \in Nat /\ k \in 1 .. Len(v) /\ i <= k
      BY <2>1
    <2>3. /\ SubSeq(v, 1, k) \in Seq(States) /\ Len(SubSeq(v, 1, k)) = k
          /\ \A n \in 1 .. k : SubSeq(v, 1, k)[n] = v[n] /\ n \in 1 .. Len(v)
      BY ONLY <2>1, <2>2, SubSeqProperties
    <2>4. versions'[s] = SubSeq(v, 1, k)
      BY <1>1, Zenon
    <2>. QED BY <1>1, <2>1, <2>2, <2>3, <2>4, Zenon
  <1>4. TypeOK'
    <2>1. versions' \in [Servers -> Seq(States)] /\ synced' \in [Servers -> Nat]
      <3>1. versions' = [s \in Servers |-> versions'[s]] /\ synced' = [s \in Servers |-> synced'[s]]
        BY <1>1, Zenon
      <3>. QED BY <1>3, <3>1
    <2>2. lock' \in [Servers -> Workers \cup {NULL}] /\ worker' \in [Workers -> WorkerStates]
      BY <1>2, IdleWorkers
    <2>3. client' \in [Clients -> ClientStates]
      <3>1. ASSUME NEW c \in Clients PROVE [IdleClient EXCEPT !.n = client[c].n] \in ClientStates
        <4>1. client[c].n \in Nat
          BY DEF IInv, TypeOK, ClientStates
        <4>2. IdleClient \in ClientStates
          BY IdleClients
        <4>. PICK n, z : n = client[c].n /\ z = IdleClient
          OBVIOUS
        <4>3. [z EXCEPT !.n = n] \in ClientStates
          BY <4>1, <4>2 DEF ClientStates
        <4>. QED BY <4>3
      <3>. QED BY <1>2, <3>1
    <2>4. ClientStates' = ClientStates /\ WorkerStates' = WorkerStates
      BY DEF ClientStates, WorkerStates, Workers, Pool
    <2>5. backend' \in BackendNames
      BY <1>2 DEF IInv, TypeOK
    <2>. QED BY <2>1, <2>2, <2>3, <2>4, <2>5 DEF TypeOK, Workers, Pool
  <1>5. \A c \in Clients : /\ client'[c].pc = "idle" /\ client'[c].conn = NULL /\ client'[c].todo = {}
                           /\ client'[c].req = NULL /\ ~client'[c].confirmed
                           /\ \A s \in Servers : client'[c].since[s] = 1
    <2>. PICK z : z = IdleClient
      OBVIOUS
    <2>1. /\ z \in ClientStates /\ z.pc = "idle" /\ z.conn = NULL /\ z.todo = {} /\ z.req = NULL
          /\ z.confirmed = FALSE /\ \A s \in Servers : z.since[s] = 1
      BY IdleClients
    <2>2. \A c \in Clients : client'[c] = [z EXCEPT !.n = client[c].n]
      BY <1>2
    <2>. QED BY ONLY <2>1, <2>2, Zenon DEF ClientStates
  <1>6. Kept'
    <2>1. \A s, d : Proper(s, d)' = Proper(s, d)
      BY <1>2, Fixed
    <2>2. ASSUME NEW s \in Servers
          PROVE  /\ synced'[s] \in 1 .. Len(versions'[s])
                 /\ \A n \in 1 .. Len(versions'[s]) : Proper(s, versions'[s][n])
                 /\ \A c \in Clients : client'[c].since[s] \in 1 .. Len(versions'[s])
      <3>1. \A n \in 1 .. Len(versions[s]) : Proper(s, versions[s][n])
        BY DEF IInv, Kept
      <3>2. synced'[s] \in 1 .. Len(versions'[s]) /\ 1 \in 1 .. Len(versions'[s])
        BY <1>3
      <3>3. \A n \in 1 .. Len(versions'[s]) : Proper(s, versions'[s][n])
        BY <1>3, <3>1
      <3>. QED BY <1>5, <3>2, <3>3
    <2>. QED BY <1>2, <2>2 DEF Kept, Proper, Home, InProcess, Writes, FirstServer
  <1>7. Durable'
    <2>1. ASSUME NEW s \in Servers PROVE Forced(s) \subseteq ForcedNext(s)
      <3>. PICK i, k : i = synced[s] /\ k = keep[s]
        OBVIOUS
      <3>1. i \in Nat /\ k \in Nat /\ i <= k /\ synced'[s] = k
        BY <1>3
      <3>2. \A n \in 1 .. i : n \in 1 .. k
        BY ONLY <3>1
      <3>. QED BY <1>3, <3>1, <3>2 DEF Forced, ForcedNext
    <2>2. \A s \in Servers : \A k, mark : Has(Forced(s), k, mark) => Has(ForcedNext(s), k, mark)
      BY <2>1 DEF Has
    <2>3. ASSUME backend # "gdbm", NEW p \in promised
          PROVE  p[1] \in Keys /\ \E s \in Servers : Has(ForcedNext(s), p[1], p[2])
      <3>1. p[1] \in Keys /\ \E s \in Servers : Has(Forced(s), p[1], p[2])
        BY <2>3 DEF IInv, Durable
      <3>. QED BY <2>2, <3>1
    <2>4. backend' = backend /\ promised' = promised
      BY <1>2
    <2>. QED BY ONLY <2>3, <2>4 DEF Durable, Has, Forced, ForcedNext
  <1>8. AllIdle'
    BY <1>2, <1>5, Zenon DEF AllIdle, IdleWorker, NoAnswer, Workers, Pool
  <1>9. Connected' /\ (\A c \in Clients : Received(c))' /\ (\A w \in Workers : Working(w))'
    BY <1>8, IdleInvariant, PTL
  <1>. QED BY <1>4, <1>6, <1>7, <1>9 DEF IInv, Workers, Pool

(* Nothing happens.                                                        *)
LEMMA StutterKeeps ==
    ASSUME IInv, UNCHANGED vars
    PROVE  IInv'
  <1>1. /\ backend' = backend /\ versions' = versions /\ synced' = synced /\ lock' = lock /\ worker' = worker
        /\ client' = client /\ promised' = promised
    BY DEF vars
  <1>2. /\ \A s, d : Proper(s, d)' = Proper(s, d)
        /\ \A D, F, s, r, a : Answered(D, F, s, r, a)' = Answered(D, F, s, r, a)
        /\ \A D, s, m, g : Listed(D, s, m, g)' = Listed(D, s, m, g)
        /\ \A D, r, a : Handed(D, r, a)' = Handed(D, r, a)
        /\ \A D, r : Effective(D, r)' = Effective(D, r)
        /\ \A r : Sound(r)' = Sound(r) /\ \A c, p : Asking(c, p)' = Asking(c, p)
        /\ \A p, r, D, d : Batching(p, r, D, d)' = Batching(p, r, D, d)
        /\ \A p, r, D : Listing(p, r, D)' = Listing(p, r, D)
        /\ Asked' = Asked /\ \A k : Home(k)' = Home(k)
        /\ \A r : Selected(r)' = Selected(r)
        /\ Writes' = Writes /\ Reads' = Reads
    BY <1>1, Fixed
  <1>3. TypeOK'
    BY <1>1, Zenon DEF IInv, TypeOK, ClientStates, WorkerStates, Workers, Pool
  <1>4. Kept'
    BY <1>1, <1>2 DEF IInv, Kept
  <1>5. Durable'
    BY <1>1 DEF IInv, Durable, Has, Forced
  <1>6. Connected'
    <2>1. ASSUME NEW w \in Workers PROVE Tied(w, worker[w])'
      <3>1. Tied(w, worker[w])
        BY DEF IInv, Connected
      <3>2. \A r : Sound(r)' = Sound(r)
        BY <1>2
      <3>. QED BY ONLY <1>1, <3>1, <3>2, Zenon DEF Tied, Awaited
    <2>2. ASSUME NEW c \in Clients
          PROVE  Asking(c, client[c])' /\ Expecting(c, client'[c], worker'[client'[c].conn])
      <3>1. Asking(c, client[c]) /\ Expecting(c, client[c], worker[client[c].conn])
        BY DEF IInv, Connected
      <3>2. Asking(c, client[c])'
        BY <1>1, <1>2, <3>1
      <3>. QED BY <1>1, <3>1, <3>2
    <2>3. \A c, d \in Clients : client'[c].conn = client'[d].conn /\ client'[c].conn # NULL => c = d
      BY <1>1 DEF IInv, Connected
    <2>. QED BY <2>1, <2>2, <2>3 DEF Connected, Expecting, Workers, Pool
  <1>7. \A c \in Clients : Received(c)'
    <2>. SUFFICES ASSUME NEW c \in Clients PROVE Received(c)'
      OBVIOUS
    <2>. PICK x, a : x = client[c] /\ a = worker[client[c].conn].reply
      OBVIOUS
    <2>1. ReplyTrue(c) /\ ListsTrue(c) /\ ResultsTrue(c)
      BY DEF IInv, Received
    <2>2. \A s : Since(c, s)' = Since(c, s) /\ Forced(s)' = Forced(s)
      BY <1>1 DEF Since, Forced
    <2>3. ReplyTrue(c)'
      BY <1>1, <1>2, <2>1, <2>2, Zenon DEF ReplyTrue
    <2>4. ListsTrue(c)'
      BY <1>1, <1>2, <2>1, <2>2, Zenon DEF ListsTrue
    <2>5. ResultsTrue(c)'
      BY <1>1, <1>2, <2>1, <2>2, Zenon DEF ResultsTrue, Finished
    <2>. QED BY <2>3, <2>4, <2>5 DEF Received
  <1>8. \A w \in Workers : Working(w)'
    BY <1>1, <1>2, Zenon DEF IInv, Working, Current, Since, Store
  <1>. QED BY <1>3, <1>4, <1>5, <1>6, <1>7, <1>8 DEF IInv, Workers, Pool

(* Every step keeps the invariant.                                         *)
LEMMA NextKeeps ==
    ASSUME IInv, [Next]_vars
    PROVE  IInv'
  <1>1. ASSUME NEW c \in Clients, NEW r \in Requests[c], IteratorNew(c, r) PROVE IInv'
    <2>1. r \in Messages
      BY KeyValueAssumption
    <2>. QED BY <1>1, <2>1, IteratorNewKeeps
  <1>2. ASSUME NEW c \in Clients, NEW r \in Requests[c], NEW w \in Workers, ListExec(c, r, w) PROVE IInv'
    <2>1. r \in Messages
      BY KeyValueAssumption
    <2>. QED BY <1>2, <2>1, ListExecKeeps
  <1>3. ASSUME NEW c \in Clients, NEW s \in Servers, NEW w \in Workers, FetchReply(c, s, w) PROVE IInv'
    BY <1>3, FetchReplyKeeps
  <1>4. ASSUME NEW c \in Clients, Receive(c) PROVE IInv'
    BY <1>4, ReceiveKeeps
  <1>5. ASSUME NEW w \in Workers, Step(w) PROVE IInv'
    <2>1. CASE BatchStart(w)
      BY <2>1, BatchStartKeeps
    <2>2. CASE OperationPut(w)
      BY <2>2, OperationPutKeeps
    <2>3. CASE OperationDelete(w)
      BY <2>3, OperationDeleteKeeps
    <2>4. CASE OperationGet(w)
      BY <2>4, OperationGetKeeps
    <2>5. CASE BatchExecute(w)
      BY <2>5, BatchExecuteKeeps
    <2>6. CASE IteratorStart(w)
      BY <2>6, IteratorStartKeeps
    <2>7. CASE IterateStep(w)
      BY <2>7, IterateStepKeeps
    <2>9. CASE IterateLook(w)
      BY <2>9, IterateLookKeeps
    <2>8. CASE IterateEnd(w)
      BY <2>8, IterateEndKeeps
    <2>. QED BY <1>5, <2>1, <2>2, <2>3, <2>4, <2>5, <2>6, <2>7, <2>8, <2>9 DEF Step
  <1>6. CASE PowerLoss
    BY <1>6, PowerLossKeeps
  <1>7. CASE UNCHANGED vars
    BY <1>7, StutterKeeps
  <1>. QED BY <1>1, <1>2, <1>3, <1>4, <1>5, <1>6, <1>7 DEF Next

(* The invariant holds in every state that is reached.                     *)
THEOREM Invariance == Spec => []IInv
  <1>1. Init => IInv
    BY InitKeeps
  <1>2. IInv /\ [Next]_vars => IInv'
    BY NextKeeps
  <1>. QED BY <1>1, <1>2, PTL DEF Spec

(* The values j_kv_get_exec hands out are values the key had between the   *)
(* call and its return, an empty one standing for a missing one, and it    *)
(* succeeds exactly when all were found, for any interleaving of clients   *)
(* and connections and any backend.                                        *)
THEOREM GetsRegular == Spec => []GetsAreRegular
  <1>1. IInv => GetsAreRegular
    <2>. SUFFICES ASSUME IInv, NEW c \in Clients, Finished(c), client[c].req.type = "GET"
                  PROVE  LET a == client[c].answer
                             k == client[c].req.key IN
                         /\ Len(a.values) = Len(client[c].req.lens)
                         /\ \A i \in DOMAIN a.values : \E d \in Since(c, Home(k)) : a.values[i] = Nonempty(d[k])
                         /\ a.ret <=> \A i \in DOMAIN a.values : a.values[i] # NULL
      BY DEF GetsAreRegular
    <2>. PICK a, r, D : a = client[c].answer /\ r = client[c].req /\ D = Since(c, Home(client[c].req.key))
      OBVIOUS
    <2>1. Handed(D, r, a)
      BY DEF IInv, Received, ResultsTrue
    <2>2. /\ Len(a.values) = Len(r.lens) /\ DOMAIN a.values = 1 .. Len(a.values)
          /\ \A i \in 1 .. Len(a.values) : \E d \in D : a.values[i] = Nonempty(d[r.key])
          /\ a.ret <=> \A i \in 1 .. Len(a.values) : a.values[i] # NULL
      BY <2>1 DEF Handed, AllFound
    <2>. QED BY <2>2
  <1>. QED BY <1>1, Invariance, PTL

(* With every backend but GDBM and MongoDB no state of a database, those   *)
(* after a loss of power included, holds half of what a batch has written. *)
THEOREM ListsAtomic == Spec => []ListsAreAtomic
  <1>1. IInv => ListsAreAtomic
    <2>. SUFFICES ASSUME IInv, backend \notin {"gdbm", "mongodb"}, NEW s \in Servers, NEW i \in DOMAIN versions[s],
                         NEW k \in Keys, versions[s][i][k] # NULL
                  PROVE  versions[s][i][k].last
      BY DEF ListsAreAtomic
    <2>1. Writes.at = "execute"
      BY Backends DEF IInv, TypeOK
    <2>2. i \in 1 .. Len(versions[s])
      BY DEF IInv, TypeOK
    <2>. QED BY <2>1, <2>2 DEF IInv, Kept, Proper
  <1>. QED BY <1>1, Invariance, PTL

(* When j_kv_put_exec or j_kv_delete_exec has received its reply, or has   *)
(* executed its batch itself with a persistency that is acknowledged, its  *)
(* whole list was in the database; and a put confirmed with storage        *)
(* persistency is there after any number of power losses, unless the       *)
(* backend is GDBM.                                                        *)
THEOREM ConfirmedStay == Spec => []ConfirmedStays
  <1>1. IInv => ConfirmedStays
    <2>. SUFFICES ASSUME IInv PROVE ConfirmedStays
      OBVIOUS
    <2>1. ASSUME NEW c \in Clients, Finished(c), client[c].req.type \in {"PUT", "DELETE"}
          PROVE  LET r == client[c].req IN
                 \E d \in Since(c, Home(r.key)) :
                    IF r.type = "DELETE" THEN d[r.key] = NULL
                    ELSE d[r.key] # NULL /\ d[r.key].by = Append(r.id, Len(r.lens))
      <3>. PICK r, D : r = client[c].req /\ D = Since(c, Home(client[c].req.key))
        OBVIOUS
      <3>1. Effective(D, r)
        BY <2>1 DEF IInv, Received, ResultsTrue
      <3>2. \E d \in D : IF r.type = "DELETE" THEN d[r.key] = NULL
                         ELSE d[r.key] # NULL /\ d[r.key].by = Append(r.id, Len(r.lens))
        BY <2>1, <3>1 DEF Effective, Has, Lacks, MarkOf
      <3>. QED BY <3>2
    <2>2. ASSUME backend # "gdbm", NEW p \in promised
          PROVE  \E s \in Servers : \E i \in DOMAIN versions[s] :
                    versions[s][i][p[1]] # NULL /\ versions[s][i][p[1]].by = p[2]
      <3>1. PICK s \in Servers : Has(Forced(s), p[1], p[2])
        BY <2>2 DEF IInv, Durable
      <3>2. PICK i \in 1 .. synced[s] : versions[s][i][p[1]] # NULL /\ versions[s][i][p[1]].by = p[2]
        BY <3>1 DEF Has, Forced
      <3>3. i \in DOMAIN versions[s]
        BY DEF IInv, TypeOK, Kept
      <3>. QED BY <3>2, <3>3
    <2>. QED BY <2>1, <2>2 DEF ConfirmedStays
  <1>. QED BY <1>1, Invariance, PTL

(* The pairs an iterator hands out are, of every server, those of one      *)
(* state the server was in while it was asked, up to the first empty       *)
(* value; with GDBM and MongoDB each of them was there at some time, and   *)
(* with MongoDB a key that was there all the time is among them.  With     *)
(* SQLite this is said of the keys that fit the pattern.                   *)
THEOREM IterationRegular == Spec => []IterationIsRegular
  <1>1. IInv => IterationIsRegular
    <2>. SUFFICES ASSUME IInv, NEW c \in Clients, Finished(c), client[c].req.type = "ITERATE", NEW s \in Asked
                  PROVE  LET got == client[c].got[s]
                             m == Selected(client[c].req) IN
                         /\ \A p \in got : p.key \in m /\ \E d \in Since(c, s) : d[p.key] = p.value
                         /\ Reads.sorted => \E d \in Since(c, s) :
                               got = {[key |-> k, value |-> d[k]] : k \in Readable(d, m, s)}
                         /\ ~Reads.stepwise => Distinct(got) /\ \E d \in Since(c, s) :
                               \/ got = {[key |-> k, value |-> d[k]] : k \in {h \in m : d[h] # NULL}}
                               \/ \E h \in m : d[h] # NULL /\ d[h].len = 0
                         /\ Reads.documents => \A k \in m :
                               (\A d \in Since(c, s) : d[k] # NULL) => HasKey(got, k)
      BY DEF IterationIsRegular
    <2>1. client[c].todo = {}
      BY DEF IInv, Connected, Asking, Finished
    <2>2. Listed(Since(c, s), s, Selected(client[c].req), client[c].got[s])
      BY <2>1 DEF IInv, Received, ListsTrue, Finished
    <2>. QED BY <2>2, Zenon DEF Listed, PairsOf, Found
  <1>. QED BY <1>1, Invariance, PTL
===============================================================================
