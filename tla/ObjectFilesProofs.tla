------------------------- MODULE ObjectFilesProofs -------------------------
(***************************************************************************)
(* Proofs about ObjectFiles, for any number of threads, names and          *)
(* messages, and for each of the three backends.                           *)
(***************************************************************************)
EXTENDS ObjectFiles, FiniteSetTheorems, SequenceTheorems, TLAPS

Pcs == {"idle", "get", "open", "work", "close", "list", "next", "listed"}
Entries == Paths \cup {"directory"}
Messages == UNION {Requests[t] : t \in Threads}
NameStates == [Paths -> Nat \cup {NULL}]
ThreadStates ==
    [pc : Pcs, n : Nat, req : Messages \cup {NULL}, obj : Handles \cup {NULL}, total : Int,
     ret : BOOLEAN, early : BOOLEAN, failed : BOOLEAN, moved : SUBSET Int, since : Nat,
     alone : BOOLEAN, todo : SUBSET Entries, listed : SUBSET Entries, found : SUBSET Entries]

(* The variables have their types.                                         *)
TypeOK ==
    /\ kind \in {"posix", "gio", "rados"}
    /\ names \in Seq(NameStates) /\ names # <<>>
    /\ size \in Seq(Nat)
    /\ object \in [Handles -> Objects \cup {NULL}]
    /\ cache \in [Paths -> Handles \cup {NULL}]
    /\ files \in [Threads -> [Paths -> Handles \cup {NULL}]]
    /\ lock \in Threads \cup {NULL}
    /\ thread \in [Threads -> ThreadStates]
    /\ interrupts \in Nat

(* A file that has a name, or is open, exists.                             *)
Exists(i) == i \in 1 .. Len(size)
Sized ==
    /\ \A p \in Paths : Now[p] # NULL => Exists(Now[p])
    /\ kind # "rados" => \A h \in Handles : object[h] # NULL => Exists(object[h].file)

(* The threads that work on the object at h.                               *)
Busy(t) == thread[t].pc \in {"work", "close"}
Users(h) == {t \in Threads : Busy(t) /\ thread[t].obj = h}

(* Every thread that is not idle has a message, and a busy one an object   *)
(* with the name that the message is about.  Every object has a user, and  *)
(* the count says how many.                                                *)
Placed ==
    /\ \A t \in Threads :
          /\ thread[t].pc # "idle" => thread[t].req \in Messages
          /\ thread[t].pc \in {"list", "next", "listed"} => kind # "rados"
          /\ Busy(t) => /\ thread[t].obj \in Handles /\ object[thread[t].obj] # NULL
                        /\ object[thread[t].obj].path = Path(t)
    /\ \A h \in Handles : object[h] # NULL =>
          Users(h) # {} /\ object[h].ref = Cardinality(Users(h))

(* The POSIX cache: the lock is held from backend_file_get to              *)
(* backend_file_add, which makes sure that there is one object of a path;  *)
(* the table of a thread has the object it works on.                       *)
Cached ==
    kind = "posix" =>
       /\ \A t \in Threads : thread[t].pc = "open" => lock = t /\ cache[Path(t)] = NULL
       /\ \A t \in Threads : lock = t => thread[t].pc = "open"
       /\ \A p \in Paths : cache[p] # NULL => object[cache[p]] # NULL /\ object[cache[p]].path = p
       /\ \A h \in Handles : object[h] # NULL => cache[object[h].path] = h
       /\ \A t \in Threads, p \in Paths :
             files[t][p] = IF Busy(t) /\ p = Path(t) THEN thread[t].obj ELSE NULL

(* GIO and RADOS: every thread has its own object.                         *)
Owned ==
    kind # "posix" =>
       /\ \A t, u \in Threads : Busy(t) /\ Busy(u) /\ thread[t].obj = thread[u].obj => t = u
       /\ \A t \in Threads : thread[t].pc # "open"

(* While a name is not removed, an object that was opened after the        *)
(* message arrived is the file that has the name.                          *)
FreshFor(t) ==
    /\ thread[t].since \in 1 .. Len(names)
    /\ kind # "rados" /\ thread[t].alone /\ ~Unlinked(Path(t), thread[t].since) =>
          \A h \in Handles : object[h] # NULL /\ object[h].path = Path(t) => object[h].file = Now[Path(t)]
Fresh == \A t \in Threads : thread[t].pc # "idle" => FreshFor(t)

(* What a transfer has moved is a range that begins with the first byte.   *)
(* After interruptions the count is behind it.                             *)
Ranged(t, m) ==
    /\ thread[t].moved = 0 .. m - 1
    /\ thread[t].total <= m /\ m <= Wanted(t)
    /\ Type(t) = "READ" /\ m > 0 => Offset(t) + m <= size[FileOf(t)]
Counting(t) ==
    /\ thread[t].total \in Nat /\ ~thread[t].failed
    /\ IF thread[t].early THEN thread[t].total = 2 ^ Width - 1 ELSE \E m \in Nat : Ranged(t, m)
Unmoved(t) ==
    thread[t].total = 0 /\ thread[t].moved = {} /\ ~thread[t].early /\ ~thread[t].failed
Transferred(t) ==
    IF thread[t].early THEN thread[t].total = 2 ^ Width - 1 /\ ~thread[t].ret
    ELSE /\ 0 .. thread[t].total - 1 \subseteq thread[t].moved
         /\ ~thread[t].failed => thread[t].moved = 0 .. thread[t].total - 1
         /\ Type(t) = "WRITE" /\ (thread[t].ret \/ ~thread[t].failed) => thread[t].total = Wanted(t)
TransferFor(t) ==
    /\ thread[t].pc \in {"get", "open"} \/ (thread[t].pc = "work" /\ kind # "posix") => Unmoved(t)
    /\ thread[t].pc = "work" /\ kind = "posix" /\ Type(t) \in {"READ", "WRITE"} => Counting(t)
    /\ thread[t].pc = "close" /\ Type(t) \in {"READ", "WRITE"} => Transferred(t)
Transferring == \A t \in Threads : TransferFor(t)

(* A listing: what was found or will be was there, and what was there all  *)
(* the time was found or will be, maybe below a directory.                 *)
During(t) == thread[t].since .. Len(names)
WasThere(t, e) == \E k \in During(t) : names[k][e] # NULL
Stayed(t, p) == \A k \in During(t) : names[k][p] # NULL
Pending(t, p) ==
    \/ p \in thread[t].found \cup thread[t].todo
    \/ p \in Below /\ kind = "posix" /\ "directory" \in thread[t].todo
Regular(t) ==
    /\ \A e \in (thread[t].found \cup thread[t].todo) \ {"directory"} : WasThere(t, e)
    /\ \A p \in thread[t].req.match \cap Paths :
          Stayed(t, p) /\ (kind = "gio" => p \notin Below) => Pending(t, p)
ListFor(t) ==
    /\ thread[t].pc = "list" => thread[t].found = {}
    /\ thread[t].pc \in {"next", "listed"} => Regular(t)
    /\ thread[t].pc = "listed" => thread[t].todo = {}
ListsRegularly == \A t \in Threads : ListFor(t)

Control == Sized /\ Placed /\ Cached /\ Owned

-----------------------------------------------------------------------------
(* The parts of the state.                                                 *)

(* The message of a thread that is not idle.                               *)
LEMMA MessageType ==
    ASSUME Placed, NEW t \in Threads, thread[t].pc # "idle"
    PROVE  /\ Path(t) \in Paths /\ Type(t) \in Types /\ Wanted(t) \in Nat /\ Offset(t) \in Nat
           /\ Wanted(t) + 1 < 2 ^ Width
<1>1. thread[t].req \in Messages
  BY DEF Placed
<1>2. QED
  BY <1>1, FilesAssumption DEF Messages, Path, Type, Wanted, Offset

(* The names in the namespace.                                             *)
LEMMA NowType ==
    ASSUME TypeOK PROVE /\ Now \in NameStates /\ Len(names) \in Nat \ {0}
                        /\ Len(size) \in Nat /\ NewFile \in Nat
<1>1. names \in Seq(NameStates) /\ names # <<>> /\ size \in Seq(Nat)
  BY DEF TypeOK
<1>2. Len(names) \in Nat \ {0} /\ Len(size) \in Nat
  BY <1>1, EmptySeq, LenProperties
<1>3. Now \in NameStates
  BY <1>1, <1>2, ElementOfSeq DEF Now
<1>4. QED
  BY <1>2, <1>3 DEF NewFile

(* A name is given or removed.                                             *)
LEMMA NamesAppend ==
    ASSUME TypeOK, NEW new \in NameStates, names' = Append(names, new)
    PROVE  /\ names' \in Seq(NameStates) /\ names' # <<>> /\ Now' = new
           /\ Len(names') = Len(names) + 1
           /\ \A k \in 1 .. Len(names) : names'[k] = names[k]
<1>1. names \in Seq(NameStates) /\ Len(names) \in Nat
  BY NowType DEF TypeOK
<1>2. /\ names' \in Seq(NameStates) /\ Len(names') = Len(names) + 1
      /\ names'[Len(names) + 1] = new /\ \A k \in 1 .. Len(names) : names'[k] = names[k]
  BY <1>1, AppendProperties
<1>3. names' # <<>>
  BY <1>1, <1>2, EmptySeq
<1>4. Now' = new
  BY <1>2 DEF Now
<1>5. QED
  BY <1>2, <1>3, <1>4

(* What a step does to the file system: it leaves the names, or changes    *)
(* the one the message is about.                                           *)
Renamed(t, x) == names' = Append(names, [Now EXCEPT ![Path(t)] = x])

(* No file disappears, and none of the POSIX file system shrinks.          *)
Grows ==
    /\ size' \in Seq(Nat) /\ Len(size) <= Len(size')
    /\ kind = "posix" => \A i \in 1 .. Len(size) : size[i] <= size'[i]

LEMMA RenamedType ==
    ASSUME TypeOK, NEW t \in Threads, Path(t) \in Paths, NEW x \in Nat \cup {NULL}, Renamed(t, x)
    PROVE  /\ names' \in Seq(NameStates) /\ names' # <<>>
           /\ Now'[Path(t)] = x /\ \A p \in Paths \ {Path(t)} : Now'[p] = Now[p]
<1>1. [Now EXCEPT ![Path(t)] = x] \in NameStates
  BY NowType DEF NameStates
<1>2. /\ names' \in Seq(NameStates) /\ names' # <<>> /\ Now' = [Now EXCEPT ![Path(t)] = x]
  BY <1>1, NamesAppend DEF Renamed
<1>3. QED
  BY <1>2, NowType DEF NameStates

LEMMA GrowsSame == ASSUME TypeOK, size' = size PROVE Grows
<1>1. size \in Seq(Nat) /\ Len(size) \in Nat /\ \A i \in 1 .. Len(size) : size[i] \in Nat
  BY NowType, ElementOfSeq DEF TypeOK
<1>2. QED
  BY <1>1 DEF Grows

LEMMA GrowsAppend ==
    ASSUME TypeOK, NEW v \in Nat, size' = Append(size, v)
    PROVE  Grows /\ Len(size') = Len(size) + 1
<1>1. size \in Seq(Nat) /\ Len(size) \in Nat /\ \A i \in 1 .. Len(size) : size[i] \in Nat
  BY NowType, ElementOfSeq DEF TypeOK
<1>2. /\ size' \in Seq(Nat) /\ Len(size') = Len(size) + 1
      /\ \A i \in 1 .. Len(size) : size'[i] = size[i]
  BY <1>1, AppendProperties
<1>3. QED
  BY <1>1, <1>2 DEF Grows

LEMMA GrowsExcept ==
    ASSUME TypeOK, NEW i \in 1 .. Len(size), NEW v \in Nat, kind = "posix" => size[i] <= v,
           size' = [size EXCEPT ![i] = v]
    PROVE  Grows /\ Len(size') = Len(size)
<1>1. size \in Seq(Nat) /\ Len(size) \in Nat /\ \A k \in 1 .. Len(size) : size[k] \in Nat
  BY NowType, ElementOfSeq DEF TypeOK
<1>2. size' \in Seq(Nat) /\ Len(size') = Len(size)
  BY <1>1, ExceptSeq
<1>3. \A k \in 1 .. Len(size) : size'[k] = IF k = i THEN v ELSE size[k]
  BY <1>1, LenProperties
<1>4. QED
  BY <1>1, <1>2, <1>3 DEF Grows

(* The file of a busy thread exists; only with RADOS there may be none.    *)
LEMMA FileExists ==
    ASSUME TypeOK, Control, NEW t \in Threads, Busy(t)
    PROVE  /\ FileOf(t) # NULL => Exists(FileOf(t)) /\ size[FileOf(t)] \in Nat
           /\ kind # "rados" => FileOf(t) # NULL
           /\ StatusFile(t) # NULL => Exists(StatusFile(t)) /\ size[StatusFile(t)] \in Nat
           /\ Now[Path(t)] # NULL => Exists(Now[Path(t)])
           /\ Path(t) \in Paths
<1>1. Path(t) \in Paths
  BY MessageType DEF Control, Busy
<1>2. Now[Path(t)] # NULL => Exists(Now[Path(t)])
  BY <1>1 DEF Control, Sized
<1>3. kind # "rados" => Exists(object[thread[t].obj].file)
  BY DEF Control, Sized, Placed
<1>4. \A i : Exists(i) => size[i] \in Nat /\ i \in Nat
  BY NowType, ElementOfSeq DEF TypeOK, Exists
<1>5. NULL \notin Nat
  BY FilesAssumption
<1>6. QED
  BY <1>1, <1>2, <1>3, <1>4, <1>5 DEF FileOf, StatusFile

(* Only thread t changes, and it goes on with its message and its object.  *)
Only(t) == /\ thread' \in [Threads -> ThreadStates]
           /\ \A u \in Threads \ {t} : thread'[u] = thread[u]
Keeps(t) == /\ thread'[t].req = thread[t].req /\ thread'[t].obj = thread[t].obj
            /\ thread'[t].since = thread[t].since /\ thread'[t].alone = thread[t].alone

(* A name that a step gives belongs to a file.                             *)
NamesStep(t) ==
    \/ names' = names
    \/ \E x \in Nat \cup {NULL} : Renamed(t, x) /\ (x # NULL => Exists(x)')

LEMMA WithThread ==
    ASSUME TypeOK, NEW t \in Threads, NEW new \in ThreadStates, thread' = [thread EXCEPT ![t] = new]
    PROVE  Only(t) /\ thread'[t] = new
BY DEF TypeOK, Only

(* What the calls of the backend other than opening and closing do.        *)
WorkEffect(t) ==
    /\ Only(t) /\ Keeps(t)
    /\ thread[t].pc = "work" /\ thread'[t].pc \in {"work", "close"}
    /\ NamesStep(t) /\ Grows
    /\ UNCHANGED <<kind, object, cache, files, lock>> /\ interrupts' \in Nat

LEMMA CreateWorks ==
    ASSUME TypeOK, NEW t \in Threads, Create(t) PROVE WorkEffect(t)
<1>1. thread[t] \in ThreadStates
  BY DEF TypeOK
<1> DEFINE new == [thread[t] EXCEPT !.pc = "close", !.ret = TRUE]
<1>2. new \in ThreadStates
  BY <1>1 DEF ThreadStates, Pcs
<1>3. thread' = [thread EXCEPT ![t] = new]
  BY DEF Create
<1>4. Only(t) /\ thread'[t] = new
  BY <1>2, <1>3, WithThread
<1>5. Keeps(t) /\ thread'[t].pc = "close"
  BY <1>1, <1>4 DEF Keeps, ThreadStates
<1>6. QED
  BY <1>4, <1>5, GrowsSame DEF Create, WorkEffect, NamesStep, At, TypeOK

LEMMA DeleteWorks ==
    ASSUME TypeOK, Control, NEW t \in Threads, Delete(t) PROVE WorkEffect(t)
<1>1. thread[t] \in ThreadStates
  BY DEF TypeOK
<1> DEFINE ok == Now[Path(t)] # NULL
           new == [thread[t] EXCEPT !.pc = "close", !.ret = ok]
<1>0. ok \in BOOLEAN
  OBVIOUS
<1> HIDE DEF ok
<1>2. new \in ThreadStates
  BY <1>0, <1>1 DEF ThreadStates, Pcs
<1>3. thread' = [thread EXCEPT ![t] = new]
  BY DEF Delete, ok
<1>4. Only(t) /\ thread'[t] = new
  BY <1>2, <1>3, WithThread
<1>5. Keeps(t) /\ thread'[t].pc = "close"
  BY <1>1, <1>4 DEF Keeps, ThreadStates
<1>6. NamesStep(t)
  BY DEF Delete, NamesStep, Renamed
<1>7. QED
  BY <1>4, <1>5, <1>6, GrowsSame DEF Delete, WorkEffect, At, TypeOK

LEMMA StatusWorks ==
    ASSUME TypeOK, Control, NEW t \in Threads, Status(t) PROVE WorkEffect(t)
<1>1. thread[t] \in ThreadStates
  BY DEF TypeOK
<1> DEFINE i == StatusFile(t)
           ok == i # NULL
           total == IF i = NULL THEN 0 ELSE size[i]
           new == [thread[t] EXCEPT !.pc = "close", !.ret = ok, !.total = total]
<1>0. ok \in BOOLEAN /\ total \in Int
  BY FileExists DEF Status, Busy, At
<1>3. thread' = [thread EXCEPT ![t] = new]
  BY DEF Status
<1> HIDE DEF ok, total
<1>2. new \in ThreadStates
  BY <1>0, <1>1 DEF ThreadStates, Pcs
<1>4. Only(t) /\ thread'[t] = new
  BY <1>2, <1>3, WithThread
<1>5. Keeps(t) /\ thread'[t].pc = "close"
  BY <1>1, <1>4 DEF Keeps, ThreadStates
<1>6. QED
  BY <1>4, <1>5, GrowsSame DEF Status, WorkEffect, NamesStep, At, TypeOK

(* Counters of 2^Width values.                                             *)
LEMMA WrapType == ASSUME NEW n \in Int PROVE Wrap(n) \in Nat
BY FilesAssumption DEF Wrap

(* What happens to the count and to the bytes.                             *)
Counts(t, total, moved, early) ==
    /\ thread'[t].total = total /\ thread'[t].moved = moved /\ thread'[t].early = early
    /\ thread'[t].failed = thread[t].failed

LEMMA PReadWorks ==
    ASSUME TypeOK, Control, NEW t \in Threads, PRead(t)
    PROVE  /\ WorkEffect(t) /\ size' = size /\ thread'[t].pc = "work"
           /\ \E n \in 1 .. Wanted(t) - thread[t].total :
                 n <= Available(t) /\ Counts(t, AddTotal(t, n), Moved(t, n), thread[t].early)
<1>0. Loops(t) /\ Type(t) = "READ" /\ thread[t].pc = "work"
  BY DEF PRead, Loops, Transfers, At
<1>1. thread[t] \in ThreadStates /\ Wanted(t) \in Nat
  BY <1>0, MessageType DEF TypeOK, Control
<1>2. PICK n \in 1 .. Wanted(t) - thread[t].total :
          /\ n <= Available(t)
          /\ thread' = [thread EXCEPT ![t].total = AddTotal(t, n), ![t].moved = Moved(t, n)]
  BY DEF PRead
<1> DEFINE new == [thread[t] EXCEPT !.total = AddTotal(t, n), !.moved = Moved(t, n)]
<1>3. thread[t].total \in Int /\ thread[t].moved \in SUBSET Int /\ n \in Int
  BY <1>1 DEF ThreadStates
<1>4. AddTotal(t, n) \in Int /\ Moved(t, n) \in SUBSET Int
  BY <1>3, WrapType DEF AddTotal, Moved
<1>5. new \in ThreadStates
  BY <1>1, <1>4 DEF ThreadStates
<1>6. thread' = [thread EXCEPT ![t] = new]
  BY <1>2
<1>7. Only(t) /\ thread'[t] = new
  BY <1>5, <1>6, WithThread
<1>8. /\ Keeps(t) /\ thread'[t].pc = "work"
      /\ Counts(t, AddTotal(t, n), Moved(t, n), thread[t].early)
  BY <1>0, <1>1, <1>7 DEF Keeps, ThreadStates, Counts
<1>9. WorkEffect(t)
  BY <1>0, <1>7, <1>8, GrowsSame DEF PRead, WorkEffect, NamesStep, TypeOK
<1>10. QED
  BY <1>2, <1>8, <1>9 DEF PRead

LEMMA PWriteWorks ==
    ASSUME TypeOK, Control, NEW t \in Threads, PWrite(t)
    PROVE  /\ WorkEffect(t) /\ thread'[t].pc = "work" /\ names' = names
           /\ \E n \in 1 .. Wanted(t) - thread[t].total :
                 Counts(t, AddTotal(t, n), Moved(t, n), thread[t].early)
<1>0. Loops(t) /\ thread[t].pc = "work" /\ kind = "posix"
  BY DEF PWrite, Loops, Transfers, At
<1>1. thread[t] \in ThreadStates /\ Wanted(t) \in Nat /\ Offset(t) \in Nat
  BY <1>0, MessageType DEF TypeOK, Control
<1> DEFINE i == FileOf(t)
           end(n) == Offset(t) + thread[t].total + n
           new(n) == [thread[t] EXCEPT !.total = AddTotal(t, n), !.moved = Moved(t, n)]
<1>2. PICK n \in 1 .. Wanted(t) - thread[t].total :
          /\ size' = [size EXCEPT ![i] = IF end(n) > @ THEN end(n) ELSE @]
          /\ thread' = [thread EXCEPT ![t].total = AddTotal(t, n), ![t].moved = Moved(t, n)]
  BY DEF PWrite
<1>3. thread[t].total \in Int /\ thread[t].moved \in SUBSET Int /\ n \in Int
  BY <1>1 DEF ThreadStates
<1>4. AddTotal(t, n) \in Int /\ Moved(t, n) \in SUBSET Int
  BY <1>3, WrapType DEF AddTotal, Moved
<1>5. new(n) \in ThreadStates
  BY <1>1, <1>4 DEF ThreadStates
<1>6. thread' = [thread EXCEPT ![t] = new(n)]
  BY <1>2
<1>7. Only(t) /\ thread'[t] = new(n)
  BY <1>5, <1>6, WithThread
<1>8. /\ Keeps(t) /\ thread'[t].pc = "work"
      /\ Counts(t, AddTotal(t, n), Moved(t, n), thread[t].early)
  BY <1>0, <1>1, <1>7 DEF Keeps, ThreadStates, Counts
<1>9. Grows
  <2>1. i \in 1 .. Len(size) /\ size[i] \in Nat
    BY <1>0, FileExists DEF Busy, Exists
  <2>2. end(n) \in Int
    BY <1>1, <1>3
  <2> DEFINE v == IF end(n) > size[i] THEN end(n) ELSE size[i]
  <2>3. v \in Nat /\ size[i] <= v
    BY <2>1, <2>2
  <2>4. size' = [size EXCEPT ![i] = v]
    BY <1>2
  <2> HIDE DEF v, i
  <2>5. QED
    BY <2>1, <2>3, <2>4, GrowsExcept
<1>10. WorkEffect(t)
  BY <1>0, <1>7, <1>8, <1>9 DEF PWrite, WorkEffect, NamesStep, TypeOK
<1>11. QED
  BY <1>8, <1>10 DEF PWrite

LEMMA InterruptedWorks ==
    ASSUME TypeOK, Control, NEW t \in Threads, Interrupted(t)
    PROVE  /\ WorkEffect(t) /\ thread'[t].pc = "work" /\ size' = size /\ names' = names
           /\ Counts(t, AddTotal(t, -1), thread[t].moved, thread[t].early \/ thread[t].total = 0)
<1>0. Loops(t) /\ thread[t].pc = "work"
  BY DEF Interrupted, Loops, Transfers, At
<1>1. thread[t] \in ThreadStates
  BY DEF TypeOK
<1> DEFINE early == thread[t].early \/ thread[t].total = 0
           new == [thread[t] EXCEPT !.total = AddTotal(t, -1), !.early = early]
<1>2. AddTotal(t, -1) \in Int
  BY <1>1, WrapType DEF ThreadStates, AddTotal
<1>3. early \in BOOLEAN
  OBVIOUS
<1>4. thread' = [thread EXCEPT ![t] = new]
  BY DEF Interrupted
<1> HIDE DEF early
<1>5. new \in ThreadStates
  BY <1>1, <1>2, <1>3 DEF ThreadStates
<1>6. Only(t) /\ thread'[t] = new
  BY <1>4, <1>5, WithThread
<1>7. /\ Keeps(t) /\ thread'[t].pc = "work"
      /\ Counts(t, AddTotal(t, -1), thread[t].moved, early)
  BY <1>0, <1>1, <1>6 DEF Keeps, ThreadStates, Counts
<1>8. interrupts' \in Nat
  BY DEF Interrupted, TypeOK
<1>9. WorkEffect(t)
  BY <1>0, <1>6, <1>7, <1>8, GrowsSame DEF Interrupted, WorkEffect, NamesStep
<1>10. QED
  BY <1>7, <1>9 DEF Interrupted, early

LEMMA TransferEndWorks ==
    ASSUME TypeOK, Control, NEW t \in Threads, TransferEnd(t)
    PROVE  /\ WorkEffect(t) /\ thread'[t].pc = "close" /\ size' = size /\ names' = names
           /\ Counts(t, thread[t].total, thread[t].moved, thread[t].early)
           /\ thread'[t].ret = (thread[t].total = Wanted(t))
<1>0. thread[t].pc = "work"
  BY DEF TransferEnd, Transfers, At
<1>1. thread[t] \in ThreadStates
  BY DEF TypeOK
<1> DEFINE ok == thread[t].total = Wanted(t)
           new == [thread[t] EXCEPT !.pc = "close", !.ret = ok]
<1>3. ok \in BOOLEAN
  OBVIOUS
<1>4. thread' = [thread EXCEPT ![t] = new]
  BY DEF TransferEnd
<1> HIDE DEF ok
<1>5. new \in ThreadStates
  BY <1>1, <1>3 DEF ThreadStates, Pcs
<1>6. Only(t) /\ thread'[t] = new
  BY <1>4, <1>5, WithThread
<1>7. /\ Keeps(t) /\ thread'[t].pc = "close" /\ thread'[t].ret = ok
      /\ Counts(t, thread[t].total, thread[t].moved, thread[t].early)
  BY <1>0, <1>1, <1>6 DEF Keeps, ThreadStates, Counts
<1>9. WorkEffect(t)
  BY <1>0, <1>6, <1>7, GrowsSame DEF TransferEnd, WorkEffect, NamesStep, TypeOK
<1>10. QED
  BY <1>7, <1>9 DEF TransferEnd, ok

(* Another error ends the loop.                                            *)
LEMMA LoopBreaksWorks ==
    ASSUME TypeOK, Control, NEW t \in Threads, LoopBreaks(t)
    PROVE  /\ WorkEffect(t) /\ thread'[t].pc = "close" /\ size' = size /\ names' = names
           /\ thread'[t] = [thread[t] EXCEPT !.pc = "close", !.ret = FALSE, !.failed = TRUE]
<1> DEFINE new == [thread[t] EXCEPT !.pc = "close", !.ret = FALSE, !.failed = TRUE]
<1>0. thread[t].pc = "work"
  BY DEF LoopBreaks, Loops, Transfers, At
<1>1. thread[t] \in ThreadStates
  BY DEF TypeOK
<1>2. new \in ThreadStates
  BY <1>1 DEF ThreadStates, Pcs
<1>3. thread' = [thread EXCEPT ![t] = new]
  BY DEF LoopBreaks
<1>4. Only(t) /\ thread'[t] = new
  BY <1>2, <1>3, WithThread
<1>5. Keeps(t) /\ thread'[t].pc = "close"
  BY <1>1, <1>4 DEF Keeps, ThreadStates
<1>6. WorkEffect(t)
  BY <1>0, <1>4, <1>5, GrowsSame DEF LoopBreaks, WorkEffect, NamesStep, TypeOK
<1>7. QED
  BY <1>4, <1>5, <1>6 DEF LoopBreaks

LEMMA AvailableType ==
    ASSUME TypeOK, Control, NEW t \in Threads, Busy(t) PROVE Available(t) \in Nat
<1>1. thread[t].total \in Int /\ Offset(t) \in Nat
  BY MessageType DEF TypeOK, ThreadStates, Control, Busy
<1>2. FileOf(t) # NULL => size[FileOf(t)] \in Nat
  BY FileExists
<1>3. QED
  BY <1>1, <1>2 DEF Available

(* GIO and RADOS read.                                                     *)
LEMMA TransferReads ==
    ASSUME TypeOK, Control, NEW t \in Threads, Transfer(t), Type(t) = "READ"
    PROVE  /\ WorkEffect(t) /\ thread'[t].pc = "close" /\ names' = names
           /\ \E n \in Nat : Counts(t, n, 0 .. n - 1, thread[t].early)
<1>0. thread[t].pc = "work" /\ Busy(t)
  BY DEF Transfer, Transfers, At, Busy
<1>1. thread[t] \in ThreadStates /\ Wanted(t) \in Nat /\ Available(t) \in Nat
  BY <1>0, MessageType, AvailableType DEF TypeOK, Control
<1> DEFINE n == Least(Available(t), Wanted(t))
           m == 0 .. n - 1
           ok == FileOf(t) # NULL
           new == [thread[t] EXCEPT !.pc = "close", !.ret = ok, !.total = n, !.moved = m]
<1>2. n \in Nat /\ ok \in BOOLEAN
  BY <1>1 DEF Least
<1>3. thread' = [thread EXCEPT ![t] = new] /\ UNCHANGED <<names, size>>
  BY DEF Transfer
<1> HIDE DEF ok, n
<1>4. m \in SUBSET Int /\ n \in Int
  BY <1>2
<1> HIDE DEF m
<1>5. new \in ThreadStates
  BY <1>1, <1>2, <1>4 DEF ThreadStates, Pcs
<1>6. Only(t) /\ thread'[t] = new
  BY <1>3, <1>5, WithThread
<1>7. Keeps(t) /\ thread'[t].pc = "close" /\ Counts(t, n, m, thread[t].early)
  BY <1>0, <1>1, <1>6 DEF Keeps, ThreadStates, Counts
<1>8. WorkEffect(t)
  BY <1>0, <1>3, <1>6, <1>7, GrowsSame DEF Transfer, WorkEffect, NamesStep, TypeOK
<1>9. QED
  BY <1>2, <1>3, <1>7, <1>8 DEF m

(* ...and write.                                                           *)
LEMMA TransferWrites ==
    ASSUME TypeOK, Control, NEW t \in Threads, Transfer(t), Type(t) # "READ"
    PROVE  /\ WorkEffect(t) /\ thread'[t].pc = "close" /\ (kind # "rados" => names' = names)
           /\ Counts(t, Wanted(t), 0 .. Wanted(t) - 1, thread[t].early)
<1>0. thread[t].pc = "work" /\ Busy(t) /\ kind # "posix"
  BY DEF Transfer, Transfers, At, Busy
<1>1. /\ thread[t] \in ThreadStates /\ Wanted(t) \in Nat /\ Offset(t) \in Nat
      /\ Len(size) \in Nat
  BY <1>0, MessageType, NowType DEF TypeOK, Control
<1> DEFINE m == 0 .. Wanted(t) - 1
           new == [thread[t] EXCEPT !.pc = "close", !.ret = TRUE, !.total = Wanted(t), !.moved = m]
           i == IF kind = "rados" /\ Now[Path(t)] = NULL THEN NewFile ELSE FileOf(t)
           end == Offset(t) + Wanted(t)
           old == IF i = NewFile THEN 0 ELSE size[i]
<1>2. m \in SUBSET Int /\ end \in Nat /\ Wanted(t) \in Int
  BY <1>1
<1>3. /\ thread' = [thread EXCEPT ![t] = new]
      /\ names' = IF i = NewFile THEN Append(names, [Now EXCEPT ![Path(t)] = i]) ELSE names
      /\ size' = IF i = NewFile THEN Append(size, end)
                 ELSE [size EXCEPT ![i] = IF end > old THEN end ELSE old]
  BY DEF Transfer
<1>a. i = NewFile \/ (Exists(i) /\ size[i] \in Nat)
  BY <1>0, FileExists DEF FileOf
<1>b. i = NewFile => kind = "rados"
  BY <1>0, <1>1, FileExists DEF NewFile, Exists
<1> HIDE DEF m, i, end
<1>5. new \in ThreadStates
  BY <1>1, <1>2 DEF ThreadStates, Pcs
<1>6. Only(t) /\ thread'[t] = new
  BY <1>3, <1>5, WithThread
<1>7. Keeps(t) /\ thread'[t].pc = "close" /\ Counts(t, Wanted(t), m, thread[t].early)
  BY <1>0, <1>1, <1>6 DEF Keeps, ThreadStates, Counts
<1>8. Grows /\ NamesStep(t)
  <2>1. CASE i = NewFile
    <3>1. size' = Append(size, end) /\ Renamed(t, i)
      BY <1>3, <2>1 DEF Renamed
    <3>2. Grows /\ Len(size') = Len(size) + 1
      BY <1>2, <3>1, GrowsAppend
    <3>3. i \in Nat /\ i \in 1 .. Len(size')
      BY <1>1, <2>1, <3>2 DEF NewFile
    <3>4. QED
      BY <3>1, <3>2, <3>3 DEF NamesStep, Exists
  <2>2. CASE i # NewFile
    <3> DEFINE v == IF end > old THEN end ELSE old
    <3>1. i \in 1 .. Len(size) /\ v \in Nat /\ size' = [size EXCEPT ![i] = v]
      BY <1>2, <1>3, <1>a, <2>2 DEF Exists
    <3> HIDE DEF v
    <3>2. Grows
      BY <1>0, <3>1, GrowsExcept
    <3>3. QED
      BY <1>3, <2>2, <3>2 DEF NamesStep
  <2>3. QED
    BY <2>1, <2>2
<1>9. WorkEffect(t)
  BY <1>0, <1>6, <1>7, <1>8 DEF Transfer, WorkEffect, TypeOK
<1>10. QED
  BY <1>3, <1>b, <1>7, <1>9 DEF m

(* ...and fail, after some bytes.                                          *)
LEMMA LibraryFailsWorks ==
    ASSUME TypeOK, Control, NEW t \in Threads, LibraryFails(t)
    PROVE  /\ WorkEffect(t) /\ thread'[t].pc = "close" /\ names' = names
           /\ \E n \in Nat :
                 thread'[t] = [thread[t] EXCEPT !.pc = "close", !.ret = FALSE, !.failed = TRUE,
                                                !.total = n, !.moved = 0 .. n - 1]
<1>0. thread[t].pc = "work" /\ Busy(t) /\ kind # "posix"
  BY DEF LibraryFails, Transfers, At, Busy
<1>1. /\ thread[t] \in ThreadStates /\ Wanted(t) \in Nat /\ Offset(t) \in Nat
      /\ Len(size) \in Nat
  BY <1>0, MessageType, NowType DEF TypeOK, Control
<1>2. PICK n \in 0 .. (IF kind = "gio" THEN Wanted(t) - 1 ELSE 0) :
          /\ thread' = [thread EXCEPT ![t].pc = "close", ![t].ret = FALSE, ![t].failed = TRUE,
                                      ![t].total = n, ![t].moved = 0 .. n - 1]
          /\ size' = IF Type(t) = "WRITE" /\ n > 0 /\ Offset(t) + n > size[FileOf(t)]
                     THEN [size EXCEPT ![FileOf(t)] = Offset(t) + n] ELSE size
  BY DEF LibraryFails
<1> DEFINE m == 0 .. n - 1
           new == [thread[t] EXCEPT !.pc = "close", !.ret = FALSE, !.failed = TRUE,
                                    !.total = n, !.moved = m]
           i == FileOf(t)
           v == Offset(t) + n
<1>3. n \in Nat /\ n \in Int /\ m \in SUBSET Int /\ v \in Nat /\ (n > 0 => kind = "gio")
  BY <1>1
<1>4. thread' = [thread EXCEPT ![t] = new]
  BY <1>2
<1> HIDE DEF m
<1>5. new \in ThreadStates
  BY <1>1, <1>3 DEF ThreadStates, Pcs
<1>6. Only(t) /\ thread'[t] = new
  BY <1>4, <1>5, WithThread
<1>7. Keeps(t) /\ thread'[t].pc = "close"
  BY <1>1, <1>6 DEF Keeps, ThreadStates
<1>8. Grows
  <2>1. CASE size' = size
    BY <2>1, GrowsSame
  <2>2. CASE n > 0 /\ v > size[i] /\ size' = [size EXCEPT ![i] = v]
    <3>1. i # NULL /\ Exists(i) /\ size[i] \in Nat
      BY <1>0, <1>3, <2>2, FileExists
    <3>2. i \in 1 .. Len(size) /\ (kind = "posix" => size[i] <= v)
      BY <1>0, <3>1 DEF Exists
    <3> HIDE DEF i, v
    <3>3. QED
      BY <1>3, <2>2, <3>2, GrowsExcept
  <2>3. QED
    BY <1>2, <2>1, <2>2
<1>9. WorkEffect(t)
  BY <1>0, <1>6, <1>7, <1>8 DEF LibraryFails, WorkEffect, NamesStep, TypeOK
<1>10. QED
  BY <1>3, <1>6, <1>7, <1>9 DEF LibraryFails, m

LEMMA AllWork ==
    ASSUME TypeOK, Control, NEW t \in Threads, Working(t) \/ Failing(t) PROVE WorkEffect(t)
BY CreateWorks, DeleteWorks, StatusWorks, PReadWorks, PWriteWorks, InterruptedWorks,
   LoopBreaksWorks, LibraryFailsWorks, TransferEndWorks, TransferReads, TransferWrites
   DEF Working, Failing

-----------------------------------------------------------------------------
(* What the other steps do.                                                *)

LEMMA IdleType == Idle \in ThreadStates
BY DEF Idle, ThreadStates, Pcs

LEMMA FinishEffect ==
    ASSUME TypeOK, NEW t \in Threads, NEW ret \in BOOLEAN, Finish(t, ret)
    PROVE  Only(t) /\ thread'[t].pc = "idle"
<1> DEFINE new == [Idle EXCEPT !.n = thread[t].n, !.ret = ret]
<1>1. thread[t].n \in Nat
  BY DEF TypeOK, ThreadStates
<1>2. new \in ThreadStates /\ new.pc = "idle"
  BY <1>1, IdleType DEF ThreadStates, Idle
<1>3. QED
  BY <1>2, WithThread DEF Finish

LEMMA GoEffect ==
    ASSUME TypeOK, NEW t \in Threads, NEW pc \in Pcs, Go(t, pc)
    PROVE  /\ Only(t) /\ thread'[t].pc = pc /\ Keeps(t)
           /\ Counts(t, thread[t].total, thread[t].moved, thread[t].early)
<1> DEFINE new == [thread[t] EXCEPT !.pc = pc]
<1>1. thread[t] \in ThreadStates
  BY DEF TypeOK
<1>2. new \in ThreadStates
  BY <1>1 DEF ThreadStates
<1>3. Only(t) /\ thread'[t] = new
  BY <1>2, WithThread DEF Go
<1>4. QED
  BY <1>1, <1>3 DEF ThreadStates, Keeps, Counts

(* A thread gets to work on an object.                                     *)
LEMMA WorkOn ==
    ASSUME TypeOK, NEW t \in Threads, NEW h \in Handles,
           thread' = [thread EXCEPT ![t].pc = "work", ![t].obj = h]
    PROVE  /\ Only(t) /\ thread'[t].pc = "work" /\ thread'[t].obj = h
           /\ thread'[t].req = thread[t].req /\ thread'[t].since = thread[t].since
           /\ thread'[t].alone = thread[t].alone
           /\ Counts(t, thread[t].total, thread[t].moved, thread[t].early)
<1> DEFINE new == [thread[t] EXCEPT !.pc = "work", !.obj = h]
<1>1. thread[t] \in ThreadStates
  BY DEF TypeOK
<1>2. new \in ThreadStates
  BY <1>1 DEF ThreadStates, Pcs
<1>3. thread' = [thread EXCEPT ![t] = new]
  OBVIOUS
<1>4. Only(t) /\ thread'[t] = new
  BY <1>2, <1>3, WithThread
<1>5. /\ thread'[t].pc = "work" /\ thread'[t].obj = h
      /\ thread'[t].req = thread[t].req /\ thread'[t].since = thread[t].since
      /\ thread'[t].alone = thread[t].alone
  BY ONLY <1>1, <1>4 DEF ThreadStates
<1>6. Counts(t, thread[t].total, thread[t].moved, thread[t].early)
  BY ONLY <1>1, <1>4 DEF ThreadStates, Counts
<1>7. QED
  BY <1>4, <1>5, <1>6

LEMMA ReceiveEffect ==
    ASSUME TypeOK, NEW t \in Threads, NEW r \in Requests[t], Receive(t, r)
    PROVE  /\ Only(t) /\ thread[t].pc = "idle"
           /\ thread'[t].pc = IF r.type = "LIST" THEN "list" ELSE "get"
           /\ r.type = "LIST" => kind # "rados"
           /\ thread'[t].req = r /\ r \in Messages /\ thread'[t].since = Len(names)
           /\ thread'[t].alone = Alone(r.path)
           /\ Unmoved(t)' /\ thread'[t].found = {}
           /\ UNCHANGED <<kind, names, size, object, cache, files, lock, interrupts>>
<1> DEFINE pc == IF r.type = "LIST" THEN "list" ELSE "get"
           new == [Idle EXCEPT !.n = thread[t].n + 1, !.req = r, !.since = Len(names),
                               !.alone = Alone(r.path), !.pc = pc]
<1>0. Alone(r.path) \in BOOLEAN
  BY DEF Alone
<1>2. thread' = [thread EXCEPT ![t] = new]
  BY DEF Receive
<1>1. thread[t].n + 1 \in Nat /\ r \in Messages /\ Len(names) \in Nat /\ pc \in Pcs
  <2>1. r \in Messages
    BY DEF Messages
  <2>2. thread[t].n + 1 \in Nat /\ pc \in Pcs
    BY DEF TypeOK, ThreadStates, Pcs
  <2>3. QED
    BY <2>1, <2>2, NowType
<1> HIDE DEF pc
<1>3. new \in ThreadStates
  BY <1>0, <1>1, IdleType DEF ThreadStates
<1>4. Only(t) /\ thread'[t] = new
  BY <1>2, <1>3, WithThread
<1>5. /\ thread'[t].pc = pc /\ thread'[t].req = r /\ thread'[t].since = Len(names)
      /\ thread'[t].alone = Alone(r.path) /\ Unmoved(t)' /\ thread'[t].found = {}
  BY <1>4 DEF Idle, Unmoved
<1>6. QED
  BY <1>0, <1>1, <1>4, <1>5 DEF Receive, At, pc

(* Opening a file.                                                         *)
LEMMA OpenFileEffect ==
    ASSUME TypeOK, Control, NEW t \in Threads, thread[t].pc # "idle", Opens(t), OpenFile(t)
    PROVE  /\ Grows /\ Opened(t) \in Nat \cup {NULL}
           /\ kind # "rados" => Opened(t) \in 1 .. Len(size')
           /\ \/ ~Makes(t) /\ names' = names /\ Opened(t) = Now[Path(t)]
                 /\ (kind # "rados" => size' = size)
              \/ /\ Makes(t) /\ Renamed(t, NewFile) /\ Opened(t) = NewFile
                 /\ NewFile \in 1 .. Len(size')
<1>1. Path(t) \in Paths /\ Len(size) \in Nat /\ Now \in NameStates
  BY MessageType, NowType DEF Control
<1>2. Now[Path(t)] \in Nat \cup {NULL} /\ (Now[Path(t)] # NULL => Now[Path(t)] \in 1 .. Len(size))
  BY <1>1 DEF NameStates, Control, Sized, Exists
<1>3. CASE Makes(t)
  <2>1. size' = Append(size, 0) /\ Renamed(t, NewFile) /\ Opened(t) = NewFile
    BY <1>3 DEF OpenFile, Renamed, Opened
  <2>2. Grows /\ Len(size') = Len(size) + 1
    BY <2>1, GrowsAppend
  <2>3. NewFile \in 1 .. Len(size') /\ NewFile \in Nat
    BY <1>1, <2>2 DEF NewFile
  <2>4. QED
    BY <1>3, <2>1, <2>2, <2>3
<1>4. CASE ~Makes(t)
  <2>1. names' = names /\ Opened(t) = Now[Path(t)]
    BY <1>4 DEF OpenFile, Opened
  <2>2. Type(t) = "CREATE" => Now[Path(t)] # NULL
    BY <1>4 DEF Makes
  <2>3. kind # "rados" => Now[Path(t)] # NULL
    BY <2>2 DEF Opens, TypeOK
  <2>4. Grows /\ (kind # "rados" => size' = size)
    <3>1. CASE kind = "rados" /\ Type(t) = "CREATE"
      <4>1. size' = [size EXCEPT ![Now[Path(t)]] = 0] /\ Now[Path(t)] \in 1 .. Len(size)
        BY <1>2, <1>4, <2>2, <3>1 DEF OpenFile
      <4>2. QED
        BY <3>1, <4>1, GrowsExcept
    <3>2. CASE ~(kind = "rados" /\ Type(t) = "CREATE")
      <4>1. size' = size
        BY <1>4, <3>2 DEF OpenFile
      <4>2. QED
        BY <4>1, GrowsSame
    <3>3. QED
      BY <3>1, <3>2
  <2>5. kind # "rados" => Opened(t) \in 1 .. Len(size')
    BY <1>2, <2>1, <2>3, <2>4
  <2>6. QED
    BY <1>2, <1>4, <2>1, <2>4, <2>5
<1>5. QED
  BY <1>3, <1>4

-----------------------------------------------------------------------------
(* The objects and their users.                                            *)

(* The objects stay as they are, and with their users.                     *)
LEMMA QuietStep ==
    ASSUME TypeOK, Control, NEW t \in Threads, Only(t),
           UNCHANGED <<kind, object, cache, files, lock>>,
           \/ Busy(t) /\ Busy(t)' /\ thread'[t].req = thread[t].req /\ thread'[t].obj = thread[t].obj
           \/ ~Busy(t) /\ ~Busy(t)' /\ thread[t].pc # "open" /\ thread'[t].pc # "open",
           thread'[t].pc # "idle" => thread'[t].req \in Messages,
           thread'[t].pc \in {"list", "next", "listed"} => kind # "rados"
    PROVE  Placed' /\ Cached' /\ Owned'
<1>1. \A u \in Threads \ {t} : thread'[u] = thread[u]
  BY DEF Only
<1>2. \A u \in Threads : /\ Busy(u)' = Busy(u)
                         /\ Busy(u) => Path(u)' = Path(u) /\ thread'[u].obj = thread[u].obj
                         /\ thread'[u].pc = "open" <=> thread[u].pc = "open"
                         /\ thread'[u].pc = "open" => Path(u)' = Path(u)
  BY <1>1 DEF Busy, Path
<1>3. \A h \in Handles : Users(h)' = Users(h)
  BY <1>2 DEF Users
<1>4. \A u \in Threads : /\ thread'[u].pc # "idle" => thread'[u].req \in Messages
                         /\ thread'[u].pc \in {"list", "next", "listed"} => kind # "rados"
  BY <1>1 DEF Control, Placed
<1>5. Placed'
  BY <1>2, <1>3, <1>4 DEF Control, Placed
<1>6. Cached'
  BY <1>2 DEF Control, Cached
<1>7. Owned'
  BY <1>2 DEF Control, Owned
<1>8. QED
  BY <1>5, <1>6, <1>7

(* The files of names and of objects still exist.                          *)
LEMMA SizedStep ==
    ASSUME TypeOK, Control, Grows, kind' = kind,
           \A p \in Paths : Now'[p] = Now[p] \/ Now'[p] = NULL \/ Now'[p] \in 1 .. Len(size'),
           \A h \in Handles : \/ object'[h] = NULL
                              \/ object[h] # NULL /\ object'[h].file = object[h].file
                              \/ kind # "rados" => object'[h].file \in 1 .. Len(size')
    PROVE  Sized'
<1>1. Len(size) \in Nat /\ Len(size') \in Nat /\ Len(size) <= Len(size')
  BY NowType, LenProperties DEF Grows
<1>2. \A i : i \in 1 .. Len(size) => i \in 1 .. Len(size')
  BY <1>1
<1>3. \A p \in Paths : Now'[p] # NULL => Now'[p] \in 1 .. Len(size')
  BY <1>2 DEF Control, Sized, Exists
<1>4. kind # "rados" => \A h \in Handles : object'[h] # NULL => object'[h].file \in 1 .. Len(size')
  BY <1>2 DEF Control, Sized, Exists
<1>5. QED
  BY <1>3, <1>4 DEF Sized, Exists

(* The calls of the backend on an open object.                             *)
LEMMA WorkControl ==
    ASSUME TypeOK, Control, NEW t \in Threads, WorkEffect(t)
    PROVE  TypeOK' /\ Control'
<1>0. Busy(t) /\ Path(t) \in Paths
  BY FileExists DEF WorkEffect, Busy
<1>1. Placed' /\ Cached' /\ Owned'
  <2>1. thread[t].req \in Messages
    BY <1>0 DEF Control, Placed, Busy
  <2>2. Only(t) /\ Busy(t)' /\ thread'[t].req = thread[t].req /\ thread'[t].obj = thread[t].obj
    BY DEF WorkEffect, Busy, Keeps
  <2>3. QED
    BY <1>0, <2>1, <2>2, QuietStep DEF WorkEffect
<1>2. /\ names' \in Seq(NameStates) /\ names' # <<>>
      /\ \A p \in Paths : Now'[p] = Now[p] \/ Now'[p] = NULL \/ Now'[p] \in 1 .. Len(size')
  <2>1. CASE names' = names
    BY <2>1 DEF TypeOK, Now
  <2>2. CASE names' # names
    <3>1. PICK x \in Nat \cup {NULL} : Renamed(t, x) /\ (x # NULL => x \in 1 .. Len(size'))
      BY <2>2 DEF WorkEffect, NamesStep, Exists
    <3>2. QED
      BY <1>0, <3>1, RenamedType
  <2>3. QED
    BY <2>1, <2>2
<1>3. Sized'
  <2>1. Grows /\ kind' = kind /\ object' = object
    BY DEF WorkEffect
  <2>2. QED
    BY <1>2, <2>1, SizedStep
<1>4. TypeOK'
  BY <1>2 DEF TypeOK, WorkEffect, Only, Grows
<1>5. QED
  BY <1>1, <1>3, <1>4 DEF Control

LEMMA ReceiveControl ==
    ASSUME TypeOK, Control, NEW t \in Threads, NEW r \in Requests[t], Receive(t, r)
    PROVE  TypeOK' /\ Control'
<1>1. Placed' /\ Cached' /\ Owned'
  BY ReceiveEffect, QuietStep DEF Busy
<1>2. Sized'
  BY ReceiveEffect DEF Control, Sized, Exists, Now
<1>3. TypeOK'
  BY ReceiveEffect DEF TypeOK, Only
<1>4. QED
  BY <1>1, <1>2, <1>3 DEF Control

(* What the steps of a listing do.                                         *)
Lists(t, pc, todo, found) ==
    /\ Only(t) /\ thread'[t].pc = pc /\ thread'[t].todo = todo /\ thread'[t].found = found
    /\ thread'[t].req = thread[t].req /\ thread'[t].since = thread[t].since
    /\ thread'[t].alone = thread[t].alone
    /\ UNCHANGED <<kind, names, size, object, cache, files, lock, interrupts>>

LEMMA ListsWith ==
    ASSUME TypeOK, NEW t \in Threads, NEW new \in ThreadStates,
           thread' = [thread EXCEPT ![t] = new],
           new.req = thread[t].req, new.since = thread[t].since, new.alone = thread[t].alone,
           UNCHANGED <<kind, names, size, object, cache, files, lock, interrupts>>
    PROVE  Lists(t, new.pc, new.todo, new.found)
BY WithThread DEF Lists

LEMMA EntriesTypes ==
    /\ Existing \in SUBSET Entries /\ TopLevel \in SUBSET Entries
    /\ "directory" \notin Existing /\ Existing \subseteq Paths
<1>1. Existing \subseteq Paths /\ Directory \subseteq {"directory"}
  BY DEF Existing, Directory
<1>2. QED
  BY <1>1, FilesAssumption DEF Entries, TopLevel

LEMMA ListStartEffect ==
    ASSUME TypeOK, NEW t \in Threads, ListStart(t)
    PROVE  thread[t].pc = "list" /\ Lists(t, "next", TopLevel, thread[t].found)
<1>1. thread[t] \in ThreadStates
  BY DEF TypeOK
<1> DEFINE new == [thread[t] EXCEPT !.pc = "next", !.todo = TopLevel, !.listed = TopLevel]
<1>2. thread' = [thread EXCEPT ![t] = new]
  BY DEF ListStart
<1>3. /\ new \in ThreadStates /\ new.pc = "next" /\ new.todo = TopLevel
      /\ new.found = thread[t].found
      /\ new.req = thread[t].req /\ new.since = thread[t].since /\ new.alone = thread[t].alone
  BY <1>1, EntriesTypes DEF ThreadStates, Pcs
<1> HIDE DEF new
<1>4. QED
  BY <1>2, <1>3, ListsWith DEF ListStart, At

LEMMA ListNewEffect ==
    ASSUME TypeOK, NEW t \in Threads, ListNew(t)
    PROVE  /\ thread[t].pc = "next"
           /\ \E p \in Existing : Lists(t, "next", thread[t].todo \cup {p}, thread[t].found)
<1>1. thread[t] \in ThreadStates /\ thread[t].pc = "next"
  BY DEF TypeOK, ListNew, At
<1>2. PICK p \in Existing :
          thread' = [thread EXCEPT ![t].todo = @ \cup {p}, ![t].listed = @ \cup {p}]
  BY DEF ListNew
<1> DEFINE new == [thread[t] EXCEPT !.todo = @ \cup {p}, !.listed = @ \cup {p}]
<1>3. thread' = [thread EXCEPT ![t] = new]
  BY <1>2
<1>4. /\ thread[t].todo \cup {p} \in SUBSET Entries /\ thread[t].listed \cup {p} \in SUBSET Entries
  BY <1>1, EntriesTypes DEF ThreadStates
<1>5. /\ new \in ThreadStates /\ new.pc = "next" /\ new.todo = thread[t].todo \cup {p}
      /\ new.found = thread[t].found
      /\ new.req = thread[t].req /\ new.since = thread[t].since /\ new.alone = thread[t].alone
  BY <1>1, <1>4 DEF ThreadStates, Pcs
<1> HIDE DEF new
<1>6. QED
  BY <1>1, <1>3, <1>5, ListsWith, ZenonT(40) DEF ListNew

LEMMA ListEndEffect ==
    ASSUME TypeOK, NEW t \in Threads, ListEnd(t)
    PROVE  /\ thread[t].pc = "next" /\ thread[t].todo = {}
           /\ Lists(t, "listed", thread[t].todo, thread[t].found)
<1>1. thread[t] \in ThreadStates
  BY DEF TypeOK
<1> DEFINE new == [thread[t] EXCEPT !.pc = "listed"]
<1>2. thread' = [thread EXCEPT ![t] = new]
  BY DEF ListEnd
<1>3. /\ new \in ThreadStates /\ new.pc = "listed" /\ new.todo = thread[t].todo
      /\ new.found = thread[t].found
      /\ new.req = thread[t].req /\ new.since = thread[t].since /\ new.alone = thread[t].alone
  BY <1>1 DEF ThreadStates, Pcs
<1> HIDE DEF new
<1>4. QED
  BY <1>2, <1>3, ListsWith DEF ListEnd, At

(* The next entry: a directory is descended into, or the entry is taken or *)
(* left out.                                                               *)
LEMMA ListNextEffect ==
    ASSUME TypeOK, NEW t \in Threads, ListNext(t)
    PROVE  /\ thread[t].pc = "next"
           /\ \/ /\ kind = "posix"
                 /\ Lists(t, "next", Descend(t), thread[t].found)
              \/ \E e \in thread[t].todo, found \in SUBSET Entries :
                    /\ ~(e = "directory" /\ kind = "posix")
                    /\ Lists(t, "next", thread[t].todo \ {e}, found)
                    /\ \/ found = thread[t].found \cup {e}
                       \/ found = thread[t].found /\ (e \notin thread[t].req.match \/ Now[e] = NULL)
<1>1. thread[t] \in ThreadStates /\ thread[t].pc = "next"
  BY DEF TypeOK, ListNext, At
<1>0. UNCHANGED <<kind, names, size, object, cache, files, lock, interrupts>>
  BY DEF ListNext
<1>2. PICK e \in thread[t].todo :
          IF e = "directory" /\ kind = "posix"
          THEN thread' = [thread EXCEPT ![t].todo = Descend(t), ![t].listed = @ \cup Existing]
          ELSE \E skip \in BOOLEAN :
                  /\ skip => e # "directory" /\ Now[e] = NULL
                  /\ thread' = [thread EXCEPT ![t].todo = @ \ {e},
                        ![t].found = IF skip \/ e \notin thread[t].req.match THEN @ ELSE @ \cup {e}]
  BY DEF ListNext
<1>3. CASE e = "directory" /\ kind = "posix"
  <2> DEFINE new == [thread[t] EXCEPT !.todo = Descend(t), !.listed = @ \cup Existing]
  <2>1. thread' = [thread EXCEPT ![t] = new]
    BY <1>2, <1>3
  <2>2. Descend(t) \in SUBSET Entries /\ thread[t].listed \cup Existing \in SUBSET Entries
    BY <1>1, EntriesTypes DEF ThreadStates, Descend
  <2>3. /\ new \in ThreadStates /\ new.pc = "next" /\ new.todo = Descend(t)
        /\ new.found = thread[t].found
        /\ new.req = thread[t].req /\ new.since = thread[t].since /\ new.alone = thread[t].alone
    BY <1>1, <2>2 DEF ThreadStates, Pcs
  <2> HIDE DEF new
  <2>4. Lists(t, "next", Descend(t), thread[t].found)
    BY <1>0, <2>1, <2>3, ListsWith
  <2>5. QED
    BY <1>1, <1>3, <2>4
<1>4. CASE ~(e = "directory" /\ kind = "posix")
  <2>1. PICK skip \in BOOLEAN :
            /\ skip => e # "directory" /\ Now[e] = NULL
            /\ thread' = [thread EXCEPT ![t].todo = @ \ {e},
                  ![t].found = IF skip \/ e \notin thread[t].req.match THEN @ ELSE @ \cup {e}]
    BY <1>2, <1>4
  <2> DEFINE found == IF skip \/ e \notin thread[t].req.match THEN thread[t].found
                      ELSE thread[t].found \cup {e}
             new == [thread[t] EXCEPT !.todo = @ \ {e}, !.found = found]
  <2>2. thread' = [thread EXCEPT ![t] = new]
    BY <2>1
  <2>3. /\ thread[t].todo \ {e} \in SUBSET Entries /\ found \in SUBSET Entries
        /\ \/ found = thread[t].found \cup {e}
           \/ found = thread[t].found /\ (e \notin thread[t].req.match \/ Now[e] = NULL)
    BY <1>1, <2>1 DEF ThreadStates
  <2> HIDE DEF found
  <2>4. /\ new \in ThreadStates /\ new.pc = "next" /\ new.todo = thread[t].todo \ {e}
        /\ new.found = found
        /\ new.req = thread[t].req /\ new.since = thread[t].since /\ new.alone = thread[t].alone
    BY <1>1, <2>3 DEF ThreadStates, Pcs
  <2> HIDE DEF new
  <2>5. Lists(t, "next", thread[t].todo \ {e}, found)
    BY <1>0, <2>2, <2>4, ListsWith
  <2>6. QED
    BY <1>1, <1>4, <2>3, <2>5
<1>5. QED
  BY <1>3, <1>4

LEMMA ListControl ==
    ASSUME TypeOK, Control, NEW t \in Threads, Listing(t)
    PROVE  /\ TypeOK' /\ Control' /\ Only(t)
           /\ UNCHANGED <<kind, names, size, object, cache, files, lock>>
           /\ ~Busy(t) /\ thread[t].pc # "open"
           /\ \/ /\ thread'[t].pc \in {"next", "listed"} /\ thread[t].pc \in {"list", "next"}
                 /\ thread'[t].req = thread[t].req /\ thread'[t].since = thread[t].since
                 /\ thread'[t].alone = thread[t].alone
              \/ thread'[t].pc = "idle"
<1>1. /\ Only(t) /\ thread[t].pc \in {"list", "next", "listed"}
      /\ UNCHANGED <<kind, names, size, object, cache, files, lock, interrupts>>
      /\ \/ /\ thread'[t].pc \in {"next", "listed"} /\ thread'[t].req = thread[t].req
            /\ thread'[t].since = thread[t].since /\ thread'[t].alone = thread[t].alone
            /\ thread[t].pc \in {"list", "next"}
         \/ thread'[t].pc = "idle"
  <2>1. CASE ListReply(t)
    BY <2>1, FinishEffect DEF ListReply, At
  <2>2. CASE ~ListReply(t)
    BY <2>2, ListStartEffect, ListNextEffect, ListNewEffect, ListEndEffect DEF Listing, Lists
  <2>3. QED
    BY <2>1, <2>2
<1>2. thread[t].req \in Messages /\ kind # "rados"
  BY <1>1 DEF Control, Placed
<1>3. Placed' /\ Cached' /\ Owned'
  BY <1>1, <1>2, QuietStep DEF Busy
<1>4. Sized'
  BY <1>1 DEF Control, Sized, Exists, Now
<1>5. TypeOK'
  BY <1>1 DEF TypeOK, Only
<1>6. QED
  BY <1>1, <1>3, <1>4, <1>5 DEF Control, Busy

LEMMA UsersFinite ==
    ASSUME NEW h PROVE IsFiniteSet(Users(h)) /\ Cardinality(Users(h)) \in Nat
BY FS_Subset, FS_CardinalityType, FilesAssumption DEF Users

(* There is an address for the object of a thread that has none.           *)
LEMMA FreeHandle ==
    ASSUME Control, NEW t \in Threads, ~Busy(t)
    PROVE  Allocate \in Handles /\ object[Allocate] = NULL
<1> SUFFICES ASSUME \A h \in Handles : object[h] # NULL PROVE FALSE
  BY DEF Allocate
<1> DEFINE f == [h \in Handles |-> CHOOSE u \in Threads : u \in Users(h)]
<1>1. ASSUME NEW h \in Handles
      PROVE  f[h] \in Threads \ {t} /\ thread[f[h]].obj = h
  <2>1. \E u \in Threads : u \in Users(h)
    BY DEF Control, Placed, Users
  <2>2. f[h] \in Threads /\ f[h] \in Users(h)
    BY <2>1
  <2>3. QED
    BY <2>2 DEF Users
<1>2. f \in [Handles -> Threads \ {t}]
  BY <1>1
<1>3. IsFiniteSet(Threads \ {t}) /\ Cardinality(Threads \ {t}) = Cardinality(Threads) - 1
  BY FS_RemoveElement, FilesAssumption
<1>4. Cardinality(Threads \ {t}) < Cardinality(Handles)
  BY <1>3, FS_CardinalityType, FilesAssumption
<1>5. PICK h, g \in Handles : h # g /\ f[h] = f[g]
  <2> HIDE DEF f
  <2>1. QED
    BY <1>2, <1>3, <1>4, FS_PigeonHole, FilesAssumption
<1>6. QED
  BY <1>1, <1>5

(* Nobody has an object that does not exist.                               *)
LEMMA UsersOfNothing ==
    ASSUME Control, NEW h \in Handles, object[h] = NULL PROVE Users(h) = {}
BY DEF Control, Placed, Users

(* A thread begins to use an object...                                     *)
LEMMA UserAdded ==
    ASSUME NEW t \in Threads, NEW h \in Handles, Only(t), ~Busy(t), Busy(t)', thread'[t].obj = h
    PROVE  /\ Users(h)' = Users(h) \cup {t} /\ \A g \in Handles \ {h} : Users(g)' = Users(g)
           /\ Cardinality(Users(h)') = Cardinality(Users(h)) + 1
<1>1. \A u \in Threads \ {t} : Busy(u)' = Busy(u) /\ thread'[u].obj = thread[u].obj
  BY DEF Only, Busy
<1>2. Users(h)' = Users(h) \cup {t} /\ t \notin Users(h)
  BY <1>1 DEF Users
<1>3. \A g \in Handles \ {h} : Users(g)' = Users(g)
  BY <1>1 DEF Users
<1>4. Cardinality(Users(h) \cup {t}) = Cardinality(Users(h)) + 1
  BY <1>2, UsersFinite, FS_AddElement
<1>5. QED
  BY <1>2, <1>3, <1>4

(* ...and stops.                                                           *)
LEMMA UserRemoved ==
    ASSUME NEW t \in Threads, NEW h \in Handles, Only(t), Busy(t), ~Busy(t)', thread[t].obj = h
    PROVE  /\ Users(h)' = Users(h) \ {t} /\ \A g \in Handles \ {h} : Users(g)' = Users(g)
           /\ Cardinality(Users(h)') = Cardinality(Users(h)) - 1
           /\ Cardinality(Users(h)) = 1 <=> Users(h) = {t}
<1>1. \A u \in Threads \ {t} : Busy(u)' = Busy(u) /\ thread'[u].obj = thread[u].obj
  BY DEF Only, Busy
<1>2. Users(h)' = Users(h) \ {t} /\ t \in Users(h)
  BY <1>1 DEF Users
<1>3. \A g \in Handles \ {h} : Users(g)' = Users(g)
  BY <1>1 DEF Users
<1>4. /\ IsFiniteSet(Users(h) \ {t})
      /\ Cardinality(Users(h) \ {t}) = Cardinality(Users(h)) - 1
  BY <1>2, UsersFinite, FS_RemoveElement
<1>5. Cardinality(Users(h) \ {t}) = 0 <=> Users(h) \ {t} = {}
  BY <1>4, FS_EmptySet
<1>6. Cardinality(Users(h)) \in Nat
  BY UsersFinite
<1>7. QED
  BY <1>2, <1>3, <1>4, <1>5, <1>6

LEMMA PlacedJoin ==
    ASSUME Control, NEW t \in Threads, NEW h \in Handles, Only(t), kind' = kind,
           thread[t].pc \in {"get", "open"}, thread'[t].pc = "work", thread'[t].obj = h,
           thread'[t].req = thread[t].req, \A g \in Handles \ {h} : object'[g] = object[g],
           object'[h] # NULL, object'[h].path = Path(t),
           object[h] # NULL => object[h].path = Path(t),
           object'[h].ref = Cardinality(Users(h)) + 1
    PROVE  Placed'
<1>1. ~Busy(t) /\ Busy(t)' /\ thread[t].req \in Messages
  BY DEF Busy, Control, Placed
<1>2. /\ Users(h)' = Users(h) \cup {t} /\ \A g \in Handles \ {h} : Users(g)' = Users(g)
      /\ Cardinality(Users(h)') = Cardinality(Users(h)) + 1
  BY <1>1, UserAdded
<1>3. \A g \in Handles : object'[g] # NULL =>
          Users(g)' # {} /\ object'[g].ref = Cardinality(Users(g)')
  BY <1>2 DEF Control, Placed
<1>4. ASSUME NEW u \in Threads
      PROVE  /\ thread'[u].pc # "idle" => thread'[u].req \in Messages
             /\ thread'[u].pc \in {"list", "next", "listed"} => kind # "rados"
             /\ Busy(u)' => /\ thread'[u].obj \in Handles /\ object'[thread'[u].obj] # NULL
                            /\ object'[thread'[u].obj].path = Path(u)'
  <2>1. CASE u = t
    BY <1>1, <2>1 DEF Path
  <2>2. CASE u # t
    <3>1. thread'[u] = thread[u]
      BY <2>2 DEF Only
    <3>2. QED
      BY <3>1 DEF Control, Placed, Busy, Path
  <2>3. QED
    BY <2>1, <2>2
<1>5. QED
  BY <1>3, <1>4 DEF Placed

(* backend_file_get finds the object of another thread.                    *)
LEMMA SharedControl ==
    ASSUME TypeOK, Control, NEW t \in Threads, FileGet(t), cache[Path(t)] # NULL
    PROVE  /\ TypeOK' /\ Control' /\ Only(t)
           /\ thread[t].pc = "get" /\ thread'[t].pc = "work"
           /\ thread'[t].req = thread[t].req /\ thread'[t].since = thread[t].since
           /\ thread'[t].alone = thread[t].alone
           /\ Counts(t, thread[t].total, thread[t].moved, thread[t].early)
           /\ \A g \in Handles :
                 /\ object'[g] = NULL <=> object[g] = NULL
                 /\ object[g] # NULL => object'[g].path = object[g].path /\ object'[g].file = object[g].file
           /\ UNCHANGED <<kind, names, size, lock>>
<1>0. kind = "posix" /\ thread[t].pc = "get" /\ ~Busy(t) /\ Path(t) \in Paths
  BY MessageType DEF FileGet, At, Busy, Control
<1> DEFINE h == cache[Path(t)]
<1>1. /\ h \in Handles /\ object[h] \in Objects /\ object[h] # NULL /\ object[h].path = Path(t)
      /\ files[t][Path(t)] = NULL
  BY <1>0, FilesAssumption DEF Control, Cached, TypeOK
<1>2. /\ object' = [object EXCEPT ![h].ref = @ + 1]
      /\ files' = [files EXCEPT ![t][Path(t)] = h]
      /\ thread' = [thread EXCEPT ![t].pc = "work", ![t].obj = h]
      /\ UNCHANGED <<kind, names, size, cache, lock, interrupts>>
  BY <1>1 DEF FileGet
<1> DEFINE new == [object[h] EXCEPT !.ref = @ + 1]
<1>3. /\ new \in Objects /\ new.path = Path(t) /\ new.file = object[h].file
      /\ new.ref = object[h].ref + 1
  BY <1>1 DEF Objects
<1>4. object'[h] = new /\ \A g \in Handles \ {h} : object'[g] = object[g]
  BY <1>1, <1>2 DEF TypeOK
<1>5. object' \in [Handles -> Objects \cup {NULL}]
  BY <1>1, <1>2, <1>3 DEF TypeOK
<1>6. /\ files'[t][Path(t)] = h /\ \A p \in Paths \ {Path(t)} : files'[t][p] = files[t][p]
      /\ \A u \in Threads \ {t} : files'[u] = files[u]
      /\ files' \in [Threads -> [Paths -> Handles \cup {NULL}]]
  BY <1>0, <1>1, <1>2 DEF TypeOK
<1>7. /\ Only(t) /\ thread'[t].pc = "work" /\ thread'[t].obj = h
      /\ thread'[t].req = thread[t].req /\ thread'[t].since = thread[t].since
      /\ thread'[t].alone = thread[t].alone
      /\ Counts(t, thread[t].total, thread[t].moved, thread[t].early)
  BY <1>1, <1>2, WorkOn
<1>8. NULL \notin Objects /\ new # NULL /\ object[h].ref = Cardinality(Users(h))
  BY <1>1, <1>3, FilesAssumption DEF Control, Placed
<1> HIDE DEF new, h
<1>9. Placed'
  BY <1>0, <1>1, <1>2, <1>3, <1>4, <1>7, <1>8, PlacedJoin
<1>10. \A g \in Handles : /\ object'[g] = NULL <=> object[g] = NULL
                          /\ object[g] # NULL => /\ object'[g].path = object[g].path
                                                 /\ object'[g].file = object[g].file
  BY <1>1, <1>3, <1>4, <1>8
<1>11. \A u \in Threads \ {t} : Busy(u)' = Busy(u) /\ Path(u)' = Path(u) /\ thread'[u] = thread[u]
  BY <1>7 DEF Only, Busy, Path
<1>12. Busy(t)' /\ Path(t)' = Path(t)
  BY <1>7 DEF Busy, Path
<1>13. Cached'
  <2>1. \A u \in Threads : thread'[u].pc = "open" => lock' = u /\ cache'[Path(u)'] = NULL
    BY <1>0, <1>2, <1>7, <1>11, ZenonT(40) DEF Control, Cached
  <2>2. \A u \in Threads : lock' = u => thread'[u].pc = "open"
    BY <1>0, <1>2, <1>11 DEF Control, Cached
  <2>3. \A p \in Paths : cache'[p] # NULL => object'[cache'[p]] # NULL /\ object'[cache'[p]].path = p
    BY <1>0, <1>2, <1>10 DEF Control, Cached, TypeOK
  <2>4. \A g \in Handles : object'[g] # NULL => cache'[object'[g].path] = g
    BY <1>0, <1>2, <1>10 DEF Control, Cached
  <2>5. \A u \in Threads, p \in Paths :
            files'[u][p] = IF Busy(u)' /\ p = Path(u)' THEN thread'[u].obj ELSE NULL
    BY <1>0, <1>6, <1>7, <1>11, <1>12 DEF Control, Cached
  <2>6. QED
    BY <2>1, <2>2, <2>3, <2>4, <2>5 DEF Cached
<1>14. Sized'
  BY <1>2, <1>10 DEF Control, Sized, Exists, Now
<1>15. Owned'
  BY <1>0, <1>2 DEF Owned
<1>16. TypeOK'
  BY <1>2, <1>5, <1>6, <1>7 DEF TypeOK, Only
<1>17. QED
  BY <1>0, <1>2, <1>7, <1>9, <1>10, <1>13, <1>14, <1>15, <1>16 DEF Control

(* backend_file_get finds nothing, and keeps the lock.                     *)
LEMMA LockControl ==
    ASSUME TypeOK, Control, NEW t \in Threads, FileGet(t), cache[Path(t)] = NULL
    PROVE  /\ TypeOK' /\ Control' /\ Only(t) /\ thread[t].pc = "get" /\ thread'[t].pc = "open"
           /\ Keeps(t) /\ Counts(t, thread[t].total, thread[t].moved, thread[t].early)
           /\ UNCHANGED <<kind, names, size, object>>
<1>0. kind = "posix" /\ thread[t].pc = "get" /\ ~Busy(t) /\ Path(t) \in Paths
  BY MessageType DEF FileGet, At, Busy, Control
<1>1. files[t][Path(t)] = NULL
  BY <1>0 DEF Control, Cached
<1>2. /\ lock = NULL /\ lock' = t /\ Go(t, "open")
      /\ UNCHANGED <<kind, names, size, object, files, cache, interrupts>>
  BY <1>1 DEF FileGet, LockKept
<1>3. /\ Only(t) /\ thread'[t].pc = "open" /\ Keeps(t)
      /\ Counts(t, thread[t].total, thread[t].moved, thread[t].early)
  BY <1>2, GoEffect DEF Pcs
<1>4. \A u \in Threads : /\ Busy(u)' = Busy(u) /\ Path(u)' = Path(u)
                         /\ thread'[u].obj = thread[u].obj /\ thread'[u].req = thread[u].req
                         /\ u # t => thread'[u] = thread[u]
  BY <1>0, <1>3 DEF Only, Busy, Path, Keeps
<1>5. \A h \in Handles : Users(h)' = Users(h)
  BY <1>4 DEF Users
<1>6. Placed'
  BY <1>0, <1>2, <1>3, <1>4, <1>5 DEF Control, Placed
<1>7. \A u \in Threads \ {t} : thread[u].pc # "open"
  BY <1>0, <1>2, FilesAssumption DEF Control, Cached
<1>8. Cached'
  BY <1>0, <1>2, <1>3, <1>4, <1>7 DEF Control, Cached
<1>9. Sized' /\ Owned'
  BY <1>0, <1>2 DEF Control, Sized, Exists, Now, Owned
<1>10. TypeOK'
  BY <1>2, <1>3 DEF TypeOK, Only
<1>11. QED
  BY <1>0, <1>2, <1>3, <1>6, <1>8, <1>9, <1>10 DEF Control

(* A new object for a file that was opened.                                *)
OpensObject(t, h) ==
    /\ Only(t) /\ thread[t].pc \in {"get", "open"} /\ thread'[t].pc = "work"
    /\ thread'[t].obj = h /\ thread'[t].req = thread[t].req
    /\ thread'[t].since = thread[t].since /\ thread'[t].alone = thread[t].alone
    /\ Counts(t, thread[t].total, thread[t].moved, thread[t].early)
    /\ object[h] = NULL /\ object'[h] # NULL
    /\ object'[h].path = Path(t) /\ object'[h].file = Opened(t)
    /\ \A g \in Handles \ {h} : object'[g] = object[g]
    /\ Opens(t) /\ OpenFile(t) /\ Grows /\ kind' = kind

LEMMA OpenedObject ==
    ASSUME TypeOK, Control, NEW t \in Threads, thread[t].pc \in {"get", "open"}, Opens(t),
           NEW h \in Handles, object[h] = NULL, OpenFile(t), kind' = kind,
           object' = [object EXCEPT ![h] = [path |-> Path(t), file |-> Opened(t), ref |-> 1]],
           thread' = [thread EXCEPT ![t].pc = "work", ![t].obj = h]
    PROVE  /\ OpensObject(t, h) /\ Placed' /\ Sized'
           /\ names' \in Seq(NameStates) /\ names' # <<>> /\ size' \in Seq(Nat)
           /\ object' \in [Handles -> Objects \cup {NULL}] /\ thread' \in [Threads -> ThreadStates]
<1>0. Path(t) \in Paths
  BY MessageType DEF Control
<1>1. /\ Only(t) /\ thread'[t].pc = "work" /\ thread'[t].obj = h
      /\ thread'[t].req = thread[t].req /\ thread'[t].since = thread[t].since
      /\ thread'[t].alone = thread[t].alone
      /\ Counts(t, thread[t].total, thread[t].moved, thread[t].early)
  BY WorkOn
<1>2. /\ Grows /\ Opened(t) \in Nat \cup {NULL}
      /\ kind # "rados" => Opened(t) \in 1 .. Len(size')
      /\ \/ names' = names
         \/ Renamed(t, NewFile) /\ NewFile \in 1 .. Len(size') /\ NewFile \in Nat
  BY OpenFileEffect, NowType
<1> DEFINE new == [path |-> Path(t), file |-> Opened(t), ref |-> 1]
<1>3. new \in Objects /\ new.path = Path(t) /\ new.file = Opened(t) /\ new.ref = 1
  BY <1>0, <1>2 DEF Objects
<1>4. /\ object'[h] = new /\ \A g \in Handles \ {h} : object'[g] = object[g]
      /\ object' \in [Handles -> Objects \cup {NULL}]
  BY <1>3 DEF TypeOK
<1>5. new # NULL
  BY <1>3, FilesAssumption
<1> HIDE DEF new
<1>6. Cardinality(Users(h)) = 0
  <2>1. Users(h) = {} /\ Cardinality({}) = 0
    BY UsersOfNothing, FS_EmptySet
  <2>2. QED
    BY <2>1
<1>7. Placed'
  <2>1. /\ object'[h].ref = Cardinality(Users(h)) + 1 /\ object'[h] # NULL
        /\ object'[h].path = Path(t)
    BY <1>3, <1>4, <1>5, <1>6
  <2>2. \A g \in Handles \ {h} : object'[g] = object[g]
    BY <1>4
  <2>3. QED
    BY <1>1, <2>1, <2>2, PlacedJoin
<1>8. /\ names' \in Seq(NameStates) /\ names' # <<>>
      /\ \A p \in Paths : Now'[p] = Now[p] \/ Now'[p] = NULL \/ Now'[p] \in 1 .. Len(size')
  <2>1. CASE names' = names
    BY <2>1 DEF TypeOK, Now
  <2>2. CASE names' # names
    BY <1>0, <1>2, <2>2, RenamedType
  <2>3. QED
    BY <2>1, <2>2
<1>9. Sized'
  <2>1. \A g \in Handles : \/ object'[g] = NULL
                           \/ object[g] # NULL /\ object'[g].file = object[g].file
                           \/ kind # "rados" => object'[g].file \in 1 .. Len(size')
    BY <1>2, <1>3, <1>4
  <2>2. QED
    BY <1>2, <1>8, <2>1, SizedStep
<1>10. OpensObject(t, h)
  BY <1>1, <1>2, <1>3, <1>4, <1>5 DEF OpensObject
<1>11. QED
  BY <1>1, <1>2, <1>4, <1>7, <1>8, <1>9, <1>10 DEF Grows, Only

(* backend_file_add with a file...                                         *)
LEMMA AddControl ==
    ASSUME TypeOK, Control, NEW t \in Threads, FileAdd(t), Opens(t)
    PROVE  TypeOK' /\ Control' /\ \E h \in Handles : OpensObject(t, h)
<1>0. kind = "posix" /\ thread[t].pc = "open" /\ ~Busy(t) /\ Path(t) \in Paths
  BY MessageType DEF FileAdd, At, Busy, Control
<1>1. PICK h \in Handles : h = Allocate /\ object[h] = NULL
  BY <1>0, FreeHandle
<1>2. /\ object' = [object EXCEPT ![h] = [path |-> Path(t), file |-> Opened(t), ref |-> 1]]
      /\ cache' = [cache EXCEPT ![Path(t)] = h]
      /\ files' = [files EXCEPT ![t][Path(t)] = h]
      /\ thread' = [thread EXCEPT ![t].pc = "work", ![t].obj = h]
      /\ OpenFile(t) /\ lock' = NULL /\ UNCHANGED <<kind, interrupts>>
  BY <1>1 DEF FileAdd
<1>3. /\ OpensObject(t, h) /\ Placed' /\ Sized'
      /\ names' \in Seq(NameStates) /\ names' # <<>> /\ size' \in Seq(Nat)
      /\ object' \in [Handles -> Objects \cup {NULL}] /\ thread' \in [Threads -> ThreadStates]
  BY <1>0, <1>1, <1>2, OpenedObject
<1>4. /\ files'[t][Path(t)] = h /\ \A p \in Paths \ {Path(t)} : files'[t][p] = files[t][p]
      /\ \A u \in Threads \ {t} : files'[u] = files[u]
      /\ files' \in [Threads -> [Paths -> Handles \cup {NULL}]]
  BY <1>0, <1>2 DEF TypeOK
<1>5. /\ cache'[Path(t)] = h /\ \A p \in Paths \ {Path(t)} : cache'[p] = cache[p]
      /\ cache' \in [Paths -> Handles \cup {NULL}]
  BY <1>0, <1>2 DEF TypeOK
<1>6. lock = t /\ cache[Path(t)] = NULL /\ \A u \in Threads \ {t} : thread[u].pc # "open"
  BY <1>0 DEF Control, Cached
<1>7. /\ object'[h] # NULL /\ object'[h].path = Path(t) /\ thread'[t].obj = h
      /\ Busy(t)' /\ Path(t)' = Path(t)
      /\ \A g \in Handles \ {h} : object'[g] = object[g]
      /\ \A u \in Threads \ {t} : thread'[u] = thread[u] /\ Busy(u)' = Busy(u) /\ Path(u)' = Path(u)
  BY <1>3 DEF OpensObject, Only, Busy, Path
<1>8. Cached'
  <2>1. \A u \in Threads : thread'[u].pc # "open" /\ lock' # u
    BY <1>2, <1>3, <1>6, <1>7, FilesAssumption DEF OpensObject
  <2>2. \A p \in Paths : cache'[p] # NULL => object'[cache'[p]] # NULL /\ object'[cache'[p]].path = p
    <3>1. ASSUME NEW p \in Paths \ {Path(t)}, cache[p] # NULL
          PROVE  cache[p] \in Handles \ {h} /\ object[cache[p]] # NULL /\ object[cache[p]].path = p
      BY <1>0, <1>1, <3>1 DEF Control, Cached, TypeOK
    <3>2. QED
      BY <1>5, <1>7, <3>1
  <2>3. \A g \in Handles : object'[g] # NULL => cache'[object'[g].path] = g
    <3>1. ASSUME NEW g \in Handles \ {h}, object[g] # NULL
          PROVE  /\ object[g].path \in Paths /\ cache[object[g].path] = g
                 /\ object[g].path # Path(t)
      BY <1>0, <1>6, <3>1, FilesAssumption DEF Control, Cached, TypeOK, Objects
    <3>2. QED
      BY <1>5, <1>7, <3>1
  <2>4. \A u \in Threads, p \in Paths :
            files'[u][p] = IF Busy(u)' /\ p = Path(u)' THEN thread'[u].obj ELSE NULL
    BY <1>0, <1>4, <1>7 DEF Control, Cached
  <2>5. QED
    BY <2>1, <2>2, <2>3, <2>4 DEF Cached
<1>9. Owned'
  BY <1>0, <1>2 DEF Owned
<1>10. TypeOK'
  BY <1>2, <1>3, <1>4, <1>5 DEF TypeOK
<1>11. QED
  BY <1>3, <1>8, <1>9, <1>10 DEF Control

(* ...and without.                                                         *)
LEMMA FailedControl ==
    ASSUME TypeOK, Control, NEW t \in Threads, FileAdd(t) \/ Open(t), ~Opens(t)
    PROVE  /\ TypeOK' /\ Control' /\ Only(t) /\ thread'[t].pc = "idle"
           /\ UNCHANGED <<kind, names, size, object>>
<1>1. CASE FileAdd(t)
  <2>0. kind = "posix" /\ thread[t].pc = "open" /\ ~Busy(t)
    BY <1>1 DEF FileAdd, At, Busy
  <2>1. /\ Only(t) /\ thread'[t].pc = "idle" /\ lock' = NULL
        /\ UNCHANGED <<kind, names, size, object, cache, files, interrupts>>
    BY <1>1, FinishEffect DEF FileAdd, ReleaseLock
  <2>2. \A u \in Threads : /\ Busy(u)' = Busy(u)
                           /\ u # t => thread'[u] = thread[u] /\ Path(u)' = Path(u)
                           /\ thread'[u].pc # "open"
    BY <2>0, <2>1 DEF Only, Busy, Path, Control, Cached
  <2>3. \A h \in Handles : Users(h)' = Users(h)
    BY <2>0, <2>2 DEF Users
  <2>4. Placed'
    BY <2>0, <2>1, <2>2, <2>3 DEF Control, Placed
  <2>5. Cached'
    BY <2>0, <2>1, <2>2, FilesAssumption DEF Control, Cached
  <2>6. Sized' /\ Owned'
    BY <2>0, <2>1 DEF Control, Sized, Exists, Now, Owned
  <2>7. TypeOK'
    BY <2>1 DEF TypeOK, Only
  <2>8. QED
    BY <2>1, <2>4, <2>5, <2>6, <2>7 DEF Control
<1>2. CASE Open(t)
  <2>1. /\ Only(t) /\ thread'[t].pc = "idle" /\ thread[t].pc = "get"
        /\ UNCHANGED <<kind, names, size, object, cache, files, lock, interrupts>>
    BY <1>2, FinishEffect DEF Open, At
  <2>2. Placed' /\ Cached' /\ Owned'
    BY <2>1, QuietStep DEF Busy
  <2>3. Sized'
    BY <2>1 DEF Control, Sized, Exists, Now
  <2>4. TypeOK'
    BY <2>1 DEF TypeOK, Only
  <2>5. QED
    BY <2>1, <2>2, <2>3, <2>4 DEF Control
<1>3. QED
  BY <1>1, <1>2

(* backend_create and backend_open of GIO and RADOS.                       *)
LEMMA OpenControl ==
    ASSUME TypeOK, Control, NEW t \in Threads, Open(t), Opens(t)
    PROVE  TypeOK' /\ Control' /\ \E h \in Handles : OpensObject(t, h)
<1>0. kind # "posix" /\ thread[t].pc = "get" /\ ~Busy(t)
  BY DEF Open, At, Busy
<1>1. PICK h \in Handles : h = Allocate /\ object[h] = NULL
  BY <1>0, FreeHandle
<1>2. /\ object' = [object EXCEPT ![h] = [path |-> Path(t), file |-> Opened(t), ref |-> 1]]
      /\ thread' = [thread EXCEPT ![t].pc = "work", ![t].obj = h]
      /\ OpenFile(t) /\ UNCHANGED <<kind, cache, files, lock, interrupts>>
  BY <1>1 DEF Open
<1>3. /\ OpensObject(t, h) /\ Placed' /\ Sized'
      /\ names' \in Seq(NameStates) /\ names' # <<>> /\ size' \in Seq(Nat)
      /\ object' \in [Handles -> Objects \cup {NULL}] /\ thread' \in [Threads -> ThreadStates]
  BY <1>0, <1>1, <1>2, OpenedObject
<1>4. Owned'
  <2>1. \A u \in Threads : Busy(u) => thread[u].obj # h
    BY <1>1 DEF Control, Placed
  <2>2. /\ thread'[t].obj = h /\ thread'[t].pc = "work"
        /\ \A u \in Threads \ {t} : thread'[u] = thread[u] /\ Busy(u)' = Busy(u)
    BY <1>3 DEF OpensObject, Only, Busy
  <2>3. QED
    BY <1>0, <2>1, <2>2 DEF Control, Owned
<1>5. Cached'
  BY <1>0, <1>2 DEF Cached
<1>6. TypeOK'
  BY <1>2, <1>3 DEF TypeOK
<1>7. QED
  BY <1>3, <1>4, <1>5, <1>6 DEF Control

(* An object is left by one of its users.                                  *)
LEMMA PlacedLeave ==
    ASSUME TypeOK, Control, NEW t \in Threads, NEW h \in Handles, Only(t), kind' = kind,
           thread[t].pc = "close", thread[t].obj = h, thread'[t].pc = "idle",
           \A g \in Handles \ {h} : object'[g] = object[g],
           \/ object[h].ref = 1 /\ object'[h] = NULL
           \/ /\ object[h].ref # 1 /\ object'[h] # NULL /\ object'[h].path = object[h].path
              /\ object'[h].ref = object[h].ref - 1
    PROVE  Placed'
<1>1. Busy(t) /\ ~Busy(t)'
  BY DEF Busy
<1>2. /\ Users(h)' = Users(h) \ {t} /\ \A g \in Handles \ {h} : Users(g)' = Users(g)
      /\ Cardinality(Users(h)') = Cardinality(Users(h)) - 1
      /\ Cardinality(Users(h)) = 1 <=> Users(h) = {t}
  BY <1>1, UserRemoved
<1>3. t \in Users(h) /\ object[h].ref = Cardinality(Users(h))
  BY <1>1 DEF Control, Placed, Users
<1>4. \A g \in Handles : object'[g] # NULL =>
          Users(g)' # {} /\ object'[g].ref = Cardinality(Users(g)')
  <2>1. object'[h] # NULL => Users(h)' # {} /\ object'[h].ref = Cardinality(Users(h)')
    BY <1>2, <1>3
  <2>2. QED
    BY <1>2, <2>1 DEF Control, Placed
<1>5. ASSUME NEW u \in Threads \ {t}, Busy(u)
      PROVE  /\ thread[u].obj \in Handles /\ object'[thread[u].obj] # NULL
             /\ object'[thread[u].obj].path = Path(u)
  <2>1. thread[u].obj = h => object'[h] # NULL
    <3>1. thread[u].obj = h => Users(h) # {t}
      BY <1>5 DEF Users
    <3>2. QED
      BY <1>2, <1>3, <3>1
  <2>2. QED
    BY <1>5, <2>1 DEF Control, Placed
<1>6. ASSUME NEW u \in Threads
      PROVE  /\ thread'[u].pc # "idle" => thread'[u].req \in Messages
             /\ thread'[u].pc \in {"list", "next", "listed"} => kind # "rados"
             /\ Busy(u)' => /\ thread'[u].obj \in Handles /\ object'[thread'[u].obj] # NULL
                            /\ object'[thread'[u].obj].path = Path(u)'
  <2>1. CASE u = t
    BY <1>1, <2>1
  <2>2. CASE u # t
    <3>1. thread'[u] = thread[u]
      BY <2>2 DEF Only
    <3>2. QED
      BY <1>5, <2>2, <3>1 DEF Control, Placed, Busy, Path
  <2>3. QED
    BY <2>1, <2>2
<1>7. QED
  BY <1>4, <1>6 DEF Placed

(* What closing leaves.                                                    *)
Closes(t) ==
    /\ Only(t) /\ thread'[t].pc = "idle" /\ UNCHANGED <<kind, names, size>>
    /\ \A g \in Handles : object'[g] # NULL =>
          /\ object[g] # NULL /\ object'[g].path = object[g].path
          /\ object'[g].file = object[g].file

LEMMA CloseControl ==
    ASSUME TypeOK, Control, NEW t \in Threads, Close(t)
    PROVE  TypeOK' /\ Control' /\ Closes(t)
<1>0. /\ kind = "posix" /\ thread[t].pc = "close" /\ Busy(t) /\ Path(t) \in Paths /\ lock = NULL
      /\ thread[t].ret \in BOOLEAN
  BY MessageType DEF Close, At, Busy, Control, TypeOK, ThreadStates
<1>a. PICK h \in Handles : h = thread[t].obj
  BY <1>0 DEF Control, Placed
<1>1. /\ object[h] \in Objects /\ object[h] # NULL /\ object[h].path = Path(t)
      /\ files[t][Path(t)] = h /\ h # NULL /\ cache[Path(t)] = h
  BY <1>0, <1>a, FilesAssumption DEF Control, Placed, Cached, TypeOK
<1>2. files' = [files EXCEPT ![t][Path(t)] = NULL]
  BY <1>a, <1>1 DEF Close, DropFile
<1>3. /\ files'[t][Path(t)] = NULL /\ \A p \in Paths \ {Path(t)} : files'[t][p] = files[t][p]
      /\ \A u \in Threads \ {t} : files'[u] = files[u]
      /\ files' \in [Threads -> [Paths -> Handles \cup {NULL}]]
  BY <1>0, <1>2 DEF TypeOK
<1>4. files' # files
  BY <1>1, <1>3
<1>5. /\ Finish(t, thread[t].ret) /\ UNCHANGED <<kind, names, size, lock, interrupts>>
      /\ \/ /\ object[h].ref = 1
            /\ cache' = [cache EXCEPT ![Path(t)] = NULL]
            /\ object' = [object EXCEPT ![h] = NULL]
         \/ /\ object[h].ref # 1 /\ cache' = cache
            /\ object' = [object EXCEPT ![h].ref = @ - 1]
  BY <1>a, <1>1, <1>4 DEF Close
<1>6. Only(t) /\ thread'[t].pc = "idle"
  BY <1>0, <1>5, FinishEffect
<1> DEFINE new == [object[h] EXCEPT !.ref = @ - 1]
<1>7. object[h].ref \in Nat \ {0}
  <2>1. t \in Users(h) /\ object[h].ref = Cardinality(Users(h))
    BY <1>0, <1>a, <1>1 DEF Users, Control, Placed
  <2>2. Cardinality(Users(h)) \in Nat /\ Cardinality(Users(h)) # 0
    BY <2>1, UsersFinite, FS_EmptySet
  <2>3. QED
    BY <2>1, <2>2
<1>8. /\ new \in Objects /\ new.path = Path(t) /\ new.file = object[h].file
      /\ new.ref = object[h].ref - 1 /\ new # NULL
  BY <1>1, <1>7, FilesAssumption DEF Objects
<1>9. /\ object' \in [Handles -> Objects \cup {NULL}]
      /\ \A g \in Handles \ {h} : object'[g] = object[g]
      /\ \/ object[h].ref = 1 /\ object'[h] = NULL
         \/ object[h].ref # 1 /\ object'[h] = new
  BY <1>5, <1>8 DEF TypeOK
<1> HIDE DEF new
<1>10. Placed'
  BY <1>0, <1>a, <1>1, <1>5, <1>6, <1>8, <1>9, PlacedLeave
<1>11. Closes(t)
  BY <1>1, <1>5, <1>6, <1>8, <1>9 DEF Closes
<1>12. /\ cache' \in [Paths -> Handles \cup {NULL}]
       /\ \A p \in Paths \ {Path(t)} : cache'[p] = cache[p]
       /\ cache'[Path(t)] = IF object'[h] = NULL THEN NULL ELSE h
  BY <1>0, <1>1, <1>5, <1>8, <1>9 DEF TypeOK
<1>13. \A u \in Threads \ {t} : thread'[u] = thread[u] /\ Busy(u)' = Busy(u) /\ Path(u)' = Path(u)
  BY <1>6 DEF Only, Busy, Path
<1>14. Cached'
  <2>1. \A u \in Threads : thread'[u].pc # "open" /\ lock' # u
    BY <1>0, <1>5, <1>6, <1>13, FilesAssumption DEF Control, Cached
  <2>2. \A p \in Paths : cache'[p] # NULL => object'[cache'[p]] # NULL /\ object'[cache'[p]].path = p
    <3>1. ASSUME NEW p \in Paths \ {Path(t)}, cache[p] # NULL
          PROVE  cache[p] \in Handles \ {h} /\ object[cache[p]] # NULL /\ object[cache[p]].path = p
      BY <1>0, <1>1, <3>1 DEF Control, Cached, TypeOK
    <3>2. QED
      BY <1>1, <1>8, <1>9, <1>12, <3>1
  <2>3. \A g \in Handles : object'[g] # NULL => cache'[object'[g].path] = g
    <3>1. ASSUME NEW g \in Handles \ {h}, object[g] # NULL
          PROVE  /\ object[g].path \in Paths /\ cache[object[g].path] = g
                 /\ object[g].path # Path(t)
      BY <1>0, <1>1, <3>1, FilesAssumption DEF Control, Cached, TypeOK, Objects
    <3>2. QED
      BY <1>8, <1>9, <1>12, <3>1
  <2>4. \A u \in Threads, p \in Paths :
            files'[u][p] = IF Busy(u)' /\ p = Path(u)' THEN thread'[u].obj ELSE NULL
    <3>1. ~Busy(t)'
      BY <1>6 DEF Busy
    <3>2. QED
      BY <1>0, <1>3, <1>13, <3>1 DEF Control, Cached
  <2>5. QED
    BY <2>1, <2>2, <2>3, <2>4 DEF Cached
<1>15. Sized' /\ Owned'
  BY <1>0, <1>5, <1>11 DEF Control, Sized, Exists, Now, Owned, Closes
<1>16. TypeOK'
  BY <1>3, <1>5, <1>6, <1>9, <1>12 DEF TypeOK, Only
<1>17. QED
  BY <1>10, <1>11, <1>14, <1>15, <1>16 DEF Control

LEMMA CloseOwnControl ==
    ASSUME TypeOK, Control, NEW t \in Threads, CloseOwn(t)
    PROVE  TypeOK' /\ Control' /\ Closes(t)
<1>0. kind # "posix" /\ thread[t].pc = "close" /\ Busy(t) /\ thread[t].ret \in BOOLEAN
  BY DEF CloseOwn, At, Busy, TypeOK, ThreadStates
<1>a. PICK h \in Handles : h = thread[t].obj
  BY <1>0 DEF Control, Placed
<1>1. /\ object' = [object EXCEPT ![h] = NULL] /\ Finish(t, thread[t].ret)
      /\ UNCHANGED <<kind, names, size, cache, files, lock, interrupts>>
  BY <1>a DEF CloseOwn
<1>2. Only(t) /\ thread'[t].pc = "idle"
  BY <1>0, <1>1, FinishEffect
<1>3. /\ object'[h] = NULL /\ \A g \in Handles \ {h} : object'[g] = object[g]
      /\ object' \in [Handles -> Objects \cup {NULL}]
  BY <1>1 DEF TypeOK
<1>4. object[h].ref = 1
  <2>1. Users(h) = {t} /\ object[h] # NULL
    BY <1>0, <1>a DEF Users, Control, Owned, Placed
  <2>2. object[h].ref = Cardinality({t})
    BY <2>1 DEF Control, Placed
  <2>3. QED
    BY <2>2, FS_Singleton
<1>5. Placed'
  BY <1>0, <1>a, <1>1, <1>2, <1>3, <1>4, PlacedLeave
<1>6. Closes(t)
  BY <1>1, <1>2, <1>3 DEF Closes
<1>7. Owned'
  <2>1. /\ ~Busy(t)' /\ thread'[t].pc # "open"
        /\ \A u \in Threads \ {t} : thread'[u] = thread[u] /\ Busy(u)' = Busy(u)
    BY <1>2 DEF Only, Busy
  <2>2. QED
    BY <1>0, <2>1 DEF Control, Owned
<1>8. Sized' /\ Cached'
  BY <1>0, <1>1, <1>6 DEF Control, Sized, Exists, Now, Cached, Closes
<1>9. TypeOK'
  BY <1>1, <1>2, <1>3 DEF TypeOK, Only
<1>10. QED
  BY <1>5, <1>6, <1>7, <1>8, <1>9 DEF Control

-----------------------------------------------------------------------------
(* What the actions do, as far as the files and the messages go.           *)

(* A thread finds an object in the cache, or locks it.                     *)
Gets(t) ==
    /\ Only(t) /\ thread[t].pc = "get" /\ thread'[t].pc \in {"work", "open"}
    /\ thread'[t].req = thread[t].req /\ thread'[t].since = thread[t].since
    /\ thread'[t].alone = thread[t].alone
    /\ Counts(t, thread[t].total, thread[t].moved, thread[t].early)
    /\ UNCHANGED <<kind, names, size>>
    /\ \A g \in Handles : object'[g] # NULL =>
          /\ object[g] # NULL /\ object'[g].path = object[g].path
          /\ object'[g].file = object[g].file

Does(t) ==
    \/ \E r \in Requests[t] : Receive(t, r)
    \/ Gets(t)
    \/ \E h \in Handles : OpensObject(t, h)
    \/ Working(t) \/ Failing(t)
    \/ Listing(t)
    \/ Closes(t)

(* Every step of a thread keeps what is known about the control.           *)
LEMMA StepControl ==
    ASSUME TypeOK, Control, NEW t \in Threads,
           Step(t) \/ Failing(t) \/ \E r \in Requests[t] : Receive(t, r)
    PROVE  TypeOK' /\ Control' /\ Does(t)
<1>1. CASE \E r \in Requests[t] : Receive(t, r)
  BY <1>1, ReceiveControl DEF Does
<1>2. CASE FileGet(t)
  <2>1. CASE cache[Path(t)] # NULL
    <3>1. TypeOK' /\ Control'
      BY <1>2, <2>1, SharedControl
    <3>2. Gets(t)
      BY <1>2, <2>1, SharedControl DEF Gets
    <3>3. QED
      BY <3>1, <3>2 DEF Does
  <2>2. CASE cache[Path(t)] = NULL
    <3>1. TypeOK' /\ Control'
      BY <1>2, <2>2, LockControl
    <3>2. Gets(t)
      BY <1>2, <2>2, LockControl DEF Gets, Keeps
    <3>3. QED
      BY <3>1, <3>2 DEF Does
  <2>3. QED
    BY <2>1, <2>2
<1>3. CASE (FileAdd(t) \/ Open(t)) /\ Opens(t)
  BY <1>3, AddControl, OpenControl DEF Does
<1>4. CASE (FileAdd(t) \/ Open(t)) /\ ~Opens(t)
  <2>1. /\ TypeOK' /\ Control' /\ Only(t) /\ thread'[t].pc = "idle"
        /\ UNCHANGED <<kind, names, size, object>>
    BY <1>4, FailedControl
  <2>2. QED
    BY <2>1 DEF Does, Closes
<1>5. CASE Working(t) \/ Failing(t)
  <2>1. WorkEffect(t)
    BY <1>5, AllWork
  <2>2. QED
    BY <1>5, <2>1, WorkControl DEF Does
<1>6. CASE Listing(t)
  BY <1>6, ListControl DEF Does
<1>7. CASE Close(t) \/ CloseOwn(t)
  BY <1>7, CloseControl, CloseOwnControl DEF Does
<1>8. QED
  BY <1>1, <1>2, <1>3, <1>4, <1>5, <1>6, <1>7 DEF Step, Opening

LEMMA InitControl == ASSUME Init PROVE TypeOK /\ Control
<1>1. Idle \in ThreadStates /\ Idle.pc = "idle"
  BY IdleType DEF Idle
<1>2. NoNames \in NameStates /\ NoNames \in [Paths -> Handles \cup {NULL}]
  BY DEF NoNames, NameStates
<1>3. << NoNames >> \in Seq(NameStates) /\ << NoNames >> # <<>> /\ Len(<< NoNames >>) = 1 /\ << NoNames >>[1] = NoNames
  BY <1>2
<1>4. TypeOK
  BY <1>1, <1>2, <1>3, FilesAssumption DEF Init, TypeOK
<1>5. Now = NoNames
  BY <1>3 DEF Init, Now
<1>6. Sized
  BY <1>5 DEF Init, Sized, NoNames
<1>7. Placed /\ Owned
  BY <1>1 DEF Init, Placed, Owned, Busy
<1>8. Cached
  BY <1>1, FilesAssumption DEF Init, Cached, Busy, NoNames
<1>9. QED
  BY <1>4, <1>6, <1>7, <1>8 DEF Control

LEMMA NextControl ==
    ASSUME TypeOK, Control, [Next]_vars PROVE TypeOK' /\ Control'
<1>1. CASE UNCHANGED vars
  <2>1. UNCHANGED <<kind, names, size, object, cache, files, lock, thread, interrupts>>
    BY <1>1 DEF vars
  <2>2. TypeOK'
    BY <2>1 DEF TypeOK
  <2>3. Sized' /\ Cached' /\ Owned'
    BY <2>1 DEF Control, Sized, Exists, Now, Busy, Path, Cached, Owned
  <2>4. Placed'
    <3>1. \A h : Users(h)' = Users(h)
      BY <2>1 DEF Users, Busy
    <3>2. QED
      BY <2>1, <3>1 DEF Control, Placed, Busy, Path
  <2>5. QED
    BY <2>2, <2>3, <2>4 DEF Control
<1>2. CASE Next
  <2>1. PICK t \in Threads : Step(t) \/ Failing(t) \/ \E r \in Requests[t] : Receive(t, r)
    BY <1>2 DEF Next
  <2>2. QED
    BY <2>1, StepControl
<1>3. QED
  BY <1>1, <1>2

(* The types of the variables, and what the tables, the objects and the    *)
(* threads know of one another.                                            *)
THEOREM ControlInvariance == Spec => [](TypeOK /\ Control)
<1>1. Init => TypeOK /\ Control
  BY InitControl
<1>2. TypeOK /\ Control /\ [Next]_vars => (TypeOK /\ Control)'
  BY NextControl
<1>3. QED
  BY <1>1, <1>2, PTL DEF Spec

LEMMA ControlImpliesHandles == ASSUME TypeOK, Control PROVE HandlesAreExact
<1>1. SUFFICES ASSUME kind = "posix"
      PROVE  /\ \A h \in Handles :
                  IF object[h] = NULL THEN Holders(h) = {} /\ \A p \in Paths : cache[p] # h
                  ELSE /\ object[h].ref = Cardinality(Holders(h)) /\ object[h].ref > 0
                       /\ \A p \in Paths : cache[p] = h <=> p = object[h].path
             /\ \A t \in Threads :
                  /\ thread[t].pc \in {"work", "close"} => files[t][Path(t)] = thread[t].obj
                  /\ thread[t].pc \notin {"work", "close"} => files[t] = NoNames
  BY DEF HandlesAreExact
<1>2. \A h \in Handles : Holders(h) = Users(h)
  <2>1. ASSUME NEW h \in Handles, NEW t \in Threads
        PROVE  (\E p \in Paths : files[t][p] = h) <=> Busy(t) /\ thread[t].obj = h
    <3>1. Busy(t) => Path(t) \in Paths
      BY MessageType DEF Control, Busy
    <3>2. h # NULL
      BY FilesAssumption
    <3>3. QED
      BY <1>1, <3>1, <3>2 DEF Control, Cached
  <2>2. QED
    BY <2>1 DEF Holders, Users
<1>3. ASSUME NEW h \in Handles, object[h] = NULL
      PROVE  Holders(h) = {} /\ \A p \in Paths : cache[p] # h
  <2>1. Users(h) = {}
    BY <1>3, UsersOfNothing
  <2>2. QED
    BY <1>1, <1>2, <1>3, <2>1, FilesAssumption DEF Control, Cached
<1>4. ASSUME NEW h \in Handles, object[h] # NULL
      PROVE  /\ object[h].ref = Cardinality(Holders(h)) /\ object[h].ref > 0
             /\ \A p \in Paths : cache[p] = h <=> p = object[h].path
  <2>1. Users(h) # {} /\ object[h].ref = Cardinality(Users(h))
    BY <1>4 DEF Control, Placed
  <2>2. Cardinality(Users(h)) \in Nat /\ Cardinality(Users(h)) # 0
    BY <2>1, UsersFinite, FS_EmptySet
  <2>3. object[h].path \in Paths
    BY <1>4 DEF TypeOK, Objects
  <2>4. \A p \in Paths : cache[p] = h <=> p = object[h].path
    BY <1>1, <1>4, <2>3, FilesAssumption DEF Control, Cached
  <2>5. QED
    BY <1>2, <2>1, <2>2, <2>4
<1>5. ASSUME NEW t \in Threads
      PROVE  /\ thread[t].pc \in {"work", "close"} => files[t][Path(t)] = thread[t].obj
             /\ thread[t].pc \notin {"work", "close"} => files[t] = NoNames
  <2>1. Busy(t) => Path(t) \in Paths
    BY MessageType DEF Control, Busy
  <2>2. thread[t].pc \in {"work", "close"} => files[t][Path(t)] = thread[t].obj
    BY <1>1, <2>1 DEF Control, Cached, Busy
  <2>3. ASSUME ~Busy(t) PROVE files[t] = NoNames
    <3>1. \A p \in Paths : files[t][p] = NULL
      BY <1>1, <2>3 DEF Control, Cached
    <3>2. files[t] \in [Paths -> Handles \cup {NULL}]
      BY DEF TypeOK
    <3>3. QED
      BY <3>1, <3>2 DEF NoNames
  <2>4. QED
    BY <2>2, <2>3 DEF Busy
<1>6. QED
  BY <1>3, <1>4, <1>5

(* The cache of backend/object/posix.c: an object lives exactly as long as *)
(* a thread has it in its table, the count of backend_file_get and         *)
(* backend_file_unref is exact, and a thread between two messages has      *)
(* nothing open, for every number of threads, paths and messages.          *)
THEOREM ExactHandles == Spec => []HandlesAreExact
<1>1. TypeOK /\ Control => HandlesAreExact
  BY ControlImpliesHandles
<1>2. QED
  BY <1>1, ControlInvariance, PTL

-----------------------------------------------------------------------------
(* The file of an object is the file that has the name.                    *)

(* A step leaves the names, or adds a state to the namespace.              *)
History == names' = names \/ \E new \in NameStates : names' = Append(names, new)

(* It gives a name to a file only when no other file has it.               *)
NoneReplaced == \A p \in Paths : Now'[p] = Now[p] \/ Now[p] = NULL \/ Now'[p] = NULL

(* Objects are the ones there were, or opened by the name.                 *)
ObjectsKept ==
    \A h \in Handles : object'[h] # NULL =>
       \/ object[h] # NULL /\ object'[h].path = object[h].path /\ object'[h].file = object[h].file
       \/ object'[h].file = Now'[object'[h].path]

(* What was unlinked stays so.                                             *)
LEMMA UnlinkedStep ==
    ASSUME TypeOK, History, NEW p \in Paths, NEW s \in 1 .. Len(names)
    PROVE  /\ Len(names) <= Len(names') /\ Len(names') \in Nat /\ Len(names) \in Nat
           /\ Unlinked(p, s) => Unlinked(p, s)'
           /\ Now[p] # NULL /\ Now'[p] = NULL => Unlinked(p, s)'
<1>0. Len(names) \in Nat \ {0}
  BY NowType
<1>1. CASE names' = names
  BY <1>0, <1>1 DEF Unlinked, Now
<1>2. CASE \E new \in NameStates : names' = Append(names, new)
  <2>1. PICK new \in NameStates : names' = Append(names, new)
    BY <1>2
  <2>2. Now' = new /\ Len(names') = Len(names) + 1 /\ \A k \in 1 .. Len(names) : names'[k] = names[k]
    BY <2>1, NamesAppend
  <2>3. ASSUME NEW k \in s .. Len(names) - 1, names[k][p] # NULL, names[k + 1][p] = NULL
        PROVE  Unlinked(p, s)'
    <3>1. k \in s .. Len(names') - 1 /\ names'[k] = names[k] /\ names'[k + 1] = names[k + 1]
      BY <1>0, <2>2, <2>3
    <3>2. QED
      BY <2>3, <3>1 DEF Unlinked
  <2>4. ASSUME Now[p] # NULL, Now'[p] = NULL PROVE Unlinked(p, s)'
    <3>1. /\ Len(names) \in s .. Len(names') - 1 /\ names'[Len(names)] = Now
          /\ names'[Len(names) + 1] = Now'
      BY <1>0, <2>2 DEF Now
    <3>2. QED
      BY <2>4, <3>1 DEF Unlinked
  <2>5. QED
    BY <1>0, <2>2, <2>3, <2>4 DEF Unlinked
<1>3. QED
  BY <1>1, <1>2 DEF History

LEMMA FreshKept ==
    ASSUME TypeOK, Control, NEW t \in Threads, thread[t].pc # "idle", FreshFor(t),
           History, kind # "rados" => NoneReplaced /\ ObjectsKept, kind' = kind,
           thread'[t].req = thread[t].req, thread'[t].since = thread[t].since,
           thread'[t].alone = thread[t].alone
    PROVE  FreshFor(t)'
<1>0. PICK p \in Paths : p = Path(t)
  BY MessageType DEF Control
<1>1. PICK s \in 1 .. Len(names) : s = thread[t].since
  BY DEF FreshFor
<1>2. Path(t)' = p /\ thread'[t].since = s
  BY <1>0, <1>1 DEF Path
<1>3. /\ Len(names) <= Len(names') /\ Len(names') \in Nat /\ Len(names) \in Nat
      /\ Unlinked(p, s) => Unlinked(p, s)'
      /\ Now[p] # NULL /\ Now'[p] = NULL => Unlinked(p, s)'
  BY UnlinkedStep
<1>4. s \in 1 .. Len(names')
  BY <1>3
<1>5. ASSUME kind # "rados", thread[t].alone, ~Unlinked(p, s)', NEW h \in Handles,
             object'[h] # NULL, object'[h].path = p
      PROVE  object'[h].file = Now'[p]
  <2>1. CASE object'[h].file = Now'[object'[h].path]
    BY <1>5, <2>1
  <2>2. CASE object[h] # NULL /\ object'[h].path = object[h].path /\ object'[h].file = object[h].file
    <3>1. object[h].file = Now[p]
      BY <1>0, <1>1, <1>3, <1>5, <2>2 DEF FreshFor
    <3>2. object[h].file # NULL
      BY <1>5, <2>2, FilesAssumption, NowType DEF Control, Sized, Exists
    <3>3. Now'[p] = Now[p]
      BY <1>3, <1>5, <3>1, <3>2 DEF NoneReplaced
    <3>4. QED
      BY <2>2, <3>1, <3>3
  <2>3. QED
    BY <1>5, <2>1, <2>2 DEF ObjectsKept
<1>6. QED
  BY <1>2, <1>4, <1>5 DEF FreshFor

(* Of the calls that work on an object only backend_delete changes the     *)
(* names, and with RADOS a write.                                          *)
LEMMA WorkNames ==
    ASSUME TypeOK, Control, NEW t \in Threads, Working(t) \/ Failing(t)
    PROVE  /\ WorkEffect(t) /\ Path(t) \in Paths
           /\ kind = "rados" \/ names' = names \/ Renamed(t, NULL)
<1>0. WorkEffect(t)
  BY AllWork
<1>a. Path(t) \in Paths
  BY <1>0, MessageType DEF WorkEffect, Control
<1>1. CASE Create(t) \/ Status(t) \/ PRead(t) \/ PWrite(t) \/ TransferEnd(t) \/ Failing(t)
  BY <1>0, <1>a, <1>1
     DEF Create, Status, PRead, PWrite, TransferEnd, Failing, Interrupted, LoopBreaks, LibraryFails
<1>2. CASE Delete(t)
  BY <1>0, <1>a, <1>2 DEF Delete, Renamed
<1>3. CASE Transfer(t)
  BY <1>0, <1>a, <1>3, TransferReads, TransferWrites
<1>4. QED
  BY <1>1, <1>2, <1>3 DEF Working

LEMMA WorkHistory ==
    ASSUME TypeOK, Control, NEW t \in Threads, Working(t) \/ Failing(t)
    PROVE  History /\ (kind # "rados" => NoneReplaced /\ ObjectsKept)
<1>1. /\ WorkEffect(t) /\ Path(t) \in Paths
      /\ kind = "rados" \/ names' = names \/ Renamed(t, NULL)
  BY WorkNames
<1>2. History
  <2>1. ASSUME NEW x \in Nat \cup {NULL}, Renamed(t, x) PROVE History
    <3>1. [Now EXCEPT ![Path(t)] = x] \in NameStates
      BY <1>1, NowType DEF NameStates
    <3>2. QED
      BY <2>1, <3>1 DEF Renamed, History
  <2>2. QED
    BY <1>1, <2>1 DEF WorkEffect, NamesStep, History
<1>3. ASSUME kind # "rados" PROVE NoneReplaced
  <2>1. CASE names' = names
    BY <2>1 DEF NoneReplaced, Now
  <2>2. CASE Renamed(t, NULL)
    BY <1>1, <2>2, RenamedType DEF NoneReplaced
  <2>3. QED
    BY <1>1, <1>3, <2>1, <2>2
<1>4. ObjectsKept
  BY <1>1 DEF WorkEffect, ObjectsKept
<1>5. QED
  BY <1>2, <1>3, <1>4

LEMMA OpenHistory ==
    ASSUME TypeOK, Control, NEW t \in Threads, NEW h \in Handles, OpensObject(t, h)
    PROVE  History /\ NoneReplaced /\ (kind # "rados" => ObjectsKept)
<1>0. thread[t].pc # "idle" /\ Opens(t) /\ OpenFile(t)
  BY DEF OpensObject
<1>1. Path(t) \in Paths /\ NewFile \in Nat
  BY <1>0, MessageType, NowType DEF Control
<1>2. \/ ~Makes(t) /\ names' = names /\ Opened(t) = Now[Path(t)]
      \/ Makes(t) /\ Renamed(t, NewFile) /\ Opened(t) = NewFile
  BY <1>0, OpenFileEffect
<1>3. CASE ~Makes(t) /\ names' = names /\ Opened(t) = Now[Path(t)]
  BY <1>3 DEF OpensObject, History, NoneReplaced, ObjectsKept, Now
<1>4. CASE Makes(t) /\ Renamed(t, NewFile) /\ Opened(t) = NewFile
  <2>1. [Now EXCEPT ![Path(t)] = NewFile] \in NameStates
    BY <1>1, NowType DEF NameStates
  <2>2. History
    BY <1>4, <2>1 DEF Renamed, History
  <2>3. Now'[Path(t)] = NewFile /\ \A p \in Paths \ {Path(t)} : Now'[p] = Now[p]
    BY <1>1, <1>4, RenamedType
  <2>4. NoneReplaced
    BY <1>4, <2>3 DEF Makes, NoneReplaced
  <2>5. ObjectsKept
    BY <1>4, <2>3 DEF OpensObject, ObjectsKept
  <2>6. QED
    BY <2>2, <2>4, <2>5
<1>5. QED
  BY <1>2, <1>3, <1>4

(* What every step of a thread does to the files, and that it goes on with *)
(* its message unless that is over.                                        *)
Continues(t) ==
    thread'[t].pc # "idle" =>
       /\ thread[t].pc # "idle" /\ thread'[t].req = thread[t].req
       /\ thread'[t].since = thread[t].since /\ thread'[t].alone = thread[t].alone

LEMMA StepHistory ==
    ASSUME TypeOK, Control, NEW t \in Threads, Does(t)
    PROVE  /\ Only(t) /\ kind' = kind /\ History
           /\ kind # "rados" => NoneReplaced /\ ObjectsKept
           /\ Continues(t) \/ \E r \in Requests[t] : Receive(t, r)
<1>1. CASE \E r \in Requests[t] : Receive(t, r)
  <2>1. PICK r \in Requests[t] : Receive(t, r)
    BY <1>1
  <2>2. Only(t) /\ UNCHANGED <<kind, names, object>>
    BY <2>1, ReceiveEffect
  <2>3. QED
    BY <1>1, <2>2 DEF History, NoneReplaced, ObjectsKept, Now
<1>2. CASE Gets(t)
  BY <1>2 DEF Gets, History, NoneReplaced, ObjectsKept, Now, Continues
<1>3. CASE \E h \in Handles : OpensObject(t, h)
  <2>1. PICK h \in Handles : OpensObject(t, h)
    BY <1>3
  <2>2. History /\ NoneReplaced /\ (kind # "rados" => ObjectsKept)
    BY <2>1, OpenHistory
  <2>3. Only(t) /\ kind' = kind /\ Continues(t)
    BY <2>1 DEF OpensObject, Continues
  <2>4. QED
    BY <2>2, <2>3
<1>4. CASE Working(t) \/ Failing(t)
  <2>1. WorkEffect(t)
    BY <1>4, AllWork
  <2>2. Only(t) /\ kind' = kind /\ Continues(t)
    BY <2>1 DEF WorkEffect, Keeps, Continues
  <2>3. QED
    BY <1>4, <2>2, WorkHistory
<1>5. CASE Listing(t)
  <2>1. /\ Only(t) /\ UNCHANGED <<kind, names, size, object, cache, files, lock>>
        /\ \/ /\ thread'[t].pc \in {"next", "listed"} /\ thread[t].pc \in {"list", "next"}
              /\ thread'[t].req = thread[t].req /\ thread'[t].since = thread[t].since
              /\ thread'[t].alone = thread[t].alone
           \/ thread'[t].pc = "idle"
    BY <1>5, ListControl
  <2>2. QED
    BY <2>1 DEF History, NoneReplaced, ObjectsKept, Now, Continues
<1>6. CASE Closes(t)
  BY <1>6 DEF Closes, History, NoneReplaced, ObjectsKept, Now, Continues
<1>7. QED
  BY <1>1, <1>2, <1>3, <1>4, <1>5, <1>6 DEF Does

(* A message that finds nobody at work on its object finds no object of    *)
(* that name open.                                                         *)
LEMMA ReceiveFresh ==
    ASSUME TypeOK, Control, NEW t \in Threads, NEW r \in Requests[t], Receive(t, r)
    PROVE  FreshFor(t)'
<1>1. /\ thread'[t].req = r /\ thread'[t].since = Len(names) /\ thread'[t].alone = Alone(r.path)
      /\ UNCHANGED <<kind, names, size, object>>
  BY ReceiveEffect
<1>2. thread'[t].since \in 1 .. Len(names')
  BY <1>1, NowType
<1>3. ASSUME Alone(r.path), NEW h \in Handles, object[h] # NULL PROVE object[h].path # r.path
  <2>1. PICK u \in Threads : Busy(u) /\ thread[u].obj = h
    BY <1>3 DEF Control, Placed, Users
  <2>2. object[h].path = Path(u) /\ thread[u].pc # "idle"
    BY <2>1 DEF Control, Placed, Busy
  <2>3. QED
    BY <1>3, <2>2 DEF Alone, At
<1>4. Path(t)' = r.path
  BY <1>1 DEF Path
<1>5. thread'[t].alone => \A h \in Handles : object'[h] # NULL => object'[h].path # Path(t)'
  BY <1>1, <1>3, <1>4
<1>6. QED
  BY <1>2, <1>5 DEF FreshFor

LEMMA NextFresh ==
    ASSUME TypeOK, Control, Fresh, [Next]_vars PROVE Fresh'
<1>1. CASE UNCHANGED vars
  BY <1>1 DEF vars, Fresh, FreshFor, Unlinked, Now, Path
<1>2. CASE Next
  <2>1. PICK t \in Threads : Step(t) \/ Failing(t) \/ \E r \in Requests[t] : Receive(t, r)
    BY <1>2 DEF Next
  <2>2. Does(t)
    BY <2>1, StepControl
  <2>3. /\ Only(t) /\ kind' = kind /\ History
        /\ kind # "rados" => NoneReplaced /\ ObjectsKept
        /\ Continues(t) \/ \E r \in Requests[t] : Receive(t, r)
    BY <2>2, StepHistory
  <2>4. ASSUME NEW u \in Threads, thread'[u].pc # "idle", Continues(u) PROVE FreshFor(u)'
    <3>1. /\ thread[u].pc # "idle" /\ thread'[u].req = thread[u].req
          /\ thread'[u].since = thread[u].since /\ thread'[u].alone = thread[u].alone
      BY <2>4 DEF Continues
    <3>2. FreshFor(u)
      BY <3>1 DEF Fresh
    <3>3. QED
      BY <2>3, <3>1, <3>2, FreshKept
  <2>5. \A u \in Threads \ {t} : Continues(u)
    BY <2>3 DEF Only, Continues
  <2>6. (\E r \in Requests[t] : Receive(t, r)) => FreshFor(t)'
    BY ReceiveFresh
  <2>7. QED
    BY <2>3, <2>4, <2>5, <2>6 DEF Fresh
<1>3. QED
  BY <1>1, <1>2

LEMMA FreshImpliesNamed == ASSUME Control, Fresh PROVE WorksOnTheNamedFile
<1>1. SUFFICES ASSUME NEW t \in Threads, At(t, "work"), kind # "rados", thread[t].alone,
                      ~Unlinked(Path(t), thread[t].since)
               PROVE  FileOf(t) = Now[Path(t)]
  BY DEF WorksOnTheNamedFile
<1>2. /\ thread[t].obj \in Handles /\ object[thread[t].obj] # NULL
      /\ object[thread[t].obj].path = Path(t) /\ thread[t].pc # "idle"
  BY <1>1 DEF Control, Placed, Busy, At
<1>3. object[thread[t].obj].file = Now[Path(t)]
  BY <1>1, <1>2 DEF Fresh, FreshFor
<1>4. QED
  BY <1>1, <1>3 DEF FileOf

(* With the POSIX and the GIO backend, a message that finds nobody else at *)
(* work on its object and whose object is not deleted meanwhile works on   *)
(* the file that has the name, for every number of threads, names and      *)
(* messages: backend_file_get never hands out a file deleted before.       *)
THEOREM NamedFile == Spec => []WorksOnTheNamedFile
<1>1. Init => Fresh
  <2>1. Idle.pc = "idle"
    BY DEF Idle
  <2>2. QED
    BY <2>1 DEF Init, Fresh
<1>2. TypeOK /\ Control /\ Fresh /\ [Next]_vars => Fresh'
  BY NextFresh
<1>3. TypeOK /\ Control /\ Fresh => WorksOnTheNamedFile
  BY FreshImpliesNamed
<1>4. QED
  BY <1>1, <1>2, <1>3, ControlInvariance, PTL DEF Spec

-----------------------------------------------------------------------------
(* The counts of the transfers.                                            *)

LEMMA WrapSmall == ASSUME NEW n \in Nat, n < 2 ^ Width PROVE Wrap(n) = n
<1>1. PICK max \in Nat \ {0} : max = 2 ^ Width
  BY FilesAssumption
<1>2. n % max = n
  BY <1>1
<1>3. QED
  BY <1>1, <1>2 DEF Wrap

LEMMA WrapBelow == Wrap(-1) = 2 ^ Width - 1
<1>1. PICK max \in Nat \ {0} : max = 2 ^ Width
  BY FilesAssumption
<1>2. (-1) % max = max - 1
  OBVIOUS
<1>3. QED
  BY <1>1, <1>2 DEF Wrap

(* The file of a thread that does not step stays open.                     *)
LEMMA FilesStay ==
    ASSUME TypeOK, Control, Control', NEW t \in Threads, Does(t)
    PROVE  /\ Grows
           /\ \A u \in Threads \ {t} : Busy(u) =>
                 object'[thread[u].obj].file = object[thread[u].obj].file
<1>0. /\ Only(t) /\ \A u \in Threads \ {t} : Busy(u) =>
            /\ thread[u].obj \in Handles /\ object[thread[u].obj] # NULL
            /\ object'[thread[u].obj] # NULL
  <2>1. Only(t)
    BY StepHistory
  <2>2. QED
    BY <2>1 DEF Only, Control, Placed, Busy
<1>1. CASE \E r \in Requests[t] : Receive(t, r)
  <2>1. UNCHANGED <<size, object>>
    BY <1>1, ReceiveEffect
  <2>2. QED
    BY <2>1, GrowsSame
<1>2. CASE Gets(t) \/ Closes(t)
  <2>1. size' = size
    BY <1>2 DEF Gets, Closes
  <2>2. QED
    BY <1>0, <1>2, <2>1, GrowsSame DEF Gets, Closes
<1>3. CASE \E h \in Handles : OpensObject(t, h)
  BY <1>0, <1>3 DEF OpensObject
<1>4. CASE Working(t) \/ Failing(t)
  <2>1. WorkEffect(t)
    BY <1>4, AllWork
  <2>2. QED
    BY <2>1 DEF WorkEffect
<1>5. CASE Listing(t)
  <2>1. UNCHANGED <<size, object>>
    BY <1>5, ListControl
  <2>2. QED
    BY <2>1, GrowsSame
<1>6. QED
  BY <1>1, <1>2, <1>3, <1>4, <1>5 DEF Does

LEMMA TransferKept ==
    ASSUME TypeOK, Control, NEW t \in Threads, TransferFor(t), thread'[t] = thread[t], kind' = kind, Grows,
           Busy(t) => object'[thread[t].obj].file = object[thread[t].obj].file
    PROVE  TransferFor(t)'
<1>1. /\ Unmoved(t)' = Unmoved(t) /\ Type(t)' = Type(t) /\ Transferred(t)' = Transferred(t)
      /\ Wanted(t)' = Wanted(t) /\ Offset(t)' = Offset(t)
  BY DEF Unmoved, Type, Transferred, Wanted, Offset
<1>2. ASSUME thread[t].pc = "work", kind = "posix", Counting(t) PROVE Counting(t)'
  <2>1. Busy(t)
    BY <1>2 DEF Busy
  <2>2. FileOf(t)' = FileOf(t) /\ Exists(FileOf(t)) /\ size[FileOf(t)] \in Nat
    BY <1>2, <2>1, FileExists DEF FileOf
  <2>3. size[FileOf(t)] <= size'[FileOf(t)] /\ size'[FileOf(t)] \in Nat
    <3>1. FileOf(t) \in 1 .. Len(size) /\ FileOf(t) \in 1 .. Len(size') /\ size' \in Seq(Nat)
      BY <2>2, NowType DEF Grows, Exists
    <3>2. QED
      BY <1>2, <3>1, ElementOfSeq DEF Grows
  <2>4. \A m \in Nat : Ranged(t, m) => Ranged(t, m)'
    <3>1. Offset(t) \in Nat
      BY <1>2, MessageType DEF Control
    <3>2. QED
      BY <1>1, <2>2, <2>3, <3>1 DEF Ranged
  <2>5. QED
    BY <1>2, <2>4 DEF Counting
<1>3. QED
  BY <1>1, <1>2 DEF TransferFor

(* Nothing is moved before the work begins.                                *)
LEMMA TransferBegins ==
    ASSUME TypeOK, Control, NEW t \in Threads, TransferFor(t), thread[t].pc \in {"get", "open"},
           thread'[t].pc \in {"work", "open"}, thread'[t].req = thread[t].req,
           Counts(t, thread[t].total, thread[t].moved, thread[t].early)
    PROVE  TransferFor(t)'
<1>1. Unmoved(t)'
  BY DEF TransferFor, Unmoved, Counts
<1>2. Wanted(t)' \in Nat
  BY MessageType DEF Control, Wanted
<1>3. Counting(t)'
  <2>1. Ranged(t, 0)'
    <3>1. 0 .. 0 - 1 = {}
      OBVIOUS
    <3>2. QED
      BY <1>1, <1>2, <3>1 DEF Ranged, Unmoved
  <2>2. QED
    BY <1>1, <2>1 DEF Counting, Unmoved
<1>4. QED
  BY <1>1, <1>3 DEF TransferFor

(* The loop goes on with n more bytes.                                     *)
LEMMA TransferMoves ==
    ASSUME TypeOK, Control, NEW t \in Threads, Counting(t), Loops(t), kind = "posix",
           thread'[t].pc = "work", thread'[t].req = thread[t].req,
           NEW n \in 1 .. Wanted(t) - thread[t].total,
           Counts(t, AddTotal(t, n), Moved(t, n), thread[t].early),
           Type(t) = "READ" => n <= Available(t) /\ size' = size /\ FileOf(t)' = FileOf(t)
    PROVE  Counting(t)'
<1>0. /\ thread[t].pc = "work" /\ Busy(t) /\ thread[t].total < Wanted(t)
      /\ Wanted(t) \in Nat /\ Offset(t) \in Nat /\ Wanted(t) + 1 < 2 ^ Width
      /\ thread[t].total \in Nat /\ 2 ^ Width \in Nat
  <2>1. thread[t].pc = "work" /\ thread[t].total < Wanted(t) /\ Busy(t) /\ thread[t].total \in Nat
    BY DEF Loops, Transfers, At, Busy, Counting
  <2>2. QED
    BY <2>1, MessageType, FilesAssumption DEF Control
<1>1. ~thread[t].early
  BY <1>0 DEF Counting
<1>2. PICK m \in Nat : Ranged(t, m)
  BY <1>1 DEF Counting
<1> DEFINE total == thread[t].total
<1>3. total + n \in Nat /\ total + n <= Wanted(t) /\ n \in Nat /\ n > 0
  BY <1>0
<1>4. AddTotal(t, n) = total + n
  <2>1. total + n < 2 ^ Width
    BY <1>0, <1>3
  <2>2. QED
    BY <1>3, <2>1, WrapSmall DEF AddTotal
<1>a. total <= m /\ m <= Wanted(t) /\ total \in Nat /\ thread[t].moved = 0 .. m - 1
  BY <1>0, <1>2 DEF Ranged
<1> HIDE DEF total
<1>5. PICK l \in Nat : l = IF m < total + n THEN total + n ELSE m
  BY <1>3
<1>6. Moved(t, n) = 0 .. l - 1
  <2>1. (0 .. m - 1) \cup (total .. total + n - 1) = 0 .. l - 1
    BY <1>3, <1>5, <1>a
  <2>2. QED
    BY <2>1, <1>a DEF Moved, total
<1>7. total + n <= l /\ l <= Wanted(t)
  BY <1>0, <1>3, <1>5, <1>a
<1>8. ASSUME Type(t) = "READ" PROVE Offset(t) + l <= size[FileOf(t)]
  <2>1. size[FileOf(t)] \in Nat /\ FileOf(t) # NULL
    BY <1>0, FileExists
  <2>2. Offset(t) + total + n <= size[FileOf(t)]
    BY <1>0, <1>3, <1>8, <2>1 DEF Available, total
  <2>3. m > 0 => Offset(t) + m <= size[FileOf(t)]
    BY <1>2, <1>8 DEF Ranged
  <2>4. QED
    BY <1>0, <1>3, <1>5, <2>1, <2>2, <2>3, <1>a
<1>9. Wanted(t)' = Wanted(t) /\ Offset(t)' = Offset(t) /\ Type(t)' = Type(t)
  BY DEF Wanted, Offset, Type
<1>10. /\ thread'[t].total = total + n /\ thread'[t].moved = 0 .. l - 1 /\ ~thread'[t].early
       /\ ~thread'[t].failed
  BY <1>1, <1>4, <1>6 DEF Counts, Counting
<1>11. Ranged(t, l)'
  BY <1>7, <1>8, <1>9, <1>10 DEF Ranged
<1>12. QED
  BY <1>3, <1>10, <1>11 DEF Counting

(* An interrupted call takes one from the count, which is then behind the  *)
(* bytes that were moved, or the largest number.                           *)
LEMMA TransferInterrupted ==
    ASSUME TypeOK, Control, NEW t \in Threads, Counting(t), Interrupted(t)
    PROVE  Counting(t)'
<1>0. /\ thread[t].pc = "work" /\ thread[t].total < Wanted(t)
      /\ Wanted(t) \in Nat /\ Offset(t) \in Nat /\ Wanted(t) + 1 < 2 ^ Width
      /\ thread[t].total \in Nat /\ 2 ^ Width \in Nat /\ kind = "posix"
  <2>1. thread[t].pc = "work" /\ thread[t].total < Wanted(t) /\ thread[t].total \in Nat /\ kind = "posix"
    BY DEF Interrupted, Loops, Transfers, At, Counting
  <2>2. QED
    BY <2>1, MessageType, FilesAssumption DEF Control
<1>1. ~thread[t].early
  BY <1>0 DEF Counting
<1>2. PICK m \in Nat : Ranged(t, m)
  BY <1>1 DEF Counting
<1>3. /\ WorkEffect(t) /\ size' = size
      /\ Counts(t, AddTotal(t, -1), thread[t].moved, thread[t].early \/ thread[t].total = 0)
  BY InterruptedWorks
<1>4. CASE thread[t].total = 0
  <2>1. AddTotal(t, -1) = 2 ^ Width - 1
    <3>1. 0 + (-1) = -1
      OBVIOUS
    <3>2. QED
      BY <1>4, <3>1, WrapBelow DEF AddTotal
  <2>2. thread'[t].total = 2 ^ Width - 1 /\ thread'[t].early /\ ~thread'[t].failed
    BY <1>3, <1>4, <2>1 DEF Counts, Counting
  <2>3. 2 ^ Width - 1 \in Nat
    BY <1>0
  <2>4. QED
    BY <2>2, <2>3 DEF Counting
<1>5. CASE thread[t].total # 0
  <2>1. PICK k \in Nat : k = thread[t].total + (-1) /\ k < 2 ^ Width /\ k <= thread[t].total
    BY <1>0, <1>5
  <2>2. AddTotal(t, -1) = k
    BY <2>1, WrapSmall DEF AddTotal
  <2>3. /\ thread'[t].total = k /\ thread'[t].moved = thread[t].moved /\ ~thread'[t].early
        /\ ~thread'[t].failed
    BY <1>1, <1>3, <1>5, <2>2 DEF Counts, Counting
  <2>4. /\ Wanted(t)' = Wanted(t) /\ Offset(t)' = Offset(t) /\ Type(t)' = Type(t)
        /\ FileOf(t)' = FileOf(t)
    BY <1>0, <1>3 DEF Wanted, Offset, Type, FileOf, WorkEffect, Keeps
  <2>5. thread[t].total <= m
    BY <1>2 DEF Ranged
  <2>6. k <= m
    BY <1>0, <2>1, <2>5
  <2>7. Ranged(t, m)'
    BY <1>2, <1>3, <2>3, <2>4, <2>6 DEF Ranged
  <2>8. QED
    BY <2>3, <2>7 DEF Counting
<1>6. QED
  BY <1>4, <1>5

(* When the loop ends the count is what was moved.                         *)
LEMMA TransferEnds ==
    ASSUME TypeOK, Control, NEW t \in Threads, Counting(t), TransferEnd(t)
    PROVE  Transferred(t)'
<1>0. /\ thread[t].pc = "work" /\ Busy(t) /\ Type(t) \in {"READ", "WRITE"} /\ kind = "posix"
      /\ Wanted(t) \in Nat /\ Offset(t) \in Nat /\ Wanted(t) + 1 < 2 ^ Width
      /\ thread[t].total \in Nat /\ 2 ^ Width \in Nat
      /\ thread[t].total >= Wanted(t) \/ (Type(t) = "READ" /\ Available(t) = 0)
  <2>1. /\ thread[t].pc = "work" /\ Busy(t) /\ Type(t) \in {"READ", "WRITE"} /\ kind = "posix"
        /\ thread[t].total \in Nat /\ 2 ^ Width \in Nat
        /\ ~(thread[t].total < Wanted(t)) \/ (Type(t) = "READ" /\ Available(t) = 0)
    BY FilesAssumption DEF TransferEnd, Loops, Transfers, At, Busy, Counting
  <2>2. Wanted(t) \in Nat /\ Offset(t) \in Nat /\ Wanted(t) + 1 < 2 ^ Width
    BY <2>1, MessageType DEF Control
  <2>3. QED
    BY <2>1, <2>2
<1>1. /\ Counts(t, thread[t].total, thread[t].moved, thread[t].early)
      /\ thread'[t].ret = (thread[t].total = Wanted(t)) /\ WorkEffect(t)
  BY TransferEndWorks
<1>2. Wanted(t)' = Wanted(t) /\ Type(t)' = Type(t)
  BY <1>1 DEF WorkEffect, Keeps, Wanted, Type
<1>3. CASE thread[t].early
  <2>1. thread[t].total = 2 ^ Width - 1
    BY <1>3 DEF Counting
  <2>2. thread[t].total # Wanted(t)
    BY <1>0, <2>1
  <2>3. QED
    BY <1>1, <1>3, <2>1, <2>2 DEF Counts, Transferred
<1>4. CASE ~thread[t].early
  <2>1. PICK m \in Nat : Ranged(t, m)
    BY <1>4 DEF Counting
  <2>2. /\ thread[t].moved = 0 .. m - 1 /\ thread[t].total <= m /\ m <= Wanted(t)
        /\ Type(t) = "READ" /\ m > 0 => Offset(t) + m <= size[FileOf(t)]
    BY <2>1 DEF Ranged
  <2>3. thread[t].total = m /\ (Type(t) = "WRITE" => m = Wanted(t))
    <3>1. CASE thread[t].total >= Wanted(t)
      BY <1>0, <2>2, <3>1
    <3>2. CASE Type(t) = "READ" /\ Available(t) = 0
      <4>1. size[FileOf(t)] \in Nat /\ FileOf(t) # NULL
        BY <1>0, FileExists
      <4>2. size[FileOf(t)] <= Offset(t) + thread[t].total
        BY <1>0, <3>2, <4>1 DEF Available
      <4>3. CASE m = 0
        BY <1>0, <2>2, <3>2, <4>3
      <4>4. CASE m > 0
        BY <1>0, <2>2, <3>2, <4>1, <4>2, <4>4
      <4>5. QED
        BY <4>3, <4>4
    <3>3. QED
      BY <1>0, <3>1, <3>2
  <2>4. QED
    BY <1>1, <1>2, <1>4, <2>2, <2>3 DEF Counts, Transferred
<1>5. QED
  BY <1>3, <1>4

(* When it is left because of an error, what was counted was moved.        *)
LEMMA TransferBreaks ==
    ASSUME TypeOK, Control, NEW t \in Threads, Counting(t), LoopBreaks(t)
    PROVE  Transferred(t)'
<1>0. /\ thread[t].pc = "work" /\ thread[t].total < Wanted(t) /\ thread[t].total \in Nat
      /\ Wanted(t) \in Nat /\ Wanted(t) + 1 < 2 ^ Width /\ 2 ^ Width \in Nat
  <2>1. thread[t].pc = "work" /\ thread[t].total < Wanted(t) /\ thread[t].total \in Nat
    BY DEF LoopBreaks, Loops, Transfers, At, Counting
  <2>2. QED
    BY <2>1, MessageType, FilesAssumption DEF Control
<1>1. ~thread[t].early
  BY <1>0 DEF Counting
<1>2. PICK m \in Nat : Ranged(t, m)
  BY <1>1 DEF Counting
<1>3. /\ thread[t] \in ThreadStates
      /\ thread'[t] = [thread[t] EXCEPT !.pc = "close", !.ret = FALSE, !.failed = TRUE]
  BY LoopBreaksWorks DEF TypeOK
<1>4. /\ thread'[t].total = thread[t].total /\ thread'[t].moved = thread[t].moved
      /\ ~thread'[t].early /\ ~thread'[t].ret /\ thread'[t].failed
  BY <1>1, <1>3 DEF ThreadStates
<1>5. 0 .. thread[t].total - 1 \subseteq thread[t].moved
  <2>1. thread[t].moved = 0 .. m - 1 /\ thread[t].total <= m
    BY <1>2 DEF Ranged
  <2>2. QED
    BY <1>0, <2>1
<1>6. QED
  BY <1>4, <1>5 DEF Transferred

LEMMA WorkTransfers ==
    ASSUME TypeOK, Control, NEW t \in Threads, TransferFor(t), Working(t) \/ Failing(t)
    PROVE  TransferFor(t)'
<1>1. /\ WorkEffect(t) /\ thread[t].pc = "work" /\ thread'[t].pc \in {"work", "close"}
      /\ Type(t)' = Type(t) /\ Wanted(t)' = Wanted(t) /\ kind' = kind
      /\ thread'[t].req = thread[t].req
  <2>1. WorkEffect(t)
    BY AllWork
  <2>2. QED
    BY <2>1 DEF WorkEffect, Keeps, Type, Wanted
<1>2. CASE Create(t) \/ Delete(t) \/ Status(t)
  <2>1. Type(t) \notin {"READ", "WRITE"} /\ thread'[t].pc = "close"
    <3>1. CASE Create(t)
      BY <3>1 DEF Create, TypeOK, ThreadStates
    <3>2. CASE Delete(t)
      BY <3>2 DEF Delete, TypeOK, ThreadStates
    <3>3. CASE Status(t)
      BY <3>3 DEF Status, TypeOK, ThreadStates
    <3>4. QED
      BY <1>2, <3>1, <3>2, <3>3
  <2>2. QED
    BY <1>1, <2>1 DEF TransferFor
<1>3. ASSUME PRead(t) \/ PWrite(t) \/ Interrupted(t) \/ LoopBreaks(t) \/ TransferEnd(t)
      PROVE  Counting(t) /\ kind = "posix" /\ Type(t) \in {"READ", "WRITE"}
  <2>1. kind = "posix" /\ Type(t) \in {"READ", "WRITE"}
    BY <1>3 DEF PRead, PWrite, Interrupted, LoopBreaks, TransferEnd, Loops, Transfers
  <2>2. QED
    BY <1>1, <2>1 DEF TransferFor
<1>4. CASE PRead(t)
  <2>1. PICK n \in 1 .. Wanted(t) - thread[t].total :
            n <= Available(t) /\ Counts(t, AddTotal(t, n), Moved(t, n), thread[t].early)
    BY <1>4, PReadWorks
  <2>2. thread'[t].pc = "work" /\ size' = size /\ Loops(t)
    BY <1>4, PReadWorks DEF PRead
  <2>3. FileOf(t)' = FileOf(t)
    BY <1>1, <1>3, <1>4 DEF WorkEffect, Keeps, FileOf
  <2>4. Counting(t)'
    BY <1>1, <1>3, <1>4, <2>1, <2>2, <2>3, TransferMoves
  <2>5. QED
    BY <1>1, <1>3, <1>4, <2>2, <2>4 DEF TransferFor
<1>5. CASE PWrite(t)
  <2>1. PICK n \in 1 .. Wanted(t) - thread[t].total :
            Counts(t, AddTotal(t, n), Moved(t, n), thread[t].early)
    BY <1>5, PWriteWorks
  <2>2. thread'[t].pc = "work" /\ Type(t) # "READ" /\ Loops(t)
    BY <1>5, PWriteWorks DEF PWrite
  <2>3. Counting(t)'
    BY <1>1, <1>3, <1>5, <2>1, <2>2, TransferMoves
  <2>4. QED
    BY <1>1, <1>3, <1>5, <2>2, <2>3 DEF TransferFor
<1>6. CASE Interrupted(t)
  <2>1. thread'[t].pc = "work" /\ Counting(t)'
    BY <1>3, <1>6, InterruptedWorks, TransferInterrupted
  <2>2. QED
    BY <1>1, <1>3, <1>6, <2>1 DEF TransferFor
<1>7. CASE TransferEnd(t)
  <2>1. thread'[t].pc = "close" /\ Transferred(t)'
    BY <1>3, <1>7, TransferEndWorks, TransferEnds
  <2>2. QED
    BY <2>1 DEF TransferFor
<1>a. CASE LoopBreaks(t)
  <2>1. thread'[t].pc = "close" /\ Transferred(t)'
    BY <1>3, <1>a, LoopBreaksWorks, TransferBreaks
  <2>2. QED
    BY <2>1 DEF TransferFor
<1>b. CASE LibraryFails(t)
  <2>1. Unmoved(t) /\ thread[t] \in ThreadStates /\ thread'[t].pc = "close"
    BY <1>1, <1>b, LibraryFailsWorks DEF TransferFor, LibraryFails, TypeOK
  <2>2. PICK n \in Nat :
            thread'[t] = [thread[t] EXCEPT !.pc = "close", !.ret = FALSE, !.failed = TRUE,
                                           !.total = n, !.moved = 0 .. n - 1]
    BY <1>b, LibraryFailsWorks
  <2>3. /\ thread'[t].total = n /\ thread'[t].moved = 0 .. n - 1
        /\ ~thread'[t].early /\ ~thread'[t].ret /\ thread'[t].failed
    BY <2>1, <2>2 DEF ThreadStates, Unmoved
  <2>4. Transferred(t)'
    BY <2>3 DEF Transferred
  <2>5. QED
    BY <2>1, <2>4 DEF TransferFor
<1>8. CASE Transfer(t)
  <2>1. Unmoved(t) /\ thread'[t].pc = "close"
    BY <1>1, <1>8, TransferReads, TransferWrites DEF TransferFor, Transfer
  <2>2. CASE Type(t) = "READ"
    <3>1. PICK n \in Nat : Counts(t, n, 0 .. n - 1, thread[t].early)
      BY <1>8, <2>2, TransferReads
    <3>2. QED
      BY <1>1, <2>1, <2>2, <3>1 DEF TransferFor, Transferred, Unmoved, Counts
  <2>3. CASE Type(t) # "READ"
    <3>1. Counts(t, Wanted(t), 0 .. Wanted(t) - 1, thread[t].early)
      BY <1>8, <2>3, TransferWrites
    <3>2. QED
      BY <1>1, <2>1, <2>3, <3>1 DEF TransferFor, Transferred, Unmoved, Counts
  <2>4. QED
    BY <2>2, <2>3
<1>9. QED
  BY <1>2, <1>4, <1>5, <1>6, <1>7, <1>8, <1>a, <1>b DEF Working, Failing

LEMMA NextTransferring ==
    ASSUME TypeOK, Control, Control', Transferring, [Next]_vars PROVE Transferring'
<1>1. CASE UNCHANGED vars
  <2>1. ASSUME NEW t \in Threads PROVE TransferFor(t)'
    <3>1. TransferFor(t) /\ UNCHANGED <<kind, size, object, thread>>
      BY <1>1 DEF vars, Transferring
    <3>2. Grows
      BY <3>1, GrowsSame
    <3>3. QED
      BY <3>1, <3>2, TransferKept
  <2>2. QED
    BY <2>1 DEF Transferring
<1>2. CASE Next
  <2>1. PICK t \in Threads : Step(t) \/ Failing(t) \/ \E r \in Requests[t] : Receive(t, r)
    BY <1>2 DEF Next
  <2>2. Does(t)
    BY <2>1, StepControl
  <2>3. Only(t) /\ kind' = kind
    BY <2>2, StepHistory
  <2>4. ASSUME NEW u \in Threads \ {t} PROVE TransferFor(u)'
    <3>1. TransferFor(u) /\ thread'[u] = thread[u]
      BY <2>3 DEF Transferring, Only
    <3>2. Grows /\ (Busy(u) => object'[thread[u].obj].file = object[thread[u].obj].file)
      BY <2>2, FilesStay
    <3>3. QED
      BY <2>3, <3>1, <3>2, TransferKept
  <2>5. TransferFor(t)'
    <3>0. TransferFor(t)
      BY DEF Transferring
    <3>1. CASE \E r \in Requests[t] : Receive(t, r)
      <4>1. PICK r \in Requests[t] : Receive(t, r)
        BY <3>1
      <4>2. thread'[t].pc \in {"list", "get"} /\ Unmoved(t)'
        BY <4>1, ReceiveEffect
      <4>3. QED
        BY <4>2 DEF TransferFor
    <3>2. CASE Gets(t)
      BY <3>0, <3>2, TransferBegins DEF Gets
    <3>3. CASE \E h \in Handles : OpensObject(t, h)
      BY <3>0, <3>3, TransferBegins DEF OpensObject
    <3>4. CASE Working(t) \/ Failing(t)
      BY <3>0, <3>4, WorkTransfers
    <3>5. CASE Listing(t)
      <4>1. thread'[t].pc \in {"next", "listed", "idle"}
        BY <3>5, ListControl
      <4>2. QED
        BY <4>1 DEF TransferFor
    <3>6. CASE Closes(t)
      BY <3>6 DEF Closes, TransferFor
    <3>7. QED
      BY <2>2, <3>1, <3>2, <3>3, <3>4, <3>5, <3>6 DEF Does
  <2>6. QED
    BY <2>4, <2>5 DEF Transferring
<1>3. QED
  BY <1>1, <1>2

(* The loops of backend_read and backend_write, for counters of any width, *)
(* buffers of any length and interruptions and errors at any time, and the *)
(* calls of GIO and RADOS: when no call is interrupted before the first    *)
(* byte, the bytes counted were moved, no others were unless a call        *)
(* failed, and a write that succeeds moves all.                            *)
THEOREM ExactTransfers == Spec => []TransferIsExact
<1>1. Init => Transferring
  <2>1. Idle.pc = "idle"
    BY DEF Idle
  <2>2. QED
    BY <2>1 DEF Init, Transferring, TransferFor
<1>2. TypeOK /\ Control /\ Control' /\ Transferring /\ [Next]_vars => Transferring'
  BY NextTransferring
<1>3. Transferring => TransferIsExact
  BY DEF Transferring, TransferFor, Transferred, TransferIsExact
<1>4. QED
  BY <1>1, <1>2, <1>3, ControlInvariance, PTL DEF Spec

-----------------------------------------------------------------------------
(* Listings.                                                               *)

(* What happens to the namespace while a listing goes on.                  *)
LEMMA RegularKept ==
    ASSUME TypeOK, NEW t \in Threads, Regular(t), thread'[t] = thread[t], kind' = kind, History,
           thread[t].since \in 1 .. Len(names)
    PROVE  Regular(t)'
<1>0. PICK s \in 1 .. Len(names) : s = thread[t].since /\ s = thread'[t].since
  OBVIOUS
<1>1. /\ Len(names) \in Nat /\ Len(names') \in Nat /\ Len(names) <= Len(names')
      /\ \A k \in 1 .. Len(names) : names'[k] = names[k]
  <2>1. CASE names' = names
    BY <2>1, NowType
  <2>2. CASE \E new \in NameStates : names' = Append(names, new)
    <3>1. PICK new \in NameStates : names' = Append(names, new)
      BY <2>2
    <3>2. Len(names') = Len(names) + 1 /\ \A k \in 1 .. Len(names) : names'[k] = names[k]
      BY <3>1, NamesAppend
    <3>3. QED
      BY <3>2, NowType
  <2>3. QED
    BY <2>1, <2>2 DEF History
<1>2. \A k \in s .. Len(names) : k \in s .. Len(names') /\ names'[k] = names[k]
  BY <1>1
<1>3. \A e : WasThere(t, e) => WasThere(t, e)'
  BY <1>0, <1>2 DEF WasThere, During
<1>4. \A p : Stayed(t, p)' => Stayed(t, p)
  BY <1>0, <1>2 DEF Stayed, During
<1>5. \A p : Pending(t, p)' <=> Pending(t, p)
  BY DEF Pending
<1>6. QED
  BY <1>3, <1>4, <1>5 DEF Regular

(* What is there now, was there while the listing went on.                 *)
LEMMA NowDuring ==
    ASSUME TypeOK, NEW t \in Threads, thread[t].since \in 1 .. Len(names)
    PROVE  /\ \A p \in Existing : WasThere(t, p)
           /\ \A p \in Paths : Stayed(t, p) => p \in Existing
<1>1. Len(names) \in During(t)
  BY NowType DEF During
<1>2. QED
  BY <1>1 DEF WasThere, Stayed, Existing, Now

(* A step of the listing itself.                                           *)
LEMMA ListsRegular ==
    ASSUME TypeOK, NEW t \in Threads, NEW pc, NEW todo, NEW found, Lists(t, pc, todo, found),
           \A e \in (found \cup todo) \ {"directory"} : WasThere(t, e),
           \A p \in thread[t].req.match \cap Paths :
              Stayed(t, p) /\ (kind = "gio" => p \notin Below) =>
                 \/ p \in found \cup todo
                 \/ p \in Below /\ kind = "posix" /\ "directory" \in todo
    PROVE  Regular(t)'
<1>1. /\ \A e : WasThere(t, e)' <=> WasThere(t, e)
      /\ \A p : Stayed(t, p)' <=> Stayed(t, p)
  BY DEF Lists, WasThere, Stayed, During
<1>2. \A p : Pending(t, p)' <=> \/ p \in found \cup todo
                                \/ p \in Below /\ kind = "posix" /\ "directory" \in todo
  BY DEF Lists, Pending
<1>3. thread'[t].found = found /\ thread'[t].todo = todo /\ thread'[t].req = thread[t].req /\ kind' = kind
  BY DEF Lists
<1>4. QED
  BY <1>1, <1>2, <1>3 DEF Regular

LEMMA ListingKeeps ==
    ASSUME TypeOK, Control, NEW t \in Threads, ListFor(t), Listing(t),
           thread[t].pc # "idle" => thread[t].since \in 1 .. Len(names)
    PROVE  ListFor(t)'
<1>0. "directory" \notin Paths /\ "directory" \notin Existing /\ Existing \subseteq Paths
  BY FilesAssumption, EntriesTypes
<1> DEFINE old == thread[t]
<1>1. CASE ListStart(t)
  <2>1. old.pc = "list" /\ Lists(t, "next", TopLevel, old.found)
    BY <1>1, ListStartEffect
  <2>2. old.found = {} /\ kind \in {"posix", "gio"}
    BY <2>1 DEF ListFor, Control, Placed, TypeOK
  <2>3. /\ \A p \in Existing : WasThere(t, p)
        /\ \A p \in Paths : Stayed(t, p) => p \in Existing
    BY <2>1, NowDuring
  <2>4. \A e \in (old.found \cup TopLevel) \ {"directory"} : WasThere(t, e)
    BY <2>2, <2>3 DEF TopLevel, Directory
  <2>5. ASSUME NEW p \in old.req.match \cap Paths, Stayed(t, p), kind = "gio" => p \notin Below
        PROVE  \/ p \in old.found \cup TopLevel
               \/ p \in Below /\ kind = "posix" /\ "directory" \in TopLevel
    <3>1. p \in Existing
      BY <2>3, <2>5
    <3>2. CASE p \notin Below
      BY <3>1, <3>2 DEF TopLevel
    <3>3. CASE p \in Below
      <4>1. Len(names) \in DOMAIN names
        BY NowType, LenProperties DEF TypeOK
      <4>2. "directory" \in Directory
        BY <3>1, <3>3, <4>1 DEF Directory, Existing, Now
      <4>3. QED
        BY <2>2, <2>5, <3>3, <4>2 DEF TopLevel
    <3>4. QED
      BY <3>2, <3>3
  <2>6. Regular(t)'
    BY <2>1, <2>4, <2>5, ListsRegular
  <2>7. thread'[t].pc = "next"
    BY <2>1 DEF Lists
  <2>8. QED
    BY <2>6, <2>7 DEF ListFor
<1>2. ASSUME old.pc = "next" PROVE Regular(t) /\ \A p \in Existing : WasThere(t, p)
  BY <1>2, NowDuring DEF ListFor
<1>3. CASE ListNew(t)
  <2>1. PICK p \in Existing : Lists(t, "next", old.todo \cup {p}, old.found)
    BY <1>3, ListNewEffect
  <2>2. Regular(t) /\ WasThere(t, p)
    BY <1>2, <1>3, ListNewEffect
  <2>3. \A e \in (old.found \cup (old.todo \cup {p})) \ {"directory"} : WasThere(t, e)
    BY <2>2 DEF Regular
  <2>4. \A q \in old.req.match \cap Paths :
            Stayed(t, q) /\ (kind = "gio" => q \notin Below) =>
               \/ q \in old.found \cup (old.todo \cup {p})
               \/ q \in Below /\ kind = "posix" /\ "directory" \in old.todo \cup {p}
    BY <2>2 DEF Regular, Pending
  <2>5. Regular(t)'
    BY <2>1, <2>3, <2>4, ListsRegular
  <2>6. thread'[t].pc = "next"
    BY <2>1 DEF Lists
  <2>7. QED
    BY <2>5, <2>6 DEF ListFor
<1>4. CASE ListEnd(t)
  <2>1. old.pc = "next" /\ old.todo = {} /\ Lists(t, "listed", old.todo, old.found)
    BY <1>4, ListEndEffect
  <2>2. Regular(t)
    BY <1>2, <2>1
  <2>3. Regular(t)'
    BY <2>1, <2>2, ListsRegular DEF Regular, Pending
  <2>4. thread'[t].pc = "listed" /\ thread'[t].todo = {}
    BY <2>1 DEF Lists
  <2>5. QED
    BY <2>3, <2>4 DEF ListFor
<1>5. CASE ListReply(t)
  <2>1. thread'[t].pc = "idle"
    BY <1>5, FinishEffect DEF ListReply
  <2>2. QED
    BY <2>1 DEF ListFor
<1>6. CASE ListNext(t)
  <2>0. /\ Regular(t) /\ \A p \in Existing : WasThere(t, p)
        /\ \A p \in Paths : Stayed(t, p) => p \in Existing
    BY <1>2, <1>6, ListNextEffect, NowDuring
  <2>1. CASE kind = "posix" /\ Lists(t, "next", Descend(t), old.found)
    <3>1. \A e \in (old.found \cup Descend(t)) \ {"directory"} : WasThere(t, e)
      BY <2>0 DEF Regular, Descend
    <3>2. \A p \in old.req.match \cap Paths :
              Stayed(t, p) /\ (kind = "gio" => p \notin Below) => p \in old.found \cup Descend(t)
      BY <1>0, <2>0, <2>1 DEF Regular, Pending, Descend
    <3>3. Regular(t)' /\ thread'[t].pc = "next"
      BY <2>1, <3>1, <3>2, ListsRegular DEF Lists
    <3>4. QED
      BY <3>3 DEF ListFor
  <2>2. ASSUME NEW e \in old.todo, NEW found \in SUBSET Entries,
               ~(e = "directory" /\ kind = "posix"), Lists(t, "next", old.todo \ {e}, found),
               \/ found = old.found \cup {e}
               \/ found = old.found /\ (e \notin old.req.match \/ Now[e] = NULL)
        PROVE  ListFor(t)'
    <3>1. \A x \in (found \cup (old.todo \ {e})) \ {"directory"} : WasThere(t, x)
      BY <2>0, <2>2 DEF Regular
    <3>2. ASSUME NEW p \in old.req.match \cap Paths, Stayed(t, p), kind = "gio" => p \notin Below
          PROVE  \/ p \in found \cup (old.todo \ {e})
                 \/ p \in Below /\ kind = "posix" /\ "directory" \in old.todo \ {e}
      <4>1. Pending(t, p) /\ Now[p] # NULL
        BY <2>0, <3>2 DEF Regular, Existing
      <4>2. CASE p = e
        BY <2>2, <3>2, <4>1, <4>2
      <4>3. CASE p # e
        BY <2>2, <4>1, <4>3 DEF Pending
      <4>4. QED
        BY <4>2, <4>3
    <3>3. Regular(t)'
      BY <2>2, <3>1, <3>2, ListsRegular
    <3>4. thread'[t].pc = "next"
      BY <2>2 DEF Lists
    <3>5. QED
      BY <3>3, <3>4 DEF ListFor
  <2>3. QED
    BY <1>6, <2>1, <2>2, ListNextEffect
<1>7. QED
  BY <1>1, <1>3, <1>4, <1>5, <1>6 DEF Listing

LEMMA NextLists ==
    ASSUME TypeOK, Control, Fresh, ListsRegularly, [Next]_vars PROVE ListsRegularly'
<1>0. ASSUME NEW t \in Threads, thread'[t] = thread[t], kind' = kind, History PROVE ListFor(t)'
  <2>1. ListFor(t) /\ (thread[t].pc # "idle" => thread[t].since \in 1 .. Len(names))
    BY DEF ListsRegularly, Fresh, FreshFor
  <2>2. thread[t].pc \in {"next", "listed"} => Regular(t)'
    BY <1>0, <2>1, RegularKept DEF ListFor
  <2>3. QED
    BY <1>0, <2>1, <2>2 DEF ListFor
<1>1. CASE UNCHANGED vars
  BY <1>0, <1>1 DEF vars, ListsRegularly, History
<1>2. CASE Next
  <2>1. PICK t \in Threads : Step(t) \/ Failing(t) \/ \E r \in Requests[t] : Receive(t, r)
    BY <1>2 DEF Next
  <2>2. Does(t)
    BY <2>1, StepControl
  <2>3. Only(t) /\ kind' = kind /\ History
    BY <2>2, StepHistory
  <2>4. \A u \in Threads \ {t} : ListFor(u)'
    BY <1>0, <2>3 DEF Only
  <2>5. ListFor(t)'
    <3>1. CASE \E r \in Requests[t] : Receive(t, r)
      <4>1. PICK r \in Requests[t] : Receive(t, r)
        BY <3>1
      <4>2. thread'[t].pc \in {"list", "get"} /\ thread'[t].found = {}
        BY <4>1, ReceiveEffect
      <4>3. QED
        BY <4>2 DEF ListFor
    <3>2. CASE Listing(t)
      BY <3>2, ListingKeeps DEF ListsRegularly, Fresh, FreshFor
    <3>3. CASE Gets(t) \/ (\E h \in Handles : OpensObject(t, h)) \/ Closes(t)
      BY <3>3 DEF Gets, OpensObject, Closes, ListFor
    <3>4. CASE Working(t) \/ Failing(t)
      <4>1. thread'[t].pc \in {"work", "close"}
        BY <3>4, AllWork DEF WorkEffect
      <4>2. QED
        BY <4>1 DEF ListFor
    <3>5. QED
      BY <2>2, <3>1, <3>2, <3>3, <3>4 DEF Does
  <2>6. QED
    BY <2>4, <2>5 DEF ListsRegularly
<1>3. QED
  BY <1>1, <1>2

LEMMA ListsImplyRegular == ASSUME ListsRegularly PROVE ListingIsRegular
<1>1. ASSUME NEW t \in Threads, thread[t].pc = "listed"
      PROVE  /\ \A e \in thread[t].found \ {"directory"} :
                   \E k \in thread[t].since .. Len(names) : names[k][e] # NULL
             /\ \A p \in thread[t].req.match \cap Paths :
                   /\ \A k \in thread[t].since .. Len(names) : names[k][p] # NULL
                   /\ kind = "gio" => p \notin Below
                   => p \in thread[t].found
  <2>1. Regular(t) /\ thread[t].todo = {}
    BY <1>1 DEF ListsRegularly, ListFor
  <2>2. QED
    BY <2>1 DEF Regular, WasThere, Stayed, During, Pending
<1>2. QED
  BY <1>1 DEF ListingIsRegular

(* Listing the objects while others are created and deleted, with any      *)
(* number of threads and names: what was there all the time is found, and  *)
(* nothing that never was; GIO leaves out what lies below a directory.     *)
THEOREM RegularListings == Spec => []ListingIsRegular
<1>1. Init => Fresh /\ ListsRegularly
  <2>1. Idle.pc = "idle"
    BY DEF Idle
  <2>2. QED
    BY <2>1 DEF Init, Fresh, ListsRegularly, ListFor
<1>2. TypeOK /\ Control /\ Fresh /\ ListsRegularly /\ [Next]_vars => Fresh' /\ ListsRegularly'
  BY NextFresh, NextLists
<1>3. ListsRegularly => ListingIsRegular
  BY ListsImplyRegular
<1>4. QED
  BY <1>1, <1>2, <1>3, ControlInvariance, PTL DEF Spec
=============================================================================
