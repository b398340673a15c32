---------------------------- MODULE ObjectFiles ----------------------------
(***************************************************************************)
(* The object backends below the server: backend/object/posix.c with its   *)
(* cache of open files, backend/object/gio.c and backend/object/rados.c,   *)
(* as the object handlers of server/loop.c use them.  Every connection has *)
(* a thread, and a thread handles one message at a time: it creates or     *)
(* opens the object, works on it and closes or deletes it.                 *)
(*                                                                         *)
(* The POSIX backend keeps one JBackendObject per path.  A thread finds it *)
(* in its own table (files) or in the global one (cache), which is locked  *)
(* by backend_file_get and stays locked until backend_file_add when        *)
(* nothing is found there.  The last thread that lets go of an object      *)
(* closes and frees it; its address may then be used again.                *)
(*                                                                         *)
(* A file is a number, its contents are its size.  Transfers are the loops *)
(* around pread and pwrite, with counters of 2^Width values.               *)
(***************************************************************************)
EXTENDS Integers, Sequences, FiniteSets

CONSTANTS Threads,       \* the server's threads
          Paths,         \* names of objects in the namespace
          Below,         \* the names that have a directory in them
          Handles,       \* addresses of JBackendObject
          Kinds,         \* backends to choose from
          Requests,      \* Requests[t]: the messages t may get
          Width,         \* bits of gsize and guint64
          MaxRequests,   \* bound: MaxRequests[t], messages of a thread
          MaxInterrupts, \* bound: interrupted system calls
          NULL           \* no file, no object, nobody

Types == {"CREATE", "DELETE", "READ", "WRITE", "STATUS", "LIST"}
Objects == [path : Paths, file : Nat \cup {NULL}, ref : Nat] \* JBackendObject

(* There is memory for an object of every thread, and a buffer is shorter  *)
(* than the largest number there is.                                       *)
ASSUME FilesAssumption ==
    /\ NULL \notin Threads \cup Handles \cup Nat \cup Objects
    /\ IsFiniteSet(Threads) /\ IsFiniteSet(Handles) /\ Cardinality(Threads) <= Cardinality(Handles)
    /\ Below \subseteq Paths /\ "directory" \notin Paths
    /\ Width \in Nat /\ 2 ^ Width \in Nat \ {0} /\ MaxRequests \in [Threads -> Nat]
    /\ Kinds \subseteq {"posix", "gio", "rados"}
    /\ \A t \in Threads : \A r \in Requests[t] :
          /\ r.type \in Types /\ r.path \in Paths
          /\ r.len \in Nat /\ r.off \in Nat /\ r.len + 1 < 2 ^ Width

VARIABLES kind,      \* the configured backend
          names,     \* the states of the namespace so far: which file has which name
          size,      \* size[i]: the size of file i
          object,    \* object[h]: the JBackendObject at h, or NULL
          cache,     \* cache[p]: jd_backend_file_cache
          files,     \* files[t][p]: jd_backend_files of the thread
          lock,      \* who holds the lock of jd_backend_file_cache
          thread,    \* thread[t]: the message being handled
          interrupts

cacheVars == <<object, cache, files, lock>>
vars == <<kind, names, size, object, cache, files, lock, thread, interrupts>>

Now == names[Len(names)]
NoNames == [p \in Paths |-> NULL]

Idle == [pc |-> "idle", n |-> 0, req |-> NULL, obj |-> NULL, total |-> 0, ret |-> FALSE,
         early |-> FALSE, failed |-> FALSE, moved |-> {}, since |-> 1, alone |-> FALSE, todo |-> {}, listed |-> {}, found |-> {}]

Init ==
    /\ kind \in Kinds
    /\ names = << NoNames >>
    /\ size = <<>>
    /\ object = [h \in Handles |-> NULL]
    /\ cache = NoNames
    /\ files = [t \in Threads |-> NoNames]
    /\ lock = NULL
    /\ thread = [t \in Threads |-> Idle]
    /\ interrupts = 0

Path(t) == thread[t].req.path
Type(t) == thread[t].req.type
At(t, pc) == thread[t].pc = pc
Go(t, pc) == thread' = [thread EXCEPT ![t].pc = pc]

(* The message is over; ret is what the backend's last call answered.      *)
Finish(t, ret) == thread' = [thread EXCEPT ![t] = [Idle EXCEPT !.n = thread[t].n, !.ret = ret]]

(* The file a thread works on: the open one, or with RADOS whatever has    *)
(* the name at the moment.                                                 *)
FileOf(t) == IF kind = "rados" THEN Now[Path(t)] ELSE object[thread[t].obj].file

-----------------------------------------------------------------------------
(* A message arrives.  The RADOS backend has no functions to list objects, *)
(* a server that uses it must not be asked for them.                       *)

(* Nobody is at work on p.                                                 *)
Alone(p) == \A u \in Threads : At(u, "idle") \/ Path(u) # p

Receive(t, r) ==
    /\ At(t, "idle") /\ thread[t].n < MaxRequests[t]
    /\ r.type = "LIST" => kind # "rados"
    /\ thread' = [thread EXCEPT ![t] =
          [Idle EXCEPT !.n = thread[t].n + 1, !.req = r, !.since = Len(names),
                       !.alone = Alone(r.path),
                       !.pc = IF r.type = "LIST" THEN "list" ELSE "get"]]
    /\ UNCHANGED <<kind, names, size, object, cache, files, lock, interrupts>>

-----------------------------------------------------------------------------
(* Opening.                                                                *)

NewFile == Len(size) + 1

(* open(2), with O_CREAT for j_backend_object_create.  GIO refuses to      *)
(* create an object that exists, RADOS empties it.                         *)
Opens(t) ==
    CASE kind = "posix" -> Type(t) = "CREATE" \/ Now[Path(t)] # NULL
      [] kind = "gio" -> IF Type(t) = "CREATE" THEN Now[Path(t)] = NULL ELSE Now[Path(t)] # NULL
      [] kind = "rados" -> TRUE

Makes(t) == Type(t) = "CREATE" /\ Now[Path(t)] = NULL

(* The file system after the call, and the file that was opened.           *)
OpenFile(t) ==
    IF Makes(t)
    THEN /\ names' = Append(names, [Now EXCEPT ![Path(t)] = NewFile])
         /\ size' = Append(size, 0)
    ELSE /\ UNCHANGED names
         /\ size' = IF kind = "rados" /\ Type(t) = "CREATE" THEN [size EXCEPT ![Now[Path(t)]] = 0] ELSE size

Opened(t) == IF Makes(t) THEN NewFile ELSE Now[Path(t)]

(* Faulty: the lock is given back before the file is opened.               *)
LockDropped(t) == NULL

LockKept(t) == t

(* backend_file_get: the object from the thread's own table, where no      *)
(* reference is counted, or from the global one, where one is.  The lock   *)
(* is kept when it is not there either.                                    *)
FileGet(t) ==
    LET own == files[t][Path(t)]
        shared == cache[Path(t)] IN
    /\ kind = "posix" /\ At(t, "get")
    /\ IF own # NULL
       THEN /\ thread' = [thread EXCEPT ![t].pc = "work", ![t].obj = own]
            /\ UNCHANGED <<object, files, lock>>
       ELSE /\ lock = NULL
            /\ IF shared # NULL
               THEN /\ object' = [object EXCEPT ![shared].ref = @ + 1]
                    /\ files' = [files EXCEPT ![t][Path(t)] = shared]
                    /\ thread' = [thread EXCEPT ![t].pc = "work", ![t].obj = shared]
                    /\ UNCHANGED lock
               ELSE /\ lock' = LockKept(t)
                    /\ Go(t, "open")
                    /\ UNCHANGED <<object, files>>
    /\ UNCHANGED <<kind, names, size, cache, interrupts>>

(* The address of a new object: any that is not in use.                    *)
Allocate == CHOOSE h \in Handles : object[h] = NULL

(* Faulty: backend_file_add is not called when the file cannot be opened.  *)
KeepLock(t) == lock

ReleaseLock(t) == NULL

(* open and backend_file_add with what was opened, or with NULL.           *)
FileAdd(t) ==
    /\ kind = "posix" /\ At(t, "open")
    /\ IF Opens(t)
       THEN LET h == Allocate IN
               /\ object' = [object EXCEPT ![h] = [path |-> Path(t), file |-> Opened(t), ref |-> 1]]
               /\ cache' = [cache EXCEPT ![Path(t)] = h]
               /\ files' = [files EXCEPT ![t][Path(t)] = h]
               /\ thread' = [thread EXCEPT ![t].pc = "work", ![t].obj = h]
               /\ OpenFile(t)
               /\ lock' = NULL
       ELSE /\ Finish(t, FALSE)
            /\ lock' = ReleaseLock(t)
            /\ UNCHANGED <<names, size, object, cache, files>>
    /\ UNCHANGED <<kind, interrupts>>

(* backend_create and backend_open of GIO and RADOS: an object of one's    *)
(* own.                                                                    *)
Open(t) ==
    /\ kind # "posix" /\ At(t, "get")
    /\ IF Opens(t)
       THEN LET h == Allocate IN
               /\ object' = [object EXCEPT ![h] = [path |-> Path(t), file |-> Opened(t), ref |-> 1]]
               /\ thread' = [thread EXCEPT ![t].pc = "work", ![t].obj = h]
               /\ OpenFile(t)
       ELSE /\ Finish(t, FALSE)
            /\ UNCHANGED <<names, size, object>>
    /\ UNCHANGED <<kind, cache, files, lock, interrupts>>

-----------------------------------------------------------------------------
(* Closing.                                                                *)

(* Faulty: the object stays in the table of the thread.                    *)
KeepFile(t) == files

DropFile(t) == [files EXCEPT ![t][object[thread[t].obj].path] = NULL]

(* backend_close, and the end of backend_delete: the object is taken out   *)
(* of the thread's table, which calls backend_file_unref.                  *)
Close(t) ==
    LET h == thread[t].obj IN
    /\ kind = "posix" /\ At(t, "close") /\ lock = NULL
    /\ files' = DropFile(t)
    /\ IF files' = files THEN UNCHANGED <<object, cache>>
       ELSE IF object[h].ref = 1
       THEN /\ cache' = [cache EXCEPT ![object[h].path] = NULL]
            /\ object' = [object EXCEPT ![h] = NULL]
       ELSE /\ object' = [object EXCEPT ![h].ref = @ - 1]
            /\ UNCHANGED cache
    /\ Finish(t, thread[t].ret)
    /\ UNCHANGED <<kind, names, size, lock, interrupts>>

CloseOwn(t) ==
    /\ kind # "posix" /\ At(t, "close")
    /\ object' = [object EXCEPT ![thread[t].obj] = NULL]
    /\ Finish(t, thread[t].ret)
    /\ UNCHANGED <<kind, names, size, cache, files, lock, interrupts>>

-----------------------------------------------------------------------------
(* Working on an object.                                                   *)

Create(t) ==
    /\ At(t, "work") /\ Type(t) = "CREATE"
    /\ thread' = [thread EXCEPT ![t].pc = "close", ![t].ret = TRUE]
    /\ UNCHANGED <<kind, names, size, object, cache, files, lock, interrupts>>

(* backend_delete: the name is removed, whatever file it belongs to now.   *)
Delete(t) ==
    /\ At(t, "work") /\ Type(t) = "DELETE"
    /\ names' = IF Now[Path(t)] = NULL THEN names ELSE Append(names, [Now EXCEPT ![Path(t)] = NULL])
    /\ thread' = [thread EXCEPT ![t].pc = "close", ![t].ret = Now[Path(t)] # NULL]
    /\ UNCHANGED <<kind, size, object, cache, files, lock, interrupts>>

(* fstat of the open file; GIO and RADOS ask for the name.                 *)
StatusFile(t) == IF kind = "posix" THEN FileOf(t) ELSE Now[Path(t)]

Status(t) ==
    LET i == StatusFile(t) IN
    /\ At(t, "work") /\ Type(t) = "STATUS"
    /\ thread' = [thread EXCEPT ![t].pc = "close", ![t].ret = i # NULL,
                                ![t].total = IF i = NULL THEN 0 ELSE size[i]]
    /\ UNCHANGED <<kind, names, size, object, cache, files, lock, interrupts>>

-----------------------------------------------------------------------------
(* backend_read and backend_write: the loops around pread and pwrite.      *)

Least(a, b) == IF a < b THEN a ELSE b
Wrap(n) == n % (2 ^ Width)
Wanted(t) == thread[t].req.len
Offset(t) == thread[t].req.off
Transfers(t) == At(t, "work") /\ Type(t) \in {"READ", "WRITE"}
Loops(t) == Transfers(t) /\ thread[t].total < Wanted(t)

Available(t) ==
    IF FileOf(t) = NULL THEN 0
    ELSE IF size[FileOf(t)] > Offset(t) + thread[t].total
         THEN size[FileOf(t)] - Offset(t) - thread[t].total ELSE 0

(* Faulty: the total is what the last call did.                            *)
LastTotal(t, n) == Wrap(n)

AddTotal(t, n) == Wrap(thread[t].total + n)

(* The call transfers n bytes of the buffer, maybe fewer than it was asked *)
(* for.                                                                    *)
Moved(t, n) == thread[t].moved \cup (thread[t].total .. thread[t].total + n - 1)

PRead(t) ==
    /\ Loops(t) /\ Type(t) = "READ" /\ kind = "posix"
    /\ \E n \in 1 .. Wanted(t) - thread[t].total :
          /\ n <= Available(t)
          /\ thread' = [thread EXCEPT ![t].total = AddTotal(t, n), ![t].moved = Moved(t, n)]
    /\ UNCHANGED <<kind, names, size, object, cache, files, lock, interrupts>>

PWrite(t) ==
    /\ Loops(t) /\ Type(t) = "WRITE" /\ kind = "posix"
    /\ \E n \in 1 .. Wanted(t) - thread[t].total :
          LET end == Offset(t) + thread[t].total + n IN
          /\ size' = [size EXCEPT ![FileOf(t)] = IF end > @ THEN end ELSE @]
          /\ thread' = [thread EXCEPT ![t].total = AddTotal(t, n), ![t].moved = Moved(t, n)]
    /\ UNCHANGED <<kind, names, object, cache, files, lock, interrupts>>

(* EINTR: the call returned -1, which is added to the total before the     *)
(* loop goes on.                                                           *)
Interrupted(t) ==
    /\ Loops(t) /\ kind = "posix" /\ interrupts < MaxInterrupts
    /\ interrupts' = interrupts + 1
    /\ thread' = [thread EXCEPT ![t].total = AddTotal(t, -1), ![t].early = @ \/ thread[t].total = 0]
    /\ UNCHANGED <<kind, names, size, object, cache, files, lock>>

(* The loop is over: all there is, or all that was wanted, is transferred. *)
TransferEnd(t) ==
    /\ Transfers(t) /\ kind = "posix"
    /\ ~Loops(t) \/ (Type(t) = "READ" /\ Available(t) = 0)
    /\ thread' = [thread EXCEPT ![t].pc = "close", ![t].ret = thread[t].total = Wanted(t)]
    /\ UNCHANGED <<kind, names, size, object, cache, files, lock, interrupts>>

(* Any other error of pread or pwrite, a full or a broken disk, leaves the *)
(* loop with what was transferred so far.                                  *)
LoopBreaks(t) ==
    /\ Loops(t) /\ kind = "posix"
    /\ thread' = [thread EXCEPT ![t].pc = "close", ![t].ret = FALSE, ![t].failed = TRUE]
    /\ UNCHANGED <<kind, names, size, object, cache, files, lock, interrupts>>

(* g_input_stream_read_all and g_output_stream_write_all fail after some   *)
(* bytes, rados_read and rados_write as a whole: the count is left alone.  *)
LibraryFails(t) ==
    /\ Transfers(t) /\ kind # "posix"
    /\ \E n \in 0 .. (IF kind = "gio" THEN Wanted(t) - 1 ELSE 0) :
          /\ Type(t) = "READ" => n <= Available(t)
          /\ thread' = [thread EXCEPT ![t].pc = "close", ![t].ret = FALSE, ![t].failed = TRUE,
                                      ![t].total = n, ![t].moved = 0 .. n - 1]
          /\ size' = IF Type(t) = "WRITE" /\ n > 0 /\ Offset(t) + n > size[FileOf(t)]
                     THEN [size EXCEPT ![FileOf(t)] = Offset(t) + n] ELSE size
    /\ UNCHANGED <<kind, names, object, cache, files, lock, interrupts>>

(* GIO and RADOS leave the loop to their libraries.  RADOS makes the       *)
(* object when it is written to, and reading a missing one fails.          *)
Transfer(t) ==
    LET i == IF kind = "rados" /\ Now[Path(t)] = NULL THEN NewFile ELSE FileOf(t)
        end == Offset(t) + Wanted(t)
        old == IF i = NewFile THEN 0 ELSE size[i] IN
    /\ Transfers(t) /\ kind # "posix"
    /\ IF Type(t) = "READ"
       THEN /\ thread' = [thread EXCEPT ![t].pc = "close", ![t].ret = FileOf(t) # NULL,
                  ![t].total = Least(Available(t), Wanted(t)),
                  ![t].moved = 0 .. Least(Available(t), Wanted(t)) - 1]
            /\ UNCHANGED <<names, size>>
       ELSE /\ thread' = [thread EXCEPT ![t].pc = "close", ![t].ret = TRUE, ![t].total = Wanted(t),
                                           ![t].moved = 0 .. Wanted(t) - 1]
            /\ names' = IF i = NewFile THEN Append(names, [Now EXCEPT ![Path(t)] = i]) ELSE names
            /\ size' = IF i = NewFile THEN Append(size, end)
                       ELSE [size EXCEPT ![i] = IF end > old THEN end ELSE old]
    /\ UNCHANGED <<kind, object, cache, files, lock, interrupts>>

-----------------------------------------------------------------------------
(* Listing the objects of the namespace with a prefix.                     *)

Existing == {p \in Paths : Now[p] # NULL}
Directory == IF \E k \in DOMAIN names : \E p \in Below : names[k][p] # NULL THEN {"directory"} ELSE {}
TopLevel == (Existing \ Below) \cup Directory

(* j_dir_iterator_new: the first directory is read.                        *)
ListStart(t) ==
    /\ At(t, "list")
    /\ thread' = [thread EXCEPT ![t].pc = "next", ![t].todo = TopLevel, ![t].listed = TopLevel]
    /\ UNCHANGED <<kind, names, size, object, cache, files, lock, interrupts>>

(* Faulty: a directory takes the place of what was still to be read.       *)
DescendInstead(t) == Existing \cap Below

(* j_dir_iterator_next descends into a directory and comes back.           *)
Descend(t) == (thread[t].todo \ {"directory"}) \cup (Existing \cap Below)

(* The next entry.  GIO does not descend, and names the directory.  An     *)
(* entry that was removed since the directory was read may be left out, a  *)
(* new one may be found.                                                   *)
ListNext(t) ==
    /\ At(t, "next")
    /\ \E e \in thread[t].todo :
          IF e = "directory" /\ kind = "posix"
          THEN thread' = [thread EXCEPT ![t].todo = Descend(t), ![t].listed = @ \cup Existing]
          ELSE \E skip \in BOOLEAN :
                  /\ skip => e # "directory" /\ Now[e] = NULL
                  /\ thread' = [thread EXCEPT ![t].todo = @ \ {e},
                        ![t].found = IF skip \/ e \notin thread[t].req.match THEN @ ELSE @ \cup {e}]
    /\ UNCHANGED <<kind, names, size, object, cache, files, lock, interrupts>>

ListNew(t) ==
    /\ At(t, "next")
    /\ \E p \in Existing \ (thread[t].listed \cup Below) :
          thread' = [thread EXCEPT ![t].todo = @ \cup {p}, ![t].listed = @ \cup {p}]
    /\ UNCHANGED <<kind, names, size, object, cache, files, lock, interrupts>>

ListEnd(t) ==
    /\ At(t, "next") /\ thread[t].todo = {}
    /\ thread' = [thread EXCEPT ![t].pc = "listed"]
    /\ UNCHANGED <<kind, names, size, object, cache, files, lock, interrupts>>

ListReply(t) ==
    /\ At(t, "listed")
    /\ Finish(t, TRUE)
    /\ UNCHANGED <<kind, names, size, object, cache, files, lock, interrupts>>

-----------------------------------------------------------------------------
Opening(t) == FileGet(t) \/ FileAdd(t) \/ Open(t)
Working(t) ==
    \/ Create(t) \/ Delete(t) \/ Status(t)
    \/ PRead(t) \/ PWrite(t) \/ TransferEnd(t) \/ Transfer(t)
Listing(t) == ListStart(t) \/ ListNext(t) \/ ListNew(t) \/ ListEnd(t) \/ ListReply(t)
Step(t) == Opening(t) \/ Working(t) \/ Listing(t) \/ Close(t) \/ CloseOwn(t)

Failing(t) == Interrupted(t) \/ LoopBreaks(t) \/ LibraryFails(t)

Next == \E t \in Threads : Step(t) \/ Failing(t) \/ \E r \in Requests[t] : Receive(t, r)

(* The threads of the server do not stop while one of them can run.        *)
Fairness == WF_vars(\E t \in Threads : Step(t))

Spec == Init /\ [][Next]_vars /\ Fairness

-----------------------------------------------------------------------------
(* Properties.                                                             *)

Holders(h) == {t \in Threads : \E p \in Paths : files[t][p] = h}

(* The POSIX cache.  An object exists exactly as long as a thread has it   *)
(* in its table, ref_count is the number of these threads, the global      *)
(* table has it under its path, and a thread between two messages has      *)
(* none: nothing is used after it was closed, and the assertion of         *)
(* backend_fini that the cache is empty holds.                             *)
HandlesAreExact ==
    kind = "posix" =>
        /\ \A h \in Handles :
              IF object[h] = NULL THEN Holders(h) = {} /\ \A p \in Paths : cache[p] # h
              ELSE /\ object[h].ref = Cardinality(Holders(h)) /\ object[h].ref > 0
                   /\ \A p \in Paths : cache[p] = h <=> p = object[h].path
        /\ \A t \in Threads :
              /\ thread[t].pc \in {"work", "close"} => files[t][Path(t)] = thread[t].obj
              /\ thread[t].pc \notin {"work", "close"} => files[t] = NoNames

Unlinked(p, since) ==
    \E k \in since .. Len(names) - 1 : names[k][p] # NULL /\ names[k + 1][p] = NULL

(* A message that finds nobody else at work on its object, and during      *)
(* which the object is not deleted, works on the file that has the name:   *)
(* the cache never hands out a file that was deleted before.  With another *)
(* thread at work it may: then even j_backend_object_create succeeds on    *)
(* the deleted file, and there is no object afterwards.                    *)
WorksOnTheNamedFile ==
    \A t \in Threads :
        At(t, "work") /\ kind # "rados" /\ thread[t].alone /\ ~Unlinked(Path(t), thread[t].since)
            => FileOf(t) = Now[Path(t)]

(* The bytes counted by a read or write were moved, without a gap, in      *)
(* whatever pieces pread and pwrite move them, and also when they are      *)
(* interrupted; no others were, unless a call failed; and a write that     *)
(* succeeds, or of which no call failed, moves all.  An interruption       *)
(* before the first counted byte makes the count the largest number there  *)
(* is.                                                                     *)
TransferIsExact ==
    \A t \in Threads : thread[t].pc = "close" /\ Type(t) \in {"READ", "WRITE"} =>
        IF thread[t].early THEN thread[t].total = 2 ^ Width - 1 /\ ~thread[t].ret
        ELSE /\ 0 .. thread[t].total - 1 \subseteq thread[t].moved
             /\ ~thread[t].failed => thread[t].moved = 0 .. thread[t].total - 1
             /\ Type(t) = "WRITE" /\ (thread[t].ret \/ ~thread[t].failed) => thread[t].total = Wanted(t)

(* A listing has every matching object that was there all the time and     *)
(* none that never was; GIO leaves out what lies below a directory.        *)
ListingIsRegular ==
    \A t \in Threads : thread[t].pc = "listed" =>
        LET during == thread[t].since .. Len(names)
            match == thread[t].req.match IN
        /\ \A e \in thread[t].found \ {"directory"} : \E k \in during : names[k][e] # NULL
        /\ \A p \in match \cap Paths :
              (\A k \in during : names[k][p] # NULL) /\ (kind = "gio" => p \notin Below)
                 => p \in thread[t].found

(* Every message is handled to its end: the lock of the cache is always    *)
(* given back.                                                             *)
EveryMessageEnds == \A t \in Threads : ~At(t, "idle") ~> At(t, "idle")
=============================================================================
