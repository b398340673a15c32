--------------------------- MODULE ObjectProtocol ---------------------------
(***************************************************************************)
(* Client threads that execute object operations on one server: the exec   *)
(* functions of lib/object/jobject.c, the framing of lib/core/jmessage.c,  *)
(* the server's connection threads (server/server.c, server/loop.c) and    *)
(* what they need of the backend and of the memory chunk.                  *)
(*                                                                         *)
(* A request is what j_batch_execute_same hands to an exec function: a     *)
(* list of operations of one type on one object.  The pool appears through *)
(* the interface ConnectionPool implements, a FIFO of idle connections     *)
(* plus connections that may still be made.  A stream carries whole items: *)
(* a message with its header, or the payload of one write.                 *)
(***************************************************************************)
EXTENDS Naturals, Sequences, FiniteSets

CONSTANTS Threads,           \* client threads
          Connections,       \* max_count connections of the pool
          Objects,           \* object names
          Requests,          \* the requests a thread may execute
          max_operation_size, \* the client's limit for one operation, in blocks
          memory_chunk_size, \* the limit in the server's configuration
          MaxRequests,       \* bound: requests one thread executes
          MayCrash,          \* may the server process die at any time?
          NULL               \* no connection, no file, no message

Types == {"CREATE", "DELETE", "READ", "WRITE", "STATUS", "SYNC"}
Persistencies == {"NONE", "NETWORK", "STORAGE"}

(* A block range of a read or write; the other types only use the number   *)
(* of operations.  The functions of the API accept no empty range.         *)
Ranges == [length : Nat \ {0}, offset : Nat]

Min2(a, b) == IF a < b THEN a ELSE b
Max2(a, b) == IF a < b THEN b ELSE a

(* The operations j_object_read and j_object_write make of one call.       *)
Chunks(length, offset) ==
    [k \in 1 .. ((length + max_operation_size - 1) \div max_operation_size) |->
        [length |-> Min2(length - (k - 1) * max_operation_size, max_operation_size),
         offset |-> offset + (k - 1) * max_operation_size]]

Ids == Threads \X (1 .. MaxRequests)
Headers == [kind : {"header"}, id : Ids, req : Requests]

ASSUME ProtocolAssumption ==
    /\ Requests \subseteq [type : Types, object : Objects, ops : Seq(Ranges),
                           persistency : Persistencies]
    /\ \A r \in Requests : r.ops # <<>>
    /\ memory_chunk_size \in Nat \ {0} /\ max_operation_size \in Nat \ {0}
    /\ MaxRequests \in Nat /\ MayCrash \in BOOLEAN
    /\ NULL \notin Connections \cup Requests \cup Headers

VARIABLES idle,     \* the pool's queue of idle connections
          fresh,    \* connections the pool may still make
          up, down, \* up[c], down[c]: the two directions of connection c
          client,   \* client[t]: the state of the exec function of thread t
          server,   \* server[c]: the state of the thread serving c
          exists,   \* exists[o]: does the path of object o exist?
          size,     \* size[o]: blocks in its file
          unsynced, \* unsynced[o]: requests with changes to it not yet on disk
          alive,    \* is the server process up?
          progress, \* history: progress[id], how far the server is with it
          outcome,  \* history: outcome[id], the result of every operation
          issued    \* history: issued[id], the request itself

pool == <<idle, fresh>>
backend == <<exists, size, unsynced>>
history == <<progress, outcome, issued>>
vars == <<idle, fresh, up, down, client, server, exists, size, unsynced, alive, progress, outcome, issued>>

-----------------------------------------------------------------------------
(* When the server replies, decided alike by both sides.                   *)

(* Faulty: network persistency is taken for no persistency.                *)
ClientExpectsStorageReply(r) ==
    r.type \in {"READ", "STATUS"} \/ r.persistency = "STORAGE"

(* The exec functions wait for a reply...                                  *)
ClientExpectsReply(r) ==
    r.type \in {"READ", "STATUS"} \/ r.persistency \in {"NETWORK", "STORAGE"}

(* ...and jd_handle_message sends one.                                     *)
ServerReplies(r) ==
    r.type \in {"READ", "STATUS"} \/ r.persistency \in {"NETWORK", "STORAGE"}

Header(id, r) == [kind |-> "header", id |-> id, req |-> r]
Payload(id, n) == [kind |-> "payload", id |-> id, n |-> n]
Reply(id, results) == [id |-> id, results |-> results]

(* j_message_write: the message, then the data of its send list.           *)
Written(id, r) ==
    <<Header(id, r)>> \o
    (IF r.type = "WRITE" THEN [n \in DOMAIN r.ops |-> Payload(id, n)] ELSE <<>>)

Resting == [pc |-> "idle", n |-> 0, req |-> NULL, conn |-> NULL,
            results |-> <<>>, last |-> 0, ret |-> TRUE]
Listening == [pc |-> "receive", msg |-> NULL, i |-> 1, file |-> FALSE,
              reply |-> <<>>, used |-> 0]

Init ==
    /\ idle = <<>> /\ fresh = Connections
    /\ up = [c \in Connections |-> <<>>] /\ down = [c \in Connections |-> <<>>]
    /\ client = [t \in Threads |-> Resting]
    /\ server = [c \in Connections |-> Listening]
    /\ exists = [o \in Objects |-> FALSE]
    /\ size = [o \in Objects |-> 0]
    /\ unsynced = [o \in Objects |-> {}]
    /\ alive = TRUE
    /\ progress = [id \in Ids |-> "none"]
    /\ outcome = [id \in Ids |-> <<>>]
    /\ issued = [id \in Ids |-> NULL]

-----------------------------------------------------------------------------
(* The client: j_object_{create,delete,read,write,status,sync}_exec.       *)

IdOf(t) == <<t, client[t].n>>

(* The message is built for request r.                                     *)
Begin(t, r, results) ==
    /\ client[t].pc = "idle"
    /\ client[t].n < MaxRequests
    /\ client' = [client EXCEPT ![t] =
          [pc |-> "pop", n |-> @.n + 1, req |-> r, conn |-> NULL, results |-> results,
           last |-> 0, ret |-> TRUE]]
    /\ issued' = [issued EXCEPT ![<<t, client[t].n + 1>>] = r]
    /\ UNCHANGED <<pool, up, down, server, backend, alive, progress, outcome>>

CreateExec(t, r) == r.type = "CREATE" /\ Begin(t, r, <<>>)
DeleteExec(t, r) == r.type = "DELETE" /\ Begin(t, r, <<>>)
ReadExec(t, r) == r.type = "READ" /\ Begin(t, r, <<>>)
StatusExec(t, r) == r.type = "STATUS" /\ Begin(t, r, <<>>)
SyncExec(t, r) == r.type = "SYNC" /\ Begin(t, r, <<>>)

(* A write without persistency adds the lengths to bytes_written at once:  *)
(* nothing will tell it what was written.                                  *)
WriteExec(t, r) ==
    /\ r.type = "WRITE"
    /\ Begin(t, r, IF r.persistency = "NONE" THEN [n \in DOMAIN r.ops |-> r.ops[n].length]
                   ELSE <<>>)

(* j_connection_pool_pop.  A connect to a dead server fails, keeps its     *)
(* slot, and the thread goes on to wait for a connection to be pushed.     *)
PopConnection(t) ==
    /\ client[t].pc = "pop"
    /\ \/ /\ idle # <<>>
          /\ client' = [client EXCEPT ![t].pc = "send", ![t].conn = Head(idle)]
          /\ idle' = Tail(idle) /\ UNCHANGED fresh
       \/ /\ idle = <<>>
          /\ \E c \in fresh :
                /\ fresh' = fresh \ {c}
                /\ client' = IF alive
                             THEN [client EXCEPT ![t].pc = "send", ![t].conn = c]
                             ELSE client
          /\ UNCHANGED idle
    /\ UNCHANGED <<up, down, server, backend, alive, history>>

(* j_message_send; the result is ignored, so sending to a dead server goes *)
(* unnoticed.                                                              *)
Send(t) ==
    /\ client[t].pc = "send"
    /\ LET me == client[t] IN
       /\ up' = [up EXCEPT ![me.conn] = IF alive THEN @ \o Written(IdOf(t), me.req) ELSE @]
       /\ client' = [client EXCEPT ![t].pc =
             IF ClientExpectsReply(me.req) THEN "receive" ELSE "push"]
    /\ UNCHANGED <<pool, down, server, backend, alive, history>>

(* What the exec functions make of the results in one reply.               *)
DeleteReply(me, results) ==
    [me EXCEPT !.pc = "push", !.ret = \A i \in DOMAIN results : results[i] = 1]

ReadReply(me, results) ==
    IF results = <<>> THEN [me EXCEPT !.pc = "push", !.ret = FALSE]
    ELSE [me EXCEPT !.results = @ \o results, !.last = Len(results),
                    !.pc = IF Len(me.results) + Len(results) < Len(me.req.ops)
                           THEN "receive" ELSE "push"]

WriteReply(me, results) ==
    [me EXCEPT !.pc = "push", !.results = results, !.ret = results # <<>>]

StatusReply(me, results) == [me EXCEPT !.pc = "push", !.results = results]

IgnoredReply(me, results) == [me EXCEPT !.pc = "push"]

Digest(me, results) ==
    CASE me.req.type = "DELETE" -> DeleteReply(me, results)
      [] me.req.type = "READ" -> ReadReply(me, results)
      [] me.req.type = "WRITE" -> WriteReply(me, results)
      [] me.req.type = "STATUS" -> StatusReply(me, results)
      [] OTHER -> IgnoredReply(me, results)

Zeros(n) == [i \in 1 .. n |-> 0]

(* The reply cannot be received, which no exec function checks.  The       *)
(* header of the reply stays what it was: empty, or in a later round of a  *)
(* read that of the previous reply, whose operations are counted again.    *)
(* Values past the end of the message are read as 0.                       *)
Miss(me) ==
    CASE me.req.type = "STATUS" -> Digest(me, Zeros(Len(me.req.ops)))
      [] me.req.type = "READ" ->
            LET rest == Len(me.req.ops) - Len(me.results)
            IN  Digest(me, Zeros(Min2(me.last, rest)))
      [] OTHER -> Digest(me, <<>>)

(* j_message_receive on the reply, and the loop over its operations.       *)
Receive(t) ==
    /\ client[t].pc = "receive"
    /\ LET c == client[t].conn IN
       \/ /\ down[c] # <<>>
          /\ client' = [client EXCEPT ![t] = Digest(@, Head(down[c]).results)]
          /\ down' = [down EXCEPT ![c] = Tail(@)]
       \/ /\ down[c] = <<>> /\ ~alive
          /\ client' = [client EXCEPT ![t] = Miss(@)]
          /\ UNCHANGED down
    /\ UNCHANGED <<pool, up, server, backend, alive, history>>

(* j_connection_pool_push, then the exec function returns.                 *)
PushConnection(t) ==
    /\ client[t].pc = "push"
    /\ idle' = Append(idle, client[t].conn)
    /\ client' = [client EXCEPT ![t].pc = "idle", ![t].conn = NULL]
    /\ UNCHANGED <<fresh, up, down, server, backend, alive, history>>

-----------------------------------------------------------------------------
(* The backend.  backend/object/posix.c keeps one handle per path, shared  *)
(* by the threads that have it open: while one does, opening or creating   *)
(* the path returns that handle, even when the file was unlinked since.    *)
(* So an object never has two files at once, and server[c].file only says  *)
(* whether the thread of c holds the handle of its request's object.       *)

Held(o) == \E c \in Connections : server[c].file /\ server[c].msg.req.object = o

CanOpen(o) == exists[o] \/ Held(o)

(* pread returns what lies before the end of the file.                     *)
BytesRead(o, op) == IF op.offset < size[o] THEN Min2(op.length, size[o] - op.offset) ELSE 0

-----------------------------------------------------------------------------
(* The server: jd_on_run and jd_handle_message, one thread per connection. *)

(* Where data stands in the place of a header, which StreamAligned         *)
(* excludes, the thread waits for the length it makes of it: it is stuck.  *)

ServerReceive(c) ==
    /\ alive
    /\ server[c].pc = "receive"
    /\ up[c] # <<>> /\ Head(up[c]).kind = "header"
    /\ server' = [server EXCEPT ![c].pc = "open", ![c].msg = Head(up[c])]
    /\ up' = [up EXCEPT ![c] = Tail(@)]
    /\ progress' = [progress EXCEPT ![Head(up[c]).id] = "started"]
    /\ UNCHANGED <<pool, down, client, backend, alive, outcome, issued>>

(* j_backend_object_open, once for the message or once per operation.      *)
Open(c) ==
    /\ alive
    /\ server[c].pc = "open"
    /\ server[c].msg.req.type # "CREATE"
    /\ server' = [server EXCEPT ![c].pc = "op", ![c].file = CanOpen(server[c].msg.req.object)]
    /\ UNCHANGED <<pool, up, down, client, backend, alive, history>>

(* j_backend_object_create                                                 *)
Create(c) ==
    /\ alive
    /\ server[c].pc = "open"
    /\ server[c].msg.req.type = "CREATE"
    /\ LET o == server[c].msg.req.object IN
          IF CanOpen(o) THEN UNCHANGED backend
          ELSE /\ exists' = [exists EXCEPT ![o] = TRUE]
               /\ size' = [size EXCEPT ![o] = 0]
               /\ unsynced' = [unsynced EXCEPT ![o] = {server[c].msg.id}]
    /\ server' = [server EXCEPT ![c].pc = "op", ![c].file = TRUE]
    /\ UNCHANGED <<pool, up, down, client, alive, history>>

(* The operation is done with this result, which goes into the reply.      *)
Done(c, me, result) ==
    /\ outcome' = [outcome EXCEPT ![me.msg.id] = Append(@, result)]
    /\ server' = [server EXCEPT ![c] =
          [me EXCEPT !.i = @ + 1, !.reply = Append(@, result),
                     !.pc = IF me.i = Len(me.msg.req.ops) THEN "finish"
                            ELSE IF me.msg.req.type \in {"READ", "WRITE"} THEN "op" ELSE "open"]]

CreateOp(c) ==
    LET me == server[c] IN
    /\ alive /\ me.pc = "op" /\ me.msg.req.type = "CREATE"
    /\ unsynced' = IF me.msg.req.persistency = "STORAGE"
                   THEN [unsynced EXCEPT ![me.msg.req.object] = {}] ELSE unsynced
    /\ Done(c, [me EXCEPT !.file = FALSE], 0)
    /\ UNCHANGED <<pool, up, down, client, exists, size, alive, progress, issued>>

(* g_unlink fails when the path is already gone.                           *)
DeleteOp(c) ==
    LET me == server[c]
        o == me.msg.req.object
        status == IF me.file /\ exists[o] THEN 1 ELSE 0
    IN
    /\ alive /\ me.pc = "op" /\ me.msg.req.type = "DELETE"
    /\ exists' = IF me.file THEN [exists EXCEPT ![o] = FALSE] ELSE exists
    /\ Done(c, [me EXCEPT !.file = FALSE], status)
    /\ UNCHANGED <<pool, up, down, client, size, unsynced, alive, progress, issued>>

StatusOp(c) ==
    LET me == server[c] IN
    /\ alive /\ me.pc = "op" /\ me.msg.req.type = "STATUS"
    /\ Done(c, [me EXCEPT !.file = FALSE], IF me.file THEN size[me.msg.req.object] ELSE 0)
    /\ UNCHANGED <<pool, up, down, client, backend, alive, progress, issued>>

SyncOp(c) ==
    LET me == server[c] IN
    /\ alive /\ me.pc = "op" /\ me.msg.req.type = "SYNC"
    /\ unsynced' = IF me.file THEN [unsynced EXCEPT ![me.msg.req.object] = {}] ELSE unsynced
    /\ Done(c, [me EXCEPT !.file = FALSE], 0)
    /\ UNCHANGED <<pool, up, down, client, exists, size, alive, progress, issued>>

(* Faulty: a chunk cannot be used up exactly.                              *)
ChunkFullEarly(me, length) == me.used + length >= memory_chunk_size

(* j_memory_chunk_get returns NULL when the rest of the chunk is too small. *)
ChunkFull(me, length) == me.used + length > memory_chunk_size

(* A read: nothing when the object could not be opened, 0 for a length no  *)
(* chunk can hold.  When the chunk is full the results so far are sent and *)
(* a new reply is begun.                                                   *)
ReadOp(c) ==
    LET me == server[c]
        op == me.msg.req.ops[me.i]
        flush == ChunkFull(me, op.length)
        next == IF flush THEN [me EXCEPT !.reply = <<>>, !.used = op.length]
                ELSE [me EXCEPT !.used = @ + op.length]
    IN
    /\ alive /\ me.pc = "op" /\ me.msg.req.type = "READ"
    /\ \/ /\ ~me.file
          /\ server' = [server EXCEPT ![c].pc = "finish"]
          /\ UNCHANGED <<down, outcome>>
       \/ /\ me.file /\ op.length > memory_chunk_size
          /\ Done(c, me, 0)
          /\ UNCHANGED down
       \/ /\ me.file /\ op.length <= memory_chunk_size
          /\ down' = IF flush THEN [down EXCEPT ![c] = Append(@, Reply(me.msg.id, me.reply))] ELSE down
          /\ Done(c, next, BytesRead(me.msg.req.object, op))
    /\ UNCHANGED <<pool, up, client, backend, alive, progress, issued>>

(* Faulty: the data is left on the stream when the object is missing.      *)
WriteOpSkipsData(c) ==
    LET me == server[c]
        o == me.msg.req.object
        op == me.msg.req.ops[me.i]
    IN
    /\ alive /\ me.pc = "op" /\ me.msg.req.type = "WRITE"
    /\ \/ /\ op.length > memory_chunk_size /\ ServerReplies(me.msg.req) /\ me.file
          /\ Done(c, me, 0)
          /\ UNCHANGED <<up, size, unsynced>>
       \/ /\ op.length <= memory_chunk_size
          /\ up[c] # <<>>
          /\ up' = IF me.file THEN [up EXCEPT ![c] = Tail(@)] ELSE up
          /\ IF me.file
             THEN /\ Done(c, me, op.length)
                  /\ size' = [size EXCEPT ![o] = Max2(@, op.offset + op.length)]
                  /\ unsynced' = [unsynced EXCEPT ![o] = @ \cup {me.msg.id}]
             ELSE /\ server' = [server EXCEPT ![c].i = @ + 1,
                                 ![c].pc = IF me.i = Len(me.msg.req.ops) THEN "finish" ELSE "op"]
                  /\ UNCHANGED <<size, unsynced, outcome>>
    /\ UNCHANGED <<pool, down, client, exists, alive, progress, issued>>

(* A write: the data is taken off the stream even when the object could    *)
(* not be opened, but not when its length is answered with 0.              *)
WriteOp(c) ==
    LET me == server[c]
        o == me.msg.req.object
        op == me.msg.req.ops[me.i]
    IN
    /\ alive /\ me.pc = "op" /\ me.msg.req.type = "WRITE"
    /\ \/ /\ op.length > memory_chunk_size /\ ServerReplies(me.msg.req) /\ me.file
          /\ Done(c, me, 0)
          /\ UNCHANGED <<up, size, unsynced>>
       \/ /\ op.length <= memory_chunk_size
          /\ up[c] # <<>>
          /\ up' = [up EXCEPT ![c] = Tail(@)]
          /\ IF me.file
             THEN /\ Done(c, me, op.length)
                  /\ size' = [size EXCEPT ![o] = Max2(@, op.offset + op.length)]
                  /\ unsynced' = [unsynced EXCEPT ![o] = @ \cup {me.msg.id}]
             ELSE /\ server' = [server EXCEPT ![c].i = @ + 1,
                                 ![c].pc = IF me.i = Len(me.msg.req.ops) THEN "finish" ELSE "op"]
                  /\ UNCHANGED <<size, unsynced, outcome>>
    /\ UNCHANGED <<pool, down, client, exists, alive, progress, issued>>

(* g_assert(buf != NULL) fails and aborts the process.                     *)
WriteAborts(c) ==
    LET me == server[c] IN
    /\ alive /\ me.pc = "op" /\ me.msg.req.type = "WRITE"
    /\ me.msg.req.ops[me.i].length > memory_chunk_size
    /\ ~ServerReplies(me.msg.req) \/ ~me.file
    /\ alive' = FALSE
    /\ server' = [d \in Connections |-> Listening]
    /\ up' = [d \in Connections |-> <<>>]
    /\ UNCHANGED <<pool, down, client, backend, history>>

(* Faulty: storage persistency is forgotten for writes.                    *)
FinishUnsynced(c) ==
    LET me == server[c] IN
    /\ alive /\ me.pc = "finish"
    /\ down' = IF ServerReplies(me.msg.req)
               THEN [down EXCEPT ![c] = Append(@, Reply(me.msg.id, me.reply))] ELSE down
    /\ server' = [server EXCEPT ![c] = Listening]
    /\ progress' = [progress EXCEPT ![me.msg.id] = "done"]
    /\ UNCHANGED <<pool, up, client, backend, alive, outcome, issued>>

(* Faulty: no reply when the object could not be opened.                   *)
FinishSilent(c) ==
    LET me == server[c]
        o == me.msg.req.object
    IN
    /\ alive /\ me.pc = "finish"
    /\ unsynced' = IF me.msg.req.type = "WRITE" /\ me.msg.req.persistency = "STORAGE" /\ me.file
                   THEN [unsynced EXCEPT ![o] = {}] ELSE unsynced
    /\ down' = IF ServerReplies(me.msg.req) /\ me.file
               THEN [down EXCEPT ![c] = Append(@, Reply(me.msg.id, me.reply))] ELSE down
    /\ server' = [server EXCEPT ![c] = Listening]
    /\ progress' = [progress EXCEPT ![me.msg.id] = "done"]
    /\ UNCHANGED <<pool, up, client, exists, size, alive, outcome, issued>>

(* The end of the handler: a write with storage persistency is synced, the *)
(* handle is closed, the reply is sent and the chunk is reset.             *)
Finish(c) ==
    LET me == server[c]
        o == me.msg.req.object
    IN
    /\ alive /\ me.pc = "finish"
    /\ unsynced' = IF me.msg.req.type = "WRITE" /\ me.msg.req.persistency = "STORAGE" /\ me.file
                   THEN [unsynced EXCEPT ![o] = {}] ELSE unsynced
    /\ down' = IF ServerReplies(me.msg.req)
               THEN [down EXCEPT ![c] = Append(@, Reply(me.msg.id, me.reply))] ELSE down
    /\ server' = [server EXCEPT ![c] = Listening]
    /\ progress' = [progress EXCEPT ![me.msg.id] = "done"]
    /\ UNCHANGED <<pool, up, client, exists, size, alive, outcome, issued>>

(* The server process dies.  What it had sent may or may not arrive.       *)
Crash ==
    /\ MayCrash /\ alive
    /\ alive' = FALSE
    /\ server' = [c \in Connections |-> Listening]
    /\ \E kept \in [Connections -> BOOLEAN] :
          down' = [c \in Connections |-> IF kept[c] THEN down[c] ELSE <<>>]
    /\ up' = [c \in Connections |-> <<>>]
    /\ UNCHANGED <<pool, client, backend, history>>

AllReturned == \A t \in Threads : client[t].pc = "idle" /\ client[t].n = MaxRequests
Drained == \A c \in Connections : server[c] = Listening /\ up[c] = <<>>
Terminated == AllReturned /\ (Drained \/ ~alive) /\ UNCHANGED vars

ClientStep(t) ==
    \/ \E r \in Requests : \/ CreateExec(t, r) \/ DeleteExec(t, r) \/ ReadExec(t, r)
                           \/ WriteExec(t, r) \/ StatusExec(t, r) \/ SyncExec(t, r)
    \/ PopConnection(t) \/ Send(t) \/ Receive(t) \/ PushConnection(t)

ServerStep(c) ==
    \/ ServerReceive(c) \/ Open(c) \/ Create(c)
    \/ CreateOp(c) \/ DeleteOp(c) \/ StatusOp(c) \/ SyncOp(c) \/ ReadOp(c) \/ WriteOp(c)
    \/ WriteAborts(c) \/ Finish(c)

Next ==
    \/ \E t \in Threads : ClientStep(t)
    \/ \E c \in Connections : ServerStep(c)
    \/ Crash
    \/ Terminated

Spec == Init /\ [][Next]_vars

(* Every thread that can run does, on both sides.                          *)
Fairness ==
    /\ \A t \in Threads : WF_vars(PopConnection(t) \/ Send(t) \/ Receive(t) \/ PushConnection(t))
    /\ \A c \in Connections : WF_vars(ServerStep(c))

FairSpec == Spec /\ Fairness

-----------------------------------------------------------------------------
(* Properties.                                                             *)

(* jd_on_run expects a header wherever it begins to read: the data of a    *)
(* write is never left on the stream, whatever became of the write.        *)
StreamAligned ==
    \A c \in Connections :
        alive /\ server[c].pc = "receive" /\ up[c] # <<>> => Head(up[c]).kind = "header"

(* Every reply finds the exec function that waits for it: what such a      *)
(* function meets carries the id of its own message, as j_message_read     *)
(* asserts, and a connection in the pool has no reply on it, or on its     *)
(* way, that the next user would take for its own.                         *)
RepliesFindTheirRequests ==
    /\ \A t \in Threads :
          client[t].pc = "receive" /\ down[client[t].conn] # <<>>
              => Head(down[client[t].conn]).id = IdOf(t)
    /\ \A c \in Connections :
          (\A t \in Threads : client[t].conn # c) =>
              /\ down[c] = <<>>
              /\ server[c].msg # NULL => ~ServerReplies(server[c].msg.req)
              /\ \A i \in DOMAIN up[c] : up[c][i].kind = "header" => ~ServerReplies(up[c][i].req)

(* An exec function whose request is answered is about to return TRUE.     *)
Confirmed(t) ==
    client[t].pc = "push" /\ client[t].ret /\ ServerReplies(client[t].req)

(* What was promised for it: all its operations were performed, and with   *)
(* storage persistency their changes are on disk.                          *)
Performed(t) ==
    LET id == IdOf(t)
        r == client[t].req
    IN  /\ progress[id] = "done"
        /\ Len(outcome[id]) = Len(r.ops)
        /\ r.persistency = "STORAGE" => \A o \in Objects : id \notin unsynced[o]

(* With network persistency the operations of a batch that returned TRUE   *)
(* arrived at the server and were performed, with storage persistency they *)
(* are on disk, and bytes_read, bytes_written and size are the server's,   *)
(* operation by operation, however many replies they were spread over.     *)
(* When the server died this is only sure of writes, which tell a missing  *)
(* reply from an empty one.                                                *)
ResultsAreTheServers ==
    \A t \in Threads :
        /\ Confirmed(t) /\ (alive \/ client[t].req.type = "WRITE") => Performed(t)
        /\ /\ alive /\ client[t].pc = "push" /\ ServerReplies(client[t].req)
           /\ client[t].req.type \in {"READ", "WRITE", "STATUS"}
           => client[t].results = outcome[IdOf(t)]

(* The server does not begin with a request before it is done with the     *)
(* thread's previous one, if that is answered, whichever connections they  *)
(* take.                                                                   *)
ConfirmedInOrder ==
    \A t \in Threads, n \in 1 .. MaxRequests - 1 :
        progress[<<t, n + 1>>] # "none" /\ ServerReplies(issued[<<t, n>>])
            => progress[<<t, n>>] = "done"

(* Every exec function returns, the server dying of a failed assertion     *)
(* included, as long as the server finds headers where it looks for them.  *)
EveryExecReturns ==
    []StreamAligned => \A t \in Threads : client[t].pc # "idle" ~> client[t].pc = "idle"
=============================================================================
