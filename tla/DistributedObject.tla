-------------------------- MODULE DistributedObject --------------------------
(***************************************************************************)
(* Clients that work on one distributed object: the exec functions of      *)
(* lib/object/jdistributed-object.c with one background operation per      *)
(* server (j_helper_execute_parallel), on top of Distribution.             *)
(*                                                                         *)
(* A request is what j_batch_execute_same hands to an exec function.  Each *)
(* client has its own handle of the object, and so its own distribution.   *)
(* A server handles a message in one step and messages of different        *)
(* connections in any order: what happens inside the handler and on one    *)
(* connection is the subject of ObjectProtocol.                            *)
(***************************************************************************)
EXTENDS Distribution, Sequences, FiniteSetsExt, FiniteSets

CONSTANTS Clients,            \* client threads, each with its own handle
          Requests,           \* Requests[c]: the requests client c may execute
          Configurations,     \* distributions an application may ask for
          max_operation_size, \* the client's limit for one operation
          MaxBytes,           \* bound: bytes of the object
          MaxRequests,        \* bound: MaxRequests[c], requests client c executes
          Faulty,             \* servers whose backend may write less than it should
          NULL                \* no request, no reply, a byte never written

Bytes == 0 .. MaxBytes - 1
Ids == UNION {{c} \X (1 .. MaxRequests[c]) : c \in Clients}
Values == {NULL} \cup (Ids \X Bytes)  \* of a byte: who wrote it, and which of his bytes
Types == {"CREATE", "DELETE", "READ", "WRITE", "STATUS", "SYNC"}
Persistencies == {"NONE", "NETWORK", "STORAGE"}

(* The operations j_distributed_object_read and _write make of one call.   *)
Chunks(length, offset) ==
    [k \in 1 .. ((length + max_operation_size - 1) \div max_operation_size) |->
        [length |-> Smaller(length - (k - 1) * max_operation_size, max_operation_size),
         offset |-> offset + (k - 1) * max_operation_size]]

Covered(ops) == UNION {ops[i].offset .. ops[i].offset + ops[i].length - 1 : i \in DOMAIN ops}

ASSUME DistributedObjectAssumption ==
    /\ max_operation_size \in Nat \ {0} /\ MaxBytes \in Nat /\ MaxRequests \in [Clients -> Nat]
    /\ Faulty \subseteq Servers
    /\ Configurations \subseteq [type : DistributionTypes, index : Nat, block_size : Nat,
                                  weights : [Servers -> Nat]]
    /\ \A c \in Clients : \A r \in Requests[c] :
          /\ r # NULL /\ r.type \in Types /\ r.persistency \in Persistencies
          /\ r.ops \in Seq([length : Nat, offset : Nat])
          /\ IF r.type \in {"READ", "WRITE"}
             THEN r.ops # <<>> /\ Covered(r.ops) \subseteq Bytes
             ELSE r.ops = <<>>
    /\ NULL \notin {<<v>> : v \in Values} \cup [Bytes -> SUBSET Values]
                     \cup [kind : {"WRITE", "DELETE", "OTHER"}, bytes : SUBSET Bytes]

VARIABLES handle,  \* handle[c]: the distribution of c's handle
          client,  \* client[c]: the state of the exec function
          part,    \* part[c][s]: the background operation for server s
          net,     \* messages on their way to a server
          file,    \* file[s]: the object's file on server s
          place,   \* history: place[p], where the handles put byte p
          seen,    \* history: seen[c][p], values of byte p during c's read
          todo,    \* history: todo[id], what request id may still change
          issued   \* history: issued[id], the request itself

vars == <<handle, client, part, net, file, place, seen, todo, issued>>
history == <<place, seen, todo, issued>>

Resting == [pc |-> "idle", n |-> 0, req |-> NULL, op |-> 0, data |-> 0,
            bytes |-> 0, buffer |-> [p \in Bytes |-> NULL], ret |-> TRUE]
NoPart == [pc |-> "none", pieces |-> <<>>, reply |-> NULL]
NoFile == [exists |-> FALSE, size |-> 0, bytes |-> [p \in Bytes |-> NULL]]

(* Cutting a request into pieces touches nothing that another thread can   *)
(* see, so the other threads need not be interleaved with it.              *)
NobodyDistributes == \A c \in Clients : client[c].pc # "distribute"

-----------------------------------------------------------------------------
(* Handles.  One client makes the distribution and configures it; the      *)
(* others take over its BSON form, or, for the weighted distribution,      *)
(* which cannot be read back, configure their own in the same way.         *)

(* j_distribution_new and then a call of a setter for every setting of k.  *)
Configured(k, random) ==
    LET d == Set(Set(SetBlockSize(New(k.type, random), k.block_size), "start-index", k.index),
                 "index", k.index)
        after[i \in 0 .. server_count] ==
            IF i = 0 THEN d ELSE SetWeight(after[i - 1], i - 1, k.weights[i - 1])
    IN after[server_count]

(* Faulty: the index is not part of the BSON form.                         *)
SharedWithoutIndex(d, random) ==
    IF d.type = "WEIGHTED" THEN d ELSE [NewFromBson(Serialize(d), random) EXCEPT !.index = random]

Shared(d, random) ==
    IF d.type = "WEIGHTED" THEN d ELSE NewFromBson(Serialize(d), random)

(* A weighted distribution needs weights before its first use, or the sum  *)
(* it divides by is 0.  The object may have been created before, empty, by *)
(* another process.                                                        *)
Init ==
    /\ \E k \in Configurations, maker \in Clients :
          \E random \in [Clients -> Servers] :
             LET d == Configured(k, random[maker])
             IN /\ d.type = "WEIGHTED" => WeightSum(d) > 0
                /\ handle = [c \in Clients |-> IF c = maker THEN d ELSE Shared(d, random[c])]
    /\ client = [c \in Clients |-> Resting]
    /\ part = [c \in Clients |-> [s \in Servers |-> NoPart]]
    /\ net = {}
    /\ \E created \in BOOLEAN : file = [s \in Servers |-> [NoFile EXCEPT !.exists = created]]
    /\ place = [p \in Bytes |-> PlaceOf(handle[CHOOSE c \in Clients : TRUE], p)]
    /\ seen = [c \in Clients |-> NULL]
    /\ todo = [id \in Ids |-> NULL]
    /\ issued = [id \in Ids |-> NULL]

(* The content of the object, through the layout the handles agree on.     *)
Content(files) == [p \in Bytes |-> files[place[p].index].bytes[place[p].offset]]

-----------------------------------------------------------------------------
(* The exec functions.                                                     *)

(* What a request may do to the object: the bytes it may change.           *)
Kind(r) == IF r.type \in {"WRITE", "DELETE"} THEN r.type ELSE "OTHER"

Reach(r) ==
    CASE r.type = "WRITE" -> Covered(r.ops)
      [] r.type = "DELETE" -> Bytes
      [] OTHER -> {}

IdOf(c) == <<c, client[c].n>>

(* When the client waits for a reply, and when the server sends one.       *)
Expects(r) == r.type \in {"READ", "STATUS"} \/ r.persistency \in {"NETWORK", "STORAGE"}
Replies(r) == r.type \in {"READ", "STATUS"} \/ r.persistency \in {"NETWORK", "STORAGE"}

Begin(c, r) ==
    /\ NobodyDistributes /\ client[c].pc = "idle" /\ client[c].n < MaxRequests[c]
    /\ issued' = [issued EXCEPT ![<<c, client[c].n + 1>>] = r]
    /\ seen' = [seen EXCEPT ![c] =
          IF r.type = "READ" THEN LET now == Content(file) IN [p \in Bytes |-> {now[p]}] ELSE NULL]
    /\ todo' = [todo EXCEPT ![<<c, client[c].n + 1>>] = [kind |-> Kind(r), bytes |-> Reach(r)]]
    /\ UNCHANGED <<net, file, place>>

(* A message to every server, whatever the distribution.                   *)
ExecEverywhere(c, r) ==
    /\ Begin(c, r)
    /\ client' = [client EXCEPT ![c] =
          [Resting EXCEPT !.pc = "parallel", !.n = client[c].n + 1, !.req = r]]
    /\ part' = [part EXCEPT ![c] = [s \in Servers |-> [NoPart EXCEPT !.pc = "send"]]]
    /\ UNCHANGED handle

CreateExec(c, r) == r.type = "CREATE" /\ ExecEverywhere(c, r)
DeleteExec(c, r) == r.type = "DELETE" /\ ExecEverywhere(c, r)
StatusExec(c, r) == r.type = "STATUS" /\ ExecEverywhere(c, r)
SyncExec(c, r) == r.type = "SYNC" /\ ExecEverywhere(c, r)

(* The distribution decides; up to its first reset.                        *)
ExecRange(c, r) ==
    /\ Begin(c, r)
    /\ client' = [client EXCEPT ![c] =
          [Resting EXCEPT !.pc = "distribute", !.n = client[c].n + 1, !.req = r,
                          !.op = 1, !.data = r.ops[1].offset]]
    /\ handle' = [handle EXCEPT ![c] = Reset(@, r.ops[1].length, r.ops[1].offset)]
    /\ part' = [part EXCEPT ![c] = [s \in Servers |-> NoPart]]

ReadExec(c, r) == r.type = "READ" /\ ExecRange(c, r)
WriteExec(c, r) == r.type = "WRITE" /\ ExecRange(c, r)

(* Faulty: every write counts its bytes before the servers have replied.   *)
CountsAlways(r) == r.type = "WRITE"

CountsAtOnce(r) == r.type = "WRITE" /\ r.persistency = "NONE"

(* One round of the loop around j_distribution_distribute: the piece goes  *)
(* to the message of its server.  A write without persistency counts it as *)
(* written.                                                                *)
AddPiece(c) ==
    LET d == handle[c]
        piece == Piece(d)
    IN /\ client[c].pc = "distribute" /\ d.length > 0
       /\ handle' = [handle EXCEPT ![c] = Advance(d)]
       /\ part' = [part EXCEPT
             ![c][piece.index].pc = "send",
             ![c][piece.index].pieces = Append(@, [length |-> piece.length, offset |-> piece.offset,
                                                   data |-> client[c].data])]
       /\ client' = [client EXCEPT
             ![c].data = @ + piece.length,
             ![c].bytes = IF CountsAtOnce(client[c].req) THEN @ + piece.length ELSE @]
       /\ UNCHANGED <<net, file, history>>

(* The loop ends: the next operation of the list, or the servers.          *)
NextOperation(c) ==
    LET ops == client[c].req.ops
        next == client[c].op + 1
    IN /\ client[c].pc = "distribute" /\ handle[c].length = 0
       /\ IF next <= Len(ops)
          THEN /\ client' = [client EXCEPT ![c].op = next, ![c].data = ops[next].offset]
               /\ handle' = [handle EXCEPT ![c] = Reset(@, ops[next].length, ops[next].offset)]
          ELSE /\ client' = [client EXCEPT ![c].pc = "parallel"]
               /\ UNCHANGED handle
       /\ UNCHANGED <<part, net, file, history>>

(* Background operation of server s: pop a connection and send.            *)
Send(c, s) ==
    LET r == client[c].req
    IN /\ NobodyDistributes /\ client[c].pc = "parallel" /\ part[c][s].pc = "send"
       /\ net' = net \cup {[server |-> s, id |-> IdOf(c), req |-> r, pieces |-> part[c][s].pieces]}
       /\ part' = [part EXCEPT ![c][s].pc = IF Expects(r) THEN "wait" ELSE "done"]
       /\ UNCHANGED <<handle, client, file, history>>

-----------------------------------------------------------------------------
(* The server, jd_handle_message.                                          *)

(* What a message leaves behind on its server: the file f, the bytes of    *)
(* the object it has changed, and the reply.                               *)
Served(m, f, changed, reply) ==
    /\ NobodyDistributes
    /\ net' = net \ {m}
    /\ file' = [file EXCEPT ![m.server] = f]
    /\ todo' = [todo EXCEPT ![m.id].bytes = @ \ changed]
    /\ part' = IF Replies(m.req) THEN [part EXCEPT ![m.id[1]][m.server].reply = reply] ELSE part
    /\ seen' = LET now == Content(file')
                IN [c \in Clients |-> IF seen[c] = NULL THEN NULL
                                      ELSE [p \in Bytes |-> seen[c][p] \cup {now[p]}]]
    /\ UNCHANGED <<handle, client, place, issued>>

Stored(s) == {p \in Bytes : place[p].index = s}

ServeCreate(m) ==
    /\ m.req.type = "CREATE"
    /\ Served(m, [file[m.server] EXCEPT !.exists = TRUE], {}, <<TRUE>>)

ServeDelete(m) ==
    /\ m.req.type = "DELETE"
    /\ IF file[m.server].exists
       THEN Served(m, NoFile, Stored(m.server), <<TRUE>>)
       ELSE Served(m, NoFile, {}, <<FALSE>>)

(* The bytes of piece k, of which a failing backend writes all but one.    *)
Target(m, k, fails) ==
    m.pieces[k].offset .. m.pieces[k].offset + m.pieces[k].length - 1 - (IF k \in fails THEN 1 ELSE 0)

(* The byte of the user's buffer that piece k puts at offset q.            *)
Source(m, k, q) == m.pieces[k].data + q - m.pieces[k].offset

(* The file with every piece written in turn; the size is its end.         *)
AfterWrite(m, fails) ==
    LET after[k \in 0 .. Len(m.pieces)] ==
          IF k = 0 THEN file[m.server]
          ELSE LET f == after[k - 1]
                   T == Target(m, k, fails)
               IN [f EXCEPT
                     !.size = CHOOSE n \in {@} \cup {q + 1 : q \in T} :
                                 \A q \in {@} \cup {q + 1 : q \in T} : q <= n,
                     !.bytes = [q \in Bytes |->
                         IF q \in T THEN <<m.id, Source(m, k, q)>> ELSE @[q]]]
    IN after[Len(m.pieces)]

ServeWrite(m) ==
    /\ m.req.type = "WRITE"
    /\ IF file[m.server].exists
       THEN \E fails \in {{}} \cup (IF m.server \in Faulty THEN {{k} : k \in DOMAIN m.pieces} ELSE {}) :
              Served(m, AfterWrite(m, fails),
                     UNION {{Source(m, k, q) : q \in Target(m, k, fails)} : k \in DOMAIN m.pieces},
                     [k \in DOMAIN m.pieces |-> Cardinality(Target(m, k, fails))])
       ELSE Served(m, file[m.server], {}, <<>>)

(* A read stops at the end of the file; a hole reads as zeros (NULL).      *)
ServeRead(m) ==
    LET f == file[m.server]
        Got(k) == [j \in {i \in 0 .. m.pieces[k].length - 1 : m.pieces[k].offset + i < f.size} |->
                      f.bytes[m.pieces[k].offset + j]]
    IN /\ m.req.type = "READ"
       /\ Served(m, f, {}, IF f.exists THEN [k \in DOMAIN m.pieces |-> Got(k)] ELSE <<>>)

ServeStatus(m) ==
    /\ m.req.type = "STATUS"
    /\ Served(m, file[m.server], {}, <<file[m.server].size>>)

ServeSync(m) ==
    /\ m.req.type = "SYNC"
    /\ Served(m, file[m.server], {}, <<TRUE>>)

-----------------------------------------------------------------------------
(* The replies.                                                            *)

Total(counts) == LET count(k) == counts[k] IN MapThenSumSet(count, DOMAIN counts)

Received(c, s, changed) ==
    /\ client' = [client EXCEPT ![c] = changed]
    /\ part' = [part EXCEPT ![c][s].pc = "done", ![c][s].reply = NULL]
    /\ UNCHANGED <<handle, net, file, history>>

Waiting(c, s, types) ==
    /\ NobodyDistributes
    /\ client[c].req # NULL /\ client[c].req.type \in types
    /\ part[c][s].pc = "wait" /\ part[c][s].reply # NULL

(* The replies to a create and a sync are not looked at.                   *)
ReceiveIgnored(c, s) ==
    /\ Waiting(c, s, {"CREATE", "SYNC"})
    /\ Received(c, s, client[c])

ReceiveDelete(c, s) ==
    /\ Waiting(c, s, {"DELETE"})
    /\ Received(c, s, [client[c] EXCEPT !.ret = @ /\ part[c][s].reply[1]])

(* A reply without operations: the object does not exist there.            *)
ReceiveWrite(c, s) ==
    /\ Waiting(c, s, {"WRITE"})
    /\ LET reply == part[c][s].reply
       IN Received(c, s, IF reply = <<>> THEN [client[c] EXCEPT !.ret = FALSE]
                         ELSE [client[c] EXCEPT !.bytes = @ + Total(reply)])

(* Faulty: the byte is put where it lies in the server's file.             *)
BufferAtFileOffset(piece, j) == piece.offset + j

(* Where byte j of a piece belongs in the user's buffer.                   *)
BufferPosition(piece, j) == piece.data + j

ReceiveRead(c, s) ==
    /\ Waiting(c, s, {"READ"})
    /\ LET reply == part[c][s].reply
           pieces == part[c][s].pieces
           At(p) == {kj \in (DOMAIN reply) \X Bytes :
                        kj[2] \in DOMAIN reply[kj[1]] /\ p = BufferPosition(pieces[kj[1]], kj[2])}
       IN Received(c, s,
            IF reply = <<>> THEN [client[c] EXCEPT !.ret = FALSE]
            ELSE [client[c] EXCEPT
                    !.bytes = @ + Total([k \in DOMAIN reply |-> Cardinality(DOMAIN reply[k])]),
                    !.buffer = [p \in Bytes |->
                        IF At(p) = {} THEN @[p]
                        ELSE LET kj == CHOOSE x \in At(p) : TRUE
                             IN <<reply[kj[1]][kj[2]]>>]])

ReceiveStatus(c, s) ==
    /\ Waiting(c, s, {"STATUS"})
    /\ Received(c, s, [client[c] EXCEPT !.bytes = @ + part[c][s].reply[1]])

(* j_helper_execute_parallel has waited for all background operations.     *)
Finish(c) ==
    /\ NobodyDistributes /\ client[c].pc = "parallel"
    /\ \A s \in Servers : part[c][s].pc \in {"none", "done"}
    /\ client' = [client EXCEPT ![c].pc = "idle"]
    /\ part' = [part EXCEPT ![c] = [s \in Servers |-> NoPart]]
    /\ UNCHANGED <<handle, net, file, history>>

Exec(c) ==
    \E r \in Requests[c] :
       \/ CreateExec(c, r) \/ DeleteExec(c, r) \/ StatusExec(c, r) \/ SyncExec(c, r)
       \/ ReadExec(c, r) \/ WriteExec(c, r)
Receive(c, s) ==
    \/ ReceiveIgnored(c, s) \/ ReceiveDelete(c, s) \/ ReceiveWrite(c, s)
    \/ ReceiveRead(c, s) \/ ReceiveStatus(c, s)
Work(c) ==
    \/ AddPiece(c) \/ NextOperation(c) \/ Finish(c)
    \/ \E s \in Servers : Send(c, s) \/ Receive(c, s)
Serve(m) ==
    \/ ServeCreate(m) \/ ServeDelete(m) \/ ServeWrite(m)
    \/ ServeRead(m) \/ ServeStatus(m) \/ ServeSync(m)

Next ==
    \/ \E c \in Clients : Exec(c) \/ Work(c)
    \/ \E m \in net : Serve(m)

Spec == Init /\ [][Next]_vars

-----------------------------------------------------------------------------
(* Properties.                                                             *)

(* The striped object is one array of bytes: distribution, messages and    *)
(* servers together implement FlatObject.  No write touches a byte outside *)
(* its range, takes a byte from the wrong place of the user's buffer or    *)
(* writes one twice (j_distributed_object_write_exec).                     *)
Flat == INSTANCE FlatObject WITH content <- Content(file)

ActsAsOneArray == Flat!Spec

Applied(id) == IF issued[id] = NULL THEN {} ELSE Reach(issued[id]) \ todo[id].bytes

Finished(c, types) ==
    client[c].pc = "idle" /\ client[c].req # NULL /\ client[c].req.type \in types

(* A read that has returned gives for every byte a value that byte had     *)
(* between its call and its return, whatever other clients wrote meanwhile *)
(* (j_distributed_object_read_background_operation fills the buffer).      *)
ReadsAreRegular ==
    \A c \in Clients : Finished(c, {"READ"}) =>
        \A p \in Bytes : client[c].buffer[p] # NULL =>
            client[c].buffer[p][1] \in seen[c][p] /\ p \in Covered(client[c].req.ops)

(* The count a read or a confirmed write returns is the number of bytes    *)
(* that were transferred: background operations of all servers add to it   *)
(* (j_helper_atomic_add), and no byte is counted twice.                    *)
CountsAreExact ==
    \A c \in Clients :
        /\ Finished(c, {"READ"}) =>
              client[c].bytes = Cardinality({p \in Bytes : client[c].buffer[p] # NULL})
        /\ Finished(c, {"WRITE"}) /\ client[c].req.persistency # "NONE" =>
              client[c].bytes = Cardinality(Applied(IdOf(c)))

=============================================================================
