------------------------------- MODULE Items -------------------------------
(***************************************************************************)
(* Collections and items, lib/item.  A collection is a key-value pair in   *)
(* the namespace "collections".  An item is a pair in the namespace        *)
(* "items", whose key is the path collection/name, and a distributed       *)
(* object of the same path, a part of it on every object server.           *)
(*                                                                         *)
(* Nothing holds the two together but the order in which a call works on   *)
(* them.  Clients run programs, sequences of calls each in a batch of its  *)
(* own; the calls of different clients interleave message by message, a    *)
(* message may be late, and a client may die at any time: what it has sent *)
(* is still on its way then.  How a message is served in detail is the     *)
(* subject of KeyValue, ObjectProtocol and DistributedObject.              *)
(*                                                                         *)
(* Names are sequences of letters, numbers, of which 0 is the slash.       *)
(***************************************************************************)
EXTENDS Distribution, Sequences, FiniteSets, SequencesExt

CONSTANTS Clients,
          Names,      \* names of collections and items
          kv_server_count,  \* key-value servers of the configuration
          Home,       \* Home[key]: the key-value server of a key, by its hash
          Scenarios,  \* what may be given: see Init
          NULL

ItemSize == 2  \* bound: bytes of an item, all of which a write writes
Bytes == 0 .. ItemSize - 1
Slash == 0

(* The key-value servers are numbered below 0, beside the object servers.  *)
KvServers == {-s : s \in 1 .. kv_server_count}

(* g_build_path, of names that are not empty.                              *)
BuildPath(collection, name) == collection \o <<Slash>> \o name
Paths == {BuildPath(collection, name) : collection, name \in Names}

(* like[name] are the collections whose items a key-value server lists for *)
(* those of name: with SQLite all whose names fit name as a pattern.       *)
ASSUME ItemsAssumption ==
    /\ \A name \in Names : Len(name) > 0
    /\ kv_server_count \in Nat \ {0} /\ Home \in [Names \cup Paths -> KvServers]
    /\ \A s \in Scenarios :
          /\ s.crashes \in Nat /\ s.refusals \in Nat
          /\ s.like \in [Names -> SUBSET Names] /\ \A name \in Names : name \in s.like[name]

VARIABLES scenario,    \* what is given: the programs, and how much may go wrong
          collections, \* the entries in the namespace "collections"
          items,       \* items[path]: the entry in the namespace "items", or NULL
          objects,     \* objects[s][path]: the bytes server s has, or NULL
          net,         \* messages on their way to a server
          client,      \* the clients
          crashes, refusals,
          directory,   \* history: <<collection, name>> of the entries
          contents,    \* history: contents[path], what was written last, or NULL
          raced,       \* history: paths where EntryHasObject is not promised
          unclear      \* history: paths whose contents are not promised

stores == <<collections, items, objects, net>>
history == <<directory, contents, raced, unclear>>
vars == <<scenario, stores, client, crashes, refusals, history>>

Idle == [pc |-> "idle", n |-> 0, coll |-> NULL, item |-> NULL, path |-> NULL, phases |-> <<>>,
         todo |-> {}, wait |-> {}, ret |-> TRUE, buffer |-> NULL, list |-> {}, listed |-> {},
         always |-> {}, ever |-> {}, clean |-> TRUE, result |-> NULL]

Init ==
    /\ scenario \in Scenarios
    /\ collections = {}
    /\ items = [path \in Paths |-> NULL]
    /\ objects = [s \in Servers |-> [path \in Paths |-> NULL]]
    /\ net = {}
    /\ client = [c \in Clients |-> Idle]
    /\ crashes = 0 /\ refusals = 0
    /\ directory = {} /\ raced = {} /\ unclear = {}
    /\ contents = [path \in Paths |-> NULL]

-----------------------------------------------------------------------------
(* Handles.                                                                *)

Call(c) == scenario.program[c][client[c].n + 1]

(* The batch's persistency decides whether replies are waited for; a call  *)
(* that brings something back always waits.                                *)
Mutators == {"item_create", "item_delete", "item_write"}
Waits(call) ==
    \/ call.op \notin Mutators \cup {"collection_create", "collection_delete"}
    \/ call.persistency # "NONE"

CollectionNew(name) == [name |-> name, own |-> TRUE, ref |-> 1]
CollectionSerialize(coll) == [name |-> coll.name]
CollectionDeserialize(entry) == CollectionNew(entry.name)

CollectionRef(p) == [p EXCEPT !.coll.ref = @ + 1]

(* The last one to let go frees the collection.                            *)
CollectionUnref(p) ==
    IF p.coll.ref = 1 THEN [p EXCEPT !.coll = NULL] ELSE [p EXCEPT !.coll.ref = @ - 1]

(* j_item_new: an item keeps a reference on its collection.                *)
ItemNew(p, id, name, distribution) ==
    [CollectionRef(p) EXCEPT
        !.item = [id |-> id, name |-> name, distribution |-> distribution, size |-> 0]]

ItemUnref(p) == [CollectionUnref(p) EXCEPT !.item = NULL]

ItemPath(p) == BuildPath(p.coll.name, p.item.name)

(* The entry of an item.                                                   *)
ItemSerialize(item) ==
    [id |-> item.id, name |-> item.name, distribution |-> Serialize(item.distribution)]

(* Fault: the distribution is not read back.                               *)
FaultyItemDeserialize(entry, random) ==
    [id |-> entry.id, name |-> entry.name, distribution |-> New("ROUND_ROBIN", random)]

ItemDeserialize(entry, random) ==
    [id |-> entry.id, name |-> entry.name, distribution |-> NewFromBson(entry.distribution, random)]

(* j_item_new_from_bson: a handle made of an entry.                        *)
ItemNewFromBson(p, entry, random) ==
    LET item == ItemDeserialize(entry, random)
    IN  ItemNew(p, item.id, item.name, item.distribution)

-----------------------------------------------------------------------------
(* A call begins: it works in phases, one operation of the batch after the *)
(* other, each with the servers it asks: todo has yet to be sent to, and   *)
(* the replies of wait are missing.                                        *)

Ready(c, op) ==
    /\ client[c].pc = "idle" /\ client[c].n < Len(scenario.program[c])
    /\ Call(c).op = op

Started(p, path, phases) ==
    [p EXCEPT !.pc = "run", !.path = path, !.phases = Tail(phases), !.todo = Head(phases),
              !.ret = TRUE, !.buffer = [b \in Bytes |-> NULL], !.list = {}, !.listed = {},
              !.clean = TRUE, !.result = NULL]

(* The call does nothing.                                                  *)
Skipped(p) == [p EXCEPT !.n = @ + 1, !.result = NULL]

(* A call is under way, or what a client that died has sent of it.         *)
Works(d, ops, path) ==
    client[d].pc = "run" /\ client[d].path = path /\ Call(d).op \in ops
Underway(ops, path) == \E m \in net : m.message.path = path /\ m.message.op \in ops

(* A call on an item that others can see: who it gets into the way of.     *)
BeginOnItem(c, p, path, phases) ==
    LET op == Call(c).op
        Others(ops) == Underway(ops, path) \/ \E d \in Clients \ {c} : Works(d, ops, path)
        loose == ~Waits(Call(c))
    IN  /\ client' = [d \in Clients |->
               IF d = c THEN [Started(p, path, phases) EXCEPT
                                 !.clean = ~Others(Mutators) /\ ~loose]
               ELSE IF op \in Mutators /\ client[d].path = path
                    THEN [client[d] EXCEPT !.clean = FALSE]
               ELSE client[d]]
        /\ raced' = IF \/ op = "item_create" /\ Others({"item_delete"})
                       \/ op = "item_delete" /\ Others({"item_create"})
                       \/ op \in Mutators /\ loose
                    THEN raced \cup {path} ELSE raced
        /\ unclear' = IF op \in Mutators /\ (Others(Mutators) \/ loose)
                      THEN unclear \cup {path} ELSE unclear
        /\ UNCHANGED <<scenario, stores, crashes, refusals, directory, contents>>

Begin(c, p, phases) ==
    /\ client' = [client EXCEPT ![c] = Started(p, NULL, phases)]
    /\ UNCHANGED <<scenario, stores, crashes, refusals, history>>

Local(c, p) ==
    /\ client' = [client EXCEPT ![c] = p]
    /\ UNCHANGED <<scenario, stores, crashes, refusals, history>>

HasCollection(c) == client[c].coll # NULL /\ client[c].coll.own
HasItem(c) == client[c].item # NULL

(* A slash in the name is refused, and there is no collection.             *)
CollectionCreate(c) ==
    /\ Ready(c, "collection_create") /\ client[c].coll = NULL
    /\ IF Contains(Call(c).name, Slash) THEN Local(c, Skipped(client[c]))
       ELSE Begin(c, [client[c] EXCEPT !.coll = CollectionNew(Call(c).name)], <<{Home[Call(c).name]}>>)

CollectionGet(c) ==
    /\ Ready(c, "collection_get") /\ client[c].coll = NULL
    /\ Begin(c, client[c], <<{Home[Call(c).name]}>>)

(* The items of the collection stay.                                       *)
CollectionDelete(c) ==
    /\ Ready(c, "collection_delete") /\ HasCollection(c)
    /\ Begin(c, client[c], <<{Home[client[c].coll.name]}>>)

CollectionRelease(c) ==
    /\ Ready(c, "collection_unref") /\ HasCollection(c)
    /\ Local(c, Skipped(CollectionUnref([client[c] EXCEPT !.coll.own = FALSE])))

(* Without a distribution the item gets a round robin one, whose first     *)
(* server is drawn at random.  The entry is stored last...                 *)
ItemCreate(c) ==
    /\ Ready(c, "item_create") /\ HasCollection(c) /\ ~HasItem(c)
    /\ IF Contains(Call(c).name, Slash) THEN Local(c, Skipped(client[c]))
       ELSE \E random \in Servers :
              LET p == ItemNew(client[c], <<c, client[c].n>>, Call(c).name,
                               New(Call(c).type, random))
              IN  BeginOnItem(c, p, ItemPath(p), <<Servers, {Home[ItemPath(p)]}>>)

(* j_item_get keeps the collection until the callback is called.           *)
ItemGet(c) ==
    /\ Ready(c, "item_get") /\ HasCollection(c) /\ ~HasItem(c)
    /\ LET path == BuildPath(client[c].coll.name, Call(c).name)
       IN  BeginOnItem(c, CollectionRef(client[c]), path, <<{Home[path]}>>)

(* Fault: the objects go first.                                            *)
FaultyItemDelete(c) ==
    /\ Ready(c, "item_delete") /\ HasItem(c)
    /\ LET path == ItemPath(client[c]) IN BeginOnItem(c, client[c], path, <<Servers, {Home[path]}>>)

(* ...and deleted first.                                                   *)
ItemDelete(c) ==
    /\ Ready(c, "item_delete") /\ HasItem(c)
    /\ LET path == ItemPath(client[c]) IN BeginOnItem(c, client[c], path, <<{Home[path]}, Servers>>)

ItemRead(c) ==
    /\ Ready(c, "item_read") /\ HasItem(c)
    /\ BeginOnItem(c, client[c], ItemPath(client[c]), <<Servers>>)

ItemWrite(c) ==
    /\ Ready(c, "item_write") /\ HasItem(c)
    /\ BeginOnItem(c, client[c], ItemPath(client[c]), <<Servers>>)

ItemGetStatus(c) ==
    /\ Ready(c, "item_status") /\ HasItem(c)
    /\ BeginOnItem(c, [client[c] EXCEPT !.item.size = 0], ItemPath(client[c]), <<Servers>>)

ItemRelease(c) ==
    /\ Ready(c, "item_unref") /\ HasItem(c)
    /\ Local(c, Skipped(ItemUnref(client[c])))

(* j_kv_iterator_new asks one key-value server after the other.            *)
OneByOne == [i \in 1 .. kv_server_count |-> {-i}]

Items(colls, dir) == {name \in Names : \E coll \in colls : <<coll, name>> \in dir}

(* The iterator has a reference on the collection, too.                    *)
ItemIteratorNew(c) ==
    LET name == client[c].coll.name IN
    /\ Ready(c, "item_list") /\ HasCollection(c)
    /\ Begin(c, [CollectionRef(client[c]) EXCEPT
                    !.always = Items({name}, directory),
                    !.ever = Items(scenario.like[name], directory)], OneByOne)

CollectionIteratorNew(c) ==
    /\ Ready(c, "collection_list")
    /\ Begin(c, client[c], OneByOne)

(* The program has no handle for the call, or would lose the one it has,   *)
(* and does not make it.                                                   *)
Possible(c) ==
    CASE Call(c).op \in {"collection_delete", "collection_unref", "item_list"} -> HasCollection(c)
      [] Call(c).op \in {"collection_create", "collection_get"} -> client[c].coll = NULL
      [] Call(c).op \in {"item_create", "item_get"} -> HasCollection(c) /\ ~HasItem(c)
      [] Call(c).op = "collection_list" -> TRUE
      [] OTHER -> HasItem(c)

SkipCall(c) ==
    /\ client[c].pc = "idle" /\ client[c].n < Len(scenario.program[c])
    /\ ~Possible(c)
    /\ Local(c, Skipped(client[c]))

-----------------------------------------------------------------------------
(* Messages and what the servers do with them.                             *)

Message(c) ==
    [op |-> Call(c).op, id |-> <<c, client[c].n>>, path |-> client[c].path, name |-> Call(c).name,
     coll |-> client[c].coll, item |-> client[c].item]

(* The bytes of an item that server s has, and where.                      *)
BytesAt(item, s) == {b \in Bytes : PlaceOf(item.distribution, b).index = s}
OffsetAt(item, b) == PlaceOf(item.distribution, b).offset

NewFile == [b \in Bytes |-> NULL]

FileAfter(m, s) ==
    LET file == objects[s][m.path]
    IN  CASE m.op = "item_create" -> IF file = NULL THEN NewFile ELSE file
          [] m.op = "item_delete" -> NULL
          [] m.op = "item_write" /\ file # NULL ->
                LET At(o) == {b \in BytesAt(m.item, s) : OffsetAt(m.item, b) = o}
                IN  [o \in Bytes |-> IF At(o) = {} THEN file[o] ELSE <<m.id, CHOOSE b \in At(o) : TRUE>>]
          [] OTHER -> file

ServeObject(m, s) ==
    /\ objects' = [objects EXCEPT ![s][m.path] = FileAfter(m, s)]
    /\ UNCHANGED <<collections, items, directory>>

ServeKv(m) ==
    /\ collections' = CASE m.op = "collection_create" -> collections \cup {CollectionSerialize(m.coll)}
                        [] m.op = "collection_delete" -> {entry \in collections : entry.name # m.coll.name}
                        [] OTHER -> collections
    /\ items' = CASE m.op = "item_create" -> [items EXCEPT ![m.path] = ItemSerialize(m.item)]
                  [] m.op = "item_delete" -> [items EXCEPT ![m.path] = NULL]
                  [] OTHER -> items
    /\ directory' = CASE m.op = "item_create" -> directory \cup {<<m.coll.name, m.item.name>>}
                      [] m.op = "item_delete" -> directory \ {<<m.coll.name, m.item.name>>}
                      [] OTHER -> directory
    /\ UNCHANGED objects

Serve(m, t) == IF t \in Servers THEN ServeObject(m, t) ELSE ServeKv(m)

(* Fault: nothing was found, and the collection is kept.                   *)
FaultyItemGetCallback(p, entry, random) ==
    IF entry = NULL THEN p ELSE CollectionUnref(ItemNewFromBson(p, entry, random))

(* What the callback does with the entry that was found, if any.           *)
ItemGetCallback(p, entry, random) ==
    CollectionUnref(IF entry = NULL THEN p ELSE ItemNewFromBson(p, entry, random))

(* A collection that is not there leaves the caller's variable alone.      *)
CollectionGetCallback(p, name) ==
    LET found == {entry \in collections : entry.name = name}
    IN  IF found = {} THEN p
        ELSE [p EXCEPT !.coll = CollectionDeserialize(CHOOSE entry \in found : TRUE)]

Prefix(name) == Append(name, Slash)

(* What server t has of the items an iterator asks for.                    *)
ItemListing(p, t) ==
    LET Fits(path) == \E name \in scenario.like[p.coll.name] : IsPrefix(Prefix(name), path)
    IN  [p EXCEPT !.list = @ \cup {items[path] : path \in
            {q \in Paths : Home[q] = t /\ items[q] # NULL /\ Fits(q)}}]

(* The reply of key-value server t.                                        *)
KvReply(p, m, t, random) ==
    CASE m.op = "collection_get" -> CollectionGetCallback(p, m.name)
      [] m.op = "item_get" -> ItemGetCallback(p, items[m.path], random)
      [] m.op = "item_list" -> ItemListing(p, t)
      [] m.op = "collection_list" ->
            [p EXCEPT !.list = @ \cup {entry \in collections : Home[entry.name] = t}]
      [] OTHER -> p

(* The reply of object server s.  That to a create is not looked at; a     *)
(* read or a write of an object that is not there fails.                   *)
ObjectReply(p, m, s) ==
    LET file == objects[s][m.path]
        size == IF file = NULL THEN 0 ELSE Cardinality({o \in Bytes : file[o] # NULL})
    IN  CASE m.op = "item_read" ->
               IF BytesAt(m.item, s) = {} THEN p
               ELSE IF file = NULL THEN [p EXCEPT !.ret = FALSE]
               ELSE [p EXCEPT !.buffer = [b \in Bytes |->
                        IF b \in BytesAt(m.item, s) THEN file[OffsetAt(m.item, b)] ELSE p.buffer[b]]]
          [] m.op = "item_write" -> [p EXCEPT !.ret = @ /\ (file # NULL \/ BytesAt(m.item, s) = {})]
          [] m.op = "item_delete" -> [p EXCEPT !.ret = @ /\ file # NULL]
          [] m.op = "item_status" -> [p EXCEPT !.item.size = @ + size]
          [] OTHER -> p

(* After the last server of a phase comes the next operation of the batch, *)
(* whatever became of this one.                                            *)
Proceed(p) ==
    IF p.todo = {} /\ p.wait = {} /\ p.phases # <<>>
    THEN [p EXCEPT !.todo = Head(p.phases), !.phases = Tail(@)] ELSE p

Sent(p, t, awaited) ==
    Proceed([p EXCEPT !.todo = @ \ {t}, !.wait = IF awaited THEN @ \cup {t} ELSE @])

Send(c, t) ==
    /\ client[c].pc = "run" /\ t \in client[c].todo
    /\ net' = net \cup {[message |-> Message(c), target |-> t, awaited |-> Waits(Call(c))]}
    /\ client' = [client EXCEPT ![c] = Sent(@, t, Waits(Call(c)))]
    /\ UNCHANGED <<scenario, collections, items, objects, crashes, refusals, history>>

(* While an iterator asks, items come and go.                              *)
Asking(c) == client[c].pc = "run" /\ Call(c).op = "item_list" /\ client[c].todo \cup client[c].wait # {}
Watched(c) ==
    IF ~Asking(c) THEN client[c]
    ELSE LET name == client[c].coll.name
         IN  [client[c] EXCEPT !.always = @ \cap Items({name}, directory'),
                               !.ever = @ \cup Items(scenario.like[name], directory')]

(* Whether anybody still waits for the reply.                              *)
Expected(m) == m.awaited /\ client[m.message.id[1]].pc = "run"

(* The reply to a message comes to the client that waits for it: nothing   *)
(* the client does depends on what happens between the message being       *)
(* served and the reply being read.                                        *)
Deliver(m) ==
    LET c == m.message.id[1]
        t == m.target IN
    /\ Serve(m.message, t)
    /\ net' = net \ {m}
    /\ \E random \in Servers :
          client' = [d \in Clients |->
              IF d # c \/ ~Expected(m) THEN Watched(d)
              ELSE LET p == [client[c] EXCEPT !.wait = @ \ {t}]
                   IN  Proceed(IF t \in Servers THEN ObjectReply(p, m.message, t)
                               ELSE KvReply(p, m.message, t, random))]
    /\ UNCHANGED <<scenario, crashes, refusals, contents, raced, unclear>>

(* A server cannot create its object.  Nobody learns of it.                *)
Refuse(m) ==
    LET c == m.message.id[1] IN
    /\ m.message.op = "item_create" /\ m.target \in Servers
    /\ objects[m.target][m.message.path] = NULL
    /\ refusals < scenario.refusals
    /\ refusals' = refusals + 1
    /\ net' = net \ {m}
    /\ client' = IF ~Expected(m) THEN client
                 ELSE [client EXCEPT ![c] = Proceed([@ EXCEPT !.wait = @ \ {m.target}])]
    /\ raced' = raced \cup {m.message.path}
    /\ unclear' = unclear \cup {m.message.path}
    /\ UNCHANGED <<scenario, collections, items, objects, crashes, directory, contents>>

-----------------------------------------------------------------------------
(* The call returns.                                                       *)

(* The contents of the item after a call that nothing got into.            *)
ContentsAfter(c) ==
    LET before == contents[client[c].path]
    IN  CASE Call(c).op = "item_create" ->
               IF before = NULL THEN [last |-> NULL, writers |-> {}, bytes |-> NewFile] ELSE before
          [] Call(c).op = "item_delete" -> NULL
          [] Call(c).op = "item_write" /\ client[c].ret ->
               [last |-> client[c].item.id, writers |-> before.writers \cup {client[c].item.id},
                bytes |-> [b \in Bytes |-> << <<c, client[c].n>>, b >>]]
          [] OTHER -> before

(* What a read or a status brought, and what it should have: told only if  *)
(* the item was written last, if at all, through a handle of the same      *)
(* creation; the size counts what other layouts have left behind, too.     *)
ResultOf(c) ==
    LET p == client[c]
        before == contents[p.path]
        known == p.clean /\ p.path \notin unclear /\ before # NULL
    IN  CASE Call(c).op = "item_read" /\ known /\ before.last \in {NULL, p.item.id} ->
               [op |-> "item_read", got |-> <<p.ret, p.buffer>>, due |-> <<TRUE, before.bytes>>]
          [] Call(c).op = "item_status" /\ known /\ before.writers \subseteq {p.item.id} ->
               [op |-> "item_status", got |-> p.item.size,
                due |-> Cardinality({b \in Bytes : before.bytes[b] # NULL})]
          [] OTHER -> NULL

Lists == {"item_list", "collection_list"}
Answered(c) == client[c].pc = "run" /\ client[c].todo \cup client[c].wait = {}

Return(c) ==
    /\ Answered(c) /\ Call(c).op \notin Lists
    /\ client' = [client EXCEPT ![c] =
           [Skipped(@) EXCEPT !.pc = "idle", !.path = NULL, !.buffer = NULL, !.result = ResultOf(c)]]
    /\ contents' = IF client[c].path \in {NULL} \cup unclear THEN contents
                   ELSE [contents EXCEPT ![client[c].path] = ContentsAfter(c)]
    /\ UNCHANGED <<scenario, stores, crashes, refusals, directory, raced, unclear>>

Listing(c, op) == Answered(c) /\ Call(c).op = op

(* j_item_iterator_next and _get: the program keeps the last item it got.  *)
ItemIteratorGet(c) ==
    /\ Listing(c, "item_list")
    /\ \E entry \in client[c].list, random \in Servers :
         LET p == [client[c] EXCEPT !.list = @ \ {entry}, !.listed = @ \cup {entry.name}]
         IN  Local(c, ItemNewFromBson(IF p.item = NULL THEN p ELSE ItemUnref(p), entry, random))

CollectionIteratorGet(c) ==
    /\ Listing(c, "collection_list")
    /\ \E entry \in client[c].list :
         Local(c, [client[c] EXCEPT !.list = @ \ {entry},
                                    !.listed = @ \cup {CollectionDeserialize(entry).name}])

ItemIteratorFree(c) ==
    /\ Listing(c, "item_list") /\ client[c].list = {}
    /\ LET p == client[c]
       IN  Local(c, [CollectionUnref(Skipped(p)) EXCEPT
                        !.pc = "idle", !.buffer = NULL, !.listed = {}, !.always = {}, !.ever = {},
                        !.result = [op |-> "item_list", got |-> p.listed,
                                    always |-> p.always, ever |-> p.ever]])

CollectionIteratorFree(c) ==
    /\ Listing(c, "collection_list") /\ client[c].list = {}
    /\ Local(c, [Skipped(client[c]) EXCEPT !.pc = "idle", !.buffer = NULL, !.listed = {}])

(* The process dies, and with it what it had not sent; what it sent is     *)
(* served, or lost.                                                        *)
Crash(c) ==
    /\ client[c].pc \in {"idle", "run"} /\ crashes < scenario.crashes
    /\ crashes' = crashes + 1
    /\ client' = [client EXCEPT ![c] = [Idle EXCEPT !.pc = "dead"]]
    /\ unclear' = IF \E path \in Paths : Works(c, Mutators, path)
                  THEN unclear \cup {client[c].path} ELSE unclear
    /\ UNCHANGED <<scenario, stores, refusals, directory, contents, raced>>

Next ==
    \/ \E c \in Clients :
          \/ CollectionCreate(c) \/ CollectionGet(c) \/ CollectionDelete(c) \/ CollectionRelease(c)
          \/ ItemCreate(c) \/ ItemGet(c) \/ ItemDelete(c) \/ ItemRead(c) \/ ItemWrite(c)
          \/ ItemGetStatus(c) \/ ItemRelease(c) \/ ItemIteratorNew(c) \/ CollectionIteratorNew(c)
          \/ SkipCall(c) \/ Return(c) \/ Crash(c)
          \/ ItemIteratorGet(c) \/ CollectionIteratorGet(c)
          \/ ItemIteratorFree(c) \/ CollectionIteratorFree(c)
    \/ \E c \in Clients, t \in Servers \cup KvServers : Send(c, t)
    \/ \E m \in net : Deliver(m) \/ Refuse(m)

Spec == Init /\ [][Next]_vars

-----------------------------------------------------------------------------
(* Properties.                                                             *)

(* Whoever finds the entry of an item finds its object on every server, in *)
(* every state between two messages and after the death of any client:     *)
(* j_item_create makes the object before the entry and j_item_delete       *)
(* deletes the entry before the object.  Excused are paths where a create  *)
(* and a delete have overlapped, which they also do when a client has died *)
(* and one of its messages is still on its way, where a call did not wait  *)
(* for its replies, and where a server refused to create its object, which *)
(* j_item_create does not notice.                                          *)
EntryHasObject ==
    \A path \in Paths \ raced :
        items[path] # NULL => \A s \in Servers : objects[s][path] # NULL

(* An item is a flat file, whoever opened it and however it is spread over *)
(* the servers: a read that no change overlaps brings what the last write  *)
(* wrote, and a status its size, if reader and writers have handles of the *)
(* same creation, one of them made by j_item_create, the others perhaps    *)
(* read back from the entry by j_item_get or an iterator.  A collection is *)
(* a directory of such files: an item iterator, which asks the servers at  *)
(* different times, brings every item that was in it all the while and     *)
(* none that never was, whether or not the collection itself was deleted   *)
(* and created again.  With SQLite the items of a collection whose name    *)
(* fits the pattern come, too.                                             *)
ItemsAreFiles ==
    \A c \in Clients : client[c].result # NULL =>
        LET result == client[c].result
        IN  IF result.op = "item_list"
            THEN result.always \subseteq result.got /\ result.got \subseteq result.ever
            ELSE result.got = result.due

(* The reference count of a collection is the number of those who have it: *)
(* the program, an item, a j_item_get on its way and an iterator; it is    *)
(* freed when the last of them lets go, and not before.                    *)
CollectionRefsExact ==
    \A c \in Clients :
        LET p == client[c]
            calling == p.pc = "run" /\ (\/ Call(c).op = "item_list"
                                        \/ Call(c).op = "item_get" /\ ~Answered(c))
            users == (IF p.coll # NULL /\ p.coll.own THEN 1 ELSE 0)
                        + (IF p.item # NULL THEN 1 ELSE 0) + (IF calling THEN 1 ELSE 0)
        IN  IF p.coll = NULL THEN users = 0 ELSE p.coll.ref = users /\ users > 0
=============================================================================
