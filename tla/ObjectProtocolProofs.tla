----------------------- MODULE ObjectProtocolProofs ------------------------
(* Proofs about ObjectProtocol.  First its server: the inductive invariant,*)
(* the lemmas it needs, and that whatever the server does preserves it.    *)
(* Then its client, and the theorems: framing, replies, results and order, *)
(* for any threads, connections, requests and sizes, the server dying or   *)
(* not.                                                                    *)
EXTENDS ObjectProtocol, SequenceTheorems, TLAPS

-----------------------------------------------------------------------------
(* The inductive invariant.                                                *)

Payloads == [kind : {"payload"}, id : Ids, n : Nat]
Items == Headers \cup Payloads
Replies == [id : Ids, results : Seq(Nat)]
ClientStates ==
    [pc : {"idle", "pop", "send", "receive", "push"}, n : 0 .. MaxRequests,
     req : Requests \cup {NULL}, conn : Connections \cup {NULL}, results : Seq(Nat), last : Nat,
     ret : BOOLEAN]
ServerStates ==
    [pc : {"receive", "open", "op", "finish"}, msg : Headers \cup {NULL}, i : Nat \ {0},
     file : BOOLEAN, reply : Seq(Nat), used : Nat]

(* The variables have their types.                                         *)
TypeOK ==
    /\ idle \in Seq(Connections) /\ fresh \subseteq Connections
    /\ up \in [Connections -> Seq(Items)] /\ down \in [Connections -> Seq(Replies)]
    /\ client \in [Threads -> ClientStates] /\ server \in [Connections -> ServerStates]
    /\ exists \in [Objects -> BOOLEAN] /\ size \in [Objects -> Nat]
    /\ unsynced \in [Objects -> SUBSET Ids] /\ alive \in BOOLEAN
    /\ progress \in [Ids -> {"none", "started", "done"}]
    /\ outcome \in [Ids -> Seq(Nat)] /\ issued \in [Ids -> Requests \cup {NULL}]

(* A thread in an exec function: what its position says.                   *)
PlacedFor(t) ==
    LET me == client[t] IN
    /\ me.pc \in {"send", "receive", "push"} <=> me.conn # NULL
    /\ me.pc # "idle" => me.n > 0
    /\ me.n > 0 => me.req # NULL /\ issued[<<t, me.n>>] = me.req
    /\ me.pc = "receive" => ServerReplies(me.req)
    /\ me.pc \in {"pop", "send"} =>
          progress[<<t, me.n>>] = "none" /\ (ServerReplies(me.req) => me.results = <<>>)
    /\ \A m \in 1 .. MaxRequests : m > me.n => progress[<<t, m>>] = "none"
Placed == \A t \in Threads : PlacedFor(t)

(* A connection is in one place.                                           *)
Apart ==
    /\ \A i, j \in 1 .. Len(idle) : idle[i] = idle[j] => i = j
    /\ \A i \in 1 .. Len(idle) : idle[i] \notin fresh
    /\ \A t \in Threads :
          /\ client[t].conn \notin fresh
          /\ \A i \in 1 .. Len(idle) : client[t].conn # idle[i]
          /\ \A u \in Threads : client[t].conn # NULL /\ client[t].conn = client[u].conn => t = u

(* A dead server has nothing.                                              *)
Dead == ~alive => \A c \in Connections : up[c] = <<>> /\ server[c] = Listening

HeaderAt(s, k) == k \in 1 .. Len(s) /\ s[k].kind = "header"
PayloadAt(s, k) == k \in 1 .. Len(s) /\ s[k].kind = "payload"
ReplyingAt(s, k) == HeaderAt(s, k) /\ ServerReplies(s[k].req)

(* How many items of data follow a header, and how many the server is      *)
(* still going to take.                                                    *)
Size(r) == IF r.type = "WRITE" THEN Len(r.ops) ELSE 0
Left(me) ==
    IF me.msg = NULL \/ me.pc = "finish" THEN 0
    ELSE IF me.msg.req.type # "WRITE" THEN 0 ELSE Len(me.msg.req.ops) - me.i + 1

(* Data is where the server takes it for data.                             *)
Frames(s, left) ==
    /\ \A j \in 1 .. left : PayloadAt(s, j)
    /\ \A k \in 1 .. Len(s) : HeaderAt(s, k) => \A j \in 1 .. Size(s[k].req) : PayloadAt(s, k + j)
Framed == \A c \in Connections : Frames(up[c], Left(server[c]))

(* If no write is larger than the server's chunk, a header is where the    *)
(* server looks for one.                                                   *)
Fits == \A r \in Requests : r.type = "WRITE" =>
            \A i \in 1 .. Len(r.ops) : r.ops[i].length <= memory_chunk_size
Aligns(s, left) ==
    /\ left + 1 \in 1 .. Len(s) => HeaderAt(s, left + 1)
    /\ \A k \in 1 .. Len(s) : HeaderAt(s, k) =>
          (k + Size(s[k].req) + 1 \in 1 .. Len(s) => HeaderAt(s, k + Size(s[k].req) + 1))
Aligned == \A c \in Connections : Aligns(up[c], Left(server[c]))

(* Messages on their way are those that were issued; one that is answered  *)
(* has not been begun.                                                     *)
Sent(id) ==
    \/ id[2] < client[id[1]].n
    \/ id[2] = client[id[1]].n /\ client[id[1]].pc \in {"receive", "push", "idle"}
Travel(h) ==
    /\ issued[h.id] = h.req /\ Sent(h.id)
    /\ ServerReplies(h.req) => progress[h.id] = "none"
Travels == \A c \in Connections : \A k \in 1 .. Len(up[c]) : HeaderAt(up[c], k) => Travel(up[c][k])

Transfers == {"READ", "WRITE"}
Synced(id) == \A o \in Objects : id \notin unsynced[o]

(* A server thread that works on a request which will be answered: me is   *)
(* its state and out what the request has brought so far.                  *)
Answers(me, out) ==
    LET r == me.msg.req IN
    /\ me.pc \in {"open", "op"} => me.i <= Len(r.ops)
    /\ r.type \in Transfers =>
          /\ me.pc = "open" => me.i = 1 /\ ~me.file
          /\ ~me.file => out = <<>>
    /\ r.type \notin Transfers \/ me.file => Len(out) = me.i - 1
    /\ me.pc = "finish" => \/ me.i = Len(r.ops) + 1
                           \/ r.type = "READ" /\ ~me.file
    /\ r.type # "READ" => me.reply = out
    /\ out # <<>> => me.reply # <<>>
    /\ me.reply = <<>> => me.used = 0 \/ r.type # "READ"
Answering(c) ==
    LET me == server[c]
        id == me.msg.id
        r == me.msg.req
    IN
    /\ progress[id] = "started" /\ Answers(me, outcome[id])
    /\ r.persistency = "STORAGE" /\ r.type = "CREATE" /\ me.pc # "op" => Synced(id)
    /\ r.persistency = "STORAGE" /\ r.type = "WRITE" /\ ~me.file => Synced(id)
WorksAt(c) ==
    LET me == server[c] IN
    /\ me.msg = NULL <=> me.pc = "receive"
    /\ me.pc = "receive" => me = Listening
    /\ me.msg # NULL =>
          /\ issued[me.msg.id] = me.msg.req
          /\ progress[me.msg.id] # "none"
          /\ me.msg.req.type = "WRITE" /\ me.pc \in {"open", "op"} => me.i <= Len(me.msg.req.ops)
          /\ me.msg.req.type = "WRITE" /\ me.pc = "open" => me.i = 1
          /\ ServerReplies(me.msg.req) => Answering(c)
Works == \A c \in Connections : WorksAt(c)

(* A connection nobody waits at has no reply on it or on its way.          *)
Silent(s) == \A k \in 1 .. Len(s) : ~ReplyingAt(s, k)
QuietAt(c) ==
    /\ down[c] = <<>> /\ Silent(up[c])
    /\ server[c].msg # NULL => ~ServerReplies(server[c].msg.req)
Waits(t, c) == client[t].pc = "receive" /\ client[t].conn = c
Quiet == \A c \in Connections : (\A t \in Threads : ~Waits(t, c)) => QuietAt(c)

(* One that somebody waits at has only replies to that request.            *)
Only(s, id) ==
    /\ \A k \in 1 .. Len(s) : ReplyingAt(s, k) => s[k].id = id
    /\ \A k, l \in 1 .. Len(s) : ReplyingAt(s, k) /\ ReplyingAt(s, l) => k = l
Serving(c, id) == server[c].msg # NULL /\ server[c].msg.id = id
OwnAt(c, id) ==
    /\ \A j \in 1 .. Len(down[c]) : down[c][j].id = id
    /\ Only(up[c], id)
    /\ server[c].msg # NULL /\ ServerReplies(server[c].msg.req) => server[c].msg.id = id
    /\ progress[id] = "none" => down[c] = <<>>
    /\ alive /\ progress[id] = "started" => Serving(c, id)

(* All but a read are answered by one reply.                               *)
PlainReply(c, id) ==
    /\ Len(down[c]) <= 1
    /\ down[c] # <<>> => progress[id] = "done" /\ down[c][1].results = outcome[id]

(* A read that could not open its object has an empty reply.               *)
Refused(c, id) ==
    Len(down[c]) = 1 /\ down[c][1].results = <<>> /\ outcome[id] = <<>> /\ progress[id] = "done"

(* Otherwise what the client has got, the replies on their way and the one *)
(* that is being made up, one after the other, are what the server did.    *)
Cuts(e, results, replies, out) ==
    /\ e \in [0 .. Len(replies) -> Nat] /\ e[0] = Len(results) /\ e[Len(replies)] <= Len(out)
    /\ \A j, k \in 0 .. Len(replies) : j < k => e[j] < e[k]
    /\ \A x \in 1 .. Len(results) : results[x] = out[x]
    /\ \A j \in 1 .. Len(replies) :
          /\ e[j] = e[j - 1] + Len(replies[j].results)
          /\ \A x \in 1 .. Len(replies[j].results) : replies[j].results[x] = out[e[j - 1] + x]
Ends(last, pending, out) ==
    /\ last + Len(pending) = Len(out)
    /\ \A x \in 1 .. Len(pending) : pending[x] = out[last + x]
Parts(results, replies, out) == \E e : Cuts(e, results, replies, out)
Whole(results, replies, pending, out) ==
    \E e : Cuts(e, results, replies, out) /\ Ends(e[Len(replies)], pending, out)
Pending(c, id) == IF Serving(c, id) THEN server[c].reply ELSE <<>>
TrackedFor(t) ==
    LET me == client[t]
        id == <<t, me.n>>
    IN
    me.pc = "receive" =>
        /\ OwnAt(me.conn, id)
        /\ me.req.type # "READ" => me.results = <<>> /\ PlainReply(me.conn, id)
        /\ me.req.type = "READ" =>
              \/ Refused(me.conn, id) /\ me.results = <<>>
              \/ alive /\ Whole(me.results, down[me.conn], Pending(me.conn, id), outcome[id])
              \/ ~alive /\ (down[me.conn] = <<>> \/ Parts(me.results, down[me.conn], outcome[id]))
Tracked == \A t \in Threads : TrackedFor(t)

(* What is known of a request that was begun, or done.                     *)
Complete(id) ==
    \/ issued[id].type \in Transfers /\ outcome[id] = <<>>
    \/ Len(outcome[id]) = Len(issued[id].ops)
RecordedOf(id) ==
    /\ progress[id] = "none" => outcome[id] = <<>> /\ Synced(id)
    /\ issued[id] # NULL /\ ServerReplies(issued[id]) =>
          /\ Len(outcome[id]) <= Len(issued[id].ops)
          /\ progress[id] = "done" => Complete(id)
    /\ issued[id] # NULL /\ issued[id].persistency = "STORAGE" /\ progress[id] = "done" => Synced(id)
    /\ \A o \in Objects : id \in unsynced[o] =>
          issued[id] # NULL /\ issued[id].object = o /\ issued[id].type \in {"CREATE", "WRITE"}
Recorded == \A id \in Ids : RecordedOf(id)

(* While the server is up, a request that was answered is done.            *)
Past(t, m) ==
    \/ m < client[t].n
    \/ m = client[t].n /\ client[t].pc \in {"push", "idle"}
Ordered ==
    alive => \A t \in Threads, m \in 1 .. MaxRequests :
                Past(t, m) /\ ServerReplies(issued[<<t, m>>]) => progress[<<t, m>>] = "done"

(* The exec function about to return.                                      *)
ReturnsFor(t) ==
    LET me == client[t]
        id == <<t, me.n>>
    IN
    me.pc = "push" /\ ServerReplies(me.req) =>
        /\ alive /\ me.req.type \in {"READ", "WRITE", "STATUS"} => me.results = outcome[id]
        /\ (alive \/ me.req.type = "WRITE") /\ me.ret =>
              progress[id] = "done" /\ Len(outcome[id]) = Len(me.req.ops)
Returns == \A t \in Threads : ReturnsFor(t)

IInv == /\ TypeOK /\ Placed /\ Apart /\ Dead /\ Framed /\ Travels /\ Works /\ Quiet /\ Tracked
        /\ Recorded /\ Ordered /\ Returns /\ ConfirmedInOrder

-----------------------------------------------------------------------------
(* Sequences.                                                              *)

LEMMA TailFacts ==
    ASSUME NEW S, NEW s \in Seq(S), s # <<>>
    PROVE  /\ Len(s) \in Nat \ {0} /\ Tail(s) \in Seq(S) /\ Len(Tail(s)) = Len(s) - 1
           /\ \A i \in 1 .. Len(s) - 1 : Tail(s)[i] = s[i + 1]
           /\ Head(s) = s[1] /\ Head(s) \in S
<1>1. Len(s) \in Nat /\ Len(s) # 0
  BY EmptySeq, LenProperties
<1>2. /\ Head(s) \in S /\ Tail(s) \in Seq(S) /\ Len(Tail(s)) = Len(s) - 1
      /\ \A i \in 1 .. Len(Tail(s)) : Tail(s)[i] = s[i + 1]
  BY HeadTailProperties
<1>3. Head(s) = s[1]
  BY <1>1
<1>4. QED
  BY <1>1, <1>2, <1>3

LEMMA AppendFacts ==
    ASSUME NEW S, NEW s \in Seq(S), NEW x \in S
    PROVE  /\ Len(s) \in Nat /\ Append(s, x) \in Seq(S) /\ Len(Append(s, x)) = Len(s) + 1
           /\ Append(s, x) # <<>> /\ Append(s, x)[Len(s) + 1] = x
           /\ \A i \in 1 .. Len(s) : Append(s, x)[i] = s[i]
BY AppendProperties, LenProperties

LEMMA ConcatFacts ==
    ASSUME NEW S, NEW s \in Seq(S), NEW u \in Seq(S)
    PROVE  /\ s \o u \in Seq(S) /\ Len(s \o u) = Len(s) + Len(u)
           /\ \A k \in 1 .. Len(s) : (s \o u)[k] = s[k]
           /\ \A k \in 1 .. Len(u) : (s \o u)[Len(s) + k] = u[k]
<1>0. PICK m \in Nat, l \in Nat : m = Len(s) /\ l = Len(u)
  BY LenProperties
<1>1. /\ s \o u \in Seq(S) /\ Len(s \o u) = m + l
      /\ \A i \in 1 .. m + l : (s \o u)[i] = IF i <= m THEN s[i] ELSE u[i - m]
  BY <1>0, ConcatProperties
<1>2. ASSUME NEW k \in 1 .. m PROVE (s \o u)[k] = s[k]
  <2>1. k \in 1 .. m + l /\ k <= m
    OBVIOUS
  <2>2. QED
    BY <1>1, <2>1
<1>3. ASSUME NEW k \in 1 .. l PROVE (s \o u)[m + k] = u[k]
  <2>1. m + k \in 1 .. m + l /\ ~(m + k <= m) /\ (m + k) - m = k
    OBVIOUS
  <2>2. QED
    BY <1>1, <2>1
<1>4. QED
  BY <1>0, <1>1, <1>2, <1>3

LEMMA Elements ==
    ASSUME NEW S, NEW s \in Seq(S)
    PROVE  Len(s) \in Nat /\ (\A k \in 1 .. Len(s) : s[k] \in S) /\ (s = <<>> <=> Len(s) = 0)
BY EmptySeq, LenProperties, ElementOfSeq

LEMMA RequestFacts ==
    ASSUME NEW r \in Requests
    PROVE  /\ r.type \in Types /\ r.object \in Objects /\ r.persistency \in Persistencies
           /\ r.ops \in Seq(Ranges) /\ Len(r.ops) \in Nat \ {0} /\ r # NULL
           /\ ServerReplies(r) = ClientExpectsReply(r)
           /\ r.type = "READ" => ServerReplies(r)
           /\ r.persistency = "STORAGE" => ServerReplies(r)
           /\ Size(r) \in Nat
<1>1. /\ r.type \in Types /\ r.object \in Objects /\ r.persistency \in Persistencies
      /\ r.ops \in Seq(Ranges) /\ r.ops # <<>> /\ r # NULL
  BY ProtocolAssumption
<1>2. Len(r.ops) \in Nat \ {0}
  BY <1>1, Elements
<1>3. QED
  BY <1>1, <1>2 DEF ServerReplies, ClientExpectsReply, Size

LEMMA ItemFacts ==
    ASSUME NEW s \in Seq(Items), NEW k \in 1 .. Len(s)
    PROVE  /\ s[k] \in Items /\ (HeaderAt(s, k) <=> ~PayloadAt(s, k))
           /\ HeaderAt(s, k) => s[k] \in Headers /\ s[k].req \in Requests /\ s[k].id \in Ids
<1>1. s[k] \in Items
  BY ElementOfSeq
<1>2. QED
  BY <1>1 DEF Items, Headers, Payloads, HeaderAt, PayloadAt

(* The items behind the first one.                                         *)
LEMMA TailItems ==
    ASSUME NEW s \in Seq(Items), s # <<>>
    PROVE  \A k \in Int :
              /\ k \in 1 .. Len(Tail(s)) => k + 1 \in 1 .. Len(s) /\ Tail(s)[k] = s[k + 1]
              /\ HeaderAt(Tail(s), k) <=> k >= 1 /\ HeaderAt(s, k + 1)
              /\ PayloadAt(Tail(s), k) <=> k >= 1 /\ PayloadAt(s, k + 1)
              /\ ReplyingAt(Tail(s), k) <=> k >= 1 /\ ReplyingAt(s, k + 1)
<1>0. PICK n \in Nat \ {0} : n = Len(s)
  BY TailFacts
<1>a. PICK r \in Seq(Items) : r = Tail(s)
  BY TailFacts, Zenon
<1>1. n = Len(s) /\ r = Tail(s) /\ Len(r) = n - 1 /\ \A i \in 1 .. n - 1 : r[i] = s[i + 1]
  BY <1>0, <1>a, TailFacts
<1>2. ASSUME NEW k \in Int
      PROVE  /\ k \in 1 .. Len(r) => k + 1 \in 1 .. n /\ r[k] = s[k + 1]
             /\ k \in 1 .. Len(r) <=> k >= 1 /\ k + 1 \in 1 .. n
  BY <1>1
<1>3. QED
  <2>1. ASSUME NEW k \in Int
        PROVE  /\ HeaderAt(r, k) <=> k >= 1 /\ HeaderAt(s, k + 1)
               /\ PayloadAt(r, k) <=> k >= 1 /\ PayloadAt(s, k + 1)
               /\ HeaderAt(r, k) => r[k] = s[k + 1]
    BY <1>1, <1>2 DEF HeaderAt, PayloadAt
  <2>2. ASSUME NEW k \in Int
        PROVE  ReplyingAt(r, k) <=> k >= 1 /\ ReplyingAt(s, k + 1)
    BY <2>1, Zenon DEF ReplyingAt
  <2>3. QED
    BY <1>1, <1>2, <2>1, <2>2

(* A message and its data behind what is on a stream.                      *)
LEMMA WrittenItems ==
    ASSUME NEW s \in Seq(Items), NEW id \in Ids, NEW r \in Requests
    PROVE  /\ s \o Written(id, r) \in Seq(Items)
           /\ Len(s \o Written(id, r)) = Len(s) + 1 + Size(r)
           /\ \A k \in 1 .. Len(s) : (s \o Written(id, r))[k] = s[k]
           /\ (s \o Written(id, r))[Len(s) + 1] = Header(id, r)
           /\ \A j \in 1 .. Size(r) : PayloadAt(s \o Written(id, r), Len(s) + 1 + j)
<1> DEFINE data == [n \in DOMAIN r.ops |-> Payload(id, n)]
           tail == IF r.type = "WRITE" THEN data ELSE << >>
<1>1. PICK m \in Nat : m = Len(s)
  BY LenProperties
<1>2. PICK l \in Nat \ {0} : l = Len(r.ops) /\ DOMAIN r.ops = 1 .. l
  BY RequestFacts, LenProperties
<1>3. data \in Seq(Items) /\ Len(data) = l /\ \A j \in 1 .. l : data[j].kind = "payload"
  <2>1. data = [n \in 1 .. l |-> Payload(id, n)]
    BY <1>2
  <2>2. \A n \in 1 .. l : Payload(id, n) \in Items /\ Payload(id, n).kind = "payload"
    BY DEF Payload, Items, Payloads
  <2>3. data \in [1 .. l -> Items]
    BY <2>1, <2>2
  <2>4. QED
    BY <2>1, <2>2, <2>3
<1>4. tail \in Seq(Items) /\ Len(tail) = Size(r) /\ \A j \in 1 .. Size(r) : tail[j].kind = "payload"
  <2>1. CASE r.type = "WRITE"
    BY <1>2, <1>3, <2>1, Zenon DEF Size
  <2>2. CASE r.type # "WRITE"
    BY <2>2 DEF Size
  <2>3. QED
    BY <2>1, <2>2
<1>5. Header(id, r) \in Items
  BY DEF Header, Items, Headers
<1>6. PICK z \in Nat : z = Size(r)
  BY RequestFacts
<1> HIDE DEF tail, data
<1>7. /\ <<Header(id, r)>> \in Seq(Items) /\ Len(<<Header(id, r)>>) = 1
      /\ <<Header(id, r)>>[1] = Header(id, r)
  BY <1>5
<1>8. PICK w \in Seq(Items) : w = <<Header(id, r)>> \o tail
  BY <1>4, <1>7, ConcatProperties, Zenon
<1>9. Len(w) = 1 + z /\ w[1] = Header(id, r) /\ \A j \in 1 .. z : w[1 + j].kind = "payload"
  <2>1. PICK one \in Seq(Items) : one = <<Header(id, r)>>
    BY <1>7, Zenon
  <2>2. Len(one) = 1 /\ one[1] = Header(id, r) /\ w = one \o tail /\ Len(tail) = z
    BY <1>4, <1>6, <1>7, <1>8, <2>1
  <2>3. /\ Len(w) = 1 + z /\ \A k \in 1 .. 1 : w[k] = one[k]
        /\ \A k \in 1 .. z : w[1 + k] = tail[k]
    <3>1. one \in Seq(Items) /\ tail \in Seq(Items) /\ 1 \in Nat /\ z \in Nat /\ 1 = Len(one) /\ z = Len(tail)
      BY <1>4, <2>2
    <3>2. /\ Len(one \o tail) = 1 + z /\ \A k \in 1 .. 1 : (one \o tail)[k] = one[k]
          /\ \A k \in 1 .. z : (one \o tail)[1 + k] = tail[k]
      <4>1. /\ Len(one \o tail) = Len(one) + Len(tail) /\ \A k \in 1 .. Len(one) : (one \o tail)[k] = one[k]
            /\ \A k \in 1 .. Len(tail) : (one \o tail)[Len(one) + k] = tail[k]
        BY <3>1, ConcatFacts
      <4>2. QED
        BY <3>1, <4>1, Zenon
    <3>3. QED
      BY <2>2, <3>2, Zenon
  <2>4. ASSUME NEW j \in 1 .. z PROVE w[1 + j].kind = "payload"
    BY <1>4, <1>6, <2>3
  <2>5. QED
    BY <2>2, <2>3, <2>4
<1>10. w = Written(id, r)
  BY <1>8, Zenon DEF Written, tail, data
<1>11. /\ s \o w \in Seq(Items) /\ Len(s \o w) = m + (1 + z)
       /\ \A k \in 1 .. m : (s \o w)[k] = s[k]
       /\ \A k \in 1 .. 1 + z : (s \o w)[m + k] = w[k]
  <2>1. 1 + z \in Nat /\ 1 + z = Len(w) /\ m = Len(s)
    BY <1>1, <1>9
  <2>2. QED
    <3>1. /\ s \o w \in Seq(Items) /\ Len(s \o w) = Len(s) + Len(w)
          /\ \A k \in 1 .. Len(s) : (s \o w)[k] = s[k]
          /\ \A k \in 1 .. Len(w) : (s \o w)[Len(s) + k] = w[k]
      BY ConcatFacts
    <3>2. QED
      BY <2>1, <3>1
<1>12. (s \o w)[m + 1] = Header(id, r)
  BY <1>9, <1>11
<1>13. ASSUME NEW j \in 1 .. z PROVE PayloadAt(s \o w, m + 1 + j)
  <2>1. 1 + j \in 1 .. 1 + z /\ m + (1 + j) = m + 1 + j /\ m + 1 + j \in 1 .. m + (1 + z)
    OBVIOUS
  <2>2. (s \o w)[m + 1 + j] = w[1 + j]
    BY <1>11, <2>1
  <2>3. QED
    BY <1>9, <1>11, <2>1, <2>2 DEF PayloadAt
<1>14. QED
  <2>1. Len(s \o w) = m + 1 + z
    BY <1>11
  <2>2. QED
    BY <1>1, <1>6, <1>10, <1>11, <1>12, <1>13, <2>1, Zenon

LEMMA WrittenHeaders ==
    ASSUME NEW s \in Seq(Items), NEW id \in Ids, NEW r \in Requests,
           NEW k \in 1 .. Len(s \o Written(id, r)), HeaderAt(s \o Written(id, r), k)
    PROVE  \/ k \in 1 .. Len(s) /\ HeaderAt(s, k) /\ (s \o Written(id, r))[k] = s[k]
           \/ k = Len(s) + 1 /\ (s \o Written(id, r))[k] = Header(id, r)
<1>1. PICK m \in Nat : m = Len(s)
  BY LenProperties
<1>2. PICK z \in Nat : z = Size(r)
  BY RequestFacts
<1>3. PICK w \in Seq(Items) : w = s \o Written(id, r)
  BY WrittenItems, Zenon
<1>4. /\ Len(w) = m + 1 + z /\ \A i \in 1 .. m : w[i] = s[i]
      /\ w[m + 1] = Header(id, r) /\ \A j \in 1 .. z : PayloadAt(w, m + 1 + j)
  BY <1>1, <1>2, <1>3, WrittenItems
<1>5. k \in 1 .. m + 1 + z /\ HeaderAt(w, k)
  BY <1>3, <1>4
<1>6. CASE k \in 1 .. m
  BY <1>1, <1>3, <1>4, <1>5, <1>6 DEF HeaderAt
<1>7. CASE k = m + 1
  BY <1>1, <1>3, <1>4, <1>7
<1>8. CASE k \notin 1 .. m + 1
  <2>1. PICK j \in 1 .. z : k = m + 1 + j
    <3>1. k - (m + 1) \in 1 .. z /\ k = m + 1 + (k - (m + 1))
      BY <1>5, <1>8
    <3>2. QED
      BY <3>1
  <2>2. PayloadAt(w, k)
    BY <1>4, <2>1, Zenon
  <2>3. QED
    BY <1>5, <2>2 DEF HeaderAt, PayloadAt
<1>9. QED
  BY <1>6, <1>7, <1>8

-----------------------------------------------------------------------------
(* Frames.                                                                 *)

LEMMA FramesLess ==
    ASSUME NEW s, NEW left \in Nat, NEW less \in Nat, less <= left, Frames(s, left)
    PROVE  Frames(s, less)
BY DEF Frames

(* The blocks behind the first item.                                       *)
LEMMA FramesTail ==
    ASSUME NEW s \in Seq(Items), s # <<>>, NEW left \in Nat, Frames(s, left), NEW rest \in Nat,
           \A j \in 1 .. rest : PayloadAt(s, j + 1)
    PROVE  Frames(Tail(s), rest)
<1>1. PICK n \in Nat \ {0} : n = Len(s)
  BY TailFacts
<1>2. PICK r \in Seq(Items) : r = Tail(s)
  BY TailFacts, Zenon
<1>3. Len(r) = n - 1
  BY <1>1, <1>2, TailFacts
<1>4. \A k \in Int : /\ k \in 1 .. Len(r) => k + 1 \in 1 .. n /\ r[k] = s[k + 1]
                     /\ HeaderAt(r, k) <=> k >= 1 /\ HeaderAt(s, k + 1)
                     /\ PayloadAt(r, k) <=> k >= 1 /\ PayloadAt(s, k + 1)
  BY <1>1, <1>2, TailItems
<1>5. \A j \in 1 .. rest : PayloadAt(r, j)
  BY <1>4
<1>6. ASSUME NEW k \in 1 .. Len(r), HeaderAt(r, k), NEW j \in 1 .. Size(r[k].req) PROVE PayloadAt(r, k + j)
  <2>1. k + 1 \in 1 .. n /\ r[k] = s[k + 1] /\ HeaderAt(s, k + 1)
    BY <1>3, <1>4, <1>6
  <2>2. s[k + 1].req \in Requests
    BY <1>1, <2>1, ItemFacts
  <2>3. PICK z \in Nat : z = Size(s[k + 1].req)
    BY <2>2, RequestFacts
  <2>4. j \in 1 .. z
    BY <1>6, <2>1, <2>3
  <2>5. PayloadAt(s, k + 1 + j)
    BY <1>1, <2>1, <2>3, <2>4 DEF Frames
  <2>6. k + j \in Int /\ k + j >= 1 /\ (k + j) + 1 = k + 1 + j
    BY <1>3, <2>4
  <2>7. QED
    BY <1>4, <2>5, <2>6
<1>7. QED
  BY <1>2, <1>5, <1>6 DEF Frames

(* The server takes the data of a write...                                 *)
LEMMA FramesTake ==
    ASSUME NEW s \in Seq(Items), NEW left \in Nat \ {0}, Frames(s, left)
    PROVE  s # <<>> /\ PayloadAt(s, 1) /\ Frames(Tail(s), left - 1)
<1>1. PayloadAt(s, 1)
  BY DEF Frames
<1>2. s # <<>>
  BY <1>1, Elements DEF PayloadAt
<1>3. \A j \in 1 .. left - 1 : PayloadAt(s, j + 1)
  BY DEF Frames
<1>4. QED
  BY <1>1, <1>2, <1>3, FramesTail

(* ...and a header, behind which its data is.                              *)
LEMMA FramesHeader ==
    ASSUME NEW s \in Seq(Items), s # <<>>, NEW left \in Nat, Frames(s, left), Head(s).kind = "header"
    PROVE  /\ HeaderAt(s, 1) /\ Head(s) = s[1] /\ Head(s) \in Headers /\ Size(Head(s).req) \in Nat
           /\ Frames(Tail(s), Size(Head(s).req))
<1>1. PICK n \in Nat \ {0} : n = Len(s)
  BY TailFacts
<1>2. HeaderAt(s, 1) /\ Head(s) = s[1] /\ 1 \in 1 .. Len(s)
  BY <1>1, TailFacts DEF HeaderAt
<1>3. s[1].req \in Requests /\ s[1] \in Headers
  BY <1>2, ItemFacts
<1>4. PICK z \in Nat : z = Size(s[1].req)
  BY <1>3, RequestFacts
<1>5. \A j \in 1 .. z : PayloadAt(s, 1 + j)
  BY <1>2, <1>4 DEF Frames
<1>6. \A j \in 1 .. z : PayloadAt(s, j + 1)
  <2>1. \A j \in 1 .. z : j + 1 = 1 + j
    OBVIOUS
  <2>2. QED
    BY <1>5, <2>1
<1>7. Frames(Tail(s), z)
  BY <1>6, FramesTail
<1>8. QED
  BY <1>2, <1>3, <1>4, <1>7

LEMMA FramesWritten ==
    ASSUME NEW s \in Seq(Items), NEW left \in Nat, Frames(s, left), NEW id \in Ids, NEW r \in Requests
    PROVE  Frames(s \o Written(id, r), left)
<1>1. PICK m \in Nat : m = Len(s)
  BY LenProperties
<1>2. PICK z \in Nat : z = Size(r)
  BY RequestFacts
<1>3. PICK w \in Seq(Items) : w = s \o Written(id, r)
  BY WrittenItems, Zenon
<1>4. /\ Len(w) = m + 1 + z /\ \A i \in 1 .. m : w[i] = s[i]
      /\ w[m + 1] = Header(id, r) /\ \A j \in 1 .. z : PayloadAt(w, m + 1 + j)
  BY <1>1, <1>2, <1>3, WrittenItems
<1>5. \A k : PayloadAt(s, k) => PayloadAt(w, k)
  BY <1>1, <1>4 DEF PayloadAt
<1>6. ASSUME NEW k \in 1 .. Len(w), HeaderAt(w, k), NEW j \in 1 .. Size(w[k].req) PROVE PayloadAt(w, k + j)
  <2>1. \/ k \in 1 .. m /\ HeaderAt(s, k) /\ w[k] = s[k]
        \/ k = m + 1 /\ w[k] = Header(id, r)
    BY <1>1, <1>3, <1>6, WrittenHeaders
  <2>2. CASE k \in 1 .. m /\ HeaderAt(s, k) /\ w[k] = s[k]
    BY <1>1, <1>5, <1>6, <2>2 DEF Frames
  <2>3. CASE k = m + 1 /\ w[k] = Header(id, r)
    <3>1. Size(w[k].req) = z
      BY <1>2, <2>3 DEF Header
    <3>2. QED
      BY <1>4, <1>6, <2>3, <3>1, Zenon
  <2>4. QED
    BY <2>1, <2>2, <2>3
<1>7. \A j \in 1 .. left : PayloadAt(w, j)
  BY <1>5 DEF Frames
<1>8. QED
  BY <1>3, <1>6, <1>7 DEF Frames

(* Headers behind the first item follow the data before them.              *)
LEMMA AlignsTail ==
    ASSUME NEW s \in Seq(Items), s # <<>>, NEW left \in Nat, Aligns(s, left), NEW rest \in Nat,
           rest + 2 \in 1 .. Len(s) => HeaderAt(s, rest + 2)
    PROVE  Aligns(Tail(s), rest)
<1>1. PICK n \in Nat \ {0} : n = Len(s)
  BY TailFacts
<1>2. PICK r \in Seq(Items) : r = Tail(s)
  BY TailFacts, Zenon
<1>3. Len(r) = n - 1
  BY <1>1, <1>2, TailFacts
<1>4. \A k \in Int : /\ k \in 1 .. Len(r) => k + 1 \in 1 .. n /\ r[k] = s[k + 1]
                     /\ HeaderAt(r, k) <=> k >= 1 /\ HeaderAt(s, k + 1)
  BY <1>1, <1>2, TailItems
<1>5. ASSUME rest + 1 \in 1 .. Len(r) PROVE HeaderAt(r, rest + 1)
  <2>1. rest + 2 \in 1 .. n /\ rest + 2 = (rest + 1) + 1 /\ rest + 1 \in Int /\ rest + 1 >= 1
    BY <1>3, <1>5
  <2>2. HeaderAt(s, (rest + 1) + 1)
    BY <1>1, <2>1
  <2>3. QED
    BY <1>4, <2>1, <2>2
<1>6. ASSUME NEW k \in 1 .. Len(r), HeaderAt(r, k), k + Size(r[k].req) + 1 \in 1 .. Len(r)
      PROVE  HeaderAt(r, k + Size(r[k].req) + 1)
  <2>1. k + 1 \in 1 .. n /\ r[k] = s[k + 1] /\ HeaderAt(s, k + 1) /\ k \in Int
    BY <1>3, <1>4, <1>6
  <2>2. PICK z \in Nat : z = Size(s[k + 1].req)
    <3>1. s[k + 1].req \in Requests
      BY <1>1, <2>1, ItemFacts
    <3>2. QED
      BY <3>1, RequestFacts
  <2>3. Size(r[k].req) = z /\ k + z + 1 \in 1 .. n - 1
    BY <1>3, <1>6, <2>1, <2>2
  <2>4. (k + 1) + z + 1 \in 1 .. n /\ (k + 1) + z + 1 = (k + z + 1) + 1 /\ k + z + 1 \in Int
    BY <2>1, <2>3
  <2>5. HeaderAt(s, (k + 1) + z + 1)
    BY <1>1, <2>1, <2>2, <2>4 DEF Aligns
  <2>6. HeaderAt(r, k + z + 1)
    BY <1>4, <2>3, <2>4, <2>5
  <2>7. QED
    BY <2>3, <2>6
<1>7. QED
  BY <1>2, <1>5, <1>6 DEF Aligns

LEMMA AlignsTake ==
    ASSUME NEW s \in Seq(Items), s # <<>>, NEW left \in Nat \ {0}, Aligns(s, left)
    PROVE  Aligns(Tail(s), left - 1)
<1>1. PICK n \in Nat : n = Len(s)
  BY LenProperties
<1>2. left - 1 \in Nat /\ (left - 1) + 2 = left + 1
  OBVIOUS
<1>3. (left - 1) + 2 \in 1 .. Len(s) => HeaderAt(s, (left - 1) + 2)
  BY <1>2 DEF Aligns
<1>4. QED
  BY <1>2, <1>3, AlignsTail

LEMMA AlignsHeader ==
    ASSUME NEW s \in Seq(Items), s # <<>>, NEW left \in Nat, Aligns(s, left), Head(s).kind = "header"
    PROVE  Aligns(Tail(s), Size(Head(s).req))
<1>1. PICK n \in Nat \ {0} : n = Len(s)
  BY TailFacts
<1>2. HeaderAt(s, 1) /\ Head(s) = s[1] /\ 1 \in 1 .. Len(s)
  BY <1>1, TailFacts DEF HeaderAt
<1>3. s[1].req \in Requests
  BY <1>2, ItemFacts
<1>4. PICK z \in Nat : z = Size(s[1].req)
  BY <1>3, RequestFacts
<1>5. 1 + z + 1 = z + 2
  OBVIOUS
<1>6. z + 2 \in 1 .. Len(s) => HeaderAt(s, z + 2)
  BY <1>2, <1>4, <1>5 DEF Aligns
<1>7. Aligns(Tail(s), z)
  BY <1>6, AlignsTail
<1>8. QED
  BY <1>2, <1>4, <1>7

LEMMA AlignsWritten ==
    ASSUME NEW s \in Seq(Items), NEW left \in Nat, Frames(s, left), Aligns(s, left),
           NEW id \in Ids, NEW r \in Requests
    PROVE  Aligns(s \o Written(id, r), left)
<1>1. PICK m \in Nat : m = Len(s)
  BY LenProperties
<1>2. PICK z \in Nat : z = Size(r)
  BY RequestFacts
<1>3. PICK w \in Seq(Items) : w = s \o Written(id, r)
  BY WrittenItems, Zenon
<1>4. /\ Len(w) = m + 1 + z /\ \A i \in 1 .. m : w[i] = s[i]
      /\ w[m + 1] = Header(id, r)
  BY <1>1, <1>2, <1>3, WrittenItems
<1>5. (\A k : HeaderAt(s, k) => HeaderAt(w, k)) /\ HeaderAt(w, m + 1)
  BY <1>1, <1>4 DEF HeaderAt, Header
<1>6. ASSUME NEW k \in 1 .. Len(w), HeaderAt(w, k), k + Size(w[k].req) + 1 \in 1 .. Len(w)
      PROVE  HeaderAt(w, k + Size(w[k].req) + 1)
  <2>1. \/ k \in 1 .. m /\ HeaderAt(s, k) /\ w[k] = s[k]
        \/ k = m + 1 /\ w[k] = Header(id, r)
    BY <1>1, <1>3, <1>6, WrittenHeaders
  <2>2. CASE k \in 1 .. m /\ HeaderAt(s, k) /\ w[k] = s[k]
    <3>1. PICK y \in Nat : y = Size(s[k].req)
      <4>1. s[k].req \in Requests
        BY <1>1, <2>2, ItemFacts
      <4>2. QED
        BY <4>1, RequestFacts
    <3>2. k + y <= m
      <4>1. CASE y = 0
        BY <2>2, <4>1
      <4>2. CASE y # 0
        <5>1. PayloadAt(s, k + y)
          BY <1>1, <2>2, <3>1, <4>2 DEF Frames
        <5>2. QED
          BY <1>1, <2>2, <5>1 DEF PayloadAt
      <4>3. QED
        BY <4>1, <4>2
    <3>3. k + y + 1 \in 1 .. m \/ k + y + 1 = m + 1
      BY <2>2, <3>2
    <3>4. k + y + 1 \in 1 .. m => HeaderAt(s, k + y + 1)
      BY <1>1, <2>2, <3>1, Zenon DEF Aligns
    <3>5. HeaderAt(w, k + y + 1)
      BY <1>5, <3>3, <3>4
    <3>6. QED
      BY <2>2, <3>1, <3>5
  <2>3. CASE k = m + 1 /\ w[k] = Header(id, r)
    <3>1. Size(w[k].req) = z
      BY <1>2, <2>3 DEF Header
    <3>2. QED
      BY <1>4, <1>6, <2>3, <3>1
  <2>4. QED
    BY <2>1, <2>2, <2>3
<1>7. ASSUME left + 1 \in 1 .. Len(w) PROVE HeaderAt(w, left + 1)
  <2>1. left <= m
    <3>1. CASE left = 0
      BY <3>1
    <3>2. CASE left # 0
      BY <1>1, <3>2 DEF Frames, PayloadAt
    <3>3. QED
      BY <3>1, <3>2
  <2>2. left + 1 \in 1 .. m \/ left + 1 = m + 1
    BY <2>1
  <2>3. left + 1 \in 1 .. m => HeaderAt(s, left + 1)
    BY <1>1 DEF Aligns
  <2>4. QED
    BY <1>5, <2>2, <2>3
<1>8. QED
  BY <1>3, <1>6, <1>7, Zenon DEF Aligns

-----------------------------------------------------------------------------
(* Requests that are answered.                                             *)

LEMMA SilentTail ==
    ASSUME NEW s \in Seq(Items), s # <<>>, Silent(s) PROVE Silent(Tail(s))
<1>1. PICK n \in Nat : n = Len(Tail(s))
  BY TailFacts, LenProperties
<1>2. ASSUME NEW k \in 1 .. Len(Tail(s)), ReplyingAt(Tail(s), k) PROVE FALSE
  <2>1. k \in Int /\ k + 1 \in 1 .. Len(s) /\ ReplyingAt(s, k + 1)
    BY <1>1, <1>2, TailItems
  <2>2. QED
    BY <2>1 DEF Silent
<1>3. QED
  BY <1>2 DEF Silent

LEMMA OnlyTail ==
    ASSUME NEW s \in Seq(Items), s # <<>>, NEW id, Only(s, id)
    PROVE  Only(Tail(s), id)
<1>1. PICK n \in Nat : n = Len(Tail(s))
  BY TailFacts, LenProperties
<1>2. ASSUME NEW k \in 1 .. n, ReplyingAt(Tail(s), k)
      PROVE  k \in Int /\ k + 1 \in 1 .. Len(s) /\ ReplyingAt(s, k + 1) /\ Tail(s)[k] = s[k + 1]
  BY <1>1, <1>2, TailItems
<1>3. ASSUME NEW k \in 1 .. n, ReplyingAt(Tail(s), k) PROVE Tail(s)[k].id = id
  BY <1>2, <1>3 DEF Only
<1>4. ASSUME NEW k \in 1 .. n, NEW l \in 1 .. n, ReplyingAt(Tail(s), k), ReplyingAt(Tail(s), l) PROVE k = l
  <2>1. k + 1 = l + 1
    BY <1>2, <1>4 DEF Only
  <2>2. QED
    BY <2>1
<1>5. QED
  BY <1>1, <1>3, <1>4 DEF Only

(* The server takes the message everybody waits for.                       *)
LEMMA OnlyHeader ==
    ASSUME NEW s \in Seq(Items), s # <<>>, NEW id, Only(s, id), ReplyingAt(s, 1)
    PROVE  Head(s).id = id /\ Silent(Tail(s))
<1>1. PICK n \in Nat : n = Len(Tail(s))
  BY TailFacts, LenProperties
<1>2. 1 \in 1 .. Len(s) /\ Head(s) = s[1]
  BY TailFacts
<1>3. ASSUME NEW k \in 1 .. Len(Tail(s)), ReplyingAt(Tail(s), k) PROVE FALSE
  <2>1. k \in 1 .. n /\ k \in Int /\ k + 1 \in 1 .. Len(s) /\ ReplyingAt(s, k + 1)
    BY <1>1, <1>3, TailItems
  <2>2. k + 1 = 1
    BY <1>2, <2>1 DEF Only
  <2>3. QED
    BY <2>1, <2>2
<1>4. QED
  BY <1>2, <1>3 DEF Only, Silent

LEMMA SilentOnly == ASSUME NEW s, NEW id, Silent(s) PROVE Only(s, id)
BY DEF Silent, Only

LEMMA OnlyWritten ==
    ASSUME NEW s \in Seq(Items), Silent(s), NEW id \in Ids, NEW r \in Requests
    PROVE  /\ Only(s \o Written(id, r), id)
           /\ ~ServerReplies(r) => Silent(s \o Written(id, r))
<1>1. PICK w \in Seq(Items) : w = s \o Written(id, r)
  BY WrittenItems, Zenon
<1>2. ASSUME NEW k \in 1 .. Len(w), ReplyingAt(w, k)
      PROVE  k = Len(s) + 1 /\ w[k] = Header(id, r) /\ ServerReplies(r)
  <2>1. HeaderAt(w, k)
    BY <1>2 DEF ReplyingAt
  <2>2. \/ k \in 1 .. Len(s) /\ HeaderAt(s, k) /\ w[k] = s[k]
        \/ k = Len(s) + 1 /\ w[k] = Header(id, r)
    BY <1>1, <2>1, WrittenHeaders
  <2>3. ~(k \in 1 .. Len(s) /\ HeaderAt(s, k) /\ w[k] = s[k])
    BY <1>2 DEF Silent, ReplyingAt
  <2>4. QED
    BY <1>2, <2>2, <2>3 DEF ReplyingAt, Header
<1>3. QED
  BY <1>1, <1>2 DEF Only, Silent, Header

-----------------------------------------------------------------------------
(* The replies to a read.                                                  *)

LEMMA CutsFacts ==
    ASSUME NEW e, NEW results \in Seq(Nat), NEW replies \in Seq(Replies), NEW out \in Seq(Nat),
           Cuts(e, results, replies, out)
    PROVE  /\ \A j \in 0 .. Len(replies) : e[j] \in Nat /\ e[j] <= e[Len(replies)] /\ e[j] <= Len(out)
           /\ \A j \in 1 .. Len(replies) :
                 /\ replies[j].results \in Seq(Nat) /\ Len(replies[j].results) \in Nat
                 /\ e[j - 1] \in Nat /\ e[j] = e[j - 1] + Len(replies[j].results)
           /\ e[Len(replies)] \in Nat /\ e[0] \in Nat /\ e[Len(replies)] <= Len(out) /\ e[0] = Len(results)
<1>0. PICK n \in Nat, l \in Nat : n = Len(replies) /\ l = Len(out)
  BY LenProperties
<1>1. /\ e \in [0 .. n -> Nat] /\ (\A j, k \in 0 .. n : j < k => e[j] < e[k])
      /\ (\A j \in 1 .. n : e[j] = e[j - 1] + Len(replies[j].results))
      /\ e[n] <= l /\ e[0] = Len(results)
  BY <1>0 DEF Cuts
<1>2. n \in 0 .. n /\ 0 \in 0 .. n
  OBVIOUS
<1>3. e[n] \in Nat /\ e[0] \in Nat
  BY <1>1, <1>2
<1>4. ASSUME NEW j \in 0 .. n PROVE e[j] \in Nat /\ e[j] <= e[n] /\ e[j] <= l
  <2>1. e[j] \in Nat
    BY <1>1
  <2>2. j = n \/ j < n
    OBVIOUS
  <2>3. e[j] <= e[n]
    BY <1>1, <1>2, <1>3, <2>1, <2>2
  <2>4. QED
    BY <1>1, <1>3, <2>1, <2>3
<1>5. ASSUME NEW j \in 1 .. n
      PROVE  replies[j].results \in Seq(Nat) /\ Len(replies[j].results) \in Nat /\ e[j - 1] \in Nat
  <2>1. replies[j] \in Replies
    BY <1>0, ElementOfSeq
  <2>2. replies[j].results \in Seq(Nat)
    BY <2>1 DEF Replies
  <2>3. j - 1 \in 0 .. n
    OBVIOUS
  <2>4. QED
    BY <1>1, <2>2, <2>3, LenProperties, Zenon
<1>6. QED
  BY <1>0, <1>1, <1>3, <1>4, <1>5, Zenon

LEMMA WholeStart == Whole(<<>>, <<>>, <<>>, <<>>)
<1> DEFINE e == [j \in 0 .. 0 |-> 0]
<1>1. Len(<<>>) = 0
  OBVIOUS
<1>2. Cuts(e, <<>>, <<>>, <<>>) /\ Ends(e[0], <<>>, <<>>)
  BY <1>1 DEF Cuts, Ends
<1>3. QED
  BY <1>1, <1>2 DEF Whole

LEMMA WholeParts ==
    ASSUME NEW results, NEW replies, NEW pending, NEW out, Whole(results, replies, pending, out)
    PROVE  Parts(results, replies, out)
BY DEF Whole, Parts

(* The server adds a result.                                               *)
LEMMA WholeGrow ==
    ASSUME NEW results \in Seq(Nat), NEW replies \in Seq(Replies), NEW pending \in Seq(Nat),
           NEW out \in Seq(Nat), Whole(results, replies, pending, out), NEW x \in Nat
    PROVE  Whole(results, replies, Append(pending, x), Append(out, x))
<1>1. PICK e : Cuts(e, results, replies, out) /\ Ends(e[Len(replies)], pending, out)
  BY DEF Whole
<1>2. PICK n \in Nat, p \in Nat, l \in Nat : n = Len(replies) /\ p = Len(pending) /\ l = Len(out)
  BY LenProperties
<1>3. /\ \A j \in 0 .. n : e[j] \in Nat /\ e[j] <= e[n] /\ e[j] <= l
      /\ \A j \in 1 .. n : /\ replies[j].results \in Seq(Nat) /\ Len(replies[j].results) \in Nat
                           /\ e[j - 1] \in Nat /\ e[j] = e[j - 1] + Len(replies[j].results)
      /\ e[n] \in Nat /\ e[0] \in Nat /\ e[n] <= l /\ e[0] = Len(results)
  BY <1>1, <1>2, CutsFacts, Zenon, SMTT(40)
<1>4. PICK more \in Seq(Nat), all \in Seq(Nat) : more = Append(pending, x) /\ all = Append(out, x)
  BY AppendFacts, Zenon
<1>5. /\ Len(more) = p + 1 /\ more[p + 1] = x /\ \A i \in 1 .. p : more[i] = pending[i]
      /\ Len(all) = l + 1 /\ all[l + 1] = x /\ \A i \in 1 .. l : all[i] = out[i]
  BY <1>2, <1>4, AppendFacts
<1>6. Cuts(e, results, replies, all)
  <2>1. ASSUME NEW j \in 1 .. n, NEW y \in 1 .. Len(replies[j].results)
        PROVE  replies[j].results[y] = all[e[j - 1] + y]
    <3>0. PICK a \in Nat, b \in Nat : a = e[j - 1] /\ b = Len(replies[j].results) /\ a + b <= l
      <4>1. j \in 0 .. n
        OBVIOUS
      <4>2. QED
        BY <1>3, <4>1, Zenon
    <3>a. y \in 1 .. b
      BY <3>0, Zenon
    <3>b. a + b <= l
      BY <3>0, Zenon
    <3>1. a + y \in 1 .. l
      BY <3>a, <3>b
    <3>2. replies[j].results[y] = out[e[j - 1] + y]
      BY <1>1, <1>2 DEF Cuts
    <3>3. QED
      BY <1>5, <3>0, <3>1, <3>2, Zenon
  <2>2. \A y \in 1 .. Len(results) : results[y] = all[y]
    <3>1. PICK m \in Nat : m = Len(results) /\ m <= l
      BY <1>3
    <3>2. \A y \in 1 .. m : y \in 1 .. l
      BY <3>1
    <3>3. QED
      BY <1>1, <1>5, <3>1, <3>2 DEF Cuts
  <2>3. e[Len(replies)] <= Len(all)
    BY <1>2, <1>3, <1>5
  <2>4. QED
    BY <1>1, <1>2, <2>1, <2>2, <2>3 DEF Cuts
<1>7. PICK a \in Nat : a = e[n] /\ a + p = l
  BY <1>1, <1>2, <1>3 DEF Ends
<1>7a. a + p = l
  BY <1>7, Zenon
<1>8. ASSUME NEW y \in 1 .. p + 1 PROVE more[y] = all[a + y]
  <2>1. CASE y = p + 1
    <3>1. a + (p + 1) = l + 1
      BY <1>7a
    <3>2. QED
      BY <1>5, <2>1, <3>1, Zenon
  <2>2. CASE y # p + 1
    <3>1. y \in 1 .. p /\ a + y \in 1 .. l
      BY <1>7a, <2>2
    <3>2. pending[y] = out[a + y]
      BY <1>1, <1>2, <1>7, <3>1 DEF Ends
    <3>3. QED
      BY <1>5, <3>1, <3>2
  <2>3. QED
    BY <2>1, <2>2
<1>9. a + (p + 1) = l + 1
  BY <1>7a
<1>10. Ends(a, more, all)
  BY <1>5, <1>8, <1>9, Zenon DEF Ends
<1>11. QED
  BY <1>2, <1>4, <1>6, <1>7, <1>10 DEF Whole

(* The chunk is full: the reply is sent, another one is begun.             *)
LEMMA WholeFlush ==
    ASSUME NEW results \in Seq(Nat), NEW replies \in Seq(Replies), NEW pending \in Seq(Nat),
           NEW out \in Seq(Nat), Whole(results, replies, pending, out), pending # <<>>, NEW id \in Ids
    PROVE  Whole(results, Append(replies, Reply(id, pending)), <<>>, out)
<1>1. PICK e : Cuts(e, results, replies, out) /\ Ends(e[Len(replies)], pending, out)
  BY DEF Whole
<1>2. PICK n \in Nat, p \in Nat, l \in Nat : n = Len(replies) /\ p = Len(pending) /\ l = Len(out)
  BY LenProperties
<1>2a. p # 0
  BY <1>2, Elements
<1>3. /\ \A j \in 0 .. n : e[j] \in Nat /\ e[j] <= e[n] /\ e[j] <= l
      /\ e[n] \in Nat /\ e[0] \in Nat /\ e[n] <= l /\ e[0] = Len(results)
  BY <1>1, <1>2, CutsFacts, Zenon
<1>4. Reply(id, pending) \in Replies /\ Reply(id, pending).results = pending
  BY DEF Reply, Replies
<1>5. PICK more \in Seq(Replies) : more = Append(replies, Reply(id, pending))
  BY <1>4, AppendFacts, Zenon
<1>6. Len(more) = n + 1 /\ more[n + 1].results = pending /\ \A i \in 1 .. n : more[i] = replies[i]
  BY <1>2, <1>4, <1>5, AppendFacts
<1>7. PICK a \in Nat : a = e[n] /\ a + p = l
  BY <1>1, <1>2, <1>3, Zenon DEF Ends
<1>7a. a + p = l /\ a < l /\ l <= l
  <2>1. a + p = l
    BY <1>7, Zenon
  <2>2. QED
    BY <1>2a, <2>1
<1> DEFINE f == [j \in 0 .. n + 1 |-> IF j = n + 1 THEN l ELSE e[j]]
<1>8. f \in [0 .. n + 1 -> Nat] /\ f[n + 1] = l /\ (\A j \in 0 .. n : f[j] = e[j]) /\ f[0] = e[0] /\ f[n] = a
  <2>1. \A j \in 0 .. n + 1 : j # n + 1 => j \in 0 .. n
    OBVIOUS
  <2>2. f \in [0 .. n + 1 -> Nat]
    BY <1>3, <2>1, Zenon
  <2>3. n + 1 \in 0 .. n + 1 /\ 0 \in 0 .. n /\ n \in 0 .. n /\ \A j \in 0 .. n : j \in 0 .. n + 1 /\ j # n + 1
    OBVIOUS
  <2>4. QED
    BY <1>7, <2>2, <2>3, Zenon
<1> HIDE DEF f
<1>9. ASSUME NEW j \in 0 .. n + 1, NEW k \in 0 .. n + 1, j < k PROVE f[j] < f[k]
  <2>1. CASE k = n + 1
    <3>1. j \in 0 .. n
      BY <1>9, <2>1
    <3>2. f[j] \in Nat /\ f[j] <= a
      BY <1>3, <1>7, <1>8, <3>1, Zenon
    <3>3. f[k] = l
      BY <1>8, <2>1
    <3>4. QED
      BY <1>7a, <3>2, <3>3
  <2>2. CASE k # n + 1
    <3>1. j \in 0 .. n /\ k \in 0 .. n
      BY <1>9, <2>2
    <3>2. e[j] < e[k]
      BY <1>1, <1>2, <1>9, <3>1 DEF Cuts
    <3>3. QED
      BY <1>8, <3>1, <3>2
  <2>3. QED
    BY <2>1, <2>2
<1>10. ASSUME NEW j \in 1 .. n + 1
       PROVE  /\ f[j] = f[j - 1] + Len(more[j].results)
              /\ \A x \in 1 .. Len(more[j].results) : more[j].results[x] = out[f[j - 1] + x]
  <2>1. CASE j = n + 1
    <3>1. (n + 1) - 1 = n /\ more[j].results = pending /\ f[j] = l
      BY <1>6, <1>8, <2>1
    <3>2. f[j - 1] = a
      BY <1>8, <2>1, <3>1
    <3>3. \A x \in 1 .. p : pending[x] = out[a + x]
      BY <1>1, <1>2, <1>7 DEF Ends
    <3>4. f[j] = a + p
      BY <1>7a, <3>1
    <3>5. QED
      BY <1>2, <3>1, <3>2, <3>3, <3>4, Zenon
  <2>2. CASE j # n + 1
    <3>1. j \in 1 .. n /\ j \in 0 .. n /\ j - 1 \in 0 .. n
      BY <2>2
    <3>2. more[j] = replies[j] /\ f[j] = e[j] /\ f[j - 1] = e[j - 1]
      BY <1>6, <1>8, <3>1, Zenon
    <3>3. /\ e[j] = e[j - 1] + Len(replies[j].results)
          /\ \A x \in 1 .. Len(replies[j].results) : replies[j].results[x] = out[e[j - 1] + x]
      BY <1>1, <1>2, <3>1, Zenon DEF Cuts
    <3>4. QED
      BY <3>2, <3>3, Zenon
  <2>3. QED
    BY <2>1, <2>2
<1>11. \A x \in 1 .. Len(results) : results[x] = out[x]
  BY <1>1, Zenon DEF Cuts
<1>12. Cuts(f, results, more, out)
  <2>1. f[Len(more)] <= Len(out)
    BY <1>2, <1>6, <1>7a, <1>8
  <2>2. f[0] = Len(results)
    BY <1>3, <1>8
  <2>3. QED
    BY <1>6, <1>8, <1>9, <1>10, <1>11, <2>1, <2>2, Zenon DEF Cuts
<1>13. Ends(f[Len(more)], <<>>, out)
  <2>1. Len(<<>>) = 0 /\ l + 0 = l /\ f[Len(more)] = l
    BY <1>6, <1>8
  <2>2. QED
    BY <1>2, <2>1 DEF Ends
<1>14. QED
  BY <1>5, <1>12, <1>13 DEF Whole

(* The client takes the first reply.                                       *)
LEMMA CutsTake ==
    ASSUME NEW e, NEW results \in Seq(Nat), NEW replies \in Seq(Replies), NEW out \in Seq(Nat),
           Cuts(e, results, replies, out), replies # <<>>
    PROVE  LET h == Head(replies).results IN
           /\ h \in Seq(Nat) /\ h # <<>> /\ results \o h \in Seq(Nat)
           /\ Len(results \o h) <= Len(out)
           /\ Len(results \o h) = Len(out) => Len(replies) = 1 /\ results \o h = out /\ e[Len(replies)] = Len(out)
           /\ \E f : /\ Cuts(f, results \o h, Tail(replies), out)
                     /\ f[Len(Tail(replies))] = e[Len(replies)]
<1> DEFINE h == Head(replies).results
           more == results \o h
<1>1. PICK n \in Nat \ {0}, l \in Nat, m \in Nat : n = Len(replies) /\ l = Len(out) /\ m = Len(results)
  BY TailFacts, LenProperties
<1>a. PICK rest \in Seq(Replies) : rest = Tail(replies)
  BY TailFacts, Zenon
<1>2. rest = Tail(replies) /\ Len(rest) = n - 1 /\ \A i \in 1 .. n - 1 : rest[i] = replies[i + 1]
  <2>1. /\ Len(Tail(replies)) = Len(replies) - 1
        /\ \A i \in 1 .. Len(replies) - 1 : Tail(replies)[i] = replies[i + 1]
    BY TailFacts
  <2>2. QED
    BY <1>1, <1>a, <2>1
<1>3. Head(replies) = replies[1]
  BY TailFacts
<1>4. /\ \A j \in 0 .. n : e[j] \in Nat /\ e[j] <= e[n] /\ e[j] <= l
      /\ \A j \in 1 .. n : /\ replies[j].results \in Seq(Nat) /\ Len(replies[j].results) \in Nat
                           /\ e[j - 1] \in Nat /\ e[j] = e[j - 1] + Len(replies[j].results)
      /\ e[n] \in Nat /\ e[0] \in Nat /\ e[n] <= l /\ e[0] = Len(results)
  <2>1. /\ \A j \in 0 .. Len(replies) : e[j] \in Nat /\ e[j] <= e[Len(replies)] /\ e[j] <= Len(out)
        /\ \A j \in 1 .. Len(replies) :
              /\ replies[j].results \in Seq(Nat) /\ Len(replies[j].results) \in Nat
              /\ e[j - 1] \in Nat /\ e[j] = e[j - 1] + Len(replies[j].results)
        /\ e[Len(replies)] \in Nat /\ e[0] \in Nat /\ e[Len(replies)] <= Len(out) /\ e[0] = Len(results)
    BY CutsFacts, Zenon
  <2>2. QED
    BY <1>1, <2>1, Zenon
<1>5. 1 \in 1 .. n /\ 1 \in 0 .. n /\ 1 - 1 = 0 /\ 0 \in 0 .. n /\ n \in 0 .. n
  OBVIOUS
<1>6. h \in Seq(Nat) /\ e[1] = m + Len(h) /\ e[1] \in Nat /\ e[1] <= l
  BY <1>1, <1>3, <1>4, <1>5, Zenon
<1>7. PICK y \in Nat : y = Len(h)
  BY <1>6, LenProperties
<1>8. \A x \in 1 .. y : h[x] = out[m + x]
  <2>1. \A x \in 1 .. Len(replies[1].results) : replies[1].results[x] = out[e[1 - 1] + x]
    BY <1>1, <1>5 DEF Cuts
  <2>2. e[1 - 1] = m
    BY <1>1, <1>4, <1>5
  <2>3. QED
    BY <1>3, <1>7, <2>1, <2>2, Zenon
<1>9. e[0] < e[1]
  BY <1>1, <1>5 DEF Cuts
<1>10. y # 0 /\ m + y <= l /\ e[1] = m + y
  <2>1. e[0] = m /\ e[1] = m + y
    BY <1>1, <1>4, <1>6, <1>7
  <2>2. m < m + y /\ m + y <= l
    BY <1>6, <1>9, <2>1
  <2>3. QED
    BY <2>1, <2>2
<1> HIDE DEF h
<1>11. /\ more \in Seq(Nat) /\ Len(more) = m + y
       /\ \A k \in 1 .. m : more[k] = results[k]
       /\ \A k \in 1 .. y : more[m + k] = h[k]
  <2>1. /\ results \o h \in Seq(Nat) /\ Len(results \o h) = Len(results) + Len(h)
        /\ \A k \in 1 .. Len(results) : (results \o h)[k] = results[k]
        /\ \A k \in 1 .. Len(h) : (results \o h)[Len(results) + k] = h[k]
    BY <1>6, ConcatFacts
  <2>2. QED
    BY <1>1, <1>7, <2>1
<1> HIDE DEF more
<1>12. ASSUME NEW x \in 1 .. m + y PROVE more[x] = out[x]
  <2>1. CASE x <= m
    <3>1. x \in 1 .. m
      BY <2>1
    <3>2. results[x] = out[x]
      BY <1>1, <3>1 DEF Cuts
    <3>3. QED
      BY <1>11, <3>1, <3>2, Zenon
  <2>2. CASE ~(x <= m)
    <3>1. x - m \in 1 .. y /\ m + (x - m) = x
      BY <2>2
    <3>2. more[m + (x - m)] = h[x - m] /\ h[x - m] = out[m + (x - m)]
      BY <1>8, <1>11, <3>1, Zenon
    <3>3. QED
      BY <3>1, <3>2
  <2>3. QED
    BY <2>1, <2>2
<1> DEFINE f == [j \in 0 .. n - 1 |-> e[j + 1]]
<1>13. f \in [0 .. n - 1 -> Nat] /\ (\A j \in 0 .. n - 1 : f[j] = e[j + 1]) /\ f[0] = m + y /\ f[n - 1] = e[n]
  <2>1. (\A j \in 0 .. n - 1 : j + 1 \in 0 .. n) /\ 0 + 1 = 1 /\ (n - 1) + 1 = n /\ 0 \in 0 .. n - 1 /\ n - 1 \in 0 .. n - 1
    OBVIOUS
  <2>2. f \in [0 .. n - 1 -> Nat]
    BY <1>4, <2>1, Zenon
  <2>3. \A j \in 0 .. n - 1 : f[j] = e[j + 1]
    OBVIOUS
  <2>4. f[0] = e[1] /\ f[n - 1] = e[n]
    BY <2>1, <2>3
  <2>5. QED
    BY <1>10, <2>2, <2>3, <2>4
<1> HIDE DEF f
<1>14. ASSUME NEW j \in 0 .. n - 1, NEW k \in 0 .. n - 1, j < k PROVE f[j] < f[k]
  <2>1. j + 1 \in 0 .. n /\ k + 1 \in 0 .. n /\ j + 1 < k + 1
    BY <1>14
  <2>2. e[j + 1] < e[k + 1]
    BY <1>1, <2>1 DEF Cuts
  <2>3. QED
    BY <1>13, <2>2, Zenon
<1>15. ASSUME NEW j \in 1 .. n - 1
       PROVE  /\ f[j] = f[j - 1] + Len(rest[j].results)
              /\ \A x \in 1 .. Len(rest[j].results) : rest[j].results[x] = out[f[j - 1] + x]
  <2>1. j \in 0 .. n - 1 /\ j - 1 \in 0 .. n - 1 /\ j + 1 \in 1 .. n /\ (j + 1) - 1 = j /\ (j - 1) + 1 = j
    OBVIOUS
  <2>2. rest[j] = replies[j + 1] /\ f[j] = e[j + 1] /\ f[j - 1] = e[j]
    <3>1. f[j] = e[j + 1] /\ f[j - 1] = e[(j - 1) + 1]
      BY <1>13, <2>1, Zenon
    <3>2. QED
      BY <1>2, <2>1, <3>1
  <2>3. /\ e[j + 1] = e[(j + 1) - 1] + Len(replies[j + 1].results)
        /\ \A x \in 1 .. Len(replies[j + 1].results) : replies[j + 1].results[x] = out[e[(j + 1) - 1] + x]
    BY <1>1, <2>1, Zenon DEF Cuts
  <2>4. /\ e[j + 1] = e[j] + Len(replies[j + 1].results)
        /\ \A x \in 1 .. Len(replies[j + 1].results) : replies[j + 1].results[x] = out[e[j] + x]
    BY <2>1, <2>3, Zenon
  <2>5. QED
    BY <2>2, <2>4, Zenon
<1>16. Cuts(f, more, rest, out)
  <2>1. f[0] = Len(more) /\ f[Len(rest)] <= Len(out)
    BY <1>1, <1>2, <1>4, <1>11, <1>13
  <2>2. \A x \in 1 .. Len(more) : more[x] = out[x]
    BY <1>11, <1>12, Zenon
  <2>3. QED
    BY <1>2, <1>13, <1>14, <1>15, <2>1, <2>2, Zenon DEF Cuts
<1>17. ASSUME m + y = l PROVE n = 1 /\ more = out /\ e[n] = l
  <2>1. n = 1
    <3>1. SUFFICES ASSUME n # 1 PROVE FALSE
      OBVIOUS
    <3>2. 1 < n
      BY <3>1
    <3>3. e[1] < e[n]
      BY <1>1, <1>5, <3>2, Zenon DEF Cuts
    <3>4. e[1] = l /\ e[n] <= l /\ e[n] \in Nat
      BY <1>4, <1>10, <1>17
    <3>5. QED
      BY <3>3, <3>4
  <2>2. Len(more) = Len(out) /\ \A x \in 1 .. Len(more) : more[x] = out[x]
    BY <1>1, <1>11, <1>12, <1>17
  <2>3. more = out
    BY <1>11, <2>2, SeqEqual
  <2>4. QED
    BY <1>10, <1>17, <2>1, <2>3, Zenon
<1>18. h # <<>>
  BY <1>6, <1>7, <1>10, Elements
<1>19. f[Len(rest)] = e[Len(replies)]
  BY <1>1, <1>2, <1>13
<1>20. Len(more) <= Len(out) /\ (Len(more) = Len(out) => Len(replies) = 1 /\ more = out /\ e[Len(replies)] = Len(out))
  BY <1>1, <1>10, <1>11, <1>17, Zenon
<1>21. QED
  BY <1>2, <1>6, <1>11, <1>16, <1>18, <1>19, <1>20, Zenon DEF more, h

LEMMA WholeTake ==
    ASSUME NEW results \in Seq(Nat), NEW replies \in Seq(Replies), NEW pending \in Seq(Nat),
           NEW out \in Seq(Nat), Whole(results, replies, pending, out), replies # <<>>
    PROVE  LET h == Head(replies).results IN
           /\ h \in Seq(Nat) /\ h # <<>> /\ results \o h \in Seq(Nat)
           /\ Len(results \o h) <= Len(out)
           /\ Len(results \o h) = Len(out) => Len(replies) = 1 /\ results \o h = out /\ pending = <<>>
           /\ Whole(results \o h, Tail(replies), pending, out)
<1> DEFINE h == Head(replies).results
           more == results \o h
<1>1. PICK e : Cuts(e, results, replies, out) /\ Ends(e[Len(replies)], pending, out)
  BY DEF Whole
<1>2. /\ h \in Seq(Nat) /\ h # <<>> /\ more \in Seq(Nat)
      /\ Len(more) <= Len(out)
      /\ Len(more) = Len(out) => Len(replies) = 1 /\ more = out /\ e[Len(replies)] = Len(out)
      /\ \E f : Cuts(f, more, Tail(replies), out) /\ f[Len(Tail(replies))] = e[Len(replies)]
  BY <1>1, CutsTake
<1> HIDE DEF h, more
<1>3. Whole(more, Tail(replies), pending, out)
  BY <1>1, <1>2 DEF Whole
<1>4. ASSUME e[Len(replies)] = Len(out) PROVE pending = <<>>
  <2>1. PICK l \in Nat, p \in Nat : l = Len(out) /\ p = Len(pending)
    BY LenProperties
  <2>2. e[Len(replies)] + p = l
    BY <1>1, <2>1 DEF Ends
  <2>3. l + p = l
    BY <1>4, <2>1, <2>2
  <2>4. p = 0
    BY <2>3
  <2>5. QED
    BY <2>1, <2>4, Elements, Zenon
<1>5. QED
  BY <1>2, <1>3, <1>4, Zenon DEF h, more

LEMMA PartsTake ==
    ASSUME NEW results \in Seq(Nat), NEW replies \in Seq(Replies), NEW out \in Seq(Nat),
           Parts(results, replies, out), replies # <<>>
    PROVE  LET h == Head(replies).results IN
           /\ h \in Seq(Nat) /\ h # <<>> /\ results \o h \in Seq(Nat)
           /\ Len(results \o h) <= Len(out)
           /\ Len(results \o h) = Len(out) => Len(replies) = 1
           /\ Parts(results \o h, Tail(replies), out)
<1>1. PICK e : Cuts(e, results, replies, out)
  BY DEF Parts
<1>2. PICK l \in Nat, a \in Nat : l = Len(out) /\ a = e[Len(replies)] /\ a <= l
  BY <1>1, CutsFacts, LenProperties, SMTT(40)
<1>3. a <= l
  BY <1>2, Zenon
<1>4. PICK p \in Nat : a + p = l
  <2>1. l - a \in Nat /\ a + (l - a) = l
    BY <1>3
  <2>2. QED
    BY <2>1
<1> DEFINE pending == [x \in 1 .. p |-> out[a + x]]
<1>5. pending \in Seq(Nat) /\ Len(pending) = p /\ \A x \in 1 .. p : pending[x] = out[a + x]
  <2>1. \A x \in 1 .. p : a + x \in 1 .. l
    BY <1>4
  <2>2. \A x \in 1 .. p : out[a + x] \in Nat
    BY <1>2, <2>1, Elements, Zenon
  <2>3. QED
    BY <2>2
<1> HIDE DEF pending
<1>6. Ends(e[Len(replies)], pending, out)
  BY <1>2, <1>4, <1>5 DEF Ends
<1>7. Whole(results, replies, pending, out)
  BY <1>1, <1>6 DEF Whole
<1>8. LET h == Head(replies).results IN
      /\ h \in Seq(Nat) /\ h # <<>> /\ results \o h \in Seq(Nat)
      /\ Len(results \o h) <= Len(out)
      /\ Len(results \o h) = Len(out) => Len(replies) = 1 /\ results \o h = out /\ pending = <<>>
      /\ Whole(results \o h, Tail(replies), pending, out)
  BY <1>5, <1>7, WholeTake
<1>9. Parts(results \o Head(replies).results, Tail(replies), out)
  BY <1>8, WholeParts
<1>10. QED
  BY <1>8, <1>9

-----------------------------------------------------------------------------
(* Who waits for what.                                                     *)

(* Somebody waits for the reply the server is making up...                 *)
LEMMA Owner ==
    ASSUME Quiet, Tracked, NEW c \in Connections, server[c].msg # NULL, ServerReplies(server[c].msg.req)
    PROVE  \E t \in Threads : Waits(t, c) /\ server[c].msg.id = <<t, client[t].n>>
<1>1. PICK t \in Threads : Waits(t, c)
  BY DEF Quiet, QuietAt
<1>2. OwnAt(c, <<t, client[t].n>>)
  BY <1>1 DEF Waits, Tracked, TrackedFor
<1>3. QED
  BY <1>1, <1>2 DEF OwnAt

(* ...or is going to.                                                      *)
LEMMA OwnerOnWay ==
    ASSUME Quiet, Tracked, NEW c \in Connections, NEW k \in 1 .. Len(up[c]), ReplyingAt(up[c], k)
    PROVE  \E t \in Threads : Waits(t, c) /\ up[c][k].id = <<t, client[t].n>>
<1>1. PICK t \in Threads : Waits(t, c)
  BY DEF Quiet, QuietAt, Silent
<1>2. OwnAt(c, <<t, client[t].n>>)
  BY <1>1 DEF Waits, Tracked, TrackedFor
<1>3. QED
  BY <1>1, <1>2 DEF OwnAt, Only

(* A server thread serves the thread that waits at its connection, or a    *)
(* request nobody waits for.                                               *)
LEMMA ServesItsOwn ==
    ASSUME Placed, Works, Quiet, Tracked, NEW c \in Connections, server[c].msg # NULL,
           NEW t \in Threads, client[t].pc \in {"receive", "push"}, ServerReplies(client[t].req),
           server[c].msg.id = <<t, client[t].n>>
    PROVE  Waits(t, c)
<1>1. issued[<<t, client[t].n>>] = client[t].req
  <2>1. client[t].n > 0
    BY Zenon DEF Placed, PlacedFor
  <2>2. QED
    BY <2>1 DEF Placed, PlacedFor
<1>2. ServerReplies(server[c].msg.req)
  BY <1>1 DEF Works, WorksAt
<1>3. PICK u \in Threads : Waits(u, c) /\ server[c].msg.id = <<u, client[u].n>>
  BY <1>2, Owner
<1>4. u = t
  BY <1>3
<1>5. QED
  BY <1>3, <1>4

(* Two server threads do not work on the same request if it is answered.   *)
LEMMA ServedOnce ==
    ASSUME Works, Quiet, Tracked, NEW c \in Connections, NEW d \in Connections,
           server[c].msg # NULL, server[d].msg # NULL, ServerReplies(server[c].msg.req),
           server[c].msg.id = server[d].msg.id
    PROVE  c = d
<1>1. ServerReplies(server[d].msg.req)
  BY DEF Works, WorksAt
<1>2. PICK u \in Threads : Waits(u, d) /\ server[d].msg.id = <<u, client[u].n>>
  BY <1>1, Owner
<1>3. PICK t \in Threads : Waits(t, c) /\ server[c].msg.id = <<t, client[t].n>>
  BY Owner
<1>4. u = t
  BY <1>2, <1>3
<1>5. QED
  BY <1>2, <1>3, <1>4 DEF Waits

(* What the types say of a server thread at work, and of a waiting thread. *)
LEMMA ServerFacts ==
    ASSUME TypeOK, Works, NEW c \in Connections, server[c].msg # NULL
    PROVE  /\ server[c] \in ServerStates /\ server[c].msg \in Headers
           /\ server[c].msg.req \in Requests /\ server[c].msg.id \in Ids
           /\ server[c].pc \in {"open", "op", "finish"}
           /\ issued[server[c].msg.id] = server[c].msg.req
           /\ up[c] \in Seq(Items) /\ down[c] \in Seq(Replies)
           /\ outcome[server[c].msg.id] \in Seq(Nat)
<1>1. server[c] \in ServerStates
  BY DEF TypeOK
<1>2. server[c].msg \in Headers
  BY <1>1 DEF ServerStates
<1>3. server[c].msg.req \in Requests /\ server[c].msg.id \in Ids
  BY <1>2 DEF Headers
<1>4. server[c].pc \in {"open", "op", "finish"} /\ issued[server[c].msg.id] = server[c].msg.req
  BY <1>1 DEF Works, WorksAt, ServerStates
<1>5. QED
  BY <1>1, <1>2, <1>3, <1>4 DEF TypeOK

LEMMA ClientFacts ==
    ASSUME TypeOK, Placed, NEW t \in Threads, client[t].pc # "idle"
    PROVE  /\ client[t] \in ClientStates /\ client[t].n \in 1 .. MaxRequests
           /\ <<t, client[t].n>> \in Ids /\ client[t].req \in Requests
           /\ issued[<<t, client[t].n>>] = client[t].req
           /\ client[t].pc \in {"send", "receive", "push"} =>
                 /\ client[t].conn \in Connections
                 /\ up[client[t].conn] \in Seq(Items) /\ down[client[t].conn] \in Seq(Replies)
<1>1. client[t] \in ClientStates
  BY DEF TypeOK
<1>2. client[t].n \in 1 .. MaxRequests
  <2>1. client[t].n > 0
    BY Zenon DEF Placed, PlacedFor
  <2>2. client[t].n \in 0 .. MaxRequests
    BY <1>1 DEF ClientStates
  <2>3. MaxRequests \in Nat
    BY ProtocolAssumption
  <2>4. QED
    BY <2>1, <2>2, <2>3
<1>3. <<t, client[t].n>> \in Ids
  BY <1>2 DEF Ids
<1>4. client[t].req \in Requests /\ issued[<<t, client[t].n>>] = client[t].req
  BY <1>1, <1>2 DEF Placed, PlacedFor, ClientStates
<1>5. client[t].pc \in {"send", "receive", "push"} => client[t].conn \in Connections
  BY <1>1, Zenon DEF Placed, PlacedFor, ClientStates
<1>6. QED
  BY <1>1, <1>2, <1>3, <1>4, <1>5 DEF TypeOK

-----------------------------------------------------------------------------
(* A server thread works on its request.                                   *)

(* What a step of the server thread of c, which stays with its request and *)
(* goes over to the state new, has to keep for the others to stay right.   *)
Working(c, new) ==
    LET me == server[c]
        r == me.msg.req
        id == me.msg.id
    IN
    /\ alive /\ me.msg # NULL /\ new.msg = me.msg /\ new.pc \in {"open", "op", "finish"}
    /\ server' = [server EXCEPT ![c] = new]
    /\ idle' = idle /\ fresh' = fresh /\ client' = client /\ alive' = alive
    /\ progress' = progress /\ issued' = issued
    /\ up' = up \/ (up[c] # <<>> /\ up' = [up EXCEPT ![c] = Tail(@)])
    /\ Frames(up'[c], Left(new))
    /\ \/ down' = down
       \/ r.type = "READ" /\ \E x \in Replies : x.id = id /\ down' = [down EXCEPT ![c] = Append(@, x)]
    /\ \A i \in Ids : i # id => outcome'[i] = outcome[i]
    /\ \A o \in Objects : \A i \in unsynced'[o] :
          i \in unsynced[o] \/ (i = id /\ o = r.object /\ r.type \in {"CREATE", "WRITE"})
    /\ r.type = "WRITE" => /\ new.pc \in {"open", "op"} => new.i <= Len(r.ops)
                           /\ new.pc = "open" => new.i = 1
    /\ ServerReplies(r) =>
          /\ Answers(new, outcome'[id]) /\ Len(outcome'[id]) <= Len(r.ops)
          /\ /\ r.persistency = "STORAGE"
             /\ (r.type = "CREATE" /\ new.pc # "op") \/ (r.type = "WRITE" /\ ~new.file)
             => \A o \in Objects : id \notin unsynced'[o]
    /\ r.type = "READ" =>
          \A results \in Seq(Nat) : Whole(results, down[c], me.reply, outcome[id])
                                        => Whole(results, down'[c], new.reply, outcome'[id])

LEMMA WorkingUp ==
    ASSUME IInv, NEW c \in Connections, NEW new, Working(c, new), TypeOK', NEW d \in Connections
    PROVE  /\ d # c => up'[d] = up[d] /\ down'[d] = down[d] /\ server'[d] = server[d]
           /\ server'[c] = new
           /\ \A k \in 1 .. Len(up'[d]) : HeaderAt(up'[d], k) =>
                 \E j \in 1 .. Len(up[d]) : HeaderAt(up[d], j) /\ up'[d][k] = up[d][j]
           /\ Silent(up[d]) => Silent(up'[d])
           /\ \A id : Only(up[d], id) => Only(up'[d], id)
<1>1. up \in [Connections -> Seq(Items)] /\ down \in [Connections -> Seq(Replies)] /\ server \in [Connections -> ServerStates]
  BY DEF IInv, TypeOK
<1>2. server'[c] = new /\ (d # c => up'[d] = up[d] /\ down'[d] = down[d] /\ server'[d] = server[d])
  BY <1>1 DEF Working
<1>3. \/ up'[d] = up[d]
      \/ d = c /\ up[c] # <<>> /\ up'[c] = Tail(up[c])
  BY <1>1 DEF Working
<1>4. CASE up'[d] = up[d]
  BY <1>2, <1>4
<1>5. CASE d = c /\ up[c] # <<>> /\ up'[c] = Tail(up[c])
  <2>1. up[c] \in Seq(Items)
    BY <1>1
  <2>2. Silent(up[c]) => Silent(Tail(up[c]))
    BY <1>5, <2>1, SilentTail
  <2>3. \A id : Only(up[c], id) => Only(Tail(up[c]), id)
    BY <1>5, <2>1, OnlyTail
  <2>4. ASSUME NEW k \in 1 .. Len(Tail(up[c])), HeaderAt(Tail(up[c]), k)
        PROVE  \E j \in 1 .. Len(up[c]) : HeaderAt(up[c], j) /\ Tail(up[c])[k] = up[c][j]
    <3>1. PICK n \in Nat : n = Len(Tail(up[c]))
      BY <1>5, <2>1, TailFacts, LenProperties, Zenon
    <3>2. k \in Int
      BY <3>1
    <3>3. k + 1 \in 1 .. Len(up[c]) /\ Tail(up[c])[k] = up[c][k + 1] /\ HeaderAt(up[c], k + 1)
      BY <1>5, <2>1, <2>4, <3>2, TailItems
    <3>4. QED
      BY <3>3
  <2>5. QED
    BY <1>2, <1>5, <2>2, <2>3, <2>4
<1>6. QED
  BY <1>3, <1>4, <1>5

LEMMA WorkingWorks ==
    ASSUME IInv, NEW c \in Connections, NEW new, Working(c, new), TypeOK'
    PROVE  Works' /\ Framed' /\ Travels'
<1> DEFINE id == server[c].msg.id
<1>1. ASSUME NEW d \in Connections PROVE WorksAt(d)'
  <2>1. CASE d = c
    <3>1. server'[c] = new /\ new.msg = server[c].msg /\ new.pc \in {"open", "op", "finish"}
      <4>1. server'[c] = new
        BY WorkingUp
      <4>2. QED
        BY <4>1 DEF Working
    <3>2. new.msg # NULL /\ new.pc # "receive"
      BY <3>1 DEF Working
    <3>3. /\ issued'[new.msg.id] = new.msg.req /\ progress'[new.msg.id] # "none"
          /\ ServerReplies(new.msg.req) => progress'[new.msg.id] = "started"
      BY <3>1 DEF Working, IInv, Works, WorksAt, Answering
    <3>4. /\ new.msg.req.type = "WRITE" /\ new.pc \in {"open", "op"} => new.i <= Len(new.msg.req.ops)
          /\ new.msg.req.type = "WRITE" /\ new.pc = "open" => new.i = 1
      BY <3>1 DEF Working
    <3>5. ServerReplies(new.msg.req) => Answering(c)'
      <4>1. SUFFICES ASSUME ServerReplies(new.msg.req) PROVE Answering(c)'
        OBVIOUS
      <4>2. /\ Answers(new, outcome'[new.msg.id])
            /\ new.msg.req.persistency = "STORAGE" /\ new.msg.req.type = "CREATE" /\ new.pc # "op" => Synced(new.msg.id)'
            /\ new.msg.req.persistency = "STORAGE" /\ new.msg.req.type = "WRITE" /\ ~new.file => Synced(new.msg.id)'
        BY <3>1, <4>1 DEF Working, Synced
      <4>3. QED
        BY <3>1, <3>3, <4>1, <4>2 DEF Answering
    <3>6. QED
      BY <2>1, <3>1, <3>2, <3>3, <3>4, <3>5 DEF WorksAt
  <2>2. CASE d # c
    <3>1. server'[d] = server[d] /\ issued' = issued /\ progress' = progress
      BY <2>2, WorkingUp DEF Working
    <3>2. ASSUME server[d].msg # NULL, ServerReplies(server[d].msg.req) PROVE Answering(d)'
      <4>1. server[d].msg.id \in Ids /\ server[d].msg.id # id
        BY <2>2, <3>2, ServerFacts, ServedOnce DEF IInv, Working
      <4>2. outcome'[server[d].msg.id] = outcome[server[d].msg.id]
        BY <4>1 DEF Working
      <4>3. Synced(server[d].msg.id) => Synced(server[d].msg.id)'
        BY <3>1, <4>1 DEF Working, Synced
      <4>4. Answering(d)
        BY <3>2 DEF IInv, Works, WorksAt
      <4>5. QED
        BY <3>1, <4>2, <4>3, <4>4 DEF Answering
    <3>3. WorksAt(d)
      BY DEF IInv, Works
    <3>4. QED
      BY <3>1, <3>2, <3>3 DEF WorksAt
  <2>3. QED
    BY <2>1, <2>2
<1>2. ASSUME NEW d \in Connections PROVE Frames(up'[d], Left(server'[d]))
  <2>1. Frames(up[d], Left(server[d]))
    BY DEF IInv, Framed
  <2>2. Frames(up'[c], Left(new))
    BY DEF Working
  <2>3. QED
    BY <2>1, <2>2, WorkingUp, Zenon
<1>3. ASSUME NEW d \in Connections, NEW k \in 1 .. Len(up'[d]), HeaderAt(up'[d], k) PROVE Travel(up[d][k])'
  <2>1. PICK j \in 1 .. Len(up[d]) : HeaderAt(up[d], j) /\ up'[d][k] = up[d][j]
    BY <1>3, WorkingUp
  <2>2. Travel(up[d][j])
    BY <2>1 DEF IInv, Travels
  <2>3. issued' = issued /\ client' = client /\ progress' = progress
    BY DEF Working
  <2>4. QED
    BY <2>1, <2>2, <2>3 DEF Travel, Sent
<1>4. Framed'
  BY <1>2 DEF Framed
<1>5. Travels'
  BY <1>3 DEF Travels
<1>6. QED
  BY <1>1, <1>4, <1>5 DEF Works

LEMMA WorkingQuiet ==
    ASSUME IInv, NEW c \in Connections, NEW new, Working(c, new), TypeOK'
    PROVE  Quiet'
<1>1. SUFFICES ASSUME NEW d \in Connections, \A t \in Threads : ~Waits(t, d)' PROVE QuietAt(d)'
  BY DEF Quiet
<1>2. QuietAt(d)
  BY <1>1 DEF IInv, Quiet, Waits, Working
<1>3. Silent(up'[d])
  BY <1>2, WorkingUp DEF QuietAt
<1>4. server'[d].msg = server[d].msg
  <2>1. (d # c => server'[d] = server[d]) /\ server'[c] = new
    BY WorkingUp
  <2>2. new.msg = server[c].msg
    BY DEF Working
  <2>3. QED
    BY <2>1, <2>2
<1>5. down'[d] = down[d]
  <2>1. CASE d # c
    BY <2>1, WorkingUp
  <2>2. CASE d = c
    <3>1. ~ServerReplies(server[c].msg.req)
      BY <1>2, <2>2 DEF QuietAt, Working
    <3>2. server[c].msg.req.type # "READ"
      BY <3>1 DEF ServerReplies
    <3>3. QED
      BY <3>2 DEF Working
  <2>3. QED
    BY <2>1, <2>2
<1>6. QED
  BY <1>2, <1>3, <1>4, <1>5 DEF QuietAt

LEMMA WorkingTracked ==
    ASSUME IInv, NEW c \in Connections, NEW new, Working(c, new), TypeOK'
    PROVE  Tracked'
<1>1. SUFFICES ASSUME NEW t \in Threads, client[t].pc = "receive" PROVE TrackedFor(t)'
  BY DEF Tracked, TrackedFor, Working
<1>2. PICK me \in ClientStates, id \in Ids, d \in Connections :
           me = client[t] /\ id = <<t, client[t].n>> /\ d = client[t].conn
  BY <1>1, ClientFacts, Zenon DEF IInv
<1>3. /\ client' = client /\ alive' = alive /\ progress' = progress /\ server'[d].msg = server[d].msg
      /\ alive
  <2>1. (d # c => server'[d] = server[d]) /\ server'[c] = new
    BY WorkingUp
  <2>2. client' = client /\ alive' = alive /\ progress' = progress /\ new.msg = server[c].msg /\ alive
    BY DEF Working
  <2>3. QED
    BY <2>1, <2>2
<1>4. ServerReplies(me.req) /\ issued[id] = me.req /\ me.req \in Requests
  BY <1>1, <1>2, ClientFacts DEF IInv, Placed, PlacedFor
<1>5. /\ OwnAt(d, id)
      /\ me.req.type # "READ" => me.results = <<>> /\ PlainReply(d, id)
      /\ me.req.type = "READ" => \/ Refused(d, id) /\ me.results = <<>>
                                 \/ Whole(me.results, down[d], Pending(d, id), outcome[id])
  BY <1>1, <1>2, <1>3 DEF IInv, Tracked, TrackedFor
<1>6. Only(up'[d], id)
  BY <1>5, WorkingUp DEF OwnAt
<1>7. CASE server[c].msg.id # id
  <2>1. outcome'[id] = outcome[id]
    BY <1>7 DEF Working
  <2>2. down'[d] = down[d]
    <3>1. CASE d # c
      BY <3>1, WorkingUp
    <3>2. CASE d = c
      <4>1. ~ServerReplies(server[c].msg.req)
        BY <1>5, <1>7, <3>2 DEF OwnAt, Working
      <4>2. server[c].msg.req.type # "READ"
        BY <4>1 DEF ServerReplies
      <4>3. QED
        BY <4>2 DEF Working
    <3>3. QED
      BY <3>1, <3>2
  <2>3. Pending(d, id)' = Pending(d, id)
    <3>1. Serving(d, id)' <=> Serving(d, id)
      BY <1>3 DEF Serving
    <3>2. Serving(d, id) => server'[d] = server[d]
      BY <1>7, WorkingUp DEF Serving
    <3>3. QED
      BY <3>1, <3>2 DEF Pending
  <2>4. OwnAt(d, id)'
    BY <1>3, <1>5, <1>6, <2>2 DEF OwnAt, Serving
  <2>5. PlainReply(d, id) => PlainReply(d, id)'
    BY <1>3, <2>1, <2>2 DEF PlainReply
  <2>6. Refused(d, id) => Refused(d, id)'
    BY <1>3, <2>1, <2>2 DEF Refused
  <2>7. Whole(me.results, down[d], Pending(d, id), outcome[id]) =>
           Whole(me.results, down'[d], Pending(d, id)', outcome'[id])
    BY <2>1, <2>2, <2>3
  <2>8. QED
    BY <1>2, <1>3, <1>5, <2>4, <2>5, <2>6, <2>7 DEF TrackedFor
<1>8. CASE server[c].msg.id = id
  <2>0. server[c].msg # NULL
    BY DEF Working
  <2>1. Waits(t, c)
    BY <1>1, <1>2, <1>4, <1>8, <2>0, ServesItsOwn DEF IInv
  <2>2. d = c
    BY <1>2, <2>1 DEF Waits
  <2>3. server[c].msg.req = me.req /\ progress[id] = "started"
    BY <1>4, <1>8, <2>0 DEF IInv, Works, WorksAt, Answering
  <2>4. server'[c] = new
    BY WorkingUp
  <2>5. Serving(c, id) /\ Serving(c, id)'
    BY <1>3, <1>8, <2>0, <2>2 DEF Serving
  <2>6. Pending(c, id) = server[c].reply /\ Pending(c, id)' = new.reply
    BY <2>4, <2>5 DEF Pending
  <2>7. down[c] \in Seq(Replies) /\ \A j \in 1 .. Len(down[c]) : down[c][j].id = id
    BY <1>5, <2>2 DEF IInv, TypeOK, OwnAt
  <2>8. \A j \in 1 .. Len(down'[c]) : down'[c][j].id = id
    <3>1. CASE down' = down
      BY <2>7, <3>1
    <3>2. ASSUME NEW x \in Replies, x.id = id, down' = [down EXCEPT ![c] = Append(@, x)]
          PROVE  \A j \in 1 .. Len(down'[c]) : down'[c][j].id = id
      <4>1. down'[c] = Append(down[c], x)
        BY <3>2 DEF IInv, TypeOK
      <4>2. PICK n \in Nat : n = Len(down[c])
        BY <2>7, LenProperties
      <4>3. /\ Len(down'[c]) = n + 1 /\ down'[c][n + 1] = x /\ \A i \in 1 .. n : down'[c][i] = down[c][i]
        BY <2>7, <4>1, <4>2, AppendFacts
      <4>4. ASSUME NEW j \in 1 .. n + 1 PROVE down'[c][j].id = id
        <5>1. CASE j = n + 1
          BY <3>2, <4>3, <5>1
        <5>2. CASE j # n + 1
          <6>1. j \in 1 .. n
            BY <5>2
          <6>2. QED
            BY <2>7, <4>2, <4>3, <6>1, Zenon
        <5>3. QED
          BY <5>1, <5>2
      <4>5. QED
        BY <4>3, <4>4
    <3>3. QED
      BY <1>8, <3>1, <3>2 DEF Working
  <2>9. OwnAt(c, id)'
    BY <1>3, <1>6, <1>8, <2>2, <2>3, <2>5, <2>8 DEF OwnAt
  <2>10. ASSUME me.req.type # "READ" PROVE PlainReply(c, id)'
    <3>1. down'[c] = down[c]
      BY <2>3, <2>10 DEF Working
    <3>2. down[c] = <<>>
      BY <1>5, <2>2, <2>3, <2>10 DEF PlainReply
    <3>3. QED
      BY <3>1, <3>2 DEF PlainReply
  <2>11. ASSUME me.req.type = "READ" PROVE Whole(me.results, down'[c], new.reply, outcome'[id])
    <3>1. ~Refused(c, id)
      BY <2>3 DEF Refused
    <3>2. Whole(me.results, down[c], server[c].reply, outcome[id])
      BY <1>5, <2>2, <2>6, <2>11, <3>1
    <3>3. me.results \in Seq(Nat)
      BY DEF ClientStates
    <3>4. QED
      BY <1>8, <2>3, <2>11, <3>2, <3>3 DEF Working
  <2>12. QED
    BY <1>2, <1>3, <1>5, <2>2, <2>6, <2>9, <2>10, <2>11 DEF TrackedFor
<1>9. QED
  BY <1>7, <1>8

LEMMA WorkingRecorded ==
    ASSUME IInv, NEW c \in Connections, NEW new, Working(c, new), TypeOK'
    PROVE  Recorded'
<1>1. PICK r \in Requests, own \in Ids :
           /\ r = server[c].msg.req /\ own = server[c].msg.id /\ issued[own] = r
           /\ progress[own] # "none" /\ (ServerReplies(r) => progress[own] = "started")
  <2>1. WorksAt(c) /\ server[c].msg # NULL
    BY DEF IInv, Works, Working
  <2>2. server[c].msg.req \in Requests /\ server[c].msg.id \in Ids
    BY <2>1, ServerFacts DEF IInv
  <2>3. /\ issued[server[c].msg.id] = server[c].msg.req /\ progress[server[c].msg.id] # "none"
        /\ ServerReplies(server[c].msg.req) => progress[server[c].msg.id] = "started"
    BY <2>1 DEF WorksAt, Answering
  <2>4. QED
    BY <2>2, <2>3
<1>2. SUFFICES ASSUME NEW id \in Ids PROVE RecordedOf(id)'
  BY DEF Recorded
<1>3. progress' = progress /\ issued' = issued /\ RecordedOf(id)
  BY DEF Working, IInv, Recorded
<1>4. CASE id # own
  <2>1. outcome'[id] = outcome[id]
    BY <1>1, <1>4 DEF Working
  <2>2. \A o \in Objects : id \in unsynced'[o] => id \in unsynced[o]
    BY <1>1, <1>4 DEF Working
  <2>3. Synced(id) => Synced(id)'
    BY <2>2 DEF Synced
  <2>4. Complete(id) => Complete(id)'
    BY <1>3, <2>1 DEF Complete
  <2>5. QED
    BY <1>3, <2>1, <2>2, <2>3, <2>4 DEF RecordedOf
<1>5. CASE id = own
  <2>1. issued'[id] = r /\ progress'[id] # "none" /\ (ServerReplies(r) => progress'[id] # "done")
    BY <1>1, <1>3, <1>5
  <2>2. ServerReplies(r) => Len(outcome'[id]) <= Len(r.ops)
    BY <1>1, <1>5 DEF Working
  <2>3. r.persistency = "STORAGE" => ServerReplies(r)
    BY RequestFacts
  <2>4. \A o \in Objects : id \in unsynced'[o] => issued'[id] # NULL /\ issued'[id].object = o /\ issued'[id].type \in {"CREATE", "WRITE"}
    <3>1. SUFFICES ASSUME NEW o \in Objects, id \in unsynced'[o]
                   PROVE  issued'[id] # NULL /\ issued'[id].object = o /\ issued'[id].type \in {"CREATE", "WRITE"}
      OBVIOUS
    <3>2. CASE id \in unsynced[o]
      BY <1>3, <3>2 DEF RecordedOf
    <3>3. CASE o = r.object /\ r.type \in {"CREATE", "WRITE"}
      BY <2>1, <3>3, RequestFacts
    <3>4. QED
      BY <1>1, <1>5, <3>1, <3>2, <3>3 DEF Working
  <2>5. QED
    BY <2>1, <2>2, <2>3, <2>4 DEF RecordedOf
<1>6. QED
  BY <1>4, <1>5

LEMMA WorkingReturns ==
    ASSUME IInv, NEW c \in Connections, NEW new, Working(c, new), TypeOK'
    PROVE  Returns'
<1>1. SUFFICES ASSUME NEW t \in Threads, client[t].pc = "push", ServerReplies(client[t].req)
               PROVE  ReturnsFor(t)'
  BY DEF Returns, ReturnsFor, Working
<1>2. PICK id \in Ids : id = <<t, client[t].n>>
  BY <1>1, ClientFacts, Zenon DEF IInv
<1>3. server[c].msg.id # id
  <2>1. ~Waits(t, c)
    BY <1>1 DEF Waits
  <2>2. QED
    BY <1>1, <1>2, <2>1, ServesItsOwn DEF IInv, Working
<1>4. outcome'[id] = outcome[id] /\ client' = client /\ alive' = alive /\ progress' = progress
  BY <1>3 DEF Working
<1>5. ReturnsFor(t)
  BY DEF IInv, Returns
<1>6. QED
  BY <1>2, <1>4, <1>5 DEF ReturnsFor

(* Such a step keeps the invariant.                                        *)
LEMMA WorkingIInv ==
    ASSUME IInv, NEW c \in Connections, NEW new, Working(c, new), TypeOK'
    PROVE  IInv'
<1>1. /\ idle' = idle /\ fresh' = fresh /\ client' = client /\ alive' = alive /\ alive
      /\ progress' = progress /\ issued' = issued
  BY DEF Working
<1>2. Placed'
  BY <1>1 DEF IInv, Placed, PlacedFor
<1>3. Apart'
  BY <1>1 DEF IInv, Apart
<1>4. Dead'
  BY <1>1 DEF Dead
<1>5. Ordered'
  BY <1>1 DEF IInv, Ordered, Past
<1>6. ConfirmedInOrder'
  BY <1>1 DEF IInv, ConfirmedInOrder
<1>7. QED
  BY <1>2, <1>3, <1>4, <1>5, <1>6, WorkingWorks, WorkingQuiet, WorkingTracked, WorkingRecorded,
     WorkingReturns DEF IInv

-----------------------------------------------------------------------------
(* The steps of a server thread that stays with its request.               *)

(* The state after an operation, as Done leaves it.                        *)
Advanced(m, x) ==
    [m EXCEPT !.i = @ + 1, !.reply = Append(@, x),
              !.pc = IF m.i = Len(m.msg.req.ops) THEN "finish"
                     ELSE IF m.msg.req.type \in {"READ", "WRITE"} THEN "op" ELSE "open"]

LEMMA AdvancedFacts ==
    ASSUME NEW m \in ServerStates, m.msg \in Headers, NEW x \in Nat
    PROVE  /\ Advanced(m, x) \in ServerStates
           /\ Advanced(m, x).msg = m.msg /\ Advanced(m, x).pc \in {"open", "op", "finish"}
           /\ Advanced(m, x).i = m.i + 1 /\ Advanced(m, x).file = m.file
           /\ Advanced(m, x).used = m.used /\ Advanced(m, x).reply = Append(m.reply, x)
           /\ Advanced(m, x).pc = IF m.i = Len(m.msg.req.ops) THEN "finish"
                                  ELSE IF m.msg.req.type \in {"READ", "WRITE"} THEN "op" ELSE "open"
<1>1. m.reply \in Seq(Nat) /\ m.i \in Nat \ {0}
  BY DEF ServerStates
<1>2. PICK i \in Nat \ {0} : i = m.i + 1
  BY <1>1
<1>3. PICK rep \in Seq(Nat) : rep = Append(m.reply, x)
  BY <1>1, AppendFacts, Zenon
<1>4. PICK pc \in {"open", "op", "finish"} : pc = IF m.i = Len(m.msg.req.ops) THEN "finish"
                     ELSE IF m.msg.req.type \in {"READ", "WRITE"} THEN "op" ELSE "open"
  OBVIOUS
<1>5. Advanced(m, x) = [m EXCEPT !.i = i, !.reply = rep, !.pc = pc]
  BY <1>2, <1>3, <1>4 DEF Advanced, ServerStates
<1>6. QED
  <2>1. PICK a : a = Advanced(m, x)
    OBVIOUS
  <2>2. /\ a \in ServerStates /\ a.msg = m.msg /\ a.pc = pc /\ a.i = i /\ a.file = m.file /\ a.used = m.used
        /\ a.reply = rep
    BY <1>5, <2>1, Zenon DEF ServerStates
  <2>3. QED
    BY <1>2, <1>3, <1>4, <2>1, <2>2, Zenon

LEMMA AdvancedAnswers ==
    ASSUME NEW m \in ServerStates, m.msg \in Headers, NEW x \in Nat, NEW out \in Seq(Nat),
           m.i <= Len(m.msg.req.ops), Len(out) = m.i - 1,
           m.msg.req.type \in Transfers => m.file, m.msg.req.type # "READ" => m.reply = out
    PROVE  Answers(Advanced(m, x), Append(out, x)) /\ Len(Append(out, x)) <= Len(m.msg.req.ops)
<1>1. PICK r \in Requests : r = m.msg.req
  BY DEF Headers
<1>2. PICK z \in Nat : z = Len(r.ops)
  BY RequestFacts
<1>3. PICK i \in Nat : i = m.i /\ i # 0
  BY DEF ServerStates
<1>4. i <= z /\ Len(out) = i - 1
  BY <1>1, <1>2, <1>3
<1>5. PICK a \in ServerStates : a = Advanced(m, x)
  BY AdvancedFacts, Zenon
<1>6. /\ a.msg = m.msg /\ a.i = i + 1 /\ a.file = m.file
      /\ a.used = m.used /\ a.reply = Append(m.reply, x)
      /\ a.pc = IF i = z THEN "finish" ELSE IF r.type \in {"READ", "WRITE"} THEN "op" ELSE "open"
  <2>1. /\ a.msg = m.msg /\ a.i = m.i + 1 /\ a.file = m.file
        /\ a.used = m.used /\ a.reply = Append(m.reply, x)
        /\ a.pc = IF m.i = Len(m.msg.req.ops) THEN "finish"
                  ELSE IF m.msg.req.type \in {"READ", "WRITE"} THEN "op" ELSE "open"
    BY <1>5, AdvancedFacts
  <2>2. m.i = i /\ m.msg.req = r /\ Len(m.msg.req.ops) = z
    BY <1>1, <1>2, <1>3
  <2>3. QED
    BY <2>1, <2>2
<1>7. PICK more \in Seq(Nat) : more = Append(out, x) /\ more # <<>>
  BY AppendFacts, Zenon
<1>8. Len(more) = i
  <2>1. Len(more) = Len(out) + 1
    BY <1>7, AppendFacts
  <2>2. QED
    BY <1>3, <1>4, <2>1
<1>9. a.reply # <<>>
  <2>1. PICK rep \in Seq(Nat) : rep = m.reply
    BY DEF ServerStates
  <2>2. Append(rep, x) # <<>>
    BY AppendFacts, ZenonT(40)
  <2>3. QED
    BY <1>6, <2>1, <2>2, Zenon
<1>10. a.pc \in {"open", "op"} => a.i <= z
  BY <1>3, <1>4, <1>6
<1>11. r.type \in Transfers => a.pc # "open" /\ a.file
  BY <1>1, <1>6 DEF Transfers
<1>12. Len(more) = a.i - 1 /\ (a.pc = "finish" => a.i = z + 1)
  BY <1>3, <1>6, <1>8
<1>13. r.type # "READ" => a.reply = more
  BY <1>1, <1>6, <1>7, Zenon
<1>14. a.msg.req = r
  BY <1>1, <1>6
<1>15. Answers(a, more)
  BY <1>2, <1>7, <1>9, <1>10, <1>11, <1>12, <1>13, <1>14, Zenon DEF Answers
<1>16. QED
  BY <1>1, <1>2, <1>4, <1>5, <1>7, <1>8, <1>15

(* What is known of a server thread at work.                               *)
LEMMA AtWork ==
    ASSUME IInv, NEW c \in Connections, server[c].pc \in {"open", "op", "finish"}
    PROVE  /\ server[c].msg # NULL /\ server[c] \in ServerStates /\ server[c].msg \in Headers
           /\ server[c].msg.req \in Requests /\ server[c].msg.id \in Ids
           /\ issued[server[c].msg.id] = server[c].msg.req
           /\ up[c] \in Seq(Items) /\ down[c] \in Seq(Replies) /\ outcome[server[c].msg.id] \in Seq(Nat)
           /\ Frames(up[c], Left(server[c]))
           /\ server[c].msg.req.type # "WRITE" => Left(server[c]) = 0
           /\ server[c].msg.req.type = "WRITE" =>
                 /\ server[c].pc \in {"open", "op"} => server[c].i <= Len(server[c].msg.req.ops)
                 /\ server[c].pc = "open" => server[c].i = 1
           /\ ServerReplies(server[c].msg.req) =>
                 /\ progress[server[c].msg.id] = "started" /\ Answers(server[c], outcome[server[c].msg.id])
                 /\ Len(outcome[server[c].msg.id]) <= Len(server[c].msg.req.ops)
                 /\ server[c].msg.req.persistency = "STORAGE" /\ server[c].msg.req.type = "CREATE" /\ server[c].pc # "op"
                       => Synced(server[c].msg.id)
                 /\ server[c].msg.req.persistency = "STORAGE" /\ server[c].msg.req.type = "WRITE" /\ ~server[c].file
                       => Synced(server[c].msg.id)
<1>1. WorksAt(c) /\ TypeOK /\ Works /\ Recorded
  BY DEF IInv, Works
<1>2. server[c].msg # NULL
  BY <1>1 DEF WorksAt
<1>3. /\ server[c] \in ServerStates /\ server[c].msg \in Headers
      /\ server[c].msg.req \in Requests /\ server[c].msg.id \in Ids
      /\ issued[server[c].msg.id] = server[c].msg.req
      /\ up[c] \in Seq(Items) /\ down[c] \in Seq(Replies) /\ outcome[server[c].msg.id] \in Seq(Nat)
  BY <1>1, <1>2, ServerFacts
<1>4. Frames(up[c], Left(server[c])) /\ (server[c].msg.req.type # "WRITE" => Left(server[c]) = 0)
  BY DEF IInv, Framed, Left
<1>5. server[c].msg.req.type = "WRITE" =>
        /\ server[c].pc \in {"open", "op"} => server[c].i <= Len(server[c].msg.req.ops)
        /\ server[c].pc = "open" => server[c].i = 1
  BY <1>1, <1>2 DEF WorksAt
<1>6. ASSUME ServerReplies(server[c].msg.req) PROVE Answering(c)
  BY <1>1, <1>2, <1>6 DEF WorksAt
<1>7. ASSUME ServerReplies(server[c].msg.req) PROVE Len(outcome[server[c].msg.id]) <= Len(server[c].msg.req.ops)
  <2>1. RecordedOf(server[c].msg.id) /\ issued[server[c].msg.id] # NULL
    BY <1>1, <1>3, RequestFacts DEF Recorded
  <2>2. QED
    BY <1>3, <1>7, <2>1 DEF RecordedOf
<1>8. QED
  BY <1>2, <1>3, <1>4, <1>5, <1>6, <1>7 DEF Answering

(* The changes to the file of a request are those to its object.           *)
LEMMA SyncedBy ==
    ASSUME IInv, NEW id \in Ids, issued[id] # NULL, NEW o \in Objects, o = issued[id].object,
           unsynced' = [unsynced EXCEPT ![o] = {}]
    PROVE  Synced(id)'
<1>1. SUFFICES ASSUME NEW p \in Objects, id \in unsynced'[p] PROVE FALSE
  BY DEF Synced
<1>2. unsynced \in [Objects -> SUBSET Ids]
  BY DEF IInv, TypeOK
<1>3. p # o /\ id \in unsynced[p]
  BY <1>1, <1>2
<1>4. QED
  BY <1>3 DEF IInv, Recorded, RecordedOf

LEMMA OpenIInv == ASSUME IInv, NEW c \in Connections, Open(c) PROVE IInv'
<1>0. server[c].pc = "open" /\ alive
  BY DEF Open
<1>1. PICK me \in ServerStates, r \in Requests, id \in Ids :
           me = server[c] /\ r = me.msg.req /\ id = me.msg.id /\ me.msg \in Headers /\ me.msg # NULL
  BY <1>0, AtWork
<1>2. PICK f \in BOOLEAN : f = CanOpen(r.object)
  <2>1. r.object \in Objects
    BY RequestFacts
  <2>2. exists[r.object] \in BOOLEAN
    BY <2>1 DEF IInv, TypeOK
  <2>3. QED
    BY <2>2, Zenon DEF CanOpen
<1> DEFINE new == [me EXCEPT !.pc = "op", !.file = f]
<1>3. /\ new \in ServerStates /\ new.msg = me.msg /\ new.pc = "op" /\ new.i = me.i /\ new.file = f
      /\ new.reply = me.reply /\ new.used = me.used
  BY Zenon DEF ServerStates
<1>4. server' = [server EXCEPT ![c] = new]
  BY <1>1, <1>2, Zenon DEF Open, IInv, TypeOK
<1>5. UNCHANGED <<idle, fresh, up, down, client, exists, size, unsynced, alive, progress, outcome, issued>>
  BY DEF Open, pool, backend, history
<1> HIDE DEF new
<1>6. Left(new) = Left(me)
  BY <1>0, <1>1, <1>3 DEF Left
<1>7. ServerReplies(r) => Answers(new, outcome[id])
  <2>1. SUFFICES ASSUME ServerReplies(r) PROVE Answers(new, outcome[id])
    OBVIOUS
  <2>2. Answers(me, outcome[id])
    BY <1>0, <1>1, <2>1, AtWork
  <2>3. r.type \in Transfers => me.i = 1 /\ outcome[id] = <<>>
    BY <1>0, <1>1, <2>2 DEF Answers
  <2>4. Len(outcome[id]) = me.i - 1
    <3>1. CASE r.type \in Transfers
      BY <2>3, <3>1
    <3>2. CASE r.type \notin Transfers
      BY <1>1, <2>2, <3>2 DEF Answers
    <3>3. QED
      BY <3>1, <3>2
  <2>5. QED
    BY <1>0, <1>1, <1>3, <2>2, <2>3, <2>4 DEF Answers
<1>8. Synced(id) => Synced(id)'
  BY <1>5 DEF Synced
<1>9. TypeOK'
  BY <1>3, <1>4, <1>5 DEF IInv, TypeOK
<1>10. Working(c, new)
  <2>1. Frames(up'[c], Left(new))
    BY <1>0, <1>1, <1>5, <1>6, AtWork
  <2>2. r.type = "WRITE" => new.i <= Len(r.ops)
    BY <1>0, <1>1, <1>3, AtWork
  <2>3. ServerReplies(r) =>
          /\ Answers(new, outcome'[id]) /\ Len(outcome'[id]) <= Len(r.ops)
          /\ r.persistency = "STORAGE" /\ r.type = "WRITE" /\ ~new.file => Synced(id)'
    <3>1. SUFFICES ASSUME ServerReplies(r)
                   PROVE  /\ Answers(new, outcome'[id]) /\ Len(outcome'[id]) <= Len(r.ops)
                          /\ r.persistency = "STORAGE" /\ r.type = "WRITE" /\ ~new.file => Synced(id)'
      OBVIOUS
    <3>2. Len(outcome[id]) <= Len(r.ops)
      BY <1>0, <1>1, <3>1, AtWork
    <3>3. r.persistency = "STORAGE" /\ r.type = "WRITE" => Synced(id)
      <4>1. r.type = "WRITE" => ~me.file
        BY <1>0, <1>1, <3>1, AtWork DEF Answers, Transfers
      <4>2. QED
        BY <1>0, <1>1, <3>1, <4>1, AtWork
    <3>4. QED
      BY <1>5, <1>7, <1>8, <3>1, <3>2, <3>3
  <2>4. QED
    BY <1>0, <1>1, <1>3, <1>4, <1>5, <2>1, <2>2, <2>3 DEF Working, Synced
<1>11. QED
  BY <1>9, <1>10, WorkingIInv

LEMMA CreateIInv == ASSUME IInv, NEW c \in Connections, Create(c) PROVE IInv'
<1>0. server[c].pc = "open" /\ alive
  BY DEF Create
<1>1. PICK me \in ServerStates, r \in Requests, id \in Ids :
           me = server[c] /\ r = me.msg.req /\ id = me.msg.id /\ me.msg \in Headers /\ me.msg # NULL
  BY <1>0, AtWork
<1>2. PICK o \in Objects : o = r.object /\ r.type = "CREATE"
  BY <1>1, RequestFacts DEF Create
<1> DEFINE new == [me EXCEPT !.pc = "op", !.file = TRUE]
<1>3. /\ new \in ServerStates /\ new.msg = me.msg /\ new.pc = "op" /\ new.i = me.i /\ new.file = TRUE
      /\ new.reply = me.reply /\ new.used = me.used
  BY Zenon DEF ServerStates
<1>4. server' = [server EXCEPT ![c] = new]
  BY <1>1, Zenon DEF Create, IInv, TypeOK
<1>5. UNCHANGED <<idle, fresh, up, down, client, alive, progress, outcome, issued>>
  BY DEF Create, pool, history
<1> HIDE DEF new
<1>6. Left(new) = 0
  BY <1>1, <1>2, <1>3 DEF Left
<1>7. ServerReplies(r) => Answers(new, outcome[id])
  <2>1. SUFFICES ASSUME ServerReplies(r) PROVE Answers(new, outcome[id])
    OBVIOUS
  <2>2. Answers(me, outcome[id])
    BY <1>0, <1>1, <2>1, AtWork
  <2>3. QED
    BY <1>0, <1>1, <1>2, <1>3, <2>2 DEF Answers, Transfers
<1>8. /\ exists' \in [Objects -> BOOLEAN] /\ size' \in [Objects -> Nat] /\ unsynced' \in [Objects -> SUBSET Ids]
      /\ \A p \in Objects : \A i \in unsynced'[p] : i \in unsynced[p] \/ (i = id /\ p = o)
  <2>1. exists \in [Objects -> BOOLEAN] /\ size \in [Objects -> Nat] /\ unsynced \in [Objects -> SUBSET Ids]
    BY DEF IInv, TypeOK
  <2>2. \/ UNCHANGED <<exists, size, unsynced>>
        \/ /\ exists' = [exists EXCEPT ![o] = TRUE]
           /\ size' = [size EXCEPT ![o] = 0]
           /\ unsynced' = [unsynced EXCEPT ![o] = {id}]
    BY <1>1, <1>2 DEF Create, backend
  <2>3. CASE UNCHANGED <<exists, size, unsynced>>
    BY <2>1, <2>3
  <2>4. CASE /\ exists' = [exists EXCEPT ![o] = TRUE]
             /\ size' = [size EXCEPT ![o] = 0]
             /\ unsynced' = [unsynced EXCEPT ![o] = {id}]
    <3>1. exists' \in [Objects -> BOOLEAN]
      BY <2>1, <2>4
    <3>2. size' \in [Objects -> Nat]
      BY <2>1, <2>4
    <3>3. unsynced' \in [Objects -> SUBSET Ids] /\ \A p \in Objects : unsynced'[p] = IF p = o THEN {id} ELSE unsynced[p]
      BY <2>1, <2>4
    <3>4. QED
      BY <3>1, <3>2, <3>3
  <2>5. QED
    BY <2>2, <2>3, <2>4
<1>9. TypeOK'
  BY <1>3, <1>4, <1>5, <1>8, Zenon DEF IInv, TypeOK
<1>10. Working(c, new)
  <2>1. Frames(up'[c], Left(new))
    BY <1>0, <1>1, <1>2, <1>5, <1>6, AtWork
  <2>2. ServerReplies(r) => Answers(new, outcome'[id]) /\ Len(outcome'[id]) <= Len(r.ops)
    BY <1>0, <1>1, <1>5, <1>7, AtWork
  <2>3. QED
    BY <1>0, <1>1, <1>2, <1>3, <1>4, <1>5, <1>8, <2>1, <2>2 DEF Working
<1>11. QED
  BY <1>9, <1>10, WorkingIInv

(* An operation other than a read or a write.                              *)
LEMMA PlainOp ==
    ASSUME IInv, NEW c \in Connections, alive, server[c].pc = "op", server[c].msg.req.type \notin Transfers,
           NEW x \in Nat, Done(c, [server[c] EXCEPT !.file = FALSE], x),
           UNCHANGED <<idle, fresh, up, down, client, size, alive, progress, issued>>,
           exists' \in [Objects -> BOOLEAN], unsynced' \in [Objects -> SUBSET Ids],
           \A o \in Objects : unsynced'[o] \subseteq unsynced[o],
           NEW id \in Ids, id = server[c].msg.id,
           server[c].msg.req.type = "CREATE" /\ server[c].msg.req.persistency = "STORAGE" => Synced(id)'
    PROVE  IInv'
<1>1. PICK me \in ServerStates, r \in Requests :
           me = server[c] /\ r = me.msg.req /\ id = me.msg.id /\ me.msg \in Headers /\ me.msg # NULL
  BY AtWork
<1>2. PICK m \in ServerStates : m = [me EXCEPT !.file = FALSE]
  BY Zenon DEF ServerStates
<1>3. m.msg = me.msg /\ m.i = me.i /\ m.reply = me.reply
  BY <1>2 DEF ServerStates
<1>4. PICK new \in ServerStates : new = Advanced(m, x)
  BY <1>1, <1>3, AdvancedFacts
<1>5. /\ outcome' = [outcome EXCEPT ![id] = Append(@, x)]
      /\ server' = [server EXCEPT ![c] = new]
  BY <1>1, <1>2, <1>3, <1>4 DEF Done, Advanced
<1>6. new.msg = me.msg /\ new.pc \in {"open", "op", "finish"}
  BY <1>1, <1>3, <1>4, AdvancedFacts
<1>7. PICK out \in Seq(Nat) : out = outcome[id]
  BY <1>1, AtWork
<1>8. outcome \in [Ids -> Seq(Nat)] /\ server \in [Connections -> ServerStates]
  BY DEF IInv, TypeOK
<1>9. Append(out, x) \in Seq(Nat)
  BY AppendFacts
<1>10. outcome'[id] = Append(out, x) /\ (\A i \in Ids : i # id => outcome'[i] = outcome[i]) /\ outcome' \in [Ids -> Seq(Nat)]
  BY <1>5, <1>7, <1>8, <1>9
<1>11. ServerReplies(r) => Answers(new, Append(out, x)) /\ Len(Append(out, x)) <= Len(r.ops)
  <2>1. SUFFICES ASSUME ServerReplies(r) PROVE Answers(new, Append(out, x)) /\ Len(Append(out, x)) <= Len(r.ops)
    OBVIOUS
  <2>2. Answers(me, out)
    BY <1>1, <1>7, <2>1, AtWork
  <2>3. r.type \notin Transfers /\ r.type # "READ" /\ me.pc = "op"
    BY <1>1 DEF Transfers
  <2>4. m.i <= Len(r.ops) /\ Len(out) = m.i - 1 /\ m.reply = out
    BY <1>1, <1>3, <2>2, <2>3 DEF Answers
  <2>5. m.msg \in Headers /\ m.msg.req = r
    BY <1>1, <1>3
  <2>6. QED
    BY <1>4, <2>3, <2>4, <2>5, AdvancedAnswers
<1>12. TypeOK'
  BY <1>5, <1>8, <1>10, Zenon DEF IInv, TypeOK
<1>13. Working(c, new)
  <2>1. r.type # "READ" /\ r.type # "WRITE"
    BY <1>1 DEF Transfers
  <2>2. Left(new) = 0
    BY <1>1, <1>6, <2>1 DEF Left
  <2>3. Frames(up'[c], Left(new))
    BY <1>1, <2>1, <2>2, AtWork
  <2>4. QED
    BY <1>1, <1>5, <1>6, <1>10, <1>11, <2>1, <2>3, ZenonT(40) DEF Working, Synced
<1>14. QED
  BY <1>12, <1>13, WorkingIInv

LEMMA CreateOpIInv == ASSUME IInv, NEW c \in Connections, CreateOp(c) PROVE IInv'
<1>1. /\ alive /\ server[c].pc = "op" /\ server[c].msg.req.type = "CREATE"
      /\ Done(c, [server[c] EXCEPT !.file = FALSE], 0)
      /\ UNCHANGED <<idle, fresh, up, down, client, exists, size, alive, progress, issued>>
      /\ unsynced' = IF server[c].msg.req.persistency = "STORAGE"
                     THEN [unsynced EXCEPT ![server[c].msg.req.object] = {}] ELSE unsynced
  BY DEF CreateOp, pool
<1>2. PICK r \in Requests, id \in Ids, o \in Objects :
           r = server[c].msg.req /\ id = server[c].msg.id /\ issued[id] = r /\ o = r.object
  BY <1>1, AtWork, RequestFacts
<1>3. unsynced \in [Objects -> SUBSET Ids] /\ exists \in [Objects -> BOOLEAN]
  BY DEF IInv, TypeOK
<1>4. r.persistency = "STORAGE" => Synced(id)'
  BY <1>1, <1>2, SyncedBy, RequestFacts, Zenon
<1>5. unsynced' \in [Objects -> SUBSET Ids] /\ \A p \in Objects : unsynced'[p] \subseteq unsynced[p]
  BY <1>1, <1>2, <1>3
<1>6. QED
  BY <1>1, <1>2, <1>3, <1>4, <1>5, PlainOp DEF Transfers

LEMMA DeleteOpIInv == ASSUME IInv, NEW c \in Connections, DeleteOp(c) PROVE IInv'
<1> DEFINE status == IF server[c].file /\ exists[server[c].msg.req.object] THEN 1 ELSE 0
<1>1. /\ alive /\ server[c].pc = "op" /\ server[c].msg.req.type = "DELETE"
      /\ Done(c, [server[c] EXCEPT !.file = FALSE], status)
      /\ UNCHANGED <<idle, fresh, up, down, client, size, unsynced, alive, progress, issued>>
      /\ exists' = IF server[c].file THEN [exists EXCEPT ![server[c].msg.req.object] = FALSE] ELSE exists
  BY DEF DeleteOp, pool
<1>2. status \in Nat
  OBVIOUS
<1> HIDE DEF status
<1>3. unsynced \in [Objects -> SUBSET Ids] /\ exists \in [Objects -> BOOLEAN]
  BY DEF IInv, TypeOK
<1>4. exists' \in [Objects -> BOOLEAN]
  BY <1>1, <1>3, Zenon
<1>5. QED
  <2>1. PICK id \in Ids : id = server[c].msg.id
    BY <1>1, AtWork
  <2>2. QED
    BY <1>1, <1>2, <1>3, <1>4, <2>1, PlainOp, Zenon DEF Transfers

LEMMA StatusOpIInv == ASSUME IInv, NEW c \in Connections, StatusOp(c) PROVE IInv'
<1> DEFINE status == IF server[c].file THEN size[server[c].msg.req.object] ELSE 0
<1>1. /\ alive /\ server[c].pc = "op" /\ server[c].msg.req.type = "STATUS"
      /\ Done(c, [server[c] EXCEPT !.file = FALSE], status)
      /\ UNCHANGED <<idle, fresh, up, down, client, exists, size, unsynced, alive, progress, issued>>
  BY DEF StatusOp, pool, backend
<1>2. status \in Nat
  BY <1>1, AtWork, RequestFacts DEF IInv, TypeOK
<1> HIDE DEF status
<1>3. unsynced \in [Objects -> SUBSET Ids] /\ exists \in [Objects -> BOOLEAN]
  BY DEF IInv, TypeOK
<1>4. QED
  <2>1. PICK id \in Ids : id = server[c].msg.id
    BY <1>1, AtWork
  <2>2. QED
    BY <1>1, <1>2, <1>3, <2>1, PlainOp DEF Transfers

LEMMA SyncOpIInv == ASSUME IInv, NEW c \in Connections, SyncOp(c) PROVE IInv'
<1>1. /\ alive /\ server[c].pc = "op" /\ server[c].msg.req.type = "SYNC"
      /\ Done(c, [server[c] EXCEPT !.file = FALSE], 0)
      /\ UNCHANGED <<idle, fresh, up, down, client, exists, size, alive, progress, issued>>
      /\ unsynced' = IF server[c].file THEN [unsynced EXCEPT ![server[c].msg.req.object] = {}] ELSE unsynced
  BY DEF SyncOp, pool
<1>2. unsynced \in [Objects -> SUBSET Ids] /\ exists \in [Objects -> BOOLEAN]
  BY DEF IInv, TypeOK
<1>3. unsynced' \in [Objects -> SUBSET Ids] /\ \A p \in Objects : unsynced'[p] \subseteq unsynced[p]
  BY <1>1, <1>2, Zenon
<1>4. QED
  <2>1. PICK id \in Ids : id = server[c].msg.id
    BY <1>1, AtWork
  <2>2. QED
    BY <1>1, <1>2, <1>3, <2>1, PlainOp DEF Transfers

(* A read of an object that is open, in a reply begun before or just now.  *)
LEMMA ReadDone ==
    ASSUME IInv, NEW c \in Connections, alive, server[c].pc = "op", server[c].msg.req.type = "READ",
           server[c].file, NEW m \in ServerStates, m.msg = server[c].msg, m.i = server[c].i, m.file,
           NEW x \in Nat, Done(c, m, x),
           UNCHANGED <<idle, fresh, up, client, exists, size, unsynced, alive, progress, issued>>,
           \/ down' = down /\ m.reply = server[c].reply
           \/ /\ server[c].reply # <<>> /\ m.reply = <<>>
              /\ down' = [down EXCEPT ![c] = Append(@, Reply(server[c].msg.id, server[c].reply))]
    PROVE  IInv'
<1>1. PICK me \in ServerStates, r \in Requests, id \in Ids :
           me = server[c] /\ r = me.msg.req /\ id = me.msg.id /\ me.msg \in Headers /\ me.msg # NULL
  BY AtWork
<1>2. PICK new \in ServerStates : new = Advanced(m, x)
  BY <1>1, AdvancedFacts
<1>3. /\ outcome' = [outcome EXCEPT ![id] = Append(@, x)]
      /\ server' = [server EXCEPT ![c] = new]
  BY <1>1, <1>2 DEF Done, Advanced
<1>4. new.msg = me.msg /\ new.pc \in {"open", "op", "finish"} /\ new.reply = Append(m.reply, x)
  BY <1>1, <1>2, AdvancedFacts
<1>5. PICK out \in Seq(Nat) : out = outcome[id]
  BY <1>1, AtWork
<1>6. /\ outcome \in [Ids -> Seq(Nat)] /\ server \in [Connections -> ServerStates]
      /\ down \in [Connections -> Seq(Replies)]
  BY DEF IInv, TypeOK
<1>7. Append(out, x) \in Seq(Nat)
  BY AppendFacts
<1>8. outcome'[id] = Append(out, x) /\ (\A i \in Ids : i # id => outcome'[i] = outcome[i]) /\ outcome' \in [Ids -> Seq(Nat)]
  BY <1>3, <1>5, <1>6, <1>7
<1>9. ServerReplies(r) /\ r.type = "READ" /\ me.file /\ me.pc = "op" /\ r.type \in Transfers
  BY <1>1 DEF ServerReplies, Transfers
<1>10. Answers(new, Append(out, x)) /\ Len(Append(out, x)) <= Len(r.ops)
  <2>1. Answers(me, out)
    BY <1>1, <1>5, <1>9, AtWork
  <2>2. me.i <= Len(r.ops) /\ Len(out) = me.i - 1
    BY <1>1, <1>9, <2>1 DEF Answers
  <2>3. m.i <= Len(m.msg.req.ops) /\ Len(out) = m.i - 1 /\ m.msg \in Headers /\ m.msg.req = r
    BY <1>1, <2>2
  <2>4. QED
    BY <1>2, <1>9, <2>3, AdvancedAnswers, Zenon
<1>11. Reply(id, me.reply) \in Replies /\ Reply(id, me.reply).id = id /\ me.reply \in Seq(Nat)
  BY DEF Reply, Replies, ServerStates
<1>12. \/ down' = down
       \/ \E y \in Replies : y.id = id /\ down' = [down EXCEPT ![c] = Append(@, y)]
  BY <1>1, <1>11, Zenon
<1>13. down' \in [Connections -> Seq(Replies)]
  <2>1. CASE down' = down
    BY <1>6, <2>1
  <2>2. ASSUME NEW y \in Replies, down' = [down EXCEPT ![c] = Append(@, y)] PROVE down' \in [Connections -> Seq(Replies)]
    <3>1. Append(down[c], y) \in Seq(Replies)
      BY <1>6, AppendFacts
    <3>2. QED
      BY <1>6, <2>2, <3>1
  <2>3. QED
    BY <1>12, <2>1, <2>2
<1>14. ASSUME NEW results \in Seq(Nat), Whole(results, down[c], me.reply, out)
       PROVE  Whole(results, down'[c], new.reply, Append(out, x))
  <2>0. down[c] \in Seq(Replies)
    BY <1>6
  <2>1. CASE down' = down /\ m.reply = me.reply
    <3>1. Whole(results, down[c], Append(me.reply, x), Append(out, x))
      BY <1>11, <1>14, <2>0, WholeGrow
    <3>2. QED
      BY <1>4, <2>1, <3>1, Zenon
  <2>2. CASE me.reply # <<>> /\ m.reply = <<>> /\ down' = [down EXCEPT ![c] = Append(@, Reply(id, me.reply))]
    <3>1. PICK more \in Seq(Replies) : more = Append(down[c], Reply(id, me.reply))
      BY <1>11, <2>0, AppendFacts, Zenon
    <3>2. Whole(results, more, <<>>, out)
      BY <1>11, <1>14, <2>0, <2>2, <3>1, WholeFlush
    <3>3. Whole(results, more, Append(<<>>, x), Append(out, x))
      <4>1. <<>> \in Seq(Nat)
        OBVIOUS
      <4>2. QED
        BY <3>2, <4>1, WholeGrow, Zenon
    <3>4. down'[c] = more
      BY <1>6, <2>2, <3>1
    <3>5. QED
      BY <1>4, <2>2, <3>3, <3>4, Zenon
  <2>3. QED
    BY <1>1, <2>1, <2>2
<1>15. TypeOK'
  BY <1>3, <1>6, <1>8, <1>13 DEF IInv, TypeOK
<1>16. Working(c, new)
  <2>1. Left(new) = 0
    BY <1>1, <1>4, <1>9 DEF Left
  <2>2. Frames(up'[c], Left(new))
    BY <1>1, <1>9, <2>1, AtWork, Zenon
  <2>3. \A results \in Seq(Nat) : Whole(results, down[c], me.reply, outcome[id])
                                     => Whole(results, down'[c], new.reply, outcome'[id])
    BY <1>5, <1>8, <1>14
  <2>4. \A o \in Objects : unsynced'[o] = unsynced[o]
    OBVIOUS
  <2>5. QED
    BY <1>1, <1>3, <1>4, <1>8, <1>9, <1>10, <1>12, <2>2, <2>3, <2>4, Zenon DEF Working
<1>17. QED
  BY <1>15, <1>16, WorkingIInv

(* The object could not be opened: the read ends.                          *)
LEMMA ReadRefused ==
    ASSUME IInv, NEW c \in Connections, alive, server[c].pc = "op", server[c].msg.req.type = "READ",
           ~server[c].file, server' = [server EXCEPT ![c].pc = "finish"],
           UNCHANGED <<idle, fresh, up, down, client, exists, size, unsynced, alive, progress, outcome, issued>>
    PROVE  IInv'
<1>1. PICK me \in ServerStates, r \in Requests, id \in Ids :
           me = server[c] /\ r = me.msg.req /\ id = me.msg.id /\ me.msg \in Headers /\ me.msg # NULL
  BY AtWork
<1> DEFINE new == [me EXCEPT !.pc = "finish"]
<1>2. /\ new \in ServerStates /\ new.msg = me.msg /\ new.pc = "finish" /\ new.i = me.i /\ new.file = me.file
      /\ new.reply = me.reply /\ new.used = me.used
  BY DEF ServerStates
<1>3. server' = [server EXCEPT ![c] = new]
  BY <1>1 DEF IInv, TypeOK
<1> HIDE DEF new
<1>4. r.type = "READ" /\ ServerReplies(r) /\ ~me.file /\ me.pc = "op"
  BY <1>1 DEF ServerReplies
<1>5. Answers(me, outcome[id]) /\ Len(outcome[id]) <= Len(r.ops)
  BY <1>1, <1>4, AtWork
<1>6. Answers(new, outcome[id])
  BY <1>1, <1>2, <1>4, <1>5 DEF Answers, Transfers
<1>7. TypeOK'
  BY <1>2, <1>3, Zenon DEF IInv, TypeOK
<1>8. Working(c, new)
  <2>1. Left(new) = 0
    BY <1>2 DEF Left
  <2>2. Frames(up'[c], Left(new))
    BY <1>1, <1>4, <2>1, AtWork
  <2>3. QED
    BY <1>1, <1>2, <1>3, <1>4, <1>5, <1>6, <2>2, Zenon DEF Working
<1>9. QED
  BY <1>7, <1>8, WorkingIInv

LEMMA ReadOpIInv == ASSUME IInv, NEW c \in Connections, ReadOp(c) PROVE IInv'
<1>0. alive /\ server[c].pc = "op" /\ server[c].msg.req.type = "READ"
  BY DEF ReadOp
<1>1. PICK me \in ServerStates, r \in Requests, id \in Ids :
           me = server[c] /\ r = me.msg.req /\ id = me.msg.id /\ me.msg \in Headers /\ me.msg # NULL
  BY <1>0, AtWork
<1>2. r.type = "READ" /\ ServerReplies(r) /\ me.pc = "op"
  BY <1>0, <1>1 DEF ServerReplies
<1>3. Answers(me, outcome[id])
  BY <1>0, <1>1, <1>2, AtWork
<1>4. PICK op \in Ranges : op = r.ops[me.i]
  <2>1. r.ops \in Seq(Ranges) /\ Len(r.ops) \in Nat
    BY RequestFacts
  <2>2. me.i \in 1 .. Len(r.ops)
    <3>1. me.i \in Nat \ {0} /\ me.i <= Len(r.ops)
      BY <1>1, <1>2, <1>3 DEF Answers, ServerStates
    <3>2. QED
      BY <2>1, <3>1
  <2>3. QED
    BY <2>1, <2>2, Elements
<1>5. PICK l \in Nat : l = op.length /\ op.offset \in Nat
  BY DEF Ranges
<1>6. UNCHANGED <<idle, fresh, up, client, exists, size, unsynced, alive, progress, issued>>
  BY DEF ReadOp, pool, backend
<1> DEFINE next == IF ChunkFull(me, l) THEN [me EXCEPT !.reply = <<>>, !.used = l]
                   ELSE [me EXCEPT !.used = @ + l]
<1>7. \/ ~me.file /\ server' = [server EXCEPT ![c].pc = "finish"] /\ UNCHANGED <<down, outcome>>
      \/ me.file /\ Done(c, me, 0) /\ UNCHANGED down
      \/ /\ me.file /\ l <= memory_chunk_size
         /\ down' = IF ChunkFull(me, l) THEN [down EXCEPT ![c] = Append(@, Reply(id, me.reply))] ELSE down
         /\ Done(c, next, BytesRead(r.object, op))
  BY <1>1, <1>4, <1>5, Zenon DEF ReadOp
<1>8. CASE ~me.file /\ server' = [server EXCEPT ![c].pc = "finish"] /\ UNCHANGED <<down, outcome>>
  BY <1>0, <1>1, <1>6, <1>8, ReadRefused, Zenon
<1>9. CASE me.file /\ Done(c, me, 0) /\ UNCHANGED down
  BY <1>0, <1>1, <1>6, <1>9, ReadDone
<1>10. CASE /\ me.file /\ l <= memory_chunk_size
            /\ down' = IF ChunkFull(me, l) THEN [down EXCEPT ![c] = Append(@, Reply(id, me.reply))] ELSE down
            /\ Done(c, next, BytesRead(r.object, op))
  <2>1. BytesRead(r.object, op) \in Nat
    <3>1. PICK s \in Nat, p \in Nat : s = size[r.object] /\ p = op.offset
      BY <1>5, RequestFacts, Zenon DEF IInv, TypeOK
    <3>2. BytesRead(r.object, op) = IF p < s THEN Min2(l, s - p) ELSE 0
      BY <1>5, <3>1 DEF BytesRead
    <3>3. QED
      BY <3>2 DEF Min2
  <2>2. me.used \in Nat /\ me.reply \in Seq(Nat) /\ memory_chunk_size \in Nat
    BY ProtocolAssumption DEF ServerStates
  <2>3. next \in ServerStates /\ next.msg = me.msg /\ next.i = me.i /\ next.file = me.file
    <3>1. [me EXCEPT !.reply = <<>>, !.used = l] \in ServerStates
      <4>0. <<>> \in Seq(Nat)
        OBVIOUS
      <4>1. PICK none \in Seq(Nat) : none = <<>>
        BY <4>0, Zenon
      <4>2. [me EXCEPT !.reply = none, !.used = l] \in ServerStates
        BY Zenon DEF ServerStates
      <4>3. QED
        BY <4>1, <4>2, Zenon
    <3>2. me.used + l \in Nat
      BY <2>2
    <3>3. [me EXCEPT !.used = @ + l] \in ServerStates
      BY <3>2 DEF ServerStates
    <3>4. QED
      BY <3>1, <3>3 DEF ServerStates
  <2>4. CASE ChunkFull(me, l)
    <3>1. next.reply = <<>>
      BY <2>4 DEF ServerStates
    <3>2. me.reply # <<>>
      <4>1. me.used + l > memory_chunk_size
        BY <2>4 DEF ChunkFull
      <4>2. me.used # 0
        BY <1>10, <2>2, <4>1
      <4>3. QED
        BY <1>1, <1>2, <1>3, <4>2 DEF Answers
    <3> HIDE DEF next
    <3>3. QED
      BY <1>0, <1>1, <1>6, <1>10, <2>1, <2>3, <2>4, <3>1, <3>2, ReadDone, Zenon
  <2>5. CASE ~ChunkFull(me, l)
    <3>1. next.reply = me.reply /\ down' = down
      BY <1>10, <2>5 DEF ServerStates
    <3> HIDE DEF next
    <3>2. QED
      BY <1>0, <1>1, <1>6, <1>10, <2>1, <2>3, <3>1, ReadDone, Zenon
  <2>6. QED
    BY <2>4, <2>5
<1>11. QED
  BY <1>7, <1>8, <1>9, <1>10

(* Each write makes one item of data less to take.                         *)
LEMMA WriteLeft ==
    ASSUME NEW me \in ServerStates, me.msg \in Headers, me.msg # NULL, me.msg.req.type = "WRITE",
           me.pc = "op", me.i <= Len(me.msg.req.ops),
           NEW new \in ServerStates, new.msg = me.msg, new.i = me.i + 1,
           new.pc = IF me.i = Len(me.msg.req.ops) THEN "finish" ELSE "op"
    PROVE  Left(me) \in Nat \ {0} /\ Left(new) = Left(me) - 1
<1>1. PICK r \in Requests : r = me.msg.req
  BY DEF Headers
<1>2. PICK z \in Nat : z = Len(r.ops)
  BY RequestFacts
<1>3. PICK i \in Nat : i = me.i /\ i # 0
  BY DEF ServerStates
<1>4. Left(me) = z - i + 1
  BY <1>1, <1>2, <1>3 DEF Left
<1>5. i <= z
  BY <1>1, <1>2, <1>3
<1>6. Left(new) = IF i = z THEN 0 ELSE z - (i + 1) + 1
  BY <1>1, <1>2, <1>3, Zenon DEF Left
<1>7. z - i + 1 \in Nat \ {0} /\ (IF i = z THEN 0 ELSE z - (i + 1) + 1) = (z - i + 1) - 1
  BY <1>5
<1>8. QED
  BY <1>4, <1>6, <1>7

(* A write to an object that is open.                                      *)
LEMMA WriteDone ==
    ASSUME IInv, NEW c \in Connections, alive, server[c].pc = "op", server[c].msg.req.type = "WRITE",
           server[c].file, NEW x \in Nat, Done(c, server[c], x),
           UNCHANGED <<idle, fresh, down, client, exists, alive, progress, issued>>,
           size' \in [Objects -> Nat],
           \/ unsynced' = unsynced
           \/ unsynced' = [unsynced EXCEPT ![server[c].msg.req.object] = @ \cup {server[c].msg.id}],
           up' = up \/ (up[c] # <<>> /\ up' = [up EXCEPT ![c] = Tail(@)])
    PROVE  IInv'
<1>1. PICK me \in ServerStates, r \in Requests, id \in Ids :
           me = server[c] /\ r = me.msg.req /\ id = me.msg.id /\ me.msg \in Headers /\ me.msg # NULL
  BY AtWork
<1>2. PICK new \in ServerStates : new = Advanced(me, x)
  BY <1>1, AdvancedFacts
<1>3. /\ outcome' = [outcome EXCEPT ![id] = Append(@, x)]
      /\ server' = [server EXCEPT ![c] = new]
  BY <1>1, <1>2 DEF Done, Advanced
<1>4. r.type = "WRITE" /\ me.file /\ me.pc = "op" /\ me.i <= Len(r.ops)
  BY <1>1, AtWork
<1>5. /\ new.msg = me.msg /\ new.pc \in {"op", "finish"} /\ new.i = me.i + 1 /\ new.file
      /\ new.pc = IF me.i = Len(r.ops) THEN "finish" ELSE "op"
  <2>1. /\ new.msg = me.msg /\ new.i = me.i + 1 /\ new.file = me.file
        /\ new.pc = IF me.i = Len(me.msg.req.ops) THEN "finish"
                    ELSE IF me.msg.req.type \in {"READ", "WRITE"} THEN "op" ELSE "open"
    BY <1>1, <1>2, AdvancedFacts
  <2>2. QED
    BY <1>1, <1>4, <2>1
<1>6. PICK out \in Seq(Nat) : out = outcome[id]
  BY <1>1, AtWork
<1>7. /\ outcome \in [Ids -> Seq(Nat)] /\ server \in [Connections -> ServerStates]
      /\ up \in [Connections -> Seq(Items)] /\ unsynced \in [Objects -> SUBSET Ids]
  BY DEF IInv, TypeOK
<1>8. Append(out, x) \in Seq(Nat)
  BY AppendFacts
<1>9. outcome'[id] = Append(out, x) /\ (\A i \in Ids : i # id => outcome'[i] = outcome[i]) /\ outcome' \in [Ids -> Seq(Nat)]
  BY <1>3, <1>6, <1>7, <1>8
<1>10. ServerReplies(r) => Answers(new, Append(out, x)) /\ Len(Append(out, x)) <= Len(r.ops)
  <2>1. SUFFICES ASSUME ServerReplies(r) PROVE Answers(new, Append(out, x)) /\ Len(Append(out, x)) <= Len(r.ops)
    OBVIOUS
  <2>2. Answers(me, out)
    BY <1>1, <1>6, <2>1, AtWork
  <2>3. Len(out) = me.i - 1 /\ me.reply = out
    BY <1>1, <1>4, <2>2 DEF Answers
  <2>4. me.i <= Len(me.msg.req.ops) /\ me.msg.req.type # "READ"
    BY <1>1, <1>4
  <2>5. QED
    BY <1>1, <1>2, <1>4, <2>3, <2>4, AdvancedAnswers, Zenon
<1>11. PICK left \in Nat \ {0} : left = Left(me) /\ Left(new) = left - 1
  BY <1>1, <1>4, <1>5, WriteLeft
<1>12. Frames(up[c], left)
  BY <1>1, <1>11, AtWork
<1>13. up[c] \in Seq(Items) /\ left \in Nat /\ left - 1 \in Nat /\ left - 1 <= left
  BY <1>7
<1>14. Frames(up'[c], Left(new)) /\ up' \in [Connections -> Seq(Items)]
  <2>1. CASE up' = up
    <3>1. Frames(up[c], left - 1)
      BY <1>12, <1>13, FramesLess
    <3>2. QED
      BY <1>7, <1>11, <2>1, <3>1
  <2>2. CASE up[c] # <<>> /\ up' = [up EXCEPT ![c] = Tail(@)]
    <3>1. Frames(Tail(up[c]), left - 1)
      BY <1>12, <1>13, FramesTake
    <3>2. Tail(up[c]) \in Seq(Items)
      BY <1>13, <2>2, TailFacts
    <3>3. up'[c] = Tail(up[c])
      BY <1>7, <2>2
    <3>4. up' \in [Connections -> Seq(Items)]
      BY <1>7, <2>2, <3>2
    <3>5. QED
      BY <1>11, <3>1, <3>3, <3>4
  <2>3. QED
    BY <2>1, <2>2
<1>15. /\ unsynced' \in [Objects -> SUBSET Ids]
       /\ \A p \in Objects : \A i \in unsynced'[p] : i \in unsynced[p] \/ (i = id /\ p = r.object)
  <2>0. r.object \in Objects
    BY RequestFacts
  <2>1. CASE unsynced' = unsynced
    BY <1>7, <2>1
  <2>2. CASE unsynced' = [unsynced EXCEPT ![r.object] = @ \cup {id}]
    <3>1. /\ unsynced' \in [Objects -> SUBSET Ids]
          /\ \A p \in Objects : unsynced'[p] = IF p = r.object THEN unsynced[p] \cup {id} ELSE unsynced[p]
      BY <1>7, <2>0, <2>2, Zenon
    <3>2. QED
      BY <3>1
  <2>3. QED
    BY <1>1, <2>1, <2>2
<1>16. TypeOK'
  BY <1>3, <1>7, <1>9, <1>14, <1>15, Zenon DEF IInv, TypeOK
<1>17. Working(c, new)
  <2>1. new.pc # "finish" => new.i <= Len(r.ops)
    <3>1. PICK z \in Nat, i \in Nat : z = Len(r.ops) /\ i = me.i
      BY RequestFacts, Zenon DEF ServerStates
    <3>2. i <= z /\ (new.pc # "finish" => i # z) /\ new.i = i + 1
      BY <1>4, <1>5, <3>1
    <3>3. QED
      BY <3>1, <3>2, SMTT(40)
  <2>2. r.type # "READ" /\ r.type # "CREATE" /\ new.pc # "open" /\ new.pc \in {"open", "op", "finish"} /\ down' = down
    BY <1>4, <1>5
  <2>3. \A o \in Objects : \A i \in unsynced'[o] :
          i \in unsynced[o] \/ (i = id /\ o = r.object /\ r.type \in {"CREATE", "WRITE"})
    BY <1>4, <1>15
  <2>4. ServerReplies(r) => Answers(new, outcome'[id]) /\ Len(outcome'[id]) <= Len(r.ops)
    BY <1>9, <1>10
  <2>5. /\ idle' = idle /\ fresh' = fresh /\ client' = client /\ alive' = alive
        /\ progress' = progress /\ issued' = issued
        /\ (up' = up \/ (up[c] # <<>> /\ up' = [up EXCEPT ![c] = Tail(@)]))
    OBVIOUS
  <2>6. server[c] = me /\ r = me.msg.req /\ id = me.msg.id /\ me.msg # NULL /\ new.msg = me.msg /\ new.file
    BY <1>1, <1>5
  <2>7. /\ new.pc \in {"open", "op"} => new.i <= Len(r.ops)
        /\ new.pc = "open" => new.i = 1
    BY <2>1, <2>2
  <2>8. QED
    BY <1>3, <1>9, <1>14, <2>2, <2>3, <2>4, <2>5, <2>6, <2>7 DEF Working
<1>18. QED
  BY <1>16, <1>17, WorkingIInv

(* A write to an object that could not be opened: its data is taken.       *)
LEMMA WriteSkipped ==
    ASSUME IInv, NEW c \in Connections, alive, server[c].pc = "op", server[c].msg.req.type = "WRITE",
           ~server[c].file,
           server' = [server EXCEPT ![c].i = @ + 1,
                         ![c].pc = IF server[c].i = Len(server[c].msg.req.ops) THEN "finish" ELSE "op"],
           UNCHANGED <<idle, fresh, down, client, exists, size, unsynced, alive, progress, outcome, issued>>,
           up[c] # <<>>, up' = [up EXCEPT ![c] = Tail(@)]
    PROVE  IInv'
<1>1. PICK me \in ServerStates, r \in Requests, id \in Ids :
           me = server[c] /\ r = me.msg.req /\ id = me.msg.id /\ me.msg \in Headers /\ me.msg # NULL
  BY AtWork
<1>2. PICK z \in Nat, i \in Nat, j \in Nat \ {0} : z = Len(r.ops) /\ i = me.i /\ i # 0 /\ j = i + 1
  <2>1. me.i \in Nat \ {0} /\ Len(r.ops) \in Nat
    BY RequestFacts DEF ServerStates
  <2>2. me.i + 1 \in Nat \ {0}
    BY <2>1
  <2>3. QED
    BY <2>1, <2>2
<1>3. PICK pc \in {"op", "finish"} : pc = IF i = z THEN "finish" ELSE "op"
  OBVIOUS
<1> DEFINE new == [me EXCEPT !.i = j, !.pc = pc]
<1>4. /\ new \in ServerStates /\ new.msg = me.msg /\ new.pc = pc /\ new.i = j /\ new.file = me.file
      /\ new.reply = me.reply /\ new.used = me.used
  BY Zenon DEF ServerStates
<1>5. server' = [server EXCEPT ![c] = new]
  BY <1>1, <1>2, <1>3, Zenon DEF IInv, TypeOK
<1> HIDE DEF new
<1>6. r.type = "WRITE" /\ ~me.file /\ me.pc = "op" /\ i <= z
  BY <1>1, <1>2, AtWork
<1>7. PICK left \in Nat \ {0} : left = Left(me) /\ Left(new) = left - 1
  <2>1. me.i <= Len(me.msg.req.ops) /\ new.i = me.i + 1 /\ new.pc = IF me.i = Len(me.msg.req.ops) THEN "finish" ELSE "op"
    BY <1>1, <1>2, <1>3, <1>4, <1>6
  <2>2. QED
    BY <1>1, <1>4, <1>6, <2>1, WriteLeft
<1>8. up \in [Connections -> Seq(Items)] /\ server \in [Connections -> ServerStates]
  BY DEF IInv, TypeOK
<1>9. Frames(up'[c], Left(new)) /\ up' \in [Connections -> Seq(Items)]
  <2>1. Frames(up[c], left)
    BY <1>1, <1>7, AtWork
  <2>2. up[c] \in Seq(Items)
    BY <1>8
  <2>3. Frames(Tail(up[c]), left - 1)
    BY <2>1, <2>2, FramesTake
  <2>4. Tail(up[c]) \in Seq(Items)
    BY <2>2, TailFacts
  <2>5. up'[c] = Tail(up[c]) /\ up' \in [Connections -> Seq(Items)]
    BY <1>8, <2>4
  <2>6. QED
    BY <1>7, <2>3, <2>5
<1>10. ServerReplies(r) => Answers(new, outcome[id]) /\ Len(outcome[id]) <= Len(r.ops)
  <2>1. SUFFICES ASSUME ServerReplies(r) PROVE Answers(new, outcome[id]) /\ Len(outcome[id]) <= Len(r.ops)
    OBVIOUS
  <2>2. Answers(me, outcome[id]) /\ Len(outcome[id]) <= Len(r.ops)
    BY <1>1, <2>1, AtWork
  <2>3. outcome[id] = <<>> /\ me.reply = outcome[id]
    BY <1>1, <1>6, <2>2 DEF Answers, Transfers
  <2>4. (new.pc = "op" => new.i <= z) /\ (new.pc = "finish" => new.i = z + 1) /\ new.pc # "open"
    BY <1>2, <1>3, <1>4, <1>6
  <2>5. new.msg.req = r /\ r.type \in Transfers /\ r.type # "READ" /\ ~new.file /\ new.reply = outcome[id]
    BY <1>1, <1>4, <1>6, <2>3 DEF Transfers
  <2>6. Answers(new, outcome[id])
    BY <1>2, <2>3, <2>4, <2>5 DEF Answers
  <2>7. QED
    BY <2>2, <2>6
<1>11. TypeOK'
  <2>1. server' \in [Connections -> ServerStates]
    BY <1>4, <1>5, <1>8, Zenon
  <2>2. QED
    BY <1>9, <2>1, Zenon DEF IInv, TypeOK
<1>12. Working(c, new)
  <2>1. new.pc \in {"open", "op"} => new.i <= Len(r.ops)
    BY <1>2, <1>3, <1>4, <1>6
  <2>2. r.persistency = "STORAGE" => \A o \in Objects : id \notin unsynced'[o]
    BY <1>1, <1>6, AtWork, RequestFacts DEF Synced
  <2>3. r.type # "READ" /\ r.type # "CREATE" /\ new.pc # "open" /\ new.pc \in {"open", "op", "finish"} /\ down' = down
    BY <1>4, <1>6
  <2>4. QED
    BY <1>1, <1>4, <1>5, <1>9, <1>10, <2>1, <2>2, <2>3, Zenon DEF Working
<1>13. QED
  BY <1>11, <1>12, WorkingIInv

LEMMA WriteOpIInv == ASSUME IInv, NEW c \in Connections, WriteOp(c) PROVE IInv'
<1>1. /\ alive /\ server[c].pc = "op" /\ server[c].msg.req.type = "WRITE"
      /\ UNCHANGED <<idle, fresh, down, client, exists, alive, progress, issued>>
  BY Zenon DEF WriteOp, pool
<1>2. PICK r \in Requests, o \in Objects, op \in Ranges : r = server[c].msg.req /\ o = r.object /\ op = r.ops[server[c].i]
  <2>1. server[c].msg.req \in Requests /\ server[c] \in ServerStates /\ server[c].i <= Len(server[c].msg.req.ops)
    BY <1>1, AtWork
  <2>2. PICK r \in Requests : r = server[c].msg.req
    BY <2>1
  <2>3. r.ops \in Seq(Ranges) /\ Len(r.ops) \in Nat /\ r.object \in Objects
    BY RequestFacts
  <2>4. server[c].i \in 1 .. Len(r.ops)
    <3>1. server[c].i \in Nat \ {0} /\ server[c].i <= Len(r.ops)
      BY <2>1, <2>2 DEF ServerStates
    <3>2. QED
      BY <2>3, <3>1
  <2>5. r.ops[server[c].i] \in Ranges
    BY <2>3, <2>4, Elements
  <2>6. QED
    BY <2>2, <2>3, <2>5
<1>3. size \in [Objects -> Nat] /\ op.length \in Nat /\ op.offset \in Nat
  BY DEF IInv, TypeOK, Ranges
<1>4. \/ server[c].file /\ Done(c, server[c], 0) /\ UNCHANGED <<up, size, unsynced>>
      \/ /\ up[c] # <<>> /\ up' = [up EXCEPT ![c] = Tail(@)]
         /\ server[c].file /\ Done(c, server[c], op.length)
         /\ size' = [size EXCEPT ![o] = Max2(@, op.offset + op.length)]
         /\ unsynced' = [unsynced EXCEPT ![o] = @ \cup {server[c].msg.id}]
      \/ /\ up[c] # <<>> /\ up' = [up EXCEPT ![c] = Tail(@)] /\ ~server[c].file
         /\ server' = [server EXCEPT ![c].i = @ + 1,
                         ![c].pc = IF server[c].i = Len(server[c].msg.req.ops) THEN "finish" ELSE "op"]
         /\ UNCHANGED <<size, unsynced, outcome>>
  BY <1>2, Zenon DEF WriteOp
<1>5. CASE server[c].file /\ Done(c, server[c], 0) /\ UNCHANGED <<up, size, unsynced>>
  BY <1>1, <1>3, <1>5, WriteDone
<1>6. CASE /\ up[c] # <<>> /\ up' = [up EXCEPT ![c] = Tail(@)]
           /\ server[c].file /\ Done(c, server[c], op.length)
           /\ size' = [size EXCEPT ![o] = Max2(@, op.offset + op.length)]
           /\ unsynced' = [unsynced EXCEPT ![o] = @ \cup {server[c].msg.id}]
  <2>1. Max2(size[o], op.offset + op.length) \in Nat
    BY <1>3 DEF Max2
  <2>2. size' \in [Objects -> Nat]
    BY <1>3, <1>6, <2>1
  <2>3. unsynced' = [unsynced EXCEPT ![server[c].msg.req.object] = @ \cup {server[c].msg.id}]
    BY <1>2, <1>6, Zenon
  <2>4. QED
    BY <1>1, <1>3, <1>6, <2>2, <2>3, WriteDone, Zenon
<1>7. CASE /\ up[c] # <<>> /\ up' = [up EXCEPT ![c] = Tail(@)] /\ ~server[c].file
           /\ server' = [server EXCEPT ![c].i = @ + 1,
                           ![c].pc = IF server[c].i = Len(server[c].msg.req.ops) THEN "finish" ELSE "op"]
           /\ UNCHANGED <<size, unsynced, outcome>>
  BY <1>1, <1>7, WriteSkipped, Zenon
<1>8. QED
  BY <1>4, <1>5, <1>6, <1>7

-----------------------------------------------------------------------------
(* The server takes a request off the stream.                              *)

(* The message h at the head of the stream of c and what it finds.         *)
LEMMA ReceiveFacts ==
    ASSUME IInv, NEW c \in Connections, ServerReceive(c)
    PROVE  \E h \in Headers :
              /\ h = Head(up[c]) /\ h = up[c][1] /\ 1 \in 1 .. Len(up[c]) /\ HeaderAt(up[c], 1)
              /\ h.id \in Ids /\ h.req \in Requests /\ Travel(h) /\ alive /\ up[c] # <<>>
              /\ server[c] = Listening /\ up[c] \in Seq(Items) /\ Tail(up[c]) \in Seq(Items)
              /\ Frames(Tail(up[c]), Size(h.req))
              /\ server' = [server EXCEPT ![c] = [Listening EXCEPT !.pc = "open", !.msg = h]]
              /\ up' = [up EXCEPT ![c] = Tail(@)]
              /\ progress' = [progress EXCEPT ![h.id] = "started"]
              /\ UNCHANGED <<idle, fresh, down, client, exists, size, unsynced, alive, outcome, issued>>
<1>1. up \in [Connections -> Seq(Items)] /\ server \in [Connections -> ServerStates]
  BY DEF IInv, TypeOK
<1>2. alive /\ up[c] # <<>> /\ Head(up[c]).kind = "header" /\ server[c].pc = "receive" /\ up[c] \in Seq(Items)
  BY <1>1 DEF ServerReceive
<1>3. server[c] = Listening
  BY <1>2 DEF IInv, Works, WorksAt
<1>4. Frames(up[c], 0)
  <2>1. Left(server[c]) = 0
    BY <1>3 DEF Listening, Left
  <2>2. QED
    BY <2>1 DEF IInv, Framed
<1>5. /\ HeaderAt(up[c], 1) /\ Head(up[c]) = up[c][1] /\ Head(up[c]) \in Headers
      /\ Frames(Tail(up[c]), Size(Head(up[c]).req))
  BY <1>2, <1>4, FramesHeader
<1>6. PICK h \in Headers : h = Head(up[c])
  BY <1>5
<1>7. 1 \in 1 .. Len(up[c]) /\ Tail(up[c]) \in Seq(Items)
  BY <1>2, TailFacts
<1>8. Travel(h)
  BY <1>5, <1>6, <1>7 DEF IInv, Travels
<1>9. /\ up' = [up EXCEPT ![c] = Tail(@)]
      /\ progress' = [progress EXCEPT ![h.id] = "started"]
      /\ UNCHANGED <<idle, fresh, down, client, exists, size, unsynced, alive, outcome, issued>>
  BY <1>6 DEF ServerReceive, pool, backend
<1>10. server' = [server EXCEPT ![c] = [Listening EXCEPT !.pc = "open", !.msg = h]]
  BY <1>1, <1>3, <1>6, Zenon DEF ServerReceive
<1>11. h.id \in Ids /\ h.req \in Requests
  BY DEF Headers
<1>12. QED
  BY <1>2, <1>3, <1>5, <1>6, <1>7, <1>8, <1>9, <1>10, <1>11, Zenon

LEMMA ReceiveWorks ==
    ASSUME IInv, NEW c \in Connections, ServerReceive(c)
    PROVE  TypeOK' /\ Works' /\ Framed' /\ Travels'
<1>1. PICK h \in Headers :
        /\ h = Head(up[c]) /\ h = up[c][1] /\ 1 \in 1 .. Len(up[c]) /\ HeaderAt(up[c], 1)
        /\ h.id \in Ids /\ h.req \in Requests /\ Travel(h) /\ alive /\ up[c] # <<>>
        /\ server[c] = Listening /\ up[c] \in Seq(Items) /\ Tail(up[c]) \in Seq(Items)
        /\ Frames(Tail(up[c]), Size(h.req))
        /\ server' = [server EXCEPT ![c] = [Listening EXCEPT !.pc = "open", !.msg = h]]
        /\ up' = [up EXCEPT ![c] = Tail(@)]
        /\ progress' = [progress EXCEPT ![h.id] = "started"]
        /\ UNCHANGED <<idle, fresh, down, client, exists, size, unsynced, alive, outcome, issued>>
  BY ReceiveFacts, Zenon
<1>2. /\ up \in [Connections -> Seq(Items)] /\ server \in [Connections -> ServerStates]
      /\ progress \in [Ids -> {"none", "started", "done"}]
  BY DEF IInv, TypeOK
<1> DEFINE new == [Listening EXCEPT !.pc = "open", !.msg = h]
<1>3. /\ new.msg = h /\ new.pc = "open" /\ new.i = 1 /\ new.file = FALSE /\ new.reply = <<>> /\ new.used = 0
      /\ new \in ServerStates
  <2>1. PICK base \in ServerStates : base = Listening
    BY <1>1, <1>2
  <2>2. base.i = 1 /\ base.file = FALSE /\ base.reply = <<>> /\ base.used = 0
    BY <2>1 DEF Listening
  <2>3. new = [base EXCEPT !.pc = "open", !.msg = h]
    BY <2>1, Zenon
  <2>4. /\ new \in ServerStates /\ new.msg = h /\ new.pc = "open" /\ new.i = base.i
        /\ new.file = base.file /\ new.reply = base.reply /\ new.used = base.used
    BY <2>3, Zenon DEF ServerStates
  <2>5. QED
    BY <2>2, <2>4
<1>4. h # NULL
  BY ProtocolAssumption
<1> HIDE DEF new
<1>5. /\ server'[c] = new /\ up'[c] = Tail(up[c]) /\ progress'[h.id] = "started"
      /\ \A d \in Connections : d # c => server'[d] = server[d] /\ up'[d] = up[d]
      /\ \A id \in Ids : id # h.id => progress'[id] = progress[id]
  BY <1>1, <1>2 DEF new
<1>6. TypeOK'
  <2>1. server' \in [Connections -> ServerStates]
    BY <1>1, <1>2, <1>3 DEF new
  <2>2. up' \in [Connections -> Seq(Items)] /\ progress' \in [Ids -> {"none", "started", "done"}]
    BY <1>1, <1>2
  <2>3. QED
    BY <1>1, <2>1, <2>2 DEF IInv, TypeOK
<1>7. Left(new) = Size(h.req)
  <2>1. PICK z \in Nat : z = Len(h.req.ops)
    BY <1>1, RequestFacts, Zenon
  <2>2. z - 1 + 1 = z
    OBVIOUS
  <2>3. QED
    BY <1>3, <1>4, <2>1, <2>2 DEF Left, Size
<1>8. Framed'
  <2>1. ASSUME NEW d \in Connections PROVE Frames(up'[d], Left(server'[d]))
    <3>1. CASE d = c
      BY <1>1, <1>5, <1>7, <3>1, Zenon
    <3>2. CASE d # c
      BY <1>5, <3>2 DEF IInv, Framed
    <3>3. QED
      BY <3>1, <3>2
  <2>2. QED
    BY <2>1 DEF Framed
<1>9. Travels'
  <2>1. SUFFICES ASSUME NEW d \in Connections, NEW k \in 1 .. Len(up'[d]), HeaderAt(up'[d], k) PROVE Travel(up[d][k])'
    BY DEF Travels
  <2>2. PICK j \in 1 .. Len(up[d]) : HeaderAt(up[d], j) /\ up'[d][k] = up[d][j] /\ (d = c => j # 1)
    <3>1. CASE d # c
      BY <1>5, <2>1, <3>1
    <3>2. CASE d = c
      <4>1. PICK n \in Nat : n = Len(Tail(up[c]))
        BY <1>1, LenProperties
      <4>2. k \in Int /\ k >= 1 /\ k + 1 # 1
        BY <1>5, <2>1, <3>2, <4>1
      <4>a. k \in 1 .. Len(Tail(up[c])) /\ HeaderAt(Tail(up[c]), k)
        BY <1>5, <2>1, <3>2, Zenon
      <4>3. k + 1 \in 1 .. Len(up[c]) /\ Tail(up[c])[k] = up[c][k + 1] /\ HeaderAt(up[c], k + 1)
        BY <1>1, <4>a, <4>2, TailItems
      <4>4. QED
        BY <1>5, <3>2, <4>2, <4>3, Zenon
    <3>3. QED
      BY <3>1, <3>2
  <2>3. PICK g \in Headers : g = up[d][j] /\ g.id \in Ids
    BY <1>2, <2>2, ItemFacts
  <2>4. Travel(g)
    BY <2>2, <2>3 DEF IInv, Travels
  <2>5. ASSUME ServerReplies(g.req), g.id = h.id PROVE FALSE
    <3>1. ReplyingAt(up[d], j) /\ ReplyingAt(up[c], 1)
      BY <1>1, <2>2, <2>3, <2>4, <2>5 DEF ReplyingAt, Travel
    <3>2. PICK t \in Threads : Waits(t, c) /\ h.id = <<t, client[t].n>>
      BY <1>1, <3>1, OwnerOnWay DEF IInv
    <3>3. PICK u \in Threads : Waits(u, d) /\ g.id = <<u, client[u].n>>
      BY <2>3, <3>1, OwnerOnWay DEF IInv
    <3>4. u = t
      BY <2>5, <3>2, <3>3
    <3>5. c = d
      BY <3>2, <3>3, <3>4 DEF Waits
    <3>6. OwnAt(c, h.id)
      BY <3>2 DEF IInv, Tracked, TrackedFor, Waits
    <3>7. j = 1
      BY <1>1, <3>1, <3>5, <3>6, Zenon DEF OwnAt, Only
    <3>8. QED
      BY <2>2, <3>5, <3>7
  <2>6. ServerReplies(g.req) => progress'[g.id] = "none"
    BY <1>5, <2>3, <2>4, <2>5 DEF Travel
  <2>7. QED
    BY <1>1, <2>2, <2>3, <2>4, <2>6, Zenon DEF Travel, Sent
<1>10. ASSUME NEW d \in Connections PROVE WorksAt(d)'
  <2>1. CASE d = c
    <3>1. ASSUME ServerReplies(h.req) PROVE Answering(c)'
      <4>1. progress[h.id] = "none"
        BY <1>1, <3>1 DEF Travel
      <4>2. outcome[h.id] = <<>> /\ Synced(h.id)
        BY <1>1, <4>1 DEF IInv, Recorded, RecordedOf
      <4>3. Synced(h.id)'
        BY <1>1, <4>2 DEF Synced
      <4>4. 1 <= Len(h.req.ops) /\ Len(<<>>) = 1 - 1
        BY <1>1, RequestFacts
      <4>5. Answers(new, <<>>)
        BY <1>3, <4>4 DEF Answers
      <4>6. QED
        BY <1>1, <1>3, <1>5, <4>2, <4>3, <4>5 DEF Answering
    <3>2. 1 <= Len(h.req.ops)
      BY <1>1, RequestFacts
    <3>3. issued'[h.id] = h.req /\ progress'[h.id] # "none"
      BY <1>1, <1>5 DEF Travel
    <3>4. QED
      BY <1>3, <1>4, <1>5, <2>1, <3>1, <3>2, <3>3 DEF WorksAt
  <2>2. CASE d # c
    <3>1. server'[d] = server[d] /\ WorksAt(d)
      BY <1>5, <2>2 DEF IInv, Works
    <3>2. ASSUME server[d].msg # NULL
          PROVE  /\ progress'[server[d].msg.id] # "none"
                 /\ progress[server[d].msg.id] = "started" => progress'[server[d].msg.id] = "started"
      BY <1>5, <3>1, <3>2, ServerFacts DEF IInv, WorksAt
    <3>3. \A id : Synced(id) => Synced(id)'
      BY <1>1 DEF Synced
    <3>4. ASSUME server[d].msg # NULL, ServerReplies(server[d].msg.req) PROVE Answering(d)'
      BY <1>1, <3>1, <3>2, <3>3, <3>4, Zenon DEF WorksAt, Answering
    <3>5. QED
      BY <1>1, <3>1, <3>2, <3>4, Zenon DEF WorksAt
  <2>3. QED
    BY <2>1, <2>2
<1>11. QED
  BY <1>6, <1>8, <1>9, <1>10 DEF Works

LEMMA ReceiveTracked ==
    ASSUME IInv, NEW c \in Connections, ServerReceive(c)
    PROVE  Quiet' /\ Tracked'
<1>1. PICK h \in Headers :
        /\ h = Head(up[c]) /\ h = up[c][1] /\ 1 \in 1 .. Len(up[c]) /\ HeaderAt(up[c], 1)
        /\ h.id \in Ids /\ h.req \in Requests /\ Travel(h) /\ alive /\ up[c] # <<>>
        /\ server[c] = Listening /\ up[c] \in Seq(Items) /\ Tail(up[c]) \in Seq(Items)
        /\ Frames(Tail(up[c]), Size(h.req))
        /\ server' = [server EXCEPT ![c] = [Listening EXCEPT !.pc = "open", !.msg = h]]
        /\ up' = [up EXCEPT ![c] = Tail(@)]
        /\ progress' = [progress EXCEPT ![h.id] = "started"]
        /\ UNCHANGED <<idle, fresh, down, client, exists, size, unsynced, alive, outcome, issued>>
  BY ReceiveFacts, Zenon
<1>2. /\ up \in [Connections -> Seq(Items)] /\ server \in [Connections -> ServerStates]
      /\ progress \in [Ids -> {"none", "started", "done"}]
  BY DEF IInv, TypeOK
<1>3. server[c].msg = NULL /\ server'[c].msg = h /\ server'[c].reply = <<>> /\ h # NULL
  BY <1>1, <1>2, ProtocolAssumption DEF Listening
<1>4. /\ up'[c] = Tail(up[c]) /\ progress'[h.id] = "started"
      /\ \A d \in Connections : d # c => server'[d] = server[d] /\ up'[d] = up[d]
      /\ \A id \in Ids : id # h.id => progress'[id] = progress[id]
  BY <1>1, <1>2
<1>5. \A d \in Connections : \A id : Only(up[d], id) => Only(up'[d], id)
  BY <1>1, <1>4, OnlyTail
<1>6. Quiet'
  <2>1. SUFFICES ASSUME NEW d \in Connections, \A t \in Threads : ~Waits(t, d)' PROVE QuietAt(d)'
    BY DEF Quiet
  <2>2. QuietAt(d)
    BY <1>1, <2>1 DEF IInv, Quiet, Waits
  <2>3. CASE d # c
    BY <1>1, <1>4, <2>2, <2>3 DEF QuietAt
  <2>4. CASE d = c
    <3>1. Silent(Tail(up[c]))
      BY <1>1, <2>2, <2>4, SilentTail DEF QuietAt
    <3>2. ~ServerReplies(h.req)
      BY <1>1, <2>2, <2>4 DEF QuietAt, Silent, ReplyingAt
    <3>3. QED
      BY <1>1, <1>3, <1>4, <2>2, <2>4, <3>1, <3>2 DEF QuietAt
  <2>5. QED
    BY <2>3, <2>4
<1>7. ASSUME NEW t \in Threads, client[t].pc = "receive" PROVE TrackedFor(t)'
  <2>1. PICK me \in ClientStates, id \in Ids, d \in Connections :
             me = client[t] /\ id = <<t, client[t].n>> /\ d = client[t].conn
    BY <1>7, ClientFacts, Zenon DEF IInv
  <2>2. ServerReplies(me.req) /\ issued[id] = me.req
    BY <1>7, <2>1, ClientFacts DEF IInv, Placed, PlacedFor
  <2>3. /\ OwnAt(d, id)
        /\ me.req.type # "READ" => me.results = <<>> /\ PlainReply(d, id)
        /\ me.req.type = "READ" => \/ Refused(d, id) /\ me.results = <<>>
                                   \/ Whole(me.results, down[d], Pending(d, id), outcome[id])
    BY <1>1, <1>7, <2>1 DEF IInv, Tracked, TrackedFor
  <2>4. Only(up'[d], id)
    BY <1>5, <2>3 DEF OwnAt
  <2>5. CASE id # h.id
    <3>1. progress'[id] = progress[id]
      BY <1>4, <2>5
    <3>2. Serving(d, id)' <=> Serving(d, id)
      BY <1>3, <1>4, <2>5 DEF Serving
    <3>3. Pending(d, id)' = Pending(d, id)
      <4>1. Serving(d, id) => server'[d] = server[d]
        BY <1>3, <1>4 DEF Serving
      <4>2. QED
        BY <3>2, <4>1 DEF Pending
    <3>4. server'[d].msg # NULL /\ ServerReplies(server'[d].msg.req) => server'[d].msg.id = id
      <4>1. CASE d # c
        BY <1>4, <2>3, <4>1 DEF OwnAt
      <4>2. CASE d = c
        <5>1. ~ServerReplies(h.req)
          BY <1>1, <2>3, <2>5, <4>2 DEF OwnAt, Only, ReplyingAt
        <5>2. QED
          BY <1>3, <4>2, <5>1
      <4>3. QED
        BY <4>1, <4>2
    <3>5. OwnAt(d, id)'
      BY <1>1, <2>3, <2>4, <3>1, <3>2, <3>4 DEF OwnAt
    <3>6. PlainReply(d, id) => PlainReply(d, id)'
      BY <1>1, <3>1 DEF PlainReply
    <3>7. Refused(d, id) => Refused(d, id)'
      BY <1>1, <3>1 DEF Refused
    <3>8. QED
      BY <1>1, <2>1, <2>3, <3>3, <3>5, <3>6, <3>7 DEF TrackedFor
  <2>6. CASE id = h.id
    <3>1. ServerReplies(h.req) /\ progress[id] = "none"
      BY <1>1, <2>2, <2>6 DEF Travel
    <3>2. d = c
      <4>1. PICK u \in Threads : Waits(u, c) /\ h.id = <<u, client[u].n>>
        BY <1>1, <3>1, OwnerOnWay, Zenon DEF IInv, ReplyingAt
      <4>2. u = t
        BY <2>1, <2>6, <4>1
      <4>3. QED
        BY <2>1, <4>1, <4>2 DEF Waits
    <3>3. down[c] = <<>> /\ down' = down
      BY <1>1, <2>3, <3>1, <3>2 DEF OwnAt
    <3>4. Serving(c, id)' /\ ~Serving(c, id) /\ Pending(c, id) = <<>> /\ Pending(c, id)' = <<>>
      BY <1>3, <2>6 DEF Serving, Pending
    <3>5. OwnAt(c, id)'
      <4>1. \A j \in 1 .. Len(down'[c]) : down'[c][j].id = id
        BY <2>3, <3>2, <3>3 DEF OwnAt
      <4>2. QED
        BY <1>3, <2>4, <2>6, <3>2, <3>3, <3>4, <4>1 DEF OwnAt
    <3>6. PlainReply(c, id)'
      <4>1. Len(down'[c]) <= 1
        BY <3>3
      <4>2. QED
        BY <3>3, <4>1 DEF PlainReply
    <3>7. ~Refused(c, id)
      BY <3>1 DEF Refused
    <3>8. me.req.type = "READ" => Whole(me.results, down'[c], Pending(c, id)', outcome'[id])
      BY <1>1, <2>3, <3>2, <3>3, <3>4, <3>7
    <3>9. QED
      BY <1>1, <2>1, <2>3, <3>2, <3>5, <3>6, <3>8 DEF TrackedFor
  <2>7. QED
    BY <2>5, <2>6
<1>8. Tracked'
  BY <1>1, <1>7 DEF Tracked, TrackedFor
<1>9. QED
  BY <1>6, <1>8

LEMMA ReceiveRecorded ==
    ASSUME IInv, NEW c \in Connections, ServerReceive(c)
    PROVE  Placed' /\ Apart' /\ Dead' /\ Recorded' /\ Ordered' /\ Returns' /\ ConfirmedInOrder'
<1>1. PICK h \in Headers :
        /\ h = up[c][1] /\ 1 \in 1 .. Len(up[c]) /\ HeaderAt(up[c], 1)
        /\ h.id \in Ids /\ h.req \in Requests /\ Travel(h) /\ alive
        /\ progress' = [progress EXCEPT ![h.id] = "started"]
        /\ UNCHANGED <<idle, fresh, down, client, exists, size, unsynced, alive, outcome, issued>>
  BY ReceiveFacts, Zenon
<1>2. /\ progress'[h.id] = "started" /\ \A id \in Ids : id # h.id => progress'[id] = progress[id]
  BY <1>1 DEF IInv, TypeOK
<1>3. ServerReplies(h.req) => progress[h.id] = "none"
  BY <1>1 DEF Travel
<1>4. Placed'
  <2>1. SUFFICES ASSUME NEW t \in Threads PROVE PlacedFor(t)'
    BY DEF Placed
  <2>2. client[t] \in ClientStates /\ PlacedFor(t) /\ client' = client /\ issued' = issued
    BY <1>1 DEF IInv, TypeOK, Placed
  <2>3. client[t].n \in 0 .. MaxRequests /\ MaxRequests \in Nat
    BY <2>2, ProtocolAssumption DEF ClientStates
  <2>4. ASSUME NEW m \in 1 .. MaxRequests, m > client[t].n \/ (m = client[t].n /\ client[t].pc \in {"pop", "send"})
        PROVE  progress'[<<t, m>>] = "none"
    <3>1. <<t, m>> \in Ids /\ progress[<<t, m>>] = "none"
      BY <2>2, <2>4 DEF PlacedFor, Ids
    <3>2. <<t, m>> # h.id
      <4>1. SUFFICES ASSUME h.id = <<t, m>> PROVE FALSE
        OBVIOUS
      <4>2. \/ m < client[t].n
            \/ m = client[t].n /\ client[t].pc \in {"receive", "push", "idle"}
        BY <1>1, <4>1 DEF Travel, Sent
      <4>3. QED
        BY <2>3, <2>4, <4>2
    <3>3. QED
      BY <1>2, <3>1, <3>2
  <2>5. client[t].pc \in {"pop", "send"} => client[t].n \in 1 .. MaxRequests
    BY <2>2, <2>3 DEF PlacedFor
  <2>6. client[t].pc \in {"pop", "send"} => progress'[<<t, client[t].n>>] = "none"
    BY <2>4, <2>5
  <2>7. \A m \in 1 .. MaxRequests : m > client[t].n => progress'[<<t, m>>] = "none"
    BY <2>4
  <2>8. QED
    BY <2>2, <2>6, <2>7 DEF PlacedFor
<1>5. Apart'
  BY <1>1 DEF IInv, Apart
<1>6. Dead'
  BY <1>1 DEF Dead
<1>7. ASSUME NEW id \in Ids PROVE RecordedOf(id)'
  <2>1. RecordedOf(id) /\ outcome' = outcome /\ issued' = issued /\ unsynced' = unsynced
    BY <1>1 DEF IInv, Recorded
  <2>2. (progress'[id] = "none" => progress[id] = "none") /\ (progress'[id] = "done" => progress[id] = "done")
    BY <1>2
  <2>3. QED
    BY <2>1, <2>2 DEF RecordedOf, Synced, Complete
<1>8. ASSUME NEW t \in Threads, NEW m \in 1 .. MaxRequests, Past(t, m), ServerReplies(issued[<<t, m>>])
      PROVE  progress'[<<t, m>>] = "done"
  <2>1. progress[<<t, m>>] = "done" /\ <<t, m>> \in Ids
    BY <1>1, <1>8 DEF IInv, Ordered, Ids
  <2>2. <<t, m>> # h.id
    BY <1>1, <1>3, <1>8, <2>1 DEF Travel
  <2>3. QED
    BY <1>2, <2>1, <2>2
<1>9. Ordered'
  BY <1>1, <1>8 DEF Ordered, Past
<1>10. ASSUME NEW t \in Threads PROVE ReturnsFor(t)'
  <2>1. SUFFICES ASSUME client[t].pc = "push", ServerReplies(client[t].req) PROVE ReturnsFor(t)'
    BY <1>1 DEF ReturnsFor
  <2>2. PICK id \in Ids : id = <<t, client[t].n>> /\ issued[id] = client[t].req
    BY <2>1, ClientFacts, Zenon DEF IInv
  <2>3. id # h.id
    <3>1. SUFFICES ASSUME id = h.id PROVE FALSE
      OBVIOUS
    <3>2. ReplyingAt(up[c], 1)
      BY <1>1, <2>1, <2>2, <3>1 DEF ReplyingAt, Travel
    <3>3. PICK u \in Threads : Waits(u, c) /\ h.id = <<u, client[u].n>>
      BY <1>1, <3>2, OwnerOnWay DEF IInv
    <3>4. u = t
      BY <2>2, <3>1, <3>3
    <3>5. QED
      BY <2>1, <3>3, <3>4 DEF Waits
  <2>4. progress'[id] = progress[id] /\ ReturnsFor(t)
    BY <1>2, <2>3 DEF IInv, Returns
  <2>5. QED
    BY <1>1, <2>2, <2>4 DEF ReturnsFor
<1>11. ASSUME NEW t \in Threads, NEW n \in 1 .. MaxRequests - 1,
              progress'[<<t, n + 1>>] # "none", ServerReplies(issued[<<t, n>>])
       PROVE  progress'[<<t, n>>] = "done"
  <2>1. MaxRequests \in Nat
    BY ProtocolAssumption
  <2>2. n \in 1 .. MaxRequests /\ n + 1 \in 1 .. MaxRequests /\ n # n + 1
    BY <2>1
  <2>3. <<t, n>> \in Ids /\ <<t, n + 1>> \in Ids
    BY <2>2 DEF Ids
  <2>4. progress[<<t, n>>] = "done"
    <3>1. CASE <<t, n + 1>> = h.id
      <4>1. \/ n + 1 < client[t].n
            \/ n + 1 = client[t].n
        BY <1>1, <3>1 DEF Travel, Sent
      <4>2. client[t].n \in Nat
        BY DEF IInv, TypeOK, ClientStates
      <4>3. n < client[t].n
        BY <2>2, <4>1, <4>2
      <4>4. QED
        BY <1>1, <1>11, <2>2, <4>3 DEF IInv, Ordered, Past
    <3>2. CASE <<t, n + 1>> # h.id
      BY <1>2, <1>11, <2>3, <3>2 DEF IInv, ConfirmedInOrder
    <3>3. QED
      BY <3>1, <3>2
  <2>5. <<t, n>> # h.id
    BY <1>1, <1>3, <1>11, <2>4 DEF Travel
  <2>6. QED
    BY <1>2, <2>3, <2>4, <2>5
<1>12. ConfirmedInOrder'
  BY <1>1, <1>11 DEF ConfirmedInOrder
<1>13. QED
  BY <1>4, <1>5, <1>6, <1>7, <1>9, <1>10, <1>12 DEF Recorded, Returns

LEMMA ServerReceiveIInv == ASSUME IInv, NEW c \in Connections, ServerReceive(c) PROVE IInv'
BY ReceiveWorks, ReceiveTracked, ReceiveRecorded DEF IInv

-----------------------------------------------------------------------------
(* The server is done with a request.                                      *)

LEMMA WholeEmpty ==
    ASSUME NEW results \in Seq(Nat), NEW replies \in Seq(Replies), NEW pending,
           Whole(results, replies, pending, <<>>)
    PROVE  results = <<>> /\ replies = <<>>
<1>1. PICK e : Cuts(e, results, replies, <<>>)
  BY DEF Whole
<1>2. PICK n \in Nat, m \in Nat : n = Len(replies) /\ m = Len(results)
  BY LenProperties
<1>3. e[0] = m /\ e[n] <= 0 /\ e[n] \in Nat /\ e[0] \in Nat
  BY <1>1, <1>2 DEF Cuts
<1>4. e[n] = 0
  BY <1>3
<1>5. n = 0
  <2>1. SUFFICES ASSUME n # 0 PROVE FALSE
    OBVIOUS
  <2>2. 0 \in 0 .. n /\ n \in 0 .. n /\ 0 < n
    BY <2>1
  <2>3. e[0] < e[n]
    BY <1>1, <1>2, <2>2 DEF Cuts
  <2>4. QED
    BY <1>3, <1>4, <2>3
<1>6. m = 0
  BY <1>3, <1>4, <1>5
<1>7. QED
  BY <1>2, <1>5, <1>6, Elements, Zenon

(* The step, and what becomes of it: me is the state of the thread, r and  *)
(* id its request, and out what it brought.                                *)
Finishing(c, me, r, id, out) ==
    /\ me = server[c] /\ r = me.msg.req /\ id = me.msg.id /\ out = outcome[id]
    /\ me.msg # NULL /\ me.pc = "finish" /\ alive /\ issued[id] = r /\ progress[id] # "none"
    /\ ServerReplies(r) => progress[id] = "started" /\ Answers(me, out) /\ Len(out) <= Len(r.ops)
    /\ ServerReplies(r) => down' = [down EXCEPT ![c] = Append(@, Reply(id, me.reply))]
    /\ ~ServerReplies(r) => down' = down
    /\ server'[c] = Listening /\ \A d \in Connections : d # c => server'[d] = server[d]
    /\ progress'[id] = "done" /\ \A i \in Ids : i # id => progress'[i] = progress[i]
    /\ \A i \in Ids : Synced(i) => Synced(i)'
    /\ r.persistency = "STORAGE" => Synced(id)'
    /\ \A o \in Objects : unsynced'[o] \subseteq unsynced[o]
    /\ UNCHANGED <<idle, fresh, up, client, exists, size, alive, outcome, issued>>
    /\ TypeOK'

LEMMA FinishFacts ==
    ASSUME IInv, NEW c \in Connections, Finish(c)
    PROVE  \E me \in ServerStates, r \in Requests, id \in Ids, out \in Seq(Nat) :
              Finishing(c, me, r, id, out)
<1>0. alive /\ server[c].pc = "finish"
  BY DEF Finish
<1>1. PICK me \in ServerStates, r \in Requests, id \in Ids, out \in Seq(Nat) :
           /\ me = server[c] /\ r = me.msg.req /\ id = me.msg.id /\ out = outcome[id] /\ me.msg # NULL
           /\ issued[id] = r /\ me.pc = "finish"
  BY <1>0, AtWork
<1>2. /\ down' = IF ServerReplies(r) THEN [down EXCEPT ![c] = Append(@, Reply(id, me.reply))] ELSE down
      /\ server' = [server EXCEPT ![c] = Listening]
      /\ progress' = [progress EXCEPT ![id] = "done"]
      /\ unsynced' = IF r.type = "WRITE" /\ r.persistency = "STORAGE" /\ me.file
                     THEN [unsynced EXCEPT ![r.object] = {}] ELSE unsynced
      /\ UNCHANGED <<idle, fresh, up, client, exists, size, alive, outcome, issued>>
  BY <1>1 DEF Finish, pool
<1>3. TypeOK
  BY DEF IInv
<1>4. server'[c] = Listening /\ \A d \in Connections : d # c => server'[d] = server[d]
  BY <1>2, <1>3 DEF TypeOK
<1>5. progress'[id] = "done" /\ \A i \in Ids : i # id => progress'[i] = progress[i]
  BY <1>2, <1>3 DEF TypeOK
<1>6. progress[id] # "none"
  BY <1>1 DEF IInv, Works, WorksAt
<1>7. ServerReplies(r) => progress[id] = "started" /\ Answers(me, out) /\ Len(out) <= Len(r.ops)
  BY <1>0, <1>1, AtWork
<1>8. r.object \in Objects /\ (r.persistency = "STORAGE" => ServerReplies(r)) /\ r # NULL
  BY RequestFacts
<1>9. unsynced' \in [Objects -> SUBSET Ids] /\ \A o \in Objects : unsynced'[o] \subseteq unsynced[o]
  BY <1>2, <1>3, <1>8 DEF TypeOK
<1>10. \A i \in Ids : Synced(i) => Synced(i)'
  BY <1>9 DEF Synced
<1>11. ASSUME r.persistency = "STORAGE" PROVE Synced(id)'
  <2>1. CASE r.type = "WRITE" /\ me.file
    BY <1>1, <1>2, <1>8, <1>11, <2>1, SyncedBy, Zenon
  <2>2. CASE r.type = "WRITE" /\ ~me.file
    BY <1>0, <1>1, <1>8, <1>10, <1>11, <2>2, AtWork
  <2>3. CASE r.type = "CREATE"
    BY <1>0, <1>1, <1>8, <1>10, <1>11, <2>3, AtWork
  <2>4. CASE r.type \notin {"CREATE", "WRITE"}
    <3>1. RecordedOf(id)
      BY DEF IInv, Recorded
    <3>2. Synced(id)
      BY <1>1, <2>4, <3>1 DEF RecordedOf, Synced
    <3>3. QED
      BY <1>10, <3>2
  <2>5. QED
    BY <2>1, <2>2, <2>3, <2>4
<1>12. TypeOK'
  <2>1. Listening \in ServerStates
    <3>1. <<>> \in Seq(Nat) /\ 1 \in Nat \ {0} /\ 0 \in Nat
      OBVIOUS
    <3>2. PICK none \in Seq(Nat) : none = <<>>
      BY <3>1, Zenon
    <3>3. Listening = [pc |-> "receive", msg |-> NULL, i |-> 1, file |-> FALSE, reply |-> none, used |-> 0]
      BY <3>2, Zenon DEF Listening
    <3>4. QED
      BY <3>1, <3>2, <3>3 DEF ServerStates
  <2>2. server' \in [Connections -> ServerStates] /\ progress' \in [Ids -> {"none", "started", "done"}]
    BY <1>2, <1>3, <2>1 DEF TypeOK
  <2>3. down' \in [Connections -> Seq(Replies)]
    <3>1. Reply(id, me.reply) \in Replies
      BY DEF Reply, Replies, ServerStates
    <3>2. down \in [Connections -> Seq(Replies)]
      BY <1>3 DEF TypeOK
    <3>3. Append(down[c], Reply(id, me.reply)) \in Seq(Replies)
      BY <3>1, <3>2, AppendFacts
    <3>4. QED
      BY <1>2, <3>2, <3>3
  <2>4. QED
    BY <1>2, <1>3, <1>9, <2>2, <2>3, Zenon DEF TypeOK
<1>13. Finishing(c, me, r, id, out)
  BY <1>0, <1>1, <1>2, <1>4, <1>5, <1>6, <1>7, <1>9, <1>10, <1>11, <1>12 DEF Finishing
<1>14. QED
  BY <1>13

LEMMA FinishWorks ==
    ASSUME IInv, NEW c \in Connections, NEW me \in ServerStates, NEW r \in Requests, NEW id \in Ids,
           NEW out \in Seq(Nat), Finishing(c, me, r, id, out)
    PROVE  Placed' /\ Apart' /\ Dead' /\ Framed' /\ Travels' /\ Works'
<1>1. /\ server[c] = me /\ server[c].msg # NULL /\ me.msg.req = r /\ me.msg.id = id /\ me.pc = "finish"
      /\ alive /\ issued[id] = r /\ progress[id] # "none"
      /\ server'[c] = Listening /\ \A d \in Connections : d # c => server'[d] = server[d]
      /\ progress'[id] = "done" /\ \A i \in Ids : i # id => progress'[i] = progress[i]
      /\ \A i \in Ids : Synced(i) => Synced(i)'
      /\ UNCHANGED <<idle, fresh, up, client, alive, outcome, issued>>
  BY DEF Finishing
<1>2. Placed'
  <2>1. SUFFICES ASSUME NEW t \in Threads PROVE PlacedFor(t)'
    BY DEF Placed
  <2>2. client[t] \in ClientStates /\ PlacedFor(t) /\ client' = client /\ issued' = issued
    BY <1>1 DEF IInv, TypeOK, Placed
  <2>3. client[t].n \in 0 .. MaxRequests /\ MaxRequests \in Nat
    BY <2>2, ProtocolAssumption DEF ClientStates
  <2>4. ASSUME NEW m \in 1 .. MaxRequests, progress[<<t, m>>] = "none" PROVE progress'[<<t, m>>] = "none"
    <3>1. <<t, m>> \in Ids
      BY DEF Ids
    <3>2. QED
      BY <1>1, <2>4, <3>1, Zenon
  <2>5. client[t].pc \in {"pop", "send"} => client[t].n \in 1 .. MaxRequests
    BY <2>2, <2>3 DEF PlacedFor
  <2>6. client[t].pc \in {"pop", "send"} => progress'[<<t, client[t].n>>] = "none"
    BY <2>2, <2>4, <2>5 DEF PlacedFor
  <2>7. \A m \in 1 .. MaxRequests : m > client[t].n => progress'[<<t, m>>] = "none"
    BY <2>2, <2>4 DEF PlacedFor
  <2>8. QED
    BY <2>2, <2>6, <2>7 DEF PlacedFor
<1>3. Apart'
  BY <1>1 DEF IInv, Apart
<1>4. Dead'
  BY <1>1 DEF Dead
<1>5. Framed'
  <2>1. SUFFICES ASSUME NEW d \in Connections PROVE Frames(up[d], Left(server'[d]))
    BY <1>1 DEF Framed
  <2>2. Left(server'[d]) = Left(server[d])
    <3>1. CASE d = c
      BY <1>1, <3>1 DEF Left, Listening
    <3>2. CASE d # c
      BY <1>1, <3>2
    <3>3. QED
      BY <3>1, <3>2
  <2>3. Frames(up[d], Left(server[d]))
    BY DEF IInv, Framed
  <2>4. QED
    BY <2>2, <2>3, Zenon
<1>6. Travels'
  <2>1. SUFFICES ASSUME NEW d \in Connections, NEW k \in 1 .. Len(up[d]), HeaderAt(up[d], k) PROVE Travel(up[d][k])'
    BY <1>1 DEF Travels
  <2>2. PICK g \in Headers : g = up[d][k] /\ g.id \in Ids
    BY <2>1, ItemFacts DEF IInv, TypeOK
  <2>3. Travel(g)
    BY <2>1, <2>2 DEF IInv, Travels
  <2>4. ServerReplies(g.req) => progress'[g.id] = "none"
    BY <1>1, <2>2, <2>3 DEF Travel
  <2>5. QED
    BY <1>1, <2>2, <2>3, <2>4 DEF Travel, Sent
<1>7. ASSUME NEW d \in Connections PROVE WorksAt(d)'
  <2>1. CASE d = c
    BY <1>1, <2>1 DEF WorksAt, Listening
  <2>2. CASE d # c
    <3>1. server'[d] = server[d] /\ WorksAt(d)
      BY <1>1, <2>2 DEF IInv, Works
    <3>2. ASSUME server[d].msg # NULL
          PROVE  /\ server[d].msg.id \in Ids
                 /\ progress'[server[d].msg.id] # "none"
      BY <1>1, <3>1, <3>2, ServerFacts DEF IInv, WorksAt
    <3>3. ASSUME server[d].msg # NULL, ServerReplies(server[d].msg.req) PROVE Answering(d)'
      <4>1. server[d].msg.id # id
        BY <1>1, <2>2, <3>3, ServedOnce DEF IInv
      <4>2. progress'[server[d].msg.id] = progress[server[d].msg.id]
        BY <1>1, <3>2, <3>3, <4>1
      <4>3. Answering(d) /\ (Synced(server[d].msg.id) => Synced(server[d].msg.id)')
        BY <1>1, <3>1, <3>2, <3>3 DEF WorksAt
      <4>4. QED
        BY <1>1, <3>1, <4>2, <4>3 DEF Answering
    <3>4. QED
      BY <1>1, <3>1, <3>2, <3>3 DEF WorksAt
  <2>3. QED
    BY <2>1, <2>2
<1>8. QED
  BY <1>2, <1>3, <1>4, <1>5, <1>6, <1>7 DEF Works

LEMMA FinishTracked ==
    ASSUME IInv, NEW c \in Connections, NEW me \in ServerStates, NEW r \in Requests, NEW id \in Ids,
           NEW out \in Seq(Nat), Finishing(c, me, r, id, out)
    PROVE  Quiet' /\ Tracked'
<1>1. /\ server[c] = me /\ server[c].msg # NULL /\ me.msg.req = r /\ me.msg.id = id /\ me.pc = "finish"
      /\ out = outcome[id] /\ alive /\ issued[id] = r /\ progress[id] # "none"
      /\ server'[c].msg = NULL /\ \A d \in Connections : d # c => server'[d] = server[d]
      /\ progress'[id] = "done" /\ \A i \in Ids : i # id => progress'[i] = progress[i]
      /\ UNCHANGED <<up, client, alive, outcome, issued>>
  BY DEF Finishing, Listening
<1>2. /\ ServerReplies(r) => progress[id] = "started" /\ Answers(me, out) /\ Len(out) <= Len(r.ops)
      /\ ServerReplies(r) => down'[c] = Append(down[c], Reply(id, me.reply))
      /\ ~ServerReplies(r) => down' = down
      /\ \A d \in Connections : d # c => down'[d] = down[d]
  BY DEF Finishing, IInv, TypeOK
<1>3. Quiet'
  <2>1. SUFFICES ASSUME NEW d \in Connections, \A t \in Threads : ~Waits(t, d)' PROVE QuietAt(d)'
    BY DEF Quiet
  <2>2. QuietAt(d)
    BY <1>1, <2>1 DEF IInv, Quiet, Waits
  <2>3. CASE d # c
    BY <1>1, <1>2, <2>2, <2>3 DEF QuietAt
  <2>4. CASE d = c
    BY <1>1, <1>2, <2>2, <2>4 DEF QuietAt
  <2>5. QED
    BY <2>3, <2>4
<1>4. ASSUME NEW t \in Threads, client[t].pc = "receive" PROVE TrackedFor(t)'
  <2>1. PICK my \in ClientStates, mine \in Ids, d \in Connections :
             my = client[t] /\ mine = <<t, client[t].n>> /\ d = client[t].conn
    BY <1>4, ClientFacts, Zenon DEF IInv
  <2>2. /\ ServerReplies(my.req) /\ issued[mine] = my.req /\ my.req \in Requests /\ my.results \in Seq(Nat)
        /\ down[d] \in Seq(Replies)
    BY <1>4, <2>1, ClientFacts, Zenon DEF IInv, Placed, PlacedFor, ClientStates
  <2>3. /\ OwnAt(d, mine)
        /\ my.req.type # "READ" => my.results = <<>> /\ PlainReply(d, mine)
        /\ my.req.type = "READ" => \/ Refused(d, mine) /\ my.results = <<>>
                                   \/ Whole(my.results, down[d], Pending(d, mine), outcome[mine])
    BY <1>1, <1>4, <2>1 DEF IInv, Tracked, TrackedFor
  <2>4. CASE mine # id
    <3>1. progress'[mine] = progress[mine]
      BY <1>1, <2>4
    <3>2. (Serving(d, mine)' <=> Serving(d, mine)) /\ (Serving(d, mine) => server'[d] = server[d])
      BY <1>1, <2>4 DEF Serving
    <3>3. Pending(d, mine)' = Pending(d, mine)
      BY <3>2 DEF Pending
    <3>4. down'[d] = down[d]
      <4>1. CASE d # c
        BY <1>2, <4>1
      <4>2. CASE d = c
        BY <1>1, <1>2, <2>3, <2>4, <4>2 DEF OwnAt
      <4>3. QED
        BY <4>1, <4>2
    <3>5. OwnAt(d, mine)'
      <4>1. server'[d].msg # NULL => server'[d] = server[d]
        BY <1>1
      <4>2. QED
        BY <1>1, <2>3, <3>1, <3>2, <3>4, <4>1 DEF OwnAt
    <3>6. PlainReply(d, mine) => PlainReply(d, mine)'
      BY <1>1, <3>1, <3>4 DEF PlainReply
    <3>7. Refused(d, mine) => Refused(d, mine)'
      BY <1>1, <3>1, <3>4 DEF Refused
    <3>8. QED
      BY <1>1, <2>1, <2>3, <3>3, <3>4, <3>5, <3>6, <3>7 DEF TrackedFor
  <2>5. CASE mine = id
    <3>1. ServerReplies(r) /\ r = my.req
      BY <1>1, <2>2, <2>5
    <3>2. d = c
      <4>1. Waits(t, c)
        BY <1>1, <1>4, <2>1, <2>2, <2>5, ServesItsOwn, Zenon DEF IInv
      <4>2. QED
        BY <2>1, <4>1 DEF Waits
    <3>3. progress[id] = "started" /\ Answers(me, out) /\ down'[c] = Append(down[c], Reply(id, me.reply))
      BY <1>2, <3>1
    <3>4. PICK reply \in Seq(Nat), replies \in Seq(Replies) : reply = me.reply /\ replies = down[c]
      BY <2>2, <3>2 DEF ServerStates
    <3>5. Reply(id, reply) \in Replies /\ Reply(id, reply).id = id /\ Reply(id, reply).results = reply
      BY DEF Reply, Replies
    <3>6. PICK n \in Nat : n = Len(replies)
      BY LenProperties
    <3>7. /\ Len(down'[c]) = n + 1 /\ down'[c][n + 1] = Reply(id, reply) /\ down'[c] # <<>>
          /\ \A j \in 1 .. n : down'[c][j] = replies[j]
      <4>1. PICK x \in Replies : x = Reply(id, reply)
        BY <3>5
      <4>2. /\ Len(Append(replies, x)) = n + 1 /\ Append(replies, x)[n + 1] = x /\ Append(replies, x) # <<>>
            /\ \A j \in 1 .. n : Append(replies, x)[j] = replies[j]
        BY <3>6, AppendFacts
      <4>3. down'[c] = Append(replies, x)
        BY <3>3, <3>4, <4>1
      <4>4. QED
        BY <4>1, <4>2, <4>3, Zenon
    <3>8. ~Serving(c, id)' /\ Serving(c, id)
      BY <1>1 DEF Serving
    <3>9. OwnAt(c, id)'
      <4>1. ASSUME NEW j \in 1 .. n + 1 PROVE down'[c][j].id = id
        <5>1. CASE j = n + 1
          BY <3>5, <3>7, <5>1
        <5>2. CASE j \in 1 .. n
          BY <2>3, <2>5, <3>2, <3>4, <3>6, <3>7, <5>2, Zenon DEF OwnAt
        <5>3. QED
          BY <5>1, <5>2
      <4>2. \A j \in 1 .. Len(down'[c]) : down'[c][j].id = id
        BY <3>7, <4>1
      <4>3. QED
        BY <1>1, <2>3, <2>5, <3>2, <4>2 DEF OwnAt
    <3>10. CASE r.type # "READ"
      <4>1. replies = <<>>
        BY <2>3, <2>5, <3>1, <3>2, <3>3, <3>4, <3>10 DEF PlainReply
      <4>2. n = 0
        BY <3>6, <4>1
      <4>3. Len(down'[c]) <= 1 /\ down'[c][1].results = reply
        BY <3>5, <3>7, <4>2
      <4>4. reply = outcome'[id]
        BY <1>1, <3>3, <3>4, <3>10 DEF Answers
      <4>5. PlainReply(c, id)'
        BY <1>1, <4>3, <4>4 DEF PlainReply
      <4>6. QED
        BY <1>1, <2>1, <2>3, <2>5, <3>1, <3>2, <3>9, <3>10, <4>5, Zenon DEF TrackedFor
    <3>11. CASE r.type = "READ"
      <4>1. Whole(my.results, replies, reply, out)
        <5>1. ~Refused(c, id)
          BY <3>3 DEF Refused
        <5>2. Pending(c, id) = reply
          BY <1>1, <3>4, <3>8 DEF Pending
        <5>3. QED
          BY <1>1, <2>3, <2>5, <3>1, <3>2, <3>4, <3>11, <5>1, <5>2
      <4>2. CASE reply # <<>>
        <5>1. Whole(my.results, Append(replies, Reply(id, reply)), <<>>, out)
          BY <2>2, <4>1, <4>2, WholeFlush
        <5>2. Append(replies, Reply(id, reply)) = down'[c]
          BY <3>3, <3>4
        <5>3. Pending(c, id)' = <<>>
          BY <3>8 DEF Pending
        <5>4. Whole(my.results, down'[c], Pending(c, id)', outcome'[id])
          BY <1>1, <5>1, <5>2, <5>3, Zenon
        <5>5. QED
          BY <1>1, <2>1, <2>3, <2>5, <3>1, <3>2, <3>9, <3>11, <5>4 DEF TrackedFor
      <4>3. CASE reply = <<>>
        <5>1. out = <<>>
          BY <3>3, <3>4, <4>3 DEF Answers
        <5>2. Whole(my.results, replies, reply, <<>>)
          BY <4>1, <5>1
        <5>3. my.results = <<>> /\ replies = <<>>
          BY <2>2, <5>2, WholeEmpty
        <5>4. n = 0
          BY <3>6, <5>3
        <5>5. Len(down'[c]) = 1 /\ down'[c][1].results = <<>>
          BY <3>5, <3>7, <4>3, <5>4
        <5>6. Refused(c, id)'
          BY <1>1, <5>1, <5>5 DEF Refused
        <5>7. QED
          BY <1>1, <2>1, <2>3, <2>5, <3>1, <3>2, <3>9, <3>11, <5>3, <5>6, Zenon DEF TrackedFor
      <4>4. QED
        BY <4>2, <4>3
    <3>12. QED
      BY <3>10, <3>11
  <2>6. QED
    BY <2>4, <2>5
<1>5. Tracked'
  BY <1>1, <1>4 DEF Tracked, TrackedFor
<1>6. QED
  BY <1>3, <1>5

LEMMA FinishRecorded ==
    ASSUME IInv, NEW c \in Connections, NEW me \in ServerStates, NEW r \in Requests, NEW id \in Ids,
           NEW out \in Seq(Nat), Finishing(c, me, r, id, out)
    PROVE  Recorded' /\ Ordered' /\ Returns' /\ ConfirmedInOrder'
<1>1. /\ out = outcome[id] /\ alive /\ issued[id] = r /\ me.pc = "finish" /\ r = me.msg.req
      /\ progress[id] # "none" /\ progress'[id] = "done" /\ \A i \in Ids : i # id => progress'[i] = progress[i]
      /\ ServerReplies(r) => Answers(me, out) /\ Len(out) <= Len(r.ops)
      /\ \A i \in Ids : Synced(i) => Synced(i)'
      /\ r.persistency = "STORAGE" => Synced(id)'
      /\ \A o \in Objects : unsynced'[o] \subseteq unsynced[o]
      /\ UNCHANGED <<client, alive, outcome, issued>>
  BY DEF Finishing
<1>2. \A i \in Ids : progress[i] = "done" => progress'[i] = "done"
  BY <1>1
<1>3. ASSUME NEW i \in Ids PROVE RecordedOf(i)'
  <2>1. RecordedOf(i)
    BY DEF IInv, Recorded
  <2>2. CASE i # id
    BY <1>1, <2>1, <2>2 DEF RecordedOf, Synced, Complete
  <2>3. CASE i = id
    <3>1. ServerReplies(r) => Complete(id)'
      <4>1. SUFFICES ASSUME ServerReplies(r) PROVE Complete(id)
        BY <1>1 DEF Complete
      <4>2. PICK l \in Nat : l = Len(r.ops)
        BY RequestFacts, Zenon
      <4>3. CASE me.file \/ r.type \notin Transfers
        <5>1. Len(out) = me.i - 1 /\ (me.i = l + 1 \/ (r.type = "READ" /\ ~me.file))
          BY <1>1, <4>1, <4>2, <4>3 DEF Answers
        <5>2. me.i = l + 1
          BY <4>3, <5>1 DEF Transfers
        <5>3. Len(out) = l
          BY <5>1, <5>2
        <5>4. QED
          BY <1>1, <4>2, <5>3 DEF Complete
      <4>4. CASE ~me.file /\ r.type \in Transfers
        BY <1>1, <4>1, <4>4 DEF Answers, Complete
      <4>5. QED
        BY <4>3, <4>4
    <3>2. QED
      BY <1>1, <2>1, <2>3, <3>1 DEF RecordedOf, Synced
  <2>4. QED
    BY <2>2, <2>3
<1>4. Ordered'
  <2>1. SUFFICES ASSUME NEW t \in Threads, NEW m \in 1 .. MaxRequests, Past(t, m), ServerReplies(issued[<<t, m>>])
                 PROVE  progress'[<<t, m>>] = "done"
    BY <1>1 DEF Ordered, Past
  <2>2. progress[<<t, m>>] = "done" /\ <<t, m>> \in Ids
    BY <1>1, <2>1 DEF IInv, Ordered, Ids
  <2>3. QED
    BY <1>2, <2>2
<1>5. ASSUME NEW t \in Threads PROVE ReturnsFor(t)'
  <2>1. SUFFICES ASSUME client[t].pc = "push", ServerReplies(client[t].req) PROVE ReturnsFor(t)'
    BY <1>1 DEF ReturnsFor
  <2>2. <<t, client[t].n>> \in Ids
    BY <2>1, ClientFacts DEF IInv
  <2>3. ReturnsFor(t)
    BY DEF IInv, Returns
  <2>4. QED
    BY <1>1, <1>2, <2>2, <2>3 DEF ReturnsFor
<1>6. ConfirmedInOrder'
  <2>1. SUFFICES ASSUME NEW t \in Threads, NEW n \in 1 .. MaxRequests - 1,
                        progress'[<<t, n + 1>>] # "none", ServerReplies(issued[<<t, n>>])
                 PROVE  progress'[<<t, n>>] = "done"
    BY <1>1 DEF ConfirmedInOrder
  <2>2. MaxRequests \in Nat
    BY ProtocolAssumption
  <2>3. n \in 1 .. MaxRequests /\ n + 1 \in 1 .. MaxRequests
    BY <2>2
  <2>4. <<t, n>> \in Ids /\ <<t, n + 1>> \in Ids
    BY <2>3 DEF Ids
  <2>5. progress[<<t, n + 1>>] # "none"
    BY <1>1, <2>1, <2>4, Zenon
  <2>6. progress[<<t, n>>] = "done"
    BY <2>1, <2>5 DEF IInv, ConfirmedInOrder
  <2>7. QED
    BY <1>2, <2>4, <2>6
<1>7. QED
  BY <1>3, <1>4, <1>5, <1>6 DEF Recorded, Returns

LEMMA FinishIInv == ASSUME IInv, NEW c \in Connections, Finish(c) PROVE IInv'
<1>1. PICK me \in ServerStates, r \in Requests, id \in Ids, out \in Seq(Nat) : Finishing(c, me, r, id, out)
  BY FinishFacts
<1>2. TypeOK'
  BY <1>1 DEF Finishing
<1>3. QED
  BY <1>1, <1>2, FinishWorks, FinishTracked, FinishRecorded DEF IInv

-----------------------------------------------------------------------------
(* The server dies.                                                        *)

(* Whatever the reason, and whatever becomes of the replies on their way.  *)
LEMMA Died ==
    ASSUME IInv, alive, alive' = FALSE, TypeOK',
           server' = [c \in Connections |-> Listening], up' = [c \in Connections |-> <<>>],
           \A c \in Connections : down'[c] = down[c] \/ down'[c] = <<>>,
           UNCHANGED <<idle, fresh, client, exists, size, unsynced, progress, outcome, issued>>
    PROVE  IInv'
<1>1. \A c \in Connections : server'[c] = Listening /\ server'[c].msg = NULL /\ up'[c] = <<>>
  BY DEF Listening
<1>2. Len(<<>>) = 0
  OBVIOUS
<1>3. Placed' /\ Apart' /\ Dead' /\ Recorded' /\ ConfirmedInOrder' /\ Ordered'
  <2>1. Placed'
    BY DEF IInv, Placed, PlacedFor
  <2>2. Apart'
    BY DEF IInv, Apart
  <2>3. Dead'
    BY <1>1 DEF Dead
  <2>4. Recorded'
    BY DEF IInv, Recorded, RecordedOf, Synced, Complete
  <2>5. ConfirmedInOrder'
    BY DEF IInv, ConfirmedInOrder
  <2>6. Ordered'
    BY DEF Ordered
  <2>7. QED
    BY <2>1, <2>2, <2>3, <2>4, <2>5, <2>6
<1>4. Framed' /\ Travels' /\ Works'
  <2>1. Left(Listening) = 0
    BY DEF Left, Listening
  <2>2. Frames(<<>>, 0)
    BY <1>2 DEF Frames
  <2>3. Framed'
    BY <1>1, <2>1, <2>2 DEF Framed
  <2>4. \A c \in Connections : \A k \in 1 .. Len(up'[c]) : FALSE
    BY <1>1, <1>2
  <2>5. Travels'
    BY <2>4 DEF Travels
  <2>6. Works'
    BY <1>1 DEF Works, WorksAt, Listening
  <2>7. QED
    BY <2>3, <2>5, <2>6
<1>5. \A c \in Connections : Silent(up'[c])
  BY <1>1, <1>2 DEF Silent
<1>6. Quiet'
  <2>1. SUFFICES ASSUME NEW c \in Connections, \A t \in Threads : ~Waits(t, c)' PROVE QuietAt(c)'
    BY DEF Quiet
  <2>2. QuietAt(c)
    BY <2>1 DEF IInv, Quiet, Waits
  <2>3. QED
    BY <1>1, <1>5, <2>2 DEF QuietAt
<1>7. ASSUME NEW t \in Threads, client[t].pc = "receive" PROVE TrackedFor(t)'
  <2>1. PICK me \in ClientStates, id \in Ids, c \in Connections :
             me = client[t] /\ id = <<t, client[t].n>> /\ c = client[t].conn
    BY <1>7, ClientFacts, Zenon DEF IInv
  <2>2. /\ OwnAt(c, id)
        /\ me.req.type # "READ" => me.results = <<>> /\ PlainReply(c, id)
        /\ me.req.type = "READ" => \/ Refused(c, id) /\ me.results = <<>>
                                   \/ Whole(me.results, down[c], Pending(c, id), outcome[id])
    BY <1>7, <2>1 DEF IInv, Tracked, TrackedFor
  <2>3. Only(up'[c], id)
    BY <1>5, SilentOnly
  <2>4. OwnAt(c, id)'
    <3>1. \A j \in 1 .. Len(down'[c]) : down'[c][j].id = id
      BY <1>2, <2>2 DEF OwnAt
    <3>2. QED
      BY <1>1, <2>2, <2>3, <3>1 DEF OwnAt
  <2>5. PlainReply(c, id) => PlainReply(c, id)'
    BY <1>2 DEF PlainReply
  <2>6. Refused(c, id) => Refused(c, id)' \/ down'[c] = <<>>
    BY DEF Refused
  <2>7. Whole(me.results, down[c], Pending(c, id), outcome[id])
             => down'[c] = <<>> \/ Parts(me.results, down'[c], outcome[id])
    BY WholeParts
  <2>8. QED
    BY <2>1, <2>2, <2>4, <2>5, <2>6, <2>7 DEF TrackedFor
<1>8. Tracked'
  BY <1>7 DEF Tracked, TrackedFor
<1>9. ASSUME NEW t \in Threads PROVE ReturnsFor(t)'
  BY DEF IInv, Returns, ReturnsFor
<1>10. QED
  BY <1>3, <1>4, <1>6, <1>8, <1>9 DEF IInv, Returns

LEMMA EmptyTypes == Listening \in ServerStates /\ <<>> \in Seq(Items) /\ <<>> \in Seq(Replies)
<1>1. <<>> \in Seq(Nat) /\ 1 \in Nat \ {0} /\ 0 \in Nat /\ <<>> \in Seq(Items) /\ <<>> \in Seq(Replies)
  OBVIOUS
<1>2. PICK none \in Seq(Nat) : none = <<>>
  BY <1>1, Zenon
<1>3. Listening = [pc |-> "receive", msg |-> NULL, i |-> 1, file |-> FALSE, reply |-> none, used |-> 0]
  BY <1>2, Zenon DEF Listening
<1>4. Listening \in ServerStates
  BY <1>1, <1>2, <1>3 DEF ServerStates
<1>5. QED
  BY <1>1, <1>4, Zenon

LEMMA CrashIInv == ASSUME IInv, Crash PROVE IInv'
<1>1. /\ alive /\ alive' = FALSE /\ server' = [c \in Connections |-> Listening]
      /\ up' = [c \in Connections |-> <<>>]
      /\ UNCHANGED <<idle, fresh, client, exists, size, unsynced, progress, outcome, issued>>
  BY DEF Crash, pool, backend, history
<1>2. PICK kept \in [Connections -> BOOLEAN] :
           down' = [c \in Connections |-> IF kept[c] THEN down[c] ELSE <<>>]
  BY DEF Crash
<1>3. down \in [Connections -> Seq(Replies)]
  BY DEF IInv, TypeOK
<1>4. \A c \in Connections : down'[c] = down[c] \/ down'[c] = <<>>
  BY <1>2
<1>5. TypeOK'
  <2>1. server' \in [Connections -> ServerStates]
    BY <1>1, EmptyTypes
  <2>2. PICK none \in Seq(Items) : none = <<>>
    BY EmptyTypes, Zenon
  <2>3. up' = [c \in Connections |-> none]
    BY <1>1, <2>2, Zenon
  <2>4. up' \in [Connections -> Seq(Items)]
    BY <2>3
  <2>5. PICK nothing \in Seq(Replies) : nothing = <<>>
    BY EmptyTypes, Zenon
  <2>6. down' = [c \in Connections |-> IF kept[c] THEN down[c] ELSE nothing]
    BY <1>2, <2>5, Zenon
  <2>7. down' \in [Connections -> Seq(Replies)]
    BY <1>3, <2>6
  <2>8. QED
    BY <1>1, <2>1, <2>4, <2>7, Zenon DEF IInv, TypeOK
<1>6. QED
  BY <1>1, <1>4, <1>5, Died, Zenon

LEMMA WriteAbortsIInv == ASSUME IInv, NEW c \in Connections, WriteAborts(c) PROVE IInv'
<1>1. /\ alive /\ alive' = FALSE /\ server' = [d \in Connections |-> Listening]
      /\ up' = [d \in Connections |-> <<>>] /\ down' = down
      /\ UNCHANGED <<idle, fresh, client, exists, size, unsynced, progress, outcome, issued>>
  BY DEF WriteAborts, pool, backend, history
<1>2. TypeOK'
  <2>1. server' \in [Connections -> ServerStates]
    BY <1>1, EmptyTypes
  <2>2. PICK none \in Seq(Items) : none = <<>>
    BY EmptyTypes, Zenon
  <2>3. up' = [d \in Connections |-> none]
    BY <1>1, <2>2, Zenon
  <2>4. up' \in [Connections -> Seq(Items)]
    BY <2>3
  <2>5. QED
    BY <1>1, <2>1, <2>4, Zenon DEF IInv, TypeOK
<1>3. \A d \in Connections : down'[d] = down[d] \/ down'[d] = <<>>
  BY <1>1
<1>4. QED
  BY <1>1, <1>2, <1>3, Died, Zenon


-----------------------------------------------------------------------------
(* What a thread does on its own: it begins with a request, takes a        *)
(* connection or gives it back.                                            *)

(* Nobody else is disturbed by a thread that goes over to the state new;   *)
(* a request it issues is one the server cannot have met.                  *)
LEMMA ClientLocal ==
    ASSUME IInv, NEW t \in Threads, NEW new \in ClientStates,
           client' = [client EXCEPT ![t] = new],
           client[t].pc # "receive", new.pc \notin {"receive", "push"},
           UNCHANGED <<up, down, server, exists, size, unsynced, alive, progress, outcome>>,
           \A id \in Ids : issued'[id] # issued[id] =>
                id[1] = t /\ ~Sent(id) /\ progress[id] = "none",
           \A id \in Ids : Sent(id) => Sent(id)',
           \A m \in 1 .. MaxRequests : Past(t, m)' => Past(t, m),
           TypeOK', PlacedFor(t)', Apart'
    PROVE  IInv'
<1>1. client'[t] = new /\ \A u \in Threads : u # t => client'[u] = client[u]
  BY DEF IInv, TypeOK
<1>2. MaxRequests \in Nat
  BY ProtocolAssumption
<1>3. ASSUME NEW u \in Threads PROVE PlacedFor(u)'
  <2>1. CASE u = t
    BY <2>1
  <2>2. CASE u # t
    <3>1. PlacedFor(u) /\ client'[u] = client[u] /\ client[u] \in ClientStates
      BY <1>1, <2>2 DEF IInv, Placed, TypeOK
    <3>2. client[u].n > 0 => issued'[<<u, client[u].n>>] = issued[<<u, client[u].n>>]
      <4>1. SUFFICES ASSUME client[u].n > 0 PROVE issued'[<<u, client[u].n>>] = issued[<<u, client[u].n>>]
        OBVIOUS
      <4>2. client[u].n \in 1 .. MaxRequests
        BY <1>2, <3>1, <4>1 DEF ClientStates
      <4>3. <<u, client[u].n>> \in Ids /\ <<u, client[u].n>>[1] # t
        BY <2>2, <4>2 DEF Ids
      <4>4. QED
        BY <4>3
    <3>3. QED
      BY <3>1, <3>2 DEF PlacedFor
  <2>3. QED
    BY <2>1, <2>2
<1>4. Dead' /\ Framed'
  BY DEF IInv, Dead, Framed
<1>5. Travels'
  <2>1. SUFFICES ASSUME NEW d \in Connections, NEW k \in 1 .. Len(up[d]), HeaderAt(up[d], k) PROVE Travel(up[d][k])'
    BY DEF Travels
  <2>2. PICK g \in Headers : g = up[d][k] /\ g.id \in Ids
    BY <2>1, ItemFacts DEF IInv, TypeOK
  <2>3. Travel(g)
    BY <2>1, <2>2 DEF IInv, Travels
  <2>4. issued'[g.id] = issued[g.id] /\ Sent(g.id)'
    BY <2>2, <2>3 DEF Travel
  <2>5. QED
    BY <2>2, <2>3, <2>4, Zenon DEF Travel, Sent
<1>6. Works'
  <2>1. SUFFICES ASSUME NEW d \in Connections PROVE WorksAt(d)'
    BY DEF Works
  <2>2. WorksAt(d)
    BY DEF IInv, Works
  <2>3. server[d].msg # NULL => issued'[server[d].msg.id] = issued[server[d].msg.id]
    BY <2>2, ServerFacts DEF IInv, WorksAt
  <2>4. QED
    BY <2>2, <2>3 DEF WorksAt, Answering, Synced
<1>7. \A u \in Threads : \A c \in Connections : Waits(u, c)' <=> Waits(u, c)
  BY <1>1 DEF Waits
<1>8. Quiet'
  BY <1>7 DEF IInv, Quiet, QuietAt
<1>9. ASSUME NEW u \in Threads PROVE TrackedFor(u)'
  <2>1. CASE u = t
    BY <1>1, <2>1 DEF TrackedFor
  <2>2. CASE u # t
    <3>1. TrackedFor(u) /\ client'[u] = client[u]
      BY <1>1, <2>2 DEF IInv, Tracked
    <3>2. QED
      BY <3>1, Zenon DEF TrackedFor, OwnAt, Serving, PlainReply, Refused, Pending
  <2>3. QED
    BY <2>1, <2>2
<1>10. ASSUME NEW id \in Ids PROVE RecordedOf(id)'
  <2>1. RecordedOf(id)
    BY DEF IInv, Recorded
  <2>2. CASE issued'[id] = issued[id]
    BY <2>1, <2>2 DEF RecordedOf, Synced, Complete
  <2>3. CASE issued'[id] # issued[id]
    <3>1. progress[id] = "none" /\ outcome[id] = <<>> /\ Synced(id)
      BY <2>1, <2>3 DEF RecordedOf
    <3>2. issued'[id] # NULL => Len(<<>>) <= Len(issued'[id].ops)
      <4>1. issued'[id] # NULL => issued'[id] \in Requests
        BY DEF TypeOK
      <4>2. QED
        BY <4>1, RequestFacts
    <3>3. QED
      BY <3>1, <3>2 DEF RecordedOf, Synced
  <2>4. QED
    BY <2>2, <2>3
<1>11. Ordered'
  <2>1. SUFFICES ASSUME alive, NEW u \in Threads, NEW m \in 1 .. MaxRequests, Past(u, m)', ServerReplies(issued'[<<u, m>>])
                 PROVE  progress[<<u, m>>] = "done"
    BY DEF Ordered
  <2>2. Past(u, m)
    <3>1. CASE u = t
      BY <2>1, <3>1
    <3>2. CASE u # t
      BY <1>1, <2>1, <3>2 DEF Past
    <3>3. QED
      BY <3>1, <3>2
  <2>3. <<u, m>> \in Ids /\ Sent(<<u, m>>)
    BY <2>2 DEF Ids, Past, Sent
  <2>4. issued'[<<u, m>>] = issued[<<u, m>>]
    BY <2>3
  <2>5. QED
    BY <2>1, <2>2, <2>4 DEF IInv, Ordered
<1>12. ASSUME NEW u \in Threads PROVE ReturnsFor(u)'
  <2>1. CASE u = t
    BY <1>1, <2>1 DEF ReturnsFor
  <2>2. CASE u # t
    BY <1>1, <2>2 DEF IInv, Returns, ReturnsFor
  <2>3. QED
    BY <2>1, <2>2
<1>13. ConfirmedInOrder'
  <2>1. SUFFICES ASSUME NEW u \in Threads, NEW n \in 1 .. MaxRequests - 1,
                        progress[<<u, n + 1>>] # "none", ServerReplies(issued'[<<u, n>>])
                 PROVE  progress[<<u, n>>] = "done"
    BY DEF ConfirmedInOrder
  <2>2. n \in 1 .. MaxRequests /\ n + 1 \in 1 .. MaxRequests /\ client[u].n \in 0 .. MaxRequests
    BY <1>2 DEF IInv, TypeOK, ClientStates
  <2>3. ~(n + 1 > client[u].n)
    BY <2>1, <2>2, Zenon DEF IInv, Placed, PlacedFor
  <2>4. n < client[u].n
    BY <1>2, <2>2, <2>3
  <2>5. <<u, n>> \in Ids /\ Sent(<<u, n>>)
    BY <2>2, <2>4 DEF Ids, Sent
  <2>6. issued'[<<u, n>>] = issued[<<u, n>>]
    BY <2>5
  <2>7. QED
    BY <2>1, <2>6 DEF IInv, ConfirmedInOrder
<1>14. QED
  BY <1>3, <1>4, <1>5, <1>6, <1>8, <1>9, <1>10, <1>11, <1>12, <1>13 DEF IInv, Placed, Tracked, Recorded, Returns

LEMMA BeginIInv ==
    ASSUME IInv, NEW t \in Threads, NEW r \in Requests, NEW results \in Seq(Nat),
           ServerReplies(r) => results = <<>>, Begin(t, r, results)
    PROVE  IInv'
<1>1. PICK n \in 0 .. MaxRequests : n = client[t].n
  BY DEF IInv, TypeOK, ClientStates
<1> DEFINE new == [pc |-> "pop", n |-> n + 1, req |-> r, conn |-> NULL, results |-> results,
                   last |-> 0, ret |-> TRUE]
<1>2. /\ client[t].pc = "idle" /\ n < MaxRequests /\ MaxRequests \in Nat
      /\ client' = [client EXCEPT ![t] = new]
      /\ issued' = [issued EXCEPT ![<<t, n + 1>>] = r]
      /\ UNCHANGED <<idle, fresh, up, down, server, exists, size, unsynced, alive, progress, outcome>>
  BY <1>1, ProtocolAssumption DEF Begin, pool, backend
<1>3. n + 1 \in 0 .. MaxRequests /\ n + 1 \in 1 .. MaxRequests /\ n + 1 > 0 /\ n + 1 > n
  BY <1>1, <1>2
<1>4. <<t, n + 1>> \in Ids
  BY <1>3 DEF Ids
<1>5. new \in ClientStates
  BY <1>3 DEF ClientStates
<1>6. new.pc = "pop" /\ new.n = n + 1 /\ new.req = r /\ new.conn = NULL /\ new.results = results
  OBVIOUS
<1> HIDE DEF new
<1>7. client'[t] = new /\ \A u \in Threads : u # t => client'[u] = client[u]
  BY <1>2 DEF IInv, TypeOK
<1>8. issued'[<<t, n + 1>>] = r /\ \A id \in Ids : id # <<t, n + 1>> => issued'[id] = issued[id]
  BY <1>2, <1>4 DEF IInv, TypeOK
<1>9. PlacedFor(t)
  BY DEF IInv, Placed
<1>10. client[t].conn = NULL /\ progress[<<t, n + 1>>] = "none"
  BY <1>1, <1>2, <1>3, <1>9 DEF PlacedFor
<1>11. TypeOK'
  <2>1. client' \in [Threads -> ClientStates] /\ issued' \in [Ids -> Requests \cup {NULL}]
    BY <1>2, <1>4, <1>5 DEF IInv, TypeOK
  <2>2. QED
    BY <1>2, <2>1 DEF IInv, TypeOK
<1>12. PlacedFor(t)'
  <2>1. r # NULL
    BY RequestFacts
  <2>2. \A m \in 1 .. MaxRequests : m > n + 1 => progress[<<t, m>>] = "none"
    <3>1. SUFFICES ASSUME NEW m \in 1 .. MaxRequests, m > n + 1 PROVE progress[<<t, m>>] = "none"
      OBVIOUS
    <3>2. m > n
      BY <1>1, <1>2, <3>1
    <3>3. QED
      BY <1>1, <1>9, <3>2 DEF PlacedFor
  <2>3. QED
    BY <1>2, <1>3, <1>6, <1>7, <1>8, <1>10, <2>1, <2>2, Zenon DEF PlacedFor
<1>13. Apart'
  <2>1. \A u \in Threads : client'[u].conn = client[u].conn
    BY <1>6, <1>7, <1>10
  <2>2. QED
    BY <1>2, <2>1 DEF IInv, Apart
<1>14. ASSUME NEW id \in Ids, issued'[id] # issued[id] PROVE id[1] = t /\ ~Sent(id) /\ progress[id] = "none"
  <2>1. id = <<t, n + 1>>
    BY <1>8, <1>14
  <2>2. ~(n + 1 < n) /\ n + 1 # n
    BY <1>1
  <2>3. QED
    BY <1>1, <1>10, <2>1, <2>2 DEF Sent
<1>15. ASSUME NEW id \in Ids, Sent(id) PROVE Sent(id)'
  <2>1. PICK u \in Threads, m \in 1 .. MaxRequests : id = <<u, m>>
    BY DEF Ids
  <2>2. CASE u # t
    BY <1>7, <1>15, <2>1, <2>2 DEF Sent
  <2>3. CASE u = t
    <3>1. m < n \/ m = n
      BY <1>1, <1>15, <2>1, <2>3 DEF Sent
    <3>2. m < n + 1
      BY <1>1, <3>1
    <3>3. QED
      BY <1>6, <1>7, <2>1, <2>3, <3>2 DEF Sent
  <2>4. QED
    BY <2>2, <2>3
<1>16. ASSUME NEW m \in 1 .. MaxRequests, Past(t, m)' PROVE Past(t, m)
  <2>1. m < n + 1
    BY <1>6, <1>7, <1>16 DEF Past
  <2>2. m < n \/ m = n
    BY <1>1, <2>1
  <2>3. QED
    BY <1>1, <1>2, <2>2 DEF Past
<1>17. client[t].pc # "receive" /\ new.pc \notin {"receive", "push"}
  BY <1>2, <1>6
<1>18. QED
  BY <1>2, <1>5, <1>11, <1>12, <1>13, <1>14, <1>15, <1>16, <1>17, ClientLocal, Zenon

LEMMA ExecIInv ==
    ASSUME IInv, NEW t \in Threads, NEW r \in Requests,
           \/ CreateExec(t, r) \/ DeleteExec(t, r) \/ ReadExec(t, r)
           \/ WriteExec(t, r) \/ StatusExec(t, r) \/ SyncExec(t, r)
    PROVE  IInv'
<1>0. PICK none \in Seq(Nat) : none = <<>>
  <2>1. <<>> \in Seq(Nat)
    OBVIOUS
  <2>2. QED
    BY <2>1, Zenon
<1>1. CASE Begin(t, r, <<>>)
  <2>1. Begin(t, r, none)
    BY <1>0, <1>1, Zenon
  <2>2. QED
    BY <1>0, <2>1, BeginIInv, Zenon
<1>2. CASE WriteExec(t, r)
  <2>1. CASE r.persistency = "NONE"
    <3>1. PICK l \in Nat : l = Len(r.ops) /\ DOMAIN r.ops = 1 .. l /\ r.ops \in Seq(Ranges)
      BY RequestFacts, LenProperties
    <3>2. PICK lengths \in Seq(Nat) : lengths = [n \in DOMAIN r.ops |-> r.ops[n].length]
      <4>1. \A n \in 1 .. l : r.ops[n] \in Ranges
        BY <3>1, ElementOfSeq
      <4>2. \A n \in 1 .. l : r.ops[n].length \in Nat
        BY <4>1 DEF Ranges
      <4>3. [n \in 1 .. l |-> r.ops[n].length] \in [1 .. l -> Nat]
        BY <4>2
      <4>4. [n \in 1 .. l |-> r.ops[n].length] \in Seq(Nat)
        BY <4>3
      <4>5. QED
        BY <3>1, <4>4, Zenon
    <3>3. Begin(t, r, lengths) /\ r.type = "WRITE"
      BY <1>2, <2>1, <3>2 DEF WriteExec
    <3>4. ~ServerReplies(r)
      BY <2>1, <3>3 DEF ServerReplies
    <3>5. QED
      BY <3>3, <3>4, BeginIInv
  <2>2. CASE r.persistency # "NONE"
    BY <1>1, <1>2, <2>2 DEF WriteExec
  <2>3. QED
    BY <2>1, <2>2
<1>3. QED
  BY <1>1, <1>2 DEF CreateExec, DeleteExec, ReadExec, StatusExec, SyncExec

(* Taking a connection, or giving it back: the same request, and not yet,  *)
(* or no longer, on its way.                                               *)
LEMMA SameRequest ==
    ASSUME IInv, NEW t \in Threads, NEW new \in ClientStates,
           client' = [client EXCEPT ![t] = new], client[t].pc # "idle", new.n = client[t].n, new.req = client[t].req,
           new.results = client[t].results,
           \/ client[t].pc = "pop" /\ new.pc = "pop" /\ new.conn = NULL
           \/ client[t].pc = "pop" /\ new.pc = "send" /\ new.conn \in Connections
           \/ client[t].pc = "push" /\ new.pc = "idle" /\ new.conn = NULL,
           idle' \in Seq(Connections), fresh' \subseteq Connections, Apart',
           UNCHANGED <<up, down, server, exists, size, unsynced, alive, history>>
    PROVE  IInv'
<1>1. UNCHANGED <<up, down, server, exists, size, unsynced, alive, progress, outcome, issued>>
  BY DEF history
<1>2. client'[t] = new /\ \A u \in Threads : u # t => client'[u] = client[u]
  BY DEF IInv, TypeOK
<1>3. TypeOK'
  <2>1. client' \in [Threads -> ClientStates]
    BY DEF IInv, TypeOK
  <2>2. QED
    BY <1>1, <2>1 DEF IInv, TypeOK
<1>4. NULL \notin Connections
  BY ProtocolAssumption
<1>5. PlacedFor(t)'
  <2>1. PlacedFor(t)
    BY DEF IInv, Placed
  <2>2. QED
    BY <1>1, <1>2, <1>4, <2>1 DEF PlacedFor
<1>6. ASSUME NEW id \in Ids, Sent(id) PROVE Sent(id)'
  <2>1. PICK u \in Threads, m \in 1 .. MaxRequests : id = <<u, m>>
    BY DEF Ids
  <2>2. CASE u # t
    BY <1>2, <1>6, <2>1, <2>2 DEF Sent
  <2>3. CASE u = t
    BY <1>2, <1>6, <2>1, <2>3 DEF Sent
  <2>4. QED
    BY <2>2, <2>3
<1>7. \A m \in 1 .. MaxRequests : Past(t, m)' => Past(t, m)
  BY <1>2 DEF Past
<1>8. client[t].pc # "receive" /\ new.pc \notin {"receive", "push"}
  OBVIOUS
<1>9. QED
  BY <1>1, <1>3, <1>5, <1>6, <1>7, <1>8, ClientLocal, Zenon

LEMMA PopIInv == ASSUME IInv, NEW t \in Threads, PopConnection(t) PROVE IInv'
<1>1. /\ client[t].pc = "pop" /\ client[t] \in ClientStates /\ client \in [Threads -> ClientStates]
      /\ idle \in Seq(Connections) /\ fresh \subseteq Connections /\ NULL \notin Connections
      /\ UNCHANGED <<up, down, server, exists, size, unsynced, alive, history>>
  BY ProtocolAssumption DEF IInv, TypeOK, PopConnection, backend
<1>2. /\ \A i, j \in 1 .. Len(idle) : idle[i] = idle[j] => i = j
      /\ \A i \in 1 .. Len(idle) : idle[i] \notin fresh
      /\ \A u \in Threads :
            /\ client[u].conn \notin fresh
            /\ \A i \in 1 .. Len(idle) : client[u].conn # idle[i]
            /\ \A v \in Threads : client[u].conn # NULL /\ client[u].conn = client[v].conn => u = v
  BY DEF IInv, Apart
<1>3. ASSUME NEW c \in Connections, client' = [client EXCEPT ![t].pc = "send", ![t].conn = c],
             \A u \in Threads : client[u].conn # c,
             idle' \in Seq(Connections), fresh' \subseteq fresh, c \notin fresh',
             \A i \in 1 .. Len(idle') : idle'[i] # c,
             \A i \in 1 .. Len(idle') : \E k \in 1 .. Len(idle) : idle'[i] = idle[k],
             \A i, j \in 1 .. Len(idle') : idle'[i] = idle'[j] => i = j
      PROVE  IInv'
  <2>1. PICK new \in ClientStates : new = [client[t] EXCEPT !.pc = "send", !.conn = c]
    BY <1>1, Zenon DEF ClientStates
  <2>2. /\ new.n = client[t].n /\ new.req = client[t].req /\ new.results = client[t].results
        /\ new.pc = "send" /\ new.conn = c
    BY <1>1, <2>1 DEF ClientStates
  <2>3. client' = [client EXCEPT ![t] = new]
    BY <1>1, <1>3, <2>1, Zenon
  <2>4. client'[t] = new /\ \A u \in Threads : u # t => client'[u] = client[u]
    BY <1>1, <2>3
  <2>5. \A u \in Threads : client'[u].conn = IF u = t THEN c ELSE client[u].conn
    BY <2>2, <2>4
  <2>6. Apart'
    <3>1. \A i \in 1 .. Len(idle') : idle'[i] \notin fresh'
      BY <1>2, <1>3
    <3>2. ASSUME NEW u \in Threads
          PROVE  /\ client'[u].conn \notin fresh'
                 /\ \A i \in 1 .. Len(idle') : client'[u].conn # idle'[i]
                 /\ \A v \in Threads : client'[u].conn # NULL /\ client'[u].conn = client'[v].conn => u = v
      <4>1. client'[u].conn = c \/ client'[u].conn = client[u].conn
        BY <2>5
      <4>2. client'[u].conn \notin fresh'
        BY <1>2, <1>3, <4>1
      <4>3. \A i \in 1 .. Len(idle') : client'[u].conn # idle'[i]
        BY <1>2, <1>3, <4>1
      <4>4. ASSUME NEW v \in Threads, client'[u].conn # NULL, client'[u].conn = client'[v].conn PROVE u = v
        BY <1>2, <1>3, <2>5, <4>4
      <4>5. QED
        BY <4>2, <4>3, <4>4
    <3>3. QED
      BY <1>3, <3>1, <3>2, Zenon DEF Apart
  <2>7. fresh' \subseteq Connections
    BY <1>1, <1>3
  <2>8. client[t].pc # "idle"
    BY <1>1
  <2>9. QED
    BY <1>1, <1>3, <2>2, <2>3, <2>6, <2>7, <2>8, SameRequest, Zenon
<1>4. CASE idle # <<>> /\ client' = [client EXCEPT ![t].pc = "send", ![t].conn = Head(idle)] /\ idle' = Tail(idle)
           /\ fresh' = fresh
  <2>1. PICK n \in Nat \ {0}, c \in Connections, rest \in Seq(Connections) :
             /\ n = Len(idle) /\ c = Head(idle) /\ c = idle[1] /\ rest = Tail(idle)
             /\ Len(rest) = n - 1 /\ \A i \in 1 .. n - 1 : rest[i] = idle[i + 1]
    BY <1>1, <1>4, TailFacts, ZenonT(40)
  <2>2. 1 \in 1 .. n /\ \A i \in 1 .. n - 1 : i + 1 \in 1 .. n /\ i + 1 # 1
    OBVIOUS
  <2>3. (\A u \in Threads : client[u].conn # c) /\ c \notin fresh
    BY <1>2, <2>1, <2>2
  <2>4. \A i \in 1 .. n - 1 : rest[i] # c
    BY <1>2, <2>1, <2>2
  <2>5. \A i \in 1 .. n - 1 : \E k \in 1 .. n : rest[i] = idle[k]
    BY <2>1, <2>2
  <2>6. \A i, j \in 1 .. n - 1 : rest[i] = rest[j] => i = j
    <3>1. SUFFICES ASSUME NEW i \in 1 .. n - 1, NEW j \in 1 .. n - 1, rest[i] = rest[j] PROVE i = j
      OBVIOUS
    <3>2. i + 1 = j + 1
      BY <1>2, <2>1, <2>2, <3>1
    <3>3. QED
      BY <3>2
  <2>7. /\ idle' = rest /\ Len(idle') = n - 1 /\ idle' \in Seq(Connections) /\ fresh' \subseteq fresh /\ c \notin fresh'
        /\ client' = [client EXCEPT ![t].pc = "send", ![t].conn = c]
    BY <1>4, <2>1, <2>3
  <2>8. /\ \A i \in 1 .. Len(idle') : idle'[i] # c
        /\ \A i \in 1 .. Len(idle') : \E k \in 1 .. Len(idle) : idle'[i] = idle[k]
        /\ \A i, j \in 1 .. Len(idle') : idle'[i] = idle'[j] => i = j
    BY <2>1, <2>4, <2>5, <2>6, <2>7
  <2>9. QED
    BY <1>3, <2>3, <2>7, <2>8, Zenon
<1>5. ASSUME NEW c \in fresh, fresh' = fresh \ {c}, idle' = idle,
             client' = [client EXCEPT ![t].pc = "send", ![t].conn = c]
      PROVE  IInv'
  <2>1. c \in Connections /\ c \notin fresh' /\ fresh' \subseteq fresh /\ (\A u \in Threads : client[u].conn # c)
    BY <1>1, <1>2, <1>5
  <2>2. /\ \A i \in 1 .. Len(idle') : idle'[i] # c
        /\ \A i \in 1 .. Len(idle') : \E k \in 1 .. Len(idle) : idle'[i] = idle[k]
        /\ \A i, j \in 1 .. Len(idle') : idle'[i] = idle'[j] => i = j
        /\ idle' \in Seq(Connections)
    BY <1>1, <1>2, <1>5
  <2>3. QED
    BY <1>3, <1>5, <2>1, <2>2, Zenon
<1>6. ASSUME NEW c \in fresh, fresh' = fresh \ {c}, idle' = idle, client' = client
      PROVE  IInv'
  <2>1. client' = [client EXCEPT ![t] = client[t]]
    BY <1>1, <1>6
  <2>2. Apart'
    BY <1>2, <1>6 DEF Apart
  <2>3. client[t].conn = NULL
    <3>1. PlacedFor(t)
      BY DEF IInv, Placed
    <3>2. QED
      BY <1>1, <3>1 DEF PlacedFor
  <2>4. idle' \in Seq(Connections) /\ fresh' \subseteq Connections
    BY <1>1, <1>6
  <2>5. PICK new \in ClientStates : new = client[t]
    BY <1>1
  <2>6. /\ client' = [client EXCEPT ![t] = new] /\ client[t].pc # "idle" /\ new.n = client[t].n
        /\ new.req = client[t].req /\ new.results = client[t].results
        /\ client[t].pc = "pop" /\ new.pc = "pop" /\ new.conn = NULL
    BY <1>1, <2>1, <2>3, <2>5
  <2>7. QED
    BY <1>1, <2>2, <2>4, <2>6, SameRequest, Zenon
<1>7. QED
  BY <1>4, <1>5, <1>6 DEF PopConnection

LEMMA PushIInv == ASSUME IInv, NEW t \in Threads, PushConnection(t) PROVE IInv'
<1>1. /\ client[t].pc = "push" /\ client[t] \in ClientStates /\ client \in [Threads -> ClientStates]
      /\ idle \in Seq(Connections) /\ fresh \subseteq Connections /\ NULL \notin Connections
      /\ idle' = Append(idle, client[t].conn) /\ fresh' = fresh
      /\ client' = [client EXCEPT ![t].pc = "idle", ![t].conn = NULL]
      /\ UNCHANGED <<up, down, server, exists, size, unsynced, alive, history>>
  BY ProtocolAssumption DEF IInv, TypeOK, PushConnection, backend
<1>2. /\ \A i, j \in 1 .. Len(idle) : idle[i] = idle[j] => i = j
      /\ \A i \in 1 .. Len(idle) : idle[i] \notin fresh
      /\ \A u \in Threads :
            /\ client[u].conn \notin fresh
            /\ \A i \in 1 .. Len(idle) : client[u].conn # idle[i]
            /\ \A v \in Threads : client[u].conn # NULL /\ client[u].conn = client[v].conn => u = v
  BY DEF IInv, Apart
<1>3. PICK c \in Connections : c = client[t].conn
  BY <1>1, ClientFacts, Zenon DEF IInv
<1>4. PICK new \in ClientStates : new = [client[t] EXCEPT !.pc = "idle", !.conn = NULL]
  BY <1>1, Zenon DEF ClientStates
<1>5. /\ new.n = client[t].n /\ new.req = client[t].req /\ new.results = client[t].results
      /\ new.pc = "idle" /\ new.conn = NULL
  BY <1>1, <1>4 DEF ClientStates
<1>6. client' = [client EXCEPT ![t] = new]
  BY <1>1, <1>4, Zenon
<1>7. \A u \in Threads : client'[u].conn = IF u = t THEN NULL ELSE client[u].conn
  BY <1>1, <1>5, <1>6
<1>8. PICK n \in Nat, more \in Seq(Connections) :
           /\ n = Len(idle) /\ more = Append(idle, c) /\ Len(more) = n + 1 /\ more[n + 1] = c
           /\ \A i \in 1 .. n : more[i] = idle[i]
  <2>1. /\ Len(idle) \in Nat /\ Append(idle, c) \in Seq(Connections) /\ Len(Append(idle, c)) = Len(idle) + 1
        /\ Append(idle, c)[Len(idle) + 1] = c
        /\ \A i \in 1 .. Len(idle) : Append(idle, c)[i] = idle[i]
    BY <1>1, AppendFacts
  <2>2. QED
    BY <2>1, Zenon
<1>9. idle' = more
  BY <1>1, <1>3, <1>8
<1>10. c # NULL /\ c \notin fresh /\ (\A i \in 1 .. n : idle[i] # c) /\ \A u \in Threads : u # t => client[u].conn # c
  BY <1>1, <1>2, <1>3, <1>8
<1>11. Apart'
  <2>1. \A i, j \in 1 .. n + 1 : more[i] = more[j] => i = j
    <3>1. SUFFICES ASSUME NEW i \in 1 .. n + 1, NEW j \in 1 .. n + 1, more[i] = more[j] PROVE i = j
      OBVIOUS
    <3>2. (i \in 1 .. n \/ i = n + 1) /\ (j \in 1 .. n \/ j = n + 1)
      OBVIOUS
    <3>3. QED
      BY <1>2, <1>8, <1>10, <3>1, <3>2
  <2>2. \A i \in 1 .. n + 1 : more[i] \notin fresh
    <3>1. SUFFICES ASSUME NEW i \in 1 .. n + 1 PROVE more[i] \notin fresh
      OBVIOUS
    <3>2. i \in 1 .. n \/ i = n + 1
      OBVIOUS
    <3>3. QED
      BY <1>2, <1>8, <1>10, <3>2
  <2>3. NULL \notin fresh /\ \A i \in 1 .. n + 1 : more[i] \in Connections
    BY <1>1, <1>8, ElementOfSeq
  <2>4. ASSUME NEW u \in Threads
        PROVE  /\ client'[u].conn \notin fresh
               /\ \A i \in 1 .. n + 1 : client'[u].conn # more[i]
               /\ \A v \in Threads : client'[u].conn # NULL /\ client'[u].conn = client'[v].conn => u = v
    <3>1. CASE u = t
      BY <1>1, <1>7, <2>3, <3>1
    <3>2. CASE u # t
      <4>1. client'[u].conn = client[u].conn
        BY <1>7, <3>2
      <4>2. ASSUME NEW i \in 1 .. n + 1 PROVE client[u].conn # more[i]
        <5>1. i \in 1 .. n \/ i = n + 1
          OBVIOUS
        <5>2. QED
          BY <1>2, <1>8, <1>10, <3>2, <5>1
      <4>3. QED
        BY <1>2, <1>7, <4>1, <4>2
    <3>3. QED
      BY <3>1, <3>2
  <2>5. QED
    BY <1>1, <1>8, <1>9, <2>1, <2>2, <2>4 DEF Apart
<1>12. idle' \in Seq(Connections) /\ fresh' \subseteq Connections /\ client[t].pc # "idle"
  BY <1>1, <1>8, <1>9
<1>13. QED
  BY <1>1, <1>5, <1>6, <1>11, <1>12, SameRequest, Zenon

-----------------------------------------------------------------------------
(* A thread sends its message.                                             *)

(* The step, and where it happens: me is the state of the thread, id and r *)
(* its request, c its connection and new the state it goes over to.        *)
Sending(t, me, c, id, r, new) ==
    /\ me = client[t] /\ me.pc = "send" /\ c = me.conn /\ id = <<t, me.n>> /\ r = me.req
    /\ issued[id] = r /\ progress[id] = "none" /\ outcome[id] = <<>>
    /\ ServerReplies(r) => me.results = <<>>
    /\ new = [me EXCEPT !.pc = IF ServerReplies(r) THEN "receive" ELSE "push"]
    /\ client'[t] = new /\ \A u \in Threads : u # t => client'[u] = client[u]
    /\ alive => up'[c] = up[c] \o Written(id, r)
    /\ ~alive => up'[c] = up[c]
    /\ \A d \in Connections : d # c => up'[d] = up[d]
    /\ UNCHANGED <<idle, fresh, down, server, exists, size, unsynced, alive, progress, outcome, issued>>
    /\ \A u \in Threads : u # t => client[u].conn # c
    /\ QuietAt(c)
    /\ TypeOK'

LEMMA SendFacts ==
    ASSUME IInv, NEW t \in Threads, Send(t)
    PROVE  \E me, new \in ClientStates, c \in Connections, id \in Ids, r \in Requests :
              Sending(t, me, c, id, r, new)
<1>1. client[t].pc = "send" /\ client[t].pc # "idle"
  BY DEF Send
<1>2. PICK me \in ClientStates, c \in Connections, id \in Ids, r \in Requests :
           /\ me = client[t] /\ c = me.conn /\ id = <<t, me.n>> /\ r = me.req /\ issued[id] = r
           /\ up[c] \in Seq(Items)
  BY <1>1, ClientFacts, Zenon DEF IInv
<1>3. progress[id] = "none" /\ (ServerReplies(r) => me.results = <<>>)
  BY <1>1, <1>2 DEF IInv, Placed, PlacedFor
<1>4. outcome[id] = <<>>
  BY <1>3 DEF IInv, Recorded, RecordedOf
<1>5. PICK new \in ClientStates : new = [me EXCEPT !.pc = IF ServerReplies(r) THEN "receive" ELSE "push"]
  BY Zenon DEF ClientStates
<1>6. /\ client' = [client EXCEPT ![t].pc = IF ClientExpectsReply(r) THEN "receive" ELSE "push"]
      /\ up' = [up EXCEPT ![c] = IF alive THEN @ \o Written(id, r) ELSE @]
      /\ UNCHANGED <<idle, fresh, down, server, exists, size, unsynced, alive, progress, outcome, issued>>
  BY <1>2 DEF Send, IdOf, pool, backend, history
<1>7. ServerReplies(r) = ClientExpectsReply(r)
  BY RequestFacts
<1>8. TypeOK
  BY DEF IInv
<1>9. client' = [client EXCEPT ![t] = new]
  BY <1>2, <1>5, <1>6, <1>7, <1>8 DEF TypeOK
<1>10. client'[t] = new /\ \A u \in Threads : u # t => client'[u] = client[u]
  BY <1>8, <1>9 DEF TypeOK
<1>11. /\ alive => up'[c] = up[c] \o Written(id, r)
       /\ ~alive => up'[c] = up[c]
       /\ \A d \in Connections : d # c => up'[d] = up[d]
  BY <1>6, <1>8, Zenon DEF TypeOK
<1>12. TypeOK'
  <2>1. client' \in [Threads -> ClientStates]
    BY <1>8, <1>9 DEF TypeOK
  <2>2. up[c] \o Written(id, r) \in Seq(Items)
    BY <1>2, WrittenItems
  <2>3. up' \in [Connections -> Seq(Items)]
    BY <1>2, <1>6, <1>8, <2>2 DEF TypeOK
  <2>4. QED
    BY <1>6, <1>8, <2>1, <2>3 DEF TypeOK
<1>13. c # NULL
  BY ProtocolAssumption
<1>14. \A u \in Threads : u # t => client[u].conn # c
  BY <1>2, <1>13 DEF IInv, Apart
<1>15. QuietAt(c)
  BY <1>1, <1>14 DEF IInv, Quiet, Waits
<1>16. Sending(t, me, c, id, r, new)
  BY <1>1, <1>2, <1>3, <1>4, <1>5, <1>6, <1>10, <1>11, <1>12, <1>14, <1>15, Zenon DEF Sending
<1>17. QED
  BY <1>16

LEMMA LeftIsNat ==
    ASSUME TypeOK, Works, NEW c \in Connections PROVE Left(server[c]) \in Nat
<1>1. SUFFICES ASSUME server[c].msg # NULL, server[c].pc # "finish", server[c].msg.req.type = "WRITE"
               PROVE  Left(server[c]) \in Nat
  BY DEF Left
<1>2. server[c].msg.req \in Requests /\ server[c].pc \in {"open", "op"} /\ server[c] \in ServerStates
  BY <1>1, ServerFacts
<1>3. PICK l \in Nat, i \in Nat \ {0} : l = Len(server[c].msg.req.ops) /\ i = server[c].i
  BY <1>2, RequestFacts, Zenon DEF ServerStates
<1>4. i <= l
  BY <1>1, <1>2, <1>3 DEF Works, WorksAt
<1>5. l - i + 1 \in Nat
  BY <1>4
<1>6. QED
  BY <1>1, <1>3, <1>5 DEF Left

LEMMA SendWorks ==
    ASSUME IInv, NEW t \in Threads, NEW me \in ClientStates, NEW new \in ClientStates, NEW c \in Connections,
           NEW id \in Ids, NEW r \in Requests, Sending(t, me, c, id, r, new)
    PROVE  Placed' /\ Apart' /\ Dead' /\ Framed' /\ Travels' /\ Works'
<1>1. /\ me = client[t] /\ me.pc = "send" /\ c = me.conn /\ id = <<t, me.n>> /\ r = me.req
      /\ issued[id] = r /\ progress[id] = "none"
      /\ client'[t] = new /\ \A u \in Threads : u # t => client'[u] = client[u]
      /\ UNCHANGED <<idle, fresh, down, server, unsynced, alive, progress, outcome, issued>>
  BY DEF Sending
<1>2. /\ alive => up'[c] = up[c] \o Written(id, r)
      /\ ~alive => up'[c] = up[c]
      /\ \A d \in Connections : d # c => up'[d] = up[d]
  BY Zenon DEF Sending
<1>3. /\ new.n = me.n /\ new.req = me.req /\ new.conn = me.conn /\ new.results = me.results
      /\ new.pc = IF ServerReplies(r) THEN "receive" ELSE "push"
  BY DEF Sending, ClientStates
<1>4. up[c] \in Seq(Items)
  BY DEF IInv, TypeOK
<1>5. Placed'
  <2>1. SUFFICES ASSUME NEW u \in Threads PROVE PlacedFor(u)'
    BY DEF Placed
  <2>2. PlacedFor(u)
    BY DEF IInv, Placed
  <2>3. CASE u = t
    BY <1>1, <1>3, <2>2, <2>3 DEF PlacedFor
  <2>4. CASE u # t
    BY <1>1, <2>2, <2>4 DEF PlacedFor
  <2>5. QED
    BY <2>3, <2>4
<1>6. Apart'
  <2>1. \A u \in Threads : client'[u].conn = client[u].conn
    BY <1>1, <1>3
  <2>2. QED
    BY <1>1, <2>1 DEF IInv, Apart
<1>7. Dead'
  BY <1>1, <1>2 DEF IInv, Dead
<1>8. Framed'
  <2>1. SUFFICES ASSUME NEW d \in Connections PROVE Frames(up'[d], Left(server[d]))
    BY <1>1 DEF Framed
  <2>2. Frames(up[d], Left(server[d]))
    BY DEF IInv, Framed
  <2>3. CASE d = c /\ alive
    <3>1. PICK left \in Nat : left = Left(server[c])
      BY LeftIsNat DEF IInv
    <3>2. Frames(up[c], left)
      BY <2>2, <2>3, <3>1
    <3>3. Frames(up[c] \o Written(id, r), left)
      BY <1>4, <3>2, FramesWritten
    <3>4. QED
      BY <1>2, <2>3, <3>1, <3>3, Zenon
  <2>4. CASE d # c \/ ~alive
    <3>1. up'[d] = up[d]
      BY <1>2, <2>4
    <3>2. QED
      BY <2>2, <3>1, Zenon
  <2>5. QED
    BY <2>3, <2>4
<1>9. \A i \in Ids : Sent(i) => Sent(i)'
  <2>1. SUFFICES ASSUME NEW i \in Ids, Sent(i) PROVE Sent(i)'
    OBVIOUS
  <2>2. PICK u \in Threads, m \in 1 .. MaxRequests : i = <<u, m>>
    BY DEF Ids
  <2>3. CASE u # t
    BY <1>1, <2>1, <2>2, <2>3 DEF Sent
  <2>4. CASE u = t
    BY <1>1, <1>3, <2>1, <2>2, <2>4 DEF Sent
  <2>5. QED
    BY <2>3, <2>4
<1>10. Travels'
  <2>1. SUFFICES ASSUME NEW d \in Connections, NEW k \in 1 .. Len(up'[d]), HeaderAt(up'[d], k) PROVE Travel(up[d][k])'
    BY DEF Travels
  <2>2. CASE k \in 1 .. Len(up[d]) /\ HeaderAt(up[d], k) /\ up'[d][k] = up[d][k]
    <3>1. PICK g \in Headers : g = up'[d][k] /\ g = up[d][k] /\ g.id \in Ids
      BY <2>2, ItemFacts DEF IInv, TypeOK
    <3>2. Travel(g)
      BY <2>2, <3>1 DEF IInv, Travels
    <3>3. QED
      BY <1>1, <1>9, <3>1, <3>2 DEF Travel, Sent
  <2>3. CASE up'[d][k] = Header(id, r)
    <3>1. PICK g \in Headers : g = up'[d][k] /\ g.id = id /\ g.req = r
      BY <2>3 DEF Header, Headers
    <3>2. Sent(id)'
      BY <1>1, <1>3 DEF Sent
    <3>3. QED
      BY <1>1, <3>1, <3>2 DEF Travel, Sent
  <2>4. CASE d # c \/ ~alive
    <3>1. up'[d] = up[d]
      BY <1>2, <2>4
    <3>2. QED
      BY <2>1, <2>2, <3>1
  <2>5. CASE d = c /\ alive
    <3>1. k \in 1 .. Len(up[c] \o Written(id, r)) /\ HeaderAt(up[c] \o Written(id, r), k)
      BY <1>2, <2>1, <2>5, Zenon
    <3>2. \/ k \in 1 .. Len(up[c]) /\ HeaderAt(up[c], k) /\ (up[c] \o Written(id, r))[k] = up[c][k]
          \/ (up[c] \o Written(id, r))[k] = Header(id, r)
      BY <1>4, <3>1, WrittenHeaders, Zenon
    <3>3. up'[d][k] = (up[c] \o Written(id, r))[k]
      BY <1>2, <2>5
    <3>4. QED
      BY <2>2, <2>3, <2>5, <3>2, <3>3, Zenon
  <2>6. QED
    BY <2>4, <2>5
<1>11. Works'
  BY <1>1 DEF IInv, Works, WorksAt, Answering, Synced
<1>12. QED
  BY <1>5, <1>6, <1>7, <1>8, <1>10, <1>11

LEMMA SendTracked ==
    ASSUME IInv, NEW t \in Threads, NEW me \in ClientStates, NEW new \in ClientStates, NEW c \in Connections,
           NEW id \in Ids, NEW r \in Requests, Sending(t, me, c, id, r, new)
    PROVE  Quiet' /\ Tracked'
<1>1. /\ me = client[t] /\ me.pc = "send" /\ c = me.conn /\ id = <<t, me.n>> /\ r = me.req
      /\ issued[id] = r /\ progress[id] = "none" /\ outcome[id] = <<>>
      /\ ServerReplies(r) => me.results = <<>>
      /\ client'[t] = new /\ \A u \in Threads : u # t => client'[u] = client[u]
      /\ UNCHANGED <<down, server, alive, progress, outcome, issued>>
      /\ \A u \in Threads : u # t => client[u].conn # c
      /\ QuietAt(c)
  BY DEF Sending
<1>2. /\ alive => up'[c] = up[c] \o Written(id, r)
      /\ ~alive => up'[c] = up[c]
      /\ \A d \in Connections : d # c => up'[d] = up[d]
  BY Zenon DEF Sending
<1>3. /\ new.n = me.n /\ new.req = me.req /\ new.conn = me.conn /\ new.results = me.results
      /\ new.pc = IF ServerReplies(r) THEN "receive" ELSE "push"
  BY DEF Sending, ClientStates
<1>4. up[c] \in Seq(Items)
  BY DEF IInv, TypeOK
<1>5. Only(up'[c], id) /\ (~ServerReplies(r) => Silent(up'[c]))
  <2>1. Silent(up[c])
    BY <1>1 DEF QuietAt
  <2>2. CASE alive
    <3>1. /\ Only(up[c] \o Written(id, r), id)
          /\ ~ServerReplies(r) => Silent(up[c] \o Written(id, r))
      BY <1>4, <2>1, OnlyWritten
    <3>2. QED
      BY <1>2, <2>2, <3>1, Zenon
  <2>3. CASE ~alive
    BY <1>2, <2>1, <2>3, SilentOnly
  <2>4. QED
    BY <2>2, <2>3
<1>6. Quiet'
  <2>1. SUFFICES ASSUME NEW d \in Connections, \A u \in Threads : ~Waits(u, d)' PROVE QuietAt(d)'
    BY DEF Quiet
  <2>2. CASE d # c
    <3>1. \A u \in Threads : ~Waits(u, d)
      BY <1>1, <2>1, <2>2 DEF Waits
    <3>2. QuietAt(d)
      BY <3>1 DEF IInv, Quiet
    <3>3. QED
      BY <1>1, <1>2, <2>2, <3>2 DEF QuietAt
  <2>3. CASE d = c
    <3>1. ~ServerReplies(r)
      BY <1>1, <1>3, <2>1, <2>3 DEF Waits
    <3>2. QED
      BY <1>1, <1>5, <2>3, <3>1 DEF QuietAt
  <2>4. QED
    BY <2>2, <2>3
<1>7. ASSUME NEW u \in Threads, client'[u].pc = "receive" PROVE TrackedFor(u)'
  <2>1. CASE u # t
    <3>1. client'[u] = client[u] /\ TrackedFor(u)
      BY <1>1, <2>1 DEF IInv, Tracked
    <3>2. client[u].conn \in Connections
      BY <1>7, <3>1, ClientFacts, Zenon DEF IInv
    <3>3. up'[client[u].conn] = up[client[u].conn]
      BY <1>1, <1>2, <2>1, <3>2
    <3>4. QED
      BY <1>1, <3>1, <3>3, Zenon DEF TrackedFor, OwnAt, Serving, PlainReply, Refused, Pending
  <2>2. CASE u = t
    <3>1. ServerReplies(r) /\ me.results = <<>> /\ down[c] = <<>>
      BY <1>1, <1>3, <1>7, <2>2 DEF QuietAt
    <3>2. Len(down[c]) = 0
      BY <3>1
    <3>3. ~Serving(c, id)
      BY <1>1 DEF Serving, IInv, Works, WorksAt
    <3>4. OwnAt(c, id)'
      BY <1>1, <1>5, <3>1, <3>2 DEF OwnAt, QuietAt
    <3>5. PlainReply(c, id)'
      BY <1>1, <3>1, <3>2 DEF PlainReply
    <3>6. Pending(c, id)' = <<>>
      BY <1>1, <3>3 DEF Pending, Serving
    <3>7. Whole(me.results, down'[c], Pending(c, id)', outcome'[id])
      BY <1>1, <3>1, <3>6, WholeStart, Zenon
    <3>8. /\ client'[u].conn = c /\ <<u, client'[u].n>> = id /\ client'[u].results = me.results
      BY <1>1, <1>3, <2>2
    <3>9. QED
      BY <1>1, <3>1, <3>4, <3>5, <3>7, <3>8 DEF TrackedFor
  <2>3. QED
    BY <2>1, <2>2
<1>8. Tracked'
  BY <1>7 DEF Tracked, TrackedFor
<1>9. QED
  BY <1>6, <1>8

LEMMA SendIInv == ASSUME IInv, NEW t \in Threads, Send(t) PROVE IInv'
<1>1. PICK me \in ClientStates, new \in ClientStates, c \in Connections, id \in Ids, r \in Requests :
           Sending(t, me, c, id, r, new)
  BY SendFacts
<1>2. /\ me = client[t] /\ me.pc = "send" /\ id = <<t, me.n>> /\ r = me.req /\ issued[id] = r
      /\ new = [me EXCEPT !.pc = IF ServerReplies(r) THEN "receive" ELSE "push"]
      /\ client'[t] = new /\ \A u \in Threads : u # t => client'[u] = client[u]
      /\ UNCHANGED <<unsynced, alive, progress, outcome, issued>>
      /\ TypeOK'
  BY <1>1 DEF Sending
<1>3. new.n = me.n /\ new.req = me.req /\ (new.pc = "receive" \/ (new.pc = "push" /\ ~ServerReplies(r)))
  BY <1>2 DEF ClientStates
<1>4. Recorded' /\ ConfirmedInOrder'
  BY <1>2 DEF IInv, Recorded, RecordedOf, Synced, Complete, ConfirmedInOrder
<1>5. Ordered'
  <2>1. SUFFICES ASSUME alive, NEW u \in Threads, NEW m \in 1 .. MaxRequests, Past(u, m)', ServerReplies(issued[<<u, m>>])
                 PROVE  progress[<<u, m>>] = "done"
    BY <1>2 DEF Ordered
  <2>2. Past(u, m)
    <3>1. CASE u # t
      BY <1>2, <2>1, <3>1 DEF Past
    <3>2. CASE u = t
      <4>1. m < me.n \/ (m = me.n /\ new.pc # "receive")
        BY <1>2, <1>3, <2>1, <3>2, Zenon DEF Past
      <4>2. ASSUME m = me.n PROVE new.pc = "receive"
        BY <1>2, <1>3, <2>1, <3>2, <4>2
      <4>3. QED
        BY <1>2, <3>2, <4>1, <4>2 DEF Past
    <3>3. QED
      BY <3>1, <3>2
  <2>3. QED
    BY <2>1, <2>2 DEF IInv, Ordered
<1>6. ASSUME NEW u \in Threads PROVE ReturnsFor(u)'
  <2>1. CASE u # t
    BY <1>2, <2>1 DEF IInv, Returns, ReturnsFor
  <2>2. CASE u = t
    BY <1>2, <1>3, <2>2, ZenonT(40) DEF ReturnsFor
  <2>3. QED
    BY <2>1, <2>2
<1>7. QED
  BY <1>1, <1>2, <1>4, <1>5, <1>6, SendWorks, SendTracked DEF IInv, Returns

-----------------------------------------------------------------------------
(* A thread receives a reply, or finds that none will come.                *)

(* What the exec functions make of the results of a reply.                 *)
LEMMA DigestFacts ==
    ASSUME NEW me \in ClientStates, me.req \in Requests, NEW results \in Seq(Nat)
    PROVE  \E new \in ClientStates :
              /\ new = Digest(me, results) /\ new.n = me.n /\ new.req = me.req /\ new.conn = me.conn
              /\ new.pc \in {"receive", "push"}
              /\ me.req.type # "READ" => new.pc = "push"
              /\ me.req.type \in {"WRITE", "STATUS"} => new.results = results
              /\ me.req.type = "WRITE" /\ results = <<>> => ~new.ret
              /\ me.req.type = "READ" /\ results = <<>> =>
                    new.pc = "push" /\ new.results = me.results /\ ~new.ret
              /\ me.req.type = "READ" /\ results # <<>> =>
                    /\ new.results = me.results \o results
                    /\ new.pc = IF Len(me.results) + Len(results) < Len(me.req.ops) THEN "receive" ELSE "push"
<1>1. me.req.type \in Types
  BY RequestFacts
<1>2. CASE me.req.type = "DELETE"
  <2>1. PICK b \in BOOLEAN : b = (\A i \in DOMAIN results : results[i] = 1)
    BY Zenon
  <2>2. PICK new \in ClientStates : new = [me EXCEPT !.pc = "push", !.ret = b]
    BY Zenon DEF ClientStates
  <2>3. new = Digest(me, results)
    BY <1>2, <2>1, <2>2 DEF Digest, DeleteReply
  <2>4. QED
    BY <1>2, <2>2, <2>3, Zenon DEF ClientStates
<1>3. CASE me.req.type = "READ"
  <2>1. CASE results = <<>>
    <3>1. PICK new \in ClientStates : new = [me EXCEPT !.pc = "push", !.ret = FALSE]
      BY Zenon DEF ClientStates
    <3>2. new = Digest(me, results)
      BY <1>3, <2>1, <3>1 DEF Digest, ReadReply
    <3>3. QED
      BY <1>3, <2>1, <3>1, <3>2, Zenon DEF ClientStates
  <2>2. CASE results # <<>>
    <3>1. PICK all \in Seq(Nat), n \in Nat, pc \in {"receive", "push"} :
               /\ all = me.results \o results /\ n = Len(results)
               /\ pc = IF Len(me.results) + Len(results) < Len(me.req.ops) THEN "receive" ELSE "push"
      BY ConcatProperties, LenProperties, Zenon DEF ClientStates
    <3>2. PICK new \in ClientStates : new = [me EXCEPT !.results = all, !.last = n, !.pc = pc]
      BY Zenon DEF ClientStates
    <3>3. new = Digest(me, results)
      BY <1>3, <2>2, <3>1, <3>2 DEF Digest, ReadReply
    <3>4. /\ new.results = all /\ new.pc = pc /\ new.n = me.n /\ new.req = me.req /\ new.conn = me.conn
      BY <3>2 DEF ClientStates
    <3>5. QED
      BY <1>3, <2>2, <3>1, <3>3, <3>4
  <2>3. QED
    BY <2>1, <2>2
<1>4. CASE me.req.type = "WRITE"
  <2>1. PICK b \in BOOLEAN : b = (results # <<>>)
    BY Zenon
  <2>2. PICK new \in ClientStates : new = [me EXCEPT !.pc = "push", !.results = results, !.ret = b]
    BY Zenon DEF ClientStates
  <2>3. new = Digest(me, results)
    BY <1>4, <2>1, <2>2 DEF Digest, WriteReply
  <2>4. new.ret = b /\ new.results = results /\ new.pc = "push" /\ new.n = me.n /\ new.req = me.req /\ new.conn = me.conn
    BY <2>2 DEF ClientStates
  <2>5. results = <<>> => ~new.ret
    BY <2>1, <2>4, Zenon
  <2>6. QED
    BY <1>4, <2>3, <2>4, <2>5
<1>5. CASE me.req.type = "STATUS"
  <2>1. PICK new \in ClientStates : new = [me EXCEPT !.pc = "push", !.results = results]
    BY Zenon DEF ClientStates
  <2>2. new = Digest(me, results)
    BY <1>5, <2>1 DEF Digest, StatusReply
  <2>3. QED
    BY <1>5, <2>1, <2>2, Zenon DEF ClientStates
<1>6. CASE me.req.type \notin {"DELETE", "READ", "WRITE", "STATUS"}
  <2>1. PICK new \in ClientStates : new = [me EXCEPT !.pc = "push"]
    BY Zenon DEF ClientStates
  <2>2. new = Digest(me, results)
    BY <1>6, <2>1 DEF Digest, IgnoredReply
  <2>3. QED
    BY <1>6, <2>1, <2>2, Zenon DEF ClientStates
<1>7. QED
  BY <1>2, <1>3, <1>4, <1>5, <1>6

LEMMA ZerosType == ASSUME NEW n \in Int PROVE Zeros(n) \in Seq(Nat)
<1>1. PICK k \in Nat : 1 .. n = 1 .. k
  <2>1. CASE n >= 0
    BY <2>1
  <2>2. CASE n < 0
    <3>1. 1 .. n = 1 .. 0
      BY <2>2
    <3>2. QED
      BY <3>1
  <2>3. QED
    BY <2>1, <2>2
<1>2. [i \in 1 .. k |-> 0] \in [1 .. k -> Nat]
  OBVIOUS
<1>3. [i \in 1 .. k |-> 0] \in Seq(Nat)
  BY <1>2
<1>4. QED
  BY <1>1, <1>3, Zenon DEF Zeros

(* A missing reply is one with some results, for a write with none.        *)
LEMMA MissFacts ==
    ASSUME NEW me \in ClientStates, me.req \in Requests
    PROVE  \E results \in Seq(Nat) :
              Miss(me) = Digest(me, results) /\ (me.req.type = "WRITE" => results = <<>>)
<1>1. PICK l \in Nat, m \in Nat, last \in Nat : l = Len(me.req.ops) /\ m = Len(me.results) /\ last = me.last
  BY RequestFacts, LenProperties DEF ClientStates
<1>2. Zeros(l) \in Seq(Nat)
  BY ZerosType
<1>3. Zeros(Min2(last, l - m)) \in Seq(Nat)
  <2>1. Min2(last, l - m) \in Int
    BY DEF Min2
  <2>2. QED
    BY <2>1, ZerosType
<1>4. <<>> \in Seq(Nat)
  OBVIOUS
<1>5. CASE me.req.type = "STATUS"
  <2>1. Miss(me) = Digest(me, Zeros(l))
    BY <1>1, <1>5 DEF Miss
  <2>2. QED
    BY <1>2, <1>5, <2>1
<1>6. CASE me.req.type = "READ"
  <2>1. Miss(me) = Digest(me, Zeros(Min2(last, l - m)))
    BY <1>1, <1>6 DEF Miss
  <2>2. QED
    BY <1>3, <1>6, <2>1
<1>7. CASE me.req.type \notin {"READ", "STATUS"}
  <2>1. Miss(me) = Digest(me, <<>>)
    BY <1>7, Zenon DEF Miss
  <2>2. QED
    BY <1>4, <2>1, Zenon
<1>8. QED
  BY <1>5, <1>6, <1>7

(* The thread goes over to the state new and takes a reply off its         *)
(* connection, if there was one; what is left is right for it.             *)
Receiving(t, c, id, r, new) ==
    /\ client[t].pc = "receive" /\ c = client[t].conn /\ id = <<t, client[t].n>> /\ r = client[t].req
    /\ issued[id] = r /\ ServerReplies(r)
    /\ new.n = client[t].n /\ new.req = r /\ new.conn = c /\ new.pc \in {"receive", "push"}
    /\ client'[t] = new /\ \A u \in Threads : u # t => client'[u] = client[u]
    /\ \A d \in Connections : d # c => down'[d] = down[d]
    /\ UNCHANGED <<idle, fresh, up, server, exists, size, unsynced, alive, progress, outcome, issued>>
    /\ TypeOK' /\ TrackedFor(t)' /\ ReturnsFor(t)'
    /\ new.pc = "push" => down'[c] = <<>> /\ (alive => progress[id] = "done")

LEMMA ReceivingQuiet ==
    ASSUME IInv, NEW t \in Threads, NEW c \in Connections, NEW id \in Ids, NEW r \in Requests,
           NEW new \in ClientStates, Receiving(t, c, id, r, new), new.pc = "push"
    PROVE  QuietAt(c)'
<1>1. down'[c] = <<>> /\ UNCHANGED <<up, server, alive, progress>>
  BY DEF Receiving
<1>2. CASE ~alive
  <2>1. up[c] = <<>> /\ server[c] = Listening
    BY <1>2 DEF IInv, Dead
  <2>2. Len(<<>>) = 0
    OBVIOUS
  <2>3. Silent(up[c]) /\ server[c].msg = NULL
    BY <2>1, <2>2 DEF Silent, Listening
  <2>4. QED
    BY <1>1, <2>3 DEF QuietAt
<1>3. CASE alive
  <2>1. progress[id] = "done" /\ OwnAt(c, id)
    BY <1>3 DEF Receiving, IInv, Tracked, TrackedFor
  <2>2. ASSUME NEW k \in 1 .. Len(up[c]), ReplyingAt(up[c], k) PROVE FALSE
    <3>1. up[c][k].id = id
      BY <2>1, <2>2 DEF OwnAt, Only
    <3>2. Travel(up[c][k])
      BY <2>2 DEF IInv, Travels, ReplyingAt
    <3>3. QED
      BY <2>1, <2>2, <3>1, <3>2 DEF Travel, ReplyingAt
  <2>3. ASSUME server[c].msg # NULL, ServerReplies(server[c].msg.req) PROVE FALSE
    <3>1. server[c].msg.id = id
      BY <2>1, <2>3 DEF OwnAt
    <3>2. progress[server[c].msg.id] = "started"
      BY <2>3 DEF IInv, Works, WorksAt, Answering
    <3>3. QED
      BY <2>1, <3>1, <3>2
  <2>4. QED
    BY <1>1, <2>2, <2>3 DEF QuietAt, Silent
<1>4. QED
  BY <1>2, <1>3

LEMMA ReceivingIInv ==
    ASSUME IInv, NEW t \in Threads, NEW c \in Connections, NEW id \in Ids, NEW r \in Requests,
           NEW new \in ClientStates, Receiving(t, c, id, r, new)
    PROVE  IInv'
<1>1. /\ client[t].pc = "receive" /\ c = client[t].conn /\ id = <<t, client[t].n>> /\ r = client[t].req
      /\ issued[id] = r /\ ServerReplies(r)
      /\ new.n = client[t].n /\ new.req = r /\ new.conn = c /\ new.pc \in {"receive", "push"}
      /\ client'[t] = new /\ \A u \in Threads : u # t => client'[u] = client[u]
      /\ \A d \in Connections : d # c => down'[d] = down[d]
      /\ UNCHANGED <<idle, fresh, up, server, exists, size, unsynced, alive, progress, outcome, issued>>
      /\ new.pc = "push" => down'[c] = <<>> /\ (alive => progress[id] = "done")
      /\ TypeOK' /\ TrackedFor(t)' /\ ReturnsFor(t)'
  BY DEF Receiving
<1>2. c # NULL
  BY ProtocolAssumption
<1>3. \A u \in Threads : u # t => client[u].conn # c
  BY <1>1, <1>2 DEF IInv, Apart
<1>4. Placed'
  <2>1. SUFFICES ASSUME NEW u \in Threads PROVE PlacedFor(u)'
    BY DEF Placed
  <2>2. PlacedFor(u)
    BY DEF IInv, Placed
  <2>3. CASE u = t
    BY <1>1, <1>2, <2>2, <2>3 DEF PlacedFor
  <2>4. CASE u # t
    BY <1>1, <2>2, <2>4 DEF PlacedFor
  <2>5. QED
    BY <2>3, <2>4
<1>5. Apart'
  <2>1. \A u \in Threads : client'[u].conn = client[u].conn
    BY <1>1
  <2>2. QED
    BY <1>1, <2>1 DEF IInv, Apart
<1>6. Dead' /\ Framed'
  BY <1>1 DEF IInv, Dead, Framed
<1>7. \A i \in Ids : Sent(i) => Sent(i)'
  <2>1. SUFFICES ASSUME NEW i \in Ids, Sent(i) PROVE Sent(i)'
    OBVIOUS
  <2>2. PICK u \in Threads, m \in 1 .. MaxRequests : i = <<u, m>>
    BY DEF Ids
  <2>3. CASE u # t
    BY <1>1, <2>1, <2>2, <2>3 DEF Sent
  <2>4. CASE u = t
    BY <1>1, <2>1, <2>2, <2>4 DEF Sent
  <2>5. QED
    BY <2>3, <2>4
<1>8. Travels'
  <2>1. SUFFICES ASSUME NEW d \in Connections, NEW k \in 1 .. Len(up[d]), HeaderAt(up[d], k) PROVE Travel(up[d][k])'
    BY <1>1 DEF Travels
  <2>2. PICK g \in Headers : g = up[d][k] /\ g.id \in Ids
    BY <2>1, ItemFacts DEF IInv, TypeOK
  <2>3. Travel(g)
    BY <2>1, <2>2 DEF IInv, Travels
  <2>4. QED
    BY <1>1, <1>7, <2>2, <2>3, Zenon DEF Travel, Sent
<1>9. Works'
  BY <1>1 DEF IInv, Works, WorksAt, Answering, Synced
<1>10. Quiet'
  <2>1. SUFFICES ASSUME NEW d \in Connections, \A u \in Threads : ~Waits(u, d)' PROVE QuietAt(d)'
    BY DEF Quiet
  <2>2. CASE d # c
    <3>1. \A u \in Threads : ~Waits(u, d)
      BY <1>1, <2>1, <2>2 DEF Waits
    <3>2. QuietAt(d)
      BY <3>1 DEF IInv, Quiet
    <3>3. QED
      BY <1>1, <2>2, <3>2 DEF QuietAt
  <2>3. CASE d = c
    <3>1. new.pc = "push"
      BY <1>1, <2>1, <2>3 DEF Waits
    <3>2. QED
      BY <2>3, <3>1, ReceivingQuiet
  <2>4. QED
    BY <2>2, <2>3
<1>11. ASSUME NEW u \in Threads PROVE TrackedFor(u)'
  <2>1. CASE u = t
    BY <1>1, <2>1
  <2>2. CASE u # t
    <3>1. client'[u] = client[u] /\ TrackedFor(u)
      BY <1>1, <2>2 DEF IInv, Tracked
    <3>2. client[u].pc = "receive" => down'[client[u].conn] = down[client[u].conn]
      <4>1. client[u].pc = "receive" => client[u].conn \in Connections
        BY ClientFacts, Zenon DEF IInv
      <4>2. QED
        BY <1>1, <1>3, <2>2, <4>1
    <3>3. QED
      BY <1>1, <3>1, <3>2, ZenonT(40) DEF TrackedFor, OwnAt, Serving, PlainReply, Refused, Pending
  <2>3. QED
    BY <2>1, <2>2
<1>12. Recorded' /\ ConfirmedInOrder'
  BY <1>1 DEF IInv, Recorded, RecordedOf, Synced, Complete, ConfirmedInOrder
<1>13. Ordered'
  <2>1. SUFFICES ASSUME alive, NEW u \in Threads, NEW m \in 1 .. MaxRequests, Past(u, m)', ServerReplies(issued[<<u, m>>])
                 PROVE  progress[<<u, m>>] = "done"
    BY <1>1 DEF Ordered
  <2>2. CASE Past(u, m)
    BY <2>1, <2>2 DEF IInv, Ordered
  <2>3. CASE ~Past(u, m)
    <3>1. u = t
      BY <1>1, <2>1, <2>3 DEF Past
    <3>2. m = client[t].n /\ new.pc = "push"
      BY <1>1, <2>1, <2>3, <3>1 DEF Past
    <3>3. QED
      BY <1>1, <2>1, <3>1, <3>2
  <2>4. QED
    BY <2>2, <2>3
<1>14. ASSUME NEW u \in Threads PROVE ReturnsFor(u)'
  <2>1. CASE u = t
    BY <1>1, <2>1
  <2>2. CASE u # t
    BY <1>1, <2>2 DEF IInv, Returns, ReturnsFor
  <2>3. QED
    BY <2>1, <2>2
<1>15. QED
  BY <1>1, <1>4, <1>5, <1>6, <1>8, <1>9, <1>10, <1>11, <1>12, <1>13, <1>14 DEF IInv, Tracked, Returns

LEMMA TakesReply ==
    ASSUME IInv, NEW t \in Threads, NEW me \in ClientStates, NEW c \in Connections, NEW id \in Ids,
           NEW r \in Requests, me = client[t], me.pc = "receive", c = me.conn, id = <<t, me.n>>, r = me.req,
           issued[id] = r, ServerReplies(r), down[c] # <<>>,
           client' = [client EXCEPT ![t] = Digest(me, Head(down[c]).results)],
           down' = [down EXCEPT ![c] = Tail(@)],
           UNCHANGED <<idle, fresh, up, server, exists, size, unsynced, alive, progress, outcome, issued>>
    PROVE  IInv'
<1>0. TypeOK /\ down[c] \in Seq(Replies)
  BY DEF IInv, TypeOK
<1>1. PICK n \in Nat \ {0}, replies \in Seq(Replies), rest \in Seq(Replies), h \in Seq(Nat) :
           /\ replies = down[c] /\ n = Len(replies) /\ rest = Tail(replies) /\ h = Head(replies).results
           /\ h = replies[1].results /\ Len(rest) = n - 1 /\ \A i \in 1 .. n - 1 : rest[i] = replies[i + 1]
  <2>1. /\ Len(down[c]) \in Nat \ {0} /\ Tail(down[c]) \in Seq(Replies) /\ Len(Tail(down[c])) = Len(down[c]) - 1
        /\ \A i \in 1 .. Len(down[c]) - 1 : Tail(down[c])[i] = down[c][i + 1]
        /\ Head(down[c]) = down[c][1] /\ Head(down[c]) \in Replies
    BY <1>0, TailFacts
  <2>2. Head(down[c]).results \in Seq(Nat)
    BY <2>1 DEF Replies
  <2>3. QED
    BY <1>0, <2>1, <2>2, Zenon
<1>2. PICK out \in Seq(Nat), results \in Seq(Nat), l \in Nat \ {0} :
           out = outcome[id] /\ results = me.results /\ l = Len(r.ops)
  BY <1>0, RequestFacts, Zenon DEF TypeOK, ClientStates
<1>3. PICK new \in ClientStates :
           /\ new = Digest(me, h) /\ new.n = me.n /\ new.req = r /\ new.conn = c
           /\ new.pc \in {"receive", "push"}
           /\ r.type # "READ" => new.pc = "push"
           /\ r.type \in {"WRITE", "STATUS"} => new.results = h
           /\ r.type = "WRITE" /\ h = <<>> => ~new.ret
           /\ r.type = "READ" /\ h = <<>> => new.pc = "push" /\ new.results = results /\ ~new.ret
           /\ r.type = "READ" /\ h # <<>> =>
                 /\ new.results = results \o h
                 /\ new.pc = IF Len(results) + Len(h) < l THEN "receive" ELSE "push"
  <2>1. me.req \in Requests
    OBVIOUS
  <2>2. \E new \in ClientStates :
           /\ new = Digest(me, h) /\ new.n = me.n /\ new.req = me.req /\ new.conn = me.conn
           /\ new.pc \in {"receive", "push"}
           /\ me.req.type # "READ" => new.pc = "push"
           /\ me.req.type \in {"WRITE", "STATUS"} => new.results = h
           /\ me.req.type = "WRITE" /\ h = <<>> => ~new.ret
           /\ me.req.type = "READ" /\ h = <<>> =>
                 new.pc = "push" /\ new.results = me.results /\ ~new.ret
           /\ me.req.type = "READ" /\ h # <<>> =>
                 /\ new.results = me.results \o h
                 /\ new.pc = IF Len(me.results) + Len(h) < Len(me.req.ops) THEN "receive" ELSE "push"
    BY <2>1, DigestFacts, Zenon
  <2>3. r = me.req /\ c = me.conn /\ results = me.results /\ l = Len(me.req.ops)
    BY <1>2
  <2>4. QED
    BY <2>2, <2>3, Zenon
<1>4. client' = [client EXCEPT ![t] = new]
  BY <1>1, <1>3, Zenon
<1>5. client'[t] = new /\ \A u \in Threads : u # t => client'[u] = client[u]
  BY <1>0, <1>4 DEF TypeOK
<1>6. down'[c] = rest /\ \A d \in Connections : d # c => down'[d] = down[d]
  BY <1>0, <1>1 DEF TypeOK
<1>7. TypeOK'
  <2>1. client' \in [Threads -> ClientStates]
    BY <1>0, <1>4 DEF TypeOK
  <2>2. down' \in [Connections -> Seq(Replies)]
    BY <1>0, <1>1 DEF TypeOK
  <2>3. QED
    BY <1>0, <2>1, <2>2, Zenon DEF TypeOK
<1>8. /\ OwnAt(c, id)
      /\ r.type # "READ" => results = <<>> /\ PlainReply(c, id)
      /\ r.type = "READ" => \/ Refused(c, id) /\ results = <<>>
                            \/ alive /\ Whole(results, replies, Pending(c, id), out)
                            \/ ~alive /\ Parts(results, replies, out)
  BY <1>1, <1>2 DEF IInv, Tracked, TrackedFor
<1>9. progress[id] # "none"
  BY <1>8 DEF OwnAt
<1>10. Len(out) <= l /\ (progress[id] = "done" => Complete(id))
  <2>1. RecordedOf(id) /\ r # NULL
    BY RequestFacts DEF IInv, Recorded
  <2>2. QED
    BY <1>2, <2>1 DEF RecordedOf
<1>11. OwnAt(c, id)'
  <2>1. ASSUME NEW j \in 1 .. n - 1 PROVE rest[j].id = id
    <3>1. j + 1 \in 1 .. n
      OBVIOUS
    <3>2. \A k \in 1 .. n : replies[k].id = id
      BY <1>1, <1>8, Zenon DEF OwnAt
    <3>3. rest[j] = replies[j + 1]
      BY <1>1
    <3>4. QED
      BY <3>1, <3>2, <3>3, Zenon
  <2>2. \A j \in 1 .. Len(down'[c]) : down'[c][j].id = id
    BY <1>1, <1>6, <2>1, ZenonT(40)
  <2>3. QED
    BY <1>8, <1>9, <2>2, Zenon DEF OwnAt, Serving
<1>12. SUFFICES /\ TrackedFor(t)' /\ ReturnsFor(t)'
                /\ new.pc = "push" => rest = <<>> /\ (alive => progress[id] = "done")
  <2>1. ASSUME /\ TrackedFor(t)' /\ ReturnsFor(t)'
               /\ new.pc = "push" => rest = <<>> /\ (alive => progress[id] = "done")
        PROVE  IInv'
    <3>1. Receiving(t, c, id, r, new)
      BY <1>3, <1>5, <1>6, <1>7, <2>1, Zenon DEF Receiving
    <3>2. QED
      BY <3>1, ReceivingIInv
  <2>2. QED
    BY <2>1
<1>13. rest = <<>> <=> n = 1
  <2>1. rest = <<>> <=> Len(rest) = 0
    BY Elements
  <2>2. QED
    BY <1>1, <2>1, SMTT(40)
<1>14. <<t, client'[t].n>> = id /\ client'[t].req = r /\ client'[t].conn = c /\ client'[t].results = new.results
  BY <1>3, <1>5
<1>15. CASE r.type # "READ"
  <2>0. PlainReply(c, id) /\ replies # <<>>
    BY <1>1, <1>8, <1>15
  <2>a. Len(replies) <= 1 /\ progress[id] = "done" /\ replies[1].results = outcome[id]
    BY <1>1, <2>0 DEF PlainReply
  <2>b. n <= 1 /\ n \in Nat \ {0}
    BY <1>1, <2>a
  <2>c. n = 1
    BY <2>b
  <2>d. h = out
    BY <1>1, <1>2, <2>a
  <2>1. n = 1 /\ progress[id] = "done" /\ h = out
    BY <2>a, <2>c, <2>d
  <2>2. new.pc = "push"
    BY <1>3, <1>15
  <2>3. TrackedFor(t)'
    BY <1>5, <2>2 DEF TrackedFor
  <2>4. r.type = "WRITE" /\ new.ret => Len(out) = l
    BY <1>2, <1>3, <1>10, <2>1 DEF Complete
  <2>5. ASSUME r.type # "WRITE" PROVE Len(out) = l
    BY <1>2, <1>10, <1>15, <2>1, <2>5 DEF Complete, Transfers
  <2>6. ReturnsFor(t)'
    BY <1>2, <1>3, <1>5, <1>14, <1>15, <2>1, <2>4, <2>5, Zenon DEF ReturnsFor
  <2>7. QED
    BY <1>13, <2>1, <2>3, <2>6
<1>16. CASE r.type = "READ" /\ h = <<>>
  <2>1. ~Whole(results, replies, Pending(c, id), out) \/ ~alive
    <3>1. SUFFICES ASSUME alive, Whole(results, replies, Pending(c, id), out) PROVE FALSE
      OBVIOUS
    <3>2. Pending(c, id) \in Seq(Nat)
      <4>1. <<>> \in Seq(Nat)
        OBVIOUS
      <4>2. server[c].reply \in Seq(Nat)
        BY <1>0 DEF TypeOK, ServerStates
      <4>3. QED
        BY <4>1, <4>2, Zenon DEF Pending
    <3>3. replies # <<>>
      BY <1>1
    <3>4. QED
      BY <1>1, <1>16, <3>1, <3>2, <3>3, WholeTake
  <2>2. ~Parts(results, replies, out)
    <3>1. replies # <<>>
      BY <1>1
    <3>2. QED
      BY <1>1, <1>16, <3>1, PartsTake
  <2>3. Refused(c, id) /\ results = <<>>
    BY <1>8, <1>16, <2>1, <2>2
  <2>4. n = 1 /\ progress[id] = "done" /\ out = <<>>
    BY <1>1, <1>2, <2>3 DEF Refused
  <2>5. new.pc = "push" /\ new.results = out /\ ~new.ret
    BY <1>3, <1>16, <2>3, <2>4
  <2>6. TrackedFor(t)' /\ ReturnsFor(t)'
    BY <1>2, <1>5, <1>14, <1>16, <2>5, Zenon DEF TrackedFor, ReturnsFor
  <2>7. QED
    BY <1>13, <2>4, <2>6

<1>17. CASE r.type = "READ" /\ h # <<>>
  <2>1. PICK all \in Seq(Nat), a \in Nat, m \in Nat, b \in Nat :
             all = results \o h /\ a = Len(all) /\ m = Len(out) /\ b = Len(results) + Len(h) /\ a = b
    <3>1. /\ results \o h \in Seq(Nat) /\ Len(results \o h) = Len(results) + Len(h)
          /\ Len(results) \in Nat /\ Len(h) \in Nat /\ Len(out) \in Nat
      BY ConcatFacts, LenProperties
    <3>2. Len(results) + Len(h) \in Nat
      BY <3>1
    <3>3. QED
      BY <3>1, <3>2, Zenon
  <2>2. new.results = all /\ new.pc = IF a < l THEN "receive" ELSE "push"
    BY <1>3, <1>17, <2>1, Zenon
  <2>3. ~Refused(c, id) /\ replies # <<>>
    BY <1>1, <1>17, Zenon DEF Refused
  <2>4. CASE alive
    <3>1. PICK pending \in Seq(Nat) : pending = Pending(c, id)
      <4>1. <<>> \in Seq(Nat)
        OBVIOUS
      <4>2. server[c].reply \in Seq(Nat)
        BY <1>0 DEF TypeOK, ServerStates
      <4>3. QED
        BY <4>1, <4>2, Zenon DEF Pending
    <3>2. Whole(results, replies, pending, out)
      BY <1>8, <1>17, <2>3, <2>4, <3>1
    <3>3. /\ Len(results \o h) <= Len(out)
          /\ Len(results \o h) = Len(out) => Len(replies) = 1 /\ results \o h = out /\ pending = <<>>
          /\ Whole(results \o h, rest, pending, out)
      <4>0. replies # <<>>
        BY <2>3
      <4>1. LET g == Head(replies).results IN
            /\ g \in Seq(Nat) /\ g # <<>> /\ results \o g \in Seq(Nat)
            /\ Len(results \o g) <= Len(out)
            /\ Len(results \o g) = Len(out) => Len(replies) = 1 /\ results \o g = out /\ pending = <<>>
            /\ Whole(results \o g, Tail(replies), pending, out)
        BY <4>0, <3>2, WholeTake, Zenon
      <4>2. QED
        BY <1>1, <4>1, Zenon
    <3>4. a <= m /\ (a = m => n = 1 /\ all = out /\ pending = <<>>) /\ Whole(all, rest, pending, out)
      BY <1>1, <2>1, <3>3, Zenon
    <3>5. m <= l
      BY <1>10, <2>1
    <3>6. CASE a < l
      <4>1. new.pc = "receive"
        BY <2>2, <3>6
      <4>2. Pending(c, id)' = pending
        BY <3>1 DEF Pending, Serving
      <4>3. Whole(new.results, down'[c], Pending(c, id)', outcome'[id])
        BY <1>2, <1>6, <2>2, <3>4, <4>2, Zenon
      <4>4. TrackedFor(t)'
        BY <1>11, <1>14, <1>17, <2>4, <4>3, Zenon DEF TrackedFor
      <4>5. ReturnsFor(t)'
        BY <1>5, <4>1, Zenon DEF ReturnsFor
      <4>6. QED
        BY <4>1, <4>4, <4>5
    <3>7. CASE ~(a < l)
      <4>1. a = m /\ m = l
        BY <3>4, <3>5, <3>7
      <4>2. new.pc = "push" /\ n = 1 /\ new.results = out /\ pending = <<>>
        BY <2>2, <3>4, <3>7, <4>1
      <4>3. out # <<>>
        BY <1>2, <2>1, <4>1, Zenon
      <4>4. progress[id] = "done"
        <5>1. SUFFICES ASSUME progress[id] = "started" PROVE FALSE
          BY <1>0, <1>9 DEF TypeOK
        <5>2. Serving(c, id)
          BY <1>8, <2>4, <5>1 DEF OwnAt
        <5>3. server[c].reply = <<>>
          BY <3>1, <4>2, <5>2 DEF Pending
        <5>a. server[c].msg # NULL /\ server[c].msg.id = id
          BY <5>2 DEF Serving
        <5>b. issued[server[c].msg.id] = server[c].msg.req
          BY <5>a, ServerFacts, Zenon DEF IInv
        <5>4. server[c].msg # NULL /\ ServerReplies(server[c].msg.req)
          BY <5>a, <5>b
        <5>5. Answers(server[c], out)
          BY <1>2, <5>2, <5>4, Zenon DEF Serving, IInv, Works, WorksAt, Answering
        <5>6. QED
          BY <4>3, <5>3, <5>5 DEF Answers
      <4>5. TrackedFor(t)'
        BY <1>5, <4>2, Zenon DEF TrackedFor
      <4>6. ReturnsFor(t)'
        BY <1>2, <1>14, <2>1, <4>1, <4>2, <4>4, Zenon DEF ReturnsFor
      <4>7. QED
        BY <1>13, <4>2, <4>4, <4>5, <4>6
    <3>8. QED
      BY <3>6, <3>7
  <2>5. CASE ~alive
    <3>1. Parts(results, replies, out)
      BY <1>8, <1>17, <2>3, <2>5
    <3>2. /\ Len(results \o h) <= Len(out)
          /\ Len(results \o h) = Len(out) => Len(replies) = 1
          /\ Parts(results \o h, rest, out)
      <4>1. LET g == Head(replies).results IN
            /\ Len(results \o g) <= Len(out)
            /\ Len(results \o g) = Len(out) => Len(replies) = 1
            /\ Parts(results \o g, Tail(replies), out)
        BY <2>3, <3>1, PartsTake
      <4>2. QED
        BY <1>1, <4>1, Zenon
    <3>3. a <= m /\ (a = m => n = 1) /\ Parts(all, rest, out)
      BY <1>1, <2>1, <3>2, Zenon
    <3>4. m <= l
      BY <1>10, <2>1
    <3>5. new.pc = "push" => n = 1
      BY <2>2, <3>3, <3>4
    <3>6. TrackedFor(t)'
      BY <1>2, <1>6, <1>11, <1>14, <1>17, <2>2, <2>5, <3>3, Zenon DEF TrackedFor
    <3>7. ReturnsFor(t)'
      BY <1>14, <1>17, <2>5, Zenon DEF ReturnsFor
    <3>8. QED
      BY <1>13, <2>5, <3>5, <3>6, <3>7
  <2>6. QED
    BY <2>4, <2>5
<1>18. QED
  BY <1>15, <1>16, <1>17

LEMMA ReceiveIInv == ASSUME IInv, NEW t \in Threads, Receive(t) PROVE IInv'
<1>1. PICK me \in ClientStates, c \in Connections, id \in Ids, r \in Requests :
           /\ me = client[t] /\ me.pc = "receive" /\ c = me.conn /\ id = <<t, me.n>> /\ r = me.req
           /\ issued[id] = r /\ ServerReplies(r)
  <2>1. client[t].pc = "receive" /\ client[t].pc # "idle"
    BY DEF Receive
  <2>2. ServerReplies(client[t].req)
    BY <2>1, Zenon DEF IInv, Placed, PlacedFor
  <2>3. QED
    BY <2>1, <2>2, ClientFacts, Zenon DEF IInv
<1>2. UNCHANGED <<idle, fresh, up, server, exists, size, unsynced, alive, progress, outcome, issued>>
  BY DEF Receive, pool, backend, history
<1>3. \/ /\ down[c] # <<>>
         /\ client' = [client EXCEPT ![t] = Digest(@, Head(down[c]).results)]
         /\ down' = [down EXCEPT ![c] = Tail(@)]
      \/ /\ down[c] = <<>> /\ ~alive
         /\ client' = [client EXCEPT ![t] = Miss(@)]
         /\ down' = down
  BY <1>1 DEF Receive
<1>4. CASE down[c] # <<>>
  <2>1. client' = [client EXCEPT ![t] = Digest(me, Head(down[c]).results)]
    BY <1>1, <1>3, <1>4
  <2>2. down' = [down EXCEPT ![c] = Tail(@)]
    BY <1>3, <1>4
  <2>3. QED
    BY <1>1, <1>2, <1>4, <2>1, <2>2, TakesReply, Zenon
<1>5. CASE down[c] = <<>> /\ ~alive /\ client' = [client EXCEPT ![t] = Miss(@)] /\ down' = down
  <2>1. me.req \in Requests
    BY <1>1
  <2>2. PICK results \in Seq(Nat) : Miss(me) = Digest(me, results) /\ (me.req.type = "WRITE" => results = <<>>)
    BY <2>1, MissFacts
  <2>3. PICK new \in ClientStates :
             /\ new = Digest(me, results) /\ new.n = me.n /\ new.req = me.req /\ new.conn = me.conn
             /\ new.pc \in {"receive", "push"}
             /\ me.req.type # "READ" => new.pc = "push"
             /\ me.req.type = "WRITE" /\ results = <<>> => ~new.ret
    BY <2>1, DigestFacts
  <2>4. client' = [client EXCEPT ![t] = new]
    BY <1>1, <1>5, <2>2, <2>3
  <2>5. client'[t] = new /\ \A u \in Threads : u # t => client'[u] = client[u]
    BY <2>4 DEF IInv, TypeOK
  <2>6. TypeOK'
    <3>1. client' \in [Threads -> ClientStates]
      BY <2>4 DEF IInv, TypeOK
    <3>2. QED
      BY <1>2, <1>5, <3>1, Zenon DEF IInv, TypeOK
  <2>7. OwnAt(c, id)
    BY <1>1 DEF IInv, Tracked, TrackedFor
  <2>8. OwnAt(c, id)'
    BY <1>2, <1>5, <2>7 DEF OwnAt, Serving
  <2>9. TrackedFor(t)'
    BY <1>1, <1>2, <1>5, <2>3, <2>5, <2>8, Zenon DEF TrackedFor
  <2>10. ReturnsFor(t)'
    BY <1>1, <1>2, <1>5, <2>2, <2>3, <2>5 DEF ReturnsFor
  <2>11. Receiving(t, c, id, r, new)
    BY <1>1, <1>2, <1>5, <2>3, <2>5, <2>6, <2>9, <2>10 DEF Receiving
  <2>12. QED
    BY <2>11, ReceivingIInv
<1>6. QED
  BY <1>3, <1>4, <1>5

-----------------------------------------------------------------------------
(* The invariant.                                                          *)

LEMMA InitIInv == ASSUME Init PROVE IInv
<1>1. Listening \in ServerStates /\ Resting \in ClientStates
  <2>1. <<>> \in Seq(Nat) /\ 0 \in Nat /\ 0 \in 0 .. MaxRequests
    BY ProtocolAssumption
  <2>2. PICK none \in Seq(Nat) : none = <<>>
    BY <2>1, Zenon
  <2>3. Resting = [pc |-> "idle", n |-> 0, req |-> NULL, conn |-> NULL, results |-> none, last |-> 0, ret |-> TRUE]
    BY <2>2, Zenon DEF Resting
  <2>4. Resting \in ClientStates
    BY <2>1, <2>3 DEF ClientStates
  <2>5. QED
    BY <2>4, EmptyTypes
<1>2. TypeOK
  <2>1. PICK none \in Seq(Items), nothing \in Seq(Replies), zero \in Seq(Nat), free \in Seq(Connections) :
             none = <<>> /\ nothing = <<>> /\ zero = <<>> /\ free = <<>>
    <3>1. <<>> \in Seq(Items) /\ <<>> \in Seq(Replies) /\ <<>> \in Seq(Nat) /\ <<>> \in Seq(Connections)
      OBVIOUS
    <3>2. QED
      BY <3>1, Zenon
  <2>2. /\ up = [c \in Connections |-> none] /\ down = [c \in Connections |-> nothing]
        /\ outcome = [id \in Ids |-> zero] /\ idle = free
    BY <2>1, Zenon DEF Init
  <2>3. up \in [Connections -> Seq(Items)] /\ down \in [Connections -> Seq(Replies)]
    BY <2>2
  <2>4. outcome \in [Ids -> Seq(Nat)] /\ idle \in Seq(Connections)
    BY <2>2
  <2>5. client \in [Threads -> ClientStates] /\ server \in [Connections -> ServerStates]
    BY <1>1 DEF Init
  <2>6. /\ exists \in [Objects -> BOOLEAN] /\ size \in [Objects -> Nat] /\ unsynced \in [Objects -> SUBSET Ids]
        /\ progress \in [Ids -> {"none", "started", "done"}] /\ issued \in [Ids -> Requests \cup {NULL}]
        /\ alive \in BOOLEAN /\ fresh \subseteq Connections
    BY DEF Init
  <2>7. QED
    BY <2>3, <2>4, <2>5, <2>6 DEF TypeOK
<1>3. /\ \A c \in Connections : up[c] = <<>> /\ down[c] = <<>> /\ server[c] = Listening /\ server[c].msg = NULL
                                /\ server[c].pc = "receive"
      /\ \A t \in Threads : client[t].pc = "idle" /\ client[t].n = 0 /\ client[t].conn = NULL
      /\ \A id \in Ids : progress[id] = "none" /\ outcome[id] = <<>> /\ issued[id] = NULL
      /\ \A o \in Objects : unsynced[o] = {}
      /\ idle = <<>> /\ alive
  BY DEF Init, Listening, Resting
<1>4. Len(<<>>) = 0 /\ \A k : k \notin 1 .. 0
  OBVIOUS
<1>5. Placed
  <2>1. \A t \in Threads : \A m \in 1 .. MaxRequests : <<t, m>> \in Ids
    BY DEF Ids
  <2>2. QED
    BY <1>3, <2>1 DEF Placed, PlacedFor
<1>6. Apart
  <2>1. \A i : i \notin 1 .. Len(idle)
    BY <1>3, <1>4
  <2>2. NULL \notin fresh
    BY ProtocolAssumption DEF Init
  <2>3. QED
    BY <1>3, <2>1, <2>2 DEF Apart
<1>7. Dead
  BY <1>3 DEF Dead
<1>8. Framed /\ Travels
  <2>1. \A c \in Connections : \A k : k \notin 1 .. Len(up[c])
    BY <1>3, <1>4
  <2>2. \A c \in Connections : Left(server[c]) = 0
    BY <1>3 DEF Left
  <2>3. QED
    BY <1>4, <2>1, <2>2 DEF Framed, Frames, Travels
<1>9. Works
  BY <1>3 DEF Works, WorksAt
<1>10. Quiet
  <2>1. \A c \in Connections : \A k : k \notin 1 .. Len(up[c])
    BY <1>3, <1>4
  <2>2. QED
    BY <1>3, <2>1 DEF Quiet, QuietAt, Silent
<1>11. Tracked /\ Returns
  BY <1>3 DEF Tracked, TrackedFor, Returns, ReturnsFor
<1>12. Recorded
  BY <1>3 DEF Recorded, RecordedOf, Synced
<1>13. Ordered
  <2>1. SUFFICES ASSUME NEW t \in Threads, NEW m \in 1 .. MaxRequests, Past(t, m) PROVE FALSE
    BY DEF Ordered
  <2>2. m < 0 \/ m = 0
    BY <1>3, <2>1 DEF Past
  <2>3. QED
    BY <2>2
<1>14. ConfirmedInOrder
  <2>1. SUFFICES ASSUME NEW t \in Threads, NEW n \in 1 .. MaxRequests - 1, progress[<<t, n + 1>>] # "none" PROVE FALSE
    BY DEF ConfirmedInOrder
  <2>2. n + 1 \in 1 .. MaxRequests
    BY ProtocolAssumption
  <2>3. <<t, n + 1>> \in Ids
    BY <2>2 DEF Ids
  <2>4. QED
    BY <1>3, <2>1, <2>3
<1>15. QED
  BY <1>2, <1>5, <1>6, <1>7, <1>8, <1>9, <1>10, <1>11, <1>12, <1>13, <1>14 DEF IInv

LEMMA StutterIInv == ASSUME IInv, UNCHANGED vars PROVE IInv'
<1>1. UNCHANGED <<idle, fresh, up, down, client, server, exists, size, unsynced, alive, progress, outcome, issued>>
  BY DEF vars
<1>2. TypeOK' /\ Placed' /\ Apart' /\ Dead' /\ Framed'
  BY <1>1 DEF IInv, TypeOK, Placed, PlacedFor, Apart, Dead, Framed
<1>3. Travels' /\ Works'
  <2>1. Travels'
    BY <1>1 DEF IInv, Travels, Travel, Sent
  <2>2. ASSUME NEW c \in Connections PROVE WorksAt(c)'
    <3>1. WorksAt(c)
      BY DEF IInv, Works
    <3>2. Answering(c) => Answering(c)'
      BY <1>1 DEF Answering, Synced
    <3>3. QED
      BY <1>1, <3>1, <3>2 DEF WorksAt
  <2>3. QED
    BY <2>1, <2>2 DEF Works
<1>4. Quiet'
  BY <1>1 DEF IInv, Quiet, QuietAt, Waits
<1>5. Tracked'
  <2>1. ASSUME NEW t \in Threads PROVE TrackedFor(t)'
    <3>1. TrackedFor(t)
      BY DEF IInv, Tracked
    <3>2. QED
      BY <1>1, <3>1 DEF TrackedFor, OwnAt, Serving, PlainReply, Refused, Pending
  <2>2. QED
    BY <2>1 DEF Tracked
<1>6. Recorded' /\ Ordered' /\ Returns' /\ ConfirmedInOrder'
  BY <1>1 DEF IInv, Recorded, RecordedOf, Synced, Complete, Ordered, Past, Returns, ReturnsFor, ConfirmedInOrder
<1>7. QED
  BY <1>2, <1>3, <1>4, <1>5, <1>6 DEF IInv

LEMMA NextIInv == ASSUME IInv, [Next]_vars PROVE IInv'
<1>1. ASSUME NEW t \in Threads, ClientStep(t) PROVE IInv'
  <2>1. ASSUME NEW r \in Requests,
               \/ CreateExec(t, r) \/ DeleteExec(t, r) \/ ReadExec(t, r)
               \/ WriteExec(t, r) \/ StatusExec(t, r) \/ SyncExec(t, r)
        PROVE  IInv'
    BY <2>1, ExecIInv
  <2>2. CASE PopConnection(t)
    BY <2>2, PopIInv
  <2>3. CASE Send(t)
    BY <2>3, SendIInv
  <2>4. CASE Receive(t)
    BY <2>4, ReceiveIInv
  <2>5. CASE PushConnection(t)
    BY <2>5, PushIInv
  <2>6. QED
    BY <1>1, <2>1, <2>2, <2>3, <2>4, <2>5 DEF ClientStep
<1>2. ASSUME NEW c \in Connections, ServerStep(c) PROVE IInv'
  <2>1. CASE ServerReceive(c)
    BY <2>1, ServerReceiveIInv
  <2>2. CASE Open(c)
    BY <2>2, OpenIInv
  <2>3. CASE Create(c)
    BY <2>3, CreateIInv
  <2>4. CASE CreateOp(c)
    BY <2>4, CreateOpIInv
  <2>5. CASE DeleteOp(c)
    BY <2>5, DeleteOpIInv
  <2>6. CASE StatusOp(c)
    BY <2>6, StatusOpIInv
  <2>7. CASE SyncOp(c)
    BY <2>7, SyncOpIInv
  <2>8. CASE ReadOp(c)
    BY <2>8, ReadOpIInv
  <2>9. CASE WriteOp(c)
    BY <2>9, WriteOpIInv
  <2>10. CASE WriteAborts(c)
    BY <2>10, WriteAbortsIInv
  <2>11. CASE Finish(c)
    BY <2>11, FinishIInv
  <2>12. QED
    BY <1>2, <2>1, <2>2, <2>3, <2>4, <2>5, <2>6, <2>7, <2>8, <2>9, <2>10, <2>11 DEF ServerStep
<1>3. CASE Crash
  BY <1>3, CrashIInv
<1>4. CASE Terminated \/ UNCHANGED vars
  BY <1>4, StutterIInv DEF Terminated
<1>5. QED
  BY <1>1, <1>2, <1>3, <1>4 DEF Next

(* The invariant holds always: the messages of the exec functions, the     *)
(* server threads' states, the replies and what both sides remember of     *)
(* them fit together.                                                      *)
THEOREM Invariance == Spec => []IInv
<1>1. Init => IInv
  BY InitIInv
<1>2. IInv /\ [Next]_vars => IInv'
  BY NextIInv
<1>3. QED
  BY <1>1, <1>2, PTL DEF Spec

(* j_message_read never meets the reply to another message, and what       *)
(* j_connection_pool_push puts back has no reply on it or on its way.      *)
THEOREM RepliesFound == Spec => []RepliesFindTheirRequests
<1>1. ASSUME IInv PROVE RepliesFindTheirRequests
  <2>1. ASSUME NEW t \in Threads, client[t].pc = "receive", down[client[t].conn] # <<>>
        PROVE  Head(down[client[t].conn]).id = IdOf(t)
    <3>1. PICK c \in Connections : c = client[t].conn /\ down[c] \in Seq(Replies)
      BY <1>1, <2>1, ClientFacts, Zenon DEF IInv
    <3>2. OwnAt(c, <<t, client[t].n>>)
      BY <1>1, <2>1, <3>1 DEF IInv, Tracked, TrackedFor
    <3>3. Len(down[c]) \in Nat \ {0} /\ Head(down[c]) = down[c][1]
      BY <2>1, <3>1, TailFacts
    <3>4. 1 \in 1 .. Len(down[c])
      BY <3>3
    <3>5. QED
      BY <3>1, <3>2, <3>3, <3>4 DEF OwnAt, IdOf
  <2>2. ASSUME NEW c \in Connections, \A t \in Threads : client[t].conn # c
        PROVE  /\ down[c] = <<>>
               /\ server[c].msg # NULL => ~ServerReplies(server[c].msg.req)
               /\ \A i \in DOMAIN up[c] : up[c][i].kind = "header" => ~ServerReplies(up[c][i].req)
    <3>1. QuietAt(c)
      BY <1>1, <2>2 DEF IInv, Quiet, Waits
    <3>2. DOMAIN up[c] = 1 .. Len(up[c])
      BY <1>1, LenProperties DEF IInv, TypeOK
    <3>3. QED
      BY <3>1, <3>2 DEF QuietAt, Silent, ReplyingAt, HeaderAt
  <2>3. QED
    BY <2>1, <2>2 DEF RepliesFindTheirRequests
<1>2. QED
  BY <1>1, Invariance, PTL

(* bytes_read, bytes_written and the sizes of a batch are the server's,    *)
(* however many replies they came in, and what the exec functions confirm  *)
(* was performed and, with storage persistency, synced.                    *)
THEOREM ResultsFound == Spec => []ResultsAreTheServers
<1>1. ASSUME IInv PROVE ResultsAreTheServers
  <2>1. SUFFICES ASSUME NEW t \in Threads
                 PROVE  /\ Confirmed(t) /\ (alive \/ client[t].req.type = "WRITE") => Performed(t)
                        /\ /\ alive /\ client[t].pc = "push" /\ ServerReplies(client[t].req)
                           /\ client[t].req.type \in {"READ", "WRITE", "STATUS"}
                           => client[t].results = outcome[IdOf(t)]
    BY DEF ResultsAreTheServers
  <2>2. ReturnsFor(t)
    BY <1>1 DEF IInv, Returns
  <2>3. ASSUME Confirmed(t), alive \/ client[t].req.type = "WRITE" PROVE Performed(t)
    <3>1. PICK id \in Ids, r \in Requests : id = <<t, client[t].n>> /\ r = client[t].req /\ issued[id] = r
      BY <1>1, <2>3, ClientFacts, Zenon DEF IInv, Confirmed
    <3>2. progress[id] = "done" /\ Len(outcome[id]) = Len(r.ops)
      BY <2>2, <2>3, <3>1 DEF ReturnsFor, Confirmed
    <3>3. RecordedOf(id) /\ r # NULL
      BY <1>1, RequestFacts DEF IInv, Recorded
    <3>4. r.persistency = "STORAGE" => Synced(id)
      BY <3>1, <3>2, <3>3 DEF RecordedOf
    <3>5. QED
      BY <3>1, <3>2, <3>4 DEF Performed, IdOf, Synced
  <2>4. QED
    BY <2>2, <2>3 DEF ReturnsFor, IdOf
<1>2. QED
  BY <1>1, Invariance, PTL

(* The server begins with a request of a thread after it is done with the  *)
(* one before, if that one was answered.                                   *)
THEOREM InOrder == Spec => []ConfirmedInOrder
<1>1. IInv => ConfirmedInOrder
  BY DEF IInv
<1>2. QED
  BY <1>1, Invariance, PTL

-----------------------------------------------------------------------------
(* The stream.                                                             *)

(* A step leaves the streams aligned if it does so for the connection it   *)
(* works at.                                                               *)
LEMMA AlignedAt ==
    ASSUME Aligned, NEW c \in Connections,
           \A d \in Connections : d # c => up'[d] = up[d] /\ Left(server'[d]) = Left(server[d]),
           Aligns(up'[c], Left(server'[c]))
    PROVE  Aligned'
<1>1. ASSUME NEW d \in Connections PROVE Aligns(up'[d], Left(server'[d]))
  <2>1. CASE d = c
    BY <2>1
  <2>2. CASE d # c
    <3>1. Aligns(up[d], Left(server[d]))
      BY DEF Aligned
    <3>2. QED
      BY <2>2, <3>1, Zenon
  <2>3. QED
    BY <2>1, <2>2
<1>2. QED
  BY <1>1 DEF Aligned

LEMMA AlignedSame ==
    ASSUME Aligned, up' = up, \A c \in Connections : Left(server'[c]) = Left(server[c])
    PROVE  Aligned'
<1>1. ASSUME NEW c \in Connections PROVE Aligns(up[c], Left(server'[c]))
  <2>1. Aligns(up[c], Left(server[c]))
    BY DEF Aligned
  <2>2. QED
    BY <2>1, Zenon
<1>2. QED
  BY <1>1 DEF Aligned

(* The server thread of c goes over to a state that takes as much.         *)
LEMMA AlignedStep ==
    ASSUME IInv, Aligned, up' = up, NEW c \in Connections, NEW new, server' = [server EXCEPT ![c] = new],
           Left(new) = Left(server[c])
    PROVE  Aligned'
<1>1. ASSUME NEW d \in Connections PROVE Left(server'[d]) = Left(server[d])
  <2>1. server'[d] = IF d = c THEN new ELSE server[d]
    BY DEF IInv, TypeOK
  <2>2. CASE d = c
    BY <2>1, <2>2, Zenon
  <2>3. CASE d # c
    BY <2>1, <2>3, Zenon
  <2>4. QED
    BY <2>2, <2>3
<1>2. QED
  BY <1>1, AlignedSame

LEMMA SendAligned == ASSUME IInv, Aligned, NEW t \in Threads, Send(t) PROVE Aligned'
<1>1. PICK me \in ClientStates, new \in ClientStates, c \in Connections, id \in Ids, r \in Requests :
           Sending(t, me, c, id, r, new)
  BY SendFacts
<1>2. /\ alive => up'[c] = up[c] \o Written(id, r)
      /\ ~alive => up'[c] = up[c]
      /\ \A d \in Connections : d # c => up'[d] = up[d]
      /\ server' = server
  BY <1>1, Zenon DEF Sending
<1>3. PICK left \in Nat : left = Left(server[c])
  BY LeftIsNat DEF IInv
<1>4. Frames(up[c], left) /\ Aligns(up[c], left) /\ up[c] \in Seq(Items)
  BY <1>3 DEF IInv, Framed, Aligned, TypeOK
<1>5. Aligns(up[c] \o Written(id, r), left)
  BY <1>4, AlignsWritten
<1>6. Aligns(up'[c], Left(server'[c]))
  <2>1. CASE alive
    BY <1>2, <1>3, <1>5, <2>1, Zenon
  <2>2. CASE ~alive
    BY <1>2, <1>3, <1>4, <2>2, Zenon
  <2>3. QED
    BY <2>1, <2>2
<1>7. QED
  BY <1>2, <1>6, AlignedAt

LEMMA ReceiveAligned == ASSUME IInv, Aligned, NEW c \in Connections, ServerReceive(c) PROVE Aligned'
<1>1. PICK h \in Headers :
        /\ h = Head(up[c]) /\ h.req \in Requests /\ up[c] # <<>> /\ server[c] = Listening /\ up[c] \in Seq(Items)
        /\ server' = [server EXCEPT ![c] = [Listening EXCEPT !.pc = "open", !.msg = h]]
        /\ up' = [up EXCEPT ![c] = Tail(@)]
  BY ReceiveFacts, Zenon
<1>2. TypeOK
  BY DEF IInv
<1>3. /\ up'[c] = Tail(up[c]) /\ \A d \in Connections : d # c => up'[d] = up[d] /\ server'[d] = server[d]
      /\ server'[c].msg = h /\ server'[c].pc = "open" /\ server'[c].i = 1
  BY <1>1, <1>2 DEF TypeOK, Listening
<1>4. Left(server'[c]) = Size(h.req)
  <2>1. PICK z \in Nat : z = Len(h.req.ops)
    BY <1>1, RequestFacts, Zenon
  <2>2. z - 1 + 1 = z
    OBVIOUS
  <2>3. h # NULL
    BY ProtocolAssumption
  <2>4. QED
    BY <1>3, <2>1, <2>2, <2>3 DEF Left, Size
<1>5. Aligns(up[c], 0)
  <2>1. Left(server[c]) = 0
    BY <1>1 DEF Left, Listening
  <2>2. QED
    BY <2>1 DEF Aligned
<1>6. Head(up[c]).kind = "header"
  BY DEF ServerReceive
<1>7. Aligns(Tail(up[c]), Size(Head(up[c]).req))
  BY <1>1, <1>5, <1>6, AlignsHeader, Zenon
<1>8. Aligns(up'[c], Left(server'[c]))
  BY <1>1, <1>3, <1>4, <1>7, Zenon
<1>9. QED
  BY <1>3, <1>8, AlignedAt

(* What the server does for other requests than writes.                    *)
LEMMA AlignedElse ==
    ASSUME Aligned, up' = up, NEW c \in Connections,
           \A d \in Connections : d # c => server'[d] = server[d],
           server'[c].msg = server[c].msg, server[c].msg.req.type # "WRITE"
    PROVE  Aligned'
<1>1. Left(server'[c]) = 0 /\ Left(server[c]) = 0
  BY DEF Left
<1>2. \A d \in Connections : Left(server'[d]) = Left(server[d])
  BY <1>1
<1>3. QED
  BY <1>2, AlignedSame

LEMMA OpAligned ==
    ASSUME IInv, Aligned, NEW c \in Connections, NEW new, NEW x,
           new.msg = server[c].msg, Done(c, new, x), server[c].msg.req.type # "WRITE", up' = up,
           new \in ServerStates
    PROVE  Aligned'
<1>2. server \in [Connections -> ServerStates]
  BY DEF IInv, TypeOK
<1>3. \A d \in Connections : d # c => server'[d] = server[d]
  BY <1>2 DEF Done
<1>4. server'[c].msg = server[c].msg
  BY <1>2 DEF Done, ServerStates
<1>5. QED
  BY <1>3, <1>4, AlignedElse

LEMMA PlainAligned ==
    ASSUME IInv, Aligned, NEW c \in Connections,
           \/ CreateOp(c) \/ DeleteOp(c) \/ StatusOp(c) \/ SyncOp(c) \/ ReadOp(c)
    PROVE  Aligned'
<1>1. server[c] \in ServerStates /\ server \in [Connections -> ServerStates]
  BY DEF IInv, TypeOK
<1>2. PICK closed \in ServerStates : closed = [server[c] EXCEPT !.file = FALSE] /\ closed.msg = server[c].msg
  <2>1. PICK me \in ServerStates : me = server[c]
    BY <1>1
  <2>2. [me EXCEPT !.file = FALSE] \in ServerStates /\ [me EXCEPT !.file = FALSE].msg = me.msg
    BY Zenon DEF ServerStates
  <2>3. QED
    BY <2>1, <2>2, Zenon
<1>3. CASE CreateOp(c)
  <2>1. Done(c, closed, 0) /\ up' = up /\ server[c].msg.req.type # "WRITE"
    BY <1>2, <1>3 DEF CreateOp
  <2>2. QED
    BY <1>2, <2>1, OpAligned, Zenon
<1>4. CASE DeleteOp(c)
  <2>1. (\E x \in {0, 1} : Done(c, closed, x)) /\ up' = up /\ server[c].msg.req.type # "WRITE"
    BY <1>2, <1>4 DEF DeleteOp
  <2>2. QED
    BY <1>2, <2>1, OpAligned, Zenon
<1>5. CASE StatusOp(c)
  <2>1. PICK x : x = IF server[c].file THEN size[server[c].msg.req.object] ELSE 0
    OBVIOUS
  <2>2. Done(c, closed, x) /\ up' = up /\ server[c].msg.req.type # "WRITE"
    BY <1>2, <1>5, <2>1 DEF StatusOp
  <2>3. QED
    BY <1>2, <2>2, OpAligned, Zenon
<1>6. CASE SyncOp(c)
  <2>1. Done(c, closed, 0) /\ up' = up /\ server[c].msg.req.type # "WRITE"
    BY <1>2, <1>6 DEF SyncOp
  <2>2. QED
    BY <1>2, <2>1, OpAligned, Zenon
<1>7. CASE ReadOp(c)
  <2>1. up' = up /\ server[c].msg.req.type # "WRITE"
    BY <1>7, Zenon DEF ReadOp
  <2>2. /\ server'[c].msg = server[c].msg
        /\ \A d \in Connections : d # c => server'[d] = server[d]
    <3>1. PICK me \in ServerStates : me = server[c]
      BY <1>1
    <3>2. ASSUME NEW new, NEW x, new.msg = me.msg, Done(c, new, x)
          PROVE  server'[c].msg = me.msg /\ \A d \in Connections : d # c => server'[d] = server[d]
      <4>1. server'[c].msg = new.msg /\ \A d \in Connections : d # c => server'[d] = server[d]
        BY <1>1, <3>2 DEF Done
      <4>2. QED
        BY <3>2, <4>1
    <3> DEFINE op == me.msg.req.ops[me.i]
    <3>3. PICK l : l = op.length
      OBVIOUS
    <3>4. \/ server' = [server EXCEPT ![c].pc = "finish"]
          \/ Done(c, me, 0)
          \/ Done(c, IF ChunkFull(me, l) THEN [me EXCEPT !.reply = <<>>, !.used = l]
                     ELSE [me EXCEPT !.used = @ + l], BytesRead(me.msg.req.object, op))
      BY <1>7, <3>1, <3>3, Zenon DEF ReadOp
    <3> HIDE DEF op
    <3>5. [me EXCEPT !.reply = <<>>, !.used = l].msg = me.msg /\ [me EXCEPT !.used = @ + l].msg = me.msg
      BY DEF ServerStates
    <3>6. CASE server' = [server EXCEPT ![c].pc = "finish"]
      BY <1>1, <3>6 DEF ServerStates
    <3>7. CASE Done(c, me, 0)
      BY <3>1, <3>2, <3>7
    <3>8. PICK next : next = IF ChunkFull(me, l) THEN [me EXCEPT !.reply = <<>>, !.used = l]
                             ELSE [me EXCEPT !.used = @ + l]
      BY Zenon
    <3>9. next.msg = me.msg
      BY <3>5, <3>8
    <3>10. CASE Done(c, next, BytesRead(me.msg.req.object, op))
      BY <3>1, <3>2, <3>9, <3>10
    <3>11. QED
      BY <3>4, <3>6, <3>7, <3>8, <3>10
  <2>3. QED
    BY <2>1, <2>2, AlignedElse
<1>8. QED
  BY <1>3, <1>4, <1>5, <1>6, <1>7

(* A write that fits into the chunk takes its data, open or not.           *)
LEMMA WriteAligned == ASSUME IInv, Aligned, Fits, NEW c \in Connections, WriteOp(c) PROVE Aligned'
<1>1. alive /\ server[c].pc = "op" /\ server[c].msg.req.type = "WRITE"
  BY Zenon DEF WriteOp
<1>2. PICK me \in ServerStates, r \in Requests :
           /\ me = server[c] /\ r = me.msg.req /\ me.msg \in Headers /\ me.msg # NULL /\ me.i <= Len(r.ops)
           /\ up[c] \in Seq(Items)
  BY <1>1, AtWork
<1>3. PICK z \in Nat : z = Len(r.ops)
  BY RequestFacts
<1>4. me.i \in 1 .. z
  BY <1>2, <1>3 DEF ServerStates
<1>5. r.ops[me.i].length <= memory_chunk_size /\ r.ops[me.i] \in Ranges
  <2>1. r.ops \in Seq(Ranges)
    BY RequestFacts
  <2>2. QED
    BY <1>1, <1>2, <1>3, <1>4, <2>1, Elements, Zenon DEF Fits
<1>6. ~(r.ops[me.i].length > memory_chunk_size)
  BY <1>5, ProtocolAssumption DEF Ranges
<1>7. /\ up[c] # <<>> /\ up' = [up EXCEPT ![c] = Tail(@)]
      /\ \/ Done(c, me, r.ops[me.i].length)
         \/ server' = [server EXCEPT ![c].i = @ + 1,
                         ![c].pc = IF me.i = Len(r.ops) THEN "finish" ELSE "op"]
  BY <1>2, <1>6, Zenon DEF WriteOp
<1>8. server \in [Connections -> ServerStates] /\ up \in [Connections -> Seq(Items)]
  BY DEF IInv, TypeOK
<1>9. PICK new \in ServerStates :
           /\ new.msg = me.msg /\ new.i = me.i + 1 /\ new.pc = IF me.i = Len(r.ops) THEN "finish" ELSE "op"
           /\ server'[c] = new /\ \A d \in Connections : d # c => server'[d] = server[d]
  <2>1. IInv'
    BY WriteOpIInv
  <2>2. server'[c] \in ServerStates
    BY <2>1 DEF IInv, TypeOK
  <2>3. /\ server'[c].msg = me.msg /\ server'[c].i = me.i + 1
        /\ server'[c].pc = IF me.i = Len(r.ops) THEN "finish" ELSE "op"
        /\ \A d \in Connections : d # c => server'[d] = server[d]
    <3>1. CASE Done(c, me, r.ops[me.i].length)
      BY <1>1, <1>2, <1>8, <3>1 DEF Done, ServerStates
    <3>2. CASE server' = [server EXCEPT ![c].i = @ + 1,
                            ![c].pc = IF me.i = Len(r.ops) THEN "finish" ELSE "op"]
      BY <1>2, <1>8, <3>2 DEF ServerStates
    <3>3. QED
      BY <1>7, <3>1, <3>2
  <2>4. QED
    BY <2>2, <2>3
<1>10. Left(me) \in Nat \ {0} /\ Left(new) = Left(me) - 1
  BY <1>1, <1>2, <1>9, WriteLeft
<1>11. PICK left \in Nat \ {0} : left = Left(me)
  BY <1>10
<1>12. Aligns(up[c], left)
  BY <1>2, <1>11 DEF Aligned
<1>13. Aligns(Tail(up[c]), left - 1)
  BY <1>2, <1>7, <1>12, AlignsTake
<1>14. up'[c] = Tail(up[c]) /\ \A d \in Connections : d # c => up'[d] = up[d]
  BY <1>7, <1>8
<1>15. Left(server'[c]) = left - 1
  BY <1>9, <1>10, <1>11
<1>16. Aligns(up'[c], Left(server'[c]))
  BY <1>13, <1>14, <1>15, Zenon
<1>17. QED
  BY <1>9, <1>14, <1>16, AlignedAt

LEMMA NextAligned == ASSUME IInv, Aligned, Fits, [Next]_vars PROVE Aligned'
<1>1. Len(<<>>) = 0 /\ Left(Listening) = 0
  BY DEF Left, Listening
<1>2. Aligns(<<>>, 0)
  BY <1>1 DEF Aligns
<1>3. ASSUME up' = [c \in Connections |-> <<>>], server' = [c \in Connections |-> Listening] PROVE Aligned'
  BY <1>1, <1>2, <1>3 DEF Aligned
<1>4. ASSUME NEW t \in Threads, ClientStep(t) PROVE Aligned'
  <2>1. CASE Send(t)
    BY <2>1, SendAligned
  <2>2. CASE ~Send(t)
    <3>1. up' = up /\ server' = server
      BY <1>4, <2>2 DEF ClientStep, CreateExec, DeleteExec, ReadExec, WriteExec, StatusExec, SyncExec, Begin,
                        PopConnection, Receive, PushConnection
    <3>2. QED
      BY <3>1, AlignedSame
  <2>3. QED
    BY <2>1, <2>2
<1>5. ASSUME NEW c \in Connections, ServerStep(c) PROVE Aligned'
  <2>1. server[c] \in ServerStates /\ server \in [Connections -> ServerStates]
    BY DEF IInv, TypeOK
  <2>2. CASE ServerReceive(c)
    BY <2>2, ReceiveAligned
  <2>3. CASE Open(c)
    <3>1. server[c].pc = "open" /\ up' = up
      BY <2>3 DEF Open
    <3>3. /\ server'[c].msg = server[c].msg /\ server'[c].pc = "op" /\ server'[c].i = server[c].i
          /\ \A d \in Connections : d # c => server'[d] = server[d]
      BY <2>1, <2>3 DEF Open, ServerStates
    <3>4. Left(server'[c]) = Left(server[c])
      BY <3>1, <3>3 DEF Left
    <3>5. \A d \in Connections : Left(server'[d]) = Left(server[d])
      BY <3>3, <3>4
    <3>6. QED
      BY <3>1, <3>5, AlignedSame
  <2>4. CASE Create(c)
    <3>1. up' = up /\ server[c].msg.req.type # "WRITE"
      BY <2>4 DEF Create
    <3>2. server'[c].msg = server[c].msg /\ \A d \in Connections : d # c => server'[d] = server[d]
      BY <2>1, <2>4 DEF Create, ServerStates
    <3>3. QED
      BY <3>1, <3>2, AlignedElse
  <2>5. CASE CreateOp(c) \/ DeleteOp(c) \/ StatusOp(c) \/ SyncOp(c) \/ ReadOp(c)
    BY <2>5, PlainAligned
  <2>6. CASE WriteOp(c)
    BY <2>6, WriteAligned
  <2>7. CASE WriteAborts(c)
    BY <1>3, <2>7 DEF WriteAborts
  <2>8. CASE Finish(c)
    <3>1. /\ server[c].pc = "finish" /\ up' = up /\ server'[c] = Listening
          /\ \A d \in Connections : d # c => server'[d] = server[d]
      BY <2>1, <2>8 DEF Finish
    <3>2. Left(server[c]) = 0
      BY <3>1 DEF Left
    <3>3. \A d \in Connections : Left(server'[d]) = Left(server[d])
      BY <1>1, <3>1, <3>2
    <3>4. QED
      BY <3>1, <3>3, AlignedSame
  <2>9. QED
    BY <1>5, <2>2, <2>3, <2>4, <2>5, <2>6, <2>7, <2>8 DEF ServerStep
<1>6. CASE Crash
  BY <1>3, <1>6 DEF Crash
<1>7. CASE Terminated \/ UNCHANGED vars
  <2>1. up' = up /\ server' = server
    BY <1>7 DEF Terminated, vars
  <2>2. QED
    BY <2>1, AlignedSame
<1>8. QED
  BY <1>4, <1>5, <1>6, <1>7 DEF Next

(* jd_on_run finds a header wherever it looks for one, if no write is      *)
(* larger than the server's memory chunk.  j_object_write sees to that     *)
(* when both sides are configured with the same max_operation_size.  A     *)
(* larger write breaks it: the server answers it with 0 and leaves its     *)
(* data on the stream.                                                     *)
THEOREM Alignment == ASSUME Fits PROVE Spec => []StreamAligned
<1>1. Init => Aligned
  <2>1. SUFFICES ASSUME Init PROVE Aligned
    OBVIOUS
  <2>2. Len(<<>>) = 0 /\ Left(Listening) = 0
    BY DEF Left, Listening
  <2>3. Aligns(<<>>, 0)
    BY <2>2 DEF Aligns
  <2>4. QED
    BY <2>1, <2>2, <2>3 DEF Init, Aligned
<1>2. IInv /\ Aligned /\ [Next]_vars => Aligned'
  BY NextAligned
<1>3. ASSUME IInv, Aligned PROVE StreamAligned
  <2>1. SUFFICES ASSUME NEW c \in Connections, server[c].pc = "receive", up[c] # <<>>
                 PROVE  Head(up[c]).kind = "header"
    BY DEF StreamAligned
  <2>2. server[c] = Listening /\ up[c] \in Seq(Items)
    BY <1>3, <2>1 DEF IInv, Works, WorksAt, TypeOK
  <2>3. Left(server[c]) = 0
    BY <2>2 DEF Left, Listening
  <2>4. Aligns(up[c], 0)
    BY <1>3, <2>3 DEF Aligned
  <2>5. Len(up[c]) \in Nat \ {0} /\ Head(up[c]) = up[c][1]
    BY <2>1, <2>2, TailFacts
  <2>6. 0 + 1 \in 1 .. Len(up[c]) /\ 0 + 1 = 1
    BY <2>5
  <2>7. HeaderAt(up[c], 1)
    BY <2>4, <2>6 DEF Aligns
  <2>8. QED
    BY <2>5, <2>7 DEF HeaderAt
<1>4. QED
  BY <1>1, <1>2, <1>3, Invariance, PTL DEF Spec
=============================================================================
