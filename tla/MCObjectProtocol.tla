-------------------------- MODULE MCObjectProtocol --------------------------
(* Instances of ObjectProtocol: sets of requests on one object.            *)
EXTENDS ObjectProtocol, TLC

CONSTANTS obj

Op(length, offset) == [length |-> length, offset |-> offset]
Req(type, ops, persistency) ==
    [type |-> type, object |-> obj, ops |-> ops, persistency |-> persistency]

One == <<Op(1, 0)>>
(* Calls of the API in one batch; with a chunk of 2 blocks the reads of    *)
(* each need two replies.                                                  *)
OneTwo == Chunks(1, 0) \o Chunks(2, 1)
TwoOne == Chunks(3, 0)

(* Requests with and without replies.                                      *)
MixedRequests ==
    {Req("CREATE", One, "STORAGE"), Req("DELETE", One \o One, "NETWORK"),
     Req("WRITE", OneTwo, "STORAGE"), Req("WRITE", One, "NONE"),
     Req("READ", TwoOne, "NONE"), Req("SYNC", One, "NETWORK")}

(* A client whose max_operation_size is larger than the server's.          *)
LargeRequests ==
    {Req("CREATE", One, "NONE"), Req("WRITE", Chunks(3, 0), "NONE"),
     Req("WRITE", Chunks(3, 0), "NETWORK"), Req("READ", Chunks(3, 0) \o Chunks(1, 0), "NONE"),
     Req("DELETE", One, "NONE"), Req("STATUS", One, "NONE")}

Symmetry == Permutations(Threads) \cup Permutations(Connections)
=============================================================================
