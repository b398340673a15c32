------------------------- MODULE MCDistributedObject -------------------------
(* Bounds for TLC: two servers and an object of five bytes, enough for a   *)
(* second round of each distribution, for a piece that starts inside its   *)
(* block and for a request of two operations.                              *)
EXTENDS DistributedObject

CONSTANTS c1, c2

Whole(type, persistency) == [type |-> type, persistency |-> persistency, ops |-> <<>>]
Part(type, persistency, length, offset) ==
    [type |-> type, persistency |-> persistency, ops |-> Chunks(length, offset)]

MCRequests == [c \in Clients |->
    IF c = c1
    THEN {Whole("CREATE", "NETWORK"), Whole("DELETE", "STORAGE"), Part("WRITE", "NETWORK", 5, 0)}
    ELSE {Whole("STATUS", "NETWORK"), Whole("SYNC", "NETWORK"),
          Part("WRITE", "NONE", 3, 2), Part("READ", "NETWORK", 4, 1)}]

MCMaxRequests == [c \in Clients |-> IF c = c1 THEN 2 ELSE 1]

Setting(type, index, block_size) ==
    [type |-> type, index |-> index, block_size |-> block_size,
     weights |-> [s \in Servers |-> s + 1]]

(* Index 2 and block size 0 are refused: the random index and the stripe   *)
(* size stay.                                                              *)
MCConfigurations ==
    {Setting("ROUND_ROBIN", 2, 0), Setting("WEIGHTED", 0, 1), Setting("SINGLE_SERVER", 1, 0)}
=============================================================================
