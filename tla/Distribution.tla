---------------------------- MODULE Distribution ----------------------------
(***************************************************************************)
(* How a distributed object is cut into blocks and spread over servers:    *)
(* lib/core/jdistribution.c and lib/core/distribution/*.c.  A distribution *)
(* is a record; the functions of the code that change one are operators    *)
(* from the record before to the record after.  Servers are numbered from  *)
(* 0, sizes are in bytes.                                                  *)
(*                                                                         *)
(* start_index (round robin) and index (single server) lie at the same     *)
(* place of their structures and share the field index; weights is used    *)
(* by the weighted distribution alone.                                     *)
(***************************************************************************)
EXTENDS Integers

CONSTANTS server_count,  \* object servers of the configuration
          stripe_size    \* stripe size of the configuration

ASSUME DistributionAssumption ==
    /\ server_count \in Nat \ {0}
    /\ stripe_size \in Nat \ {0}

DistributionTypes == {"ROUND_ROBIN", "WEIGHTED", "SINGLE_SERVER"}
Servers == 0 .. server_count - 1
Weights == 0 .. 255

Distributions ==
    [type : DistributionTypes, length : Nat, offset : Nat, block_size : Nat \ {0},
     index : Servers, weights : [Servers -> Weights]]

Smaller(a, b) == IF a < b THEN a ELSE b

-----------------------------------------------------------------------------
(* Construction and configuration.                                         *)

(* What the three distribution_new have in common.                         *)
Created(type, index) ==
    [type |-> type, length |-> 0, offset |-> 0, block_size |-> stripe_size,
     index |-> index, weights |-> [s \in Servers |-> 0]]

(* Two draw their index at random, the third has all weights 0.            *)
RoundRobinNew(random) == Created("ROUND_ROBIN", random)
SingleServerNew(random) == Created("SINGLE_SERVER", random)
WeightedNew == Created("WEIGHTED", 0)

(* j_distribution_new                                                      *)
New(type, random) ==
    CASE type = "ROUND_ROBIN" -> RoundRobinNew(random)
      [] type = "SINGLE_SERVER" -> SingleServerNew(random)
      [] type = "WEIGHTED" -> WeightedNew

(* The keys each type knows; a server that does not exist is refused.      *)
RoundRobinSet(d, key, value) ==
    CASE key = "block-size" -> [d EXCEPT !.block_size = value]
      [] key = "start-index" /\ value < server_count -> [d EXCEPT !.index = value]
      [] OTHER -> d

SingleServerSet(d, key, value) ==
    CASE key = "block-size" -> [d EXCEPT !.block_size = value]
      [] key = "index" /\ value < server_count -> [d EXCEPT !.index = value]
      [] OTHER -> d

WeightedSet(d, key, value) ==
    IF key = "block-size" THEN [d EXCEPT !.block_size = value] ELSE d

(* j_distribution_set                                                      *)
Set(d, key, value) ==
    CASE d.type = "ROUND_ROBIN" -> RoundRobinSet(d, key, value)
      [] d.type = "SINGLE_SERVER" -> SingleServerSet(d, key, value)
      [] d.type = "WEIGHTED" -> WeightedSet(d, key, value)

(* j_distribution_set_block_size refuses 0; j_distribution_set does not.   *)
SetBlockSize(d, value) == IF value > 0 THEN Set(d, "block-size", value) ELSE d

(* Before[i]: the weights of the servers below server i.                   *)
Before(d) ==
    LET before[i \in 0 .. server_count] ==
          IF i = 0 THEN 0 ELSE before[i - 1] + d.weights[i - 1]
    IN before

WeightSum(d) == Before(d)[server_count]

(* The key weight: no weight above 255, and never a sum of 0.              *)
SetWeight(d, server, value) ==
    IF /\ d.type = "WEIGHTED" /\ server < server_count /\ value < 256
       /\ WeightSum(d) + value - d.weights[server] > 0
    THEN [d EXCEPT !.weights[server] = value]
    ELSE d

(* The BSON document a distribution is stored as, with the keys of its     *)
(* type...                                                                 *)
RoundRobinSerialize(d) ==
    [type |-> d.type, block_size |-> d.block_size, start_index |-> d.index]
SingleServerSerialize(d) ==
    [type |-> d.type, block_size |-> d.block_size, index |-> d.index]
WeightedSerialize(d) ==
    [type |-> d.type, block_size |-> d.block_size, weights |-> d.weights]

Serialize(d) ==
    CASE d.type = "ROUND_ROBIN" -> RoundRobinSerialize(d)
      [] d.type = "SINGLE_SERVER" -> SingleServerSerialize(d)
      [] d.type = "WEIGHTED" -> WeightedSerialize(d)

(* ...and what is read back from it.                                       *)
RoundRobinDeserialize(d, b) == [d EXCEPT !.block_size = b.block_size, !.index = b.start_index]
SingleServerDeserialize(d, b) == [d EXCEPT !.block_size = b.block_size, !.index = b.index]

(* j_distribution_deserialize takes the type from the document first.      *)
Deserialize(d, b) ==
    LET e == [d EXCEPT !.type = b.type]
    IN  CASE b.type = "ROUND_ROBIN" -> RoundRobinDeserialize(e, b)
          [] b.type = "SINGLE_SERVER" -> SingleServerDeserialize(e, b)

(* j_distribution_new_from_bson allocates a round robin distribution and   *)
(* then changes the type, which is defined only for the two types that     *)
(* have the same structure.                                                *)
NewFromBson(b, random) == Deserialize(RoundRobinNew(random), b)

-----------------------------------------------------------------------------
(* Distribution.                                                           *)

Reset(d, length, offset) == [d EXCEPT !.length = length, !.offset = offset]

Block(d) == d.offset \div d.block_size
Displacement(d) == d.offset % d.block_size

RoundRobin(d) ==
    [index |-> (d.index + Block(d)) % server_count,
     offset |-> (Block(d) \div server_count) * d.block_size + Displacement(d)]

(* Server weights[i] gets weights[i] blocks of every round of sum blocks.  *)
Weighted(d) ==
    LET round == Block(d) \div WeightSum(d)
        block_offset == Block(d) % WeightSum(d)
        server == CHOOSE i \in Servers :
                     Before(d)[i] <= block_offset /\ block_offset < Before(d)[i + 1]
    IN [index |-> server,
        offset |-> (round * d.weights[server] + block_offset - Before(d)[server]) * d.block_size
                      + Displacement(d)]

SingleServer(d) == [index |-> d.index, offset |-> d.offset]

(* The server and the offset there of the first byte that is left.         *)
Place(d) ==
    CASE d.type = "ROUND_ROBIN" -> RoundRobin(d)
      [] d.type = "WEIGHTED" -> Weighted(d)
      [] d.type = "SINGLE_SERVER" -> SingleServer(d)

(* new_length: what is left of the request, at most to the block's end.    *)
PieceLength(d) == Smaller(d.length, d.block_size - Displacement(d))

(* j_distribution_distribute: the next piece while d.length > 0...         *)
Piece(d) == [index |-> Place(d).index, length |-> PieceLength(d), offset |-> Place(d).offset]

(* ...and the distribution after it.                                       *)
Advance(d) ==
    [d EXCEPT !.length = @ - PieceLength(d), !.offset = @ + PieceLength(d)]

(* The server and the offset there of byte p.                              *)
PlaceOf(d, p) == Place(Reset(d, 1, p))
=============================================================================
