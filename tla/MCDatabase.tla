----------------------------- MODULE MCDatabase -----------------------------
(* Bounds for TLC: two threads, two versions of the schema, lists of up to *)
(* two operations of which the second may fail, and one crash.             *)
EXTENDS Database

CONSTANTS w1, w2

List(type, ops) == [type |-> type, ops |-> ops]
On(version, v) == [version |-> version, v |-> v, to |-> 2]

MCRequests == [w \in Workers |->
    IF w = w1
    THEN {List("SCHEMA_CREATE", <<On(2, 1), On(1, 1)>>), List("SCHEMA_DELETE", <<On(1, 1)>>),
          List("INSERT", <<On(1, 1), On(2, 1), On(1, 1)>>), List("INSERT", <<On(2, 1)>>),
          List("UPDATE", <<On(1, 1)>>)}
    ELSE {List("QUERY", <<On(1, 1), On(2, 2)>>), List("SCHEMA_GET", <<On(1, 1)>>),
          List("INSERT", <<On(1, 1)>>), List("UPDATE", <<On(1, 1), On(1, 1)>>),
          List("DELETE", <<On(1, 1), On(1, 2)>>)}]

MCMaxRequests == [w \in Workers |-> 2]
=============================================================================
