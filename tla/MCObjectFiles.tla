--------------------------- MODULE MCObjectFiles ---------------------------
(* Bounds for TLC: three threads, two paths of which one lies below a      *)
(* directory, and counters of four bits.                                   *)
EXTENDS ObjectFiles

CONSTANTS t1, t2, t3, p1, p2

Message(type, path) == [type |-> type, path |-> path, len |-> 2, off |-> 0, match |-> Paths]

MCRequests == [t \in Threads |->
    CASE t = t1 -> {Message("CREATE", p1), Message("WRITE", p1), Message("CREATE", p2)}
      [] t = t2 -> {Message("DELETE", p1), Message("STATUS", p1)}
      [] t = t3 -> {[Message("LIST", p1) EXCEPT !.match = {p2, "directory"}], Message("LIST", p1),
                    Message("READ", p1)}]

MCMaxRequests == [t \in Threads |-> IF t = t1 THEN 2 ELSE 1]
============================================================================
