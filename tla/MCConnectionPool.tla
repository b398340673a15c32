--------------------------- MODULE MCConnectionPool ---------------------------
(* An instance of ConnectionPool: three threads compete for two            *)
(* connections of one queue.  Queues share no state, so one is enough.     *)
EXTENDS ConnectionPool

CONSTANTS t1, t2, t3, c1, c2, c3, o1
===============================================================================
