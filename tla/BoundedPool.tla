---------------------------- MODULE BoundedPool -----------------------------
(***************************************************************************)
(* What the connection pool promises its callers: acquiring a connection   *)
(* is one step that hands out a connection to the right server which       *)
(* nobody else holds, and at most max_count connections per server exist.  *)
(* Nothing is said of counters, queues or retries.                         *)
(***************************************************************************)
EXTENDS Naturals, FiniteSets

CONSTANTS Threads, Queues, Connections, max_count, NULL

VARIABLES holds,   \* holds[t]: the connection thread t uses, or NULL
          leadsTo, \* leadsTo[c]: the queue whose server c is connected to, or NULL
          open     \* the connections that are not closed

bvars == <<holds, leadsTo, open>>

Init ==
    /\ holds = [t \in Threads |-> NULL]
    /\ leadsTo = [c \in Connections |-> NULL]
    /\ open = Connections

Free(c) == c \in open /\ \A t \in Threads : holds[t] # c

(* An existing connection that is free changes hands.                      *)
Reuse(t, q, c) ==
    /\ holds[t] = NULL
    /\ Free(c)
    /\ leadsTo[c] = q
    /\ holds' = [holds EXCEPT ![t] = c]
    /\ UNCHANGED <<leadsTo, open>>

(* A new connection is made while the limit allows it.                     *)
Open(t, q, c) ==
    /\ holds[t] = NULL
    /\ Free(c)
    /\ leadsTo[c] = NULL
    /\ Cardinality({d \in Connections : leadsTo[d] = q}) < max_count
    /\ holds' = [holds EXCEPT ![t] = c]
    /\ leadsTo' = [leadsTo EXCEPT ![c] = q]
    /\ UNCHANGED open

Release(t) ==
    /\ holds[t] # NULL
    /\ holds' = [holds EXCEPT ![t] = NULL]
    /\ UNCHANGED <<leadsTo, open>>

(* All connections are closed at once, and none of them is in use.         *)
Shutdown ==
    /\ \A t \in Threads : holds[t] = NULL
    /\ open' = {c \in Connections : leadsTo[c] = NULL}
    /\ UNCHANGED <<holds, leadsTo>>

Next ==
    \/ \E t \in Threads :
          \/ Release(t)
          \/ \E q \in Queues, c \in Connections : Reuse(t, q, c) \/ Open(t, q, c)
    \/ Shutdown

Spec == Init /\ [][Next]_bvars
=============================================================================
