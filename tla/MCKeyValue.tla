----------------------------- MODULE MCKeyValue -----------------------------
(* Bounds for TLC: two client threads, two keys on the first server, which *)
(* has two connections, and one key on the second; lists of up to two      *)
(* operations, empty values, and one loss of power.                        *)
EXTENDS KeyValue

CONSTANTS c1, c2, s1, s2, x1, x2, x3

MCConnections == [s \in Servers |-> IF s = s1 THEN {x1, x2} ELSE {x3}]
MCServerOf == [k \in Keys |-> IF k = 3 THEN s2 ELSE s1]

Request(type, key, lens, persistency) ==
    [type |-> type, key |-> key, lens |-> lens, persistency |-> persistency, match |-> Keys,
     like |-> Keys, id |-> NULL, server |-> NULL, confirm |-> FALSE]

MCRequests == [c \in Clients |->
    IF c = c1
    THEN {Request("PUT", 2, <<1, 1>>, "STORAGE"), Request("PUT", 1, <<0>>, "NETWORK"),
          Request("PUT", 3, <<1>>, "NONE"), Request("DELETE", 1, <<1, 1>>, "NETWORK")}
    ELSE {Request("PUT", 1, <<1>>, "STORAGE"), Request("GET", 1, <<1, 1>>, "NETWORK"),
          Request("ITERATE", 1, <<1>>, "NETWORK"),
          [Request("ITERATE", 1, <<1>>, "NETWORK") EXCEPT !.match = {2}, !.like = {1, 2}]}]

MCMaxRequests == [c \in Clients |-> IF c = c1 THEN 2 ELSE 1]
=============================================================================
