------------------------------ MODULE MCItems ------------------------------
(* Scenarios for TLC: two clients, two object and two key-value servers,   *)
(* an item of one byte on each object server, and two collections one of   *)
(* whose names begins with the name of the other.                          *)
EXTENDS Items

CONSTANTS c1, c2

a == <<1>>
ab == <<1, 2>>
bad == <<1, Slash, 2>>
MCNames == {a, ab}
MCHome == [key \in Names \cup Paths |-> IF key \in {a, BuildPath(ab, a), BuildPath(a, ab)} THEN -1 ELSE -2]

Op(op) == [op |-> op, name |-> a, type |-> "ROUND_ROBIN", persistency |-> "NETWORK"]
In(name, op) == [Op(op) EXCEPT !.name = name]
Loosely(op) == [Op(op) EXCEPT !.persistency = "NONE"]
OnOneServer(op) == [Op(op) EXCEPT !.type = "SINGLE_SERVER"]

Scenario(first, second, crash, refusal) ==
    [program |-> [c \in Clients |-> IF c = c1 THEN first ELSE second],
     crashes |-> crash, refusals |-> refusal, like |-> [name \in Names |-> {name}]]

Enter == Op("collection_create")
Found(op) == <<Op("collection_get"), Op("item_get"), op>>

(* One makes and uses an item, the other finds it or makes it, too.        *)
Sharing ==
    {Scenario(<<Enter, create, Op("item_write"), Op("item_status"), Op("item_delete")>>,
              second, 1, 0) :
        create \in {Op("item_create"), OnOneServer("item_create")},
        second \in {Found(Op("item_read")), Found(Op("item_write")), Found(Op("item_delete")),
                    <<Enter, Op("item_create"), Op("item_write"), Op("item_read")>>}}

(* A client dies, or does not wait.                                        *)
Careless ==
    {Scenario(<<Enter, Op("item_create"), Op("item_delete")>>, Found(Op("item_status")), 1, 0),
     Scenario(<<Enter, Loosely("item_create"), Op("item_write")>>, Found(Op("item_read")), 0, 0),
     Scenario(<<Enter, Op("item_create"), Loosely("item_write"), Op("item_read")>>,
              Found(Op("item_delete")), 0, 0),
     Scenario(<<Enter, Op("item_create"), Loosely("item_delete")>>, Found(Op("item_read")), 1, 0)}

(* A server cannot create its part of the item.                            *)
Refused ==
    {Scenario(<<Enter, Op("item_create"), Op("item_write")>>, Found(Op("item_read")), 0, 1)}

(* An item is deleted and made again while somebody has the old handle.    *)
Again ==
    {Scenario(<<Enter, Op("item_create"), Op("item_delete"), Op("item_unref"), Op("item_create"),
                Op("item_write")>>,
              Found(Op("item_write")) \o <<Op("item_read")>>, 0, 0)}

(* Somebody makes and deletes what a client that died was deleting.        *)
Late ==
    {Scenario(<<Enter, Op("item_create"), Op("item_delete")>>,
              <<Enter, Op("item_create"), Op("item_delete")>>, 1, 0)}

(* Items are listed while collections and items come and go.               *)
Listed ==
    {Scenario(<<In(ab, "collection_create"), create, Op("collection_delete"), Op("item_unref"),
                Op("collection_unref"), In(ab, "collection_create"), In(ab, "item_create"),
                Op("collection_unref")>>,
              <<In(name, "collection_create"), Op("item_get"), In(ab, "item_create"),
                Op("collection_list"), Op("item_list"), Op("item_delete"), Op("collection_unref"),
                Op("item_unref")>>, 0, 0) :
        create \in {Op("item_create"), In(bad, "item_create")}, name \in {a, ab, bad}}

(* SQLite takes the name of a collection for a pattern, of which a letter  *)
(* may stand for any others: a is "%", and ab is "%b".                     *)
Liberal == {[s EXCEPT !.like[a] = {a, ab}] : s \in Listed}

MCScenarios == Sharing \cup Careless \cup Refused \cup Again \cup Late \cup Listed \cup Liberal
=============================================================================
