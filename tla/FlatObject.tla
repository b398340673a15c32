----------------------------- MODULE FlatObject -----------------------------
(***************************************************************************)
(* What a distributed object promises its users: it is one array of bytes. *)
(* A write puts its own bytes, each at its own offset, in any order and    *)
(* interleaved with other requests, but each one at most once; a delete    *)
(* takes bytes away; nothing else changes a byte.  There is no promise of  *)
(* atomicity for ranges of more than one byte.                             *)
(***************************************************************************)
CONSTANTS Ids,    \* requests
          Bytes,  \* offsets of the object
          NULL    \* no request, a byte that was not written

VARIABLES content,  \* content[p]: who wrote byte p, and from where
          todo      \* todo[id]: what request id may still change

flatVars == <<content, todo>>

Kinds == {"WRITE", "DELETE", "OTHER"}

Init ==
    /\ content = [p \in Bytes |-> NULL]
    /\ todo = [id \in Ids |-> NULL]

(* Request id is issued.  Only writes and deletes may change bytes.        *)
Begin(id) ==
    LET request == todo'[id]
    IN /\ todo[id] = NULL /\ request # NULL
       /\ request \in [kind : Kinds, bytes : SUBSET Bytes]
       /\ request.kind = "OTHER" => request.bytes = {}
       /\ todo' = [todo EXCEPT ![id] = request]
       /\ UNCHANGED content

(* Request id changes bytes it had not changed yet; value(p) is what byte p *)
(* becomes.                                                                *)
Change(id, value(_)) ==
    LET before == content
        changed == todo[id].bytes \ todo'[id].bytes
    IN /\ changed # {}
       /\ todo' = [todo EXCEPT ![id].bytes = @ \ changed]
       /\ content' = [p \in Bytes |-> IF p \in changed THEN value(p) ELSE before[p]]

Put(id) ==
    /\ todo[id] # NULL /\ todo[id].kind = "WRITE"
    /\ LET own(p) == <<id, p>> IN Change(id, own)

Wipe(id) ==
    /\ todo[id] # NULL /\ todo[id].kind = "DELETE"
    /\ LET gone(p) == NULL IN Change(id, gone)

Next == \E id \in Ids : Begin(id) \/ Put(id) \/ Wipe(id)

Spec == Init /\ [][Next]_flatVars
=============================================================================
