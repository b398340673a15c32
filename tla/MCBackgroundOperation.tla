------------------------ MODULE MCBackgroundOperation ------------------------
(* Instances of BackgroundOperation.                                       *)
EXTENDS BackgroundOperation, TLC

CONSTANTS t1, t2, o1, o2, o3, o4, o5, o6

(* Two threads; the tasks o1 and o5 of the first are asynchronous batches: *)
(* o1 fans out to two servers, o5 has one datum that is handled inline.  *)
NestedCalls == (t1 :> <<o1, o5>>) @@ (t2 :> <<o6>>)
NestedParts == [o \in Ops |-> IF o = o1 THEN <<o2, o3>> ELSE IF o = o5 THEN <<o4>> ELSE <<>>]

(* Every worker may be busy with a batch that fans out.                    *)
FullCalls == (t1 :> <<o1>>) @@ (t2 :> <<o2>>)
FullParts == [o \in Ops |-> IF o = o1 THEN <<o3, o4>> ELSE IF o = o2 THEN <<o5, o6>> ELSE <<>>]
=============================================================================
