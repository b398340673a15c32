--------------------------- MODULE DatabaseClient ---------------------------
(***************************************************************************)
(* The client's objects of lib/db as the libraries above them use them:    *)
(* schemas, entries, selectors and iterators, over tables that are         *)
(* functions from the _id of a row to the row.                             *)
(*                                                                         *)
(* How a batch of these operations reaches a server and becomes SQL is     *)
(* module Database; here an executed batch with one operation is one step, *)
(* because the server runs it as one transaction.                          *)
(***************************************************************************)
EXTENDS Integers, Sequences, FiniteSets, FiniteSetsExt, SequencesExt

(* What the backends' statement_column reads from a field that was never   *)
(* set: sqlite3_column_int64 and its siblings return 0 for NULL.           *)
Null == 0

-----------------------------------------------------------------------------
(* Schemas.  A schema can be built only before it is created or fetched:   *)
(* then it belongs to the server.                                          *)

SchemaNew == [variables |-> {}, index |-> {}, bson_initialized |-> FALSE, server_side |-> FALSE]

SchemaAddField(schema, name) ==
    IF schema.server_side \/ name \in schema.variables THEN schema
    ELSE [schema EXCEPT !.variables = @ \cup {name}, !.bson_initialized = TRUE]

SchemaAddIndex(schema, names) ==
    IF schema.server_side \/ ~(names \subseteq schema.variables) \/ names \in schema.index
    THEN schema
    ELSE [schema EXCEPT !.index = @ \cup {names}]

(* j_db_schema_create marks the schema before the batch is executed: one   *)
(* whose creation failed cannot be changed or fetched any more.            *)
SchemaCreate(schema) == [schema EXCEPT !.server_side = TRUE]

-----------------------------------------------------------------------------
(* Selectors: sets of conditions that a row must all meet (mode AND).      *)

Condition(name, operator, value) == [name |-> name, operator |-> operator, value |-> value]
Equals(name, value) == {Condition(name, "EQ", value)}

Meets(table, id, condition) ==
    LET value == IF condition.name = "_id" THEN id ELSE table[id][condition.name]
    IN  (condition.operator = "EQ") <=> (value = condition.value)

(* Iterators: a query answers with all rows at once, the iterator walks    *)
(* through the reply.                                                      *)
IteratorNew(table, selector) ==
    {id \in DOMAIN table : \A condition \in selector : Meets(table, id, condition)}

IteratorNext(ids) == Min(ids)
GetField(table, id, name) == IF name = "_id" THEN id ELSE table[id][name]

-----------------------------------------------------------------------------
(* Entries.                                                                *)

(* j_db_entry_set_field takes each field of the schema once.               *)
Entry(schema, fields) ==
    [name \in schema.variables |-> IF name \in DOMAIN fields THEN fields[name] ELSE Null]

EntryInsert(table, id, entry) ==
    [i \in DOMAIN table \cup {id} |-> IF i = id THEN entry ELSE table[i]]

(* Update and delete first look up the rows and fail when there is none.   *)
EntryUpdate(table, selector, fields) ==
    LET ids == IteratorNew(table, selector)
    IN  [i \in DOMAIN table |->
            IF i \notin ids THEN table[i]
            ELSE [name \in DOMAIN table[i] |->
                     IF name \in DOMAIN fields THEN fields[name] ELSE table[i][name]]]

EntryDelete(table, selector) ==
    [i \in DOMAIN table \ IteratorNew(table, selector) |-> table[i]]
=============================================================================
