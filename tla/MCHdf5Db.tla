------------------------------ MODULE MCHdf5Db ------------------------------
(* Bounds for TLC: two processes with programs of up to twenty calls, and  *)
(* one crash.  Each pair of programs puts one kind of conflict to the      *)
(* test: both create the same names, one reads what the other truncates,   *)
(* deletes or has not created to the end, or a lone process dies.          *)
EXTENDS Hdf5Db

CONSTANTS p1, p2

DefaultCall == [op |-> "close", on |-> 0, name |-> "f", kind |-> "group", flags |-> "", type |-> "int",
             space |-> <<2>>, value |-> 0, recursive |-> FALSE, attr |-> FALSE]

CreateFile(name, flags) ==
    [DefaultCall EXCEPT !.op = "file_create", !.name = name, !.flags = flags]
FileCall(op) == [DefaultCall EXCEPT !.op = op]
Create(on, kind, name) ==
    [DefaultCall EXCEPT !.op = "create", !.on = on, !.kind = kind, !.name = name]
Open(on, kind, name) == [Create(on, kind, name) EXCEPT !.op = "open"]
Open1(on, name) == [DefaultCall EXCEPT !.op = "object_open", !.on = on, !.name = name]
Data(op, on, value) == [DefaultCall EXCEPT !.op = op, !.on = on, !.value = value]
CloseAll(seq0) == [i \in DOMAIN seq0 |-> [DefaultCall EXCEPT !.on = seq0[i]]]
Exists(on, name) == [DefaultCall EXCEPT !.op = "exists", !.on = on, !.name = name]
IterateOn(on, recursive, attr) ==
    [DefaultCall EXCEPT !.op = "iterate", !.on = on, !.recursive = recursive, !.attr = attr]

(* Builds a file with a group, a dataset and an attribute.                 *)
Build(flags) ==
    << CreateFile("f", flags), Create(1, "group", "g"), Create(2, "dataset", "d"),
       Data("dataset_write", 3, 2), Create(3, "attr", "a"), Data("attr_write", 5, 1) >>
    \o CloseAll(<<5, 3, 1>>)

(* Writes a dataset over three openings.                                   *)
Rewrite ==
    << CreateFile("f", "TRUNC"), Create(1, "dataset", "d"), Data("dataset_write", 2, 2) >>
    \o CloseAll(<<2>>)
    \o << Open(1, "dataset", "d"), Data("dataset_write", 5, -1) >> \o CloseAll(<<5>>)
    \o << Open1(1, "d"), Data("dataset_read", 8, 0) >> \o CloseAll(<<1, 8>>)

(* Two handles of one dataset are open at once, then another one is        *)
(* written with an unsigned number that is too large for a signed one.     *)
TwoHandles ==
    << CreateFile("f", ""), Create(1, "dataset", "d"), Open(1, "dataset", "d"),
       Data("dataset_write", 3, 3) >> \o CloseAll(<<3, 2>>)
    \o << Create(1, "dataset", "e"), Data("dataset_write", 7, 6) >> \o CloseAll(<<7>>)
    \o << Open(1, "dataset", "e"), Data("dataset_read", 10, 0) >> \o CloseAll(<<10, 1>>)

(* Looks at whatever is there.                                             *)
Look ==
    << FileCall("file_open"), Open(1, "group", "/"), Open(2, "group", "g"), Open(3, "dataset", "d"),
       Open(4, "attr", "a"), Data("attr_read", 5, 0) >> \o CloseAll(<<4, 2, 1>>)

Walk ==
    << CreateFile("f", ""), Create(1, "group", "g"), Create(2, "group", "h"), Create(3, "dataset", "d"),
       Create(1, "attr", "a"), Open(1, "group", "/"), IterateOn(6, TRUE, FALSE),
       IterateOn(1, TRUE, FALSE), IterateOn(1, FALSE, TRUE) >>

Watch == << FileCall("file_accessible"), FileCall("file_open"), IterateOn(2, TRUE, FALSE), Exists(2, "g"),
            Open1(2, "g"), Exists(5, "d"), Open1(2, "a") >>

Again == << CreateFile("f", "EXCL"), Create(1, "group", "g"), Create(1, "group", "g"),
            FileCall("file_delete"), CreateFile("f", ""), Open1(5, "g") >>

TwoFiles == << CreateFile("f", ""), Create(1, "group", "g"), CreateFile("e", ""),
               Create(3, "group", "g"), FileCall("file_open"), Open1(5, "g"), Open(6, "group", "g"), Open1(3, "g") >>

Scenario(first, second, fresh, reuse, deaths) ==
    [program |-> [p \in Processes |-> IF p = p1 THEN first ELSE second],
     fresh |-> fresh, reuse |-> reuse, crashes |-> deaths]

MCScenarios ==
    { Scenario(<<FileCall("file_open")>>, <<FileCall("file_open")>>, TRUE, FALSE, 1) }
    \cup { Scenario(Build("EXCL"), Look, FALSE, FALSE, 0),
           Scenario(Build("TRUNC"), SubSeq(Build(""), 1, 4), FALSE, FALSE, 0),
           Scenario(Rewrite, SubSeq(Build("TRUNC"), 1, 2), FALSE, FALSE, 0),
           Scenario(Walk, Watch, FALSE, FALSE, 0),
           Scenario(TwoHandles, <<>>, FALSE, FALSE, 1),
           Scenario(Again, SubSeq(Look, 1, 3), FALSE, FALSE, 1) }
    \cup { Scenario(Rewrite \o Build("TRUNC"), SubSeq(Watch, 1, 2), FALSE, reuse, 1) : reuse \in BOOLEAN }
    \cup { Scenario(TwoFiles, <<>>, FALSE, reuse, 1) : reuse \in BOOLEAN }
=============================================================================
