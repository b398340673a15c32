------------------------------- MODULE Hdf5Db -------------------------------
(***************************************************************************)
(* The HDF5 plugin over the database, lib/hdf5-db: how the files, groups,  *)
(* datasets, attributes and links of an HDF5 file become rows and objects. *)
(*                                                                         *)
(* Processes run programs, sequences of calls of the HDF5 library.  A call *)
(* makes one query or one batch after the other and is left early when one *)
(* fails; between two of them the other processes go on, and a process may *)
(* die.  Nothing locks a file: what one call leaves half done is what the  *)
(* next one finds.                                                         *)
(*                                                                         *)
(* The handle a call returned is kept under the number of the call, so     *)
(* that later calls of the program can name it.  Data is one number per    *)
(* dataset or attribute: transfers are of whole dataspaces (H5S_ALL).      *)
(***************************************************************************)
EXTENDS Hdf5Tables

CONSTANTS Processes,
          Scenarios,    \* what may be given: see Init
          Bits,         \* width of an integer in memory: 8, 16, 32 or 64
          NULL

Truncates(call) == call.op = "file_create" /\ call.flags = "TRUNC"
Writes(call) ==
    call.op \in {"file_create", "file_delete", "create", "dataset_write", "attr_write"}

(* What is written is a signed or an unsigned number of that width.        *)
ASSUME Hdf5Assumption ==
    /\ Bits \in Nat \ {0}
    /\ \A s \in Scenarios :
        /\ s.reuse \in BOOLEAN /\ s.fresh \in BOOLEAN /\ s.crashes \in Nat
        /\ \A c \in Processes : \A i \in DOMAIN s.program[c] :
              /\ s.program[c][i].on \in 0 .. i - 1
              /\ s.program[c][i].value \in -(2 ^ (Bits - 1)) .. 2 ^ Bits - 1

VARIABLES scenario, \* what is given
          catalog,  \* catalog[t]: the schema the server has, or NULL
          db,       \* db[t]: the rows of a table
          seq,      \* seq[t]: the largest _id the table ever had
          objects,  \* objects[i]: contents of the object of dataset i
          proc,     \* the processes
          torn,     \* files that are being, or were half, truncated
          crashes

vars == <<scenario, catalog, db, seq, objects, proc, torn, crashes>>

(* A dataset that nobody has written has an object without contents, an    *)
(* attribute has no bytes.                                                 *)
Empty == NULL

NoRows == [i \in {} |-> NULL]

(* A process that was just started.                                        *)
Start == [pc |-> "init", tables |-> 0, handles |-> <<>>, new |-> NULL, type |-> 0, space |-> 0,
          todo |-> <<>>, frames |-> <<>>, child |-> NULL, out |-> <<>>, why |-> NULL]

(* A scenario gives the programs of the processes, the bound on their      *)
(* crashes, whether the database uses the _id of a deleted row again       *)
(* (SQLite) or not (MySQL, PostgreSQL), and whether it is fresh: without   *)
(* tables, or with them and the processes initialised.                     *)
Init ==
    /\ scenario \in Scenarios
    /\ catalog = [t \in Tables |-> IF scenario.fresh THEN NULL ELSE SchemaCreate(Schemas[t])]
    /\ db = [t \in Tables |-> NoRows]
    /\ seq = [t \in Tables |-> 0]
    /\ objects = NoRows
    /\ proc = [c \in Processes |->
                  IF scenario.fresh THEN Start
                  ELSE [Start EXCEPT !.pc = "idle", !.tables = Len(InitOrder)]]
    /\ torn = {}
    /\ crashes = 0

-----------------------------------------------------------------------------
(* Handles.                                                                *)

(* H5VL_julea_db_object_new: an object with one reference, its creator's.  *)
ObjectNew(kind, file) ==
    [kind |-> kind, id |-> 0, root |-> 0, file |-> file, ref |-> 1, open |-> TRUE,
     min |-> 0, max |-> 0]

At(c, pc) == proc[c].pc = pc
Call(c) == scenario.program[c][Len(proc[c].handles) + 1]
Handle(c) == proc[c].handles[Call(c).on]
New(c) == proc[c].new

(* The file of an object; a file is its own.                               *)
FileIndex(c) == IF Handle(c).kind = "file" THEN Call(c).on ELSE Handle(c).file
File(c) == proc[c].handles[FileIndex(c)]

(* Fault: the number of the file is taken for that of its root group.      *)
FaultyParentOf(handle) == IF handle.kind = "file" THEN [kind |-> "group", id |-> handle.id] ELSE handle

(* Only the root group has the file as its parent, so links below a file   *)
(* are links below its root group.                                         *)
ParentOf(handle) == IF handle.kind = "file" THEN [kind |-> "group", id |-> handle.root] ELSE handle

(* The root group belongs to the file and has no reference on it.          *)
RootGroup(c) ==
    [ObjectNew("group", Call(c).on) EXCEPT !.id = Handle(c).root, !.root = Handle(c).root]
IsRoot(handle) == handle.kind = "group" /\ handle.root = handle.id

Goto(c, pc) == proc' = [proc EXCEPT ![c].pc = pc]
Continue(c, pc, new) == proc' = [proc EXCEPT ![c].pc = pc, ![c].new = new]

(* The call has returned.                                                  *)
Done(p, handle) ==
    [p EXCEPT !.pc = "idle", !.handles = Append(p.handles, handle), !.new = NULL, !.frames = <<>>,
              !.child = NULL]

Ref(p, f) == [p EXCEPT !.handles[f].ref = @ + 1]

(* H5VL_julea_db_object_unref: an object that goes lets go of its file.    *)
Unref(p, f) == [p EXCEPT !.handles[f].ref = @ - 1]

Return(c, handle) == proc' = [proc EXCEPT ![c] = Done(@, handle)]

(* Fault: a call that fails forgets the object it was making.              *)
FaultyRelease(p) == p

Release(p) ==
    IF p.new # NULL /\ p.new.kind # "file" THEN Unref(p, p.new.file) ELSE p
Fail(c) == proc' = [proc EXCEPT ![c] = Done(Release(@), NULL)]

(* A g_assert that fails, or the second free of an error.                  *)
Abort(c, why) == proc' = [proc EXCEPT ![c].pc = "aborted", ![c].why = why]

-----------------------------------------------------------------------------
(* Statements.                                                             *)

(* Fault: the number after the largest one in use.                         *)
FaultyNextId(t) == IF DOMAIN db[t] = {} THEN 1 ELSE Max(DOMAIN db[t]) + 1

NextId(t) ==
    IF scenario.reuse THEN (IF DOMAIN db[t] = {} THEN 1 ELSE Max(DOMAIN db[t]) + 1) ELSE seq[t] + 1

Insert(t, fields) ==
    /\ db' = [db EXCEPT ![t] = EntryInsert(@, NextId(t), Entry(Schemas[t], fields))]
    /\ seq' = [seq EXCEPT ![t] = Max({@, NextId(t)})]

(* j_db_entry_get_id: the number the reply to the insertion brought.       *)
GetId(t) == NextId(t)

Found(t, selector) == IteratorNew(db[t], selector)
First(t, selector) == IteratorNext(Found(t, selector))
Field(t, id, name) == GetField(db[t], id, name)

LinksBelow(parent) == Equals("parent", parent.id) \cup Equals("parent_type", parent.kind)
LinkSelector(parent, name) == LinksBelow(parent) \cup Equals("name", name)

-----------------------------------------------------------------------------
(* H5VL_julea_db_init: each table is fetched, or created and fetched.      *)

InitTable(c) == InitOrder[proc[c].tables + 1]

HaveTable(c) ==
    proc' = [proc EXCEPT ![c].tables = @ + 1,
                         ![c].pc = IF proc[c].tables + 1 = Len(InitOrder) THEN "idle" ELSE "init"]

InitGet(c) ==
    /\ At(c, "init")
    /\ IF catalog[InitTable(c)] # NULL THEN HaveTable(c) ELSE Goto(c, "init_create")
    /\ UNCHANGED <<scenario, catalog, db, seq, objects, torn, crashes>>

(* Another process may have created the table meanwhile: then init fails,  *)
(* in file_init with an assertion, and nothing can be used.                *)
InitCreate(c) ==
    /\ At(c, "init_create")
    /\ IF catalog[InitTable(c)] # NULL
       THEN /\ Abort(c, "init")
            /\ UNCHANGED catalog
       ELSE /\ catalog' = [catalog EXCEPT ![InitTable(c)] = SchemaCreate(Schemas[InitTable(c)])]
            /\ Goto(c, "init_get")
    /\ UNCHANGED <<scenario, db, seq, objects, torn, crashes>>

InitGetAgain(c) ==
    /\ At(c, "init_get")
    /\ HaveTable(c)
    /\ UNCHANGED <<scenario, catalog, db, seq, objects, torn, crashes>>

-----------------------------------------------------------------------------
(* A call begins.                                                          *)

HasHandle(c) == Call(c).on # 0 => (Handle(c) # NULL /\ Handle(c).open)
Ready(c) == At(c, "idle") /\ Len(proc[c].handles) < Len(scenario.program[c])

OpensRoot(c) == Call(c).op = "open" /\ Call(c).kind = "group" /\ Handle(c).kind = "file"
MakesObject(c) == Call(c).op \in {"create", "open"}

(* Without a handle to work on, because the call that should have returned *)
(* it failed or because it is closed, the library does not make the call.  *)
SkipCall(c) ==
    /\ Ready(c) /\ ~HasHandle(c)
    /\ Return(c, NULL)
    /\ UNCHANGED <<scenario, catalog, db, seq, objects, torn, crashes>>

(* A group that is opened in a file is its root group, whatever the name.  *)
OpenRootGroup(c) ==
    /\ Ready(c) /\ HasHandle(c)
    /\ OpensRoot(c)
    /\ Return(c, RootGroup(c))
    /\ UNCHANGED <<scenario, catalog, db, seq, objects, torn, crashes>>

(* A new object, and its reference on the file.                            *)
BeginObject(c) ==
    /\ Ready(c) /\ HasHandle(c)
    /\ MakesObject(c) /\ ~OpensRoot(c)
    /\ proc' = [proc EXCEPT ![c] =
           [Ref(proc[c], FileIndex(c)) EXCEPT
               !.new = ObjectNew(Call(c).kind, FileIndex(c)),
               !.pc = IF Call(c).op = "open" THEN "link_get"
                      ELSE IF Call(c).kind = "group" THEN "insert" ELSE "type"]]
    /\ UNCHANGED <<scenario, catalog, db, seq, objects, torn, crashes>>

FileCalls == {"file_create", "file_open", "file_delete", "file_accessible"}

BeginCall(c) ==
    /\ Ready(c) /\ HasHandle(c)
    /\ ~MakesObject(c)
    /\ proc' = [proc EXCEPT ![c].out = <<>>,
                            ![c].pc = CASE Call(c).op \in FileCalls -> "file_query"
                                        [] Call(c).op = "object_open" -> "link_get"
                                        [] OTHER -> Call(c).op]
    /\ UNCHANGED <<scenario, catalog, db, seq, objects, torn, crashes>>

-----------------------------------------------------------------------------
(* Files.                                                                  *)

FilesNamed(c) == Found("file", Equals("name", Call(c).name))

FileObject(id) ==
    [ObjectNew("file", 0) EXCEPT !.id = id, !.root = Field("file", id, "root_group")]

(* The statements a truncation makes, one table after the other.           *)
TruncateOrder == <<"group", "attr", "dataset", "link">>

(* The file a query found...                                               *)
FileFound(c) == FileObject(IteratorNext(FilesNamed(c)))

(* ...and g_assert takes it that there is no other.                        *)
AssertSingle(c, next) ==
    IF Cardinality(FilesNamed(c)) > 1 THEN Abort(c, "duplicate") ELSE next

FileCreate(c) ==
    /\ At(c, "file_query") /\ Call(c).op = "file_create"
    /\ LET flags == Call(c).flags
           truncating == proc' = [proc EXCEPT ![c].pc = "truncate", ![c].new = FileFound(c),
                                              ![c].todo = TruncateOrder]
       IN  IF FilesNamed(c) = {} THEN Continue(c, "file_insert", ObjectNew("file", 0))
           ELSE IF flags = "EXCL" THEN Fail(c)
           ELSE AssertSingle(c, IF flags = "TRUNC" THEN truncating ELSE Return(c, FileFound(c)))
    /\ UNCHANGED <<scenario, catalog, db, seq, objects, torn, crashes>>

FileOpen(c) ==
    /\ At(c, "file_query") /\ Call(c).op = "file_open"
    /\ IF FilesNamed(c) = {} THEN Fail(c) ELSE AssertSingle(c, Return(c, FileFound(c)))
    /\ UNCHANGED <<scenario, catalog, db, seq, objects, torn, crashes>>

FileAccessible(c) ==
    /\ At(c, "file_query") /\ Call(c).op = "file_accessible"
    /\ Return(c, NULL)
    /\ UNCHANGED <<scenario, catalog, db, seq, objects, torn, crashes>>

FileInsert(c) ==
    /\ At(c, "file_insert")
    /\ Insert("file", [name |-> Call(c).name])
    /\ Continue(c, "root_insert", [New(c) EXCEPT !.id = GetId("file")])
    /\ UNCHANGED <<scenario, catalog, objects, torn, crashes>>

RootInsert(c) ==
    /\ At(c, "root_insert")
    /\ Insert("group", [file |-> New(c).id])
    /\ Continue(c, "root_update", [New(c) EXCEPT !.root = GetId("group")])
    /\ UNCHANGED <<scenario, catalog, objects, torn, crashes>>

RootUpdate(c) ==
    /\ At(c, "root_update")
    /\ LET this == Equals("_id", New(c).id)
       IN  IF Found("file", this) = {}
           THEN Fail(c) /\ UNCHANGED db
           ELSE /\ db' = [db EXCEPT !["file"] = EntryUpdate(@, this, [root_group |-> New(c).root])]
                /\ Return(c, New(c))
    /\ UNCHANGED <<scenario, catalog, seq, objects, torn, crashes>>

(* What a truncation deletes of a table: everything of the file but its    *)
(* root group.  That there is nothing to delete is not an error.           *)
GroupsOfFile(file) == Equals("file", file.id) \cup {Condition("_id", "NE", file.root)}
OfFile(t, file) == IF t = "group" THEN GroupsOfFile(file) ELSE Equals("file", file.id)
Truncated(t, file) == EntryDelete(db[t], OfFile(t, file))

Truncate(c) ==
    /\ At(c, "truncate")
    /\ LET t == Head(proc[c].todo)
           last == Len(proc[c].todo) = 1
       IN  /\ db' = [db EXCEPT ![t] = Truncated(t, New(c))]
           /\ torn' = IF last THEN torn \ {New(c).id} ELSE torn \cup {New(c).id}
           /\ proc' = [proc EXCEPT ![c] =
                  LET p == [proc[c] EXCEPT !.todo = Tail(@)]
                  IN  IF last THEN Done(p, New(c)) ELSE p]
    /\ UNCHANGED <<scenario, catalog, seq, objects, crashes>>

(* file_delete opens the file, which does not truncate it, and deletes its *)
(* row and its root group.                                                 *)
DeleteRow(c, t, id, next) ==
    IF Found(t, Equals("_id", id)) = {}
    THEN Fail(c) /\ UNCHANGED db
    ELSE db' = [db EXCEPT ![t] = EntryDelete(@, Equals("_id", id))] /\ next

FileDeleteOpen(c) ==
    /\ At(c, "file_query") /\ Call(c).op = "file_delete"
    /\ IF FilesNamed(c) = {} THEN Fail(c)
       ELSE AssertSingle(c, Continue(c, "file_delete", FileFound(c)))
    /\ UNCHANGED <<scenario, catalog, db, seq, objects, torn, crashes>>

FileDelete(c) ==
    /\ At(c, "file_delete")
    /\ DeleteRow(c, "file", New(c).id, Goto(c, "root_delete"))
    /\ UNCHANGED <<scenario, catalog, seq, objects, torn, crashes>>

RootDelete(c) ==
    /\ At(c, "root_delete")
    /\ DeleteRow(c, "group", New(c).root, Return(c, NULL))
    /\ UNCHANGED <<scenario, catalog, seq, objects, torn, crashes>>

-----------------------------------------------------------------------------
(* Datatypes and dataspaces are shared by all files: one that is in its    *)
(* table already is used again.  Nothing ever deletes one.                 *)

DatatypeEncode(c) ==
    /\ At(c, "type")
    /\ LET found == Found("datatype_header", Equals("type_cache", Call(c).type))
       IN  IF found # {}
           THEN proc' = [proc EXCEPT ![c].type = IteratorNext(found), ![c].pc = "space"]
           ELSE Goto(c, "type_insert")
    /\ UNCHANGED <<scenario, catalog, db, seq, objects, torn, crashes>>

DatatypeInsert(c) ==
    /\ At(c, "type_insert")
    /\ Insert("datatype_header", [type_cache |-> Call(c).type, type_size |-> 1])
    /\ proc' = [proc EXCEPT ![c].type = GetId("datatype_header"), ![c].pc = "space"]
    /\ UNCHANGED <<scenario, catalog, objects, torn, crashes>>

SpaceEncode(c) ==
    /\ At(c, "space")
    /\ LET found == Found("space_header", Equals("dim_cache", Call(c).space))
       IN  IF found # {}
           THEN proc' = [proc EXCEPT ![c].space = IteratorNext(found), ![c].pc = "insert"]
           ELSE Goto(c, "space_insert")
    /\ UNCHANGED <<scenario, catalog, db, seq, objects, torn, crashes>>

SpaceInsert(c) ==
    /\ At(c, "space_insert")
    /\ LET dims == Call(c).space
       IN  /\ Insert("space_header",
                     [dim_cache |-> dims, dim_count |-> Len(dims),
                      dim_total_count |-> FoldLeft(LAMBDA a, b : a * b, 1, dims)])
           /\ proc' = [proc EXCEPT ![c].space = GetId("space_header"), ![c].todo = dims,
                                   ![c].pc = IF dims = <<>> THEN "insert" ELSE "dim_insert"]
    /\ UNCHANGED <<scenario, catalog, objects, torn, crashes>>

DimInsert(c) ==
    /\ At(c, "dim_insert")
    /\ LET dims == proc[c].todo
       IN  /\ Insert("space", [dim_id |-> proc[c].space, dim_size |-> Head(dims),
                               dim_index |-> Len(Call(c).space) - Len(dims)])
           /\ proc' = [proc EXCEPT ![c].todo = Tail(dims),
                                   ![c].pc = IF Len(dims) = 1 THEN "insert" ELSE "dim_insert"]
    /\ UNCHANGED <<scenario, catalog, objects, torn, crashes>>

-----------------------------------------------------------------------------
(* Groups, datasets and attributes.                                        *)

GroupRow(c) == [file |-> File(c).id]
DatasetRow(c) == [file |-> File(c).id, datatype |-> proc[c].type, space |-> proc[c].space]
AttrRow(c) ==
    [file |-> File(c).id, datatype |-> proc[c].type, space |-> proc[c].space, data |-> Empty]

RowOf(c) == CASE Call(c).kind = "group" -> GroupRow(c)
              [] Call(c).kind = "dataset" -> DatasetRow(c)
              [] Call(c).kind = "attr" -> AttrRow(c)

CreateInsert(c) ==
    /\ At(c, "insert")
    /\ Insert(Call(c).kind, RowOf(c))
    /\ Continue(c, IF Call(c).kind = "dataset" THEN "object" ELSE "link_check",
                [New(c) EXCEPT !.id = GetId(Call(c).kind)])
    /\ UNCHANGED <<scenario, catalog, objects, torn, crashes>>

(* The object "dataset<_id>".  Creating one that exists changes nothing.   *)
ObjectCreate(c) ==
    /\ At(c, "object")
    /\ objects' = IF New(c).id \in DOMAIN objects THEN objects
                  ELSE EntryInsert(objects, New(c).id, Empty)
    /\ Goto(c, "link_check")
    /\ UNCHANGED <<scenario, catalog, db, seq, torn, crashes>>

(* Fault: no look at the names in use.                                     *)
FaultyLinkCheck(c) ==
    /\ At(c, "link_check")
    /\ Goto(c, "link_insert")
    /\ UNCHANGED <<scenario, catalog, db, seq, objects, torn, crashes>>

(* A name must not be in use; otherwise the row stays without a link.      *)
LinkCheck(c) ==
    /\ At(c, "link_check")
    /\ IF Found("link", LinkSelector(ParentOf(Handle(c)), Call(c).name)) # {}
       THEN Fail(c) ELSE Goto(c, "link_insert")
    /\ UNCHANGED <<scenario, catalog, db, seq, objects, torn, crashes>>

LinkInsert(c) ==
    /\ At(c, "link_insert")
    /\ LET parent == ParentOf(Handle(c))
       IN  Insert("link", [file |-> File(c).id, parent |-> parent.id, parent_type |-> parent.kind,
                           child |-> New(c).id, child_type |-> New(c).kind, name |-> Call(c).name])
    /\ Return(c, New(c))
    /\ UNCHANGED <<scenario, catalog, objects, torn, crashes>>

(* H5Oopen takes its reference on the file only when the link was found,   *)
(* and knows groups and datasets.                                          *)
TakesAny(c) == Call(c).op = "object_open"
ObjectOpen(c, kind) == ~TakesAny(c) \/ kind \in {"group", "dataset"}

(* Opening: the link says which row, and of which kind.                    *)
LinkGet(c) ==
    /\ At(c, "link_get")
    /\ LET rows == Found("link", LinkSelector(ParentOf(Handle(c)), Call(c).name))
           row == db["link"][IteratorNext(rows)]
           kind == row["child_type"]
           object == [ObjectNew(kind, FileIndex(c)) EXCEPT !.id = row["child"]]
           p == IF TakesAny(c) THEN Ref(proc[c], FileIndex(c)) ELSE proc[c]
       IN  IF rows = {} THEN Fail(c)
           ELSE IF Cardinality(rows) > 1 THEN Abort(c, "duplicate")
           ELSE IF ~ObjectOpen(c, kind) THEN Fail(c)
           ELSE proc' = [proc EXCEPT ![c] =
                    CASE kind = "group" -> Done(p, object)
                      [] kind = "dataset" -> [p EXCEPT !.new = object, !.pc = "dataset_info"]
                      [] kind = "attr" -> [p EXCEPT !.new = object, !.pc = "attr_info"]]
    /\ UNCHANGED <<scenario, catalog, db, seq, objects, torn, crashes>>

(* Fault: the statistics of a dataset begin anew at every opening.         *)
FaultyInfoOf(object) == object

(* H5VL_julea_db_dataset_set_info: the statistics as they were stored.     *)
InfoOf(object) ==
    [object EXCEPT !.min = Field("dataset", object.id, "min_value_i"),
                   !.max = Field("dataset", object.id, "max_value_i")]

(* The rows of the space and the type are found by their _id.              *)
SpaceDecode(row) == row["space"] \in DOMAIN db["space_header"]
DatatypeDecode(row) == row["datatype"] \in DOMAIN db["datatype_header"]

Readable(t, id) ==
    Found(t, Equals("_id", id)) # {} /\ SpaceDecode(db[t][id]) /\ DatatypeDecode(db[t][id])

DatasetSetInfo(c) ==
    /\ At(c, "dataset_info")
    /\ IF Readable("dataset", New(c).id) THEN Return(c, InfoOf(New(c))) ELSE Fail(c)
    /\ UNCHANGED <<scenario, catalog, db, seq, objects, torn, crashes>>

AttrOpen(c) ==
    /\ At(c, "attr_info")
    /\ IF Readable("attr", New(c).id) THEN Return(c, New(c)) ELSE Fail(c)
    /\ UNCHANGED <<scenario, catalog, db, seq, objects, torn, crashes>>

-----------------------------------------------------------------------------
(* Data.                                                                   *)

(* calculate_statistics casts what is unsigned to the signed type of the   *)
(* same width: the larger half of the numbers become negative ones.        *)
AsSigned(value) == IF value >= 2 ^ (Bits - 1) THEN value - 2 ^ Bits ELSE value

(* Least and largest value so far, beginning at 0.                         *)
Statistics(object, value) ==
    [object EXCEPT !.min = Min({object.min, AsSigned(value)}),
                   !.max = Max({object.max, AsSigned(value)})]

DatasetWrite(c) ==
    /\ At(c, "dataset_write")
    /\ objects' = [objects EXCEPT ![Handle(c).id] = Call(c).value]
    /\ proc' = [proc EXCEPT ![c] =
           Done([@ EXCEPT !.handles[Call(c).on] = Statistics(Handle(c), Call(c).value)], NULL)]
    /\ UNCHANGED <<scenario, catalog, db, seq, torn, crashes>>

DatasetRead(c) ==
    /\ At(c, "dataset_read")
    /\ proc' = [proc EXCEPT ![c] = [Done(@, NULL) EXCEPT !.out = <<objects[Handle(c).id]>>]]
    /\ UNCHANGED <<scenario, catalog, db, seq, objects, torn, crashes>>

ThisRow(c) == Equals("_id", Handle(c).id)

AttrWrite(c) ==
    /\ At(c, "attr_write")
    /\ IF Found("attr", ThisRow(c)) = {} THEN Fail(c) /\ UNCHANGED db
       ELSE /\ db' = [db EXCEPT !["attr"] =
                          EntryUpdate(@, ThisRow(c), [file |-> File(c).id, data |-> Call(c).value])]
            /\ Return(c, NULL)
    /\ UNCHANGED <<scenario, catalog, seq, objects, torn, crashes>>

(* An attribute without data has 0 bytes: the assertion on the size fails. *)
AttrRead(c) ==
    /\ At(c, "attr_read")
    /\ IF Found("attr", ThisRow(c)) = {} THEN Fail(c)
       ELSE IF Field("attr", Handle(c).id, "data") = Empty THEN Abort(c, "unwritten")
       ELSE proc' = [proc EXCEPT ![c] =
                [Done(@, NULL) EXCEPT !.out = <<Field("attr", Handle(c).id, "data")>>]]
    /\ UNCHANGED <<scenario, catalog, db, seq, objects, torn, crashes>>

-----------------------------------------------------------------------------
(* Closing.                                                                *)

(* H5VL_julea_db_object_unref for the handle of the application.           *)
Closed(p, k) ==
    LET handle == p.handles[k]
        q == [p EXCEPT !.handles[k].open = FALSE, !.handles[k].ref = @ - 1]
    IN  IF handle.kind = "file" \/ IsRoot(handle) THEN q ELSE Unref(q, handle.file)

CloseHandle(c) == proc' = [proc EXCEPT ![c] = Done(Closed(proc[c], Call(c).on), NULL)]

Close(c) ==
    /\ At(c, "close")
    /\ Handle(c).kind # "dataset"
    /\ CloseHandle(c)
    /\ UNCHANGED <<scenario, catalog, db, seq, objects, torn, crashes>>

(* A dataset first stores its statistics, also when it was only read.  If  *)
(* its row is gone the call fails, but lets go of the dataset as well.     *)
StoredStatistics(handle) == [min_value_i |-> handle.min, max_value_i |-> handle.max]

DatasetClose(c) ==
    /\ At(c, "close")
    /\ Handle(c).kind = "dataset"
    /\ db' = [db EXCEPT !["dataset"] = EntryUpdate(@, ThisRow(c), StoredStatistics(Handle(c)))]
    /\ CloseHandle(c)
    /\ UNCHANGED <<scenario, catalog, seq, objects, torn, crashes>>

-----------------------------------------------------------------------------
(* Links.                                                                  *)

(* The object's own id and type are looked up, for a file too.  A missing  *)
(* link is an error that is freed twice.                                   *)
LinkExists(c) ==
    /\ At(c, "exists")
    /\ IF Found("link", LinkSelector(Handle(c), Call(c).name)) # {} THEN Return(c, NULL)
       ELSE Fail(c) \/ Abort(c, "double free")
    /\ UNCHANGED <<scenario, catalog, db, seq, objects, torn, crashes>>

(* One level of an iteration: the object, and the rows in the reply to the *)
(* query for its links.  The references that the levels take are given     *)
(* back before the call returns, on its error paths too.                   *)
Frame(object) ==
    [object |-> object,
     rows |-> [i \in Found("link", LinksBelow(ParentOf(object))) |-> db["link"][i]]]
Top(c) == proc[c].frames[Len(proc[c].frames)]

Iterate(c) ==
    /\ At(c, "iterate")
    /\ proc' = [proc EXCEPT ![c].frames = <<Frame(Handle(c))>>, ![c].pc = "visit"]
    /\ UNCHANGED <<scenario, catalog, db, seq, objects, torn, crashes>>

(* An attribute iteration shows the attributes, any other what is not one. *)
Shown(c, row) == Call(c).attr <=> row["child_type"] = "attr"
Descends(c, row) == Call(c).recursive /\ row["child_type"] = "group"

(* The group below a link is opened by its name: below a file that gives   *)
(* the root group, whatever the name.                                      *)
Visit(c) ==
    /\ At(c, "visit")
    /\ DOMAIN Top(c).rows # {}
    /\ LET id == IteratorNext(DOMAIN Top(c).rows)
           row == Top(c).rows[id]
           rest == [i \in DOMAIN Top(c).rows \ {id} |-> Top(c).rows[i]]
           object == Top(c).object
           p == [proc[c] EXCEPT !.frames[Len(proc[c].frames)].rows = rest,
                                !.out = IF Shown(c, row) THEN Append(@, id) ELSE @]
       IN  proc' = [proc EXCEPT ![c] =
               IF ~Descends(c, row) THEN p
               ELSE IF object.kind = "file" THEN [p EXCEPT !.pc = "descend", !.child = ParentOf(object)]
               ELSE [p EXCEPT !.pc = "child_open", !.child = row["name"]]]
    /\ UNCHANGED <<scenario, catalog, db, seq, objects, torn, crashes>>

(* Fault: every group is looked for below the one the iteration began at.  *)
FaultyLevel(c) == proc[c].frames[1].object

(* The object in which group_open looks for a name during an iteration.    *)
Level(c) == Top(c).object

ChildOpen(c) ==
    /\ At(c, "child_open")
    /\ LET rows == Found("link", LinkSelector(Level(c), proc[c].child))
           row == db["link"][IteratorNext(rows)]
       IN  IF rows = {} THEN Fail(c)
           ELSE IF Cardinality(rows) > 1 THEN Abort(c, "duplicate")
           ELSE proc' = [proc EXCEPT ![c].pc = "descend",
                                     ![c].child = [kind |-> row["child_type"], id |-> row["child"]]]
    /\ UNCHANGED <<scenario, catalog, db, seq, objects, torn, crashes>>

Descend(c) ==
    /\ At(c, "descend")
    /\ proc' = [proc EXCEPT ![c].frames = Append(@, Frame(proc[c].child)), ![c].pc = "visit",
                            ![c].child = NULL]
    /\ UNCHANGED <<scenario, catalog, db, seq, objects, torn, crashes>>

Ascend(c) ==
    /\ At(c, "visit")
    /\ DOMAIN Top(c).rows = {}
    /\ IF Len(proc[c].frames) = 1 THEN Return(c, NULL)
       ELSE proc' = [proc EXCEPT ![c].frames = Front(@)]
    /\ UNCHANGED <<scenario, catalog, db, seq, objects, torn, crashes>>

-----------------------------------------------------------------------------
(* A process dies and is started again: it goes on behind the call it was  *)
(* in, without any of its handles.                                         *)
Crash(c) ==
    /\ crashes < scenario.crashes
    /\ proc[c].pc # "aborted"
    /\ crashes' = crashes + 1
    /\ proc' = [proc EXCEPT ![c] =
           [Start EXCEPT !.handles =
               [i \in 1 .. Len(proc[c].handles) + (IF At(c, "idle") \/ proc[c].tables < Len(InitOrder)
                                                   THEN 0 ELSE 1) |-> NULL]]]
    /\ UNCHANGED <<scenario, catalog, db, seq, objects, torn>>

Step(c) ==
    \/ InitGet(c) \/ InitCreate(c) \/ InitGetAgain(c) 
    \/ SkipCall(c) \/ OpenRootGroup(c) \/ BeginObject(c) \/ BeginCall(c)
    \/ FileCreate(c) \/ FileOpen(c) \/ FileAccessible(c) \/ FileInsert(c) \/ RootInsert(c) \/ RootUpdate(c) \/ Truncate(c)
    \/ FileDeleteOpen(c) \/ FileDelete(c) \/ RootDelete(c)
    \/ DatatypeEncode(c) \/ DatatypeInsert(c) \/ SpaceEncode(c) \/ SpaceInsert(c) \/ DimInsert(c)
    \/ CreateInsert(c) \/ ObjectCreate(c) \/ LinkCheck(c) \/ LinkInsert(c)
    \/ LinkGet(c) \/ DatasetSetInfo(c) \/ AttrOpen(c)
    \/ DatasetWrite(c) \/ DatasetRead(c) \/ AttrWrite(c) \/ AttrRead(c)
    \/ Close(c) \/ DatasetClose(c)
    \/ LinkExists(c) \/ Iterate(c) \/ Visit(c) \/ ChildOpen(c) \/ Descend(c) \/ Ascend(c)

Next == \E c \in Processes : Step(c) \/ Crash(c)

Spec == Init /\ [][Next]_vars

-----------------------------------------------------------------------------
(* Properties.                                                             *)

CallsOf(c) == Range(scenario.program[c])
Writers == {c \in Processes : \E call \in CallsOf(c) : Writes(call)}
Truncaters == {c \in Processes : \E call \in CallsOf(c) : Truncates(call)}
Rows(t) == Range(db[t])

(* With a single writing process, which may die in any call and be started *)
(* again, a name stands for one thing: no two files have the same name, no *)
(* two links of a parent do, and the assertions of file_create, file_open, *)
(* link_get_helper and their kind that only one row was found hold.        *)
NamesAreUnique ==
    Cardinality(Writers) <= 1 =>
        /\ \A i, j \in DOMAIN db["file"] : db["file"][i]["name"] = db["file"][j]["name"] => i = j
        /\ \A i, j \in DOMAIN db["link"] :
               (\A f \in {"parent", "parent_type", "name"} : db["link"][i][f] = db["link"][j][f]) => i = j
        /\ \A c \in Processes : proc[c].why # "duplicate"

(* As long as nobody truncates files that others write, every link leads   *)
(* to a row of its own file: an object is created before its link, and a   *)
(* truncation that is over (H5VL_julea_db_*_truncate_file) has removed the *)
(* links as well as what they led to.  What a process has open belongs to  *)
(* the file it opened it in, because the links of a file hang on its root  *)
(* group; excepted are files that were not created to the end, which have  *)
(* all the same parent, and databases that use an _id again.               *)
LinksResolve ==
    /\ (\A c \in Truncaters : Writers \subseteq {c}) =>
          \A link \in Rows("link") :
              \/ link["file"] \in torn
              \/ /\ link["child"] \in DOMAIN db[link["child_type"]]
                 /\ db[link["child_type"]][link["child"]]["file"] = link["file"]
    /\ ~scenario.reuse => \A c \in Processes : \A k \in DOMAIN proc[c].handles :
          LET h == proc[c].handles[k]
          IN  (h # NULL /\ h.kind # "file" /\ h.open) =>
                  LET file == proc[c].handles[h.file]
                  IN  \/ file.root = 0
                      \/ h.id \notin DOMAIN db[h.kind]
                      \/ db[h.kind][h.id]["file"] = file.id

(* A file lives exactly as long as somebody needs it: its references are   *)
(* the application's, one for every open object but the root group, and    *)
(* one for the object a call is making; failed calls give theirs back.     *)
FileRefsExact ==
    \A c \in Processes : proc[c].pc # "aborted" =>
        LET p == proc[c]
            Users(f) == {k \in DOMAIN p.handles :
                            /\ p.handles[k] # NULL /\ p.handles[k].kind # "file"
                            /\ p.handles[k].open /\ ~IsRoot(p.handles[k])
                            /\ p.handles[k].file = f}
        IN  \A f \in DOMAIN p.handles :
                (p.handles[f] # NULL /\ p.handles[f].kind = "file") =>
                    p.handles[f].ref =
                        (IF p.handles[f].open THEN 1 ELSE 0) + Cardinality(Users(f))
                        + (IF p.new # NULL /\ p.new.kind # "file" /\ p.new.file = f THEN 1 ELSE 0)

DatasetUsers ==
    {c \in Processes : \E call \in CallsOf(c) :
        call.op = "object_open" \/ (call.op \in {"create", "open"} /\ call.kind = "dataset")}

InUse(id) ==
    \E c \in Processes :
        \/ \E k \in DOMAIN proc[c].handles :
               /\ proc[c].handles[k] # NULL /\ proc[c].handles[k].kind = "dataset"
               /\ proc[c].handles[k].open /\ proc[c].handles[k].id = id
        \/ New(c) # NULL /\ New(c).kind = "dataset" /\ New(c).id = id

(* The program of c closes handle k before call j.                         *)
ClosedBefore(c, k, j) ==
    \E i \in k + 1 .. j - 1 :
        scenario.program[c][i].op = "close" /\ scenario.program[c][i].on = k

(* No two handles of a dataset were open at once.                          *)
OneByOne(id) ==
    \A c \in Processes :
        LET Of == {k \in DOMAIN proc[c].handles :
                      /\ proc[c].handles[k] # NULL
                      /\ proc[c].handles[k].kind = "dataset" /\ proc[c].handles[k].id = id}
        IN  \A k, j \in Of : k < j => ClosedBefore(c, k, j)

(* The statistics of a closed dataset cover its contents, over any number  *)
(* of openings one after the other by one process that does not die:       *)
(* opening reads the statistics back before closing stores them again.     *)
(* With two handles open at once the second close stores what its handle   *)
(* had read before the first one wrote, so nothing is claimed.  Contents   *)
(* are covered as the signed numbers they were counted as: an unsigned one *)
(* that has no signed counterpart is not covered itself.                   *)
StatisticsCover ==
    (~scenario.reuse /\ crashes = 0 /\ Cardinality(DatasetUsers) <= 1) =>
        \A id \in DOMAIN db["dataset"] :
            \/ InUse(id) \/ ~OneByOne(id) \/ id \notin DOMAIN objects \/ objects[id] = Empty
            \/ AsSigned(objects[id]) \in
                  db["dataset"][id]["min_value_i"] .. db["dataset"][id]["max_value_i"]

(* An iteration below a group shows every link of the subtree once, and no *)
(* other, while nobody else writes.  (H5VL_julea_db_link_iterate_helper on *)
(* a file goes through the root group again for every group in it.)        *)
LastCall(c) == scenario.program[c][Len(proc[c].handles)]
IterationIsExact ==
    \A c \in Processes :
        (/\ proc[c].pc = "idle" /\ proc[c].handles # <<>> /\ LastCall(c).op = "iterate"
         /\ proc[c].out # <<>>
         /\ LastCall(c).recursive /\ ~LastCall(c).attr /\ Writers \subseteq {c}) =>
            LET start == proc[c].handles[LastCall(c).on]
                shown == Range(proc[c].out)
                Below(parent) == {i \in Found("link", LinksBelow(parent)) :
                                     db["link"][i]["child_type"] # "attr"}
            IN  (start # NULL /\ start.kind = "group") =>
                    /\ IsInjective(proc[c].out)
                    /\ Below(start) \subseteq shown
                    /\ \A i \in shown :
                           /\ Below([kind |-> db["link"][i]["child_type"],
                                     id |-> db["link"][i]["child"]]) \subseteq shown
                           /\ \/ i \in Below(start)
                              \/ \E j \in shown : i \in Below([kind |-> db["link"][j]["child_type"],
                                                              id |-> db["link"][j]["child"]])

(* What is new is empty: a file that was just created has a root group     *)
(* without links, a dataset an object without contents.  It takes numbers  *)
(* that the database never gives out twice, because deleting or truncating *)
(* a file leaves links and objects behind.                                 *)
NewIsEmpty ==
    [][~scenario.reuse => \A c \in Processes :
           /\ (At(c, "root_update") /\ db' # db /\ proc'[c].pc = "idle") =>
                  Found("link", LinksBelow([kind |-> "group", id |-> New(c).root])) = {}
           /\ (At(c, "object") /\ proc'[c].pc = "link_check") => objects'[New(c).id] = Empty
      ]_vars
=============================================================================
