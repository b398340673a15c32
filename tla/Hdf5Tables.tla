----------------------------- MODULE Hdf5Tables -----------------------------
(***************************************************************************)
(* The tables of the HDF5 plugin lib/hdf5-db, as its init functions build  *)
(* them, and the statements the plugin makes of them.  A row is a function *)
(* from field names to values; its _id is the key under which the table    *)
(* keeps it.                                                               *)
(***************************************************************************)
EXTENDS DatabaseClient

WithFields(schema, names) ==
    FoldLeft(LAMBDA s, name : SchemaAddField(s, name), schema, names)

FileTable ==
    SchemaAddIndex(WithFields(SchemaNew, <<"name", "root_group">>), {"name"})

DatasetTable ==
    SchemaAddIndex(WithFields(SchemaNew,
        <<"file", "datatype", "space", "min_value_f", "max_value_f", "min_value_i", "max_value_i">>),
        {"file"})

AttrTable ==
    SchemaAddIndex(WithFields(SchemaNew, <<"file", "datatype", "space", "data">>), {"file"})

(* The fields that H5Tget_* fills in for readers of the tables; the plugin *)
(* itself only uses type_cache and type_size.                              *)
DatatypeTable ==
    WithFields(SchemaNew, <<"type_cache", "type_class", "type_size", "type_order", "type_precision",
                            "type_offset", "type_sign", "type_ebias", "type_norm", "type_inpad",
                            "type_cset", "type_strpad">>)

GroupTable == SchemaAddIndex(WithFields(SchemaNew, <<"file">>), {"file"})

SpaceHeaderTable == WithFields(SchemaNew, <<"dim_cache", "dim_count", "dim_total_count">>)
SpaceTable == WithFields(SchemaNew, <<"dim_id", "dim_index", "dim_size">>)

LinkTable ==
    SchemaAddIndex(SchemaAddIndex(
        WithFields(SchemaNew, <<"file", "parent", "parent_type", "child", "child_type", "name">>),
        {"parent", "parent_type", "name"}), {"file"})

(* H5VL_julea_db_init prepares the tables in this order.                   *)
InitOrder == << "file", "dataset", "attr", "datatype_header", "group",
                "space_header", "space", "link" >>
Tables == Range(InitOrder)

Schemas ==
    [t \in Tables |->
        CASE t = "file" -> FileTable               [] t = "dataset" -> DatasetTable
          [] t = "attr" -> AttrTable               [] t = "datatype_header" -> DatatypeTable
          [] t = "group" -> GroupTable             [] t = "space_header" -> SpaceHeaderTable
          [] t = "space" -> SpaceTable             [] t = "link" -> LinkTable]
=============================================================================
