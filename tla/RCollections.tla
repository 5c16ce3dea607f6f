---------------------------- MODULE RCollections ----------------------------
(***************************************************************************)
(* One schema over many files: what the catalogs say of the columns, the   *)
(* plan that is made from them alone, and what the readers of each format   *)
(* make of a file under that plan.                                           *)
(*                                                                         *)
(* A column's type is [kind, detail, altrep, holds]: detail is the levels   *)
(* of a factor, the zone of a datetime, if any, else empty; altrep tells    *)
(* that R wrote the vector in a compact or wrapped form; holds, what of the *)
(* values themselves decides a pandas dtype: that some are missing, that     *)
(* some are no whole number of seconds.                                       *)
(***************************************************************************)
EXTENDS RFrames

CONSTANT Zones \* external: the time zones that pandas knows

MissingLevel == "NA"

ColumnTypes == [kind : {"integer", "character", "factor", "datetime", "date", "duration"}, detail : Seq(STRING),
                altrep : BOOLEAN, holds : SUBSET {"missing", "fraction"}]

Fillable == {"integer", "character", "factor"}

(***************************************************************************)
(* What a catalog says of a type.  The structural pass sees neither the     *)
(* kind nor the attributes of an ALTREP vector, and spells a missing level   *)
(* as an empty one; it keeps no time zone.                                    *)
(***************************************************************************)
_column_info_from_scan(type) ==
  IF type.altrep THEN [kind |-> "sexp_238", levels |-> <<>>]
  ELSE [kind   |-> type.kind,
        levels |-> IF type.kind # "factor" THEN <<>>
                   ELSE [i \in DOMAIN type.detail |->
                           IF type.detail[i] = MissingLevel THEN "" ELSE type.detail[i]]]

\* A column of a catalog or of a table by its name.
Of(columns, name) == columns[CHOOSE i \in DOMAIN columns : columns[i].name = name]

Within(names, columns) == ToSet(names) \subseteq ToSet(Names(columns))

\* The files that have a column of that name.
Present(infos, name) == { f \in DOMAIN infos : Within(<<name>>, infos[f]) }

\* The names of all files: the first file's, then what others add.
Unified(infos) ==
  LET listed[f \in 0 .. Len(infos)] ==
        IF f = 0 THEN <<>> ELSE listed[f - 1] \o Names(infos[f])
  IN Once(listed[Len(infos)])

Infos(infos, name) ==
  { _column_info_from_scan(Of(infos[f], name).type) : f \in Present(infos, name) }

Kinds(infos, name) == { info.kind : info \in Infos(infos, name) }

\* Mutant of Absent: only the first file may lack a column.
Absent_first(infos, name) == 1 \notin Present(infos, name)

\* Missing somewhere.
Absent(infos, name) == Present(infos, name) # DOMAIN infos

\* Mutant of Decoded: levels are not compared.
Decoded_missing(infos, names) ==
  { name \in names : Kinds(infos, name) = {"factor"} /\ Absent(infos, name) }

\* Factors whose levels differ, or that some file lacks.
Decoded(infos, names) ==
  { name \in names : /\ Kinds(infos, name) = {"factor"}
                     /\ Cardinality(Infos(infos, name)) > 1 \/ Absent(infos, name) }

\* The name and kind of what null-filled columns may be missing.
Fills(infos, names) == { name \in names : Absent(infos, name) }

Refused(why) == [ok |-> FALSE, why |-> why, columns |-> <<>>, fills |-> {}, decode |-> {}, kinds |-> <<>>]

\* RDSCollection._build_plan, from the columns of the selected tables.
_build_plan(infos, mode, columns, generated) ==
  LET unified == IF mode = "strict" THEN Names(infos[1]) ELSE Unified(infos)
      wanted  == IF columns = None THEN unified ELSE columns
      names   == ToSet(wanted)
  IN IF \E f \in DOMAIN infos : ~IsInjective(Names(infos[f])) THEN Refused("duplicate")
     ELSE IF mode = "strict" /\ \E f \in DOMAIN infos : Names(infos[f]) # unified THEN Refused("layout")
     ELSE IF ~(names \subseteq ToSet(unified)) THEN Refused("unknown")
     ELSE IF \E name \in names : Cardinality(Kinds(infos, name)) > 1 THEN Refused("type")
     ELSE IF \E name \in Fills(infos, names) : ~(Kinds(infos, name) \subseteq Fillable) THEN Refused("missing")
     ELSE IF ~IsInjective(generated) \/ ToSet(generated) \cap names # {} THEN Refused("collides")
     ELSE [ok |-> TRUE, why |-> "ok", columns |-> wanted,
           fills |-> Fills(infos, names), decode |-> Decoded(infos, names),
           kinds |-> [name \in names |-> CHOOSE kind \in Kinds(infos, name) : TRUE]]

-----------------------------------------------------------------------------
(* The types that Arrow and pandas give to what is read. *)

_column_to_arrow(type, naive) ==
  CASE type.kind = "integer"   -> <<"int32">>
    [] type.kind = "character" -> IF type.altrep THEN <<"string">> ELSE <<"large_string">>
    [] type.kind = "factor"    -> <<"dictionary">>
    [] type.kind = "datetime"  -> IF naive THEN <<"timestamp">> ELSE <<"timestamp">> \o type.detail
    [] type.kind = "date"      -> <<"date32">>
    [] type.kind = "duration"  -> <<"duration">>

_arrow_fill_type(kind) ==
  CASE kind = "integer" -> <<"int32">> [] kind = "character" -> <<"large_string">>
    [] kind = "factor"  -> <<"string">>

\* A categorical has the levels that are not missing.
Categories(levels) == SelectSeq(levels, LAMBDA level : level # MissingLevel)

\* _numpy_temporal: nanoseconds as soon as one value needs them.
Unit(type) == IF "fraction" \in type.holds THEN "ns" ELSE "s"

\* What is in a zone stays in UTC, if pandas does not know the zone.
PandasZone(zone) == IF zone = <<>> THEN <<>> ELSE IF zone[1] \in Zones \ {"GMT"} THEN zone ELSE <<"UTC">>

_column_to_pandas(type, naive) ==
  CASE type.kind = "integer"   -> IF "missing" \in type.holds THEN <<"Int32">> ELSE <<"int32">>
    [] type.kind = "character" -> <<"object">>
    [] type.kind = "factor"    -> <<"category", Categories(type.detail)>>
    [] type.kind = "datetime"  -> <<"datetime64", Unit(type)>> \o IF naive THEN <<>> ELSE PandasZone(type.detail)
    [] type.kind = "date"      -> <<"datetime64", Unit(type)>>
    [] type.kind = "duration"  -> <<"timedelta64", Unit(type)>>

_pandas_fill(kind) == IF kind = "integer" THEN <<"Int32">> ELSE <<"object">>

\* What a file's own column becomes.
ReadType(type, format, decoded, naive) ==
  IF decoded /\ type.kind = "factor"
  THEN IF format = "arrow" THEN <<"string">> ELSE <<"object">>
  ELSE IF format = "arrow" THEN _column_to_arrow(type, naive) ELSE _column_to_pandas(type, naive)

FillType(kind, format) == IF format = "arrow" THEN _arrow_fill_type(kind) ELSE _pandas_fill(kind)

\* Some column that is not in the table has no fill.
Unfillable(table, plan) ==
  \E name \in ToSet(plan.columns) \ ToSet(Names(table)) : name \notin plan.fills

\* Mutant of Align: by position, as if all files had the plan's layout.
Align_by_position(table, plan, format, naive) ==
  LET names == Once(plan.columns)
  IN [n \in DOMAIN names |->
        IF n \in DOMAIN table
        THEN [name |-> names[n], value |-> table[n].value,
              type |-> ReadType(table[n].type, format, names[n] \in plan.decode, naive)]
        ELSE [name |-> names[n], value |-> None, type |-> FillType(plan.kinds[names[n]], format)]]

\* _align_arrow, and the loop of _file_to_pandas: the table under the plan.
Align(table, plan, format, naive) ==
  LET names == Once(plan.columns)
  IN [n \in DOMAIN names |->
        IF Within(<<names[n]>>, table)
        THEN LET column == Of(table, names[n])
             IN [name |-> names[n], value |-> column.value,
                 type |-> ReadType(column.type, format, names[n] \in plan.decode, naive)]
        ELSE [name |-> names[n], value |-> None, type |-> FillType(plan.kinds[names[n]], format)]]

\* The generated columns, partitions and source, after those of the plan.
With(table, generated, format, f) ==
  table \o [n \in DOMAIN generated |->
              [name |-> generated[n], value |-> f,
               type |-> IF format = "arrow" THEN <<"string">> ELSE <<"object">>]]

\* The types of a table's columns, by their places.
Types(table) == [n \in DOMAIN table |-> <<table[n].name, table[n].type>>]
=============================================================================
