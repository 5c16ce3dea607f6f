---------------------------- MODULE Differences ----------------------------
(***************************************************************************)
(* diff_rds: the catalogs of two files are compared, then, if asked, their  *)
(* contents, which are read later and matched by the catalogs' positions.    *)
(* Each look opens the file again, and another program may replace it.       *)
(*                                                                         *)
(* A file is [compression, tables], a table [name, rows, columns], a column  *)
(* [name, kind, altrep, levels, detail, cells]: of an ALTREP vector the      *)
(* catalog sees neither the kind nor the levels, and of no column the detail, *)
(* which is a datetime's zone or the type that Arrow infers from the elements *)
(* of a list, and the cells, which are as Arrow has them.                      *)
(***************************************************************************)
EXTENDS Integers, Sequences, FiniteSets, SequencesExt

CONSTANTS
  Contents,  \* what the files may hold
  None,
  Null, NaN, \* a missing cell; a missing or undefined double
  Holed,     \* the complex and list cells that have a NaN in them
  MaxChanges \* bound: how often other programs replace a file

\* Integers stand for all kinds whose missing cells are nulls and whose Arrow
\* type is theirs alone: logical, raw, dates and durations.
Kinds == {"integer", "double", "factor", "character", "datetime", "complex", "list"}
Inferred == {<<"double">>, <<"int64">>, <<"string">>, <<"list">>}

\* Every column of a table has a cell for each of its rows.
ASSUME FilesAssumption ==
  /\ MaxChanges \in Nat
  /\ \A f \in Contents :
       /\ f.tables \in Seq(ToSet(f.tables))
       /\ \A t \in ToSet(f.tables) :
            /\ t.columns \in Seq(ToSet(t.columns))
            /\ \A c \in ToSet(t.columns) :
                 /\ c.kind \in Kinds /\ c.altrep \in BOOLEAN /\ (c.kind = "list" => c.detail \in Inferred)
                 /\ c.cells \in Seq(ToSet(c.cells)) /\ Len(c.cells) = t.rows

Sides == {"left", "right"}

VARIABLES
  disk,     \* external: what each file holds
  changes,  \* external: how often one was replaced
  content,  \* the parameter
  catalog,  \* what was seen of each file, or None
  arrow,    \* the tables that were read of each file, or None
  entries,  \* the report
  pc

vars == <<disk, changes, content, catalog, arrow, entries, pc>>

-----------------------------------------------------------------------------
(* What the catalogs show. *)

ColumnInfo(column) ==
  [name |-> column.name,
   type |-> IF column.altrep THEN "sexp_238" ELSE column.kind,
   levels |-> IF column.altrep THEN <<>> ELSE column.levels]

TableInfo(table) ==
  [name |-> table.name, rows |-> table.rows,
   columns |-> [i \in DOMAIN table.columns |-> ColumnInfo(table.columns[i])]]

Seen(file) ==
  [compression |-> file.compression, tables |-> [t \in DOMAIN file.tables |-> TableInfo(file.tables[t])]]

\* Tables by their names: of doubles, the last.
TableNames(tables) == { tables[t].name : t \in DOMAIN tables }

Place(tables, name) ==
  CHOOSE t \in DOMAIN tables :
    tables[t].name = name /\ \A u \in DOMAIN tables : tables[u].name = name => u <= t

-----------------------------------------------------------------------------
(* The structural tier. *)

Entry(kind, table, column) == [kind |-> kind, table |-> table, column |-> column]

\* Mutant of _keyed_columns: names alone.
_keyed_columns_plain(columns) == [i \in DOMAIN columns |-> <<columns[i].name, 1>>]

\* Each column by its name and how many of that name are up to it.
_keyed_columns(columns) ==
  [i \in DOMAIN columns |->
     <<columns[i].name, Cardinality({ j \in 1 .. i : columns[j].name = columns[i].name })>>]

Position(keys, key) == CHOOSE i \in DOMAIN keys : keys[i] = key

\* The keys that both have come in one order.
InOrder(keys, others) ==
  \A k, m \in ToSet(keys) \cap ToSet(others) :
    Position(keys, k) < Position(keys, m) <=> Position(others, k) < Position(others, m)

\* The common columns of one type, which can be compared cell by cell.
Comparable(left, right) ==
  LET lefts == _keyed_columns(left.columns) rights == _keyed_columns(right.columns)
  IN { key \in ToSet(lefts) \cap ToSet(rights) :
         left.columns[Position(lefts, key)].type = right.columns[Position(rights, key)].type }

_diff_table(left, right) ==
  LET lefts  == _keyed_columns(left.columns)
      rights == _keyed_columns(right.columns)
      both   == ToSet(lefts) \cap ToSet(rights)
      before(key) == left.columns[Position(lefts, key)]
      after(key)  == right.columns[Position(rights, key)]
  IN (IF left.rows = right.rows THEN {} ELSE {Entry("rows_changed", left.name, None)})
     \cup { Entry("column_removed", left.name, key) : key \in ToSet(lefts) \ both }
     \cup { Entry("column_added", left.name, key) : key \in ToSet(rights) \ both }
     \cup (IF InOrder(lefts, rights) THEN {}
           ELSE {Entry("columns_reordered", left.name, None)})
     \cup { Entry("type_changed", left.name, key) : key \in both \ Comparable(left, right) }
     \cup { Entry("levels_changed", left.name, key) :
              key \in { k \in Comparable(left, right) : before(k).levels # after(k).levels } }

\* Mutant of Structure: only what the left file has.
Structure_left(left, right) ==
  UNION { _diff_table(left.tables[Place(left.tables, name)], right.tables[Place(right.tables, name)]) :
            name \in TableNames(left.tables) \cap TableNames(right.tables) }
    \cup { Entry("table_removed", name, None) : name \in TableNames(left.tables) \ TableNames(right.tables) }

Structure(left, right) ==
  LET both == TableNames(left.tables) \cap TableNames(right.tables)
      l(name) == left.tables[Place(left.tables, name)]
      r(name) == right.tables[Place(right.tables, name)]
  IN (IF left.compression = right.compression THEN {} ELSE {Entry("compression_changed", None, None)})
     \cup { Entry("table_removed", name, None) : name \in TableNames(left.tables) \ both }
     \cup { Entry("table_added", name, None) : name \in TableNames(right.tables) \ both }
     \cup UNION { _diff_table(l(name), r(name)) : name \in both }

-----------------------------------------------------------------------------
(* The content tier. *)

\* The types that Arrow gives to the columns.
ArrowType(column) ==
  CASE column.kind = "integer" -> <<"int32">> [] column.kind = "double" -> <<"double">>
    [] column.kind = "factor"  -> <<"dictionary">>
    [] column.kind = "character" -> IF column.altrep THEN <<"string">> ELSE <<"large_string">>
    [] column.kind = "datetime" -> <<"timestamp", column.detail>>
    [] column.kind = "complex"  -> <<"struct">>
    [] column.kind = "list"     -> column.detail

\* No kernel of Arrow compares these row by row.
Nested == {<<"struct">>, <<"list">>}

\* Two cells differ if both are there and are unequal, unless both are NaN,
\* or if one of them is missing. Of nested cells only equals() can tell, for
\* which no NaN in a cell equals another: -1 is inequality without a count.
_differing_rows(type, left, right) ==
  IF type \in Nested
  THEN IF left = right /\ (\A i \in DOMAIN left : left[i] \notin Holed) THEN 0 ELSE -1
  ELSE Cardinality({ i \in DOMAIN left :
                       /\ \/ Null \notin {left[i], right[i]} /\ (left[i] # right[i] \/ left[i] = NaN)
                          \/ (left[i] = Null) # (right[i] = Null)
                       /\ ~(left[i] = NaN /\ right[i] = NaN) })

\* A table that the catalogs show as l and r and that was read as left and right.
ContentOf(name, l, r, left, right) ==
  LET lefts == _keyed_columns(l.columns) rights == _keyed_columns(r.columns)
      before(key) == left.columns[Position(lefts, key)]
      after(key)  == right.columns[Position(rights, key)]
      \* Positions that the tables do not have (any more) are passed over.
      keys == { key \in Comparable(l, r) :
                  /\ Position(lefts, key) \in DOMAIN left.columns
                  /\ Position(rights, key) \in DOMAIN right.columns
                  /\ left.rows = right.rows }
      other == { key \in keys : ArrowType(before(key)) # ArrowType(after(key)) }
  IN { Entry("type_changed", name, key) : key \in other }
     \cup { Entry("values_changed", name, key) :
              key \in { k \in keys \ other :
                          _differing_rows(ArrowType(before(k)), before(k).cells, after(k).cells) # 0 } }

\* The common tables, found by their places in the catalogs.
Content(left, right, lefts, rights) ==
  UNION { ContentOf(name, left.tables[Place(left.tables, name)], right.tables[Place(right.tables, name)],
                    lefts[Place(left.tables, name)], rights[Place(right.tables, name)]) :
            name \in TableNames(left.tables) \cap TableNames(right.tables) }

-----------------------------------------------------------------------------
Init ==
  /\ disk \in [Sides -> Contents] /\ changes = 0 /\ content \in BOOLEAN
  /\ catalog = [s \in Sides |-> None] /\ arrow = [s \in Sides |-> None]
  /\ entries = {} /\ pc = "inspect"

Replace(s) ==
  /\ changes < MaxChanges /\ pc \notin {"done", "invalid"}
  /\ \E file \in Contents \ {disk[s]} : disk' = [disk EXCEPT ![s] = file]
  /\ changes' = changes + 1
  /\ UNCHANGED <<content, catalog, arrow, entries, pc>>

\* inspect_r_file and list_rds_tables, the left file first.
TakeCatalog(s) ==
  /\ pc = "inspect" /\ catalog[s] = None /\ (s = "right" => catalog.left # None)
  /\ catalog' = [catalog EXCEPT ![s] = Seen(disk[s])]
  /\ pc' = IF s = "right" THEN "structure" ELSE pc
  /\ UNCHANGED <<disk, changes, content, arrow, entries>>

DiffStructure ==
  /\ pc = "structure"
  /\ entries' = Structure(catalog.left, catalog.right)
  /\ pc' = IF content THEN "read" ELSE "done"
  /\ UNCHANGED <<disk, changes, content, catalog, arrow>>

\* tables_by_catalog: as many tables as the catalog has, by their positions.
ReadArrow(s) ==
  /\ pc = "read" /\ arrow[s] = None /\ (s = "right" => arrow.left # None)
  /\ arrow' = [arrow EXCEPT ![s] = disk[s].tables]
  /\ pc' = IF Len(disk[s].tables) # Len(catalog[s].tables) THEN "invalid"
           ELSE IF s = "right" THEN "content" ELSE pc
  /\ UNCHANGED <<disk, changes, content, catalog, entries>>

DiffContent ==
  /\ pc = "content"
  /\ entries' = entries \cup Content(catalog.left, catalog.right, arrow.left, arrow.right)
  /\ pc' = "done"
  /\ UNCHANGED <<disk, changes, content, catalog, arrow>>

Next ==
  \/ \E s \in Sides : Replace(s) \/ TakeCatalog(s) \/ ReadArrow(s)
  \/ DiffStructure \/ DiffContent

Spec == Init /\ [][Next]_vars

-----------------------------------------------------------------------------
(* Properties. *)

TypeOK ==
  /\ disk \in [Sides -> Contents] /\ changes \in 0 .. MaxChanges /\ content \in BOOLEAN
  /\ pc \in {"inspect", "structure", "read", "content", "done", "invalid"}
  /\ pc # "inspect" => None \notin {catalog.left, catalog.right}
  /\ \A e \in entries : e.column # None => e.table # None

Distinct(tables) == Cardinality(TableNames(tables)) = Len(tables)

\* Cells of one sort: the same value, both missing, both NaN.
SameCells(left, right) == Len(left) = Len(right) /\ \A i \in DOMAIN left : left[i] = right[i]

SameColumn(left, right) ==
  /\ ColumnInfo(left) = ColumnInfo(right)
  /\ content => ArrowType(left) = ArrowType(right) /\ SameCells(left.cells, right.cells)

\* Two files with the same tables, whatever the order of the tables.
Same(left, right) ==
  /\ left.compression = right.compression
  /\ Len(left.tables) = Len(right.tables)
  /\ \A t \in ToSet(left.tables) : \E u \in ToSet(right.tables) :
       /\ t.name = u.name /\ t.rows = u.rows
       /\ Len(t.columns) = Len(u.columns)
       /\ \A i \in DOMAIN t.columns : SameColumn(t.columns[i], u.columns[i])

\* A column whose cells no look at them finds equal, not even to themselves.
Incomparable(column) == ArrowType(column) \in Nested /\ \E i \in DOMAIN column.cells : column.cells[i] \in Holed

Definite(file) == \A t \in ToSet(file.tables) : \A i \in DOMAIN t.columns : ~Incomparable(t.columns[i])

\* The report is empty if and only if the files are the same at the level that
\* was checked: names with their doubles, order, types, levels, and every cell
\* as Arrow has it, while nobody replaces them and no two tables of a file share
\* a name (RDSDiffReport.identical, _audit.py:140). With one exception, which
\* the documentation does not have: complex and list columns with a NaN in a
\* cell are always reported, of two copies of one file too (_audit.py:725-728).
IdenticalIffSame ==
  pc = "done" /\ changes = 0 /\ (\A s \in Sides : Distinct(disk[s].tables))
    => (entries = {} <=> Same(disk.left, disk.right) /\ (content => Definite(disk.left)))

Mirror(report) ==
  { [e EXCEPT !.kind = CASE e.kind = "column_added" -> "column_removed" [] e.kind = "column_removed" -> "column_added"
                         [] e.kind = "table_added"  -> "table_removed"  [] e.kind = "table_removed"  -> "table_added"
                         [] OTHER -> e.kind] : e \in report }

\* The files the other way round give the same report with what was added and
\* removed exchanged: no kind of difference is looked for from one side only
\* (_audit.py:521-555).
Symmetric ==
  pc \in {"read", "done"} /\ ~content =>
    entries = Mirror(Structure(catalog.right, catalog.left))

-----------------------------------------------------------------------------
(* A statement of the documentation that the code does not keep. *)

\* _audit.py:141: identical means no differences at the level checked.
IdenticalMeansSame == pc = "done" /\ changes = 0 /\ entries = {} => Same(disk.left, disk.right)
=============================================================================
