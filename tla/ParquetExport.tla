---------------------------- MODULE ParquetExport ----------------------------
(***************************************************************************)
(* to_parquet: the tables of one RDS file as Parquet files in a directory, *)
(* with the DuckDB engine and with the PyArrow engine.                     *)
(*                                                                         *)
(* DuckDB reads the root item by item.  Class and names come behind the    *)
(* items they describe, so the first child decides whether the root is     *)
(* taken for a data.frame or for a list of them, long before the file says *)
(* which it is.  Columns are staged in batches, merged into one file per   *)
(* table, and the files are renamed into place when all are complete.      *)
(* PyArrow reads everything first and then writes.                         *)
(*                                                                         *)
(* An item of the root or of a table is known by its position (from 1) and *)
(* has a kind, a number of rows and a size; a written table is its index   *)
(* (from 0, as in the code) and the positions of the items in it.          *)
(***************************************************************************)
EXTENDS Integers, FiniteSets, SequencesExt

CONSTANTS
  Exporters,       \* calls of to_parquet into one directory
  Engine,          \* the engine of each
  Roots,           \* the roots the file may hold
  Selections,      \* sets of table indices that may be selected
  Limits,          \* values of max_tables and of max_root_items
  StageMaxColumns, \* stage_max_columns
  StageMaxBytes,   \* stage_max_bytes
  SafeNames,       \* what _safe_name leaves of an R name, <<>> for nothing
  Existing,        \* files in the destination before the calls
  Old,             \* what these are
  Partial,         \* a temporary file that is being written
  None             \* no value: no selection, no limit, no file

(***************************************************************************)
(* vector: whatever makes a column on its own; list, frame: a VECSXP       *)
(* without and with the class data.frame; nil: R's NULL.                   *)
(***************************************************************************)
Kinds == {"vector", "list", "frame", "nil"}
Item  == [is : Kinds, rows : Nat, bytes : Nat]
Child == [is : Kinds, rows : Nat, bytes : Nat, name : DOMAIN SafeNames, items : Seq(Item)]
Root  == [class : BOOLEAN, children : Seq(Child)]

ASSUME ExportAssumption ==
  /\ Engine \in [Exporters -> {"duckdb", "pyarrow"}]
  /\ Roots \subseteq Root
  /\ \A s \in Selections : s \subseteq Nat /\ s # {} /\ IsFiniteSet(s)
  /\ Limits \subseteq (Nat \ {0}) \cup {None}
  /\ \A raw \in DOMAIN SafeNames : \* each is a sequence
       LET name == SafeNames[raw]
       IN Len(name) \in Nat /\ name = [i \in 1 .. Len(name) |-> name[i]]
  /\ StageMaxColumns \in Nat \ {0} /\ StageMaxBytes \in Nat \ {0}
  /\ None \notin Selections \cup Nat
  /\ None \notin {"refused", "limit", "fault", "interrupt"}

VARIABLES
  root,      \* external: what the file holds
  request,   \* the arguments of the calls
  directory, \* the files of the destination: a function from names
  run        \* the calls in progress

vars == <<root, request, directory, run>>

-----------------------------------------------------------------------------
(* The root and the request. *)

Count == Len(root.children)

Selected(t) == request.selected = None \/ t \in request.selected

InRange == request.selected = None \/ request.selected \subseteq 0 .. Count - 1

OnlyTheFirst == request.selected = None \/ request.selected = {0}

LastSelected(t) == \A u \in request.selected : u <= t

Exceeds(n, limit) == limit # None /\ n > limit

\* What list_rds_tables would catalogue: only then can a selection be named.
Listed(r) ==
  /\ r.children # <<>>
  /\ IF r.children[1].is = "frame"
     THEN ~r.class /\ \A i \in DOMAIN r.children : r.children[i].is = "frame"
     ELSE r.class

\* _column_to_arrow: the items that make a column.
Fits(item) == item.is \in {"vector", "list"}

-----------------------------------------------------------------------------
(* Names.  A name is what _safe_name leaves, then the numbers appended. *)

_safe_name(raw, index) ==
  IF SafeNames[raw] = <<>> THEN <<"table", index + 1>> ELSE SafeNames[raw]

_unique_name(name, existing) ==
  IF name \notin existing THEN name
  ELSE Append(name, CHOOSE k \in 2 .. Cardinality(existing) + 2 :
                      /\ Append(name, k) \notin existing
                      /\ \A j \in 2 .. k - 1 : Append(name, j) \in existing)

\* The name of table t next to others.  A catalog calls a table without a
\* name "table_<n>", which is what _safe_name makes of none.
NameOf(t, existing) == _unique_name(_safe_name(root.children[t + 1].name, t), existing)

\* _root_to_arrow names all tables, in their order.
_root_to_arrow ==
  LET name[i \in 1 .. Count] == NameOf(i - 1, {name[j] : j \in 1 .. i - 1})
  IN name

-----------------------------------------------------------------------------
(* A call.  table: table_index; single: the root is taken for a data.frame; *)
(* at: items of the root consumed; held: the first item was read ahead;    *)
(* col: columns taken of the table in turn; batch, bytes, staged: its      *)
(* batches; temporary: the temporary file of _merge_columns; pending: the  *)
(* complete tables; todo: PyArrow's tables with their names; lapses: history *)
(* of what has kept something temporary from being removed.                  *)
(***************************************************************************)
Table(t, items) == [table |-> t, items |-> items]

Started ==
  [pc |-> "start", why |-> None, stage |-> FALSE, single |-> FALSE, table |-> 0, at |-> 0,
   held |-> FALSE, col |-> 0, rows |-> None, batch |-> <<>>, bytes |-> 0, staged |-> <<>>,
   temporary |-> None, pending |-> <<>>, todo |-> <<>>, results |-> <<>>, lapses |-> {}]

At(e, engine, pc) == Engine[e] = engine /\ run[e].pc = pc

Do(e, changed) == run' = [run EXCEPT ![e] = changed]

\* Where an exception leads: through the finally, if the try is entered and
\* the exception does not come in the finally itself.
Out(pc) == IF pc \in {"start", "made", "cleanup"} THEN "failed" ELSE "cleanup"

\* What it keeps from being removed then.
Lapse(pc) ==
  CASE pc = "made" -> {"try"} [] pc = "cleanup" -> {"finally"} [] pc \notin {"made", "cleanup"} -> {}

Reason(why, then) == IF why = None THEN then ELSE why

\* An exception.  _merge_columns removes its temporary file on the way out.
Raise(e, why) ==
  Do(e, [run[e] EXCEPT !.pc = Out(@), !.why = Reason(@, why), !.lapses = @ \cup Lapse(run[e].pc),
                       !.temporary = IF run[e].pc = "cleanup" THEN @ ELSE None])

Still == UNCHANGED <<root, request, directory>>

\* The items of the table in turn.
Items(e) ==
  IF run[e].single THEN root.children ELSE root.children[run[e].table + 1].items

-----------------------------------------------------------------------------
(* stream_root_to_parquet. *)

\* What can be refused at once; then the staging directory is made.
Checks(e) ==
  /\ At(e, "duckdb", "start")
  /\ IF Count = 0 THEN Raise(e, "refused")
     ELSE IF Exceeds(Count, request.max_root_items) THEN Raise(e, "limit")
     ELSE Do(e, [run[e] EXCEPT !.pc = "made", !.stage = TRUE])
  /\ Still

\* duckdb.connect(), or nothing with PyArrow, and the try whose finally removes
\* the directory.
EnterTry(e) ==
  /\ run[e].pc = "made"
  /\ Do(e, [run[e] EXCEPT !.pc = IF Engine[e] = "duckdb" THEN "first" ELSE "write"])
  /\ Still

\* Mutant of AsList: the limit is left to the loop over the tables.
AsList_unlimited(e) ==
  IF ~InRange THEN Raise(e, "refused")
  ELSE Do(e, [run[e] EXCEPT !.pc = "table", !.at = 1])

AsList(e) ==
  IF ~InRange THEN Raise(e, "refused")
  ELSE IF Exceeds(Count, request.max_tables) THEN Raise(e, "limit")
  ELSE Do(e, [run[e] EXCEPT !.pc = "table", !.at = 1])

\* The first child is read, or scanned if it is not selected; what it is
\* stands for what the root is.
First(e) ==
  /\ At(e, "duckdb", "first")
  /\ LET first == root.children[1]
     IN IF first.is = "frame" THEN AsList(e)
        ELSE IF ~OnlyTheFirst THEN Raise(e, "refused")
        ELSE Do(e, [run[e] EXCEPT !.pc = "columns", !.single = TRUE, !.at = 1,
                                  !.held = first.is # "nil"])
  /\ Still

-----------------------------------------------------------------------------
(* _convert_frame_list: the next table, which is skipped or opened. *)

TableInTurn(e) ==
  /\ At(e, "duckdb", "table") /\ run[e].table < Count
  /\ LET t    == run[e].table
         kind == root.children[t + 1].is
     IN IF kind \notin {"frame", "list"} \/ (~Selected(t) /\ kind # "frame")
        THEN Raise(e, "refused")
        ELSE Do(e, [run[e] EXCEPT !.at = t + 1,
                      !.table = IF Selected(t) THEN @ ELSE t + 1,
                      !.pc = IF Selected(t) THEN "columns" ELSE "table",
                      !.col = 0, !.rows = None, !.batch = <<>>, !.bytes = 0, !.staged = <<>>])
  /\ Still

\* Behind the tables: a root that has turned out to be a data.frame.
RootAttributes(e) ==
  /\ At(e, "duckdb", "table") /\ run[e].table = Count
  /\ IF root.class THEN Raise(e, "refused") ELSE Do(e, [run[e] EXCEPT !.pc = "rename"])
  /\ Still

-----------------------------------------------------------------------------
(* _stage_columns and _stage_materialized_columns. *)

\* Behind the last child come the attributes of the root, read as an item
\* like any other if one item too many is read: here names, row.names, class.
Attributes == [is |-> "vector", rows |-> 3, bytes |-> 1]

ReadAhead(e) == run[e].held /\ run[e].col = 0

\* The position of the next item of the table.  A root taken for a data.frame
\* is read where the reader is, except for an item that was read ahead.
NextItem(e) ==
  IF run[e].single /\ ~ReadAhead(e) THEN run[e].at + 1 ELSE run[e].col + 1

\* Mutant of _batch_is_full: a batch takes one column more.
_batch_is_full_late(batch, current_bytes, next_bytes) ==
  batch # <<>> /\ (Len(batch) > StageMaxColumns \/ current_bytes + next_bytes > StageMaxBytes)

_batch_is_full(batch, current_bytes, next_bytes) ==
  batch # <<>> /\ (Len(batch) >= StageMaxColumns \/ current_bytes + next_bytes > StageMaxBytes)

\* The batch is written and a new one begun, or the column joins the batch.
Batched(r, i, item) ==
  IF _batch_is_full(r.batch, r.bytes, item.bytes)
  THEN [r EXCEPT !.staged = Append(@, r.batch), !.batch = <<i>>, !.bytes = item.bytes]
  ELSE [r EXCEPT !.batch = Append(@, i), !.bytes = @ + item.bytes]

Column(e) ==
  /\ At(e, "duckdb", "columns") /\ run[e].col < Len(Items(e))
  /\ LET i    == NextItem(e)
         item == IF i <= Len(Items(e)) THEN Items(e)[i] ELSE Attributes
     IN IF Fits(item) /\ run[e].rows \in {None, item.rows}
        THEN Do(e, [Batched(run[e], i, item) EXCEPT
                      !.col = @ + 1, !.rows = item.rows,
                      !.at = IF run[e].single THEN i ELSE @])
        ELSE Raise(e, "refused")
  /\ Still

\* The class of the table in turn, which is read behind its columns: there
\* is none to read if the reader is beyond it.
IsFrame(e) ==
  IF run[e].single THEN root.class /\ run[e].at = Count
  ELSE root.children[run[e].table + 1].is = "frame"

\* The last batch is written, the attributes are read, and _merge_columns
\* makes its temporary file unless there is nothing to merge.
LastBatch(e) ==
  /\ At(e, "duckdb", "columns") /\ run[e].col = Len(Items(e))
  /\ IF IsFrame(e) /\ Items(e) # <<>>
     THEN Do(e, [run[e] EXCEPT !.pc = "copy", !.staged = Append(@, run[e].batch),
                               !.batch = <<>>, !.temporary = Partial])
     ELSE Raise(e, "refused")
  /\ Still

-----------------------------------------------------------------------------
(* _merge_columns, and putting the tables in place. *)

Merge(e) ==
  /\ At(e, "duckdb", "copy")
  /\ Do(e, [run[e] EXCEPT !.pc = "replace",
                          !.temporary = Table(run[e].table, FlattenSeq(run[e].staged))])
  /\ Still

Result(name, file, table) == [name |-> name, file |-> file, table |-> table]

\* os.replace: the file is what it was or the whole new one.
Puts(result) ==
  /\ directory' = [f \in DOMAIN directory \cup {result.file} |->
                     IF f = result.file THEN result.table ELSE directory[f]]
  /\ UNCHANGED <<root, request>>

\* The names of a root that is one table.
Data(table) == Result(<<"data">>, <<>>, table)

\* The table of a data.frame goes into the destination.
ReplaceSingle(e) ==
  /\ At(e, "duckdb", "replace") /\ run[e].single
  /\ Puts(Data(run[e].temporary))
  /\ Do(e, [run[e] EXCEPT !.pc = "cleanup", !.temporary = None,
                          !.results = <<Data(run[e].temporary)>>])

Renaming(e, t) ==
  IF request.named /\ LastSelected(t) THEN "rename" ELSE "table"

\* Mutant of ReplaceInList: a table is put in place as soon as it is complete.
ReplaceInList_early(e) ==
  /\ At(e, "duckdb", "replace") /\ ~run[e].single
  /\ LET t    == run[e].table
         name == NameOf(t, {run[e].results[i].name : i \in DOMAIN run[e].results})
     IN /\ Puts(Result(name, name, run[e].temporary))
        /\ Do(e, [run[e] EXCEPT !.pc = Renaming(e, t), !.table = t + 1, !.temporary = None,
                    !.pending = Append(@, run[e].temporary),
                    !.results = Append(@, Result(name, name, run[e].temporary))])

\* A table of a list stays in the staging directory.  With names from a
\* catalog nothing is read behind the last one that is selected.
ReplaceInList(e) ==
  /\ At(e, "duckdb", "replace") /\ ~run[e].single
  /\ LET t == run[e].table
     IN Do(e, [run[e] EXCEPT !.pc = Renaming(e, t), !.table = t + 1, !.temporary = None,
                             !.pending = Append(@, run[e].temporary)])
  /\ Still

\* Mutant of ResultInTurn: the names in use are forgotten.
ResultInTurn_forgetful(e) ==
  LET i    == Len(run[e].results) + 1
      p    == run[e].pending[i]
      name == IF Engine[e] = "pyarrow" THEN run[e].todo[i].name ELSE NameOf(p.table, {})
  IN IF run[e].single THEN Data(p) ELSE Result(name, name, p)

\* The result for the next complete table: DuckDB names it now, next to those
\* that it has already put in place; PyArrow has named it before.
ResultInTurn(e) ==
  LET i    == Len(run[e].results) + 1
      p    == run[e].pending[i]
      name == IF Engine[e] = "pyarrow" THEN run[e].todo[i].name
              ELSE NameOf(p.table, {run[e].results[j].name : j \in 1 .. i - 1})
  IN IF run[e].single THEN Data(p) ELSE Result(name, name, p)

Rename(e) ==
  /\ run[e].pc = "rename" /\ Len(run[e].results) < Len(run[e].pending)
  /\ Puts(ResultInTurn(e))
  /\ Do(e, [run[e] EXCEPT !.results = Append(@, ResultInTurn(e))])

Renamed(e) ==
  /\ run[e].pc = "rename" /\ Len(run[e].results) = Len(run[e].pending)
  /\ Do(e, [run[e] EXCEPT !.pc = "cleanup"])
  /\ Still

\* Mutant of Cleanup: only a conversion that succeeds removes the directory.
Cleanup_on_success(e) ==
  /\ run[e].pc = "cleanup"
  /\ Do(e, [run[e] EXCEPT !.pc = IF run[e].why = None THEN "done" ELSE "failed",
                          !.stage = run[e].why # None])
  /\ Still

\* finally: the staging directory is removed with all that is in it, or stays
\* without a word if the operating system refuses (ignore_errors).  The
\* temporary file of a table that is the root is in the destination.
Cleanup(e) ==
  /\ run[e].pc = "cleanup"
  /\ \E removed \in BOOLEAN :
       Do(e, [run[e] EXCEPT !.pc = IF run[e].why = None THEN "done" ELSE "failed",
                            !.stage = ~removed,
                            !.lapses = IF removed THEN @ ELSE @ \cup {"rmtree"},
                            !.temporary = IF run[e].single \/ ~removed THEN @ ELSE None])
  /\ Still

-----------------------------------------------------------------------------
(* _pyarrow_to_parquet. *)

\* _to_arrow_table: the columns fit and are of one length.
Arrow(items) ==
  /\ \A i \in DOMAIN items : Fits(items[i])
  /\ \A i, j \in DOMAIN items : items[i].rows = items[j].rows

Convertible ==
  IF root.class THEN Arrow(root.children)
  ELSE /\ root.children # <<>>
       /\ \A i \in DOMAIN root.children :
            root.children[i].is = "frame" /\ Arrow(root.children[i].items)

All(items) == [i \in DOMAIN items |-> i]

\* Of the first n tables those that are selected, in their order.
Chosen(tables) ==
  LET chosen[n \in 0 .. Count] ==
        IF n = 0 THEN <<>>
        ELSE IF Selected(n - 1) THEN Append(chosen[n - 1], tables[n]) ELSE chosen[n - 1]
  IN chosen

\* The tables of a list, every column of them.
Whole == [i \in 1 .. Count |-> Table(i - 1, All(root.children[i].items))]

\* all_tables, which are taken from the tables of the whole file.
AllTables ==
  IF root.class THEN <<Data(Table(0, All(root.children)))>>
  ELSE Chosen([i \in 1 .. Count |-> Result(_root_to_arrow[i], _root_to_arrow[i], Whole[i])])[Count]

ReadArrow(e) ==
  /\ At(e, "pyarrow", "start")
  /\ IF ~Convertible THEN Raise(e, "refused")
     ELSE IF \/ Exceeds(Count, request.max_root_items)
             \/ ~root.class /\ Exceeds(Count, request.max_tables)
     THEN Raise(e, "limit")
     ELSE IF IF root.class THEN ~OnlyTheFirst ELSE ~InRange THEN Raise(e, "refused")
     ELSE Do(e, [run[e] EXCEPT !.pc = "made", !.stage = TRUE, !.single = root.class,
                               !.todo = AllTables])
  /\ Still

WriteTable(e) ==
  /\ At(e, "pyarrow", "write")
  /\ LET r == run[e]
         n == Len(r.pending) + 1
     IN Do(e, [r EXCEPT !.pending = Append(@, r.todo[n].table),
                        !.pc = IF n = Len(r.todo) THEN "rename" ELSE "write"])
  /\ Still

-----------------------------------------------------------------------------
Ended == {"done", "failed", "dead"}

\* The file is damaged, a column has values that Arrow refuses, the disk is
\* full, a file is locked: any step of a conversion may raise.  So may
\* connect(), which comes before the try, and close(), before the rmtree.
Fault(e) ==
  /\ run[e].pc \notin Ended
  /\ Engine[e] = "pyarrow" => run[e].pc \notin {"made", "cleanup"}
  /\ Raise(e, "fault")
  /\ Still

\* An exception that leaves the temporary file of _merge_columns: the operating
\* system refuses to remove it, or it is a KeyboardInterrupt, which passes by
\* the except clause.
Escape(e, why) ==
  Do(e, [run[e] EXCEPT !.pc = Out(@), !.why = Reason(@, why),
                       !.lapses = @ \cup Lapse(run[e].pc)
                                    \cup IF run[e].pc \in {"copy", "replace"} THEN {"unlink"} ELSE {}])

DoubleFault(e) ==
  /\ run[e].pc \in {"copy", "replace"}
  /\ Escape(e, "fault")
  /\ Still

Interrupt(e) ==
  /\ run[e].pc \notin Ended
  /\ Escape(e, "interrupt")
  /\ Still

\* The process dies: what is temporary stays.
Crash(e) ==
  /\ run[e].pc \notin Ended
  /\ Do(e, [run[e] EXCEPT !.pc = "dead"])
  /\ Still

Requests ==
  [selected : Selections \cup {None}, named : BOOLEAN,
   max_tables : Limits, max_root_items : Limits]

Init ==
  /\ root \in Roots
  /\ request \in {q \in Requests : q.named => q.selected # None /\ Listed(root)}
  /\ directory = [f \in Existing |-> Old]
  /\ run = [e \in Exporters |-> Started]

DuckDB(e) ==
  \/ Checks(e) \/ First(e) \/ TableInTurn(e) \/ RootAttributes(e)
  \/ Column(e) \/ LastBatch(e) \/ Merge(e) \/ ReplaceSingle(e) \/ ReplaceInList(e)

PyArrow(e) == ReadArrow(e) \/ WriteTable(e)

Failure(e) == Fault(e) \/ DoubleFault(e) \/ Interrupt(e) \/ Crash(e)

Next ==
  \E e \in Exporters :
    DuckDB(e) \/ PyArrow(e) \/ EnterTry(e) \/ Rename(e) \/ Renamed(e) \/ Cleanup(e) \/ Failure(e)

Spec == Init /\ [][Next]_vars

-----------------------------------------------------------------------------
(* Properties. *)

Contents == [table : Nat, items : Seq(Nat)]

TypeOK ==
  /\ root \in Roots
  /\ request \in Requests
  /\ \A f \in DOMAIN directory : directory[f] \in Contents \cup {Old}
  /\ \A e \in Exporters :
       LET r == run[e]
       IN /\ r.pc \in {"start", "made", "first", "table", "columns", "copy", "replace", "write",
                       "rename", "cleanup"} \cup Ended
          /\ r.why \in {None, "refused", "limit", "fault", "interrupt"}
          /\ {r.stage, r.single, r.held} \subseteq BOOLEAN
          /\ {r.table, r.at, r.col, r.bytes} \subseteq Nat
          /\ r.rows \in Nat \cup {None}
          /\ r.batch \in Seq(Nat) /\ r.staged \in Seq(Seq(Nat))
          /\ r.temporary \in Contents \cup {None, Partial}
          /\ r.pending \in Seq(Contents)
          /\ r.lapses \subseteq {"try", "finally", "rmtree", "unlink"}

\* The tables the request is about, whole: every column, once, in order.
AskedFor ==
  IF root.class THEN <<Table(0, All(root.children))>> ELSE Chosen(Whole)[Count]

Phase(r) ==
  IF r.why \in {"refused", "limit"} THEN "refused"
  ELSE IF r.why # None \/ r.pc = "dead" THEN "broken"
  ELSE IF r.pc = "done" THEN "done"
  ELSE "open"

\* The table of a data.frame is complete in the temporary file, those of a
\* list are complete in the staging directory.
ReadyTables(r) ==
  IF Phase(r) \in {"refused", "broken"} THEN <<>>
  ELSE IF r.pending # <<>> THEN r.pending
  ELSE IF r.single /\ r.pc = "replace" THEN <<r.temporary>>
  ELSE [i \in DOMAIN r.results |-> r.results[i].table]

Placed(r) ==
  [i \in DOMAIN r.results |-> [file |-> r.results[i].file, table |-> r.results[i].table]]

\* README.md:396 and CHANGELOG.md:225: tables appear whole, all complete
\* before the first of them appears, each in a file of its own, or none.
Published == INSTANCE Publication WITH
  asked  <- AskedFor,
  phase  <- [e \in Exporters |-> Phase(run[e])],
  ready  <- [e \in Exporters |-> ReadyTables(run[e])],
  placed <- [e \in Exporters |-> Placed(run[e])]
Publishes == Published!Spec

ItemsOf(t) == IF root.class THEN root.children ELSE root.children[t + 1].items

\* The bytes of the columns of a batch.
BytesOf(items, batch) ==
  LET size(i) == IF i <= Len(items) THEN items[i].bytes ELSE Attributes.bytes
      sum[n \in 0 .. Len(batch)] == IF n = 0 THEN 0 ELSE sum[n - 1] + size(batch[n])
  IN sum[Len(batch)]

\* README.md:400: a batch holds at most so many columns and so many bytes,
\* except that a column larger than that is a batch of its own.
BatchesBounded ==
  \A e \in {f \in Exporters : run[f].pc \in {"columns", "copy"}} :
    \A b \in ToSet(run[e].staged) \cup {run[e].batch} :
      /\ Len(b) <= StageMaxColumns
      /\ Len(b) > 1 => BytesOf(Items(e), b) <= StageMaxBytes

\* A conversion that ends, well or not, leaves nothing temporary (README.md:397),
\* except for a closed list: the staging directory if it fails between mkdtemp
\* and the try, or in the finally before the directory is gone, or if the
\* operating system refuses to remove it; the temporary file of _merge_columns
\* if that is refused, too, or an interrupt comes while it is written.  In a
\* refusal, which may come at almost any step, only the finally can fail.
NothingLeft ==
  \A e \in Exporters :
    LET r == run[e]
    IN r.pc \in {"done", "failed"} =>
         /\ r.stage => r.lapses \cap {"try", "finally", "rmtree"} # {}
         /\ r.temporary # None => "unlink" \in r.lapses /\ (r.single \/ r.stage)
         /\ r.why \in {None, "refused", "limit"} => r.lapses \subseteq {"finally", "rmtree"}

Results(e) == run[e].results

\* The engines write the same tables into the same files when the whole file
\* is converted, and the same tables when some of them are selected.
EnginesAgree ==
  \A e, f \in Exporters :
    run[e].pc = "done" /\ run[f].pc = "done" =>
      IF request.selected = None THEN Results(e) = Results(f)
      ELSE [i \in DOMAIN Results(e) |-> Results(e)[i].table]
             = [i \in DOMAIN Results(f) |-> Results(f)[i].table]

Verdict(e) == run[e].pc = "done" \/ run[e].why \in {"refused", "limit"}

\* A table that is asked for has no columns.
NoColumns ==
  IF root.class THEN root.children = <<>>
  ELSE \E t \in 0 .. Count - 1 : Selected(t) /\ root.children[t + 1].items = <<>>

\* One engine converts what the other refuses for two reasons only: DuckDB
\* has nothing to merge if a table has no columns, and PyArrow converts the
\* tables that are not selected, too.
EnginesAccept ==
  \A e, f \in Exporters :
    Verdict(e) /\ Verdict(f) /\ run[e].pc = "done" /\ run[f].pc # "done" =>
      \/ Engine[f] = "duckdb" /\ NoColumns
      \/ /\ Engine[f] = "pyarrow"
         /\ \E t \in 0 .. Count - 1 : ~Selected(t) /\ ~Arrow(ItemsOf(t))

\* CHANGELOG.md:148: "Outputs are equivalent", whichever engine is used.
OutputsEquivalent ==
  \A e, f \in Exporters :
    run[e].pc = "done" /\ run[f].pc = "done" => Results(e) = Results(f)
=============================================================================
