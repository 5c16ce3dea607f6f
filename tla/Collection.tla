----------------------------- MODULE Collection -----------------------------
(***************************************************************************)
(* RDSCollection: many files as one dataset, read into memory.  The         *)
(* catalogs are taken file by file (in any order: workers), the plan is made *)
(* from them alone and kept, and every terminal reads the files one after    *)
(* another under that plan while other programs may replace them.            *)
(*                                                                         *)
(* A read of one file is one step here; TableAccess has the two passes of a  *)
(* selective read apart.                                                     *)
(***************************************************************************)
EXTENDS RCollections

CONSTANTS
  N,              \* how many files
  FileContents,   \* what a file may hold
  TableSelectors, \* selectors of a table
  ColumnLists,    \* sequences of column names
  Generated,      \* names of partition and source columns
  Unmatched,      \* sets of files whose name does not match the partitions' pattern
  MaxRewrites     \* bound: how often other programs replace a file

Files == 1 .. N

ASSUME CollectionAssumption ==
  /\ N \in Nat \ {0} /\ MaxRewrites \in Nat
  /\ None \notin TableSelectors /\ None \notin ColumnLists
  /\ \A names \in ColumnLists : names \in Seq(ToSet(names))
  /\ Generated \in Seq(ToSet(Generated))
  /\ Unmatched \subseteq SUBSET Files

\* A root that is no list is a table itself.
ASSUME FileContentsAssumption ==
  \A content \in FileContents :
    /\ content.listed \in BOOLEAN
    /\ content.tables \in Seq(ToSet(content.tables)) /\ (~content.listed => Len(content.tables) = 1)
    /\ \A frame \in ToSet(content.tables) :
         /\ frame \in Seq(ToSet(frame))
         /\ \A c \in ToSet(frame) : c.name \in Seq(ToSet(c.name)) /\ c.type \in ColumnTypes

VARIABLES
  held,     \* external: what each file holds
  rewrites, \* external: how often one was replaced
  replaced, \* history: the files replaced since their catalog was taken
  options,  \* the arguments of open_rds_dataset
  catalogs, \* the catalog of each file, or None
  plan,     \* the plan, or None
  terminal  \* the terminal in progress, or its outcome

collectionVars == <<held, rewrites, replaced, options, catalogs, plan, terminal>>

-----------------------------------------------------------------------------
(* Terminals. *)

ArrowOps  == {"iter_arrow", "to_arrow", "to_record_batch_reader"}
PandasOps == {"to_pandas", "head"}

\* reads is history: what the files held when they were read.
NotCalled == [op |-> None, why |-> "ok", busy |-> FALSE, tables |-> <<>>, reads |-> <<>>]

FormatOf(op) == IF op \in ArrowOps THEN "arrow" ELSE "pandas"

\* RDSCollection._selected_tables: the same selector in every file.
NamesOfTables(f) == [t \in DOMAIN catalogs[f] |-> catalogs[f][t].name]

CanSelect(f) ==
  IF options.table = None THEN Len(catalogs[f]) = 1
  ELSE Resolvable(options.table, NamesOfTables(f), Len(catalogs[f]))

index(f) ==
  IF options.table = None THEN 1 ELSE Resolved(options.table, NamesOfTables(f), Len(catalogs[f]))

infos == [f \in Files |-> catalogs[f][index(f)].columns]

Plan == _build_plan(infos, options.mode, options.columns, Generated)

\* The place where a full read of what file f holds has the plan's table.
PlaceIn(content, f) == IF content.listed THEN index(f) ELSE 1

There(content, f) == IF content.listed THEN index(f) <= Len(content.tables) ELSE index(f) = 1

FrameIn(content, f) == content.tables[PlaceIn(content, f)]

Got(columns) == [ok |-> TRUE, why |-> "ok", columns |-> columns]
Lost(why)    == [ok |-> FALSE, why |-> why, columns |-> <<>>]

ReadWhole(content, f) ==
  IF There(content, f) THEN Got(FullRead(FrameIn(content, f), content.codec)) ELSE Lost("index")

\* In strict mode one table is taken for a single data.frame, of which only
\* the plan's columns are parsed; a list is read in full after all.
ReadSelective(content, f) ==
  LET frame == content.tables[1]
      names == _scan_single_dataframe_column_names(frame)
      asked == ByName(plan.columns)
  IN IF plan.columns = <<>> THEN Lost("value")
     ELSE IF content.listed THEN ReadWhole(content, f)
     ELSE IF \E s \in ToSet(asked) : ~Resolvable(s, names, Len(frame)) THEN Lost("value")
     ELSE Got(Keyed(frame, content.codec, _resolve_column_selection(asked, names, Len(frame))))

Read(content, f, op) ==
  IF op \in PandasOps /\ options.mode = "strict" /\ Len(catalogs[f]) = 1
  THEN ReadSelective(content, f) ELSE ReadWhole(content, f)

\* One file under the plan: what it yields or why it fails.
Aligned(content, f, op) ==
  LET read == Read(content, f, op)
  IN IF ~read.ok THEN read
     ELSE IF Unfillable(read.columns, plan) THEN Lost("unfillable")
     ELSE IF f \in options.unmatched THEN Lost("partition")
     ELSE Got(With(Align(read.columns, plan, FormatOf(op), options.naive), Generated, FormatOf(op), f))

-----------------------------------------------------------------------------
CollectionInit ==
  /\ held \in [Files -> FileContents] /\ rewrites \in 0 .. MaxRewrites /\ replaced = {}
  /\ options \in [mode : {"strict", "union"}, table : TableSelectors \cup {None},
                  columns : ColumnLists \cup {None}, naive : BOOLEAN, unmatched : Unmatched]
  /\ catalogs = [f \in Files |-> None] /\ plan = None /\ terminal = NotCalled

\* Another program puts a file in its place.
ReplaceFile(f) ==
  /\ rewrites < MaxRewrites
  /\ \E content \in FileContents \ {held[f]} : held' = [held EXCEPT ![f] = content]
  /\ rewrites' = rewrites + 1
  /\ replaced' = IF catalogs[f] = None THEN replaced ELSE replaced \cup {f}
  /\ UNCHANGED <<options, catalogs, plan, terminal>>

\* catalogs(): each file's, taken by this process or by workers.
TakeCatalog(f) ==
  /\ catalogs[f] = None
  /\ catalogs' = [catalogs EXCEPT ![f] = Catalog(held[f], None)]
  /\ UNCHANGED <<held, rewrites, replaced, options, plan, terminal>>

\* _build_plan: once all catalogs are there.  What is refused raises.
BuildPlan ==
  /\ plan = None /\ \A f \in Files : catalogs[f] # None
  /\ IF \E f \in Files : ~CanSelect(f)
     THEN plan' = Refused("selection")
     ELSE plan' = Plan
  /\ UNCHANGED <<held, rewrites, replaced, options, catalogs, terminal>>

Planned == plan # None /\ plan.ok

BeginTerminal(op) ==
  /\ Planned /\ ~terminal.busy
  /\ terminal' = [NotCalled EXCEPT !.op = op, !.busy = TRUE]
  /\ UNCHANGED <<held, rewrites, replaced, options, catalogs, plan>>

InFile(f, op) == terminal.busy /\ terminal.op = op /\ f = Len(terminal.tables) + 1

Fail(why) == terminal' = [terminal EXCEPT !.busy = FALSE, !.why = why]

Yield(f, table, busy) ==
  terminal' = [terminal EXCEPT !.tables = Append(@, table), !.reads = Append(@, held[f]), !.busy = busy]

\* iter_arrow: the caller asks for one file after the other, or stops asking.
IterArrow(f) ==
  /\ InFile(f, "iter_arrow")
  /\ LET got == Aligned(held[f], f, "iter_arrow")
     IN IF got.ok THEN Yield(f, got.columns, f < N) ELSE Fail(got.why)
  /\ UNCHANGED <<held, rewrites, replaced, options, catalogs, plan>>

\* Another Arrow schema than the first table has.
OtherSchema(table) == Types(table) # Types(terminal.tables[1])

\* to_arrow and to_record_batch_reader: the schema of the first file counts.
CollectArrow(f, op) ==
  /\ op \in {"to_arrow", "to_record_batch_reader"} /\ InFile(f, op)
  /\ LET got == Aligned(held[f], f, op)
     IN IF ~got.ok THEN Fail(got.why)
        ELSE IF f > 1 /\ OtherSchema(got.columns) THEN Fail("schema")
        ELSE Yield(f, got.columns, f < N)
  /\ UNCHANGED <<held, rewrites, replaced, options, catalogs, plan>>

\* _check_concat_dtypes, before frames are put together.
MixedDatetimes(tables) ==
  \E n \in DOMAIN tables[1] :
    LET types == { tables[f][n].type : f \in DOMAIN tables }
    IN Cardinality(types) > 1 /\ \E type \in types : type[1] = "datetime64"

\* to_pandas takes every file; head stops as soon as it has the rows.
CollectPandas(f, op) ==
  /\ op \in PandasOps /\ InFile(f, op)
  /\ LET got == Aligned(held[f], f, op)
         tables == Append(terminal.tables, got.columns)
     IN IF ~got.ok THEN Fail(got.why)
        ELSE \E last \in IF f = N THEN {TRUE} ELSE IF op = "head" THEN BOOLEAN ELSE {FALSE} :
               IF last /\ MixedDatetimes(tables) THEN Fail("datetimes")
               ELSE Yield(f, got.columns, ~last)
  /\ UNCHANGED <<held, rewrites, replaced, options, catalogs, plan>>

CollectionNext ==
  \/ \E f \in Files : \/ ReplaceFile(f) \/ TakeCatalog(f) \/ IterArrow(f)
                      \/ \E op \in ArrowOps : CollectArrow(f, op)
                      \/ \E op \in PandasOps : CollectPandas(f, op)
  \/ BuildPlan
  \/ \E op \in ArrowOps \cup PandasOps : BeginTerminal(op)

CollectionSpec == CollectionInit /\ [][CollectionNext]_collectionVars
-----------------------------------------------------------------------------
(* Properties. *)

Cells == [name : Seq(STRING), type : Seq(STRING \cup Seq(STRING)), value : Nat \cup {None}]

CollectionTypeOK ==
  /\ held \in [Files -> FileContents] /\ rewrites \in 0 .. MaxRewrites /\ replaced \subseteq Files
  /\ options.columns \in ColumnLists \cup {None} /\ options.table \in TableSelectors \cup {None}
  /\ plan # None => \A f \in Files : catalogs[f] # None
  /\ terminal.busy => Planned /\ Len(terminal.tables) < N
  /\ Len(terminal.reads) = Len(terminal.tables)

\* The columns of file f under R's names, in what it held when it was read.
FrameOf(f) == Catalogued(FrameIn(terminal.reads[f], f), terminal.reads[f].codec)

\* A column of the result is null-filled if and only if the file lacked it
\* when it was read, and then the catalogs had shown that some file may; else
\* it is the file's own, in every format, and however the files are replaced
\* behind the plan (_dataset.py:163-177, 585-604).
FilledIffAbsent ==
  \A f \in DOMAIN terminal.tables :
    LET frame == FrameOf(f)
    IN Proper(Names(frame)) =>
       \A name \in ToSet(plan.columns) \ {Blank} :
         \E cell \in ToSet(terminal.tables[f]) :
           /\ cell.name = name
           /\ IF Within(<<name>>, frame) THEN cell.value = Of(frame, name).value
              ELSE cell.value = None /\ name \in plan.fills

\* A table whose catalog says what its columns are: names that tell them
\* apart, no ALTREP vector, no missing level.
Plain(f) ==
  /\ Proper(Names(FrameOf(f)))
  /\ \A c \in ToSet(FrameOf(f)) :
       ~c.type.altrep /\ (c.type.kind = "factor" => MissingLevel \notin ToSet(c.type.detail))

Returned == terminal.op # None /\ ~terminal.busy /\ terminal.why = "ok"

\* The pandas dtypes of one type of R that pd.concat makes one, without a word.
Promoted == { {<<"int32">>, <<"Int32">>}, {<<"timedelta64", "s">>, <<"timedelta64", "ns">>} }

\* In what a terminal returns, a column has one type in all files, and one
\* that is still a factor has the same levels in all of them: the plan, made
\* from catalogs, has decided that for every format alike.  The exceptions:
\* the zones of datetimes, which iter_arrow shows as they are, and the dtypes
\* that pandas gives by the values, of integers with and without missing ones
\* and of durations with and without fractions (_dataset.py:397-431, 606-635).
NoPromotion ==
  Returned /\ replaced = {} /\ (\A f \in DOMAIN terminal.tables : Plain(f)) =>
    \A f, g \in DOMAIN terminal.tables : \A n \in DOMAIN terminal.tables[f] :
      LET mine   == terminal.tables[f][n]
          theirs == terminal.tables[g][n]
      IN /\ mine.name = theirs.name
         /\ \/ mine.type = theirs.type
            \/ terminal.op = "iter_arrow" /\ mine.type[1] = "timestamp" /\ theirs.type[1] = "timestamp"
            \/ terminal.op \in PandasOps /\ {mine.type, theirs.type} \in Promoted
         /\ mine.type[1] = "dictionary" =>
              Of(FrameOf(f), mine.name).type.detail = Of(FrameOf(g), mine.name).type.detail

\* The plan's columns of some file.
InPlan == { c \in UNION { ToSet(infos[f]) : f \in Files } : c.name \in ToSet(plan.columns) }

\* Those whose type the catalogs cannot show in full.
Hidden == { c \in InPlan : c.type.altrep \/ c.type.kind = "datetime" }

\* A column's type as R has it, whatever the values.
RType(type) == [kind |-> type.kind, detail |-> type.detail, altrep |-> type.altrep]

\* Types of R that are not the same, behind the catalogs.
HiddenDiffer == \E c, d \in Hidden : c.name = d.name /\ RType(c.type) # RType(d.type)

\* Instants or days of which one file has whole seconds only, another not.
UnitsDiffer == \E c, d \in InPlan : /\ c.name = d.name /\ Unit(c.type) # Unit(d.type)
                                    /\ {c.type.kind, d.type.kind} \subseteq {"datetime", "date"}

\* What the plan accepts, every terminal reads, as long as the files stay,
\* except for: file names that do not match the pattern; blank names, whose
\* columns are read under names that may be another column's, and names that
\* the selective read decodes otherwise; columns whose types differ where the
\* catalogs cannot show it, and for pandas also instants of one type that have
\* fractions of seconds in some files only; an empty projection, which
\* read_rds refuses.
AcceptedIsRead ==
  terminal.op # None /\ terminal.why # "ok" /\ replaced = {} =>
    \/ terminal.why = "partition" /\ options.unmatched # {}
    \/ terminal.why \in {"unfillable", "value"} /\ Blank \in ToSet(plan.columns)
    \/ terminal.why = "value" /\ FormatOf(terminal.op) = "pandas" /\ options.mode = "strict"
         /\ \/ plan.columns = <<>>
            \/ \E f \in Files : held[f].codec # DefaultCodec
                 /\ \E c \in ToSet(held[f].tables[1]) : c.name \in Unflagged
    \/ terminal.why \in {"schema", "datetimes"}
         /\ (HiddenDiffer \/ \E f \in Files : Blank \in ToSet(Names(infos[f])))
    \/ terminal.why = "datetimes" /\ UnitsDiffer

-----------------------------------------------------------------------------
(* Statements of the documentation that the code does not keep. *)

\* The types of a returned column in the files, as R wrote them.
RTypes(name) ==
  { Of(FrameOf(f), name).type : f \in { g \in DOMAIN terminal.reads : Within(<<name>>, FrameOf(g)) } }

\* _dataset.py:11: a same-named column with a different type is always an
\* explicit error, never a silent promotion.
NeverPromoted ==
  Returned /\ terminal.op # "iter_arrow" /\ replaced = {} =>
    \A name \in ToSet(plan.columns) : Cardinality({ type.kind : type \in RTypes(name) }) <= 1

\* _dataset.py:14: factors whose level sets differ are decoded to strings.
LevelsDecoded ==
  Returned /\ replaced = {} =>
    \A f \in DOMAIN terminal.tables : \A cell \in ToSet(terminal.tables[f]) :
      Cardinality({ type.detail : type \in { t \in RTypes(cell.name) : t.kind = "factor" } }) > 1
        => cell.type[1] \notin {"dictionary", "category"}

\* _dataset.py:10: union fills the columns that are missing in some files.
MissingIsFilled ==
  Returned /\ replaced = {} =>
    \A f \in DOMAIN terminal.tables : \A cell \in ToSet(terminal.tables[f]) :
      cell.value = None => cell.name \notin ToSet(Names(infos[f]))
=============================================================================
