----------------------------- MODULE TableAccess -----------------------------
(***************************************************************************)
(* Reading one table of a file through a deferred dataset (open_rds), or   *)
(* some of its columns directly (read_rds with columns=), while another    *)
(* program may replace the file.                                            *)
(*                                                                         *)
(* Every look at the file opens it again: the inspection that a dataset    *)
(* keeps, the pass that resolves names to positions, the pass that reads.  *)
(***************************************************************************)
EXTENDS RFrames

CONSTANTS
  Contents,    \* what the file may hold
  Tables,      \* table selectors
  Projections, \* sequences of column names
  Selections,  \* sequences of column selectors
  Codecs,      \* values of the encoding parameter
  MaxChanges   \* bound: how often other programs replace the file

ASSUME AccessAssumption ==
  /\ None \notin Tables /\ None \notin Projections /\ None \notin Codecs
  /\ MaxChanges \in Nat
  /\ \A names \in Projections : names \in Seq(ToSet(names))
  /\ \A request \in Selections : request \in Seq(ToSet(request))

\* A root that is no list is a table itself.
ASSUME FilesAssumption ==
  \A f \in Contents :
    /\ f.listed \in BOOLEAN
    /\ f.tables \in Seq(ToSet(f.tables)) /\ (~f.listed => Len(f.tables) = 1)
    /\ \A frame \in ToSet(f.tables) :
         frame \in Seq(ToSet(frame)) /\ \A c \in ToSet(frame) : c.name \in Seq(ToSet(c.name))

VARIABLES
  disk,    \* external: what the file holds
  changes, \* external: how often it was replaced
  handle,  \* the RDSDataset: its selection, and its inspection or None
  call,    \* the call in progress, or its outcome
  seen     \* history: what the file has held since the call began

vars == <<disk, changes, handle, call, seen>>

\* What RDSDataset.inspection keeps, and that it is not None.
Inspection(f, encoding, at) == [tables |-> Catalog(f, encoding), at |-> at]

ASSUME InspectionAssumption ==
  \A f \in Contents, encoding \in Codecs \cup {None}, at \in 0 .. MaxChanges :
    Inspection(f, encoding, at) # None

-----------------------------------------------------------------------------
\* The table selector None is for files with one table.
TableNames(tables) == [t \in DOMAIN tables |-> tables[t].name]

Selectable(tables) ==
  IF handle.table = None THEN Len(tables) = 1
  ELSE Resolvable(handle.table, TableNames(tables), Len(tables))

_selected_table_info(tables) ==
  IF handle.table = None THEN 1 ELSE Resolved(handle.table, TableNames(tables), Len(tables))

\* RDSDataset.inspection: made once, at some instant, and kept.
Inspected ==
  IF handle.inspection # None THEN handle.inspection
  ELSE Inspection(disk, handle.encoding, changes)

Going(pc) == call.pc = pc /\ UNCHANGED <<disk, changes>>

Return(columns) == call' = [call EXCEPT !.pc = "done", !.why = "ok", !.columns = columns]
Raise(why)      == call' = [call EXCEPT !.pc = "done", !.why = why]
Goto(changed)   == call' = changed

-----------------------------------------------------------------------------
Idle == [op |-> None, pc |-> "done", why |-> "ok", request |-> <<>>, table |-> 0,
         names |-> <<>>, columns |-> <<>>]

\* open_rds: the constructor takes its arguments as they are.
Init ==
  /\ disk \in Contents /\ changes = 0 /\ seen = {}
  /\ handle \in [table : Tables \cup {None}, columns : Projections \cup {None},
                 encoding : Codecs \cup {None}, inspection : {None}, checked : {FALSE}]
  /\ call = Idle

\* Another program puts a file in its place.
Replace ==
  /\ changes < MaxChanges
  /\ \E f \in Contents \ {disk} : disk' = f /\ seen' = seen \cup {f}
  /\ changes' = changes + 1
  /\ UNCHANGED <<handle, call>>

\* RDSDataset.select: against the columns of the selected table.  The clone
\* has made no call yet.
Select ==
  /\ Going("done")
  /\ \E names \in Projections :
       /\ names # <<>> /\ IsInjective(names)
       /\ Selectable(Inspected.tables)
       /\ Has(Inspected.tables[_selected_table_info(Inspected.tables)].columns, names)
       /\ handle' = [handle EXCEPT !.columns = names, !.inspection = Inspected, !.checked = TRUE]
  /\ call' = Idle /\ seen' = {}

\* collect() and to_arrow() begin with the selected table's place; read_rds
\* with columns= begins with the pass that resolves names, if there are any.
Begin ==
  /\ Going("done")
  /\ \/ \E op \in {"collect", "arrow"} : Goto([Idle EXCEPT !.op = op, !.pc = "inspect"])
     \/ \E request \in Selections :
          Goto([Idle EXCEPT !.op = "read_rds", !.pc = "select", !.request = request])
  /\ seen' = {disk}
  /\ UNCHANGED handle

\* Mutant of WholeFile: one table too few goes for many.
WholeFile_always(tables) == call.op = "arrow" \/ Len(tables) >= 1

\* to_arrow() reads the whole file, collect() does if there are many tables.
WholeFile(tables) == call.op = "arrow" \/ Len(tables) > 1

Inspect ==
  /\ Going("inspect")
  /\ handle' = [handle EXCEPT !.inspection = Inspected]
  /\ LET tables == Inspected.tables
     IN IF ~Selectable(tables) THEN Raise("selection")
        ELSE Goto([call EXCEPT
                     !.table = _selected_table_info(tables),
                     !.request = IF handle.columns = None THEN <<>> ELSE ByName(handle.columns),
                     !.pc = IF WholeFile(tables) THEN "read"
                            ELSE IF handle.columns = None THEN "frame" ELSE "select"])
  /\ UNCHANGED seen

\* The first pass of _read_dataframe_selective, which indices do without.
ScanNames ==
  /\ Going("select")
  /\ IF call.request = <<>> THEN Raise("selection")
     ELSE IF \A s \in ToSet(call.request) : ByIndex(s)
     THEN Goto([call EXCEPT !.pc = "selective"])
     ELSE IF disk.listed THEN Raise("unsupported")
     ELSE Goto([call EXCEPT !.pc = "selective",
                  !.names = _scan_single_dataframe_column_names(disk.tables[1])])
  /\ UNCHANGED <<handle, seen>>

\* Mutant of ReadSelected: the columns are called what was asked for.
ReadSelected_relabelled ==
  /\ Going("selective")
  /\ LET frame == disk.tables[1]
         count == IF disk.listed THEN Len(disk.tables) ELSE Len(frame)
         order == _resolve_column_selection(call.request, call.names, count)
     IN IF \E s \in ToSet(call.request) : ~Resolvable(s, call.names, count) THEN Raise("selection")
        ELSE IF disk.listed THEN Raise("unsupported")
        ELSE IF ~(ToSet(order) \subseteq DOMAIN frame) THEN Raise("index")
        ELSE Return([n \in DOMAIN order |->
                       IF call.names = <<>> THEN Keyed(frame, Codec(disk, handle.encoding), order)[n]
                       ELSE Named(call.names[order[n]], frame[order[n]])])
  /\ UNCHANGED <<handle, seen>>

\* The second pass: it opens the file again.  Names become positions before
\* the columns, the class and the names of this file are read.
ReadSelected ==
  /\ Going("selective")
  /\ LET frame == disk.tables[1]
         count == IF disk.listed THEN Len(disk.tables) ELSE Len(frame)
         order == _resolve_column_selection(call.request, call.names, count)
     IN IF \E s \in ToSet(call.request) : ~Resolvable(s, call.names, count) THEN Raise("selection")
        ELSE IF disk.listed THEN Raise("unsupported")
        ELSE IF ~(ToSet(order) \subseteq DOMAIN frame) THEN Raise("index")
        ELSE Return(Keyed(frame, Codec(disk, handle.encoding), order))
  /\ UNCHANGED <<handle, seen>>

\* collect() of a catalog with one table, all columns.
ReadFrame ==
  /\ Going("frame")
  /\ IF disk.listed THEN Raise("invalid")
     ELSE Return(FullRead(disk.tables[1], Codec(disk, handle.encoding)))
  /\ UNCHANGED <<handle, seen>>

\* to_arrow(), and collect() of a catalog with several tables: the whole
\* file is read, then the table is taken by its place in the catalog.
ReadTable ==
  /\ Going("read")
  /\ LET t     == IF disk.listed THEN call.table ELSE 1
         table == FullRead(disk.tables[t], Codec(disk, handle.encoding))
     IN IF ~disk.listed /\ call.op = "collect" THEN Raise("invalid")
        ELSE IF t > Len(disk.tables) THEN Raise("index")
        ELSE IF handle.columns = None THEN Return(table)
        ELSE IF ~Has(table, handle.columns) THEN Raise("key")
        ELSE Return(Picked(table, handle.columns))
  /\ UNCHANGED <<handle, seen>>

Next ==
  \/ Replace \/ Select \/ Begin \/ Inspect
  \/ ScanNames \/ ReadSelected \/ ReadFrame \/ ReadTable

Spec == Init /\ [][Next]_vars

-----------------------------------------------------------------------------
(* Properties. *)

\* The columns that a projection reads have keys that tell them apart.
Columns == [name : Seq(STRING), type : STRING, value : Nat]

TypeOK ==
  /\ disk \in Contents /\ changes \in 0 .. MaxChanges /\ seen \subseteq Contents
  /\ handle.table \in Tables \cup {None} /\ handle.columns \in Projections \cup {None}
  /\ handle.encoding \in Codecs \cup {None} /\ handle.checked \in BOOLEAN
  /\ handle.inspection = None \/ handle.inspection.at \in 0 .. changes
  /\ call.pc \in {"done", "inspect", "select", "selective", "frame", "read"}
  /\ call.why \in {"ok", "selection", "unsupported", "invalid", "index", "key"}
  /\ call.columns \in Seq(Columns)
  /\ call.op = "read_rds" => IsInjective(Names(call.columns))

Succeeded == call.op # None /\ call.pc = "done" /\ call.why = "ok"

\* The label of column i: its name, or the number of its place, and perhaps
\* a number that tells it from others.
Labels(frame, codec, i, label) ==
  LET name == decode(frame[i].name, codec)
      base == IF name = Blank THEN V(i) ELSE name
  IN IsPrefix(base, label)

\* What is read is a table that the file held during the call: each column
\* has its own type, values and label, and all come from one version, however
\* the file was replaced between the passes (api.py:1113).
OneVersion ==
  Succeeded =>
    \E f \in seen : \E t \in DOMAIN f.tables : \A c \in ToSet(call.columns) :
      \E i \in DOMAIN f.tables[t] :
        /\ c = Named(c.name, f.tables[t][i])
        /\ Labels(f.tables[t], Codec(f, handle.encoding), i, c.name)

\* Nothing has replaced the file since the dataset looked at it.
Unchanged == handle.inspection # None /\ handle.inspection.at = changes

Info == handle.inspection.tables[_selected_table_info(handle.inspection.tables)].columns

\* RDSDataset.schema: of doubles, the last.
schema ==
  IF handle.columns = None THEN Info
  ELSE [n \in DOMAIN handle.columns |->
          LET same == { i \in DOMAIN Info : Info[i].name = handle.columns[n] }
          IN Info[CHOOSE i \in same : \A j \in same : j <= i]]

\* What is read has the schema that was shown, for collect() and to_arrow()
\* alike, whatever the shape of the root: names, types and values, in order
\* (api.py:889 against the two ways of reading at 926 and 960).
SchemaKept ==
  Succeeded /\ call.op # "read_rds" /\ Unchanged /\ Proper(Names(Info))
    /\ (handle.columns # None => IsInjective(handle.columns) /\ Has(Info, handle.columns))
  => call.columns = schema

Collecting == call.op = "collect" /\ Len(handle.inspection.tables) = 1

\* What select() has accepted is refused later for these reasons only, as
\* long as the file stays: a list of one table, names that the first pass
\* decodes otherwise, doubles, blanks.
RefusedOnlyFor ==
  call.op \in {"collect", "arrow"} /\ call.pc = "done" /\ call.why # "ok" /\ Unchanged
    /\ handle.checked
  => \/ Collecting /\ disk.listed
     \/ Collecting /\ Codec(disk, handle.encoding) # DefaultCodec
          /\ \E c \in ToSet(disk.tables[1]) : c.name \in Unflagged
     \/ Collecting /\ ~IsInjective(Names(Info))
     \/ ~Collecting /\ Blank \in ToSet(handle.columns)

-----------------------------------------------------------------------------
(* Statements of the documentation that the code does not keep. *)

\* README.md:650: an unflagged name is read in the codec of the header or of
\* encoding=, so a name that the catalog shows under it can be asked for.
EncodingResolvesNames ==
  Unchanged /\ handle.checked /\ Collecting /\ call.pc = "done" /\ ~disk.listed /\ Proper(Names(Info))
    => call.why = "ok"

\* api.py:938-939: a catalog of one table means that the root is that table
\* ("pragma: no cover - defensive").
SingleTableIsRoot ==
  call.op = "collect" /\ call.pc = "done" /\ Unchanged => call.why # "invalid"

\* The docstring of read_rds, api.py:688: columns= takes exact names.
AskedIsRead ==
  Succeeded /\ call.op = "read_rds" =>
    \A s \in ToSet(call.request) : ~ByIndex(s) => \E c \in ToSet(call.columns) : c.name = s.name

\* README.md:179: a dataset reads the table that was chosen by its name.
TableAsked ==
  Succeeded /\ call.op # "read_rds" /\ handle.table # None =>
    \E f \in seen : \E t \in DOMAIN f.tables :
       /\ t \in Matches(handle.table, TableNames(Catalog(f, handle.encoding)), Len(f.tables))
       /\ \A c \in ToSet(call.columns) : \E i \in DOMAIN f.tables[t] : c = Named(c.name, f.tables[t][i])
=============================================================================
