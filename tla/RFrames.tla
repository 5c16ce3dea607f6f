------------------------------- MODULE RFrames -------------------------------
(***************************************************************************)
(* Data frames as the different entry points show them: the catalog's      *)
(* columns, the columns of a full read, the columns of a selective read.    *)
(*                                                                         *)
(* A file has a codec of its own (declared in its header, or the default)  *)
(* and holds one data.frame or, if listed, a list of them.  A column is    *)
(* its name as R wrote it, its type, and a value that tells it from others. *)
(*                                                                         *)
(* A name is a sequence of parts: what R wrote, then what the readers      *)
(* append.  The blank name has no parts.                                    *)
(***************************************************************************)
EXTENDS Integers, Sequences, FiniteSets, SequencesExt

CONSTANTS
  Unflagged,  \* names written with no encoding flag, in letters beyond ASCII
  DefaultCodec, \* "utf-8"
  None        \* no value

Blank == <<>>

\* Reader._decode_charsxp: an unflagged name is what the codec makes of it.
decode(name, codec) == IF name \in Unflagged THEN Append(name, codec) ELSE name

\* resolve_native_encoding: the caller's codec, else the file's.
Codec(f, encoding) == IF encoding = None THEN f.codec ELSE encoding

\* "V<n>", the name of a column that has none.
V(i) == <<"V", ToString(i)>>

\* Mutant of _unique_name: the number is always 2.
_unique_name_twice(name, existing) ==
  IF name \notin existing THEN name ELSE Append(name, "2")

\* The first of name, name_2, name_3, ... that does not exist yet.
_unique_name(name, existing) ==
  IF name \notin existing THEN name
  ELSE LET numbered(k) == Append(name, ToString(k))
       IN numbered(CHOOSE k \in 2 .. Cardinality(existing) + 2 :
                     /\ numbered(k) \notin existing
                     /\ \A j \in 2 .. k - 1 : numbered(j) \in existing)

Named(name, column) == [name |-> name, type |-> column.type, value |-> column.value]

Names(columns) == [i \in DOMAIN columns |-> columns[i].name]

\* Names that R makes with check.names = TRUE: all there, all different.
Proper(names) == IsInjective(names) /\ Blank \notin ToSet(names)

\* A sequence without its repetitions, as the keys of a dictionary.
Once(s) ==
  LET kept[n \in 0 .. Len(s)] ==
        IF n = 0 THEN <<>>
        ELSE IF s[n] \in ToSet(kept[n - 1]) THEN kept[n - 1] ELSE Append(kept[n - 1], s[n])
  IN kept[Len(s)]

\* The positions of a frame, in the order asked for, under the names that
\* tell them apart in the result.
Keyed(frame, codec, order) ==
  LET name(i) == decode(frame[i].name, codec)
      key(i, existing) == _unique_name(IF name(i) = Blank THEN V(i) ELSE name(i), existing)
      columns[n \in 0 .. Len(order)] ==
        IF n = 0 THEN <<>>
        ELSE Append(columns[n - 1],
                    Named(key(order[n], ToSet(Names(columns[n - 1]))), frame[order[n]]))
  IN columns[Len(order)]

\* _to_dataframe and _to_arrow_table: every column, in the file's order.
FullRead(frame, codec) == Keyed(frame, codec, [i \in DOMAIN frame |-> i])

\* The catalog's columns: R's names, doubles and blanks as they are.
Catalogued(frame, codec) == [i \in DOMAIN frame |-> Named(decode(frame[i].name, codec), frame[i])]

\* The tables of list_rds_tables: names and columns.  A frame that is the
\* root is called "data", a table without a name "table_<n>".
Catalog(f, encoding) ==
  [t \in DOMAIN f.tables |->
     [name    |-> IF ~f.listed THEN <<"data">>
                  ELSE IF f.names[t] = Blank THEN <<"table", ToString(t)>>
                  ELSE decode(f.names[t], Codec(f, encoding)),
      columns |-> Catalogued(f.tables[t], Codec(f, encoding))]]

(***************************************************************************)
(* Selectors of tables and columns: [name |-> n] or [index |-> i].  Names    *)
(* are looked up in one place and indices checked in another, which may     *)
(* differ: count is the number of things there are to choose from.          *)
(***************************************************************************)
ByIndex(selector) == "index" \in DOMAIN selector

Matches(selector, names, count) ==
  IF ByIndex(selector) THEN {selector.index + 1} \cap 1 .. count
  ELSE { i \in DOMAIN names : names[i] = selector.name }

\* Neither unknown, nor ambiguous, nor out of range.
Resolvable(selector, names, count) == Cardinality(Matches(selector, names, count)) = 1

Resolved(selector, names, count) == CHOOSE i \in Matches(selector, names, count) : TRUE

\* Mutant of _resolve_column_selection: in the order of the file.
_resolve_column_selection_sorted(requested, names, count) ==
  SetToSortSeq({ Resolved(s, names, count) : s \in ToSet(requested) }, <)

\* The positions asked for, each once, in the order of the request.
_resolve_column_selection(requested, names, count) ==
  Once([n \in DOMAIN requested |-> Resolved(requested[n], names, count)])

ByName(names) == [n \in DOMAIN names |-> [name |-> names[n]]]

\* The names that the first pass of a selective read finds.  Its Reader is
\* given neither the caller's codec nor the file's.
_scan_single_dataframe_column_names(frame) == Names(Catalogued(frame, DefaultCodec))

\* The columns of a full read by their keys, in the order asked for.
Picked(columns, names) ==
  [n \in DOMAIN names |-> columns[CHOOSE i \in DOMAIN columns : columns[i].name = names[n]]]

Has(columns, names) == ToSet(names) \subseteq ToSet(Names(columns))
=============================================================================
