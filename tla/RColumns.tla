------------------------------ MODULE RColumns ------------------------------
(***************************************************************************)
(* The columns and the row labels of a data.frame on their way to a file     *)
(* (_write.py) and back (_column_to_pandas, _apply_row_names).                *)
(*                                                                         *)
(* A pandas column is [label, dtype, cells, categories, zone, unit]; times    *)
(* are counts of the unit, which is given by how many are a second.  A vector   *)
(* of the file is [sexp, class, cells, levels, zone]; its doubles of seconds     *)
(* are counted in quanta.  What is read counts times in ticks.  A value of an      *)
(* object column, a category or a row label is [type, text].                    *)
(***************************************************************************)
EXTENDS Integers, Sequences, FiniteSets, SequencesExt

CONSTANTS
  Int32Max,   \* the largest of R's integers, 2^31 - 1
  Int64Max,   \* NumPy's: 2^63 - 1
  ExactLimit, \* doubles hold every integer up to here: 2^53
  Steps,      \* how far doubles of a size lie apart: the powers of two
  Second,     \* ticks of a second: 10^9 nanoseconds
  Quantum,    \* parts of a second that its doubles are multiples of
  SecondsPerUnit, \* of each unit, the double that a count is multiplied by: a fraction
  Day,        \* seconds of a day
  Offset,     \* of each zone, what its clocks are ahead of UTC when they show a
              \* second, or None if they show it never or twice
  Missing,    \* a missing cell of pandas
  NaReal,     \* the NaN that is R's NA_real_
  None        \* no value

\* Numbers of a size have doubles s apart.
Apart(size, s) == size <= ExactLimit * s /\ (s = 1 \/ size > ExactLimit * (s \div 2))

ASSUME NumbersAssumption ==
  /\ Int32Max \in Nat \ {0} /\ Int64Max \in Nat /\ Int32Max <= Int64Max
  /\ ExactLimit \in Nat \ {0} /\ Steps \subseteq Nat \ {0}
  /\ 1 \in Steps /\ \A size \in 0 .. 2 * Int64Max + 1 : \E s \in Steps : Apart(size, s)
  /\ NaReal \notin Int /\ Missing \notin Int

ASSUME TimesAssumption ==
  /\ Second \in Nat \ {0} /\ Quantum \in Nat \ {0} /\ Day \in Nat \ {0}
  /\ \A unit \in DOMAIN SecondsPerUnit :
       unit \in Nat \ {0} /\ Second % unit = 0 /\ SecondsPerUnit[unit] \in (Nat \ {0}) \X (Nat \ {0})
  /\ \A zone \in DOMAIN Offset : \A second \in -Int64Max .. Int64Max : Offset[zone][second] \in {None} \cup -Day .. Day

NA_INTEGER == -Int32Max - 1

Refused == [error |-> "RDSWriteError"]

Vector(sexp, class, cells) ==
  [sexp |-> sexp, class |-> class, cells |-> cells, levels |-> <<>>, zone |-> None]

\* The fixed-width integer that a conversion without a check leaves.
Wrapped(v, max) == ((v + max + 1) % (2 * (max + 1))) - (max + 1)

\* The integer nearest to a fraction, of two the even one.
rint(a, b) ==
  LET down == a \div b
      rest == 2 * (a % b)
  IN IF rest > b \/ (rest = b /\ down % 2 = 1) THEN down + 1 ELSE down

Size(v) == IF v < 0 THEN -v ELSE v

StepAt(size) == CHOOSE s \in Steps : Apart(size, s)

\* The double nearest to an integer.
float64(v) == rint(v, StepAt(Size(v))) * StepAt(Size(v))

-----------------------------------------------------------------------------
(* To the file. *)

_int32_be(values, cells) ==
  [i \in DOMAIN cells |-> IF cells[i] = Missing THEN NA_INTEGER ELSE Wrapped(values[i], Int32Max)]

_double_be(values, cells) == [i \in DOMAIN cells |-> IF cells[i] = Missing THEN NaReal ELSE values[i]]

\* to_numpy(dtype="int64", na_value=0), which checks no range.
toInt64(cells) == [i \in DOMAIN cells |-> IF cells[i] = Missing THEN 0 ELSE Wrapped(cells[i], Int64Max)]

Doubles(cells) == [i \in DOMAIN cells |-> IF cells[i] = Missing THEN 0 ELSE float64(cells[i])]

\* Mutant of _encode_integerish: the sentinel counts as an integer.
_encode_integerish_sentinel(cells, int64) ==
  IF \A i \in DOMAIN cells : toInt64(cells)[i] \in NA_INTEGER .. Int32Max
  THEN Vector("INTSXP", <<>>, _int32_be(toInt64(cells), cells))
  ELSE IF int64 = "error" THEN Refused
       ELSE Vector("REALSXP", <<>>, _double_be(Doubles(cells), cells))

_encode_integerish(cells, int64) ==
  LET values == toInt64(cells)
      within(limit) == \A i \in DOMAIN cells : cells[i] = Missing \/ values[i] \in -limit .. limit
  IN IF within(Int32Max) THEN Vector("INTSXP", <<>>, _int32_be(values, cells))
     ELSE IF int64 = "error" \/ (int64 = "double" /\ ~within(ExactLimit)) THEN Refused
     ELSE Vector("REALSXP", <<>>, _double_be(Doubles(cells), cells))

_level_string(value) ==
  CASE value.type = "bool"  -> IF value.text = "True" THEN "TRUE" ELSE "FALSE"
    [] value.type = "other" -> "?" \* refused below
    [] OTHER -> value.text

\* Codes count from one; a code of -1 is missing.
_encode_factor(column) ==
  LET levels == [c \in DOMAIN column.categories |-> _level_string(column.categories[c])]
  IN IF ~IsInjective(levels) \/ \E c \in DOMAIN levels : column.categories[c].type = "other" THEN Refused
     ELSE [Vector("INTSXP", <<"factor">>,
                  [i \in DOMAIN column.cells |->
                     IF column.cells[i] + 1 = 0 THEN NA_INTEGER ELSE column.cells[i] + 1])
             EXCEPT !.levels = levels]

_encode_date(cells, unit) ==
  IF \E i \in DOMAIN cells : cells[i] # Missing /\ cells[i] % (Day * unit) # 0 THEN Refused
  ELSE Vector("REALSXP", <<"Date">>,
              _double_be([i \in DOMAIN cells |-> IF cells[i] = Missing THEN 0 ELSE cells[i] \div (Day * unit)], cells))

\* A count is made a double and multiplied by one, and rounded both times; by
\* 1.0 nothing is.
seconds(count, unit) ==
  LET factor == SecondsPerUnit[unit]
  IN IF unit = 1 THEN float64(count) * Quantum
     ELSE float64(rint(float64(count) * factor[1] * Quantum, factor[2]))

SecondsOf(cells, unit) == [i \in DOMAIN cells |-> IF cells[i] = Missing THEN 0 ELSE seconds(cells[i], unit)]

\* Counts since 1970 in UTC.
_encode_posixct(cells, unit, zone) ==
  [Vector("REALSXP", <<"POSIXct", "POSIXt">>, _double_be(SecondsOf(cells, unit), cells)) EXCEPT !.zone = zone]

\* Local times in UTC, which is ambiguous or undefined where clocks change.
tz_localize(cells, unit, zone) ==
  [i \in DOMAIN cells |->
     IF cells[i] = Missing THEN Missing
     ELSE LET ahead == Offset[zone][cells[i] \div unit] IN IF ahead = None THEN None ELSE cells[i] - ahead * unit]

_encode_naive(cells, unit, zone) ==
  IF None \in ToSet(tz_localize(cells, unit, zone)) THEN Refused
  ELSE _encode_posixct(tz_localize(cells, unit, zone), unit, zone)

\* All strings, or all dates; the type of what is missing does not count.
_encode_object_column(cells) ==
  LET types == { cells[i].type : i \in { j \in DOMAIN cells : cells[j] # Missing } }
      texts == [i \in DOMAIN cells |-> IF cells[i] = Missing THEN Missing ELSE cells[i].text]
  IN IF types \subseteq {"str"} THEN Vector("STRSXP", <<>>, texts)
     ELSE IF types = {"date"} THEN Vector("REALSXP", <<"Date">>, _double_be(texts, cells))
     ELSE Refused

\* The columns that cannot be forced to dates.
_encode_plain(dtype, cells, unit, int64) ==
  CASE dtype = "delta"   -> Vector("REALSXP", <<"difftime">>, _double_be(SecondsOf(cells, unit), cells))
    [] dtype = "bool"    -> Vector("LGLSXP", <<>>, _int32_be(toInt64(cells), cells))
    [] dtype = "integer" -> _encode_integerish(cells, int64)
    [] dtype = "float"   -> Vector("REALSXP", <<>>, _double_be(cells, cells))
    [] dtype = "string"  -> Vector("STRSXP", <<>>, cells)
    [] dtype = "object"  -> _encode_object_column(cells)
    [] dtype = "other"   -> Refused

\* as_date is looked at after the categorical columns.
_encode_column(column, int64, as_date, naive_timezone) ==
  CASE column.dtype = "categorical" -> _encode_factor(column)
    [] column.dtype = "aware" ->
         IF as_date \/ column.zone = None THEN Refused ELSE _encode_posixct(column.cells, column.unit, column.zone)
    [] column.dtype = "naive" ->
         IF as_date THEN _encode_date(column.cells, column.unit)
         ELSE IF naive_timezone = None THEN Refused
         ELSE _encode_naive(column.cells, column.unit, naive_timezone)
    [] OTHER -> IF as_date THEN Refused ELSE _encode_plain(column.dtype, column.cells, column.unit, int64)

\* An index is [kind, labels]; "range" counts from zero.
_row_names(index) ==
  LET n == Len(index.labels)
      values == [i \in DOMAIN index.labels |-> Wrapped(index.labels[i], Int64Max)]
      texts == IF index.kind = "integer" THEN [i \in DOMAIN index.labels |-> ToString(index.labels[i])]
               ELSE [i \in DOMAIN index.labels |-> index.labels[i].text]
  IN IF index.kind = "multi" \/ Missing \in ToSet(index.labels) \/ ~IsInjective(index.labels) THEN Refused
     ELSE IF index.kind = "range"
          THEN Vector("INTSXP", <<>>, IF n = 0 THEN <<>> ELSE <<NA_INTEGER, -n>>)
     ELSE IF index.kind = "integer" /\ \A i \in DOMAIN values : values[i] \in -Int32Max .. Int32Max
          THEN Vector("INTSXP", <<>>, values)
     ELSE IF IsInjective(texts) THEN Vector("STRSXP", <<>>, texts)
     ELSE Refused

-----------------------------------------------------------------------------
(* And back. *)

\* Mutant of factor_codes_and_categories: what is beyond the levels wraps to
\* the last one, as an index of -1 does.
factor_codes_and_categories_last(codes, levels) ==
  [codes |-> [i \in DOMAIN codes |->
                IF codes[i] = NA_INTEGER THEN -1
                ELSE IF codes[i] \in 1 .. Len(levels) THEN codes[i] - 1 ELSE Len(levels) - 1],
   categories |-> levels]

\* A level that is NA takes no place among the categories; codes count from
\* zero, and -1 is missing.
factor_codes_and_categories(codes, levels) ==
  LET real == { l \in DOMAIN levels : levels[l] # Missing }
      mapping == [l \in real |-> Cardinality({ k \in real : k < l })]
      kept[n \in 0 .. Len(levels)] ==
        IF n = 0 THEN <<>> ELSE IF n \in real THEN Append(kept[n - 1], levels[n]) ELSE kept[n - 1]
  IN [codes |-> [i \in DOMAIN codes |-> IF codes[i] \in real THEN mapping[codes[i]] ELSE -1],
      categories |-> kept[Len(levels)]]

Reals(cells) == [i \in DOMAIN cells |-> IF cells[i] = NaReal THEN Missing ELSE cells[i]]

\* Mutant of _numpy_temporal: the first value tells whether there are fractions.
_numpy_temporal_first(cells) ==
  LET fractional == cells # <<>> /\ cells[1] # NaReal /\ cells[1] % Quantum # 0
      scaled(v) == IF fractional THEN rint(float64(v * Second), Quantum) ELSE v \div Quantum
  IN [i \in DOMAIN cells |->
        IF cells[i] = NaReal \/ scaled(cells[i]) \notin -Int64Max .. Int64Max THEN Missing
        ELSE scaled(cells[i]) * (IF fractional THEN 1 ELSE Second)]

\* Seconds if all are whole, nanoseconds otherwise; what has no place in 64 bits
\* is missing.
_numpy_temporal(cells) ==
  LET fractional == \E i \in DOMAIN cells : cells[i] # NaReal /\ cells[i] % Quantum # 0
      scaled(v) == IF fractional THEN rint(float64(v * Second), Quantum) ELSE v \div Quantum
  IN [i \in DOMAIN cells |->
        IF cells[i] = NaReal \/ scaled(cells[i]) \notin -Int64Max .. Int64Max THEN Missing
        ELSE scaled(cells[i]) * (IF fractional THEN 1 ELSE Second)]

DaySeconds(cells) == [i \in DOMAIN cells |-> IF cells[i] = NaReal THEN NaReal ELSE float64(cells[i] * Day) * Quantum]

Shown(dtype, cells) == [dtype |-> dtype, cells |-> cells, categories |-> <<>>, zone |-> None]

_column_to_pandas(vector) ==
  LET cells == vector.cells
      integers == [i \in DOMAIN cells |-> IF cells[i] = NA_INTEGER THEN Missing ELSE cells[i]]
      factor == factor_codes_and_categories(cells, vector.levels)
  IN CASE vector.sexp = "INTSXP" /\ "factor" \in ToSet(vector.class) ->
            [Shown("categorical", factor.codes) EXCEPT !.categories = factor.categories]
       [] vector.sexp = "INTSXP" /\ vector.class = <<>> -> Shown("integer", integers)
       [] vector.sexp = "LGLSXP" -> Shown("bool", integers)
       [] vector.sexp = "STRSXP" -> Shown("string", cells)
       [] vector.sexp = "REALSXP" /\ "Date" \in ToSet(vector.class) ->
            Shown("naive", _numpy_temporal(DaySeconds(cells)))
       [] vector.sexp = "REALSXP" /\ "POSIXct" \in ToSet(vector.class) ->
            [Shown("aware", _numpy_temporal(cells)) EXCEPT !.zone = vector.zone]
       [] vector.sexp = "REALSXP" /\ "difftime" \in ToSet(vector.class) -> Shown("delta", _numpy_temporal(cells))
       [] vector.sexp = "REALSXP" /\ vector.class = <<>> -> Shown("float", Reals(cells))

_apply_row_names(vector, rows) ==
  LET cells == vector.cells
      default == [kind |-> "range", labels |-> [i \in 1 .. rows |-> i - 1]]
      compact == vector.sexp = "INTSXP" /\ Len(cells) = 2 /\ cells[1] = NA_INTEGER /\ cells[2] <= 0
  IN IF compact \/ Len(cells) # rows THEN default
     ELSE [kind |-> IF vector.sexp = "STRSXP" THEN "text" ELSE "integer", labels |-> cells]
=============================================================================
