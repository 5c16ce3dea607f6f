----------------------------- MODULE RdsWriter -----------------------------
(***************************************************************************)
(* write_rds: several calls for one path, each of which encodes its          *)
(* data.frames column by column into a temporary file and then moves it to     *)
(* the path; a program that reads the path with read_rds at any time; files     *)
(* that R wrote there.  A call may also write to an open stream instead.        *)
(*                                                                         *)
(* A request is [names, frames, output, int64, dates, timezone]: names is      *)
(* empty for one data.frame; a frame is [columns, index].  The label of a      *)
(* column is a sequence of parts, as names are in RFrames.                     *)
(***************************************************************************)
EXTENDS RColumns

CONSTANTS
  Writers,  \* calls of write_rds
  Requests, \* what they may be asked for
  Foreign,  \* documents of R that the path may hold
  MaxFaults \* bound: errors of the operating system and interrupts

\* What pandas holds in a column: of integers any of 64 bits, of categories the
\* number of one, or -1; of times counts whose days 64 bits hold; only object
\* columns mix types.
Temporal == {"aware", "naive", "delta"}

IsColumn(column) ==
  /\ column.dtype \in {"categorical", "aware", "naive", "delta", "bool", "integer", "float", "string", "object", "other"}
  /\ column.cells \in Seq(ToSet(column.cells))
  /\ column.categories \in Seq(ToSet(column.categories))
  /\ \A cell \in ToSet(column.cells) \ {Missing} :
       /\ column.dtype \in {"aware", "naive", "delta", "bool", "integer", "float"} => cell \in Int
       /\ column.dtype = "bool" => cell \in {0, 1}
       /\ column.dtype = "integer" => cell \in -Int64Max - 1 .. 2 * Int64Max + 1
       /\ column.dtype = "categorical" => cell \in -1 .. Len(column.categories) - 1
       /\ column.dtype \in Temporal => cell \in -Int64Max .. Int64Max
       /\ column.dtype = "naive" => cell \in Day * column.unit - Int64Max .. Int64Max - Day * column.unit
       /\ column.dtype = "object" /\ cell.type = "date" =>
            cell.text \in Int /\ cell.text * Day \in -Int64Max .. Int64Max
  /\ column.dtype \in Temporal => column.unit \in DOMAIN SecondsPerUnit
  /\ column.dtype = "categorical" => Missing \notin ToSet(column.cells)

IsIndex(index) ==
  /\ index.kind \in {"range", "integer", "object", "multi"}
  /\ index.labels \in Seq(ToSet(index.labels))
  /\ index.kind = "integer" =>
       \A label \in ToSet(index.labels) \ {Missing} : label \in -Int64Max - 1 .. 2 * Int64Max + 1

ASSUME FramesAssumption ==
  \A r \in Requests : \A w \in DOMAIN r :
    /\ r[w].int64 \in {"error", "double", "lossy_double"} /\ r[w].timezone \in {None} \cup DOMAIN Offset
    /\ \A frame \in ToSet(r[w].frames) :
         /\ IsIndex(frame.index)
         /\ \A column \in ToSet(frame.columns) : IsColumn(column) /\ Len(column.cells) = Len(frame.index.labels)

\* R's factors are integers with levels.
ASSUME ForeignAssumption ==
  \A frames \in Foreign : \A f \in DOMAIN frames : \A i \in DOMAIN frames[f].vectors :
    LET vector == frames[f].vectors[i]
    IN "factor" \in ToSet(vector.class) => vector.sexp = "INTSXP" /\ vector.levels \in Seq(ToSet(vector.levels))

ASSUME WriterAssumption ==
  /\ MaxFaults \in Nat /\ None \notin Writers
  /\ \A r \in Requests : DOMAIN r = Writers /\ \A w \in Writers :
       /\ r[w].frames \in Seq(ToSet(r[w].frames))
       /\ \A f \in DOMAIN r[w].frames :
            r[w].frames[f].columns \in Seq(ToSet(r[w].frames[f].columns))

VARIABLES
  request,  \* of each call
  document, \* what each call has written
  pc,       \* how far each call is
  litter,   \* calls whose temporary file exists
  target,   \* the document at the path: [by, frames], by None if R wrote it
  shown,    \* what was read last, and from which document
  faults

vars == <<request, document, pc, litter, target, shown, faults>>

Empty == [frames |-> <<>>, closed |-> FALSE]

Frames(w) == request[w].frames

\* The frame that is being written: its columns first, then its attributes.
Open(w) == Len(document[w].frames)

Complete(w, f) == document[w].frames[f].attributes # None

-----------------------------------------------------------------------------
Init ==
  /\ request \in Requests
  /\ document = [w \in Writers |-> Empty]
  /\ pc = [w \in Writers |-> "called"]
  /\ litter = {} /\ shown = None /\ faults = 0
  /\ target \in { [by |-> None, frames |-> frames] : frames \in Foreign } \cup {None}

At(w, from, to) == pc[w] = from /\ pc' = [pc EXCEPT ![w] = to]

\* _validate_data and the checks of the parameters.
Valid(r) ==
  /\ r.frames # <<>> /\ (r.names # <<>> => "" \notin ToSet(r.names))
  /\ r.dates \subseteq UNION { { column.label : column \in ToSet(frame.columns) } : frame \in ToSet(r.frames) }

Validate(w) ==
  /\ At(w, "called", IF ~Valid(request[w]) THEN "refused"
                     ELSE IF request[w].output = "stream" THEN "writing" ELSE "validated")
  /\ UNCHANGED <<request, document, litter, target, shown, faults>>

\* mkdir and mkstemp, whose names are unique.
MakeTemporary(w) ==
  /\ At(w, "validated", "writing")
  /\ litter' = litter \cup {w}
  /\ UNCHANGED <<request, document, target, shown, faults>>

\* The header of the next frame: its flags and the number of its columns.
OpenFrame(w) ==
  /\ pc[w] = "writing" /\ Open(w) < Len(Frames(w))
  /\ Open(w) > 0 => Complete(w, Open(w))
  /\ document' = [document EXCEPT ![w].frames = Append(@, [vectors |-> <<>>, attributes |-> None])]
  /\ UNCHANGED <<request, pc, litter, target, shown, faults>>

\* One column; if it is refused, the call fails with what is written so far.
WriteColumn(w) ==
  LET f == Open(w)
      next == Len(document[w].frames[f].vectors) + 1
      column == Frames(w)[f].columns[next]
      vector == _encode_column(column, request[w].int64, column.label \in request[w].dates, request[w].timezone)
  IN /\ pc[w] = "writing" /\ f > 0 /\ next <= Len(Frames(w)[f].columns)
     /\ IF vector = Refused
        THEN pc' = [pc EXCEPT ![w] = "failing"] /\ UNCHANGED document
        ELSE document' = [document EXCEPT ![w].frames[f].vectors = Append(@, vector)] /\ UNCHANGED pc
     /\ UNCHANGED <<request, litter, target, shown, faults>>

\* names, row.names and class, which come last.
WriteAttributes(w) ==
  LET f == Open(w)
      labels == _row_names(Frames(w)[f].index)
      columns == Frames(w)[f].columns
  IN /\ pc[w] = "writing" /\ f > 0 /\ ~Complete(w, f)
     /\ Len(document[w].frames[f].vectors) = Len(columns)
     /\ IF labels = Refused
        THEN pc' = [pc EXCEPT ![w] = "failing"] /\ UNCHANGED document
        ELSE /\ document' = [document EXCEPT ![w].frames[f].attributes =
                               [names |-> [i \in DOMAIN columns |-> columns[i].label], row_names |-> labels]]
             /\ UNCHANGED pc
     /\ UNCHANGED <<request, litter, target, shown, faults>>

\* The names of a list, and the end of the compressed stream.
Close(w) ==
  /\ pc[w] = "writing" /\ Open(w) = Len(Frames(w)) /\ Complete(w, Open(w))
  /\ document' = [document EXCEPT ![w].closed = TRUE]
  /\ pc' = [pc EXCEPT ![w] = IF request[w].output = "stream" THEN "done" ELSE "closed"]
  /\ UNCHANGED <<request, litter, target, shown, faults>>

Publish(w) ==
  /\ At(w, "closed", "done")
  /\ target' = [by |-> w, frames |-> document[w].frames]
  /\ litter' = litter \ {w}
  /\ UNCHANGED <<request, document, shown, faults>>

\* Mutant of Clean: what has been written is put in place all the same.
Clean_replaced(w) ==
  /\ At(w, "failing", "refused")
  /\ target' = IF w \in litter THEN [by |-> w, frames |-> document[w].frames] ELSE target
  /\ litter' = litter \ {w}
  /\ UNCHANGED <<request, document, shown, faults>>

\* Mutant of Clean: without the except clause.
Clean_kept(w) ==
  /\ At(w, "failing", "refused")
  /\ UNCHANGED <<request, document, litter, target, shown, faults>>

\* except Exception: the temporary file is removed.
Clean(w) ==
  /\ At(w, "failing", "refused")
  /\ litter' = litter \ {w}
  /\ UNCHANGED <<request, document, target, shown, faults>>

Fault(w) == faults < MaxFaults /\ faults' = faults + 1

\* The disk is full, the path is a directory, the stream is closed.
SystemRefuses(w) ==
  /\ Fault(w) /\ pc[w] \in {"validated", "writing", "closed"}
  /\ pc' = [pc EXCEPT ![w] = IF @ = "validated" THEN "refused" ELSE "failing"]
  /\ UNCHANGED <<request, document, litter, target, shown>>

\* KeyboardInterrupt, or the process dies.
Interrupt(w) ==
  /\ Fault(w) /\ pc[w] \in {"validated", "writing", "closed", "failing"}
  /\ pc' = [pc EXCEPT ![w] = "interrupted"]
  /\ UNCHANGED <<request, document, litter, target, shown>>

-----------------------------------------------------------------------------
(* read_rds. *)

\* Every name is flagged as UTF-8.
Utf8 == INSTANCE RFrames WITH Unflagged <- {}, DefaultCodec <- "utf-8"

\* _to_dataframe: a blank name is replaced, one that repeats gets a number.
Keys(names) ==
  Utf8!Names(Utf8!FullRead([i \in DOMAIN names |-> [name |-> names[i], type |-> None, value |-> None]], None))

ShownFrame(frame) ==
  LET rows == IF frame.vectors = <<>> THEN 0 ELSE Len(frame.vectors[1].cells)
  IN [names   |-> Keys(frame.attributes.names),
      columns |-> [i \in DOMAIN frame.vectors |-> _column_to_pandas(frame.vectors[i])],
      index   |-> _apply_row_names(frame.attributes.row_names, rows)]

Read ==
  /\ target # None
  /\ \A f \in DOMAIN target.frames : target.frames[f].attributes # None
  /\ shown' = [of |-> target, frames |-> [f \in DOMAIN target.frames |-> ShownFrame(target.frames[f])]]
  /\ UNCHANGED <<request, document, pc, litter, target, faults>>

Next ==
  \/ Read
  \/ \E w \in Writers :
       \/ Validate(w) \/ MakeTemporary(w) \/ OpenFrame(w) \/ WriteColumn(w) \/ WriteAttributes(w)
       \/ Close(w) \/ Publish(w) \/ Clean(w) \/ SystemRefuses(w) \/ Interrupt(w)

Spec == Init /\ [][Next]_vars

-----------------------------------------------------------------------------
(* Properties. *)

States == {"called", "validated", "writing", "closed", "failing", "done", "refused", "interrupted"}

TypeOK ==
  /\ pc \in [Writers -> States]
  /\ litter \subseteq Writers /\ faults \in 0 .. MaxFaults
  /\ \A w \in Writers : Open(w) <= Len(Frames(w))

\* What a file at the path holds is all that its writer was asked to write,
\* every frame with all its columns and its attributes, and that writer has
\* returned: no reader finds a part of a document, whoever else writes to the
\* path and however other calls end (_write.py:701).
TargetWhole ==
  target # None /\ target.by # None =>
    /\ pc[target.by] = "done"
    /\ Len(target.frames) = Len(Frames(target.by))
    /\ \A f \in DOMAIN target.frames :
         /\ target.frames[f].attributes # None
         /\ Len(target.frames[f].vectors) = Len(Frames(target.by)[f].columns)

\* Only an interrupted call leaves its temporary file behind.
NoLitter == \A w \in litter : pc[w] \in {"writing", "closed", "failing", "interrupted"}

(***************************************************************************)
(* What the cells of a column stand for, whatever the file makes of them:    *)
(* integers and missing values as they are (or, if the caller agrees, as the   *)
(* nearest doubles), categories as R names them, dates and times in ticks,    *)
(* local ones in UTC.                                                         *)
(***************************************************************************)
Beyond32(column) == \E i \in DOMAIN column.cells : column.cells[i] # Missing /\ column.cells[i] \notin -Int32Max .. Int32Max

\* Seconds as doubles have them, if 64 bits do.
WholeSeconds(s) == IF float64(s) \in -Int64Max .. Int64Max THEN float64(s) * Second ELSE Missing

AsDate(column, r) == column.dtype = "naive" /\ column.label \in r.dates

InUtc(column, r, cell) ==
  IF column.dtype = "naive" THEN cell - Offset[r.timezone][cell \div column.unit] * column.unit ELSE cell

\* Times of a unit that is finer than a second: see TimesClose.
Fine(column, r) == column.dtype \in Temporal /\ column.unit # 1 /\ ~AsDate(column, r)

Meant(column, r) ==
  [i \in DOMAIN column.cells |->
     LET cell == column.cells[i]
     IN IF cell = Missing \/ (column.dtype = "categorical" /\ cell = -1) THEN Missing
        ELSE CASE column.dtype = "categorical" -> _level_string(column.categories[cell + 1])
               [] column.dtype = "integer" ->
                    IF r.int64 = "lossy_double" /\ Beyond32(column) THEN float64(cell) ELSE cell
               [] column.dtype \in Temporal ->
                    WholeSeconds(IF AsDate(column, r) THEN cell \div column.unit ELSE InUtc(column, r, cell))
               [] column.dtype = "object" -> IF cell.type = "date" THEN WholeSeconds(cell.text * Day) ELSE cell.text
               [] OTHER -> cell]

Cells(column) ==
  IF column.dtype # "categorical" THEN column.cells
  ELSE [i \in DOMAIN column.cells |->
          IF column.cells[i] = -1 THEN Missing ELSE column.categories[column.cells[i] + 1]]

\* NumPy's signed integers hold every integer of the request.
Signed(r) ==
  \A frame \in ToSet(r.frames) :
    /\ \A column \in ToSet(frame.columns) :
         column.dtype = "integer" => \A i \in DOMAIN column.cells : column.cells[i] = Missing \/ column.cells[i] <= Int64Max
    /\ frame.index.kind = "integer" => \A i \in DOMAIN frame.index.labels : frame.index.labels[i] <= Int64Max

SameLabels(index, given) ==
  CASE given.kind = "range" -> Len(index.labels) = Len(given.labels) /\ index.kind \in {"range", "integer"}
    [] given.kind = "integer" ->
         index.labels = IF index.kind = "text" THEN [i \in DOMAIN given.labels |-> ToString(given.labels[i])]
                        ELSE given.labels
    [] OTHER -> index.labels = [i \in DOMAIN given.labels |-> given.labels[i].text]

\* Labels that tell columns apart stay; a frame without columns has no rows.
Kept(r) ==
  \A f \in DOMAIN r.frames :
    LET given  == r.frames[f]
        got    == shown.frames[f]
        labels == [i \in DOMAIN given.columns |-> given.columns[i].label]
    IN /\ IsInjective(labels) /\ Utf8!Blank \notin ToSet(labels) => got.names = labels
       /\ \A i \in DOMAIN given.columns :
            ~Fine(given.columns[i], r) => Cells(got.columns[i]) = Meant(given.columns[i], r)
       /\ given.columns # <<>> => SameLabels(got.index, given.index)

\* Reading gives what was written: no integer becomes missing or another one,
\* no double is rounded without the caller's consent, no two categories meet,
\* no row labels are taken for R's compact ones (README.md:294-297).  Dates and
\* times in seconds stay as doubles hold them; finer ones are for TimesClose.
RoundTrip ==
  shown # None /\ shown.of.by # None =>
    (Signed(request[shown.of.by]) => Kept(request[shown.of.by]))

(***************************************************************************)
(* A time of a finer unit is read at most three of the steps that doubles of     *)
(* its seconds take, and half a tick, from what was written, although it is     *)
(* rounded up to five times on the way (_write.py:472, api.py:2245-2268).  It    *)
(* is missing if it was, or if 64 bits do not hold its ticks.                   *)
(***************************************************************************)
Slack(ticks) == 3 * StepAt((Size(ticks) * Quantum) \div Second) * Second + Quantum \div 2

TimesClose ==
  shown # None /\ shown.of.by # None =>
    LET r == request[shown.of.by]
    IN \A f \in DOMAIN r.frames : \A i \in DOMAIN r.frames[f].columns :
         LET column == r.frames[f].columns[i]
             got    == shown.frames[f].columns[i].cells
         IN Fine(column, r) =>
              \A k \in DOMAIN column.cells :
                IF column.cells[k] = Missing THEN got[k] = Missing
                ELSE LET ticks == InUtc(column, r, column.cells[k]) * (Second \div column.unit)
                     IN Slack(ticks) >= Quantum * (IF got[k] = Missing THEN Int64Max - Size(ticks) ELSE Size(got[k] - ticks))

\* Of a factor that R wrote, a cell is the level that its code counts to, and
\* missing if the code is NA or no level's number or the level is NA
\* (_core.py:1282).
FactorsMean ==
  shown # None => \A f \in DOMAIN shown.frames : \A i \in DOMAIN shown.frames[f].columns :
    LET vector == shown.of.frames[f].vectors[i]
    IN "factor" \in ToSet(vector.class) =>
         Cells(shown.frames[f].columns[i]) =
           [k \in DOMAIN vector.cells |->
              IF vector.cells[k] \in DOMAIN vector.levels THEN vector.levels[vector.cells[k]] ELSE Missing]

-----------------------------------------------------------------------------
(* A statement of the documentation that the code does not keep. *)

\* README.md:294: integers beyond R's range raise by default.
BeyondRaises ==
  \A w \in Writers :
    pc[w] = "done" /\ request[w].int64 = "error" =>
      \A frame \in ToSet(Frames(w)) : \A column \in ToSet(frame.columns) :
        column.dtype = "integer" => ~Beyond32(column)
=============================================================================
