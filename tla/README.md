# rdsframe in TLA+

rdsframe reads R's serialized objects (`.rds`, `.RData`) from Python without R:
into pandas, Arrow, Polars and DuckDB, column by column into Parquet, or only
far enough to list the tables of a file. This directory holds its formal
specification: TLA+ modules translated from the source, TLC configurations that
model-check them on small instances, and TLAPS proofs for every instance.

Paths below are relative to `src/`, so `src/rdsframe/_core.py` is
`src/src/rdsframe/_core.py` from the repository's root; `_core.py` alone means
that file. PROJECT.json lists the components, runs, mutants, hazards and
theorems, and maps each definition to the lines it models.

## 1. Inventory

### Components

| component | where | state it keeps | operations | what makes it correct |
|---|---|---|---|---|
| Reader, object walk | `_core.py` 784-1215 | reference table, depth | `read_item`, `skip_item`, their `_from_header` twins, pairlists, attributes, ALTREP, environments | a structural pass consumes the stream exactly as the full read does, and registers the same references at the same places; a failure is an error of the documented kind |
| Structural scan | `_scan.py` | none of its own | `scan_vector_from_header`, `scan_column_from_header`, `as_dataframe` | the same, with attributes retained |
| Reader, bytes | `_core.py` 170-782, `_cython_core.pyx` | stream offset, pending overshoot, the local buffer of a batched loop | `raw`, `read_into`, `discard`, `skip_string_elements`, `read_string_elements`, `arrow_string_array`, the compiled scanner | no byte lost, repeated or passed over; bounded memory; the same outcome with and without the extension |
| Header and decompression | `_core.py` 1352-1579 | decompressor, raw file | `decode_header`, `open_rds_stream`, `_DecompressionReadGuard` | byte order told correctly; a corrupt container is an `InvalidRDS` |
| Catalog and sidecar | `api.py` 137-268, 364-619 | sidecar file, temporary file | `list_rds_tables`, `RDSCatalog.save/load/matches`, `inspect_r_file` | a catalog describes one state of its file, the one its stamp names; sidecars are replaced atomically |
| Reading | `api.py` 622-809, 1096-1229, 1253-1622, 1982-2323 | none | `read_rds`, `read_rds(columns=...)`, `read_rds_arrow`, `read_r_object`, `read_rdata` | the tables R would show; projection equals the full read restricted to the columns |
| Lazy dataset | `api.py` 812-1059 | cached inspection, selected table and columns | `table`, `select`, `collect`, `to_arrow`, ... | what is read has the schema that was shown |
| Parquet export, DuckDB | `_parquet.py` | staging directory, batches, connection, pending tables | `stream_root_to_parquet`, `_convert_frame_list`, `_stage_columns`, `_merge_columns` | complete tables or none; bounded batches; unique names |
| Parquet export, PyArrow; selection | `api.py` 1625-1973 | staging directory | `to_parquet`, `_pyarrow_to_parquet`, `_resolve_table_selection` | the two engines write the same files |
| Collections | `_dataset.py` | plan, catalogs (process pool) | `catalogs`, `_build_plan`, `iter_arrow`, `to_parquet` | every file fits the plan it is read under |
| Validation | `_audit.py` 164-388 | none | `validate_rds` | `ok` means readable |
| Differences | `_audit.py` 391-728 | none | `diff_rds` | alignment of columns and rows, repeated names included |
| Writer | `_write.py` | output stream | `write_rds` | what is written reads back |
| Command line | `cli.py` | none | subcommands | prints what the functions return |

`_cython_core.c` is generated from `_cython_core.pyx`.

### Interactions

* Everything that reads goes through one `Reader` over one decompressed stream.
  The object walk calls the byte layer for every header and payload; the
  byte layer calls back only for progress.
* The walks share the *reference table*: R writes a symbol, environment,
  external pointer, namespace or package once and then names it by number. Each
  pass over a file rebuilds the table. This is the shared state that makes a
  skip as delicate as a read.
* The batched string parsers and the other primitives share the *pending
  buffer*, in which the overshoot of a vector waits.
* Processes and threads share the *sidecar files*, and all of them share the
  *source files* with whatever other programs write them. A catalog made in one
  call selects tables for a conversion in another.
* Export engines, collections and the lazy dataset are sequential clients of
  the reader and of the catalog; collections fan out over a process pool.

### What is hard here

Two passes that must agree item by item over data-dependent structure;
read-ahead that crosses component boundaries; limits that bite at different
places in different passes; files that change between two looks at them;
processes that die while they save; a selection checked at one moment and used
at another; publishing several files that are meant to appear together. The
hazards of PROJECT.json go through them line by line. There is no
shared-memory concurrency: one Reader belongs to one thread.

## 2. Modules

| module | what it is |
|---|---|
| `SerializedWalk` | the object walk: the full read and a structural pass over one stream |
| `RStream` | the layout of the byte stream: fields, string elements, what each element's verdict is |
| `StreamCursor` | abstract: a cursor that moves over fields and elements, no buffers |
| `CompiledScanner` | the generated `skip_string_chunk`, byte by byte |
| `BatchReader` | the byte layer in detail, around `CompiledScanner`; implements `StreamCursor` |
| `FileListing` | abstract: a listing is answered with what the file is at one instant |
| `CatalogCache` | `list_rds_tables` with the sidecar, other writers, crashes; implements `FileListing` |
| `Publication` | abstract: tables appear whole, all complete before the first, or none |
| `ParquetExport` | `to_parquet` with both engines; implements `Publication` |
| `RFrames` | operators: data frames as catalog, full read and selective read show them |
| `TableAccess` | `open_rds` and `read_rds(columns=)` over a file that may be replaced; uses `RFrames` |
| `RCollections` | operators: the plan over many catalogs, and what each format makes of a file under it |
| `Collection` | `RDSCollection` read into memory, the files replaced behind the plan; uses `RCollections` |
| `CollectionExport` | `RDSCollection.to_parquet` with its worker processes |
| `Differences` | `diff_rds`, both tiers |
| `RColumns` | operators: columns and row names to R's vectors and back |
| `RdsWriter` | several `write_rds` for one path, and a reader of it; uses `RColumns` |
| `ReadingProofs` | the TLAPS proofs about `TableAccess` and `Collection`, which share `RFrames` |
| other `*Proofs` | the TLAPS proofs about the module they are named after |
| `MC*` | its instance for TLC |

They meet at these boundaries. `SerializedWalk` takes a header with its payload as one
token; `BatchReader` takes fields and string vectors as bytes: that a payload is consumed
exactly, whatever buffers it passes through, is what `BatchReader` shows and
`SerializedWalk` assumes. `CatalogCache` abstracts the scan to what it sees of the file;
`TableAccess`, `Collection` and `Differences` take a catalog as one look, which is what
`FileListing` promises of it. `ParquetExport` takes an item of a root as one step, which
is what the walk guarantees, and a selection as `CatalogCache` leaves it. A job of
`CollectionExport` reads and aligns its file as one file of `Collection` does.
`Collection` takes a selective read as one step; `TableAccess` has its two passes apart.

### SerializedWalk

State: `full` and `part`, each a status, a stack of calls in progress and a
reference table; `fed`, the headers consumed; `program`, which structural pass
`part` is (`skip`: `skip_item` on the root as in `validate_rds`; `project`:
`_read_dataframe_selective`; `catalog`: `list_rds_tables`). `written` is R's own
numbering of the objects it wrote, and `regular` says that the stream is still one
that R can have written; both are external.

A stack frame is a Python call reduced to what it does with the next header:
`item` (an item is read or skipped), `rest` (n elements of a list remain), `attrs`
and `next` (a pairlist's first header, the header of its CDR), `altpart` (class
info and state of an ALTREP object), `root`, and the two frames that act on return,
`symEnd` (a symbol is registered after its name) and `altEnd` (the class
decides). `m` is the walk it belongs to, `d` the value of `Reader.depth` there.

Actions: `Feed` gives the next header to every pass that is still going, and
`expect` dispatches it as the code does (`read_item_from_header`,
`skip_item_from_header`, `scan_*`, `tail`, ...); `Return` runs calls that return
without a header; `Truncated` ends the stream. Feeding both passes the same
header is not an assumption that they agree: what each does with it is its own
code, and the properties say that they stay aligned.

Left out: payload values. What a decoder alone would refuse (an allocation
limit, an unknown ALTREP class, a reference among strings) is the field `fits`
of a token. A pairlist cell with `has_attr` is outside `TokensAssumption`: both
passes ignore that bit.

### RStream, StreamCursor, BatchReader

A byte is its own offset. A pass has read a field rightly if the bytes it got are the
offsets where that field was written; otherwise its status becomes `garbage`,
which the type invariant excludes. State of `BatchReader`: the stream's offset
`at`, the overshoot `pending`, the buffer `buf` and position `pos` of the running
loop, its counter `elem`, and `cur`, where the item in turn was written.
`CompiledScanner` is the C function that Cython makes of `skip_string_chunk`: words read
byte by byte in either byte order, in two's complement.

Actions: `Read` and `Discard` are `raw`/`read_into` and `discard` of a field;
`Begin` and `End` are `_take_batch_buffer` with the choice of the loop, and
`_store_batch_buffer`; `Unpack`, `SkipElement` and `ReadElement` are a turn of
the two Python loops, word by word; `NextBatch` is the seam between the batches of
`arrow_string_array`; `ScanElement` and `ScanRefill` are the compiled scanner and
the refill around it; `Probe` is the trailing-data probe of `validate_rds`.

Assumed of the outside: the stream is buffered, so a read is short only at the
end (the comment at `_core.py` 327-332 assumes the same); `total_bytes` is the
size of an uncompressed file.

### FileListing, CatalogCache

State: `stamp` (size and mtime), the texts of the inodes each file has had,
`rewrite`, and `past`, the history of (path, stamp, text), all external; the
`sidecar` files; each caller's temporary file and call.
A text is two halves that carry the number of the write they come from: that is enough
to tell a scan that mixed two writes.

Actions follow `list_rds_tables` line by line: `Begin`, `Lookup`, `Match`, `Stat`,
`Inspect`, `Scan`/`Scanned` (open, and read on), `Unreadable`, `Restat`, `Mkstemp`,
`Dump`, `OsReplace`, `SaveFails`; then `Select` and `Convert` (an explicit
catalog checked, the file opened). `Crash` may strike at any step. Other programs
`Replace` a file atomically or rewrite it in place (`RewriteHead`,
`RewriteTail`); a scan sees the inode it opened.

Assumed: each write gives a stamp that the file never had. A file rewritten
within the clock's resolution to the same size, or with its mtime restored,
defeats any scheme based on the stamp.

### Publication, ParquetExport

State: `root`, what the file holds (external), `request`, the arguments, both the same for
all calls; `directory`, a function from the names of the files in the destination
to what they hold; `run`, the calls: the reader's place in the root, the table and
column in turn, the batch being filled and those written, the temporary file of a
merge, the complete tables, the results.

A root is a sequence of children with or without the class `data.frame`; a child
is a vector, a list, a data.frame (with items of its own) or R's NULL, and has a number of
rows and a size. A table that has been written is its index with the positions of the
items in it, which tells a column lost, repeated, moved or taken from another table.

Actions of the DuckDB engine: `Checks` (which ends with the staging directory made), `EnterTry` (`connect()`, and the
`try` whose `finally` removes the directory), `First` (what the first child makes of the
root), `TableInTurn` (a turn of `_convert_frame_list`: skip or open), `Column`
(a turn of `_stage_columns`), `LastBatch` (the rest is written, the attributes are read),
`Merge`, `ReplaceSingle`, `ReplaceInList`, `RootAttributes` (the class that comes
last). Of the PyArrow engine: `ReadArrow` (all of `read_rds_arrow`, the checks, the
selection) and `WriteTable`. Of both: `Rename`, `Renamed`, `Cleanup` (which the operating system may refuse without a
word: `ignore_errors`). `Fault` (any step may raise, `connect()` and `close()` included), `DoubleFault` (so does the clean-up of
`_merge_columns`), `Interrupt` and `Crash` may strike anywhere, between `mkdtemp` and the `try` and inside the `finally` too.
`lapses` is a history of what has kept something temporary from being removed.

Left out: which values `_column_to_arrow` refuses (a fault), the names of columns,
`gc_collect_every`, how DuckDB and PyArrow write. Assumed: `os.replace` within a directory
is atomic, `mkdtemp` and `mkstemp` give names nobody else uses, the
file does not change during the call (`CatalogCache` is about that).

### RFrames, TableAccess

State: `disk`, what the file holds (a codec, one data.frame or a list of them), which
another program may `Replace`, and `seen`, what it has held since the call began;
`handle`, the `RDSDataset` with its table, columns, encoding and the inspection it keeps;
`call`, the terminal in progress.

`Select` is `RDSDataset.select` against the inspection; `Begin` starts `collect()`,
`to_arrow()` or `read_rds(columns=)`; `Inspect` takes the inspection if there is none and
chooses the way to read; `ScanNames` is the pass that resolves names, `ReadSelected` the one
that reads, after a second open; `ReadFrame` and `ReadTable` are the full reads.
`RFrames` has what every look makes of a name: decoding, blank names (`V1`, `V2`), the
numbers that keep doubles apart (full and selective reads, not the catalog).

Left out: rows and values (a column's value is a mark that tells it from every other).

### RCollections, Collection

State: `held`, what each file holds, `rewrites` and `replaced` (how often, and which since their
catalog was taken), all external; `catalogs`, `plan`, `options` (mode, table, columns, naive
datetimes, the files whose names do not match the partitions' pattern), `terminal` (the
one in progress with the tables it has, and what the files held when they were read).

`TakeCatalog` in any order (workers), `BuildPlan` from the catalogs alone, then `BeginTerminal` and one
step for each file: `IterArrow`, `CollectArrow` (the schema of the first file counts),
`CollectPandas` (`_check_concat_dtypes`; `head` may stop early). `ReplaceFile` strikes at any time.
`RCollections` has `_build_plan` in both modes (what a catalog can show of a type: neither the
kind of an ALTREP vector nor the zone of a datetime), the fills, the decoding of factors, and the
two alignments of a table. A column's type has what the pandas dtype depends on besides R's type, in `holds`: an integer column is
`int32`, or `Int32` with missing values and as a fill; instants, days and durations are `[s]`, or `[ns]` if some are no whole
seconds. `Zones` are those that pandas knows.

Left out: rows, the order in which partitions are parsed, doubles and logicals (they take the paths
of the modelled kinds, with one dtype whatever they hold), `to_polars` (wraps `to_arrow`).

### CollectionExport

State: `job` (where each file's job is), `litter` (temporary files), `directory`,
`collected`, `call`, `pool`. `Destinations` are fixed before a job starts: `_unique_name` over the safe
names, which are sequences of parts, a number for each.

A job `StartNext`s in this process, or is `Queue`d and `StartQueued` by a free worker; then
`ReadAndAlign`, `MakeTemporary`, `WriteTable`, `Publish`, with `Refuse` (an exception),
`Interrupt`, `Die` and `Terminate` in between. The caller's `TakeResult`,
`TakeFailure` (which recalls the jobs not yet queued) and `Finish`. The pool is
`concurrent.futures`: `Queue`, `Terminate` and the broken pool are external.

### Differences

State: `catalog` and `arrow`, what was seen and read of each file, `entries`, the report.
`TakeCatalog`, `DiffStructure`, `ReadArrow`, `DiffContent` in the code's order, `Replace` between any
two. `Structure` and `Content` are `_diff_table`, `_differing_rows` and their callers, the keys of
repeated names included. Cells are what Arrow has of them (times to the microsecond). Complex columns are structs and list columns
lists, if Arrow infers that, or of the type it infers (`detail`): of the nested ones `equals()` alone can tell, and it finds no
cell with a NaN in it (`Holed`) equal to any. Columns that Arrow refuses end the call and are left out.

### RColumns, RdsWriter

State: `request` and `document` for each writer, `pc`, `litter`, `target` (what is at the path and
who wrote it), `shown` (what was read last).
`Validate`, `MakeTemporary`, `OpenFrame`, `WriteColumn`, `WriteAttributes`, `Close`, `Publish`,
`Clean`, with `SystemRefuses` and `Interrupt`; `Read` is `read_rds` of the path.
`RColumns` has both conversions; `Keys` is what `_to_dataframe` makes of names, with the operators of `RFrames`. Integers keep their width: `Wrapped` is what a NumPy cast without a
check leaves, `float64` rounds to the nearest double (halves to the even one).

Times are counts of a column's unit. On the way out a count becomes a double, is multiplied by the double of the unit (1e-9 for
nanoseconds) and rounded each time (`seconds`); the vector's doubles are counted in quanta, which stand for the binary
fractions. On the way back the values decide the unit: whole seconds if all are whole, otherwise `rint` of the seconds times 10^9, again a double;
what 64 bits do not hold is missing (`_numpy_temporal`). Local times are moved to UTC by `Offset`, and refused where clocks
show them never or twice (`tz_localize`). Naive times within a day of the ends of 64 bits, doubles that are no integers, complex
columns, byte layout and compressors are left out.

## 3. Runs

| run | instance | distinct states |
|---|---|---|
| `walk` | 16 headers, up to 7 of them, depth 3, 2 references, all three programs | 880,715 |
| `batch` | words of 2 bytes, a chunk of 3, files of up to 22 bytes cut at every place, both byte orders | 431,772 |
| `catalog` | two callers, two files, one sidecar, two writes | 267,627 |
| `export` | 28 roots, one call with each engine into one directory, batches of 2 columns and 3 bytes | 850,660 |
| `access` | 10 files, each in the place of any other once; every selector of table and columns | 1.04 million |
| `access_encoding` | the same | *violated* |
| `collection` | three files, one replaced once, both modes, all five terminals | 5.30 million |
| `collection_export` | four files with clashing names, two workers or none, two faults | 12,090 |
| `differences` | every pair of 34 files, either replaced once, both tiers | 516,188 |
| `diff_tables` | the same | *violated* |
| `writer` | two writers for one path and a reader, one fault, integers at every limit, times of three units | 1.71 million |
| `writer_unsigned` | the same | *violated* |

Section 4 says what each shows, section 5 what the violated ones show. Twelve further
configurations are kept for the statements of section 5 that no listed run checks: run
`tlc -config MCCatalogStale.cfg MCCatalogCache`, and so on.

The bounds and why they are enough:

* **Headers.** `SomeTokens` has one header for each branch of the two
  dispatches, and both values of each field where a branch looks at it. `MaxTokens`
  = 7 lets an ALTREP object with a symbol in its class info complete, or a
  vector with a tagged attribute whose value refers to its tag. `MaxDepth` = 3 is
  reached from each recursive branch, `MaxRefs` = 2 too. The proofs drop
  all four bounds.
* **Bytes.** A chunk of three bytes with words of two ends inside every word and
  between any two; strings of length 1, 4 (the limit), 5 (over it), 0, -1 (NA) and -2
  cover each comparison; both long references (valid, invalid) and short ones.
  `MinScan` = 2 has one-element vectors take the Python loop and the others the
  scanner; `StringChunk` = 1 puts a batch seam between any two elements. `MaxSize`
  exceeds the longest file, so trailing bytes occur.
* **Files of the catalog.** Two writes allow a replacement at any step, two of them, or one
  rewrite in place seen half-way. Two callers allow two saves at once, and one
  caller finding what the other left. One sidecar for both files is the case
  with the most interference (`t.rds` and `t.RDS` have the same sidecar name, since
  `_catalog_cache_path` replaces the suffix). Callers and files are
  interchangeable, so the run uses symmetry; every property of it is safety.
* **Roots.** Up to five columns or three tables: three batches (by columns, by bytes, one
  column larger than a batch), names that clash with one another and with the
  numbers appended, and every kind of child at each place where the dispatch looks: first, later,
  inside a table. Selections include one within, one partly out of range and one that leaves
  the first table out; the limits 1 and 2 bite below, at and above the number of tables.
  Two calls, since two renames into one directory are all that two calls share. The files
  of an earlier conversion are there from the start.
* **Contents of one file.** One table or three, blank names, doubles, a name that looks
  like a number appended to another, names outside ASCII with and without an encoding of their own.
  One replacement suffices: between any two looks the file is then one or the other.
* **Collections.** Three files are the fewest of which one can be first, one deviate and one
  come after; every column that deviates does so in one respect (name, order, kind, levels,
  zone, ALTREP, codec, a missing integer, a fraction of a second), and one has a blank name before a real `V1`. The three unlisted configurations take two files and no replacement.
* **Jobs.** Four stems, of which two are equal, one is that name with the number that
  would be appended, and one is free; two workers leave one job waiting, one queued. Two faults
  allow a failure after a failure, a death behind an interrupt, and so on.
* **Cells of two files.** Every pair of files is compared, each with itself too: two rows show one cell that is equal and one that
  is not, missing, NaN, or holds a NaN.
* **Integers.** R's largest is 3, the largest exact double 32, NumPy's 127: the limits keep their
  order, and cells lie at each, next to each and beyond each. `Wrapped` and
  `float64` are the definitions for any width.
* **Times.** A second is ten ticks and sixteen quanta, units are seconds, fifths and tenths: neither 1/5 nor 1/10 is a
  double, as 1e-9 is none, and the quanta round them. Cells are whole days and seconds, fractions, local times that
  `CET` skips (its third second) and repeats (its seventh), counts at which doubles are further apart, and the ends of 64 bits.

Deadlock checking is off in all of them because all of them may end: a stream ends, a
read ends, calls are answered and the writes are used up.

**Fairness.** `BatchReader` assumes weak fairness of its next-state
relation, which says that the one thread that runs the loop does not stop
between two of its steps. Nothing is assumed about which step. The other modules assume none. Calls to
`list_rds_tables` may stop anywhere, so no liveness is claimed for them; a writer that
never rests makes each call fail at `Restat`, by design. That a parallel export ends would be a property of
`concurrent.futures`, which hands out the jobs and reports dead workers, and not of this code: none is stated. The rest are single calls whose
end is bounded by their input.

## 4. Properties

**SerializedWalk**, all with `full` the reading of the root and `part` any of the three
structural passes:

* `SameReferences` — as long as neither pass has failed, they have registered the
  same objects in the same order (the comment at `_core.py` 995-999).
* `LockStep` — their calls in progress correspond one to one: the reason for it.
* `SameEnd` — they find the end of the object at the same header.
* `WriterNumbering` — on a stream R can have written, the table of the full read is
  R's own numbering, up to the symbol whose name is being read.
* `DivergenceIsPolicy` — one pass fails alone only for a closed list of reasons:
  allocation limits, ALTREP classes, dotted pairlists, the tabular root, depth.
* `DepthIsSound` — `skip_item` does not go on where `read_item` found the nesting
  too deep.

**BatchReader**

* `NothingLost` — what is buffered and not parsed is the stream between the place
  in turn and the stream's offset, across loops, batches and primitives.
* `MemoryBounded` — the buffers hold less than a chunk and one header.
* `TrailingExact` — the probe behind the root sees a byte iff there is one.
* `RefinesCursor` — the fields, the errors and their places are those of a plain
  cursor. The cursor allows the compiled scan to give up when fewer than eight
  bytes are left, which is what `ScannerAgrees` is about.
* `ScannerSees` — on the bytes of the buffer, in either byte order, the compiled function stops where
  the layout says: at the element it lacks bytes of, or at the one the layout refuses.
* `Terminates` — no file makes a loop spin.

**CatalogCache**

* `CatalogsTrue` — what is served or stored shows one state of its file, the one
  its stamp names.
* `SidecarsWhole` — a step that changes a sidecar leaves a whole catalog there.
* `NoLitter` — only a process that dies leaves a temporary file.
* `AnswersAtOnce` — each call is answered as if it looked at its file at one
  instant of the call (refinement of `FileListing`).

**ParquetExport**

* `Publishes` — refinement of `Publication`: a call that refuses (a limit, a root
  or a table that is no data.frame, ragged columns) has changed nothing; otherwise
  every table asked for is complete before the first is put in place, each is whole, in
  its place in the order, in a file of its own; a success has put all in place.
* `BatchesBounded` — batches keep to `stage_max_columns` and `stage_max_bytes`.
* `NothingLeft` — what is temporary and outlives a call is on a closed list (item 17 of section 5): the staging directory, if
  the failure comes between `mkdtemp` and the `try`, or in the `finally` before the directory is gone, or if the
  operating system refuses to remove it; the file that `_merge_columns` writes, if that is refused too or an interrupt passes by its
  clean-up, and then in the destination or in a staging directory that stays. In a call that succeeds or refuses its
  input only the `finally` can fail.
* `EnginesAgree` — the two engines write the same tables, and into the same files
  unless tables are selected.
* `EnginesAccept` — one engine converts what the other refuses only if a table has no
  columns (DuckDB refuses) or an unselected one is ragged or nested (PyArrow refuses).

**TableAccess**

* `OneVersion` — what is read is a table that the file held during the call; no column
  is taken from one version and named after another.
* `SchemaKept` — it has the schema the dataset showed, by `collect()` and `to_arrow()` alike, if the file stays
  and the names of its columns tell them apart.
* `RefusedOnlyFor` — what `select()` has accepted is refused later for four reasons only.

**Collection**

* `FilledIffAbsent` — nulls stand for a column exactly if the file lacked it when it was read.
* `NoPromotion` — a column has one type in all tables of a result, a dictionary one set of levels, wherever the
  catalogs show the types and the names of a file tell its columns apart. Two pairs of dtypes are excepted that `pd.concat` makes one
  (item 18 of section 5): `int32` and `Int32`, durations in `[s]` and `[ns]`.
* `AcceptedIsRead` — what the plan accepts every terminal reads, up to a closed list of
  reasons: types that the catalogs hide, blank names, names that the selective read decodes otherwise, an empty projection, file
  names that do not match the partitions' pattern, and instants or days with fractions of seconds in some files only (item 19).

**CollectionExport**

* `OwnFile` — each finished job's table is in a file of its own, whatever names clash.
* `ReturnedComplete` — a call that returns has written every file.
* `NoLitter` — temporary files belong to jobs at work, interrupted or killed.
* `NeverMissing` — no Parquet file disappears, no table of this call is replaced.

**Differences**

* `IdenticalIffSame` — the report is empty exactly if the files are the same at the
  level that was checked (names of tables distinct), every cell as Arrow has it; except that complex and list columns with a NaN in
  a cell are always reported, of two copies of one file too (item 16 of section 5).
* `Symmetric` — exchanging the files exchanges what was added and removed, and nothing else.

**RdsWriter**

* `TargetWhole` — the path holds one writer's whole document, or what was there before.
* `NoLitter` — only an interrupted writer leaves its temporary file.
* `RoundTrip` — reading gives what was written: no integer becomes NA or another, no integer is
  rounded to a double without consent, dates and times in whole seconds stay as far as doubles and 64 bits hold them, no categories meet, no labels are taken for compact row names; labels of columns stay
  if they tell the columns apart. A frame without columns is read without rows: the reader
  counts rows by the columns, whatever `row.names` says (`api.py` 2110-2123).
* `TimesClose` — a time of a finer unit is read at most three steps of the doubles of its seconds, and half a tick, from what was
  written, although it is rounded up to five times on the way; it is missing only if it was, or if its ticks are at the end of 64
  bits or beyond (item 20 of section 5).
* `FactorsMean` — a factor's cell is the level its code counts to, NA levels included.

The type invariants of the modules whose runs do not list one (`TypeOK`, `CollectionTypeOK`) are defined next to these.

Each property of a passing run has a mutant in PROJECT.json: a plausible bug, given in the
module just before the definition it replaces, under which TLC finds the property
violated.

## 5. Disagreements found

The first three are listed runs and findings of PROJECT.json; the others have a
configuration of their own, named in brackets.

1. **Names of a selective read** (`access_encoding`). README.md 650-654 has unflagged names
   read in the encoding of the header or of `encoding=`. The pass that resolves the
   names of `read_rds(columns=)` and `collect()` uses neither (`api.py` 1184): a name that the catalog shows
   and `select()` has accepted is not found.
2. **Tables of one name** (`diff_tables`). `identical` is "no differences at the level that was
   actually checked" (`_audit.py` 141); tables are paired by a dictionary, so that of
   tables of one name only the last is compared.
3. **Unsigned integers** (`writer_unsigned`). Integers beyond R's range are to raise by default
   (README.md 294); `uint64` is cast to `int64` before its range is checked, and 2^64 - 1 is written as -1.
4. **Depth** (MCWalkDepth). `AUDITORIA_TECNICA.md` 458 has the maximum depth
   symmetric between reading and skipping. `skip_item` walks the class info and the
   state of an ALTREP object one call deeper than `read_altrep`, so it can refuse
   what the reader reads. The converse cannot happen (`DepthIsSound`).
5. **ok** (MCWalkReadable). `validate_rds` reports `ok` as "rdsframe can read the
   file"; the skip does not look at allocation limits of most vectors, at ALTREP classes, or
   at dotted pairlists. `DivergenceIsPolicy` shows the list is complete.
6. **Accelerator** (MCBatchScanner). Around the compiled scanner, eight bytes are
   asked for where an element may need four. The vector must be the last thing in
   the stream and end in a four-byte element, which R does not write.
7. **Encoding of a sidecar** (MCCatalogCodec). The sidecar's key leaves out the encoding.
   `inspect_rds` avoids the cache when one is given, `_catalog_worker` does not.
8. **Stale catalog** (MCCatalogStale). The check of an explicit catalog and
   the opening of the file are two looks at the path.
9. **Engines** (MCExportEngines). CHANGELOG.md 148 calls the outputs of the engines
   equivalent. DuckDB makes names unique among the selected tables, PyArrow among all
   tables of the file: the second of two tables `a` becomes `base__a.parquet` or
   `base__a_2.parquet`.
10. **A list of one table** (MCAccessRoot). `api.py` 938-940 holds the case for unreachable
    ("defensive"): the catalog of a list of one data.frame has one table, so `collect()` raises
    an error about the root, while `to_arrow()` reads it.
11. **Names that are no longer there** (MCAccessRace). `columns=` takes exact names
    (`api.py` 688): if the file is replaced between the two passes, the columns at the old positions are
    returned under their new names.
12. **The table asked for** (MCAccessTable). A dataset opened for a table by its name
    (README.md 177-180) keeps the place of that table; of a file replaced since by one with the tables in another
    order it returns another table.
13. **Promotion** (MCCollectionAltrep). `_dataset.py` 11-13: a column of another type is an explicit
    error, never a silent promotion. The catalog shows every ALTREP vector as `sexp_238`: an integer
    column and a double one, both compact, are taken for one type.
14. **Levels** (MCCollectionLevels). `_dataset.py` 14-18: factors whose levels differ are decoded
    to strings. A missing level and an empty one look alike in a catalog: such factors stay factors.
15. **Blank names** (MCCollectionBlank). `_dataset.py` 10-11: union mode fills columns that are
    missing. A column without a name is blank in the catalog and `V1` when it is read: it is there, and filled with
   nulls. Where a real column is named `V1`, the one without a name takes its place: the plan has the type of
   the one and the data are the other's, of another type perhaps, which frames mix silently and Arrow schemas refuse.
   `NoPromotion` and `AcceptedIsRead` name blank names for this.

The last five have no configuration: the properties of the listed runs name them as exceptions, and hold only with those.

16. **NaN in nested cells** (`IdenticalIffSame`). README.md 340-342: float NaN equals NaN, a value that both files miss has not
   changed. A complex column is a struct for Arrow: `equals()` is false as soon as a part is NaN, and
   `not_equal` has no kernel for structs, so `_differing_rows` returns -1 (`_audit.py` 725-728). Two copies of one file with an NA in a complex
   column, or a NaN in a vector of a list column, are reported as different with `content=True`.
17. **Temporary data** (`NothingLeft`). README.md 397: exceeding a limit cleans temporary data. `connect()` stands between `mkdtemp`
   and the `try` (`_parquet.py` 97-99); in the `finally`, a `close()` that raises or an interrupt skips the `rmtree`, which ignores
   errors besides (216-218). Then the staging directory stays, for a limit too as far as the `finally` goes.
18. **Promotion of dtypes** (`NoPromotion`). `_dataset.py` 11-13 again: an integer column without missing values is `int32`, one with some,
   or filled, `Int32`; durations are `[s]` or `[ns]` by their values. `_check_concat_dtypes` looks at datetimes only, and
   `pd.concat` makes the column one of the two without a word.
19. **Units of one type** (`AcceptedIsRead`). Instants and days, too, are `[s]` or `[ns]` by the values. Files whose schemas agree in
   all that R knows are refused by `_check_concat_dtypes` (617-625) if one has fractions of seconds and another none. The message
   recommends `posixct_mode='utc_naive'`, under which the units differ as before.
20. **Times** (`TimesClose`). README.md 290-291 has datetimes among the supported types and does not speak of their precision; `_write.py` 25-26 has
   what is finer than a microsecond truncated as in R. It is rounded, each way: 2001-01-01 in `datetime64[ns]` is written as
   978307200.0000001 seconds, a double above, and is read 119 ns late. A column of coarser times of
   which one has a fraction reads as missing whatever lies outside the years 1677 to 2262, counts of seconds beyond 2^53
   are rounded, and the unit is not kept.

## 6. Proofs

For any values of the constants that satisfy the assumptions:

| module | theorems |
|---|---|
| `SerializedWalkProofs` | `TypeCorrect`, `CallsInLockStep` (`LockStep`), `ReferencesAgree` (`SameReferences`), `EndsAgree` (`SameEnd`), `DivergesByPolicy` (`DivergenceIsPolicy`), `DepthSound` (`DepthIsSound`), `NumbersAsWritten` (`WriterNumbering`) |
| `BatchReaderProofs` | `TypeCorrect`, `LosesNothing` (`NothingLost`), `BoundedMemory` (`MemoryBounded`), `ProbeExact` (`TrailingExact`), `ImplementsCursor` (`RefinesCursor`), `ScannerFindsAll` (`ScannerSees`) |
| `CatalogCacheProofs` | `TypeCorrect`, `ServedAndStoredTrue` (`CatalogsTrue`), `LeavesNoLitter` (`NoLitter`), `ReplacedByWhole` (`SidecarsWhole`), `ListsAtOnce` (`AnswersAtOnce`) |
| `ParquetExportProofs` | `Invariant`, `LeavesNothing` (`NothingLeft`), `EnginesAcceptAlike` (`EnginesAccept`), `Contained`, `BatchesAreBounded` (`BatchesBounded`), `EnginesAlike` (`EnginesAgree`), `ImplementsPublication` (`Publishes`) |
| `CollectionExportProofs` | `TypeCorrect`, `Complete` (`ReturnedComplete`), `LeavesNoLitter` (`NoLitter`), `FilesApart` (`OwnFile`), `TablesStay` (`NeverMissing`) |
| `RdsWriterProofs` | `TypeCorrect`, `WholeTarget` (`TargetWhole`), `LeavesNoLitter` (`NoLitter`), `WritesWhatWasAsked`, `ReadsWhatWasWritten` (`RoundTrip`), `FactorsRead` (`FactorsMean`) |
| `DifferencesProofs` | `Invariant`, `EmptyIffSame` (`IdenticalIffSame`), `Mirrors` (`Symmetric`) |
| `ReadingProofs` | of `TableAccess`: `ReadsOneVersion` (`OneVersion`), `ReadsTheSchema` (`SchemaKept`), `RefusedForReasons` (`RefusedOnlyFor`); of `Collection`: `CollectionInductive`, `FillsWhatIsAbsent` (`FilledIffAbsent`), `NeverPromotes` (`NoPromotion`), `ReadsWhatIsAccepted` (`AcceptedIsRead`) |

**Assumptions.** Each is named and stands in the module that declares the constants; TLC evaluates it in
that module's run. They say what a stream, a file or a request is, never how the code treats it:

* `TokensAssumption`, `LimitsAssumption` (`SerializedWalk`): headers are well formed, with attributes only on
  kinds R writes them behind; limits are naturals.
* `LayoutAssumption`, `ContentsAssumption` (`RStream`), `ChunkAssumption` (`BatchReader`): widths of words,
  chunks and files are naturals, a file is a sequence of items. `WidthAssumption` (`BatchReader`): a word has more than
  one byte, and the length or index that an element has, or what its flags have of it, fits in one, as R writes them.
* `CacheAssumption`, `ContentAssumption` (`CatalogCache`): each file has one sidecar; the marks for nothing and
  for half a sidecar are no catalogs.
* `ExportAssumption` (`ParquetExport`, `CollectionExport`), `WriterAssumption` (`RdsWriter`): the shape of roots,
  requests, frames and directories.
* `NumbersAssumption` (`RColumns`): the limits of integers and doubles are in their order, every size of 64 bits has doubles some step
  apart, a missing value and R's NA are no numbers. `TimesAssumption`: a second is a whole number of each unit, and clocks are within a day of UTC.
  `FramesAssumption`, `ForeignAssumption` (`RdsWriter`): what pandas holds in a column or an index, naive times no nearer than a day to
  the ends of 64 bits, and that R's factors are integers with levels.
* `FilesAssumption` (`Differences`): tables and columns are sequences, and a column is of a kind that Arrow takes and has a cell for
  each row.
* `AccessAssumption`, `FilesAssumption` (`TableAccess`): tables, frames, names and selections are sequences, and a
  root that is no list is one table. `InspectionAssumption`: an inspection is not the mark for none.
* `CollectionAssumption`, `FileContentsAssumption` (`Collection`): there is a file, selections and generated names are
  sequences; what a file holds are frames of named columns of the six kinds, whatever their values, and a root that is no list is one table.

**SerializedWalk.** `SameReferences` is not inductive: which references
the next header adds depends on the calls in progress. `IInv` is `TypeOK` with
`Together`: while both passes run, their stacks are aligned frame by frame
(`Corresponds`) and their tables are equal; when one has failed, the other's
status is within the policy; and, for `skip_item`, a frame of the structural
pass is at least as deep as its counterpart. The depth clause is needed to show that
whenever the reader is stopped by its limit the skip is stopped too, and it is why
`Corresponds` has a parameter `deep`: it is false for the programs that
open the root outside any call. One lemma per dispatch says that aligned calls given the same
header have outcomes that `Agree`: the same references, aligned new calls, or a
failure within the policy. Lemmas on sequences (`AlignedConcat`, `AlignedTail`)
carry alignment over pushing and popping; `TakeTogether` and `ResumeTogether`
lift the outcomes to the passes; `StepsTogether` and `InitTogether` close the
induction.

`WriterNumbering` has an invariant of its own, `Numbering`. R enters an object when it writes its header, the reader
enters a symbol only behind its name: `Unnamed` says that at most one call, the innermost, awaits a name, and that
R's table is then the reader's with that symbol behind it. For each header, the lemmas `Naming` and `Numbers` show that
what a dispatch enters, at once or by such a call, is what R enters for it. As R's table goes on while the structural passes
run, the argument also uses `EndsAgree`.

**BatchReader.** `NothingLost` speaks of the moments between operations; inside a loop the invariant has
to say what the loop holds: that buffer and overshoot together are the stream from the element in
turn to the stream's offset, that the loop's own choice (compiled or not, the batch it is in) is the
one its vector allows, and how many bytes a refill may have added. The bound of the buffer follows because a
refill is only made when less than what is asked for is left. The refinement adds that the cursor's place is the
first byte not parsed; each action is then a move of the cursor or a stutter, the probe included.

`ScannerSees` needs nothing more of the invariant; it is about operators that are recursive functions over the bytes
of a word, the elements ahead and the turns of the compiled loop. `Climb` (of the numbers for which a
fact is missing, one is least) stands for induction, `Iterations` and `MadeSo` say that what is made
step by step exists, and in one way. A word that was written is read as what was meant, in both byte orders and with
its sign (`WordIs`, for words of two bytes or more); an element shows in the buffer where those before it end,
as far as the buffer goes (`ElementShows`); a turn makes of an element, complete or not, what a
look at its layout does (`TurnIs`, `TurnLooks`); so the loop ends where the looks end (`ScannerFinds`). A sign that is taken from
another byte, or an index 0 that is let through, leaves a step that is not provable.

**CatalogCache.** A catalog is true because the stamp taken before the scan is still the file's after
it. The invariant says what each program counter knows: the history holds the text of every stamp a file
has had, no stamp comes twice, a scan's halves were both read between the two stats, and a sidecar or temporary file that is
not `Partial` is a true catalog of some source that shares it. For `AnswersAtOnce`, the history since the call
began holds the text that the answer shows.

**ParquetExport.** The engines read in different orders: DuckDB judges while it reads, PyArrow after it
has read all. `EnginesAccept` compares two ends, so the invariant fixes what each end means: `DuckAccepts` and
`ArrowAccepts` are the engines' verdicts as functions of root and request, and each position of a call
has shown a part of its verdict (the children before the one in turn, the items before the column in
turn, the limits so far). `Invariant` says that a call that ends well has been accepted by its verdict and one that refuses has not;
the theorem then compares the two functions. For `NothingLeft` it says of each position what is temporary there: a temporary file
only while `_merge_columns` writes, no staging directory before `mkdtemp`, nothing in `lapses` while the
call works, and behind the work only what an exception there can have kept from being removed.

The second invariant, `Contained`, says what a call has made so far: the batches in the staging area and the one being filled hold
the columns taken, each once and in order, within their bounds; what is complete are the first of the tables asked
for, whole; what is in place are the first of those, under names that are new among the names given before
(names are sequences of parts, and the search for a free number ends by `LeastNumber`, see `CollectionExport`).
`EnginesAgree` follows since both engines end with `AskedFor`, and give the names in the same order when nothing is
left out. For `Publishes`, each action is a step of `Publication` or a stutter under the mapping: a merge, a write or the last
item of a list completes a table, a rename puts the next one in place, and refusals, faults, interrupts and crashes stop the
call where it is.

**CollectionExport.** Files are apart because the names are: `DestinationsApart`. That is induction over
the names that are given, first to last, and inside it that a search for a number that is not in use ends within as
many numbers as there are names in use. The library's induction theorems take an operator as
parameter, which the provers cannot instantiate; `LeastNumber` (every non-empty set of naturals has
a least element, by well-foundedness of the strict subsets) has none and serves in their place: a counterexample
would have a least one. Everything else is an invariant over `job`, `directory` and `collected`.

**RdsWriter.** What is at the path was closed by its writer, and a document that is closed has every frame
with every column: the first invariant follows a document from frame to frame, whatever its columns are encoded
as. The second, `WInv`, says that what has been written is what was asked for: each vector is the encoding of the column at
its place and none is a refusal, the attributes are those of the frame, and what is at the path, or was read last, is a
document of R's or the whole of its writer's. `RoundTrip` is then about operators: `ColumnMeant` goes through the kinds of column
(`IntegersMeant`, `ObjectsMeant`, `FactorMeant`), `LabelsBack` through those of row labels, and `KeysPlain` has names that
tell columns apart stay. They rest on what a conversion without a check leaves of an integer that fits (`WrappedIs`), on
doubles (`DoubleIs`: every integer of 64 bits has one, and up to `ExactLimit` it is the integer), on times in
whole seconds, which are whole when they are read, and stay so unless 64 bits have no room for them (`SecondsBack`,
`TemporalBack`, `DaysBack`), and on factors
(`FactorIs`): the loop that drops NA levels keeps, after each level, the levels so far in order, so that a code is mapped
to the place of its own level. A `float64` that rounds wrongly, a range that admits R's NA or a factor that lets codes run past the levels
each leave a step that is not provable. `ReadsWhatWasWritten` says nothing of times in a finer unit, which do not come back as they
were; how far off they are, `TimesClose`, is left to TLC.

**Differences.** The keys under which columns are paired are apart although names repeat (`KeysApart`), and two
tables with the same keys in the same order have the same columns, name for name and occurrence for occurrence
(`SameOrder`, from the least place at which they would differ). So the structural part is empty exactly if the catalogs
tell the same (`StructureSame`), and the content tier, which finds tables by the positions of the catalogs, exactly if
the cells are the same and, in complex and list columns, hold no NaN (`CellsSame`, `ContentSame`). The invariant adds that what was taken of a file is what the file
holds as long as nobody replaces it. `Mirrors` goes through the report by its parts: each is a set of entries whose
mirror is the part with the files exchanged.

**TableAccess** (in `ReadingProofs`). `ReadsOneVersion` needs that the file of the moment is in the history of the call and that a
selected table has a place. The two loops that build a result, keys of columns (`Keyed`) and positions
(`_resolve_column_selection`), are recursive functions: that they exist, and what they hold after each turn, is shown by
`LeastNumber` again; a key begins with its column's own label whatever keys exist already. `ReadsTheSchema` adds
what each program counter knows while the file stays: the inspection is its catalog, the request is made of the
selected names, and the first pass has the names in the default codec. If the catalog's names tell its
columns apart, no key gets a number (`KeyedPlain`), so that a full read has the catalog's columns; and a name that the first pass
finds in the wrong codec it can only find at the column the catalog shows under it (`SamePlace`), since a decoding
that depends on the codec shows which one it was.
For `RefusedOnlyFor` the invariant adds that what `select()` has checked is a selectable table with those columns in its
inspection (`CheckedSound`) and that the way of reading was chosen for it (`PlanSound`): a name can then be missing or
ambiguous in the first pass only if that pass decodes it in another codec, the catalog shows it twice, or it is blank.

**Collection** (in `ReadingProofs`). `CInv` has five parts: a catalog shows what its file held, and still holds unless it was
replaced (`CatalogsTaken`); the plan is what `_build_plan` decides from them (`PlanMade`); each table of a terminal is its
file, as it was when it was read, under that plan (`TablesAligned`); tables that are collected have the first one's Arrow
schema, and frames that were put together no mixed datetimes (`SchemasAgree`); and `AcceptedIsRead` itself. `AlignedIs` says
what one file yields: for each name of the plan one cell, which is the file's own or a fill that the plan
allows for. `FilledIffAbsent` follows at once, whatever was replaced. For `NoPromotion` two cells of one column are
compared, each read or filled: its kind is one in all catalogs (`KindKnown`), a factor that is not decoded has
the same levels in all (`LevelsKnown`), what is filled is of the type that is read (`FillTypes`, `PandasTypes`,
`ArrowTypes`), and what is left, zones, is what `SchemasAgree` excludes; for pandas the values count too, so that a type of R has up to two dtypes, and those are the pairs of
`Promoted` or, for instants and days, mixed units, which no result of frames has. `AcceptedIsRead` goes the other way: a
file that stayed is read as its catalog shows (`FullReadPlain`, `NamesFound`), so that a file can only fail for a reason
named (`FileExcused`), and two schemas that differ do so in a column that hides its type, in the unit of its datetimes, or behind a blank
name (`SchemaExcused`, `DatetimesExcused`); that blank names belong there was found by the proof (item 15 of section 5).
Where `Decoded` leaves out what some file lacks, or `Unfillable` never holds, the proof fails at the step that uses it.

**Only model-checked.** Liveness (`Terminates`): a proof would need `ENABLED`, which is out of the
prover's reach. `TimesClose`: a bound on five roundings in a row, the second of a fraction. Every other safety invariant, action property and
refinement that a passing run checks is stated by a theorem.

## 7. Not modelled, and why

* `inspect_rds`, `materialize_uncompressed`, `read_rdata`: sequential wrappers of the
  reader and the catalog; `materialize_uncompressed` publishes its temporary file as `write_rds` does.
* Values with no state of their own: POSIXlt, list columns (but see `Differences`), matrices, the Python values
  of `read_r_object`.
* Header decoding (byte order, container formats) and the guard that turns a decompressor's
  errors into `InvalidRDS`; compressors, DuckDB, pandas, PyArrow are external.
* What `validate_rds` reports of columns; what the structural scan makes of retained attributes.
* Progress callbacks, messages, command-line parsing: no effect on the state.
* Of `_cython_core.c`, Cython's generated runtime support (argument parsing, tracebacks, the memoryview
  type), which is all of the file but the two functions of the program.
* The attributes of pairlist cells, which both passes ignore alike; files rewritten within the clock's
  resolution, or with their mtime restored (both listed as hazards with the reason).
* A `KeyboardInterrupt` while a sidecar is saved: `except Exception` (`api.py` 207) lets it pass, and the temporary file stays
  as it does when the process dies.

## 8. What would come next

1. `Collection` with `CatalogCache` inside: the sidecars of many files under one plan.
2. `read_rdata` as a sequence of objects over `SerializedWalk`, and the column issues of `validate_rds`.
3. POSIXlt, complex and list columns in `RColumns`, and a proof of `TimesClose`.
