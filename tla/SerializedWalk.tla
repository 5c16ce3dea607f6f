--------------------------- MODULE SerializedWalk ---------------------------
(***************************************************************************)
(* Two passes over one R serialization stream.                             *)
(*                                                                         *)
(* rdsframe reads an RDS object with Reader.read_item and discovers tables *)
(* and skips unselected columns with Reader.skip_item and the scans of     *)
(* _scan.py.  A stream names an object it has already written by its index *)
(* in the reference table, which every pass rebuilds while it walks, so a  *)
(* structural pass is right only if it consumes the stream item by item as *)
(* the full read does and registers the same references at the same places.*)
(*                                                                         *)
(* The module walks one stream with both: "full" is read_rds (read_item on *)
(* the root), "part" is one of the programs that avoid reading everything: *)
(*    skip     validate_rds: skip_item on the root                         *)
(*    project  read_rds(columns=...): read some columns, skip the others   *)
(*    catalog  list_rds_tables: scan_vector_from_header on every child     *)
(* Each pass is a pushdown machine.  A frame of its stack is a call in     *)
(* progress, reduced to what it will do with the next header.              *)
(*                                                                         *)
(* A token is one flags word with the payload that belongs to it: the      *)
(* element bytes of an atomic vector or the names of a namespace are       *)
(* inside their token, the children of a list are tokens of their own.     *)
(***************************************************************************)
EXTENDS Integers, Sequences

CONSTANTS
  Tokens,    \* the headers the stream may hold
  Programs,  \* the structural passes considered
  MaxDepth,  \* ReaderLimits.max_depth
  MaxRefs,   \* ReaderLimits.max_references
  MaxTokens  \* bound: the longest stream considered

(***************************************************************************)
(* Kinds of header, grouped as the readers' dispatch groups them: "leaf"   *)
(* are the atomic vectors and CHARSXP, "special" the singletons that carry *)
(* nothing, "ns" namespaces and packages, "other" the headers every pass    *)
(* refuses: types that are not supported, and the values both passes refuse *)
(* alike (an invalid length, a RAWSXP over its allocation, a CHARSXP over   *)
(* max_string_bytes).                                                       *)
(***************************************************************************)
Kinds == {"nil", "ref", "sym", "list", "leaf", "vec", "altrep", "extptr",
          "env", "s4", "special", "ns", "other"}

\* Kinds after which R writes the attributes the has_attr bit announces.
Attributed == {"leaf", "vec", "extptr", "s4"}

(***************************************************************************)
(* n is the length of a list or the index of a reference; fits is FALSE if *)
(* only the decoder refuses the value: its allocation exceeds the limits,  *)
(* one of its strings is a reference (leaf, vec), or its ALTREP class is   *)
(* not one of those known.                                                 *)
(***************************************************************************)
Token == [t : Kinds, attr : BOOLEAN, tag : BOOLEAN, n : Nat, fits : BOOLEAN]

\* R sets has_attr only where it writes attributes behind the payload.  The
\* attributes of a pairlist cell, written in front of it, are out of scope.
ASSUME TokensAssumption ==
  /\ Tokens \subseteq Token
  /\ \A tok \in Tokens : tok.attr => tok.t \in Attributed

ASSUME LimitsAssumption ==
  /\ MaxDepth \in Nat
  /\ MaxRefs \in Nat
  /\ MaxTokens \in Nat
  /\ Programs \subseteq {"skip", "project", "catalog"}

VARIABLES
  full,    \* the full read
  part,    \* the structural pass
  fed,     \* tokens of the stream consumed so far
  program, \* which structural pass "part" is
  written, \* external: the objects R's serializer has numbered, in its order
  regular  \* external: FALSE once the stream holds what R never writes

vars == <<full, part, fed, program, written, regular>>

-----------------------------------------------------------------------------
(***************************************************************************)
(* Calls in progress: k says what is awaited, m how it will be walked, n   *)
(* counts (rest) or identifies (symEnd, altEnd), d is Reader.depth inside  *)
(* the call that waits.                                                    *)
(***************************************************************************)
Frame(k, m, n, d) == [k |-> k, m |-> m, n |-> n, d |-> d]

Item(m, d) == Frame("item", m, 0, d)

\* What a header leads to: calls to make, references to add, or an error.
Go(frames)               == [st |-> "run", push |-> frames, add |-> <<>>]
Register(ref, frames)    == [st |-> "run", push |-> frames, add |-> <<ref>>]
Stop(why)                == [st |-> why, push |-> <<>>, add |-> <<>>]

\* Mutant of Rest: an empty list still waits for an element.
Rest_unguarded(m, n, d) == <<Frame("rest", m, n, d)>>

Rest(m, n, d) == IF n = 0 THEN <<>> ELSE <<Frame("rest", m, n, d)>>

Attributes(m, d, tok) == IF tok.attr THEN <<Frame("attrs", m, 0, d)>> ELSE <<>>

(***************************************************************************)
(* One cell of a pairlist: its tag, its value, then the header of its CDR, *)
(* which the frame "next" awaits for the walk w the list is under:         *)
(* "read" for read_pairlist, "cons" for read_cons_chain, "skip" for        *)
(* skip_pairlist and "sel" for read_selected_attributes, which reads the   *)
(* values it retains (keep, decided by their tags) and skips the others.   *)
(***************************************************************************)
cell(w, tagMode, valueMode, d, tok) ==
  LET value == <<Item(valueMode, d), Frame("next", w, 0, d)>>
  IN IF tok.tag THEN <<Item(tagMode, d)>> \o value ELSE value

read_pairlist(d, tok) == cell("read", "read", "read", d, tok)

read_cons_chain(d, tok) == cell("cons", "read", "read", d, tok)

\* Mutant of skip_pairlist: the tag is not looked for.
skip_pairlist_untagged(d, tok) ==
  cell("skip", "skip", "skip", d, [tok EXCEPT !.tag = FALSE])

skip_pairlist(d, tok) == cell("skip", "skip", "skip", d, tok)

read_selected_attributes(d, tok, keep) ==
  cell("sel", "read", IF tok.tag /\ keep THEN "read" ELSE "skip", d, tok)

pairlist(w, d, tok, keep) ==
  CASE w = "read" -> read_pairlist(d, tok)
    [] w = "cons" -> read_cons_chain(d, tok)
    [] w = "skip" -> skip_pairlist(d, tok)
    [] w = "sel"  -> read_selected_attributes(d, tok, keep)

reference(index, refs) ==
  IF index \in 1 .. Len(refs) THEN Go(<<>>) ELSE Stop("ref")

add_reference(kind, at, refs, frames) ==
  IF Len(refs) >= MaxRefs
  THEN Stop("refs")
  ELSE Register([k |-> kind, at |-> at], frames)

-----------------------------------------------------------------------------
\* The environment is registered before its parts: they may refer to it.
read_environment(d, refs, at) ==
  add_reference("env", at, refs, <<Item("read", d), Item("read", d),
                                   Item("read", d), Item("read", d)>>)

\* Mutant of read_namespace_spec: the namespace is not registered.
read_namespace_spec_unregistered(refs, at) == Go(<<>>)

read_namespace_spec(refs, at) == add_reference("ns", at, refs, <<>>)

\* Class info, state, attributes; then the class decides (altEnd).
read_altrep(d, tok) ==
  Go(<<Frame("altpart", "read", 0, d), Frame("altpart", "read", 0, d),
       Item("read", d), Frame("altEnd", "read", IF tok.fits THEN 1 ELSE 0, d)>>)

extptr(m, d, tok, refs, at) ==
  add_reference("extptr", at, refs,
                <<Item(m, d), Item(m, d)>> \o Attributes(m, d, tok))

\* Reader.read_payload, with the attributes that follow it.
read_payload(d, tok, refs, at) ==
  CASE tok.t = "leaf" /\ tok.fits -> Go(Attributes("read", d, tok))
    [] tok.t = "vec" /\ tok.fits  -> Go(Rest("read", tok.n, d)
                                          \o Attributes("read", d, tok))
    [] tok.t \in {"leaf", "vec"} /\ ~tok.fits -> Stop("alloc")
    [] tok.t = "extptr" -> extptr("read", d, tok, refs, at)
    [] tok.t = "s4"     -> Go(Attributes("read", d, tok))
    [] tok.t = "other"  -> Stop("type")

symbol(d, at) == Go(<<Item("read", d), Frame("symEnd", "read", at, d)>>)

\* Reader._read_item_from_header.
read_item_from_header(d, tok, refs, at) ==
  CASE tok.t \in {"nil", "special"} -> Go(<<>>)
    [] tok.t = "ref"    -> reference(tok.n, refs)
    [] tok.t = "sym"    -> symbol(d, at)
    [] tok.t = "list"   -> Go(read_pairlist(d, tok))
    [] tok.t = "altrep" -> read_altrep(d, tok)
    [] tok.t = "env"    -> read_environment(d, refs, at)
    [] tok.t = "ns"     -> read_namespace_spec(refs, at)
    [] tok.t \in {"leaf", "vec", "extptr", "s4", "other"} ->
         read_payload(d, tok, refs, at)

\* Mutant of skip_extptr: the pointer is skipped without being registered.
skip_extptr_unregistered(d, tok, refs, at) ==
  Go(<<Item("skip", d), Item("skip", d)>> \o Attributes("skip", d, tok))

skip_extptr(d, tok, refs, at) == extptr("skip", d, tok, refs, at)

\* Reader._skip_item_from_header: what registers references is read in full.
skip_item_from_header(d, tok, refs, at) ==
  CASE tok.t = "nil"    -> Go(<<>>)
    [] tok.t = "ref"    -> reference(tok.n, refs)
    [] tok.t = "sym"    -> symbol(d, at)
    [] tok.t = "list"   -> Go(skip_pairlist(d, tok))
    [] tok.t = "leaf"   -> Go(Attributes("skip", d, tok))
    [] tok.t = "vec"    -> Go(Rest("skip", tok.n, d) \o Attributes("skip", d, tok))
    [] tok.t = "altrep" -> Go(<<Item("skip", d), Item("skip", d), Item("skip", d),
                                Frame("altEnd", "skip", 0, d)>>)
    [] tok.t = "extptr" -> skip_extptr(d, tok, refs, at)
    [] tok.t \in {"env", "s4", "ns", "special"} ->
         read_item_from_header(d, tok, refs, at)
    [] tok.t = "other"  -> Stop("type")

\* Mutant of call: skip_item does not check the depth.
call_skip_unchecked(m, d, tok, refs, at) ==
  CASE m = "skip" -> skip_item_from_header(d + 1, tok, refs, at)
    [] m # "skip" /\ d + 1 > MaxDepth -> Stop("depth")
    [] m # "skip" /\ d + 1 <= MaxDepth -> read_item_from_header(d + 1, tok, refs, at)

\* read_item, skip_item and their _from_header twins: the depth check.
call(m, d, tok, refs, at) ==
  CASE d + 1 > MaxDepth -> Stop("depth")
    [] d + 1 <= MaxDepth /\ m = "skip" -> skip_item_from_header(d + 1, tok, refs, at)
    [] d + 1 <= MaxDepth /\ m # "skip" -> read_item_from_header(d + 1, tok, refs, at)

Followed(outcome, frames) ==
  IF outcome.st = "run" THEN [outcome EXCEPT !.push = @ \o frames] ELSE outcome

\* _scan.scan_column_from_header: the payload is skipped, attributes kept.
scan_column_from_header(d, tok, refs, at) ==
  Followed(call("skip", d, [tok EXCEPT !.attr = FALSE], refs, at),
           Attributes("sel", d, tok))

\* _scan.scan_vector_from_header: a list is opened here, outside any depth.
scan_vector_from_header(d, tok, refs, at) ==
  IF tok.t = "vec"
  THEN Go(Rest("scan", tok.n, d) \o Attributes("sel", d, tok))
  ELSE scan_column_from_header(d, tok, refs, at)

\* The walk of one item in mode m.
item(m, d, tok, refs, at) ==
  CASE m \in {"table", "first"} -> scan_vector_from_header(d, tok, refs, at)
    [] m = "scan" -> scan_column_from_header(d, tok, refs, at)
    [] m \in {"read", "skip"} -> call(m, d, tok, refs, at)

\* The root in list_rds_tables and _read_dataframe_selective.
root(m, d, tok) ==
  IF tok.t = "vec" /\ tok.n > 0
  THEN Go(Rest(m, tok.n, d) \o Attributes("read", d, tok))
  ELSE Stop("root")

(***************************************************************************)
(* One element of a list, and how the elements behind it will be walked.   *)
(* choice is what the data decides: which columns are selected (project),  *)
(* whether the first child of the root is a data.frame (catalog).          *)
(***************************************************************************)
element(f, tok, refs, at, choice) ==
  LET here  == IF f.m # "project" THEN f.m
               ELSE IF choice THEN "read" ELSE "skip"
      later == IF f.m # "first" THEN f.m
               ELSE IF choice /\ tok.t = "vec" THEN "table" ELSE "scan"
  IN Followed(item(here, f.d, tok, refs, at), Rest(later, f.n - 1, f.d))

\* Mutant of tail: skip_pairlist accepts no dotted CDR.
tail_strict(f, tok, refs, at) ==
  IF f.m = "cons" THEN call("read", f.d, tok, refs, at) ELSE Stop("dotted")

\* A CDR that is no cell: an error in a strict pairlist, else a last item.
tail(f, tok, refs, at) ==
  CASE f.m \in {"read", "sel"} -> Stop("dotted")
    [] f.m = "cons" -> call("read", f.d, tok, refs, at)
    [] f.m = "skip" -> call("skip", f.d, tok, refs, at)

\* What the innermost call of a pass does with the next header.
expect(f, tok, refs, at, choice) ==
  CASE f.k = "root" -> root(f.m, f.d, tok)
    [] f.k = "item" -> item(f.m, f.d, tok, refs, at)
    [] f.k = "rest" -> element(f, tok, refs, at, choice)
    [] f.k = "altpart" /\ tok.t = "list" -> Go(read_cons_chain(f.d, tok))
    [] f.k = "altpart" /\ tok.t # "list" -> call("read", f.d, tok, refs, at)
    [] f.k \in {"attrs", "next"} /\ tok.t = "nil" -> Go(<<>>)
    [] f.k \in {"attrs", "next"} /\ tok.t = "list" ->
         Go(pairlist(f.m, f.d, tok, choice))
    [] f.k = "attrs" /\ tok.t \notin {"nil", "list"} -> Stop("attrs")
    [] f.k = "next" /\ tok.t \notin {"nil", "list"} -> tail(f, tok, refs, at)

\* What happens when the calls a header led to have all returned.
resume(f, refs) ==
  IF f.k = "symEnd" THEN add_reference("sym", f.n, refs, <<>>)
  ELSE IF f.m = "read" /\ f.n = 0 THEN Stop("altrep")
  ELSE Go(<<>>)

-----------------------------------------------------------------------------
Returns == {"symEnd", "altEnd"}

Running(w)   == w.st = "run" /\ w.stack # <<>>
Returning(w) == Running(w) /\ Head(w.stack).k \in Returns
Done(w)      == w.st = "run" /\ w.stack = <<>>

\* An error unwinds every call, and the Reader is dropped with its table.
Failed(why) == [st |-> why, stack |-> <<>>, refs |-> <<>>]

After(w, outcome) ==
  IF outcome.st = "run"
  THEN [st |-> "run", stack |-> outcome.push \o Tail(w.stack),
        refs |-> w.refs \o outcome.add]
  ELSE Failed(outcome.st)

\* A pass that has ended, or failed, leaves the rest of the stream alone.
Take(w, tok, choice) ==
  IF Running(w)
  THEN After(w, expect(Head(w.stack), tok, w.refs, fed + 1, choice))
  ELSE w

Resume(w) ==
  IF Returning(w) THEN After(w, resume(Head(w.stack), w.refs)) ELSE w

Start(frame) == [st |-> "run", stack |-> <<frame>>, refs |-> <<>>]

Init ==
  /\ program \in Programs
  /\ full = Start(Item("read", 0))
  /\ part = Start(CASE program = "skip"    -> Item("skip", 0)
                    [] program = "project" -> Frame("root", "project", 0, 0)
                    [] program = "catalog" -> Frame("root", "first", 0, 0))
  /\ fed = 0
  /\ written = <<>>
  /\ regular = TRUE

(***************************************************************************)
(* External: R's WriteItem numbers a symbol, environment, external pointer *)
(* or namespace as it writes its header, before anything the object holds, *)
(* and writes a bare CHARSXP as the name of a symbol.                      *)
(***************************************************************************)
Numbered == {"sym", "env", "extptr", "ns"}

AwaitsName(w) == Len(w.stack) > 1 /\ w.stack[1].k = "item" /\ w.stack[2].k = "symEnd"

Write(tok) ==
  /\ written' = IF tok.t \in Numbered
                THEN Append(written, [k |-> tok.t, at |-> fed + 1])
                ELSE written
  /\ regular' = (regular /\ (AwaitsName(full) => tok.t = "leaf" /\ ~tok.attr))

\* The next header of the stream, taken by every pass that is still going.
Feed(tok, choice) ==
  /\ Running(full) \/ Running(part)
  /\ ~Returning(full) /\ ~Returning(part)
  /\ fed < MaxTokens
  /\ full' = Take(full, tok, FALSE)
  /\ part' = Take(part, tok, choice)
  /\ fed' = fed + 1
  /\ Write(tok)
  /\ UNCHANGED program

\* Calls that return without looking at the stream.
Return ==
  /\ Returning(full) \/ Returning(part)
  /\ full' = Resume(full)
  /\ part' = Resume(part)
  /\ UNCHANGED <<fed, program, written, regular>>

\* The stream ends here: a pass that wants more raises InvalidRDS.
Truncated ==
  /\ Running(full) \/ Running(part)
  /\ ~Returning(full) /\ ~Returning(part)
  /\ full' = IF Running(full) THEN Failed("eof") ELSE full
  /\ part' = IF Running(part) THEN Failed("eof") ELSE part
  /\ UNCHANGED <<fed, program, written, regular>>

Next ==
  \/ \E tok \in Tokens, choice \in BOOLEAN : Feed(tok, choice)
  \/ Return
  \/ Truncated

Spec == Init /\ [][Next]_vars

-----------------------------------------------------------------------------
(* Properties. *)

Calls  == {"item", "rest", "attrs", "next", "altpart", "root"}
Modes  == {"read", "cons", "skip", "sel", "scan", "table", "first", "project"}
Errors == {"alloc", "depth", "refs", "ref", "type", "attrs", "dotted",
           "altrep", "root", "eof"}

\* The walks that a call of each kind can be under.
Proper(f) ==
  /\ f.k = "item"    => f.m \in {"read", "skip"}
  /\ f.k = "rest"    => f.n > 0 /\ f.m \in {"read", "skip", "scan", "table",
                                            "first", "project"}
  /\ f.k = "attrs"   => f.m \in {"read", "skip", "sel"}
  /\ f.k = "next"    => f.m \in {"read", "cons", "skip", "sel"}
  /\ f.k = "altpart" => f.m = "read"
  /\ f.k = "root"    => f.m \in {"project", "first"}
  /\ f.k = "altEnd"  => f.m \in {"read", "skip"}

FrameType == {f \in [k : Calls \cup Returns, m : Modes, n : Nat, d : Nat] : Proper(f)}
RefType   == [k : Numbered, at : Nat]
PassType  == [st : {"run"} \cup Errors, stack : Seq(FrameType), refs : Seq(RefType)]

\* The passes keep a stack of calls and a table of references: the state of
\* Reader between two headers.
TypeOK ==
  /\ full \in PassType
  /\ part \in PassType
  /\ fed \in Nat
  /\ program \in Programs
  /\ written \in Seq(RefType)
  /\ regular \in BOOLEAN

BothOk == full.st = "run" /\ part.st = "run"

\* As long as neither pass has failed they have registered the same objects
\* in the same order, so an index means the same object to both: what the
\* comment at _core.py:993 says of skip_item.
SameReferences == BothOk => full.refs = part.refs

(***************************************************************************)
(* Call F of the full read and call P of the structural pass await the     *)
(* same thing.  An ALTREP part is an ordinary item to skip_item, the root  *)
(* an ordinary item to read_item.  A pairlist may end in a dotted pair for *)
(* P wherever it may for F.  deep: P is skip_item's, and P nests at least  *)
(* as deep as F.                                                           *)
(***************************************************************************)
Corresponds(F, P, deep) ==
  /\ \/ F.k = "item" /\ P.k = "item" /\ F.m = "read" /\ P.m \in {"read", "skip"}
     \/ F.k = "item" /\ P.k = "root" /\ F.m = "read" /\ P.m \in {"project", "first"}
     \/ F.k = "altpart" /\ P.k = "altpart" /\ F.m = "read" /\ P.m = "read"
     \/ F.k = "altpart" /\ P.k = "item" /\ F.m = "read" /\ P.m = "skip"
     \/ /\ F.k = "rest" /\ P.k = "rest" /\ F.n = P.n /\ F.n > 0
        /\ F.m = "read" /\ P.m \in {"read", "skip", "scan", "table", "first", "project"}
     \/ F.k = "attrs" /\ P.k = "attrs" /\ F.m = "read" /\ P.m \in {"read", "skip", "sel"}
     \/ F.k = "next" /\ P.k = "next" /\ F.m = "read" /\ P.m \in {"read", "skip", "sel"}
     \/ F.k = "next" /\ P.k = "next" /\ F.m = "cons" /\ P.m \in {"cons", "skip"}
     \/ F.k = "symEnd" /\ P.k = "symEnd" /\ F.n = P.n
     \/ F.k = "altEnd" /\ P.k = "altEnd" /\ F.m = "read" /\ P.m = "read" /\ F.n = P.n
     \/ F.k = "altEnd" /\ P.k = "altEnd" /\ F.m = "read" /\ P.m = "skip"
  /\ deep => F.d <= P.d /\ P.m \in {"read", "skip", "cons"}

Aligned(fs, ps, deep) ==
  /\ Len(fs) = Len(ps)
  /\ \A i \in 1 .. Len(fs) : Corresponds(fs[i], ps[i], deep)

\* The calls in progress of the two passes correspond one to one: the reason
\* why both register the same references and end at the same header.
LockStep == BothOk => Aligned(full.stack, part.stack, program = "skip")

\* Neither pass runs past the end of the object or stops short of it: what
\* follows the object (a next element, trailing bytes) is seen by both.
SameEnd == BothOk => (Done(full) <=> Done(part))

\* Every index R wrote finds the object R meant: the table of the full read
\* is R's own numbering, but for a symbol whose name is still being read.
WriterNumbering ==
  regular /\ full.st = "run" =>
    \/ full.refs = written
    \/ /\ \E i \in DOMAIN full.stack : full.stack[i].k = "symEnd"
       /\ written # <<>>
       /\ full.refs = SubSeq(written, 1, Len(written) - 1)

\* One pass fails alone only for the reasons the code gives it: the decoder's
\* own limits, classes and strict pairlists (full), the tabular root that the
\* program asks for (part), or a depth limit reached at different depths.
DivergenceIsPolicy ==
  /\ part.st = "run" => full.st \in {"run", "alloc", "altrep", "dotted", "depth"}
  /\ full.st = "run" => part.st \in {"run", "root", "depth"}

\* Validation is no more permissive than reading where nesting is concerned:
\* a file that read_item gives up on as too deep is not one that skip_item
\* walks to its end.
DepthIsSound == program = "skip" /\ full.st = "depth" => part.st # "run"

\* AUDITORIA_TECNICA.md:458 has the depth limit symmetric between reading and
\* skip_item: where the limit stops the one, it stops the other.  skip_item
\* walks the parts of an ALTREP object one call deeper than read_altrep.
DepthSymmetric == program = "skip" /\ part.st = "depth" => full.st # "run"

\* _audit.py:79 gives a report's ok as "rdsframe can read the file": what
\* skip_item walked to the end, read_item did not refuse.
OkMeansReadable == program = "skip" /\ Done(part) => full.st = "run"
=============================================================================
