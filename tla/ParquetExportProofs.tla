------------------------- MODULE ParquetExportProofs -------------------------
(***************************************************************************)
(* For any roots, requests and limits, and any number of calls with either *)
(* engine: a conversion that ends leaves nothing temporary, and a file is  *)
(* converted by one engine and refused by the other for two reasons only.  *)
(*                                                                         *)
(* For the second, each engine's verdict is stated as a condition on the   *)
(* root and the request.  DuckDB finds it out item by item, with the class *)
(* of each thing behind it, so the invariant says what the items consumed  *)
(* so far have shown; PyArrow decides at once.                             *)
(*                                                                         *)
(* A second invariant says what has been staged, completed and put in      *)
(* place: the batches hold the columns taken, once, in order and within    *)
(* their bounds; what is complete are the first of the tables asked for,   *)
(* whole; what is in place are the first of those, each in a file of its   *)
(* own, since every name is new among those given before.  From it follow  *)
(* that the engines write the same tables and that a call does what        *)
(* Publication promises.                                                   *)
(***************************************************************************)
EXTENDS ParquetExport, FiniteSetTheorems, FunctionTheorems, TLAPS

-----------------------------------------------------------------------------
(* The verdicts. *)

\* Table t does not make DuckDB refuse.
Good(t) ==
  /\ root.children[t + 1].is = "frame"
  /\ Selected(t) => /\ Arrow(root.children[t + 1].items)
                    /\ root.children[t + 1].items # <<>>

ListAccepted ==
  /\ InRange /\ ~Exceeds(Count, request.max_tables) /\ ~root.class
  /\ \A t \in 0 .. Count - 1 : Good(t)

SingleAccepted == OnlyTheFirst /\ root.class /\ Arrow(root.children)

DuckAccepts ==
  /\ Count # 0 /\ ~Exceeds(Count, request.max_root_items)
  /\ IF root.children[1].is = "frame" THEN ListAccepted ELSE SingleAccepted

ArrowAccepts ==
  /\ Convertible
  /\ ~Exceeds(Count, request.max_root_items)
  /\ root.class \/ ~Exceeds(Count, request.max_tables)
  /\ IF root.class THEN OnlyTheFirst ELSE InRange

-----------------------------------------------------------------------------
(* The invariant: of the file and the request, and of each call. *)

World ==
  /\ root \in Roots /\ request \in Requests
  /\ request.named => request.selected # None /\ Listed(root)

Fields ==
  {"pc", "why", "stage", "single", "table", "at", "held", "col", "rows", "batch", "bytes",
   "staged", "temporary", "pending", "todo", "results", "lapses"}

Working == {"start", "made", "first", "table", "columns", "copy", "replace", "write", "rename"}

Accepted(r) == r.pc \in {"rename", "done"} \/ (r.pc = "cleanup" /\ r.why = None)

Refused(r) == r.why \in {"refused", "limit"}

\* What a call that has ended may leave.
Leaves(r) ==
  /\ r.stage => r.lapses \cap {"try", "finally", "rmtree"} # {}
  /\ r.temporary # None => "unlink" \in r.lapses /\ (r.single \/ r.stage)
  /\ r.why \in {None, "refused", "limit"} => r.lapses \subseteq {"finally", "rmtree"}

\* What is temporary, and why a call ends.
CallOK(r) ==
  /\ DOMAIN r = Fields
  /\ r.pc \in Working \cup {"cleanup"} \cup Ended
  /\ r.single \in BOOLEAN /\ r.held \in BOOLEAN
  /\ r.table \in Nat /\ r.at \in Nat /\ r.col \in Nat
  /\ r.pc \in Working \cup {"done"} => r.why = None
  /\ r.pc = "failed" => r.why # None
  /\ r.pc \in {"start", "first"} =>
       ~r.single /\ ~r.held /\ r.table = 0 /\ r.col = 0 /\ r.rows = None
  /\ r.pc = "made" => ~r.held /\ r.table = 0 /\ r.col = 0 /\ r.rows = None
  /\ r.pc = "start" => ~r.stage
  /\ r.pc \in Working => r.lapses = {}
  /\ r.pc \in (Working \ {"start"}) \cup {"cleanup"} => r.stage
  /\ r.pc \in Working \ {"copy", "replace"} => r.temporary = None
  /\ r.pc = "cleanup" => /\ r.lapses \subseteq {"unlink"}
                         /\ r.temporary # None => "unlink" \in r.lapses
                         /\ r.why \in {None, "refused", "limit"} => r.lapses = {}
  /\ r.pc \in {"done", "failed"} => Leaves(r)

InTable == {"columns", "copy", "replace"}

\* What the columns taken so far have shown of the items of the table.
Taken(r, items) ==
  /\ r.col <= Len(items)
  /\ r.col = 0 => r.rows = None
  /\ r.single /\ ~r.held => root.children[1].is = "nil" /\ r.at = r.col + 1
  /\ ~r.single \/ r.held =>
       /\ r.single => r.at = IF r.col = 0 THEN 1 ELSE r.col
       /\ \A i \in 1 .. r.col : Fits(items[i]) /\ items[i].rows = r.rows

\* What has been read of a root that is taken for a list of tables.
AsListSoFar(r) ==
  /\ ~r.single /\ root.children[1].is = "frame"
  /\ InRange /\ ~Exceeds(Count, request.max_tables)
  /\ r.table <= Count
  /\ \A t \in 0 .. r.table - 1 : Good(t)

ItemsFor(r) == IF r.single THEN root.children ELSE root.children[r.table + 1].items

DuckOK(r) ==
  /\ r.pc # "write" /\ (r.pc = "made" => ~r.single)
  /\ r.pc \in {"made", "first", "table"} \cup InTable =>
       Count # 0 /\ ~Exceeds(Count, request.max_root_items)
  /\ r.pc = "table" => AsListSoFar(r)
  /\ r.pc \in InTable /\ ~r.single =>
       AsListSoFar(r) /\ r.table < Count /\ Selected(r.table)
  /\ r.pc \in InTable /\ r.single => root.children[1].is # "frame" /\ OnlyTheFirst
  /\ r.pc = "columns" => Taken(r, ItemsFor(r))
  /\ r.pc \in {"copy", "replace"} => IF r.single THEN SingleAccepted ELSE Good(r.table)
  /\ Accepted(r) => DuckAccepts
  /\ Refused(r) => ~DuckAccepts

ArrowOK(r) ==
  /\ r.pc \in {"start", "made", "write", "rename", "cleanup"} \cup Ended
  /\ r.pc \in {"made", "write"} \/ Accepted(r) => ArrowAccepts
  /\ Refused(r) => ~ArrowAccepts

EngineOK(e, r) ==
  /\ Engine[e] = "duckdb" => DuckOK(r)
  /\ Engine[e] = "pyarrow" => ArrowOK(r)

IInv ==
  /\ World
  /\ DOMAIN run = Exporters
  /\ \A e \in Exporters : CallOK(run[e]) /\ EngineOK(e, run[e])

-----------------------------------------------------------------------------
(* The root, and what is done to a call. *)

LEMMA RootIs ==
  ASSUME World
  PROVE  /\ root.children \in Seq(Child) /\ Count \in Nat /\ Count = Len(root.children)
         /\ \A i \in 1 .. Count : /\ root.children[i].rows \in Nat
                                  /\ root.children[i].items \in Seq(Item)
                                  /\ Len(root.children[i].items) \in Nat
                                  /\ \A j \in 1 .. Len(root.children[i].items) :
                                       root.children[i].items[j].rows \in Nat
<1>1. root \in Root
  BY ExportAssumption DEF World
<1>2. root.children \in Seq(Child)
  BY <1>1 DEF Root
<1>3. ASSUME NEW i \in 1 .. Count
      PROVE  /\ root.children[i].rows \in Nat
             /\ root.children[i].items \in Seq(Item)
  <2>1. root.children[i] \in Child
    BY <1>2 DEF Count
  <2> QED BY <2>1 DEF Child
<1>4. ASSUME NEW s \in Seq(Item), NEW j \in 1 .. Len(s) PROVE s[j].rows \in Nat
  <2>1. s[j] \in Item
    OBVIOUS
  <2> QED BY <2>1 DEF Item
<1> QED BY <1>2, <1>3, <1>4 DEF Count

\* A call that the file and the request allow is allowed after a step that
\* changes neither.
LEMMA CallsKeep ==
  ASSUME World, UNCHANGED <<root, request>>, DOMAIN run' = Exporters,
         \A f \in Exporters : EngineOK(f, run'[f]) /\ CallOK(run'[f])
  PROVE  IInv'
<1>1. World'
  BY DEF World, Listed
<1>2. \A t : Selected(t)' = Selected(t)
  BY DEF Selected
<1>3. \A t : Good(t)' = Good(t)
  BY <1>2 DEF Good
<1>4. Count' = Count /\ InRange' = InRange /\ OnlyTheFirst' = OnlyTheFirst
  BY DEF Count, InRange, OnlyTheFirst
<1>5. DuckAccepts' = DuckAccepts
  BY <1>3, <1>4 DEF DuckAccepts, ListAccepted, SingleAccepted
<1>6. ArrowAccepts' = ArrowAccepts
  BY <1>4 DEF ArrowAccepts, Convertible
<1>7. ASSUME NEW f \in Exporters PROVE (CallOK(run[f]) /\ EngineOK(f, run[f]))'
  <2> DEFINE s == run'[f]
  <2>1. EngineOK(f, s) /\ CallOK(s)
    OBVIOUS
  <2> HIDE DEF s
  <2>2. CallOK(run[f])'
    BY <2>1 DEF s, CallOK
  <2>3. ASSUME DuckOK(s) PROVE DuckOK(run[f])'
    <3>1. AsListSoFar(s) = AsListSoFar(run[f])'
      BY <1>3, <1>4 DEF AsListSoFar, s
    <3>2. Taken(s, ItemsFor(s)) = Taken(run[f], ItemsFor(run[f]))'
      BY DEF Taken, ItemsFor, s
    <3>3. SingleAccepted' = SingleAccepted
      BY <1>4 DEF SingleAccepted
    <3> QED BY <1>2, <1>3, <1>4, <1>5, <2>3, <3>1, <3>2, <3>3 DEF DuckOK, s, Accepted, Refused
  <2>4. ASSUME ArrowOK(s) PROVE ArrowOK(run[f])'
    BY <1>6, <2>4 DEF ArrowOK, s, Accepted, Refused
  <2> QED BY <2>1, <2>2, <2>3, <2>4 DEF EngineOK
<1> QED BY <1>1, <1>7 DEF IInv

\* The call of e becomes r; the others stay as they are.
LEMMA DoKeeps ==
  ASSUME IInv, NEW e \in Exporters, NEW r, Do(e, r), UNCHANGED <<root, request>>,
         CallOK(r), EngineOK(e, r)
  PROVE  IInv'
<1>1. DOMAIN run' = Exporters /\ run'[e] = r /\ \A f \in Exporters : f # e => run'[f] = run[f]
  BY DEF IInv, Do
<1>2. \A f \in Exporters : EngineOK(f, run'[f]) /\ CallOK(run'[f])
  BY <1>1 DEF IInv
<1> QED BY <1>1, <1>2, CallsKeep DEF IInv

\* An exception: it is a refusal only if the engine does refuse, and what it
\* keeps from being removed is accounted for.
LEMMA StopKeeps ==
  ASSUME IInv, NEW e \in Exporters, NEW why \in {"refused", "limit", "fault", "interrupt"},
         NEW r, Do(e, r), UNCHANGED <<root, request>>, run[e].pc \in Working \cup {"cleanup"},
         why \in {"refused", "limit"} =>
           /\ run[e].pc \in Working \ {"made"}
           /\ Engine[e] = "duckdb" => ~DuckAccepts
           /\ Engine[e] = "pyarrow" => ~ArrowAccepts,
         DOMAIN r = Fields, r.pc = Out(run[e].pc), r.why = Reason(run[e].why, why),
         r.stage = run[e].stage, r.single = run[e].single, r.held = run[e].held,
         r.table = run[e].table, r.at = run[e].at, r.col = run[e].col,
         NEW unlink \in {{}, {"unlink"}},
         r.lapses = run[e].lapses \cup Lapse(run[e].pc) \cup unlink,
         unlink # {} => run[e].pc \in Working \ {"made"} /\ why \notin {"refused", "limit"},
         r.temporary \in {None, run[e].temporary},
         run[e].pc \in {"copy", "replace"} /\ r.temporary # None => unlink = {"unlink"}
  PROVE  IInv'
<1>1. CallOK(run[e]) /\ EngineOK(e, run[e])
  BY DEF IInv
<1>2. why # None
  BY ExportAssumption
<1>3. r.why # None /\ r.why \in {run[e].why, why} /\ (run[e].pc \in Working => r.why = why)
  BY <1>1, <1>2 DEF Reason, CallOK
<1>4. CallOK(r)
  <2>1. CASE run[e].pc = "start"
    <3>1. /\ r.pc = "failed" /\ ~r.stage /\ r.temporary = None /\ run[e].lapses = {}
          /\ r.lapses = unlink
      BY <1>1, <2>1 DEF Out, Lapse, CallOK, Working
    <3>2. Leaves(r)
      BY <1>3, <2>1, <3>1 DEF Leaves, Working
    <3> QED BY <1>1, <1>3, <3>1, <3>2 DEF CallOK, Working, Ended
  <2>2. CASE run[e].pc = "made"
    <3>1. r.pc = "failed" /\ r.temporary = None /\ r.lapses = {"try"} /\ r.why = why
      BY <1>1, <1>3, <2>2 DEF Out, Lapse, CallOK, Working
    <3>2. Leaves(r)
      BY <1>2, <2>2, <3>1 DEF Leaves
    <3> QED BY <1>1, <1>3, <3>1, <3>2 DEF CallOK, Working, Ended
  <2>3. CASE run[e].pc = "cleanup"
    <3>1. /\ r.pc = "failed" /\ r.lapses = run[e].lapses \cup {"finally"} /\ run[e].stage
          /\ unlink = {}
      BY <1>1, <2>3 DEF Out, Lapse, CallOK, Working
    <3>2. r.temporary # None => "unlink" \in r.lapses
      BY <1>1, <2>3, <3>1 DEF CallOK
    <3>3. r.why \in {None, "refused", "limit"} => run[e].lapses = {}
      BY <1>1, <1>3, <2>3 DEF CallOK, Working
    <3>4. Leaves(r)
      BY <3>1, <3>2, <3>3 DEF Leaves
    <3> QED BY <1>1, <1>3, <3>1, <3>4 DEF CallOK, Working, Ended
  <2>4. CASE run[e].pc \in Working \ {"start", "made"}
    <3>1. r.pc = "cleanup" /\ r.lapses = unlink /\ run[e].stage /\ r.why = why
      BY <1>1, <1>3, <2>4 DEF Out, Lapse, CallOK, Working
    <3>2. r.temporary # None => "unlink" \in r.lapses
      BY <1>1, <2>4, <3>1 DEF CallOK
    <3> QED BY <1>1, <1>2, <1>3, <3>1, <3>2 DEF CallOK, Working, Ended
  <2> QED BY <2>1, <2>2, <2>3, <2>4
<1>5. EngineOK(e, r)
  <2>1. Refused(r) => Refused(run[e]) \/ why \in {"refused", "limit"}
    BY <1>3 DEF Refused
  <2>2. r.pc \in {"failed", "cleanup"} /\ ~Accepted(r)
    BY <1>3 DEF Out, Accepted
  <2> QED BY <1>1, <2>1, <2>2 DEF EngineOK, DuckOK, ArrowOK, InTable, Ended
<1> QED BY <1>4, <1>5, DoKeeps

LEMMA RaiseKeeps ==
  ASSUME IInv, NEW e \in Exporters, NEW why \in {"refused", "limit", "fault"}, Raise(e, why),
         run[e].pc \in Working \cup {"cleanup"}, UNCHANGED <<root, request>>,
         why # "fault" => /\ run[e].pc \in Working \ {"made"}
                          /\ Engine[e] = "duckdb" => ~DuckAccepts
                          /\ Engine[e] = "pyarrow" => ~ArrowAccepts
  PROVE  IInv'
<1> DEFINE lapse == Lapse(run[e].pc)
           then  == Out(run[e].pc)
           cause == Reason(run[e].why, why)
           r == [run[e] EXCEPT !.pc = then, !.why = cause, !.lapses = @ \cup lapse,
                               !.temporary = IF run[e].pc = "cleanup" THEN @ ELSE None]
<1> HIDE DEF lapse, then, cause
<1>1. CallOK(run[e])
  BY DEF IInv
<1>2. /\ DOMAIN r = Fields /\ r.pc = then /\ r.why = cause
      /\ r.lapses = run[e].lapses \cup lapse
      /\ r.temporary = (IF run[e].pc = "cleanup" THEN run[e].temporary ELSE None)
      /\ r.single = run[e].single /\ r.held = run[e].held /\ r.table = run[e].table
      /\ r.at = run[e].at /\ r.col = run[e].col /\ r.stage = run[e].stage
  BY <1>1 DEF CallOK, Fields
<1>3. Do(e, r)
  BY DEF Raise, lapse, then, cause
<1> HIDE DEF r
<1>4. r.lapses = run[e].lapses \cup Lapse(run[e].pc) \cup {}
  BY <1>2 DEF lapse
<1> QED BY <1>2, <1>3, <1>4, StopKeeps DEF then, cause

\* An exception that leaves the temporary file of _merge_columns.
LEMMA EscapeKeeps ==
  ASSUME IInv, NEW e \in Exporters, NEW why \in {"fault", "interrupt"}, Escape(e, why),
         run[e].pc \in Working \cup {"cleanup"}, UNCHANGED <<root, request>>
  PROVE  IInv'
<1> DEFINE lapse  == Lapse(run[e].pc)
           unlink == IF run[e].pc \in {"copy", "replace"} THEN {"unlink"} ELSE {}
           then   == Out(run[e].pc)
           cause  == Reason(run[e].why, why)
           r      == [run[e] EXCEPT !.pc = then, !.why = cause, !.lapses = @ \cup lapse \cup unlink]
<1> HIDE DEF lapse, unlink, then, cause
<1>1. CallOK(run[e])
  BY DEF IInv
<1>2. /\ DOMAIN r = Fields /\ r.pc = then /\ r.why = cause
      /\ r.lapses = run[e].lapses \cup lapse \cup unlink /\ r.temporary = run[e].temporary
      /\ r.single = run[e].single /\ r.held = run[e].held /\ r.table = run[e].table
      /\ r.at = run[e].at /\ r.col = run[e].col /\ r.stage = run[e].stage
  BY <1>1 DEF CallOK, Fields
<1>3. Do(e, r)
  BY DEF Escape, lapse, unlink, then, cause
<1> HIDE DEF r
<1>4. /\ unlink \in {{}, {"unlink"}}
      /\ unlink # {} => run[e].pc \in Working \ {"made"}
      /\ run[e].pc \in {"copy", "replace"} => unlink = {"unlink"}
  BY DEF unlink, Working
<1>5. r.lapses = run[e].lapses \cup Lapse(run[e].pc) \cup unlink
  BY <1>2 DEF lapse
<1> QED BY <1>2, <1>3, <1>4, <1>5, StopKeeps DEF then, cause

-----------------------------------------------------------------------------
(* DuckDB's engine. *)

\* What holds of the call of an action of the engine.
LEMMA DuckIs ==
  ASSUME IInv, NEW e \in Exporters, NEW pc \in Working, At(e, "duckdb", pc)
  PROVE  /\ run[e].pc = pc /\ pc # "write" /\ Engine[e] = "duckdb" /\ run[e].why = None
         /\ CallOK(run[e]) /\ DuckOK(run[e]) /\ World
BY DEF IInv, At, CallOK, EngineOK, DuckOK

LEMMA ChecksKeeps ==
  ASSUME IInv, NEW e \in Exporters, Checks(e)
  PROVE  IInv'
<1>1. /\ run[e].pc = "start" /\ Engine[e] = "duckdb" /\ run[e].why = None
      /\ CallOK(run[e]) /\ DuckOK(run[e]) /\ World
  BY DuckIs DEF Checks, Working
<1>2. UNCHANGED <<root, request>>
  BY DEF Checks, Still
<1>3. CASE Count = 0
  <2>1. Raise(e, "refused") /\ ~DuckAccepts
    BY <1>3 DEF Checks, DuckAccepts
  <2> QED BY <1>1, <1>2, <2>1, RaiseKeeps DEF Working
<1>4. CASE Count # 0 /\ Exceeds(Count, request.max_root_items)
  <2>1. Raise(e, "limit") /\ ~DuckAccepts
    BY <1>4 DEF Checks, DuckAccepts
  <2> QED BY <1>1, <1>2, <2>1, RaiseKeeps DEF Working
<1>5. CASE Count # 0 /\ ~Exceeds(Count, request.max_root_items)
  <2> DEFINE r == [run[e] EXCEPT !.pc = "made", !.stage = TRUE]
  <2>1. Do(e, r)
    BY <1>5 DEF Checks
  <2>2. /\ DOMAIN r = Fields /\ r.pc = "made" /\ r.why = run[e].why /\ r.stage = TRUE
        /\ r.lapses = run[e].lapses
        /\ r.single = run[e].single /\ r.held = run[e].held /\ r.table = run[e].table
        /\ r.at = run[e].at /\ r.col = run[e].col /\ r.rows = run[e].rows
        /\ r.temporary = run[e].temporary
    BY <1>1 DEF CallOK, Fields
  <2> HIDE DEF r
  <2>3. CallOK(r)
    BY <1>1, <2>2 DEF CallOK, Working, Ended
  <2>4. EngineOK(e, r)
    <3>1. None \notin {"refused", "limit"}
      BY ExportAssumption
    <3>2. ~run[e].single
      BY <1>1 DEF CallOK
    <3> QED BY <1>1, <1>5, <2>2, <3>1, <3>2 DEF EngineOK, DuckOK, Accepted, Refused, InTable
  <2> QED BY <1>2, <2>1, <2>3, <2>4, DoKeeps
<1> QED BY <1>3, <1>4, <1>5

LEMMA FirstKeeps ==
  ASSUME IInv, NEW e \in Exporters, First(e)
  PROVE  IInv'
<1>1. /\ run[e].pc = "first" /\ Engine[e] = "duckdb" /\ run[e].why = None
      /\ CallOK(run[e]) /\ DuckOK(run[e]) /\ World
  BY DuckIs DEF First, Working
<1>2. UNCHANGED <<root, request>>
  BY DEF First, Still
<1>3. /\ ~run[e].single /\ ~run[e].held /\ run[e].table = 0 /\ run[e].col = 0 /\ run[e].rows = None
      /\ Count # 0 /\ ~Exceeds(Count, request.max_root_items)
      /\ run[e].temporary = None
  BY <1>1 DEF CallOK, DuckOK, Working
<1>4. None \notin {"refused", "limit"}
  BY ExportAssumption
<1>5. CASE root.children[1].is = "frame"
  <2>1. AsList(e)
    BY <1>5 DEF First
  <2>2. CASE ~InRange
    <3>1. Raise(e, "refused") /\ ~DuckAccepts
      BY <1>5, <2>1, <2>2 DEF AsList, DuckAccepts, ListAccepted
    <3> QED BY <1>1, <1>2, <3>1, RaiseKeeps DEF Working
  <2>3. CASE InRange /\ Exceeds(Count, request.max_tables)
    <3>1. Raise(e, "limit") /\ ~DuckAccepts
      BY <1>5, <2>1, <2>3 DEF AsList, DuckAccepts, ListAccepted
    <3> QED BY <1>1, <1>2, <3>1, RaiseKeeps DEF Working
  <2>4. CASE InRange /\ ~Exceeds(Count, request.max_tables)
    <3> DEFINE r == [run[e] EXCEPT !.pc = "table", !.at = 1]
    <3>1. Do(e, r)
      BY <2>1, <2>4 DEF AsList
    <3>2. /\ r.stage = run[e].stage /\ r.lapses = run[e].lapses
          /\ DOMAIN r = Fields /\ r.pc = "table" /\ r.why = run[e].why /\ r.at = 1
          /\ r.single = run[e].single /\ r.held = run[e].held /\ r.table = 0
          /\ r.col = run[e].col /\ r.temporary = run[e].temporary
      BY <1>1, <1>3 DEF CallOK, Fields
    <3> HIDE DEF r
    <3>3. CallOK(r)
      BY <1>1, <1>3, <3>2 DEF CallOK, Working, Ended
    <3>4. AsListSoFar(r)
      BY <1>1, <1>3, <1>5, <2>4, <3>2, RootIs DEF AsListSoFar
    <3>5. EngineOK(e, r)
      BY <1>1, <1>3, <1>4, <3>2, <3>4 DEF EngineOK, DuckOK, Accepted, Refused, InTable
    <3> QED BY <1>2, <3>1, <3>3, <3>5, DoKeeps
  <2> QED BY <2>2, <2>3, <2>4
<1>6. CASE root.children[1].is # "frame" /\ ~OnlyTheFirst
  <2>1. Raise(e, "refused") /\ ~DuckAccepts
    BY <1>6 DEF First, DuckAccepts, SingleAccepted
  <2> QED BY <1>1, <1>2, <2>1, RaiseKeeps DEF Working
<1>7. CASE root.children[1].is # "frame" /\ OnlyTheFirst
  <2> DEFINE r == [run[e] EXCEPT !.pc = "columns", !.single = TRUE, !.at = 1,
                                 !.held = root.children[1].is # "nil"]
  <2>1. Do(e, r)
    BY <1>7 DEF First
  <2>2. /\ r.stage = run[e].stage /\ r.lapses = run[e].lapses
        /\ DOMAIN r = Fields /\ r.pc = "columns" /\ r.why = run[e].why /\ r.at = 1
        /\ r.single = TRUE /\ r.held = (root.children[1].is # "nil") /\ r.table = 0
        /\ r.col = 0 /\ r.rows = None /\ r.temporary = None
    BY <1>1, <1>3 DEF CallOK, Fields
  <2>6. r.single \in BOOLEAN /\ r.held \in BOOLEAN
    BY <2>2, Zenon
  <2>7. ~r.held => root.children[1].is = "nil"
    BY <2>2, Zenon
  <2> HIDE DEF r
  <2>8. /\ r.stage = run[e].stage /\ r.lapses = run[e].lapses
        /\ DOMAIN r = Fields /\ r.pc = "columns" /\ r.why = None /\ r.at \in Nat
        /\ r.table \in Nat /\ r.col \in Nat /\ r.temporary = None
    BY <1>1, <2>2
  <2>9. run[e].stage /\ run[e].lapses = {}
    BY <1>1 DEF CallOK, Working
  <2>3. CallOK(r)
    BY <2>6, <2>8, <2>9 DEF CallOK, Working, Ended
  <2>4. Taken(r, ItemsFor(r))
    <3>1. ItemsFor(r) = root.children
      BY <2>2 DEF ItemsFor
    <3>2. r.single /\ ~r.held => root.children[1].is = "nil" /\ r.at = r.col + 1
      BY <2>2, <2>7
    <3>3. 0 <= Len(root.children) /\ r.col <= Len(root.children)
      BY <1>1, <2>2, RootIs
    <3>4. r.single => r.at = IF r.col = 0 THEN 1 ELSE r.col
      BY <2>2
    <3>5. \A i \in 1 .. r.col : FALSE
      BY <2>2
    <3> QED BY <2>2, <3>1, <3>2, <3>3, <3>4, <3>5 DEF Taken
  <2>5. EngineOK(e, r)
    BY <1>1, <1>3, <1>4, <1>7, <2>2, <2>4 DEF EngineOK, DuckOK, Accepted, Refused, InTable
  <2> QED BY <1>2, <2>1, <2>3, <2>5, DoKeeps
<1> QED BY <1>5, <1>6, <1>7

LEMMA TableInTurnKeeps ==
  ASSUME IInv, NEW e \in Exporters, TableInTurn(e)
  PROVE  IInv'
<1> DEFINE t == run[e].table
           kind == root.children[t + 1].is
<1>1. /\ run[e].pc = "table" /\ Engine[e] = "duckdb" /\ run[e].why = None
      /\ CallOK(run[e]) /\ DuckOK(run[e]) /\ World
  BY DuckIs DEF TableInTurn, Working
<1>2. UNCHANGED <<root, request>>
  BY DEF TableInTurn, Still
<1>3. /\ AsListSoFar(run[e]) /\ Count # 0 /\ ~Exceeds(Count, request.max_root_items)
      /\ run[e].temporary = None /\ t \in Nat /\ t < Count /\ Count \in Nat /\ ~run[e].single
  BY <1>1, RootIs DEF CallOK, DuckOK, Working, TableInTurn, AsListSoFar
<1>4. None \notin {"refused", "limit"}
  BY ExportAssumption
<1>5. /\ root.children[1].is = "frame" /\ InRange /\ ~Exceeds(Count, request.max_tables)
      /\ \A u \in 0 .. t - 1 : Good(u)
  BY <1>3 DEF AsListSoFar
<1>6. CASE kind \notin {"frame", "list"} \/ (~Selected(t) /\ kind # "frame")
  <2>1. Raise(e, "refused")
    BY <1>6 DEF TableInTurn
  <2>2. ~Good(t) /\ t \in 0 .. Count - 1
    BY <1>3, <1>6 DEF Good
  <2>3. ~DuckAccepts
    BY <1>5, <2>2 DEF DuckAccepts, ListAccepted
  <2> QED BY <1>1, <1>2, <2>1, <2>3, RaiseKeeps DEF Working
<1>7. CASE ~(kind \notin {"frame", "list"} \/ (~Selected(t) /\ kind # "frame"))
  <2> DEFINE r == [run[e] EXCEPT !.at = t + 1,
                     !.table = IF Selected(t) THEN @ ELSE t + 1,
                     !.pc = IF Selected(t) THEN "columns" ELSE "table",
                     !.col = 0, !.rows = None, !.batch = <<>>, !.bytes = 0, !.staged = <<>>]
  <2>1. Do(e, r)
    BY <1>7 DEF TableInTurn
  <2>7. DOMAIN r = Fields /\ r.table = (IF Selected(t) THEN t ELSE t + 1)
    BY <1>1 DEF CallOK, Fields
  <2>8. /\ r.pc = (IF Selected(t) THEN "columns" ELSE "table")
        /\ r.why = run[e].why /\ r.at = t + 1 /\ r.single = run[e].single /\ r.held = run[e].held
        /\ r.col = 0 /\ r.rows = None /\ r.temporary = run[e].temporary
    BY <1>1 DEF CallOK, Fields
  <2>2. /\ DOMAIN r = Fields /\ r.pc = (IF Selected(t) THEN "columns" ELSE "table")
        /\ r.why = run[e].why /\ r.at = t + 1 /\ r.single = run[e].single /\ r.held = run[e].held
        /\ r.table = (IF Selected(t) THEN t ELSE t + 1)
        /\ r.col = 0 /\ r.rows = None /\ r.temporary = run[e].temporary
    BY <2>7, <2>8
  <2>6. r.stage = run[e].stage /\ r.lapses = run[e].lapses
    BY <1>1 DEF CallOK, Fields
  <2> HIDE DEF r
  <2>3. CallOK(r)
    BY <1>1, <1>3, <2>2, <2>6 DEF CallOK, Working, Ended
  <2>4. CASE Selected(t)
    <3>1. AsListSoFar(r)
      BY <1>3, <2>2, <2>4 DEF AsListSoFar
    <3>2. Taken(r, ItemsFor(r))
      <4>1. ItemsFor(r) = root.children[t + 1].items
        BY <1>3, <2>2, <2>4 DEF ItemsFor
      <4>2. t + 1 \in 1 .. Count
        BY <1>3
      <4>3. r.col <= Len(root.children[t + 1].items)
        BY <1>1, <2>2, <4>2, RootIs
      <4>4. \A i \in 1 .. r.col : FALSE
        BY <2>2
      <4> QED BY <1>3, <2>2, <4>1, <4>3, <4>4 DEF Taken
    <3>3. EngineOK(e, r)
      BY <1>1, <1>3, <1>4, <2>2, <2>4, <3>1, <3>2 DEF EngineOK, DuckOK, Accepted, Refused, InTable
    <3> QED BY <1>2, <2>1, <2>3, <3>3, DoKeeps
  <2>5. CASE ~Selected(t)
    <3>1. Good(t)
      BY <1>7, <2>5 DEF Good
    <3>2. \A u \in 0 .. t : Good(u)
      BY <1>3, <1>5, <3>1
    <3>3. AsListSoFar(r)
      BY <1>3, <1>5, <2>2, <2>5, <3>2 DEF AsListSoFar
    <3>4. EngineOK(e, r)
      BY <1>1, <1>3, <1>4, <2>2, <2>5, <3>3 DEF EngineOK, DuckOK, Accepted, Refused, InTable
    <3> QED BY <1>2, <2>1, <2>3, <3>4, DoKeeps
  <2> QED BY <2>4, <2>5
<1> QED BY <1>6, <1>7

LEMMA RootAttributesKeeps ==
  ASSUME IInv, NEW e \in Exporters, RootAttributes(e)
  PROVE  IInv'
<1>1. /\ run[e].pc = "table" /\ Engine[e] = "duckdb" /\ run[e].why = None
      /\ CallOK(run[e]) /\ DuckOK(run[e]) /\ World /\ run[e].table = Count
  BY DuckIs DEF RootAttributes, Working
<1>2. UNCHANGED <<root, request>>
  BY DEF RootAttributes, Still
<1>3. /\ AsListSoFar(run[e]) /\ Count # 0 /\ ~Exceeds(Count, request.max_root_items)
      /\ run[e].temporary = None
  BY <1>1 DEF CallOK, DuckOK, Working
<1>4. CASE root.class
  <2>1. Raise(e, "refused") /\ ~DuckAccepts
    BY <1>3, <1>4 DEF RootAttributes, DuckAccepts, ListAccepted, AsListSoFar
  <2> QED BY <1>1, <1>2, <2>1, RaiseKeeps DEF Working
<1>5. CASE ~root.class
  <2> DEFINE r == [run[e] EXCEPT !.pc = "rename"]
  <2>1. Do(e, r)
    BY <1>5 DEF RootAttributes
  <2>2. /\ r.stage = run[e].stage /\ r.lapses = run[e].lapses
        /\ DOMAIN r = Fields /\ r.pc = "rename" /\ r.why = run[e].why
        /\ r.single = run[e].single /\ r.held = run[e].held /\ r.table = run[e].table
        /\ r.at = run[e].at /\ r.col = run[e].col /\ r.temporary = run[e].temporary
    BY <1>1 DEF CallOK, Fields
  <2> HIDE DEF r
  <2>3. CallOK(r)
    BY <1>1, <1>3, <2>2 DEF CallOK, Working, Ended
  <2>4. DuckAccepts
    BY <1>1, <1>3, <1>5 DEF DuckAccepts, ListAccepted, AsListSoFar
  <2>5. EngineOK(e, r)
    <3>1. None \notin {"refused", "limit"}
      BY ExportAssumption
    <3> QED BY <1>1, <2>2, <2>4, <3>1 DEF EngineOK, DuckOK, Accepted, Refused, InTable
  <2> QED BY <1>2, <2>1, <2>3, <2>5, DoKeeps
<1> QED BY <1>4, <1>5

\* A table that DuckDB has begun must be an Arrow table for it to be accepted.
LEMMA InTableIs ==
  ASSUME IInv, NEW e \in Exporters, NEW pc \in InTable, At(e, "duckdb", pc)
  PROVE  /\ run[e].pc = pc /\ Engine[e] = "duckdb" /\ run[e].why = None
         /\ CallOK(run[e]) /\ DuckOK(run[e]) /\ World
         /\ Items(e) = ItemsFor(run[e]) /\ Len(Items(e)) \in Nat
         /\ \A i \in 1 .. Len(Items(e)) : Items(e)[i].rows \in Nat
         /\ Count \in Nat /\ Count # 0 /\ Count = Len(root.children)
         /\ ~Arrow(Items(e)) => ~DuckAccepts
         /\ ~run[e].single => /\ run[e].table \in 0 .. Count - 1
                              /\ ~Good(run[e].table) => ~DuckAccepts
                              /\ Selected(run[e].table)
<1>1. /\ run[e].pc = pc /\ Engine[e] = "duckdb" /\ run[e].why = None
      /\ CallOK(run[e]) /\ DuckOK(run[e]) /\ World
  BY DuckIs DEF InTable, Working
<1>2. Count \in Nat /\ Count # 0 /\ Count = Len(root.children)
  BY <1>1, RootIs DEF DuckOK
<1>3. Items(e) = ItemsFor(run[e])
  BY DEF Items, ItemsFor
<1>4. CASE run[e].single
  <2>1. Items(e) = root.children /\ root.children[1].is # "frame"
    BY <1>1, <1>4 DEF Items, DuckOK
  <2>2. ~Arrow(Items(e)) => ~DuckAccepts
    BY <2>1 DEF DuckAccepts, SingleAccepted
  <2>3. Len(Items(e)) \in Nat /\ \A i \in 1 .. Len(Items(e)) : Items(e)[i].rows \in Nat
    BY <1>1, <1>2, <2>1, RootIs
  <2> QED BY <1>1, <1>2, <1>3, <1>4, <2>2, <2>3
<1>5. CASE ~run[e].single
  <2>1. /\ Items(e) = root.children[run[e].table + 1].items /\ root.children[1].is = "frame"
        /\ run[e].table \in 0 .. Count - 1 /\ Selected(run[e].table)
    BY <1>1, <1>2, <1>5 DEF Items, DuckOK, AsListSoFar, CallOK
  <2>2. ~Good(run[e].table) => ~DuckAccepts
    BY <2>1 DEF DuckAccepts, ListAccepted
  <2>3. ~Arrow(Items(e)) => ~Good(run[e].table)
    BY <2>1 DEF Good
  <2>4. run[e].table + 1 \in 1 .. Count
    BY <1>2, <2>1
  <2>5. Len(Items(e)) \in Nat /\ \A i \in 1 .. Len(Items(e)) : Items(e)[i].rows \in Nat
    BY <1>1, <2>1, <2>4, RootIs
  <2> QED BY <1>1, <1>2, <1>3, <1>5, <2>1, <2>2, <2>3, <2>5
<1> QED BY <1>1, <1>4, <1>5 DEF CallOK

\* R's NULL in front of a root taken for a data.frame: the reader passes it
\* by, and can only refuse in the end.
NilInFront(e) == run[e].single /\ ~run[e].held

LEMMA NilRefused ==
  ASSUME IInv, NEW e \in Exporters, At(e, "duckdb", "columns"), NilInFront(e)
  PROVE  ~DuckAccepts /\ root.children[1].is = "nil" /\ run[e].at = run[e].col + 1
<1>1. /\ DuckOK(run[e]) /\ Items(e) = ItemsFor(run[e]) /\ (~Arrow(Items(e)) => ~DuckAccepts)
      /\ Count \in Nat /\ Count # 0 /\ Count = Len(root.children) /\ run[e].pc = "columns"
  BY InTableIs DEF InTable
<1>2. root.children[1].is = "nil" /\ run[e].at = run[e].col + 1
  BY <1>1 DEF DuckOK, Taken, NilInFront
<1>3. Items(e) = root.children
  BY DEF Items, NilInFront
<1>4. 1 \in DOMAIN root.children
  <2>1. root.children \in Seq(Child)
    BY InTableIs, RootIs DEF InTable
  <2> QED BY <1>1, <2>1
<1>5. ~Arrow(Items(e))
  BY <1>2, <1>3, <1>4 DEF Arrow, Fits
<1> QED BY <1>1, <1>2, <1>5

LEMMA ColumnKeeps ==
  ASSUME IInv, NEW e \in Exporters, Column(e)
  PROVE  IInv'
<1> DEFINE c    == run[e]
           i    == NextItem(e)
           item == IF i <= Len(Items(e)) THEN Items(e)[i] ELSE Attributes
           r    == [Batched(c, i, item) EXCEPT
                      !.col = @ + 1, !.rows = item.rows, !.at = IF c.single THEN i ELSE @]
<1>1. At(e, "duckdb", "columns") /\ c.col < Len(Items(e)) /\ UNCHANGED <<root, request>>
  BY DEF Column, Still
<1>2. /\ c.pc = "columns" /\ Engine[e] = "duckdb" /\ c.why = None
      /\ CallOK(c) /\ DuckOK(c) /\ World
      /\ Items(e) = ItemsFor(c) /\ Len(Items(e)) \in Nat
      /\ \A j \in 1 .. Len(Items(e)) : Items(e)[j].rows \in Nat
      /\ ~Arrow(Items(e)) => ~DuckAccepts
  BY <1>1, InTableIs DEF InTable
<1>3. Taken(c, Items(e)) /\ c.col \in Nat /\ c.at \in Nat /\ c.single \in BOOLEAN /\ c.held \in BOOLEAN
  BY <1>2 DEF DuckOK, CallOK
<1>4. /\ NilInFront(e) => i = c.at + 1
      /\ ~NilInFront(e) => i = c.col + 1
  <2>1. CASE NilInFront(e)
    BY <2>1 DEF NilInFront, NextItem, ReadAhead
  <2>2. CASE ~NilInFront(e)
    BY <1>3, <2>2 DEF NilInFront, NextItem, ReadAhead, Taken
  <2> QED BY <2>1, <2>2
<1>5. /\ Fits(item) /\ c.rows \in {None, item.rows} => Do(e, r)
      /\ ~(Fits(item) /\ c.rows \in {None, item.rows}) => Raise(e, "refused")
  BY DEF Column
<1> HIDE DEF i, item
<1>6. /\ r.lapses = c.lapses
      /\ DOMAIN r = Fields /\ r.pc = c.pc /\ r.why = c.why /\ r.stage = c.stage /\ r.single = c.single
      /\ r.held = c.held /\ r.table = c.table /\ r.temporary = c.temporary
      /\ r.col = c.col + 1 /\ r.rows = item.rows /\ r.at = IF c.single THEN i ELSE c.at
  BY <1>2 DEF Batched, CallOK, Fields
<1> HIDE DEF r
<1>7. i \in Nat
  BY <1>3, <1>4
<1>8. CASE ~(Fits(item) /\ c.rows \in {None, item.rows})
  <2>1. CASE NilInFront(e)
    BY <1>1, <1>2, <1>5, <1>8, <2>1, NilRefused, RaiseKeeps DEF Working
  <2>2. CASE ~NilInFront(e)
    <3>1. i = c.col + 1 /\ i \in 1 .. Len(Items(e)) /\ item = Items(e)[i]
      BY <1>1, <1>2, <1>3, <1>4, <2>2 DEF item
    <3>2. ~Arrow(Items(e))
      <4>1. DOMAIN Items(e) = 1 .. Len(Items(e))
        <5>1. Items(e) \in Seq(Child) \/ Items(e) \in Seq(Item)
          <6>1. CASE c.single
            BY <1>2, <6>1, RootIs DEF Items
          <6>2. CASE ~c.single
            <7>1. c.table + 1 \in 1 .. Count
              BY <1>1, <6>2, InTableIs DEF InTable
            <7> QED BY <1>2, <6>2, <7>1, RootIs DEF Items
          <6> QED BY <6>1, <6>2
        <5> QED BY <5>1
      <4>2. CASE ~Fits(item)
        BY <3>1, <4>1, <4>2 DEF Arrow
      <4>3. CASE c.rows \notin {None, item.rows}
        <5>1. c.col # 0 /\ 1 \in 1 .. c.col /\ 1 \in 1 .. Len(Items(e))
          BY <1>1, <1>2, <1>3, <4>3 DEF Taken
        <5>2. Items(e)[1].rows = c.rows
          BY <1>3, <2>2, <5>1 DEF Taken, NilInFront
        <5> QED BY <3>1, <4>1, <4>3, <5>1, <5>2 DEF Arrow
      <4> QED BY <1>8, <4>2, <4>3
    <3> QED BY <1>1, <1>2, <1>5, <1>8, <3>2, RaiseKeeps DEF Working
  <2> QED BY <2>1, <2>2
<1>9. CASE Fits(item) /\ c.rows \in {None, item.rows}
  <2>1. Do(e, r)
    BY <1>5, <1>9
  <2>2. CallOK(r)
    BY <1>2, <1>6, <1>7 DEF CallOK, Working, Ended
  <2>3. ItemsFor(r) = Items(e)
    BY <1>2, <1>6 DEF ItemsFor
  <2>4. Taken(r, Items(e))
    <3>1. r.col <= Len(Items(e)) /\ r.col # 0
      BY <1>1, <1>2, <1>3, <1>6
    <3>2. CASE NilInFront(e)
      <4>1. root.children[1].is = "nil" /\ c.at = c.col + 1
        BY <1>1, <3>2, NilRefused
      <4>2. r.at = r.col + 1
        BY <1>3, <1>4, <1>6, <3>2, <4>1 DEF NilInFront
      <4> QED BY <1>6, <3>1, <3>2, <4>1, <4>2 DEF Taken, NilInFront
    <3>3. CASE ~NilInFront(e)
      <4>1. i = c.col + 1 /\ i \in 1 .. Len(Items(e)) /\ item = Items(e)[i]
        BY <1>1, <1>2, <1>3, <1>4, <3>3 DEF item
      <4>2. r.single => r.at = r.col
        BY <1>6, <4>1
      <4>3. ASSUME NEW j \in 1 .. r.col
            PROVE  Fits(Items(e)[j]) /\ Items(e)[j].rows = r.rows
        <5>1. CASE j = i
          BY <1>6, <1>9, <4>1, <5>1
        <5>2. CASE j # i
          <6>1. j \in 1 .. c.col /\ c.col # 0
            BY <1>3, <1>6, <4>1, <5>2
          <6>2. Fits(Items(e)[j]) /\ Items(e)[j].rows = c.rows
            BY <1>3, <3>3, <6>1 DEF Taken, NilInFront
          <6>3. Items(e)[j].rows \in Nat
            BY <1>1, <1>2, <1>3, <6>1
          <6>4. c.rows # None
            BY <6>2, <6>3, ExportAssumption
          <6> QED BY <1>6, <1>9, <6>2, <6>4
        <5> QED BY <5>1, <5>2
      <4> QED BY <1>6, <3>1, <3>3, <4>2, <4>3 DEF Taken, NilInFront
    <3> QED BY <3>2, <3>3
  <2>5. EngineOK(e, r)
    <3>1. None \notin {"refused", "limit"}
      BY ExportAssumption
    <3>2. AsListSoFar(c) /\ ~c.single => AsListSoFar(r)
      BY <1>6 DEF AsListSoFar
    <3> QED BY <1>2, <1>6, <2>3, <2>4, <3>1, <3>2 DEF EngineOK, DuckOK, Accepted, Refused, InTable
  <2> QED BY <1>1, <2>1, <2>2, <2>5, DoKeeps
<1> QED BY <1>8, <1>9

LEMMA LastBatchKeeps ==
  ASSUME IInv, NEW e \in Exporters, LastBatch(e)
  PROVE  IInv'
<1> DEFINE c == run[e]
           r == [c EXCEPT !.pc = "copy", !.staged = Append(@, c.batch),
                          !.batch = <<>>, !.temporary = Partial]
<1>1. At(e, "duckdb", "columns") /\ c.col = Len(Items(e)) /\ UNCHANGED <<root, request>>
  BY DEF LastBatch, Still
<1>2. /\ c.pc = "columns" /\ Engine[e] = "duckdb" /\ c.why = None
      /\ CallOK(c) /\ DuckOK(c) /\ World
      /\ Items(e) = ItemsFor(c) /\ Len(Items(e)) \in Nat
      /\ Count \in Nat /\ Count # 0 /\ Count = Len(root.children)
      /\ ~c.single => /\ c.table \in 0 .. Count - 1 /\ Selected(c.table)
                      /\ ~Good(c.table) => ~DuckAccepts
  BY <1>1, InTableIs DEF InTable
<1>3. Taken(c, Items(e)) /\ c.col \in Nat /\ c.at \in Nat /\ c.single \in BOOLEAN
  BY <1>2 DEF DuckOK, CallOK
<1>4. c.single => Items(e) = root.children
  BY DEF Items
<1>5. ~c.single => Items(e) = root.children[c.table + 1].items
  BY DEF Items
<1>6. CASE ~(IsFrame(e) /\ Items(e) # <<>>)
  <2>1. Raise(e, "refused")
    BY <1>6 DEF LastBatch
  <2>2. ~DuckAccepts
    <3>1. CASE ~c.single
      BY <1>2, <1>5, <1>6, <3>1 DEF IsFrame, Good
    <3>2. CASE c.single
      <4>1. Items(e) # <<>>
        <5>1. root.children # <<>>
          BY <1>2
        <5> QED BY <1>4, <3>2, <5>1
      <4>2. ~root.class \/ c.at # Count
        BY <1>6, <3>2, <4>1 DEF IsFrame
      <4>3. CASE ~root.class
        <5>1. root.children[1].is # "frame"
          BY <1>2, <3>2 DEF DuckOK, InTable
        <5> QED BY <4>3, <5>1 DEF DuckAccepts, SingleAccepted
      <4>4. CASE c.at # Count
        <5>1. ~c.held
          BY <1>1, <1>2, <1>3, <1>4, <3>2, <4>4 DEF Taken
        <5> QED BY <1>1, <3>2, <5>1, NilRefused DEF NilInFront
      <4> QED BY <4>2, <4>3, <4>4
    <3> QED BY <1>3, <3>1, <3>2
  <2> QED BY <1>1, <1>2, <2>1, <2>2, RaiseKeeps DEF Working
<1>7. CASE IsFrame(e) /\ Items(e) # <<>>
  <2>1. Do(e, r)
    BY <1>7 DEF LastBatch
  <2>2. /\ r.lapses = c.lapses
        /\ DOMAIN r = Fields /\ r.pc = "copy" /\ r.why = c.why /\ r.stage = c.stage
        /\ r.single = c.single /\ r.held = c.held /\ r.table = c.table /\ r.at = c.at /\ r.col = c.col
    BY <1>2 DEF CallOK, Fields
  <2> HIDE DEF r
  <2>3. CallOK(r)
    BY <1>2, <2>2 DEF CallOK, Working, Ended
  <2>4. ~NilInFront(e)
    <3>1. SUFFICES ASSUME NilInFront(e) PROVE FALSE
      OBVIOUS
    <3>2. c.at = c.col + 1
      BY <1>1, <3>1, NilRefused
    <3> QED BY <1>1, <1>2, <1>3, <1>4, <1>7, <3>1, <3>2 DEF NilInFront, IsFrame
  <2>5. Arrow(Items(e))
    <3>1. \A i \in 1 .. Len(Items(e)) : Fits(Items(e)[i]) /\ Items(e)[i].rows = c.rows
      BY <1>1, <1>3, <2>4 DEF Taken, NilInFront
    <3>2. DOMAIN Items(e) = 1 .. Len(Items(e))
      <4>1. CASE c.single
        BY <1>2, <1>4, <4>1, RootIs
      <4>2. CASE ~c.single
        <5>1. c.table + 1 \in 1 .. Count
          BY <1>2, <4>2
        <5> QED BY <1>2, <1>5, <4>2, <5>1, RootIs
      <4> QED BY <4>1, <4>2
    <3> QED BY <3>1, <3>2 DEF Arrow
  <2>6. IF r.single THEN SingleAccepted ELSE Good(r.table)
    <3>1. CASE c.single
      <4>1. OnlyTheFirst
        BY <1>2, <3>1 DEF DuckOK, InTable
      <4>2. root.class
        BY <1>7, <3>1 DEF IsFrame
      <4> QED BY <1>4, <2>2, <2>5, <3>1, <4>1, <4>2 DEF SingleAccepted
    <3>2. CASE ~c.single
      BY <1>5, <1>7, <2>2, <2>5, <3>2 DEF Good, IsFrame
    <3> QED BY <3>1, <3>2
  <2>7. EngineOK(e, r)
    <3>1. None \notin {"refused", "limit"}
      BY ExportAssumption
    <3>2. AsListSoFar(c) /\ ~c.single => AsListSoFar(r)
      BY <2>2 DEF AsListSoFar
    <3> QED BY <1>2, <2>2, <2>6, <3>1, <3>2 DEF EngineOK, DuckOK, Accepted, Refused, InTable
  <2> QED BY <1>1, <2>1, <2>3, <2>7, DoKeeps
<1> QED BY <1>6, <1>7

\* An action that changes the phase of a call and what it has written.
LEMMA PhaseKeeps ==
  ASSUME IInv, NEW e \in Exporters, NEW r, Do(e, r), UNCHANGED <<root, request>>,
         DOMAIN r = Fields, r.why = run[e].why,
         r.stage = run[e].stage, r.lapses = run[e].lapses,
         r.single = run[e].single, r.held = run[e].held, r.table = run[e].table,
         r.at = run[e].at, r.col = run[e].col,
         \/ run[e].pc = "copy" /\ r.pc = "replace"
         \/ run[e].pc = "replace" /\ r.pc = "cleanup" /\ r.temporary = None /\ run[e].single
         \/ run[e].pc = "rename" /\ r.pc \in {"rename", "cleanup"} /\ r.temporary = run[e].temporary
  PROVE  IInv'
<1>1. CallOK(run[e]) /\ EngineOK(e, run[e]) /\ run[e].why = None
  BY DEF IInv, CallOK, Working
<1>2. None \notin {"refused", "limit"}
  BY ExportAssumption
<1>3. CallOK(r)
  BY <1>1 DEF CallOK, Working, Ended
<1>4. ASSUME Engine[e] = "duckdb" PROVE DuckOK(r)
  <2>1. DuckOK(run[e])
    BY <1>1, <1>4 DEF EngineOK
  <2>2. CASE run[e].pc = "copy" /\ r.pc = "replace"
    <3>1. AsListSoFar(run[e]) /\ ~run[e].single => AsListSoFar(r)
      BY DEF AsListSoFar
    <3> QED BY <1>1, <1>2, <2>1, <2>2, <3>1 DEF DuckOK, Accepted, Refused, InTable
  <2>3. CASE run[e].pc = "replace" /\ r.pc = "cleanup" /\ run[e].single
    <3>1. DuckAccepts
      BY <2>1, <2>3 DEF DuckOK, InTable, DuckAccepts
    <3> QED BY <1>1, <1>2, <2>3, <3>1 DEF DuckOK, Accepted, Refused, InTable
  <2>4. CASE run[e].pc = "rename" /\ r.pc \in {"rename", "cleanup"}
    <3>1. DuckAccepts
      BY <2>1, <2>4 DEF DuckOK, Accepted
    <3> QED BY <1>1, <1>2, <2>4, <3>1 DEF DuckOK, Accepted, Refused, InTable
  <2> QED BY <2>2, <2>3, <2>4
<1>5. ASSUME Engine[e] = "pyarrow" PROVE ArrowOK(r)
  <2>1. ArrowOK(run[e])
    BY <1>1, <1>5 DEF EngineOK
  <2>2. run[e].pc = "rename" /\ r.pc \in {"rename", "cleanup"} /\ ArrowAccepts
    BY <2>1 DEF ArrowOK, Ended, Accepted
  <2> QED BY <1>1, <1>2, <2>2 DEF ArrowOK, Accepted, Refused
<1> QED BY <1>3, <1>4, <1>5, DoKeeps DEF EngineOK

LEMMA MergeKeeps ==
  ASSUME IInv, NEW e \in Exporters, Merge(e)
  PROVE  IInv'
<1> DEFINE merged == Table(run[e].table, FlattenSeq(run[e].staged))
           r      == [run[e] EXCEPT !.pc = "replace", !.temporary = merged]
<1> HIDE DEF merged
<1>1. run[e].pc = "copy" /\ Do(e, r) /\ UNCHANGED <<root, request>> /\ DOMAIN run[e] = Fields
  BY DEF Merge, At, Still, merged, IInv, CallOK
<1>2. /\ r.stage = run[e].stage /\ r.lapses = run[e].lapses
      /\ DOMAIN r = Fields /\ r.pc = "replace" /\ r.why = run[e].why
      /\ r.single = run[e].single /\ r.held = run[e].held /\ r.table = run[e].table
      /\ r.at = run[e].at /\ r.col = run[e].col
  BY <1>1 DEF Fields
<1> HIDE DEF r
<1> QED BY <1>1, <1>2, PhaseKeeps

LEMMA ReplaceSingleKeeps ==
  ASSUME IInv, NEW e \in Exporters, ReplaceSingle(e)
  PROVE  IInv'
<1> DEFINE results == <<Data(run[e].temporary)>>
           r       == [run[e] EXCEPT !.pc = "cleanup", !.temporary = None, !.results = results]
<1> HIDE DEF results
<1>1. /\ run[e].pc = "replace" /\ run[e].single /\ Do(e, r) /\ UNCHANGED <<root, request>>
      /\ DOMAIN run[e] = Fields
  BY DEF ReplaceSingle, At, Puts, results, IInv, CallOK
<1>2. /\ r.stage = run[e].stage /\ r.lapses = run[e].lapses
      /\ DOMAIN r = Fields /\ r.pc = "cleanup" /\ r.why = run[e].why /\ r.temporary = None
      /\ r.single = run[e].single /\ r.held = run[e].held /\ r.table = run[e].table
      /\ r.at = run[e].at /\ r.col = run[e].col
  BY <1>1 DEF Fields
<1> HIDE DEF r
<1> QED BY <1>1, <1>2, PhaseKeeps

\* Behind the last table that is selected nothing is read if the names are
\* those of a catalog: that catalog says that the rest are tables, too.
LEMMA LastIsEnough ==
  ASSUME World, NEW t \in 0 .. Count - 1, \A u \in 0 .. t : Good(u),
         root.children[1].is = "frame", request.named, LastSelected(t)
  PROVE  ~root.class /\ \A u \in 0 .. Count - 1 : Good(u)
<1>1. request.selected # None /\ Listed(root)
  BY DEF World
<1>2. ~root.class /\ \A i \in DOMAIN root.children : root.children[i].is = "frame"
  BY <1>1 DEF Listed
<1>3. ASSUME NEW u \in 0 .. Count - 1 PROVE Good(u)
  <2>1. CASE u <= t
    BY <2>1
  <2>2. CASE ~(u <= t)
    <3>1. ~Selected(u)
      BY <1>1, <2>2 DEF Selected, LastSelected
    <3>2. u + 1 \in DOMAIN root.children
      <4>1. root.children \in Seq(Child) /\ Count = Len(root.children) /\ Count \in Nat
        BY RootIs
      <4> QED BY <4>1
    <3> QED BY <1>2, <3>1, <3>2 DEF Good
  <2> QED BY <2>1, <2>2
<1> QED BY <1>2, <1>3

LEMMA ReplaceInListKeeps ==
  ASSUME IInv, NEW e \in Exporters, ReplaceInList(e)
  PROVE  IInv'
<1> DEFINE c == run[e]
           t == c.table
           r == [c EXCEPT !.pc = Renaming(e, t), !.table = t + 1, !.temporary = None,
                          !.pending = Append(@, c.temporary)]
<1>1. At(e, "duckdb", "replace") /\ ~c.single /\ UNCHANGED <<root, request>> /\ Do(e, r)
  BY DEF ReplaceInList, Still
<1>2. /\ c.pc = "replace" /\ Engine[e] = "duckdb" /\ c.why = None
      /\ CallOK(c) /\ DuckOK(c) /\ World /\ Count \in Nat /\ t \in 0 .. Count - 1
  BY <1>1, InTableIs DEF InTable
<1>3. AsListSoFar(c) /\ Good(t) /\ Count # 0 /\ ~Exceeds(Count, request.max_root_items)
  BY <1>1, <1>2 DEF DuckOK, InTable
<1>4. /\ r.lapses = c.lapses
      /\ DOMAIN r = Fields /\ r.pc = Renaming(e, t) /\ r.why = c.why /\ r.stage = c.stage
      /\ r.single = c.single /\ r.held = c.held /\ r.table = t + 1 /\ r.at = c.at /\ r.col = c.col
      /\ r.temporary = None
  BY <1>2 DEF CallOK, Fields
<1> HIDE DEF r
<1>5. r.pc \in {"rename", "table"} /\ (r.pc = "rename" => request.named /\ LastSelected(t))
  BY <1>4 DEF Renaming
<1>6. CallOK(r)
  BY <1>2, <1>4, <1>5 DEF CallOK, Working, Ended
<1>7. \A u \in 0 .. t : Good(u)
  BY <1>2, <1>3 DEF AsListSoFar
<1>8. AsListSoFar(r)
  BY <1>1, <1>2, <1>3, <1>4, <1>7 DEF AsListSoFar
<1>9. r.pc = "rename" => DuckAccepts
  BY <1>2, <1>3, <1>5, <1>7, LastIsEnough DEF AsListSoFar, DuckAccepts, ListAccepted
<1>10. EngineOK(e, r)
  <2>1. None \notin {"refused", "limit"}
    BY ExportAssumption
  <2> QED BY <1>2, <1>3, <1>4, <1>5, <1>8, <1>9, <2>1 DEF EngineOK, DuckOK, Accepted, Refused, InTable
<1> QED BY <1>1, <1>6, <1>10, DoKeeps

-----------------------------------------------------------------------------
(* What the engines have in common, and the engine of PyArrow. *)

LEMMA RenameKeeps ==
  ASSUME IInv, NEW e \in Exporters, Rename(e)
  PROVE  IInv'
<1> DEFINE result == ResultInTurn(e)
           r      == [run[e] EXCEPT !.results = Append(@, result)]
<1> HIDE DEF result
<1>1. run[e].pc = "rename" /\ Do(e, r) /\ UNCHANGED <<root, request>> /\ DOMAIN run[e] = Fields
  BY DEF Rename, Puts, result, IInv, CallOK
<1>2. /\ r.stage = run[e].stage /\ r.lapses = run[e].lapses
      /\ DOMAIN r = Fields /\ r.pc = "rename" /\ r.why = run[e].why
      /\ r.temporary = run[e].temporary
      /\ r.single = run[e].single /\ r.held = run[e].held /\ r.table = run[e].table
      /\ r.at = run[e].at /\ r.col = run[e].col
  BY <1>1 DEF Fields
<1> HIDE DEF r
<1> QED BY <1>1, <1>2, PhaseKeeps

LEMMA RenamedKeeps ==
  ASSUME IInv, NEW e \in Exporters, Renamed(e)
  PROVE  IInv'
<1> DEFINE r == [run[e] EXCEPT !.pc = "cleanup"]
<1>1. run[e].pc = "rename" /\ Do(e, r) /\ UNCHANGED <<root, request>> /\ DOMAIN run[e] = Fields
  BY DEF Renamed, Still, IInv, CallOK
<1>2. /\ r.stage = run[e].stage /\ r.lapses = run[e].lapses
      /\ DOMAIN r = Fields /\ r.pc = "cleanup" /\ r.why = run[e].why
      /\ r.temporary = run[e].temporary
      /\ r.single = run[e].single /\ r.held = run[e].held /\ r.table = run[e].table
      /\ r.at = run[e].at /\ r.col = run[e].col
  BY <1>1 DEF Fields
<1> HIDE DEF r
<1> QED BY <1>1, <1>2, PhaseKeeps

\* A call that ends keeps its verdict.
LEMMA EndKeeps ==
  ASSUME IInv, NEW e \in Exporters, NEW r, Do(e, r), UNCHANGED <<root, request>>, CallOK(r),
         \/ run[e].pc = "cleanup" /\ r.pc \in {"done", "failed"} /\ r.why = run[e].why
            /\ (r.pc = "done" => r.why = None)
         \/ r.pc = "dead" /\ r.why = run[e].why
  PROVE  IInv'
<1>1. EngineOK(e, run[e])
  BY DEF IInv
<1>2. (Refused(r) => Refused(run[e])) /\ (Accepted(r) => Accepted(run[e]))
  BY DEF Refused, Accepted
<1>3. r.pc \in Ended
  BY DEF Ended
<1>4. DuckOK(run[e]) => DuckOK(r)
  BY <1>2, <1>3 DEF DuckOK, InTable, Ended
<1>5. ArrowOK(run[e]) => ArrowOK(r)
  BY <1>2, <1>3 DEF ArrowOK, Ended
<1> QED BY <1>1, <1>4, <1>5, DoKeeps DEF EngineOK

LEMMA CleanupKeeps ==
  ASSUME IInv, NEW e \in Exporters, Cleanup(e)
  PROVE  IInv'
<1> PICK removed \in BOOLEAN :
      Do(e, [run[e] EXCEPT !.pc = IF run[e].why = None THEN "done" ELSE "failed",
                           !.stage = ~removed,
                           !.lapses = IF removed THEN @ ELSE @ \cup {"rmtree"},
                           !.temporary = IF run[e].single \/ ~removed THEN @ ELSE None])
  BY Zenon DEF Cleanup
<1> DEFINE stage  == ~removed
           lapses == IF removed THEN run[e].lapses ELSE run[e].lapses \cup {"rmtree"}
           file   == IF run[e].single \/ ~removed THEN run[e].temporary ELSE None
           r == [run[e] EXCEPT !.pc = IF run[e].why = None THEN "done" ELSE "failed",
                               !.stage = stage, !.lapses = lapses, !.temporary = file]
<1>1. /\ run[e].pc = "cleanup" /\ Do(e, r) /\ UNCHANGED <<root, request>> /\ CallOK(run[e])
      /\ DOMAIN run[e] = Fields
  BY DEF Cleanup, Still, IInv, CallOK
<1>2. /\ stage => lapses = run[e].lapses \cup {"rmtree"}
      /\ ~stage => lapses = run[e].lapses
      /\ file \in {run[e].temporary, None} /\ (file # None => run[e].single \/ stage)
  OBVIOUS
<1> HIDE DEF stage, lapses, file
<1>3. /\ DOMAIN r = Fields /\ r.pc = (IF run[e].why = None THEN "done" ELSE "failed")
      /\ r.why = run[e].why /\ r.stage = stage /\ r.lapses = lapses /\ r.temporary = file
      /\ r.single = run[e].single /\ r.held = run[e].held /\ r.table = run[e].table
      /\ r.at = run[e].at /\ r.col = run[e].col
  BY <1>1 DEF Fields
<1> HIDE DEF r
<1>4. /\ run[e].lapses \subseteq {"unlink"}
      /\ run[e].temporary # None => "unlink" \in run[e].lapses
      /\ run[e].why \in {None, "refused", "limit"} => run[e].lapses = {}
  BY <1>1 DEF CallOK
<1>5. Leaves(r)
  BY <1>2, <1>3, <1>4 DEF Leaves
<1>6. CallOK(r)
  BY <1>1, <1>3, <1>5 DEF CallOK, Working, Ended
<1> QED BY <1>1, <1>3, <1>6, EndKeeps

\* The try is entered.
LEMMA EnterTryKeeps ==
  ASSUME IInv, NEW e \in Exporters, EnterTry(e)
  PROVE  IInv'
<1> DEFINE then == IF Engine[e] = "duckdb" THEN "first" ELSE "write"
           r    == [run[e] EXCEPT !.pc = then]
<1> HIDE DEF then
<1>1. /\ run[e].pc = "made" /\ UNCHANGED <<root, request>> /\ Do(e, r)
      /\ CallOK(run[e]) /\ EngineOK(e, run[e])
  BY DEF EnterTry, Still, IInv, then
<1>2. /\ DOMAIN r = Fields /\ r.pc = then /\ r.why = run[e].why
      /\ r.stage = run[e].stage /\ r.lapses = run[e].lapses
      /\ r.single = run[e].single /\ r.held = run[e].held /\ r.table = run[e].table
      /\ r.at = run[e].at /\ r.col = run[e].col /\ r.rows = run[e].rows
      /\ r.temporary = run[e].temporary
  BY <1>1 DEF CallOK, Fields
<1> HIDE DEF r
<1>3. None \notin {"refused", "limit"} /\ run[e].why = None
  BY <1>1, ExportAssumption DEF CallOK, Working
<1>4. CASE Engine[e] = "duckdb"
  <2>1. then = "first" /\ ~run[e].single
    BY <1>1, <1>4 DEF then, EngineOK, DuckOK
  <2>2. CallOK(r)
    BY <1>1, <1>2, <2>1 DEF CallOK, Working, Ended
  <2>3. EngineOK(e, r)
    BY <1>1, <1>2, <1>3, <1>4, <2>1 DEF EngineOK, DuckOK, Accepted, Refused, InTable
  <2> QED BY <1>1, <2>2, <2>3, DoKeeps
<1>5. CASE Engine[e] = "pyarrow"
  <2>1. then = "write"
    BY <1>5 DEF then
  <2>2. CallOK(r)
    BY <1>1, <1>2, <2>1 DEF CallOK, Working, Ended
  <2>3. EngineOK(e, r)
    BY <1>1, <1>2, <1>3, <1>5, <2>1 DEF EngineOK, ArrowOK, Accepted, Refused
  <2> QED BY <1>1, <2>2, <2>3, DoKeeps
<1> QED BY <1>4, <1>5, ExportAssumption

LEMMA ReadArrowKeeps ==
  ASSUME IInv, NEW e \in Exporters, ReadArrow(e)
  PROVE  IInv'
<1> DEFINE refuse == IF root.class THEN ~OnlyTheFirst ELSE ~InRange
           over   == \/ Exceeds(Count, request.max_root_items)
                     \/ ~root.class /\ Exceeds(Count, request.max_tables)
           tables == AllTables
           r      == [run[e] EXCEPT !.pc = "made", !.stage = TRUE, !.single = root.class,
                                    !.todo = tables]
<1> HIDE DEF tables
<1>1. /\ run[e].pc = "start" /\ Engine[e] = "pyarrow" /\ UNCHANGED <<root, request>>
      /\ CallOK(run[e]) /\ World
  BY DEF ReadArrow, At, Still, IInv
<1>2. ArrowAccepts <=> Convertible /\ ~over /\ ~refuse
  BY DEF ArrowAccepts
<1>3. CASE ~Convertible
  <2>1. Raise(e, "refused") /\ ~ArrowAccepts
    BY <1>2, <1>3 DEF ReadArrow
  <2> QED BY <1>1, <2>1, RaiseKeeps DEF Working
<1>4. CASE Convertible /\ over
  <2>1. Raise(e, "limit") /\ ~ArrowAccepts
    BY <1>2, <1>4 DEF ReadArrow
  <2> QED BY <1>1, <2>1, RaiseKeeps DEF Working
<1>5. CASE Convertible /\ ~over /\ refuse
  <2>1. Raise(e, "refused") /\ ~ArrowAccepts
    BY <1>2, <1>5 DEF ReadArrow
  <2> QED BY <1>1, <2>1, RaiseKeeps DEF Working
<1>6. CASE Convertible /\ ~over /\ ~refuse
  <2>1. Do(e, r) /\ ArrowAccepts
    BY <1>2, <1>6 DEF ReadArrow, tables
  <2>2. /\ r.stage = TRUE /\ r.lapses = run[e].lapses /\ r.rows = run[e].rows
        /\ DOMAIN r = Fields /\ r.pc = "made" /\ r.why = run[e].why
        /\ r.single = root.class /\ r.held = run[e].held /\ r.table = run[e].table
        /\ r.at = run[e].at /\ r.col = run[e].col /\ r.temporary = run[e].temporary
    BY <1>1 DEF CallOK, Fields
  <2> HIDE DEF r
  <2>3. root.class \in BOOLEAN
    BY <1>1, ExportAssumption DEF World, Root
  <2>4. r.single \in BOOLEAN /\ r.held \in BOOLEAN
    BY <1>1, <2>2, <2>3, Zenon DEF CallOK
  <2>5. CallOK(r)
    BY <1>1, <2>2, <2>4 DEF CallOK, Working, Ended
  <2>6. EngineOK(e, r)
    <3>1. None \notin {"refused", "limit"} /\ r.why = None
      BY <1>1, <2>2, ExportAssumption DEF CallOK, Working
    <3> QED BY <1>1, <2>1, <2>2, <3>1 DEF EngineOK, ArrowOK, Accepted, Refused
  <2> QED BY <1>1, <2>1, <2>5, <2>6, DoKeeps
<1> QED BY <1>3, <1>4, <1>5, <1>6

LEMMA WriteTableKeeps ==
  ASSUME IInv, NEW e \in Exporters, WriteTable(e)
  PROVE  IInv'
<1> DEFINE c    == run[e]
           n    == Len(c.pending) + 1
           last == n = Len(c.todo)
           r    == [c EXCEPT !.pending = Append(@, c.todo[n].table),
                             !.pc = IF last THEN "rename" ELSE "write"]
<1>1. /\ c.pc = "write" /\ Engine[e] = "pyarrow" /\ UNCHANGED <<root, request>>
      /\ CallOK(c) /\ ArrowOK(c) /\ Do(e, r)
  BY DEF WriteTable, At, Still, IInv, EngineOK
<1>2. /\ r.stage = c.stage /\ r.lapses = c.lapses
      /\ DOMAIN r = Fields /\ r.pc = (IF last THEN "rename" ELSE "write") /\ r.why = c.why
      /\ r.single = c.single /\ r.held = c.held /\ r.table = c.table
      /\ r.at = c.at /\ r.col = c.col /\ r.temporary = c.temporary
  BY <1>1 DEF CallOK, Fields
<1> HIDE DEF r, last
<1>3. r.pc \in {"rename", "write"}
  BY <1>2
<1>4. CallOK(r)
  BY <1>1, <1>2, <1>3 DEF CallOK, Working, Ended
<1>5. EngineOK(e, r)
  <2>1. None \notin {"refused", "limit"} /\ c.why = None /\ ArrowAccepts
    BY <1>1, ExportAssumption DEF CallOK, Working, ArrowOK
  <2> QED BY <1>1, <1>2, <1>3, <2>1 DEF EngineOK, ArrowOK, Accepted, Refused
<1> QED BY <1>1, <1>4, <1>5, DoKeeps

-----------------------------------------------------------------------------
(* What goes wrong. *)

LEMMA FailureKeeps ==
  ASSUME IInv, NEW e \in Exporters, Fault(e) \/ DoubleFault(e) \/ Interrupt(e)
  PROVE  IInv'
<1>1. run[e].pc \in Working \cup {"cleanup"} /\ UNCHANGED <<root, request>>
  BY DEF Fault, DoubleFault, Interrupt, Still, Ended, IInv, CallOK
<1>2. CASE Fault(e)
  BY <1>1, <1>2, RaiseKeeps DEF Fault
<1>3. CASE DoubleFault(e)
  BY <1>1, <1>3, EscapeKeeps DEF DoubleFault
<1>4. CASE Interrupt(e)
  BY <1>1, <1>4, EscapeKeeps DEF Interrupt
<1> QED BY <1>2, <1>3, <1>4

LEMMA CrashKeeps ==
  ASSUME IInv, NEW e \in Exporters, Crash(e)
  PROVE  IInv'
<1> DEFINE r == [run[e] EXCEPT !.pc = "dead"]
<1>1. Do(e, r) /\ UNCHANGED <<root, request>> /\ CallOK(run[e]) /\ DOMAIN run[e] = Fields
  BY DEF Crash, Still, IInv, CallOK
<1>2. /\ DOMAIN r = Fields /\ r.pc = "dead" /\ r.why = run[e].why
      /\ r.single = run[e].single /\ r.held = run[e].held /\ r.table = run[e].table
      /\ r.at = run[e].at /\ r.col = run[e].col
  BY <1>1 DEF Fields
<1> HIDE DEF r
<1>3. CallOK(r)
  BY <1>1, <1>2 DEF CallOK, Working, Ended
<1> QED BY <1>1, <1>2, <1>3, EndKeeps

-----------------------------------------------------------------------------
(* The theorems. *)

LEMMA InitKeeps ==
  ASSUME Init PROVE IInv
<1>1. World
  BY DEF Init, World
<1>2. DOMAIN run = Exporters /\ \A e \in Exporters : run[e] = Started
  BY DEF Init
<1>3. CallOK(Started)
  BY DEF Started, CallOK, Fields, Working, Ended
<1>4. ASSUME NEW e \in Exporters PROVE EngineOK(e, Started)
  <2>1. None \notin {"refused", "limit"}
    BY ExportAssumption
  <2>2. Started.pc = "start" /\ Started.why = None
    BY DEF Started
  <2> QED BY <2>1, <2>2 DEF EngineOK, DuckOK, ArrowOK, Accepted, Refused, InTable
<1> QED BY <1>1, <1>2, <1>3, <1>4 DEF IInv

LEMMA NextKeeps ==
  ASSUME IInv, [Next]_vars
  PROVE  IInv'
<1>1. CASE Next
  <2> PICK e \in Exporters :
        DuckDB(e) \/ PyArrow(e) \/ EnterTry(e) \/ Rename(e) \/ Renamed(e) \/ Cleanup(e)
        \/ Failure(e)
    BY <1>1 DEF Next
  <2>1. CASE DuckDB(e)
    BY <2>1, ChecksKeeps, FirstKeeps, TableInTurnKeeps, RootAttributesKeeps, ColumnKeeps,
       LastBatchKeeps, MergeKeeps, ReplaceSingleKeeps, ReplaceInListKeeps DEF DuckDB
  <2>2. CASE PyArrow(e)
    BY <2>2, ReadArrowKeeps, WriteTableKeeps DEF PyArrow
  <2>3. CASE EnterTry(e) \/ Rename(e) \/ Renamed(e) \/ Cleanup(e)
    BY <2>3, EnterTryKeeps, RenameKeeps, RenamedKeeps, CleanupKeeps
  <2>4. CASE Failure(e)
    BY <2>4, FailureKeeps, CrashKeeps DEF Failure
  <2> QED BY <2>1, <2>2, <2>3, <2>4
<1>2. CASE UNCHANGED vars
  <2>1. root' = root /\ request' = request /\ run' = run
    BY <1>2 DEF vars
  <2>2. \A f \in Exporters : EngineOK(f, run'[f]) /\ CallOK(run'[f])
    BY <2>1 DEF IInv
  <2> QED BY <2>1, <2>2, CallsKeep DEF IInv
<1> QED BY <1>1, <1>2

\* What each call knows of the file at each of its steps, and that it has come
\* to the engine's verdict when it ends.
THEOREM Invariant == Spec => []IInv
<1>1. Init => IInv
  BY InitKeeps
<1>2. IInv /\ [Next]_vars => IInv'
  BY NextKeeps
<1> QED BY <1>1, <1>2, PTL DEF Spec

\* A conversion that ends leaves nothing temporary behind, except what the
\* closed list of NothingLeft names.
THEOREM LeavesNothing == Spec => []NothingLeft
<1>1. IInv => NothingLeft
  BY DEF IInv, NothingLeft, CallOK, Leaves
<1> QED BY <1>1, Invariant, PTL

\* What one verdict takes that the other does not.
LEMMA VerdictsDiffer ==
  ASSUME World
  PROVE  /\ ArrowAccepts /\ ~DuckAccepts => NoColumns
         /\ DuckAccepts /\ ~ArrowAccepts =>
              \E t \in 0 .. Count - 1 : ~Selected(t) /\ ~Arrow(ItemsOf(t))
<1>1. /\ root.children \in Seq(Child) /\ Count \in Nat /\ Count = Len(root.children)
      /\ DOMAIN root.children = 1 .. Count
  BY RootIs
<1>2. ASSUME ArrowAccepts, ~DuckAccepts PROVE NoColumns
  <2>1. CASE root.class
    <3>1. SUFFICES ASSUME root.children # <<>> PROVE FALSE
      BY <2>1 DEF NoColumns
    <3>2. Count # 0 /\ 1 \in DOMAIN root.children
      BY <1>1, <3>1
    <3>3. Arrow(root.children) /\ OnlyTheFirst /\ ~Exceeds(Count, request.max_root_items)
      BY <1>2, <2>1 DEF ArrowAccepts, Convertible
    <3>4. root.children[1].is # "frame"
      BY <3>2, <3>3 DEF Arrow, Fits
    <3> QED BY <1>2, <2>1, <3>2, <3>3, <3>4 DEF DuckAccepts, SingleAccepted
  <2>2. CASE ~root.class
    <3>1. /\ root.children # <<>> /\ InRange
          /\ ~Exceeds(Count, request.max_root_items) /\ ~Exceeds(Count, request.max_tables)
          /\ \A i \in 1 .. Count :
               root.children[i].is = "frame" /\ Arrow(root.children[i].items)
      BY <1>1, <1>2, <2>2 DEF ArrowAccepts, Convertible
    <3>2. Count # 0 /\ root.children[1].is = "frame"
      BY <1>1, <3>1
    <3>3. PICK t \in 0 .. Count - 1 : ~Good(t)
      BY <1>2, <2>2, <3>1, <3>2 DEF DuckAccepts, ListAccepted
    <3>4. t + 1 \in 1 .. Count
      BY <1>1
    <3> QED BY <2>2, <3>1, <3>3, <3>4 DEF Good, NoColumns
  <2> QED BY <2>1, <2>2
<1>3. ASSUME DuckAccepts, ~ArrowAccepts
      PROVE  \E t \in 0 .. Count - 1 : ~Selected(t) /\ ~Arrow(ItemsOf(t))
  <2>1. CASE root.children[1].is # "frame"
    BY <1>3, <2>1 DEF DuckAccepts, SingleAccepted, ArrowAccepts, Convertible
  <2>2. CASE root.children[1].is = "frame"
    <3>1. ListAccepted /\ Count # 0 /\ ~Exceeds(Count, request.max_root_items)
      BY <1>3, <2>2 DEF DuckAccepts
    <3>2. root.children # <<>>
      BY <1>1, <3>1
    <3>3. ~Convertible
      BY <1>3, <3>1 DEF ListAccepted, ArrowAccepts
    <3>4. PICK i \in 1 .. Count :
            ~(root.children[i].is = "frame" /\ Arrow(root.children[i].items))
      BY <1>1, <3>1, <3>2, <3>3 DEF ListAccepted, Convertible
    <3>5. i - 1 \in 0 .. Count - 1 /\ (i - 1) + 1 = i
      BY <1>1
    <3>6. Good(i - 1)
      BY <3>1, <3>5 DEF ListAccepted
    <3>7. ItemsOf(i - 1) = root.children[i].items
      BY <3>1, <3>5 DEF ItemsOf, ListAccepted
    <3> QED BY <3>4, <3>5, <3>6, <3>7 DEF Good
  <2> QED BY <2>1, <2>2
<1> QED BY <1>2, <1>3

\* A file is converted by one engine and refused by the other only if DuckDB
\* has a table without columns to merge, or PyArrow converts a table that is
\* not selected and is none that Arrow takes.
THEOREM EnginesAcceptAlike == Spec => []EnginesAccept
<1>1. ASSUME IInv PROVE EnginesAccept
  <2> SUFFICES ASSUME NEW e \in Exporters, NEW f \in Exporters,
                      Verdict(e), Verdict(f), run[e].pc = "done", run[f].pc # "done"
               PROVE  \/ Engine[f] = "duckdb" /\ NoColumns
                      \/ /\ Engine[f] = "pyarrow"
                         /\ \E t \in 0 .. Count - 1 : ~Selected(t) /\ ~Arrow(ItemsOf(t))
    BY Zenon DEF EnginesAccept
  <2>1. Accepted(run[e]) /\ Refused(run[f])
    BY DEF Verdict, Accepted, Refused
  <2>2. EngineOK(e, run[e]) /\ EngineOK(f, run[f]) /\ World
    BY <1>1 DEF IInv
  <2>3. \A g \in Exporters : Engine[g] \in {"duckdb", "pyarrow"}
    BY ExportAssumption
  <2>4. IF Engine[e] = "duckdb" THEN DuckAccepts ELSE ArrowAccepts
    BY <2>1, <2>2, <2>3 DEF EngineOK, DuckOK, ArrowOK
  <2>5. IF Engine[f] = "duckdb" THEN ~DuckAccepts ELSE ~ArrowAccepts
    BY <2>1, <2>2, <2>3 DEF EngineOK, DuckOK, ArrowOK
  <2> QED BY <2>2, <2>3, <2>4, <2>5, VerdictsDiffer
<1> QED BY <1>1, Invariant, PTL

-----------------------------------------------------------------------------
(* Sequences and numbers. *)

IsSequence(s) == Len(s) \in Nat /\ s = [i \in 1 .. Len(s) |-> s[i]]

LEMMA SequenceOf ==
  ASSUME NEW S, NEW s \in Seq(S)
  PROVE  IsSequence(s)
BY DEF IsSequence

LEMMA FunctionIs ==
  ASSUME NEW n \in Nat, NEW s, s = [i \in 1 .. n |-> s[i]]
  PROVE  IsSequence(s) /\ Len(s) = n
<1> DEFINE S == {s[i] : i \in 1 .. n}
<1>1. \A i \in 1 .. n : s[i] \in S
  OBVIOUS
<1> HIDE DEF S
<1>2. s \in [1 .. n -> S]
  BY <1>1
<1>3. s \in Seq(S) /\ Len(s) = n
  BY <1>2
<1> QED BY <1>3, SequenceOf

LEMMA AppendIs ==
  ASSUME NEW s, IsSequence(s), NEW x
  PROVE  /\ IsSequence(Append(s, x)) /\ Len(Append(s, x)) = Len(s) + 1
         /\ \A i \in 1 .. Len(s) : Append(s, x)[i] = s[i]
         /\ Append(s, x)[Len(s) + 1] = x
<1> DEFINE S == {s[i] : i \in 1 .. Len(s)} \cup {x}
<1>1. s \in Seq(S)
  <2>1. \A i \in 1 .. Len(s) : s[i] \in S
    OBVIOUS
  <2> HIDE DEF S
  <2>2. s \in [1 .. Len(s) -> S]
    BY <2>1 DEF IsSequence
  <2>3. Len(s) \in Nat
    BY DEF IsSequence
  <2> QED BY <2>2, <2>3
<1>2. x \in S
  OBVIOUS
<1> HIDE DEF S
<1>3. Append(s, x) \in Seq(S)
  BY <1>1, <1>2
<1>4. IsSequence(Append(s, x))
  BY <1>3, SequenceOf
<1> QED BY <1>1, <1>2, <1>4

LEMMA SameSequence ==
  ASSUME NEW s, NEW t, IsSequence(s), IsSequence(t), Len(s) = Len(t),
         \A i \in 1 .. Len(s) : s[i] = t[i]
  PROVE  s = t
BY DEF IsSequence

LEMMA EmptySequence ==
  ASSUME NEW s, IsSequence(s)
  PROVE  (s = <<>>) <=> (Len(s) = 0)
BY DEF IsSequence

LEMMA EmptyIs == IsSequence(<<>>) /\ Len(<<>>) = 0
BY DEF IsSequence

\* A set of numbers has a least one: the intervals below its members are finite
\* sets, and among finite sets one is least.
LEMMA LeastNumber ==
  ASSUME NEW T, T \subseteq Nat, T # {}
  PROVE  \E x \in T : \A y \in T : x <= y
<1> DEFINE Intervals == {1 .. n : n \in T}
<1>1. IsWellFoundedOn(StrictSubsetOrdering(Nat), FiniteSubsetsOf(Nat))
  BY FS_StrictSubsetOrderingWellFounded
<1>2. Intervals \subseteq FiniteSubsetsOf(Nat)
  <2> SUFFICES ASSUME NEW n \in T PROVE 1 .. n \in FiniteSubsetsOf(Nat)
    OBVIOUS
  <2>1. IsFiniteSet(1 .. n)
    BY FS_Interval
  <2>2. 1 .. n \in SUBSET Nat
    OBVIOUS
  <2> QED BY <2>1, <2>2 DEF FiniteSubsetsOf
<1>3. Intervals # {}
  OBVIOUS
<1> HIDE DEF Intervals
<1>4. PICK s \in Intervals : \A u \in Intervals : ~(<<u, s>> \in StrictSubsetOrdering(Nat))
  BY <1>1, <1>2, <1>3, WFMin
<1>5. PICK x \in T : s = 1 .. x
  BY <1>4 DEF Intervals
<1>6. ASSUME NEW y \in T, y < x PROVE FALSE
  <2>1. 1 .. y \in Intervals
    BY DEF Intervals
  <2>2. 1 .. y \subseteq 1 .. x /\ x \in 1 .. x /\ x \notin 1 .. y
    BY <1>6
  <2>3. 1 .. y \in SUBSET Nat /\ 1 .. x \in SUBSET Nat /\ 1 .. y # 1 .. x
    BY <2>2
  <2>4. <<1 .. y, 1 .. x>> \in StrictSubsetOrdering(Nat)
    BY <2>2, <2>3 DEF StrictSubsetOrdering
  <2> QED BY <1>4, <1>5, <2>1, <2>4
<1> QED BY <1>5, <1>6

-----------------------------------------------------------------------------
(* The tables that are selected. *)

\* g are those of the first k tables, for k up to n.
Choosing(g, tables, n) ==
  g = [k \in 0 .. n |->
         IF k = 0 THEN <<>>
         ELSE IF Selected(k - 1) THEN Append(g[k - 1], tables[k]) ELSE g[k - 1]]

LEMMA ChoosingGoesOn ==
  ASSUME NEW tables, NEW n \in Nat, NEW g, Choosing(g, tables, n)
  PROVE  \E h : Choosing(h, tables, n + 1)
<1> DEFINE U(k, s) == IF Selected(k - 1) THEN Append(s, tables[k]) ELSE s
           h == [k \in 0 .. n + 1 |-> IF k = n + 1 THEN U(n + 1, g[n]) ELSE g[k]]
<1>1. g = [k \in 0 .. n |-> IF k = 0 THEN <<>> ELSE U(k, g[k - 1])]
  BY Zenon DEF Choosing
<1> SUFFICES h = [k \in 0 .. n + 1 |-> IF k = 0 THEN <<>> ELSE U(k, h[k - 1])]
  BY Zenon DEF Choosing
<1> HIDE DEF U
<1>2. \A k \in 0 .. n : h[k] = g[k]
  OBVIOUS
<1>3. h[n + 1] = U(n + 1, g[n])
  OBVIOUS
<1>4. h = [k \in 0 .. n + 1 |-> h[k]]
  OBVIOUS
<1> HIDE DEF h
<1>5. ASSUME NEW k \in 0 .. n + 1
      PROVE  h[k] = IF k = 0 THEN <<>> ELSE U(k, h[k - 1])
  <2>1. CASE k = n + 1
    <3>1. k # 0 /\ k - 1 = n /\ n \in 0 .. n
      BY <2>1
    <3> QED BY <1>2, <1>3, <2>1, <3>1
  <2>2. CASE k # n + 1
    <3>1. k \in 0 .. n /\ (k # 0 => k - 1 \in 0 .. n)
      BY <2>2
    <3> QED BY <1>1, <1>2, <3>1
  <2> QED BY <2>1, <2>2
<1> QED BY <1>4, <1>5

LEMMA ChoosingExists ==
  ASSUME NEW tables, NEW n \in Nat
  PROVE  \E g : Choosing(g, tables, n)
<1> DEFINE T == { k \in Nat : ~ \E g : Choosing(g, tables, k) }
<1> SUFFICES ASSUME T # {} PROVE FALSE
  OBVIOUS
<1>1. PICK k \in T : \A i \in T : k <= i
  BY LeastNumber
<1>2. CASE k = 0
  <2>1. Choosing([i \in 0 .. 0 |-> <<>>], tables, 0)
    BY DEF Choosing
  <2> QED BY <1>1, <1>2, <2>1
<1>3. CASE k # 0
  <2>1. k - 1 \in Nat /\ (k - 1) + 1 = k /\ k - 1 \notin T
    BY <1>1, <1>3
  <2>2. \E g : Choosing(g, tables, k - 1)
    BY <2>1
  <2>3. \E g : Choosing(g, tables, k)
    BY <2>1, <2>2, ChoosingGoesOn
  <2> QED BY <1>1, <2>3
<1> QED BY <1>2, <1>3

LEMMA ChosenIs ==
  ASSUME NEW tables, Count \in Nat
  PROVE  /\ Chosen(tables)[0] = <<>>
         /\ \A n \in 1 .. Count :
              Chosen(tables)[n] = IF Selected(n - 1) THEN Append(Chosen(tables)[n - 1], tables[n])
                                  ELSE Chosen(tables)[n - 1]
<1> DEFINE U(k, s) == IF Selected(k - 1) THEN Append(s, tables[k]) ELSE s
           Is(g) == g = [k \in 0 .. Count |-> IF k = 0 THEN <<>> ELSE U(k, g[k - 1])]
           chosen == CHOOSE g : Is(g)
<1>1. Chosen(tables) = chosen
  BY Zenon DEF Chosen
<1>2. \E g : Is(g)
  <2>1. \E g : Choosing(g, tables, Count)
    BY ChoosingExists
  <2> QED BY <2>1, Zenon DEF Choosing
<1>3. Is(chosen)
  BY <1>2, Zenon
<1> HIDE DEF chosen
<1>4. chosen = [k \in 0 .. Count |-> IF k = 0 THEN <<>> ELSE U(k, chosen[k - 1])]
  BY <1>3
<1>5. chosen[0] = <<>> /\ \A n \in 1 .. Count : chosen[n] = U(n, chosen[n - 1])
  <2> HIDE DEF U
  <2>1. \A k \in 0 .. Count : chosen[k] = IF k = 0 THEN <<>> ELSE U(k, chosen[k - 1])
    BY <1>4
  <2>2. 0 \in 0 .. Count /\ \A n \in 1 .. Count : n \in 0 .. Count /\ n # 0
    OBVIOUS
  <2> QED BY <2>1, <2>2
<1> QED BY <1>1, <1>5

\* The indices of the tables that are selected, counted from 1.
Places == Chosen([i \in 1 .. Count |-> i])

\* What is chosen of any tables is what stands in these places.
PlacedAs(tables, n) ==
  LET c == Chosen(tables)[n]
      p == Places[n]
  IN /\ IsSequence(c) /\ IsSequence(p) /\ Len(c) = Len(p) /\ Len(p) <= n
     /\ \A k \in 1 .. Len(p) :
          /\ p[k] \in 1 .. n /\ Selected(p[k] - 1) /\ c[k] = tables[p[k]]
          /\ \A j \in 1 .. k - 1 : p[j] < p[k]
     /\ \A i \in 1 .. n : Selected(i - 1) => Len(p) # 0
     /\ request.selected = None => Len(p) = n /\ \A k \in 1 .. Len(p) : p[k] = k

LEMMA PlacedGoesOn ==
  ASSUME NEW tables, Count \in Nat, NEW n \in 1 .. Count, PlacedAs(tables, n - 1)
  PROVE  PlacedAs(tables, n)
<1> DEFINE c == Chosen(tables)[n - 1]
           p == Places[n - 1]
           d == Chosen(tables)[n]
           q == Places[n]
<1>1. /\ d = IF Selected(n - 1) THEN Append(c, tables[n]) ELSE c
      /\ q = IF Selected(n - 1) THEN Append(p, n) ELSE p
  <2>1. [i \in 1 .. Count |-> i][n] = n
    OBVIOUS
  <2> DEFINE whole == [i \in 1 .. Count |-> i]
  <2> HIDE DEF whole
  <2>2. Places = Chosen(whole) /\ whole[n] = n
    BY <2>1 DEF Places, whole
  <2> QED BY <2>2, ChosenIs
<1>2. /\ IsSequence(c) /\ IsSequence(p) /\ Len(c) = Len(p) /\ Len(p) \in Nat /\ Len(p) <= n - 1
      /\ \A k \in 1 .. Len(p) :
           /\ p[k] \in 1 .. n - 1 /\ Selected(p[k] - 1) /\ c[k] = tables[p[k]]
           /\ \A j \in 1 .. k - 1 : p[j] < p[k]
      /\ \A i \in 1 .. n - 1 : Selected(i - 1) => Len(p) # 0
      /\ request.selected = None => Len(p) = n - 1 /\ \A k \in 1 .. Len(p) : p[k] = k
  BY DEF PlacedAs, IsSequence
<1> SUFFICES
      /\ IsSequence(d) /\ IsSequence(q) /\ Len(d) = Len(q) /\ Len(q) <= n
      /\ \A k \in 1 .. Len(q) :
           /\ q[k] \in 1 .. n /\ Selected(q[k] - 1) /\ d[k] = tables[q[k]]
           /\ \A j \in 1 .. k - 1 : q[j] < q[k]
      /\ \A i \in 1 .. n : Selected(i - 1) => Len(q) # 0
      /\ request.selected = None => Len(q) = n /\ \A k \in 1 .. Len(q) : q[k] = k
  BY Zenon DEF PlacedAs
<1> HIDE DEF c, p, d, q
<1>3. CASE ~Selected(n - 1)
  <2>1. d = c /\ q = p /\ request.selected # None
    BY <1>1, <1>3 DEF Selected
  <2>2. \A k \in 1 .. Len(p) : p[k] \in 1 .. n
    BY <1>2
  <2>3. \A i \in 1 .. n : Selected(i - 1) => i \in 1 .. n - 1
    BY <1>3
  <2>4. Len(p) <= n
    BY <1>2
  <2> HIDE DEF c, p, d, q
  <2> QED BY <1>2, <2>1, <2>2, <2>3, <2>4
<1>4. CASE Selected(n - 1)
  <2>1. d = Append(c, tables[n]) /\ q = Append(p, n)
    BY <1>1, <1>4
  <2>2. /\ IsSequence(d) /\ Len(d) = Len(p) + 1 /\ d[Len(p) + 1] = tables[n]
        /\ \A k \in 1 .. Len(p) : d[k] = c[k]
    BY <1>2, <2>1, AppendIs
  <2>3. /\ IsSequence(q) /\ Len(q) = Len(p) + 1 /\ q[Len(p) + 1] = n
        /\ \A k \in 1 .. Len(p) : q[k] = p[k]
    BY <1>2, <2>1, AppendIs
  <2>4. ASSUME NEW k \in 1 .. Len(q)
        PROVE  /\ q[k] \in 1 .. n /\ Selected(q[k] - 1) /\ d[k] = tables[q[k]]
               /\ \A j \in 1 .. k - 1 : q[j] < q[k]
    <3>1. CASE k = Len(p) + 1
      <4>1. \A j \in 1 .. k - 1 : j \in 1 .. Len(p) /\ p[j] < n
        BY <1>2, <3>1
      <4> QED BY <1>2, <1>4, <2>2, <2>3, <3>1, <4>1
    <3>2. CASE k # Len(p) + 1
      <4>1. k \in 1 .. Len(p) /\ \A j \in 1 .. k - 1 : j \in 1 .. Len(p)
        BY <1>2, <2>3, <3>2
      <4> QED BY <1>2, <2>2, <2>3, <4>1
    <3> QED BY <3>1, <3>2
  <2>5. request.selected = None => Len(q) = n /\ \A k \in 1 .. Len(q) : q[k] = k
    BY <1>2, <2>3
  <2> QED BY <1>2, <2>2, <2>3, <2>4, <2>5
<1> QED BY <1>3, <1>4

LEMMA ChosenArePlaced ==
  ASSUME NEW tables, Count \in Nat, NEW n \in 0 .. Count
  PROVE  PlacedAs(tables, n)
<1> DEFINE T == { k \in 0 .. Count : ~ PlacedAs(tables, k) }
<1> SUFFICES ASSUME T # {} PROVE FALSE
  OBVIOUS
<1>1. PICK k \in T : \A i \in T : k <= i
  <2>1. T \subseteq Nat
    OBVIOUS
  <2> HIDE DEF T
  <2> QED BY <2>1, LeastNumber
<1>2. CASE k = 0
  <2>1. Chosen(tables)[0] = <<>> /\ Places[0] = <<>>
    BY ChosenIs DEF Places
  <2>2. PlacedAs(tables, 0)
    BY <2>1, EmptyIs DEF PlacedAs
  <2> QED BY <1>1, <1>2, <2>2
<1>3. CASE k # 0
  <2>1. k \in 1 .. Count /\ k - 1 \in 0 .. Count /\ k - 1 \notin T
    BY <1>1, <1>3
  <2>2. PlacedAs(tables, k)
    BY <2>1, PlacedGoesOn
  <2> QED BY <1>1, <2>2
<1> QED BY <1>2, <1>3

-----------------------------------------------------------------------------
(* Names. *)

\* d are the names of the first n tables.
Naming(d, n) == d = [i \in 1 .. n |-> NameOf(i - 1, {d[j] : j \in 1 .. i - 1})]

LEMMA NamingGoesOn ==
  ASSUME NEW n \in Nat, NEW d, Naming(d, n)
  PROVE  \E h : Naming(h, n + 1)
<1> DEFINE U(i, used) == NameOf(i - 1, used)
           h == [i \in 1 .. n + 1 |-> IF i = n + 1 THEN U(i, {d[j] : j \in 1 .. n}) ELSE d[i]]
<1>1. d = [i \in 1 .. n |-> U(i, {d[j] : j \in 1 .. i - 1})]
  BY Zenon DEF Naming
<1> SUFFICES h = [i \in 1 .. n + 1 |-> U(i, {h[j] : j \in 1 .. i - 1})]
  BY Zenon DEF Naming
<1> HIDE DEF U
<1>2. \A i \in 1 .. n : h[i] = d[i]
  OBVIOUS
<1>3. h[n + 1] = U(n + 1, {d[j] : j \in 1 .. n})
  OBVIOUS
<1>4. h = [i \in 1 .. n + 1 |-> h[i]]
  OBVIOUS
<1> HIDE DEF h
<1>5. ASSUME NEW i \in 1 .. n + 1
      PROVE  h[i] = U(i, {h[j] : j \in 1 .. i - 1})
  <2>1. {h[j] : j \in 1 .. i - 1} = {d[j] : j \in 1 .. i - 1}
    <3>1. \A j \in 1 .. i - 1 : h[j] = d[j]
      BY <1>2
    <3> QED BY <3>1
  <2>2. CASE i = n + 1
    <3>1. 1 .. i - 1 = 1 .. n
      BY <2>2
    <3> QED BY <1>3, <2>1, <2>2, <3>1
  <2>3. CASE i # n + 1
    <3>1. i \in 1 .. n
      BY <2>3
    <3>2. d[i] = U(i, {d[j] : j \in 1 .. i - 1})
      BY <1>1, <3>1
    <3> QED BY <1>2, <2>1, <3>1, <3>2
  <2> QED BY <2>2, <2>3
<1> QED BY <1>4, <1>5

LEMMA NamingExists ==
  ASSUME NEW n \in Nat
  PROVE  \E d : Naming(d, n)
<1> DEFINE T == { k \in Nat : ~ \E d : Naming(d, k) }
<1> SUFFICES ASSUME T # {} PROVE FALSE
  OBVIOUS
<1>1. PICK k \in T : \A i \in T : k <= i
  BY LeastNumber
<1>2. CASE k = 0
  <2>1. Naming([i \in 1 .. 0 |-> <<>>], 0)
    BY DEF Naming
  <2> QED BY <1>1, <1>2, <2>1
<1>3. CASE k # 0
  <2>1. k - 1 \in Nat /\ (k - 1) + 1 = k /\ k - 1 \notin T
    BY <1>1, <1>3
  <2>2. \E d : Naming(d, k - 1)
    BY <2>1
  <2>3. \E d : Naming(d, k)
    BY <2>1, <2>2, NamingGoesOn
  <2> QED BY <1>1, <2>3
<1> QED BY <1>2, <1>3

LEMMA NamesAre ==
  ASSUME Count \in Nat, NEW i \in 1 .. Count
  PROVE  _root_to_arrow[i] = NameOf(i - 1, {_root_to_arrow[j] : j \in 1 .. i - 1})
<1> DEFINE Is(d) == d = [k \in 1 .. Count |-> NameOf(k - 1, {d[j] : j \in 1 .. k - 1})]
           name == CHOOSE d : Is(d)
<1>1. _root_to_arrow = name
  BY Zenon DEF _root_to_arrow
<1>2. \E d : Is(d)
  <2>1. \E d : Naming(d, Count)
    BY NamingExists
  <2> QED BY <2>1, Zenon DEF Naming
<1>3. Is(name)
  BY <1>2, Zenon
<1> HIDE DEF name
<1>4. name[i] = NameOf(i - 1, {name[j] : j \in 1 .. i - 1})
  BY <1>3, Zenon
<1> QED BY <1>1, <1>4

\* _unique_name finds a name that is not in use: there are more numbers to try
\* than names in use.
LEMMA UniqueNameIsNew ==
  ASSUME NEW name, IsSequence(name), NEW used, IsFiniteSet(used)
  PROVE  _unique_name(name, used) \notin used
<1> DEFINE c == Cardinality(used)
           K == 2 .. c + 2
           T == {k \in K : Append(name, k) \notin used}
<1>1. c \in Nat
  BY FS_CardinalityType
<1>2. CASE name \notin used
  BY <1>2 DEF _unique_name
<1>3. CASE name \in used
  <2>1. ASSUME T = {} PROVE FALSE
    <3> DEFINE f == [k \in K |-> Append(name, k)]
    <3>1. f \in [K -> used]
      BY <2>1
    <3>2. IsFiniteSet(K) /\ Cardinality(K) = c + 1
      <4>1. IsFiniteSet(K) /\ Cardinality(K) = IF 2 > c + 2 THEN 0 ELSE (c + 2) - 2 + 1
        <5>1. 2 \in Int /\ c + 2 \in Int
          BY <1>1
        <5> QED BY <5>1, FS_Interval, Zenon
      <4> QED BY <1>1, <4>1
    <3>3. \E x, y \in K : x # y /\ f[x] = f[y]
      <4>1. c < Cardinality(K)
        BY <1>1, <3>2
      <4> HIDE DEF f, K
      <4> QED BY <3>1, <3>2, <4>1, FS_PigeonHole
    <3>4. PICK x \in K, y \in K : x # y /\ Append(name, x) = Append(name, y)
      BY <3>3
    <3>5. Append(name, x)[Len(name) + 1] = x /\ Append(name, y)[Len(name) + 1] = y
      BY AppendIs
    <3> QED BY <3>4, <3>5
  <2>2. T \subseteq Nat
    BY <1>1
  <2>3. PICK k \in T : \A i \in T : k <= i
    BY <2>1, <2>2, LeastNumber
  <2>4. \A i \in 2 .. k - 1 : Append(name, i) \in used
    BY <1>1, <2>3
  <2>5. \E m \in K : Append(name, m) \notin used /\ \A i \in 2 .. m - 1 : Append(name, i) \in used
    BY <2>3, <2>4
  <2>6. _unique_name(name, used) =
          Append(name, CHOOSE m \in K :
                         Append(name, m) \notin used /\ \A i \in 2 .. m - 1 : Append(name, i) \in used)
    BY <1>3, Zenon DEF _unique_name
  <2> QED BY <2>5, <2>6, Zenon
<1> QED BY <1>2, <1>3

LEMMA NameIsNew ==
  ASSUME World, NEW i \in 1 .. Count, NEW used, IsFiniteSet(used)
  PROVE  NameOf(i - 1, used) \notin used
<1> DEFINE raw  == root.children[(i - 1) + 1].name
           name == _safe_name(raw, i - 1)
<1>1. raw \in DOMAIN SafeNames
  <2>1. root.children \in Seq(Child) /\ i \in 1 .. Len(root.children) /\ (i - 1) + 1 = i
    BY RootIs
  <2>2. root.children[i] \in Child
    BY <2>1
  <2> QED BY <2>1, <2>2 DEF Child
<1>2. IsSequence(name)
  <2>1. CASE SafeNames[raw] = <<>>
    <3>1. name = <<"table", (i - 1) + 1>>
      BY <2>1 DEF _safe_name
    <3> QED BY <3>1 DEF IsSequence
  <2>2. CASE SafeNames[raw] # <<>>
    <3>1. name = SafeNames[raw]
      BY <2>2 DEF _safe_name
    <3>2. SafeNames[raw] = [k \in 1 .. Len(SafeNames[raw]) |-> SafeNames[raw][k]] /\ Len(SafeNames[raw]) \in Nat
      BY <1>1, ExportAssumption
    <3> QED BY <3>1, <3>2 DEF IsSequence
  <2> QED BY <2>1, <2>2
<1>3. NameOf(i - 1, used) = _unique_name(name, used)
  BY DEF NameOf
<1> HIDE DEF name
<1> QED BY <1>2, <1>3, UniqueNameIsNew

LEMMA FiniteImage ==
  ASSUME NEW n \in Nat, NEW f
  PROVE  IsFiniteSet({f[j] : j \in 1 .. n})
<1> DEFINE S == {f[j] : j \in 1 .. n}
           g == [j \in 1 .. n |-> f[j]]
<1>1. IsFiniteSet(1 .. n)
  BY FS_Interval
<1>2. g \in Surjection(1 .. n, S)
  BY Fun_IsSurj
<1> HIDE DEF g, S
<1>3. IsFiniteSet(S)
  BY <1>1, <1>2, FS_Surjection
<1> QED BY <1>3 DEF S

\* No two tables of the file have one name.
LEMMA NamesApart ==
  ASSUME World, NEW i \in 1 .. Count, NEW j \in 1 .. Count, j < i
  PROVE  _root_to_arrow[j] # _root_to_arrow[i]
<1> DEFINE used == {_root_to_arrow[k] : k \in 1 .. i - 1}
<1>1. Count \in Nat /\ i - 1 \in Nat
  BY RootIs
<1>2. IsFiniteSet(used)
  BY <1>1, FiniteImage
<1>3. _root_to_arrow[j] \in used
  BY <1>1
<1>4. _root_to_arrow[i] = NameOf(i - 1, used)
  BY <1>1, NamesAre
<1> HIDE DEF used
<1> QED BY <1>2, <1>3, <1>4, NameIsNew

-----------------------------------------------------------------------------
(* The batches: their columns, one after the other, and their bytes. *)

\* g are the first batches of s, flattened, for each number of them up to n.
Flattening(g, s, n) == g = [i \in 1 .. n |-> IF i = 1 THEN s[i] ELSE g[i - 1] \o s[i]]

LEMMA FlatteningGoesOn ==
  ASSUME NEW s, NEW n \in Nat, NEW g, Flattening(g, s, n)
  PROVE  \E h : Flattening(h, s, n + 1)
<1> DEFINE U(i, x) == IF i = 1 THEN s[i] ELSE x \o s[i]
           h == [i \in 1 .. n + 1 |-> IF i = n + 1 THEN U(i, g[n]) ELSE g[i]]
<1>1. g = [i \in 1 .. n |-> U(i, g[i - 1])]
  BY Zenon DEF Flattening
<1> SUFFICES h = [i \in 1 .. n + 1 |-> U(i, h[i - 1])]
  BY Zenon DEF Flattening
<1>2. \A x, y : U(1, x) = U(1, y)
  OBVIOUS
<1> HIDE DEF U
<1>3. \A i \in 1 .. n : h[i] = g[i]
  OBVIOUS
<1>4. h[n + 1] = U(n + 1, g[n])
  OBVIOUS
<1>5. h = [i \in 1 .. n + 1 |-> h[i]]
  OBVIOUS
<1> HIDE DEF h
<1>6. ASSUME NEW i \in 1 .. n + 1
      PROVE  h[i] = U(i, h[i - 1])
  <2>1. CASE i = 1
    <3>1. CASE n = 0
      BY <1>2, <1>4, <2>1, <3>1
    <3>2. CASE n # 0
      <4>1. 1 \in 1 .. n
        BY <3>2
      <4> QED BY <1>1, <1>2, <1>3, <2>1, <4>1
    <3> QED BY <3>1, <3>2
  <2>2. CASE i # 1
    <3>1. i - 1 \in 1 .. n /\ h[i - 1] = g[i - 1]
      BY <1>3, <2>2
    <3>2. CASE i = n + 1
      <4>1. i - 1 = n
        BY <3>2
      <4> QED BY <1>4, <3>1, <3>2, <4>1
    <3>3. CASE i # n + 1
      <4>1. i \in 1 .. n
        BY <3>3
      <4>2. g[i] = U(i, g[i - 1])
        BY <1>1, <4>1
      <4> QED BY <1>3, <3>1, <4>1, <4>2
    <3> QED BY <3>2, <3>3
  <2> QED BY <2>1, <2>2
<1> QED BY <1>5, <1>6

LEMMA FlatteningExists ==
  ASSUME NEW s, NEW n \in Nat
  PROVE  \E g : Flattening(g, s, n)
<1> DEFINE T == { k \in Nat : ~ \E g : Flattening(g, s, k) }
<1> SUFFICES ASSUME T # {} PROVE FALSE
  OBVIOUS
<1>1. PICK k \in T : \A i \in T : k <= i
  BY LeastNumber
<1>2. CASE k = 0
  <2>1. Flattening([i \in 1 .. 0 |-> <<>>], s, 0)
    BY DEF Flattening
  <2> QED BY <1>1, <1>2, <2>1
<1>3. CASE k # 0
  <2>1. k - 1 \in Nat /\ (k - 1) + 1 = k /\ k - 1 \notin T
    BY <1>1, <1>3
  <2>2. \E g : Flattening(g, s, k - 1)
    BY <2>1
  <2>3. \E g : Flattening(g, s, k)
    BY <2>1, <2>2, FlatteningGoesOn
  <2> QED BY <1>1, <2>3
<1> QED BY <1>2, <1>3

LEMMA FlattenIs ==
  ASSUME NEW s, IsSequence(s), Len(s) # 0
  PROVE  \E g : Flattening(g, s, Len(s)) /\ FlattenSeq(s) = g[Len(s)]
<1> DEFINE Is(g) == g = [i \in 1 .. Len(s) |-> IF i = 1 THEN s[i] ELSE g[i - 1] \o s[i]]
           flatten == CHOOSE g : Is(g)
<1>1. FlattenSeq(s) = flatten[Len(s)]
  BY Zenon DEF FlattenSeq
<1>2. \E g : Is(g)
  <2>1. \E g : Flattening(g, s, Len(s))
    BY FlatteningExists DEF IsSequence
  <2> QED BY <2>1, Zenon DEF Flattening
<1>3. Is(flatten)
  BY <1>2, Zenon
<1>4. Flattening(flatten, s, Len(s))
  BY <1>3, Zenon DEF Flattening
<1> QED BY <1>1, <1>4

\* What follows behind the first n batches does not change what these are.
LEMMA FlatteningsAgree ==
  ASSUME NEW s, NEW t, NEW n \in Nat, NEW m \in Nat, n <= m,
         \A i \in 1 .. n : s[i] = t[i],
         NEW g, Flattening(g, s, n), NEW h, Flattening(h, t, m)
  PROVE  \A i \in 1 .. n : g[i] = h[i]
<1> DEFINE T == { i \in 1 .. n : g[i] # h[i] }
<1> SUFFICES ASSUME T # {} PROVE FALSE
  OBVIOUS
<1>1. PICK k \in T : \A i \in T : k <= i
  <2>1. T \subseteq Nat
    OBVIOUS
  <2> HIDE DEF T
  <2> QED BY <2>1, LeastNumber
<1>2. k \in 1 .. n /\ k \in 1 .. m /\ s[k] = t[k] /\ g[k] # h[k]
  BY <1>1
<1>3. /\ g[k] = IF k = 1 THEN s[k] ELSE g[k - 1] \o s[k]
      /\ h[k] = IF k = 1 THEN t[k] ELSE h[k - 1] \o t[k]
  BY <1>2 DEF Flattening
<1>4. CASE k = 1
  BY <1>2, <1>3, <1>4
<1>5. CASE k # 1
  <2>1. k - 1 \in 1 .. n /\ k - 1 \notin T
    BY <1>1, <1>2, <1>5
  <2>2. g[k - 1] = h[k - 1]
    BY <2>1
  <2> QED BY <1>2, <1>3, <1>5, <2>2
<1> QED BY <1>4, <1>5

LEMMA EmptyInFront ==
  ASSUME NEW b, IsSequence(b)
  PROVE  <<>> \o b = b
<1> DEFINE S == {b[i] : i \in 1 .. Len(b)}
<1>1. \A i \in 1 .. Len(b) : b[i] \in S
  OBVIOUS
<1> HIDE DEF S
<1>2. b \in Seq(S)
  BY <1>1 DEF IsSequence
<1> QED BY <1>2

\* One batch more.
LEMMA FlattenAppend ==
  ASSUME NEW s, IsSequence(s), NEW b, IsSequence(b)
  PROVE  FlattenSeq(Append(s, b)) = FlattenSeq(s) \o b
<1> DEFINE t == Append(s, b)
           n == Len(s)
<1>1. /\ IsSequence(t) /\ Len(t) = n + 1 /\ n \in Nat /\ t[n + 1] = b
      /\ \A i \in 1 .. n : s[i] = t[i]
  BY AppendIs DEF IsSequence
<1> HIDE DEF t
<1>2. PICK h : Flattening(h, t, n + 1) /\ FlattenSeq(t) = h[n + 1]
  BY <1>1, FlattenIs
<1>3. h[n + 1] = IF n + 1 = 1 THEN t[n + 1] ELSE h[(n + 1) - 1] \o t[n + 1]
  <2>1. n + 1 \in 1 .. n + 1
    BY <1>1
  <2> QED BY <1>2, <2>1 DEF Flattening
<1>4. CASE n = 0
  <2>1. FlattenSeq(s) = <<>>
    <3>1. s = <<>>
      BY <1>4, EmptySequence
    <3> QED BY <1>4, <3>1 DEF FlattenSeq
  <2>2. FlattenSeq(t) = b
    BY <1>1, <1>2, <1>3, <1>4
  <2> QED BY <2>1, <2>2, EmptyInFront DEF t
<1>5. CASE n # 0
  <2>1. PICK g : Flattening(g, s, n) /\ FlattenSeq(s) = g[n]
    BY <1>5, FlattenIs
  <2>2. n \in 1 .. n /\ n + 1 \in Nat /\ n <= n + 1 /\ (n + 1) - 1 = n /\ n + 1 # 1
    BY <1>1, <1>5
  <2>3. \A i \in 1 .. n : g[i] = h[i]
    <3> HIDE DEF n
    <3>1. n \in Nat /\ n + 1 \in Nat /\ n <= n + 1
      BY <1>1, <2>2
    <3>2. \A i \in 1 .. n : s[i] = t[i]
      BY <1>1
    <3>3. Flattening(g, s, n) /\ Flattening(h, t, n + 1)
      BY <1>2, <2>1
    <3> QED BY <3>1, <3>2, <3>3, FlatteningsAgree
  <2>4. g[n] = h[n]
    BY <2>2, <2>3
  <2> QED BY <1>1, <1>2, <1>3, <2>1, <2>2, <2>4 DEF t
<1> QED BY <1>4, <1>5

SizeOf(items, i) == IF i <= Len(items) THEN items[i].bytes ELSE Attributes.bytes

\* g are the bytes of the first columns of b, for each number of them up to n.
Summing(g, items, b, n) ==
  g = [k \in 0 .. n |-> IF k = 0 THEN 0 ELSE g[k - 1] + SizeOf(items, b[k])]

LEMMA SummingGoesOn ==
  ASSUME NEW items, NEW b, NEW n \in Nat, NEW g, Summing(g, items, b, n)
  PROVE  \E h : Summing(h, items, b, n + 1)
<1> DEFINE U(k, x) == x + SizeOf(items, b[k])
           h == [k \in 0 .. n + 1 |-> IF k = n + 1 THEN U(n + 1, g[n]) ELSE g[k]]
<1>1. g = [k \in 0 .. n |-> IF k = 0 THEN 0 ELSE U(k, g[k - 1])]
  BY Zenon DEF Summing
<1> SUFFICES h = [k \in 0 .. n + 1 |-> IF k = 0 THEN 0 ELSE U(k, h[k - 1])]
  BY Zenon DEF Summing
<1> HIDE DEF U
<1>2. \A k \in 0 .. n : h[k] = g[k]
  OBVIOUS
<1>3. h[n + 1] = U(n + 1, g[n])
  OBVIOUS
<1>4. h = [k \in 0 .. n + 1 |-> h[k]]
  OBVIOUS
<1> HIDE DEF h
<1>5. ASSUME NEW k \in 0 .. n + 1
      PROVE  h[k] = IF k = 0 THEN 0 ELSE U(k, h[k - 1])
  <2>1. CASE k = n + 1
    <3>1. k # 0 /\ k - 1 = n /\ n \in 0 .. n
      BY <2>1
    <3> QED BY <1>2, <1>3, <2>1, <3>1
  <2>2. CASE k # n + 1
    <3>1. k \in 0 .. n /\ (k # 0 => k - 1 \in 0 .. n)
      BY <2>2
    <3> QED BY <1>1, <1>2, <3>1
  <2> QED BY <2>1, <2>2
<1> QED BY <1>4, <1>5

LEMMA SummingExists ==
  ASSUME NEW items, NEW b, NEW n \in Nat
  PROVE  \E g : Summing(g, items, b, n)
<1> DEFINE T == { k \in Nat : ~ \E g : Summing(g, items, b, k) }
<1> SUFFICES ASSUME T # {} PROVE FALSE
  OBVIOUS
<1>1. PICK k \in T : \A i \in T : k <= i
  BY LeastNumber
<1>2. CASE k = 0
  <2>1. Summing([i \in 0 .. 0 |-> 0], items, b, 0)
    BY DEF Summing
  <2> QED BY <1>1, <1>2, <2>1
<1>3. CASE k # 0
  <2>1. k - 1 \in Nat /\ (k - 1) + 1 = k /\ k - 1 \notin T
    BY <1>1, <1>3
  <2>2. \E g : Summing(g, items, b, k - 1)
    BY <2>1
  <2>3. \E g : Summing(g, items, b, k)
    BY <2>1, <2>2, SummingGoesOn
  <2> QED BY <1>1, <2>3
<1> QED BY <1>2, <1>3

LEMMA BytesAre ==
  ASSUME NEW items, NEW b, Len(b) \in Nat
  PROVE  \E g : Summing(g, items, b, Len(b)) /\ BytesOf(items, b) = g[Len(b)]
<1> DEFINE Is(g) == g = [k \in 0 .. Len(b) |-> IF k = 0 THEN 0 ELSE g[k - 1] + SizeOf(items, b[k])]
           sum == CHOOSE g : Is(g)
<1>1. BytesOf(items, b) = sum[Len(b)]
  BY Zenon DEF BytesOf, SizeOf
<1>2. \E g : Is(g)
  <2>1. \E g : Summing(g, items, b, Len(b))
    BY SummingExists
  <2> QED BY <2>1, Zenon DEF Summing
<1>3. Is(sum)
  BY <1>2, Zenon
<1>4. Summing(sum, items, b, Len(b))
  BY <1>3, Zenon DEF Summing
<1> QED BY <1>1, <1>4

LEMMA SumsAgree ==
  ASSUME NEW items, NEW b, NEW c, NEW n \in Nat, NEW m \in Nat, n <= m,
         \A i \in 1 .. n : b[i] = c[i],
         NEW g, Summing(g, items, b, n), NEW h, Summing(h, items, c, m)
  PROVE  \A i \in 0 .. n : g[i] = h[i]
<1> DEFINE T == { i \in 0 .. n : g[i] # h[i] }
<1> SUFFICES ASSUME T # {} PROVE FALSE
  OBVIOUS
<1>1. PICK k \in T : \A i \in T : k <= i
  <2>1. T \subseteq Nat
    OBVIOUS
  <2> HIDE DEF T
  <2> QED BY <2>1, LeastNumber
<1>2. k \in 0 .. n /\ k \in 0 .. m /\ g[k] # h[k]
  BY <1>1
<1>3. /\ g[k] = IF k = 0 THEN 0 ELSE g[k - 1] + SizeOf(items, b[k])
      /\ h[k] = IF k = 0 THEN 0 ELSE h[k - 1] + SizeOf(items, c[k])
  BY <1>2 DEF Summing
<1>4. k # 0
  BY <1>2, <1>3
<1>5. k - 1 \in 0 .. n /\ k - 1 \notin T /\ b[k] = c[k]
  BY <1>1, <1>2, <1>4
<1>6. g[k - 1] = h[k - 1]
  BY <1>5
<1> QED BY <1>2, <1>3, <1>4, <1>5, <1>6

\* One column more, and none.
LEMMA BytesAppend ==
  ASSUME NEW items, NEW b, IsSequence(b), NEW i
  PROVE  BytesOf(items, Append(b, i)) = BytesOf(items, b) + SizeOf(items, i)
<1> DEFINE c == Append(b, i)
           n == Len(b)
<1>1. /\ Len(c) = n + 1 /\ n \in Nat /\ c[n + 1] = i /\ \A k \in 1 .. n : b[k] = c[k]
  BY AppendIs DEF IsSequence
<1> HIDE DEF c
<1>2. PICK g : Summing(g, items, b, n) /\ BytesOf(items, b) = g[n]
  BY <1>1, BytesAre
<1>3. PICK h : Summing(h, items, c, n + 1) /\ BytesOf(items, c) = h[n + 1]
  BY <1>1, BytesAre
<1>4. n \in 0 .. n /\ n <= n + 1 /\ n + 1 \in 0 .. n + 1 /\ (n + 1) - 1 = n /\ n + 1 # 0
  BY <1>1
<1>5. \A k \in 0 .. n : g[k] = h[k]
  BY <1>1, <1>2, <1>3, <1>4, SumsAgree
<1>6. h[n + 1] = IF n + 1 = 0 THEN 0 ELSE h[(n + 1) - 1] + SizeOf(items, c[n + 1])
  BY <1>3, <1>4 DEF Summing
<1> QED BY <1>1, <1>2, <1>3, <1>4, <1>5, <1>6 DEF c

LEMMA BytesOfNone ==
  ASSUME NEW items
  PROVE  BytesOf(items, <<>>) = 0
<1>1. Len(<<>>) = 0
  OBVIOUS
<1>2. PICK g : Summing(g, items, <<>>, 0) /\ BytesOf(items, <<>>) = g[0]
  BY <1>1, BytesAre
<1>3. g[0] = 0
  BY <1>2 DEF Summing
<1> QED BY <1>2, <1>3

-----------------------------------------------------------------------------
(* What is written: the second invariant. *)

UpTo(n) == [i \in 1 .. n |-> i]

BatchOK(items, b) ==
  /\ IsSequence(b) /\ Len(b) <= StageMaxColumns
  /\ Len(b) > 1 => BytesOf(items, b) <= StageMaxBytes

\* Every batch is within its bounds, and bytes are those of the last.
BatchesOK(r) ==
  /\ IsSequence(r.staged) /\ \A k \in 1 .. Len(r.staged) : BatchOK(ItemsFor(r), r.staged[k])
  /\ BatchOK(ItemsFor(r), r.batch)
  /\ r.pc = "columns" => r.bytes \in Nat /\ r.bytes = BytesOf(ItemsFor(r), r.batch)

\* The batches hold every column that was taken, once and in order, unless
\* R's NULL stood in front.
ColumnsOK(r) ==
  /\ r.pc = "columns" /\ (r.single => r.held) =>
       IsSequence(FlattenSeq(r.staged)) /\ FlattenSeq(r.staged) \o r.batch = UpTo(r.col)
  /\ r.pc = "copy" => FlattenSeq(r.staged) = All(ItemsFor(r))
  /\ r.pc = "replace" => r.temporary = Table(r.table, All(ItemsFor(r)))

\* DuckDB has completed those of the tables read so far that are asked for.
DuckContent(r) ==
  /\ r.pc \in {"start", "made", "first"} =>
       r.pending = <<>> /\ r.staged = <<>> /\ r.batch = <<>> /\ r.bytes = 0
  /\ r.pc = "table" \/ (r.pc \in InTable /\ ~r.single) => r.pending = Chosen(Whole)[r.table]
  /\ r.pc \in InTable /\ r.single => r.pending = <<>> /\ r.table = 0
  /\ r.pc \in {"columns", "copy"} => BatchesOK(r)
  /\ ColumnsOK(r)

\* PyArrow has completed the first of those asked for.
ArrowContent(r) ==
  /\ r.pc = "start" => r.pending = <<>>
  /\ r.pc \in {"made", "write", "rename"} => r.todo = AllTables /\ r.single = root.class
  /\ r.pc \in {"made", "write"} =>
       /\ IsSequence(r.pending) /\ Len(r.pending) < Len(AskedFor)
       /\ \A k \in 1 .. Len(r.pending) : r.pending[k] = AskedFor[k]

\* What is in place are the first of the tables asked for, in files of their own.
ResultsOK(e, results) ==
  /\ IsSequence(results) /\ Len(results) <= Len(AskedFor)
  /\ \A i \in 1 .. Len(results) :
       LET x == results[i]
       IN /\ x = IF root.class THEN Data(AskedFor[i]) ELSE Result(x.name, x.name, AskedFor[i])
          /\ ~root.class /\ (Engine[e] = "pyarrow" \/ request.selected = None) =>
               x.name = _root_to_arrow[Places[Count][i]]
          /\ \A j \in 1 .. i - 1 : results[j].file # x.file

OutputOK(e, r) ==
  /\ r.pc \in Working \ {"rename"} \/ Refused(r) => r.results = <<>>
  /\ r.pc = "rename" => r.pending = AskedFor
  /\ Accepted(r) => r.single = root.class
  /\ Accepted(r) /\ r.pc # "rename" =>
       Len(r.results) = Len(AskedFor) /\ r.pending \in {<<>>, AskedFor}
  /\ ResultsOK(e, r.results)

ContentOK(e, r) ==
  /\ Engine[e] = "duckdb" => DuckContent(r)
  /\ Engine[e] = "pyarrow" => ArrowContent(r)
  /\ OutputOK(e, r)

CInv == \A e \in Exporters : ContentOK(e, run[e])

-----------------------------------------------------------------------------
(* The tables asked for, and PyArrow's list of them. *)

LEMMA ChosenWhole ==
  ASSUME World, NEW n \in 0 .. Count
  PROVE  /\ IsSequence(Chosen(Whole)[n]) /\ IsSequence(Places[n])
         /\ Len(Chosen(Whole)[n]) = Len(Places[n])
         /\ \A k \in 1 .. Len(Places[n]) : Chosen(Whole)[n][k] = Whole[Places[n][k]]
<1>1. Count \in Nat
  BY RootIs
<1>2. PlacedAs(Whole, n)
  BY <1>1, ChosenArePlaced
<1> QED BY <1>2 DEF PlacedAs

LEMMA AskedIs ==
  ASSUME World
  PROVE  /\ IsSequence(AskedFor)
         /\ root.class => Len(AskedFor) = 1
         /\ ~root.class =>
              /\ Len(AskedFor) = Len(Places[Count])
              /\ \A k \in 1 .. Len(AskedFor) :
                   /\ Places[Count][k] \in 1 .. Count
                   /\ AskedFor[k] = Whole[Places[Count][k]]
                   /\ AskedFor[k].table = Places[Count][k] - 1
                   /\ \A j \in 1 .. k - 1 : Places[Count][j] < Places[Count][k]
                   /\ request.selected = None => Places[Count][k] = k
<1>1. Count \in Nat /\ Count \in 0 .. Count
  BY RootIs
<1>2. CASE root.class
  <2> DEFINE t == Table(0, All(root.children))
  <2>1. AskedFor = <<t>>
    BY <1>2 DEF AskedFor
  <2> HIDE DEF t
  <2>2. IsSequence(<<t>>) /\ Len(<<t>>) = 1
    BY DEF IsSequence
  <2> QED BY <1>2, <2>1, <2>2
<1>3. CASE ~root.class
  <2> DEFINE a == AskedFor
             p == Places[Count]
  <2>1. a = Chosen(Whole)[Count]
    BY <1>3 DEF AskedFor
  <2>2. IsSequence(a) /\ IsSequence(p) /\ Len(a) = Len(p)
    BY <1>1, <2>1, ChosenWhole
  <2>3. PlacedAs(Whole, Count)
    BY <1>1, ChosenArePlaced
  <2>4. \A k \in 1 .. Len(p) :
          /\ p[k] \in 1 .. Count /\ a[k] = Whole[p[k]]
          /\ \A j \in 1 .. k - 1 : p[j] < p[k]
          /\ request.selected = None => p[k] = k
    BY <2>1, <2>3 DEF PlacedAs
  <2>5. \A i \in 1 .. Count : Whole[i].table = i - 1
    BY DEF Whole, Table
  <2> HIDE DEF a, p
  <2>6. \A k \in 1 .. Len(p) : a[k].table = p[k] - 1
    BY <2>4, <2>5
  <2>7. \A k \in 1 .. Len(a) : k \in 1 .. Len(p)
    BY <2>2
  <2> QED BY <1>3, <2>2, <2>4, <2>6, <2>7 DEF a, p
<1> QED BY <1>2, <1>3

LEMMA AllTablesAre ==
  ASSUME World
  PROVE  /\ IsSequence(AllTables) /\ Len(AllTables) = Len(AskedFor)
         /\ \A k \in 1 .. Len(AskedFor) :
              AllTables[k] = IF root.class THEN Data(AskedFor[k])
                             ELSE Result(_root_to_arrow[Places[Count][k]],
                                         _root_to_arrow[Places[Count][k]], AskedFor[k])
<1>1. Count \in Nat /\ Count \in 0 .. Count
  BY RootIs
<1>2. CASE root.class
  <2> DEFINE t == Table(0, All(root.children))
             d == Data(t)
  <2>1. AskedFor = <<t>> /\ AllTables = <<d>>
    BY <1>2 DEF AskedFor, AllTables
  <2> HIDE DEF t, d
  <2>2. IsSequence(<<d>>) /\ Len(<<d>>) = 1 /\ Len(<<t>>) = 1 /\ <<d>>[1] = d /\ <<t>>[1] = t
    BY DEF IsSequence
  <2>3. \A k \in 1 .. 1 : k = 1
    OBVIOUS
  <2> QED BY <1>2, <2>1, <2>2, <2>3 DEF d
<1>3. CASE ~root.class
  <2> DEFINE tables == [i \in 1 .. Count |-> Result(_root_to_arrow[i], _root_to_arrow[i], Whole[i])]
             a == AllTables
             p == Places[Count]
  <2>1. \A i \in 1 .. Count : tables[i] = Result(_root_to_arrow[i], _root_to_arrow[i], Whole[i])
    OBVIOUS
  <2>2. a = Chosen(tables)[Count]
    BY <1>3 DEF AllTables
  <2> HIDE DEF tables
  <2>3. PlacedAs(tables, Count)
    BY <1>1, ChosenArePlaced
  <2>4. /\ IsSequence(a) /\ Len(a) = Len(p)
        /\ \A k \in 1 .. Len(p) : p[k] \in 1 .. Count /\ a[k] = tables[p[k]]
    BY <2>2, <2>3 DEF PlacedAs
  <2>5. /\ Len(AskedFor) = Len(p) /\ \A k \in 1 .. Len(AskedFor) : AskedFor[k] = Whole[p[k]]
    BY <1>3, AskedIs
  <2> HIDE DEF a, p
  <2>6. \A k \in 1 .. Len(p) : a[k] = Result(_root_to_arrow[p[k]], _root_to_arrow[p[k]], AskedFor[k])
    BY <2>1, <2>4, <2>5
  <2> QED BY <1>3, <2>4, <2>5, <2>6 DEF a, p
<1> QED BY <1>2, <1>3

\* Something is asked for.
LEMMA SomethingAsked ==
  ASSUME World, ArrowAccepts
  PROVE  Len(AskedFor) # 0
<1>1. CASE root.class
  BY <1>1, AskedIs
<1>2. CASE ~root.class
  <2>1. Count \in Nat /\ Count # 0 /\ InRange
    <3>1. root.children # <<>> /\ InRange
      BY <1>2 DEF ArrowAccepts, Convertible
    <3>2. root.children \in Seq(Child) /\ Count = Len(root.children) /\ Count \in Nat
      BY RootIs
    <3> QED BY <3>1, <3>2
  <2>2. \E i \in 1 .. Count : Selected(i - 1)
    <3>1. CASE request.selected = None
      BY <2>1, <3>1 DEF Selected
    <3>2. CASE request.selected # None
      <4>1. request.selected \in Selections
        BY <3>2 DEF World, Requests
      <4>2. PICK t \in request.selected : TRUE
        BY <4>1, ExportAssumption
      <4>3. t \in 0 .. Count - 1
        BY <2>1, <3>2 DEF InRange
      <4>4. t + 1 \in 1 .. Count /\ (t + 1) - 1 = t
        BY <2>1, <4>3
      <4> QED BY <4>2, <4>4 DEF Selected
    <3> QED BY <3>1, <3>2
  <2>3. PlacedAs(Whole, Count)
    BY <2>1, ChosenArePlaced
  <2>4. Len(Places[Count]) # 0
    BY <2>2, <2>3 DEF PlacedAs
  <2> QED BY <1>2, <2>4, AskedIs
<1> QED BY <1>1, <1>2

-----------------------------------------------------------------------------
(* What is done to a call. *)

\* What has been written stays right after a step that changes neither the file
\* nor the request.
LEMMA ContentsKeep ==
  ASSUME UNCHANGED <<root, request>>, \A f \in Exporters : ContentOK(f, run'[f])
  PROVE  CInv'
<1>1. root' = root /\ request' = request
  OBVIOUS
<1>2. AskedFor' = AskedFor /\ Chosen(Whole)' = Chosen(Whole)
  BY <1>1 DEF AskedFor, Chosen, Whole, Table, All, Selected, Count
<1>3. AllTables' = AllTables /\ _root_to_arrow' = _root_to_arrow
  BY <1>1 DEF AllTables, Data, Result, _root_to_arrow, NameOf, _unique_name, _safe_name, Chosen,
              Whole, Table, All, Selected, Count
<1>4. Places[Count]' = Places[Count]
  BY <1>1 DEF Places, Chosen, Selected, Count
<1> SUFFICES ASSUME NEW f \in Exporters PROVE ContentOK(f, run[f])'
  BY DEF CInv
<1> DEFINE s == run'[f]
<1>5. ContentOK(f, s)
  OBVIOUS
<1>6. ItemsFor(s) = ItemsFor(run[f])'
  BY <1>1 DEF ItemsFor
<1>7. DuckContent(s) => DuckContent(run[f])'
  BY <1>1, <1>2, <1>6 DEF DuckContent, BatchesOK, BatchOK, ColumnsOK, IsSequence
<1>8. ArrowContent(s) => ArrowContent(run[f])'
  BY <1>1, <1>2, <1>3 DEF ArrowContent
<1>9. OutputOK(f, s) => OutputOK(f, run[f])'
  <2>1. ResultsOK(f, s.results) => ResultsOK(f, run[f].results)'
    BY <1>1, <1>2, <1>3, <1>4 DEF ResultsOK
  <2> QED BY <1>1, <1>2, <2>1 DEF OutputOK, Accepted, Refused
<1> QED BY <1>5, <1>7, <1>8, <1>9 DEF ContentOK

LEMMA DoContent ==
  ASSUME IInv, CInv, NEW e \in Exporters, NEW r, Do(e, r), UNCHANGED <<root, request>>,
         ContentOK(e, r)
  PROVE  CInv'
<1>1. run'[e] = r /\ \A f \in Exporters : f # e => run'[f] = run[f]
  BY DEF IInv, Do
<1>2. \A f \in Exporters : ContentOK(f, run'[f])
  BY <1>1 DEF CInv
<1> QED BY <1>2, ContentsKeep

\* A call that ends keeps what it has put in place.
LEMMA EndContent ==
  ASSUME IInv, CInv, NEW e \in Exporters, NEW r, Do(e, r), UNCHANGED <<root, request>>,
         r.pc \in {"cleanup"} \cup Ended,
         r.results = run[e].results, r.pending = run[e].pending, r.single = run[e].single,
         Refused(r) => Refused(run[e]) \/ run[e].pc \in Working \ {"rename"},
         Accepted(r) => /\ Accepted(run[e])
                        /\ run[e].pc = "rename" => Len(r.results) = Len(r.pending)
  PROVE  CInv'
<1>1. OutputOK(e, run[e])
  BY DEF CInv, ContentOK
<1>2. OutputOK(e, r)
  BY <1>1 DEF OutputOK, Working, Ended
<1>3. DuckContent(r) /\ ArrowContent(r)
  BY DEF DuckContent, ColumnsOK, ArrowContent, InTable, Ended
<1> QED BY <1>2, <1>3, DoContent DEF ContentOK

\* So does one that raises, and a refusal comes before anything is in place.
LEMMA StopContent ==
  ASSUME IInv, CInv, NEW e \in Exporters, NEW why \in {"refused", "limit", "fault", "interrupt"},
         NEW r, Do(e, r), UNCHANGED <<root, request>>, run[e].pc \in Working \cup {"cleanup"},
         why \in {"refused", "limit"} => run[e].pc \in Working \ {"rename"},
         r.pc = Out(run[e].pc), r.why = Reason(run[e].why, why),
         r.results = run[e].results, r.pending = run[e].pending, r.single = run[e].single
  PROVE  CInv'
<1>1. CallOK(run[e])
  BY DEF IInv
<1>2. why # None
  BY ExportAssumption
<1>3. r.why # None /\ r.why \in {run[e].why, why} /\ (run[e].pc \in Working => r.why = why)
  BY <1>1, <1>2 DEF Reason, CallOK
<1>4. r.pc \in {"cleanup"} \cup Ended /\ ~Accepted(r)
  BY <1>3 DEF Ended, Accepted, Out
<1>5. Refused(r) => Refused(run[e]) \/ run[e].pc \in Working \ {"rename"}
  BY <1>3 DEF Refused
<1> QED BY <1>4, <1>5, EndContent

LEMMA RaiseContent ==
  ASSUME IInv, CInv, NEW e \in Exporters, NEW why \in {"refused", "limit", "fault"}, Raise(e, why),
         run[e].pc \in Working \cup {"cleanup"},
         why # "fault" => run[e].pc \in Working \ {"rename"}, UNCHANGED <<root, request>>
  PROVE  CInv'
<1> DEFINE lapses == run[e].lapses \cup Lapse(run[e].pc)
           then   == Out(run[e].pc)
           cause  == Reason(run[e].why, why)
           r == [run[e] EXCEPT !.pc = then, !.why = cause, !.lapses = lapses,
                               !.temporary = IF run[e].pc = "cleanup" THEN @ ELSE None]
<1> HIDE DEF lapses, then, cause
<1>1. CallOK(run[e])
  BY DEF IInv
<1>2. /\ r.pc = then /\ r.why = cause
      /\ r.results = run[e].results /\ r.pending = run[e].pending /\ r.single = run[e].single
  BY <1>1 DEF CallOK, Fields
<1>3. Do(e, r)
  BY DEF Raise, lapses, then, cause
<1> HIDE DEF r
<1> QED BY <1>2, <1>3, StopContent DEF then, cause

LEMMA EscapeContent ==
  ASSUME IInv, CInv, NEW e \in Exporters, NEW why \in {"fault", "interrupt"}, Escape(e, why),
         run[e].pc \in Working \cup {"cleanup"}, UNCHANGED <<root, request>>
  PROVE  CInv'
<1> DEFINE lapses == run[e].lapses \cup Lapse(run[e].pc)
                       \cup IF run[e].pc \in {"copy", "replace"} THEN {"unlink"} ELSE {}
           then   == Out(run[e].pc)
           cause  == Reason(run[e].why, why)
           r      == [run[e] EXCEPT !.pc = then, !.why = cause, !.lapses = lapses]
<1> HIDE DEF lapses, then, cause
<1>1. CallOK(run[e])
  BY DEF IInv
<1>2. /\ r.pc = then /\ r.why = cause
      /\ r.results = run[e].results /\ r.pending = run[e].pending /\ r.single = run[e].single
  BY <1>1 DEF CallOK, Fields
<1>3. Do(e, r)
  BY DEF Escape, lapses, then, cause
<1> HIDE DEF r
<1> QED BY <1>2, <1>3, StopContent DEF then, cause

LEMMA FailureContent ==
  ASSUME IInv, CInv, NEW e \in Exporters, Fault(e) \/ DoubleFault(e) \/ Interrupt(e)
  PROVE  CInv'
<1>1. run[e].pc \in Working \cup {"cleanup"} /\ UNCHANGED <<root, request>>
  BY DEF Fault, DoubleFault, Interrupt, Still, Ended, IInv, CallOK
<1>2. CASE Fault(e)
  BY <1>1, <1>2, RaiseContent DEF Fault
<1>3. CASE DoubleFault(e)
  BY <1>1, <1>3, EscapeContent DEF DoubleFault
<1>4. CASE Interrupt(e)
  BY <1>1, <1>4, EscapeContent DEF Interrupt
<1> QED BY <1>2, <1>3, <1>4

LEMMA CrashContent ==
  ASSUME IInv, CInv, NEW e \in Exporters, Crash(e)
  PROVE  CInv'
<1> DEFINE r == [run[e] EXCEPT !.pc = "dead"]
<1>1. Do(e, r) /\ UNCHANGED <<root, request>> /\ DOMAIN run[e] = Fields
  BY DEF Crash, Still, IInv, CallOK
<1>2. /\ r.pc = "dead" /\ r.why = run[e].why
      /\ r.results = run[e].results /\ r.pending = run[e].pending /\ r.single = run[e].single
  BY <1>1 DEF Fields
<1> HIDE DEF r
<1>3. r.pc \in {"cleanup"} \cup Ended /\ ~Accepted(r) /\ (Refused(r) => Refused(run[e]))
  BY <1>2 DEF Ended, Accepted, Refused
<1> QED BY <1>1, <1>2, <1>3, EndContent

LEMMA CleanupContent ==
  ASSUME IInv, CInv, NEW e \in Exporters, Cleanup(e)
  PROVE  CInv'
<1> PICK removed \in BOOLEAN :
      Do(e, [run[e] EXCEPT !.pc = IF run[e].why = None THEN "done" ELSE "failed",
                           !.stage = ~removed,
                           !.lapses = IF removed THEN @ ELSE @ \cup {"rmtree"},
                           !.temporary = IF run[e].single \/ ~removed THEN @ ELSE None])
  BY Zenon DEF Cleanup
<1> DEFINE stage  == ~removed
           lapses == IF removed THEN run[e].lapses ELSE run[e].lapses \cup {"rmtree"}
           file   == IF run[e].single \/ ~removed THEN run[e].temporary ELSE None
           r == [run[e] EXCEPT !.pc = IF run[e].why = None THEN "done" ELSE "failed",
                               !.stage = stage, !.lapses = lapses, !.temporary = file]
<1>1. /\ run[e].pc = "cleanup" /\ Do(e, r) /\ UNCHANGED <<root, request>> /\ DOMAIN run[e] = Fields
  BY DEF Cleanup, Still, IInv, CallOK
<1> HIDE DEF stage, lapses, file
<1>2. /\ r.pc = (IF run[e].why = None THEN "done" ELSE "failed") /\ r.why = run[e].why
      /\ r.results = run[e].results /\ r.pending = run[e].pending /\ r.single = run[e].single
  BY <1>1 DEF Fields
<1> HIDE DEF r
<1>3. /\ r.pc \in {"cleanup"} \cup Ended /\ (Refused(r) => Refused(run[e]))
      /\ Accepted(r) => Accepted(run[e])
  BY <1>1, <1>2 DEF Ended, Accepted, Refused
<1> QED BY <1>1, <1>2, <1>3, EndContent

LEMMA RenamedContent ==
  ASSUME IInv, CInv, NEW e \in Exporters, Renamed(e)
  PROVE  CInv'
<1> DEFINE r == [run[e] EXCEPT !.pc = "cleanup"]
<1>1. /\ run[e].pc = "rename" /\ Do(e, r) /\ UNCHANGED <<root, request>> /\ CallOK(run[e])
      /\ DOMAIN run[e] = Fields /\ Len(run[e].results) = Len(run[e].pending)
  BY DEF Renamed, Still, IInv, CallOK
<1>2. /\ r.pc = "cleanup" /\ r.why = run[e].why
      /\ r.results = run[e].results /\ r.pending = run[e].pending /\ r.single = run[e].single
  BY <1>1 DEF Fields
<1> HIDE DEF r
<1>3. run[e].why = None /\ ~Refused(r) /\ Accepted(run[e])
  BY <1>1, <1>2, ExportAssumption DEF CallOK, Working, Refused, Accepted
<1> QED BY <1>1, <1>2, <1>3, EndContent DEF Ended

LEMMA ChecksContent ==
  ASSUME IInv, CInv, NEW e \in Exporters, Checks(e)
  PROVE  CInv'
<1>1. /\ run[e].pc = "start" /\ Engine[e] = "duckdb" /\ run[e].why = None
      /\ CallOK(run[e]) /\ UNCHANGED <<root, request>>
  BY DuckIs DEF Checks, Working, Still
<1>2. CASE Raise(e, "refused") \/ Raise(e, "limit")
  BY <1>1, <1>2, RaiseContent DEF Working
<1>3. CASE ~(Raise(e, "refused") \/ Raise(e, "limit"))
  <2> DEFINE r == [run[e] EXCEPT !.pc = "made", !.stage = TRUE]
  <2>1. Do(e, r)
    BY <1>3 DEF Checks
  <2>2. /\ r.pc = "made" /\ r.why = run[e].why /\ r.pending = run[e].pending
        /\ r.staged = run[e].staged /\ r.batch = run[e].batch /\ r.bytes = run[e].bytes
        /\ r.results = run[e].results
    BY <1>1 DEF CallOK, Fields
  <2> HIDE DEF r
  <2>3. DuckContent(run[e]) /\ OutputOK(e, run[e])
    BY <1>1 DEF CInv, ContentOK
  <2>4. DuckContent(r)
    BY <1>1, <2>2, <2>3 DEF DuckContent, ColumnsOK, InTable
  <2>5. OutputOK(e, r)
    BY <1>1, <2>2, <2>3 DEF OutputOK, Accepted, Refused, Working
  <2> QED BY <1>1, <2>1, <2>4, <2>5, DoContent DEF ContentOK
<1> QED BY <1>2, <1>3

\* A step of the engine before anything is put in place.
LEMMA WorkContent ==
  ASSUME IInv, CInv, NEW e \in Exporters, NEW r, Do(e, r), UNCHANGED <<root, request>>,
         run[e].pc \in Working \ {"rename"}, r.pc \in Working \ {"rename"}, r.why = run[e].why,
         r.results = run[e].results,
         Engine[e] = "duckdb" => DuckContent(r), Engine[e] = "pyarrow" => ArrowContent(r)
  PROVE  CInv'
<1>1. OutputOK(e, run[e])
  BY DEF CInv, ContentOK
<1>2. r.results = <<>>
  BY <1>1 DEF OutputOK
<1>3. OutputOK(e, r)
  BY <1>1, <1>2 DEF OutputOK, Accepted, Working
<1> QED BY <1>3, DoContent DEF ContentOK

LEMMA EnterTryContent ==
  ASSUME IInv, CInv, NEW e \in Exporters, EnterTry(e)
  PROVE  CInv'
<1> DEFINE then == IF Engine[e] = "duckdb" THEN "first" ELSE "write"
           r    == [run[e] EXCEPT !.pc = then]
<1> HIDE DEF then
<1>1. /\ run[e].pc = "made" /\ UNCHANGED <<root, request>> /\ Do(e, r) /\ CallOK(run[e])
      /\ Engine[e] = "duckdb" => DuckContent(run[e])
      /\ Engine[e] = "pyarrow" => ArrowContent(run[e])
  BY DEF EnterTry, Still, IInv, CInv, ContentOK, then
<1>2. /\ r.pc = then /\ r.why = run[e].why /\ r.single = run[e].single /\ r.todo = run[e].todo
      /\ r.results = run[e].results /\ r.pending = run[e].pending
      /\ r.staged = run[e].staged /\ r.batch = run[e].batch /\ r.bytes = run[e].bytes
  BY <1>1 DEF CallOK, Fields
<1> HIDE DEF r
<1>3. then \in {"first", "write"}
  BY DEF then
<1>4. Engine[e] = "duckdb" => DuckContent(r)
  BY <1>1, <1>2 DEF DuckContent, ColumnsOK, InTable, then
<1>5. Engine[e] = "pyarrow" => ArrowContent(r)
  <2>1. Engine[e] = "pyarrow" => then = "write"
    BY DEF then
  <2> QED BY <1>1, <1>2, <2>1 DEF ArrowContent
<1> QED BY <1>1, <1>2, <1>3, <1>4, <1>5, WorkContent DEF Working

-----------------------------------------------------------------------------
(* DuckDB's engine: a table is begun, and its columns are taken. *)

LEMMA NothingBatched ==
  ASSUME NEW r, r.pc = "columns", r.staged = <<>>, r.batch = <<>>, r.bytes = 0, r.col = 0
  PROVE  BatchesOK(r) /\ ColumnsOK(r)
<1>1. BytesOf(ItemsFor(r), <<>>) = 0
  BY BytesOfNone
<1>2. IsSequence(<<>>) /\ Len(<<>>) = 0
  BY EmptyIs
<1>3. BatchesOK(r)
  BY <1>1, <1>2, ExportAssumption DEF BatchesOK, BatchOK
<1>4. FlattenSeq(<<>>) = <<>>
  BY <1>2 DEF FlattenSeq
<1>5. <<>> \o <<>> = <<>> /\ UpTo(0) = <<>>
  <2>1. <<>> \o <<>> = <<>>
    BY <1>2, EmptyInFront
  <2>2. IsSequence(UpTo(0)) /\ Len(UpTo(0)) = 0
    BY DEF UpTo, IsSequence
  <2> QED BY <2>1, <2>2, EmptySequence
<1>6. ColumnsOK(r)
  BY <1>2, <1>4, <1>5 DEF ColumnsOK
<1> QED BY <1>3, <1>6

LEMMA FirstContent ==
  ASSUME IInv, CInv, NEW e \in Exporters, First(e)
  PROVE  CInv'
<1>1. /\ run[e].pc = "first" /\ Engine[e] = "duckdb" /\ run[e].why = None
      /\ CallOK(run[e]) /\ World /\ UNCHANGED <<root, request>>
  BY DuckIs DEF First, Working, Still
<1>2. DuckContent(run[e]) /\ DOMAIN run[e] = Fields /\ run[e].table = 0 /\ ~run[e].single /\ run[e].col = 0
  BY <1>1 DEF CInv, ContentOK, CallOK
<1>3. run[e].pending = <<>> /\ run[e].staged = <<>> /\ run[e].batch = <<>> /\ run[e].bytes = 0
  BY <1>1, <1>2 DEF DuckContent
<1>4. CASE Raise(e, "refused") \/ Raise(e, "limit")
  BY <1>1, <1>4, RaiseContent DEF Working
<1>5. CASE Do(e, [run[e] EXCEPT !.pc = "table", !.at = 1])
  <2> DEFINE r == [run[e] EXCEPT !.pc = "table", !.at = 1]
  <2>1. /\ r.pc = "table" /\ r.why = run[e].why /\ r.pending = <<>> /\ r.table = 0
        /\ r.results = run[e].results
    BY <1>2, <1>3 DEF Fields
  <2> HIDE DEF r
  <2>2. Chosen(Whole)[0] = <<>>
    BY <1>1, RootIs, ChosenIs
  <2>3. DuckContent(r)
    BY <2>1, <2>2 DEF DuckContent, ColumnsOK, InTable
  <2> QED BY <1>1, <1>5, <2>1, <2>3, WorkContent DEF Working, r
<1>6. CASE Do(e, [run[e] EXCEPT !.pc = "columns", !.single = TRUE, !.at = 1,
                                !.held = root.children[1].is # "nil"])
  <2> DEFINE held == root.children[1].is # "nil"
             r == [run[e] EXCEPT !.pc = "columns", !.single = TRUE, !.at = 1, !.held = held]
  <2>0. Do(e, r)
    BY <1>6
  <2> HIDE DEF held
  <2>1. /\ r.pc = "columns" /\ r.why = run[e].why /\ r.pending = <<>> /\ r.table = 0
        /\ r.results = run[e].results /\ r.single = TRUE
        /\ r.staged = <<>> /\ r.batch = <<>> /\ r.bytes = 0 /\ r.col = 0
    BY <1>2, <1>3 DEF Fields
  <2> HIDE DEF r
  <2>2. BatchesOK(r) /\ ColumnsOK(r)
    BY <2>1, NothingBatched
  <2>3. DuckContent(r)
    BY <2>1, <2>2 DEF DuckContent, InTable
  <2> QED BY <1>1, <2>0, <2>1, <2>3, WorkContent DEF Working
<1> QED BY <1>4, <1>5, <1>6, Zenon DEF First, AsList

LEMMA TableInTurnContent ==
  ASSUME IInv, CInv, NEW e \in Exporters, TableInTurn(e)
  PROVE  CInv'
<1> DEFINE t == run[e].table
           r == [run[e] EXCEPT !.at = t + 1,
                   !.table = IF Selected(t) THEN @ ELSE t + 1,
                   !.pc = IF Selected(t) THEN "columns" ELSE "table",
                   !.col = 0, !.rows = None, !.batch = <<>>, !.bytes = 0, !.staged = <<>>]
<1>1. /\ run[e].pc = "table" /\ Engine[e] = "duckdb" /\ run[e].why = None
      /\ CallOK(run[e]) /\ DuckOK(run[e]) /\ World /\ UNCHANGED <<root, request>> /\ t < Count
  BY DuckIs DEF TableInTurn, Working, Still
<1>2. /\ DuckContent(run[e]) /\ DOMAIN run[e] = Fields /\ ~run[e].single /\ t \in Nat /\ Count \in Nat
  BY <1>1, RootIs DEF CInv, ContentOK, CallOK, DuckOK, AsListSoFar
<1>3. run[e].pending = Chosen(Whole)[t]
  BY <1>1, <1>2 DEF DuckContent
<1>4. CASE Raise(e, "refused")
  BY <1>1, <1>4, RaiseContent DEF Working
<1>5. CASE ~Raise(e, "refused")
  <2>1. Do(e, r)
    BY <1>5 DEF TableInTurn
  <2>2. /\ r.pc = (IF Selected(t) THEN "columns" ELSE "table")
        /\ r.why = run[e].why /\ r.single = run[e].single
        /\ r.table = (IF Selected(t) THEN t ELSE t + 1)
        /\ r.col = 0 /\ r.batch = <<>> /\ r.bytes = 0 /\ r.staged = <<>>
        /\ r.pending = run[e].pending /\ r.results = run[e].results
    BY <1>2 DEF Fields
  <2> HIDE DEF r
  <2>3. CASE Selected(t)
    <3>1. r.pc = "columns" /\ r.pending = Chosen(Whole)[r.table]
      BY <1>3, <2>2, <2>3
    <3>2. BatchesOK(r) /\ ColumnsOK(r)
      BY <2>2, <3>1, NothingBatched
    <3>3. DuckContent(r)
      BY <1>2, <2>2, <3>1, <3>2 DEF DuckContent, InTable
    <3> QED BY <1>1, <2>1, <2>2, <3>1, <3>3, WorkContent DEF Working
  <2>4. CASE ~Selected(t)
    <3>1. r.pc = "table" /\ r.table = t + 1
      BY <2>2, <2>4
    <3>2. Chosen(Whole)[t + 1] = Chosen(Whole)[t]
      <4>1. t + 1 \in 1 .. Count /\ (t + 1) - 1 = t
        BY <1>1, <1>2
      <4> QED BY <1>2, <2>4, <4>1, ChosenIs
    <3>3. DuckContent(r)
      BY <1>3, <2>2, <3>1, <3>2 DEF DuckContent, ColumnsOK, InTable
    <3> QED BY <1>1, <2>1, <2>2, <3>1, <3>3, WorkContent DEF Working
  <2> QED BY <2>3, <2>4
<1> QED BY <1>4, <1>5

LEMMA ConcatAppend ==
  ASSUME NEW x, IsSequence(x), NEW b, IsSequence(b), NEW i
  PROVE  /\ x \o Append(b, i) = Append(x \o b, i)
         /\ (x \o b) \o <<i>> = Append(x \o b, i)
         /\ IsSequence(x \o b) /\ Len(x \o b) = Len(x) + Len(b)
<1> DEFINE S == {x[k] : k \in 1 .. Len(x)} \cup {b[k] : k \in 1 .. Len(b)} \cup {i}
<1>1. (\A k \in 1 .. Len(x) : x[k] \in S) /\ (\A k \in 1 .. Len(b) : b[k] \in S) /\ i \in S
  OBVIOUS
<1> HIDE DEF S
<1>2. x \in Seq(S) /\ b \in Seq(S)
  BY <1>1 DEF IsSequence
<1>3. x \o Append(b, i) = Append(x \o b, i)
  BY <1>1, <1>2
<1>4. (x \o b) \o <<i>> = Append(x \o b, i)
  BY <1>1, <1>2
<1>5. x \o b \in Seq(S) /\ Len(x \o b) = Len(x) + Len(b)
  BY <1>2
<1> QED BY <1>3, <1>4, <1>5, SequenceOf

LEMMA UpToGrows ==
  ASSUME NEW n \in Nat
  PROVE  Append(UpTo(n), n + 1) = UpTo(n + 1)
<1>1. UpTo(n) \in Seq(Nat) /\ Len(UpTo(n)) = n
  BY DEF UpTo
<1> QED BY <1>1 DEF UpTo

LEMMA OneIs ==
  ASSUME NEW items, NEW i
  PROVE  IsSequence(<<i>>) /\ Len(<<i>>) = 1 /\ BytesOf(items, <<i>>) = 0 + SizeOf(items, i)
<1>1. <<i>> = Append(<<>>, i)
  OBVIOUS
<1>2. IsSequence(<<i>>) /\ Len(<<i>>) = 1
  BY DEF IsSequence
<1> QED BY <1>1, <1>2, EmptyIs, BytesAppend, BytesOfNone

\* A column joins the batch, or begins the next one.
LEMMA BatchedIs ==
  ASSUME NEW c, DOMAIN c = Fields, c.pc = "columns", BatchesOK(c), NEW i, NEW item,
         item.bytes = SizeOf(ItemsFor(c), i), item.bytes \in Nat, NEW r,
         r.pc = "columns", r.staged = Batched(c, i, item).staged,
         r.batch = Batched(c, i, item).batch, r.bytes = Batched(c, i, item).bytes,
         r.single = c.single, r.table = c.table
  PROVE  /\ BatchesOK(r)
         /\ IsSequence(FlattenSeq(c.staged)) =>
              /\ IsSequence(FlattenSeq(r.staged))
              /\ FlattenSeq(r.staged) \o r.batch = Append(FlattenSeq(c.staged) \o c.batch, i)
<1> DEFINE items == ItemsFor(c)
           full  == _batch_is_full(c.batch, c.bytes, item.bytes)
<1>1. ItemsFor(r) = items
  BY DEF ItemsFor
<1>2. /\ IsSequence(c.staged) /\ \A k \in 1 .. Len(c.staged) : BatchOK(items, c.staged[k])
      /\ BatchOK(items, c.batch) /\ IsSequence(c.batch)
      /\ c.bytes \in Nat /\ c.bytes = BytesOf(items, c.batch)
  BY DEF BatchesOK, BatchOK
<1>3. StageMaxColumns \in Nat /\ 1 <= StageMaxColumns /\ StageMaxBytes \in Nat
  BY ExportAssumption
<1> DEFINE x == FlattenSeq(c.staged)
<1>x. ASSUME IsSequence(x)
      PROVE  /\ IsSequence(x \o c.batch)
             /\ (x \o c.batch) \o <<i>> = Append(x \o c.batch, i)
             /\ x \o Append(c.batch, i) = Append(x \o c.batch, i)
  <2> HIDE DEF x
  <2> QED BY <1>2, <1>x, ConcatAppend
<1>s. item.bytes = SizeOf(items, i)
  OBVIOUS
<1> HIDE DEF items
<1>4. CASE full
  <2>1. r.staged = Append(c.staged, c.batch) /\ r.batch = <<i>> /\ r.bytes = item.bytes
    BY <1>4 DEF Batched, Fields
  <2>2. /\ IsSequence(r.staged) /\ Len(r.staged) = Len(c.staged) + 1 /\ Len(c.staged) \in Nat
        /\ \A k \in 1 .. Len(c.staged) : r.staged[k] = c.staged[k]
        /\ r.staged[Len(c.staged) + 1] = c.batch
    BY <1>2, <2>1, AppendIs DEF IsSequence
  <2>3. \A k \in 1 .. Len(r.staged) : BatchOK(items, r.staged[k])
    <3> SUFFICES ASSUME NEW k \in 1 .. Len(r.staged) PROVE BatchOK(items, r.staged[k])
      OBVIOUS
    <3>1. CASE k = Len(c.staged) + 1
      BY <1>2, <2>2, <3>1
    <3>2. CASE k # Len(c.staged) + 1
      <4>1. k \in 1 .. Len(c.staged)
        BY <2>2, <3>2
      <4> QED BY <1>2, <2>2, <4>1
    <3> QED BY <3>1, <3>2
  <2>4. IsSequence(<<i>>) /\ Len(<<i>>) = 1 /\ BytesOf(items, <<i>>) = 0 + SizeOf(items, i)
    BY OneIs
  <2>5. BatchOK(items, r.batch) /\ r.bytes \in Nat /\ r.bytes = BytesOf(items, r.batch)
    BY <1>3, <1>s, <2>1, <2>4 DEF BatchOK
  <2>6. FlattenSeq(r.staged) = FlattenSeq(c.staged) \o c.batch
    BY <1>2, <2>1, FlattenAppend
  <2>7. ASSUME IsSequence(FlattenSeq(c.staged))
        PROVE  /\ IsSequence(FlattenSeq(r.staged))
               /\ FlattenSeq(r.staged) \o r.batch = Append(FlattenSeq(c.staged) \o c.batch, i)
    BY <1>x, <2>1, <2>6, <2>7, Zenon
  <2> QED BY <1>1, <2>2, <2>3, <2>5, <2>7 DEF BatchesOK
<1>5. CASE ~full
  <2>1. r.staged = c.staged /\ r.batch = Append(c.batch, i) /\ r.bytes = c.bytes + item.bytes
    BY <1>5 DEF Batched, Fields
  <2>2. IsSequence(r.batch) /\ Len(r.batch) = Len(c.batch) + 1 /\ Len(c.batch) \in Nat
    BY <1>2, <2>1, AppendIs DEF IsSequence
  <2>3. BytesOf(items, r.batch) = BytesOf(items, c.batch) + SizeOf(items, i)
    BY <1>2, <2>1, BytesAppend
  <2>4. r.bytes \in Nat /\ r.bytes = BytesOf(items, r.batch)
    BY <1>2, <1>s, <2>1, <2>3
  <2>5. c.batch = <<>> \/ (Len(c.batch) < StageMaxColumns /\ c.bytes + item.bytes <= StageMaxBytes)
    BY <1>2, <1>3, <1>5, <2>2 DEF _batch_is_full
  <2>6. BatchOK(items, r.batch)
    <3>1. CASE c.batch = <<>>
      <4>1. Len(r.batch) = 1
        BY <2>2, <3>1, EmptyIs
      <4>2. Len(r.batch) <= StageMaxColumns /\ ~(Len(r.batch) > 1)
        BY <1>3, <4>1
      <4> QED BY <2>2, <4>2 DEF BatchOK
    <3>2. CASE c.batch # <<>>
      BY <1>2, <1>3, <2>1, <2>2, <2>4, <2>5, <3>2 DEF BatchOK
    <3> QED BY <3>1, <3>2
  <2>7. ASSUME IsSequence(FlattenSeq(c.staged))
        PROVE  FlattenSeq(r.staged) \o r.batch = Append(FlattenSeq(c.staged) \o c.batch, i)
    BY <1>x, <2>1, <2>7, Zenon
  <2> QED BY <1>1, <1>2, <2>1, <2>4, <2>6, <2>7 DEF BatchesOK
<1> QED BY <1>4, <1>5

LEMMA SizesAre ==
  ASSUME IInv, NEW e \in Exporters, NEW pc \in InTable, At(e, "duckdb", pc), NEW i \in Nat \ {0}
  PROVE  /\ SizeOf(Items(e), i) \in Nat
         /\ DOMAIN Items(e) = 1 .. Len(Items(e))
<1>1. /\ World /\ Len(Items(e)) \in Nat
      /\ ~run[e].single => run[e].table + 1 \in 1 .. Count
  BY InTableIs
<1>2. /\ root.children \in Seq(Child)
      /\ ~run[e].single => root.children[run[e].table + 1].items \in Seq(Item)
  BY <1>1, RootIs
<1>3. /\ \A k \in 1 .. Len(Items(e)) : Items(e)[k].bytes \in Nat
      /\ DOMAIN Items(e) = 1 .. Len(Items(e))
  <2>1. CASE run[e].single
    <3>1. Items(e) \in Seq(Child)
      BY <1>2, <2>1 DEF Items
    <3>2. \A k \in 1 .. Len(Items(e)) : Items(e)[k] \in Child
      BY <3>1
    <3> QED BY <3>1, <3>2 DEF Child
  <2>2. CASE ~run[e].single
    <3>1. Items(e) \in Seq(Item)
      BY <1>2, <2>2 DEF Items
    <3>2. \A k \in 1 .. Len(Items(e)) : Items(e)[k] \in Item
      BY <3>1
    <3> QED BY <3>1, <3>2 DEF Item
  <2> QED BY <2>1, <2>2
<1>4. Attributes.bytes \in Nat
  BY DEF Attributes
<1> QED BY <1>1, <1>3, <1>4 DEF SizeOf

LEMMA ColumnContent ==
  ASSUME IInv, CInv, NEW e \in Exporters, Column(e)
  PROVE  CInv'
<1> DEFINE c    == run[e]
           i    == NextItem(e)
           item == IF i <= Len(Items(e)) THEN Items(e)[i] ELSE Attributes
           b    == Batched(c, i, item)
           r    == [b EXCEPT !.col = @ + 1, !.rows = item.rows, !.at = IF c.single THEN i ELSE @]
<1>1. At(e, "duckdb", "columns") /\ c.col < Len(Items(e)) /\ UNCHANGED <<root, request>>
  BY DEF Column, Still
<1>2. /\ c.pc = "columns" /\ Engine[e] = "duckdb" /\ c.why = None
      /\ CallOK(c) /\ DuckOK(c) /\ Items(e) = ItemsFor(c) /\ Len(Items(e)) \in Nat
  BY <1>1, InTableIs DEF InTable
<1>3. /\ Taken(c, Items(e)) /\ c.col \in Nat /\ c.at \in Nat /\ c.single \in BOOLEAN
      /\ c.held \in BOOLEAN /\ DOMAIN c = Fields
  BY <1>2 DEF DuckOK, CallOK
<1>4. DuckContent(c) /\ BatchesOK(c) /\ ColumnsOK(c)
  BY <1>2 DEF CInv, ContentOK, DuckContent
<1>5. /\ NilInFront(e) => i = c.at + 1
      /\ ~NilInFront(e) => i = c.col + 1
  <2>1. CASE NilInFront(e)
    BY <2>1 DEF NilInFront, NextItem, ReadAhead
  <2>2. CASE ~NilInFront(e)
    BY <1>3, <2>2 DEF NilInFront, NextItem, ReadAhead, Taken
  <2> QED BY <2>1, <2>2
<1>6. i \in Nat \ {0}
  BY <1>3, <1>5
<1>7. item.bytes = SizeOf(ItemsFor(c), i) /\ item.bytes \in Nat
  <2>1. SizeOf(Items(e), i) \in Nat
    BY <1>1, <1>6, SizesAre DEF InTable
  <2>2. item.bytes = SizeOf(Items(e), i)
    BY DEF SizeOf
  <2> QED BY <1>2, <2>1, <2>2
<1>8. Raise(e, "refused") \/ Do(e, r)
  BY DEF Column
<1> HIDE DEF i, item
<1>9. CASE Raise(e, "refused")
  BY <1>1, <1>2, <1>9, RaiseContent DEF Working
<1>10. CASE Do(e, r)
  <2>1. /\ DOMAIN b = Fields /\ b.pc = c.pc /\ b.why = c.why /\ b.single = c.single /\ b.held = c.held
        /\ b.table = c.table /\ b.col = c.col /\ b.pending = c.pending /\ b.results = c.results
    BY <1>3 DEF Batched, Fields
  <2> HIDE DEF b
  <2>2. /\ r.pc = c.pc /\ r.why = c.why /\ r.single = c.single /\ r.held = c.held
        /\ r.table = c.table /\ r.col = c.col + 1 /\ r.pending = c.pending
        /\ r.results = c.results /\ r.staged = b.staged /\ r.batch = b.batch /\ r.bytes = b.bytes
    BY <2>1 DEF Fields
  <2> HIDE DEF r
  <2>3. /\ BatchesOK(r)
        /\ IsSequence(FlattenSeq(c.staged)) =>
             /\ IsSequence(FlattenSeq(r.staged))
             /\ FlattenSeq(r.staged) \o r.batch = Append(FlattenSeq(c.staged) \o c.batch, i)
    <3>1. /\ r.staged = Batched(c, i, item).staged /\ r.batch = Batched(c, i, item).batch
          /\ r.bytes = Batched(c, i, item).bytes
      BY <2>2 DEF b
    <3>2. c.pc = "columns" /\ r.pc = "columns" /\ r.single = c.single /\ r.table = c.table
      BY <1>2, <2>2
    <3> HIDE DEF c
    <3> QED BY <1>3, <1>4, <1>7, <3>1, <3>2, BatchedIs
  <2>4. ColumnsOK(r)
    <3>1. SUFFICES ASSUME r.single => r.held
                   PROVE  /\ IsSequence(FlattenSeq(r.staged))
                          /\ FlattenSeq(r.staged) \o r.batch = UpTo(r.col)
      BY <1>2, <2>2 DEF ColumnsOK
    <3>2. IsSequence(FlattenSeq(c.staged)) /\ FlattenSeq(c.staged) \o c.batch = UpTo(c.col)
      BY <1>2, <1>4, <2>2, <3>1 DEF ColumnsOK
    <3>3. i = c.col + 1
      BY <1>5, <2>2, <3>1 DEF NilInFront
    <3> QED BY <1>3, <2>2, <2>3, <3>2, <3>3, UpToGrows
  <2>5. DuckContent(r)
    BY <1>2, <1>4, <2>2, <2>3, <2>4 DEF DuckContent, InTable
  <2> QED BY <1>1, <1>2, <1>10, <2>2, <2>5, WorkContent DEF Working
<1> QED BY <1>8, <1>9, <1>10

LEMMA LastBatchContent ==
  ASSUME IInv, CInv, NEW e \in Exporters, LastBatch(e)
  PROVE  CInv'
<1> DEFINE c == run[e]
           r == [c EXCEPT !.pc = "copy", !.staged = Append(@, c.batch),
                          !.batch = <<>>, !.temporary = Partial]
<1>1. At(e, "duckdb", "columns") /\ c.col = Len(Items(e)) /\ UNCHANGED <<root, request>>
  BY DEF LastBatch, Still
<1>2. /\ c.pc = "columns" /\ Engine[e] = "duckdb" /\ c.why = None
      /\ CallOK(c) /\ DuckOK(c) /\ Items(e) = ItemsFor(c) /\ Len(Items(e)) \in Nat
  BY <1>1, InTableIs DEF InTable
<1>3. DOMAIN c = Fields /\ c.single \in BOOLEAN /\ c.held \in BOOLEAN
  BY <1>2 DEF CallOK
<1>4. DuckContent(c) /\ BatchesOK(c) /\ ColumnsOK(c)
  BY <1>2 DEF CInv, ContentOK, DuckContent
<1>5. CASE Raise(e, "refused")
  BY <1>1, <1>2, <1>5, RaiseContent DEF Working
<1>6. CASE ~Raise(e, "refused")
  <2>1. Do(e, r)
    BY <1>6 DEF LastBatch
  <2>2. /\ DOMAIN r = Fields /\ r.pc = "copy" /\ r.why = c.why /\ r.single = c.single
        /\ r.held = c.held /\ r.table = c.table /\ r.col = c.col /\ r.pending = c.pending
        /\ r.results = c.results /\ r.staged = Append(c.staged, c.batch) /\ r.batch = <<>>
    BY <1>3 DEF Fields
  <2> HIDE DEF r
  <2>3. IInv'
    BY LastBatchKeeps
  <2>4. run'[e] = r
    BY <2>1 DEF IInv, Do
  <2>5. ~NilInFront(e)
    <3>1. SUFFICES ASSUME NilInFront(e) PROVE FALSE
      OBVIOUS
    <3>2. ~DuckAccepts /\ root.children[1].is = "nil"
      BY <1>1, <3>1, NilRefused
    <3>3. (DuckOK(run[e]) /\ CallOK(run[e]))'
      BY <1>2, <2>3 DEF IInv, EngineOK
    <3>4. root.class /\ OnlyTheFirst /\ Arrow(root.children)
      <4>1. SingleAccepted'
        BY <2>2, <2>4, <3>1, <3>3 DEF DuckOK, NilInFront
      <4>2. OnlyTheFirst' = OnlyTheFirst
        BY <1>1 DEF OnlyTheFirst
      <4> QED BY <1>1, <4>1, <4>2 DEF SingleAccepted
    <3>5. Count # 0 /\ ~Exceeds(Count, request.max_root_items) /\ root.children[1].is # "frame"
      BY <1>2, <3>1 DEF DuckOK, InTable, NilInFront
    <3> QED BY <3>2, <3>4, <3>5 DEF DuckAccepts, SingleAccepted
  <2>6. FlattenSeq(c.staged) \o c.batch = UpTo(c.col)
    BY <1>2, <1>3, <1>4, <2>5 DEF ColumnsOK, NilInFront
  <2>7. IsSequence(c.staged) /\ BatchOK(ItemsFor(c), c.batch) /\ IsSequence(c.batch)
    BY <1>4 DEF BatchesOK, BatchOK
  <2>8. FlattenSeq(r.staged) = UpTo(c.col)
    BY <2>2, <2>6, <2>7, FlattenAppend
  <2>9. All(ItemsFor(r)) = UpTo(c.col) /\ ItemsFor(r) = ItemsFor(c)
    <3>1. ItemsFor(r) = Items(e)
      BY <1>2, <2>2 DEF ItemsFor
    <3>2. DOMAIN Items(e) = 1 .. Len(Items(e))
      BY <1>1, SizesAre DEF InTable
    <3> QED BY <1>1, <1>2, <3>1, <3>2 DEF All, UpTo
  <2>10. BatchesOK(r)
    <3>1. /\ IsSequence(r.staged) /\ Len(r.staged) = Len(c.staged) + 1 /\ Len(c.staged) \in Nat
          /\ \A k \in 1 .. Len(c.staged) : r.staged[k] = c.staged[k]
          /\ r.staged[Len(c.staged) + 1] = c.batch
      BY <2>2, <2>7, AppendIs DEF IsSequence
    <3>2. ASSUME NEW k \in 1 .. Len(r.staged) PROVE BatchOK(ItemsFor(r), r.staged[k])
      <4>1. CASE k = Len(c.staged) + 1
        BY <2>7, <2>9, <3>1, <4>1
      <4>2. CASE k # Len(c.staged) + 1
        <5>1. k \in 1 .. Len(c.staged)
          BY <3>1, <4>2
        <5>2. BatchOK(ItemsFor(c), c.staged[k])
          BY <1>4, <5>1 DEF BatchesOK
        <5> QED BY <2>9, <3>1, <5>1, <5>2
      <4> QED BY <4>1, <4>2
    <3>3. BatchOK(ItemsFor(r), r.batch)
      <4>1. 0 <= StageMaxColumns
        BY ExportAssumption
      <4> QED BY <2>2, <4>1, EmptyIs DEF BatchOK
    <3> QED BY <2>2, <3>1, <3>2, <3>3 DEF BatchesOK
  <2>11. DuckContent(r)
    BY <1>2, <1>4, <2>2, <2>8, <2>9, <2>10 DEF DuckContent, ColumnsOK, InTable
  <2> QED BY <1>1, <1>2, <2>1, <2>2, <2>11, WorkContent DEF Working
<1> QED BY <1>5, <1>6

LEMMA MergeContent ==
  ASSUME IInv, CInv, NEW e \in Exporters, Merge(e)
  PROVE  CInv'
<1> DEFINE c      == run[e]
           merged == Table(c.table, FlattenSeq(c.staged))
           r      == [c EXCEPT !.pc = "replace", !.temporary = merged]
<1>1. /\ At(e, "duckdb", "copy") /\ c.pc = "copy" /\ Engine[e] = "duckdb" /\ Do(e, r)
      /\ UNCHANGED <<root, request>> /\ DOMAIN c = Fields
  BY DEF Merge, At, Still, IInv, CallOK
<1>2. DuckContent(c)
  BY <1>1 DEF CInv, ContentOK
<1>3. merged = Table(c.table, All(ItemsFor(c)))
  BY <1>1, <1>2 DEF DuckContent, ColumnsOK
<1> HIDE DEF merged
<1>4. /\ r.pc = "replace" /\ r.why = c.why /\ r.single = c.single /\ r.table = c.table
      /\ r.pending = c.pending /\ r.results = c.results /\ r.temporary = merged
  BY <1>1 DEF Fields
<1> HIDE DEF r
<1>5. DuckContent(r)
  <2>1. ItemsFor(r) = ItemsFor(c)
    BY <1>4 DEF ItemsFor
  <2> QED BY <1>1, <1>2, <1>3, <1>4, <2>1 DEF DuckContent, ColumnsOK, InTable
<1> QED BY <1>1, <1>4, <1>5, WorkContent DEF Working

-----------------------------------------------------------------------------
(* A table is complete, all are complete, and they are put in place. *)

LEMMA RootAttributesContent ==
  ASSUME IInv, CInv, NEW e \in Exporters, RootAttributes(e)
  PROVE  CInv'
<1> DEFINE c == run[e]
           r == [c EXCEPT !.pc = "rename"]
<1>1. /\ c.pc = "table" /\ Engine[e] = "duckdb" /\ c.why = None /\ c.table = Count
      /\ CallOK(c) /\ DuckOK(c) /\ World /\ UNCHANGED <<root, request>>
  BY DuckIs DEF RootAttributes, Working, Still
<1>2. DuckContent(c) /\ OutputOK(e, c) /\ DOMAIN c = Fields /\ ~c.single
  BY <1>1 DEF CInv, ContentOK, CallOK, DuckOK, AsListSoFar
<1>3. CASE Raise(e, "refused")
  BY <1>1, <1>3, RaiseContent DEF Working
<1>4. CASE ~Raise(e, "refused")
  <2>1. Do(e, r) /\ ~root.class
    BY <1>4 DEF RootAttributes
  <2>2. /\ r.pc = "rename" /\ r.why = c.why /\ r.single = c.single
        /\ r.pending = c.pending /\ r.results = c.results
    BY <1>2 DEF Fields
  <2> HIDE DEF r
  <2>3. r.pending = AskedFor
    BY <1>1, <1>2, <2>1, <2>2 DEF DuckContent, AskedFor
  <2>4. root.class \in BOOLEAN /\ c.single \in BOOLEAN
    BY <1>1, ExportAssumption DEF World, Root, CallOK
  <2>5. r.single = root.class
    BY <1>2, <2>1, <2>2, <2>4
  <2>6. r.results = <<>> /\ ~Refused(r)
    BY <1>1, <1>2, <2>2, ExportAssumption DEF OutputOK, Working, Refused
  <2>7. OutputOK(e, r)
    BY <1>2, <2>2, <2>3, <2>5, <2>6 DEF OutputOK, Accepted, Working
  <2>8. DuckContent(r)
    BY <2>2 DEF DuckContent, ColumnsOK, InTable
  <2> QED BY <1>1, <2>1, <2>7, <2>8, DoContent DEF ContentOK
<1> QED BY <1>3, <1>4

LEMMA ReplaceSingleContent ==
  ASSUME IInv, CInv, NEW e \in Exporters, ReplaceSingle(e)
  PROVE  CInv'
<1> DEFINE c       == run[e]
           results == <<Data(c.temporary)>>
           r       == [c EXCEPT !.pc = "cleanup", !.temporary = None, !.results = results]
<1>1. /\ At(e, "duckdb", "replace") /\ c.pc = "replace" /\ Engine[e] = "duckdb" /\ c.single
      /\ Do(e, r) /\ UNCHANGED <<root, request>> /\ CallOK(c) /\ DuckOK(c) /\ World
  BY InTableIs DEF ReplaceSingle, At, Puts, InTable
<1>2. DuckContent(c) /\ OutputOK(e, c) /\ DOMAIN c = Fields /\ c.why = None
  BY <1>1 DEF CInv, ContentOK, CallOK, Working
<1>3. root.class
  BY <1>1 DEF DuckOK, SingleAccepted
<1>4. c.temporary = Table(0, All(root.children)) /\ c.pending = <<>>
  BY <1>1, <1>2 DEF DuckContent, ColumnsOK, ItemsFor, InTable
<1> DEFINE t == c.temporary
<1>5. AskedFor = <<t>>
  BY <1>3, <1>4 DEF AskedFor
<1> HIDE DEF results
<1>6. /\ r.pc = "cleanup" /\ r.why = None /\ r.single = c.single /\ r.pending = <<>>
      /\ r.results = results
  BY <1>2, <1>4 DEF Fields
<1> HIDE DEF r, t
<1>7. results = <<Data(t)>>
  BY DEF results, t
<1>8. ResultsOK(e, results)
  <2> DEFINE d == Data(t)
  <2>1. results = <<d>> /\ d = Data(t)
    BY <1>7
  <2> HIDE DEF d
  <2>2. IsSequence(<<d>>) /\ Len(<<d>>) = 1 /\ <<d>>[1] = d /\ Len(<<t>>) = 1 /\ <<t>>[1] = t
    BY DEF IsSequence
  <2>3. \A i \in 1 .. 1 : i = 1 /\ \A j \in 1 .. i - 1 : FALSE
    OBVIOUS
  <2> QED BY <1>3, <1>5, <2>1, <2>2, <2>3 DEF ResultsOK
<1>9. OutputOK(e, r)
  <2>1. Len(results) = 1 /\ Len(AskedFor) = 1
    BY <1>5, <1>7
  <2>2. r.single = root.class
    <3>1. root.class \in BOOLEAN /\ c.single \in BOOLEAN
      BY <1>1, ExportAssumption DEF World, Root, CallOK
    <3> QED BY <1>1, <1>3, <1>6, <3>1
  <2>3. ~Refused(r)
    BY <1>6, ExportAssumption DEF Refused
  <2> QED BY <1>6, <1>8, <2>1, <2>2, <2>3 DEF OutputOK, Working
<1>10. DuckContent(r)
  BY <1>6 DEF DuckContent, ColumnsOK, InTable
<1> QED BY <1>1, <1>9, <1>10, DoContent DEF ContentOK

\* Behind the last table that is selected nothing more is chosen.
LEMMA NothingBehind ==
  ASSUME World, NEW t \in 0 .. Count - 1, request.selected # None, LastSelected(t)
  PROVE  Chosen(Whole)[t + 1] = Chosen(Whole)[Count]
<1> DEFINE T == { n \in t + 1 .. Count : Chosen(Whole)[n] # Chosen(Whole)[t + 1] }
<1>1. Count \in Nat /\ t \in Nat /\ Count \in t + 1 .. Count /\ t + 1 \in t + 1 .. Count
  BY RootIs
<1>2. SUFFICES ASSUME T # {} PROVE FALSE
  BY <1>1
<1>3. PICK n \in T : \A k \in T : n <= k
  <2>1. T \subseteq Nat
    BY <1>1
  <2> HIDE DEF T
  <2> QED BY <1>2, <2>1, LeastNumber
<1>4. n \in t + 1 .. Count /\ Chosen(Whole)[n] # Chosen(Whole)[t + 1]
  BY <1>3
<1>5. n - 1 \in t + 1 .. Count /\ n - 1 > t /\ n \in 1 .. Count /\ n - 1 \in Nat
  BY <1>1, <1>4
<1>6. Chosen(Whole)[n - 1] = Chosen(Whole)[t + 1]
  BY <1>3, <1>5
<1>7. ~Selected(n - 1)
  BY <1>1, <1>5 DEF Selected, LastSelected
<1>8. Chosen(Whole)[n] = Chosen(Whole)[n - 1]
  BY <1>1, <1>5, <1>7, ChosenIs
<1> QED BY <1>4, <1>6, <1>8

LEMMA ReplaceInListContent ==
  ASSUME IInv, CInv, NEW e \in Exporters, ReplaceInList(e)
  PROVE  CInv'
<1> DEFINE c == run[e]
           t == c.table
           r == [c EXCEPT !.pc = Renaming(e, t), !.table = t + 1, !.temporary = None,
                          !.pending = Append(@, c.temporary)]
<1>1. At(e, "duckdb", "replace") /\ ~c.single /\ UNCHANGED <<root, request>> /\ Do(e, r)
  BY DEF ReplaceInList, Still
<1>2. /\ c.pc = "replace" /\ Engine[e] = "duckdb" /\ c.why = None
      /\ CallOK(c) /\ DuckOK(c) /\ World /\ Count \in Nat /\ t \in 0 .. Count - 1 /\ Selected(t)
  BY <1>1, InTableIs DEF InTable
<1>3. AsListSoFar(c) /\ Good(t) /\ DOMAIN c = Fields /\ DuckContent(c) /\ OutputOK(e, c)
  BY <1>1, <1>2 DEF DuckOK, InTable, CallOK, CInv, ContentOK
<1>4. /\ r.pc = Renaming(e, t) /\ r.why = c.why /\ r.single = c.single /\ r.table = t + 1
      /\ r.pending = Append(c.pending, c.temporary) /\ r.results = c.results
  BY <1>3 DEF Fields
<1> HIDE DEF r
<1>5. /\ r.pc \in {"rename", "table"}
      /\ r.pc = "rename" => request.named /\ LastSelected(t)
  BY <1>4 DEF Renaming
<1>6. r.pending = Chosen(Whole)[t + 1]
  <2>1. c.pending = Chosen(Whole)[t]
    BY <1>1, <1>2, <1>3 DEF DuckContent, InTable
  <2>2. c.temporary = Whole[t + 1]
    <3>1. c.temporary = Table(t, All(root.children[t + 1].items))
      BY <1>1, <1>2, <1>3 DEF DuckContent, ColumnsOK, ItemsFor
    <3>2. t + 1 \in 1 .. Count /\ (t + 1) - 1 = t
      BY <1>2
    <3> QED BY <3>1, <3>2 DEF Whole
  <2>3. t + 1 \in 1 .. Count /\ (t + 1) - 1 = t
    BY <1>2
  <2>4. Chosen(Whole)[t + 1] = Append(Chosen(Whole)[t], Whole[t + 1])
    <3> HIDE DEF t
    <3>1. Chosen(Whole)[t + 1] = IF Selected((t + 1) - 1)
                                 THEN Append(Chosen(Whole)[(t + 1) - 1], Whole[t + 1])
                                 ELSE Chosen(Whole)[(t + 1) - 1]
      BY <1>2, <2>3, ChosenIs
    <3> QED BY <1>2, <2>3, <3>1
  <2> QED BY <1>4, <2>1, <2>2, <2>4
<1>7. c.results = <<>>
  BY <1>2, <1>3 DEF OutputOK, Working
<1>8. CASE r.pc = "table"
  <2>1. DuckContent(r)
    BY <1>4, <1>6, <1>8 DEF DuckContent, ColumnsOK, InTable
  <2> QED BY <1>1, <1>2, <1>4, <1>8, <2>1, WorkContent DEF Working
<1>9. CASE r.pc = "rename"
  <2>1. request.selected # None /\ request.named /\ LastSelected(t)
    BY <1>2, <1>5, <1>9 DEF World
  <2>2. \A u \in 0 .. t : Good(u)
    BY <1>2, <1>3 DEF AsListSoFar
  <2>3. ~root.class
    BY <1>2, <1>3, <2>1, <2>2, LastIsEnough DEF AsListSoFar
  <2>4. r.pending = AskedFor
    BY <1>2, <1>6, <2>1, <2>3, NothingBehind DEF AskedFor
  <2>5. r.single = root.class
    <3>1. root.class \in BOOLEAN /\ c.single \in BOOLEAN
      BY <1>2, ExportAssumption DEF World, Root, CallOK
    <3> QED BY <1>1, <1>4, <2>3, <3>1
  <2>6. ~Refused(r)
    BY <1>2, <1>4, ExportAssumption DEF Refused
  <2>7. OutputOK(e, r)
    BY <1>3, <1>4, <1>7, <1>9, <2>4, <2>5, <2>6 DEF OutputOK, Working
  <2>8. DuckContent(r)
    BY <1>9 DEF DuckContent, ColumnsOK, InTable
  <2> QED BY <1>1, <1>2, <2>7, <2>8, DoContent DEF ContentOK
<1> QED BY <1>5, <1>8, <1>9

\* The result that is put in place next is the table whose turn it is, in a file
\* that the call has not used yet.
LEMMA ResultInTurnIs ==
  ASSUME IInv, CInv, NEW e \in Exporters, run[e].pc = "rename",
         Len(run[e].results) < Len(run[e].pending)
  PROVE  ResultsOK(e, Append(run[e].results, ResultInTurn(e)))
<1> DEFINE c == run[e]
           n == Len(c.results)
           p == AskedFor[n + 1]
           x == ResultInTurn(e)
           P == Places[Count]
           all == Append(c.results, x)
<1>1. OutputOK(e, c) /\ World /\ CallOK(c) /\ Engine[e] \in {"duckdb", "pyarrow"}
  BY ExportAssumption DEF CInv, ContentOK, IInv
<1>2. c.pending = AskedFor /\ ResultsOK(e, c.results) /\ c.single = root.class
  BY <1>1 DEF OutputOK, Accepted
<1>3. /\ IsSequence(c.results) /\ n \in Nat /\ n < Len(AskedFor) /\ IsSequence(AskedFor)
      /\ Len(AskedFor) \in Nat /\ n + 1 \in 1 .. Len(AskedFor)
  BY <1>1, <1>2, AskedIs DEF ResultsOK, IsSequence
<1>4. \A i \in 1 .. n :
        /\ c.results[i] = IF root.class THEN Data(AskedFor[i])
                          ELSE Result(c.results[i].name, c.results[i].name, AskedFor[i])
        /\ ~root.class /\ (Engine[e] = "pyarrow" \/ request.selected = None) =>
             c.results[i].name = _root_to_arrow[P[i]]
        /\ \A j \in 1 .. i - 1 : c.results[j].file # c.results[i].file
  BY <1>2 DEF ResultsOK
<1>5. /\ IsSequence(all) /\ Len(all) = n + 1 /\ all[n + 1] = x
      /\ \A i \in 1 .. n : all[i] = c.results[i]
  BY <1>3, AppendIs
<1>6. x = IF root.class THEN Data(p)
          ELSE LET name == IF Engine[e] = "pyarrow" THEN c.todo[n + 1].name
                           ELSE NameOf(p.table, {c.results[j].name : j \in 1 .. n})
               IN Result(name, name, p)
  <2>1. (n + 1) - 1 = n
    BY <1>3
  <2> QED BY <1>2, <2>1 DEF ResultInTurn
<1>7. /\ x = IF root.class THEN Data(p) ELSE Result(x.name, x.name, p)
      /\ ~root.class /\ (Engine[e] = "pyarrow" \/ request.selected = None) =>
           x.name = _root_to_arrow[P[n + 1]]
      /\ \A j \in 1 .. n : c.results[j].file # x.file
  <2>1. CASE root.class
    <3>1. n = 0
      <4>1. Len(AskedFor) = 1
        BY <1>1, <2>1, AskedIs
      <4> QED BY <1>3, <4>1
    <3> QED BY <1>6, <2>1, <3>1
  <2>2. CASE ~root.class
    <3>1. /\ P[n + 1] \in 1 .. Count /\ p.table = P[n + 1] - 1
          /\ \A j \in 1 .. n : P[j] \in 1 .. Count /\ P[j] < P[n + 1]
          /\ request.selected = None => P[n + 1] = n + 1 /\ \A j \in 1 .. n : P[j] = j
      <4>1. \A j \in 1 .. n : j \in 1 .. Len(AskedFor) /\ j \in 1 .. (n + 1) - 1
        BY <1>3
      <4> HIDE DEF P, n
      <4> QED BY <1>1, <1>3, <2>2, <4>1, AskedIs DEF P
    <3>2. \A j \in 1 .. n : c.results[j].file = c.results[j].name
      <4> SUFFICES ASSUME NEW j \in 1 .. n PROVE c.results[j].file = c.results[j].name
        OBVIOUS
      <4>1. c.results[j] = Result(c.results[j].name, c.results[j].name, AskedFor[j])
        BY <1>4, <2>2
      <4> DEFINE y == c.results[j]
                 m == y.name
      <4>2. y = Result(m, m, AskedFor[j])
        BY <4>1
      <4> HIDE DEF y, m
      <4>3. y.file = m
        BY <4>2 DEF Result
      <4> QED BY <4>3 DEF y, m
    <3>3. CASE Engine[e] = "pyarrow"
      <4>1. c.todo = AllTables
        BY <3>3 DEF CInv, ContentOK, ArrowContent
      <4> DEFINE name == _root_to_arrow[P[n + 1]]
      <4>2. c.todo[n + 1] = Result(name, name, p)
        BY <1>1, <1>3, <2>2, <4>1, AllTablesAre
      <4>3. c.todo[n + 1].name = name
        BY <4>2 DEF Result
      <4>4. x = Result(name, name, p) /\ x.name = name /\ x.file = name
        <5> HIDE DEF name, x, p
        <5>1. x = Result(name, name, p)
          BY <1>6, <2>2, <3>3, <4>3
        <5> QED BY <5>1 DEF Result
      <4>5. \A j \in 1 .. n : c.results[j].file # name
        <5> SUFFICES ASSUME NEW j \in 1 .. n PROVE c.results[j].file # name
          OBVIOUS
        <5>1. c.results[j].file = _root_to_arrow[P[j]]
          BY <1>4, <2>2, <3>2, <3>3
        <5>2. _root_to_arrow[P[j]] # _root_to_arrow[P[n + 1]]
          BY <1>1, <3>1, NamesApart
        <5> QED BY <5>1, <5>2
      <4> QED BY <2>2, <4>4, <4>5
    <3>4. CASE Engine[e] = "duckdb"
      <4> DEFINE used == {c.results[j].name : j \in 1 .. n}
                 name == NameOf(P[n + 1] - 1, used)
      <4>1. x = Result(name, name, p) /\ x.name = name /\ x.file = name
        <5>1. x = Result(name, name, p)
          BY <1>6, <2>2, <3>1, <3>4
        <5> HIDE DEF name, x, p
        <5> QED BY <5>1 DEF Result
      <4>2. IsFiniteSet(used)
        <5> DEFINE f == [j \in 1 .. n |-> c.results[j].name]
        <5>1. used = {f[j] : j \in 1 .. n}
          OBVIOUS
        <5> HIDE DEF f, used
        <5> QED BY <1>3, <5>1, FiniteImage
      <4>3. name \notin used
        <5> HIDE DEF used
        <5> QED BY <1>1, <3>1, <4>2, NameIsNew
      <4>4. \A j \in 1 .. n : c.results[j].file # name
        BY <3>2, <4>3
      <4>5. ASSUME request.selected = None PROVE name = _root_to_arrow[P[n + 1]]
        <5>1. \A j \in 1 .. n : c.results[j].name = _root_to_arrow[j]
          BY <1>4, <2>2, <3>1, <4>5
        <5>2. used = {_root_to_arrow[j] : j \in 1 .. n}
          BY <5>1
        <5>3. _root_to_arrow[n + 1] = NameOf((n + 1) - 1, {_root_to_arrow[j] : j \in 1 .. (n + 1) - 1})
          <6>1. n + 1 \in 1 .. Count /\ Count \in Nat
            BY <1>1, <3>1, <4>5, RootIs
          <6> QED BY <6>1, NamesAre
        <5>4. (n + 1) - 1 = n
          BY <1>3
        <5> HIDE DEF used
        <5> QED BY <3>1, <4>5, <5>2, <5>3, <5>4
      <4> QED BY <2>2, <3>4, <4>1, <4>4, <4>5
    <3> QED BY <1>1, <3>3, <3>4
  <2> QED BY <2>1, <2>2
<1> HIDE DEF x, all, c
<1>8. ASSUME NEW i \in 1 .. n + 1
      PROVE  /\ all[i] = IF root.class THEN Data(AskedFor[i])
                         ELSE Result(all[i].name, all[i].name, AskedFor[i])
             /\ ~root.class /\ (Engine[e] = "pyarrow" \/ request.selected = None) =>
                  all[i].name = _root_to_arrow[P[i]]
             /\ \A j \in 1 .. i - 1 : all[j].file # all[i].file
  <2>1. CASE i = n + 1
    <3>1. \A j \in 1 .. i - 1 : j \in 1 .. n
      BY <1>3, <2>1
    <3> QED BY <1>5, <1>7, <2>1, <3>1
  <2>2. CASE i # n + 1
    <3>1. i \in 1 .. n /\ \A j \in 1 .. i - 1 : j \in 1 .. n
      BY <1>3, <2>2
    <3> QED BY <1>4, <1>5, <3>1
  <2> QED BY <2>1, <2>2
<1>9. Len(all) <= Len(AskedFor)
  BY <1>3, <1>5
<1> HIDE DEF P
<1>10. ResultsOK(e, all)
  BY <1>5, <1>8, <1>9 DEF ResultsOK, P
<1> QED BY <1>10 DEF all, x, c

LEMMA RenameContent ==
  ASSUME IInv, CInv, NEW e \in Exporters, Rename(e)
  PROVE  CInv'
<1> DEFINE c   == run[e]
           all == Append(c.results, ResultInTurn(e))
           r   == [c EXCEPT !.results = all]
<1>1. /\ c.pc = "rename" /\ Do(e, r) /\ UNCHANGED <<root, request>> /\ CallOK(c)
      /\ DOMAIN c = Fields
  BY DEF Rename, Puts, IInv, CallOK
<1>2. ResultsOK(e, all)
  BY ResultInTurnIs DEF Rename
<1>3. OutputOK(e, c) /\ c.why = None /\ (Engine[e] = "pyarrow" => ArrowContent(c))
  BY <1>1 DEF CInv, ContentOK, CallOK, Working
<1> HIDE DEF all
<1>4. /\ r.pc = "rename" /\ r.why = None /\ r.single = c.single /\ r.pending = c.pending
      /\ r.results = all /\ r.todo = c.todo
  BY <1>1, <1>3 DEF Fields
<1> HIDE DEF r
<1>5. OutputOK(e, r)
  <2>1. ~Refused(r)
    BY <1>4, ExportAssumption DEF Refused
  <2> QED BY <1>1, <1>2, <1>3, <1>4, <2>1 DEF OutputOK, Accepted, Working
<1>6. DuckContent(r)
  BY <1>4 DEF DuckContent, ColumnsOK, InTable
<1>7. Engine[e] = "pyarrow" => ArrowContent(r)
  BY <1>1, <1>3, <1>4 DEF ArrowContent
<1> QED BY <1>1, <1>5, <1>6, <1>7, DoContent DEF ContentOK

LEMMA ReadArrowContent ==
  ASSUME IInv, CInv, NEW e \in Exporters, ReadArrow(e)
  PROVE  CInv'
<1> DEFINE refuse == IF root.class THEN ~OnlyTheFirst ELSE ~InRange
           over   == \/ Exceeds(Count, request.max_root_items)
                     \/ ~root.class /\ Exceeds(Count, request.max_tables)
           tables == AllTables
           r      == [run[e] EXCEPT !.pc = "made", !.stage = TRUE, !.single = root.class,
                                    !.todo = tables]
<1> HIDE DEF tables
<1>1. /\ run[e].pc = "start" /\ Engine[e] = "pyarrow" /\ UNCHANGED <<root, request>>
      /\ CallOK(run[e]) /\ World /\ ArrowContent(run[e])
  BY DEF ReadArrow, At, Still, IInv, CInv, ContentOK
<1>2. CASE ~Convertible \/ over \/ refuse
  <2>1. Raise(e, "refused") \/ Raise(e, "limit")
    BY <1>2 DEF ReadArrow
  <2> QED BY <1>1, <2>1, RaiseContent DEF Working
<1>3. CASE Convertible /\ ~over /\ ~refuse
  <2>1. Do(e, r) /\ ArrowAccepts
    BY <1>3 DEF ReadArrow, tables, ArrowAccepts
  <2>2. /\ r.pc = "made" /\ r.why = run[e].why /\ r.single = root.class
        /\ r.pending = run[e].pending /\ r.results = run[e].results /\ r.todo = tables
    BY <1>1 DEF CallOK, Fields
  <2> HIDE DEF r
  <2>3. r.pending = <<>>
    BY <1>1, <2>2 DEF ArrowContent
  <2>4. IsSequence(r.pending) /\ Len(r.pending) < Len(AskedFor)
        /\ \A k \in 1 .. Len(r.pending) : r.pending[k] = AskedFor[k]
    <3>1. Len(AskedFor) # 0 /\ IsSequence(AskedFor)
      BY <1>1, <2>1, SomethingAsked, AskedIs
    <3>2. Len(AskedFor) \in Nat
      BY <3>1 DEF IsSequence
    <3> QED BY <2>3, <3>1, <3>2, EmptyIs
  <2>5. ArrowContent(r)
    BY <2>2, <2>4 DEF ArrowContent, tables
  <2> QED BY <1>1, <2>1, <2>2, <2>5, WorkContent DEF Working
<1> QED BY <1>2, <1>3

LEMMA WriteTableContent ==
  ASSUME IInv, CInv, NEW e \in Exporters, WriteTable(e)
  PROVE  CInv'
<1> DEFINE c    == run[e]
           m    == Len(c.pending)
           next == c.todo[m + 1].table
           last == m + 1 = Len(c.todo)
           all  == Append(c.pending, next)
           r    == [c EXCEPT !.pending = all, !.pc = IF last THEN "rename" ELSE "write"]
<1>1. /\ c.pc = "write" /\ Engine[e] = "pyarrow" /\ UNCHANGED <<root, request>>
      /\ CallOK(c) /\ World /\ ArrowContent(c) /\ OutputOK(e, c) /\ Do(e, r)
  BY DEF WriteTable, At, Still, IInv, CInv, ContentOK
<1>2. /\ c.todo = AllTables /\ c.single = root.class
      /\ IsSequence(c.pending) /\ m \in Nat /\ m < Len(AskedFor) /\ IsSequence(AskedFor)
      /\ \A k \in 1 .. m : c.pending[k] = AskedFor[k]
  BY <1>1, AskedIs DEF ArrowContent, IsSequence
<1>3. Len(c.todo) = Len(AskedFor) /\ m + 1 \in 1 .. Len(AskedFor) /\ Len(AskedFor) \in Nat
  <2>1. Len(AllTables) = Len(AskedFor)
    BY <1>1, AllTablesAre
  <2>2. Len(AskedFor) \in Nat
    BY <1>2 DEF IsSequence
  <2> QED BY <1>2, <2>1, <2>2
<1>4. next = AskedFor[m + 1]
  <2>1. \A t, name, file : Result(name, file, t).table = t /\ Data(t).table = t
    BY DEF Result, Data
  <2>2. c.todo[m + 1] = IF root.class THEN Data(AskedFor[m + 1])
                        ELSE Result(_root_to_arrow[Places[Count][m + 1]],
                                    _root_to_arrow[Places[Count][m + 1]], AskedFor[m + 1])
    BY <1>1, <1>2, <1>3, AllTablesAre
  <2> QED BY <2>1, <2>2
<1>5. /\ IsSequence(all) /\ Len(all) = m + 1 /\ all[m + 1] = next
      /\ \A k \in 1 .. m : all[k] = c.pending[k]
  BY <1>2, AppendIs
<1> HIDE DEF all, last
<1>6. /\ r.pc = (IF last THEN "rename" ELSE "write") /\ r.why = c.why /\ r.single = c.single
      /\ r.pending = all /\ r.results = c.results /\ r.todo = c.todo
  BY <1>1 DEF CallOK, Fields
<1> HIDE DEF r, next
<1>7. \A k \in 1 .. m + 1 : all[k] = AskedFor[k]
  <2>1. \A k \in 1 .. m + 1 : k = m + 1 \/ k \in 1 .. m
    BY <1>2
  <2> QED BY <1>2, <1>4, <1>5, <2>1
<1>8. CASE ~last
  <2>1. m + 1 < Len(AskedFor)
    BY <1>2, <1>3, <1>8 DEF last
  <2>2. ArrowContent(r)
    BY <1>2, <1>5, <1>6, <1>7, <1>8, <2>1 DEF ArrowContent
  <2> QED BY <1>1, <1>6, <1>8, <2>2, WorkContent DEF Working
<1>9. CASE last
  <2>1. m + 1 = Len(AskedFor)
    BY <1>3, <1>9 DEF last
  <2>2. all = AskedFor
    BY <1>2, <1>5, <1>7, <2>1, SameSequence
  <2>3. c.results = <<>> /\ ResultsOK(e, c.results) /\ r.why = None /\ ~Refused(r)
    BY <1>1, <1>6, ExportAssumption DEF OutputOK, Working, CallOK, Refused
  <2>4. OutputOK(e, r)
    BY <1>2, <1>6, <1>9, <2>2, <2>3 DEF OutputOK, Working
  <2>5. ArrowContent(r)
    BY <1>2, <1>6, <1>9 DEF ArrowContent
  <2> QED BY <1>1, <2>4, <2>5, DoContent DEF ContentOK
<1> QED BY <1>8, <1>9

LEMMA InitContent ==
  ASSUME Init PROVE CInv
<1>1. World /\ \A e \in Exporters : run[e] = Started
  BY DEF Init, World
<1>2. /\ Started.pc = "start" /\ Started.why = None /\ Started.staged = <<>>
      /\ Started.batch = <<>> /\ Started.bytes = 0 /\ Started.pending = <<>>
      /\ Started.results = <<>>
  BY DEF Started
<1>3. DuckContent(Started) /\ ArrowContent(Started)
  BY <1>2 DEF DuckContent, ColumnsOK, ArrowContent, InTable
<1>4. ASSUME NEW e \in Exporters PROVE OutputOK(e, Started)
  <2>1. ResultsOK(e, <<>>)
    <3>1. Len(AskedFor) \in Nat
      BY <1>1, AskedIs DEF IsSequence
    <3> QED BY <3>1, EmptyIs DEF ResultsOK
  <2>2. ~Refused(Started)
    BY <1>2, ExportAssumption DEF Refused
  <2> QED BY <1>2, <2>1, <2>2 DEF OutputOK, Accepted
<1> QED BY <1>1, <1>3, <1>4 DEF CInv, ContentOK

LEMMA NextContent ==
  ASSUME IInv, CInv, [Next]_vars
  PROVE  CInv'
<1>1. CASE Next
  <2> PICK e \in Exporters :
        DuckDB(e) \/ PyArrow(e) \/ EnterTry(e) \/ Rename(e) \/ Renamed(e) \/ Cleanup(e)
        \/ Failure(e)
    BY <1>1 DEF Next
  <2>1. CASE DuckDB(e)
    BY <2>1, ChecksContent, FirstContent, TableInTurnContent, RootAttributesContent,
       ColumnContent, LastBatchContent, MergeContent, ReplaceSingleContent, ReplaceInListContent
       DEF DuckDB
  <2>2. CASE PyArrow(e)
    BY <2>2, ReadArrowContent, WriteTableContent DEF PyArrow
  <2>3. CASE EnterTry(e) \/ Rename(e) \/ Renamed(e) \/ Cleanup(e)
    BY <2>3, EnterTryContent, RenameContent, RenamedContent, CleanupContent
  <2>4. CASE Failure(e)
    BY <2>4, FailureContent, CrashContent DEF Failure
  <2> QED BY <2>1, <2>2, <2>3, <2>4
<1>2. CASE UNCHANGED vars
  <2>1. root' = root /\ request' = request /\ run' = run
    BY <1>2 DEF vars
  <2>2. \A f \in Exporters : ContentOK(f, run'[f])
    BY <2>1 DEF CInv
  <2> QED BY <2>1, <2>2, ContentsKeep
<1> QED BY <1>1, <1>2

\* What a call has staged, completed and put in place at each of its steps: each
\* table asked for holds every column once and in order, and those in place are
\* the first of the tables asked for, each in a file of its own.
THEOREM Contained == Spec => [](IInv /\ CInv)
<1>1. Init => IInv /\ CInv
  BY InitKeeps, InitContent
<1>2. IInv /\ CInv /\ [Next]_vars => IInv' /\ CInv'
  BY NextKeeps, NextContent
<1> QED BY <1>1, <1>2, PTL DEF Spec

\* README.md:400, of every batch that is staged or being filled.
THEOREM BatchesAreBounded == Spec => []BatchesBounded
<1>1. ASSUME IInv, CInv PROVE BatchesBounded
  <2> SUFFICES ASSUME NEW e \in Exporters, run[e].pc \in {"columns", "copy"},
                      NEW b \in ToSet(run[e].staged) \cup {run[e].batch}
               PROVE  /\ Len(b) <= StageMaxColumns
                      /\ Len(b) > 1 => BytesOf(Items(e), b) <= StageMaxBytes
    BY DEF BatchesBounded
  <2>1. Engine[e] = "duckdb"
    BY <1>1, ExportAssumption DEF IInv, EngineOK, ArrowOK, Ended
  <2>2. BatchesOK(run[e])
    BY <1>1, <2>1 DEF CInv, ContentOK, DuckContent
  <2>3. Items(e) = ItemsFor(run[e])
    BY DEF Items, ItemsFor
  <2>4. BatchOK(ItemsFor(run[e]), b)
    <3>1. CASE b = run[e].batch
      BY <2>2, <3>1 DEF BatchesOK
    <3>2. CASE b \in ToSet(run[e].staged)
      <4>1. DOMAIN run[e].staged = 1 .. Len(run[e].staged)
        BY <2>2 DEF BatchesOK, IsSequence
      <4>2. PICK k \in 1 .. Len(run[e].staged) : b = run[e].staged[k]
        BY <3>2, <4>1 DEF ToSet
      <4> QED BY <2>2, <4>2 DEF BatchesOK
    <3> QED BY <3>1, <3>2
  <2> QED BY <2>3, <2>4 DEF BatchOK
<1> QED BY <1>1, Contained, PTL

\* The files do not depend on the engine when the whole file is converted, and the
\* tables in them never do: that a table is whole and in order is found out column
\* by column by one engine and taken for granted by the other.
THEOREM EnginesAlike == Spec => []EnginesAgree
<1>1. ASSUME IInv, CInv PROVE EnginesAgree
  <2> SUFFICES ASSUME NEW e \in Exporters, NEW f \in Exporters,
                      run[e].pc = "done", run[f].pc = "done"
               PROVE  IF request.selected = None THEN Results(e) = Results(f)
                      ELSE [i \in DOMAIN Results(e) |-> Results(e)[i].table]
                             = [i \in DOMAIN Results(f) |-> Results(f)[i].table]
    BY DEF EnginesAgree
  <2> DEFINE n == Len(AskedFor)
  <2>1. ASSUME NEW x \in Exporters, run[x].pc = "done"
        PROVE  /\ IsSequence(Results(x)) /\ Len(Results(x)) = n /\ DOMAIN Results(x) = 1 .. n
               /\ \A i \in 1 .. n :
                    /\ Results(x)[i] = IF root.class THEN Data(AskedFor[i])
                                       ELSE Result(Results(x)[i].name, Results(x)[i].name, AskedFor[i])
                    /\ ~root.class /\ request.selected = None =>
                         Results(x)[i].name = _root_to_arrow[Places[Count][i]]
    <3>1. OutputOK(x, run[x])
      BY <1>1 DEF CInv, ContentOK
    <3>2. Len(Results(x)) = n /\ ResultsOK(x, Results(x))
      BY <2>1, <3>1 DEF OutputOK, Accepted, Results
    <3>3. IsSequence(Results(x))
      BY <3>2 DEF ResultsOK
    <3>4. DOMAIN Results(x) = 1 .. n
      BY <3>2, <3>3 DEF IsSequence
    <3> QED BY <3>2, <3>3, <3>4 DEF ResultsOK
  <2>2. \A t, name, file : Result(name, file, t).table = t /\ Data(t).table = t
    BY DEF Result, Data
  <2>3. CASE request.selected = None
    <3>1. \A i \in 1 .. n : Results(e)[i] = Results(f)[i]
      BY <2>1, <2>3
    <3> QED BY <2>1, <2>3, <3>1, SameSequence
  <2>4. CASE request.selected # None
    <3>1. \A i \in 1 .. n : Results(e)[i].table = AskedFor[i] /\ Results(f)[i].table = AskedFor[i]
      BY <2>1, <2>2
    <3>2. DOMAIN Results(e) = 1 .. n /\ DOMAIN Results(f) = 1 .. n
      BY <2>1
    <3> HIDE DEF n
    <3> QED BY <2>4, <3>1, <3>2
  <2> QED BY <2>3, <2>4
<1> QED BY <1>1, Contained, PTL

-----------------------------------------------------------------------------
(* The refinement: what each action is to somebody who looks at the            *)
(* destination.                                                               *)

Phases == [e \in Exporters |-> Phase(run[e])]
Ready  == [e \in Exporters |-> ReadyTables(run[e])]
InPlace == [e \in Exporters |-> Placed(run[e])]

\* The step is one of the promise, or none.
Maps == [Published!Next]_(Published!vars)

\* What a call becomes is what the promise sees of it; the others stay.
LEMMA StepOf ==
  ASSUME IInv, NEW e \in Exporters, NEW r, Do(e, r), UNCHANGED <<root, request>>
  PROVE  /\ AskedFor' = AskedFor
         /\ Phases'  = [Phases  EXCEPT ![e] = Phase(r)]
         /\ Ready'   = [Ready   EXCEPT ![e] = ReadyTables(r)]
         /\ InPlace' = [InPlace EXCEPT ![e] = Placed(r)]
<1>1. root' = root /\ request' = request
  OBVIOUS
<1>2. AskedFor' = AskedFor
  BY <1>1 DEF AskedFor, Chosen, Whole, Table, All, Selected, Count
<1>3. run'[e] = r /\ \A f \in Exporters : f # e => run'[f] = run[f]
  BY DEF IInv, Do
<1>4. \A f \in Exporters : Phase(run[f])' = Phase(run'[f])
  BY DEF Phase
<1>5. \A f \in Exporters : ReadyTables(run[f])' = ReadyTables(run'[f])
  BY DEF ReadyTables, Phase
<1>6. \A f \in Exporters : Placed(run[f])' = Placed(run'[f])
  BY DEF Placed
<1>7. Phases' = [f \in Exporters |-> Phase(run'[f])]
  BY <1>4 DEF Phases
<1>8. Ready' = [f \in Exporters |-> ReadyTables(run'[f])]
  BY <1>5 DEF Ready
<1>9. InPlace' = [f \in Exporters |-> Placed(run'[f])]
  BY <1>6 DEF InPlace
<1>10. Phases' = [Phases EXCEPT ![e] = Phase(r)]
  BY <1>3, <1>7 DEF Phases
<1>11. Ready' = [Ready EXCEPT ![e] = ReadyTables(r)]
  BY <1>3, <1>8 DEF Ready
<1>12. InPlace' = [InPlace EXCEPT ![e] = Placed(r)]
  BY <1>3, <1>9 DEF InPlace
<1> QED BY <1>2, <1>10, <1>11, <1>12

\* The call before the step.
LEMMA SeenOf ==
  ASSUME NEW e \in Exporters
  PROVE  Phases[e] = Phase(run[e]) /\ Ready[e] = ReadyTables(run[e]) /\ InPlace[e] = Placed(run[e])
BY DEF Phases, Ready, InPlace

\* A step that shows nothing.
LEMMA Hidden ==
  ASSUME IInv, NEW e \in Exporters, NEW r, Do(e, r), UNCHANGED <<root, request, directory>>,
         Phase(r) = Phase(run[e]), ReadyTables(r) = ReadyTables(run[e]), r.results = run[e].results
  PROVE  Maps
<1>1. Placed(r) = Placed(run[e])
  BY DEF Placed
<1>2. /\ AskedFor' = AskedFor /\ directory' = directory
      /\ Phases' = Phases /\ Ready' = Ready /\ InPlace' = InPlace
  <2>1. /\ AskedFor' = AskedFor
        /\ Phases'  = [Phases  EXCEPT ![e] = Phase(r)]
        /\ Ready'   = [Ready   EXCEPT ![e] = ReadyTables(r)]
        /\ InPlace' = [InPlace EXCEPT ![e] = Placed(r)]
    BY StepOf
  <2>2. Phases' = Phases /\ Ready' = Ready /\ InPlace' = InPlace
    BY <1>1, <2>1, SeenOf DEF Phases, Ready, InPlace
  <2> QED BY <2>1, <2>2
<1>3. UNCHANGED Published!vars
  BY <1>2 DEF Published!vars, Phases, Ready, InPlace
<1> QED BY <1>3 DEF Maps

\* A call that ends without all of its tables.
LEMMA Stops ==
  ASSUME IInv, NEW e \in Exporters, NEW r, Do(e, r), UNCHANGED <<root, request, directory>>,
         Phase(run[e]) = "open", Phase(r) \in {"refused", "broken"}, r.results = run[e].results,
         Phase(r) = "refused" => r.results = <<>>
  PROVE  Maps
<1>1. Placed(r) = Placed(run[e]) /\ ReadyTables(r) = <<>>
  BY DEF Placed, ReadyTables
<1>2. /\ AskedFor' = AskedFor /\ directory' = directory /\ InPlace' = InPlace
      /\ Phases' = [Phases EXCEPT ![e] = Phase(r)] /\ Ready' = [Ready EXCEPT ![e] = <<>>]
      /\ Phases[e] = "open"
  <2>1. /\ AskedFor' = AskedFor
        /\ Phases'  = [Phases  EXCEPT ![e] = Phase(r)]
        /\ Ready'   = [Ready   EXCEPT ![e] = ReadyTables(r)]
        /\ InPlace' = [InPlace EXCEPT ![e] = Placed(r)]
    BY StepOf
  <2>2. InPlace' = InPlace
    BY <1>1, <2>1, SeenOf DEF InPlace
  <2> QED BY <1>1, <2>1, <2>2, SeenOf
<1>3. CASE Phase(r) = "broken"
  <2>1. Published!Break(e)
    BY <1>2, <1>3 DEF Published!Break, Published!Ends, Phases, Ready, InPlace
  <2> QED BY <2>1 DEF Maps, Published!Next
<1>4. CASE Phase(r) = "refused"
  <2>1. InPlace[e] = <<>>
    <3>1. run[e].results = <<>>
      BY <1>4
    <3>2. Placed(run[e]) = <<>>
      BY <3>1 DEF Placed
    <3> QED BY <3>2, SeenOf
  <2>2. Published!Refuse(e)
    BY <1>2, <1>4, <2>1 DEF Published!Refuse, Published!Ends, Phases, Ready, InPlace
  <2> QED BY <2>2 DEF Maps, Published!Next
<1> QED BY <1>3, <1>4

\* One more table is complete.
LEMMA Completes ==
  ASSUME IInv, NEW e \in Exporters, NEW r, Do(e, r), UNCHANGED <<root, request, directory>>,
         Phase(run[e]) = "open", Phase(r) = "open", run[e].results = <<>>, r.results = <<>>,
         NEW x, IsSequence(ReadyTables(run[e])), ReadyTables(r) = Append(ReadyTables(run[e]), x)
  PROVE  Maps
<1> DEFINE s == ReadyTables(run[e])
           t == ReadyTables(r)
<1>1. Placed(r) = Placed(run[e]) /\ Placed(run[e]) = <<>>
  BY DEF Placed
<1>2. /\ AskedFor' = AskedFor /\ directory' = directory /\ InPlace' = InPlace /\ Phases' = Phases
      /\ Ready' = [Ready EXCEPT ![e] = t] /\ Ready[e] = s
      /\ Phases[e] = "open" /\ InPlace[e] = <<>>
  <2>1. /\ AskedFor' = AskedFor
        /\ Phases'  = [Phases  EXCEPT ![e] = Phase(r)]
        /\ Ready'   = [Ready   EXCEPT ![e] = t]
        /\ InPlace' = [InPlace EXCEPT ![e] = Placed(r)]
    BY StepOf
  <2>2. Phases' = Phases /\ InPlace' = InPlace
    BY <1>1, <2>1, SeenOf DEF Phases, InPlace
  <2> QED BY <1>1, <2>1, <2>2, SeenOf
<1>3. Len(t) = Len(s) + 1 /\ t[Len(s) + 1] = x /\ t = Append(s, x)
  BY AppendIs
<1> HIDE DEF s, t
<1>4. Ready'[e] = t
  BY <1>2 DEF Ready
<1>5. Published!Complete(e)
  <2>1. Len(Ready'[e]) = Len(Ready[e]) + 1
    BY <1>2, <1>3, <1>4
  <2>2. Ready' = [Ready EXCEPT ![e] = Append(Ready[e], Ready'[e][Len(Ready[e]) + 1])]
    BY <1>2, <1>3, <1>4
  <2> QED BY <1>2, <2>1, <2>2 DEF Published!Complete, Phases, Ready, InPlace
<1> QED BY <1>5 DEF Maps, Published!Next

\* The next table is put in place.
LEMMA PutsNext ==
  ASSUME IInv, CInv, NEW e \in Exporters, NEW r, Do(e, r), NEW x, Puts(x),
         Phase(run[e]) = "open", Phase(r) = "open",
         ReadyTables(run[e]) = AskedFor, ReadyTables(r) = AskedFor,
         IsSequence(run[e].results), r.results = Append(run[e].results, x),
         ResultsOK(e, r.results)
  PROVE  Maps
<1> DEFINE old  == run[e].results
           n    == Len(old)
           item == [file |-> x.file, table |-> x.table]
           p    == Placed(run[e])
           q    == Placed(r)
<1>1. /\ IsSequence(r.results) /\ Len(r.results) = n + 1 /\ r.results[n + 1] = x
      /\ \A i \in 1 .. n : r.results[i] = old[i]
      /\ n \in Nat
  <2>1. n \in Nat
    BY DEF IsSequence
  <2> QED BY <2>1, AppendIs
<1>2. n + 1 <= Len(AskedFor) /\ IsSequence(AskedFor) /\ Len(AskedFor) \in Nat
  <2>1. IsSequence(AskedFor)
    BY AskedIs DEF IInv
  <2> QED BY <1>1, <2>1 DEF ResultsOK, IsSequence
<1>3. x.table = AskedFor[n + 1] /\ \A i \in 1 .. n : old[i].file # x.file
  <2>1. n + 1 \in 1 .. n + 1 /\ \A i \in 1 .. n : i \in 1 .. (n + 1) - 1
    BY <1>1
  <2>2. \A t, name, file : Result(name, file, t).table = t /\ Data(t).table = t
    BY DEF Result, Data
  <2>3. x = IF root.class THEN Data(AskedFor[n + 1]) ELSE Result(x.name, x.name, AskedFor[n + 1])
    BY <1>1, <2>1 DEF ResultsOK
  <2>4. x.table = AskedFor[n + 1]
    BY <2>2, <2>3
  <2>5. \A i \in 1 .. n : old[i].file # x.file
    BY <1>1, <2>1 DEF ResultsOK
  <2> QED BY <2>4, <2>5
<1>4. p = [i \in 1 .. n |-> [file |-> old[i].file, table |-> old[i].table]]
  BY DEF Placed, IsSequence
<1>5. q = [i \in 1 .. n + 1 |-> [file |-> r.results[i].file, table |-> r.results[i].table]]
  <2>1. DOMAIN r.results = 1 .. n + 1
    BY <1>1 DEF IsSequence
  <2> QED BY <2>1 DEF Placed
<1>6. IsSequence(p) /\ Len(p) = n /\ DOMAIN p = 1 .. n
  <2>1. DOMAIN p = 1 .. n /\ p = [i \in 1 .. n |-> p[i]]
    BY <1>4
  <2> HIDE DEF p, n
  <2> QED BY <1>1, <2>1, FunctionIs
<1>7. q = Append(p, item)
  <2>1. IsSequence(q) /\ Len(q) = n + 1
    <3>1. n + 1 \in Nat
      BY <1>1
    <3>2. q = [i \in 1 .. n + 1 |-> q[i]]
      BY <1>5
    <3> HIDE DEF q, n
    <3> QED BY <3>1, <3>2, FunctionIs
  <2>2. /\ IsSequence(Append(p, item)) /\ Len(Append(p, item)) = n + 1
        /\ Append(p, item)[n + 1] = item /\ \A i \in 1 .. n : Append(p, item)[i] = p[i]
    <3> HIDE DEF p, item, n
    <3>1. Len(p) = n /\ IsSequence(p)
      BY <1>6
    <3> QED BY <3>1, AppendIs
  <2>3. ASSUME NEW i \in 1 .. n + 1 PROVE q[i] = Append(p, item)[i]
    <3>1. CASE i = n + 1
      BY <1>1, <1>5, <2>2, <3>1
    <3>2. CASE i # n + 1
      <4>1. i \in 1 .. n
        BY <1>1, <3>2
      <4> QED BY <1>1, <1>4, <1>5, <2>2, <4>1
    <3> QED BY <3>1, <3>2
  <2> HIDE DEF q, p, item, n
  <2> QED BY <2>1, <2>2, <2>3, SameSequence
<1>8. /\ AskedFor' = AskedFor /\ Phases' = Phases /\ Ready' = Ready
      /\ InPlace' = [InPlace EXCEPT ![e] = q] /\ InPlace[e] = p
      /\ Phases[e] = "open" /\ Ready[e] = AskedFor
  <2>1. /\ AskedFor' = AskedFor
        /\ Phases'  = [Phases  EXCEPT ![e] = Phase(r)]
        /\ Ready'   = [Ready   EXCEPT ![e] = ReadyTables(r)]
        /\ InPlace' = [InPlace EXCEPT ![e] = q]
    BY StepOf DEF Puts
  <2>2. Phases' = Phases /\ Ready' = Ready
    BY <2>1, SeenOf DEF Phases, Ready
  <2> QED BY <2>1, <2>2, SeenOf
<1>9. \A i \in DOMAIN p : p[i].file # x.file
  BY <1>3, <1>4, <1>6
<1>10. directory' = [f \in DOMAIN directory \cup {x.file} |->
                       IF f = x.file THEN AskedFor[Len(p) + 1] ELSE directory[f]]
  BY <1>3, <1>6 DEF Puts
<1>11. x.file \in DOMAIN directory'
  BY <1>10
<1>12. item = [file |-> x.file, table |-> AskedFor[Len(p) + 1]]
  BY <1>3, <1>6
<1>13. Len(p) < Len(AskedFor)
  BY <1>1, <1>2, <1>6
<1> HIDE DEF p, q, item
<1>14. Published!Place(e, x.file)
  BY <1>7, <1>8, <1>9, <1>10, <1>12, <1>13 DEF Published!Place, Phases, Ready, InPlace
<1> QED BY <1>11, <1>14 DEF Maps, Published!Next

\* A step of a call that is at work and completes nothing.
LEMMA WorkMaps ==
  ASSUME IInv, NEW e \in Exporters, NEW r, Do(e, r), UNCHANGED <<root, request, directory>>,
         run[e].pc \in Working \ {"replace"}, r.pc \in (Working \cup {"cleanup"}) \ {"replace"},
         r.why = run[e].why, r.results = run[e].results, r.pending = run[e].pending
  PROVE  Maps
<1>1. run[e].why = None
  BY DEF IInv, CallOK
<1>2. Phase(run[e]) = "open" /\ Phase(r) = "open"
  BY <1>1, ExportAssumption DEF Phase, Working
<1>3. ReadyTables(r) = ReadyTables(run[e])
  BY <1>2 DEF ReadyTables
<1> QED BY <1>2, <1>3, Hidden

\* A call that raises stops, unless it has stopped before.
LEMMA StopMaps ==
  ASSUME IInv, CInv, NEW e \in Exporters, NEW why \in {"refused", "limit", "fault", "interrupt"},
         NEW r, Do(e, r), UNCHANGED <<root, request, directory>>,
         run[e].pc \in Working \cup {"cleanup"},
         why \in {"refused", "limit"} => run[e].pc \in Working \ {"rename"},
         r.pc = Out(run[e].pc), r.why = Reason(run[e].why, why), r.results = run[e].results
  PROVE  Maps
<1>1. OutputOK(e, run[e]) /\ r.pc # "dead"
  BY DEF CInv, ContentOK, Out
<1>2. CASE run[e].why = None
  <2>1. r.why = why
    BY <1>2 DEF Reason
  <2>2. Phase(run[e]) = "open"
    BY <1>2, ExportAssumption DEF Phase, Working
  <2>3. Phase(r) = IF why \in {"refused", "limit"} THEN "refused" ELSE "broken"
    BY <2>1, ExportAssumption DEF Phase
  <2>4. Phase(r) = "refused" => r.results = <<>>
    BY <1>1, <2>3 DEF OutputOK
  <2>5. Phase(r) \in {"refused", "broken"}
    BY <2>3
  <2> QED BY <2>2, <2>4, <2>5, Stops
<1>3. CASE run[e].why # None
  <2>1. r.why = run[e].why
    BY <1>3 DEF Reason
  <2>2. Phase(r) = Phase(run[e]) /\ Phase(r) \in {"refused", "broken"}
    BY <1>3, <2>1 DEF Phase
  <2>3. ReadyTables(r) = ReadyTables(run[e])
    BY <2>2 DEF ReadyTables
  <2> QED BY <2>2, <2>3, Hidden
<1> QED BY <1>2, <1>3

LEMMA RaiseMaps ==
  ASSUME IInv, CInv, NEW e \in Exporters, NEW why \in {"refused", "limit", "fault"}, Raise(e, why),
         run[e].pc \in Working \cup {"cleanup"},
         why # "fault" => run[e].pc \in Working \ {"rename"}, UNCHANGED <<root, request, directory>>
  PROVE  Maps
<1> DEFINE lapses == run[e].lapses \cup Lapse(run[e].pc)
           then   == Out(run[e].pc)
           cause  == Reason(run[e].why, why)
           r == [run[e] EXCEPT !.pc = then, !.why = cause, !.lapses = lapses,
                               !.temporary = IF run[e].pc = "cleanup" THEN @ ELSE None]
<1> HIDE DEF lapses, then, cause
<1>1. CallOK(run[e])
  BY DEF IInv
<1>2. r.pc = then /\ r.why = cause /\ r.results = run[e].results
  BY <1>1 DEF CallOK, Fields
<1>3. Do(e, r)
  BY DEF Raise, lapses, then, cause
<1> HIDE DEF r
<1> QED BY <1>2, <1>3, StopMaps DEF then, cause

LEMMA EscapeMaps ==
  ASSUME IInv, CInv, NEW e \in Exporters, NEW why \in {"fault", "interrupt"}, Escape(e, why),
         run[e].pc \in Working \cup {"cleanup"}, UNCHANGED <<root, request, directory>>
  PROVE  Maps
<1> DEFINE lapses == run[e].lapses \cup Lapse(run[e].pc)
                       \cup IF run[e].pc \in {"copy", "replace"} THEN {"unlink"} ELSE {}
           then   == Out(run[e].pc)
           cause  == Reason(run[e].why, why)
           r      == [run[e] EXCEPT !.pc = then, !.why = cause, !.lapses = lapses]
<1> HIDE DEF lapses, then, cause
<1>1. CallOK(run[e])
  BY DEF IInv
<1>2. r.pc = then /\ r.why = cause /\ r.results = run[e].results
  BY <1>1 DEF CallOK, Fields
<1>3. Do(e, r)
  BY DEF Escape, lapses, then, cause
<1> HIDE DEF r
<1> QED BY <1>2, <1>3, StopMaps DEF then, cause

LEMMA FailureMaps ==
  ASSUME IInv, CInv, NEW e \in Exporters, Fault(e) \/ DoubleFault(e) \/ Interrupt(e)
  PROVE  Maps
<1>1. run[e].pc \in Working \cup {"cleanup"} /\ UNCHANGED <<root, request, directory>>
  BY DEF Fault, DoubleFault, Interrupt, Still, Ended, IInv, CallOK
<1>2. CASE Fault(e)
  BY <1>1, <1>2, RaiseMaps DEF Fault
<1>3. CASE DoubleFault(e)
  BY <1>1, <1>3, EscapeMaps DEF DoubleFault
<1>4. CASE Interrupt(e)
  BY <1>1, <1>4, EscapeMaps DEF Interrupt
<1> QED BY <1>2, <1>3, <1>4

LEMMA CrashMaps ==
  ASSUME IInv, NEW e \in Exporters, Crash(e)
  PROVE  Maps
<1> DEFINE r == [run[e] EXCEPT !.pc = "dead"]
<1>1. /\ Do(e, r) /\ UNCHANGED <<root, request, directory>> /\ DOMAIN run[e] = Fields
      /\ run[e].pc \notin Ended
  BY DEF Crash, Still, IInv, CallOK
<1>2. r.pc = "dead" /\ r.why = run[e].why /\ r.results = run[e].results
  BY <1>1 DEF Fields
<1> HIDE DEF r
<1>3. CASE run[e].why = None
  <2>1. Phase(run[e]) = "open" /\ Phase(r) = "broken"
    BY <1>1, <1>2, <1>3, ExportAssumption DEF Phase, Ended
  <2> QED BY <1>1, <1>2, <2>1, Stops
<1>4. CASE run[e].why # None
  <2>1. Phase(r) = Phase(run[e]) /\ Phase(r) \in {"refused", "broken"}
    BY <1>2, <1>4 DEF Phase
  <2>2. ReadyTables(r) = ReadyTables(run[e])
    BY <2>1 DEF ReadyTables
  <2> QED BY <1>1, <1>2, <2>1, <2>2, Hidden
<1> QED BY <1>3, <1>4

LEMMA RenamedMaps ==
  ASSUME IInv, NEW e \in Exporters, Renamed(e)
  PROVE  Maps
<1> DEFINE r == [run[e] EXCEPT !.pc = "cleanup"]
<1>1. /\ run[e].pc = "rename" /\ Do(e, r) /\ UNCHANGED <<root, request, directory>>
      /\ DOMAIN run[e] = Fields
  BY DEF Renamed, Still, IInv, CallOK
<1>2. /\ r.pc = "cleanup" /\ r.why = run[e].why /\ r.results = run[e].results
      /\ r.pending = run[e].pending
  BY <1>1 DEF Fields
<1> HIDE DEF r
<1> QED BY <1>1, <1>2, WorkMaps DEF Working

\* The call is over: it succeeds with every table in place, or has stopped.
LEMMA CleanupMaps ==
  ASSUME IInv, CInv, NEW e \in Exporters, Cleanup(e)
  PROVE  Maps
<1> DEFINE c == run[e]
<1> PICK removed \in BOOLEAN :
      Do(e, [run[e] EXCEPT !.pc = IF run[e].why = None THEN "done" ELSE "failed",
                           !.stage = ~removed,
                           !.lapses = IF removed THEN @ ELSE @ \cup {"rmtree"},
                           !.temporary = IF run[e].single \/ ~removed THEN @ ELSE None])
  BY Zenon DEF Cleanup
<1> DEFINE stage  == ~removed
           lapses == IF removed THEN c.lapses ELSE c.lapses \cup {"rmtree"}
           file   == IF c.single \/ ~removed THEN c.temporary ELSE None
           r == [c EXCEPT !.pc = IF c.why = None THEN "done" ELSE "failed",
                          !.stage = stage, !.lapses = lapses, !.temporary = file]
<1>1. /\ c.pc = "cleanup" /\ Do(e, r) /\ UNCHANGED <<root, request, directory>>
      /\ DOMAIN c = Fields /\ OutputOK(e, c)
  BY DEF Cleanup, Still, IInv, CallOK, CInv, ContentOK
<1> HIDE DEF stage, lapses, file
<1>2. /\ r.pc = (IF c.why = None THEN "done" ELSE "failed") /\ r.why = c.why
      /\ r.results = c.results /\ r.pending = c.pending /\ r.single = c.single
  BY <1>1 DEF Fields
<1> HIDE DEF r
<1>3. CASE c.why # None
  <2>1. Phase(r) = Phase(c) /\ Phase(r) \in {"refused", "broken"}
    BY <1>1, <1>2, <1>3 DEF Phase
  <2>2. ReadyTables(r) = ReadyTables(c)
    BY <2>1 DEF ReadyTables
  <2> QED BY <1>1, <1>2, <2>1, <2>2, Hidden
<1>4. CASE c.why = None
  <2>1. Phase(c) = "open" /\ Phase(r) = "done"
    BY <1>1, <1>2, <1>4, ExportAssumption DEF Phase
  <2>2. ReadyTables(r) = ReadyTables(c) /\ Placed(r) = Placed(c)
    <3>1. Placed(r) = Placed(c)
      BY <1>2 DEF Placed
    <3> QED BY <1>1, <1>2, <1>4, <2>1, <3>1 DEF ReadyTables
  <2>3. Len(Placed(c)) = Len(AskedFor)
    <3>1. Len(c.results) = Len(AskedFor) /\ IsSequence(c.results)
      BY <1>1, <1>4 DEF OutputOK, Accepted, ResultsOK
    <3> DEFINE p == Placed(c)
               n == Len(c.results)
    <3>2. p = [i \in 1 .. n |-> [file |-> c.results[i].file, table |-> c.results[i].table]]
      BY <3>1 DEF Placed, IsSequence
    <3>3. p = [i \in 1 .. n |-> p[i]] /\ n \in Nat
      BY <3>1, <3>2 DEF IsSequence
    <3> HIDE DEF p, n
    <3>4. Len(p) = n
      BY <3>3, FunctionIs
    <3> QED BY <3>1, <3>4 DEF p, n
  <2>4. /\ AskedFor' = AskedFor /\ directory' = directory
        /\ Phases' = [Phases EXCEPT ![e] = "done"] /\ Ready' = Ready /\ InPlace' = InPlace
        /\ Phases[e] = "open" /\ InPlace[e] = Placed(c)
    <3>1. /\ AskedFor' = AskedFor
          /\ Phases'  = [Phases  EXCEPT ![e] = Phase(r)]
          /\ Ready'   = [Ready   EXCEPT ![e] = ReadyTables(r)]
          /\ InPlace' = [InPlace EXCEPT ![e] = Placed(r)]
      BY <1>1, StepOf
    <3>2. Ready' = Ready /\ InPlace' = InPlace
      BY <2>2, <3>1, SeenOf DEF Ready, InPlace
    <3> QED BY <1>1, <2>1, <3>1, <3>2, SeenOf
  <2>5. Published!Finish(e)
    BY <2>3, <2>4 DEF Published!Finish, Published!Ends, Phases, Ready, InPlace
  <2> QED BY <2>5 DEF Maps, Published!Next
<1> QED BY <1>3, <1>4

LEMMA ChecksMaps ==
  ASSUME IInv, CInv, NEW e \in Exporters, Checks(e)
  PROVE  Maps
<1> DEFINE r == [run[e] EXCEPT !.pc = "made", !.stage = TRUE]
<1>1. run[e].pc = "start" /\ UNCHANGED <<root, request, directory>> /\ DOMAIN run[e] = Fields
  BY DEF Checks, At, Still, IInv, CallOK
<1>2. CASE Raise(e, "refused") \/ Raise(e, "limit")
  BY <1>1, <1>2, RaiseMaps DEF Working
<1>3. CASE Do(e, r)
  <2>1. /\ r.pc = "made" /\ r.why = run[e].why /\ r.results = run[e].results
        /\ r.pending = run[e].pending
    BY <1>1 DEF Fields
  <2> HIDE DEF r
  <2> QED BY <1>1, <1>3, <2>1, WorkMaps DEF Working
<1> QED BY <1>2, <1>3 DEF Checks

LEMMA EnterTryMaps ==
  ASSUME IInv, NEW e \in Exporters, EnterTry(e)
  PROVE  Maps
<1> DEFINE then == IF Engine[e] = "duckdb" THEN "first" ELSE "write"
           r    == [run[e] EXCEPT !.pc = then]
<1> HIDE DEF then
<1>1. /\ run[e].pc = "made" /\ UNCHANGED <<root, request, directory>> /\ Do(e, r)
      /\ DOMAIN run[e] = Fields
  BY DEF EnterTry, Still, IInv, CallOK, then
<1>2. /\ r.pc = then /\ r.why = run[e].why /\ r.results = run[e].results
      /\ r.pending = run[e].pending
  BY <1>1 DEF Fields
<1> HIDE DEF r
<1>3. then \in {"first", "write"}
  BY DEF then
<1> QED BY <1>1, <1>2, <1>3, WorkMaps DEF Working

LEMMA FirstMaps ==
  ASSUME IInv, CInv, NEW e \in Exporters, First(e)
  PROVE  Maps
<1> DEFINE held == root.children[1].is # "nil"
           list   == [run[e] EXCEPT !.pc = "table", !.at = 1]
           single == [run[e] EXCEPT !.pc = "columns", !.single = TRUE, !.at = 1, !.held = held]
<1>1. run[e].pc = "first" /\ UNCHANGED <<root, request, directory>> /\ DOMAIN run[e] = Fields
  BY DEF First, At, Still, IInv, CallOK
<1>2. Raise(e, "refused") \/ Raise(e, "limit") \/ Do(e, list) \/ Do(e, single)
  BY DEF First, AsList
<1> HIDE DEF held
<1>3. CASE Raise(e, "refused") \/ Raise(e, "limit")
  BY <1>1, <1>3, RaiseMaps DEF Working
<1>4. CASE Do(e, list)
  <2>1. /\ list.pc = "table" /\ list.why = run[e].why /\ list.results = run[e].results
        /\ list.pending = run[e].pending
    BY <1>1 DEF Fields
  <2> HIDE DEF list
  <2> QED BY <1>1, <1>4, <2>1, WorkMaps DEF Working
<1>5. CASE Do(e, single)
  <2>1. /\ single.pc = "columns" /\ single.why = run[e].why /\ single.results = run[e].results
        /\ single.pending = run[e].pending
    BY <1>1 DEF Fields
  <2> HIDE DEF single
  <2> QED BY <1>1, <1>5, <2>1, WorkMaps DEF Working
<1> QED BY <1>2, <1>3, <1>4, <1>5

LEMMA TableInTurnMaps ==
  ASSUME IInv, CInv, NEW e \in Exporters, TableInTurn(e)
  PROVE  Maps
<1> DEFINE t == run[e].table
           r == [run[e] EXCEPT !.at = t + 1,
                   !.table = IF Selected(t) THEN @ ELSE t + 1,
                   !.pc = IF Selected(t) THEN "columns" ELSE "table",
                   !.col = 0, !.rows = None, !.batch = <<>>, !.bytes = 0, !.staged = <<>>]
<1>1. run[e].pc = "table" /\ UNCHANGED <<root, request, directory>> /\ DOMAIN run[e] = Fields
  BY DEF TableInTurn, At, Still, IInv, CallOK
<1>2. Raise(e, "refused") \/ Do(e, r)
  BY DEF TableInTurn
<1>3. CASE Raise(e, "refused")
  BY <1>1, <1>3, RaiseMaps DEF Working
<1>4. CASE Do(e, r)
  <2>1. /\ r.pc = (IF Selected(t) THEN "columns" ELSE "table") /\ r.why = run[e].why
        /\ r.results = run[e].results /\ r.pending = run[e].pending
    BY <1>1 DEF Fields
  <2> HIDE DEF r
  <2> QED BY <1>1, <1>4, <2>1, WorkMaps DEF Working
<1> QED BY <1>2, <1>3, <1>4

LEMMA RootAttributesMaps ==
  ASSUME IInv, CInv, NEW e \in Exporters, RootAttributes(e)
  PROVE  Maps
<1> DEFINE r == [run[e] EXCEPT !.pc = "rename"]
<1>1. run[e].pc = "table" /\ UNCHANGED <<root, request, directory>> /\ DOMAIN run[e] = Fields
  BY DEF RootAttributes, At, Still, IInv, CallOK
<1>2. Raise(e, "refused") \/ Do(e, r)
  BY DEF RootAttributes
<1>3. CASE Raise(e, "refused")
  BY <1>1, <1>3, RaiseMaps DEF Working
<1>4. CASE Do(e, r)
  <2>1. /\ r.pc = "rename" /\ r.why = run[e].why /\ r.results = run[e].results
        /\ r.pending = run[e].pending
    BY <1>1 DEF Fields
  <2> HIDE DEF r
  <2> QED BY <1>1, <1>4, <2>1, WorkMaps DEF Working
<1> QED BY <1>2, <1>3, <1>4

LEMMA ColumnMaps ==
  ASSUME IInv, CInv, NEW e \in Exporters, Column(e)
  PROVE  Maps
<1> DEFINE c    == run[e]
           i    == NextItem(e)
           item == IF i <= Len(Items(e)) THEN Items(e)[i] ELSE Attributes
           b    == Batched(c, i, item)
           r    == [b EXCEPT !.col = @ + 1, !.rows = item.rows, !.at = IF c.single THEN i ELSE @]
<1>1. c.pc = "columns" /\ UNCHANGED <<root, request, directory>> /\ DOMAIN c = Fields
  BY DEF Column, At, Still, IInv, CallOK
<1>2. Raise(e, "refused") \/ Do(e, r)
  BY DEF Column
<1> HIDE DEF i, item
<1>3. CASE Raise(e, "refused")
  BY <1>1, <1>3, RaiseMaps DEF Working
<1>4. CASE Do(e, r)
  <2>1. /\ DOMAIN b = Fields /\ b.pc = c.pc /\ b.why = c.why /\ b.results = c.results
        /\ b.pending = c.pending
    BY <1>1 DEF Fields, Batched
  <2> HIDE DEF b
  <2>2. r.pc = "columns" /\ r.why = c.why /\ r.results = c.results /\ r.pending = c.pending
    BY <1>1, <2>1 DEF Fields
  <2> HIDE DEF r
  <2> QED BY <1>1, <1>4, <2>2, WorkMaps DEF Working
<1> QED BY <1>2, <1>3, <1>4

LEMMA LastBatchMaps ==
  ASSUME IInv, CInv, NEW e \in Exporters, LastBatch(e)
  PROVE  Maps
<1> DEFINE c == run[e]
           r == [c EXCEPT !.pc = "copy", !.staged = Append(@, c.batch),
                          !.batch = <<>>, !.temporary = Partial]
<1>1. c.pc = "columns" /\ UNCHANGED <<root, request, directory>> /\ DOMAIN c = Fields
  BY DEF LastBatch, At, Still, IInv, CallOK
<1>2. Raise(e, "refused") \/ Do(e, r)
  BY DEF LastBatch
<1>3. CASE Raise(e, "refused")
  BY <1>1, <1>3, RaiseMaps DEF Working
<1>4. CASE Do(e, r)
  <2>1. r.pc = "copy" /\ r.why = c.why /\ r.results = c.results /\ r.pending = c.pending
    BY <1>1 DEF Fields
  <2> HIDE DEF r
  <2> QED BY <1>1, <1>4, <2>1, WorkMaps DEF Working
<1> QED BY <1>2, <1>3, <1>4

LEMMA ReadArrowMaps ==
  ASSUME IInv, CInv, NEW e \in Exporters, ReadArrow(e)
  PROVE  Maps
<1> DEFINE tables == AllTables
           r      == [run[e] EXCEPT !.pc = "made", !.stage = TRUE, !.single = root.class,
                                    !.todo = tables]
<1>1. run[e].pc = "start" /\ UNCHANGED <<root, request, directory>> /\ DOMAIN run[e] = Fields
  BY DEF ReadArrow, At, Still, IInv, CallOK
<1>2. Raise(e, "refused") \/ Raise(e, "limit") \/ Do(e, r)
  BY DEF ReadArrow
<1> HIDE DEF tables
<1>3. CASE Raise(e, "refused") \/ Raise(e, "limit")
  BY <1>1, <1>3, RaiseMaps DEF Working
<1>4. CASE Do(e, r)
  <2>1. r.pc = "made" /\ r.why = run[e].why /\ r.results = run[e].results /\ r.pending = run[e].pending
    BY <1>1 DEF Fields
  <2> HIDE DEF r
  <2> QED BY <1>1, <1>4, <2>1, WorkMaps DEF Working
<1> QED BY <1>2, <1>3, <1>4

\* What a call has complete before it puts anything in place.
LEMMA ReadyBefore ==
  ASSUME NEW r, Phase(r) = "open", r.results = <<>>, r.pc # "replace" \/ ~r.single
  PROVE  ReadyTables(r) = r.pending
BY DEF ReadyTables

\* The columns of a table are merged: a root that is one table is complete.
LEMMA MergeMaps ==
  ASSUME IInv, CInv, NEW e \in Exporters, Merge(e)
  PROVE  Maps
<1> DEFINE c      == run[e]
           merged == Table(c.table, FlattenSeq(c.staged))
           r      == [c EXCEPT !.pc = "replace", !.temporary = merged]
<1>1. /\ c.pc = "copy" /\ Engine[e] = "duckdb" /\ Do(e, r)
      /\ UNCHANGED <<root, request, directory>> /\ DOMAIN c = Fields
  BY DEF Merge, At, Still, IInv, CallOK
<1>2. DuckContent(c) /\ OutputOK(e, c) /\ c.why = None
  BY <1>1 DEF CInv, ContentOK, IInv, CallOK, Working
<1> HIDE DEF merged
<1>3. /\ r.pc = "replace" /\ r.why = None /\ r.single = c.single /\ r.temporary = merged
      /\ r.pending = c.pending /\ r.results = <<>> /\ c.results = <<>>
  BY <1>1, <1>2 DEF Fields, OutputOK, Working
<1> HIDE DEF r
<1>4. Phase(c) = "open" /\ Phase(r) = "open"
  BY <1>1, <1>2, <1>3, ExportAssumption DEF Phase
<1>5. ReadyTables(c) = c.pending
  BY <1>1, <1>3, <1>4, ReadyBefore
<1>6. CASE c.single
  <2>1. c.pending = <<>>
    BY <1>1, <1>2, <1>6 DEF DuckContent, InTable
  <2>2. ReadyTables(r) = <<merged>>
    BY <1>3, <1>4, <1>6, <2>1 DEF ReadyTables
  <2>3. <<merged>> = Append(<<>>, merged)
    OBVIOUS
  <2>4. ReadyTables(r) = Append(ReadyTables(c), merged) /\ IsSequence(ReadyTables(c))
    BY <1>5, <2>1, <2>2, <2>3, EmptyIs
  <2> HIDE DEF c
  <2> QED BY <1>1, <1>3, <1>4, <2>4, Completes DEF c
<1>7. CASE ~c.single
  <2>1. ReadyTables(r) = c.pending
    BY <1>3, <1>4, <1>7, ReadyBefore
  <2> QED BY <1>1, <1>3, <1>4, <1>5, <2>1, Hidden
<1> QED BY <1>6, <1>7

LEMMA ReplaceSingleMaps ==
  ASSUME IInv, CInv, NEW e \in Exporters, ReplaceSingle(e)
  PROVE  Maps
<1> DEFINE c       == run[e]
           x       == Data(c.temporary)
           results == <<x>>
           r       == [c EXCEPT !.pc = "cleanup", !.temporary = None, !.results = results]
<1>1. /\ At(e, "duckdb", "replace") /\ c.pc = "replace" /\ Engine[e] = "duckdb" /\ c.single
      /\ Do(e, r) /\ Puts(x) /\ UNCHANGED <<root, request>>
      /\ CallOK(c) /\ DuckOK(c) /\ World
  BY InTableIs DEF ReplaceSingle, At, Puts, InTable
<1>2. DuckContent(c) /\ OutputOK(e, c) /\ DOMAIN c = Fields /\ c.why = None
  BY <1>1 DEF CInv, ContentOK, CallOK, Working
<1>3. root.class
  BY <1>1 DEF DuckOK, SingleAccepted
<1>4. c.temporary = Table(0, All(root.children)) /\ c.pending = <<>> /\ c.results = <<>>
  BY <1>1, <1>2 DEF DuckContent, ColumnsOK, ItemsFor, InTable, OutputOK, Working
<1> DEFINE t == c.temporary
<1>5. AskedFor = <<t>>
  BY <1>3, <1>4 DEF AskedFor
<1> HIDE DEF results, x
<1>6. /\ r.pc = "cleanup" /\ r.why = None /\ r.single = c.single /\ r.pending = <<>>
      /\ r.results = results
  BY <1>2, <1>4 DEF Fields
<1> HIDE DEF r, t
<1>7. results = Append(c.results, x) /\ IsSequence(c.results)
  BY <1>4, EmptyIs DEF results
<1>8. Phase(c) = "open" /\ Phase(r) = "open"
  BY <1>1, <1>2, <1>6, ExportAssumption DEF Phase
<1>9. ReadyTables(c) = AskedFor
  BY <1>1, <1>4, <1>5, <1>8 DEF ReadyTables, t
<1>10. ReadyTables(r) = AskedFor
  <2>1. x.table = t
    BY DEF x, t, Data, Result
  <2>2. ReadyTables(r) = [i \in DOMAIN results |-> results[i].table]
    BY <1>6, <1>8 DEF ReadyTables
  <2>3. results = <<x>>
    BY DEF results
  <2>4. [i \in DOMAIN <<x>> |-> <<x>>[i].table] = <<x.table>>
    OBVIOUS
  <2> QED BY <1>5, <2>1, <2>2, <2>3, <2>4
<1>11. ResultsOK(e, r.results)
  <2>1. CInv'
    BY ReplaceSingleContent
  <2>2. run'[e] = r
    BY <1>1 DEF IInv, Do
  <2>3. ResultsOK(e, run[e].results)'
    BY <2>1 DEF CInv, ContentOK, OutputOK
  <2>4. /\ AskedFor' = AskedFor /\ _root_to_arrow' = _root_to_arrow /\ Places[Count]' = Places[Count]
        /\ root' = root /\ request' = request
    <3>1. root' = root /\ request' = request
      BY <1>1
    <3> QED BY <3>1 DEF AskedFor, Chosen, Whole, Table, All, Selected, Count, Places,
                        _root_to_arrow, NameOf, _unique_name, _safe_name
  <2> QED BY <2>2, <2>3, <2>4 DEF ResultsOK
<1> HIDE DEF c
<1> QED BY <1>1, <1>6, <1>7, <1>8, <1>9, <1>10, <1>11, PutsNext DEF c

\* A table of a list is complete.
LEMMA ReplaceInListMaps ==
  ASSUME IInv, CInv, NEW e \in Exporters, ReplaceInList(e)
  PROVE  Maps
<1> DEFINE c == run[e]
           t == c.table
           x == c.temporary
           r == [c EXCEPT !.pc = Renaming(e, t), !.table = t + 1, !.temporary = None,
                          !.pending = Append(@, x)]
<1>1. /\ At(e, "duckdb", "replace") /\ ~c.single /\ UNCHANGED <<root, request, directory>>
      /\ Do(e, r)
  BY DEF ReplaceInList, Still
<1>2. /\ c.pc = "replace" /\ Engine[e] = "duckdb" /\ c.why = None
      /\ CallOK(c) /\ World /\ Count \in Nat /\ t \in 0 .. Count - 1
  BY <1>1, InTableIs DEF InTable
<1>3. DOMAIN c = Fields /\ DuckContent(c) /\ c.results = <<>>
  BY <1>1, <1>2 DEF CallOK, CInv, ContentOK, OutputOK, Working
<1>4. /\ r.pc \in {"rename", "table"} /\ r.why = None /\ r.single = c.single
      /\ r.pending = Append(c.pending, x) /\ r.results = <<>>
  BY <1>2, <1>3 DEF Fields, Renaming
<1> HIDE DEF r
<1>5. IsSequence(c.pending)
  <2>1. c.pending = Chosen(Whole)[t]
    BY <1>1, <1>2, <1>3 DEF DuckContent, InTable
  <2>2. t \in 0 .. Count
    BY <1>2
  <2> QED BY <1>2, <2>1, <2>2, ChosenWhole
<1>6. Phase(c) = "open" /\ Phase(r) = "open"
  BY <1>2, <1>4, ExportAssumption DEF Phase
<1>7. ReadyTables(c) = c.pending
  BY <1>1, <1>3, <1>6, ReadyBefore
<1>8. ReadyTables(r) = r.pending
  BY <1>4, <1>6, ReadyBefore
<1> HIDE DEF c, x
<1> QED BY <1>1, <1>3, <1>4, <1>5, <1>6, <1>7, <1>8, Completes DEF c

LEMMA WriteTableMaps ==
  ASSUME IInv, CInv, NEW e \in Exporters, WriteTable(e)
  PROVE  Maps
<1> DEFINE c    == run[e]
           n    == Len(c.pending) + 1
           last == n = Len(c.todo)
           x    == c.todo[n].table
           r    == [c EXCEPT !.pending = Append(@, x), !.pc = IF last THEN "rename" ELSE "write"]
<1>1. /\ c.pc = "write" /\ Engine[e] = "pyarrow" /\ UNCHANGED <<root, request, directory>>
      /\ CallOK(c) /\ ArrowContent(c) /\ OutputOK(e, c) /\ Do(e, r) /\ DOMAIN c = Fields
  BY DEF WriteTable, At, Still, IInv, CInv, ContentOK, CallOK
<1>2. IsSequence(c.pending) /\ c.results = <<>> /\ c.why = None
  BY <1>1 DEF ArrowContent, OutputOK, CallOK, Working
<1> HIDE DEF last, x
<1>3. /\ r.pc \in {"rename", "write"} /\ r.why = None /\ r.results = <<>>
      /\ r.pending = Append(c.pending, x)
  BY <1>1, <1>2 DEF Fields
<1> HIDE DEF r
<1>4. Phase(c) = "open" /\ Phase(r) = "open"
  BY <1>1, <1>2, <1>3, ExportAssumption DEF Phase
<1>5. ReadyTables(c) = c.pending
  BY <1>1, <1>2, <1>4, ReadyBefore
<1>6. ReadyTables(r) = r.pending
  BY <1>3, <1>4, ReadyBefore
<1> HIDE DEF c
<1> QED BY <1>1, <1>2, <1>3, <1>4, <1>5, <1>6, Completes DEF c

LEMMA RenameMaps ==
  ASSUME IInv, CInv, NEW e \in Exporters, Rename(e)
  PROVE  Maps
<1> DEFINE c   == run[e]
           x   == ResultInTurn(e)
           all == Append(c.results, x)
           r   == [c EXCEPT !.results = all]
<1>1. /\ c.pc = "rename" /\ Do(e, r) /\ Puts(x) /\ UNCHANGED <<root, request>> /\ CallOK(c)
      /\ DOMAIN c = Fields /\ Len(c.results) < Len(c.pending)
  BY DEF Rename, Puts, IInv, CallOK
<1>2. ResultsOK(e, all)
  BY <1>1, ResultInTurnIs
<1>3. c.pending = AskedFor /\ IsSequence(c.results) /\ c.why = None
  BY <1>1 DEF CInv, ContentOK, OutputOK, ResultsOK, CallOK, Working
<1> HIDE DEF all, x
<1>4. r.pc = "rename" /\ r.why = None /\ r.pending = c.pending /\ r.results = all
  BY <1>1, <1>3 DEF Fields
<1> HIDE DEF r
<1>5. Phase(c) = "open" /\ Phase(r) = "open"
  BY <1>1, <1>3, <1>4, ExportAssumption DEF Phase
<1>6. c.pending # <<>>
  <2>1. Len(c.results) \in Nat
    BY <1>3 DEF IsSequence
  <2> QED BY <1>1, <2>1, EmptyIs
<1>7. ReadyTables(c) = AskedFor /\ ReadyTables(r) = AskedFor
  BY <1>3, <1>4, <1>5, <1>6 DEF ReadyTables
<1>8. r.results = Append(c.results, x) /\ ResultsOK(e, r.results)
  BY <1>2, <1>4 DEF all
<1> HIDE DEF c
<1> QED BY <1>1, <1>3, <1>5, <1>7, <1>8, PutsNext DEF c

LEMMA InitMaps ==
  ASSUME Init PROVE Published!Init
<1>1. \A e \in Exporters : run[e] = Started
  BY DEF Init
<1>2. Started.why = None /\ Started.pc = "start" /\ Started.pending = <<>> /\ Started.results = <<>>
  BY DEF Started
<1>3. Phase(Started) = "open"
  BY <1>2, ExportAssumption DEF Phase
<1>4. ReadyTables(Started) = <<>>
  BY <1>2, <1>3, ReadyBefore
<1>5. Placed(Started) = <<>>
  BY <1>2 DEF Placed
<1> QED BY <1>1, <1>3, <1>4, <1>5 DEF Published!Init

LEMMA NextMaps ==
  ASSUME IInv, CInv, [Next]_vars
  PROVE  Maps
<1>1. CASE Next
  <2> PICK e \in Exporters :
        DuckDB(e) \/ PyArrow(e) \/ EnterTry(e) \/ Rename(e) \/ Renamed(e) \/ Cleanup(e)
        \/ Failure(e)
    BY <1>1 DEF Next
  <2>1. CASE DuckDB(e)
    BY <2>1, ChecksMaps, FirstMaps, TableInTurnMaps, RootAttributesMaps, ColumnMaps,
       LastBatchMaps, MergeMaps, ReplaceSingleMaps, ReplaceInListMaps DEF DuckDB
  <2>2. CASE PyArrow(e)
    BY <2>2, ReadArrowMaps, WriteTableMaps DEF PyArrow
  <2>3. CASE EnterTry(e) \/ Rename(e) \/ Renamed(e) \/ Cleanup(e)
    BY <2>3, EnterTryMaps, RenameMaps, RenamedMaps, CleanupMaps
  <2>4. CASE Failure(e)
    BY <2>4, FailureMaps, CrashMaps DEF Failure
  <2> QED BY <2>1, <2>2, <2>3, <2>4
<1>2. CASE UNCHANGED vars
  <2>1. root' = root /\ request' = request /\ run' = run /\ directory' = directory
    BY <1>2 DEF vars
  <2>2. AskedFor' = AskedFor
    BY <2>1 DEF AskedFor, Chosen, Whole, Table, All, Selected, Count
  <2>3. Phases' = Phases /\ Ready' = Ready /\ InPlace' = InPlace
    BY <2>1 DEF Phases, Ready, InPlace, Phase, ReadyTables, Placed
  <2>4. UNCHANGED Published!vars
    BY <2>1, <2>2, <2>3 DEF Published!vars, Phases, Ready, InPlace
  <2> QED BY <2>4 DEF Maps
<1> QED BY <1>1, <1>2

\* Both engines keep the promise of README.md:396 and CHANGELOG.md:225, through
\* refusals, limits, faults, interrupts and crashes: tables appear one by one, each
\* whole and in a file of its own, and only when all that are asked for are complete.
THEOREM ImplementsPublication == Spec => Publishes
<1>1. Init => Published!Init
  BY InitMaps
<1>2. IInv /\ CInv /\ [Next]_vars => [Published!Next]_(Published!vars)
  BY NextMaps DEF Maps
<1> QED BY <1>1, <1>2, Contained, PTL DEF Spec, Publishes, Published!Spec
=============================================================================
