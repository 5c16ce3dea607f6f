--------------------------- MODULE MCParquetExport ---------------------------
(* One call with each engine, for one file and one request, into one place. *)
EXTENDS ParquetExport

CONSTANTS duck, arrow

OneOfEach == (duck :> "duckdb") @@ (arrow :> "pyarrow")

\* What is left of "A", "A 2" and "...".
SomeNames == ("A" :> <<"a">>) @@ ("A 2" :> <<"a", 2>>) @@ ("..." :> <<>>)

\* From an earlier conversion.
SomeFiles == {<<>>, <<"a">>}

Col(rows, bytes) == [is |-> "vector", rows |-> rows, bytes |-> bytes]
Vector(rows, bytes) == Col(rows, bytes) @@ [name |-> "A", items |-> <<>>]
Nil == [Vector(0, 0) EXCEPT !.is = "nil"]
Frame(name, items) ==
  [is |-> "frame", rows |-> Len(items), bytes |-> 1, name |-> name, items |-> items]
List(items) == [Frame("A", items) EXCEPT !.is = "list"]

c1 == Col(1, 1)
v1 == Vector(1, 1)

\* data.frames: in batches, ragged, with a list-column first, without columns,
\* with a data.frame first or later, with nothing but data.frames.
DataFrames ==
  { <<v1, v1, v1, Vector(1, 2), v1>>, <<v1, Vector(1, 5), v1>>, <<v1, Vector(2, 1)>>,
    <<List(<<c1>>), v1>>, <<>>, <<Frame("A", <<c1>>), v1>>, <<v1, Frame("A", <<c1>>)>>,
    <<Frame("A", <<c1>>), Frame("A 2", <<c1>>)>>,
    <<Frame("A", <<[c1 EXCEPT !.is = "frame"]>>)>> }

\* Lists: of one and of several tables, whose names clash with one another and
\* with the numbers appended; with a table that is ragged, has no columns or
\* holds a data.frame; with something else among the tables.
Lists ==
  { <<Frame("A", <<c1, Col(1, 2), c1>>)>>,
    <<Frame("A", <<c1>>), Frame("A", <<c1, c1>>)>>,
    <<Frame("A", <<c1>>), Frame("A 2", <<c1>>), Frame("A", <<c1>>)>>,
    <<Frame("...", <<c1>>), Frame("A 2", <<c1>>), Frame("...", <<c1>>)>>,
    <<Frame("A", <<c1>>), Frame("A 2", <<c1, Col(2, 1)>>)>>,
    <<Frame("A", <<c1, Col(2, 1)>>), Frame("A 2", <<c1>>)>>,
    <<Frame("A", <<c1>>), Frame("A 2", <<>>)>>,
    <<Frame("A", <<c1>>), Frame("A", <<[c1 EXCEPT !.is = "frame"]>>)>>,
    <<Frame("A", <<c1>>), List(<<c1>>)>>, <<Frame("A", <<c1>>), v1>>,
    <<v1, Frame("A", <<c1>>)>>, <<List(<<c1>>), Frame("A", <<c1>>)>>, <<>> }

\* R's NULL in front: a list, or what would be a data.frame of a column less.
Nils == { <<Nil, v1>>, <<Nil, Frame("A", <<c1>>)>>, <<Nil, Vector(3, 1)>> }

SomeRoots ==
  { [class |-> TRUE,  children |-> cs] : cs \in DataFrames \cup Nils }
    \cup { [class |-> FALSE, children |-> cs] : cs \in Lists \cup Nils }
=============================================================================
