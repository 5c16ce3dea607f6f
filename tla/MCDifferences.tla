--------------------------- MODULE MCDifferences ---------------------------
(* Files that differ in one respect or another: also doubles, of columns     *)
(* and of tables, and cells that are missing.                                 *)
EXTENDS Differences

Column(name, kind, levels, cells) ==
  [name |-> name, kind |-> kind, altrep |-> FALSE, levels |-> levels, detail |-> <<"double">>, cells |-> cells]
Compact(column) == [column EXCEPT !.altrep = TRUE]

Ints(name, cells) == Column(name, "integer", <<>>, cells)
Dbls(name, cells) == Column(name, "double", <<>>, cells)
Chrs(name, cells) == Column(name, "character", <<>>, cells)
Cplx(name, cells) == Column(name, "complex", <<>>, cells)
Of(detail, column) == [column EXCEPT !.detail = detail]

Table(name, columns) == [name |-> name, rows |-> Len(columns[1].cells), columns |-> columns]
File(compression, tables) == [compression |-> compression, tables |-> tables]
One(columns) == File("gzip", << Table("data", columns) >>)

\* R's missing integers are nulls, its missing doubles NaN.
Cells(missing) == [1 .. 2 -> {"x", missing}]

SomeHoled == {"hole"}

SomeContents ==
  { One(<< Cplx("a", cells) >>) : cells \in Cells("hole") } \cup
  { One(<< Of(zone, Column("a", "datetime", <<>>, <<"x", Null>>)) >>) : zone \in {"UTC", "CET"} } \cup
  { One(<< Of(type, Column("a", "list", <<>>, cells)) >>) :
      type \in {<<"double">>, <<"list">>}, cells \in {<<"x", NaN>>, <<"x", "hole">>, <<"x", Null>>} } \cup
  { One(<< Dbls("a", cells) >>) : cells \in Cells(NaN) } \cup
  { One(<< Ints("a", cells) >>) : cells \in Cells(Null) } \cup
  { One(<< Ints("a", <<"x", "x">>), Ints("a", <<"y", "x">>) >>),
    One(<< Ints("a", <<"x", "x">>), Dbls("a", <<"y", "x">>) >>),
    One(<< Ints("b", <<"x", "x">>), Ints("a", <<"y", "x">>), Ints("a", <<"x", "x">>) >>),
    One(<< Ints("a", <<"x", "x">>), Ints("b", <<"x", "x">>), Ints("a", <<"y", "x">>) >>),
    One(<< Ints("a", <<"x">>), Ints("b", <<"x">>) >>),
    One(<< Compact(Ints("a", <<"x", "x">>)) >>),
    One(<< Compact(Chrs("a", <<"y", "x">>)) >>),
    One(<< Column("a", "factor", <<"x", "y">>, <<"x", Null>>) >>),
    One(<< Column("a", "factor", <<"y", "x">>, <<"x", Null>>) >>),
    File("none", << Table("data", << Ints("a", <<"x", "x">>), Ints("a", <<"y", "x">>) >>) >>),
    File("gzip", << Table("s", << Ints("a", <<"x">>) >>), Table("t", << Ints("a", <<"y">>) >>) >>),
    File("gzip", << Table("t", << Ints("a", <<"y">>) >>), Table("s", << Ints("a", <<"x">>) >>) >>),
    File("gzip", << Table("t", << Ints("a", <<"x">>) >>), Table("t", << Ints("a", <<"y">>) >>) >>),
    File("gzip", << Table("t", << Ints("a", <<"y">>) >>) >>) }
=============================================================================
