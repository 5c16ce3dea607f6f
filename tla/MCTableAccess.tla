---------------------------- MODULE MCTableAccess ----------------------------
(* Files of every shape, each of which may take the place of another while  *)
(* it is read.                                                              *)
EXTENDS TableAccess

a  == <<"a">>
a2 == <<"a", "2">>
b  == <<"b">>
n  == <<"n">>
V1 == <<"V", "1">>

SomeUnflagged == {n}

\* The value of a column tells it from every other column of every file.
Col(name, value) == [name |-> name, type |-> IF value % 2 = 0 THEN "int" ELSE "chr", value |-> value]
Frame(names, from) == [i \in DOMAIN names |-> Col(names[i], from + i)]

Root(codec, names, from) ==
  [codec |-> codec, listed |-> FALSE, names |-> <<Blank>>, tables |-> <<Frame(names, from)>>]
List(codec, names, tables) == [codec |-> codec, listed |-> TRUE, names |-> names, tables |-> tables]

SomeContents ==
  { Root("utf-8", <<a, b>>, 0), Root("utf-8", <<b, a, b>>, 10), Root("utf-8", <<a>>, 20),
    Root("utf-8", <<a, a, a2>>, 30), Root("utf-8", <<Blank, V1>>, 40),
    Root("utf-8", <<a, n>>, 50), Root("latin1", <<n, a>>, 60),
    List("utf-8", <<b>>, <<Frame(<<a, b>>, 70)>>),
    List("utf-8", <<a, b>>, <<Frame(<<a, b>>, 80), Frame(<<b, a>>, 90)>>),
    List("latin1", <<b, a, a>>, <<Frame(<<a, n>>, 100), Frame(<<Blank, a>>, 110), Frame(<<a>>, 120)>>) }

SomeTables == { [index |-> 1], [name |-> a], [name |-> b], [name |-> <<"data">>] }

SomeProjections ==
  { <<>>, <<a>>, <<b, a>>, <<a, a>>, <<a2>>, <<Blank>>, <<V1>>, <<n>> , <<a, n \o <<"utf-8">> >>,
    <<n \o <<"latin1">> >> }

SomeSelections ==
  { <<>>, << [index |-> 0] >>, << [index |-> 2], [index |-> 0], [index |-> 1] >>, << [index |-> 1], [name |-> a] >>,
    << [name |-> b], [name |-> a], [name |-> b] >>, << [name |-> V1] >>, << [name |-> a2] >> }
=============================================================================
