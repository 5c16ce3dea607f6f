---------------------------- MODULE MCCollection ----------------------------
(* Files of a collection that agree, or differ in one respect.              *)
EXTENDS Collection

a  == <<"a">>
b  == <<"b">>
V1 == <<"V", "1">>
n  == <<"n">>

SomeUnflagged == {n}

Type(kind, detail)   == [kind |-> kind, detail |-> detail, altrep |-> FALSE, holds |-> {}]
Altrep(kind, detail) == [Type(kind, detail) EXCEPT !.altrep = TRUE]
Holding(type, what)  == [type EXCEPT !.holds = {what}]

int == Type("integer", <<>>)
chr == Type("character", <<>>)
Factor(levels) == Type("factor", levels)
Time(zone)     == Type("datetime", <<zone>>)
date == Type("date", <<>>)
duration == Type("duration", <<>>)

SomeZones == {"UTC", "GMT", "Lima"}

\* The value of a column tells it from every other column of every content.
Frame(columns, from) ==
  [i \in DOMAIN columns |-> [name |-> columns[i][1], type |-> columns[i][2], value |-> from + i]]

Root(codec, columns, from) ==
  [codec |-> codec, listed |-> FALSE, names |-> <<Blank>>, tables |-> <<Frame(columns, from)>>]
List(names, tables) == [codec |-> "utf-8", listed |-> TRUE, names |-> names, tables |-> tables]

x == "x"
y == "y"

Alike ==
  { Root("utf-8", << <<a, int>>, <<b, Factor(<<x, y>>)>> >>, 10),
    Root("utf-8", << <<b, Factor(<<y, x>>)>>, <<a, Holding(int, "missing")>> >>, 20),
    Root("utf-8", << <<a, int>> >>, 30),
    Root("utf-8", << <<a, chr>>, <<b, Time("UTC")>> >>, 40),
    Root("utf-8", << <<a, chr>>, <<b, Time("Lima")>> >>, 50),
    Root("utf-8", << <<a, chr>>, <<b, Holding(Time("GMT"), "fraction")>> >>, 200),
    List(<<b>>, << Frame(<< <<a, int>>, <<b, Factor(<<x, y>>)>> >>, 60) >>),
    List(<<a, b>>, << Frame(<< <<a, int>> >>, 70), Frame(<< <<b, chr>>, <<a, int>> >>, 80) >>) }

Odd ==
  { Root("utf-8", << <<a, Altrep("integer", <<>>)>>, <<b, Altrep("factor", <<x, y>>)>> >>, 110),
    Root("utf-8", << <<a, Altrep("character", <<>>)>>, <<b, Altrep("factor", <<y, "NA">>)>> >>, 120),
    Root("utf-8", << <<Blank, int>>, <<a, int>> >>, 130),
    Root("utf-8", << <<Blank, chr>>, <<V1, int>> >>, 140),
    Root("utf-8", << <<V1, int>> >>, 190),
    Root("utf-8", << <<a, duration>>, <<b, date>> >>, 210),
    Root("utf-8", << <<a, Holding(duration, "fraction")>>, <<b, Holding(date, "fraction")>> >>, 220),
    Root("latin1", << <<n, int>>, <<a, int>> >>, 150),
    Root("utf-8", << <<a, int>>, <<a, int>> >>, 160),
    Root("utf-8", << <<a, int>>, <<b, Factor(<<x, "">>)>> >>, 170),
    Root("utf-8", << <<a, int>>, <<b, Factor(<<x, "NA">>)>> >>, 180) }

SomeContents == Alike \cup Odd

SomeTables == { [index |-> 1], [name |-> b] }

SomeProjections == { <<>>, <<b, a>>, <<a, a>> }

SomeGenerated == << <<"year">> >>

SomeUnmatched == { {}, {2} }

\* Files are replaced, and names do not match, only where the third file
\* starts as the first one and all are alike: three times as many states else.
MCInit ==
  /\ CollectionInit
  /\ IF rewrites < MaxRewrites
     THEN held \in [Files -> Alike] /\ held[3] = held[1] /\ options.naive
     ELSE options.unmatched = {}

MCSpec == MCInit /\ [][CollectionNext]_collectionVars
=============================================================================
