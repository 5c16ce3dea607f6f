---------------------------- MODULE MCRdsWriter ----------------------------
(* One call with each of many requests, another with a few, over files of R. *)
EXTENDS RdsWriter

w1 == "w1"
w2 == "w2"

Column(label, dtype, cells) ==
  [label |-> label, dtype |-> dtype, cells |-> cells, categories |-> <<>>, zone |-> None, unit |-> 1]

Count(n) == [kind |-> "range", labels |-> [i \in 1 .. n |-> i - 1]]
Frame(columns) == [columns |-> columns, index |-> Count(Len(columns[1].cells))]
Ask(names, frames) ==
  [names |-> names, frames |-> frames, output |-> "file", int64 |-> "error", dates |-> {}, timezone |-> None]
One(columns) == Ask(<<>>, << Frame(columns) >>)

\* In the zone's third second clocks go forward, and the seventh they show twice.
SomeOffset ==
  [z \in {"UTC", "CET"} |-> [s \in -127 .. 127 |-> CASE z = "UTC" -> 0
                                                     [] z = "CET" /\ s \in {3, 7} -> None
                                                     [] z = "CET" /\ s \notin {3, 7} -> IF s \in 4 .. 6 THEN 2 ELSE 1]]

SomeSteps == {1, 2, 4, 8, 16, 32, 64, 128, 256, 512, 1024, 2048}

\* Seconds, fifths and tenths: 1/5 and 1/10 have no double, 26/128 and 26/256 are next to them.
SomeUnits == (1 :> <<1, 1>>) @@ (5 :> <<26, 128>>) @@ (10 :> <<26, 256>>)

\* At R's limits, at those of doubles, at NumPy's, and beyond each.
IntegerCells == [1 .. 2 -> {-128, -32, -4, -3, 3, 4, 33, 127, Missing}]

IntegerRequests ==
  { [One(<< Column(<<"i">>, "integer", cells) >>) EXCEPT !.int64 = policy] :
      cells \in IntegerCells, policy \in {"error", "double", "lossy_double"} }
UnsignedRequests ==
  { [One(<< Column(<<"i">>, "integer", <<cell, 1>>) >>) EXCEPT !.int64 = policy] :
      cell \in {128, 130, 251, 255}, policy \in {"error", "double", "lossy_double"} }

Text(t) == [type |-> "str", text |-> t]
Number(t) == [type |-> "int", text |-> t]
Truth(t) == [type |-> "bool", text |-> t]
Other == [type |-> "other", text |-> "x"]

Categorical(cells, categories) == [Column(<<"c">>, "categorical", cells) EXCEPT !.categories = categories]
FactorRequests ==
  { One(<< Categorical(cells, categories) >>) :
      cells \in [1 .. 2 -> {-1, 0, 1}],
      categories \in { <<Text("1"), Number("1")>>, <<Text("TRUE"), Truth("False")>>, <<Truth("True"), Text("TRUE")>>,
                       <<Text("b"), Text("a")>>, <<Text("a"), Other>> } }

Timed(label, dtype, cells, unit) == [Column(label, dtype, cells) EXCEPT !.unit = unit]

\* Whole days and seconds, local times that never are, fractions, and times at
\* which doubles are seconds apart or 64 bits end.
Local(unit) == CASE unit = 1  -> {-8, 3, 7, 66, Missing}
                 [] unit = 5  -> {-20, 25, 41, 87, Missing}
                 [] unit = 10 -> {-40, 23, 30, 107, Missing}
Aware(unit) == Local(unit) \cup {-127, 127}
Asked(columns, dates, zone) == [One(columns) EXCEPT !.dates = dates, !.timezone = zone]
TimeRequests ==
  UNION { { Asked(<< Timed(<<"t">>, "naive", cells, unit), Column(<<"t">>, "float", <<0, 4>>) >>, {}, zone) :
              cells \in [1 .. 2 -> Local(unit)], zone \in {"UTC", "CET"} }
          \cup { Asked(<< Timed(<<"t">>, "naive", cells, unit) >>, {<<"t">>}, None) : cells \in [1 .. 2 -> Local(unit)] }
          \cup { One(<< Timed(<<"d">>, "delta", cells, unit), [Timed(<<"t">>, "aware", cells, unit) EXCEPT !.zone = "CET"] >>) :
                    cells \in [1 .. 2 -> Aware(unit)] } : unit \in {1, 5, 10} }
  \cup
  { Asked(<< [Column(<<"t">>, dtype, <<4, Missing>>) EXCEPT !.zone = zone] >>, dates, None) :
      dtype \in {"naive", "aware", "float"}, zone \in {None, "CET"}, dates \in {{}, {<<"t">>}, {<<"u">>}} }

Date(days) == [type |-> "date", text |-> days]
OtherRequests ==
  { One(<< Column(<<"x">>, "bool", <<1, Missing>>), Column(<<"x">>, "float", <<7, Missing>>), Column(<<>>, "string", <<"a", Missing>>),
           Column(<<"d">>, "delta", <<2, Missing>>) >>),
    One(<< Column(<<"x">>, "other", <<1>>) >>),
    One(<< Column(<<"o">>, "object", <<Text("a"), Missing>>), Column(<<"p">>, "object", <<Missing, Missing>>),
           Column(<<"q">>, "object", <<Date(-1), Missing>>) >>),
    One(<< Column(<<"o">>, "object", <<Text("a"), Date(1)>>) >>),
    Ask(<<>>, <<>>), Ask(<<"">>, << Frame(<< Column(<<"x">>, "float", <<1>>) >>) >>) }

Indices ==
  { [kind |-> "integer", labels |-> labels] : labels \in [1 .. 2 -> {-5, -4, -3, -1, 3, 130, Missing}] } \cup
  { [kind |-> "object", labels |-> labels] : labels \in [1 .. 2 -> {Text("1"), Number("1"), Text("b"), Missing}] } \cup
  { [kind |-> "multi", labels |-> <<0, 1>>], Count(2) }
IndexRequests ==
  { Ask(<<>>, << [columns |-> << Column(<<"x">>, "float", <<1, 2>>) >>, index |-> index] >>) : index \in Indices } \cup
  { Ask(<<>>, << [columns |-> << Column(<<"x">>, "float", <<>>) >>, index |-> Count(0)] >>),
    Ask(<<>>, << [columns |-> <<>>, index |-> Count(2)] >>) }

Two(second) == Ask(<<"s", "t">>, << Frame(<< Column(<<"x">>, "float", <<1>>) >>), Frame(<< Column(<<"x">>, second, <<9>>) >>) >>)
FewRequests == { Two("float"), Two("integer"), [Two("float") EXCEPT !.output = "stream"] }

SomeRequests ==
  { [w \in {w1, w2} |-> IF w = w1 THEN many ELSE few] :
      few  \in {Two("float"), Two("integer")},
      many \in IntegerRequests \cup UnsignedRequests \cup FactorRequests \cup TimeRequests
               \cup OtherRequests \cup IndexRequests \cup FewRequests }

\* One file of R: every code, and the codes of no level, with levels of all sorts.
Factor(codes, levels) == [Vector("INTSXP", <<"factor">>, codes) EXCEPT !.levels = levels]
SomeForeign ==
  { << [vectors |-> << Factor(<<-4, -1, 0>>, <<"a", "b">>), Factor(<<1, 2, 3>>, <<"a", "b">>),
                       Factor(<<-4, 0, 1>>, <<Missing, "b">>), Factor(<<1, 2, 3>>, <<Missing, "b">>),
                       Factor(<<1, 2, 3>>, <<"a", Missing, "c">>) >>,
        attributes |-> [names |-> << <<"f">>, <<"f">>, <<"g">>, <<>>, <<"f", "2">> >>,
                        row_names |-> Vector("INTSXP", <<>>, <<-4, -3>>)]] >> }
=============================================================================
