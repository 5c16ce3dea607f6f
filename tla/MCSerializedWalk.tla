-------------------------- MODULE MCSerializedWalk --------------------------
(* Streams for model checking SerializedWalk: one header of each shape.    *)
EXTENDS SerializedWalk

Plain(t) == [t |-> t, attr |-> FALSE, tag |-> FALSE, n |-> 0, fits |-> TRUE]

SomeTokens ==
  { Plain(t) : t \in {"nil", "sym", "list", "leaf", "altrep", "extptr",
                      "env", "ns", "other"} }
    \cup { [Plain("ref")    EXCEPT !.n = 1],
           [Plain("list")   EXCEPT !.tag = TRUE],
           [Plain("leaf")   EXCEPT !.attr = TRUE],
           [Plain("leaf")   EXCEPT !.fits = FALSE],
           [Plain("vec")    EXCEPT !.n = 2, !.attr = TRUE],
           [Plain("altrep") EXCEPT !.fits = FALSE],
           [Plain("s4")     EXCEPT !.attr = TRUE] }
=============================================================================
