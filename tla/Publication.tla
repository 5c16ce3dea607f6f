----------------------------- MODULE Publication -----------------------------
(***************************************************************************)
(* What to_parquet promises to somebody who looks at the destination: a    *)
(* conversion first completes every table it was asked for, or refuses and *)
(* changes nothing; then it puts the tables in place one by one, in their  *)
(* order, each whole and in a file of its own.                             *)
(***************************************************************************)
EXTENDS Integers, Sequences

CONSTANT Exporters \* calls of to_parquet into one directory

VARIABLES
  asked,     \* the tables to be written, whole, in the order of the file
  directory, \* the files of the destination
  phase,     \* of each call: "open", or how it has ended
  ready,     \* of each call: the tables that are complete
  placed     \* of each call: the tables it has put in place, with their files

vars == <<asked, directory, phase, ready, placed>>

Init ==
  /\ phase  = [e \in Exporters |-> "open"]
  /\ ready  = [e \in Exporters |-> <<>>]
  /\ placed = [e \in Exporters |-> <<>>]

Ends(e, how) ==
  /\ phase[e] = "open"
  /\ phase' = [phase EXCEPT ![e] = how]
  /\ UNCHANGED <<asked, directory, placed>>

\* One more table is complete: it is one asked for, or Place never happens.
Complete(e) ==
  /\ phase[e] = "open" /\ placed[e] = <<>>
  /\ Len(ready'[e]) = Len(ready[e]) + 1
  /\ ready' = [ready EXCEPT ![e] = Append(@, ready'[e][Len(@) + 1])]
  /\ UNCHANGED <<asked, directory, phase, placed>>

Place(e, file) ==
  /\ phase[e] = "open" /\ ready[e] = asked /\ Len(placed[e]) < Len(asked)
  /\ \A i \in DOMAIN placed[e] : placed[e][i].file # file
  /\ LET table == asked[Len(placed[e]) + 1]
     IN /\ directory' = [f \in DOMAIN directory \cup {file} |->
                           IF f = file THEN table ELSE directory[f]]
        /\ placed' = [placed EXCEPT ![e] = Append(@, [file |-> file, table |-> table])]
  /\ UNCHANGED <<asked, phase, ready>>

Finish(e) ==
  /\ Len(placed[e]) = Len(asked)
  /\ Ends(e, "done")
  /\ UNCHANGED ready

\* The file or the request is refused: nothing has been put in place.
Refuse(e) ==
  /\ placed[e] = <<>>
  /\ Ends(e, "refused")
  /\ ready' = [ready EXCEPT ![e] = <<>>]

\* The operating system refuses, or the process dies: no more is put in place.
Break(e) ==
  /\ Ends(e, "broken")
  /\ ready' = [ready EXCEPT ![e] = <<>>]

Next ==
  \E e \in Exporters :
    \/ Complete(e) \/ Finish(e) \/ Refuse(e) \/ Break(e)
    \/ \E file \in DOMAIN directory' : Place(e, file)

Spec == Init /\ [][Next]_vars
=============================================================================
