---------------------------- MODULE StreamCursor ----------------------------
(***************************************************************************)
(* What Reader promises about the bytes it consumes, with no buffers: a    *)
(* cursor that moves over one field or element at a time, and fails where  *)
(* the bytes run out or the format is broken.                              *)
(***************************************************************************)
EXTENDS RStream

VARIABLES
  file,     \* the file being read
  item,     \* the item of the file at the cursor
  how,      \* the walk over the character vector at the cursor, or "idle"
  elem,     \* the element of that vector at the cursor
  cur,      \* the cursor: bytes consumed
  st,       \* "run", "done", or why reading stopped
  trailing  \* bytes follow the last item

vars == <<file, item, how, elem, cur, st, trailing>>

Left == file.size - cur

Init ==
  /\ file \in Files
  /\ item = 1 /\ how = "idle" /\ elem = 1
  /\ cur = 0 /\ st = "run" /\ trailing = FALSE

Going == st = "run" /\ UNCHANGED <<file, trailing>>

Fail(why) == st' = why /\ UNCHANGED <<item, how, elem, cur>>

Field ==
  /\ Going /\ how = "idle"
  /\ item <= Len(file.items) /\ file.items[item].k = "field"
  /\ IF file.items[item].n <= Left
     THEN /\ cur' = cur + file.items[item].n
          /\ item' = item + 1
          /\ UNCHANGED <<how, elem, st>>
     ELSE Fail("eof")

Enter ==
  /\ Going /\ how = "idle"
  /\ item <= Len(file.items) /\ file.items[item].k = "strings"
  /\ how' \in {"skip", "scan", "read"}
  /\ elem' = 1
  /\ UNCHANGED <<item, cur, st>>

Walk ==
  /\ Going /\ how # "idle"
  /\ elem <= Len(file.items[item].elems)
  /\ LET e   == file.items[item].elems[elem]
         out == Outcome(e, how = "read", Left)
     IN IF out = "run"
        THEN /\ cur' = cur + ElementSize(e)
             /\ elem' = elem + 1
             /\ UNCHANGED <<item, how, st>>
        ELSE Fail(out)

\* The compiled scan wants the bytes of a longest header before it looks.
GiveUp ==
  /\ Going /\ how = "scan"
  /\ elem <= Len(file.items[item].elems)
  /\ Left < 2 * Word
  /\ Fail("eof")

Leave ==
  /\ Going /\ how # "idle"
  /\ elem > Len(file.items[item].elems)
  /\ how' = "idle" /\ item' = item + 1
  /\ UNCHANGED <<elem, cur, st>>

Probe ==
  /\ st = "run" /\ how = "idle" /\ item > Len(file.items)
  /\ st' = "done" /\ trailing' = (Left > 0)
  /\ UNCHANGED <<file, item, how, elem, cur>>

Next == Field \/ Enter \/ Walk \/ GiveUp \/ Leave \/ Probe

Spec == Init /\ [][Next]_vars
=============================================================================
