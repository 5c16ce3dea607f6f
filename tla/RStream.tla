------------------------------- MODULE RStream -------------------------------
(***************************************************************************)
(* The layout of the byte stream below the objects: fields of a known size *)
(* (headers, lengths, atomic payloads) and character vectors, whose size   *)
(* is known only by walking their elements.  A byte is its offset in the   *)
(* stream: a pass has read the right bytes if it has read the offsets      *)
(* where the field it wants was written.                                   *)
(***************************************************************************)
EXTENDS Integers, Sequences

CONSTANTS
  Word,      \* bytes of an R integer: 4 in the format
  MaxString, \* ReaderLimits.max_string_bytes
  RefsLen,   \* entries of the reference table
  Contents,  \* what the files hold: sequences of items
  MaxSize    \* bound: the longest file considered

ASSUME LayoutAssumption ==
  /\ Word \in Nat \ {0}
  /\ MaxString \in Nat
  /\ RefsLen \in Nat

(***************************************************************************)
(* An element of a character vector.  n is the length of a CHARSXP (-1 for *)
(* NA_character_) or the index of a reference; "longref" is a reference    *)
(* whose index does not fit in its flags and follows in a word of its own. *)
(***************************************************************************)
Element ==
  [t : {"char", "longref"}, n : Int] \cup [t : {"ref", "nil", "other"}, n : Nat \ {0}]

HeaderSize(e) == IF e.t \in {"char", "longref"} THEN 2 * Word ELSE Word

PayloadSize(e) == IF e.t = "char" /\ e.n > 0 THEN e.n ELSE 0

ElementSize(e) == HeaderSize(e) + PayloadSize(e)

\* What the parsers make of an element header ("run": carry on).  The table
\* holds symbols, environments, pointers and namespaces, none of which is a
\* character value: read_string_elements refuses them all.
Verdict(e, reading) ==
  CASE e.t = "nil"   -> "run"
    [] e.t = "other" -> "type"
    [] e.t \in {"ref", "longref"} ->
         IF e.n \in 1 .. RefsLen /\ ~reading THEN "run" ELSE "ref"
    [] e.t = "char"  -> IF e.n < -1 THEN "length"
                        ELSE IF e.n > MaxString THEN "limit" ELSE "run"

\* What becomes of an element of which only the next left bytes exist.
Outcome(e, reading, left) ==
  IF left < HeaderSize(e) THEN "eof"
  ELSE IF Verdict(e, reading) # "run" THEN Verdict(e, reading)
  ELSE IF left < ElementSize(e) THEN "eof" ELSE "run"

Item == [k : {"field"}, n : Nat] \cup [k : {"strings"}, elems : Seq(Element)]

ASSUME ContentsAssumption == Contents \subseteq Seq(Item) /\ MaxSize \in Nat

\* size: the bytes that are there, fewer than the items take if the file is
\* truncated, more if something follows.  seekable: Reader.seekable_discard,
\* an uncompressed file.  compiled: the optional extension is loaded.
Files == [items : Contents, size : 0 .. MaxSize, seekable : BOOLEAN, compiled : BOOLEAN]

Statuses == {"run", "done", "eof", "type", "ref", "length", "limit"}
=============================================================================
