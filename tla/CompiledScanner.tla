--------------------------- MODULE CompiledScanner ---------------------------
(***************************************************************************)
(* The compiled skip_string_chunk at the level of its bytes: what it makes    *)
(* of a buffer that holds elements of a character vector, of which the last    *)
(* may be incomplete.  A byte is 0 .. 255; a word has Word of them, of which    *)
(* one holds the type of an element and the others its flags.                *)
(***************************************************************************)
EXTENDS Integers, Sequences

CONSTANT Word \* bytes of an int32_t

CHARSXP == 9
REFSXP == 255
Nils == {0, 254} \* NILSXP, NILVALUE_SXP

\* A position of the buffer counts from zero.
Byte(data, position) == data[position + 1]

\* How many values n bytes have.
Values[n \in 0 .. Word] == IF n = 0 THEN 1 ELSE 256 * Values[n - 1]

\* Mutant of _i32: the value stays unsigned.
_i32_unsigned(data, position, little_endian) ==
  LET byte(k) == Byte(data, position + IF little_endian THEN Word - k ELSE k - 1)
      value[k \in 0 .. Word] == IF k = 0 THEN 0 ELSE value[k - 1] * 256 + byte(k)
  IN value[Word]

\* The word at a position, in two's complement.
_i32(data, position, little_endian) ==
  LET byte(k) == Byte(data, position + IF little_endian THEN Word - k ELSE k - 1)
      value[k \in 0 .. Word] == IF k = 0 THEN 0 ELSE value[k - 1] * 256 + byte(k)
  IN IF byte(1) >= 128 THEN value[Word] - Values[Word] ELSE value[Word]

(***************************************************************************)
(* The locals of the loop.  "next" is one more element behind it; a status    *)
(* is what it returns: 0 also when it stops in front of an element.           *)
(***************************************************************************)
Stop(l, status, value) == [l EXCEPT !.status = status, !.value = value]
Next1(l) == [l EXCEPT !.processed = @ + 1]
Advance(l, n) == [l EXCEPT !.position = @ + n]

\* Fewer bytes than a word are left.
Short(data, l) == Len(data) - l.position < Word

\* Behind the length of a CHARSXP: its payload, if it is in the buffer.
Payload(data, l, length) ==
  IF length > 0 /\ Len(data) - l.position < length THEN Stop(l, 1, length)
  ELSE Next1(Advance(l, IF length > 0 THEN length ELSE 0))

\* Behind the flags of a CHARSXP, which were read at start.
Character(data, l, start, max_string, little_endian) ==
  LET length == _i32(data, l.position, little_endian)
      behind == Advance(l, Word)
  IN IF Short(data, l) THEN Stop([l EXCEPT !.position = start], 0, 0)
     ELSE IF length < -1 THEN Stop(behind, 2, length)
     ELSE IF length > max_string THEN Stop(behind, 3, length)
     ELSE Payload(data, behind, length)

\* Behind the flags of a REFSXP: the index is in the flags, or follows.
Reference(data, l, start, flags, references_len, little_endian) ==
  LET short == flags \div 256
      index == IF short # 0 THEN short ELSE _i32(data, l.position, little_endian)
      behind == IF short # 0 THEN l ELSE Advance(l, Word)
  IN IF short = 0 /\ Short(data, l) THEN Stop([l EXCEPT !.position = start], 0, 0)
     ELSE IF index < 1 \/ index > references_len THEN Stop(behind, 4, index)
     ELSE Next1(behind)

\* One turn of the loop.
Turn(data, l, max_string, references_len, little_endian) ==
  LET flags == _i32(data, l.position, little_endian)
      type == flags % 256
      behind == Advance(l, Word)
  IN IF Short(data, l) THEN Stop(l, 0, 0)
     ELSE IF type = CHARSXP THEN Character(data, behind, l.position, max_string, little_endian)
     ELSE IF type = REFSXP THEN Reference(data, behind, l.position, flags, references_len, little_endian)
     ELSE IF type \in Nils THEN Next1(behind)
     ELSE Stop(behind, 5, type)

\* (processed, position, status, value); a loop that goes on has no status.
skip_string_chunk(data, position, count, max_string, references_len, little_endian) ==
  LET start == [processed |-> 0, position |-> position, status |-> -1, value |-> 0]
      turns[k \in 0 .. count] ==
        IF k = 0 THEN start
        ELSE LET l == turns[k - 1]
             IN IF l.status # -1 THEN l ELSE Turn(data, l, max_string, references_len, little_endian)
  IN IF turns[count].status = -1 THEN Stop(turns[count], 0, 0) ELSE turns[count]
=============================================================================
