----------------------------- MODULE BatchReader -----------------------------
(***************************************************************************)
(* Reader's bytes.  Character vectors are parsed from chunks that overshoot *)
(* the vector; the overshoot is parked in a pending buffer that every other *)
(* primitive must drain before it touches the stream.  The structural skip  *)
(* has two forms, a Python loop and the optional compiled scanner, which    *)
(* sees only what is buffered and asks for more.                            *)
(*                                                                         *)
(* Each action is one primitive call, or one turn of a batched loop with    *)
(* the refill and the discard it makes.  The stream is buffered: a read     *)
(* returns fewer bytes than asked for at the end of the file only.          *)
(***************************************************************************)
EXTENDS RStream

CONSTANTS
  Chunk,      \* _BATCH_CHUNK
  MinScan,    \* _CYTHON_STRING_MIN_ELEMENTS
  StringChunk \* _STRING_CHUNK: elements per batch when draining into Arrow

ASSUME ChunkAssumption ==
  Chunk \in Nat \ {0} /\ MinScan \in Nat /\ StringChunk \in Nat \ {0}

VARIABLES
  file,     \* external: the file being read
  item,     \* the item whose turn it is
  how,      \* the batched loop that is running, or "idle"
  elem,     \* its loop counter
  step,     \* words of the element's header that the Python loops have unpacked
  at,       \* offset of the stream
  pending,  \* the overshoot buffer, from _pending_pos on
  buf, pos, \* the buffer of the running loop and its position in it
  st,       \* "run", "done", or the error raised
  trailing, \* the probe behind the root found a byte
  cur       \* external: offset where the item or element in turn was written

vars == <<file, item, how, elem, step, at, pending, buf, pos, st, trailing, cur>>

-----------------------------------------------------------------------------
\* The bytes from one offset of the stream on.
Bytes(from, n) == [i \in 1 .. n |-> from + i - 1]

Least(a, b)    == IF a < b THEN a ELSE b
Greatest(a, b) == IF a > b THEN a ELSE b

\* stream.read(n) at an offset.
fetch(offset, n) == Bytes(offset, Least(n, file.size - offset))

(***************************************************************************)
(* The operations of a loop work on its local state.  "garbage" is what    *)
(* unpacking other bytes than those of the field amounts to.               *)
(***************************************************************************)
Local == [buf |-> buf, pos |-> pos, at |-> at, st |-> "run"]

Buffered(l) == Len(l.buf) - l.pos
Unread(l)   == SubSeq(l.buf, l.pos + 1, Len(l.buf))
Raise(l, why) == [l EXCEPT !.st = why]

\* Mutant of _refill_batch: what has been parsed stays in the buffer.
_refill_batch_growing(l, need) ==
  LET chunk == IF Buffered(l) >= need THEN <<>>
               ELSE fetch(l.at, Greatest(Chunk, need - Buffered(l)))
  IN IF Buffered(l) + Len(chunk) < need THEN Raise(l, "eof")
     ELSE [l EXCEPT !.buf = @ \o chunk, !.at = @ + Len(chunk)]

\* need bytes at the head of the buffer, and as many more as a chunk brings.
_refill_batch(l, need) ==
  LET chunk == IF Buffered(l) >= need THEN <<>>
               ELSE fetch(l.at, Greatest(Chunk, need - Buffered(l)))
  IN IF Buffered(l) + Len(chunk) < need THEN Raise(l, "eof")
     ELSE [l EXCEPT !.buf = Unread(l) \o chunk, !.pos = 0, !.at = @ + Len(chunk)]

\* unpack_from behind its refill guard: the word written at offset from.
word(l, from) ==
  LET r == IF Buffered(l) < Word THEN _refill_batch(l, Word) ELSE l
  IN IF r.st # "run" THEN r
     ELSE IF SubSeq(r.buf, r.pos + 1, r.pos + Word) # Bytes(from, Word)
          THEN Raise(r, "garbage")
          ELSE [r EXCEPT !.pos = @ + Word]

\* Mutant of discard: seek() past the end goes unnoticed.
discard_unchecked(offset, n) ==
  IF ~file.seekable /\ offset + n > file.size THEN -1 ELSE offset + n

\* The stream part of Reader.discard: where it leaves the stream, -1 at its
\* end.  A seek is checked against the size, a read by what it returns.
discard(offset, n) ==
  IF file.seekable
  THEN IF offset + n > file.size THEN -1 ELSE offset + n
  ELSE IF Len(fetch(offset, n)) < n THEN -1 ELSE offset + n

\* A payload that overflows the buffer uses it up and is discarded behind it.
skip_payload(l, n) ==
  IF n <= Buffered(l)
  THEN [l EXCEPT !.pos = @ + n]
  ELSE LET stop == discard(l.at, n - Buffered(l))
       IN IF stop = -1 THEN Raise(l, "eof")
          ELSE [l EXCEPT !.buf = <<>>, !.pos = 0, !.at = stop]

\* The same in read_string_elements, which keeps the bytes.
read_payload(l, n) ==
  LET more == fetch(l.at, n - Buffered(l))
      data == IF n <= Buffered(l) THEN SubSeq(l.buf, l.pos + 1, l.pos + n)
              ELSE Unread(l) \o more
      next == IF n <= Buffered(l) THEN [l EXCEPT !.pos = @ + n]
              ELSE [l EXCEPT !.buf = <<>>, !.pos = 0, !.at = @ + Len(more)]
  IN IF Len(data) < n THEN Raise(l, "eof")
     ELSE IF data # Bytes(cur + 2 * Word, n) THEN Raise(next, "garbage")
     ELSE next

\* One turn of skip_string_chunk: it unpacks only what is buffered in full,
\* payloads excepted.
skip_string_chunk(e) ==
  IF SubSeq(buf, pos + 1, pos + HeaderSize(e)) # Bytes(cur, HeaderSize(e))
  THEN Raise(Local, "garbage")
  ELSE IF Verdict(e, FALSE) # "run" THEN Raise(Local, Verdict(e, FALSE))
  ELSE skip_payload([Local EXCEPT !.pos = @ + HeaderSize(e)], PayloadSize(e))

-----------------------------------------------------------------------------
Init ==
  /\ file \in Files
  /\ item = 1 /\ how = "idle" /\ elem = 1 /\ step = 0
  /\ at = 0 /\ pending = <<>> /\ buf = <<>> /\ pos = 0
  /\ st = "run" /\ trailing = FALSE /\ cur = 0

Turn(kind) ==
  /\ st = "run" /\ how = "idle"
  /\ item <= Len(file.items) /\ file.items[item].k = kind

Elems == file.items[item].elems

Set(l) == buf' = l.buf /\ pos' = l.pos /\ at' = l.at /\ st' = l.st

\* The element is consumed, or its error ends the loop.
Consumed(l) ==
  /\ Set(l)
  /\ IF l.st = "run"
     THEN elem' = elem + 1 /\ step' = 0 /\ cur' = cur + ElementSize(Elems[elem])
     ELSE UNCHANGED <<elem, step, cur>>
  /\ UNCHANGED <<file, item, how, pending, trailing>>

\* _take_batch_buffer and the choice of the loop.
Begin(reading) ==
  /\ Turn("strings")
  /\ how' = IF reading THEN "read"
            ELSE IF file.compiled /\ Len(Elems) >= MinScan THEN "scan" ELSE "skip"
  /\ buf' = pending /\ pos' = 0 /\ pending' = <<>>
  /\ elem' = 1
  /\ UNCHANGED <<file, item, step, at, st, trailing, cur>>

Looping(h) == st = "run" /\ how = h /\ elem <= Len(Elems)

\* The flags and the length or index of an element, word by word: the same
\* in skip_string_elements and read_string_elements.
Unpack ==
  /\ Looping("skip") \/ Looping("read")
  /\ step * Word < HeaderSize(Elems[elem])
  /\ \E l \in {word(Local, cur + step * Word)} :
       Set(l) /\ step' = IF l.st = "run" THEN step + 1 ELSE step
  /\ UNCHANGED <<file, item, how, elem, pending, trailing, cur>>

\* The end of one turn of skip_string_elements.
SkipElement ==
  /\ Looping("skip")
  /\ step * Word = HeaderSize(Elems[elem])
  /\ IF Verdict(Elems[elem], FALSE) # "run"
     THEN Consumed(Raise(Local, Verdict(Elems[elem], FALSE)))
     ELSE \E l \in {skip_payload(Local, PayloadSize(Elems[elem]))} : Consumed(l)

\* The end of one turn of read_string_elements.
ReadElement ==
  /\ Looping("read")
  /\ step * Word = HeaderSize(Elems[elem])
  /\ IF Verdict(Elems[elem], TRUE) # "run"
     THEN Consumed(Raise(Local, Verdict(Elems[elem], TRUE)))
     ELSE \E l \in {read_payload(Local, PayloadSize(Elems[elem]))} : Consumed(l)

\* arrow_string_array parses its vector by batches: between two of them the
\* overshoot is parked and taken up again.
NextBatch ==
  /\ Looping("read")
  /\ step = 0 /\ elem > 1 /\ (elem - 1) % StringChunk = 0
  /\ buf' = Unread(Local) /\ pos' = 0
  /\ UNCHANGED <<file, item, how, elem, step, at, pending, st, trailing, cur>>

ScanElement ==
  /\ Looping("scan")
  /\ Buffered(Local) >= HeaderSize(Elems[elem])
  /\ \E l \in {skip_string_chunk(Elems[elem])} : Consumed(l)

\* Mutant of ScanRefill: one word is asked for, which may be there already.
ScanRefill_short ==
  /\ Looping("scan")
  /\ Buffered(Local) < HeaderSize(Elems[elem])
  /\ \E l \in {_refill_batch(Local, Word)} : Set(l)
  /\ UNCHANGED <<file, item, how, elem, step, pending, trailing, cur>>

\* Status 0 of the scanner: it stopped in front of an incomplete header.
ScanRefill ==
  /\ Looping("scan")
  /\ Buffered(Local) < HeaderSize(Elems[elem])
  /\ \E l \in {_refill_batch(Local, 2 * Word)} : Set(l)
  /\ UNCHANGED <<file, item, how, elem, step, pending, trailing, cur>>

\* Mutant of End: the overshoot is dropped.
End_unstored ==
  /\ st = "run" /\ how # "idle" /\ elem > Len(Elems)
  /\ pending' = <<>>
  /\ buf' = <<>> /\ pos' = 0
  /\ how' = "idle" /\ item' = item + 1
  /\ UNCHANGED <<file, elem, step, at, st, trailing, cur>>

\* _store_batch_buffer.
End ==
  /\ st = "run" /\ how # "idle" /\ elem > Len(Elems)
  /\ pending' = Unread(Local)
  /\ buf' = <<>> /\ pos' = 0
  /\ how' = "idle" /\ item' = item + 1
  /\ UNCHANGED <<file, elem, step, at, st, trailing, cur>>

\* A primitive drained n bytes of the overshoot and left the stream at stop.
Drained(n, stop, why) ==
  /\ pending' = SubSeq(pending, n + 1, Len(pending))
  /\ IF stop = -1
     THEN st' = "eof" /\ UNCHANGED <<item, at, cur>>
     ELSE /\ st' = why /\ at' = stop
          /\ IF why = "run"
             THEN item' = item + 1 /\ cur' = cur + file.items[item].n
             ELSE UNCHANGED <<item, cur>>
  /\ UNCHANGED <<file, how, elem, step, buf, pos, trailing>>

\* raw and read_into: from the overshoot, then from the stream.
Read ==
  /\ Turn("field")
  /\ LET n    == file.items[item].n
         held == Least(n, Len(pending))
         rest == fetch(at, n - held)
     IN Drained(held,
                IF held + Len(rest) < n THEN -1 ELSE at + Len(rest),
                IF SubSeq(pending, 1, held) \o rest = Bytes(cur, n)
                THEN "run" ELSE "garbage")

Discard ==
  /\ Turn("field")
  /\ LET n    == file.items[item].n
         held == Least(n, Len(pending))
     IN Drained(held, IF held = n THEN at ELSE discard(at, n - held), "run")

\* Mutant of Probe: the stream is asked, not the reader.
Probe_stream ==
  /\ st = "run" /\ how = "idle" /\ item > Len(file.items)
  /\ trailing' = (fetch(at, 1) # <<>>)
  /\ st' = "done"
  /\ UNCHANGED <<file, item, how, elem, step, at, pending, buf, pos, cur>>

\* _skip_root_and_probe: raw(1) behind the root.
Probe ==
  /\ st = "run" /\ how = "idle" /\ item > Len(file.items)
  /\ trailing' = (pending \o fetch(at, 1) # <<>>)
  /\ st' = "done"
  /\ UNCHANGED <<file, item, how, elem, step, at, pending, buf, pos, cur>>

Next ==
  \/ \E reading \in BOOLEAN : Begin(reading)
  \/ Unpack \/ SkipElement \/ ReadElement \/ NextBatch
  \/ ScanElement \/ ScanRefill
  \/ End
  \/ Read \/ Discard \/ Probe

\* One thread runs the calls: it does not stop between two of them.
Spec == Init /\ [][Next]_vars /\ WF_vars(Next)

-----------------------------------------------------------------------------
(* Properties. *)

TypeOK ==
  /\ file \in Files
  /\ item \in 1 .. Len(file.items) + 1
  /\ how \in {"idle", "skip", "scan", "read"}
  /\ elem \in Nat \ {0} /\ step \in 0 .. 2 /\ at \in Nat /\ pos \in 0 .. Len(buf) /\ cur \in Nat
  /\ pending \in Seq(Nat) /\ buf \in Seq(Nat)
  /\ st \in Statuses
  /\ trailing \in BOOLEAN

Parsed == cur + step * Word

\* No byte is lost, repeated or passed over where the batched loops, the
\* overshoot buffer and the stream meet: what is buffered and not yet parsed
\* is exactly the stream between the place in turn and the stream's offset.
\* (The pending buffer of _core.py:219 and its draining.)
NothingLost ==
  st = "run" =>
    /\ Parsed <= at /\ at <= file.size
    /\ (IF how = "idle" THEN pending ELSE Unread(Local)) = Bytes(Parsed, at - Parsed)
    /\ how # "idle" => pending = <<>>

\* Skipping needs bounded memory, whatever the length of the strings: at most
\* one chunk and the fragment of a header are held ("bounded memory" of
\* Reader.discard and of _skip_root_and_probe).
MemoryBounded ==
  Len(buf) < Chunk + 2 * Word /\ Len(pending) < Chunk + 2 * Word

\* The trailing-data probe of validate_rds sees a byte iff one follows the
\* root, buffered or not.
TrailingExact == st = "done" => (trailing <=> cur < file.size)

(***************************************************************************)
(* The bytes of the elements, as R writes them: the low byte of the flags    *)
(* has the type, the rest the index of a short reference.                     *)
(***************************************************************************)
Scanner == INSTANCE CompiledScanner

\* Lengths and indices are words of two's complement; what the flags of a
\* reference have of its index, is less by the byte of its type.
ASSUME WidthAssumption ==
  /\ Word > 1
  /\ \A items \in Contents : \A i \in DOMAIN items : items[i].k = "strings" =>
       \A j \in DOMAIN items[i].elems :
         LET e == items[i].elems[j]
             limit == 128 * Scanner!Values[Word - 1]
         IN IF e.t = "ref" THEN 256 * e.n + Scanner!REFSXP < limit ELSE -limit <= e.n /\ e.n < limit

Written(value, little_endian) ==
  LET rest[k \in 0 .. Word] ==
        IF k > 0 THEN rest[k - 1] \div 256
        ELSE IF value < 0 THEN value + Scanner!Values[Word] ELSE value
  IN [k \in 1 .. Word |-> rest[IF little_endian THEN k - 1 ELSE Word - k] % 256]

FlagsOf(e) ==
  CASE e.t = "char" -> Scanner!CHARSXP [] e.t = "longref" -> Scanner!REFSXP
    [] e.t = "ref" -> 256 * e.n + Scanner!REFSXP [] e.t = "nil" -> 254 [] e.t = "other" -> 1

ElementBytes(e, little_endian) ==
  Written(FlagsOf(e), little_endian)
    \o (IF e.t \in {"char", "longref"} THEN Written(e.n, little_endian) ELSE <<>>)
    \o [k \in 1 .. PayloadSize(e) |-> Scanner!CHARSXP]

\* What is buffered, byte by byte; behind the vector there may be anything.
BufferBytes(little_endian) ==
  LET ahead[k \in elem - 1 .. Len(Elems)] ==
        IF k < elem THEN <<>> ELSE ahead[k - 1] \o ElementBytes(Elems[k], little_endian)
      bytes == ahead[Len(Elems)]
  IN [k \in 1 .. Len(buf) |-> IF k - pos \in DOMAIN bytes THEN bytes[k - pos] ELSE Scanner!CHARSXP]

StatusOf(verdict) ==
  CASE verdict = "length" -> 2 [] verdict = "limit" -> 3 [] verdict = "ref" -> 4 [] verdict = "type" -> 5

\* What a scan that goes on (-1) finds in element e.
Look(l, e) ==
  LET left == Len(buf) - l.position
  IN IF l.status # -1 THEN l
     ELSE IF left < HeaderSize(e) THEN [l EXCEPT !.status = 0]
     ELSE IF Verdict(e, FALSE) # "run"
          THEN [l EXCEPT !.position = @ + HeaderSize(e), !.status = StatusOf(Verdict(e, FALSE))]
     ELSE IF left < ElementSize(e) THEN [l EXCEPT !.position = @ + HeaderSize(e), !.status = 1]
     ELSE [l EXCEPT !.processed = @ + 1, !.position = @ + ElementSize(e)]

\* What it is to find, element by element.
Scanned ==
  LET looks[k \in elem - 1 .. Len(Elems)] ==
        IF k < elem THEN [processed |-> 0, position |-> pos, status |-> -1]
        ELSE Look(looks[k - 1], Elems[k])
      last == looks[Len(Elems)]
  IN IF last.status = -1 THEN [last EXCEPT !.status = 0] ELSE last

\* On every buffer that a walk puts before it, the compiled scanner finds what
\* the layout of the elements says, in both byte orders: how many are complete,
\* where it stops and why (_cython_core.c:16043).
ScannerSees ==
  Looping("scan") => \A little_endian \in BOOLEAN :
    LET found == Scanner!skip_string_chunk(BufferBytes(little_endian), pos, Len(Elems) - elem + 1,
                                           MaxString, RefsLen, little_endian)
    IN /\ <<found.processed, found.position, found.status>> = <<Scanned.processed, Scanned.position, Scanned.status>>
       /\ found.status \in {1, 2, 3} => found.value = Elems[elem + found.processed].n

\* Reading through the buffers yields what a plain cursor yields: the same
\* fields, and the same error at the same place.
Cursor == INSTANCE StreamCursor
RefinesCursor == Cursor!Spec

\* No file makes the loops spin: every walk ends, in an error or at the root's
\* end.  The scanner makes no progress on a header it cannot see in full.
Terminates == <>(st # "run")

\* _cython_core.pyx:3 and tests/test_string_batching.py:42: the compiled
\* scanner is only an accelerator, the walk ends as it does without it.  Here:
\* it never runs out of bytes on a vector that is there to its last element
\* and whose elements the Python loop parses.
ScannerAgrees ==
  st = "eof" /\ how = "scan" /\ elem = Len(Elems) =>
    Outcome(Elems[elem], FALSE, file.size - cur) # "run"
=============================================================================
