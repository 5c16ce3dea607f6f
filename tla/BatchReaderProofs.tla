-------------------------- MODULE BatchReaderProofs --------------------------
(***************************************************************************)
(* For files of any length and content, any chunk and any word: the batched *)
(* loops, the overshoot buffer and the primitives lose no byte, hold a      *)
(* bounded number of them, and consume what a plain cursor consumes.        *)
(*                                                                         *)
(* The operations of a loop are shown first to work on any local state     *)
(* that holds what the stream holds from one offset on (Holds): they leave  *)
(* one that holds it from a later offset on, or raise an error that the    *)
(* layout of the file justifies.  The invariant of the actions is the one  *)
(* statement Holds of the running loop.                                    *)
(*                                                                         *)
(* The last part is about the compiled scanner, which is written with      *)
(* recursive functions over words and elements.  Induction is replaced by   *)
(* Climb: of the numbers for which a fact is missing, one is least.         *)
(***************************************************************************)
EXTENDS BatchReader, SequenceTheorems, FiniteSetTheorems, TLAPS

-----------------------------------------------------------------------------
(* Sequences of consecutive offsets. *)

\* The part of s behind its first p entries, and n of these.
Suffix(s, p)  == SubSeq(s, p + 1, Len(s))
Part(s, p, n) == SubSeq(s, p + 1, p + n)

LEMMA BytesAre ==
  ASSUME NEW from \in Nat, NEW n \in Nat
  PROVE  /\ Bytes(from, n) \in Seq(Nat)
         /\ Len(Bytes(from, n)) = n
         /\ \A i \in 1 .. n : Bytes(from, n)[i] = from + i - 1
BY DEF Bytes

\* What is left and what is taken when k of them are cut off.
LEMMA BytesCut ==
  ASSUME NEW from \in Nat, NEW n \in Nat, NEW k \in 0 .. n
  PROVE  /\ Part(Bytes(from, n), 0, k) = Bytes(from, k)
         /\ Suffix(Bytes(from, n), k) = Bytes(from + k, n - k)
<1> DEFINE all == Bytes(from, n)
<1>1. /\ all \in Seq(Nat) /\ Len(all) = n
      /\ \A i \in 1 .. n : all[i] = from + i - 1
  BY BytesAre
<1>2. /\ Bytes(from, k) \in Seq(Nat) /\ Len(Bytes(from, k)) = k
      /\ \A i \in 1 .. k : Bytes(from, k)[i] = from + i - 1
  BY BytesAre
<1>3. n - k \in Nat /\ from + k \in Nat
  OBVIOUS
<1>4. /\ Bytes(from + k, n - k) \in Seq(Nat) /\ Len(Bytes(from + k, n - k)) = n - k
      /\ \A i \in 1 .. n - k : Bytes(from + k, n - k)[i] = from + k + i - 1
  BY <1>3, BytesAre
<1> HIDE DEF all
<1>5. /\ SubSeq(all, 1, k) \in Seq(Nat) /\ Len(SubSeq(all, 1, k)) = k
      /\ \A i \in 1 .. k : SubSeq(all, 1, k)[i] = all[i]
  BY <1>1
<1>6. /\ SubSeq(all, k + 1, n) \in Seq(Nat) /\ Len(SubSeq(all, k + 1, n)) = n - k
      /\ \A i \in 1 .. n - k : SubSeq(all, k + 1, n)[i] = all[k + i]
  BY <1>1
<1>7. SubSeq(all, 1, k) = Bytes(from, k)
  <2>1. \A i \in 1 .. k : SubSeq(all, 1, k)[i] = Bytes(from, k)[i]
    BY <1>1, <1>2, <1>5
  <2> QED BY <1>2, <1>5, <2>1, SeqEqual
<1>8. SubSeq(all, k + 1, n) = Bytes(from + k, n - k)
  <2>1. \A i \in 1 .. n - k : SubSeq(all, k + 1, n)[i] = Bytes(from + k, n - k)[i]
    <3> TAKE i \in 1 .. n - k
    <3>1. k + i \in 1 .. n
      OBVIOUS
    <3> QED BY <1>1, <1>4, <1>6, <3>1
  <2> QED BY <1>4, <1>6, <2>1, SeqEqual
<1>9. Part(all, 0, k) = SubSeq(all, 1, k) /\ Suffix(all, k) = SubSeq(all, k + 1, n)
  BY <1>1 DEF Part, Suffix
<1> QED BY <1>7, <1>8, <1>9 DEF all

LEMMA BytesJoin ==
  ASSUME NEW from \in Nat, NEW n \in Nat, NEW m \in Nat
  PROVE  Bytes(from, n) \o Bytes(from + n, m) = Bytes(from, n + m)
<1> DEFINE s == Bytes(from, n)
           t == Bytes(from + n, m)
           u == Bytes(from, n + m)
<1>1. s \in Seq(Nat) /\ Len(s) = n /\ \A i \in 1 .. n : s[i] = from + i - 1
  BY BytesAre
<1>2. t \in Seq(Nat) /\ Len(t) = m /\ \A i \in 1 .. m : t[i] = from + n + i - 1
  <2>1. from + n \in Nat
    OBVIOUS
  <2> QED BY <2>1, BytesAre
<1>3. u \in Seq(Nat) /\ Len(u) = n + m /\ \A i \in 1 .. n + m : u[i] = from + i - 1
  BY BytesAre
<1> HIDE DEF s, t, u
<1>4. /\ s \o t \in Seq(Nat) /\ Len(s \o t) = n + m
      /\ \A i \in 1 .. n + m : (s \o t)[i] = IF i <= n THEN s[i] ELSE t[i - n]
  BY <1>1, <1>2, ConcatProperties
<1>5. \A i \in 1 .. n + m : (s \o t)[i] = u[i]
  <2> TAKE i \in 1 .. n + m
  <2>1. CASE i <= n
    BY <1>1, <1>3, <1>4, <2>1
  <2>2. CASE i > n
    <3>1. i - n \in 1 .. m
      BY <2>2
    <3>2. t[i - n] = from + n + (i - n) - 1
      BY <1>2, <3>1
    <3>3. (s \o t)[i] = t[i - n]
      BY <1>4, <2>2
    <3>4. u[i] = from + i - 1
      BY <1>3
    <3>5. from + n + (i - n) - 1 = from + i - 1
      OBVIOUS
    <3>6. t[i - n] = u[i]
      BY <3>2, <3>4, <3>5, Zenon
    <3> QED BY <3>3, <3>6, Zenon
  <2>3. i <= n \/ i > n
    OBVIOUS
  <2> QED BY <2>1, <2>2, <2>3, Zenon
<1>6. s \o t = u
  BY <1>3, <1>4, <1>5, SeqEqual
<1> QED BY <1>6 DEF s, t, u

\* The unread part of a buffer, and what is read of it.
LEMMA SuffixFacts ==
  ASSUME NEW s \in Seq(Nat), NEW p \in 0 .. Len(s), NEW n \in 0 .. Len(s) - p
  PROVE  /\ Suffix(s, p) \in Seq(Nat) /\ Len(Suffix(s, p)) = Len(s) - p
         /\ Suffix(s, p + n) = Suffix(Suffix(s, p), n)
         /\ Part(s, p, n) = Part(Suffix(s, p), 0, n)
<1> DEFINE rest == SubSeq(s, p + 1, Len(s))
           left == Len(s) - p
           q == p + n
<1>0. left \in Nat /\ Len(s) = left + p /\ n \in 0 .. left
  OBVIOUS
<1>1. /\ rest \in Seq(Nat) /\ Len(rest) = left
      /\ \A i \in 1 .. left : rest[i] = s[p + i]
  <2>1. p \in Nat /\ p <= Len(s)
    OBVIOUS
  <2>2. rest \in Seq(Nat) /\ Len(rest) = Len(s) - p
    BY <2>1
  <2>3. \A i \in 1 .. Len(s) - p : rest[i] = s[p + i]
    BY <2>1
  <2> QED BY <2>2, <2>3
<1> HIDE DEF rest, left, q
<1>2. q \in Nat /\ p <= q /\ q <= Len(s) /\ Len(s) - q = left - n /\ q - p = n
  BY <1>0 DEF q
<1>3. /\ SubSeq(s, q + 1, Len(s)) \in Seq(Nat) /\ Len(SubSeq(s, q + 1, Len(s))) = Len(s) - q
      /\ \A i \in 1 .. Len(s) - q : SubSeq(s, q + 1, Len(s))[i] = s[q + i]
  BY <1>2
<1>4. /\ SubSeq(s, p + 1, q) \in Seq(Nat) /\ Len(SubSeq(s, p + 1, q)) = q - p
      /\ \A i \in 1 .. q - p : SubSeq(s, p + 1, q)[i] = s[p + i]
  BY <1>2
<1>5. /\ SubSeq(rest, n + 1, left) \in Seq(Nat) /\ Len(SubSeq(rest, n + 1, left)) = left - n
      /\ \A i \in 1 .. left - n : SubSeq(rest, n + 1, left)[i] = rest[n + i]
  BY <1>0, <1>1
<1>6. /\ SubSeq(rest, 1, n) \in Seq(Nat) /\ Len(SubSeq(rest, 1, n)) = n
      /\ \A i \in 1 .. n : SubSeq(rest, 1, n)[i] = rest[i]
  BY <1>0, <1>1
<1>7. SubSeq(s, q + 1, Len(s)) = SubSeq(rest, n + 1, left)
  <2>1. ASSUME NEW i \in 1 .. left - n
        PROVE  SubSeq(s, q + 1, Len(s))[i] = SubSeq(rest, n + 1, left)[i]
    <3>1. n + i \in 1 .. left /\ p + (n + i) = q + i
      BY <1>0 DEF q
    <3>2. rest[n + i] = s[q + i]
      BY <1>1, <3>1
    <3>3. SubSeq(s, q + 1, Len(s))[i] = s[q + i]
      BY <1>2, <1>3
    <3>4. SubSeq(rest, n + 1, left)[i] = rest[n + i]
      BY <1>5
    <3> QED BY <3>2, <3>3, <3>4, Zenon
  <2> QED BY <1>2, <1>3, <1>5, <2>1, SeqEqual
<1>8. SubSeq(s, p + 1, q) = SubSeq(rest, 1, n)
  <2>1. ASSUME NEW i \in 1 .. n
        PROVE  SubSeq(s, p + 1, q)[i] = SubSeq(rest, 1, n)[i]
    <3>1. i \in 1 .. left /\ i \in 1 .. q - p
      BY <1>0, <1>2
    <3> QED BY <1>1, <1>4, <1>6, <3>1, Zenon
  <2> QED BY <1>2, <1>4, <1>6, <2>1, SeqEqual
<1>9. Suffix(s, p + n) = SubSeq(s, q + 1, Len(s)) /\ Part(s, p, n) = SubSeq(s, p + 1, q)
  BY DEF Suffix, Part, q
<1>10. Suffix(rest, n) = SubSeq(rest, n + 1, left) /\ Part(rest, 0, n) = SubSeq(rest, 1, n)
  BY <1>0, <1>1 DEF Suffix, Part
<1>11. rest = Suffix(s, p) /\ left = Len(s) - p
  BY DEF rest, left, Suffix
<1>12. Suffix(s, p + n) = Suffix(Suffix(s, p), n) /\ Part(s, p, n) = Part(Suffix(s, p), 0, n)
  BY <1>7, <1>8, <1>9, <1>10, <1>11, Zenon
<1> QED BY <1>1, <1>11, <1>12, Zenon

\* A whole buffer is its own part from the start.
LEMMA Whole ==
  ASSUME NEW s \in Seq(Nat)
  PROVE  Suffix(s, 0) = s
BY SeqEqual DEF Suffix

-----------------------------------------------------------------------------
(* The operations of a loop. *)

LocalState == [buf : Seq(Nat), pos : Nat, at : Nat, st : Statuses]

\* A local state that is well formed and small.
Kept(l) ==
  /\ l \in LocalState
  /\ l.pos <= Len(l.buf)
  /\ Len(l.buf) < Chunk + 2 * Word

\* It holds the stream from an offset on: the unread part of the buffer is
\* what lies between that offset and the stream's.
Holds(l, from) ==
  /\ Kept(l)
  /\ l.st = "run"
  /\ from \in Nat /\ from <= l.at /\ l.at <= file.size
  /\ Unread(l) = Bytes(from, l.at - from)

\* The outcome of an operation: it holds the stream from the offset to, or
\* the bytes up to an offset are not all there.
Yields(r, to, wanted) ==
  \/ Holds(r, to) /\ to <= file.size
  \/ Kept(r) /\ r.st = "eof" /\ file.size < wanted

LEMMA Sizes == Word \in Nat /\ Word > 0 /\ Chunk \in Nat /\ Chunk > 0 /\ 2 * Word \in Nat
BY LayoutAssumption, ChunkAssumption

LEMMA UnreadSuffix == \A l : Unread(l) = Suffix(l.buf, l.pos) /\ Buffered(l) = Len(l.buf) - l.pos
BY DEF Unread, Suffix, Buffered

LEMMA UnreadIs ==
  ASSUME NEW l, NEW from, Holds(l, from), file.size \in Nat
  PROVE  /\ Unread(l) \in Seq(Nat)
         /\ Len(Unread(l)) = l.at - from
         /\ Buffered(l) = l.at - from
         /\ l.at - from \in Nat
         /\ l.pos + (l.at - from) = Len(l.buf)
<1>1. l.buf \in Seq(Nat) /\ l.pos \in Nat /\ l.at \in Nat /\ Len(l.buf) \in Nat /\ l.pos <= Len(l.buf)
  BY DEF Holds, Kept, LocalState
<1>2. l.at - from \in Nat
  BY <1>1 DEF Holds
<1>3. Unread(l) \in Seq(Nat) /\ Len(Unread(l)) = Len(l.buf) - l.pos
  <2>1. 0 \in 0 .. Len(l.buf) - l.pos /\ l.pos \in 0 .. Len(l.buf)
    BY <1>1
  <2>2. Suffix(l.buf, l.pos) \in Seq(Nat) /\ Len(Suffix(l.buf, l.pos)) = Len(l.buf) - l.pos
    BY <1>1, <2>1, SuffixFacts, Zenon
  <2> QED BY <2>2, UnreadSuffix
<1>4. Len(Unread(l)) = l.at - from
  BY <1>2, BytesAre DEF Holds
<1>5. Len(l.buf) - l.pos = l.at - from
  BY <1>3, <1>4
<1>6. Buffered(l) = l.at - from
  BY <1>5 DEF Buffered
<1>7. l.pos + (l.at - from) = Len(l.buf)
  BY <1>1, <1>2, <1>5
<1> QED BY <1>2, <1>3, <1>4, <1>6, <1>7

LEMMA Fetched ==
  ASSUME NEW offset \in Nat, NEW n \in Nat, file.size \in Nat, offset <= file.size
  PROVE  \E m \in Nat : /\ fetch(offset, n) = Bytes(offset, m)
                        /\ m <= n /\ offset + m <= file.size
                        /\ m = n \/ offset + m = file.size
<1> DEFINE m == Least(n, file.size - offset)
<1>1. m \in Nat /\ m <= n /\ offset + m <= file.size /\ (m = n \/ offset + m = file.size)
  BY DEF Least
<1> QED BY <1>1 DEF fetch

LEMMA RefillYields ==
  ASSUME NEW l, NEW from, Holds(l, from), file.size \in Nat,
         NEW need \in Nat, need <= 2 * Word
  PROVE  LET r == _refill_batch(l, need)
         IN /\ Yields(r, from, from + need)
            /\ r.st = "run" => r.at >= from + need
<1> DEFINE r == _refill_batch(l, need)
           have == l.at - from
           want == Greatest(Chunk, need - Buffered(l))
           chunk == IF Buffered(l) >= need THEN <<>> ELSE fetch(l.at, want)
<1>1. /\ Unread(l) \in Seq(Nat) /\ Len(Unread(l)) = have /\ Buffered(l) = have
      /\ have \in Nat /\ l.pos + have = Len(l.buf)
  BY UnreadIs
<1>2. /\ l \in LocalState /\ l.st = "run" /\ Len(l.buf) < Chunk + 2 * Word
      /\ from \in Nat /\ l.at \in Nat /\ from <= l.at /\ l.at <= file.size
      /\ l.pos \in Nat /\ l.buf \in Seq(Nat) /\ Len(l.buf) \in Nat
      /\ Unread(l) = Bytes(from, have)
  BY DEF Holds, Kept, LocalState
<1>3. \E m \in Nat : /\ chunk = Bytes(l.at, m) /\ l.at + m <= file.size
                     /\ have + m < Chunk + 2 * Word
                     /\ have + m < need => l.at + m = file.size
  <2>1. CASE have >= need
    <3>1. chunk = <<>>
      BY <1>1, <2>1
    <3>2. Bytes(l.at, 0) = <<>>
      BY DEF Bytes
    <3>3. chunk = Bytes(l.at, 0)
      BY <3>1, <3>2
    <3>4. have < Chunk + 2 * Word
      BY <1>1, <1>2, Sizes
    <3> HIDE DEF chunk, want
    <3>5. l.at + 0 <= file.size /\ have + 0 < Chunk + 2 * Word /\ ~(have + 0 < need)
      BY <1>1, <1>2, <2>1, <3>4
    <3> WITNESS 0 \in Nat
    <3> QED BY <3>3, <3>5
  <2>2. CASE have < need
    <3>1. chunk = fetch(l.at, want)
      BY <1>1, <2>2
    <3>2. want \in Nat /\ want >= need - have /\ (want = Chunk \/ want = need - have)
      BY <1>1, <2>2, Sizes DEF Greatest
    <3>3. PICK m \in Nat : /\ fetch(l.at, want) = Bytes(l.at, m)
                           /\ m <= want /\ l.at + m <= file.size
                           /\ m = want \/ l.at + m = file.size
      BY <1>2, <3>2, Fetched
    <3>4. have + m < Chunk + 2 * Word
      BY <1>1, <2>2, <3>2, <3>3, Sizes
    <3>5. have + m < need => l.at + m = file.size
      BY <1>1, <3>2, <3>3
    <3> QED BY <3>1, <3>3, <3>4, <3>5
  <2> QED BY <1>1, <2>1, <2>2
<1>4. PICK m \in Nat : /\ chunk = Bytes(l.at, m) /\ l.at + m <= file.size
                       /\ have + m < Chunk + 2 * Word
                       /\ have + m < need => l.at + m = file.size
  BY <1>3
<1> HIDE DEF chunk, want
<1>5. chunk \in Seq(Nat) /\ Len(chunk) = m
  BY <1>2, <1>4, BytesAre
<1>6. r = IF have + m < need THEN Raise(l, "eof")
          ELSE [l EXCEPT !.buf = Unread(l) \o chunk, !.pos = 0, !.at = l.at + m]
  BY <1>1, <1>5 DEF _refill_batch, chunk, want
<1> HIDE DEF r
<1>7. CASE have + m < need
  <2>1. r = [l EXCEPT !.st = "eof"]
    BY <1>6, <1>7 DEF Raise
  <2>2. r \in LocalState /\ r.st = "eof" /\ r.buf = l.buf /\ r.pos = l.pos
    BY <1>2, <2>1 DEF LocalState, Statuses
  <2>3. file.size < from + need
    BY <1>1, <1>2, <1>4, <1>7
  <2>4. Kept(r)
    BY <1>1, <1>2, <2>2 DEF Kept
  <2> QED BY <2>2, <2>3, <2>4 DEF Yields, r
<1>8. CASE ~(have + m < need)
  <2>1. r = [l EXCEPT !.buf = Unread(l) \o chunk, !.pos = 0, !.at = l.at + m]
    BY <1>6, <1>8
  <2>2. Unread(l) \o chunk = Bytes(from, have + m)
    <3>1. from + have = l.at
      BY <1>2
    <3>2. Bytes(from, have) \o Bytes(from + have, m) = Bytes(from, have + m)
      <4>1. from \in Nat /\ have \in Nat /\ m \in Nat
        BY <1>1, <1>2
      <4> QED BY <4>1, BytesJoin, Zenon
    <3> QED BY <1>2, <1>4, <3>1, <3>2, Zenon
  <2>3. /\ Bytes(from, have + m) \in Seq(Nat) /\ Len(Bytes(from, have + m)) = have + m
        /\ have + m \in Nat
    <3>1. have + m \in Nat
      BY <1>1
    <3> QED BY <1>2, <3>1, BytesAre
  <2> DEFINE b == Bytes(from, have + m)
  <2>a. r = [l EXCEPT !.buf = b, !.pos = 0, !.at = l.at + m]
    BY <2>1, <2>2, Zenon
  <2>b. b \in Seq(Nat) /\ l.at + m \in Nat
    BY <1>2, <2>3
  <2> HIDE DEF b
  <2>4. r \in LocalState /\ r.st = "run" /\ r.buf = b /\ r.pos = 0 /\ r.at = l.at + m
    BY <1>2, <2>a, <2>b DEF LocalState
  <2>5. Unread(r) = Bytes(from, have + m)
    BY <2>3, <2>4, Whole, UnreadSuffix DEF b
  <2>6. have + m = r.at - from
    BY <1>2, <2>4
  <2>7. Kept(r)
    BY <1>4, <2>3, <2>4 DEF Kept, b
  <2>8. Holds(r, from) /\ from <= file.size
    BY <1>2, <1>4, <2>4, <2>5, <2>6, <2>7 DEF Holds
  <2>9. r.at >= from + need
    BY <1>1, <1>2, <1>8, <2>4
  <2> QED BY <2>8, <2>9 DEF Yields, r
<1> QED BY <1>7, <1>8

\* Taking n buffered bytes: they are those at the offset, the rest remains.
LEMMA TakeYields ==
  ASSUME NEW l, NEW from, Holds(l, from), file.size \in Nat,
         NEW n \in Nat, n <= l.at - from
  PROVE  /\ Part(l.buf, l.pos, n) = Bytes(from, n)
         /\ Holds([l EXCEPT !.pos = @ + n], from + n)
         /\ from + n <= file.size
<1> DEFINE r == [l EXCEPT !.pos = l.pos + n]
           have == l.at - from
<1>1. /\ Unread(l) \in Seq(Nat) /\ Len(Unread(l)) = have
      /\ have \in Nat /\ l.pos + have = Len(l.buf)
  BY UnreadIs
<1>2. /\ l \in LocalState /\ l.st = "run" /\ Len(l.buf) < Chunk + 2 * Word
      /\ from \in Nat /\ l.at \in Nat /\ from <= l.at /\ l.at <= file.size
      /\ l.pos \in Nat /\ l.buf \in Seq(Nat) /\ Len(l.buf) \in Nat
      /\ Unread(l) = Bytes(from, have)
  BY DEF Holds, Kept, LocalState
<1>3. l.pos \in 0 .. Len(l.buf) /\ n \in 0 .. Len(l.buf) - l.pos /\ n \in 0 .. have
  BY <1>1, <1>2
<1>4. /\ Suffix(l.buf, l.pos + n) = Suffix(Unread(l), n)
      /\ Part(l.buf, l.pos, n) = Part(Unread(l), 0, n)
  <2>1. /\ Suffix(l.buf, l.pos + n) = Suffix(Suffix(l.buf, l.pos), n)
        /\ Part(l.buf, l.pos, n) = Part(Suffix(l.buf, l.pos), 0, n)
    BY <1>2, <1>3, SuffixFacts, Zenon
  <2> QED BY <2>1, UnreadSuffix, Zenon
<1>5. /\ Part(Unread(l), 0, n) = Bytes(from, n)
      /\ Suffix(Unread(l), n) = Bytes(from + n, have - n)
  <2>1. /\ Part(Bytes(from, have), 0, n) = Bytes(from, n)
        /\ Suffix(Bytes(from, have), n) = Bytes(from + n, have - n)
    <3>1. from \in Nat /\ have \in Nat /\ n \in 0 .. have
      BY <1>1, <1>2, <1>3
    <3> QED BY <3>1, BytesCut, Zenon
  <2> QED BY <1>2, <2>1, Zenon
<1>6. /\ r \in LocalState /\ r.st = "run" /\ r.buf = l.buf /\ r.pos = l.pos + n /\ r.at = l.at
  <2>1. l \in LocalState /\ l.st = "run" /\ l.pos + n \in Nat
    BY <1>2
  <2> HIDE DEF have
  <2> QED BY <2>1 DEF LocalState
<1>7. Unread(r) = Bytes(from + n, r.at - (from + n))
  <2>1. have - n = r.at - (from + n)
    BY <1>2, <1>6
  <2> QED BY <1>4, <1>5, <1>6, <2>1, UnreadSuffix
<1>8. r.pos <= Len(r.buf) /\ from + n <= r.at /\ r.at <= file.size /\ from + n \in Nat
  BY <1>1, <1>2, <1>3, <1>6, SMTT(20)
<1> HIDE DEF r
<1>9. Holds(r, from + n)
  BY <1>2, <1>6, <1>7, <1>8 DEF Holds, Kept
<1>10. r = [l EXCEPT !.pos = @ + n]
  BY DEF r
<1> QED BY <1>2, <1>4, <1>5, <1>6, <1>8, <1>9, <1>10

LEMMA WordYields ==
  ASSUME NEW l, NEW from, Holds(l, from), file.size \in Nat
  PROVE  Yields(word(l, from), from + Word, from + Word)
<1> DEFINE r == IF Buffered(l) < Word THEN _refill_batch(l, Word) ELSE l
<1>1. Buffered(l) = l.at - from /\ l.at \in Nat /\ from \in Nat
  BY UnreadIs DEF Holds, Kept, LocalState
<1>2. /\ Yields(r, from, from + Word)
      /\ r.st = "run" => r.at >= from + Word
  <2>1. CASE Buffered(l) < Word
    <3>1. Word \in Nat /\ Word <= 2 * Word
      BY Sizes
    <3>2. r = _refill_batch(l, Word)
      BY <2>1
    <3>3. /\ Yields(_refill_batch(l, Word), from, from + Word)
          /\ _refill_batch(l, Word).st = "run" => _refill_batch(l, Word).at >= from + Word
      BY <3>1, RefillYields
    <3> QED BY <3>2, <3>3, Zenon
  <2>2. CASE ~(Buffered(l) < Word)
    <3>1. r = l
      BY <2>2
    <3>2. l.at >= from + Word
      BY <1>1, <2>2, Sizes
    <3>3. Holds(l, from) /\ from <= file.size
      BY <1>1 DEF Holds
    <3> QED BY <3>1, <3>2, <3>3 DEF Yields
  <2> QED BY <2>1, <2>2
<1>3. word(l, from) = IF r.st # "run" THEN r
                      ELSE IF Part(r.buf, r.pos, Word) # Bytes(from, Word) THEN Raise(r, "garbage")
                      ELSE [r EXCEPT !.pos = @ + Word]
  BY DEF word, Part
<1> HIDE DEF r
<1>4. CASE r.st = "run"
  <2>1. Holds(r, from) /\ r.at >= from + Word /\ r.at \in Nat
    BY <1>2, <1>4 DEF Yields, Holds, Kept, LocalState
  <2>2. Word \in Nat /\ Word <= r.at - from
    BY <1>1, <2>1, Sizes
  <2>3. /\ Part(r.buf, r.pos, Word) = Bytes(from, Word)
        /\ Holds([r EXCEPT !.pos = @ + Word], from + Word)
        /\ from + Word <= file.size
    BY <2>1, <2>2, TakeYields
  <2>4. word(l, from) = [r EXCEPT !.pos = @ + Word]
    BY <1>3, <1>4, <2>3
  <2> QED BY <2>3, <2>4 DEF Yields
<1>5. CASE r.st # "run"
  <2>1. word(l, from) = r
    BY <1>3, <1>5
  <2> QED BY <1>2, <1>5, <2>1 DEF Yields, Holds
<1> QED BY <1>4, <1>5

\* The buffer used up and the stream further on.
LEMMA Emptied ==
  ASSUME NEW l \in LocalState, l.st = "run", NEW stop \in Nat
  PROVE  LET r == [l EXCEPT !.buf = <<>>, !.pos = 0, !.at = stop]
         IN r \in LocalState /\ r.st = "run" /\ r.buf = <<>> /\ r.pos = 0 /\ r.at = stop
<1> DEFINE none == <<>>
<1>1. none \in Seq(Nat)
  OBVIOUS
<1> HIDE DEF none
<1>2. LET r == [l EXCEPT !.buf = none, !.pos = 0, !.at = stop]
      IN r \in LocalState /\ r.st = "run" /\ r.buf = none /\ r.pos = 0 /\ r.at = stop
  BY <1>1 DEF LocalState
<1> QED BY <1>2, Zenon DEF none

LEMMA EmptyHolds ==
  ASSUME NEW l, l \in LocalState, l.st = "run", l.buf = <<>>, l.pos = 0,
         file.size \in Nat, l.at <= file.size
  PROVE  Holds(l, l.at)
<1>1. l.at \in Nat /\ l.at - l.at = 0 /\ Len(l.buf) = 0
  BY DEF LocalState
<1>2. Bytes(l.at, 0) = <<>>
  BY DEF Bytes
<1>3. Unread(l) = <<>>
  BY DEF Unread
<1>4. Kept(l)
  BY <1>1, Sizes DEF Kept
<1> QED BY <1>1, <1>2, <1>3, <1>4 DEF Holds

\* Where discard leaves the stream: n bytes on, unless the file ends before.
LEMMA DiscardIs ==
  ASSUME NEW offset \in Nat, NEW n \in Nat, file.size \in Nat, offset <= file.size
  PROVE  discard(offset, n) = IF offset + n > file.size THEN -1 ELSE offset + n
<1>1. PICK m \in Nat : /\ fetch(offset, n) = Bytes(offset, m)
                       /\ m <= n /\ offset + m <= file.size
                       /\ m = n \/ offset + m = file.size
  BY Fetched
<1>2. Len(fetch(offset, n)) = m
  BY <1>1, BytesAre
<1>3. Len(fetch(offset, n)) < n <=> offset + n > file.size
  BY <1>1, <1>2
<1> QED BY <1>3 DEF discard

LEMMA SkipYields ==
  ASSUME NEW l, NEW from, Holds(l, from), file.size \in Nat, NEW n \in Nat
  PROVE  Yields(skip_payload(l, n), from + n, from + n)
<1> DEFINE r == skip_payload(l, n)
           stop == discard(l.at, n - Buffered(l))
<1>1. /\ Buffered(l) = l.at - from /\ l.at \in Nat /\ from \in Nat /\ l \in LocalState /\ l.st = "run"
      /\ l.at <= file.size /\ from <= l.at /\ Len(l.buf) < Chunk + 2 * Word /\ l.pos <= Len(l.buf)
  BY UnreadIs DEF Holds, Kept, LocalState
<1>2. CASE n <= Buffered(l)
  <2>1. r = [l EXCEPT !.pos = @ + n]
    BY <1>2 DEF skip_payload
  <2>2. n <= l.at - from
    BY <1>1, <1>2
  <2>3. Holds([l EXCEPT !.pos = @ + n], from + n) /\ from + n <= file.size
    BY <2>2, TakeYields
  <2> QED BY <2>1, <2>3 DEF Yields
<1>3. CASE ~(n <= Buffered(l))
  <2>1. n - Buffered(l) \in Nat /\ l.at + (n - Buffered(l)) = from + n
    BY <1>1, <1>3
  <2>2. stop = IF from + n > file.size THEN -1 ELSE from + n
    BY <1>1, <2>1, DiscardIs
  <2>3. r = IF stop = -1 THEN Raise(l, "eof") ELSE [l EXCEPT !.buf = <<>>, !.pos = 0, !.at = stop]
    BY <1>3 DEF skip_payload
  <2> HIDE DEF r, stop
  <2>4. CASE from + n > file.size
    <3>1. r = [l EXCEPT !.st = "eof"]
      BY <2>2, <2>3, <2>4 DEF Raise
    <3>2. Kept(r) /\ r.st = "eof"
      BY <1>1, <3>1 DEF Kept, LocalState, Statuses
    <3> QED BY <1>1, <2>4, <3>2 DEF Yields, r
  <2>5. CASE ~(from + n > file.size)
    <3>1. stop = from + n /\ stop # -1 /\ stop \in Nat /\ stop <= file.size
      BY <1>1, <2>2, <2>5
    <3>2. r = [l EXCEPT !.buf = <<>>, !.pos = 0, !.at = stop]
      BY <2>3, <3>1
    <3>3. r \in LocalState /\ r.st = "run" /\ r.buf = <<>> /\ r.pos = 0 /\ r.at = stop
      <4>1. l \in LocalState /\ l.st = "run" /\ stop \in Nat
        BY <1>1, <3>1
      <4> QED BY <3>2, <4>1, Emptied, Zenon
    <3>4. Holds(r, stop)
      BY <3>1, <3>3, EmptyHolds
    <3> QED BY <3>1, <3>4 DEF Yields, r
  <2> QED BY <2>4, <2>5
<1> QED BY <1>2, <1>3

LEMMA ReadYields ==
  ASSUME NEW l, NEW from, Holds(l, from), file.size \in Nat, NEW n \in Nat,
         n = 0 \/ from = cur + 2 * Word, cur \in Nat
  PROVE  Yields(read_payload(l, n), from + n, from + n)
<1> DEFINE r    == read_payload(l, n)
           have == l.at - from
           more == fetch(l.at, n - Buffered(l))
           data == IF n <= Buffered(l) THEN Part(l.buf, l.pos, n) ELSE Unread(l) \o more
           next == IF n <= Buffered(l) THEN [l EXCEPT !.pos = @ + n]
                   ELSE [l EXCEPT !.buf = <<>>, !.pos = 0, !.at = @ + Len(more)]
<1>1. /\ Buffered(l) = have /\ l.at \in Nat /\ from \in Nat /\ l \in LocalState /\ l.st = "run"
      /\ l.at <= file.size /\ from <= l.at /\ Len(l.buf) < Chunk + 2 * Word /\ l.pos <= Len(l.buf)
      /\ have \in Nat /\ Unread(l) = Bytes(from, have)
  BY UnreadIs DEF Holds, Kept, LocalState
<1>2. r = IF Len(data) < n THEN Raise(l, "eof")
          ELSE IF data # Bytes(cur + 2 * Word, n) THEN Raise(next, "garbage") ELSE next
  BY DEF read_payload, Part
<1>3. Bytes(cur + 2 * Word, n) = Bytes(from, n)
  <2>1. CASE n = 0
    <3>1. \A f : Bytes(f, 0) = <<>>
      BY DEF Bytes
    <3> QED BY <2>1, <3>1, Zenon
  <2> QED BY <2>1, Zenon
<1>4. Len(Bytes(from, n)) = n
  BY <1>1, BytesAre
<1>5. CASE n <= Buffered(l)
  <2>1. data = Part(l.buf, l.pos, n) /\ next = [l EXCEPT !.pos = @ + n]
    BY <1>5
  <2>2. n <= have
    BY <1>1, <1>5
  <2>3. /\ Part(l.buf, l.pos, n) = Bytes(from, n)
        /\ Holds([l EXCEPT !.pos = @ + n], from + n) /\ from + n <= file.size
    BY <2>2, TakeYields
  <2> HIDE DEF data, next, have
  <2>4. data = Bytes(from, n)
    BY <2>1, <2>3, Zenon
  <2>5. ~(Len(data) < n)
    BY <1>4, <2>4
  <2>6. r = next
    BY <1>2, <1>3, <2>4, <2>5, Zenon
  <2> QED BY <2>1, <2>3, <2>6 DEF Yields
<1>6. CASE ~(n <= Buffered(l))
  <2>1. n - have \in Nat /\ n > have /\ l.at + (n - have) = from + n
    BY <1>1, <1>6
  <2>2. PICK m \in Nat : /\ fetch(l.at, n - have) = Bytes(l.at, m)
                         /\ m <= n - have /\ l.at + m <= file.size
                         /\ m = n - have \/ l.at + m = file.size
    BY <1>1, <2>1, Fetched
  <2>3. more = Bytes(l.at, m) /\ Len(Bytes(l.at, m)) = m
    BY <1>1, <2>2, BytesAre
  <2>4. data = Unread(l) \o more /\ next = [l EXCEPT !.buf = <<>>, !.pos = 0, !.at = @ + Len(more)]
    BY <1>6
  <2> HIDE DEF data, next, have, more
  <2>5. data = Bytes(from, have + m)
    <3>1. from + have = l.at
      BY <1>1 DEF have
    <3>2. Bytes(from, have) \o Bytes(from + have, m) = Bytes(from, have + m)
      <4>1. from \in Nat /\ have \in Nat /\ m \in Nat
        BY <1>1
      <4> QED BY <4>1, BytesJoin, ZenonT(30)
    <3> QED BY <1>1, <2>3, <2>4, <3>1, <3>2, Zenon
  <2>6. Len(data) = have + m
    <3>1. have + m \in Nat
      BY <1>1
    <3> QED BY <1>1, <2>5, <3>1, BytesAre
  <2>7. CASE have + m < n
    <3>1. r = [l EXCEPT !.st = "eof"]
      BY <1>2, <2>6, <2>7 DEF Raise
    <3>2. Kept(r) /\ r.st = "eof"
      BY <1>1, <3>1 DEF Kept, LocalState, Statuses
    <3>3. file.size < from + n
      BY <1>1, <2>1, <2>2, <2>7
    <3> QED BY <3>2, <3>3 DEF Yields
  <2>8. CASE ~(have + m < n)
    <3>1. have + m = n
      BY <1>1, <2>1, <2>2, <2>8
    <3>2. r = next
      BY <1>2, <1>3, <2>5, <2>6, <2>8, <3>1
    <3>3. r = [l EXCEPT !.buf = <<>>, !.pos = 0, !.at = l.at + m]
      BY <2>3, <2>4, <3>2
    <3>4. l.at + m \in Nat /\ l.at + m = from + n /\ l.at + m <= file.size
      BY <1>1, <2>1, <2>2, <3>1
    <3>5. r \in LocalState /\ r.st = "run" /\ r.buf = <<>> /\ r.pos = 0 /\ r.at = l.at + m
      <4>1. l \in LocalState /\ l.st = "run" /\ l.at + m \in Nat
        BY <1>1, <3>4
      <4> HIDE DEF r
      <4> QED BY <3>3, <4>1, Emptied, Zenon
    <3>6. Holds(r, from + n)
      BY <3>4, <3>5, EmptyHolds
    <3> QED BY <3>4, <3>6 DEF Yields
  <2> QED BY <2>7, <2>8
<1> QED BY <1>5, <1>6

-----------------------------------------------------------------------------
(* The elements of a vector, and the compiled scanner's turn over one. *)

Verdicts == {"run", "type", "ref", "length", "limit"}

LEMMA ElementIs ==
  ASSUME NEW e \in Element
  PROVE  /\ HeaderSize(e) \in {Word, 2 * Word} /\ HeaderSize(e) \in Nat
         /\ PayloadSize(e) \in Nat
         /\ PayloadSize(e) = 0 \/ HeaderSize(e) = 2 * Word
         /\ ElementSize(e) \in Nat /\ ElementSize(e) = HeaderSize(e) + PayloadSize(e)
         /\ \A reading \in BOOLEAN : Verdict(e, reading) \in Verdicts
<1>1. e.n \in Int /\ e.t \in {"char", "longref", "ref", "nil", "other"}
  BY DEF Element
<1>2. HeaderSize(e) \in {Word, 2 * Word} /\ HeaderSize(e) \in Nat
  BY Sizes DEF HeaderSize
<1>3. PayloadSize(e) \in Nat /\ (PayloadSize(e) = 0 \/ HeaderSize(e) = 2 * Word)
  BY <1>1 DEF PayloadSize, HeaderSize
<1>4. ElementSize(e) \in Nat /\ ElementSize(e) = HeaderSize(e) + PayloadSize(e)
  BY <1>2, <1>3 DEF ElementSize
<1>5. ASSUME NEW reading \in BOOLEAN PROVE Verdict(e, reading) \in Verdicts
  <2>1. CASE e.t = "char"
    BY <2>1 DEF Verdict, Verdicts
  <2>2. CASE e.t = "nil" \/ e.t = "other"
    BY <2>2 DEF Verdict, Verdicts
  <2>3. CASE e.t = "ref" \/ e.t = "longref"
    BY <2>3 DEF Verdict, Verdicts
  <2> QED BY <1>1, <2>1, <2>2, <2>3
<1> QED BY <1>2, <1>3, <1>4, <1>5

LEMMA ScanYields ==
  ASSUME NEW e \in Element, Holds(Local, cur), file.size \in Nat,
         Buffered(Local) >= HeaderSize(e)
  PROVE  LET r == skip_string_chunk(e)
         IN IF Verdict(e, FALSE) # "run" THEN Kept(r) /\ r.st = Verdict(e, FALSE)
            ELSE Yields(r, cur + ElementSize(e), cur + ElementSize(e))
<1> DEFINE h == HeaderSize(e)
           past == [Local EXCEPT !.pos = @ + h]
<1>1. h \in Nat /\ PayloadSize(e) \in Nat /\ ElementSize(e) = h + PayloadSize(e)
  BY ElementIs
<1>2. h <= Local.at - cur
  BY UnreadIs
<1>3. /\ Part(Local.buf, Local.pos, h) = Bytes(cur, h)
      /\ Holds(past, cur + h) /\ cur + h <= file.size
  BY <1>1, <1>2, TakeYields
<1>4. Part(Local.buf, Local.pos, h) = SubSeq(buf, pos + 1, pos + h)
  BY DEF Part, Local
<1>5. skip_string_chunk(e) = IF Verdict(e, FALSE) # "run" THEN Raise(Local, Verdict(e, FALSE))
                             ELSE skip_payload(past, PayloadSize(e))
  <2>1. SubSeq(buf, pos + 1, pos + h) = Bytes(cur, h)
    BY <1>3, <1>4, Zenon
  <2> QED BY <2>1 DEF skip_string_chunk
<1> HIDE DEF h, past
<1>6. CASE Verdict(e, FALSE) # "run"
  <2>1. Verdict(e, FALSE) \in Statuses
    BY ElementIs DEF Verdicts, Statuses
  <2>2. skip_string_chunk(e) = [Local EXCEPT !.st = Verdict(e, FALSE)]
    BY <1>5, <1>6 DEF Raise
  <2>3. Kept(skip_string_chunk(e)) /\ skip_string_chunk(e).st = Verdict(e, FALSE)
    BY <2>1, <2>2 DEF Kept, LocalState, Holds, Local
  <2> QED BY <1>6, <2>3
<1>7. CASE Verdict(e, FALSE) = "run"
  <2>1. Yields(skip_payload(past, PayloadSize(e)), cur + h + PayloadSize(e), cur + h + PayloadSize(e))
    BY <1>1, <1>3, SkipYields
  <2>2. cur + h + PayloadSize(e) = cur + ElementSize(e)
    BY <1>1, <1>3 DEF Holds
  <2>3. skip_string_chunk(e) = skip_payload(past, PayloadSize(e))
    BY <1>5, <1>7
  <2> QED BY <1>7, <2>1, <2>2, <2>3
<1> QED BY <1>6, <1>7

-----------------------------------------------------------------------------
(* The invariant. *)

\* Where the loop stands, if one runs: in a vector of strings, and inside the
\* header of an element only in the two Python loops.
Placed ==
  /\ how # "idle" =>
       /\ item <= Len(file.items) /\ file.items[item].k = "strings"
       /\ elem <= Len(Elems) + 1
       /\ pending = <<>>
  /\ step # 0 =>
       /\ how \in {"skip", "read"}
       /\ elem <= Len(Elems)
       /\ step * Word <= HeaderSize(Elems[elem])

\* The bytes that are held: by the loop that runs, or parked.
Here == IF how = "idle" THEN [buf |-> pending, pos |-> 0, at |-> at, st |-> "run"] ELSE Local

IInv ==
  /\ TypeOK /\ Placed /\ MemoryBounded /\ TrailingExact
  /\ st = "run" => Holds(Here, Parsed)

LEMMA FileIs ==
  ASSUME TypeOK
  PROVE  /\ file.size \in Nat /\ file.items \in Seq(Item) /\ Len(file.items) \in Nat
         /\ item <= Len(file.items) =>
              /\ file.items[item].k \in {"field", "strings"}
              /\ file.items[item].k = "field" => file.items[item].n \in Nat
              /\ file.items[item].k = "strings" => Elems \in Seq(Element)
<1>1. file.items \in Contents /\ file.size \in 0 .. MaxSize
  BY DEF TypeOK, Files
<1>2. file.items \in Seq(Item) /\ file.size \in Nat
  BY <1>1, ContentsAssumption
<1>3. ASSUME item <= Len(file.items)
      PROVE  file.items[item] \in Item
  BY <1>2, <1>3 DEF TypeOK
<1>4. \A i \in Item : /\ i.k \in {"field", "strings"}
                      /\ i.k = "field" => i.n \in Nat
                      /\ i.k = "strings" => i.elems \in Seq(Element)
  BY DEF Item
<1> QED BY <1>2, <1>3, <1>4 DEF Elems

LEMMA Steps == /\ 0 * Word = 0 /\ 1 * Word = Word /\ 2 * Word = Word + Word
               /\ \A k \in 0 .. 2 : k * Word \in Nat
<1>1. ASSUME NEW k \in 0 .. 2 PROVE k * Word \in Nat
  <2>1. k = 0 \/ k = 1 \/ k = 2
    OBVIOUS
  <2> QED BY <2>1, Sizes
<1> QED BY <1>1, Sizes

\* A turn of a loop that leaves the local state l.
LEMMA LoopKeeps ==
  ASSUME IInv, st = "run", how # "idle", elem <= Len(Elems),
         NEW l, Kept(l), l.st # "done", Set(l),
         UNCHANGED <<file, item, how, pending, trailing>>,
         elem' \in Nat \ {0}, elem' <= Len(Elems) + 1, step' \in 0 .. 2, cur' \in Nat,
         step' # 0 => /\ how \in {"skip", "read"} /\ elem' <= Len(Elems)
                      /\ step' * Word <= HeaderSize(Elems[elem']),
         l.st = "run" => Holds(l, cur' + step' * Word)
  PROVE  IInv'
<1>1. /\ l.buf \in Seq(Nat) /\ l.pos \in 0 .. Len(l.buf) /\ l.at \in Nat /\ l.st \in Statuses
      /\ Len(l.buf) < Chunk + 2 * Word
  BY DEF Kept, LocalState
<1>2. buf' = l.buf /\ pos' = l.pos /\ at' = l.at /\ st' = l.st
  BY DEF Set
<1>3. TypeOK'
  BY <1>1, <1>2 DEF IInv, TypeOK
<1>4. Elems' = Elems
  BY DEF Elems
<1>5. Placed'
  BY <1>4 DEF IInv, Placed
<1>6. MemoryBounded'
  BY <1>1, <1>2 DEF IInv, MemoryBounded
<1>7. TrailingExact'
  BY <1>2 DEF TrailingExact
<1>8. ASSUME st' = "run" PROVE Holds(Here, Parsed)'
  <2>1. Holds(l, cur' + step' * Word)
    BY <1>2, <1>8
  <2>2. Here' = Local'
    BY DEF Here
  <2>3. Local' = l
    BY <1>1, <1>2, <1>8 DEF Local, Kept, LocalState
  <2>4. Here' = l /\ Parsed' = cur' + step' * Word
    BY <2>2, <2>3 DEF Parsed
  <2> QED BY <2>1, <2>4 DEF Holds, Kept
<1> QED BY <1>3, <1>5, <1>6, <1>7, <1>8 DEF IInv

-----------------------------------------------------------------------------
(* The turns of the loops: each preserves the invariant, and is a step of the *)
(* cursor or moves nothing that the cursor has.                             *)

Refined == [Cursor!Next]_(Cursor!vars)

LEMMA CursorLayout ==
  /\ \A e : Cursor!HeaderSize(e) = HeaderSize(e) /\ Cursor!ElementSize(e) = ElementSize(e)
  /\ \A e, reading, left : Cursor!Outcome(e, reading, left) = Outcome(e, reading, left)
<1>1. \A e : Cursor!HeaderSize(e) = HeaderSize(e)
  BY DEF Cursor!HeaderSize, HeaderSize
<1>2. \A e : Cursor!ElementSize(e) = ElementSize(e)
  BY <1>1, Zenon DEF Cursor!ElementSize, ElementSize, Cursor!PayloadSize, PayloadSize
<1>3. \A e, reading : Cursor!Verdict(e, reading) = Verdict(e, reading)
  BY Zenon DEF Cursor!Verdict, Verdict
<1>4. \A e, reading, left : Cursor!Outcome(e, reading, left) = Outcome(e, reading, left)
  BY <1>1, <1>2, <1>3, Zenon DEF Cursor!Outcome, Outcome
<1> QED BY <1>1, <1>2, <1>4

LEMMA YieldsWhat ==
  ASSUME NEW r, NEW to, NEW wanted, Yields(r, to, wanted)
  PROVE  /\ Kept(r) /\ r.st \in {"run", "eof"}
         /\ r.st = "run" => Holds(r, to) /\ to <= file.size
         /\ r.st = "eof" => file.size < wanted
BY DEF Yields, Holds

\* The cursor walks over the element, or stops in front of it.
LEMMA WalkRefined ==
  ASSUME st = "run", how # "idle", elem <= Len(Elems),
         UNCHANGED <<file, item, how, trailing>>,
         NEW out, out = Outcome(Elems[elem], how = "read", file.size - cur),
         \/ /\ out = "run" /\ st' = "run" /\ elem' = elem + 1
            /\ cur' = cur + ElementSize(Elems[elem])
         \/ out # "run" /\ st' = out /\ UNCHANGED <<elem, cur>>
  PROVE  Refined
<1>1. out = Cursor!Outcome(Elems[elem], how = "read", file.size - cur)
  BY CursorLayout, Zenon
<1>2. Cursor!ElementSize(Elems[elem]) = ElementSize(Elems[elem])
  BY CursorLayout, Zenon
<1>3. Cursor!Walk
  BY <1>1, <1>2 DEF Cursor!Walk, Cursor!Going, Cursor!Fail, Cursor!Left, Elems
<1> QED BY <1>3 DEF Refined, Cursor!Next

\* The end of an element's turn, whichever the loop.
LEMMA ConsumedKeeps ==
  ASSUME IInv, st = "run", how # "idle", elem <= Len(Elems), NEW l, Consumed(l),
         NEW reading \in BOOLEAN, reading = (how = "read"),
         file.size >= cur + HeaderSize(Elems[elem]),
         IF Verdict(Elems[elem], reading) # "run"
         THEN Kept(l) /\ l.st = Verdict(Elems[elem], reading)
         ELSE Yields(l, cur + ElementSize(Elems[elem]), cur + ElementSize(Elems[elem]))
  PROVE  IInv' /\ Refined
<1> DEFINE e == Elems[elem]
           left == file.size - cur
<1>1. TypeOK /\ Placed
  BY DEF IInv
<1>2. file.size \in Nat /\ cur \in Nat /\ elem \in Nat \ {0} /\ step \in 0 .. 2
  BY <1>1, FileIs DEF TypeOK
<1>3. Elems \in Seq(Element)
  BY <1>1, FileIs DEF Placed
<1>4. e \in Element
  BY <1>2, <1>3
<1> HIDE DEF e
<1>5. /\ HeaderSize(e) \in Nat /\ ElementSize(e) \in Nat
      /\ Verdict(e, reading) \in Verdicts
  BY <1>4, ElementIs
<1>6. /\ Set(l) /\ UNCHANGED <<file, item, how, pending, trailing>>
      /\ l.st = "run" => elem' = elem + 1 /\ step' = 0 /\ cur' = cur + ElementSize(e)
      /\ l.st # "run" => UNCHANGED <<elem, step, cur>>
  BY DEF Consumed, e
<1>7. CASE Verdict(e, reading) # "run"
  <2>1. Kept(l) /\ l.st = Verdict(e, reading) /\ l.st # "run" /\ l.st # "done"
    BY <1>5, <1>7 DEF e, Verdicts
  <2>2. Outcome(e, reading, left) = Verdict(e, reading)
    BY <1>2, <1>5, <1>7 DEF Outcome, e
  <2>3. IInv'
    BY <1>1, <1>2, <1>6, <2>1, LoopKeeps DEF Placed
  <2>4. st' = Outcome(e, reading, left) /\ st' # "run" /\ UNCHANGED <<elem, cur>>
    BY <1>6, <2>1, <2>2 DEF Set
  <2>5. Refined
    BY <1>6, <2>4, WalkRefined DEF e
  <2> QED BY <2>3, <2>5
<1>8. CASE Verdict(e, reading) = "run"
  <2>1. Yields(l, cur + ElementSize(e), cur + ElementSize(e))
    BY <1>8 DEF e
  <2>2. /\ Kept(l) /\ l.st \in {"run", "eof"}
        /\ l.st = "run" => Holds(l, cur + ElementSize(e)) /\ cur + ElementSize(e) <= file.size
        /\ l.st = "eof" => file.size < cur + ElementSize(e)
    BY <2>1, YieldsWhat
  <2>3. CASE l.st = "run"
    <3>1. Outcome(e, reading, left) = "run"
      BY <1>2, <1>5, <1>8, <2>2, <2>3 DEF Outcome, e
    <3>2. Holds(l, cur' + step' * Word)
      <4>1. cur' + step' * Word = cur + ElementSize(e)
        BY <1>2, <1>5, <1>6, <2>3, Steps
      <4> QED BY <2>2, <2>3, <4>1
    <3>3. elem' \in Nat \ {0} /\ elem' <= Len(Elems) + 1 /\ step' \in 0 .. 2 /\ cur' \in Nat /\ step' = 0
      BY <1>2, <1>3, <1>5, <1>6, <2>3
    <3>4. IInv'
      BY <1>6, <2>2, <2>3, <3>2, <3>3, LoopKeeps
    <3>5. st' = "run" /\ elem' = elem + 1 /\ cur' = cur + ElementSize(e)
      BY <1>6, <2>3 DEF Set
    <3>6. Refined
      BY <1>6, <3>1, <3>5, WalkRefined DEF e
    <3> QED BY <3>4, <3>6
  <2>4. CASE l.st = "eof"
    <3>1. Outcome(e, reading, left) = "eof"
      BY <1>2, <1>5, <1>8, <2>2, <2>4 DEF Outcome, e
    <3>2. IInv'
      BY <1>1, <1>2, <1>6, <2>2, <2>4, LoopKeeps DEF Placed
    <3>3. st' = "eof" /\ UNCHANGED <<elem, cur>>
      BY <1>6, <2>4 DEF Set
    <3>4. Refined
      BY <1>6, <3>1, <3>3, WalkRefined DEF e
    <3> QED BY <3>2, <3>4
  <2> QED BY <2>2, <2>3, <2>4
<1> QED BY <1>7, <1>8

\* What a loop that is in a vector knows of the element in turn.
LEMMA LoopingIs ==
  ASSUME IInv, NEW h, h # "idle", Looping(h)
  PROVE  /\ st = "run" /\ how = h /\ elem <= Len(Elems) /\ elem \in Nat \ {0}
         /\ Elems \in Seq(Element) /\ Elems[elem] \in Element
         /\ file.size \in Nat /\ cur \in Nat /\ step \in 0 .. 2 /\ step * Word \in Nat
         /\ Holds(Local, cur + step * Word)
<1>1. st = "run" /\ how = h /\ elem <= Len(Elems) /\ TypeOK /\ Placed
  BY DEF Looping, IInv
<1>2. elem \in Nat \ {0} /\ cur \in Nat /\ step \in 0 .. 2 /\ step * Word \in Nat
  BY <1>1, Steps DEF TypeOK
<1>3. file.size \in Nat /\ Elems \in Seq(Element)
  BY <1>1, FileIs DEF Placed
<1>4. Elems[elem] \in Element
  BY <1>1, <1>2, <1>3
<1>5. Holds(Local, cur + step * Word)
  BY <1>1 DEF IInv, Here, Parsed
<1> QED BY <1>1, <1>2, <1>3, <1>4, <1>5

LEMMA UnpackKeeps ==
  ASSUME IInv, Unpack
  PROVE  IInv' /\ Refined
<1> DEFINE e == Elems[elem]
           l == word(Local, cur + step * Word)
<1>1. PICK h \in {"skip", "read"} : Looping(h)
  BY DEF Unpack
<1>2. /\ st = "run" /\ how = h /\ elem <= Len(Elems) /\ elem \in Nat \ {0}
      /\ e \in Element /\ file.size \in Nat /\ cur \in Nat
      /\ step \in 0 .. 2 /\ step * Word \in Nat
      /\ Holds(Local, cur + step * Word)
  BY <1>1, LoopingIs
<1>3. Yields(l, cur + step * Word + Word, cur + step * Word + Word)
  BY <1>2, WordYields
<1>4. /\ step * Word < HeaderSize(e) /\ Set(l)
      /\ step' = IF l.st = "run" THEN step + 1 ELSE step
      /\ UNCHANGED <<file, item, how, elem, pending, trailing, cur>>
  BY DEF Unpack
<1> HIDE DEF l, e
<1>5. /\ Kept(l) /\ l.st \in {"run", "eof"}
      /\ l.st = "run" => Holds(l, cur + step * Word + Word)
      /\ l.st = "eof" => file.size < cur + step * Word + Word
  BY <1>3, YieldsWhat
<1>6. /\ HeaderSize(e) \in Nat /\ step * Word + Word <= HeaderSize(e)
      /\ step + 1 \in 0 .. 2 /\ (step + 1) * Word = step * Word + Word
  <2>1. HeaderSize(e) = Word \/ HeaderSize(e) = Word + Word
    BY <1>2, ElementIs, Steps
  <2>2. step = 0 \/ step = 1 \/ step = 2
    BY <1>2
  <2>3. CASE step = 0
    BY <1>4, <2>1, <2>3, Sizes, Steps
  <2>4. CASE step = 1
    BY <1>4, <2>1, <2>4, Sizes, Steps
  <2>5. CASE step = 2
    BY <1>4, <2>1, <2>5, Sizes, Steps
  <2> QED BY <2>2, <2>3, <2>4, <2>5
<1>7. CASE l.st = "run"
  <2>1. step' = step + 1 /\ step' \in 0 .. 2 /\ step' * Word <= HeaderSize(e) /\ step' * Word = step * Word + Word
    BY <1>4, <1>6, <1>7
  <2>2. Holds(l, cur' + step' * Word)
    <3>1. cur' + step' * Word = cur + step * Word + Word
      BY <1>2, <1>4, <2>1, Sizes
    <3> QED BY <1>5, <1>7, <3>1
  <2>3. elem' = elem /\ cur' = cur /\ elem' <= Len(Elems) + 1 /\ how \in {"skip", "read"}
    BY <1>2, <1>4, LoopingIs, <1>1
  <2>4. IInv'
    BY <1>2, <1>4, <1>5, <1>7, <2>1, <2>2, <2>3, LoopKeeps DEF e
  <2>5. UNCHANGED Cursor!vars
    BY <1>2, <1>4, <1>7 DEF Cursor!vars, Set
  <2> QED BY <2>4, <2>5 DEF Refined
<1>8. CASE l.st = "eof"
  <2>1. Outcome(e, how = "read", file.size - cur) = "eof"
    <3>1. file.size - cur < HeaderSize(e)
      BY <1>2, <1>5, <1>6, <1>8, Sizes
    <3> QED BY <3>1 DEF Outcome
  <2>2. step' = step /\ st' = "eof" /\ UNCHANGED <<elem, cur>>
    BY <1>4, <1>8 DEF Set
  <2>3. IInv'
    BY <1>2, <1>4, <1>5, <1>8, <2>2, LoopKeeps DEF IInv, Placed
  <2>4. Refined
    BY <1>2, <1>4, <2>1, <2>2, WalkRefined DEF e
  <2> QED BY <2>3, <2>4
<1> QED BY <1>5, <1>7, <1>8

LEMMA SkipElementKeeps ==
  ASSUME IInv, SkipElement
  PROVE  IInv' /\ Refined
<1> DEFINE e == Elems[elem]
<1>1. /\ st = "run" /\ how = "skip" /\ elem <= Len(Elems) /\ e \in Element
      /\ file.size \in Nat /\ cur \in Nat /\ Holds(Local, cur + step * Word)
  BY LoopingIs DEF SkipElement
<1>2. step * Word = HeaderSize(e)
  BY DEF SkipElement
<1> HIDE DEF e
<1>3. Holds(Local, cur + HeaderSize(e))
  BY <1>1, <1>2
<1>4. /\ HeaderSize(e) \in Nat /\ PayloadSize(e) \in Nat
      /\ ElementSize(e) = HeaderSize(e) + PayloadSize(e) /\ Verdict(e, FALSE) \in Verdicts
  BY <1>1, ElementIs
<1>5. file.size >= cur + HeaderSize(e)
  BY <1>1, <1>3, <1>4 DEF Holds, Kept, LocalState
<1>6. FALSE = (how = "read")
  BY <1>1
<1>7. CASE Verdict(e, FALSE) # "run"
  <2>1. Consumed(Raise(Local, Verdict(e, FALSE)))
    BY <1>7 DEF SkipElement, e
  <2>2. Kept(Raise(Local, Verdict(e, FALSE))) /\ Raise(Local, Verdict(e, FALSE)).st = Verdict(e, FALSE)
    BY <1>3, <1>4 DEF Raise, Holds, Kept, LocalState, Verdicts, Statuses
  <2> QED BY <1>1, <1>5, <1>6, <1>7, <2>1, <2>2, ConsumedKeeps DEF e
<1>8. CASE Verdict(e, FALSE) = "run"
  <2>1. Consumed(skip_payload(Local, PayloadSize(e)))
    BY <1>8 DEF SkipElement, e
  <2>2. Yields(skip_payload(Local, PayloadSize(e)), cur + HeaderSize(e) + PayloadSize(e),
               cur + HeaderSize(e) + PayloadSize(e))
    BY <1>1, <1>3, <1>4, SkipYields
  <2>3. cur + HeaderSize(e) + PayloadSize(e) = cur + ElementSize(e)
    BY <1>1, <1>4
  <2> QED BY <1>1, <1>5, <1>6, <1>8, <2>1, <2>2, <2>3, ConsumedKeeps DEF e
<1> QED BY <1>7, <1>8

LEMMA ReadElementKeeps ==
  ASSUME IInv, ReadElement
  PROVE  IInv' /\ Refined
<1> DEFINE e == Elems[elem]
<1>1. /\ st = "run" /\ how = "read" /\ elem <= Len(Elems) /\ e \in Element
      /\ file.size \in Nat /\ cur \in Nat /\ Holds(Local, cur + step * Word)
  BY LoopingIs DEF ReadElement
<1>2. step * Word = HeaderSize(e)
  BY DEF ReadElement
<1> HIDE DEF e
<1>3. Holds(Local, cur + HeaderSize(e))
  BY <1>1, <1>2
<1>4. /\ HeaderSize(e) \in Nat /\ PayloadSize(e) \in Nat
      /\ PayloadSize(e) = 0 \/ HeaderSize(e) = 2 * Word
      /\ ElementSize(e) = HeaderSize(e) + PayloadSize(e) /\ Verdict(e, TRUE) \in Verdicts
  BY <1>1, ElementIs
<1>5. file.size >= cur + HeaderSize(e)
  BY <1>1, <1>3, <1>4, SMTT(20) DEF Holds, Kept, LocalState
<1>6. TRUE = (how = "read")
  BY <1>1
<1>7. CASE Verdict(e, TRUE) # "run"
  <2>1. Consumed(Raise(Local, Verdict(e, TRUE)))
    BY <1>7 DEF ReadElement, e
  <2>2. Kept(Raise(Local, Verdict(e, TRUE))) /\ Raise(Local, Verdict(e, TRUE)).st = Verdict(e, TRUE)
    BY <1>3, <1>4 DEF Raise, Holds, Kept, LocalState, Verdicts, Statuses
  <2> QED BY <1>1, <1>5, <1>6, <1>7, <2>1, <2>2, ConsumedKeeps DEF e
<1>8. CASE Verdict(e, TRUE) = "run"
  <2>1. Consumed(read_payload(Local, PayloadSize(e)))
    BY <1>8 DEF ReadElement, e
  <2>2. PayloadSize(e) = 0 \/ cur + HeaderSize(e) = cur + 2 * Word
    BY <1>4
  <2>3. Yields(read_payload(Local, PayloadSize(e)), cur + HeaderSize(e) + PayloadSize(e),
               cur + HeaderSize(e) + PayloadSize(e))
    BY <1>1, <1>3, <1>4, <2>2, ReadYields
  <2>4. cur + HeaderSize(e) + PayloadSize(e) = cur + ElementSize(e)
    BY <1>1, <1>4
  <2> QED BY <1>1, <1>5, <1>6, <1>8, <2>1, <2>3, <2>4, ConsumedKeeps DEF e
<1> QED BY <1>7, <1>8

LEMMA ScanElementKeeps ==
  ASSUME IInv, ScanElement
  PROVE  IInv' /\ Refined
<1> DEFINE e == Elems[elem]
<1>1. /\ st = "run" /\ how = "scan" /\ elem <= Len(Elems) /\ e \in Element
      /\ file.size \in Nat /\ cur \in Nat /\ Holds(Local, cur + step * Word)
  BY LoopingIs DEF ScanElement
<1>2. step = 0
  BY <1>1 DEF IInv, Placed
<1>3. Holds(Local, cur)
  BY <1>1, <1>2, Steps
<1>4. Buffered(Local) >= HeaderSize(e) /\ Consumed(skip_string_chunk(e))
  BY DEF ScanElement
<1> HIDE DEF e
<1>5. HeaderSize(e) \in Nat
  BY <1>1, ElementIs
<1>6. file.size >= cur + HeaderSize(e)
  <2>1. Buffered(Local) = Local.at - cur
    BY <1>1, <1>3, UnreadIs
  <2> QED BY <1>1, <1>3, <1>4, <1>5, <2>1 DEF Holds, Kept, LocalState
<1>7. IF Verdict(e, FALSE) # "run"
      THEN Kept(skip_string_chunk(e)) /\ skip_string_chunk(e).st = Verdict(e, FALSE)
      ELSE Yields(skip_string_chunk(e), cur + ElementSize(e), cur + ElementSize(e))
  BY <1>1, <1>3, <1>4, ScanYields
<1>8. FALSE = (how = "read")
  BY <1>1
<1> QED BY <1>1, <1>4, <1>6, <1>7, <1>8, ConsumedKeeps DEF e

LEMMA ScanRefillKeeps ==
  ASSUME IInv, ScanRefill
  PROVE  IInv' /\ Refined
<1> DEFINE l == _refill_batch(Local, 2 * Word)
<1>1. /\ st = "run" /\ how = "scan" /\ elem <= Len(Elems) /\ elem \in Nat \ {0}
      /\ file.size \in Nat /\ cur \in Nat /\ Holds(Local, cur + step * Word)
  BY LoopingIs DEF ScanRefill
<1>2. step = 0
  BY <1>1 DEF IInv, Placed
<1>3. Holds(Local, cur)
  BY <1>1, <1>2, Steps
<1>4. Yields(l, cur, cur + 2 * Word)
  BY <1>1, <1>3, Sizes, RefillYields
<1>5. Set(l) /\ UNCHANGED <<file, item, how, elem, step, pending, trailing, cur>>
  BY DEF ScanRefill
<1> HIDE DEF l
<1>6. /\ Kept(l) /\ l.st \in {"run", "eof"}
      /\ l.st = "run" => Holds(l, cur)
      /\ l.st = "eof" => file.size < cur + 2 * Word
  BY <1>4, YieldsWhat
<1>7. cur' + step' * Word = cur
  BY <1>1, <1>2, <1>5, Steps
<1>8. IInv'
  <2>1. elem' \in Nat \ {0} /\ elem' <= Len(Elems) + 1 /\ step' \in 0 .. 2 /\ cur' \in Nat /\ step' = 0
    BY <1>1, <1>2, <1>5, LoopingIs DEF ScanRefill
  <2> QED BY <1>1, <1>5, <1>6, <1>7, <2>1, LoopKeeps
<1>9. CASE l.st = "run"
  <2>1. UNCHANGED Cursor!vars
    BY <1>1, <1>5, <1>9 DEF Cursor!vars, Set
  <2> QED BY <1>8, <2>1 DEF Refined
<1>10. CASE l.st = "eof"
  <2>1. file.size - cur < 2 * Word
    BY <1>1, <1>6, <1>10, Sizes
  <2>2. Cursor!GiveUp
    BY <1>1, <1>5, <1>10, <2>1 DEF Cursor!GiveUp, Cursor!Going, Cursor!Fail, Cursor!Left, Set, Elems
  <2> QED BY <1>8, <2>2 DEF Refined, Cursor!Next
<1> QED BY <1>6, <1>9, <1>10

LEMMA NextBatchKeeps ==
  ASSUME IInv, NextBatch
  PROVE  IInv' /\ Refined
<1> DEFINE l == [Local EXCEPT !.buf = Unread(Local), !.pos = 0]
<1>1. /\ st = "run" /\ how = "read" /\ elem <= Len(Elems) /\ elem \in Nat \ {0}
      /\ file.size \in Nat /\ cur \in Nat /\ step = 0 /\ Holds(Local, cur + step * Word)
  BY LoopingIs DEF NextBatch
<1>2. Holds(Local, cur)
  BY <1>1, Steps
<1>3. /\ Unread(Local) \in Seq(Nat) /\ Len(Unread(Local)) = Local.at - cur
      /\ Local.at - cur \in Nat /\ Local.pos + (Local.at - cur) = Len(Local.buf)
  BY <1>1, <1>2, UnreadIs
<1>4. /\ Local \in LocalState /\ Local.st = "run" /\ Local.pos \in Nat
      /\ Len(Local.buf) < Chunk + 2 * Word /\ cur <= Local.at /\ Local.at <= file.size
      /\ Unread(Local) = Bytes(cur, Local.at - cur)
  BY <1>2 DEF Holds, Kept, LocalState
<1> DEFINE rest == Unread(Local)
<1>5. rest \in Seq(Nat) /\ Len(rest) = Local.at - cur /\ rest = Bytes(cur, Local.at - cur)
  BY <1>3, <1>4
<1> HIDE DEF rest
<1>6. l = [Local EXCEPT !.buf = rest, !.pos = 0]
  BY Zenon DEF rest
<1> HIDE DEF l
<1>7. l \in LocalState /\ l.st = "run" /\ l.buf = rest /\ l.pos = 0 /\ l.at = Local.at
  BY <1>4, <1>5, <1>6 DEF LocalState
<1>8. Unread(l) = rest
  BY <1>5, <1>7, Whole, UnreadSuffix
<1>9. Len(rest) < Chunk + 2 * Word
  BY <1>3, <1>4, <1>5, Sizes
<1>10. Kept(l) /\ Holds(l, cur)
  BY <1>1, <1>3, <1>4, <1>5, <1>7, <1>8, <1>9 DEF Kept, Holds
<1>11. Set(l) /\ UNCHANGED <<file, item, how, elem, step, pending, trailing, cur>>
  BY <1>1, <1>7 DEF NextBatch, Set, Local, rest
<1>12. cur' + step' * Word = cur
  BY <1>1, <1>11, Steps
<1>13. IInv'
  <2>1. elem' \in Nat \ {0} /\ elem' <= Len(Elems) + 1 /\ step' \in 0 .. 2 /\ cur' \in Nat /\ step' = 0
    BY <1>1, <1>11, LoopingIs DEF NextBatch
  <2> QED BY <1>1, <1>7, <1>10, <1>11, <1>12, <2>1, LoopKeeps
<1>14. UNCHANGED Cursor!vars
  BY <1>1, <1>7, <1>11 DEF Cursor!vars, Set
<1> QED BY <1>13, <1>14 DEF Refined

-----------------------------------------------------------------------------
(* Between the loops. *)

Parked == [buf |-> pending, pos |-> 0, at |-> at, st |-> "run"]

LEMMA IdleIs ==
  ASSUME IInv, st = "run", how = "idle"
  PROVE  /\ TypeOK /\ file.size \in Nat /\ cur \in Nat /\ at \in Nat /\ step = 0
         /\ Holds(Parked, cur) /\ pending \in Seq(Nat) /\ pending = Bytes(cur, at - cur)
         /\ at - cur \in Nat /\ Len(pending) = at - cur /\ cur <= at /\ at <= file.size
         /\ Len(buf) < Chunk + 2 * Word /\ Len(pending) < Chunk + 2 * Word
<1>1. TypeOK /\ step = 0 /\ cur \in Nat /\ at \in Nat /\ pending \in Seq(Nat)
  BY DEF IInv, Placed, TypeOK
<1>2. file.size \in Nat
  BY <1>1, FileIs
<1>3. Holds(Parked, cur)
  BY <1>1, Steps DEF IInv, Here, Parsed, Parked
<1>4. Unread(Parked) = pending
  BY <1>1, Whole, UnreadSuffix DEF Parked
<1>5. pending = Bytes(cur, at - cur) /\ cur <= at /\ at <= file.size
  BY <1>3, <1>4 DEF Holds, Parked
<1>6. at - cur \in Nat /\ Len(pending) = at - cur
  <2>1. at - cur \in Nat
    BY <1>1, <1>5
  <2> QED BY <1>1, <1>5, <2>1, BytesAre
<1> QED BY <1>1, <1>2, <1>3, <1>5, <1>6 DEF IInv, MemoryBounded

LEMMA BeginKeeps ==
  ASSUME IInv, NEW reading \in BOOLEAN, Begin(reading)
  PROVE  IInv' /\ Refined
<1>1. /\ st = "run" /\ how = "idle" /\ item <= Len(file.items) /\ file.items[item].k = "strings"
      /\ how' \in {"read", "scan", "skip"}
      /\ buf' = pending /\ pos' = 0 /\ pending' = <<>> /\ elem' = 1
      /\ UNCHANGED <<file, item, step, at, st, trailing, cur>>
  BY DEF Begin, Turn
<1>2. /\ TypeOK /\ file.size \in Nat /\ cur \in Nat /\ step = 0
      /\ Holds(Parked, cur) /\ pending \in Seq(Nat)
      /\ Len(pending) < Chunk + 2 * Word
  BY <1>1, IdleIs
<1>3. Elems \in Seq(Element) /\ Elems' = Elems
  BY <1>1, <1>2, FileIs DEF Elems
<1>4. TypeOK'
  BY <1>1, <1>2 DEF TypeOK
<1>5. Placed'
  BY <1>1, <1>2, <1>3 DEF Placed
<1>6. MemoryBounded'
  BY <1>1, <1>2, Sizes DEF MemoryBounded
<1>7. TrailingExact'
  BY <1>1 DEF TrailingExact
<1>8. Holds(Here, Parsed)'
  <2>1. Here' = Parked
    BY <1>1 DEF Here, Local, Parked
  <2>2. Parsed' = cur
    BY <1>1, <1>2, Steps DEF Parsed
  <2>3. file' = file
    BY <1>1
  <2> QED BY <1>2, <2>1, <2>2, <2>3 DEF Holds, Kept
<1>9. Cursor!Enter
  BY <1>1 DEF Cursor!Enter, Cursor!Going
<1> QED BY <1>4, <1>5, <1>6, <1>7, <1>8, <1>9 DEF IInv, Refined, Cursor!Next

LEMMA EndKeeps ==
  ASSUME IInv, End
  PROVE  IInv' /\ Refined
<1>1. /\ st = "run" /\ how # "idle" /\ elem > Len(Elems)
      /\ pending' = Unread(Local) /\ buf' = <<>> /\ pos' = 0
      /\ how' = "idle" /\ item' = item + 1
      /\ UNCHANGED <<file, elem, step, at, st, trailing, cur>>
  BY DEF End
<1>2. TypeOK /\ Placed
  BY DEF IInv
<1>3. /\ file.size \in Nat /\ Len(file.items) \in Nat /\ item <= Len(file.items) /\ Elems \in Seq(Element)
      /\ file.items[item].k = "strings"
  BY <1>1, <1>2, FileIs DEF Placed
<1>4. step = 0 /\ cur \in Nat /\ elem \in Nat
  BY <1>1, <1>2, <1>3 DEF Placed, TypeOK
<1>5. Holds(Local, cur)
  BY <1>1, <1>4, Steps DEF IInv, Here, Parsed
<1> DEFINE rest == Unread(Local)
<1>6. rest \in Seq(Nat) /\ Len(rest) = at - cur /\ at - cur \in Nat /\ pos + (at - cur) = Len(buf)
  BY <1>3, <1>5, UnreadIs DEF Local
<1>7. cur <= at /\ at <= file.size /\ rest = Bytes(cur, at - cur)
  BY <1>5 DEF Holds, Local
<1>8. pending' = rest
  BY <1>1
<1> HIDE DEF rest
<1>9. TypeOK'
  BY <1>1, <1>2, <1>3, <1>6, <1>8 DEF TypeOK
<1>10. Placed'
  BY <1>1, <1>4 DEF Placed
<1>11. Len(rest) < Chunk + 2 * Word
  BY <1>2, <1>6, Sizes DEF IInv, MemoryBounded, TypeOK
<1>12. MemoryBounded'
  BY <1>1, <1>8, <1>11, Sizes DEF MemoryBounded
<1>13. TrailingExact'
  BY <1>1 DEF TrailingExact
<1>14. Holds(Here, Parsed)'
  <2> DEFINE l == [buf |-> rest, pos |-> 0, at |-> at, st |-> "run"]
  <2>1. Here' = l /\ Parsed' = cur /\ file' = file
    BY <1>1, <1>4, <1>8, Steps DEF Here, Parsed
  <2>2. Unread(l) = rest
    BY <1>6, Whole, UnreadSuffix
  <2>3. l \in LocalState /\ l.st = "run" /\ l.buf = rest /\ l.pos = 0 /\ l.at = at
    BY <1>2, <1>6 DEF LocalState, Statuses, TypeOK
  <2> HIDE DEF l
  <2>4. Holds(l, cur)
    BY <1>4, <1>6, <1>7, <1>11, <2>2, <2>3 DEF Holds, Kept
  <2> QED BY <2>1, <2>4 DEF Holds, Kept
<1>15. Cursor!Leave
  BY <1>1 DEF Cursor!Leave, Cursor!Going, Elems
<1> QED BY <1>9, <1>10, <1>12, <1>13, <1>14, <1>15 DEF IInv, Refined, Cursor!Next

\* A primitive that is given a field: it has drained what it could of the
\* overshoot, and left the stream behind the field or failed.
LEMMA DrainedKeeps ==
  ASSUME IInv, Turn("field"), NEW held, NEW stop, NEW why,
         held = Least(file.items[item].n, Len(pending)),
         stop = IF cur + file.items[item].n > file.size THEN -1 ELSE at + (file.items[item].n - held),
         stop # -1 => why = "run",
         Drained(held, stop, why)
  PROVE  IInv' /\ Refined
<1> DEFINE n == file.items[item].n
           have == at - cur
<1>1. /\ st = "run" /\ how = "idle" /\ item <= Len(file.items) /\ file.items[item].k = "field"
  BY DEF Turn
<1>2. /\ TypeOK /\ file.size \in Nat /\ cur \in Nat /\ at \in Nat /\ step = 0
      /\ pending \in Seq(Nat) /\ pending = Bytes(cur, have)
      /\ have \in Nat /\ Len(pending) = have /\ cur <= at /\ at <= file.size
      /\ Len(buf) < Chunk + 2 * Word /\ Len(pending) < Chunk + 2 * Word
  BY <1>1, IdleIs
<1>3. n \in Nat /\ Len(file.items) \in Nat
  BY <1>1, <1>2, FileIs
<1> HIDE DEF n, have
<1>4. /\ held \in Nat /\ held <= n /\ held <= have /\ (held = n \/ held = have)
  BY <1>2, <1>3 DEF Least, n
<1>5. /\ pending' = Suffix(pending, held)
      /\ UNCHANGED <<file, how, elem, step, buf, pos, trailing>>
      /\ stop = -1 => st' = "eof" /\ UNCHANGED <<item, at, cur>>
      /\ stop # -1 => st' = "run" /\ at' = stop /\ item' = item + 1 /\ cur' = cur + n
  BY DEF Drained, Suffix, n
<1>6. Suffix(pending, held) = Bytes(cur + held, have - held)
  <2>1. held \in 0 .. have
    BY <1>2, <1>4
  <2> QED BY <1>2, <2>1, BytesCut
<1>7. /\ cur + held \in Nat /\ have - held \in Nat
      /\ pending' = Bytes(cur + held, have - held)
      /\ pending' \in Seq(Nat) /\ Len(pending') = have - held
  <2>1. cur + held \in Nat /\ have - held \in Nat
    BY <1>2, <1>4
  <2>2. /\ Bytes(cur + held, have - held) \in Seq(Nat)
        /\ Len(Bytes(cur + held, have - held)) = have - held
    BY <2>1, BytesAre
  <2> QED BY <1>5, <1>6, <2>1, <2>2
<1>8. MemoryBounded'
  <2>1. have - held < Chunk + 2 * Word
    BY <1>2, <1>4, Sizes
  <2> QED BY <1>2, <1>5, <1>7, <2>1 DEF MemoryBounded
<1>9. Placed'
  BY <1>1, <1>2, <1>5 DEF Placed
<1>10. TrailingExact'
  <2>1. st' # "done"
    BY <1>5
  <2> QED BY <2>1 DEF TrailingExact
<1>11. CASE cur + n > file.size
  <2>1. stop = -1
    BY <1>11 DEF n
  <2>2. st' = "eof" /\ UNCHANGED <<item, at, cur>>
    BY <1>5, <2>1
  <2>3. TypeOK'
    BY <1>2, <1>5, <1>7, <2>2 DEF TypeOK, Statuses
  <2>4. Cursor!Field
    <3>1. ~(n <= file.size - cur)
      BY <1>2, <1>3, <1>11
    <3> QED BY <1>1, <1>5, <2>2, <3>1 DEF Cursor!Field, Cursor!Going, Cursor!Fail, Cursor!Left, n
  <2> QED BY <1>8, <1>9, <1>10, <2>2, <2>3, <2>4 DEF IInv, Refined, Cursor!Next
<1>12. CASE ~(cur + n > file.size)
  <2>1. stop = at + (n - held) /\ stop \in Nat /\ stop # -1
    <3>1. stop = at + (n - held)
      BY <1>12 DEF n
    <3> QED BY <1>2, <1>3, <1>4, <3>1
  <2>2. st' = "run" /\ at' = stop /\ item' = item + 1 /\ cur' = cur + n
    BY <1>5, <2>1
  <2>3. TypeOK'
    BY <1>1, <1>2, <1>3, <1>5, <1>7, <2>1, <2>2 DEF TypeOK
  <2>4. cur + n \in Nat /\ cur + n <= at' /\ at' <= file.size
    <3>1. CASE held = n
      BY <1>2, <1>3, <1>4, <2>1, <2>2, <3>1 DEF have
    <3>2. CASE held = have
      <4>1. at' = cur + n
        BY <1>2, <1>3, <1>4, <2>1, <2>2, <3>2 DEF have
      <4> QED BY <1>2, <1>3, <1>12, <4>1
    <3> QED BY <1>4, <3>1, <3>2
  <2>5. pending' = Bytes(cur + n, at' - (cur + n))
    <3>1. CASE held = n
      <4>1. have - held = at' - (cur + n)
        BY <1>2, <1>3, <2>1, <2>2, <3>1, SMTT(20) DEF have
      <4> QED BY <1>7, <3>1, <4>1
    <3>2. CASE held = have
      <4>1. have - held = 0 /\ at' - (cur + n) = 0
        BY <1>2, <1>3, <2>1, <2>2, <3>2, SMTT(20) DEF have
      <4>2. \A f : Bytes(f, 0) = <<>>
        BY DEF Bytes
      <4> QED BY <1>7, <4>1, <4>2, Zenon
    <3> QED BY <1>4, <3>1, <3>2
  <2>6. Holds(Here, Parsed)'
    <3> DEFINE l == [buf |-> pending', pos |-> 0, at |-> at', st |-> "run"]
    <3>1. Here' = l /\ Parsed' = cur + n /\ file' = file
      BY <1>1, <1>2, <1>3, <1>5, <2>2, Steps DEF Here, Parsed
    <3>2. Unread(l) = pending'
      BY <1>7, Whole, UnreadSuffix
    <3>3. l \in LocalState /\ l.st = "run" /\ l.buf = pending' /\ l.pos = 0 /\ l.at = at'
      BY <1>7, <2>1, <2>2 DEF LocalState, Statuses
    <3>4. Len(pending') < Chunk + 2 * Word /\ Len(pending') \in Nat
      BY <1>7, <1>8 DEF MemoryBounded
    <3> HIDE DEF l
    <3>5. Holds(l, cur + n)
      BY <2>4, <2>5, <3>2, <3>3, <3>4 DEF Holds, Kept
    <3> QED BY <3>1, <3>5 DEF Holds, Kept
  <2>7. Cursor!Field
    <3>1. n <= file.size - cur
      BY <1>2, <1>3, <1>12
    <3> QED BY <1>1, <1>5, <2>2, <3>1 DEF Cursor!Field, Cursor!Going, Cursor!Left, n
  <2> QED BY <1>8, <1>9, <1>10, <2>3, <2>6, <2>7 DEF IInv, Refined, Cursor!Next
<1> QED BY <1>11, <1>12

LEMMA ReadKeeps ==
  ASSUME IInv, Read
  PROVE  IInv' /\ Refined
<1> DEFINE n    == file.items[item].n
           held == Least(n, Len(pending))
           have == at - cur
           rest == fetch(at, n - held)
           stop == IF held + Len(rest) < n THEN -1 ELSE at + Len(rest)
           why  == IF Part(pending, 0, held) \o rest = Bytes(cur, n) THEN "run" ELSE "garbage"
<1>2. st = "run" /\ how = "idle" /\ item <= Len(file.items) /\ file.items[item].k = "field"
  BY DEF Read, Turn
<1>3. /\ TypeOK /\ file.size \in Nat /\ cur \in Nat /\ at \in Nat
      /\ pending = Bytes(cur, have) /\ have \in Nat /\ Len(pending) = have
      /\ cur <= at /\ at <= file.size
  BY <1>2, IdleIs
<1>4. n \in Nat
  BY <1>2, <1>3, FileIs
<1>5. held \in Nat /\ held <= n /\ held <= have /\ (held = n \/ held = have)
  BY <1>3, <1>4 DEF Least
<1>1. Turn("field") /\ Drained(held, stop, why)
  <2>1. Part(pending, 0, held) = SubSeq(pending, 1, held)
    BY <1>5, 0 + 1 = 1, 0 + held = held DEF Part
  <2> QED BY <2>1, Zenon DEF Read
<1> HIDE DEF n, held
<1>6. PICK m \in Nat : /\ rest = Bytes(at, m) /\ m <= n - held /\ at + m <= file.size
                       /\ m = n - held \/ at + m = file.size
  <2>1. n - held \in Nat
    BY <1>4, <1>5
  <2> QED BY <1>3, <2>1, Fetched
<1>7. Len(rest) = m
  BY <1>3, <1>6, BytesAre
<1> HIDE DEF rest
<1>8. stop = IF cur + n > file.size THEN -1 ELSE at + (n - held)
  <2>1. CASE held = n
    <3>1. m = 0 /\ cur + n <= file.size
      BY <1>3, <1>4, <1>5, <1>6, <2>1
    <3> QED BY <1>3, <1>4, <1>7, <2>1, <3>1
  <2>2. CASE held = have
    <3>1. at = cur + held
      BY <1>3, <2>2
    <3> HIDE DEF have
    <3> QED BY <1>3, <1>4, <1>5, <1>6, <1>7, <3>1
  <2> QED BY <1>5, <2>1, <2>2
<1>9. ASSUME stop # -1 PROVE why = "run"
  <2>1. m = n - held
    BY <1>4, <1>5, <1>6, <1>7, <1>9
  <2>2. Part(pending, 0, held) = Bytes(cur, held)
    <3>1. held \in 0 .. have
      BY <1>3, <1>5
    <3> QED BY <1>3, <3>1, BytesCut
  <2>3. Bytes(cur, held) \o rest = Bytes(cur, n)
    <3>1. CASE held = have
      <4>1. cur + held = at /\ held + m = n
        BY <1>3, <1>4, <1>5, <2>1, <3>1
      <4>2. Bytes(cur, held) \o Bytes(cur + held, m) = Bytes(cur, held + m)
        <5>1. cur \in Nat /\ held \in Nat /\ m \in Nat
          BY <1>3, <1>5
        <5> QED BY <5>1, BytesJoin, Zenon
      <4> QED BY <1>6, <4>1, <4>2, Zenon
    <3>2. CASE held = n
      <4>1. m = 0
        BY <1>4, <2>1, <3>2
      <4>2. rest = <<>>
        BY <1>6, <4>1 DEF Bytes
      <4>3. Bytes(cur, n) \in Seq(Nat)
        BY <1>3, <1>4, BytesAre
      <4>4. Bytes(cur, n) \o <<>> = Bytes(cur, n)
        BY <4>3, ConcatEmptySeq, Zenon
      <4> QED BY <3>2, <4>2, <4>4, Zenon
    <3> QED BY <1>5, <3>1, <3>2
  <2> QED BY <2>2, <2>3, Zenon
<1> HIDE DEF stop, why
<1> QED BY <1>1, <1>8, <1>9, DrainedKeeps DEF n, held

LEMMA DiscardKeeps ==
  ASSUME IInv, Discard
  PROVE  IInv' /\ Refined
<1> DEFINE n    == file.items[item].n
           held == Least(n, Len(pending))
           have == at - cur
           stop == IF held = n THEN at ELSE discard(at, n - held)
<1>1. Turn("field") /\ Drained(held, stop, "run")
  BY DEF Discard
<1>2. st = "run" /\ how = "idle" /\ item <= Len(file.items) /\ file.items[item].k = "field"
  BY <1>1 DEF Turn
<1>3. /\ TypeOK /\ file.size \in Nat /\ cur \in Nat /\ at \in Nat
      /\ have \in Nat /\ Len(pending) = have
      /\ cur <= at /\ at <= file.size
  BY <1>2, IdleIs
<1>4. n \in Nat
  BY <1>2, <1>3, FileIs
<1>5. held \in Nat /\ held <= n /\ held <= have /\ (held = n \/ held = have)
  BY <1>3, <1>4 DEF Least
<1> HIDE DEF n, held
<1>6. stop = IF cur + n > file.size THEN -1 ELSE at + (n - held)
  <2>1. CASE held = n
    <3>1. cur + n <= file.size
      BY <1>3, <1>4, <1>5, <2>1
    <3> QED BY <1>3, <1>4, <2>1, <3>1
  <2>2. CASE held # n
    <3>1. n - held \in Nat /\ at = cur + held
      BY <1>3, <1>4, <1>5, <2>2
    <3>2. stop = IF at + (n - held) > file.size THEN -1 ELSE at + (n - held)
      BY <1>3, <2>2, <3>1, DiscardIs
    <3>3. at + (n - held) = cur + n
      BY <1>3, <1>4, <1>5, <3>1
    <3> QED BY <3>2, <3>3
  <2> QED BY <2>1, <2>2
<1> HIDE DEF stop
<1> QED BY <1>1, <1>6, DrainedKeeps DEF n, held

LEMMA ProbeKeeps ==
  ASSUME IInv, Probe
  PROVE  IInv' /\ Refined
<1>1. /\ st = "run" /\ how = "idle" /\ item > Len(file.items)
      /\ trailing' = (pending \o fetch(at, 1) # <<>>) /\ st' = "done"
      /\ UNCHANGED <<file, item, how, elem, step, at, pending, buf, pos, cur>>
  BY DEF Probe
<1>2. /\ TypeOK /\ file.size \in Nat /\ cur \in Nat /\ at \in Nat /\ pending \in Seq(Nat)
      /\ at - cur \in Nat /\ Len(pending) = at - cur /\ cur <= at /\ at <= file.size
  BY <1>1, IdleIs
<1>3. PICK m \in Nat : /\ fetch(at, 1) = Bytes(at, m) /\ m <= 1 /\ at + m <= file.size
                       /\ m = 1 \/ at + m = file.size
  <2>1. 1 \in Nat
    OBVIOUS
  <2> QED BY <1>2, <2>1, Fetched
<1>4. fetch(at, 1) \in Seq(Nat) /\ Len(fetch(at, 1)) = m
  BY <1>2, <1>3, BytesAre
<1> DEFINE both == pending \o fetch(at, 1)
<1>5. both \in Seq(Nat) /\ Len(both) = at - cur + m
  BY <1>2, <1>4, ConcatProperties
<1>6. trailing' = (both # <<>>)
  BY <1>1
<1> HIDE DEF both
<1>7. both # <<>> <=> cur < file.size
  <2>1. both # <<>> <=> at - cur + m > 0
    BY <1>2, <1>5
  <2>2. at - cur + m > 0 <=> cur < file.size
    BY <1>2, <1>3
  <2> QED BY <2>1, <2>2
<1>8. TypeOK'
  BY <1>1, <1>2, <1>6 DEF TypeOK, Statuses
<1>9. TrailingExact'
  BY <1>1, <1>6, <1>7 DEF TrailingExact
<1>10. Placed' /\ MemoryBounded' /\ st' # "run"
  BY <1>1 DEF IInv, Placed, MemoryBounded
<1>11. Cursor!Probe
  <2>1. file.size - cur > 0 <=> cur < file.size
    BY <1>2
  <2> QED BY <1>1, <1>6, <1>7, <2>1 DEF Cursor!Probe, Cursor!Left
<1> QED BY <1>8, <1>9, <1>10, <1>11 DEF IInv, Refined, Cursor!Next

-----------------------------------------------------------------------------
(* The theorems. *)

LEMMA InitHolds ==
  ASSUME Init
  PROVE  IInv /\ Cursor!Init
<1>1. /\ file \in Files /\ item = 1 /\ how = "idle" /\ elem = 1 /\ step = 0
      /\ at = 0 /\ pending = <<>> /\ buf = <<>> /\ pos = 0
      /\ st = "run" /\ trailing = FALSE /\ cur = 0
  BY DEF Init
<1>2. file.items \in Contents /\ file.size \in 0 .. MaxSize
  BY <1>1 DEF Files
<1>3. file.items \in Seq(Item) /\ file.size \in Nat /\ Len(file.items) \in Nat
  BY <1>2, ContentsAssumption
<1>4. TypeOK
  <2>1. pending \in Seq(Nat) /\ buf \in Seq(Nat) /\ Len(buf) = 0
    BY <1>1
  <2>2. item \in 1 .. Len(file.items) + 1
    BY <1>1, <1>3
  <2>3. /\ file \in Files /\ how \in {"idle", "skip", "scan", "read"}
        /\ elem \in Nat \ {0} /\ step \in 0 .. 2 /\ at \in Nat /\ cur \in Nat
        /\ st \in Statuses
    BY <1>1 DEF Statuses
  <2>5. trailing \in BOOLEAN
    BY <1>1, Zenon
  <2>4. pos \in 0 .. Len(buf)
    BY <1>1, <2>1
  <2> QED BY <2>1, <2>2, <2>3, <2>4, <2>5, Zenon DEF TypeOK
<1>5. Placed /\ MemoryBounded /\ TrailingExact
  BY <1>1, Sizes DEF Placed, MemoryBounded, TrailingExact
<1>6. Holds(Here, Parsed)
  <2>1. Here = Parked /\ Parsed = 0
    BY <1>1, Steps DEF Here, Parked, Parsed
  <2> DEFINE none == <<>>
  <2>2. none \in Seq(Nat)
    OBVIOUS
  <2>3. Parked = [buf |-> none, pos |-> 0, at |-> 0, st |-> "run"]
    BY <1>1 DEF Parked
  <2> HIDE DEF none
  <2>4. Parked \in LocalState /\ Parked.st = "run" /\ Parked.buf = none /\ Parked.pos = 0 /\ Parked.at = 0
    BY <2>2, <2>3 DEF LocalState, Statuses
  <2>5. Parked.buf = <<>>
    BY <2>4 DEF none
  <2>6. Holds(Parked, Parked.at)
    BY <1>3, <2>4, <2>5, EmptyHolds
  <2> QED BY <2>1, <2>4, <2>6
<1>7. Cursor!Init
  BY <1>1 DEF Cursor!Init, Cursor!Files, Files
<1> QED BY <1>4, <1>5, <1>6, <1>7 DEF IInv

LEMMA NextKeeps ==
  ASSUME IInv, [Next]_vars
  PROVE  IInv' /\ Refined
<1>1. CASE Next
  <2>1. ASSUME NEW reading \in BOOLEAN, Begin(reading) PROVE IInv' /\ Refined
    BY <2>1, BeginKeeps
  <2> QED BY <1>1, <2>1, UnpackKeeps, SkipElementKeeps, ReadElementKeeps, NextBatchKeeps,
             ScanElementKeeps, ScanRefillKeeps, EndKeeps, ReadKeeps, DiscardKeeps, ProbeKeeps DEF Next
<1>2. CASE UNCHANGED vars
  <2>1. IInv'
    BY <1>2 DEF vars, IInv, TypeOK, Placed, Elems, MemoryBounded, TrailingExact, Here, Local,
                Parsed, Holds, Kept
  <2>2. UNCHANGED Cursor!vars
    BY <1>2 DEF vars, Cursor!vars
  <2> QED BY <2>1, <2>2 DEF Refined
<1> QED BY <1>1, <1>2

\* The invariant the others follow from: the bytes held by the running loop,
\* or parked, are the stream between the place in turn and the stream's offset.
THEOREM Invariant == Spec => []IInv
<1>1. Init => IInv
  BY InitHolds
<1>2. IInv /\ [Next]_vars => IInv'
  BY NextKeeps
<1> QED BY <1>1, <1>2, PTL DEF Spec

\* The state of the reader is well typed; no read ever yields other bytes than
\* those of the field it is for.
THEOREM TypeCorrect == Spec => []TypeOK
<1>1. IInv => TypeOK
  BY DEF IInv
<1> QED BY <1>1, Invariant, PTL

\* No byte is lost, repeated or passed over between loops, batches and
\* primitives (the pending buffer of _core.py:219), for any chunk.
THEOREM LosesNothing == Spec => []NothingLost
<1>1. IInv => NothingLost
  <2> SUFFICES ASSUME IInv PROVE NothingLost
    OBVIOUS
  <2>1. CASE st # "run"
    BY <2>1 DEF NothingLost
  <2>2. CASE st = "run" /\ how = "idle"
    <3>1. /\ step = 0 /\ cur \in Nat /\ pending = Bytes(cur, at - cur) /\ cur <= at /\ at <= file.size
      BY <2>2, IdleIs
    <3>2. Parsed = cur
      BY <3>1, Steps DEF Parsed
    <3> QED BY <2>2, <3>1, <3>2 DEF NothingLost
  <2>3. CASE st = "run" /\ how # "idle"
    <3>1. Holds(Local, Parsed)
      BY <2>3 DEF IInv, Here
    <3> QED BY <2>3, <3>1 DEF NothingLost, Holds, Local, IInv, Placed
  <2> QED BY <2>1, <2>2, <2>3
<1> QED BY <1>1, Invariant, PTL

\* The buffers hold less than a chunk and one header, however long a string is
\* ("bounded memory" of Reader.discard and of _skip_root_and_probe).
THEOREM BoundedMemory == Spec => []MemoryBounded
<1>1. IInv => MemoryBounded
  BY DEF IInv
<1> QED BY <1>1, Invariant, PTL

\* The trailing-data probe of validate_rds sees a byte iff one follows.
THEOREM ProbeExact == Spec => []TrailingExact
<1>1. IInv => TrailingExact
  BY DEF IInv
<1> QED BY <1>1, Invariant, PTL

\* The buffered reader consumes the fields and elements that a plain cursor
\* consumes, and stops at the same place with the same error.
THEOREM ImplementsCursor == Spec => RefinesCursor
<1>1. Init => Cursor!Init
  BY InitHolds
<1>2. IInv /\ [Next]_vars => [Cursor!Next]_(Cursor!vars)
  BY NextKeeps DEF Refined
<1> QED BY <1>1, <1>2, Invariant, PTL DEF Spec, RefinesCursor, Cursor!Spec

-----------------------------------------------------------------------------
(* Numbers, and functions that are made step by step.                         *)

\* A set of numbers has a least one: the intervals below its members are finite
\* sets, and among finite sets one is least.
LEMMA LeastNumber ==
  ASSUME NEW T, T \subseteq Nat, T # {}
  PROVE  \E x \in T : \A y \in T : x <= y
<1> DEFINE Intervals == {1 .. n : n \in T}
<1>1. IsWellFoundedOn(StrictSubsetOrdering(Nat), FiniteSubsetsOf(Nat))
  BY FS_StrictSubsetOrderingWellFounded
<1>2. Intervals \subseteq FiniteSubsetsOf(Nat)
  <2> SUFFICES ASSUME NEW n \in T PROVE 1 .. n \in FiniteSubsetsOf(Nat)
    OBVIOUS
  <2>1. IsFiniteSet(1 .. n)
    BY FS_Interval
  <2>2. 1 .. n \in SUBSET Nat
    OBVIOUS
  <2> QED BY <2>1, <2>2 DEF FiniteSubsetsOf
<1>3. Intervals # {}
  OBVIOUS
<1> HIDE DEF Intervals
<1>4. PICK s \in Intervals : \A u \in Intervals : ~(<<u, s>> \in StrictSubsetOrdering(Nat))
  BY <1>1, <1>2, <1>3, WFMin
<1>5. PICK x \in T : s = 1 .. x
  BY <1>4 DEF Intervals
<1>6. ASSUME NEW y \in T, y < x PROVE FALSE
  <2>1. 1 .. y \in Intervals
    BY DEF Intervals
  <2>2. 1 .. y \subseteq 1 .. x /\ x \in 1 .. x /\ x \notin 1 .. y
    BY <1>6
  <2>3. 1 .. y \in SUBSET Nat /\ 1 .. x \in SUBSET Nat /\ 1 .. y # 1 .. x
    BY <2>2
  <2>4. <<1 .. y, 1 .. x>> \in StrictSubsetOrdering(Nat)
    BY <2>2, <2>3 DEF StrictSubsetOrdering
  <2> QED BY <1>4, <1>5, <2>1, <2>4
<1> QED BY <1>5, <1>6

\* What holds of a number and is passed on to the next, holds up to n.
LEMMA Climb ==
  ASSUME NEW n \in Nat, NEW T, 0 \in T, \A k \in 0 .. n : k \in T /\ k # n => k + 1 \in T
  PROVE  0 .. n \subseteq T
<1> DEFINE Missing == { k \in 0 .. n : k \notin T }
<1>1. CASE Missing = {}
  BY <1>1
<1>2. CASE Missing # {}
  <2>1. PICK least \in Missing : \A k \in Missing : least <= k
    <3>1. Missing \subseteq Nat
      OBVIOUS
    <3> HIDE DEF Missing
    <3> QED BY <1>2, <3>1, LeastNumber
  <2>2. least \in Nat /\ least # 0 /\ least <= n /\ least \notin T
    BY <2>1
  <2>3. least - 1 \in 0 .. n /\ least - 1 # n /\ (least - 1) + 1 = least /\ least - 1 \notin Missing
    BY <2>1, <2>2
  <2> QED BY <2>2, <2>3
<1> QED BY <1>1, <1>2

\* What is made turn by turn, from what it was before: a turn k makes turn[k][x]
\* of x, and every x is in S.
Turns(turn, n, S) == \A k \in 1 .. n : \A x \in S : turn[k][x] \in S

Makes(f, turn, n, S, start) ==
  f \in [0 .. n -> S] /\ f[0] = start /\ \A k \in 1 .. n : f[k] = turn[k][f[k - 1]]

\* Turn by turn, there is what is made.
LEMMA Iterates ==
  ASSUME NEW n \in Nat, NEW S, NEW start \in S, NEW turn, Turns(turn, n, S)
  PROVE  \E f : Makes(f, turn, n, S, start)
<1> DEFINE T == { k \in 0 .. n : \E f : Makes(f, turn, k, S, start) }
<1>1. 0 \in T
  <2>1. Makes([k \in 0 .. 0 |-> start], turn, 0, S, start)
    BY DEF Makes
  <2> QED BY <2>1
<1>2. ASSUME NEW k \in 0 .. n, k \in T, k # n PROVE k + 1 \in T
  <2>1. PICK f : Makes(f, turn, k, S, start)
    BY <1>2
  <2>2. k \in Nat /\ k + 1 \in 1 .. n /\ f[k] \in S
    BY <1>2, <2>1 DEF Makes
  <2> DEFINE g == [j \in 0 .. k + 1 |-> IF j = k + 1 THEN turn[k + 1][f[k]] ELSE f[j]]
  <2>3. Makes(g, turn, k + 1, S, start)
    <3>1. g \in [0 .. k + 1 -> S]
      BY <2>1, <2>2 DEF Makes, Turns
    <3>2. g[0] = start
      BY <2>1, <2>2 DEF Makes
    <3>3. ASSUME NEW j \in 1 .. k + 1 PROVE g[j] = turn[j][g[j - 1]]
      <4>1. CASE j = k + 1
        BY <2>2, <4>1
      <4>2. CASE j # k + 1
        <5>1. j \in 1 .. k /\ j \in 0 .. k + 1 /\ j - 1 \in 0 .. k + 1 /\ j - 1 # k + 1
          BY <2>2, <4>2
        <5>2. g[j] = f[j] /\ g[j - 1] = f[j - 1]
          BY <4>2, <5>1
        <5> QED BY <2>1, <5>1, <5>2 DEF Makes
      <4> QED BY <4>1, <4>2
    <3> HIDE DEF g
    <3> QED BY <3>1, <3>2, <3>3 DEF Makes
  <2> HIDE DEF g
  <2> QED BY <2>2, <2>3
<1>3. n \in T
  <2> HIDE DEF T
  <2> QED BY <1>1, <1>2, Climb
<1> QED BY <1>3

-----------------------------------------------------------------------------
(* Words, as they are written and as the scanner reads them.                  *)

LEMMA ValuesAre ==
  /\ Scanner!Values \in [0 .. Word -> Nat] /\ Scanner!Values[0] = 1
  /\ \A k \in 1 .. Word : Scanner!Values[k] = 256 * Scanner!Values[k - 1]
<1> DEFINE turn == [k \in 1 .. Word |-> [x \in Nat |-> 256 * x]]
<1>1. PICK f : Makes(f, turn, Word, Nat, 1)
  <2>1. Turns(turn, Word, Nat)
    BY DEF Turns
  <2>2. Word \in Nat /\ 1 \in Nat
    BY Sizes
  <2> HIDE DEF turn
  <2> QED BY <2>1, <2>2, Iterates
<1>2. f = [k \in 0 .. Word |-> IF k = 0 THEN 1 ELSE 256 * f[k - 1]]
  <2>1. ASSUME NEW k \in 0 .. Word, k # 0 PROVE f[k] = 256 * f[k - 1]
    <3>1. k \in 1 .. Word /\ k - 1 \in 0 .. Word
      BY <2>1, Sizes
    <3>2. f[k] = turn[k][f[k - 1]] /\ f[k - 1] \in Nat
      BY <1>1, <3>1 DEF Makes
    <3> QED BY <3>1, <3>2
  <2> QED BY <1>1, <2>1 DEF Makes
<1>3. Scanner!Values = [k \in 0 .. Word |-> IF k = 0 THEN 1 ELSE 256 * Scanner!Values[k - 1]]
  <2>1. \E g : g = [k \in 0 .. Word |-> IF k = 0 THEN 1 ELSE 256 * g[k - 1]]
    BY <1>2, Zenon
  <2> QED BY <2>1, Zenon DEF Scanner!Values
<1> DEFINE V == Scanner!Values
           T == { k \in 0 .. Word : V[k] \in Nat }
<1>4. V = [k \in 0 .. Word |-> IF k = 0 THEN 1 ELSE 256 * V[k - 1]]
  BY <1>3
<1> HIDE DEF V
<1>5. \A k \in 0 .. Word : V[k] = IF k = 0 THEN 1 ELSE 256 * V[k - 1]
  BY <1>4, Zenon
<1>6. 0 \in T /\ \A k \in 0 .. Word : k \in T /\ k # Word => k + 1 \in T
  <2>1. 0 \in T
    BY <1>5, Sizes
  <2>2. ASSUME NEW k \in 0 .. Word, k \in T, k # Word PROVE k + 1 \in T
    <3>1. k + 1 \in 0 .. Word /\ k + 1 # 0 /\ (k + 1) - 1 = k
      BY <2>2, Sizes
    <3>2. V[k + 1] = 256 * V[(k + 1) - 1]
      BY <1>5, <3>1
    <3> QED BY <2>2, <3>1, <3>2
  <2> QED BY <2>1, <2>2
<1>7. 0 .. Word \subseteq T
  <2> HIDE DEF T
  <2> QED BY <1>6, Sizes, Climb
<1>8. V \in [0 .. Word -> Nat]
  BY <1>4, <1>7
<1>9. V[0] = 1 /\ \A k \in 1 .. Word : V[k] = 256 * V[k - 1]
  BY <1>5, Sizes
<1> QED BY <1>8, <1>9 DEF V

\* Words of less than half of the values that they have are positive.
Half == 128 * Scanner!Values[Word - 1]

LEMMA HalfIs == Word > 1 /\ Half \in Nat /\ Half >= 128 * 256 /\ Scanner!Values[Word] = 2 * Half
<1>1. Word > 1 /\ Word \in Nat /\ Word - 1 \in 1 .. Word /\ Word \in 1 .. Word /\ (Word - 1) - 1 \in 0 .. Word
  BY Sizes, WidthAssumption
<1> DEFINE V == Scanner!Values
           T == { k \in 0 .. Word : V[k] >= 1 }
<1>2. V \in [0 .. Word -> Nat] /\ V[0] = 1 /\ \A k \in 1 .. Word : V[k] = 256 * V[k - 1]
  BY ValuesAre
<1> HIDE DEF V
<1>3. 0 .. Word \subseteq T
  <2>1. 0 \in T
    BY <1>1, <1>2
  <2>2. ASSUME NEW k \in 0 .. Word, k \in T, k # Word PROVE k + 1 \in T
    <3>1. k + 1 \in 1 .. Word /\ (k + 1) - 1 = k
      BY <1>1, <2>2
    <3>2. V[k + 1] = 256 * V[k] /\ V[k] \in Nat
      BY <1>2, <2>2, <3>1
    <3> QED BY <2>2, <3>1, <3>2
  <2> HIDE DEF T
  <2> QED BY <1>1, <2>1, <2>2, Climb
<1>4. V[(Word - 1) - 1] >= 1 /\ V[(Word - 1) - 1] \in Nat
  BY <1>1, <1>2, <1>3
<1>5. V[Word - 1] = 256 * V[(Word - 1) - 1] /\ V[Word] = 256 * V[Word - 1]
  BY <1>1, <1>2
<1>6. 128 * V[Word - 1] \in Nat /\ 128 * V[Word - 1] >= 128 * 256 /\ V[Word] = 2 * (128 * V[Word - 1])
  BY <1>4, <1>5
<1> QED BY <1>1, <1>6 DEF Half, V

\* Byte by byte, what is left of a word.
Cut(R, u) == R \in [0 .. Word -> Nat] /\ R[0] = u /\ \A k \in 1 .. Word : R[k] = R[k - 1] \div 256

LEMMA WrittenIs ==
  ASSUME NEW v \in Int, -Half <= v, v < Half
  PROVE  \E R : /\ Cut(R, IF v < 0 THEN v + Scanner!Values[Word] ELSE v)
                /\ \A end \in BOOLEAN : Written(v, end) = [k \in 1 .. Word |-> R[IF end THEN k - 1 ELSE Word - k] % 256]
<1> DEFINE u == IF v < 0 THEN v + Scanner!Values[Word] ELSE v
           turn == [k \in 1 .. Word |-> [x \in Nat |-> x \div 256]]
           rest == CHOOSE rest : rest = [k \in 0 .. Word |-> IF k > 0 THEN rest[k - 1] \div 256 ELSE u]
           T == { k \in 0 .. Word : rest[k] \in Nat }
<1>1. u \in Nat
  BY HalfIs
<1> HIDE DEF u
<1>2. PICK f : Makes(f, turn, Word, Nat, u)
  <2>1. Turns(turn, Word, Nat)
    BY DEF Turns
  <2> HIDE DEF turn
  <2> QED BY <1>1, <2>1, Sizes, Iterates
<1>3. f = [k \in 0 .. Word |-> IF k > 0 THEN f[k - 1] \div 256 ELSE u]
  <2>1. ASSUME NEW k \in 0 .. Word, k > 0 PROVE f[k] = f[k - 1] \div 256
    <3>1. k \in 1 .. Word /\ k - 1 \in 0 .. Word
      BY <2>1, Sizes
    <3>2. f[k] = turn[k][f[k - 1]] /\ f[k - 1] \in Nat
      BY <1>2, <3>1 DEF Makes
    <3> QED BY <3>1, <3>2
  <2>2. ASSUME NEW k \in 0 .. Word, ~(k > 0) PROVE f[k] = u
    BY <1>2, <2>2, Sizes DEF Makes
  <2> QED BY <1>2, <2>1, <2>2 DEF Makes
<1>4. rest = [k \in 0 .. Word |-> IF k > 0 THEN rest[k - 1] \div 256 ELSE u]
  BY <1>3, ZenonT(30)
<1>5. \A end \in BOOLEAN : Written(v, end) = [k \in 1 .. Word |-> rest[IF end THEN k - 1 ELSE Word - k] % 256]
  BY Zenon DEF Written, u
<1> HIDE DEF rest
<1>6. \A k \in 0 .. Word : rest[k] = IF k > 0 THEN rest[k - 1] \div 256 ELSE u
  BY <1>4, Zenon
<1>7. 0 .. Word \subseteq T
  <2>1. 0 \in T
    BY <1>1, <1>6, Sizes
  <2>2. ASSUME NEW k \in 0 .. Word, k \in T, k # Word PROVE k + 1 \in T
    <3>1. k + 1 \in 0 .. Word /\ k + 1 > 0 /\ (k + 1) - 1 = k
      BY <2>2, Sizes
    <3>2. rest[k + 1] = rest[(k + 1) - 1] \div 256
      BY <1>6, <3>1
    <3> QED BY <2>2, <3>1, <3>2
  <2> HIDE DEF T
  <2> QED BY <2>1, <2>2, Sizes, Climb
<1>8. Cut(rest, u)
  <2>1. rest \in [0 .. Word -> Nat]
    BY <1>4, <1>7
  <2>2. rest[0] = u /\ \A k \in 1 .. Word : rest[k] = rest[k - 1] \div 256
    BY <1>6, Sizes
  <2> QED BY <2>1, <2>2 DEF Cut
<1> QED BY <1>5, <1>8 DEF u

\* Byte by byte, what has been read of a word.
Joined(f, b) == f \in [0 .. Word -> Nat] /\ f[0] = 0 /\ \A k \in 1 .. Word : f[k] = f[k - 1] * 256 + b[k]

\* The bytes of the word at a position, the highest first.
Spelled(data, position, end, b) ==
  \A k \in 1 .. Word : Scanner!Byte(data, position + IF end THEN Word - k ELSE k - 1) = b[k]

LEMMA ReadsWord ==
  ASSUME NEW data, NEW position, NEW end \in BOOLEAN, NEW b \in [1 .. Word -> Nat],
         Spelled(data, position, end, b)
  PROVE  \E f : /\ Joined(f, b)
                /\ Scanner!_i32(data, position, end) =
                     IF b[1] >= 128 THEN f[Word] - Scanner!Values[Word] ELSE f[Word]
<1> DEFINE byte(k) == Scanner!Byte(data, position + IF end THEN Word - k ELSE k - 1)
           turn == [k \in 1 .. Word |-> [x \in Nat |-> x * 256 + b[k]]]
           value == CHOOSE value : value = [k \in 0 .. Word |-> IF k = 0 THEN 0 ELSE value[k - 1] * 256 + byte(k)]
           T == { k \in 0 .. Word : value[k] \in Nat }
<1>1. \A k \in 1 .. Word : byte(k) = b[k] /\ b[k] \in Nat
  BY DEF Spelled
<1>2. Word \in Nat /\ 1 \in 1 .. Word
  BY Sizes
<1>3. Scanner!_i32(data, position, end) =
        IF byte(1) >= 128 THEN value[Word] - Scanner!Values[Word] ELSE value[Word]
  BY Zenon DEF Scanner!_i32
<1> HIDE DEF byte
<1>4. PICK f : Makes(f, turn, Word, Nat, 0)
  <2>1. Turns(turn, Word, Nat)
    BY <1>1 DEF Turns
  <2> HIDE DEF turn
  <2>2. 0 \in Nat
    OBVIOUS
  <2> QED BY <2>1, <2>2, Sizes, Iterates
<1>5. f = [k \in 0 .. Word |-> IF k = 0 THEN 0 ELSE f[k - 1] * 256 + byte(k)]
  <2>1. ASSUME NEW k \in 0 .. Word, k # 0 PROVE f[k] = f[k - 1] * 256 + byte(k)
    <3>1. k \in 1 .. Word /\ k - 1 \in 0 .. Word
      BY <2>1, Sizes
    <3>2. f[k] = turn[k][f[k - 1]] /\ f[k - 1] \in Nat
      BY <1>4, <3>1 DEF Makes
    <3> QED BY <1>1, <3>1, <3>2
  <2> QED BY <1>4, <2>1 DEF Makes
<1>6. value = [k \in 0 .. Word |-> IF k = 0 THEN 0 ELSE value[k - 1] * 256 + byte(k)]
  BY <1>5, ZenonT(30)
<1> HIDE DEF value
<1>7. \A k \in 0 .. Word : value[k] = IF k = 0 THEN 0 ELSE value[k - 1] * 256 + byte(k)
  BY <1>6, Zenon
<1>8. 0 .. Word \subseteq T
  <2>1. 0 \in T
    BY <1>7, Sizes
  <2>2. ASSUME NEW k \in 0 .. Word, k \in T, k # Word PROVE k + 1 \in T
    <3>1. k + 1 \in 0 .. Word /\ k + 1 # 0 /\ (k + 1) - 1 = k /\ k + 1 \in 1 .. Word
      BY <2>2, Sizes
    <3>2. value[k + 1] = value[(k + 1) - 1] * 256 + byte(k + 1) /\ byte(k + 1) \in Nat
      BY <1>1, <1>7, <3>1
    <3> QED BY <2>2, <3>1, <3>2
  <2> HIDE DEF T
  <2> QED BY <2>1, <2>2, Sizes, Climb
<1>9. Joined(value, b)
  <2>1. value \in [0 .. Word -> Nat]
    BY <1>6, <1>8
  <2>2. value[0] = 0 /\ \A k \in 1 .. Word : value[k] = value[k - 1] * 256 + b[k]
    <3>1. \A k \in 1 .. Word : k \in 0 .. Word /\ k # 0
      BY <1>2
    <3> QED BY <1>1, <1>2, <1>7, <3>1
  <2> QED BY <2>1, <2>2 DEF Joined
<1> QED BY <1>1, <1>2, <1>3, <1>9

\* A word that was written is read as what was meant, in both byte orders.
LEMMA WordIs ==
  ASSUME NEW v \in Int, -Half <= v, v < Half, NEW data, NEW position \in Nat, NEW end \in BOOLEAN,
         \A i \in 1 .. Word : data[position + i] = Written(v, end)[i]
  PROVE  Scanner!_i32(data, position, end) = v
<1> DEFINE u == IF v < 0 THEN v + Scanner!Values[Word] ELSE v
           V == Scanner!Values
<1>1. PICK R : /\ Cut(R, u)
               /\ \A e \in BOOLEAN : Written(v, e) = [k \in 1 .. Word |-> R[IF e THEN k - 1 ELSE Word - k] % 256]
  BY WrittenIs
<1>2. u \in Nat /\ u < 2 * Half /\ (u >= Half <=> v < 0) /\ V[Word] = 2 * Half /\ Half \in Nat
  BY HalfIs
<1>3. u = IF v < 0 THEN v + V[Word] ELSE v
  OBVIOUS
<1> HIDE DEF u
<1>4. R \in [0 .. Word -> Nat] /\ R[0] = u /\ \A k \in 1 .. Word : R[k] = R[k - 1] \div 256
  BY <1>1 DEF Cut
<1>5. V \in [0 .. Word -> Nat] /\ V[0] = 1 /\ \A k \in 1 .. Word : V[k] = 256 * V[k - 1]
  BY ValuesAre
<1>6. Word > 1 /\ Word \in Nat /\ Half = 128 * V[Word - 1]
  BY HalfIs, Sizes DEF Half
<1> HIDE DEF V
<1> DEFINE b == [k \in 1 .. Word |-> R[Word - k] % 256]
<1>7. b \in [1 .. Word -> Nat] /\ \A k \in 1 .. Word : b[k] = R[Word - k] % 256
  <2>1. \A k \in 1 .. Word : R[Word - k] \in Nat
    BY <1>4, <1>6
  <2> QED BY <2>1
<1>8. \A k \in 1 .. Word : Scanner!Byte(data, position + IF end THEN Word - k ELSE k - 1) = b[k]
  <2> SUFFICES ASSUME NEW k \in 1 .. Word
               PROVE  Scanner!Byte(data, position + IF end THEN Word - k ELSE k - 1) = b[k]
    OBVIOUS
  <2> DEFINE i == IF end THEN Word - k + 1 ELSE k
  <2>1. i \in 1 .. Word /\ (position + IF end THEN Word - k ELSE k - 1) + 1 = position + i
    BY <1>6
  <2>2. Scanner!Byte(data, position + IF end THEN Word - k ELSE k - 1) = data[position + i]
    BY <2>1 DEF Scanner!Byte
  <2>3. (IF end THEN i - 1 ELSE Word - i) = Word - k
    BY <1>6
  <2> HIDE DEF i
  <2>4. Written(v, end)[i] = R[IF end THEN i - 1 ELSE Word - i] % 256
    <3>1. Written(v, end) = [j \in 1 .. Word |-> R[IF end THEN j - 1 ELSE Word - j] % 256]
      BY <1>1
    <3> QED BY <2>1, <3>1
  <2> QED BY <1>7, <2>1, <2>2, <2>3, <2>4
<1> HIDE DEF b
<1>9. PICK f : /\ Joined(f, b)
               /\ Scanner!_i32(data, position, end) = IF b[1] >= 128 THEN f[Word] - Scanner!Values[Word] ELSE f[Word]
  <2>1. Spelled(data, position, end, b) /\ b \in [1 .. Word -> Nat]
    BY <1>7, <1>8 DEF Spelled
  <2> QED BY <2>1, ReadsWord, ZenonT(30)
<1>10. f[0] = 0 /\ \A k \in 1 .. Word : f[k] = f[k - 1] * 256 + b[k]
  BY <1>9 DEF Joined
\* What is left behind k bytes fits in the others.
<1> DEFINE Fits == { k \in 0 .. Word : R[k] < V[Word - k] }
<1>11. 0 .. Word \subseteq Fits
  <2>1. 0 \in Fits
    <3>1. 0 \in 0 .. Word /\ Word - 0 = Word
      BY <1>6
    <3>2. R[0] < V[Word]
      BY <1>2, <1>4
    <3> QED BY <3>1, <3>2
  <2>2. ASSUME NEW k \in 0 .. Word, k \in Fits, k # Word PROVE k + 1 \in Fits
    <3>1. k + 1 \in 1 .. Word /\ (k + 1) - 1 = k /\ Word - k \in 1 .. Word /\ (Word - k) - 1 = Word - (k + 1)
            /\ Word - (k + 1) \in 0 .. Word
      BY <1>6, <2>2
    <3>2. R[k + 1] = R[k] \div 256 /\ V[Word - k] = 256 * V[Word - (k + 1)] /\ R[k] < V[Word - k]
      BY <1>4, <1>5, <2>2, <3>1
    <3>3. R[k] \in Nat /\ V[Word - (k + 1)] \in Nat
      <4>1. R[k] \in Nat
        BY <1>4
      <4>2. V[Word - (k + 1)] \in Nat
        BY <1>5, <3>1
      <4> QED BY <4>1, <4>2
    <3> QED BY <3>1, <3>2, <3>3
  <2> HIDE DEF Fits
  <2> QED BY <1>6, <2>1, <2>2, Climb
\* What has been read of the word is what is left behind the other bytes.
<1> DEFINE Met == { k \in 0 .. Word : f[k] = R[Word - k] }
<1>12. 0 .. Word \subseteq Met
  <2>1. 0 \in Met
    <3>1. R[Word] < V[Word - Word] /\ R[Word] \in Nat
      BY <1>4, <1>6, <1>11
    <3>2. R[Word] = 0
      <4>1. Word - Word = 0 /\ V[0] = 1
        BY <1>5, <1>6
      <4> QED BY <3>1, <4>1
    <3>3. 0 \in 0 .. Word /\ Word - 0 = Word /\ f[0] = 0
      BY <1>6, <1>10
    <3> QED BY <3>2, <3>3
  <2>2. ASSUME NEW k \in 0 .. Word, k \in Met, k # Word PROVE k + 1 \in Met
    <3>1. k + 1 \in 1 .. Word /\ (k + 1) - 1 = k /\ Word - k \in 1 .. Word /\ (Word - k) - 1 = Word - (k + 1)
            /\ Word - (k + 1) \in 0 .. Word
      BY <1>6, <2>2
    <3>2. R[Word - k] = R[Word - (k + 1)] \div 256 /\ R[Word - (k + 1)] \in Nat
      BY <1>4, <3>1
    <3>3. f[k + 1] = f[k] * 256 + b[k + 1] /\ b[k + 1] = R[Word - (k + 1)] % 256 /\ f[k] = R[Word - k]
      BY <1>7, <1>10, <2>2, <3>1
    <3>4. \A r \in Nat : (r \div 256) * 256 + (r % 256) = r
      OBVIOUS
    <3> QED BY <3>1, <3>2, <3>3, <3>4
  <2> HIDE DEF Met
  <2> QED BY <1>6, <2>1, <2>2, Climb
\* The first byte shows the sign.
<1> DEFINE Same == { k \in 0 .. Word - 1 : R[k] < 128 * V[(Word - 1) - k] <=> u < Half }
<1>13. 0 .. Word - 1 \subseteq Same
  <2>1. 0 \in Same
    BY <1>4, <1>6
  <2>2. ASSUME NEW k \in 0 .. Word - 1, k \in Same, k # Word - 1 PROVE k + 1 \in Same
    <3>1. k + 1 \in 1 .. Word /\ (k + 1) - 1 = k /\ (Word - 1) - k \in 1 .. Word
            /\ ((Word - 1) - k) - 1 = (Word - 1) - (k + 1) /\ (Word - 1) - (k + 1) \in 0 .. Word
      BY <1>6, <2>2
    <3>2. R[k + 1] = R[k] \div 256 /\ V[(Word - 1) - k] = 256 * V[(Word - 1) - (k + 1)]
      BY <1>4, <1>5, <3>1
    <3>3. R[k] \in Nat /\ V[(Word - 1) - (k + 1)] \in Nat
      <4>1. k \in 0 .. Word
        BY <1>6
      <4>2. R[k] \in Nat
        BY <1>4, <4>1
      <4>3. V[(Word - 1) - (k + 1)] \in Nat
        BY <1>5, <3>1
      <4> QED BY <4>2, <4>3
    <3>4. R[k + 1] < 128 * V[(Word - 1) - (k + 1)] <=> R[k] < 128 * V[(Word - 1) - k]
      BY <3>2, <3>3
    <3>5. k + 1 \in 0 .. Word - 1
      BY <1>6, <2>2
    <3> QED BY <2>2, <3>1, <3>4, <3>5
  <2> HIDE DEF Same
  <2>3. Word - 1 \in Nat
    BY <1>6
  <2> QED BY <2>1, <2>2, <2>3, Climb
<1>14. b[1] >= 128 <=> u >= Half
  <2>1. Word - 1 \in 0 .. Word - 1 /\ Word - 1 \in 0 .. Word /\ 1 \in 1 .. Word /\ (Word - 1) - (Word - 1) = 0
          /\ Word - (Word - 1) = 1 /\ 1 - 1 = 0
    BY <1>6
  <2>2. R[Word - 1] < 128 * V[0] <=> u < Half
    BY <1>13, <2>1
  <2>3. R[Word - 1] < V[1] /\ V[1] = 256 * V[0]
    BY <1>5, <1>11, <2>1
  <2>4. R[Word - 1] \in Nat /\ b[1] = R[Word - 1] % 256
    BY <1>4, <1>7, <2>1
  <2>5. b[1] = R[Word - 1]
    <3>1. R[Word - 1] < 256
      BY <1>5, <2>3
    <3>2. \A r \in Nat : r < 256 => r % 256 = r
      OBVIOUS
    <3> QED BY <2>4, <3>1, <3>2
  <2> QED BY <1>2, <1>5, <2>2, <2>4, <2>5
<1>15. f[Word] = u
  <2>1. Word \in 0 .. Word /\ Word - Word = 0
    BY <1>6
  <2>2. f[Word] = R[Word - Word]
    BY <1>12, <2>1
  <2> QED BY <1>4, <2>1, <2>2
<1> QED BY <1>2, <1>3, <1>9, <1>14, <1>15 DEF V

-----------------------------------------------------------------------------
(* Elements, as they are written.                                             *)

Fitting(e) ==
  /\ e \in Element
  /\ IF e.t = "ref" THEN 256 * e.n + 255 < Half ELSE -Half <= e.n /\ e.n < Half

LEMMA WrittenWord ==
  ASSUME NEW v \in Int, -Half <= v, v < Half, NEW end \in BOOLEAN
  PROVE  Written(v, end) \in Seq(Nat) /\ Len(Written(v, end)) = Word
<1>1. PICK R : /\ Cut(R, IF v < 0 THEN v + Scanner!Values[Word] ELSE v)
               /\ \A e \in BOOLEAN : Written(v, e) = [k \in 1 .. Word |-> R[IF e THEN k - 1 ELSE Word - k] % 256]
  BY WrittenIs
<1>2. \A k \in 1 .. Word : R[IF end THEN k - 1 ELSE Word - k] \in Nat
  BY <1>1, Sizes DEF Cut
<1>3. \A k \in 1 .. Word : R[IF end THEN k - 1 ELSE Word - k] % 256 \in Nat
  BY <1>2
<1>4. Written(v, end) = [k \in 1 .. Word |-> R[IF end THEN k - 1 ELSE Word - k] % 256]
  BY <1>1
<1> QED BY <1>3, <1>4, Sizes

LEMMA FlagsAre ==
  ASSUME NEW e, Fitting(e)
  PROVE  /\ FlagsOf(e) \in Nat /\ -Half <= FlagsOf(e) /\ FlagsOf(e) < Half
         /\ e.t = "char" => FlagsOf(e) % 256 = 9
         /\ e.t \in {"ref", "longref"} => FlagsOf(e) % 256 = 255
         /\ e.t = "nil" => FlagsOf(e) % 256 = 254
         /\ e.t = "other" => FlagsOf(e) % 256 = 1
         /\ e.t = "ref" => FlagsOf(e) \div 256 = e.n
         /\ e.t = "longref" => FlagsOf(e) \div 256 = 0
<1>1. Half \in Nat /\ Half >= 128 * 256
  BY HalfIs
<1>2. CASE e.t = "ref"
  <2>1. e.n \in Nat /\ 256 * e.n + 255 < Half
    BY <1>2 DEF Fitting, Element
  <2>2. FlagsOf(e) = 256 * e.n + 255
    BY <1>2 DEF FlagsOf, Scanner!REFSXP
  <2>3. \A m \in Nat : (256 * m + 255) % 256 = 255 /\ (256 * m + 255) \div 256 = m
    OBVIOUS
  <2> QED BY <1>1, <1>2, <2>1, <2>2, <2>3
<1>3. CASE e.t # "ref"
  <2>1. e.t \in {"char", "longref", "nil", "other"}
    BY <1>3 DEF Fitting, Element
  <2> QED BY <1>1, <1>3, <2>1 DEF FlagsOf, Scanner!REFSXP, Scanner!CHARSXP
<1> QED BY <1>2, <1>3

LEMMA JoinIs ==
  ASSUME NEW s \in Seq(Nat), NEW t \in Seq(Nat)
  PROVE  /\ s \o t \in Seq(Nat) /\ Len(s \o t) = Len(s) + Len(t)
         /\ \A i \in 1 .. Len(s) : (s \o t)[i] = s[i]
         /\ \A i \in 1 .. Len(t) : (s \o t)[Len(s) + i] = t[i]
OBVIOUS

LEMMA ElementBytesAre ==
  ASSUME NEW e, Fitting(e), NEW end \in BOOLEAN
  PROVE  /\ ElementBytes(e, end) \in Seq(Nat) /\ Len(ElementBytes(e, end)) = ElementSize(e)
         /\ \A i \in 1 .. Word : ElementBytes(e, end)[i] = Written(FlagsOf(e), end)[i]
         /\ e.t \in {"char", "longref"} => \A i \in 1 .. Word : ElementBytes(e, end)[Word + i] = Written(e.n, end)[i]
<1> DEFINE flags == Written(FlagsOf(e), end)
           number == IF e.t \in {"char", "longref"} THEN Written(e.n, end) ELSE <<>>
           payload == [k \in 1 .. PayloadSize(e) |-> Scanner!CHARSXP]
<1>1. e \in Element /\ HeaderSize(e) \in {Word, 2 * Word} /\ PayloadSize(e) \in Nat
        /\ ElementSize(e) = HeaderSize(e) + PayloadSize(e)
  BY ElementIs DEF Fitting
<1>2. flags \in Seq(Nat) /\ Len(flags) = Word
  BY FlagsAre, WrittenWord
<1>3. number \in Seq(Nat) /\ Len(number) = HeaderSize(e) - Word
  <2>1. CASE e.t \in {"char", "longref"}
    <3>1. e.n \in Int /\ -Half <= e.n /\ e.n < Half
      BY <2>1 DEF Fitting, Element
    <3> QED BY <2>1, <3>1, WrittenWord, Sizes DEF HeaderSize
  <2>2. CASE ~(e.t \in {"char", "longref"})
    BY <2>2, Sizes DEF HeaderSize
  <2> QED BY <2>1, <2>2
<1>4. payload \in Seq(Nat) /\ Len(payload) = PayloadSize(e)
  BY <1>1 DEF Scanner!CHARSXP
<1>5. ElementBytes(e, end) = (flags \o number) \o payload
  BY DEF ElementBytes
<1>6. e.t \in {"char", "longref"} => number = Written(e.n, end) /\ HeaderSize(e) = 2 * Word
  BY DEF HeaderSize
<1> DEFINE header == flags \o number
<1> HIDE DEF flags, number, payload
<1>7. /\ header \in Seq(Nat) /\ Len(header) = HeaderSize(e)
      /\ \A i \in 1 .. Word : header[i] = flags[i]
      /\ \A i \in 1 .. HeaderSize(e) - Word : header[Word + i] = number[i]
  <2>1. Len(flags) + Len(number) = HeaderSize(e)
    BY <1>1, <1>2, <1>3, Sizes
  <2>2. /\ header \in Seq(Nat) /\ Len(header) = Len(flags) + Len(number)
        /\ \A i \in 1 .. Len(flags) : header[i] = flags[i]
        /\ \A i \in 1 .. Len(number) : header[Len(flags) + i] = number[i]
    BY <1>2, <1>3, JoinIs, Zenon DEF header
  <2> QED BY <1>2, <1>3, <2>1, <2>2
<1> HIDE DEF header
<1>8. /\ header \o payload \in Seq(Nat) /\ Len(header \o payload) = ElementSize(e)
      /\ \A i \in 1 .. HeaderSize(e) : (header \o payload)[i] = header[i]
  <2>1. Len(header) + Len(payload) = ElementSize(e)
    BY <1>1, <1>4, <1>7
  <2>2. /\ header \o payload \in Seq(Nat) /\ Len(header \o payload) = Len(header) + Len(payload)
        /\ \A i \in 1 .. Len(header) : (header \o payload)[i] = header[i]
    BY <1>4, <1>7, JoinIs, Zenon
  <2> QED BY <1>7, <2>1, <2>2
<1>9. ElementBytes(e, end) = header \o payload
  BY <1>5 DEF header
<1>10. ASSUME NEW i \in 1 .. Word PROVE ElementBytes(e, end)[i] = flags[i]
  <2>1. i \in 1 .. HeaderSize(e)
    BY <1>1, Sizes
  <2> QED BY <1>7, <1>8, <1>9, <2>1
<1>11. ASSUME e.t \in {"char", "longref"}, NEW i \in 1 .. Word PROVE ElementBytes(e, end)[Word + i] = Written(e.n, end)[i]
  <2>1. Word + i \in 1 .. HeaderSize(e) /\ i \in 1 .. HeaderSize(e) - Word
    BY <1>6, <1>11, Sizes
  <2> QED BY <1>6, <1>7, <1>8, <1>9, <1>11, <2>1
<1> QED BY <1>8, <1>9, <1>10, <1>11 DEF flags

-----------------------------------------------------------------------------
(* A turn of the compiled loop.                                               *)

Running(m, p) == [processed |-> m, position |-> p, status |-> -1, value |-> 0]
Ended(m, p, status, value) == [processed |-> m, position |-> p, status |-> status, value |-> value]

\* The bytes of an element are at a place, as far as the buffer goes.
Shows(data, p, e, end) ==
  \A i \in 1 .. ElementSize(e) : p + i <= Len(data) => data[p + i] = ElementBytes(e, end)[i]

LEMMA HeaderRead ==
  ASSUME NEW e, Fitting(e), NEW end \in BOOLEAN, NEW data \in Seq(Nat), NEW p \in Nat, Shows(data, p, e, end)
  PROVE  /\ Len(data) - p >= Word => Scanner!_i32(data, p, end) = FlagsOf(e)
         /\ e.t \in {"char", "longref"} /\ Len(data) - p >= 2 * Word => Scanner!_i32(data, p + Word, end) = e.n
<1>1. /\ Len(ElementBytes(e, end)) = ElementSize(e) /\ ElementSize(e) = HeaderSize(e) + PayloadSize(e)
      /\ HeaderSize(e) \in {Word, 2 * Word} /\ PayloadSize(e) \in Nat /\ e \in Element
  BY ElementBytesAre, ElementIs DEF Fitting
<1>2. ASSUME Len(data) - p >= Word PROVE Scanner!_i32(data, p, end) = FlagsOf(e)
  <2>1. ASSUME NEW i \in 1 .. Word PROVE data[p + i] = Written(FlagsOf(e), end)[i]
    <3>1. i \in 1 .. ElementSize(e) /\ p + i <= Len(data)
      BY <1>1, <1>2, Sizes
    <3>2. data[p + i] = ElementBytes(e, end)[i]
      BY <3>1 DEF Shows
    <3> QED BY <3>2, ElementBytesAre
  <2>2. FlagsOf(e) \in Int /\ -Half <= FlagsOf(e) /\ FlagsOf(e) < Half
    BY FlagsAre
  <2> QED BY <2>1, <2>2, WordIs
<1>3. ASSUME e.t \in {"char", "longref"}, Len(data) - p >= 2 * Word PROVE Scanner!_i32(data, p + Word, end) = e.n
  <2>1. ASSUME NEW i \in 1 .. Word PROVE data[(p + Word) + i] = Written(e.n, end)[i]
    <3>1. Word + i \in 1 .. ElementSize(e) /\ p + (Word + i) <= Len(data) /\ p + (Word + i) = (p + Word) + i
      BY <1>1, <1>3, Sizes DEF HeaderSize
    <3>2. data[p + (Word + i)] = ElementBytes(e, end)[Word + i]
      BY <3>1 DEF Shows
    <3> QED BY <1>3, <3>1, <3>2, ElementBytesAre
  <2>2. e.n \in Int /\ -Half <= e.n /\ e.n < Half /\ p + Word \in Nat
    BY <1>3, Sizes DEF Fitting, Element
  <2> QED BY <2>1, <2>2, WordIs
<1> QED BY <1>2, <1>3

\* The steps of a turn, on a loop that goes on.
LEMMA StopIs ==
  ASSUME NEW m, NEW x, NEW status, NEW value
  PROVE  Scanner!Stop(Running(m, x), status, value) = Ended(m, x, status, value)
<1> DEFINE r == Running(m, x)
           s == Scanner!Stop(r, status, value)
<1>1. s = [r EXCEPT !.status = status, !.value = value]
  BY DEF Scanner!Stop
<1>2. r = [processed |-> m, position |-> x, status |-> -1, value |-> 0]
  BY DEF Running
<1> HIDE DEF r, s
<1>3. [r EXCEPT !.status = status] = [processed |-> m, position |-> x, status |-> status, value |-> 0]
  BY <1>2
<1>4. s = [[r EXCEPT !.status = status] EXCEPT !.value = value]
  BY <1>1
<1> QED BY <1>3, <1>4 DEF Ended, s, r

LEMMA StepsAre ==
  ASSUME NEW m, NEW x
  PROVE  /\ Running(m, x).position = x /\ Running(m, x).status = -1
         /\ \A n : Scanner!Advance(Running(m, x), n) = Running(m, x + n)
         /\ Scanner!Next1(Running(m, x)) = Running(m + 1, x)
         /\ \A y : [Running(m, x) EXCEPT !.position = y] = Running(m, y)
<1>1. ASSUME NEW n PROVE Scanner!Advance(Running(m, x), n) = Running(m, x + n)
  BY DEF Scanner!Advance, Running
<1>2. ASSUME NEW y PROVE [Running(m, x) EXCEPT !.position = y] = Running(m, y)
  BY DEF Running
<1>3. Scanner!Next1(Running(m, x)) = Running(m + 1, x)
  BY DEF Scanner!Next1, Running
<1>4. Running(m, x).position = x /\ Running(m, x).status = -1
  BY DEF Running
<1> QED BY <1>1, <1>2, <1>3, <1>4

\* What a turn makes of an element, complete or not.
LEMMA TurnIs ==
  ASSUME NEW e, Fitting(e), NEW end \in BOOLEAN, NEW data \in Seq(Nat), NEW p \in Nat, p <= Len(data),
         NEW m \in Nat, Shows(data, p, e, end)
  PROVE  Scanner!Turn(data, Running(m, p), MaxString, RefsLen, end) =
           IF Len(data) - p < HeaderSize(e) THEN Ended(m, p, 0, 0)
           ELSE IF Verdict(e, FALSE) # "run"
                THEN Ended(m, p + HeaderSize(e), StatusOf(Verdict(e, FALSE)), IF e.t = "other" THEN 1 ELSE e.n)
           ELSE IF Len(data) - p < ElementSize(e) THEN Ended(m, p + HeaderSize(e), 1, e.n)
           ELSE Running(m + 1, p + ElementSize(e))
<1> DEFINE l == Running(m, p)
           behind == Running(m, p + Word)
           left == Len(data) - p
           turn == Scanner!Turn(data, l, MaxString, RefsLen, end)
           flags == Scanner!_i32(data, p, end)
           number == Scanner!_i32(data, p + Word, end)
           Goal == turn = IF left < HeaderSize(e) THEN Ended(m, p, 0, 0)
                          ELSE IF Verdict(e, FALSE) # "run"
                               THEN Ended(m, p + HeaderSize(e), StatusOf(Verdict(e, FALSE)),
                                          IF e.t = "other" THEN 1 ELSE e.n)
                          ELSE IF left < ElementSize(e) THEN Ended(m, p + HeaderSize(e), 1, e.n)
                          ELSE Running(m + 1, p + ElementSize(e))
<1>1. /\ ElementSize(e) = HeaderSize(e) + PayloadSize(e) /\ PayloadSize(e) \in Nat /\ left \in Nat
      /\ Word \in Nat /\ Word > 0 /\ 2 * Word = Word + Word
      /\ e.t \in {"char", "longref", "ref", "nil", "other"} /\ e.n \in Int
  BY ElementIs, Sizes DEF Fitting, Element
<1>2. /\ l.position = p /\ behind.position = p + Word
      /\ Scanner!Advance(l, Word) = behind
      /\ \A n : Scanner!Advance(behind, n) = Running(m, (p + Word) + n)
      /\ \A x : Scanner!Next1(Running(m, x)) = Running(m + 1, x)
      /\ \A x, status, value : Scanner!Stop(Running(m, x), status, value) = Ended(m, x, status, value)
      /\ [behind EXCEPT !.position = p] = l
  <2>1. l.position = p /\ behind.position = p + Word /\ Scanner!Advance(l, Word) = behind
    BY StepsAre
  <2>2. \A n : Scanner!Advance(behind, n) = Running(m, (p + Word) + n)
    BY StepsAre
  <2>3. \A x : Scanner!Next1(Running(m, x)) = Running(m + 1, x)
    BY StepsAre, Zenon
  <2>4. \A x, status, value : Scanner!Stop(Running(m, x), status, value) = Ended(m, x, status, value)
    BY StopIs, Zenon
  <2>5. [behind EXCEPT !.position = p] = l
    BY StepsAre
  <2> QED BY <2>1, <2>2, <2>3, <2>4, <2>5
<1>3. Scanner!Short(data, l) <=> left < Word
  BY <1>2 DEF Scanner!Short
<1>4. Scanner!Short(data, behind) <=> left < 2 * Word
  BY <1>1, <1>2 DEF Scanner!Short
<1>5. turn = IF Scanner!Short(data, l) THEN Scanner!Stop(l, 0, 0)
             ELSE IF flags % 256 = 9 THEN Scanner!Character(data, behind, p, MaxString, end)
             ELSE IF flags % 256 = 255 THEN Scanner!Reference(data, behind, p, flags, RefsLen, end)
             ELSE IF flags % 256 \in {0, 254} THEN Scanner!Next1(behind)
             ELSE Scanner!Stop(behind, 5, flags % 256)
  BY <1>2 DEF Scanner!Turn, Scanner!CHARSXP, Scanner!REFSXP, Scanner!Nils
<1>6. left >= Word => flags = FlagsOf(e)
  BY HeaderRead
<1>7. e.t \in {"char", "longref"} /\ left >= 2 * Word => number = e.n
  BY HeaderRead
<1>8. left < Word => turn = Ended(m, p, 0, 0)
  BY <1>2, <1>3, <1>5 DEF l
<1>9. \A x \in Nat : \/ left < x
                     \/ left >= x
  BY <1>1
<1> HIDE DEF l, left, turn, flags, number
<1>10. left < HeaderSize(e) /\ turn = Ended(m, p, 0, 0) => Goal
  OBVIOUS
<1>11. ASSUME ~(left < HeaderSize(e)), Verdict(e, FALSE) # "run",
              turn = Ended(m, p + HeaderSize(e), StatusOf(Verdict(e, FALSE)), IF e.t = "other" THEN 1 ELSE e.n)
        PROVE  Goal
  BY <1>11 DEF Goal
<1>12. ASSUME ~(left < HeaderSize(e)), Verdict(e, FALSE) = "run", left < ElementSize(e),
              turn = Ended(m, p + HeaderSize(e), 1, e.n)
        PROVE  Goal
  BY <1>12 DEF Goal
<1>13. ASSUME ~(left < HeaderSize(e)), Verdict(e, FALSE) = "run", ~(left < ElementSize(e)),
              turn = Running(m + 1, p + ElementSize(e))
        PROVE  Goal
  BY <1>13 DEF Goal
<1>14. StatusOf("length") = 2 /\ StatusOf("limit") = 3 /\ StatusOf("ref") = 4 /\ StatusOf("type") = 5
  BY DEF StatusOf
<1>15. left < Word => Goal
  <2>1. HeaderSize(e) \in {Word, 2 * Word}
    BY DEF HeaderSize
  <2>2. left < Word => left < HeaderSize(e)
    BY <1>1, <2>1
  <2> QED BY <1>8, <1>10, <2>2
<1> HIDE DEF Goal
<1>16. ASSUME e.t = "char" PROVE Goal
  <2>1. HeaderSize(e) = 2 * Word /\ FlagsOf(e) % 256 = 9 /\ PayloadSize(e) = IF e.n > 0 THEN e.n ELSE 0
    BY <1>16, FlagsAre DEF HeaderSize, PayloadSize
  <2>2. Verdict(e, FALSE) = IF e.n < -1 THEN "length" ELSE IF e.n > MaxString THEN "limit" ELSE "run"
    BY <1>16 DEF Verdict
  <2>3. CASE left >= Word
    <3>1. turn = Scanner!Character(data, behind, p, MaxString, end)
      BY <1>1, <1>3, <1>5, <1>6, <2>1, <2>3
    <3>2. Scanner!Character(data, behind, p, MaxString, end) =
            IF Scanner!Short(data, behind) THEN Scanner!Stop(l, 0, 0)
            ELSE IF number < -1 THEN Scanner!Stop(Running(m, (p + Word) + Word), 2, number)
            ELSE IF number > MaxString THEN Scanner!Stop(Running(m, (p + Word) + Word), 3, number)
            ELSE Scanner!Payload(data, Running(m, (p + Word) + Word), number)
      <4> HIDE DEF behind
      <4> QED BY <1>2 DEF Scanner!Character, number
    <3>3. Scanner!Payload(data, Running(m, p + 2 * Word), e.n) =
            IF e.n > 0 /\ Len(data) - (p + 2 * Word) < e.n THEN Ended(m, p + 2 * Word, 1, e.n)
            ELSE Running(m + 1, (p + 2 * Word) + PayloadSize(e))
      <4>1. /\ Running(m, p + 2 * Word).position = p + 2 * Word
            /\ Scanner!Advance(Running(m, p + 2 * Word), PayloadSize(e)) = Running(m, (p + 2 * Word) + PayloadSize(e))
            /\ Scanner!Next1(Running(m, (p + 2 * Word) + PayloadSize(e))) = Running(m + 1, (p + 2 * Word) + PayloadSize(e))
            /\ Scanner!Stop(Running(m, p + 2 * Word), 1, e.n) = Ended(m, p + 2 * Word, 1, e.n)
        BY <1>2, StepsAre
      <4>2. PayloadSize(e) = IF e.n > 0 THEN e.n ELSE 0
        BY <2>1
      <4> QED BY <4>1, <4>2 DEF Scanner!Payload
    <3>4. (p + Word) + Word = p + 2 * Word /\ (p + 2 * Word) + PayloadSize(e) = p + ElementSize(e)
      BY <1>1, <2>1
    <3>5. CASE left < 2 * Word
      <4>1. Scanner!Stop(l, 0, 0) = Ended(m, p, 0, 0)
        BY <1>2 DEF l
      <4> QED BY <1>4, <1>10, <2>1, <3>1, <3>2, <3>5, <4>1
    <3>6. CASE left >= 2 * Word
      <4>1. number = e.n /\ ~Scanner!Short(data, behind)
        BY <1>1, <1>4, <1>7, <1>16, <3>6
      <4>2. (e.n > 0 /\ Len(data) - (p + 2 * Word) < e.n) <=> left < ElementSize(e)
        BY <1>1, <2>1, <3>6 DEF left
      <4>3. ~(left < HeaderSize(e))
        BY <1>1, <2>1, <3>6
      <4>4. turn = IF e.n < -1 THEN Scanner!Stop(Running(m, p + 2 * Word), 2, e.n)
                   ELSE IF e.n > MaxString THEN Scanner!Stop(Running(m, p + 2 * Word), 3, e.n)
                   ELSE Scanner!Payload(data, Running(m, p + 2 * Word), e.n)
        BY <3>1, <3>2, <3>4, <4>1
      <4>5. /\ Scanner!Stop(Running(m, p + 2 * Word), 2, e.n) = Ended(m, p + HeaderSize(e), 2, e.n)
            /\ Scanner!Stop(Running(m, p + 2 * Word), 3, e.n) = Ended(m, p + HeaderSize(e), 3, e.n)
        BY <1>2, <2>1
      <4>6. CASE e.n < -1
        BY <1>11, <1>14, <1>16, <2>2, <4>3, <4>4, <4>5, <4>6
      <4>7. CASE ~(e.n < -1) /\ e.n > MaxString
        BY <1>11, <1>14, <1>16, <2>2, <4>3, <4>4, <4>5, <4>7
      <4>8. CASE ~(e.n < -1) /\ ~(e.n > MaxString)
        <5>1. Verdict(e, FALSE) = "run" /\ turn = Scanner!Payload(data, Running(m, p + 2 * Word), e.n)
          BY <2>2, <4>4, <4>8
        <5>2. CASE left < ElementSize(e)
          BY <1>12, <2>1, <3>3, <4>2, <4>3, <5>1, <5>2
        <5>3. CASE ~(left < ElementSize(e))
          BY <1>13, <3>3, <3>4, <4>2, <4>3, <5>1, <5>3
        <5> QED BY <5>2, <5>3
      <4> QED BY <4>6, <4>7, <4>8
    <3>7. 2 * Word \in Nat
      BY <1>1
    <3> QED BY <1>9, <3>5, <3>6, <3>7
  <2> QED BY <1>1, <1>9, <1>15, <2>3
<1>17. ASSUME e.t \in {"ref", "longref"} PROVE Goal
  <2>1. FlagsOf(e) % 256 = 255 /\ PayloadSize(e) = 0 /\ ElementSize(e) = HeaderSize(e)
    <3>1. FlagsOf(e) % 256 = 255
      BY <1>17, FlagsAre
    <3>2. PayloadSize(e) = 0
      BY <1>17 DEF PayloadSize
    <3>3. HeaderSize(e) \in Nat
      BY <1>1 DEF HeaderSize
    <3> QED BY <1>1, <3>1, <3>2, <3>3
  <2>2. Verdict(e, FALSE) = IF e.n < 1 \/ e.n > RefsLen THEN "ref" ELSE "run"
    <3>1. e.n \notin 1 .. RefsLen <=> e.n < 1 \/ e.n > RefsLen
      BY <1>1, LayoutAssumption
    <3> QED BY <1>17, <3>1 DEF Verdict
  <2>3. ASSUME left >= Word PROVE Goal
    <3>1. turn = Scanner!Reference(data, behind, p, FlagsOf(e), RefsLen, end)
      BY <1>1, <1>3, <1>5, <1>6, <2>1, <2>3
    <3> DEFINE index == IF FlagsOf(e) \div 256 # 0 THEN FlagsOf(e) \div 256 ELSE number
               after == IF FlagsOf(e) \div 256 # 0 THEN behind ELSE Scanner!Advance(behind, Word)
    <3>2. turn = IF FlagsOf(e) \div 256 = 0 /\ Scanner!Short(data, behind) THEN Scanner!Stop(l, 0, 0)
                 ELSE IF index < 1 \/ index > RefsLen THEN Scanner!Stop(after, 4, index)
                 ELSE Scanner!Next1(after)
      <4> HIDE DEF behind
      <4> QED BY <1>2, <3>1 DEF Scanner!Reference, number
    <3> HIDE DEF index, after
    <3>3. ASSUME index = e.n, after = Running(m, p + HeaderSize(e)), left >= HeaderSize(e),
                 ~(FlagsOf(e) \div 256 = 0 /\ Scanner!Short(data, behind))
          PROVE  Goal
      <4>1. ~(left < HeaderSize(e)) /\ ~(left < ElementSize(e))
        BY <1>1, <2>1, <3>3 DEF HeaderSize
      <4>2. turn = IF e.n < 1 \/ e.n > RefsLen THEN Ended(m, p + HeaderSize(e), 4, e.n)
                   ELSE Running(m + 1, p + HeaderSize(e))
        BY <1>2, <3>2, <3>3
      <4>3. CASE e.n < 1 \/ e.n > RefsLen
        BY <1>11, <1>14, <1>17, <2>2, <4>1, <4>2, <4>3
      <4>4. CASE ~(e.n < 1 \/ e.n > RefsLen)
        BY <1>13, <2>1, <2>2, <4>1, <4>2, <4>4
      <4> QED BY <4>3, <4>4
    <3>4. CASE e.t = "ref"
      <4>1. FlagsOf(e) \div 256 = e.n /\ e.n # 0 /\ HeaderSize(e) = Word
        <5>1. FlagsOf(e) \div 256 = e.n
          BY <3>4, FlagsAre
        <5>2. e.n # 0
          BY <3>4 DEF Fitting, Element
        <5>3. HeaderSize(e) = Word
          BY <3>4 DEF HeaderSize
        <5> QED BY <5>1, <5>2, <5>3
      <4>2. index = e.n /\ after = Running(m, p + HeaderSize(e))
        BY <4>1 DEF index, after, behind
      <4> QED BY <2>3, <3>3, <4>1, <4>2
    <3>5. CASE e.t = "longref"
      <4>1. FlagsOf(e) \div 256 = 0 /\ HeaderSize(e) = 2 * Word
        BY <3>5, FlagsAre DEF HeaderSize
      <4>2. CASE left < 2 * Word
        <5>1. Scanner!Stop(l, 0, 0) = Ended(m, p, 0, 0)
          BY <1>2 DEF l
        <5> QED BY <1>4, <1>10, <3>2, <4>1, <4>2, <5>1
      <4>3. CASE left >= 2 * Word
        <5>1. index = e.n /\ after = Running(m, (p + Word) + Word) /\ (p + Word) + Word = p + HeaderSize(e)
          BY <1>1, <1>2, <1>7, <3>5, <4>1, <4>3 DEF index, after
        <5>2. ~Scanner!Short(data, behind)
          BY <1>1, <1>4, <4>3
        <5> QED BY <3>3, <4>1, <4>3, <5>1, <5>2
      <4>4. 2 * Word \in Nat
        BY <1>1
      <4> QED BY <1>9, <4>2, <4>3, <4>4
    <3> QED BY <1>17, <3>4, <3>5
  <2> QED BY <1>1, <1>9, <1>15, <2>3
<1>18. ASSUME e.t \in {"nil", "other"} PROVE Goal
  <2>1. HeaderSize(e) = Word /\ PayloadSize(e) = 0 /\ ElementSize(e) = Word
    BY <1>1, <1>18 DEF PayloadSize, HeaderSize
  <2>2. Verdict(e, FALSE) = IF e.t = "nil" THEN "run" ELSE "type"
    BY <1>18 DEF Verdict
  <2>3. FlagsOf(e) % 256 = IF e.t = "nil" THEN 254 ELSE 1
    BY <1>18, FlagsAre
  <2>4. CASE left >= Word
    <3>1. ~(left < Word) /\ flags = FlagsOf(e) /\ ~Scanner!Short(data, l)
      BY <1>1, <1>3, <1>6, <2>4
    <3>2. CASE e.t = "nil"
      <4>1. turn = Scanner!Next1(behind)
        BY <1>5, <2>3, <3>1, <3>2
      <4>2. turn = Running(m + 1, p + Word)
        BY <1>2, <4>1 DEF behind
      <4> QED BY <1>13, <2>1, <2>2, <3>1, <3>2, <4>2
    <3>3. CASE e.t = "other"
      <4>1. turn = Scanner!Stop(behind, 5, 1)
        BY <1>5, <2>3, <3>1, <3>3
      <4>2. turn = Ended(m, p + Word, 5, 1)
        BY <1>2, <4>1 DEF behind
      <4> QED BY <1>11, <1>14, <2>1, <2>2, <3>1, <3>3, <4>2
    <3> QED BY <1>18, <3>2, <3>3
  <2> QED BY <1>1, <1>9, <1>15, <2>4
<1>19. Goal
  BY <1>1, <1>16, <1>17, <1>18
<1> QED BY <1>19 DEF Goal, turn, l, left

-----------------------------------------------------------------------------
(* The elements that are ahead, in the buffer and under the scan.             *)

\* The same as Makes, from any number on.
MakesFrom(f, turn, lo, hi, S, start) ==
  f \in [lo .. hi -> S] /\ f[lo] = start /\ \A k \in lo + 1 .. hi : f[k] = turn[k][f[k - 1]]

LEMMA Iterations ==
  ASSUME NEW lo \in Nat, NEW hi \in Nat, lo <= hi, NEW S, NEW start \in S, NEW turn,
         \A k \in lo + 1 .. hi : \A x \in S : turn[k][x] \in S
  PROVE  \E f : MakesFrom(f, turn, lo, hi, S, start)
<1> DEFINE n == hi - lo
           shifted == [k \in 1 .. n |-> turn[lo + k]]
<1>1. n \in Nat
  OBVIOUS
<1>2. Turns(shifted, n, S)
  <2> SUFFICES ASSUME NEW k \in 1 .. n, NEW x \in S PROVE shifted[k][x] \in S
    BY DEF Turns
  <2>1. lo + k \in lo + 1 .. hi /\ shifted[k] = turn[lo + k]
    OBVIOUS
  <2> QED BY <2>1
<1> HIDE DEF n, shifted
<1>3. PICK g : Makes(g, shifted, n, S, start)
  BY <1>1, <1>2, Iterates
<1> DEFINE f == [k \in lo .. hi |-> g[k - lo]]
<1>4. f \in [lo .. hi -> S]
  <2>1. \A k \in lo .. hi : k - lo \in 0 .. n
    BY DEF n
  <2> QED BY <1>3, <2>1 DEF Makes
<1>5. f[lo] = start
  <2>1. lo \in lo .. hi /\ lo - lo = 0
    OBVIOUS
  <2> QED BY <1>3, <2>1 DEF Makes
<1>6. ASSUME NEW k \in lo + 1 .. hi PROVE f[k] = turn[k][f[k - 1]]
  <2>1. k \in lo .. hi /\ k - 1 \in lo .. hi /\ k - lo \in 1 .. n /\ (k - lo) - 1 = (k - 1) - lo /\ lo + (k - lo) = k
    BY DEF n
  <2>2. f[k] = g[k - lo] /\ f[k - 1] = g[(k - 1) - lo]
    BY <2>1
  <2>3. g[k - lo] = shifted[k - lo][g[(k - lo) - 1]] /\ shifted[k - lo] = turn[lo + (k - lo)]
    BY <1>3, <2>1 DEF Makes, shifted
  <2> QED BY <2>1, <2>2, <2>3
<1> HIDE DEF f
<1>7. MakesFrom(f, turn, lo, hi, S, start)
  BY <1>4, <1>5, <1>6 DEF MakesFrom
<1> QED BY <1>7

\* What is made that way, is made in one way only.
LEMMA MadeSo ==
  ASSUME NEW lo \in Nat, NEW hi \in Nat, lo <= hi, NEW S, NEW start \in S, NEW turn,
         \A k \in lo + 1 .. hi : \A x \in S : turn[k][x] \in S,
         NEW g, g = [k \in lo .. hi |-> g[k]], g[lo] = start,
         \A k \in lo + 1 .. hi : g[k - 1] \in S => g[k] = turn[k][g[k - 1]]
  PROVE  MakesFrom(g, turn, lo, hi, S, start)
<1> DEFINE n == hi - lo
           T == { j \in 0 .. n : g[lo + j] \in S }
<1>1. n \in Nat /\ 0 \in T
  OBVIOUS
<1>2. ASSUME NEW j \in 0 .. n, j \in T, j # n PROVE j + 1 \in T
  <2>1. lo + (j + 1) \in lo + 1 .. hi /\ (lo + (j + 1)) - 1 = lo + j /\ j + 1 \in 0 .. n /\ g[lo + j] \in S
    BY <1>2
  <2>2. g[lo + (j + 1)] = turn[lo + (j + 1)][g[lo + j]]
    BY <2>1
  <2> QED BY <2>1, <2>2
<1>3. 0 .. n \subseteq T
  <2> HIDE DEF n, T
  <2> QED BY <1>1, <1>2, Climb
<1>4. ASSUME NEW k \in lo .. hi PROVE g[k] \in S
  <2>1. k - lo \in 0 .. n /\ lo + (k - lo) = k
    OBVIOUS
  <2> QED BY <1>3, <2>1
<1>5. g \in [lo .. hi -> S]
  BY <1>4
<1>6. \A k \in lo + 1 .. hi : k - 1 \in lo .. hi
  OBVIOUS
<1> QED BY <1>4, <1>5, <1>6 DEF MakesFrom

\* A scan is in turn at an element of its vector, and elements fit in their words.
Scanning ==
  /\ elem \in Nat \ {0} /\ elem <= Len(Elems) /\ pos \in Nat /\ Len(buf) \in Nat /\ pos <= Len(buf)
  /\ Elems \in Seq(Element) /\ \A k \in 1 .. Len(Elems) : Fitting(Elems[k])

\* What is ahead of the scan, up to element k.
Ahead(a, end) ==
  /\ a \in [elem - 1 .. Len(Elems) -> Seq(Nat)] /\ a[elem - 1] = <<>>
  /\ \A k \in elem .. Len(Elems) : a[k] = a[k - 1] \o ElementBytes(Elems[k], end)

LEMMA BufferIs ==
  ASSUME Scanning, NEW end \in BOOLEAN
  PROVE  \E a : /\ Ahead(a, end)
                /\ BufferBytes(end) = [k \in 1 .. Len(buf) |-> IF k - pos \in DOMAIN a[Len(Elems)]
                                                               THEN a[Len(Elems)][k - pos] ELSE Scanner!CHARSXP]
<1> DEFINE lo == elem - 1
           hi == Len(Elems)
           turn == [k \in lo + 1 .. hi |-> [x \in Seq(Nat) |-> x \o ElementBytes(Elems[k], end)]]
           a == CHOOSE a : a = [k \in elem - 1 .. Len(Elems) |->
                                  IF k < elem THEN <<>> ELSE a[k - 1] \o ElementBytes(Elems[k], end)]
<1>1. lo \in Nat /\ hi \in Nat /\ lo <= hi /\ lo + 1 = elem
  BY DEF Scanning
<1>2. \A k \in lo + 1 .. hi : ElementBytes(Elems[k], end) \in Seq(Nat)
  <2> SUFFICES ASSUME NEW k \in lo + 1 .. hi PROVE ElementBytes(Elems[k], end) \in Seq(Nat)
    OBVIOUS
  <2>1. Fitting(Elems[k])
    BY <1>1 DEF Scanning
  <2> QED BY <2>1, ElementBytesAre
<1>3. \A k \in lo + 1 .. hi : \A x \in Seq(Nat) : turn[k][x] = x \o ElementBytes(Elems[k], end)
  OBVIOUS
<1>4. \A k \in lo + 1 .. hi : \A x \in Seq(Nat) : turn[k][x] \in Seq(Nat)
  BY <1>2, <1>3
<1>5. <<>> \in Seq(Nat)
  OBVIOUS
<1>6. BufferBytes(end) = [k \in 1 .. Len(buf) |-> IF k - pos \in DOMAIN a[Len(Elems)]
                                                 THEN a[Len(Elems)][k - pos] ELSE Scanner!CHARSXP]
  BY Zenon DEF BufferBytes
<1> HIDE DEF turn, lo, hi
<1>7. PICK f : MakesFrom(f, turn, lo, hi, Seq(Nat), <<>>)
  BY <1>1, <1>4, <1>5, Iterations
<1>8. f = [k \in elem - 1 .. Len(Elems) |-> IF k < elem THEN <<>> ELSE f[k - 1] \o ElementBytes(Elems[k], end)]
  <2>1. ASSUME NEW k \in lo .. hi PROVE f[k] = IF k < elem THEN <<>> ELSE f[k - 1] \o ElementBytes(Elems[k], end)
    <3>1. CASE k < elem
      <4>1. k = lo
        BY <1>1, <3>1
      <4> QED BY <1>7, <3>1, <4>1 DEF MakesFrom
    <3>2. CASE ~(k < elem)
      <4>1. k \in lo + 1 .. hi /\ k - 1 \in lo .. hi
        BY <1>1, <3>2
      <4> QED BY <1>3, <1>7, <3>2, <4>1 DEF MakesFrom
    <3> QED BY <3>1, <3>2
  <2>2. f = [k \in lo .. hi |-> f[k]]
    BY <1>7 DEF MakesFrom
  <2> QED BY <2>1, <2>2 DEF lo, hi
<1>9. a = [k \in elem - 1 .. Len(Elems) |-> IF k < elem THEN <<>> ELSE a[k - 1] \o ElementBytes(Elems[k], end)]
  BY <1>8, Zenon
<1> HIDE DEF a
<1>10. \A k \in lo .. hi : a[k] = IF k < elem THEN <<>> ELSE a[k - 1] \o ElementBytes(Elems[k], end)
  BY <1>9, Zenon DEF lo, hi
<1>11. MakesFrom(a, turn, lo, hi, Seq(Nat), <<>>)
  <2>1. a = [k \in lo .. hi |-> a[k]]
    BY <1>9 DEF lo, hi
  <2>2. a[lo] = <<>>
    BY <1>1, <1>10
  <2>3. ASSUME NEW k \in lo + 1 .. hi, a[k - 1] \in Seq(Nat) PROVE a[k] = turn[k][a[k - 1]]
    <3>1. k \in lo .. hi /\ ~(k < elem)
      BY <1>1
    <3> QED BY <1>3, <1>10, <2>3, <3>1
  <2> QED BY <1>1, <1>4, <1>5, <2>1, <2>2, <2>3, MadeSo
<1>12. Ahead(a, end)
  <2>1. \A k \in elem .. hi : k \in lo .. hi /\ ~(k < elem)
    BY <1>1
  <2> QED BY <1>1, <1>10, <1>11, <2>1 DEF MakesFrom, Ahead, lo, hi
<1> QED BY <1>6, <1>12

\* Element after element, what is ahead grows at its end.
LEMMA AheadGrows ==
  ASSUME Scanning, NEW end \in BOOLEAN, NEW a, Ahead(a, end)
  PROVE  /\ \A k \in elem .. Len(Elems) :
              /\ Len(a[k]) = Len(a[k - 1]) + ElementSize(Elems[k])
              /\ \A i \in 1 .. ElementSize(Elems[k]) : a[k][Len(a[k - 1]) + i] = ElementBytes(Elems[k], end)[i]
         /\ \A k \in elem - 1 .. Len(Elems) :
              Len(a[k]) <= Len(a[Len(Elems)]) /\ \A i \in 1 .. Len(a[k]) : a[Len(Elems)][i] = a[k][i]
<1> DEFINE hi == Len(Elems)
<1>1. hi \in Nat /\ elem \in Nat \ {0} /\ elem <= hi
  BY DEF Scanning
<1>2. ASSUME NEW k \in elem .. hi
      PROVE  /\ a[k - 1] \in Seq(Nat) /\ a[k] \in Seq(Nat)
             /\ Len(a[k]) = Len(a[k - 1]) + ElementSize(Elems[k]) /\ ElementSize(Elems[k]) \in Nat
             /\ \A i \in 1 .. Len(a[k - 1]) : a[k][i] = a[k - 1][i]
             /\ \A i \in 1 .. ElementSize(Elems[k]) : a[k][Len(a[k - 1]) + i] = ElementBytes(Elems[k], end)[i]
  <2> DEFINE bytes == ElementBytes(Elems[k], end)
             before == a[k - 1]
  <2>1. k - 1 \in elem - 1 .. hi /\ k \in 1 .. hi /\ k \in elem - 1 .. hi
    BY <1>1
  <2>2. before \in Seq(Nat) /\ a[k] \in Seq(Nat) /\ a[k] = before \o bytes
    BY <2>1 DEF Ahead
  <2>3. bytes \in Seq(Nat) /\ Len(bytes) = ElementSize(Elems[k]) /\ ElementSize(Elems[k]) \in Nat
    <3>1. Fitting(Elems[k])
      BY <2>1 DEF Scanning
    <3>2. Elems[k] \in Element
      BY <3>1 DEF Fitting
    <3> QED BY <3>1, <3>2, ElementBytesAre, ElementIs
  <2> HIDE DEF bytes, before
  <2>4. /\ Len(before \o bytes) = Len(before) + Len(bytes)
        /\ \A i \in 1 .. Len(before) : (before \o bytes)[i] = before[i]
        /\ \A i \in 1 .. Len(bytes) : (before \o bytes)[Len(before) + i] = bytes[i]
    BY <2>2, <2>3, JoinIs, Zenon
  <2>5. /\ Len(a[k]) = Len(before) + ElementSize(Elems[k])
        /\ \A i \in 1 .. Len(before) : a[k][i] = before[i]
        /\ \A i \in 1 .. ElementSize(Elems[k]) : a[k][Len(before) + i] = bytes[i]
    BY <2>2, <2>3, <2>4
  <2> QED BY <2>2, <2>3, <2>5 DEF before, bytes
<1>3. ASSUME NEW k \in elem - 1 .. hi
      PROVE  Len(a[k]) <= Len(a[hi]) /\ \A i \in 1 .. Len(a[k]) : a[hi][i] = a[k][i]
  <2> DEFINE n == hi - k
             T == { j \in 0 .. n : Len(a[k]) <= Len(a[k + j]) /\ \A i \in 1 .. Len(a[k]) : a[k + j][i] = a[k][i] }
  <2>1. \A x \in elem - 1 .. hi : a[x] \in Seq(Nat) /\ Len(a[x]) \in Nat
    BY DEF Ahead
  <2>2. n \in Nat /\ k + n = hi /\ k + 0 = k
    BY <1>1
  <2>3. 0 \in T
    BY <2>1, <2>2
  <2>4. ASSUME NEW j \in 0 .. n, j \in T, j # n PROVE j + 1 \in T
    <3>1. k + (j + 1) \in elem .. hi /\ (k + (j + 1)) - 1 = k + j /\ j + 1 \in 0 .. n /\ k + j \in elem - 1 .. hi
      BY <1>1, <2>4
    <3>2. /\ Len(a[k + (j + 1)]) = Len(a[k + j]) + ElementSize(Elems[k + (j + 1)])
          /\ ElementSize(Elems[k + (j + 1)]) \in Nat
          /\ \A i \in 1 .. Len(a[k + j]) : a[k + (j + 1)][i] = a[k + j][i]
      BY <1>2, <3>1
    <3>3. Len(a[k]) <= Len(a[k + j]) /\ \A i \in 1 .. Len(a[k]) : a[k + j][i] = a[k][i]
      BY <2>4
    <3>4. Len(a[k]) \in Nat /\ Len(a[k + j]) \in Nat
      BY <2>1, <3>1
    <3>5. Len(a[k]) <= Len(a[k + (j + 1)])
      BY <3>2, <3>3, <3>4
    <3>6. \A i \in 1 .. Len(a[k]) : a[k + (j + 1)][i] = a[k][i]
      <4>1. \A i \in 1 .. Len(a[k]) : i \in 1 .. Len(a[k + j])
        BY <3>3, <3>4
      <4> QED BY <3>2, <3>3, <4>1
    <3> QED BY <3>1, <3>5, <3>6
  <2>5. n \in T
    <3> HIDE DEF n, T
    <3>1. 0 .. n \subseteq T
      BY <2>2, <2>3, <2>4, Climb
    <3> QED BY <2>2, <3>1
  <2> QED BY <2>2, <2>5
<1> QED BY <1>2, <1>3

\* An element shows in the buffer where those before it end.
LEMMA ElementShows ==
  ASSUME Scanning, NEW end \in BOOLEAN, NEW a, Ahead(a, end), NEW k \in elem .. Len(Elems),
         BufferBytes(end) = [i \in 1 .. Len(buf) |-> IF i - pos \in DOMAIN a[Len(Elems)]
                                                    THEN a[Len(Elems)][i - pos] ELSE Scanner!CHARSXP]
  PROVE  /\ Shows(BufferBytes(end), pos + Len(a[k - 1]), Elems[k], end)
         /\ BufferBytes(end) \in Seq(Nat) /\ Len(BufferBytes(end)) = Len(buf)
<1> DEFINE bytes == a[Len(Elems)]
           data == BufferBytes(end)
           p == pos + Len(a[k - 1])
<1>1. /\ elem \in Nat \ {0} /\ Len(Elems) \in Nat /\ Len(buf) \in Nat /\ pos \in Nat
      /\ k \in Nat /\ k - 1 \in elem - 1 .. Len(Elems) /\ Len(Elems) \in elem - 1 .. Len(Elems) /\ k \in elem - 1 .. Len(Elems)
  BY DEF Scanning
<1>2. bytes \in Seq(Nat) /\ a[k - 1] \in Seq(Nat) /\ a[k] \in Seq(Nat)
  BY <1>1 DEF Ahead
<1>3. data = [i \in 1 .. Len(buf) |-> IF i - pos \in DOMAIN bytes THEN bytes[i - pos] ELSE Scanner!CHARSXP]
  OBVIOUS
<1>4. /\ Len(a[k]) = Len(a[k - 1]) + ElementSize(Elems[k])
      /\ \A i \in 1 .. ElementSize(Elems[k]) : a[k][Len(a[k - 1]) + i] = ElementBytes(Elems[k], end)[i]
      /\ Len(a[k]) <= Len(bytes) /\ \A i \in 1 .. Len(a[k]) : bytes[i] = a[k][i]
  BY <1>1, AheadGrows
<1>5. ElementSize(Elems[k]) \in Nat
  <2>1. k \in 1 .. Len(Elems)
    BY <1>1
  <2>2. Elems[k] \in Element
    BY <2>1 DEF Scanning
  <2> QED BY <2>2, ElementIs
<1> HIDE DEF bytes, data
<1>6. data \in Seq(Nat) /\ Len(data) = Len(buf)
  BY <1>1, <1>2, <1>3 DEF Scanner!CHARSXP
<1>7. ASSUME NEW i \in 1 .. ElementSize(Elems[k]), p + i <= Len(data)
      PROVE  data[p + i] = ElementBytes(Elems[k], end)[i]
  <2>1. Len(a[k - 1]) \in Nat /\ Len(bytes) \in Nat
    BY <1>2
  <2>2. p + i \in 1 .. Len(buf) /\ (p + i) - pos = Len(a[k - 1]) + i /\ Len(a[k - 1]) + i \in 1 .. Len(a[k])
    <3> DEFINE x == Len(a[k - 1])
               size == ElementSize(Elems[k])
    <3>1. x \in Nat /\ size \in Nat /\ i \in 1 .. size /\ p = pos + x /\ Len(a[k]) = x + size
      BY <1>4, <1>5, <2>1
    <3>2. p + i <= Len(buf)
      BY <1>6, <1>7
    <3> HIDE DEF x, size, p
    <3>3. p + i \in 1 .. Len(buf) /\ (p + i) - pos = x + i /\ x + i \in 1 .. x + size
      BY <1>1, <3>1, <3>2
    <3> QED BY <3>1, <3>3 DEF x
  <2>3. Len(a[k - 1]) + i \in DOMAIN bytes
    BY <1>2, <1>4, <2>1, <2>2
  <2>4. data[p + i] = bytes[Len(a[k - 1]) + i]
    BY <1>3, <2>2, <2>3
  <2> QED BY <1>4, <2>2, <2>4
<1> QED BY <1>6, <1>7 DEF Shows, data

\* What a scan is to find, element by element.
Looked == [processed : Nat, position : Nat, status : -1 .. 5]

Seen(m, p, status) == [processed |-> m, position |-> p, status |-> status]

Looks(f) ==
  /\ f \in [elem - 1 .. Len(Elems) -> Looked] /\ f[elem - 1] = Seen(0, pos, -1)
  /\ \A k \in elem .. Len(Elems) : f[k] = Look(f[k - 1], Elems[k])

\* What a look makes of an element, if the scan gets there.
LEMMA LookOn ==
  ASSUME NEW m, NEW p, NEW e
  PROVE  Look(Seen(m, p, -1), e) =
           IF Len(buf) - p < HeaderSize(e) THEN Seen(m, p, 0)
           ELSE IF Verdict(e, FALSE) # "run" THEN Seen(m, p + HeaderSize(e), StatusOf(Verdict(e, FALSE)))
           ELSE IF Len(buf) - p < ElementSize(e) THEN Seen(m, p + HeaderSize(e), 1)
           ELSE Seen(m + 1, p + ElementSize(e), -1)
<1> DEFINE l == Seen(m, p, -1)
           left == Len(buf) - p
           h == HeaderSize(e)
           z == ElementSize(e)
           v == StatusOf(Verdict(e, FALSE))
<1>0. l = [processed |-> m, position |-> p, status |-> -1]
  BY DEF Seen
<1> HIDE DEF l, h, z, v
<1>1. l.processed = m /\ l.position = p /\ l.status = -1
  BY <1>0
<1>2. [l EXCEPT !.status = 0] = Seen(m, p, 0)
  BY <1>0 DEF Seen
<1>3. \A y : [l EXCEPT !.position = p + h, !.status = y] = Seen(m, p + h, y)
  <2> SUFFICES ASSUME NEW y PROVE [l EXCEPT !.position = p + h, !.status = y] = Seen(m, p + h, y)
    OBVIOUS
  <2> DEFINE r == [l EXCEPT !.position = p + h]
  <2>1. [l EXCEPT !.position = p + h, !.status = y] = [r EXCEPT !.status = y]
    OBVIOUS
  <2>2. r = [processed |-> m, position |-> p + h, status |-> -1]
    BY <1>0
  <2> HIDE DEF r
  <2> QED BY <2>1, <2>2 DEF Seen
<1>4. [l EXCEPT !.processed = m + 1, !.position = p + z] = Seen(m + 1, p + z, -1)
  <2> DEFINE r == [l EXCEPT !.processed = m + 1]
  <2>1. [l EXCEPT !.processed = m + 1, !.position = p + z] = [r EXCEPT !.position = p + z]
    OBVIOUS
  <2>2. r = [processed |-> m + 1, position |-> p, status |-> -1]
    BY <1>0
  <2> HIDE DEF r
  <2> QED BY <2>1, <2>2 DEF Seen
<1>6. Look(l, e) =
        IF left < h THEN [l EXCEPT !.status = 0]
        ELSE IF Verdict(e, FALSE) # "run" THEN [l EXCEPT !.position = p + h, !.status = v]
        ELSE IF left < z THEN [l EXCEPT !.position = p + h, !.status = 1]
        ELSE [l EXCEPT !.processed = m + 1, !.position = p + z]
  BY <1>1, Zenon DEF Look, h, z, v
<1> HIDE DEF left
<1>7. Look(l, e) =
        IF left < h THEN Seen(m, p, 0)
        ELSE IF Verdict(e, FALSE) # "run" THEN Seen(m, p + h, v)
        ELSE IF left < z THEN Seen(m, p + h, 1)
        ELSE Seen(m + 1, p + z, -1)
  BY <1>2, <1>3, <1>4, <1>6, Zenon
<1> QED BY <1>7, Zenon DEF l, left, h, z, v

LEMMA LookIs ==
  ASSUME NEW l \in Looked, NEW e \in Element
  PROVE  Look(l, e) \in Looked /\ (l.status # -1 => Look(l, e) = l)
<1>1. PICK m \in Nat, p \in Nat, status \in -1 .. 5 : l = Seen(m, p, status)
  <2>1. l.processed \in Nat /\ l.position \in Nat /\ l.status \in -1 .. 5 /\ l = Seen(l.processed, l.position, l.status)
    BY DEF Looked, Seen
  <2> QED BY <2>1, Zenon
<1>2. l.status = status
  BY <1>1 DEF Seen
<1>3. CASE status # -1
  <2>1. Look(l, e) = l
    BY <1>2, <1>3 DEF Look
  <2> QED BY <2>1
<1>4. CASE status = -1
  <2>1. HeaderSize(e) \in Nat /\ ElementSize(e) \in Nat /\ Verdict(e, FALSE) \in Verdicts
    BY ElementIs
  <2>2. \A verdict \in Verdicts : verdict # "run" => StatusOf(verdict) \in -1 .. 5
    BY DEF StatusOf, Verdicts
  <2>3. p + HeaderSize(e) \in Nat /\ p + ElementSize(e) \in Nat /\ m + 1 \in Nat
          /\ -1 \in -1 .. 5 /\ 0 \in -1 .. 5 /\ 1 \in -1 .. 5
    BY <1>1, <2>1
  <2>4. \A x \in Nat, y \in Nat, z \in -1 .. 5 : Seen(x, y, z) \in Looked
    BY DEF Seen, Looked
  <2>5. Verdict(e, FALSE) # "run" => StatusOf(Verdict(e, FALSE)) \in -1 .. 5
    BY <2>1, <2>2
  <2>6. Look(l, e) = IF Len(buf) - p < HeaderSize(e) THEN Seen(m, p, 0)
           ELSE IF Verdict(e, FALSE) # "run" THEN Seen(m, p + HeaderSize(e), StatusOf(Verdict(e, FALSE)))
           ELSE IF Len(buf) - p < ElementSize(e) THEN Seen(m, p + HeaderSize(e), 1)
           ELSE Seen(m + 1, p + ElementSize(e), -1)
    BY <1>1, <1>4, LookOn
  <2>7. Look(l, e) \in Looked
    BY <1>1, <2>3, <2>4, <2>5, <2>6, Zenon
  <2> QED BY <1>2, <1>4, <2>7
<1> QED BY <1>3, <1>4

LEMMA ScannedIs ==
  ASSUME Scanning
  PROVE  \E f : Looks(f) /\ Scanned = IF f[Len(Elems)].status = -1 THEN [f[Len(Elems)] EXCEPT !.status = 0]
                               ELSE f[Len(Elems)]
<1> DEFINE lo == elem - 1
           hi == Len(Elems)
           start == [processed |-> 0, position |-> pos, status |-> -1]
           turn == [k \in lo + 1 .. hi |-> [l \in Looked |-> Look(l, Elems[k])]]
           f == CHOOSE f : f = [k \in elem - 1 .. Len(Elems) |->
                                  IF k < elem THEN [processed |-> 0, position |-> pos, status |-> -1]
                                  ELSE Look(f[k - 1], Elems[k])]
<1>1. lo \in Nat /\ hi \in Nat /\ lo <= hi /\ lo + 1 = elem
  BY DEF Scanning
<1>2. \A k \in lo + 1 .. hi : \A l \in Looked : turn[k][l] = Look(l, Elems[k])
  OBVIOUS
<1>3. \A k \in lo + 1 .. hi : \A l \in Looked : turn[k][l] \in Looked
  <2> SUFFICES ASSUME NEW k \in lo + 1 .. hi, NEW l \in Looked PROVE turn[k][l] \in Looked
    OBVIOUS
  <2>1. k \in 1 .. Len(Elems)
    BY <1>1
  <2>2. Elems[k] \in Element
    BY <2>1 DEF Scanning
  <2> QED BY <1>2, <2>2, LookIs
<1>4. start \in Looked /\ start = Seen(0, pos, -1)
  BY DEF Looked, Scanning, Seen
<1>5. Scanned = IF f[Len(Elems)].status = -1 THEN [f[Len(Elems)] EXCEPT !.status = 0] ELSE f[Len(Elems)]
  BY Zenon DEF Scanned
<1> HIDE DEF turn, lo, hi, start
<1>6. PICK g : MakesFrom(g, turn, lo, hi, Looked, start)
  BY <1>1, <1>3, <1>4, Iterations
<1>7. g = [k \in elem - 1 .. Len(Elems) |->
             IF k < elem THEN [processed |-> 0, position |-> pos, status |-> -1]
             ELSE Look(g[k - 1], Elems[k])]
  <2>1. ASSUME NEW k \in lo .. hi PROVE g[k] = IF k < elem THEN start ELSE Look(g[k - 1], Elems[k])
    <3>1. CASE k < elem
      BY <1>1, <1>6, <3>1 DEF MakesFrom
    <3>2. CASE ~(k < elem)
      <4>1. k \in lo + 1 .. hi /\ k - 1 \in lo .. hi
        BY <1>1, <3>2
      <4> QED BY <1>2, <1>6, <3>2, <4>1 DEF MakesFrom
    <3> QED BY <3>1, <3>2
  <2>2. g = [k \in lo .. hi |-> g[k]]
    BY <1>6 DEF MakesFrom
  <2> QED BY <2>1, <2>2 DEF lo, hi, start
<1>8. f = [k \in elem - 1 .. Len(Elems) |->
             IF k < elem THEN [processed |-> 0, position |-> pos, status |-> -1]
             ELSE Look(f[k - 1], Elems[k])]
  BY <1>7, Zenon
<1> HIDE DEF f
<1>9. \A k \in lo .. hi : f[k] = IF k < elem THEN start ELSE Look(f[k - 1], Elems[k])
  BY <1>8, Zenon DEF lo, hi, start
<1>10. MakesFrom(f, turn, lo, hi, Looked, start)
  <2>1. f = [k \in lo .. hi |-> f[k]]
    BY <1>8, Zenon DEF lo, hi
  <2>2. f[lo] = start
    BY <1>1, <1>9
  <2>3. ASSUME NEW k \in lo + 1 .. hi, f[k - 1] \in Looked PROVE f[k] = turn[k][f[k - 1]]
    <3>1. k \in lo .. hi /\ ~(k < elem)
      BY <1>1
    <3> QED BY <1>2, <1>9, <2>3, <3>1
  <2> QED BY <1>1, <1>3, <1>4, <2>1, <2>2, <2>3, MadeSo
<1>11. Looks(f)
  <2>1. \A k \in elem .. hi : k \in lo .. hi /\ ~(k < elem)
    BY <1>1
  <2> QED BY <1>1, <1>4, <1>9, <1>10, <2>1 DEF MakesFrom, Looks, lo, hi
<1> QED BY <1>5, <1>11

\* A scan that goes on is where the elements before it end; one that an element
\* has stopped, tells of it.
Follows(f, a, k) ==
  /\ f[k].status = -1 => /\ f[k].processed = k - (elem - 1) /\ f[k].position = pos + Len(a[k])
                         /\ f[k].position <= Len(buf)
  /\ f[k].status \in 1 .. 3 => Elems[elem + f[k].processed].t # "other"

LEMMA LooksFollow ==
  ASSUME Scanning, NEW end \in BOOLEAN, NEW a, Ahead(a, end), NEW f, Looks(f)
  PROVE  \A k \in elem - 1 .. Len(Elems) : Follows(f, a, k)
<1> DEFINE hi == Len(Elems)
           lo == elem - 1
           n == hi - lo
           T == { j \in 0 .. n : Follows(f, a, lo + j) }
<1>1. /\ lo \in Nat /\ hi \in Nat /\ n \in Nat /\ lo + n = hi /\ elem = lo + 1 /\ elem \in Nat /\ pos \in Nat
      /\ Len(buf) \in Nat /\ pos <= Len(buf)
  BY DEF Scanning
<1> HIDE DEF hi, lo, n
<1>2. 0 \in T
  <2>1. f[lo] = Seen(0, pos, -1) /\ a[lo] = <<>> /\ lo + 0 = lo /\ lo - lo = 0
    BY <1>1 DEF Looks, Ahead, lo
  <2>2. f[lo].processed = 0 /\ f[lo].position = pos /\ f[lo].status = -1
    BY <2>1 DEF Seen
  <2>3. Len(a[lo]) = 0 /\ pos + 0 = pos
    BY <1>1, <2>1
  <2>4. Follows(f, a, lo)
    BY <1>1, <2>1, <2>2, <2>3 DEF Follows, lo
  <2> QED BY <1>1, <2>1, <2>4
<1>3. ASSUME NEW j \in 0 .. n, j \in T, j # n PROVE j + 1 \in T
  <2> DEFINE k == lo + (j + 1)
             e == Elems[k]
             l == f[k - 1]
             m == l.processed
             p == l.position
  <2>1. k \in elem .. hi /\ k - 1 = lo + j /\ j + 1 \in 0 .. n /\ k \in 1 .. hi /\ k - 1 \in lo .. hi /\ k \in Nat
    BY <1>1, <1>3
  <2>2. Follows(f, a, k - 1)
    BY <1>3, <2>1
  <2>3. e \in Element /\ l \in Looked /\ f[k] = Look(l, e)
    <3>1. e \in Element
      BY <2>1 DEF Scanning, hi
    <3>2. l \in Looked
      BY <2>1 DEF Looks, hi, lo
    <3>3. f[k] = Look(l, e)
      BY <2>1 DEF Looks, hi
    <3> QED BY <3>1, <3>2, <3>3
  <2>4. CASE l.status # -1
    <3>1. f[k] = l
      BY <2>3, <2>4, LookIs
    <3>2. Follows(f, a, k)
      BY <2>2, <2>4, <3>1 DEF Follows
    <3> QED BY <2>1, <3>2
  <2>5. CASE l.status = -1
    <3>1. l = Seen(m, p, -1) /\ m \in Nat /\ p \in Nat
      BY <2>3, <2>5 DEF Looked, Seen
    <3>2. m = (k - 1) - lo /\ p = pos + Len(a[k - 1]) /\ p <= Len(buf)
      BY <2>2, <2>5 DEF Follows, lo
    <3>3. elem + m = k
      <4>1. elem = lo + 1 /\ lo \in Nat /\ k \in Nat /\ m = (k - 1) - lo
        BY <1>1, <2>1, <3>2
      <4> HIDE DEF k, m
      <4> QED BY <4>1
    <3>4. Len(a[k]) = Len(a[k - 1]) + ElementSize(e)
      BY <2>1, AheadGrows DEF hi
    <3>5. a[k - 1] \in Seq(Nat)
      BY <2>1 DEF Ahead, hi, lo
    <3>6. ElementSize(e) \in Nat /\ HeaderSize(e) \in Nat /\ Verdict(e, FALSE) \in Verdicts
      BY <2>3, ElementIs
    <3> HIDE DEF k, e, l, m, p
    <3>7. Look(l, e) =
           IF Len(buf) - p < HeaderSize(e) THEN Seen(m, p, 0)
           ELSE IF Verdict(e, FALSE) # "run" THEN Seen(m, p + HeaderSize(e), StatusOf(Verdict(e, FALSE)))
           ELSE IF Len(buf) - p < ElementSize(e) THEN Seen(m, p + HeaderSize(e), 1)
           ELSE Seen(m + 1, p + ElementSize(e), -1)
      BY <3>1, LookOn
    <3>8. \A x, y, z : Seen(x, y, z).processed = x /\ Seen(x, y, z).position = y /\ Seen(x, y, z).status = z
      BY DEF Seen
    <3>9. CASE Len(buf) - p < HeaderSize(e)
      <4>1. f[k] = Seen(m, p, 0)
        BY <2>3, <3>7, <3>9
      <4>2. f[k].status = 0
        BY <3>8, <4>1
      <4>3. Follows(f, a, k)
        BY <4>2 DEF Follows
      <4> QED BY <2>1, <4>3 DEF k
    <3>10. CASE ~(Len(buf) - p < HeaderSize(e)) /\ Verdict(e, FALSE) # "run"
      <4>1. f[k] = Seen(m, p + HeaderSize(e), StatusOf(Verdict(e, FALSE)))
        BY <2>3, <3>7, <3>10
      <4>2. f[k].status = StatusOf(Verdict(e, FALSE)) /\ f[k].processed = m
        <5> DEFINE y == p + HeaderSize(e)
                   z == StatusOf(Verdict(e, FALSE))
        <5>1. f[k] = Seen(m, y, z)
          BY <4>1
        <5> HIDE DEF y, z
        <5>2. f[k].status = z /\ f[k].processed = m
          BY <3>8, <5>1
        <5> QED BY <5>2 DEF z
      <4>3. e.t = "other" => Verdict(e, FALSE) = "type"
        BY DEF Verdict
      <4>4. StatusOf("type") = 5 /\ \A verdict \in Verdicts : verdict # "run" => StatusOf(verdict) \in 2 .. 5
        BY DEF StatusOf, Verdicts
      <4>5. f[k].status \in 2 .. 5
        BY <3>6, <3>10, <4>2, <4>4
      <4>6. f[k].status \in 1 .. 3 => e.t # "other"
        <5>1. e.t = "other" => f[k].status = 5
          BY <4>2, <4>3, <4>4, Zenon
        <5> QED BY <5>1
      <4>7. Elems[elem + f[k].processed] = e
        BY <3>3, <4>2 DEF e
      <4>8. Follows(f, a, k)
        BY <4>5, <4>6, <4>7 DEF Follows
      <4> QED BY <2>1, <4>8 DEF k
    <3>11. CASE ~(Len(buf) - p < HeaderSize(e)) /\ Verdict(e, FALSE) = "run" /\ Len(buf) - p < ElementSize(e)
      <4>1. f[k] = Seen(m, p + HeaderSize(e), 1)
        BY <2>3, <3>7, <3>11
      <4>2. f[k].status = 1 /\ f[k].processed = m
        BY <3>8, <4>1
      <4>3. e.t # "other"
        BY <3>11 DEF Verdict
      <4>4. Elems[elem + f[k].processed] = e
        BY <3>3, <4>2 DEF e
      <4>5. Follows(f, a, k)
        BY <4>2, <4>3, <4>4 DEF Follows
      <4> QED BY <2>1, <4>5 DEF k
    <3>12. CASE ~(Len(buf) - p < HeaderSize(e)) /\ Verdict(e, FALSE) = "run" /\ ~(Len(buf) - p < ElementSize(e))
      <4>1. f[k] = Seen(m + 1, p + ElementSize(e), -1)
        BY <2>3, <3>7, <3>12
      <4>2. f[k].status = -1 /\ f[k].processed = m + 1 /\ f[k].position = p + ElementSize(e)
        BY <3>8, <4>1
      <4>3. m + 1 = k - lo
        BY <1>1, <2>1, <3>2
      <4>4. p + ElementSize(e) = pos + Len(a[k]) /\ p + ElementSize(e) <= Len(buf)
        <5> DEFINE x == Len(a[k - 1])
        <5>1. x \in Nat /\ p = pos + x /\ Len(a[k]) = x + ElementSize(e)
          BY <3>2, <3>4, <3>5
        <5> HIDE DEF x
        <5> QED BY <1>1, <3>1, <3>6, <3>12, <5>1
      <4>5. Follows(f, a, k)
        BY <4>2, <4>3, <4>4 DEF Follows, lo
      <4> QED BY <2>1, <4>5 DEF k
    <3> QED BY <3>9, <3>10, <3>11, <3>12
  <2> QED BY <2>4, <2>5
<1>4. 0 .. n \subseteq T
  <2> HIDE DEF T
  <2> QED BY <1>1, <1>2, <1>3, Climb
<1> SUFFICES ASSUME NEW k \in lo .. hi PROVE Follows(f, a, k)
  BY DEF lo, hi
<1>5. k - lo \in 0 .. n /\ lo + (k - lo) = k
  BY <1>1
<1> QED BY <1>4, <1>5

\* What the compiled loop has, where a look has l.
Told(l) ==
  IF l.status = -1 THEN Running(l.processed, l.position)
  ELSE Ended(l.processed, l.position, l.status,
             IF l.status = 0 THEN 0
             ELSE IF Elems[elem + l.processed].t = "other" THEN 1 ELSE Elems[elem + l.processed].n)

\* Its next turn has what the next look has.
LEMMA TurnLooks ==
  ASSUME Scanning, NEW end \in BOOLEAN, NEW a, Ahead(a, end), NEW f, Looks(f), NEW k \in elem .. Len(Elems),
         BufferBytes(end) = [i \in 1 .. Len(buf) |-> IF i - pos \in DOMAIN a[Len(Elems)]
                                                    THEN a[Len(Elems)][i - pos] ELSE Scanner!CHARSXP]
  PROVE  Told(f[k]) = IF Told(f[k - 1]).status # -1 THEN Told(f[k - 1])
                      ELSE Scanner!Turn(BufferBytes(end), Told(f[k - 1]), MaxString, RefsLen, end)
<1> DEFINE e == Elems[k]
           l == f[k - 1]
           m == l.processed
           p == l.position
           data == BufferBytes(end)
<1>1. /\ elem \in Nat \ {0} /\ Len(Elems) \in Nat /\ k \in Nat /\ k \in 1 .. Len(Elems)
      /\ k - 1 \in elem - 1 .. Len(Elems) /\ k \in elem - 1 .. Len(Elems)
  BY DEF Scanning
<1>2. l \in Looked /\ f[k] = Look(l, e)
  BY <1>1 DEF Looks
<1>3. e \in Element /\ Fitting(e)
  BY <1>1 DEF Scanning
<1>4. Follows(f, a, k - 1)
  BY <1>1, LooksFollow
<1>5. Shows(data, pos + Len(a[k - 1]), e, end) /\ data \in Seq(Nat) /\ Len(data) = Len(buf)
  BY ElementShows
<1>6. Told(l).status = l.status
  BY DEF Told, Running, Ended
<1>7. CASE l.status # -1
  <2>1. f[k] = l
    BY <1>2, <1>3, <1>7, LookIs
  <2> QED BY <1>6, <1>7, <2>1
<1>8. CASE l.status = -1
  <2>1. l = Seen(m, p, -1) /\ m \in Nat /\ p \in Nat
    BY <1>2, <1>8 DEF Looked, Seen
  <2>2. m = (k - 1) - (elem - 1) /\ p = pos + Len(a[k - 1]) /\ p <= Len(buf)
    BY <1>4, <1>8 DEF Follows
  <2>3. elem + m = k
    BY <1>1, <2>2
  <2>4. Told(l) = Running(m, p)
    BY <1>8 DEF Told
  <2>5. Elems[elem + m] = e
    BY <2>3
  <2> DEFINE h == HeaderSize(e)
             z == ElementSize(e)
             v == StatusOf(Verdict(e, FALSE))
             turn == Scanner!Turn(data, Running(m, p), MaxString, RefsLen, end)
  <2> HIDE DEF e, l, m, p, data
  <2>6. turn = IF Len(buf) - p < h THEN Ended(m, p, 0, 0)
               ELSE IF Verdict(e, FALSE) # "run" THEN Ended(m, p + h, v, IF e.t = "other" THEN 1 ELSE e.n)
               ELSE IF Len(buf) - p < z THEN Ended(m, p + h, 1, e.n)
               ELSE Running(m + 1, p + z)
    <3>1. Shows(data, p, e, end) /\ p <= Len(data)
      BY <1>5, <2>2
    <3>2. turn = IF Len(data) - p < h THEN Ended(m, p, 0, 0)
                 ELSE IF Verdict(e, FALSE) # "run" THEN Ended(m, p + h, v, IF e.t = "other" THEN 1 ELSE e.n)
                 ELSE IF Len(data) - p < z THEN Ended(m, p + h, 1, e.n)
                 ELSE Running(m + 1, p + z)
      BY <1>3, <1>5, <2>1, <3>1, TurnIs, ZenonT(30)
    <3> HIDE DEF h, z, v, turn
    <3> QED BY <1>5, <3>2
  <2>7. f[k] = IF Len(buf) - p < h THEN Seen(m, p, 0)
               ELSE IF Verdict(e, FALSE) # "run" THEN Seen(m, p + h, v)
               ELSE IF Len(buf) - p < z THEN Seen(m, p + h, 1)
               ELSE Seen(m + 1, p + z, -1)
    BY <1>2, <2>1, LookOn
  <2>8. \A x, y : Told(Seen(x, y, -1)) = Running(x, y)
    BY DEF Told, Seen
  <2>9. \A y, status : status # -1 =>
          Told(Seen(m, y, status)) =
            Ended(m, y, status, IF status = 0 THEN 0 ELSE IF e.t = "other" THEN 1 ELSE e.n)
    <3> SUFFICES ASSUME NEW y, NEW status, status # -1
                 PROVE  Told(Seen(m, y, status)) =
                          Ended(m, y, status, IF status = 0 THEN 0 ELSE IF e.t = "other" THEN 1 ELSE e.n)
      OBVIOUS
    <3>1. Seen(m, y, status).processed = m /\ Seen(m, y, status).position = y /\ Seen(m, y, status).status = status
      BY DEF Seen
    <3> QED BY <2>5, <3>1 DEF Told
  <2>10. v \in 2 .. 5 \/ Verdict(e, FALSE) = "run"
    <3>1. Verdict(e, FALSE) \in Verdicts
      BY <1>3, ElementIs
    <3>2. \A verdict \in Verdicts : verdict # "run" => StatusOf(verdict) \in 2 .. 5
      BY DEF StatusOf, Verdicts
    <3> QED BY <3>1, <3>2
  <2>11. Verdict(e, FALSE) = "run" => e.t # "other"
    BY DEF Verdict
  <2> HIDE DEF h, z, v, turn
  <2>12. Told(f[k]) = turn
    <3>1. CASE Len(buf) - p < h
      BY <2>6, <2>7, <2>9, <3>1
    <3>2. CASE ~(Len(buf) - p < h) /\ Verdict(e, FALSE) # "run"
      <4>1. turn = Ended(m, p + h, v, IF e.t = "other" THEN 1 ELSE e.n) /\ f[k] = Seen(m, p + h, v)
        BY <2>6, <2>7, <3>2
      <4>2. v # -1 /\ v # 0
        <5>1. v \in 2 .. 5
          BY <2>10, <3>2
        <5> QED BY <5>1
      <4>3. Told(Seen(m, p + h, v)) = Ended(m, p + h, v, IF e.t = "other" THEN 1 ELSE e.n)
        BY <2>9, <4>2
      <4> QED BY <4>1, <4>3
    <3>3. CASE ~(Len(buf) - p < h) /\ Verdict(e, FALSE) = "run" /\ Len(buf) - p < z
      <4>1. turn = Ended(m, p + h, 1, e.n) /\ f[k] = Seen(m, p + h, 1)
        BY <2>6, <2>7, <3>3
      <4>2. Told(Seen(m, p + h, 1)) = Ended(m, p + h, 1, e.n)
        BY <2>9, <2>11, <3>3
      <4> QED BY <4>1, <4>2
    <3>4. CASE ~(Len(buf) - p < h) /\ Verdict(e, FALSE) = "run" /\ ~(Len(buf) - p < z)
      BY <2>6, <2>7, <2>8, <3>4
    <3> QED BY <3>1, <3>2, <3>3, <3>4
  <2>13. Told(l).status = -1
    BY <1>6, <1>8
  <2> QED BY <2>4, <2>12, <2>13 DEF turn, l, data
<1> QED BY <1>7, <1>8

\* The compiled scanner finds what is to be found.
LEMMA ScannerFinds ==
  ASSUME Scanning, NEW end \in BOOLEAN
  PROVE  LET found == Scanner!skip_string_chunk(BufferBytes(end), pos, Len(Elems) - elem + 1, MaxString, RefsLen, end)
         IN /\ <<found.processed, found.position, found.status>> = <<Scanned.processed, Scanned.position, Scanned.status>>
            /\ found.status \in {1, 2, 3} => found.value = Elems[elem + found.processed].n
<1> DEFINE data == BufferBytes(end)
           n == Len(Elems) - elem + 1
           lo == elem - 1
           start == [processed |-> 0, position |-> pos, status |-> -1, value |-> 0]
           found == Scanner!skip_string_chunk(data, pos, n, MaxString, RefsLen, end)
           turns == CHOOSE turns : turns = [k \in 0 .. n |->
                      IF k = 0 THEN start
                      ELSE LET l == turns[k - 1]
                           IN IF l.status # -1 THEN l ELSE Scanner!Turn(data, l, MaxString, RefsLen, end)]
<1>1. PICK a : /\ Ahead(a, end)
               /\ data = [k \in 1 .. Len(buf) |-> IF k - pos \in DOMAIN a[Len(Elems)]
                                                  THEN a[Len(Elems)][k - pos] ELSE Scanner!CHARSXP]
  BY BufferIs, Zenon
<1>2. PICK f : Looks(f) /\ Scanned = IF f[Len(Elems)].status = -1 THEN [f[Len(Elems)] EXCEPT !.status = 0]
                                     ELSE f[Len(Elems)]
  BY ScannedIs, Zenon
<1>3. lo \in Nat /\ n \in Nat /\ lo + n = Len(Elems) /\ elem = lo + 1 /\ Len(Elems) \in Nat
  BY DEF Scanning
<1>4. found = IF turns[n].status = -1 THEN Scanner!Stop(turns[n], 0, 0) ELSE turns[n]
  BY Zenon DEF Scanner!skip_string_chunk
<1> DEFINE told == [k \in 0 .. n |-> Told(f[lo + k])]
<1>5. told[0] = start
  <2>1. lo + 0 = elem - 1 /\ 0 \in 0 .. n
    BY <1>3
  <2>2. told[0] = Told(f[lo + 0])
    BY <2>1
  <2>3. f[lo + 0] = Seen(0, pos, -1)
    BY <1>2, <2>1 DEF Looks
  <2> QED BY <2>2, <2>3 DEF Told, Seen, Running
<1> HIDE DEF start
<1>6. ASSUME NEW k \in 1 .. n
      PROVE  told[k] = IF told[k - 1].status # -1 THEN told[k - 1]
                       ELSE Scanner!Turn(data, told[k - 1], MaxString, RefsLen, end)
  <2>1. lo + k \in elem .. Len(Elems) /\ (lo + k) - 1 = lo + (k - 1) /\ k \in 0 .. n /\ k - 1 \in 0 .. n
    <3> HIDE DEF lo, n, told
    <3> QED BY <1>3
  <2>2. told[k] = Told(f[lo + k]) /\ told[k - 1] = Told(f[(lo + k) - 1])
    BY <2>1
  <2> HIDE DEF told, lo, n
  <2>3. Told(f[lo + k]) = IF Told(f[(lo + k) - 1]).status # -1 THEN Told(f[(lo + k) - 1])
                          ELSE Scanner!Turn(BufferBytes(end), Told(f[(lo + k) - 1]), MaxString, RefsLen, end)
    BY <1>1, <1>2, <2>1, TurnLooks
  <2> QED BY <2>2, <2>3
<1>7. told = [k \in 0 .. n |->
                IF k = 0 THEN start
                ELSE LET l == told[k - 1]
                     IN IF l.status # -1 THEN l ELSE Scanner!Turn(data, l, MaxString, RefsLen, end)]
  <2>1. told = [k \in 0 .. n |-> told[k]]
    OBVIOUS
  <2> HIDE DEF told, data, n
  <2>2. ASSUME NEW k \in 0 .. n
        PROVE  told[k] = IF k = 0 THEN start
                         ELSE IF told[k - 1].status # -1 THEN told[k - 1]
                         ELSE Scanner!Turn(data, told[k - 1], MaxString, RefsLen, end)
    <3>1. k = 0 \/ k \in 1 .. n
      BY <1>3
    <3> QED BY <1>5, <1>6, <3>1
  <2> QED BY <2>1, <2>2
<1> HIDE DEF told
<1>8. turns = [k \in 0 .. n |->
                IF k = 0 THEN start
                ELSE LET l == turns[k - 1]
                     IN IF l.status # -1 THEN l ELSE Scanner!Turn(data, l, MaxString, RefsLen, end)]
  BY <1>7, Zenon
<1> HIDE DEF turns, data, n, found
<1>9. turns[0] = start /\ \A k \in 1 .. n : turns[k] = IF turns[k - 1].status # -1 THEN turns[k - 1]
                                            ELSE Scanner!Turn(data, turns[k - 1], MaxString, RefsLen, end)
  <2>1. \A k \in 0 .. n : turns[k] = IF k = 0 THEN start
                                     ELSE IF turns[k - 1].status # -1 THEN turns[k - 1]
                                     ELSE Scanner!Turn(data, turns[k - 1], MaxString, RefsLen, end)
    BY <1>8, Zenon
  <2>2. 0 \in 0 .. n /\ \A k \in 1 .. n : k \in 0 .. n /\ k # 0
    BY <1>3
  <2> QED BY <2>1, <2>2, Zenon
<1> DEFINE T == { k \in 0 .. n : turns[k] = told[k] }
<1>10. 0 .. n \subseteq T
  <2>1. 0 \in T
    BY <1>3, <1>5, <1>9
  <2>2. ASSUME NEW k \in 0 .. n, k \in T, k # n PROVE k + 1 \in T
    <3>1. k + 1 \in 1 .. n /\ (k + 1) - 1 = k /\ k + 1 \in 0 .. n /\ turns[k] = told[k]
      BY <1>3, <2>2
    <3>2. turns[k + 1] = told[k + 1]
      BY <1>6, <1>9, <3>1
    <3> QED BY <3>1, <3>2
  <2> HIDE DEF T
  <2> QED BY <1>3, <2>1, <2>2, Climb
<1> DEFINE last == f[Len(Elems)]
<1>11. turns[n] = Told(last)
  <2>1. n \in 0 .. n
    BY <1>3
  <2> QED BY <1>3, <1>10, <2>1 DEF told
<1>12. Len(Elems) \in elem - 1 .. Len(Elems)
  BY <1>3
<1>13. last \in Looked /\ Follows(f, a, Len(Elems))
  BY <1>1, <1>2, <1>12, LooksFollow DEF Looks
<1>14. PICK m \in Nat, p \in Nat, status \in -1 .. 5 : last = Seen(m, p, status)
  <2>1. /\ last.processed \in Nat /\ last.position \in Nat /\ last.status \in -1 .. 5
        /\ last = Seen(last.processed, last.position, last.status)
    BY <1>13 DEF Looked, Seen
  <2> QED BY <2>1, Zenon
<1>15. status \in 1 .. 3 => Elems[elem + m].t # "other"
  <2>1. last.status = status /\ last.processed = m
    BY <1>14 DEF Seen
  <2> QED BY <1>13, <2>1 DEF Follows
<1> HIDE DEF last
<1>16. last.status = status /\ last.processed = m /\ last.position = p
  BY <1>14 DEF Seen
<1>17. CASE status = -1
  <2>1. found = Ended(m, p, 0, 0)
    <3>1. turns[n] = Running(m, p)
      BY <1>11, <1>16, <1>17 DEF Told
    <3>2. turns[n].status = -1
      BY <3>1 DEF Running
    <3>3. Scanner!Stop(Running(m, p), 0, 0) = Ended(m, p, 0, 0)
      BY StopIs
    <3> QED BY <1>4, <3>1, <3>2, <3>3
  <2>2. last = [processed |-> m, position |-> p, status |-> -1]
    BY <1>14, <1>17 DEF Seen
  <2>3. Scanned = [last EXCEPT !.status = 0]
    BY <1>2, <1>16, <1>17 DEF last
  <2>4. Scanned = [processed |-> m, position |-> p, status |-> 0]
    BY <2>2, <2>3
  <2>5. found.processed = m /\ found.position = p /\ found.status = 0
    BY <2>1 DEF Ended
  <2>6. Scanned.processed = m /\ Scanned.position = p /\ Scanned.status = 0
    BY <2>4
  <2> QED BY <2>5, <2>6 DEF found, data, n
<1>18. CASE status # -1
  <2>1. turns[n] = Ended(m, p, status, IF status = 0 THEN 0 ELSE IF Elems[elem + m].t = "other" THEN 1
                                       ELSE Elems[elem + m].n)
    BY <1>11, <1>16, <1>18 DEF Told
  <2>2. turns[n].status = status
    BY <2>1 DEF Ended
  <2>3. found = turns[n]
    BY <1>4, <1>18, <2>2
  <2>4. found.processed = m /\ found.position = p /\ found.status = status
    BY <2>1, <2>3 DEF Ended
  <2>5. status \in {1, 2, 3} => found.value = Elems[elem + m].n
    BY <1>15, <2>1, <2>3 DEF Ended
  <2>6. Scanned = last
    BY <1>2, <1>16, <1>18 DEF last
  <2> QED BY <1>16, <2>4, <2>5, <2>6 DEF found, data, n
<1> QED BY <1>14, <1>17, <1>18

LEMMA ScanningHolds == IInv /\ Looping("scan") => Scanning
<1> SUFFICES ASSUME IInv, Looping("scan") PROVE Scanning
  OBVIOUS
<1>1. /\ TypeOK /\ item \in 1 .. Len(file.items) + 1 /\ elem \in Nat \ {0} /\ elem <= Len(Elems)
      /\ pos \in 0 .. Len(buf) /\ buf \in Seq(Nat)
  BY DEF IInv, TypeOK, Looping
<1>2. file.items[item].k = "strings" /\ item <= Len(file.items) /\ Elems \in Seq(Element)
  <2>1. file.items[item].k = "strings" /\ item <= Len(file.items)
    BY DEF IInv, Placed, Looping
  <2> QED BY <1>1, <2>1, FileIs
<1>3. file.items \in Contents /\ item \in DOMAIN file.items
  <2>1. file.items \in Contents /\ file.items \in Seq(Item)
    BY <1>1, FileIs DEF TypeOK, Files
  <2> QED BY <1>1, <1>2, <2>1
<1>4. ASSUME NEW k \in 1 .. Len(Elems) PROVE Fitting(Elems[k])
  <2>1. k \in DOMAIN Elems /\ Elems[k] \in Element
    BY <1>2, <1>4
  <2>2. IF Elems[k].t = "ref" THEN 256 * Elems[k].n + Scanner!REFSXP < 128 * Scanner!Values[Word - 1]
        ELSE -(128 * Scanner!Values[Word - 1]) <= Elems[k].n /\ Elems[k].n < 128 * Scanner!Values[Word - 1]
    BY <1>2, <1>3, <2>1, WidthAssumption DEF Elems
  <2> QED BY <2>1, <2>2 DEF Fitting, Half, Scanner!REFSXP
<1> QED BY <1>1, <1>2, <1>4 DEF Scanning

\* Whatever is buffered, and in both byte orders, the compiled scanner finds what
\* the layout of the elements says: how many are complete, where it stops, why,
\* and the length it stops at (skip_string_chunk, _cython_core.c:16043).
THEOREM ScannerFindsAll == Spec => []ScannerSees
<1>1. IInv => ScannerSees
  <2>1. ASSUME IInv, Looping("scan"), NEW end \in BOOLEAN
        PROVE  LET found == Scanner!skip_string_chunk(BufferBytes(end), pos, Len(Elems) - elem + 1,
                                                      MaxString, RefsLen, end)
               IN /\ <<found.processed, found.position, found.status>>
                       = <<Scanned.processed, Scanned.position, Scanned.status>>
                  /\ found.status \in {1, 2, 3} => found.value = Elems[elem + found.processed].n
    BY <2>1, ScanningHolds, ScannerFinds
  <2> QED BY <2>1, Zenon DEF ScannerSees
<1> QED BY <1>1, Invariant, PTL
=============================================================================
