------------------------ MODULE SerializedWalkProofs ------------------------
(***************************************************************************)
(* Proofs about SerializedWalk: the two passes stay in lock step, for any  *)
(* set of headers and any limits.                                          *)
(***************************************************************************)
EXTENDS SerializedWalk, TLAPS

Statuses == {"run"} \cup Errors

\* What expect and resume return.
OutcomeType == [st : Statuses, push : Seq(FrameType), add : Seq(RefType)]

\* The outcomes F of the full read and P of the structural pass for one and
\* the same header leave the passes in lock step, or one fails by policy.
Agree(F, P, deep) ==
  /\ F.st = "run" /\ P.st = "run" => Aligned(F.push, P.push, deep) /\ F.add = P.add
  /\ P.st = "run" => F.st \in {"run", "alloc", "altrep", "dotted", "depth"}
  /\ F.st = "run" => P.st \in {"run", "root", "depth"}
  /\ deep /\ F.st = "depth" => P.st # "run"

Bare(tok) == [tok EXCEPT !.attr = FALSE]

-----------------------------------------------------------------------------
(* Sequences of frames. *)

LEMMA AlignedEmpty ==
  ASSUME NEW deep \in BOOLEAN
  PROVE  Aligned(<<>>, <<>>, deep)
BY DEF Aligned

LEMMA AlignedOne ==
  ASSUME NEW f \in FrameType, NEW p \in FrameType, NEW deep \in BOOLEAN,
         Corresponds(f, p, deep)
  PROVE  Aligned(<<f>>, <<p>>, deep)
BY DEF Aligned

\* Calls made ahead of aligned calls leave them aligned.
LEMMA AlignedConcat ==
  ASSUME NEW a \in Seq(FrameType), NEW b \in Seq(FrameType),
         NEW c \in Seq(FrameType), NEW e \in Seq(FrameType), NEW deep \in BOOLEAN,
         Aligned(a, b, deep), Aligned(c, e, deep)
  PROVE  Aligned(a \o c, b \o e, deep)
<1>1. Len(a \o c) = Len(a) + Len(c) /\ Len(b \o e) = Len(b) + Len(e)
  OBVIOUS
<1>2. Len(a \o c) = Len(b \o e)
  BY <1>1 DEF Aligned
<1>3. ASSUME NEW i \in 1 .. Len(a \o c)
      PROVE  Corresponds((a \o c)[i], (b \o e)[i], deep)
  <2>1. CASE i <= Len(a)
    BY <2>1 DEF Aligned
  <2>2. CASE i > Len(a)
    <3>1. i - Len(a) \in 1 .. Len(c)
      BY <1>1, <2>2
    <3>2. (a \o c)[i] = c[i - Len(a)] /\ (b \o e)[i] = e[i - Len(a)]
      BY <2>2 DEF Aligned
    <3> QED BY <3>1, <3>2 DEF Aligned
  <2>3. i \in Int /\ Len(a) \in Int
    OBVIOUS
  <2>4. i <= Len(a) \/ i > Len(a)
    BY <2>3
  <2> QED BY <2>1, <2>2, <2>4
<1> QED BY <1>2, <1>3 DEF Aligned

LEMMA AlignedTail ==
  ASSUME NEW a \in Seq(FrameType), NEW b \in Seq(FrameType), NEW deep \in BOOLEAN,
         a # <<>>, Aligned(a, b, deep)
  PROVE  /\ b # <<>>
         /\ Corresponds(Head(a), Head(b), deep)
         /\ Aligned(Tail(a), Tail(b), deep)
<1>1. Len(a) > 0 /\ Len(b) = Len(a) /\ b # <<>>
  BY DEF Aligned
<1>2. Len(Tail(a)) = Len(a) - 1 /\ Len(Tail(b)) = Len(a) - 1
  BY <1>1
<1>3. ASSUME NEW i \in 1 .. Len(Tail(a))
      PROVE  Corresponds(Tail(a)[i], Tail(b)[i], deep)
  <2>1. i + 1 \in 1 .. Len(a) /\ Tail(a)[i] = a[i + 1] /\ Tail(b)[i] = b[i + 1]
    BY <1>1, <1>2
  <2> QED BY <2>1 DEF Aligned
<1>4. Head(a) = a[1] /\ Head(b) = b[1] /\ 1 \in 1 .. Len(a)
  BY <1>1
<1> QED BY <1>1, <1>2, <1>3, <1>4 DEF Aligned

-----------------------------------------------------------------------------
(* What a header leads to is well typed. *)

LEMMA FrameMember ==
  ASSUME NEW k \in Calls \cup Returns, NEW m \in Modes, NEW n \in Nat, NEW d \in Nat,
         Proper(Frame(k, m, n, d))
  PROVE  Frame(k, m, n, d) \in FrameType
BY DEF Frame, FrameType

LEMMA FrameMembers ==
  ASSUME NEW d \in Nat
  PROVE  /\ \A m \in {"read", "skip"} : Item(m, d) \in FrameType
         /\ \A m \in {"read", "skip", "scan", "table", "first", "project"}, n \in Nat :
              n > 0 => Frame("rest", m, n, d) \in FrameType
         /\ \A m \in {"read", "skip", "sel"} : Frame("attrs", m, 0, d) \in FrameType
         /\ \A m \in {"read", "cons", "skip", "sel"} : Frame("next", m, 0, d) \in FrameType
         /\ Frame("altpart", "read", 0, d) \in FrameType
         /\ \A m \in {"project", "first"} : Frame("root", m, 0, d) \in FrameType
         /\ \A n \in Nat : Frame("symEnd", "read", n, d) \in FrameType
         /\ \A m \in {"read", "skip"}, n \in Nat : Frame("altEnd", m, n, d) \in FrameType
<1> USE FrameMember DEF Proper, Frame, Calls, Returns, Modes
<1>1. \A m \in {"read", "skip"} : Item(m, d) \in FrameType
  BY DEF Item
<1>2. \A m \in {"read", "skip", "scan", "table", "first", "project"}, n \in Nat :
        n > 0 => Frame("rest", m, n, d) \in FrameType
  OBVIOUS
<1>3. \A m \in {"read", "skip", "sel"} : Frame("attrs", m, 0, d) \in FrameType
  OBVIOUS
<1>4. \A m \in {"read", "cons", "skip", "sel"} : Frame("next", m, 0, d) \in FrameType
  OBVIOUS
<1>5. Frame("altpart", "read", 0, d) \in FrameType
  OBVIOUS
<1>6. \A m \in {"project", "first"} : Frame("root", m, 0, d) \in FrameType
  OBVIOUS
<1>7. \A n \in Nat : Frame("symEnd", "read", n, d) \in FrameType
  OBVIOUS
<1>8. \A m \in {"read", "skip"}, n \in Nat : Frame("altEnd", m, n, d) \in FrameType
  OBVIOUS
<1> QED BY <1>1, <1>2, <1>3, <1>4, <1>5, <1>6, <1>7, <1>8

LEMMA FewFrames ==
  ASSUME NEW a \in FrameType, NEW b \in FrameType, NEW c \in FrameType,
         NEW e \in FrameType
  PROVE  /\ <<>> \in Seq(FrameType)
         /\ <<a>> \in Seq(FrameType)
         /\ <<a, b>> \in Seq(FrameType)
         /\ <<a, b, c, e>> \in Seq(FrameType)
OBVIOUS

LEMMA ItemType ==
  ASSUME NEW m \in {"read", "skip"}, NEW d \in Nat
  PROVE  Item(m, d) \in FrameType
BY FrameMembers

LEMMA AttributesType ==
  ASSUME NEW m \in {"read", "skip", "sel"}, NEW d \in Nat, NEW tok \in Token
  PROVE  Attributes(m, d, tok) \in Seq(FrameType)
<1>1. Frame("attrs", m, 0, d) \in FrameType
  BY FrameMembers
<1> QED BY <1>1, FewFrames DEF Attributes

LEMMA RestType ==
  ASSUME NEW m \in {"read", "skip", "scan", "table", "first", "project"},
         NEW d \in Nat, NEW n \in Nat
  PROVE  Rest(m, n, d) \in Seq(FrameType)
<1>1. CASE n = 0
  BY <1>1, FewFrames DEF Rest
<1>2. CASE n > 0
  <2>1. Frame("rest", m, n, d) \in FrameType
    BY <1>2, FrameMembers
  <2> QED BY <1>2, <2>1, FewFrames DEF Rest
<1> QED BY <1>1, <1>2

LEMMA CellType ==
  ASSUME NEW w \in {"read", "cons", "skip", "sel"}, NEW d \in Nat,
         NEW tagMode \in {"read", "skip"}, NEW valueMode \in {"read", "skip"},
         NEW tok
  PROVE  cell(w, tagMode, valueMode, d, tok) \in Seq(FrameType)
<1>1. Item(tagMode, d) \in FrameType /\ Item(valueMode, d) \in FrameType
  BY ItemType
<1>2. Frame("next", w, 0, d) \in FrameType
  BY FrameMembers
<1>3. <<Item(tagMode, d)>> \in Seq(FrameType)
  BY <1>1, FewFrames
<1>4. <<Item(valueMode, d), Frame("next", w, 0, d)>> \in Seq(FrameType)
  BY <1>1, <1>2, FewFrames
<1>5. <<Item(tagMode, d)>> \o <<Item(valueMode, d), Frame("next", w, 0, d)>>
        \in Seq(FrameType)
  BY <1>3, <1>4
<1> QED BY <1>4, <1>5 DEF cell

LEMMA GoType ==
  ASSUME NEW fs \in Seq(FrameType)
  PROVE  Go(fs) \in OutcomeType
BY DEF Go, OutcomeType, Statuses

LEMMA GoNothing == Go(<<>>) \in OutcomeType
<1>1. <<>> \in Seq(FrameType)
  OBVIOUS
<1> QED BY <1>1, GoType

LEMMA StopType ==
  ASSUME NEW why \in Errors
  PROVE  Stop(why) \in OutcomeType
BY DEF Stop, OutcomeType, Statuses

LEMMA FollowedType ==
  ASSUME NEW o \in OutcomeType, NEW fs \in Seq(FrameType)
  PROVE  /\ Followed(o, fs) \in OutcomeType
         /\ Followed(o, fs).st = o.st
         /\ Followed(o, fs).add = o.add
         /\ o.st = "run" => Followed(o, fs).push = o.push \o fs
<1>1. o.push \o fs \in Seq(FrameType)
  BY DEF OutcomeType
<1> QED BY <1>1 DEF Followed, OutcomeType

LEMMA AddReferenceType ==
  ASSUME NEW kind \in Numbered, NEW at \in Nat, NEW refs \in Seq(RefType),
         NEW fs \in Seq(FrameType)
  PROVE  add_reference(kind, at, refs, fs) \in OutcomeType
<1>1. [k |-> kind, at |-> at] \in RefType
  BY DEF RefType
<1>2. Register([k |-> kind, at |-> at], fs) \in OutcomeType
  BY <1>1 DEF Register, OutcomeType, Statuses
<1>3. Stop("refs") \in OutcomeType
  BY StopType DEF Errors
<1> QED BY <1>2, <1>3 DEF add_reference

-----------------------------------------------------------------------------
(* The dispatch on the type of the header, kind by kind. *)

LEMMA ReadDispatch ==
  ASSUME NEW d, NEW tok, NEW refs, NEW at
  PROVE  LET read == read_item_from_header(d, tok, refs, at)
         IN /\ tok.t \in {"nil", "special"} => read = Go(<<>>)
            /\ tok.t = "ref"    => read = reference(tok.n, refs)
            /\ tok.t = "sym"    => read = symbol(d, at)
            /\ tok.t = "list"   => read = Go(read_pairlist(d, tok))
            /\ tok.t = "altrep" => read = read_altrep(d, tok)
            /\ tok.t = "env"    => read = read_environment(d, refs, at)
            /\ tok.t = "ns"     => read = read_namespace_spec(refs, at)
            /\ tok.t = "extptr" => read = extptr("read", d, tok, refs, at)
            /\ tok.t = "s4"     => read = Go(Attributes("read", d, tok))
            /\ tok.t = "other"  => read = Stop("type")
            /\ tok.t \in {"leaf", "vec"} /\ ~tok.fits => read = Stop("alloc")
            /\ tok.t = "leaf" /\ tok.fits => read = Go(Attributes("read", d, tok))
            /\ tok.t = "vec" /\ tok.fits =>
                 read = Go(Rest("read", tok.n, d) \o Attributes("read", d, tok))
BY DEF read_item_from_header, read_payload

LEMMA SkipDispatch ==
  ASSUME NEW d, NEW tok, NEW refs, NEW at
  PROVE  LET skip == skip_item_from_header(d, tok, refs, at)
         IN /\ tok.t = "nil"    => skip = Go(<<>>)
            /\ tok.t = "ref"    => skip = reference(tok.n, refs)
            /\ tok.t = "sym"    => skip = symbol(d, at)
            /\ tok.t = "list"   => skip = Go(skip_pairlist(d, tok))
            /\ tok.t = "leaf"   => skip = Go(Attributes("skip", d, tok))
            /\ tok.t = "vec"    =>
                 skip = Go(Rest("skip", tok.n, d) \o Attributes("skip", d, tok))
            /\ tok.t = "altrep" =>
                 skip = Go(<<Item("skip", d), Item("skip", d), Item("skip", d),
                             Frame("altEnd", "skip", 0, d)>>)
            /\ tok.t = "extptr" => skip = extptr("skip", d, tok, refs, at)
            /\ tok.t = "other"  => skip = Stop("type")
BY DEF skip_item_from_header, skip_extptr

LEMMA SkipDelegates ==
  ASSUME NEW d, NEW tok, NEW refs, NEW at, tok.t \in {"env", "s4", "ns", "special"}
  PROVE  skip_item_from_header(d, tok, refs, at) = read_item_from_header(d, tok, refs, at)
BY DEF skip_item_from_header

-----------------------------------------------------------------------------
(* Every outcome is well typed. *)

LEMMA SharedTypes ==
  ASSUME NEW d \in Nat, NEW refs \in Seq(RefType), NEW at \in Nat, NEW index,
         NEW m \in {"read", "skip"}, NEW tok \in Token
  PROVE  /\ reference(index, refs) \in OutcomeType
         /\ symbol(d, at) \in OutcomeType
         /\ extptr(m, d, tok, refs, at) \in OutcomeType
<1>1. reference(index, refs) \in OutcomeType
  BY GoNothing, StopType DEF reference, Errors
<1>2. symbol(d, at) \in OutcomeType
  <2>1. Item("read", d) \in FrameType /\ Frame("symEnd", "read", at, d) \in FrameType
    BY FrameMembers
  <2>2. <<Item("read", d), Frame("symEnd", "read", at, d)>> \in Seq(FrameType)
    BY <2>1, FewFrames
  <2> QED BY <2>2, GoType DEF symbol
<1>3. extptr(m, d, tok, refs, at) \in OutcomeType
  <2>1. Item(m, d) \in FrameType /\ Attributes(m, d, tok) \in Seq(FrameType)
    BY ItemType, AttributesType
  <2>2. <<Item(m, d), Item(m, d)>> \in Seq(FrameType)
    BY <2>1, FewFrames
  <2>3. <<Item(m, d), Item(m, d)>> \o Attributes(m, d, tok) \in Seq(FrameType)
    BY <2>1, <2>2
  <2> QED BY <2>3, AddReferenceType DEF extptr, Numbered
<1> QED BY <1>1, <1>2, <1>3

LEMMA ReadType ==
  ASSUME NEW d \in Nat, NEW tok \in Token, NEW refs \in Seq(RefType), NEW at \in Nat
  PROVE  read_item_from_header(d, tok, refs, at) \in OutcomeType
<1>1. Item("read", d) \in FrameType /\ Attributes("read", d, tok) \in Seq(FrameType)
  BY ItemType, AttributesType
<1>2. Rest("read", tok.n, d) \in Seq(FrameType)
  BY RestType DEF Token
<1>3. tok.t \in Kinds
  BY DEF Token
<1>4. CASE tok.t \in {"nil", "special"}
  BY <1>4, ReadDispatch, GoNothing
<1>5. CASE tok.t \in {"ref", "sym", "extptr"}
  BY <1>5, ReadDispatch, SharedTypes
<1>6. CASE tok.t = "list"
  <2>1. read_pairlist(d, tok) \in Seq(FrameType)
    BY CellType DEF read_pairlist
  <2> QED BY <1>6, <2>1, ReadDispatch, GoType
<1>7. CASE tok.t = "altrep"
  <2>1. \A n \in Nat : Frame("altEnd", "read", n, d) \in FrameType
    BY FrameMembers
  <2>2. Frame("altpart", "read", 0, d) \in FrameType
    BY FrameMembers
  <2>3. read_altrep(d, tok) \in OutcomeType
    BY <1>1, <2>1, <2>2, FewFrames, GoType DEF read_altrep
  <2> QED BY <1>7, <2>3, ReadDispatch
<1>8. CASE tok.t = "env"
  <2>1. read_environment(d, refs, at) \in OutcomeType
    BY <1>1, FewFrames, AddReferenceType DEF read_environment, Numbered
  <2> QED BY <1>8, <2>1, ReadDispatch
<1>9. CASE tok.t = "ns"
  <2>1. read_namespace_spec(refs, at) \in OutcomeType
    BY <1>1, FewFrames, AddReferenceType DEF read_namespace_spec, Numbered
  <2> QED BY <1>9, <2>1, ReadDispatch
<1>10. CASE tok.t \in {"leaf", "s4", "other"}
  BY <1>1, <1>10, ReadDispatch, GoType, StopType DEF Errors
<1>11. CASE tok.t = "vec"
  <2>1. Rest("read", tok.n, d) \o Attributes("read", d, tok) \in Seq(FrameType)
    BY <1>1, <1>2
  <2>2. CASE tok.fits
    <3>1. read_item_from_header(d, tok, refs, at)
            = Go(Rest("read", tok.n, d) \o Attributes("read", d, tok))
      BY <1>11, <2>2, ReadDispatch
    <3> QED BY <2>1, <3>1, GoType
  <2>3. CASE ~tok.fits
    BY <1>11, <2>3, ReadDispatch, StopType DEF Errors
  <2> QED BY <2>2, <2>3
<1> QED
  BY <1>3, <1>4, <1>5, <1>6, <1>7, <1>8, <1>9, <1>10, <1>11 DEF Kinds

LEMMA SkipType ==
  ASSUME NEW d \in Nat, NEW tok \in Token, NEW refs \in Seq(RefType), NEW at \in Nat
  PROVE  skip_item_from_header(d, tok, refs, at) \in OutcomeType
<1>1. Item("skip", d) \in FrameType /\ Attributes("skip", d, tok) \in Seq(FrameType)
  BY ItemType, AttributesType
<1>2. tok.t \in Kinds
  BY DEF Token
<1>3. CASE tok.t \in {"nil", "other"}
  BY <1>3, SkipDispatch, GoNothing, StopType DEF Errors
<1>9. CASE tok.t = "leaf"
  <2>1. skip_item_from_header(d, tok, refs, at) = Go(Attributes("skip", d, tok))
    BY <1>9, SkipDispatch
  <2> QED BY <1>1, <2>1, GoType
<1>4. CASE tok.t \in {"ref", "sym", "extptr"}
  <2>1. skip_item_from_header(d, tok, refs, at)
          \in {reference(tok.n, refs), symbol(d, at), extptr("skip", d, tok, refs, at)}
    BY <1>4, SkipDispatch
  <2> QED BY <2>1, SharedTypes
<1>5. CASE tok.t = "list"
  <2>1. skip_pairlist(d, tok) \in Seq(FrameType)
    BY CellType DEF skip_pairlist
  <2>2. skip_item_from_header(d, tok, refs, at) = Go(skip_pairlist(d, tok))
    BY <1>5, SkipDispatch
  <2> QED BY <2>1, <2>2, GoType
<1>6. CASE tok.t = "altrep"
  <2>1. Frame("altEnd", "skip", 0, d) \in FrameType
    BY FrameMembers
  <2>2. <<Item("skip", d), Item("skip", d), Item("skip", d),
          Frame("altEnd", "skip", 0, d)>> \in Seq(FrameType)
    BY <1>1, <2>1, FewFrames
  <2> QED BY <1>6, <2>2, SkipDispatch, GoType
<1>7. CASE tok.t = "vec"
  <2>1. Rest("skip", tok.n, d) \in Seq(FrameType)
    BY RestType DEF Token
  <2>2. Rest("skip", tok.n, d) \o Attributes("skip", d, tok) \in Seq(FrameType)
    BY <1>1, <2>1
  <2>3. skip_item_from_header(d, tok, refs, at)
          = Go(Rest("skip", tok.n, d) \o Attributes("skip", d, tok))
    BY <1>7, SkipDispatch
  <2> QED BY <2>2, <2>3, GoType
<1>8. CASE tok.t \in {"env", "s4", "ns", "special"}
  BY <1>8, SkipDelegates, ReadType
<1> QED BY <1>2, <1>3, <1>4, <1>5, <1>6, <1>7, <1>8, <1>9 DEF Kinds

LEMMA CallType ==
  ASSUME NEW m \in {"read", "skip"}, NEW d \in Nat, NEW tok \in Token,
         NEW refs \in Seq(RefType), NEW at \in Nat
  PROVE  /\ call(m, d, tok, refs, at) \in OutcomeType
         /\ d + 1 > MaxDepth => call(m, d, tok, refs, at) = Stop("depth")
         /\ d + 1 <= MaxDepth /\ m = "skip" =>
              call(m, d, tok, refs, at) = skip_item_from_header(d + 1, tok, refs, at)
         /\ d + 1 <= MaxDepth /\ m = "read" =>
              call(m, d, tok, refs, at) = read_item_from_header(d + 1, tok, refs, at)
<1>1. d + 1 \in Nat /\ (d + 1 > MaxDepth \/ d + 1 <= MaxDepth)
  BY LimitsAssumption
<1>2. CASE d + 1 > MaxDepth
  <2>1. ~(d + 1 <= MaxDepth)
    BY <1>1, <1>2, LimitsAssumption
  <2>2. call(m, d, tok, refs, at) = Stop("depth")
    BY <1>2, <2>1 DEF call
  <2> QED BY <2>1, <2>2, StopType DEF Errors
<1>3. CASE d + 1 <= MaxDepth
  <2>1. ~(d + 1 > MaxDepth)
    BY <1>1, <1>3, LimitsAssumption
  <2>2. CASE m = "skip"
    <3>1. call(m, d, tok, refs, at) = skip_item_from_header(d + 1, tok, refs, at)
      BY <1>3, <2>1, <2>2 DEF call
    <3> QED BY <1>1, <2>1, <2>2, <3>1, SkipType
  <2>3. CASE m = "read"
    <3>1. call(m, d, tok, refs, at) = read_item_from_header(d + 1, tok, refs, at)
      BY <1>3, <2>1, <2>3 DEF call
    <3> QED BY <1>1, <2>1, <2>3, <3>1, ReadType
  <2> QED BY <2>2, <2>3
<1> QED BY <1>1, <1>2, <1>3

LEMMA ScanTypes ==
  ASSUME NEW d \in Nat, NEW tok \in Token, NEW refs \in Seq(RefType), NEW at \in Nat
  PROVE  /\ Bare(tok) \in Token
         /\ scan_column_from_header(d, tok, refs, at) \in OutcomeType
         /\ scan_vector_from_header(d, tok, refs, at) \in OutcomeType
<1>1. Bare(tok) \in Token
  BY DEF Bare, Token
<1>2. call("skip", d, Bare(tok), refs, at) \in OutcomeType
  BY <1>1, CallType
<1>3. Attributes("sel", d, tok) \in Seq(FrameType)
  BY AttributesType
<1>4. scan_column_from_header(d, tok, refs, at) \in OutcomeType
  BY <1>2, <1>3, FollowedType DEF scan_column_from_header, Bare
<1>5. Rest("scan", tok.n, d) \in Seq(FrameType)
  BY RestType DEF Token
<1>6. Rest("scan", tok.n, d) \o Attributes("sel", d, tok) \in Seq(FrameType)
  BY <1>3, <1>5
<1>7. Go(Rest("scan", tok.n, d) \o Attributes("sel", d, tok)) \in OutcomeType
  BY <1>6, GoType
<1> QED BY <1>1, <1>4, <1>7 DEF scan_vector_from_header

LEMMA ItemWalkType ==
  ASSUME NEW m \in {"read", "skip", "scan", "table", "first"}, NEW d \in Nat,
         NEW tok \in Token, NEW refs \in Seq(RefType), NEW at \in Nat
  PROVE  /\ item(m, d, tok, refs, at) \in OutcomeType
         /\ m \in {"read", "skip"} =>
              item(m, d, tok, refs, at) = call(m, d, tok, refs, at)
         /\ m = "scan" =>
              item(m, d, tok, refs, at) = scan_column_from_header(d, tok, refs, at)
         /\ m \in {"table", "first"} =>
              item(m, d, tok, refs, at) = scan_vector_from_header(d, tok, refs, at)
<1>1. CASE m \in {"read", "skip"}
  <2>1. item(m, d, tok, refs, at) = call(m, d, tok, refs, at)
    BY <1>1 DEF item
  <2> QED BY <1>1, <2>1, CallType
<1>2. CASE m = "scan"
  <2>1. item(m, d, tok, refs, at) = scan_column_from_header(d, tok, refs, at)
    BY <1>2 DEF item
  <2> QED BY <1>2, <2>1, ScanTypes
<1>3. CASE m \in {"table", "first"}
  <2>1. item(m, d, tok, refs, at) = scan_vector_from_header(d, tok, refs, at)
    BY <1>3 DEF item
  <2> QED BY <1>3, <2>1, ScanTypes
<1> QED BY <1>1, <1>2, <1>3

\* How the element at hand and those behind it are walked.
Here(f, choice) == IF f.m # "project" THEN f.m ELSE IF choice THEN "read" ELSE "skip"

Later(f, tok, choice) ==
  IF f.m # "first" THEN f.m
  ELSE IF choice /\ tok.t = "vec" THEN "table" ELSE "scan"

LEMMA ElementType ==
  ASSUME NEW f \in FrameType, f.k = "rest", NEW tok \in Token,
         NEW refs \in Seq(RefType), NEW at \in Nat, NEW choice \in BOOLEAN
  PROVE  /\ element(f, tok, refs, at, choice) \in OutcomeType
         /\ element(f, tok, refs, at, choice) =
              Followed(item(Here(f, choice), f.d, tok, refs, at),
                       Rest(Later(f, tok, choice), f.n - 1, f.d))
         /\ item(Here(f, choice), f.d, tok, refs, at) \in OutcomeType
         /\ Rest(Later(f, tok, choice), f.n - 1, f.d) \in Seq(FrameType)
<1>1. /\ f.m \in {"read", "skip", "scan", "table", "first", "project"}
      /\ f.n \in Nat /\ f.n > 0 /\ f.d \in Nat
  BY DEF FrameType, Proper
<1>2. Here(f, choice) \in {"read", "skip", "scan", "table", "first"}
  BY <1>1 DEF Here
<1>3. Later(f, tok, choice) \in {"read", "skip", "scan", "table", "first", "project"}
  BY <1>1 DEF Later
<1>4. item(Here(f, choice), f.d, tok, refs, at) \in OutcomeType
  BY <1>1, <1>2, ItemWalkType
<1>5. f.n - 1 \in Nat
  BY <1>1
<1>6. Rest(Later(f, tok, choice), f.n - 1, f.d) \in Seq(FrameType)
  BY <1>1, <1>3, <1>5, RestType
<1>7. element(f, tok, refs, at, choice) =
        Followed(item(Here(f, choice), f.d, tok, refs, at),
                 Rest(Later(f, tok, choice), f.n - 1, f.d))
  BY DEF element, Here, Later
<1> QED BY <1>4, <1>6, <1>7, FollowedType

LEMMA ExpectDispatch ==
  ASSUME NEW f, NEW tok, NEW refs, NEW at, NEW choice
  PROVE  LET next == expect(f, tok, refs, at, choice)
         IN /\ f.k = "root" => next = root(f.m, f.d, tok)
            /\ f.k = "item" => next = item(f.m, f.d, tok, refs, at)
            /\ f.k = "rest" => next = element(f, tok, refs, at, choice)
            /\ f.k = "altpart" /\ tok.t = "list" => next = Go(read_cons_chain(f.d, tok))
            /\ f.k = "altpart" /\ tok.t # "list" => next = call("read", f.d, tok, refs, at)
            /\ f.k \in {"attrs", "next"} /\ tok.t = "nil" => next = Go(<<>>)
            /\ f.k \in {"attrs", "next"} /\ tok.t = "list" =>
                 next = Go(pairlist(f.m, f.d, tok, choice))
            /\ f.k = "attrs" /\ tok.t \notin {"nil", "list"} => next = Stop("attrs")
            /\ f.k = "next" /\ tok.t \notin {"nil", "list"} => next = tail(f, tok, refs, at)
BY DEF expect

LEMMA PairlistDispatch ==
  ASSUME NEW d, NEW tok, NEW keep
  PROVE  /\ pairlist("read", d, tok, keep) = cell("read", "read", "read", d, tok)
         /\ pairlist("cons", d, tok, keep) = cell("cons", "read", "read", d, tok)
         /\ pairlist("skip", d, tok, keep) = cell("skip", "skip", "skip", d, tok)
         /\ pairlist("sel", d, tok, keep)
              = cell("sel", "read", IF tok.tag /\ keep THEN "read" ELSE "skip", d, tok)
BY DEF pairlist, read_pairlist, read_cons_chain, skip_pairlist, read_selected_attributes

LEMMA ExpectType ==
  ASSUME NEW f \in FrameType, f.k \in Calls, NEW tok \in Token,
         NEW refs \in Seq(RefType), NEW at \in Nat, NEW choice \in BOOLEAN
  PROVE  expect(f, tok, refs, at, choice) \in OutcomeType
<1> DEFINE next == expect(f, tok, refs, at, choice)
<1>1. f.d \in Nat /\ Proper(f)
  BY DEF FrameType
<1>2. CASE f.k = "root"
  <2>1. next = root(f.m, f.d, tok)
    BY <1>2, ExpectDispatch
  <2>2. Rest(f.m, tok.n, f.d) \in Seq(FrameType)
    BY <1>1, <1>2, RestType DEF Proper, Token
  <2>3. Attributes("read", f.d, tok) \in Seq(FrameType)
    BY <1>1, AttributesType
  <2>4. Rest(f.m, tok.n, f.d) \o Attributes("read", f.d, tok) \in Seq(FrameType)
    BY <2>2, <2>3
  <2>5. Go(Rest(f.m, tok.n, f.d) \o Attributes("read", f.d, tok)) \in OutcomeType
    BY <2>4, GoType
  <2>6. Stop("root") \in OutcomeType
    BY StopType DEF Errors
  <2> QED BY <2>1, <2>5, <2>6 DEF root
<1>3. CASE f.k = "item"
  <2>1. next = item(f.m, f.d, tok, refs, at)
    BY <1>3, ExpectDispatch
  <2>2. f.m \in {"read", "skip"}
    BY <1>1, <1>3 DEF Proper
  <2> QED BY <1>1, <2>1, <2>2, ItemWalkType
<1>4. CASE f.k = "rest"
  <2>1. next = element(f, tok, refs, at, choice)
    BY <1>4, ExpectDispatch
  <2> QED BY <1>4, <2>1, ElementType
<1>5. CASE f.k = "altpart" /\ tok.t = "list"
  <2>1. next = Go(cell("cons", "read", "read", f.d, tok))
    BY <1>5, ExpectDispatch DEF read_cons_chain
  <2>2. cell("cons", "read", "read", f.d, tok) \in Seq(FrameType)
    BY <1>1, CellType
  <2> QED BY <2>1, <2>2, GoType
<1>6. CASE f.k = "altpart" /\ tok.t # "list"
  <2>1. next = call("read", f.d, tok, refs, at)
    BY <1>6, ExpectDispatch
  <2> QED BY <1>1, <2>1, CallType
<1>7. CASE f.k \in {"attrs", "next"} /\ tok.t = "nil"
  <2>1. next = Go(<<>>)
    BY <1>7, ExpectDispatch
  <2> QED BY <2>1, GoNothing
<1>8. CASE f.k \in {"attrs", "next"} /\ tok.t = "list"
  <2>1. next = Go(pairlist(f.m, f.d, tok, choice))
    BY <1>8, ExpectDispatch
  <2>2. f.m \in {"read", "cons", "skip", "sel"}
    BY <1>1, <1>8 DEF Proper
  <2>3. pairlist(f.m, f.d, tok, choice) \in Seq(FrameType)
    BY <1>1, <2>2, PairlistDispatch, CellType
  <2> QED BY <2>1, <2>3, GoType
<1>9. CASE f.k = "attrs" /\ tok.t \notin {"nil", "list"}
  <2>1. next = Stop("attrs")
    BY <1>9, ExpectDispatch
  <2> QED BY <2>1, StopType DEF Errors
<1>10. CASE f.k = "next" /\ tok.t \notin {"nil", "list"}
  <2>1. next = tail(f, tok, refs, at)
    BY <1>10, ExpectDispatch
  <2>2. f.m \in {"read", "cons", "skip", "sel"}
    BY <1>1, <1>10 DEF Proper
  <2>3. Stop("dotted") \in OutcomeType
    BY StopType DEF Errors
  <2>4. /\ call("read", f.d, tok, refs, at) \in OutcomeType
        /\ call("skip", f.d, tok, refs, at) \in OutcomeType
    BY <1>1, CallType
  <2> QED BY <2>1, <2>2, <2>3, <2>4 DEF tail
<1> QED
  BY <1>2, <1>3, <1>4, <1>5, <1>6, <1>7, <1>8, <1>9, <1>10 DEF Calls

LEMMA ResumeType ==
  ASSUME NEW f \in FrameType, NEW refs \in Seq(RefType)
  PROVE  resume(f, refs) \in OutcomeType
<1>1. f.n \in Nat
  BY DEF FrameType
<1>2. add_reference("sym", f.n, refs, <<>>) \in OutcomeType
  BY <1>1, FewFrames, AddReferenceType DEF Numbered
<1>3. Stop("altrep") \in OutcomeType
  BY StopType DEF Errors
<1> QED BY <1>2, <1>3, GoNothing DEF resume

LEMMA AfterType ==
  ASSUME NEW w \in PassType, w.stack # <<>>, NEW o \in OutcomeType
  PROVE  /\ After(w, o) \in PassType
         /\ After(w, o).st = o.st
         /\ o.st = "run" => /\ After(w, o).stack = o.push \o Tail(w.stack)
                            /\ After(w, o).refs = w.refs \o o.add
<1>1. Tail(w.stack) \in Seq(FrameType) /\ w.refs \in Seq(RefType)
  BY DEF PassType
<1>2. o.push \o Tail(w.stack) \in Seq(FrameType) /\ w.refs \o o.add \in Seq(RefType)
  BY <1>1 DEF OutcomeType
<1>3. CASE o.st = "run"
  BY <1>2, <1>3 DEF After, PassType
<1>4. CASE o.st # "run"
  <2>1. o.st \in Errors
    BY <1>4 DEF OutcomeType, Statuses
  <2>2. Failed(o.st) \in PassType
    BY <2>1 DEF Failed, PassType
  <2> QED BY <1>4, <2>2 DEF After, Failed
<1> QED BY <1>3, <1>4

-----------------------------------------------------------------------------
(* Type correctness. *)

LEMMA TakeType ==
  ASSUME fed \in Nat, NEW w \in PassType, NEW tok \in Token, NEW choice \in BOOLEAN,
         ~Returning(w)
  PROVE  Take(w, tok, choice) \in PassType
<1>1. CASE ~Running(w)
  BY <1>1 DEF Take
<1>2. CASE Running(w)
  <2>1. /\ w.stack \in Seq(FrameType) /\ w.stack # <<>> /\ w.refs \in Seq(RefType)
        /\ Head(w.stack) \in FrameType
    BY <1>2 DEF Running, PassType
  <2>2. Head(w.stack).k \in Calls
    BY <1>2, <2>1 DEF Returning, FrameType
  <2>3. fed + 1 \in Nat
    OBVIOUS
  <2>4. expect(Head(w.stack), tok, w.refs, fed + 1, choice) \in OutcomeType
    BY <2>1, <2>2, <2>3, ExpectType
  <2> QED BY <1>2, <2>1, <2>4, AfterType DEF Take
<1> QED BY <1>1, <1>2

LEMMA ResumedType ==
  ASSUME NEW w \in PassType
  PROVE  Resume(w) \in PassType
<1>1. CASE ~Returning(w)
  BY <1>1 DEF Resume
<1>2. CASE Returning(w)
  <2>1. /\ w.stack \in Seq(FrameType) /\ w.stack # <<>> /\ w.refs \in Seq(RefType)
        /\ Head(w.stack) \in FrameType
    BY <1>2 DEF Returning, Running, PassType
  <2>2. resume(Head(w.stack), w.refs) \in OutcomeType
    BY <2>1, ResumeType
  <2> QED BY <1>2, <2>1, <2>2, AfterType DEF Resume
<1> QED BY <1>1, <1>2

LEMMA StartType ==
  ASSUME NEW f \in FrameType
  PROVE  Start(f) \in PassType
<1>1. <<f>> \in Seq(FrameType)
  OBVIOUS
<1> QED BY <1>1 DEF Start, PassType

LEMMA EofType == Failed("eof") \in PassType
BY DEF Failed, PassType, Errors

LEMMA WriteType ==
  ASSUME TypeOK, NEW tok, Write(tok)
  PROVE  written' \in Seq(RefType) /\ regular' \in BOOLEAN
<1>1. regular' \in BOOLEAN
  BY DEF Write
<1>2. CASE tok.t \in Numbered
  <2>1. [k |-> tok.t, at |-> fed + 1] \in RefType
    BY <1>2 DEF RefType, TypeOK
  <2> QED BY <1>1, <1>2, <2>1 DEF Write, TypeOK
<1>3. CASE tok.t \notin Numbered
  BY <1>1, <1>3 DEF Write, TypeOK
<1> QED BY <1>2, <1>3

LEMMA TypeInit == Init => TypeOK
<1> SUFFICES ASSUME Init PROVE TypeOK
  OBVIOUS
<1>1. full \in PassType
  <2>1. Item("read", 0) \in FrameType
    BY ItemType
  <2> QED BY <2>1, StartType DEF Init
<1>2. part \in PassType
  <2>1. /\ Item("skip", 0) \in FrameType
        /\ Frame("root", "project", 0, 0) \in FrameType
        /\ Frame("root", "first", 0, 0) \in FrameType
    BY FrameMembers
  <2>2. program \in {"skip", "project", "catalog"}
    BY LimitsAssumption DEF Init
  <2>3. CASE program = "skip"
    <3>1. part = Start(Item("skip", 0))
      BY <2>3 DEF Init
    <3> QED BY <2>1, <3>1, StartType
  <2>4. CASE program = "project"
    <3>1. part = Start(Frame("root", "project", 0, 0))
      BY <2>4 DEF Init
    <3> QED BY <2>1, <3>1, StartType
  <2>5. CASE program = "catalog"
    <3>1. part = Start(Frame("root", "first", 0, 0))
      BY <2>5 DEF Init
    <3> QED BY <2>1, <3>1, StartType
  <2> QED BY <2>2, <2>3, <2>4, <2>5
<1>3. written \in Seq(RefType)
  BY DEF Init
<1> QED BY <1>1, <1>2, <1>3 DEF Init, TypeOK

LEMMA TypeNext == TypeOK /\ [Next]_vars => TypeOK'
<1> SUFFICES ASSUME TypeOK, [Next]_vars PROVE TypeOK'
  OBVIOUS
<1>1. full \in PassType /\ part \in PassType /\ fed \in Nat
  BY DEF TypeOK
<1>2. ASSUME NEW tok \in Tokens, NEW choice \in BOOLEAN, Feed(tok, choice)
      PROVE  TypeOK'
  <2>1. tok \in Token
    BY TokensAssumption
  <2>2. full' \in PassType
    BY <1>1, <1>2, <2>1, TakeType DEF Feed
  <2>3. part' \in PassType
    BY <1>1, <1>2, <2>1, TakeType DEF Feed
  <2>4. written' \in Seq(RefType) /\ regular' \in BOOLEAN
    BY <1>2, WriteType DEF Feed
  <2>5. fed' \in Nat /\ program' \in Programs
    BY <1>2 DEF Feed, TypeOK
  <2> QED BY <2>2, <2>3, <2>4, <2>5 DEF TypeOK
<1>3. CASE Return
  BY <1>1, <1>3, ResumedType DEF Return, TypeOK
<1>4. CASE Truncated
  BY <1>1, <1>4, EofType DEF Truncated, TypeOK
<1>5. CASE UNCHANGED vars
  BY <1>5 DEF vars, TypeOK
<1> QED BY <1>2, <1>3, <1>4, <1>5 DEF Next

\* The stacks of both passes only ever hold calls the code can make.
THEOREM TypeCorrect == Spec => []TypeOK
<1> QED BY TypeInit, TypeNext, PTL DEF Spec

-----------------------------------------------------------------------------
(* Both passes make corresponding calls.  deep is TRUE for skip_item, whose *)
(* calls nest at least as deep as those of the full read.                   *)

LEMMA EmptySuffix ==
  ASSUME NEW o \in OutcomeType
  PROVE  Followed(o, <<>>) = o
<1>1. o.push \o <<>> = o.push
  BY DEF OutcomeType
<1> QED BY <1>1 DEF Followed, OutcomeType

LEMMA FollowedAgree ==
  ASSUME NEW F \in OutcomeType, NEW P \in OutcomeType, NEW deep \in BOOLEAN,
         NEW a \in Seq(FrameType), NEW b \in Seq(FrameType),
         Agree(F, P, deep), Aligned(a, b, deep)
  PROVE  Agree(Followed(F, a), Followed(P, b), deep)
<1>1. /\ Followed(F, a).st = F.st /\ Followed(F, a).add = F.add
      /\ F.st = "run" => Followed(F, a).push = F.push \o a
  BY FollowedType
<1>2. /\ Followed(P, b).st = P.st /\ Followed(P, b).add = P.add
      /\ P.st = "run" => Followed(P, b).push = P.push \o b
  BY FollowedType
<1>3. ASSUME F.st = "run", P.st = "run"
      PROVE  /\ Aligned(Followed(F, a).push, Followed(P, b).push, deep)
             /\ F.add = P.add
  <2>1. Aligned(F.push, P.push, deep) /\ F.add = P.add
    BY <1>3 DEF Agree
  <2>2. F.push \in Seq(FrameType) /\ P.push \in Seq(FrameType)
    BY DEF OutcomeType
  <2>3. Aligned(F.push \o a, P.push \o b, deep)
    BY <2>1, <2>2, AlignedConcat
  <2> QED BY <1>1, <1>2, <1>3, <2>1, <2>3
<1> QED BY <1>1, <1>2, <1>3 DEF Agree

LEMMA PairAligned ==
  ASSUME NEW a \in FrameType, NEW b \in FrameType, NEW c \in FrameType,
         NEW e \in FrameType, NEW deep \in BOOLEAN,
         Corresponds(a, b, deep), Corresponds(c, e, deep)
  PROVE  Aligned(<<a, c>>, <<b, e>>, deep)
BY DEF Aligned

LEMMA QuadAligned ==
  ASSUME NEW a \in FrameType, NEW b \in FrameType, NEW c \in FrameType,
         NEW e \in FrameType, NEW g \in FrameType, NEW h \in FrameType,
         NEW x \in FrameType, NEW y \in FrameType, NEW deep \in BOOLEAN,
         Corresponds(a, b, deep), Corresponds(c, e, deep),
         Corresponds(g, h, deep), Corresponds(x, y, deep)
  PROVE  Aligned(<<a, c, g, x>>, <<b, e, h, y>>, deep)
BY DEF Aligned

LEMMA ItemsCorrespond ==
  ASSUME NEW m \in {"read", "skip"}, NEW d \in Nat, NEW e \in Nat, NEW deep \in BOOLEAN,
         deep => d <= e
  PROVE  Corresponds(Item("read", d), Item(m, e), deep)
BY DEF Corresponds, Item, Frame

LEMMA AttributesAligned ==
  ASSUME NEW m \in {"read", "skip", "sel"}, NEW d \in Nat, NEW e \in Nat,
         NEW deep \in BOOLEAN, deep => d <= e /\ m # "sel", NEW tok \in Token
  PROVE  Aligned(Attributes("read", d, tok), Attributes(m, e, tok), deep)
<1>1. /\ Frame("attrs", "read", 0, d) \in FrameType
      /\ Frame("attrs", m, 0, e) \in FrameType
  BY FrameMembers
<1>2. Corresponds(Frame("attrs", "read", 0, d), Frame("attrs", m, 0, e), deep)
  BY DEF Corresponds, Frame
<1>3. Aligned(<<Frame("attrs", "read", 0, d)>>, <<Frame("attrs", m, 0, e)>>, deep)
  BY <1>1, <1>2, AlignedOne
<1> QED BY <1>3, AlignedEmpty DEF Attributes

LEMMA RestAligned ==
  ASSUME NEW m \in {"read", "skip", "scan", "table", "first", "project"}, NEW n \in Nat,
         NEW d \in Nat, NEW e \in Nat, NEW deep \in BOOLEAN,
         deep => d <= e /\ m \in {"read", "skip"}
  PROVE  Aligned(Rest("read", n, d), Rest(m, n, e), deep)
<1>1. CASE n = 0
  BY <1>1, AlignedEmpty DEF Rest
<1>2. CASE n > 0
  <2>1. /\ Frame("rest", "read", n, d) \in FrameType
        /\ Frame("rest", m, n, e) \in FrameType
    BY <1>2, FrameMembers
  <2>2. Corresponds(Frame("rest", "read", n, d), Frame("rest", m, n, e), deep)
    BY <1>2 DEF Corresponds, Frame
  <2>3. Aligned(<<Frame("rest", "read", n, d)>>, <<Frame("rest", m, n, e)>>, deep)
    BY <2>1, <2>2, AlignedOne
  <2> QED BY <1>2, <2>3 DEF Rest
<1> QED BY <1>1, <1>2

LEMMA CellsAligned ==
  ASSUME NEW v \in {"read", "cons"}, NEW w \in {"read", "cons", "skip", "sel"},
         v = "read" => w # "cons", v = "cons" => w \in {"cons", "skip"},
         NEW t \in {"read", "skip"}, NEW u \in {"read", "skip"},
         NEW d \in Nat, NEW e \in Nat, NEW deep \in BOOLEAN,
         deep => d <= e /\ w # "sel", NEW tok \in Token
  PROVE  Aligned(cell(v, "read", "read", d, tok), cell(w, t, u, e, tok), deep)
<1>1. /\ Item("read", d) \in FrameType /\ Frame("next", v, 0, d) \in FrameType
      /\ Item(t, e) \in FrameType /\ Item(u, e) \in FrameType
      /\ Frame("next", w, 0, e) \in FrameType
  BY FrameMembers
<1>2. /\ Corresponds(Item("read", d), Item(t, e), deep)
      /\ Corresponds(Item("read", d), Item(u, e), deep)
  BY ItemsCorrespond
<1>3. Corresponds(Frame("next", v, 0, d), Frame("next", w, 0, e), deep)
  BY DEF Corresponds, Frame
<1>4. Aligned(<<Item("read", d), Frame("next", v, 0, d)>>,
              <<Item(u, e), Frame("next", w, 0, e)>>, deep)
  BY <1>1, <1>2, <1>3, PairAligned
<1>5. Aligned(<<Item("read", d)>>, <<Item(t, e)>>, deep)
  BY <1>1, <1>2, AlignedOne
<1>6. /\ <<Item("read", d)>> \in Seq(FrameType) /\ <<Item(t, e)>> \in Seq(FrameType)
      /\ <<Item("read", d), Frame("next", v, 0, d)>> \in Seq(FrameType)
      /\ <<Item(u, e), Frame("next", w, 0, e)>> \in Seq(FrameType)
  BY <1>1, FewFrames
<1>7. Aligned(<<Item("read", d)>> \o <<Item("read", d), Frame("next", v, 0, d)>>,
              <<Item(t, e)>> \o <<Item(u, e), Frame("next", w, 0, e)>>, deep)
  BY <1>4, <1>5, <1>6, AlignedConcat
<1> QED BY <1>4, <1>7 DEF cell

\* Two outcomes that push aligned calls and register the same agree.
LEMMA GoAgree ==
  ASSUME NEW a, NEW b, NEW deep \in BOOLEAN, Aligned(a, b, deep)
  PROVE  Agree(Go(a), Go(b), deep)
BY DEF Agree, Go

LEMMA StopAgree ==
  ASSUME NEW why \in Errors, NEW deep \in BOOLEAN
  PROVE  Agree(Stop(why), Stop(why), deep)
BY DEF Agree, Stop, Errors

LEMMA RegisterAgree ==
  ASSUME NEW kind, NEW at, NEW refs, NEW a, NEW b, NEW deep \in BOOLEAN,
         Aligned(a, b, deep)
  PROVE  Agree(add_reference(kind, at, refs, a), add_reference(kind, at, refs, b), deep)
BY DEF Agree, add_reference, Register, Stop

LEMMA AltEndsAgree ==
  ASSUME NEW d \in Nat, NEW e \in Nat, NEW n \in Nat, NEW deep \in BOOLEAN,
         deep => d <= e
  PROVE  /\ Corresponds(Frame("altEnd", "read", n, d), Frame("altEnd", "read", n, e), deep)
         /\ Corresponds(Frame("altEnd", "read", n, d), Frame("altEnd", "skip", 0, e), deep)
         /\ Corresponds(Frame("altpart", "read", 0, d), Frame("altpart", "read", 0, e), deep)
         /\ Corresponds(Frame("altpart", "read", 0, d), Item("skip", e), deep)
         /\ Corresponds(Frame("symEnd", "read", n, d), Frame("symEnd", "read", n, e), deep)
BY DEF Corresponds, Frame, Item

\* What both passes do alike: symbols and external pointers.
LEMMA SharedAgree ==
  ASSUME NEW d \in Nat, NEW e \in Nat, NEW deep \in BOOLEAN, deep => d <= e,
         NEW m \in {"read", "skip"}, NEW tok \in Token, NEW refs, NEW at \in Nat
  PROVE  /\ Agree(symbol(d, at), symbol(e, at), deep)
         /\ Agree(extptr("read", d, tok, refs, at), extptr(m, e, tok, refs, at), deep)
         /\ Agree(reference(tok.n, refs), reference(tok.n, refs), deep)
<1>1. /\ Item("read", d) \in FrameType /\ Item("read", e) \in FrameType
      /\ Item(m, e) \in FrameType
      /\ Frame("symEnd", "read", at, d) \in FrameType
      /\ Frame("symEnd", "read", at, e) \in FrameType
  BY FrameMembers
<1>2. /\ Corresponds(Item("read", d), Item("read", e), deep)
      /\ Corresponds(Item("read", d), Item(m, e), deep)
  BY ItemsCorrespond
<1>3. Corresponds(Frame("symEnd", "read", at, d), Frame("symEnd", "read", at, e), deep)
  BY AltEndsAgree
<1>4. Agree(symbol(d, at), symbol(e, at), deep)
  <2>1. Aligned(<<Item("read", d), Frame("symEnd", "read", at, d)>>,
                <<Item("read", e), Frame("symEnd", "read", at, e)>>, deep)
    BY <1>1, <1>2, <1>3, PairAligned
  <2> QED BY <2>1, GoAgree DEF symbol
<1>5. Agree(extptr("read", d, tok, refs, at), extptr(m, e, tok, refs, at), deep)
  <2>1. Aligned(<<Item("read", d), Item("read", d)>>, <<Item(m, e), Item(m, e)>>, deep)
    BY <1>1, <1>2, PairAligned
  <2>2. Aligned(Attributes("read", d, tok), Attributes(m, e, tok), deep)
    BY AttributesAligned
  <2>3. /\ <<Item("read", d), Item("read", d)>> \in Seq(FrameType)
        /\ <<Item(m, e), Item(m, e)>> \in Seq(FrameType)
        /\ Attributes("read", d, tok) \in Seq(FrameType)
        /\ Attributes(m, e, tok) \in Seq(FrameType)
    BY <1>1, FewFrames, AttributesType
  <2>4. Aligned(<<Item("read", d), Item("read", d)>> \o Attributes("read", d, tok),
                <<Item(m, e), Item(m, e)>> \o Attributes(m, e, tok), deep)
    BY <2>1, <2>2, <2>3, AlignedConcat
  <2> QED BY <2>4, RegisterAgree DEF extptr
<1>6. Agree(reference(tok.n, refs), reference(tok.n, refs), deep)
  <2>1. Agree(Go(<<>>), Go(<<>>), deep)
    BY AlignedEmpty, GoAgree
  <2>2. Agree(Stop("ref"), Stop("ref"), deep)
    BY StopAgree DEF Errors
  <2> QED BY <2>1, <2>2 DEF reference
<1> QED BY <1>4, <1>5, <1>6

\* Read at two depths: a structural pass that reads an item in full.
LEMMA ReadReadAgree ==
  ASSUME NEW d \in Nat, NEW e \in Nat, NEW deep \in BOOLEAN, deep => d <= e,
         NEW tok \in Token, NEW refs, NEW at \in Nat
  PROVE  Agree(read_item_from_header(d, tok, refs, at),
               read_item_from_header(e, tok, refs, at), deep)
<1> DEFINE F == read_item_from_header(d, tok, refs, at)
           P == read_item_from_header(e, tok, refs, at)
<1>1. /\ Item("read", d) \in FrameType /\ Item("read", e) \in FrameType
      /\ Corresponds(Item("read", d), Item("read", e), deep)
  BY FrameMembers, ItemsCorrespond
<1>2. /\ Attributes("read", d, tok) \in Seq(FrameType)
      /\ Attributes("read", e, tok) \in Seq(FrameType)
      /\ Aligned(Attributes("read", d, tok), Attributes("read", e, tok), deep)
  BY AttributesType, AttributesAligned
<1>3. tok.t \in Kinds /\ tok.n \in Nat
  BY DEF Token
<1>4. CASE tok.t \in {"nil", "special"}
  <2>1. F = Go(<<>>) /\ P = Go(<<>>)
    BY <1>4, ReadDispatch
  <2> QED BY <2>1, AlignedEmpty, GoAgree
<1>5. CASE tok.t = "ref"
  <2>1. F = reference(tok.n, refs) /\ P = reference(tok.n, refs)
    BY <1>5, ReadDispatch
  <2> QED BY <2>1, SharedAgree
<1>6. CASE tok.t = "sym"
  <2>1. F = symbol(d, at) /\ P = symbol(e, at)
    BY <1>6, ReadDispatch
  <2> QED BY <2>1, SharedAgree
<1>7. CASE tok.t = "extptr"
  <2>1. /\ F = extptr("read", d, tok, refs, at)
        /\ P = extptr("read", e, tok, refs, at)
    BY <1>7, ReadDispatch
  <2> QED BY <2>1, SharedAgree
<1>8. CASE tok.t = "list"
  <2>1. /\ F = Go(cell("read", "read", "read", d, tok))
        /\ P = Go(cell("read", "read", "read", e, tok))
    BY <1>8, ReadDispatch DEF read_pairlist
  <2>2. Aligned(cell("read", "read", "read", d, tok),
                cell("read", "read", "read", e, tok), deep)
    BY CellsAligned
  <2> QED BY <2>1, <2>2, GoAgree
<1>9. CASE tok.t = "altrep"
  <2>1. F = read_altrep(d, tok) /\ P = read_altrep(e, tok)
    BY <1>9, ReadDispatch
  <2>2. PICK n \in Nat : n = IF tok.fits THEN 1 ELSE 0
    OBVIOUS
  <2>3. /\ Frame("altEnd", "read", n, d) \in FrameType
        /\ Frame("altEnd", "read", n, e) \in FrameType
        /\ Frame("altpart", "read", 0, d) \in FrameType
        /\ Frame("altpart", "read", 0, e) \in FrameType
    BY FrameMembers
  <2>4. /\ Corresponds(Frame("altEnd", "read", n, d), Frame("altEnd", "read", n, e), deep)
        /\ Corresponds(Frame("altpart", "read", 0, d),
                       Frame("altpart", "read", 0, e), deep)
    BY AltEndsAgree
  <2>5. Aligned(<<Frame("altpart", "read", 0, d), Frame("altpart", "read", 0, d),
                  Item("read", d), Frame("altEnd", "read", n, d)>>,
                <<Frame("altpart", "read", 0, e), Frame("altpart", "read", 0, e),
                  Item("read", e), Frame("altEnd", "read", n, e)>>, deep)
    BY <1>1, <2>3, <2>4 DEF Aligned
  <2> QED BY <2>1, <2>2, <2>5, GoAgree DEF read_altrep
<1>10. CASE tok.t = "env"
  <2>1. F = read_environment(d, refs, at) /\ P = read_environment(e, refs, at)
    BY <1>10, ReadDispatch
  <2>2. Aligned(<<Item("read", d), Item("read", d), Item("read", d), Item("read", d)>>,
                <<Item("read", e), Item("read", e), Item("read", e), Item("read", e)>>,
                deep)
    BY <1>1, QuadAligned
  <2> QED BY <2>1, <2>2, RegisterAgree DEF read_environment
<1>11. CASE tok.t = "ns"
  <2>1. F = read_namespace_spec(refs, at) /\ P = read_namespace_spec(refs, at)
    BY <1>11, ReadDispatch
  <2> QED BY <2>1, AlignedEmpty, RegisterAgree DEF read_namespace_spec
<1>12. CASE tok.t = "s4" \/ (tok.t = "leaf" /\ tok.fits)
  <2>1. F = Go(Attributes("read", d, tok)) /\ P = Go(Attributes("read", e, tok))
    BY <1>12, ReadDispatch
  <2> QED BY <1>2, <2>1, GoAgree
<1>13. CASE tok.t = "vec" /\ tok.fits
  <2>1. /\ F = Go(Rest("read", tok.n, d) \o Attributes("read", d, tok))
        /\ P = Go(Rest("read", tok.n, e) \o Attributes("read", e, tok))
    BY <1>13, ReadDispatch
  <2>2. /\ Rest("read", tok.n, d) \in Seq(FrameType)
        /\ Rest("read", tok.n, e) \in Seq(FrameType)
        /\ Aligned(Rest("read", tok.n, d), Rest("read", tok.n, e), deep)
    BY <1>3, RestType, RestAligned
  <2>3. Aligned(Rest("read", tok.n, d) \o Attributes("read", d, tok),
                Rest("read", tok.n, e) \o Attributes("read", e, tok), deep)
    BY <1>2, <2>2, AlignedConcat
  <2> QED BY <2>1, <2>3, GoAgree
<1>14. CASE tok.t = "other" \/ (tok.t \in {"leaf", "vec"} /\ ~tok.fits)
  <2>1. PICK why \in {"type", "alloc"} : F = Stop(why) /\ P = Stop(why)
    BY <1>14, ReadDispatch
  <2> QED BY <2>1, StopAgree DEF Errors
<1> QED
  BY <1>3, <1>4, <1>5, <1>6, <1>7, <1>8, <1>9, <1>10, <1>11, <1>12, <1>13, <1>14
     DEF Kinds

\* skip_item against read_item: the heart of the matter, kind by kind.
LEMMA ReadSkipAgree ==
  ASSUME NEW d \in Nat, NEW e \in Nat, NEW deep \in BOOLEAN, deep => d <= e,
         NEW tok \in Token, NEW refs, NEW at \in Nat
  PROVE  Agree(read_item_from_header(d, tok, refs, at),
               skip_item_from_header(e, tok, refs, at), deep)
<1> DEFINE F == read_item_from_header(d, tok, refs, at)
           P == skip_item_from_header(e, tok, refs, at)
<1>1. /\ Item("read", d) \in FrameType /\ Item("skip", e) \in FrameType
      /\ Corresponds(Item("read", d), Item("skip", e), deep)
  BY FrameMembers, ItemsCorrespond
<1>2. /\ Attributes("read", d, tok) \in Seq(FrameType)
      /\ Attributes("skip", e, tok) \in Seq(FrameType)
      /\ Aligned(Attributes("read", d, tok), Attributes("skip", e, tok), deep)
  BY AttributesType, AttributesAligned
<1>3. tok.t \in Kinds /\ tok.n \in Nat
  BY DEF Token
<1>4. CASE tok.t = "nil"
  <2>1. F = Go(<<>>) /\ P = Go(<<>>)
    BY <1>4, ReadDispatch, SkipDispatch
  <2> QED BY <2>1, AlignedEmpty, GoAgree
<1>5. CASE tok.t = "ref"
  <2>1. F = reference(tok.n, refs)
    BY <1>5, ReadDispatch
  <2>2. P = reference(tok.n, refs)
    BY <1>5 DEF skip_item_from_header
  <2> QED BY <2>1, <2>2, SharedAgree
<1>6. CASE tok.t = "sym"
  <2>1. F = symbol(d, at)
    BY <1>6, ReadDispatch
  <2>2. P = symbol(e, at)
    BY <1>6, SkipDispatch
  <2> QED BY <2>1, <2>2, SharedAgree
<1>7. CASE tok.t = "extptr"
  <2>1. F = extptr("read", d, tok, refs, at)
    BY <1>7, ReadDispatch
  <2>2. P = extptr("skip", e, tok, refs, at)
    BY <1>7, SkipDispatch
  <2> QED BY <2>1, <2>2, SharedAgree
<1>8. CASE tok.t = "list"
  <2>1. F = Go(cell("read", "read", "read", d, tok))
    BY <1>8, ReadDispatch DEF read_pairlist
  <2>2. P = Go(cell("skip", "skip", "skip", e, tok))
    BY <1>8, SkipDispatch DEF skip_pairlist
  <2>3. Aligned(cell("read", "read", "read", d, tok),
                cell("skip", "skip", "skip", e, tok), deep)
    BY CellsAligned
  <2> QED BY <2>1, <2>2, <2>3, GoAgree
<1>9. CASE tok.t = "altrep"
  <2>1. F = read_altrep(d, tok)
    BY <1>9, ReadDispatch
  <2>2. P = Go(<<Item("skip", e), Item("skip", e), Item("skip", e),
                 Frame("altEnd", "skip", 0, e)>>)
    BY <1>9, SkipDispatch
  <2>3. PICK n \in Nat : n = IF tok.fits THEN 1 ELSE 0
    OBVIOUS
  <2>4. /\ Corresponds(Frame("altEnd", "read", n, d), Frame("altEnd", "skip", 0, e), deep)
        /\ Corresponds(Frame("altpart", "read", 0, d), Item("skip", e), deep)
    BY AltEndsAgree
  <2>5. Aligned(<<Frame("altpart", "read", 0, d), Frame("altpart", "read", 0, d),
                  Item("read", d), Frame("altEnd", "read", n, d)>>,
                <<Item("skip", e), Item("skip", e), Item("skip", e),
                  Frame("altEnd", "skip", 0, e)>>, deep)
    BY <1>1, <2>4 DEF Aligned
  <2> QED BY <2>1, <2>2, <2>3, <2>5, GoAgree DEF read_altrep
<1>10. CASE tok.t \in {"env", "s4", "ns", "special"}
  <2>1. P = read_item_from_header(e, tok, refs, at)
    BY <1>10, SkipDelegates
  <2> QED BY <2>1, ReadReadAgree
<1>11. CASE tok.t = "leaf" /\ tok.fits
  <2>1. F = Go(Attributes("read", d, tok))
    BY <1>11, ReadDispatch
  <2>2. P = Go(Attributes("skip", e, tok))
    BY <1>11, SkipDispatch
  <2> QED BY <1>2, <2>1, <2>2, GoAgree
<1>12. CASE tok.t = "vec" /\ tok.fits
  <2>1. F = Go(Rest("read", tok.n, d) \o Attributes("read", d, tok))
    BY <1>12, ReadDispatch
  <2>2. P = Go(Rest("skip", tok.n, e) \o Attributes("skip", e, tok))
    BY <1>12, SkipDispatch
  <2>3. /\ Rest("read", tok.n, d) \in Seq(FrameType)
        /\ Rest("skip", tok.n, e) \in Seq(FrameType)
        /\ Aligned(Rest("read", tok.n, d), Rest("skip", tok.n, e), deep)
    BY <1>3, RestType, RestAligned
  <2>4. Aligned(Rest("read", tok.n, d) \o Attributes("read", d, tok),
                Rest("skip", tok.n, e) \o Attributes("skip", e, tok), deep)
    BY <1>2, <2>3, AlignedConcat
  <2> QED BY <2>1, <2>2, <2>4, GoAgree
<1>13. CASE tok.t \in {"leaf", "vec"} /\ ~tok.fits
  \* The reader refuses what the structural pass need not allocate.
  <2>1. F.st = "alloc"
    BY <1>13, ReadDispatch DEF Stop
  <2> QED BY <2>1 DEF Agree
<1>14. CASE tok.t = "other"
  <2>1. F = Stop("type")
    BY <1>14, ReadDispatch
  <2>2. P = Stop("type")
    BY <1>14, SkipDispatch
  <2> QED BY <2>1, <2>2, StopAgree DEF Errors
<1> QED
  BY <1>3, <1>4, <1>5, <1>6, <1>7, <1>8, <1>9, <1>10, <1>11, <1>12, <1>13, <1>14
     DEF Kinds

LEMMA CallAgree ==
  ASSUME NEW m \in {"read", "skip"}, NEW d \in Nat, NEW e \in Nat,
         NEW deep \in BOOLEAN, deep => d <= e,
         NEW tok \in Token, NEW refs \in Seq(RefType), NEW at \in Nat
  PROVE  Agree(call("read", d, tok, refs, at), call(m, e, tok, refs, at), deep)
<1>1. d + 1 \in Nat /\ e + 1 \in Nat /\ (deep => d + 1 <= e + 1)
  OBVIOUS
<1>2. CASE d + 1 > MaxDepth
  <2>1. call("read", d, tok, refs, at) = Stop("depth")
    BY <1>2, CallType
  <2>2. deep => call(m, e, tok, refs, at) = Stop("depth")
    <3>1. deep => e + 1 > MaxDepth
      BY <1>1, <1>2, LimitsAssumption
    <3> QED BY <3>1, CallType
  <2> QED BY <2>1, <2>2 DEF Agree, Stop
<1>3. CASE e + 1 > MaxDepth
  <2>1. call(m, e, tok, refs, at) = Stop("depth")
    BY <1>3, CallType
  <2> QED BY <2>1 DEF Agree, Stop
<1>4. CASE d + 1 <= MaxDepth /\ e + 1 <= MaxDepth
  <2>1. call("read", d, tok, refs, at) = read_item_from_header(d + 1, tok, refs, at)
    BY <1>4, CallType
  <2>2. CASE m = "read"
    <3>1. call(m, e, tok, refs, at) = read_item_from_header(e + 1, tok, refs, at)
      BY <1>4, <2>2, CallType
    <3> QED BY <1>1, <2>1, <3>1, ReadReadAgree
  <2>3. CASE m = "skip"
    <3>1. call(m, e, tok, refs, at) = skip_item_from_header(e + 1, tok, refs, at)
      BY <1>4, <2>3, CallType
    <3> QED BY <1>1, <2>1, <3>1, ReadSkipAgree
  <2> QED BY <2>2, <2>3
<1> QED BY <1>1, <1>2, <1>3, <1>4, LimitsAssumption

-----------------------------------------------------------------------------
(* The scans of _scan.py: payload skipped first, attributes read after.     *)

LEMMA FollowedGo ==
  ASSUME NEW a, NEW b
  PROVE  Followed(Go(a), b) = Go(a \o b)
BY DEF Followed, Go

LEMMA FollowedRegister ==
  ASSUME NEW kind, NEW at, NEW refs, NEW a, NEW b
  PROVE  Followed(add_reference(kind, at, refs, a), b)
           = add_reference(kind, at, refs, a \o b)
<1> DEFINE ref == [k |-> kind, at |-> at]
<1>1. CASE Len(refs) >= MaxRefs
  BY <1>1 DEF Followed, add_reference, Stop
<1>2. CASE ~(Len(refs) >= MaxRefs)
  <2>1. /\ add_reference(kind, at, refs, a) = Register(ref, a)
        /\ add_reference(kind, at, refs, a \o b) = Register(ref, a \o b)
    BY <1>2 DEF add_reference
  <2> HIDE DEF ref
  <2>2. Followed(Register(ref, a), b) = Register(ref, a \o b)
    BY DEF Followed, Register
  <2> QED BY <2>1, <2>2
<1> QED BY <1>1, <1>2

LEMMA FollowedStop ==
  ASSUME NEW why \in Errors, NEW a
  PROVE  Followed(Stop(why), a) = Stop(why)
BY DEF Followed, Stop, Errors

\* A depth limit met on one side only is policy, unless P nests as deep.
LEMMA DepthAgree ==
  ASSUME NEW X, NEW deep \in BOOLEAN, ~deep
  PROVE  Agree(Stop("depth"), X, deep) /\ Agree(X, Stop("depth"), deep)
BY DEF Agree, Stop

\* What carries attributes is its bare payload, followed by the attributes.
LEMMA ReadStrip ==
  ASSUME NEW d \in Nat, NEW tok \in Token, tok.attr => tok.t \in Attributed,
         NEW refs \in Seq(RefType), NEW at \in Nat
  PROVE  read_item_from_header(d, tok, refs, at)
           = Followed(read_item_from_header(d, Bare(tok), refs, at),
                      Attributes("read", d, tok))
<1> DEFINE F == read_item_from_header(d, tok, refs, at)
           B == read_item_from_header(d, Bare(tok), refs, at)
           A == Attributes("read", d, tok)
<1>1. /\ Bare(tok) \in Token /\ Bare(tok).t = tok.t /\ Bare(tok).n = tok.n
      /\ Bare(tok).fits = tok.fits /\ Attributes("read", d, Bare(tok)) = <<>>
  BY DEF Bare, Token, Attributes
<1>2. A \in Seq(FrameType) /\ B \in OutcomeType
  BY <1>1, AttributesType, ReadType
<1>3. CASE ~tok.attr
  <2>1. Bare(tok) = tok /\ A = <<>>
    BY <1>3 DEF Bare, Token, Attributes
  <2> QED BY <1>2, <2>1, EmptySuffix
<1>4. CASE tok.attr /\ (tok.t = "s4" \/ (tok.t = "leaf" /\ tok.fits))
  <2>1. F = Go(A)
    BY <1>4, ReadDispatch
  <2>2. B = Go(<<>>)
    BY <1>1, <1>4, ReadDispatch
  <2>3. <<>> \o A = A
    BY <1>2
  <2>4. Followed(Go(<<>>), A) = Go(<<>> \o A)
    BY FollowedGo
  <2> QED BY <2>1, <2>2, <2>3, <2>4
<1>5. CASE tok.attr /\ tok.t = "vec" /\ tok.fits
  <2>1. F = Go(Rest("read", tok.n, d) \o A)
    BY <1>5, ReadDispatch
  <2>2. B = Go(Rest("read", Bare(tok).n, d) \o Attributes("read", d, Bare(tok)))
    <3>1. PICK bare : bare = Bare(tok)
      OBVIOUS
    <3>2. bare.t = "vec" /\ bare.fits
      BY <1>1, <1>5, <3>1
    <3>3. read_item_from_header(d, bare, refs, at)
            = Go(Rest("read", bare.n, d) \o Attributes("read", d, bare))
      BY <3>2, ReadDispatch
    <3> QED BY <3>1, <3>3
  <2>3. Rest("read", tok.n, d) \in Seq(FrameType)
    BY RestType DEF Token
  <2>4. B = Go(Rest("read", tok.n, d))
    <3>1. Rest("read", tok.n, d) \o <<>> = Rest("read", tok.n, d)
      BY <2>3
    <3> QED BY <1>1, <2>2, <3>1
  <2>5. Followed(Go(Rest("read", tok.n, d)), A) = Go(Rest("read", tok.n, d) \o A)
    BY FollowedGo
  <2> QED BY <2>1, <2>4, <2>5
<1>6. CASE tok.attr /\ tok.t \in {"leaf", "vec"} /\ ~tok.fits
  <2>1. F = Stop("alloc") /\ B = Stop("alloc")
    BY <1>1, <1>6, ReadDispatch
  <2> QED BY <2>1, FollowedStop DEF Errors
<1>7. CASE tok.attr /\ tok.t = "extptr"
  <2> DEFINE X == <<Item("read", d), Item("read", d)>>
  <2>1. F = add_reference("extptr", at, refs, X \o A)
    BY <1>7, ReadDispatch DEF extptr
  <2>2. B = add_reference("extptr", at, refs, X \o <<>>)
    BY <1>1, <1>7, ReadDispatch DEF extptr
  <2>3. X \in Seq(FrameType)
    BY ItemType, FewFrames
  <2>4. X \o <<>> = X
    BY <2>3
  <2>5. Followed(add_reference("extptr", at, refs, X), A)
          = add_reference("extptr", at, refs, X \o A)
    BY FollowedRegister
  <2> QED BY <2>1, <2>2, <2>4, <2>5
<1> QED BY <1>3, <1>4, <1>5, <1>6, <1>7 DEF Attributed, Token

LEMMA ScanColumnAgree ==
  ASSUME NEW d \in Nat, NEW e \in Nat, NEW tok \in Token,
         tok.attr => tok.t \in Attributed, NEW refs \in Seq(RefType), NEW at \in Nat,
         NEW deep \in BOOLEAN, ~deep
  PROVE  Agree(call("read", d, tok, refs, at),
               scan_column_from_header(e, tok, refs, at), deep)
<1> DEFINE P == call("skip", e, Bare(tok), refs, at)
           S == Attributes("sel", e, tok)
<1>1. scan_column_from_header(e, tok, refs, at) = Followed(P, S)
  BY DEF scan_column_from_header, Bare
<1>2. Bare(tok) \in Token /\ d + 1 \in Nat /\ e + 1 \in Nat
  BY ScanTypes
<1>3. P \in OutcomeType /\ S \in Seq(FrameType)
  BY <1>2, CallType, AttributesType
<1>4. CASE d + 1 > MaxDepth
  <2>1. call("read", d, tok, refs, at) = Stop("depth")
    BY <1>4, CallType
  <2> QED BY <2>1, DepthAgree
<1>5. CASE e + 1 > MaxDepth
  <2>1. P = Stop("depth")
    BY <1>2, <1>5, CallType
  <2>2. Followed(P, S) = Stop("depth")
    BY <2>1, FollowedStop DEF Errors
  <2> QED BY <1>1, <2>2, DepthAgree
<1>6. CASE d + 1 <= MaxDepth /\ e + 1 <= MaxDepth
  <2> DEFINE B == read_item_from_header(d + 1, Bare(tok), refs, at)
             A == Attributes("read", d + 1, tok)
  <2>1. call("read", d, tok, refs, at) = Followed(B, A)
    <3>1. call("read", d, tok, refs, at) = read_item_from_header(d + 1, tok, refs, at)
      BY <1>6, CallType
    <3> QED BY <1>2, <3>1, ReadStrip
  <2>2. P = skip_item_from_header(e + 1, Bare(tok), refs, at)
    BY <1>2, <1>6, CallType
  <2>3. Agree(B, P, deep)
    BY <1>2, <2>2, ReadSkipAgree
  <2>4. B \in OutcomeType /\ A \in Seq(FrameType)
    BY <1>2, ReadType, AttributesType
  <2>5. Aligned(A, S, deep)
    BY <1>2, AttributesAligned
  <2>6. Agree(Followed(B, A), Followed(P, S), deep)
    BY <1>3, <2>3, <2>4, <2>5, FollowedAgree
  <2> QED BY <1>1, <2>1, <2>6
<1> QED BY <1>2, <1>4, <1>5, <1>6, LimitsAssumption

LEMMA ScanVectorAgree ==
  ASSUME NEW d \in Nat, NEW e \in Nat, NEW tok \in Token,
         tok.attr => tok.t \in Attributed, NEW refs \in Seq(RefType), NEW at \in Nat,
         NEW deep \in BOOLEAN, ~deep
  PROVE  Agree(call("read", d, tok, refs, at),
               scan_vector_from_header(e, tok, refs, at), deep)
<1> DEFINE C == call("read", d, tok, refs, at)
           V == scan_vector_from_header(e, tok, refs, at)
<1>1. CASE tok.t # "vec"
  <2>1. V = scan_column_from_header(e, tok, refs, at)
    BY <1>1 DEF scan_vector_from_header
  <2> QED BY <2>1, ScanColumnAgree
<1>2. CASE tok.t = "vec"
  <2>1. V = Go(Rest("scan", tok.n, e) \o Attributes("sel", e, tok))
    BY <1>2 DEF scan_vector_from_header
  <2>2. d + 1 \in Nat /\ tok.n \in Nat
    BY DEF Token
  <2>3. CASE d + 1 > MaxDepth
    <3>1. C = Stop("depth")
      BY <2>3, CallType
    <3> QED BY <3>1, DepthAgree
  <2>4. CASE d + 1 <= MaxDepth /\ ~tok.fits
    <3>1. C = read_item_from_header(d + 1, tok, refs, at)
      BY <2>4, CallType
    <3>2. C.st = "alloc"
      BY <1>2, <2>4, <3>1, ReadDispatch DEF Stop
    <3> QED BY <3>2 DEF Agree
  <2>5. CASE d + 1 <= MaxDepth /\ tok.fits
    <3>1. C = read_item_from_header(d + 1, tok, refs, at)
      BY <2>5, CallType
    <3>2. C = Go(Rest("read", tok.n, d + 1) \o Attributes("read", d + 1, tok))
      BY <1>2, <2>5, <3>1, ReadDispatch
    <3>3. /\ Rest("read", tok.n, d + 1) \in Seq(FrameType)
          /\ Rest("scan", tok.n, e) \in Seq(FrameType)
          /\ Aligned(Rest("read", tok.n, d + 1), Rest("scan", tok.n, e), deep)
      BY <2>2, RestType, RestAligned
    <3>4. /\ Attributes("read", d + 1, tok) \in Seq(FrameType)
          /\ Attributes("sel", e, tok) \in Seq(FrameType)
          /\ Aligned(Attributes("read", d + 1, tok), Attributes("sel", e, tok), deep)
      BY <2>2, AttributesType, AttributesAligned
    <3>5. Aligned(Rest("read", tok.n, d + 1) \o Attributes("read", d + 1, tok),
                  Rest("scan", tok.n, e) \o Attributes("sel", e, tok), deep)
      BY <3>3, <3>4, AlignedConcat
    <3> QED BY <2>1, <3>2, <3>5, GoAgree
  <2> QED BY <2>2, <2>3, <2>4, <2>5, LimitsAssumption
<1> QED BY <1>1, <1>2

LEMMA ItemAgree ==
  ASSUME NEW m \in {"read", "skip", "scan", "table", "first"}, NEW d \in Nat, NEW e \in Nat,
         NEW deep \in BOOLEAN, deep => d <= e /\ m \in {"read", "skip"},
         NEW tok \in Token, tok.attr => tok.t \in Attributed,
         NEW refs \in Seq(RefType), NEW at \in Nat
  PROVE  Agree(call("read", d, tok, refs, at), item(m, e, tok, refs, at), deep)
<1>1. CASE m \in {"read", "skip"}
  <2>1. item(m, e, tok, refs, at) = call(m, e, tok, refs, at)
    BY <1>1, ItemWalkType
  <2>2. Agree(call("read", d, tok, refs, at), call(m, e, tok, refs, at), deep)
    BY <1>1, CallAgree
  <2> QED BY <2>1, <2>2
<1>2. CASE m = "scan"
  <2>1. item(m, e, tok, refs, at) = scan_column_from_header(e, tok, refs, at)
    BY <1>2, ItemWalkType
  <2>2. ~deep
    BY <1>2
  <2> QED BY <2>1, <2>2, ScanColumnAgree
<1>3. CASE m \in {"table", "first"}
  <2>1. item(m, e, tok, refs, at) = scan_vector_from_header(e, tok, refs, at)
    BY <1>3, ItemWalkType
  <2>2. ~deep
    BY <1>3
  <2> QED BY <2>1, <2>2, ScanVectorAgree
<1> QED BY <1>1, <1>2, <1>3

-----------------------------------------------------------------------------
(* Call by call.  Before: the calls that await the header correspond.       *)

LEMMA ElementAgree ==
  ASSUME NEW F \in FrameType, NEW P \in FrameType, NEW deep \in BOOLEAN,
         F.k = "rest", P.k = "rest", Corresponds(F, P, deep),
         NEW tok \in Token, tok.attr => tok.t \in Attributed,
         NEW refs \in Seq(RefType), NEW at \in Nat, NEW choice \in BOOLEAN
  PROVE  Agree(element(F, tok, refs, at, FALSE), element(P, tok, refs, at, choice), deep)
<1>1. /\ F.m = "read" /\ F.n = P.n /\ F.n > 0
      /\ P.m \in {"read", "skip", "scan", "table", "first", "project"}
      /\ deep => F.d <= P.d /\ P.m \in {"read", "skip"}
  BY DEF Corresponds
<1>2. F.d \in Nat /\ P.d \in Nat /\ F.n \in Nat
  BY DEF FrameType
<1>3. Here(F, FALSE) = "read" /\ Later(F, tok, FALSE) = "read"
  BY <1>1 DEF Here, Later
<1>4. /\ Here(P, choice) \in {"read", "skip", "scan", "table", "first"}
      /\ deep => Here(P, choice) \in {"read", "skip"}
  BY <1>1 DEF Here
<1>5. /\ Later(P, tok, choice) \in {"read", "skip", "scan", "table", "first", "project"}
      /\ deep => Later(P, tok, choice) \in {"read", "skip"}
  BY <1>1 DEF Later
<1> DEFINE X == item("read", F.d, tok, refs, at)
           Y == item(Here(P, choice), P.d, tok, refs, at)
           A == Rest("read", F.n - 1, F.d)
           B == Rest(Later(P, tok, choice), P.n - 1, P.d)
<1>6. /\ element(F, tok, refs, at, FALSE) = Followed(X, A)
      /\ X \in OutcomeType /\ A \in Seq(FrameType)
  <2>1. FALSE \in BOOLEAN
    OBVIOUS
  <2> QED BY <1>3, <2>1, ElementType
<1>7. /\ element(P, tok, refs, at, choice) = Followed(Y, B)
      /\ Y \in OutcomeType /\ B \in Seq(FrameType)
  BY ElementType
<1>8. Agree(X, Y, deep)
  <2>1. X = call("read", F.d, tok, refs, at)
    BY <1>2, ItemWalkType
  <2>2. PICK m \in {"read", "skip", "scan", "table", "first"} :
          m = Here(P, choice) /\ (deep => m \in {"read", "skip"})
    BY <1>4
  <2>3. PICK d \in Nat, e \in Nat : d = F.d /\ e = P.d /\ (deep => d <= e)
    BY <1>1, <1>2
  <2>4. Agree(call("read", d, tok, refs, at), item(m, e, tok, refs, at), deep)
    BY <2>2, <2>3, ItemAgree
  <2> QED BY <2>1, <2>2, <2>3, <2>4
<1>9. Aligned(A, B, deep)
  <2>1. F.n - 1 \in Nat /\ P.n - 1 = F.n - 1
    BY <1>1, <1>2
  <2>2. Aligned(A, Rest(Later(P, tok, choice), F.n - 1, P.d), deep)
    BY <1>1, <1>2, <1>5, <2>1, RestAligned
  <2> QED BY <2>1, <2>2
<1>10. Agree(Followed(X, A), Followed(Y, B), deep)
  <2> HIDE DEF X, Y, A, B
  <2> QED BY <1>6, <1>7, <1>8, <1>9, FollowedAgree
<1> QED BY <1>6, <1>7, <1>10

\* The root: an ordinary list to the full read, opened outside any depth by
\* the structural passes, which accept nothing else.
LEMMA RootAgree ==
  ASSUME NEW m \in {"project", "first"}, NEW d \in Nat, NEW e \in Nat,
         NEW deep \in BOOLEAN, ~deep, NEW tok \in Token,
         NEW refs \in Seq(RefType), NEW at \in Nat
  PROVE  Agree(call("read", d, tok, refs, at), root(m, e, tok), deep)
<1> DEFINE C == call("read", d, tok, refs, at)
<1>1. d + 1 \in Nat /\ tok.n \in Nat
  BY DEF Token
<1>2. CASE ~(tok.t = "vec" /\ tok.n > 0)
  <2>1. root(m, e, tok) = Stop("root")
    BY <1>2 DEF root
  <2> QED BY <2>1 DEF Agree, Stop
<1>3. CASE d + 1 > MaxDepth
  <2>1. C = Stop("depth")
    BY <1>3, CallType
  <2> QED BY <2>1, DepthAgree
<1>4. CASE tok.t = "vec" /\ tok.n > 0 /\ d + 1 <= MaxDepth
  <2>1. C = read_item_from_header(d + 1, tok, refs, at)
    BY <1>4, CallType
  <2>2. CASE ~tok.fits
    <3>1. read_item_from_header(d + 1, tok, refs, at) = Stop("alloc")
      BY <1>4, <2>2, ReadDispatch
    <3>2. C.st = "alloc"
      BY <2>1, <3>1 DEF Stop
    <3> QED BY <3>2 DEF Agree
  <2>3. CASE tok.fits
    <3>1. C = Go(Rest("read", tok.n, d + 1) \o Attributes("read", d + 1, tok))
      BY <1>4, <2>1, <2>3, ReadDispatch
    <3>2. root(m, e, tok) = Go(Rest(m, tok.n, e) \o Attributes("read", e, tok))
      BY <1>4 DEF root
    <3>3. /\ Rest("read", tok.n, d + 1) \in Seq(FrameType)
          /\ Rest(m, tok.n, e) \in Seq(FrameType)
          /\ Aligned(Rest("read", tok.n, d + 1), Rest(m, tok.n, e), deep)
      BY <1>1, RestType, RestAligned
    <3>4. /\ Attributes("read", d + 1, tok) \in Seq(FrameType)
          /\ Attributes("read", e, tok) \in Seq(FrameType)
          /\ Aligned(Attributes("read", d + 1, tok), Attributes("read", e, tok), deep)
      BY <1>1, AttributesType, AttributesAligned
    <3>5. Aligned(Rest("read", tok.n, d + 1) \o Attributes("read", d + 1, tok),
                  Rest(m, tok.n, e) \o Attributes("read", e, tok), deep)
      BY <3>3, <3>4, AlignedConcat
    <3> QED BY <3>1, <3>2, <3>5, GoAgree
  <2> QED BY <2>2, <2>3
<1> QED BY <1>1, <1>2, <1>3, <1>4, LimitsAssumption

\* A part of an ALTREP object that is a bare cons chain: read_altrep walks it
\* in place, skip_item calls itself on it, one level deeper.
LEMMA ConsAgree ==
  ASSUME NEW d \in Nat, NEW e \in Nat, NEW deep \in BOOLEAN, deep => d <= e,
         NEW tok \in Token, tok.t = "list", NEW refs \in Seq(RefType), NEW at \in Nat
  PROVE  Agree(Go(read_cons_chain(d, tok)), call("skip", e, tok, refs, at), deep)
<1>1. e + 1 \in Nat /\ (deep => d <= e + 1)
  OBVIOUS
<1>2. CASE e + 1 > MaxDepth
  <2>1. call("skip", e, tok, refs, at) = Stop("depth")
    BY <1>2, CallType
  <2> QED BY <2>1 DEF Agree, Stop, Go
<1>3. CASE e + 1 <= MaxDepth
  <2>1. call("skip", e, tok, refs, at) = skip_item_from_header(e + 1, tok, refs, at)
    BY <1>3, CallType
  <2>2. call("skip", e, tok, refs, at) = Go(cell("skip", "skip", "skip", e + 1, tok))
    BY <2>1, SkipDispatch DEF skip_pairlist
  <2>3. Aligned(cell("cons", "read", "read", d, tok),
                cell("skip", "skip", "skip", e + 1, tok), deep)
    BY <1>1, CellsAligned
  <2> QED BY <2>2, <2>3, GoAgree DEF read_cons_chain
<1> QED BY <1>1, <1>2, <1>3, LimitsAssumption

LEMMA TailAgree ==
  ASSUME NEW F \in FrameType, NEW P \in FrameType, NEW deep \in BOOLEAN,
         F.k = "next", P.k = "next", Corresponds(F, P, deep),
         NEW tok \in Token, NEW refs \in Seq(RefType), NEW at \in Nat
  PROVE  Agree(tail(F, tok, refs, at), tail(P, tok, refs, at), deep)
<1>1. F.d \in Nat /\ P.d \in Nat /\ (deep => F.d <= P.d)
  BY DEF FrameType, Corresponds
<1>2. CASE F.m = "read"
  <2>1. tail(F, tok, refs, at) = Stop("dotted")
    BY <1>2 DEF tail
  <2> QED BY <2>1 DEF Agree, Stop
<1>3. CASE F.m = "cons"
  <2>1. P.m \in {"cons", "skip"}
    BY <1>3 DEF Corresponds
  <2>2. tail(F, tok, refs, at) = call("read", F.d, tok, refs, at)
    BY <1>3 DEF tail
  <2>3. CASE P.m = "cons"
    <3>1. tail(P, tok, refs, at) = call("read", P.d, tok, refs, at)
      BY <2>3 DEF tail
    <3> QED BY <1>1, <2>2, <3>1, CallAgree
  <2>4. CASE P.m = "skip"
    <3>1. tail(P, tok, refs, at) = call("skip", P.d, tok, refs, at)
      BY <2>4 DEF tail
    <3> QED BY <1>1, <2>2, <3>1, CallAgree
  <2> QED BY <2>1, <2>3, <2>4
<1> QED BY <1>2, <1>3 DEF Corresponds

LEMMA PairlistAgree ==
  ASSUME NEW F \in FrameType, NEW P \in FrameType, NEW deep \in BOOLEAN,
         F.k \in {"attrs", "next"}, P.k = F.k, Corresponds(F, P, deep),
         NEW tok \in Token, NEW any, NEW keep \in BOOLEAN
  PROVE  Agree(Go(pairlist(F.m, F.d, tok, any)), Go(pairlist(P.m, P.d, tok, keep)), deep)
<1>1. PICK v \in {"read", "cons"}, w \in {"read", "cons", "skip", "sel"},
           d \in Nat, e \in Nat :
        /\ v = F.m /\ w = P.m /\ d = F.d /\ e = P.d
        /\ v = "read" => w # "cons"
        /\ v = "cons" => w \in {"cons", "skip"}
        /\ deep => d <= e /\ w # "sel"
  BY DEF Corresponds, FrameType
<1>2. pairlist(v, d, tok, any) = cell(v, "read", "read", d, tok)
  BY PairlistDispatch
<1>3. PICK t \in {"read", "skip"}, u \in {"read", "skip"} :
        pairlist(w, e, tok, keep) = cell(w, t, u, e, tok)
  <2>1. CASE w \in {"read", "cons"}
    BY <2>1, PairlistDispatch
  <2>2. CASE w = "skip"
    BY <2>2, PairlistDispatch
  <2>3. CASE w = "sel"
    <3>1. pairlist(w, e, tok, keep)
            = cell(w, "read", IF tok.tag /\ keep THEN "read" ELSE "skip", e, tok)
      BY <2>3, PairlistDispatch
    <3> QED BY <3>1
  <2> QED BY <2>1, <2>2, <2>3
<1>4. Aligned(cell(v, "read", "read", d, tok), cell(w, t, u, e, tok), deep)
  <2>1. CASE v = "read"
    <3>1. /\ w \in {"read", "cons", "skip", "sel"} /\ w # "cons"
          /\ t \in {"read", "skip"} /\ u \in {"read", "skip"}
          /\ d \in Nat /\ e \in Nat /\ (deep => d <= e /\ w # "sel")
      BY <1>1, <1>3, <2>1
    <3>2. Aligned(cell("read", "read", "read", d, tok), cell(w, t, u, e, tok), deep)
      BY <3>1, CellsAligned
    <3> QED BY <2>1, <3>2
  <2>2. CASE v = "cons"
    <3>1. w \in {"cons", "skip"}
      BY <1>1, <2>2
    <3> QED BY <1>1, <1>3, <2>2, <3>1, CellsAligned
  <2> QED BY <2>1, <2>2
<1>5. Agree(Go(cell(v, "read", "read", d, tok)), Go(cell(w, t, u, e, tok)), deep)
  BY <1>4, GoAgree
<1> QED BY <1>1, <1>2, <1>3, <1>5

LEMMA ExpectAgree ==
  ASSUME NEW F \in FrameType, NEW P \in FrameType, NEW deep \in BOOLEAN,
         F.k \in Calls, Corresponds(F, P, deep),
         NEW tok \in Token, tok.attr => tok.t \in Attributed,
         NEW refs \in Seq(RefType), NEW at \in Nat, NEW choice \in BOOLEAN
  PROVE  Agree(expect(F, tok, refs, at, FALSE), expect(P, tok, refs, at, choice), deep)
<1> DEFINE X == expect(F, tok, refs, at, FALSE)
           Y == expect(P, tok, refs, at, choice)
<1>1. F.d \in Nat /\ P.d \in Nat /\ (deep => F.d <= P.d)
  BY DEF FrameType, Corresponds
<1>2. CASE F.k = "item" /\ P.k = "item"
  <2>1. F.m = "read" /\ P.m \in {"read", "skip"}
    BY <1>2 DEF Corresponds
  <2>2. X = item(F.m, F.d, tok, refs, at) /\ Y = item(P.m, P.d, tok, refs, at)
    BY <1>2, ExpectDispatch
  <2>3. PICK m \in {"read", "skip"} : m = P.m
    BY <2>1
  <2>4. X = item("read", F.d, tok, refs, at) /\ Y = item(m, P.d, tok, refs, at)
    BY <2>1, <2>2, <2>3
  <2>5. Agree(call("read", F.d, tok, refs, at), item(m, P.d, tok, refs, at), deep)
    BY <1>1, <2>3, ItemAgree
  <2>6. item("read", F.d, tok, refs, at) = call("read", F.d, tok, refs, at)
    BY <1>1, ItemWalkType
  <2> QED BY <2>4, <2>5, <2>6
<1>3. CASE F.k = "item" /\ P.k = "root"
  <2>1. F.m = "read" /\ P.m \in {"project", "first"} /\ ~deep
    BY <1>3 DEF Corresponds
  <2>2. X = item(F.m, F.d, tok, refs, at) /\ Y = root(P.m, P.d, tok)
    BY <1>3, ExpectDispatch
  <2>3. item("read", F.d, tok, refs, at) = call("read", F.d, tok, refs, at)
    BY <1>1, ItemWalkType
  <2>4. X = call("read", F.d, tok, refs, at)
    BY <2>1, <2>2, <2>3
  <2> QED BY <1>1, <2>1, <2>2, <2>4, RootAgree
<1>4. CASE F.k = "altpart" /\ tok.t = "list"
  <2>1. X = Go(read_cons_chain(F.d, tok))
    BY <1>4, ExpectDispatch
  <2>2. CASE P.k = "altpart"
    <3>1. Y = Go(read_cons_chain(P.d, tok))
      BY <1>4, <2>2, ExpectDispatch
    <3>2. Aligned(cell("cons", "read", "read", F.d, tok),
                  cell("cons", "read", "read", P.d, tok), deep)
      BY <1>1, CellsAligned
    <3> QED BY <2>1, <3>1, <3>2, GoAgree DEF read_cons_chain
  <2>3. CASE P.k = "item"
    <3>1. P.m = "skip"
      BY <1>4, <2>3 DEF Corresponds
    <3>2. Y = item(P.m, P.d, tok, refs, at)
      BY <2>3, ExpectDispatch
    <3>3. Y = call("skip", P.d, tok, refs, at)
      BY <1>1, <3>1, <3>2, ItemWalkType
    <3> QED BY <1>1, <1>4, <2>1, <3>3, ConsAgree
  <2> QED BY <1>4, <2>2, <2>3 DEF Corresponds
<1>5. CASE F.k = "altpart" /\ tok.t # "list"
  <2>1. X = call("read", F.d, tok, refs, at)
    BY <1>5, ExpectDispatch
  <2>2. CASE P.k = "altpart"
    <3>1. Y = call("read", P.d, tok, refs, at)
      BY <1>5, <2>2, ExpectDispatch
    <3> QED BY <1>1, <2>1, <3>1, CallAgree
  <2>3. CASE P.k = "item"
    <3>1. P.m = "skip"
      BY <1>5, <2>3 DEF Corresponds
    <3>2. Y = item(P.m, P.d, tok, refs, at)
      BY <2>3, ExpectDispatch
    <3>3. Y = call("skip", P.d, tok, refs, at)
      BY <1>1, <3>1, <3>2, ItemWalkType
    <3> QED BY <1>1, <2>1, <3>3, CallAgree
  <2> QED BY <1>5, <2>2, <2>3 DEF Corresponds
<1>6. CASE F.k = "rest"
  <2>1. P.k = "rest"
    BY <1>6 DEF Corresponds
  <2>2. /\ X = element(F, tok, refs, at, FALSE)
        /\ Y = element(P, tok, refs, at, choice)
    BY <1>6, <2>1, ExpectDispatch
  <2> QED BY <1>6, <2>1, <2>2, ElementAgree
<1>7. CASE F.k \in {"attrs", "next"}
  <2>1. P.k = F.k
    BY <1>7 DEF Corresponds
  <2>2. CASE tok.t = "nil"
    <3>1. X = Go(<<>>) /\ Y = Go(<<>>)
      BY <1>7, <2>1, <2>2, ExpectDispatch
    <3> QED BY <3>1, AlignedEmpty, GoAgree
  <2>3. CASE tok.t = "list"
    <3> DEFINE none == FALSE
    <3>1. X = Go(pairlist(F.m, F.d, tok, none))
      <4> HIDE DEF none
      <4>1. expect(F, tok, refs, at, none) = Go(pairlist(F.m, F.d, tok, none))
        BY <1>7, <2>3, ExpectDispatch
      <4> QED BY <4>1 DEF none
    <3>2. Y = Go(pairlist(P.m, P.d, tok, choice))
      BY <1>7, <2>1, <2>3, ExpectDispatch
    <3>3. Agree(Go(pairlist(F.m, F.d, tok, FALSE)), Go(pairlist(P.m, P.d, tok, choice)), deep)
      BY <1>7, <2>1, PairlistAgree
    <3> QED BY <3>1, <3>2, <3>3
  <2>4. CASE tok.t \notin {"nil", "list"} /\ F.k = "attrs"
    <3>1. X = Stop("attrs") /\ Y = Stop("attrs")
      BY <2>1, <2>4, ExpectDispatch
    <3> QED BY <3>1, StopAgree DEF Errors
  <2>5. CASE tok.t \notin {"nil", "list"} /\ F.k = "next"
    <3>1. X = tail(F, tok, refs, at) /\ Y = tail(P, tok, refs, at)
      BY <2>1, <2>5, ExpectDispatch
    <3> QED BY <2>1, <2>5, <3>1, TailAgree
  <2> QED BY <1>7, <2>2, <2>3, <2>4, <2>5
<1>8. F.k = "item" => P.k \in {"item", "root"}
  BY DEF Corresponds
<1> QED BY <1>2, <1>3, <1>4, <1>5, <1>6, <1>7, <1>8 DEF Calls, Corresponds

LEMMA ResumeAgree ==
  ASSUME NEW F \in FrameType, NEW P \in FrameType, NEW deep \in BOOLEAN,
         F.k \in Returns, Corresponds(F, P, deep), NEW refs \in Seq(RefType)
  PROVE  Agree(resume(F, refs), resume(P, refs), deep)
<1>1. CASE F.k = "symEnd"
  <2>1. P.k = "symEnd" /\ P.n = F.n
    BY <1>1 DEF Corresponds
  <2>2. /\ resume(F, refs) = add_reference("sym", F.n, refs, <<>>)
        /\ resume(P, refs) = add_reference("sym", F.n, refs, <<>>)
    BY <1>1, <2>1 DEF resume
  <2> QED BY <2>2, AlignedEmpty, RegisterAgree
<1>2. CASE F.k = "altEnd"
  <2>1. P.k = "altEnd" /\ F.m = "read"
    BY <1>2 DEF Corresponds
  <2>2. CASE F.n = 0
    <3>1. resume(F, refs) = Stop("altrep")
      BY <1>2, <2>1, <2>2 DEF resume
    <3>2. resume(P, refs) \in {Stop("altrep"), Go(<<>>)}
      BY <2>1 DEF resume
    <3> QED BY <3>1, <3>2 DEF Agree, Stop, Go
  <2>3. CASE F.n # 0
    <3>1. resume(F, refs) = Go(<<>>)
      BY <1>2, <2>3 DEF resume
    <3>2. resume(P, refs) = Go(<<>>)
      BY <1>2, <2>1, <2>3 DEF resume, Corresponds
    <3> QED BY <3>1, <3>2, AlignedEmpty, GoAgree
  <2> QED BY <2>2, <2>3
<1> QED BY <1>1, <1>2 DEF Returns

-----------------------------------------------------------------------------
(* Step by step. *)

\* Passes w and v (the full read and the structural pass) are in lock step.
Together(w, v, deep) ==
  /\ w.st = "run" /\ v.st = "run" => Aligned(w.stack, v.stack, deep) /\ w.refs = v.refs
  /\ v.st = "run" => w.st \in {"run", "alloc", "altrep", "dotted", "depth"}
  /\ w.st = "run" => v.st \in {"run", "root", "depth"}
  /\ deep /\ w.st = "depth" => v.st # "run"

Deep == program = "skip"

\* The inductive invariant.
IInv == TypeOK /\ Together(full, part, Deep)

LEMMA AfterTogether ==
  ASSUME NEW w \in PassType, NEW v \in PassType, NEW deep \in BOOLEAN,
         w.stack # <<>>, v.stack # <<>>,
         Aligned(w.stack, v.stack, deep), w.refs = v.refs,
         NEW F \in OutcomeType, NEW P \in OutcomeType, Agree(F, P, deep)
  PROVE  Together(After(w, F), After(v, P), deep)
<1>1. /\ After(w, F).st = F.st
      /\ F.st = "run" => /\ After(w, F).stack = F.push \o Tail(w.stack)
                         /\ After(w, F).refs = w.refs \o F.add
  BY AfterType
<1>2. /\ After(v, P).st = P.st
      /\ P.st = "run" => /\ After(v, P).stack = P.push \o Tail(v.stack)
                         /\ After(v, P).refs = v.refs \o P.add
  BY AfterType
<1>3. ASSUME F.st = "run", P.st = "run"
      PROVE  /\ Aligned(After(w, F).stack, After(v, P).stack, deep)
             /\ After(w, F).refs = After(v, P).refs
  <2>1. Aligned(F.push, P.push, deep) /\ F.add = P.add
    BY <1>3 DEF Agree
  <2>2. w.stack \in Seq(FrameType) /\ v.stack \in Seq(FrameType)
    BY DEF PassType
  <2>3. Aligned(Tail(w.stack), Tail(v.stack), deep)
    BY <2>2, AlignedTail
  <2>4. /\ F.push \in Seq(FrameType) /\ P.push \in Seq(FrameType)
        /\ Tail(w.stack) \in Seq(FrameType) /\ Tail(v.stack) \in Seq(FrameType)
    BY <2>2 DEF OutcomeType
  <2>5. Aligned(F.push \o Tail(w.stack), P.push \o Tail(v.stack), deep)
    BY <2>1, <2>3, <2>4, AlignedConcat
  <2> QED BY <1>1, <1>2, <1>3, <2>1, <2>5
<1> QED BY <1>1, <1>2, <1>3 DEF Agree, Together

\* Once a pass has failed, the other walks on alone: a failure is for good.
LEMMA AloneTogether ==
  ASSUME NEW w, NEW v, NEW x, NEW y, NEW deep \in BOOLEAN, Together(w, v, deep),
         w.st # "run" \/ v.st # "run",
         w.st # "run" => x = w, v.st # "run" => y = v
  PROVE  Together(x, y, deep)
BY DEF Together

\* Corresponding calls wait for a header, or return, together.
LEMMA KindsAgree ==
  ASSUME NEW w \in PassType, NEW v \in PassType, NEW deep \in BOOLEAN,
         w.st = "run", v.st = "run", Aligned(w.stack, v.stack, deep)
  PROVE  /\ Running(w) <=> Running(v)
         /\ Returning(w) <=> Returning(v)
         /\ Running(w) => /\ Corresponds(Head(w.stack), Head(v.stack), deep)
                          /\ Head(w.stack) \in FrameType /\ Head(v.stack) \in FrameType
                          /\ Head(w.stack).k \in Calls <=> ~Returning(w)
<1>1. w.stack \in Seq(FrameType) /\ v.stack \in Seq(FrameType)
  BY DEF PassType
<1>2. Len(w.stack) = Len(v.stack)
  BY DEF Aligned
<1>3. w.stack = <<>> <=> v.stack = <<>>
  BY <1>1, <1>2
<1>4. CASE w.stack = <<>>
  BY <1>3, <1>4 DEF Running, Returning
<1>5. CASE w.stack # <<>>
  <2>1. Corresponds(Head(w.stack), Head(v.stack), deep)
    BY <1>1, <1>5, AlignedTail
  <2>2. Head(w.stack) \in FrameType /\ Head(v.stack) \in FrameType
    BY <1>1, <1>3, <1>5
  <2>3. Head(w.stack).k \in Returns <=> Head(v.stack).k \in Returns
    BY <2>1 DEF Corresponds, Returns
  <2>4. Head(w.stack).k \in Calls <=> Head(w.stack).k \notin Returns
    BY <2>2 DEF FrameType, Calls, Returns
  <2> QED BY <1>3, <1>5, <2>1, <2>2, <2>3, <2>4 DEF Running, Returning
<1> QED BY <1>4, <1>5

LEMMA TakeTogether ==
  ASSUME fed \in Nat, NEW w \in PassType, NEW v \in PassType, NEW deep \in BOOLEAN,
         ~Returning(w), ~Returning(v), Together(w, v, deep),
         NEW tok \in Tokens, NEW choice \in BOOLEAN
  PROVE  Together(Take(w, tok, FALSE), Take(v, tok, choice), deep)
<1>1. tok \in Token /\ (tok.attr => tok.t \in Attributed) /\ fed + 1 \in Nat
  BY TokensAssumption
<1>2. CASE w.st # "run" \/ v.st # "run"
  <2>1. PICK x, y :
          /\ x = Take(w, tok, FALSE) /\ y = Take(v, tok, choice)
          /\ w.st # "run" => x = w
          /\ v.st # "run" => y = v
    BY DEF Take, Running
  <2>2. Together(x, y, deep)
    BY <1>2, <2>1 DEF Together
  <2> QED BY <2>1, <2>2
<1>3. CASE w.st = "run" /\ v.st = "run"
  <2>1. Aligned(w.stack, v.stack, deep) /\ w.refs = v.refs
    BY <1>3 DEF Together
  <2>2. CASE ~Running(w)
    <3>1. ~Running(v)
      BY <1>3, <2>1, <2>2, KindsAgree
    <3> QED BY <2>2, <3>1 DEF Take
  <2>3. CASE Running(w)
    <3>1. PICK f \in FrameType, p \in FrameType :
            /\ f = Head(w.stack) /\ p = Head(v.stack)
            /\ Corresponds(f, p, deep) /\ f.k \in Calls /\ p.k \in Calls
      <4>1. /\ Corresponds(Head(w.stack), Head(v.stack), deep)
            /\ Head(w.stack) \in FrameType /\ Head(v.stack) \in FrameType
            /\ Head(w.stack).k \in Calls
        BY <1>3, <2>1, <2>3, KindsAgree
      <4>2. Head(v.stack).k \in Calls
        BY <4>1 DEF Corresponds, Calls
      <4> QED BY <4>1, <4>2
    <3>2. Running(v) /\ w.stack # <<>> /\ v.stack # <<>> /\ w.refs \in Seq(RefType)
      BY <1>3, <2>1, <2>3, KindsAgree DEF Running, PassType
    <3> DEFINE none == FALSE
               F == expect(f, tok, w.refs, fed + 1, none)
               P == expect(p, tok, w.refs, fed + 1, choice)
    <3>3. none \in BOOLEAN
      OBVIOUS
    <3>4. Agree(F, P, deep)
      BY <1>1, <3>1, <3>2, ExpectAgree
    <3>5. F \in OutcomeType /\ P \in OutcomeType
      <4> HIDE DEF none
      <4> QED BY <1>1, <3>1, <3>2, <3>3, ExpectType
    <3>6. Take(w, tok, none) = After(w, F) /\ Take(v, tok, choice) = After(v, P)
      BY <2>1, <2>3, <3>1, <3>2 DEF Take
    <3>7. Together(After(w, F), After(v, P), deep)
      <4> HIDE DEF F, P
      <4> QED BY <2>1, <3>2, <3>4, <3>5, AfterTogether
    <3> QED BY <3>6, <3>7
  <2> QED BY <2>2, <2>3
<1> QED BY <1>2, <1>3

LEMMA ResumeTogether ==
  ASSUME NEW w \in PassType, NEW v \in PassType, NEW deep \in BOOLEAN,
         Together(w, v, deep)
  PROVE  Together(Resume(w), Resume(v), deep)
<1>1. CASE w.st # "run" \/ v.st # "run"
  <2>1. /\ w.st # "run" => Resume(w) = w
        /\ v.st # "run" => Resume(v) = v
    BY DEF Resume, Returning, Running
  <2> QED BY <1>1, <2>1, AloneTogether
<1>2. CASE w.st = "run" /\ v.st = "run"
  <2>1. Aligned(w.stack, v.stack, deep) /\ w.refs = v.refs
    BY <1>2 DEF Together
  <2>2. CASE ~Returning(w)
    <3>1. ~Returning(v)
      BY <1>2, <2>1, <2>2, KindsAgree
    <3> QED BY <2>2, <3>1 DEF Resume
  <2>3. CASE Returning(w)
    <3>1. PICK f \in FrameType, p \in FrameType :
            /\ f = Head(w.stack) /\ p = Head(v.stack)
            /\ Corresponds(f, p, deep) /\ f.k \in Returns
      BY <1>2, <2>1, <2>3, KindsAgree DEF Returning
    <3>2. Returning(v) /\ w.stack # <<>> /\ v.stack # <<>> /\ w.refs \in Seq(RefType)
      BY <1>2, <2>1, <2>3, KindsAgree DEF Returning, Running, PassType
    <3> DEFINE F == resume(f, w.refs)
               P == resume(p, w.refs)
    <3>3. Agree(F, P, deep)
      BY <3>1, <3>2, ResumeAgree
    <3>4. F \in OutcomeType /\ P \in OutcomeType
      BY <3>2, ResumeType
    <3>5. Resume(w) = After(w, F) /\ Resume(v) = After(v, P)
      BY <2>1, <2>3, <3>1, <3>2 DEF Resume
    <3>6. Together(After(w, F), After(v, P), deep)
      <4> HIDE DEF F, P
      <4> QED BY <2>1, <3>2, <3>3, <3>4, AfterTogether
    <3> QED BY <3>5, <3>6
  <2> QED BY <2>2, <2>3
<1> QED BY <1>1, <1>2

LEMMA StepsTogether == IInv /\ [Next]_vars => IInv'
<1> SUFFICES ASSUME IInv, [Next]_vars PROVE IInv'
  OBVIOUS
<1>1. /\ TypeOK /\ full \in PassType /\ part \in PassType /\ fed \in Nat
      /\ Together(full, part, Deep) /\ Deep \in BOOLEAN
  BY DEF IInv, TypeOK, Deep
<1>2. TypeOK'
  BY <1>1, TypeNext
<1>3. Deep' = Deep
  BY DEF Next, Feed, Return, Truncated, vars, Deep
<1>4. Together(full', part', Deep)
  <2>1. ASSUME NEW tok \in Tokens, NEW choice \in BOOLEAN, Feed(tok, choice)
        PROVE  Together(full', part', Deep)
    <3>1. Together(Take(full, tok, FALSE), Take(part, tok, choice), Deep)
      BY <1>1, <2>1, TakeTogether DEF Feed
    <3> QED BY <2>1, <3>1 DEF Feed
  <2>2. CASE Return
    <3>1. Together(Resume(full), Resume(part), Deep)
      BY <1>1, ResumeTogether
    <3> QED BY <2>2, <3>1 DEF Return
  <2>3. CASE Truncated
    <3>1. CASE full.st # "run" \/ part.st # "run"
      <4>1. PICK x, y : /\ x = full' /\ y = part'
                        /\ full.st # "run" => x = full
                        /\ part.st # "run" => y = part
        BY <2>3 DEF Truncated, Running
      <4>2. Together(x, y, Deep)
        BY <1>1, <3>1, <4>1, AloneTogether
      <4> QED BY <4>1, <4>2
    <3>2. CASE full.st = "run" /\ part.st = "run"
      <4>1. Aligned(full.stack, part.stack, Deep)
        BY <1>1, <3>2 DEF Together
      <4>2. Running(full) <=> Running(part)
        BY <1>1, <3>2, <4>1, KindsAgree
      <4>3. full' = Failed("eof") /\ part' = Failed("eof")
        BY <2>3, <4>2 DEF Truncated
      <4> QED BY <4>3 DEF Together, Failed
    <3> QED BY <3>1, <3>2
  <2>4. CASE UNCHANGED vars
    BY <1>1, <2>4 DEF vars
  <2> QED BY <2>1, <2>2, <2>3, <2>4 DEF Next
<1>5. Together(full', part', Deep')
  BY <1>3, <1>4
<1> QED BY <1>2, <1>5 DEF IInv

LEMMA InitTogether == Init => IInv
<1> SUFFICES ASSUME Init PROVE IInv
  OBVIOUS
<1>1. TypeOK
  BY TypeInit
<1>2. program \in {"skip", "project", "catalog"}
  BY LimitsAssumption DEF Init
<1>3. PICK p \in FrameType :
        part = Start(p) /\ Corresponds(Item("read", 0), p, Deep)
  <2>1. CASE program = "skip"
    <3>1. part = Start(Item("skip", 0))
      BY <2>1 DEF Init
    <3>2. Corresponds(Item("read", 0), Item("skip", 0), Deep)
      BY DEF Corresponds, Item, Frame, Deep
    <3> QED BY <3>1, <3>2, ItemType
  <2>2. CASE program = "project"
    <3>1. part = Start(Frame("root", "project", 0, 0))
      BY <2>2 DEF Init
    <3>2. Corresponds(Item("read", 0), Frame("root", "project", 0, 0), Deep)
      BY <2>2 DEF Corresponds, Item, Frame, Deep
    <3> QED BY <3>1, <3>2, FrameMembers
  <2>3. CASE program = "catalog"
    <3>1. part = Start(Frame("root", "first", 0, 0))
      BY <2>3 DEF Init
    <3>2. Corresponds(Item("read", 0), Frame("root", "first", 0, 0), Deep)
      BY <2>3 DEF Corresponds, Item, Frame, Deep
    <3> QED BY <3>1, <3>2, FrameMembers
  <2> QED BY <1>2, <2>1, <2>2, <2>3
<1>4. full = Start(Item("read", 0)) /\ Item("read", 0) \in FrameType
  BY ItemType DEF Init
<1>5. Aligned(<<Item("read", 0)>>, <<p>>, Deep)
  BY <1>3, <1>4, AlignedOne DEF Deep
<1>6. Together(full, part, Deep)
  BY <1>3, <1>4, <1>5 DEF Together, Start
<1> QED BY <1>1, <1>6 DEF IInv

LEMMA AlwaysTogether == Spec => []IInv
<1> QED BY InitTogether, StepsTogether, PTL DEF Spec

-----------------------------------------------------------------------------
(* What follows, for any set of headers and any limits. *)

\* The calls in progress of the two passes correspond one to one.
THEOREM CallsInLockStep == Spec => []LockStep
<1>1. IInv => LockStep
  BY DEF IInv, Together, LockStep, BothOk, Deep
<1> QED BY <1>1, AlwaysTogether, PTL

\* An index into the reference table means the same object to both passes.
THEOREM ReferencesAgree == Spec => []SameReferences
<1>1. IInv => SameReferences
  BY DEF IInv, Together, SameReferences, BothOk
<1> QED BY <1>1, AlwaysTogether, PTL

\* Both passes find the end of the object at the same header.
THEOREM EndsAgree == Spec => []SameEnd
<1>1. IInv => SameEnd
  <2> SUFFICES ASSUME IInv, full.st = "run", part.st = "run"
               PROVE  full.stack = <<>> <=> part.stack = <<>>
    BY DEF SameEnd, BothOk, Done
  <2>1. full.stack \in Seq(FrameType) /\ part.stack \in Seq(FrameType)
    BY DEF IInv, TypeOK, PassType
  <2>2. Len(full.stack) = Len(part.stack)
    BY DEF IInv, Together, Aligned
  <2> QED BY <2>1, <2>2
<1> QED BY <1>1, AlwaysTogether, PTL

\* A pass fails alone only for the reasons the code gives it.
THEOREM DivergesByPolicy == Spec => []DivergenceIsPolicy
<1>1. IInv => DivergenceIsPolicy
  BY DEF IInv, Together, DivergenceIsPolicy
<1> QED BY <1>1, AlwaysTogether, PTL

\* skip_item never walks to its end what read_item finds too deep.
THEOREM DepthSound == Spec => []DepthIsSound
<1>1. IInv => DepthIsSound
  BY DEF IInv, Together, DepthIsSound, Deep
<1> QED BY <1>1, AlwaysTogether, PTL

-----------------------------------------------------------------------------
(***************************************************************************)
(* R numbers an object at its header, the reader a symbol only once its     *)
(* name is read.  At most one name is awaited at a time: it is a CHARSXP,     *)
(* behind which nothing is numbered before the symbol itself is.             *)
(***************************************************************************)

\* No symbol waits for its name among these calls.
Unnamed(fs) == \A i \in DOMAIN fs : fs[i].k # "symEnd"

\* The symbol whose header is the at-th token is the innermost call that waits,
\* but for the item that reads its name.
Naming(fs, at) ==
  \/ /\ Len(fs) > 0 /\ fs[1].k = "symEnd" /\ fs[1].n = at
     /\ \A i \in 2 .. Len(fs) : fs[i].k # "symEnd"
  \/ /\ Len(fs) > 1 /\ fs[1].k = "item" /\ fs[2].k = "symEnd" /\ fs[2].n = at
     /\ \A i \in 3 .. Len(fs) : fs[i].k # "symEnd"

\* What the full read has numbered is what R has, up to a symbol in progress.
Numbering ==
  regular /\ full.st = "run" =>
    \/ full.refs = written /\ Unnamed(full.stack)
    \/ \E at \in Nat : /\ written = Append(full.refs, [k |-> "sym", at |-> at])
                       /\ Naming(full.stack, at)

\* What R numbers at a header.
Numbers(tok, at) == IF tok.t \in Numbered THEN << [k |-> tok.t, at |-> at] >> ELSE <<>>

\* A header makes a pass number what R numbers, and wait for the name of a symbol.
NumbersAlike(o, tok, at) ==
  o.st = "run" =>
    IF tok.t = "sym" THEN o.add = <<>> /\ Naming(o.push, at) /\ o.push[1].k = "item"
    ELSE o.add = Numbers(tok, at) /\ Unnamed(o.push)

LEMMA UnnamedConcat ==
  ASSUME NEW a \in Seq(FrameType), NEW b \in Seq(FrameType), Unnamed(a), Unnamed(b)
  PROVE  Unnamed(a \o b)
BY DEF Unnamed

LEMMA NamingConcat ==
  ASSUME NEW a \in Seq(FrameType), NEW b \in Seq(FrameType), NEW at,
         Naming(a, at), Unnamed(b)
  PROVE  Naming(a \o b, at) /\ a # <<>> /\ (a \o b)[1] = a[1]
<1>1. /\ Len(a) > 0 /\ Len(a \o b) = Len(a) + Len(b) /\ Len(a) \in Nat /\ Len(b) \in Nat
      /\ \A i \in 1 .. Len(a) : (a \o b)[i] = a[i]
  BY DEF Naming
<1>2. \A i \in Len(a) + 1 .. Len(a \o b) : (a \o b)[i].k # "symEnd"
  <2>1. ASSUME NEW i \in Len(a) + 1 .. Len(a \o b)
        PROVE  (a \o b)[i].k # "symEnd"
    <3>1. (a \o b)[i] = b[i - Len(a)] /\ i - Len(a) \in DOMAIN b
      BY <1>1
    <3> QED BY <3>1 DEF Unnamed
  <2> QED BY <2>1
<1>3. CASE /\ a[1].k = "symEnd" /\ a[1].n = at
           /\ \A i \in 2 .. Len(a) : a[i].k # "symEnd"
  BY <1>1, <1>2, <1>3 DEF Naming
<1>4. CASE /\ Len(a) > 1 /\ a[1].k = "item" /\ a[2].k = "symEnd" /\ a[2].n = at
           /\ \A i \in 3 .. Len(a) : a[i].k # "symEnd"
  BY <1>1, <1>2, <1>4 DEF Naming
<1> QED BY <1>1, <1>3, <1>4 DEF Naming

LEMMA UnnamedTail ==
  ASSUME NEW a \in Seq(FrameType), a # <<>>
  PROVE  /\ Unnamed(a) => Unnamed(Tail(a))
         /\ \A at : Naming(a, at) /\ a[1].k = "symEnd" => Unnamed(Tail(a))
<1>1. /\ Len(Tail(a)) = Len(a) - 1 /\ Len(a) \in Nat /\ DOMAIN a = 1 .. Len(a)
      /\ DOMAIN Tail(a) = 1 .. Len(a) - 1
      /\ \A i \in 1 .. Len(a) - 1 : Tail(a)[i] = a[i + 1]
  OBVIOUS
<1>2. Unnamed(a) => Unnamed(Tail(a))
  BY <1>1 DEF Unnamed
<1>3. ASSUME NEW at, Naming(a, at), a[1].k = "symEnd"
      PROVE  Unnamed(Tail(a))
  BY <1>1, <1>3 DEF Unnamed, Naming
<1> QED BY <1>2, <1>3

LEMMA NothingNumbered ==
  ASSUME NEW fs \in Seq(FrameType), Unnamed(fs), NEW tok, tok.t \notin Numbered, NEW at
  PROVE  NumbersAlike(Go(fs), tok, at)
BY DEF NumbersAlike, Go, Numbers, Numbered

LEMMA GoNumbers ==
  ASSUME NEW tok, tok.t \notin Numbered, NEW at
  PROVE  NumbersAlike(Go(<<>>), tok, at)
<1>1. <<>> \in Seq(FrameType) /\ Unnamed(<<>>)
  BY DEF Unnamed
<1> QED BY <1>1, NothingNumbered

LEMMA StopNumbers ==
  ASSUME NEW why \in Errors, NEW tok, NEW at
  PROVE  NumbersAlike(Stop(why), tok, at)
BY DEF NumbersAlike, Stop, Errors

LEMMA FewUnnamed ==
  ASSUME NEW d \in Nat, NEW tok \in Token
  PROVE  /\ Unnamed(<<>>)
         /\ \A m \in {"read", "skip", "sel"} : Unnamed(Attributes(m, d, tok))
         /\ \A m, n : Unnamed(Rest(m, n, d))
         /\ \A w \in {"read", "cons", "skip", "sel"}, tagMode, valueMode \in {"read", "skip"} :
              Unnamed(cell(w, tagMode, valueMode, d, tok))
<1>1. Unnamed(<<>>)
  BY DEF Unnamed
<1>2. \A k, m, n : k # "symEnd" => Unnamed(<<Frame(k, m, n, d)>>)
  BY DEF Unnamed, Frame
<1>3. \A m \in {"read", "skip", "sel"} : Unnamed(Attributes(m, d, tok))
  BY <1>1, <1>2 DEF Attributes
<1>4. \A m, n : Unnamed(Rest(m, n, d))
  BY <1>1, <1>2 DEF Rest
<1>5. ASSUME NEW w \in {"read", "cons", "skip", "sel"}, NEW tagMode \in {"read", "skip"},
             NEW valueMode \in {"read", "skip"}
      PROVE  Unnamed(cell(w, tagMode, valueMode, d, tok))
  <2> DEFINE value == <<Item(valueMode, d), Frame("next", w, 0, d)>>
             tag == <<Item(tagMode, d)>>
  <2>1. Unnamed(value) /\ Unnamed(tag)
    BY DEF Unnamed, Item, Frame
  <2>2. value \in Seq(FrameType) /\ tag \in Seq(FrameType)
    BY ItemType, FrameMembers, FewFrames
  <2>3. cell(w, tagMode, valueMode, d, tok) = IF tok.tag THEN tag \o value ELSE value
    BY DEF cell
  <2> HIDE DEF value, tag
  <2> QED BY <2>1, <2>2, <2>3, UnnamedConcat
<1> QED BY <1>1, <1>3, <1>4, <1>5

LEMMA AddNumbers ==
  ASSUME NEW fs \in Seq(FrameType), Unnamed(fs), NEW tok, tok.t \in Numbered \ {"sym"},
         NEW at, NEW refs
  PROVE  NumbersAlike(add_reference(tok.t, at, refs, fs), tok, at)
BY DEF NumbersAlike, add_reference, Register, Stop, Numbers

LEMMA SharedNumbers ==
  ASSUME NEW d \in Nat, NEW tok \in Token, NEW refs \in Seq(RefType), NEW at \in Nat,
         NEW m \in {"read", "skip"}
  PROVE  /\ tok.t = "ref" => NumbersAlike(reference(tok.n, refs), tok, at)
         /\ tok.t = "sym" => NumbersAlike(symbol(d, at), tok, at)
         /\ tok.t = "extptr" => NumbersAlike(extptr(m, d, tok, refs, at), tok, at)
<1>1. ASSUME tok.t = "ref"
      PROVE  NumbersAlike(reference(tok.n, refs), tok, at)
  <2>1. tok.t \notin Numbered
    BY <1>1 DEF Numbered
  <2>2. NumbersAlike(Go(<<>>), tok, at)
    BY <2>1, GoNumbers
  <2>3. NumbersAlike(Stop("ref"), tok, at)
    BY StopNumbers DEF Errors
  <2> QED BY <2>2, <2>3 DEF reference
<1>2. ASSUME tok.t = "sym"
      PROVE  NumbersAlike(symbol(d, at), tok, at)
  <2>1. symbol(d, at).push = <<Item("read", d), Frame("symEnd", "read", at, d)>>
        /\ symbol(d, at).add = <<>>
    BY DEF symbol, Go
  <2>2. Naming(symbol(d, at).push, at) /\ symbol(d, at).push[1].k = "item"
    BY <2>1 DEF Naming, Item, Frame
  <2> QED BY <1>2, <2>1, <2>2 DEF NumbersAlike
<1>3. ASSUME tok.t = "extptr"
      PROVE  NumbersAlike(extptr(m, d, tok, refs, at), tok, at)
  <2>1. Item(m, d) \in FrameType /\ Attributes(m, d, tok) \in Seq(FrameType)
    BY ItemType, AttributesType
  <2>2. <<Item(m, d), Item(m, d)>> \in Seq(FrameType)
    BY <2>1, FewFrames
  <2>3. Unnamed(<<Item(m, d), Item(m, d)>>) /\ Unnamed(Attributes(m, d, tok))
    <3>1. Unnamed(<<Item(m, d), Item(m, d)>>)
      BY DEF Unnamed, Item, Frame
    <3>2. Unnamed(Attributes(m, d, tok))
      BY FewUnnamed
    <3> QED BY <3>1, <3>2
  <2>4. /\ Unnamed(<<Item(m, d), Item(m, d)>> \o Attributes(m, d, tok))
        /\ <<Item(m, d), Item(m, d)>> \o Attributes(m, d, tok) \in Seq(FrameType)
    <3> DEFINE two == <<Item(m, d), Item(m, d)>>
               rest == Attributes(m, d, tok)
    <3>1. two \in Seq(FrameType) /\ rest \in Seq(FrameType) /\ Unnamed(two) /\ Unnamed(rest)
      BY <2>1, <2>2, <2>3
    <3> HIDE DEF two, rest
    <3>2. Unnamed(two \o rest) /\ two \o rest \in Seq(FrameType)
      BY <3>1, UnnamedConcat
    <3> QED BY <3>2 DEF two, rest
  <2>5. tok.t \in Numbered \ {"sym"}
    BY <1>3 DEF Numbered
  <2>6. NumbersAlike(add_reference(tok.t, at, refs, <<Item(m, d), Item(m, d)>> \o Attributes(m, d, tok)),
                   tok, at)
    BY <2>4, <2>5, AddNumbers
  <2> QED BY <1>3, <2>6 DEF extptr
<1> QED BY <1>1, <1>2, <1>3

LEMMA ReadNumbers ==
  ASSUME NEW d \in Nat, NEW tok \in Token, NEW refs \in Seq(RefType), NEW at \in Nat
  PROVE  NumbersAlike(read_item_from_header(d, tok, refs, at), tok, at)
<1> DEFINE read == read_item_from_header(d, tok, refs, at)
<1>1. Item("read", d) \in FrameType /\ Attributes("read", d, tok) \in Seq(FrameType)
  BY ItemType, AttributesType
<1>2. Rest("read", tok.n, d) \in Seq(FrameType)
  BY RestType DEF Token
<1>3. tok.t \in Kinds
  BY DEF Token
<1>4. CASE tok.t \in {"nil", "special"}
  <2>1. read = Go(<<>>) /\ tok.t \notin Numbered
    BY <1>4, ReadDispatch DEF Numbered
  <2> QED BY <2>1, GoNumbers
<1>5. CASE tok.t \in {"ref", "sym", "extptr"}
  BY <1>5, ReadDispatch, SharedNumbers
<1>6. CASE tok.t = "list"
  <2>1. read_pairlist(d, tok) \in Seq(FrameType) /\ Unnamed(read_pairlist(d, tok))
    BY CellType, FewUnnamed DEF read_pairlist
  <2>2. read = Go(read_pairlist(d, tok)) /\ tok.t \notin Numbered
    BY <1>6, ReadDispatch DEF Numbered
  <2> QED BY <2>1, <2>2, NothingNumbered
<1>7. CASE tok.t = "altrep"
  <2> DEFINE parts == <<Frame("altpart", "read", 0, d), Frame("altpart", "read", 0, d),
                        Item("read", d), Frame("altEnd", "read", IF tok.fits THEN 1 ELSE 0, d)>>
  <2>1. Unnamed(parts)
    BY DEF Unnamed, Item, Frame
  <2>2. parts \in Seq(FrameType)
    <3>1. \A n \in Nat : Frame("altEnd", "read", n, d) \in FrameType
      BY FrameMembers
    <3>2. Frame("altpart", "read", 0, d) \in FrameType
      BY FrameMembers
    <3> QED BY <1>1, <3>1, <3>2, FewFrames
  <2>3. read = Go(parts)
    <3>1. read = read_altrep(d, tok)
      BY <1>7, ReadDispatch
    <3> QED BY <3>1 DEF read_altrep
  <2>4. tok.t \notin Numbered
    BY <1>7 DEF Numbered
  <2> HIDE DEF parts
  <2> QED BY <2>1, <2>2, <2>3, <2>4, NothingNumbered
<1>8. CASE tok.t = "env"
  <2> DEFINE parts == <<Item("read", d), Item("read", d), Item("read", d), Item("read", d)>>
  <2>1. Unnamed(parts) /\ parts \in Seq(FrameType)
    BY <1>1, FewFrames DEF Unnamed, Item, Frame
  <2>2. read = add_reference(tok.t, at, refs, parts) /\ tok.t \in Numbered \ {"sym"}
    BY <1>8, ReadDispatch DEF Numbered, read_environment
  <2> HIDE DEF parts
  <2> QED BY <2>1, <2>2, AddNumbers
<1>9. CASE tok.t = "ns"
  <2>1. read = add_reference(tok.t, at, refs, <<>>) /\ tok.t \in Numbered \ {"sym"}
    BY <1>9, ReadDispatch DEF Numbered, read_namespace_spec
  <2>2. <<>> \in Seq(FrameType) /\ Unnamed(<<>>)
    BY DEF Unnamed
  <2> QED BY <2>1, <2>2, AddNumbers
<1>10. CASE tok.t \in {"leaf", "s4", "other"}
  <2>1. /\ tok.t \notin Numbered
        /\ read \in {Go(Attributes("read", d, tok)), Stop("type"), Stop("alloc")}
    BY <1>10, ReadDispatch DEF Numbered
  <2>2. /\ NumbersAlike(Go(Attributes("read", d, tok)), tok, at)
        /\ NumbersAlike(Stop("type"), tok, at) /\ NumbersAlike(Stop("alloc"), tok, at)
    BY <1>1, <2>1, FewUnnamed, NothingNumbered, StopNumbers DEF Errors
  <2> QED BY <2>1, <2>2
<1>11. CASE tok.t = "vec"
  <2> DEFINE parts == Rest("read", tok.n, d) \o Attributes("read", d, tok)
  <2>1. Unnamed(parts) /\ parts \in Seq(FrameType)
    BY <1>1, <1>2, FewUnnamed, UnnamedConcat
  <2>2. tok.t \notin Numbered /\ read \in {Go(parts), Stop("alloc")}
    BY <1>11, ReadDispatch DEF Numbered
  <2> HIDE DEF parts
  <2>3. NumbersAlike(Go(parts), tok, at) /\ NumbersAlike(Stop("alloc"), tok, at)
    BY <2>1, <2>2, NothingNumbered, StopNumbers DEF Errors
  <2> QED BY <2>2, <2>3
<1> QED
  BY <1>3, <1>4, <1>5, <1>6, <1>7, <1>8, <1>9, <1>10, <1>11 DEF Kinds

LEMMA SkipNumbers ==
  ASSUME NEW d \in Nat, NEW tok \in Token, NEW refs \in Seq(RefType), NEW at \in Nat
  PROVE  NumbersAlike(skip_item_from_header(d, tok, refs, at), tok, at)
<1> DEFINE skip == skip_item_from_header(d, tok, refs, at)
<1>1. Item("skip", d) \in FrameType /\ Attributes("skip", d, tok) \in Seq(FrameType)
  BY ItemType, AttributesType
<1>2. Rest("skip", tok.n, d) \in Seq(FrameType)
  BY RestType DEF Token
<1>3. tok.t \in Kinds
  BY DEF Token
<1>4. CASE tok.t = "nil"
  <2>1. skip = Go(<<>>) /\ tok.t \notin Numbered
    BY <1>4, SkipDispatch DEF Numbered
  <2> QED BY <2>1, GoNumbers
<1>5. CASE tok.t \in {"ref", "sym", "extptr"}
  <2>1. PICK m \in {"read", "skip"} : m = "skip"
    OBVIOUS
  <2>2. /\ tok.t = "ref" => NumbersAlike(reference(tok.n, refs), tok, at)
        /\ tok.t = "sym" => NumbersAlike(symbol(d, at), tok, at)
        /\ tok.t = "extptr" => NumbersAlike(extptr(m, d, tok, refs, at), tok, at)
    BY SharedNumbers
  <2>3. CASE tok.t = "ref"
    <3>1. skip = reference(tok.n, refs)
      BY <2>3 DEF skip_item_from_header
    <3> QED BY <2>2, <2>3, <3>1
  <2>4. CASE tok.t = "sym"
    <3>1. skip = symbol(d, at)
      BY <2>4, SkipDispatch
    <3> QED BY <2>2, <2>4, <3>1
  <2>5. CASE tok.t = "extptr"
    <3>1. skip = extptr("skip", d, tok, refs, at)
      BY <2>5, SkipDispatch
    <3> QED BY <2>1, <2>2, <2>5, <3>1
  <2> QED BY <1>5, <2>3, <2>4, <2>5
<1>6. CASE tok.t = "list"
  <2>1. skip_pairlist(d, tok) \in Seq(FrameType) /\ Unnamed(skip_pairlist(d, tok))
    BY CellType, FewUnnamed DEF skip_pairlist
  <2>2. skip = Go(skip_pairlist(d, tok)) /\ tok.t \notin Numbered
    BY <1>6, SkipDispatch DEF Numbered
  <2> QED BY <2>1, <2>2, NothingNumbered
<1>7. CASE tok.t = "altrep"
  <2> DEFINE parts == <<Item("skip", d), Item("skip", d), Item("skip", d), Frame("altEnd", "skip", 0, d)>>
  <2>1. Unnamed(parts)
    BY DEF Unnamed, Item, Frame
  <2>2. parts \in Seq(FrameType)
    BY <1>1, FrameMembers, FewFrames
  <2>3. skip = Go(parts) /\ tok.t \notin Numbered
    BY <1>7, SkipDispatch DEF Numbered
  <2> HIDE DEF parts
  <2> QED BY <2>1, <2>2, <2>3, NothingNumbered
<1>8. CASE tok.t \in {"env", "s4", "ns", "special"}
  BY <1>8, SkipDelegates, ReadNumbers
<1>9. CASE tok.t = "leaf"
  <2>1. tok.t \notin Numbered /\ skip = Go(Attributes("skip", d, tok))
    BY <1>9, SkipDispatch DEF Numbered
  <2> QED BY <1>1, <2>1, FewUnnamed, NothingNumbered
<1>10. CASE tok.t = "other"
  BY <1>10, SkipDispatch, StopNumbers DEF Errors
<1>11. CASE tok.t = "vec"
  <2> DEFINE parts == Rest("skip", tok.n, d) \o Attributes("skip", d, tok)
  <2>1. Unnamed(parts) /\ parts \in Seq(FrameType)
    BY <1>1, <1>2, FewUnnamed, UnnamedConcat
  <2>2. tok.t \notin Numbered /\ skip = Go(parts)
    BY <1>11, SkipDispatch DEF Numbered
  <2> HIDE DEF parts
  <2> QED BY <2>1, <2>2, NothingNumbered
<1> QED
  BY <1>3, <1>4, <1>5, <1>6, <1>7, <1>8, <1>9, <1>10, <1>11 DEF Kinds

LEMMA CallNumbers ==
  ASSUME NEW m \in {"read", "skip"}, NEW d \in Nat, NEW tok \in Token,
         NEW refs \in Seq(RefType), NEW at \in Nat
  PROVE  NumbersAlike(call(m, d, tok, refs, at), tok, at)
<1>1. d + 1 \in Nat /\ (d + 1 > MaxDepth \/ d + 1 <= MaxDepth)
  BY LimitsAssumption
<1>2. NumbersAlike(Stop("depth"), tok, at)
  BY StopNumbers DEF Errors
<1>3. /\ NumbersAlike(skip_item_from_header(d + 1, tok, refs, at), tok, at)
      /\ NumbersAlike(read_item_from_header(d + 1, tok, refs, at), tok, at)
  BY <1>1, SkipNumbers, ReadNumbers
<1> QED BY <1>1, <1>2, <1>3, CallType

LEMMA FollowedNumbers ==
  ASSUME NEW o \in OutcomeType, NEW fs \in Seq(FrameType), NEW tok, NEW at,
         NumbersAlike(o, tok, at), Unnamed(fs)
  PROVE  NumbersAlike(Followed(o, fs), tok, at)
<1>1. CASE o.st # "run"
  BY <1>1, FollowedType DEF NumbersAlike
<1>2. CASE o.st = "run"
  <2>1. /\ Followed(o, fs).push = o.push \o fs /\ Followed(o, fs).add = o.add
        /\ o.push \in Seq(FrameType)
    BY <1>2, FollowedType DEF OutcomeType
  <2>2. CASE tok.t = "sym"
    <3>1. o.add = <<>> /\ Naming(o.push, at) /\ o.push[1].k = "item"
      BY <1>2, <2>2 DEF NumbersAlike
    <3>2. Naming(o.push \o fs, at) /\ (o.push \o fs)[1] = o.push[1]
      BY <2>1, <3>1, NamingConcat
    <3> QED BY <2>1, <2>2, <3>1, <3>2 DEF NumbersAlike
  <2>3. CASE tok.t # "sym"
    <3>1. o.add = Numbers(tok, at) /\ Unnamed(o.push)
      BY <1>2, <2>3 DEF NumbersAlike
    <3>2. Unnamed(o.push \o fs)
      BY <2>1, <3>1, UnnamedConcat
    <3> QED BY <2>1, <2>3, <3>1, <3>2 DEF NumbersAlike
  <2> QED BY <2>2, <2>3
<1> QED BY <1>1, <1>2

LEMMA ItemNumbers ==
  ASSUME NEW m \in {"read", "skip", "scan", "table", "first"}, NEW d \in Nat,
         NEW tok \in Token, NEW refs \in Seq(RefType), NEW at \in Nat
  PROVE  NumbersAlike(item(m, d, tok, refs, at), tok, at)
<1>1. Bare(tok) \in Token /\ Bare(tok).t = tok.t
  BY DEF Bare, Token
<1>2. Attributes("sel", d, tok) \in Seq(FrameType) /\ Unnamed(Attributes("sel", d, tok))
  BY AttributesType, FewUnnamed
<1>3. NumbersAlike(scan_column_from_header(d, tok, refs, at), tok, at)
  <2>1. call("skip", d, Bare(tok), refs, at) \in OutcomeType
    BY <1>1, CallType
  <2>2. NumbersAlike(call("skip", d, Bare(tok), refs, at), Bare(tok), at)
    BY <1>1, CallNumbers
  <2>3. NumbersAlike(call("skip", d, Bare(tok), refs, at), tok, at)
    BY <1>1, <2>2 DEF NumbersAlike, Numbers
  <2>4. scan_column_from_header(d, tok, refs, at)
          = Followed(call("skip", d, Bare(tok), refs, at), Attributes("sel", d, tok))
    BY DEF scan_column_from_header, Bare
  <2> QED BY <1>2, <2>1, <2>3, <2>4, FollowedNumbers
<1>4. NumbersAlike(scan_vector_from_header(d, tok, refs, at), tok, at)
  <2>1. CASE tok.t = "vec"
    <3> DEFINE parts == Rest("scan", tok.n, d) \o Attributes("sel", d, tok)
    <3>1. Rest("scan", tok.n, d) \in Seq(FrameType)
      BY RestType DEF Token
    <3>2. Unnamed(parts) /\ parts \in Seq(FrameType)
      BY <1>2, <3>1, FewUnnamed, UnnamedConcat
    <3>3. scan_vector_from_header(d, tok, refs, at) = Go(parts) /\ tok.t \notin Numbered
      BY <2>1 DEF scan_vector_from_header, Numbered
    <3> HIDE DEF parts
    <3> QED BY <3>2, <3>3, NothingNumbered
  <2>2. CASE tok.t # "vec"
    BY <1>3, <2>2 DEF scan_vector_from_header
  <2> QED BY <2>1, <2>2
<1>5. CASE m \in {"read", "skip"}
  BY <1>5, CallNumbers, ItemWalkType
<1>6. CASE m \in {"scan", "table", "first"}
  BY <1>3, <1>4, <1>6, ItemWalkType
<1> QED BY <1>5, <1>6

\* Every call makes a pass number what R has numbered at the header.
LEMMA ExpectNumbers ==
  ASSUME NEW f \in FrameType, f.k \in Calls, NEW tok \in Token,
         NEW refs \in Seq(RefType), NEW at \in Nat, NEW choice \in BOOLEAN
  PROVE  NumbersAlike(expect(f, tok, refs, at, choice), tok, at)
<1> DEFINE next == expect(f, tok, refs, at, choice)
<1>1. f.d \in Nat /\ Proper(f)
  BY DEF FrameType
<1>2. CASE f.k = "root"
  <2> DEFINE parts == Rest(f.m, tok.n, f.d) \o Attributes("read", f.d, tok)
  <2>1. next = root(f.m, f.d, tok)
    BY <1>2, ExpectDispatch
  <2>2. /\ Rest(f.m, tok.n, f.d) \in Seq(FrameType)
        /\ Attributes("read", f.d, tok) \in Seq(FrameType)
    BY <1>1, <1>2, RestType, AttributesType DEF Proper, Token
  <2>3. parts \in Seq(FrameType) /\ Unnamed(parts)
    BY <1>1, <2>2, FewUnnamed, UnnamedConcat
  <2>4. root(f.m, f.d, tok) = Stop("root") \/ (tok.t = "vec" /\ root(f.m, f.d, tok) = Go(parts))
    BY DEF root
  <2>5. NumbersAlike(Stop("root"), tok, at)
    BY StopNumbers DEF Errors
  <2> HIDE DEF parts
  <2>6. tok.t = "vec" => NumbersAlike(Go(parts), tok, at)
    BY <2>3, NothingNumbered DEF Numbered
  <2> QED BY <2>1, <2>4, <2>5, <2>6
<1>3. CASE f.k = "item"
  <2>1. next = item(f.m, f.d, tok, refs, at) /\ f.m \in {"read", "skip"}
    BY <1>1, <1>3, ExpectDispatch DEF Proper
  <2> QED BY <1>1, <2>1, ItemNumbers
<1>4. CASE f.k = "rest"
  <2>1. next = element(f, tok, refs, at, choice)
    BY <1>4, ExpectDispatch
  <2>2. Here(f, choice) \in {"read", "skip", "scan", "table", "first"}
    BY <1>1, <1>4 DEF Here, Proper
  <2>3. NumbersAlike(item(Here(f, choice), f.d, tok, refs, at), tok, at)
    BY <1>1, <2>2, ItemNumbers
  <2>4. Unnamed(Rest(Later(f, tok, choice), f.n - 1, f.d))
    BY <1>1, FewUnnamed
  <2> QED BY <1>4, <2>1, <2>3, <2>4, ElementType, FollowedNumbers
<1>5. CASE f.k = "altpart" /\ tok.t = "list"
  <2>1. next = Go(cell("cons", "read", "read", f.d, tok)) /\ tok.t \notin Numbered
    BY <1>5, ExpectDispatch DEF read_cons_chain, Numbered
  <2>2. /\ cell("cons", "read", "read", f.d, tok) \in Seq(FrameType)
        /\ Unnamed(cell("cons", "read", "read", f.d, tok))
    BY <1>1, CellType, FewUnnamed
  <2> QED BY <2>1, <2>2, NothingNumbered
<1>6. CASE f.k = "altpart" /\ tok.t # "list"
  <2>1. next = call("read", f.d, tok, refs, at)
    BY <1>6, ExpectDispatch
  <2> QED BY <1>1, <2>1, CallNumbers
<1>7. CASE f.k \in {"attrs", "next"} /\ tok.t = "nil"
  <2>1. next = Go(<<>>) /\ tok.t \notin Numbered
    BY <1>7, ExpectDispatch DEF Numbered
  <2> QED BY <2>1, GoNumbers
<1>8. CASE f.k \in {"attrs", "next"} /\ tok.t = "list"
  <2>1. next = Go(pairlist(f.m, f.d, tok, choice)) /\ tok.t \notin Numbered
    BY <1>8, ExpectDispatch DEF Numbered
  <2>2. f.m \in {"read", "cons", "skip", "sel"}
    BY <1>1, <1>8 DEF Proper
  <2>3. pairlist(f.m, f.d, tok, choice) \in Seq(FrameType)
    BY <1>1, <2>2, PairlistDispatch, CellType
  <2>4. Unnamed(pairlist(f.m, f.d, tok, choice))
    BY <1>1, <2>2, PairlistDispatch, FewUnnamed
  <2> QED BY <2>1, <2>3, <2>4, NothingNumbered
<1>9. CASE f.k = "attrs" /\ tok.t \notin {"nil", "list"}
  <2>1. next = Stop("attrs")
    BY <1>9, ExpectDispatch
  <2> QED BY <2>1, StopNumbers DEF Errors
<1>10. CASE f.k = "next" /\ tok.t \notin {"nil", "list"}
  <2>1. next = tail(f, tok, refs, at)
    BY <1>10, ExpectDispatch
  <2>2. f.m \in {"read", "cons", "skip", "sel"}
    BY <1>1, <1>10 DEF Proper
  <2>3. NumbersAlike(Stop("dotted"), tok, at)
    BY StopNumbers DEF Errors
  <2>4. /\ NumbersAlike(call("read", f.d, tok, refs, at), tok, at)
        /\ NumbersAlike(call("skip", f.d, tok, refs, at), tok, at)
    BY <1>1, CallNumbers
  <2> QED BY <2>1, <2>2, <2>3, <2>4 DEF tail
<1> QED
  BY <1>2, <1>3, <1>4, <1>5, <1>6, <1>7, <1>8, <1>9, <1>10 DEF Calls

\* The name of a symbol, a CHARSXP without attributes, leads to no call.
LEMMA NameIsRead ==
  ASSUME NEW f \in FrameType, f.k = "item", NEW tok \in Token, tok.t = "leaf", ~tok.attr,
         NEW refs \in Seq(RefType), NEW at \in Nat, NEW choice,
         expect(f, tok, refs, at, choice).st = "run"
  PROVE  /\ expect(f, tok, refs, at, choice).push = <<>>
         /\ expect(f, tok, refs, at, choice).add = <<>>
<1>1. f.d \in Nat /\ f.m \in {"read", "skip"} /\ f.d + 1 \in Nat
  BY DEF FrameType, Proper
<1>2. expect(f, tok, refs, at, choice) = call(f.m, f.d, tok, refs, at)
  BY <1>1, ExpectDispatch, ItemWalkType
<1>3. f.d + 1 > MaxDepth \/ f.d + 1 <= MaxDepth
  BY <1>1, LimitsAssumption
<1>4. expect(f, tok, refs, at, choice)
        \in {Stop("depth"), Stop("alloc"), Go(Attributes("read", f.d + 1, tok)),
             Go(Attributes("skip", f.d + 1, tok))}
  <2>1. CASE f.d + 1 > MaxDepth
    BY <1>1, <1>2, <2>1, CallType
  <2>2. CASE f.d + 1 <= MaxDepth /\ f.m = "read"
    <3>1. call(f.m, f.d, tok, refs, at) = read_item_from_header(f.d + 1, tok, refs, at)
      BY <1>1, <2>2, CallType
    <3> QED BY <1>2, <3>1, ReadDispatch
  <2>3. CASE f.d + 1 <= MaxDepth /\ f.m = "skip"
    <3>1. call(f.m, f.d, tok, refs, at) = skip_item_from_header(f.d + 1, tok, refs, at)
      BY <1>1, <2>3, CallType
    <3> QED BY <1>2, <3>1, SkipDispatch
  <2> QED BY <1>1, <1>3, <2>1, <2>2, <2>3
<1>5. Attributes("read", f.d + 1, tok) = <<>> /\ Attributes("skip", f.d + 1, tok) = <<>>
  BY DEF Attributes
<1> QED BY <1>4, <1>5 DEF Stop, Go

-----------------------------------------------------------------------------
LEMMA FeedNumbers ==
  ASSUME IInv, SameEnd, Numbering, NEW tok \in Tokens, NEW choice \in BOOLEAN, Feed(tok, choice)
  PROVE  Numbering'
<1> SUFFICES ASSUME regular', full'.st = "run"
             PROVE  \/ full'.refs = written' /\ Unnamed(full'.stack)
                    \/ \E at \in Nat : /\ written' = Append(full'.refs, [k |-> "sym", at |-> at])
                                       /\ Naming(full'.stack, at)
  BY DEF Numbering
<1> DEFINE o == expect(Head(full.stack), tok, full.refs, fed + 1, FALSE)
<1>1. /\ full \in PassType /\ part \in PassType /\ fed \in Nat /\ fed + 1 \in Nat
      /\ tok \in Token /\ written \in Seq(RefType)
  BY TokensAssumption DEF IInv, TypeOK
<1>2. Running(full)
  <2>1. full.st = "run"
    <3>1. ~Running(full) => full' = full
      BY DEF Feed, Take
    <3> QED BY <3>1 DEF Running
  <2>2. CASE full.stack = <<>>
    <3>1. Running(part) /\ part.st = "run" /\ part.stack # <<>>
      BY <2>2 DEF Feed, Running
    <3> QED BY <2>1, <2>2, <3>1 DEF SameEnd, BothOk, Done
  <2> QED BY <2>1, <2>2 DEF Running
<1>3. /\ full.st = "run" /\ full.stack \in Seq(FrameType) /\ full.stack # <<>>
      /\ full.refs \in Seq(RefType) /\ Head(full.stack) = full.stack[1]
      /\ Head(full.stack) \in FrameType /\ Head(full.stack).k \in Calls
      /\ Head(full.stack).k # "symEnd"
  <2>1. full.stack \in Seq(FrameType) /\ full.stack # <<>> /\ full.refs \in Seq(RefType)
    BY <1>1, <1>2 DEF Running, PassType
  <2>2. Head(full.stack) \in FrameType /\ Head(full.stack) = full.stack[1]
    BY <2>1
  <2>3. Head(full.stack).k \notin Returns
    BY <1>2 DEF Feed, Returning
  <2> QED BY <1>2, <2>1, <2>2, <2>3 DEF Running, FrameType, Returns
<1>4. o \in OutcomeType /\ NumbersAlike(o, tok, fed + 1)
  <2> DEFINE none == FALSE
  <2>1. none \in BOOLEAN
    OBVIOUS
  <2>2. expect(Head(full.stack), tok, full.refs, fed + 1, none) \in OutcomeType
    <3> HIDE DEF none
    <3> QED BY <1>1, <1>3, <2>1, ExpectType
  <2>3. NumbersAlike(expect(Head(full.stack), tok, full.refs, fed + 1, none), tok, fed + 1)
    <3> HIDE DEF none
    <3> QED BY <1>1, <1>3, <2>1, ExpectNumbers
  <2> QED BY <2>2, <2>3
<1>5. full' = After(full, o)
  BY <1>2 DEF Feed, Take
<1>6. regular /\ (AwaitsName(full) => tok.t = "leaf" /\ ~tok.attr)
  BY DEF Feed, Write
<1>7. written' = written \o Numbers(tok, fed + 1)
  BY <1>1 DEF Feed, Write, Numbers
<1> HIDE DEF o
<1>8. /\ Tail(full.stack) \in Seq(FrameType) /\ o.push \in Seq(FrameType)
      /\ o.add \in Seq(RefType)
  <2>1. o.push \in Seq(FrameType) /\ o.add \in Seq(RefType)
    BY <1>4 DEF OutcomeType
  <2> QED BY <1>3, <2>1
<1>9. /\ o.st = "run"
      /\ full'.stack = o.push \o Tail(full.stack) /\ full'.refs = full.refs \o o.add
  BY <1>1, <1>3, <1>4, <1>5, AfterType
<1>10. CASE full.refs = written /\ Unnamed(full.stack)
  <2>1. Unnamed(Tail(full.stack))
    BY <1>3, <1>10, UnnamedTail
  <2>2. CASE tok.t = "sym"
    <3>1. o.add = <<>> /\ Naming(o.push, fed + 1)
      BY <1>4, <1>9, <2>2 DEF NumbersAlike
    <3>2. Naming(o.push \o Tail(full.stack), fed + 1)
      <4> HIDE DEF Naming
      <4> QED BY <1>8, <2>1, <3>1, NamingConcat
    <3>3. Naming(full'.stack, fed + 1)
      BY <1>9, <3>2
    <3>4. full'.refs = written
      BY <1>1, <1>3, <1>9, <1>10, <3>1
    <3>5. written' = Append(full'.refs, [k |-> "sym", at |-> fed + 1])
      BY <1>1, <1>7, <2>2, <3>4 DEF Numbers, Numbered
    <3> QED BY <1>1, <3>3, <3>5
  <2>3. CASE tok.t # "sym"
    <3>1. o.add = Numbers(tok, fed + 1) /\ Unnamed(o.push)
      BY <1>4, <1>9, <2>3 DEF NumbersAlike
    <3>2. Unnamed(full'.stack)
      BY <1>8, <1>9, <2>1, <3>1, UnnamedConcat
    <3> QED BY <1>7, <1>9, <1>10, <3>1, <3>2
  <2> QED BY <2>2, <2>3
<1>11. ASSUME NEW at \in Nat, written = Append(full.refs, [k |-> "sym", at |-> at]),
              Naming(full.stack, at)
       PROVE  /\ written' = Append(full'.refs, [k |-> "sym", at |-> at])
              /\ Naming(full'.stack, at)
  <2>1. /\ Len(full.stack) > 1 /\ full.stack[1].k = "item"
        /\ full.stack[2].k = "symEnd" /\ full.stack[2].n = at
        /\ \A i \in 3 .. Len(full.stack) : full.stack[i].k # "symEnd"
    BY <1>3, <1>11 DEF Naming
  <2>2. tok.t = "leaf" /\ ~tok.attr
    BY <1>6, <2>1 DEF AwaitsName
  <2>3. o.push = <<>> /\ o.add = <<>>
    BY <1>1, <1>3, <1>9, <2>1, <2>2, NameIsRead DEF o
  <2>4. full'.stack = Tail(full.stack) /\ full'.refs = full.refs
    BY <1>3, <1>8, <1>9, <2>3
  <2>5. written' = written
    BY <1>1, <1>7, <2>2 DEF Numbers, Numbered
  <2>6. /\ Len(Tail(full.stack)) = Len(full.stack) - 1
        /\ \A i \in 1 .. Len(full.stack) - 1 : Tail(full.stack)[i] = full.stack[i + 1]
    BY <1>3
  <2>7. Naming(Tail(full.stack), at)
    <3> DEFINE m == Len(full.stack)
               t == Tail(full.stack)
    <3>1. m \in Nat /\ m > 1 /\ Len(t) = m - 1 /\ t[1] = full.stack[2]
      BY <1>3, <2>1, <2>6
    <3>2. \A i \in 2 .. m - 1 : t[i] = full.stack[i + 1] /\ i + 1 \in 3 .. m
      BY <2>6, <3>1
    <3> QED BY <2>1, <3>1, <3>2 DEF Naming
  <2> QED BY <1>11, <2>4, <2>5, <2>7
<1> QED BY <1>3, <1>6, <1>10, <1>11 DEF Numbering

LEMMA ReturnNumbers ==
  ASSUME IInv, Numbering, Return
  PROVE  Numbering'
<1>1. /\ full \in PassType /\ written \in Seq(RefType)
      /\ full' = Resume(full) /\ written' = written /\ regular' = regular
  BY DEF IInv, TypeOK, Return
<1>2. CASE ~Returning(full)
  <2>1. full' = full
    BY <1>1, <1>2 DEF Resume
  <2> QED BY <1>1, <2>1 DEF Numbering
<1>3. CASE Returning(full)
  <2> SUFFICES ASSUME regular', full'.st = "run"
               PROVE  full'.refs = written' /\ Unnamed(full'.stack)
    BY DEF Numbering
  <2> DEFINE o == resume(Head(full.stack), full.refs)
  <2>1. /\ full.st = "run" /\ full.stack \in Seq(FrameType) /\ full.stack # <<>>
        /\ full.refs \in Seq(RefType) /\ Head(full.stack) = full.stack[1]
        /\ Head(full.stack) \in FrameType /\ Head(full.stack).k \in Returns
    <3>1. full.st = "run" /\ full.stack # <<>> /\ Head(full.stack).k \in Returns
      BY <1>3 DEF Returning, Running
    <3>2. full.stack \in Seq(FrameType) /\ full.refs \in Seq(RefType)
      BY <1>1 DEF PassType
    <3> QED BY <3>1, <3>2
  <2>2. full' = After(full, o) /\ o \in OutcomeType
    BY <1>1, <1>3, <2>1, ResumeType DEF Resume
  <2>3. /\ Tail(full.stack) \in Seq(FrameType)
        /\ o.st = "run" /\ full'.stack = o.push \o Tail(full.stack)
        /\ full'.refs = full.refs \o o.add
    <3> HIDE DEF o
    <3>1. Tail(full.stack) \in Seq(FrameType)
      BY <2>1
    <3>2. After(full, o).st = o.st
      BY <1>1, <2>1, <2>2, AfterType
    <3>3. o.st = "run"
      BY <2>2, <3>2
    <3>4. full'.stack = o.push \o Tail(full.stack) /\ full'.refs = full.refs \o o.add
      BY <1>1, <2>1, <2>2, <3>3, AfterType
    <3> QED BY <3>1, <3>3, <3>4
  <2>4. CASE full.refs = written /\ Unnamed(full.stack)
    <3>1. Head(full.stack).k = "altEnd"
      <4>1. 1 \in DOMAIN full.stack
        BY <2>1
      <4> QED BY <2>1, <2>4, <4>1 DEF Unnamed, Returns
    <3>2. o.push = <<>> /\ o.add = <<>>
      BY <2>3, <3>1 DEF resume, Stop, Go
    <3>3. Unnamed(Tail(full.stack))
      BY <2>1, <2>4, UnnamedTail
    <3> HIDE DEF o
    <3>4. full'.stack = Tail(full.stack) /\ full'.refs = full.refs
      BY <2>1, <2>3, <3>2
    <3> QED BY <1>1, <2>4, <3>3, <3>4
  <2>5. ASSUME NEW at \in Nat, written = Append(full.refs, [k |-> "sym", at |-> at]),
               Naming(full.stack, at)
        PROVE  full'.refs = written' /\ Unnamed(full'.stack)
    <3>1. full.stack[1].k = "symEnd" /\ full.stack[1].n = at
      BY <2>1, <2>5 DEF Naming, Returns
    <3>2. o.push = <<>> /\ o.add = << [k |-> "sym", at |-> at] >>
      BY <2>1, <2>3, <3>1 DEF resume, add_reference, Register, Stop
    <3>3. Unnamed(Tail(full.stack))
      BY <2>1, <2>5, <3>1, UnnamedTail
    <3> HIDE DEF o
    <3>4. full'.stack = Tail(full.stack)
      BY <2>3, <3>2
    <3>5. full'.refs = written
      BY <2>1, <2>3, <2>5, <3>2
    <3> QED BY <1>1, <3>3, <3>4, <3>5
  <2>6. regular
    BY <1>1
  <2> QED BY <2>1, <2>4, <2>5, <2>6 DEF Numbering
<1> QED BY <1>2, <1>3

LEMMA NumberingNext == IInv /\ SameEnd /\ Numbering /\ [Next]_vars => Numbering'
<1> SUFFICES ASSUME IInv, SameEnd, Numbering, [Next]_vars
             PROVE  Numbering'
  OBVIOUS
<1>1. ASSUME NEW tok \in Tokens, NEW choice \in BOOLEAN, Feed(tok, choice)
      PROVE  Numbering'
  BY <1>1, FeedNumbers
<1>2. CASE Return
  BY <1>2, ReturnNumbers
<1>3. CASE Truncated
  <2>1. full'.st = "run" => full' = full
    BY <1>3 DEF Truncated, Failed
  <2> QED BY <1>3, <2>1 DEF Numbering, Truncated
<1>4. CASE UNCHANGED vars
  BY <1>4 DEF Numbering, vars
<1> QED BY <1>1, <1>2, <1>3, <1>4 DEF Next

LEMMA NumberingInit == Init => Numbering
<1> SUFFICES ASSUME Init PROVE Numbering
  OBVIOUS
<1>1. full.refs = <<>> /\ written = <<>> /\ full.stack = <<Item("read", 0)>>
  BY DEF Init, Start
<1>2. Unnamed(full.stack)
  BY <1>1 DEF Unnamed, Item, Frame
<1> QED BY <1>1, <1>2 DEF Numbering

\* Every index R wrote finds the object R meant: in a stream that R could have
\* written, the table of the full read is R's own numbering, but for a symbol
\* whose name is still being read (add_reference behind the name, _core.py).
THEOREM NumbersAsWritten == Spec => []WriterNumbering
<1>1. IInv /\ Numbering => WriterNumbering
  <2> SUFFICES ASSUME IInv, Numbering, regular, full.st = "run"
               PROVE  \/ full.refs = written
                      \/ /\ \E i \in DOMAIN full.stack : full.stack[i].k = "symEnd"
                         /\ written # <<>>
                         /\ full.refs = SubSeq(written, 1, Len(written) - 1)
    BY DEF WriterNumbering
  <2>1. full.refs \in Seq(RefType) /\ full.stack \in Seq(FrameType)
    BY DEF IInv, TypeOK, PassType
  <2>2. ASSUME NEW at \in Nat, written = Append(full.refs, [k |-> "sym", at |-> at]),
               Naming(full.stack, at)
        PROVE  /\ \E i \in DOMAIN full.stack : full.stack[i].k = "symEnd"
               /\ written # <<>>
               /\ full.refs = SubSeq(written, 1, Len(written) - 1)
    <3>1. \E i \in DOMAIN full.stack : full.stack[i].k = "symEnd"
      BY <2>1, <2>2 DEF Naming
    <3>2. [k |-> "sym", at |-> at] \in RefType
      BY DEF RefType, Numbered
    <3> DEFINE last == [k |-> "sym", at |-> at]
    <3> HIDE DEF last
    <3>3. written = Append(full.refs, last) /\ last \in RefType
      BY <2>2, <3>2 DEF last
    <3>4. Len(written) = Len(full.refs) + 1 /\ written # <<>>
      BY <2>1, <3>3
    <3>5. full.refs = SubSeq(written, 1, Len(written) - 1)
      BY <2>1, <3>3, <3>4
    <3> QED BY <3>1, <3>4, <3>5
  <2> QED BY <2>2 DEF Numbering
<1> QED BY <1>1, NumberingInit, NumberingNext, AlwaysTogether, EndsAgree, PTL DEF Spec
=============================================================================
