---------------------------- MODULE ReadingProofs ----------------------------
(***************************************************************************)
(* Frames under the names that tell their columns apart, and the two ways   *)
(* to read them.                                                             *)
(*                                                                         *)
(* A dataset: for any file, any other that takes its place at any time, and *)
(* any selection, what a call reads comes from one version of the file, and, *)
(* as long as nobody replaces it, has the schema that the dataset showed;    *)
(* what was accepted is refused later for four reasons only.                  *)
(*                                                                         *)
(* A collection: for any number of files, whatever they hold and however     *)
(* they are replaced, what a terminal yields is each file's own or filled    *)
(* where the file lacked it; no column changes its type between files; and   *)
(* what the plan accepts is read.                                            *)
(***************************************************************************)
EXTENDS TableAccess, Collection, FiniteSetTheorems, TLAPS

-----------------------------------------------------------------------------
(* Sequences that grow at their ends. *)

IsSequence(s) == s \in Seq(ToSet(s))

\* A sequence goes on being one, with one element more.
LEMMA AppendGrows ==
  ASSUME NEW s, IsSequence(s), NEW e
  PROVE  IsSequence(Append(s, e)) /\ ToSet(Append(s, e)) = ToSet(s) \cup {e}
<1>1. s \in Seq(ToSet(s) \cup {e}) /\ Len(s) \in Nat /\ DOMAIN s = 1 .. Len(s)
  BY DEF IsSequence
<1>2. /\ DOMAIN Append(s, e) = 1 .. Len(s) + 1
      /\ Append(s, e)[Len(s) + 1] = e /\ \A i \in 1 .. Len(s) : Append(s, e)[i] = s[i]
      /\ Append(s, e) \in Seq(ToSet(s) \cup {e})
  BY <1>1
<1>3. ToSet(Append(s, e)) = ToSet(s) \cup {e}
  <2> DEFINE t == Append(s, e)
  <2> HIDE DEF t
  <2>1. DOMAIN t = 1 .. Len(s) + 1 /\ t[Len(s) + 1] = e /\ \A i \in 1 .. Len(s) : t[i] = s[i]
    BY <1>2 DEF t
  <2>2. ToSet(t) = { t[i] : i \in 1 .. Len(s) + 1 } /\ ToSet(s) = { s[i] : i \in 1 .. Len(s) }
    BY <1>1, <2>1 DEF ToSet
  <2>3. ToSet(t) = ToSet(s) \cup {e}
    <3>1. 1 .. Len(s) + 1 = (1 .. Len(s)) \cup {Len(s) + 1}
      BY <1>1
    <3> QED BY <2>1, <2>2, <3>1
  <2> QED BY <2>3 DEF t
<1> QED BY <1>2, <1>3 DEF IsSequence

LEMMA EmptyIsSequence == IsSequence(<<>>) /\ ToSet(<<>>) = {}
BY DEF IsSequence, ToSet

\* A set of numbers has a least one: the intervals below its members are finite
\* sets, and among finite sets one is least.
LEMMA LeastNumber ==
  ASSUME NEW T, T \subseteq Nat, T # {}
  PROVE  \E x \in T : \A y \in T : x <= y
<1> DEFINE Intervals == {1 .. k : k \in T}
<1>1. IsWellFoundedOn(StrictSubsetOrdering(Nat), FiniteSubsetsOf(Nat))
  BY FS_StrictSubsetOrderingWellFounded
<1>2. Intervals \subseteq FiniteSubsetsOf(Nat)
  <2> SUFFICES ASSUME NEW k \in T PROVE 1 .. k \in FiniteSubsetsOf(Nat)
    OBVIOUS
  <2>1. IsFiniteSet(1 .. k)
    BY FS_Interval
  <2>2. 1 .. k \in SUBSET Nat
    OBVIOUS
  <2> QED BY <2>1, <2>2 DEF FiniteSubsetsOf
<1>3. Intervals # {}
  OBVIOUS
<1> HIDE DEF Intervals
<1>4. PICK s \in Intervals : \A u \in Intervals : ~(<<u, s>> \in StrictSubsetOrdering(Nat))
  BY <1>1, <1>2, <1>3, WFMin
<1>5. PICK x \in T : s = 1 .. x
  BY <1>4 DEF Intervals
<1>6. ASSUME NEW y \in T, y < x PROVE FALSE
  <2>1. 1 .. y \in Intervals
    BY DEF Intervals
  <2>2. 1 .. y \subseteq 1 .. x /\ x \in 1 .. x /\ x \notin 1 .. y
    BY <1>6
  <2>3. 1 .. y \in SUBSET Nat /\ 1 .. x \in SUBSET Nat /\ 1 .. y # 1 .. x
    BY <2>2
  <2>4. <<1 .. y, 1 .. x>> \in StrictSubsetOrdering(Nat)
    BY <2>2, <2>3 DEF StrictSubsetOrdering
  <2> QED BY <1>4, <1>5, <2>1, <2>4
<1> QED BY <1>5, <1>6

-----------------------------------------------------------------------------
(* The columns of a reading, one by one. *)

Key(frame, codec, i, existing) ==
  _unique_name(IF decode(frame[i].name, codec) = Blank THEN V(i) ELSE decode(frame[i].name, codec), existing)

NextKeyed(frame, codec, order, k, columns) ==
  Append(columns, Named(Key(frame, codec, order[k], ToSet(Names(columns))), frame[order[k]]))

\* g are the columns after each of the first m.
Keying(g, frame, codec, order, m) ==
  g = [k \in 0 .. m |-> IF k = 0 THEN <<>> ELSE NextKeyed(frame, codec, order, k, g[k - 1])]

LEMMA KeyingGoesOn ==
  ASSUME NEW frame, NEW codec, NEW order, NEW m \in Nat, NEW g, Keying(g, frame, codec, order, m)
  PROVE  \E h : Keying(h, frame, codec, order, m + 1)
<1> DEFINE U(k, columns) == NextKeyed(frame, codec, order, k, columns)
           h == [k \in 0 .. m + 1 |-> IF k = m + 1 THEN U(m + 1, g[m]) ELSE g[k]]
<1>1. g = [k \in 0 .. m |-> IF k = 0 THEN <<>> ELSE U(k, g[k - 1])]
  BY Zenon DEF Keying
<1> SUFFICES h = [k \in 0 .. m + 1 |-> IF k = 0 THEN <<>> ELSE U(k, h[k - 1])]
  BY Zenon DEF Keying
<1> HIDE DEF U
<1>2. \A k \in 0 .. m : h[k] = g[k]
  OBVIOUS
<1>3. h[m + 1] = U(m + 1, g[m])
  OBVIOUS
<1>4. h = [k \in 0 .. m + 1 |-> h[k]]
  OBVIOUS
<1> HIDE DEF h
<1>5. ASSUME NEW k \in 0 .. m + 1
      PROVE  h[k] = IF k = 0 THEN <<>> ELSE U(k, h[k - 1])
  <2>1. CASE k = m + 1
    <3>1. k # 0 /\ k - 1 = m /\ m \in 0 .. m
      BY <2>1
    <3> QED BY <1>2, <1>3, <2>1, <3>1
  <2>2. CASE k # m + 1
    <3>1. k \in 0 .. m /\ (k # 0 => k - 1 \in 0 .. m)
      BY <2>2
    <3> QED BY <1>1, <1>2, <3>1
  <2> QED BY <2>1, <2>2
<1> QED BY <1>4, <1>5

LEMMA KeyingExists ==
  ASSUME NEW frame, NEW codec, NEW order, NEW m \in Nat
  PROVE  \E g : Keying(g, frame, codec, order, m)
<1> DEFINE T == { k \in Nat : ~ \E g : Keying(g, frame, codec, order, k) }
<1> SUFFICES ASSUME T # {} PROVE FALSE
  OBVIOUS
<1>1. PICK k \in T : \A i \in T : k <= i
  BY LeastNumber
<1>2. CASE k = 0
  <2>1. Keying([i \in 0 .. 0 |-> <<>>], frame, codec, order, 0)
    BY DEF Keying
  <2> QED BY <1>1, <1>2, <2>1
<1>3. CASE k # 0
  <2>1. k - 1 \in Nat /\ (k - 1) + 1 = k /\ k - 1 \notin T
    BY <1>1, <1>3
  <2>2. \E g : Keying(g, frame, codec, order, k - 1)
    BY <2>1
  <2>3. \E g : Keying(g, frame, codec, order, k)
    BY <2>1, <2>2, KeyingGoesOn
  <2> QED BY <1>1, <2>3
<1> QED BY <1>2, <1>3

\* A reading is made column by column.
LEMMA KeyedIs ==
  ASSUME NEW frame, NEW codec, NEW order, Len(order) \in Nat
  PROVE  \E g : Keying(g, frame, codec, order, Len(order)) /\ Keyed(frame, codec, order) = g[Len(order)]
<1> DEFINE Is(g) == g = [k \in 0 .. Len(order) |-> IF k = 0 THEN <<>> ELSE NextKeyed(frame, codec, order, k, g[k - 1])]
           columns == CHOOSE g : Is(g)
<1>1. Keyed(frame, codec, order) = columns[Len(order)]
  BY Zenon DEF Keyed, NextKeyed, Key
<1>2. \E g : Is(g)
  <2>1. \E g : Keying(g, frame, codec, order, Len(order))
    BY KeyingExists
  <2> QED BY <2>1, Zenon DEF Keying
<1>3. Is(columns)
  BY <1>2, Zenon
<1>4. Keying(columns, frame, codec, order, Len(order))
  BY <1>3, Zenon DEF Keying
<1> QED BY <1>1, <1>4

IsFrame(frame) == IsSequence(frame) /\ \A i \in DOMAIN frame : IsSequence(frame[i].name)

-----------------------------------------------------------------------------
(* Sequences without their repetitions, element by element. *)

NextKept(s, k, kept) == IF s[k] \in ToSet(kept) THEN kept ELSE Append(kept, s[k])

\* g are the elements kept after each of the first m.
Keeping(g, s, m) == g = [k \in 0 .. m |-> IF k = 0 THEN <<>> ELSE NextKept(s, k, g[k - 1])]

LEMMA KeepingGoesOn ==
  ASSUME NEW s, NEW m \in Nat, NEW g, Keeping(g, s, m)
  PROVE  \E h : Keeping(h, s, m + 1)
<1> DEFINE U(k, kept) == NextKept(s, k, kept)
           h == [k \in 0 .. m + 1 |-> IF k = m + 1 THEN U(m + 1, g[m]) ELSE g[k]]
<1>1. g = [k \in 0 .. m |-> IF k = 0 THEN <<>> ELSE U(k, g[k - 1])]
  BY Zenon DEF Keeping
<1> SUFFICES h = [k \in 0 .. m + 1 |-> IF k = 0 THEN <<>> ELSE U(k, h[k - 1])]
  BY Zenon DEF Keeping
<1> HIDE DEF U
<1>2. \A k \in 0 .. m : h[k] = g[k]
  OBVIOUS
<1>3. h[m + 1] = U(m + 1, g[m])
  OBVIOUS
<1>4. h = [k \in 0 .. m + 1 |-> h[k]]
  OBVIOUS
<1> HIDE DEF h
<1>5. ASSUME NEW k \in 0 .. m + 1
      PROVE  h[k] = IF k = 0 THEN <<>> ELSE U(k, h[k - 1])
  <2>1. CASE k = m + 1
    <3>1. k # 0 /\ k - 1 = m /\ m \in 0 .. m
      BY <2>1
    <3> QED BY <1>2, <1>3, <2>1, <3>1
  <2>2. CASE k # m + 1
    <3>1. k \in 0 .. m /\ (k # 0 => k - 1 \in 0 .. m)
      BY <2>2
    <3> QED BY <1>1, <1>2, <3>1
  <2> QED BY <2>1, <2>2
<1> QED BY <1>4, <1>5

LEMMA KeepingExists ==
  ASSUME NEW s, NEW m \in Nat
  PROVE  \E g : Keeping(g, s, m)
<1> DEFINE T == { k \in Nat : ~ \E g : Keeping(g, s, k) }
<1> SUFFICES ASSUME T # {} PROVE FALSE
  OBVIOUS
<1>1. PICK k \in T : \A i \in T : k <= i
  BY LeastNumber
<1>2. CASE k = 0
  <2>1. Keeping([i \in 0 .. 0 |-> <<>>], s, 0)
    BY DEF Keeping
  <2> QED BY <1>1, <1>2, <2>1
<1>3. CASE k # 0
  <2>1. k - 1 \in Nat /\ (k - 1) + 1 = k /\ k - 1 \notin T
    BY <1>1, <1>3
  <2>2. \E g : Keeping(g, s, k - 1)
    BY <2>1
  <2>3. \E g : Keeping(g, s, k)
    BY <2>1, <2>2, KeepingGoesOn
  <2> QED BY <1>1, <2>3
<1> QED BY <1>2, <1>3

\* What is kept is made element by element.
LEMMA OnceTurns ==
  ASSUME NEW s, Len(s) \in Nat
  PROVE  \E g : /\ Once(s) = g[Len(s)] /\ g[0] = <<>>
                /\ \A k \in 1 .. Len(s) : g[k] = NextKept(s, k, g[k - 1])
<1> DEFINE Is(g) == g = [k \in 0 .. Len(s) |-> IF k = 0 THEN <<>> ELSE NextKept(s, k, g[k - 1])]
           kept == CHOOSE g : Is(g)
<1>1. Once(s) = kept[Len(s)]
  BY Zenon DEF Once, NextKept
<1>2. Is(kept)
  <2>1. \E g : Keeping(g, s, Len(s))
    BY KeepingExists
  <2>2. \E g : Is(g)
    BY <2>1, Zenon DEF Keeping
  <2> QED BY <2>2, Zenon
<1>3. kept[0] = <<>> /\ \A k \in 1 .. Len(s) : kept[k] = NextKept(s, k, kept[k - 1])
  <2> DEFINE U(k, done) == NextKept(s, k, done)
             g == kept
  <2>1. g = [k \in 0 .. Len(s) |-> IF k = 0 THEN <<>> ELSE U(k, g[k - 1])]
    BY <1>2, Zenon
  <2> HIDE DEF U, g
  <2>2. g[0] = <<>> /\ \A k \in 1 .. Len(s) : g[k] = U(k, g[k - 1])
    BY <2>1
  <2> QED BY <2>2 DEF U, g
<1> HIDE DEF kept
<1> QED BY <1>1, <1>3

LEMMA AppendNew ==
  ASSUME NEW s, IsSequence(s), IsInjective(s), NEW e, e \notin ToSet(s)
  PROVE  IsInjective(Append(s, e))
<1> SUFFICES ASSUME NEW t, t = Append(s, e) PROVE IsInjective(t)
  OBVIOUS
<1>1. s \in Seq(ToSet(s) \cup {e}) /\ Len(s) \in Nat /\ DOMAIN s = 1 .. Len(s)
  BY DEF IsSequence
<1>2. DOMAIN t = 1 .. Len(s) + 1 /\ t[Len(s) + 1] = e /\ \A i \in 1 .. Len(s) : t[i] = s[i]
  BY <1>1
<1>3. \A i \in 1 .. Len(s) : s[i] # e
  BY <1>1 DEF ToSet
<1>4. ASSUME NEW i \in DOMAIN t, NEW j \in DOMAIN t, t[i] = t[j] PROVE i = j
  <2>1. CASE i \in 1 .. Len(s) /\ j \in 1 .. Len(s)
    BY <1>1, <1>2, <1>4, <2>1 DEF IsInjective
  <2>2. CASE i = Len(s) + 1 \/ j = Len(s) + 1
    BY <1>1, <1>2, <1>3, <1>4, <2>2
  <2> QED BY <1>1, <1>2, <2>1, <2>2
<1> QED BY <1>4 DEF IsInjective

\* What is kept are the elements, each in one place.
LEMMA OnceIs ==
  ASSUME NEW s, IsSequence(s)
  PROVE  IsSequence(Once(s)) /\ IsInjective(Once(s)) /\ ToSet(Once(s)) = ToSet(s)
<1> DEFINE L == Len(s)
<1>1. L \in Nat /\ DOMAIN s = 1 .. L
  BY DEF IsSequence
<1>2. PICK g : /\ Once(s) = g[L] /\ g[0] = <<>>
               /\ \A k \in 1 .. L : g[k] = NextKept(s, k, g[k - 1])
  BY <1>1, OnceTurns
<1> DEFINE Sound(k) == IsSequence(g[k]) /\ IsInjective(g[k]) /\ ToSet(g[k]) = { s[j] : j \in 1 .. k }
           T == { k \in 0 .. L : ~ Sound(k) }
<1>3. Sound(0)
  BY <1>2, EmptyIsSequence DEF IsInjective
<1>4. ASSUME NEW k \in 1 .. L, Sound(k - 1) PROVE Sound(k)
  <2>1. { s[j] : j \in 1 .. k } = { s[j] : j \in 1 .. k - 1 } \cup {s[k]}
    <3>1. 1 .. k = (1 .. k - 1) \cup {k}
      BY <1>1
    <3> QED BY <3>1
  <2>2. CASE s[k] \in ToSet(g[k - 1])
    BY <1>2, <1>4, <2>1, <2>2 DEF NextKept
  <2>3. CASE s[k] \notin ToSet(g[k - 1])
    <3>1. g[k] = Append(g[k - 1], s[k])
      BY <1>2, <2>3 DEF NextKept
    <3>2. IsSequence(g[k]) /\ ToSet(g[k]) = ToSet(g[k - 1]) \cup {s[k]}
      BY <1>4, <3>1, AppendGrows
    <3>3. IsInjective(g[k])
      BY <1>4, <2>3, <3>1, AppendNew
    <3> QED BY <1>4, <2>1, <3>2, <3>3
  <2> QED BY <2>2, <2>3
<1>5. T = {}
  <2> HIDE DEF Sound
  <2> SUFFICES ASSUME T # {} PROVE FALSE
    OBVIOUS
  <2>1. T \subseteq Nat
    BY <1>1
  <2>2. PICK k \in T : \A i \in T : k <= i
    <3> HIDE DEF T
    <3> QED BY <2>1, LeastNumber
  <2>3. k # 0
    BY <1>3, <2>2
  <2>4. k \in 1 .. L /\ k - 1 \in 0 .. L /\ ~(k <= k - 1)
    BY <1>1, <2>2, <2>3
  <2>5. Sound(k - 1)
    BY <2>2, <2>4
  <2> QED BY <1>4, <2>2, <2>4, <2>5
<1>6. Sound(L)
  <2> HIDE DEF Sound
  <2>1. L \in 0 .. L
    BY <1>1
  <2> QED BY <1>5, <2>1
<1>7. ToSet(s) = { s[j] : j \in 1 .. L }
  BY <1>1 DEF ToSet
<1> QED BY <1>2, <1>6, <1>7

\* Of elements that are all different, all are kept, in their places.
LEMMA OncePlain ==
  ASSUME NEW s, IsSequence(s), IsInjective(s)
  PROVE  Once(s) = s
<1> DEFINE L == Len(s)
           Part(m) == [k \in 1 .. m |-> s[k]]
           S == ToSet(s)
<1>1. L \in Nat /\ DOMAIN s = 1 .. L /\ s \in Seq(S) /\ \A k \in 1 .. L : s[k] \in S
  BY DEF IsSequence
<1>2. PICK g : /\ Once(s) = g[L] /\ g[0] = <<>>
               /\ \A k \in 1 .. L : g[k] = NextKept(s, k, g[k - 1])
  BY <1>1, OnceTurns
<1>3. g[0] = Part(0)
  BY <1>2
<1> HIDE DEF S
<1>4. ASSUME NEW k \in 1 .. L, g[k - 1] = Part(k - 1) PROVE g[k] = Part(k)
  <2>1. k - 1 \in Nat /\ k \in Nat /\ \A j \in 1 .. k - 1 : j \in 1 .. L /\ j # k
    BY <1>1
  <2>2. s[k] \notin ToSet(Part(k - 1))
    <3>1. ToSet(Part(k - 1)) = { s[j] : j \in 1 .. k - 1 }
      BY DEF ToSet
    <3>2. \A j \in 1 .. k - 1 : s[j] # s[k]
      BY <1>1, <2>1 DEF IsInjective
    <3> QED BY <3>1, <3>2
  <2>3. g[k] = Append(Part(k - 1), s[k])
    <3> HIDE DEF Part
    <3> QED BY <1>2, <1>4, <2>2 DEF NextKept
  <2>4. Part(k - 1) \in Seq(S) /\ Len(Part(k - 1)) = k - 1 /\ s[k] \in S
    BY <1>1, <2>1
  <2>5. Append(Part(k - 1), s[k]) = Part(k)
    <3> DEFINE t == Append(Part(k - 1), s[k])
    <3>1. t \in Seq(S) /\ Len(t) = k
      BY <2>1, <2>4
    <3>2. ASSUME NEW j \in 1 .. k PROVE t[j] = s[j]
      <4>1. CASE j = k
        BY <2>1, <2>4, <4>1
      <4>2. CASE j # k
        <5>1. j \in 1 .. k - 1
          BY <2>1, <4>2
        <5>2. t[j] = Part(k - 1)[j]
          BY <2>1, <2>4, <5>1
        <5> QED BY <5>1, <5>2
      <4> QED BY <4>1, <4>2
    <3> HIDE DEF t
    <3>3. t = [j \in 1 .. k |-> t[j]]
      BY <3>1
    <3> QED BY <3>2, <3>3 DEF t
  <2> QED BY <2>3, <2>5
<1> DEFINE T == { k \in 0 .. L : g[k] # Part(k) }
<1>5. T = {}
  <2> HIDE DEF Part
  <2> SUFFICES ASSUME T # {} PROVE FALSE
    OBVIOUS
  <2>1. T \subseteq Nat
    BY <1>1
  <2>2. PICK k \in T : \A i \in T : k <= i
    <3> HIDE DEF T
    <3> QED BY <2>1, LeastNumber
  <2>3. k # 0
    BY <1>3, <2>2
  <2>4. k \in 1 .. L /\ k - 1 \in 0 .. L /\ ~(k <= k - 1)
    BY <1>1, <2>2, <2>3
  <2>5. g[k - 1] = Part(k - 1)
    BY <2>2, <2>4
  <2> QED BY <1>4, <2>2, <2>4, <2>5
<1>6. g[L] = Part(L)
  <2> HIDE DEF Part
  <2>1. L \in 0 .. L
    BY <1>1
  <2> QED BY <1>5, <2>1
<1>7. Part(L) = s
  BY <1>1
<1> QED BY <1>2, <1>6, <1>7

-----------------------------------------------------------------------------
(* What a catalog shows is what is read, if its names tell columns apart.    *)

\* The columns of a reading are those of the catalog, in the order asked for.
LEMMA KeyedPlain ==
  ASSUME NEW frame, IsFrame(frame), NEW codec, Proper(Names(Catalogued(frame, codec))),
         NEW order, IsSequence(order), ToSet(order) \subseteq DOMAIN frame, IsInjective(order)
  PROVE  Keyed(frame, codec, order) = [k \in 1 .. Len(order) |-> Catalogued(frame, codec)[order[k]]]
<1> DEFINE L == Len(order)
           shown == Catalogued(frame, codec)
           Part(m) == [k \in 1 .. m |-> shown[order[k]]]
<1>1. L \in Nat /\ DOMAIN order = 1 .. L /\ \A k \in 1 .. L : order[k] \in DOMAIN frame
  BY DEF IsSequence, ToSet
<1>2. PICK g : Keying(g, frame, codec, order, L) /\ Keyed(frame, codec, order) = g[L]
  BY <1>1, KeyedIs
<1>3. /\ g[0] = <<>>
      /\ \A k \in 1 .. L : g[k] = NextKeyed(frame, codec, order, k, g[k - 1])
  <2> DEFINE U(k, columns) == NextKeyed(frame, codec, order, k, columns)
  <2>1. g = [k \in 0 .. L |-> IF k = 0 THEN <<>> ELSE U(k, g[k - 1])]
    BY <1>2, Zenon DEF Keying
  <2> HIDE DEF U
  <2>2. g[0] = <<>> /\ \A k \in 1 .. L : g[k] = U(k, g[k - 1])
    BY <1>1, <2>1
  <2> QED BY <2>2 DEF U
<1>4. /\ \A i \in DOMAIN frame : shown[i] = Named(decode(frame[i].name, codec), frame[i]) /\ shown[i].name = decode(frame[i].name, codec)
      /\ \A i \in DOMAIN frame : shown[i].name # Blank
      /\ \A i, j \in DOMAIN frame : shown[i].name = shown[j].name => i = j
  <2>1. /\ DOMAIN shown = DOMAIN frame
        /\ \A i \in DOMAIN frame : shown[i] = Named(decode(frame[i].name, codec), frame[i])
    BY DEF Catalogued
  <2>2. \A i \in DOMAIN frame : shown[i].name = decode(frame[i].name, codec)
    BY <2>1 DEF Named
  <2> HIDE DEF shown
  <2>3. DOMAIN Names(shown) = DOMAIN frame /\ \A i \in DOMAIN frame : Names(shown)[i] = shown[i].name
    BY <2>1 DEF Names
  <2>4. IsInjective(Names(shown)) /\ Blank \notin ToSet(Names(shown))
    BY DEF Proper, shown
  <2>5. \A i \in DOMAIN frame : shown[i].name # Blank
    BY <2>3, <2>4 DEF ToSet
  <2>6. \A i, j \in DOMAIN frame : shown[i].name = shown[j].name => i = j
    BY <2>3, <2>4 DEF IsInjective
  <2> QED BY <2>1, <2>2, <2>5, <2>6
<1> HIDE DEF shown
<1>5. g[0] = Part(0)
  BY <1>3
<1>6. ASSUME NEW k \in 1 .. L, g[k - 1] = Part(k - 1) PROVE g[k] = Part(k)
  <2> DEFINE existing == ToSet(Names(g[k - 1]))
  <2>1. k - 1 \in Nat /\ k \in Nat
    BY <1>1
  <2>2. existing = { shown[order[j]].name : j \in 1 .. k - 1 }
    <3> DEFINE before == Part(k - 1)
    <3>1. DOMAIN before = 1 .. k - 1 /\ \A j \in 1 .. k - 1 : before[j] = shown[order[j]]
      OBVIOUS
    <3> HIDE DEF before
    <3>2. ToSet(Names(before)) = { before[j].name : j \in 1 .. k - 1 }
      BY <3>1 DEF ToSet, Names
    <3> QED BY <1>6, <3>1, <3>2 DEF before
  <2>3. shown[order[k]].name \notin existing
    <3>1. \A j \in 1 .. k - 1 : j \in 1 .. L /\ j # k
      BY <1>1
    <3>2. \A j \in 1 .. k - 1 : order[j] # order[k]
      BY <1>1, <3>1 DEF IsInjective
    <3> QED BY <1>1, <1>4, <2>2, <3>1, <3>2
  <2>4. Key(frame, codec, order[k], existing) = shown[order[k]].name
    <3> DEFINE name == decode(frame[order[k]].name, codec)
    <3>1. name = shown[order[k]].name /\ name # Blank /\ name \notin existing
      BY <1>1, <1>4, <2>3
    <3> HIDE DEF name, existing
    <3>2. _unique_name(name, existing) = name
      BY <3>1, Zenon DEF _unique_name
    <3>3. Key(frame, codec, order[k], existing) = _unique_name(IF name = Blank THEN V(order[k]) ELSE name, existing)
      BY Zenon DEF Key, name
    <3> QED BY <3>1, <3>2, <3>3
  <2>5. g[k] = Append(Part(k - 1), shown[order[k]])
    <3>1. g[k] = Append(g[k - 1], Named(Key(frame, codec, order[k], existing), frame[order[k]]))
      BY <1>3 DEF NextKeyed
    <3>2. Named(shown[order[k]].name, frame[order[k]]) = shown[order[k]]
      BY <1>1, <1>4
    <3> QED BY <1>6, <2>4, <3>1, <3>2
  <2> DEFINE S == { shown[order[j]] : j \in 1 .. k }
  <2>6. Part(k - 1) \in Seq(S) /\ Len(Part(k - 1)) = k - 1 /\ shown[order[k]] \in S
    BY <2>1
  <2>7. Append(Part(k - 1), shown[order[k]]) = Part(k)
    <3> DEFINE t == Append(Part(k - 1), shown[order[k]])
    <3>1. t \in Seq(S) /\ Len(t) = k
      BY <2>1, <2>6
    <3>2. ASSUME NEW j \in 1 .. k PROVE t[j] = shown[order[j]]
      <4>1. CASE j = k
        BY <2>1, <2>6, <4>1
      <4>2. CASE j # k
        <5>1. j \in 1 .. k - 1
          BY <2>1, <4>2
        <5>2. t[j] = Part(k - 1)[j]
          BY <2>1, <2>6, <5>1
        <5> QED BY <5>1, <5>2
      <4> QED BY <4>1, <4>2
    <3> HIDE DEF t
    <3>3. t = [j \in 1 .. k |-> t[j]]
      BY <3>1
    <3> QED BY <3>2, <3>3 DEF t
  <2> QED BY <2>5, <2>7
<1> DEFINE T == { k \in 0 .. L : g[k] # Part(k) }
<1>7. T = {}
  <2> HIDE DEF Part
  <2> SUFFICES ASSUME T # {} PROVE FALSE
    OBVIOUS
  <2>1. T \subseteq Nat
    BY <1>1
  <2>2. PICK k \in T : \A i \in T : k <= i
    <3> HIDE DEF T
    <3> QED BY <2>1, LeastNumber
  <2>3. k # 0
    BY <1>5, <2>2
  <2>4. k \in 1 .. L /\ k - 1 \in 0 .. L /\ ~(k <= k - 1)
    BY <1>1, <2>2, <2>3
  <2>5. g[k - 1] = Part(k - 1)
    BY <2>2, <2>4
  <2> QED BY <1>6, <2>2, <2>4, <2>5
<1>8. g[L] = Part(L)
  <2> HIDE DEF Part
  <2>1. L \in 0 .. L
    BY <1>1
  <2> QED BY <1>7, <2>1
<1> QED BY <1>2, <1>8 DEF shown

\* And so are those of a full read, in the order of the file.
LEMMA FullReadPlain ==
  ASSUME NEW frame, IsFrame(frame), NEW codec, Proper(Names(Catalogued(frame, codec)))
  PROVE  FullRead(frame, codec) = Catalogued(frame, codec)
<1> DEFINE order == [i \in DOMAIN frame |-> i]
<1>1. DOMAIN frame = 1 .. Len(frame) /\ Len(frame) \in Nat
  BY DEF IsFrame, IsSequence
<1>2. order \in Seq(DOMAIN frame) /\ ToSet(order) = DOMAIN frame /\ Len(order) = Len(frame)
  <2>1. ToSet(order) = { order[i] : i \in DOMAIN frame }
    BY DEF ToSet
  <2>2. order \in Seq(DOMAIN frame) /\ Len(order) = Len(frame)
    BY <1>1
  <2> QED BY <2>1, <2>2
<1>3. IsSequence(order) /\ IsInjective(order)
  BY <1>2 DEF IsSequence, IsInjective
<1>4. \A i \in 1 .. Len(frame) : order[i] = i
  BY <1>1
<1>5. FullRead(frame, codec) = Keyed(frame, codec, order)
  BY DEF FullRead
<1> HIDE DEF order
<1>6. Keyed(frame, codec, order) = [k \in 1 .. Len(order) |-> Catalogued(frame, codec)[order[k]]]
  BY <1>2, <1>3, KeyedPlain
<1>7. Catalogued(frame, codec) = [k \in 1 .. Len(frame) |-> Catalogued(frame, codec)[k]]
  BY <1>1 DEF Catalogued
<1> QED BY <1>2, <1>4, <1>5, <1>6, <1>7

\* Where each of the names is found.
Places(columns, names, count) ==
  [k \in DOMAIN ByName(columns) |-> Resolved(ByName(columns)[k], names, count)]

\* One of the names is that one.
Alone(names, name) == Cardinality({ i \in DOMAIN names : names[i] = name }) = 1

\* Names that can be found are found in one place each.
LEMMA SelectionFound ==
  ASSUME NEW columns, IsSequence(columns), NEW names, NEW count \in Nat,
         \A s \in ToSet(ByName(columns)) : Resolvable(s, names, count),
         NEW at, at = Places(columns, names, count)
  PROVE  /\ IsSequence(at) /\ Len(at) = Len(columns) /\ DOMAIN at = 1 .. Len(columns)
         /\ \A k \in 1 .. Len(columns) :
              /\ at[k] \in DOMAIN names /\ names[at[k]] = columns[k]
              /\ Alone(names, columns[k])
<1> DEFINE requested == ByName(columns)
           L == Len(columns)
<1>1. /\ L \in Nat /\ DOMAIN requested = 1 .. L
      /\ \A k \in 1 .. L : requested[k] = [name |-> columns[k]] /\ requested[k] \in ToSet(requested)
  <2>1. DOMAIN columns = 1 .. Len(columns) /\ Len(columns) \in Nat
    BY DEF IsSequence
  <2>2. requested = [k \in 1 .. Len(columns) |-> [name |-> columns[k]]]
    BY <2>1 DEF ByName
  <2> HIDE DEF requested
  <2>3. \A k \in 1 .. Len(columns) : requested[k] \in ToSet(requested)
    BY <2>2 DEF ToSet
  <2> QED BY <2>1, <2>2, <2>3
<1>2. at = [k \in 1 .. L |-> Resolved(requested[k], names, count)]
  BY <1>1 DEF Places
<1>3. \A s \in ToSet(requested) : Resolvable(s, names, count)
  OBVIOUS
<1> HIDE DEF requested
<1>4. ASSUME NEW k \in 1 .. L
      PROVE  /\ at[k] \in DOMAIN names /\ names[at[k]] = columns[k]
             /\ Alone(names, columns[k])
  <2> DEFINE places == { i \in DOMAIN names : names[i] = columns[k] }
  <2>1. ~ByIndex(requested[k]) /\ requested[k].name = columns[k]
    BY <1>1 DEF ByIndex
  <2>2. Matches(requested[k], names, count) = places
    BY <2>1 DEF Matches
  <2>3. Cardinality(places) = 1
    BY <1>1, <1>3, <2>2 DEF Resolvable
  <2>4. at[k] = CHOOSE i \in places : TRUE
    BY <1>2, <2>2 DEF Resolved
  <2>5. places # {}
    <3> HIDE DEF places
    <3> QED BY <2>3, FS_EmptySet
  <2>6. at[k] \in places
    <3> HIDE DEF places
    <3> QED BY <2>4, <2>5
  <2> QED BY <2>3, <2>6 DEF Alone
<1>5. IsSequence(at) /\ Len(at) = L
  <2>1. DOMAIN at = 1 .. L
    BY <1>2
  <2>2. ToSet(at) = { at[k] : k \in 1 .. L }
    BY <2>1 DEF ToSet
  <2>3. at = [k \in 1 .. L |-> at[k]]
    BY <1>2, <2>1
  <2>4. at \in Seq({ at[k] : k \in 1 .. L }) /\ Len(at) = L
    BY <1>1, <2>1, <2>3
  <2> QED BY <2>2, <2>4 DEF IsSequence
<1> QED BY <1>1, <1>2, <1>4, <1>5

LEMMA SelectionIsSequence ==
  ASSUME NEW requested, NEW names, NEW count, IsSequence(requested)
  PROVE  IsSequence(_resolve_column_selection(requested, names, count))
<1> DEFINE at == [n \in DOMAIN requested |-> Resolved(requested[n], names, count)]
<1>1. DOMAIN requested = 1 .. Len(requested) /\ Len(requested) \in Nat
  BY DEF IsSequence
<1>2. IsSequence(at)
  <2>1. ToSet(at) = { at[n] : n \in 1 .. Len(requested) }
    BY <1>1 DEF ToSet
  <2>2. at \in Seq({ at[n] : n \in 1 .. Len(requested) })
    BY <1>1
  <2> QED BY <2>1, <2>2 DEF IsSequence
<1>3. _resolve_column_selection(requested, names, count) = Once(at)
  BY DEF _resolve_column_selection
<1> HIDE DEF at
<1> QED BY <1>2, <1>3, OnceIs

\* Different names are found at different places, in the order asked for.
LEMMA SelectionPlain ==
  ASSUME NEW columns, IsSequence(columns), IsInjective(columns), NEW names, NEW count \in Nat,
         \A s \in ToSet(ByName(columns)) : Resolvable(s, names, count),
         NEW found, found = _resolve_column_selection(ByName(columns), names, count)
  PROVE  /\ IsSequence(found) /\ IsInjective(found) /\ Len(found) = Len(columns)
         /\ \A k \in 1 .. Len(columns) :
              /\ found[k] \in DOMAIN names /\ names[found[k]] = columns[k]
              /\ Alone(names, columns[k])
<1> DEFINE at == Places(columns, names, count)
<1>1. found = Once(at)
  BY DEF _resolve_column_selection, Places
<1> HIDE DEF at
<1>2. /\ IsSequence(at) /\ Len(at) = Len(columns) /\ DOMAIN at = 1 .. Len(columns)
      /\ \A k \in 1 .. Len(columns) :
           /\ at[k] \in DOMAIN names /\ names[at[k]] = columns[k]
           /\ Alone(names, columns[k])
  BY SelectionFound DEF at
<1>3. DOMAIN columns = 1 .. Len(columns)
  BY DEF IsSequence
<1>4. IsInjective(at)
  BY <1>2, <1>3 DEF IsInjective
<1>5. found = at
  BY <1>1, <1>2, <1>4, OncePlain
<1> QED BY <1>2, <1>4, <1>5

\* The first pass does not know the codec.  If it finds a name that the catalog
\* shows, it finds it at the column that the catalog shows under it.
LEMMA SamePlace ==
  ASSUME NEW frame, IsFrame(frame), NEW codec, IsInjective(Names(Catalogued(frame, codec))),
         NEW name, NEW i \in DOMAIN frame, decode(frame[i].name, DefaultCodec) = name,
         Cardinality({ k \in DOMAIN frame : decode(frame[k].name, DefaultCodec) = name }) = 1,
         NEW j \in DOMAIN frame, decode(frame[j].name, codec) = name
  PROVE  i = j
<1> DEFINE found == { k \in DOMAIN frame : decode(frame[k].name, DefaultCodec) = name }
<1>1. IsFiniteSet(found)
  <2>1. DOMAIN frame = 1 .. Len(frame) /\ Len(frame) \in Nat
    BY DEF IsFrame, IsSequence
  <2>2. IsFiniteSet(1 .. Len(frame))
    BY <2>1, FS_Interval
  <2> QED BY <2>1, <2>2, FS_Subset
<1>2. \E x : found = {x}
  <2> HIDE DEF found
  <2>1. Cardinality(found) = 1
    BY DEF found
  <2> QED BY <1>1, <2>1, FS_Singleton
<1>3. \A p, q \in DOMAIN frame : decode(frame[p].name, codec) = decode(frame[q].name, codec) => p = q
  <2> DEFINE shown == Catalogued(frame, codec)
  <2>1. DOMAIN Names(shown) = DOMAIN frame /\ \A k \in DOMAIN frame : Names(shown)[k] = decode(frame[k].name, codec)
    BY DEF Catalogued, Names, Named
  <2> HIDE DEF shown
  <2> QED BY <2>1 DEF IsInjective, shown
<1>4. CASE frame[j].name \notin Unflagged
  <2>1. j \in found
    BY <1>4 DEF decode
  <2> QED BY <1>2, <2>1
<1>5. CASE frame[i].name \notin Unflagged
  <2>1. decode(frame[i].name, codec) = name
    BY <1>5 DEF decode
  <2> QED BY <1>3, <2>1
<1>6. CASE frame[i].name \in Unflagged /\ frame[j].name \in Unflagged
  <2>1. Append(frame[i].name, DefaultCodec) = Append(frame[j].name, codec)
    BY <1>6 DEF decode
  <2>2. IsSequence(frame[i].name) /\ IsSequence(frame[j].name)
    BY DEF IsFrame
  <2> DEFINE s == frame[i].name
             t == frame[j].name
             S == ToSet(s) \cup ToSet(t) \cup {codec, DefaultCodec}
  <2>3. s \in Seq(S) /\ t \in Seq(S) /\ codec \in S /\ DefaultCodec \in S
    BY <2>2 DEF IsSequence
  <2> HIDE DEF s, t, S
  <2>4. Append(s, DefaultCodec) = Append(t, codec)
    BY <2>1 DEF s, t
  <2>5. Len(Append(s, DefaultCodec)) = Len(s) + 1 /\ Len(Append(t, codec)) = Len(t) + 1
        /\ Append(s, DefaultCodec)[Len(s) + 1] = DefaultCodec /\ Append(t, codec)[Len(t) + 1] = codec
        /\ Len(s) \in Nat /\ Len(t) \in Nat
    BY <2>3
  <2>6. codec = DefaultCodec
    BY <2>4, <2>5
  <2>7. j \in found
    BY <2>6
  <2> QED BY <1>2, <2>7
<1> QED BY <1>4, <1>5, <1>6

\* A reading has the name of each column that it takes, for some column, except
\* the blank one: the key of a column is its name, or the name exists already.
LEMMA KeyedHas ==
  ASSUME NEW frame, NEW codec, NEW order, IsSequence(order), NEW i \in ToSet(order),
         decode(frame[i].name, codec) # Blank
  PROVE  decode(frame[i].name, codec) \in ToSet(Names(Keyed(frame, codec, order)))
<1> DEFINE L    == Len(order)
           name == decode(frame[i].name, codec)
           all  == Keyed(frame, codec, order)
<1>1. DOMAIN order = 1 .. L /\ L \in Nat
  BY DEF IsSequence
<1>2. PICK p \in 1 .. L : order[p] = i
  BY <1>1 DEF ToSet
<1>3. PICK g : Keying(g, frame, codec, order, L) /\ all = g[L]
  BY <1>1, KeyedIs
<1>4. g[0] = <<>> /\ \A k \in 1 .. L : g[k] = NextKeyed(frame, codec, order, k, g[k - 1])
  <2> DEFINE U(k, columns) == NextKeyed(frame, codec, order, k, columns)
  <2>1. g = [k \in 0 .. L |-> IF k = 0 THEN <<>> ELSE U(k, g[k - 1])]
    BY <1>3, Zenon DEF Keying
  <2> HIDE DEF U, L
  <2>2. g[0] = <<>> /\ \A k \in 1 .. L : g[k] = U(k, g[k - 1])
    BY <1>1, <2>1
  <2> QED BY <2>2 DEF U
<1> HIDE DEF all, L
<1> DEFINE Right(k) == IsSequence(g[k]) /\ (p <= k => \E c \in ToSet(g[k]) : c.name = name)
           T        == { k \in 0 .. L : ~ Right(k) }
<1>5. Right(0)
  BY <1>1, <1>2, <1>4, EmptyIsSequence
<1>6. ASSUME NEW k \in 1 .. L, Right(k - 1) PROVE Right(k)
  <2> DEFINE existing == ToSet(Names(g[k - 1]))
             key      == Key(frame, codec, order[k], existing)
             e        == Named(key, frame[order[k]])
  <2>1. g[k] = Append(g[k - 1], e)
    BY <1>4 DEF NextKeyed
  <2>2. e.name = key
    BY DEF Named
  <2> HIDE DEF e, key, existing
  <2>3. IsSequence(g[k]) /\ ToSet(g[k]) = ToSet(g[k - 1]) \cup {e}
    BY <1>6, <2>1, AppendGrows
  <2>4. CASE p <= k - 1
    BY <1>6, <2>3, <2>4
  <2>5. CASE p = k
    <3>1. CASE name \in existing
      <4>1. \E c \in ToSet(g[k - 1]) : c.name = name
        BY <3>1 DEF existing, Names, ToSet
      <4> QED BY <2>3, <4>1
    <3>2. CASE name \notin existing
      <4>1. key = _unique_name(name, existing)
        BY <1>2, <2>5 DEF key, Key
      <4>2. key = name
        BY <3>2, <4>1, Zenon DEF _unique_name
      <4> QED BY <2>2, <2>3, <4>2
    <3> QED BY <3>1, <3>2
  <2>6. CASE ~(p <= k)
    BY <2>3, <2>6
  <2>7. p <= k - 1 \/ p = k \/ ~(p <= k)
    BY <1>1, <1>2
  <2> QED BY <2>4, <2>5, <2>6, <2>7
<1>7. T = {}
  <2> SUFFICES ASSUME T # {} PROVE FALSE
    OBVIOUS
  <2>1. T \subseteq Nat
    BY <1>1
  <2>2. PICK k \in T : \A j \in T : k <= j
    <3> HIDE DEF T
    <3> QED BY <2>1, LeastNumber
  <2>3. k # 0
    BY <1>5, <2>2
  <2>4. k \in 1 .. L /\ k - 1 \in 0 .. L /\ ~(k <= k - 1)
    BY <1>1, <2>2, <2>3
  <2>5. Right(k - 1)
    BY <2>2, <2>4
  <2> QED BY <1>6, <2>2, <2>4, <2>5
<1>8. \E c \in ToSet(all) : c.name = name
  <2>1. L \in 0 .. L /\ p <= L
    BY <1>1, <1>2
  <2> QED BY <1>3, <1>7, <2>1
<1> QED BY <1>8 DEF all, Names, ToSet

\* A full read has every name that the catalog shows, except the blank one.
LEMMA FullReadHas ==
  ASSUME NEW frame, IsFrame(frame), NEW codec, NEW i \in DOMAIN frame,
         decode(frame[i].name, codec) # Blank
  PROVE  decode(frame[i].name, codec) \in ToSet(Names(FullRead(frame, codec)))
<1> DEFINE order == [k \in DOMAIN frame |-> k]
<1>1. DOMAIN frame = 1 .. Len(frame) /\ Len(frame) \in Nat
  BY DEF IsFrame, IsSequence
<1>2. order \in Seq(DOMAIN frame) /\ ToSet(order) = DOMAIN frame
  <2>1. ToSet(order) = { order[k] : k \in DOMAIN frame }
    BY DEF ToSet
  <2>2. order \in Seq(DOMAIN frame)
    BY <1>1
  <2> QED BY <2>1, <2>2
<1>3. FullRead(frame, codec) = Keyed(frame, codec, order)
  BY DEF FullRead
<1> HIDE DEF order
<1>4. IsSequence(order) /\ i \in ToSet(order)
  BY <1>2 DEF IsSequence
<1> QED BY <1>3, <1>4, KeyedHas

\* Nothing that a catalog shows is missing from a full read but blanks.
LEMMA HasInFullRead ==
  ASSUME NEW frame, IsFrame(frame), NEW codec, NEW names, Has(Catalogued(frame, codec), names),
         Blank \notin ToSet(names)
  PROVE  Has(FullRead(frame, codec), names)
<1> SUFFICES ASSUME NEW n \in ToSet(names) PROVE n \in ToSet(Names(FullRead(frame, codec)))
  BY DEF Has
<1>1. PICK i \in DOMAIN frame : decode(frame[i].name, codec) = n
  <2> DEFINE shown == Catalogued(frame, codec)
  <2>1. DOMAIN Names(shown) = DOMAIN frame /\ \A k \in DOMAIN frame : Names(shown)[k] = decode(frame[k].name, codec)
    BY DEF Catalogued, Names, Named
  <2>2. n \in ToSet(Names(shown))
    BY DEF Has
  <2> HIDE DEF shown
  <2> QED BY <2>1, <2>2 DEF ToSet
<1> QED BY <1>1, FullReadHas

\* If the first pass decodes as the catalog does, it finds each name once.
LEMMA NamesFound ==
  ASSUME NEW frame, IsFrame(frame), NEW codec,
         codec = DefaultCodec \/ \A c \in ToSet(frame) : c.name \notin Unflagged,
         IsInjective(Names(Catalogued(frame, codec))),
         NEW columns, Has(Catalogued(frame, codec), columns),
         NEW s \in ToSet(ByName(columns)), NEW count
  PROVE  Resolvable(s, Names(Catalogued(frame, DefaultCodec)), count)
<1> DEFINE names == Names(Catalogued(frame, DefaultCodec))
           shown == Names(Catalogued(frame, codec))
<1>1. /\ DOMAIN names = DOMAIN frame /\ DOMAIN shown = DOMAIN frame
      /\ \A i \in DOMAIN frame : names[i] = decode(frame[i].name, DefaultCodec)
                                  /\ shown[i] = decode(frame[i].name, codec)
  BY DEF Catalogued, Names, Named
<1>2. IsInjective(shown) /\ ToSet(columns) \subseteq ToSet(shown)
  BY DEF Has
<1> HIDE DEF names, shown
<1>3. \A i \in DOMAIN frame : names[i] = shown[i]
  <2>1. \A i \in DOMAIN frame : frame[i] \in ToSet(frame)
    BY DEF ToSet
  <2> QED BY <1>1, <2>1 DEF decode
<1>4. PICK n \in DOMAIN columns : s = [name |-> columns[n]]
  BY DEF ByName, ToSet
<1>5. ~ByIndex(s) /\ s.name = columns[n]
  BY <1>4 DEF ByIndex
<1>6. PICK i \in DOMAIN shown : shown[i] = columns[n]
  BY <1>2 DEF ToSet
<1>7. \A j \in DOMAIN shown : shown[j] = columns[n] => j = i
  BY <1>2, <1>6 DEF IsInjective
<1>8. Matches(s, names, count) = {i}
  BY <1>1, <1>3, <1>5, <1>6, <1>7 DEF Matches
<1>9. Cardinality({i}) = 1
  BY FS_Singleton
<1> QED BY <1>8, <1>9 DEF Resolvable, names

-----------------------------------------------------------------------------
(* A dataset: what a call may read.                                          *)

\* What may be read of a frame: the values of a column under its own label.
Shows(frame, codec, column) ==
  \E i \in DOMAIN frame : /\ column = Named(column.name, frame[i])
                          /\ Labels(frame, codec, i, column.name)

LEMMA PrefixOfMore ==
  ASSUME NEW s, IsSequence(s), NEW e
  PROVE  IsPrefix(s, s) /\ IsPrefix(s, Append(s, e))
<1>1. s \in Seq(ToSet(s) \cup {e}) /\ Len(s) \in Nat
  BY DEF IsSequence
<1>2. Len(s) <= Len(s)
  BY <1>1
<1>3. Len(Append(s, e)) = Len(s) + 1
  BY <1>1
<1>4. SubSeq(s, 1, Len(s)) = SubSeq(Append(s, e), 1, Len(s))
  BY <1>1
<1> QED BY <1>1, <1>2, <1>3, <1>4 DEF IsPrefix

\* Whatever exists already, the key of a column begins with its label.
LEMMA KeyLabels ==
  ASSUME NEW frame, IsFrame(frame), NEW codec, NEW i \in DOMAIN frame, NEW existing
  PROVE  Labels(frame, codec, i, Key(frame, codec, i, existing))
<1> DEFINE name == decode(frame[i].name, codec)
           base == IF name = Blank THEN V(i) ELSE name
           key == _unique_name(base, existing)
<1>1. IsSequence(name)
  <2>1. IsSequence(frame[i].name)
    BY DEF IsFrame
  <2>2. IsSequence(Append(frame[i].name, codec))
    BY <2>1, AppendGrows
  <2> QED BY <2>1, <2>2 DEF decode
<1>2. IsSequence(V(i))
  <2> DEFINE x == ToString(i)
  <2> HIDE DEF x
  <2>1. <<"V", x>> \in Seq({"V", x}) /\ ToSet(<<"V", x>>) = {"V", x}
    BY DEF ToSet
  <2> QED BY <2>1 DEF V, IsSequence, x
<1>3. IsSequence(base)
  BY <1>1, <1>2
<1>4. key = base \/ \E e : key = Append(base, e)
  <2> HIDE DEF base
  <2>1. CASE base \notin existing
    BY <2>1, Zenon DEF _unique_name
  <2>2. CASE base \in existing
    <3> DEFINE k == CHOOSE k \in 2 .. Cardinality(existing) + 2 :
                      /\ Append(base, ToString(k)) \notin existing
                      /\ \A j \in 2 .. k - 1 : Append(base, ToString(j)) \in existing
    <3>1. key = Append(base, ToString(k))
      BY <2>2, Zenon DEF _unique_name
    <3> QED BY <3>1, Zenon
  <2> QED BY <2>1, <2>2
<1> HIDE DEF base, key
<1>5. IsPrefix(base, key)
  BY <1>3, <1>4, PrefixOfMore
<1> QED BY <1>5, Zenon DEF Labels, Key, base, key

\* Each column that a reading has is one of the frame, under its own label.
LEMMA KeyedShows ==
  ASSUME NEW frame, IsFrame(frame), NEW codec, NEW order, IsSequence(order), ToSet(order) \subseteq DOMAIN frame
  PROVE  \A c \in ToSet(Keyed(frame, codec, order)) : Shows(frame, codec, c)
<1>1. Len(order) \in Nat /\ DOMAIN order = 1 .. Len(order)
  BY DEF IsSequence
<1>2. PICK g : Keying(g, frame, codec, order, Len(order)) /\ Keyed(frame, codec, order) = g[Len(order)]
  BY <1>1, KeyedIs
<1> DEFINE L == Len(order)
           Sound(k) == IsSequence(g[k]) /\ \A c \in ToSet(g[k]) : Shows(frame, codec, c)
           T == { k \in 0 .. L : ~ Sound(k) }
<1>3. /\ g[0] = <<>>
      /\ \A k \in 1 .. L : g[k] = NextKeyed(frame, codec, order, k, g[k - 1])
  <2> DEFINE U(k, columns) == NextKeyed(frame, codec, order, k, columns)
  <2>1. g = [k \in 0 .. L |-> IF k = 0 THEN <<>> ELSE U(k, g[k - 1])]
    BY <1>2, Zenon DEF Keying
  <2> HIDE DEF U
  <2>2. g[0] = <<>> /\ \A k \in 1 .. L : g[k] = U(k, g[k - 1])
    BY <1>1, <2>1
  <2> QED BY <2>2 DEF U
<1>4. Sound(0)
  BY <1>3, EmptyIsSequence
<1>5. ASSUME NEW k \in 1 .. L, Sound(k - 1) PROVE Sound(k)
  <2> DEFINE e == Named(Key(frame, codec, order[k], ToSet(Names(g[k - 1]))), frame[order[k]])
  <2>1. g[k] = Append(g[k - 1], e)
    BY <1>3 DEF NextKeyed
  <2>2. order[k] \in DOMAIN frame
    BY <1>1 DEF ToSet
  <2>3. Shows(frame, codec, e)
    <3>1. Labels(frame, codec, order[k], Key(frame, codec, order[k], ToSet(Names(g[k - 1]))))
      BY <2>2, KeyLabels
    <3>2. e.name = Key(frame, codec, order[k], ToSet(Names(g[k - 1])))
      BY DEF Named
    <3>3. e = Named(e.name, frame[order[k]])
      BY <3>2
    <3> QED BY <2>2, <3>1, <3>2, <3>3 DEF Shows
  <2> HIDE DEF e
  <2>4. IsSequence(g[k]) /\ ToSet(g[k]) = ToSet(g[k - 1]) \cup {e}
    BY <1>5, <2>1, AppendGrows
  <2> QED BY <1>5, <2>3, <2>4
<1>6. T = {}
  <2> SUFFICES ASSUME T # {} PROVE FALSE
    OBVIOUS
  <2>1. T \subseteq Nat
    BY <1>1
  <2>2. PICK k \in T : \A i \in T : k <= i
    <3> HIDE DEF T
    <3> QED BY <2>1, LeastNumber
  <2>3. k # 0
    BY <1>4, <2>2
  <2>4. k \in 1 .. L /\ k - 1 \in 0 .. L /\ ~(k <= k - 1)
    BY <1>1, <2>2, <2>3
  <2>5. Sound(k - 1)
    BY <2>2, <2>4
  <2> QED BY <1>5, <2>2, <2>4, <2>5
<1>7. L \in 0 .. L
  BY <1>1
<1> QED BY <1>2, <1>6, <1>7

LEMMA FullReadShows ==
  ASSUME NEW frame, IsFrame(frame), NEW codec
  PROVE  \A c \in ToSet(FullRead(frame, codec)) : Shows(frame, codec, c)
<1> DEFINE order == [i \in DOMAIN frame |-> i]
<1>1. DOMAIN frame = 1 .. Len(frame) /\ Len(frame) \in Nat
  BY DEF IsFrame, IsSequence
<1>2. order \in Seq(DOMAIN frame) /\ ToSet(order) = DOMAIN frame
  <2>1. ToSet(order) = { order[i] : i \in DOMAIN frame }
    BY DEF ToSet
  <2>2. order \in Seq(DOMAIN frame)
    BY <1>1
  <2> QED BY <2>1, <2>2
<1>3. IsSequence(order)
  BY <1>2 DEF IsSequence
<1>4. FullRead(frame, codec) = Keyed(frame, codec, order)
  BY DEF FullRead
<1> HIDE DEF order
<1> QED BY <1>2, <1>3, <1>4, KeyedShows

\* Columns picked by their names are columns that were read.
LEMMA PickedAre ==
  ASSUME NEW columns, NEW names, Has(columns, names)
  PROVE  ToSet(Picked(columns, names)) \subseteq ToSet(columns)
<1>1. ASSUME NEW k \in DOMAIN names
      PROVE  \E i \in DOMAIN columns : columns[i].name = names[k]
  BY DEF Has, ToSet, Names
<1>2. DOMAIN Picked(columns, names) = DOMAIN names
      /\ \A k \in DOMAIN names : Picked(columns, names)[k] = columns[CHOOSE i \in DOMAIN columns : columns[i].name = names[k]]
  BY DEF Picked
<1>3. ASSUME NEW k \in DOMAIN names PROVE Picked(columns, names)[k] \in ToSet(columns)
  <2> DEFINE i == CHOOSE i \in DOMAIN columns : columns[i].name = names[k]
  <2>1. i \in DOMAIN columns
    BY <1>1
  <2> QED BY <1>2, <2>1 DEF ToSet
<1> QED BY <1>2, <1>3 DEF ToSet

-----------------------------------------------------------------------------
(* The invariant: what the file holds is among what it has held since the    *)
(* call began, and a table is taken by a place that the inspection gave it.   *)

CallFields == {"op", "pc", "why", "request", "table", "names", "columns"}

Typed ==
  /\ disk \in Contents
  /\ DOMAIN handle = {"table", "columns", "encoding", "inspection", "checked"}
  /\ handle.columns \in Projections \cup {None}
  /\ handle.inspection # None => IsSequence(handle.inspection.tables)
  /\ DOMAIN call = CallFields
  /\ IsSequence(call.request)
  /\ call.pc = "read" => call.table \in Nat \ {0}

Witnessed == call.op # None => disk \in seen

IInv == Typed /\ Witnessed /\ OneVersion

LEMMA FileIs ==
  ASSUME NEW f \in Contents
  PROVE  /\ IsSequence(f.tables)
         /\ \A t \in DOMAIN f.tables : IsFrame(f.tables[t])
         /\ DOMAIN f.tables = 1 .. Len(f.tables) /\ Len(f.tables) \in Nat
         /\ ~f.listed => 1 \in DOMAIN f.tables
<1>1. IsSequence(f.tables) /\ (~f.listed => Len(f.tables) = 1)
  BY FilesAssumption DEF IsSequence
<1>2. DOMAIN f.tables = 1 .. Len(f.tables) /\ Len(f.tables) \in Nat
  BY <1>1 DEF IsSequence
<1>3. ASSUME NEW t \in DOMAIN f.tables PROVE IsFrame(f.tables[t])
  <2> DEFINE frame == f.tables[t]
  <2>1. frame \in ToSet(f.tables)
    BY DEF ToSet
  <2> HIDE DEF frame
  <2>2. IsSequence(frame) /\ \A c \in ToSet(frame) : IsSequence(c.name)
    BY <2>1, FilesAssumption DEF IsSequence
  <2>3. \A i \in DOMAIN frame : frame[i] \in ToSet(frame)
    BY DEF ToSet
  <2>4. IsFrame(frame)
    BY <2>2, <2>3 DEF IsFrame
  <2> QED BY <2>4 DEF frame
<1> QED BY <1>1, <1>2, <1>3

LEMMA InspectedIs ==
  ASSUME Typed
  PROVE  IsSequence(Inspected.tables)
<1>1. CASE handle.inspection # None
  BY <1>1 DEF Typed, Inspected
<1>2. CASE handle.inspection = None
  <2> DEFINE tables == Catalog(disk, handle.encoding)
  <2>1. DOMAIN tables = DOMAIN disk.tables
    BY DEF Catalog
  <2>2. DOMAIN tables = 1 .. Len(disk.tables) /\ Len(disk.tables) \in Nat
    BY <2>1, FileIs DEF Typed
  <2>3. tables = [t \in DOMAIN tables |-> tables[t]]
    BY DEF Catalog
  <2>4. Inspected.tables = tables
    BY <1>2 DEF Inspected, Inspection
  <2> HIDE DEF tables
  <2>5. \A t \in 1 .. Len(disk.tables) : tables[t] \in ToSet(tables)
    BY <2>2 DEF ToSet
  <2>6. tables \in Seq(ToSet(tables))
    BY <2>2, <2>3, <2>5
  <2> QED BY <2>4, <2>6 DEF IsSequence
<1> QED BY <1>1, <1>2

\* A table that can be selected has a place.
LEMMA PlaceIs ==
  ASSUME NEW tables, IsSequence(tables), Selectable(tables)
  PROVE  _selected_table_info(tables) \in Nat \ {0}
<1>1. DOMAIN tables = 1 .. Len(tables) /\ Len(tables) \in Nat
  BY DEF IsSequence
<1>2. CASE handle.table = None
  BY <1>2 DEF _selected_table_info
<1>3. CASE handle.table # None
  <2> DEFINE places == Matches(handle.table, TableNames(tables), Len(tables))
  <2>1. Cardinality(places) = 1
    BY <1>3, Zenon DEF Selectable, Resolvable
  <2>2. places \subseteq Nat \ {0}
    BY <1>1 DEF Matches, TableNames
  <2>3. places # {}
    <3> HIDE DEF places
    <3> QED BY <2>1, FS_EmptySet
  <2>4. _selected_table_info(tables) = CHOOSE i \in places : TRUE
    BY <1>3, Zenon DEF _selected_table_info, Resolved
  <2> HIDE DEF places
  <2> QED BY <2>2, <2>3, <2>4
<1> QED BY <1>2, <1>3

LEMMA InitHolds == Init => IInv
<1> SUFFICES ASSUME Init PROVE IInv
  OBVIOUS
<1>1. IsSequence(<<>>)
  BY EmptyIsSequence
<1> QED BY <1>1 DEF Init, Idle, IInv, Typed, Witnessed, OneVersion, Succeeded, CallFields

\* What is returned from a frame that the file holds now.
LEMMA ReturnKeeps ==
  ASSUME IInv, NEW columns, Return(columns), UNCHANGED <<disk, handle, seen>>, NEW t \in DOMAIN disk.tables,
         \A c \in ToSet(columns) : Shows(disk.tables[t], Codec(disk, handle.encoding), c)
  PROVE  IInv'
<1>1. /\ DOMAIN call' = CallFields /\ call'.request = call.request /\ call'.op = call.op
      /\ call'.columns = columns /\ call'.pc = "done" /\ call'.table = call.table
  BY DEF Return, IInv, Typed, CallFields
<1>2. Typed' /\ Witnessed'
  BY <1>1 DEF IInv, Typed, Witnessed
<1>3. ASSUME call.op # None
      PROVE  \E f \in seen : \E u \in DOMAIN f.tables : \A c \in ToSet(columns) : Shows(f.tables[u], Codec(f, handle.encoding), c)
  BY <1>3 DEF IInv, Witnessed
<1>4. OneVersion'
  BY <1>1, <1>3 DEF OneVersion, Succeeded, Shows
<1> QED BY <1>2, <1>4 DEF IInv

\* A step of a call that returns nothing.
LEMMA OtherKeeps ==
  ASSUME IInv, UNCHANGED disk, UNCHANGED seen, Typed', call'.op = call.op, ~Succeeded'
  PROVE  IInv'
BY DEF IInv, Witnessed, OneVersion

LEMMA RaiseKeeps ==
  ASSUME IInv, NEW why, why # "ok", Raise(why), UNCHANGED <<disk, seen>>,
         UNCHANGED handle
  PROVE  IInv'
<1>1. /\ DOMAIN call' = CallFields /\ call'.request = call.request /\ call'.op = call.op
      /\ call'.pc = "done" /\ call'.why = why
  BY DEF Raise, IInv, Typed, CallFields
<1>2. Typed' /\ ~Succeeded'
  BY <1>1 DEF IInv, Typed, Succeeded
<1> QED BY <1>1, <1>2, OtherKeeps

LEMMA InspectKeeps ==
  ASSUME IInv, Inspect
  PROVE  IInv'
<1>1. /\ DOMAIN handle' = DOMAIN handle /\ handle'.columns = handle.columns
      /\ handle'.inspection = Inspected /\ UNCHANGED <<disk, seen>>
  BY DEF Inspect, Going, IInv, Typed
<1>2. IsSequence(Inspected.tables)
  BY InspectedIs DEF IInv
<1>3. IsSequence(<<>>)
  BY EmptyIsSequence
<1>4. CASE Raise("selection")
  <2>1. /\ DOMAIN call' = CallFields /\ call'.request = call.request /\ call'.op = call.op
        /\ call'.pc = "done" /\ call'.why = "selection"
    BY <1>4 DEF Raise, IInv, Typed, CallFields
  <2>2. Typed' /\ ~Succeeded'
    BY <1>1, <1>2, <2>1 DEF IInv, Typed, Succeeded
  <2> QED BY <1>1, <2>1, <2>2, OtherKeeps
<1>5. CASE ~Raise("selection")
  <2> DEFINE tables == Inspected.tables
             request == IF handle.columns = None THEN <<>> ELSE ByName(handle.columns)
             pc == IF WholeFile(tables) THEN "read" ELSE IF handle.columns = None THEN "frame" ELSE "select"
  <2>1. Selectable(tables) /\ call' = [call EXCEPT !.table = _selected_table_info(tables), !.request = request, !.pc = pc]
    BY <1>5 DEF Inspect, Goto
  <2>2. _selected_table_info(tables) \in Nat \ {0}
    BY <1>2, <2>1, PlaceIs
  <2>3. IsSequence(request)
    <3>1. CASE handle.columns = None
      BY <1>3, <3>1
    <3>2. CASE handle.columns # None
      <4> DEFINE names == handle.columns
      <4>1. names \in Seq(ToSet(names))
        BY <3>2, AccessAssumption DEF IInv, Typed
      <4>2. DOMAIN names = 1 .. Len(names) /\ Len(names) \in Nat
        BY <4>1
      <4> DEFINE r == ByName(names)
      <4>3. DOMAIN r = 1 .. Len(names) /\ r = [i \in DOMAIN r |-> r[i]]
        BY <4>2 DEF ByName
      <4> HIDE DEF r, names
      <4>4. \A i \in 1 .. Len(names) : r[i] \in ToSet(r)
        BY <4>3 DEF ToSet
      <4>5. IsSequence(r)
        BY <4>2, <4>3, <4>4 DEF IsSequence
      <4> QED BY <3>2, <4>5 DEF r, names
    <3> QED BY <3>1, <3>2
  <2> HIDE DEF request, tables
  <2>4. /\ DOMAIN call' = CallFields /\ call'.request = request /\ call'.op = call.op
        /\ call'.pc = pc /\ call'.table = _selected_table_info(tables)
    BY <2>1 DEF IInv, Typed, CallFields
  <2>5. Typed' /\ ~Succeeded'
    BY <1>1, <1>2, <2>2, <2>3, <2>4 DEF IInv, Typed, Succeeded
  <2> QED BY <1>1, <2>4, <2>5, OtherKeeps
<1> QED BY <1>4, <1>5

LEMMA ScanNamesKeeps ==
  ASSUME IInv, ScanNames
  PROVE  IInv'
<1>1. UNCHANGED <<disk, handle, seen>>
  BY DEF ScanNames, Going
<1>2. CASE Raise("selection") \/ Raise("unsupported")
  BY <1>1, <1>2, RaiseKeeps
<1>3. CASE ~(Raise("selection") \/ Raise("unsupported"))
  <2>1. \/ call' = [call EXCEPT !.pc = "selective"]
        \/ call' = [call EXCEPT !.pc = "selective", !.names = _scan_single_dataframe_column_names(disk.tables[1])]
    BY <1>3 DEF ScanNames, Goto
  <2>2. /\ DOMAIN call' = CallFields /\ call'.request = call.request /\ call'.op = call.op
        /\ call'.pc = "selective"
    BY <2>1 DEF IInv, Typed, CallFields
  <2>3. Typed' /\ ~Succeeded'
    BY <1>1, <2>2 DEF IInv, Typed, Succeeded
  <2> QED BY <1>1, <2>2, <2>3, OtherKeeps
<1> QED BY <1>2, <1>3

LEMMA ReadSelectedKeeps ==
  ASSUME IInv, ReadSelected
  PROVE  IInv'
<1>1. UNCHANGED <<disk, handle, seen>> /\ disk \in Contents
  BY DEF ReadSelected, Going, IInv, Typed
<1>2. CASE Raise("selection") \/ Raise("unsupported") \/ Raise("index")
  BY <1>1, <1>2, RaiseKeeps
<1>3. CASE ~(Raise("selection") \/ Raise("unsupported") \/ Raise("index"))
  <2> DEFINE frame == disk.tables[1]
             count == IF disk.listed THEN Len(disk.tables) ELSE Len(frame)
             order == _resolve_column_selection(call.request, call.names, count)
             columns == Keyed(frame, Codec(disk, handle.encoding), order)
  <2>1. ~disk.listed /\ ToSet(order) \subseteq DOMAIN frame /\ Return(columns)
    BY <1>3, Zenon DEF ReadSelected
  <2>2. IsSequence(order)
    BY SelectionIsSequence DEF IInv, Typed
  <2>3. 1 \in DOMAIN disk.tables /\ IsFrame(frame)
    BY <1>1, <2>1, FileIs
  <2>4. \A c \in ToSet(columns) : Shows(frame, Codec(disk, handle.encoding), c)
    <3> HIDE DEF order, frame
    <3> QED BY <2>1, <2>2, <2>3, KeyedShows
  <2> HIDE DEF columns
  <2> QED BY <1>1, <2>1, <2>3, <2>4, ReturnKeeps
<1> QED BY <1>2, <1>3

LEMMA ReadFrameKeeps ==
  ASSUME IInv, ReadFrame
  PROVE  IInv'
<1>1. UNCHANGED <<disk, handle, seen>> /\ disk \in Contents
  BY DEF ReadFrame, Going, IInv, Typed
<1>2. CASE Raise("invalid")
  BY <1>1, <1>2, RaiseKeeps
<1>3. CASE ~Raise("invalid")
  <2> DEFINE columns == FullRead(disk.tables[1], Codec(disk, handle.encoding))
  <2>1. ~disk.listed /\ Return(columns)
    BY <1>3 DEF ReadFrame
  <2>2. 1 \in DOMAIN disk.tables /\ IsFrame(disk.tables[1])
    BY <1>1, <2>1, FileIs
  <2>3. \A c \in ToSet(columns) : Shows(disk.tables[1], Codec(disk, handle.encoding), c)
    BY <2>2, FullReadShows
  <2> HIDE DEF columns
  <2> QED BY <1>1, <2>1, <2>2, <2>3, ReturnKeeps
<1> QED BY <1>2, <1>3

LEMMA ReadTableKeeps ==
  ASSUME IInv, ReadTable
  PROVE  IInv'
<1>1. UNCHANGED <<disk, handle, seen>> /\ disk \in Contents /\ call.pc = "read"
  BY DEF ReadTable, Going, IInv, Typed
<1>2. CASE Raise("invalid") \/ Raise("index") \/ Raise("key")
  BY <1>1, <1>2, RaiseKeeps
<1>3. CASE ~(Raise("invalid") \/ Raise("index") \/ Raise("key"))
  <2> DEFINE t == IF disk.listed THEN call.table ELSE 1
             table == FullRead(disk.tables[t], Codec(disk, handle.encoding))
  <2>1. /\ ~(t > Len(disk.tables))
        /\ IF handle.columns = None THEN Return(table)
           ELSE Has(table, handle.columns) /\ Return(Picked(table, handle.columns))
    BY <1>3, Zenon DEF ReadTable
  <2>2. t \in DOMAIN disk.tables
    <3>1. t \in Nat \ {0}
      BY <1>1 DEF IInv, Typed
    <3>2. DOMAIN disk.tables = 1 .. Len(disk.tables) /\ Len(disk.tables) \in Nat
      BY <1>1, FileIs
    <3> HIDE DEF t
    <3> QED BY <2>1, <3>1, <3>2
  <2> HIDE DEF t
  <2>3. \A c \in ToSet(table) : Shows(disk.tables[t], Codec(disk, handle.encoding), c)
    BY <1>1, <2>2, FileIs, FullReadShows
  <2> HIDE DEF table
  <2>4. CASE handle.columns = None
    BY <1>1, <2>1, <2>2, <2>3, <2>4, ReturnKeeps
  <2>5. CASE handle.columns # None
    <3> DEFINE columns == Picked(table, handle.columns)
    <3>1. Return(columns) /\ ToSet(columns) \subseteq ToSet(table)
      BY <2>1, <2>5, PickedAre
    <3> HIDE DEF columns
    <3> QED BY <1>1, <2>2, <2>3, <3>1, ReturnKeeps
  <2> QED BY <2>4, <2>5
<1> QED BY <1>2, <1>3

LEMMA NextKeeps == IInv /\ [Next]_vars => IInv'
<1> SUFFICES ASSUME IInv, [Next]_vars PROVE IInv'
  OBVIOUS
<1>1. CASE UNCHANGED vars
  <2>1. UNCHANGED <<disk, changes, handle, call, seen>>
    BY <1>1 DEF vars
  <2> QED BY <2>1 DEF IInv, Typed, Witnessed, OneVersion, Succeeded
<1>2. CASE Replace
  <2>1. UNCHANGED <<handle, call>> /\ disk' \in Contents /\ disk' \in seen' /\ seen \subseteq seen'
    BY <1>2 DEF Replace
  <2>2. Typed' /\ Witnessed'
    BY <2>1 DEF IInv, Typed, Witnessed
  <2>3. OneVersion'
    BY <2>1 DEF IInv, OneVersion, Succeeded
  <2> QED BY <2>2, <2>3 DEF IInv
<1>3. CASE Select
  <2>1. PICK names \in Projections : handle' = [handle EXCEPT !.columns = names, !.inspection = Inspected, !.checked = TRUE]
    BY <1>3 DEF Select
  <2>2. UNCHANGED disk /\ call' = Idle
    BY <1>3 DEF Select, Going
  <2>3. IsSequence(Inspected.tables) /\ IsSequence(<<>>)
    BY InspectedIs, EmptyIsSequence DEF IInv
  <2>4. /\ DOMAIN handle' = DOMAIN handle /\ handle'.columns = names /\ handle'.inspection = Inspected
    BY <2>1 DEF IInv, Typed
  <2>5. Typed'
    BY <2>2, <2>3, <2>4 DEF IInv, Typed, Idle, CallFields
  <2> QED BY <2>2, <2>5 DEF IInv, Witnessed, OneVersion, Succeeded, Idle
<1>4. CASE Begin
  <2>1. UNCHANGED <<disk, handle>> /\ seen' = {disk}
    BY <1>4 DEF Begin, Going
  <2>2. /\ DOMAIN call' = CallFields /\ IsSequence(call'.request) /\ call'.pc \in {"inspect", "select"}
    <3>1. CASE \E op \in {"collect", "arrow"} : call' = [Idle EXCEPT !.op = op, !.pc = "inspect"]
      BY <3>1, EmptyIsSequence DEF Idle, CallFields
    <3>2. CASE \E request \in Selections : call' = [Idle EXCEPT !.op = "read_rds", !.pc = "select", !.request = request]
      BY <3>2, AccessAssumption DEF Idle, CallFields, IsSequence
    <3> QED BY <1>4, <3>1, <3>2 DEF Begin, Goto
  <2>3. Typed' /\ ~Succeeded'
    BY <2>1, <2>2 DEF IInv, Typed, Succeeded
  <2> QED BY <2>1, <2>3 DEF IInv, Witnessed, OneVersion
<1> QED BY <1>1, <1>2, <1>3, <1>4, InspectKeeps, ScanNamesKeeps, ReadSelectedKeeps, ReadFrameKeeps, ReadTableKeeps DEF Next

\* What a call reads, by any of the three ways, is of one version of the file
\* that was there during the call, each column under its own label.
THEOREM ReadsOneVersion == Spec => []OneVersion
<1>1. Spec => []IInv
  BY InitHolds, NextKeeps, PTL DEF Spec
<1>2. IInv => OneVersion
  BY DEF IInv
<1> QED BY <1>1, <1>2, PTL

-----------------------------------------------------------------------------
-----------------------------------------------------------------------------
(* While nobody replaces the file: the inspection is what it holds, and each  *)
(* call works on the table and the columns of the inspection.                  *)

Kept == handle.inspection.tables

OfDataset == call.op # "read_rds" /\ call.pc # "done"

InspectionSound ==
  /\ changes \in Nat
  /\ handle.inspection # None =>
       /\ handle.inspection.at \in Nat /\ handle.inspection.at <= changes
       /\ Unchanged => Kept = Catalog(disk, handle.encoding)

CallSound ==
  /\ call.pc \in {"done", "inspect", "select", "selective", "frame", "read"}
  /\ OfDataset => call.op \in {"collect", "arrow"}
  /\ OfDataset /\ call.pc # "inspect" =>
       /\ Selectable(Kept)
       /\ call.table = _selected_table_info(Kept)
       /\ call.pc = "frame" => handle.columns = None
       /\ call.pc \in {"select", "selective"} =>
            handle.columns # None /\ call.request = ByName(handle.columns)

NamesSound ==
  OfDataset /\ call.pc = "selective" /\ Unchanged =>
    ~disk.listed /\ call.names = Names(Catalogued(disk.tables[1], DefaultCodec))

SInv == IInv /\ InspectionSound /\ CallSound /\ NamesSound /\ SchemaKept

\* The place of the selected table, and what the catalog shows of it.
LEMMA SelectedIs ==
  ASSUME Typed, InspectionSound, Unchanged, Selectable(Kept)
  PROVE  LET t == _selected_table_info(Kept)
         IN /\ t \in DOMAIN disk.tables /\ IsFrame(disk.tables[t])
            /\ Info = Catalogued(disk.tables[t], Codec(disk, handle.encoding))
            /\ ~disk.listed => t = 1
<1> DEFINE t == _selected_table_info(Kept)
<1>1. Kept = Catalog(disk, handle.encoding)
  BY DEF InspectionSound, Unchanged
<1>2. DOMAIN Kept = DOMAIN disk.tables /\ DOMAIN disk.tables = 1 .. Len(disk.tables) /\ Len(disk.tables) \in Nat
  BY <1>1, FileIs DEF Catalog, Typed
<1>3. IsSequence(Kept)
  BY DEF Typed, Unchanged, Kept
<1>4. Len(Kept) = Len(disk.tables)
  <2>1. DOMAIN Kept = 1 .. Len(Kept) /\ Len(Kept) \in Nat
    BY <1>3 DEF IsSequence
  <2> HIDE DEF Kept
  <2> QED BY <1>2, <2>1
<1>5. t \in DOMAIN disk.tables
  <2>1. CASE handle.table = None
    <3>1. t = 1 /\ Len(Kept) = 1
      BY <2>1 DEF _selected_table_info, Selectable
    <3> QED BY <1>2, <1>4, <3>1
  <2>2. CASE handle.table # None
    <3> DEFINE places == Matches(handle.table, TableNames(Kept), Len(Kept))
    <3>1. Cardinality(places) = 1
      BY <2>2, Zenon DEF Selectable, Resolvable
    <3>2. places \subseteq DOMAIN disk.tables
      <4>1. DOMAIN TableNames(Kept) = DOMAIN Kept
        BY DEF TableNames
      <4> QED BY <1>2, <1>4, <4>1 DEF Matches
    <3>3. places # {}
      <4> HIDE DEF places
      <4> QED BY <3>1, FS_EmptySet
    <3>4. t = CHOOSE i \in places : TRUE
      BY <2>2, Zenon DEF _selected_table_info, Resolved
    <3> HIDE DEF places, t
    <3> QED BY <3>2, <3>3, <3>4
  <2> QED BY <2>1, <2>2
<1>6. IsFrame(disk.tables[t])
  BY <1>5, FileIs DEF Typed
<1>7. Info = Catalogued(disk.tables[t], Codec(disk, handle.encoding))
  <2> DEFINE c == Catalog(disk, handle.encoding)
  <2>1. Info = Kept[t].columns
    BY Zenon DEF Info, Kept
  <2>2. c[t].columns = Catalogued(disk.tables[t], Codec(disk, handle.encoding))
    <3> HIDE DEF t
    <3> QED BY <1>5 DEF Catalog
  <2> HIDE DEF c, t, Kept
  <2> QED BY <1>1, <2>1, <2>2 DEF c
<1>8. ASSUME ~disk.listed PROVE t = 1
  <2>1. Len(disk.tables) = 1
    BY <1>8, FilesAssumption DEF Typed
  <2> HIDE DEF t
  <2> QED BY <1>2, <1>5, <2>1
<1> HIDE DEF t
<1>9. t \in DOMAIN disk.tables /\ IsFrame(disk.tables[t])
      /\ Info = Catalogued(disk.tables[t], Codec(disk, handle.encoding)) /\ (~disk.listed => t = 1)
  BY <1>5, <1>6, <1>7, <1>8
<1> QED BY <1>9, Zenon DEF t

\* The schema of the selected columns, whose names come once.
LEMMA SchemaIs ==
  ASSUME handle.columns # None, DOMAIN Info \subseteq Nat, IsInjective(Names(Info)), Has(Info, handle.columns)
  PROVE  /\ schema = [k \in DOMAIN handle.columns |-> schema[k]]
         /\ \A k \in DOMAIN handle.columns :
              /\ \E i \in DOMAIN Info : Info[i].name = handle.columns[k]
              /\ \A i \in DOMAIN Info : Info[i].name = handle.columns[k] => schema[k] = Info[i]
<1> DEFINE names == handle.columns
           info == Info
           same(k) == { i \in DOMAIN info : info[i].name = names[k] }
           last(k) == CHOOSE i \in same(k) : \A j \in same(k) : j <= i
<1>1. schema = [k \in DOMAIN names |-> info[last(k)]]
  BY Zenon DEF schema
<1> HIDE DEF info, names
<1>2. \A k \in DOMAIN names : \E i \in DOMAIN info : info[i].name = names[k]
  BY DEF Has, ToSet, Names, info, names
<1>3. \A i, j \in DOMAIN info : info[i].name = info[j].name => i = j
  BY DEF IsInjective, Names, info
<1>4. ASSUME NEW k \in DOMAIN names, NEW i \in DOMAIN info, info[i].name = names[k]
      PROVE  schema[k] = info[i]
  <2>1. same(k) = {i} /\ i \in Nat
    BY <1>3, <1>4 DEF info
  <2>2. last(k) = i
    BY <2>1
  <2>3. schema[k] = info[last(k)]
    BY <1>1
  <2> QED BY <2>2, <2>3
<1> HIDE DEF last
<1>5. schema = [k \in DOMAIN names |-> schema[k]]
  BY <1>1
<1>6. \A k \in DOMAIN names :
        /\ \E i \in DOMAIN info : info[i].name = names[k]
        /\ \A i \in DOMAIN info : info[i].name = names[k] => schema[k] = info[i]
  BY <1>2, <1>4
<1> QED BY <1>5, <1>6 DEF info, names

Premise ==
  /\ Unchanged /\ Proper(Names(Info))
  /\ handle.columns # None => IsInjective(handle.columns) /\ Has(Info, handle.columns)

\* A full read has the columns that the catalog shows, and so have those that
\* are picked from it.
LEMMA FullReadSchema ==
  ASSUME SInv, Premise, Selectable(Kept), NEW t, t = _selected_table_info(Kept)
  PROVE  LET table == FullRead(disk.tables[t], Codec(disk, handle.encoding))
         IN /\ handle.columns = None => table = schema
            /\ handle.columns # None => Picked(table, handle.columns) = schema
<1> DEFINE table == FullRead(disk.tables[t], Codec(disk, handle.encoding))
<1>1. t \in DOMAIN disk.tables /\ IsFrame(disk.tables[t]) /\ Info = Catalogued(disk.tables[t], Codec(disk, handle.encoding))
  BY SelectedIs DEF SInv, IInv, Premise
<1>2. table = Info
  BY <1>1, FullReadPlain DEF Premise
<1>3. ASSUME handle.columns # None PROVE Picked(table, handle.columns) = schema
  <2> DEFINE names == handle.columns
             info == Info
             at(k) == CHOOSE i \in DOMAIN info : info[i].name = names[k]
  <2>1. Picked(info, names) = [k \in DOMAIN names |-> info[at(k)]]
    BY Zenon DEF Picked
  <2>2. IsInjective(Names(Info)) /\ Has(Info, handle.columns)
    BY <1>3 DEF Premise, Proper
  <2>3. DOMAIN Info \subseteq Nat
    <3>1. DOMAIN disk.tables[t] = 1 .. Len(disk.tables[t]) /\ Len(disk.tables[t]) \in Nat
      BY <1>1 DEF IsFrame, IsSequence
    <3> QED BY <1>1, <3>1 DEF Catalogued
  <2>4. /\ schema = [k \in DOMAIN names |-> schema[k]]
        /\ \A k \in DOMAIN names :
              /\ \E i \in DOMAIN info : info[i].name = names[k]
              /\ \A i \in DOMAIN info : info[i].name = names[k] => schema[k] = info[i]
    BY <1>3, <2>2, <2>3, SchemaIs, Zenon
  <2> HIDE DEF info, names
  <2>5. \A k \in DOMAIN names : info[at(k)] = schema[k]
    BY <2>4
  <2> HIDE DEF at
  <2>6. Picked(info, names) = schema
    BY <2>1, <2>4, <2>5
  <2> QED BY <1>2, <2>6 DEF info, names
<1>4. handle.columns = None => table = schema
  BY <1>2 DEF schema
<1> QED BY <1>3, <1>4, Zenon

\* A selective read has them too, although it looks for the names in another
\* pass and codec.
LEMMA SelectiveSchema ==
  ASSUME SInv, Premise, OfDataset, call.pc = "selective",
         \A s \in ToSet(call.request) : Resolvable(s, call.names, Len(disk.tables[1])),
         ToSet(_resolve_column_selection(call.request, call.names, Len(disk.tables[1]))) \subseteq DOMAIN disk.tables[1]
  PROVE  Keyed(disk.tables[1], Codec(disk, handle.encoding),
               _resolve_column_selection(call.request, call.names, Len(disk.tables[1]))) = schema
<1> DEFINE frame == disk.tables[1]
           codec == Codec(disk, handle.encoding)
           columns == handle.columns
           order == _resolve_column_selection(call.request, call.names, Len(frame))
<1>1. /\ Selectable(Kept) /\ call.request = ByName(columns) /\ columns # None
      /\ ~disk.listed /\ call.names = Names(Catalogued(frame, DefaultCodec))
  BY DEF SInv, CallSound, NamesSound, Premise
<1>2. IsFrame(frame) /\ Info = Catalogued(frame, codec)
  BY <1>1, SelectedIs DEF SInv, IInv, Premise
<1>3. columns \in Projections /\ IsSequence(columns) /\ IsInjective(columns)
  BY <1>1, AccessAssumption DEF SInv, IInv, Typed, Premise, IsSequence
<1>4. Proper(Names(Info)) /\ Has(Info, columns)
  BY <1>1 DEF Premise
<1> HIDE DEF columns, frame, codec
<1>5. DOMAIN frame = 1 .. Len(frame) /\ Len(frame) \in Nat
  BY <1>2 DEF IsFrame, IsSequence
<1>6. /\ DOMAIN call.names = DOMAIN frame
      /\ \A i \in DOMAIN frame : call.names[i] = decode(frame[i].name, DefaultCodec)
  BY <1>1 DEF Catalogued, Names, Named
<1>7. /\ IsSequence(order) /\ IsInjective(order) /\ Len(order) = Len(columns)
      /\ \A k \in 1 .. Len(columns) :
           /\ order[k] \in DOMAIN frame /\ call.names[order[k]] = columns[k]
           /\ Alone(call.names, columns[k])
  <2>1. \A s \in ToSet(ByName(columns)) : Resolvable(s, call.names, Len(frame))
    BY <1>1 DEF frame
  <2>2. order = _resolve_column_selection(ByName(columns), call.names, Len(frame))
    BY <1>1
  <2> HIDE DEF order
  <2>3. /\ IsSequence(order) /\ IsInjective(order) /\ Len(order) = Len(columns)
        /\ \A k \in 1 .. Len(columns) :
             /\ order[k] \in DOMAIN call.names /\ call.names[order[k]] = columns[k]
             /\ Alone(call.names, columns[k])
    BY <1>3, <1>5, <2>1, <2>2, SelectionPlain
  <2> QED BY <1>6, <2>3
<1>8. ToSet(order) \subseteq DOMAIN frame
  BY DEF frame
<1> HIDE DEF order
<1>9. Keyed(frame, codec, order) = [k \in 1 .. Len(order) |-> Catalogued(frame, codec)[order[k]]]
  BY <1>2, <1>4, <1>7, <1>8, KeyedPlain
<1>10. DOMAIN Info = DOMAIN frame /\ \A i \in DOMAIN frame : Info[i].name = decode(frame[i].name, codec)
  BY <1>2 DEF Catalogued, Named
<1>11. /\ schema = [k \in DOMAIN columns |-> schema[k]]
       /\ \A k \in DOMAIN columns :
            /\ \E i \in DOMAIN Info : Info[i].name = columns[k]
            /\ \A i \in DOMAIN Info : Info[i].name = columns[k] => schema[k] = Info[i]
  <2>1. DOMAIN Info \subseteq Nat
    BY <1>5, <1>10
  <2>2. handle.columns # None /\ IsInjective(Names(Info)) /\ Has(Info, handle.columns)
    BY <1>1, <1>4 DEF columns, Proper
  <2> QED BY <2>1, <2>2, SchemaIs DEF columns
<1>12. DOMAIN columns = 1 .. Len(columns)
  BY <1>3 DEF IsSequence
<1>13. ASSUME NEW k \in 1 .. Len(columns)
       PROVE  Catalogued(frame, codec)[order[k]] = schema[k]
  <2> DEFINE i == order[k]
  <2>1. i \in DOMAIN frame /\ decode(frame[i].name, DefaultCodec) = columns[k]
    BY <1>6, <1>7
  <2>2. Cardinality({ q \in DOMAIN frame : decode(frame[q].name, DefaultCodec) = columns[k] }) = 1
    <3>1. { q \in DOMAIN frame : decode(frame[q].name, DefaultCodec) = columns[k] } =
            { q \in DOMAIN call.names : call.names[q] = columns[k] }
      BY <1>6
    <3> QED BY <1>7, <3>1 DEF Alone
  <2>3. PICK j \in DOMAIN Info : Info[j].name = columns[k]
    BY <1>11, <1>12
  <2>4. j \in DOMAIN frame /\ decode(frame[j].name, codec) = columns[k]
    BY <1>10, <2>3
  <2> HIDE DEF i
  <2>5. IsInjective(Names(Catalogued(frame, codec)))
    BY <1>2, <1>4 DEF Proper
  <2>6. i = j
    BY <1>2, <2>1, <2>2, <2>4, <2>5, SamePlace
  <2>7. schema[k] = Info[j]
    BY <1>11, <1>12, <2>3
  <2> QED BY <1>2, <2>6, <2>7 DEF i
<1>14. Keyed(frame, codec, order) = schema
  BY <1>7, <1>9, <1>11, <1>12, <1>13
<1> QED BY <1>14 DEF frame, codec, order

LEMMA InitSound == Init => SInv
<1> SUFFICES ASSUME Init PROVE SInv
  OBVIOUS
<1>1. IInv
  BY InitHolds
<1>2. handle.inspection = None /\ call.op = None /\ call.pc = "done" /\ changes = 0
  BY DEF Init, Idle
<1> QED BY <1>1, <1>2 DEF SInv, InspectionSound, CallSound, NamesSound, SchemaKept, OfDataset, Succeeded

\* A step that leaves the file and the dataset, and returns nothing.
LEMMA OtherSound ==
  ASSUME SInv, IInv', UNCHANGED <<disk, changes, handle>>, ~Succeeded', CallSound', NamesSound'
  PROVE  SInv'
<1>1. InspectionSound'
  BY DEF SInv, InspectionSound, Unchanged, Kept
<1>2. SchemaKept'
  BY DEF SchemaKept
<1> QED BY <1>1, <1>2 DEF SInv

LEMMA RaiseSound ==
  ASSUME SInv, IInv', UNCHANGED <<disk, changes, handle>>, NEW why, why # "ok", Raise(why)
  PROVE  SInv'
<1>1. call'.pc = "done" /\ call'.why = why
  BY DEF Raise, SInv, IInv, Typed, CallFields
<1>2. ~Succeeded' /\ CallSound' /\ NamesSound'
  BY <1>1 DEF Succeeded, CallSound, NamesSound, OfDataset
<1> QED BY <1>2, OtherSound

LEMMA ReturnSound ==
  ASSUME SInv, IInv', UNCHANGED <<disk, changes, handle>>, NEW columns, Return(columns),
         call.op # "read_rds" /\ Premise => columns = schema
  PROVE  SInv'
<1>1. call'.pc = "done" /\ call'.op = call.op /\ call'.columns = columns
  BY DEF Return, SInv, IInv, Typed, CallFields
<1>2. CallSound' /\ NamesSound'
  BY <1>1 DEF CallSound, NamesSound, OfDataset
<1>3. InspectionSound'
  BY DEF SInv, InspectionSound, Unchanged, Kept
<1>4. UNCHANGED <<Unchanged, Info, schema>>
  <2>1. UNCHANGED <<disk, changes, handle, call.op>>
    BY <1>1
  <2>2. UNCHANGED <<Unchanged, Info>>
    BY <2>1 DEF Unchanged, Info, _selected_table_info
  <2>3. handle' = handle /\ Info' = Info
    BY <2>1, <2>2
  <2>4. schema' = schema
    BY <2>3 DEF schema
  <2> QED BY <2>2, <2>4
<1>5. SchemaKept'
  BY <1>1, <1>4 DEF SchemaKept, Premise
<1> QED BY <1>2, <1>3, <1>5 DEF SInv

LEMMA ReplaceSound ==
  ASSUME SInv, Replace, IInv'
  PROVE  SInv'
<1>1. UNCHANGED <<handle, call>> /\ changes' = changes + 1
  BY DEF Replace
<1>2. changes' \in Nat /\ ~Unchanged'
      /\ (handle.inspection # None => handle.inspection.at \in Nat /\ handle.inspection.at <= changes')
  BY <1>1 DEF SInv, InspectionSound, Unchanged
<1>3. InspectionSound' /\ NamesSound' /\ SchemaKept'
  BY <1>1, <1>2 DEF InspectionSound, NamesSound, SchemaKept
<1>4. CallSound'
  BY <1>1 DEF SInv, CallSound, OfDataset, Kept, Selectable, _selected_table_info
<1> QED BY <1>3, <1>4 DEF SInv

\* An inspection, kept or made now.
LEMMA InspectedSound ==
  ASSUME SInv, UNCHANGED <<disk, changes>>, handle'.inspection = Inspected, handle'.encoding = handle.encoding
  PROVE  InspectionSound'
<1>1. CASE handle.inspection # None
  <2>1. handle'.inspection = handle.inspection
    BY <1>1 DEF Inspected
  <2> QED BY <2>1 DEF SInv, InspectionSound, Unchanged, Kept
<1>2. CASE handle.inspection = None
  <2>1. handle'.inspection = [tables |-> Catalog(disk, handle.encoding), at |-> changes]
    BY <1>2 DEF Inspected, Inspection
  <2>2. handle'.inspection.tables = Catalog(disk, handle.encoding) /\ handle'.inspection.at = changes
    BY <2>1
  <2>3. Catalog(disk, handle.encoding)' = Catalog(disk, handle.encoding)
    BY DEF Catalog, Codec
  <2> QED BY <2>2, <2>3 DEF SInv, InspectionSound, Unchanged, Kept
<1> QED BY <1>1, <1>2

LEMMA SelectSound ==
  ASSUME SInv, Select, IInv'
  PROVE  SInv'
<1>1. PICK names \in Projections : handle' = [handle EXCEPT !.columns = names, !.inspection = Inspected, !.checked = TRUE]
  BY DEF Select
<1>2. UNCHANGED <<disk, changes>> /\ call' = Idle
  BY DEF Select, Going
<1>3. handle'.inspection = Inspected /\ handle'.encoding = handle.encoding
  BY <1>1 DEF SInv, IInv, Typed
<1>4. InspectionSound'
  BY <1>2, <1>3, InspectedSound
<1>5. CallSound' /\ NamesSound' /\ SchemaKept'
  BY <1>2 DEF Idle, CallSound, NamesSound, SchemaKept, OfDataset, Succeeded
<1> QED BY <1>4, <1>5 DEF SInv

LEMMA BeginSound ==
  ASSUME SInv, Begin, IInv'
  PROVE  SInv'
<1>1. UNCHANGED <<disk, changes, handle>>
  BY DEF Begin, Going
<1>2. \/ call'.op \in {"collect", "arrow"} /\ call'.pc = "inspect"
      \/ call'.op = "read_rds" /\ call'.pc = "select"
  BY DEF Begin, Goto, Idle
<1>3. ~Succeeded' /\ CallSound' /\ NamesSound'
  BY <1>2 DEF Succeeded, CallSound, NamesSound, OfDataset
<1> QED BY <1>1, <1>3, OtherSound

LEMMA InspectSound ==
  ASSUME SInv, Inspect, IInv'
  PROVE  SInv'
<1>1. /\ handle'.inspection = Inspected /\ handle'.columns = handle.columns
      /\ handle'.encoding = handle.encoding /\ handle'.table = handle.table
      /\ UNCHANGED <<disk, changes>> /\ call.pc = "inspect"
  BY DEF Inspect, Going, SInv, IInv, Typed
<1>2. InspectionSound'
  BY <1>1, InspectedSound
<1>3. CASE Raise("selection")
  <2>1. call'.pc = "done" /\ call'.why = "selection"
    BY <1>3 DEF Raise, SInv, IInv, Typed, CallFields
  <2>2. CallSound' /\ NamesSound' /\ SchemaKept'
    BY <2>1 DEF CallSound, NamesSound, SchemaKept, OfDataset, Succeeded
  <2> QED BY <1>2, <2>2 DEF SInv
<1>4. CASE ~Raise("selection")
  <2> DEFINE tables == Inspected.tables
             request == IF handle.columns = None THEN <<>> ELSE ByName(handle.columns)
             pc == IF WholeFile(tables) THEN "read" ELSE IF handle.columns = None THEN "frame" ELSE "select"
  <2>1. Selectable(tables) /\ call' = [call EXCEPT !.table = _selected_table_info(tables), !.request = request, !.pc = pc]
    BY <1>4 DEF Inspect, Goto
  <2> HIDE DEF request, tables
  <2>2. /\ call'.request = request /\ call'.op = call.op
        /\ call'.pc = pc /\ call'.table = _selected_table_info(tables)
    BY <2>1 DEF SInv, IInv, Typed, CallFields
  <2>3. Kept' = tables
    BY <1>1 DEF Kept, tables
  <2>4. Selectable(Kept)' /\ _selected_table_info(Kept)' = _selected_table_info(tables)
    BY <1>1, <2>1, <2>3 DEF Selectable, _selected_table_info
  <2>5. ByName(handle.columns)' = ByName(handle.columns)
    BY <1>1 DEF ByName
  <2>6. CallSound'
    BY <1>1, <2>2, <2>4, <2>5 DEF SInv, CallSound, OfDataset, request
  <2>7. NamesSound' /\ SchemaKept'
    BY <2>2 DEF NamesSound, SchemaKept, Succeeded
  <2> QED BY <1>2, <2>6, <2>7 DEF SInv
<1> QED BY <1>3, <1>4

\* Names are looked for in a first pass, as a name is no index.
LEMMA ScanNamesSound ==
  ASSUME SInv, ScanNames, IInv'
  PROVE  SInv'
<1>1. UNCHANGED <<disk, changes, handle>> /\ call.pc = "select"
  BY DEF ScanNames, Going
<1>2. CASE Raise("selection") \/ Raise("unsupported")
  BY <1>1, <1>2, RaiseSound
<1>3. CASE ~(Raise("selection") \/ Raise("unsupported"))
  <2> DEFINE indices == \A s \in ToSet(call.request) : ByIndex(s)
             found == _scan_single_dataframe_column_names(disk.tables[1])
  <2>1. /\ call.request # <<>>
        /\ ~indices => ~disk.listed
        /\ call' = IF indices THEN [call EXCEPT !.pc = "selective"] ELSE [call EXCEPT !.pc = "selective", !.names = found]
    BY <1>3 DEF ScanNames, Goto
  <2> HIDE DEF indices
  <2>2. /\ call'.op = call.op /\ call'.pc = "selective" /\ call'.table = call.table
        /\ call'.request = call.request /\ (~indices => call'.names = found)
    BY <2>1 DEF SInv, IInv, Typed, CallFields
  <2>3. CallSound'
    BY <1>1, <2>2 DEF SInv, CallSound, OfDataset, Kept, Selectable, _selected_table_info, ByName
  <2>4. ASSUME OfDataset PROVE ~indices
    <3>1. call.request = ByName(handle.columns) /\ handle.columns # None
      BY <1>1, <2>4 DEF SInv, CallSound
    <3> DEFINE request == ByName(handle.columns)
    <3>2. IsSequence(request) /\ request # <<>>
      BY <2>1, <3>1 DEF SInv, IInv, Typed
    <3>3. \E n \in DOMAIN request : TRUE
      <4> HIDE DEF request
      <4>1. CASE Len(request) = 0
        <5>1. request = <<>>
          BY <3>2, <4>1 DEF IsSequence
        <5> QED BY <3>2, <5>1
      <4>2. CASE Len(request) # 0
        <5>1. DOMAIN request = 1 .. Len(request) /\ Len(request) \in Nat
          BY <3>2 DEF IsSequence
        <5>2. 1 \in DOMAIN request
          BY <4>2, <5>1
        <5> QED BY <5>2
      <4> QED BY <4>1, <4>2
    <3>4. \A n \in DOMAIN request : request[n] \in ToSet(call.request) /\ ~ByIndex(request[n])
      BY <3>1 DEF ByName, ByIndex, ToSet
    <3> HIDE DEF request
    <3> QED BY <3>3, <3>4 DEF indices
  <2>5. NamesSound'
    BY <1>1, <2>1, <2>2, <2>4 DEF NamesSound, OfDataset, _scan_single_dataframe_column_names
  <2>6. ~Succeeded'
    BY <2>2 DEF Succeeded
  <2> QED BY <1>1, <2>3, <2>5, <2>6, OtherSound
<1> QED BY <1>2, <1>3

LEMMA ReadSelectedSound ==
  ASSUME SInv, ReadSelected, IInv'
  PROVE  SInv'
<1>1. UNCHANGED <<disk, changes, handle>> /\ call.pc = "selective"
  BY DEF ReadSelected, Going
<1>2. CASE Raise("selection") \/ Raise("unsupported") \/ Raise("index")
  BY <1>1, <1>2, RaiseSound
<1>3. CASE ~(Raise("selection") \/ Raise("unsupported") \/ Raise("index"))
  <2> DEFINE frame == disk.tables[1]
             count == IF disk.listed THEN Len(disk.tables) ELSE Len(frame)
             order == _resolve_column_selection(call.request, call.names, count)
             columns == Keyed(frame, Codec(disk, handle.encoding), order)
  <2>1. /\ ~disk.listed /\ ToSet(order) \subseteq DOMAIN frame /\ Return(columns)
        /\ \A s \in ToSet(call.request) : Resolvable(s, call.names, count)
    BY <1>3, Zenon DEF ReadSelected
  <2>2. count = Len(frame)
    BY <2>1
  <2>3. ASSUME call.op # "read_rds", Premise PROVE columns = schema
    <3>1. OfDataset
      BY <1>1, <2>3 DEF OfDataset
    <3> QED BY <1>1, <2>1, <2>2, <2>3, <3>1, SelectiveSchema
  <2> HIDE DEF columns
  <2> QED BY <1>1, <2>1, <2>3, ReturnSound
<1> QED BY <1>2, <1>3

LEMMA ReadFrameSound ==
  ASSUME SInv, ReadFrame, IInv'
  PROVE  SInv'
<1>1. UNCHANGED <<disk, changes, handle>> /\ call.pc = "frame"
  BY DEF ReadFrame, Going
<1>2. CASE Raise("invalid")
  BY <1>1, <1>2, RaiseSound
<1>3. CASE ~Raise("invalid")
  <2> DEFINE columns == FullRead(disk.tables[1], Codec(disk, handle.encoding))
  <2>1. ~disk.listed /\ Return(columns)
    BY <1>3 DEF ReadFrame
  <2>2. ASSUME call.op # "read_rds", Premise PROVE columns = schema
    <3>1. Selectable(Kept) /\ handle.columns = None
      BY <1>1, <2>2 DEF SInv, CallSound, OfDataset
    <3>2. _selected_table_info(Kept) = 1
      BY <2>1, <2>2, <3>1, SelectedIs DEF SInv, IInv, Premise
    <3> QED BY <2>2, <3>1, <3>2, FullReadSchema
  <2> HIDE DEF columns
  <2> QED BY <1>1, <2>1, <2>2, ReturnSound
<1> QED BY <1>2, <1>3

LEMMA ReadTableSound ==
  ASSUME SInv, ReadTable, IInv'
  PROVE  SInv'
<1>1. UNCHANGED <<disk, changes, handle>> /\ call.pc = "read"
  BY DEF ReadTable, Going
<1>2. CASE Raise("invalid") \/ Raise("index") \/ Raise("key")
  BY <1>1, <1>2, RaiseSound
<1>3. CASE ~(Raise("invalid") \/ Raise("index") \/ Raise("key"))
  <2> DEFINE t == IF disk.listed THEN call.table ELSE 1
             table == FullRead(disk.tables[t], Codec(disk, handle.encoding))
             columns == IF handle.columns = None THEN table ELSE Picked(table, handle.columns)
  <2>1. Return(columns)
    BY <1>3, Zenon DEF ReadTable
  <2>2. ASSUME call.op # "read_rds", Premise PROVE columns = schema
    <3>1. Selectable(Kept) /\ call.table = _selected_table_info(Kept)
      BY <1>1, <2>2 DEF SInv, CallSound, OfDataset
    <3>2. t = _selected_table_info(Kept)
      BY <2>2, <3>1, SelectedIs DEF SInv, IInv, Premise
    <3> HIDE DEF t
    <3>3. /\ handle.columns = None => table = schema
          /\ handle.columns # None => Picked(table, handle.columns) = schema
      BY <2>2, <3>1, <3>2, FullReadSchema
    <3> HIDE DEF table
    <3> QED BY <3>3
  <2> HIDE DEF columns
  <2> QED BY <1>1, <2>1, <2>2, ReturnSound
<1> QED BY <1>2, <1>3

LEMMA NextSound == SInv /\ [Next]_vars => SInv'
<1> SUFFICES ASSUME SInv, [Next]_vars PROVE SInv'
  OBVIOUS
<1>1. IInv'
  BY NextKeeps DEF SInv
<1>2. CASE UNCHANGED vars
  <2>1. UNCHANGED <<disk, changes, handle, call>>
    BY <1>2 DEF vars
  <2>2. UNCHANGED <<Unchanged, Info, schema, Kept, OfDataset, Succeeded>>
    BY <2>1 DEF Unchanged, Info, schema, Kept, OfDataset, Succeeded, _selected_table_info
  <2>3. InspectionSound' /\ NamesSound' /\ SchemaKept'
    BY <2>1, <2>2 DEF SInv, InspectionSound, NamesSound, SchemaKept, Catalog, Codec
  <2>4. CallSound'
    BY <2>1, <2>2 DEF SInv, CallSound, Selectable, _selected_table_info, ByName
  <2> QED BY <1>1, <2>3, <2>4 DEF SInv
<1> QED BY <1>1, <1>2, ReplaceSound, SelectSound, BeginSound, InspectSound, ScanNamesSound,
           ReadSelectedSound, ReadFrameSound, ReadTableSound DEF Next

\* As long as nobody replaces the file, collect() and to_arrow() return the
\* schema that the dataset has shown, whichever of the three ways of reading the
\* root calls for.
THEOREM ReadsTheSchema == Spec => []SchemaKept
<1>1. Spec => []SInv
  BY InitSound, NextSound, PTL DEF Spec
<1>2. SInv => SchemaKept
  BY DEF SInv
<1> QED BY <1>1, <1>2, PTL

-----------------------------------------------------------------------------
(* What select() has accepted: the third invariant says that the selection was *)
(* right when it was made, and which way of reading each call has taken.        *)

EncodingKnown == handle.encoding \in Codecs \cup {None} /\ changes <= MaxChanges

CheckedSound ==
  handle.checked =>
    /\ handle.inspection # None /\ handle.columns \in Projections
    /\ handle.columns # <<>> /\ IsInjective(handle.columns)
    /\ Selectable(Kept) /\ Has(Info, handle.columns)

PlanSound ==
  OfDataset => /\ call.pc = "read" => WholeFile(Kept)
               /\ call.pc \in {"frame", "select", "selective"} => ~WholeFile(Kept)

Reason ==
  \/ Collecting /\ disk.listed
  \/ Collecting /\ Codec(disk, handle.encoding) # DefaultCodec
       /\ \E c \in ToSet(disk.tables[1]) : c.name \in Unflagged
  \/ Collecting /\ ~IsInjective(Names(Info))
  \/ ~Collecting /\ Blank \in ToSet(handle.columns)

RInv == SInv /\ EncodingKnown /\ CheckedSound /\ PlanSound /\ RefusedOnlyFor

-----------------------------------------------------------------------------
(* The table of a call, while the file stays.                                *)

\* The inspection has the tables that the file holds.
LEMMA KeptIs ==
  ASSUME Typed, InspectionSound, Unchanged
  PROVE  Len(Kept) = Len(disk.tables) /\ Len(Kept) \in Nat /\ DOMAIN disk.tables = 1 .. Len(Kept)
<1>1. Kept = Catalog(disk, handle.encoding)
  BY DEF InspectionSound, Unchanged
<1>2. DOMAIN Kept = DOMAIN disk.tables /\ DOMAIN disk.tables = 1 .. Len(disk.tables) /\ Len(disk.tables) \in Nat
  BY <1>1, FileIs DEF Catalog, Typed
<1>3. DOMAIN Kept = 1 .. Len(Kept) /\ Len(Kept) \in Nat
  BY DEF Typed, Unchanged, Kept, IsSequence
<1> DEFINE m == Len(Kept)
           n == Len(disk.tables)
<1>4. 1 .. m = 1 .. n /\ m \in Nat /\ n \in Nat
  BY <1>2, <1>3
<1>5. m = n
  <2> HIDE DEF m, n
  <2> QED BY <1>4
<1> QED BY <1>2, <1>4, <1>5

\* A call that goes by columns, or reads the root, is collect() of one table.
LEMMA OneTable ==
  ASSUME SInv, PlanSound, OfDataset, Unchanged, call.pc \in {"frame", "select", "selective"}
  PROVE  Collecting
<1>1. ~WholeFile(Kept) /\ Selectable(Kept) /\ call.op \in {"collect", "arrow"}
  BY DEF SInv, CallSound, PlanSound
<1>2. call.op = "collect" /\ ~(Len(Kept) > 1)
  BY <1>1 DEF WholeFile
<1>3. DOMAIN disk.tables = 1 .. Len(Kept) /\ Len(Kept) \in Nat
  BY KeptIs DEF SInv, IInv
<1>4. \E t : t \in DOMAIN disk.tables
  BY <1>1, SelectedIs DEF SInv, IInv
<1> DEFINE m == Len(Kept)
<1>5. m = 1
  <2>1. ~(m > 1) /\ m \in Nat /\ \E t : t \in 1 .. m
    BY <1>2, <1>3, <1>4
  <2> HIDE DEF m
  <2> QED BY <2>1
<1> QED BY <1>2, <1>5 DEF Collecting, Kept

-----------------------------------------------------------------------------
(* The steps.                                                                 *)

LEMMA SameDataset ==
  ASSUME handle' = handle, changes' = changes
  PROVE  /\ Info' = Info /\ Kept' = Kept /\ CheckedSound' = CheckedSound
         /\ EncodingKnown' = EncodingKnown
         /\ call'.op = call.op => WholeFile(Kept)' = WholeFile(Kept) /\ Collecting' = Collecting
<1>1. Kept' = Kept /\ Selectable(Kept)' = Selectable(Kept)
  BY DEF Kept, Selectable
<1>2. Info' = Info
  BY DEF Info, _selected_table_info
<1>3. call'.op = call.op => WholeFile(Kept)' = WholeFile(Kept) /\ Collecting' = Collecting
  BY <1>1 DEF WholeFile, Collecting
<1> QED BY <1>1, <1>2, <1>3 DEF CheckedSound, EncodingKnown

LEMMA RaiseRight ==
  ASSUME RInv, SInv', UNCHANGED <<disk, changes, handle>>, NEW why, Raise(why),
         call.op # "read_rds" /\ Unchanged /\ handle.checked => Reason
  PROVE  RInv'
<1>1. call'.pc = "done" /\ call'.op = call.op /\ handle' = handle /\ disk' = disk /\ changes' = changes
  BY DEF Raise, RInv, SInv, IInv, Typed, CallFields
<1>2. CheckedSound' /\ PlanSound' /\ EncodingKnown'
  BY <1>1, SameDataset DEF RInv, PlanSound, OfDataset
<1>3. Reason' = Reason /\ Unchanged' = Unchanged
  <2>1. Codec(disk, handle.encoding)' = Codec(disk, handle.encoding)
    BY <1>1 DEF Codec
  <2>2. Collecting' = Collecting /\ Info' = Info
    BY <1>1, SameDataset
  <2> QED BY <1>1, <2>1, <2>2 DEF Reason, Unchanged
<1>4. RefusedOnlyFor'
  BY <1>1, <1>3 DEF RefusedOnlyFor, Reason
<1> QED BY <1>2, <1>4 DEF RInv

LEMMA ReturnRight ==
  ASSUME RInv, SInv', UNCHANGED <<disk, changes, handle>>, NEW columns, Return(columns)
  PROVE  RInv'
<1>1. call'.pc = "done" /\ call'.why = "ok" /\ call'.op = call.op /\ handle' = handle /\ changes' = changes
  BY DEF Return, RInv, SInv, IInv, Typed, CallFields
<1>2. CheckedSound' /\ PlanSound' /\ EncodingKnown'
  BY <1>1, SameDataset DEF RInv, PlanSound, OfDataset
<1> QED BY <1>1, <1>2 DEF RInv, RefusedOnlyFor

LEMMA ReplaceRight ==
  ASSUME RInv, Replace, SInv'
  PROVE  RInv'
<1>1. handle' = handle /\ call' = call /\ changes' = changes + 1 /\ changes < MaxChanges
  BY DEF Replace
<1>2. ~Unchanged'
  BY <1>1 DEF RInv, SInv, InspectionSound, Unchanged
<1>3. EncodingKnown'
  BY <1>1, AccessAssumption DEF RInv, SInv, InspectionSound, EncodingKnown
<1>4. Kept' = Kept /\ Info' = Info /\ Selectable(Kept)' = Selectable(Kept) /\ WholeFile(Kept)' = WholeFile(Kept)
  BY <1>1 DEF Kept, Info, Selectable, _selected_table_info, WholeFile
<1>5. CheckedSound' /\ PlanSound'
  BY <1>1, <1>4 DEF RInv, CheckedSound, PlanSound, OfDataset
<1> QED BY <1>2, <1>3, <1>5 DEF RInv, RefusedOnlyFor

LEMMA SelectRight ==
  ASSUME RInv, Select, SInv'
  PROVE  RInv'
<1> DEFINE tables == Inspected.tables
<1>1. PICK names \in Projections :
        /\ names # <<>> /\ IsInjective(names) /\ Selectable(tables)
        /\ Has(tables[_selected_table_info(tables)].columns, names)
        /\ handle' = [handle EXCEPT !.columns = names, !.inspection = Inspected, !.checked = TRUE]
  BY DEF Select
<1>2. call'.why = "ok" /\ call'.pc = "done" /\ changes' = changes
  BY DEF Select, Going, Idle
<1>3. /\ handle'.inspection = Inspected /\ handle'.columns = names /\ handle'.table = handle.table
      /\ handle'.encoding = handle.encoding
  BY <1>1 DEF RInv, SInv, IInv, Typed
<1>4. Inspected # None
  <2>1. CASE handle.inspection # None
    BY <2>1 DEF Inspected
  <2>2. CASE handle.inspection = None
    <3>1. disk \in Contents /\ handle.encoding \in Codecs \cup {None} /\ changes \in 0 .. MaxChanges
      BY AccessAssumption DEF RInv, SInv, IInv, Typed, InspectionSound, EncodingKnown
    <3>2. Inspection(disk, handle.encoding, changes) # None
      BY <3>1, InspectionAssumption
    <3> QED BY <2>2, <3>2 DEF Inspected
  <2> QED BY <2>1, <2>2
<1>5. Kept' = tables /\ Selectable(Kept)' = Selectable(tables)
      /\ Info' = tables[_selected_table_info(tables)].columns
  BY <1>3 DEF Kept, Selectable, Info, _selected_table_info
<1> HIDE DEF tables
<1>6. CheckedSound'
  BY <1>1, <1>3, <1>4, <1>5 DEF CheckedSound
<1>7. EncodingKnown' /\ PlanSound' /\ RefusedOnlyFor'
  BY <1>2, <1>3 DEF RInv, EncodingKnown, PlanSound, OfDataset, RefusedOnlyFor
<1> QED BY <1>6, <1>7 DEF RInv

LEMMA BeginRight ==
  ASSUME RInv, Begin, SInv'
  PROVE  RInv'
<1>1. handle' = handle /\ changes' = changes
  BY DEF Begin, Going
<1>2. \/ call'.pc = "inspect"
      \/ call'.op = "read_rds" /\ call'.pc = "select"
  BY DEF Begin, Goto, Idle
<1>3. CheckedSound' /\ EncodingKnown'
  BY <1>1, SameDataset DEF RInv
<1>4. PlanSound' /\ RefusedOnlyFor'
  BY <1>2 DEF PlanSound, OfDataset, RefusedOnlyFor
<1> QED BY <1>3, <1>4 DEF RInv

\* What select() has accepted can be selected still: the inspection is kept.
LEMMA InspectRight ==
  ASSUME RInv, Inspect, SInv'
  PROVE  RInv'
<1> DEFINE tables == Inspected.tables
<1>1. /\ handle'.inspection = Inspected /\ handle'.columns = handle.columns
      /\ handle'.encoding = handle.encoding /\ handle'.table = handle.table
      /\ handle'.checked = handle.checked
      /\ changes' = changes /\ call.pc = "inspect"
  BY DEF Inspect, Going, RInv, SInv, IInv, Typed
<1>2. handle.checked => Inspected = handle.inspection
  BY DEF RInv, CheckedSound, Inspected
<1>3. Kept' = tables /\ Selectable(Kept)' = Selectable(tables)
      /\ Info' = tables[_selected_table_info(tables)].columns
  BY <1>1 DEF Kept, Selectable, Info, _selected_table_info
<1>4. handle.checked => Kept' = Kept /\ Info' = Info
  BY <1>2, <1>3 DEF Kept, Info
<1>5. handle.checked => Selectable(tables)
  BY <1>2 DEF RInv, CheckedSound, Kept
<1>6. CheckedSound'
  BY <1>1, <1>2, <1>3, <1>4, <1>5 DEF RInv, CheckedSound
<1>7. EncodingKnown'
  BY <1>1 DEF RInv, EncodingKnown
<1>8. CASE ~Selectable(tables)
  <2>1. call'.pc = "done"
    BY <1>8 DEF Inspect, Raise, RInv, SInv, IInv, Typed, CallFields
  <2> QED BY <1>1, <1>5, <1>6, <1>7, <1>8, <2>1 DEF RInv, PlanSound, OfDataset, RefusedOnlyFor
<1>9. CASE Selectable(tables)
  <2> DEFINE pc == IF WholeFile(tables) THEN "read" ELSE IF handle.columns = None THEN "frame" ELSE "select"
  <2>1. call'.pc = pc /\ call'.op = call.op
    BY <1>9 DEF Inspect, Goto, RInv, SInv, IInv, Typed, CallFields
  <2>2. WholeFile(Kept)' = WholeFile(tables)
    BY <1>3, <2>1 DEF WholeFile
  <2>3. PlanSound'
    BY <2>1, <2>2 DEF PlanSound
  <2>4. RefusedOnlyFor'
    BY <2>1 DEF RefusedOnlyFor
  <2> QED BY <1>6, <1>7, <2>3, <2>4 DEF RInv
<1> QED BY <1>8, <1>9

LEMMA ScanNamesRight ==
  ASSUME RInv, ScanNames, SInv'
  PROVE  RInv'
<1>1. UNCHANGED <<disk, changes, handle>> /\ call.pc = "select"
  BY DEF ScanNames, Going
<1>2. CASE call.request = <<>>
  <2>1. Raise("selection")
    BY <1>2 DEF ScanNames
  <2>2. ASSUME call.op # "read_rds", Unchanged, handle.checked PROVE FALSE
    <3>1. call.request = ByName(handle.columns)
      BY <1>1, <2>2 DEF RInv, SInv, CallSound, OfDataset
    <3>2. handle.columns \in Projections /\ handle.columns # <<>>
      BY <2>2 DEF RInv, CheckedSound
    <3> DEFINE columns == handle.columns
               request == call.request
    <3>3. IsSequence(columns) /\ DOMAIN request = DOMAIN columns
      BY <3>1, <3>2, AccessAssumption DEF IsSequence, ByName
    <3> HIDE DEF columns, request
    <3>4. DOMAIN request = {}
      BY <1>2 DEF request
    <3>5. columns = <<>>
      <4>1. DOMAIN columns = 1 .. Len(columns) /\ Len(columns) \in Nat
        BY <3>3 DEF IsSequence
      <4> DEFINE m == Len(columns)
      <4>2. m = 0
        <5>1. 1 .. m = {} /\ m \in Nat
          BY <3>3, <3>4, <4>1
        <5> HIDE DEF m
        <5> QED BY <5>1
      <4> QED BY <3>3, <4>2 DEF IsSequence
    <3> QED BY <3>2, <3>5 DEF columns
  <2> QED BY <1>1, <2>1, <2>2, RaiseRight
<1>3. CASE Raise("unsupported") /\ disk.listed
  <2>1. ASSUME call.op # "read_rds", Unchanged PROVE Reason
    <3>1. OfDataset
      BY <1>1, <2>1 DEF OfDataset
    <3> QED BY <1>1, <1>3, <2>1, <3>1, OneTable DEF RInv, Reason
  <2> QED BY <1>1, <1>3, <2>1, RaiseRight
<1>4. CASE call.request # <<>> /\ ~(Raise("unsupported") /\ disk.listed)
  <2>1. call'.op = call.op /\ call'.pc = "selective"
    BY <1>4 DEF ScanNames, Goto, RInv, SInv, IInv, Typed, CallFields
  <2>2. handle' = handle /\ changes' = changes
    BY <1>1
  <2>3. CheckedSound' /\ EncodingKnown' /\ WholeFile(Kept)' = WholeFile(Kept)
    BY <2>1, <2>2, SameDataset DEF RInv
  <2>4. PlanSound' /\ RefusedOnlyFor'
    BY <1>1, <2>1, <2>3 DEF RInv, PlanSound, OfDataset, RefusedOnlyFor
  <2> QED BY <2>3, <2>4 DEF RInv
<1> QED BY <1>2, <1>3, <1>4

LEMMA ReadSelectedRight ==
  ASSUME RInv, ReadSelected, SInv'
  PROVE  RInv'
<1> DEFINE frame == disk.tables[1]
           codec == Codec(disk, handle.encoding)
           count == IF disk.listed THEN Len(disk.tables) ELSE Len(frame)
           order == _resolve_column_selection(call.request, call.names, count)
           found == \A s \in ToSet(call.request) : Resolvable(s, call.names, count)
<1>1. UNCHANGED <<disk, changes, handle>> /\ call.pc = "selective"
  BY DEF ReadSelected, Going
<1>2. \/ ~found /\ Raise("selection")
      \/ disk.listed /\ Raise("unsupported")
      \/ found /\ ~disk.listed /\ ~(ToSet(order) \subseteq DOMAIN frame) /\ Raise("index")
      \/ \E columns : Return(columns)
  BY Zenon DEF ReadSelected
<1>3. ASSUME call.op # "read_rds", Unchanged, handle.checked
      PROVE  /\ ~disk.listed /\ call.names = Names(Catalogued(frame, DefaultCodec))
             /\ call.request = ByName(handle.columns) /\ Collecting
             /\ IsFrame(frame) /\ Info = Catalogued(frame, codec) /\ Has(Info, handle.columns)
             /\ handle.columns \in Projections /\ IsInjective(handle.columns)
  <2>1. OfDataset
    BY <1>1, <1>3 DEF OfDataset
  <2>2. ~disk.listed /\ call.names = Names(Catalogued(frame, DefaultCodec))
    BY <1>1, <1>3, <2>1 DEF RInv, SInv, NamesSound
  <2>3. call.request = ByName(handle.columns) /\ Selectable(Kept)
    BY <1>1, <2>1 DEF RInv, SInv, CallSound
  <2>4. Collecting
    BY <1>1, <1>3, <2>1, OneTable DEF RInv
  <2>5. IsFrame(frame) /\ Info = Catalogued(frame, codec)
    BY <1>3, <2>2, <2>3, SelectedIs DEF RInv, SInv, IInv
  <2>6. Has(Info, handle.columns) /\ handle.columns \in Projections /\ IsInjective(handle.columns)
    BY <1>3 DEF RInv, CheckedSound
  <2> QED BY <2>2, <2>3, <2>4, <2>5, <2>6
<1> HIDE DEF frame, codec, order
<1>4. ASSUME call.op # "read_rds", Unchanged, handle.checked, ~found PROVE Reason
  <2> SUFFICES ASSUME IsInjective(Names(Info)),
                      codec = DefaultCodec \/ \A c \in ToSet(frame) : c.name \notin Unflagged
               PROVE  FALSE
    BY <1>3, <1>4 DEF Reason, codec, frame
  <2>1. PICK s \in ToSet(call.request) : ~Resolvable(s, call.names, count)
    BY <1>4
  <2> HIDE DEF count
  <2>2. Resolvable(s, Names(Catalogued(frame, DefaultCodec)), count)
    BY <1>3, <1>4, <2>1, NamesFound
  <2> QED BY <1>3, <1>4, <2>1, <2>2
<1>5. ASSUME call.op # "read_rds", Unchanged, handle.checked, found PROVE ToSet(order) \subseteq DOMAIN frame
  <2> DEFINE columns == handle.columns
  <2>1. IsSequence(columns) /\ IsInjective(columns)
    BY <1>3, <1>5, AccessAssumption DEF IsSequence
  <2>2. DOMAIN frame = 1 .. Len(frame) /\ Len(frame) \in Nat
    BY <1>3, <1>5 DEF IsFrame, IsSequence
  <2>3. count \in Nat
    BY <1>3, <1>5, <2>2
  <2> HIDE DEF columns, count
  <2>4. /\ \A s \in ToSet(ByName(columns)) : Resolvable(s, call.names, count)
        /\ order = _resolve_column_selection(ByName(columns), call.names, count)
    BY <1>3, <1>5 DEF order, columns
  <2>5. /\ IsSequence(order) /\ Len(order) = Len(columns)
        /\ \A k \in 1 .. Len(columns) : order[k] \in DOMAIN call.names
    <3> HIDE DEF order
    <3>1. /\ IsSequence(order) /\ IsInjective(order) /\ Len(order) = Len(columns)
          /\ \A k \in 1 .. Len(columns) :
               /\ order[k] \in DOMAIN call.names /\ call.names[order[k]] = columns[k]
               /\ Alone(call.names, columns[k])
      BY <2>1, <2>3, <2>4, SelectionPlain
    <3> QED BY <3>1
  <2>6. DOMAIN call.names = DOMAIN frame
    BY <1>3, <1>5 DEF Catalogued, Names
  <2> QED BY <2>5, <2>6 DEF IsSequence, ToSet
<1> HIDE DEF found
<1>6. CASE Raise("selection") /\ ~found
  BY <1>1, <1>4, <1>6, RaiseRight
<1>7. CASE Raise("unsupported") /\ disk.listed
  BY <1>1, <1>3, <1>7, RaiseRight
<1>8. CASE found /\ ~(ToSet(order) \subseteq DOMAIN frame) /\ Raise("index")
  BY <1>1, <1>5, <1>8, RaiseRight
<1>9. CASE \E columns : Return(columns)
  BY <1>1, <1>9, ReturnRight
<1> QED BY <1>2, <1>6, <1>7, <1>8, <1>9

LEMMA ReadFrameRight ==
  ASSUME RInv, ReadFrame, SInv'
  PROVE  RInv'
<1>1. UNCHANGED <<disk, changes, handle>> /\ call.pc = "frame"
  BY DEF ReadFrame, Going
<1>2. CASE Raise("invalid")
  <2>1. ASSUME call.op # "read_rds", handle.checked PROVE FALSE
    <3>1. handle.columns = None
      BY <1>1, <2>1 DEF RInv, SInv, CallSound, OfDataset
    <3>2. handle.columns \in Projections
      BY <2>1 DEF RInv, CheckedSound
    <3> QED BY <3>1, <3>2, AccessAssumption
  <2> QED BY <1>1, <1>2, <2>1, RaiseRight
<1>3. CASE \E columns : Return(columns)
  BY <1>1, <1>3, ReturnRight
<1> QED BY <1>2, <1>3 DEF ReadFrame

LEMMA ReadTableRight ==
  ASSUME RInv, ReadTable, SInv'
  PROVE  RInv'
<1> DEFINE t     == IF disk.listed THEN call.table ELSE 1
           table == FullRead(disk.tables[t], Codec(disk, handle.encoding))
<1>1. UNCHANGED <<disk, changes, handle>> /\ call.pc = "read"
  BY DEF ReadTable, Going
<1>2. \/ ~disk.listed /\ call.op = "collect" /\ Raise("invalid")
      \/ t > Len(disk.tables) /\ Raise("index")
      \/ handle.columns # None /\ ~Has(table, handle.columns) /\ Raise("key")
      \/ \E columns : Return(columns)
  BY Zenon DEF ReadTable
<1>3. ASSUME call.op # "read_rds", Unchanged, handle.checked
      PROVE  /\ t \in DOMAIN disk.tables /\ IsFrame(disk.tables[t]) /\ WholeFile(Kept)
             /\ Has(Catalogued(disk.tables[t], Codec(disk, handle.encoding)), handle.columns)
             /\ Len(Kept) = Len(disk.tables) /\ Len(Kept) \in Nat /\ DOMAIN disk.tables = 1 .. Len(Kept)
  <2>1. OfDataset
    BY <1>1, <1>3 DEF OfDataset
  <2>2. call.table = _selected_table_info(Kept) /\ Selectable(Kept)
    BY <1>1, <2>1 DEF RInv, SInv, CallSound
  <2>3. /\ call.table \in DOMAIN disk.tables /\ IsFrame(disk.tables[call.table])
        /\ Info = Catalogued(disk.tables[call.table], Codec(disk, handle.encoding))
        /\ ~disk.listed => call.table = 1
    BY <1>3, <2>2, SelectedIs DEF RInv, SInv, IInv
  <2>4. t = call.table
    BY <2>3
  <2>5. Has(Info, handle.columns) /\ WholeFile(Kept)
    BY <1>1, <1>3, <2>1 DEF RInv, CheckedSound, PlanSound
  <2>6. Len(Kept) = Len(disk.tables) /\ Len(Kept) \in Nat /\ DOMAIN disk.tables = 1 .. Len(Kept)
    BY <1>3, KeptIs DEF RInv, SInv, IInv
  <2> HIDE DEF t
  <2> QED BY <2>3, <2>4, <2>5, <2>6
<1> HIDE DEF t
<1>4. CASE ~disk.listed /\ call.op = "collect" /\ Raise("invalid")
  <2>1. ASSUME Unchanged, handle.checked PROVE FALSE
    <3>1. Len(disk.tables) = 1
      BY <1>4, FilesAssumption DEF RInv, SInv, IInv, Typed
    <3>2. Len(Kept) > 1
      BY <1>3, <1>4, <2>1 DEF WholeFile
    <3>3. Len(Kept) = Len(disk.tables)
      BY <1>3, <1>4, <2>1
    <3> QED BY <3>1, <3>2, <3>3
  <2> QED BY <1>1, <1>4, <2>1, RaiseRight
<1>5. CASE t > Len(disk.tables) /\ Raise("index")
  <2>1. ASSUME call.op # "read_rds", Unchanged, handle.checked PROVE FALSE
    BY <1>3, <1>5, <2>1
  <2> QED BY <1>1, <1>5, <2>1, RaiseRight
<1>6. CASE handle.columns # None /\ ~Has(table, handle.columns) /\ Raise("key")
  <2>1. ASSUME call.op # "read_rds", Unchanged, handle.checked PROVE Reason
    <3>1. Blank \in ToSet(handle.columns)
      BY <1>3, <1>6, <2>1, HasInFullRead
    <3>2. WholeFile(Kept) /\ Len(Kept) \in Nat
      BY <1>3, <2>1
    <3>3. ~Collecting
      <4>1. Collecting => call.op = "collect" /\ Len(Kept) = 1
        BY DEF Collecting, Kept
      <4>2. WholeFile(Kept) => call.op = "arrow" \/ Len(Kept) > 1
        BY DEF WholeFile
      <4>3. call.op = "arrow" \/ Len(Kept) > 1
        BY <3>2, <4>2
      <4>4. CASE call.op = "arrow"
        BY <4>1, <4>4
      <4>5. CASE Len(Kept) > 1
        <5> DEFINE m == Len(Kept)
        <5>1. m > 1 /\ m \in Nat
          BY <3>2, <4>5
        <5>2. m # 1
          <6> HIDE DEF m
          <6> QED BY <5>1
        <5> QED BY <4>1, <5>2
      <4> QED BY <4>3, <4>4, <4>5
    <3> QED BY <3>1, <3>3 DEF Reason
  <2> QED BY <1>1, <1>6, <2>1, RaiseRight
<1>7. CASE \E columns : Return(columns)
  BY <1>1, <1>7, ReturnRight
<1> QED BY <1>2, <1>4, <1>5, <1>6, <1>7

LEMMA InitRight == Init => RInv
<1> SUFFICES ASSUME Init PROVE RInv
  OBVIOUS
<1>1. SInv
  BY InitSound
<1>2. handle.checked = FALSE /\ handle.encoding \in Codecs \cup {None} /\ changes = 0
      /\ call.pc = "done" /\ call.why = "ok"
  BY DEF Init, Idle
<1>3. EncodingKnown /\ CheckedSound /\ PlanSound /\ RefusedOnlyFor
  BY <1>2, AccessAssumption DEF EncodingKnown, CheckedSound, PlanSound, OfDataset, RefusedOnlyFor
<1> QED BY <1>1, <1>3 DEF RInv

LEMMA NextRight == RInv /\ [Next]_vars => RInv'
<1> SUFFICES ASSUME RInv, [Next]_vars PROVE RInv'
  OBVIOUS
<1>1. SInv'
  BY NextSound DEF RInv
<1>2. CASE UNCHANGED vars
  <2>1. handle' = handle /\ call' = call /\ disk' = disk /\ changes' = changes
    BY <1>2 DEF vars
  <2>2. CheckedSound' /\ EncodingKnown'
    BY <2>1, SameDataset DEF RInv
  <2>3. WholeFile(Kept)' = WholeFile(Kept) /\ Collecting' = Collecting /\ Info' = Info
    BY <2>1, SameDataset
  <2>4. PlanSound'
    BY <2>1, <2>3 DEF RInv, PlanSound, OfDataset
  <2>5. Unchanged' = Unchanged /\ Codec(disk, handle.encoding)' = Codec(disk, handle.encoding)
    BY <2>1 DEF Unchanged, Codec
  <2>6. RefusedOnlyFor'
    BY <2>1, <2>3, <2>5 DEF RInv, RefusedOnlyFor
  <2> QED BY <1>1, <2>2, <2>4, <2>6 DEF RInv
<1> QED BY <1>1, <1>2, ReplaceRight, SelectRight, BeginRight, InspectRight, ScanNamesRight,
           ReadSelectedRight, ReadFrameRight, ReadTableRight DEF Next

\* While the file stays, what select() has accepted is refused later only for a
\* list of one table, a codec that the first pass does not know, names that do
\* not tell columns apart, or a blank name: whatever the file, its root and the
\* selection.
THEOREM RefusedForReasons == Spec => []RefusedOnlyFor
<1>1. Spec => []RInv
  BY InitRight, NextRight, PTL DEF Spec
<1>2. RInv => RefusedOnlyFor
  BY DEF RInv
<1> QED BY <1>1, <1>2, PTL

-----------------------------------------------------------------------------
(* Collections: what is true at every moment.                                *)

CatalogsTaken ==
  /\ held \in [Files -> FileContents] /\ DOMAIN catalogs = Files /\ replaced \subseteq Files
  /\ options.mode \in {"strict", "union"} /\ options.columns \in ColumnLists \cup {None}
  /\ \A f \in Files : catalogs[f] # None =>
       /\ \E content \in FileContents : catalogs[f] = Catalog(content, None)
       /\ f \notin replaced => catalogs[f] = Catalog(held[f], None)

PlanMade ==
  Planned => /\ \A f \in Files : catalogs[f] # None /\ CanSelect(f)
             /\ plan = Plan

\* What a terminal has are the files so far, each as it was when it was read.
TablesAligned ==
  /\ terminal = [op |-> terminal.op, why |-> terminal.why, busy |-> terminal.busy,
                 tables |-> terminal.tables, reads |-> terminal.reads]
  /\ terminal = NotCalled \/ (Planned /\ terminal.op \in ArrowOps \cup PandasOps)
  /\ IsSequence(terminal.tables) /\ IsSequence(terminal.reads)
  /\ Len(terminal.tables) = Len(terminal.reads) /\ Len(terminal.tables) <= N
  /\ \A f \in DOMAIN terminal.tables :
       /\ terminal.reads[f] \in FileContents
       /\ Aligned(terminal.reads[f], f, terminal.op) = Got(terminal.tables[f])
       /\ replaced = {} => terminal.reads[f] = held[f]

SchemasAgree ==
  /\ terminal.op \in {"to_arrow", "to_record_batch_reader"} =>
       \A f \in DOMAIN terminal.tables : Types(terminal.tables[f]) = Types(terminal.tables[1])
  /\ terminal.op \in PandasOps /\ Returned => ~MixedDatetimes(terminal.tables)

CInv == CatalogsTaken /\ PlanMade /\ TablesAligned /\ SchemasAgree /\ AcceptedIsRead

-----------------------------------------------------------------------------
(* Columns by their names.                                                    *)

\* A name is within columns if one of them has it.
LEMMA WithinIs ==
  ASSUME NEW name, NEW columns
  PROVE  /\ Within(<<name>>, columns) <=> \E i \in DOMAIN columns : columns[i].name = name
         /\ Within(<<name>>, columns) <=> name \in ToSet(Names(columns))
<1> DEFINE names == Names(columns)
<1>1. DOMAIN names = DOMAIN columns /\ \A i \in DOMAIN columns : names[i] = columns[i].name
  BY DEF Names
<1>2. ToSet(<<name>>) = {name}
  BY DEF ToSet
<1>3. Within(<<name>>, columns) <=> name \in ToSet(names)
  BY <1>2 DEF Within
<1> HIDE DEF names
<1>4. name \in ToSet(names) <=> \E i \in DOMAIN columns : columns[i].name = name
  BY <1>1 DEF ToSet
<1> QED BY <1>3, <1>4 DEF names

\* A column is found by its name, if names tell columns apart.
LEMMA OfIs ==
  ASSUME NEW columns, IsInjective(Names(columns)), NEW i \in DOMAIN columns
  PROVE  Of(columns, columns[i].name) = columns[i]
<1> DEFINE names == Names(columns)
           k     == CHOOSE k \in DOMAIN columns : columns[k].name = columns[i].name
<1>1. DOMAIN names = DOMAIN columns /\ \A j \in DOMAIN columns : names[j] = columns[j].name
  BY DEF Names
<1>2. k \in DOMAIN columns /\ columns[k].name = columns[i].name
  OBVIOUS
<1>3. k = i
  <2> HIDE DEF k, names
  <2>1. IsInjective(names)
    BY DEF names
  <2> QED BY <1>1, <1>2, <2>1 DEF IsInjective
<1>4. Of(columns, columns[i].name) = columns[k]
  BY DEF Of
<1> QED BY <1>3, <1>4

\* What is found by a name that some column has, is one of these.
LEMMA OfWithin ==
  ASSUME NEW columns, NEW name, Within(<<name>>, columns)
  PROVE  \E i \in DOMAIN columns : columns[i].name = name /\ Of(columns, name) = columns[i]
<1>1. \E i \in DOMAIN columns : columns[i].name = name
  BY WithinIs
<1> DEFINE k == CHOOSE k \in DOMAIN columns : columns[k].name = name
<1>2. k \in DOMAIN columns /\ columns[k].name = name /\ Of(columns, name) = columns[k]
  BY <1>1 DEF Of
<1> HIDE DEF k
<1> QED BY <1>2

\* A catalog shows one column for each of the frame, in its order.
LEMMA CataloguedIs ==
  ASSUME NEW frame, IsFrame(frame), NEW codec, NEW shown, shown = Catalogued(frame, codec)
  PROVE  /\ DOMAIN shown = DOMAIN frame /\ DOMAIN frame = 1 .. Len(frame) /\ Len(frame) \in Nat
         /\ IsSequence(shown) /\ IsSequence(Names(shown)) /\ Len(shown) = Len(frame)
         /\ DOMAIN Names(shown) = DOMAIN frame
         /\ \A i \in DOMAIN frame :
              /\ shown[i].name = decode(frame[i].name, codec) /\ shown[i].type = frame[i].type
              /\ shown[i].value = frame[i].value
              /\ Names(shown)[i] = decode(frame[i].name, codec)
<1>1. DOMAIN frame = 1 .. Len(frame) /\ Len(frame) \in Nat
  BY DEF IsFrame, IsSequence
<1>2. shown = [i \in 1 .. Len(frame) |-> Named(decode(frame[i].name, codec), frame[i])]
  BY <1>1 DEF Catalogued
<1> DEFINE n == Len(frame)
<1> HIDE DEF n
<1>3. DOMAIN shown = 1 .. n /\ \A i \in 1 .. n :
        /\ shown[i].name = decode(frame[i].name, codec) /\ shown[i].type = frame[i].type
        /\ shown[i].value = frame[i].value
  BY <1>2 DEF Named, n
<1>4. Names(shown) = [i \in 1 .. n |-> shown[i].name]
  BY <1>3 DEF Names
<1>5. ASSUME NEW t, t = [i \in 1 .. n |-> t[i]] PROVE IsSequence(t) /\ Len(t) = n /\ DOMAIN t = 1 .. n
  <2>1. n \in Nat /\ DOMAIN t = 1 .. n
    BY <1>1, <1>5 DEF n
  <2>2. ToSet(t) = { t[i] : i \in 1 .. n }
    BY <2>1 DEF ToSet
  <2>3. t \in Seq({ t[i] : i \in 1 .. n }) /\ Len(t) = n
    BY <1>5, <2>1
  <2> QED BY <2>1, <2>2, <2>3 DEF IsSequence
<1>6. shown = [i \in 1 .. n |-> shown[i]]
  BY <1>2 DEF n
<1> DEFINE names == Names(shown)
<1>7. names = [i \in 1 .. n |-> names[i]] /\ \A i \in 1 .. n : names[i] = shown[i].name
  BY <1>4
<1> HIDE DEF names
<1>8. IsSequence(shown) /\ Len(shown) = n
  BY <1>5, <1>6
<1>9. IsSequence(names) /\ DOMAIN names = 1 .. n
  BY <1>5, <1>7
<1> QED BY <1>1, <1>3, <1>7, <1>8, <1>9 DEF n, names

-----------------------------------------------------------------------------
(* What a file holds.                                                         *)

TypedFrame(frame) == IsFrame(frame) /\ \A i \in DOMAIN frame : frame[i].type \in ColumnTypes

\* A file holds a sequence of frames, one if its root is no list.
LEMMA ContentIs ==
  ASSUME NEW content \in FileContents
  PROVE  /\ content.listed \in BOOLEAN
         /\ DOMAIN content.tables = 1 .. Len(content.tables) /\ Len(content.tables) \in Nat
         /\ ~content.listed => Len(content.tables) = 1
         /\ \A t \in DOMAIN content.tables : TypedFrame(content.tables[t])
<1>1. /\ content.listed \in BOOLEAN
      /\ content.tables \in Seq(ToSet(content.tables)) /\ (~content.listed => Len(content.tables) = 1)
      /\ \A frame \in ToSet(content.tables) :
           /\ frame \in Seq(ToSet(frame))
           /\ \A c \in ToSet(frame) : c.name \in Seq(ToSet(c.name)) /\ c.type \in ColumnTypes
  BY FileContentsAssumption
<1>2. DOMAIN content.tables = 1 .. Len(content.tables) /\ Len(content.tables) \in Nat
  BY <1>1
<1>3. ASSUME NEW t \in DOMAIN content.tables PROVE TypedFrame(content.tables[t])
  <2> DEFINE frame == content.tables[t]
  <2>1. frame \in ToSet(content.tables)
    BY DEF ToSet
  <2> HIDE DEF frame
  <2>2. /\ frame \in Seq(ToSet(frame))
        /\ \A c \in ToSet(frame) : c.name \in Seq(ToSet(c.name)) /\ c.type \in ColumnTypes
    BY <1>1, <2>1
  <2>3. \A i \in DOMAIN frame : frame[i] \in ToSet(frame)
    BY DEF ToSet
  <2>4. TypedFrame(frame)
    BY <2>2, <2>3 DEF TypedFrame, IsFrame, IsSequence
  <2> QED BY <2>4 DEF frame
<1> QED BY <1>1, <1>2, <1>3

\* A catalog has a table for each of the file.
LEMMA CatalogIs ==
  ASSUME NEW content \in FileContents, NEW catalog, catalog = Catalog(content, None)
  PROVE  /\ DOMAIN catalog = DOMAIN content.tables /\ Len(catalog) = Len(content.tables)
         /\ \A t \in DOMAIN content.tables : catalog[t].columns = Catalogued(content.tables[t], content.codec)
<1>1. DOMAIN content.tables = 1 .. Len(content.tables) /\ Len(content.tables) \in Nat
  BY ContentIs
<1>2. /\ DOMAIN catalog = DOMAIN content.tables
      /\ \A t \in DOMAIN content.tables : catalog[t].columns = Catalogued(content.tables[t], content.codec)
  BY DEF Catalog, Codec
<1>3. catalog = [t \in 1 .. Len(content.tables) |-> catalog[t]]
  BY <1>1 DEF Catalog
<1>4. Len(catalog) = Len(content.tables)
  <2> HIDE DEF Catalog
  <2> QED BY <1>1, <1>3
<1> QED BY <1>2, <1>4

\* A table that can be selected has a place in the catalog.
LEMMA IndexIs ==
  ASSUME NEW f, CanSelect(f), DOMAIN catalogs[f] = 1 .. Len(catalogs[f]), Len(catalogs[f]) \in Nat
  PROVE  index(f) \in 1 .. Len(catalogs[f])
<1> DEFINE count  == Len(catalogs[f])
           places == Matches(options.table, NamesOfTables(f), count)
<1>1. CASE options.table = None
  BY <1>1 DEF CanSelect, index
<1>2. CASE options.table # None
  <2>1. Cardinality(places) = 1 /\ index(f) = CHOOSE i \in places : TRUE
    BY <1>2 DEF CanSelect, Resolvable, index, Resolved
  <2>2. places \subseteq 1 .. count
    <3>1. DOMAIN NamesOfTables(f) = 1 .. count
      BY DEF NamesOfTables
    <3> QED BY <3>1 DEF Matches
  <2>3. places # {}
    <3> HIDE DEF places
    <3> QED BY <2>1, FS_EmptySet
  <2> HIDE DEF places
  <2> QED BY <2>1, <2>2, <2>3
<1> QED BY <1>1, <1>2

-----------------------------------------------------------------------------
(* The names of all files, file by file.                                      *)

\* Two sequences in one have the elements of both.
LEMMA ConcatIs ==
  ASSUME NEW s, IsSequence(s), NEW t, IsSequence(t)
  PROVE  IsSequence(s \o t) /\ ToSet(s \o t) = ToSet(s) \cup ToSet(t)
<1> DEFINE m == Len(s)
           n == Len(t)
           S == ToSet(s) \cup ToSet(t)
<1>1. m \in Nat /\ n \in Nat /\ DOMAIN s = 1 .. m /\ DOMAIN t = 1 .. n /\ s \in Seq(S) /\ t \in Seq(S)
  BY DEF IsSequence
<1>2. ToSet(s) = { s[i] : i \in 1 .. m } /\ ToSet(t) = { t[i] : i \in 1 .. n }
  BY <1>1 DEF ToSet
<1> HIDE DEF S
<1> SUFFICES ASSUME NEW u, u = s \o t PROVE IsSequence(u) /\ ToSet(u) = ToSet(s) \cup ToSet(t)
  OBVIOUS
<1>3. /\ u \in Seq(S) /\ Len(u) = m + n /\ DOMAIN u = 1 .. m + n
      /\ \A i \in 1 .. m + n : u[i] = IF i <= m THEN s[i] ELSE t[i - m]
  BY <1>1
<1> HIDE DEF m, n
<1>4. ToSet(u) = { u[i] : i \in 1 .. m + n }
  BY <1>3 DEF ToSet
<1>5. \A i \in 1 .. m + n : u[i] \in ToSet(s) \cup ToSet(t)
  <2> SUFFICES ASSUME NEW i \in 1 .. m + n PROVE u[i] \in ToSet(s) \cup ToSet(t)
    OBVIOUS
  <2>1. CASE i <= m
    BY <1>1, <1>2, <1>3, <2>1
  <2>2. CASE ~(i <= m)
    <3>1. i - m \in 1 .. n
      BY <1>1, <2>2
    <3> QED BY <1>2, <1>3, <2>2, <3>1
  <2> QED BY <2>1, <2>2
<1>6. ToSet(s) \subseteq ToSet(u)
  <2>1. \A i \in 1 .. m : i \in 1 .. m + n /\ u[i] = s[i]
    BY <1>1, <1>3
  <2> QED BY <1>2, <1>4, <2>1
<1>7. ToSet(t) \subseteq ToSet(u)
  <2>1. \A i \in 1 .. n : m + i \in 1 .. m + n /\ u[m + i] = t[i]
    <3> SUFFICES ASSUME NEW i \in 1 .. n PROVE m + i \in 1 .. m + n /\ u[m + i] = t[i]
      OBVIOUS
    <3>1. m + i \in 1 .. m + n /\ ~(m + i <= m) /\ (m + i) - m = i
      BY <1>1
    <3> QED BY <1>3, <3>1
  <2> QED BY <1>2, <1>4, <2>1
<1>8. ToSet(u) = ToSet(s) \cup ToSet(t)
  BY <1>4, <1>5, <1>6, <1>7
<1> QED BY <1>3, <1>8 DEF IsSequence, S

\* g are the names of the first files, up to m.
Listing(g, files, m) == g = [f \in 0 .. m |-> IF f = 0 THEN <<>> ELSE g[f - 1] \o Names(files[f])]

LEMMA ListingGoesOn ==
  ASSUME NEW files, NEW m \in Nat, NEW g, Listing(g, files, m)
  PROVE  \E h : Listing(h, files, m + 1)
<1> DEFINE U(f, names) == names \o Names(files[f])
           h == [f \in 0 .. m + 1 |-> IF f = m + 1 THEN U(m + 1, g[m]) ELSE g[f]]
<1>1. g = [f \in 0 .. m |-> IF f = 0 THEN <<>> ELSE U(f, g[f - 1])]
  BY Zenon DEF Listing
<1> SUFFICES h = [f \in 0 .. m + 1 |-> IF f = 0 THEN <<>> ELSE U(f, h[f - 1])]
  BY Zenon DEF Listing
<1> HIDE DEF U
<1>2. \A f \in 0 .. m : h[f] = g[f]
  OBVIOUS
<1>3. h[m + 1] = U(m + 1, g[m])
  OBVIOUS
<1>4. h = [f \in 0 .. m + 1 |-> h[f]]
  OBVIOUS
<1> HIDE DEF h
<1>5. ASSUME NEW f \in 0 .. m + 1
      PROVE  h[f] = IF f = 0 THEN <<>> ELSE U(f, h[f - 1])
  <2>1. CASE f = m + 1
    <3>1. f # 0 /\ f - 1 = m /\ m \in 0 .. m
      BY <2>1
    <3> QED BY <1>2, <1>3, <2>1, <3>1
  <2>2. CASE f # m + 1
    <3>1. f \in 0 .. m /\ (f # 0 => f - 1 \in 0 .. m)
      BY <2>2
    <3> QED BY <1>1, <1>2, <3>1
  <2> QED BY <2>1, <2>2
<1> QED BY <1>4, <1>5

LEMMA ListingExists ==
  ASSUME NEW files, NEW m \in Nat
  PROVE  \E g : Listing(g, files, m)
<1> DEFINE T == { k \in Nat : ~ \E g : Listing(g, files, k) }
<1> SUFFICES ASSUME T # {} PROVE FALSE
  OBVIOUS
<1>1. PICK k \in T : \A i \in T : k <= i
  BY LeastNumber
<1>2. CASE k = 0
  <2>1. Listing([i \in 0 .. 0 |-> <<>>], files, 0)
    BY DEF Listing
  <2> QED BY <1>1, <1>2, <2>1
<1>3. CASE k # 0
  <2>1. k - 1 \in Nat /\ (k - 1) + 1 = k /\ k - 1 \notin T
    BY <1>1, <1>3
  <2>2. \E g : Listing(g, files, k - 1)
    BY <2>1
  <2>3. \E g : Listing(g, files, k)
    BY <2>1, <2>2, ListingGoesOn
  <2> QED BY <1>1, <2>3
<1> QED BY <1>2, <1>3

\* Each of the names of all files is a name of some file.
LEMMA UnifiedIs ==
  ASSUME NEW files, Len(files) \in Nat, DOMAIN files = 1 .. Len(files),
         \A f \in DOMAIN files : IsSequence(Names(files[f]))
  PROVE  /\ IsSequence(Unified(files))
         /\ \A name \in ToSet(Unified(files)) : \E f \in DOMAIN files : name \in ToSet(Names(files[f]))
<1> DEFINE M == Len(files)
           Is(g) == g = [f \in 0 .. Len(files) |-> IF f = 0 THEN <<>> ELSE g[f - 1] \o Names(files[f])]
           listed == CHOOSE g : Is(g)
           Named1(name) == \E f \in DOMAIN files : name \in ToSet(Names(files[f]))
<1>1. Unified(files) = Once(listed[M])
  BY Zenon DEF Unified
<1>2. Is(listed)
  <2>1. \E g : Listing(g, files, Len(files))
    BY ListingExists
  <2>2. \E g : Is(g)
    BY <2>1, Zenon DEF Listing
  <2> QED BY <2>2, Zenon
<1>3. listed[0] = <<>> /\ \A f \in 1 .. M : listed[f] = listed[f - 1] \o Names(files[f])
  <2> DEFINE U(f, done) == done \o Names(files[f])
             g == listed
  <2>1. g = [f \in 0 .. M |-> IF f = 0 THEN <<>> ELSE U(f, g[f - 1])]
    BY <1>2, Zenon
  <2> HIDE DEF U, g
  <2>2. g[0] = <<>> /\ \A f \in 1 .. M : g[f] = U(f, g[f - 1])
    BY <2>1
  <2> QED BY <2>2 DEF U, g
<1> HIDE DEF listed
<1> DEFINE Sound(f) == IsSequence(listed[f]) /\ \A name \in ToSet(listed[f]) : Named1(name)
           T == { f \in 0 .. M : ~ Sound(f) }
<1>4. Sound(0)
  BY <1>3, EmptyIsSequence
<1>5. ASSUME NEW f \in 1 .. M, Sound(f - 1) PROVE Sound(f)
  <2>1. IsSequence(Names(files[f])) /\ f \in DOMAIN files
    OBVIOUS
  <2>2. IsSequence(listed[f]) /\ ToSet(listed[f]) = ToSet(listed[f - 1]) \cup ToSet(Names(files[f]))
    BY <1>3, <1>5, <2>1, ConcatIs
  <2> QED BY <1>5, <2>1, <2>2
<1>6. T = {}
  <2> HIDE DEF Sound
  <2> SUFFICES ASSUME T # {} PROVE FALSE
    OBVIOUS
  <2>1. T \subseteq Nat
    OBVIOUS
  <2>2. PICK f \in T : \A i \in T : f <= i
    <3> HIDE DEF T
    <3> QED BY <2>1, LeastNumber
  <2>3. f # 0
    BY <1>4, <2>2
  <2>4. f \in 1 .. M /\ f - 1 \in 0 .. M /\ ~(f <= f - 1)
    BY <2>2, <2>3
  <2>5. Sound(f - 1)
    BY <2>2, <2>4
  <2> QED BY <1>5, <2>2, <2>4, <2>5
<1>7. Sound(M)
  <2> HIDE DEF Sound
  <2>1. M \in 0 .. M
    OBVIOUS
  <2> QED BY <1>6, <2>1
<1>8. IsSequence(Once(listed[M])) /\ ToSet(Once(listed[M])) = ToSet(listed[M])
  BY <1>7, OnceIs
<1> QED BY <1>1, <1>7, <1>8

-----------------------------------------------------------------------------
(* The plan.                                                                   *)

\* What a plan that was accepted has decided, from the columns of each file.
Decided(p, files, mode) ==
  /\ \A f \in DOMAIN files : IsInjective(Names(files[f]))
  /\ mode = "strict" => \A f \in DOMAIN files : Names(files[f]) = Names(files[1])
  /\ IsSequence(p.columns)
  /\ \A name \in ToSet(p.columns) : \E f \in DOMAIN files : name \in ToSet(Names(files[f]))
  /\ \A name \in ToSet(p.columns) : ~(Cardinality(Kinds(files, name)) > 1)
  /\ \A name \in p.fills : Kinds(files, name) \subseteq Fillable
  /\ p.fills = Fills(files, ToSet(p.columns)) /\ p.decode = Decoded(files, ToSet(p.columns))
  /\ \A name \in ToSet(p.columns) : p.kinds[name] = CHOOSE kind \in Kinds(files, name) : TRUE

LEMMA PlanIs ==
  ASSUME NEW files, Len(files) \in Nat, DOMAIN files = 1 .. Len(files), 1 \in DOMAIN files,
         \A f \in DOMAIN files : IsSequence(Names(files[f])),
         NEW mode, NEW columns, columns # None => IsSequence(columns), NEW generated,
         NEW p, p = _build_plan(files, mode, columns, generated), p.ok
  PROVE  Decided(p, files, mode)
<1> DEFINE unified == IF mode = "strict" THEN Names(files[1]) ELSE Unified(files)
           wanted  == IF columns = None THEN unified ELSE columns
           names   == ToSet(wanted)
           Twice   == \E f \in DOMAIN files : ~IsInjective(Names(files[f]))
           Others  == mode = "strict" /\ \E f \in DOMAIN files : Names(files[f]) # unified
           Known   == names \subseteq ToSet(unified)
           Mixed   == \E name \in names : Cardinality(Kinds(files, name)) > 1
           Missing == \E name \in Fills(files, names) : ~(Kinds(files, name) \subseteq Fillable)
           Collide == ~IsInjective(generated) \/ ToSet(generated) \cap names # {}
           made    == [ok |-> TRUE, why |-> "ok", columns |-> wanted,
                       fills |-> Fills(files, names), decode |-> Decoded(files, names),
                       kinds |-> [name \in names |-> CHOOSE kind \in Kinds(files, name) : TRUE]]
<1>1. p = IF Twice THEN Refused("duplicate") ELSE IF Others THEN Refused("layout")
          ELSE IF ~Known THEN Refused("unknown") ELSE IF Mixed THEN Refused("type")
          ELSE IF Missing THEN Refused("missing") ELSE IF Collide THEN Refused("collides") ELSE made
  BY Zenon DEF _build_plan
<1>2. \A why : ~Refused(why).ok
  BY DEF Refused
<1>3. ~Twice /\ ~Others /\ Known /\ ~Mixed /\ ~Missing /\ p = made
  <2> HIDE DEF Twice, Others, Known, Mixed, Missing, Collide, made
  <2> QED BY <1>1, <1>2
<1>4. p.columns = wanted /\ p.fills = Fills(files, names) /\ p.decode = Decoded(files, names)
      /\ p.kinds = [name \in names |-> CHOOSE kind \in Kinds(files, name) : TRUE]
  <2> HIDE DEF wanted, names
  <2> QED BY <1>3
<1>5. IsSequence(unified) /\ \A name \in ToSet(unified) : \E f \in DOMAIN files : name \in ToSet(Names(files[f]))
  <2>1. CASE mode = "strict"
    BY <2>1
  <2>2. CASE mode # "strict"
    BY <2>2, UnifiedIs
  <2> QED BY <2>1, <2>2
<1>6. IsSequence(wanted)
  BY <1>5
<1>7. mode = "strict" => \A f \in DOMAIN files : Names(files[f]) = Names(files[1])
  BY <1>3
<1>8. \A name \in names : p.kinds[name] = CHOOSE kind \in Kinds(files, name) : TRUE
  BY <1>4
<1> HIDE DEF unified, wanted
<1> QED BY <1>3, <1>4, <1>5, <1>6, <1>7, <1>8 DEF Decided

-----------------------------------------------------------------------------
(* Sets with one member.                                                      *)

\* What has not more than one member has no two.
LEMMA AtMostOne ==
  ASSUME NEW S, IsFiniteSet(S), ~(Cardinality(S) > 1), NEW x \in S, NEW y \in S
  PROVE  x = y
<1> SUFFICES ASSUME x # y PROVE FALSE
  OBVIOUS
<1>1. IsFiniteSet({x}) /\ Cardinality({x}) = 1
  BY FS_Singleton
<1>2. Cardinality({x} \cup {y}) = 2
  <2>1. y \notin {x}
    OBVIOUS
  <2> DEFINE X == {x}
  <2>2. IsFiniteSet(X) /\ y \notin X
    BY <1>1, <2>1
  <2> HIDE DEF X
  <2>3. Cardinality(X \cup {y}) = Cardinality(X) + 1
    BY <2>2, FS_AddElement
  <2> QED BY <1>1, <2>3 DEF X
<1>3. {x} \cup {y} \in SUBSET S
  OBVIOUS
<1>4. Cardinality({x} \cup {y}) <= Cardinality(S)
  BY <1>3, FS_Subset
<1>5. Cardinality(S) \in Nat
  BY FS_CardinalityType
<1> QED BY <1>2, <1>4, <1>5

\* What has more than one member has another than any.
LEMMA MoreThanOne ==
  ASSUME NEW S, Cardinality(S) > 1, NEW x \in S
  PROVE  \E y \in S : y # x
<1> SUFFICES ASSUME \A y \in S : y = x PROVE FALSE
  OBVIOUS
<1>1. S = {x}
  OBVIOUS
<1>2. Cardinality({x}) = 1
  BY FS_Singleton
<1> QED BY <1>1, <1>2

\* The values of a function on a finite set are finitely many.
LEMMA ImageFinite ==
  ASSUME NEW D, IsFiniteSet(D), NEW g, DOMAIN g = D
  PROVE  IsFiniteSet({ g[x] : x \in D })
<1> DEFINE T == { g[x] : x \in D }
           h == [x \in D |-> g[x]]
<1>1. h \in Surjection(D, T)
  BY DEF Surjection
<1> QED BY <1>1, FS_Surjection

-----------------------------------------------------------------------------
(* The plan that is kept, and the catalogs it was made from.                  *)

InfosKnown ==
  \A f \in Files :
    /\ index(f) \in Nat \ {0}
    /\ \E frame, codec : TypedFrame(frame) /\ infos[f] = Catalogued(frame, codec)
    /\ f \notin replaced =>
         /\ There(held[f], f) /\ TypedFrame(FrameIn(held[f], f))
         /\ infos[f] = Catalogued(FrameIn(held[f], f), held[f].codec)

PlanKept ==
  /\ IsSequence(plan.columns)
  /\ \A f \in Files : IsInjective(Names(infos[f]))
  /\ \A name \in ToSet(plan.columns) : \E f \in Files : Within(<<name>>, infos[f])
  /\ \A name \in ToSet(plan.columns) :
       /\ ~(Cardinality(Kinds(infos, name)) > 1)
       /\ plan.kinds[name] = CHOOSE kind \in Kinds(infos, name) : TRUE
  /\ \A name \in plan.fills : Kinds(infos, name) \subseteq Fillable
  /\ plan.fills = Fills(infos, ToSet(plan.columns))
  /\ plan.decode = Decoded(infos, ToSet(plan.columns))
  /\ options.mode = "strict" =>
       /\ plan.fills = {}
       /\ \A name \in ToSet(plan.columns) : \A f \in Files : Within(<<name>>, infos[f])

\* Each file was catalogued as a frame, and the plan has been made from all of
\* them; a file that was not replaced has that frame still.
LEMMA InfosAreKnown ==
  ASSUME CatalogsTaken, PlanMade, Planned
  PROVE  InfosKnown /\ DOMAIN infos = Files /\ Len(infos) = N
<1>1. DOMAIN infos = Files /\ Len(infos) = N
  <2>1. N \in Nat
    BY CollectionAssumption
  <2> DEFINE s == infos
  <2>2. s = [f \in 1 .. N |-> s[f]]
    BY DEF infos, Files
  <2> HIDE DEF s
  <2>3. DOMAIN s = 1 .. N /\ Len(s) = N
    BY <2>1, <2>2
  <2> QED BY <2>3 DEF s, Files
<1>2. ASSUME NEW f \in Files, NEW content \in FileContents, catalogs[f] = Catalog(content, None)
      PROVE  /\ index(f) \in Nat \ {0} /\ There(content, f) /\ TypedFrame(FrameIn(content, f))
             /\ infos[f] = Catalogued(FrameIn(content, f), content.codec)
  <2>1. /\ DOMAIN catalogs[f] = DOMAIN content.tables /\ Len(catalogs[f]) = Len(content.tables)
        /\ \A t \in DOMAIN content.tables :
             catalogs[f][t].columns = Catalogued(content.tables[t], content.codec)
    BY <1>2, CatalogIs
  <2>2. /\ DOMAIN content.tables = 1 .. Len(content.tables) /\ Len(content.tables) \in Nat
        /\ ~content.listed => Len(content.tables) = 1
        /\ \A t \in DOMAIN content.tables : TypedFrame(content.tables[t])
    BY ContentIs
  <2>3. CanSelect(f)
    BY DEF PlanMade
  <2>4. index(f) \in 1 .. Len(content.tables)
    BY <2>1, <2>2, <2>3, IndexIs
  <2>5. infos[f] = catalogs[f][index(f)].columns
    BY DEF infos
  <2>6. PlaceIn(content, f) = index(f) /\ There(content, f)
    BY <2>2, <2>4 DEF PlaceIn, There
  <2>7. FrameIn(content, f) = content.tables[index(f)]
    BY <2>6 DEF FrameIn
  <2>8. index(f) \in Nat \ {0}
    BY <2>2, <2>4
  <2> QED BY <2>1, <2>2, <2>4, <2>5, <2>6, <2>7, <2>8
<1>3. ASSUME NEW f \in Files
      PROVE  /\ index(f) \in Nat \ {0}
             /\ \E frame, codec : TypedFrame(frame) /\ infos[f] = Catalogued(frame, codec)
             /\ f \notin replaced =>
                  /\ There(held[f], f) /\ TypedFrame(FrameIn(held[f], f))
                  /\ infos[f] = Catalogued(FrameIn(held[f], f), held[f].codec)
  <2>1. catalogs[f] # None
    BY DEF PlanMade
  <2>2. held[f] \in FileContents
    BY DEF CatalogsTaken
  <2>3. PICK content \in FileContents : catalogs[f] = Catalog(content, None)
    BY <2>1 DEF CatalogsTaken
  <2>4. f \notin replaced => catalogs[f] = Catalog(held[f], None)
    BY <2>1 DEF CatalogsTaken
  <2>5. f \notin replaced =>
          /\ There(held[f], f) /\ TypedFrame(FrameIn(held[f], f))
          /\ infos[f] = Catalogued(FrameIn(held[f], f), held[f].codec)
    BY <1>2, <2>2, <2>4
  <2>6. /\ index(f) \in Nat \ {0} /\ TypedFrame(FrameIn(content, f))
        /\ infos[f] = Catalogued(FrameIn(content, f), content.codec)
    BY <1>2, <2>3
  <2> QED BY <2>5, <2>6
<1> QED BY <1>1, <1>3 DEF InfosKnown

\* The plan is what _build_plan has decided from the catalogs.
LEMMA PlanIsKept ==
  ASSUME CatalogsTaken, PlanMade, Planned
  PROVE  PlanKept
<1> DEFINE files == infos
<1>1. InfosKnown /\ DOMAIN files = Files /\ Len(files) = N
  BY InfosAreKnown
<1>2. N \in Nat \ {0} /\ Files = 1 .. N
  BY CollectionAssumption DEF Files
<1>3. Len(files) \in Nat /\ DOMAIN files = 1 .. Len(files) /\ 1 \in DOMAIN files
  BY <1>1, <1>2
<1>4. \A f \in DOMAIN files : IsSequence(Names(files[f]))
  <2> SUFFICES ASSUME NEW f \in Files PROVE IsSequence(Names(infos[f]))
    BY <1>1
  <2>1. PICK frame, codec : TypedFrame(frame) /\ infos[f] = Catalogued(frame, codec)
    BY <1>1 DEF InfosKnown
  <2> QED BY <2>1, CataloguedIs DEF TypedFrame
<1>5. options.columns # None => IsSequence(options.columns)
  BY CollectionAssumption DEF CatalogsTaken, IsSequence
<1>6. plan = _build_plan(files, options.mode, options.columns, Generated) /\ plan.ok
  BY DEF PlanMade, Plan, Planned
<1> HIDE DEF files
<1>7. Decided(plan, files, options.mode)
  <2>1. \A mode, wanted, p :
          p = _build_plan(files, mode, wanted, Generated) /\ p.ok /\ (wanted # None => IsSequence(wanted))
            => Decided(p, files, mode)
    BY <1>3, <1>4, PlanIs
  <2> QED BY <1>5, <1>6, <2>1
<1>8. \A name \in ToSet(plan.columns) : \E f \in Files : Within(<<name>>, files[f])
  BY <1>1, <1>7, WithinIs DEF Decided
<1>9. ASSUME options.mode = "strict"
      PROVE  /\ \A name \in ToSet(plan.columns) : \A f \in Files : Within(<<name>>, files[f])
             /\ plan.fills = {}
  <2>1. ASSUME NEW name \in ToSet(plan.columns), NEW f \in Files PROVE Within(<<name>>, files[f])
    <3>1. PICK g \in Files : name \in ToSet(Names(files[g]))
      BY <1>1, <1>7 DEF Decided
    <3>2. Names(files[g]) = Names(files[f])
      BY <1>1, <1>7, <1>9 DEF Decided
    <3> QED BY <3>1, <3>2, WithinIs
  <2>2. \A name \in ToSet(plan.columns) : Present(files, name) = DOMAIN files
    BY <1>1, <2>1 DEF Present
  <2>3. plan.fills = {}
    BY <1>7, <2>2 DEF Decided, Fills, Absent
  <2> QED BY <2>1, <2>3
<1> QED BY <1>1, <1>7, <1>8, <1>9 DEF Decided, PlanKept, files

-----------------------------------------------------------------------------
(* What a read of one file finds.                                             *)

\* The table of the plan is a frame of the file.
LEMMA FrameIs ==
  ASSUME NEW content \in FileContents, NEW f, index(f) \in Nat \ {0}, There(content, f) \/ ~content.listed
  PROVE  TypedFrame(FrameIn(content, f)) /\ (~content.listed => FrameIn(content, f) = content.tables[1])
<1>1. /\ content.listed \in BOOLEAN
      /\ DOMAIN content.tables = 1 .. Len(content.tables) /\ Len(content.tables) \in Nat
      /\ ~content.listed => Len(content.tables) = 1
      /\ \A t \in DOMAIN content.tables : TypedFrame(content.tables[t])
  BY ContentIs
<1>2. PlaceIn(content, f) \in 1 .. Len(content.tables)
  BY <1>1 DEF PlaceIn, There
<1> QED BY <1>1, <1>2 DEF FrameIn, PlaceIn

\* The columns are some of those shown, each taken once.
Taken(columns, shown) ==
  \E order : /\ IsInjective(order) /\ DOMAIN columns = DOMAIN order
             /\ \A k \in DOMAIN order : order[k] \in DOMAIN shown /\ columns[k] = shown[order[k]]

\* A full read takes all columns, if their names tell them apart.
LEMMA AllTaken ==
  ASSUME NEW frame, IsFrame(frame), NEW codec, Proper(Names(Catalogued(frame, codec)))
  PROVE  /\ FullRead(frame, codec) = Catalogued(frame, codec)
         /\ Taken(Catalogued(frame, codec), Catalogued(frame, codec))
<1> DEFINE shown == Catalogued(frame, codec)
<1>1. FullRead(frame, codec) = shown
  BY FullReadPlain
<1>2. Taken(shown, shown)
  <2> DEFINE order == [i \in DOMAIN shown |-> i]
  <2>1. IsInjective(order) /\ DOMAIN order = DOMAIN shown /\ \A k \in DOMAIN shown : order[k] = k
    BY DEF IsInjective
  <2> HIDE DEF order, shown
  <2> QED BY <2>1 DEF Taken
<1> QED BY <1>1, <1>2

\* A selective read takes those found for the names, each once.
LEMMA SelectedTaken ==
  ASSUME NEW frame, IsFrame(frame), NEW codec, Proper(Names(Catalogued(frame, codec))),
         NEW columns, IsSequence(columns), NEW names, DOMAIN names = DOMAIN frame,
         \A s \in ToSet(ByName(columns)) : Resolvable(s, names, Len(frame)),
         NEW order, order = _resolve_column_selection(ByName(columns), names, Len(frame))
  PROVE  Taken(Keyed(frame, codec, order), Catalogued(frame, codec))
<1> DEFINE shown == Catalogued(frame, codec)
           at    == Places(columns, names, Len(frame))
<1>1. order = Once(at)
  BY DEF _resolve_column_selection, Places
<1>2. Len(frame) \in Nat
  BY DEF IsFrame, IsSequence
<1>3. IsSequence(at) /\ Len(at) = Len(columns) /\ DOMAIN at = 1 .. Len(columns)
      /\ \A k \in 1 .. Len(columns) : at[k] \in DOMAIN names
  BY <1>2, SelectionFound
<1>4. ToSet(at) \subseteq DOMAIN frame
  <2> HIDE DEF at
  <2> QED BY <1>3 DEF ToSet
<1>5. IsSequence(order) /\ IsInjective(order) /\ ToSet(order) \subseteq DOMAIN frame
  <2> HIDE DEF at
  <2> QED BY <1>1, <1>3, <1>4, OnceIs
<1>6. Keyed(frame, codec, order) = [k \in 1 .. Len(order) |-> shown[order[k]]]
  BY <1>5, KeyedPlain
<1>7. DOMAIN shown = DOMAIN frame
  BY DEF Catalogued
<1>8. DOMAIN order = 1 .. Len(order) /\ \A k \in DOMAIN order : order[k] \in DOMAIN frame
  BY <1>5 DEF IsSequence, ToSet
<1> HIDE DEF shown, at
<1>9. \A columns1 : columns1 = [k \in 1 .. Len(order) |-> shown[order[k]]] => Taken(columns1, shown)
  BY <1>5, <1>7, <1>8 DEF Taken
<1> QED BY <1>6, <1>9 DEF shown

\* A read of a file, by either way, takes columns that the catalog shows.
LEMMA ReadIs ==
  ASSUME PlanKept, NEW content \in FileContents, NEW f, index(f) \in Nat \ {0}, NEW op,
         NEW shown, shown = Catalogued(FrameIn(content, f), content.codec), Proper(Names(shown)),
         Read(content, f, op).ok
  PROVE  /\ Taken(Read(content, f, op).columns, shown)
         /\ Read(content, f, op).columns = shown \/ options.mode = "strict"
<1> DEFINE whole == ReadWhole(content, f)
           part  == ReadSelective(content, f)
<1>1. ASSUME whole.ok PROVE whole.columns = shown /\ Taken(whole.columns, shown)
  <2>1. There(content, f) /\ whole.columns = FullRead(FrameIn(content, f), content.codec)
    BY <1>1 DEF ReadWhole, Lost, Got
  <2>2. TypedFrame(FrameIn(content, f))
    BY <2>1, FrameIs
  <2> QED BY <2>1, <2>2, AllTaken DEF TypedFrame
<1>2. ASSUME part.ok PROVE Taken(part.columns, shown)
  <2> DEFINE frame == content.tables[1]
             names == _scan_single_dataframe_column_names(frame)
             asked == ByName(plan.columns)
             Empty == plan.columns = <<>>
             Unfound == \E s \in ToSet(asked) : ~Resolvable(s, names, Len(frame))
             got == Got(Keyed(frame, content.codec, _resolve_column_selection(asked, names, Len(frame))))
  <2>1. part = IF Empty THEN Lost("value") ELSE IF content.listed THEN whole
               ELSE IF Unfound THEN Lost("value") ELSE got
    BY Zenon DEF ReadSelective
  <2>2. ~Lost("value").ok
    BY DEF Lost
  <2>3. CASE content.listed
    <3>1. part = whole
      <4> HIDE DEF part, Unfound, got, Empty, whole
      <4> QED BY <1>2, <2>1, <2>2, <2>3
    <3> QED BY <1>1, <1>2, <3>1
  <2>4. CASE ~content.listed
    <3>1. ~Unfound /\ part = got
      <4> HIDE DEF part, Unfound, got, Empty, whole
      <4> QED BY <1>2, <2>1, <2>2, <2>4
    <3>2. part.columns = Keyed(frame, content.codec, _resolve_column_selection(asked, names, Len(frame)))
      BY <3>1 DEF Got
    <3>3. TypedFrame(frame) /\ FrameIn(content, f) = frame
      BY <2>4, FrameIs
    <3>4. shown = Catalogued(frame, content.codec)
      BY <3>3
    <3>5. DOMAIN names = DOMAIN frame
      BY DEF _scan_single_dataframe_column_names, Names, Catalogued
    <3>6. IsSequence(plan.columns) /\ \A s \in ToSet(ByName(plan.columns)) : Resolvable(s, names, Len(frame))
      BY <3>1 DEF PlanKept
    <3> HIDE DEF names, frame
    <3>7. Taken(Keyed(frame, content.codec, _resolve_column_selection(ByName(plan.columns), names, Len(frame))), shown)
      BY <3>3, <3>4, <3>5, <3>6, SelectedTaken DEF TypedFrame
    <3> QED BY <3>2, <3>7
  <2> QED BY <2>3, <2>4
<1>3. Read(content, f, op) = whole \/ (options.mode = "strict" /\ Read(content, f, op) = part)
  BY DEF Read
<1> HIDE DEF whole, part
<1> QED BY <1>1, <1>2, <1>3

-----------------------------------------------------------------------------
(* What a file yields under the plan.                                         *)

\* Of the columns taken, one is found by its name as in what is shown.
LEMMA TakenFound ==
  ASSUME NEW shown, IsInjective(Names(shown)), NEW columns, Taken(columns, shown),
         NEW name, Within(<<name>>, columns)
  PROVE  Within(<<name>>, shown) /\ Of(columns, name) = Of(shown, name)
<1>1. PICK i \in DOMAIN columns : columns[i].name = name /\ Of(columns, name) = columns[i]
  BY OfWithin
<1>2. PICK j \in DOMAIN shown : columns[i] = shown[j]
  BY DEF Taken
<1>3. Of(shown, shown[j].name) = shown[j]
  BY OfIs
<1>4. Within(<<name>>, shown)
  BY <1>1, <1>2, WithinIs
<1> QED BY <1>1, <1>2, <1>3, <1>4

Decoding(name) == name \in plan.decode

\* A cell is the file's own column, or there is none and it is filled.
IsCell(cell, name, shown, format) ==
  /\ cell.name = name
  /\ Within(<<name>>, shown) =>
       /\ cell.value = Of(shown, name).value
       /\ cell.type = ReadType(Of(shown, name).type, format, Decoding(name), options.naive)
  /\ ~Within(<<name>>, shown) =>
       /\ cell.value = None /\ name \in plan.fills
       /\ cell.type = FillType(plan.kinds[name], format)

GeneratedType(format) == IF format = "arrow" THEN <<"string">> ELSE <<"object">>

\* The plan's columns, then the generated ones.
IsTable(table, names, shown, format, f) ==
  /\ DOMAIN table = 1 .. Len(names) + Len(Generated) /\ IsSequence(table)
  /\ \A n \in 1 .. Len(names) : IsCell(table[n], names[n], shown, format)
  /\ \A n \in 1 .. Len(Generated) :
       /\ table[Len(names) + n].name = Generated[n]
       /\ table[Len(names) + n].type = GeneratedType(format)

\* What _align_arrow or the loop of _file_to_pandas makes of one column.
LEMMA AlignIs ==
  ASSUME PlanKept, NEW columns, NEW shown, IsInjective(Names(shown)), Taken(columns, shown),
         columns = shown \/ options.mode = "strict", ~Unfillable(columns, plan), NEW format,
         NEW name \in ToSet(plan.columns), NEW cell,
         cell = IF Within(<<name>>, columns)
                THEN [name |-> name, value |-> Of(columns, name).value,
                      type |-> ReadType(Of(columns, name).type, format, name \in plan.decode, options.naive)]
                ELSE [name |-> name, value |-> None, type |-> FillType(plan.kinds[name], format)]
  PROVE  IsCell(cell, name, shown, format)
<1>1. ~Within(<<name>>, columns) => name \in plan.fills
  BY WithinIs DEF Unfillable
<1>2. CASE Within(<<name>>, columns)
  <2>1. Within(<<name>>, shown) /\ Of(columns, name) = Of(shown, name)
    BY <1>2, TakenFound
  <2>2. cell = [name |-> name, value |-> Of(columns, name).value,
                type |-> ReadType(Of(columns, name).type, format, name \in plan.decode, options.naive)]
    BY <1>2
  <2>3. cell.name = name /\ cell.value = Of(columns, name).value
        /\ cell.type = ReadType(Of(columns, name).type, format, name \in plan.decode, options.naive)
    BY <2>2
  <2> QED BY <2>1, <2>3 DEF IsCell, Decoding
<1>3. CASE ~Within(<<name>>, columns)
  <2>1. name \in plan.fills
    BY <1>1, <1>3
  <2>2. columns = shown
    BY <2>1 DEF PlanKept
  <2>3. cell = [name |-> name, value |-> None, type |-> FillType(plan.kinds[name], format)]
    BY <1>3
  <2>4. cell.name = name /\ cell.value = None /\ cell.type = FillType(plan.kinds[name], format)
    BY <2>3
  <2> QED BY <1>3, <2>1, <2>2, <2>4 DEF IsCell
<1> QED BY <1>2, <1>3

\* The first m cells, then the generated ones.
Followed(table, cells, m, format) ==
  /\ IsSequence(table) /\ DOMAIN table = 1 .. m + Len(Generated)
  /\ \A n \in 1 .. m : table[n] = cells[n]
  /\ \A n \in 1 .. Len(Generated) :
       /\ table[m + n].name = Generated[n]
       /\ table[m + n].type = GeneratedType(format)

\* The generated columns follow.
LEMMA WithIs ==
  ASSUME NEW cells, NEW m \in Nat, DOMAIN cells = 1 .. m, cells = [n \in 1 .. m |-> cells[n]], NEW format, NEW f,
         NEW table, table = With(cells, Generated, format, f)
  PROVE  Followed(table, cells, m, format)
<1> DEFINE k == Len(Generated)
           more == [n \in DOMAIN Generated |->
                      [name |-> Generated[n], value |-> f,
                       type |-> IF format = "arrow" THEN <<"string">> ELSE <<"object">>]]
<1>1. k \in Nat /\ DOMAIN Generated = 1 .. k
  BY CollectionAssumption
<1>2. DOMAIN more = 1 .. k /\ more = [n \in 1 .. k |-> more[n]]
      /\ \A n \in 1 .. k : more[n].name = Generated[n] /\ more[n].type = GeneratedType(format)
  BY <1>1 DEF GeneratedType
<1>3. table = cells \o more
  BY DEF With
<1> HIDE DEF more, k
<1>4. \A s, l : l \in Nat /\ s = [n \in 1 .. l |-> s[n]] => s \in Seq({ s[n] : n \in 1 .. l }) /\ Len(s) = l
  OBVIOUS
<1>5. IsSequence(cells) /\ Len(cells) = m
  <2>1. ToSet(cells) = { cells[n] : n \in 1 .. m }
    BY DEF ToSet
  <2> QED BY <1>4, <2>1 DEF IsSequence
<1>6. IsSequence(more) /\ Len(more) = k
  <2>1. ToSet(more) = { more[n] : n \in 1 .. k }
    BY <1>2 DEF ToSet
  <2> QED BY <1>1, <1>2, <1>4, <2>1 DEF IsSequence
<1>7. IsSequence(table)
  BY <1>3, <1>5, <1>6, ConcatIs
<1> DEFINE S == ToSet(cells) \cup ToSet(more)
<1>8. cells \in Seq(S) /\ more \in Seq(S)
  BY <1>5, <1>6 DEF IsSequence
<1> HIDE DEF S
<1>9. DOMAIN table = 1 .. m + k
      /\ \A n \in 1 .. m + k : table[n] = IF n <= m THEN cells[n] ELSE more[n - m]
  BY <1>1, <1>3, <1>5, <1>6, <1>8
<1>10. \A n \in 1 .. k : table[m + n] = more[n]
  <2> SUFFICES ASSUME NEW n \in 1 .. k PROVE table[m + n] = more[n]
    OBVIOUS
  <2>1. m + n \in 1 .. m + k /\ ~(m + n <= m) /\ (m + n) - m = n
    BY <1>1
  <2> QED BY <1>9, <2>1
<1>11. \A n \in 1 .. m : table[n] = cells[n]
  <2>1. \A n \in 1 .. m : n \in 1 .. m + k /\ n <= m
    BY <1>1
  <2> QED BY <1>9, <2>1
<1> QED BY <1>1, <1>2, <1>7, <1>9, <1>10, <1>11 DEF k, Followed

\* What a file yields is a table under the plan.
LEMMA AlignedIs ==
  ASSUME PlanKept, NEW content \in FileContents, NEW f, index(f) \in Nat \ {0}, NEW op,
         NEW shown, shown = Catalogued(FrameIn(content, f), content.codec), Proper(Names(shown)),
         NEW table, Aligned(content, f, op) = Got(table)
  PROVE  IsTable(table, Once(plan.columns), shown, FormatOf(op), f)
<1> DEFINE read  == Read(content, f, op)
           cells == Align(read.columns, plan, FormatOf(op), options.naive)
           names == Once(plan.columns)
           format == FormatOf(op)
           m == Len(names)
           Loses == Unfillable(read.columns, plan)
           Other == f \in options.unmatched
           made == Got(With(cells, Generated, format, f))
<1>1. Aligned(content, f, op) =
        IF ~read.ok THEN read ELSE IF Loses THEN Lost("unfillable")
        ELSE IF Other THEN Lost("partition") ELSE made
  BY Zenon DEF Aligned
<1>2. Got(table).ok /\ ~Lost("unfillable").ok /\ ~Lost("partition").ok
  BY DEF Got, Lost
<1>3. read.ok /\ ~Loses /\ Got(table) = made
  <2> HIDE DEF Loses, Other, read, made
  <2> QED BY <1>1, <1>2
<1>4. table = With(cells, Generated, format, f)
  <2> DEFINE t == With(cells, Generated, format, f)
  <2>1. Got(table) = Got(t)
    BY <1>3
  <2> HIDE DEF t
  <2>2. table = t
    BY <2>1 DEF Got
  <2> QED BY <2>2 DEF t
<1>5. Taken(read.columns, shown) /\ (read.columns = shown \/ options.mode = "strict")
  BY <1>3, ReadIs
<1>6. IsInjective(Names(shown))
  BY DEF Proper
<1>7. IsSequence(names) /\ ToSet(names) = ToSet(plan.columns)
  BY OnceIs DEF PlanKept
<1>8. m \in Nat /\ DOMAIN names = 1 .. m /\ \A n \in 1 .. m : names[n] \in ToSet(plan.columns)
  <2> HIDE DEF names
  <2>1. m \in Nat /\ DOMAIN names = 1 .. m
    BY <1>7 DEF IsSequence
  <2>2. \A n \in DOMAIN names : names[n] \in ToSet(names)
    BY DEF ToSet
  <2> QED BY <1>7, <2>1, <2>2
<1> DEFINE columns == read.columns
           Cell(name) ==
             IF Within(<<name>>, columns)
             THEN [name |-> name, value |-> Of(columns, name).value,
                   type |-> ReadType(Of(columns, name).type, format, name \in plan.decode, options.naive)]
             ELSE [name |-> name, value |-> None, type |-> FillType(plan.kinds[name], format)]
<1>9. cells = [n \in DOMAIN names |-> Cell(names[n])]
  BY Zenon DEF Align
<1>10. \A name \in ToSet(plan.columns) : IsCell(Cell(name), name, shown, format)
  <2> SUFFICES ASSUME NEW name \in ToSet(plan.columns) PROVE IsCell(Cell(name), name, shown, format)
    OBVIOUS
  <2> HIDE DEF read, format
  <2> QED BY <1>3, <1>5, <1>6, AlignIs
<1> HIDE DEF Cell, cells, names, format
<1>11. DOMAIN cells = 1 .. m /\ cells = [n \in 1 .. m |-> cells[n]]
       /\ \A n \in 1 .. m : IsCell(cells[n], names[n], shown, format)
  BY <1>8, <1>9, <1>10
<1> HIDE DEF m
<1>12. Followed(table, cells, m, format)
  BY <1>4, <1>8, <1>11, WithIs
<1> QED BY <1>11, <1>12 DEF IsTable, Followed, m, names, format

-----------------------------------------------------------------------------
(* What the plan knows of a column's types.                                   *)

TypeIn(f, name) == Of(infos[f], name).type

InfoIn(f, name) == _column_info_from_scan(TypeIn(f, name))

\* What catalogs say of a column is one of finitely many things.
LEMMA InfosFinite ==
  ASSUME DOMAIN infos = Files, NEW name
  PROVE  /\ IsFiniteSet(Infos(infos, name)) /\ IsFiniteSet(Kinds(infos, name))
         /\ \A f \in Files : Within(<<name>>, infos[f]) =>
              InfoIn(f, name) \in Infos(infos, name) /\ InfoIn(f, name).kind \in Kinds(infos, name)
<1> DEFINE D == Present(infos, name)
           g == [f \in D |-> InfoIn(f, name)]
<1>1. IsFiniteSet(Files)
  BY FS_Interval, CollectionAssumption DEF Files
<1>2. IsFiniteSet(D)
  BY <1>1, FS_Subset DEF Present
<1>3. Infos(infos, name) = { g[f] : f \in D }
  BY DEF Infos, InfoIn, TypeIn
<1>4. IsFiniteSet(Infos(infos, name))
  <2>1. DOMAIN g = D
    OBVIOUS
  <2> HIDE DEF D, g
  <2> QED BY <1>2, <1>3, <2>1, ImageFinite
<1> DEFINE I == Infos(infos, name)
           h == [info \in I |-> info.kind]
<1>5. Kinds(infos, name) = { h[info] : info \in I }
  BY DEF Kinds
<1>6. IsFiniteSet(Kinds(infos, name))
  <2>1. DOMAIN h = I
    OBVIOUS
  <2> HIDE DEF h
  <2> QED BY <1>4, <1>5, <2>1, ImageFinite
<1>7. ASSUME NEW f \in Files, Within(<<name>>, infos[f])
      PROVE  InfoIn(f, name) \in Infos(infos, name) /\ InfoIn(f, name).kind \in Kinds(infos, name)
  <2>1. f \in D
    BY <1>7 DEF Present
  <2>2. InfoIn(f, name) \in Infos(infos, name)
    BY <1>3, <2>1
  <2> QED BY <2>2 DEF Kinds
<1> QED BY <1>4, <1>6, <1>7

\* A column has one kind in all catalogs, which the plan keeps; what is filled
\* has a kind that can be, and if it is a factor it is decoded.
LEMMA KindKnown ==
  ASSUME InfosKnown, PlanKept, DOMAIN infos = Files,
         NEW name \in ToSet(plan.columns), NEW f \in Files, Within(<<name>>, infos[f])
  PROVE  /\ TypeIn(f, name) \in ColumnTypes
         /\ Kinds(infos, name) = {InfoIn(f, name).kind} /\ plan.kinds[name] = InfoIn(f, name).kind
         /\ name \in plan.fills =>
              /\ InfoIn(f, name).kind \in Fillable
              /\ InfoIn(f, name).kind = "factor" => Decoding(name)
<1> DEFINE kind == InfoIn(f, name).kind
<1>1. TypeIn(f, name) \in ColumnTypes
  <2>1. PICK frame, codec : TypedFrame(frame) /\ infos[f] = Catalogued(frame, codec)
    BY DEF InfosKnown
  <2>2. DOMAIN infos[f] = DOMAIN frame /\ \A i \in DOMAIN frame : infos[f][i].type = frame[i].type
    BY <2>1, CataloguedIs DEF TypedFrame
  <2>3. PICK i \in DOMAIN infos[f] : Of(infos[f], name) = infos[f][i]
    BY OfWithin
  <2> QED BY <2>1, <2>2, <2>3 DEF TypedFrame, TypeIn
<1>2. IsFiniteSet(Kinds(infos, name)) /\ kind \in Kinds(infos, name)
  BY InfosFinite
<1>3. ~(Cardinality(Kinds(infos, name)) > 1) /\ plan.kinds[name] = CHOOSE k \in Kinds(infos, name) : TRUE
  BY DEF PlanKept
<1> HIDE DEF kind
<1>4. \A k \in Kinds(infos, name) : k = kind
  BY <1>2, <1>3, AtMostOne
<1>5. Kinds(infos, name) = {kind}
  BY <1>2, <1>4
<1>6. plan.kinds[name] = kind
  BY <1>3, <1>5
<1>7. ASSUME name \in plan.fills PROVE kind \in Fillable /\ (kind = "factor" => Decoding(name))
  <2>1. Kinds(infos, name) \subseteq Fillable /\ Absent(infos, name)
    BY <1>7 DEF PlanKept, Fills
  <2>2. kind = "factor" => name \in Decoded(infos, ToSet(plan.columns))
    BY <1>5, <2>1 DEF Decoded
  <2>3. plan.decode = Decoded(infos, ToSet(plan.columns))
    BY DEF PlanKept
  <2> QED BY <1>5, <2>1, <2>2, <2>3 DEF Decoding
<1> QED BY <1>1, <1>5, <1>6, <1>7 DEF kind

\* The catalogs show the same levels for a factor that is not decoded.
LEMMA LevelsKnown ==
  ASSUME InfosKnown, PlanKept, DOMAIN infos = Files,
         NEW name \in ToSet(plan.columns), ~Decoding(name),
         NEW f \in Files, Within(<<name>>, infos[f]), InfoIn(f, name).kind = "factor",
         NEW g \in Files, Within(<<name>>, infos[g])
  PROVE  InfoIn(f, name) = InfoIn(g, name)
<1>1. Kinds(infos, name) = {"factor"}
  BY KindKnown
<1>2. plan.decode = Decoded(infos, ToSet(plan.columns))
  BY DEF PlanKept
<1>3. ~(Cardinality(Infos(infos, name)) > 1)
  BY <1>1, <1>2 DEF Decoded, Decoding
<1> QED BY <1>3, InfosFinite, AtMostOne

\* What is filled has a kind that can be.
LEMMA FillKnown ==
  ASSUME PlanKept, NEW name \in ToSet(plan.columns), name \in plan.fills, DOMAIN infos = Files, InfosKnown
  PROVE  plan.kinds[name] \in Fillable
<1>1. PICK f \in Files : Within(<<name>>, infos[f])
  BY DEF PlanKept
<1> QED BY <1>1, KindKnown

-----------------------------------------------------------------------------
(* The types that are made of them.                                           *)

\* The catalog of a column that is no ALTREP vector shows its kind.
LEMMA InfoOf ==
  ASSUME NEW t \in ColumnTypes
  PROVE  /\ t.kind \in {"integer", "character", "factor", "datetime", "date", "duration"} /\ t.altrep \in BOOLEAN
         /\ t.detail \in Seq(STRING)
         /\ _column_info_from_scan(t).kind = IF t.altrep THEN "sexp_238" ELSE t.kind
<1>1. /\ t.kind \in {"integer", "character", "factor", "datetime", "date", "duration"} /\ t.altrep \in BOOLEAN
      /\ t.detail \in Seq(STRING)
  BY DEF ColumnTypes
<1> QED BY <1>1 DEF _column_info_from_scan

\* Levels that are all there are shown as they are.
LEMMA LevelsOf ==
  ASSUME NEW t \in ColumnTypes, NEW u \in ColumnTypes, ~t.altrep, ~u.altrep,
         t.kind = "factor", u.kind = "factor",
         MissingLevel \notin ToSet(t.detail), MissingLevel \notin ToSet(u.detail),
         _column_info_from_scan(t) = _column_info_from_scan(u)
  PROVE  t.detail = u.detail
<1>1. \A v \in ColumnTypes :
        ~v.altrep /\ v.kind = "factor" /\ MissingLevel \notin ToSet(v.detail)
          => _column_info_from_scan(v).levels = v.detail
  <2> SUFFICES ASSUME NEW v \in ColumnTypes, ~v.altrep, v.kind = "factor", MissingLevel \notin ToSet(v.detail)
               PROVE  _column_info_from_scan(v).levels = v.detail
    OBVIOUS
  <2> DEFINE detail == v.detail
             shown  == [i \in DOMAIN detail |-> IF detail[i] = MissingLevel THEN "" ELSE detail[i]]
  <2>1. _column_info_from_scan(v).levels = shown
    BY DEF _column_info_from_scan
  <2>2. \A i \in DOMAIN detail : detail[i] # MissingLevel
    BY DEF ToSet
  <2>3. detail \in Seq(STRING)
    BY InfoOf
  <2>4. shown = [i \in DOMAIN detail |-> detail[i]]
    BY <2>2
  <2>5. detail = [i \in DOMAIN detail |-> detail[i]]
    BY <2>3
  <2> QED BY <2>1, <2>4, <2>5
<1> QED BY <1>1

\* The Arrow types of what R wrote.
LEMMA ArrowTypes ==
  ASSUME NEW t \in ColumnTypes, NEW decoded, NEW naive
  PROVE  /\ t.kind = "integer" => ReadType(t, "arrow", decoded, naive) = <<"int32">>
         /\ t.kind = "character" => ReadType(t, "arrow", decoded, naive) =
                                      IF t.altrep THEN <<"string">> ELSE <<"large_string">>
         /\ t.kind = "factor" => ReadType(t, "arrow", decoded, naive) =
                                   IF decoded THEN <<"string">> ELSE <<"dictionary">>
         /\ t.kind = "datetime" =>
              /\ ReadType(t, "arrow", decoded, naive) = IF naive THEN <<"timestamp">> ELSE <<"timestamp">> \o t.detail
              /\ ReadType(t, "arrow", decoded, naive)[1] = "timestamp"
         /\ t.kind = "date" => ReadType(t, "arrow", decoded, naive) = <<"date32">>
         /\ t.kind = "duration" => ReadType(t, "arrow", decoded, naive) = <<"duration">>
<1>1. CASE t.kind = "integer"
  BY <1>1 DEF ReadType, _column_to_arrow
<1>2. CASE t.kind = "character"
  BY <1>2 DEF ReadType, _column_to_arrow
<1>3. CASE t.kind = "factor"
  BY <1>3 DEF ReadType, _column_to_arrow
<1>4. CASE t.kind = "datetime"
  <2>1. ReadType(t, "arrow", decoded, naive) = IF naive THEN <<"timestamp">> ELSE <<"timestamp">> \o t.detail
    BY <1>4 DEF ReadType, _column_to_arrow
  <2> DEFINE detail == t.detail
  <2>2. detail \in Seq(STRING)
    BY InfoOf
  <2> HIDE DEF detail
  <2>3. (<<"timestamp">> \o detail)[1] = "timestamp"
    BY <2>2
  <2> QED BY <1>4, <2>1, <2>3 DEF detail
<1>5. CASE t.kind = "date"
  BY <1>5 DEF ReadType, _column_to_arrow
<1>6. CASE t.kind = "duration"
  BY <1>6 DEF ReadType, _column_to_arrow
<1> QED BY <1>1, <1>2, <1>3, <1>4, <1>5, <1>6, InfoOf

\* The dtype of an instant.
ZoneShown(zone, naive) == IF naive THEN <<>> ELSE PandasZone(zone)
Instant(unit, zone, naive) == <<"datetime64", unit>> \o ZoneShown(zone, naive)

\* The pandas types of what R wrote.
LEMMA PandasTypes ==
  ASSUME NEW t \in ColumnTypes, NEW decoded, NEW naive
  PROVE  /\ t.kind = "integer" => ReadType(t, "pandas", decoded, naive) =
                                    IF "missing" \in t.holds THEN <<"Int32">> ELSE <<"int32">>
         /\ t.kind = "character" => ReadType(t, "pandas", decoded, naive) = <<"object">>
         /\ t.kind = "factor" => ReadType(t, "pandas", decoded, naive) =
                                   IF decoded THEN <<"object">> ELSE <<"category", Categories(t.detail)>>
         /\ t.kind = "datetime" =>
              /\ ReadType(t, "pandas", decoded, naive) = Instant(Unit(t), t.detail, naive)
              /\ ReadType(t, "pandas", decoded, naive)[1] = "datetime64"
         /\ t.kind = "date" =>
              /\ ReadType(t, "pandas", decoded, naive) = <<"datetime64", Unit(t)>>
              /\ ReadType(t, "pandas", decoded, naive)[1] = "datetime64"
         /\ t.kind = "duration" => ReadType(t, "pandas", decoded, naive) = <<"timedelta64", Unit(t)>>
<1>1. CASE t.kind = "integer"
  BY <1>1 DEF ReadType, _column_to_pandas
<1>2. CASE t.kind = "character"
  BY <1>2 DEF ReadType, _column_to_pandas
<1>3. CASE t.kind = "factor"
  BY <1>3 DEF ReadType, _column_to_pandas
<1>4. CASE t.kind = "datetime"
  <2>1. ReadType(t, "pandas", decoded, naive) = Instant(Unit(t), t.detail, naive)
    BY <1>4 DEF ReadType, _column_to_pandas, Instant, ZoneShown
  <2> DEFINE zone == ZoneShown(t.detail, naive)
             detail == t.detail
             unit == Unit(t)
  <2>2. zone = <<>> \/ zone = <<"UTC">> \/ zone = detail
    <3>1. PandasZone(detail) \in {<<>>, detail, <<"UTC">>}
      BY Zenon DEF PandasZone
    <3> QED BY <3>1 DEF ZoneShown
  <2>3. Instant(unit, detail, naive) = <<"datetime64", unit>> \o zone
    BY Zenon DEF Instant
  <2>4. detail \in Seq(STRING)
    BY InfoOf
  <2> HIDE DEF zone, unit, detail
  <2>5. (<<"datetime64", unit>> \o <<>>)[1] = "datetime64"
    OBVIOUS
  <2>6. (<<"datetime64", unit>> \o <<"UTC">>)[1] = "datetime64"
    OBVIOUS
  <2>7. (<<"datetime64", unit>> \o detail)[1] = "datetime64"
    BY <2>4
  <2> QED BY <1>4, <2>1, <2>2, <2>3, <2>5, <2>6, <2>7 DEF unit, detail
<1>5. CASE t.kind = "date"
  BY <1>5 DEF ReadType, _column_to_pandas
<1>6. CASE t.kind = "duration"
  BY <1>6 DEF ReadType, _column_to_pandas
<1> QED BY <1>1, <1>2, <1>3, <1>4, <1>5, <1>6, InfoOf

\* How two vectors of one kind may be read as columns of two types.
LEMMA SameKind ==
  ASSUME NEW t \in ColumnTypes, NEW u \in ColumnTypes, t.kind = u.kind, t.altrep = u.altrep,
         NEW format \in {"arrow", "pandas"}, NEW decoded, NEW naive,
         NEW a, a = ReadType(t, format, decoded, naive), NEW b, b = ReadType(u, format, decoded, naive), a # b
  PROVE  \/ format = "pandas" /\ t.kind \in {"integer", "duration"} /\ {a, b} \in Promoted
         \/ format = "pandas" /\ t.kind \in {"datetime", "date"} /\ Unit(t) # Unit(u)
         \/ t.kind = "datetime" /\ t.detail # u.detail
         \/ t.kind = "factor" /\ t.detail # u.detail /\ ~decoded /\ format = "pandas"
<1>1. CASE format = "arrow"
  <2>1. t.kind = "datetime" /\ t.detail # u.detail
    <3>1. t.kind \notin {"integer", "character", "factor", "date", "duration"}
      BY <1>1 DEF ReadType, _column_to_arrow
    <3>2. t.kind = "datetime"
      BY <3>1, InfoOf
    <3> QED BY <1>1, <3>2 DEF ReadType, _column_to_arrow
  <2> QED BY <2>1
<1>2. CASE format = "pandas"
  <2>1. CASE t.kind = "integer"
    <3>1. (a = <<"Int32">> /\ b = <<"int32">>) \/ (a = <<"int32">> /\ b = <<"Int32">>)
      BY <1>2, <2>1 DEF ReadType, _column_to_pandas
    <3>2. {a, b} = {<<"int32">>, <<"Int32">>}
      BY <3>1
    <3> QED BY <1>2, <2>1, <3>2 DEF Promoted
  <2>2. CASE t.kind = "duration"
    <3>1. a = <<"timedelta64", Unit(t)>> /\ b = <<"timedelta64", Unit(u)>>
      BY <1>2, <2>2 DEF ReadType, _column_to_pandas
    <3>2. Unit(t) \in {"s", "ns"} /\ Unit(u) \in {"s", "ns"}
      BY DEF Unit
    <3>3. \/ a = <<"timedelta64", "s">> /\ b = <<"timedelta64", "ns">>
          \/ a = <<"timedelta64", "ns">> /\ b = <<"timedelta64", "s">>
      BY <3>1, <3>2
    <3>4. {a, b} = {<<"timedelta64", "s">>, <<"timedelta64", "ns">>}
      BY <3>3
    <3> QED BY <1>2, <2>2, <3>4 DEF Promoted
  <2>3. t.kind # "character"
    BY <1>2 DEF ReadType, _column_to_pandas
  <2>4. CASE t.kind = "factor"
    BY <1>2, <2>4 DEF ReadType, _column_to_pandas
  <2>5. CASE t.kind = "datetime"
    BY <1>2, <2>5 DEF ReadType, _column_to_pandas
  <2>6. CASE t.kind = "date"
    BY <1>2, <2>6 DEF ReadType, _column_to_pandas
  <2> QED BY <2>1, <2>2, <2>3, <2>4, <2>5, <2>6, InfoOf
<1> QED BY <1>1, <1>2

\* The types of null-filled columns.
LEMMA FillTypes ==
  /\ FillType("integer", "arrow") = <<"int32">> /\ FillType("integer", "pandas") = <<"Int32">>
  /\ FillType("character", "arrow") = <<"large_string">> /\ FillType("character", "pandas") = <<"object">>
  /\ FillType("factor", "arrow") = <<"string">> /\ FillType("factor", "pandas") = <<"object">>
BY DEF FillType, _arrow_fill_type, _pandas_fill

-----------------------------------------------------------------------------
(* Two files' cells of one column.                                            *)

\* The cell of a file that lacks the column.
LEMMA FilledCell ==
  ASSUME InfosKnown, PlanKept, DOMAIN infos = Files, NEW name \in ToSet(plan.columns),
         NEW f \in Files, NEW format \in {"arrow", "pandas"},
         NEW cell, IsCell(cell, name, infos[f], format), ~Within(<<name>>, infos[f])
  PROVE  /\ name \in plan.fills /\ plan.kinds[name] \in Fillable
         /\ cell.type = FillType(plan.kinds[name], format)
         /\ cell.type \in {<<"int32">>, <<"Int32">>, <<"large_string">>, <<"string">>, <<"object">>}
<1>1. name \in plan.fills /\ cell.type = FillType(plan.kinds[name], format)
  BY DEF IsCell
<1>2. plan.kinds[name] \in Fillable
  BY <1>1, FillKnown
<1>3. cell.type \in {<<"int32">>, <<"Int32">>, <<"large_string">>, <<"string">>, <<"object">>}
  BY <1>1, <1>2, FillTypes DEF Fillable
<1> QED BY <1>1, <1>2, <1>3

\* Where one file has the column and the other lacks it, the fill is of the
\* type that the column has, or of one that pandas makes the same.
LEMMA FillSuits ==
  ASSUME InfosKnown, PlanKept, DOMAIN infos = Files, NEW name \in ToSet(plan.columns),
         NEW f \in Files, NEW g \in Files, NEW format \in {"arrow", "pandas"},
         NEW a, IsCell(a, name, infos[f], format), Within(<<name>>, infos[f]),
         NEW b, IsCell(b, name, infos[g], format), ~Within(<<name>>, infos[g])
  PROVE  /\ TypeIn(f, name).kind # "datetime"
         /\ a.type = b.type \/ (format = "pandas" /\ {a.type, b.type} \in Promoted)
<1> DEFINE t == TypeIn(f, name)
<1>1. name \in plan.fills /\ b.type = FillType(plan.kinds[name], format)
  BY FilledCell
<1>2. t \in ColumnTypes /\ plan.kinds[name] = InfoIn(f, name).kind /\ InfoIn(f, name).kind \in Fillable
      /\ (InfoIn(f, name).kind = "factor" => Decoding(name))
  BY <1>1, KindKnown
<1>3. ~t.altrep /\ t.kind = plan.kinds[name] /\ t.kind \in Fillable
  BY <1>2, InfoOf DEF InfoIn, Fillable
<1>4. a.type = ReadType(t, format, Decoding(name), options.naive)
  BY DEF IsCell, TypeIn
<1>5. t.kind = "factor" => Decoding(name)
  BY <1>2, <1>3
<1> HIDE DEF t
<1>6. CASE t.kind = "integer"
  <2>1. format = "arrow" => a.type = b.type
    BY <1>1, <1>2, <1>3, <1>4, <1>6, ArrowTypes, FillTypes
  <2>2. format = "pandas" => a.type \in {<<"int32">>, <<"Int32">>} /\ b.type = <<"Int32">>
    BY <1>1, <1>2, <1>3, <1>4, <1>6, PandasTypes, FillTypes
  <2>3. a.type = <<"int32">> /\ b.type = <<"Int32">> => {a.type, b.type} \in Promoted
    BY DEF Promoted
  <2> QED BY <1>6, <2>1, <2>2, <2>3 DEF t
<1>7. CASE t.kind = "character"
  BY <1>1, <1>2, <1>3, <1>4, <1>7, ArrowTypes, PandasTypes, FillTypes DEF t
<1>8. CASE t.kind = "factor"
  <2>1. b.type = IF format = "arrow" THEN <<"string">> ELSE <<"object">>
    BY <1>1, <1>3, <1>8, FillTypes
  <2>2. a.type = IF format = "arrow" THEN <<"string">> ELSE <<"object">>
    BY <1>4, <1>5, <1>8 DEF ReadType
  <2> QED BY <1>8, <2>1, <2>2 DEF t
<1> QED BY <1>3, <1>6, <1>7, <1>8 DEF Fillable, t

\* How the types of two files' cells of one column may differ: as pandas makes
\* them the same; by the values of instants; and where the catalogs do not show
\* the types, or the plan does not decode the levels.
LEMMA TypesDiffer ==
  ASSUME InfosKnown, PlanKept, DOMAIN infos = Files, NEW name \in ToSet(plan.columns),
         NEW f \in Files, NEW g \in Files, NEW format \in {"arrow", "pandas"},
         NEW a, IsCell(a, name, infos[f], format), NEW b, IsCell(b, name, infos[g], format),
         a.type # b.type
  PROVE  \/ format = "pandas" /\ {a.type, b.type} \in Promoted
         \/ /\ Within(<<name>>, infos[f]) /\ Within(<<name>>, infos[g])
            /\ \/ TypeIn(f, name).altrep /\ TypeIn(g, name).altrep /\ RType(TypeIn(f, name)) # RType(TypeIn(g, name))
               \/ /\ TypeIn(f, name).kind = TypeIn(g, name).kind
                  /\ \/ TypeIn(f, name).kind = "datetime" /\ RType(TypeIn(f, name)) # RType(TypeIn(g, name))
                     \/ /\ TypeIn(f, name).kind \in {"datetime", "date"} /\ format = "pandas"
                        /\ Unit(TypeIn(f, name)) # Unit(TypeIn(g, name))
                     \/ /\ TypeIn(f, name).kind = "factor" /\ ~Decoding(name) /\ format = "pandas"
                        /\ TypeIn(f, name).detail # TypeIn(g, name).detail
<1> SUFFICES ASSUME ~(format = "pandas" /\ {a.type, b.type} \in Promoted)
             PROVE  /\ Within(<<name>>, infos[f]) /\ Within(<<name>>, infos[g])
                    /\ \/ TypeIn(f, name).altrep /\ TypeIn(g, name).altrep /\ RType(TypeIn(f, name)) # RType(TypeIn(g, name))
                       \/ /\ TypeIn(f, name).kind = TypeIn(g, name).kind
                          /\ \/ TypeIn(f, name).kind = "datetime" /\ RType(TypeIn(f, name)) # RType(TypeIn(g, name))
                             \/ /\ TypeIn(f, name).kind \in {"datetime", "date"} /\ format = "pandas"
                                /\ Unit(TypeIn(f, name)) # Unit(TypeIn(g, name))
                             \/ /\ TypeIn(f, name).kind = "factor" /\ ~Decoding(name) /\ format = "pandas"
                                /\ TypeIn(f, name).detail # TypeIn(g, name).detail
  OBVIOUS
<1>1. Within(<<name>>, infos[f]) /\ Within(<<name>>, infos[g])
  <2>1. CASE ~Within(<<name>>, infos[f]) /\ ~Within(<<name>>, infos[g])
    BY <2>1, FilledCell
  <2>2. CASE ~Within(<<name>>, infos[f]) /\ Within(<<name>>, infos[g])
    <3>1. b.type = a.type \/ (format = "pandas" /\ {b.type, a.type} \in Promoted)
      BY <2>2, FillSuits
    <3>2. {b.type, a.type} = {a.type, b.type}
      OBVIOUS
    <3> QED BY <3>1, <3>2
  <2>3. CASE Within(<<name>>, infos[f]) /\ ~Within(<<name>>, infos[g])
    BY <2>3, FillSuits
  <2> QED BY <2>1, <2>2, <2>3
<1> DEFINE t == TypeIn(f, name)
           u == TypeIn(g, name)
           decoded == Decoding(name)
           naive == options.naive
<1>2. t \in ColumnTypes /\ u \in ColumnTypes /\ InfoIn(f, name).kind = InfoIn(g, name).kind
  <2>1. t \in ColumnTypes /\ Kinds(infos, name) = {InfoIn(f, name).kind}
    BY <1>1, KindKnown
  <2>2. u \in ColumnTypes /\ Kinds(infos, name) = {InfoIn(g, name).kind}
    BY <1>1, KindKnown
  <2> QED BY <2>1, <2>2
<1>3. a.type = ReadType(t, format, decoded, naive) /\ b.type = ReadType(u, format, decoded, naive)
  BY <1>1 DEF IsCell, TypeIn
<1>4. (t.altrep /\ u.altrep) \/ (~t.altrep /\ ~u.altrep /\ t.kind = u.kind)
  <2>1. _column_info_from_scan(t).kind = _column_info_from_scan(u).kind
    BY <1>2 DEF InfoIn
  <2> HIDE DEF t, u
  <2> QED BY <1>2, <2>1, InfoOf
<1> SUFFICES \/ t.altrep /\ u.altrep /\ RType(t) # RType(u)
             \/ /\ t.kind = u.kind
                /\ \/ t.kind = "datetime" /\ RType(t) # RType(u)
                   \/ t.kind \in {"datetime", "date"} /\ format = "pandas" /\ Unit(t) # Unit(u)
                   \/ t.kind = "factor" /\ ~decoded /\ format = "pandas" /\ t.detail # u.detail
  BY <1>1
<1> HIDE DEF t, u, decoded, naive
<1>5. RType(t) = RType(u) => t.kind = u.kind /\ t.detail = u.detail
  <2>1. \A v : RType(v).kind = v.kind /\ RType(v).detail = v.detail
    BY DEF RType
  <2> QED BY <2>1
<1>6. CASE t.altrep /\ u.altrep /\ RType(t) # RType(u)
  BY <1>6
<1>7. CASE ~(t.altrep /\ u.altrep /\ RType(t) # RType(u))
  <2>1. t.kind = u.kind /\ t.altrep = u.altrep
    BY <1>2, <1>4, <1>5, <1>7, InfoOf
  <2>2. \/ format = "pandas" /\ t.kind \in {"integer", "duration"} /\ {a.type, b.type} \in Promoted
        \/ format = "pandas" /\ t.kind \in {"datetime", "date"} /\ Unit(t) # Unit(u)
        \/ t.kind = "datetime" /\ t.detail # u.detail
        \/ t.kind = "factor" /\ t.detail # u.detail /\ ~decoded /\ format = "pandas"
    BY <1>2, <1>3, <2>1, SameKind
  <2> QED BY <1>5, <2>1, <2>2
<1> QED BY <1>6, <1>7

\* What a cell's type tells of the column in R.
LEMMA TypeShows ==
  ASSUME InfosKnown, PlanKept, DOMAIN infos = Files, NEW name \in ToSet(plan.columns),
         NEW f \in Files, NEW format \in {"arrow", "pandas"},
         NEW cell, IsCell(cell, name, infos[f], format)
  PROVE  /\ cell.type[1] = "datetime64" =>
              Within(<<name>>, infos[f]) /\ TypeIn(f, name).kind \in {"datetime", "date"}
         /\ cell.type[1] = "dictionary" =>
              Within(<<name>>, infos[f]) /\ TypeIn(f, name).kind = "factor" /\ ~Decoding(name)
         /\ format = "arrow" /\ Within(<<name>>, infos[f]) /\ TypeIn(f, name).kind = "datetime"
              => cell.type[1] = "timestamp"
         /\ format = "pandas" /\ Within(<<name>>, infos[f]) /\ TypeIn(f, name).kind \in {"datetime", "date"}
              => cell.type[1] = "datetime64"
<1>1. CASE ~Within(<<name>>, infos[f])
  <2>1. cell.type \in {<<"int32">>, <<"Int32">>, <<"large_string">>, <<"string">>, <<"object">>}
    BY <1>1, FilledCell
  <2>2. cell.type[1] # "datetime64" /\ cell.type[1] # "dictionary"
    BY <2>1
  <2> QED BY <1>1, <2>2
<1>2. CASE Within(<<name>>, infos[f])
  <2> DEFINE t == TypeIn(f, name)
             decoded == Decoding(name)
             naive == options.naive
  <2>1. t \in ColumnTypes /\ cell.type = ReadType(t, format, decoded, naive)
    BY <1>2, KindKnown DEF IsCell, TypeIn
  <2> HIDE DEF t, decoded, naive
  <2>2. CASE t.kind = "integer"
    <3>1. cell.type \in {<<"int32">>, <<"Int32">>}
      BY <2>1, <2>2, ArrowTypes, PandasTypes
    <3> QED BY <2>2, <3>1 DEF t
  <2>3. CASE t.kind = "character"
    <3>1. cell.type \in {<<"string">>, <<"large_string">>, <<"object">>}
      BY <2>1, <2>3, ArrowTypes, PandasTypes
    <3> QED BY <2>3, <3>1 DEF t
  <2>4. CASE t.kind = "factor"
    <3>1. \/ decoded /\ cell.type \in {<<"string">>, <<"object">>}
          \/ ~decoded /\ (cell.type = <<"dictionary">> \/ cell.type = <<"category", Categories(t.detail)>>)
      BY <2>1, <2>4, ArrowTypes, PandasTypes
    <3>2. cell.type[1] # "datetime64" /\ (cell.type[1] = "dictionary" => ~decoded)
      <4> DEFINE levels == Categories(t.detail)
      <4> HIDE DEF levels
      <4>1. <<"category", levels>>[1] = "category"
        OBVIOUS
      <4> QED BY <3>1, <4>1 DEF levels
    <3> QED BY <1>2, <2>4, <3>2 DEF t, decoded
  <2>5. CASE t.kind = "datetime"
    <3>1. IF format = "arrow" THEN cell.type[1] = "timestamp" ELSE cell.type[1] = "datetime64"
      BY <2>1, <2>5, ArrowTypes, PandasTypes
    <3> QED BY <1>2, <2>5, <3>1 DEF t
  <2>6. CASE t.kind = "date"
    <3>1. IF format = "arrow" THEN cell.type = <<"date32">> ELSE cell.type[1] = "datetime64"
      BY <2>1, <2>6, ArrowTypes, PandasTypes
    <3> QED BY <1>2, <2>6, <3>1 DEF t
  <2>7. CASE t.kind = "duration"
    <3>1. cell.type = <<"duration">> \/ cell.type = <<"timedelta64", Unit(t)>>
      BY <2>1, <2>7, ArrowTypes, PandasTypes
    <3>2. cell.type[1] \in {"duration", "timedelta64"}
      <4> DEFINE unit == Unit(t)
      <4> HIDE DEF unit
      <4> QED BY <3>1 DEF unit
    <3> QED BY <2>7, <3>2 DEF t
  <2> QED BY <2>1, <2>2, <2>3, <2>4, <2>5, <2>6, <2>7, InfoOf
<1> QED BY <1>1, <1>2

-----------------------------------------------------------------------------
(* What a terminal has.                                                       *)

\* The columns of a result are those of the plan, each in one place.
LEMMA PlanColumnsOnce ==
  ASSUME PlanKept
  PROVE  /\ Len(Once(plan.columns)) \in Nat /\ DOMAIN Once(plan.columns) = 1 .. Len(Once(plan.columns))
         /\ \A n \in 1 .. Len(Once(plan.columns)) : Once(plan.columns)[n] \in ToSet(plan.columns)
         /\ \A name \in ToSet(plan.columns) : \E n \in 1 .. Len(Once(plan.columns)) : Once(plan.columns)[n] = name
<1> DEFINE names == Once(plan.columns)
           P == ToSet(plan.columns)
<1>1. IsSequence(names) /\ ToSet(names) = P
  BY OnceIs DEF PlanKept
<1> HIDE DEF names, P
<1>2. Len(names) \in Nat /\ DOMAIN names = 1 .. Len(names)
  BY <1>1 DEF IsSequence
<1>3. \A n \in 1 .. Len(names) : names[n] \in ToSet(names)
  BY <1>2 DEF ToSet
<1>4. \A name \in ToSet(names) : \E n \in 1 .. Len(names) : names[n] = name
  BY <1>2 DEF ToSet
<1> QED BY <1>1, <1>2, <1>3, <1>4 DEF names, P

\* Each table of a terminal is of a file, under a plan.
LEMMA FileOfTable ==
  ASSUME TablesAligned, NEW f \in DOMAIN terminal.tables
  PROVE  f \in Files /\ Planned
<1>1. DOMAIN terminal.tables = 1 .. Len(terminal.tables) /\ Len(terminal.tables) \in Nat /\ Len(terminal.tables) <= N
  BY DEF TablesAligned, IsSequence
<1>2. f \in Files
  BY <1>1, CollectionAssumption DEF Files
<1>3. terminal.tables # <<>>
  BY <1>1
<1> QED BY <1>2, <1>3 DEF TablesAligned, NotCalled

\* It is a table under the plan, of what the file held when it was read.
LEMMA TableOf ==
  ASSUME CatalogsTaken, PlanMade, TablesAligned, NEW f \in DOMAIN terminal.tables
  PROVE  /\ Proper(Names(FrameOf(f))) =>
              IsTable(terminal.tables[f], Once(plan.columns), FrameOf(f), FormatOf(terminal.op), f)
         /\ replaced = {} => FrameOf(f) = infos[f]
<1>1. f \in Files /\ Planned
  BY FileOfTable
<1>2. InfosKnown /\ PlanKept
  BY <1>1, InfosAreKnown, PlanIsKept
<1>3. terminal.reads[f] \in FileContents /\ (replaced = {} => terminal.reads[f] = held[f])
      /\ Aligned(terminal.reads[f], f, terminal.op) = Got(terminal.tables[f])
  BY DEF TablesAligned
<1>4. index(f) \in Nat \ {0} /\ (replaced = {} => infos[f] = Catalogued(FrameIn(held[f], f), held[f].codec))
  BY <1>1, <1>2 DEF InfosKnown
<1>5. FrameOf(f) = Catalogued(FrameIn(terminal.reads[f], f), terminal.reads[f].codec)
  BY DEF FrameOf
<1>6. ASSUME Proper(Names(FrameOf(f)))
      PROVE  IsTable(terminal.tables[f], Once(plan.columns), FrameOf(f), FormatOf(terminal.op), f)
  BY <1>2, <1>3, <1>4, <1>5, <1>6, AlignedIs
<1> QED BY <1>3, <1>4, <1>5, <1>6

\* The first property, of every state of the invariant.
LEMMA Filled ==
  ASSUME CatalogsTaken, PlanMade, TablesAligned
  PROVE  FilledIffAbsent
<1> SUFFICES ASSUME NEW f \in DOMAIN terminal.tables, Proper(Names(FrameOf(f))),
                    NEW name \in ToSet(plan.columns)
             PROVE  \E cell \in ToSet(terminal.tables[f]) :
                      /\ cell.name = name
                      /\ IF Within(<<name>>, FrameOf(f)) THEN cell.value = Of(FrameOf(f), name).value
                         ELSE cell.value = None /\ name \in plan.fills
  BY DEF FilledIffAbsent
<1> DEFINE names == Once(plan.columns)
           table == terminal.tables[f]
           shown == FrameOf(f)
           format == FormatOf(terminal.op)
<1>1. IsTable(table, names, shown, format, f)
  BY TableOf
<1>2. PlanKept
  BY FileOfTable, PlanIsKept
<1>3. PICK n \in 1 .. Len(names) : names[n] = name
  BY <1>2, PlanColumnsOnce
<1>4. Len(names) \in Nat /\ Len(Generated) \in Nat
  BY <1>2, PlanColumnsOnce, CollectionAssumption
<1> HIDE DEF names, table, shown, format
<1>5. n \in DOMAIN table /\ IsCell(table[n], name, shown, format)
  BY <1>1, <1>3, <1>4 DEF IsTable
<1>6. table[n] \in ToSet(table)
  BY <1>5 DEF ToSet
<1> QED BY <1>5, <1>6 DEF IsCell, table, shown

-----------------------------------------------------------------------------
(* No promotion.                                                              *)

\* Where no catalog hides anything, a factor has the same levels in R.
LEMMA PlainTypes ==
  ASSUME InfosKnown, PlanKept, DOMAIN infos = Files, NEW name \in ToSet(plan.columns), ~Decoding(name),
         NEW f \in Files, Within(<<name>>, infos[f]), NEW g \in Files, Within(<<name>>, infos[g]),
         TypeIn(f, name).kind = "factor",
         \A h \in {f, g} : \A c \in ToSet(infos[h]) :
           ~c.type.altrep /\ (c.type.kind = "factor" => MissingLevel \notin ToSet(c.type.detail))
  PROVE  TypeIn(f, name).detail = TypeIn(g, name).detail
<1> DEFINE t == TypeIn(f, name)
           u == TypeIn(g, name)
<1>1. ASSUME NEW h \in {f, g}
      PROVE  /\ TypeIn(h, name) \in ColumnTypes /\ ~TypeIn(h, name).altrep
             /\ TypeIn(h, name).kind = "factor" => MissingLevel \notin ToSet(TypeIn(h, name).detail)
             /\ Kinds(infos, name) = {InfoIn(h, name).kind} /\ InfoIn(h, name).kind = TypeIn(h, name).kind
  <2>1. PICK i \in DOMAIN infos[h] : Of(infos[h], name) = infos[h][i]
    BY OfWithin
  <2>2. infos[h][i] \in ToSet(infos[h])
    BY DEF ToSet
  <2>3. ~TypeIn(h, name).altrep
        /\ (TypeIn(h, name).kind = "factor" => MissingLevel \notin ToSet(TypeIn(h, name).detail))
    BY <2>1, <2>2 DEF TypeIn
  <2>4. TypeIn(h, name) \in ColumnTypes /\ Kinds(infos, name) = {InfoIn(h, name).kind}
    BY KindKnown
  <2>5. InfoIn(h, name).kind = TypeIn(h, name).kind
    BY <2>3, <2>4, InfoOf DEF InfoIn
  <2> QED BY <2>3, <2>4, <2>5
<1>2. t \in ColumnTypes /\ ~t.altrep /\ t.kind = "factor" /\ MissingLevel \notin ToSet(t.detail)
      /\ InfoIn(f, name).kind = "factor" /\ Kinds(infos, name) = {"factor"}
  BY <1>1
<1>3. u \in ColumnTypes /\ ~u.altrep /\ u.kind = "factor" /\ MissingLevel \notin ToSet(u.detail)
  BY <1>1, <1>2
<1>4. _column_info_from_scan(t) = _column_info_from_scan(u)
  <2>1. InfoIn(f, name) = InfoIn(g, name)
    BY <1>2, LevelsKnown
  <2> QED BY <2>1 DEF InfoIn
<1> QED BY <1>2, <1>3, <1>4, LevelsOf

\* Where datetimes are not mixed, they are of one type.
LEMMA MixedIs ==
  ASSUME NEW tables, IsSequence(tables), Len(tables) \in Nat, NEW f \in DOMAIN tables, NEW g \in DOMAIN tables,
         NEW n \in DOMAIN tables[1], ~MixedDatetimes(tables), tables[f][n].type[1] = "datetime64"
  PROVE  tables[f][n].type = tables[g][n].type
<1> DEFINE h == [k \in DOMAIN tables |-> tables[k][n].type]
           types == { tables[k][n].type : k \in DOMAIN tables }
<1>1. IsFiniteSet(DOMAIN tables)
  <2>1. DOMAIN tables = 1 .. Len(tables)
    BY DEF IsSequence
  <2> QED BY <2>1, FS_Interval
<1>2. types = { h[k] : k \in DOMAIN tables } /\ DOMAIN h = DOMAIN tables
  OBVIOUS
<1>3. IsFiniteSet(types)
  <2> HIDE DEF h, types
  <2> QED BY <1>1, <1>2, ImageFinite
<1>4. tables[f][n].type \in types /\ tables[g][n].type \in types
  OBVIOUS
<1>5. ~(Cardinality(types) > 1)
  BY <1>4 DEF MixedDatetimes
<1> HIDE DEF types
<1> QED BY <1>3, <1>4, <1>5, AtMostOne

\* What pandas makes one is no dictionary.
LEMMA NotPromoted ==
  ASSUME NEW a, NEW b, {a, b} \in Promoted
  PROVE  a[1] # "dictionary" /\ b[1] # "dictionary"
<1>1. a \in UNION Promoted /\ b \in UNION Promoted
  OBVIOUS
<1>2. UNION Promoted = {<<"int32">>, <<"Int32">>, <<"timedelta64", "s">>, <<"timedelta64", "ns">>}
  BY DEF Promoted
<1> QED BY <1>1, <1>2

\* Two files' cells of one column, as the second property has them.
SameColumn(mine, theirs, f, g) ==
  /\ mine.name = theirs.name
  /\ \/ mine.type = theirs.type
     \/ terminal.op = "iter_arrow" /\ mine.type[1] = "timestamp" /\ theirs.type[1] = "timestamp"
     \/ terminal.op \in PandasOps /\ {mine.type, theirs.type} \in Promoted
  /\ mine.type[1] = "dictionary" =>
       Of(FrameOf(f), mine.name).type.detail = Of(FrameOf(g), mine.name).type.detail

\* The second property, for two tables of a terminal and one place.
LEMMA Unpromoted ==
  ASSUME CatalogsTaken, PlanMade, TablesAligned, SchemasAgree,
         Returned, replaced = {}, \A f \in DOMAIN terminal.tables : Plain(f),
         NEW f \in DOMAIN terminal.tables, NEW g \in DOMAIN terminal.tables, NEW n \in DOMAIN terminal.tables[f],
         NEW mine, mine = terminal.tables[f][n], NEW theirs, theirs = terminal.tables[g][n],
         terminal.op \in ArrowOps \cup PandasOps
  PROVE  SameColumn(mine, theirs, f, g)
<1> SUFFICES /\ mine.name = theirs.name
             /\ \/ mine.type = theirs.type
                \/ terminal.op = "iter_arrow" /\ mine.type[1] = "timestamp" /\ theirs.type[1] = "timestamp"
                \/ terminal.op \in PandasOps /\ {mine.type, theirs.type} \in Promoted
             /\ mine.type[1] = "dictionary" =>
                  Of(FrameOf(f), mine.name).type.detail = Of(FrameOf(g), mine.name).type.detail
  BY DEF SameColumn
<1> DEFINE names == Once(plan.columns)
           format == FormatOf(terminal.op)
           m == Len(names)
<1>1. f \in Files /\ g \in Files /\ Planned
  BY FileOfTable
<1>2. InfosKnown /\ PlanKept /\ DOMAIN infos = Files
  BY <1>1, InfosAreKnown, PlanIsKept
<1>3. ASSUME NEW h \in DOMAIN terminal.tables
      PROVE  /\ FrameOf(h) = infos[h] /\ IsTable(terminal.tables[h], names, infos[h], format, h)
             /\ \A c \in ToSet(infos[h]) :
                  ~c.type.altrep /\ (c.type.kind = "factor" => MissingLevel \notin ToSet(c.type.detail))
  <2>1. FrameOf(h) = infos[h]
    BY TableOf
  <2>2. /\ Proper(Names(FrameOf(h)))
        /\ \A c \in ToSet(FrameOf(h)) :
             ~c.type.altrep /\ (c.type.kind = "factor" => MissingLevel \notin ToSet(c.type.detail))
    BY DEF Plain
  <2>3. IsTable(terminal.tables[h], names, FrameOf(h), format, h)
    BY <2>2, TableOf
  <2> QED BY <2>1, <2>2, <2>3
<1>4. m \in Nat /\ Len(Generated) \in Nat /\ \A k \in 1 .. m : names[k] \in ToSet(plan.columns)
  BY <1>2, PlanColumnsOnce, CollectionAssumption
<1>5. format \in {"arrow", "pandas"} /\ (terminal.op \in ArrowOps <=> format = "arrow")
  BY DEF FormatOf
<1> HIDE DEF names, m, format
<1>6. CASE n \in 1 .. m
  <2> DEFINE name == names[n]
  <2>1. IsCell(mine, name, infos[f], format) /\ IsCell(theirs, name, infos[g], format)
    BY <1>3, <1>6 DEF IsTable, m
  <2>2. name \in ToSet(plan.columns) /\ mine.name = name /\ theirs.name = name
    BY <1>4, <1>6, <2>1 DEF IsCell
  <2> HIDE DEF name
  <2>3. ASSUME Within(<<name>>, infos[f]), Within(<<name>>, infos[g]), ~Decoding(name), TypeIn(f, name).kind = "factor"
        PROVE  TypeIn(f, name).detail = TypeIn(g, name).detail
    BY <1>1, <1>2, <1>3, <2>2, <2>3, PlainTypes
  <2>4. ASSUME mine.type[1] = "dictionary" PROVE TypeIn(f, name).detail = TypeIn(g, name).detail
    <3>1. Within(<<name>>, infos[f]) /\ TypeIn(f, name).kind = "factor" /\ ~Decoding(name)
      BY <1>1, <1>2, <1>5, <2>1, <2>2, <2>4, TypeShows
    <3>2. Within(<<name>>, infos[g])
      <4> SUFFICES ASSUME ~Within(<<name>>, infos[g]) PROVE FALSE
        OBVIOUS
      <4>1. mine.type = theirs.type \/ {mine.type, theirs.type} \in Promoted
        BY <1>1, <1>2, <1>5, <2>1, <2>2, <3>1, FillSuits
      <4>2. theirs.type[1] = "dictionary"
        <5>1. {mine.type, theirs.type} \notin Promoted
          BY <2>4, NotPromoted
        <5> QED BY <2>4, <4>1, <5>1
      <4> QED BY <1>1, <1>2, <1>5, <2>1, <2>2, <4>2, TypeShows
    <3> QED BY <2>3, <3>1, <3>2
  <2>5. ASSUME mine.type # theirs.type, ~(terminal.op \in PandasOps /\ {mine.type, theirs.type} \in Promoted)
        PROVE  terminal.op = "iter_arrow" /\ mine.type[1] = "timestamp" /\ theirs.type[1] = "timestamp"
    <3> DEFINE t == TypeIn(f, name)
               u == TypeIn(g, name)
    <3>1. /\ Within(<<name>>, infos[f]) /\ Within(<<name>>, infos[g])
          /\ \/ t.altrep
             \/ /\ t.kind = u.kind
                /\ \/ t.kind = "datetime"
                   \/ t.kind = "date" /\ format = "pandas"
                   \/ t.kind = "factor" /\ ~Decoding(name) /\ t.detail # u.detail
      <4>1. ~(format = "pandas" /\ {mine.type, theirs.type} \in Promoted)
        BY <1>5, <2>5 DEF ArrowOps, PandasOps
      <4>2. \/ format = "pandas" /\ {mine.type, theirs.type} \in Promoted
            \/ /\ Within(<<name>>, infos[f]) /\ Within(<<name>>, infos[g])
               /\ \/ t.altrep /\ u.altrep /\ RType(t) # RType(u)
                  \/ /\ t.kind = u.kind
                     /\ \/ t.kind = "datetime" /\ RType(t) # RType(u)
                        \/ /\ t.kind \in {"datetime", "date"} /\ format = "pandas"
                           /\ Unit(t) # Unit(u)
                        \/ /\ t.kind = "factor" /\ ~Decoding(name) /\ format = "pandas"
                           /\ t.detail # u.detail
        BY <1>1, <1>2, <1>5, <2>1, <2>2, <2>5, TypesDiffer
      <4> HIDE DEF t, u
      <4> QED BY <4>1, <4>2
    <3>2. ~t.altrep
      <4>1. PICK i \in DOMAIN infos[f] : Of(infos[f], name) = infos[f][i]
        BY <3>1, OfWithin
      <4>2. infos[f][i] \in ToSet(infos[f])
        BY DEF ToSet
      <4> QED BY <1>3, <4>1, <4>2 DEF TypeIn
    <3>3. t.kind = u.kind /\ (t.kind = "datetime" \/ (t.kind = "date" /\ format = "pandas"))
      BY <2>3, <3>1, <3>2
    <3>4. IF format = "arrow" THEN mine.type[1] = "timestamp" /\ theirs.type[1] = "timestamp"
          ELSE mine.type[1] = "datetime64"
      BY <1>1, <1>2, <1>5, <2>1, <2>2, <3>1, <3>3, TypeShows
    <3>5. terminal.op \notin PandasOps
      <4> SUFFICES ASSUME terminal.op \in PandasOps PROVE FALSE
        OBVIOUS
      <4>1. ~MixedDatetimes(terminal.tables)
        BY DEF SchemasAgree
      <4>2. terminal.op \notin ArrowOps
        BY DEF ArrowOps, PandasOps
      <4>3. mine.type[1] = "datetime64"
        BY <1>5, <3>4, <4>2
      <4>4. IsSequence(terminal.tables) /\ Len(terminal.tables) \in Nat /\ DOMAIN terminal.tables = 1 .. Len(terminal.tables)
        BY DEF TablesAligned, IsSequence
      <4>5. 1 \in DOMAIN terminal.tables
        BY <4>4
      <4>6. n \in DOMAIN terminal.tables[1]
        BY <1>3, <1>4, <1>6, <4>5 DEF IsTable, m
      <4>7. mine.type = theirs.type
        BY <4>1, <4>3, <4>4, <4>6, MixedIs
      <4> QED BY <2>5, <4>7
    <3>6. terminal.op \notin {"to_arrow", "to_record_batch_reader"}
      <4> SUFFICES ASSUME terminal.op \in {"to_arrow", "to_record_batch_reader"} PROVE FALSE
        OBVIOUS
      <4>1. Types(terminal.tables[f]) = Types(terminal.tables[g])
        BY DEF SchemasAgree
      <4>2. n \in DOMAIN terminal.tables[g]
        BY <1>3, <1>4, <1>6 DEF IsTable, m
      <4>3. Types(terminal.tables[f])[n] = <<mine.name, mine.type>> /\ Types(terminal.tables[g])[n] = <<theirs.name, theirs.type>>
        BY <4>2 DEF Types
      <4> QED BY <2>5, <4>1, <4>3
    <3> QED BY <1>5, <3>4, <3>5, <3>6 DEF ArrowOps, PandasOps
  <2>6. FrameOf(f) = infos[f] /\ FrameOf(g) = infos[g]
    BY <1>3
  <2> QED BY <2>2, <2>4, <2>5, <2>6 DEF TypeIn
<1>7. CASE n \notin 1 .. m
  <2>1. n \in 1 .. m + Len(Generated)
    BY <1>3 DEF IsTable, m
  <2> DEFINE k == n - m
  <2>2. k \in 1 .. Len(Generated) /\ m + k = n
    BY <1>4, <1>7, <2>1
  <2> HIDE DEF k
  <2>3. /\ mine.name = Generated[k] /\ mine.type = GeneratedType(format)
        /\ theirs.name = Generated[k] /\ theirs.type = GeneratedType(format)
    BY <1>3, <2>2 DEF IsTable, m
  <2>4. mine.type[1] # "dictionary"
    BY <2>3 DEF GeneratedType
  <2> QED BY <2>3, <2>4
<1> QED BY <1>6, <1>7

-----------------------------------------------------------------------------
(* What is accepted is read.                                                  *)

\* Why a read may fail in spite of the plan.
Excused(why, op) ==
  \/ why = "partition" /\ options.unmatched # {}
  \/ why \in {"unfillable", "value"} /\ Blank \in ToSet(plan.columns)
  \/ why = "value" /\ FormatOf(op) = "pandas" /\ options.mode = "strict"
       /\ \/ plan.columns = <<>>
          \/ \E f \in Files : held[f].codec # DefaultCodec
               /\ \E c \in ToSet(held[f].tables[1]) : c.name \in Unflagged
  \/ why \in {"schema", "datetimes"}
       /\ (HiddenDiffer \/ \E f \in Files : Blank \in ToSet(Names(infos[f])))
  \/ why = "datetimes" /\ UnitsDiffer

\* Every outcome of a file.
LEMMA OutcomeIs ==
  ASSUME NEW content, NEW f, NEW op, NEW got, got = Aligned(content, f, op)
  PROVE  /\ got.ok => got = Got(got.columns) /\ got.why = "ok"
         /\ ~got.ok => got.why \in {"index", "value", "unfillable", "partition"}
         /\ ~got.ok /\ got.why \in {"index", "value"} =>
              ~Read(content, f, op).ok /\ got.why = Read(content, f, op).why
         /\ ~got.ok /\ got.why = "unfillable" =>
              Read(content, f, op).ok /\ Unfillable(Read(content, f, op).columns, plan)
         /\ ~got.ok /\ got.why = "partition" => f \in options.unmatched
<1> DEFINE read  == Read(content, f, op)
           table == With(Align(read.columns, plan, FormatOf(op), options.naive), Generated, FormatOf(op), f)
           Loses == Unfillable(read.columns, plan)
           Other == f \in options.unmatched
           Is(r) == (\E t : r = Got(t)) \/ r = Lost("index") \/ r = Lost("value")
<1>1. got = IF ~read.ok THEN read ELSE IF Loses THEN Lost("unfillable")
            ELSE IF Other THEN Lost("partition") ELSE Got(table)
  BY Zenon DEF Aligned
<1>2. /\ \A why : ~Lost(why).ok /\ Lost(why).why = why
      /\ \A t : Got(t).ok /\ Got(t).why = "ok" /\ Got(t).columns = t
  BY DEF Lost, Got
<1>3. Is(read)
  <2>1. Is(ReadWhole(content, f))
    BY DEF ReadWhole
  <2>2. Is(ReadSelective(content, f))
    <3> DEFINE names == _scan_single_dataframe_column_names(content.tables[1])
               asked == ByName(plan.columns)
               Empty == plan.columns = <<>>
               Unfound == \E s \in ToSet(asked) : ~Resolvable(s, names, Len(content.tables[1]))
               keyed == Keyed(content.tables[1], content.codec,
                              _resolve_column_selection(asked, names, Len(content.tables[1])))
    <3>1. ReadSelective(content, f) =
            IF Empty THEN Lost("value") ELSE IF content.listed THEN ReadWhole(content, f)
            ELSE IF Unfound THEN Lost("value") ELSE Got(keyed)
      BY Zenon DEF ReadSelective
    <3> HIDE DEF Unfound, keyed, Empty
    <3> QED BY <2>1, <3>1
  <2>3. read = ReadWhole(content, f) \/ read = ReadSelective(content, f)
    BY DEF Read
  <2> HIDE DEF Is, read
  <2> QED BY <2>1, <2>2, <2>3
<1>4. \/ ~read.ok /\ got = read
      \/ read.ok /\ Loses /\ got = Lost("unfillable")
      \/ read.ok /\ Other /\ got = Lost("partition")
      \/ got = Got(table)
  <2> HIDE DEF read, table, Loses, Other
  <2> QED BY <1>1
<1> HIDE DEF read, table
<1>5. CASE ~read.ok /\ got = read
  BY <1>2, <1>3, <1>5 DEF read
<1>6. CASE read.ok /\ Loses /\ got = Lost("unfillable")
  BY <1>2, <1>6 DEF read
<1>7. CASE read.ok /\ Other /\ got = Lost("partition")
  BY <1>2, <1>7
<1>8. CASE got = Got(table)
  BY <1>2, <1>8
<1> QED BY <1>4, <1>5, <1>6, <1>7, <1>8

\* Only the selective read may fail, and only for names that it decodes
\* otherwise.
LEMMA ReadExcused ==
  ASSUME InfosKnown, PlanKept, CatalogsTaken, replaced = {}, NEW f \in Files, NEW op \in ArrowOps \cup PandasOps,
         NEW why, why = Read(held[f], f, op).why, ~Read(held[f], f, op).ok
  PROVE  Excused(why, op)
<1> DEFINE content == held[f]
           whole == ReadWhole(content, f)
           part  == ReadSelective(content, f)
<1>1. /\ content \in FileContents /\ There(content, f) /\ TypedFrame(FrameIn(content, f)) /\ index(f) \in Nat \ {0}
      /\ infos[f] = Catalogued(FrameIn(content, f), content.codec)
  BY DEF InfosKnown, CatalogsTaken
<1>2. whole.ok
  BY <1>1 DEF ReadWhole, Got
<1>3. op \in PandasOps /\ options.mode = "strict" /\ Read(content, f, op) = part
  BY <1>2 DEF Read
<1>4. FormatOf(op) = "pandas"
  BY <1>3 DEF FormatOf, ArrowOps, PandasOps
<1> DEFINE frame == content.tables[1]
           names == _scan_single_dataframe_column_names(frame)
           asked == ByName(plan.columns)
           Empty == plan.columns = <<>>
           Unfound == \E s \in ToSet(asked) : ~Resolvable(s, names, Len(frame))
           got == Got(Keyed(frame, content.codec, _resolve_column_selection(asked, names, Len(frame))))
<1>5. part = IF Empty THEN Lost("value") ELSE IF content.listed THEN whole
             ELSE IF Unfound THEN Lost("value") ELSE got
  BY Zenon DEF ReadSelective
<1>6. got.ok /\ Lost("value").why = "value"
  BY DEF Got, Lost
<1>7. why = "value" /\ (Empty \/ (~content.listed /\ Unfound))
  <2>1. ~part.ok /\ why = part.why
    BY <1>3
  <2> HIDE DEF part, whole, got, Unfound, Empty
  <2> QED BY <1>2, <1>5, <1>6, <2>1
<1>8. ASSUME ~content.listed, Unfound
      PROVE  content.codec # DefaultCodec /\ \E c \in ToSet(frame) : c.name \in Unflagged
  <2>1. FrameIn(content, f) = frame
    BY <1>1, <1>8, FrameIs
  <2>2. PICK s \in ToSet(ByName(plan.columns)) : ~Resolvable(s, names, Len(frame))
    BY <1>8
  <2>3. TypedFrame(frame) /\ infos[f] = Catalogued(frame, content.codec)
    BY <1>1, <2>1
  <2>4. IsInjective(Names(infos[f]))
    BY DEF PlanKept
  <2>5. Has(infos[f], plan.columns)
    <3>1. \A name \in ToSet(plan.columns) : Within(<<name>>, infos[f])
      BY <1>3 DEF PlanKept
    <3> QED BY <3>1, WithinIs DEF Has
  <2>6. names = Names(Catalogued(frame, DefaultCodec))
    BY DEF _scan_single_dataframe_column_names
  <2> SUFFICES ASSUME content.codec = DefaultCodec \/ \A c \in ToSet(frame) : c.name \notin Unflagged
               PROVE  FALSE
    OBVIOUS
  <2> DEFINE codec == content.codec
  <2> HIDE DEF frame, codec, names
  <2>7. Resolvable(s, Names(Catalogued(frame, DefaultCodec)), Len(frame))
    <3>1. codec = DefaultCodec \/ \A c \in ToSet(frame) : c.name \notin Unflagged
      BY DEF codec
    <3>2. IsFrame(frame) /\ IsInjective(Names(Catalogued(frame, codec)))
          /\ Has(Catalogued(frame, codec), plan.columns)
      BY <2>3, <2>4, <2>5 DEF TypedFrame, codec
    <3> QED BY <3>1, <3>2, NamesFound
  <2> QED BY <2>2, <2>6, <2>7
<1> HIDE DEF Unfound, Empty
<1> QED BY <1>3, <1>4, <1>7, <1>8 DEF Excused, Empty

\* The selective read of a frame takes the columns that its catalog shows
\* under the names asked for, and shows them under these names, if not blank.
LEMMA SelectedHas ==
  ASSUME NEW frame, IsFrame(frame), NEW codec, IsInjective(Names(Catalogued(frame, codec))),
         NEW columns, IsSequence(columns), NEW names, names = Names(Catalogued(frame, DefaultCodec)),
         \A s \in ToSet(ByName(columns)) : Resolvable(s, names, Len(frame)),
         NEW order, order = _resolve_column_selection(ByName(columns), names, Len(frame)),
         NEW name \in ToSet(columns), name # Blank,
         NEW j \in DOMAIN frame, decode(frame[j].name, codec) = name
  PROVE  name \in ToSet(Names(Keyed(frame, codec, order)))
<1> DEFINE at == Places(columns, names, Len(frame))
<1>1. Len(frame) \in Nat
  BY DEF IsFrame, IsSequence
<1>2. DOMAIN names = DOMAIN frame /\ \A i \in DOMAIN frame : names[i] = decode(frame[i].name, DefaultCodec)
  BY CataloguedIs
<1>3. order = Once(at)
  BY DEF _resolve_column_selection, Places
<1>4. IsSequence(at) /\ DOMAIN at = 1 .. Len(columns)
      /\ \A k \in 1 .. Len(columns) :
           /\ at[k] \in DOMAIN names /\ names[at[k]] = columns[k]
           /\ Alone(names, columns[k])
  BY <1>1, SelectionFound
<1> HIDE DEF at
<1>5. IsSequence(order) /\ ToSet(order) = ToSet(at)
  BY <1>3, <1>4, OnceIs
<1>6. PICK k \in 1 .. Len(columns) : columns[k] = name
  BY DEF IsSequence, ToSet
<1>7. at[k] \in ToSet(order)
  BY <1>4, <1>5 DEF ToSet
<1>8. at[k] = j
  <2>1. at[k] \in DOMAIN frame /\ decode(frame[at[k]].name, DefaultCodec) = name
    BY <1>2, <1>4, <1>6
  <2>2. { i \in DOMAIN names : names[i] = name } =
          { i \in DOMAIN frame : decode(frame[i].name, DefaultCodec) = name }
    BY <1>2
  <2>3. Cardinality({ i \in DOMAIN frame : decode(frame[i].name, DefaultCodec) = name }) = 1
    BY <1>4, <1>6, <2>2 DEF Alone
  <2> QED BY <2>1, <2>3, SamePlace
<1> QED BY <1>5, <1>7, <1>8, KeyedHas

\* A column that all files have is read under its name, unless that is blank.
LEMMA PresentIsRead ==
  ASSUME InfosKnown, PlanKept, CatalogsTaken, replaced = {}, NEW f \in Files, NEW op, Read(held[f], f, op).ok,
         NEW name \in ToSet(plan.columns), name # Blank, Within(<<name>>, infos[f])
  PROVE  name \in ToSet(Names(Read(held[f], f, op).columns))
<1> DEFINE content == held[f]
           whole == ReadWhole(content, f)
           part  == ReadSelective(content, f)
           codec == content.codec
<1>1. /\ content \in FileContents /\ There(content, f) /\ TypedFrame(FrameIn(content, f)) /\ index(f) \in Nat \ {0}
      /\ infos[f] = Catalogued(FrameIn(content, f), codec)
  BY DEF InfosKnown, CatalogsTaken
<1>2. PICK j \in DOMAIN FrameIn(content, f) : decode(FrameIn(content, f)[j].name, codec) = name
  <2>1. PICK j \in DOMAIN infos[f] : infos[f][j].name = name
    BY WithinIs
  <2> DEFINE frame == FrameIn(content, f)
  <2> HIDE DEF frame, codec
  <2>2. DOMAIN infos[f] = DOMAIN frame /\ \A i \in DOMAIN frame : infos[f][i].name = decode(frame[i].name, codec)
    BY <1>1, CataloguedIs DEF TypedFrame, frame
  <2> QED BY <2>1, <2>2 DEF frame
<1>3. whole.ok /\ name \in ToSet(Names(whole.columns))
  <2>1. whole.ok /\ whole.columns = FullRead(FrameIn(content, f), codec)
    BY <1>1 DEF ReadWhole, Got
  <2>2. name \in ToSet(Names(FullRead(FrameIn(content, f), codec)))
    BY <1>1, <1>2, FullReadHas DEF TypedFrame
  <2> QED BY <2>1, <2>2
<1>4. ASSUME part.ok PROVE name \in ToSet(Names(part.columns))
  <2> DEFINE frame == content.tables[1]
             names == _scan_single_dataframe_column_names(frame)
             asked == ByName(plan.columns)
             Empty == plan.columns = <<>>
             Unfound == \E s \in ToSet(asked) : ~Resolvable(s, names, Len(frame))
             order == _resolve_column_selection(asked, names, Len(frame))
             got == Got(Keyed(frame, codec, order))
  <2>1. part = IF Empty THEN Lost("value") ELSE IF content.listed THEN whole
               ELSE IF Unfound THEN Lost("value") ELSE got
    BY Zenon DEF ReadSelective
  <2>2. ~Lost("value").ok
    BY DEF Lost
  <2>3. part = whole \/ (~content.listed /\ ~Unfound /\ part = got)
    <3> HIDE DEF part, whole, got, Unfound, Empty
    <3> QED BY <1>4, <2>1, <2>2
  <2>4. ASSUME ~content.listed, ~Unfound, part = got PROVE name \in ToSet(Names(part.columns))
    <3>1. TypedFrame(frame) /\ FrameIn(content, f) = frame
      BY <1>1, <2>4, FrameIs
    <3>2. part.columns = Keyed(frame, codec, order)
      BY <2>4 DEF Got
    <3>3. names = Names(Catalogued(frame, DefaultCodec))
      BY DEF _scan_single_dataframe_column_names
    <3>4. IsSequence(plan.columns) /\ \A s \in ToSet(ByName(plan.columns)) : Resolvable(s, names, Len(frame))
      BY <2>4 DEF PlanKept
    <3>5. IsInjective(Names(Catalogued(frame, codec)))
      BY <1>1, <3>1 DEF PlanKept
    <3>6. j \in DOMAIN frame /\ decode(frame[j].name, codec) = name /\ IsFrame(frame) /\ Len(frame) \in Nat
      BY <1>2, <3>1 DEF TypedFrame, IsFrame, IsSequence
    <3> HIDE DEF names, frame, codec
    <3>7. name \in ToSet(Names(Keyed(frame, codec, order)))
      BY <3>3, <3>4, <3>5, <3>6, SelectedHas
    <3> QED BY <3>2, <3>7
  <2> HIDE DEF part, whole
  <2> QED BY <1>3, <2>3, <2>4
<1>5. Read(content, f, op) = whole \/ Read(content, f, op) = part
  BY DEF Read
<1> HIDE DEF whole, part
<1> QED BY <1>3, <1>4, <1>5

\* What a file fails for, while no file is replaced.
LEMMA FileExcused ==
  ASSUME CatalogsTaken, PlanMade, Planned, replaced = {}, NEW f \in Files, NEW op \in ArrowOps \cup PandasOps,
         NEW got, got = Aligned(held[f], f, op), ~got.ok
  PROVE  Excused(got.why, op)
<1>1. InfosKnown /\ PlanKept /\ DOMAIN infos = Files
  BY InfosAreKnown, PlanIsKept
<1>2. got.why \in {"index", "value", "unfillable", "partition"}
  BY OutcomeIs
<1>3. CASE got.why \in {"index", "value"}
  <2>1. ~Read(held[f], f, op).ok /\ got.why = Read(held[f], f, op).why
    BY <1>3, OutcomeIs
  <2> QED BY <1>1, <2>1, ReadExcused
<1>4. CASE got.why = "unfillable"
  <2>1. Read(held[f], f, op).ok /\ Unfillable(Read(held[f], f, op).columns, plan)
    BY <1>4, OutcomeIs
  <2>2. PICK name \in ToSet(plan.columns) :
          name \notin ToSet(Names(Read(held[f], f, op).columns)) /\ name \notin plan.fills
    BY <2>1 DEF Unfillable
  <2>3. Within(<<name>>, infos[f])
    <3>1. ~Absent(infos, name)
      BY <1>1, <2>2 DEF PlanKept, Fills
    <3> QED BY <1>1, <3>1 DEF Absent, Present
  <2>4. name = Blank
    BY <1>1, <2>1, <2>2, <2>3, PresentIsRead
  <2> QED BY <1>4, <2>4 DEF Excused
<1>5. CASE got.why = "partition"
  <2>1. f \in options.unmatched
    BY <1>5, OutcomeIs
  <2> QED BY <1>5, <2>1 DEF Excused
<1> QED BY <1>2, <1>3, <1>4, <1>5

\* A file's column of the plan.
LEMMA PlannedColumn ==
  ASSUME NEW name \in ToSet(plan.columns), NEW h \in Files, Within(<<name>>, infos[h])
  PROVE  /\ Of(infos[h], name) \in InPlan /\ Of(infos[h], name).name = name
         /\ Of(infos[h], name).type = TypeIn(h, name)
<1>1. PICK i \in DOMAIN infos[h] : infos[h][i].name = name /\ Of(infos[h], name) = infos[h][i]
  BY OfWithin
<1>2. Of(infos[h], name) \in ToSet(infos[h]) /\ Of(infos[h], name).name = name
  BY <1>1 DEF ToSet
<1>3. Of(infos[h], name) \in UNION { ToSet(infos[k]) : k \in Files }
  BY <1>2
<1> QED BY <1>2, <1>3 DEF InPlan, TypeIn

\* Types that differ behind the catalogs are those of two hidden columns.
LEMMA HiddenPair ==
  ASSUME NEW name \in ToSet(plan.columns), NEW f \in Files, NEW g \in Files,
         Within(<<name>>, infos[f]), Within(<<name>>, infos[g]), RType(TypeIn(f, name)) # RType(TypeIn(g, name)),
         \A h \in {f, g} : TypeIn(h, name).altrep \/ TypeIn(h, name).kind = "datetime"
  PROVE  HiddenDiffer
<1>1. ASSUME NEW h \in {f, g}
      PROVE  /\ Of(infos[h], name) \in Hidden /\ Of(infos[h], name).name = name
             /\ Of(infos[h], name).type = TypeIn(h, name)
  BY PlannedColumn DEF Hidden
<1> QED BY <1>1 DEF HiddenDiffer

\* Units that differ are those of two columns of the plan.
LEMMA UnitPair ==
  ASSUME NEW name \in ToSet(plan.columns), NEW f \in Files, NEW g \in Files,
         Within(<<name>>, infos[f]), Within(<<name>>, infos[g]), Unit(TypeIn(f, name)) # Unit(TypeIn(g, name)),
         TypeIn(f, name).kind = TypeIn(g, name).kind, TypeIn(f, name).kind \in {"datetime", "date"}
  PROVE  UnitsDiffer
<1> DEFINE c == Of(infos[f], name)
           d == Of(infos[g], name)
<1>1. /\ c \in InPlan /\ c.name = name /\ c.type = TypeIn(f, name)
      /\ d \in InPlan /\ d.name = name /\ d.type = TypeIn(g, name)
  BY PlannedColumn
<1> HIDE DEF c, d
<1> QED BY <1>1 DEF UnitsDiffer

\* Without blank names, what is yielded is a table under the plan.
LEMMA YieldedIs ==
  ASSUME InfosKnown, PlanKept, CatalogsTaken, replaced = {}, NEW f \in Files, NEW op,
         Blank \notin ToSet(Names(infos[f])), NEW table, Aligned(held[f], f, op) = Got(table)
  PROVE  IsTable(table, Once(plan.columns), infos[f], FormatOf(op), f)
<1>1. held[f] \in FileContents /\ index(f) \in Nat \ {0}
      /\ infos[f] = Catalogued(FrameIn(held[f], f), held[f].codec)
  BY DEF InfosKnown, CatalogsTaken
<1>2. Proper(Names(infos[f]))
  BY DEF PlanKept, Proper
<1> QED BY <1>1, <1>2, AlignedIs

\* Two Arrow schemas differ only in what the catalogs hide.
LEMMA SchemaExcused ==
  ASSUME CatalogsTaken, PlanMade, Planned, replaced = {}, NEW f \in Files, NEW g \in Files, NEW op \in ArrowOps,
         NEW mine, Aligned(held[f], f, op) = Got(mine), NEW theirs, Aligned(held[g], g, op) = Got(theirs),
         Types(mine) # Types(theirs)
  PROVE  Excused("schema", op)
<1> SUFFICES ASSUME \A h \in Files : Blank \notin ToSet(Names(infos[h]))
             PROVE  HiddenDiffer
  BY DEF Excused
<1> DEFINE names == Once(plan.columns)
           m == Len(names)
           k == Len(Generated)
<1>1. InfosKnown /\ PlanKept /\ DOMAIN infos = Files /\ FormatOf(op) = "arrow"
  BY InfosAreKnown, PlanIsKept DEF FormatOf
<1>2. m \in Nat /\ k \in Nat /\ \A n \in 1 .. m : names[n] \in ToSet(plan.columns)
  BY <1>1, PlanColumnsOnce, CollectionAssumption
<1>3. IsTable(mine, names, infos[f], "arrow", f) /\ IsTable(theirs, names, infos[g], "arrow", g)
  BY <1>1, YieldedIs
<1> HIDE DEF names
<1>4. DOMAIN mine = 1 .. m + k /\ DOMAIN theirs = 1 .. m + k
  BY <1>3 DEF IsTable
<1>5. PICK n \in 1 .. m + k : <<mine[n].name, mine[n].type>> # <<theirs[n].name, theirs[n].type>>
  <2> SUFFICES ASSUME \A n \in 1 .. m + k :
                        <<mine[n].name, mine[n].type>> = <<theirs[n].name, theirs[n].type>>
               PROVE  FALSE
    OBVIOUS
  <2>1. [n \in 1 .. m + k |-> <<mine[n].name, mine[n].type>>] =
          [n \in 1 .. m + k |-> <<theirs[n].name, theirs[n].type>>]
    OBVIOUS
  <2> QED BY <1>4, <2>1 DEF Types
<1>6. n \in 1 .. m
  <2> SUFFICES ASSUME n \notin 1 .. m PROVE FALSE
    OBVIOUS
  <2>1. n - m \in 1 .. k /\ m + (n - m) = n
    BY <1>2
  <2>2. mine[n].name = theirs[n].name /\ mine[n].type = theirs[n].type
    BY <1>3, <2>1 DEF IsTable
  <2> QED BY <1>5, <2>2
<1> DEFINE name == names[n]
<1>7. name \in ToSet(plan.columns) /\ IsCell(mine[n], name, infos[f], "arrow") /\ IsCell(theirs[n], name, infos[g], "arrow")
  BY <1>2, <1>3, <1>6 DEF IsTable
<1> HIDE DEF name
<1>8. mine[n].type # theirs[n].type
  BY <1>5, <1>7 DEF IsCell
<1>9. /\ Within(<<name>>, infos[f]) /\ Within(<<name>>, infos[g])
      /\ RType(TypeIn(f, name)) # RType(TypeIn(g, name))
      /\ \/ TypeIn(f, name).altrep /\ TypeIn(g, name).altrep
         \/ TypeIn(f, name).kind = "datetime" /\ TypeIn(g, name).kind = "datetime"
  BY <1>1, <1>7, <1>8, TypesDiffer
<1> QED BY <1>7, <1>9, HiddenPair

\* And so do the datetimes of frames.
LEMMA DatetimesExcused ==
  ASSUME CatalogsTaken, PlanMade, Planned, replaced = {}, NEW op \in PandasOps,
         NEW tables, DOMAIN tables \subseteq Files, 1 \in DOMAIN tables,
         \A f \in DOMAIN tables : Aligned(held[f], f, op) = Got(tables[f]),
         MixedDatetimes(tables)
  PROVE  Excused("datetimes", op)
<1> SUFFICES ASSUME \A h \in Files : Blank \notin ToSet(Names(infos[h]))
             PROVE  HiddenDiffer \/ UnitsDiffer
  BY DEF Excused
<1> DEFINE names == Once(plan.columns)
           m == Len(names)
           k == Len(Generated)
<1>1. InfosKnown /\ PlanKept /\ DOMAIN infos = Files /\ FormatOf(op) = "pandas"
  BY InfosAreKnown, PlanIsKept DEF FormatOf, ArrowOps, PandasOps
<1>2. m \in Nat /\ k \in Nat /\ \A n \in 1 .. m : names[n] \in ToSet(plan.columns)
  BY <1>1, PlanColumnsOnce, CollectionAssumption
<1>3. \A f \in DOMAIN tables : IsTable(tables[f], names, infos[f], "pandas", f)
  BY <1>1, YieldedIs
<1> HIDE DEF names
<1>4. PICK n \in DOMAIN tables[1] :
        /\ Cardinality({ tables[f][n].type : f \in DOMAIN tables }) > 1
        /\ \E type \in { tables[f][n].type : f \in DOMAIN tables } : type[1] = "datetime64"
  BY DEF MixedDatetimes
<1> DEFINE types == { tables[f][n].type : f \in DOMAIN tables }
<1>5. PICK f \in DOMAIN tables : tables[f][n].type[1] = "datetime64"
  BY <1>4
<1>6. PICK g \in DOMAIN tables : tables[g][n].type # tables[f][n].type
  <2>1. Cardinality(types) > 1 /\ tables[f][n].type \in types
    BY <1>4
  <2> DEFINE type == tables[f][n].type
  <2> HIDE DEF types, type
  <2>2. \E other \in types : other # type
    BY <2>1, MoreThanOne DEF type
  <2> QED BY <2>2 DEF types, type
<1>7. n \in 1 .. m + k
  BY <1>3 DEF IsTable
<1>8. n \in 1 .. m
  <2> SUFFICES ASSUME n \notin 1 .. m PROVE FALSE
    OBVIOUS
  <2>1. n - m \in 1 .. k /\ m + (n - m) = n
    BY <1>2, <1>7
  <2>2. tables[f][n].type = <<"object">>
    BY <1>3, <2>1 DEF IsTable, GeneratedType
  <2> QED BY <1>5, <2>2
<1> DEFINE name == names[n]
<1>9. /\ name \in ToSet(plan.columns) /\ f \in Files /\ g \in Files
      /\ IsCell(tables[f][n], name, infos[f], "pandas") /\ IsCell(tables[g][n], name, infos[g], "pandas")
  BY <1>2, <1>3, <1>8 DEF IsTable
<1> HIDE DEF name
<1>10. TypeIn(f, name).kind \in {"datetime", "date"}
  BY <1>1, <1>5, <1>9, TypeShows
<1>11. {tables[f][n].type, tables[g][n].type} \notin Promoted
  <2>1. \A a, b : {a, b} \in Promoted => a[1] # "datetime64"
    <3> SUFFICES ASSUME NEW a, NEW b, {a, b} \in Promoted PROVE a[1] # "datetime64"
      OBVIOUS
    <3>1. a \in UNION Promoted
      OBVIOUS
    <3>2. UNION Promoted = {<<"int32">>, <<"Int32">>, <<"timedelta64", "s">>, <<"timedelta64", "ns">>}
      BY DEF Promoted
    <3> QED BY <3>1, <3>2
  <2> QED BY <1>5, <2>1
<1> DEFINE t == TypeIn(f, name)
           u == TypeIn(g, name)
<1>12. /\ Within(<<name>>, infos[f]) /\ Within(<<name>>, infos[g])
       /\ \/ t.altrep /\ u.altrep /\ RType(t) # RType(u)
          \/ t.kind = u.kind /\ t.kind = "datetime" /\ RType(t) # RType(u)
          \/ t.kind = u.kind /\ t.kind \in {"datetime", "date"} /\ Unit(t) # Unit(u)
  BY <1>1, <1>6, <1>9, <1>10, <1>11, TypesDiffer
<1>13. CASE t.altrep /\ u.altrep /\ RType(t) # RType(u)
  BY <1>9, <1>12, <1>13, HiddenPair
<1>14. CASE t.kind = u.kind /\ t.kind = "datetime" /\ RType(t) # RType(u)
  BY <1>9, <1>12, <1>14, HiddenPair
<1>15. CASE t.kind = u.kind /\ t.kind \in {"datetime", "date"} /\ Unit(t) # Unit(u)
  BY <1>9, <1>12, <1>15, UnitPair
<1> QED BY <1>12, <1>13, <1>14, <1>15

-----------------------------------------------------------------------------
(* The steps.                                                                 *)

\* What depends on the catalogs, the plan and the arguments alone.
LEMMA PlanStays ==
  ASSUME catalogs' = catalogs, options' = options, plan' = plan
  PROVE  /\ \A content, f, op : Aligned(content, f, op)' = Aligned(content, f, op)
         /\ \A f : CanSelect(f)' = CanSelect(f)
         /\ Plan' = Plan /\ Planned' = Planned /\ infos' = infos
<1>1. \A f : NamesOfTables(f)' = NamesOfTables(f)
  BY DEF NamesOfTables
<1>2. \A f : index(f)' = index(f) /\ CanSelect(f)' = CanSelect(f)
  BY <1>1 DEF index, CanSelect
<1>3. infos' = infos
  BY <1>2 DEF infos
<1>4. \A content, f : ReadWhole(content, f)' = ReadWhole(content, f)
  BY <1>2 DEF ReadWhole, There, FrameIn, PlaceIn
<1>5. \A content, f : ReadSelective(content, f)' = ReadSelective(content, f)
  BY <1>4, Zenon DEF ReadSelective
<1>6. \A content, f, op : Read(content, f, op)' = Read(content, f, op)
  BY <1>4, <1>5, Zenon DEF Read
<1>7. \A content, f, op : Aligned(content, f, op)' = Aligned(content, f, op)
  BY <1>6, ZenonT(60) DEF Aligned
<1> QED BY <1>2, <1>3, <1>7 DEF Plan, Planned

\* Before the first terminal.
Waiting == terminal = NotCalled

\* Before the first terminal there is nothing to show.
LEMMA WaitingIs ==
  ASSUME Waiting
  PROVE  TablesAligned /\ SchemasAgree /\ AcceptedIsRead
<1>1. /\ terminal.op = None /\ terminal.why = "ok" /\ ~terminal.busy /\ terminal.tables = <<>> /\ terminal.reads = <<>>
      /\ terminal = [op |-> terminal.op, why |-> terminal.why, busy |-> terminal.busy,
                     tables |-> terminal.tables, reads |-> terminal.reads]
  BY DEF Waiting, NotCalled
<1>2. IsSequence(<<>>) /\ Len(<<>>) = 0 /\ DOMAIN <<>> = {}
  BY EmptyIsSequence
<1>3. TablesAligned
  BY <1>1, <1>2, CollectionAssumption DEF TablesAligned, Waiting
<1> QED BY <1>1, <1>2, <1>3 DEF SchemasAgree, AcceptedIsRead, Returned

LEMMA NotPlannedWaits ==
  ASSUME TablesAligned, ~Planned
  PROVE  Waiting
BY DEF TablesAligned, Waiting

LEMMA CInvInit == CollectionInit => CInv
<1> SUFFICES ASSUME CollectionInit PROVE CInv
  OBVIOUS
<1>1. Waiting
  BY DEF CollectionInit, Waiting
<1>2. ~Planned
  BY DEF CollectionInit, Planned
<1>3. CatalogsTaken
  BY DEF CollectionInit, CatalogsTaken
<1> QED BY <1>1, <1>2, <1>3, WaitingIs DEF CInv, PlanMade

LEMMA ReplaceFileStep ==
  ASSUME CInv, NEW f \in Files, ReplaceFile(f)
  PROVE  CInv'
<1>1. CatalogsTaken /\ PlanMade /\ TablesAligned /\ SchemasAgree /\ AcceptedIsRead
  BY DEF CInv
<1>2. catalogs' = catalogs /\ options' = options /\ plan' = plan /\ terminal' = terminal
  BY DEF ReplaceFile
<1>3. PICK content \in FileContents : held' = [held EXCEPT ![f] = content]
  BY DEF ReplaceFile
<1>4. replaced' = IF catalogs[f] = None THEN replaced ELSE replaced \cup {f}
  BY DEF ReplaceFile
<1>5. CatalogsTaken'
  <2>1. held' \in [Files -> FileContents] /\ \A g \in Files : g # f => held'[g] = held[g]
    BY <1>1, <1>3 DEF CatalogsTaken
  <2>2. ASSUME NEW g \in Files, catalogs[g] # None
        PROVE  /\ \E other \in FileContents : catalogs[g] = Catalog(other, None)
               /\ g \notin replaced' => catalogs[g] = Catalog(held'[g], None)
    <3>1. g \notin replaced' => g # f /\ g \notin replaced
      BY <1>4, <2>2
    <3> QED BY <1>1, <2>1, <2>2, <3>1 DEF CatalogsTaken
  <2> QED BY <1>1, <1>2, <1>4, <2>1, <2>2 DEF CatalogsTaken
<1>6. PlanMade'
  <2>1. /\ \A g : CanSelect(g)' = CanSelect(g)
        /\ Plan' = Plan /\ Planned' = Planned
    BY <1>2, PlanStays
  <2> QED BY <1>1, <1>2, <2>1 DEF PlanMade
<1>7. CASE ~Planned
  <2>1. Waiting'
    BY <1>1, <1>2, <1>7, NotPlannedWaits DEF Waiting
  <2>2. Waiting' => (TablesAligned /\ SchemasAgree /\ AcceptedIsRead)'
    BY WaitingIs, PTL
  <2> QED BY <1>5, <1>6, <2>1, <2>2 DEF CInv
<1>8. CASE Planned
  <2>1. replaced' # {}
    BY <1>1, <1>4, <1>8 DEF PlanMade
  <2>2. Planned' = Planned /\ \A given, g, op : Aligned(given, g, op)' = Aligned(given, g, op)
    BY <1>2, PlanStays
  <2>3. TablesAligned'
    BY <1>1, <1>2, <2>1, <2>2 DEF TablesAligned, NotCalled
  <2>4. SchemasAgree'
    <3>1. MixedDatetimes(terminal.tables)' = MixedDatetimes(terminal.tables) /\ Returned' = Returned
      BY <1>2 DEF MixedDatetimes, Returned
    <3>2. (\A g \in DOMAIN terminal.tables : Types(terminal.tables[g]) = Types(terminal.tables[1]))' =
          (\A g \in DOMAIN terminal.tables : Types(terminal.tables[g]) = Types(terminal.tables[1]))
      BY <1>2
    <3> QED BY <1>1, <1>2, <3>1, <3>2 DEF SchemasAgree
  <2>5. AcceptedIsRead'
    BY <2>1 DEF AcceptedIsRead
  <2> QED BY <1>5, <1>6, <2>3, <2>4, <2>5 DEF CInv
<1> QED BY <1>7, <1>8

LEMMA TakeCatalogStep ==
  ASSUME CInv, NEW f \in Files, TakeCatalog(f)
  PROVE  CInv'
<1>1. CatalogsTaken /\ PlanMade /\ TablesAligned
  BY DEF CInv
<1>2. held' = held /\ replaced' = replaced /\ options' = options /\ plan' = plan /\ terminal' = terminal
      /\ catalogs[f] = None /\ catalogs' = [catalogs EXCEPT ![f] = Catalog(held[f], None)]
  BY DEF TakeCatalog
<1>3. ~Planned
  BY <1>1, <1>2 DEF PlanMade
<1>4. CatalogsTaken'
  <2>1. held[f] \in FileContents /\ DOMAIN catalogs = Files
    BY <1>1 DEF CatalogsTaken
  <2>2. DOMAIN catalogs' = Files /\ catalogs'[f] = Catalog(held[f], None) /\ \A g \in Files \ {f} : catalogs'[g] = catalogs[g]
    BY <1>2, <2>1
  <2>3. ASSUME NEW g \in Files, catalogs'[g] # None
        PROVE  /\ \E content \in FileContents : catalogs'[g] = Catalog(content, None)
               /\ g \notin replaced => catalogs'[g] = Catalog(held[g], None)
    BY <1>1, <2>1, <2>2, <2>3 DEF CatalogsTaken
  <2> QED BY <1>1, <1>2, <2>2, <2>3 DEF CatalogsTaken
<1>5. ~Planned' /\ Waiting'
  BY <1>1, <1>2, <1>3, NotPlannedWaits DEF Planned, Waiting
<1>6. Waiting' => (TablesAligned /\ SchemasAgree /\ AcceptedIsRead)'
  BY WaitingIs, PTL
<1> QED BY <1>4, <1>5, <1>6 DEF CInv, PlanMade

LEMMA BuildPlanStep ==
  ASSUME CInv, BuildPlan
  PROVE  CInv'
<1>1. CatalogsTaken /\ PlanMade /\ TablesAligned
  BY DEF CInv
<1>2. held' = held /\ replaced' = replaced /\ options' = options /\ catalogs' = catalogs /\ terminal' = terminal
      /\ plan = None /\ (\A f \in Files : catalogs[f] # None)
  BY DEF BuildPlan
<1>3. \/ plan' = Refused("selection")
      \/ (\A f \in Files : CanSelect(f)) /\ plan' = Plan
  BY DEF BuildPlan
<1>4. CatalogsTaken'
  BY <1>1, <1>2 DEF CatalogsTaken
<1>5. Waiting'
  BY <1>1, <1>2, NotPlannedWaits DEF Planned, Waiting
<1>6. Waiting' => (TablesAligned /\ SchemasAgree /\ AcceptedIsRead)'
  BY WaitingIs, PTL
<1>7. PlanMade'
  <2>1. \A f : NamesOfTables(f)' = NamesOfTables(f)
    BY <1>2 DEF NamesOfTables
  <2>2. \A f : index(f)' = index(f) /\ CanSelect(f)' = CanSelect(f)
    BY <1>2, <2>1 DEF index, CanSelect
  <2>3. infos' = infos
    BY <1>2, <2>2 DEF infos
  <2>4. Plan' = Plan
    BY <1>2, <2>3 DEF Plan
  <2>5. CASE plan' = Refused("selection")
    BY <2>5 DEF PlanMade, Planned, Refused
  <2>6. CASE (\A f \in Files : CanSelect(f)) /\ plan' = Plan
    BY <1>2, <2>2, <2>4, <2>6 DEF PlanMade
  <2> QED BY <1>3, <2>5, <2>6
<1> QED BY <1>4, <1>5, <1>6, <1>7 DEF CInv

\* What a step of a terminal leaves as it is.
Rest == held' = held /\ replaced' = replaced /\ options' = options /\ catalogs' = catalogs /\ plan' = plan

\* A step of a terminal leaves catalogs and plan as they are.
LEMMA RestStays ==
  ASSUME CInv, Rest
  PROVE  /\ CatalogsTaken' /\ PlanMade' /\ Planned' = Planned
         /\ \A content, f, op : Aligned(content, f, op)' = Aligned(content, f, op)
<1>1. /\ \A content, f, op : Aligned(content, f, op)' = Aligned(content, f, op)
      /\ \A f : CanSelect(f)' = CanSelect(f)
      /\ Plan' = Plan /\ Planned' = Planned
  BY PlanStays DEF Rest
<1>2. CatalogsTaken'
  BY DEF CInv, Rest, CatalogsTaken
<1>3. PlanMade'
  BY <1>1 DEF CInv, Rest, PlanMade
<1> QED BY <1>1, <1>2, <1>3

LEMMA BeginTerminalStep ==
  ASSUME CInv, NEW op \in ArrowOps \cup PandasOps, BeginTerminal(op)
  PROVE  CInv'
<1>1. Planned /\ terminal' = [NotCalled EXCEPT !.op = op, !.busy = TRUE] /\ Rest
  BY DEF BeginTerminal, Rest
<1>2. terminal'.op = op /\ terminal'.why = "ok" /\ terminal'.busy /\ terminal'.tables = <<>> /\ terminal'.reads = <<>>
      /\ terminal' = [op |-> terminal'.op, why |-> terminal'.why, busy |-> terminal'.busy,
                      tables |-> terminal'.tables, reads |-> terminal'.reads]
  BY <1>1 DEF NotCalled
<1>3. IsSequence(<<>>) /\ Len(<<>>) = 0 /\ DOMAIN <<>> = {}
  BY EmptyIsSequence
<1>4. CatalogsTaken' /\ PlanMade' /\ Planned'
  BY <1>1, RestStays
<1>5. TablesAligned'
  BY <1>2, <1>3, <1>4, CollectionAssumption DEF TablesAligned
<1>6. SchemasAgree' /\ AcceptedIsRead'
  BY <1>2, <1>3 DEF SchemasAgree, AcceptedIsRead, Returned
<1> QED BY <1>4, <1>5, <1>6 DEF CInv

LEMMA BusyIs ==
  ASSUME CInv, terminal.busy
  PROVE  Planned /\ terminal.op \in ArrowOps \cup PandasOps /\ terminal # NotCalled
BY DEF CInv, TablesAligned, NotCalled

\* A terminal that fails for a reason that is excused.
LEMMA FailStep ==
  ASSUME CInv, terminal.busy, Rest, NEW why, Fail(why), why # "ok",
         replaced = {} => Excused(why, terminal.op)
  PROVE  CInv'
<1>1. CatalogsTaken' /\ PlanMade' /\ Planned' = Planned
      /\ \A content, f, op : Aligned(content, f, op)' = Aligned(content, f, op)
  BY RestStays
<1>2. Planned /\ terminal.op \in ArrowOps \cup PandasOps
  BY BusyIs
<1>3. terminal'.op = terminal.op /\ terminal'.why = why /\ ~terminal'.busy
      /\ terminal'.tables = terminal.tables /\ terminal'.reads = terminal.reads
      /\ terminal' = [op |-> terminal'.op, why |-> terminal'.why, busy |-> terminal'.busy,
                      tables |-> terminal'.tables, reads |-> terminal'.reads]
  BY DEF Fail, CInv, TablesAligned
<1>4. TablesAligned'
  BY <1>1, <1>2, <1>3 DEF CInv, TablesAligned, Rest
<1>5. SchemasAgree'
  BY <1>3 DEF CInv, SchemasAgree, Returned
<1>6. AcceptedIsRead'
  <2>1. infos' = infos
    BY PlanStays DEF Rest
  <2>2. HiddenDiffer' = HiddenDiffer /\ UnitsDiffer' = UnitsDiffer
    BY <2>1 DEF HiddenDiffer, UnitsDiffer, Hidden, InPlan, Rest
  <2>3. replaced = {} => Excused(why, terminal.op)
    OBVIOUS
  <2> QED BY <1>3, <2>1, <2>2, <2>3 DEF Rest, AcceptedIsRead, Excused
<1> QED BY <1>1, <1>4, <1>5, <1>6 DEF CInv

\* t is s with e at its end.
Longer(t, s, e) ==
  /\ IsSequence(t) /\ Len(s) \in Nat /\ Len(t) = Len(s) + 1
  /\ DOMAIN s = 1 .. Len(s) /\ DOMAIN t = 1 .. Len(s) + 1
  /\ t[Len(s) + 1] = e /\ \A i \in DOMAIN s : t[i] = s[i]

\* What is added comes last.
LEMMA AppendAt ==
  ASSUME NEW s, IsSequence(s), NEW e
  PROVE  Longer(Append(s, e), s, e)
<1> SUFFICES ASSUME NEW t, t = Append(s, e) PROVE Longer(t, s, e)
  OBVIOUS
<1>1. IsSequence(t)
  BY AppendGrows
<1> DEFINE S == ToSet(s) \cup {e}
<1>2. s \in Seq(S) /\ e \in S
  BY DEF IsSequence
<1> HIDE DEF S
<1> QED BY <1>1, <1>2 DEF Longer

\* A terminal that yields the table of the next file.
LEMMA YieldStep ==
  ASSUME CInv, terminal.busy, Rest, NEW f \in Files, f = Len(terminal.tables) + 1,
         NEW table, Aligned(held[f], f, terminal.op) = Got(table), NEW busy, Yield(f, table, busy),
         terminal.op \in {"to_arrow", "to_record_batch_reader"} /\ f > 1 => Types(table) = Types(terminal.tables[1]),
         terminal.op \in PandasOps /\ ~busy => ~MixedDatetimes(Append(terminal.tables, table))
  PROVE  CInv'
<1>1. CatalogsTaken' /\ PlanMade' /\ Planned' = Planned
      /\ \A content, g, op : Aligned(content, g, op)' = Aligned(content, g, op)
  BY RestStays
<1>2. Planned /\ terminal.op \in ArrowOps \cup PandasOps
  BY BusyIs
<1>3. TablesAligned /\ SchemasAgree /\ AcceptedIsRead /\ CatalogsTaken
  BY DEF CInv
<1>4. /\ terminal'.op = terminal.op /\ terminal'.why = terminal.why /\ terminal'.busy = busy
      /\ terminal'.tables = Append(terminal.tables, table) /\ terminal'.reads = Append(terminal.reads, held[f])
      /\ terminal' = [op |-> terminal'.op, why |-> terminal'.why, busy |-> terminal'.busy,
                      tables |-> terminal'.tables, reads |-> terminal'.reads]
  BY <1>3 DEF Yield, TablesAligned
<1> DEFINE before == terminal.tables
           after  == terminal'.tables
           read   == terminal.reads
           reads  == terminal'.reads
<1>5. /\ IsSequence(after) /\ Len(before) \in Nat /\ Len(after) = Len(before) + 1
      /\ DOMAIN before = 1 .. Len(before) /\ DOMAIN after = 1 .. Len(before) + 1
      /\ after[f] = table /\ \A g \in DOMAIN before : after[g] = before[g]
  <2>1. IsSequence(before) /\ after = Append(before, table)
    BY <1>3, <1>4 DEF TablesAligned
  <2>2. Longer(Append(before, table), before, table)
    BY <2>1, AppendAt
  <2>3. Longer(after, before, table)
    BY <2>1, <2>2
  <2> HIDE DEF before, after
  <2> QED BY <2>3 DEF Longer, before
<1>6. /\ IsSequence(reads) /\ Len(reads) = Len(read) + 1 /\ DOMAIN read = DOMAIN before
      /\ reads[f] = held[f] /\ \A g \in DOMAIN before : reads[g] = read[g]
  <2>1. IsSequence(read) /\ Len(read) = Len(before)
    BY <1>3 DEF TablesAligned
  <2>2. Longer(Append(read, held[f]), read, held[f])
    BY <2>1, AppendAt
  <2>3. Longer(reads, read, held[f])
    BY <1>4, <2>2
  <2>4. f = Len(before) + 1
    OBVIOUS
  <2> HIDE DEF before, read, reads, after
  <2> QED BY <1>5, <2>1, <2>3, <2>4 DEF Longer
<1>7. f \in Nat /\ f <= N /\ DOMAIN after = DOMAIN before \cup {f} /\ N \in Nat
  BY <1>5, CollectionAssumption DEF Files
<1>8. held[f] \in FileContents
  BY <1>3 DEF CatalogsTaken
<1>9. ASSUME NEW g \in DOMAIN after
      PROVE  /\ reads[g] \in FileContents
             /\ Aligned(reads[g], g, terminal.op) = Got(after[g])
             /\ replaced = {} => reads[g] = held[g]
  <2>1. CASE g = f
    BY <1>5, <1>6, <1>8, <2>1
  <2>2. CASE g # f
    <3>1. g \in DOMAIN before
      BY <1>7, <2>2
    <3> QED BY <1>3, <1>5, <1>6, <3>1 DEF TablesAligned
  <2> QED BY <2>1, <2>2
<1>10. TablesAligned'
  <2>1. Len(after) = Len(reads) /\ Len(after) <= N
    BY <1>3, <1>5, <1>6, <1>7 DEF TablesAligned
  <2>2. \A g \in DOMAIN after :
          /\ reads[g] \in FileContents
          /\ Aligned(terminal.reads[g], g, terminal.op)' = Got(after[g])
          /\ replaced' = {} => reads[g] = held'[g]
    BY <1>1, <1>4, <1>9 DEF Rest
  <2> QED BY <1>1, <1>2, <1>4, <1>5, <1>6, <2>1, <2>2 DEF TablesAligned
<1>11. SchemasAgree'
  <2>1. ASSUME terminal.op \in {"to_arrow", "to_record_batch_reader"}
        PROVE  \A g \in DOMAIN after : Types(after[g]) = Types(after[1])
    <3>1. CASE f = 1
      BY <1>5, <3>1
    <3>2. CASE f # 1
      <4>1. f > 1 /\ 1 \in DOMAIN before
        BY <1>5, <3>2 DEF Files
      <4>2. Types(after[f]) = Types(after[1])
        BY <1>5, <2>1, <4>1
      <4>3. \A g \in DOMAIN before : Types(after[g]) = Types(after[1])
        BY <1>3, <1>5, <2>1, <4>1 DEF SchemasAgree
      <4> QED BY <1>7, <4>2, <4>3
    <3> QED BY <3>1, <3>2
  <2>2. terminal'.op \in PandasOps /\ Returned' => ~MixedDatetimes(after)
    BY <1>4 DEF Returned
  <2>3. MixedDatetimes(terminal.tables)' = MixedDatetimes(after)
    BY DEF MixedDatetimes
  <2> QED BY <1>4, <2>1, <2>2, <2>3 DEF SchemasAgree
<1>12. AcceptedIsRead'
  <2>1. infos' = infos
    BY PlanStays DEF Rest
  <2>2. HiddenDiffer' = HiddenDiffer /\ UnitsDiffer' = UnitsDiffer
    BY <2>1 DEF HiddenDiffer, UnitsDiffer, Hidden, InPlan, Rest
  <2> QED BY <1>3, <1>4, <2>1, <2>2 DEF Rest, AcceptedIsRead
<1> QED BY <1>1, <1>10, <1>11, <1>12 DEF CInv

LEMMA IterArrowStep ==
  ASSUME CInv, NEW f \in Files, IterArrow(f)
  PROVE  CInv'
<1> DEFINE got == Aligned(held[f], f, "iter_arrow")
<1>1. /\ terminal.busy /\ terminal.op = "iter_arrow" /\ f = Len(terminal.tables) + 1 /\ Rest
      /\ \/ got.ok /\ Yield(f, got.columns, f < N)
         \/ ~got.ok /\ Fail(got.why)
  BY DEF IterArrow, InFile, Rest
<1>2. Planned /\ CatalogsTaken /\ PlanMade /\ "iter_arrow" \in ArrowOps \cup PandasOps /\ "iter_arrow" \notin PandasOps
  BY <1>1, BusyIs DEF CInv, ArrowOps, PandasOps
<1> HIDE DEF got
<1>3. CASE got.ok /\ Yield(f, got.columns, f < N)
  <2>1. Aligned(held[f], f, terminal.op) = Got(got.columns)
    BY <1>1, <1>3, OutcomeIs DEF got
  <2> QED BY <1>1, <1>2, <1>3, <2>1, YieldStep
<1>4. CASE ~got.ok /\ Fail(got.why)
  <2>1. got.why # "ok"
    BY <1>4, OutcomeIs DEF got
  <2>2. replaced = {} => Excused(got.why, terminal.op)
    BY <1>1, <1>2, <1>4, FileExcused DEF got
  <2> QED BY <1>1, <1>4, <2>1, <2>2, FailStep
<1> QED BY <1>1, <1>3, <1>4

LEMMA CollectArrowStep ==
  ASSUME CInv, NEW f \in Files, NEW op \in ArrowOps, CollectArrow(f, op)
  PROVE  CInv'
<1> DEFINE got == Aligned(held[f], f, op)
           Other == f > 1 /\ OtherSchema(got.columns)
<1>1. /\ terminal.busy /\ terminal.op = op /\ f = Len(terminal.tables) + 1 /\ Rest
      /\ op \in {"to_arrow", "to_record_batch_reader"}
      /\ \/ ~got.ok /\ Fail(got.why)
         \/ got.ok /\ Other /\ Fail("schema")
         \/ got.ok /\ ~Other /\ Yield(f, got.columns, f < N)
  BY DEF CollectArrow, InFile, Rest
<1>2. Planned /\ CatalogsTaken /\ PlanMade /\ TablesAligned /\ op \in ArrowOps \cup PandasOps /\ op \notin PandasOps
  BY <1>1, BusyIs DEF CInv, ArrowOps, PandasOps
<1> HIDE DEF got
<1>3. got.ok => Aligned(held[f], f, op) = Got(got.columns)
  BY OutcomeIs DEF got
<1>4. CASE got.ok /\ ~Other /\ Yield(f, got.columns, f < N)
  <2>1. f > 1 => Types(got.columns) = Types(terminal.tables[1])
    BY <1>4 DEF OtherSchema
  <2> QED BY <1>1, <1>2, <1>3, <1>4, <2>1, YieldStep
<1>5. CASE ~got.ok /\ Fail(got.why)
  <2>1. got.why # "ok"
    BY <1>5, OutcomeIs DEF got
  <2>2. replaced = {} => Excused(got.why, terminal.op)
    BY <1>1, <1>2, <1>5, FileExcused DEF got
  <2> QED BY <1>1, <1>5, <2>1, <2>2, FailStep
<1>6. CASE got.ok /\ Other /\ Fail("schema")
  <2>1. ASSUME replaced = {} PROVE Excused("schema", terminal.op)
    <3>1. f > 1 /\ Types(got.columns) # Types(terminal.tables[1])
      BY <1>6 DEF OtherSchema
    <3>2. DOMAIN terminal.tables = 1 .. Len(terminal.tables) /\ Len(terminal.tables) \in Nat
      BY <1>2 DEF TablesAligned, IsSequence
    <3>3. 1 \in DOMAIN terminal.tables /\ 1 \in Files
      BY <1>1, <3>1, <3>2, CollectionAssumption DEF Files
    <3>4. Aligned(held[1], 1, op) = Got(terminal.tables[1])
      BY <1>1, <1>2, <2>1, <3>3 DEF TablesAligned
    <3> QED BY <1>1, <1>2, <1>3, <1>6, <2>1, <3>1, <3>3, <3>4, SchemaExcused
  <2> QED BY <1>1, <1>6, <2>1, FailStep
<1> QED BY <1>1, <1>4, <1>5, <1>6

LEMMA CollectPandasStep ==
  ASSUME CInv, NEW f \in Files, NEW op \in PandasOps, CollectPandas(f, op)
  PROVE  CInv'
<1> DEFINE got == Aligned(held[f], f, op)
           tables == Append(terminal.tables, got.columns)
<1>1. /\ terminal.busy /\ terminal.op = op /\ f = Len(terminal.tables) + 1 /\ Rest
      /\ \/ ~got.ok /\ Fail(got.why)
         \/ got.ok /\ \E last \in BOOLEAN :
              IF last /\ MixedDatetimes(tables) THEN Fail("datetimes") ELSE Yield(f, got.columns, ~last)
  <2>1. CASE ~got.ok
    BY <2>1 DEF CollectPandas, InFile, Rest
  <2>2. CASE got.ok
    BY <2>2 DEF CollectPandas, InFile, Rest
  <2> QED BY <2>1, <2>2
<1>2. Planned /\ CatalogsTaken /\ PlanMade /\ TablesAligned /\ op \in ArrowOps \cup PandasOps
      /\ op \notin {"to_arrow", "to_record_batch_reader"}
  BY <1>1, BusyIs DEF CInv, ArrowOps, PandasOps
<1> HIDE DEF got, tables
<1>3. got.ok => Aligned(held[f], f, op) = Got(got.columns)
  BY OutcomeIs DEF got
<1>4. CASE ~got.ok /\ Fail(got.why)
  <2>1. got.why # "ok"
    BY <1>4, OutcomeIs DEF got
  <2>2. replaced = {} => Excused(got.why, terminal.op)
    BY <1>1, <1>2, <1>4, FileExcused DEF got
  <2> QED BY <1>1, <1>4, <2>1, <2>2, FailStep
<1>5. ASSUME got.ok, NEW last \in BOOLEAN, last, MixedDatetimes(tables), Fail("datetimes") PROVE CInv'
  <2>1. ASSUME replaced = {} PROVE Excused("datetimes", op)
    <3>1. /\ IsSequence(terminal.tables) /\ Len(terminal.tables) <= N
          /\ \A g \in DOMAIN terminal.tables : Aligned(held[g], g, op) = Got(terminal.tables[g])
      BY <1>1, <1>2, <2>1 DEF TablesAligned
    <3>2. /\ Len(terminal.tables) \in Nat /\ DOMAIN terminal.tables = 1 .. Len(terminal.tables)
          /\ DOMAIN tables = 1 .. Len(terminal.tables) + 1
          /\ tables[f] = got.columns /\ \A g \in DOMAIN terminal.tables : tables[g] = terminal.tables[g]
      <4>1. Longer(tables, terminal.tables, got.columns)
        BY <3>1, AppendAt DEF tables
      <4> QED BY <1>1, <4>1 DEF Longer
    <3>3. f \in Nat /\ f <= N /\ N \in Nat
      BY CollectionAssumption DEF Files
    <3>4. DOMAIN tables = 1 .. f /\ DOMAIN tables \subseteq Files /\ 1 \in DOMAIN tables
      BY <1>1, <3>2, <3>3 DEF Files
    <3>5. \A g \in DOMAIN tables : Aligned(held[g], g, op) = Got(tables[g])
      <4> SUFFICES ASSUME NEW g \in DOMAIN tables PROVE Aligned(held[g], g, op) = Got(tables[g])
        OBVIOUS
      <4>1. g = f \/ g \in DOMAIN terminal.tables
        BY <1>1, <3>2
      <4> QED BY <1>3, <1>5, <3>1, <3>2, <4>1
    <3> QED BY <1>2, <1>5, <2>1, <3>4, <3>5, DatetimesExcused
  <2> QED BY <1>1, <1>5, <2>1, FailStep
<1>6. ASSUME got.ok, NEW last \in BOOLEAN, ~(last /\ MixedDatetimes(tables)), Yield(f, got.columns, ~last) PROVE CInv'
  <2>1. ~(~last) => ~MixedDatetimes(Append(terminal.tables, got.columns))
    BY <1>6 DEF tables
  <2> DEFINE busy == ~last
  <2>2. Yield(f, got.columns, busy) /\ (~busy => ~MixedDatetimes(Append(terminal.tables, got.columns)))
    BY <1>6, <2>1
  <2>3. Aligned(held[f], f, terminal.op) = Got(got.columns)
    BY <1>1, <1>3, <1>6
  <2> HIDE DEF busy
  <2> QED BY <1>1, <1>2, <2>2, <2>3, YieldStep
<1> QED BY <1>1, <1>4, <1>5, <1>6

LEMMA CInvNext == CInv /\ [CollectionNext]_collectionVars => CInv'
<1> SUFFICES ASSUME CInv, [CollectionNext]_collectionVars PROVE CInv'
  OBVIOUS
<1>1. ASSUME NEW f \in Files, ReplaceFile(f) PROVE CInv'
  BY <1>1, ReplaceFileStep
<1>2. ASSUME NEW f \in Files, TakeCatalog(f) PROVE CInv'
  BY <1>2, TakeCatalogStep
<1>3. ASSUME NEW f \in Files, IterArrow(f) PROVE CInv'
  BY <1>3, IterArrowStep
<1>4. ASSUME NEW f \in Files, NEW op \in ArrowOps, CollectArrow(f, op) PROVE CInv'
  BY <1>4, CollectArrowStep
<1>5. ASSUME NEW f \in Files, NEW op \in PandasOps, CollectPandas(f, op) PROVE CInv'
  BY <1>5, CollectPandasStep
<1>6. ASSUME BuildPlan PROVE CInv'
  BY <1>6, BuildPlanStep
<1>7. ASSUME NEW op \in ArrowOps \cup PandasOps, BeginTerminal(op) PROVE CInv'
  BY <1>7, BeginTerminalStep
<1>8. ASSUME UNCHANGED collectionVars PROVE CInv'
  <2>1. Rest /\ terminal' = terminal
    BY <1>8 DEF collectionVars, Rest
  <2>2. CatalogsTaken' /\ PlanMade' /\ Planned' = Planned
        /\ \A content, f, op : Aligned(content, f, op)' = Aligned(content, f, op)
    BY <2>1, RestStays
  <2>3. TablesAligned'
    BY <2>1, <2>2 DEF CInv, TablesAligned, Rest, NotCalled
  <2>4. SchemasAgree'
    BY <2>1, ZenonT(60) DEF CInv, SchemasAgree, Returned, MixedDatetimes
  <2>5. infos' = infos
    BY <2>1, PlanStays DEF Rest
  <2>6. HiddenDiffer' = HiddenDiffer /\ UnitsDiffer' = UnitsDiffer
    BY <2>1, <2>5 DEF HiddenDiffer, UnitsDiffer, Hidden, InPlan, Rest
  <2>7. AcceptedIsRead'
    BY <2>1, <2>5, <2>6 DEF CInv, Rest, AcceptedIsRead
  <2> QED BY <2>2, <2>3, <2>4, <2>7 DEF CInv
<1> QED BY <1>1, <1>2, <1>3, <1>4, <1>5, <1>6, <1>7, <1>8 DEF CollectionNext

\* Catalogs, plan and terminal hold together in every state.
THEOREM CollectionInductive == CollectionSpec => []CInv
<1> QED BY CInvInit, CInvNext, PTL DEF CollectionSpec

\* In every format, a column that a terminal yields is the file's own as it was
\* when it was read, or null-filled where the file lacked it, and then the plan
\* allowed for it: for any number of files, and however they are replaced.
THEOREM FillsWhatIsAbsent == CollectionSpec => []FilledIffAbsent
<1>1. CInv => FilledIffAbsent
  BY Filled DEF CInv
<1> QED BY <1>1, CollectionInductive, PTL

\* What a terminal returns has one type for a column in all files, except as
\* NoPromotion names it, and a factor that stays one has the same levels in all
\* of them, wherever the catalogs show the types and the names tell columns apart.
THEOREM NeverPromotes == CollectionSpec => []NoPromotion
<1>1. CInv => NoPromotion
  <2> SUFFICES ASSUME CInv, Returned, replaced = {}, \A f \in DOMAIN terminal.tables : Plain(f),
                      NEW f \in DOMAIN terminal.tables, NEW g \in DOMAIN terminal.tables,
                      NEW n \in DOMAIN terminal.tables[f]
               PROVE  SameColumn(terminal.tables[f][n], terminal.tables[g][n], f, g)
    BY DEF NoPromotion, SameColumn
  <2>1. terminal.op \in ArrowOps \cup PandasOps
    BY DEF CInv, TablesAligned, Returned, NotCalled
  <2>2. CatalogsTaken /\ PlanMade /\ TablesAligned /\ SchemasAgree
    BY DEF CInv
  <2> QED BY <2>1, <2>2, Unpromoted
<1> QED BY <1>1, CollectionInductive, PTL

\* While the files stay, a terminal fails under an accepted plan only for the
\* reasons that AcceptedIsRead names.
THEOREM ReadsWhatIsAccepted == CollectionSpec => []AcceptedIsRead
<1>1. CInv => AcceptedIsRead
  BY DEF CInv
<1> QED BY <1>1, CollectionInductive, PTL
=============================================================================
