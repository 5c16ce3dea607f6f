-------------------------- MODULE DifferencesProofs --------------------------
(***************************************************************************)
(* For any two files, whatever their tables, columns, repeated names and    *)
(* cells: the report of diff_rds is empty exactly if the files are the same  *)
(* at the level that was checked and nothing in them is unequal to itself,    *)
(* and it mirrors when they are exchanged.                                     *)
(***************************************************************************)
EXTENDS Differences, FiniteSetTheorems, FunctionTheorems, TLAPS

-----------------------------------------------------------------------------
(* The keys of columns. *)

Apart(keys, n) == \A i, j \in 1 .. n : keys[i] = keys[j] => i = j

\* Of doubles each counts one more than the one before it.
LEMMA KeysApart ==
  ASSUME NEW columns, NEW n \in Nat, DOMAIN columns = 1 .. n
  PROVE  /\ DOMAIN _keyed_columns(columns) = 1 .. n
         /\ Apart(_keyed_columns(columns), n)
         /\ ToSet(_keyed_columns(columns)) = { _keyed_columns(columns)[i] : i \in 1 .. n }
         /\ \A i \in 1 .. n : _keyed_columns(columns)[i][1] = columns[i].name
<1> DEFINE UpTo(i) == { q \in 1 .. i : columns[q].name = columns[i].name }
           keys == [i \in 1 .. n |-> <<columns[i].name, Cardinality(UpTo(i))>>]
<1>1. _keyed_columns(columns) = keys
  BY DEF _keyed_columns
<1>2. ASSUME NEW i \in 1 .. n, NEW j \in 1 .. n, i < j, keys[i] = keys[j] PROVE FALSE
  <2>1. columns[i].name = columns[j].name /\ Cardinality(UpTo(i)) = Cardinality(UpTo(j))
    BY <1>2
  <2>2. UpTo(i) \subseteq UpTo(j) /\ j \in UpTo(j) /\ j \notin UpTo(i)
    BY <1>2, <2>1
  <2>3. IsFiniteSet(UpTo(j))
    <3>1. IsFiniteSet(1 .. j)
      BY FS_Interval
    <3> QED BY <3>1, FS_Subset
  <2> HIDE DEF UpTo
  <2> QED BY <2>1, <2>2, <2>3, FS_Subset
<1>3. Apart(keys, n)
  BY <1>2 DEF Apart
<1>4. DOMAIN keys = 1 .. n /\ ToSet(keys) = { keys[i] : i \in 1 .. n } /\ \A i \in 1 .. n : keys[i][1] = columns[i].name
  BY DEF ToSet
<1> HIDE DEF keys
<1> QED BY <1>1, <1>3, <1>4

\* The place of a key that comes once.
LEMMA PositionIs ==
  ASSUME NEW keys, NEW n \in Nat, DOMAIN keys = 1 .. n, Apart(keys, n), NEW i \in 1 .. n
  PROVE  Position(keys, keys[i]) = i
BY DEF Position, Apart

\* A set of numbers has a least one: the intervals below its members are finite
\* sets, and among finite sets one is least.
LEMMA LeastNumber ==
  ASSUME NEW T, T \subseteq Nat, T # {}
  PROVE  \E x \in T : \A y \in T : x <= y
<1> DEFINE Intervals == {1 .. n : n \in T}
<1>1. IsWellFoundedOn(StrictSubsetOrdering(Nat), FiniteSubsetsOf(Nat))
  BY FS_StrictSubsetOrderingWellFounded
<1>2. Intervals \subseteq FiniteSubsetsOf(Nat)
  <2> SUFFICES ASSUME NEW n \in T PROVE 1 .. n \in FiniteSubsetsOf(Nat)
    OBVIOUS
  <2>1. IsFiniteSet(1 .. n)
    BY FS_Interval
  <2>2. 1 .. n \in SUBSET Nat
    OBVIOUS
  <2> QED BY <2>1, <2>2 DEF FiniteSubsetsOf
<1>3. Intervals # {}
  OBVIOUS
<1> HIDE DEF Intervals
<1>4. PICK s \in Intervals : \A u \in Intervals : ~(<<u, s>> \in StrictSubsetOrdering(Nat))
  BY <1>1, <1>2, <1>3, WFMin
<1>5. PICK x \in T : s = 1 .. x
  BY <1>4 DEF Intervals
<1>6. ASSUME NEW y \in T, y < x PROVE FALSE
  <2>1. 1 .. y \in Intervals
    BY DEF Intervals
  <2>2. 1 .. y \subseteq 1 .. x /\ x \in 1 .. x /\ x \notin 1 .. y
    BY <1>6
  <2>3. 1 .. y \in SUBSET Nat /\ 1 .. x \in SUBSET Nat /\ 1 .. y # 1 .. x
    BY <2>2
  <2>4. <<1 .. y, 1 .. x>> \in StrictSubsetOrdering(Nat)
    BY <2>2, <2>3 DEF StrictSubsetOrdering
  <2> QED BY <1>4, <1>5, <2>1, <2>4
<1> QED BY <1>5, <1>6

\* Sequences of the same keys in the same order are the same: where they first
\* part, either has a key that the other has only behind its own.
LEMMA SameOrder ==
  ASSUME NEW a, NEW n \in Nat, DOMAIN a = 1 .. n, Apart(a, n),
         NEW b, NEW m \in Nat, DOMAIN b = 1 .. m, Apart(b, m),
         ToSet(a) = ToSet(b), InOrder(a, b)
  PROVE  n = m /\ \A i \in 1 .. n : a[i] = b[i]
<1> DEFINE T == { i \in 1 .. n : i \notin 1 .. m \/ a[i] # b[i] }
<1>2. /\ \A i \in 1 .. n : a[i] \in ToSet(a) /\ \E j \in 1 .. m : b[j] = a[i]
      /\ \A j \in 1 .. m : b[j] \in ToSet(b) /\ \E i \in 1 .. n : a[i] = b[j]
  BY DEF ToSet
<1>3. T = {}
  <2> SUFFICES ASSUME T # {} PROVE FALSE
    OBVIOUS
  <2>1. PICK i \in T : \A j \in T : i <= j
    <3>1. T \subseteq Nat
      OBVIOUS
    <3> HIDE DEF T
    <3> QED BY <3>1, LeastNumber
  <2>2. \A j \in 1 .. i - 1 : j \in 1 .. n /\ j \in 1 .. m /\ a[j] = b[j]
    BY <2>1
  <2>3. PICK p \in 1 .. m : b[p] = a[i]
    BY <1>2
  <2>4. p >= i
    BY <2>2, <2>3 DEF Apart
  <2>5. i \in 1 .. m /\ a[i] # b[i] /\ p > i
    BY <2>3, <2>4
  <2>6. PICK q \in 1 .. n : a[q] = b[i]
    BY <1>2, <2>5
  <2>7. q > i
    <3>1. CASE q < i
      <4>1. b[q] = b[i] /\ q \in 1 .. m
        BY <2>2, <2>6, <3>1
      <4> QED BY <2>5, <3>1, <4>1 DEF Apart
    <3> QED BY <2>5, <2>6, <3>1
  <2>8. /\ Position(a, a[i]) = i /\ Position(a, b[i]) = q
        /\ Position(b, a[i]) = p /\ Position(b, b[i]) = i
    <3>1. Position(a, a[i]) = i /\ Position(a, a[q]) = q
      BY PositionIs
    <3>2. Position(b, b[p]) = p /\ Position(b, b[i]) = i
      BY <2>5, PositionIs
    <3> QED BY <2>3, <2>6, <3>1, <3>2
  <2>9. a[i] \in ToSet(a) \cap ToSet(b) /\ b[i] \in ToSet(a) \cap ToSet(b)
    BY <1>2, <2>5
  <2>10. Position(a, a[i]) < Position(a, b[i]) <=> Position(b, a[i]) < Position(b, b[i])
    BY <2>9 DEF InOrder
  <2> QED BY <2>5, <2>7, <2>8, <2>10
<1>4. ASSUME NEW i \in 1 .. n PROVE i \in 1 .. m /\ a[i] = b[i]
  BY <1>3
<1>5. n <= m
  BY <1>4
<1>6. ASSUME n < m PROVE FALSE
  <2>1. m \in 1 .. m
    BY <1>6
  <2>2. PICK i \in 1 .. n : a[i] = b[m]
    BY <1>2, <2>1
  <2>3. b[i] = b[m] /\ i \in 1 .. m
    BY <1>4, <2>2
  <2> QED BY <1>6, <2>1, <2>3 DEF Apart
<1> QED BY <1>4, <1>5, <1>6

-----------------------------------------------------------------------------
(* One table. *)

\* What _diff_table finds nothing of.
NoDifference(l, r) ==
  LET lefts == _keyed_columns(l.columns) rights == _keyed_columns(r.columns)
  IN /\ l.rows = r.rows
     /\ ToSet(lefts) = ToSet(rights)
     /\ InOrder(lefts, rights)
     /\ \A key \in ToSet(lefts) :
          /\ l.columns[Position(lefts, key)].type = r.columns[Position(rights, key)].type
          /\ l.columns[Position(lefts, key)].levels = r.columns[Position(rights, key)].levels

LEMMA DiffTableParts ==
  ASSUME NEW l, NEW r
  PROVE  _diff_table(l, r) = {} <=> NoDifference(l, r)
<1> DEFINE lefts  == _keyed_columns(l.columns)
           rights == _keyed_columns(r.columns)
           both   == ToSet(lefts) \cap ToSet(rights)
           before(key) == l.columns[Position(lefts, key)]
           after(key)  == r.columns[Position(rights, key)]
           Same1 == { key \in both : before(key).type = after(key).type }
           Removed == { Entry("column_removed", l.name, key) : key \in ToSet(lefts) \ both }
           Added == { Entry("column_added", l.name, key) : key \in ToSet(rights) \ both }
           Retyped == { Entry("type_changed", l.name, key) : key \in both \ Same1 }
           Relevelled == { Entry("levels_changed", l.name, key) :
                             key \in { k \in Same1 : before(k).levels # after(k).levels } }
           Rows == IF l.rows = r.rows THEN {} ELSE {Entry("rows_changed", l.name, None)}
           Order == IF InOrder(lefts, rights) THEN {} ELSE {Entry("columns_reordered", l.name, None)}
<1>1. Comparable(l, r) = Same1
  BY Zenon DEF Comparable
<1>2. _diff_table(l, r) = Rows \cup Removed \cup Added \cup Order \cup Retyped \cup Relevelled
  BY <1>1, Zenon DEF _diff_table
<1>3. Rows = {} <=> l.rows = r.rows
  OBVIOUS
<1>4. Order = {} <=> InOrder(lefts, rights)
  OBVIOUS
<1>5. Removed = {} <=> ToSet(lefts) \ both = {}
  OBVIOUS
<1>6. Added = {} <=> ToSet(rights) \ both = {}
  OBVIOUS
<1>7. Retyped = {} <=> \A key \in both : before(key).type = after(key).type
  OBVIOUS
<1>8. Relevelled = {} <=> \A key \in Same1 : before(key).levels = after(key).levels
  OBVIOUS
<1>9. NoDifference(l, r) <=>
        /\ l.rows = r.rows /\ ToSet(lefts) = ToSet(rights) /\ InOrder(lefts, rights)
        /\ \A key \in ToSet(lefts) : before(key).type = after(key).type /\ before(key).levels = after(key).levels
  BY Zenon DEF NoDifference
<1>10. _diff_table(l, r) = {} <=>
         Rows = {} /\ Removed = {} /\ Added = {} /\ Order = {} /\ Retyped = {} /\ Relevelled = {}
  BY <1>2
<1> HIDE DEF lefts, rights, before, after, Rows, Removed, Added, Order, Retyped, Relevelled
<1> QED BY <1>3, <1>4, <1>5, <1>6, <1>7, <1>8, <1>9, <1>10

\* The columns of two tables are the same, one by one, as catalogs show them.
SameInfos(l, r, n) ==
  \A i \in 1 .. n : /\ l.columns[i].name = r.columns[i].name
                    /\ l.columns[i].type = r.columns[i].type
                    /\ l.columns[i].levels = r.columns[i].levels

LEMMA NoDifferenceIs ==
  ASSUME NEW l, NEW n \in Nat, DOMAIN l.columns = 1 .. n,
         NEW r, NEW m \in Nat, DOMAIN r.columns = 1 .. m
  PROVE  NoDifference(l, r) <=> l.rows = r.rows /\ n = m /\ SameInfos(l, r, n)
<1> DEFINE lefts  == _keyed_columns(l.columns)
           rights == _keyed_columns(r.columns)
<1>1. /\ DOMAIN lefts = 1 .. n /\ Apart(lefts, n) /\ ToSet(lefts) = { lefts[i] : i \in 1 .. n }
      /\ \A i \in 1 .. n : lefts[i][1] = l.columns[i].name
  BY KeysApart
<1>2. /\ DOMAIN rights = 1 .. m /\ Apart(rights, m) /\ ToSet(rights) = { rights[i] : i \in 1 .. m }
      /\ \A i \in 1 .. m : rights[i][1] = r.columns[i].name
  BY KeysApart
<1>3. \A i \in 1 .. n : Position(lefts, lefts[i]) = i
  BY <1>1, PositionIs
<1>4. \A i \in 1 .. m : Position(rights, rights[i]) = i
  BY <1>2, PositionIs
<1>5. NoDifference(l, r) <=>
        /\ l.rows = r.rows /\ ToSet(lefts) = ToSet(rights) /\ InOrder(lefts, rights)
        /\ \A key \in ToSet(lefts) :
             /\ l.columns[Position(lefts, key)].type = r.columns[Position(rights, key)].type
             /\ l.columns[Position(lefts, key)].levels = r.columns[Position(rights, key)].levels
  BY Zenon DEF NoDifference
<1>6. ASSUME n = m, SameInfos(l, r, n) PROVE lefts = rights
  <2>1. lefts = [i \in 1 .. n |-> <<l.columns[i].name, Cardinality({ j \in 1 .. i : l.columns[j].name = l.columns[i].name })>>]
    BY DEF _keyed_columns
  <2>2. rights = [i \in 1 .. n |-> <<r.columns[i].name, Cardinality({ j \in 1 .. i : r.columns[j].name = r.columns[i].name })>>]
    BY <1>6 DEF _keyed_columns
  <2>3. ASSUME NEW i \in 1 .. n
        PROVE  { j \in 1 .. i : l.columns[j].name = l.columns[i].name } = { j \in 1 .. i : r.columns[j].name = r.columns[i].name }
    BY <1>6 DEF SameInfos
  <2>4. \A i \in 1 .. n : l.columns[i].name = r.columns[i].name
    BY <1>6 DEF SameInfos
  <2> HIDE DEF lefts, rights
  <2> QED BY <2>1, <2>2, <2>3, <2>4
<1> HIDE DEF lefts, rights
<1>7. ASSUME l.rows = r.rows, n = m, SameInfos(l, r, n) PROVE NoDifference(l, r)
  <2>1. lefts = rights
    BY <1>6, <1>7
  <2>2. InOrder(lefts, rights)
    BY <2>1 DEF InOrder
  <2>3. \A i \in 1 .. n : /\ Position(lefts, lefts[i]) = i /\ Position(rights, lefts[i]) = i
                          /\ l.columns[i].type = r.columns[i].type /\ l.columns[i].levels = r.columns[i].levels
    BY <1>3, <1>7, <2>1 DEF SameInfos
  <2> QED BY <1>1, <1>5, <1>7, <2>1, <2>2, <2>3
<1>8. ASSUME NoDifference(l, r) PROVE n = m /\ SameInfos(l, r, n)
  <2>1. ToSet(lefts) = ToSet(rights) /\ InOrder(lefts, rights)
    BY <1>5, <1>8
  <2>2. n = m /\ \A i \in 1 .. n : lefts[i] = rights[i]
    <3>1. /\ DOMAIN lefts = 1 .. n /\ Apart(lefts, n)
          /\ DOMAIN rights = 1 .. m /\ Apart(rights, m)
      BY <1>1, <1>2
    <3> QED BY <2>1, <3>1, SameOrder
  <2>3. ASSUME NEW i \in 1 .. n
        PROVE  /\ l.columns[i].name = r.columns[i].name
               /\ l.columns[i].type = r.columns[i].type
               /\ l.columns[i].levels = r.columns[i].levels
    <3>1. lefts[i] = rights[i] /\ i \in 1 .. m /\ lefts[i] \in ToSet(lefts)
      BY <1>1, <2>2
    <3>2. Position(lefts, lefts[i]) = i /\ Position(rights, lefts[i]) = i
      BY <1>3, <1>4, <3>1
    <3>3. l.columns[i].name = r.columns[i].name
      BY <1>1, <1>2, <3>1
    <3> QED BY <1>5, <1>8, <3>1, <3>2, <3>3
  <2> QED BY <2>2, <2>3 DEF SameInfos
<1> QED BY <1>5, <1>7, <1>8
-----------------------------------------------------------------------------
(* Tables by their names. *)

IsList(tables, n) == n \in Nat /\ DOMAIN tables = 1 .. n

\* A name has a last table.
LEMMA PlaceIs ==
  ASSUME NEW tables, NEW n, IsList(tables, n), NEW name \in TableNames(tables)
  PROVE  Place(tables, name) \in 1 .. n /\ tables[Place(tables, name)].name = name
<1> DEFINE T == { k \in 0 .. n : n - k \in 1 .. n /\ tables[n - k].name = name }
<1>1. n \in Nat /\ DOMAIN tables = 1 .. n
  BY DEF IsList
<1>2. PICK t \in 1 .. n : tables[t].name = name
  BY <1>1 DEF TableNames
<1>3. n - t \in T /\ T \subseteq Nat
  <2>1. n - (n - t) = t /\ n - t \in 0 .. n
    BY <1>1
  <2> QED BY <1>1, <1>2, <2>1
<1>4. PICK k \in T : \A m \in T : k <= m
  <2> HIDE DEF T
  <2> QED BY <1>3, LeastNumber
<1>5. ASSUME NEW u \in 1 .. n, tables[u].name = name PROVE u <= n - k
  <2>1. n - (n - u) = u /\ n - u \in 0 .. n
    BY <1>1
  <2>2. n - u \in T
    BY <1>5, <2>1
  <2>3. k <= n - u
    BY <1>4, <2>2
  <2> QED BY <1>1, <1>4, <2>3
<1>6. \E p \in DOMAIN tables : tables[p].name = name /\ \A u \in DOMAIN tables : tables[u].name = name => u <= p
  <2>1. n - k \in 1 .. n /\ tables[n - k].name = name
    BY <1>4
  <2> QED BY <1>1, <1>5, <2>1
<1> QED BY <1>1, <1>6 DEF Place

\* The table of a name that comes once.
LEMMA PlaceOfSingle ==
  ASSUME NEW tables, NEW n, IsList(tables, n), NEW t \in 1 .. n,
         \A u \in 1 .. n : tables[u].name = tables[t].name => u = t
  PROVE  tables[t].name \in TableNames(tables) /\ Place(tables, tables[t].name) = t
<1>1. tables[t].name \in TableNames(tables)
  BY DEF TableNames, IsList
<1> QED BY <1>1, PlaceIs

NamesApart(tables, n) == \A t, u \in 1 .. n : tables[t].name = tables[u].name => t = u

\* As many names as tables: no name comes twice.
LEMMA DistinctIsApart ==
  ASSUME NEW tables, NEW n, IsList(tables, n), Cardinality(TableNames(tables)) = n
  PROVE  NamesApart(tables, n) /\ IsFiniteSet(TableNames(tables))
<1> DEFINE f == [t \in 1 .. n |-> tables[t].name]
<1>1. n \in Nat /\ TableNames(tables) = { tables[t].name : t \in 1 .. n }
  BY DEF IsList, TableNames
<1>2. IsFiniteSet(1 .. n) /\ Cardinality(1 .. n) = n
  <2>1. n - 1 + 1 = n /\ (1 > n => n = 0)
    BY <1>1
  <2> QED BY <1>1, <2>1, FS_Interval
<1>3. f \in Surjection(1 .. n, TableNames(tables))
  BY <1>1 DEF Surjection
<1>4. IsFiniteSet(TableNames(tables))
  BY <1>2, <1>3, FS_Surjection
<1>5. f \in Injection(1 .. n, TableNames(tables))
  BY <1>2, <1>3, FS_Surjection
<1>6. NamesApart(tables, n)
  BY <1>5 DEF Injection, IsInjective, NamesApart
<1> QED BY <1>4, <1>6
-----------------------------------------------------------------------------
(* What the catalogs show of two files. *)

\* A table as the files of Contents have them.
IsTable(t) ==
  /\ IsList(t.columns, Len(t.columns))
  /\ \A i \in 1 .. Len(t.columns) :
       LET c == t.columns[i]
       IN /\ c.kind \in Kinds /\ c.altrep \in BOOLEAN
          /\ c.cells \in Seq(ToSet(c.cells)) /\ Len(c.cells) = t.rows

LEMMA FilesTyped ==
  ASSUME NEW f \in Contents
  PROVE  /\ IsList(f.tables, Len(f.tables))
         /\ \A t \in 1 .. Len(f.tables) : f.tables[t] \in ToSet(f.tables)
         /\ \A t \in ToSet(f.tables) : IsTable(t) /\ \E p \in 1 .. Len(f.tables) : f.tables[p] = t
<1>1. f.tables \in Seq(ToSet(f.tables))
  BY FilesAssumption
<1>2. Len(f.tables) \in Nat /\ DOMAIN f.tables = 1 .. Len(f.tables)
  BY <1>1
<1>3. ASSUME NEW t \in ToSet(f.tables) PROVE IsTable(t)
  <2>1. t.columns \in Seq(ToSet(t.columns))
    BY FilesAssumption
  <2>2. IsList(t.columns, Len(t.columns))
    BY <2>1 DEF IsList
  <2>3. ASSUME NEW i \in 1 .. Len(t.columns)
        PROVE  LET c == t.columns[i]
               IN /\ c.kind \in Kinds /\ c.altrep \in BOOLEAN
                  /\ c.cells \in Seq(ToSet(c.cells)) /\ Len(c.cells) = t.rows
    <3>1. t.columns[i] \in ToSet(t.columns)
      BY <2>1 DEF ToSet
    <3>2. /\ t.columns[i].kind \in Kinds /\ t.columns[i].altrep \in BOOLEAN
          /\ t.columns[i].cells \in Seq(ToSet(t.columns[i].cells)) /\ Len(t.columns[i].cells) = t.rows
      BY <3>1, FilesAssumption
    <3> QED BY <3>2
  <2> QED BY <2>2, <2>3 DEF IsTable
<1> QED BY <1>2, <1>3 DEF IsList, ToSet

LEMMA SeenIs ==
  ASSUME NEW f \in Contents
  PROVE  /\ IsList(Seen(f).tables, Len(f.tables))
         /\ TableNames(Seen(f).tables) = TableNames(f.tables)
         /\ Seen(f).compression = f.compression
         /\ \A t \in 1 .. Len(f.tables) : Seen(f).tables[t] = TableInfo(f.tables[t])
         /\ \A t \in 1 .. Len(f.tables) : Seen(f).tables[t].name = f.tables[t].name
<1>1. IsList(f.tables, Len(f.tables))
  BY FilesTyped
<1>2. /\ Seen(f).compression = f.compression
      /\ Seen(f).tables = [t \in DOMAIN f.tables |-> TableInfo(f.tables[t])]
  BY DEF Seen
<1>3. \A t \in 1 .. Len(f.tables) : TableInfo(f.tables[t]).name = f.tables[t].name
  BY DEF TableInfo
<1>4. /\ DOMAIN Seen(f).tables = 1 .. Len(f.tables)
      /\ \A t \in 1 .. Len(f.tables) : Seen(f).tables[t] = TableInfo(f.tables[t])
  BY <1>1, <1>2 DEF IsList
<1>5. TableNames(Seen(f).tables) = TableNames(f.tables)
  BY <1>1, <1>3, <1>4 DEF TableNames, IsList
<1> QED BY <1>1, <1>2, <1>3, <1>4, <1>5 DEF IsList

SameInfo(t, u) ==
  /\ t.name = u.name /\ t.rows = u.rows
  /\ Len(t.columns) = Len(u.columns)
  /\ \A i \in 1 .. Len(t.columns) : ColumnInfo(t.columns[i]) = ColumnInfo(u.columns[i])

LEMMA TableInfoIs ==
  ASSUME NEW t, IsTable(t)
  PROVE  /\ TableInfo(t).name = t.name /\ TableInfo(t).rows = t.rows
         /\ DOMAIN TableInfo(t).columns = 1 .. Len(t.columns) /\ Len(t.columns) \in Nat
         /\ \A i \in 1 .. Len(t.columns) : TableInfo(t).columns[i] = ColumnInfo(t.columns[i])
BY DEF TableInfo, IsTable, IsList

LEMMA SameInfosAre ==
  ASSUME NEW t, NEW u, IsTable(t), IsTable(u), Len(t.columns) = Len(u.columns)
  PROVE  SameInfos(TableInfo(t), TableInfo(u), Len(t.columns)) <=>
           \A i \in 1 .. Len(t.columns) : ColumnInfo(t.columns[i]) = ColumnInfo(u.columns[i])
<1>1. /\ \A i \in 1 .. Len(t.columns) : TableInfo(t).columns[i] = ColumnInfo(t.columns[i])
      /\ \A i \in 1 .. Len(t.columns) : TableInfo(u).columns[i] = ColumnInfo(u.columns[i])
  BY TableInfoIs
<1>2. \A c, d : ColumnInfo(c) = ColumnInfo(d) <=>
        /\ ColumnInfo(c).name = ColumnInfo(d).name /\ ColumnInfo(c).type = ColumnInfo(d).type
        /\ ColumnInfo(c).levels = ColumnInfo(d).levels
  BY DEF ColumnInfo
<1> QED BY <1>1, <1>2 DEF SameInfos

LEMMA TableSame ==
  ASSUME NEW t, NEW u, IsTable(t), IsTable(u), t.name = u.name
  PROVE  _diff_table(TableInfo(t), TableInfo(u)) = {} <=> SameInfo(t, u)
<1> DEFINE n == Len(t.columns)
           m == Len(u.columns)
<1>1. /\ DOMAIN TableInfo(t).columns = 1 .. n /\ n \in Nat /\ TableInfo(t).rows = t.rows
      /\ DOMAIN TableInfo(u).columns = 1 .. m /\ m \in Nat /\ TableInfo(u).rows = u.rows
  BY TableInfoIs
<1>2. _diff_table(TableInfo(t), TableInfo(u)) = {} <=>
        t.rows = u.rows /\ n = m /\ SameInfos(TableInfo(t), TableInfo(u), n)
  <2>1. NoDifference(TableInfo(t), TableInfo(u)) <=>
          TableInfo(t).rows = TableInfo(u).rows /\ n = m /\ SameInfos(TableInfo(t), TableInfo(u), n)
    BY <1>1, NoDifferenceIs
  <2> QED BY <1>1, <2>1, DiffTableParts
<1> QED BY <1>2, SameInfosAre DEF SameInfo

LEMMA StructureParts ==
  ASSUME NEW l, NEW r
  PROVE  Structure(l, r) = {} <=>
           /\ l.compression = r.compression
           /\ TableNames(l.tables) = TableNames(r.tables)
           /\ \A name \in TableNames(l.tables) :
                _diff_table(l.tables[Place(l.tables, name)], r.tables[Place(r.tables, name)]) = {}
<1> DEFINE both == TableNames(l.tables) \cap TableNames(r.tables)
           D(name) == _diff_table(l.tables[Place(l.tables, name)], r.tables[Place(r.tables, name)])
           Compressed == IF l.compression = r.compression THEN {} ELSE {Entry("compression_changed", None, None)}
           Removed == { Entry("table_removed", name, None) : name \in TableNames(l.tables) \ both }
           Added == { Entry("table_added", name, None) : name \in TableNames(r.tables) \ both }
           Within == UNION { D(name) : name \in both }
<1>1. Structure(l, r) = Compressed \cup Removed \cup Added \cup Within
  BY Zenon DEF Structure
<1>2. Compressed = {} <=> l.compression = r.compression
  OBVIOUS
<1>3. Removed = {} <=> TableNames(l.tables) \ both = {}
  OBVIOUS
<1>4. Added = {} <=> TableNames(r.tables) \ both = {}
  OBVIOUS
<1>5. Within = {} <=> \A name \in both : D(name) = {}
  <2> HIDE DEF D, both
  <2> QED OBVIOUS
<1>6. Structure(l, r) = {} <=> Compressed = {} /\ Removed = {} /\ Added = {} /\ Within = {}
  <2> HIDE DEF Compressed, Removed, Added, Within
  <2> QED BY <1>1
<1> HIDE DEF Compressed, Removed, Added, Within, D
<1>7. Structure(l, r) = {} <=>
        l.compression = r.compression /\ TableNames(l.tables) = TableNames(r.tables) /\ \A name \in both : D(name) = {}
  BY <1>2, <1>3, <1>4, <1>5, <1>6
<1> QED BY <1>7 DEF D
\* The tables of two files are the same, as catalogs show them.
Matched(f, g) ==
  /\ f.compression = g.compression
  /\ Len(f.tables) = Len(g.tables)
  /\ \A t \in ToSet(f.tables) : \E u \in ToSet(g.tables) : SameInfo(t, u)

\* A table of a file whose names are distinct is found by its name.
LEMMA FoundByName ==
  ASSUME NEW f \in Contents, Distinct(f.tables), NEW t \in ToSet(f.tables)
  PROVE  /\ t.name \in TableNames(f.tables)
         /\ Place(Seen(f).tables, t.name) \in 1 .. Len(f.tables)
         /\ Seen(f).tables[Place(Seen(f).tables, t.name)] = TableInfo(t)
         /\ f.tables[Place(Seen(f).tables, t.name)] = t
         /\ \A u \in ToSet(f.tables) : u.name = t.name => u = t
<1> DEFINE n == Len(f.tables)
<1>1. /\ IsList(f.tables, n) /\ IsList(Seen(f).tables, n)
      /\ \A p \in 1 .. n : Seen(f).tables[p] = TableInfo(f.tables[p])
      /\ \A p \in 1 .. n : Seen(f).tables[p].name = f.tables[p].name
      /\ TableNames(Seen(f).tables) = TableNames(f.tables)
  BY FilesTyped, SeenIs
<1>2. NamesApart(f.tables, n)
  BY <1>1, DistinctIsApart DEF Distinct
<1>3. PICK p \in 1 .. n : f.tables[p] = t
  BY FilesTyped
<1>4. \A q \in 1 .. n : Seen(f).tables[q].name = Seen(f).tables[p].name => q = p
  BY <1>1, <1>2 DEF NamesApart
<1>5. Place(Seen(f).tables, Seen(f).tables[p].name) = p /\ Seen(f).tables[p].name \in TableNames(Seen(f).tables)
  BY <1>1, <1>4, PlaceOfSingle
<1>6. Seen(f).tables[p].name = t.name
  BY <1>1, <1>3
<1>7. ASSUME NEW u \in ToSet(f.tables), u.name = t.name PROVE u = t
  <2>1. PICK q \in 1 .. n : f.tables[q] = u
    BY FilesTyped
  <2> QED BY <1>2, <1>3, <1>7, <2>1 DEF NamesApart
<1> QED BY <1>1, <1>3, <1>5, <1>6, <1>7

LEMMA NamesAre ==
  ASSUME NEW f \in Contents, NEW name
  PROVE  name \in TableNames(f.tables) <=> \E t \in ToSet(f.tables) : t.name = name
BY DEF TableNames, ToSet

\* Nothing is reported of the catalogs exactly if they show the same tables.
LEMMA StructureSame ==
  ASSUME NEW f \in Contents, NEW g \in Contents, Distinct(f.tables), Distinct(g.tables)
  PROVE  Structure(Seen(f), Seen(g)) = {} <=> Matched(f, g)
<1> DEFINE names == TableNames(f.tables)
           others == TableNames(g.tables)
           D(name) == _diff_table(Seen(f).tables[Place(Seen(f).tables, name)],
                                  Seen(g).tables[Place(Seen(g).tables, name)])
<1>1. Structure(Seen(f), Seen(g)) = {} <=>
        f.compression = g.compression /\ names = others /\ \A name \in names : D(name) = {}
  BY SeenIs, StructureParts
<1>2. /\ Cardinality(names) = Len(f.tables) /\ IsFiniteSet(names)
      /\ Cardinality(others) = Len(g.tables) /\ IsFiniteSet(others)
  BY FilesTyped, DistinctIsApart DEF Distinct
<1>3. ASSUME NEW t \in ToSet(f.tables), NEW u \in ToSet(g.tables), t.name = u.name
      PROVE  D(t.name) = {} <=> SameInfo(t, u)
  <2>1. D(t.name) = _diff_table(TableInfo(t), TableInfo(u))
    BY <1>3, FoundByName
  <2>2. IsTable(t) /\ IsTable(u)
    BY FilesTyped
  <2> QED BY <1>3, <2>1, <2>2, TableSame
<1> HIDE DEF D
<1>4. ASSUME f.compression = g.compression, names = others, \A name \in names : D(name) = {}
      PROVE  Matched(f, g)
  <2>1. Len(f.tables) = Len(g.tables)
    BY <1>2, <1>4
  <2>2. ASSUME NEW t \in ToSet(f.tables) PROVE \E u \in ToSet(g.tables) : SameInfo(t, u)
    <3>1. t.name \in names
      BY NamesAre
    <3>2. PICK u \in ToSet(g.tables) : u.name = t.name
      BY <1>4, <3>1, NamesAre
    <3> QED BY <1>3, <1>4, <3>1, <3>2
  <2> QED BY <1>4, <2>1, <2>2 DEF Matched
<1>5. ASSUME Matched(f, g)
      PROVE  names = others /\ \A name \in names : D(name) = {}
  <2>1. names \subseteq others
    <3> SUFFICES ASSUME NEW name \in names PROVE name \in others
      OBVIOUS
    <3>1. PICK t \in ToSet(f.tables) : t.name = name
      BY NamesAre
    <3>2. PICK u \in ToSet(g.tables) : SameInfo(t, u)
      BY <1>5 DEF Matched
    <3> QED BY <3>1, <3>2, NamesAre DEF SameInfo
  <2>2. names = others
    <3> HIDE DEF names, others
    <3> QED BY <1>2, <1>5, <2>1, FS_Subset DEF Matched
  <2>3. ASSUME NEW name \in names PROVE D(name) = {}
    <3>1. PICK t \in ToSet(f.tables) : t.name = name
      BY NamesAre
    <3>2. PICK u \in ToSet(g.tables) : SameInfo(t, u)
      BY <1>5 DEF Matched
    <3> QED BY <1>3, <3>1, <3>2 DEF SameInfo
  <2> QED BY <2>2, <2>3
<1>6. Matched(f, g) => f.compression = g.compression
  BY DEF Matched
<1> QED BY <1>1, <1>4, <1>5, <1>6

-----------------------------------------------------------------------------
(* What their contents show. *)

SameContents(t, u) ==
  \A i \in 1 .. Len(t.columns) :
    /\ ArrowType(t.columns[i]) = ArrowType(u.columns[i])
    /\ SameCells(t.columns[i].cells, u.columns[i].cells)

\* The columns of a table that can be found equal.
Defined(t) == \A i \in 1 .. Len(t.columns) : ~Incomparable(t.columns[i])

\* No row differs exactly if the cells are the same and can be found equal.
LEMMA CellsSame ==
  ASSUME NEW type, NEW a, NEW b, a \in Seq(ToSet(a)), b \in Seq(ToSet(b)), Len(a) = Len(b)
  PROVE  _differing_rows(type, a, b) = 0 <=>
           SameCells(a, b) /\ ~(type \in Nested /\ \E i \in DOMAIN a : a[i] \in Holed)
<1>1. CASE type \in Nested
  <2>1. _differing_rows(type, a, b) = 0 <=> a = b /\ \A i \in DOMAIN a : a[i] \notin Holed
    BY <1>1 DEF _differing_rows
  <2>2. a = b <=> SameCells(a, b)
    <3>1. DOMAIN a = 1 .. Len(a) /\ DOMAIN b = 1 .. Len(b)
      OBVIOUS
    <3>2. a = [i \in DOMAIN a |-> a[i]] /\ b = [i \in DOMAIN b |-> b[i]]
      OBVIOUS
    <3> QED BY <3>1, <3>2 DEF SameCells
  <2> QED BY <1>1, <2>1, <2>2
<1>2. CASE type \notin Nested
  <2> DEFINE D == { i \in DOMAIN a :
                      /\ \/ Null \notin {a[i], b[i]} /\ (a[i] # b[i] \/ a[i] = NaN)
                         \/ (a[i] = Null) # (b[i] = Null)
                      /\ ~(a[i] = NaN /\ b[i] = NaN) }
  <2>1. IsFiniteSet(D) /\ Cardinality(D) \in Nat
    <3>1. IsFiniteSet(1 .. Len(a))
      BY FS_Interval
    <3>2. D \subseteq 1 .. Len(a)
      OBVIOUS
    <3> QED BY <3>1, <3>2, FS_Subset, FS_CardinalityType
  <2>2. _differing_rows(type, a, b) = Cardinality(D)
    BY <1>2 DEF _differing_rows
  <2>3. D = {} <=> \A i \in DOMAIN a : a[i] = b[i]
    OBVIOUS
  <2> HIDE DEF D
  <2>4. Cardinality(D) = 0 <=> D = {}
    BY <2>1, FS_EmptySet
  <2> QED BY <1>2, <2>2, <2>3, <2>4 DEF SameCells
<1> QED BY <1>1, <1>2

\* Tables that catalogs show as the same have the same keys, at the same places.
LEMMA SameKeys ==
  ASSUME NEW t, NEW u, IsTable(t), IsTable(u), SameInfo(t, u)
  PROVE  LET lefts == _keyed_columns(TableInfo(t).columns)
             rights == _keyed_columns(TableInfo(u).columns)
         IN /\ Comparable(TableInfo(t), TableInfo(u)) = ToSet(lefts)
            /\ ToSet(lefts) = { lefts[i] : i \in 1 .. Len(t.columns) }
            /\ \A i \in 1 .. Len(t.columns) : Position(lefts, lefts[i]) = i /\ Position(rights, lefts[i]) = i
<1> DEFINE l == TableInfo(t)
           r == TableInfo(u)
           n == Len(t.columns)
           lefts == _keyed_columns(l.columns)
           rights == _keyed_columns(r.columns)
<1>1. /\ n \in Nat /\ Len(u.columns) = n
      /\ DOMAIN l.columns = 1 .. n /\ DOMAIN r.columns = 1 .. n
  BY TableInfoIs DEF SameInfo
<1>2. NoDifference(l, r)
  BY TableSame, DiffTableParts DEF SameInfo
<1>3. SameInfos(l, r, n)
  BY <1>1, <1>2, NoDifferenceIs
<1> HIDE DEF l, r
<1>4. /\ DOMAIN lefts = 1 .. n /\ Apart(lefts, n) /\ ToSet(lefts) = { lefts[i] : i \in 1 .. n }
      /\ DOMAIN rights = 1 .. n /\ Apart(rights, n) /\ ToSet(rights) = { rights[i] : i \in 1 .. n }
  BY <1>1, KeysApart
<1>5. ToSet(lefts) = ToSet(rights) /\ InOrder(lefts, rights)
  BY <1>2 DEF NoDifference
<1> HIDE DEF lefts, rights
<1>6. \A i \in 1 .. n : lefts[i] = rights[i]
  BY <1>1, <1>4, <1>5, SameOrder
<1>7. ASSUME NEW i \in 1 .. n PROVE Position(lefts, lefts[i]) = i /\ Position(rights, lefts[i]) = i
  <2>1. Position(lefts, lefts[i]) = i
    BY <1>1, <1>4, PositionIs
  <2>2. Position(rights, rights[i]) = i
    BY <1>1, <1>4, PositionIs
  <2> QED BY <1>6, <2>1, <2>2
<1>8. Comparable(l, r) = { key \in ToSet(lefts) \cap ToSet(rights) :
                             l.columns[Position(lefts, key)].type = r.columns[Position(rights, key)].type }
  BY Zenon DEF Comparable, lefts, rights
<1>9. \A i \in 1 .. n : l.columns[Position(lefts, lefts[i])].type = r.columns[Position(rights, lefts[i])].type
  BY <1>3, <1>7 DEF SameInfos
<1>10. Comparable(l, r) = ToSet(lefts)
  <2>1. \A key \in ToSet(lefts) : l.columns[Position(lefts, key)].type = r.columns[Position(rights, key)].type
    BY <1>4, <1>9
  <2> HIDE DEF n
  <2> QED BY <1>5, <1>8, <2>1
<1> QED BY <1>4, <1>7, <1>10 DEF lefts, rights, l, r

DifferingIn(c, d) == _differing_rows(ArrowType(c), c.cells, d.cells)

\* The cells of a common table are compared through these places, and nothing
\* is reported exactly if they are the same and can be found equal.
LEMMA ContentOfSame ==
  ASSUME NEW t, NEW u, IsTable(t), IsTable(u), SameInfo(t, u), NEW name
  PROVE  ContentOf(name, TableInfo(t), TableInfo(u), t, u) = {} <=> SameContents(t, u) /\ Defined(t)
<1> DEFINE n == Len(t.columns)
           lefts == _keyed_columns(TableInfo(t).columns)
           rights == _keyed_columns(TableInfo(u).columns)
           before(key) == t.columns[Position(lefts, key)]
           after(key)  == u.columns[Position(rights, key)]
           keys == { key \in Comparable(TableInfo(t), TableInfo(u)) :
                       /\ Position(lefts, key) \in DOMAIN t.columns
                       /\ Position(rights, key) \in DOMAIN u.columns
                       /\ t.rows = u.rows }
           other == { key \in keys : ArrowType(before(key)) # ArrowType(after(key)) }
           Retyped == { Entry("type_changed", name, key) : key \in other }
           Changed == { Entry("values_changed", name, key) :
                          key \in { k \in keys \ other : DifferingIn(before(k), after(k)) # 0 } }
<1>1. ContentOf(name, TableInfo(t), TableInfo(u), t, u) = Retyped \cup Changed
  BY Zenon DEF ContentOf, DifferingIn
<1>2. /\ Comparable(TableInfo(t), TableInfo(u)) = ToSet(lefts)
      /\ ToSet(lefts) = { lefts[i] : i \in 1 .. n }
      /\ \A i \in 1 .. n : Position(lefts, lefts[i]) = i /\ Position(rights, lefts[i]) = i
  BY SameKeys
<1>3. /\ DOMAIN t.columns = 1 .. n /\ DOMAIN u.columns = 1 .. n /\ n \in Nat
      /\ t.rows = u.rows
  BY DEF IsTable, IsList, SameInfo
<1> HIDE DEF lefts, rights
<1>4. keys = { lefts[i] : i \in 1 .. n }
  BY <1>2, <1>3
<1>5. \A i \in 1 .. n : before(lefts[i]) = t.columns[i] /\ after(lefts[i]) = u.columns[i]
  BY <1>2
<1>6. (Retyped = {} <=> other = {})
      /\ (other = {} => (Changed = {} <=> \A k \in keys : DifferingIn(before(k), after(k)) = 0))
  <2> HIDE DEF before, after, keys
  <2> QED OBVIOUS
<1>7. other = {} <=> \A i \in 1 .. n : ArrowType(t.columns[i]) = ArrowType(u.columns[i])
  <2> HIDE DEF before, after, keys
  <2> QED BY <1>4, <1>5
<1>8. (\A k \in keys : DifferingIn(before(k), after(k)) = 0) <=>
        \A i \in 1 .. n : DifferingIn(t.columns[i], u.columns[i]) = 0
  <2> HIDE DEF before, after, keys
  <2> QED BY <1>4, <1>5
<1>9. ASSUME NEW i \in 1 .. n
      PROVE  DifferingIn(t.columns[i], u.columns[i]) = 0 <=>
               SameCells(t.columns[i].cells, u.columns[i].cells) /\ ~Incomparable(t.columns[i])
  <2>1. i \in 1 .. Len(u.columns)
    BY DEF SameInfo
  <2>2. /\ t.columns[i].cells \in Seq(ToSet(t.columns[i].cells)) /\ u.columns[i].cells \in Seq(ToSet(u.columns[i].cells))
        /\ Len(t.columns[i].cells) = Len(u.columns[i].cells)
    BY <1>3, <2>1 DEF IsTable
  <2> QED BY <2>2, CellsSame DEF DifferingIn, Incomparable
<1> HIDE DEF Retyped, Changed, other, keys, before, after
<1>10. ContentOf(name, TableInfo(t), TableInfo(u), t, u) = {} <=>
         /\ \A i \in 1 .. n : ArrowType(t.columns[i]) = ArrowType(u.columns[i])
         /\ \A i \in 1 .. n : DifferingIn(t.columns[i], u.columns[i]) = 0
  BY <1>1, <1>6, <1>7, <1>8
<1> QED BY <1>9, <1>10 DEF SameContents, Defined

\* The contents of two files that have the same tables.
LEMMA ContentSame ==
  ASSUME NEW f \in Contents, NEW g \in Contents, Distinct(f.tables), Distinct(g.tables), Matched(f, g)
  PROVE  Content(Seen(f), Seen(g), f.tables, g.tables) = {} <=>
           \A t \in ToSet(f.tables), u \in ToSet(g.tables) : SameInfo(t, u) => SameContents(t, u) /\ Defined(t)
<1> DEFINE both == TableNames(Seen(f).tables) \cap TableNames(Seen(g).tables)
           all == Content(Seen(f), Seen(g), f.tables, g.tables)
           C(name) == ContentOf(name, Seen(f).tables[Place(Seen(f).tables, name)], Seen(g).tables[Place(Seen(g).tables, name)],
                                f.tables[Place(Seen(f).tables, name)], g.tables[Place(Seen(g).tables, name)])
<1>1. all = UNION { C(name) : name \in both }
  BY Zenon DEF Content
<1>2. all = {} <=> \A name \in both : C(name) = {}
  <2> HIDE DEF C, both, all
  <2> QED BY <1>1
<1>3. ASSUME NEW t \in ToSet(f.tables), NEW u \in ToSet(g.tables), SameInfo(t, u)
      PROVE  t.name \in both /\ (C(t.name) = {} <=> SameContents(t, u) /\ Defined(t))
  <2>1. t.name = u.name
    BY <1>3 DEF SameInfo
  <2>2. /\ t.name \in TableNames(f.tables) /\ Seen(f).tables[Place(Seen(f).tables, t.name)] = TableInfo(t)
        /\ f.tables[Place(Seen(f).tables, t.name)] = t
    BY FoundByName
  <2>3. /\ t.name \in TableNames(g.tables) /\ Seen(g).tables[Place(Seen(g).tables, t.name)] = TableInfo(u)
        /\ g.tables[Place(Seen(g).tables, t.name)] = u
    BY <2>1, FoundByName
  <2>4. IsTable(t) /\ IsTable(u)
    BY FilesTyped
  <2>5. C(t.name) = ContentOf(t.name, TableInfo(t), TableInfo(u), t, u)
    BY <2>2, <2>3
  <2>6. ContentOf(t.name, TableInfo(t), TableInfo(u), t, u) = {} <=> SameContents(t, u) /\ Defined(t)
    BY <1>3, <2>2, <2>3, <2>4, ContentOfSame
  <2>7. t.name \in both
    BY <2>2, <2>3, SeenIs
  <2> QED BY <2>5, <2>6, <2>7
<1>4. ASSUME NEW name \in both
      PROVE  \E t \in ToSet(f.tables), u \in ToSet(g.tables) : t.name = name /\ SameInfo(t, u)
  <2>1. name \in TableNames(f.tables)
    BY SeenIs
  <2>2. PICK t \in ToSet(f.tables) : t.name = name
    BY <2>1, NamesAre
  <2> QED BY <2>2 DEF Matched
<1> HIDE DEF C, both, all
<1>5. ASSUME all = {}, NEW t \in ToSet(f.tables), NEW u \in ToSet(g.tables), SameInfo(t, u)
      PROVE  SameContents(t, u) /\ Defined(t)
  BY <1>2, <1>3, <1>5
<1>6. ASSUME \A t \in ToSet(f.tables), u \in ToSet(g.tables) : SameInfo(t, u) => SameContents(t, u) /\ Defined(t)
      PROVE  all = {}
  <2>1. ASSUME NEW name \in both PROVE C(name) = {}
    BY <1>3, <1>4, <1>6
  <2> QED BY <1>2, <2>1
<1> QED BY <1>5, <1>6 DEF all

\* Two files are the same if their tables match and then their contents do.
LEMMA SameIs ==
  ASSUME NEW f \in Contents, NEW g \in Contents, Distinct(f.tables), Distinct(g.tables)
  PROVE  Same(f, g) <=>
           /\ Matched(f, g)
           /\ content => \A t \in ToSet(f.tables), u \in ToSet(g.tables) : SameInfo(t, u) => SameContents(t, u)
<1> DEFINE Alike(t, u) == SameInfo(t, u) /\ (content => SameContents(t, u))
<1>1. ASSUME NEW t \in ToSet(f.tables), NEW u \in ToSet(g.tables)
      PROVE  Alike(t, u) <=>
               /\ t.name = u.name /\ t.rows = u.rows /\ Len(t.columns) = Len(u.columns)
               /\ \A i \in DOMAIN t.columns : SameColumn(t.columns[i], u.columns[i])
  <2>1. DOMAIN t.columns = 1 .. Len(t.columns)
    BY FilesTyped DEF IsTable, IsList
  <2> QED BY <2>1 DEF SameInfo, SameContents, SameColumn
<1> HIDE DEF Alike
<1>2. Same(f, g) <=>
        /\ f.compression = g.compression /\ Len(f.tables) = Len(g.tables)
        /\ \A t \in ToSet(f.tables) : \E u \in ToSet(g.tables) : Alike(t, u)
  BY <1>1 DEF Same
<1>3. ASSUME Matched(f, g), content => \A t \in ToSet(f.tables), u \in ToSet(g.tables) : SameInfo(t, u) => SameContents(t, u)
      PROVE  Same(f, g)
  BY <1>2, <1>3 DEF Matched, Alike
<1>4. ASSUME Same(f, g) PROVE Matched(f, g)
  BY <1>2, <1>4 DEF Matched, Alike
<1>5. ASSUME Same(f, g), content, NEW t \in ToSet(f.tables), NEW u \in ToSet(g.tables), SameInfo(t, u)
      PROVE  SameContents(t, u)
  <2>1. PICK v \in ToSet(g.tables) : Alike(t, v)
    BY <1>2, <1>5
  <2>2. v = u
    <3>1. v.name = u.name
      BY <1>5, <2>1 DEF Alike, SameInfo
    <3> QED BY <3>1, FoundByName
  <2> QED BY <1>5, <2>1, <2>2 DEF Alike
<1> QED BY <1>3, <1>4, <1>5

-----------------------------------------------------------------------------
(* What is known at each step: what was taken of a file is what it holds as  *)
(* long as nobody replaces it, and the report is what the two tiers make of it. *)

Later == {"structure", "read", "content", "done", "invalid"}

Taken(s) == catalog[s] # None \/ pc \in Later

Fetched(s) == arrow[s] # None \/ pc = "content" \/ (pc = "done" /\ content)

Typed ==
  /\ disk \in [Sides -> Contents] /\ changes \in Nat /\ content \in BOOLEAN
  /\ DOMAIN catalog = Sides /\ DOMAIN arrow = Sides
  /\ pc \in {"inspect"} \cup Later

CatalogsSound ==
  \A s \in Sides : Taken(s) =>
    /\ \E f \in Contents : catalog[s] = Seen(f)
    /\ changes = 0 => catalog[s] = Seen(disk[s])

ArrowSound == changes = 0 => \A s \in Sides : Fetched(s) => arrow[s] = disk[s].tables

EntriesSound ==
  /\ pc \in {"read", "content"} => content /\ entries = Structure(catalog.left, catalog.right)
  /\ pc = "done" => entries = Structure(catalog.left, catalog.right) \cup (IF content THEN Content(catalog.left, catalog.right, arrow.left, arrow.right) ELSE {})

IInv == Typed /\ CatalogsSound /\ ArrowSound /\ EntriesSound

LEMMA InitHolds == Init => IInv
<1> SUFFICES ASSUME Init PROVE IInv
  OBVIOUS
<1>1. Typed
  BY DEF Init, Typed
<1>2. \A s \in Sides : ~Taken(s) /\ ~Fetched(s)
  BY DEF Init, Taken, Fetched, Later
<1> QED BY <1>1, <1>2 DEF Init, IInv, CatalogsSound, ArrowSound, EntriesSound

LEMMA NextKeeps == IInv /\ [Next]_vars => IInv'
<1> SUFFICES ASSUME IInv, [Next]_vars PROVE IInv'
  OBVIOUS
<1> USE DEF IInv
<1>1. CASE UNCHANGED vars
  BY <1>1 DEF vars, Typed, CatalogsSound, ArrowSound, EntriesSound, Taken, Fetched
<1>2. ASSUME NEW s \in Sides, Replace(s) PROVE IInv'
  <2>1. Typed' /\ changes' # 0
    BY <1>2 DEF Replace, Typed
  <2>2. CatalogsSound' /\ ArrowSound'
    BY <1>2, <2>1 DEF Replace, CatalogsSound, ArrowSound, Taken
  <2>3. EntriesSound'
    BY <1>2 DEF Replace, EntriesSound
  <2> QED BY <2>1, <2>2, <2>3
<1>3. ASSUME NEW s \in Sides, TakeCatalog(s) PROVE IInv'
  <2>1. Typed'
    BY <1>3 DEF TakeCatalog, Typed, Later
  <2>2. /\ catalog'[s] = Seen(disk[s]) /\ disk[s] \in Contents
        /\ \A q \in Sides \ {s} : catalog'[q] = catalog[q]
        /\ UNCHANGED <<disk, changes, arrow, content, entries>>
        /\ pc = "inspect"
    BY <1>3 DEF TakeCatalog, Typed
  <2>3. ASSUME NEW q \in Sides \ {s}, Taken(q)' PROVE Taken(q)
    <3>1. CASE s = "right"
      BY <1>3, <2>2, <3>1 DEF TakeCatalog, Taken, Sides
    <3>2. CASE s # "right"
      BY <1>3, <2>2, <2>3, <3>2 DEF TakeCatalog, Taken, Later
    <3> QED BY <3>1, <3>2
  <2>4. CatalogsSound'
    BY <2>2, <2>3 DEF CatalogsSound
  <2>5. ArrowSound' /\ EntriesSound'
    BY <1>3, <2>2 DEF TakeCatalog, ArrowSound, EntriesSound, Fetched
  <2> QED BY <2>1, <2>4, <2>5
<1>4. ASSUME DiffStructure PROVE IInv'
  <2>1. Typed' /\ CatalogsSound'
    BY <1>4 DEF DiffStructure, Typed, CatalogsSound, Taken, Later
  <2>2. ArrowSound'
    BY <1>4 DEF DiffStructure, ArrowSound, Fetched, Typed
  <2>3. EntriesSound'
    BY <1>4 DEF DiffStructure, EntriesSound, Typed
  <2> QED BY <2>1, <2>2, <2>3
<1>5. ASSUME NEW s \in Sides, ReadArrow(s) PROVE IInv'
  <2>1. Typed' /\ CatalogsSound'
    BY <1>5 DEF ReadArrow, Typed, CatalogsSound, Taken, Later
  <2>2. /\ arrow'[s] = disk[s].tables
        /\ \A q \in Sides \ {s} : arrow'[q] = arrow[q]
        /\ UNCHANGED <<disk, changes, content>> /\ pc = "read" /\ pc' # "done"
    BY <1>5 DEF ReadArrow, Typed
  <2>3. ASSUME NEW q \in Sides \ {s}, Fetched(q)' PROVE Fetched(q)
    <3>1. CASE s = "right"
      BY <1>5, <2>2, <3>1 DEF ReadArrow, Fetched, Sides
    <3>2. CASE s # "right"
      BY <1>5, <2>2, <2>3, <3>2 DEF ReadArrow, Fetched
    <3> QED BY <3>1, <3>2
  <2>4. ArrowSound'
    BY <2>2, <2>3 DEF ArrowSound
  <2>5. EntriesSound'
    BY <1>5 DEF ReadArrow, EntriesSound
  <2> QED BY <2>1, <2>4, <2>5
<1>6. ASSUME DiffContent PROVE IInv'
  <2>1. Typed' /\ CatalogsSound'
    BY <1>6 DEF DiffContent, Typed, CatalogsSound, Taken, Later
  <2>2. ArrowSound'
    BY <1>6 DEF DiffContent, ArrowSound, Fetched
  <2>3. EntriesSound'
    BY <1>6 DEF DiffContent, EntriesSound
  <2> QED BY <2>1, <2>2, <2>3
<1> QED BY <1>1, <1>2, <1>3, <1>4, <1>5, <1>6 DEF Next

\* What was taken of a file is what one of Contents shows, and its own while
\* nobody replaces it; the report is what the tiers make of what was taken.
THEOREM Invariant == Spec => []IInv
BY InitHolds, NextKeeps, PTL DEF Spec

-----------------------------------------------------------------------------
\* The report is empty if and only if the files are the same at the level that
\* was checked, for any tables, repeated column names, types, levels and cells,
\* and no complex or list cell has a NaN in it.
THEOREM EmptyIffSame == Spec => []IdenticalIffSame
<1>1. IInv => IdenticalIffSame
  <2> SUFFICES ASSUME IInv, pc = "done", changes = 0, \A s \in Sides : Distinct(disk[s].tables)
               PROVE  entries = {} <=> Same(disk.left, disk.right) /\ (content => Definite(disk.left))
    BY DEF IdenticalIffSame
  <2> DEFINE f == disk.left
             g == disk.right
  <2>1. f \in Contents /\ g \in Contents /\ content \in BOOLEAN /\ Distinct(f.tables) /\ Distinct(g.tables)
    BY DEF IInv, Typed, Sides
  <2>2. catalog.left = Seen(f) /\ catalog.right = Seen(g)
    BY DEF IInv, CatalogsSound, Taken, Later, Sides
  <2>3. content => arrow.left = f.tables /\ arrow.right = g.tables
    BY DEF IInv, ArrowSound, Fetched, Sides
  <2>4. entries = Structure(Seen(f), Seen(g)) \cup (IF content THEN Content(Seen(f), Seen(g), f.tables, g.tables) ELSE {})
    BY <2>2, <2>3 DEF IInv, EntriesSound
  <2> HIDE DEF f, g
  <2>5. Structure(Seen(f), Seen(g)) = {} <=> Matched(f, g)
    BY <2>1, StructureSame
  <2>6. ASSUME content, Matched(f, g)
        PROVE  Content(Seen(f), Seen(g), f.tables, g.tables) = {} <=> \A t \in ToSet(f.tables), u \in ToSet(g.tables) : SameInfo(t, u) => SameContents(t, u) /\ Defined(t)
    BY <2>1, <2>6, ContentSame
  <2>7. Same(f, g) <=>
          /\ Matched(f, g)
          /\ content => \A t \in ToSet(f.tables), u \in ToSet(g.tables) : SameInfo(t, u) => SameContents(t, u)
    BY <2>1, SameIs
  <2>8. entries = {} <=> Structure(Seen(f), Seen(g)) = {} /\ (content => Content(Seen(f), Seen(g), f.tables, g.tables) = {})
    BY <2>1, <2>4
  <2>9. Definite(f) <=> \A t \in ToSet(f.tables) : Defined(t)
    BY FilesTyped, <2>1 DEF Definite, Defined, IsTable, IsList
  <2>10. Matched(f, g) => \A t \in ToSet(f.tables) : \E u \in ToSet(g.tables) : SameInfo(t, u)
    BY DEF Matched
  <2>11. entries = {} <=> Same(f, g) /\ (content => Definite(f))
    BY <2>5, <2>6, <2>7, <2>8, <2>9, <2>10
  <2> QED BY <2>11 DEF f, g
<1> QED BY <1>1, Invariant, PTL

-----------------------------------------------------------------------------
(* The files the other way round. *)

FlipKind(kind) ==
  CASE kind = "column_added" -> "column_removed" [] kind = "column_removed" -> "column_added"
    [] kind = "table_added"  -> "table_removed"  [] kind = "table_removed"  -> "table_added"
    [] OTHER -> kind

Flip(e) == [e EXCEPT !.kind = FlipKind(e.kind)]

LEMMA MirrorIs == \A S : Mirror(S) = { Flip(x) : x \in S }
BY Zenon DEF Mirror, FlipKind, Flip

LEMMA MirrorOfUnion ==
  ASSUME NEW A, NEW B, NEW C, NEW D
  PROVE  Mirror(A \cup B \cup C \cup D) = Mirror(A) \cup Mirror(B) \cup Mirror(C) \cup Mirror(D)
BY MirrorIs

\* The parts of a report: at most one entry, or one for each key or name.
One(same, kind, table) == IF same THEN {} ELSE {Entry(kind, table, None)}
Columns(kind, table, keys) == { Entry(kind, table, key) : key \in keys }
Tables(kind, names) == { Entry(kind, name, None) : name \in names }

LEMMA FlipEntry == \A kind, table, column : Flip(Entry(kind, table, column)) = Entry(FlipKind(kind), table, column)
BY DEF Flip, Entry

LEMMA MirrorOfColumns ==
  ASSUME NEW kind, NEW table, NEW K
  PROVE  Mirror(Columns(kind, table, K)) = Columns(FlipKind(kind), table, K)
BY MirrorIs, FlipEntry DEF Columns

LEMMA MirrorOfTables ==
  ASSUME NEW kind, NEW K
  PROVE  Mirror(Tables(kind, K)) = Tables(FlipKind(kind), K)
BY MirrorIs, FlipEntry DEF Tables

Relevelled(l, r) ==
  { k \in Comparable(l, r) : l.columns[Position(_keyed_columns(l.columns), k)].levels
                               # r.columns[Position(_keyed_columns(r.columns), k)].levels }

LEMMA DiffTableIs ==
  ASSUME NEW l, NEW r
  PROVE  LET lefts == ToSet(_keyed_columns(l.columns)) rights == ToSet(_keyed_columns(r.columns))
         IN _diff_table(l, r) =
              (One(l.rows = r.rows, "rows_changed", l.name)
                \cup One(InOrder(_keyed_columns(l.columns), _keyed_columns(r.columns)), "columns_reordered", l.name)
                \cup Columns("column_removed", l.name, lefts \ (lefts \cap rights))
                \cup Columns("column_added", l.name, rights \ (lefts \cap rights)))
              \cup Columns("type_changed", l.name, (lefts \cap rights) \ Comparable(l, r))
              \cup Columns("levels_changed", l.name, Relevelled(l, r))
<1> DEFINE ls == _keyed_columns(l.columns)
           rs == _keyed_columns(r.columns)
           both == ToSet(ls) \cap ToSet(rs)
           Same1 == Comparable(l, r)
           Rows == One(l.rows = r.rows, "rows_changed", l.name)
           Order == One(InOrder(ls, rs), "columns_reordered", l.name)
           Removed == Columns("column_removed", l.name, ToSet(ls) \ both)
           Added == Columns("column_added", l.name, ToSet(rs) \ both)
           Retyped == Columns("type_changed", l.name, both \ Same1)
           Levels == Columns("levels_changed", l.name, Relevelled(l, r))
<1>1. _diff_table(l, r) = Rows \cup Removed \cup Added \cup Order \cup Retyped \cup Levels
  BY Zenon DEF _diff_table, One, Columns, Relevelled
<1> HIDE DEF Rows, Order, Removed, Added, Retyped, Levels
<1>2. _diff_table(l, r) = (Rows \cup Order \cup Removed \cup Added) \cup Retyped \cup Levels
  BY <1>1
<1> QED BY <1>2, Zenon DEF Rows, Order, Removed, Added, Retyped, Levels

\* Of two tables of one name, each part of the report has its mirror image.
LEMMA TableMirrors ==
  ASSUME NEW l, NEW r, l.name = r.name
  PROVE  _diff_table(l, r) = Mirror(_diff_table(r, l))
<1> DEFINE ls == _keyed_columns(l.columns)
           rs == _keyed_columns(r.columns)
           both == ToSet(ls) \cap ToSet(rs)
           Rows == One(l.rows = r.rows, "rows_changed", l.name)
           Order == One(InOrder(ls, rs), "columns_reordered", l.name)
           Removed == Columns("column_removed", l.name, ToSet(ls) \ both)
           Added == Columns("column_added", l.name, ToSet(rs) \ both)
           Retyped == Columns("type_changed", l.name, both \ Comparable(l, r))
           Levels == Columns("levels_changed", l.name, Relevelled(l, r))
           Rows2 == One(r.rows = l.rows, "rows_changed", r.name)
           Order2 == One(InOrder(rs, ls), "columns_reordered", r.name)
           Removed2 == Columns("column_removed", r.name, ToSet(rs) \ (ToSet(rs) \cap ToSet(ls)))
           Added2 == Columns("column_added", r.name, ToSet(ls) \ (ToSet(rs) \cap ToSet(ls)))
           Retyped2 == Columns("type_changed", r.name, (ToSet(rs) \cap ToSet(ls)) \ Comparable(r, l))
           Levels2 == Columns("levels_changed", r.name, Relevelled(r, l))
<1>1. _diff_table(l, r) = (Rows \cup Order \cup Removed \cup Added) \cup Retyped \cup Levels
  BY DiffTableIs, Zenon
<1>2. _diff_table(r, l) = (Rows2 \cup Order2 \cup Removed2 \cup Added2) \cup Retyped2 \cup Levels2
  BY DiffTableIs, Zenon
<1>3. ToSet(ls) \cap ToSet(rs) = ToSet(rs) \cap ToSet(ls)
  OBVIOUS
<1>4. Comparable(l, r) = Comparable(r, l)
  <2>1. Comparable(l, r) = { key \in ToSet(ls) \cap ToSet(rs) :
                               l.columns[Position(ls, key)].type = r.columns[Position(rs, key)].type }
    BY Zenon DEF Comparable
  <2>2. Comparable(r, l) = { key \in ToSet(rs) \cap ToSet(ls) :
                               r.columns[Position(rs, key)].type = l.columns[Position(ls, key)].type }
    BY Zenon DEF Comparable
  <2> HIDE DEF ls, rs
  <2> QED BY <2>1, <2>2
<1>5. Relevelled(l, r) = Relevelled(r, l)
  BY <1>4 DEF Relevelled
<1>6. /\ (InOrder(ls, rs) <=> InOrder(rs, ls)) /\ (l.rows = r.rows <=> r.rows = l.rows)
      /\ InOrder(ls, rs) \in BOOLEAN /\ InOrder(rs, ls) \in BOOLEAN
      /\ (l.rows = r.rows) \in BOOLEAN /\ (r.rows = l.rows) \in BOOLEAN
  <2> HIDE DEF ls, rs
  <2> QED BY DEF InOrder
<1>7. FlipKind("rows_changed") = "rows_changed" /\ FlipKind("columns_reordered") = "columns_reordered"
      /\ FlipKind("type_changed") = "type_changed" /\ FlipKind("levels_changed") = "levels_changed"
      /\ FlipKind("column_added") = "column_removed" /\ FlipKind("column_removed") = "column_added"
  BY DEF FlipKind
<1>8. Mirror(Rows2) = Rows /\ Mirror(Order2) = Order
  <2> HIDE DEF ls, rs
  <2>1. Mirror(Rows2) = One(r.rows = l.rows, "rows_changed", r.name)
    BY <1>7, MirrorIs, FlipEntry DEF One
  <2>2. Mirror(Order2) = One(InOrder(rs, ls), "columns_reordered", r.name)
    BY <1>7, MirrorIs, FlipEntry DEF One
  <2> QED BY <2>1, <2>2, <1>6 DEF One
<1>9. Mirror(Removed2) = Added /\ Mirror(Added2) = Removed /\ Mirror(Retyped2) = Retyped /\ Mirror(Levels2) = Levels
  <2>1. Mirror(Removed2) = Columns("column_added", r.name, ToSet(rs) \ (ToSet(rs) \cap ToSet(ls)))
    BY <1>7, MirrorOfColumns
  <2>2. Mirror(Added2) = Columns("column_removed", r.name, ToSet(ls) \ (ToSet(rs) \cap ToSet(ls)))
    BY <1>7, MirrorOfColumns
  <2>3. Mirror(Retyped2) = Columns("type_changed", r.name, (ToSet(rs) \cap ToSet(ls)) \ Comparable(r, l))
    BY <1>7, MirrorOfColumns
  <2>4. Mirror(Levels2) = Columns("levels_changed", r.name, Relevelled(r, l))
    BY <1>7, MirrorOfColumns
  <2> HIDE DEF ls, rs
  <2> QED BY <1>3, <1>4, <1>5, <2>1, <2>2, <2>3, <2>4
<1> HIDE DEF Rows, Order, Removed, Added, Retyped, Levels, Rows2, Order2, Removed2, Added2, Retyped2, Levels2
<1> DEFINE Four == Rows2 \cup Order2 \cup Removed2 \cup Added2
<1>10. Mirror(Four) = Rows \cup Order \cup Added \cup Removed
  BY <1>8, <1>9, MirrorOfUnion
<1>11. _diff_table(r, l) = Four \cup Retyped2 \cup Levels2
  BY <1>2
<1> HIDE DEF Four
<1>12. Mirror(_diff_table(r, l)) = Mirror(Four) \cup Retyped \cup Levels
  BY <1>9, <1>11, MirrorIs
<1> QED BY <1>1, <1>10, <1>12

\* And so has the report of two catalogs.
LEMMA StructureMirrors ==
  ASSUME NEW l, NEW n, IsList(l.tables, n), NEW r, NEW m, IsList(r.tables, m)
  PROVE  Structure(l, r) = Mirror(Structure(r, l))
<1> DEFINE L == TableNames(l.tables)
           R == TableNames(r.tables)
           T(name) == l.tables[Place(l.tables, name)]
           U(name) == r.tables[Place(r.tables, name)]
           Packed == One(l.compression = r.compression, "compression_changed", None)
           Packed2 == One(r.compression = l.compression, "compression_changed", None)
           Removed == Tables("table_removed", L \ (L \cap R))
           Added == Tables("table_added", R \ (L \cap R))
           Removed2 == Tables("table_removed", R \ (R \cap L))
           Added2 == Tables("table_added", L \ (R \cap L))
           D(name) == _diff_table(T(name), U(name))
           E(name) == _diff_table(U(name), T(name))
<1>1. Structure(l, r) = Packed \cup Removed \cup Added \cup UNION { D(name) : name \in L \cap R }
  BY Zenon DEF Structure, One, Tables
<1>2. Structure(r, l) = Packed2 \cup Removed2 \cup Added2 \cup UNION { E(name) : name \in R \cap L }
  BY Zenon DEF Structure, One, Tables
<1>3. ASSUME NEW name \in L \cap R PROVE D(name) = Mirror(E(name))
  <2>1. T(name).name = name
    BY PlaceIs
  <2>2. U(name).name = name
    BY PlaceIs
  <2> HIDE DEF T, U
  <2> QED BY <2>1, <2>2, TableMirrors
<1>4. FlipKind("compression_changed") = "compression_changed" /\ FlipKind("table_removed") = "table_added"
      /\ FlipKind("table_added") = "table_removed"
  BY DEF FlipKind
<1> HIDE DEF L, R, D, E
<1>5. L \cap R = R \cap L
  OBVIOUS
<1>6. Mirror(Packed2) = Packed
  <2>1. Mirror(Packed2) = One(r.compression = l.compression, "compression_changed", None)
    BY <1>4, MirrorIs, FlipEntry DEF One
  <2> QED BY <2>1 DEF One
<1>7. Mirror(Removed2) = Added /\ Mirror(Added2) = Removed
  <2>1. Mirror(Removed2) = Tables("table_added", R \ (R \cap L))
    BY <1>4, MirrorOfTables
  <2>2. Mirror(Added2) = Tables("table_removed", L \ (R \cap L))
    BY <1>4, MirrorOfTables
  <2> QED BY <1>5, <2>1, <2>2
<1> HIDE DEF Packed, Packed2, Removed, Removed2, Added, Added2
<1>8. Mirror(UNION { E(name) : name \in R \cap L }) = UNION { D(name) : name \in L \cap R }
  <2>1. \A name \in L \cap R : D(name) = { Flip(x) : x \in E(name) }
    BY <1>3, MirrorIs
  <2>2. { Flip(x) : x \in UNION { E(name) : name \in R \cap L } } = UNION { D(name) : name \in L \cap R }
    BY <2>1
  <2> QED BY <2>2, MirrorIs
<1> DEFINE C == UNION { E(name) : name \in R \cap L }
<1>9. Mirror(C) = UNION { D(name) : name \in L \cap R }
  BY <1>8
<1>10. Structure(r, l) = Packed2 \cup Removed2 \cup Added2 \cup C
  BY <1>2
<1> HIDE DEF C
<1>11. Mirror(Structure(r, l)) = Mirror(Packed2) \cup Mirror(Removed2) \cup Mirror(Added2) \cup Mirror(C)
  BY <1>10, MirrorOfUnion
<1> QED BY <1>1, <1>6, <1>7, <1>9, <1>11

\* No kind of difference is looked for from one side only: exchanging the files
\* exchanges what was added and removed in the report and nothing else.
THEOREM Mirrors == Spec => []Symmetric
<1>1. IInv => Symmetric
  <2> SUFFICES ASSUME IInv, pc \in {"read", "done"}, ~content
               PROVE  entries = Mirror(Structure(catalog.right, catalog.left))
    BY DEF Symmetric
  <2>1. entries = Structure(catalog.left, catalog.right)
    BY DEF IInv, EntriesSound
  <2>2. PICK f \in Contents : catalog.left = Seen(f)
    BY DEF IInv, EntriesSound, CatalogsSound, Taken, Later, Sides
  <2>3. PICK g \in Contents : catalog.right = Seen(g)
    BY DEF IInv, EntriesSound, CatalogsSound, Taken, Later, Sides
  <2>4. IsList(Seen(f).tables, Len(f.tables)) /\ IsList(Seen(g).tables, Len(g.tables))
    BY SeenIs
  <2> QED BY <2>1, <2>2, <2>3, <2>4, StructureMirrors
<1> QED BY <1>1, Invariant, PTL
=============================================================================
