----------------------- MODULE CollectionExportProofs -----------------------
(***************************************************************************)
(* Proofs about CollectionExport, for any files, any number of workers and  *)
(* any faults.                                                              *)
(***************************************************************************)
EXTENDS CollectionExport, FiniteSetTheorems, FunctionTheorems, TLAPS

\* All but the bound on the jobs at work.
Typed ==
  /\ job \in [Jobs -> {"waiting", "queued"} \cup Working \cup Ended]
  /\ litter \subseteq Jobs
  /\ \A name \in DOMAIN directory : directory[name] \in Jobs \cup {0}
  /\ collected \in 0 .. Len(Stems)
  /\ call \in {"running", "raising", "returned", "raised"}
  /\ pool \in {"none", "up", "broken"} /\ faults \in 0 .. MaxFaults

\* Without a pool only the job that the caller waits for can be at work.
OneAtATime == pool = "none" => In(Working) \subseteq {collected + 1}

WorkersBound == Cardinality(In(Working)) <= Workers

\* What the caller has taken is done.
PrefixDone ==
  /\ \A j \in 1 .. collected : job[j] = "done"
  /\ call = "returned" => collected = Len(Stems)

IInv == Typed /\ OneAtATime /\ WorkersBound /\ PrefixDone /\ NoLitter

\* What _unique_name is for.
DestinationsDistinct == \A i, j \in Jobs : Destinations[i] = Destinations[j] => i = j

\* Every table in the directory is that of a job which has ended, under its name.
Owned ==
  \A name \in DOMAIN directory :
    directory[name] # 0 =>
      /\ job[directory[name]] = "done"
      /\ name = Destinations[directory[name]]

-----------------------------------------------------------------------------
LEMMA JobsAreNumbers == Jobs = 1 .. Len(Stems) /\ Len(Stems) \in Nat
BY ExportAssumption DEF Jobs

LEMMA InIsFinite ==
  ASSUME NEW T
  PROVE  IsFiniteSet({ j \in Jobs : j \in T }) /\ IsFiniteSet(Jobs)
<1>1. IsFiniteSet(Jobs)
  BY JobsAreNumbers, FS_Interval
<1> QED BY <1>1, FS_Subset

\* The set of jobs at work, before and after a step.
LEMMA AtWorkIsFinite ==
  /\ IsFiniteSet(In(Working)) /\ IsFiniteSet(In(Working)')
  /\ Cardinality(In(Working)) \in Nat /\ Cardinality(In(Working)') \in Nat
<1>1. IsFiniteSet(Jobs)
  BY InIsFinite
<1>2. In(Working) \subseteq Jobs /\ In(Working)' \subseteq Jobs
  BY DEF In
<1>3. IsFiniteSet(In(Working)) /\ IsFiniteSet(In(Working)')
  BY <1>1, <1>2, FS_Subset
<1> QED BY <1>3, FS_CardinalityType

\* No more jobs at work than before: the bound stays.
LEMMA FewerAtWork ==
  ASSUME WorkersBound, In(Working)' \subseteq In(Working)
  PROVE  WorkersBound'
<1>1. Cardinality(In(Working)') <= Cardinality(In(Working))
  BY AtWorkIsFinite, FS_Subset
<1> QED BY <1>1, AtWorkIsFinite, ExportAssumption DEF WorkersBound

\* One job more at work, when there was room for it.
LEMMA OneMoreAtWork ==
  ASSUME NEW j, Cardinality(In(Working)) < Workers, In(Working)' \subseteq In(Working) \cup {j}
  PROVE  WorkersBound'
<1>1. /\ IsFiniteSet(In(Working) \cup {j})
      /\ Cardinality(In(Working) \cup {j}) <= Cardinality(In(Working)) + 1
  BY AtWorkIsFinite, FS_AddElement
<1>2. Cardinality(In(Working) \cup {j}) \in Nat
  BY <1>1, FS_CardinalityType
<1>3. Cardinality(In(Working)') <= Cardinality(In(Working) \cup {j})
  BY <1>1, FS_Subset
<1> QED BY <1>1, <1>2, <1>3, AtWorkIsFinite, ExportAssumption DEF WorkersBound

-----------------------------------------------------------------------------
LEMMA InitHolds == Init => IInv
<1> SUFFICES ASSUME Init PROVE IInv
  OBVIOUS
<1>1. In(Working) = {}
  BY DEF Init, In, Working
<1>2. Cardinality(In(Working)) = 0
  BY <1>1, FS_EmptySet
<1>3. WorkersBound /\ OneAtATime
  BY <1>1, <1>2, ExportAssumption DEF WorkersBound, OneAtATime
<1>4. Typed
  BY JobsAreNumbers, ExportAssumption DEF Init, Typed, Working, Ended
<1>5. PrefixDone /\ NoLitter
  BY DEF Init, PrefixDone, NoLitter
<1> QED BY <1>3, <1>4, <1>5 DEF IInv

\* A job that moves on and was at work, or does not come to work, leaves the
\* number of jobs at work bounded.
LEMMA MovesOn ==
  ASSUME IInv, NEW j \in Jobs, NEW to \in {"queued"} \cup Working \cup Ended,
         job[j] \notin Ended,
         to \in Working => job[j] \in Working,
         job' = [job EXCEPT ![j] = to],
         pool' # "none" \/ pool' = pool, UNCHANGED <<collected, call>>
  PROVE  WorkersBound' /\ OneAtATime' /\ PrefixDone' /\ In(Working)' \subseteq In(Working)
<1>1. In(Working)' \subseteq In(Working)
  BY DEF IInv, Typed, In
<1>2. WorkersBound'
  BY <1>1, FewerAtWork DEF IInv
<1>3. OneAtATime'
  BY <1>1 DEF IInv, OneAtATime
<1>4. PrefixDone'
  BY JobsAreNumbers DEF IInv, Typed, PrefixDone, Ended
<1> QED BY <1>1, <1>2, <1>3, <1>4

\* A job that comes to work, when no other is or there is room.
LEMMA Starts ==
  ASSUME IInv, NEW j \in Jobs, job[j] \in {"waiting", "queued"},
         job' = [job EXCEPT ![j] = "reading"],
         UNCHANGED <<litter, directory, collected, call, pool, faults>>,
         pool = "none" => j = collected + 1,
         Cardinality(In(Working)) < Workers
  PROVE  IInv'
<1>1. In(Working)' \subseteq In(Working) \cup {j}
  BY DEF IInv, Typed, In
<1>2. WorkersBound'
  BY <1>1, OneMoreAtWork
<1>3. OneAtATime'
  BY <1>1 DEF IInv, OneAtATime
<1>4. PrefixDone'
  BY JobsAreNumbers DEF IInv, Typed, PrefixDone
<1>5. Typed'
  BY DEF IInv, Typed, Working
<1>6. NoLitter'
  BY DEF IInv, Typed, NoLitter, In
<1> QED BY <1>2, <1>3, <1>4, <1>5, <1>6 DEF IInv

LEMMA StartNextKeeps ==
  ASSUME IInv, NEW j \in Jobs, StartNext(j)
  PROVE  IInv'
<1>1. In(Working) = {}
  BY DEF IInv, OneAtATime, In, StartNext, Move, Working
<1>2. Cardinality(In(Working)) < Workers
  BY <1>1, FS_EmptySet, ExportAssumption
<1> QED BY <1>2, Starts DEF StartNext, Move

\* The steps of one job keep the invariant.
LEMMA WorkKeeps ==
  ASSUME IInv, NEW j \in Jobs, Work(j)
  PROVE  IInv'
<1>1. CASE Queue(j)
  <2>1. WorkersBound' /\ OneAtATime' /\ PrefixDone'
    BY <1>1, MovesOn DEF Queue, Move, Working, Ended
  <2>2. Typed' /\ NoLitter'
    BY <1>1 DEF IInv, Typed, NoLitter, In, Queue, Move
  <2> QED BY <2>1, <2>2 DEF IInv
<1>2. CASE StartQueued(j)
  BY <1>2, Starts DEF StartQueued, Move
<1>3. CASE StartNext(j)
  BY <1>3, StartNextKeeps
<1>4. CASE ReadAndAlign(j)
  <2>1. WorkersBound' /\ OneAtATime' /\ PrefixDone'
    BY <1>4, MovesOn DEF ReadAndAlign, Move, Working, Ended
  <2>2. Typed' /\ NoLitter'
    BY <1>4 DEF IInv, Typed, NoLitter, In, ReadAndAlign, Move, Working, Ended
  <2> QED BY <2>1, <2>2 DEF IInv
<1>5. CASE MakeTemporary(j)
  <2>1. WorkersBound' /\ OneAtATime' /\ PrefixDone'
    BY <1>5, MovesOn DEF MakeTemporary, Move, Working, Ended
  <2>2. Typed' /\ NoLitter'
    BY <1>5 DEF IInv, Typed, NoLitter, In, MakeTemporary, Move, Working
  <2> QED BY <2>1, <2>2 DEF IInv
<1>6. CASE WriteTable(j)
  <2>1. WorkersBound' /\ OneAtATime' /\ PrefixDone'
    BY <1>6, MovesOn DEF WriteTable, Move, Working, Ended
  <2>2. Typed' /\ NoLitter'
    BY <1>6 DEF IInv, Typed, NoLitter, In, WriteTable, Move, Working
  <2> QED BY <2>1, <2>2 DEF IInv
<1>7. CASE Publish(j)
  <2>1. WorkersBound' /\ OneAtATime' /\ PrefixDone'
    BY <1>7, MovesOn DEF Publish, Move, Working, Ended
  <2>2. \A name \in DOMAIN directory' : directory'[name] \in Jobs \cup {0}
    BY <1>7 DEF IInv, Typed, Publish
  <2>3. Typed'
    BY <1>7, <2>2 DEF IInv, Typed, Publish, Move, Ended
  <2>4. NoLitter'
    BY <1>7 DEF IInv, Typed, NoLitter, In, Publish, Move
  <2> QED BY <2>1, <2>3, <2>4 DEF IInv
<1>8. CASE Terminate(j)
  <2>1. WorkersBound' /\ OneAtATime' /\ PrefixDone'
    BY <1>8, MovesOn DEF Terminate, Working, Ended
  <2>2. Typed' /\ NoLitter'
    BY <1>8 DEF IInv, Typed, NoLitter, In, Terminate, Ended
  <2> QED BY <2>1, <2>2 DEF IInv
<1> QED BY <1>1, <1>2, <1>3, <1>4, <1>5, <1>6, <1>7, <1>8 DEF Work

\* So do refused writes, interrupts and dying workers.
LEMMA FaultsKeep ==
  ASSUME IInv, NEW j \in Jobs, Refuse(j) \/ Interrupt(j) \/ Die(j)
  PROVE  IInv'
<1>1. faults' \in 0 .. MaxFaults
  BY ExportAssumption DEF IInv, Typed, Refuse, Interrupt, Die, Fault
<1>2. CASE Refuse(j)
  <2>1. WorkersBound' /\ OneAtATime' /\ PrefixDone'
    BY <1>2, MovesOn DEF Refuse, Fault, Working, Ended
  <2>2. Typed' /\ NoLitter'
    BY <1>1, <1>2 DEF IInv, Typed, NoLitter, In, Refuse, Fault, Ended
  <2> QED BY <2>1, <2>2 DEF IInv
<1>3. CASE Interrupt(j)
  <2>1. WorkersBound' /\ OneAtATime' /\ PrefixDone'
    BY <1>3, MovesOn DEF Interrupt, Fault, Working, Ended
  <2>2. Typed' /\ NoLitter'
    BY <1>1, <1>3 DEF IInv, Typed, NoLitter, In, Interrupt, Fault, Ended
  <2> QED BY <2>1, <2>2 DEF IInv
<1>4. CASE Die(j)
  <2>1. WorkersBound' /\ OneAtATime' /\ PrefixDone'
    BY <1>4, MovesOn DEF Die, Fault, Working, Ended
  <2>2. Typed' /\ NoLitter'
    BY <1>1, <1>4 DEF IInv, Typed, NoLitter, In, Die, Fault, Ended
  <2> QED BY <2>1, <2>2 DEF IInv
<1> QED BY <1>2, <1>3, <1>4

\* And the steps of the caller.
LEMMA GoKeeps ==
  ASSUME IInv, Go
  PROVE  IInv'
<1>1. CASE TakeResult
  <2>1. In(Working)' = In(Working) /\ In({"temporary", "written", "lost"})' = In({"temporary", "written", "lost"})
    BY <1>1 DEF TakeResult, In
  <2>2. WorkersBound'
    BY <2>1, FewerAtWork DEF IInv
  <2>3. OneAtATime'
    <3>1. ASSUME pool = "none" PROVE In(Working) = {}
      BY <1>1, <3>1 DEF IInv, OneAtATime, In, TakeResult, Working
    <3> QED BY <1>1, <2>1, <3>1 DEF OneAtATime, TakeResult
  <2>4. PrefixDone' /\ Typed'
    BY <1>1, JobsAreNumbers DEF IInv, Typed, PrefixDone, TakeResult
  <2>5. NoLitter'
    BY <1>1, <2>1 DEF IInv, NoLitter, TakeResult
  <2> QED BY <2>2, <2>3, <2>4, <2>5 DEF IInv
<1>2. CASE TakeFailure
  <2>1. In(Working)' \subseteq In(Working)
    BY <1>2 DEF IInv, Typed, In, TakeFailure, Working
  <2>2. WorkersBound'
    BY <2>1, FewerAtWork DEF IInv
  <2>3. OneAtATime'
    BY <1>2, <2>1 DEF IInv, OneAtATime, TakeFailure
  <2>4. PrefixDone'
    BY <1>2, JobsAreNumbers DEF IInv, Typed, PrefixDone, TakeFailure
  <2>5. Typed' /\ NoLitter'
    BY <1>2 DEF IInv, Typed, NoLitter, In, TakeFailure, Ended
  <2> QED BY <2>2, <2>3, <2>4, <2>5 DEF IInv
<1>3. CASE Finish
  <2>1. In(Working)' \subseteq In(Working)
    BY <1>3 DEF Finish, In
  <2>2. WorkersBound'
    BY <2>1, FewerAtWork DEF IInv
  <2>3. OneAtATime'
    BY <1>3, <2>1 DEF IInv, OneAtATime, Finish
  <2>4. PrefixDone' /\ Typed'
    BY <1>3 DEF IInv, Typed, PrefixDone, Finish
  <2>5. NoLitter'
    BY <1>3 DEF IInv, NoLitter, In, Finish
  <2> QED BY <2>2, <2>3, <2>4, <2>5 DEF IInv
<1> QED BY <1>1, <1>2, <1>3 DEF Go

LEMMA StutterKeeps ==
  ASSUME IInv, UNCHANGED vars
  PROVE  IInv'
<1>1. In(Working)' = In(Working)
  BY DEF vars, In
<1> QED BY <1>1 DEF IInv, Typed, OneAtATime, WorkersBound, PrefixDone, NoLitter, In, vars

LEMMA NextKeeps == IInv /\ [Next]_vars => IInv'
BY WorkKeeps, FaultsKeep, GoKeeps, StutterKeeps DEF Next

THEOREM Invariant == Spec => []IInv
BY InitHolds, NextKeeps, PTL DEF Spec

-----------------------------------------------------------------------------
\* The state of an export is well typed, and never more jobs are at work than
\* the pool has workers, or than one without a pool.
THEOREM TypeCorrect == Spec => []TypeOK
<1>1. IInv => TypeOK
  BY DEF IInv, Typed, WorkersBound, TypeOK
<1> QED BY <1>1, Invariant, PTL

\* A call returns only when every job has put its file in place.
THEOREM Complete == Spec => []ReturnedComplete
<1>1. IInv => ReturnedComplete
  BY JobsAreNumbers DEF IInv, PrefixDone, ReturnedComplete
<1> QED BY <1>1, Invariant, PTL

\* A temporary file belongs to a job at work, interrupted or killed.
THEOREM LeavesNoLitter == Spec => []NoLitter
<1>1. IInv => NoLitter
  BY DEF IInv
<1> QED BY <1>1, Invariant, PTL

-----------------------------------------------------------------------------
(* The destinations.  They are defined one after another, so that they exist *)
(* and differ is shown by induction: for the least job where it would fail.   *)

\* A set of numbers has a least one: the intervals below its members are finite
\* sets, and among finite sets one is least.
LEMMA LeastNumber ==
  ASSUME NEW T, T \subseteq Nat, T # {}
  PROVE  \E x \in T : \A y \in T : x <= y
<1> DEFINE Intervals == {1 .. n : n \in T}
<1>1. IsWellFoundedOn(StrictSubsetOrdering(Nat), FiniteSubsetsOf(Nat))
  BY FS_StrictSubsetOrderingWellFounded
<1>2. Intervals \subseteq FiniteSubsetsOf(Nat)
  <2> SUFFICES ASSUME NEW n \in T PROVE 1 .. n \in FiniteSubsetsOf(Nat)
    OBVIOUS
  <2>1. IsFiniteSet(1 .. n)
    BY FS_Interval
  <2>2. 1 .. n \in SUBSET Nat
    OBVIOUS
  <2> QED BY <2>1, <2>2 DEF FiniteSubsetsOf
<1>3. Intervals # {}
  OBVIOUS
<1> HIDE DEF Intervals
<1>4. PICK s \in Intervals : \A u \in Intervals : ~(<<u, s>> \in StrictSubsetOrdering(Nat))
  BY <1>1, <1>2, <1>3, WFMin
<1>5. PICK x \in T : s = 1 .. x
  BY <1>4 DEF Intervals
<1>6. ASSUME NEW y \in T, y < x PROVE FALSE
  <2>1. 1 .. y \in Intervals
    BY DEF Intervals
  <2>2. 1 .. y \subseteq 1 .. x /\ x \in 1 .. x /\ x \notin 1 .. y
    BY <1>6
  <2>3. 1 .. y \in SUBSET Nat /\ 1 .. x \in SUBSET Nat /\ 1 .. y # 1 .. x
    BY <2>2
  <2>4. <<1 .. y, 1 .. x>> \in StrictSubsetOrdering(Nat)
    BY <2>2, <2>3 DEF StrictSubsetOrdering
  <2> QED BY <1>4, <1>5, <2>1, <2>4
<1> QED BY <1>5, <1>6

\* d names the first n jobs as the code does.
Naming(d, n) == d = [j \in 1 .. n |-> _unique_name(Stems[j], {d[i] : i \in 1 .. j - 1})]

\* A naming of n jobs goes on to the next one.
LEMMA NamingGoesOn ==
  ASSUME NEW n \in Nat, NEW d, Naming(d, n)
  PROVE  \E g : Naming(g, n + 1)
<1> DEFINE U(j, used) == _unique_name(Stems[j], used)
<1> DEFINE g == [j \in 1 .. n + 1 |->
                   IF j = n + 1 THEN U(n + 1, {d[i] : i \in 1 .. n}) ELSE d[j]]
<1>1. d = [j \in 1 .. n |-> U(j, {d[i] : i \in 1 .. j - 1})]
  BY Zenon DEF Naming
<1> SUFFICES g = [j \in 1 .. n + 1 |-> U(j, {g[i] : i \in 1 .. j - 1})]
  BY Zenon DEF Naming
<1> HIDE DEF U
<1>2. \A i \in 1 .. n : g[i] = d[i]
  OBVIOUS
<1>3. ASSUME NEW j \in 1 .. n + 1
      PROVE  {g[i] : i \in 1 .. j - 1} = {d[i] : i \in 1 .. j - 1}
  <2>1. \A i \in 1 .. j - 1 : g[i] = d[i]
    BY <1>2
  <2> HIDE DEF g
  <2> QED BY <2>1
<1>4. ASSUME NEW j \in 1 .. n + 1
      PROVE  g[j] = U(j, {d[i] : i \in 1 .. j - 1})
  <2>1. CASE j = n + 1
    BY <2>1
  <2>2. CASE j # n + 1
    <3>1. j \in 1 .. n
      BY <2>2
    <3> QED BY <1>1, <1>2, <3>1
  <2> QED BY <2>1, <2>2
<1>5. \A j \in 1 .. n + 1 : g[j] = U(j, {g[i] : i \in 1 .. j - 1})
  BY <1>3, <1>4
<1>6. g = [j \in 1 .. n + 1 |-> g[j]]
  OBVIOUS
<1> HIDE DEF g
<1> QED BY <1>5, <1>6

LEMMA NamingExists ==
  ASSUME NEW n \in Nat
  PROVE  \E d : Naming(d, n)
<1> DEFINE T == {m \in Nat : ~ \E d : Naming(d, m)}
<1>1. SUFFICES T = {}
  OBVIOUS
<1>2. SUFFICES ASSUME T # {} PROVE FALSE
  OBVIOUS
<1>3. PICK m \in T : \A k \in T : m <= k
  BY <1>2, LeastNumber
<1>4. CASE m = 0
  <2>1. Naming([j \in 1 .. 0 |-> 0], 0)
    BY DEF Naming
  <2> QED BY <1>3, <1>4, <2>1
<1>5. CASE m # 0
  <2>1. m - 1 \in Nat /\ (m - 1) + 1 = m /\ m - 1 \notin T
    BY <1>3, <1>5
  <2>2. \E d : Naming(d, m - 1)
    BY <2>1
  <2>3. \E d : Naming(d, m)
    BY <2>1, <2>2, NamingGoesOn
  <2> QED BY <1>3, <2>3
<1> QED BY <1>4, <1>5

\* What the definition of the destinations says.
LEMMA DestinationsAre ==
  ASSUME NEW j \in Jobs
  PROVE  Destinations[j] = _unique_name(Stems[j], {Destinations[i] : i \in 1 .. j - 1})
<1>1. Jobs = 1 .. Len(Stems) /\ Len(Stems) \in Nat
  BY JobsAreNumbers
<1>2. \E d : d = [k \in Jobs |-> _unique_name(Stems[k], {d[i] : i \in 1 .. k - 1})]
  <2>1. PICK d : Naming(d, Len(Stems))
    BY <1>1, NamingExists
  <2> QED BY <1>1, <2>1, Zenon DEF Naming
<1>3. Destinations = [k \in Jobs |-> _unique_name(Stems[k], {Destinations[i] : i \in 1 .. k - 1})]
  BY <1>2, Zenon DEF Destinations
<1> QED BY <1>3, Zenon

\* _unique_name finds a name that is not in use: there are more numbers to try
\* than names in use.
LEMMA UniqueNameIsNew ==
  ASSUME NEW name \in Seq(Nat), NEW used, IsFiniteSet(used)
  PROVE  _unique_name(name, used) \notin used
<1> DEFINE c == Cardinality(used)
           K == 2 .. c + 2
           T == {k \in K : Append(name, k) \notin used}
<1>1. c \in Nat
  BY FS_CardinalityType
<1>2. CASE name \notin used
  BY <1>2 DEF _unique_name
<1>3. CASE name \in used
  <2>1. ASSUME T = {} PROVE FALSE
    <3> DEFINE f == [k \in K |-> Append(name, k)]
    <3>1. f \in [K -> used]
      BY <2>1
    <3>2. IsFiniteSet(K) /\ Cardinality(K) = c + 1
      <4>1. IsFiniteSet(K) /\ Cardinality(K) = IF 2 > c + 2 THEN 0 ELSE (c + 2) - 2 + 1
        <5>1. 2 \in Int /\ c + 2 \in Int
          BY <1>1
        <5> QED BY <5>1, FS_Interval, Zenon
      <4> QED BY <1>1, <4>1
    <3>3. \E x, y \in K : x # y /\ f[x] = f[y]
      <4>1. c < Cardinality(K)
        BY <1>1, <3>2
      <4> HIDE DEF f, K
      <4> QED BY <3>1, <3>2, <4>1, FS_PigeonHole
    <3>4. PICK x \in K, y \in K : x # y /\ Append(name, x) = Append(name, y)
      BY <3>3
    <3>5. Append(name, x)[Len(name) + 1] = x /\ Append(name, y)[Len(name) + 1] = y
      BY <1>1
    <3> QED BY <3>4, <3>5
  <2>2. T \subseteq Nat
    BY <1>1
  <2>3. PICK k \in T : \A i \in T : k <= i
    BY <2>1, <2>2, LeastNumber
  <2>4. \A i \in 2 .. k - 1 : Append(name, i) \in used
    BY <1>1, <2>3
  <2>5. \E m \in K : Append(name, m) \notin used /\ \A i \in 2 .. m - 1 : Append(name, i) \in used
    BY <2>3, <2>4
  <2>6. _unique_name(name, used) =
          Append(name, CHOOSE m \in K :
                         Append(name, m) \notin used /\ \A i \in 2 .. m - 1 : Append(name, i) \in used)
    BY <1>3, Zenon DEF _unique_name
  <2> QED BY <2>5, <2>6, Zenon
<1> QED BY <1>2, <1>3

LEMMA DestinationsApart == DestinationsDistinct
<1>1. Jobs = 1 .. Len(Stems) /\ Len(Stems) \in Nat
  BY JobsAreNumbers
<1>2. ASSUME NEW i \in Jobs, NEW j \in Jobs, i < j PROVE Destinations[i] # Destinations[j]
  <2> DEFINE used == {Destinations[k] : k \in 1 .. j - 1}
             f    == [k \in 1 .. j - 1 |-> Destinations[k]]
  <2>1. IsFiniteSet(used)
    <3>1. IsFiniteSet(1 .. j - 1)
      BY <1>1, FS_Interval
    <3>2. f \in Surjection(1 .. j - 1, used)
      BY Fun_IsSurj
    <3> HIDE DEF f, used
    <3> QED BY <3>1, <3>2, FS_Surjection
  <2>2. Stems[j] \in Seq(Nat)
    BY <1>1, ExportAssumption
  <2>3. Destinations[i] \in used
    BY <1>1, <1>2
  <2>4. Destinations[j] = _unique_name(Stems[j], used)
    BY DestinationsAre
  <2> HIDE DEF used
  <2> QED BY <2>1, <2>2, <2>3, <2>4, UniqueNameIsNew
<1> QED BY <1>1, <1>2 DEF DestinationsDistinct

-----------------------------------------------------------------------------
\* A step takes no job out of its end, and changes the directory only by
\* putting the table of a written job under its name.
LEMMA OwnedKeeps ==
  ASSUME IInv, Owned, [Next]_vars
  PROVE  /\ Owned'
         /\ \A name \in DOMAIN directory :
              /\ name \in DOMAIN directory'
              /\ directory[name] # 0 => directory'[name] = directory[name]
<1>1. ASSUME NEW i \in Jobs, job[i] = "done" PROVE job'[i] = "done"
  <2> USE <1>1
  <2>1. ASSUME NEW j \in Jobs, Work(j) \/ Refuse(j) \/ Interrupt(j) \/ Die(j) PROVE job'[i] = "done"
    BY <2>1 DEF IInv, Typed, Work, Queue, StartQueued, StartNext, ReadAndAlign, MakeTemporary, WriteTable,
         Publish, Terminate, Refuse, Interrupt, Die, Move, Fault, Working
  <2>2. CASE Go
    BY <2>2 DEF IInv, Typed, Go, TakeResult, TakeFailure, Finish
  <2>3. CASE UNCHANGED vars
    BY <2>3 DEF vars
  <2> QED BY <2>1, <2>2, <2>3 DEF Next
<1>2. ASSUME UNCHANGED directory
      PROVE  Owned'
  BY <1>1, <1>2 DEF IInv, Typed, Owned
<1>3. ASSUME NEW j \in Jobs, Publish(j)
      PROVE  /\ Owned'
             /\ \A name \in DOMAIN directory :
                  /\ name \in DOMAIN directory'
                  /\ directory[name] # 0 => directory'[name] = directory[name]
  <2> USE <1>3
  <2>1. job[j] = "written" /\ job'[j] = "done" /\ j # 0
    BY JobsAreNumbers DEF Publish, Move, IInv, Typed
  <2>2. /\ DOMAIN directory' = DOMAIN directory \cup {Destinations[j]}
        /\ directory'[Destinations[j]] = j
        /\ \A name \in DOMAIN directory : name # Destinations[j] => directory'[name] = directory[name]
    BY DEF Publish
  <2>3. ASSUME NEW name \in DOMAIN directory, directory[name] # 0 PROVE name # Destinations[j]
    <3>1. directory[name] \in Jobs /\ job[directory[name]] = "done" /\ name = Destinations[directory[name]]
      BY <2>3 DEF IInv, Typed, Owned
    <3> QED BY <2>1, <3>1, DestinationsApart DEF DestinationsDistinct
  <2>4. ASSUME NEW name \in DOMAIN directory', directory'[name] # 0
        PROVE  job'[directory'[name]] = "done" /\ name = Destinations[directory'[name]]
    <3>1. CASE name = Destinations[j]
      BY <2>1, <2>2, <3>1
    <3>2. CASE name # Destinations[j]
      <4>1. name \in DOMAIN directory /\ directory'[name] = directory[name]
        BY <2>2, <3>2
      <4>2. directory[name] \in Jobs
        BY <2>4, <4>1 DEF IInv, Typed
      <4> QED BY <1>1, <2>4, <4>1, <4>2 DEF Owned
    <3> QED BY <3>1, <3>2
  <2>5. Owned'
    BY <2>4 DEF Owned
  <2> QED BY <2>2, <2>3, <2>5
<1>4. (\E j \in Jobs : Publish(j)) \/ UNCHANGED directory
  BY DEF Next, Go, Work, Queue, StartQueued, StartNext, ReadAndAlign, MakeTemporary, WriteTable, Terminate,
     Refuse, Interrupt, Die, TakeResult, TakeFailure, Finish, vars
<1> QED BY <1>2, <1>3, <1>4

\* A job that is done keeps its file, and one that ends well gets it.
LEMMA FiledKeeps ==
  ASSUME IInv, Owned, OwnFile, [Next]_vars
  PROVE  OwnFile'
<1>1. ASSUME NEW i \in Jobs, job[i] = "done"
      PROVE  Destinations[i] \in DOMAIN directory' /\ directory'[Destinations[i]] = i
  <2>1. Destinations[i] \in DOMAIN directory /\ directory[Destinations[i]] = i /\ i # 0
    BY <1>1, JobsAreNumbers DEF OwnFile, In
  <2> QED BY <2>1, OwnedKeeps
<1>2. ASSUME NEW i \in Jobs, job'[i] = "done", job[i] # "done"
      PROVE  Publish(i)
  <2> USE <1>2
  <2>1. ASSUME NEW j \in Jobs, Work(j) \/ Refuse(j) \/ Interrupt(j) \/ Die(j) PROVE Publish(i)
    <3>1. CASE j = i
      <4>1. job[i] \notin {"done"} /\ job'[i] = "done" /\ DOMAIN job = Jobs
        BY DEF IInv, Typed
      <4>2. ~ (Refuse(i) \/ Interrupt(i) \/ Die(i) \/ Terminate(i))
        BY <4>1 DEF Refuse, Interrupt, Die, Terminate
      <4>3. ~ (Queue(i) \/ StartQueued(i) \/ StartNext(i))
        BY <4>1 DEF Queue, StartQueued, StartNext, Move
      <4>4. ~ (ReadAndAlign(i) \/ MakeTemporary(i) \/ WriteTable(i))
        BY <4>1 DEF ReadAndAlign, MakeTemporary, WriteTable, Move
      <4> QED BY <2>1, <3>1, <4>2, <4>3, <4>4 DEF Work
    <3>2. CASE j # i
      <4>1. \E state : job' = [job EXCEPT ![j] = state]
        <5>1. CASE Refuse(j) \/ Interrupt(j) \/ Die(j) \/ Terminate(j)
          BY <5>1 DEF Refuse, Interrupt, Die, Terminate
        <5>2. CASE Queue(j) \/ StartQueued(j) \/ StartNext(j)
          BY <5>2 DEF Queue, StartQueued, StartNext, Move
        <5>3. CASE ReadAndAlign(j) \/ MakeTemporary(j) \/ WriteTable(j) \/ Publish(j)
          BY <5>3 DEF ReadAndAlign, MakeTemporary, WriteTable, Publish, Move
        <5> QED BY <2>1, <5>1, <5>2, <5>3 DEF Work
      <4>2. job'[i] = job[i]
        BY <3>2, <4>1 DEF IInv, Typed
      <4> QED BY <4>2
    <3> QED BY <3>1, <3>2
  <2>2. ~ Go
    BY DEF IInv, Typed, Go, TakeResult, TakeFailure, Finish
  <2>3. ~ UNCHANGED vars
    BY DEF vars
  <2> QED BY <2>1, <2>2, <2>3 DEF Next
<1>3. ASSUME NEW i \in Jobs, Publish(i)
      PROVE  Destinations[i] \in DOMAIN directory' /\ directory'[Destinations[i]] = i
  BY <1>3 DEF Publish
<1>4. ASSUME NEW i \in Jobs, job'[i] = "done"
      PROVE  Destinations[i] \in DOMAIN directory' /\ directory'[Destinations[i]] = i
  BY <1>1, <1>2, <1>3, <1>4
<1> QED BY <1>4 DEF OwnFile, In

\* Each job that has ended well has its table in a file of its own, whatever
\* the names of the files and for any order in which jobs end.
THEOREM FilesApart == Spec => []OwnFile
<1> DEFINE Filed == IInv /\ Owned /\ OwnFile
<1>1. Init => Filed
  <2>1. Init => Owned
    BY DEF Init, Owned
  <2>2. Init => OwnFile
    BY DEF Init, OwnFile, In
  <2> QED BY <2>1, <2>2, InitHolds
<1>2. Filed /\ [Next]_vars => Filed'
  BY NextKeeps, OwnedKeeps, FiledKeeps
<1>3. Filed => OwnFile
  OBVIOUS
<1> HIDE DEF Filed
<1> QED BY <1>1, <1>2, <1>3, PTL DEF Spec

\* No step takes a file out of the directory or puts another table in the
\* place of one that this call has written.
THEOREM TablesStay == Spec => NeverMissing
<1> DEFINE Kept == IInv /\ Owned
<1> DEFINE Stays == \A name \in DOMAIN directory :
                      /\ name \in DOMAIN directory'
                      /\ directory[name] # 0 => directory'[name] = directory[name]
<1>1. Init => Kept
  <2>1. Init => Owned
    BY DEF Init, Owned
  <2> QED BY <2>1, InitHolds
<1>2. Kept /\ [Next]_vars => Kept' /\ Stays
  BY NextKeeps, OwnedKeeps
<1>3. (Kept /\ [Next]_vars => Kept') /\ (Kept /\ [Next]_vars => [Stays]_vars)
  BY <1>2
<1>4. NeverMissing <=> [][Stays]_vars
  BY DEF NeverMissing
<1> HIDE DEF Kept, Stays
<1> QED BY <1>1, <1>3, <1>4, PTL DEF Spec
=============================================================================
