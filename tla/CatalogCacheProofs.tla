-------------------------- MODULE CatalogCacheProofs --------------------------
(***************************************************************************)
(* Proofs about CatalogCache, for any number of callers, files, sidecars and  *)
(* writes by other programs: every catalog served or stored is one true state *)
(* of its file, and listing a file is as if done at one instant.              *)
(***************************************************************************)
EXTENDS CatalogCache, TLAPS

Contents == Catalogs \cup {None, Partial}

\* What the other programs have done: the present state of every file is among
\* the past ones, of which no two bear one stamp.
FilesSound ==
  /\ \A s \in Sources : stamp[s] <= clock /\ Was(s, stamp[s], Current(s)) \in past
  /\ \A w \in past : w.stamp <= clock
  /\ \A v, w \in past : v.path = w.path /\ v.stamp = w.stamp => v.text = w.text

Scans == {"inspect", "scan", "scanning", "restat"}
Searches == {"lookup", "match", "stat"} \cup Scans
Saves == {"mkstemp", "dump", "replace"}

\* While the file of call c keeps the stamp that c has taken, what c has seen
\* of it so far is what it is.
SeenSound(c) ==
  c.before = stamp[c.src] =>
    /\ c.pc \in {"scan", "scanning", "restat"} => c.magic = Current(c.src).head
    /\ c.pc = "scanning" => c.fd = Len(inode[c.src]) /\ c.head = Current(c.src).head
    /\ c.pc = "restat" => c.text = Current(c.src)

SeenTyped(c) ==
  /\ c.before \in 0 .. MaxChanges /\ c.before <= clock
  /\ c.pc \in {"scan", "scanning", "restat"} => c.magic \in 0 .. MaxChanges
  /\ c.pc = "scanning" => c.head \in 0 .. MaxChanges /\ c.fd \in 1 .. Len(inode[c.src])
  /\ c.pc = "restat" => c.text \in Texts

\* A call knows its file from its start to its end, and a true catalog from
\* the time that it has found one.
CallSound(c) ==
  /\ c.pc \in Searches \cup Saves \cup {"done", "convert"} => c.src \in Sources /\ c.codec \in Codecs
  /\ c.pc = "idle" => c.src = None
  /\ c.pc \in Searches \cup {"idle"} => c.cat = None
  /\ c.pc \in Saves \cup {"done", "convert"} => c.cat \in Catalogs
  /\ c.cat # None => True(c.cat)
  /\ c.pc = "match" => c.held \in Catalogs /\ True(c.held)
  /\ c.pc \in Scans => SeenTyped(c) /\ SeenSound(c)

\* A temporary file belongs to a save in progress, or to one that died.
TempSound(c, t) ==
  /\ Whole(t) => True(t)
  /\ c.pc = "replace" => t = c.cat
  /\ c.pc \notin {"dump", "replace", "dead"} => t = None

SidecarsSound == \A k \in Sidecars : Whole(sidecar[k]) => True(sidecar[k])

IInv ==
  /\ TypeOK /\ FilesSound /\ SidecarsSound
  /\ \A p \in Callers : CallSound(call[p]) /\ TempSound(call[p], temp[p])

-----------------------------------------------------------------------------
LEMMA CurrentTyped ==
  ASSUME TypeOK, NEW s \in Sources
  PROVE  /\ Current(s) \in Texts /\ inode[s] \in Seq(Texts)
         /\ Len(inode[s]) \in Nat /\ Len(inode[s]) >= 1
<1>1. inode[s] \in Seq(Texts) /\ inode[s] # <<>>
  BY DEF TypeOK
<1>2. Len(inode[s]) \in Nat /\ Len(inode[s]) >= 1
  BY <1>1
<1> QED BY <1>1, <1>2 DEF Current

LEMMA InitHolds == Init => IInv
<1> SUFFICES ASSUME Init PROVE IInv
  OBVIOUS
<1> DEFINE nought == [head |-> 0, tail |-> 0]
<1>1. nought \in Texts /\ <<nought>> \in Seq(Texts) /\ <<nought>> # <<>>
  BY CacheAssumption DEF Texts
<1>2. \A s \in Sources, c \in Codecs : Unsaved(s, c) \in Catalogs
  BY <1>1, CacheAssumption DEF Unsaved, RDSCatalog, Catalogs
<1>3. Idle \in CallType
  BY DEF Idle, CallType, Steps, Ended
<1>4. TypeOK
  <2>1. clock \in 0 .. MaxChanges /\ stamp \in [Sources -> 0 .. MaxChanges] /\ rewrite \subseteq Sources
    BY CacheAssumption DEF Init
  <2>2. inode \in [Sources -> Seq(Texts) \ {<<>>}]
    BY <1>1 DEF Init
  <2>3. past \subseteq [path : Sources, stamp : 0 .. MaxChanges, text : Texts]
    BY <1>1, CacheAssumption DEF Init, Was
  <2>4. sidecar \in [Sidecars -> Contents]
    BY <1>2 DEF Init, Contents
  <2> QED BY <1>3, <2>1, <2>2, <2>3, <2>4 DEF Init, TypeOK, Contents
<1>5. \A s \in Sources : Current(s) = nought /\ Was(s, 0, nought) \in past
  BY DEF Init, Current
<1>6. FilesSound
  BY <1>5 DEF Init, FilesSound, Was
<1>7. SidecarsSound
  <2>1. ASSUME NEW s \in Sources, NEW c \in Codecs PROVE True(Unsaved(s, c))
    BY <1>5 DEF Unsaved, RDSCatalog, True
  <2> QED BY <2>1 DEF Init, SidecarsSound, Whole
<1>8. ASSUME NEW p \in Callers PROVE CallSound(call[p]) /\ TempSound(call[p], temp[p])
  BY DEF Init, Idle, CallSound, TempSound, Searches, Scans, Saves, Whole
<1> QED BY <1>4, <1>6, <1>7, <1>8 DEF IInv

-----------------------------------------------------------------------------
(* Steps of other programs. *)

FileStep(s) == Replace(s) \/ RewriteHead(s) \/ RewriteTail(s)

LEMMA FileStepTyped ==
  ASSUME IInv, NEW s \in Sources, FileStep(s)
  PROVE  /\ inode' \in [Sources -> Seq(Texts) \ {<<>>}] /\ rewrite' \subseteq Sources
         /\ \A v \in Sources \ {s} : inode'[v] = inode[v]
         /\ Len(inode'[s]) \in Nat /\ Len(inode'[s]) >= Len(inode[s])
         /\ Written(s)
<1> DEFINE last == Len(inode[s])
           fresh == [head |-> clock + 1, tail |-> clock + 1]
<1>1. inode[s] \in Seq(Texts) /\ inode[s] # <<>> /\ last \in 1 .. Len(inode[s]) /\ inode[s][last] \in Texts
  BY CurrentTyped DEF IInv, Current
<1>2. clock + 1 \in 0 .. MaxChanges
  BY CacheAssumption DEF FileStep, Replace, RewriteHead, RewriteTail, Written, IInv, TypeOK
<1>3. CASE Replace(s)
  <2>1. inode' = [inode EXCEPT ![s] = Append(inode[s], fresh)]
    BY <1>3 DEF Replace
  <2>2. Append(inode[s], fresh) \in Seq(Texts) /\ Append(inode[s], fresh) # <<>>
    BY <1>1, <1>2 DEF Texts
  <2>3. Len(Append(inode[s], fresh)) = Len(inode[s]) + 1 /\ Len(inode[s]) \in Nat
    BY <1>1, <1>2 DEF Texts
  <2> QED BY <1>3, <2>1, <2>2, <2>3 DEF Replace, IInv, TypeOK
<1>4. ASSUME NEW text \in Texts, inode' = [inode EXCEPT ![s][last] = text]
      PROVE  /\ inode' \in [Sources -> Seq(Texts) \ {<<>>}] /\ \A v \in Sources \ {s} : inode'[v] = inode[v]
             /\ Len(inode'[s]) \in Nat /\ Len(inode'[s]) >= Len(inode[s])
  <2>1. inode' = [inode EXCEPT ![s] = [inode[s] EXCEPT ![last] = text]]
    BY <1>4 DEF IInv, TypeOK
  <2>2. [inode[s] EXCEPT ![last] = text] \in Seq(Texts) /\ [inode[s] EXCEPT ![last] = text] # <<>>
    BY <1>1
  <2>3. Len([inode[s] EXCEPT ![last] = text]) = Len(inode[s]) /\ Len(inode[s]) \in Nat
    BY <1>1
  <2> QED BY <2>1, <2>2, <2>3 DEF IInv, TypeOK
<1>5. CASE RewriteHead(s)
  <2> DEFINE text == [inode[s][last] EXCEPT !.head = clock + 1]
  <2>1. inode' = [inode EXCEPT ![s][last] = text]
    BY <1>5 DEF RewriteHead, IInv, TypeOK
  <2>2. text \in Texts
    BY <1>1, <1>2 DEF Texts
  <2> QED BY <1>4, <1>5, <2>1, <2>2 DEF RewriteHead, IInv, TypeOK
<1>6. CASE RewriteTail(s)
  <2> DEFINE text == [inode[s][last] EXCEPT !.tail = Current(s).head]
  <2>1. inode' = [inode EXCEPT ![s][last] = text]
    BY <1>6 DEF RewriteTail, IInv, TypeOK
  <2>2. text \in Texts
    BY <1>1 DEF Texts, Current
  <2> QED BY <1>4, <1>6, <2>1, <2>2 DEF RewriteTail, IInv, TypeOK
<1> QED BY <1>3, <1>5, <1>6 DEF FileStep

\* No stamp that a call has taken is that of a file written since.
LEMMA FileStepKeeps ==
  ASSUME IInv, NEW s \in Sources, FileStep(s)
  PROVE  IInv'
<1> DEFINE new == Was(s, clock + 1, Current(s)')
<1>1. /\ inode' \in [Sources -> Seq(Texts) \ {<<>>}] /\ rewrite' \subseteq Sources
      /\ \A v \in Sources \ {s} : inode'[v] = inode[v]
  BY FileStepTyped
<1>2. /\ clock < MaxChanges /\ clock' = clock + 1 /\ stamp' = [stamp EXCEPT ![s] = clock + 1]
      /\ past' = past \cup {new}
      /\ sidecar' = sidecar /\ temp' = temp /\ call' = call
  BY FileStepTyped DEF Written
<1>3. clock \in Nat /\ MaxChanges \in Nat /\ stamp \in [Sources -> 0 .. MaxChanges]
  BY CacheAssumption DEF IInv, TypeOK
<1>4. Current(s)' \in Texts
  <2>1. inode'[s] \in Seq(Texts) /\ inode'[s] # <<>>
    BY <1>1
  <2>2. Len(inode'[s]) \in 1 .. Len(inode'[s])
    BY <2>1
  <2> QED BY <2>1, <2>2 DEF Current
<1>5. new \in [path : Sources, stamp : 0 .. MaxChanges, text : Texts] /\ new.path = s /\ new.stamp = clock + 1
  BY <1>2, <1>3, <1>4 DEF Was
<1>6. TypeOK'
  <2>1. past' \subseteq [path : Sources, stamp : 0 .. MaxChanges, text : Texts]
    BY <1>2, <1>5 DEF IInv, TypeOK
  <2>2. clock' \in 0 .. MaxChanges /\ stamp' \in [Sources -> 0 .. MaxChanges]
    BY <1>2, <1>3
  <2> QED BY <1>1, <1>2, <2>1, <2>2 DEF IInv, TypeOK
<1>7. \A v \in Sources : v # s => Current(v)' = Current(v) /\ stamp'[v] = stamp[v]
  BY <1>1, <1>2, <1>3 DEF Current
<1>8. FilesSound'
  <2>1. ASSUME NEW v \in Sources PROVE stamp'[v] <= clock' /\ Was(v, stamp'[v], Current(v)') \in past'
    <3>1. CASE v = s
      BY <1>2, <1>3, <3>1
    <3>2. CASE v # s
      BY <1>2, <1>3, <1>7, <3>2 DEF IInv, FilesSound
    <3> QED BY <3>1, <3>2
  <2>2. \A w \in past : w.stamp \in 0 .. MaxChanges /\ w.stamp <= clock
    BY DEF IInv, TypeOK, FilesSound
  <2>3. \A w \in past' : w.stamp <= clock'
    BY <1>2, <1>3, <1>5, <2>2
  <2>4. \A v, w \in past' : v.path = w.path /\ v.stamp = w.stamp => v.text = w.text
    <3>1. \A w \in past : w.stamp # new.stamp
      BY <1>3, <1>5, <2>2
    <3> HIDE DEF new
    <3> QED BY <1>2, <3>1 DEF IInv, FilesSound
  <2> QED BY <2>1, <2>3, <2>4 DEF FilesSound
<1>9. \A cat : True(cat) => True(cat)'
  BY <1>2 DEF True
<1>10. SidecarsSound'
  BY <1>2, <1>9 DEF IInv, SidecarsSound
<1>11. ASSUME NEW p \in Callers PROVE CallSound(call[p])' /\ TempSound(call[p], temp[p])'
  <2> DEFINE c == call[p]
  <2>1. c' = c /\ temp'[p] = temp[p] /\ CallSound(c) /\ TempSound(c, temp[p])
    BY <1>2 DEF IInv
  <2>2. ASSUME c.pc \in Scans PROVE SeenTyped(c)' /\ SeenSound(c)'
    <3>1. c.src \in Sources /\ SeenTyped(c) /\ SeenSound(c)
      BY <2>1, <2>2 DEF CallSound, Searches
    <3>2. CASE c.src = s
      <4>1. c.before # stamp'[c.src]
        BY <1>2, <1>3, <3>1, <3>2 DEF SeenTyped
      <4>2. Len(inode'[s]) >= Len(inode[s]) /\ Len(inode[s]) \in Nat /\ Len(inode'[s]) \in Nat
        BY FileStepTyped, CurrentTyped DEF IInv
      <4>3. c.pc = "scanning" => c.fd \in 1 .. Len(inode'[c.src])
        BY <3>1, <3>2, <4>2 DEF SeenTyped
      <4> QED BY <1>2, <1>3, <2>1, <3>1, <4>1, <4>3 DEF SeenTyped, SeenSound
    <3>3. CASE c.src # s
      BY <1>1, <1>2, <1>3, <1>7, <2>1, <3>1, <3>3 DEF SeenTyped, SeenSound
    <3> QED BY <3>2, <3>3
  <2>3. CallSound(c)'
    BY <1>9, <2>1, <2>2 DEF CallSound
  <2>4. TempSound(c, temp[p])'
    BY <1>9, <2>1 DEF TempSound
  <2> QED BY <2>3, <2>4
<1> QED BY <1>6, <1>8, <1>10, <1>11 DEF IInv

-----------------------------------------------------------------------------
(* Steps of callers. *)

\* A step of one caller need only leave that caller sound.
LEMMA CallerStep ==
  ASSUME IInv, NEW p \in Callers, NEW new \in CallType, NEW t \in Contents,
         call' = [call EXCEPT ![p] = new], temp' = [temp EXCEPT ![p] = t],
         UNCHANGED outside,
         CallSound(new), TempSound(new, t),
         sidecar' \in [Sidecars -> Contents], SidecarsSound'
  PROVE  IInv'
<1>1. UNCHANGED <<clock, stamp, inode, rewrite, past>>
  BY DEF outside
<1>2. TypeOK'
  BY <1>1 DEF IInv, TypeOK, Contents
<1>3. FilesSound'
  BY <1>1 DEF IInv, FilesSound, Current
<1>4. ASSUME NEW q \in Callers PROVE CallSound(call[q])' /\ TempSound(call[q], temp[q])'
  <2>1. \/ call'[q] = new /\ temp'[q] = t
        \/ call'[q] = call[q] /\ temp'[q] = temp[q]
    BY DEF IInv, TypeOK
  <2>2. CallSound(call'[q]) /\ TempSound(call'[q], temp'[q])
    BY <2>1 DEF IInv
  <2> QED BY <1>1, <2>2 DEF CallSound, TempSound, SeenTyped, SeenSound, True, Current
<1> QED BY <1>2, <1>3, <1>4 DEF IInv

\* A step that touches no file of the cache.
LEMMA QuietStep ==
  ASSUME IInv, NEW p \in Callers, NEW new \in CallType,
         call' = [call EXCEPT ![p] = new], UNCHANGED <<outside, sidecar, temp>>,
         CallSound(new), TempSound(new, temp[p])
  PROVE  IInv'
<1>1. temp' = [temp EXCEPT ![p] = temp[p]] /\ temp[p] \in Contents
  BY DEF IInv, TypeOK, Contents
<1>2. sidecar' \in [Sidecars -> Contents] /\ SidecarsSound'
  BY DEF IInv, TypeOK, Contents, SidecarsSound, True, outside
<1> QED BY <1>1, <1>2, CallerStep

\* What is known of a caller before its step.
LEMMA Caller ==
  ASSUME IInv, NEW p \in Callers
  PROVE  /\ call[p] \in CallType /\ temp[p] \in Contents
         /\ CallSound(call[p]) /\ TempSound(call[p], temp[p])
BY DEF IInv, TypeOK, Contents

LEMMA BeginKeeps ==
  ASSUME IInv, NEW p \in Callers, NEW s \in Sources, NEW codec \in Codecs, NEW cache \in BOOLEAN,
         Begin(p, s, codec, cache)
  PROVE  IInv'
<1> DEFINE new == [Idle EXCEPT !.pc = IF cache THEN "lookup" ELSE "stat", !.src = s, !.codec = codec, !.cache = cache]
<1>1. new \in CallType
  BY DEF Idle, CallType, Steps, Ended
<1>2. CallSound(new) /\ TempSound(new, temp[p])
  BY Caller DEF Begin, At, Idle, CallSound, TempSound, Searches, Scans, Saves
<1> QED BY <1>1, <1>2, QuietStep DEF Begin, Do

LEMMA LookupKeeps ==
  ASSUME IInv, NEW p \in Callers, Lookup(p)
  PROVE  IInv'
<1> DEFINE c == call[p]
           content == sidecar[SidecarOf[c.src]]
<1>1. c \in CallType /\ CallSound(c) /\ TempSound(c, temp[p]) /\ c.pc = "lookup" /\ c.src \in Sources
  BY Caller DEF Lookup, At, CallSound, Searches
<1>2. content \in Contents /\ (Whole(content) => content \in Catalogs /\ True(content))
  BY <1>1, CacheAssumption DEF IInv, TypeOK, Contents, SidecarsSound, Whole
<1>3. CASE Whole(content)
  <2> DEFINE new == [c EXCEPT !.pc = "match", !.held = content]
  <2>1. new \in CallType
    BY <1>1, <1>2, <1>3 DEF CallType, Steps
  <2>2. CallSound(new) /\ TempSound(new, temp[p])
    BY <1>1, <1>2, <1>3 DEF CallType, CallSound, TempSound, Searches, Scans, Saves
  <2> QED BY <1>3, <2>1, <2>2, QuietStep DEF Lookup, Do
<1>4. CASE ~ Whole(content)
  <2> DEFINE new == [c EXCEPT !.pc = "stat"]
  <2>1. new \in CallType
    BY <1>1 DEF CallType, Steps
  <2>2. CallSound(new) /\ TempSound(new, temp[p])
    BY <1>1 DEF CallType, CallSound, TempSound, Searches, Scans, Saves
  <2> QED BY <1>4, <2>1, <2>2, QuietStep DEF Lookup, Do, Goes
<1> QED BY <1>3, <1>4

\* A call that is left keeps its file, its encoding and its catalog at most.
LEMMA LeavesKeeps ==
  ASSUME IInv, NEW p \in Callers, NEW pc \in {"done", "failed", "dead"}, NEW cat \in Catalogs \cup {None},
         Leaves(p, pc, cat), UNCHANGED <<outside, sidecar, temp>>,
         cat # None => True(cat),
         pc = "done" => cat \in Catalogs /\ call[p].src \in Sources /\ call[p].codec \in Codecs,
         pc # "dead" => temp[p] = None
  PROVE  IInv'
<1> DEFINE new == [Idle EXCEPT !.pc = pc, !.src = call[p].src, !.codec = call[p].codec, !.cat = cat]
<1>1. new \in CallType
  BY Caller DEF Idle, CallType, Steps, Ended
<1>2. CallSound(new) /\ TempSound(new, temp[p])
  BY Caller DEF Idle, CallSound, TempSound, Searches, Scans, Saves, Whole
<1> QED BY <1>1, <1>2, QuietStep DEF Leaves, Do

LEMMA MatchKeeps ==
  ASSUME IInv, NEW p \in Callers, Match(p)
  PROVE  IInv'
<1> DEFINE c == call[p]
<1>1. c \in CallType /\ CallSound(c) /\ TempSound(c, temp[p]) /\ c.pc = "match"
  BY Caller DEF Match, At
<1>2. c.src \in Sources /\ c.codec \in Codecs /\ c.held \in Catalogs /\ True(c.held) /\ temp[p] = None
  BY <1>1 DEF CallSound, TempSound, Searches
<1>3. CASE Leaves(p, "done", c.held)
  BY <1>2, <1>3, LeavesKeeps DEF Match
<1>4. CASE Do(p, [c EXCEPT !.pc = "stat", !.held = None])
  <2> DEFINE new == [c EXCEPT !.pc = "stat", !.held = None]
  <2>1. new \in CallType
    BY <1>1 DEF CallType, Steps
  <2>2. CallSound(new) /\ TempSound(new, temp[p])
    BY <1>1 DEF CallType, CallSound, TempSound, Searches, Scans, Saves
  <2> QED BY <1>4, <2>1, <2>2, QuietStep DEF Match, Do
<1> QED BY <1>3, <1>4 DEF Match

-----------------------------------------------------------------------------
(* The scan of the file. *)

LEMMA StatKeeps ==
  ASSUME IInv, NEW p \in Callers, Stat(p)
  PROVE  IInv'
<1> DEFINE c == call[p]
           new == [c EXCEPT !.pc = "inspect", !.before = stamp[c.src]]
<1>1. c \in CallType /\ CallSound(c) /\ TempSound(c, temp[p]) /\ c.pc = "stat" /\ c.src \in Sources
  BY Caller DEF Stat, At, CallSound, Searches
<1>2. stamp[c.src] \in 0 .. MaxChanges /\ stamp[c.src] <= clock /\ stamp[c.src] \in Nat
  BY <1>1, CacheAssumption DEF IInv, TypeOK, FilesSound
<1>3. new \in CallType
  BY <1>1, <1>2 DEF CallType, Steps
<1>4. SeenTyped(new) /\ SeenSound(new)
  BY <1>1, <1>2 DEF CallType, SeenTyped, SeenSound
<1>5. CallSound(new) /\ TempSound(new, temp[p])
  BY <1>1, <1>4 DEF CallType, CallSound, TempSound, Searches, Scans, Saves
<1> QED BY <1>3, <1>5, QuietStep DEF Stat, Do

LEMMA InspectKeeps ==
  ASSUME IInv, NEW p \in Callers, Inspect(p)
  PROVE  IInv'
<1> DEFINE c == call[p]
           new == [c EXCEPT !.pc = "scan", !.magic = Current(c.src).head]
<1>1. /\ c \in CallType /\ CallSound(c) /\ TempSound(c, temp[p]) /\ c.pc = "inspect" /\ c.src \in Sources
      /\ SeenTyped(c)
  BY Caller DEF Inspect, At, CallSound, Searches, Scans
<1>2. Current(c.src).head \in 0 .. MaxChanges /\ Current(c.src).head \in Nat
  BY <1>1, CurrentTyped, CacheAssumption DEF IInv, Texts
<1>3. new \in CallType
  BY <1>1, <1>2 DEF CallType, Steps
<1>4. SeenTyped(new) /\ SeenSound(new)
  BY <1>1, <1>2 DEF CallType, SeenTyped, SeenSound
<1>5. CallSound(new) /\ TempSound(new, temp[p])
  BY <1>1, <1>4 DEF CallType, CallSound, TempSound, Searches, Scans, Saves
<1> QED BY <1>3, <1>5, QuietStep DEF Inspect, Do

LEMMA ScanKeeps ==
  ASSUME IInv, NEW p \in Callers, Scan(p)
  PROVE  IInv'
<1> DEFINE c == call[p]
           new == [c EXCEPT !.pc = "scanning", !.fd = Len(inode[c.src]), !.head = Current(c.src).head]
<1>1. /\ c \in CallType /\ CallSound(c) /\ TempSound(c, temp[p]) /\ c.pc = "scan" /\ c.src \in Sources
      /\ SeenTyped(c) /\ SeenSound(c)
  BY Caller DEF Scan, At, CallSound, Searches, Scans
<1>2. /\ Current(c.src).head \in 0 .. MaxChanges /\ Current(c.src).head \in Nat
      /\ Len(inode[c.src]) \in Nat /\ Len(inode[c.src]) \in 1 .. Len(inode[c.src])
  BY <1>1, CurrentTyped, CacheAssumption DEF IInv, Texts
<1>3. new \in CallType
  BY <1>1, <1>2 DEF CallType, Steps
<1>4. SeenTyped(new) /\ SeenSound(new)
  BY <1>1, <1>2 DEF CallType, SeenTyped, SeenSound
<1>5. CallSound(new) /\ TempSound(new, temp[p])
  BY <1>1, <1>4 DEF CallType, CallSound, TempSound, Searches, Scans, Saves
<1> QED BY <1>3, <1>5, QuietStep DEF Scan, Do

LEMMA ScannedKeeps ==
  ASSUME IInv, NEW p \in Callers, Scanned(p)
  PROVE  IInv'
<1> DEFINE c == call[p]
           text == [head |-> c.head, tail |-> inode[c.src][c.fd].tail]
           new == [c EXCEPT !.pc = "restat", !.text = text]
<1>1. /\ c \in CallType /\ CallSound(c) /\ TempSound(c, temp[p]) /\ c.pc = "scanning" /\ c.src \in Sources
      /\ SeenTyped(c) /\ SeenSound(c)
  BY Caller DEF Scanned, At, CallSound, Searches, Scans
<1>2. inode[c.src] \in Seq(Texts) /\ c.fd \in 1 .. Len(inode[c.src]) /\ c.head \in 0 .. MaxChanges
  BY <1>1, CurrentTyped DEF IInv, SeenTyped
<1>3. inode[c.src][c.fd] \in Texts /\ text \in Texts
  <2>1. inode[c.src][c.fd] \in Texts
    BY <1>2
  <2> QED BY <1>2, <2>1 DEF Texts
<1>4. c.before = stamp[c.src] => text = Current(c.src)
  <2>1. Current(c.src) \in Texts
    BY <1>1, CurrentTyped DEF IInv
  <2> QED BY <1>1, <2>1 DEF SeenSound, Current, Texts
<1>5. new \in CallType
  BY <1>1, <1>3 DEF CallType, Steps
<1>6. SeenTyped(new) /\ SeenSound(new)
  BY <1>1, <1>3, <1>4 DEF CallType, SeenTyped, SeenSound
<1>7. CallSound(new) /\ TempSound(new, temp[p])
  BY <1>1, <1>6 DEF CallType, CallSound, TempSound, Searches, Scans, Saves
<1> QED BY <1>5, <1>7, QuietStep DEF Scanned, Do

LEMMA UnreadableKeeps ==
  ASSUME IInv, NEW p \in Callers, Unreadable(p)
  PROVE  IInv'
BY Caller, LeavesKeeps DEF Unreadable, TempSound

\* What is catalogued, if the stamp is still the one that was taken.
LEMMA CataloguedTrue ==
  ASSUME IInv, NEW p \in Callers, At(p, "restat"), stamp[call[p].src] = call[p].before
  PROVE  /\ RDSCatalog(call[p].src, call[p].before, call[p].magic, call[p].text, call[p].codec, TRUE) \in Catalogs
         /\ True(RDSCatalog(call[p].src, call[p].before, call[p].magic, call[p].text, call[p].codec, TRUE))
         /\ call[p].text = Current(call[p].src)
         /\ call[p].src \in Sources /\ call[p].codec \in Codecs
<1> DEFINE c == call[p]
<1>1. c.src \in Sources /\ c.codec \in Codecs /\ SeenTyped(c) /\ SeenSound(c) /\ c.pc = "restat"
  BY Caller DEF At, CallSound, Searches, Scans
<1>2. c.text = Current(c.src) /\ c.magic = Current(c.src).head
  BY <1>1 DEF SeenSound
<1>3. c.before \in 0 .. MaxChanges /\ c.magic \in 0 .. MaxChanges /\ c.text \in Texts
  BY <1>1 DEF SeenTyped
<1>4. Was(c.src, stamp[c.src], Current(c.src)) \in past
  BY <1>1 DEF IInv, FilesSound
<1> QED BY <1>1, <1>2, <1>3, <1>4 DEF RDSCatalog, Catalogs, True

LEMMA RestatKeeps ==
  ASSUME IInv, NEW p \in Callers, Restat(p)
  PROVE  IInv'
<1> DEFINE c == call[p]
           cat == RDSCatalog(c.src, c.before, c.magic, c.text, c.codec, TRUE)
<1>1. temp[p] = None
  BY Caller DEF Restat, At, TempSound
<1>2. CASE stamp[c.src] = c.before
  <2>1. cat \in Catalogs /\ True(cat) /\ c.src \in Sources /\ c.codec \in Codecs
    BY <1>2, CataloguedTrue DEF Restat
  <2>2. CASE c.cache
    <3> DEFINE new == [Idle EXCEPT !.pc = "mkstemp", !.src = c.src, !.codec = c.codec, !.cat = cat]
    <3> HIDE DEF cat
    <3>1. new \in CallType
      BY <2>1 DEF Idle, CallType, Steps
    <3>2. CallSound(new) /\ TempSound(new, temp[p])
      BY <1>1, <2>1 DEF Idle, CallSound, TempSound, Searches, Scans, Saves, Whole
    <3>3. call' = [call EXCEPT ![p] = new]
      BY <1>2, <2>2 DEF Restat, Catalogued, Leaves, Do, cat
    <3> QED BY <3>1, <3>2, <3>3, QuietStep DEF Restat
  <2>3. CASE ~ c.cache
    <3>1. Leaves(p, "done", cat)
      BY <1>2, <2>3 DEF Restat, Catalogued
    <3> HIDE DEF cat
    <3> QED BY <1>1, <2>1, <3>1, LeavesKeeps DEF Restat
  <2> QED BY <2>2, <2>3
<1>3. CASE stamp[c.src] # c.before
  BY <1>1, <1>3, LeavesKeeps DEF Restat
<1> QED BY <1>2, <1>3

-----------------------------------------------------------------------------
(* The save, and what the caller does with the catalog. *)

LEMMA GoesTyped ==
  ASSUME IInv, NEW p \in Callers, NEW pc \in Steps
  PROVE  LET new == [call[p] EXCEPT !.pc = pc]
         IN new \in CallType /\ new.src = call[p].src /\ new.codec = call[p].codec /\ new.cat = call[p].cat /\ new.pc = pc
BY Caller DEF CallType

LEMMA MkstempKeeps ==
  ASSUME IInv, NEW p \in Callers, Mkstemp(p)
  PROVE  IInv'
<1> DEFINE new == [call[p] EXCEPT !.pc = "dump"]
<1>1. new \in CallType /\ new.src = call[p].src /\ new.codec = call[p].codec /\ new.cat = call[p].cat /\ new.pc = "dump"
  BY GoesTyped DEF Steps
<1>2. CallSound(new) /\ TempSound(new, Partial)
  BY <1>1, Caller DEF Mkstemp, At, CallSound, TempSound, Searches, Scans, Saves, Whole
<1>3. sidecar' \in [Sidecars -> Contents] /\ SidecarsSound'
  BY DEF Mkstemp, IInv, TypeOK, Contents, SidecarsSound, True, outside
<1> HIDE DEF new
<1> QED BY <1>1, <1>2, <1>3, CallerStep DEF Mkstemp, Goes, Do, Contents, new

LEMMA DumpKeeps ==
  ASSUME IInv, NEW p \in Callers, Dump(p)
  PROVE  IInv'
<1> DEFINE new == [call[p] EXCEPT !.pc = "replace"]
<1>1. new \in CallType /\ new.src = call[p].src /\ new.codec = call[p].codec /\ new.cat = call[p].cat /\ new.pc = "replace"
  BY GoesTyped DEF Steps
<1>2. call[p].cat \in Catalogs /\ True(call[p].cat)
  BY Caller, ContentAssumption DEF Dump, At, CallSound, Saves
<1>3. CallSound(new) /\ TempSound(new, call[p].cat)
  BY <1>1, <1>2, Caller DEF Dump, At, CallSound, TempSound, Searches, Scans, Saves
<1>4. sidecar' \in [Sidecars -> Contents] /\ SidecarsSound'
  BY DEF Dump, IInv, TypeOK, Contents, SidecarsSound, True, outside
<1> HIDE DEF new
<1> QED BY <1>1, <1>2, <1>3, <1>4, CallerStep DEF Dump, Goes, Do, Contents, new

\* The temporary file that is put in place is a whole and true catalog.
LEMMA ReplacedWhole ==
  ASSUME IInv, NEW p \in Callers, OsReplace(p)
  PROVE  temp[p] \in Catalogs /\ True(temp[p]) /\ call[p].src \in Sources
BY Caller, ContentAssumption DEF OsReplace, At, CallSound, TempSound, Saves

LEMMA OsReplaceKeeps ==
  ASSUME IInv, NEW p \in Callers, OsReplace(p)
  PROVE  IInv'
<1> DEFINE new == [call[p] EXCEPT !.pc = "done"]
<1>1. new \in CallType /\ new.src = call[p].src /\ new.codec = call[p].codec /\ new.cat = call[p].cat /\ new.pc = "done"
  BY GoesTyped DEF Steps
<1>2. CallSound(new) /\ TempSound(new, None)
  BY <1>1, Caller DEF OsReplace, At, CallSound, TempSound, Searches, Scans, Saves, Whole
<1>3. sidecar' = [sidecar EXCEPT ![SidecarOf[call[p].src]] = temp[p]] /\ past' = past
  BY DEF OsReplace, outside
<1>4. sidecar' \in [Sidecars -> Contents] /\ SidecarsSound'
  BY <1>3, ReplacedWhole, CacheAssumption DEF IInv, TypeOK, Contents, SidecarsSound, True
<1> HIDE DEF new
<1> QED BY <1>1, <1>2, <1>4, CallerStep DEF OsReplace, Goes, Do, Contents, new

LEMMA SaveFailsKeeps ==
  ASSUME IInv, NEW p \in Callers, SaveFails(p)
  PROVE  IInv'
<1> DEFINE new == [call[p] EXCEPT !.pc = "failed"]
<1>1. new \in CallType /\ new.src = call[p].src /\ new.codec = call[p].codec /\ new.cat = call[p].cat /\ new.pc = "failed"
  BY GoesTyped DEF Steps, Ended
<1>2. CallSound(new) /\ TempSound(new, None)
  BY <1>1, Caller DEF CallSound, TempSound, Searches, Scans, Saves, Whole
<1>3. sidecar' \in [Sidecars -> Contents] /\ SidecarsSound'
  BY DEF SaveFails, IInv, TypeOK, Contents, SidecarsSound, True, outside
<1> HIDE DEF new
<1> QED BY <1>1, <1>2, <1>3, CallerStep DEF SaveFails, Goes, Do, Contents, new

LEMMA SelectKeeps ==
  ASSUME IInv, NEW p \in Callers, NEW explicit \in BOOLEAN, Select(p, explicit)
  PROVE  IInv'
<1> DEFINE c == call[p]
<1>1. c \in CallType /\ CallSound(c) /\ TempSound(c, temp[p]) /\ c.pc = "done"
  BY Caller DEF Select, At
<1>2. CASE Do(p, [c EXCEPT !.pc = "convert", !.checked = explicit])
  <2> DEFINE new == [c EXCEPT !.pc = "convert", !.checked = explicit]
  <2>1. new \in CallType
    BY <1>1 DEF CallType, Steps
  <2>2. CallSound(new) /\ TempSound(new, temp[p])
    BY <1>1 DEF CallType, CallSound, TempSound, Searches, Scans, Saves
  <2> QED BY <1>2, <2>1, <2>2, QuietStep DEF Select, Do
<1>3. CASE Goes(p, "failed")
  <2> DEFINE new == [c EXCEPT !.pc = "failed"]
  <2>1. new \in CallType
    BY <1>1 DEF CallType, Steps, Ended
  <2>2. CallSound(new) /\ TempSound(new, temp[p])
    BY <1>1 DEF CallType, CallSound, TempSound, Searches, Scans, Saves
  <2> QED BY <1>3, <2>1, <2>2, QuietStep DEF Select, Do, Goes
<1> QED BY <1>2, <1>3 DEF Select

LEMMA ConvertKeeps ==
  ASSUME IInv, NEW p \in Callers, Convert(p)
  PROVE  IInv'
<1> DEFINE c == call[p]
           new == [c EXCEPT !.pc = "converted", !.out = Current(c.src)]
<1>1. c \in CallType /\ CallSound(c) /\ TempSound(c, temp[p]) /\ c.pc = "convert"
  BY Caller DEF Convert, At
<1>2. Current(c.src) \in Texts
  BY <1>1, CurrentTyped DEF IInv, CallSound
<1>3. new \in CallType
  BY <1>1, <1>2 DEF CallType, Steps, Ended
<1>4. CallSound(new) /\ TempSound(new, temp[p])
  BY <1>1 DEF CallType, CallSound, TempSound, Searches, Scans, Saves
<1> QED BY <1>3, <1>4, QuietStep DEF Convert, Do

LEMMA CrashKeeps ==
  ASSUME IInv, NEW p \in Callers, Crash(p)
  PROVE  IInv'
<1>1. call[p].cat \in Catalogs \cup {None} /\ (call[p].cat # None => True(call[p].cat))
  BY Caller DEF CallType, CallSound
<1> QED BY <1>1, LeavesKeeps DEF Crash

LEMMA StutterKeeps ==
  ASSUME IInv, UNCHANGED vars
  PROVE  IInv'
BY DEF IInv, TypeOK, FilesSound, SidecarsSound, CallSound, TempSound, SeenTyped, SeenSound, True, Current, vars

LEMMA NextKeeps == IInv /\ [Next]_vars => IInv'
<1> SUFFICES ASSUME IInv, [Next]_vars PROVE IInv'
  OBVIOUS
<1>1. ASSUME NEW p \in Callers, List(p) PROVE IInv'
  BY <1>1, BeginKeeps, LookupKeeps, MatchKeeps, StatKeeps, InspectKeeps, ScanKeeps, ScannedKeeps, UnreadableKeeps,
     RestatKeeps, MkstempKeeps, DumpKeeps, OsReplaceKeeps, SaveFailsKeeps, SelectKeeps, ConvertKeeps, CrashKeeps DEF List
<1> QED BY <1>1, FileStepKeeps, StutterKeeps DEF Next, FileStep

THEOREM Invariant == Spec => []IInv
BY InitHolds, NextKeeps, PTL DEF Spec

\* The state of the cache, of the files and of every call is well typed.
THEOREM TypeCorrect == Spec => []TypeOK
<1>1. IInv => TypeOK
  BY DEF IInv
<1> QED BY <1>1, Invariant, PTL

\* Whatever other programs write and whenever they do, a catalog that is
\* served or stored shows one state that its file has had, under its stamp.
THEOREM ServedAndStoredTrue == Spec => []CatalogsTrue
<1>1. IInv => CatalogsTrue
  BY DEF IInv, CallSound, SidecarsSound, CatalogsTrue
<1> QED BY <1>1, Invariant, PTL

\* A call that has ended, but for a process that died, has left no temporary file.
THEOREM LeavesNoLitter == Spec => []NoLitter
<1>1. IInv => NoLitter
  BY DEF IInv, TempSound, NoLitter
<1> QED BY <1>1, Invariant, PTL

\* A sidecar changes only into a whole catalog, by whichever caller.
THEOREM ReplacedByWhole == Spec => SidecarsWhole
<1> DEFINE Replaced == \A c \in Sidecars : sidecar'[c] # sidecar[c] => Whole(sidecar'[c])
<1>1. ASSUME IInv, [Next]_vars PROVE Replaced
  <2>1. ASSUME NEW p \in Callers, OsReplace(p) PROVE Replaced
    <3>1. temp[p] \in Catalogs /\ SidecarOf[call[p].src] \in Sidecars
      BY <1>1, <2>1, ReplacedWhole, CacheAssumption
    <3>2. Whole(temp[p])
      BY <3>1, ContentAssumption DEF Whole
    <3>3. sidecar' = [sidecar EXCEPT ![SidecarOf[call[p].src]] = temp[p]]
      BY <2>1 DEF OsReplace
    <3> QED BY <1>1, <3>2, <3>3 DEF IInv, TypeOK
  <2>2. (\E p \in Callers : OsReplace(p)) \/ sidecar' = sidecar
    BY <1>1 DEF Next, List, Begin, Lookup, Match, Stat, Inspect, Scan, Scanned, Unreadable, Restat, Mkstemp, Dump,
       SaveFails, Select, Convert, Crash, Replace, RewriteHead, RewriteTail, Written, vars
  <2> QED BY <2>1, <2>2
<1>2. IInv /\ [Next]_vars => [Replaced]_vars
  BY <1>1
<1> QED BY <1>2, Invariant, PTL DEF Spec, SidecarsWhole

-----------------------------------------------------------------------------
(* Listing is as if done at one instant. *)

Now == [s \in Sources |-> [stamp |-> stamp[s], text |-> Current(s)]]
Asked == [p \in Callers |-> call[p].src]
AnswerOf(c) == IF c.cat = None THEN None ELSE Was(c.cat.path, c.cat.stamp, c.cat.text)
Answers == [p \in Callers |-> AnswerOf(call[p])]

\* A step that changes neither the file of a call nor its catalog is no step of
\* the listing.
LEMMA Unanswered ==
  ASSUME IInv, NEW p \in Callers, NEW new, call' = [call EXCEPT ![p] = new],
         new.src = call[p].src, new.cat = call[p].cat, UNCHANGED outside
  PROVE  UNCHANGED <<Now, Asked, Answers>>
<1>1. \A q \in Callers : call'[q].src = call[q].src /\ AnswerOf(call'[q]) = AnswerOf(call[q])
  BY DEF IInv, TypeOK, AnswerOf
<1>2. \A s \in Sources : stamp'[s] = stamp[s] /\ Current(s)' = Current(s)
  BY DEF outside, Current
<1> QED BY <1>1, <1>2 DEF Now, Asked, Answers, AnswerOf

\* A call that finds a catalog gets its answer from its file as it is.
LEMMA Answered ==
  ASSUME IInv, NEW p \in Callers, NEW new, NEW cat \in Catalogs, call' = [call EXCEPT ![p] = new],
         call[p].cat = None, call[p].src \in Sources, new.src = call[p].src, new.cat = cat,
         cat.path = call[p].src, cat.stamp = stamp[call[p].src], cat.text = Current(call[p].src),
         UNCHANGED outside
  PROVE  Listing!Answer(p)
<1> DEFINE s == call[p].src
<1>1. cat # None
  BY ContentAssumption
<1>2. AnswerOf(new) = Was(s, stamp[s], Current(s)) /\ AnswerOf(call[p]) = None
  BY <1>1 DEF AnswerOf
<1>3. Asked[p] # None /\ Answers[p] = None
  BY <1>2, CacheAssumption DEF Asked, Answers
<1>4. Asked' = Asked
  BY DEF Asked, IInv, TypeOK
<1>5. Now' = Now
  BY DEF Now, outside, Current
<1>6. Answers' = [Answers EXCEPT ![p] = Was(s, stamp[s], Current(s))]
  <2>1. \A q \in Callers : AnswerOf(call'[q]) = IF q = p THEN Was(s, stamp[s], Current(s)) ELSE AnswerOf(call[q])
    BY <1>2 DEF IInv, TypeOK
  <2> HIDE DEF s
  <2> QED BY <2>1 DEF Answers
<1>7. Now[Asked[p]].stamp = stamp[s] /\ Now[Asked[p]].text = Current(s) /\ Asked[p] = s
  BY DEF Now, Asked
<1> QED BY <1>3, <1>4, <1>5, <1>6, <1>7 DEF Listing!Answer, Now, Asked, Answers, AnswerOf, Was

\* A sidecar that bears the file's stamp shows what the file is.
LEMMA HitIsCurrent ==
  ASSUME IInv, NEW cat \in Catalogs, True(cat), NEW s \in Sources, matches(cat, s)
  PROVE  cat.path = s /\ cat.stamp = stamp[s] /\ cat.text = Current(s)
<1>1. cat.path = s /\ cat.stamp = stamp[s]
  BY DEF matches
<1>2. Was(s, stamp[s], cat.text) \in past /\ Was(s, stamp[s], Current(s)) \in past
  BY <1>1 DEF True, IInv, FilesSound
<1>3. Was(s, stamp[s], cat.text).text = Was(s, stamp[s], Current(s)).text
  BY <1>2 DEF IInv, FilesSound, Was
<1> QED BY <1>1, <1>3 DEF Was

\* Every step of a caller asks, answers, or changes nothing of the listing.
LEMMA CallerLists ==
  ASSUME IInv, NEW p \in Callers, List(p)
  PROVE  Listing!Ask(p) \/ Listing!Answer(p) \/ UNCHANGED <<Now, Asked, Answers>>
<1> DEFINE c == call[p]
<1>1. c \in CallType /\ CallSound(c) /\ TempSound(c, temp[p])
  BY Caller
<1>2. ASSUME NEW s \in Sources, NEW codec \in Codecs, NEW cache \in BOOLEAN, Begin(p, s, codec, cache)
      PROVE  Listing!Ask(p)
  <2>1. c.src = None /\ c.cat = None
    BY <1>1, <1>2 DEF Begin, At, CallSound
  <2> DEFINE new == [Idle EXCEPT !.pc = IF cache THEN "lookup" ELSE "stat", !.src = s, !.codec = codec, !.cache = cache]
  <2>2. new.src = s /\ new.cat = None /\ call' = [call EXCEPT ![p] = new] /\ UNCHANGED outside
    BY <1>2 DEF Begin, Do, Idle
  <2> HIDE DEF new
  <2>3. Asked' = [Asked EXCEPT ![p] = s] /\ Asked[p] = None
    <3>1. \A q \in Callers : call'[q].src = IF q = p THEN s ELSE call[q].src
      BY <2>2 DEF IInv, TypeOK
    <3> QED BY <2>1, <3>1 DEF Asked
  <2>4. Now' = Now
    BY <2>2 DEF Now, outside, Current
  <2>5. Answers' = Answers
    <3>1. \A q \in Callers : AnswerOf(call'[q]) = AnswerOf(call[q])
      BY <2>1, <2>2 DEF IInv, TypeOK, AnswerOf
    <3> QED BY <3>1 DEF Answers, AnswerOf
  <2> QED BY <2>3, <2>4, <2>5 DEF Listing!Ask, Now, Asked, Answers, AnswerOf
<1>3. CASE Lookup(p)
  <2>1. ASSUME NEW new, new.src = c.src, new.cat = c.cat, call' = [call EXCEPT ![p] = new], UNCHANGED outside
        PROVE  UNCHANGED <<Now, Asked, Answers>>
    BY <2>1, Unanswered
  <2>2. CASE Goes(p, "stat")
    BY <1>1, <1>3, <2>1, <2>2 DEF Lookup, Goes, Do, CallType
  <2>3. CASE Do(p, [c EXCEPT !.pc = "match", !.held = sidecar[SidecarOf[c.src]]])
    BY <1>1, <1>3, <2>1, <2>3 DEF Lookup, Do, CallType
  <2> QED BY <1>3, <2>2, <2>3 DEF Lookup
<1>4. CASE Match(p)
  <2>1. c.src \in Sources /\ c.held \in Catalogs /\ True(c.held) /\ c.cat = None
    BY <1>1, <1>4 DEF Match, At, CallSound, Searches
  <2>2. CASE matches(c.held, c.src) /\ Leaves(p, "done", c.held)
    <3>1. c.held.path = c.src /\ c.held.stamp = stamp[c.src] /\ c.held.text = Current(c.src)
      BY <2>1, <2>2, HitIsCurrent
    <3> DEFINE new == [Idle EXCEPT !.pc = "done", !.src = c.src, !.codec = c.codec, !.cat = c.held]
    <3>2. new.src = c.src /\ new.cat = c.held /\ call' = [call EXCEPT ![p] = new]
      BY <2>2 DEF Leaves, Do, Idle
    <3> QED BY <1>4, <2>1, <3>1, <3>2, Answered DEF Match
  <2>3. CASE Do(p, [c EXCEPT !.pc = "stat", !.held = None])
    <3> DEFINE new == [c EXCEPT !.pc = "stat", !.held = None]
    <3>1. new.src = c.src /\ new.cat = c.cat /\ call' = [call EXCEPT ![p] = new]
      BY <1>1, <2>3 DEF Do, CallType
    <3> QED BY <1>4, <3>1, Unanswered DEF Match
  <2> QED BY <1>4, <2>2, <2>3 DEF Match
<1>5. CASE Stat(p) \/ Inspect(p) \/ Scan(p) \/ Scanned(p) \/ Mkstemp(p) \/ Dump(p) \/ OsReplace(p) \/ SaveFails(p)
           \/ Convert(p) \/ \E explicit \in BOOLEAN : Select(p, explicit)
  <2>1. PICK new : new.src = c.src /\ new.cat = c.cat /\ call' = [call EXCEPT ![p] = new]
    BY <1>1, <1>5 DEF Stat, Inspect, Scan, Scanned, Mkstemp, Dump, OsReplace, SaveFails, Convert, Select, Goes, Do, CallType
  <2>2. UNCHANGED outside
    BY <1>5 DEF Stat, Inspect, Scan, Scanned, Mkstemp, Dump, OsReplace, SaveFails, Convert, Select
  <2> QED BY <2>1, <2>2, Unanswered
<1>6. CASE Unreadable(p) \/ Crash(p)
  <2>1. c.cat = None \/ Crash(p)
    BY <1>1, <1>6 DEF Unreadable, CallSound, Searches, Scans
  <2>2. PICK pc : Leaves(p, pc, c.cat)
    BY <1>6, <2>1 DEF Unreadable, Crash
  <2> DEFINE new == [Idle EXCEPT !.pc = pc, !.src = c.src, !.codec = c.codec, !.cat = c.cat]
  <2>3. new.src = c.src /\ new.cat = c.cat /\ call' = [call EXCEPT ![p] = new]
    BY <2>2 DEF Leaves, Do, Idle
  <2> QED BY <1>6, <2>3, Unanswered DEF Unreadable, Crash
<1>7. CASE Restat(p)
  <2>0. c.cat = None
    BY <1>1, <1>7 DEF Restat, At, CallSound, Searches, Scans
  <2>1. CASE stamp[c.src] = c.before
    <3> DEFINE cat == RDSCatalog(c.src, c.before, c.magic, c.text, c.codec, TRUE)
    <3>1. cat \in Catalogs /\ c.text = Current(c.src) /\ c.src \in Sources
      BY <1>7, <2>1, CataloguedTrue DEF Restat
    <3>2. cat.path = c.src /\ cat.stamp = stamp[c.src] /\ cat.text = Current(c.src)
      BY <2>1, <3>1 DEF RDSCatalog
    <3>3. Leaves(p, IF c.cache THEN "mkstemp" ELSE "done", cat)
      BY <1>7, <2>1 DEF Restat, Catalogued
    <3> HIDE DEF cat
    <3> DEFINE new == [Idle EXCEPT !.pc = IF c.cache THEN "mkstemp" ELSE "done", !.src = c.src, !.codec = c.codec, !.cat = cat]
    <3>4. new.src = c.src /\ new.cat = cat /\ call' = [call EXCEPT ![p] = new]
      BY <3>3 DEF Leaves, Do, Idle
    <3> QED BY <1>7, <2>0, <3>1, <3>2, <3>4, Answered DEF Restat
  <2>2. CASE stamp[c.src] # c.before
    <3> DEFINE new == [Idle EXCEPT !.pc = "failed", !.src = c.src, !.codec = c.codec, !.cat = None]
    <3>1. new.src = c.src /\ new.cat = c.cat /\ call' = [call EXCEPT ![p] = new]
      BY <1>7, <2>0, <2>2 DEF Restat, Leaves, Do, Idle
    <3> QED BY <1>7, <3>1, Unanswered DEF Restat
  <2> QED BY <2>1, <2>2
<1> QED BY <1>2, <1>3, <1>4, <1>5, <1>6, <1>7 DEF List

LEMMA FileChanges ==
  ASSUME IInv, NEW s \in Sources, FileStep(s)
  PROVE  Listing!Change(s)
<1>1. /\ clock \in Nat /\ stamp \in [Sources -> 0 .. MaxChanges] /\ stamp[s] <= clock
      /\ stamp' = [stamp EXCEPT ![s] = clock + 1] /\ call' = call
      /\ \A v \in Sources \ {s} : inode'[v] = inode[v]
  <2>1. Written(s) /\ \A v \in Sources \ {s} : inode'[v] = inode[v]
    BY FileStepTyped
  <2>2. clock \in Nat /\ stamp \in [Sources -> 0 .. MaxChanges] /\ stamp[s] <= clock
    BY CacheAssumption DEF IInv, TypeOK, FilesSound
  <2> QED BY <2>1, <2>2 DEF Written
<1>2. Now' = [Now EXCEPT ![s] = Now'[s]]
  <2>1. \A v \in Sources \ {s} : Now'[v] = Now[v]
    BY <1>1 DEF Now, Current
  <2> QED BY <2>1 DEF Now
<1>3. Now'[s].stamp = clock + 1 /\ Now[s].stamp = stamp[s] /\ stamp[s] \in Nat
  BY <1>1, CacheAssumption DEF Now
<1>4. Now'[s].stamp > Now[s].stamp
  BY <1>1, <1>3
<1>5. Asked' = Asked /\ Answers' = Answers
  BY <1>1 DEF Asked, Answers, AnswerOf
<1> QED BY <1>2, <1>4, <1>5 DEF Listing!Change, Now, Asked, Answers, AnswerOf

\* Listing files implements FileListing: the answer of a call is what its file
\* was at one moment of the call.
THEOREM ListsAtOnce == Spec => AnswersAtOnce
<1>1. Init => Listing!Init
  BY DEF Init, Listing!Init, Idle, Current
<1>2. IInv /\ [Next]_vars => [Listing!Next]_(Listing!vars)
  <2> SUFFICES ASSUME IInv, [Next]_vars PROVE [Listing!Next]_(Listing!vars)
    OBVIOUS
  <2>1. ASSUME NEW p \in Callers, List(p) PROVE [Listing!Next]_(Listing!vars)
    BY <2>1, CallerLists DEF Listing!Next, Listing!vars, Now, Asked, Answers, AnswerOf
  <2>2. ASSUME NEW s \in Sources, FileStep(s) PROVE Listing!Next
    BY <2>2, FileChanges DEF Listing!Next
  <2>3. CASE UNCHANGED vars
    BY <2>3 DEF vars, Listing!vars, Current
  <2> QED BY <2>1, <2>2, <2>3 DEF Next, FileStep
<1> QED BY <1>1, <1>2, Invariant, PTL DEF Spec, AnswersAtOnce, Listing!Spec
=============================================================================
