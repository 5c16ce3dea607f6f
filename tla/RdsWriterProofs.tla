--------------------------- MODULE RdsWriterProofs ---------------------------
(***************************************************************************)
(* Proofs about RdsWriter, for any requests of any number of calls and any   *)
(* faults.                                                                  *)
(*                                                                         *)
(* The first invariant, IInv, says how far each call is and that the path     *)
(* holds no part of a document; what a column is encoded as plays no part in   *)
(* it.  The second, WInv, says that what has been written is what was asked     *)
(* for; with it, and with what the encoding of a column is read as, what is     *)
(* read is what was written.                                                 *)
(***************************************************************************)
EXTENDS RdsWriter, FiniteSetTheorems, TLAPS

\* What a column, or the attributes of a frame, may be written as.
Vectors ==
  { _encode_column(r[w].frames[f].columns[i], r[w].int64, d, r[w].timezone) :
      r \in Requests, w \in Writers, f \in Nat, i \in Nat, d \in BOOLEAN }

AttributesOf(frame) ==
  [names |-> [i \in DOMAIN frame.columns |-> frame.columns[i].label], row_names |-> _row_names(frame.index)]

AttributeSets == { AttributesOf(r[w].frames[f]) : r \in Requests, w \in Writers, f \in Nat }

FrameSet == [vectors : Seq(Vectors), attributes : AttributeSets \cup {None}]

Typed ==
  /\ request \in Requests
  /\ document \in [Writers -> [frames : Seq(FrameSet), closed : BOOLEAN]]
  /\ pc \in [Writers -> States]
  /\ litter \subseteq Writers
  /\ faults \in 0 .. MaxFaults
  /\ target # None => target.by \in Writers \cup {None}

Written(w, f) == Len(document[w].frames[f].vectors)

\* Frame f has no more columns than it was asked for; all of them once its
\* attributes are there, and those are there before the next frame is opened.
FrameSound(w, f) ==
  /\ Written(w, f) <= Len(Frames(w)[f].columns)
  /\ Complete(w, f) => Written(w, f) = Len(Frames(w)[f].columns)
  /\ f < Open(w) => Complete(w, f)

DocumentSound(w) ==
  /\ Open(w) <= Len(Frames(w))
  /\ \A f \in 1 .. Open(w) : FrameSound(w, f)

\* What is ready for the path is whole.
ClosedWhole(w) ==
  pc[w] = "closed" =>
    Open(w) = Len(Frames(w)) /\ \A f \in 1 .. Open(w) : Complete(w, f)

\* A temporary file is that of a call at work for a file, and none before.
LitterSound(w) ==
  /\ w \in litter => pc[w] \in {"writing", "closed", "failing", "interrupted"} /\ request[w].output # "stream"
  /\ pc[w] = "validated" => request[w].output # "stream"

Sound(w) == DocumentSound(w) /\ ClosedWhole(w) /\ LitterSound(w)

IInv == Typed /\ (\A w \in Writers : Sound(w)) /\ TargetWhole

-----------------------------------------------------------------------------
\* A request's frames and columns are sequences.
LEMMA RequestSequences ==
  ASSUME request \in Requests, NEW w \in Writers
  PROVE  /\ Len(Frames(w)) \in Nat /\ DOMAIN Frames(w) = 1 .. Len(Frames(w))
         /\ \A f \in 1 .. Len(Frames(w)) : Len(Frames(w)[f].columns) \in Nat
<1>1. Frames(w) \in Seq(ToSet(Frames(w)))
  BY WriterAssumption DEF Frames
<1>2. Len(Frames(w)) \in Nat /\ DOMAIN Frames(w) = 1 .. Len(Frames(w))
  BY <1>1
<1>3. ASSUME NEW f \in 1 .. Len(Frames(w)) PROVE Len(Frames(w)[f].columns) \in Nat
  <2>1. Frames(w)[f].columns \in Seq(ToSet(Frames(w)[f].columns))
    BY <1>2, WriterAssumption DEF Frames
  <2> QED BY <2>1
<1> QED BY <1>2, <1>3

\* The frames written so far are a sequence of frames.
LEMMA DocumentSequences ==
  ASSUME Typed, NEW w \in Writers
  PROVE  /\ document[w].frames \in Seq(FrameSet) /\ Open(w) \in Nat
         /\ \A f \in 1 .. Open(w) : document[w].frames[f] \in FrameSet /\ Written(w, f) \in Nat
<1>1. document[w].frames \in Seq(FrameSet)
  BY DEF Typed
<1>2. ASSUME NEW f \in 1 .. Open(w) PROVE document[w].frames[f] \in FrameSet
  BY <1>1 DEF Open
<1>3. ASSUME NEW f \in 1 .. Open(w) PROVE Written(w, f) \in Nat
  <2>1. document[w].frames[f] \in FrameSet
    BY <1>2
  <2>2. document[w].frames[f].vectors \in Seq(Vectors)
    BY <2>1 DEF FrameSet
  <2>3. Len(document[w].frames[f].vectors) \in Nat
    BY <2>2
  <2> QED BY <2>3 DEF Written
<1> QED BY <1>1, <1>2, <1>3 DEF Open

LEMMA InitHolds == Init => IInv
<1> SUFFICES ASSUME Init PROVE IInv
  OBVIOUS
<1>1. Typed
  BY WriterAssumption DEF Init, Typed, Empty, States, FrameSet
<1>2. ASSUME NEW w \in Writers PROVE Sound(w)
  BY <1>1, RequestSequences DEF Init, Typed, Sound, DocumentSound, ClosedWhole, LitterSound, Open, Empty
<1>3. TargetWhole
  BY DEF Init, TargetWhole
<1> QED BY <1>1, <1>2, <1>3 DEF IInv

\* A step of one call leaves what concerns the others as it is.
LEMMA OthersKeep ==
  ASSUME NEW w \in Writers, NEW v \in Writers, v # w, Sound(v), Typed,
         request' = request, pc'[v] = pc[v], document'[v] = document[v],
         v \in litter' => v \in litter
  PROVE  Sound(v)'
BY DEF Sound, DocumentSound, FrameSound, ClosedWhole, LitterSound, Frames, Open, Written, Complete

\* A call that writes no document stays sound in what it has written.
LEMMA DocumentKeeps ==
  ASSUME NEW w \in Writers, DocumentSound(w), request' = request, document'[w] = document[w]
  PROVE  DocumentSound(w)'
BY DEF DocumentSound, FrameSound, Frames, Open, Written, Complete

\* The document at the path stays whole while its writer has returned.
LEMMA TargetKeeps ==
  ASSUME TargetWhole, request' = request, target' = target,
         \A v \in Writers : pc[v] = "done" => pc'[v] = "done", 
         target # None /\ target.by # None => target.by \in Writers
  PROVE  TargetWhole'
BY DEF TargetWhole, Frames

-----------------------------------------------------------------------------
\* The steps that write nothing into the document and leave the path alone.
Quiet(w) == Validate(w) \/ MakeTemporary(w) \/ Clean(w) \/ SystemRefuses(w) \/ Interrupt(w)

LEMMA QuietKeeps ==
  ASSUME IInv, NEW w \in Writers, Quiet(w)
  PROVE  IInv'
<1>1. /\ request' = request /\ document' = document /\ target' = target
      /\ \A v \in Writers \ {w} : pc'[v] = pc[v] /\ (v \in litter' => v \in litter)
      /\ pc[w] # "done" /\ pc'[w] # "closed"
  BY DEF IInv, Typed, Quiet, Validate, MakeTemporary, Clean, SystemRefuses, Interrupt, At
<1>2. Typed'
  <2>1. pc' \in [Writers -> States]
    BY DEF IInv, Typed, Quiet, Validate, MakeTemporary, Clean, SystemRefuses, Interrupt, At, States
  <2>2. litter' \subseteq Writers
    BY DEF IInv, Typed, Quiet, Validate, MakeTemporary, Clean, SystemRefuses, Interrupt
  <2>3. faults' \in 0 .. MaxFaults
    BY WriterAssumption DEF IInv, Typed, Quiet, Validate, MakeTemporary, Clean, SystemRefuses, Interrupt, Fault
  <2> QED BY <1>1, <2>1, <2>2, <2>3 DEF IInv, Typed
<1>3. Sound(w)'
  <2>1. DocumentSound(w)'
    BY <1>1, DocumentKeeps DEF IInv, Sound
  <2>2. ClosedWhole(w)'
    BY <1>1 DEF ClosedWhole
  <2>3. LitterSound(w)'
    BY DEF IInv, Typed, Sound, LitterSound, Quiet, Validate, MakeTemporary, Clean, SystemRefuses, Interrupt, At
  <2> QED BY <2>1, <2>2, <2>3 DEF Sound
<1>4. ASSUME NEW v \in Writers, v # w PROVE Sound(v)'
  BY <1>1, <1>4, OthersKeep DEF IInv
<1>5. TargetWhole'
  BY <1>1 DEF IInv, TargetWhole, Frames, Typed
<1> QED BY <1>2, <1>3, <1>4, <1>5 DEF IInv

\* The steps that write into the document.
Writes(w) == OpenFrame(w) \/ WriteColumn(w) \/ WriteAttributes(w) \/ Close(w)

LEMMA WritesOnly ==
  ASSUME IInv, NEW w \in Writers, Writes(w), Typed', Sound(w)'
  PROVE  IInv'
<1>1. /\ request' = request /\ litter' = litter /\ target' = target /\ pc[w] = "writing"
      /\ \A v \in Writers \ {w} : pc'[v] = pc[v] /\ document'[v] = document[v]
  BY DEF IInv, Typed, Writes, OpenFrame, WriteColumn, WriteAttributes, Close
<1>2. ASSUME NEW v \in Writers, v # w PROVE Sound(v)'
  BY <1>1, <1>2, OthersKeep DEF IInv
<1>3. TargetWhole'
  BY <1>1 DEF IInv, TargetWhole, Frames, Typed
<1> QED BY <1>2, <1>3 DEF IInv

LEMMA OpenFrameKeeps ==
  ASSUME IInv, NEW w \in Writers, OpenFrame(w)
  PROVE  IInv'
<1> DEFINE new == [vectors |-> <<>>, attributes |-> None]
<1>0. new \in FrameSet
  BY DEF FrameSet
<1>1. Open(w) \in Nat /\ document[w].frames \in Seq(FrameSet) /\ new \in FrameSet
  BY <1>0, DocumentSequences DEF IInv
<1>2. document'[w].frames = Append(document[w].frames, new) /\ document'[w].closed = document[w].closed
  BY DEF OpenFrame, IInv, Typed
<1>3. Typed'
  <2>1. Append(document[w].frames, new) \in Seq(FrameSet)
    BY <1>1
  <2> QED BY <2>1 DEF IInv, Typed, OpenFrame
<1>4. Open(w)' = Open(w) + 1
  BY <1>1, <1>2 DEF Open
<1>5. \A f \in 1 .. Open(w) : document'[w].frames[f] = document[w].frames[f]
  BY <1>1, <1>2 DEF Open
<1>6. document'[w].frames[Open(w) + 1] = new
  BY <1>1, <1>2 DEF Open
<1>7. DocumentSound(w)'
  <2>1. Open(w)' <= Len(Frames(w))'
    BY <1>1, <1>4, RequestSequences DEF IInv, Typed, OpenFrame, Frames
  <2>2. ASSUME NEW f \in 1 .. Open(w) PROVE FrameSound(w, f)'
    <3>1. FrameSound(w, f) /\ (f = Open(w) => Complete(w, f))
      BY <1>1 DEF IInv, Sound, DocumentSound, OpenFrame
    <3>2. f < Open(w) \/ f = Open(w)
      BY <1>1
    <3> QED BY <1>5, <3>1, <3>2 DEF FrameSound, Complete, Written, Frames, OpenFrame
  <2>3. ASSUME NEW f \in Nat, f = Open(w) + 1 PROVE FrameSound(w, f)'
    <3>1. Len(Frames(w)[f].columns) \in Nat
      BY <1>1, <2>3, RequestSequences DEF OpenFrame, IInv, Typed
    <3>2. document'[w].frames[f].attributes = None /\ Len(document'[w].frames[f].vectors) = 0
      BY <1>6, <2>3
    <3>3. request' = request /\ ~(f < Open(w)')
      BY <1>1, <1>4, <2>3 DEF OpenFrame
    <3> QED BY <1>1, <3>1, <3>2, <3>3 DEF FrameSound, Complete, Written, Frames
  <2>4. \A f \in 1 .. Open(w)' : f \in 1 .. Open(w) \/ (f \in Nat /\ f = Open(w) + 1)
    BY <1>1, <1>4
  <2>5. \A f \in 1 .. Open(w)' : FrameSound(w, f)'
    BY <2>2, <2>3, <2>4
  <2> QED BY <2>1, <2>5 DEF DocumentSound
<1>8. ClosedWhole(w)' /\ LitterSound(w)'
  BY DEF IInv, Sound, LitterSound, ClosedWhole, OpenFrame
<1> QED BY <1>3, <1>7, <1>8, WritesOnly DEF Writes, Sound

\* A step that changes only the frame that is open keeps the document sound.
LEMMA LastFrameKeeps ==
  ASSUME IInv, NEW w \in Writers, NEW last \in FrameSet, Open(w) > 0,
         request' = request,
         document' = [document EXCEPT ![w].frames[Open(w)] = last],
         Len(last.vectors) <= Len(Frames(w)[Open(w)].columns),
         last.attributes # None => Len(last.vectors) = Len(Frames(w)[Open(w)].columns)
  PROVE  /\ DocumentSound(w)' /\ Open(w)' = Open(w)
         /\ document' \in [Writers -> [frames : Seq(FrameSet), closed : BOOLEAN]]
         /\ \A v \in Writers \ {w} : document'[v] = document[v]
<1>1. Open(w) \in Nat /\ document[w].frames \in Seq(FrameSet) /\ document[w].closed \in BOOLEAN
  BY DocumentSequences DEF IInv, Typed
<1>2. document'[w] = [document[w] EXCEPT !.frames[Open(w)] = last]
  BY DEF IInv, Typed
<1>3. document'[w].frames = [document[w].frames EXCEPT ![Open(w)] = last] /\ document'[w].closed = document[w].closed
  BY <1>2 DEF IInv, Typed
<1>4. document'[w].frames \in Seq(FrameSet) /\ Len(document'[w].frames) = Open(w)
  BY <1>1, <1>3 DEF Open
<1>5. document'[w] \in [frames : Seq(FrameSet), closed : BOOLEAN]
  BY <1>1, <1>2, <1>3, <1>4 DEF IInv, Typed
<1>6. /\ document' \in [Writers -> [frames : Seq(FrameSet), closed : BOOLEAN]]
      /\ \A v \in Writers \ {w} : document'[v] = document[v]
  BY <1>5 DEF IInv, Typed
<1>7. Open(w)' = Open(w)
  BY <1>4 DEF Open
<1>8. ASSUME NEW f \in 1 .. Open(w) PROVE FrameSound(w, f)'
  <2>0. FrameSound(w, f)
    BY DEF IInv, Sound, DocumentSound
  <2>1. CASE f = Open(w)
    <3>1. document'[w].frames[f] = last
      BY <1>1, <1>3, <2>1 DEF Open
    <3> QED BY <1>1, <1>7, <2>1, <3>1 DEF FrameSound, Complete, Written, Frames
  <2>2. CASE f # Open(w)
    <3>1. document'[w].frames[f] = document[w].frames[f]
      BY <1>1, <1>3, <2>2 DEF Open
    <3> QED BY <1>7, <2>0, <3>1 DEF FrameSound, Complete, Written, Frames
  <2> QED BY <2>1, <2>2
<1>9. DocumentSound(w)'
  BY <1>7, <1>8 DEF IInv, Sound, DocumentSound, Frames
<1> QED BY <1>6, <1>7, <1>9

LEMMA FailingKeeps ==
  ASSUME IInv, NEW w \in Writers, Writes(w), pc' = [pc EXCEPT ![w] = "failing"], document' = document
  PROVE  IInv'
<1>1. request' = request /\ litter' = litter /\ pc[w] = "writing" /\ faults' = faults /\ target' = target
  BY DEF Writes, OpenFrame, WriteColumn, WriteAttributes, Close
<1>2. Typed'
  BY <1>1 DEF IInv, Typed, States
<1>3. Sound(w)'
  BY <1>1, DocumentKeeps DEF IInv, Typed, Sound, ClosedWhole, LitterSound
<1> QED BY <1>2, <1>3, WritesOnly

LEMMA WriteColumnKeeps ==
  ASSUME IInv, NEW w \in Writers, WriteColumn(w)
  PROVE  IInv'
<1> DEFINE f == Open(w)
           frame == document[w].frames[f]
           next == Len(frame.vectors) + 1
           column == Frames(w)[f].columns[next]
           vector == _encode_column(column, request[w].int64, column.label \in request[w].dates, request[w].timezone)
           last == [frame EXCEPT !.vectors = Append(@, vector)]
<1>1. CASE pc' = [pc EXCEPT ![w] = "failing"] /\ document' = document
  BY <1>1, FailingKeeps DEF Writes
<1>2. CASE pc' = pc /\ document' = [document EXCEPT ![w].frames[f].vectors = Append(@, vector)]
  <2>1. f \in Nat /\ f > 0 /\ f \in 1 .. Open(w) /\ next <= Len(Frames(w)[f].columns) /\ pc[w] = "writing"
    <3>1. f > 0 /\ next <= Len(Frames(w)[f].columns) /\ pc[w] = "writing"
      BY DEF WriteColumn
    <3>2. Open(w) \in Nat
      BY DocumentSequences DEF IInv
    <3>3. f = Open(w)
      OBVIOUS
    <3> HIDE DEF f, next
    <3> QED BY <3>1, <3>2, <3>3
  <2>2. document[w].frames \in Seq(FrameSet) /\ frame \in FrameSet
    BY <2>1, DocumentSequences DEF IInv, Open
  <2>3. vector \in Vectors
    <3> DEFINE date == column.label \in request[w].dates
    <3>1. next \in Nat
      <4>1. Written(w, f) \in Nat
        <5> HIDE DEF f
        <5> QED BY <2>1, DocumentSequences DEF IInv
      <4>2. next = Written(w, f) + 1
        BY DEF Written
      <4> HIDE DEF next
      <4> QED BY <4>1, <4>2
    <3>2. request \in Requests /\ date \in BOOLEAN
      <4>1. request \in Requests
        BY DEF IInv, Typed
      <4> HIDE DEF column
      <4> QED BY <4>1
    <3>3. vector = _encode_column(request[w].frames[f].columns[next], request[w].int64, date, request[w].timezone)
      BY DEF Frames
    <3> HIDE DEF f, next, date, vector
    <3> QED BY <2>1, <3>1, <3>2, <3>3 DEF Vectors
  <2>4. last \in FrameSet /\ Len(last.vectors) = next /\ last.attributes = frame.attributes
    <3> HIDE DEF vector, frame
    <3>1. frame.vectors \in Seq(Vectors) /\ frame.attributes \in AttributeSets \cup {None}
      BY <2>2 DEF FrameSet
    <3>2. Append(frame.vectors, vector) \in Seq(Vectors) /\ Len(Append(frame.vectors, vector)) = next
      BY <2>3, <3>1
    <3> QED BY <2>2, <3>1, <3>2 DEF FrameSet
  <2>5. frame.attributes = None
    <3>1. FrameSound(w, f) /\ Len(Frames(w)[f].columns) \in Nat
      BY <2>1, RequestSequences DEF IInv, Typed, Sound, DocumentSound
    <3> QED BY <2>1, <2>2, <3>1 DEF FrameSound, Complete, Written, FrameSet
  <2>6. document' = [document EXCEPT ![w].frames[f] = last]
    <3> HIDE DEF vector
    <3> QED BY <1>2 DEF IInv, Typed
  <2>7. request' = request /\ litter' = litter /\ faults' = faults /\ target' = target
    BY DEF WriteColumn
  <2>8. /\ DocumentSound(w)' /\ Open(w)' = Open(w)
        /\ document' \in [Writers -> [frames : Seq(FrameSet), closed : BOOLEAN]]
    <3> HIDE DEF last
    <3> QED BY <2>1, <2>4, <2>5, <2>6, <2>7, LastFrameKeeps
  <2>9. Typed'
    BY <1>2, <2>7, <2>8 DEF IInv, Typed
  <2>10. ClosedWhole(w)' /\ LitterSound(w)'
    BY <1>2, <2>1, <2>7 DEF IInv, Sound, ClosedWhole, LitterSound
  <2> QED BY <2>8, <2>9, <2>10, WritesOnly DEF Writes, Sound
<1> QED BY <1>1, <1>2 DEF WriteColumn

LEMMA WriteAttributesKeeps ==
  ASSUME IInv, NEW w \in Writers, WriteAttributes(w)
  PROVE  IInv'
<1> DEFINE f == Open(w)
           frame == document[w].frames[f]
           columns == Frames(w)[f].columns
           attributes == [names |-> [i \in DOMAIN columns |-> columns[i].label],
                          row_names |-> _row_names(Frames(w)[f].index)]
           last == [frame EXCEPT !.attributes = attributes]
<1>1. CASE pc' = [pc EXCEPT ![w] = "failing"] /\ document' = document
  BY <1>1, FailingKeeps DEF Writes
<1>2. CASE pc' = pc /\ document' = [document EXCEPT ![w].frames[f].attributes = attributes]
  <2>1. f \in Nat /\ f > 0 /\ f \in 1 .. Open(w) /\ Len(frame.vectors) = Len(columns) /\ pc[w] = "writing"
    BY DocumentSequences DEF WriteAttributes, IInv
  <2>2. document[w].frames \in Seq(FrameSet) /\ frame \in FrameSet
    BY <2>1, DocumentSequences DEF IInv, Open
  <2>3. attributes \in AttributeSets
    <3>1. request \in Requests
      BY DEF IInv, Typed
    <3>2. attributes = AttributesOf(request[w].frames[f])
      BY DEF AttributesOf, Frames
    <3> HIDE DEF f, attributes
    <3> QED BY <2>1, <3>1, <3>2 DEF AttributeSets
  <2>4. last \in FrameSet /\ last.vectors = frame.vectors
    <3> HIDE DEF attributes
    <3> QED BY <2>2, <2>3 DEF FrameSet
  <2>5. Len(columns) \in Nat
    BY <2>1, RequestSequences DEF IInv, Typed, Sound, DocumentSound
  <2>6. document' = [document EXCEPT ![w].frames[f] = last]
    <3> HIDE DEF attributes
    <3> QED BY <1>2 DEF IInv, Typed
  <2>7. request' = request /\ litter' = litter /\ faults' = faults /\ target' = target
    BY DEF WriteAttributes
  <2>8. /\ DocumentSound(w)' /\ Open(w)' = Open(w)
        /\ document' \in [Writers -> [frames : Seq(FrameSet), closed : BOOLEAN]]
    <3>1. /\ Len(last.vectors) = Len(Frames(w)[f].columns)
          /\ Len(last.vectors) <= Len(Frames(w)[f].columns)
      BY <2>1, <2>4, <2>5
    <3> HIDE DEF last, attributes
    <3> QED BY <2>1, <2>4, <2>6, <2>7, <3>1, LastFrameKeeps
  <2>9. Typed'
    BY <1>2, <2>7, <2>8 DEF IInv, Typed
  <2>10. ClosedWhole(w)' /\ LitterSound(w)'
    BY <1>2, <2>1, <2>7 DEF IInv, Sound, ClosedWhole, LitterSound
  <2> QED BY <2>8, <2>9, <2>10, WritesOnly DEF Writes, Sound
<1> QED BY <1>1, <1>2 DEF WriteAttributes

LEMMA CloseKeeps ==
  ASSUME IInv, NEW w \in Writers, Close(w)
  PROVE  IInv'
<1>1. /\ pc[w] = "writing" /\ pc'[w] \in {"done", "closed"} /\ (pc'[w] = "done" => request[w].output = "stream")
      /\ request' = request /\ litter' = litter /\ faults' = faults
  BY DEF Close, IInv, Typed
<1>2. document'[w].frames = document[w].frames
  BY DEF Close, IInv, Typed
<1>3. Typed'
  BY DEF IInv, Typed, Close, States
<1>4. DocumentSound(w)'
  BY <1>1, <1>2 DEF IInv, Sound, DocumentSound, FrameSound, Frames, Open, Written, Complete
<1>5. ClosedWhole(w)'
  <2>1. Open(w) = Len(Frames(w)) /\ Complete(w, Open(w)) /\ Open(w) \in Nat
    BY DocumentSequences DEF Close, IInv
  <2>2. \A f \in 1 .. Open(w) : Complete(w, f)
    <3>1. \A f \in 1 .. Open(w) : f < Open(w) \/ f = Open(w)
      BY <2>1
    <3> QED BY <2>1, <3>1 DEF IInv, Sound, DocumentSound, FrameSound
  <2> QED BY <1>1, <1>2, <2>1, <2>2 DEF ClosedWhole, Complete, Open, Frames
<1>6. LitterSound(w)'
  BY <1>1 DEF IInv, Sound, LitterSound
<1> QED BY <1>3, <1>4, <1>5, <1>6, WritesOnly DEF Writes, Sound

-----------------------------------------------------------------------------
LEMMA PublishKeeps ==
  ASSUME IInv, NEW w \in Writers, Publish(w)
  PROVE  IInv'
<1>1. /\ pc[w] = "closed" /\ pc'[w] = "done" /\ request' = request /\ document' = document
      /\ target' = [by |-> w, frames |-> document[w].frames]
      /\ \A v \in Writers \ {w} : pc'[v] = pc[v] /\ (v \in litter' => v \in litter)
  BY DEF Publish, At, IInv, Typed
<1>2. Typed'
  BY DEF IInv, Typed, Publish, At, States
<1>3. Sound(w)'
  <2>1. DocumentSound(w)'
    BY <1>1, DocumentKeeps DEF IInv, Sound
  <2> QED BY <1>1, <2>1 DEF Sound, ClosedWhole, LitterSound, Publish
<1>4. ASSUME NEW v \in Writers, v # w PROVE Sound(v)'
  BY <1>1, <1>4, OthersKeep DEF IInv
<1>5. TargetWhole'
  <2>1. target'.by = w /\ target'.frames = document[w].frames
    BY <1>1
  <2>2. Len(document[w].frames) = Len(Frames(w)) /\ DOMAIN document[w].frames = 1 .. Open(w)
    BY <1>1, DocumentSequences DEF IInv, Sound, ClosedWhole, Open
  <2>3. \A f \in 1 .. Open(w) : Complete(w, f) /\ FrameSound(w, f)
    BY <1>1 DEF IInv, Sound, ClosedWhole, DocumentSound
  <2>4. \A f \in 1 .. Open(w) : /\ document[w].frames[f].attributes # None
                                /\ Len(document[w].frames[f].vectors) = Len(Frames(w)[f].columns)
    BY <2>3 DEF FrameSound, Complete, Written
  <2>5. Frames(w)' = Frames(w)
    BY <1>1 DEF Frames
  <2> QED BY <1>1, <2>1, <2>2, <2>4, <2>5 DEF TargetWhole
<1> QED BY <1>2, <1>3, <1>4, <1>5 DEF IInv

LEMMA NextKeeps == IInv /\ [Next]_vars => IInv'
<1> SUFFICES ASSUME IInv, [Next]_vars PROVE IInv'
  OBVIOUS
<1>1. CASE Read \/ UNCHANGED vars
  <2>1. UNCHANGED <<request, document, pc, litter, target, faults>>
    BY <1>1 DEF Read, vars
  <2> QED BY <2>1 DEF IInv, Typed, Sound, DocumentSound, FrameSound, ClosedWhole, LitterSound,
            TargetWhole, Frames, Open, Written, Complete
<1>2. ASSUME NEW w \in Writers, Quiet(w) PROVE IInv'
  BY <1>2, QuietKeeps
<1>3. ASSUME NEW w \in Writers, Writes(w) \/ Publish(w) PROVE IInv'
  BY <1>3, OpenFrameKeeps, WriteColumnKeeps, WriteAttributesKeeps, CloseKeeps, PublishKeeps DEF Writes
<1> QED BY <1>1, <1>2, <1>3 DEF Next, Quiet, Writes

THEOREM Invariant == Spec => []IInv
BY InitHolds, NextKeeps, PTL DEF Spec

\* Calls of write_rds are in a state of their program, and no document has
\* more frames than were asked for.
THEOREM TypeCorrect == Spec => []TypeOK
<1>1. IInv => TypeOK
  BY DEF IInv, Typed, Sound, DocumentSound, TypeOK
<1> QED BY <1>1, Invariant, PTL

\* Whatever calls, faults and interrupts: the path holds a document of R, or
\* the whole of what a call was asked to write that has returned.
THEOREM WholeTarget == Spec => []TargetWhole
<1>1. IInv => TargetWhole
  BY DEF IInv
<1> QED BY <1>1, Invariant, PTL

\* A call that has returned or raised has left no temporary file, unless it
\* was interrupted.
THEOREM LeavesNoLitter == Spec => []NoLitter
<1>1. IInv => NoLitter
  BY DEF IInv, Typed, Sound, LitterSound, NoLitter
<1> QED BY <1>1, Invariant, PTL

-----------------------------------------------------------------------------
(* Numbers. *)

LEMMA ModSmall ==
  ASSUME NEW a \in Nat, NEW b \in Nat, a < b
  PROVE  a % b = a
OBVIOUS

LEMMA ProductDivides ==
  ASSUME NEW a \in Int, NEW b \in Nat \ {0}
  PROVE  (a * b) % b = 0 /\ (a * b) \div b = a
OBVIOUS

LEMMA Divides ==
  ASSUME NEW a \in Int, NEW b \in Nat \ {0}, a % b = 0
  PROVE  (a \div b) * b = a /\ a \div b \in Int
OBVIOUS

\* A conversion changes no integer that has a place in the new type.
LEMMA WrappedIs ==
  ASSUME NEW max \in Nat, NEW v \in Int, -max - 1 <= v, v <= max
  PROVE  Wrapped(v, max) = v
<1>1. v + max + 1 \in Nat /\ 2 * (max + 1) \in Nat /\ v + max + 1 < 2 * (max + 1)
  OBVIOUS
<1>2. (v + max + 1) % (2 * (max + 1)) = v + max + 1
  BY <1>1, ModSmall
<1> QED BY <1>2 DEF Wrapped

LEMMA NearestIs ==
  ASSUME NEW a \in Int, NEW b \in Nat \ {0}
  PROVE  rint(a, b) \in Int /\ (b = 1 => rint(a, b) = a)
<1> DEFINE down == a \div b
           rest == 2 * (a % b)
<1>1. down \in Int /\ rest \in Nat /\ (b = 1 => down = a /\ rest = 0)
  OBVIOUS
<1>2. rint(a, b) = IF rest > b \/ (rest = b /\ down % 2 = 1) THEN down + 1 ELSE down
  BY Zenon DEF rint
<1> HIDE DEF down, rest
<1> QED BY <1>1, <1>2

\* Of the integers of 64 bits, signed or not, each has a double.
LEMMA DoubleIs ==
  ASSUME NEW v \in -2 * Int64Max - 1 .. 2 * Int64Max + 1
  PROVE  /\ float64(v) \in Int
         /\ v \in -ExactLimit .. ExactLimit => float64(v) = v
<1> DEFINE size == Size(v)
           step == StepAt(size)
<1>1. /\ v \in Int /\ size \in 0 .. 2 * Int64Max + 1 /\ ExactLimit \in Nat \ {0} /\ Int64Max \in Nat
      /\ v \in -ExactLimit .. ExactLimit => size <= ExactLimit
  BY NumbersAssumption DEF Size
<1>2. float64(v) = rint(v, step) * step
  BY DEF float64
<1>3. step = CHOOSE s \in Steps : Apart(size, s)
  BY Zenon DEF StepAt
<1> HIDE DEF size, step
<1>4. \E s \in Steps : Apart(size, s)
  BY <1>1, NumbersAssumption
<1>5. step \in Steps /\ Apart(size, step)
  BY <1>3, <1>4
<1>6. step \in Nat \ {0}
  BY <1>5, NumbersAssumption
<1>7. rint(v, step) \in Int /\ (step = 1 => rint(v, step) = v)
  BY <1>1, <1>6, NearestIs
<1>8. float64(v) \in Int
  BY <1>2, <1>6, <1>7
<1>9. ASSUME v \in -ExactLimit .. ExactLimit, step # 1 PROVE FALSE
  <2> DEFINE half == step \div 2
  <2>1. half \in Nat \ {0}
    BY <1>6, <1>9
  <2>2. size > ExactLimit * half
    BY <1>5, <1>9 DEF Apart
  <2> HIDE DEF half
  <2>3. ExactLimit * half >= ExactLimit
    BY <1>1, <2>1
  <2>4. ExactLimit * half \in Nat /\ size <= ExactLimit
    BY <1>1, <1>9, <2>1
  <2> QED BY <1>1, <2>2, <2>3, <2>4
<1>10. ASSUME v \in -ExactLimit .. ExactLimit PROVE float64(v) = v
  <2>1. step = 1
    BY <1>9, <1>10
  <2> QED BY <1>1, <1>2, <1>7, <2>1
<1> QED BY <1>8, <1>10

-----------------------------------------------------------------------------
(* Factors. *)

\* A set of numbers has a least one: the intervals below its members are finite
\* sets, and among finite sets one is least.
LEMMA LeastNumber ==
  ASSUME NEW T, T \subseteq Nat, T # {}
  PROVE  \E x \in T : \A y \in T : x <= y
<1> DEFINE Intervals == {1 .. k : k \in T}
<1>1. IsWellFoundedOn(StrictSubsetOrdering(Nat), FiniteSubsetsOf(Nat))
  BY FS_StrictSubsetOrderingWellFounded
<1>2. Intervals \subseteq FiniteSubsetsOf(Nat)
  <2> SUFFICES ASSUME NEW k \in T PROVE 1 .. k \in FiniteSubsetsOf(Nat)
    OBVIOUS
  <2>1. IsFiniteSet(1 .. k)
    BY FS_Interval
  <2>2. 1 .. k \in SUBSET Nat
    OBVIOUS
  <2> QED BY <2>1, <2>2 DEF FiniteSubsetsOf
<1>3. Intervals # {}
  OBVIOUS
<1> HIDE DEF Intervals
<1>4. PICK s \in Intervals : \A u \in Intervals : ~(<<u, s>> \in StrictSubsetOrdering(Nat))
  BY <1>1, <1>2, <1>3, WFMin
<1>5. PICK x \in T : s = 1 .. x
  BY <1>4 DEF Intervals
<1>6. ASSUME NEW y \in T, y < x PROVE FALSE
  <2>1. 1 .. y \in Intervals
    BY DEF Intervals
  <2>2. 1 .. y \subseteq 1 .. x /\ x \in 1 .. x /\ x \notin 1 .. y
    BY <1>6
  <2>3. 1 .. y \in SUBSET Nat /\ 1 .. x \in SUBSET Nat /\ 1 .. y # 1 .. x
    BY <2>2
  <2>4. <<1 .. y, 1 .. x>> \in StrictSubsetOrdering(Nat)
    BY <2>2, <2>3 DEF StrictSubsetOrdering
  <2> QED BY <1>4, <1>5, <2>1, <2>4
<1> QED BY <1>5, <1>6

\* The levels that are no NA.
Real(levels) == { l \in DOMAIN levels : levels[l] # Missing }

KeepsOne(levels, n, kept) == IF n \in Real(levels) THEN Append(kept, levels[n]) ELSE kept

\* g are the levels that are kept after each of the first m.
Keeping(g, levels, m) ==
  g = [n \in 0 .. m |-> IF n = 0 THEN <<>> ELSE KeepsOne(levels, n, g[n - 1])]

LEMMA KeepingGoesOn ==
  ASSUME NEW levels, NEW m \in Nat, NEW g, Keeping(g, levels, m)
  PROVE  \E h : Keeping(h, levels, m + 1)
<1> DEFINE U(k, kept) == KeepsOne(levels, k, kept)
           h == [k \in 0 .. m + 1 |-> IF k = m + 1 THEN U(m + 1, g[m]) ELSE g[k]]
<1>1. g = [k \in 0 .. m |-> IF k = 0 THEN <<>> ELSE U(k, g[k - 1])]
  BY Zenon DEF Keeping
<1> SUFFICES h = [k \in 0 .. m + 1 |-> IF k = 0 THEN <<>> ELSE U(k, h[k - 1])]
  BY Zenon DEF Keeping
<1> HIDE DEF U
<1>2. \A k \in 0 .. m : h[k] = g[k]
  OBVIOUS
<1>3. h[m + 1] = U(m + 1, g[m])
  OBVIOUS
<1>4. h = [k \in 0 .. m + 1 |-> h[k]]
  OBVIOUS
<1> HIDE DEF h
<1>5. ASSUME NEW k \in 0 .. m + 1
      PROVE  h[k] = IF k = 0 THEN <<>> ELSE U(k, h[k - 1])
  <2>1. CASE k = m + 1
    <3>1. k # 0 /\ k - 1 = m /\ m \in 0 .. m
      BY <2>1
    <3> QED BY <1>2, <1>3, <2>1, <3>1
  <2>2. CASE k # m + 1
    <3>1. k \in 0 .. m /\ (k # 0 => k - 1 \in 0 .. m)
      BY <2>2
    <3> QED BY <1>1, <1>2, <3>1
  <2> QED BY <2>1, <2>2
<1> QED BY <1>4, <1>5

LEMMA KeepingExists ==
  ASSUME NEW levels, NEW m \in Nat
  PROVE  \E g : Keeping(g, levels, m)
<1> DEFINE T == { k \in Nat : ~ \E g : Keeping(g, levels, k) }
<1> SUFFICES ASSUME T # {} PROVE FALSE
  OBVIOUS
<1>1. PICK k \in T : \A i \in T : k <= i
  BY LeastNumber
<1>2. CASE k = 0
  <2>1. Keeping([i \in 0 .. 0 |-> <<>>], levels, 0)
    BY DEF Keeping
  <2> QED BY <1>1, <1>2, <2>1
<1>3. CASE k # 0
  <2>1. k - 1 \in Nat /\ (k - 1) + 1 = k /\ k - 1 \notin T
    BY <1>1, <1>3
  <2>2. \E g : Keeping(g, levels, k - 1)
    BY <2>1
  <2>3. \E g : Keeping(g, levels, k)
    BY <2>1, <2>2, KeepingGoesOn
  <2> QED BY <1>1, <2>3
<1> QED BY <1>2, <1>3

Below(levels, n) == Cardinality({ k \in Real(levels) : k < n })

LEMMA BelowGrows ==
  ASSUME NEW levels, levels \in Seq(ToSet(levels))
  PROVE  /\ \A n \in Nat : Below(levels, n) \in Nat
         /\ Below(levels, 1) = 0
         /\ \A n \in Nat : Below(levels, n + 1) = IF n \in Real(levels) THEN Below(levels, n) + 1 ELSE Below(levels, n)
<1> DEFINE B(n) == { k \in Real(levels) : k < n }
<1>1. DOMAIN levels = 1 .. Len(levels) /\ Len(levels) \in Nat
  OBVIOUS
<1>2. Real(levels) \subseteq 1 .. Len(levels)
  BY <1>1 DEF Real
<1>3. ASSUME NEW n \in Nat PROVE IsFiniteSet(B(n))
  <2>1. IsFiniteSet(1 .. Len(levels)) /\ B(n) \subseteq 1 .. Len(levels)
    BY <1>1, <1>2, FS_Interval
  <2> QED BY <2>1, FS_Subset
<1>4. ASSUME NEW n \in Nat PROVE Below(levels, n) \in Nat
  <2>1. Cardinality(B(n)) \in Nat
    BY <1>3, FS_CardinalityType
  <2> QED BY <2>1 DEF Below
<1>5. Below(levels, 1) = 0
  <2>1. B(1) = {}
    BY <1>2
  <2> QED BY <2>1, FS_EmptySet DEF Below
<1>6. ASSUME NEW n \in Nat
      PROVE  Below(levels, n + 1) = IF n \in Real(levels) THEN Below(levels, n) + 1 ELSE Below(levels, n)
  <2>1. CASE n \in Real(levels)
    <3>1. B(n + 1) = B(n) \cup {n} /\ n \notin B(n)
      BY <1>2, <2>1
    <3>2. Cardinality(B(n) \cup {n}) = Cardinality(B(n)) + 1
      <4> HIDE DEF B
      <4> QED BY <1>3, <3>1, FS_AddElement
    <3> QED BY <2>1, <3>1, <3>2 DEF Below
  <2>2. CASE n \notin Real(levels)
    <3>1. B(n + 1) = B(n)
      BY <1>2, <2>2
    <3> QED BY <2>2, <3>1 DEF Below
  <2> QED BY <2>1, <2>2
<1> QED BY <1>4, <1>5, <1>6

\* What a code of a factor is read as: its level, or missing if it has none or
\* its level is NA.
LEMMA FactorIs ==
  ASSUME NEW codes, NEW levels, levels \in Seq(ToSet(levels)),
         NEW factor, factor = factor_codes_and_categories(codes, levels)
  PROVE  /\ DOMAIN factor.codes = DOMAIN codes
         /\ \A k \in DOMAIN codes :
              IF codes[k] \in Real(levels)
              THEN factor.codes[k] # -1 /\ factor.categories[factor.codes[k] + 1] = levels[codes[k]]
              ELSE factor.codes[k] = -1
<1> DEFINE N == Len(levels)
           mapping == [l \in Real(levels) |-> Below(levels, l)]
           Is(g) == g = [n \in 0 .. N |-> IF n = 0 THEN <<>> ELSE KeepsOne(levels, n, g[n - 1])]
           kept == CHOOSE g : Is(g)
           S == ToSet(levels)
<1>1. N \in Nat /\ DOMAIN levels = 1 .. N /\ Real(levels) \subseteq 1 .. N
  BY DEF Real
<1>2. factor = [codes |-> [i \in DOMAIN codes |-> IF codes[i] \in Real(levels) THEN mapping[codes[i]] ELSE -1],
                categories |-> kept[N]]
  BY Zenon DEF factor_codes_and_categories, Real, Below, KeepsOne
<1>3. Is(kept)
  <2>1. \E g : Keeping(g, levels, N)
    BY <1>1, KeepingExists
  <2>2. \E g : Is(g)
    BY <2>1, Zenon DEF Keeping
  <2> QED BY <2>2, Zenon
<1>4. kept[0] = <<>> /\ \A n \in 1 .. N : kept[n] = KeepsOne(levels, n, kept[n - 1])
  <2> DEFINE U(n, done) == KeepsOne(levels, n, done)
             g == kept
  <2>1. g = [n \in 0 .. N |-> IF n = 0 THEN <<>> ELSE U(n, g[n - 1])]
    BY <1>3, Zenon
  <2> HIDE DEF U, g, N
  <2>2. g[0] = <<>> /\ \A n \in 1 .. N : g[n] = U(n, g[n - 1])
    BY <1>1, <2>1
  <2> QED BY <2>2 DEF U, g
<1> HIDE DEF kept, N, mapping
<1> DEFINE Right(n) ==
             /\ kept[n] \in Seq(S) /\ Len(kept[n]) = Below(levels, n + 1)
             /\ \A l \in Real(levels) : l <= n =>
                  Below(levels, l) + 1 \in 1 .. Len(kept[n]) /\ kept[n][Below(levels, l) + 1] = levels[l]
           T == { n \in 0 .. N : ~Right(n) }
<1>5. Right(0)
  <2>1. Below(levels, 0 + 1) = 0
    BY BelowGrows
  <2> QED BY <1>1, <1>4, <2>1
<1>6. ASSUME NEW n \in 1 .. N, Right(n - 1) PROVE Right(n)
  <2>1. n \in Nat /\ (n - 1) + 1 = n
    BY <1>1
  <2>2. kept[n - 1] \in Seq(S) /\ Len(kept[n - 1]) = Below(levels, n) /\ Below(levels, n) \in Nat
    BY <1>6, <2>1, BelowGrows
  <2>3. Below(levels, n + 1) = IF n \in Real(levels) THEN Below(levels, n) + 1 ELSE Below(levels, n)
    BY <2>1, BelowGrows
  <2>4. kept[n] = KeepsOne(levels, n, kept[n - 1])
    BY <1>4
  <2> DEFINE before == kept[n - 1]
             at(l) == Below(levels, l)
             m == at(n)
  <2>5. before \in Seq(S) /\ Len(before) = m /\ m \in Nat
    BY <2>2
  <2>6. \A l \in Real(levels) : l <= n - 1 => at(l) + 1 \in 1 .. m /\ before[at(l) + 1] = levels[l]
    BY <1>6, <2>5
  <2>7. CASE n \in Real(levels)
    <3>1. kept[n] = Append(before, levels[n]) /\ at(n + 1) = m + 1
      BY <2>3, <2>4, <2>7 DEF KeepsOne
    <3>2. levels[n] \in S
      BY <1>1 DEF ToSet
    <3> DEFINE after == Append(before, levels[n])
    <3> HIDE DEF before, m
    <3>3. /\ after \in Seq(S) /\ Len(after) = m + 1 /\ after[m + 1] = levels[n]
          /\ \A i \in 1 .. m : after[i] = before[i]
      BY <2>5, <3>2
    <3> HIDE DEF after, at
    <3>4. ASSUME NEW l \in Real(levels), l <= n PROVE at(l) + 1 \in 1 .. m + 1 /\ after[at(l) + 1] = levels[l]
      <4>1. l \in Nat /\ (l <= n - 1 \/ l = n)
        BY <1>1, <2>1, <3>4
      <4>2. CASE l <= n - 1
        <5>1. at(l) + 1 \in 1 .. m /\ before[at(l) + 1] = levels[l]
          BY <2>6, <4>2
        <5>2. after[at(l) + 1] = before[at(l) + 1]
          BY <3>3, <5>1
        <5>3. at(l) + 1 \in 1 .. m + 1
          BY <2>5, <5>1
        <5> QED BY <5>1, <5>2, <5>3
      <4>3. CASE l = n
        <5>1. at(l) = m
          BY <4>3 DEF m
        <5>2. m + 1 \in 1 .. m + 1
          BY <2>5
        <5> QED BY <3>3, <4>3, <5>1, <5>2
      <4> QED BY <4>1, <4>2, <4>3
    <3>5. kept[n] = after
      BY <3>1 DEF after
    <3> QED BY <3>1, <3>3, <3>4, <3>5 DEF at
  <2>8. CASE n \notin Real(levels)
    <3>1. kept[n] = before /\ at(n + 1) = m
      BY <2>3, <2>4, <2>8 DEF KeepsOne
    <3> HIDE DEF before, m
    <3>2. ASSUME NEW l \in Real(levels), l <= n PROVE at(l) + 1 \in 1 .. m /\ before[at(l) + 1] = levels[l]
      <4>1. l <= n - 1
        BY <1>1, <2>1, <2>8, <3>2
      <4> HIDE DEF at
      <4> QED BY <2>6, <4>1
    <3> QED BY <2>5, <3>1, <3>2
  <2> QED BY <2>7, <2>8
<1>7. T = {}
  <2> SUFFICES ASSUME T # {} PROVE FALSE
    OBVIOUS
  <2>1. T \subseteq Nat
    BY <1>1
  <2>2. PICK k \in T : \A j \in T : k <= j
    <3> HIDE DEF T
    <3> QED BY <2>1, LeastNumber
  <2>3. k # 0
    BY <1>5, <2>2
  <2>4. k \in 1 .. N /\ k - 1 \in 0 .. N /\ ~(k <= k - 1)
    BY <1>1, <2>2, <2>3
  <2>5. Right(k - 1)
    BY <2>2, <2>4
  <2> QED BY <1>6, <2>2, <2>4, <2>5
<1>8. Right(N)
  <2>1. N \in 0 .. N
    BY <1>1
  <2> QED BY <1>7, <2>1
<1>9. /\ factor.codes = [i \in DOMAIN codes |-> IF codes[i] \in Real(levels) THEN mapping[codes[i]] ELSE -1]
      /\ factor.categories = kept[N]
  BY <1>2
<1>10. ASSUME NEW l \in Real(levels)
       PROVE  mapping[l] # -1 /\ factor.categories[mapping[l] + 1] = levels[l]
  <2>1. l \in Nat /\ l <= N
    BY <1>1
  <2>2. mapping[l] = Below(levels, l)
    BY DEF mapping
  <2>3. mapping[l] \in Nat
    BY <2>1, <2>2, BelowGrows
  <2> QED BY <1>8, <1>9, <2>1, <2>2, <2>3
<1> QED BY <1>9, <1>10

-----------------------------------------------------------------------------
(* A vector that is read. *)

Integers(cells) == [i \in DOMAIN cells |-> IF cells[i] = NA_INTEGER THEN Missing ELSE cells[i]]

LEMMA ReadingIs ==
  ASSUME NEW vector
  PROVE  /\ vector.sexp = "INTSXP" /\ vector.class = <<>> => Cells(_column_to_pandas(vector)) = Integers(vector.cells)
         /\ vector.sexp = "LGLSXP" => Cells(_column_to_pandas(vector)) = Integers(vector.cells)
         /\ vector.sexp = "STRSXP" => Cells(_column_to_pandas(vector)) = vector.cells
         /\ vector.sexp = "REALSXP" /\ vector.class = <<"Date">> =>
              Cells(_column_to_pandas(vector)) = _numpy_temporal(DaySeconds(vector.cells))
         /\ vector.sexp = "REALSXP" /\ vector.class \in {<<"POSIXct", "POSIXt">>, <<"difftime">>} =>
              Cells(_column_to_pandas(vector)) = _numpy_temporal(vector.cells)
         /\ vector.sexp = "REALSXP" /\ vector.class = <<>> => Cells(_column_to_pandas(vector)) = Reals(vector.cells)
<1> DEFINE read == _column_to_pandas(vector)
           cells == vector.cells
           factor == factor_codes_and_categories(cells, vector.levels)
           times == _numpy_temporal(cells)
           days == _numpy_temporal(DaySeconds(cells))
<1>1. /\ ToSet(<<>>) = {} /\ ToSet(<<"Date">>) = {"Date"} /\ ToSet(<<"difftime">>) = {"difftime"}
      /\ ToSet(<<"POSIXct", "POSIXt">>) = {"POSIXct", "POSIXt"}
  BY DEF ToSet
<1>2. read = CASE vector.sexp = "INTSXP" /\ "factor" \in ToSet(vector.class) ->
                    [Shown("categorical", factor.codes) EXCEPT !.categories = factor.categories]
               [] vector.sexp = "INTSXP" /\ vector.class = <<>> -> Shown("integer", Integers(cells))
               [] vector.sexp = "LGLSXP" -> Shown("bool", Integers(cells))
               [] vector.sexp = "STRSXP" -> Shown("string", cells)
               [] vector.sexp = "REALSXP" /\ "Date" \in ToSet(vector.class) -> Shown("naive", days)
               [] vector.sexp = "REALSXP" /\ "POSIXct" \in ToSet(vector.class) ->
                    [Shown("aware", times) EXCEPT !.zone = vector.zone]
               [] vector.sexp = "REALSXP" /\ "difftime" \in ToSet(vector.class) -> Shown("delta", times)
               [] vector.sexp = "REALSXP" /\ vector.class = <<>> -> Shown("float", Reals(cells))
  BY Zenon DEF _column_to_pandas, Integers
<1>3. ASSUME NEW dtype, NEW x, dtype # "categorical"
      PROVE  Cells(Shown(dtype, x)) = x /\ Cells([Shown(dtype, x) EXCEPT !.zone = vector.zone]) = x
  BY <1>3 DEF Cells, Shown
<1> HIDE DEF factor, read, times, days
<1>4. ASSUME vector.sexp = "INTSXP" /\ vector.class = <<>> PROVE Cells(read) = Integers(cells)
  <2>1. read = Shown("integer", Integers(cells))
    BY <1>1, <1>2, <1>4
  <2>2. "integer" # "categorical"
    OBVIOUS
  <2>3. Cells(Shown("integer", Integers(cells))) = Integers(cells)
    BY <1>3, <2>2
  <2> QED BY <2>1, <2>3
<1>5. ASSUME vector.sexp = "LGLSXP" PROVE Cells(read) = Integers(cells)
  <2>1. read = Shown("bool", Integers(cells))
    BY <1>1, <1>2, <1>5
  <2>2. "bool" # "categorical"
    OBVIOUS
  <2>3. Cells(Shown("bool", Integers(cells))) = Integers(cells)
    BY <1>3, <2>2
  <2> QED BY <2>1, <2>3
<1>6. ASSUME vector.sexp = "STRSXP" PROVE Cells(read) = cells
  <2>1. read = Shown("string", cells)
    BY <1>1, <1>2, <1>6
  <2>2. "string" # "categorical"
    OBVIOUS
  <2>3. Cells(Shown("string", cells)) = cells
    BY <1>3, <2>2
  <2> QED BY <2>1, <2>3
<1>7. ASSUME vector.sexp = "REALSXP" /\ vector.class = <<"Date">> PROVE Cells(read) = days
  <2>1. read = Shown("naive", days)
    BY <1>1, <1>2, <1>7
  <2>2. "naive" # "categorical"
    OBVIOUS
  <2>3. Cells(Shown("naive", days)) = days
    BY <1>3, <2>2
  <2> QED BY <2>1, <2>3
<1>8. ASSUME vector.sexp = "REALSXP" /\ vector.class = <<"POSIXct", "POSIXt">> PROVE Cells(read) = times
  <2>1. read = [Shown("aware", times) EXCEPT !.zone = vector.zone]
    BY <1>1, <1>2, <1>8
  <2>2. "aware" # "categorical"
    OBVIOUS
  <2>3. Cells([Shown("aware", times) EXCEPT !.zone = vector.zone]) = times
    BY <1>3, <2>2
  <2> QED BY <2>1, <2>3
<1>9. ASSUME vector.sexp = "REALSXP" /\ vector.class = <<"difftime">> PROVE Cells(read) = times
  <2>1. read = Shown("delta", times)
    BY <1>1, <1>2, <1>9
  <2>2. "delta" # "categorical"
    OBVIOUS
  <2>3. Cells(Shown("delta", times)) = times
    BY <1>3, <2>2
  <2> QED BY <2>1, <2>3
<1>10. ASSUME vector.sexp = "REALSXP" /\ vector.class = <<>> PROVE Cells(read) = Reals(cells)
  <2>1. read = Shown("float", Reals(cells))
    BY <1>1, <1>2, <1>10
  <2>2. "float" # "categorical"
    OBVIOUS
  <2>3. Cells(Shown("float", Reals(cells))) = Reals(cells)
    BY <1>3, <2>2
  <2> QED BY <2>1, <2>3
<1> QED BY <1>4, <1>5, <1>6, <1>7, <1>8, <1>9, <1>10 DEF read, times, days

\* A factor that is read, whoever wrote it.
LEMMA FactorCells ==
  ASSUME NEW vector, vector.sexp = "INTSXP", "factor" \in ToSet(vector.class),
         vector.levels \in Seq(ToSet(vector.levels))
  PROVE  Cells(_column_to_pandas(vector)) =
           [k \in DOMAIN vector.cells |->
              IF vector.cells[k] \in DOMAIN vector.levels THEN vector.levels[vector.cells[k]] ELSE Missing]
<1> DEFINE read == _column_to_pandas(vector)
           codes == vector.cells
           levels == vector.levels
           factor == factor_codes_and_categories(codes, levels)
<1>1. read = [Shown("categorical", factor.codes) EXCEPT !.categories = factor.categories]
  <2> DEFINE first == [Shown("categorical", factor.codes) EXCEPT !.categories = factor.categories]
  <2>1. vector.sexp = "INTSXP" /\ "factor" \in ToSet(vector.class)
    OBVIOUS
  <2>2. vector.sexp # "LGLSXP" /\ vector.sexp # "STRSXP" /\ vector.sexp # "REALSXP"
    BY <2>1
  <2>3. vector.class # <<>>
    BY <2>1 DEF ToSet
  <2>4. read = CASE vector.sexp = "INTSXP" /\ "factor" \in ToSet(vector.class) -> first
                 [] vector.sexp = "INTSXP" /\ vector.class = <<>> -> Shown("integer", Integers(codes))
                 [] vector.sexp = "LGLSXP" -> Shown("bool", Integers(codes))
                 [] vector.sexp = "STRSXP" -> Shown("string", codes)
                 [] vector.sexp = "REALSXP" /\ "Date" \in ToSet(vector.class) -> Shown("naive", _numpy_temporal(DaySeconds(codes)))
                 [] vector.sexp = "REALSXP" /\ "POSIXct" \in ToSet(vector.class) ->
                      [Shown("aware", _numpy_temporal(codes)) EXCEPT !.zone = vector.zone]
                 [] vector.sexp = "REALSXP" /\ "difftime" \in ToSet(vector.class) -> Shown("delta", _numpy_temporal(codes))
                 [] vector.sexp = "REALSXP" /\ vector.class = <<>> -> Shown("float", Reals(codes))
    BY Zenon DEF _column_to_pandas, Integers
  <2> HIDE DEF first, read
  <2>5. read = first
    BY <2>1, <2>2, <2>3, <2>4
  <2> QED BY <2>5 DEF first
<1> HIDE DEF factor, read
<1>2. read.dtype = "categorical" /\ read.cells = factor.codes /\ read.categories = factor.categories
  BY <1>1 DEF Shown
<1>3. Cells(read) = [k \in DOMAIN factor.codes |-> IF factor.codes[k] = -1 THEN Missing ELSE factor.categories[factor.codes[k] + 1]]
  BY <1>2 DEF Cells
<1>4. /\ DOMAIN factor.codes = DOMAIN codes
      /\ \A k \in DOMAIN codes :
              IF codes[k] \in Real(levels)
              THEN factor.codes[k] # -1 /\ factor.categories[factor.codes[k] + 1] = levels[codes[k]]
              ELSE factor.codes[k] = -1
  BY FactorIs DEF factor
<1>5. \A k \in DOMAIN codes : codes[k] \in Real(levels) <=> codes[k] \in DOMAIN levels /\ levels[codes[k]] # Missing
  BY DEF Real
<1>6. \A k \in DOMAIN codes : (IF factor.codes[k] = -1 THEN Missing ELSE factor.categories[factor.codes[k] + 1])
                                = IF codes[k] \in DOMAIN levels THEN levels[codes[k]] ELSE Missing
  BY <1>4, <1>5
<1> QED BY <1>3, <1>4, <1>6 DEF read

-----------------------------------------------------------------------------
(* A column that is written and read. *)

LEMMA Int32Back ==
  ASSUME NEW cells, \A i \in DOMAIN cells : cells[i] = Missing \/ cells[i] \in -Int32Max .. Int32Max
  PROVE  Integers(_int32_be(toInt64(cells), cells)) = [i \in DOMAIN cells |-> cells[i]]
<1> DEFINE values == toInt64(cells)
           file == _int32_be(values, cells)
<1>1. Int32Max \in Nat /\ Int64Max \in Nat /\ Int32Max <= Int64Max /\ NA_INTEGER = -Int32Max - 1
  BY NumbersAssumption DEF NA_INTEGER
<1>2. values = [i \in DOMAIN cells |-> IF cells[i] = Missing THEN 0 ELSE Wrapped(cells[i], Int64Max)]
  BY DEF toInt64
<1>3. file = [i \in DOMAIN cells |-> IF cells[i] = Missing THEN NA_INTEGER ELSE Wrapped(values[i], Int32Max)]
  BY DEF _int32_be
<1> HIDE DEF values, file
<1>4. ASSUME NEW i \in DOMAIN cells, cells[i] # Missing PROVE file[i] = cells[i] /\ cells[i] # NA_INTEGER
  <2>1. cells[i] \in Int /\ -Int32Max <= cells[i] /\ cells[i] <= Int32Max
    BY <1>1, <1>4
  <2>2. Wrapped(cells[i], Int64Max) = cells[i]
    BY <1>1, <2>1, WrappedIs
  <2>3. values[i] = cells[i]
    BY <1>2, <1>4, <2>2
  <2>4. Wrapped(values[i], Int32Max) = cells[i]
    BY <1>1, <2>1, <2>3, WrappedIs
  <2>5. file[i] = cells[i]
    BY <1>3, <1>4, <2>4
  <2> QED BY <1>1, <2>1, <2>5
<1>5. ASSUME NEW i \in DOMAIN cells PROVE (IF file[i] = NA_INTEGER THEN Missing ELSE file[i]) = cells[i]
  <2>1. cells[i] = Missing => file[i] = NA_INTEGER
    BY <1>3
  <2> QED BY <1>4, <2>1
<1>6. DOMAIN file = DOMAIN cells
  BY <1>3
<1>7. Integers(file) = [i \in DOMAIN cells |-> cells[i]]
  BY <1>5, <1>6 DEF Integers
<1> QED BY <1>7 DEF file, values

LEMMA RealsBack ==
  ASSUME NEW cells, NEW values, \A i \in DOMAIN cells : cells[i] # Missing => values[i] \in Int
  PROVE  Reals(_double_be(values, cells)) =
           [i \in DOMAIN cells |-> IF cells[i] = Missing THEN Missing ELSE values[i]]
<1>1. NaReal \notin Int
  BY NumbersAssumption
<1> QED BY <1>1 DEF Reals, _double_be

Whole(s) == IF s \in -Int64Max .. Int64Max THEN s * Second ELSE Missing

\* Doubles of whole seconds are read as those seconds, as far as 64 bits go.
LEMMA SecondsBack ==
  ASSUME NEW file, NEW secs,
         \A i \in DOMAIN file : file[i] # NaReal => secs[i] \in Int /\ file[i] = secs[i] * Quantum
  PROVE  _numpy_temporal(file) = [i \in DOMAIN file |-> IF file[i] = NaReal THEN Missing ELSE Whole(secs[i])]
<1> DEFINE fractional == \E i \in DOMAIN file : file[i] # NaReal /\ file[i] % Quantum # 0
           scaled(v) == IF fractional THEN rint(float64(v * Second), Quantum) ELSE v \div Quantum
<1>1. _numpy_temporal(file) =
        [i \in DOMAIN file |->
           IF file[i] = NaReal \/ scaled(file[i]) \notin -Int64Max .. Int64Max THEN Missing
           ELSE scaled(file[i]) * (IF fractional THEN 1 ELSE Second)]
  BY Zenon DEF _numpy_temporal
<1>2. Quantum \in Nat \ {0}
  BY TimesAssumption
<1>3. ASSUME NEW i \in DOMAIN file, file[i] # NaReal PROVE file[i] % Quantum = 0 /\ file[i] \div Quantum = secs[i]
  <2>1. secs[i] \in Int /\ file[i] = secs[i] * Quantum
    BY <1>3
  <2> QED BY <1>2, <2>1, ProductDivides
<1>4. ~fractional
  BY <1>3
<1>5. \A i \in DOMAIN file : file[i] # NaReal => scaled(file[i]) = secs[i]
  BY <1>3, <1>4
<1> HIDE DEF fractional, scaled
<1>6. ASSUME NEW i \in DOMAIN file
      PROVE  (IF file[i] = NaReal \/ scaled(file[i]) \notin -Int64Max .. Int64Max THEN Missing
              ELSE scaled(file[i]) * (IF fractional THEN 1 ELSE Second))
             = IF file[i] = NaReal THEN Missing ELSE Whole(secs[i])
  BY <1>4, <1>5, Zenon DEF Whole
<1> QED BY <1>1, <1>6, Zenon

\* What write_rds makes of times of whole seconds, or of days.
LEMMA TemporalBack ==
  ASSUME NEW cells, NEW values, NEW secs,
         \A i \in DOMAIN cells : cells[i] # Missing => secs[i] \in Int /\ values[i] = secs[i] * Quantum
  PROVE  _numpy_temporal(_double_be(values, cells)) =
           [i \in DOMAIN cells |-> IF cells[i] = Missing THEN Missing ELSE Whole(secs[i])]
<1> DEFINE file == _double_be(values, cells)
<1>1. file = [i \in DOMAIN cells |-> IF cells[i] = Missing THEN NaReal ELSE values[i]]
  BY Zenon DEF _double_be
<1>2. Quantum \in Nat /\ NaReal \notin Int
  BY TimesAssumption, NumbersAssumption
<1> HIDE DEF file
<1>3. DOMAIN file = DOMAIN cells /\ \A i \in DOMAIN cells : file[i] = IF cells[i] = Missing THEN NaReal ELSE values[i]
  BY <1>1
<1>4. \A i \in DOMAIN cells : cells[i] # Missing => values[i] \in Int /\ file[i] # NaReal
  BY <1>2, <1>3
<1>5. \A i \in DOMAIN file : file[i] # NaReal => secs[i] \in Int /\ file[i] = secs[i] * Quantum
  BY <1>3
<1>6. _numpy_temporal(file) = [i \in DOMAIN file |-> IF file[i] = NaReal THEN Missing ELSE Whole(secs[i])]
  BY <1>5, SecondsBack
<1>7. \A i \in DOMAIN cells : file[i] = NaReal <=> cells[i] = Missing
  BY <1>3, <1>4
<1> QED BY <1>3, <1>6, <1>7 DEF file

LEMMA DaysBack ==
  ASSUME NEW cells, NEW days,
         \A i \in DOMAIN cells : cells[i] # Missing => days[i] \in Int /\ days[i] * Day \in -Int64Max .. Int64Max
  PROVE  _numpy_temporal(DaySeconds(_double_be(days, cells))) =
           [i \in DOMAIN cells |-> IF cells[i] = Missing THEN Missing ELSE WholeSeconds(days[i] * Day)]
<1> DEFINE values == [i \in DOMAIN cells |-> float64(days[i] * Day) * Quantum]
           secs == [i \in DOMAIN cells |-> float64(days[i] * Day)]
<1>1. NaReal \notin Int /\ Int64Max \in Nat
  BY NumbersAssumption
<1>2. DaySeconds(_double_be(days, cells)) = _double_be(values, cells)
  <2>1. \A i \in DOMAIN cells : cells[i] # Missing => days[i] # NaReal
    BY <1>1
  <2> QED BY <2>1 DEF DaySeconds, _double_be
<1>3. ASSUME NEW i \in DOMAIN cells, cells[i] # Missing PROVE secs[i] \in Int /\ values[i] = secs[i] * Quantum
  <2>1. days[i] * Day \in -2 * Int64Max - 1 .. 2 * Int64Max + 1
    BY <1>1, <1>3
  <2> DEFINE n == days[i] * Day
  <2> HIDE DEF n
  <2>2. float64(n) \in Int
    BY <2>1, DoubleIs DEF n
  <2> QED BY <2>2 DEF n
<1>4. \A i \in DOMAIN cells : secs[i] = float64(days[i] * Day)
  OBVIOUS
<1> HIDE DEF values, secs
<1>5. _numpy_temporal(_double_be(values, cells)) =
        [i \in DOMAIN cells |-> IF cells[i] = Missing THEN Missing ELSE Whole(secs[i])]
  BY <1>3, TemporalBack
<1>6. \A i \in DOMAIN cells : Whole(secs[i]) = WholeSeconds(days[i] * Day)
  BY <1>4, Zenon DEF Whole, WholeSeconds
<1> QED BY <1>2, <1>5, <1>6

\* Counts of seconds: NumPy's are multiplied by 1.0.
LEMMA CountsBack ==
  ASSUME NEW counts, \A i \in DOMAIN counts : counts[i] # Missing => counts[i] \in -Int64Max .. Int64Max
  PROVE  _numpy_temporal(_double_be(SecondsOf(counts, 1), counts)) =
           [i \in DOMAIN counts |-> IF counts[i] = Missing THEN Missing ELSE WholeSeconds(counts[i])]
<1> DEFINE secs == [i \in DOMAIN counts |-> float64(counts[i])]
           values == SecondsOf(counts, 1)
<1>1. \A i \in DOMAIN counts : counts[i] # Missing => values[i] = float64(counts[i]) * Quantum
  BY DEF SecondsOf, seconds
<1>2. ASSUME NEW i \in DOMAIN counts, counts[i] # Missing PROVE secs[i] \in Int /\ values[i] = secs[i] * Quantum
  <2>1. counts[i] \in -2 * Int64Max - 1 .. 2 * Int64Max + 1
    BY <1>2, NumbersAssumption
  <2> QED BY <1>1, <1>2, <2>1, DoubleIs
<1>3. \A i \in DOMAIN counts : secs[i] = float64(counts[i])
  OBVIOUS
<1> HIDE DEF values, secs
<1>4. _numpy_temporal(_double_be(values, counts)) =
        [i \in DOMAIN counts |-> IF counts[i] = Missing THEN Missing ELSE Whole(secs[i])]
  BY <1>2, TemporalBack
<1>5. \A i \in DOMAIN counts : Whole(secs[i]) = WholeSeconds(counts[i])
  BY <1>3, Zenon DEF Whole, WholeSeconds
<1> QED BY <1>4, <1>5 DEF values

LEMMA IntegersMeant ==
  ASSUME NEW column, IsColumn(column), column.dtype = "integer", NEW r,
         r.int64 \in {"error", "double", "lossy_double"},
         \A i \in DOMAIN column.cells : column.cells[i] = Missing \/ column.cells[i] <= Int64Max,
         NEW vector, vector = _encode_integerish(column.cells, r.int64), vector # Refused
  PROVE  Cells(_column_to_pandas(vector)) =
           [i \in DOMAIN column.cells |->
              IF column.cells[i] = Missing THEN Missing
              ELSE IF r.int64 = "lossy_double" /\ Beyond32(column) THEN float64(column.cells[i]) ELSE column.cells[i]]
<1> DEFINE cells == column.cells
           values == toInt64(cells)
           within(limit) == \A i \in DOMAIN cells : cells[i] = Missing \/ values[i] \in -limit .. limit
<1>0. /\ Int32Max \in Nat /\ Int64Max \in Nat /\ ExactLimit \in Nat
  BY NumbersAssumption
<1>1. vector = IF within(Int32Max) THEN Vector("INTSXP", <<>>, _int32_be(values, cells))
               ELSE IF r.int64 = "error" \/ (r.int64 = "double" /\ ~within(ExactLimit)) THEN Refused
               ELSE Vector("REALSXP", <<>>, _double_be(Doubles(cells), cells))
  BY Zenon DEF _encode_integerish
<1>2. ASSUME NEW i \in DOMAIN cells, cells[i] # Missing
      PROVE  cells[i] \in -Int64Max - 1 .. 2 * Int64Max + 1 /\ values[i] = cells[i]
  <2>1. cells[i] \in ToSet(cells) \ {Missing}
    BY <1>2 DEF ToSet
  <2>2. cells[i] \in -Int64Max - 1 .. 2 * Int64Max + 1
    BY <2>1 DEF IsColumn
  <2>3. cells[i] \in Int /\ -Int64Max - 1 <= cells[i] /\ cells[i] <= Int64Max
    BY <1>0, <1>2, <2>2
  <2>4. Wrapped(cells[i], Int64Max) = cells[i]
    BY <1>0, <2>3, WrappedIs
  <2>5. values[i] = cells[i]
    BY <1>2, <2>4 DEF toInt64
  <2> QED BY <2>2, <2>5
<1>3. Beyond32(column) <=> ~within(Int32Max)
  BY <1>2 DEF Beyond32
<1>4. within(ExactLimit) => \A i \in DOMAIN cells : cells[i] = Missing \/ cells[i] \in -ExactLimit .. ExactLimit
  BY <1>2
<1>5. within(Int32Max) => \A i \in DOMAIN cells : cells[i] = Missing \/ cells[i] \in -Int32Max .. Int32Max
  BY <1>2
<1> HIDE DEF within
<1>6. CASE within(Int32Max)
  <2>1. vector = Vector("INTSXP", <<>>, _int32_be(values, cells))
    BY <1>1, <1>6
  <2>2. vector.sexp = "INTSXP" /\ vector.class = <<>> /\ vector.cells = _int32_be(values, cells)
    BY <2>1 DEF Vector
  <2>3. Cells(_column_to_pandas(vector)) = [i \in DOMAIN cells |-> cells[i]]
    BY <1>5, <1>6, <2>2, Int32Back, ReadingIs
  <2> QED BY <1>3, <1>6, <2>3
<1>7. CASE ~within(Int32Max)
  <2>1. ~(r.int64 = "error" \/ (r.int64 = "double" /\ ~within(ExactLimit)))
    BY <1>1, <1>7
  <2>2. vector = Vector("REALSXP", <<>>, _double_be(Doubles(cells), cells))
    BY <1>1, <1>7, <2>1
  <2>3. vector.sexp = "REALSXP" /\ vector.class = <<>> /\ vector.cells = _double_be(Doubles(cells), cells)
    BY <2>2 DEF Vector
  <2>4. ASSUME NEW i \in DOMAIN cells, cells[i] # Missing
        PROVE  /\ Doubles(cells)[i] = float64(cells[i]) /\ float64(cells[i]) \in Int
               /\ cells[i] \in -ExactLimit .. ExactLimit => float64(cells[i]) = cells[i]
    <3>1. Doubles(cells)[i] = float64(cells[i])
      BY <2>4 DEF Doubles
    <3>2. cells[i] \in -2 * Int64Max - 1 .. 2 * Int64Max + 1
      BY <1>0, <1>2, <2>4
    <3> QED BY <3>1, <3>2, DoubleIs
  <2>5. Reals(_double_be(Doubles(cells), cells)) =
          [i \in DOMAIN cells |-> IF cells[i] = Missing THEN Missing ELSE Doubles(cells)[i]]
    <3>1. \A i \in DOMAIN cells : cells[i] # Missing => Doubles(cells)[i] \in Int
      BY <2>4
    <3> QED BY <3>1, RealsBack
  <2>6. Cells(_column_to_pandas(vector)) =
          [i \in DOMAIN cells |-> IF cells[i] = Missing THEN Missing ELSE Doubles(cells)[i]]
    BY <2>3, <2>5, ReadingIs
  <2>7. ASSUME NEW i \in DOMAIN cells, cells[i] # Missing
        PROVE  Doubles(cells)[i] = IF r.int64 = "lossy_double" /\ Beyond32(column) THEN float64(cells[i]) ELSE cells[i]
    <3>1. Doubles(cells)[i] = float64(cells[i])
      BY <2>4, <2>7
    <3>2. r.int64 = "lossy_double" \/ (r.int64 = "double" /\ within(ExactLimit))
      BY <2>1
    <3>3. CASE r.int64 = "lossy_double"
      BY <1>3, <1>7, <3>1, <3>3
    <3>4. CASE r.int64 = "double" /\ within(ExactLimit)
      BY <1>4, <2>4, <2>7, <3>1, <3>4
    <3> QED BY <3>2, <3>3, <3>4
  <2> QED BY <2>6, <2>7
<1> QED BY <1>6, <1>7

LEMMA FactorMeant ==
  ASSUME NEW column, IsColumn(column), column.dtype = "categorical",
         NEW vector, vector = _encode_factor(column), vector # Refused
  PROVE  /\ vector.sexp = "INTSXP" /\ vector.levels \in Seq(ToSet(vector.levels))
         /\ Cells(_column_to_pandas(vector)) =
              [i \in DOMAIN column.cells |->
                 IF column.cells[i] = -1 THEN Missing ELSE _level_string(column.categories[column.cells[i] + 1])]
<1> DEFINE cells == column.cells
           categories == column.categories
           n == Len(categories)
           levels == [c \in DOMAIN categories |-> _level_string(categories[c])]
           codes == [i \in DOMAIN cells |-> IF cells[i] + 1 = 0 THEN NA_INTEGER ELSE cells[i] + 1]
<1>1. vector = [Vector("INTSXP", <<"factor">>, codes) EXCEPT !.levels = levels]
  BY Zenon DEF _encode_factor
<1> HIDE DEF levels, codes
<1>2. /\ vector.sexp = "INTSXP" /\ vector.class = <<"factor">> /\ vector.levels = levels /\ vector.cells = codes
  BY <1>1 DEF Vector
<1>3. categories \in Seq(ToSet(categories))
  BY DEF IsColumn
<1>4. n \in Nat /\ DOMAIN categories = 1 .. n
  BY <1>3
<1>5. DOMAIN levels = 1 .. n /\ levels \in Seq(ToSet(levels))
  <2>1. DOMAIN levels = 1 .. n
    BY <1>4 DEF levels
  <2>2. levels = [c \in 1 .. n |-> levels[c]] /\ \A c \in 1 .. n : levels[c] \in ToSet(levels)
    BY <1>4, <2>1 DEF levels, ToSet
  <2> HIDE DEF n
  <2>3. [c \in 1 .. n |-> levels[c]] \in Seq(ToSet(levels))
    BY <1>4, <2>2
  <2> QED BY <2>1, <2>2, <2>3
<1>6. "factor" \in ToSet(vector.class)
  BY <1>2 DEF ToSet
<1>7. Cells(_column_to_pandas(vector)) =
        [k \in DOMAIN codes |-> IF codes[k] \in DOMAIN levels THEN levels[codes[k]] ELSE Missing]
  BY <1>2, <1>5, <1>6, FactorCells
<1>8. DOMAIN codes = DOMAIN cells
  BY DEF codes
<1>9. ASSUME NEW k \in DOMAIN cells
      PROVE  (IF codes[k] \in DOMAIN levels THEN levels[codes[k]] ELSE Missing) =
               IF cells[k] = -1 THEN Missing ELSE _level_string(categories[cells[k] + 1])
  <2>1. cells[k] \in -1 .. n - 1
    <3>1. cells[k] \in ToSet(cells) /\ Missing \notin ToSet(cells)
      BY DEF ToSet, IsColumn
    <3>2. cells[k] \in ToSet(cells) \ {Missing}
      BY <3>1
    <3> QED BY <3>2 DEF IsColumn
  <2>2. NA_INTEGER \in Int /\ NA_INTEGER < 0
    BY NumbersAssumption DEF NA_INTEGER
  <2>3. codes[k] = IF cells[k] = -1 THEN NA_INTEGER ELSE cells[k] + 1
    BY <2>1 DEF codes
  <2>4. \A c \in 1 .. n : levels[c] = _level_string(categories[c])
    BY <1>4 DEF levels
  <2> HIDE DEF n
  <2>5. CASE cells[k] = -1
    BY <1>5, <2>2, <2>3, <2>5
  <2>6. CASE cells[k] # -1
    <3>1. cells[k] + 1 \in 1 .. n
      BY <1>4, <2>1, <2>6
    <3> QED BY <1>5, <2>3, <2>4, <2>6, <3>1
  <2> QED BY <2>5, <2>6
<1>10. Cells(_column_to_pandas(vector)) =
        [k \in DOMAIN cells |-> IF cells[k] = -1 THEN Missing ELSE _level_string(categories[cells[k] + 1])]
  BY <1>7, <1>8, <1>9
<1> QED BY <1>2, <1>5, <1>10

LEMMA Shrinks ==
  ASSUME NEW n \in Int, NEW u \in Nat \ {0}, NEW max \in Nat, n * u \in -max .. max
  PROVE  n \in -max .. max
<1>1. CASE n >= 0
  <2>1. n * u >= n
    BY <1>1
  <2> QED BY <1>1, <2>1
<1>2. CASE n < 0
  <2>1. n * u <= n
    BY <1>2
  <2> QED BY <1>2, <2>1
<1> QED BY <1>1, <1>2

LEMMA ObjectsMeant ==
  ASSUME NEW column, IsColumn(column), column.dtype = "object",
         NEW vector, vector = _encode_object_column(column.cells), vector # Refused
  PROVE  /\ vector.class \in {<<>>, <<"Date">>}
         /\ Cells(_column_to_pandas(vector)) =
              [i \in DOMAIN column.cells |->
                 IF column.cells[i] = Missing THEN Missing
                 ELSE IF column.cells[i].type = "date" THEN WholeSeconds(column.cells[i].text * Day) ELSE column.cells[i].text]
<1> DEFINE cells == column.cells
           types == { cells[i].type : i \in { j \in DOMAIN cells : cells[j] # Missing } }
           texts == [i \in DOMAIN cells |-> IF cells[i] = Missing THEN Missing ELSE cells[i].text]
<1>1. vector = IF types \subseteq {"str"} THEN Vector("STRSXP", <<>>, texts)
               ELSE IF types = {"date"} THEN Vector("REALSXP", <<"Date">>, _double_be(texts, cells))
               ELSE Refused
  BY Zenon DEF _encode_object_column
<1>2. \A i \in DOMAIN cells : cells[i] # Missing => cells[i].type \in types /\ texts[i] = cells[i].text
  OBVIOUS
<1>3. DOMAIN texts = DOMAIN cells /\ \A i \in DOMAIN cells : cells[i] = Missing => texts[i] = Missing
  OBVIOUS
<1>4. texts = [i \in DOMAIN cells |-> texts[i]]
  OBVIOUS
<1> HIDE DEF types, texts
<1>5. CASE types \subseteq {"str"}
  <2>1. vector.sexp = "STRSXP" /\ vector.class = <<>> /\ vector.cells = texts
    BY <1>1, <1>5 DEF Vector
  <2>2. Cells(_column_to_pandas(vector)) = texts
    BY <2>1, ReadingIs
  <2>3. ASSUME NEW i \in DOMAIN cells
        PROVE  texts[i] = IF cells[i] = Missing THEN Missing
                          ELSE IF cells[i].type = "date" THEN WholeSeconds(cells[i].text * Day) ELSE cells[i].text
    <3>1. cells[i] # Missing => cells[i].type = "str"
      BY <1>2, <1>5
    <3> QED BY <1>2, <1>3, <3>1
  <2> QED BY <1>4, <2>1, <2>2, <2>3
<1>6. CASE ~(types \subseteq {"str"})
  <2>1. types = {"date"} /\ vector = Vector("REALSXP", <<"Date">>, _double_be(texts, cells))
    BY <1>1, <1>6
  <2>2. vector.sexp = "REALSXP" /\ vector.class = <<"Date">> /\ vector.cells = _double_be(texts, cells)
    BY <2>1 DEF Vector
  <2>3. ASSUME NEW i \in DOMAIN cells, cells[i] # Missing
        PROVE  /\ cells[i].type = "date" /\ texts[i] = cells[i].text
               /\ texts[i] \in Int /\ texts[i] * Day \in -Int64Max .. Int64Max
    <3>1. cells[i].type = "date" /\ texts[i] = cells[i].text
      BY <1>2, <2>1, <2>3
    <3>2. cells[i] \in ToSet(cells) \ {Missing}
      BY <2>3 DEF ToSet
    <3> QED BY <3>1, <3>2 DEF IsColumn
  <2>4. _numpy_temporal(DaySeconds(_double_be(texts, cells))) =
          [i \in DOMAIN cells |-> IF cells[i] = Missing THEN Missing ELSE WholeSeconds(texts[i] * Day)]
    BY <2>3, DaysBack
  <2>5. Cells(_column_to_pandas(vector)) =
          [i \in DOMAIN cells |-> IF cells[i] = Missing THEN Missing ELSE WholeSeconds(texts[i] * Day)]
    BY <2>2, <2>4, ReadingIs
  <2> QED BY <2>2, <2>3, <2>5
<1> QED BY <1>5, <1>6

\* Every column that is written is read as what it stands for; a factor's class
\* is that of categorical columns only.
LEMMA ColumnMeant ==
  ASSUME NEW column, IsColumn(column), NEW r,
         r.int64 \in {"error", "double", "lossy_double"}, r.timezone \in {None} \cup DOMAIN Offset,
         NEW vector, vector = _encode_column(column, r.int64, column.label \in r.dates, r.timezone), vector # Refused
  PROVE  /\ "factor" \in ToSet(vector.class) => vector.sexp = "INTSXP" /\ vector.levels \in Seq(ToSet(vector.levels))
         /\ (column.dtype = "integer" =>
               \A i \in DOMAIN column.cells : column.cells[i] = Missing \/ column.cells[i] <= Int64Max)
            /\ ~Fine(column, r) =>
              Cells(_column_to_pandas(vector)) = Meant(column, r)
<1> DEFINE cells == column.cells
           dtype == column.dtype
           unit == column.unit
           as_date == column.label \in r.dates
           read == Cells(_column_to_pandas(vector))
           Factors == "factor" \in ToSet(vector.class) => vector.sexp = "INTSXP" /\ vector.levels \in Seq(ToSet(vector.levels))
<1>1. dtype \in {"categorical", "aware", "naive", "delta", "bool", "integer", "float", "string", "object", "other"}
  BY DEF IsColumn
<1>2. \A i \in DOMAIN cells : cells[i] # Missing =>
        /\ dtype \in {"aware", "naive", "delta", "bool", "integer", "float"} => cells[i] \in Int
        /\ dtype = "bool" => cells[i] \in {0, 1}
        /\ dtype \in Temporal => cells[i] \in -Int64Max .. Int64Max
        /\ dtype = "naive" => cells[i] \in Day * unit - Int64Max .. Int64Max - Day * unit
  <2>1. \A i \in DOMAIN cells : cells[i] # Missing => cells[i] \in ToSet(cells) \ {Missing}
    BY DEF ToSet
  <2> QED BY <2>1 DEF IsColumn
<1>3. /\ "factor" \notin ToSet(<<>>) /\ "factor" \notin ToSet(<<"Date">>) /\ "factor" \notin ToSet(<<"difftime">>)
      /\ "factor" \notin ToSet(<<"POSIXct", "POSIXt">>)
  BY DEF ToSet
<1>4. cells = [i \in DOMAIN cells |-> cells[i]]
  <2>1. cells \in Seq(ToSet(cells))
    BY DEF IsColumn
  <2> QED BY <2>1
<1>5. CASE dtype = "categorical"
  <2>1. vector = _encode_factor(column)
    BY <1>5, Zenon DEF _encode_column
  <2>2. /\ vector.sexp = "INTSXP" /\ vector.levels \in Seq(ToSet(vector.levels))
        /\ read = [i \in DOMAIN cells |-> IF cells[i] = -1 THEN Missing ELSE _level_string(column.categories[cells[i] + 1])]
    BY <1>5, <2>1, FactorMeant
  <2>3. Meant(column, r) =
          [i \in DOMAIN cells |-> IF cells[i] = Missing \/ cells[i] = -1 THEN Missing ELSE _level_string(column.categories[cells[i] + 1])]
    BY <1>5 DEF Meant, Temporal
  <2>4. \A i \in DOMAIN cells : cells[i] # Missing
    BY <1>5 DEF IsColumn, ToSet
  <2> QED BY <2>2, <2>3, <2>4
<1>15. Int64Max \in Nat /\ Day \in Nat \ {0} /\ Missing \notin Int
  BY NumbersAssumption, TimesAssumption
<1>16. dtype \in Temporal => unit \in Nat \ {0} /\ unit \in DOMAIN SecondsPerUnit
  BY TimesAssumption DEF IsColumn
<1>6. CASE dtype = "aware"
  <2>1. vector = IF as_date \/ column.zone = None THEN Refused ELSE _encode_posixct(cells, unit, column.zone)
    BY <1>6 DEF _encode_column
  <2>2. vector = [Vector("REALSXP", <<"POSIXct", "POSIXt">>, _double_be(SecondsOf(cells, unit), cells)) EXCEPT !.zone = column.zone]
    BY <2>1 DEF _encode_posixct
  <2>3. vector.sexp = "REALSXP" /\ vector.class = <<"POSIXct", "POSIXt">> /\ vector.cells = _double_be(SecondsOf(cells, unit), cells)
    BY <2>2 DEF Vector
  <2>5. read = _numpy_temporal(vector.cells)
    BY <2>3, ReadingIs
  <2> HIDE DEF read
  <2>4. ASSUME ~Fine(column, r) PROVE read = Meant(column, r)
    <3>1. unit = 1 /\ ~AsDate(column, r)
      BY <1>6, <2>4 DEF Fine, AsDate, Temporal
    <3>2. _numpy_temporal(_double_be(SecondsOf(cells, 1), cells)) =
            [i \in DOMAIN cells |-> IF cells[i] = Missing THEN Missing ELSE WholeSeconds(cells[i])]
      BY <1>2, <1>6, CountsBack DEF Temporal
    <3>3. read = [i \in DOMAIN cells |-> IF cells[i] = Missing THEN Missing ELSE WholeSeconds(cells[i])]
      BY <2>3, <2>5, <3>1, <3>2
    <3>4. Meant(column, r) = [i \in DOMAIN cells |-> IF cells[i] = Missing THEN Missing ELSE WholeSeconds(cells[i])]
      BY <1>6, <3>1 DEF Meant, InUtc, Temporal
    <3> QED BY <3>3, <3>4
  <2> QED BY <1>3, <2>3, <2>4 DEF read
<1>7. CASE dtype = "naive" /\ as_date
  <2>1. vector = _encode_date(cells, unit)
    BY <1>7 DEF _encode_column
  <2> DEFINE days == [i \in DOMAIN cells |-> IF cells[i] = Missing THEN 0 ELSE cells[i] \div (Day * unit)]
  <2>2. /\ vector = Vector("REALSXP", <<"Date">>, _double_be(days, cells))
        /\ \A i \in DOMAIN cells : cells[i] = Missing \/ cells[i] % (Day * unit) = 0
    BY <2>1 DEF _encode_date
  <2>3. vector.sexp = "REALSXP" /\ vector.class = <<"Date">> /\ vector.cells = _double_be(days, cells)
    <3> HIDE DEF days
    <3> QED BY <2>2 DEF Vector
  <2>4. ASSUME NEW i \in DOMAIN cells, cells[i] # Missing
        PROVE  days[i] \in Int /\ days[i] * Day = cells[i] \div unit /\ days[i] * Day \in -Int64Max .. Int64Max
    <3> DEFINE a == cells[i]
               d == days[i]
               long == Day * unit
    <3>1. a \in -Int64Max .. Int64Max /\ a % long = 0 /\ d = a \div long
      BY <1>2, <1>7, <2>2, <2>4 DEF Temporal
    <3>2. unit \in Nat \ {0} /\ long \in Nat \ {0}
      BY <1>7, <1>15, <1>16 DEF Temporal
    <3> HIDE DEF a, d, days
    <3>3. d * long = a /\ d \in Int
      <4> HIDE DEF long
      <4> QED BY <1>15, <3>1, <3>2, Divides
    <3>4. d * Day \in Int /\ (d * Day) * unit = a
      BY <1>15, <3>2, <3>3
    <3> DEFINE n == d * Day
    <3> HIDE DEF long, n
    <3>5. n \in Int /\ n * unit = a
      BY <3>4 DEF n
    <3>6. a \div unit = n
      BY <3>2, <3>5, ProductDivides
    <3>7. n \in -Int64Max .. Int64Max
      BY <1>15, <3>1, <3>2, <3>5, Shrinks
    <3> QED BY <3>3, <3>6, <3>7 DEF n, a, d
  <2> HIDE DEF days
  <2>5. _numpy_temporal(DaySeconds(_double_be(days, cells))) =
          [i \in DOMAIN cells |-> IF cells[i] = Missing THEN Missing ELSE WholeSeconds(days[i] * Day)]
    BY <2>4, DaysBack
  <2>6. read = [i \in DOMAIN cells |-> IF cells[i] = Missing THEN Missing ELSE WholeSeconds(days[i] * Day)]
    BY <2>3, <2>5, ReadingIs
  <2>7. Meant(column, r) = [i \in DOMAIN cells |-> IF cells[i] = Missing THEN Missing ELSE WholeSeconds(cells[i] \div unit)]
    BY <1>7 DEF Meant, AsDate, Temporal
  <2>8. \A i \in DOMAIN cells : cells[i] # Missing => WholeSeconds(days[i] * Day) = WholeSeconds(cells[i] \div unit)
    BY <2>4
  <2> QED BY <1>3, <2>3, <2>6, <2>7, <2>8
<1>8. CASE dtype = "naive" /\ ~as_date
  <2> DEFINE zone == r.timezone
             counts == tz_localize(cells, unit, zone)
  <2>1. vector = IF zone = None THEN Refused ELSE _encode_naive(cells, unit, zone)
    BY <1>8 DEF _encode_column
  <2>2. /\ vector = [Vector("REALSXP", <<"POSIXct", "POSIXt">>, _double_be(SecondsOf(counts, unit), counts)) EXCEPT !.zone = zone]
        /\ zone # None /\ None \notin ToSet(counts)
    BY <2>1, Zenon DEF _encode_naive, _encode_posixct
  <2> HIDE DEF counts
  <2>3. vector.sexp = "REALSXP" /\ vector.class = <<"POSIXct", "POSIXt">> /\ vector.cells = _double_be(SecondsOf(counts, unit), counts)
    BY <2>2 DEF Vector
  <2>5. read = _numpy_temporal(vector.cells)
    BY <2>3, ReadingIs
  <2> HIDE DEF read
  <2>4. ASSUME ~Fine(column, r) PROVE read = Meant(column, r)
    <3>1. unit = 1 /\ ~AsDate(column, r)
      BY <1>8, <2>4 DEF Fine, AsDate, Temporal
    <3> DEFINE ahead(i) == Offset[zone][cells[i] \div unit]
    <3>2. /\ DOMAIN counts = DOMAIN cells
          /\ \A i \in DOMAIN cells :
               counts[i] = IF cells[i] = Missing THEN Missing ELSE IF ahead(i) = None THEN None ELSE cells[i] - ahead(i) * unit
      BY Zenon DEF counts, tz_localize
    <3>3. ASSUME NEW i \in DOMAIN cells, cells[i] # Missing
          PROVE  counts[i] = cells[i] - ahead(i) * unit /\ counts[i] \in -Int64Max .. Int64Max
      <4>1. counts[i] \in ToSet(counts)
        BY <3>2 DEF ToSet
      <4>2. ahead(i) # None /\ counts[i] = cells[i] - ahead(i) * unit
        BY <2>2, <3>2, <3>3, <4>1
      <4>3. /\ cells[i] \in -Int64Max .. Int64Max /\ cells[i] \div unit = cells[i]
            /\ cells[i] \in Day - Int64Max .. Int64Max - Day
        BY <1>2, <1>8, <1>15, <3>1, <3>3 DEF Temporal
      <4>4. ahead(i) \in -Day .. Day
        BY <2>2, <4>2, <4>3, TimesAssumption
      <4> HIDE DEF ahead
      <4>5. cells[i] - ahead(i) * unit = cells[i] - ahead(i)
        BY <1>15, <3>1, <4>3, <4>4
      <4>6. cells[i] - ahead(i) \in -Int64Max .. Int64Max
        BY <1>15, <4>3, <4>4
      <4> QED BY <4>2, <4>5, <4>6
    <3> HIDE DEF ahead
    <3>4. \A i \in DOMAIN counts : counts[i] # Missing => counts[i] \in -Int64Max .. Int64Max
      BY <3>2, <3>3
    <3>5. _numpy_temporal(_double_be(SecondsOf(counts, 1), counts)) =
            [i \in DOMAIN counts |-> IF counts[i] = Missing THEN Missing ELSE WholeSeconds(counts[i])]
      BY <3>4, CountsBack
    <3>6. read = [i \in DOMAIN counts |-> IF counts[i] = Missing THEN Missing ELSE WholeSeconds(counts[i])]
      BY <2>3, <2>5, <3>1, <3>5
    <3>7. Meant(column, r) =
            [i \in DOMAIN cells |-> IF cells[i] = Missing THEN Missing ELSE WholeSeconds(cells[i] - ahead(i) * unit)]
      BY <1>8, <3>1 DEF Meant, InUtc, Temporal, ahead
    <3>8. \A i \in DOMAIN cells : counts[i] = Missing <=> cells[i] = Missing
      BY <1>15, <3>2, <3>3
    <3> QED BY <3>2, <3>3, <3>6, <3>7, <3>8
  <2> QED BY <1>3, <2>3, <2>4 DEF read
<1>9. CASE dtype \notin {"categorical", "aware", "naive"}
  <2>0. vector = _encode_plain(dtype, cells, unit, r.int64)
    <3>1. vector = IF as_date THEN Refused ELSE _encode_plain(dtype, cells, unit, r.int64)
      BY <1>9 DEF _encode_column
    <3> QED BY <3>1
  <2>1. CASE dtype = "float"
    <3>1. vector.sexp = "REALSXP" /\ vector.class = <<>> /\ vector.cells = _double_be(cells, cells)
      BY <2>0, <2>1 DEF _encode_plain, Vector
    <3>2. Reals(_double_be(cells, cells)) = [i \in DOMAIN cells |-> IF cells[i] = Missing THEN Missing ELSE cells[i]]
      BY <1>2, <2>1, RealsBack
    <3>3. read = [i \in DOMAIN cells |-> IF cells[i] = Missing THEN Missing ELSE cells[i]]
      BY <3>1, <3>2, ReadingIs
    <3>4. Meant(column, r) = [i \in DOMAIN cells |-> IF cells[i] = Missing THEN Missing ELSE cells[i]]
      BY <2>1 DEF Meant, Temporal
    <3> QED BY <1>3, <3>1, <3>3, <3>4
  <2>7. CASE dtype = "delta"
    <3>1. vector.sexp = "REALSXP" /\ vector.class = <<"difftime">> /\ vector.cells = _double_be(SecondsOf(cells, unit), cells)
      BY <2>0, <2>7 DEF _encode_plain, Vector
    <3>3. read = _numpy_temporal(vector.cells)
      BY <3>1, ReadingIs
    <3> HIDE DEF read
    <3>2. ASSUME ~Fine(column, r) PROVE read = Meant(column, r)
      <4>1. unit = 1 /\ ~AsDate(column, r)
        BY <2>7, <3>2 DEF Fine, AsDate, Temporal
      <4>2. _numpy_temporal(_double_be(SecondsOf(cells, 1), cells)) =
              [i \in DOMAIN cells |-> IF cells[i] = Missing THEN Missing ELSE WholeSeconds(cells[i])]
        BY <1>2, <2>7, CountsBack DEF Temporal
      <4>3. read = [i \in DOMAIN cells |-> IF cells[i] = Missing THEN Missing ELSE WholeSeconds(cells[i])]
        BY <3>1, <3>3, <4>1, <4>2
      <4>4. Meant(column, r) = [i \in DOMAIN cells |-> IF cells[i] = Missing THEN Missing ELSE WholeSeconds(cells[i])]
        BY <2>7, <4>1 DEF Meant, InUtc, Temporal
      <4> QED BY <4>3, <4>4
    <3> QED BY <1>3, <3>1, <3>2 DEF read
  <2>2. CASE dtype = "bool"
    <3>1. vector.sexp = "LGLSXP" /\ vector.class = <<>> /\ vector.cells = _int32_be(toInt64(cells), cells)
      BY <2>0, <2>2 DEF _encode_plain, Vector
    <3>2. \A i \in DOMAIN cells : cells[i] = Missing \/ cells[i] \in -Int32Max .. Int32Max
      BY <1>2, <2>2, NumbersAssumption
    <3>3. read = [i \in DOMAIN cells |-> cells[i]]
      BY <3>1, <3>2, Int32Back, ReadingIs
    <3>4. Meant(column, r) = [i \in DOMAIN cells |-> IF cells[i] = Missing THEN Missing ELSE cells[i]]
      BY <2>2 DEF Meant, Temporal
    <3> QED BY <1>3, <3>1, <3>3, <3>4
  <2>3. CASE dtype = "integer"
    <3>1. vector = _encode_integerish(cells, r.int64)
      BY <2>0, <2>3 DEF _encode_plain
    <3>2. vector.class = <<>>
      BY <3>1 DEF _encode_integerish, Vector
    <3>3. Meant(column, r) =
            [i \in DOMAIN cells |->
               IF cells[i] = Missing THEN Missing
               ELSE IF r.int64 = "lossy_double" /\ Beyond32(column) THEN float64(cells[i]) ELSE cells[i]]
      BY <2>3 DEF Meant, Temporal
    <3> QED BY <1>3, <2>3, <3>1, <3>2, <3>3, IntegersMeant
  <2>4. CASE dtype = "string"
    <3>1. vector.sexp = "STRSXP" /\ vector.class = <<>> /\ vector.cells = cells
      BY <2>0, <2>4 DEF _encode_plain, Vector
    <3>2. read = cells
      BY <3>1, ReadingIs
    <3>3. Meant(column, r) = [i \in DOMAIN cells |-> IF cells[i] = Missing THEN Missing ELSE cells[i]]
      BY <2>4 DEF Meant, Temporal
    <3>4. [i \in DOMAIN cells |-> IF cells[i] = Missing THEN Missing ELSE cells[i]] = [i \in DOMAIN cells |-> cells[i]]
      OBVIOUS
    <3> QED BY <1>3, <1>4, <3>1, <3>2, <3>3, <3>4
  <2>5. CASE dtype = "object"
    <3>1. vector = _encode_object_column(cells)
      BY <2>0, <2>5 DEF _encode_plain
    <3>2. Meant(column, r) =
            [i \in DOMAIN cells |->
               IF cells[i] = Missing THEN Missing
               ELSE IF cells[i].type = "date" THEN WholeSeconds(cells[i].text * Day) ELSE cells[i].text]
      BY <2>5 DEF Meant, Temporal
    <3> QED BY <1>3, <2>5, <3>1, <3>2, ObjectsMeant
  <2>6. CASE dtype = "other"
    BY <2>0, <2>6 DEF _encode_plain
  <2> QED BY <1>1, <1>9, <2>1, <2>2, <2>3, <2>4, <2>5, <2>6, <2>7
<1> QED BY <1>1, <1>5, <1>6, <1>7, <1>8, <1>9

-----------------------------------------------------------------------------
(* Row labels. *)

\* Labels that are written for as many rows as there are labels are read as
\* they were; none are taken for R's compact ones.
LEMMA LabelsBack ==
  ASSUME NEW given, IsIndex(given),
         given.kind = "integer" => \A i \in DOMAIN given.labels : given.labels[i] <= Int64Max,
         NEW vector, vector = _row_names(given), vector # Refused
  PROVE  SameLabels(_apply_row_names(vector, Len(given.labels)), given)
<1> DEFINE labels == given.labels
           rows == Len(labels)
           values == [i \in DOMAIN labels |-> Wrapped(labels[i], Int64Max)]
           texts == IF given.kind = "integer" THEN [i \in DOMAIN labels |-> ToString(labels[i])]
                    ELSE [i \in DOMAIN labels |-> labels[i].text]
           cells == vector.cells
           index == _apply_row_names(vector, rows)
           default == [kind |-> "range", labels |-> [i \in 1 .. rows |-> i - 1]]
           compact == vector.sexp = "INTSXP" /\ Len(cells) = 2 /\ cells[1] = NA_INTEGER /\ cells[2] <= 0
           small == \A i \in DOMAIN values : values[i] \in -Int32Max .. Int32Max
<1>1. vector = IF given.kind = "multi" \/ Missing \in ToSet(labels) \/ ~IsInjective(labels) THEN Refused
               ELSE IF given.kind = "range"
                    THEN Vector("INTSXP", <<>>, IF rows = 0 THEN <<>> ELSE <<NA_INTEGER, -rows>>)
               ELSE IF given.kind = "integer" /\ small
                    THEN Vector("INTSXP", <<>>, values)
               ELSE IF IsInjective(texts) THEN Vector("STRSXP", <<>>, texts)
               ELSE Refused
  BY Zenon DEF _row_names
<1>2. index = IF compact \/ Len(cells) # rows THEN default
              ELSE [kind |-> IF vector.sexp = "STRSXP" THEN "text" ELSE "integer", labels |-> cells]
  BY Zenon DEF _apply_row_names
<1>3. given.kind \in {"range", "integer", "object"} /\ Missing \notin ToSet(labels)
  BY <1>1 DEF IsIndex
<1>4. labels \in Seq(ToSet(labels)) /\ rows \in Nat /\ DOMAIN labels = 1 .. rows /\ labels = [i \in 1 .. rows |-> labels[i]]
  <2>1. labels \in Seq(ToSet(labels))
    BY DEF IsIndex
  <2> QED BY <2>1
<1>5. NA_INTEGER = -Int32Max - 1 /\ Int32Max \in Nat /\ Int64Max \in Nat
  BY NumbersAssumption DEF NA_INTEGER
<1> HIDE DEF index, default, compact, values, texts, small
<1>6. CASE given.kind = "range"
  <2>1. vector.sexp = "INTSXP" /\ cells = IF rows = 0 THEN <<>> ELSE <<NA_INTEGER, -rows>>
    BY <1>1, <1>6 DEF Vector
  <2>2. CASE rows = 0
    <3>1. cells = <<>> /\ ~compact /\ Len(cells) = rows
      BY <2>1, <2>2 DEF compact
    <3>2. index = [kind |-> "integer", labels |-> cells]
      BY <1>2, <2>1, <3>1
    <3>3. Len(index.labels) = Len(labels) /\ index.kind = "integer"
      BY <2>2, <3>1, <3>2
    <3> QED BY <1>6, <3>3 DEF SameLabels, index
  <2>3. CASE rows # 0
    <3> DEFINE n == rows
    <3>1. n \in Nat /\ n # 0 /\ cells = <<NA_INTEGER, -n>>
      BY <1>4, <2>1, <2>3
    <3>2. compact
      <4> HIDE DEF n
      <4> QED BY <2>1, <3>1 DEF compact
    <3>3. index = default
      BY <1>2, <3>2
    <3>4. default.kind = "range" /\ default.labels = [i \in 1 .. n |-> i - 1]
      BY DEF default
    <3>5. Len(default.labels) = n
      <4> HIDE DEF n
      <4>1. [i \in 1 .. n |-> i - 1] \in Seq(Int) /\ Len([i \in 1 .. n |-> i - 1]) = n
        BY <3>1
      <4> QED BY <3>4, <4>1
    <3> QED BY <1>6, <3>3, <3>4, <3>5 DEF SameLabels, index
  <2> QED BY <2>2, <2>3
<1>7. CASE given.kind = "integer" /\ small
  <2>1. vector.sexp = "INTSXP" /\ cells = values
    BY <1>1, <1>3, <1>7 DEF Vector
  <2>2. ASSUME NEW i \in 1 .. rows PROVE values[i] = labels[i] /\ values[i] # NA_INTEGER
    <3>1. labels[i] \in ToSet(labels) \ {Missing} /\ i \in DOMAIN labels
      BY <1>3, <1>4 DEF ToSet
    <3>2. labels[i] \in -Int64Max - 1 .. 2 * Int64Max + 1
      BY <1>7, <3>1 DEF IsIndex
    <3>3. labels[i] \in Int /\ -Int64Max - 1 <= labels[i] /\ labels[i] <= Int64Max
      BY <1>5, <1>7, <3>1, <3>2
    <3>4. values[i] = Wrapped(labels[i], Int64Max) /\ i \in DOMAIN values
      BY <3>1 DEF values
    <3>5. values[i] = labels[i]
      BY <1>5, <3>3, <3>4, WrappedIs
    <3>6. values[i] \in -Int32Max .. Int32Max
      BY <1>7, <3>4 DEF small
    <3> QED BY <1>5, <3>5, <3>6
  <2>3. values = labels
    <3>1. DOMAIN values = 1 .. rows /\ values = [i \in 1 .. rows |-> values[i]]
      BY <1>4 DEF values
    <3>2. [i \in 1 .. rows |-> values[i]] = [i \in 1 .. rows |-> labels[i]]
      BY <2>2
    <3> QED BY <1>4, <3>1, <3>2
  <2>4. ~compact
    <3>1. Len(cells) = rows
      BY <2>1, <2>3
    <3>2. ASSUME Len(cells) = 2 PROVE cells[1] # NA_INTEGER
      BY <2>1, <2>2, <3>1, <3>2
    <3> QED BY <3>2 DEF compact
  <2>5. index = [kind |-> "integer", labels |-> labels]
    BY <1>2, <2>1, <2>3, <2>4
  <2> QED BY <1>7, <2>5 DEF SameLabels, index
<1>8. CASE given.kind = "object" \/ (given.kind = "integer" /\ ~small)
  <2>1. vector.sexp = "STRSXP" /\ cells = texts
    BY <1>1, <1>3, <1>8 DEF Vector
  <2> DEFINE n == rows
  <2>2. DOMAIN texts = 1 .. n
    BY <1>4 DEF texts
  <2>3. Len(texts) = n
    <3>1. n \in Nat /\ texts = [i \in 1 .. n |-> texts[i]]
      BY <1>4 DEF texts
    <3> HIDE DEF n
    <3> QED BY <2>2, <3>1
  <2>4. index = [kind |-> "text", labels |-> texts]
    BY <1>2, <2>1, <2>3 DEF compact
  <2> QED BY <1>8, <2>4 DEF SameLabels, texts, index
<1> QED BY <1>3, <1>6, <1>7, <1>8

-----------------------------------------------------------------------------
(* Names. *)

\* The columns that _to_dataframe names, and the column of a name.
Named(names) == [i \in DOMAIN names |-> [name |-> names[i], type |-> None, value |-> None]]

Key(frame, i, existing) ==
  Utf8!_unique_name(IF Utf8!decode(frame[i].name, None) = Utf8!Blank THEN Utf8!V(i) ELSE Utf8!decode(frame[i].name, None),
                    existing)

KeyOne(frame, order, k, columns) ==
  Append(columns, Utf8!Named(Key(frame, order[k], Utf8!ToSet(Utf8!Names(columns))), frame[order[k]]))

\* g are the columns after each of the first m.
Keying(g, frame, order, m) ==
  g = [k \in 0 .. m |-> IF k = 0 THEN <<>> ELSE KeyOne(frame, order, k, g[k - 1])]

LEMMA KeyingGoesOn ==
  ASSUME NEW frame, NEW order, NEW m \in Nat, NEW g, Keying(g, frame, order, m)
  PROVE  \E h : Keying(h, frame, order, m + 1)
<1> DEFINE U(k, columns) == KeyOne(frame, order, k, columns)
           h == [k \in 0 .. m + 1 |-> IF k = m + 1 THEN U(m + 1, g[m]) ELSE g[k]]
<1>1. g = [k \in 0 .. m |-> IF k = 0 THEN <<>> ELSE U(k, g[k - 1])]
  BY Zenon DEF Keying
<1> SUFFICES h = [k \in 0 .. m + 1 |-> IF k = 0 THEN <<>> ELSE U(k, h[k - 1])]
  BY Zenon DEF Keying
<1> HIDE DEF U
<1>2. \A k \in 0 .. m : h[k] = g[k]
  OBVIOUS
<1>3. h[m + 1] = U(m + 1, g[m])
  OBVIOUS
<1>4. h = [k \in 0 .. m + 1 |-> h[k]]
  OBVIOUS
<1> HIDE DEF h
<1>5. ASSUME NEW k \in 0 .. m + 1
      PROVE  h[k] = IF k = 0 THEN <<>> ELSE U(k, h[k - 1])
  <2>1. CASE k = m + 1
    <3>1. k # 0 /\ k - 1 = m /\ m \in 0 .. m
      BY <2>1
    <3> QED BY <1>2, <1>3, <2>1, <3>1
  <2>2. CASE k # m + 1
    <3>1. k \in 0 .. m /\ (k # 0 => k - 1 \in 0 .. m)
      BY <2>2
    <3> QED BY <1>1, <1>2, <3>1
  <2> QED BY <2>1, <2>2
<1> QED BY <1>4, <1>5

LEMMA KeyingExists ==
  ASSUME NEW frame, NEW order, NEW m \in Nat
  PROVE  \E g : Keying(g, frame, order, m)
<1> DEFINE T == { k \in Nat : ~ \E g : Keying(g, frame, order, k) }
<1> SUFFICES ASSUME T # {} PROVE FALSE
  OBVIOUS
<1>1. PICK k \in T : \A i \in T : k <= i
  BY LeastNumber
<1>2. CASE k = 0
  <2>1. Keying([i \in 0 .. 0 |-> <<>>], frame, order, 0)
    BY DEF Keying
  <2> QED BY <1>1, <1>2, <2>1
<1>3. CASE k # 0
  <2>1. k - 1 \in Nat /\ (k - 1) + 1 = k /\ k - 1 \notin T
    BY <1>1, <1>3
  <2>2. \E g : Keying(g, frame, order, k - 1)
    BY <2>1
  <2>3. \E g : Keying(g, frame, order, k)
    BY <2>1, <2>2, KeyingGoesOn
  <2> QED BY <1>1, <2>3
<1> QED BY <1>2, <1>3

\* Names that tell columns apart stay as they are.
LEMMA KeysPlain ==
  ASSUME NEW names, names \in Seq(ToSet(names)), IsInjective(names), Utf8!Blank \notin ToSet(names)
  PROVE  Keys(names) = names
<1> DEFINE N == Len(names)
           frame == Named(names)
           order == [i \in DOMAIN frame |-> i]
           Is(g) == g = [k \in 0 .. Len(order) |-> IF k = 0 THEN <<>> ELSE KeyOne(frame, order, k, g[k - 1])]
           g == CHOOSE h : Is(h)
           Part(m) == [k \in 1 .. m |-> frame[k]]
<1>1. N \in Nat /\ DOMAIN names = 1 .. N
  OBVIOUS
<1>2. DOMAIN frame = 1 .. N /\ \A i \in 1 .. N : frame[i] = [name |-> names[i], type |-> None, value |-> None]
  BY <1>1 DEF Named
<1>3. Len(order) = N /\ \A i \in 1 .. N : order[i] = i
  <2> DEFINE n == N
  <2>1. n \in Nat /\ order = [i \in 1 .. n |-> i]
    BY <1>1, <1>2
  <2> HIDE DEF n
  <2>2. Len([i \in 1 .. n |-> i]) = n
    <3>1. [i \in 1 .. n |-> i] \in Seq(Nat)
      BY <2>1
    <3> QED BY <2>1, <3>1
  <2> QED BY <2>1, <2>2 DEF n
<1>4. Keys(names) = Utf8!Names(g[Len(order)])
  <2>1. Keys(names) = Utf8!Names(Utf8!FullRead(frame, None))
    BY Zenon DEF Keys, Named
  <2>2. Utf8!FullRead(frame, None) = Utf8!Keyed(frame, None, order)
    BY Zenon DEF Utf8!FullRead
  <2>3. Utf8!Keyed(frame, None, order) = g[Len(order)]
    <3> HIDE DEF frame, order
    <3> QED BY Zenon DEF Utf8!Keyed, KeyOne, Key
  <2> QED BY <2>1, <2>2, <2>3
<1>5. Is(g)
  <2>1. \E h : Keying(h, frame, order, Len(order))
    BY <1>1, <1>3, KeyingExists
  <2>2. \E h : Is(h)
    BY <2>1, Zenon DEF Keying
  <2> QED BY <2>2, Zenon
<1> HIDE DEF g
<1>6. g[0] = <<>> /\ \A k \in 1 .. N : g[k] = KeyOne(frame, order, k, g[k - 1])
  <2> DEFINE U(k, columns) == KeyOne(frame, order, k, columns)
  <2>1. g = [k \in 0 .. N |-> IF k = 0 THEN <<>> ELSE U(k, g[k - 1])]
    BY <1>3, <1>5, Zenon
  <2> HIDE DEF U, N
  <2>2. g[0] = <<>> /\ \A k \in 1 .. N : g[k] = U(k, g[k - 1])
    BY <1>1, <2>1
  <2> QED BY <2>2 DEF U
<1> HIDE DEF frame, order, N
<1>7. g[0] = Part(0)
  BY <1>6
<1>8. ASSUME NEW k \in 1 .. N, g[k - 1] = Part(k - 1) PROVE g[k] = Part(k)
  <2> DEFINE existing == Utf8!ToSet(Utf8!Names(g[k - 1]))
             before == Part(k - 1)
  <2>1. k - 1 \in Nat /\ k \in Nat
    BY <1>1
  <2>2. DOMAIN before = 1 .. k - 1 /\ \A j \in 1 .. k - 1 : before[j] = frame[j]
    OBVIOUS
  <2>3. existing = { frame[j].name : j \in 1 .. k - 1 }
    <3> HIDE DEF before
    <3>1. Utf8!ToSet(Utf8!Names(before)) = { before[j].name : j \in 1 .. k - 1 }
      BY <2>2 DEF Utf8!ToSet, Utf8!Names
    <3> QED BY <1>8, <2>2, <3>1 DEF before
  <2>4. names[k] \notin existing /\ names[k] # Utf8!Blank
    <3>1. \A j \in 1 .. k - 1 : j \in 1 .. N /\ j # k
      BY <1>1
    <3>2. \A j \in 1 .. k - 1 : names[j] # names[k]
      BY <1>1, <3>1 DEF IsInjective
    <3>3. \A j \in 1 .. k - 1 : frame[j].name = names[j]
      BY <1>2, <3>1
    <3>4. names[k] \in ToSet(names)
      BY <1>1 DEF ToSet
    <3> QED BY <2>3, <3>2, <3>3, <3>4
  <2>5. Key(frame, order[k], existing) = names[k]
    <3>1. order[k] = k /\ frame[k].name = names[k]
      BY <1>2, <1>3
    <3>2. Utf8!decode(names[k], None) = names[k]
      BY DEF Utf8!decode
    <3> HIDE DEF existing
    <3>3. Utf8!_unique_name(names[k], existing) = names[k]
      BY <2>4, Zenon DEF Utf8!_unique_name
    <3>4. Key(frame, order[k], existing) = Utf8!_unique_name(IF names[k] = Utf8!Blank THEN Utf8!V(k) ELSE names[k], existing)
      BY <3>1, <3>2, Zenon DEF Key
    <3> QED BY <2>4, <3>3, <3>4
  <2>6. g[k] = Append(before, frame[k])
    <3>1. g[k] = Append(g[k - 1], Utf8!Named(Key(frame, order[k], existing), frame[order[k]]))
      BY <1>6 DEF KeyOne
    <3>2. Utf8!Named(names[k], frame[k]) = frame[k]
      BY <1>2 DEF Utf8!Named
    <3>3. order[k] = k
      BY <1>3
    <3> QED BY <1>8, <2>5, <3>1, <3>2, <3>3
  <2> DEFINE S == { frame[j] : j \in 1 .. k }
  <2>7. before \in Seq(S) /\ Len(before) = k - 1 /\ frame[k] \in S
    BY <2>1
  <2>8. Append(before, frame[k]) = Part(k)
    <3> DEFINE t == Append(before, frame[k])
    <3>1. t \in Seq(S) /\ Len(t) = k
      BY <2>1, <2>7
    <3>2. ASSUME NEW j \in 1 .. k PROVE t[j] = frame[j]
      <4>1. CASE j = k
        BY <2>1, <2>7, <4>1
      <4>2. CASE j # k
        <5>1. j \in 1 .. k - 1
          BY <2>1, <4>2
        <5>2. t[j] = before[j]
          BY <2>1, <2>7, <5>1
        <5> QED BY <5>1, <5>2
      <4> QED BY <4>1, <4>2
    <3> HIDE DEF t
    <3>3. t = [j \in 1 .. k |-> t[j]]
      BY <3>1
    <3> QED BY <3>2, <3>3 DEF t
  <2> QED BY <2>6, <2>8
<1> DEFINE T == { k \in 0 .. N : g[k] # Part(k) }
<1>9. T = {}
  <2> HIDE DEF Part
  <2> SUFFICES ASSUME T # {} PROVE FALSE
    OBVIOUS
  <2>1. T \subseteq Nat
    BY <1>1
  <2>2. PICK k \in T : \A i \in T : k <= i
    <3> HIDE DEF T
    <3> QED BY <2>1, LeastNumber
  <2>3. k # 0
    BY <1>7, <2>2
  <2>4. k \in 1 .. N /\ k - 1 \in 0 .. N /\ ~(k <= k - 1)
    BY <1>1, <2>2, <2>3
  <2>5. g[k - 1] = Part(k - 1)
    BY <2>2, <2>4
  <2> QED BY <1>8, <2>2, <2>4, <2>5
<1>10. g[N] = Part(N)
  <2> HIDE DEF Part
  <2>1. N \in 0 .. N
    BY <1>1
  <2> QED BY <1>9, <2>1
<1>11. Utf8!Names(Part(N)) = [i \in 1 .. N |-> names[i]]
  BY <1>2 DEF Utf8!Names
<1>12. names = [i \in 1 .. N |-> names[i]]
  BY <1>1 DEF N
<1> QED BY <1>3, <1>4, <1>10, <1>11, <1>12

-----------------------------------------------------------------------------
(* As many cells as rows. *)

LEMMA CellsCount ==
  ASSUME NEW column, IsColumn(column), NEW int64, NEW as_date, NEW zone,
         NEW vector, vector = _encode_column(column, int64, as_date, zone), vector # Refused
  PROVE  Len(vector.cells) = Len(column.cells)
<1> DEFINE cells == column.cells
           dtype == column.dtype
           unit == column.unit
           Alike(x) == x = [i \in DOMAIN cells |-> x[i]]
<1>1. dtype \in {"categorical", "aware", "naive", "delta", "bool", "integer", "float", "string", "object", "other"}
  BY DEF IsColumn
<1>2. /\ \A values : Alike(_double_be(values, cells)) /\ Alike(_int32_be(values, cells))
      /\ \A f : Alike([i \in DOMAIN cells |-> f[i]])
  BY DEF _double_be, _int32_be
<1>3. cells \in Seq(ToSet(cells))
  BY DEF IsColumn
<1>4. Alike(cells)
  BY <1>3
<1>5. CASE dtype = "categorical"
  <2>1. vector = _encode_factor(column)
    BY <1>5, Zenon DEF _encode_column
  <2> DEFINE codes == [i \in DOMAIN cells |-> IF cells[i] + 1 = 0 THEN NA_INTEGER ELSE cells[i] + 1]
             levels == [c \in DOMAIN column.categories |-> _level_string(column.categories[c])]
  <2>2. vector = [Vector("INTSXP", <<"factor">>, codes) EXCEPT !.levels = levels]
    BY <2>1, Zenon DEF _encode_factor
  <2> HIDE DEF codes, levels
  <2>3. vector.cells = codes
    BY <2>2 DEF Vector
  <2>4. Alike(codes)
    BY DEF codes
  <2> QED BY <2>3, <2>4, <1>3
<1>6. CASE dtype \in {"aware", "naive"}
  <2>1. \/ vector = _encode_date(cells, unit)
        \/ \E z, counts : vector = _encode_posixct(counts, unit, z) /\ DOMAIN counts = DOMAIN cells
    <3>1. CASE dtype = "aware"
      <4>1. vector = IF as_date \/ column.zone = None THEN Refused ELSE _encode_posixct(cells, unit, column.zone)
        BY <3>1 DEF _encode_column
      <4> QED BY <4>1
    <3>2. CASE dtype = "naive"
      <4> DEFINE counts == tz_localize(cells, unit, zone)
      <4>1. vector = IF as_date THEN _encode_date(cells, unit)
                     ELSE IF zone = None THEN Refused ELSE _encode_naive(cells, unit, zone)
        BY <3>2 DEF _encode_column
      <4>2. vector = _encode_date(cells, unit) \/ vector = _encode_posixct(counts, unit, zone)
        BY <4>1, Zenon DEF _encode_naive
      <4>3. DOMAIN counts = DOMAIN cells
        BY Zenon DEF tz_localize
      <4> HIDE DEF counts
      <4> QED BY <4>2, <4>3
    <3> QED BY <1>6, <3>1, <3>2
  <2>2. \E values : vector.cells = [i \in DOMAIN cells |-> values[i]]
    <3>1. CASE vector = _encode_date(cells, unit)
      <4> DEFINE days == [i \in DOMAIN cells |-> IF cells[i] = Missing THEN 0 ELSE cells[i] \div (Day * unit)]
      <4>1. vector = Vector("REALSXP", <<"Date">>, _double_be(days, cells))
        BY <3>1 DEF _encode_date
      <4> HIDE DEF days
      <4>2. vector.cells = _double_be(days, cells)
        BY <4>1 DEF Vector
      <4> QED BY <1>2, <4>2
    <3>2. ASSUME NEW z, NEW counts, vector = _encode_posixct(counts, unit, z), DOMAIN counts = DOMAIN cells
          PROVE  \E values : vector.cells = [i \in DOMAIN cells |-> values[i]]
      <4> DEFINE values == _double_be(SecondsOf(counts, unit), counts)
      <4>1. vector = [Vector("REALSXP", <<"POSIXct", "POSIXt">>, values) EXCEPT !.zone = z]
        BY <3>2, Zenon DEF _encode_posixct
      <4>2. values = [i \in DOMAIN cells |-> values[i]]
        BY <3>2 DEF _double_be
      <4> HIDE DEF values
      <4>3. vector.cells = values
        BY <4>1 DEF Vector
      <4> QED BY <4>2, <4>3
    <3> QED BY <2>1, <3>1, <3>2
  <2>3. Alike(vector.cells)
    BY <2>2
  <2> QED BY <2>3, <1>3
<1>7. CASE dtype \notin {"categorical", "aware", "naive"}
  <2>1. vector = _encode_plain(dtype, cells, unit, int64)
    <3>1. vector = IF as_date THEN Refused ELSE _encode_plain(dtype, cells, unit, int64)
      BY <1>7 DEF _encode_column
    <3> QED BY <3>1
  <2>2. CASE dtype \in {"delta", "float"}
    <3>1. vector.cells = _double_be(cells, cells) \/ vector.cells = _double_be(SecondsOf(cells, unit), cells)
      BY <2>1, <2>2 DEF _encode_plain, Vector
    <3>2. Alike(vector.cells)
      BY <1>2, <3>1
    <3> QED BY <1>3, <3>2
  <2>3. CASE dtype \in {"bool", "integer"}
    <3>1. \E values : vector.cells = _double_be(values, cells) \/ vector.cells = _int32_be(values, cells)
      <4>1. CASE dtype = "bool"
        <5>1. vector.cells = _int32_be(toInt64(cells), cells)
          BY <2>1, <4>1 DEF _encode_plain, Vector
        <5> QED BY <5>1
      <4>2. CASE dtype = "integer"
        <5>1. vector = _encode_integerish(cells, int64)
          BY <2>1, <4>2 DEF _encode_plain
        <5>2. \/ vector = Vector("INTSXP", <<>>, _int32_be(toInt64(cells), cells))
              \/ vector = Vector("REALSXP", <<>>, _double_be(Doubles(cells), cells))
          BY <5>1, Zenon DEF _encode_integerish
        <5> QED BY <5>2 DEF Vector
      <4> QED BY <2>3, <4>1, <4>2
    <3>2. Alike(vector.cells)
      BY <1>2, <3>1
    <3> QED BY <1>3, <3>2
  <2>4. CASE dtype = "string"
    BY <2>1, <2>4 DEF _encode_plain, Vector
  <2>5. CASE dtype = "object"
    <3> DEFINE texts == [i \in DOMAIN cells |-> IF cells[i] = Missing THEN Missing ELSE cells[i].text]
    <3>1. vector = _encode_object_column(cells)
      BY <2>1, <2>5 DEF _encode_plain
    <3>2. vector = Vector("STRSXP", <<>>, texts) \/ vector = Vector("REALSXP", <<"Date">>, _double_be(texts, cells))
      BY <3>1, Zenon DEF _encode_object_column
    <3>3. Alike(texts)
      OBVIOUS
    <3> HIDE DEF texts
    <3>4. vector.cells = texts \/ vector.cells = _double_be(texts, cells)
      BY <3>2 DEF Vector
    <3>5. Alike(vector.cells)
      BY <1>2, <3>3, <3>4
    <3> QED BY <1>3, <3>5
  <2>6. CASE dtype = "other"
    BY <2>1, <2>6 DEF _encode_plain
  <2> QED BY <1>1, <1>7, <2>2, <2>3, <2>4, <2>5, <2>6
<1> QED BY <1>1, <1>5, <1>6, <1>7

-----------------------------------------------------------------------------
(* What has been written is what was asked for: the second invariant.        *)

Encoding(w, f, i) ==
  LET column == Frames(w)[f].columns[i]
  IN _encode_column(column, request[w].int64, column.label \in request[w].dates, request[w].timezone)

\* A frame of a document, as far as it has come.
FrameTrue(w, f, frame) ==
  /\ Len(frame.vectors) \in Nat /\ DOMAIN frame.vectors = 1 .. Len(frame.vectors)
  /\ \A i \in DOMAIN frame.vectors : frame.vectors[i] = Encoding(w, f, i) /\ frame.vectors[i] # Refused
  /\ frame.attributes # None =>
       frame.attributes = AttributesOf(Frames(w)[f]) /\ _row_names(Frames(w)[f].index) # Refused

FramesTrue(w, frames) == \A f \in DOMAIN frames : FrameTrue(w, f, frames[f])

WholeFor(w, frames) ==
  /\ Len(frames) = Len(Frames(w)) /\ DOMAIN frames = 1 .. Len(frames)
  /\ \A f \in DOMAIN frames : frames[f].attributes # None /\ Len(frames[f].vectors) = Len(Frames(w)[f].columns)

\* A document at the path is R's, or all of what its writer was asked for.
SourceTrue(source) ==
  source # None =>
    IF source.by = None THEN source.frames \in Foreign
    ELSE source.by \in Writers /\ FramesTrue(source.by, source.frames) /\ WholeFor(source.by, source.frames)

ShownTrue ==
  shown # None =>
    /\ shown.of # None /\ SourceTrue(shown.of)
    /\ shown.frames = [f \in DOMAIN shown.of.frames |-> ShownFrame(shown.of.frames[f])]

WInv == IInv /\ (\A w \in Writers : FramesTrue(w, document[w].frames)) /\ SourceTrue(target) /\ ShownTrue

LEMMA InitTrue == Init => WInv
<1> SUFFICES ASSUME Init PROVE WInv
  OBVIOUS
<1>1. IInv
  BY InitHolds
<1>2. \A w \in Writers : FramesTrue(w, document[w].frames)
  BY DEF Init, Empty, FramesTrue
<1>3. SourceTrue(target)
  BY DEF Init, SourceTrue
<1>4. ShownTrue
  BY DEF Init, ShownTrue
<1> QED BY <1>1, <1>2, <1>3, <1>4 DEF WInv

\* No request changes, so that what a document or a source is stays so.
LEMMA FramesStay ==
  ASSUME request' = request, NEW w \in Writers, document'[w].frames = document[w].frames,
         FramesTrue(w, document[w].frames)
  PROVE  FramesTrue(w, document[w].frames)'
BY DEF FramesTrue, FrameTrue, Encoding, Frames

LEMMA TargetStays ==
  ASSUME request' = request, target' = target, SourceTrue(target)
  PROVE  SourceTrue(target)'
BY DEF SourceTrue, WholeFor, FramesTrue, FrameTrue, Encoding, Frames

LEMMA ShownStays ==
  ASSUME request' = request, shown' = shown, ShownTrue
  PROVE  ShownTrue'
<1>1. CASE shown = None
  BY <1>1 DEF ShownTrue
<1>2. CASE shown # None
  <2>1. shown.of # None /\ SourceTrue(shown.of)
        /\ shown.frames = [f \in DOMAIN shown.of.frames |-> ShownFrame(shown.of.frames[f])]
    BY <1>2 DEF ShownTrue
  <2>2. SourceTrue(shown.of)'
    BY <2>1 DEF SourceTrue, WholeFor, FramesTrue, FrameTrue, Encoding, Frames
  <2> QED BY <2>1, <2>2 DEF ShownTrue
<1> QED BY <1>1, <1>2

\* A step that only changes the frame that is open.
LEMMA LastFrameTrue ==
  ASSUME WInv, NEW w \in Writers, NEW f, f = Open(w), f > 0, NEW last,
         request' = request, target' = target, shown' = shown,
         document' = [document EXCEPT ![w].frames[f] = last],
         FrameTrue(w, f, last), IInv'
  PROVE  WInv'
<1>1. f \in Nat /\ document[w].frames \in Seq(FrameSet) /\ DOMAIN document[w].frames = 1 .. f
  BY DocumentSequences DEF WInv, IInv, Open
<1>2. \A v \in Writers \ {w} : document'[v].frames = document[v].frames
  BY DEF WInv, IInv, Typed
<1>3. document'[w] = [document[w] EXCEPT !.frames[f] = last]
  BY DEF WInv, IInv, Typed
<1>4. document'[w].frames = [document[w].frames EXCEPT ![f] = last]
  BY <1>3 DEF WInv, IInv, Typed
<1>5. /\ DOMAIN document'[w].frames = 1 .. f /\ document'[w].frames[f] = last
      /\ \A g \in 1 .. f : g # f => document'[w].frames[g] = document[w].frames[g]
  BY <1>1, <1>4
<1>6. FramesTrue(w, document[w].frames)'
  <2>1. FramesTrue(w, document[w].frames)
    BY DEF WInv
  <2>2. ASSUME NEW g \in 1 .. f PROVE FrameTrue(w, g, document[w].frames[g])'
    <3>1. CASE g = f
      BY <1>5, <3>1 DEF FrameTrue, Encoding, Frames
    <3>2. CASE g # f
      <4>1. FrameTrue(w, g, document[w].frames[g])
        BY <1>1, <2>1 DEF FramesTrue
      <4>2. document'[w].frames[g] = document[w].frames[g]
        BY <1>5, <3>2
      <4> QED BY <4>1, <4>2 DEF FrameTrue, Encoding, Frames
    <3> QED BY <3>1, <3>2
  <2> QED BY <1>5, <2>2 DEF FramesTrue
<1>7. ASSUME NEW v \in Writers PROVE FramesTrue(v, document[v].frames)'
  <2>1. CASE v = w
    BY <1>6, <2>1
  <2>2. CASE v # w
    BY <1>2, <2>2, FramesStay DEF WInv
  <2> QED BY <2>1, <2>2
<1> QED BY <1>7, TargetStays, ShownStays DEF WInv

\* Steps that write no frame, nor to the path, nor read.
LEMMA FramesUntouched ==
  ASSUME WInv, IInv', request' = request, target' = target, shown' = shown,
         \A v \in Writers : document'[v].frames = document[v].frames
  PROVE  WInv'
BY FramesStay, TargetStays, ShownStays DEF WInv

LEMMA OpenFrameTrue ==
  ASSUME WInv, IInv', NEW w \in Writers, OpenFrame(w)
  PROVE  WInv'
<1> DEFINE new == [vectors |-> <<>>, attributes |-> None]
           n == Open(w)
<1>1. n \in Nat /\ document[w].frames \in Seq(FrameSet) /\ Len(document[w].frames) = n
      /\ DOMAIN document[w].frames = 1 .. n
  BY DocumentSequences DEF WInv, IInv, Open
<1>2. request' = request /\ target' = target /\ shown' = shown
  BY DEF OpenFrame
<1>3. document'[w].frames = Append(document[w].frames, new)
  BY DEF OpenFrame, WInv, IInv, Typed
<1>4. \A v \in Writers \ {w} : document'[v].frames = document[v].frames
  BY DEF OpenFrame, WInv, IInv, Typed
<1>5. /\ DOMAIN document'[w].frames = 1 .. n + 1 /\ document'[w].frames[n + 1] = new
      /\ \A g \in 1 .. n : document'[w].frames[g] = document[w].frames[g]
  <2> DEFINE before == document[w].frames
  <2>1. before \in Seq(FrameSet) /\ Len(before) = n /\ new \in FrameSet
    BY <1>1 DEF FrameSet
  <2> HIDE DEF before, new, n
  <2>2. /\ DOMAIN Append(before, new) = 1 .. n + 1 /\ Append(before, new)[n + 1] = new
        /\ \A g \in 1 .. n : Append(before, new)[g] = before[g]
    BY <2>1
  <2> QED BY <1>3, <2>2 DEF before
<1>6. FramesTrue(w, document[w].frames)'
  <2>1. FramesTrue(w, document[w].frames)
    BY DEF WInv
  <2>2. ASSUME NEW g \in 1 .. n PROVE FrameTrue(w, g, document[w].frames[g])'
    <3>1. FrameTrue(w, g, document[w].frames[g])
      BY <1>1, <2>1 DEF FramesTrue
    <3> QED BY <1>2, <1>5, <3>1 DEF FrameTrue, Encoding, Frames
  <2>3. ASSUME NEW g, g = n + 1 PROVE FrameTrue(w, g, document[w].frames[g])'
    <3>1. document'[w].frames[g].vectors = <<>> /\ document'[w].frames[g].attributes = None
      BY <1>5, <2>3
    <3> QED BY <3>1 DEF FrameTrue
  <2>4. \A g \in 1 .. n + 1 : g \in 1 .. n \/ g = n + 1
    BY <1>1
  <2> QED BY <1>5, <2>2, <2>3, <2>4 DEF FramesTrue
<1>7. ASSUME NEW v \in Writers PROVE FramesTrue(v, document[v].frames)'
  <2>1. CASE v = w
    BY <1>6, <2>1
  <2>2. CASE v # w
    BY <1>2, <1>4, <2>2, FramesStay DEF WInv
  <2> QED BY <2>1, <2>2
<1> QED BY <1>2, <1>7, TargetStays, ShownStays DEF WInv

LEMMA WriteColumnTrue ==
  ASSUME WInv, IInv', NEW w \in Writers, WriteColumn(w)
  PROVE  WInv'
<1> DEFINE f == Open(w)
           frame == document[w].frames[f]
           next == Len(frame.vectors) + 1
           column == Frames(w)[f].columns[next]
           vector == _encode_column(column, request[w].int64, column.label \in request[w].dates, request[w].timezone)
           last == [frame EXCEPT !.vectors = Append(@, vector)]
<1>1. request' = request /\ target' = target /\ shown' = shown /\ f > 0 /\ next <= Len(Frames(w)[f].columns)
  BY DEF WriteColumn
<1>2. IF vector = Refused
      THEN pc' = [pc EXCEPT ![w] = "failing"] /\ document' = document
      ELSE document' = [document EXCEPT ![w].frames[f].vectors = Append(@, vector)] /\ pc' = pc
  BY DEF WriteColumn
<1>3. CASE vector = Refused
  BY <1>1, <1>2, <1>3, FramesUntouched
<1>4. CASE vector # Refused
  <2>1. f \in 1 .. f /\ DOMAIN document[w].frames = 1 .. f /\ frame \in FrameSet
    BY <1>1, DocumentSequences DEF WInv, IInv, Open
  <2>2. frame.vectors \in Seq(Vectors) /\ last.attributes = frame.attributes
    BY <2>1 DEF FrameSet
  <2>3. FrameTrue(w, f, frame)
    BY <2>1 DEF WInv, FramesTrue
  <2>4. vector = Encoding(w, f, next)
    BY DEF Encoding
  <2>5. document' = [document EXCEPT ![w].frames[f] = last]
    <3> HIDE DEF vector
    <3> QED BY <1>2, <1>4 DEF WInv, IInv, Typed
  <2>6. FrameTrue(w, f, last)
    <3> DEFINE vectors == frame.vectors
               m == Len(vectors)
    <3>1. last.vectors = Append(vectors, vector)
      <4> HIDE DEF vector
      <4> QED BY <2>1 DEF FrameSet
    <3>2. m \in Nat /\ DOMAIN vectors = 1 .. m /\ next = m + 1
      BY <2>2
    <3>3. vector \in Vectors
      <4>1. f \in Nat /\ next \in Nat /\ request \in Requests
        <5>1. next \in Nat
          BY <3>2
        <5> HIDE DEF next
        <5> QED BY <2>1, <5>1, DocumentSequences DEF WInv, IInv, Typed
      <4> DEFINE date == column.label \in request[w].dates
      <4>2. date \in BOOLEAN
        <5> HIDE DEF column
        <5> QED OBVIOUS
      <4>3. vector = _encode_column(request[w].frames[f].columns[next], request[w].int64, date, request[w].timezone)
        BY DEF Frames
      <4> HIDE DEF f, next, date, vector
      <4> QED BY <4>1, <4>2, <4>3 DEF Vectors
    <3> DEFINE all == Append(vectors, vector)
    <3>4. /\ Len(all) = m + 1 /\ DOMAIN all = 1 .. m + 1 /\ all[m + 1] = vector
          /\ \A i \in 1 .. m : all[i] = vectors[i]
      <4> HIDE DEF vector, vectors, m
      <4>1. vectors \in Seq(Vectors) /\ Len(vectors) = m
        BY <2>2 DEF vectors, m
      <4> QED BY <3>2, <3>3, <4>1
    <3>5. \A i \in 1 .. m : vectors[i] = Encoding(w, f, i) /\ vectors[i] # Refused
      BY <2>3, <3>2 DEF FrameTrue
    <3>6. all[m + 1] = Encoding(w, f, m + 1) /\ all[m + 1] # Refused
      BY <1>4, <2>4, <3>2, <3>4
    <3> HIDE DEF all, vectors, m
    <3>7. \A i \in 1 .. m + 1 : all[i] = Encoding(w, f, i) /\ all[i] # Refused
      <4>1. \A i \in 1 .. m + 1 : i \in 1 .. m \/ i = m + 1
        BY <3>2
      <4> QED BY <3>4, <3>5, <3>6, <4>1
    <3>8. last.attributes # None =>
            last.attributes = AttributesOf(Frames(w)[f]) /\ _row_names(Frames(w)[f].index) # Refused
      BY <2>2, <2>3 DEF FrameTrue
    <3>9. last.vectors = all
      BY <3>1 DEF all, vectors
    <3>10. m + 1 \in Nat
      BY <3>2
    <3> HIDE DEF last, f
    <3> QED BY <3>4, <3>7, <3>8, <3>9, <3>10 DEF FrameTrue
  <2> HIDE DEF last, f
  <2> QED BY <1>1, <2>5, <2>6, LastFrameTrue DEF f
<1> QED BY <1>3, <1>4

LEMMA WriteAttributesTrue ==
  ASSUME WInv, IInv', NEW w \in Writers, WriteAttributes(w)
  PROVE  WInv'
<1> DEFINE f == Open(w)
           frame == document[w].frames[f]
           columns == Frames(w)[f].columns
           labels == _row_names(Frames(w)[f].index)
           attributes == [names |-> [i \in DOMAIN columns |-> columns[i].label], row_names |-> labels]
           last == [frame EXCEPT !.attributes = attributes]
<1>1. request' = request /\ target' = target /\ shown' = shown /\ f > 0
  BY DEF WriteAttributes
<1>2. IF labels = Refused
      THEN pc' = [pc EXCEPT ![w] = "failing"] /\ document' = document
      ELSE document' = [document EXCEPT ![w].frames[f].attributes = attributes] /\ pc' = pc
  BY DEF WriteAttributes
<1>3. CASE labels = Refused
  BY <1>1, <1>2, <1>3, FramesUntouched
<1>4. CASE labels # Refused
  <2>1. f \in 1 .. f /\ DOMAIN document[w].frames = 1 .. f /\ frame \in FrameSet
    BY <1>1, DocumentSequences DEF WInv, IInv, Open
  <2>2. last.vectors = frame.vectors /\ last.attributes = attributes
    <3> HIDE DEF attributes
    <3> QED BY <2>1 DEF FrameSet
  <2>3. FrameTrue(w, f, frame)
    BY <2>1 DEF WInv, FramesTrue
  <2>4. attributes = AttributesOf(Frames(w)[f])
    BY DEF AttributesOf
  <2>5. document' = [document EXCEPT ![w].frames[f] = last]
    <3> HIDE DEF attributes
    <3> QED BY <1>2, <1>4 DEF WInv, IInv, Typed
  <2> HIDE DEF last, attributes
  <2>6. FrameTrue(w, f, last)
    BY <1>4, <2>2, <2>3, <2>4 DEF FrameTrue
  <2> HIDE DEF f
  <2> QED BY <1>1, <2>5, <2>6, LastFrameTrue DEF f
<1> QED BY <1>3, <1>4

LEMMA PublishTrue ==
  ASSUME WInv, IInv', NEW w \in Writers, Publish(w)
  PROVE  WInv'
<1>1. /\ request' = request /\ document' = document /\ shown' = shown
      /\ target' = [by |-> w, frames |-> document[w].frames]
  BY DEF Publish
<1>2. \A v \in Writers : FramesTrue(v, document[v].frames)'
  BY <1>1, FramesStay DEF WInv
<1>3. target'.by = w /\ target'.frames = document'[w].frames /\ None \notin Writers
  BY <1>1, WriterAssumption
<1>4. SourceTrue(target)'
  <2>1. ASSUME target' # None PROVE WholeFor(w, document[w].frames)'
    <3>1. document'[w].frames \in Seq(FrameSet)
      BY DEF IInv, Typed
    <3>2. DOMAIN document'[w].frames = 1 .. Len(document'[w].frames)
      BY <3>1
    <3>3. /\ Len(document'[w].frames) = Len(Frames(w)')
          /\ \A f \in DOMAIN document'[w].frames :
               /\ document'[w].frames[f].attributes # None
               /\ Len(document'[w].frames[f].vectors) = Len(Frames(w)'[f].columns)
      <4>1. target' # None /\ target'.by # None
        BY <1>3, <2>1
      <4>2. /\ Len(target'.frames) = Len(Frames(w)')
            /\ \A f \in DOMAIN target'.frames :
                 /\ target'.frames[f].attributes # None
                 /\ Len(target'.frames[f].vectors) = Len(Frames(w)'[f].columns)
        BY <1>3, <4>1 DEF IInv, TargetWhole, Frames
      <4> QED BY <1>3, <4>2
    <3> QED BY <3>2, <3>3 DEF WholeFor
  <2>2. FramesTrue(w, document[w].frames)'
    BY <1>2
  <2> QED BY <1>3, <2>1, <2>2 DEF SourceTrue, WholeFor, FramesTrue, FrameTrue, Encoding, Frames
<1> QED BY <1>1, <1>2, <1>4, ShownStays DEF WInv

LEMMA ReadTrue ==
  ASSUME WInv, IInv', Read
  PROVE  WInv'
<1>1. /\ request' = request /\ document' = document /\ target' = target /\ target # None
      /\ shown' = [of |-> target, frames |-> [f \in DOMAIN target.frames |-> ShownFrame(target.frames[f])]]
  BY DEF Read
<1>2. SourceTrue(target)'
  BY <1>1, TargetStays DEF WInv
<1>3. shown'.of = target' /\ shown'.frames = [f \in DOMAIN target'.frames |-> ShownFrame(target'.frames[f])]
  BY <1>1
<1>4. ShownTrue'
  <2>1. SourceTrue(shown.of)'
    BY <1>2, <1>3 DEF SourceTrue, WholeFor, FramesTrue, FrameTrue, Encoding, Frames
  <2> QED BY <1>1, <1>3, <2>1 DEF ShownTrue
<1>5. \A v \in Writers : FramesTrue(v, document[v].frames)'
  BY <1>1, FramesStay DEF WInv
<1> QED BY <1>2, <1>4, <1>5 DEF WInv

LEMMA NextTrue == WInv /\ [Next]_vars => WInv'
<1> SUFFICES ASSUME WInv, [Next]_vars PROVE WInv'
  OBVIOUS
<1>1. IInv'
  BY NextKeeps DEF WInv
<1>2. CASE UNCHANGED vars
  <2>1. request' = request /\ target' = target /\ shown' = shown /\ document' = document
    BY <1>2 DEF vars
  <2> QED BY <1>1, <2>1, FramesUntouched
<1>3. ASSUME NEW w \in Writers, Quiet(w) \/ Close(w) PROVE WInv'
  <2>1. request' = request /\ target' = target /\ shown' = shown
    BY <1>3 DEF Quiet, Validate, MakeTemporary, Clean, SystemRefuses, Interrupt, Close
  <2>2. \A v \in Writers : document'[v].frames = document[v].frames
    BY <1>3 DEF Quiet, Validate, MakeTemporary, Clean, SystemRefuses, Interrupt, Close, WInv, IInv, Typed
  <2> QED BY <1>1, <2>1, <2>2, FramesUntouched
<1>4. ASSUME NEW w \in Writers, OpenFrame(w) \/ WriteColumn(w) \/ WriteAttributes(w) \/ Publish(w) PROVE WInv'
  BY <1>1, <1>4, OpenFrameTrue, WriteColumnTrue, WriteAttributesTrue, PublishTrue
<1>5. CASE Read
  BY <1>1, <1>5, ReadTrue
<1> QED BY <1>2, <1>3, <1>4, <1>5 DEF Next, Quiet

\* What a frame of a request is.
LEMMA Asked ==
  ASSUME request \in Requests, NEW w \in Writers, NEW f \in 1 .. Len(Frames(w))
  PROVE  /\ request[w].int64 \in {"error", "double", "lossy_double"} /\ request[w].timezone \in {None} \cup DOMAIN Offset
         /\ Frames(w)[f] \in ToSet(Frames(w)) /\ IsIndex(Frames(w)[f].index)
         /\ DOMAIN Frames(w)[f].columns = 1 .. Len(Frames(w)[f].columns)
         /\ Frames(w)[f].columns \in Seq(ToSet(Frames(w)[f].columns))
         /\ \A i \in DOMAIN Frames(w)[f].columns :
              /\ Frames(w)[f].columns[i] \in ToSet(Frames(w)[f].columns)
              /\ IsColumn(Frames(w)[f].columns[i])
              /\ Len(Frames(w)[f].columns[i].cells) = Len(Frames(w)[f].index.labels)
<1> DEFINE frame == Frames(w)[f]
           columns == frame.columns
<1>1. Frames(w) = request[w].frames /\ f \in DOMAIN request[w].frames /\ w \in DOMAIN request
  BY RequestSequences, WriterAssumption DEF Frames
<1>2. frame \in ToSet(request[w].frames)
  BY <1>1 DEF ToSet
<1>3. /\ request[w].int64 \in {"error", "double", "lossy_double"} /\ request[w].timezone \in {None} \cup DOMAIN Offset
      /\ IsIndex(frame.index)
      /\ \A column \in ToSet(columns) : IsColumn(column) /\ Len(column.cells) = Len(frame.index.labels)
  <2> HIDE DEF frame
  <2> QED BY <1>1, <1>2, FramesAssumption
<1>4. columns \in Seq(ToSet(columns))
  BY <1>1, WriterAssumption
<1>5. DOMAIN columns = 1 .. Len(columns) /\ \A i \in DOMAIN columns : columns[i] \in ToSet(columns)
  <2>1. DOMAIN columns = 1 .. Len(columns)
    BY <1>4
  <2> QED BY <2>1 DEF ToSet
<1> QED BY <1>1, <1>2, <1>3, <1>4, <1>5

\* Of a document of a call: the frames and the columns it was asked for.
LEMMA SourceFrame ==
  ASSUME Typed, NEW source, SourceTrue(source), source # None, source.by # None, NEW f \in DOMAIN source.frames
  PROVE  /\ source.by \in Writers /\ f \in 1 .. Len(Frames(source.by))
         /\ DOMAIN source.frames = 1 .. Len(Frames(source.by))
         /\ source.frames[f].attributes = AttributesOf(Frames(source.by)[f])
         /\ _row_names(Frames(source.by)[f].index) # Refused
         /\ DOMAIN source.frames[f].vectors = DOMAIN Frames(source.by)[f].columns
         /\ Len(source.frames[f].vectors) = Len(Frames(source.by)[f].columns)
         /\ \A i \in DOMAIN source.frames[f].vectors :
              source.frames[f].vectors[i] = Encoding(source.by, f, i) /\ source.frames[f].vectors[i] # Refused
<1> DEFINE w == source.by
           frame == source.frames[f]
<1>1. w \in Writers /\ FramesTrue(w, source.frames) /\ WholeFor(w, source.frames)
  BY DEF SourceTrue
<1>2. FrameTrue(w, f, frame)
  BY <1>1 DEF FramesTrue
<1>3. /\ DOMAIN source.frames = 1 .. Len(Frames(w)) /\ f \in 1 .. Len(Frames(w))
      /\ frame.attributes # None /\ Len(frame.vectors) = Len(Frames(w)[f].columns)
  BY <1>1 DEF WholeFor
<1>4. request \in Requests
  BY DEF Typed
<1>5. DOMAIN frame.vectors = DOMAIN Frames(w)[f].columns
  <2>1. DOMAIN Frames(w)[f].columns = 1 .. Len(Frames(w)[f].columns)
    BY <1>1, <1>3, <1>4, Asked
  <2> QED BY <1>2, <1>3, <2>1 DEF FrameTrue
<1> HIDE DEF w, frame
<1>6. /\ w \in Writers /\ f \in 1 .. Len(Frames(w)) /\ DOMAIN source.frames = 1 .. Len(Frames(w))
      /\ frame.attributes = AttributesOf(Frames(w)[f]) /\ _row_names(Frames(w)[f].index) # Refused
      /\ DOMAIN frame.vectors = DOMAIN Frames(w)[f].columns
      /\ Len(frame.vectors) = Len(Frames(w)[f].columns)
      /\ \A i \in DOMAIN frame.vectors : frame.vectors[i] = Encoding(w, f, i) /\ frame.vectors[i] # Refused
  BY <1>1, <1>2, <1>3, <1>5 DEF FrameTrue
<1> QED BY <1>6 DEF w, frame

THEOREM WritesWhatWasAsked == Spec => []WInv
BY InitTrue, NextTrue, PTL DEF Spec

\* A cell of a factor is read as the level that its code counts to, whatever R
\* or a call of write_rds wrote: codes of NA, of no level, and of a level that
\* is NA give missing cells, and no other level.
THEOREM FactorsRead == Spec => []FactorsMean
<1>1. WInv => FactorsMean
  <2> SUFFICES ASSUME WInv, shown # None,
                      NEW f \in DOMAIN shown.frames, NEW i \in DOMAIN shown.frames[f].columns,
                      "factor" \in ToSet(shown.of.frames[f].vectors[i].class)
               PROVE  LET vector == shown.of.frames[f].vectors[i]
                      IN Cells(shown.frames[f].columns[i]) =
                           [k \in DOMAIN vector.cells |->
                              IF vector.cells[k] \in DOMAIN vector.levels THEN vector.levels[vector.cells[k]] ELSE Missing]
    BY DEF FactorsMean
  <2> DEFINE source == shown.of
             vector == source.frames[f].vectors[i]
  <2>1. /\ source # None /\ SourceTrue(source)
        /\ shown.frames = [g \in DOMAIN source.frames |-> ShownFrame(source.frames[g])]
    BY DEF WInv, ShownTrue
  <2>2. f \in DOMAIN source.frames /\ shown.frames[f] = ShownFrame(source.frames[f])
    BY <2>1
  <2>3. shown.frames[f].columns = [j \in DOMAIN source.frames[f].vectors |-> _column_to_pandas(source.frames[f].vectors[j])]
    BY <2>2 DEF ShownFrame
  <2>4. i \in DOMAIN source.frames[f].vectors /\ shown.frames[f].columns[i] = _column_to_pandas(vector)
    BY <2>3
  <2>5. "factor" \in ToSet(vector.class)
    OBVIOUS
  <2>6. vector.sexp = "INTSXP" /\ vector.levels \in Seq(ToSet(vector.levels))
    <3>1. CASE source.by = None
      <4>1. source.frames \in Foreign
        BY <2>1, <3>1 DEF SourceTrue
      <4> QED BY <2>2, <2>4, <2>5, <4>1, ForeignAssumption
    <3>2. CASE source.by # None
      <4> DEFINE w == source.by
                 column == Frames(w)[f].columns[i]
                 r == request[w]
      <4>1. request \in Requests /\ Typed
        BY DEF WInv, IInv, Typed
      <4>2. /\ w \in Writers /\ f \in 1 .. Len(Frames(w)) /\ i \in DOMAIN Frames(w)[f].columns
            /\ vector = Encoding(w, f, i) /\ vector # Refused
        BY <2>1, <2>2, <2>4, <3>2, <4>1, SourceFrame
      <4>3. IsColumn(column) /\ r.int64 \in {"error", "double", "lossy_double"} /\ r.timezone \in {None} \cup DOMAIN Offset
        <5> HIDE DEF w
        <5> QED BY <4>1, <4>2, Asked
      <4>4. vector = _encode_column(column, r.int64, column.label \in r.dates, r.timezone)
        BY <4>2 DEF Encoding
      <4> HIDE DEF vector, column, r
      <4> QED BY <2>5, <4>2, <4>3, <4>4, ColumnMeant
    <3> QED BY <3>1, <3>2
  <2> HIDE DEF vector
  <2>7. Cells(_column_to_pandas(vector)) =
          [k \in DOMAIN vector.cells |->
             IF vector.cells[k] \in DOMAIN vector.levels THEN vector.levels[vector.cells[k]] ELSE Missing]
    BY <2>5, <2>6, FactorCells
  <2> QED BY <2>4, <2>7 DEF vector
<1> QED BY <1>1, WritesWhatWasAsked, PTL

\* Whatever calls write to the path, with whatever faults: what is read there of
\* a call's document is what the call was asked to write, cell by cell, with its
\* row labels, and with its names if they tell columns apart.
THEOREM ReadsWhatWasWritten == Spec => []RoundTrip
<1>1. WInv => RoundTrip
  <2> SUFFICES ASSUME WInv, shown # None, shown.of.by # None, Signed(request[shown.of.by])
               PROVE  Kept(request[shown.of.by])
    BY DEF RoundTrip
  <2> DEFINE source == shown.of
             w == source.by
             r == request[w]
  <2>1. /\ source # None /\ SourceTrue(source) /\ source.by # None
        /\ shown.frames = [g \in DOMAIN source.frames |-> ShownFrame(source.frames[g])]
    BY DEF WInv, ShownTrue
  <2>2. request \in Requests /\ Typed
    BY DEF WInv, IInv, Typed
  <2>3. w \in Writers /\ WholeFor(w, source.frames)
    BY <2>1 DEF SourceTrue
  <2>4. DOMAIN source.frames = 1 .. Len(Frames(w)) /\ DOMAIN r.frames = 1 .. Len(Frames(w)) /\ Frames(w) = r.frames
    BY <2>2, <2>3, RequestSequences DEF WholeFor, Frames
  <2> SUFFICES ASSUME NEW f \in 1 .. Len(Frames(w))
               PROVE  LET given  == r.frames[f]
                          got    == shown.frames[f]
                          labels == [i \in DOMAIN given.columns |-> given.columns[i].label]
                      IN /\ IsInjective(labels) /\ Utf8!Blank \notin ToSet(labels) => got.names = labels
                         /\ \A i \in DOMAIN given.columns :
                              ~Fine(given.columns[i], r) => Cells(got.columns[i]) = Meant(given.columns[i], r)
                         /\ given.columns # <<>> => SameLabels(got.index, given.index)
    BY <2>4, Zenon DEF Kept
  <2> DEFINE given   == r.frames[f]
             got     == shown.frames[f]
             columns == given.columns
             labels  == [i \in DOMAIN columns |-> columns[i].label]
             frame   == source.frames[f]
             vectors == frame.vectors
             rows    == IF vectors = <<>> THEN 0 ELSE Len(vectors[1].cells)
  <2>5. /\ r.int64 \in {"error", "double", "lossy_double"} /\ r.timezone \in {None} \cup DOMAIN Offset
        /\ given \in ToSet(r.frames) /\ IsIndex(given.index)
        /\ DOMAIN columns = 1 .. Len(columns) /\ columns \in Seq(ToSet(columns))
        /\ \A i \in DOMAIN columns :
             columns[i] \in ToSet(columns) /\ IsColumn(columns[i]) /\ Len(columns[i].cells) = Len(given.index.labels)
    <3> HIDE DEF w
    <3> QED BY <2>2, <2>3, <2>4, Asked DEF Frames
  <2>6. /\ frame.attributes = AttributesOf(given) /\ _row_names(given.index) # Refused
        /\ DOMAIN vectors = DOMAIN columns /\ Len(vectors) = Len(columns)
        /\ \A i \in DOMAIN vectors : vectors[i] = Encoding(w, f, i) /\ vectors[i] # Refused
    <3> HIDE DEF source
    <3> QED BY <2>1, <2>2, <2>4, SourceFrame
  <2>7. \A i \in DOMAIN columns :
          vectors[i] = _encode_column(columns[i], r.int64, columns[i].label \in r.dates, r.timezone)
    BY <2>4, <2>6 DEF Encoding
  <2>8. /\ got.names = Keys(frame.attributes.names)
        /\ got.columns = [i \in DOMAIN vectors |-> _column_to_pandas(vectors[i])]
        /\ got.index = _apply_row_names(frame.attributes.row_names, rows)
    <3>1. got = ShownFrame(frame)
      BY <2>1, <2>4
    <3> HIDE DEF got, frame
    <3> QED BY <3>1 DEF ShownFrame
  <2>9. frame.attributes.names = labels /\ frame.attributes.row_names = _row_names(given.index)
    <3>1. frame.attributes = AttributesOf(given)
      BY <2>6
    <3> HIDE DEF frame, given
    <3>2. frame.attributes = [names |-> labels, row_names |-> _row_names(given.index)]
      BY <3>1, Zenon DEF AttributesOf
    <3> HIDE DEF labels
    <3> QED BY <3>2
  <2>10. /\ given.index.kind = "integer" => \A i \in DOMAIN given.index.labels : given.index.labels[i] <= Int64Max
         /\ \A column \in ToSet(columns) :
              column.dtype = "integer" => \A i \in DOMAIN column.cells : column.cells[i] = Missing \/ column.cells[i] <= Int64Max
    BY <2>5 DEF Signed
  <2> HIDE DEF given, got, columns, frame, vectors, rows, r, w, source
  <2>11. ASSUME IsInjective(labels), Utf8!Blank \notin ToSet(labels) PROVE got.names = labels
    <3>1. labels \in Seq(ToSet(labels))
      <4> DEFINE n == Len(columns)
      <4>1. n \in Nat /\ DOMAIN columns = 1 .. n
        BY <2>5
      <4> HIDE DEF n
      <4>2. labels = [i \in 1 .. n |-> labels[i]] /\ \A i \in 1 .. n : labels[i] \in ToSet(labels)
        BY <4>1 DEF ToSet
      <4> HIDE DEF labels
      <4>3. [i \in 1 .. n |-> labels[i]] \in Seq(ToSet(labels))
        BY <4>1, <4>2
      <4> QED BY <4>2, <4>3
    <3> HIDE DEF labels
    <3>2. Keys(labels) = labels
      BY <2>11, <3>1, KeysPlain
    <3> QED BY <2>8, <2>9, <3>2 DEF labels
  <2>12. ASSUME NEW i \in DOMAIN columns, ~Fine(columns[i], r) PROVE Cells(got.columns[i]) = Meant(columns[i], r)
    <3> DEFINE column == columns[i]
               vector == vectors[i]
    <3>1. got.columns[i] = _column_to_pandas(vector)
      BY <2>6, <2>8
    <3>2. vector = _encode_column(column, r.int64, column.label \in r.dates, r.timezone) /\ vector # Refused
      BY <2>6, <2>7
    <3>3. IsColumn(column) /\ (column.dtype = "integer" =>
               \A k \in DOMAIN column.cells : column.cells[k] = Missing \/ column.cells[k] <= Int64Max)
      BY <2>5, <2>10
    <3> HIDE DEF column, vector
    <3>4. Cells(_column_to_pandas(vector)) = Meant(column, r)
      BY <2>5, <2>12, <3>2, <3>3, ColumnMeant DEF column
    <3> QED BY <3>1, <3>4 DEF column
  <2>13. ASSUME columns # <<>> PROVE SameLabels(got.index, given.index)
    <3>1. 1 \in DOMAIN columns
      <4> DEFINE n == Len(columns)
      <4>1. n \in Nat /\ n # 0 /\ DOMAIN columns = 1 .. n
        BY <2>5, <2>13
      <4> HIDE DEF n
      <4> QED BY <4>1
    <3>2. vectors # <<>>
      BY <2>6, <3>1
    <3> DEFINE column == columns[1]
               vector == vectors[1]
    <3>3. vector = _encode_column(column, r.int64, column.label \in r.dates, r.timezone) /\ vector # Refused
      BY <2>6, <2>7, <3>1
    <3>4. IsColumn(column) /\ Len(column.cells) = Len(given.index.labels)
      BY <2>5, <3>1
    <3> HIDE DEF column, vector
    <3>5. Len(vector.cells) = Len(given.index.labels)
      BY <3>3, <3>4, CellsCount
    <3>6. rows = Len(given.index.labels)
      BY <3>2, <3>5 DEF rows, vector
    <3>7. SameLabels(_apply_row_names(_row_names(given.index), Len(given.index.labels)), given.index)
      BY <2>5, <2>6, <2>10, LabelsBack
    <3> QED BY <2>8, <2>9, <3>6, <3>7
  <2> QED BY <2>11, <2>12, <2>13 DEF given, got, columns, r, w, source
<1> QED BY <1>1, WritesWhatWasAsked, PTL
=============================================================================
