-------------------------- MODULE RuntimeLogProofs --------------------------
(***************************************************************************)
(* Lemmas about the runtime's invocation stack, on which the proofs about  *)
(* the two log parsers rest.                                               *)
(***************************************************************************)
EXTENDS RuntimeLog, ProofLemmas

-----------------------------------------------------------------------------
(* What the runtime's steps do to its stack *)

LEMMA AbsorbProperties ==
  ASSUME NEW f \in Frame, NEW g \in Frame
  PROVE  /\ Absorb(f, g) \in Frame
         /\ Absorb(f, g).prog = f.prog
         /\ Absorb(f, g).top = f.top
BY DEF Absorb, Frame

LEMMA ReportProperties ==
  ASSUME NEW f \in Frame, NEW units \in Nat
  PROVE  /\ Report(f, units) \in Frame
         /\ Report(f, units).prog = f.prog
         /\ Report(f, units).top = f.top
BY DEF Report, Frame

\* Ending a frame leaves the frames below it, whose programs do not change.
LEMMA UnwoundProperties ==
  ASSUME frames \in Seq(Frame), Running
  PROVE  /\ Unwound \in Seq(Frame)
         /\ Len(Unwound) = Len(frames) - 1
         /\ \A i \in 1..Len(Unwound) : Unwound[i].prog = frames[i].prog
         /\ \A i \in 1..Len(Unwound) : Unwound[i].top = frames[i].top
<1> DEFINE n == Len(frames)
<1>1. n \in Nat /\ n >= 1 /\ frames[n] \in Frame
  BY LastProperties DEF Running
<1>2. CASE n = 1
  <2>1. Unwound = <<>>
    BY <1>2 DEF Unwound
  <2> QED BY <2>1, <1>2
<1>3. CASE n # 1
  <2> DEFINE front == Front(frames)
             below == Absorb(front[n - 1], frames[n])
  <2>1. /\ front \in Seq(Frame)
        /\ Len(front) = n - 1
        /\ \A i \in 1..(n - 1) : front[i] = frames[i]
    BY FrontProperties DEF Running
  <2>2. n - 1 \in 1..Len(front)
    BY <1>1, <1>3, <2>1
  <2>3. front[n - 1] \in Frame
    BY <2>1, <2>2, ElementOfSeq
  <2>4. below \in Frame /\ below.prog = front[n - 1].prog /\ below.top = front[n - 1].top
    BY <1>1, <2>3, AbsorbProperties
  <2>5. Unwound = [front EXCEPT ![n - 1] = below]
    BY <1>3 DEF Unwound
  <2> HIDE DEF front, below
  <2>6. /\ Unwound \in Seq(Frame)
        /\ Len(Unwound) = n - 1
        /\ \A j \in 1..(n - 1) : Unwound[j] = IF j = n - 1 THEN below ELSE front[j]
    BY <2>1, <2>2, <2>4, <2>5, ExceptSeq
  <2> QED BY <2>1, <2>4, <2>6
<1> QED BY <1>2, <1>3

\* A line goes to the log as it is, or is lost.
LEMMA LogProperties ==
  ASSUME NEW l, l \in Line, drops \in DropChoices, Log(l)
  PROVE  line' \in Line /\ drops' \in DropChoices /\ line' \in {l, NoLine}
         /\ (l.kind \notin drops => line' = l)
BY DEF Log, Line

\* What the kind of a line says of its other fields.
LEMMA LineFields ==
  ASSUME NEW l \in Line
  PROVE  /\ l.kind \in {"invoke", "success", "failed", "consumed"} => l.id \in Programs
         /\ l.kind = "invoke" => l.depth \in Nat
         /\ l.kind = "consumed" => l.units \in Nat
         /\ l.kind = "text" => l.shape \in UserTexts
<1>1. CASE l \in [kind : {"invoke"}, id : Programs, depth : Nat]
  BY <1>1
<1>2. CASE l \in [kind : {"success", "failed"}, id : Programs]
  BY <1>2
<1>3. CASE l \in [kind : {"consumed"}, id : Programs, units : Nat]
  BY <1>3
<1>4. CASE l \in [kind : {"data"}, matches : SUBSET Events]
  BY <1>4
<1>5. CASE l \in [kind : {"text"}, shape : UserTexts]
  BY <1>5
<1>6. CASE l = NoLine
  BY <1>6 DEF NoLine
<1> QED BY <1>1, <1>2, <1>3, <1>4, <1>5, <1>6 DEF Line

-----------------------------------------------------------------------------
(* Every step of the runtime keeps its types *)

LEMMA RuntimeInitType ==
  ASSUME RuntimeInit
  PROVE  RuntimeTypeOK /\ FramesShape
<1>1. NoLine \in Line
  BY DEF Line
<1>2. <<>> \in Seq(Frame)
  OBVIOUS
<1>3. /\ frames \in Seq(Frame) /\ tops \in Nat /\ calls \in Nat
      /\ drops \in DropChoices /\ line \in Line
  BY <1>1, <1>2 DEF RuntimeInit
<1>4. aborted \in BOOLEAN
  BY DEF RuntimeInit
<1>5. FramesShape
  BY DEF RuntimeInit, FramesShape, Running
<1> QED BY <1>3, <1>4, <1>5 DEF RuntimeTypeOK

LEMMA RuntimeType ==
  ASSUME RuntimeTypeOK, RuntimeNext
  PROVE  RuntimeTypeOK'
<1> USE DEF RuntimeTypeOK
<1>1. ASSUME NEW p \in Programs, InvokeTop(p)
      PROVE  RuntimeTypeOK'
  <2>1. [kind |-> "invoke", id |-> p, depth |-> 1] \in Line
    BY DEF Line
  <2>2. NewFrame(p, tops) \in Frame
    BY DEF NewFrame, Frame
  <2> QED BY <1>1, <2>1, <2>2, LogProperties DEF InvokeTop
<1>2. ASSUME NEW p \in Programs, InvokeInner(p)
      PROVE  RuntimeTypeOK'
  <2>1. Last(frames) \in Frame /\ Len(frames) \in Nat
    BY <1>2, LastProperties DEF Running, InvokeInner
  <2>2. [kind |-> "invoke", id |-> p, depth |-> Len(frames) + 1] \in Line
    BY <2>1 DEF Line
  <2>3. NewFrame(p, Last(frames).top) \in Frame
    BY <2>1 DEF NewFrame, Frame
  <2> QED BY <1>2, <2>2, <2>3, LogProperties, AppendProperties DEF InvokeInner
<1>3. ASSUME NEW matches \in SUBSET Events, LogData(matches)
      PROVE  RuntimeTypeOK'
  <2>1. [kind |-> "data", matches |-> matches] \in Line
    BY DEF Line
  <2> QED BY <1>3, <2>1, LogProperties DEF LogData
<1>4. ASSUME NEW shape \in UserTexts, LogText(shape)
      PROVE  RuntimeTypeOK'
  <2>1. [kind |-> "text", shape |-> shape] \in Line
    BY DEF Line
  <2> QED BY <1>4, <2>1, LogProperties DEF LogText
<1>5. ASSUME NEW cost \in Costs, Consume(cost)
      PROVE  RuntimeTypeOK'
  <2> DEFINE n == Len(frames)
             units == Last(frames).units + cost
             spent == Report(frames[n], units)
  <2>1. n \in Nat /\ n >= 1 /\ frames[n] \in Frame /\ Last(frames) = frames[n]
    BY <1>5, LastProperties DEF Running, Consume
  <2>2. units \in Nat
    BY <2>1, BoundsAssumption DEF Frame
  <2>3. [kind |-> "consumed", id |-> Last(frames).prog, units |-> units] \in Line
    BY <2>1, <2>2 DEF Line, Frame
  <2>4. spent \in Frame
    BY <2>1, <2>2, ReportProperties
  <2>5. [frames EXCEPT ![n] = spent] \in Seq(Frame)
    BY <2>1, <2>4, ExceptSeq
  <2>6. frames' = [frames EXCEPT ![n] = spent]
    BY <1>5 DEF Consume
  <2>7. Log([kind |-> "consumed", id |-> Last(frames).prog, units |-> units])
    BY <1>5 DEF Consume
  <2> QED BY <1>5, <2>3, <2>5, <2>6, <2>7, LogProperties DEF Consume
<1>6. ASSUME EndSuccess
      PROVE  RuntimeTypeOK'
  <2>1. [kind |-> "success", id |-> Last(frames).prog] \in Line
    <3>1. Last(frames) \in Frame
      BY <1>6, LastProperties DEF Running, EndSuccess
    <3> QED BY <3>1 DEF Line, Frame
  <2> QED BY <1>6, <2>1, LogProperties, UnwoundProperties DEF EndSuccess
<1>7. ASSUME EndFailed
      PROVE  RuntimeTypeOK'
  <2>1. [kind |-> "failed", id |-> Last(frames).prog] \in Line
    <3>1. Last(frames) \in Frame
      BY <1>7, LastProperties DEF Running, EndFailed
    <3> QED BY <3>1 DEF Line, Frame
  <2> QED BY <1>7, <2>1, LogProperties, UnwoundProperties DEF EndFailed
<1> QED BY <1>1, <1>2, <1>3, <1>4, <1>5, <1>6, <1>7 DEF RuntimeNext

-----------------------------------------------------------------------------
(***************************************************************************)
(* A step of the runtime opens a frame, ends the last one, or leaves the   *)
(* stack's shape alone; the line it logs says which, unless it is lost.    *)
(***************************************************************************)

Opens ==
  \E f \in Frame :
    /\ frames' = Append(frames, f)
    /\ f.top + 1 = tops'
    /\ tops' = IF frames = <<>> THEN tops + 1 ELSE tops
    /\ frames # <<>> => f.top = Last(frames).top
    /\ line' \in {[kind |-> "invoke", id |-> f.prog, depth |-> Len(frames) + 1], NoLine}
    /\ "invoke" \notin drops => line' # NoLine

Ends ==
  /\ Running
  /\ frames' = Unwound
  /\ tops' = tops
  /\ \E kind \in {"success", "failed"} :
       /\ line' \in {[kind |-> kind, id |-> Last(frames).prog], NoLine}
       /\ kind \notin drops => line' # NoLine

Stays ==
  /\ Running
  /\ Len(frames') = Len(frames)
  /\ \A i \in 1..Len(frames) : /\ frames'[i].prog = frames[i].prog
                               /\ frames'[i].top = frames[i].top
  /\ tops' = tops
  /\ line'.kind \notin {"invoke", "success", "failed"}

LEMMA RuntimeStep ==
  ASSUME RuntimeTypeOK, FramesShape, RuntimeNext
  PROVE  (Opens \/ Ends \/ Stays) /\ drops' = drops
<1> USE DEF RuntimeTypeOK
<1>0. drops' = drops
  BY DEF RuntimeNext, InvokeTop, InvokeInner, LogData, LogText, Consume, EndSuccess,
         EndFailed, Log
<1>1. ASSUME NEW p \in Programs, InvokeTop(p)
      PROVE  Opens
  <2> DEFINE f == NewFrame(p, tops)
  <2>1. f \in Frame /\ f.top = tops /\ f.prog = p
    BY DEF NewFrame, Frame
  <2>2. frames = <<>> /\ frames' = <<f>> /\ tops' = tops + 1
    BY <1>1 DEF InvokeTop, Running
  <2>3. Len(frames) = 0 /\ frames' = Append(frames, f)
    BY <2>2
  <2>4. Log([kind |-> "invoke", id |-> p, depth |-> 1])
    BY <1>1 DEF InvokeTop
  <2>5. /\ line' \in {[kind |-> "invoke", id |-> p, depth |-> 1], NoLine}
        /\ "invoke" \notin drops => line' # NoLine
    BY <2>4 DEF Log, NoLine
  <2> HIDE DEF f
  <2> QED BY <2>1, <2>2, <2>3, <2>5 DEF Opens
<1>2. ASSUME NEW p \in Programs, InvokeInner(p)
      PROVE  Opens
  <2> DEFINE f == NewFrame(p, Last(frames).top)
  <2>1. /\ frames # <<>> /\ Len(frames) \in Nat /\ Len(frames) >= 1
        /\ Last(frames) = frames[Len(frames)] /\ Last(frames) \in Frame
    BY <1>2, LastProperties DEF InvokeInner, Running
  <2>2. f \in Frame /\ f.top = Last(frames).top /\ f.prog = p
    BY <2>1 DEF NewFrame, Frame
  <2>3. f.top + 1 = tops
    BY <2>1, <2>2 DEF FramesShape
  <2>4. /\ frames' = Append(frames, f) /\ tops' = tops
        /\ Log([kind |-> "invoke", id |-> p, depth |-> Len(frames) + 1])
    BY <1>2 DEF InvokeInner
  <2>5. /\ line' \in {[kind |-> "invoke", id |-> p, depth |-> Len(frames) + 1], NoLine}
        /\ "invoke" \notin drops => line' # NoLine
    BY <2>4 DEF Log, NoLine
  <2> HIDE DEF f
  <2> QED BY <2>1, <2>2, <2>3, <2>4, <2>5 DEF Opens
<1>3. ASSUME NEW matches \in SUBSET Events, LogData(matches)
      PROVE  Stays
  BY <1>3 DEF LogData, Speaking, Log, NoLine, Stays
<1>4. ASSUME NEW shape \in UserTexts, LogText(shape)
      PROVE  Stays
  BY <1>4 DEF LogText, Speaking, Log, NoLine, Stays
<1>5. ASSUME NEW cost \in Costs, Consume(cost)
      PROVE  Stays
  <2> DEFINE n == Len(frames)
             units == Last(frames).units + cost
             spent == Report(frames[n], units)
  <2>1. n \in Nat /\ n >= 1 /\ frames[n] \in Frame /\ Last(frames) = frames[n]
    BY <1>5, LastProperties DEF Consume, Running
  <2>2. units \in Nat
    BY <2>1, BoundsAssumption DEF Frame
  <2>3. spent \in Frame /\ spent.prog = frames[n].prog /\ spent.top = frames[n].top
    BY <2>1, <2>2, ReportProperties
  <2>4. frames' = [frames EXCEPT ![n] = spent] /\ n \in 1..Len(frames)
    BY <1>5, <2>1 DEF Consume
  <2>5. /\ Len(frames') = Len(frames)
        /\ \A i \in 1..Len(frames) : frames'[i] = IF i = n THEN spent ELSE frames[i]
    <3> HIDE DEF spent, n
    <3> QED BY <2>3, <2>4, ExceptSeq
  <2>6. Log([kind |-> "consumed", id |-> Last(frames).prog, units |-> units])
    BY <1>5 DEF Consume
  <2>7. line'.kind \notin {"invoke", "success", "failed"}
    BY <2>6 DEF Log, NoLine
  <2> HIDE DEF spent, n
  <2> QED BY <1>5, <2>3, <2>5, <2>7 DEF Stays, Consume
<1>6. ASSUME EndSuccess
      PROVE  Ends
  BY <1>6 DEF EndSuccess, Ends, Log, NoLine
<1>7. ASSUME EndFailed
      PROVE  Ends
  BY <1>7 DEF EndFailed, Ends, Log, NoLine
<1> QED BY <1>0, <1>1, <1>2, <1>3, <1>4, <1>5, <1>6, <1>7 DEF RuntimeNext

-----------------------------------------------------------------------------
(***************************************************************************)
(* Every open frame belongs to the top-level instruction started last.     *)
(***************************************************************************)
LEMMA RuntimeShape ==
  ASSUME RuntimeTypeOK, FramesShape, RuntimeNext
  PROVE  FramesShape'
<1> USE DEF RuntimeTypeOK
<1>1. CASE Opens
  <2>1. PICK f \in Frame : /\ frames' = Append(frames, f)
                           /\ f.top + 1 = tops'
                           /\ tops' = IF frames = <<>> THEN tops + 1 ELSE tops
                           /\ frames # <<>> => f.top = Last(frames).top
    BY <1>1 DEF Opens
  <2>2. /\ Len(frames) \in Nat /\ Len(frames') = Len(frames) + 1
        /\ \A i \in 1..Len(frames) : frames'[i] = frames[i]
        /\ frames'[Len(frames) + 1] = f
    BY <2>1, AppendProperties, LenProperties
  <2>3. CASE frames = <<>>
    BY <2>1, <2>2, <2>3 DEF FramesShape, Running, Frame
  <2>4. CASE frames # <<>>
    <3>1. tops' = tops /\ tops > 0
      BY <2>1, <2>4 DEF FramesShape, Running
    <3> QED BY <2>1, <2>2, <3>1 DEF FramesShape, Running
  <2> QED BY <2>3, <2>4
<1>2. CASE Ends
  BY <1>2, UnwoundProperties, LastProperties DEF Ends, FramesShape, Running
<1>3. CASE Stays
  BY <1>3, LastProperties DEF Stays, FramesShape, Running
<1> QED BY <1>1, <1>2, <1>3, RuntimeStep
=============================================================================
