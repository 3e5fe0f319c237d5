-------------------------- MODULE SimulationProofs --------------------------
(***************************************************************************)
(* Proofs about the two simulations of a transaction, for every            *)
(* transaction: SimCrossref, which reads the log the RPC's simulation      *)
(* wrote, whatever its programs call, log and consume; and Replay, which   *)
(* runs it and its mutations in LiteSVM, whatever the chain holds and      *)
(* however the processes interleave, fail and time out.                    *)
(*                                                                         *)
(* The theorems about SimCrossref come first, then those about Replay.     *)
(***************************************************************************)
EXTENDS SimCrossref, Replay, RuntimeLogProofs, FiniteSetTheorems

-----------------------------------------------------------------------------
(* What reading one line does *)

\* The parser's four reactions to a line.
LEMMA ReadLineCases ==
  ASSUME RuntimeTypeOK', ReadLine
  PROVE  \/ line'.kind = "invoke" /\ line'.depth > 0 /\ OnInvoke(line'.depth)
         \/ line'.kind \in {"success", "failed"} /\ OnEnd
         \/ line'.kind = "consumed" /\ OnConsumed(line')
         \/ /\ line'.kind \notin {"success", "failed", "consumed"}
            /\ ~ (line'.kind = "invoke" /\ line'.depth > 0)
            /\ UNCHANGED <<parserVars, truth>>
<1>1. CASE line'.kind = "invoke" /\ line'.depth > 0
  BY <1>1 DEF ReadLine, IsEnd
<1>2. CASE line'.kind \in {"success", "failed"}
  BY <1>2 DEF ReadLine, IsEnd
<1>3. CASE line'.kind = "consumed"
  BY <1>3 DEF ReadLine, IsEnd
<1>4. CASE /\ line'.kind \notin {"success", "failed", "consumed"}
           /\ ~ (line'.kind = "invoke" /\ line'.depth > 0)
  BY <1>4 DEF ReadLine, IsEnd
<1> QED BY <1>1, <1>2, <1>3, <1>4

ParserTypeOK ==
  /\ stack \in Seq(Nat)
  /\ completed_top_levels \in Nat
  /\ current_top_level \in Nat
  /\ has_top_level \in BOOLEAN
  /\ out \in Seq(CuEntry)
  /\ truth \in Seq([top : Nat, depth : Nat])

LEMMA ReportedIndexType ==
  ASSUME NEW top \in Nat
  PROVE  ReportedIndex(top) \in 0..IndexCap /\ ReportedIndex(top) <= top
BY IndexCapAssumption DEF ReportedIndex

\* A consumption line is read while the frame that consumed is still open.
LEMMA ConsumedWhileRunning ==
  ASSUME RuntimeTypeOK, FramesShape, RuntimeNext, line'.kind = "consumed"
  PROVE  /\ Stays /\ Last(frames) \in Frame /\ Len(frames) \in Nat
         /\ Last(frames).top + 1 = tops
<1>1. Stays
  BY RuntimeStep DEF Opens, Ends, NoLine
<1>2. Last(frames) = frames[Len(frames)] /\ Last(frames) \in Frame
      /\ Len(frames) \in Nat /\ Len(frames) >= 1
  BY <1>1, LastProperties DEF Stays, Running, RuntimeTypeOK
<1> QED BY <1>1, <1>2 DEF FramesShape

\* The entry a consumption line adds, and what it is about.
LEMMA ConsumedAppends ==
  ASSUME RuntimeTypeOK, FramesShape, RuntimeNext, ParserTypeOK, line' \in Line,
         line'.kind = "consumed", OnConsumed(line'), has_top_level
  PROVE  /\ ParserTypeOK'
         /\ Len(out') = Len(out) + 1 /\ Len(truth') = Len(truth) + 1
         /\ \A k \in 1..Len(out) : out'[k] = out[k]
         /\ \A k \in 1..Len(truth) : truth'[k] = truth[k]
         /\ out'[Len(out) + 1].instruction_index = ReportedIndex(current_top_level)
         /\ truth'[Len(truth) + 1].top \in Nat
         /\ truth'[Len(truth) + 1].top + 1 = tops
<1> USE DEF ParserTypeOK
<1> DEFINE e == [instruction_index |-> ReportedIndex(current_top_level),
                 program_id |-> line'.id, units_consumed |-> line'.units]
           t == [top |-> Last(frames).top, depth |-> Len(frames)]
<1>1. out' = Append(out, e) /\ truth' = Append(truth, t)
  BY DEF OnConsumed
<1>2. UNCHANGED <<stack, completed_top_levels, current_top_level, has_top_level>>
  BY DEF OnConsumed
<1>3. e \in CuEntry /\ e.instruction_index = ReportedIndex(current_top_level)
  <2>1. ReportedIndex(current_top_level) \in 0..IndexCap
    BY ReportedIndexType
  <2>2. line'.id \in Programs /\ line'.units \in Nat
    BY LineFields
  <2> QED BY <2>1, <2>2 DEF CuEntry
<1>4. t \in [top : Nat, depth : Nat] /\ t.top \in Nat /\ t.top + 1 = tops
  BY ConsumedWhileRunning DEF Frame
<1> HIDE DEF e, t
<1>5. /\ out' \in Seq(CuEntry) /\ Len(out') = Len(out) + 1
      /\ \A k \in 1..Len(out) : out'[k] = out[k]
      /\ out'[Len(out) + 1] = e
  BY <1>1, <1>3, AppendProperties
<1>6. /\ truth' \in Seq([top : Nat, depth : Nat]) /\ Len(truth') = Len(truth) + 1
      /\ \A k \in 1..Len(truth) : truth'[k] = truth[k]
      /\ truth'[Len(truth) + 1] = t
  BY <1>1, <1>4, AppendProperties
<1>7. ParserTypeOK'
  BY <1>2, <1>5, <1>6
<1> QED BY <1>3, <1>4, <1>5, <1>6, <1>7

LEMMA ReadLineType ==
  ASSUME RuntimeTypeOK, FramesShape, RuntimeNext, RuntimeTypeOK', ParserTypeOK, ReadLine
  PROVE  ParserTypeOK'
<1> USE DEF ParserTypeOK
<1>1. line' \in Line
  BY DEF RuntimeTypeOK
<1>2. CASE line'.kind = "invoke" /\ OnInvoke(line'.depth)
  <2>1. line'.depth \in Nat
    BY <1>1, <1>2, LineFields
  <2>2. stack' \in Seq(Nat)
    BY <1>2, <2>1, AppendProperties DEF OnInvoke
  <2>3. has_top_level' \in BOOLEAN
    BY <1>2 DEF OnInvoke
  <2>4. current_top_level' \in Nat
    BY <1>2 DEF OnInvoke
  <2> QED BY <1>2, <2>2, <2>3, <2>4 DEF OnInvoke
<1>3. CASE OnEnd
  <2>1. stack' \in Seq(Nat)
    BY <1>3, FrontProperties DEF OnEnd
  <2>2. completed_top_levels' \in Nat
    BY <1>3 DEF OnEnd
  <2> QED BY <1>3, <2>1, <2>2 DEF OnEnd
<1>4. CASE line'.kind = "consumed" /\ OnConsumed(line')
  <2>1. CASE has_top_level
    BY <1>1, <1>4, <2>1, ConsumedAppends
  <2>2. CASE ~ has_top_level
    BY <1>4, <2>2 DEF OnConsumed
  <2> QED BY <2>1, <2>2
<1>5. CASE UNCHANGED <<parserVars, truth>>
  BY <1>5 DEF parserVars
<1> QED BY <1>2, <1>3, <1>4, <1>5, ReadLineCases

-----------------------------------------------------------------------------
(***************************************************************************)
(* Whatever the log loses.  An instruction is counted as completed at most *)
(* once per depth-1 invocation the log showed, so the parser never runs    *)
(* ahead of the runtime.                                                   *)
(***************************************************************************)

\* The depth-1 invocations the parser still holds open.
OpenTops == {i \in 1..Len(stack) : stack[i] = 1}

NotAhead ==
  /\ completed_top_levels + Cardinality(OpenTops) <= tops
  /\ has_top_level => current_top_level < tops
  /\ Len(out) = Len(truth)
  /\ NeverLaterInstruction

LEMMA OpenTopsFinite ==
  ASSUME stack \in Seq(Nat)
  PROVE  IsFiniteSet(OpenTops) /\ Cardinality(OpenTops) \in Nat
<1>1. IsFiniteSet(1..Len(stack))
  BY LenProperties, FS_Interval
<1>2. OpenTops \in SUBSET (1..Len(stack))
  BY DEF OpenTops
<1> QED BY <1>1, <1>2, FS_Subset, FS_CardinalityType

LEMMA InvokeOpens ==
  ASSUME stack \in Seq(Nat), NEW depth \in Nat, stack' = Append(stack, depth)
  PROVE  Cardinality(OpenTops') = Cardinality(OpenTops) + (IF depth = 1 THEN 1 ELSE 0)
<1>1. /\ Len(stack) \in Nat /\ Len(stack') = Len(stack) + 1
      /\ \A i \in 1..Len(stack) : stack'[i] = stack[i]
      /\ stack'[Len(stack) + 1] = depth
  BY AppendProperties, LenProperties
<1>2. Len(stack) + 1 \notin OpenTops
  BY <1>1 DEF OpenTops
<1>3. CASE depth = 1
  <2>1. OpenTops' = OpenTops \cup {Len(stack) + 1}
    BY <1>1, <1>3 DEF OpenTops
  <2> QED BY <1>2, <1>3, <2>1, OpenTopsFinite, FS_AddElement
<1>4. CASE depth # 1
  <2>1. OpenTops' = OpenTops
    BY <1>1, <1>4 DEF OpenTops
  <2> QED BY <1>4, <2>1, OpenTopsFinite
<1> QED BY <1>3, <1>4

LEMMA EndCloses ==
  ASSUME stack \in Seq(Nat), stack # <<>>, stack' = Front(stack)
  PROVE  Cardinality(OpenTops') = Cardinality(OpenTops) - (IF Last(stack) = 1 THEN 1 ELSE 0)
<1>1. /\ Len(stack) \in Nat /\ Len(stack) >= 1 /\ Last(stack) = stack[Len(stack)]
      /\ Len(stack') = Len(stack) - 1
      /\ \A i \in 1..(Len(stack) - 1) : stack'[i] = stack[i]
  BY FrontProperties, LastProperties
<1>2. OpenTops' = OpenTops \ {Len(stack)}
  BY <1>1 DEF OpenTops
<1>3. Len(stack) \in OpenTops <=> Last(stack) = 1
  BY <1>1 DEF OpenTops
<1>4. IsFiniteSet(OpenTops) /\ Cardinality(OpenTops) \in Nat
  BY OpenTopsFinite
<1>5. Cardinality(OpenTops \ {Len(stack)}) =
        IF Len(stack) \in OpenTops THEN Cardinality(OpenTops) - 1 ELSE Cardinality(OpenTops)
  BY <1>4, FS_RemoveElement
<1> QED BY <1>2, <1>3, <1>4, <1>5

LEMMA ReadLineNotAhead ==
  ASSUME RuntimeTypeOK, FramesShape, RuntimeNext, RuntimeTypeOK', ParserTypeOK,
         ReadLine, NotAhead
  PROVE  NotAhead'
<1> USE DEF ParserTypeOK
<1>1. line' \in Line /\ tops \in Nat
  BY DEF RuntimeTypeOK
<1>2. Opens \/ Ends \/ Stays
  BY RuntimeStep
<1>3. tops' \in Nat /\ tops <= tops'
  BY <1>1, <1>2 DEF Opens, Ends, Stays
<1>4. Cardinality(OpenTops) \in Nat
  BY OpenTopsFinite
<1>5. CASE line'.kind = "invoke" /\ line'.depth > 0 /\ OnInvoke(line'.depth)
  <2>1. line'.depth \in Nat
    BY <1>1, <1>5, LineFields
  <2>2. Cardinality(OpenTops') = Cardinality(OpenTops) + (IF line'.depth = 1 THEN 1 ELSE 0)
    BY <1>5, <2>1, InvokeOpens DEF OnInvoke
  <2>3. UNCHANGED <<completed_top_levels, out, truth>>
    BY <1>5 DEF OnInvoke
  <2>4. CASE line'.depth = 1
    <3>1. tops' = tops + 1
      <4>1. line'.depth = Len(frames) + 1 /\ Opens
        BY <1>2, <1>5 DEF Opens, Ends, Stays, NoLine
      <4>2. frames = <<>>
        BY <2>4, <4>1, LastProperties DEF RuntimeTypeOK
      <4> QED BY <4>1, <4>2 DEF Opens
    <3>2. current_top_level' = completed_top_levels
      BY <1>5, <2>4 DEF OnInvoke
    <3> QED BY <1>1, <1>4, <2>2, <2>3, <2>4, <3>1, <3>2 DEF NotAhead, NeverLaterInstruction
  <2>5. CASE line'.depth # 1
    <3>1. UNCHANGED <<current_top_level, has_top_level>>
      BY <1>5, <2>5 DEF OnInvoke
    <3> QED BY <1>1, <1>3, <1>4, <2>2, <2>3, <2>5, <3>1 DEF NotAhead, NeverLaterInstruction
  <2> QED BY <2>4, <2>5
<1>6. CASE OnEnd
  <2>1. UNCHANGED <<current_top_level, has_top_level, out, truth>>
    BY <1>6 DEF OnEnd
  <2>2. CASE stack = <<>>
    <3>1. UNCHANGED <<stack, completed_top_levels>>
      BY <1>6, <2>2 DEF OnEnd
    <3>2. OpenTops' = OpenTops
      BY <3>1 DEF OpenTops
    <3> DEFINE open == Cardinality(OpenTops)
    <3>3. completed_top_levels' + Cardinality(OpenTops') <= tops'
      <4>1. completed_top_levels + open <= tops /\ completed_top_levels \in Nat
        BY DEF NotAhead
      <4>2. open \in Nat
        BY <1>4
      <4> HIDE DEF open
      <4>3. completed_top_levels + open <= tops'
        BY <1>1, <1>3, <4>1, <4>2
      <4> QED BY <3>1, <3>2, <4>3 DEF open
    <3>4. has_top_level' => current_top_level' < tops'
      BY <1>1, <1>3, <2>1 DEF NotAhead
    <3> QED BY <2>1, <3>3, <3>4 DEF NotAhead, NeverLaterInstruction
  <2>3. CASE stack # <<>>
    <3>1. /\ stack' = Front(stack)
          /\ completed_top_levels' =
               completed_top_levels + (IF Last(stack) = 1 THEN 1 ELSE 0)
      BY <1>6, <2>3 DEF OnEnd
    <3>2. Cardinality(OpenTops') =
            Cardinality(OpenTops) - (IF Last(stack) = 1 THEN 1 ELSE 0)
      BY <2>3, <3>1, EndCloses
    <3> QED BY <1>1, <1>3, <1>4, <2>1, <3>1, <3>2, SMTT(30) DEF NotAhead, NeverLaterInstruction
  <2> QED BY <2>2, <2>3
<1>7. CASE line'.kind = "consumed" /\ OnConsumed(line')
  <2>1. UNCHANGED <<stack, completed_top_levels, current_top_level, has_top_level>>
    BY <1>7 DEF OnConsumed
  <2>2. OpenTops' = OpenTops
    BY <2>1 DEF OpenTops
  <2>3. CASE has_top_level
    <3>1. /\ Len(out') = Len(out) + 1 /\ Len(truth') = Len(truth) + 1
          /\ \A k \in 1..Len(out) : out'[k] = out[k]
          /\ \A k \in 1..Len(truth) : truth'[k] = truth[k]
          /\ out'[Len(out) + 1].instruction_index = ReportedIndex(current_top_level)
          /\ truth'[Len(truth) + 1].top + 1 = tops
          /\ truth'[Len(truth) + 1].top \in Nat
      BY <1>1, <1>7, <2>3, ConsumedAppends
    <3>2. /\ ReportedIndex(current_top_level) \in Nat
          /\ ReportedIndex(current_top_level) <= current_top_level
          /\ current_top_level < tops
      BY <2>3, ReportedIndexType, IndexCapAssumption DEF NotAhead
    <3>3. Len(out) \in Nat /\ Len(out) = Len(truth)
      BY LenProperties DEF NotAhead
    <3>4. ASSUME NEW k \in 1..Len(out')
          PROVE  out'[k].instruction_index <= truth'[k].top
      <4>1. CASE k \in 1..Len(out)
        BY <3>1, <3>3, <4>1 DEF NotAhead, NeverLaterInstruction
      <4>2. CASE k = Len(out) + 1
        BY <1>1, <3>1, <3>2, <3>3, <4>2
      <4> QED BY <3>1, <3>3, <4>1, <4>2
    <3>5. completed_top_levels' + Cardinality(OpenTops') <= tops'
      BY <1>1, <1>3, <1>4, <2>1, <2>2 DEF NotAhead
    <3>6. has_top_level' => current_top_level' < tops'
      BY <1>1, <1>3, <2>1, <3>2
    <3>7. Len(out') = Len(truth')
      BY <3>1, <3>3
    <3>8. NeverLaterInstruction'
      BY <3>4 DEF NeverLaterInstruction
    <3> QED BY <3>5, <3>6, <3>7, <3>8 DEF NotAhead
  <2>4. CASE ~ has_top_level
    <3>1. UNCHANGED <<out, truth>>
      BY <1>7, <2>4 DEF OnConsumed
    <3> QED BY <1>1, <1>3, <1>4, <2>1, <2>2, <3>1, SMTT(30) DEF NotAhead, NeverLaterInstruction
  <2> QED BY <2>3, <2>4
<1>8. CASE UNCHANGED <<parserVars, truth>>
  BY <1>1, <1>3, <1>4, <1>8 DEF parserVars, NotAhead, NeverLaterInstruction, OpenTops
<1> QED BY <1>5, <1>6, <1>7, <1>8, ReadLineCases

-----------------------------------------------------------------------------
(***************************************************************************)
(* When the log is whole, the parser's stack counts the runtime's depths,  *)
(* and its current instruction is the one that runs.                       *)
(***************************************************************************)

Aligned ==
  /\ Len(stack) = Len(frames)
  /\ \A i \in 1..Len(stack) : stack[i] = i
  /\ completed_top_levels = IF frames = <<>> THEN tops ELSE tops - 1
  /\ Running => has_top_level /\ current_top_level = tops - 1
  /\ Len(out) = Len(truth)
  /\ \A k \in 1..Len(out) : out[k].instruction_index = ReportedIndex(truth[k].top)

AlignedWhenWhole == WholeLog => Aligned

LEMMA ReadLineAligned ==
  ASSUME RuntimeTypeOK, FramesShape, RuntimeNext, RuntimeTypeOK', ParserTypeOK,
         ReadLine, WholeLog, Aligned
  PROVE  Aligned'
<1> USE DEF ParserTypeOK
<1>1. /\ line' \in Line /\ tops \in Nat
      /\ frames \in Seq(Frame) /\ Len(frames) \in Nat
      /\ Len(stack) \in Nat /\ Len(stack) = Len(frames)
  BY LenProperties DEF RuntimeTypeOK, Aligned
<1>2. Opens \/ Ends \/ Stays
  BY RuntimeStep
<1>3. CASE Opens
  <2>1. PICK f \in Frame :
          /\ frames' = Append(frames, f)
          /\ f.top + 1 = tops'
          /\ tops' = IF frames = <<>> THEN tops + 1 ELSE tops
          /\ line' = [kind |-> "invoke", id |-> f.prog, depth |-> Len(frames) + 1]
    BY <1>3 DEF Opens, WholeLog
  <2>2. OnInvoke(Len(frames) + 1)
    BY <1>1, <2>1, ReadLineCases
  <2>3. /\ stack' = Append(stack, Len(frames) + 1)
        /\ current_top_level' = IF Len(frames) + 1 = 1 THEN completed_top_levels
                                                       ELSE current_top_level
        /\ UNCHANGED <<completed_top_levels, out, truth>>
        /\ Len(frames) + 1 = 1 => has_top_level'
        /\ has_top_level => has_top_level'
    BY <2>2 DEF OnInvoke
  <2>4. /\ Len(stack') = Len(stack) + 1
        /\ \A i \in 1..Len(stack) : stack'[i] = stack[i]
        /\ stack'[Len(stack) + 1] = Len(frames) + 1
    BY <1>1, <2>3, AppendProperties
  <2>5. /\ Len(frames') = Len(frames) + 1 /\ frames' # <<>>
        /\ Len(frames) + 1 = 1 <=> frames = <<>>
    BY <1>1, <2>1, AppendProperties, EmptySeq
  <2>6. \A i \in 1..Len(stack') : stack'[i] = i
    <3> SUFFICES ASSUME NEW i \in 1..Len(stack') PROVE stack'[i] = i
      OBVIOUS
    <3>1. CASE i \in 1..Len(stack)
      BY <2>4, <3>1 DEF Aligned
    <3>2. CASE i = Len(stack) + 1
      BY <1>1, <2>4, <3>2
    <3> QED BY <1>1, <2>4, <3>1, <3>2
  <2>7. completed_top_levels' = tops' - 1
    BY <1>1, <2>1, <2>3 DEF Aligned
  <2>8. has_top_level' /\ current_top_level' = tops' - 1
    BY <1>1, <2>1, <2>3, <2>5 DEF Aligned, Running
  <2>9. /\ Len(out') = Len(truth')
        /\ \A k \in 1..Len(out') : out'[k].instruction_index = ReportedIndex(truth'[k].top)
    BY <2>3 DEF Aligned
  <2> QED BY <1>1, <2>4, <2>5, <2>6, <2>7, <2>8, <2>9 DEF Aligned
<1>4. CASE Ends
  <2>1. /\ line'.kind \in {"success", "failed"} /\ tops' = tops
        /\ frames # <<>> /\ frames' = Unwound
    BY <1>4 DEF Ends, WholeLog, Running
  <2>2. OnEnd
    BY <2>1, ReadLineCases
  <2>3. /\ Len(frames') = Len(frames) - 1 /\ frames' \in Seq(Frame) /\ Len(frames) >= 1
        /\ stack # <<>> /\ Last(stack) = Len(stack)
    <3>1. Len(frames) >= 1
      BY <1>1, <2>1, LastProperties
    <3>2. stack # <<>>
      BY <1>1, <3>1, EmptySeq
    <3>3. Last(stack) = Len(stack)
      <4>1. Last(stack) = stack[Len(stack)]
        BY <3>2, LastProperties
      <4>2. Len(stack) \in 1..Len(stack)
        BY <1>1, <3>1
      <4> QED BY <4>1, <4>2 DEF Aligned
    <3> QED BY <1>1, <2>1, <3>1, <3>2, <3>3, UnwoundProperties DEF Running
  <2>4. /\ stack' = Front(stack)
        /\ completed_top_levels' = completed_top_levels + (IF Len(stack) = 1 THEN 1 ELSE 0)
        /\ UNCHANGED <<current_top_level, has_top_level, out, truth>>
    BY <2>2, <2>3 DEF OnEnd
  <2>5. /\ Len(stack') = Len(stack) - 1
        /\ \A i \in 1..(Len(stack) - 1) : stack'[i] = stack[i]
    BY <2>3, <2>4, FrontProperties
  <2>6. frames' = <<>> <=> Len(frames) = 1
    <3>1. frames' = <<>> => Len(frames') = 0
      BY EmptySeq
    <3>2. frames' # <<>> => Len(frames') \in Nat \ {0}
      BY <2>3, EmptySeq
    <3> QED BY <1>1, <2>3, <3>1, <3>2
  <2>7. \A i \in 1..Len(stack') : stack'[i] = i
    <3>1. \A i \in 1..Len(stack) : stack[i] = i
      BY DEF Aligned
    <3> SUFFICES ASSUME NEW i \in 1..Len(stack') PROVE stack'[i] = i
      OBVIOUS
    <3>2. i \in 1..(Len(stack) - 1) /\ i \in 1..Len(stack)
      BY <1>1, <2>5
    <3> QED BY <2>5, <3>1, <3>2
  <2>8. completed_top_levels' = IF frames' = <<>> THEN tops' ELSE tops' - 1
    BY <1>1, <2>1, <2>4, <2>6 DEF Aligned
  <2>9. has_top_level' /\ current_top_level' = tops' - 1
    BY <2>1, <2>4 DEF Aligned, Running
  <2>10. /\ Len(out') = Len(truth')
         /\ \A k \in 1..Len(out') : out'[k].instruction_index = ReportedIndex(truth'[k].top)
    BY <2>4 DEF Aligned
  <2> QED BY <1>1, <2>3, <2>5, <2>7, <2>8, <2>9, <2>10 DEF Aligned
<1>5. CASE Stays
  <2>1. /\ Len(frames') = Len(frames) /\ tops' = tops /\ frames # <<>>
        /\ line'.kind \notin {"invoke", "success", "failed"}
    BY <1>5 DEF Stays, Running
  <2>2. frames' # <<>>
    BY <1>1, <2>1, EmptySeq DEF RuntimeTypeOK
  <2>3. CASE line'.kind = "consumed" /\ OnConsumed(line')
    <3>1. UNCHANGED <<stack, completed_top_levels, current_top_level, has_top_level>>
      BY <2>3 DEF OnConsumed
    <3>2. has_top_level /\ current_top_level = tops - 1
      BY <2>1 DEF Aligned, Running
    <3>3. /\ Len(out') = Len(out) + 1 /\ Len(truth') = Len(truth) + 1
          /\ \A k \in 1..Len(out) : out'[k] = out[k]
          /\ \A k \in 1..Len(truth) : truth'[k] = truth[k]
          /\ out'[Len(out) + 1].instruction_index = ReportedIndex(current_top_level)
          /\ truth'[Len(truth) + 1].top \in Nat
          /\ truth'[Len(truth) + 1].top + 1 = tops
      BY <1>1, <2>3, <3>2, ConsumedAppends
    <3>4. truth'[Len(truth) + 1].top = current_top_level
      BY <1>1, <3>2, <3>3
    <3>5. Len(out) \in Nat /\ Len(out) = Len(truth)
      BY LenProperties DEF Aligned
    <3>6. ASSUME NEW k \in 1..Len(out')
          PROVE  out'[k].instruction_index = ReportedIndex(truth'[k].top)
      <4>1. CASE k \in 1..Len(out)
        BY <3>3, <3>5, <4>1 DEF Aligned
      <4>2. CASE k = Len(out) + 1
        BY <3>3, <3>4, <3>5, <4>2
      <4> QED BY <3>3, <3>5, <4>1, <4>2
    <3> QED BY <1>1, <2>1, <2>2, <3>1, <3>3, <3>5, <3>6 DEF Aligned, Running
  <2>4. CASE UNCHANGED <<parserVars, truth>>
    BY <1>1, <2>1, <2>2, <2>4 DEF Aligned, Running, parserVars
  <2> QED BY <2>1, <2>3, <2>4, ReadLineCases
<1> QED BY <1>2, <1>3, <1>4, <1>5

-----------------------------------------------------------------------------
(* The report's side *)

ReportTypeOK ==
  /\ invocations \in Nat
  /\ decoded \in Nat
  /\ estimate \in [0..(decoded - 1) -> Estimates]
  /\ high \subseteq Nat
  /\ \A m \in mismatches :
       /\ m.what \in {"invocation_count", "first_failure", "estimate", "over_limit"}
       /\ m.index \in Nat
  /\ simulation \in {"running", "answered", "crossed"}

\* Only an instruction that was started can have failed.
FailureStarted == aborted => tops > 0

IInv == /\ RuntimeTypeOK /\ FramesShape /\ FailureStarted
        /\ ParserTypeOK /\ ReportTypeOK
        /\ NotAhead /\ AlignedWhenWhole

LEMMA CrossReferenceType ==
  ASSUME IInv, CrossReference
  PROVE  ReportTypeOK'
<1> USE DEF IInv
<1>1. \A k \in 1..Len(out) : out[k].instruction_index \in Nat
  <2> SUFFICES ASSUME NEW k \in 1..Len(out) PROVE out[k].instruction_index \in Nat
    OBVIOUS
  <2>1. out[k] \in CuEntry
    BY ElementOfSeq DEF ParserTypeOK
  <2> QED BY <2>1, IndexCapAssumption DEF CuEntry
<1>2. high' \subseteq Nat
  BY <1>1 DEF CrossReference, Retained, NewlyHigh, ReportTypeOK
<1>3. ASSUME NEW m \in mismatches'
      PROVE  /\ m.what \in {"invocation_count", "first_failure", "estimate", "over_limit"}
             /\ m.index \in Nat
  <2>1. CASE m \in InvocationFlags
    BY <2>1 DEF InvocationFlags
  <2>2. CASE m \in FailureFlags
    BY <2>2 DEF FailureFlags, FailureStarted, RuntimeTypeOK
  <2>3. CASE m \in EstimateFlags
    BY <1>1, <2>3 DEF EstimateFlags
  <2>4. CASE \E over \in BOOLEAN : m \in OverLimitFlags(over)
    BY <2>4 DEF OverLimitFlags
  <2> QED BY <1>3, <2>1, <2>2, <2>3, <2>4 DEF CrossReference
<1>4. /\ invocations' \in Nat /\ decoded' \in Nat
      /\ estimate' \in [0..(decoded' - 1) -> Estimates]
      /\ simulation' \in {"running", "answered", "crossed"}
  BY DEF CrossReference, ReportTypeOK
<1> QED BY <1>2, <1>3, <1>4 DEF ReportTypeOK

LEMMA ExecuteKeeps ==
  ASSUME IInv, Execute
  PROVE  IInv'
<1> USE DEF IInv
<1>1. RuntimeNext /\ ReadLine
  BY DEF Execute
<1>2. RuntimeTypeOK' /\ FramesShape'
  BY <1>1, RuntimeType, RuntimeShape
<1>3. ParserTypeOK'
  BY <1>1, <1>2, ReadLineType
<1>4. ReportTypeOK'
  <2>1. invocations' \in Nat /\ UNCHANGED reportVars
    BY <1>1 DEF ReadLine, ReportTypeOK
  <2> QED BY <2>1 DEF ReportTypeOK, reportVars
<1>5. NotAhead'
  BY <1>1, <1>2, ReadLineNotAhead
<1>6. AlignedWhenWhole'
  <2>1. WholeLog' => WholeLog
    BY <1>1, RuntimeStep DEF WholeLog
  <2> QED BY <1>1, <1>2, <2>1, ReadLineAligned DEF AlignedWhenWhole
<1>7. FailureStarted'
  <2>1. aborted' = aborted \/ Ends
    BY <1>1 DEF RuntimeNext, InvokeTop, InvokeInner, LogData, LogText, Consume,
             EndSuccess, EndFailed, Ends, Log, NoLine
  <2>2. Opens \/ Ends \/ Stays
    BY <1>1, RuntimeStep
  <2>3. tops' >= tops /\ tops \in Nat
    BY <2>2 DEF Opens, Ends, Stays, RuntimeTypeOK
  <2>4. Ends => tops > 0 /\ tops' = tops
    BY DEF Ends, FramesShape
  <2>5. CASE Ends
    BY <2>4, <2>5 DEF FailureStarted
  <2>6. CASE aborted' = aborted
    BY <1>2, <2>3, <2>6 DEF FailureStarted, RuntimeTypeOK
  <2> QED BY <2>1, <2>5, <2>6
<1> QED BY <1>2, <1>3, <1>4, <1>5, <1>6, <1>7

LEMMA InitHolds == ASSUME Init PROVE IInv
<1>1. RuntimeTypeOK /\ FramesShape
  BY RuntimeInitType DEF Init
<1>2. /\ stack = <<>> /\ out = <<>> /\ truth = <<>> /\ frames = <<>>
      /\ completed_top_levels = 0 /\ current_top_level = 0 /\ tops = 0
      /\ has_top_level = FALSE /\ aborted = FALSE
  BY DEF Init, RuntimeInit
<1>3. ParserTypeOK
  <2>1. has_top_level \in BOOLEAN
    BY DEF Init
  <2>2. /\ stack \in Seq(Nat) /\ out \in Seq(CuEntry)
        /\ truth \in Seq([top : Nat, depth : Nat])
    BY <1>2, EmptySeq
  <2> QED BY <1>2, <2>1, <2>2 DEF ParserTypeOK
<1>4. ReportTypeOK
  <2>1. decoded \in Nat /\ high \subseteq Nat
    BY BoundsAssumption DEF Init
  <2> QED BY <2>1 DEF Init, ReportTypeOK
<1>5. NotAhead
  <2>1. OpenTops = {}
    BY <1>2 DEF OpenTops
  <2> QED BY <1>2, <2>1, FS_EmptySet DEF NotAhead, NeverLaterInstruction
<1>6. AlignedWhenWhole
  BY <1>2 DEF AlignedWhenWhole, Aligned, Running
<1>7. FailureStarted
  BY <1>2 DEF FailureStarted
<1> QED BY <1>1, <1>3, <1>4, <1>5, <1>6, <1>7 DEF IInv

LEMMA NextKeeps == ASSUME IInv, [Next]_vars PROVE IInv'
<1>1. CASE Execute
  BY <1>1, ExecuteKeeps
<1>2. ASSUME UNCHANGED <<rtVars, parserVars, truth>>, ReportTypeOK'
      PROVE  IInv'
  BY <1>2 DEF IInv, rtVars, parserVars, RuntimeTypeOK, FramesShape, Running,
              FailureStarted, ParserTypeOK, NotAhead, NeverLaterInstruction, OpenTops,
              AlignedWhenWhole, WholeLog, Aligned
<1>3. CASE Answer
  <2>1. ReportTypeOK'
    BY <1>3 DEF Answer, IInv, ReportTypeOK
  <2> QED BY <1>2, <1>3, <2>1 DEF Answer
<1>4. CASE CrossReference
  <2>1. ReportTypeOK'
    BY <1>4, CrossReferenceType
  <2> QED BY <1>2, <1>4, <2>1 DEF CrossReference
<1>5. CASE UNCHANGED vars
  <2>1. ReportTypeOK'
    BY <1>5 DEF vars, reportVars, IInv, ReportTypeOK
  <2> QED BY <1>2, <1>5, <2>1 DEF vars
<1> QED BY <1>1, <1>3, <1>4, <1>5 DEF Next

LEMMA Inductive == Spec => []IInv
<1>1. Init => IInv
  BY InitHolds
<1>2. IInv /\ [Next]_vars => IInv'
  BY NextKeeps
<1> QED BY <1>1, <1>2, PTL DEF Spec

\* Whatever the simulation logs, the parser's and the report's state keep their
\* types; in particular every mismatch flag names an instruction index.
THEOREM TypeCorrect == Spec => []TypeOK
<1>1. IInv => TypeOK
  BY DEF IInv, ParserTypeOK, ReportTypeOK, TypeOK
<1> QED BY <1>1, Inductive, PTL

\* However many lines of whatever kinds a truncated log lost, no consumption is
\* filed under an instruction later than the one that consumed.
THEOREM NeverLater == Spec => []NeverLaterInstruction
<1>1. IInv => NeverLaterInstruction
  BY DEF IInv, NotAhead
<1> QED BY <1>1, Inductive, PTL

LEMMA ReportedIndexIsMin ==
  ASSUME NEW top \in Nat
  PROVE  ReportedIndex(top) = Min({top, IndexCap})
<1> DEFINE T == {top, IndexCap}
<1>1. ReportedIndex(top) \in T /\ \A y \in T : ReportedIndex(top) =< y
  BY IndexCapAssumption DEF ReportedIndex
<1>2. \A x \in T : (\A y \in T : x =< y) => x = ReportedIndex(top)
  BY IndexCapAssumption DEF ReportedIndex
<1> QED BY <1>1, <1>2 DEF Min

\* In a whole log every consumption line, at any depth of any number of calls,
\* is filed under the instruction whose invocation tree it belongs to.
THEOREM CuIndexed == Spec => []CuIndexIsRunningTop
<1>1. IInv => CuIndexIsRunningTop
  <2> SUFFICES ASSUME IInv, WholeLog, NEW k \in 1..Len(out)
               PROVE  out[k].instruction_index = Min({truth[k].top, IndexCap})
    BY DEF CuIndexIsRunningTop
  <2>1. Aligned
    BY DEF IInv, AlignedWhenWhole
  <2>2. out[k].instruction_index = ReportedIndex(truth[k].top)
    BY <2>1 DEF Aligned
  <2>3. truth[k] \in [top : Nat, depth : Nat]
    <3>1. k \in 1..Len(truth)
      BY <2>1 DEF Aligned
    <3> QED BY <3>1, ElementOfSeq DEF IInv, ParserTypeOK
  <2> QED BY <2>2, <2>3, ReportedIndexIsMin
<1> QED BY <1>1, Inductive, PTL

-----------------------------------------------------------------------------
(***************************************************************************)
(* High compute.  The flags follow the last entry of an instruction, so    *)
(* what matters is that the depth-1 frame reports last and most: while an  *)
(* instruction runs, some open frame has spent as much as any entry of it  *)
(* says, and frames hand their units down as they end.                     *)
(***************************************************************************)

\* Every index of a transaction can be reported.
IndexesFit == MaxTop <= IndexCap + 1

\* The compute-budget program is built in: it reports no consumption.
BudgetIsBuiltin == ComputeBudget \in Programs => ComputeBudget \in Builtins

TreeUnits ==
  /\ Len(out) = Len(truth)
  /\ \A k \in 1..Len(out) : /\ truth[k].top + 1 <= tops
                            /\ out[k].program_id \in Programs \ Builtins
  /\ \A k \in 1..Len(out) : Running /\ truth[k].top + 1 = tops =>
       /\ \E i \in 1..Len(frames) : out[k].units_consumed <= frames[i].units
       /\ truth[k].depth = 1 => Len(frames) = 1 /\ frames[1].reported
  /\ \A j, k \in 1..Len(out) : truth[j].top = truth[k].top /\ truth[k].depth = 1 =>
       j <= k /\ out[j].units_consumed <= out[k].units_consumed

\* The simulation runs no more instructions than were decoded.
WithinDecoded == tops <= decoded /\ decoded <= MaxTop

HIInv == /\ IInv
         /\ WholeLog => TreeUnits
         /\ WithinDecoded
         /\ HighCuIffSimulated

LEMMA EntryTypes ==
  ASSUME ParserTypeOK, Len(out) = Len(truth), NEW k \in 1..Len(out)
  PROVE  /\ out[k].instruction_index \in 0..IndexCap
         /\ out[k].units_consumed \in Nat
         /\ truth[k].top \in Nat /\ truth[k].depth \in Nat
<1>1. out[k] \in CuEntry
  BY ElementOfSeq DEF ParserTypeOK
<1>2. truth[k] \in [top : Nat, depth : Nat]
  BY ElementOfSeq DEF ParserTypeOK
<1> QED BY <1>1, <1>2 DEF CuEntry

\* Only a consumption line adds an entry.
LEMMA OtherLinesAddNone ==
  ASSUME RuntimeTypeOK', ReadLine, line'.kind # "consumed"
  PROVE  out' = out /\ truth' = truth
BY ReadLineCases DEF OnInvoke, OnEnd, OnConsumed, parserVars

LEMMA AbsorbUnits ==
  ASSUME NEW f \in Frame, NEW g \in Frame
  PROVE  Absorb(f, g) \in Frame /\ Absorb(f, g).units = f.units + g.units
BY DEF Absorb, Frame

LEMMA UnwoundUnits ==
  ASSUME frames \in Seq(Frame), Running, Len(frames) # 1
  PROVE  LET n == Len(frames)
         IN  /\ n - 1 \in 1..Len(Unwound)
             /\ Unwound[n - 1].units = frames[n - 1].units + frames[n].units
             /\ \A i \in 1..(n - 2) : Unwound[i] = frames[i]
<1> DEFINE n == Len(frames)
           front == Front(frames)
           below == Absorb(front[n - 1], frames[n])
<1>1. n \in Nat /\ n >= 2
  <2>1. n \in Nat /\ n >= 1
    BY LastProperties DEF Running
  <2>2. n # 1
    OBVIOUS
  <2> HIDE DEF n
  <2> QED BY <2>1, <2>2
<1>2. /\ front \in Seq(Frame)
      /\ Len(front) = n - 1
      /\ \A i \in 1..(n - 1) : front[i] = frames[i]
  BY FrontProperties DEF Running
<1>3. n - 1 \in 1..Len(front) /\ front[n - 1] = frames[n - 1]
  BY <1>1, <1>2
<1>4. front[n - 1] \in Frame /\ frames[n] \in Frame
  BY <1>1, <1>2, <1>3, ElementOfSeq
<1>5. below \in Frame /\ below.units = front[n - 1].units + frames[n].units
  BY <1>4, AbsorbUnits
<1>6. Unwound = [front EXCEPT ![n - 1] = below]
  BY <1>1 DEF Unwound
<1> HIDE DEF front, below
<1>7. /\ Len(Unwound) = n - 1
      /\ \A j \in 1..(n - 1) : Unwound[j] = IF j = n - 1 THEN below ELSE front[j]
  BY <1>2, <1>3, <1>5, <1>6, ExceptSeq
<1>8. n - 1 \in 1..Len(Unwound) /\ n - 1 \in 1..(n - 1)
  <2> HIDE DEF n
  <2> QED BY <1>1, <1>7
<1>9. Unwound[n - 1].units = frames[n - 1].units + frames[n].units
  BY <1>3, <1>5, <1>7, <1>8
<1>10. \A i \in 1..(n - 2) : Unwound[i] = frames[i]
  <2> HIDE DEF n
  <2> QED BY <1>1, <1>2, <1>7
<1> QED BY <1>8, <1>9, <1>10

LEMMA InvokeTopUnits ==
  ASSUME RuntimeTypeOK, ParserTypeOK, TreeUnits, NEW p \in Programs, InvokeTop(p),
         out' = out, truth' = truth
  PROVE  TreeUnits'
<1>1. tops \in Nat /\ tops' = tops + 1
  BY DEF InvokeTop, RuntimeTypeOK
<1>2. \A k \in 1..Len(out) : truth[k].top + 1 <= tops /\ truth[k].top \in Nat
  BY EntryTypes DEF TreeUnits
<1>3. \A k \in 1..Len(out) : truth[k].top + 1 <= tops' /\ truth[k].top + 1 # tops'
  BY <1>1, <1>2
<1> QED BY <1>3 DEF TreeUnits

LEMMA InvokeInnerUnits ==
  ASSUME RuntimeTypeOK, ParserTypeOK, TreeUnits, NEW p \in Programs, InvokeInner(p),
         out' = out, truth' = truth
  PROVE  TreeUnits'
<1> DEFINE f == NewFrame(p, Last(frames).top)
<1>1. /\ Running /\ ~ Last(frames).reported /\ tops' = tops
      /\ frames' = Append(frames, f)
  BY DEF InvokeInner
<1>2. /\ Len(frames) \in Nat /\ Len(frames) >= 1
      /\ Last(frames) = frames[Len(frames)] /\ Last(frames) \in Frame
  BY <1>1, LastProperties DEF Running, RuntimeTypeOK
<1>3. f \in Frame
  BY <1>2 DEF NewFrame, Frame
<1> HIDE DEF f
<1>4. Len(frames') = Len(frames) + 1 /\ \A i \in 1..Len(frames) : frames'[i] = frames[i]
  BY <1>1, <1>3, AppendProperties DEF RuntimeTypeOK
<1>5. ASSUME NEW k \in 1..Len(out), truth[k].top + 1 = tops
      PROVE  /\ \E i \in 1..Len(frames') : out[k].units_consumed <= frames'[i].units
             /\ truth[k].depth # 1
  <2>1. PICK i \in 1..Len(frames) : out[k].units_consumed <= frames[i].units
    BY <1>1, <1>5 DEF TreeUnits
  <2>2. i \in 1..Len(frames') /\ out[k].units_consumed <= frames'[i].units
    BY <1>2, <1>4, <2>1
  <2>3. truth[k].depth # 1
    BY <1>1, <1>2, <1>5 DEF TreeUnits
  <2> QED BY <2>2, <2>3
<1> QED BY <1>1, <1>5 DEF TreeUnits

LEMMA EndUnits ==
  ASSUME RuntimeTypeOK, ParserTypeOK, TreeUnits, Running, frames' = Unwound,
         tops' = tops, out' = out, truth' = truth
  PROVE  TreeUnits'
<1> DEFINE n == Len(frames)
<1>1. n \in Nat /\ n >= 1 /\ frames \in Seq(Frame)
  BY LastProperties DEF Running, RuntimeTypeOK
<1>2. CASE n = 1
  BY <1>2 DEF Unwound, TreeUnits, Running
<1>3. CASE n # 1
  <2>0. n - 1 \in 1..n /\ n \in 1..n
    <3> HIDE DEF n
    <3> QED BY <1>1, <1>3
  <2>1. /\ n - 1 \in 1..Len(frames')
        /\ frames'[n - 1].units = frames[n - 1].units + frames[n].units
        /\ \A i \in 1..(n - 2) : frames'[i] = frames[i]
        /\ Len(frames') = n - 1
    BY <1>1, <1>3, UnwoundUnits, UnwoundProperties
  <2>2. \A i \in 1..n : frames[i].units \in Nat
    <3>1. \A i \in 1..n : frames[i] \in Frame
      BY <1>1, ElementOfSeq
    <3> QED BY <3>1 DEF Frame
  <2>3. ASSUME NEW k \in 1..Len(out), truth[k].top + 1 = tops
        PROVE  /\ \E i \in 1..Len(frames') : out[k].units_consumed <= frames'[i].units
               /\ truth[k].depth # 1
    <3>1. PICK i \in 1..n : out[k].units_consumed <= frames[i].units
      BY <2>3 DEF TreeUnits
    <3>2. out[k].units_consumed \in Nat
      BY EntryTypes DEF TreeUnits
    <3>3. CASE i \in 1..(n - 2)
      <4>1. i \in 1..Len(frames') /\ out[k].units_consumed <= frames'[i].units
        BY <1>1, <2>1, <3>1, <3>3, SMTT(30)
      <4> QED BY <1>3, <2>3, <4>1 DEF TreeUnits
    <3>4. CASE i \in {n - 1, n}
      <4>1. frames[n - 1].units \in Nat /\ frames[n].units \in Nat
        BY <2>0, <2>2
      <4>2. out[k].units_consumed <= frames[n - 1].units + frames[n].units
        BY <3>1, <3>2, <3>4, <4>1, SMTT(30)
      <4> QED BY <1>3, <2>1, <2>3, <4>2 DEF TreeUnits
    <3> QED BY <1>1, <3>3, <3>4
  <2> QED BY <2>3 DEF TreeUnits
<1> QED BY <1>2, <1>3

\* The entry of a frame says at least what the entries of its callees say.
LEMMA ConsumeUnits ==
  ASSUME RuntimeTypeOK, FramesShape, ParserTypeOK, TreeUnits, Aligned, WholeLog,
         NEW cost \in Costs, Consume(cost), RuntimeTypeOK', ReadLine
  PROVE  TreeUnits'
<1> DEFINE n == Len(frames)
           units == Last(frames).units + cost
           spent == Report(frames[n], units)
           e == [instruction_index |-> ReportedIndex(current_top_level),
                 program_id |-> Last(frames).prog, units_consumed |-> units]
           t == [top |-> Last(frames).top, depth |-> n]
<1>1. /\ frames \in Seq(Frame) /\ n \in Nat /\ n >= 1
      /\ frames[n] \in Frame /\ Last(frames) = frames[n] /\ Running
  BY LastProperties DEF Running, RuntimeTypeOK, Consume
<1>2. units \in Nat /\ units >= frames[n].units /\ frames[n].units \in Nat
  BY <1>1, BoundsAssumption DEF Frame
<1>3. /\ spent \in Frame /\ spent.units = units /\ spent.reported = TRUE
  BY <1>1, <1>2 DEF Report, Frame
<1>4. /\ ~ frames[n].reported /\ frames[n].prog \in Programs \ Builtins
      /\ tops' = tops /\ frames' = [frames EXCEPT ![n] = spent]
  BY <1>1 DEF Consume, Frame
<1>5. line' = [kind |-> "consumed", id |-> Last(frames).prog, units |-> units]
  BY DEF Consume, Log, WholeLog
<1>6. OnConsumed(line')
  BY <1>5, ReadLineCases
<1>7. out' = Append(out, e) /\ truth' = Append(truth, t)
  BY <1>1, <1>5, <1>6 DEF OnConsumed, Aligned
<1>8. e \in CuEntry /\ e.units_consumed = units /\ e.program_id = frames[n].prog
  <2>1. current_top_level \in Nat
    BY DEF ParserTypeOK
  <2>2. ReportedIndex(current_top_level) \in 0..IndexCap
    BY <2>1, ReportedIndexType
  <2> QED BY <1>1, <1>2, <1>4, <2>2 DEF CuEntry
<1>9. /\ t \in [top : Nat, depth : Nat] /\ t.depth = n
      /\ t.top \in Nat /\ t.top + 1 = tops
  BY <1>1 DEF FramesShape, Frame
<1> HIDE DEF spent, e, t, units
<1>10. /\ Len(frames') = n
       /\ \A i \in 1..n : frames'[i] = IF i = n THEN spent ELSE frames[i]
  <2>1. n \in 1..Len(frames)
    BY <1>1
  <2> HIDE DEF n
  <2> QED BY <1>1, <1>3, <1>4, <2>1, ExceptSeq DEF n
<1> DEFINE m == Len(out)
<1>11. /\ m \in Nat /\ Len(out') = m + 1 /\ out'[m + 1] = e
       /\ \A k \in 1..m : out'[k] = out[k]
  BY <1>7, <1>8, AppendProperties, LenProperties DEF ParserTypeOK
<1>12. /\ Len(truth) = m /\ Len(truth') = m + 1 /\ truth'[m + 1] = t
       /\ \A k \in 1..m : truth'[k] = truth[k]
  BY <1>7, <1>9, AppendProperties, LenProperties DEF ParserTypeOK, TreeUnits
<1>13. \A k \in 1..m : /\ out[k].units_consumed \in Nat
                       /\ truth[k].top \in Nat /\ truth[k].depth \in Nat
  BY EntryTypes DEF TreeUnits
<1>14. \A i \in 1..n : frames[i].units \in Nat
  <2>1. \A i \in 1..n : frames[i] \in Frame
    BY <1>1, ElementOfSeq
  <2> QED BY <2>1 DEF Frame
<1> HIDE DEF m, n
<1>15. n = Len(frames) /\ m = Len(out)
  BY DEF n, m
<1>16. ASSUME NEW k \in 1..m, truth[k].top + 1 = tops
       PROVE  /\ \E i \in 1..n : out[k].units_consumed <= frames[i].units
              /\ truth[k].depth # 1
  BY <1>1, <1>4, <1>15, <1>16 DEF TreeUnits
<1>17. ASSUME NEW k \in 1..(m + 1)
       PROVE  /\ truth'[k].top + 1 <= tops'
              /\ out'[k].program_id \in Programs \ Builtins
  <2>1. CASE k \in 1..m
    BY <1>4, <1>11, <1>12, <1>15, <2>1 DEF TreeUnits
  <2>2. CASE k = m + 1
    BY <1>4, <1>8, <1>9, <1>11, <1>12, <2>2
  <2> QED BY <1>11, <2>1, <2>2
<1>18. ASSUME NEW k \in 1..(m + 1), truth'[k].top + 1 = tops'
       PROVE  /\ \E i \in 1..Len(frames') : out'[k].units_consumed <= frames'[i].units
              /\ truth'[k].depth = 1 => Len(frames') = 1 /\ frames'[1].reported
  <2>1. CASE k \in 1..m
    <3>1. PICK i \in 1..n : out[k].units_consumed <= frames[i].units
      BY <1>4, <1>12, <1>16, <1>18, <2>1
    <3>2. out[k].units_consumed <= frames'[i].units
      <4>1. CASE i = n
        <5>1. frames'[i] = spent /\ out[k].units_consumed \in Nat
          BY <1>10, <1>13, <2>1, <4>1
        <5> QED BY <1>2, <1>3, <3>1, <4>1, <5>1
      <4>2. CASE i # n
        <5>1. frames'[i] = frames[i]
          BY <1>10, <4>2
        <5> QED BY <3>1, <5>1
      <4> QED BY <4>1, <4>2
    <3> QED BY <1>4, <1>10, <1>11, <1>12, <1>16, <1>18, <2>1, <3>2
  <2>2. CASE k = m + 1
    <3>1. n \in 1..Len(frames') /\ frames'[n] = spent
      BY <1>1, <1>10
    <3>2. out'[k].units_consumed <= frames'[n].units
      BY <1>2, <1>3, <1>8, <1>11, <2>2, <3>1
    <3> QED BY <1>3, <1>9, <1>10, <1>12, <2>2, <3>1, <3>2
  <2> QED BY <1>11, <2>1, <2>2
<1>19. ASSUME NEW j \in 1..(m + 1), NEW k \in 1..(m + 1),
              truth'[j].top = truth'[k].top, truth'[k].depth = 1
       PROVE  j <= k /\ out'[j].units_consumed <= out'[k].units_consumed
  <2>1. CASE j \in 1..m /\ k \in 1..m
    BY <1>11, <1>12, <1>15, <1>19, <2>1 DEF TreeUnits
  <2>2. CASE j = m + 1 /\ k = m + 1
    BY <1>2, <1>8, <1>11, <2>2
  <2>3. CASE j = m + 1 /\ k \in 1..m
    BY <1>9, <1>12, <1>16, <1>19, <2>3
  <2>4. CASE j \in 1..m /\ k = m + 1
    <3>1. truth[j].top + 1 = tops /\ n = 1
      BY <1>9, <1>12, <1>19, <2>4
    <3>2. PICK i \in 1..n : out[j].units_consumed <= frames[i].units
      BY <1>16, <2>4, <3>1
    <3>3. out[j].units_consumed <= units
      BY <1>2, <1>13, <2>4, <3>1, <3>2
    <3> QED BY <1>8, <1>11, <2>4, <3>3
  <2> QED BY <1>11, <2>1, <2>2, <2>3, <2>4
<1> QED BY <1>11, <1>12, <1>17, <1>18, <1>19 DEF TreeUnits

LEMMA TreeUnitsKept ==
  ASSUME IInv, WholeLog, TreeUnits, RuntimeNext, ReadLine
  PROVE  TreeUnits'
<1> USE DEF IInv
<1>1. RuntimeTypeOK' /\ line' \in Line /\ Aligned
  BY RuntimeType DEF RuntimeTypeOK, AlignedWhenWhole
<1>2. ASSUME line'.kind # "consumed" PROVE out' = out /\ truth' = truth
  BY <1>1, <1>2, OtherLinesAddNone
<1>3. ASSUME NEW p \in Programs, InvokeTop(p) PROVE TreeUnits'
  <2>1. line'.kind # "consumed"
    BY <1>3 DEF InvokeTop, Log, NoLine
  <2> QED BY <1>2, <1>3, <2>1, InvokeTopUnits
<1>4. ASSUME NEW p \in Programs, InvokeInner(p) PROVE TreeUnits'
  <2>1. line'.kind # "consumed"
    BY <1>4 DEF InvokeInner, Log, NoLine
  <2> QED BY <1>2, <1>4, <2>1, InvokeInnerUnits
<1>5. ASSUME NEW matches \in SUBSET Events, LogData(matches) PROVE TreeUnits'
  <2>1. line'.kind # "consumed" /\ frames' = frames /\ tops' = tops
    BY <1>5 DEF LogData, Log, NoLine
  <2> QED BY <1>2, <2>1 DEF TreeUnits, Running
<1>6. ASSUME NEW shape \in UserTexts, LogText(shape) PROVE TreeUnits'
  <2>1. line'.kind # "consumed" /\ frames' = frames /\ tops' = tops
    BY <1>6 DEF LogText, Log, NoLine
  <2> QED BY <1>2, <2>1 DEF TreeUnits, Running
<1>7. ASSUME NEW cost \in Costs, Consume(cost) PROVE TreeUnits'
  BY <1>1, <1>7, ConsumeUnits
<1>8. CASE EndSuccess
  <2>1. /\ line'.kind # "consumed" /\ Running
        /\ frames' = Unwound /\ tops' = tops
    BY <1>8 DEF EndSuccess, Log, NoLine
  <2> QED BY <1>2, <2>1, EndUnits
<1>9. CASE EndFailed
  <2>1. /\ line'.kind # "consumed" /\ Running
        /\ frames' = Unwound /\ tops' = tops
    BY <1>9 DEF EndFailed, Log, NoLine
  <2> QED BY <1>2, <2>1, EndUnits
<1> QED BY <1>3, <1>4, <1>5, <1>6, <1>7, <1>8, <1>9 DEF RuntimeNext

\* The entry the report keeps of an instruction is that of its own frame.
LEMMA ActualIsOwn ==
  ASSUME ParserTypeOK, TreeUnits, NEW i, NEW k \in 1..Len(out),
         \A j \in 1..Len(out) : out[j].instruction_index = i <=> truth[j].top = truth[k].top,
         truth[k].depth = 1
  PROVE  i \in DOMAIN Actuals /\ Actuals[i] = out[k]
<1> DEFINE K == {j \in 1..Len(out) : out[j].instruction_index = i}
<1>1. Len(out) \in Nat
  BY LenProperties DEF ParserTypeOK
<1>2. k \in K /\ K \subseteq 1..Len(out)
  OBVIOUS
<1>3. \A j \in K : k >= j
  BY <1>1 DEF TreeUnits
<1>4. \A x \in K : (\A y \in K : x >= y) => x = k
  <2> HIDE DEF K
  <2> QED BY <1>1, <1>2, <1>3
<1>5. Max(K) = k
  <2> HIDE DEF K
  <2> QED BY <1>2, <1>3, <1>4 DEF Max
<1> QED BY <1>2, <1>5 DEF Actuals

LEMMA CrossedSound ==
  ASSUME IndexesFit, BudgetIsBuiltin, HIInv, CrossReference
  PROVE  HighCuIffSimulated'
<1> USE DEF HIInv
<1>1. /\ UNCHANGED <<drops, out, truth, decoded>>
      /\ high' = Retained \cup NewlyHigh
  BY DEF CrossReference, rtVars, parserVars
<1> SUFFICES ASSUME WholeLog, NEW i \in 0..(decoded - 1), NEW k \in 1..Len(out),
                    truth[k].top = i, truth[k].depth = 1
             PROVE  i \in high' <=> out[k].units_consumed >= Threshold
  BY <1>1 DEF HighCuIffSimulated, SimulatedUnits, WholeLog
<1>2. ParserTypeOK /\ TreeUnits /\ Aligned
  BY DEF IInv, AlignedWhenWhole
<1>3. /\ decoded \in Nat /\ decoded <= IndexCap + 1 /\ IndexCap \in Nat
      /\ tops <= decoded /\ tops \in Nat
  BY BoundsAssumption, IndexCapAssumption
     DEF IInv, ReportTypeOK, RuntimeTypeOK, WithinDecoded, IndexesFit
<1>4. ASSUME NEW j \in 1..Len(out)
      PROVE  /\ out[j].instruction_index = truth[j].top
             /\ out[j].units_consumed \in Nat
  <2>1. truth[j].top \in Nat /\ out[j].units_consumed \in Nat
    BY <1>2, EntryTypes DEF TreeUnits
  <2>2. truth[j].top + 1 <= tops
    BY <1>2 DEF TreeUnits
  <2>3. ReportedIndex(truth[j].top) = truth[j].top
    BY <1>3, <2>1, <2>2 DEF ReportedIndex
  <2> QED BY <1>2, <2>1, <2>3 DEF Aligned
<1>5. i \in DOMAIN Actuals /\ Actuals[i] = out[k]
  <2>1. \A j \in 1..Len(out) :
          out[j].instruction_index = i <=> truth[j].top = truth[k].top
    BY <1>4
  <2> QED BY <1>2, <2>1, ActualIsOwn
<1>6. /\ out[k].instruction_index = i /\ i < decoded
      /\ out[k].units_consumed \in Nat /\ Threshold \in Nat
  BY <1>3, <1>4, ThresholdAssumption
<1>7. ASSUME out[k].units_consumed >= Threshold
      PROVE  i \in high'
  <2>1. out[k].program_id # ComputeBudget
    BY <1>2 DEF TreeUnits, BudgetIsBuiltin
  <2> QED BY <1>1, <1>6, <1>7, <2>1 DEF NewlyHigh
<1>8. ASSUME i \in high'
      PROVE  out[k].units_consumed >= Threshold
  <2>1. CASE i \in Retained
    BY <1>5, <1>6, <2>1 DEF Retained
  <2>2. CASE i \in NewlyHigh
    <3>1. PICK j \in 1..Len(out) : /\ out[j].units_consumed >= Threshold
                                   /\ out[j].instruction_index = i
      BY <2>2 DEF NewlyHigh
    <3>2. out[j].units_consumed <= out[k].units_consumed
      BY <1>2, <1>4, <3>1 DEF TreeUnits
    <3>3. out[j].units_consumed \in Nat
      BY <1>4
    <3> QED BY <1>6, <3>1, <3>2, <3>3
  <2> QED BY <1>1, <1>8, <2>1, <2>2
<1> QED BY <1>7, <1>8

LEMMA HighInit == ASSUME Init PROVE HIInv
<1>1. IInv
  BY InitHolds
<1>2. TreeUnits
  <2>1. out = <<>> /\ truth = <<>>
    BY DEF Init
  <2> QED BY <2>1 DEF TreeUnits
<1>3. WithinDecoded
  BY BoundsAssumption DEF Init, RuntimeInit, WithinDecoded
<1>4. HighCuIffSimulated
  BY DEF Init, HighCuIffSimulated
<1> QED BY <1>1, <1>2, <1>3, <1>4 DEF HIInv

LEMMA HighNext ==
  ASSUME IndexesFit, BudgetIsBuiltin, HIInv, [Next]_vars
  PROVE  HIInv'
<1> USE DEF HIInv
<1>1. IInv'
  BY NextKeeps
<1>2. CASE Execute
  <2>1. /\ RuntimeNext /\ ReadLine /\ tops' <= decoded
        /\ simulation = "running" /\ UNCHANGED reportVars
    BY <1>2 DEF Execute, ReadLine
  <2>2. drops' = drops
    BY <2>1, RuntimeStep DEF IInv
  <2>3. WholeLog' => TreeUnits'
    BY <2>1, <2>2, TreeUnitsKept DEF WholeLog
  <2>4. WithinDecoded' /\ HighCuIffSimulated'
    BY <2>1 DEF reportVars, WithinDecoded, HighCuIffSimulated
  <2> QED BY <1>1, <2>3, <2>4
<1>3. ASSUME UNCHANGED <<rtVars, parserVars, truth, decoded>>
      PROVE  (WholeLog' => TreeUnits') /\ WithinDecoded'
  BY <1>3 DEF rtVars, parserVars, WholeLog, TreeUnits, Running, WithinDecoded
<1>4. CASE Answer
  <2>1. HighCuIffSimulated'
    BY <1>4 DEF Answer, HighCuIffSimulated
  <2> QED BY <1>1, <1>3, <1>4, <2>1 DEF Answer
<1>5. CASE CrossReference
  BY <1>1, <1>3, <1>5, CrossedSound DEF CrossReference
<1>6. CASE UNCHANGED vars
  <2>1. HighCuIffSimulated'
    BY <1>6 DEF vars, rtVars, parserVars, reportVars, HighCuIffSimulated,
               SimulatedUnits, WholeLog
  <2> QED BY <1>1, <1>3, <1>6, <2>1 DEF vars, reportVars
<1> QED BY <1>2, <1>4, <1>5, <1>6 DEF Next

\* After the cross-reference, when the log is whole, an instruction whose
\* consumption was logged is flagged for high compute exactly when it consumed
\* the threshold or more, whatever its callees consumed and in whatever order
\* frames ended or failed.
THEOREM HighCuSound ==
  ASSUME IndexesFit, BudgetIsBuiltin
  PROVE  Spec => []HighCuIffSimulated
<1>1. Init => HIInv
  BY HighInit
<1>2. HIInv /\ [Next]_vars => HIInv'
  BY HighNext
<1>3. HIInv => HighCuIffSimulated
  BY DEF HIInv
<1> QED BY <1>1, <1>2, <1>3, PTL DEF Spec

-----------------------------------------------------------------------------
(* The mutations *)

\* The transactions that differ from t in one amount.
OtherAmounts(t, i) == {Mutated(t, i, v) : v \in Nat \ {t.instructions[i].amount}}
Mutants(t) == UNION {OtherAmounts(t, i) : i \in 1..Len(t.instructions)}

LEMMA UnlessIs ==
  ASSUME NEW amount \in Nat, NEW v \in Nat
  PROVE  (IF v = amount THEN <<>> ELSE <<v>>) \in Seq(Nat \ {amount})
<1>1. CASE v = amount
  BY <1>1, EmptySeq
<1>2. CASE v # amount
  <2>1. v \in Nat \ {amount}
    BY <1>2
  <2> DEFINE S == Nat \ {amount}
  <2> HIDE DEF S
  <2>2. <<v>> \in Seq(S)
    BY <2>1 DEF S
  <2> QED BY <1>2, <2>2 DEF S
<1> QED BY <1>1, <1>2

LEMMA CandidatesDiffer ==
  ASSUME NEW amount \in Amount
  PROVE  Candidates(amount) \in Seq(Nat \ {amount})
<1> DEFINE twice == Min({2 * amount, MaxAmount})
           half == amount \div 2
           Unless(v) == IF v = amount THEN <<>> ELSE <<v>>
           S == Nat \ {amount}
<1>1. amount \in Nat /\ MaxAmount \in Nat
  BY ReplayBoundsAssumption DEF Amount
<1>2. twice \in Nat
  <2> DEFINE d == 2 * amount
  <2>1. d \in Nat
    BY <1>1
  <2> HIDE DEF d
  <2>2. \E n \in {d, MaxAmount} : \A m \in {d, MaxAmount} : m >= n
    BY <1>1, <2>1
  <2> QED BY <1>1, <2>1, <2>2 DEF Min
<1>3. half \in Nat
  <2>1. amount \div 2 \in Nat
    BY <1>1, DivMod
  <2> QED BY <2>1
<1>4. Candidates(amount) = Unless(twice) \o Unless(half) \o Unless(0)
  BY DEF Candidates
<1> HIDE DEF twice, half
<1>5. Unless(twice) \in Seq(S) /\ Unless(half) \in Seq(S) /\ Unless(0) \in Seq(S)
  BY <1>1, <1>2, <1>3, UnlessIs
<1> HIDE DEF Unless, S
<1>6. (Unless(twice) \o Unless(half)) \o Unless(0) \in Seq(S)
  BY <1>5, ConcatProperties
<1> QED BY <1>4, <1>6 DEF S

LEMMA MutationsDiffer ==
  ASSUME NEW t \in Transaction
  PROVE  build_mutations(t) \in Seq(Mutants(t))
<1> DEFINE n == Len(t.instructions)
           M == Mutants(t)
           ss == [i \in 1..n |-> MutationsOf(t, i)]
<1>1. n \in Nat /\ \A i \in 1..n : t.instructions[i] \in Instruction
  <2>1. t.instructions \in Seq(Instruction)
    BY DEF Transaction
  <2> QED BY <2>1, LenProperties, ElementOfSeq
<1>2. ASSUME NEW i \in 1..n
      PROVE  MutationsOf(t, i) \in Seq(M)
  <2> DEFINE a == t.instructions[i].amount
             values == Candidates(a)
             m == [k \in 1..Len(values) |-> Mutated(t, i, values[k])]
  <2>1. a \in Amount
    BY <1>1 DEF Instruction
  <2>2. values \in Seq(Nat \ {a})
    BY <2>1, CandidatesDiffer
  <2>3. Len(values) \in Nat /\ \A k \in 1..Len(values) : values[k] \in Nat \ {a}
    BY <2>2, LenProperties, ElementOfSeq
  <2>4. \A k \in 1..Len(values) : Mutated(t, i, values[k]) \in M
    <3> TAKE k \in 1..Len(values)
    <3>1. Mutated(t, i, values[k]) \in OtherAmounts(t, i)
      BY <2>3 DEF OtherAmounts
    <3> QED BY <3>1 DEF Mutants
  <2>5. m \in Seq(M)
    <3> HIDE DEF M, values
    <3> QED BY <2>3, <2>4, SeqDef
  <2>6. <<>> \in Seq(M)
    BY EmptySeq
  <2>7. MutationsOf(t, i) = IF HasLayout(t.instructions[i]) THEN m ELSE <<>>
    BY DEF MutationsOf
  <2> HIDE DEF m, M
  <2> QED BY <2>5, <2>6, <2>7
<1> HIDE DEF M
<1>3. ss \in Seq(Seq(M))
  <2>1. ss \in [1..n -> Seq(M)]
    BY <1>2
  <2> HIDE DEF ss
  <2> QED BY <1>1, <2>1, SeqDef
<1>4. build_mutations(t) = FlattenSeq(ss)
  BY DEF build_mutations
<1> HIDE DEF ss
<1>5. FlattenSeq(ss) \in Seq(M)
  BY <1>3, FlattenPlaces
<1> QED BY <1>4, <1>5 DEF M

\* Setting an amount does that, and leaves a transaction.
LEMMA MutatedProperties ==
  ASSUME NEW t \in Transaction, NEW i \in 1..Len(t.instructions), NEW v \in Nat
  PROVE  /\ Mutated(t, i, v).instructions[i].amount = v
         /\ Mutated(t, i, v).instructions \in Seq([program : STRING, from : Accounts,
                                                   to : Accounts, amount : Nat])
         /\ Len(Mutated(t, i, v).instructions) = Len(t.instructions)
<1> DEFINE s == t.instructions
           old == s[i]
           new == [old EXCEPT !.amount = v]
           I == [program : STRING, from : Accounts, to : Accounts, amount : Nat]
<1>1. s \in Seq(Instruction) /\ old \in Instruction /\ DOMAIN s = 1..Len(s) /\ Len(s) \in Nat
      /\ \A k \in 1..Len(s) : s[k] \in Instruction
  <2>1. s \in Seq(Instruction)
    BY DEF Transaction
  <2> QED BY <2>1, LenProperties, ElementOfSeq
<1>2. new.amount = v /\ new \in I
  BY <1>1 DEF Instruction
<1>3. \A k \in 1..Len(s) : s[k] \in I
  BY <1>1 DEF Instruction, Amount
<1>4. Mutated(t, i, v) = [t EXCEPT !.instructions = [s EXCEPT ![i] = new]]
  BY DEF Mutated
<1> HIDE DEF new
<1>5. Mutated(t, i, v).instructions = [s EXCEPT ![i] = new]
  BY <1>4 DEF Transaction
<1> DEFINE s2 == [s EXCEPT ![i] = new]
<1>6. s2[i] = new
  BY <1>1
<1>7. s2 \in [1..Len(s) -> I]
  <2> HIDE DEF I
  <2>1. s = [k \in 1..Len(s) |-> s[k]]
    BY <1>1
  <2> QED BY <1>1, <1>2, <1>3, <2>1
<1> HIDE DEF s2, I
<1>8. s2 \in Seq(I)
  BY <1>1, <1>7, SeqDef
<1>9. Len(s2) = Len(s)
  BY <1>1, <1>7, <1>8, LenProperties
<1> QED BY <1>2, <1>5, <1>6, <1>8, <1>9 DEF s2, I

LEMMA MutantsAre ==
  ASSUME NEW t \in Transaction, NEW m \in Mutants(t)
  PROVE  \E i \in 1..Len(t.instructions) :
           /\ m.instructions[i].amount # t.instructions[i].amount
           /\ m = Mutated(t, i, m.instructions[i].amount)
           /\ m.instructions \in Seq([program : STRING, from : Accounts,
                                      to : Accounts, amount : Nat])
<1>1. PICK i \in 1..Len(t.instructions) : m \in OtherAmounts(t, i)
  BY DEF Mutants
<1>2. PICK v \in Nat \ {t.instructions[i].amount} : m = Mutated(t, i, v)
  BY <1>1 DEF OtherAmounts
<1>3. m.instructions[i].amount = v
  BY <1>2, MutatedProperties
<1> QED BY <1>2, <1>3, MutatedProperties

-----------------------------------------------------------------------------
(* What LiteSVM makes of a transaction *)

AnyAmount == [program : STRING, from : Accounts, to : Accounts, amount : Nat]
States == UNION {[D -> Int] : D \in SUBSET Accounts}

\* The states of a run that began with these accounts.
RunsFrom(state, loaded) ==
  [success : BOOLEAN, units : Nat, state : {s \in States : DOMAIN state \subseteq DOMAIN s},
   loaded : {loaded}]

LEMMA StateProperties ==
  ASSUME NEW s
  PROVE  s \in States <=> DOMAIN s \subseteq Accounts /\ s \in [DOMAIN s -> Int]
BY DEF States

LEMMA MovedStates ==
  ASSUME NEW s \in States, NEW ins \in AnyAmount
  PROVE  MovedTo(s, ins) \in States /\ DOMAIN s \subseteq DOMAIN MovedTo(s, ins)
<1> DEFINE D == DOMAIN s \cup {ins.to}
           m == MovedTo(s, ins)
           b(k) == Held(s, k) + (IF k = ins.to THEN ins.amount ELSE 0)
                      - (IF k = ins.from THEN ins.amount ELSE 0)
<1>1. /\ ins.to \in Accounts /\ ins.amount \in Nat
      /\ DOMAIN s \subseteq Accounts /\ s \in [DOMAIN s -> Int]
  BY StateProperties DEF AnyAmount
<1>2. \A k \in D : Held(s, k) \in Int
  BY <1>1 DEF Held
<1>3. ASSUME NEW k \in D
      PROVE  b(k) \in Int
  <2> DEFINE h == Held(s, k)
             a == ins.amount
  <2>1. h \in Int /\ a \in Nat
    BY <1>1, <1>2
  <2> HIDE DEF h, a
  <2>2. h + (IF k = ins.to THEN a ELSE 0) - (IF k = ins.from THEN a ELSE 0) \in Int
    BY <2>1
  <2> QED BY <2>2 DEF h, a
<1>4. m = [k \in D |-> b(k)]
  BY DEF MovedTo
<1> HIDE DEF b, m
<1>5. DOMAIN m = D /\ m \in [D -> Int]
  BY <1>3, <1>4
<1>6. D \subseteq Accounts
  BY <1>1
<1>7. m \in States
  BY <1>5, <1>6, StateProperties
<1> QED BY <1>5, <1>7 DEF m

LEMMA StepType ==
  ASSUME NEW start, NEW loaded, NEW run \in RunsFrom(start, loaded), NEW ins \in AnyAmount
  PROVE  Step(run, ins) \in RunsFrom(start, loaded)
<1> DEFINE ok == IF HasLayout(ins) THEN CanMove(run.state, ins) ELSE ins.program \in run.loaded
           new == IF ok /\ HasLayout(ins) THEN MovedTo(run.state, ins) ELSE run.state
           S == {s \in States : DOMAIN start \subseteq DOMAIN s}
<1>1. /\ run.success \in BOOLEAN /\ run.units \in Nat /\ run.state \in S /\ run.loaded = loaded
      /\ run = [success |-> run.success, units |-> run.units, state |-> run.state,
                loaded |-> run.loaded]
  BY DEF RunsFrom
<1>2. new \in S
  <2>1. run.state \in States /\ DOMAIN start \subseteq DOMAIN run.state
    BY <1>1
  <2>2. MovedTo(run.state, ins) \in S
    BY <2>1, MovedStates
  <2> QED BY <1>1, <2>2
<1>3. ok \in BOOLEAN
  <2>1. CanMove(run.state, ins) \in BOOLEAN
    BY Zenon DEF CanMove
  <2>2. (ins.program \in run.loaded) \in BOOLEAN
    OBVIOUS
  <2> QED BY <2>1, <2>2
<1>4. CASE ~run.success
  BY <1>4 DEF Step
<1>5. CASE run.success
  <2>1. Step(run, ins) = [run EXCEPT !.success = ok, !.units = @ + 1, !.state = new]
    BY <1>5 DEF Step
  <2> HIDE DEF ok, new, S
  <2>2. Step(run, ins) = [success |-> ok, units |-> run.units + 1, state |-> new,
                          loaded |-> run.loaded]
    BY <1>1, <2>1
  <2>3. run.units + 1 \in Nat
    BY <1>1
  <2> QED BY <1>1, <1>2, <1>3, <2>2, <2>3 DEF RunsFrom, S
<1> QED BY <1>4, <1>5

\* A run ends with a balance for every account it began with.
LEMMA RunType ==
  ASSUME NEW t, t.instructions \in Seq(AnyAmount), NEW machine, machine.state \in States
  PROVE  Run(t, machine) \in RunsFrom(machine.state, machine.loaded)
<1> DEFINE n == Len(t.instructions)
           s == t.instructions
           X == RunsFrom(machine.state, machine.loaded)
           base == [success |-> t.looked_up = {}, units |-> 0, state |-> machine.state,
                    loaded |-> machine.loaded]
           Fits(it) == it = [u \in SUBSET (DOMAIN s) |->
                               IF u = {} THEN base
                               ELSE Step(it[u \ {Max(u)}], s[Max(u)])]
           iter == CHOOSE it : Fits(it)
           advance == [k \in 1..n |-> [x \in X |-> Step(x, s[k])]]
<1>1. Run(t, machine) = iter[DOMAIN s]
  BY Zenon DEF Run, FoldLeft, MapThenFoldSet
<1>2. n \in Nat /\ DOMAIN s = 1..n /\ \A k \in 1..n : s[k] \in AnyAmount
  BY LenProperties, ElementOfSeq
<1>3. base \in X
  <2>1. machine.state \in {m \in States : DOMAIN machine.state \subseteq DOMAIN m}
    OBVIOUS
  <2>2. (t.looked_up = {}) \in BOOLEAN
    OBVIOUS
  <2> QED BY <2>1, <2>2 DEF RunsFrom
<1> HIDE DEF base
<1>4. \A k \in 1..n : \A x \in X : Step(x, s[k]) \in X
  BY <1>2, StepType
<1> HIDE DEF X
<1>5. advance \in [1..n -> [X -> X]]
  BY <1>4
<1>6. PICK g \in [SUBSET (1..n) -> X] : Folds(g, base, advance, n)
  <2> HIDE DEF advance, n
  <2> QED BY <1>2, <1>3, <1>5, FoldDefined
<1>7. Fits(g)
  <2>1. ASSUME NEW u \in SUBSET (1..n), u # {}
        PROVE  g[u] = Step(g[u \ {Max(u)}], s[Max(u)])
    <3>1. Max(u) \in 1..n /\ u \ {Max(u)} \in SUBSET (1..n)
      <4> HIDE DEF n
      <4> QED BY <2>1, <1>2, MaxProperties
    <3>2. g[u \ {Max(u)}] \in X
      BY <3>1, <1>6
    <3>3. g[u] = advance[Max(u)][g[u \ {Max(u)}]]
      <4> HIDE DEF advance, n
      <4> QED BY <2>1, <3>1, <1>6 DEF Folds
    <3>4. advance[Max(u)][g[u \ {Max(u)}]] = Step(g[u \ {Max(u)}], s[Max(u)])
      <4> HIDE DEF n
      <4> QED BY <3>1, <3>2
    <3> QED BY <3>3, <3>4
  <2>2. g[{}] = base /\ {} \in SUBSET (1..n)
    BY <1>6 DEF Folds
  <2>3. \A u \in SUBSET (1..n) :
          g[u] = IF u = {} THEN base ELSE Step(g[u \ {Max(u)}], s[Max(u)])
    <3> HIDE DEF s, n
    <3> QED BY <2>1, <2>2
  <2> HIDE DEF s, n
  <2>4. g = [u \in SUBSET (1..n) |-> g[u]] /\ DOMAIN s = 1..n
    BY <1>2
  <2> QED BY <2>3, <2>4
<1>8. Fits(iter)
  <2> HIDE DEF Fits
  <2> QED BY <1>7
<1>9. \A u \in SUBSET (1..n) :
        iter[u] = IF u = {} THEN base ELSE Step(iter[u \ {Max(u)}], s[Max(u)])
  <2> HIDE DEF iter
  <2> QED BY <1>2, <1>8
<1> HIDE DEF iter
<1>10. OnPrefixes(iter, base, advance, n, X)
  <2>1. iter[{}] = base
    BY <1>9
  <2>2. ASSUME NEW k \in 1..n, iter[1..(k - 1)] \in X
        PROVE  iter[1..k] = advance[k][iter[1..(k - 1)]]
    <3>1. Max(1..k) = k /\ (1..k) \ {Max(1..k)} = 1..(k - 1)
      BY <1>2, MaxOfPrefix
    <3>2. 1..k \in SUBSET (1..n) /\ 1..k # {}
      <4> HIDE DEF n
      <4>1. k \in 1..k /\ 1..k \in SUBSET (1..n)
        BY <1>2
      <4> QED BY <4>1
    <3>3. iter[1..k] = Step(iter[1..(k - 1)], s[k])
      BY <1>9, <3>1, <3>2
    <3> HIDE DEF n
    <3> QED BY <2>2, <3>3
  <2> HIDE DEF advance
  <2> QED BY <2>1, <2>2 DEF OnPrefixes
<1>11. PICK c \in [0..n -> X] : c[n] = iter[1..n]
  <2> HIDE DEF advance, n
  <2> QED BY <1>2, <1>3, <1>5, <1>10, FoldPrefixes, SMTT(30)
<1>12. Run(t, machine) \in X
  <2>1. n \in 0..n
    BY <1>2
  <2> QED BY <1>1, <1>2, <1>11, <2>1
<1> QED BY <1>12 DEF X

\* What the sol_deltas of an outcome say of an account that was loaded.
LEMMA DeltaMeans ==
  ASSUME NEW t, t.instructions \in Seq(AnyAmount), pre \in States,
         NEW k \in DOMAIN pre \cap Wallets
  PROVE  LET o == Outcome(t, Machine, pre)
         IN  /\ Final(t)[k] \in Int /\ pre[k] \in Int
             /\ Held(o.sol_deltas, k) = Final(t)[k] - pre[k]
<1> DEFINE run == Run(t, Machine)
           known == DOMAIN pre \cap DOMAIN run.state
           d == {w \in known \cap Wallets : run.success /\ run.state[w] # pre[w]}
           deltas == [w \in d |-> run.state[w] - pre[w]]
           now == IF run.success THEN run.state[k] ELSE pre[k]
<1>1. run \in RunsFrom(pre, svm.loaded)
  <2>1. Machine.state = pre /\ Machine.loaded = svm.loaded
    BY DEF Machine
  <2> QED BY <2>1, RunType
<1>2. run.state \in States /\ DOMAIN pre \subseteq DOMAIN run.state
  BY <1>1 DEF RunsFrom
<1>3. pre[k] \in Int /\ run.state[k] \in Int /\ k \in known
  BY <1>2, StateProperties
<1>4. Outcome(t, Machine, pre).sol_deltas = deltas
  BY DEF Outcome
<1>5. Final(t)[k] = now
  BY DEF Final
<1> HIDE DEF run
<1>6. CASE k \in d
  <2>1. deltas[k] = run.state[k] - pre[k] /\ run.success /\ k \in DOMAIN deltas
    BY <1>6
  <2>2. Held(deltas, k) = run.state[k] - pre[k]
    BY <2>1 DEF Held
  <2> QED BY <1>3, <1>4, <1>5, <2>1, <2>2
<1>7. CASE k \notin d
  <2>1. now = pre[k]
    BY <1>3, <1>7
  <2>2. Held(deltas, k) = 0
    BY <1>7 DEF Held
  <2>3. now - pre[k] = 0
    BY <1>3, <2>1
  <2> QED BY <1>3, <1>4, <1>5, <2>1, <2>2, <2>3
<1> QED BY <1>6, <1>7

-----------------------------------------------------------------------------
(* The inductive invariant *)

Loading == service \in {"none", "read", "load", "fetch"}
Answering == service \in {"mutate", "print", "exited"}

\* The accounts loaded are those the chain had, and what runs in LiteSVM leaves
\* them; nothing is requested before the client collected, and nothing is loaded
\* before it is requested.
LoadedOK ==
  /\ chain \in States /\ pre \in States
  /\ svm = Machine
  /\ client \in {"collect", "spawn"} => service = "none"
  /\ Loading => report = [original |-> <<>>, mutations |-> <<>>, undecodable |-> <<>>]

RequestOK ==
  /\ tx \in Transactions
  /\ request.mutations \in Seq(Mutants(tx))

\* The outcome the k-th answer should have, and what it is said to change.
AnswerOK(k) ==
  LET a == report.mutations[k]
  IN  /\ a.label \in 1..(Position - 1)
      /\ a.outcome = Outcome(request.mutations[a.label], Machine, pre)
      /\ a.delta = diff_outcomes(Outcome(tx, Machine, pre), a.outcome)

Labels == {report.mutations[k].label : k \in 1..Len(report.mutations)}

\* So far every mutation up to a position has its outcome or a warning.
AnswersOK ==
  /\ report = [original |-> <<Outcome(tx, Machine, pre)>>, mutations |-> report.mutations,
               undecodable |-> report.undecodable]
  /\ report.mutations \in Seq(Range(report.mutations))
  /\ report.undecodable \in Seq(Nat)
  /\ Position - 1 <= Len(request.mutations)
  /\ Labels \cap Range(report.undecodable) = {}
  /\ Labels \cup Range(report.undecodable) = 1..(Position - 1)
  /\ \A k \in 1..Len(report.mutations) :
       AnswerOK(k) /\ (k > 1 => report.mutations[k - 1].label < report.mutations[k].label)

\* What is printed answers all of them.
ReportOK ==
  Answering => AnswersOK /\ (service # "mutate" => Position - 1 = Len(request.mutations))

\* What the client hands on is what the service finished with.
ResultOK ==
  /\ client # "done" => result.status = "none"
  /\ Accepted => service = "exited" /\ result.report = report

ReplayInv == LoadedOK /\ RequestOK /\ ReportOK /\ ResultOK /\ OrphansExplained

-----------------------------------------------------------------------------
(* What the steps keep *)

LEMMA ReplayInitHolds == ReplayInit => ReplayInv
<1> SUFFICES ASSUME ReplayInit PROVE ReplayInv
  OBVIOUS
<1> USE DEF ReplayInit
<1>1. LoadedOK
  <2>1. chain \in States
    <3>1. DOMAIN chain \subseteq Accounts /\ chain \in [DOMAIN chain -> Amount]
      BY ChainsAssumption
    <3>2. chain \in [DOMAIN chain -> Int]
      BY <3>1, ReplayBoundsAssumption DEF Amount
    <3> QED BY <3>1, <3>2, StateProperties
  <2>2. pre \in States
    <3>1. DOMAIN pre \subseteq Accounts /\ pre \in [DOMAIN pre -> Int]
      OBVIOUS
    <3> QED BY <3>1, StateProperties
  <2>3. svm = Machine
    BY DEF Machine
  <2> QED BY <2>1, <2>2, <2>3 DEF LoadedOK
<1>2. RequestOK
  BY EmptySeq DEF RequestOK
<1>3. ReportOK /\ ResultOK /\ OrphansExplained
  BY DEF ReportOK, Answering, ResultOK, Accepted, OrphansExplained
<1> QED BY <1>1, <1>2, <1>3 DEF ReplayInv

\* A balance moved on the chain leaves a state.
LEMMA ChainKept ==
  ASSUME chain \in States, ChainMoves
  PROVE  chain' \in States
<1>1. PICK from \in DOMAIN chain, to \in DOMAIN chain :
        chain' = [chain EXCEPT ![from] = @ - 1, ![to] = @ + 1]
  BY DEF ChainMoves
<1>2. DOMAIN chain \subseteq Accounts /\ chain \in [DOMAIN chain -> Int]
  BY StateProperties
<1>3. DOMAIN chain' = DOMAIN chain /\ chain' \in [DOMAIN chain -> Int]
  BY <1>1, <1>2
<1> QED BY <1>2, <1>3, StateProperties

LEMMA LoadedKept == ASSUME LoadedOK, [ReplayNext]_replayVars PROVE LoadedOK'
<1> USE DEF LoadedOK, Loading
<1>1. chain' \in States
  <2>1. CASE ChainMoves
    BY <2>1, ChainKept
  <2>2. CASE ~ChainMoves
    <3>1. chain' = chain
      BY <2>2 DEF ReplayNext, Client, Service, replayVars, chainVars, Collect, Spawn,
         WriteChunk, CloseStdin, Drain, Finish, GiveUp, Tick, Read, ReadEnd, LoadPrograms,
         FetchAccount, ExecuteOriginal, ExecuteMutation, StartPrinting, WriteReport, Exit, Fail
    <3> QED BY <3>1
  <2> QED BY <2>1, <2>2
<1>2. CASE FetchAccount
  <2> DEFINE k == CHOOSE a \in unfetched : TRUE
             more == Extended(pre, k)
  <2>1. CASE k \notin DOMAIN chain
    <3>1. pre' = pre /\ svm' = svm
      BY <1>2, <2>1 DEF FetchAccount
    <3>2. client' = client /\ service' = service /\ report' = report
      BY <1>2 DEF FetchAccount, clientVars
    <3>3. svm' = Machine'
      BY <3>1 DEF Machine
    <3> QED BY <1>1, <3>1, <3>2, <3>3
  <2>2. CASE k \in DOMAIN chain
    <3>1. pre' = more /\ svm' = [svm EXCEPT !.state = Extended(svm.state, k)]
      BY <1>2, <2>2 DEF FetchAccount
    <3>2. svm = [state |-> pre, loaded |-> svm.loaded]
      BY DEF Machine
    <3> HIDE DEF k
    <3>3. svm' = [state |-> more, loaded |-> svm.loaded]
      BY <3>1, <3>2
    <3>4. more \in States
      <4>1. /\ DOMAIN chain \subseteq Accounts /\ chain \in [DOMAIN chain -> Int]
            /\ DOMAIN pre \subseteq Accounts /\ pre \in [DOMAIN pre -> Int]
        BY StateProperties
      <4>2. DOMAIN more = DOMAIN pre \cup {k} /\ more \in [DOMAIN pre \cup {k} -> Int]
        BY <2>2, <4>1 DEF Extended
      <4>3. DOMAIN more \subseteq Accounts
        BY <2>2, <4>1, <4>2
      <4> HIDE DEF more
      <4> QED BY <4>2, <4>3, StateProperties
    <3>5. svm' = Machine'
      BY <3>1, <3>3 DEF Machine
    <3>6. client' = client /\ service' = service /\ report' = report
      BY <1>2 DEF FetchAccount, clientVars
    <3> QED BY <1>1, <3>1, <3>4, <3>5, <3>6
  <2> QED BY <2>1, <2>2
<1>3. CASE LoadPrograms
  <2>1. PICK given \in SUBSET request.programs :
          svm' = [svm EXCEPT !.loaded = Builtin \cup given]
    BY <1>3 DEF LoadPrograms
  <2>2. svm = [state |-> pre, loaded |-> svm.loaded]
    BY DEF Machine
  <2>3. svm' = [state |-> pre, loaded |-> svm'.loaded]
    <3> DEFINE programs == Builtin \cup given
               old == svm.loaded
    <3>1. svm' = [svm EXCEPT !.loaded = programs] /\ svm = [state |-> pre, loaded |-> old]
      BY <2>1, <2>2
    <3> HIDE DEF programs, old
    <3>2. svm' = [state |-> pre, loaded |-> programs]
      BY <3>1
    <3> QED BY <3>2
  <2>4. /\ pre' = pre /\ client' = client /\ report' = report
        /\ service = "load" /\ service' = "fetch"
    BY <1>3 DEF LoadPrograms, ServiceDoes, clientVars
  <2>5. svm' = Machine'
    BY <2>3, <2>4 DEF Machine
  <2> QED BY <1>1, <2>4, <2>5
<1>4. CASE ExecuteOriginal \/ ExecuteMutation
  <2>1. svm' = svm /\ pre' = pre /\ client' = client /\ ~Loading'
        /\ service # "none"
    BY <1>4 DEF ExecuteOriginal, ExecuteMutation, Committed, ServiceDoes, clientVars
  <2>2. svm' = Machine'
    BY <2>1 DEF Machine
  <2> QED BY <1>1, <2>1, <2>2
<1>5. CASE ~(FetchAccount \/ LoadPrograms \/ ExecuteOriginal \/ ExecuteMutation)
  <2>1. pre' = pre /\ svm' = svm /\ report' = report
    BY <1>5 DEF ReplayNext, Client, Service, replayVars, chainVars, serviceVars, Collect, Spawn,
       WriteChunk, CloseStdin, Drain, Finish, GiveUp, Tick, Read, ReadEnd, StartPrinting,
       WriteReport, Exit, Fail, ChainMoves
  <2>2. /\ client' \in {"collect", "spawn"} => service' = "none"
        /\ Loading' => Loading
    BY <1>5 DEF ReplayNext, Client, Service, replayVars, clientVars, serviceVars, Collect, Spawn,
       WriteChunk, CloseStdin, Drain, Finish, GiveUp, Give, Tick, Read, ReadEnd, StartPrinting,
       WriteReport, Exit, Fail, ServiceDoes, ChainMoves
  <2>3. svm' = Machine'
    BY <2>1 DEF Machine
  <2> QED BY <1>1, <2>1, <2>2, <2>3
<1> QED BY <1>2, <1>3, <1>4, <1>5

LEMMA RequestKept == ASSUME RequestOK, [ReplayNext]_replayVars PROVE RequestOK'
<1>1. tx' = tx
  BY DEF ReplayNext, Client, Service, replayVars, Collect, Spawn, WriteChunk, CloseStdin, Drain,
     Finish, GiveUp, Tick, Read, ReadEnd, LoadPrograms, FetchAccount, ExecuteOriginal,
     ExecuteMutation, StartPrinting, WriteReport, Exit, Fail, ChainMoves
<1>2. CASE Collect
  <2>1. request'.mutations = build_mutations(tx)
    BY <1>2 DEF Collect
  <2>2. tx \in Transaction
    BY TransactionsAssumption DEF RequestOK
  <2> QED BY <1>1, <2>1, <2>2, MutationsDiffer DEF RequestOK
<1>3. CASE ~Collect
  <2>1. request' = request
    BY <1>3 DEF ReplayNext, Client, Service, replayVars, Spawn, WriteChunk, CloseStdin, Drain,
       Finish, GiveUp, Tick, Read, ReadEnd, LoadPrograms, FetchAccount, ExecuteOriginal,
       ExecuteMutation, StartPrinting, WriteReport, Exit, Fail, ChainMoves
  <2> QED BY <1>1, <2>1 DEF RequestOK
<1> QED BY <1>2, <1>3

LEMMA ResultKept ==
  ASSUME LoadedOK, ResultOK, OrphansExplained, [ReplayNext]_replayVars
  PROVE  ResultOK' /\ OrphansExplained'
<1> USE DEF ResultOK, Accepted, OrphansExplained, Exited, LoadedOK
<1>1. CASE Client
  <2>1. CASE Collect \/ CloseStdin \/ Drain
    BY <2>1 DEF Collect, CloseStdin, Drain, serviceVars
  <2>2. CASE Spawn
    BY <2>2 DEF Spawn, Give
  <2>3. CASE WriteChunk
    BY <2>3 DEF WriteChunk, Give, serviceVars
  <2>4. CASE Finish
    BY <2>4 DEF Finish, Ready, Give, serviceVars
  <2>5. CASE GiveUp
    BY <2>5 DEF GiveUp, Give, serviceVars
  <2> QED BY <1>1, <2>1, <2>2, <2>3, <2>4, <2>5 DEF Client
<1>2. CASE Service
  BY <1>2 DEF Service, clientVars, serviceVars, Read, ReadEnd, LoadPrograms, FetchAccount,
     ExecuteOriginal, ExecuteMutation, StartPrinting, WriteReport, Exit, Fail, ServiceDoes
<1>3. CASE Tick \/ ChainMoves \/ UNCHANGED replayVars
  BY <1>3 DEF Tick, ChainMoves, replayVars, clientVars, serviceVars
<1> QED BY <1>1, <1>2, <1>3 DEF ReplayNext

-----------------------------------------------------------------------------
(* The report, one answer after the other *)

LEMMA AnswersUntouched ==
  ASSUME AnswersOK, UNCHANGED <<report, pre, svm, request, tx>>
  PROVE  AnswersOK' /\ Position' = Position
<1> USE DEF Position
<1>1. Machine' = Machine
  BY DEF Machine
<1>2. Labels' = Labels
  BY DEF Labels
<1>3. ASSUME NEW k
      PROVE  AnswerOK(k)' <=> AnswerOK(k)
  BY <1>1 DEF AnswerOK
<1> QED BY <1>1, <1>2, <1>3 DEF AnswersOK

LEMMA StartsAnswering ==
  ASSUME LoadedOK, ExecuteOriginal, RequestOK
  PROVE  AnswersOK' /\ Position' = 1
<1>1. /\ report = [original |-> <<>>, mutations |-> <<>>, undecodable |-> <<>>]
      /\ svm' = svm /\ pre' = pre /\ request' = request /\ tx' = tx
      /\ report' = [report EXCEPT !.original = <<Outcome(tx, svm, pre)>>]
      /\ svm = Machine
  BY DEF LoadedOK, ExecuteOriginal, Loading, ServiceDoes, Committed
<1>2. Machine' = Machine
  BY <1>1 DEF Machine
<1> DEFINE first == <<Outcome(tx, Machine, pre)>>
<1>3. first' = first
  BY <1>1, <1>2
<1>4. report' = [original |-> first, mutations |-> <<>>, undecodable |-> <<>>]
  BY <1>1
<1> HIDE DEF first
<1>5. report'.mutations = <<>> /\ report'.undecodable = <<>> /\ Len(<<>>) = 0
  BY <1>4
<1>6. Position' = 1
  BY <1>5 DEF Position
<1>7. Labels' = {} /\ Range(<<>>) = {}
  BY <1>5 DEF Labels, Range
<1>8. Len(request.mutations) \in Nat
  BY LenProperties DEF RequestOK
<1>9. /\ report'.mutations \in Seq(Range(report'.mutations)) /\ report'.undecodable \in Seq(Nat)
      /\ Position' - 1 <= Len(request'.mutations)
      /\ Labels' \cap Range(report'.undecodable) = {}
      /\ Labels' \cup Range(report'.undecodable) = 1..(Position' - 1)
  BY <1>1, <1>5, <1>6, <1>7, <1>8, EmptySeq
<1>10. \A k \in 1..Len(report'.mutations) :
         AnswerOK(k)' /\ (k > 1 => report'.mutations[k - 1].label < report'.mutations[k].label)
  BY <1>5
<1>11. report' = [original |-> first', mutations |-> report'.mutations,
                  undecodable |-> report'.undecodable]
  BY <1>3, <1>4, <1>5
<1> QED BY <1>6, <1>9, <1>10, <1>11 DEF AnswersOK, first

\* A mutation answered with its outcome.
AnswersMutation ==
  LET outcome == Outcome(request.mutations[Position], svm, pre)
  IN  report' = [report EXCEPT !.mutations =
                   Append(@, [label |-> Position, outcome |-> outcome,
                              delta |-> diff_outcomes(report.original[1], outcome)])]

\* A mutation that cannot be decoded.
WarnsOfMutation == report' = [report EXCEPT !.undecodable = Append(@, Position)]

LEMMA Counted ==
  ASSUME NEW a \in Nat, NEW b \in Nat
  PROVE  a + (b + 1) + 1 = (a + b + 1) + 1 /\ (a + 1) + b + 1 = (a + b + 1) + 1
OBVIOUS

LEMMA Before ==
  ASSUME NEW p \in Nat
  PROVE  /\ \A k \in 1..(p - 1) : k \in 1..((p + 1) - 1) /\ k < p
         /\ p > 0 => p \in 1..((p + 1) - 1)
OBVIOUS

LEMMA KeepsAnswering ==
  ASSUME LoadedOK, AnswersOK, ExecuteMutation
  PROVE  AnswersOK'
<1> DEFINE p == Position
           M == report.mutations
           U == report.undecodable
           o == <<Outcome(tx, Machine, pre)>>
           count == Len(request.mutations)
<1>1. /\ UNCHANGED <<svm, pre, request, tx>> /\ svm = Machine /\ p <= count
      /\ AnswersMutation \/ WarnsOfMutation
  BY DEF LoadedOK, ExecuteMutation, Committed, AnswersMutation, WarnsOfMutation
<1>2. Machine' = Machine
  BY <1>1 DEF Machine
<1>3. /\ report = [original |-> o, mutations |-> M, undecodable |-> U]
      /\ M \in Seq(Range(M)) /\ U \in Seq(Nat)
      /\ Labels \cap Range(U) = {} /\ Labels \cup Range(U) = 1..(p - 1)
      /\ \A k \in 1..Len(M) : AnswerOK(k) /\ (k > 1 => M[k - 1].label < M[k].label)
  BY DEF AnswersOK
<1>4. Len(M) \in Nat /\ Len(U) \in Nat /\ p = Len(M) + Len(U) + 1 /\ p \in Nat /\ p > 0
  BY <1>3, LenProperties DEF Position
<1>5. \A k \in 1..Len(M) : M[k].label \in 1..(p - 1)
  BY <1>3 DEF AnswerOK
<1>6. p \notin Labels /\ p \notin Range(U) /\ (1..(p - 1)) \cup {p} = 1..p
  <2>1. p \notin 1..(p - 1) /\ (1..(p - 1)) \cup {p} = 1..p
    <3>1. p \in Nat /\ p > 0
      BY <1>4
    <3> HIDE DEF p
    <3> QED BY <3>1
  <2> HIDE DEF p, U
  <2> QED BY <1>3, <2>1
<1>7. CASE WarnsOfMutation
  <2> DEFINE V == Append(U, p)
  <2>1. report' = [original |-> o, mutations |-> M, undecodable |-> V]
    <3>1. report' = [report EXCEPT !.undecodable = V]
      BY <1>7 DEF WarnsOfMutation
    <3> HIDE DEF V, M, U, o
    <3> QED BY <1>3, <3>1
  <2>2. report'.original = o /\ report'.mutations = M /\ report'.undecodable = V
    BY <2>1
  <2>3. V \in Seq(Nat) /\ Range(V) = Range(U) \cup {p} /\ Len(V) = Len(U) + 1
    BY <1>3, <1>4, AppendRange, AppendProperties
  <2>4. Position' = p + 1
    <3>1. Position' = Len(M) + (Len(U) + 1) + 1
      BY <2>2, <2>3 DEF Position
    <3> QED BY <3>1, <1>4, Counted
  <2>5. Labels' = Labels
    BY <2>2 DEF Labels
  <2>6. /\ Labels \cap Range(V) = {} /\ Labels \cup Range(V) = 1..p
    BY <1>3, <1>6, <2>3
  <2>7. ASSUME NEW k \in 1..Len(M)
        PROVE  AnswerOK(k)'
    <3>1. M[k].label \in 1..(Position' - 1)
      BY <1>4, <1>5, <2>4, Before
    <3>2. /\ M[k].outcome = Outcome(request.mutations[M[k].label], Machine, pre)
          /\ M[k].delta = diff_outcomes(Outcome(tx, Machine, pre), M[k].outcome)
      BY <1>3 DEF AnswerOK
    <3> QED BY <1>1, <1>2, <2>2, <3>1, <3>2 DEF AnswerOK
  <2>8. o' = o
    BY <1>1, <1>2
  <2>9. Position' - 1 = p
    BY <1>4, <2>4
  <2>10. report' = [original |-> o', mutations |-> report'.mutations,
                    undecodable |-> report'.undecodable]
    BY <2>1, <2>2, <2>8
  <2> HIDE DEF p, V, M, U, o
  <2> QED BY <1>1, <1>3, <2>2, <2>3, <2>5, <2>6, <2>7, <2>9, <2>10 DEF AnswersOK, o
<1>8. CASE AnswersMutation
  <2> DEFINE outcome == Outcome(request.mutations[p], Machine, pre)
             e == [label |-> p, outcome |-> outcome,
                   delta |-> diff_outcomes(Outcome(tx, Machine, pre), outcome)]
             N == Append(M, e)
  <2>1. report' = [original |-> o, mutations |-> N, undecodable |-> U]
    <3>1. report.original[1] = Outcome(tx, Machine, pre)
      BY <1>3
    <3>2. report' = [report EXCEPT !.mutations = N]
      BY <1>1, <1>8, <3>1 DEF AnswersMutation
    <3> HIDE DEF N, M, U, o
    <3> QED BY <1>3, <3>2
  <2>2. report'.original = o /\ report'.mutations = N /\ report'.undecodable = U
    BY <2>1
  <2>3. /\ N \in Seq(Range(M) \cup {e}) /\ Range(N) = Range(M) \cup {e}
        /\ Len(N) = Len(M) + 1 /\ \A i \in 1..Len(M) : N[i] = M[i]
        /\ N[Len(M) + 1] = e
    <3> DEFINE R == Range(M)
    <3>1. M \in Seq(R)
      BY <1>3
    <3> HIDE DEF e, R
    <3> HIDE DEF M
    <3>2. Append(M, e) \in Seq(R \cup {e})
      BY <3>1, AppendValue
    <3>4. Len(Append(M, e)) = Len(M) + 1 /\ Append(M, e)[Len(M) + 1] = e
      BY <3>1, AppendValue
    <3>5. \A i \in 1..Len(M) : Append(M, e)[i] = M[i]
      BY <3>1, AppendValue
    <3>3. Range(Append(M, e)) = Range(M) \cup {e}
      <4>1. /\ DOMAIN Append(M, e) = 1..(Len(M) + 1) /\ DOMAIN M = 1..Len(M)
            /\ Len(M) \in Nat
        BY <3>1, <3>2, <3>4, LenProperties
      <4> QED BY <3>4, <3>5, <4>1 DEF Range
    <3> QED BY <3>2, <3>3, <3>4, <3>5 DEF R
  <2>4. Position' = p + 1
    <3>1. Position' = (Len(M) + 1) + Len(U) + 1
      BY <2>2, <2>3 DEF Position
    <3> QED BY <3>1, <1>4, Counted
  <2>5. Labels' = Labels \cup {p}
    <3>1. e.label = p
      OBVIOUS
    <3> HIDE DEF e, N, p
    <3>2. Labels' = {N[k].label : k \in 1..(Len(M) + 1)}
      BY <2>2, <2>3 DEF Labels
    <3>3. Labels = {N[k].label : k \in 1..Len(M)}
      BY <2>3 DEF Labels
    <3>4. 1..(Len(M) + 1) = (1..Len(M)) \cup {Len(M) + 1}
      BY <1>4
    <3> QED BY <2>3, <3>1, <3>2, <3>3, <3>4
  <2>6. /\ Labels' \cap Range(U) = {} /\ Labels' \cup Range(U) = 1..p
    BY <1>3, <1>6, <2>5
  <2>7. ASSUME NEW k \in 1..(Len(M) + 1)
        PROVE  AnswerOK(k)' /\ (k > 1 => N[k - 1].label < N[k].label)
    <3>1. CASE k \in 1..Len(M)
      <4>1. N[k] = M[k] /\ (k > 1 => N[k - 1] = M[k - 1])
        BY <1>4, <2>3, <3>1
      <4>2. M[k].label \in 1..(Position' - 1)
        BY <1>4, <1>5, <2>4, <3>1, Before
      <4>3. /\ M[k].outcome = Outcome(request.mutations[M[k].label], Machine, pre)
            /\ M[k].delta = diff_outcomes(Outcome(tx, Machine, pre), M[k].outcome)
        BY <1>3, <3>1 DEF AnswerOK
      <4>4. AnswerOK(k)'
        BY <1>1, <1>2, <2>2, <4>1, <4>2, <4>3 DEF AnswerOK
      <4>5. k > 1 => M[k - 1].label < M[k].label
        BY <1>3, <3>1
      <4> HIDE DEF M, N
      <4> QED BY <4>1, <4>4, <4>5
    <3>2. CASE k = Len(M) + 1
      <4>1. N[k] = e /\ p \in 1..(Position' - 1)
        BY <1>4, <2>3, <2>4, <3>2, Before
      <4>2. AnswerOK(k)'
        BY <1>1, <1>2, <2>2, <4>1 DEF AnswerOK
      <4>3. ASSUME k > 1
            PROVE  N[k - 1].label < p
        <5>1. k - 1 \in 1..Len(M) /\ k - 1 = Len(M)
          BY <1>4, <3>2, <4>3
        <5>2. N[k - 1] = M[k - 1]
          BY <2>3, <5>1
        <5>3. M[k - 1].label \in 1..(p - 1)
          BY <1>5, <5>1
        <5> QED BY <1>4, <5>2, <5>3, Before
      <4> QED BY <4>1, <4>2, <4>3
    <3> HIDE DEF M, N, p
    <3> QED BY <1>4, <3>1, <3>2
  <2>8. o' = o
    BY <1>1, <1>2
  <2>9. Position' - 1 = p
    BY <1>4, <2>4
  <2>10. report' = [original |-> o', mutations |-> report'.mutations,
                    undecodable |-> report'.undecodable]
    BY <2>1, <2>2, <2>8
  <2> HIDE DEF p, N, M, U, o, e
  <2> QED BY <1>1, <1>3, <2>2, <2>3, <2>6, <2>7, <2>9, <2>10 DEF AnswersOK, o
<1> QED BY <1>1, <1>7, <1>8

LEMMA ReportKept ==
  ASSUME LoadedOK, RequestOK, ReportOK, [ReplayNext]_replayVars
  PROVE  ReportOK'
<1>1. CASE ExecuteOriginal
  <2>1. AnswersOK' /\ service' = "mutate"
    BY <1>1, StartsAnswering DEF ExecuteOriginal, ServiceDoes
  <2> QED BY <2>1 DEF ReportOK
<1>2. CASE ExecuteMutation
  <2>1. AnswersOK' /\ service' = "mutate"
    BY <1>2, KeepsAnswering DEF ExecuteMutation, ReportOK, Answering
  <2> QED BY <2>1 DEF ReportOK
<1>3. CASE Collect \/ FetchAccount \/ LoadPrograms
  <2>1. ~Answering'
    BY <1>3 DEF LoadedOK, Collect, FetchAccount, LoadPrograms, ServiceDoes, serviceVars, Answering
  <2> QED BY <2>1 DEF ReportOK
<1>4. CASE ~(ExecuteOriginal \/ ExecuteMutation \/ Collect \/ FetchAccount \/ LoadPrograms)
  <2>1. UNCHANGED <<report, pre, svm, request, tx>>
    BY <1>4 DEF ReplayNext, Client, Service, replayVars, serviceVars, Spawn,
       WriteChunk, CloseStdin, Drain, Finish, GiveUp, Tick, Read, ReadEnd, StartPrinting,
       WriteReport, Exit, Fail, ChainMoves
  <2>2. Answering' => Answering /\ (service = "mutate" => service' = "mutate" \/ StartPrinting)
    BY <1>4 DEF ReplayNext, Client, Service, replayVars, clientVars, serviceVars, Spawn,
       WriteChunk, CloseStdin, Drain, Finish, GiveUp, Give, Tick, Read, ReadEnd, StartPrinting,
       WriteReport, Exit, Fail, ServiceDoes, ChainMoves, Answering
  <2>3. ASSUME Answering'
        PROVE  AnswersOK' /\ (service' # "mutate" => Position' - 1 = Len(request'.mutations))
    <3>1. AnswersOK /\ (service # "mutate" => Position - 1 = Len(request.mutations))
      BY <2>2, <2>3 DEF ReportOK
    <3>2. AnswersOK' /\ Position' = Position
      BY <2>1, <3>1, AnswersUntouched
    <3>3. CASE StartPrinting
      <4>1. Position > Len(request.mutations) /\ Position - 1 <= Len(request.mutations)
        BY <3>1, <3>3 DEF StartPrinting, AnswersOK
      <4>2. Position \in Int /\ Len(request.mutations) \in Int
        BY <3>1, LenProperties DEF AnswersOK, Position, RequestOK
      <4> QED BY <2>1, <3>2, <4>1, <4>2
    <3> QED BY <2>1, <2>2, <2>3, <3>1, <3>2, <3>3
  <2> QED BY <2>3 DEF ReportOK
<1> QED BY <1>1, <1>2, <1>3, <1>4

-----------------------------------------------------------------------------
(* The theorems *)

\* What the client hands on and the service loaded, in every reachable state.
THEOREM ReplayInvariant == ReplaySpec => []ReplayInv
<1>1. ReplayInit => ReplayInv
  BY ReplayInitHolds
<1>2. ReplayInv /\ [ReplayNext]_replayVars => ReplayInv'
  <2> SUFFICES ASSUME ReplayInv, [ReplayNext]_replayVars PROVE ReplayInv'
    OBVIOUS
  <2>1. LoadedOK /\ RequestOK /\ ReportOK /\ ResultOK /\ OrphansExplained
    BY DEF ReplayInv
  <2>2. LoadedOK' /\ RequestOK' /\ ReportOK' /\ ResultOK' /\ OrphansExplained'
    <3>1. LoadedOK'
      BY <2>1, LoadedKept
    <3>2. RequestOK'
      BY <2>1, RequestKept
    <3>3. ReportOK'
      BY <2>1, ReportKept
    <3>4. ResultOK' /\ OrphansExplained'
      BY <2>1, ResultKept
    <3> QED BY <3>1, <3>2, <3>3, <3>4
  <2> QED BY <2>2 DEF ReplayInv
<1> QED BY <1>1, <1>2, PTL DEF ReplaySpec

THEOREM OrphansTheorem == ReplaySpec => []OrphansExplained
<1>1. ReplayInv => OrphansExplained
  BY DEF ReplayInv
<1> QED BY <1>1, ReplayInvariant, PTL

LEMMA MutantsDifferHolds == ASSUME RequestOK PROVE MutantsDiffer
<1>1. tx \in Transaction /\ request.mutations \in Seq(Mutants(tx))
  BY TransactionsAssumption DEF RequestOK
<1> SUFFICES ASSUME NEW m \in ToSet(request.mutations)
             PROVE  \E i \in 1..Len(tx.instructions) :
                      /\ m.instructions[i].amount # tx.instructions[i].amount
                      /\ m = Mutated(tx, i, m.instructions[i].amount)
  BY DEF MutantsDiffer
<1>2. m \in Mutants(tx)
  BY <1>1, ElementOfSeq, LenProperties DEF ToSet
<1> QED BY <1>1, <1>2, MutantsAre

LEMMA AnswersRequestHolds == ASSUME ReportOK, ResultOK PROVE AnswersRequest
<1> SUFFICES ASSUME Accepted PROVE AnswersRequest
  BY DEF AnswersRequest
<1>1. service = "exited" /\ result.report = report
  BY DEF ResultOK
<1>2. /\ report = [original |-> <<Outcome(tx, Machine, pre)>>, mutations |-> report.mutations,
                   undecodable |-> report.undecodable]
      /\ Position - 1 = Len(request.mutations)
      /\ Labels \cap Range(report.undecodable) = {}
      /\ Labels \cup Range(report.undecodable) = 1..(Position - 1)
      /\ \A k \in 1..Len(report.mutations) :
           AnswerOK(k) /\ (k > 1 => report.mutations[k - 1].label < report.mutations[k].label)
  BY <1>1 DEF ReportOK, AnswersOK, Answering
<1>3. Range(report.undecodable) = ToSet(report.undecodable)
  BY DEF Range, ToSet
<1>4. report.original = <<Outcome(tx, Machine, pre)>>
  BY <1>2
<1> QED BY <1>1, <1>2, <1>3, <1>4 DEF AnswersRequest, Labels, AnswerOK

\* Every mutation is answered as itself, whatever ran before it.
THEOREM MutationsTheorem == ReplaySpec => []MutationsAnswered
<1>1. ReplayInv => MutationsAnswered
  BY MutantsDifferHolds, AnswersRequestHolds DEF ReplayInv, MutationsAnswered
<1> QED BY <1>1, ReplayInvariant, PTL

\* No difference of the deltas, the ones only one side has included.
LEMMA NoDifference ==
  ASSUME NEW original, NEW mutated, diff_outcomes(original, mutated) = {}, NEW k
  PROVE  Held(original.sol_deltas, k) = Held(mutated.sol_deltas, k)
<1>1. CASE k \in DOMAIN original.sol_deltas \cup DOMAIN mutated.sol_deltas
  BY <1>1 DEF diff_outcomes
<1>2. CASE k \notin DOMAIN original.sol_deltas \cup DOMAIN mutated.sol_deltas
  BY <1>2 DEF Held
<1> QED BY <1>1, <1>2

LEMMA SolEffectHolds ==
  ASSUME LoadedOK, RequestOK, ReportOK, ResultOK
  PROVE  SolEffectReported
<1> SUFFICES ASSUME Accepted, NEW m \in ToSet(result.report.mutations), m.delta = {},
                    NEW k \in DOMAIN pre \cap Wallets
             PROVE  Final(request.mutations[m.label])[k] = Final(tx)[k]
  BY DEF SolEffectReported
<1>1. service = "exited" /\ result.report = report
  BY DEF ResultOK
<1>2. PICK j \in 1..Len(report.mutations) : m = report.mutations[j]
  BY <1>1, LenProperties DEF ReportOK, AnswersOK, Answering, ToSet
<1> DEFINE t == request.mutations[m.label]
           o == Outcome(tx, Machine, pre)
<1>3. AnswerOK(j) /\ Position - 1 = Len(request.mutations)
  BY <1>1 DEF ReportOK, AnswersOK, Answering
<1>4. /\ m.label \in 1..Len(request.mutations) /\ m.outcome = Outcome(t, Machine, pre)
      /\ diff_outcomes(o, m.outcome) = {}
  BY <1>2, <1>3 DEF AnswerOK
<1>5. tx.instructions \in Seq(AnyAmount) /\ t.instructions \in Seq(AnyAmount)
  <2>1. tx \in Transaction /\ request.mutations \in Seq(Mutants(tx))
    BY TransactionsAssumption DEF RequestOK
  <2>2. t \in Mutants(tx)
    BY <1>4, <2>1, ElementOfSeq
  <2>3. t.instructions \in Seq(AnyAmount)
    <3> HIDE DEF t
    <3> QED BY <2>1, <2>2, MutantsAre DEF AnyAmount
  <2>4. tx.instructions \in Seq(Instruction)
    BY <2>1 DEF Transaction
  <2>5. Instruction \subseteq AnyAmount
    BY ReplayBoundsAssumption DEF Instruction, AnyAmount, Amount
  <2>6. tx.instructions \in Seq(AnyAmount)
    BY <2>4, <2>5, ElementOfSeq, LenProperties, SeqDef
  <2> QED BY <2>3, <2>6
<1>6. pre \in States
  BY DEF LoadedOK
<1>7. Held(o.sol_deltas, k) = Held(m.outcome.sol_deltas, k)
  <2> HIDE DEF o
  <2> QED BY <1>4, NoDifference
<1> HIDE DEF t
<1>8. /\ Final(tx)[k] \in Int /\ pre[k] \in Int
      /\ Held(o.sol_deltas, k) = Final(tx)[k] - pre[k]
  BY <1>5, <1>6, DeltaMeans
<1>9. /\ Final(t)[k] \in Int
      /\ Held(m.outcome.sol_deltas, k) = Final(t)[k] - pre[k]
  BY <1>4, <1>5, <1>6, DeltaMeans
<1> DEFINE a == Final(tx)[k]
           b == Final(t)[k]
           c == pre[k]
<1>10. a \in Int /\ b \in Int /\ c \in Int /\ a - c = b - c
  BY <1>7, <1>8, <1>9
<1> HIDE DEF a, b, c
<1>11. a = b
  BY <1>10
<1> QED BY <1>11 DEF a, b, t

\* A mutation reported to change nothing leaves every loaded wallet as the original does.
THEOREM SolEffectTheorem == ReplaySpec => []SolEffectReported
<1>1. ReplayInv => SolEffectReported
  BY SolEffectHolds DEF ReplayInv
<1> QED BY <1>1, ReplayInvariant, PTL
=============================================================================
